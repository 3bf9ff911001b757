\* close() must reach pico_socket_close once per engine socket.
CONSTANTS
  a1 = a1  a2 = a2  c1 = c1  c2 = c2
  p1 = p1  p2 = p2  p3 = p3  p4 = p4
  NULL = NULL
  Apps <- MCApps
  Children <- MCChildren
  PSocks <- MCPSocks
  OptCalls <- MCOptCalls
SYMMETRY Symm
SPECIFICATION Spec
INVARIANT CloseOnce
CHECK_DEADLOCK FALSE
