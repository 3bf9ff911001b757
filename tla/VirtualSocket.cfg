\* Socket lifecycle and event dispatch: two application sockets, two accepted
\* children, four engine sockets. Every socket may end closed and freed, after
\* which nothing is left to do, so a terminal state is not a deadlock.
CONSTANTS
  a1 = a1  a2 = a2  c1 = c1  c2 = c2
  p1 = p1  p2 = p2  p3 = p3  p4 = p4
  NULL = NULL
  Apps <- MCApps
  Children <- MCChildren
  PSocks <- MCPSocks
  OptCalls <- MCOptCalls
SYMMETRY Symm
SPECIFICATION Spec
INVARIANT TypeOK AcceptInOrder OptSuccessIsReal
CHECK_DEADLOCK FALSE
