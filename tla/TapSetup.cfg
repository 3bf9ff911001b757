\* Two taps set up the device concurrently, then register addresses, add and
\* delete a route and a nameserver.
CONSTANTS
  t1 = t1  t2 = t2  ad1 = ad1  ad2 = ad2  rt1 = rt1  ns1 = ns1
  NoTap = NoTap
  Taps <- MCTaps
  Addrs <- MCAddrs
  Routes <- MCRoutes
  NameServers <- MCNameServers
SYMMETRY Symm
SPECIFICATION Spec
INVARIANT TypeOK OneStackLoop
