\* A true result from a setup call means the engine carried it out.
CONSTANTS
  t1 = t1  t2 = t2  ad1 = ad1  ad2 = ad2  rt1 = rt1  ns1 = ns1
  NoTap = NoTap
  Taps <- MCTaps
  Addrs <- MCAddrs
  Routes <- MCRoutes
  NameServers <- MCNameServers
SYMMETRY Symm
SPECIFICATION Spec
INVARIANT SetupReportsTruth
