----------------------------- MODULE MCTapSetup -----------------------------
EXTENDS TapSetup, TLC

CONSTANTS t1, t2, ad1, ad2, rt1, ns1

MCTaps == {t1, t2}
MCAddrs == {ad1, ad2}
MCRoutes == {rt1}
MCNameServers == {ns1}

(* The two taps are interchangeable, and so are the two addresses. *)
Symm == Permutations(MCTaps) \cup Permutations(MCAddrs)
=============================================================================
