------------------------------ MODULE TapSetup ------------------------------
(***************************************************************************)
(* Setting up the one picoTCP device and its addresses, routes and        *)
(* nameservers (src/libzt/attic/picoTCP.cpp).                              *)
(*                                                                         *)
(* Every VirtualTap calls pico_init_interface from its own thread. Under   *)
(* _picostack_driver_lock the first caller finds picodev_initialized      *)
(* false, fills in the process-wide picodev, registers it with            *)
(* pico_device_init and is given the right to run the stack loop          *)
(* (should_start_stack). The check and the set are two steps here with    *)
(* the lock held across them, so that what the lock protects is visible.  *)
(* pico_register_address (also under the lock), rd_pico_route_add/del and *)
(* rd_pico_add/del_dns_nameserver are single calls into picoTCP; their    *)
(* engine-side outcome is chosen nondeterministically from what picoTCP    *)
(* can return.                                                             *)
(***************************************************************************)
EXTENDS Integers, FiniteSets

CONSTANTS
  Taps,       \* VirtualTaps of the process
  Addrs,      \* addresses the taps register
  Routes,     \* routes the taps add and delete
  NameServers,\* DNS nameservers
  NoTap       \* nobody: an unset picodev.tap, a free lock

ASSUME NoTap \notin Taps

(* picoTCP error codes, abstracted to how map_pico_err_to_errno treats    *)
(* them: NOERR, the three with an errno of their own, one of the codes it *)
(* maps to ENXIO, and a code it has no case for.                           *)
PicoErr == {"NOERR", "ENOMEM", "EINVAL", "EEXIST", "UNLISTED"}
Errno == {"0", "ENOMEM", "EINVAL", "ENXIO"}

VARIABLES
  lock,         \* holder of _picostack_driver_lock
  pc,           \* where each tap is in its setup calls
  initialized,  \* picodev_initialized
  devTap,       \* picodev.tap
  devOk,        \* picoTCP accepted picodev in pico_device_init
  shouldStart,  \* tap->should_start_stack
  links,        \* addresses picoTCP holds links for
  routes,       \* picoTCP's IPv4 routing table
  nameservers,  \* picoTCP's DNS nameserver list
  errno,        \* errno as the last call left it
  reports       \* history: [call, ok, done] per call made

vars == <<lock, pc, initialized, devTap, devOk, shouldStart, links, routes,
          nameservers, errno, reports>>

Report == [call : {"init", "addr", "route_add", "route_del", "dns_add",
                   "dns_del"}, ok : BOOLEAN, done : BOOLEAN]

TypeOK ==
  /\ lock \in Taps \cup {NoTap}
  /\ pc \in [Taps -> {"start", "setup", "refuse", "ready"}]
  /\ initialized \in BOOLEAN /\ devOk \in BOOLEAN
  /\ devTap \in Taps \cup {NoTap}
  /\ shouldStart \in [Taps -> BOOLEAN]
  /\ links \subseteq Addrs /\ routes \subseteq Routes
  /\ nameservers \subseteq NameServers
  /\ errno \in Errno
  /\ reports \subseteq Report

Init ==
  /\ lock = NoTap
  /\ pc = [t \in Taps |-> "start"]
  /\ initialized = FALSE
  /\ devTap = NoTap
  /\ devOk = FALSE
  /\ shouldStart = [t \in Taps |-> FALSE]
  /\ links = {}
  /\ routes = {}
  /\ nameservers = {}
  /\ errno = "0"
  /\ reports = {}

(* The test of pico_init_interface: only the first caller sets up picodev. *)
FirstCaller(init) == init = FALSE

(* Mutant of InitCheck: _picostack_driver_lock is not taken. *)
InitCheckUnlocked(t) ==
  /\ pc[t] = "start"
  /\ lock' = t
  /\ pc' = [pc EXCEPT ![t] = IF FirstCaller(initialized) THEN "setup" ELSE "refuse"]
  /\ UNCHANGED <<initialized, devTap, devOk, shouldStart, links, routes,
                 nameservers, errno, reports>>

(* pico_init_interface: _picostack_driver_lock.lock(), then the test of   *)
(* picodev_initialized.                                                    *)
InitCheck(t) ==
  /\ pc[t] = "start"
  /\ lock = NoTap
  /\ lock' = t
  /\ pc' = [pc EXCEPT ![t] = IF FirstCaller(initialized) THEN "setup" ELSE "refuse"]
  /\ UNCHANGED <<initialized, devTap, devOk, shouldStart, links, routes,
                 nameservers, errno, reports>>

(* The first caller fills in picodev, gives its tap should_start_stack,  *)
(* calls pico_device_init (a failure is only logged: err is set to false  *)
(* and then to true), sets picodev_initialized, unlocks and returns true. *)
InitSetup(t) ==
  /\ pc[t] = "setup"
  /\ \E ok \in BOOLEAN :
       /\ devOk' = ok
       /\ reports' = reports \cup {[call |-> "init", ok |-> TRUE, done |-> ok]}
  /\ shouldStart' = [shouldStart EXCEPT ![t] = TRUE]
  /\ devTap' = t
  /\ initialized' = TRUE
  /\ lock' = NoTap
  /\ pc' = [pc EXCEPT ![t] = "ready"]
  /\ UNCHANGED <<links, routes, nameservers, errno>>

(* A later caller unlocks and returns false, leaving picodev alone. *)
InitRefuse(t) ==
  /\ pc[t] = "refuse"
  /\ reports' = reports \cup {[call |-> "init", ok |-> FALSE, done |-> FALSE]}
  /\ lock' = NoTap
  /\ pc' = [pc EXCEPT ![t] = "ready"]
  /\ UNCHANGED <<initialized, devTap, devOk, shouldStart, links, routes,
                 nameservers, errno>>

(* pico_register_address, under the lock: pico_ipv4_link_add or          *)
(* pico_ipv6_link_add on picodev, whose result is ignored; returns true.  *)
(* picoTCP adds the link only to a registered device and refuses an      *)
(* address it already holds.                                               *)
RegisterAddress(t, a) ==
  /\ pc[t] = "ready"
  /\ lock = NoTap
  /\ LET added == devOk /\ a \notin links
     IN /\ links' = IF added THEN links \cup {a} ELSE links
        /\ reports' = reports \cup {[call |-> "addr", ok |-> TRUE, done |-> added]}
  /\ UNCHANGED <<lock, pc, initialized, devTap, devOk, shouldStart, routes,
                 nameservers, errno>>

(* rd_pico_route_add / rd_pico_route_del return the int result of        *)
(* pico_ipv4_route_add / _del as a bool: 0 (success) becomes false, -1    *)
(* (failure) becomes true.                                                 *)
RouteResult(err) == err # 0

(* rd_pico_route_add: picoTCP refuses a route it already has. *)
RouteAdd(t, r) ==
  /\ pc[t] = "ready"
  /\ LET err == IF r \in routes THEN -1 ELSE 0
     IN /\ routes' = routes \cup {r}
        /\ reports' = reports \cup
             {[call |-> "route_add", ok |-> RouteResult(err), done |-> err = 0]}
  /\ UNCHANGED <<lock, pc, initialized, devTap, devOk, shouldStart, links,
                 nameservers, errno>>

(* rd_pico_route_del: picoTCP refuses a route it does not have. *)
RouteDel(t, r) ==
  /\ pc[t] = "ready"
  /\ LET err == IF r \in routes THEN 0 ELSE -1
     IN /\ routes' = routes \ {r}
        /\ reports' = reports \cup
             {[call |-> "route_del", ok |-> RouteResult(err), done |-> err = 0]}
  /\ UNCHANGED <<lock, pc, initialized, devTap, devOk, shouldStart, links,
                 nameservers, errno>>

(* Mutant of MapErrno: the picoTCP code is stored in errno untranslated. *)
MapErrnoRaw(err, old) == err

(* map_pico_err_to_errno: the errno it leaves, given the one before.     *)
(* NOERR clears errno; ENOMEM and EINVAL keep their names; every other    *)
(* listed code becomes ENXIO; a code with no case leaves errno alone.     *)
MapErrno(err, old) ==
  CASE err = "NOERR"    -> "0"
    [] err = "ENOMEM"   -> "ENOMEM"
    [] err = "EINVAL"   -> "EINVAL"
    [] err = "UNLISTED" -> old
    [] OTHER            -> "ENXIO"

(* rd_pico_add_dns_nameserver: err = errno = 0; pico_dns_client_nameserver *)
(* with PICO_DNS_NS_ADD, which keeps an address it already has and fails *)
(* with some code (out of memory, or any other); on failure the code goes *)
(* through map_pico_err_to_errno. Returns the engine's result.            *)
DnsAdd(t, ns) ==
  /\ pc[t] = "ready"
  /\ \E code \in PicoErr :
       /\ nameservers' = IF code = "NOERR" THEN nameservers \cup {ns}
                                           ELSE nameservers
       /\ errno' = IF code = "NOERR" THEN "0" ELSE MapErrno(code, "0")
       /\ reports' = reports \cup
            {[call |-> "dns_add", ok |-> code = "NOERR", done |-> code = "NOERR"]}
  /\ UNCHANGED <<lock, pc, initialized, devTap, devOk, shouldStart, links, routes>>

(* rd_pico_del_dns_nameserver: err = errno = 0; PICO_DNS_NS_DEL fails     *)
(* with PICO_ERR_EINVAL for an address it does not have. errno is not set *)
(* on failure.                                                             *)
DnsDel(t, ns) ==
  /\ pc[t] = "ready"
  /\ LET found == ns \in nameservers
     IN /\ nameservers' = nameservers \ {ns}
        /\ errno' = "0"
        /\ reports' = reports \cup
             {[call |-> "dns_del", ok |-> found, done |-> found]}
  /\ UNCHANGED <<lock, pc, initialized, devTap, devOk, shouldStart, links, routes>>

Next ==
  \E t \in Taps :
    \/ InitCheck(t) \/ InitSetup(t) \/ InitRefuse(t)
    \/ \E a \in Addrs : RegisterAddress(t, a)
    \/ \E r \in Routes : RouteAdd(t, r) \/ RouteDel(t, r)
    \/ \E ns \in NameServers : DnsAdd(t, ns) \/ DnsDel(t, ns)

Spec == Init /\ [][Next]_vars

-----------------------------------------------------------------------------
(***************************************************************************)
(* Properties.                                                             *)
(***************************************************************************)

(* Only one stack loop is ever started, and it belongs to the tap picodev *)
(* was set up for: should_start_stack is given to one tap however the     *)
(* taps' pico_init_interface calls interleave (spec 4.3).                 *)
OneStackLoop ==
  \A t \in Taps : shouldStart[t] <=> (initialized /\ devTap = t)

(* A setup call that reports success was carried out by the engine:      *)
(* pico_init_interface, pico_register_address and rd_pico_route_add/del   *)
(* return true only when the device, link or route change took effect.    *)
SetupReportsTruth ==
  \A r \in reports : r.call \in {"init", "addr", "route_add", "route_del"} =>
    (r.ok => r.done)
=============================================================================
