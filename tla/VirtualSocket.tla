---------------------------- MODULE VirtualSocket ----------------------------
(***************************************************************************)
(* The life of VirtualSockets on one tap (src/libzt/attic/picoTCP.cpp):   *)
(* the application-facing driver calls rd_pico_socket, rd_pico_bind,      *)
(* rd_pico_listen, rd_pico_connect, rd_pico_accept and rd_pico_close, and  *)
(* the run loop's dispatcher rd_pico_cb_socket_ev, which picoTCP calls for *)
(* every socket event (connection established, peer closed, socket        *)
(* closed, error). The two sides share vs state, the accept queue          *)
(* vs->_AcceptedConnections and the engine sockets.                        *)
(*                                                                         *)
(* An engine socket (struct pico_socket) is named by a model value of      *)
(* PSocks; its picoTCP state is abstracted to the phases in PState. A      *)
(* freed engine socket is never handed out again. s->priv, the            *)
(* VirtualBindingPair, is kept as the VirtualSocket it names.              *)
(***************************************************************************)
EXTENDS Integers, SequencesExt, SockOpt

CONSTANTS
  Apps,       \* VirtualSockets the application opens
  Children,   \* VirtualSockets the dispatcher may create for accepted peers
  PSocks,     \* engine sockets
  OptCalls,   \* <<level, optname>> pairs the application passes to set/getsockopt
  NULL

VS == Apps \cup Children

ASSUME Apps \cap Children = {} /\ NULL \notin VS \cup PSocks

VSState == {"FREE", "INIT", "LISTENING", "UNHANDLED_CONNECTED", "CLOSED"}
PState == {"unused", "open", "bound", "listen", "connecting", "established",
           "closewait", "closing", "closed", "freed"}

VARIABLES
  vsState,    \* vs->get_state(); FREE: not created yet
  pcb,        \* vs->pcb
  priv,       \* the VirtualSocket named by s->priv
  pst,        \* picoTCP's state of each engine socket
  acceptQ,    \* vs->_AcceptedConnections
  conns,      \* history: children queued on each listener, in order
  handed,     \* history: children rd_pico_accept returned, in order
  closes,     \* number of pico_socket_close calls on each engine socket
  closeChecked, \* vs whose rd_pico_close passed its checks, before pico_socket_close
  stale,      \* engine sockets the driver dereferenced after picoTCP freed them
  lastOpt,    \* what the last set/getsockopt returned, and whether picoTCP did it
  listening   \* vs whose rd_pico_listen is between pico_socket_listen and set_state

vars == <<vsState, pcb, priv, pst, acceptQ, conns, handed, closes,
          closeChecked, stale, lastOpt, listening>>

TypeOK ==
  /\ vsState \in [VS -> VSState]
  /\ pcb \in [VS -> PSocks \cup {NULL}]
  /\ priv \in [PSocks -> VS \cup {NULL}]
  /\ pst \in [PSocks -> PState]
  /\ acceptQ \in [VS -> Seq(Children)]
  /\ conns \in [VS -> Seq(Children)]
  /\ handed \in [VS -> Seq(Children)]
  /\ closes \in [PSocks -> 0..3]   \* two closes, and one more after the free
  /\ closeChecked \subseteq VS
  /\ stale \subseteq PSocks
  /\ lastOpt \in [ret : {-1, 0, 1}, done : BOOLEAN]
  /\ listening \subseteq Apps

Init ==
  /\ vsState = [v \in VS |-> "FREE"]
  /\ pcb = [v \in VS |-> NULL]
  /\ priv = [p \in PSocks |-> NULL]
  /\ pst = [p \in PSocks |-> "unused"]
  /\ acceptQ = [v \in VS |-> <<>>]
  /\ conns = [v \in VS |-> <<>>]
  /\ handed = [v \in VS |-> <<>>]
  /\ closes = [p \in PSocks |-> 0]
  /\ closeChecked = {}
  /\ stale = {}
  /\ lastOpt = [ret |-> -1, done |-> FALSE]
  /\ listening = {}

(* The engine socket behind v, as the driver's calls use it; the          *)
(* application never calls into a socket whose engine socket was freed.   *)
Usable(v) == vsState[v] # "FREE" /\ pcb[v] # NULL /\ pst[pcb[v]] # "freed"

(***************************************************************************)
(* Application side.                                                       *)
(***************************************************************************)

(* rd_pico_socket: pico_socket_open a TCP engine socket with              *)
(* rd_pico_cb_socket_ev as its wakeup; the caller keeps it in vs->pcb and *)
(* sets s->priv. With no engine socket left the call fails with EMFILE.   *)
Socket(v) ==
  /\ vsState[v] = "FREE"
  /\ \E p \in PSocks :
       /\ pst[p] = "unused"
       /\ pst' = [pst EXCEPT ![p] = "open"]
       /\ pcb' = [pcb EXCEPT ![v] = p]
       /\ priv' = [priv EXCEPT ![p] = v]
  /\ vsState' = [vsState EXCEPT ![v] = "INIT"]
  /\ UNCHANGED <<acceptQ, conns, handed, closes, closeChecked, stale, lastOpt, listening>>

(* rd_pico_bind: pico_socket_bind succeeds on a fresh socket. The vs     *)
(* state is not changed.                                                   *)
Bind(v) ==
  /\ Usable(v)
  /\ pst[pcb[v]] = "open"
  /\ pst' = [pst EXCEPT ![pcb[v]] = "bound"]
  /\ UNCHANGED <<vsState, pcb, priv, acceptQ, conns, handed, closes, closeChecked, stale, lastOpt, listening>>

(* rd_pico_listen, up to its set_state: pico_socket_listen needs a bound  *)
(* socket, and from then on picoTCP may complete handshakes on it and     *)
(* raise PICO_SOCK_EV_CONN from the run loop.                              *)
Listen(v) ==
  /\ Usable(v)
  /\ pst[pcb[v]] = "bound"
  /\ pst' = [pst EXCEPT ![pcb[v]] = "listen"]
  /\ listening' = listening \cup {v}
  /\ UNCHANGED <<vsState, pcb, priv, acceptQ, conns, handed, closes, closeChecked, stale, lastOpt>>

(* The rest of rd_pico_listen: vs->set_state(VS_STATE_LISTENING),         *)
(* whatever the dispatcher set in the meantime.                            *)
ListenState(v) ==
  /\ v \in listening
  /\ listening' = listening \ {v}
  /\ vsState' = [vsState EXCEPT ![v] = "LISTENING"]
  /\ UNCHANGED <<pcb, priv, pst, acceptQ, conns, handed, closes, closeChecked, stale, lastOpt>>

(* rd_pico_connect: pico_socket_connect starts the handshake on a socket  *)
(* that is neither listening nor connected. The vs state is not changed.  *)
Connect(v) ==
  /\ Usable(v)
  /\ pst[pcb[v]] \in {"open", "bound"}
  /\ pst' = [pst EXCEPT ![pcb[v]] = "connecting"]
  /\ UNCHANGED <<vsState, pcb, priv, acceptQ, conns, handed, closes, closeChecked, stale, lastOpt, listening>>

(* Mutant of AcceptPop: the newest queued connection is taken. *)
AcceptPopNewest(q) == <<Last(q), Front(q)>>

(* rd_pico_accept: take the front of _AcceptedConnections; returns       *)
(* <<child, rest of the queue>>.                                           *)
AcceptPop(q) == <<Head(q), Tail(q)>>

Accept(v) ==
  /\ vsState[v] # "FREE"
  /\ acceptQ[v] # <<>>
  /\ LET r == AcceptPop(acceptQ[v])
     IN /\ acceptQ' = [acceptQ EXCEPT ![v] = r[2]]
        /\ handed' = [handed EXCEPT ![v] = Append(@, r[1])]
  /\ UNCHANGED <<vsState, pcb, priv, pst, conns, closes, closeChecked, stale, lastOpt, listening>>

(* picoTCP's pico_socket_close: a connection is shut down with a FIN and  *)
(* is closed when the peer has answered; any other socket is deleted at   *)
(* once.                                                                   *)
AfterClose(s) ==
  IF s \in {"established", "closewait"} THEN "closing" ELSE "closed"

(* Mutant of CloseCheck: the PICO_SOCKET_STATE_CLOSED check is dropped. *)
CloseCheckUnguarded(v) ==
  /\ v \notin closeChecked
  /\ vsState[v] \notin {"FREE", "CLOSED"}
  /\ pcb[v] # NULL /\ pst[pcb[v]] # "freed"
  /\ closeChecked' = closeChecked \cup {v}
  /\ UNCHANGED <<vsState, pcb, priv, pst, acceptQ, conns, handed, closes,
                 stale, lastOpt, listening>>

(***************************************************************************)
(* rd_pico_close, up to its pico_socket_close: it returns 0 for a vs      *)
(* already VS_STATE_CLOSED, without a pcb, or whose engine socket has      *)
(* PICO_SOCKET_STATE_CLOSED. These tests run on the application's thread  *)
(* while the run loop may dispatch events on the same socket, and picoTCP *)
(* may already have freed ps: reading ps->state then reads freed memory,  *)
(* which may still say closed or not. The model follows a freed engine    *)
(* socket up to its first such use.                                        *)
(***************************************************************************)
CloseCheck(v) ==
  /\ v \notin closeChecked
  /\ vsState[v] \notin {"FREE", "CLOSED"}
  /\ pcb[v] # NULL
  /\ IF pst[pcb[v]] = "freed"
     THEN /\ pcb[v] \notin stale
          /\ stale' = stale \cup {pcb[v]}
          /\ \E seenClosed \in BOOLEAN :
               closeChecked' = IF seenClosed THEN closeChecked
                                             ELSE closeChecked \cup {v}
     ELSE /\ pst[pcb[v]] # "closed"
          /\ closeChecked' = closeChecked \cup {v}
          /\ UNCHANGED stale
  /\ UNCHANGED <<vsState, pcb, priv, pst, acceptQ, conns, handed, closes, lastOpt, listening>>

(* The rest of rd_pico_close: pico_socket_close(ps) under _tcpconns_m, a   *)
(* lock the run loop does not take here. The vs state is not changed.     *)
(* picoTCP may have freed ps since the check: the call then reaches freed *)
(* memory, which changes nothing else the model tracks.                    *)
CloseAct(v) ==
  /\ v \in closeChecked
  /\ closeChecked' = closeChecked \ {v}
  /\ closes' = [closes EXCEPT ![pcb[v]] = @ + 1]
  /\ pst' = [pst EXCEPT ![pcb[v]] = IF @ = "freed" THEN @ ELSE AfterClose(@)]
  /\ stale' = IF pst[pcb[v]] = "freed" THEN stale \cup {pcb[v]} ELSE stale
  /\ UNCHANGED <<vsState, pcb, priv, acceptQ, conns, handed, lastOpt, listening>>

(* rd_pico_shutdown on a connection: how is translated to the picoTCP   *)
(* mode and pico_socket_shutdown is called on vs->pcb; the vs state is    *)
(* not changed. Shutting down the write side sends the FIN, after which   *)
(* picoTCP waits for the peer's (as after a close); a read-only shutdown  *)
(* leaves the connection's phase as it is.                                 *)
Shutdown(v, mode) ==
  /\ Usable(v)
  /\ pst[pcb[v]] = "established"
  /\ pst' = [pst EXCEPT ![pcb[v]] = IF mode = "RD" THEN @ ELSE "closing"]
  /\ UNCHANGED <<vsState, pcb, priv, acceptQ, conns, handed, closes, closeChecked, stale, lastOpt, listening>>

(* What the application learns from an option call: its return value, and *)
(* whether picoTCP really carried out the option it was passed.           *)
OptOutcome(r, ok) == [ret |-> r.ret, done |-> r.eng # "none" /\ ok]

(* The engine call of an option on vs->pcb: pico_socket_setoption and     *)
(* _getoption refuse a NULL socket, and may refuse any other.             *)
EngineAnswers(v) == IF pcb[v] = NULL THEN {FALSE} ELSE BOOLEAN

(* rd_pico_setsockopt / rd_pico_getsockopt on a vs the application holds. *)
(* An accepted child's pcb is NULL (see EvConnListener).                  *)
SetOpt(v, call) ==
  /\ vsState[v] # "FREE"
  /\ pcb[v] # NULL => pst[pcb[v]] # "freed"
  /\ \E ok \in EngineAnswers(v) :
       lastOpt' = OptOutcome(SetSockOpt(call[1], call[2], pcb[v] = NULL, ok), ok)
  /\ UNCHANGED <<vsState, pcb, priv, pst, acceptQ, conns, handed, closes,
                 closeChecked, stale, listening>>

GetOpt(v, call) ==
  /\ vsState[v] # "FREE"
  /\ pcb[v] # NULL => pst[pcb[v]] # "freed"
  /\ \E ok \in EngineAnswers(v) :
       lastOpt' = OptOutcome(GetSockOpt(call[1], call[2], pcb[v] = NULL, ok), ok)
  /\ UNCHANGED <<vsState, pcb, priv, pst, acceptQ, conns, handed, closes,
                 closeChecked, stale, listening>>

(***************************************************************************)
(* Run loop: picoTCP changes an engine socket's state and calls           *)
(* rd_pico_cb_socket_ev(ev, s) within the same pico_stack_tick.            *)
(***************************************************************************)

(* The tail of the PICO_SOCK_EV_CONN branch: a vs that is not listening  *)
(* becomes VS_STATE_UNHANDLED_CONNECTED for the multiplexer to pick up.   *)
ConnState(st) == IF st # "LISTENING" THEN "UNHANDLED_CONNECTED" ELSE st

(* A peer completes a handshake on listening socket l: picoTCP queues a   *)
(* new engine socket np in l's backlog and raises PICO_SOCK_EV_CONN on l.  *)
(* The dispatcher re-reads the vs state. A VS_STATE_LISTENING vs          *)
(* (EvConnAccept) calls pico_socket_accept, makes a new VirtualSocket c   *)
(* and stores np in a local copy (new_ps), not in c->pcb. getTapByAddr    *)
(* (not in this repository) may find no tap for the peer's address: the   *)
(* call returns with np accepted and no priv. Else np->priv names c and c *)
(* is pushed on the listener's accept queue; the vs stays LISTENING       *)
(* (ConnState). Any other state is that of a socket whose rd_pico_listen  *)
(* has not reached set_state yet (EvConnEarly): nothing accepts np, which *)
(* stays in the backlog without priv, and ConnState marks the would-be    *)
(* listener VS_STATE_UNHANDLED_CONNECTED.                                  *)
EvConnAccept(v, np) ==
  /\ vsState[v] = "LISTENING"
  /\ \E c \in Children, tapFound \in BOOLEAN :
       /\ vsState[c] = "FREE"
       /\ IF tapFound
          THEN /\ priv' = [priv EXCEPT ![np] = c]
               /\ vsState' = [vsState EXCEPT ![c] = "INIT", ![v] = ConnState(@)]
               /\ acceptQ' = [acceptQ EXCEPT ![v] = Append(@, c)]
               /\ conns' = [conns EXCEPT ![v] = Append(@, c)]
          ELSE UNCHANGED <<vsState, priv, acceptQ, conns>>

EvConnEarly(v, np) ==
  /\ vsState[v] # "LISTENING"
  /\ vsState' = [vsState EXCEPT ![v] = ConnState(@)]
  /\ UNCHANGED <<priv, acceptQ, conns>>

EvConnListener(l) ==
  LET v == priv[l] IN
  /\ pst[l] = "listen"
  /\ v # NULL
  /\ \E np \in PSocks :
       /\ pst[np] = "unused"
       /\ pst' = [pst EXCEPT ![np] = "established"]
       /\ EvConnAccept(v, np) \/ EvConnEarly(v, np)
  /\ UNCHANGED <<pcb, handed, closes, closeChecked, stale, lastOpt, listening>>

(* The handshake of a connecting socket completes: PICO_SOCK_EV_CONN. *)
EvConnActive(p) ==
  /\ pst[p] = "connecting"
  /\ priv[p] # NULL
  /\ pst' = [pst EXCEPT ![p] = "established"]
  /\ vsState' = [vsState EXCEPT ![priv[p]] = ConnState(@)]
  /\ UNCHANGED <<pcb, priv, acceptQ, conns, handed, closes, closeChecked, stale, lastOpt, listening>>

(* The peer resets a connection, or refuses one being set up: picoTCP    *)
(* raises PICO_SOCK_EV_ERR with pico_err ECONNRESET (or the refusal) and  *)
(* deletes the socket. The dispatcher only logs, and with no EV_CLOSE in   *)
(* ev the vs state is left as it is.                                       *)
EvErr(p) ==
  /\ pst[p] \in {"connecting", "established", "closing"}
  /\ pst' = [pst EXCEPT ![p] = "closed"]
  /\ UNCHANGED <<vsState, pcb, priv, acceptQ, conns, handed, closes, closeChecked, stale, lastOpt, listening>>

(* PICO_SOCK_EV_CLOSE makes the vs VS_STATE_CLOSED. *)
CloseEvState(st) == "CLOSED"

(* The peer's FIN arrives on a connection: PICO_SOCK_EV_CLOSE. The        *)
(* dispatcher marks the vs closed, then pico_socket_shutdown(RDWR) and     *)
(* pico_socket_close on the engine socket, and returns.                    *)
EvClose(p) ==
  /\ pst[p] = "established"
  /\ priv[p] # NULL
  /\ vsState' = [vsState EXCEPT ![priv[p]] = CloseEvState(@)]
  /\ closes' = [closes EXCEPT ![p] = @ + 1]
  /\ pst' = [pst EXCEPT ![p] = AfterClose("closewait")]
  /\ UNCHANGED <<pcb, priv, acceptQ, conns, handed, closeChecked, stale, lastOpt, listening>>

(* A locally closed connection finishes: PICO_SOCK_EV_FIN, which the     *)
(* dispatcher only logs.                                                   *)
EvFin(p) ==
  /\ pst[p] = "closing"
  /\ pst' = [pst EXCEPT ![p] = "closed"]
  /\ UNCHANGED <<vsState, pcb, priv, acceptQ, conns, handed, closes, closeChecked, stale, lastOpt, listening>>

(* picoTCP's garbage collection frees a closed socket, and its priv with  *)
(* it. The VirtualSocket still points at it.                               *)
EngineFree(p) ==
  /\ pst[p] = "closed"
  /\ pst' = [pst EXCEPT ![p] = "freed"]
  /\ priv' = [priv EXCEPT ![p] = NULL]
  /\ UNCHANGED <<vsState, pcb, acceptQ, conns, handed, closes, closeChecked, stale, lastOpt, listening>>

Next ==
  \/ \E v \in Apps : Socket(v) \/ Bind(v) \/ Listen(v) \/ ListenState(v)
                   \/ Connect(v)
  \/ \E v \in VS : Accept(v) \/ CloseCheck(v) \/ CloseAct(v)
  \/ \E v \in VS, mode \in {"RD", "WR", "RDWR"} : Shutdown(v, mode)
  \/ \E v \in VS, call \in OptCalls : SetOpt(v, call) \/ GetOpt(v, call)
  \/ \E p \in PSocks : \/ EvConnListener(p) \/ EvConnActive(p) \/ EvErr(p)
                       \/ EvClose(p) \/ EvFin(p) \/ EngineFree(p)

Spec == Init /\ [][Next]_vars

-----------------------------------------------------------------------------
(***************************************************************************)
(* Properties.                                                             *)
(***************************************************************************)

(* rd_pico_accept hands out the connections of a listener in the order    *)
(* the dispatcher queued them, each once (spec 8, accept queue FIFO).     *)
AcceptInOrder == \A v \in VS : handed[v] \o acceptQ[v] = conns[v]

(* A child the dispatcher queues holds its own engine socket in vs->pcb,  *)
(* so that the application's writes and close reach it.                   *)
AcceptedChildHasPcb ==
  \A v \in VS : \A c \in Range(acceptQ[v]) :
    pcb[c] # NULL /\ priv[pcb[c]] = c

(* close() on a socket reaches the engine once, and only while the engine *)
(* socket exists: pico_socket_close is called at most once per engine     *)
(* socket, and rd_pico_close never reads or closes one picoTCP has freed  *)
(* (spec 8, idempotent close; spec 7, no use of a destroyed handle).      *)
CloseOnce == \A p \in PSocks : closes[p] <= 1 /\ p \notin stale

(* A setsockopt or getsockopt that returns 0 was carried out by picoTCP:  *)
(* an option outside the forwarded list, a socket without an engine      *)
(* socket, or an option picoTCP refused is never reported as done         *)
(* (spec 106, option allow-list closure).                                  *)
OptSuccessIsReal == lastOpt.ret = 0 => lastOpt.done
=============================================================================
