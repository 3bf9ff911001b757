# TLA+ models of the libzt picoTCP driver

This directory holds TLA+ models of `src/libzt/attic/picoTCP.cpp`. That file
is the glue between libzt's VirtualTap/VirtualSocket layer and the picoTCP
user-space TCP/IP stack. Each model is written from the C++ source. Where the
code it relies on is not in the repository (`RingBuffer.cpp`, `VirtualSocket`,
`VirtualTap`, picoTCP itself), the model follows `spec.md` and says so.

## 1. The system

### Execution contexts

The driver is entered from three kinds of thread:

| context | entry points | shared state it touches |
|---|---|---|
| wire thread (ZeroTier virtual wire) | `rd_pico_eth_rx` | `tap->pico_frame_rxbuf`, `pico_frame_rxbuf_tot` under `_pico_frame_rxbuf_m` |
| run loop (`rd_pico_loop`, one per tap) | `pico_stack_tick` → `rd_pico_eth_poll`, `rd_pico_eth_tx`, `rd_pico_cb_socket_ev` → `rd_pico_cb_tcp_read` / `_udp_read` / `_tcp_write` | frame buffer, every VirtualSocket's state, RXbuf and TXbuf, accept queues, picoTCP |
| application threads | `rd_pico_socket`, `_bind`, `_listen`, `_connect`, `_accept`, `_write`, `_close`, `_shutdown`, `_setsockopt`, `_getsockopt` | the same VirtualSockets, TXbuf under `vs->_tx_m`, accept queues with no lock, picoTCP |

### Components, state and operations

| component | state | operations (code) | module |
|---|---|---|---|
| Frame relay | `pico_frame_rxbuf` (flat array of `[int32 len \| eth hdr \| payload]` records), `pico_frame_rxbuf_tot` | `rd_pico_eth_rx` 609-683, `rd_pico_eth_poll` 686-716, `rd_pico_loop` 250-258 | `FrameRelay`, abstract `RelayQueue` |
| RingBuffer | bytes held, capacity | constructor (`RingBuffer.h` 54-62); `write`, `consume`, `count`, `getFree` (78-95; the implementation is not in the repository) | `RingBuffer` |
| TX path | `vs->TXbuf`, the engine's send room | `rd_pico_write` 883-979 (stream branch; datagram branch 909-928), `rd_pico_cb_tcp_write` 381-395 | `TxPath`; `DgramPath` for datagrams |
| Socket lifecycle and dispatcher | `vs->state`, `vs->pcb`, `s->priv`, `vs->_AcceptedConnections`, picoTCP socket state | `rd_pico_socket` 718-762, `_connect` 764-804, `_bind` 806-842, `_listen` 844-859, `_accept` 861-874, `_close` 981-1012, `_shutdown` 1014-1032, `rd_pico_cb_socket_ev` 397-534 | `VirtualSocket` |
| RX path | `vs->RXbuf`, writable-notify flag; records in the datagram socket pair | `rd_pico_cb_tcp_read` 261-311 and `rd_pico_cb_udp_read` 314-379, both raised by `PICO_SOCK_EV_RD` (521-528) | `RxPath`, with `DgramPath` for datagrams |
| Device setup, routes, DNS | `picodev_initialized`, `picodev`, `_picostack_driver_lock`, picoTCP's links, routes and nameservers, `errno` | `pico_init_interface` 115-138, `pico_register_address` 140-176, `rd_pico_route_add/del` 182-209, `rd_pico_add/del_dns_nameserver` 211-248 | `TapSetup` |
| Socket options | return value and errno of the call; picoTCP option values (not modelled) | `rd_pico_setsockopt` 1034-1408, `rd_pico_getsockopt` 1410-1776 | `SockOpt`, called from `VirtualSocket` |
| Error translation | `errno` | `map_pico_err_to_errno` 1778-1811 | `TapSetup` (`MapErrno`) |
| Frame egress, logging | none kept between calls | `rd_pico_eth_tx`, `beautify_*` | not modelled |

### What makes the code hard

- **Interleaving.** The wire thread and the run loop share the frame buffer.
  Application threads and the run loop share each VirtualSocket. The accept
  queue has no lock at all.
- **Callbacks.** picoTCP calls `rd_pico_cb_socket_ev` from inside
  `pico_stack_tick` with several event bits at once. The handler's order of
  checks decides what happens.
- **Buffer bounds.** There is a fixed-size frame array, a fixed-size TX ring
  and a stack `frame[ZT_SDK_MTU]`. Each of them has an off-by-one or missing
  check.
- **Teardown.** A socket can be closed by the application or by a peer FIN.
  picoTCP frees closed sockets later, while the VirtualSocket still points at
  them.

## 2. Modules

The components are modelled in this order: the frame relay, then the ring and
the TX path, then the socket lifecycle, then device setup and the RX path.
The socket options come last, as pure operators that `VirtualSocket` calls.

- **`RelayQueue`**: the abstract promise of the frame relay. Frames
  `1..arrived` enter a FIFO `queue`. `Deliver` moves a non-empty prefix to
  `delivered`, and a weak-fairness condition on `Deliver` makes every queued
  frame eventually reach the stack.
- **`FrameRelay`**: the relay as the code implements it. The variables are:
  - `rxbuf`: the records, each kept as `[id, msglen]`;
  - `rxtot`: `pico_frame_rxbuf_tot`;
  - `wire`: the payload length of each frame delivered;
  - `stackIn`: the frames passed to `pico_stack_recv`.

  The actions are:
  - `EthRx(len)`: all of `rd_pico_eth_rx`, including the unconditional append
    and the `msg_len` arithmetic (`MsgLen`);
  - `Tick`: one pass of `rd_pico_loop`, whose tick calls `rd_pico_eth_poll`
    with some `loop_score`. The poll's `while` loop is the recursive operator
    `PollLoop`, which includes the branch that only logs an implausible length.

  Each action is one step because both handlers hold `_pico_frame_rxbuf_m`
  for their whole body. The module refines `RelayQueue`: records map to their
  ids (`ImplementsRelayQueue`).
- **`RingBuffer`**: `vs->TXbuf` as a sequence of bytes, with `Count`,
  `GetFree`, `Write` (a short write when full) and `Consume`. These follow
  spec.md 4.1 because `RingBuffer.cpp` is not in the repository; `New`, the
  empty ring, is the header's constructor.
- **`TxPath`**: one SOCK_STREAM socket's transmit path. A byte is
  `<<write number, index>>`. The actions are:
  - `AppWrite(len)`: all of the stream branch of `rd_pico_write`:
    1. the overflow check (`HasRoom`);
    2. the ring write and its short-write failure;
    3. the choice of `src_buf`;
    4. `pico_socket_write`, which takes `min(count, MTU, WR_MAX)` bytes,
       clamped by the engine's room (`Taken`);
    5. `consume(r)`.
  - `OnWritable`: `rd_pico_cb_tcp_write` → `rd_pico_write(vs, NULL, count)`;
  - `EngineDrain`: the engine frees send room;
  - `EngineClose`: the peer's FIN, after which `rd_pico_write` returns -1 at
    its `PICO_SOCKET_STATE_CLOSED` test (`Refused`) before touching TXbuf.

  `_tx_m` makes each call one step.
- **`VirtualSocket`**: application sockets (`Apps`), children created by the
  dispatcher (`Children`), and engine sockets (`PSocks`). The state is:
  - `vsState`, `pcb` and `priv`;
  - `pst`: picoTCP's socket phase: unused, open, bound, listen, connecting,
    established, closing, closed or freed;
  - `acceptQ`, plus the histories `conns` and `handed`;
  - `closes`: a count of `pico_socket_close` calls;
  - `closeChecked`: the vs whose `rd_pico_close` has passed its checks and
    not yet called `pico_socket_close`;
  - `stale`: engine sockets the driver dereferenced after picoTCP freed them;
  - `lastOpt`: the return value of the last set/getsockopt, and whether
    picoTCP really carried the option out;
  - `listening`: the vs whose `rd_pico_listen` has called
    `pico_socket_listen` (852) and not yet `set_state(VS_STATE_LISTENING)`
    (857).

  The application actions are `Socket`, `Bind`, `Listen`/`ListenState`,
  `Connect`, `Accept`, `CloseCheck`/`CloseAct`, `Shutdown`, `SetOpt` and `GetOpt`, one per
  driver call. `rd_pico_close` takes no lock the run loop takes, so it is split
  at its checks (lines 988-1000) and `pico_socket_close` (1005): the
  dispatcher can close or free the engine socket in between. When the vs
  still points at an engine socket picoTCP freed, reading `ps->state` (997)
  is a use after free. The model records it in `stale` and lets the read
  see either answer, stopping at the first such read. `Shutdown` acts on
  a connection: a write-side shutdown sends the FIN (phase `closing`), a
  read-side one leaves the phase. Shutting down an unconnected socket is
  not modelled, because what picoTCP does then is outside the repository. Each keeps the driver's early
  returns: in `CloseCheck`, the `VS_STATE_CLOSED`, `ps == NULL` and
  `PICO_SOCKET_STATE_CLOSED` checks. The engine actions are one per event
  branch of the dispatcher:
  - `EvConnListener`: a handshake completes on a listening engine socket and
    the dispatcher re-reads the vs state. `EvConnAccept` is the
    `VS_STATE_LISTENING` branch, with the nondeterministic outcome of
    `getTapByAddr` (not in the repository) and the `new_ps` local-copy
    assignment. `EvConnEarly` is the same event between `Listen` and
    `ListenState`: nothing accepts the connection, and 516-518 mark the vs
    `UNHANDLED_CONNECTED` until `set_state` overwrites it;
  - `EvConnActive`: a connect completes and the socket becomes
    `UNHANDLED_CONNECTED`;
  - `EvErr`: `EV_ERR` for a refused connect or a reset of an established
    or closing connection; picoTCP deletes the socket and the dispatcher
    only logs, so the vs is never marked `CLOSED`;
  - `EvClose`: the peer's FIN gives `CLOSED`, then shutdown and close;
  - `EvFin`: only logged;
  - `EngineFree`: picoTCP's garbage collection.

  `SetOpt`/`GetOpt` take a (level, option) pair from `OptCalls`, choose
  picoTCP's answer (always failure on a NULL pcb), and store what `SockOpt`
  says the call returns.

  The `VirtualSocket` constructor is not in the repository. The model assumes
  that it leaves `pcb` NULL and the state at its initial value (`INIT`).
- **`SockOpt`**: `rd_pico_setsockopt` and `rd_pico_getsockopt`, one operator
  per `level` block (`SetSol`, `SetIp`, `SetTcp`, `Udp`, `GetSol`, `GetIp`,
  `GetTcp`). Each maps an option name, whether `ps` is NULL and picoTCP's
  answer to the call's return value, errno, and the engine option reached.
  The refused options are the sets `SolUnsupported`, `IpUnsupported` and
  `TcpUnsupported`. The operators keep what the code does: `ForwardAsBool`
  is `err = f(...) < 0` (1 on failure), `GetSol` asks for the send buffer
  on `SO_RCVBUF`, `GetIp` falls through to `return -1` after a multicast
  read, and `Unhandled` is an option no branch handles (-1, errno 0).
- **`TapSetup`**: the taps' setup calls. Each tap has a `pc` (`start`,
  `setup`, `refuse`, `ready`). `pico_init_interface` is split at its
  `picodev_initialized` test, and `lock` (`_picostack_driver_lock`) is held
  from `InitCheck` to `InitSetup` or `InitRefuse`, so a missing lock shows as
  a race. `InitSetup` keeps the code's handling of a failed
  `pico_device_init` (`devOk` is chosen; the call still returns true).
  `RegisterAddress`, `RouteAdd`, `RouteDel`, `DnsAdd` and `DnsDel` are one
  step each on sets of links, routes and nameservers; picoTCP's answer
  (refusing a duplicate link or route, a missing route or nameserver, any
  error code for a DNS add) is modelled from what it can return. `MapErrno`
  is `map_pico_err_to_errno` over an abstraction of the codes. `reports` is a
  history of `[call, ok, done]`: what each call returned and whether the
  engine did it.
- **`DgramPath`**: one SOCK_DGRAM socket. A datagram is its payload length,
  named by its place in the peer's sequence (`peerSent`); addresses are left
  out. `UdpRead(n)` is an arrival and the `rd_pico_cb_udp_read` it raises:
  one recvfrom, the record `[len = sizeof(sockaddr_storage) + r | address |
  payload]` (`RecordLen`, `TotLen`), and a write to `vs->sdk_fd` that fails
  and is only logged when the socket pair lacks room (`Queued`). `AppRecv`
  is the application reading one record; `AppSend(len)` is the datagram
  branch of `rd_pico_write`: -1 for `len <= 0`, else one
  `pico_socket_write` of the whole buffer, which picoTCP takes or refuses.
- **`RxPath`**: one connected socket's receive path. The socket's type
  `stype` is chosen at the start; `EvRd` is the dispatcher's
  `PICO_SOCK_EV_RD` branch, which runs the stream callback below or
  `DgramPath`'s `UdpRead`, and `DgramWrite` is `rd_pico_write`'s datagram
  branch. For a stream socket the state is in byte counts:
  `engineQ` (picoTCP), `rx` (RXbuf), `sockQ` (the application's socket pair),
  `appRead`, and the callback's `pc` and local `r`. `PeerData` is an arrival
  that raises `PICO_SOCK_EV_RD` and starts `rd_pico_cb_tcp_read` with `r`
  unassigned. `RxIter` is one pass of its `do ... while (r > 0)` loop:
  recvfrom for `RdMax` bytes whatever the room (those bytes leave picoTCP),
  `produce`, which keeps at most the ring's free room (`Produce`: a
  begin/end/wrap ring cannot hold more than its size), a partial
  `streamSend`, `consume(n)` and `setNotifyWritable`; with no room the pass
  leaves `r` as it was, and an unassigned `r` is read as 0 or 1. `AppRead` is
  the application reading its socket; `Forward` is the multiplexer
  forwarding RXbuf while the flag is set (VirtualTap is not in the
  repository; spec.md 4.4).
- **`MC*` modules** give the model values and the symmetry sets for TLC.

## 3. Runs

| run | cfg | expect | what it shows |
|---|---|---|---|
| frame_relay | `FrameRelay.cfg` | pass | `TypeOK`, `TotMatchesQueue` (rxtot equals the sum of the queued records' lengths across any interleaving of appends and partial polls), `FramesIntact` (each frame reaches the stack as header + payload, prefix stripped), `ImplementsRelayQueue` (lossless FIFO with eventual delivery) |
| frame_relay_overrun | `FrameRelayOverrun.cfg` | violation | `WithinFrameBuf`: three frames between polls overrun an array sized 100 |
| tx_path | `TxPath.cfg` | pass | `TypeOK`, `FailedWriteLeavesNothing` (a write reported as failed leaves none of its bytes in TXbuf) |
| tx_stream | `TxPathStream.cfg` | violation | `StreamIntact`: with TXbuf non-empty, `src_buf = data` and `consume(r)` lose the older bytes and send the new ones first |
| tx_drain | `TxPathDrain.cfg` | violation | `TxEventuallyDrains`: the EV_WR flush passes `data == NULL, len > 0`, so `src_buf` stays NULL and TXbuf is never flushed |
| socket_lifecycle | `VirtualSocket.cfg` | pass | `TypeOK`, `AcceptInOrder` (FIFO, spec 8), `OptSuccessIsReal` (a set/getsockopt returning 0 was carried out by picoTCP, spec 106), across listens split at their `set_state`, resets of connected sockets and closes split at their checks |
| accepted_child_pcb | `VirtualSocketChildPcb.cfg` | violation | `AcceptedChildHasPcb`: the child's `pcb` is never set (line 479) |
| close_once | `VirtualSocketCloseOnce.cfg` | violation | `CloseOnce`: after a refused connect picoTCP frees the engine socket and `close()` reads its freed state (line 997); closing an established socket twice also calls `pico_socket_close` twice (spec 8) |
| tap_setup | `TapSetup.cfg` | pass | `TypeOK`, `OneStackLoop` (exactly the tap picodev was set up for has `should_start_stack`, however two taps' init calls interleave) |
| tap_setup_truth | `TapSetupTruth.cfg` | violation | `SetupReportsTruth`: `pico_init_interface` returns true after `pico_device_init` failed (line 134); the route calls' inverted bool and the ignored `link_add` result break the same property |
| rx_path | `RxPath.cfg` | pass | `TypeOK` (RXbuf's count never exceeds its size: `produce` keeps at most the free room), `NotifyTracksBacklog` (between callbacks the writable flag is set exactly when RXbuf holds bytes); the datagram path runs beside it, selected by socket type, with no property of its own |
| rx_returns | `RxPathReturns.cfg` | violation | `ReadCallbackReturns`: once RXbuf is full, the next pass skips recvfrom, `r` keeps its positive value and the loop spins forever on the run loop (line 310) |

Every property of a passing run has a mutant in `PROJECT.json`: a
plausible bug in the mapped definition, such as a dropped guard, a missing
shift, or a queue popped at the wrong end. The mutated model must break the
property.

### Bounds

- **FrameRelay.** The header is 14 bytes and the length prefix 4. There are
  at most 4 frames with payloads {0, 28}, which gives record lengths 18 and
  46. `loop_score` is at most 2, so a poll can stop with records left.
  `FrameBufSz = 184` holds four of the longest records. The overrun run uses
  100, which two long records fit and three do not. These values let partial
  polls, mixed lengths and a buffer that fills all happen.
- **TxPath.** The ring has 4 bytes, MTU and `WR_MAX` are 3, writes are 1 or 2
  bytes, there are at most 3 writes, and the engine's room is at most 1 byte.
  With so little room, bytes pile up in TXbuf until a third write no longer
  fits. These values make all of these happen:
  - the `>=` rejection;
  - a partial `pico_socket_write` that leaves bytes in TXbuf;
  - a later write while TXbuf is non-empty.
- **VirtualSocket.** There are 2 application sockets, 2 children and 4
  engine sockets. That is enough for a listener with two queued children,
  which is needed to tell FIFO from LIFO, alongside a second connecting
  socket. Children and engine sockets are symmetric model values, and the
  run checks no liveness property, so symmetry is sound. Every socket can end
  closed and freed with no further event possible, so these cfgs set
  `CHECK_DEADLOCK FALSE`. `MCOptCalls` holds one option per class of branch:
  refused (`SO_DEBUG`), forwarded (`SO_LINGER`), forwarded as a comparison
  (`SO_RCVBUF`, `TCP_NODELAY`), multicast (`IP_MULTICAST_TTL`) and unhandled
  (`SO_PEERCRED`). `TCP_NODELAY` on an accepted child reaches the NULL-pcb
  return.

- **TapSetup.** Two taps, two addresses, one route and one nameserver: two
  taps are what the init race needs, and one route or nameserver suffices
  for add, duplicate add, delete and missing delete. Taps and addresses are
  symmetric model values, and `OneStackLoop` is invariant under their
  permutation.
- **RxPath.** RXbuf holds 3 bytes, recvfrom asks for 2, the socket pair
  holds 1, and up to 3 arrivals of 2 or 4 bytes come. The socket pair is
  smaller than a recvfrom, so `streamSend` is partial and RXbuf fills; with
  3 bytes and reads of 2, a pass with 1 byte free takes 2 bytes from
  picoTCP and keeps 1, as the code does. When the peer has sent everything and the application has read it,
  nothing is left to do, so the cfgs set `CHECK_DEADLOCK FALSE`. For a
  datagram socket, 3 datagrams of 0 or 4 bytes arrive, with the real
  4-byte prefix and 128-byte `sockaddr_storage`; the socket pair holds 280
  bytes, so two records fit and a third is dropped, and the application
  writes twice with `len` 0 or 4.

### Fairness

- `FrameRelay`: `WF_vars(Tick)`. `rd_pico_loop` spins on `while (tap->_run)`
  and calls `pico_stack_tick` on every pass, so the poll is continuously
  enabled while frames are queued.
- `TxPath`: `WF_vars(EngineDrain)` and `WF_vars(OnWritable)`. The engine
  keeps transmitting, and the run loop dispatches every `EV_WR` it raises.
  `TxEventuallyDrains` fails even with this fairness, which shows the flush
  itself is broken rather than starved. The peer's close has no fairness
  (a peer may never close), and the property excuses bytes left when the
  connection closes.
- `VirtualSocket` and `TapSetup`: no fairness; they check only safety.
- `RxPath`: `WF_vars(RxIter)`, `WF_vars(Forward)` and `WF_vars(AppRead)`.
  The run loop runs the callback it entered and the multiplexer on every
  pass, and the application keeps reading. The datagram path needs no
  fairness: only safety is checked of it. `ReadCallbackReturns` fails under
  this fairness: the spinning pass changes nothing, so no fairness can help.

## 4. Not modelled, and why

- The option values (buffer sizes, TTL, linger time) are not modelled; only
  the return value and errno are. The wrong option read for `SO_RCVBUF`
  (1492) and the `return -1` after a multicast read (1676) are modelled in
  `SockOpt` but stated by no run: with option values abstracted, no
  property can tell the two buffer sizes apart.
- In `rd_pico_cb_udp_read`, a failing recvfrom (a negative `r` used as a
  length) is not reached: picoTCP raises `PICO_SOCK_EV_RD` once per queued
  datagram. The uninitialised address family and a short write to the
  socket pair (whose type is set outside the repository) are listed as
  hazards.
- The window between `rd_pico_write`'s CLOSED test and its use of TXbuf, in
  which the run loop can close the socket, is not split: each write is one
  step.
- The RX overrun (recvfrom asked for `RD_MAX` whatever `avail` is) loses
  bytes in `RxPath`, as in the code, but RXbuf is a byte count: the bytes
  recvfrom writes past the ring's storage, and over leftover bytes at
  `get_buf()`, are not modelled, and no run states that the byte stream
  reaches the application intact.
- Three behaviours are reachable in `socket_lifecycle` but no run states
  them: a reset (`EvErr`) of a child still in the accept queue leaves it to
  be handed out with its engine socket gone; a handshake completed between
  `Listen` and `ListenState` (`EvConnEarly`) is never accepted; and an
  engine socket accepted when `getTapByAddr` finds no tap is never closed.
- A datagram dropped by a failed write to the socket pair (355) is lost
  silently; `DgramPath` takes a record whole or not at all, so the drop
  leaves the other records intact and no run states it.
- `rd_pico_eth_tx` keeps no state between calls; it is a single translated
  call into the tap's handler.
- `picoTCP.h` holds only prototypes and macros. The Anode `mutex.h` is not
  used by `picoTCP.cpp`, which locks with `ZeroTier::Mutex`, whose source is
  not in the repository.
- The `beautify_*` helpers only format log text.
- The SOCK_DGRAM branch of `rd_pico_socket` is not modelled: `DgramPath`
  starts from an open datagram socket.
- The torn updates of the unlocked accept queue are not modelled. Push and
  pop are atomic in the model.
- Calls other than `close` on a vs whose engine socket was freed are
  excluded by `Usable`; the use after free is shown through `close`.

## 5. Plan for the next steps

1. A property that every connection picoTCP completes reaches the
   application or is closed; the reset of a queued child, the early
   `EV_CONN` and the missing tap each break it.
2. Torn updates of the unlocked accept queue.
3. Splitting `rd_pico_write` at its CLOSED test.
