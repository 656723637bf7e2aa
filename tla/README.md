# TLA+ models of the wireguard-go outbound data path

This directory holds TLA+ models of the repository's source, and the TLC
configurations that check them. The source is three files:

* `src/helper_test.go` bundles three Go files. Lines 1-84 are the test
  doubles. Lines 85-563 are **send.go**, the outbound pipeline. Lines
  564-748 are the Darwin **uapi** listener.
* `src/unnamed/part_000` is **conn_linux.go**, the sticky-socket UDP bind
  and the netlink route listener.
* `src/uapi_linux.go` is the Linux UAPI listener.

## 1. Inventory

| Component | State | Operations | Interacts with |
|---|---|---|---|
| TUN reader (`RoutineReadFromTUN`) | the element it reads into | read a packet; discard it (bad size or version, no route, peer not running) or push it onto the peer's nonce queue; a fatal read error closes the device | routing table; peer nonce queue (drop-oldest); `SendHandshakeInitiation` when the peer is `packetInNonceQueueIsAwaitingKey` |
| Nonce sequencer (`RoutineNonce`, one per peer) | the element it holds; `packetInNonceQueueIsAwaitingKey` | pop; wait for a usable keypair (drain a stale `newKeypairArrived`, trigger a handshake, then wait for a keypair, a flush or stop); `atomic.AddUint64` the send nonce; lock the element's mutex; push onto the encryption queue, then onto the outbound queue | key store, signals, handshake trigger, both queues |
| Encryption workers (`RoutineEncryption`, one per CPU) | the element being sealed | pop; skip a dropped element; write the header; pad; seal; unlock the mutex | shared encryption queue; element mutex |
| Sequential sender (`RoutineSequentialSender`, one per peer) | the element it waits on | pop; `Lock()` (wait for the seal); skip a dropped element; `SendBuffer`; return the buffer; stats and timers; `keepKeyFreshSending` | outbound queue; element mutex; bind; handshake trigger |
| Drop-oldest queues (`addToOutboundQueue`, `addToEncryptionQueue`) | Go channels | push; on a full channel, evict the head and mark it dropped. The encryption queue also unlocks the evicted element. | all stages |
| Handshake trigger (`SendHandshakeInitiation`, `keepKeyFreshSending`, `SendKeepalive`, `FlushNonceQueue`) | `lastSentHandshake`, `handshakeAttempts` | rate-limited initiation; proactive rekey; keepalive enqueue; flush signal | called from three goroutines at once |
| Sticky bind (`NativeBind`, `NativeEndpoint`) | the sockets; `lastEndpoint`; `lastMark`; each endpoint's cached src and ifindex | `Send` (`send4`/`send6`, which retry without a source after `EINVAL`); `ReceiveIPv4`/`ReceiveIPv6` (cache the source); `SetMark`; `Close` | the route listener writes the endpoint with no lock |
| Route listener (`routineRouteListener`) | the netlink socket | on NEWROUTE/DELROUTE, send a GETROUTE query with seq `0xff`; on the reply, clear `lastEndpoint`'s source if the OIF differs | bind's `lastEndpoint` |
| UAPI listener (`UAPIListen`, `UAPIOpen`, Linux and Darwin) | the channels `connNew` and `connErr` (capacity 1 each); inotify or kqueue descriptors | `Accept`; a socket-deletion watcher goroutine; an accept goroutine; open the socket and clean up a stale one | configuration clients |

The handshake cryptography, the key store, the routing trie, the timers and
the device and peer lifecycle are not in the repository. The model treats
them as its environment.

**Hard behaviours.** Parallel encryption must still give in-order egress per
peer, and this rests on the per-element mutex. Evictions can cross peers in
the shared encryption queue. A keypair can arrive while the sequencer is
between its key check and its signal drain. Three goroutines call
`SendHandshakeInitiation` without synchronisation. On shutdown, a worker can
exit while a sender is blocked on `Lock()`. The route listener mutates
endpoints with no lock, and its replies can reach an endpoint other than the
one they were queried for. The UAPI goroutines can block on full channels.

**What makes each component correct:**

* **Pipeline.**
  * Egress follows submission order and may skip elements, never reorder
    them.
  * Counters strictly increase per keypair and stay below
    `RejectAfterMessages`.
  * Only sealed messages are sent.
  * No mutex is unlocked twice.
  * No sender waits forever.
  * A stalled sequencer resumes once a keypair arrives.
  * Every element's buffer goes back to the pool once it leaves the
    pipeline (spec property 5).
* **Handshake trigger.** At most one initiation leaves per `RekeyTimeout`.
* **Bind.** A peer's cached source that a route change made wrong is
  eventually cleared.
* **UAPI.** A deleted socket stops the listener. Every accepted connection
  reaches `Accept`'s caller. No goroutine blocks forever after an error.
  Starting several daemons at once ends with one of them reachable.

## 2. Plan

Modules, in order of importance:

1. **`OutboundPipeline`** (done). The whole of send.go, with the handshake
   trigger as one atomic step. `MCOutboundPipeline` instantiates it.
2. **`LossyFifo`** (done), an abstract specification. Per peer, it keeps a
   pending sequence that grows by submission, loses arbitrary elements and
   delivers its head. `OutboundPipeline` refines it through
   `INSTANCE LossyFifo WITH pending <- ...`: the live elements in submission
   order.
3. **`HandshakeRateLimit`** (done). `SendHandshakeInitiation` with its test
   and its store as separate steps, called by three goroutines. At most one
   initiation per `RekeyTimeout` is violated (a known limit, see section 4); at most one per
   caller holds.
4. **`UAPIListener`** (done). `Accept` together with the watcher and
   accept goroutines. `MCUAPIListener` instantiates it.
5. **`UAPISocket`** (done). `UAPIOpen` and the inotify watch, run by several
   daemon processes against one socket path.
6. **`StickyBind`** (done). The IPv4 bind, `send4` with its `EINVAL`
   retry, and the route listener.
7. **`PipelineShutdown`** (done). One peer's sequencer and sender with the
   encryption workers, each returning on its stop channel; device close and
   peer stop (not in the repository) in either order. Liveness: every
   routine exits after both stops (finding 5).
8. **`UAPIListenerDarwin`** (done). The kqueue watcher as an extension of
   `UAPIListener` (finding 6).
9. **`Padding`**. The padding loop as an operator, checked over bounded
   lengths and MTUs against spec property 4.

## 3. OutboundPipeline

**Variables and the code they stand for:**

* `nonceQ`, `encQ` and `outQ` are Go channels. Each is a sequence bounded by
  `QueueCap`.
* `elem` maps each element identifier to the fields the goroutines use:
  `peer`, `seq` (submission order, a history field), `keepalive`, `kp`,
  `nonce`, `dropped`, `locked` (the state of `elem.mutex`), `sealed` and
  `pooled` (its buffer went back through `PutMessageBuffer`).
* `nPc` and `nElem` are `RoutineNonce`'s position and the element it holds.
  `wElem` and `sElem` are the elements held by the workers and the senders.
* `current`, `keypair`, `keypairArrived`, `flushSig`, `lastSentHandshake`,
  `hsInFlight` and `now` are the key store, the signals, the timers and the
  clock.
* `sent` and `putCount` are history variables.

Each action is one whole step of a goroutine, and the `map` in
`PROJECT.json` names the lines of each. `NonceStall`, `NonceDrain` and
`NonceWake` are separate steps. The gap between the key check and the drain
is a real interleaving point; its consequence is finding 1. Pushing an
element onto both queues is one step. This is sound because only the peer's
own sequencer pushes onto its outbound queue, and an eviction by another peer
commutes with it.

The environment actions stand for code outside the repository:

* `HandshakeComplete`: the response to our initiation arrives.
* `HandshakeResponded`: the remote peer initiates.
* `FlushNonceQueue`.
* `Tick`.

`Done` is a stuttering step allowed only when every goroutine is blocked on
an empty channel and the bounds are used up. Any other state with no enabled
action is reported as a deadlock.

**Fairness.** `FairSpec` puts weak fairness on each goroutine's actions,
because the Go scheduler runs every runnable goroutine. It also puts weak
fairness on `HandshakeComplete`: a sent initiation is answered. Loss and
retransmission belong to the timers, which are not modelled.

**Runs.** `Peers` and `Workers` are model values.

| Run | Bounds | Checks | Result |
|---|---|---|---|
| `pipeline_two_peers` | 2 peers, 2 workers, queue capacity 1, encryption-queue capacity 2, 2 reads, 2 keypairs, time 0..1 | `InOrderEgress`, `LossyFifoRefined` (symmetry on peers and workers) | pass, about 165k states |
| `pipeline_timers` | 1 peer, 2 workers, 1 read, 1 keepalive, time 0..2, rekey after 1, reject after 3 | `SentOnlySealed`, `LatchReleasable`, `UnlockOnlyLocked`, `SenderProgress` under `FairSpec` | pass, about 159k states |
| `pipeline_wakeup` | 1 peer, 2 reads, reject after 1 message | `KeyArrivalWakesSequencer` | **violation** (finding 1) |
| `pipeline_buffers` | 1 peer, 2 reads, queue capacity 1 | `BuffersReturned` (spec property 5) | **violation** (finding 2) |

**Why these bounds are enough.**

* A queue capacity of 1 makes every push onto a non-empty channel an
  eviction.
* Two reads put two elements of one peer in flight at the same time, and two
  workers can seal them in either order.
* Two peers share the encryption queue, so one peer's push can evict the
  other's element.
* `RejectAfterMessages = 2` exhausts a keypair after two messages, and two
  keypairs let a second handshake replace the first.
* Time 0..2 with rekey after 1 and reject after 3 reaches both the
  proactive-rekey branch of `keepKeyFreshSending` and key expiry.
* In `pipeline_timers` one read and one keepalive still put two elements of
  the peer in flight, and one read keeps the liveness check of
  `SenderProgress` within minutes.

**Refinement.** `LossyFifoRefined` checks `Fifo!Spec` under the mapping
`pending[p]` = the submission numbers of p's elements that are still live
(not dropped, not yet transmitted) in increasing order, `delivered[p]` = the
submission numbers of `sent[p]`, and `count` = `nsub`. Every pipeline step
is then a `Submit`, a `Lose`, a `Deliver` or a stutter of the abstract
queue: packets leave in submission order, and none is duplicated or made up.
With an encryption-queue capacity of 2 the model also reaches `WorkerSkip`,
a worker meeting an element that was dropped after it was queued.

Each property has a mutant: a plausible code fault that TLC confirms the
property catches (`PROJECT.json`, "mutants").

**Findings.**

1. **Lost wakeup in `RoutineNonce`.** The sequencer finds no usable keypair
   (line 378). A keypair then arrives and signals. The sequencer drains the
   signal as stale (lines 386-389) and calls `SendHandshakeInitiation`, which
   the `RekeyTimeout` rate limit turns into a no-op. It then waits with a
   usable keypair until another handshake completes or new traffic
   re-triggers one after `RekeyTimeout`.

2. **Buffers are not returned on the drop paths (spec property 5).**
   `BuffersReturned` says that an element `NewOutboundElement` created and
   that no routine can still reach (`Referenced`: the reader's element, the
   channels, and what the sequencers, workers and senders hold) has its
   buffer back in the pool (the element's `pooled` field, set by the
   sender's `PutMessageBuffer`). TLC breaks it in three states. Two reads
   for one peer fill a nonce queue of capacity 1. The second read evicts the
   first element with `old.Drop()` (line 164), and nothing returns its
   buffer. The encryption-queue eviction (line 183), the flush drain
   (398-405), the `RejectAfterMessages` double check (416-418) and the
   sender's dropped skip (539) do the same; the only `PutMessageBuffer` is
   at line 547. The spec's section 5 requires these paths to release the
   buffer. The garbage collector behind `sync.Pool` reclaims the memory, so
   the cost is buffer reuse, not a leak.

**Observation: `keepKeyFreshSending` reads `Current()`, not the element's
keypair** (line 247). A handshake that installs a new keypair between the
seal and the send makes the rekey test look at the new keypair. That is the
keypair the following packets use, so the decision is the right one; no
property is needed. The code also rekeys a responder keypair on
`sendNonce > RekeyAfterMessages` (only the time test is limited to the
initiator, line 252), where spec section 4.5 puts "initiator-side" on both
tests; `KeepKeyFreshSending` follows the code.

### Shutdown: PipelineShutdown

`PipelineShutdown` is one peer's `RoutineNonce` and
`RoutineSequentialSender` with the `RoutineEncryption` workers, reduced to
what shutdown depends on. The keypair is taken to be usable (the key wait is
modelled in `OutboundPipeline`), and sealing and sending are one step each.
`nPc`, `wPc` and `sPc` are the goroutines' positions. `locked` and
`dropped` are the element fields. `devStop` and `peerStop` are
`device.signals.stop` and `peer.routines.stop` being closed.

* Each goroutine's `select` is two actions: the stop case (`NonceStop`,
  `WorkerStop`, `SenderStop`) and the element case (`NonceSubmit`,
  `WorkerSeal`, `SenderPop`). Either may fire when both are ready, as in Go.
* `SenderLocked` is `elem.mutex.Lock()` returning. It lies outside the
  `select`, so no stop signal interrupts it.
* `DeviceStop` and `PeerStop` close the channels. The code that closes them
  is not in the repository, so either order is allowed.

`FairSpec` puts weak fairness on each goroutine. Closing a channel is left
unfair.

| Run | Bounds | Checks | Result |
|---|---|---|---|
| `shutdown_stuck` | 2 workers, queue capacity 1, 2 reads | `ShutdownCompletes` | **violation** (finding 5) |

**Finding 5. A device stop before the peer stop can leave the sender stuck
in `Lock()`** (helper_test.go:455 and 538). The sequencer locks an element
and queues it. The device stops, and the workers take the stop case of
their `select` and return, so nobody seals and unlocks the element. The
sender pops it and blocks in `elem.mutex.Lock()` for ever, and a wait on
`peer.routines.stopping` never returns. With `DeviceStop` allowed only
after the peer's routines have exited, the same model completes shutdown
(about 200 states). That order is not kept as a run.

## 4. HandshakeRateLimit

`SendHandshakeInitiation` (helper_test.go 208-242) split at its interleaving
points, for a set `Callers` of goroutines that call it at once. In
`MCHandshakeRateLimit` they are the TUN reader, the nonce routine and the
sender. Each caller has a `pc`:

* `Call`: entry and the `handshakeAttempts` reset.
* `Check`: the `RekeyTimeout` test on `lastSentHandshake`. It returns or
  continues.
* `Set`: the unsynchronised store `lastSentHandshake = time.Now()`.
* `CreateFail` and `CreateOK`: `CreateMessageInitiation` fails (the store
  stays) or succeeds.
* `Send`: timers and `SendBuffer`.

`Tick` advances the clock. `initiations` records, for each initiation sent,
the time its call passed the test. It uses the time of the test rather than
the time of the send, so a slow caller is not mistaken for a second one.
`lastSentHandshake` starts at `-RekeyTimeout`, standing for the zero
`time.Time`.

| Run | Bounds | Checks | Result |
|---|---|---|---|
| `rate_limit_flood` | 3 callers, 2 calls each, `RekeyTimeout` 2, time 0..3 | `TypeOK`, `FloodBounded` (at most one initiation per caller per window) | pass, about 64k states |

**Known limit, not kept as a run. The rate limit is not atomic.**
`InitiationsSpaced` (spec property 8) is violated; `MCRateLimitSpaced.cfg`
(3 callers, 1 call each, time 0..1) reproduces it. Two callers both pass the test
at line 214 before either stores at line 217, so two initiations leave in
the same window. The spec's open questions (section 9) and the `TODO` in
the source acknowledge this, so it is kept as a reproducible observation
rather than a run. `FloodBounded` shows the damage is bounded: a caller's
second test reads its own store or a later one, so each caller sends at most
once per `RekeyTimeout`.

## 5. UAPIListener

`src/uapi_linux.go` after `UAPIListen` has returned. Variables and the code
they stand for:

* `connNew` and `connErr` are the two channels of capacity 1 (`ChanCap`).
* `inotifyOpen` and `listenerOpen` are the two descriptors that `Close`
  closes. `inotifyEvent` is an event queued on the inotify descriptor.
* `socketExists` says whether a file is at the socket path.
* `wPc` is the watcher goroutine's position (lines 97-107). `aPc` and
  `aConn` are the accept goroutine's position and the connection it holds
  (lines 111-120).
* `cPc` is the caller of `Accept`. That caller is the daemon's UAPI loop,
  which is outside the repository. It calls `Accept` until the first error.
* `accepted` and `returned` are history variables.

Actions:

* Watcher: `WatcherLstat`, `WatcherRead` and `WatcherSendErr`. `Read`
  blocks until an event is queued. On a closed descriptor it fails at once,
  and the code ignores the error.
* Accept goroutine: `AcceptorAccept`, `AcceptorFail`, `AcceptorSendNew` and
  `AcceptorSendErr`.
* `Accept`'s `select`: `AcceptConn` and `AcceptErr`. Either may fire when
  both channels are ready, as in Go.
* `Close`.
* The environment: `Connect`, `DeleteSocket` and `TouchSocket` (`IN_ATTRIB`).

**Fairness.** `FairSpec` puts weak fairness on every goroutine step, since
the Go scheduler runs every runnable goroutine. Clients, file changes,
accept failures and `Close` are left unfair.

| Run | Bounds | Checks | Result |
|---|---|---|---|
| `uapi_listener` | 2 clients | `ErrorSendsNeverStick`, `DeletionReported`, `ConnDelivered` | pass, about 1.1k states |
| `uapi_listener_leak` | 2 clients | `WatcherExitsAfterClose` | **violation** (finding 3) |

Two clients are enough to fill `connNew` while the accept goroutine holds a
second connection. Both goroutines' errors can meet at `connErr`.

**Finding 3. The watcher never ends after `Close`.** `unix.Read` on the
closed inotify descriptor (line 105) fails at once, and `Lstat` still finds
the socket file, so the goroutine spins. The descriptor number can also be
reused by another open file, and the loop then reads from that file. The
Darwin watcher returns on a kevent error (helper_test.go:674).
`WatcherExitsAfterClose` asks that the watcher ends after `Close`; TLC's
trace closes the listener with the socket file in place and ends in a
`WatcherLstat`/`WatcherRead` cycle.

**Observation.** Once the `Accept` caller has stopped, the accept goroutine
can also stay blocked on `connNew` (line 118), holding a client connection
that is never closed. The model reaches this state; no run asks for that
goroutine's exit.

### The Darwin watcher: UAPIListenerDarwin

`UAPIListenerDarwin` extends `UAPIListener` with the kqueue watcher of
helper_test.go 658-680. Accept and the accept goroutine are the same code.
`inotifyOpen` stands for `kqueueFd` being open and `inotifyEvent` for a
triggered kevent waiting to be returned. Two variables are added: `armed`
(the one-shot `NOTE_WRITE` event on the socket directory is registered) and
`kerr` (the last `Kevent` call failed). The watcher steps are `DarwinLstat`,
`DarwinKevent` (registers the event and waits), `DarwinKeventReturn` and
`DarwinSendErr`. `DirectoryWrite` is any write to the directory, with or
without the socket's unlink. It triggers the event only while it is
registered.

| Run | Bounds | Checks | Result |
|---|---|---|---|
| `uapi_darwin_lost` | 1 client | `DeletionReported` | **violation** (finding 6) |

**Finding 6. A deletion between `Lstat` and `Kevent` is lost**
(helper_test.go:677). Every `Kevent` call registers the event again with
`EV_ONESHOT`. The socket can be unlinked after `Lstat` found it and before
the next `Kevent` registers the event. The watcher then waits for a
directory write that may never come, and `Accept` is never told that the
socket is gone. The Linux watch is added in `UAPIListen` before the goroutine
starts (uapi_linux.go:85), so there the event is queued.

## 6. UAPISocket

`UAPIOpen` (lines 125-176) followed by `UAPIListen`'s `InotifyAddWatch`
(lines 80-95), run by several daemon processes for one interface name.

* `path` is the inode at the socket path: none, a stale file, or the
  socket of process p.
* `live` holds the processes whose listening socket is open.
* `watched` and `event` are each process's inotify watch and its pending
  unlink event.

The steps are `MkdirAll`, `ListenFirst`, `Dial`, `Remove`, `ListenAgain`,
`AddWatch` and `WatcherWake`. `SysFail` stands for a failing descriptor
allocation or `MkdirAll`.

| Run | Bounds | Checks | Result |
|---|---|---|---|
| `uapi_startup` | 3 processes, stale file or none | `SomeInstanceServes` | pass |

**Observation, not kept as a run.** With two processes, TLC reaches this
sequence:

1. Both processes see a stale file, and both fail to dial it.
2. The first removes the file and binds its own socket.
3. The second removes that live socket (line 164) and binds another.
4. The first process's watcher wakes. Its `Lstat` (line 101) finds the
   second process's socket at the path, so it keeps running with a socket
   nobody can reach.

`SomeInstanceServes` still holds. The daemon creates its TUN device before
`UAPIOpen`, outside the repository, and that normally keeps two daemons for
one name apart.

## 7. StickyBind

The IPv4 side of `src/unnamed/part_000`.

* A cached source (`Spec_dst` and `ifindex`) is abstracted to the interface
  it names, or `NoIf` once `ClearSrc` has zeroed it.
* `route[p]` is the interface the kernel would use towards peer p.
* `ends` are the `NativeEndpoint` objects. `ReceiveIPv4` creates one per
  packet and makes it `bind.lastEndpoint`. It also becomes `peer.endpoint`,
  through the device's roaming, which is outside the repository.
* `nlq` and `nlErr` are the netlink socket's receive queue and a pending
  `ENOBUFS` (`Deliver` drops a message on a full buffer, as netlink's
  overrun does).

Actions:

* Route listener: `ListenerRecvError`, `ListenerQuery` and `ListenerReply`.
  * `ListenerQuery`: a notification makes the listener write an
    `RTM_GETROUTE` for `lastEndpoint`, with its cached source as `RTA_SRC`
    (line 633). The kernel answers with the current interface. If that
    source address has been removed, the route lookup fails and the kernel
    answers with an `NLMSG_ERROR` (`NlError`).
  * `ListenerReply`: a differing `RTA_OIF` clears `lastEndpoint`'s source.
    An error answer matches no case of the switch at line 571 and is
    skipped.
  * `ListenerRecvError`: `Recvmsg` fails with `ENOBUFS` after an overrun.
    After `Close` it fails with `EBADF` on the next call. `closeUnblock`'s
    `shutdown(SHUT_RD)` does not wake a `Recvmsg` blocked on a netlink
    socket, so the goroutine leaves only once a message has arrived.
* `Send4`, and `Send4Retry` for the `EINVAL` retry.
* `Close`.
* The environment: `ReceiveIPv4`, `RouteChange` and `AddrRemove`. Removing
  an address deletes its local route, so `AddrRemove` also queues a
  notification.

`invalidated` records the endpoints that peers were using when a route
change made their cached interface wrong. `StaleSourceCleared` asks that
each of them is eventually cleared. It excuses four cases:
* the route moves back;
* the peer stops using the endpoint;
* the bind is closed;
* the cached address has been removed. The listener's query then fails, and
  spec section 9 leaves this case to the `EINVAL` retry of the next
  `send4`. Sends are traffic, and no fairness is put on them. Fairness is on the listener's steps
and the retry.

| Run | Bounds | Checks | Result |
|---|---|---|---|
| `bind_liveness` | 1 peer, 2 interfaces, 2 receives, 2 route changes, 2 sends, buffer 4 | `StaleSourceCleared` | pass |
| `bind_overrun` | 1 peer, 2 notifications, buffer 1 | `StaleSourceCleared` | **violation** (finding 4) |

A buffer of 4 cannot overflow in `bind_liveness`. Each route change or
address removal queues one notification, and the listener replaces it with
at most one answer. There are at most four such events. The pass run therefore isolates the
query/reply logic.

**Observation, not kept as a run. Only `lastEndpoint` is re-checked**
(line 573). Spec section 4.7 describes this limit, and the `EINVAL` retry of
`send4` is the fallback. With two peers (`MCPeers2`) TLC reaches:

1. Peer 2's endpoint caches interface i1.
2. The route to peer 2 moves to i2.
3. A packet from peer 1 arrives, and its endpoint becomes `lastEndpoint`.
4. The listener checks peer 1's endpoint, and peer 2 keeps its stale
   source.

**Finding 4. One overrun ends the route listener** (line 558). `Recvmsg`
returns `ENOBUFS` after a burst of route notifications. The goroutine
returns, and no cached source is invalidated again for the life of the
bind.

## 8. Not modelled

* Packet bytes, header layout and AEAD. The seal is a flag, because the
  pipeline's properties do not depend on the bytes. Padding is planned as an
  operator.
* `handshakeAttempts`. It is only reset here and is read by the timers.
* Peer stop and device close. They are in files not in the repository;
  `PipelineShutdown` models them as closing the two stop channels.
* The IPv6 half of the bind (`ReceiveIPv6`, `send6`). Its control flow is
  the IPv4 half's, and the route listener ignores IPv6 endpoints. Also not
  modelled: `SetMark` (it only changes the mark the query carries), socket
  creation (`CreateBind`, `create4`, `create6`), and `CreateEndpoint` with
  the address conversions, which are pure data.
* The byte-wise `ClearSrc` racing `send4`'s read of the source. The model
  keeps a source as one value.
* The Darwin `UAPIOpen`. It is the Linux one, modelled by `UAPISocket`.
* `ReceiveIPv4` makes the new endpoint `lastEndpoint` even when `Recvmsg`
  fails (part_000:209). Its source has `ifindex` 0, so the route listener
  skips it (line 574) until the next packet arrives. The model's
  `ReceiveIPv4` covers only the successful receive.
* The leaks on `UAPIListen`'s error returns. The daemon exits on that error.
* The test doubles (helper_test.go 1-84).
