--------------------------- MODULE PipelineShutdown ---------------------------
(***************************************************************************)
(* Shutdown of the outbound data path of send.go (src/helper_test.go):     *)
(* one peer's RoutineNonce and RoutineSequentialSender, which return when  *)
(* peer.routines.stop is closed, and the RoutineEncryption workers, which  *)
(* return when device.signals.stop is closed.  Each of them waits in a     *)
(* select over its stop channel and its input queue, and Go picks either   *)
(* case when both are ready.  The sender's elem.mutex.Lock() is outside    *)
(* the select: it waits for the worker that seals the element.             *)
(*                                                                         *)
(* The keypair is taken to be usable (the key wait also returns on stop    *)
(* and is modelled in OutboundPipeline); sealing and sending are one step  *)
(* each.  Closing the two stop channels is done by device and peer code    *)
(* that is not in the repository, in either order.                         *)
(***************************************************************************)
EXTENDS Integers, Sequences, FiniteSets

CONSTANTS
  Workers,       \* RoutineEncryption goroutines
  QueueCap,      \* capacity of the nonce, encryption and outbound channels
  MaxReads       \* bound: packets the TUN reader routes to the peer

ASSUME Workers # {} /\ {QueueCap, MaxReads} \subseteq Nat \ {0}

Elems == 1..MaxReads

VARIABLES
  reads,      \* packets routed so far; element i is the i-th
  nonceQ,     \* peer.queue.nonce
  encQ,       \* device.queue.encryption
  outQ,       \* peer.queue.outbound
  dropped,    \* elem.dropped, per element
  locked,     \* elem.mutex is locked, per element
  nPc,        \* RoutineNonce: "run" or "exit"
  wPc,        \* each RoutineEncryption: "run" or "exit"
  sPc,        \* RoutineSequentialSender: "run", "lock" or "exit"
  sElem,      \* the element the sender waits on
  devStop,    \* device.signals.stop is closed
  peerStop    \* peer.routines.stop is closed

vars == <<reads, nonceQ, encQ, outQ, dropped, locked, nPc, wPc, sPc, sElem,
          devStop, peerStop>>

\* addToOutboundQueue / addToEncryptionQueue: a push onto a full channel
\* first takes the oldest element off it.
Pushed(q, e) == IF Len(q) < QueueCap THEN Append(q, e) ELSE Append(Tail(q), e)
Evicted(q) == IF Len(q) < QueueCap THEN {} ELSE {Head(q)}

-----------------------------------------------------------------------------

\* RoutineReadFromTUN: a packet for the peer enters its nonce queue; an
\* evicted element is dropped.
ReadRoute ==
  /\ reads < MaxReads
  /\ reads' = reads + 1
  /\ nonceQ' = Pushed(nonceQ, reads + 1)
  /\ dropped' = [e \in Elems |-> dropped[e] \/ e \in Evicted(nonceQ)]
  /\ UNCHANGED <<encQ, outQ, locked, nPc, wPc, sPc, sElem, devStop, peerStop>>

\* RoutineNonce's select, stop case.
NonceStop ==
  /\ nPc = "run" /\ peerStop
  /\ nPc' = "exit"
  /\ UNCHANGED <<reads, nonceQ, encQ, outQ, dropped, locked, wPc, sPc, sElem,
                 devStop, peerStop>>

\* RoutineNonce's select, element case: lock the element's mutex, push it
\* onto the encryption queue (an evicted element is dropped and unlocked)
\* and onto the outbound queue (an evicted element is dropped).
NonceSubmit ==
  LET e == Head(nonceQ)
      encEv == Evicted(encQ)
      outEv == Evicted(outQ)
  IN
  /\ nPc = "run" /\ nonceQ # <<>>
  /\ nonceQ' = Tail(nonceQ)
  /\ encQ' = Pushed(encQ, e)
  /\ outQ' = Pushed(outQ, e)
  /\ dropped' = [x \in Elems |-> IF x = e THEN FALSE
                                 ELSE dropped[x] \/ x \in encEv \cup outEv]
  /\ locked' = [x \in Elems |-> IF x = e THEN TRUE
                                ELSE locked[x] /\ x \notin encEv]
  /\ UNCHANGED <<reads, nPc, wPc, sPc, sElem, devStop, peerStop>>

\* RoutineEncryption's select, stop case.
WorkerStop(w) ==
  /\ wPc[w] = "run" /\ devStop
  /\ wPc' = [wPc EXCEPT ![w] = "exit"]
  /\ UNCHANGED <<reads, nonceQ, encQ, outQ, dropped, locked, nPc, sPc, sElem,
                 devStop, peerStop>>

\* RoutineEncryption's select, element case: a dropped element is skipped;
\* any other is sealed and its mutex unlocked.
WorkerSeal(w) ==
  LET e == Head(encQ) IN
  /\ wPc[w] = "run" /\ encQ # <<>>
  /\ encQ' = Tail(encQ)
  /\ locked' = IF dropped[e] THEN locked ELSE [locked EXCEPT ![e] = FALSE]
  /\ UNCHANGED <<reads, nonceQ, outQ, dropped, nPc, wPc, sPc, sElem, devStop,
                 peerStop>>

\* RoutineSequentialSender's select, stop case.
SenderStop ==
  /\ sPc = "run" /\ peerStop
  /\ sPc' = "exit"
  /\ UNCHANGED <<reads, nonceQ, encQ, outQ, dropped, locked, nPc, wPc, sElem,
                 devStop, peerStop>>

\* RoutineSequentialSender's select, element case.
SenderPop ==
  /\ sPc = "run" /\ outQ # <<>>
  /\ sElem' = Head(outQ)
  /\ outQ' = Tail(outQ)
  /\ sPc' = "lock"
  /\ UNCHANGED <<reads, nonceQ, encQ, dropped, locked, nPc, wPc, devStop,
                 peerStop>>

\* elem.mutex.Lock() returns once the element is unlocked; the sender then
\* skips a dropped element or sends it, and selects again.
SenderLocked ==
  /\ sPc = "lock" /\ ~locked[sElem]
  /\ locked' = [locked EXCEPT ![sElem] = TRUE]
  /\ sPc' = "run"
  /\ UNCHANGED <<reads, nonceQ, encQ, outQ, dropped, nPc, wPc, sElem, devStop,
                 peerStop>>

\* close(device.signals.stop)
DeviceStop ==
  /\ ~devStop /\ devStop' = TRUE
  /\ UNCHANGED <<reads, nonceQ, encQ, outQ, dropped, locked, nPc, wPc, sPc,
                 sElem, peerStop>>

\* close(peer.routines.stop)
PeerStop ==
  /\ ~peerStop /\ peerStop' = TRUE
  /\ UNCHANGED <<reads, nonceQ, encQ, outQ, dropped, locked, nPc, wPc, sPc,
                 sElem, devStop>>

-----------------------------------------------------------------------------

Init ==
  /\ reads = 0
  /\ nonceQ = <<>> /\ encQ = <<>> /\ outQ = <<>>
  /\ dropped = [e \in Elems |-> FALSE]
  /\ locked = [e \in Elems |-> FALSE]
  /\ nPc = "run"
  /\ wPc = [w \in Workers |-> "run"]
  /\ sPc = "run" /\ sElem = 1
  /\ devStop = FALSE /\ peerStop = FALSE

Nonce == NonceStop \/ NonceSubmit
Worker(w) == WorkerStop(w) \/ WorkerSeal(w)
Sender == SenderStop \/ SenderPop \/ SenderLocked

Next ==
  \/ Nonce \/ Sender \/ \E w \in Workers : Worker(w)
  \/ ReadRoute \/ DeviceStop \/ PeerStop

Spec == Init /\ [][Next]_vars

\* Every goroutine is scheduled while one of its cases is ready.
FairSpec ==
  /\ Spec
  /\ WF_vars(Nonce) /\ WF_vars(Sender) /\ \A w \in Workers : WF_vars(Worker(w))

-----------------------------------------------------------------------------

\* Device close (device.state.stopping.Wait) and peer stop
\* (peer.routines.stopping.Wait) return only when every routine has
\* returned: once both stop channels are closed, the sequencer, the sender
\* and every encryption worker eventually exit.
ShutdownCompletes ==
  (devStop /\ peerStop)
    ~> (nPc = "exit" /\ sPc = "exit" /\ \A w \in Workers : wPc[w] = "exit")

=============================================================================
