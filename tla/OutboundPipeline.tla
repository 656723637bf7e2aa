--------------------------- MODULE OutboundPipeline ---------------------------
(***************************************************************************)
(* The outbound data path of send.go (bundled in src/helper_test.go,       *)
(* lines 85-563): the TUN reader, one nonce sequencer and one sequential   *)
(* sender per peer, a pool of encryption workers, the drop-oldest queues   *)
(* between them and the per-element mutex ("latch") that lets parallel    *)
(* encryption coexist with in-order egress.                                *)
(*                                                                         *)
(* Packet contents, routing and cryptography are abstracted: a work        *)
(* element is an identifier with the fields the routines read and write.  *)
(* The handshake subsystem, the timers and the key store are not in the    *)
(* repository; they appear as environment actions (marked below).          *)
(***************************************************************************)
EXTENDS Integers, Sequences, FiniteSets

LOCAL SeqExt == INSTANCE SequencesExt

CONSTANTS
  Peers,               \* peers with a routing-table entry
  Workers,             \* RoutineEncryption goroutines (one per CPU)
  QueueCap,            \* capacity of each peer's nonce and outbound channels
  EncQueueCap,         \* capacity of the device's encryption channel
  MaxReads,            \* bound: packets read from the TUN device
  MaxKeepalives,       \* bound: SendKeepalive calls that allocate an element
  MaxKeypairs,         \* bound: keypairs installed by handshakes
  MaxTime,             \* bound: clock ticks
  RekeyAfterMessages,
  RejectAfterMessages,
  RekeyAfterTime,
  RejectAfterTime,
  RekeyTimeout

ASSUME /\ Peers # {} /\ Workers # {}
       /\ {QueueCap, EncQueueCap} \subseteq Nat \ {0}
       /\ {MaxReads, MaxKeepalives, MaxKeypairs, MaxTime} \subseteq Nat
       /\ {RekeyAfterMessages, RejectAfterMessages, RekeyAfterTime,
           RejectAfterTime, RekeyTimeout} \subseteq Nat \ {0}

NoKp == 0                                    \* peer.keyPairs.Current() = nil
Keypairs == 1..MaxKeypairs
MaxElems == 1 + MaxReads + MaxKeepalives     \* every NewOutboundElement call
Elems == 1..MaxElems
NoElem == 0
NoPeer == "none"

VARIABLES
  now,                 \* the clock read by time.Now()
  reads, nka,          \* TUN reads and keepalives so far (bounds)
  nsub,                \* elements pushed onto nonce queues so far: submission order
  nextElem,            \* next element identifier NewOutboundElement hands out
  rElem,               \* the element RoutineReadFromTUN reads into
  elem,                \* QueueOutboundElement fields, per element
  nonceQ,              \* peer.queue.nonce
  encQ,                \* device.queue.encryption
  outQ,                \* peer.queue.outbound
  nPc, nElem,          \* RoutineNonce: position and the element it holds
  awaiting,            \* peer.queue.packetInNonceQueueIsAwaitingKey
  wElem,               \* RoutineEncryption: element being sealed
  sElem,               \* RoutineSequentialSender: element it waits on
  current,             \* peer.keyPairs.Current()
  keypair,             \* sendNonce, created, isInitiator per keypair
  nextKp,
  keypairArrived,      \* peer.signals.newKeypairArrived (capacity 1)
  flushSig,            \* peer.signals.flushNonceQueue (capacity 1)
  lastSentHandshake,   \* peer.timers.lastSentHandshake
  hsInFlight,          \* an initiation was sent and its response is pending
  sent                 \* history: transport messages handed to SendBuffer

vars == <<now, reads, nka, nsub, nextElem, rElem, elem, nonceQ, encQ, outQ,
          nPc, nElem, awaiting, wElem, sElem, current, keypair, nextKp,
          keypairArrived, flushSig, lastSentHandshake, hsInFlight, sent>>
hsVars == <<lastSentHandshake, hsInFlight>>
envVars == <<now, current, keypair, nextKp, keypairArrived, flushSig>>

\* pooled: elem.buffer has been handed back by device.PutMessageBuffer.
FreshElem == [peer |-> NoPeer, seq |-> 0, keepalive |-> FALSE, kp |-> NoKp,
              nonce |-> 0, dropped |-> FALSE, locked |-> FALSE,
              sealed |-> FALSE, pooled |-> FALSE]

Held(q) == SeqExt!ToSet(q)

-----------------------------------------------------------------------------
(* Helpers                                                                 *)

\* A keypair is usable for sending (the wait-for-key loop of RoutineNonce).
Usable(k) == /\ k # NoKp
             /\ keypair[k].sendNonce < RejectAfterMessages
             /\ now - keypair[k].created < RejectAfterTime

\* Plausible faults in the helpers below, each used to confirm that a
\* property detects it: an eviction that forgets to unlock, a sequencer
\* that forgets to lock, a lost nonce increment, a reader that reuses its
\* element.
DropReleaseNoUnlock(r) == [r EXCEPT !.dropped = TRUE]
PopulatedNoLock(r, k, n) ==
  [r EXCEPT !.kp = k, !.nonce = n, !.dropped = FALSE]
IncrementLost(k) == keypair
ReaderKeepsElem(e) == e

\* addToOutboundQueue / addToEncryptionQueue: a push onto a full channel
\* first takes the oldest element off it.
Pushed(q, e, cap) == IF Len(q) < cap THEN Append(q, e) ELSE Append(Tail(q), e)
Evicted(q, cap) == IF Len(q) < cap THEN {} ELSE {Head(q)}

\* elem.Drop(), applied by addToOutboundQueue to the element it evicts.
Dropped(r) == [r EXCEPT !.dropped = TRUE]

\* addToEncryptionQueue also unlocks the evicted element's mutex so that a
\* sender waiting on it resumes and skips it.
DropRelease(r) == [r EXCEPT !.dropped = TRUE, !.locked = FALSE]

\* RoutineNonce populates the work element and locks its mutex.
Populated(r, k, n) ==
  [r EXCEPT !.kp = k, !.nonce = n, !.dropped = FALSE, !.locked = TRUE]

\* After queueing e the reader takes a fresh element for the next read.
ReaderNextElem(e) == nextElem

\* atomic.AddUint64(&keyPair.sendNonce, 1)
IncrementSendNonce(k) == [keypair EXCEPT ![k].sendNonce = @ + 1]

\* SendHandshakeInitiation: rate limited by RekeyTimeout; the message is
\* sent and its response becomes pending.  (handshakeAttempts, which it
\* resets, is read only by the timers and is left out.)
SendHandshakeInitiation(p) ==
  IF now - lastSentHandshake[p] < RekeyTimeout
  THEN UNCHANGED hsVars
  ELSE /\ lastSentHandshake' = [lastSentHandshake EXCEPT ![p] = now]
       /\ hsInFlight' = [hsInFlight EXCEPT ![p] = TRUE]

\* keepKeyFreshSending
KeepKeyFreshSending(p) ==
  LET k == current[p] IN
  IF /\ k # NoKp
     /\ \/ keypair[k].sendNonce > RekeyAfterMessages
        \/ keypair[k].initiator /\ now - keypair[k].created > RekeyAfterTime
  THEN SendHandshakeInitiation(p)
  ELSE UNCHANGED hsVars

-----------------------------------------------------------------------------
(* RoutineReadFromTUN                                                      *)

\* A read the reader discards and retries with the same element: size 0 or
\* above MaxContentSize, unknown IP version, short header, no route, or a
\* peer that is not running.
ReadDiscard ==
  /\ reads < MaxReads
  /\ reads' = reads + 1
  /\ UNCHANGED <<nka, nsub, nextElem, rElem, elem, nonceQ, encQ, outQ, nPc,
                 nElem, awaiting, wElem, sElem, hsVars, envVars, sent>>

\* A packet routed to running peer p: re-trigger the handshake if p's
\* sequencer is awaiting a key, push onto p's nonce queue, take a new element.
ReadRoute(p) ==
  LET e == rElem
      ev == Evicted(nonceQ[p], QueueCap)
  IN
  /\ reads < MaxReads
  /\ reads' = reads + 1
  /\ IF awaiting[p] THEN SendHandshakeInitiation(p) ELSE UNCHANGED hsVars
  /\ nsub' = nsub + 1
  /\ nonceQ' = [nonceQ EXCEPT ![p] = Pushed(@, e, QueueCap)]
  /\ elem' = [x \in Elems |->
                IF x = e THEN [elem[e] EXCEPT !.peer = p, !.seq = nsub + 1]
                ELSE IF x \in ev THEN Dropped(elem[x])
                ELSE elem[x]]
  /\ rElem' = ReaderNextElem(e)
  /\ nextElem' = nextElem + 1
  /\ UNCHANGED <<nka, encQ, outQ, nPc, nElem, awaiting, wElem, sElem,
                 envVars, sent>>

-----------------------------------------------------------------------------
(* SendKeepalive (called by the timers)                                    *)

SendKeepalive(p) ==
  LET e == nextElem IN
  /\ nka < MaxKeepalives
  /\ Len(nonceQ[p]) = 0
  /\ ~awaiting[p]
  /\ nka' = nka + 1
  /\ nextElem' = nextElem + 1
  /\ nsub' = nsub + 1
  /\ nonceQ' = [nonceQ EXCEPT ![p] = Append(@, e)]
  /\ elem' = [elem EXCEPT ![e] = [@ EXCEPT !.peer = p, !.seq = nsub + 1,
                                           !.keepalive = TRUE]]
  /\ UNCHANGED <<reads, rElem, encQ, outQ, nPc, nElem, awaiting, wElem,
                 sElem, hsVars, envVars, sent>>

-----------------------------------------------------------------------------
(* RoutineNonce, one per peer                                              *)

\* NextPacket: clear awaitingKey and take the next element.
NoncePop(p) ==
  /\ nPc[p] = "idle"
  /\ nonceQ[p] # <<>>
  /\ nElem' = [nElem EXCEPT ![p] = Head(nonceQ[p])]
  /\ nonceQ' = [nonceQ EXCEPT ![p] = Tail(@)]
  /\ nPc' = [nPc EXCEPT ![p] = "check"]
  /\ UNCHANGED <<now, reads, nka, nsub, nextElem, rElem, elem, encQ, outQ,
                 awaiting, wElem, sElem, hsVars, envVars, sent>>

\* The current keypair is usable: take a nonce with an atomic add, lock the
\* element and hand it to the encryption queue, then to the outbound queue.
NonceSubmit(p) ==
  LET e == nElem[p]
      k == current[p]
      n == keypair[k].sendNonce
      encEv == Evicted(encQ, EncQueueCap)
      outEv == Evicted(outQ[p], QueueCap)
  IN
  /\ nPc[p] = "check"
  /\ Usable(k)
  /\ keypair' = IncrementSendNonce(k)
  /\ awaiting' = [awaiting EXCEPT ![p] = FALSE]
  /\ nPc' = [nPc EXCEPT ![p] = "idle"]
  /\ nElem' = [nElem EXCEPT ![p] = NoElem]
  /\ IF n >= RejectAfterMessages
     THEN UNCHANGED <<elem, encQ, outQ>>
     ELSE /\ encQ' = Pushed(encQ, e, EncQueueCap)
          /\ outQ' = [outQ EXCEPT ![p] = Pushed(@, e, QueueCap)]
          /\ elem' = [x \in Elems |->
               CASE x = e -> Populated(elem[e], k, n)
                 [] x \in encEv -> DropRelease(elem[x])
                 [] x \in outEv -> Dropped(elem[x])
                 [] OTHER -> elem[x]]
  /\ UNCHANGED <<now, reads, nka, nsub, nextElem, rElem, nonceQ, wElem, sElem,
                 hsVars, current, nextKp, keypairArrived, flushSig, sent>>

\* No usable keypair: mark the peer as awaiting a key.
NonceStall(p) ==
  /\ nPc[p] = "check"
  /\ ~Usable(current[p])
  /\ awaiting' = [awaiting EXCEPT ![p] = TRUE]
  /\ nPc' = [nPc EXCEPT ![p] = "drain"]
  /\ UNCHANGED <<now, reads, nka, nsub, nextElem, rElem, elem, nonceQ, encQ,
                 outQ, nElem, wElem, sElem, hsVars, envVars, sent>>

\* Discard a stale newKeypairArrived signal, trigger a handshake, then wait.
NonceDrain(p) ==
  /\ nPc[p] = "drain"
  /\ keypairArrived' = [keypairArrived EXCEPT ![p] = FALSE]
  /\ SendHandshakeInitiation(p)
  /\ nPc' = [nPc EXCEPT ![p] = "wait"]
  /\ UNCHANGED <<now, reads, nka, nsub, nextElem, rElem, elem, nonceQ, encQ,
                 outQ, nElem, awaiting, wElem, sElem, current, keypair,
                 nextKp, flushSig, sent>>

\* newKeypairArrived fired: test the keypair again.
NonceWake(p) ==
  /\ nPc[p] = "wait"
  /\ keypairArrived[p]
  /\ keypairArrived' = [keypairArrived EXCEPT ![p] = FALSE]
  /\ nPc' = [nPc EXCEPT ![p] = "check"]
  /\ UNCHANGED <<now, reads, nka, nsub, nextElem, rElem, elem, nonceQ, encQ,
                 outQ, nElem, awaiting, wElem, sElem, hsVars, current, keypair,
                 nextKp, flushSig, sent>>

\* flushNonceQueue fired: empty the nonce queue, drop the held element and
\* go back to NextPacket.
NonceFlush(p) ==
  /\ nPc[p] = "wait"
  /\ flushSig[p]
  /\ flushSig' = [flushSig EXCEPT ![p] = FALSE]
  /\ nonceQ' = [nonceQ EXCEPT ![p] = <<>>]
  /\ nPc' = [nPc EXCEPT ![p] = "idle"]
  /\ nElem' = [nElem EXCEPT ![p] = NoElem]
  /\ awaiting' = [awaiting EXCEPT ![p] = FALSE]
  /\ UNCHANGED <<now, reads, nka, nsub, nextElem, rElem, elem, encQ, outQ,
                 wElem, sElem, hsVars, current, keypair, nextKp,
                 keypairArrived, sent>>

-----------------------------------------------------------------------------
(* RoutineEncryption, one per worker                                       *)

\* A dropped element is skipped (its mutex is left as it is).
WorkerSkip(w) ==
  /\ wElem[w] = NoElem
  /\ encQ # <<>>
  /\ elem[Head(encQ)].dropped
  /\ encQ' = Tail(encQ)
  /\ UNCHANGED <<now, reads, nka, nsub, nextElem, rElem, elem, nonceQ, outQ,
                 nPc, nElem, awaiting, wElem, sElem, hsVars, envVars, sent>>

WorkerTake(w) ==
  /\ wElem[w] = NoElem
  /\ encQ # <<>>
  /\ ~elem[Head(encQ)].dropped
  /\ wElem' = [wElem EXCEPT ![w] = Head(encQ)]
  /\ encQ' = Tail(encQ)
  /\ UNCHANGED <<now, reads, nka, nsub, nextElem, rElem, elem, nonceQ, outQ,
                 nPc, nElem, awaiting, sElem, hsVars, envVars, sent>>

\* Write the header, pad, seal with (keyPair, nonce), unlock the mutex.
WorkerSeal(w) ==
  LET e == wElem[w] IN
  /\ e # NoElem
  /\ elem' = [elem EXCEPT ![e].sealed = TRUE, ![e].locked = FALSE]
  /\ wElem' = [wElem EXCEPT ![w] = NoElem]
  /\ UNCHANGED <<now, reads, nka, nsub, nextElem, rElem, nonceQ, encQ, outQ,
                 nPc, nElem, awaiting, sElem, hsVars, envVars, sent>>

-----------------------------------------------------------------------------
(* RoutineSequentialSender, one per peer                                   *)

SenderPop(p) ==
  /\ sElem[p] = NoElem
  /\ outQ[p] # <<>>
  /\ sElem' = [sElem EXCEPT ![p] = Head(outQ[p])]
  /\ outQ' = [outQ EXCEPT ![p] = Tail(@)]
  /\ UNCHANGED <<now, reads, nka, nsub, nextElem, rElem, elem, nonceQ, encQ,
                 nPc, nElem, awaiting, wElem, hsVars, envVars, sent>>

\* Fault: a sender that does not wait on the element's mutex.
LatchIgnored(p) == sElem[p] # NoElem

\* elem.mutex.Lock() returns once the worker (or an eviction) unlocked it.
LatchAcquired(p) == sElem[p] # NoElem /\ ~elem[sElem[p]].locked

\* The element was dropped: skip it.
SenderSkip(p) ==
  LET e == sElem[p] IN
  /\ LatchAcquired(p)
  /\ elem[e].dropped
  /\ elem' = [elem EXCEPT ![e].locked = TRUE]
  /\ sElem' = [sElem EXCEPT ![p] = NoElem]
  /\ UNCHANGED <<now, reads, nka, nsub, nextElem, rElem, nonceQ, encQ, outQ,
                 nPc, nElem, awaiting, wElem, hsVars, envVars, sent>>

\* SendBuffer succeeds: return the buffer, count the bytes, keep the key fresh.
SenderTransmit(p) ==
  LET e == sElem[p] IN
  /\ LatchAcquired(p)
  /\ ~elem[e].dropped
  /\ elem' = [elem EXCEPT ![e].locked = TRUE, ![e].pooled = TRUE]
  /\ sElem' = [sElem EXCEPT ![p] = NoElem]
  /\ sent' = [sent EXCEPT ![p] = Append(@, [e |-> e, seq |-> elem[e].seq,
                 kp |-> elem[e].kp, nonce |-> elem[e].nonce,
                 sealed |-> elem[e].sealed])]
  /\ KeepKeyFreshSending(p)
  /\ UNCHANGED <<now, reads, nka, nsub, nextElem, rElem, nonceQ, encQ, outQ,
                 nPc, nElem, awaiting, wElem, envVars>>

\* SendBuffer fails: the buffer is returned all the same (PutMessageBuffer
\* comes before the error test) and the packet is lost.
SenderSendFail(p) ==
  LET e == sElem[p] IN
  /\ LatchAcquired(p)
  /\ ~elem[e].dropped
  /\ elem' = [elem EXCEPT ![e].locked = TRUE, ![e].pooled = TRUE]
  /\ sElem' = [sElem EXCEPT ![p] = NoElem]
  /\ UNCHANGED <<now, reads, nka, nsub, nextElem, rElem, nonceQ, encQ, outQ,
                 nPc, nElem, awaiting, wElem, hsVars, envVars, sent>>

-----------------------------------------------------------------------------
(* Environment: the handshake subsystem, the timers and the clock are not  *)
(* in the repository.                                                      *)

\* The response to our initiation arrives: a new initiator keypair becomes
\* current and newKeypairArrived is signalled (non-blocking send).
HandshakeComplete(p) ==
  /\ hsInFlight[p]
  /\ nextKp \in Keypairs
  /\ keypair' = [keypair EXCEPT ![nextKp] =
                   [sendNonce |-> 0, created |-> now, initiator |-> TRUE]]
  /\ current' = [current EXCEPT ![p] = nextKp]
  /\ nextKp' = nextKp + 1
  /\ hsInFlight' = [hsInFlight EXCEPT ![p] = FALSE]
  /\ keypairArrived' = [keypairArrived EXCEPT ![p] = TRUE]
  /\ UNCHANGED <<now, reads, nka, nsub, nextElem, rElem, elem, nonceQ, encQ,
                 outQ, nPc, nElem, awaiting, wElem, sElem, lastSentHandshake,
                 flushSig, sent>>

\* The remote peer initiated: a responder keypair becomes current.
HandshakeResponded(p) ==
  /\ nextKp \in Keypairs
  /\ keypair' = [keypair EXCEPT ![nextKp] =
                   [sendNonce |-> 0, created |-> now, initiator |-> FALSE]]
  /\ current' = [current EXCEPT ![p] = nextKp]
  /\ nextKp' = nextKp + 1
  /\ keypairArrived' = [keypairArrived EXCEPT ![p] = TRUE]
  /\ UNCHANGED <<now, reads, nka, nsub, nextElem, rElem, elem, nonceQ, encQ,
                 outQ, nPc, nElem, awaiting, wElem, sElem, hsVars, flushSig,
                 sent>>

\* FlushNonceQueue: a non-blocking send on flushNonceQueue.
FlushNonceQueue(p) ==
  /\ ~flushSig[p]
  /\ flushSig' = [flushSig EXCEPT ![p] = TRUE]
  /\ UNCHANGED <<now, reads, nka, nsub, nextElem, rElem, elem, nonceQ, encQ,
                 outQ, nPc, nElem, awaiting, wElem, sElem, hsVars, current,
                 keypair, nextKp, keypairArrived, sent>>

Tick ==
  /\ now < MaxTime
  /\ now' = now + 1
  /\ UNCHANGED <<reads, nka, nsub, nextElem, rElem, elem, nonceQ, encQ, outQ,
                 nPc, nElem, awaiting, wElem, sElem, hsVars, current, keypair,
                 nextKp, keypairArrived, flushSig, sent>>

-----------------------------------------------------------------------------

Init ==
  /\ now = 0
  /\ reads = 0 /\ nka = 0 /\ nsub = 0
  /\ rElem = 1
  /\ nextElem = 2
  /\ elem = [e \in Elems |-> FreshElem]
  /\ nonceQ = [p \in Peers |-> <<>>]
  /\ encQ = <<>>
  /\ outQ = [p \in Peers |-> <<>>]
  /\ nPc = [p \in Peers |-> "idle"]
  /\ nElem = [p \in Peers |-> NoElem]
  /\ awaiting = [p \in Peers |-> FALSE]
  /\ wElem = [w \in Workers |-> NoElem]
  /\ sElem = [p \in Peers |-> NoElem]
  /\ current = [p \in Peers |-> NoKp]
  /\ keypair = [k \in Keypairs |->
                  [sendNonce |-> 0, created |-> 0, initiator |-> FALSE]]
  /\ nextKp = 1
  /\ keypairArrived = [p \in Peers |-> FALSE]
  /\ flushSig = [p \in Peers |-> FALSE]
  \* the zero time.Time: the first initiation is never rate limited
  /\ lastSentHandshake = [p \in Peers |-> -RekeyTimeout]
  /\ hsInFlight = [p \in Peers |-> FALSE]
  /\ sent = [p \in Peers |-> <<>>]

\* Every routine is blocked on an empty channel (or on a key that is not
\* coming) and the bounded environment is exhausted.
Quiescent ==
  /\ reads = MaxReads /\ nka = MaxKeepalives /\ now = MaxTime
  /\ encQ = <<>>
  /\ \A w \in Workers : wElem[w] = NoElem
  /\ \A p \in Peers : /\ sElem[p] = NoElem /\ outQ[p] = <<>>
                      /\ nPc[p] \in {"idle", "wait"}

Done == Quiescent /\ UNCHANGED vars

Routines ==
  \/ ReadDiscard
  \/ \E p \in Peers :
       \/ ReadRoute(p) \/ SendKeepalive(p)
       \/ NoncePop(p) \/ NonceSubmit(p) \/ NonceStall(p) \/ NonceDrain(p)
       \/ NonceWake(p) \/ NonceFlush(p)
       \/ SenderPop(p) \/ SenderSkip(p) \/ SenderTransmit(p) \/ SenderSendFail(p)
  \/ \E w \in Workers : WorkerSkip(w) \/ WorkerTake(w) \/ WorkerSeal(w)

Environment ==
  \/ Tick
  \/ \E p \in Peers : \/ HandshakeComplete(p) \/ HandshakeResponded(p)
                      \/ FlushNonceQueue(p)

Next == Routines \/ Environment \/ Done

\* The Go scheduler runs every runnable goroutine; a sent initiation is
\* answered (loss and retransmission belong to the timers, not modelled).
Fairness ==
  /\ \A w \in Workers : WF_vars(WorkerSkip(w) \/ WorkerTake(w) \/ WorkerSeal(w))
  /\ \A p \in Peers :
       /\ WF_vars(SenderPop(p) \/ SenderSkip(p) \/ SenderTransmit(p)
                  \/ SenderSendFail(p))
       /\ WF_vars(NoncePop(p) \/ NonceSubmit(p) \/ NonceStall(p)
                  \/ NonceDrain(p) \/ NonceWake(p) \/ NonceFlush(p))
       /\ WF_vars(HandshakeComplete(p))
  /\ WF_vars(Tick)

Spec == Init /\ [][Next]_vars
FairSpec == Spec /\ Fairness


-----------------------------------------------------------------------------
(* Properties                                                              *)

TypeOK ==
  /\ now \in 0..MaxTime
  /\ reads \in 0..MaxReads /\ nka \in 0..MaxKeepalives
  /\ rElem \in Elems /\ nextElem \in 1..(MaxElems + 1)
  /\ elem \in [Elems -> [peer : Peers \cup {NoPeer}, seq : Nat,
                         keepalive : BOOLEAN, kp : Keypairs \cup {NoKp},
                         nonce : Nat, dropped : BOOLEAN, locked : BOOLEAN,
                         sealed : BOOLEAN, pooled : BOOLEAN]]
  /\ \A p \in Peers : Len(nonceQ[p]) <= QueueCap /\ Len(outQ[p]) <= QueueCap
  /\ Len(encQ) <= EncQueueCap
  /\ nPc \in [Peers -> {"idle", "check", "drain", "wait"}]
  /\ nElem \in [Peers -> Elems \cup {NoElem}]
  /\ wElem \in [Workers -> Elems \cup {NoElem}]
  /\ sElem \in [Peers -> Elems \cup {NoElem}]
  /\ current \in [Peers -> Keypairs \cup {NoKp}]
  /\ awaiting \in [Peers -> BOOLEAN]
  /\ keypairArrived \in [Peers -> BOOLEAN] /\ flushSig \in [Peers -> BOOLEAN]
  /\ hsInFlight \in [Peers -> BOOLEAN]

\* Per-peer egress order (spec 8.1 and 8.3): the transport messages the
\* sequential sender hands to SendBuffer follow the order in which their
\* elements entered the nonce queue, and under one keypair their counters
\* strictly increase, whichever encryption worker finished first.
InOrderEgress ==
  \A p \in Peers : \A i, j \in 1..Len(sent[p]) :
    i < j => /\ sent[p][i].seq < sent[p][j].seq
             /\ sent[p][i].kp = sent[p][j].kp =>
                  sent[p][i].nonce < sent[p][j].nonce

\* The latch orders sealing before sending: every message handed to
\* SendBuffer was sealed by an encryption worker, and its counter is below
\* RejectAfterMessages.
SentOnlySealed ==
  \A p \in Peers : \A i \in 1..Len(sent[p]) :
    sent[p][i].sealed /\ sent[p][i].nonce < RejectAfterMessages

\* No sender blocks for ever on elem.mutex.Lock(): a locked element that a
\* sender holds or will pop is still in the encryption queue or in a
\* worker's hands, so some worker (or an eviction) will unlock it.
LatchReleasable ==
  \A p \in Peers :
    \A e \in ({sElem[p]} \cup Held(outQ[p])) \ {NoElem} :
      elem[e].locked =>
        e \in Held(encQ) \/ \E w \in Workers : wElem[w] = e

\* A worker only unlocks a mutex the sequencer locked: sync.Mutex panics
\* on the unlock of an unlocked mutex.
UnlockOnlyLocked ==
  [][\A w \in Workers : WorkerSeal(w) => elem[wElem[w]].locked]_vars

\* Refinement mapping onto LossyFifo: a peer's pending packets are its
\* elements held by the nonce queue, the sequencer, the outbound queue or
\* the sender and not marked dropped, in submission order.
InFlight(p) ==
  ({nElem[p], sElem[p]} \cup Held(nonceQ[p]) \cup Held(outQ[p])) \ {NoElem}
LivePending(p) ==
  SeqExt!SetToSortSeq({elem[e].seq : e \in {x \in InFlight(p) : ~elem[x].dropped}}, <)
Fifo == INSTANCE LossyFifo
          WITH pending <- [p \in Peers |-> LivePending(p)],
               delivered <- [p \in Peers |-> [i \in DOMAIN sent[p] |-> sent[p][i].seq]],
               count <- nsub

\* The pipeline implements a per-peer lossy FIFO (spec 4.1): whatever the
\* interleaving of reader, sequencer, workers and sender, every message
\* handed to SendBuffer is the oldest of the peer's packets still in flight;
\* packets may be lost, never reordered, duplicated or invented.
LossyFifoRefined == Fifo!Spec

\* The elements some routine can still reach: the reader's, the ones in a
\* channel and the ones a sequencer, worker or sender holds.
Referenced ==
  {rElem} \cup
  UNION {Held(nonceQ[p]) \cup Held(outQ[p]) \cup {nElem[p], sElem[p]} :
         p \in Peers} \cup
  Held(encQ) \cup {wElem[w] : w \in Workers}

\* Spec 8.5 and section 5 ("exactly one of {sender, drop-on-queue-eviction
\* path} releases each buffer; draining on flushNonceQueue must release
\* buffers too"): an element that NewOutboundElement created and that no
\* routine can reach any more has had its buffer returned to the pool.
BuffersReturned ==
  \A e \in 1..(nextElem - 1) : e \notin Referenced => elem[e].pooled

\* Every element a sender waits on is eventually released to it.
SenderProgress == \A p \in Peers : sElem[p] # NoElem ~> sElem[p] = NoElem

\* Spec scenario S2: once a keypair has arrived, a sequencer stalled on the
\* key resumes.  It must not depend on a further handshake: the property
\* speaks of stalls with a usable key and no initiation outstanding.
KeyArrivalWakesSequencer ==
  \A p \in Peers :
    (nPc[p] = "wait" /\ Usable(current[p]) /\ ~hsInFlight[p])
      ~> nPc[p] # "wait"

=============================================================================
