--------------------------- MODULE HandshakeRateLimit ---------------------------
(***************************************************************************)
(* Peer.SendHandshakeInitiation (src/helper_test.go lines 208-242) as the  *)
(* goroutines of one peer execute it: the TUN reader (awaitingKey), the    *)
(* nonce routine (no usable key) and the sequential sender                 *)
(* (keepKeyFreshSending) may all call it at once.  The RekeyTimeout test   *)
(* on lastSentHandshake and the store to it are separate, unsynchronised   *)
(* steps ("TODO: locking for this variable?").                             *)
(*                                                                         *)
(* A Go time.Time is three words; a racing read could in principle see    *)
(* a mix of two stores.  The model lets a read see one whole store.        *)
(***************************************************************************)
EXTENDS Integers, Sequences, FiniteSets

CONSTANTS
  Callers,        \* goroutines of one peer that trigger initiations
  RekeyTimeout,
  MaxCalls,       \* bound: calls per caller
  MaxTime         \* bound: clock ticks

ASSUME /\ Callers # {}
       /\ RekeyTimeout \in Nat \ {0}
       /\ {MaxCalls, MaxTime} \subseteq Nat

VARIABLES
  now,
  lastSentHandshake,   \* peer.timers.lastSentHandshake
  pc,                  \* position of each caller inside the function
  calls,               \* calls made per caller (bound)
  checkedAt,           \* history: the time.Now() each caller's test read
  initiations          \* history: for each initiation sent, the time at
                       \* which its call passed the rate-limit test

vars == <<now, lastSentHandshake, pc, calls, checkedAt, initiations>>

-----------------------------------------------------------------------------

\* A caller enters SendHandshakeInitiation(false).  (handshakeAttempts,
\* which a non-retry call resets, is read only by the timers.)
Call(c) ==
  /\ pc[c] = "idle"
  /\ calls[c] < MaxCalls
  /\ calls' = [calls EXCEPT ![c] = @ + 1]
  /\ pc' = [pc EXCEPT ![c] = "check"]
  /\ UNCHANGED <<now, lastSentHandshake, checkedAt, initiations>>

\* Fault: no rate limit at all.
CheckNoLimit(c) ==
  /\ pc[c] = "check"
  /\ pc' = [pc EXCEPT ![c] = "set"]
  /\ checkedAt' = [checkedAt EXCEPT ![c] = now]
  /\ UNCHANGED <<now, lastSentHandshake, calls, initiations>>

\* if time.Now().Sub(lastSentHandshake) < RekeyTimeout { return nil }
Check(c) ==
  /\ pc[c] = "check"
  /\ pc' = [pc EXCEPT ![c] = IF now - lastSentHandshake < RekeyTimeout
                                THEN "idle" ELSE "set"]
  /\ checkedAt' = [checkedAt EXCEPT ![c] = now]
  /\ UNCHANGED <<now, lastSentHandshake, calls, initiations>>

\* Fault: the store records the end of the window instead of its start.
SetDeadline(c) ==
  /\ pc[c] = "set"
  /\ lastSentHandshake' = now + RekeyTimeout
  /\ pc' = [pc EXCEPT ![c] = "create"]
  /\ UNCHANGED <<now, calls, checkedAt, initiations>>

\* lastSentHandshake = time.Now()
Set(c) ==
  /\ pc[c] = "set"
  /\ lastSentHandshake' = now
  /\ pc' = [pc EXCEPT ![c] = "create"]
  /\ UNCHANGED <<now, calls, checkedAt, initiations>>

\* CreateMessageInitiation fails: return the error (the store stays).
CreateFail(c) ==
  /\ pc[c] = "create"
  /\ pc' = [pc EXCEPT ![c] = "idle"]
  /\ UNCHANGED <<now, lastSentHandshake, calls, checkedAt, initiations>>

\* The message is created, marshalled and MACed.
CreateOK(c) ==
  /\ pc[c] = "create"
  /\ pc' = [pc EXCEPT ![c] = "send"]
  /\ UNCHANGED <<now, lastSentHandshake, calls, checkedAt, initiations>>

\* Timers are updated and SendBuffer sends the initiation.
Send(c) ==
  /\ pc[c] = "send"
  /\ initiations' = Append(initiations, checkedAt[c])
  /\ pc' = [pc EXCEPT ![c] = "idle"]
  /\ UNCHANGED <<now, lastSentHandshake, calls, checkedAt>>

Tick ==
  /\ now < MaxTime
  /\ now' = now + 1
  /\ UNCHANGED <<lastSentHandshake, pc, calls, checkedAt, initiations>>

Init ==
  /\ now = 0
  \* the zero time.Time: the first call is never rate limited
  /\ lastSentHandshake = -RekeyTimeout
  /\ pc = [c \in Callers |-> "idle"]
  /\ calls = [c \in Callers |-> 0]
  /\ checkedAt = [c \in Callers |-> 0]
  /\ initiations = <<>>

Done ==
  /\ now = MaxTime
  /\ \A c \in Callers : pc[c] = "idle" /\ calls[c] = MaxCalls
  /\ UNCHANGED vars

Next ==
  \/ Tick
  \/ \E c \in Callers : \/ Call(c) \/ Check(c) \/ Set(c)
                        \/ CreateFail(c) \/ CreateOK(c) \/ Send(c)
  \/ Done

Spec == Init /\ [][Next]_vars

-----------------------------------------------------------------------------

TypeOK ==
  /\ now \in 0..MaxTime
  /\ lastSentHandshake \in -RekeyTimeout..MaxTime
  /\ pc \in [Callers -> {"idle", "check", "set", "create", "send"}]
  /\ calls \in [Callers -> 0..MaxCalls]
  /\ checkedAt \in [Callers -> 0..MaxTime]
  /\ initiations \in Seq(0..MaxTime)

SentIn(t) == {i \in DOMAIN initiations :
                t <= initiations[i] /\ initiations[i] < t + RekeyTimeout}

\* Spec 8.8: of the calls that pass the rate-limit test within one
\* RekeyTimeout window, at most one sends an initiation.
InitiationsSpaced == \A t \in 0..MaxTime : Cardinality(SentIn(t)) <= 1

\* What the unlocked test-then-store still guarantees: in any window of
\* RekeyTimeout at most one initiation per concurrent caller leaves, since
\* a caller's next test reads its own store or a later one.
FloodBounded ==
  \A t \in 0..MaxTime : Cardinality(SentIn(t)) <= Cardinality(Callers)

=============================================================================
