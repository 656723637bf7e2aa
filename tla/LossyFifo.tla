------------------------------ MODULE LossyFifo ------------------------------
(***************************************************************************)
(* What the outbound pipeline promises each peer (spec sections 4.1 and    *)
(* 5, "Ordering guarantees"): packets leave in the order they were         *)
(* submitted; any of them may be lost on the way; none is reordered,       *)
(* duplicated or invented.                                                 *)
(*                                                                         *)
(* pending[p] holds the submission numbers of p's packets still on their   *)
(* way, oldest first; delivered[p] is what left for p, in order.  A        *)
(* submission may lose packets in the same step (drop-oldest eviction).    *)
(***************************************************************************)
EXTENDS Integers, Sequences

CONSTANTS Peers

VARIABLES pending, delivered, count

PendingSet == UNION {{pending[p][i] : i \in DOMAIN pending[p]} : p \in Peers}

Without(s, L) == SelectSeq(s, LAMBDA x : x \notin L)

\* Remove the packets L from every peer's pending sequence.
LoseAll(L) == [q \in Peers |-> Without(pending[q], L)]

Submit(p) ==
  \E L \in SUBSET PendingSet :
    /\ count' = count + 1
    /\ pending' = [LoseAll(L) EXCEPT ![p] = Append(@, count + 1)]
    /\ UNCHANGED delivered

Lose ==
  \E L \in (SUBSET PendingSet) \ {{}} :
    /\ pending' = LoseAll(L)
    /\ UNCHANGED <<delivered, count>>

Deliver(p) ==
  /\ pending[p] # <<>>
  /\ delivered' = [delivered EXCEPT ![p] = Append(@, Head(pending[p]))]
  /\ pending' = [pending EXCEPT ![p] = Tail(@)]
  /\ UNCHANGED count

Init ==
  /\ pending = [p \in Peers |-> <<>>]
  /\ delivered = [p \in Peers |-> <<>>]
  /\ count = 0

Next == Lose \/ \E p \in Peers : Submit(p) \/ Deliver(p)

Spec == Init /\ [][Next]_<<pending, delivered, count>>

=============================================================================
