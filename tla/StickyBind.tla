------------------------------ MODULE StickyBind ------------------------------
(***************************************************************************)
(* The IPv4 side of the sticky-socket bind (src/unnamed/part_000):         *)
(* ReceiveIPv4 caching the local address and interface a packet arrived   *)
(* on, send4 with its EINVAL retry, routineRouteListener's                 *)
(* notification / GETROUTE query / reply cycle against bind.lastEndpoint,  *)
(* and Close.                                                              *)
(*                                                                         *)
(* A cached source is abstracted to the interface whose address it names   *)
(* (ifindex and Spec_dst together), or NoIf once ClearSrc zeroed it.  The  *)
(* kernel's route to a peer is route[p], the interface a GETROUTE for the  *)
(* peer's address names as RTA_OIF.  The device, which is not in the       *)
(* repository, makes the endpoint of every received packet its peer's      *)
(* endpoint (roaming).                                                     *)
(***************************************************************************)
EXTENDS Integers, Sequences, FiniteSets

CONSTANTS
  Peers,
  Ifaces,
  MaxRecv,           \* bound: packets received (endpoints created)
  MaxRouteChanges,   \* bound: kernel route changes
  MaxSends,          \* bound: send4 calls
  NlCap              \* messages the netlink socket's receive buffer holds

ASSUME {MaxRecv, MaxRouteChanges, MaxSends, NlCap} \subseteq Nat

NoIf == 0
NoEnd == 0
EndIds == 1..MaxRecv

\* A route notification (RTM_NEWROUTE/RTM_DELROUTE from the multicast
\* group), the reply to the listener's own query (seq 0xff), and the
\* NLMSG_ERROR the kernel answers that query with when its RTA_SRC is no
\* longer a local address (the output route lookup fails with EINVAL).
Notification == [type |-> "change"]
Reply(oif) == [type |-> "reply", oif |-> oif]
NlError == [type |-> "error"]

VARIABLES
  route,          \* the kernel's outgoing interface towards each peer
  local,          \* interfaces whose address is still configured
  ends,           \* NativeEndpoint objects: peer and cached source
  nRecv,
  lastEndpoint,   \* bind.lastEndpoint
  peerEnd,        \* peer.endpoint
  nlq,            \* the netlink socket's receive queue
  nlErr,          \* ENOBUFS pending on the netlink socket
  closed,         \* Close has shut the sockets down
  lPc,            \* the route listener: "recv" or "exit"
  sPc, sEnd,      \* each peer's sender inside send4
  nSends, nChanges,
  invalidated     \* history: endpoints whose cached source a route change
                  \* made wrong while a peer used them

vars == <<route, local, ends, nRecv, lastEndpoint, peerEnd, nlq, nlErr,
          closed, lPc, sPc, sEnd, nSends, nChanges, invalidated>>

-----------------------------------------------------------------------------

\* The kernel queues a message for the socket, or drops it and records
\* ENOBUFS when the receive buffer is full (netlink_overrun).
Deliver(q, m) ==
  IF Len(q) < NlCap THEN /\ nlq' = Append(q, m) /\ UNCHANGED nlErr
                    ELSE /\ nlq' = q /\ nlErr' = TRUE

ClearSrc(e) == [ends EXCEPT ![e].src = NoIf]

SrcOf(e) == IF e = NoEnd THEN NoIf ELSE ends[e].src

\* ReceiveIPv4: receive4 fills a fresh endpoint from the packet's source
\* address and IP_PKTINFO, and bind.lastEndpoint is set to it.
ReceiveIPv4(p, i) ==
  /\ ~closed
  /\ nRecv < MaxRecv
  /\ i \in local
  /\ LET e == nRecv + 1 IN
       /\ ends' = [ends EXCEPT ![e] = [peer |-> p, src |-> i]]
       /\ lastEndpoint' = e
       /\ peerEnd' = [peerEnd EXCEPT ![p] = e]
  /\ nRecv' = nRecv + 1
  /\ UNCHANGED <<route, local, nlq, nlErr, closed, lPc, sPc, sEnd,
                 nSends, nChanges, invalidated>>

\* A route in the kernel's table changes and the kernel multicasts it to
\* RTNLGRP_IPV4_ROUTE; the route towards p is now via interface i (which
\* may be the interface it already was: the change was to another route).
RouteChange(p, i) ==
  /\ nChanges < MaxRouteChanges
  /\ route' = [route EXCEPT ![p] = i]
  /\ invalidated' = invalidated \cup
       {e \in {peerEnd[p]} \ {NoEnd} : ends[e].src \notin {NoIf, i}}
  /\ Deliver(nlq, Notification)
  /\ nChanges' = nChanges + 1
  /\ UNCHANGED <<local, ends, nRecv, lastEndpoint, peerEnd, closed, lPc,
                 sPc, sEnd, nSends>>

\* An address is removed from interface i; the kernel deletes its local
\* route and multicasts the RTM_DELROUTE.
AddrRemove(i) ==
  /\ i \in local
  /\ local' = local \ {i}
  /\ Deliver(nlq, Notification)
  /\ UNCHANGED <<route, ends, nRecv, lastEndpoint, peerEnd, closed, lPc, sPc,
                 sEnd, nSends, nChanges, invalidated>>

-----------------------------------------------------------------------------
(* routineRouteListener                                                    *)

\* Recvmsg fails and the goroutine returns: ENOBUFS after an overrun, or
\* EBADF on the Recvmsg after Close.  closeUnblock's SHUT_RD does not wake
\* a Recvmsg blocked on a netlink socket, so after Close the goroutine
\* leaves only once a message has woken it.
ListenerRecvError ==
  /\ lPc = "recv"
  /\ nlErr \/ (closed /\ nlq # <<>>)
  /\ lPc' = "exit"
  /\ UNCHANGED <<route, local, ends, nRecv, lastEndpoint, peerEnd, nlq,
                 nlErr, closed, sPc, sEnd, nSends, nChanges,
                 invalidated>>

\* Nothing to do without a lastEndpoint or with its source cleared.
Tracked == lastEndpoint # NoEnd /\ ends[lastEndpoint].src # NoIf

\* Fault: the reply's interface is compared the wrong way round.
ListenerReplyInverted ==
  /\ lPc = "recv" /\ ~closed
  /\ nlq # <<>> /\ Head(nlq).type \in {"reply", "error"}
  /\ nlq' = Tail(nlq)
  /\ ends' = IF /\ Head(nlq).type = "reply" /\ Tracked
                /\ ends[lastEndpoint].src = Head(nlq).oif
               THEN ClearSrc(lastEndpoint) ELSE ends
  /\ UNCHANGED <<route, local, nRecv, lastEndpoint, peerEnd, nlErr, closed,
                 lPc, sPc, sEnd, nSends, nChanges, invalidated>>

\* A reply (seq 0xff): RTA_OIF differing from lastEndpoint's cached
\* ifindex clears lastEndpoint's source.  An NLMSG_ERROR matches no case
\* of the switch and is skipped.
ListenerReply ==
  /\ lPc = "recv" /\ ~closed
  /\ nlq # <<>> /\ Head(nlq).type \in {"reply", "error"}
  /\ nlq' = Tail(nlq)
  /\ ends' = IF /\ Head(nlq).type = "reply" /\ Tracked
                /\ ends[lastEndpoint].src # Head(nlq).oif
               THEN ClearSrc(lastEndpoint) ELSE ends
  /\ UNCHANGED <<route, local, nRecv, lastEndpoint, peerEnd, nlErr, closed,
                 lPc, sPc, sEnd, nSends, nChanges, invalidated>>

\* A route notification: write an RTM_GETROUTE for lastEndpoint's
\* destination with its cached source as RTA_SRC; the kernel answers it at
\* once with the interface it would use now, or with an error when that
\* source address is gone.
ListenerQuery ==
  LET src == ends[lastEndpoint].src IN
  /\ lPc = "recv" /\ ~closed
  /\ nlq # <<>> /\ Head(nlq).type = "change"
  /\ IF Tracked
       THEN Deliver(Tail(nlq), IF src \in local
                               THEN Reply(route[ends[lastEndpoint].peer])
                               ELSE NlError)
       ELSE nlq' = Tail(nlq) /\ UNCHANGED nlErr
  /\ UNCHANGED <<route, local, ends, nRecv, lastEndpoint, peerEnd, closed,
                 lPc, sPc, sEnd, nSends, nChanges, invalidated>>

-----------------------------------------------------------------------------
(* send4, from each peer's sequential sender                               *)

\* SendmsgN with the cached source as IP_PKTINFO: the kernel refuses a
\* Spec_dst that is no longer a local address with EINVAL.
Send4(p) ==
  /\ sPc[p] = "idle"
  /\ ~closed
  /\ nSends < MaxSends
  /\ nSends' = nSends + 1
  /\ LET src == SrcOf(peerEnd[p]) IN
       IF src # NoIf /\ src \notin local
         THEN /\ sPc' = [sPc EXCEPT ![p] = "retry"]
              /\ sEnd' = [sEnd EXCEPT ![p] = peerEnd[p]]
         ELSE UNCHANGED <<sPc, sEnd>>
  /\ UNCHANGED <<route, local, ends, nRecv, lastEndpoint, peerEnd, nlq,
                 nlErr, closed, lPc, nChanges, invalidated>>

\* On EINVAL: end.ClearSrc(), empty pktinfo, send again (which succeeds).
Send4Retry(p) ==
  /\ sPc[p] = "retry"
  /\ ends' = ClearSrc(sEnd[p])
  /\ sPc' = [sPc EXCEPT ![p] = "idle"]
  /\ sEnd' = [sEnd EXCEPT ![p] = NoEnd]
  /\ UNCHANGED <<route, local, nRecv, lastEndpoint, peerEnd, nlq, nlErr,
                 closed, lPc, nSends, nChanges, invalidated>>

\* Close: closeUnblock shuts down and closes sock6, sock4 and the netlink
\* socket.
Close ==
  /\ ~closed
  /\ closed' = TRUE
  /\ UNCHANGED <<route, local, ends, nRecv, lastEndpoint, peerEnd, nlq,
                 nlErr, lPc, sPc, sEnd, nSends, nChanges, invalidated>>

-----------------------------------------------------------------------------

\* After CreateBind: the listener runs; each peer has its configured
\* endpoint (CreateEndpoint clears the source), which never roamed.
Init ==
  /\ route \in [Peers -> Ifaces]
  /\ local = Ifaces
  /\ ends = [e \in EndIds |-> [peer |-> CHOOSE p \in Peers : TRUE,
                               src |-> NoIf]]
  /\ nRecv = 0
  /\ lastEndpoint = NoEnd
  /\ peerEnd = [p \in Peers |-> NoEnd]
  /\ nlq = <<>>
  /\ nlErr = FALSE
  /\ closed = FALSE
  /\ lPc = "recv"
  /\ sPc = [p \in Peers |-> "idle"]
  /\ sEnd = [p \in Peers |-> NoEnd]
  /\ nSends = 0
  /\ nChanges = 0
  /\ invalidated = {}

Listener == ListenerRecvError \/ ListenerReply \/ ListenerQuery

Next ==
  \/ Listener
  \/ \E p \in Peers : Send4(p) \/ Send4Retry(p)
  \/ \E p \in Peers, i \in Ifaces : ReceiveIPv4(p, i) \/ RouteChange(p, i)
  \/ \E i \in Ifaces : AddrRemove(i)
  \/ Close

Spec == Init /\ [][Next]_vars

\* The route listener is a goroutine blocked in Recvmsg: it runs whenever a
\* message or an error is waiting.  The senders' retries are part of a
\* call already under way.
FairSpec ==
  /\ Spec
  /\ WF_vars(ListenerRecvError) /\ WF_vars(ListenerReply)
  /\ WF_vars(ListenerQuery)
  /\ \A p \in Peers : WF_vars(Send4Retry(p))

-----------------------------------------------------------------------------

\* Spec section 5: the route listener invalidates cached sources when
\* routing changes.  An endpoint in use whose cached interface a route
\* change made wrong ends up with its source cleared, unless the route
\* moves back, the peer stops using it, or the bind is closed.  When the
\* cached address itself is removed the listener's query fails, and the
\* spec (section 9) leaves that case to send4's EINVAL retry: it is
\* excused too.
StaleSourceCleared ==
  \A e \in EndIds :
    e \in invalidated
      ~> \/ ends[e].src \in {NoIf, route[ends[e].peer]}
         \/ ends[e].src \notin local
         \/ peerEnd[ends[e].peer] # e
         \/ closed

=============================================================================
