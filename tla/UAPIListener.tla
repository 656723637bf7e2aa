----------------------------- MODULE UAPIListener -----------------------------
(***************************************************************************)
(* The Linux UAPI listener (src/uapi_linux.go) after UAPIListen has        *)
(* returned: the socket-deletion watcher goroutine (lines 97-107), the     *)
(* accept goroutine (lines 111-120), Accept (lines 33-43) as the daemon's  *)
(* UAPI loop calls it, and Close (lines 45-52).                            *)
(*                                                                         *)
(* The caller of Accept is the daemon's loop, which is not in the          *)
(* repository: it calls Accept again after every connection and stops at   *)
(* the first error.  The environment connects clients, changes or deletes  *)
(* the socket file, and calls Close (on a signal or after the loop ends).  *)
(***************************************************************************)
EXTENDS Integers, Sequences, FiniteSets

LOCAL SeqExt == INSTANCE SequencesExt

CONSTANTS
  Conns,      \* client connections that may arrive (model values)
  NoConn

ASSUME NoConn \notin Conns

\* make(chan net.Conn, 1) and make(chan error, 1)
ChanCap == 1

\* The two errors that reach connErr: os.Lstat's IsNotExist error from the
\* watcher, and the error of l.listener.Accept.
Errors == {"ENOENT", "EACCEPT"}

VARIABLES
  socketExists,   \* a file is at socketPath
  inotifyOpen,    \* uapi.inotifyFd is open
  inotifyEvent,   \* an IN_ATTRIB/IN_DELETE event is queued on inotifyFd
  listenerOpen,   \* uapi.listener is open
  backlog,        \* clients connected but not yet accepted
  connNew,        \* l.connNew
  connErr,        \* l.connErr
  wPc,            \* the watcher goroutine's position
  aPc,            \* the accept goroutine's position
  aConn,          \* the connection the accept goroutine holds
  cPc,            \* the Accept caller: "accept" while it loops, then "stopped"
  accepted,       \* history: connections l.listener.Accept returned
  returned        \* history: connections Accept returned, in order

vars == <<socketExists, inotifyOpen, inotifyEvent, listenerOpen, backlog,
          connNew, connErr, wPc, aPc, aConn, cPc, accepted, returned>>

envVars == <<socketExists, inotifyOpen, inotifyEvent, listenerOpen>>

CanSend(ch) == Len(ch) < ChanCap

-----------------------------------------------------------------------------
(* The watcher: for { if Lstat(socketPath) is NotExist { connErr <- err;   *)
(* return }; unix.Read(inotifyFd, buff) }                                  *)

WatcherLstat ==
  /\ wPc = "lstat"
  /\ wPc' = IF socketExists THEN "read" ELSE "sendErr"
  /\ UNCHANGED <<envVars, backlog, connNew, connErr, aPc, aConn, cPc,
                 accepted, returned>>

\* Fault: the watcher gives up after the first inotify event.
WatcherReadOnce ==
  /\ wPc = "read"
  /\ inotifyEvent \/ ~inotifyOpen
  /\ inotifyEvent' = FALSE
  /\ wPc' = "exit"
  /\ UNCHANGED <<socketExists, inotifyOpen, listenerOpen, backlog, connNew,
                 connErr, aPc, aConn, cPc, accepted, returned>>

\* unix.Read blocks until an event is queued; on a closed descriptor it
\* fails at once (EBADF), and the error is ignored.
WatcherRead ==
  /\ wPc = "read"
  /\ inotifyEvent \/ ~inotifyOpen
  /\ inotifyEvent' = FALSE
  /\ wPc' = "lstat"
  /\ UNCHANGED <<socketExists, inotifyOpen, listenerOpen, backlog, connNew,
                 connErr, aPc, aConn, cPc, accepted, returned>>

WatcherSendErr ==
  /\ wPc = "sendErr"
  /\ CanSend(connErr)
  /\ connErr' = Append(connErr, "ENOENT")
  /\ wPc' = "exit"
  /\ UNCHANGED <<envVars, backlog, connNew, aPc, aConn, cPc, accepted,
                 returned>>

-----------------------------------------------------------------------------
(* The accept goroutine: for { conn, err := l.listener.Accept(); if err != *)
(* nil { connErr <- err; break }; connNew <- conn }                        *)

\* l.listener.Accept returns a waiting client, or fails once the listener
\* is closed.
AcceptorAccept ==
  /\ aPc = "accept"
  /\ \/ /\ ~listenerOpen
        /\ aPc' = "sendErr"
        /\ UNCHANGED <<backlog, aConn, accepted>>
     \/ \E c \in backlog :
          /\ listenerOpen
          /\ backlog' = backlog \ {c}
          /\ aConn' = c
          /\ accepted' = accepted \cup {c}
          /\ aPc' = "sendNew"
  /\ UNCHANGED <<envVars, connNew, connErr, wPc, cPc, returned>>

\* l.listener.Accept fails on an open listener (EMFILE, ENFILE, ...).
AcceptorFail ==
  /\ aPc = "accept"
  /\ listenerOpen
  /\ aPc' = "sendErr"
  /\ UNCHANGED <<envVars, backlog, connNew, connErr, wPc, aConn, cPc,
                 accepted, returned>>

\* Fault: a non-blocking send (select with default) that drops the
\* connection when the channel is full.
AcceptorSendNewDrop ==
  /\ aPc = "sendNew"
  /\ connNew' = IF CanSend(connNew) THEN Append(connNew, aConn) ELSE connNew
  /\ aConn' = NoConn
  /\ aPc' = "accept"
  /\ UNCHANGED <<envVars, backlog, connErr, wPc, cPc, accepted, returned>>

AcceptorSendNew ==
  /\ aPc = "sendNew"
  /\ CanSend(connNew)
  /\ connNew' = Append(connNew, aConn)
  /\ aConn' = NoConn
  /\ aPc' = "accept"
  /\ UNCHANGED <<envVars, backlog, connErr, wPc, cPc, accepted, returned>>

\* Fault: no break after the error; the goroutine accepts again.
AcceptorSendErrNoBreak ==
  /\ aPc = "sendErr"
  /\ CanSend(connErr)
  /\ connErr' = Append(connErr, "EACCEPT")
  /\ aPc' = "accept"
  /\ UNCHANGED <<envVars, backlog, connNew, wPc, aConn, cPc, accepted,
                 returned>>

AcceptorSendErr ==
  /\ aPc = "sendErr"
  /\ CanSend(connErr)
  /\ connErr' = Append(connErr, "EACCEPT")
  /\ aPc' = "exit"
  /\ UNCHANGED <<envVars, backlog, connNew, wPc, aConn, cPc, accepted,
                 returned>>

-----------------------------------------------------------------------------
(* Accept: select on connNew and connErr; Go picks either ready case.      *)

AcceptConn ==
  /\ cPc = "accept"
  /\ connNew # <<>>
  /\ returned' = Append(returned, Head(connNew))
  /\ connNew' = Tail(connNew)
  /\ UNCHANGED <<envVars, backlog, connErr, wPc, aPc, aConn, cPc, accepted>>

\* The caller's loop ends at the first error.
AcceptErr ==
  /\ cPc = "accept"
  /\ connErr # <<>>
  /\ connErr' = Tail(connErr)
  /\ cPc' = "stopped"
  /\ UNCHANGED <<envVars, backlog, connNew, wPc, aPc, aConn, accepted,
                 returned>>

\* Close: unix.Close(inotifyFd), then l.listener.Close().  Clients still
\* in the listen backlog are reset.
Close ==
  /\ listenerOpen
  /\ inotifyOpen' = FALSE
  /\ inotifyEvent' = FALSE
  /\ listenerOpen' = FALSE
  /\ backlog' = {}
  /\ UNCHANGED <<socketExists, connNew, connErr, wPc, aPc, aConn, cPc,
                 accepted, returned>>

-----------------------------------------------------------------------------
(* The environment.                                                        *)

Connect(c) ==
  /\ listenerOpen
  /\ c \notin backlog \cup accepted
  /\ backlog' = backlog \cup {c}
  /\ UNCHANGED <<envVars, connNew, connErr, wPc, aPc, aConn, cPc, accepted,
                 returned>>

\* The socket file is unlinked; the watch reports it while inotifyFd is open.
DeleteSocket ==
  /\ socketExists
  /\ socketExists' = FALSE
  /\ inotifyEvent' = inotifyOpen
  /\ UNCHANGED <<inotifyOpen, listenerOpen, backlog, connNew, connErr, wPc,
                 aPc, aConn, cPc, accepted, returned>>

\* The socket file's attributes change (chmod, chown): IN_ATTRIB.
TouchSocket ==
  /\ socketExists /\ inotifyOpen
  /\ inotifyEvent' = TRUE
  /\ UNCHANGED <<socketExists, inotifyOpen, listenerOpen, backlog, connNew,
                 connErr, wPc, aPc, aConn, cPc, accepted, returned>>

-----------------------------------------------------------------------------

\* The state UAPIListen returns in: listener wrapped, inotify watch added on
\* the existing socket file, both goroutines started.
Init ==
  /\ socketExists = TRUE
  /\ inotifyOpen = TRUE
  /\ inotifyEvent = FALSE
  /\ listenerOpen = TRUE
  /\ backlog = {}
  /\ connNew = <<>>
  /\ connErr = <<>>
  /\ wPc = "lstat"
  /\ aPc = "accept"
  /\ aConn = NoConn
  /\ cPc = "accept"
  /\ accepted = {}
  /\ returned = <<>>

Watcher == WatcherLstat \/ WatcherRead \/ WatcherSendErr
Acceptor == AcceptorAccept \/ AcceptorSendNew \/ AcceptorSendErr
Caller == AcceptConn \/ AcceptErr
Environment ==
  AcceptorFail \/ Close \/ DeleteSocket \/ TouchSocket
    \/ \E c \in Conns : Connect(c)

Next == Watcher \/ Acceptor \/ Caller \/ Environment

Spec == Init /\ [][Next]_vars

\* Every goroutine is scheduled while it can run.  Clients, file changes,
\* accept failures and Close are the environment's choice.
FairSpec ==
  /\ Spec
  /\ WF_vars(WatcherLstat) /\ WF_vars(WatcherRead) /\ WF_vars(WatcherSendErr)
  /\ WF_vars(AcceptorAccept) /\ WF_vars(AcceptorSendNew)
  /\ WF_vars(AcceptorSendErr)
  /\ WF_vars(AcceptConn) /\ WF_vars(AcceptErr)

-----------------------------------------------------------------------------

TypeOK ==
  /\ {socketExists, inotifyOpen, inotifyEvent, listenerOpen} \subseteq BOOLEAN
  /\ backlog \subseteq Conns
  /\ connNew \in Seq(Conns) /\ Len(connNew) <= ChanCap
  /\ connErr \in Seq(Errors) /\ Len(connErr) <= ChanCap
  /\ wPc \in {"lstat", "read", "sendErr", "exit"}
  /\ aPc \in {"accept", "sendNew", "sendErr", "exit"}
  /\ aConn \in Conns \cup {NoConn}
  /\ cPc \in {"accept", "stopped"}
  /\ accepted \subseteq Conns
  /\ returned \in Seq(Conns) /\ SeqExt!ToSet(returned) \subseteq accepted

\* Both goroutines send to connErr (capacity 1) and the Accept caller takes
\* one error only.  No goroutine may then be left at its connErr send with
\* the channel full: it would block forever.
ErrorSendsNeverStick ==
  (cPc = "stopped" /\ ~CanSend(connErr)) => "sendErr" \notin {wPc, aPc}

\* Deleting the socket file ends the daemon's UAPI loop: the watcher sees
\* the inotify event, Lstat fails, and the error reaches Accept even when
\* the accept goroutine's error got there first.
DeletionReported == ~socketExists ~> cPc = "stopped"

\* A connection the accept goroutine took from the listener is handed to
\* the caller of Accept, unless that caller has stopped.
ConnDelivered ==
  \A c \in Conns :
    c \in accepted ~> (c \in SeqExt!ToSet(returned) \/ cPc = "stopped")

\* After Close, the socket-deletion watcher goroutine ends: Close closes
\* the inotify descriptor it reads, and its loop must not outlive the
\* listener.
WatcherExitsAfterClose == ~listenerOpen ~> wPc = "exit"

=============================================================================
