-------------------------- MODULE UAPIListenerDarwin --------------------------
(***************************************************************************)
(* The Darwin UAPI listener (bundled in src/helper_test.go, lines          *)
(* 564-748).  Accept, the accept goroutine and the environment are the     *)
(* Linux ones, taken from UAPIListener; the socket-deletion watcher is     *)
(* different (lines 658-680):                                              *)
(*                                                                         *)
(*   for { if Lstat(socketPath) is NotExist { connErr <- err; return }     *)
(*         if kerr != nil || n != 1 { return }                             *)
(*         n, kerr = unix.Kevent(kqueueFd, {event}, events, nil) }         *)
(*                                                                         *)
(* The event watches the socket DIRECTORY for NOTE_WRITE with EV_ONESHOT,  *)
(* and is registered by each Kevent call itself: a directory write that    *)
(* happens while no Kevent call has the event registered is not reported. *)
(* UAPIListener's inotifyOpen and inotifyEvent here stand for kqueueFd     *)
(* (with keventFd) being open and for a triggered kevent waiting to be     *)
(* returned.                                                               *)
(***************************************************************************)
EXTENDS UAPIListener

VARIABLES
  armed,    \* the EVFILT_VNODE event is registered on kqueueFd
  kerr      \* the watcher's kerr: the last Kevent call failed

dVars == <<armed, kerr>>
allVars == <<vars, dVars>>

baseRest == <<listenerOpen, backlog, connNew, connErr, aPc, aConn, cPc,
              accepted, returned>>

-----------------------------------------------------------------------------
(* The watcher goroutine                                                   *)

\* Lstat first; then the error check of the previous Kevent call.
DarwinLstat ==
  /\ wPc = "lstat"
  /\ wPc' = CASE ~socketExists -> "sendErr"
              [] kerr          -> "exit"
              [] OTHER         -> "kevent"
  /\ UNCHANGED <<envVars, baseRest, dVars>>

\* unix.Kevent registers the event (EV_ADD | EV_ENABLE | EV_ONESHOT) and
\* waits; on a closed kqueueFd it fails at once with EBADF.
DarwinKevent ==
  /\ wPc = "kevent"
  /\ IF inotifyOpen
       THEN /\ armed' = TRUE /\ wPc' = "wait" /\ UNCHANGED kerr
       ELSE /\ kerr' = TRUE /\ wPc' = "lstat" /\ UNCHANGED armed
  /\ UNCHANGED <<envVars, baseRest>>

\* Kevent returns the triggered event (n = 1), or fails (EBADF) once Close
\* has closed kqueueFd under it.
DarwinKeventReturn ==
  /\ wPc = "wait"
  /\ inotifyEvent \/ ~inotifyOpen
  /\ kerr' = ~inotifyOpen
  /\ inotifyEvent' = FALSE
  /\ armed' = FALSE
  /\ wPc' = "lstat"
  /\ UNCHANGED <<socketExists, inotifyOpen, baseRest>>

\* The error send and return are the Linux watcher's (lines 670-672).
DarwinSendErr == WatcherSendErr /\ UNCHANGED dVars

-----------------------------------------------------------------------------
(* Close and the environment                                               *)

\* Close closes kqueueFd, keventFd and the listener; closing the kqueue
\* drops its registered events.
DarwinClose == Close /\ armed' = FALSE /\ UNCHANGED kerr

\* A write to the socket directory (the socket unlinked, or another entry
\* created or removed) triggers the one-shot event if it is registered.
DirectoryWrite(unlink) ==
  /\ socketExists
  /\ socketExists' = ~unlink
  /\ inotifyEvent' = (inotifyEvent \/ armed)
  /\ armed' = FALSE
  /\ UNCHANGED <<inotifyOpen, baseRest, wPc, kerr>>

-----------------------------------------------------------------------------

DarwinInit == Init /\ armed = FALSE /\ kerr = FALSE

DarwinWatcher ==
  DarwinLstat \/ DarwinKevent \/ DarwinKeventReturn \/ DarwinSendErr

DarwinNext ==
  \/ DarwinWatcher
  \/ (Acceptor \/ Caller \/ AcceptorFail \/ \E c \in Conns : Connect(c))
       /\ UNCHANGED dVars
  \/ DarwinClose
  \/ \E unlink \in BOOLEAN : DirectoryWrite(unlink)

\* The goroutines are scheduled as on Linux (UAPIListener's FairSpec).
DarwinFairSpec ==
  /\ DarwinInit /\ [][DarwinNext]_allVars
  /\ WF_allVars(DarwinLstat) /\ WF_allVars(DarwinKevent)
  /\ WF_allVars(DarwinKeventReturn) /\ WF_allVars(DarwinSendErr)
  /\ WF_allVars(Acceptor /\ UNCHANGED dVars)
  /\ WF_allVars(Caller /\ UNCHANGED dVars)

=============================================================================
