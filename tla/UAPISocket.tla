------------------------------ MODULE UAPISocket ------------------------------
(***************************************************************************)
(* UAPIOpen (src/uapi_linux.go lines 125-176) followed by the part of      *)
(* UAPIListen that adds the inotify watch (lines 58-95), run by several    *)
(* daemon processes for the same interface name, against the one socket   *)
(* path /var/run/wireguard/<name>.sock.  The path may start out holding a  *)
(* stale socket file that no process listens on.                           *)
(*                                                                         *)
(* What is at the path is an inode: "stale", or the socket a process p     *)
(* created (named p).  A running process's watcher wakes when the inode it *)
(* watches is unlinked, and then looks at the path again (Lstat).          *)
(***************************************************************************)
EXTENDS Integers, FiniteSets

CONSTANTS Procs

NoFile == "none"
Stale == "stale"
Inodes == Procs \cup {Stale}

VARIABLES
  path,       \* the inode at socketPath, or NoFile
  live,       \* processes whose listening socket is open
  pc,         \* each process's position
  watched,    \* the inode each process's inotify watch is on
  event,      \* an unlink event is queued on the process's inotifyFd
  sysFailed   \* history: a process stopped on a failing system call

vars == <<path, live, pc, watched, event, sysFailed>>

Positions == {"mkdir", "listen1", "dial", "remove", "listen2", "watch",
              "running", "failed", "stopped"}

-----------------------------------------------------------------------------

\* os.Remove(socketPath): the inode's watchers get an event.
Unlinked(ino) == [q \in Procs |-> event[q] \/ watched[q] = ino]

\* The process ends (UAPIOpen or UAPIListen returned an error, or the
\* watcher reported the deletion): exiting closes its descriptors.
Exit(p, where) ==
  /\ pc' = [pc EXCEPT ![p] = where]
  /\ live' = live \ {p}

\* os.MkdirAll(socketDirectory) fails, or one of the descriptor-allocating
\* calls (net.ResolveUnixAddr, listener.File, net.FileListener,
\* unix.InotifyInit) does.
SysFail(p) ==
  /\ pc[p] \in {"mkdir", "watch"}
  /\ Exit(p, "failed")
  /\ sysFailed' = TRUE
  /\ UNCHANGED <<path, watched, event>>

MkdirAll(p) ==
  /\ pc[p] = "mkdir"
  /\ pc' = [pc EXCEPT ![p] = "listen1"]
  /\ UNCHANGED <<path, live, watched, event, sysFailed>>

\* net.ListenUnix binds a new socket file, or fails with EADDRINUSE when
\* anything is at the path.
Bind(p, next) ==
  IF path = NoFile
    THEN /\ path' = p
         /\ live' = live \cup {p}
         /\ pc' = [pc EXCEPT ![p] = "watch"]
    ELSE /\ pc' = [pc EXCEPT ![p] = next]
         /\ UNCHANGED <<path, live>>

\* The initial connection attempt.
ListenFirst(p) ==
  /\ pc[p] = "listen1"
  /\ Bind(p, "dial")
  /\ UNCHANGED <<watched, event, sysFailed>>

\* net.Dial succeeds only if a process listens on the socket at the path:
\* "unix socket in use".
Dial(p) ==
  /\ pc[p] = "dial"
  /\ IF path \in live THEN Exit(p, "failed")
                      ELSE pc' = [pc EXCEPT ![p] = "remove"] /\ UNCHANGED live
  /\ UNCHANGED <<path, watched, event, sysFailed>>

\* Fault: the stale file is removed but the listen is not retried.
RemoveNoRetry(p) ==
  /\ pc[p] = "remove"
  /\ IF path = NoFile
       THEN UNCHANGED event
       ELSE event' = Unlinked(path)
  /\ path' = NoFile
  /\ Exit(p, "failed")
  /\ UNCHANGED <<watched, sysFailed>>

\* os.Remove fails (ENOENT) when nothing is at the path; otherwise it
\* unlinks whatever is there.
Remove(p) ==
  /\ pc[p] = "remove"
  /\ IF path = NoFile
       THEN Exit(p, "failed") /\ UNCHANGED <<path, event>>
       ELSE /\ event' = Unlinked(path)
            /\ path' = NoFile
            /\ pc' = [pc EXCEPT ![p] = "listen2"]
            /\ UNCHANGED live
  /\ UNCHANGED <<watched, sysFailed>>

\* The second net.ListenUnix; its error is returned.
ListenAgain(p) ==
  /\ pc[p] = "listen2"
  /\ Bind(p, "failed")
  /\ UNCHANGED <<watched, event, sysFailed>>

\* unix.InotifyAddWatch(socketPath) watches the inode now at the path; it
\* fails (and UAPIListen returns) when nothing is there.
AddWatch(p) ==
  /\ pc[p] = "watch"
  /\ IF path = NoFile
       THEN Exit(p, "failed") /\ UNCHANGED watched
       ELSE /\ watched' = [watched EXCEPT ![p] = path]
            /\ pc' = [pc EXCEPT ![p] = "running"]
            /\ UNCHANGED live
  /\ UNCHANGED <<path, event, sysFailed>>

\* The watcher goroutine wakes on the event and calls Lstat(socketPath):
\* it reports the deletion only if nothing is at the path.
WatcherWake(p) ==
  /\ pc[p] = "running"
  /\ event[p]
  /\ event' = [event EXCEPT ![p] = FALSE]
  /\ IF path = NoFile THEN Exit(p, "stopped")
                      ELSE UNCHANGED <<pc, live>>
  /\ UNCHANGED <<path, watched, sysFailed>>

-----------------------------------------------------------------------------

Init ==
  /\ path \in {NoFile, Stale}
  /\ live = {}
  /\ pc = [p \in Procs |-> "mkdir"]
  /\ watched = [p \in Procs |-> NoFile]
  /\ event = [p \in Procs |-> FALSE]
  /\ sysFailed = FALSE

Step(p) ==
  \/ MkdirAll(p) \/ ListenFirst(p) \/ Dial(p) \/ Remove(p)
  \/ ListenAgain(p) \/ AddWatch(p) \/ WatcherWake(p)

\* Every process has ended or serves with nothing left to do.
Settled ==
  /\ \A p \in Procs : pc[p] \in {"running", "failed", "stopped"} /\ ~event[p]
  /\ UNCHANGED vars

Next == (\E p \in Procs : Step(p) \/ SysFail(p)) \/ Settled

Spec == Init /\ [][Next]_vars

FairSpec == Spec /\ \A p \in Procs : WF_vars(Step(p))

-----------------------------------------------------------------------------

Reachable(p) == pc[p] = "running" /\ path = p

\* Unless a system call fails, starting one or more daemons at once, over a
\* stale socket file or none, ends with one of them serving UAPI on the
\* socket at the path.
SomeInstanceServes == <>[](sysFailed \/ \E p \in Procs : Reachable(p))

=============================================================================
