------------------------------- MODULE Squash -------------------------------
(***************************************************************************)
(* SquashFS images (bin/ch_fuse.c): ch-run mounts the image with           *)
(* SquashFUSE and forks.  The child becomes the user command; the parent   *)
(* serves its file system until the child ends, then ends the same way.    *)
(***************************************************************************)
EXTENDS Integers

CONSTANTS MountTries,   \* retries of sqfs_ll_mount (5 in the code)
          ExitCode,     \* exit codes of user commands
          Signal,       \* signals that may kill the child
          EXIT_SQUASH   \* exit code when the loop ends without SIGCHLD

ASSUME MountTriesAssumption == MountTries \in Nat
ASSUME ExitCodeAssumption   == ExitCode \subseteq 0 .. 255 /\ 1 \in ExitCode
ASSUME SignalAssumption     == Signal \subseteq 1 .. 64
ASSUME SquashAssumption     == EXIT_SQUASH \in 0 .. 255

VARIABLES
    parent,            \* where the parent is
    tries,             \* mount retries left
    mounted,           \* is the file system mounted
    child,             \* what the child is doing
    status,            \* how it ended: [how, n]
    loop_terminating,  \* first exit request seen
    sigchld_received,  \* and it was SIGCHLD
    asked,             \* SIGTERM was sent or the image unmounted from outside
    code               \* exit code of the parent

vars == <<parent, tries, mounted, child, status, loop_terminating,
          sigchld_received, asked, code>>

Installing == {"install_chld", "install_ignore", "install_term"}
Alive      == {"setup", "enter", "running", "stopped"}

\* What WIFEXITED and WEXITSTATUS, WIFSIGNALED and WTERMSIG tell of it.
Status     == [how : {"exited"}, n : 0 .. 255] \cup [how : {"signaled"}, n : 1 .. 64]

TypeOK ==
    /\ parent \in Installing \cup {"mount", "fork", "loop", "reap", "unmount",
                                   "exited", "failed", "killed"}
    /\ tries \in 0 .. MountTries
    /\ child \in Alive \cup {"none", "zombie", "reaped"}
    /\ status \in Status
    /\ mounted \in BOOLEAN /\ asked \in BOOLEAN
    /\ loop_terminating \in BOOLEAN /\ sigchld_received \in BOOLEAN
    /\ code \in 0 .. 255

Init ==
    /\ parent = "mount"
    /\ tries = MountTries
    /\ mounted = FALSE
    /\ child = "none"
    /\ status = [how |-> "exited", n |-> 0]
    /\ loop_terminating = FALSE
    /\ sigchld_received = FALSE
    /\ asked = FALSE
    /\ code = 0

-----------------------------------------------------------------------------
(* The parent *)

\* Mutant: one retry too many.
MountOnceMore ==
    /\ parent = "mount"
    /\ \/ mounted' = TRUE /\ parent' = "fork" /\ UNCHANGED tries
       \/ tries >= 0 /\ tries' = tries - 1 /\ UNCHANGED <<mounted, parent>>
    /\ UNCHANGED <<child, status, loop_terminating, sigchld_received, asked, code>>

\* sq_mount, with its retry loop.
Mount ==
    /\ parent = "mount"
    /\ \/ mounted' = TRUE /\ parent' = "fork" /\ UNCHANGED tries
       \/ tries > 0 /\ tries' = tries - 1 /\ UNCHANGED <<mounted, parent>>
       \/ tries = 0 /\ parent' = "failed" /\ UNCHANGED <<mounted, tries>>
    /\ UNCHANGED <<child, status, loop_terminating, sigchld_received, asked, code>>

Fork ==
    /\ parent = "fork"
    /\ child' = "setup"
    /\ parent' = "install_chld"
    /\ UNCHANGED <<tries, mounted, status, loop_terminating, sigchld_received, asked, code>>

\* The sigaction calls of sq_loop, in order: SIGCHLD; SIGHUP, SIGINT and
\* SIGPIPE (ignored); SIGTERM.
Install ==
    /\ parent \in Installing
    /\ parent' = IF parent = "install_chld" THEN "install_ignore"
                 ELSE IF parent = "install_ignore" THEN "install_term" ELSE "loop"
    /\ UNCHANGED <<tries, mounted, child, status, loop_terminating,
                   sigchld_received, asked, code>>

Over        == {"exited", "failed", "killed"}
HandlesChld == parent \notin {"mount", "fork", "install_chld"} \cup Over
HandlesTerm == parent \notin {"mount", "fork"} \cup Installing \cup Over

\* sq_done_request: only the first signal counts.
DoneRequest(chld) ==
    /\ loop_terminating' = TRUE
    /\ sigchld_received' = IF loop_terminating THEN sigchld_received ELSE chld

\* Mutant: the loop is ended for SIGTERM only.
LoopEndOnTerm ==
    /\ parent = "loop"
    /\ loop_terminating
    /\ ~sigchld_received
    /\ parent' = "unmount"
    /\ code' = EXIT_SQUASH
    /\ UNCHANGED <<tries, mounted, child, status, loop_terminating,
                   sigchld_received, asked>>

\* Mutant: always wait for the child.
LoopEndWaits ==
    /\ parent = "loop"
    /\ loop_terminating
    /\ parent' = "reap"
    /\ UNCHANGED <<tries, mounted, child, status, loop_terminating,
                   sigchld_received, asked, code>>

\* fuse_session_loop returns once it has been asked to.
LoopEnd ==
    /\ parent = "loop"
    /\ loop_terminating
    /\ parent' = IF sigchld_received THEN "reap" ELSE "unmount"
    /\ code' = IF sigchld_received THEN code ELSE EXIT_SQUASH
    /\ UNCHANGED <<tries, mounted, child, status, loop_terminating,
                   sigchld_received, asked>>

\* Mutant: the number of a fatal signal is returned as it is.
CodeOfPlain(s) == s.n

\* The exit code ch-run passes on, as shells do.
CodeOf(s) == IF s.how = "exited" THEN s.n ELSE 128 + s.n

\* wait, which returns when there is a zombie.
Reap ==
    /\ parent = "reap"
    /\ child = "zombie"
    /\ child' = "reaped"
    /\ code' = CodeOf(status)
    /\ parent' = "unmount"
    /\ UNCHANGED <<tries, mounted, status, loop_terminating, sigchld_received, asked>>

\* sqfs_ll_destroy, sqfs_ll_unmount, exit.
Unmount ==
    /\ parent = "unmount"
    /\ mounted' = FALSE
    /\ parent' = "exited"
    /\ UNCHANGED <<tries, child, status, loop_terminating, sigchld_received, asked, code>>

-----------------------------------------------------------------------------
(* The child *)

\* SIGCHLD, which is lost while its default action is in place.
SigChld ==
    IF HandlesChld THEN DoneRequest(TRUE)
    ELSE UNCHANGED <<loop_terminating, sigchld_received>>

Ends(s) ==
    /\ child' = "zombie"
    /\ status' = s
    /\ SigChld
    /\ UNCHANGED <<parent, tries, mounted, asked, code>>

\* The second setup_namespaces, which does not touch the mount.
ChildSetup ==
    /\ child = "setup"
    /\ child' = "enter"
    /\ UNCHANGED <<parent, tries, mounted, status, loop_terminating,
                   sigchld_received, asked, code>>

\* Setting up fails: ch-run exits with an error.
ChildFails ==
    /\ child = "setup"
    /\ Ends([how |-> "exited", n |-> 1])

\* enter_udss and everything after it need the FUSE loop to answer.
ChildEnters ==
    /\ child = "enter"
    /\ parent = "loop"
    /\ child' = "running"
    /\ UNCHANGED <<parent, tries, mounted, status, loop_terminating,
                   sigchld_received, asked, code>>

\* The user command exits.
ChildExits ==
    /\ child = "running"
    /\ \E n \in ExitCode : Ends([how |-> "exited", n |-> n])

\* The child is killed.
ChildKilled ==
    /\ child \in Alive
    /\ \E n \in Signal : Ends([how |-> "signaled", n |-> n])

\* Mutant: no SA_NOCLDSTOP, so a stopped child sends SIGCHLD too.
StopOrContinueSignals ==
    /\ \/ child = "running" /\ child' = "stopped"
       \/ child = "stopped" /\ child' = "running"
    /\ SigChld
    /\ UNCHANGED <<parent, tries, mounted, status, asked, code>>

\* Control-Z and fg: with SA_NOCLDSTOP, no SIGCHLD.
StopOrContinue ==
    /\ \/ child = "running" /\ child' = "stopped"
       \/ child = "stopped" /\ child' = "running"
    /\ UNCHANGED <<parent, tries, mounted, status, loop_terminating,
                   sigchld_received, asked, code>>

-----------------------------------------------------------------------------
(* The outside world *)

\* SIGTERM to the parent.
SigTerm ==
    /\ parent \notin Over
    /\ asked' = TRUE
    /\ IF HandlesTerm THEN DoneRequest(FALSE) /\ UNCHANGED parent
       ELSE /\ parent' = "killed"
            /\ UNCHANGED <<loop_terminating, sigchld_received>>
    /\ UNCHANGED <<tries, mounted, child, status, code>>

\* fusermount -u: the loop returns by itself.
UnmountedOutside ==
    /\ parent = "loop"
    /\ asked' = TRUE
    /\ parent' = IF sigchld_received THEN "reap" ELSE "unmount"
    /\ code' = IF sigchld_received THEN code ELSE EXIT_SQUASH
    /\ UNCHANGED <<tries, mounted, child, status, loop_terminating, sigchld_received>>

ParentStep == Mount \/ Fork \/ Install \/ LoopEnd \/ Reap \/ Unmount
ChildStep  == ChildSetup \/ ChildEnters

Next ==
    \/ ParentStep \/ ChildStep
    \/ ChildFails \/ ChildExits \/ ChildKilled \/ StopOrContinue
    \/ SigTerm \/ UnmountedOutside

\* Both processes are scheduled; nothing else is bound to happen.
Spec == Init /\ [][Next]_vars /\ WF_vars(ParentStep) /\ WF_vars(ChildStep)

-----------------------------------------------------------------------------
(* Properties *)

\* The file system of a living user command is served until somebody asks
\* ch-run to end (stopping and continuing the command do not count).
ServedWhileAlive ==
    child \in {"running", "stopped"} /\ ~asked => parent = "loop" /\ mounted

\* ch-run ends with the exit code of the user command, or 128 plus the signal
\* that killed it; with EXIT_SQUASH only if it was asked to end.
SameExitCode ==
    parent = "exited" =>
        \/ child = "reaped" /\ status.how = "exited" /\ code = status.n
        \/ child = "reaped" /\ status.how = "signaled" /\ code = 128 + status.n
        \/ child # "reaped" /\ asked /\ code = EXIT_SQUASH

\* wait is called only when there is something to wait for, so the parent is
\* never stuck in it with the file system unserved.
WaitNeverBlocks == parent = "reap" => child = "zombie"

\* Once an exit request has been seen and the child has ended, the parent
\* ends: it neither waits for ever nor goes on serving.
RequestEndsParent ==
    child = "zombie" /\ loop_terminating ~> parent \in Over

\* When the child has ended, the parent ends ("the parent runs the FUSE loop
\* until the child exits and then exits itself", sq_fork).
ParentFollowsChild ==
    child = "zombie" ~> parent \in Over
=============================================================================
