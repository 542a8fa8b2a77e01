---------------------------- MODULE SquashProofs ----------------------------
(***************************************************************************)
(* Proofs about Squash for any number of mount retries, any exit codes an  *)
(* operating system can report (0 to 255) and any signals (1 to 64).       *)
(***************************************************************************)
EXTENDS Squash, TLAPS

\* The child exists from fork on, and is a zombie until the parent waits.
ChildOfParent ==
    /\ parent \in {"mount", "fork", "failed"} => child = "none"
    /\ parent \in Installing \cup {"loop"} => child \in Alive \cup {"zombie"}
    /\ child \in {"running", "stopped"} => parent \notin Installing

\* The mount is there from sq_mount to the end of sq_loop.
MountOfParent ==
    parent \in Installing \cup {"fork", "loop", "reap", "unmount"} => mounted

\* SIGCHLD is recorded only for a child that has ended, and the loop is told
\* to end only by SIGCHLD or from outside.
RequestHasCause ==
    /\ sigchld_received => loop_terminating /\ child \in {"zombie", "reaped"}
    /\ loop_terminating /\ ~sigchld_received => asked
    /\ loop_terminating => parent \notin {"mount", "fork", "install_chld"}

\* How the parent got past the loop.
PastLoop ==
    /\ parent = "reap" => sigchld_received /\ child = "zombie"
    /\ parent \in {"unmount", "exited"} =>
          \/ child = "reaped" /\ code = CodeOf(status)
          \/ child # "reaped" /\ asked /\ code = EXIT_SQUASH
    /\ child = "reaped" => parent \in {"unmount", "exited", "killed"}

SInv ==
    /\ TypeOK /\ ChildOfParent /\ MountOfParent /\ RequestHasCause /\ PastLoop
    /\ ServedWhileAlive

\* What sq_loop makes of a wait status is an exit code.
LEMMA CodeOfStatus == \A s \in Status : CodeOf(s) \in 0 .. 255
  BY DEF Status, CodeOf

\* The ways a child ends are wait statuses.
LEMMA StatusOfChild ==
    /\ \A n \in 0 .. 255 : [how |-> "exited", n |-> n] \in Status
    /\ \A n \in Signal : [how |-> "signaled", n |-> n] \in Status
  BY SignalAssumption DEF Status

LEMMA InitSInv == Init => SInv
  <1> SUFFICES ASSUME Init PROVE SInv
    OBVIOUS
  <1>1. TypeOK
    <2>1. tries \in 0 .. MountTries
      BY MountTriesAssumption DEF Init
    <2>2. status \in Status
      BY DEF Init, Status
    <2>3. code \in 0 .. 255
      BY DEF Init
    <2> QED
      BY <2>1, <2>2, <2>3 DEF Init, TypeOK
  <1>2. ChildOfParent /\ MountOfParent /\ RequestHasCause /\ PastLoop /\ ServedWhileAlive
    BY DEF Init, ChildOfParent, MountOfParent, RequestHasCause, PastLoop,
           ServedWhileAlive, Installing
  <1> QED
    BY <1>1, <1>2 DEF SInv

LEMMA StepSInv == SInv /\ [Next]_vars => SInv'
  <1> SUFFICES ASSUME SInv, [Next]_vars PROVE SInv'
    OBVIOUS
  <1> USE MountTriesAssumption, ExitCodeAssumption, SignalAssumption, SquashAssumption
      DEF SInv, TypeOK, ChildOfParent, MountOfParent, RequestHasCause, PastLoop,
          ServedWhileAlive, Installing, Alive
  <1>1. CASE Mount
    <2>1. CASE mounted' = TRUE /\ parent' = "fork" /\ UNCHANGED tries
      BY <1>1, <2>1 DEF Mount
    <2>2. CASE tries > 0 /\ tries' = tries - 1 /\ UNCHANGED <<mounted, parent>>
      BY <1>1, <2>2 DEF Mount
    <2>3. CASE tries = 0 /\ parent' = "failed" /\ UNCHANGED <<mounted, tries>>
      BY <1>1, <2>3 DEF Mount
    <2> QED
      BY <1>1, <2>1, <2>2, <2>3 DEF Mount
  <1>2. CASE Fork
    BY <1>2 DEF Fork
  <1>3. CASE Install
    BY <1>3 DEF Install
  <1>4. CASE LoopEnd
    BY <1>4 DEF LoopEnd
  <1>5. CASE Reap
    BY <1>5, CodeOfStatus DEF Reap
  <1>6. CASE Unmount
    BY <1>6 DEF Unmount
  <1>7. CASE ChildSetup
    BY <1>7 DEF ChildSetup
  <1>8. CASE ChildEnters
    BY <1>8 DEF ChildEnters
  <1>9. ASSUME NEW s \in Status, child \in Alive, Ends(s) PROVE SInv'
    BY <1>9 DEF Ends, SigChld, DoneRequest, HandlesChld, Over
  <1>10. CASE ChildFails
    BY <1>9, <1>10, StatusOfChild DEF ChildFails
  <1>11. CASE ChildExits
    <2>1. PICK n \in ExitCode : Ends([how |-> "exited", n |-> n])
      BY <1>11 DEF ChildExits
    <2> QED
      BY <1>9, <1>11, <2>1, StatusOfChild DEF ChildExits
  <1>12. CASE ChildKilled
    <2>1. PICK n \in Signal : Ends([how |-> "signaled", n |-> n])
      BY <1>12 DEF ChildKilled
    <2> QED
      BY <1>9, <1>12, <2>1, StatusOfChild DEF ChildKilled
  <1>13. CASE StopOrContinue
    BY <1>13 DEF StopOrContinue
  <1>14. CASE SigTerm
    <2>1. CASE HandlesTerm
      <3>1. UNCHANGED <<parent, tries, mounted, child, status, code>> /\ asked' = TRUE
        BY <1>14, <2>1 DEF SigTerm
      <3>2. /\ loop_terminating' = TRUE
            /\ sigchld_received' = IF loop_terminating THEN sigchld_received ELSE FALSE
        BY <1>14, <2>1 DEF SigTerm, DoneRequest
      <3> QED
        BY <2>1, <3>1, <3>2 DEF HandlesTerm, Over
    <2>2. CASE ~HandlesTerm
      BY <1>14, <2>2 DEF SigTerm, HandlesTerm, Over
    <2> QED
      BY <2>1, <2>2
  <1>15. CASE UnmountedOutside
    BY <1>15 DEF UnmountedOutside
  <1>16. CASE UNCHANGED vars
    BY <1>16 DEF vars
  <1> QED
    BY <1>1, <1>2, <1>3, <1>4, <1>5, <1>6, <1>7, <1>8, <1>10, <1>11, <1>12, <1>13,
       <1>14, <1>15, <1>16
    DEF Next, ParentStep, ChildStep

\* The flags, exit code and states of sq_fork, sq_loop and sq_done_request
\* keep their types.
THEOREM TypeCorrect == Spec => []TypeOK
  <1>1. SInv => TypeOK
    BY DEF SInv
  <1> QED
    BY <1>1, InitSInv, StepSInv, PTL DEF Spec

\* sq_loop serves the image for as long as the user command lives and nobody
\* outside ends it.
THEOREM Served == Spec => []ServedWhileAlive
  <1>1. SInv => ServedWhileAlive
    BY DEF SInv
  <1> QED
    BY <1>1, InitSInv, StepSInv, PTL DEF Spec

\* ch-run ends the way the user command did, whatever signals arrived in
\* whatever order (the exit code that sq_loop returns).
THEOREM SameEnd == Spec => []SameExitCode
  <1>1. SInv => SameExitCode
    BY DEF SInv, TypeOK, PastLoop, Status, CodeOf, SameExitCode
  <1> QED
    BY <1>1, InitSInv, StepSInv, PTL DEF Spec

\* The wait in sq_loop never blocks: the child it waits for has ended.
THEOREM NeverBlocks == Spec => []WaitNeverBlocks
  <1>1. SInv => WaitNeverBlocks
    BY DEF SInv, TypeOK, PastLoop, WaitNeverBlocks
  <1> QED
    BY <1>1, InitSInv, StepSInv, PTL DEF Spec
=============================================================================
