-------------------------------- MODULE Join --------------------------------
(***************************************************************************)
(* The rendezvous of "ch-run --join" (bin/ch_core.c: join_begin,           *)
(* join_namespaces, join_end, called by containerize).  The peers of a     *)
(* group share a POSIX semaphore and a shared memory segment named after   *)
(* the group's tag.  All groups modelled here use the same tag, one after  *)
(* the other, as doc/ch-run.rst allows.                                    *)
(*                                                                         *)
(* A semaphore or segment OBJECT outlives its NAME (sem_unlink and         *)
(* shm_unlink remove the name only), so both are kept: objects are named   *)
(* by the process that created them.                                       *)
(***************************************************************************)
EXTENDS Integers, FiniteSets

CONSTANTS Pid,      \* ch-run processes
          Group,    \* [Pid -> Nat]: peer group of each; lower groups start first
          JoinCt,   \* [Pid -> Nat \ {0}]: the --join-ct each process is given
          Faults,   \* which faults may happen, a subset of FaultKind
          None

FaultKind == {"crash",        \* ch-run is killed or fails on its own
              "timeout",      \* the lock is held longer than JOIN_TIMEOUT
              "early_exit"}   \* a user command ends while peers still join

Peers(p) == {q \in Pid : Group[q] = Group[p]}

ASSUME PidAssumption    == IsFiniteSet(Pid) /\ None \notin Pid
ASSUME GroupAssumption  == Group \in [Pid -> Nat]
ASSUME JoinCtAssumption == JoinCt \in [Pid -> Nat \ {0}]
ASSUME FaultAssumption  == Faults \subseteq FaultKind

VARIABLES
    pc,          \* where each process is
    semName,     \* the semaphore object under /ch-run_sem-TAG, or None
    semVal,      \* value of each semaphore object
    sem,         \* join.sem: the object each process has open
    shmName,     \* the segment under /ch-run_shm-TAG, or None
    shared,      \* join.shared: the segment each process has mapped
    winner_pid,  \* field of each segment (None: still zero)
    left,        \* proc_left_ct of each segment
    ns           \* creator of the namespaces each process is in

vars == <<pc, semName, semVal, sem, shmName, shared, winner_pid, left, ns>>

Holding == {"locked", "exists", "lost", "setup", "init", "dec",
            "unlink_sem", "unlink_shm", "post"}
Waiting == {"wait_begin", "wait_end"}
Joining == Holding \cup Waiting \cup {"join"}
Gone    == {"running", "exited", "failed"}

TypeOK ==
    /\ pc \in [Pid -> Joining \cup Gone \cup {"start"}]
    /\ semName \in Pid \cup {None}
    /\ semVal \in [Pid -> Nat]
    /\ sem \in [Pid -> Pid \cup {None}]
    /\ shmName \in Pid \cup {None}
    /\ shared \in [Pid -> Pid \cup {None}]
    /\ winner_pid \in [Pid -> Pid \cup {None}]
    /\ left \in [Pid -> Int]
    /\ ns \in [Pid -> Pid \cup {None}]

Init ==
    /\ pc = [p \in Pid |-> "start"]
    /\ semName = None
    /\ semVal = [p \in Pid |-> 0]
    /\ sem = [p \in Pid |-> None]
    /\ shmName = None
    /\ shared = [p \in Pid |-> None]
    /\ winner_pid = [p \in Pid |-> None]
    /\ left = [p \in Pid |-> 0]
    /\ ns = [p \in Pid |-> None]

Goto(p, l) == pc' = [pc EXCEPT ![p] = l]

-----------------------------------------------------------------------------
(* join_begin *)

\* Mutant: the semaphore starts at two.
SemOpenTwo(p) ==
    /\ pc[p] = "start"
    /\ \A q \in Pid : Group[q] < Group[p] => pc[q] \in Gone
    /\ semName' = IF semName = None THEN p ELSE semName
    /\ semVal' = IF semName = None THEN [semVal EXCEPT ![p] = 2] ELSE semVal
    /\ sem' = [sem EXCEPT ![p] = semName']
    /\ Goto(p, "wait_begin")
    /\ UNCHANGED <<shmName, shared, winner_pid, left, ns>>

\* sem_open(O_CREAT, 1).  A tag is re-used only once every ch-run of the
\* earlier groups has replaced itself with its user command (or is dead).
SemOpen(p) ==
    /\ pc[p] = "start"
    /\ \A q \in Pid : Group[q] < Group[p] => pc[q] \in Gone
    /\ semName' = IF semName = None THEN p ELSE semName
    /\ semVal' = IF semName = None THEN [semVal EXCEPT ![p] = 1] ELSE semVal
    /\ sem' = [sem EXCEPT ![p] = semName']
    /\ Goto(p, "wait_begin")
    /\ UNCHANGED <<shmName, shared, winner_pid, left, ns>>

\* Mutant: a timed-out wait is taken for the lock.
SemWaitUnchecked(p) ==
    /\ pc[p] \in Waiting
    /\ semVal' = [semVal EXCEPT ![sem[p]] = @ - 1]
    /\ Goto(p, IF pc[p] = "wait_begin" THEN "locked" ELSE "dec")
    /\ UNCHANGED <<semName, sem, shmName, shared, winner_pid, left, ns>>

\* sem_timedwait_relative, the lock obtained.
SemWait(p) ==
    /\ pc[p] \in Waiting
    /\ semVal[sem[p]] > 0
    /\ semVal' = [semVal EXCEPT ![sem[p]] = @ - 1]
    /\ Goto(p, IF pc[p] = "wait_begin" THEN "locked" ELSE "dec")
    /\ UNCHANGED <<semName, sem, shmName, shared, winner_pid, left, ns>>

\* Mutant: sem_wait, which never times out.
SemTimeoutNever(p) == pc[p] = "never" /\ UNCHANGED vars

\* sem_timedwait_relative, ETIMEDOUT: exit with an error.
SemTimeout(p) ==
    /\ "timeout" \in Faults
    /\ pc[p] \in Waiting
    /\ semVal[sem[p]] = 0
    /\ Goto(p, "failed")
    /\ UNCHANGED <<semName, semVal, sem, shmName, shared, winner_pid, left, ns>>

\* Mutant: the winner gives up the lock here, too.
ShmCreatePosting(p) ==
    /\ pc[p] = "locked"
    /\ IF shmName = None
       THEN /\ shmName' = p
            /\ shared' = [shared EXCEPT ![p] = p]
            /\ semVal' = [semVal EXCEPT ![sem[p]] = @ + 1]
            /\ Goto(p, "setup")
       ELSE /\ Goto(p, "exists")
            /\ UNCHANGED <<semVal, shmName, shared>>
    /\ UNCHANGED <<semName, sem, winner_pid, left, ns>>

\* Mutant: no O_EXCL, so every peer believes it has won.
ShmCreateShared(p) ==
    /\ pc[p] = "locked"
    /\ shmName' = IF shmName = None THEN p ELSE shmName
    /\ shared' = [shared EXCEPT ![p] = shmName']
    /\ Goto(p, "setup")
    /\ UNCHANGED <<semName, semVal, sem, winner_pid, left, ns>>

\* shm_open(O_CREAT|O_EXCL): the process that creates the segment has won.
ShmCreate(p) ==
    /\ pc[p] = "locked"
    /\ IF shmName = None
       THEN /\ shmName' = p
            /\ shared' = [shared EXCEPT ![p] = p]
            /\ Goto(p, "setup")
       ELSE /\ Goto(p, "exists")
            /\ UNCHANGED <<shmName, shared>>
    /\ UNCHANGED <<semName, semVal, sem, winner_pid, left, ns>>

\* EEXIST: a second shm_open, without O_CREAT; fatal if the name is gone.
ShmOpen(p) ==
    /\ pc[p] = "exists"
    /\ shared' = [shared EXCEPT ![p] = shmName]
    /\ Goto(p, IF shmName = None THEN "failed" ELSE "lost")
    /\ UNCHANGED <<semName, semVal, sem, shmName, winner_pid, left, ns>>

\* Mutant: losers keep the lock.
LoserPostMissing(p) ==
    /\ pc[p] = "lost"
    /\ Goto(p, "join")
    /\ UNCHANGED <<semName, semVal, sem, shmName, shared, winner_pid, left, ns>>

\* A loser lets the other losers in; the winner keeps the lock.
LoserPost(p) ==
    /\ pc[p] = "lost"
    /\ semVal' = [semVal EXCEPT ![sem[p]] = @ + 1]
    /\ Goto(p, "join")
    /\ UNCHANGED <<semName, sem, shmName, shared, winner_pid, left, ns>>

-----------------------------------------------------------------------------
(* containerize, between join_begin and join_end *)

\* The winner creates the namespaces and enters the new root.
SetupNamespaces(p) ==
    /\ pc[p] = "setup"
    /\ ns' = [ns EXCEPT ![p] = p]
    /\ Goto(p, "init")
    /\ UNCHANGED <<semName, semVal, sem, shmName, shared, winner_pid, left>>

\* join_namespaces(join.shared->winner_pid): /proc/PID/ns exists while the
\* winner lives, otherwise exit with "no PID".
JoinNamespaces(p) ==
    /\ pc[p] = "join"
    /\ LET w == winner_pid[shared[p]] IN
       IF w # None /\ pc[w] \notin {"exited", "failed"}
       THEN ns' = [ns EXCEPT ![p] = ns[w]] /\ Goto(p, "wait_end")
       ELSE Goto(p, "failed") /\ UNCHANGED ns
    /\ UNCHANGED <<semName, semVal, sem, shmName, shared, winner_pid, left>>

-----------------------------------------------------------------------------
(* join_end *)

\* Mutant: the count excludes the winner, who is taken off it all the same.
WinnerInitOthers(p) ==
    /\ pc[p] = "init"
    /\ winner_pid' = [winner_pid EXCEPT ![shared[p]] = p]
    /\ left' = [left EXCEPT ![shared[p]] = JoinCt[p] - 1]
    /\ Goto(p, "dec")
    /\ UNCHANGED <<semName, semVal, sem, shmName, shared, ns>>

\* The winner, still holding the lock, fills in the segment.
WinnerInit(p) ==
    /\ pc[p] = "init"
    /\ winner_pid' = [winner_pid EXCEPT ![shared[p]] = p]
    /\ left' = [left EXCEPT ![shared[p]] = JoinCt[p]]
    /\ Goto(p, "dec")
    /\ UNCHANGED <<semName, semVal, sem, shmName, shared, ns>>

\* Mutant: the peer before the last cleans up as well.
DecrementEarly(p) ==
    LET n == left[shared[p]] - 1 IN
    /\ pc[p] = "dec"
    /\ left' = [left EXCEPT ![shared[p]] = n]
    /\ Goto(p, IF n > 1 THEN "post" ELSE IF n >= 0 THEN "unlink_sem" ELSE "failed")
    /\ UNCHANGED <<semName, semVal, sem, shmName, shared, winner_pid, ns>>

\* proc_left_ct--; the last peer cleans up, and a negative count is an error.
Decrement(p) ==
    LET n == left[shared[p]] - 1 IN
    /\ pc[p] = "dec"
    /\ left' = [left EXCEPT ![shared[p]] = n]
    /\ Goto(p, IF n > 0 THEN "post" ELSE IF n = 0 THEN "unlink_sem" ELSE "failed")
    /\ UNCHANGED <<semName, semVal, sem, shmName, shared, winner_pid, ns>>

\* sem_unlink, then shm_unlink; each is fatal if the name does not exist.
SemUnlink(p) ==
    /\ pc[p] = "unlink_sem"
    /\ semName' = None
    /\ Goto(p, IF semName = None THEN "failed" ELSE "unlink_shm")
    /\ UNCHANGED <<semVal, sem, shmName, shared, winner_pid, left, ns>>

\* Mutant: the segment's name is left behind.
ShmUnlinkMissing(p) ==
    /\ pc[p] = "unlink_shm"
    /\ Goto(p, "post")
    /\ UNCHANGED <<semName, semVal, sem, shmName, shared, winner_pid, left, ns>>

ShmUnlink(p) ==
    /\ pc[p] = "unlink_shm"
    /\ shmName' = None
    /\ Goto(p, IF shmName = None THEN "failed" ELSE "post")
    /\ UNCHANGED <<semName, semVal, sem, shared, winner_pid, left, ns>>

\* sem_post, munmap, sem_close; then ch-run becomes the user command.
EndPost(p) ==
    /\ pc[p] = "post"
    /\ semVal' = [semVal EXCEPT ![sem[p]] = @ + 1]
    /\ Goto(p, "running")
    /\ UNCHANGED <<semName, sem, shmName, shared, winner_pid, left, ns>>

-----------------------------------------------------------------------------
(* Environment *)

\* The user command ends.  Without the "early_exit" fault it outlives the
\* rendezvous of its whole group.
UserExit(p) ==
    /\ pc[p] = "running"
    /\ "early_exit" \in Faults \/ \A q \in Peers(p) : pc[q] \in Gone
    /\ Goto(p, "exited")
    /\ UNCHANGED <<semName, semVal, sem, shmName, shared, winner_pid, left, ns>>

\* ch-run is killed, or a call of its own fails; what it holds stays held.
Crash(p) ==
    /\ "crash" \in Faults
    /\ pc[p] \in Joining
    /\ Goto(p, "failed")
    /\ UNCHANGED <<semName, semVal, sem, shmName, shared, winner_pid, left, ns>>

\* What a ch-run that is running does next.
Step(p) ==
    \/ SemWait(p) \/ SemTimeout(p) \/ ShmCreate(p) \/ ShmOpen(p)
    \/ LoserPost(p) \/ SetupNamespaces(p) \/ JoinNamespaces(p)
    \/ WinnerInit(p) \/ Decrement(p) \/ SemUnlink(p) \/ ShmUnlink(p)
    \/ EndPost(p)

Next == \E p \in Pid : SemOpen(p) \/ Step(p) \/ UserExit(p) \/ Crash(p)

Spec == Init /\ [][Next]_vars

\* The operating system runs every ch-run that has been started; nobody is
\* obliged to start one, to crash, or to end a user command.
FairSpec == Spec /\ \A p \in Pid : WF_vars(Step(p))

-----------------------------------------------------------------------------
(* Properties *)

\* The promise of --join: each group gets a container of its own.
PG == INSTANCE PeerGroup

\* Peers are placed in the one container of their own group, never in that of
\* an earlier group with the same tag, and stay there (the promise of --join,
\* kept by containerize).
OneContainerPerGroup == PG!Spec

\* No semaphore object ever lets two processes into the section between
\* sem_timedwait and sem_post, whatever has been unlinked or has crashed.
MutualExclusion ==
    \A p, q \in Pid : /\ pc[p] \in Holding
                      /\ pc[q] \in Holding
                      /\ sem[p] = sem[q]
                      => p = q

\* When a loser is let past join_begin the winner has filled in the segment:
\* the comment "winner will be done by now" of join_begin.
LosersSeeWinner ==
    \A p \in Pid : pc[p] = "join" => winner_pid[shared[p]] # None

\* The processes that have taken themselves off the count of segment o.
Counted(o) == {q \in Pid : /\ shared[q] = o
                           /\ pc[q] \in {"post", "unlink_sem", "unlink_shm",
                                         "running", "exited"}}

\* proc_left_ct of an initialised segment is the join count less the peers
\* that have passed join_end's decrement, so exactly one peer sees zero.
CountIsExact ==
    \A o \in Pid : winner_pid[o] # None =>
        left[o] = JoinCt[o] - Cardinality(Counted(o))

\* When every peer of the started groups is past join_end, neither name is
\* left in /dev/shm (the test suite's ipc_clean_p).
IPCClean ==
    (\A p \in Pid : pc[p] \in Gone \/ \A q \in Peers(p) : pc[q] = "start")
    => semName = None /\ shmName = None

\* Without faults no error exit of join_begin, join_namespaces or join_end is
\* reachable.
NoErrorExit == \A p \in Pid : pc[p] # "failed"

\* A started ch-run always gets to its user command or to an error exit: the
\* timeouts of join_begin and join_end leave nobody waiting for the dead.
EveryPeerSettles == \A p \in Pid : pc[p] \in Joining ~> pc[p] \in Gone

\* Without faults a started ch-run gets to its user command, even if other
\* peers of the group are never started (--join is no barrier).
EveryPeerRuns == \A p \in Pid : pc[p] \in Joining ~> pc[p] = "running"
=============================================================================
