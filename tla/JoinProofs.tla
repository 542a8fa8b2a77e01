----------------------------- MODULE JoinProofs -----------------------------
(***************************************************************************)
(* Proofs about Join, for every finite set of processes, every sequence of *)
(* peer groups and every join count.                                       *)
(*                                                                         *)
(* Part 1 (any faults): types and the mutual exclusion of the semaphore.   *)
(* Part 2 (no faults, join counts equal to the group sizes): nobody exits  *)
(* with an error, losers see the winner, the count is exact, nothing stays *)
(* in /dev/shm, and Join implements PeerGroup.                             *)
(***************************************************************************)
EXTENDS Join, FiniteSetTheorems, TLAPS

Labels == Joining \cup Gone \cup {"start"}

-----------------------------------------------------------------------------
(* Part 1 *)

\* A process that waits or is in the protocol has a semaphore open.
SemOpened ==
    \A p \in Pid : pc[p] \in Joining => sem[p] # None

\* A semaphore object is fresh until the process it is named after starts.
SemFresh ==
    \A p \in Pid : pc[p] = "start" =>
        /\ \A q \in Pid : sem[q] # p
        /\ semName # p
        /\ semVal[p] = 0

\* A semaphore somebody holds has value zero; its value is never above one.
SemBinary ==
    /\ \A o \in Pid : semVal[o] \in {0, 1}
    /\ \A p \in Pid : pc[p] \in Holding => semVal[sem[p]] = 0

\* A process past join_begin has a segment mapped.
ShmMapped ==
    \A p \in Pid : pc[p] \in {"lost", "setup", "init", "join", "wait_end", "dec",
                              "unlink_sem", "unlink_shm", "post"} =>
        shared[p] # None

MInv == TypeOK /\ SemOpened /\ SemFresh /\ SemBinary /\ ShmMapped /\ MutualExclusion

LEMMA InitMInv == Init => MInv
  BY PidAssumption
  DEF Init, MInv, TypeOK, SemOpened, SemFresh, SemBinary, ShmMapped, MutualExclusion,
      Joining, Holding, Waiting, Gone

LEMMA StepMInv == MInv /\ [Next]_vars => MInv'
  <1> SUFFICES ASSUME MInv, [Next]_vars PROVE MInv'
    OBVIOUS
  <1> USE PidAssumption, JoinCtAssumption
      DEF MInv, TypeOK, SemOpened, SemFresh, SemBinary, ShmMapped, MutualExclusion,
          Joining, Holding, Waiting, Gone, Goto
  <1>1. CASE UNCHANGED vars
    BY <1>1 DEF vars
  <1>2. ASSUME NEW p \in Pid, SemOpen(p) PROVE MInv'
    BY <1>2 DEF SemOpen
  <1>3. ASSUME NEW p \in Pid, SemWait(p) PROVE MInv'
    BY <1>3 DEF SemWait
  <1>4. ASSUME NEW p \in Pid, SemTimeout(p) PROVE MInv'
    BY <1>4 DEF SemTimeout
  <1>5. ASSUME NEW p \in Pid, ShmCreate(p) PROVE MInv'
    BY <1>5 DEF ShmCreate
  <1>6. ASSUME NEW p \in Pid, ShmOpen(p) PROVE MInv'
    BY <1>6 DEF ShmOpen
  <1>7. ASSUME NEW p \in Pid, LoserPost(p) PROVE MInv'
    BY <1>7 DEF LoserPost
  <1>8. ASSUME NEW p \in Pid, SetupNamespaces(p) PROVE MInv'
    BY <1>8 DEF SetupNamespaces
  <1>9. ASSUME NEW p \in Pid, JoinNamespaces(p) PROVE MInv'
    BY <1>9 DEF JoinNamespaces
  <1>10. ASSUME NEW p \in Pid, WinnerInit(p) PROVE MInv'
    BY <1>10 DEF WinnerInit
  <1>11. ASSUME NEW p \in Pid, Decrement(p) PROVE MInv'
    BY <1>11 DEF Decrement
  <1>12. ASSUME NEW p \in Pid, SemUnlink(p) PROVE MInv'
    BY <1>12 DEF SemUnlink
  <1>13. ASSUME NEW p \in Pid, ShmUnlink(p) PROVE MInv'
    BY <1>13 DEF ShmUnlink
  <1>14. ASSUME NEW p \in Pid, EndPost(p) PROVE MInv'
    BY <1>14 DEF EndPost
  <1>15. ASSUME NEW p \in Pid, UserExit(p) PROVE MInv'
    BY <1>15 DEF UserExit
  <1>16. ASSUME NEW p \in Pid, Crash(p) PROVE MInv'
    BY <1>16 DEF Crash
  <1> QED
    BY <1>1, <1>2, <1>3, <1>4, <1>5, <1>6, <1>7, <1>8, <1>9, <1>10, <1>11,
       <1>12, <1>13, <1>14, <1>15, <1>16 DEF Next, Step

\* Types are preserved by every step of join_begin and join_end, faults
\* included.
THEOREM TypeCorrect == Spec => []TypeOK
  <1>1. MInv => TypeOK
    BY DEF MInv
  <1> QED
    BY <1>1, InitMInv, StepMInv, PTL DEF Spec

\* No semaphore object lets two ch-run into its critical section, for every
\* number of processes and groups, every join count and every fault.
THEOREM Mutex == Spec => []MutualExclusion
  <1>1. MInv => MutualExclusion
    BY DEF MInv
  <1> QED
    BY <1>1, InitMInv, StepMInv, PTL DEF Spec

-----------------------------------------------------------------------------
(* Part 2: the inductive invariant of the fault-free rendezvous *)

\* Every process is told the true size of its group.
ExactCt == \A p \in Pid : JoinCt[p] = Cardinality(Peers(p))

Before == {"start", "wait_begin", "locked"}
Done   == {"running", "exited"}

\* A group starts only after the groups before it are done.
InTurn ==
    \A p, q \in Pid : Group[q] < Group[p] /\ pc[p] # "start" => pc[q] \in Done

\* p is the last peer of its group, at the cleanup or after it.
Cleaning(p) == \/ pc[p] \in {"unlink_sem", "unlink_shm"}
               \/ pc[p] = "post" /\ shmName = None

\* All peers in the protocol use the semaphore under the tag's name, except
\* the last one once it has unlinked the name.
OneSem ==
    \A p \in Pid : pc[p] \in Joining =>
        IF semName = None
        THEN pc[p] = "unlink_shm" \/ (pc[p] = "post" /\ shmName = None)
        ELSE sem[p] = semName /\ pc[p] # "unlink_shm"

\* All peers past join_begin use the segment under the tag's name, except the
\* last one once it has unlinked the name.
OneShm ==
    \A p \in Pid :
        /\ pc[p] \in {"lost", "setup", "init", "join", "wait_end", "dec",
                      "unlink_sem", "unlink_shm", "post"} =>
               IF shmName = None THEN pc[p] = "post" ELSE shared[p] = shmName
        /\ pc[p] = "exists" => shmName # None
        /\ pc[p] \in Before => shared[p] = None

\* A segment belongs to one group and is named after the winner.
Winner ==
    /\ \A p \in Pid : pc[p] \in {"setup", "init"} => shmName = p
    /\ \A q \in Pid : shared[q] # None => Group[shared[q]] = Group[q]
    /\ \A o \in Pid : winner_pid[o] \in {None, o}
    /\ \A o \in Pid : pc[o] \in Before => winner_pid[o] = None
    /\ shmName # None =>
           /\ pc[shmName] \in {"setup", "init", "dec", "unlink_sem", "unlink_shm", "post",
                               "running", "exited"}
           /\ shared[shmName] = shmName
           /\ winner_pid[shmName] = None <=> pc[shmName] \in {"setup", "init"}

\* A loser has passed the winner, and stays past it.
WinnerDone ==
    \A p \in Pid : pc[p] = "wait_end" => winner_pid[shared[p]] # None

\* While a group has a segment, not all of its peers are done, and those that
\* are have used it.
GroupOfShm ==
    shmName # None =>
        /\ \E q \in Pid : Group[q] = Group[shmName] /\ pc[q] \notin Done
        /\ \A q \in Pid : Group[q] = Group[shmName] /\ pc[q] \in Done => shared[q] = shmName

\* Without a segment, the peers of a group are all before it or all past it.
NoShm ==
    shmName = None =>
        \A p, q \in Pid : Group[p] = Group[q] /\ pc[p] \in Before => pc[q] \in Before

LastPeer ==
    \A p, q \in Pid : Cleaning(p) /\ Group[q] = Group[p] /\ q # p => pc[q] \in Done

NotCounted == \A o \in Pid : winner_pid[o] = None => Counted(o) = {}

MorePeers == \A p \in Pid : pc[p] = "post" /\ shmName # None => left[shmName] > 0

CommandsLast ==
    \A p, q \in Pid : pc[p] = "exited" /\ Group[q] = Group[p] => pc[q] \in Done

SemHasUser ==
    semName # None /\ shmName = None => pc[semName] \in {"wait_begin", "locked"}

Namespaces ==
    \A p \in Pid :
        /\ pc[p] \in Before \cup {"exists", "lost", "join", "setup"} => ns[p] = None
        /\ winner_pid[p] # None \/ pc[p] = "init" => ns[p] = p

\* Everything except the counting.
FCore ==
    /\ NoErrorExit /\ InTurn /\ OneSem /\ OneShm /\ Winner
    /\ LosersSeeWinner /\ WinnerDone /\ GroupOfShm /\ NoShm /\ LastPeer
    /\ MorePeers /\ CommandsLast /\ SemHasUser /\ Namespaces

FInv == MInv /\ FCore /\ NotCounted /\ CountIsExact

-----------------------------------------------------------------------------
(* Facts used by several actions *)

\* Groups of the same tag are ordered by their start.
LEMMA GroupsOrdered ==
  \A p, q \in Pid : Group[p] # Group[q] => Group[p] < Group[q] \/ Group[q] < Group[p]
  BY GroupAssumption

\* Peers that are in the protocol at the same time are of the same group.
LEMMA OneActiveGroup ==
  ASSUME FInv, NEW p \in Pid, NEW q \in Pid, pc[p] \in Joining, pc[q] \in Joining
  PROVE  Group[p] = Group[q]
  BY GroupAssumption DEF FInv, FCore, InTurn, Joining, Holding, Waiting, Done

\* The segment under the tag's name belongs to the group in the protocol.
LEMMA ShmGroup ==
  ASSUME FInv, NEW p \in Pid, pc[p] \in Joining, shmName # None
  PROVE  Group[p] = Group[shmName] /\ shmName \in Pid
  <1>1. shmName \in Pid /\ pc[shmName] # "start"
    BY DEF FInv, FCore, MInv, TypeOK, Winner
  <1>2. PICK q \in Pid : Group[q] = Group[shmName] /\ pc[q] \notin Done
    BY DEF FInv, FCore, GroupOfShm
  <1> QED
    BY <1>1, <1>2, GroupAssumption DEF FInv, FCore, InTurn, Joining, Holding, Waiting, Done

\* Who decrements does so on the named segment, which the winner has filled in.
LEMMA DecrementsFilled ==
  ASSUME FInv, NEW p \in Pid, pc[p] \in {"dec", "post"}, shmName # None
  PROVE  /\ shared[p] = shmName /\ shmName \in Pid
         /\ winner_pid[shmName] # None
  <1>1. shared[p] = shmName /\ shmName \in Pid
    BY DEF FInv, FCore, MInv, TypeOK, OneShm
  <1>2. sem[p] = semName
    BY DEF FInv, FCore, OneSem, Joining, Holding
  <1>3. ASSUME pc[shmName] \in {"setup", "init"} PROVE FALSE
    <2>1. sem[shmName] = sem[p]
      BY <1>1, <1>2, <1>3 DEF FInv, FCore, OneSem, Joining, Holding
    <2> QED
      BY <2>1, <1>1, <1>3 DEF FInv, MInv, MutualExclusion, Holding
  <1> QED
    BY <1>1, <1>3 DEF FInv, FCore, Winner

\* The counted peers are peers of the group, and the count says how many
\* peers are missing.
LEMMA CountFacts ==
  ASSUME FInv, ExactCt, NEW o \in Pid, winner_pid[o] # None
  PROVE  /\ IsFiniteSet(Peers(o)) /\ IsFiniteSet(Counted(o))
         /\ Counted(o) \subseteq Peers(o)
         /\ Cardinality(Peers(o)) \in Nat /\ Cardinality(Counted(o)) \in Nat
         /\ left[o] = Cardinality(Peers(o)) - Cardinality(Counted(o))
  <1>1. IsFiniteSet(Peers(o))
    BY FS_Subset, PidAssumption DEF Peers
  <1>2. Counted(o) \subseteq Peers(o)
    BY PidAssumption DEF FInv, FCore, Winner, Counted, Peers
  <1>3. IsFiniteSet(Counted(o))
    BY <1>1, <1>2, FS_Subset
  <1>4. left[o] = Cardinality(Peers(o)) - Cardinality(Counted(o))
    BY DEF FInv, CountIsExact, ExactCt
  <1> QED
    BY <1>1, <1>2, <1>3, <1>4, FS_CardinalityType

\* The decrement never goes below zero, and who gets zero is the last peer.
LEMMA DecrementCount ==
  ASSUME FInv, ExactCt, NEW p \in Pid, pc[p] = "dec"
  PROVE  /\ shmName # None /\ shared[p] = shmName /\ winner_pid[shmName] # None
         /\ shmName \in Pid /\ left[shmName] - 1 \in Nat
         /\ left[shmName] - 1 = 0 =>
                \A q \in Pid : Group[q] = Group[p] /\ q # p => pc[q] \in Done
  <1> DEFINE o == shmName
             C == Counted(o) \cup {p}
  <1>1. shmName # None
    BY DEF FInv, FCore, OneShm
  <1>2. o \in Pid /\ shared[p] = o /\ winner_pid[o] # None
    BY <1>1, DecrementsFilled
  <1>3. p \in Peers(o) /\ p \notin Counted(o)
    BY <1>1, <1>2, ShmGroup DEF Counted, Peers, Joining, Holding
  <1>4. C \subseteq Peers(o) /\ IsFiniteSet(C) /\ Cardinality(C) = Cardinality(Counted(o)) + 1
    BY <1>2, <1>3, CountFacts, FS_AddElement
  <1>5. Cardinality(C) <= Cardinality(Peers(o)) /\ (Cardinality(C) = Cardinality(Peers(o)) => C = Peers(o))
    BY <1>2, <1>4, CountFacts, FS_Subset
  <1>6. left[o] - 1 \in Nat /\ (left[o] - 1 = 0 => C = Peers(o))
    BY <1>2, <1>4, <1>5, CountFacts
  <1>7. ASSUME C = Peers(o), NEW q \in Pid, Group[q] = Group[p], q # p
        PROVE  pc[q] \in Done
    <2>1. q \in Counted(o)
      BY <1>3, <1>7 DEF Peers
    <2>2. ASSUME pc[q] \in Holding PROVE FALSE
      <3>1. sem[q] = sem[p]
        BY <2>2, <1>1 DEF FInv, FCore, OneSem, OneShm, Joining, Holding
      <3> QED
        BY <3>1, <2>2, <1>7 DEF FInv, MInv, MutualExclusion, Holding
    <2> QED
      BY <2>1, <2>2 DEF Counted, Done, Holding
  <1> QED
    BY <1>1, <1>2, <1>6, <1>7

\* A peer that leaves a segment behind is not the last one.
LEMMA MoreToCome ==
  ASSUME FInv, ExactCt, NEW p \in Pid, pc[p] = "post", shmName # None
  PROVE  \E q \in Pid : Group[q] = Group[shmName] /\ q # p /\ pc[q] \notin Done
  <1> DEFINE o == shmName
  <1>1. o \in Pid /\ shared[p] = o /\ winner_pid[o] # None
    BY DecrementsFilled
  <1>2. left[o] > 0
    BY DEF FInv, FCore, MorePeers
  <1>3. Counted(o) # Peers(o)
    <2> SUFFICES ASSUME Counted(o) = Peers(o) PROVE FALSE
      OBVIOUS
    <2>1. left[o] = 0
      BY <1>1, CountFacts
    <2> QED
      BY <1>2, <2>1
  <1>4. PICK q \in Peers(o) : q \notin Counted(o)
    BY <1>1, <1>3, CountFacts
  <1>5. p \in Counted(o)
    BY <1>1 DEF Counted
  <1> QED
    BY <1>1, <1>4, <1>5 DEF Counted, Peers, Done, FInv, FCore, GroupOfShm

-----------------------------------------------------------------------------
(* One lemma per action *)

LEMMA SemOpenCore ==
  ASSUME Faults = {}, NEW p \in Pid, FInv, MInv', SemOpen(p)
  PROVE  FCore'
  <1> USE PidAssumption, GroupAssumption, JoinCtAssumption
      DEF SemOpen, FInv, FCore, MInv, TypeOK, SemOpened, SemFresh, SemBinary, ShmMapped,
          MutualExclusion, Joining, Holding, Waiting, Gone, Goto, Before, Done,
          Cleaning, Peers
  <1> USE OneActiveGroup, ShmGroup
      DEF NoErrorExit, InTurn, OneSem, OneShm, Winner, LosersSeeWinner, WinnerDone,
         GroupOfShm, NoShm, LastPeer, MorePeers, CommandsLast, SemHasUser, Namespaces
  <1>1. NoErrorExit'
    BY SMTT(20)
  <1>2. InTurn'
    BY SMTT(20)
  <1>3. OneSem'
    <2>1. ASSUME NEW q \in Pid, q # p, pc[q] \in Joining, semName = None PROVE FALSE
      <3>1. Cleaning(q)
        BY <2>1
      <3>2. Group[p] # Group[q]
        BY <3>1, <2>1
      <3>3. ~(Group[q] < Group[p])
        BY <2>1
      <3>4. ~(Group[p] < Group[q])
        BY <2>1 DEF InTurn
      <3> QED
        BY <3>2, <3>3, <3>4, GroupsOrdered
    <2> QED
      BY <2>1
  <1>4. OneShm'
    BY SMTT(20)
  <1>5. Winner'
    BY SMTT(20)
  <1>6. LosersSeeWinner'
    BY SMTT(20)
  <1>7. WinnerDone'
    BY SMTT(20)
  <1>8. GroupOfShm'
    BY SMTT(20)
  <1>9. NoShm'
    BY SMTT(20)
  <1>10. LastPeer'
    BY SMTT(20)
  <1>11. MorePeers'
    BY SMTT(20)
  <1>12. CommandsLast'
    BY SMTT(20)
  <1>13. SemHasUser'
    BY SMTT(20)
  <1>14. Namespaces'
    BY SMTT(20)
  <1> QED
    BY ONLY <1>1, <1>2, <1>3, <1>4, <1>5, <1>6, <1>7, <1>8, <1>9, <1>10, <1>11, <1>12, <1>13, <1>14 DEF FCore

LEMMA SemWaitCore ==
  ASSUME Faults = {}, NEW p \in Pid, FInv, MInv', SemWait(p)
  PROVE  FCore'
  <1> USE PidAssumption, GroupAssumption, JoinCtAssumption
      DEF SemWait, FInv, FCore, MInv, TypeOK, SemOpened, SemFresh, SemBinary, ShmMapped,
          MutualExclusion, Joining, Holding, Waiting, Gone, Goto, Before, Done,
          Cleaning, Peers
  <1> QED
    BY SMTT(60)
    DEF NoErrorExit, InTurn, OneSem, OneShm, Winner, LosersSeeWinner, WinnerDone,
         GroupOfShm, NoShm, LastPeer, MorePeers, CommandsLast, SemHasUser, Namespaces

LEMMA ShmCreateCore ==
  ASSUME Faults = {}, NEW p \in Pid, FInv, MInv', ShmCreate(p)
  PROVE  FCore'
  <1> USE PidAssumption, GroupAssumption, JoinCtAssumption
      DEF ShmCreate, FInv, FCore, MInv, TypeOK, SemOpened, SemFresh, SemBinary, ShmMapped,
          MutualExclusion, Joining, Holding, Waiting, Gone, Goto, Before, Done,
          Cleaning, Peers
  <1> QED
    BY SMTT(60)
    DEF NoErrorExit, InTurn, OneSem, OneShm, Winner, LosersSeeWinner, WinnerDone,
         GroupOfShm, NoShm, LastPeer, MorePeers, CommandsLast, SemHasUser, Namespaces

LEMMA ShmOpenCore ==
  ASSUME Faults = {}, NEW p \in Pid, FInv, MInv', ShmOpen(p)
  PROVE  FCore'
  <1> USE PidAssumption, GroupAssumption, JoinCtAssumption
      DEF ShmOpen, FInv, FCore, MInv, TypeOK, SemOpened, SemFresh, SemBinary, ShmMapped,
          MutualExclusion, Joining, Holding, Waiting, Gone, Goto, Before, Done,
          Cleaning, Peers
  <1> USE OneActiveGroup, ShmGroup
      DEF NoErrorExit, InTurn, OneSem, OneShm, Winner, LosersSeeWinner, WinnerDone,
         GroupOfShm, NoShm, LastPeer, MorePeers, CommandsLast, SemHasUser, Namespaces
  <1>1. NoErrorExit'
    BY SMTT(20)
  <1>2. InTurn'
    BY SMTT(20)
  <1>3. OneSem'
    BY SMTT(20)
  <1>4. OneShm'
    BY SMTT(20)
  <1>5. Winner'
    BY SMTT(20)
  <1>6. LosersSeeWinner'
    BY SMTT(20)
  <1>7. WinnerDone'
    BY SMTT(20)
  <1>8. GroupOfShm'
    BY SMTT(20)
  <1>9. NoShm'
    BY SMTT(20)
  <1>10. LastPeer'
    BY SMTT(20)
  <1>11. MorePeers'
    BY SMTT(20)
  <1>12. CommandsLast'
    BY SMTT(20)
  <1>13. SemHasUser'
    BY SMTT(20)
  <1>14. Namespaces'
    BY SMTT(20)
  <1> QED
    BY ONLY <1>1, <1>2, <1>3, <1>4, <1>5, <1>6, <1>7, <1>8, <1>9, <1>10, <1>11, <1>12, <1>13, <1>14 DEF FCore

LEMMA LoserPostCore ==
  ASSUME Faults = {}, NEW p \in Pid, FInv, MInv', LoserPost(p)
  PROVE  FCore'
  <1> USE PidAssumption, GroupAssumption, JoinCtAssumption
      DEF LoserPost, FInv, FCore, MInv, TypeOK, SemOpened, SemFresh, SemBinary, ShmMapped,
          MutualExclusion, Joining, Holding, Waiting, Gone, Goto, Before, Done,
          Cleaning, Peers
  <1> QED
    BY SMTT(60)
    DEF NoErrorExit, InTurn, OneSem, OneShm, Winner, LosersSeeWinner, WinnerDone,
         GroupOfShm, NoShm, LastPeer, MorePeers, CommandsLast, SemHasUser, Namespaces

LEMMA SetupNamespacesCore ==
  ASSUME Faults = {}, NEW p \in Pid, FInv, MInv', SetupNamespaces(p)
  PROVE  FCore'
  <1> USE PidAssumption, GroupAssumption, JoinCtAssumption
      DEF SetupNamespaces, FInv, FCore, MInv, TypeOK, SemOpened, SemFresh, SemBinary, ShmMapped,
          MutualExclusion, Joining, Holding, Waiting, Gone, Goto, Before, Done,
          Cleaning, Peers
  <1> QED
    BY SMTT(60)
    DEF NoErrorExit, InTurn, OneSem, OneShm, Winner, LosersSeeWinner, WinnerDone,
         GroupOfShm, NoShm, LastPeer, MorePeers, CommandsLast, SemHasUser, Namespaces

LEMMA JoinNamespacesCore ==
  ASSUME Faults = {}, NEW p \in Pid, FInv, MInv', JoinNamespaces(p)
  PROVE  FCore'
  <1> USE PidAssumption, GroupAssumption, JoinCtAssumption
      DEF JoinNamespaces, FInv, FCore, MInv, TypeOK, SemOpened, SemFresh, SemBinary, ShmMapped,
          MutualExclusion, Joining, Holding, Waiting, Gone, Goto, Before, Done,
          Cleaning, Peers
  <1> QED
    BY SMTT(60)
    DEF NoErrorExit, InTurn, OneSem, OneShm, Winner, LosersSeeWinner, WinnerDone,
         GroupOfShm, NoShm, LastPeer, MorePeers, CommandsLast, SemHasUser, Namespaces

LEMMA WinnerInitCore ==
  ASSUME Faults = {}, NEW p \in Pid, FInv, MInv', WinnerInit(p)
  PROVE  FCore'
  <1> USE PidAssumption, GroupAssumption, JoinCtAssumption
      DEF WinnerInit, FInv, FCore, MInv, TypeOK, SemOpened, SemFresh, SemBinary, ShmMapped,
          MutualExclusion, Joining, Holding, Waiting, Gone, Goto, Before, Done,
          Cleaning, Peers
  <1> QED
    BY SMTT(60)
    DEF NoErrorExit, InTurn, OneSem, OneShm, Winner, LosersSeeWinner, WinnerDone,
         GroupOfShm, NoShm, LastPeer, MorePeers, CommandsLast, SemHasUser, Namespaces

LEMMA DecrementCore ==
  ASSUME Faults = {}, NEW p \in Pid, FInv, MInv', Decrement(p), ExactCt
  PROVE  FCore'
  <1> USE PidAssumption, GroupAssumption, JoinCtAssumption
      DEF Decrement, FInv, FCore, MInv, TypeOK, SemOpened, SemFresh, SemBinary, ShmMapped,
          MutualExclusion, Joining, Holding, Waiting, Gone, Goto, Before, Done,
          Cleaning, Peers
  <1>a. /\ shmName # None /\ shared[p] = shmName /\ winner_pid[shmName] # None
        /\ shmName \in Pid /\ left[shmName] - 1 \in Nat
        /\ left[shmName] - 1 = 0 =>
               \A q \in Pid : Group[q] = Group[p] /\ q # p => pc[q] \in Done
    BY DecrementCount
  <1> USE OneActiveGroup, ShmGroup
      DEF NoErrorExit, InTurn, OneSem, OneShm, Winner, LosersSeeWinner, WinnerDone,
         GroupOfShm, NoShm, LastPeer, MorePeers, CommandsLast, SemHasUser, Namespaces
  <1>1. NoErrorExit'
    BY <1>a, SMTT(20)
  <1>2. InTurn'
    BY <1>a, SMTT(20)
  <1>3. OneSem'
    BY <1>a, SMTT(20)
  <1>4. OneShm'
    BY <1>a, SMTT(20)
  <1>5. Winner'
    BY <1>a, SMTT(20)
  <1>6. LosersSeeWinner'
    BY <1>a, SMTT(20)
  <1>7. WinnerDone'
    BY <1>a, SMTT(20)
  <1>8. GroupOfShm'
    BY <1>a, SMTT(20)
  <1>9. NoShm'
    BY <1>a, SMTT(20)
  <1>10. LastPeer'
    BY <1>a, SMTT(20)
  <1>11. MorePeers'
    BY <1>a, SMTT(20)
  <1>12. CommandsLast'
    BY <1>a, SMTT(20)
  <1>13. SemHasUser'
    BY <1>a, SMTT(20)
  <1>14. Namespaces'
    BY <1>a, SMTT(20)
  <1> QED
    BY ONLY <1>1, <1>2, <1>3, <1>4, <1>5, <1>6, <1>7, <1>8, <1>9, <1>10, <1>11, <1>12, <1>13, <1>14 DEF FCore

LEMMA SemUnlinkCore ==
  ASSUME Faults = {}, NEW p \in Pid, FInv, MInv', SemUnlink(p)
  PROVE  FCore'
  <1> USE PidAssumption, GroupAssumption, JoinCtAssumption
      DEF SemUnlink, FInv, FCore, MInv, TypeOK, SemOpened, SemFresh, SemBinary, ShmMapped,
          MutualExclusion, Joining, Holding, Waiting, Gone, Goto, Before, Done,
          Cleaning, Peers
  <1> USE OneActiveGroup, ShmGroup
      DEF NoErrorExit, InTurn, OneSem, OneShm, Winner, LosersSeeWinner, WinnerDone,
         GroupOfShm, NoShm, LastPeer, MorePeers, CommandsLast, SemHasUser, Namespaces
  <1>1. NoErrorExit'
    BY SMTT(20)
  <1>2. InTurn'
    BY SMTT(20)
  <1>3. OneSem'
    BY SMTT(20)
  <1>4. OneShm'
    BY SMTT(20)
  <1>5. Winner'
    BY SMTT(20)
  <1>6. LosersSeeWinner'
    BY SMTT(20)
  <1>7. WinnerDone'
    BY SMTT(20)
  <1>8. GroupOfShm'
    BY SMTT(20)
  <1>9. NoShm'
    BY SMTT(20)
  <1>10. LastPeer'
    BY SMTT(20)
  <1>11. MorePeers'
    BY SMTT(20)
  <1>12. CommandsLast'
    BY SMTT(20)
  <1>13. SemHasUser'
    BY SMTT(20)
  <1>14. Namespaces'
    BY SMTT(20)
  <1> QED
    BY ONLY <1>1, <1>2, <1>3, <1>4, <1>5, <1>6, <1>7, <1>8, <1>9, <1>10, <1>11, <1>12, <1>13, <1>14 DEF FCore

LEMMA ShmUnlinkCore ==
  ASSUME Faults = {}, NEW p \in Pid, FInv, MInv', ShmUnlink(p)
  PROVE  FCore'
  <1> USE PidAssumption, GroupAssumption, JoinCtAssumption
      DEF ShmUnlink, FInv, FCore, MInv, TypeOK, SemOpened, SemFresh, SemBinary, ShmMapped,
          MutualExclusion, Joining, Holding, Waiting, Gone, Goto, Before, Done,
          Cleaning, Peers
  <1> USE OneActiveGroup, ShmGroup
      DEF NoErrorExit, InTurn, OneSem, OneShm, Winner, LosersSeeWinner, WinnerDone,
         GroupOfShm, NoShm, LastPeer, MorePeers, CommandsLast, SemHasUser, Namespaces
  <1>1. NoErrorExit'
    BY SMTT(20)
  <1>2. InTurn'
    BY SMTT(20)
  <1>3. OneSem'
    BY SMTT(20)
  <1>4. OneShm'
    BY SMTT(20)
  <1>5. Winner'
    BY SMTT(20)
  <1>6. LosersSeeWinner'
    BY SMTT(20)
  <1>7. WinnerDone'
    BY SMTT(20)
  <1>8. GroupOfShm'
    BY SMTT(20)
  <1>9. NoShm'
    <2> SUFFICES ASSUME NEW a \in Pid, NEW b \in Pid, Group[a] = Group[b], pc'[a] \in Before
                 PROVE  pc'[b] \in Before
      OBVIOUS
    <2>1. a # p /\ pc[a] \in Before
      OBVIOUS
    <2>2. Group[a] # Group[p]
      BY <2>1
    <2>3. Group[p] < Group[a]
      <3>1. ~(Group[a] < Group[p])
        BY <2>1
      <3> QED
        BY <2>2, <3>1, GroupsOrdered
    <2>4. pc[b] = "start"
      BY <2>3
    <2> QED
      BY <2>4
  <1>10. LastPeer'
    BY SMTT(20)
  <1>11. MorePeers'
    BY SMTT(20)
  <1>12. CommandsLast'
    BY SMTT(20)
  <1>13. SemHasUser'
    BY SMTT(20)
  <1>14. Namespaces'
    BY SMTT(20)
  <1> QED
    BY ONLY <1>1, <1>2, <1>3, <1>4, <1>5, <1>6, <1>7, <1>8, <1>9, <1>10, <1>11, <1>12, <1>13, <1>14 DEF FCore

LEMMA EndPostCore ==
  ASSUME Faults = {}, NEW p \in Pid, FInv, MInv', EndPost(p), ExactCt
  PROVE  FCore'
  <1> USE PidAssumption, GroupAssumption, JoinCtAssumption
      DEF EndPost, FInv, FCore, MInv, TypeOK, SemOpened, SemFresh, SemBinary, ShmMapped,
          MutualExclusion, Joining, Holding, Waiting, Gone, Goto, Before, Done,
          Cleaning, Peers
  <1>a. shmName # None =>
            \E q \in Pid : Group[q] = Group[shmName] /\ q # p /\ pc[q] \notin Done
    BY MoreToCome
  <1> USE OneActiveGroup, ShmGroup
      DEF NoErrorExit, InTurn, OneSem, OneShm, Winner, LosersSeeWinner, WinnerDone,
         GroupOfShm, NoShm, LastPeer, MorePeers, CommandsLast, SemHasUser, Namespaces
  <1>1. NoErrorExit'
    BY SMTT(20)
  <1>2. InTurn'
    BY SMTT(20)
  <1>3. OneSem'
    BY SMTT(20)
  <1>4. OneShm'
    BY SMTT(20)
  <1>5. Winner'
    BY SMTT(20)
  <1>6. LosersSeeWinner'
    BY SMTT(20)
  <1>7. WinnerDone'
    BY SMTT(20)
  <1>8. GroupOfShm'
    BY <1>a
  <1>9. NoShm'
    BY SMTT(20)
  <1>10. LastPeer'
    BY SMTT(20)
  <1>11. MorePeers'
    BY SMTT(20)
  <1>12. CommandsLast'
    BY SMTT(20)
  <1>13. SemHasUser'
    BY SMTT(20)
  <1>14. Namespaces'
    BY SMTT(20)
  <1> QED
    BY ONLY <1>1, <1>2, <1>3, <1>4, <1>5, <1>6, <1>7, <1>8, <1>9, <1>10, <1>11, <1>12, <1>13, <1>14 DEF FCore

LEMMA UserExitCore ==
  ASSUME Faults = {}, NEW p \in Pid, FInv, MInv', UserExit(p)
  PROVE  FCore'
  <1> USE PidAssumption, GroupAssumption, JoinCtAssumption
      DEF UserExit, FInv, FCore, MInv, TypeOK, SemOpened, SemFresh, SemBinary, ShmMapped,
          MutualExclusion, Joining, Holding, Waiting, Gone, Goto, Before, Done,
          Cleaning, Peers
  <1> QED
    BY SMTT(60)
    DEF NoErrorExit, InTurn, OneSem, OneShm, Winner, LosersSeeWinner, WinnerDone,
         GroupOfShm, NoShm, LastPeer, MorePeers, CommandsLast, SemHasUser, Namespaces

-----------------------------------------------------------------------------
(* The counting *)

\* Only join_end's decrement changes who has been counted.
LEMMA CountStep ==
  ASSUME Faults = {}, ExactCt, FInv, FCore', MInv', [Next]_vars
  PROVE  NotCounted' /\ CountIsExact'
  <1> USE PidAssumption DEF Goto, TypeOK, MInv
  <1>1. ASSUME \A o \in Pid : Counted(o)' = Counted(o),
               UNCHANGED <<winner_pid, left>>
        PROVE  NotCounted' /\ CountIsExact'
    BY <1>1 DEF FInv, NotCounted, CountIsExact
  <1>2. CASE UNCHANGED vars
    BY <1>1, <1>2 DEF vars, Counted
  <1>3. ASSUME NEW p \in Pid,
               SemOpen(p) \/ SemWait(p) \/ LoserPost(p) \/ SetupNamespaces(p)
               \/ JoinNamespaces(p)
        PROVE  NotCounted' /\ CountIsExact'
    <2>1. \A o \in Pid : Counted(o)' = Counted(o)
      BY <1>3 DEF Counted, SemOpen, SemWait, LoserPost, SetupNamespaces, JoinNamespaces, Waiting
    <2> QED
      BY <2>1, <1>1, <1>3 DEF SemOpen, SemWait, LoserPost, SetupNamespaces, JoinNamespaces
  <1>4. ASSUME NEW p \in Pid, ShmCreate(p) \/ ShmOpen(p)
        PROVE  NotCounted' /\ CountIsExact'
    <2>1. \A o \in Pid : Counted(o)' = Counted(o)
      BY <1>4 DEF Counted, ShmCreate, ShmOpen
    <2> QED
      BY <2>1, <1>1, <1>4 DEF ShmCreate, ShmOpen
  <1>5. ASSUME NEW p \in Pid, SemUnlink(p) \/ ShmUnlink(p) \/ EndPost(p) \/ UserExit(p)
        PROVE  NotCounted' /\ CountIsExact'
    <2>1. pc'[p] # "failed"
      BY <1>5 DEF FCore, NoErrorExit
    <2>2. \A o \in Pid : Counted(o)' = Counted(o)
      BY <1>5, <2>1 DEF Counted, SemUnlink, ShmUnlink, EndPost, UserExit
    <2> QED
      BY <2>2, <1>1, <1>5 DEF SemUnlink, ShmUnlink, EndPost, UserExit
  <1>6. ASSUME NEW p \in Pid, WinnerInit(p)
        PROVE  NotCounted' /\ CountIsExact'
    <2>1. shared[p] = p /\ winner_pid[p] = None
      BY <1>6 DEF WinnerInit, FInv, FCore, Winner, OneShm
    <2>2. \A o \in Pid : Counted(o)' = Counted(o)
      BY <1>6 DEF Counted, WinnerInit
    <2>3. Counted(p)' = {}
      BY <2>1, <2>2 DEF FInv, NotCounted
    <2>4. left'[p] = JoinCt[p] - Cardinality(Counted(p)')
      BY <1>6, <2>1, <2>3, FS_EmptySet, JoinCtAssumption DEF WinnerInit
    <2>5. \A o \in Pid \ {p} : left'[o] = left[o] /\ winner_pid'[o] = winner_pid[o]
      BY <1>6, <2>1 DEF WinnerInit
    <2>6. winner_pid'[p] = p
      BY <1>6, <2>1 DEF WinnerInit, FInv
    <2> QED
      BY <2>2, <2>4, <2>5, <2>6 DEF FInv, NotCounted, CountIsExact
  <1>7. ASSUME NEW p \in Pid, Decrement(p)
        PROVE  NotCounted' /\ CountIsExact'
    <2>1. PICK s \in Pid : s = shared[p] /\ winner_pid[s] # None
      BY <1>7, DecrementsFilled DEF Decrement, FInv, FCore, OneShm
    <2>2. pc'[p] # "failed"
      BY <1>7 DEF FCore, NoErrorExit
    <2>3. p \notin Counted(s) /\ Counted(s)' = Counted(s) \cup {p}
      BY <1>7, <2>1, <2>2 DEF Decrement, Counted
    <2>4. \A o \in Pid \ {s} : Counted(o)' = Counted(o) /\ left'[o] = left[o]
      BY <1>7, <2>1 DEF Decrement, Counted
    <2>5. left'[s] = left[s] - 1 /\ winner_pid' = winner_pid
      BY <1>7, <2>1 DEF Decrement, FInv
    <2>6. Cardinality(Counted(s)') = Cardinality(Counted(s)) + 1
      <3>1. IsFiniteSet(Counted(s))
        BY <2>1, CountFacts
      <3>2. Cardinality(Counted(s) \cup {p}) = Cardinality(Counted(s)) + 1
        BY ONLY <3>1, <2>3, FS_AddElement
      <3> QED
        BY ONLY <2>3, <3>2
    <2>7. left'[s] = JoinCt[s] - Cardinality(Counted(s)')
      <3>1. left[s] = JoinCt[s] - Cardinality(Counted(s))
        BY <2>1 DEF FInv, CountIsExact
      <3>2. Cardinality(Counted(s)) \in Nat
        BY <2>1, CountFacts
      <3> QED
        BY <2>1, <2>5, <2>6, <3>1, <3>2, JoinCtAssumption
    <2>8. NotCounted'
      BY <2>1, <2>4, <2>5 DEF FInv, NotCounted
    <2>9. ASSUME NEW o \in Pid, winner_pid'[o] # None
          PROVE  left'[o] = JoinCt[o] - Cardinality(Counted(o)')
      <3>1. CASE o = s
        BY <3>1, <2>7
      <3>2. CASE o # s
        BY <3>2, <2>4, <2>5, <2>9 DEF FInv, CountIsExact
      <3> QED
        BY <3>1, <3>2
    <2> QED
      BY <2>8, <2>9 DEF CountIsExact
  <1> QED
    BY <1>2, <1>3, <1>4, <1>5, <1>6, <1>7 DEF Next, Step, SemTimeout, Crash

-----------------------------------------------------------------------------
(* The theorems of the fault-free rendezvous *)

LEMMA InitFInv == Init => FInv
  <1> SUFFICES ASSUME Init PROVE FInv
    OBVIOUS
  <1>1. FCore
    BY PidAssumption
    DEF Init, FCore, NoErrorExit, InTurn, OneSem, OneShm, Winner, LosersSeeWinner,
        WinnerDone, GroupOfShm, NoShm, LastPeer, Cleaning, MorePeers, CommandsLast,
        SemHasUser, Namespaces, Joining, Holding, Waiting, Before, Done
  <1>2. NotCounted /\ CountIsExact
    BY PidAssumption DEF Init, NotCounted, CountIsExact, Counted
  <1> QED
    BY <1>1, <1>2, InitMInv DEF FInv

LEMMA StepFInv ==
  ASSUME Faults = {}, ExactCt
  PROVE  FInv /\ [Next]_vars => FInv'
  <1> SUFFICES ASSUME FInv, [Next]_vars PROVE FInv'
    OBVIOUS
  <1>1. MInv'
    BY StepMInv DEF FInv
  <1>2. FCore'
    <2>1. CASE UNCHANGED vars
      BY <2>1
      DEF vars, FInv, FCore, NoErrorExit, InTurn, OneSem, OneShm, Winner, LosersSeeWinner,
          WinnerDone, GroupOfShm, NoShm, LastPeer, Cleaning, MorePeers, CommandsLast,
          SemHasUser, Namespaces
    <2>2. CASE Next
      BY <2>2, <1>1, SemOpenCore, SemWaitCore, ShmCreateCore, ShmOpenCore, LoserPostCore,
         SetupNamespacesCore, JoinNamespacesCore, WinnerInitCore, DecrementCore,
         SemUnlinkCore, ShmUnlinkCore, EndPostCore, UserExitCore
      DEF Next, Step, SemTimeout, Crash
    <2> QED
      BY <2>1, <2>2
  <1> QED
    BY <1>1, <1>2, CountStep DEF FInv

\* For any number of processes in any number of groups that use the tag in
\* turn, each with its true size as --join-ct, and without faults: a loser
\* that joins finds the PID of its own group's winner, filled in
\* (join_namespaces).
THEOREM Rendezvous ==
  ASSUME Faults = {}, ExactCt
  PROVE  Spec => []LosersSeeWinner
  <1>1. FInv => LosersSeeWinner
    BY DEF FInv, FCore
  <1> QED
    BY <1>1, InitFInv, StepFInv, PTL DEF Spec

\* Under the same assumptions proc_left_ct is exact at every step of join_end.
THEOREM CountExact ==
  ASSUME Faults = {}, ExactCt
  PROVE  Spec => []CountIsExact
  <1>1. FInv => CountIsExact
    BY DEF FInv, FCore
  <1> QED
    BY <1>1, InitFInv, StepFInv, PTL DEF Spec

\* Under the same assumptions no ch-run of any group exits with an error in
\* join_begin, join_namespaces or join_end.
THEOREM NobodyFails ==
  ASSUME Faults = {}, ExactCt
  PROVE  Spec => []NoErrorExit
  <1>1. FInv => NoErrorExit
    BY DEF FInv, FCore
  <1> QED
    BY <1>1, InitFInv, StepFInv, PTL DEF Spec

\* Under the same assumptions the semaphore and the segment are gone from
\* /dev/shm whenever no group is in the middle of its rendezvous.
THEOREM CleanAfterwards ==
  ASSUME Faults = {}, ExactCt
  PROVE  Spec => []IPCClean
  <1>1. FInv => IPCClean
    <2> SUFFICES ASSUME FInv,
                        \A p \in Pid : \/ pc[p] \in Gone
                                       \/ \A q \in Peers(p) : pc[q] = "start"
                 PROVE  semName = None /\ shmName = None
      BY DEF IPCClean
    <2>1. shmName = None
      <3> SUFFICES ASSUME shmName # None PROVE FALSE
        OBVIOUS
      <3>1. shmName \in Pid /\ pc[shmName] # "start"
        BY DEF FInv, FCore, MInv, TypeOK, Winner
      <3>2. PICK q \in Pid : Group[q] = Group[shmName] /\ pc[q] \notin Done
        BY DEF FInv, FCore, GroupOfShm
      <3> QED
        BY <3>1, <3>2 DEF FInv, FCore, NoErrorExit, Peers, Gone, Done
    <2>2. semName = None
      <3> SUFFICES ASSUME semName # None PROVE FALSE
        OBVIOUS
      <3>1. semName \in Pid /\ pc[semName] \in {"wait_begin", "locked"}
        BY <2>1 DEF FInv, FCore, MInv, TypeOK, SemHasUser
      <3> QED
        BY <3>1 DEF Peers, Gone
    <2> QED
      BY <2>1, <2>2
  <1> QED
    BY <1>1, InitFInv, StepFInv, PTL DEF Spec

\* Under the same assumptions Join implements PeerGroup: each peer group gets
\* one container of its own.
THEOREM Implements ==
  ASSUME Faults = {}, ExactCt
  PROVE  Spec => OneContainerPerGroup
  <1>1. Init => PG!Init
    BY DEF Init, PG!Init
  <1>2. FInv /\ [Next]_vars => [PG!Next]_PG!vars
    <2> SUFFICES ASSUME FInv, Next, ns' # ns PROVE PG!Next
      BY DEF vars, PG!vars
    <2> USE DEF FInv, FCore, MInv, TypeOK
    <2>1. PICK p \in Pid : SetupNamespaces(p) \/ JoinNamespaces(p)
      BY DEF Next, Step, SemOpen, SemWait, SemTimeout, ShmCreate, ShmOpen, LoserPost,
             WinnerInit, Decrement, SemUnlink, ShmUnlink, EndPost, UserExit, Crash
    <2>2. ASSUME SetupNamespaces(p) PROVE PG!Create(p)
      <3>1. pc[p] = "setup" /\ shmName = p /\ winner_pid[p] = None
        BY <2>2 DEF SetupNamespaces, Winner
      <3>2. ASSUME NEW q \in Pid, Group[q] = Group[p] PROVE ns[q] = None
        <4>1. CASE pc[q] \in Before \cup {"exists", "lost", "join", "setup"}
          BY <4>1 DEF Namespaces
        <4>2. pc[q] \notin Done
          <5>1. Counted(p) = {}
            BY <3>1 DEF NotCounted
          <5>2. pc[q] \in Done => shared[q] = p
            BY <3>1, <3>2, PidAssumption DEF GroupOfShm
          <5> QED
            BY <5>1, <5>2 DEF Counted, Done
        <4>3. pc[q] \notin Holding \/ q = p
          <5>1. ASSUME pc[q] \in Holding, q # p PROVE sem[q] = sem[p]
            BY <3>1, <5>1 DEF OneSem, Joining, Holding
          <5> QED
            BY <5>1, <3>1 DEF MutualExclusion, Holding
        <4>4. pc[q] # "wait_end"
          BY <3>1, PidAssumption DEF WinnerDone, OneShm
        <4> QED
          BY <3>1, <4>1, <4>2, <4>3, <4>4
          DEF NoErrorExit, Before, Done, Joining, Holding, Waiting, Gone
      <3> QED
        BY <2>2, <3>2 DEF SetupNamespaces, PG!Create
    <2>3. ASSUME JoinNamespaces(p) PROVE PG!Enter(p)
      <3> DEFINE w == winner_pid[shared[p]]
      <3>1. pc[p] = "join" /\ ns[p] = None
        BY <2>3 DEF JoinNamespaces, Namespaces
      <3>2. shared[p] \in Pid /\ w = shared[p] /\ Group[w] = Group[p]
        BY <3>1, PidAssumption DEF LosersSeeWinner, Winner, ShmMapped
      <3>3. ns[w] = w /\ w \in Pid
        BY <3>2, <3>1 DEF Namespaces, LosersSeeWinner
      <3>4. ns' = [ns EXCEPT ![p] = ns[w]]
        BY <2>3 DEF JoinNamespaces
      <3> QED
        BY <3>1, <3>2, <3>3, <3>4, PidAssumption DEF PG!Enter
    <2> QED
      BY <2>1, <2>2, <2>3 DEF PG!Next
  <1> QED
    BY <1>1, <1>2, InitFInv, StepFInv, PTL DEF Spec, OneContainerPerGroup, PG!Spec
=============================================================================
