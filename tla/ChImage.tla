------------------------------- MODULE ChImage -------------------------------
(***************************************************************************)
(* The ch-image commands that drive the build cache: build (lib/build.py), *)
(* pull (lib/pull.py), import, delete, undelete, build-cache --gc and      *)
(* --reset (lib/misc.py).  The storage lock allows one command at a time,  *)
(* so two commands never interleave, but a command may fail, be            *)
(* interrupted or be killed between its steps, and the next one finds      *)
(* storage as it was left.                                                 *)
(***************************************************************************)
EXTENDS BuildCache

CONSTANTS
    Registry,    \* [Ref -> Nat]: number of manifests pushed for each, 0: none
    Dockerfile,  \* set of sequences of stages [tag, from, insts]
    Stages,      \* [Ref -> SUBSET Ref]: the "_stageN" images of a tag
    PullArgs,    \* set of <<source, destination>>
    ImportArgs,  \* set of destinations
    Mode,        \* cache modes, a subset of {"enabled", "rebuild"}
    Outcome,     \* what a RUN may produce (a clock, the network...), and
                 \* what may be imported under one name
    Faults,      \* faults that may happen, a subset of FaultKind
    MaxCmds      \* bound on the number of commands

FaultKind == {"fail",       \* an instruction or a download fails
              "interrupt",  \* SIGINT or SIGTERM, turned into Fatal_Error
              "kill"}       \* SIGKILL or power failure: no handler runs

ASSUME RegistryAssumption == Registry \in [Ref -> Nat]
ASSUME StagesAssumption   == Stages \in [Ref -> SUBSET Ref]
ASSUME ModeAssumption     == Mode \subseteq {"enabled", "rebuild"}
ASSUME FaultsAssumption   == Faults \subseteq FaultKind
ASSUME BoundAssumption    == MaxCmds \in Nat

\* The instructions of the Dockerfiles, and everything hashed into state IDs.
Insts == UNION {UNION {{d[k].insts[l] : l \in DOMAIN d[k].insts}
                       : k \in DOMAIN d} : d \in Dockerfile}
Input == [op : {"pull"}, arg : Nat] \cup [op : {"import"}, arg : Ref] \cup Insts
Files == Seq([in : Input, out : Outcome \cup {0}])
Layer == [sid : Seq(Input), tree : Files, env : Seq(Input), hist : Seq(Input)]
Commits == Seq(Layer) \ {<<>>}
Worktree == [linked : BOOLEAN, on : {"ready", "unready", "detached"},
             head : Commits, log : SUBSET Commits, dirt : Files,
             env : Seq(Input), hist : Seq(Input)]

\* A Dockerfile has at least one stage, and what is hashed for an instruction
\* is not what is hashed for a pull or an import.  The commands name images,
\* and None is neither an image, nor a commit, nor an unpack directory.
ASSUME DockerfileAssumption ==
    Dockerfile \subseteq Seq([tag : Ref, from : Ref, insts : Seq(Insts)]) \ {<<>>}
ASSUME InstsAssumption == \A i \in Insts : i.op \notin {"pull", "import"}
ASSUME ArgsAssumption == PullArgs \subseteq Ref \X Ref /\ ImportArgs \subseteq Ref
ASSUME NoneAssumption == None \notin Ref /\ None \notin Commits /\ None \notin Worktree

VARIABLES
    repo,    \* storage: the repository and the unpacked images
    cmd,     \* the command in progress
    remote,  \* [Ref -> Nat]: the manifest each repository now serves
    ncmds    \* commands so far

vars == <<repo, cmd, remote, ncmds>>

Idle ==
    [at |-> "idle", mode |-> None, stages |-> <<>>, tag |-> None,
     insts |-> <<>>, sid |-> <<>>, hash |-> None, miss |-> 0,
     env |-> <<>>, hist |-> <<>>, todo |-> {}]

Init ==
    /\ repo = EmptyRepo
    /\ cmd = Idle
    /\ remote = [r \in Ref |-> IF Registry[r] > 0 THEN 1 ELSE 0]
    /\ ncmds = 0

\* A new process starts, finds storage unlocked and takes the lock.
Start ==
    /\ cmd = Idle
    /\ ncmds < MaxCmds
    /\ ncmds' = ncmds + 1

End  == cmd' = Idle /\ UNCHANGED <<remote, ncmds>>
Goes == UNCHANGED <<remote, ncmds>>

IsEnv(i) == i.op \in {"env", "pull"}

-----------------------------------------------------------------------------
(* build *)

Inst == Head(cmd.insts)

\* Where the traversal of the parse tree goes next.
After(insts, stages) ==
    IF insts # <<>> THEN "prepare" ELSE IF Len(stages) > 1 THEN "from" ELSE "finish"

BuildStart(d, m) ==
    /\ Start
    /\ cmd' = [Idle EXCEPT !.at = "from", !.mode = m, !.stages = d]
    /\ UNCHANGED <<repo, remote>>

\* Close a stage: check out the last instruction unless a miss already did,
\* then mark the image ready.
CloseOK(R) == cmd.tag # None /\ cmd.miss = 0 => CheckoutOK(R, cmd.tag, cmd.hash)
Close(R) ==
    IF cmd.tag = None THEN R
    ELSE IF cmd.miss = 0 THEN CheckoutReady(R, cmd.tag, cmd.hash)
    ELSE MakeReady(R, cmd.tag)

\* From__G.prepare finds its base in the cache, adopts a plain directory, or
\* pulls.
BaseOK(R, base) == R.ready[base] # None \/ Plain(R, base) \/ remote[base] > 0
Base(R, base) ==
    IF R.ready[base] # None THEN R
    ELSE IF Plain(R, base) THEN Adopt(R, base)
    ELSE PullLazy(R, base, base, remote[base])

\* Metadata is loaded from the base's unpack directory, whatever is there.
DirEnv(R, r)  == IF R.wt[r] = None THEN <<>> ELSE R.wt[r].env
DirHist(R, r) == IF R.wt[r] = None THEN <<>> ELSE R.wt[r].hist

\* The stages left once the current one is begun: its own entry stays first.
Begun == IF cmd.tag = None THEN cmd.stages ELSE Tail(cmd.stages)

From ==
    LET stage == Head(Begun)
        R == Base(Close(repo), stage.from)
    IN /\ cmd.at = "from"
       /\ stage.from # stage.tag
       /\ CloseOK(repo)
       /\ BaseOK(Close(repo), stage.from)
       /\ repo' = R
       /\ cmd' = [cmd EXCEPT
                    !.at = After(stage.insts, Begun),
                    !.stages = Begun,
                    !.tag = stage.tag,
                    !.insts = stage.insts,
                    !.hash = R.ready[stage.from],
                    !.sid = Tip(R.ready[stage.from]).sid,
                    !.miss = 0,
                    !.env = DirEnv(R, stage.from),
                    !.hist = DirHist(R, stage.from)]
       /\ Goes

\* prepare_rollback deletes both unpack directories; if it cannot delete the
\* first it does not get to the second.
PrepareRollback(R, base, tag) ==
    IF ~UnpackDeleteOK(R, base) THEN R
    ELSE LET B == UnpackDelete(R, base)
         IN IF UnpackDeleteOK(B, tag) THEN UnpackDelete(B, tag) ELSE B

\* Fatal_Error in From__G.prepare, before or after the previous stage was
\* closed: an image that is its own base, Git refuses the checkout, no base
\* image, a failed download, or a signal.
FromFails ==
    LET stage == Head(Begun)
    IN /\ cmd.at = "from"
       /\ \/ /\ stage.from = stage.tag \/ ~CloseOK(repo) \/ "interrupt" \in Faults
             /\ repo' = PrepareRollback(repo, stage.from, stage.tag)
          \/ /\ stage.from # stage.tag /\ CloseOK(repo)
             /\ \/ ~BaseOK(Close(repo), stage.from)
                \/ "interrupt" \in Faults
                \/ /\ "fail" \in Faults
                   /\ Close(repo).ready[stage.from] = None
             /\ repo' = PrepareRollback(Close(repo), stage.from, stage.tag)
       /\ End

\* sid_from_parent
NextSid(sid, i) == Append(sid, i)

\* ENV updates the metadata in prepare, on a hit as well.
EnvAfter(i) == IF IsEnv(i) THEN Append(cmd.env, i) ELSE cmd.env

\* Mutant: the hit's commit is not remembered.
HitForgets(c) ==
    cmd' = [cmd EXCEPT !.at = After(Tail(cmd.insts), cmd.stages),
                       !.insts = Tail(@),
                       !.sid = NextSid(@, Inst),
                       !.env = EnvAfter(Inst)]

Hit(c) ==
    cmd' = [cmd EXCEPT !.at = After(Tail(cmd.insts), cmd.stages),
                       !.insts = Tail(@),
                       !.sid = NextSid(@, Inst),
                       !.hash = c,
                       !.env = EnvAfter(Inst)]

\* Instruction.prepare and, for the first miss, checkout_for_build.  Nothing
\* is rolled back if that checkout fails.
Prepare ==
    LET hits == FindSid(repo, cmd.mode, NextSid(cmd.sid, Inst), cmd.tag)
        first == cmd.miss = 0
    IN /\ cmd.at = "prepare"
       /\ IF hits # {}
          THEN /\ \E c \in hits : Hit(c)
               /\ UNCHANGED repo
          ELSE IF first /\ ~CheckoutOK(repo, cmd.tag, cmd.hash)
          THEN cmd' = Idle /\ UNCHANGED repo
          ELSE /\ repo' = IF first THEN WorktreeAdd(repo, cmd.tag, cmd.hash)
                          ELSE repo
               /\ cmd' = [cmd EXCEPT !.at = "execute",
                                     !.miss = @ + 1,
                                     !.env = EnvAfter(Inst)]
       /\ Goes

\* What executing the instruction (in part or in full) does to the files.
\* ENV writes ch/environment, which changes together with the metadata here.
Executed(R, o) ==
    IF IsEnv(Inst) THEN R
    ELSE [R EXCEPT !.wt[cmd.tag].dirt = Append(@, Done(Inst, o))]

Execute ==
    /\ cmd.at = "execute"
    /\ \E o \in Outcome : repo' = Executed(repo, o)
    /\ cmd' = [cmd EXCEPT !.at = "commit"]
    /\ Goes

\* The instruction fails, or a signal arrives while it runs, when it has done
\* something or nothing: roll back.
ExecuteFails ==
    /\ cmd.at = "execute"
    /\ Faults \cap {"fail", "interrupt"} # {}
    /\ \E o \in Outcome : repo' \in {Rollback(R, cmd.tag) : R \in {repo, Executed(repo, o)}}
    /\ End

\* metadata_update and commit.
CommitInst ==
    LET hist == Append(cmd.hist, Inst)
        W == [repo EXCEPT !.wt[cmd.tag].env = cmd.env, !.wt[cmd.tag].hist = hist]
        R == Commit(W, cmd.tag, NextSid(cmd.sid, Inst), IsEnv(Inst))
    IN /\ cmd.at = "commit"
       /\ repo' = R
       /\ cmd' = [cmd EXCEPT !.at = After(Tail(cmd.insts), cmd.stages),
                             !.insts = Tail(@),
                             !.sid = NextSid(@, Inst),
                             !.hash = WorktreeHead(R, cmd.tag),
                             !.hist = hist]
       /\ Goes

\* End of parse_tree_traverse.
Finish ==
    /\ cmd.at = "finish"
    /\ repo' = IF CloseOK(repo) THEN Close(repo) ELSE repo
    /\ End

\* A signal where nothing is rolled back, or SIGKILL between two steps.
Abandon ==
    /\ \/ "interrupt" \in Faults /\ cmd.at \in {"prepare", "commit", "finish"}
       \/ "kill" \in Faults /\ cmd.at # "idle"
    /\ End
    /\ UNCHANGED repo

\* SIGKILL while an instruction runs.
KillExecute ==
    /\ "kill" \in Faults
    /\ cmd.at = "execute"
    /\ \E o \in Outcome : repo' = Executed(repo, o)
    /\ End

-----------------------------------------------------------------------------
(* The other commands *)

\* pull_eager
Pull(src, dst, m) ==
    LET v == remote[src]
        hits == FindSid(repo, m, <<PullOf(v)>>, dst)
    IN /\ Start
       /\ v > 0
       /\ \/ \E c \in hits : /\ CheckoutOK(repo, dst, c)
                             /\ repo' = CheckoutReady(repo, dst, c)
          \/ /\ hits = {}
             /\ UnpackDeleteOK(repo, dst)
             /\ repo' = PullLazy(repo, dst, src, v)
       /\ UNCHANGED <<cmd, remote>>

\* import: the directory is replaced, adopted, and (having no history) given
\* one after the commit.  What is imported is not hashed into the state ID.
Imported(r, o, hist) ==
    [repo EXCEPT !.wt[r] = PlainDir(<<Done(ImportOf(r), o)>>, <<>>, hist)]

Import(r) ==
    /\ Start
    /\ \E o \in Outcome :
          repo' = [Adopt(Imported(r, o, <<>>), r) EXCEPT !.wt[r].hist = <<ImportOf(r)>>]
    /\ UNCHANGED <<cmd, remote>>

\* The same with --no-cache: the repository is not touched.
ImportNoCache(r) ==
    /\ Start
    /\ \E o \in Outcome : repo' = Imported(r, o, <<ImportOf(r)>>)
    /\ UNCHANGED <<cmd, remote>>

\* delete: the image and its stages, one after the other, as far as they have
\* unpack directories; the first that cannot be deleted ends the command.
Deletable(r) == {q \in {r} \cup Stages[r] : repo.wt[q] # None}

DeleteStart(r) ==
    /\ Start
    /\ Deletable(r) # {}
    /\ cmd' = [Idle EXCEPT !.at = "delete", !.todo = Deletable(r)]
    /\ UNCHANGED <<repo, remote>>

DeleteImage(q) ==
    /\ cmd.at = "delete"
    /\ q \in cmd.todo
    /\ repo' = IF UnpackDeleteOK(repo, q) THEN BranchDelete(UnpackDelete(repo, q), q)
               ELSE repo
    /\ cmd' = IF UnpackDeleteOK(repo, q) /\ cmd.todo # {q}
              THEN [cmd EXCEPT !.todo = @ \ {q}] ELSE Idle
    /\ Goes

\* undelete (mode enabled only)
Undelete(r) ==
    /\ Start
    /\ repo.wt[r] = None
    /\ repo.tag[r] # None
    /\ repo' = CheckoutReady(repo, r, repo.tag[r])
    /\ UNCHANGED <<cmd, remote>>

\* build-cache --gc and --reset
Gc    == Start /\ repo' = Garbageinate(repo) /\ UNCHANGED <<cmd, remote>>
Reset == Start /\ repo' = ResetCache(repo) /\ UNCHANGED <<cmd, remote>>

\* Somebody pushes a newer image (external).
Push(r) ==
    /\ remote[r] < Registry[r]
    /\ remote' = [remote EXCEPT ![r] = @ + 1]
    /\ UNCHANGED <<repo, cmd, ncmds>>

Next ==
    \/ \E d \in Dockerfile, m \in Mode : BuildStart(d, m)
    \/ From \/ FromFails \/ Prepare \/ Execute \/ ExecuteFails
    \/ CommitInst \/ Finish \/ Abandon \/ KillExecute
    \/ \E a \in PullArgs, m \in Mode : Pull(a[1], a[2], m)
    \/ \E r \in ImportArgs : Import(r) \/ ImportNoCache(r)
    \/ \E r \in Ref : DeleteStart(r) \/ DeleteImage(r) \/ Undelete(r) \/ Push(r)
    \/ Gc \/ Reset

Spec == Init /\ [][Next]_vars
-----------------------------------------------------------------------------
(* Properties *)

\* Storage and the command in progress have the shape described above, and
\* the HEAD of a worktree is never on a branch that does not exist.
TypeOK ==
    /\ \A b \in {repo.ready, repo.unready, repo.tag} : b \in [Ref -> Commits \cup {None}]
    /\ \A l \in {repo.rlog, repo.ulog} : \A r \in Ref : l[r] \subseteq Commits
    /\ repo.log \subseteq Commits
    /\ \A r \in Ref :
          \/ repo.wt[r] = None
          \/ /\ repo.wt[r] \in Worktree
             /\ repo.wt[r].linked => WorktreeHead(repo, r) # None
    /\ cmd.at \in {"idle", "from", "prepare", "execute", "commit", "finish", "delete"}
    /\ cmd.sid \in Seq(Input) /\ cmd.env \in Seq(Input) /\ cmd.hist \in Seq(Input)
    /\ cmd.miss \in Nat
    /\ cmd.tag \in Ref \cup {None}
    /\ remote \in [Ref -> Nat]
    /\ ncmds \in 0 .. MaxCmds

\* Every commit sits on the commit its state ID was derived from: no sequence
\* of builds, failures and deletions makes "git commit" extend another one.
SidIsPath ==
    \A c \in Reachable(repo) : \A k \in 2 .. Len(c) :
        /\ Len(c[k].sid) = k - 1
        /\ SubSeq(c[k].sid, 1, k - 2) = c[k-1].sid

\* While an instruction executes, the HEAD of its image is the commit of the
\* previous instruction, whatever state earlier commands left the image in.
WorktreeOnParent ==
    cmd.at \in {"execute", "commit"}
    => Linked(repo, cmd.tag) /\ WorktreeHead(repo, cmd.tag) = cmd.hash

\* The files of a commit are those of its parent and what executing the last
\* input of its state ID made of them, so from the empty root commit on each
\* input has been executed once and in order: a hit is as good as a miss (for
\* an import, of any image that was imported under this name).
Grown(parent, layer) ==
    LET input == layer.sid[Len(layer.sid)] IN
    IF input.op = "env" THEN layer.tree = parent.tree
    ELSE \E o \in Outcome \cup {0} : layer.tree = Append(parent.tree, Done(input, o))

TreeFromSid ==
    \A c \in Reachable(repo) :
        /\ c[1].tree = <<>>
        /\ \A k \in 2 .. Len(c) : Grown(c[k-1], c[k])

\* The environment of a commit is that of the pulled image and of the ENV
\* instructions of its state ID.
EnvFromSid ==
    \A c \in Reachable(repo) : Tip(c).env = SelectSeq(Tip(c).sid, IsEnv)

\* A step that deletes or moves a ready branch leaves its commits where
\* find_sid finds them (doc/ch-image.rst: delete "does not also remove the
\* image from the build cache"); only a reset drops them.
ReadyStaysCached ==
    [][ repo' # ResetCache(repo) =>
        \A r \in Ref : repo.ready[r] # None =>
            Ancestors(repo.ready[r]) \subseteq Reachable(repo') ]_vars

\* A build in which everything hits leaves the image at the commit it is at,
\* if that has the right state ID: a result of --rebuild is not replaced by
\* an older one.
RebuiltStays ==
    [][ /\ cmd.at = "finish" /\ cmd'.at = "idle" /\ cmd.miss = 0
        /\ repo.ready[cmd.tag] # None
        /\ Tip(repo.ready[cmd.tag]).sid = cmd.sid
        => repo'.ready[cmd.tag] = repo.ready[cmd.tag] ]_vars

\* While a build is in progress its image's ready branch does not move ("The
\* old branch remains", test/build/55_cache.bats).
OldBranchRemains ==
    [][ cmd.at \in {"prepare", "execute", "commit"}
        => repo'.ready[cmd.tag] = repo.ready[cmd.tag] ]_vars

\* Every image in storage can be deleted from it.
DeleteWorks ==
    cmd.at = "idle" => \A r \in Ref : UnpackDeleteOK(repo, r)
=============================================================================
