----------------------------- MODULE BuildCache -----------------------------
(***************************************************************************)
(* Enabled_Cache, the Git-based build cache of ch-image                    *)
(* (lib/build_cache.py): one operator per method, from the state R of      *)
(* storage before the call to its state after.  R is a record:             *)
(*   ready, unready, tag   the branches "r" and "r#" and the tag "&r"      *)
(*   rlog, ulog, log       their reflogs, and the reflog of HEAD           *)
(*   wt                    the unpack directories (see PlainDir)           *)
(*                                                                         *)
(* A commit is the sequence of layers from the root commit to it, so its   *)
(* ancestors are its prefixes.  A layer holds the state ID in the commit   *)
(* message and the content of the image: files (tree), environment (env)   *)
(* and history (hist), each as the sequence of inputs that produced it.    *)
(* A state ID is the sequence of inputs that were hashed into it.          *)
(***************************************************************************)
EXTENDS Integers, Sequences, FiniteSets

CONSTANTS Ref,    \* image references
          None

-----------------------------------------------------------------------------
(* State IDs, content and commits *)

\* Inputs hashed into state IDs by State_ID.from_parent.
PullOf(v)   == [op |-> "pull", arg |-> v]
ImportOf(r) == [op |-> "import", arg |-> r]

\* Input i, executed with result o.
Done(i, o) == [in |-> i, out |-> o]

Tip(c)       == c[Len(c)]
Ancestors(c) == {SubSeq(c, 1, k) : k \in 1 .. Len(c)}

\* bootstrap: the empty root commit, and a repository with nothing else.
Root == <<[sid |-> <<>>, tree |-> <<>>, env |-> <<>>, hist |-> <<>>]>>

EmptyRepo ==
    LET none == [r \in Ref |-> None]
        nolog == [r \in Ref |-> {}]
    IN [ready |-> none, unready |-> none, tag |-> none, wt |-> none,
        rlog |-> nolog, ulog |-> nolog, log |-> {}]

-----------------------------------------------------------------------------
(* Git, as used by Enabled_Cache *)

\* wt[r] is the unpack directory of image r, None if it does not exist.  A
\* plain directory is not linked.  dirt: what is in the files but not in HEAD.
PlainDir(tree, env, hist) ==
    [linked |-> FALSE, on |-> "detached", head |-> Root, log |-> {},
     dirt |-> tree, env |-> env, hist |-> hist]

\* worktree_head: the commit HEAD of image r resolves to.
WorktreeHead(R, r) ==
    IF R.wt[r].on = "ready" THEN R.ready[r]
    ELSE IF R.wt[r].on = "unready" THEN R.unready[r]
    ELSE R.wt[r].head

Linked(R, r) == R.wt[r] # None /\ R.wt[r].linked
Plain(R, r)  == R.wt[r] # None /\ ~R.wt[r].linked

Some(c) == {c} \ {None}

\* Everything "git log --all --reflog" starts from.
LogRoots(R) ==
    {Root} \cup R.log
      \cup UNION {   Some(R.ready[r]) \cup Some(R.unready[r]) \cup Some(R.tag[r])
                  \cup R.rlog[r] \cup R.ulog[r]
                  \cup (IF Linked(R, r) THEN R.wt[r].log \cup {WorktreeHead(R, r)} ELSE {})
                  : r \in Ref }

Reachable(R) == UNION {Ancestors(c) : c \in LogRoots(R)}

Matching(cs, sid) == {c \in cs : Tip(c).sid = sid}

\* Mutant: the whole repository is searched at once.
FindSidAnywhere(R, mode, sid, r) ==
    IF mode = "rebuild" THEN {} ELSE Matching(Reachable(R), sid)

\* find_sid: the image's own branch first, then the whole repository, newest
\* first; any of the matching commits may be the newest.  Rebuild_Cache never
\* finds anything.
FindSid(R, mode, sid, r) ==
    LET own == IF R.ready[r] = None THEN {}
               ELSE Matching(Ancestors(R.ready[r]), sid)
    IN IF mode = "rebuild" THEN {}
       ELSE IF own # {} THEN own ELSE Matching(Reachable(R), sid)

\* "git checkout -B BRANCH c" in the worktree of r, which keeps local changes.
SwitchUnready(R, r, c) ==
    LET w == R.wt[r]
        h == Tip(WorktreeHead(R, r))
        clean == w.env = h.env /\ w.hist = h.hist
    IN [R EXCEPT
        !.unready[r] = c,
        !.ulog[r] = @ \cup {c} \cup Some(R.unready[r]),
        !.wt[r] = [w EXCEPT !.on = "unready",
                            !.log = @ \cup {c, WorktreeHead(R, r)},
                            !.env = IF clean THEN Tip(c).env ELSE @,
                            !.hist = IF clean THEN Tip(c).hist ELSE @]]

\* Git refuses to overwrite modified or untracked files.
SwitchOK(R, r, c) ==
    LET w == R.wt[r]
        h == Tip(WorktreeHead(R, r))
    IN /\ \/ w.env = h.env /\ w.hist = h.hist
          \/ Tip(c).env = h.env /\ Tip(c).hist = h.hist
       /\ \A i \in DOMAIN w.dirt, j \in DOMAIN Tip(c).tree :
             w.dirt[i].in # Tip(c).tree[j].in

\* "git worktree add -f -B BRANCH PATH c": a fresh worktree.
NewWorktree(R, r, c) ==
    [R EXCEPT
        !.unready[r] = c,
        !.ulog[r] = @ \cup {c} \cup Some(R.unready[r]),
        !.wt[r] = [linked |-> TRUE, on |-> "unready", head |-> Root, log |-> {c},
                   dirt |-> <<>>, env |-> Tip(c).env, hist |-> Tip(c).hist]]

-----------------------------------------------------------------------------
(* Enabled_Cache *)

\* Mutant: an image that is already there is taken as it is.
WorktreeAddKeeping(R, r, c) ==
    IF Linked(R, r) THEN R ELSE NewWorktree(R, r, c)

\* worktree_add(image, c) where c is a commit hash.
WorktreeAdd(R, r, c) ==
    IF ~Linked(R, r) THEN NewWorktree(R, r, c)
    ELSE IF WorktreeHead(R, r) = c THEN R                     \* already checked out
    ELSE SwitchUnready(R, r, c)

\* checkout fails, and with it the command, if Git refuses.
CheckoutOK(R, r, c) == Linked(R, r) /\ WorktreeHead(R, r) # c => SwitchOK(R, r, c)

\* worktree_adopt(image, "root"): keep the plain directory's content.
WorktreeAdopt(R, r) ==
    LET N == NewWorktree(R, r, Root)
    IN [N EXCEPT !.wt[r].dirt = R.wt[r].dirt,
                 !.wt[r].env = R.wt[r].env,
                 !.wt[r].hist = R.wt[r].hist]

\* Mutant: new files are never added.
LayerOfTracked(R, r, sid, files) ==
    [sid  |-> sid,
     tree |-> Tip(WorktreeHead(R, r)).tree,
     env  |-> R.wt[r].env,
     hist |-> R.wt[r].hist]

\* The layer that "git add" and "git commit" make of r's directory: all of
\* it, or (files given) ch/metadata.json and ch/environment only.
LayerOf(R, r, sid, files) ==
    LET w == R.wt[r] IN
    [sid  |-> sid,
     tree |-> Tip(WorktreeHead(R, r)).tree \o (IF files THEN <<>> ELSE w.dirt),
     env  |-> w.env,
     hist |-> w.hist]

\* commit: moves whatever HEAD is on.
Commit(R, r, sid, files) ==
    LET w == R.wt[r]
        c == Append(WorktreeHead(R, r), LayerOf(R, r, sid, files))
    IN [R EXCEPT
        !.ready[r] = IF w.on = "ready" THEN c ELSE @,
        !.rlog[r] = IF w.on = "ready" THEN @ \cup {c} ELSE @,
        !.unready[r] = IF w.on = "unready" THEN c ELSE @,
        !.ulog[r] = IF w.on = "unready" THEN @ \cup {c} ELSE @,
        !.wt[r] = [w EXCEPT !.head = IF w.on = "detached" THEN c ELSE @,
                            !.log = @ \cup {c},
                            !.dirt = IF files THEN @ ELSE <<>>]]

\* branch_delete of the unready branch: its tip stays in HEAD's reflog.
UnreadyDelete(R, r) ==
    [R EXCEPT !.log = @ \cup Some(R.unready[r]),
              !.unready[r] = None,
              !.ulog[r] = {}]

\* ready: drop the undelete tag, move the ready branch to HEAD, delete the
\* unready branch.
MakeReady(R, r) ==
    LET h == WorktreeHead(R, r) IN
    UnreadyDelete([R EXCEPT !.tag[r] = None,
                            !.ready[r] = h,
                            !.rlog[r] = @ \cup {h} \cup Some(R.ready[r]),
                            !.wt[r].on = "ready",
                            !.wt[r].log = @ \cup {h}], r)

\* checkout_ready
CheckoutReady(R, r, c) == MakeReady(WorktreeAdd(R, r, c), r)

\* adopt: put a plain directory into the cache.
Adopt(R, r) ==
    MakeReady(Commit(WorktreeAdopt(R, r), r, <<ImportOf(r)>>, FALSE), r)

\* unpack_delete detaches HEAD first, so it fails on a plain directory whose
\* image is in the cache, and when Git refuses the checkout.
UnpackDeleteOK(R, r) ==
    R.wt[r] # None /\ R.ready[r] # None =>
        Linked(R, r) /\ (WorktreeHead(R, r) # R.ready[r] => SwitchOK(R, r, R.ready[r]))

\* unpack_delete, with the worktree's own data that worktrees_fix prunes.
UnpackDelete(R, r) == [R EXCEPT !.wt[r] = None]

\* Mutant: the branch goes, and nothing else remembers its commits.
BranchDeleteForgetting(R, r) ==
    [R EXCEPT !.ready[r] = None, !.rlog[r] = {}]

\* branch_delete of a ready branch: tag it, log the tips in HEAD's reflog,
\* delete it and its unready branch.  Nothing if there is no such branch.
BranchDelete(R, r) ==
    IF R.ready[r] = None THEN R
    ELSE UnreadyDelete([R EXCEPT !.tag[r] = R.ready[r],
                                 !.log = @ \cup {R.ready[r]},
                                 !.ready[r] = None,
                                 !.rlog[r] = {}], r)

\* branch_nocheckout: ready branch src points where dest does.
BranchNocheckout(R, src, dest) ==
    [R EXCEPT !.ready[src] = R.ready[dest],
              !.rlog[src] = @ \cup {R.ready[dest]} \cup Some(R.ready[src]),
              !.wt[src] = IF @ = None THEN @
                          ELSE [@ EXCEPT !.head = WorktreeHead(R, src),
                                         !.on = "detached"]]

\* pull_lazy: unpack manifest v into r and commit it on root.
PullLazy(R, r, src, v) ==
    LET p == <<PullOf(v)>>
        U == [R EXCEPT !.wt[r] = PlainDir(<<Done(PullOf(v), 0)>>, p, p)]
        P == MakeReady(Commit(WorktreeAdopt(U, r), r, p, FALSE), r)
    IN IF src = r \/ Plain(P, src) THEN P ELSE BranchNocheckout(P, src, r)

\* rollback: reset --hard, clean, restore.
Rollback(R, r) ==
    [R EXCEPT !.wt[r].dirt = <<>>,
              !.wt[r].env = Tip(WorktreeHead(R, r)).env,
              !.wt[r].hist = Tip(WorktreeHead(R, r)).hist]

\* garbageinate: every reflog expires; what no name leads to is gone.
Garbageinate(R) ==
    [R EXCEPT !.log = {},
              !.rlog = [r \in Ref |-> {}],
              !.ulog = [r \in Ref |-> {}],
              !.wt = [r \in Ref |-> IF R.wt[r] = None THEN None
                                    ELSE [R.wt[r] EXCEPT !.log = {}]]]

\* reset: linked images go, plain ones stay; a new repository.
ResetCache(R) ==
    [EmptyRepo EXCEPT !.wt = [r \in Ref |-> IF Plain(R, r) THEN R.wt[r] ELSE None]]
=============================================================================
