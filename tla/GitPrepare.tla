----------------------------- MODULE GitPrepare -----------------------------
(***************************************************************************)
(* What the build cache does to an image so that Git can store it, and     *)
(* undoes afterwards (class File_Metadata of lib/build_cache.py and the    *)
(* methods of Enabled_Cache that call it: commit, checkout, rollback,      *)
(* garbageinate).  Git keeps neither modes, times, hard links, FIFOs,      *)
(* empty directories nor names in ".git"; large files are kept outside.    *)
(*                                                                         *)
(* A path is the sequence of its components.  A file that is there is a    *)
(* record; links is the set of paths that are hard links to it, so its     *)
(* cardinality is st_nlink; esc: its name is in the escaped form.          *)
(***************************************************************************)
EXTENDS Integers, Sequences, FiniteSets, SequencesExt

CONSTANTS
    Path,        \* paths in the image
    PreOrder,    \* Path, sorted, in the order the walks enter them
    PostOrder,   \* ... and leave them
    GitName,     \* paths whose name starts with ".git"
    DbName,      \* paths that match var/lib/rpm/__db.*
    Images,      \* images to start with
    NewFile,     \* set of <<path, type>> an instruction may create
    Lossy,       \* special cases that may occur, a subset of LossyKind
    KillAt,      \* what a kill may interrupt, a subset of Interruptible
    MaxEdits,    \* bound on changes to files
    MaxCommits,  \* bound on commits
    Store,       \* stands for the large file storage in links
    None

LossyKind == {"db_only",    \* a directory with nothing but RPM databases
              "big_git",    \* a large file with a name in ".git"
              "big_link",   \* a large file with hard links
              "fifo_link"}  \* a FIFO with hard links

ASSUME OrderAssumption ==
    /\ PreOrder \in Seq(Path) /\ IsInjective(PreOrder) /\ ToSet(PreOrder) = Path
    /\ PostOrder \in Seq(Path) /\ IsInjective(PostOrder) /\ ToSet(PostOrder) = Path
ASSUME LossyAssumption == Lossy \subseteq LossyKind

Interruptible == {"prepare",   \* git_prepare for a checkout
                  "commit",    \* what commit does until "git commit" is done
                  "quick", "switch", "restore"}

ASSUME KillAssumption == KillAt \subseteq Interruptible

VARIABLES
    img,      \* the unpack directory: [Path -> file or None]
    pickle,   \* ch/git.pickle in it
    large,    \* large file storage: set of [name, data]
    commits,  \* commits made so far
    head,     \* the one that is checked out, 0: none
    goal,     \* the one being checked out
    before,   \* the image when the commit in progress began
    clean,    \* nothing has changed since the last commit or checkout
    at,       \* what the command in progress does next
    edits

vars == <<img, pickle, large, commits, head, goal, before, clean, at, edits>>

Now == -1    \* a time stamp nobody recorded

Parent(p) == SubSeq(p, 1, Len(p) - 1)
Under(p)  == {q \in Path : Len(q) > Len(p) /\ SubSeq(q, 1, Len(p)) = p}

\* Only regular files and symbolic links have content.
HasContent(type) == type \in {"reg", "big", "lnk"}

File(p, type, data, mode, mtime) ==
    [type |-> type, data |-> IF HasContent(type) THEN data ELSE 0, mode |-> mode, mtime |-> mtime,
     links |-> {p}, esc |-> FALSE]

IsDir(I, p)  == I[p] # None /\ I[p].type = "dir"
HasPlace(I, p) == Len(p) = 1 \/ IsDir(I, Parent(p))

-----------------------------------------------------------------------------
(* System calls *)

\* The directory of p is modified.
Touch(I, p) ==
    [q \in Path |-> IF q = Parent(p) /\ I[q] # None
                    THEN [I[q] EXCEPT !.mtime = Now] ELSE I[q]]

\* p is no longer a link to its file; x (if any) is one instead.
Drop(I, p, x) ==
    Touch([q \in Path |->
             IF q = p \/ I[q] = None THEN None
             ELSE IF p \in I[q].links
             THEN [I[q] EXCEPT !.links = (@ \ {p}) \cup x] ELSE I[q]], p)

Create(I, p, file) == Touch([I EXCEPT ![p] = file], p)

\* link(2)
HardLink(I, p, q) ==
    Touch([r \in Path |-> IF r = p \/ r \in I[q].links
                          THEN [I[q] EXCEPT !.links = @ \cup {p}] ELSE I[r]], p)

-----------------------------------------------------------------------------
(* File_Metadata.git_prepare *)

\* chmod_min
ChmodMin(f) ==
    IF f.type # "lnk" /\ f.mode = "low" THEN [f EXCEPT !.mode = "min"] ELSE f

\* __init__ and chmod_min.  The mode and times of a file are recorded before
\* anything below it is touched.
Recorded(f) ==
    [type |-> f.type, mode |-> ChmodMin(f).mode, mtime |-> f.mtime,
     dont_restore |-> FALSE, hardlink_to |-> None, large_name |-> None]

Unstored(m) ==
    m.type \in {"fifo", "sock"} \/ m.large_name # None \/ m.hardlink_to # None

\* empty_dir_p, with its recursion unrolled.
EmptyDir(fm, p) ==
    /\ fm[p].type = "dir"
    /\ \A q \in Under(p) :
          fm[q] # None => fm[q].type = "dir" \/ Unstored(fm[q])

\* Sockets and RPM databases are deleted for good.
Unrestorable(fm, p) ==
    \/ fm[p].type = "sock"
    \/ p \in DbName /\ fm[p].type # "dir"

\* large_name_get: the file's type stands for its size.
LargeName(fm, p) == <<p, fm[p].type, fm[p].mode, fm[p].mtime>>

Stored(L, n) == \E l \in L : l.name = n

\* large_prepare
LargePrepare(W, p) ==
    LET n == LargeName(W.fm, p)
        found == Stored(W.large, n)
    IN [W EXCEPT
        !.img = Drop(@, p, IF found THEN {} ELSE {Store}),
        !.large = IF found THEN @ ELSE @ \cup {[name |-> n, data |-> W.img[p].data]},
        !.fm[p].large_name = n]

Fail(W) == [W EXCEPT !.err = TRUE]

\* Mutant: FIFOs are left for Git to ignore.
FinishPrepareFifo(W, p) ==
    IF EmptyDir(W.fm, p) THEN [W EXCEPT !.img = Drop(@, p, {})]
    ELSE IF p \notin GitName THEN W
    ELSE IF W.img[p] = None THEN Fail(W)
    ELSE [W EXCEPT !.img = Touch([@ EXCEPT ![p].esc = TRUE], p)]

\* Empty directories and FIFOs are removed, names in ".git" are escaped.
FinishPrepare(W, p) ==
    IF EmptyDir(W.fm, p)
    THEN IF \E q \in Under(p) : W.img[q] # None THEN Fail(W)
         ELSE [W EXCEPT !.img = Drop(@, p, {})]
    ELSE IF W.fm[p].type = "fifo" THEN [W EXCEPT !.img = Drop(@, p, {})]
    ELSE IF p \notin GitName THEN W
    ELSE IF W.img[p] = None THEN Fail(W)
    ELSE [W EXCEPT !.img = Touch([@ EXCEPT ![p].esc = TRUE], p)]

\* What is done to one path, on the way out.  seen: first links so far.
PrepareOne(W, p) ==
    LET nlink == Cardinality(W.img[p].links)
        first == {q \in W.seen : p \in W.inode[q]}
        S == IF nlink > 1 THEN [W EXCEPT !.seen = @ \cup {p}] ELSE W
        L == IF W.fm[p].type = "big" THEN LargePrepare(S, p) ELSE S
    IN IF W.err \/ W.img[p] = None THEN W
       ELSE IF Unrestorable(W.fm, p)
       THEN [W EXCEPT !.img = Drop(@, p, {}), !.fm[p].dont_restore = TRUE]
       ELSE IF W.fm[p].type # "dir" /\ nlink > 1 /\ first # {}
       THEN [W EXCEPT !.img = Drop(@, p, {}),
                      !.fm[p].hardlink_to = CHOOSE q \in first : TRUE]
       ELSE FinishPrepare(L, p)

\* The walk, after each path.
PrepareWalk(I, L) ==
    LET start ==
          [img   |-> [p \in Path |-> IF I[p] = None THEN None ELSE ChmodMin(I[p])],
           fm    |-> [p \in Path |-> IF I[p] = None THEN None ELSE Recorded(I[p])],
           inode |-> [p \in Path |-> IF I[p] = None THEN {} ELSE I[p].links],
           seen  |-> {}, large |-> L, err |-> FALSE]
        walk[j \in 0 .. Len(PostOrder)] ==
          IF j = 0 THEN start ELSE PrepareOne(walk[j - 1], PostOrder[j])
    IN walk

GitPrepare(I, L) == PrepareWalk(I, L)[Len(PostOrder)]

-----------------------------------------------------------------------------
(* File_Metadata.git_restore *)

\* Make p exist, with its right name, unless Git or nobody touched it.
RestoreOne(W, p) ==
    LET m == W.fm[p]
        target == m.hardlink_to
        Made(type) == [W EXCEPT !.img = Create(@, p, File(p, type, 0, "git", Now))]
        Copy(l) == File(p, m.type, l.data, l.name[3], l.name[4])
    IN IF W.err \/ m = None THEN W
       ELSE IF m.dont_restore \/ p \in DbName THEN W
       ELSE IF target # None
       THEN IF W.img[target] = None \/ W.img[p] # None \/ ~HasPlace(W.img, p) THEN Fail(W)
            ELSE [W EXCEPT !.img = HardLink(@, p, target)]
       ELSE IF m.large_name # None
       THEN IF ~Stored(W.large, m.large_name) \/ ~HasPlace(W.img, p) THEN Fail(W)
            ELSE [W EXCEPT !.img = Create(@, p,
                        Copy(CHOOSE l \in W.large : l.name = m.large_name))]
       ELSE IF EmptyDir(W.fm, p) \/ m.type = "fifo"
       THEN IF W.img[p] # None \/ ~HasPlace(W.img, p) THEN Fail(W) ELSE Made(m.type)
       ELSE IF p \notin GitName THEN W
       ELSE IF W.img[p] = None \/ ~W.img[p].esc THEN Fail(W)
       ELSE [W EXCEPT !.img = Touch([@ EXCEPT ![p].esc = FALSE], p)]

\* Mutant: directories are taken to be untouched.
RestampedFiles(fm, quick) ==
    {p \in Path : /\ fm[p] # None
                  /\ ~fm[p].dont_restore /\ p \notin DbName
                  /\ fm[p].type # "lnk"
                  /\ ~quick \/ fm[p].hardlink_to # None \/ fm[p].type = "fifo"}

\* Files whose mode and times are restored, on the way out.
Restamped(fm, quick) ==
    {p \in Path : /\ fm[p] # None
                  /\ ~fm[p].dont_restore /\ p \notin DbName
                  /\ fm[p].type # "lnk"
                  /\ ~quick \/ fm[p].hardlink_to # None \/ fm[p].type \in {"dir", "fifo"}}

Restamp(W, quick) ==
    LET ps == Restamped(W.fm, quick) IN
    IF W.err \/ \E p \in ps : W.img[p] = None THEN Fail(W)
    ELSE [W EXCEPT !.img = [p \in Path |->
            IF p \in ps THEN [W.img[p] EXCEPT !.mode = W.fm[p].mode,
                                              !.mtime = W.fm[p].mtime]
            ELSE W.img[p]]]

Restoring(I, fm) == [img |-> I, fm |-> fm, large |-> large, err |-> FALSE]

RestoreWalk(I, fm) ==
    LET walk[j \in 0 .. Len(PreOrder)] ==
          IF j = 0 THEN Restoring(I, fm) ELSE RestoreOne(walk[j - 1], PreOrder[j])
    IN walk

GitRestore(I, fm, quick) == Restamp(RestoreWalk(I, fm)[Len(PreOrder)], quick)

-----------------------------------------------------------------------------
(* Git *)

Tracked(f) == f # None /\ HasContent(f.type)

\* "git add -A": what Git keeps of a directory.
GitTree(I) ==
    [p \in Path |-> IF Tracked(I[p])
                    THEN [type |-> I[p].type, data |-> I[p].data, esc |-> I[p].esc]
                    ELSE None]

\* A file as Git writes it; directories are made as needed.
Written(T, p) == [File(p, T[p].type, T[p].data, "git", Now) EXCEPT !.esc = T[p].esc]
MadeDir(p)    == [File(p, "dir", 0, "git", Now) EXCEPT !.esc = (p \in GitName)]

\* "git worktree add": tree T in a new directory.
Fresh(T) ==
    [p \in Path |-> IF T[p] # None THEN Written(T, p)
                    ELSE IF \E q \in Under(p) : T[q] # None THEN MadeDir(p)
                    ELSE None]

\* "git checkout -B": from tree T to tree U, in directory I.  What is equal in
\* both is left alone, and so are files that Git does not track.
Switched(I, T, U) ==
    LET new == [p \in Path |-> IF T[p] = U[p] THEN I[p]
                               ELSE IF U[p] # None THEN Written(U, p) ELSE None]
        used(p) == \E q \in Under(p) : new[q] # None /\ new[q].type # "dir"
        emptied(p) == \E q \in Under(p) : T[q] # None /\ U[q] = None
    IN [p \in Path |->
          IF U[p] # None \/ ~(IsDir(new, p) \/ used(p)) THEN new[p]
          ELSE IF ~IsDir(new, p) THEN MadeDir(p)
          ELSE IF emptied(p) /\ ~used(p) THEN None ELSE new[p]]

\* Git refuses to overwrite local changes.
SwitchRefused(I, T, U) ==
    \E p \in Path : T[p] # U[p] /\ I[p] # None /\ GitTree(I)[p] # T[p]

\* "git reset --hard" and "git clean -fd"
ResetHard(I, T) ==
    [p \in Path |-> IF GitTree(I)[p] = T[p] /\ Tracked(I[p]) THEN I[p]
                    ELSE IF IsDir(Fresh(T), p) /\ IsDir(I, p) THEN I[p]
                    ELSE Fresh(T)[p]]

-----------------------------------------------------------------------------
(* Enabled_Cache, and the instructions that change the image in between *)

\* The special cases in image I.
SpecialCases(I) ==
    LET there == {p \in Path : I[p] # None}
        many  == {p \in there : Cardinality(I[p].links) > 1}
        dbs   == {p \in there : IsDir(I, p) /\ \E q \in Under(p) \cap DbName : I[q] # None}
    IN    {"db_only"   : p \in {d \in dbs : \A q \in Under(d) \ DbName :
                                           ~Tracked(I[q]) \/ q \in many \/ I[q].type = "big"}}
     \cup {"big_git"   : p \in {q \in there \cap GitName : I[q].type = "big"}}
     \cup {"big_link"  : p \in {q \in many : I[q].type = "big"}}
     \cup {"fifo_link" : p \in {q \in many : I[q].type = "fifo"}}

Init ==
    /\ img \in {I \in Images : SpecialCases(I) \subseteq Lossy}
    /\ pickle = [p \in Path |-> None]
    /\ large = {}
    /\ commits = <<>>
    /\ head = 0 /\ goal = 0
    /\ before = img
    /\ clean = FALSE
    /\ at = "idle"
    /\ edits = 0

\* An instruction changes one file: it removes, creates, links or writes it,
\* at a time of its own.
Edited ==
    LET t == edits + 1 IN
       {Drop(img, p, {}) : p \in {q \in Path : img[q] # None /\ \A r \in Under(q) : img[r] = None}}
  \cup {Create(img, n[1], File(n[1], n[2], t, "low", t)) :
            n \in {m \in NewFile : img[m[1]] = None /\ HasPlace(img, m[1])}}
  \cup {HardLink(img, e[1], e[2]) :
            e \in {x \in Path \X Path : /\ img[x[1]] = None /\ HasPlace(img, x[1])
                                        /\ img[x[2]] # None /\ img[x[2]].type # "dir"}}
  \cup {[q \in Path |-> IF img[q] # None /\ p \in img[q].links
                         THEN [img[q] EXCEPT !.data = t, !.mtime = t] ELSE img[q]] :
            p \in {q \in Path : img[q] # None /\ img[q].type \in {"reg", "big"}}}

\* Directories changed by the instruction get its time.
Stamped(I) ==
    [p \in Path |-> IF I[p] # None /\ I[p].mtime = Now
                    THEN [I[p] EXCEPT !.mtime = edits + 1] ELSE I[p]]

Edit ==
    /\ at = "idle"
    /\ edits < MaxEdits
    /\ \E I \in Edited : /\ SpecialCases(Stamped(I)) \subseteq Lossy
                         /\ img' = Stamped(I)
    /\ edits' = edits + 1
    /\ clean' = FALSE
    /\ UNCHANGED <<pickle, large, commits, head, goal, before, at>>

\* Step to l, or stop with a fatal error.
Goto(W, l) == at' = IF W.err THEN "fatal" ELSE l

\* commit: git_prepare, which writes the pickle ...
CommitPrepare ==
    LET W == GitPrepare(img, large) IN
    /\ at = "idle"
    /\ Len(commits) < MaxCommits
    /\ before' = img
    /\ img' = W.img /\ large' = W.large /\ pickle' = W.fm
    /\ Goto(W, "commit")
    /\ UNCHANGED <<commits, head, goal, clean, edits>>

\* ... "git add" and "git commit" ...
GitCommit ==
    /\ at = "commit"
    /\ commits' = Append(commits, [tree |-> GitTree(img), fm |-> pickle, image |-> before])
    /\ head' = Len(commits) + 1
    /\ at' = "quick"
    /\ UNCHANGED <<img, pickle, large, goal, before, clean, edits>>

\* ... and a quick git_restore.
RestoreQuick ==
    LET W == GitRestore(img, pickle, TRUE) IN
    /\ at = "quick"
    /\ img' = W.img
    /\ clean' = TRUE
    /\ Goto(W, "idle")
    /\ UNCHANGED <<pickle, large, commits, head, goal, before, edits>>

\* checkout of commit c into an image that is there: git_prepare ...
CheckoutPrepare(c) ==
    LET W == GitPrepare(img, large) IN
    /\ (at = "idle" /\ clean) \/ at = "killed"
    /\ goal' = c
    /\ img' = W.img /\ large' = W.large
    /\ Goto(W, "switch")
    /\ UNCHANGED <<pickle, commits, head, before, clean, edits>>

\* ... "git checkout" unless it is already checked out ...
GitCheckout ==
    LET T == commits[head].tree
        U == commits[goal].tree
    IN /\ at = "switch"
       /\ img' = IF head = goal THEN img ELSE Switched(img, T, U)
       /\ pickle' = IF head = goal THEN pickle ELSE commits[goal].fm
       /\ at' = IF head # goal /\ SwitchRefused(img, T, U) THEN "fatal" ELSE "restore"
       /\ head' = goal
       /\ UNCHANGED <<large, commits, goal, before, clean, edits>>

\* ... and a full git_restore.
RestoreFull ==
    LET W == GitRestore(img, pickle, FALSE) IN
    /\ at = "restore"
    /\ img' = W.img
    /\ clean' = TRUE
    /\ Goto(W, "idle")
    /\ UNCHANGED <<pickle, large, commits, head, goal, before, edits>>

\* checkout of commit c into a new worktree.
CheckoutNew(c) ==
    /\ (at = "idle" /\ clean) \/ at = "killed"
    /\ img' = Fresh(commits[c].tree)
    /\ pickle' = commits[c].fm
    /\ head' = c
    /\ at' = "restore"
    /\ UNCHANGED <<large, commits, goal, before, clean, edits>>

\* rollback: git_prepare, reset and clean; then as after a checkout.
Rollback ==
    LET W == GitPrepare(img, large) IN
    /\ at = "idle" /\ ~clean /\ head > 0
    /\ img' = ResetHard(W.img, commits[head].tree)
    /\ large' = W.large
    /\ Goto(W, "restore")
    /\ UNCHANGED <<pickle, commits, head, goal, before, clean, edits>>

\* SIGKILL between the steps of a commit or a checkout ...
Kill ==
    /\ at \in KillAt
    /\ at' = "killed"
    /\ UNCHANGED <<img, pickle, large, commits, head, goal, before, clean, edits>>

\* ... within the git_prepare of a checkout or of a commit, which has not
\* written the pickle ...
KillPrepare ==
    /\ \/ "prepare" \in KillAt /\ ((at = "idle" /\ clean) \/ at = "killed")
       \/ "commit" \in KillAt /\ at = "idle"
    /\ head > 0
    /\ \E j \in 0 .. Len(PostOrder) :
          LET W == PrepareWalk(img, large)[j] IN
          ~W.err /\ img' = W.img /\ large' = W.large
    /\ at' = "killed"
    /\ UNCHANGED <<pickle, commits, head, goal, before, clean, edits>>

\* ... or within a git_restore.  Modes and times restored by then are left out:
\* the checkout that must follow restores them all.
KillRestore ==
    /\ at \in KillAt \cap {"quick", "restore"}
    /\ \E j \in 0 .. Len(PreOrder) :
          LET W == RestoreWalk(img, pickle)[j] IN ~W.err /\ img' = W.img
    /\ at' = "killed"
    /\ UNCHANGED <<pickle, large, commits, head, goal, before, clean, edits>>

LargeNames(fm) == {fm[p].large_name : p \in {q \in Path : fm[q] # None}}

\* Mutant: only the checked-out commit is asked for its large files.
UsedLargeHead == LargeNames(commits[head].fm)

\* Large files some commit names.
UsedLarge == UNION {LargeNames(commits[c].fm) : c \in DOMAIN commits}

\* garbageinate
Garbageinate ==
    /\ at = "idle" /\ clean
    /\ large' = {l \in large : l.name \in UsedLarge}
    /\ UNCHANGED <<img, pickle, commits, head, goal, before, clean, at, edits>>

Next ==
    \/ Edit \/ CommitPrepare \/ GitCommit \/ RestoreQuick
    \/ \E c \in DOMAIN commits : CheckoutPrepare(c) \/ CheckoutNew(c)
    \/ GitCheckout \/ RestoreFull \/ Rollback
    \/ Kill \/ KillPrepare \/ KillRestore \/ Garbageinate

Spec == Init /\ [][Next]_vars

-----------------------------------------------------------------------------
(* Properties *)

Type == {"reg", "big", "lnk", "fifo", "sock", "dir"}

IsImage(I) ==
    \A p \in Path : I[p] # None =>
        /\ I[p].type \in Type
        /\ I[p].mode \in {"low", "min", "git"}
        /\ I[p].mtime \in {Now} \cup 0 .. MaxEdits
        /\ p \in I[p].links
        /\ \A q \in I[p].links \ {Store} : I[q] = [I[p] EXCEPT !.esc = I[q].esc]

\* The image is a tree of files in which the links of a file agree on it, and
\* large storage has one file for each name.
TypeOK ==
    /\ IsImage(img) /\ IsImage(before)
    /\ \A l, m \in large : l.name = m.name => l = m
    /\ head \in 0 .. Len(commits) /\ goal \in 0 .. Len(commits)
    /\ clean \in BOOLEAN
    /\ at \in {"idle", "commit", "quick", "switch", "restore", "killed", "fatal"}
    /\ edits \in 0 .. MaxEdits

\* What a user may expect of image I once it has been in the cache: no
\* sockets, no RPM databases, minimal permissions; symbolic links have no mode
\* or time of their own.
Visible(I) ==
    LET gone == {p \in Path : I[p] # None /\
                    (I[p].type = "sock" \/ (p \in DbName /\ I[p].type # "dir"))}
        view(f) == [ChmodMin(f) EXCEPT !.links = @ \ gone]
    IN [p \in Path |->
          IF I[p] = None \/ p \in gone THEN None
          ELSE IF I[p].type = "lnk" THEN [view(I[p]) EXCEPT !.mode = "min", !.mtime = 0]
          ELSE view(I[p])]

\* After a commit, a checkout or a rollback, and whatever was killed before,
\* the image is what it was when its commit was made: files, modes, times,
\* hard links, FIFOs, empty directories, names, and nothing else.
RestoresCommit ==
    at = "idle" /\ clean => Visible(img) = Visible(commits[head].image)

\* None of the fatal errors of git_prepare and git_restore is reachable (they
\* are "mostly reversed ... anything not is noted").
NeverFatal == at # "fatal"

\* The large files of every commit are in storage.
LargeKept == \A c \in DOMAIN commits : LargeNames(commits[c].fm) \ {None}
                                        \subseteq {l.name : l \in large}
=============================================================================
