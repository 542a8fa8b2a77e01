--------------------------- MODULE GitPrepareProofs ---------------------------
(***************************************************************************)
(* Proofs about GitPrepare, for any paths, images and special cases, and   *)
(* any number of edits and commits.                                        *)
(***************************************************************************)
EXTENDS GitPrepare, SequenceTheorems, WellFoundedInduction, TLAPS

-----------------------------------------------------------------------------
(* git_prepare, one path after the other *)

LEMMA NatInduct ==
  ASSUME NEW G, 0 \in G, \A j \in Nat : j \in G => j + 1 \in G
  PROVE  \A j \in Nat : j \in G
  <1> SUFFICES ASSUME NEW j \in Nat, j \notin G PROVE FALSE
    OBVIOUS
  <1> DEFINE B == Nat \ G
  <1>1. PICK x \in B : \A y \in B : ~(<<y, x>> \in OpToRel(<, Nat))
    <2>1. B \subseteq Nat /\ B # {}
      OBVIOUS
    <2> HIDE DEF B
    <2> QED
      BY <2>1, WFMin, NatLessThanWellFounded
  <1>2. x \in Nat /\ x # 0 /\ x - 1 \in Nat
    OBVIOUS
  <1>3. x - 1 \in B
    BY <1>2
  <1>4. <<x - 1, x>> \in OpToRel(<, Nat)
    BY <1>2 DEF OpToRel
  <1> QED
    BY <1>1, <1>3, <1>4

Start(I, L) ==
  [img   |-> [p \in Path |-> IF I[p] = None THEN None ELSE ChmodMin(I[p])],
   fm    |-> [p \in Path |-> IF I[p] = None THEN None ELSE Recorded(I[p])],
   inode |-> [p \in Path |-> IF I[p] = None THEN {} ELSE I[p].links],
   seen  |-> {}, large |-> L, err |-> FALSE]

\* The first j steps of the walk.
IsWalk(I, L, j, g) ==
  /\ g = [i \in 0 .. j |-> g[i]] /\ g[0] = Start(I, L)
  /\ \A i \in 1 .. j : g[i] = PrepareOne(g[i - 1], PostOrder[i])

LEMMA WalkExists ==
  ASSUME NEW I, NEW L, NEW len \in Nat
  PROVE  \E g : IsWalk(I, L, len, g)
  <1> DEFINE G == {j \in Nat : \E g : IsWalk(I, L, j, g)}
  <1>1. 0 \in G
    <2>1. IsWalk(I, L, 0, [i \in 0 .. 0 |-> Start(I, L)])
      BY DEF IsWalk
    <2> QED
      BY <2>1
  <1>2. ASSUME NEW j \in Nat, j \in G PROVE j + 1 \in G
    <2>1. PICK g : IsWalk(I, L, j, g)
      BY <1>2
    <2> DEFINE last == PrepareOne(g[j], PostOrder[j + 1])
               h == [i \in 0 .. j + 1 |-> IF i = j + 1 THEN last ELSE g[i]]
    <2>2. h[0] = Start(I, L)
      BY <2>1 DEF IsWalk
    <2>3. ASSUME NEW i \in 1 .. j + 1 PROVE h[i] = PrepareOne(h[i - 1], PostOrder[i])
      <3>1. CASE i = j + 1
        BY <3>1
      <3>2. CASE i \in 1 .. j
        <4>1. h[i] = g[i] /\ h[i - 1] = g[i - 1]
          BY <3>2
        <4> QED
          BY <4>1, <3>2, <2>1 DEF IsWalk
      <3> QED
        BY <3>1, <3>2
    <2>4. IsWalk(I, L, j + 1, h)
      BY <2>2, <2>3 DEF IsWalk
    <2> QED
      BY <2>4
  <1> HIDE DEF G
  <1>3. \A j \in Nat : j \in G
    BY <1>1, <1>2, NatInduct
  <1> QED
    BY <1>3 DEF G

LEMMA PrepareWalks ==
  ASSUME NEW I, NEW L
  PROVE  IsWalk(I, L, Len(PostOrder), PrepareWalk(I, L))
  <1> DEFINE len == Len(PostOrder)
             P(r) == r = [j \in 0 .. len |-> IF j = 0 THEN Start(I, L)
                                             ELSE PrepareOne(r[j - 1], PostOrder[j])]
             w == CHOOSE r : P(r)
  <1>1. len \in Nat
    BY OrderAssumption, LenProperties
  <1>2. PICK g : IsWalk(I, L, len, g)
    BY <1>1, WalkExists
  <1>3. P(g)
    BY <1>1, <1>2 DEF IsWalk
  <1>4. P(w)
    BY <1>3
  <1>5. PrepareWalk(I, L) = w
    BY DEF PrepareWalk, Start
  <1> HIDE DEF w
  <1>6. IsWalk(I, L, len, w)
    BY <1>1, <1>4 DEF IsWalk
  <1> QED
    BY <1>5, <1>6
-----------------------------------------------------------------------------
(* Large files *)

IsWork(W) == W = [img |-> W.img, fm |-> W.fm, inode |-> W.inode, seen |-> W.seen,
                  large |-> W.large, err |-> W.err]
IsRecorded(m) == m = [type |-> m.type, mode |-> m.mode, mtime |-> m.mtime,
                      dont_restore |-> m.dont_restore, hardlink_to |-> m.hardlink_to,
                      large_name |-> m.large_name]
OnPaths(f) == f = [p \in Path |-> f[p]]

\* Nothing is in J that is not in I.
Less(J, I) == OnPaths(J) /\ \A q \in Path : J[q] # None => I[q] # None

\* The large file that m names, if any, is in L.
Held(m, L) == m.large_name # None => Stored(L, m.large_name)

\* What there is after some steps of a git_prepare that began with L.
Good(W, L) == /\ IsWork(W) /\ OnPaths(W.img) /\ OnPaths(W.fm) /\ L \subseteq W.large
              /\ \A p \in Path : /\ W.img[p] # None => IsRecorded(W.fm[p])
                                 /\ W.img[p] # None \/ W.fm[p] # None => Held(W.fm[p], W.large)

LEMMA DropLess ==
  ASSUME NEW I, OnPaths(I), NEW p, NEW x
  PROVE  Less(Drop(I, p, x), I)
  BY DEF Less, OnPaths, Drop, Touch

LEMMA EscapeLess ==
  ASSUME NEW I, OnPaths(I), NEW p \in Path, I[p] # None
  PROVE  Less(Touch([I EXCEPT ![p].esc = TRUE], p), I)
  <1> DEFINE f == [I[p] EXCEPT !.esc = TRUE]
             J == [I EXCEPT ![p] = f]
  <1>1. [I EXCEPT ![p].esc = TRUE] = J
    OBVIOUS
  <1> HIDE DEF f
  <1>2. DOMAIN J = DOMAIN I /\ \A q \in Path : q # p => J[q] = I[q]
    BY DEF OnPaths
  <1> HIDE DEF J
  <1>3. Less(Touch(J, p), I)
    BY <1>2 DEF Less, OnPaths, Touch
  <1> QED
    BY <1>1, <1>3

\* The last part of git_prepare changes neither records nor large files.
Finished(V, R) == IsWork(R) /\ R.fm = V.fm /\ R.large = V.large /\ Less(R.img, V.img)

LEMMA FinishIs ==
  ASSUME NEW W, IsWork(W), OnPaths(W.img), NEW p \in Path
  PROVE  Finished(W, FinishPrepare(W, p))
  <1> DEFINE R == FinishPrepare(W, p)
             J == Drop(W.img, p, {})
             K == Touch([W.img EXCEPT ![p].esc = TRUE], p)
  <1>1. /\ W.img[p] # None => Less(K, W.img)
        /\ Less(J, W.img) /\ Less(W.img, W.img)
    BY DropLess, EscapeLess DEF Less
  <1>2. \/ R = W \/ R = [W EXCEPT !.err = TRUE] \/ R = [W EXCEPT !.img = J]
        \/ W.img[p] # None /\ R = [W EXCEPT !.img = K]
    BY DEF FinishPrepare, Fail
  <1> HIDE DEF R, J, K
  <1>3. Finished(W, R)
    BY <1>1, <1>2 DEF Finished, IsWork
  <1> QED
    BY <1>3 DEF R

LEMMA HeldMore ==
  ASSUME NEW m, NEW L, NEW M, L \subseteq M, Held(m, L)
  PROVE  Held(m, M)
  BY DEF Held, Stored

\* The record of p is now m.
Changed(V, R, p, m) == /\ IsWork(R) /\ R.fm = [V.fm EXCEPT ![p] = m]
                       /\ V.large \subseteq R.large /\ Less(R.img, V.img)

LEMMA GoodChanged ==
  ASSUME NEW V, NEW L, Good(V, L), NEW R, NEW p \in Path, NEW m,
         Changed(V, R, p, m), IsRecorded(m), Held(m, R.large)
  PROVE  Good(R, L)
  <1>1. OnPaths(R.fm) /\ R.fm[p] = m /\ \A q \in Path : q # p => R.fm[q] = V.fm[q]
    BY DEF Changed, OnPaths, Good
  <1>2. \A q \in Path : R.img[q] # None \/ R.fm[q] # None => Held(R.fm[q], R.large)
    BY <1>1, HeldMore DEF Good, Changed, Less
  <1>3. \A q \in Path : R.img[q] # None => IsRecorded(R.fm[q])
    BY <1>1 DEF Good, Changed, Less
  <1> QED
    BY <1>1, <1>2, <1>3 DEF Good, Changed, Less

LEMMA LargePrepareIs ==
  ASSUME NEW W, NEW L, Good(W, L), NEW p \in Path, W.img[p] # None
  PROVE  \E m : /\ IsRecorded(m) /\ Held(m, LargePrepare(W, p).large)
                /\ Changed(W, LargePrepare(W, p), p, m)
  <1> DEFINE name == LargeName(W.fm, p)
             found == Stored(W.large, name)
             J == Drop(W.img, p, IF found THEN {} ELSE {Store})
             one == [name |-> name, data |-> W.img[p].data]
             M == IF found THEN W.large ELSE W.large \cup {one}
             m == [W.fm[p] EXCEPT !.large_name = name]
             F == [W.fm EXCEPT ![p] = m]
             R == LargePrepare(W, p)
  <1>1. R = [W EXCEPT !.img = J, !.large = M, !.fm = F]
    BY DEF LargePrepare, Good, IsWork
  <1>2. Less(J, W.img)
    BY DropLess DEF Good
  <1>3. IsRecorded(W.fm[p])
    BY DEF Good
  <1>4. IsRecorded(m) /\ m.large_name = name
    <2> HIDE DEF name
    <2> QED
      BY <1>3 DEF IsRecorded
  <1>5. Stored(M, name)
    <2>1. one.name = name
      OBVIOUS
    <2> HIDE DEF one, name
    <2> QED
      BY <2>1 DEF Stored
  <1>6. W.large \subseteq M
    OBVIOUS
  <1> HIDE DEF J, M, F, R, m
  <1>7. R.img = J /\ R.large = M /\ R.fm = F /\ IsWork(R)
    BY <1>1 DEF Good, IsWork
  <1>8. Held(m, R.large) /\ Changed(W, R, p, m)
    BY <1>2, <1>4, <1>5, <1>6, <1>7 DEF Held, Changed, F
  <1> QED
    BY <1>4, <1>8 DEF R

LEMMA GoodFinished ==
  ASSUME NEW V, NEW L, Good(V, L), NEW R, Finished(V, R)
  PROVE  Good(R, L)
  BY DEF Good, Finished, Less

LEMMA RecordedWith ==
  ASSUME NEW f, IsRecorded(f), NEW x
  PROVE  /\ IsRecorded([f EXCEPT !.dont_restore = x]) /\ IsRecorded([f EXCEPT !.hardlink_to = x])
         /\ [f EXCEPT !.dont_restore = x].large_name = f.large_name
         /\ [f EXCEPT !.hardlink_to = x].large_name = f.large_name
  BY DEF IsRecorded

LEMMA GoodStep ==
  ASSUME NEW W, NEW L, Good(W, L), NEW p \in Path
  PROVE  Good(PrepareOne(W, p), L)
  <1> DEFINE nlink == Cardinality(W.img[p].links)
             first == {q \in W.seen : p \in W.inode[q]}
             seen == W.seen \cup {p}
             S == IF nlink > 1 THEN [W EXCEPT !.seen = seen] ELSE W
             V == IF W.fm[p].type = "big" THEN LargePrepare(S, p) ELSE S
             J == Drop(W.img, p, {})
             mD == [W.fm[p] EXCEPT !.dont_restore = TRUE]
             mH == [W.fm[p] EXCEPT !.hardlink_to = CHOOSE q \in first : TRUE]
             FD == [W.fm EXCEPT ![p] = mD]
             FH == [W.fm EXCEPT ![p] = mH]
             R == PrepareOne(W, p)
  <1>1. \/ R = W
        \/ W.img[p] # None /\ \/ R = [W EXCEPT !.img = J, !.fm = FD]
                              \/ R = [W EXCEPT !.img = J, !.fm = FH]
                              \/ R = FinishPrepare(V, p)
    BY DEF PrepareOne, Good, IsWork
  <1>2. Less(J, W.img)
    BY DropLess DEF Good
  <1>3. R = W => Good(R, L)
    OBVIOUS
  <1>4. ASSUME W.img[p] # None, NEW m, NEW F, F = [W.fm EXCEPT ![p] = m],
               IsRecorded(m), m.large_name = W.fm[p].large_name,
               R = [W EXCEPT !.img = J, !.fm = F]
        PROVE  Good(R, L)
    <2> HIDE DEF R, J
    <2>1. R.img = J /\ R.fm = F /\ R.large = W.large /\ IsWork(R)
      BY <1>4 DEF Good, IsWork
    <2>2. Changed(W, R, p, m)
      BY <1>2, <1>4, <2>1 DEF Changed
    <2>3. Held(m, R.large)
      BY <1>4, <2>1 DEF Good, Held
    <2> QED
      BY <1>4, <2>2, <2>3, GoodChanged
  <1>5. ASSUME W.img[p] # None, R = [W EXCEPT !.img = J, !.fm = FD]
        PROVE  Good(R, L)
    <2>1. IsRecorded(W.fm[p])
      BY <1>5 DEF Good
    <2>2. IsRecorded(mD) /\ mD.large_name = W.fm[p].large_name
      BY <2>1, RecordedWith
    <2> HIDE DEF mD, J, R
    <2> QED
      BY <1>4, <1>5, <2>2
  <1>6. ASSUME W.img[p] # None, R = [W EXCEPT !.img = J, !.fm = FH]
        PROVE  Good(R, L)
    <2>1. IsRecorded(W.fm[p])
      BY <1>6 DEF Good
    <2>2. IsRecorded(mH) /\ mH.large_name = W.fm[p].large_name
      BY <2>1, RecordedWith
    <2> HIDE DEF mH, J, R
    <2> QED
      BY <1>4, <1>6, <2>2
  <1>7. ASSUME W.img[p] # None, R = FinishPrepare(V, p)
        PROVE  Good(R, L)
    <2>1. Good(S, L) /\ S.img = W.img /\ S.fm = W.fm
      <3> HIDE DEF seen, nlink
      <3> QED
        BY DEF Good, IsWork
    <2> HIDE DEF S
    <2>2. Good(V, L)
      <3>1. CASE W.fm[p].type = "big"
        <4>1. V = LargePrepare(S, p)
          BY <3>1
        <4>2. PICK m : /\ IsRecorded(m) /\ Held(m, LargePrepare(S, p).large)
                       /\ Changed(S, LargePrepare(S, p), p, m)
          BY <1>7, <2>1, LargePrepareIs
        <4> QED
          BY <2>1, <4>1, <4>2, GoodChanged
      <3> QED
        BY <2>1, <3>1
    <2> HIDE DEF V
    <2>3. Finished(V, FinishPrepare(V, p))
      BY <2>2, FinishIs DEF Good
    <2> QED
      BY <1>7, <2>2, <2>3, GoodFinished
  <1> HIDE DEF R, V, J, FD, FH
  <1>8. Good(R, L)
    BY <1>1, <1>3, <1>5, <1>6, <1>7
  <1> QED
    BY <1>8 DEF R

LEMMA GoodStart ==
  ASSUME NEW I, NEW L
  PROVE  Good(Start(I, L), L)
  <1> DEFINE J == [p \in Path |-> IF I[p] = None THEN None ELSE ChmodMin(I[p])]
             F == [p \in Path |-> IF I[p] = None THEN None ELSE Recorded(I[p])]
             W == Start(I, L)
  <1>1. W.img = J /\ W.fm = F /\ W.large = L /\ IsWork(W)
    BY DEF Start, IsWork
  <1>2. OnPaths(J) /\ OnPaths(F)
    BY DEF OnPaths
  <1>3. \A f : IsRecorded(Recorded(f)) /\ Recorded(f).large_name = None
    BY DEF IsRecorded, Recorded
  <1>4. ASSUME NEW p \in Path, J[p] # None \/ F[p] # None
        PROVE  IsRecorded(F[p]) /\ F[p].large_name = None
    BY <1>3, <1>4
  <1> HIDE DEF J, F, W
  <1>5. Good(W, L)
    BY <1>1, <1>2, <1>4 DEF Good, Held
  <1> QED
    BY <1>5 DEF W

\* git_prepare stores the large files it names, and removes none, wherever it
\* is interrupted.
LEMMA WalkHolds ==
  ASSUME NEW I, NEW L, NEW k \in 0 .. Len(PostOrder)
  PROVE  Good(PrepareWalk(I, L)[k], L)
  <1> DEFINE len == Len(PostOrder)
             g == PrepareWalk(I, L)
  <1>1. IsWalk(I, L, len, g)
    BY PrepareWalks
  <1>2. len \in Nat /\ \A j \in 1 .. len : PostOrder[j] \in Path
    BY OrderAssumption, LenProperties, ElementOfSeq
  <1> DEFINE G == {j \in Nat : j <= len => Good(g[j], L)}
  <1> HIDE DEF len, g
  <1>3. 0 \in G
    BY <1>1, GoodStart DEF IsWalk
  <1>4. ASSUME NEW j \in Nat, j \in G PROVE j + 1 \in G
    <2> SUFFICES ASSUME j + 1 <= len PROVE Good(g[j + 1], L)
      OBVIOUS
    <2>1. j + 1 \in 1 .. len /\ j <= len /\ (j + 1) - 1 = j
      BY <1>2
    <2>2. Good(g[j], L)
      BY <1>4, <2>1
    <2>3. g[j + 1] = PrepareOne(g[j], PostOrder[j + 1])
      BY <1>1, <2>1 DEF IsWalk
    <2> QED
      BY <1>2, <2>1, <2>2, <2>3, GoodStep
  <1>5. k \in Nat /\ k <= len
    BY <1>2 DEF len
  <1>6. k \in G
    <2> HIDE DEF G
    <2> QED
      BY <1>3, <1>4, <1>5, NatInduct
  <1>7. Good(g[k], L)
    BY <1>5, <1>6
  <1> QED
    BY <1>7 DEF g

LEMMA PrepareHolds ==
  ASSUME NEW I, NEW L
  PROVE  /\ L \subseteq GitPrepare(I, L).large
         /\ \A p \in Path : GitPrepare(I, L).fm[p] # None =>
                            Held(GitPrepare(I, L).fm[p], GitPrepare(I, L).large)
  <1>1. Len(PostOrder) \in 0 .. Len(PostOrder)
    BY OrderAssumption, LenProperties
  <1>2. Good(GitPrepare(I, L), L)
    BY <1>1, WalkHolds DEF GitPrepare
  <1> QED
    BY <1>2 DEF Good
-----------------------------------------------------------------------------
(* The inductive invariant *)

\* Large files that records fm name are in L.
AllHeld(fm, L) == \A p \in Path : fm[p] # None => Held(fm[p], L)

LEMMA HeldNames ==
  ASSUME NEW fm, NEW L
  PROVE  AllHeld(fm, L) <=> LargeNames(fm) \ {None} \subseteq {l.name : l \in L}
  BY DEF AllHeld, Held, Stored, LargeNames

\* Those of every commit are, and those of the one in progress.
LInv == /\ \E T : commits \in Seq(T)
        /\ \A c \in DOMAIN commits : AllHeld(commits[c].fm, large)
        /\ at = "commit" => AllHeld(pickle, large)

LEMMA LInit == Init => LInv
  <1> SUFFICES ASSUME Init PROVE LInv
    OBVIOUS
  <1>1. commits = << >> /\ at = "idle"
    BY DEF Init
  <1>2. << >> \in Seq({})
    OBVIOUS
  <1>3. DOMAIN << >> = {}
    OBVIOUS
  <1> QED
    BY <1>1, <1>2, <1>3 DEF LInv

LEMMA AllHeldMore ==
  ASSUME NEW fm, NEW L, NEW M, L \subseteq M, AllHeld(fm, L)
  PROVE  AllHeld(fm, M)
  BY HeldMore DEF AllHeld

LEMMA LMore ==
  ASSUME LInv, commits' = commits, large \subseteq large', at' # "commit"
  PROVE  LInv'
  BY AllHeldMore DEF LInv

LEMMA LNext ==
  ASSUME LInv, [Next]_vars
  PROVE  LInv'
  <1> DEFINE W == GitPrepare(img, large)
  <1>1. large \subseteq W.large /\ AllHeld(W.fm, W.large)
    BY PrepareHolds DEF AllHeld
  <1> HIDE DEF W
  <1>2. ASSUME commits' = commits, large' = large, pickle' = pickle, at' = at PROVE LInv'
    BY <1>2 DEF LInv
  <1>3. CASE Edit
    BY <1>2, <1>3 DEF Edit
  <1>4. CASE CommitPrepare
    <2>1. commits' = commits /\ large' = W.large /\ pickle' = W.fm
      BY <1>4 DEF CommitPrepare, W
    <2>2. \A c \in DOMAIN commits : AllHeld(commits[c].fm, W.large)
      BY <1>1, AllHeldMore DEF LInv
    <2> QED
      BY <1>1, <2>1, <2>2 DEF LInv
  <1>5. CASE GitCommit
    <2> DEFINE new == [tree |-> GitTree(img), fm |-> pickle, image |-> before]
    <2>1. at = "commit" /\ commits' = Append(commits, new) /\ large' = large /\ at' = "quick"
      BY <1>5 DEF GitCommit
    <2>2. new.fm = pickle
      OBVIOUS
    <2> HIDE DEF new
    <2>3. PICK T : commits \in Seq(T)
      BY DEF LInv
    <2> DEFINE U == T \cup {new}
    <2>4. commits \in Seq(U) /\ new \in U
      BY <2>3
    <2> HIDE DEF U
    <2>5. /\ commits' \in Seq(U) /\ Len(commits') = Len(commits) + 1 /\ Len(commits) \in Nat
          /\ commits'[Len(commits) + 1] = new
          /\ \A c \in 1 .. Len(commits) : commits'[c] = commits[c]
          /\ DOMAIN commits = 1 .. Len(commits) /\ DOMAIN commits' = 1 .. Len(commits')
      BY <2>1, <2>4, AppendProperties, LenProperties
    <2>6. ASSUME NEW c \in DOMAIN commits' PROVE AllHeld(commits'[c].fm, large)
      <3>1. CASE c = Len(commits) + 1
        BY <2>1, <2>2, <2>5, <3>1 DEF LInv
      <3>2. CASE c \in DOMAIN commits
        BY <2>5, <3>2 DEF LInv
      <3> QED
        BY <2>5, <3>1, <3>2
    <2> QED
      BY <2>1, <2>5, <2>6 DEF LInv
  <1>6. CASE RestoreQuick \/ RestoreFull
    BY <1>6, LMore DEF RestoreQuick, RestoreFull, Goto
  <1>7. ASSUME NEW c \in DOMAIN commits, CheckoutPrepare(c) \/ CheckoutNew(c) PROVE LInv'
    BY <1>1, <1>7, LMore DEF CheckoutPrepare, CheckoutNew, Goto, W
  <1>8. CASE GitCheckout
    BY <1>8, LMore DEF GitCheckout
  <1>9. CASE Rollback
    BY <1>1, <1>9, LMore DEF Rollback, Goto, W
  <1>10. CASE Kill \/ KillRestore
    BY <1>10, LMore DEF Kill, KillRestore
  <1>11. CASE KillPrepare
    <2>1. PICK j \in 0 .. Len(PostOrder) : large' = PrepareWalk(img, large)[j].large
      BY <1>11 DEF KillPrepare
    <2>2. Good(PrepareWalk(img, large)[j], large)
      BY WalkHolds
    <2>3. large \subseteq large'
      BY <2>1, <2>2 DEF Good
    <2> QED
      BY <1>11, <2>3, LMore DEF KillPrepare
  <1>12. CASE Garbageinate
    <2>1. /\ at = "idle" /\ at' = at /\ commits' = commits
          /\ large' = {l \in large : l.name \in UsedLarge}
      BY <1>12 DEF Garbageinate
    <2>2. ASSUME NEW c \in DOMAIN commits PROVE AllHeld(commits[c].fm, large')
      <3>1. ASSUME NEW p \in Path, commits[c].fm[p] # None, commits[c].fm[p].large_name # None
            PROVE  Stored(large', commits[c].fm[p].large_name)
        <4>1. commits[c].fm[p].large_name \in UsedLarge
          BY <3>1 DEF UsedLarge, LargeNames
        <4>2. Stored(large, commits[c].fm[p].large_name)
          BY <3>1 DEF LInv, AllHeld, Held
        <4> QED
          BY <2>1, <4>1, <4>2 DEF Stored
      <3> QED
        BY <3>1 DEF AllHeld, Held
    <2> QED
      BY <2>1, <2>2 DEF LInv
  <1>13. CASE UNCHANGED vars
    BY <1>2, <1>13 DEF vars
  <1> QED
    BY <1>3, <1>4, <1>5, <1>6, <1>7, <1>8, <1>9, <1>10, <1>11, <1>12, <1>13 DEF Next

(***************************************************************************)
(* Whatever is committed, checked out, rolled back, killed and garbage     *)
(* collected, the large files that the commits refer to are in storage:    *)
(* git_prepare stores each before the pickle that names it is committed,   *)
(* and garbageinate asks all commits before it deletes one.                *)
(***************************************************************************)
THEOREM LargeFilesAreKept == Spec => []LargeKept
  <1>1. Init => LInv
    BY LInit
  <1>2. LInv /\ [Next]_vars => LInv'
    BY LNext
  <1>3. LInv => LargeKept
    BY HeldNames DEF LInv, LargeKept
  <1> QED
    BY <1>1, <1>2, <1>3, PTL DEF Spec
=============================================================================
