---------------------------- MODULE ChImageProofs ----------------------------
(***************************************************************************)
(* Proofs about ChImage, for any images, Dockerfiles, outcomes, faults and *)
(* number of commands.                                                     *)
(***************************************************************************)
EXTENDS ChImage, SequenceTheorems, TLAPS

-----------------------------------------------------------------------------
(* Commits *)

\* The state IDs along a commit grow by one input each.
Path(c) ==
    /\ c[1].sid = << >>
    /\ \A k \in 2 .. Len(c) : /\ Len(c[k].sid) = k - 1
                              /\ SubSeq(c[k].sid, 1, k - 2) = c[k-1].sid

\* If nothing worse than a failing instruction or download happens, the files
\* along a commit grow with the state IDs.
Careful == Faults \subseteq {"fail"}
Faithful(c) ==
    /\ c[1].tree = << >>
    /\ \A k \in 2 .. Len(c) : Grown(c[k-1], c[k])

Good == {c \in Commits : Path(c) /\ (Careful => Faithful(c))}

LEMMA CommitFacts ==
  ASSUME NEW c \in Good
  PROVE  /\ c \in Seq(Layer) /\ c # << >> /\ Len(c) \in Nat /\ Len(c) >= 1
         /\ \A k \in 1 .. Len(c) : /\ c[k] \in Layer
                                   /\ c[k].sid \in Seq(Input) /\ Len(c[k].sid) = k - 1
         /\ Tip(c) \in Layer /\ Len(Tip(c).sid) = Len(c) - 1
  <1>1. c \in Seq(Layer) /\ c # << >> /\ Path(c)
    BY DEF Good, Commits
  <1>2. Len(c) \in Nat /\ Len(c) >= 1
    BY <1>1
  <1>3. ASSUME NEW k \in 1 .. Len(c)
        PROVE  c[k] \in Layer /\ c[k].sid \in Seq(Input) /\ Len(c[k].sid) = k - 1
    <2>1. c[k] \in Layer
      BY <1>1
    <2>2. c[k].sid \in Seq(Input)
      BY <2>1 DEF Layer
    <2>3. CASE k = 1
      <3>1. c[k].sid = << >>
        BY <1>1, <2>3 DEF Path
      <3>2. Len(c[k].sid) = 0
        BY <3>1
      <3> QED
        BY <2>1, <2>2, <2>3, <3>2
    <2>4. CASE k \in 2 .. Len(c)
      BY <1>1, <2>1, <2>2, <2>4 DEF Path
    <2> QED
      BY <1>2, <2>3, <2>4
  <1>4. Len(c) \in 1 .. Len(c)
    BY <1>2
  <1> QED
    BY <1>1, <1>2, <1>3, <1>4 DEF Tip

LEMMA RootGood == Root \in Good /\ Tip(Root).sid = << >> /\ Len(Root) = 1
  <1> DEFINE l == [sid |-> <<>>, tree |-> <<>>, env |-> <<>>, hist |-> <<>>]
  <1>1. l \in Layer /\ l.sid = << >> /\ l.tree = << >>
    BY DEF Layer, Files
  <1> HIDE DEF l
  <1>2. Root = <<l>>
    BY DEF Root, l
  <1>3. Root \in Seq(Layer) /\ Len(Root) = 1 /\ Root[1] = l
    BY <1>1, <1>2
  <1>4. Path(Root) /\ Faithful(Root)
    BY <1>1, <1>3 DEF Path, Faithful
  <1>5. Root # << >>
    BY <1>3
  <1>6. Root \in Good
    BY <1>3, <1>4, <1>5 DEF Good, Commits
  <1>7. Tip(Root) = l
    BY <1>3 DEF Tip
  <1> QED
    BY <1>1, <1>3, <1>6, <1>7

\* The ancestor of length k.
LEMMA Prefix ==
  ASSUME NEW c \in Good, NEW k \in 1 .. Len(c)
  PROVE  /\ SubSeq(c, 1, k) \in Good /\ Len(SubSeq(c, 1, k)) = k
         /\ \A i \in 1 .. k : SubSeq(c, 1, k)[i] = c[i]
         /\ Tip(SubSeq(c, 1, k)) = c[k]
         /\ SubSeq(c, 1, k) \in Ancestors(c)
  <1> DEFINE p == SubSeq(c, 1, k)
  <1>1. c \in Seq(Layer) /\ Len(c) \in Nat /\ k \in Nat /\ k >= 1 /\ k <= Len(c)
    BY CommitFacts
  <1>2. p \in Seq(Layer) /\ Len(p) = k /\ \A i \in 1 .. k : p[i] = c[i]
    <2>1. \A i \in 1 .. k : c[i] \in Layer
      BY <1>1
    <2>2. /\ p \in Seq(Layer) /\ Len(p) = (IF 1 <= k THEN k - 1 + 1 ELSE 0)
          /\ \A i \in 1 .. k - 1 + 1 : p[i] = c[1 + i - 1]
      BY <1>1, <2>1, SubSeqProperties
    <2> HIDE DEF p
    <2>3. Len(p) = k
      BY <1>1, <2>2
    <2>4. ASSUME NEW i \in 1 .. k PROVE p[i] = c[i]
      <3>1. i \in 1 .. k - 1 + 1 /\ 1 + i - 1 = i
        BY <1>1
      <3> QED
        BY <2>2, <3>1
    <2> QED
      BY <2>2, <2>3, <2>4
  <1>3. p \in Ancestors(c)
    BY DEF Ancestors
  <1> HIDE DEF p
  <1>4. Path(c)
    BY DEF Good
  <1>5. Path(p)
    <2>1. p[1].sid = << >>
      BY <1>1, <1>2, <1>4 DEF Path
    <2>2. ASSUME NEW j \in 2 .. Len(p)
          PROVE  Len(p[j].sid) = j - 1 /\ SubSeq(p[j].sid, 1, j - 2) = p[j-1].sid
      <3>1. j \in 2 .. Len(c) /\ j \in 1 .. k /\ j - 1 \in 1 .. k
        BY <1>1, <1>2
      <3>2. p[j] = c[j] /\ p[j-1] = c[j-1]
        BY <1>2, <3>1
      <3> QED
        BY <1>4, <3>1, <3>2 DEF Path
    <2> QED
      BY <2>1, <2>2 DEF Path
  <1>6. p # << >> /\ Tip(p) = c[k]
    BY <1>1, <1>2 DEF Tip
  <1>7. Careful => Faithful(p)
    <2> HAVE Careful
    <2>1. Faithful(c)
      BY DEF Good
    <2>2. p[1].tree = << >>
      BY <1>1, <1>2, <2>1 DEF Faithful
    <2>3. ASSUME NEW j \in 2 .. Len(p) PROVE Grown(p[j-1], p[j])
      <3>1. j \in 2 .. Len(c) /\ j \in 1 .. k /\ j - 1 \in 1 .. k
        BY <1>1, <1>2
      <3>2. p[j] = c[j] /\ p[j-1] = c[j-1]
        BY <1>2, <3>1
      <3> QED
        BY <2>1, <3>1, <3>2 DEF Faithful
    <2> QED
      BY <2>2, <2>3 DEF Faithful
  <1> QED
    BY <1>2, <1>3, <1>5, <1>6, <1>7 DEF Good, Commits, p

LEMMA AncestorFacts ==
  ASSUME NEW c \in Good, NEW a \in Ancestors(c)
  PROVE  /\ a \in Good /\ Len(a) \in 1 .. Len(c) /\ a = SubSeq(c, 1, Len(a))
         /\ Tip(a) = c[Len(a)] /\ \A i \in 1 .. Len(a) : a[i] = c[i]
  <1>1. PICK k \in 1 .. Len(c) : a = SubSeq(c, 1, k)
    BY DEF Ancestors
  <1> QED
    BY <1>1, Prefix

LEMMA OwnAncestor ==
  ASSUME NEW c \in Good
  PROVE  c \in Ancestors(c)
  <1>1. c \in Seq(Layer) /\ Len(c) \in 1 .. Len(c)
    BY CommitFacts
  <1>2. SubSeq(c, 1, Len(c)) \in Seq(Layer) /\ Len(SubSeq(c, 1, Len(c))) = Len(c)
        /\ \A i \in 1 .. Len(c) : SubSeq(c, 1, Len(c))[i] = c[i]
    BY <1>1, Prefix DEF Good, Commits
  <1>3. SubSeq(c, 1, Len(c)) = c
    BY <1>1, <1>2, SeqEqual
  <1> QED
    BY <1>1, <1>3, Prefix

\* Ancestors of ancestors are ancestors.
LEMMA AncestorsNest ==
  ASSUME NEW c \in Good, NEW a \in Ancestors(c)
  PROVE  Ancestors(a) \subseteq Ancestors(c)
  <1> SUFFICES ASSUME NEW x \in Ancestors(a) PROVE x \in Ancestors(c)
    OBVIOUS
  <1>1. a \in Good /\ Len(a) \in 1 .. Len(c) /\ \A i \in 1 .. Len(a) : a[i] = c[i]
    BY AncestorFacts
  <1>2. x \in Good /\ Len(x) \in 1 .. Len(a) /\ \A i \in 1 .. Len(x) : x[i] = a[i]
    BY <1>1, AncestorFacts
  <1> DEFINE y == SubSeq(c, 1, Len(x))
             n == Len(x)
  <1>3. Len(a) \in Nat /\ Len(x) \in Nat /\ Len(c) \in Nat
    BY <1>1, <1>2, CommitFacts
  <1>4. n \in 1 .. Len(c)
    BY <1>1, <1>2, <1>3
  <1>5. y \in Good /\ Len(y) = n /\ (\A i \in 1 .. n : y[i] = c[i]) /\ y \in Ancestors(c)
    BY <1>4, Prefix
  <1>6. \A i \in 1 .. n : x[i] = y[i]
    BY <1>1, <1>2, <1>3, <1>5
  <1>7. x \in Seq(Layer) /\ y \in Seq(Layer)
    BY <1>2, <1>5, CommitFacts
  <1> HIDE DEF y
  <1>8. x = y
    BY <1>5, <1>6, <1>7, SeqEqual
  <1> QED
    BY <1>5, <1>8

\* The parent of a commit has the state ID of the commit without its last input.
LEMMA Parent ==
  ASSUME NEW c \in Good, NEW sid \in Seq(Input), NEW x \in Input, Tip(c).sid = Append(sid, x)
  PROVE  /\ Len(c) = Len(sid) + 2
         /\ SubSeq(c, 1, Len(c) - 1) \in Ancestors(c)
         /\ Tip(SubSeq(c, 1, Len(c) - 1)).sid = sid
  <1> DEFINE n == Len(c)
             s == Append(sid, x)
  <1>1. n \in Nat /\ n >= 1 /\ Len(Tip(c).sid) = n - 1 /\ Path(c)
    BY CommitFacts DEF Good
  <1>2. s \in Seq(Input) /\ Len(s) = Len(sid) + 1 /\ Len(sid) \in Nat
        /\ \A i \in 1 .. Len(sid) : s[i] = sid[i]
    BY AppendProperties
  <1> HIDE DEF s
  <1>3. Len(s) = n - 1
    BY <1>1 DEF s
  <1> HIDE DEF n
  <1>4. n = Len(sid) + 2 /\ n \in 2 .. n /\ n - 1 \in 1 .. n /\ n - 2 = Len(sid)
    BY <1>1, <1>2, <1>3
  <1>5. c[n].sid = s
    BY DEF Tip, n, s
  <1>6. SubSeq(c[n].sid, 1, n - 2) = c[n-1].sid
    <2>1. n \in 2 .. Len(c)
      BY <1>4 DEF n
    <2> QED
      BY <1>1, <2>1 DEF Path
  <1>7. SubSeq(s, 1, Len(sid)) = sid
    <2>1. \A i \in 1 .. Len(sid) : s[i] \in Input
      BY <1>2
    <2> DEFINE t == SubSeq(s, 1, Len(sid))
               m == Len(sid)
    <2>2. /\ t \in Seq(Input) /\ Len(t) = (IF 1 <= m THEN m - 1 + 1 ELSE 0)
          /\ \A i \in 1 .. m - 1 + 1 : t[i] = s[1 + i - 1]
      BY <1>2, <2>1, SubSeqProperties
    <2>3. m \in Nat
      BY <1>2
    <2> HIDE DEF t, m
    <2>4. Len(t) = m
      BY <2>2, <2>3
    <2>5. ASSUME NEW i \in 1 .. m PROVE t[i] = sid[i]
      <3>1. i \in 1 .. m - 1 + 1 /\ 1 + i - 1 = i
        BY <2>3
      <3>2. t[i] = s[i]
        BY <2>2, <3>1
      <3> QED
        BY <1>2, <3>2 DEF m
    <2>6. t = sid
      BY <2>2, <2>4, <2>5, SeqEqual DEF m
    <2> QED
      BY <2>6 DEF t
  <1>8. c[n-1].sid = sid
    BY <1>4, <1>5, <1>6, <1>7
  <1>9. SubSeq(c, 1, n - 1) \in Ancestors(c) /\ Tip(SubSeq(c, 1, n - 1)) = c[n-1]
    <2>1. n - 1 \in 1 .. Len(c)
      BY <1>4 DEF n
    <2> QED
      BY <2>1, Prefix
  <1> QED
    BY <1>4, <1>8, <1>9 DEF n

\* What "git commit" makes of a commit.
LEMMA NewCommit ==
  ASSUME NEW h \in Good, NEW l \in Layer, NEW x \in Input, l.sid = Append(Tip(h).sid, x),
         Careful => Grown(Tip(h), l)
  PROVE  /\ Append(h, l) \in Good /\ Tip(Append(h, l)) = l
         /\ Len(Append(h, l)) = Len(h) + 1
         /\ Ancestors(Append(h, l)) = Ancestors(h) \cup {Append(h, l)}
  <1> DEFINE c == Append(h, l)
             n == Len(h)
             sid == Tip(h).sid
  <1>1. /\ h \in Seq(Layer) /\ n \in Nat /\ n >= 1 /\ Path(h)
        /\ sid \in Seq(Input) /\ Len(sid) = n - 1 /\ h[n].sid = sid
    <2>1. h \in Seq(Layer) /\ n \in Nat /\ n >= 1 /\ Path(h) /\ Len(sid) = n - 1
      BY CommitFacts DEF Good
    <2>2. n \in 1 .. Len(h)
      BY <2>1
    <2> QED
      BY <2>1, <2>2, CommitFacts DEF Tip
  <1>2. /\ c \in Seq(Layer) /\ Len(c) = n + 1 /\ c[n + 1] = l
        /\ \A i \in 1 .. n : c[i] = h[i]
    BY <1>1, AppendProperties
  <1>3. l.sid \in Seq(Input) /\ Len(l.sid) = n /\ SubSeq(l.sid, 1, n - 1) = sid
    <2> DEFINE s == Append(sid, x)
               m == Len(sid)
               t == SubSeq(s, 1, m)
    <2>1. s \in Seq(Input) /\ Len(s) = m + 1 /\ \A i \in 1 .. m : s[i] = sid[i]
      BY <1>1, AppendProperties
    <2>2. m \in Nat /\ n = m + 1 /\ n - 1 = m
      BY <1>1
    <2> HIDE DEF s, m
    <2>3. \A i \in 1 .. m : s[i] \in Input
      BY <2>1, <2>2
    <2>4. /\ t \in Seq(Input) /\ Len(t) = (IF 1 <= m THEN m - 1 + 1 ELSE 0)
          /\ \A i \in 1 .. m - 1 + 1 : t[i] = s[1 + i - 1]
      BY <2>2, <2>3, SubSeqProperties
    <2> HIDE DEF t
    <2>5. Len(t) = m
      BY <2>2, <2>4
    <2>6. ASSUME NEW i \in 1 .. m PROVE t[i] = sid[i]
      <3>1. i \in 1 .. m - 1 + 1 /\ 1 + i - 1 = i
        BY <2>2
      <3>2. t[i] = s[i]
        BY <2>4, <3>1
      <3> QED
        BY <2>1, <3>2
    <2>7. t = sid
      BY <1>1, <2>4, <2>5, <2>6, SeqEqual DEF m
    <2>8. l.sid = s
      BY DEF s
    <2> QED
      BY <2>1, <2>2, <2>7, <2>8 DEF t
  <1> HIDE DEF c, n, sid
  <1>4. Path(c)
    <2>1. c[1].sid = << >>
      <3>1. 1 \in 1 .. n
        BY <1>1
      <3> QED
        BY <1>1, <1>2, <3>1 DEF Path
    <2>2. ASSUME NEW k \in 2 .. Len(c)
          PROVE  Len(c[k].sid) = k - 1 /\ SubSeq(c[k].sid, 1, k - 2) = c[k-1].sid
      <3>1. CASE k = n + 1
        <4>1. k - 1 = n /\ k - 2 = n - 1 /\ n \in 1 .. n
          BY <1>1, <3>1
        <4>2. c[k] = l /\ c[k-1] = h[n]
          BY <1>2, <3>1, <4>1
        <4> QED
          BY <1>1, <1>3, <4>1, <4>2
      <3>2. CASE k # n + 1
        <4>1. k \in 2 .. n /\ k \in 1 .. n /\ k - 1 \in 1 .. n
          BY <1>1, <1>2, <3>2
        <4>2. c[k] = h[k] /\ c[k-1] = h[k-1]
          BY <1>2, <4>1
        <4>3. Len(h[k].sid) = k - 1 /\ SubSeq(h[k].sid, 1, k - 2) = h[k-1].sid
          BY <1>1, <4>1 DEF Path, n
        <4> QED
          BY <4>2, <4>3
      <3> QED
        BY <3>1, <3>2
    <2> QED
      BY <2>1, <2>2 DEF Path
  <1>5. c # << >>
    BY <1>1, <1>2
  <1>11. Careful => Faithful(c)
    <2> HAVE Careful
    <2>1. Faithful(h)
      BY DEF Good
    <2>2. c[1].tree = << >>
      <3>1. 1 \in 1 .. n
        BY <1>1
      <3> QED
        BY <1>2, <2>1, <3>1 DEF Faithful
    <2>3. ASSUME NEW k \in 2 .. Len(c) PROVE Grown(c[k-1], c[k])
      <3>1. CASE k = n + 1
        <4>1. k - 1 = n /\ n \in 1 .. n
          BY <1>1, <3>1
        <4>2. c[k] = l /\ c[k-1] = Tip(h)
          BY <1>2, <3>1, <4>1 DEF Tip, n
        <4> QED
          BY <4>2
      <3>2. CASE k # n + 1
        <4>1. k \in 2 .. Len(h) /\ k \in 1 .. n /\ k - 1 \in 1 .. n
          BY <1>1, <1>2, <3>2 DEF n
        <4>2. c[k] = h[k] /\ c[k-1] = h[k-1]
          BY <1>2, <4>1
        <4> QED
          BY <2>1, <4>1, <4>2 DEF Faithful
      <3> QED
        BY <3>1, <3>2
    <2> QED
      BY <2>2, <2>3 DEF Faithful
  <1>6. c \in Good
    BY <1>2, <1>4, <1>5, <1>11 DEF Good, Commits
  <1>7. Tip(c) = l
    BY <1>2 DEF Tip
  <1>8. \A k \in 1 .. n : SubSeq(c, 1, k) = SubSeq(h, 1, k)
    <2> TAKE k \in 1 .. n
    <2>1. k \in 1 .. Len(c) /\ k \in 1 .. Len(h)
      BY <1>1, <1>2 DEF n
    <2> DEFINE a == SubSeq(c, 1, k)
               b == SubSeq(h, 1, k)
    <2>2. a \in Good /\ Len(a) = k /\ \A i \in 1 .. k : a[i] = c[i]
      BY <1>6, <2>1, Prefix
    <2>3. b \in Good /\ Len(b) = k /\ \A i \in 1 .. k : b[i] = h[i]
      BY <2>1, Prefix
    <2> HIDE DEF a, b
    <2>4. \A i \in 1 .. k : i \in 1 .. n
      BY <1>1
    <2>5. \A i \in 1 .. k : a[i] = b[i]
      BY <1>2, <2>2, <2>3, <2>4
    <2>6. a \in Seq(Layer) /\ b \in Seq(Layer)
      BY <2>2, <2>3 DEF Good, Commits
    <2>7. a = b
      BY <2>2, <2>3, <2>5, <2>6, SeqEqual
    <2> QED
      BY <2>7 DEF a, b
  <1>9. SubSeq(c, 1, n + 1) = c
    <2>1. n + 1 \in 1 .. Len(c)
      BY <1>1, <1>2
    <2>2. Len(SubSeq(c, 1, n + 1)) = n + 1 /\ SubSeq(c, 1, n + 1) \in Seq(Layer)
          /\ \A i \in 1 .. n + 1 : SubSeq(c, 1, n + 1)[i] = c[i]
      BY <1>6, <2>1, Prefix DEF Good, Commits
    <2> QED
      BY <1>2, <2>2, SeqEqual
  <1>10. Ancestors(c) = Ancestors(h) \cup {c}
    <2>1. Ancestors(c) = {SubSeq(c, 1, k) : k \in 1 .. n + 1} /\ Ancestors(h) = {SubSeq(h, 1, k) : k \in 1 .. n}
      BY <1>2 DEF Ancestors, n
    <2>2. ASSUME NEW a \in Ancestors(c) PROVE a \in Ancestors(h) \cup {c}
      <3>1. PICK k \in 1 .. n + 1 : a = SubSeq(c, 1, k)
        BY <2>1
      <3>2. CASE k \in 1 .. n
        BY <1>8, <2>1, <3>1, <3>2
      <3>3. CASE k = n + 1
        BY <1>9, <3>1, <3>3
      <3> QED
        BY <1>1, <3>2, <3>3
    <2>3. ASSUME NEW a \in Ancestors(h) PROVE a \in Ancestors(c)
      <3>1. PICK k \in 1 .. n : a = SubSeq(h, 1, k)
        BY <2>1
      <3>2. k \in 1 .. n + 1
        BY <1>1
      <3> QED
        BY <1>8, <2>1, <3>1, <3>2
    <2>4. c \in Ancestors(c)
      BY <1>6, OwnAncestor
    <2> QED
      BY <2>2, <2>3, <2>4
  <1> QED
    BY <1>2, <1>6, <1>7, <1>10 DEF c, n

-----------------------------------------------------------------------------
(* Storage *)

Branch == [Ref -> {None} \cup Good]
Reflog == [Ref -> SUBSET Good]
Dir == [linked : BOOLEAN, on : {"ready", "unready", "detached"}, head : Good,
        log : SUBSET Good, dirt : Files, env : Seq(Input), hist : Seq(Input)]
Repo == [ready : Branch, unready : Branch, tag : Branch, rlog : Reflog,
         ulog : Reflog, log : SUBSET Good, wt : [Ref -> {None} \cup Dir]]

\* The HEAD of every worktree leads to a commit.
Sound(R) == R \in Repo /\ \A r \in Ref : Linked(R, r) => WorktreeHead(R, r) \in Good

\* The files of a worktree are those of its HEAD, and those of a directory that
\* is none are those that "import --no-cache" put there.
Made(x) == {<<Done(x, o)>> : o \in Outcome \cup {0}}
Neat(w, r) ==
    Careful => IF w.linked = TRUE THEN w.dirt = << >> ELSE w.dirt \in Made(ImportOf(r))
Tidy(R) == \A r \in Ref : R.wt[r] # None => Neat(R.wt[r], r)

\* All but the directory of r.
TidyBut(R, r) == \A q \in Ref : q # r /\ R.wt[q] # None => Neat(R.wt[q], q)

LEMMA TidyIntro ==
  ASSUME NEW R, NEW S, NEW r \in Ref, Tidy(R),
         \A q \in Ref : q # r => S.wt[q] = R.wt[q],
         S.wt[r] # None => Neat(S.wt[r], r)
  PROVE  Tidy(S)
  BY DEF Tidy

LEMMA NoneIsNoDir == None \notin Dir
  <1>1. Good \subseteq Commits
    BY DEF Good
  <1>2. Dir \subseteq Worktree
    BY <1>1 DEF Dir, Worktree
  <1> QED
    BY <1>2, NoneAssumption

LEMMA NoneIsNoCommit == None \notin Good
  BY NoneAssumption DEF Good

LEMMA RepoFields ==
  ASSUME NEW R \in Repo
  PROVE  /\ R.ready \in Branch /\ R.unready \in Branch /\ R.tag \in Branch
         /\ R.rlog \in Reflog /\ R.ulog \in Reflog /\ R.log \in SUBSET Good
         /\ R.wt \in [Ref -> {None} \cup Dir]
  BY DEF Repo

\* A repository whose branches, logs and worktrees are replaced.
LEMMA RepoIntro ==
  ASSUME NEW ready \in Branch, NEW unready \in Branch, NEW tag \in Branch,
         NEW rlog \in Reflog, NEW ulog \in Reflog, NEW log \in SUBSET Good,
         NEW wt \in [Ref -> {None} \cup Dir]
  PROVE  [ready |-> ready, unready |-> unready, tag |-> tag, wt |-> wt,
          rlog |-> rlog, ulog |-> ulog, log |-> log] \in Repo
  BY DEF Repo

LEMMA BranchSet ==
  ASSUME NEW b \in Branch, NEW r \in Ref, NEW c \in {None} \cup Good
  PROVE  /\ [b EXCEPT ![r] = c] \in Branch /\ [b EXCEPT ![r] = c][r] = c
         /\ \A q \in Ref : q # r => [b EXCEPT ![r] = c][q] = b[q]
  BY DEF Branch

LEMMA ReflogSet ==
  ASSUME NEW b \in Reflog, NEW r \in Ref, NEW c \in SUBSET Good
  PROVE  /\ [b EXCEPT ![r] = c] \in Reflog /\ [b EXCEPT ![r] = c][r] = c
         /\ \A q \in Ref : q # r => [b EXCEPT ![r] = c][q] = b[q]
  BY DEF Reflog

LEMMA DirSet ==
  ASSUME NEW b \in [Ref -> {None} \cup Dir], NEW r \in Ref, NEW c \in {None} \cup Dir
  PROVE  /\ [b EXCEPT ![r] = c] \in [Ref -> {None} \cup Dir] /\ [b EXCEPT ![r] = c][r] = c
         /\ \A q \in Ref : q # r => [b EXCEPT ![r] = c][q] = b[q]
  OBVIOUS

LEMMA NewWorktreeFacts ==
  ASSUME NEW R \in Repo, NEW r \in Ref, NEW c \in Good
  PROVE  LET N == NewWorktree(R, r, c) IN
         /\ N \in Repo
         /\ N.ready = R.ready /\ N.tag = R.tag /\ N.rlog = R.rlog /\ N.log = R.log
         /\ N.unready = [R.unready EXCEPT ![r] = c]
         /\ N.ulog = [R.ulog EXCEPT ![r] = @ \cup {c} \cup Some(R.unready[r])]
         /\ N.wt = [R.wt EXCEPT ![r] =
                [linked |-> TRUE, on |-> "unready", head |-> Root, log |-> {c},
                 dirt |-> <<>>, env |-> Tip(c).env, hist |-> Tip(c).hist]]
  <1> DEFINE N == NewWorktree(R, r, c)
             w == [linked |-> TRUE, on |-> "unready", head |-> Root, log |-> {c},
                   dirt |-> <<>>, env |-> Tip(c).env, hist |-> Tip(c).hist]
             u == [R.unready EXCEPT ![r] = c]
             ul == [R.ulog EXCEPT ![r] = @ \cup {c} \cup Some(R.unready[r])]
             wt == [R.wt EXCEPT ![r] = w]
  <1>1. N = [R EXCEPT !.unready = u, !.ulog = ul, !.wt = wt]
    BY DEF NewWorktree
  <1>2. w \in Dir
    <2>1. Tip(c).env \in Seq(Input) /\ Tip(c).hist \in Seq(Input) /\ Root \in Good
      BY CommitFacts, RootGood DEF Layer
    <2>2. << >> \in Files
      BY DEF Files
    <2> QED
      BY <2>1, <2>2 DEF Dir
  <1> HIDE DEF N, w, u, ul, wt
  <1>3. /\ N.unready = u /\ N.ulog = ul /\ N.wt = wt
        /\ N.ready = R.ready /\ N.tag = R.tag /\ N.rlog = R.rlog /\ N.log = R.log
    BY <1>1 DEF Repo
  <1>4. u \in Branch /\ ul \in Reflog /\ wt \in [Ref -> {None} \cup Dir]
    <2>1. R.unready \in Branch /\ R.ulog \in Reflog /\ R.wt \in [Ref -> {None} \cup Dir]
      BY RepoFields
    <2>2. Some(R.unready[r]) \subseteq Good /\ R.ulog[r] \subseteq Good
      BY <2>1 DEF Some, Branch, Reflog
    <2>3. (R.ulog[r] \cup {c} \cup Some(R.unready[r])) \in SUBSET Good
      BY <2>2
    <2> QED
      BY <1>2, <2>1, <2>3, BranchSet, ReflogSet, DirSet DEF u, ul, wt
  <1>5. N \in Repo
    BY <1>1, <1>4 DEF Repo
  <1> QED
    BY <1>3, <1>5 DEF N, w, u, ul, wt

\* Only the directory of r changes.
LEMMA SetDirFacts ==
  ASSUME NEW R \in Repo, NEW r \in Ref, NEW w \in {None} \cup Dir
  PROVE  LET S == [R EXCEPT !.wt = [R.wt EXCEPT ![r] = w]] IN
         /\ S \in Repo
         /\ S.ready = R.ready /\ S.tag = R.tag /\ S.rlog = R.rlog /\ S.log = R.log
         /\ S.unready = R.unready /\ S.ulog = R.ulog
         /\ S.wt = [R.wt EXCEPT ![r] = w] /\ S.wt[r] = w
         /\ \A q \in Ref : q # r => S.wt[q] = R.wt[q]
  <1> DEFINE wt == [R.wt EXCEPT ![r] = w]
             S == [R EXCEPT !.wt = wt]
  <1>1. R.wt \in [Ref -> {None} \cup Dir]
    BY RepoFields
  <1>2. wt \in [Ref -> {None} \cup Dir] /\ wt[r] = w /\ \A q \in Ref : q # r => wt[q] = R.wt[q]
    BY <1>1, DirSet
  <1> HIDE DEF wt
  <1>3. S \in Repo
    BY <1>2 DEF Repo
  <1>4. /\ S.ready = R.ready /\ S.tag = R.tag /\ S.rlog = R.rlog /\ S.log = R.log
        /\ S.unready = R.unready /\ S.ulog = R.ulog /\ S.wt = wt
    BY DEF Repo
  <1> QED
    BY <1>2, <1>3, <1>4 DEF wt

\* A directory whose files or metadata change.
LEMMA DirContent ==
  ASSUME NEW w \in Dir, NEW f \in Files, NEW e \in Seq(Input), NEW h \in Seq(Input)
  PROVE  LET v == [w EXCEPT !.dirt = f, !.env = e, !.hist = h] IN
         /\ v \in Dir /\ v.dirt = f /\ v.env = e /\ v.hist = h
         /\ v.linked = w.linked /\ v.on = w.on /\ v.head = w.head /\ v.log = w.log
  BY DEF Dir

LEMMA SwitchUnreadyFacts ==
  ASSUME NEW R \in Repo, NEW r \in Ref, NEW c \in Good, R.wt[r] # None,
         WorktreeHead(R, r) \in Good
  PROVE  LET N == SwitchUnready(R, r, c) IN
         /\ N \in Repo
         /\ N.ready = R.ready /\ N.tag = R.tag /\ N.rlog = R.rlog /\ N.log = R.log
         /\ N.unready = [R.unready EXCEPT ![r] = c]
         /\ N.ulog = [R.ulog EXCEPT ![r] = @ \cup {c} \cup Some(R.unready[r])]
         /\ N.wt[r] \in Dir /\ N.wt[r].linked = R.wt[r].linked /\ N.wt[r].on = "unready"
         /\ N.wt[r].log = R.wt[r].log \cup {c, WorktreeHead(R, r)}
         /\ N.wt[r].dirt = R.wt[r].dirt
         /\ \A q \in Ref : q # r => N.wt[q] = R.wt[q]
  <1> DEFINE N == SwitchUnready(R, r, c)
             w == R.wt[r]
             h == Tip(WorktreeHead(R, r))
             clean == w.env = h.env /\ w.hist = h.hist
             lg == w.log \cup {c, WorktreeHead(R, r)}
             e == IF clean THEN Tip(c).env ELSE w.env
             hi == IF clean THEN Tip(c).hist ELSE w.hist
             v == [w EXCEPT !.on = "unready", !.log = lg, !.env = e, !.hist = hi]
             u == [R.unready EXCEPT ![r] = c]
             ul == [R.ulog EXCEPT ![r] = @ \cup {c} \cup Some(R.unready[r])]
             wt == [R.wt EXCEPT ![r] = v]
  <1>1. N = [R EXCEPT !.unready = u, !.ulog = ul, !.wt = wt]
    BY DEF SwitchUnready
  <1>2. /\ R.wt \in [Ref -> {None} \cup Dir] /\ w \in Dir
        /\ R.unready \in Branch /\ R.ulog \in Reflog
    BY RepoFields
  <1>3. v \in Dir /\ v.linked = w.linked /\ v.on = "unready" /\ v.log = lg
        /\ v.dirt = w.dirt
    <2>1. Tip(c).env \in Seq(Input) /\ Tip(c).hist \in Seq(Input)
      BY CommitFacts DEF Layer
    <2>2. w.env \in Seq(Input) /\ w.hist \in Seq(Input) /\ w.log \in SUBSET Good
      BY <1>2 DEF Dir
    <2>3. e \in Seq(Input) /\ hi \in Seq(Input) /\ lg \in SUBSET Good
      BY <2>1, <2>2
    <2> HIDE DEF e, hi, lg, w
    <2> QED
      BY <1>2, <2>3 DEF Dir
  <1>4. u \in Branch /\ ul \in Reflog /\ wt \in [Ref -> {None} \cup Dir]
        /\ wt[r] = v /\ \A q \in Ref : q # r => wt[q] = R.wt[q]
    <2> HIDE DEF v, w
    <2>1. Some(R.unready[r]) \subseteq Good /\ R.ulog[r] \subseteq Good
      BY <1>2 DEF Some, Branch, Reflog
    <2>2. (R.ulog[r] \cup {c} \cup Some(R.unready[r])) \in SUBSET Good
      BY <2>1
    <2> QED
      BY <1>2, <1>3, <2>2, BranchSet, ReflogSet, DirSet DEF u, ul, wt
  <1> HIDE DEF N, w, v, u, ul, wt
  <1>5. /\ N.unready = u /\ N.ulog = ul /\ N.wt = wt
        /\ N.ready = R.ready /\ N.tag = R.tag /\ N.rlog = R.rlog /\ N.log = R.log
    BY <1>1 DEF Repo
  <1>6. N \in Repo
    BY <1>1, <1>4 DEF Repo
  <1>7. lg = R.wt[r].log \cup {c, WorktreeHead(R, r)} /\ v.linked = R.wt[r].linked
        /\ v.dirt = R.wt[r].dirt
    BY <1>3 DEF w
  <1> HIDE DEF lg
  <1>8. N.wt[r] \in Dir /\ N.wt[r].linked = R.wt[r].linked /\ N.wt[r].on = "unready"
        /\ N.wt[r].log = R.wt[r].log \cup {c, WorktreeHead(R, r)}
        /\ N.wt[r].dirt = R.wt[r].dirt
        /\ \A q \in Ref : q # r => N.wt[q] = R.wt[q]
    BY <1>3, <1>4, <1>5, <1>7
  <1> QED
    BY <1>5, <1>6, <1>8 DEF N, u, ul

LEMMA MakeReadyFacts ==
  ASSUME NEW R \in Repo, NEW r \in Ref, R.wt[r] # None, WorktreeHead(R, r) \in Good
  PROVE  LET N == MakeReady(R, r) h == WorktreeHead(R, r) IN
         /\ N \in Repo
         /\ N.tag = [R.tag EXCEPT ![r] = None]
         /\ N.ready = [R.ready EXCEPT ![r] = h]
         /\ N.rlog = [R.rlog EXCEPT ![r] = @ \cup {h} \cup Some(R.ready[r])]
         /\ N.unready = [R.unready EXCEPT ![r] = None]
         /\ N.ulog = [R.ulog EXCEPT ![r] = {}]
         /\ N.log = R.log \cup Some(R.unready[r])
         /\ N.wt[r] \in Dir /\ N.wt[r].linked = R.wt[r].linked /\ N.wt[r].on = "ready"
         /\ N.wt[r].hist = R.wt[r].hist /\ N.wt[r].env = R.wt[r].env
         /\ N.wt[r].dirt = R.wt[r].dirt
         /\ \A q \in Ref : q # r => N.wt[q] = R.wt[q]
  <1> DEFINE N == MakeReady(R, r)
             h == WorktreeHead(R, r)
             w == R.wt[r]
             lg == w.log \cup {h}
             v == [w EXCEPT !.on = "ready", !.log = lg]
             t == [R.tag EXCEPT ![r] = None]
             b == [R.ready EXCEPT ![r] = h]
             rl == [R.rlog EXCEPT ![r] = @ \cup {h} \cup Some(R.ready[r])]
             wt == [R.wt EXCEPT ![r] = v]
             M == [R EXCEPT !.tag = t, !.ready = b, !.rlog = rl, !.wt = wt]
             u == [M.unready EXCEPT ![r] = None]
             ul == [M.ulog EXCEPT ![r] = {}]
             l == M.log \cup Some(M.unready[r])
  <1>1. N = UnreadyDelete([R EXCEPT !.tag[r] = None, !.ready[r] = h,
                            !.rlog[r] = @ \cup {h} \cup Some(R.ready[r]),
                            !.wt[r].on = "ready", !.wt[r].log = @ \cup {h}], r)
    BY DEF MakeReady
  <1>2. /\ R.wt \in [Ref -> {None} \cup Dir] /\ w \in Dir
        /\ R.unready \in Branch /\ R.ulog \in Reflog /\ R.rlog \in Reflog
        /\ R.ready \in Branch /\ R.tag \in Branch /\ R.log \in SUBSET Good
    BY RepoFields
  <1>3. [R.wt EXCEPT ![r].on = "ready", ![r].log = @ \cup {h}] = wt
    BY <1>2 DEF Dir
  <1>4. N = UnreadyDelete(M, r)
    BY <1>1, <1>3
  <1>5. v \in Dir /\ v.linked = w.linked /\ v.on = "ready" /\ v.hist = w.hist /\ v.env = w.env
        /\ v.dirt = w.dirt
    <2>1. lg \in SUBSET Good
      BY <1>2 DEF Dir
    <2> HIDE DEF lg, w
    <2> QED
      BY <1>2, <2>1 DEF Dir
  <1>6. /\ t \in Branch /\ b \in Branch /\ rl \in Reflog /\ wt \in [Ref -> {None} \cup Dir]
        /\ wt[r] = v /\ \A q \in Ref : q # r => wt[q] = R.wt[q]
    <2> HIDE DEF v, w
    <2>1. Some(R.ready[r]) \subseteq Good /\ R.rlog[r] \subseteq Good
      BY <1>2 DEF Some, Branch, Reflog
    <2>2. (R.rlog[r] \cup {h} \cup Some(R.ready[r])) \in SUBSET Good
      BY <2>1
    <2>3. t \in Branch
      BY <1>2, BranchSet DEF t
    <2>4. b \in Branch
      BY <1>2, BranchSet DEF b
    <2>5. rl \in Reflog
      BY <1>2, <2>2, ReflogSet DEF rl
    <2>6. /\ wt \in [Ref -> {None} \cup Dir]
          /\ wt[r] = v /\ \A q \in Ref : q # r => wt[q] = R.wt[q]
      BY <1>2, <1>5, DirSet DEF wt
    <2> QED
      BY <2>3, <2>4, <2>5, <2>6
  <1> HIDE DEF N, w, v, t, b, rl, wt
  <1>7. /\ M.unready = R.unready /\ M.ulog = R.ulog /\ M.log = R.log
        /\ M.tag = t /\ M.ready = b /\ M.rlog = rl /\ M.wt = wt /\ M \in Repo
    BY <1>6 DEF Repo
  <1>8. N = [M EXCEPT !.log = l, !.unready = u, !.ulog = ul]
    BY <1>4 DEF UnreadyDelete
  <1> HIDE DEF M
  <1>9. u \in Branch /\ ul \in Reflog /\ l \in SUBSET Good
    <2>1. Some(M.unready[r]) \subseteq Good
      BY <1>2, <1>7 DEF Some, Branch
    <2>2. l \in SUBSET Good
      BY <1>2, <1>7, <2>1
    <2>3. u \in Branch
      BY <1>2, <1>7, BranchSet
    <2>4. ul \in Reflog
      BY <1>2, <1>7, ReflogSet
    <2> QED
      BY <2>2, <2>3, <2>4
  <1> HIDE DEF u, ul, l
  <1>10. /\ N \in Repo /\ N.unready = u /\ N.ulog = ul /\ N.log = l
         /\ N.tag = t /\ N.ready = b /\ N.rlog = rl /\ N.wt = wt
    BY <1>7, <1>8, <1>9 DEF Repo
  <1>11. /\ N.wt[r] \in Dir /\ N.wt[r].linked = R.wt[r].linked /\ N.wt[r].on = "ready"
         /\ N.wt[r].hist = R.wt[r].hist /\ N.wt[r].env = R.wt[r].env
         /\ N.wt[r].dirt = R.wt[r].dirt
         /\ \A q \in Ref : q # r => N.wt[q] = R.wt[q]
    BY <1>5, <1>6, <1>10 DEF w
  <1> QED
    BY <1>7, <1>10, <1>11 DEF N, u, ul, l, t, b, rl

LEMMA WorktreeAdoptFacts ==
  ASSUME NEW R \in Repo, NEW r \in Ref, R.wt[r] # None
  PROVE  LET N == WorktreeAdopt(R, r) IN
         /\ N \in Repo
         /\ N.ready = R.ready /\ N.tag = R.tag /\ N.rlog = R.rlog /\ N.log = R.log
         /\ N.unready = [R.unready EXCEPT ![r] = Root]
         /\ N.ulog = [R.ulog EXCEPT ![r] = @ \cup {Root} \cup Some(R.unready[r])]
         /\ N.wt[r] \in Dir /\ N.wt[r].linked = TRUE /\ N.wt[r].on = "unready"
         /\ N.wt[r].dirt = R.wt[r].dirt
         /\ \A q \in Ref : q # r => N.wt[q] = R.wt[q]
  <1> DEFINE N == WorktreeAdopt(R, r)
             M == NewWorktree(R, r, Root)
             w == M.wt[r]
             v == [w EXCEPT !.dirt = R.wt[r].dirt, !.env = R.wt[r].env, !.hist = R.wt[r].hist]
             wt == [M.wt EXCEPT ![r] = v]
  <1>1. Root \in Good
    BY RootGood
  <1>2. /\ M \in Repo
        /\ M.ready = R.ready /\ M.tag = R.tag /\ M.rlog = R.rlog /\ M.log = R.log
        /\ M.unready = [R.unready EXCEPT ![r] = Root]
        /\ M.ulog = [R.ulog EXCEPT ![r] = @ \cup {Root} \cup Some(R.unready[r])]
        /\ M.wt = [R.wt EXCEPT ![r] =
              [linked |-> TRUE, on |-> "unready", head |-> Root, log |-> {Root},
               dirt |-> <<>>, env |-> Tip(Root).env, hist |-> Tip(Root).hist]]
    BY <1>1, NewWorktreeFacts
  <1>3. R.wt \in [Ref -> {None} \cup Dir] /\ R.wt[r] \in Dir
    BY RepoFields
  <1>4. M.wt \in [Ref -> {None} \cup Dir]
    BY <1>2, RepoFields
  <1>5. /\ w = [linked |-> TRUE, on |-> "unready", head |-> Root, log |-> {Root},
                dirt |-> <<>>, env |-> Tip(Root).env, hist |-> Tip(Root).hist]
        /\ \A q \in Ref : q # r => M.wt[q] = R.wt[q]
    BY <1>2, <1>3
  <1>6. w.linked = TRUE /\ w.on = "unready"
    BY <1>5
  <1>7. w # None
    <2>1. w \in Dir
      <3>1. Tip(Root) \in Layer /\ << >> \in Files
        BY <1>1, CommitFacts DEF Files
      <3>2. Tip(Root).env \in Seq(Input) /\ Tip(Root).hist \in Seq(Input)
        BY <3>1 DEF Layer
      <3> QED
        BY <1>1, <1>5, <3>1, <3>2 DEF Dir
    <2> QED
      BY <2>1, NoneIsNoDir
  <1>8. w \in Dir
    BY <1>4, <1>7
  <1>9. R.wt[r].dirt \in Files /\ R.wt[r].env \in Seq(Input) /\ R.wt[r].hist \in Seq(Input)
    BY <1>3 DEF Dir
  <1>10. v \in Dir /\ v.linked = w.linked /\ v.on = w.on /\ v.dirt = R.wt[r].dirt
    <2> DEFINE f == R.wt[r].dirt
               e == R.wt[r].env
               hi == R.wt[r].hist
    <2> HIDE DEF w, f, e, hi
    <2>1. f \in Files /\ e \in Seq(Input) /\ hi \in Seq(Input)
      BY <1>9 DEF f, e, hi
    <2>2. v = [w EXCEPT !.dirt = f, !.env = e, !.hist = hi]
      BY DEF f, e, hi
    <2> HIDE DEF v
    <2>3. v \in Dir /\ v.linked = w.linked /\ v.on = w.on /\ v.dirt = f
      BY <1>8, <2>1, <2>2 DEF Dir
    <2> QED
      BY <2>3 DEF f
  <1>11. N = [M EXCEPT !.wt = [M.wt EXCEPT ![r].dirt = R.wt[r].dirt,
                ![r].env = R.wt[r].env, ![r].hist = R.wt[r].hist]]
    BY DEF WorktreeAdopt
  <1>12. [M.wt EXCEPT ![r].dirt = R.wt[r].dirt, ![r].env = R.wt[r].env,
                ![r].hist = R.wt[r].hist] = wt
    <2> HIDE DEF M
    <2> QED
      BY <1>4, <1>8 DEF Dir
  <1>13. N = [M EXCEPT !.wt = [M.wt EXCEPT ![r] = v]]
    BY <1>11, <1>12
  <1> HIDE DEF N, M, v, w
  <1>14. /\ N \in Repo
         /\ N.ready = M.ready /\ N.tag = M.tag /\ N.rlog = M.rlog /\ N.log = M.log
         /\ N.unready = M.unready /\ N.ulog = M.ulog
         /\ N.wt[r] = v /\ \A q \in Ref : q # r => N.wt[q] = M.wt[q]
    <2>1. wt \in [Ref -> {None} \cup Dir] /\ wt[r] = v /\ \A q \in Ref : q # r => wt[q] = M.wt[q]
      BY <1>4, <1>10, DirSet
    <2> HIDE DEF wt
    <2>2. N = [M EXCEPT !.wt = wt]
      BY <1>13 DEF wt
    <2> QED
      BY <1>2, <2>1, <2>2 DEF Repo
  <1>15. /\ N.wt[r] \in Dir /\ N.wt[r].linked = TRUE /\ N.wt[r].on = "unready"
         /\ N.wt[r].dirt = R.wt[r].dirt
         /\ \A q \in Ref : q # r => N.wt[q] = R.wt[q]
    BY <1>5, <1>6, <1>10, <1>14
  <1> QED
    BY <1>2, <1>14, <1>15 DEF N

\* N is R after whatever HEAD of image r is on has moved to commit c, which
\* has all the files, or (files) only the metadata.
Committed(R, N, r, c, files) ==
    LET on == R.wt[r].on IN
    /\ N.tag = R.tag /\ N.log = R.log
    /\ N.ready = [R.ready EXCEPT ![r] = IF on = "ready" THEN c ELSE @]
    /\ N.rlog = [R.rlog EXCEPT ![r] = IF on = "ready" THEN @ \cup {c} ELSE @]
    /\ N.unready = [R.unready EXCEPT ![r] = IF on = "unready" THEN c ELSE @]
    /\ N.ulog = [R.ulog EXCEPT ![r] = IF on = "unready" THEN @ \cup {c} ELSE @]
    /\ N.wt[r] \in Dir /\ N.wt[r].linked = R.wt[r].linked /\ N.wt[r].on = on
    /\ N.wt[r].head = IF on = "detached" THEN c ELSE R.wt[r].head
    /\ N.wt[r].log = R.wt[r].log \cup {c}
    /\ N.wt[r].hist = R.wt[r].hist /\ N.wt[r].env = R.wt[r].env
    /\ N.wt[r].dirt = IF files THEN R.wt[r].dirt ELSE << >>
    /\ \A q \in Ref : q # r => N.wt[q] = R.wt[q]

\* The files of the layer to be committed follow from its state ID.
Fits(R, r, sid, files) ==
    Careful => Grown(Tip(WorktreeHead(R, r)), LayerOf(R, r, sid, files))

\* c is a new commit for state ID sid on the HEAD of image r.
Child(R, r, c, sid) ==
    /\ c \in Good /\ Tip(c).sid = sid
    /\ Ancestors(c) = Ancestors(WorktreeHead(R, r)) \cup {c}

LEMMA CommitRepo ==
  ASSUME NEW R \in Repo, NEW r \in Ref, R.wt[r] # None, WorktreeHead(R, r) \in Good,
         NEW sid, NEW x \in Input, sid = Append(Tip(WorktreeHead(R, r)).sid, x),
         NEW files \in BOOLEAN,
         Fits(R, r, sid, files)
  PROVE  LET N == Commit(R, r, sid, files)
             c == Append(WorktreeHead(R, r), LayerOf(R, r, sid, files))
         IN  N \in Repo /\ Committed(R, N, r, c, files) /\ Child(R, r, c, sid)
  <1> DEFINE N == Commit(R, r, sid, files)
             h == WorktreeHead(R, r)
             ly == LayerOf(R, r, sid, files)
             c == Append(h, ly)
             w == R.wt[r]
             on == w.on
             hd == IF on = "detached" THEN c ELSE w.head
             lg == w.log \cup {c}
             dt == IF files THEN w.dirt ELSE << >>
             v == [w EXCEPT !.head = hd, !.log = lg, !.dirt = dt]
             b == [R.ready EXCEPT ![r] = IF on = "ready" THEN c ELSE @]
             rl == [R.rlog EXCEPT ![r] = IF on = "ready" THEN @ \cup {c} ELSE @]
             u == [R.unready EXCEPT ![r] = IF on = "unready" THEN c ELSE @]
             ul == [R.ulog EXCEPT ![r] = IF on = "unready" THEN @ \cup {c} ELSE @]
             wt == [R.wt EXCEPT ![r] = v]
  <1>1. N = [R EXCEPT !.ready = b, !.rlog = rl, !.unready = u, !.ulog = ul, !.wt = wt]
    BY DEF Commit
  <1>2. /\ R.wt \in [Ref -> {None} \cup Dir] /\ w \in Dir
        /\ R.unready \in Branch /\ R.ulog \in Reflog /\ R.rlog \in Reflog
        /\ R.ready \in Branch
    BY RepoFields
  <1>3. /\ on \in {"ready", "unready", "detached"} /\ w.head \in Good /\ w.log \in SUBSET Good
        /\ w.dirt \in Files /\ w.env \in Seq(Input) /\ w.hist \in Seq(Input)
    BY <1>2 DEF Dir
  <1>4. ly \in Layer /\ ly.sid = sid
    <2> DEFINE more == IF files THEN << >> ELSE w.dirt
    <2>1. Tip(h) \in Layer
      BY CommitFacts
    <2>2. Tip(h).tree \in Files /\ Tip(h).sid \in Seq(Input)
      BY <2>1 DEF Layer
    <2>3. more \in Files
      BY <1>3 DEF Files
    <2>4. Tip(h).tree \o more \in Files
      BY <2>2, <2>3, ConcatProperties DEF Files
    <2>5. sid \in Seq(Input)
      BY <2>2, AppendProperties
    <2>6. ly = [sid |-> sid, tree |-> Tip(h).tree \o more, env |-> w.env, hist |-> w.hist]
      BY DEF LayerOf
    <2> HIDE DEF ly, more, w, h
    <2> QED
      BY <1>3, <2>4, <2>5, <2>6 DEF Layer
  <1> HIDE DEF ly
  <1>5. c \in Good /\ Tip(c) = ly /\ Ancestors(c) = Ancestors(h) \cup {c}
    <2>1. ly.sid = Append(Tip(h).sid, x)
      BY <1>4
    <2>2. Careful => Grown(Tip(h), ly)
      BY DEF ly, Fits
    <2> QED
      BY <1>4, <2>1, <2>2, NewCommit
  <1> HIDE DEF c
  <1>6. /\ v \in Dir /\ v.linked = w.linked /\ v.on = on /\ v.head = hd /\ v.log = lg
        /\ v.hist = w.hist /\ v.env = w.env /\ v.dirt = dt
    <2>1. hd \in Good /\ lg \in SUBSET Good /\ dt \in Files
      BY <1>3, <1>5 DEF Files
    <2> HIDE DEF hd, lg, dt, w
    <2> QED
      BY <1>2, <2>1 DEF Dir
  <1>7. wt \in [Ref -> {None} \cup Dir] /\ wt[r] = v /\ \A q \in Ref : q # r => wt[q] = R.wt[q]
    BY <1>2, <1>6, DirSet
  <1>8. b \in Branch /\ u \in Branch
    BY <1>2, <1>5 DEF Branch
  <1>9. rl \in Reflog /\ ul \in Reflog
    BY <1>2, <1>5 DEF Reflog
  <1> HIDE DEF N, h, v, b, rl, u, ul, wt
  <1>10. /\ N \in Repo /\ N.unready = u /\ N.ulog = ul /\ N.log = R.log
         /\ N.tag = R.tag /\ N.ready = b /\ N.rlog = rl /\ N.wt = wt
    BY <1>1, <1>7, <1>8, <1>9 DEF Repo
  <1>11. /\ N.wt[r] \in Dir /\ N.wt[r].linked = w.linked /\ N.wt[r].on = on
         /\ N.wt[r].head = hd /\ N.wt[r].log = lg
         /\ N.wt[r].hist = w.hist /\ N.wt[r].env = w.env /\ N.wt[r].dirt = dt
         /\ \A q \in Ref : q # r => N.wt[q] = R.wt[q]
    BY <1>6, <1>7, <1>10
  <1>12. Tip(c).sid = sid
    BY <1>4, <1>5
  <1>13. Committed(R, N, r, c, files)
    BY <1>10, <1>11 DEF Committed, b, rl, u, ul
  <1> QED
    BY <1>5, <1>10, <1>12, <1>13 DEF N, h, c, ly, Child

LEMMA BranchDeleteFacts ==
  ASSUME NEW R \in Repo, NEW r \in Ref, R.ready[r] # None
  PROVE  LET N == BranchDelete(R, r) IN
         /\ N \in Repo /\ N.wt = R.wt
         /\ N.ready = [R.ready EXCEPT ![r] = None]
         /\ N.unready = [R.unready EXCEPT ![r] = None]
         /\ N.rlog = [R.rlog EXCEPT ![r] = {}]
         /\ N.log = R.log \cup {R.ready[r]} \cup Some(R.unready[r])
  <1> DEFINE N == BranchDelete(R, r)
             t == [R.tag EXCEPT ![r] = R.ready[r]]
             b == [R.ready EXCEPT ![r] = None]
             rl == [R.rlog EXCEPT ![r] = {}]
             lg == R.log \cup {R.ready[r]}
             M == [R EXCEPT !.tag = t, !.log = lg, !.ready = b, !.rlog = rl]
             u == [M.unready EXCEPT ![r] = None]
             ul == [M.ulog EXCEPT ![r] = {}]
             l == M.log \cup Some(M.unready[r])
  <1>1. N = UnreadyDelete(M, r)
    BY DEF BranchDelete
  <1>2. N = [M EXCEPT !.log = l, !.unready = u, !.ulog = ul]
    BY <1>1 DEF UnreadyDelete
  <1>3. /\ R.unready \in Branch /\ R.ulog \in Reflog /\ R.rlog \in Reflog
        /\ R.ready \in Branch /\ R.tag \in Branch /\ R.log \in SUBSET Good
        /\ R.wt \in [Ref -> {None} \cup Dir]
    BY RepoFields
  <1>4. R.ready[r] \in Good /\ Some(R.unready[r]) \subseteq Good
    BY <1>3 DEF Branch, Some
  <1>5. t \in Branch /\ b \in Branch /\ rl \in Reflog /\ lg \in SUBSET Good
    BY <1>3, <1>4, BranchSet, ReflogSet
  <1> HIDE DEF t, b, rl, lg
  <1>6. /\ M \in Repo /\ M.tag = t /\ M.ready = b /\ M.rlog = rl /\ M.log = lg
        /\ M.unready = R.unready /\ M.ulog = R.ulog /\ M.wt = R.wt
    BY <1>5 DEF Repo
  <1> HIDE DEF N, M
  <1>7. l \in SUBSET Good
    BY <1>4, <1>5, <1>6
  <1>8. u \in Branch
    BY <1>3, <1>6, BranchSet
  <1>9. ul \in Reflog
    BY <1>3, <1>6, ReflogSet
  <1> HIDE DEF l, u, ul
  <1>10. /\ N \in Repo /\ N.tag = t /\ N.ready = b /\ N.rlog = rl /\ N.log = l
         /\ N.unready = u /\ N.wt = R.wt
    BY <1>2, <1>6, <1>7, <1>8, <1>9 DEF Repo
  <1> QED
    BY <1>6, <1>10 DEF N, b, rl, l, u, lg

LEMMA BranchNocheckoutFacts ==
  ASSUME NEW R \in Repo, NEW src \in Ref, NEW dest \in Ref, R.ready[dest] # None,
         R.wt[src] # None => WorktreeHead(R, src) \in Good
  PROVE  LET N == BranchNocheckout(R, src, dest) IN
         /\ N \in Repo /\ N.log = R.log /\ N.unready = R.unready
         /\ N.ready = [R.ready EXCEPT ![src] = R.ready[dest]]
         /\ N.rlog = [R.rlog EXCEPT ![src] = @ \cup {R.ready[dest]} \cup Some(R.ready[src])]
         /\ N.wt[src] # None => N.wt[src].on = "detached" /\ N.wt[src].head \in Good
         /\ N.wt[src] # None => /\ R.wt[src] # None /\ N.wt[src].linked = R.wt[src].linked
                                /\ N.wt[src].dirt = R.wt[src].dirt
         /\ \A q \in Ref : q # src => N.wt[q] = R.wt[q]
  <1> DEFINE N == BranchNocheckout(R, src, dest)
             w == R.wt[src]
             v == IF w = None THEN w
                  ELSE [w EXCEPT !.head = WorktreeHead(R, src), !.on = "detached"]
             b == [R.ready EXCEPT ![src] = R.ready[dest]]
             rl == [R.rlog EXCEPT ![src] = @ \cup {R.ready[dest]} \cup Some(R.ready[src])]
             wt == [R.wt EXCEPT ![src] = v]
  <1>1. N = [R EXCEPT !.ready = b, !.rlog = rl, !.wt = wt]
    BY DEF BranchNocheckout
  <1>2. /\ R.rlog \in Reflog /\ R.ready \in Branch
        /\ R.wt \in [Ref -> {None} \cup Dir]
    BY RepoFields
  <1>3. R.ready[dest] \in Good /\ Some(R.ready[src]) \subseteq Good /\ R.rlog[src] \subseteq Good
    BY <1>2 DEF Branch, Some, Reflog
  <1>4. b \in Branch /\ rl \in Reflog
    <2>1. (R.rlog[src] \cup {R.ready[dest]} \cup Some(R.ready[src])) \in SUBSET Good
      BY <1>3
    <2> QED
      BY <1>2, <1>3, <2>1, BranchSet, ReflogSet
  <1>5. /\ v \in {None} \cup Dir
        /\ v # None => /\ v.on = "detached" /\ v.head \in Good
                       /\ w # None /\ v.linked = w.linked /\ v.dirt = w.dirt
    <2>1. CASE w = None
      BY <2>1
    <2>2. CASE w # None
      <3> DEFINE h == WorktreeHead(R, src)
      <3>1. w \in Dir /\ h \in Good /\ v = [w EXCEPT !.head = h, !.on = "detached"]
        BY <1>2, <2>2
      <3> HIDE DEF h, w, v
      <3>2. v \in Dir /\ v.on = "detached" /\ v.head = h /\ v.linked = w.linked /\ v.dirt = w.dirt
        BY <3>1 DEF Dir
      <3> QED
        BY <2>2, <3>1, <3>2
    <2> QED
      BY <2>1, <2>2
  <1> HIDE DEF v
  <1>6. wt \in [Ref -> {None} \cup Dir] /\ wt[src] = v /\ \A q \in Ref : q # src => wt[q] = R.wt[q]
    BY <1>2, <1>5, DirSet
  <1> HIDE DEF N, b, rl, wt
  <1>7. /\ N \in Repo /\ N.ready = b /\ N.rlog = rl /\ N.wt = wt
        /\ N.log = R.log /\ N.unready = R.unready
    BY <1>1, <1>4, <1>6 DEF Repo
  <1> QED
    BY <1>5, <1>6, <1>7 DEF N, b, rl

LEMMA EmptyRepoFacts ==
  /\ EmptyRepo \in Repo
  /\ EmptyRepo.ready = [r \in Ref |-> None] /\ EmptyRepo.unready = [r \in Ref |-> None]
  /\ EmptyRepo.wt = [r \in Ref |-> None]
  <1> DEFINE none == [r \in Ref |-> None]
             nolog == [r \in Ref |-> {}]
  <1>1. none \in Branch /\ nolog \in Reflog /\ none \in [Ref -> {None} \cup Dir]
    BY DEF Branch, Reflog
  <1>2. EmptyRepo = [ready |-> none, unready |-> none, tag |-> none, wt |-> none,
                     rlog |-> nolog, ulog |-> nolog, log |-> {}]
    BY DEF EmptyRepo
  <1> HIDE DEF none, nolog
  <1>3. EmptyRepo \in Repo /\ EmptyRepo.ready = none /\ EmptyRepo.unready = none
        /\ EmptyRepo.wt = none
    BY <1>1, <1>2 DEF Repo
  <1> QED
    BY <1>3 DEF none

LEMMA GarbageinateFacts ==
  ASSUME NEW R \in Repo
  PROVE  LET N == Garbageinate(R) IN
         /\ N \in Repo /\ N.ready = R.ready /\ N.unready = R.unready
         /\ \A r \in Ref : N.wt[r] # None =>
                /\ R.wt[r] # None
                /\ N.wt[r].on = R.wt[r].on /\ N.wt[r].head = R.wt[r].head
                /\ N.wt[r].linked = R.wt[r].linked /\ N.wt[r].dirt = R.wt[r].dirt
  <1> DEFINE N == Garbageinate(R)
             nolog == [r \in Ref |-> {}]
             F(w) == [w EXCEPT !.log = {}]
             wt == [r \in Ref |-> IF R.wt[r] = None THEN None ELSE F(R.wt[r])]
  <1>1. N = [R EXCEPT !.log = {}, !.rlog = nolog, !.ulog = nolog, !.wt = wt]
    BY DEF Garbageinate
  <1>2. R.wt \in [Ref -> {None} \cup Dir]
    BY RepoFields
  <1>3. \A w \in Dir : F(w) \in Dir /\ F(w).on = w.on /\ F(w).head = w.head
                         /\ F(w).linked = w.linked /\ F(w).dirt = w.dirt
    BY DEF Dir
  <1> HIDE DEF F
  <1>4. /\ wt \in [Ref -> {None} \cup Dir]
        /\ \A r \in Ref : wt[r] # None =>
                R.wt[r] # None /\ wt[r].on = R.wt[r].on /\ wt[r].head = R.wt[r].head
                /\ wt[r].linked = R.wt[r].linked /\ wt[r].dirt = R.wt[r].dirt
    BY <1>2, <1>3
  <1>5. nolog \in Reflog
    BY DEF Reflog
  <1> HIDE DEF N, nolog, wt
  <1>6. N \in Repo /\ N.ready = R.ready /\ N.unready = R.unready /\ N.wt = wt
    BY <1>1, <1>4, <1>5 DEF Repo
  <1> QED
    BY <1>4, <1>6 DEF N

LEMMA ResetFacts ==
  ASSUME NEW R \in Repo
  PROVE  LET N == ResetCache(R) IN
         /\ N \in Repo /\ N.ready = [r \in Ref |-> None] /\ N.unready = [r \in Ref |-> None]
         /\ \A r \in Ref : N.wt[r] # None => Plain(R, r) /\ N.wt[r] = R.wt[r]
  <1> DEFINE N == ResetCache(R)
             E == EmptyRepo
             wt == [r \in Ref |-> IF Plain(R, r) THEN R.wt[r] ELSE None]
  <1>1. N = [E EXCEPT !.wt = wt]
    BY DEF ResetCache
  <1>2. R.wt \in [Ref -> {None} \cup Dir]
    BY RepoFields
  <1>3. /\ wt \in [Ref -> {None} \cup Dir]
        /\ \A r \in Ref : wt[r] # None => Plain(R, r) /\ wt[r] = R.wt[r]
    BY <1>2
  <1>4. E \in Repo /\ E.ready = [r \in Ref |-> None] /\ E.unready = [r \in Ref |-> None]
    BY EmptyRepoFacts
  <1> HIDE DEF N, E, wt
  <1>5. N \in Repo /\ N.ready = E.ready /\ N.unready = E.unready /\ N.wt = wt
    BY <1>1, <1>3, <1>4 DEF Repo
  <1> QED
    BY <1>3, <1>4, <1>5 DEF N
-----------------------------------------------------------------------------
(* What an operation leaves: HEADs that lead to commits, and the commits of *)
(* the ready branches and of HEAD's reflog                                  *)

InCore(R, c) == \/ c \in R.log
                \/ \E r \in Ref : c = R.ready[r] \/ c \in R.rlog[r]

\* What those branches and logs lead to, they still lead to.
Keeps(R, S) ==
    \A c \in Good : InCore(R, c) => \E d \in Good : InCore(S, d) /\ c \in Ancestors(d)

LEMMA KeepsCore ==
  ASSUME NEW R, NEW S, \A c \in Good : InCore(R, c) => InCore(S, c)
  PROVE  Keeps(R, S)
  BY OwnAncestor DEF Keeps

LEMMA KeepsTrans ==
  ASSUME NEW R, NEW S, NEW T, Keeps(R, S), Keeps(S, T)
  PROVE  Keeps(R, T)
  <1> SUFFICES ASSUME NEW c \in Good, InCore(R, c)
               PROVE  \E d \in Good : InCore(T, d) /\ c \in Ancestors(d)
    BY DEF Keeps
  <1>1. PICK d \in Good : InCore(S, d) /\ c \in Ancestors(d)
    BY DEF Keeps
  <1>2. PICK e \in Good : InCore(T, e) /\ d \in Ancestors(e)
    BY <1>1 DEF Keeps
  <1>3. c \in Ancestors(e)
    BY <1>1, <1>2, AncestorsNest
  <1> QED
    BY <1>2, <1>3

\* Nothing but the image r is concerned.
LEMMA SoundIntro ==
  ASSUME NEW R, NEW S \in Repo, NEW r \in Ref, Sound(R),
         \A q \in Ref : q # r => /\ S.wt[q] = R.wt[q] /\ S.ready[q] = R.ready[q]
                                 /\ S.unready[q] = R.unready[q],
         Linked(S, r) => WorktreeHead(S, r) \in Good
  PROVE  Sound(S)
  <1> SUFFICES ASSUME NEW q \in Ref, q # r, Linked(S, q)
               PROVE  WorktreeHead(S, q) \in Good
    BY DEF Sound
  <1>1. Linked(R, q)
    BY DEF Linked
  <1>2. WorktreeHead(S, q) = WorktreeHead(R, q)
    BY DEF WorktreeHead
  <1> QED
    BY <1>1, <1>2 DEF Sound

\* Worktrees are linked or not, whatever is in them.
LEMMA LinkedDir ==
  ASSUME NEW R \in Repo, NEW r \in Ref
  PROVE  /\ Linked(R, r) => R.wt[r] # None /\ R.wt[r] \in Dir /\ R.wt[r].linked = TRUE
         /\ Plain(R, r) => R.wt[r] # None /\ R.wt[r] \in Dir /\ R.wt[r].linked = FALSE
  <1>1. R.wt[r] # None => R.wt[r] \in Dir
    BY RepoFields
  <1>2. R.wt[r] \in Dir => R.wt[r].linked \in BOOLEAN
    BY DEF Dir
  <1> QED
    BY <1>1, <1>2 DEF Linked, Plain

LEMMA SetDirSound ==
  ASSUME NEW R, Sound(R), NEW r \in Ref, NEW w \in {None} \cup Dir,
         w # None /\ w.linked =>
            /\ Linked(R, r) /\ w.on = R.wt[r].on /\ w.head = R.wt[r].head
  PROVE  LET S == [R EXCEPT !.wt = [R.wt EXCEPT ![r] = w]] IN
         Sound(S) /\ Keeps(R, S) /\ S.ready = R.ready
  <1> DEFINE S == [R EXCEPT !.wt = [R.wt EXCEPT ![r] = w]]
  <1>1. R \in Repo
    BY DEF Sound
  <1>2. /\ S \in Repo
        /\ S.ready = R.ready /\ S.rlog = R.rlog /\ S.log = R.log /\ S.unready = R.unready
        /\ S.wt[r] = w /\ \A q \in Ref : q # r => S.wt[q] = R.wt[q]
    BY <1>1, SetDirFacts
  <1> HIDE DEF S
  <1>3. Keeps(R, S)
    BY <1>2, KeepsCore DEF InCore
  <1>4. Linked(S, r) => WorktreeHead(S, r) \in Good
    <2> HAVE Linked(S, r)
    <2>1. Linked(R, r) /\ w.on = R.wt[r].on /\ w.head = R.wt[r].head
      BY <1>2 DEF Linked
    <2>2. WorktreeHead(S, r) = WorktreeHead(R, r)
      BY <1>2, <2>1 DEF WorktreeHead
    <2> QED
      BY <2>1, <2>2 DEF Sound
  <1>5. Sound(S)
    BY <1>2, <1>4, SoundIntro
  <1> QED
    BY <1>2, <1>3, <1>5 DEF S

LEMMA WorktreeAddSound ==
  ASSUME NEW R, Sound(R), NEW r \in Ref, NEW c \in Good
  PROVE  LET N == WorktreeAdd(R, r, c) IN
         /\ Sound(N) /\ Keeps(R, N) /\ N.ready = R.ready
         /\ Linked(N, r) /\ WorktreeHead(N, r) = c
         /\ \A d \in LogRoots(N) : d \in LogRoots(R) \cup {c}
  <1> DEFINE N == WorktreeAdd(R, r, c)
  <1>1. R \in Repo /\ R.unready \in Branch /\ R.ulog \in Reflog
    BY RepoFields DEF Sound
  <1>2. CASE Linked(R, r) /\ WorktreeHead(R, r) = c
    <2>1. N = R
      BY <1>2 DEF WorktreeAdd
    <2>2. Keeps(R, R)
      BY KeepsCore
    <2> QED
      BY <1>2, <2>1, <2>2
  <1>3. ASSUME /\ N \in Repo
               /\ N.ready = R.ready /\ N.tag = R.tag /\ N.rlog = R.rlog /\ N.log = R.log
               /\ N.unready = [R.unready EXCEPT ![r] = c]
               /\ N.ulog = [R.ulog EXCEPT ![r] = @ \cup {c} \cup Some(R.unready[r])]
               /\ N.wt[r] # None /\ N.wt[r].linked = TRUE /\ N.wt[r].on = "unready"
               /\ N.wt[r].log \subseteq LogRoots(R) \cup {c}
               /\ \A q \in Ref : q # r => N.wt[q] = R.wt[q]
        PROVE  /\ Sound(N) /\ Keeps(R, N) /\ N.ready = R.ready
               /\ Linked(N, r) /\ WorktreeHead(N, r) = c
               /\ \A d \in LogRoots(N) : d \in LogRoots(R) \cup {c}
    <2> HIDE DEF N
    <2>1. Keeps(R, N)
      BY <1>3, KeepsCore DEF InCore
    <2>2. N.unready[r] = c /\ \A q \in Ref : q # r => N.unready[q] = R.unready[q]
      BY <1>1, <1>3 DEF Branch
    <2>3. /\ N.ulog[r] = R.ulog[r] \cup {c} \cup Some(R.unready[r])
          /\ \A q \in Ref : q # r => N.ulog[q] = R.ulog[q]
      BY <1>1, <1>3 DEF Reflog
    <2>4. Linked(N, r) /\ WorktreeHead(N, r) = c
      BY <1>3, <2>2 DEF Linked, WorktreeHead
    <2>5. Sound(N)
      <3>1. N \in Repo
        BY <1>3
      <3>2. \A q \in Ref : q # r => /\ N.wt[q] = R.wt[q] /\ N.ready[q] = R.ready[q]
                                    /\ N.unready[q] = R.unready[q]
        BY <1>3, <2>2
      <3>3. Linked(N, r) => WorktreeHead(N, r) \in Good
        BY <2>4
      <3> QED
        BY <3>1, <3>2, <3>3, SoundIntro
    <2>6. ASSUME NEW d \in LogRoots(N) PROVE d \in LogRoots(R) \cup {c}
      <3>1. CASE d = Root \/ d \in N.log
        BY <1>3, <3>1 DEF LogRoots
      <3>2. ASSUME NEW q \in Ref,
                   d \in Some(N.ready[q]) \cup Some(N.unready[q]) \cup Some(N.tag[q])
                          \cup N.rlog[q] \cup N.ulog[q]
                          \cup (IF Linked(N, q) THEN N.wt[q].log \cup {WorktreeHead(N, q)} ELSE {})
            PROVE  d \in LogRoots(R) \cup {c}
        <4>0. /\ Some(R.ready[q]) \cup Some(R.unready[q]) \cup Some(R.tag[q])
                          \cup R.rlog[q] \cup R.ulog[q] \subseteq LogRoots(R)
              /\ Linked(R, q) => R.wt[q].log \cup {WorktreeHead(R, q)} \subseteq LogRoots(R)
          BY DEF LogRoots
        <4>1. CASE d \in Some(N.ready[q]) \cup Some(N.tag[q]) \cup N.rlog[q]
          BY <1>3, <4>0, <4>1
        <4>2. CASE d \in Some(N.unready[q]) \cup N.ulog[q]
          BY <2>2, <2>3, <4>0, <4>2 DEF Some
        <4>3. CASE q = r /\ d \in N.wt[q].log \cup {WorktreeHead(N, q)}
          BY <1>3, <2>4, <4>3
        <4>4. CASE q # r /\ Linked(N, q) /\ d \in N.wt[q].log \cup {WorktreeHead(N, q)}
          <5>1. N.wt[q] = R.wt[q] /\ WorktreeHead(N, q) = WorktreeHead(R, q) /\ Linked(R, q)
            BY <1>3, <2>2, <4>4 DEF WorktreeHead, Linked
          <5> QED
            BY <4>0, <4>4, <5>1
        <4> QED
          BY <3>2, <4>1, <4>2, <4>3, <4>4
      <3> QED
        BY <3>1, <3>2 DEF LogRoots
    <2> QED
      BY <1>3, <2>1, <2>4, <2>5, <2>6
  <1>4. CASE ~Linked(R, r)
    <2> DEFINE M == NewWorktree(R, r, c)
               w == [linked |-> TRUE, on |-> "unready", head |-> Root, log |-> {c},
                     dirt |-> <<>>, env |-> Tip(c).env, hist |-> Tip(c).hist]
    <2>1. N = M
      BY <1>4 DEF WorktreeAdd
    <2>2. /\ M \in Repo
          /\ M.ready = R.ready /\ M.tag = R.tag /\ M.rlog = R.rlog /\ M.log = R.log
          /\ M.unready = [R.unready EXCEPT ![r] = c]
          /\ M.ulog = [R.ulog EXCEPT ![r] = @ \cup {c} \cup Some(R.unready[r])]
          /\ M.wt = [R.wt EXCEPT ![r] = w]
      BY <1>1, NewWorktreeFacts
    <2>3. R.wt \in [Ref -> {None} \cup Dir] /\ M.wt \in [Ref -> {None} \cup Dir]
      BY <1>1, <2>2, RepoFields
    <2>4. w.linked = TRUE /\ w.on = "unready" /\ w.log = {c}
      OBVIOUS
    <2>5. w \in Dir
      <3>1. Tip(c).env \in Seq(Input) /\ Tip(c).hist \in Seq(Input) /\ Root \in Good
        BY CommitFacts, RootGood DEF Layer
      <3>2. << >> \in Files
        BY DEF Files
      <3> QED
        BY <3>1, <3>2 DEF Dir
    <2> HIDE DEF M, w
    <2>6. M.wt[r] = w /\ \A q \in Ref : q # r => M.wt[q] = R.wt[q]
      BY <2>2, <2>3
    <2>7. w # None
      BY <2>5, NoneIsNoDir
    <2>8. /\ M.wt[r] # None /\ M.wt[r].linked = TRUE /\ M.wt[r].on = "unready"
          /\ M.wt[r].log \subseteq LogRoots(R) \cup {c}
      BY <2>4, <2>6, <2>7
    <2> QED
      BY <1>3, <2>1, <2>2, <2>6, <2>8
  <1>5. CASE Linked(R, r) /\ WorktreeHead(R, r) # c
    <2> DEFINE M == SwitchUnready(R, r, c)
    <2>1. N = M
      BY <1>5 DEF WorktreeAdd
    <2>2. R.wt[r] # None /\ R.wt[r].linked = TRUE /\ WorktreeHead(R, r) \in Good
      <3>1. R.wt[r] # None /\ R.wt[r].linked
        BY <1>5 DEF Linked
      <3>2. R.wt[r].linked \in BOOLEAN
        BY <1>1, <3>1, RepoFields DEF Dir
      <3> QED
        BY <1>5, <3>1, <3>2 DEF Sound
    <2>3. /\ M \in Repo
          /\ M.ready = R.ready /\ M.tag = R.tag /\ M.rlog = R.rlog /\ M.log = R.log
          /\ M.unready = [R.unready EXCEPT ![r] = c]
          /\ M.ulog = [R.ulog EXCEPT ![r] = @ \cup {c} \cup Some(R.unready[r])]
          /\ M.wt[r] \in Dir /\ M.wt[r].linked = R.wt[r].linked /\ M.wt[r].on = "unready"
          /\ M.wt[r].log = R.wt[r].log \cup {c, WorktreeHead(R, r)}
          /\ \A q \in Ref : q # r => M.wt[q] = R.wt[q]
      BY <1>1, <2>2, SwitchUnreadyFacts
    <2>4. R.wt[r].log \cup {WorktreeHead(R, r)} \subseteq LogRoots(R)
      BY <1>5 DEF LogRoots
    <2> HIDE DEF M
    <2>5. /\ M.wt[r] # None /\ M.wt[r].linked = TRUE
          /\ M.wt[r].log \subseteq LogRoots(R) \cup {c}
      BY <2>2, <2>3, <2>4, NoneIsNoDir
    <2> QED
      BY <1>3, <2>1, <2>3, <2>5
  <1> QED
    BY <1>2, <1>4, <1>5

LEMMA WorktreeAddTidy ==
  ASSUME NEW R, Sound(R), Tidy(R), NEW r \in Ref, NEW c \in Good
  PROVE  Tidy(WorktreeAdd(R, r, c))
  <1>1. R \in Repo /\ R.wt \in [Ref -> {None} \cup Dir]
    BY RepoFields DEF Sound
  <1>2. CASE Linked(R, r) /\ WorktreeHead(R, r) = c
    BY <1>2 DEF WorktreeAdd
  <1>3. CASE ~Linked(R, r)
    <2> DEFINE M == NewWorktree(R, r, c)
               w == [linked |-> TRUE, on |-> "unready", head |-> Root, log |-> {c},
                     dirt |-> <<>>, env |-> Tip(c).env, hist |-> Tip(c).hist]
    <2>1. WorktreeAdd(R, r, c) = M
      BY <1>3 DEF WorktreeAdd
    <2>2. /\ M \in Repo
          /\ M.ready = R.ready /\ M.tag = R.tag /\ M.rlog = R.rlog /\ M.log = R.log
          /\ M.unready = [R.unready EXCEPT ![r] = c]
          /\ M.ulog = [R.ulog EXCEPT ![r] = @ \cup {c} \cup Some(R.unready[r])]
          /\ M.wt = [R.wt EXCEPT ![r] = w]
      BY <1>1, NewWorktreeFacts
    <2>3. w.linked = TRUE /\ w.dirt = << >>
      OBVIOUS
    <2> HIDE DEF M, w
    <2>4. M.wt[r] = w /\ \A q \in Ref : q # r => M.wt[q] = R.wt[q]
      BY <1>1, <2>2
    <2>5. Neat(M.wt[r], r)
      BY <2>3, <2>4 DEF Neat
    <2>6. Tidy(M)
      BY <2>4, <2>5, TidyIntro
    <2> QED
      BY <2>1, <2>6
  <1>4. CASE Linked(R, r) /\ WorktreeHead(R, r) # c
    <2> DEFINE M == SwitchUnready(R, r, c)
    <2>1. WorktreeAdd(R, r, c) = M
      BY <1>4 DEF WorktreeAdd
    <2>2. R.wt[r] # None /\ R.wt[r].linked = TRUE /\ WorktreeHead(R, r) \in Good
      BY <1>1, <1>4, LinkedDir DEF Sound
    <2>3. /\ M \in Repo
          /\ M.ready = R.ready /\ M.tag = R.tag /\ M.rlog = R.rlog /\ M.log = R.log
          /\ M.unready = [R.unready EXCEPT ![r] = c]
          /\ M.ulog = [R.ulog EXCEPT ![r] = @ \cup {c} \cup Some(R.unready[r])]
          /\ M.wt[r] \in Dir /\ M.wt[r].linked = R.wt[r].linked /\ M.wt[r].on = "unready"
          /\ M.wt[r].log = R.wt[r].log \cup {c, WorktreeHead(R, r)}
          /\ M.wt[r].dirt = R.wt[r].dirt
          /\ \A q \in Ref : q # r => M.wt[q] = R.wt[q]
      BY <1>1, <2>2, SwitchUnreadyFacts
    <2> HIDE DEF M
    <2>4. Neat(M.wt[r], r)
      BY <2>2, <2>3 DEF Neat, Tidy
    <2>5. Tidy(M)
      BY <2>3, <2>4, TidyIntro
    <2> QED
      BY <2>1, <2>5
  <1> QED
    BY <1>2, <1>3, <1>4

\* A commit made of the files of HEAD and what executing input x added to them.
LEMMA GrownBy ==
  ASSUME NEW R \in Repo, NEW r \in Ref, R.wt[r] # None, WorktreeHead(R, r) \in Good,
         NEW sid, NEW x \in Input, sid = Append(Tip(WorktreeHead(R, r)).sid, x),
         NEW files \in BOOLEAN, files <=> x.op = "env",
         Careful => (~files => \E o \in Outcome \cup {0} : R.wt[r].dirt = <<Done(x, o)>>)
  PROVE  Fits(R, r, sid, files)
  <1> DEFINE h == Tip(WorktreeHead(R, r))
             w == R.wt[r]
             more == IF files THEN << >> ELSE w.dirt
             ly == LayerOf(R, r, sid, files)
             D == [in : Input, out : Outcome \cup {0}]
  <1>1. h.tree \in Seq(D) /\ h.sid \in Seq(Input)
    BY CommitFacts DEF Layer, Files
  <1>2. ly.sid = sid /\ ly.tree = h.tree \o more
    BY DEF LayerOf
  <1>3. sid[Len(sid)] = x
    <2>1. Len(h.sid) \in Nat
      BY <1>1
    <2>2. Append(h.sid, x)[Len(Append(h.sid, x))] = x
      BY <1>1, AppendProperties
    <2> QED
      BY <2>2
  <1> HIDE DEF ly, h, D
  <1> SUFFICES ASSUME Careful PROVE Grown(h, ly)
    BY DEF Fits, h, ly
  <1>4. ASSUME files PROVE Grown(h, ly)
    <2>1. ly.tree = h.tree
      BY <1>1, <1>2, <1>4, ConcatEmptySeq
    <2> QED
      BY <1>2, <1>3, <1>4, <2>1 DEF Grown
  <1>5. ASSUME ~files PROVE Grown(h, ly)
    <2>1. PICK o \in Outcome \cup {0} : w.dirt = <<Done(x, o)>>
      BY <1>5
    <2> DEFINE d == Done(x, o)
    <2>2. d \in D
      BY DEF Done, D
    <2> HIDE DEF d
    <2>3. ly.tree = h.tree \o <<d>>
      BY <1>2, <1>5, <2>1 DEF d
    <2>4. ly.tree = Append(h.tree, d)
      BY <1>1, <2>2, <2>3, AppendIsConcat
    <2> QED
      BY <1>2, <1>3, <1>5, <2>4 DEF Grown, d
  <1> QED
    BY <1>4, <1>5

\* N is R with a new commit for state ID sid at the HEAD of image r.
Extends(R, N, r, sid, files) ==
    LET c == WorktreeHead(N, r) IN
    /\ Sound(N) /\ Keeps(R, N) /\ Linked(N, r)
    /\ c \in Good /\ Tip(c).sid = sid
    /\ Ancestors(c) = Ancestors(WorktreeHead(R, r)) \cup {c}
    /\ \A d \in LogRoots(N) : d \in LogRoots(R) \cup {c}
    /\ R.wt[r].on = "unready" => N.ready = R.ready
    /\ N.wt[r].dirt = IF files THEN R.wt[r].dirt ELSE << >>
    /\ \A q \in Ref : q # r => N.wt[q] = R.wt[q]

LEMMA CommitSound ==
  ASSUME NEW R, Sound(R), NEW r \in Ref, Linked(R, r),
         NEW sid, NEW x \in Input, sid = Append(Tip(WorktreeHead(R, r)).sid, x),
         NEW files \in BOOLEAN,
         Fits(R, r, sid, files)
  PROVE  Extends(R, Commit(R, r, sid, files), r, sid, files)
  <1> DEFINE N == Commit(R, r, sid, files)
             h == WorktreeHead(R, r)
             c == Append(h, LayerOf(R, r, sid, files))
             on == R.wt[r].on
  <1>1. /\ R \in Repo /\ R.unready \in Branch /\ R.ulog \in Reflog
        /\ R.ready \in Branch /\ R.rlog \in Reflog /\ R.wt[r] # None /\ h \in Good
    BY RepoFields DEF Sound, Linked
  <1>2. /\ N \in Repo
        /\ c \in Good /\ Tip(c).sid = sid /\ Ancestors(c) = Ancestors(h) \cup {c}
        /\ N.tag = R.tag /\ N.log = R.log
        /\ N.ready = [R.ready EXCEPT ![r] = IF on = "ready" THEN c ELSE @]
        /\ N.rlog = [R.rlog EXCEPT ![r] = IF on = "ready" THEN @ \cup {c} ELSE @]
        /\ N.unready = [R.unready EXCEPT ![r] = IF on = "unready" THEN c ELSE @]
        /\ N.ulog = [R.ulog EXCEPT ![r] = IF on = "unready" THEN @ \cup {c} ELSE @]
        /\ N.wt[r] \in Dir /\ N.wt[r].linked = R.wt[r].linked /\ N.wt[r].on = on
        /\ N.wt[r].head = IF on = "detached" THEN c ELSE R.wt[r].head
        /\ N.wt[r].log = R.wt[r].log \cup {c}
        /\ N.wt[r].hist = R.wt[r].hist /\ N.wt[r].env = R.wt[r].env
        /\ N.wt[r].dirt = IF files THEN R.wt[r].dirt ELSE << >>
        /\ \A q \in Ref : q # r => N.wt[q] = R.wt[q]
    <2>1. /\ R \in Repo /\ R.wt[r] # None /\ WorktreeHead(R, r) \in Good
          /\ Fits(R, r, sid, files)
      BY <1>1
    <2>2. N \in Repo /\ Committed(R, N, r, c, files) /\ Child(R, r, c, sid)
      BY <2>1, CommitRepo
    <2> HIDE DEF N, c
    <2> QED
      BY <2>2 DEF Committed, Child
  <1>3. on \in {"ready", "unready", "detached"}
    <2>1. R.wt[r] \in Dir
      BY <1>1, RepoFields
    <2> QED
      BY <2>1 DEF Dir
  <1> HIDE DEF N, c, on
  <1>4. /\ N.ready[r] = (IF on = "ready" THEN c ELSE R.ready[r])
        /\ N.unready[r] = (IF on = "unready" THEN c ELSE R.unready[r])
        /\ \A q \in Ref : q # r => N.ready[q] = R.ready[q] /\ N.unready[q] = R.unready[q]
    BY <1>1, <1>2 DEF Branch
  <1>5. /\ N.rlog[r] = (IF on = "ready" THEN R.rlog[r] \cup {c} ELSE R.rlog[r])
        /\ N.ulog[r] = (IF on = "unready" THEN R.ulog[r] \cup {c} ELSE R.ulog[r])
        /\ \A q \in Ref : q # r => N.rlog[q] = R.rlog[q] /\ N.ulog[q] = R.ulog[q]
    BY <1>1, <1>2 DEF Reflog
  <1>6. WorktreeHead(N, r) = c
    BY <1>2, <1>3, <1>4 DEF WorktreeHead
  <1>7. Linked(N, r)
    <2>1. N.wt[r] # None
      BY <1>2, NoneIsNoDir
    <2> QED
      BY <1>2, <2>1 DEF Linked
  <1>8. Sound(N)
    <2>1. \A q \in Ref : q # r => /\ N.wt[q] = R.wt[q] /\ N.ready[q] = R.ready[q]
                                  /\ N.unready[q] = R.unready[q]
      BY <1>2, <1>4
    <2>2. Linked(N, r) => WorktreeHead(N, r) \in Good
      BY <1>2, <1>6
    <2>3. N \in Repo
      BY <1>2
    <2> QED
      BY <2>1, <2>2, <2>3, SoundIntro
  <1>9. Keeps(R, N)
    <2> SUFFICES ASSUME NEW d \in Good, InCore(R, d)
                 PROVE  \E e \in Good : InCore(N, e) /\ d \in Ancestors(e)
      BY DEF Keeps
    <2>1. CASE d \in R.log
      <3>1. InCore(N, d)
        BY <1>2, <2>1 DEF InCore
      <3> QED
        BY <3>1, OwnAncestor
    <2>2. ASSUME NEW q \in Ref, d \in R.rlog[q]
          PROVE  \E e \in Good : InCore(N, e) /\ d \in Ancestors(e)
      <3>1. InCore(N, d)
        BY <1>5, <2>2 DEF InCore
      <3> QED
        BY <3>1, OwnAncestor
    <2>3. ASSUME NEW q \in Ref, d = R.ready[q]
          PROVE  \E e \in Good : InCore(N, e) /\ d \in Ancestors(e)
      <3>1. CASE q = r /\ on = "ready"
        <4>1. h = d
          BY <2>3, <3>1 DEF WorktreeHead, on
        <4>2. d \in Ancestors(c)
          BY <1>2, <4>1, OwnAncestor
        <4>3. InCore(N, c)
          BY <1>4, <3>1 DEF InCore
        <4> QED
          BY <1>2, <4>2, <4>3
      <3>2. CASE ~(q = r /\ on = "ready")
        <4>1. InCore(N, d)
          BY <1>4, <2>3, <3>2 DEF InCore
        <4> QED
          BY <4>1, OwnAncestor
      <3> QED
        BY <3>1, <3>2
    <2> QED
      BY <2>1, <2>2, <2>3 DEF InCore
  <1>10. ASSUME NEW d \in LogRoots(N) PROVE d \in LogRoots(R) \cup {c}
    <2>1. CASE d = Root \/ d \in N.log
      BY <1>2, <2>1 DEF LogRoots
    <2>2. ASSUME NEW q \in Ref,
                 d \in Some(N.ready[q]) \cup Some(N.unready[q]) \cup Some(N.tag[q])
                        \cup N.rlog[q] \cup N.ulog[q]
                        \cup (IF Linked(N, q) THEN N.wt[q].log \cup {WorktreeHead(N, q)} ELSE {})
          PROVE  d \in LogRoots(R) \cup {c}
      <3>0. /\ Some(R.ready[q]) \cup Some(R.unready[q]) \cup Some(R.tag[q])
                        \cup R.rlog[q] \cup R.ulog[q] \subseteq LogRoots(R)
            /\ Linked(R, q) => R.wt[q].log \cup {WorktreeHead(R, q)} \subseteq LogRoots(R)
        BY DEF LogRoots
      <3>1. CASE d \in Some(N.tag[q])
        BY <1>2, <3>0, <3>1
      <3>2. CASE d \in Some(N.ready[q]) \cup Some(N.unready[q])
        BY <1>4, <3>0, <3>2 DEF Some
      <3>3. CASE d \in N.rlog[q] \cup N.ulog[q]
        BY <1>5, <3>0, <3>3
      <3>4. CASE q = r /\ d \in N.wt[q].log \cup {WorktreeHead(N, q)}
        BY <1>2, <1>6, <3>0, <3>4
      <3>5. CASE q # r /\ Linked(N, q) /\ d \in N.wt[q].log \cup {WorktreeHead(N, q)}
        <4>1. N.wt[q] = R.wt[q] /\ WorktreeHead(N, q) = WorktreeHead(R, q) /\ Linked(R, q)
          BY <1>2, <1>4, <3>5 DEF WorktreeHead, Linked
        <4> QED
          BY <3>0, <3>5, <4>1
      <3> QED
        BY <2>2, <3>1, <3>2, <3>3, <3>4, <3>5
    <2> QED
      BY <2>1, <2>2 DEF LogRoots
  <1>11. on = "unready" => N.ready = R.ready
    BY <1>1, <1>2 DEF Branch
  <1> QED
    BY <1>2, <1>6, <1>7, <1>8, <1>9, <1>10, <1>11 DEF N, on, h, Extends

LEMMA MakeReadySound ==
  ASSUME NEW R, Sound(R), NEW r \in Ref, Linked(R, r)
  PROVE  LET N == MakeReady(R, r) IN
         /\ Sound(N) /\ Keeps(R, N) /\ Linked(N, r)
         /\ N.ready = [R.ready EXCEPT ![r] = WorktreeHead(R, r)]
         /\ N.ready[r] = WorktreeHead(R, r) /\ N.ready[r] \in Good
         /\ N.wt[r].hist = R.wt[r].hist /\ N.wt[r].env = R.wt[r].env
         /\ N.wt[r].dirt = R.wt[r].dirt
         /\ \A q \in Ref : q # r => N.wt[q] = R.wt[q]
  <1> DEFINE N == MakeReady(R, r)
             h == WorktreeHead(R, r)
  <1>1. /\ R \in Repo /\ R.unready \in Branch
        /\ R.ready \in Branch /\ R.rlog \in Reflog /\ R.wt[r] # None /\ h \in Good
    BY RepoFields DEF Sound, Linked
  <1>2. /\ N \in Repo
        /\ N.ready = [R.ready EXCEPT ![r] = h]
        /\ N.rlog = [R.rlog EXCEPT ![r] = @ \cup {h} \cup Some(R.ready[r])]
        /\ N.unready = [R.unready EXCEPT ![r] = None]
        /\ N.log = R.log \cup Some(R.unready[r])
        /\ N.wt[r] \in Dir /\ N.wt[r].linked = R.wt[r].linked /\ N.wt[r].on = "ready"
        /\ N.wt[r].hist = R.wt[r].hist /\ N.wt[r].env = R.wt[r].env
        /\ N.wt[r].dirt = R.wt[r].dirt
        /\ \A q \in Ref : q # r => N.wt[q] = R.wt[q]
    BY <1>1, MakeReadyFacts
  <1> HIDE DEF N, h
  <1>3. /\ N.ready[r] = h
        /\ \A q \in Ref : q # r => N.ready[q] = R.ready[q] /\ N.unready[q] = R.unready[q]
    BY <1>1, <1>2 DEF Branch
  <1>4. N.rlog[r] = R.rlog[r] \cup {h} \cup Some(R.ready[r])
        /\ \A q \in Ref : q # r => N.rlog[q] = R.rlog[q]
    BY <1>1, <1>2 DEF Reflog
  <1>5. WorktreeHead(N, r) = h
    BY <1>2, <1>3 DEF WorktreeHead
  <1>6. Linked(N, r)
    <2>1. N.wt[r] # None
      BY <1>2, NoneIsNoDir
    <2> QED
      BY <1>2, <2>1 DEF Linked
  <1>7. Sound(N)
    <2>1. \A q \in Ref : q # r => /\ N.wt[q] = R.wt[q] /\ N.ready[q] = R.ready[q]
                                  /\ N.unready[q] = R.unready[q]
      BY <1>2, <1>3
    <2>2. Linked(N, r) => WorktreeHead(N, r) \in Good
      BY <1>1, <1>5
    <2>3. N \in Repo
      BY <1>2
    <2> QED
      BY <2>1, <2>2, <2>3, SoundIntro
  <1>8. Keeps(R, N)
    <2>1. ASSUME NEW d \in Good, InCore(R, d) PROVE InCore(N, d)
      <3>1. d # None
        BY NoneIsNoCommit
      <3>2. \A q \in Ref : d = R.ready[q] => d \in N.rlog[r] \/ d = N.ready[q]
        BY <1>3, <1>4, <3>1 DEF Some
      <3> QED
        BY <1>2, <1>4, <2>1, <3>2 DEF InCore
    <2> QED
      BY <2>1, KeepsCore
  <1> QED
    BY <1>1, <1>2, <1>3, <1>6, <1>7, <1>8 DEF N, h

LEMMA MakeReadyTidy ==
  ASSUME NEW R, Sound(R), Tidy(R), NEW r \in Ref, Linked(R, r)
  PROVE  Tidy(MakeReady(R, r))
  <1> DEFINE N == MakeReady(R, r)
  <1>1. /\ Sound(N) /\ Keeps(R, N) /\ Linked(N, r)
        /\ N.ready = [R.ready EXCEPT ![r] = WorktreeHead(R, r)]
        /\ N.ready[r] = WorktreeHead(R, r) /\ N.ready[r] \in Good
        /\ N.wt[r].hist = R.wt[r].hist /\ N.wt[r].env = R.wt[r].env
        /\ N.wt[r].dirt = R.wt[r].dirt
        /\ \A q \in Ref : q # r => N.wt[q] = R.wt[q]
    BY MakeReadySound
  <1> HIDE DEF N
  <1>2. R.wt[r].linked = TRUE /\ R.wt[r] # None /\ N.wt[r].linked = TRUE
    BY <1>1, LinkedDir DEF Sound
  <1>3. Neat(N.wt[r], r)
    BY <1>1, <1>2 DEF Neat, Tidy
  <1>4. Tidy(N)
    BY <1>1, <1>3, TidyIntro
  <1> QED
    BY <1>4 DEF N

\* checkout_ready puts the ready branch on the commit asked for.
LEMMA CheckoutReadySound ==
  ASSUME NEW R, Sound(R), NEW r \in Ref, NEW c \in Good
  PROVE  LET N == CheckoutReady(R, r, c) IN
         /\ Sound(N) /\ Keeps(R, N)
         /\ N.ready = [R.ready EXCEPT ![r] = c]
         /\ Tidy(R) => Tidy(N)
  <1> DEFINE M == WorktreeAdd(R, r, c)
             N == MakeReady(M, r)
  <1>1. Sound(M) /\ Keeps(R, M) /\ M.ready = R.ready /\ Linked(M, r) /\ WorktreeHead(M, r) = c
    BY WorktreeAddSound
  <1>5. Tidy(R) => Tidy(M)
    BY WorktreeAddTidy
  <1> HIDE DEF M
  <1>2. Sound(N) /\ Keeps(M, N) /\ N.ready = [M.ready EXCEPT ![r] = WorktreeHead(M, r)]
    BY <1>1, MakeReadySound
  <1>6. Tidy(M) => Tidy(N)
    BY <1>1, MakeReadyTidy
  <1>3. CheckoutReady(R, r, c) = N
    BY DEF CheckoutReady, M
  <1> HIDE DEF N
  <1>4. Keeps(R, N)
    BY <1>1, <1>2, KeepsTrans
  <1> QED
    BY <1>1, <1>2, <1>3, <1>4, <1>5, <1>6

\* A directory is put into the cache as a child of the root commit.
LEMMA OnRootSound ==
  ASSUME NEW R, Sound(R), NEW r \in Ref, R.wt[r] # None, NEW x \in Input, x.op # "env",
         Careful => R.wt[r].dirt \in Made(x)
  PROVE  LET N == MakeReady(Commit(WorktreeAdopt(R, r), r, <<x>>, FALSE), r) IN
         /\ Sound(N) /\ Keeps(R, N) /\ Linked(N, r) /\ N.ready[r] \in Good
         /\ \A q \in Ref : q # r => N.ready[q] = R.ready[q]
         /\ N.wt[r].dirt = << >> /\ \A q \in Ref : q # r => N.wt[q] = R.wt[q]
  <1> DEFINE A == WorktreeAdopt(R, r)
             C == Commit(A, r, <<x>>, FALSE)
             N == MakeReady(C, r)
  <1>1. R \in Repo /\ R.unready \in Branch /\ R.ready \in Branch
    BY RepoFields DEF Sound
  <1>2. /\ A \in Repo
        /\ A.ready = R.ready /\ A.tag = R.tag /\ A.rlog = R.rlog /\ A.log = R.log
        /\ A.unready = [R.unready EXCEPT ![r] = Root]
        /\ A.wt[r] \in Dir /\ A.wt[r].linked = TRUE /\ A.wt[r].on = "unready"
        /\ A.wt[r].dirt = R.wt[r].dirt
        /\ \A q \in Ref : q # r => A.wt[q] = R.wt[q]
    BY <1>1, WorktreeAdoptFacts
  <1> HIDE DEF A
  <1>3. A.unready[r] = Root /\ \A q \in Ref : q # r => A.unready[q] = R.unready[q]
    BY <1>1, <1>2, RootGood DEF Branch
  <1>4. WorktreeHead(A, r) = Root
    BY <1>2, <1>3 DEF WorktreeHead
  <1>5. Linked(A, r)
    BY <1>2, NoneIsNoDir DEF Linked
  <1>6. Sound(A)
    <2>1. \A q \in Ref : q # r => /\ A.wt[q] = R.wt[q] /\ A.ready[q] = R.ready[q]
                                  /\ A.unready[q] = R.unready[q]
      BY <1>2, <1>3
    <2>2. Linked(A, r) => WorktreeHead(A, r) \in Good
      BY <1>4, RootGood
    <2>3. A \in Repo
      BY <1>2
    <2> QED
      BY <2>1, <2>2, <2>3, SoundIntro
  <1>7. Keeps(R, A)
    BY <1>2, KeepsCore DEF InCore
  <1>8. <<x>> = Append(Tip(WorktreeHead(A, r)).sid, x)
    BY <1>4, RootGood
  <1>9. /\ Sound(C) /\ Keeps(A, C) /\ Linked(C, r) /\ (A.wt[r].on = "unready" => C.ready = A.ready)
        /\ C.wt[r].dirt = << >> /\ \A q \in Ref : q # r => C.wt[q] = A.wt[q]
    <2> DEFINE sid == <<x>>
               no == FALSE
               M == Commit(A, r, sid, no)
    <2>1. no \in BOOLEAN /\ ~no /\ (no <=> x.op = "env")
      OBVIOUS
    <2>2. sid = Append(Tip(WorktreeHead(A, r)).sid, x)
      BY <1>8
    <2> HIDE DEF sid, no
    <2>3. /\ Sound(M) /\ Keeps(A, M) /\ Linked(M, r)
          /\ (A.wt[r].on = "unready" => M.ready = A.ready)
          /\ M.wt[r].dirt = << >> /\ \A q \in Ref : q # r => M.wt[q] = A.wt[q]
      <3>1. Fits(A, r, sid, no)
        <4>1. Careful => (~no => \E o \in Outcome \cup {0} : A.wt[r].dirt = <<Done(x, o)>>)
          BY <1>2 DEF Made
        <4>2. A.wt[r] # None /\ WorktreeHead(A, r) \in Good /\ A \in Repo
          BY <1>2, <1>4, NoneIsNoDir, RootGood
        <4> QED
          BY <2>1, <2>2, <4>1, <4>2, GrownBy
      <3>2. no \in BOOLEAN
        BY <2>1
      <3>3. Extends(A, M, r, sid, no)
        BY <1>5, <1>6, <2>2, <3>1, <3>2, CommitSound
      <3> QED
        BY <2>1, <3>3 DEF Extends
    <2>4. C = M
      BY DEF sid, no
    <2> HIDE DEF C, M
    <2> QED
      BY <2>3, <2>4
  <1> HIDE DEF C
  <1>10. /\ Sound(N) /\ Keeps(C, N) /\ Linked(N, r)
         /\ N.ready = [C.ready EXCEPT ![r] = WorktreeHead(C, r)]
         /\ N.ready[r] = WorktreeHead(C, r) /\ N.ready[r] \in Good
         /\ N.wt[r].hist = C.wt[r].hist /\ N.wt[r].env = C.wt[r].env
         /\ N.wt[r].dirt = C.wt[r].dirt
         /\ \A q \in Ref : q # r => N.wt[q] = C.wt[q]
    BY <1>9, MakeReadySound
  <1> HIDE DEF N
  <1>11. Keeps(R, N)
    BY <1>7, <1>9, <1>10, KeepsTrans
  <1>12. \A q \in Ref : q # r => N.ready[q] = R.ready[q]
    BY <1>1, <1>2, <1>9, <1>10 DEF Branch
  <1>13. N.wt[r].dirt = << >> /\ \A q \in Ref : q # r => N.wt[q] = R.wt[q]
    BY <1>2, <1>9, <1>10
  <1> QED
    BY <1>10, <1>11, <1>12, <1>13 DEF N, C, A

LEMMA InputFacts ==
  /\ \A r \in Ref : ImportOf(r) \in Input /\ ImportOf(r).op # "env"
  /\ \A v \in Nat : PullOf(v) \in Input /\ PullOf(v).op # "env"
  /\ Insts \subseteq Input
  BY DEF ImportOf, PullOf, Input

LEMMA AdoptSound ==
  ASSUME NEW R, Sound(R), NEW r \in Ref, R.wt[r] # None,
         Careful => R.wt[r].dirt \in Made(ImportOf(r))
  PROVE  LET N == Adopt(R, r) IN
         /\ Sound(N) /\ Keeps(R, N) /\ Linked(N, r) /\ N.ready[r] \in Good
         /\ \A q \in Ref : q # r => N.ready[q] = R.ready[q]
         /\ N.wt[r].dirt = << >> /\ \A q \in Ref : q # r => N.wt[q] = R.wt[q]
  <1> DEFINE x == ImportOf(r)
  <1>1. x \in Input /\ x.op # "env" /\ (Careful => R.wt[r].dirt \in Made(x))
    BY InputFacts
  <1> DEFINE N == MakeReady(Commit(WorktreeAdopt(R, r), r, <<x>>, FALSE), r)
  <1>2. Adopt(R, r) = N
    BY DEF Adopt
  <1> HIDE DEF x
  <1>3. /\ Sound(N) /\ Keeps(R, N) /\ Linked(N, r) /\ N.ready[r] \in Good
        /\ \A q \in Ref : q # r => N.ready[q] = R.ready[q]
        /\ N.wt[r].dirt = << >> /\ \A q \in Ref : q # r => N.wt[q] = R.wt[q]
    BY <1>1, OnRootSound
  <1> HIDE DEF N
  <1> QED
    BY <1>2, <1>3

LEMMA PlainDirFacts ==
  ASSUME NEW x \in Input, NEW o \in Outcome \cup {0}, NEW e \in Seq(Input), NEW h \in Seq(Input)
  PROVE  LET w == PlainDir(<<Done(x, o)>>, e, h) IN
         w \in Dir /\ w # None /\ w.linked = FALSE /\ w.dirt \in Made(x)
  <1> DEFINE f == <<Done(x, o)>>
             w == PlainDir(f, e, h)
  <1>1. f \in Files /\ f \in Made(x)
    <2>1. Done(x, o) \in [in : Input, out : Outcome \cup {0}]
      BY DEF Done
    <2> QED
      BY <2>1 DEF Files, Made
  <1> HIDE DEF f
  <1>2. w \in Dir /\ w.linked = FALSE /\ w.dirt = f
    BY <1>1, RootGood DEF PlainDir, Dir
  <1> QED
    BY <1>1, <1>2, NoneIsNoDir DEF f

\* S is R with input x, and nothing else, unpacked into the directory of r.
Unpacked(R, S, r, x) ==
    /\ Sound(S) /\ Keeps(R, S) /\ S.ready = R.ready /\ S.wt[r] # None
    /\ S.wt[r].linked = FALSE /\ S.wt[r].dirt \in Made(x)
    /\ \A q \in Ref : q # r => S.wt[q] = R.wt[q]

LEMMA PlaceSound ==
  ASSUME NEW R, Sound(R), NEW r \in Ref, NEW x,
         NEW w \in Dir, w # None, w.linked = FALSE, w.dirt \in Made(x)
  PROVE  Unpacked(R, [R EXCEPT !.wt = [R.wt EXCEPT ![r] = w]], r, x)
  <1> DEFINE S == [R EXCEPT !.wt = [R.wt EXCEPT ![r] = w]]
  <1>1. w \in {None} \cup Dir /\ R \in Repo
    BY DEF Sound
  <1>2. w # None /\ w.linked => Linked(R, r) /\ w.on = R.wt[r].on /\ w.head = R.wt[r].head
    OBVIOUS
  <1>3. Sound(S) /\ Keeps(R, S) /\ S.ready = R.ready
    BY <1>1, <1>2, SetDirSound
  <1>4. S.wt[r] = w /\ \A q \in Ref : q # r => S.wt[q] = R.wt[q]
    <2>1. R.wt \in [Ref -> {None} \cup Dir]
      BY <1>1, RepoFields
    <2>2. S.wt = [R.wt EXCEPT ![r] = w]
      BY <1>1 DEF Repo
    <2> HIDE DEF S
    <2> QED
      BY <2>1, <2>2
  <1> HIDE DEF S
  <1>5. Unpacked(R, S, r, x)
    BY <1>3, <1>4 DEF Unpacked
  <1> QED
    BY <1>5 DEF S

LEMMA UnpackSound ==
  ASSUME NEW R, Sound(R), NEW r \in Ref, NEW x \in Input, NEW o \in Outcome \cup {0},
         NEW e \in Seq(Input), NEW h \in Seq(Input)
  PROVE  Unpacked(R, [R EXCEPT !.wt[r] = PlainDir(<<Done(x, o)>>, e, h)], r, x)
  <1> DEFINE w == PlainDir(<<Done(x, o)>>, e, h)
  <1>1. w \in Dir /\ w # None /\ w.linked = FALSE /\ w.dirt \in Made(x)
    BY PlainDirFacts
  <1> HIDE DEF w
  <1>2. Unpacked(R, [R EXCEPT !.wt = [R.wt EXCEPT ![r] = w]], r, x)
    BY <1>1, PlaceSound
  <1> QED
    BY <1>2 DEF w

LEMMA BranchNocheckoutSound ==
  ASSUME NEW R, Sound(R), NEW src \in Ref, NEW dest \in Ref, src # dest,
         R.ready[dest] \in Good, ~Plain(R, src)
  PROVE  LET N == BranchNocheckout(R, src, dest) IN
         Sound(N) /\ Keeps(R, N) /\ N.ready[dest] = R.ready[dest] /\ (Tidy(R) => Tidy(N))
  <1> DEFINE N == BranchNocheckout(R, src, dest)
  <1>1. R \in Repo /\ R.rlog \in Reflog /\ R.ready \in Branch
    BY RepoFields DEF Sound
  <1>2. R.ready[dest] # None
    BY NoneIsNoCommit
  <1>3. R.wt[src] # None => WorktreeHead(R, src) \in Good
    BY DEF Sound, Plain, Linked
  <1>4. /\ N \in Repo /\ N.log = R.log /\ N.unready = R.unready
        /\ N.ready = [R.ready EXCEPT ![src] = R.ready[dest]]
        /\ N.rlog = [R.rlog EXCEPT ![src] = @ \cup {R.ready[dest]} \cup Some(R.ready[src])]
        /\ N.wt[src] # None => N.wt[src].on = "detached" /\ N.wt[src].head \in Good
        /\ N.wt[src] # None => /\ R.wt[src] # None /\ N.wt[src].linked = R.wt[src].linked
                               /\ N.wt[src].dirt = R.wt[src].dirt
        /\ \A q \in Ref : q # src => N.wt[q] = R.wt[q]
    BY <1>1, <1>2, <1>3, BranchNocheckoutFacts
  <1> HIDE DEF N
  <1>5. N.ready[src] = R.ready[dest] /\ \A q \in Ref : q # src => N.ready[q] = R.ready[q]
    BY <1>1, <1>4 DEF Branch
  <1>6. /\ N.rlog[src] = R.rlog[src] \cup {R.ready[dest]} \cup Some(R.ready[src])
        /\ \A q \in Ref : q # src => N.rlog[q] = R.rlog[q]
    BY <1>1, <1>4 DEF Reflog
  <1>7. Sound(N)
    <2>1. \A q \in Ref : q # src => /\ N.wt[q] = R.wt[q] /\ N.ready[q] = R.ready[q]
                                    /\ N.unready[q] = R.unready[q]
      BY <1>4, <1>5
    <2>2. Linked(N, src) => WorktreeHead(N, src) \in Good
      BY <1>4 DEF Linked, WorktreeHead
    <2>3. N \in Repo
      BY <1>4
    <2> QED
      BY <2>1, <2>2, <2>3, SoundIntro
  <1>8. ASSUME NEW d \in Good, InCore(R, d) PROVE InCore(N, d)
    <2>1. d # None
      BY NoneIsNoCommit
    <2>2. \A q \in Ref : d = R.ready[q] => d \in N.rlog[src] \/ d = N.ready[q]
      BY <1>5, <1>6, <2>1 DEF Some
    <2> QED
      BY <1>4, <1>6, <1>8, <2>2 DEF InCore
  <1>9. Keeps(R, N)
    BY <1>8, KeepsCore
  <1>10. Tidy(R) => Tidy(N)
    <2> HAVE Tidy(R)
    <2>1. N.wt[src] # None => Neat(N.wt[src], src)
      BY <1>4 DEF Neat, Tidy
    <2> QED
      BY <1>4, <2>1, TidyIntro
  <1> QED
    BY <1>5, <1>7, <1>9, <1>10 DEF N

\* A directory that has been put into the cache is neat.
LEMMA LinkedTidy ==
  ASSUME NEW R, Tidy(R), NEW r \in Ref, NEW N, Sound(N), N.wt[r].dirt = << >>, Linked(N, r),
         \A q \in Ref : q # r => N.wt[q] = R.wt[q]
  PROVE  Tidy(N)
  <1>1. N.wt[r].linked = TRUE
    BY LinkedDir DEF Sound
  <1>2. Neat(N.wt[r], r)
    BY <1>1 DEF Neat
  <1> QED
    BY <1>2, TidyIntro

LEMMA PullLazySound ==
  ASSUME NEW R, Sound(R), NEW r \in Ref, NEW src \in Ref, NEW v \in Nat
  PROVE  LET N == PullLazy(R, r, src, v) IN
         Sound(N) /\ Keeps(R, N) /\ N.ready[r] \in Good /\ (Tidy(R) => Tidy(N))
  <1> DEFINE x == PullOf(v)
             p == <<x>>
             U == [R EXCEPT !.wt[r] = PlainDir(<<Done(x, 0)>>, p, p)]
             P == MakeReady(Commit(WorktreeAdopt(U, r), r, <<x>>, FALSE), r)
             B == BranchNocheckout(P, src, r)
  <1>1. PullLazy(R, r, src, v) = IF src = r \/ Plain(P, src) THEN P ELSE B
    BY DEF PullLazy
  <1>2. x \in Input /\ x.op # "env"
    BY InputFacts
  <1>3. p \in Seq(Input)
    BY <1>2
  <1> HIDE DEF x, p
  <1>4. /\ Sound(U) /\ Keeps(R, U) /\ U.ready = R.ready /\ U.wt[r] # None
        /\ U.wt[r].linked = FALSE /\ U.wt[r].dirt \in Made(x)
        /\ \A q \in Ref : q # r => U.wt[q] = R.wt[q]
    <2>1. Unpacked(R, U, r, x)
      <3> DEFINE o == 0
      <3>1. o \in Outcome \cup {0}
        OBVIOUS
      <3>2. U = [R EXCEPT !.wt[r] = PlainDir(<<Done(x, o)>>, p, p)]
        OBVIOUS
      <3> HIDE DEF o, U
      <3>3. Unpacked(R, [R EXCEPT !.wt[r] = PlainDir(<<Done(x, o)>>, p, p)], r, x)
        BY <1>2, <1>3, <3>1, UnpackSound
      <3> QED
        BY <3>2, <3>3
    <2> HIDE DEF U
    <2> QED
      BY <2>1 DEF Unpacked
  <1> HIDE DEF U
  <1>5. /\ Sound(P) /\ Keeps(U, P) /\ P.ready[r] \in Good /\ Linked(P, r)
        /\ P.wt[r].dirt = << >> /\ \A q \in Ref : q # r => P.wt[q] = U.wt[q]
    BY <1>2, <1>4, OnRootSound
  <1> HIDE DEF P
  <1>6. Keeps(R, P)
    BY <1>4, <1>5, KeepsTrans
  <1>8. Tidy(R) => Tidy(P)
    BY <1>4, <1>5, LinkedTidy
  <1>7. ASSUME ~(src = r \/ Plain(P, src))
        PROVE  Sound(B) /\ Keeps(R, B) /\ B.ready[r] \in Good /\ (Tidy(P) => Tidy(B))
    <2>1. Sound(B) /\ Keeps(P, B) /\ B.ready[r] = P.ready[r] /\ (Tidy(P) => Tidy(B))
      BY <1>5, <1>7, BranchNocheckoutSound
    <2> HIDE DEF B
    <2>2. Keeps(R, B)
      BY <1>6, <2>1, KeepsTrans
    <2> QED
      BY <1>5, <2>1, <2>2
  <1> HIDE DEF B
  <1> QED
    BY <1>1, <1>5, <1>6, <1>7, <1>8

\* The directory goes, and with it the worktree.
LEMMA UnpackDeleteSound ==
  ASSUME NEW R, Sound(R), NEW r \in Ref
  PROVE  LET S == UnpackDelete(R, r) IN
         /\ Sound(S) /\ Keeps(R, S) /\ S.ready = R.ready /\ S.wt[r] = None
         /\ Tidy(R) => Tidy(S)
  <1> DEFINE S == [R EXCEPT !.wt = [R.wt EXCEPT ![r] = None]]
  <1>1. UnpackDelete(R, r) = S
    BY DEF UnpackDelete
  <1>2. None \in {None} \cup Dir
    OBVIOUS
  <1>3. Sound(S) /\ Keeps(R, S) /\ S.ready = R.ready
    BY <1>2, SetDirSound
  <1>4. /\ S.wt[r] = None
        /\ \A q \in Ref : q # r => S.wt[q] = R.wt[q]
    <2>1. R \in Repo
      BY DEF Sound
    <2>2. /\ S \in Repo
          /\ S.ready = R.ready /\ S.tag = R.tag /\ S.rlog = R.rlog /\ S.log = R.log
          /\ S.unready = R.unready /\ S.ulog = R.ulog
          /\ S.wt = [R.wt EXCEPT ![r] = None] /\ S.wt[r] = None
          /\ \A q \in Ref : q # r => S.wt[q] = R.wt[q]
      BY <1>2, <2>1, SetDirFacts
    <2> QED
      BY <2>2
  <1> HIDE DEF S
  <1>5. Tidy(R) => Tidy(S)
    BY <1>4, TidyIntro
  <1> QED
    BY <1>1, <1>3, <1>4, <1>5

\* The files and the metadata of a worktree change, its HEAD does not.
Touched(R, S, r, f) ==
    /\ Sound(S) /\ Keeps(R, S) /\ S.ready = R.ready
    /\ Linked(S, r) /\ WorktreeHead(S, r) = WorktreeHead(R, r)
    /\ LogRoots(S) \subseteq LogRoots(R)
    /\ S.wt[r].dirt = f /\ \A q \in Ref : q # r => S.wt[q] = R.wt[q]

LEMMA ContentSound ==
  ASSUME NEW R, Sound(R), NEW r \in Ref, Linked(R, r),
         NEW f \in Files, NEW e \in Seq(Input), NEW h \in Seq(Input),
         NEW S, S = [R EXCEPT !.wt = [R.wt EXCEPT ![r] =
                        [R.wt[r] EXCEPT !.dirt = f, !.env = e, !.hist = h]]]
  PROVE  Touched(R, S, r, f)
  <1> DEFINE v == R.wt[r]
             w == [v EXCEPT !.dirt = f, !.env = e, !.hist = h]
  <1>1. R \in Repo /\ v \in Dir /\ v.linked
    BY RepoFields DEF Sound, Linked
  <1>2. /\ w \in Dir /\ w.dirt = f /\ w.linked = v.linked /\ w.on = v.on /\ w.head = v.head /\ w.log = v.log
    <2> HIDE DEF v
    <2> QED
      BY <1>1 DEF Dir
  <1>3. S = [R EXCEPT !.wt = [R.wt EXCEPT ![r] = w]]
    OBVIOUS
  <1> HIDE DEF w
  <1>4. w \in {None} \cup Dir
    BY <1>2
  <1>5. w # None /\ w.linked => Linked(R, r) /\ w.on = R.wt[r].on /\ w.head = R.wt[r].head
    BY <1>2
  <1>6. Sound(S) /\ Keeps(R, S) /\ S.ready = R.ready
    BY <1>3, <1>4, <1>5, SetDirSound
  <1>7. /\ S.ready = R.ready /\ S.tag = R.tag /\ S.rlog = R.rlog /\ S.log = R.log
        /\ S.unready = R.unready /\ S.ulog = R.ulog
        /\ S.wt[r] = w /\ \A q \in Ref : q # r => S.wt[q] = R.wt[q]
    <2> DEFINE T == [R EXCEPT !.wt = [R.wt EXCEPT ![r] = w]]
    <2>1. /\ T.ready = R.ready /\ T.tag = R.tag /\ T.rlog = R.rlog /\ T.log = R.log
          /\ T.unready = R.unready /\ T.ulog = R.ulog
          /\ T.wt[r] = w /\ \A q \in Ref : q # r => T.wt[q] = R.wt[q]
      BY <1>1, <1>4, SetDirFacts
    <2>2. S = T
      BY <1>3
    <2> HIDE DEF T
    <2> QED
      BY <2>1, <2>2
  <1>8. w # None
    BY <1>2, NoneIsNoDir
  <1>9. Linked(S, r) /\ WorktreeHead(S, r) = WorktreeHead(R, r)
    BY <1>1, <1>2, <1>7, <1>8 DEF Linked, WorktreeHead
  <1>10. ASSUME NEW q \in Ref, Linked(S, q)
         PROVE  /\ Linked(R, q) /\ S.wt[q].log = R.wt[q].log
                /\ WorktreeHead(S, q) = WorktreeHead(R, q)
    <2>1. CASE q = r
      BY <1>2, <1>7, <1>9, <2>1
    <2>2. CASE q # r
      BY <1>7, <1>10, <2>2 DEF Linked, WorktreeHead
    <2> QED
      BY <2>1, <2>2
  <1>11. ASSUME NEW d \in LogRoots(S) PROVE d \in LogRoots(R)
    <2>1. CASE d = Root \/ d \in S.log
      BY <1>7, <2>1 DEF LogRoots
    <2>2. ASSUME NEW q \in Ref,
                 d \in Some(S.ready[q]) \cup Some(S.unready[q]) \cup Some(S.tag[q])
                        \cup S.rlog[q] \cup S.ulog[q]
                        \cup (IF Linked(S, q) THEN S.wt[q].log \cup {WorktreeHead(S, q)} ELSE {})
          PROVE  d \in LogRoots(R)
      <3>0. /\ Some(R.ready[q]) \cup Some(R.unready[q]) \cup Some(R.tag[q])
                        \cup R.rlog[q] \cup R.ulog[q] \subseteq LogRoots(R)
            /\ Linked(R, q) => R.wt[q].log \cup {WorktreeHead(R, q)} \subseteq LogRoots(R)
        BY DEF LogRoots
      <3>1. CASE d \in Some(S.ready[q]) \cup Some(S.unready[q]) \cup Some(S.tag[q])
                        \cup S.rlog[q] \cup S.ulog[q]
        BY <1>7, <3>0, <3>1
      <3>2. CASE Linked(S, q) /\ d \in S.wt[q].log \cup {WorktreeHead(S, q)}
        BY <1>10, <3>0, <3>2
      <3> QED
        BY <2>2, <3>1, <3>2
    <2> QED
      BY <2>1, <2>2 DEF LogRoots
  <1> QED
    BY <1>2, <1>6, <1>7, <1>9, <1>11 DEF Touched

\* Everything "git log" starts from is a commit, and so are its ancestors.
LEMMA RootsGood ==
  ASSUME NEW R, Sound(R)
  PROVE  LogRoots(R) \subseteq Good /\ Reachable(R) \subseteq Good
  <1>1. /\ R \in Repo /\ R.ready \in Branch /\ R.unready \in Branch /\ R.tag \in Branch
        /\ R.rlog \in Reflog /\ R.ulog \in Reflog /\ R.log \in SUBSET Good
        /\ R.wt \in [Ref -> {None} \cup Dir]
    BY RepoFields DEF Sound
  <1>2. ASSUME NEW d \in LogRoots(R) PROVE d \in Good
    <2>1. CASE d = Root \/ d \in R.log
      BY <1>1, <2>1, RootGood
    <2>2. ASSUME NEW q \in Ref,
                 d \in Some(R.ready[q]) \cup Some(R.unready[q]) \cup Some(R.tag[q])
                        \cup R.rlog[q] \cup R.ulog[q]
                        \cup (IF Linked(R, q) THEN R.wt[q].log \cup {WorktreeHead(R, q)} ELSE {})
          PROVE  d \in Good
      <3>1. CASE d \in Some(R.ready[q]) \cup Some(R.unready[q]) \cup Some(R.tag[q])
        BY <1>1, <3>1 DEF Some, Branch
      <3>2. CASE d \in R.rlog[q] \cup R.ulog[q]
        BY <1>1, <3>2 DEF Reflog
      <3>3. CASE Linked(R, q) /\ d \in R.wt[q].log
        <4>1. R.wt[q] \in Dir
          BY <1>1, <3>3 DEF Linked
        <4> QED
          BY <3>3, <4>1 DEF Dir
      <3>4. CASE Linked(R, q) /\ d = WorktreeHead(R, q)
        BY <3>4 DEF Sound
      <3> QED
        BY <2>2, <3>1, <3>2, <3>3, <3>4
    <2> QED
      BY <2>1, <2>2 DEF LogRoots
  <1>3. ASSUME NEW a \in Reachable(R) PROVE a \in Good
    <2>1. PICK d \in LogRoots(R) : a \in Ancestors(d)
      BY DEF Reachable
    <2> QED
      BY <1>2, <2>1, AncestorFacts
  <1> QED
    BY <1>2, <1>3

LEMMA CoreIsReachable ==
  ASSUME NEW R, Sound(R), NEW d \in Good, InCore(R, d)
  PROVE  d \in LogRoots(R)
  <1>1. d # None
    BY NoneIsNoCommit
  <1>2. CASE d \in R.log
    BY <1>2 DEF LogRoots
  <1>3. ASSUME NEW r \in Ref, d = R.ready[r] \/ d \in R.rlog[r] PROVE d \in LogRoots(R)
    <2>1. d \in Some(R.ready[r]) \cup R.rlog[r]
      BY <1>1, <1>3 DEF Some
    <2> QED
      BY <2>1 DEF LogRoots
  <1> QED
    BY <1>2, <1>3 DEF InCore
-----------------------------------------------------------------------------
(* The inductive invariant *)

Stage == [tag : Ref, from : Ref, insts : Seq(Insts)]
Command == [at : {"idle", "from", "prepare", "execute", "commit", "finish", "delete"},
            mode : Mode \cup {None}, stages : Seq(Stage), tag : {None} \cup Ref,
            insts : Seq(Insts), sid : Seq(Input), hash : {None} \cup Good, miss : Nat,
            env : Seq(Input), hist : Seq(Input), todo : SUBSET Ref]

\* Where the traversal is agrees with what is left of the Dockerfile, and
\* the commit reached has the state ID reached.
Place(q) ==
    /\ q.at = "from" => IF q.tag = None THEN q.stages # << >> ELSE Len(q.stages) > 1
    /\ q.at \in {"prepare", "execute", "commit"} => q.insts # << >>
    /\ q.at \in {"prepare", "execute", "commit", "finish"} => q.tag # None
    /\ q.at \in {"execute", "commit"} => q.miss > 0
    /\ q.at = "delete" \/ q.tag = None => q.miss = 0
    /\ q.tag # None => q.hash \in Good /\ Tip(q.hash).sid = q.sid

\* Since the first miss, the image's HEAD is the commit reached.
OnParent(R, q) == q.miss > 0 => Linked(R, q.tag) /\ WorktreeHead(R, q.tag) = q.hash

\* Since the first miss, what comes next is not in the cache, so there is no
\* hit after a miss.
Unseen(R, sid) == \A c \in Reachable(R) : Tip(c).sid # sid
Fresh(R, q) ==
    q.mode # "rebuild" /\ q.miss > 0 =>
      /\ q.at \in {"execute", "commit"} => Unseen(R, NextSid(q.sid, Head(q.insts)))
      /\ q.at = "prepare" => \A x \in Insts : Unseen(R, NextSid(q.sid, x))

\* Every directory is neat, except that in the one an instruction has been
\* executed in, its result waits to be committed.
Pending(w, i) ==
    Careful => IF IsEnv(i) THEN w.dirt = << >>
               ELSE \E o \in Outcome : w.dirt = <<Done(i, o)>>
InOrder(R, q) ==
    \A r \in Ref : R.wt[r] # None =>
        IF q.at = "commit" /\ r = q.tag THEN Pending(R.wt[r], Head(q.insts))
        ELSE Neat(R.wt[r], r)

IInv ==
    /\ Sound(repo) /\ cmd \in Command /\ remote \in [Ref -> Nat]
    /\ Place(cmd) /\ OnParent(repo, cmd) /\ Fresh(repo, cmd) /\ InOrder(repo, cmd)

LEMMA OrderIsTidy ==
  ASSUME NEW R, NEW q, q.at # "commit"
  PROVE  InOrder(R, q) <=> Tidy(R)
  BY DEF InOrder, Tidy

\* With interruptions and kills, nothing is said about the files.
LEMMA Careless ==
  ASSUME ~Careful, NEW R, NEW q
  PROVE  Tidy(R) /\ InOrder(R, q)
  BY DEF InOrder, Tidy, Neat, Pending

LEMMA CommandFields ==
  ASSUME NEW q \in Command
  PROVE  /\ q.at \in {"idle", "from", "prepare", "execute", "commit", "finish", "delete"}
         /\ q.mode \in Mode \cup {None} /\ q.stages \in Seq(Stage) /\ q.tag \in {None} \cup Ref
         /\ q.insts \in Seq(Insts) /\ q.sid \in Seq(Input) /\ q.hash \in {None} \cup Good
         /\ q.miss \in Nat /\ q.env \in Seq(Input) /\ q.hist \in Seq(Input)
         /\ q.todo \in SUBSET Ref
  BY DEF Command

\* Between commands, any tidy storage will do.
LEMMA IdleFine ==
  /\ Idle \in Command /\ Place(Idle)
  /\ \A R : OnParent(R, Idle) /\ Fresh(R, Idle) /\ (Tidy(R) => InOrder(R, Idle))
  <1>1. /\ Idle \in Command /\ Idle.at = "idle" /\ Idle.miss = 0 /\ Idle.tag = None
    BY DEF Idle, Command
  <1>2. Place(Idle)
    BY <1>1 DEF Place
  <1>3. \A R : OnParent(R, Idle) /\ Fresh(R, Idle)
    BY <1>1 DEF OnParent, Fresh
  <1>4. \A R : Tidy(R) => InOrder(R, Idle)
    BY <1>1, OrderIsTidy
  <1> QED
    BY <1>1, <1>2, <1>3, <1>4

\* Where the traversal goes is a place it can be in.
LEMMA AfterFits ==
  ASSUME NEW q \in Command, q.at = After(q.insts, q.stages), q.tag # None,
         q.hash \in Good, Tip(q.hash).sid = q.sid
  PROVE  Place(q) /\ q.at \in {"prepare", "from", "finish"}
  <1>1. CASE q.insts # << >>
    BY <1>1 DEF After, Place
  <1>2. CASE q.insts = << >> /\ Len(q.stages) > 1
    BY <1>2 DEF After, Place
  <1>3. CASE q.insts = << >> /\ ~(Len(q.stages) > 1)
    BY <1>3 DEF After, Place
  <1> QED
    BY <1>1, <1>2, <1>3

LEMMA CloseSound ==
  ASSUME IInv, cmd.at # "commit"
  PROVE  /\ Sound(Close(repo)) /\ Keeps(repo, Close(repo))
         /\ Tidy(Close(repo))
         /\ cmd.tag # None /\ cmd.miss = 0 => Close(repo).ready[cmd.tag] = cmd.hash
  <1>1. /\ Sound(repo) /\ cmd.tag \in {None} \cup Ref /\ cmd.miss \in Nat
        /\ cmd.tag # None => cmd.hash \in Good
        /\ cmd.miss > 0 => Linked(repo, cmd.tag)
    BY CommandFields DEF IInv, Place, OnParent
  <1>5. Tidy(repo)
    BY OrderIsTidy DEF IInv
  <1>2. CASE cmd.tag = None
    <2>1. Close(repo) = repo
      BY <1>2 DEF Close
    <2>2. Keeps(repo, repo)
      BY KeepsCore
    <2> QED
      BY <1>1, <1>2, <1>5, <2>1, <2>2
  <1>3. CASE cmd.tag # None /\ cmd.miss = 0
    <2> DEFINE N == CheckoutReady(repo, cmd.tag, cmd.hash)
    <2>1. Close(repo) = N
      BY <1>3 DEF Close
    <2>2. cmd.tag \in Ref /\ cmd.hash \in Good
      BY <1>1, <1>3
    <2>3. /\ Sound(N) /\ Keeps(repo, N)
          /\ N.ready = [repo.ready EXCEPT ![cmd.tag] = cmd.hash]
          /\ Tidy(repo) => Tidy(N)
      BY <1>1, <2>2, CheckoutReadySound
    <2>4. repo.ready \in Branch
      BY <1>1, RepoFields DEF Sound
    <2> HIDE DEF N
    <2>5. N.ready[cmd.tag] = cmd.hash
      BY <2>2, <2>3, <2>4 DEF Branch
    <2> QED
      BY <1>5, <2>1, <2>3, <2>5
  <1>4. CASE cmd.tag # None /\ cmd.miss # 0
    <2> DEFINE N == MakeReady(repo, cmd.tag)
    <2>1. Close(repo) = N
      BY <1>4 DEF Close
    <2>2. cmd.tag \in Ref /\ Linked(repo, cmd.tag)
      BY <1>1, <1>4
    <2>3. Sound(N) /\ Keeps(repo, N)
      BY <1>1, <2>2, MakeReadySound
    <2>4. Tidy(N)
      BY <1>1, <1>5, <2>2, MakeReadyTidy
    <2> HIDE DEF N
    <2> QED
      BY <1>4, <2>1, <2>3, <2>4
  <1> QED
    BY <1>2, <1>3, <1>4

LEMMA BaseSound ==
  ASSUME NEW R, Sound(R), Tidy(R), NEW base \in Ref, remote \in [Ref -> Nat]
  PROVE  LET N == Base(R, base) IN
         Sound(N) /\ Keeps(R, N) /\ N.ready[base] \in Good /\ Tidy(N)
  <1>1. R \in Repo /\ R.ready \in Branch
    BY RepoFields DEF Sound
  <1>2. CASE R.ready[base] # None
    <2>1. Base(R, base) = R
      BY <1>2 DEF Base
    <2>2. R.ready[base] \in Good
      BY <1>1, <1>2 DEF Branch
    <2>3. Keeps(R, R)
      BY KeepsCore
    <2> QED
      BY <2>1, <2>2, <2>3
  <1>3. CASE R.ready[base] = None /\ Plain(R, base)
    <2>1. Base(R, base) = Adopt(R, base)
      BY <1>3 DEF Base
    <2>2. R.wt[base] # None
      BY <1>3 DEF Plain
    <2> DEFINE N == Adopt(R, base)
    <2>3. Careful => R.wt[base].dirt \in Made(ImportOf(base))
      BY <1>1, <1>3, <2>2, LinkedDir DEF Tidy, Neat
    <2>4. /\ Sound(N) /\ Keeps(R, N) /\ Linked(N, base) /\ N.ready[base] \in Good
          /\ \A q \in Ref : q # base => N.ready[q] = R.ready[q]
          /\ N.wt[base].dirt = << >> /\ \A q \in Ref : q # base => N.wt[q] = R.wt[q]
      BY <2>2, <2>3, AdoptSound
    <2> HIDE DEF N
    <2>5. Tidy(N)
      BY <2>4, LinkedTidy
    <2> QED
      BY <2>1, <2>4, <2>5 DEF N
  <1>4. CASE R.ready[base] = None /\ ~Plain(R, base)
    <2> DEFINE v == remote[base]
               N == PullLazy(R, base, base, v)
    <2>1. Base(R, base) = N
      BY <1>4 DEF Base
    <2>2. v \in Nat
      OBVIOUS
    <2> HIDE DEF v
    <2>3. Sound(N) /\ Keeps(R, N) /\ N.ready[base] \in Good /\ (Tidy(R) => Tidy(N))
      BY <2>2, PullLazySound
    <2> HIDE DEF N
    <2> QED
      BY <2>1, <2>3
  <1> QED
    BY <1>2, <1>3, <1>4

LEMMA PrepareRollbackSound ==
  ASSUME NEW R, Sound(R), NEW base \in Ref, NEW tag \in Ref
  PROVE  LET N == PrepareRollback(R, base, tag) IN
         Sound(N) /\ Keeps(R, N) /\ (Tidy(R) => Tidy(N))
  <1> DEFINE B == UnpackDelete(R, base)
             C == UnpackDelete(B, tag)
  <1>1. PrepareRollback(R, base, tag) = IF ~UnpackDeleteOK(R, base) THEN R
                                        ELSE IF UnpackDeleteOK(B, tag) THEN C ELSE B
    BY DEF PrepareRollback
  <1>2. Sound(B) /\ Keeps(R, B) /\ (Tidy(R) => Tidy(B))
    BY UnpackDeleteSound
  <1> HIDE DEF B
  <1>3. Sound(C) /\ Keeps(B, C) /\ (Tidy(B) => Tidy(C))
    BY <1>2, UnpackDeleteSound
  <1> HIDE DEF C
  <1>4. Keeps(R, C)
    BY <1>2, <1>3, KeepsTrans
  <1>5. Keeps(R, R)
    BY KeepsCore
  <1> QED
    BY <1>1, <1>2, <1>3, <1>4, <1>5

LEMMA RollbackSound ==
  ASSUME NEW R, Sound(R), NEW r \in Ref, Linked(R, r)
  PROVE  /\ Sound(Rollback(R, r)) /\ Keeps(R, Rollback(R, r))
         /\ TidyBut(R, r) => Tidy(Rollback(R, r))
  <1> DEFINE f == << >>
             e == Tip(WorktreeHead(R, r)).env
             h == Tip(WorktreeHead(R, r)).hist
             S == Rollback(R, r)
  <1>1. f \in Files
    BY DEF Files
  <1>2. WorktreeHead(R, r) \in Good
    BY DEF Sound
  <1>3. e \in Seq(Input) /\ h \in Seq(Input)
    BY <1>2, CommitFacts DEF Layer
  <1>4. R \in Repo /\ R.wt \in [Ref -> {None} \cup Dir] /\ R.wt[r] \in Dir
    BY RepoFields DEF Sound, Linked
  <1>5. S = [R EXCEPT !.wt = [R.wt EXCEPT ![r].dirt = f, ![r].env = e, ![r].hist = h]]
    BY DEF Rollback
  <1> HIDE DEF e, h, f
  <1>6. [R.wt EXCEPT ![r].dirt = f, ![r].env = e, ![r].hist = h]
        = [R.wt EXCEPT ![r] = [R.wt[r] EXCEPT !.dirt = f, !.env = e, !.hist = h]]
    BY <1>4 DEF Dir
  <1>7. S = [R EXCEPT !.wt = [R.wt EXCEPT ![r] = [R.wt[r] EXCEPT !.dirt = f, !.env = e, !.hist = h]]]
    BY <1>5, <1>6
  <1> HIDE DEF S
  <1>8. Touched(R, S, r, f)
    BY <1>1, <1>3, <1>7, ContentSound
  <1>9. TidyBut(R, r) => Tidy(S)
    <2>1. S \in Repo /\ Linked(S, r) /\ S.wt[r].dirt = << >>
          /\ \A q \in Ref : q # r => S.wt[q] = R.wt[q]
      BY <1>8 DEF Touched, Sound, f
    <2>2. Neat(S.wt[r], r)
      BY <2>1, LinkedDir DEF Neat
    <2> QED
      BY <2>1, <2>2 DEF Tidy, TidyBut
  <1> QED
    BY <1>8, <1>9 DEF S, Touched

LEMMA ExecutedSound ==
  ASSUME IInv, cmd.at = "execute", NEW o \in Outcome
  PROVE  LET S == Executed(repo, o) IN
         /\ Sound(S) /\ Keeps(repo, S)
         /\ Linked(S, cmd.tag) /\ WorktreeHead(S, cmd.tag) = cmd.hash
         /\ LogRoots(S) \subseteq LogRoots(repo)
         /\ Pending(S.wt[cmd.tag], Inst) /\ TidyBut(S, cmd.tag)
  <1> DEFINE r == cmd.tag
             R == repo
             S == Executed(repo, o)
  <1>1. /\ Sound(R) /\ r \in Ref /\ Linked(R, r) /\ WorktreeHead(R, r) = cmd.hash
        /\ cmd.insts \in Seq(Insts) /\ cmd.insts # << >>
    BY CommandFields DEF IInv, Place, OnParent
  <1>4. Tidy(R) /\ TidyBut(R, r) /\ (Careful => R.wt[r].dirt = << >>)
    <2>1. Tidy(R)
      BY OrderIsTidy DEF IInv
    <2>2. R.wt[r] # None /\ R.wt[r].linked = TRUE
      BY <1>1, LinkedDir DEF Sound
    <2> QED
      BY <1>1, <2>1, <2>2 DEF Tidy, TidyBut, Neat
  <1>2. CASE IsEnv(Inst)
    <2>1. S = R
      BY <1>2 DEF Executed
    <2>2. Keeps(R, R)
      BY KeepsCore
    <2>3. Pending(R.wt[r], Inst)
      BY <1>2, <1>4 DEF Pending
    <2> QED
      BY <1>1, <1>4, <2>1, <2>2, <2>3
  <1>3. CASE ~IsEnv(Inst)
    <2> DEFINE w == R.wt[r]
               f == Append(w.dirt, Done(Inst, o))
               e == w.env
               h == w.hist
    <2>1. R \in Repo /\ R.wt \in [Ref -> {None} \cup Dir] /\ w \in Dir
      BY <1>1, RepoFields DEF Sound, Linked
    <2>2. w.dirt \in Files /\ e \in Seq(Input) /\ h \in Seq(Input)
      BY <2>1 DEF Dir
    <2>3. f \in Files
      <3>1. Inst \in Input
        <4>1. Inst \in Insts
          BY <1>1 DEF Inst
        <4> QED
          BY <4>1, InputFacts
      <3>2. Done(Inst, o) \in [in : Input, out : Outcome \cup {0}]
        BY <3>1 DEF Done
      <3> QED
        BY <2>2, <3>2, AppendProperties DEF Files
    <2>4. S = [R EXCEPT !.wt = [R.wt EXCEPT ![r] = [w EXCEPT !.dirt = f]]]
      BY <1>3 DEF Executed
    <2> HIDE DEF f
    <2>5. [w EXCEPT !.dirt = f] = [w EXCEPT !.dirt = f, !.env = e, !.hist = h]
      BY <2>1 DEF Dir
    <2>6. S = [R EXCEPT !.wt = [R.wt EXCEPT ![r] = [R.wt[r] EXCEPT !.dirt = f, !.env = e, !.hist = h]]]
      BY <2>4, <2>5
    <2> HIDE DEF S, e, h, w
    <2>7. /\ Sound(S) /\ Keeps(R, S) /\ Linked(S, r) /\ WorktreeHead(S, r) = WorktreeHead(R, r)
          /\ LogRoots(S) \subseteq LogRoots(R)
          /\ S.wt[r].dirt = f /\ \A q \in Ref : q # r => S.wt[q] = R.wt[q]
      <3>1. e \in Seq(Input) /\ h \in Seq(Input) /\ f \in Files
        BY <2>2, <2>3
      <3>2. Sound(R) /\ r \in Ref /\ Linked(R, r)
        BY <1>1
      <3> HIDE DEF R, r
      <3>3. Touched(R, S, r, f)
        BY <2>6, <3>1, <3>2, ContentSound
      <3> QED
        BY <3>3 DEF Touched
    <2>8. TidyBut(S, r)
      BY <1>4, <2>7 DEF TidyBut
    <2>9. Pending(S.wt[r], Inst)
      <3> SUFFICES ASSUME Careful PROVE \E p \in Outcome : S.wt[r].dirt = <<Done(Inst, p)>>
        BY <1>3 DEF Pending
      <3> DEFINE d == Done(Inst, o)
      <3> HIDE DEF d
      <3>1. w.dirt = << >>
        BY <1>4 DEF w
      <3>2. Append(<< >>, d) = <<d>>
        OBVIOUS
      <3>3. f = <<Done(Inst, o)>>
        BY <3>1, <3>2 DEF f, d
      <3> QED
        BY <2>7, <3>3
    <2> QED
      BY <1>1, <2>7, <2>8, <2>9 DEF S
  <1> QED
    BY <1>2, <1>3
-----------------------------------------------------------------------------
(* What the cache has not seen *)

LEMMA UnseenMono ==
  ASSUME NEW R, NEW S, LogRoots(S) \subseteq LogRoots(R), NEW sid, Unseen(R, sid)
  PROVE  Unseen(S, sid)
  BY DEF Unseen, Reachable

\* A search that finds nothing.
LEMMA NotFound ==
  ASSUME NEW R, NEW m, m # "rebuild", NEW sid, NEW r, FindSid(R, m, sid, r) = {}
  PROVE  Unseen(R, sid)
  <1> DEFINE own == IF R.ready[r] = None THEN {} ELSE Matching(Ancestors(R.ready[r]), sid)
             all == Matching(Reachable(R), sid)
  <1>1. FindSid(R, m, sid, r) = IF own # {} THEN own ELSE all
    BY DEF FindSid
  <1> HIDE DEF own, all
  <1>2. all = {}
    BY <1>1
  <1> QED
    BY <1>2 DEF all, Matching, Unseen

\* What a search finds is in the cache and has the state ID asked for.
LEMMA Found ==
  ASSUME NEW R, Sound(R), NEW m, NEW sid, NEW r \in Ref, NEW c \in FindSid(R, m, sid, r)
  PROVE  c \in Reachable(R) /\ c \in Good /\ Tip(c).sid = sid
  <1> DEFINE own == IF R.ready[r] = None THEN {} ELSE Matching(Ancestors(R.ready[r]), sid)
             all == Matching(Reachable(R), sid)
  <1>1. m # "rebuild" /\ (c \in own \/ c \in all)
    BY DEF FindSid
  <1>2. CASE c \in all
    BY <1>2, RootsGood DEF Matching
  <1>3. CASE c \in own
    <2>1. R.ready[r] # None /\ c \in Ancestors(R.ready[r]) /\ Tip(c).sid = sid
      BY <1>3 DEF Matching
    <2>2. R.ready[r] \in LogRoots(R)
      BY <2>1 DEF LogRoots, Some
    <2>3. c \in Reachable(R)
      BY <2>1, <2>2 DEF Reachable
    <2> QED
      BY <2>1, <2>3, RootsGood
  <1> QED
    BY <1>1, <1>2, <1>3

\* The ancestors of a commit have shorter state IDs than its children.
LEMMA AddUnseen ==
  ASSUME NEW R, NEW S, NEW h \in Good, NEW x \in Input,
         \A d \in LogRoots(S) : d \in LogRoots(R) \cup {h},
         Unseen(R, Append(Tip(h).sid, x))
  PROVE  Unseen(S, Append(Tip(h).sid, x))
  <1> DEFINE s == Tip(h).sid
             t == Append(s, x)
  <1>1. Len(h) \in Nat /\ Len(h) >= 1 /\ Tip(h) \in Layer /\ Len(s) = Len(h) - 1
    BY CommitFacts
  <1>2. s \in Seq(Input)
    BY <1>1 DEF Layer
  <1>3. Len(t) = Len(h)
    BY <1>1, <1>2, AppendProperties
  <1> SUFFICES ASSUME NEW c \in Reachable(S), Tip(c).sid = t PROVE FALSE
    BY DEF Unseen
  <1> HIDE DEF t, s
  <1>4. PICK d \in LogRoots(S) : c \in Ancestors(d)
    BY DEF Reachable
  <1>5. CASE d \in LogRoots(R)
    BY <1>4, <1>5 DEF Reachable, Unseen, t, s
  <1>6. CASE d = h
    <2>1. c \in Good /\ Len(c) \in 1 .. Len(h)
      BY <1>4, <1>6, AncestorFacts
    <2>2. Len(Tip(c).sid) = Len(c) - 1
      BY <2>1, CommitFacts
    <2> QED
      BY <1>1, <1>3, <2>1, <2>2
  <1> QED
    BY <1>4, <1>5, <1>6

\* A commit that is new has no children yet.
LEMMA ChildUnseen ==
  ASSUME NEW R, Sound(R), NEW S, NEW sid \in Seq(Input), Unseen(R, sid),
         NEW h \in LogRoots(R), NEW c \in Good, Tip(c).sid = sid,
         Ancestors(c) = Ancestors(h) \cup {c},
         \A d \in LogRoots(S) : d \in LogRoots(R) \cup {c},
         NEW x \in Input
  PROVE  Unseen(S, Append(sid, x))
  <1> DEFINE t == Append(sid, x)
  <1>1. Len(t) = Len(sid) + 1 /\ Len(sid) \in Nat
    BY AppendProperties
  <1>2. t # sid
    BY <1>1
  <1> SUFFICES ASSUME NEW d \in Reachable(S), Tip(d).sid = t PROVE FALSE
    BY DEF Unseen
  <1>3. PICK e \in LogRoots(S) : d \in Ancestors(e)
    BY DEF Reachable
  <1>4. d \in Reachable(R) \/ d = c
    <2>1. CASE e \in LogRoots(R)
      BY <1>3, <2>1 DEF Reachable
    <2>2. CASE e = c
      BY <1>3, <2>2 DEF Reachable
    <2> QED
      BY <1>3, <2>1, <2>2
  <1>5. CASE d = c
    BY <1>2, <1>5
  <1>6. CASE d \in Reachable(R)
    <2>1. d \in Good
      BY <1>6, RootsGood
    <2> DEFINE p == SubSeq(d, 1, Len(d) - 1)
    <2>2. p \in Ancestors(d) /\ Tip(p).sid = sid
      BY <2>1, Parent
    <2>3. PICK r \in LogRoots(R) : d \in Ancestors(r)
      BY <1>6 DEF Reachable
    <2>4. r \in Good
      BY RootsGood
    <2>5. p \in Ancestors(r)
      BY <2>2, <2>3, <2>4, AncestorsNest
    <2> HIDE DEF p
    <2>6. p \in Reachable(R)
      BY <2>3, <2>5 DEF Reachable
    <2> QED
      BY <2>2, <2>6 DEF Unseen
  <1> QED
    BY <1>4, <1>5, <1>6
-----------------------------------------------------------------------------
(* The actions *)

\* Whatever a ready branch leads to, the cache still leads to.
Kept(R, S) ==
    \A r \in Ref : R.ready[r] # None =>
        \E d \in Good : InCore(S, d) /\ R.ready[r] \in Ancestors(d)

LEMMA KeepsKept ==
  ASSUME NEW R, Sound(R), NEW S, Keeps(R, S)
  PROVE  Kept(R, S)
  <1> SUFFICES ASSUME NEW r \in Ref, R.ready[r] # None
               PROVE  \E d \in Good : InCore(S, d) /\ R.ready[r] \in Ancestors(d)
    BY DEF Kept
  <1>1. R.ready[r] \in Good
    <2>1. R.ready \in Branch
      BY RepoFields DEF Sound
    <2> QED
      BY <2>1 DEF Branch
  <1>2. InCore(R, R.ready[r])
    BY DEF InCore
  <1> QED
    BY <1>1, <1>2 DEF Keeps

\* A step that ends a command, or is one.
LEMMA EndStep ==
  ASSUME IInv, cmd' = Idle, remote' = remote, Sound(repo'), Keeps(repo, repo'),
         Tidy(repo')
  PROVE  IInv' /\ Kept(repo, repo')
  <1>1. Kept(repo, repo')
    BY KeepsKept DEF IInv
  <1>2. cmd' \in Command /\ Place(cmd') /\ OnParent(repo', cmd') /\ Fresh(repo', cmd')
        /\ InOrder(repo', cmd')
    BY IdleFine
  <1> QED
    BY <1>1, <1>2 DEF IInv

LEMMA SameRepo ==
  ASSUME IInv
  PROVE  /\ Sound(repo) /\ Keeps(repo, repo) /\ Kept(repo, repo)
         /\ cmd.at # "commit" => Tidy(repo)
  BY KeepsCore, KeepsKept, OrderIsTidy DEF IInv

LEMMA BuildStartStep ==
  ASSUME IInv, NEW d \in Dockerfile, NEW m \in Mode, BuildStart(d, m)
  PROVE  IInv' /\ Kept(repo, repo')
  <1>1. d \in Seq(Stage) /\ d # << >>
    BY DockerfileAssumption DEF Stage
  <1>2. cmd' = [Idle EXCEPT !.at = "from", !.mode = m, !.stages = d] /\ repo' = repo
        /\ remote' = remote /\ cmd = Idle
    BY DEF BuildStart, Start
  <1> DEFINE q == cmd'
             i == Idle
  <1>3. i \in Command /\ i.tag = None /\ i.miss = 0
    BY IdleFine DEF Idle
  <1> HIDE DEF q, i
  <1>4. q = [i EXCEPT !.at = "from", !.mode = m, !.stages = d]
    BY <1>2 DEF q, i
  <1>5. q \in Command /\ q.at = "from" /\ q.stages = d /\ q.tag = i.tag /\ q.miss = i.miss
    BY <1>1, <1>3, <1>4 DEF Command
  <1>6. Place(q) /\ OnParent(repo', q) /\ Fresh(repo', q)
    BY <1>1, <1>3, <1>5 DEF Place, OnParent, Fresh
  <1>7. InOrder(repo', q)
    <2>1. cmd.at # "commit"
      BY <1>2 DEF Idle
    <2>2. Tidy(repo')
      BY <1>2, <2>1, SameRepo
    <2> QED
      BY <1>5, <2>2, OrderIsTidy
  <1> QED
    BY <1>2, <1>5, <1>6, <1>7, SameRepo DEF IInv, q

\* The stage that begins.
LEMMA BegunFacts ==
  ASSUME IInv, cmd.at = "from"
  PROVE  /\ Begun \in Seq(Stage) /\ Begun # << >> /\ Head(Begun) \in Stage
         /\ Head(Begun).tag \in Ref /\ Head(Begun).from \in Ref
         /\ Head(Begun).insts \in Seq(Insts)
  <1> DEFINE st == cmd.stages
             b == Begun
  <1>1. /\ st \in Seq(Stage)
        /\ IF cmd.tag = None THEN st # << >> ELSE Len(st) > 1
    BY CommandFields DEF IInv, Place
  <1>2. b \in Seq(Stage) /\ b # << >>
    <2>1. CASE cmd.tag = None
      BY <1>1, <2>1 DEF Begun
    <2>2. CASE cmd.tag # None
      <3>1. st # << >>
        BY <1>1, <2>2
      <3>2. Tail(st) \in Seq(Stage) /\ Len(Tail(st)) = Len(st) - 1
        BY <1>1, <3>1, HeadTailProperties
      <3>3. b = Tail(st)
        BY <2>2 DEF Begun
      <3> HIDE DEF b, st
      <3>4. Len(b) > 0 /\ b \in Seq(Stage)
        BY <1>1, <2>2, <3>2, <3>3
      <3>5. b # << >>
        BY <3>4
      <3> QED
        BY <3>4, <3>5
    <2> QED
      BY <2>1, <2>2
  <1> HIDE DEF b
  <1>3. Head(b) \in Stage
    BY <1>2
  <1>4. Head(b).tag \in Ref /\ Head(b).from \in Ref /\ Head(b).insts \in Seq(Insts)
    BY <1>3 DEF Stage
  <1> QED
    BY <1>2, <1>3, <1>4 DEF b

LEMMA AfterPlaces ==
  ASSUME NEW insts, NEW stages
  PROVE  After(insts, stages) \in {"prepare", "from", "finish"}
  BY DEF After

LEMMA FromStep ==
  ASSUME IInv, From
  PROVE  IInv' /\ Kept(repo, repo')
  <1> DEFINE stage == Head(Begun)
             C == Close(repo)
             R == Base(C, stage.from)
             h == R.ready[stage.from]
             e == DirEnv(R, stage.from)
             hi == DirHist(R, stage.from)
             a == After(stage.insts, Begun)
             q == cmd'
  <1>1. /\ cmd.at = "from" /\ repo' = R /\ remote' = remote
        /\ q = [cmd EXCEPT !.at = a, !.stages = Begun, !.tag = stage.tag,
                           !.insts = stage.insts, !.hash = h, !.sid = Tip(h).sid,
                           !.miss = 0, !.env = e, !.hist = hi]
    BY DEF From, Goes
  <1>2. /\ Begun \in Seq(Stage) /\ stage \in Stage
        /\ stage.tag \in Ref /\ stage.from \in Ref /\ stage.insts \in Seq(Insts)
    BY <1>1, BegunFacts
  <1>3. Sound(C) /\ Keeps(repo, C) /\ Tidy(C)
    BY <1>1, CloseSound
  <1>4. remote \in [Ref -> Nat] /\ cmd \in Command
    BY DEF IInv
  <1> HIDE DEF C
  <1>5. Sound(R) /\ Keeps(C, R) /\ h \in Good /\ Tidy(R)
    BY <1>2, <1>3, <1>4, BaseSound
  <1>6. Keeps(repo, R)
    BY <1>3, <1>5, KeepsTrans
  <1>7. Tip(h).sid \in Seq(Input)
    BY <1>5, CommitFacts DEF Layer
  <1>8. e \in Seq(Input) /\ hi \in Seq(Input)
    <2>1. R.wt \in [Ref -> {None} \cup Dir]
      BY <1>5, RepoFields DEF Sound
    <2> HIDE DEF R
    <2>2. CASE R.wt[stage.from] = None
      <3>1. e = << >> /\ hi = << >>
        BY <2>2 DEF DirEnv, DirHist
      <3>2. << >> \in Seq(Input)
        OBVIOUS
      <3> HIDE DEF e, hi
      <3> QED
        BY <3>1, <3>2
    <2>3. CASE R.wt[stage.from] # None
      <3>1. R.wt[stage.from] \in Dir
        BY <1>2, <2>1, <2>3
      <3>2. e = R.wt[stage.from].env /\ hi = R.wt[stage.from].hist
        BY <2>3 DEF DirEnv, DirHist
      <3> QED
        BY <3>1, <3>2 DEF Dir
    <2> QED
      BY <2>2, <2>3
  <1>9. a \in {"prepare", "from", "finish"}
    BY AfterPlaces
  <1>10. stage.tag # None
    BY <1>2, NoneAssumption
  <1> HIDE DEF a, h, e, hi, q, stage, R
  <1>11. /\ q \in Command /\ q.at = a /\ q.stages = Begun /\ q.tag = stage.tag
         /\ q.insts = stage.insts /\ q.hash = h /\ q.sid = Tip(h).sid /\ q.miss = 0
    BY <1>1, <1>2, <1>4, <1>5, <1>7, <1>8, <1>9 DEF Command
  <1>12. Place(q)
    <2>1. q.at = After(q.insts, q.stages)
      BY <1>11 DEF a
    <2> QED
      BY <1>5, <1>10, <1>11, <2>1, AfterFits
  <1>13. OnParent(repo', q) /\ Fresh(repo', q)
    BY <1>11 DEF OnParent, Fresh
  <1>15. InOrder(repo', q)
    <2>1. q.at # "commit"
      BY <1>9, <1>11
    <2> QED
      BY <1>1, <1>5, <2>1, OrderIsTidy
  <1>14. Kept(repo, repo')
    BY <1>1, <1>6, KeepsKept DEF IInv
  <1> QED
    BY <1>1, <1>4, <1>5, <1>11, <1>12, <1>13, <1>14, <1>15 DEF IInv, q

LEMMA FromFailsStep ==
  ASSUME IInv, FromFails
  PROVE  IInv' /\ Kept(repo, repo')
  <1> DEFINE stage == Head(Begun)
             C == Close(repo)
             P == PrepareRollback(repo, stage.from, stage.tag)
             Q == PrepareRollback(C, stage.from, stage.tag)
  <1>1. cmd.at = "from" /\ cmd' = Idle /\ remote' = remote /\ (repo' = P \/ repo' = Q)
    BY DEF FromFails, End
  <1>2. stage.tag \in Ref /\ stage.from \in Ref
    BY <1>1, BegunFacts
  <1>3. Sound(C) /\ Keeps(repo, C) /\ Tidy(C)
    BY <1>1, CloseSound
  <1>4. Sound(repo) /\ Tidy(repo)
    BY <1>1, SameRepo
  <1> HIDE DEF C, stage
  <1>5. Sound(P) /\ Keeps(repo, P) /\ (Tidy(repo) => Tidy(P))
    BY <1>2, <1>4, PrepareRollbackSound
  <1>6. Sound(Q) /\ Keeps(C, Q) /\ (Tidy(C) => Tidy(Q))
    BY <1>2, <1>3, PrepareRollbackSound
  <1>7. Keeps(repo, Q)
    BY <1>3, <1>6, KeepsTrans
  <1> HIDE DEF P, Q
  <1> QED
    BY <1>1, <1>3, <1>4, <1>5, <1>6, <1>7, EndStep

\* The instruction in progress, and what it does to the environment.
LEMMA InstFacts ==
  ASSUME IInv, cmd.at \in {"prepare", "execute", "commit"}
  PROVE  /\ Inst \in Insts /\ Inst \in Input /\ Tail(cmd.insts) \in Seq(Insts)
         /\ EnvAfter(Inst) \in Seq(Input) /\ NextSid(cmd.sid, Inst) \in Seq(Input)
         /\ Append(cmd.hist, Inst) \in Seq(Input)
         /\ cmd.tag \in Ref /\ cmd.tag # None
         /\ cmd.hash \in Good /\ Tip(cmd.hash).sid = cmd.sid
  <1>1. /\ cmd.insts \in Seq(Insts) /\ cmd.insts # << >> /\ cmd.tag # None
        /\ cmd.sid \in Seq(Input) /\ cmd.env \in Seq(Input) /\ cmd.hist \in Seq(Input)
        /\ cmd.tag \in Ref /\ cmd.hash \in Good /\ Tip(cmd.hash).sid = cmd.sid
    BY CommandFields DEF IInv, Place
  <1>2. Head(cmd.insts) \in Insts /\ Tail(cmd.insts) \in Seq(Insts)
    BY <1>1, HeadTailProperties
  <1>3. Inst \in Insts /\ Inst \in Input
    BY <1>2, InputFacts DEF Inst
  <1>4. /\ Append(cmd.env, Inst) \in Seq(Input) /\ Append(cmd.sid, Inst) \in Seq(Input)
        /\ Append(cmd.hist, Inst) \in Seq(Input)
    BY <1>1, <1>3, AppendProperties
  <1>5. EnvAfter(Inst) \in Seq(Input)
    BY <1>1, <1>4 DEF EnvAfter
  <1> QED
    BY <1>1, <1>2, <1>3, <1>4, <1>5 DEF NextSid

\* No hit after a miss.
LEMMA NoLateHit ==
  ASSUME IInv, cmd.at = "prepare", cmd.miss > 0
  PROVE  FindSid(repo, cmd.mode, NextSid(cmd.sid, Inst), cmd.tag) = {}
  <1> DEFINE s == NextSid(cmd.sid, Inst)
  <1>1. CASE cmd.mode = "rebuild"
    BY <1>1 DEF FindSid
  <1>2. CASE cmd.mode # "rebuild"
    <2>1. Unseen(repo, s)
      BY <1>2, InstFacts DEF IInv, Fresh
    <2>2. cmd.tag \in Ref /\ Sound(repo)
      BY InstFacts DEF IInv
    <2> HIDE DEF s
    <2>3. ASSUME NEW c \in FindSid(repo, cmd.mode, s, cmd.tag) PROVE FALSE
      BY <2>1, <2>2, Found DEF Unseen
    <2> QED
      BY <2>3 DEF s
  <1> QED
    BY <1>1, <1>2

LEMMA HitStep ==
  ASSUME IInv, cmd.at = "prepare",
         NEW c \in FindSid(repo, cmd.mode, NextSid(cmd.sid, Inst), cmd.tag), Hit(c),
         repo' = repo, remote' = remote
  PROVE  IInv' /\ Kept(repo, repo')
  <1> DEFINE s == NextSid(cmd.sid, Inst)
             a == After(Tail(cmd.insts), cmd.stages)
             t == Tail(cmd.insts)
             e == EnvAfter(Inst)
             q == cmd'
  <1>1. q = [cmd EXCEPT !.at = a, !.insts = t, !.sid = s, !.hash = c, !.env = e]
    BY DEF Hit
  <1>2. /\ t \in Seq(Insts) /\ e \in Seq(Input) /\ s \in Seq(Input) /\ cmd.tag \in Ref
        /\ cmd.tag # None
    BY InstFacts
  <1>3. cmd \in Command /\ Sound(repo)
    BY DEF IInv
  <1>4. cmd.miss = 0
    BY <1>3, NoLateHit, CommandFields
  <1>5. a \in {"prepare", "from", "finish"}
    BY AfterPlaces
  <1>6. c \in Good /\ Tip(c).sid = s
    BY <1>2, <1>3, Found
  <1> HIDE DEF s, t, e, a, q
  <1>7. /\ q \in Command /\ q.at = a /\ q.insts = t /\ q.sid = s /\ q.hash = c
        /\ q.tag = cmd.tag /\ q.miss = cmd.miss /\ q.stages = cmd.stages
    BY <1>1, <1>2, <1>3, <1>5, <1>6 DEF Command
  <1>8. Place(q)
    <2>1. q.at = After(q.insts, q.stages)
      BY <1>7 DEF a, t
    <2> QED
      BY <1>2, <1>6, <1>7, <2>1, AfterFits
  <1>9. OnParent(repo', q) /\ Fresh(repo', q)
    BY <1>4, <1>7 DEF OnParent, Fresh
  <1>10. InOrder(repo', q)
    BY <1>5, <1>7, SameRepo, OrderIsTidy
  <1> QED
    BY <1>7, <1>8, <1>9, <1>10, SameRepo DEF IInv, q

LEMMA MissStep ==
  ASSUME IInv, cmd.at = "prepare",
         FindSid(repo, cmd.mode, NextSid(cmd.sid, Inst), cmd.tag) = {},
         repo' = (IF cmd.miss = 0 THEN WorktreeAdd(repo, cmd.tag, cmd.hash) ELSE repo),
         cmd' = [cmd EXCEPT !.at = "execute", !.miss = @ + 1, !.env = EnvAfter(Inst)],
         remote' = remote
  PROVE  IInv' /\ Kept(repo, repo')
  <1> DEFINE s == NextSid(cmd.sid, Inst)
             e == EnvAfter(Inst)
             n == cmd.miss + 1
             N == repo'
             r == cmd.tag
             h == cmd.hash
             q == cmd'
  <1>1. /\ e \in Seq(Input) /\ s \in Seq(Input) /\ r \in Ref /\ Inst \in Input
        /\ r # None /\ h \in Good /\ Tip(h).sid = cmd.sid /\ s = Append(Tip(h).sid, Inst)
    BY InstFacts DEF NextSid
  <1>2. cmd \in Command /\ Sound(repo) /\ cmd.miss \in Nat /\ cmd.insts # << >>
    BY CommandFields DEF IInv, Place
  <1>3. /\ Sound(N) /\ Keeps(repo, N) /\ Linked(N, r) /\ WorktreeHead(N, r) = h
        /\ \A d \in LogRoots(N) : d \in LogRoots(repo) \cup {h}
        /\ Tidy(N)
    <2>0. Tidy(repo)
      BY SameRepo
    <2>1. CASE cmd.miss = 0
      <3> DEFINE W == WorktreeAdd(repo, cmd.tag, cmd.hash)
      <3>1. /\ Sound(W) /\ Keeps(repo, W) /\ Linked(W, r) /\ WorktreeHead(W, r) = h
            /\ \A d \in LogRoots(W) : d \in LogRoots(repo) \cup {h}
        BY <1>1, <1>2, WorktreeAddSound
      <3>2. N = W
        BY <2>1
      <3>3. Tidy(W)
        BY <1>1, <1>2, <2>0, WorktreeAddTidy
      <3> HIDE DEF W, N
      <3> QED
        BY <3>1, <3>2, <3>3
    <2>2. CASE cmd.miss # 0
      <3>1. N = repo
        BY <2>2
      <3>2. Linked(repo, r) /\ WorktreeHead(repo, r) = h
        BY <1>2, <2>2 DEF IInv, OnParent
      <3> HIDE DEF N
      <3> QED
        BY <1>2, <2>0, <3>1, <3>2, SameRepo
    <2> QED
      BY <2>1, <2>2
  <1>4. n \in Nat /\ n > 0 /\ q = [cmd EXCEPT !.at = "execute", !.miss = n, !.env = e]
    BY <1>2
  <1>5. cmd.mode # "rebuild" => Unseen(N, s)
    <2> HAVE cmd.mode # "rebuild"
    <2> HIDE DEF s, N
    <2>1. Unseen(repo, s)
      BY NotFound DEF s
    <2> QED
      BY <1>1, <1>3, <2>1, AddUnseen
  <1>6. s = NextSid(cmd.sid, Head(cmd.insts))
    BY DEF Inst
  <1> HIDE DEF e, n, q, s, N
  <1>7. /\ q \in Command /\ q.at = "execute" /\ q.miss = n /\ q.insts = cmd.insts
        /\ q.sid = cmd.sid /\ q.hash = h /\ q.tag = r /\ q.mode = cmd.mode
    BY <1>1, <1>2, <1>4 DEF Command
  <1>8. Place(q)
    BY <1>1, <1>2, <1>4, <1>7 DEF Place
  <1>9. OnParent(N, q)
    BY <1>3, <1>7 DEF OnParent
  <1>10. Fresh(N, q)
    BY <1>5, <1>6, <1>7 DEF Fresh
  <1>12. InOrder(N, q)
    BY <1>3, <1>7, OrderIsTidy
  <1>11. Kept(repo, N)
    BY <1>2, <1>3, KeepsKept
  <1> QED
    BY <1>3, <1>7, <1>8, <1>9, <1>10, <1>11, <1>12 DEF IInv, q, N

LEMMA PrepareStep ==
  ASSUME IInv, Prepare
  PROVE  IInv' /\ Kept(repo, repo')
  <1> DEFINE hits == FindSid(repo, cmd.mode, NextSid(cmd.sid, Inst), cmd.tag)
  <1>1. cmd.at = "prepare" /\ remote' = remote
    BY DEF Prepare, Goes
  <1>2. CASE hits # {}
    <2>1. PICK c \in hits : Hit(c)
      BY <1>2 DEF Prepare
    <2>2. repo' = repo
      BY <1>2 DEF Prepare
    <2> QED
      BY <1>1, <2>1, <2>2, HitStep
  <1>3. CASE cmd' = Idle /\ repo' = repo
    BY <1>1, <1>3, SameRepo, EndStep
  <1>4. CASE /\ hits = {}
             /\ repo' = (IF cmd.miss = 0 THEN WorktreeAdd(repo, cmd.tag, cmd.hash) ELSE repo)
             /\ cmd' = [cmd EXCEPT !.at = "execute", !.miss = @ + 1, !.env = EnvAfter(Inst)]
    BY <1>1, <1>4, MissStep
  <1> QED
    BY <1>2, <1>3, <1>4 DEF Prepare

LEMMA ExecuteStep ==
  ASSUME IInv, Execute
  PROVE  IInv' /\ Kept(repo, repo')
  <1>1. PICK o \in Outcome : repo' = Executed(repo, o)
    BY DEF Execute
  <1> DEFINE N == repo'
             q == cmd'
  <1>2. cmd.at = "execute" /\ q = [cmd EXCEPT !.at = "commit"] /\ remote' = remote
    BY DEF Execute, Goes
  <1>3. /\ Sound(N) /\ Keeps(repo, N) /\ Linked(N, cmd.tag) /\ WorktreeHead(N, cmd.tag) = cmd.hash
        /\ LogRoots(N) \subseteq LogRoots(repo)
        /\ Pending(N.wt[cmd.tag], Inst) /\ TidyBut(N, cmd.tag)
    BY <1>1, <1>2, ExecutedSound
  <1>4. cmd \in Command /\ Sound(repo) /\ Place(cmd) /\ Fresh(repo, cmd)
    BY DEF IInv
  <1> HIDE DEF q, N
  <1>5. /\ q \in Command /\ q.at = "commit" /\ q.miss = cmd.miss /\ q.insts = cmd.insts
        /\ q.sid = cmd.sid /\ q.hash = cmd.hash /\ q.tag = cmd.tag /\ q.mode = cmd.mode
    BY <1>2, <1>4 DEF Command
  <1>6. Place(q)
    BY <1>2, <1>4, <1>5 DEF Place
  <1>7. OnParent(N, q)
    BY <1>3, <1>5 DEF OnParent
  <1>8. Fresh(N, q)
    <2> SUFFICES ASSUME q.mode # "rebuild", q.miss > 0
                 PROVE  Unseen(N, NextSid(q.sid, Head(q.insts)))
      BY <1>5 DEF Fresh
    <2>1. Unseen(repo, NextSid(q.sid, Head(q.insts)))
      BY <1>2, <1>4, <1>5 DEF Fresh
    <2> QED
      BY <1>3, <2>1, UnseenMono
  <1>10. InOrder(N, q)
    BY <1>3, <1>5 DEF InOrder, TidyBut, Inst
  <1>9. Kept(repo, N)
    BY <1>3, <1>4, KeepsKept
  <1> QED
    BY <1>2, <1>3, <1>5, <1>6, <1>7, <1>8, <1>9, <1>10 DEF IInv, q, N

LEMMA ExecuteFailsStep ==
  ASSUME IInv, ExecuteFails
  PROVE  IInv' /\ Kept(repo, repo')
  <1>1. PICK o \in Outcome : repo' \in {Rollback(R, cmd.tag) : R \in {repo, Executed(repo, o)}}
    BY DEF ExecuteFails
  <1>2. PICK R \in {repo, Executed(repo, o)} : repo' = Rollback(R, cmd.tag)
    BY <1>1
  <1>3. cmd.at = "execute" /\ cmd' = Idle /\ remote' = remote
    BY DEF ExecuteFails, End
  <1>4. cmd.tag \in Ref
    BY <1>3, InstFacts
  <1>5. Sound(R) /\ Keeps(repo, R) /\ Linked(R, cmd.tag) /\ TidyBut(R, cmd.tag)
    <2>1. CASE R = repo
      BY <1>3, <2>1, SameRepo DEF IInv, Place, OnParent, Tidy, TidyBut
    <2>2. CASE R = Executed(repo, o)
      BY <1>3, <2>2, ExecutedSound
    <2> QED
      BY <2>1, <2>2
  <1>6. Sound(repo') /\ Keeps(R, repo') /\ Tidy(repo')
    BY <1>2, <1>4, <1>5, RollbackSound
  <1>7. Keeps(repo, repo')
    BY <1>5, <1>6, KeepsTrans
  <1> QED
    BY <1>3, <1>6, <1>7, EndStep

LEMMA CommitInstStep ==
  ASSUME IInv, CommitInst
  PROVE  IInv' /\ Kept(repo, repo')
  <1> DEFINE r == cmd.tag
             hist == Append(cmd.hist, Inst)
             e == cmd.env
             w == repo.wt[r]
             W == [repo EXCEPT !.wt[r].env = e, !.wt[r].hist = hist]
             s == NextSid(cmd.sid, Inst)
             files == IsEnv(Inst)
             R == Commit(W, r, s, files)
             a == After(Tail(cmd.insts), cmd.stages)
             t == Tail(cmd.insts)
             c == WorktreeHead(R, r)
             q == cmd'
  <1>1. /\ cmd.at = "commit" /\ repo' = R /\ remote' = remote
        /\ q = [cmd EXCEPT !.at = a, !.insts = t, !.sid = s, !.hash = c, !.hist = hist]
    BY DEF CommitInst, Goes
  <1>2. /\ t \in Seq(Insts) /\ s \in Seq(Input) /\ r \in Ref /\ Inst \in Input /\ hist \in Seq(Input)
        /\ r # None /\ cmd.hash \in Good /\ Tip(cmd.hash).sid = cmd.sid
    BY <1>1, InstFacts
  <1>3. /\ cmd \in Command /\ Sound(repo) /\ e \in Seq(Input) /\ cmd.miss > 0
        /\ Linked(repo, r) /\ WorktreeHead(repo, r) = cmd.hash
    BY <1>1, CommandFields DEF IInv, Place, OnParent
  <1>4. Touched(repo, W, r, w.dirt)
    <2> DEFINE f == w.dirt
    <2>1. repo.wt \in [Ref -> {None} \cup Dir] /\ w \in Dir
      BY <1>2, <1>3, RepoFields DEF Sound, Linked
    <2>2. f \in Files
      BY <2>1 DEF Dir
    <2>3. W = [repo EXCEPT !.wt = [repo.wt EXCEPT ![r].env = e, ![r].hist = hist]]
      OBVIOUS
    <2> HIDE DEF hist, e
    <2>4. [repo.wt EXCEPT ![r].env = e, ![r].hist = hist]
          = [repo.wt EXCEPT ![r] = [repo.wt[r] EXCEPT !.dirt = f, !.env = e, !.hist = hist]]
      BY <1>2, <2>1 DEF Dir
    <2>5. W = [repo EXCEPT !.wt = [repo.wt EXCEPT ![r] =
                    [repo.wt[r] EXCEPT !.dirt = f, !.env = e, !.hist = hist]]]
      BY <2>3, <2>4
    <2> HIDE DEF W, f
    <2>6. Touched(repo, W, r, f)
      BY <1>2, <1>3, <2>2, <2>5, ContentSound
    <2> QED
      BY <2>6 DEF f
  <1> HIDE DEF W
  <1>5. /\ Sound(W) /\ Keeps(repo, W) /\ Linked(W, r) /\ WorktreeHead(W, r) = cmd.hash
        /\ LogRoots(W) \subseteq LogRoots(repo) /\ W.wt[r].dirt = w.dirt
        /\ \A z \in Ref : z # r => W.wt[z] = repo.wt[z]
    BY <1>3, <1>4 DEF Touched
  <1>6. s = Append(Tip(WorktreeHead(W, r)).sid, Inst)
    BY <1>2, <1>5 DEF NextSid
  <1>7. files \in BOOLEAN /\ (files <=> Inst.op = "env")
    <2>1. Inst \in Insts
      BY <1>1, InstFacts
    <2> QED
      BY <2>1, InstsAssumption DEF IsEnv
  <1>19. Careful => IF files THEN w.dirt = << >>
                    ELSE \E o \in Outcome : w.dirt = <<Done(Inst, o)>>
    BY <1>1, <1>2, <1>3 DEF IInv, InOrder, Pending, Linked, Inst
  <1>20. TidyBut(repo, r)
    BY DEF IInv, InOrder, TidyBut
  <1> HIDE DEF files, s
  <1>21. Fits(W, r, s, files)
    <2>1. W \in Repo /\ W.wt[r] # None /\ WorktreeHead(W, r) \in Good
      BY <1>2, <1>5 DEF Sound, Linked
    <2>2. Careful => (~files => \E o \in Outcome \cup {0} : W.wt[r].dirt = <<Done(Inst, o)>>)
      BY <1>5, <1>19
    <2> HIDE DEF w
    <2> QED
      BY <1>2, <1>6, <1>7, <2>1, <2>2, GrownBy
  <1>8. Extends(W, R, r, s, files)
    <2>1. files \in BOOLEAN
      BY <1>7
    <2> QED
      BY <1>2, <1>5, <1>6, <1>21, <2>1, CommitSound
  <1> HIDE DEF R
  <1>9. /\ Sound(R) /\ Keeps(W, R) /\ Linked(R, r) /\ c \in Good /\ Tip(c).sid = s
        /\ Ancestors(c) = Ancestors(cmd.hash) \cup {c}
        /\ \A d \in LogRoots(R) : d \in LogRoots(W) \cup {c}
        /\ R.wt[r].dirt = (IF files THEN W.wt[r].dirt ELSE << >>)
        /\ \A z \in Ref : z # r => R.wt[z] = W.wt[z]
    BY <1>5, <1>8 DEF Extends
  <1>10. Keeps(repo, R)
    BY <1>5, <1>9, KeepsTrans
  <1>11. a \in {"prepare", "from", "finish"}
    BY AfterPlaces
  <1>12. cmd.mode # "rebuild" => \A x \in Insts : Unseen(R, NextSid(s, x))
    <2> SUFFICES ASSUME cmd.mode # "rebuild", NEW x \in Insts
                 PROVE  Unseen(R, Append(s, x))
      BY DEF NextSid
    <2>1. Unseen(repo, s)
      BY <1>1, <1>3 DEF IInv, Fresh, s, Inst
    <2>2. Unseen(W, s)
      BY <1>5, <2>1, UnseenMono
    <2>3. cmd.hash \in LogRoots(W)
      <3>1. WorktreeHead(W, r) \in LogRoots(W)
        BY <1>2, <1>5 DEF LogRoots
      <3> QED
        BY <1>5, <3>1
    <2>4. x \in Input
      BY InputFacts
    <2> HIDE DEF c
    <2> QED
      BY <1>2, <1>5, <1>9, <2>2, <2>3, <2>4, ChildUnseen
  <1> HIDE DEF a, t, hist, q, c
  <1>13. /\ q \in Command /\ q.at = a /\ q.insts = t /\ q.sid = s /\ q.hash = c
         /\ q.tag = r /\ q.miss = cmd.miss /\ q.stages = cmd.stages /\ q.mode = cmd.mode
    BY <1>1, <1>2, <1>3, <1>9, <1>11 DEF Command
  <1>14. Place(q) /\ q.at \in {"prepare", "from", "finish"}
    <2>1. q.at = After(q.insts, q.stages)
      BY <1>13 DEF a, t
    <2> QED
      BY <1>2, <1>9, <1>13, <2>1, AfterFits
  <1>15. OnParent(R, q)
    BY <1>9, <1>13 DEF OnParent, c
  <1>16. Fresh(R, q)
    BY <1>12, <1>13, <1>14 DEF Fresh
  <1>22. InOrder(R, q)
    <2>1. R.wt[r].linked = TRUE
      BY <1>2, <1>9, LinkedDir DEF Sound
    <2>2. Neat(R.wt[r], r)
      BY <1>5, <1>7, <1>9, <1>19, <2>1 DEF Neat
    <2>3. Tidy(R)
      BY <1>5, <1>9, <1>20, <2>2 DEF Tidy, TidyBut
    <2> QED
      BY <1>14, <2>3, OrderIsTidy
  <1>17. Kept(repo, R)
    BY <1>3, <1>10, KeepsKept
  <1>18. remote \in [Ref -> Nat]
    BY DEF IInv
  <1> QED
    BY <1>1, <1>9, <1>13, <1>14, <1>15, <1>16, <1>17, <1>18, <1>22 DEF IInv, q

LEMMA FinishStep ==
  ASSUME IInv, Finish
  PROVE  IInv' /\ Kept(repo, repo')
  <1>1. cmd' = Idle /\ remote' = remote /\ (repo' = Close(repo) \/ repo' = repo)
        /\ cmd.at # "commit"
    BY DEF Finish, End
  <1> QED
    BY <1>1, CloseSound, SameRepo, EndStep

LEMMA AbandonStep ==
  ASSUME IInv, Abandon
  PROVE  IInv' /\ Kept(repo, repo')
  <1>1. cmd' = Idle /\ remote' = remote /\ repo' = repo
    BY DEF Abandon, End
  <1>2. Tidy(repo)
    <2>1. ~Careful
      BY DEF Abandon, Careful
    <2> QED
      BY <2>1, Careless
  <1> QED
    BY <1>1, <1>2, SameRepo, EndStep

LEMMA KillExecuteStep ==
  ASSUME IInv, KillExecute
  PROVE  IInv' /\ Kept(repo, repo')
  <1>1. PICK o \in Outcome : repo' = Executed(repo, o)
    BY DEF KillExecute
  <1>2. cmd.at = "execute" /\ cmd' = Idle /\ remote' = remote
    BY DEF KillExecute, End
  <1>3. Sound(repo') /\ Keeps(repo, repo')
    BY <1>1, <1>2, ExecutedSound
  <1>4. Tidy(repo')
    <2>1. ~Careful
      BY DEF KillExecute, Careful
    <2> QED
      BY <2>1, Careless
  <1> QED
    BY <1>2, <1>3, <1>4, EndStep

\* Between commands, storage is tidy.
LEMMA StartTidy ==
  ASSUME IInv, Start
  PROVE  Sound(repo) /\ Tidy(repo)
  <1>1. cmd.at # "commit"
    BY DEF Start, Idle
  <1> QED
    BY <1>1, SameRepo

LEMMA PullStep ==
  ASSUME IInv, NEW p \in PullArgs, NEW m \in Mode, Pull(p[1], p[2], m)
  PROVE  IInv' /\ Kept(repo, repo')
  <1> DEFINE src == p[1]
             dst == p[2]
             v == remote[src]
             hits == FindSid(repo, m, <<PullOf(v)>>, dst)
  <1>1. src \in Ref /\ dst \in Ref
    BY ArgsAssumption
  <1>2. cmd' = Idle /\ remote' = remote
    BY DEF Pull, Start
  <1>3. Sound(repo) /\ v \in Nat /\ Tidy(repo)
    BY <1>1, StartTidy DEF IInv, Pull
  <1>4. ASSUME NEW c \in hits, repo' = CheckoutReady(repo, dst, c)
        PROVE  Sound(repo') /\ Keeps(repo, repo') /\ Tidy(repo')
    <2>1. c \in Good
      BY <1>1, <1>3, Found
    <2> QED
      BY <1>1, <1>3, <1>4, <2>1, CheckoutReadySound
  <1>5. ASSUME repo' = PullLazy(repo, dst, src, v)
        PROVE  Sound(repo') /\ Keeps(repo, repo') /\ Tidy(repo')
    <2> HIDE DEF v, src, dst
    <2> QED
      BY <1>1, <1>3, <1>5, PullLazySound
  <1>6. (\E c \in hits : repo' = CheckoutReady(repo, dst, c)) \/ repo' = PullLazy(repo, dst, src, v)
    BY DEF Pull
  <1>7. Sound(repo') /\ Keeps(repo, repo') /\ Tidy(repo')
    BY <1>4, <1>5, <1>6
  <1> QED
    BY <1>2, <1>7, EndStep

LEMMA ImportStep ==
  ASSUME IInv, NEW r \in ImportArgs, Import(r)
  PROVE  IInv' /\ Kept(repo, repo')
  <1>0. PICK o \in Outcome :
          repo' = [Adopt(Imported(r, o, <<>>), r) EXCEPT !.wt[r].hist = <<ImportOf(r)>>]
    BY DEF Import
  <1> DEFINE x == ImportOf(r)
             U == [repo EXCEPT !.wt[r] = PlainDir(<<Done(x, o)>>, <<>>, <<>>)]
             A == Adopt(U, r)
             h == <<x>>
  <1>1. r \in Ref
    BY ArgsAssumption
  <1>2. cmd' = Idle /\ remote' = remote
    BY DEF Import, Start
  <1>3. repo' = [A EXCEPT !.wt[r].hist = h]
    BY <1>0 DEF Imported
  <1>4. Sound(repo) /\ Tidy(repo)
    BY StartTidy DEF Import
  <1>5. x \in Input /\ << >> \in Seq(Input)
    BY <1>1, InputFacts
  <1> HIDE DEF x
  <1>6. h \in Seq(Input)
    BY <1>5
  <1> HIDE DEF h
  <1>7. /\ Sound(U) /\ Keeps(repo, U) /\ U.wt[r] # None /\ U.wt[r].dirt \in Made(x)
        /\ \A q \in Ref : q # r => U.wt[q] = repo.wt[q]
    <2> DEFINE e == << >>
    <2>1. e \in Seq(Input)
      BY <1>5
    <2> HIDE DEF e
    <2>2. Unpacked(repo, [repo EXCEPT !.wt[r] = PlainDir(<<Done(x, o)>>, e, e)], r, x)
      BY <1>1, <1>4, <1>5, <2>1, UnpackSound
    <2>3. Unpacked(repo, U, r, x)
      BY <2>2 DEF e
    <2> HIDE DEF U
    <2> QED
      BY <2>3 DEF Unpacked
  <1> HIDE DEF U
  <1>8. /\ Sound(A) /\ Keeps(U, A) /\ Linked(A, r) /\ A.ready[r] \in Good
        /\ \A q \in Ref : q # r => A.ready[q] = U.ready[q]
        /\ A.wt[r].dirt = << >> /\ \A q \in Ref : q # r => A.wt[q] = U.wt[q]
    <2>1. Careful => U.wt[r].dirt \in Made(ImportOf(r))
      BY <1>7 DEF x
    <2> QED
      BY <1>1, <1>7, <2>1, AdoptSound
  <1> HIDE DEF A
  <1>9. Touched(A, repo', r, A.wt[r].dirt)
    <2> DEFINE w == A.wt[r]
               f == w.dirt
               e == w.env
               N == repo'
    <2>1. A.wt \in [Ref -> {None} \cup Dir] /\ w \in Dir
      BY <1>1, <1>8, RepoFields DEF Sound, Linked
    <2>2. f \in Files /\ e \in Seq(Input)
      BY <2>1 DEF Dir
    <2>3. N = [A EXCEPT !.wt = [A.wt EXCEPT ![r] = [w EXCEPT !.hist = h]]]
      BY <1>3
    <2>4. [w EXCEPT !.hist = h] = [w EXCEPT !.dirt = f, !.env = e, !.hist = h]
      BY <2>1 DEF Dir
    <2>5. N = [A EXCEPT !.wt = [A.wt EXCEPT ![r] =
                    [A.wt[r] EXCEPT !.dirt = f, !.env = e, !.hist = h]]]
      BY <2>3, <2>4
    <2> HIDE DEF f, e, N
    <2>6. Touched(A, N, r, f)
      BY <1>1, <1>6, <1>8, <2>2, <2>5, ContentSound
    <2> QED
      BY <2>6 DEF N, f
  <1>10. /\ Sound(repo') /\ Keeps(A, repo') /\ Linked(repo', r) /\ repo'.wt[r].dirt = A.wt[r].dirt
         /\ \A q \in Ref : q # r => repo'.wt[q] = A.wt[q]
    BY <1>9 DEF Touched
  <1>11. Keeps(repo, repo')
    BY <1>7, <1>8, <1>10, KeepsTrans
  <1>12. Tidy(repo')
    BY <1>1, <1>4, <1>7, <1>8, <1>10, LinkedTidy
  <1> QED
    BY <1>2, <1>10, <1>11, <1>12, EndStep

LEMMA ImportNoCacheStep ==
  ASSUME IInv, NEW r \in ImportArgs, ImportNoCache(r)
  PROVE  IInv' /\ Kept(repo, repo')
  <1>0. PICK o \in Outcome : repo' = Imported(r, o, <<ImportOf(r)>>)
    BY DEF ImportNoCache
  <1> DEFINE x == ImportOf(r)
             e == << >>
             h == <<x>>
             U == [repo EXCEPT !.wt[r] = PlainDir(<<Done(x, o)>>, e, h)]
  <1>1. r \in Ref
    BY ArgsAssumption
  <1>2. cmd' = Idle /\ remote' = remote /\ repo' = U
    BY <1>0 DEF ImportNoCache, Imported, Start
  <1>3. Sound(repo) /\ Tidy(repo)
    BY StartTidy DEF ImportNoCache
  <1>4. x \in Input /\ e \in Seq(Input)
    BY <1>1, InputFacts
  <1> HIDE DEF x, e
  <1>5. h \in Seq(Input)
    BY <1>4
  <1> HIDE DEF h
  <1>6. Unpacked(repo, U, r, x)
    BY <1>1, <1>3, <1>4, <1>5, UnpackSound
  <1> HIDE DEF U
  <1>7. /\ Sound(U) /\ Keeps(repo, U)
        /\ U.wt[r].linked = FALSE /\ U.wt[r].dirt \in Made(x)
        /\ \A q \in Ref : q # r => U.wt[q] = repo.wt[q]
    BY <1>6 DEF Unpacked
  <1>8. Neat(U.wt[r], r)
    BY <1>7 DEF Neat, x
  <1>9. Tidy(U)
    BY <1>1, <1>3, <1>7, <1>8, TidyIntro
  <1> QED
    BY <1>2, <1>7, <1>9, EndStep

LEMMA DeleteStartStep ==
  ASSUME IInv, NEW r \in Ref, DeleteStart(r)
  PROVE  IInv' /\ Kept(repo, repo')
  <1> DEFINE q == cmd'
             i == Idle
             td == Deletable(r)
  <1>1. q = [i EXCEPT !.at = "delete", !.todo = td] /\ repo' = repo /\ remote' = remote
        /\ Start
    BY DEF DeleteStart
  <1>2. i \in Command /\ i.tag = None /\ i.miss = 0
    BY IdleFine DEF Idle
  <1>3. td \in SUBSET Ref
    BY StagesAssumption DEF Deletable
  <1> HIDE DEF q, i, td
  <1>4. q \in Command /\ q.at = "delete" /\ q.tag = i.tag /\ q.miss = i.miss
    BY <1>1, <1>2, <1>3 DEF Command
  <1>5. Place(q) /\ OnParent(repo', q) /\ Fresh(repo', q)
    BY <1>2, <1>4 DEF Place, OnParent, Fresh
  <1>6. InOrder(repo', q)
    BY <1>1, <1>4, StartTidy, OrderIsTidy
  <1> QED
    BY <1>1, <1>4, <1>5, <1>6, SameRepo DEF IInv, q

\* An image goes: its commits stay reachable from HEAD's reflog.
LEMMA DeleteSound ==
  ASSUME NEW R, Sound(R), NEW r \in Ref
  PROVE  LET N == BranchDelete(UnpackDelete(R, r), r) IN
         /\ Sound(N) /\ Kept(R, N)
         /\ \A q \in Ref : q # r => N.wt[q] = R.wt[q]
         /\ Tidy(R) => Tidy(N)
  <1> DEFINE U == UnpackDelete(R, r)
             N == BranchDelete(U, r)
  <1>1. /\ Sound(U) /\ Keeps(R, U) /\ U.ready = R.ready /\ U.wt[r] = None
        /\ Tidy(R) => Tidy(U)
    BY UnpackDeleteSound
  <1>2. \A q \in Ref : q # r => U.wt[q] = R.wt[q]
    <2>1. U = [R EXCEPT !.wt = [R.wt EXCEPT ![r] = None]]
      BY DEF UnpackDelete
    <2>2. None \in {None} \cup Dir /\ R \in Repo
      BY DEF Sound
    <2> HIDE DEF U
    <2> QED
      BY <2>1, <2>2, SetDirFacts
  <1> HIDE DEF U
  <1>3. CASE U.ready[r] = None
    <2>1. N = U
      BY <1>3 DEF BranchDelete
    <2>2. Kept(R, U)
      BY <1>1, KeepsKept
    <2> QED
      BY <1>1, <1>2, <2>1, <2>2 DEF U
  <1>4. CASE U.ready[r] # None
    <2>1. U \in Repo /\ U.ready \in Branch /\ U.unready \in Branch
      BY <1>1, RepoFields DEF Sound
    <2>2. /\ N \in Repo /\ N.wt = U.wt
          /\ N.ready = [U.ready EXCEPT ![r] = None]
          /\ N.unready = [U.unready EXCEPT ![r] = None]
          /\ N.log = U.log \cup {U.ready[r]} \cup Some(U.unready[r])
      BY <1>4, <2>1, BranchDeleteFacts
    <2> HIDE DEF N
    <2>3. \A q \in Ref : q # r => /\ N.wt[q] = U.wt[q] /\ N.ready[q] = U.ready[q]
                                  /\ N.unready[q] = U.unready[q]
      BY <2>1, <2>2 DEF Branch
    <2>4. Linked(N, r) => WorktreeHead(N, r) \in Good
      BY <1>1, <2>2 DEF Linked
    <2>5. N \in Repo
      BY <2>2
    <2>6. Sound(N)
      BY <1>1, <2>3, <2>4, <2>5, SoundIntro
    <2>7. Kept(R, N)
      <3> SUFFICES ASSUME NEW q \in Ref, R.ready[q] # None
                   PROVE  \E d \in Good : InCore(N, d) /\ R.ready[q] \in Ancestors(d)
        BY DEF Kept
      <3>1. R.ready[q] \in Good
        BY <1>1, <2>1 DEF Branch
      <3>2. InCore(N, R.ready[q])
        <4>1. CASE q = r
          BY <1>1, <2>2, <4>1 DEF InCore
        <4>2. CASE q # r
          BY <1>1, <2>3, <4>2 DEF InCore
        <4> QED
          BY <4>1, <4>2
      <3> QED
        BY <3>1, <3>2, OwnAncestor
    <2> QED
      BY <1>1, <1>2, <2>2, <2>3, <2>6, <2>7 DEF N, U, Tidy
  <1> QED
    BY <1>3, <1>4

LEMMA DeleteImageStep ==
  ASSUME IInv, NEW r \in Ref, DeleteImage(r)
  PROVE  IInv' /\ Kept(repo, repo')
  <1> DEFINE N == BranchDelete(UnpackDelete(repo, r), r)
             q == cmd'
             td == cmd.todo \ {r}
  <1>1. /\ cmd.at = "delete" /\ remote' = remote
        /\ repo' = N \/ repo' = repo
        /\ q = [cmd EXCEPT !.todo = td] \/ q = Idle
    BY DEF DeleteImage, Goes
  <1>2. Sound(repo) /\ cmd \in Command /\ Place(cmd) /\ cmd.tag \in {None} \cup Ref
        /\ cmd.todo \in SUBSET Ref /\ OnParent(repo, cmd)
    BY CommandFields DEF IInv
  <1>3. Sound(N) /\ Kept(repo, N) /\ (Tidy(repo) => Tidy(N))
    BY <1>2, DeleteSound
  <1> HIDE DEF N
  <1>4. Sound(repo') /\ Kept(repo, repo') /\ Tidy(repo')
    BY <1>1, <1>3, SameRepo
  <1>5. CASE q = Idle
    BY <1>1, <1>4, <1>5, IdleFine DEF IInv
  <1>6. CASE q = [cmd EXCEPT !.todo = td]
    <2> HIDE DEF q, td
    <2>1. td \in SUBSET Ref
      BY <1>2 DEF td
    <2>2. /\ q \in Command /\ q.at = "delete" /\ q.tag = cmd.tag /\ q.miss = cmd.miss
          /\ q.sid = cmd.sid /\ q.hash = cmd.hash /\ q.mode = cmd.mode
      BY <1>1, <1>2, <1>6, <2>1 DEF Command
    <2>3. Place(q) /\ Fresh(repo', q)
      BY <1>1, <1>2, <2>2 DEF Place, Fresh
    <2>4. OnParent(repo', q)
      BY <1>1, <1>2, <2>2, CommandFields DEF OnParent, Place
    <2>5. InOrder(repo', q)
      BY <1>4, <2>2, OrderIsTidy
    <2> QED
      BY <1>1, <1>4, <2>2, <2>3, <2>4, <2>5 DEF IInv, q
  <1> QED
    BY <1>1, <1>5, <1>6

LEMMA UndeleteStep ==
  ASSUME IInv, NEW r \in Ref, Undelete(r)
  PROVE  IInv' /\ Kept(repo, repo')
  <1> DEFINE c == repo.tag[r]
             N == CheckoutReady(repo, r, c)
  <1>1. cmd' = Idle /\ remote' = remote /\ repo' = N /\ c # None
    BY DEF Undelete, Start
  <1>2. Sound(repo) /\ Tidy(repo)
    BY StartTidy DEF Undelete
  <1>3. c \in Good
    <2>1. repo.tag \in Branch
      BY <1>2, RepoFields DEF Sound
    <2> QED
      BY <1>1, <2>1 DEF Branch
  <1> HIDE DEF c
  <1>4. Sound(N) /\ Keeps(repo, N) /\ (Tidy(repo) => Tidy(N))
    BY <1>2, <1>3, CheckoutReadySound
  <1> HIDE DEF N
  <1> QED
    BY <1>1, <1>2, <1>4, EndStep

LEMMA GcStep ==
  ASSUME IInv, Gc
  PROVE  IInv' /\ Kept(repo, repo')
  <1> DEFINE N == Garbageinate(repo)
  <1>1. cmd' = Idle /\ remote' = remote /\ repo' = N
    BY DEF Gc, Start
  <1>2. Sound(repo) /\ repo \in Repo /\ repo.ready \in Branch /\ repo.wt \in [Ref -> {None} \cup Dir]
    BY RepoFields DEF IInv, Sound
  <1>3. /\ N \in Repo /\ N.ready = repo.ready /\ N.unready = repo.unready
        /\ \A r \in Ref : N.wt[r] # None =>
               /\ repo.wt[r] # None
               /\ N.wt[r].on = repo.wt[r].on /\ N.wt[r].head = repo.wt[r].head
               /\ N.wt[r].linked = repo.wt[r].linked /\ N.wt[r].dirt = repo.wt[r].dirt
    BY <1>2, GarbageinateFacts
  <1> HIDE DEF N
  <1>4. Sound(N)
    <2> SUFFICES ASSUME NEW r \in Ref, Linked(N, r) PROVE WorktreeHead(N, r) \in Good
      BY <1>3 DEF Sound
    <2>1. Linked(repo, r)
      BY <1>3 DEF Linked
    <2>2. WorktreeHead(N, r) = WorktreeHead(repo, r)
      BY <1>3 DEF Linked, WorktreeHead
    <2> QED
      BY <1>2, <2>1, <2>2 DEF Sound
  <1>5. Kept(repo, N)
    <2> SUFFICES ASSUME NEW r \in Ref, repo.ready[r] # None
                 PROVE  \E d \in Good : InCore(N, d) /\ repo.ready[r] \in Ancestors(d)
      BY DEF Kept
    <2>1. repo.ready[r] \in Good
      BY <1>2 DEF Branch
    <2>2. InCore(N, repo.ready[r])
      BY <1>3 DEF InCore
    <2> QED
      BY <2>1, <2>2, OwnAncestor
  <1>6. Tidy(N)
    <2>1. Tidy(repo)
      BY StartTidy DEF Gc
    <2> QED
      BY <1>3, <2>1 DEF Tidy, Neat
  <1> QED
    BY <1>1, <1>4, <1>5, <1>6, IdleFine DEF IInv

LEMMA ResetStep ==
  ASSUME IInv, Reset
  PROVE  IInv' /\ repo' = ResetCache(repo)
  <1> DEFINE N == ResetCache(repo)
  <1>1. cmd' = Idle /\ remote' = remote /\ repo' = N
    BY DEF Reset, Start
  <1>2. repo \in Repo
    BY DEF IInv, Sound
  <1>3. N \in Repo /\ \A r \in Ref : N.wt[r] # None => Plain(repo, r) /\ N.wt[r] = repo.wt[r]
    BY <1>2, ResetFacts
  <1> HIDE DEF N
  <1>4. Sound(N)
    BY <1>3 DEF Sound, Linked, Plain
  <1>6. Tidy(N)
    <2>1. Tidy(repo)
      BY StartTidy DEF Reset
    <2> QED
      BY <1>3, <2>1 DEF Tidy, Plain
  <1>5. IInv'
    BY <1>1, <1>4, <1>6, IdleFine DEF IInv
  <1> QED
    BY <1>1, <1>5 DEF N

LEMMA PushStep ==
  ASSUME IInv, NEW r \in Ref, Push(r)
  PROVE  IInv' /\ Kept(repo, repo')
  <1>1. repo' = repo /\ cmd' = cmd /\ remote' = [remote EXCEPT ![r] = @ + 1]
    BY DEF Push
  <1>2. remote' \in [Ref -> Nat]
    BY <1>1 DEF IInv
  <1> QED
    BY <1>1, <1>2, SameRepo DEF IInv
-----------------------------------------------------------------------------
(* Theorems *)

LEMMA InitInv == Init => IInv
  <1> SUFFICES ASSUME Init PROVE IInv
    OBVIOUS
  <1>1. repo = EmptyRepo /\ cmd = Idle /\ remote \in [Ref -> Nat]
    BY DEF Init
  <1>2. Sound(repo) /\ Tidy(repo)
    <2>1. repo \in Repo /\ repo.wt = [r \in Ref |-> None]
      BY <1>1, EmptyRepoFacts
    <2> QED
      BY <2>1 DEF Sound, Linked, Tidy
  <1> QED
    BY <1>1, <1>2, IdleFine DEF IInv

LEMMA StepInv ==
  ASSUME IInv, [Next]_vars
  PROVE  IInv' /\ (Kept(repo, repo') \/ repo' = ResetCache(repo))
  <1>1. CASE \E d \in Dockerfile, m \in Mode : BuildStart(d, m)
    BY <1>1, BuildStartStep
  <1>2. CASE From
    BY <1>2, FromStep
  <1>3. CASE FromFails
    BY <1>3, FromFailsStep
  <1>4. CASE Prepare
    BY <1>4, PrepareStep
  <1>5. CASE Execute
    BY <1>5, ExecuteStep
  <1>6. CASE ExecuteFails
    BY <1>6, ExecuteFailsStep
  <1>7. CASE CommitInst
    BY <1>7, CommitInstStep
  <1>8. CASE Finish
    BY <1>8, FinishStep
  <1>9. CASE Abandon
    BY <1>9, AbandonStep
  <1>10. CASE KillExecute
    BY <1>10, KillExecuteStep
  <1>11. CASE \E a \in PullArgs, m \in Mode : Pull(a[1], a[2], m)
    BY <1>11, PullStep
  <1>12. CASE \E r \in ImportArgs : Import(r) \/ ImportNoCache(r)
    BY <1>12, ImportStep, ImportNoCacheStep
  <1>13. CASE \E r \in Ref : DeleteStart(r) \/ DeleteImage(r) \/ Undelete(r) \/ Push(r)
    BY <1>13, DeleteStartStep, DeleteImageStep, UndeleteStep, PushStep
  <1>14. CASE Gc
    BY <1>14, GcStep
  <1>15. CASE Reset
    BY <1>15, ResetStep
  <1>16. CASE UNCHANGED vars
    BY <1>16, SameRepo DEF vars, IInv
  <1> QED
    BY <1>1, <1>2, <1>3, <1>4, <1>5, <1>6, <1>7, <1>8, <1>9, <1>10, <1>11, <1>12,
       <1>13, <1>14, <1>15, <1>16 DEF Next

LEMMA Invariance == Spec => []IInv
  <1>1. IInv /\ [Next]_vars => IInv'
    BY StepInv
  <1> QED
    BY <1>1, InitInv, PTL DEF Spec

\* However builds, failures, interruptions, kills, deletions, imports and
\* pulls follow each other, "git commit" (build_cache.py, commit) never puts
\* a layer on a commit other than the one its state ID was derived from.
THEOREM CommitsFollowSids == Spec => []SidIsPath
  <1>1. IInv => SidIsPath
    <2> SUFFICES ASSUME IInv, NEW c \in Reachable(repo), NEW k \in 2 .. Len(c)
                 PROVE  Len(c[k].sid) = k - 1 /\ SubSeq(c[k].sid, 1, k - 2) = c[k-1].sid
      BY DEF SidIsPath
    <2>1. c \in Good
      BY RootsGood DEF IInv
    <2> QED
      BY <2>1 DEF Good, Path
  <1> QED
    BY <1>1, Invariance, PTL

\* If commands can fail but are neither interrupted nor killed, the files of
\* every commit in the cache are those of its parent and what executing the
\* last input of its state ID made of them: a hit (find_sid, build_cache.py)
\* is as good as a miss. What a failed build, a plain import or a deleted
\* image left in a directory never gets into a later commit.
THEOREM TreesFollowSids ==
  ASSUME Faults \subseteq {"fail"}
  PROVE  Spec => []TreeFromSid
  <1>1. IInv => TreeFromSid
    <2> SUFFICES ASSUME IInv, NEW c \in Reachable(repo)
                 PROVE  c[1].tree = << >> /\ \A k \in 2 .. Len(c) : Grown(c[k-1], c[k])
      BY DEF TreeFromSid
    <2>1. c \in Good
      BY RootsGood DEF IInv
    <2> QED
      BY <2>1 DEF Good, Careful, Faithful
  <1> QED
    BY <1>1, Invariance, PTL

\* While an instruction executes, the HEAD of its image is the commit of the
\* instruction before it, whatever an earlier command left in the image's
\* directory: there is no hit after a miss, so the checkout made for the
\* first miss (build.py, checkout_for_build) stays right.
THEOREM BuildsOnParent == Spec => []WorktreeOnParent
  <1>1. IInv => WorktreeOnParent
    BY DEF IInv, Place, OnParent, WorktreeOnParent
  <1> QED
    BY <1>1, Invariance, PTL

\* No step but a reset makes a commit of a ready branch unreachable: not the
\* branch_delete of "ch-image delete", not a pull or a build that moves the
\* branch, and no failure between.
THEOREM ReadyIsKept == Spec => ReadyStaysCached
  <1>1. IInv /\ IInv' /\ [Next]_vars =>
            [repo' # ResetCache(repo) =>
                \A r \in Ref : repo.ready[r] # None =>
                    Ancestors(repo.ready[r]) \subseteq Reachable(repo')]_vars
    <2> SUFFICES ASSUME IInv, IInv', [Next]_vars, repo' # ResetCache(repo),
                        NEW r \in Ref, repo.ready[r] # None
                 PROVE  Ancestors(repo.ready[r]) \subseteq Reachable(repo')
      OBVIOUS
    <2>1. Kept(repo, repo')
      BY StepInv
    <2>2. PICK d \in Good : InCore(repo', d) /\ repo.ready[r] \in Ancestors(d)
      BY <2>1 DEF Kept
    <2>3. d \in LogRoots(repo')
      BY <2>2, CoreIsReachable DEF IInv
    <2>4. Ancestors(repo.ready[r]) \subseteq Ancestors(d)
      BY <2>2, AncestorsNest
    <2> QED
      BY <2>3, <2>4 DEF Reachable
  <1> QED
    BY <1>1, Invariance, PTL DEF Spec, ReadyStaysCached

\* The number of commands is bounded; the rest of TypeOK is IInv.
THEOREM TypeCorrect == Spec => []TypeOK
  <1> DEFINE B == ncmds \in 0 .. MaxCmds
  <1>1. Init => B
    BY BoundAssumption DEF Init
  <1>2. B /\ [Next]_vars => B'
    <2> SUFFICES ASSUME B, [Next]_vars PROVE B'
      OBVIOUS
    <2>1. CASE Start
      BY <2>1, BoundAssumption DEF Start
    <2>2. CASE ncmds' = ncmds
      BY <2>2
    <2>3. Start \/ ncmds' = ncmds
      BY DEF Next, vars, BuildStart, From, FromFails, Prepare, Execute, ExecuteFails,
             CommitInst, Finish, Abandon, KillExecute, Pull, Import, ImportNoCache,
             DeleteStart, DeleteImage, Undelete, Push, Gc, Reset, Goes, End
    <2> QED
      BY <2>1, <2>2, <2>3
  <1>3. IInv /\ B => TypeOK
    <2> SUFFICES ASSUME IInv, B PROVE TypeOK
      OBVIOUS
    <2>1. /\ Sound(repo) /\ repo \in Repo /\ repo.ready \in Branch /\ repo.unready \in Branch
          /\ repo.tag \in Branch /\ repo.rlog \in Reflog /\ repo.ulog \in Reflog
          /\ repo.log \in SUBSET Good /\ repo.wt \in [Ref -> {None} \cup Dir]
      BY RepoFields DEF IInv, Sound
    <2>2. Good \subseteq Commits
      BY DEF Good
    <2>3. Branch \subseteq [Ref -> Commits \cup {None}]
      BY <2>2 DEF Branch
    <2>4. \A b \in {repo.ready, repo.unready, repo.tag} : b \in [Ref -> Commits \cup {None}]
      BY <2>1, <2>3
    <2>5. \A l \in {repo.rlog, repo.ulog} : \A r \in Ref : l[r] \subseteq Commits
      BY <2>1, <2>2 DEF Reflog
    <2>6. ASSUME NEW r \in Ref, repo.wt[r] # None
          PROVE  repo.wt[r] \in Worktree /\ (repo.wt[r].linked => WorktreeHead(repo, r) # None)
      <3>1. repo.wt[r] \in Dir
        BY <2>1, <2>6
      <3>2. Dir \subseteq Worktree
        BY <2>2 DEF Dir, Worktree
      <3>3. ASSUME repo.wt[r].linked PROVE WorktreeHead(repo, r) # None
        BY <2>1, <2>6, <3>3, NoneIsNoCommit DEF Sound, Linked
      <3> QED
        BY <3>1, <3>2, <3>3
    <2>7. repo.log \subseteq Commits
      BY <2>1, <2>2
    <2>8. /\ cmd.at \in {"idle", "from", "prepare", "execute", "commit", "finish", "delete"}
          /\ cmd.sid \in Seq(Input) /\ cmd.env \in Seq(Input) /\ cmd.hist \in Seq(Input)
          /\ cmd.miss \in Nat /\ cmd.tag \in Ref \cup {None} /\ remote \in [Ref -> Nat]
      BY CommandFields DEF IInv
    <2> QED
      BY <2>4, <2>5, <2>6, <2>7, <2>8 DEF TypeOK
  <1> HIDE DEF B
  <1> QED
    BY <1>1, <1>2, <1>3, Invariance, PTL DEF Spec

-----------------------------------------------------------------------------
(* A build in which everything hits *)

\* A stage that has an instruction besides its FROM.
Full == {st \in Stage : st.insts # << >>}

\* At the end of a build that only hit, the commit reached is the one the
\* image is at, if that has the state ID reached.
OwnFirst(R, q) ==
    q.at = "finish" /\ q.miss = 0 /\ R.ready[q.tag] # None /\ Tip(R.ready[q.tag]).sid = q.sid
    => q.hash = R.ready[q.tag]

OwnInv == cmd.stages \in Seq(Full) /\ OwnFirst(repo, cmd)

\* The image's own branch has one commit with its tip's state ID: its tip.
LEMMA FindsOwn ==
  ASSUME NEW R, Sound(R), NEW m, NEW r \in Ref, NEW s, R.ready[r] # None,
         Tip(R.ready[r]).sid = s, NEW c \in FindSid(R, m, s, r)
  PROVE  c = R.ready[r]
  <1> DEFINE b == R.ready[r]
             own == Matching(Ancestors(b), s)
  <1>1. b \in Good
    <2>1. R.ready \in Branch
      BY RepoFields DEF Sound
    <2> QED
      BY <2>1 DEF Branch
  <1>2. b \in own
    BY <1>1, OwnAncestor DEF Matching
  <1>3. c \in own
    BY <1>2 DEF FindSid
  <1>4. c \in Ancestors(b) /\ Tip(c).sid = s
    BY <1>3 DEF Matching
  <1> HIDE DEF own, b
  <1>5. c \in Good /\ c = SubSeq(b, 1, Len(c))
    BY <1>1, <1>4, AncestorFacts
  <1>6. /\ Len(c) \in Nat /\ Len(b) \in Nat
        /\ Len(Tip(c).sid) = Len(c) - 1 /\ Len(Tip(b).sid) = Len(b) - 1
    BY <1>1, <1>5, CommitFacts
  <1>7. Len(c) = Len(b)
    BY <1>4, <1>6 DEF b
  <1>8. b \in Seq(Layer)
    BY <1>1 DEF Good, Commits
  <1>9. SubSeq(b, 1, Len(b)) = b
    <2>1. Len(b) \in 1 .. Len(b)
      BY <1>1, CommitFacts
    <2>2. /\ Len(SubSeq(b, 1, Len(b))) = Len(b) /\ SubSeq(b, 1, Len(b)) \in Good
          /\ \A i \in 1 .. Len(b) : SubSeq(b, 1, Len(b))[i] = b[i]
      BY <1>1, <2>1, Prefix
    <2>3. SubSeq(b, 1, Len(b)) \in Seq(Layer)
      BY <2>2 DEF Good, Commits
    <2> QED
      BY <1>8, <2>2, <2>3, SeqEqual
  <1> QED
    BY <1>5, <1>7, <1>9 DEF b

LEMMA OwnStep ==
  ASSUME IInv, OwnInv, [Next]_vars,
         \A d \in Dockerfile : \A k \in DOMAIN d : d[k].insts # << >>
  PROVE  OwnInv'
  <1>1. ASSUME cmd' = Idle PROVE OwnInv'
    <2>1. cmd'.stages = << >> /\ cmd'.at = "idle"
      BY <1>1 DEF Idle
    <2>2. << >> \in Seq(Full)
      OBVIOUS
    <2> QED
      BY <2>1, <2>2 DEF OwnInv, OwnFirst
  <1>2. CASE \E d \in Dockerfile, m \in Mode : BuildStart(d, m)
    <2>1. PICK d \in Dockerfile : \E m \in Mode : BuildStart(d, m)
      BY <1>2
    <2>2. cmd'.stages = d /\ cmd'.at = "from"
      BY <2>1 DEF BuildStart, Idle
    <2>3. d \in Seq(Stage)
      BY DockerfileAssumption DEF Stage
    <2>4. d \in Seq(Full)
      <3>1. d \in [1 .. Len(d) -> Stage] /\ Len(d) \in Nat /\ DOMAIN d = 1 .. Len(d)
        BY <2>3
      <3>2. \A k \in 1 .. Len(d) : d[k] \in Full
        BY <3>1 DEF Full
      <3>3. d \in [1 .. Len(d) -> Full]
        BY <3>1, <3>2
      <3> QED
        BY <3>1, <3>3, SeqDef
    <2> QED
      BY <2>2, <2>4 DEF OwnInv, OwnFirst
  <1>3. CASE From
    <2> DEFINE st == cmd.stages
               b == Begun
               a == After(Head(b).insts, b)
    <2>1. cmd.at = "from"
      BY <1>3 DEF From
    <2>2. b \in Seq(Full) /\ b # << >>
      <3>1. b # << >>
        BY <2>1, BegunFacts
      <3>2. st \in Seq(Full) /\ (cmd.tag # None => st # << >>)
        <4>1. st \in Seq(Full) /\ (cmd.tag # None => Len(st) > 1)
          BY <2>1 DEF OwnInv, IInv, Place
        <4> QED
          BY <4>1
      <3>3. CASE cmd.tag = None
        BY <3>1, <3>2, <3>3 DEF Begun
      <3>4. CASE cmd.tag # None
        <4>1. Tail(st) \in Seq(Full)
          BY <3>2, <3>4, HeadTailProperties
        <4> QED
          BY <3>1, <3>4, <4>1 DEF Begun
      <3> QED
        BY <3>3, <3>4
    <2> HIDE DEF b
    <2>3. Head(b) \in Full
      BY <2>2
    <2>4. a = "prepare"
      BY <2>3 DEF Full, After
    <2>5. cmd \in Command
      BY DEF IInv
    <2>6. cmd'.stages = b /\ cmd'.at = a
      BY <1>3, <2>5 DEF From, Command, b
    <2> QED
      BY <2>2, <2>4, <2>6 DEF OwnInv, OwnFirst
  <1>4. CASE Prepare
    <2> DEFINE s == NextSid(cmd.sid, Inst)
    <2>1. cmd.at = "prepare" /\ cmd \in Command /\ Sound(repo) /\ cmd.stages \in Seq(Full)
      BY <1>4 DEF Prepare, IInv, OwnInv
    <2>2. CASE cmd' = Idle
      BY <1>1, <2>2
    <2>3. CASE cmd' = [cmd EXCEPT !.at = "execute", !.miss = @ + 1, !.env = EnvAfter(Inst)]
      <3>1. cmd'.stages = cmd.stages /\ cmd'.at = "execute"
        BY <2>1, <2>3 DEF Command
      <3> QED
        BY <2>1, <3>1 DEF OwnInv, OwnFirst
    <2>4. ASSUME NEW c \in FindSid(repo, cmd.mode, s, cmd.tag), Hit(c), repo' = repo
          PROVE  OwnInv'
      <3>1. /\ cmd'.stages = cmd.stages /\ cmd'.sid = s /\ cmd'.hash = c /\ cmd'.tag = cmd.tag
        BY <2>1, <2>4 DEF Hit, Command
      <3>2. cmd.tag \in Ref
        BY <2>1, InstFacts
      <3> HIDE DEF s
      <3>3. ASSUME repo.ready[cmd.tag] # None, Tip(repo.ready[cmd.tag]).sid = s
            PROVE  c = repo.ready[cmd.tag]
        BY <2>1, <2>4, <3>2, <3>3, FindsOwn
      <3>4. OwnFirst(repo', cmd')
        BY <2>4, <3>1, <3>3 DEF OwnFirst
      <3> QED
        BY <2>1, <3>1, <3>4 DEF OwnInv
    <2> QED
      BY <1>4, <2>2, <2>3, <2>4 DEF Prepare
  <1>5. CASE Execute
    <2>1. cmd \in Command /\ cmd.stages \in Seq(Full) /\ cmd' = [cmd EXCEPT !.at = "commit"]
      BY <1>5 DEF Execute, IInv, OwnInv
    <2>2. cmd'.stages = cmd.stages /\ cmd'.at = "commit"
      BY <2>1 DEF Command
    <2> QED
      BY <2>1, <2>2 DEF OwnInv, OwnFirst
  <1>6. CASE CommitInst
    <2>1. /\ cmd \in Command /\ cmd.stages \in Seq(Full) /\ cmd.at = "commit"
          /\ cmd.miss \in Nat /\ cmd.miss > 0
      BY <1>6, CommandFields DEF CommitInst, IInv, OwnInv, Place
    <2>2. cmd'.stages = cmd.stages /\ cmd'.miss = cmd.miss
      BY <1>6, <2>1 DEF CommitInst, Command
    <2> QED
      BY <2>1, <2>2 DEF OwnInv, OwnFirst
  <1>7. CASE \E r \in Ref : DeleteStart(r) \/ DeleteImage(r)
    <2>1. PICK r \in Ref : DeleteStart(r) \/ DeleteImage(r)
      BY <1>7
    <2>2. CASE DeleteStart(r)
      <3>1. cmd'.stages = << >> /\ cmd'.at = "delete"
        BY <2>2 DEF DeleteStart, Idle
      <3>2. << >> \in Seq(Full)
        OBVIOUS
      <3> QED
        BY <3>1, <3>2 DEF OwnInv, OwnFirst
    <2>3. CASE DeleteImage(r)
      <3>1. cmd' = Idle \/ cmd' = [cmd EXCEPT !.todo = @ \ {r}]
        BY <2>3 DEF DeleteImage
      <3>2. CASE cmd' = [cmd EXCEPT !.todo = @ \ {r}]
        <4>1. cmd.at = "delete" /\ cmd \in Command /\ cmd.stages \in Seq(Full)
          BY <2>3 DEF DeleteImage, IInv, OwnInv
        <4>2. cmd'.stages = cmd.stages /\ cmd'.at = cmd.at
          BY <3>2, <4>1 DEF Command
        <4> QED
          BY <4>1, <4>2 DEF OwnInv, OwnFirst
      <3> QED
        BY <1>1, <3>1, <3>2
    <2> QED
      BY <2>1, <2>2, <2>3
  <1>8. CASE cmd' = cmd /\ repo' = repo
    BY <1>8 DEF OwnInv
  <1>9. CASE FromFails \/ ExecuteFails \/ Finish \/ Abandon \/ KillExecute
    BY <1>1, <1>9 DEF FromFails, ExecuteFails, Finish, Abandon, KillExecute, End
  <1>10. CASE \/ \E a \in PullArgs, m \in Mode : Pull(a[1], a[2], m)
              \/ \E r \in ImportArgs : Import(r) \/ ImportNoCache(r)
              \/ \E r \in Ref : Undelete(r)
              \/ Gc \/ Reset
    BY <1>1, <1>10 DEF Pull, Import, ImportNoCache, Undelete, Gc, Reset, Start
  <1>11. CASE \E r \in Ref : Push(r)
    BY <1>8, <1>11 DEF Push
  <1>12. CASE UNCHANGED vars
    BY <1>8, <1>12 DEF vars
  <1> QED
    BY <1>2, <1>3, <1>4, <1>5, <1>6, <1>7, <1>9, <1>10, <1>11, <1>12 DEF Next

\* If every stage has an instruction, a build in which everything hits leaves
\* the image at the commit it is at, if that has the right state ID: find_sid
\* (build_cache.py) looks at the image's own branch first, so what --rebuild
\* made is not replaced by an older commit with the same state ID.
THEOREM RebuildStays ==
  ASSUME \A d \in Dockerfile : \A k \in DOMAIN d : d[k].insts # << >>
  PROVE  Spec => RebuiltStays
  <1>1. Init => OwnInv
    <2> SUFFICES ASSUME Init PROVE OwnInv
      OBVIOUS
    <2>1. cmd.stages = << >> /\ cmd.at = "idle"
      BY DEF Init, Idle
    <2>2. << >> \in Seq(Full)
      OBVIOUS
    <2> QED
      BY <2>1, <2>2 DEF OwnInv, OwnFirst
  <1>2. IInv /\ OwnInv /\ [Next]_vars => OwnInv'
    BY OwnStep
  <1>3. IInv /\ OwnInv /\ [Next]_vars =>
            [ /\ cmd.at = "finish" /\ cmd'.at = "idle" /\ cmd.miss = 0
              /\ repo.ready[cmd.tag] # None
              /\ Tip(repo.ready[cmd.tag]).sid = cmd.sid
              => repo'.ready[cmd.tag] = repo.ready[cmd.tag] ]_vars
    <2> SUFFICES ASSUME IInv, OwnInv, [Next]_vars, cmd.at = "finish", cmd'.at = "idle",
                        cmd.miss = 0, repo.ready[cmd.tag] # None,
                        Tip(repo.ready[cmd.tag]).sid = cmd.sid
                 PROVE  repo'.ready[cmd.tag] = repo.ready[cmd.tag]
      OBVIOUS
    <2>1. cmd.hash = repo.ready[cmd.tag] /\ cmd.tag # None
      BY DEF OwnInv, OwnFirst, IInv, Place
    <2>2. cmd # Idle
      BY DEF Idle
    <2>3. CASE Finish
      <3>1. repo' = Close(repo) \/ repo' = repo
        BY <2>3 DEF Finish
      <3>2. Close(repo).ready[cmd.tag] = cmd.hash
        BY <2>1, CloseSound
      <3> QED
        BY <2>1, <3>1, <3>2
    <2>4. CASE Abandon
      BY <2>4 DEF Abandon
    <2>5. CASE UNCHANGED vars
      BY <2>5 DEF vars
    <2>6. CASE \E r \in Ref : Push(r)
      BY <2>6 DEF Push
    <2>7. Finish \/ Abandon \/ UNCHANGED vars \/ \E r \in Ref : Push(r)
      BY <2>2 DEF Next, BuildStart, From, FromFails, Prepare, Execute, ExecuteFails,
             CommitInst, KillExecute, Pull, Import, ImportNoCache,
             DeleteStart, DeleteImage, Undelete, Gc, Reset, Start
    <2> QED
      BY <2>3, <2>4, <2>5, <2>6, <2>7
  <1> QED
    BY <1>1, <1>2, <1>3, Invariance, PTL DEF Spec, RebuiltStays
=============================================================================
