--------------------------- MODULE DockerfileProofs ---------------------------
(***************************************************************************)
(* Proofs about Dockerfile, for any Dockerfiles without leaks, arguments,  *)
(* environments, base images and number of builds.                         *)
(***************************************************************************)
EXTENDS Dockerfile, SequenceTheorems, WellFoundedInduction, TLAPS

-----------------------------------------------------------------------------
(* Metadata *)

\* What the cache does not know of the variables.
Hidden == ARGS_MAGIC \cup AllFromKeys

\* No command uses a variable that was set before FROM.
Blind == \A v : Uses(v) \cap AllFromKeys = {}

\* Functions, and metadata, that agree outside of K.
Same(f, g, K) == /\ DOMAIN f \ K = DOMAIN g \ K
                 /\ \A k \in DOMAIN f \ K : f[k] = g[k]
Alike(m, w, K) ==
  /\ Same(m.arg, w.arg, K)
  /\ m.env = w.env /\ m.cwd = w.cwd /\ m.shell = w.shell /\ m.labels = w.labels

IsMeta(m) == m = [arg |-> m.arg, env |-> m.env, cwd |-> m.cwd,
                  shell |-> m.shell, labels |-> m.labels, history |-> m.history]

\* The default variables have their defaults.
Defaults(m) == \A k \in DOMAIN ARG_DEFAULTS \ Hidden :
                  k \in DOMAIN m.arg /\ m.arg[k] = ARG_DEFAULTS[k]

\* What prepare does, given the operand.
Given(op, key, v, m) ==
  IF op = "ARG" THEN [m EXCEPT !.arg = Set(@, key, v)]
  ELSE IF op = "ENV" THEN [m EXCEPT !.env = Set(@, key, v)]
  ELSE IF op = "LABEL" THEN [m EXCEPT !.labels = Set(@, key, v)]
  ELSE IF op = "SHELL" THEN [m EXCEPT !.shell = v]
  ELSE IF op = "WORKDIR" THEN [m EXCEPT !.cwd = IF key = "absolute" THEN v ELSE @ \o v]
  ELSE m

\* What the input y of a state ID says about metadata m and files fs.
After(y, m) == Given(y.op, y.key, y.val, m)
Ran(y, m, fs) == execute(y, m, y.val, fs)

LEMMA SetOne ==
  ASSUME NEW f, NEW k, NEW v
  PROVE  /\ v = None => Set(f, k, v) = f
         /\ v # None => /\ DOMAIN Set(f, k, v) = DOMAIN f \cup {k}
                        /\ Set(f, k, v)[k] = v
                        /\ \A x \in DOMAIN f \ {k} : Set(f, k, v)[x] = f[x]
  BY DEF Set, With

LEMMA SetSame ==
  ASSUME NEW f, NEW g, NEW K, Same(f, g, K), NEW k, NEW v
  PROVE  Same(Set(f, k, v), Set(g, k, v), K)
  BY DEF Same, Set, With

LEMMA SetHidden ==
  ASSUME NEW f, NEW K, NEW k \in K, NEW v
  PROVE  Same(Set(f, k, v), f, K)
  BY DEF Same, Set, With

LEMMA SameTrans ==
  ASSUME NEW f, NEW g, NEW h, NEW K, Same(f, g, K), Same(g, h, K)
  PROVE  Same(f, h, K) /\ Same(g, f, K)
  BY DEF Same

LEMMA AlikeTrans ==
  ASSUME NEW f, NEW g, NEW h, NEW K, Alike(f, g, K), Alike(g, h, K)
  PROVE  Alike(f, h, K) /\ Alike(g, f, K)
  BY SameTrans DEF Alike

LEMMA AlikeBack ==
  ASSUME NEW f, NEW g, NEW K, Alike(f, g, K)
  PROVE  Alike(g, f, K)
  BY DEF Alike, Same

LEMMA AlikeSelf ==
  ASSUME NEW m, NEW K
  PROVE  Alike(m, m, K)
  BY DEF Alike, Same

LEMMA AlikeMore ==
  ASSUME NEW m, NEW w, Alike(m, w, AllFromKeys)
  PROVE  Alike(m, w, Hidden)
  BY DEF Alike, Same, Hidden

\* References to variables outside of K are looked up alike.
LEMMA SubSame ==
  ASSUME NEW v, NEW e, NEW f, NEW g, NEW K, Same(f, g, K),
         v # None /\ Len(v) = 2 => v[2] \notin K
  PROVE  variables_sub(v, Over(e, f)) = variables_sub(v, Over(e, g))
  <1> DEFINE a == Over(e, f)
             b == Over(e, g)
  <1>1. /\ DOMAIN a = DOMAIN e \cup DOMAIN f
        /\ \A k \in DOMAIN e : a[k] = e[k]
        /\ \A k \in DOMAIN f \ DOMAIN e : a[k] = f[k]
    BY DEF Over
  <1>2. /\ DOMAIN b = DOMAIN e \cup DOMAIN g
        /\ \A k \in DOMAIN e : b[k] = e[k]
        /\ \A k \in DOMAIN g \ DOMAIN e : b[k] = g[k]
    BY DEF Over
  <1> HIDE DEF a, b
  <1>3. \A k : k \notin K => /\ k \in DOMAIN a <=> k \in DOMAIN b
                             /\ k \in DOMAIN a => a[k] = b[k]
    BY <1>1, <1>2 DEF Same
  <1> QED
    BY <1>3 DEF variables_sub, a, b

LEMMA OperandSame ==
  ASSUME NEW x, NEW m, NEW w, NEW args, Alike(m, w, AllFromKeys), Plain(x.val),
         \A k \in DOMAIN args : Plain(args[k])
  PROVE  Operand(x, m, args) = Operand(x, w, args)
  <1> DEFINE v == IF x.op = "ARG" THEN ArgValue(x, args) ELSE x.val
  <1>1. Plain(v)
    BY DEF ArgValue
  <1> HIDE DEF v
  <1>2. variables_sub(v, env_build(m)) = variables_sub(v, env_build(w))
    <2>1. variables_sub(v, Over(m.env, m.arg)) = variables_sub(v, Over(m.env, w.arg))
      BY <1>1, SubSame DEF Alike, Plain
    <2> QED
      BY <2>1 DEF env_build, Alike
  <1> QED
    BY <1>2 DEF Operand, v

LEMMA PrepareIsGiven ==
  ASSUME NEW x, NEW m, NEW args
  PROVE  prepare(x, m, args) = Given(x.op, x.key, Operand(x, m, args), m)
  BY DEF prepare, Given

LEMMA GivenAlike ==
  ASSUME NEW op, NEW key, NEW v, NEW m, IsMeta(m), NEW w, IsMeta(w), NEW K, Alike(m, w, K)
  PROVE  /\ Alike(Given(op, key, v, m), Given(op, key, v, w), K)
         /\ IsMeta(Given(op, key, v, m))
  <1> DEFINE a == Set(m.arg, key, v)
             b == Set(w.arg, key, v)
             e == Set(m.env, key, v)
             l == Set(m.labels, key, v)
             c == m.cwd \o v
  <1>1. Same(a, b, K)
    BY SetSame DEF Alike
  <1>2. Given(op, key, v, m) =
          IF op = "ARG" THEN [m EXCEPT !.arg = a]
          ELSE IF op = "ENV" THEN [m EXCEPT !.env = e]
          ELSE IF op = "LABEL" THEN [m EXCEPT !.labels = l]
          ELSE IF op = "SHELL" THEN [m EXCEPT !.shell = v]
          ELSE IF op = "WORKDIR" THEN [m EXCEPT !.cwd = IF key = "absolute" THEN v ELSE c]
          ELSE m
    BY DEF Given
  <1>3. Given(op, key, v, w) =
          IF op = "ARG" THEN [w EXCEPT !.arg = b]
          ELSE IF op = "ENV" THEN [w EXCEPT !.env = e]
          ELSE IF op = "LABEL" THEN [w EXCEPT !.labels = l]
          ELSE IF op = "SHELL" THEN [w EXCEPT !.shell = v]
          ELSE IF op = "WORKDIR" THEN [w EXCEPT !.cwd = IF key = "absolute" THEN v ELSE c]
          ELSE w
    BY DEF Given, Alike
  <1> HIDE DEF a, b, e, l, c
  <1> QED
    BY <1>1, <1>2, <1>3 DEF Alike, IsMeta

\* What an ARG does to a variable in K makes no difference outside of K.
LEMMA GivenHidden ==
  ASSUME NEW key, NEW v, NEW u, NEW m, IsMeta(m), NEW K, key \in K
  PROVE  Alike(Given("ARG", key, v, m), Given("ARG", key, u, m), K)
  <1> DEFINE a == Set(m.arg, key, v)
             b == Set(m.arg, key, u)
  <1>1. Same(a, m.arg, K) /\ Same(b, m.arg, K)
    BY SetHidden
  <1>2. Same(m.arg, b, K)
    BY <1>1, SameTrans DEF Same
  <1>3. Same(a, b, K)
    BY <1>1, <1>2, SameTrans
  <1>4. Given("ARG", key, v, m) = [m EXCEPT !.arg = a] /\ Given("ARG", key, u, m) = [m EXCEPT !.arg = b]
    BY DEF Given
  <1> HIDE DEF a, b
  <1> QED
    BY <1>3, <1>4 DEF Alike, IsMeta

\* The input of the state ID says what prepare does, but for what is hidden.
LEMMA InputIsGiven ==
  ASSUME NEW x, NEW m, IsMeta(m), NEW args
  PROVE  Alike(prepare(x, m, args), After(sid_input(x, m, args), m), Hidden)
  <1> DEFINE y == sid_input(x, m, args)
             v == Operand(x, m, args)
  <1>1. y.op = x.op /\ y.key = x.key
    BY DEF sid_input
  <1>2. prepare(x, m, args) = Given(x.op, x.key, v, m)
    BY PrepareIsGiven
  <1>3. CASE x.op = "ARG" /\ x.key \in ARGS_MAGIC
    <2>1. x.key \in Hidden
      BY <1>3 DEF Hidden
    <2> HIDE DEF v, y
    <2>2. Alike(Given("ARG", x.key, v, m), Given("ARG", x.key, y.val, m), Hidden)
      BY <2>1, GivenHidden
    <2>3. After(y, m) = Given("ARG", x.key, y.val, m)
      BY <1>1, <1>3 DEF After
    <2> QED
      BY <1>2, <1>3, <2>2, <2>3 DEF y
  <1>4. CASE ~(x.op = "ARG" /\ x.key \in ARGS_MAGIC)
    <2>1. y.val = v
      BY <1>4 DEF sid_input
    <2> HIDE DEF v, y
    <2>2. After(y, m) = Given(x.op, x.key, v, m)
      BY <1>1, <2>1 DEF After
    <2> QED
      BY <1>2, <2>2, AlikeSelf DEF y
  <1> QED
    BY <1>3, <1>4

LEMMA PrepareAlike ==
  ASSUME NEW x, NEW m, IsMeta(m), NEW w, IsMeta(w), NEW args, Alike(m, w, AllFromKeys),
         Plain(x.val), \A k \in DOMAIN args : Plain(args[k])
  PROVE  /\ Alike(prepare(x, m, args), prepare(x, w, args), AllFromKeys)
         /\ IsMeta(prepare(x, m, args))
  BY OperandSame, PrepareIsGiven, GivenAlike

\* RUN sees nothing of what is hidden.
LEMMA ExecuteAlike ==
  ASSUME Blind,
         NEW x, NEW m, NEW w, NEW v, NEW fs, Alike(m, w, Hidden)
  PROVE  execute(x, m, v, fs) = execute(x, w, v, fs)
  <1> DEFINE seen(z) == Only(Minus(env_build(z), ARGS_MAGIC), Uses(v))
  <1>1. seen(m) = seen(w)
    <2> DEFINE e == m.env
               a == m.arg
               b == w.arg
               U == Uses(v)
    <2>1. U \cap AllFromKeys = {}
      BY DEF Blind
    <2>2. Same(a, b, ARGS_MAGIC \cup AllFromKeys)
      BY DEF Alike, Hidden
    <2>3. env_build(m) = Over(e, a) /\ env_build(w) = Over(e, b)
      BY DEF env_build, Alike
    <2> HIDE DEF U, a, b, e
    <2>4. Only(Minus(Over(e, a), ARGS_MAGIC), U) = Only(Minus(Over(e, b), ARGS_MAGIC), U)
      BY <2>1, <2>2 DEF Only, Minus, Over, Same
    <2> QED
      BY <2>3, <2>4 DEF U
  <1>2. m.cwd = w.cwd /\ m.shell = w.shell
    BY DEF Alike
  <1> QED
    BY <1>1, <1>2 DEF execute

LEMMA InputIsExecuted ==
  ASSUME NEW x, NEW m, NEW args, NEW w, NEW fs
  PROVE  execute(x, w, Operand(x, m, args), fs) = Ran(sid_input(x, m, args), w, fs)
  <1> DEFINE y == sid_input(x, m, args)
  <1>1. y.op = x.op /\ y.key = x.key /\ (x.op # "ARG" => y.val = Operand(x, m, args))
    BY DEF sid_input
  <1> HIDE DEF y
  <1>2. execute(x, w, Operand(x, m, args), fs) = execute(y, w, y.val, fs)
    BY <1>1 DEF execute
  <1> QED
    BY <1>2 DEF y, Ran

\* The variables of an image in the cache are none of the magic ones.
NoMagic(m) == DOMAIN m.arg \cap ARGS_MAGIC = {}
Kept(m) == IsMeta(m) /\ Defaults(m) /\ NoMagic(m)

LEMMA InitKept ==
  ASSUME NEW e
  PROVE  Kept(metadata_init(e))
  BY MagicAssumption DEF Kept, IsMeta, Defaults, NoMagic, metadata_init

LEMMA SavedKept ==
  ASSUME NEW m, IsMeta(m), Defaults(m)
  PROVE  Kept(Saved(m)) /\ Alike(Saved(m), m, Hidden)
  <1> DEFINE a == Minus(m.arg, ARGS_MAGIC)
  <1>1. Saved(m) = [m EXCEPT !.arg = a]
    BY DEF Saved
  <1>2. DOMAIN a = DOMAIN m.arg \ ARGS_MAGIC /\ \A k \in DOMAIN a : a[k] = m.arg[k]
    BY DEF Minus
  <1> HIDE DEF a
  <1>3. Same(a, m.arg, Hidden)
    BY <1>2 DEF Same, Hidden
  <1>4. Saved(m).arg = a /\ IsMeta(Saved(m))
    BY <1>1 DEF IsMeta
  <1>5. Alike(Saved(m), m, Hidden)
    BY <1>1, <1>3 DEF IsMeta, Alike
  <1>6. NoMagic(Saved(m))
    BY <1>2, <1>4 DEF NoMagic
  <1>7. Defaults(Saved(m))
    BY <1>2, <1>4 DEF Defaults, Hidden
  <1> QED
    BY <1>4, <1>5, <1>6, <1>7 DEF Kept

LEMMA DefaultsAlike ==
  ASSUME NEW m, NEW w, Defaults(m), Alike(w, m, Hidden)
  PROVE  Defaults(w)
  BY DEF Defaults, Alike, Same

LEMMA DefaultsPrepare ==
  ASSUME NEW x, NEW m, IsMeta(m), Defaults(m), NEW args,
         x.op = "ARG" => x.key \notin DOMAIN ARG_DEFAULTS
  PROVE  Defaults(prepare(x, m, args))
  <1> DEFINE v == Operand(x, m, args)
             a == Set(m.arg, x.key, v)
             g == prepare(x, m, args)
  <1>1. CASE x.op = "ARG"
    <2>1. g = [m EXCEPT !.arg = a]
      BY <1>1, PrepareIsGiven DEF Given
    <2>2. \A k \in DOMAIN m.arg : k # x.key => k \in DOMAIN a /\ a[k] = m.arg[k]
      BY DEF a, Set, With
    <2> HIDE DEF g, a
    <2>3. g.arg = a
      BY <2>1 DEF IsMeta
    <2> QED
      BY <1>1, <2>2, <2>3 DEF Defaults, g
  <1>2. CASE x.op # "ARG"
    <2>1. g.arg = m.arg
      BY <1>2, PrepareIsGiven DEF Given, IsMeta
    <2> QED
      BY <2>1 DEF Defaults
  <1> QED
    BY <1>1, <1>2

LEMMA LoadArgs ==
  ASSUME NEW m, IsMeta(m), NEW host, NEW args
  PROVE  LET w == metadata_load(m, host, args) IN
         /\ w = [m EXCEPT !.arg = w.arg] /\ IsMeta(w)
         /\ w.env = m.env /\ w.cwd = m.cwd /\ w.shell = m.shell /\ w.labels = m.labels
         /\ w.arg = Over(args, Over(ARG_DEFAULTS, Over(host, m.arg)))
  <1> DEFINE a == Over(args, Over(ARG_DEFAULTS, Over(host, m.arg)))
  <1>1. metadata_load(m, host, args) = [m EXCEPT !.arg = a]
    BY DEF metadata_load
  <1> HIDE DEF a
  <1>2. LET w == [m EXCEPT !.arg = a] IN
         /\ w = [m EXCEPT !.arg = w.arg] /\ IsMeta(w)
         /\ w.env = m.env /\ w.cwd = m.cwd /\ w.shell = m.shell /\ w.labels = m.labels
         /\ w.arg = a
    BY DEF IsMeta
  <1> QED
    BY <1>1, <1>2 DEF a

\* FROM gives alike metadata to alike images ...
LEMMA LoadAlike ==
  ASSUME NEW m, Kept(m), NEW w, Kept(w), Alike(m, w, Hidden), NEW host, NEW args
  PROVE  /\ Alike(metadata_load(m, host, args), metadata_load(w, host, args), AllFromKeys)
         /\ IsMeta(metadata_load(m, host, args))
  <1> DEFINE A(f) == Over(args, Over(ARG_DEFAULTS, Over(host, f)))
             M == metadata_load(m, host, args)
             W == metadata_load(w, host, args)
  <1>1. IsMeta(m) /\ IsMeta(w)
    BY DEF Kept
  <1>2. /\ IsMeta(M) /\ M.arg = A(m.arg) /\ M.env = m.env /\ M.cwd = m.cwd
        /\ M.shell = m.shell /\ M.labels = m.labels
    BY <1>1, LoadArgs
  <1>3. /\ W.arg = A(w.arg) /\ W.env = w.env /\ W.cwd = w.cwd
        /\ W.shell = w.shell /\ W.labels = w.labels
    BY <1>1, LoadArgs
  <1>4. Same(m.arg, w.arg, AllFromKeys)
    BY DEF Alike, Kept, NoMagic, Same, Hidden
  <1>5. Same(A(m.arg), A(w.arg), AllFromKeys)
    BY <1>4 DEF Same, Over
  <1> HIDE DEF A, M, W
  <1> QED
    BY <1>2, <1>3, <1>5 DEF Alike, M, W

\* ... and changes only what is hidden.
LEMMA LoadHidden ==
  ASSUME NEW m, Kept(m), NEW host \in HostEnvs, NEW args, DOMAIN args \subseteq AllFromKeys
  PROVE  /\ Alike(metadata_load(m, host, args), m, Hidden)
         /\ IsMeta(metadata_load(m, host, args)) /\ Defaults(metadata_load(m, host, args))
  <1> DEFINE a == Over(args, Over(ARG_DEFAULTS, Over(host, m.arg)))
             M == metadata_load(m, host, args)
  <1>1. /\ IsMeta(M) /\ M.arg = a /\ M.env = m.env /\ M.cwd = m.cwd
        /\ M.shell = m.shell /\ M.labels = m.labels
    BY LoadArgs DEF Kept
  <1>2. DOMAIN host \subseteq ARGS_MAGIC
    BY MagicAssumption
  <1>3. Same(a, m.arg, Hidden)
    BY <1>2 DEF Same, Over, Hidden, Kept, Defaults
  <1> HIDE DEF a, M
  <1>4. Alike(M, m, Hidden)
    BY <1>1, <1>3 DEF Alike
  <1> QED
    BY <1>1, <1>4, DefaultsAlike DEF M, Kept

-----------------------------------------------------------------------------
(* The reference *)

LEMMA NatInduct ==
  ASSUME NEW G, 0 \in G, \A k \in Nat : k \in G => k + 1 \in G
  PROVE  \A k \in Nat : k \in G
  <1> SUFFICES ASSUME NEW k \in Nat, k \notin G PROVE FALSE
    OBVIOUS
  <1> DEFINE B == Nat \ G
  <1>1. PICK x \in B : \A y \in B : ~(<<y, x>> \in OpToRel(<, Nat))
    <2>1. B \subseteq Nat /\ B # {}
      OBVIOUS
    <2> HIDE DEF B
    <2> QED
      BY <2>1, WFMin, NatLessThanWellFounded
  <1>2. x \in Nat /\ x # 0 /\ x - 1 \in Nat
    OBVIOUS
  <1>3. x - 1 \in B
    BY <1>2
  <1>4. <<x - 1, x>> \in OpToRel(<, Nat)
    BY <1>2 DEF OpToRel
  <1> QED
    BY <1>1, <1>3, <1>4

\* The first k steps of the reference.
IsRun(f, c, k, g) ==
  /\ g = [j \in 0 .. k |-> g[j]] /\ g[0] = ColdStart(c)
  /\ \A j \in 1 .. k : g[j] = ColdStep(c, g[j - 1], f[j])

LEMMA RunExists ==
  ASSUME NEW f, NEW c, NEW len \in Nat
  PROVE  \E g : IsRun(f, c, len, g)
  <1> DEFINE G == {k \in Nat : \E g : IsRun(f, c, k, g)}
  <1>1. 0 \in G
    <2>1. IsRun(f, c, 0, [j \in 0 .. 0 |-> ColdStart(c)])
      BY DEF IsRun
    <2> QED
      BY <2>1
  <1>2. ASSUME NEW k \in Nat, k \in G PROVE k + 1 \in G
    <2>1. PICK g : IsRun(f, c, k, g)
      BY <1>2
    <2> DEFINE last == ColdStep(c, g[k], f[k + 1])
               h == [j \in 0 .. k + 1 |-> IF j = k + 1 THEN last ELSE g[j]]
    <2>2. h[0] = ColdStart(c)
      BY <2>1 DEF IsRun
    <2>3. ASSUME NEW j \in 1 .. k + 1 PROVE h[j] = ColdStep(c, h[j - 1], f[j])
      <3>1. CASE j = k + 1
        BY <3>1
      <3>2. CASE j \in 1 .. k
        <4>1. h[j] = g[j] /\ h[j - 1] = g[j - 1]
          BY <3>2
        <4> QED
          BY <4>1, <3>2, <2>1 DEF IsRun
      <3> QED
        BY <3>1, <3>2
    <2>4. IsRun(f, c, k + 1, h)
      BY <2>2, <2>3 DEF IsRun
    <2> QED
      BY <2>4
  <1> HIDE DEF G
  <1>3. \A k \in Nat : k \in G
    BY <1>1, <1>2, NatInduct
  <1> QED
    BY <1>3 DEF G

LEMMA ColdUnfolds ==
  ASSUME NEW f, NEW c, Len(f) \in Nat
  PROVE  /\ Cold(f, c)[0] = ColdStart(c)
         /\ \A k \in 1 .. Len(f) : Cold(f, c)[k] = ColdStep(c, Cold(f, c)[k - 1], f[k])
  <1> DEFINE L == Len(f)
             P(r) == r = [k \in 0 .. L |-> IF k = 0 THEN ColdStart(c)
                                           ELSE ColdStep(c, r[k - 1], f[k])]
  <1>1. PICK g : IsRun(f, c, L, g)
    BY RunExists
  <1>2. P(g)
    BY <1>1 DEF IsRun
  <1>3. P(CHOOSE r : P(r))
    BY <1>2
  <1>4. Cold(f, c) = CHOOSE r : P(r)
    BY DEF Cold
  <1>5. P(Cold(f, c))
    BY <1>3, <1>4
  <1> QED
    BY <1>5
-----------------------------------------------------------------------------
(* The cache *)

Pulled(k) == [op |-> "PULL", key |-> k, val |-> << >>]

\* What is at state ID s is a base image, or follows from what is at r by the
\* input y of one more instruction.
IsPulled(C, s, k) == /\ s = <<Pulled(k)>> /\ C[s].files = << >>
                     /\ Alike(C[s].metadata, metadata_init(BaseEnv[k]), Hidden)
Follows(C, s, r, y) == /\ s = Append(r, y) /\ r \in DOMAIN C
                       /\ Alike(C[s].metadata, After(y, C[r].metadata), Hidden)
                       /\ C[s].files = Ran(y, C[s].metadata, C[r].files)
Entry(C, s) == /\ Kept(C[s].metadata)
               /\ (\E k : IsPulled(C, s, k)) \/ (\E r, y : Follows(C, s, r, y))
Store(C) == /\ \E T : DOMAIN C \subseteq Seq(T)
            /\ \A s \in DOMAIN C : Entry(C, s)

\* Nothing is lost, and what is made again is made alike.
Grows(C, D) ==
  /\ DOMAIN C \subseteq DOMAIN D
  /\ \A s \in DOMAIN C : /\ Kept(D[s].metadata) /\ Alike(D[s].metadata, C[s].metadata, Hidden)
                         /\ D[s].files = C[s].files

LEMMA SeqMore ==
  ASSUME NEW T, NEW U, T \subseteq U, NEW s \in Seq(T)
  PROVE  s \in Seq(U)
  OBVIOUS

LEMMA AppendOne ==
  ASSUME NEW T, NEW s \in Seq(T), NEW r \in Seq(T), NEW y, NEW z, Append(s, y) = Append(r, z)
  PROVE  s = r /\ y = z
  <1> DEFINE U == T \cup {y, z}
  <1>1. s \in Seq(U) /\ r \in Seq(U)
    BY SeqMore
  <1>2. y \in U /\ z \in U
    OBVIOUS
  <1> HIDE DEF U
  <1>3. /\ Len(Append(s, y)) = Len(s) + 1 /\ Len(Append(r, z)) = Len(r) + 1
        /\ Len(s) \in Nat /\ Len(r) \in Nat
    BY <1>1, <1>2, AppendProperties, LenProperties
  <1>4. Len(s) = Len(r)
    BY <1>3
  <1>5. \A i \in 1 .. Len(s) : s[i] = r[i]
    BY <1>1, <1>2, <1>4, AppendProperties
  <1>6. Append(s, y)[Len(s) + 1] = y /\ Append(r, z)[Len(r) + 1] = z
    BY <1>1, <1>2, AppendProperties
  <1> QED
    BY <1>1, <1>4, <1>5, <1>6, SeqEqual

LEMMA AppendMore ==
  ASSUME NEW T, NEW s \in Seq(T), NEW y
  PROVE  /\ Append(s, y) \in Seq(T \cup {y}) /\ Append(s, y) # << >>
         /\ \A k : s # << >> => Append(s, y) # <<k>>
  <1> DEFINE U == T \cup {y}
  <1>1. s \in Seq(U) /\ y \in U
    BY SeqMore
  <1> HIDE DEF U
  <1> DEFINE a == Append(s, y)
  <1>2. /\ a \in Seq(U) /\ Len(a) = Len(s) + 1 /\ Len(s) \in Nat
        /\ s # << >> => Len(s) # 0
    BY <1>1, AppendProperties, LenProperties, EmptySeq
  <1>3. Len(a) # 0 /\ (s # << >> => Len(a) # 1)
    BY <1>2
  <1> HIDE DEF a
  <1>4. a # << >>
    BY <1>2, <1>3, EmptySeq
  <1>5. ASSUME NEW k, s # << >> PROVE a # <<k>>
    <2> DEFINE b == <<k>>
    <2>1. Len(b) = 1
      OBVIOUS
    <2> HIDE DEF b
    <2>2. a # b
      BY <1>3, <1>5, <2>1
    <2> QED
      BY <2>2 DEF b
  <1> QED
    BY <1>2, <1>4, <1>5 DEF U, a

\* The ID of an image is not empty, and that of one that follows from another
\* is not that of a base image.
LEMMA StoreSids ==
  ASSUME NEW C, Store(C), NEW s \in DOMAIN C
  PROVE  /\ s # << >>
         /\ \A r, y, k : r \in DOMAIN C /\ s = Append(r, y) => s # <<k>>
  <1>1. PICK T : DOMAIN C \subseteq Seq(T)
    BY DEF Store
  <1>2. \A u \in DOMAIN C : u # << >>
    <2> TAKE u \in DOMAIN C
    <2>1. CASE \E k : IsPulled(C, u, k)
      BY <2>1 DEF IsPulled
    <2>2. CASE \E r, y : Follows(C, u, r, y)
      BY <2>2, <1>1, AppendMore DEF Follows
    <2> QED
      BY <2>1, <2>2 DEF Store, Entry
  <1>3. ASSUME NEW r, NEW y, NEW k, r \in DOMAIN C, s = Append(r, y) PROVE s # <<k>>
    BY <1>1, <1>2, <1>3, AppendMore
  <1> QED
    BY <1>2, <1>3

LEMMA AfterAlike ==
  ASSUME NEW y, NEW m, IsMeta(m), NEW w, IsMeta(w), Alike(m, w, Hidden)
  PROVE  Alike(After(y, m), After(y, w), Hidden)
  BY GivenAlike DEF After

LEMMA RanAlike ==
  ASSUME Blind,
         NEW y, NEW m, NEW w, NEW fs, Alike(m, w, Hidden)
  PROVE  Ran(y, m, fs) = Ran(y, w, fs)
  BY ExecuteAlike DEF Ran

LEMMA EntryGrows ==
  ASSUME Blind,
         NEW C, NEW D, Grows(C, D), Store(C), NEW s \in DOMAIN C
  PROVE  Entry(D, s)
  <1>1. Kept(D[s].metadata) /\ Alike(D[s].metadata, C[s].metadata, Hidden) /\ D[s].files = C[s].files
    BY DEF Grows
  <1>2. Entry(C, s)
    BY DEF Store
  <1>3. CASE \E k : IsPulled(C, s, k)
    BY <1>1, <1>3, AlikeTrans DEF IsPulled, Entry
  <1>4. CASE \E r, y : Follows(C, s, r, y)
    <2>1. PICK r, y : Follows(C, s, r, y)
      BY <1>4
    <2>2. r \in DOMAIN C
      BY <2>1 DEF Follows
    <2>3. /\ Kept(D[r].metadata) /\ Alike(D[r].metadata, C[r].metadata, Hidden)
          /\ D[r].files = C[r].files /\ Kept(C[r].metadata) /\ r \in DOMAIN D
      BY <2>2 DEF Grows, Store, Entry
    <2>4. Alike(After(y, C[r].metadata), After(y, D[r].metadata), Hidden)
      BY <2>3, AfterAlike, AlikeBack DEF Kept
    <2>5. Alike(D[s].metadata, After(y, D[r].metadata), Hidden)
      BY <1>1, <2>1, <2>4, AlikeTrans DEF Follows
    <2>6. Ran(y, D[s].metadata, D[r].files) = Ran(y, C[s].metadata, C[r].files)
      BY <1>1, <2>3, RanAlike
    <2> QED
      BY <1>1, <2>1, <2>3, <2>5, <2>6 DEF Follows, Entry
  <1> QED
    BY <1>2, <1>3, <1>4 DEF Entry
LEMMA GrowsSelf ==
  ASSUME NEW C, Store(C)
  PROVE  Grows(C, C)
  BY AlikeSelf DEF Grows, Store, Entry

\* What is at a state ID follows from what is at the one before it.
LEMMA EntryOf ==
  ASSUME NEW C, Store(C), NEW r \in DOMAIN C, NEW y, Append(r, y) \in DOMAIN C
  PROVE  Follows(C, Append(r, y), r, y) /\ Kept(C[Append(r, y)].metadata)
  <1> DEFINE s == Append(r, y)
  <1>1. Entry(C, s)
    BY DEF Store
  <1>2. \A k : s # <<k>>
    BY StoreSids
  <1>3. PICK q, z : Follows(C, s, q, z)
    BY <1>1, <1>2 DEF Entry, IsPulled
  <1>4. q = r /\ z = y
    <2>1. PICK T : DOMAIN C \subseteq Seq(T)
      BY DEF Store
    <2>2. q \in DOMAIN C /\ Append(q, z) = Append(r, y)
      BY <1>3 DEF Follows
    <2> QED
      BY <2>1, <2>2, AppendOne
  <1> QED
    BY <1>1, <1>3, <1>4 DEF Entry

LEMMA NothingBelow ==
  ASSUME NEW C, Store(C), NEW r \in DOMAIN C, NEW y, Append(r, y) \notin DOMAIN C,
         NEW D, DOMAIN D = DOMAIN C \cup {Append(r, y)}, NEW z
  PROVE  Append(Append(r, y), z) \notin DOMAIN D
  <1> DEFINE s == Append(r, y)
             u == Append(s, z)
  <1>1. PICK T : DOMAIN C \subseteq Seq(T)
    BY DEF Store
  <1> DEFINE U == T \cup {y}
  <1>2. s \in Seq(U) /\ s # << >> /\ DOMAIN C \subseteq Seq(U)
    BY <1>1, AppendMore, SeqMore
  <1>3. s \notin DOMAIN C
    OBVIOUS
  <1>4. Len(u) = Len(s) + 1 /\ Len(s) \in Nat
    <2>1. s \in Seq(U \cup {z})
      BY <1>2, SeqMore
    <2> HIDE DEF s
    <2> QED
      BY <2>1, AppendProperties, LenProperties
  <1>5. \A k : u # <<k>>
    <2> HIDE DEF s, U
    <2> QED
      BY <1>2, AppendMore
  <1> HIDE DEF s, U
  <1>6. u # s
    BY <1>4
  <1>7. ASSUME u \in DOMAIN C PROVE FALSE
    <2>1. Entry(C, u)
      BY <1>7 DEF Store
    <2>2. PICK q, x : Follows(C, u, q, x)
      BY <1>5, <2>1 DEF Entry, IsPulled
    <2>3. q \in DOMAIN C /\ Append(q, x) = Append(s, z)
      BY <2>2 DEF Follows
    <2>4. q = s
      <3>1. q \in Seq(U) /\ s \in Seq(U)
        BY <1>2, <2>3
      <3> QED
        BY <3>1, <2>3, AppendOne
    <2> QED
      BY <1>3, <2>3, <2>4
  <1> QED
    BY <1>6, <1>7 DEF s

\* FROM puts a base image into the cache if it is not there.
LEMMA AddBase ==
  ASSUME Blind,
         NEW C, Store(C), NEW k, NEW s, s = <<Pulled(k)>>, NEW D,
         D = IF s \in DOMAIN C THEN C
             ELSE With(C, s, [metadata |-> metadata_init(BaseEnv[k]), files |-> << >>])
  PROVE  /\ Store(D) /\ Grows(C, D) /\ s \in DOMAIN D
         /\ D[s].files = << >> /\ Kept(D[s].metadata)
         /\ Alike(D[s].metadata, metadata_init(BaseEnv[k]), Hidden)
  <1> DEFINE w == metadata_init(BaseEnv[k])
             e == [metadata |-> w, files |-> << >>]
  <1>1. CASE s \in DOMAIN C
    <2>1. D = C
      BY <1>1
    <2>2. Entry(C, s)
      BY <1>1 DEF Store
    <2>3. PICK j : IsPulled(C, s, j)
      BY <1>1, <2>2, StoreSids DEF Entry, Follows
    <2>4. j = k
      <3> DEFINE p == Pulled(j)
                 q == Pulled(k)
      <3>1. p = q
        <4> HIDE DEF p, q
        <4>1. <<p>> = <<q>>
          BY <2>3 DEF IsPulled, p, q
        <4> QED
          BY <4>1
      <3>2. p.key = j /\ q.key = k
        BY DEF Pulled
      <3> QED
        BY <3>1, <3>2
    <2> QED
      BY <1>1, <2>1, <2>2, <2>3, <2>4, GrowsSelf DEF IsPulled, Entry
  <1>2. CASE s \notin DOMAIN C
    <2>1. Kept(w)
      BY InitKept
    <2> HIDE DEF w
    <2>2. D = With(C, s, e)
      BY <1>2 DEF w
    <2>3. /\ DOMAIN D = DOMAIN C \cup {s} /\ D[s] = e
          /\ \A u \in DOMAIN C : D[u] = C[u]
      <3> HIDE DEF e
      <3> QED
        BY <1>2, <2>2 DEF With
    <2>4. D[s].metadata = w /\ D[s].files = << >>
      BY <2>3
    <2>5. Grows(C, D)
      BY <2>3, AlikeSelf DEF Grows, Store, Entry
    <2>6. Alike(D[s].metadata, w, Hidden)
      BY <2>4, AlikeSelf
    <2>7. Entry(D, s)
      BY <2>1, <2>4, <2>6 DEF Entry, IsPulled, w
    <2>8. \E T : DOMAIN D \subseteq Seq(T)
      <3>1. PICK T : DOMAIN C \subseteq Seq(T)
        BY DEF Store
      <3> DEFINE U == T \cup {Pulled(k)}
      <3>2. DOMAIN C \subseteq Seq(U)
        BY <3>1, SeqMore
      <3>3. s \in Seq(U)
        <4>1. Pulled(k) \in U
          OBVIOUS
        <4> HIDE DEF U
        <4> QED
          BY <4>1
      <3> HIDE DEF U
      <3> QED
        BY <2>3, <3>2, <3>3
    <2>9. \A u \in DOMAIN D : Entry(D, u)
      BY <2>3, <2>5, <2>7, EntryGrows
    <2> QED
      BY <2>1, <2>3, <2>4, <2>5, <2>6, <2>8, <2>9 DEF Store, w
  <1> QED
    BY <1>1, <1>2

Commit(m, fs) == [metadata |-> m, files |-> fs]
Added(C, D, s, m, fs) == /\ Store(D) /\ Grows(C, D) /\ DOMAIN D = DOMAIN C \cup {s}
                         /\ D[s].metadata = m /\ D[s].files = fs

\* What an instruction commits; with --rebuild it may be there already.
LEMMA AddEntry ==
  ASSUME Blind,
         NEW C, Store(C), NEW r \in DOMAIN C, NEW y, NEW m, NEW fs, NEW D,
         Kept(m), Alike(m, After(y, C[r].metadata), Hidden), fs = Ran(y, m, C[r].files),
         D = With(C, Append(r, y), Commit(m, fs))
  PROVE  Added(C, D, Append(r, y), m, fs)
  <1> DEFINE s == Append(r, y)
             e == Commit(m, fs)
  <1>1. /\ DOMAIN D = DOMAIN C \cup {s} /\ D[s] = e
        /\ \A u \in DOMAIN C : u # s => D[u] = C[u]
    <2>1. D = With(C, s, e)
      OBVIOUS
    <2> HIDE DEF s, e
    <2> QED
      BY <2>1 DEF With
  <1>2. D[s].metadata = m /\ D[s].files = fs
    BY <1>1 DEF Commit
  <1> HIDE DEF e
  <1>3. ASSUME s \in DOMAIN C
        PROVE  Alike(m, C[s].metadata, Hidden) /\ fs = C[s].files
    <2>1. Follows(C, s, r, y)
      BY <1>3, EntryOf
    <2>2. Alike(m, C[s].metadata, Hidden)
      BY <2>1, AlikeTrans, AlikeBack DEF Follows
    <2> QED
      BY <2>1, <2>2, RanAlike DEF Follows
  <1> HIDE DEF s
  <1>4. Grows(C, D)
    <2> SUFFICES ASSUME NEW u \in DOMAIN C
                 PROVE  /\ Kept(D[u].metadata) /\ Alike(D[u].metadata, C[u].metadata, Hidden)
                        /\ D[u].files = C[u].files
      BY <1>1 DEF Grows
    <2>1. CASE u = s
      BY <1>2, <1>3, <2>1
    <2>2. CASE u # s
      BY <1>1, <2>2, AlikeSelf DEF Store, Entry
    <2> QED
      BY <2>1, <2>2
  <1>5. Entry(D, s)
    <2>1. /\ Kept(D[r].metadata) /\ Alike(D[r].metadata, C[r].metadata, Hidden)
          /\ D[r].files = C[r].files /\ r \in DOMAIN D /\ Kept(C[r].metadata)
      BY <1>1, <1>4 DEF Grows, Store, Entry
    <2>2. Alike(After(y, C[r].metadata), After(y, D[r].metadata), Hidden)
      BY <2>1, AfterAlike, AlikeBack DEF Kept
    <2>3. Alike(m, After(y, D[r].metadata), Hidden)
      BY <2>2, AlikeTrans
    <2>4. Follows(D, s, r, y)
      BY <1>2, <2>1, <2>3 DEF Follows, s
    <2> QED
      BY <1>2, <2>4 DEF Entry
  <1>6. \E T : DOMAIN D \subseteq Seq(T)
    <2>1. PICK T : DOMAIN C \subseteq Seq(T)
      BY DEF Store
    <2> DEFINE U == T \cup {y}
    <2>2. DOMAIN C \subseteq Seq(U) /\ s \in Seq(U)
      BY <2>1, SeqMore, AppendMore DEF s
    <2> HIDE DEF U
    <2> QED
      BY <1>1, <2>2
  <1>7. \A u \in DOMAIN D : Entry(D, u)
    BY <1>1, <1>4, <1>5, EntryGrows
  <1> QED
    BY <1>1, <1>2, <1>4, <1>6, <1>7 DEF Store, Added, s
-----------------------------------------------------------------------------
(* Builds, side by side with the reference *)

\* Image w of the reference is at state ID s.
Image(C, s, w) == /\ s \in DOMAIN C /\ Kept(w.m) /\ w.files = C[s].files
                  /\ Alike(w.m, C[s].metadata, Hidden)
Images(C, imgs, ws) == /\ DOMAIN ws = DOMAIN imgs
                       /\ \A a \in DOMAIN imgs : Image(C, imgs[a], ws[a])

\* The stage that is at state ID s with metadata m, and reference c.
Stage(C, s, m, c) == /\ s \in DOMAIN C /\ IsMeta(m) /\ Defaults(m)
                     /\ Alike(m, C[s].metadata, Hidden)
                     /\ IsMeta(c.m) /\ Alike(m, c.m, AllFromKeys) /\ c.files = C[s].files

IsCold(c) == c = [args |-> c.args, from |-> c.from, imgs |-> c.imgs, alias |-> c.alias,
                  m |-> c.m, files |-> c.files]
Plains(b) == \A k \in DOMAIN b : Plain(b[k])

Linked(c, C, b, from, imgs, a, s, m) ==
  /\ IsCold(c) /\ c.args = b /\ c.from = from /\ c.alias = a
  /\ Plains(b) /\ DOMAIN from \subseteq AllFromKeys
  /\ Images(C, imgs, c.imgs)
  /\ a = None => s = << >>
  /\ a # None => Stage(C, s, m, c)

LEMMA ImageGrows ==
  ASSUME NEW C, NEW D, Grows(C, D), NEW s, NEW w, Image(C, s, w)
  PROVE  Image(D, s, w)
  BY AlikeTrans, AlikeBack DEF Image, Grows

LEMMA ImagesGrow ==
  ASSUME NEW C, NEW D, Grows(C, D), NEW imgs, NEW ws, Images(C, imgs, ws)
  PROVE  Images(D, imgs, ws)
  BY ImageGrows DEF Images

\* A stage is closed.
LEMMA StageCloses ==
  ASSUME NEW C, NEW s, NEW m, NEW c, Stage(C, s, m, c), NEW w,
         w = [m |-> Saved(c.m), files |-> c.files]
  PROVE  Image(C, s, w)
  <1>1. Alike(c.m, m, Hidden) /\ Defaults(c.m)
    BY AlikeMore, AlikeBack, DefaultsAlike DEF Stage
  <1>2. Kept(Saved(c.m)) /\ Alike(Saved(c.m), c.m, Hidden)
    BY <1>1, SavedKept DEF Stage
  <1>3. Alike(Saved(c.m), m, Hidden)
    BY <1>1, <1>2, AlikeTrans
  <1>4. Alike(Saved(c.m), C[s].metadata, Hidden)
    BY <1>3, AlikeTrans DEF Stage
  <1> QED
    BY <1>2, <1>4 DEF Image, Stage

LEMMA ImagesClosed ==
  ASSUME NEW C, NEW imgs, NEW ws, Images(C, imgs, ws), NEW a, NEW s, NEW w,
         a # None => Image(C, s, w)
  PROVE  Images(C, Closed(imgs, a, s), Closed(ws, a, w))
  BY DEF Images, Closed, With

\* An instruction of a stage makes of the stage, and of the reference, what its
\* input says.
LEMMA InstAlike ==
  ASSUME Blind,
         NEW C, Store(C), NEW s, NEW m, NEW c, Stage(C, s, m, c), NEW x, NEW args,
         Plain(x.val), Plains(args), x.op = "ARG" => x.key \notin DOMAIN ARG_DEFAULTS,
         NEW y, y = sid_input(x, m, args), NEW p, p = prepare(x, m, args),
         NEW q, q = prepare(x, c.m, args)
  PROVE  /\ IsMeta(p) /\ Defaults(p) /\ Alike(p, After(y, C[s].metadata), Hidden)
         /\ IsMeta(q) /\ Alike(p, q, AllFromKeys)
         /\ execute(x, q, Operand(x, c.m, args), c.files) = Ran(y, p, C[s].files)
  <1>1. IsMeta(p) /\ Alike(p, q, AllFromKeys) /\ Alike(c.m, m, AllFromKeys)
    BY PrepareAlike, AlikeBack DEF Stage, Plains
  <1>2. IsMeta(q)
    BY <1>1, PrepareAlike DEF Stage, Plains
  <1>3. Defaults(p)
    BY DefaultsPrepare DEF Stage
  <1>4. Alike(p, After(y, m), Hidden)
    BY InputIsGiven DEF Stage
  <1>5. IsMeta(C[s].metadata)
    BY DEF Stage, Store, Entry, Kept
  <1>6. Alike(After(y, m), After(y, C[s].metadata), Hidden)
    BY <1>5, AfterAlike DEF Stage
  <1>7. Operand(x, c.m, args) = Operand(x, m, args)
    BY <1>1, OperandSame DEF Plains
  <1>8. Alike(q, p, Hidden)
    BY <1>1, AlikeMore, AlikeBack
  <1>9. execute(x, q, Operand(x, m, args), c.files) = execute(x, p, Operand(x, m, args), c.files)
    BY <1>8, ExecuteAlike
  <1>10. execute(x, p, Operand(x, m, args), c.files) = Ran(y, p, c.files)
    BY InputIsExecuted
  <1> QED
    BY <1>1, <1>2, <1>3, <1>4, <1>6, <1>7, <1>9, <1>10, AlikeTrans DEF Stage

\* What of --build-arg is left after x.
Spent(x, b) == IF x.op = "ARG" THEN Minus(b, {x.key}) ELSE b

LEMMA ColdInstIs ==
  ASSUME NEW c, IsCold(c), NEW x, NEW d, d = ColdInst(c, x)
  PROVE  /\ IsCold(d) /\ d.from = c.from /\ d.imgs = c.imgs /\ d.alias = c.alias
         /\ d.args = Spent(x, c.args)
         /\ d.m = prepare(x, c.m, c.args)
         /\ d.files = execute(x, prepare(x, c.m, c.args), Operand(x, c.m, c.args), c.files)
  <1> DEFINE a == Spent(x, c.args)
             p == prepare(x, c.m, c.args)
             e == execute(x, p, Operand(x, c.m, c.args), c.files)
  <1>1. d = [c EXCEPT !.m = p, !.files = e, !.args = a]
    BY DEF ColdInst, IsCold, Spent
  <1> HIDE DEF a, p, e
  <1> QED
    BY <1>1 DEF IsCold, a, p, e

LEMMA ColdArgIs ==
  ASSUME NEW c, IsCold(c), NEW x, NEW d, d = ColdArg(c, x)
  PROVE  /\ IsCold(d) /\ d.imgs = c.imgs /\ d.alias = c.alias
         /\ d.m = c.m /\ d.files = c.files
         /\ d.from = Set(c.from, x.key, ArgValue(x, c.args))
         /\ d.args = Minus(c.args, {x.key})
  <1> DEFINE a == Minus(c.args, {x.key})
             f == Set(c.from, x.key, ArgValue(x, c.args))
  <1>1. d = [c EXCEPT !.from = f, !.args = a]
    BY DEF ColdArg, IsCold
  <1> HIDE DEF a, f
  <1> QED
    BY <1>1 DEF IsCold, a, f

ColdImages(c) == Closed(c.imgs, c.alias, [m |-> Saved(c.m), files |-> c.files])
ColdBase(c, x) ==
  IF IsStage(x, ColdImages(c)) THEN ColdImages(c)[x.val[1]]
  ELSE [m |-> metadata_init(BaseEnv[BaseOf(x, c.from)[1]]), files |-> << >>]

FromIs(o, c, x, d) ==
  /\ IsCold(d) /\ d.from = c.from /\ d.args = c.args /\ d.alias = x.key
  /\ d.imgs = ColdImages(c) /\ d.files = ColdBase(c, x).files
  /\ d.m = metadata_load(ColdBase(c, x).m, o.host, c.from)

LEMMA ColdFromIs ==
  ASSUME NEW o, NEW c, IsCold(c), NEW x
  PROVE  FromIs(o, c, x, ColdFrom(o, c, x))
  <1> DEFINE i1 == ColdImages(c)
             f1 == ColdBase(c, x).files
             m1 == metadata_load(ColdBase(c, x).m, o.host, c.from)
             d == ColdFrom(o, c, x)
  <1>1. d = [c EXCEPT !.imgs = i1, !.alias = x.key, !.files = f1, !.m = m1]
    BY DEF ColdFrom, ColdImages, ColdBase
  <1> HIDE DEF i1, f1, m1, d
  <1>2. /\ IsCold(d) /\ d.from = c.from /\ d.args = c.args /\ d.alias = x.key
        /\ d.imgs = i1 /\ d.files = f1 /\ d.m = m1
    BY <1>1 DEF IsCold
  <1>3. FromIs(o, c, x, d)
    BY <1>2 DEF FromIs, i1, f1, m1
  <1> QED
    BY <1>3 DEF d
LEMMA PlainsLess ==
  ASSUME NEW b, Plains(b), NEW x
  PROVE  Plains(Spent(x, b))
  BY DEF Plains, Minus, Spent

LEMMA ArgLinked ==
  ASSUME NEW c, NEW C, NEW b, NEW from, NEW imgs, NEW s, NEW m,
         Linked(c, C, b, from, imgs, None, s, m), NEW x, x.key \in AllFromKeys
  PROVE  Linked(ColdArg(c, x), C, Minus(b, {x.key}), Set(from, x.key, ArgValue(x, b)),
                imgs, None, s, m)
  <1> DEFINE d == ColdArg(c, x)
             f == Set(from, x.key, ArgValue(x, b))
             b2 == Minus(b, {x.key})
  <1>1. IsCold(d) /\ d.imgs = c.imgs /\ d.alias = None /\ d.from = f /\ d.args = b2
    BY ColdArgIs DEF Linked
  <1>2. DOMAIN f \subseteq AllFromKeys
    BY DEF Linked, Set, With
  <1>3. Plains(b2)
    BY DEF Linked, Plains, Minus
  <1> HIDE DEF d, f, b2
  <1>4. Linked(d, C, b2, f, imgs, None, s, m)
    BY <1>1, <1>2, <1>3 DEF Linked
  <1> QED
    BY <1>4 DEF d, f, b2

LEMMA HitLinked ==
  ASSUME Blind,
         NEW c, NEW C, Store(C), NEW b, NEW from, NEW imgs, NEW a, NEW s, NEW m,
         Linked(c, C, b, from, imgs, a, s, m), a # None,
         NEW x, Plain(x.val), x.op = "ARG" => x.key \notin DOMAIN ARG_DEFAULTS,
         NEW r, r = Append(s, sid_input(x, m, b)), r \in DOMAIN C
  PROVE  Linked(ColdInst(c, x), C, Spent(x, b), from, imgs, a, r, prepare(x, m, b))
  <1> DEFINE e == ColdInst(c, x)
             y == sid_input(x, m, b)
             p == prepare(x, m, b)
             q == prepare(x, c.m, b)
             d == Spent(x, b)
  <1>1. IsCold(c) /\ c.args = b /\ c.from = from /\ c.alias = a /\ Stage(C, s, m, c) /\ Plains(b)
    BY DEF Linked
  <1>2. /\ IsCold(e) /\ e.from = from /\ e.imgs = c.imgs /\ e.alias = a /\ e.args = d
        /\ e.m = q /\ e.files = execute(x, q, Operand(x, c.m, b), c.files)
    BY <1>1, ColdInstIs
  <1>3. /\ IsMeta(p) /\ Defaults(p) /\ Alike(p, After(y, C[s].metadata), Hidden)
        /\ IsMeta(q) /\ Alike(p, q, AllFromKeys)
        /\ execute(x, q, Operand(x, c.m, b), c.files) = Ran(y, p, C[s].files)
    BY <1>1, InstAlike
  <1>4. Follows(C, r, s, y)
    BY <1>1, EntryOf DEF Stage
  <1> HIDE DEF e, y, p, q, d
  <1>5. Alike(p, C[r].metadata, Hidden)
    BY <1>3, <1>4, AlikeBack, AlikeTrans DEF Follows
  <1>6. Ran(y, p, C[s].files) = C[r].files
    BY <1>4, <1>5, RanAlike DEF Follows
  <1>7. Stage(C, r, p, e)
    BY <1>2, <1>3, <1>5, <1>6 DEF Stage
  <1>8. Plains(d)
    BY <1>1, PlainsLess DEF d
  <1>9. Linked(e, C, d, from, imgs, a, r, p)
    BY <1>2, <1>7, <1>8 DEF Linked
  <1> QED
    BY <1>9 DEF e, p, d

Noted(p, h) == [p EXCEPT !.history = h]

LEMMA MissLinked ==
  ASSUME Blind,
         NEW c, NEW C, Store(C), NEW b, NEW from, NEW imgs, NEW a, NEW s, NEW m,
         Linked(c, C, b, from, imgs, a, s, m), a # None,
         NEW x, Plain(x.val), x.op = "ARG" => x.key \notin DOMAIN ARG_DEFAULTS,
         NEW r, r = Append(s, sid_input(x, m, b)),
         NEW h, NEW w, w = Noted(prepare(x, m, b), h),
         NEW fs, fs = execute(x, prepare(x, m, b), Operand(x, m, b), C[s].files),
         NEW D, D = With(C, r, Commit(Saved(w), fs))
  PROVE  /\ Added(C, D, r, Saved(w), fs)
         /\ Linked(ColdInst(c, x), D, Spent(x, b), from, imgs, a, r, w)
  <1> DEFINE e == ColdInst(c, x)
             y == sid_input(x, m, b)
             p == prepare(x, m, b)
             q == prepare(x, c.m, b)
             d == Spent(x, b)
  <1>1. IsCold(c) /\ c.args = b /\ c.from = from /\ c.alias = a /\ Stage(C, s, m, c) /\ Plains(b)
    BY DEF Linked
  <1>2. /\ IsCold(e) /\ e.from = from /\ e.imgs = c.imgs /\ e.alias = a /\ e.args = d
        /\ e.m = q /\ e.files = execute(x, q, Operand(x, c.m, b), c.files)
    BY <1>1, ColdInstIs
  <1>3. /\ IsMeta(p) /\ Defaults(p) /\ Alike(p, After(y, C[s].metadata), Hidden)
        /\ IsMeta(q) /\ Alike(p, q, AllFromKeys)
        /\ execute(x, q, Operand(x, c.m, b), c.files) = Ran(y, p, C[s].files)
    BY <1>1, InstAlike
  <1>4. fs = Ran(y, p, C[s].files)
    BY InputIsExecuted
  <1>5. s \in DOMAIN C
    BY <1>1 DEF Stage
  <1> HIDE DEF e, y, p, q, d
  <1>6. IsMeta(w) /\ Same(w.arg, p.arg, Hidden) /\ Defaults(w)
    <2>1. w = [p EXCEPT !.history = h]
      BY DEF p, Noted
    <2>2. IsMeta(w) /\ w.arg = p.arg
      BY <1>3, <2>1 DEF IsMeta
    <2> QED
      BY <1>3, <2>2 DEF Same, Defaults
  <1>7. Alike(w, p, Hidden) /\ Alike(w, p, AllFromKeys)
    <2>1. w = [p EXCEPT !.history = h]
      BY DEF p, Noted
    <2> QED
      BY <1>3, <2>1 DEF IsMeta, Alike, Same
  <1> DEFINE sv == Saved(w)
  <1>8. Kept(sv) /\ Alike(sv, w, Hidden)
    BY <1>6, SavedKept
  <1> HIDE DEF sv
  <1>9. Alike(sv, p, Hidden) /\ Alike(p, sv, Hidden)
    BY <1>7, <1>8, AlikeTrans, AlikeBack
  <1>10. Alike(sv, After(y, C[s].metadata), Hidden)
    BY <1>3, <1>9, AlikeTrans
  <1>11. fs = Ran(y, sv, C[s].files)
    BY <1>4, <1>9, RanAlike
  <1>12. D = With(C, Append(s, y), Commit(sv, fs)) /\ r = Append(s, y)
    BY DEF sv, y
  <1>13. /\ Store(D) /\ Grows(C, D) /\ DOMAIN D = DOMAIN C \cup {r}
         /\ D[r].metadata = sv /\ D[r].files = fs
    <2>1. Added(C, D, Append(s, y), sv, fs)
      BY ONLY Blind, Store(C), <1>5, <1>8, <1>10, <1>11, <1>12, AddEntry
    <2> QED
      BY <1>12, <2>1 DEF Added
  <1>14. Alike(w, q, AllFromKeys)
    BY <1>3, <1>7, AlikeTrans
  <1>15. Alike(w, sv, Hidden)
    BY <1>8, AlikeBack
  <1>16. Stage(D, r, w, e)
    BY <1>2, <1>3, <1>4, <1>6, <1>13, <1>14, <1>15 DEF Stage
  <1>17. Plains(d)
    BY <1>1, PlainsLess DEF d
  <1>18. Images(D, imgs, c.imgs)
    BY <1>13, ImagesGrow DEF Linked
  <1>19. Linked(e, D, d, from, imgs, a, r, w)
    BY <1>2, <1>16, <1>17, <1>18 DEF Linked
  <1> QED
    BY <1>13, <1>19 DEF e, d, sv, Added

LEMMA FromLinked ==
  ASSUME Blind,
         NEW c, NEW C, Store(C), NEW b, NEW from, NEW imgs, NEW a, NEW s, NEW m,
         Linked(c, C, b, from, imgs, a, s, m),
         NEW x, x.key # None, NEW o, o.host \in HostEnvs,
         NEW im2, im2 = Closed(imgs, a, s), NEW r, r = BaseSid(x, from, im2),
         NEW D, D = IF r \in DOMAIN C THEN C
                    ELSE With(C, r, [metadata |-> metadata_init(BaseEnv[r[1].key]),
                                     files |-> << >>])
  PROVE  /\ Store(D)
         /\ Linked(ColdFrom(o, c, x), D, b, from, im2, x.key, r,
                   metadata_load(D[r].metadata, o.host, from))
  <1> DEFINE d == ColdFrom(o, c, x)
             ws == ColdImages(c)
             w == [m |-> Saved(c.m), files |-> c.files]
             base == ColdBase(c, x)
             md == metadata_load(D[r].metadata, o.host, from)
  <1>1. /\ IsCold(c) /\ c.args = b /\ c.from = from /\ c.alias = a /\ Plains(b)
        /\ DOMAIN from \subseteq AllFromKeys
    BY DEF Linked
  <1>2. /\ IsCold(d) /\ d.from = from /\ d.args = b /\ d.alias = x.key
        /\ d.imgs = ws /\ d.files = base.files
        /\ d.m = metadata_load(base.m, o.host, from)
    <2>1. FromIs(o, c, x, ColdFrom(o, c, x))
      BY <1>1, ColdFromIs
    <2> QED
      BY <1>1, <2>1 DEF FromIs
  <1>3. Images(C, im2, ws)
    <2>1. a # None => Image(C, s, w)
      BY StageCloses DEF Linked
    <2>2. Images(C, imgs, c.imgs)
      BY DEF Linked
    <2>3. ws = Closed(c.imgs, a, w)
      BY <1>1 DEF ColdImages
    <2> HIDE DEF w, ws
    <2> QED
      BY <2>1, <2>2, <2>3, ImagesClosed
  <1>4. DOMAIN ws = DOMAIN im2
    BY <1>3 DEF Images
  <1>5. Store(D) /\ Grows(C, D) /\ Image(D, r, base)
    <2>1. CASE IsStage(x, im2)
      <3>1. x.val[1] \in DOMAIN im2 /\ r = im2[x.val[1]]
        BY <2>1 DEF IsStage, BaseSid
      <3>2. base = ws[x.val[1]]
        BY <2>1, <1>4 DEF ColdBase, IsStage
      <3>3. Image(C, r, base)
        BY <1>3, <3>1, <3>2 DEF Images
      <3>4. D = C
        BY <3>3 DEF Image
      <3> QED
        BY <3>3, <3>4, GrowsSelf
    <2>2. CASE ~IsStage(x, im2)
      <3> DEFINE k == BaseOf(x, from)[1]
                 z == metadata_init(BaseEnv[k])
      <3>1. r = <<Pulled(k)>>
        BY <2>2 DEF BaseSid, Pulled
      <3>2. base = [m |-> z, files |-> << >>]
        BY <1>1, <1>4, <2>2 DEF ColdBase, IsStage
      <3>3. r[1].key = k
        BY <3>1 DEF Pulled
      <3>4. Kept(z)
        BY InitKept
      <3> HIDE DEF k, base
      <3>5. /\ Store(D) /\ Grows(C, D) /\ r \in DOMAIN D /\ D[r].files = << >>
            /\ Alike(D[r].metadata, z, Hidden)
        BY <3>1, <3>3, AddBase
      <3> HIDE DEF z
      <3>6. Alike(z, D[r].metadata, Hidden)
        BY <3>5, AlikeBack
      <3>7. base.m = z /\ base.files = << >>
        BY <3>2
      <3> QED
        BY <3>4, <3>5, <3>6, <3>7 DEF Image
    <2> QED
      BY <2>1, <2>2
  <1> HIDE DEF base, ws, d
  <1>6. r \in DOMAIN D /\ Kept(D[r].metadata)
    BY <1>5 DEF Image, Store, Entry
  <1>7. /\ IsMeta(md) /\ Defaults(md) /\ Alike(md, D[r].metadata, Hidden)
    BY <1>1, <1>6, LoadHidden
  <1>8. Alike(base.m, D[r].metadata, Hidden) /\ Kept(base.m) /\ base.files = D[r].files
    BY <1>5 DEF Image
  <1>9. Alike(D[r].metadata, base.m, Hidden)
    BY <1>8, AlikeBack
  <1>10. Alike(md, d.m, AllFromKeys) /\ IsMeta(d.m)
    BY <1>2, <1>6, <1>8, <1>9, LoadAlike
  <1> HIDE DEF md
  <1>11. Stage(D, r, md, d)
    BY <1>2, <1>6, <1>7, <1>8, <1>10 DEF Stage
  <1>12. Images(D, im2, ws)
    BY <1>3, <1>5, ImagesGrow
  <1>13. Linked(d, D, b, from, im2, x.key, r, md)
    BY <1>1, <1>2, <1>11, <1>12 DEF Linked
  <1> QED
    BY <1>5, <1>13 DEF d, md
-----------------------------------------------------------------------------
(* The inductive invariant *)

\* Instruction k of f is at hand in the stage a.
Place(f, a, k) == /\ f \in Files /\ k \in 1 .. Len(f) + 1
                  /\ a = None => \A i \in 1 .. k - 1 : f[i].op # "FROM"
                  /\ a # None => \E i \in 1 .. k - 1 : f[i].op = "FROM"

\* After a miss the worktree holds what is at the state ID, and unless
\* everything is rebuilt there is no hit after it.
Worktree(C, s, fs, o) == /\ fs = C[s].files
                         /\ ~o.rebuild => \A y : Append(s, y) \notin DOMAIN C

\* A build under way, or the last one, if it made an image.
Live == running \/ tag # << >>
BuildInv ==
  /\ Place(file, alias, n) /\ cli.host \in HostEnvs /\ miss_ct \in Nat
  /\ Linked(Cold(file, cli)[n - 1], cache, build_arg, argfrom, images, alias, sid, metadata)
  /\ alias # None /\ miss_ct # 0 => Worktree(cache, sid, files, cli)
  /\ ~running => n = Len(file) + 1 /\ tag = sid

IInv == /\ Store(cache)
        /\ running => tag = << >>
        /\ Live => BuildInv

\* The next state of the reference.
LEMMA ColdNext ==
  ASSUME NEW f \in Files, NEW o, NEW k \in 1 .. Len(f)
  PROVE  Cold(f, o)[k + 1 - 1] = ColdStep(o, Cold(f, o)[k - 1], f[k])
  <1>1. Len(f) \in Nat
    BY FilesAssumption
  <1>2. Cold(f, o)[k] = ColdStep(o, Cold(f, o)[k - 1], f[k])
    BY <1>1, ColdUnfolds
  <1>3. k + 1 - 1 = k
    BY <1>1
  <1> QED
    BY <1>2, <1>3

LEMMA PlaceNext ==
  ASSUME NEW f, NEW a, NEW b, NEW k, Place(f, a, k), k <= Len(f),
         f[k].op = "FROM" => b # None, f[k].op # "FROM" => b = a
  PROVE  k \in 1 .. Len(f) /\ Len(f) \in Nat /\ Place(f, b, k + 1)
  <1>1. Len(f) \in Nat /\ k \in 1 .. Len(f)
    BY FilesAssumption DEF Place
  <1>2. k + 1 \in 1 .. Len(f) + 1 /\ k + 1 - 1 = k
    BY <1>1
  <1>3. \A i \in 1 .. k : i = k \/ i \in 1 .. k - 1
    BY <1>1
  <1>4. \A i \in 1 .. k - 1 : i \in 1 .. k
    BY <1>1
  <1>5. k \in 1 .. k
    BY <1>1
  <1> QED
    BY <1>1, <1>2, <1>3, <1>4, <1>5 DEF Place

LEMMA InvInit == Init => IInv
  <1> SUFFICES ASSUME Init PROVE IInv
    OBVIOUS
  <1>1. ~running /\ tag = << >> /\ cache = << >>
    BY DEF Init
  <1>2. DOMAIN cache = {}
    BY <1>1
  <1> QED
    BY <1>1, <1>2 DEF IInv, Live, Store

LEMMA InvStart ==
  ASSUME NoLeaks, IInv, NEW f \in Files, NEW b \in BuildArgs, NEW h \in HostEnvs,
         NEW r \in BOOLEAN, Start(f, b, h, r)
  PROVE  IInv'
  <1>1. /\ cache' = cache /\ file' = f /\ cli' = [build_arg |-> b, host |-> h, rebuild |-> r]
        /\ build_arg' = b /\ argfrom' = << >> /\ images' = << >> /\ alias' = None
        /\ n' = 1 /\ sid' = << >> /\ miss_ct' = 0 /\ tag' = << >>
    BY DEF Start
  <1>2. running'
    BY DEF Start
  <1>3. cli'.host = h /\ cli'.build_arg = b
    BY <1>1
  <1>4. Len(f) \in Nat
    BY FilesAssumption
  <1>5. Place(f, None, 1)
    BY <1>4 DEF Place
  <1> DEFINE c == ColdStart(cli')
  <1>6. Cold(f, cli')[n' - 1] = c
    <2>1. n' - 1 = 0
      BY <1>1
    <2> QED
      BY <1>4, <2>1, ColdUnfolds
  <1>7. IsCold(c) /\ c.args = b /\ c.from = << >> /\ c.alias = None /\ c.imgs = << >>
    BY <1>3 DEF ColdStart, IsCold
  <1> HIDE DEF c
  <1>8. Plains(b)
    BY DEF NoLeaks, Plains
  <1>9. DOMAIN << >> = {}
    OBVIOUS
  <1>10. Linked(c, cache', b, << >>, << >>, None, << >>, metadata')
    BY <1>7, <1>8, <1>9 DEF Linked, Images
  <1>11. BuildInv'
    BY <1>1, <1>2, <1>3, <1>5, <1>6, <1>10 DEF BuildInv
  <1> QED
    BY <1>1, <1>2, <1>11 DEF IInv

LEMMA InvArg ==
  ASSUME IInv, Arg_First
  PROVE  IInv'
  <1>1. Building /\ inst.op = "ARG" /\ alias = None /\ inst = file[n]
    BY DEF Arg_First, inst
  <1>2. running /\ n <= Len(file)
    BY <1>1 DEF Building
  <1>3. BuildInv /\ Store(cache) /\ tag = << >>
    BY <1>2 DEF IInv, Live
  <1>4. Place(file, alias, n)
    BY <1>3 DEF BuildInv
  <1>5. n \in 1 .. Len(file) /\ Len(file) \in Nat /\ Place(file, alias, n + 1)
    BY <1>1, <1>2, <1>4, PlaceNext
  <1> DEFINE c == Cold(file, cli)[n - 1]
  <1>6. Cold(file, cli)[n + 1 - 1] = ColdArg(c, inst)
    <2>1. Cold(file, cli)[n + 1 - 1] = ColdStep(cli, c, inst)
      BY <1>1, <1>4, <1>5, ColdNext DEF Place
    <2>2. c.alias = None
      BY <1>1, <1>3 DEF BuildInv, Linked
    <2> HIDE DEF c
    <2> QED
      BY <1>1, <2>1, <2>2 DEF ColdStep
  <1>7. inst.key \in AllFromKeys
    <2>1. \A i \in 1 .. n : i = n \/ i \in 1 .. n - 1
      BY <1>5
    <2>2. \A i \in 1 .. n : file[i].op # "FROM"
      BY <1>1, <1>4, <2>1 DEF Place
    <2>3. inst.key \in FromKeys(file)
      BY <1>1, <1>5, <2>2 DEF FromKeys
    <2> QED
      BY <1>4, <2>3 DEF AllFromKeys, Place
  <1>8. Linked(c, cache, build_arg, argfrom, images, None, sid, metadata)
    BY <1>1, <1>3 DEF BuildInv
  <1>9. Linked(ColdArg(c, inst), cache, Minus(build_arg, {inst.key}),
               Set(argfrom, inst.key, ArgValue(inst, build_arg)), images, None, sid, metadata)
    BY <1>7, <1>8, ArgLinked
  <1>10. /\ argfrom' = Set(argfrom, inst.key, ArgValue(inst, build_arg))
         /\ build_arg' = Minus(build_arg, {inst.key}) /\ n' = n + 1
         /\ cache' = cache /\ file' = file /\ cli' = cli /\ images' = images /\ alias' = None
         /\ sid' = sid /\ metadata' = metadata /\ miss_ct' = miss_ct /\ tag' = tag
    BY <1>1 DEF Arg_First, inputs
  <1>11. running'
    BY <1>2 DEF Arg_First
  <1> HIDE DEF c
  <1>12. BuildInv'
    BY <1>1, <1>3, <1>5, <1>6, <1>9, <1>10, <1>11 DEF BuildInv
  <1> QED
    BY <1>3, <1>10, <1>11, <1>12 DEF IInv

LEMMA InvFrom ==
  ASSUME Blind, IInv, From
  PROVE  IInv'
  <1> DEFINE imgs == Closed(images, alias, sid)
             base == BaseSid(inst, argfrom, imgs)
             c == Cold(file, cli)[n - 1]
  <1>1. Building /\ inst.op = "FROM" /\ inst = file[n]
    BY DEF From, inst
  <1>2. running /\ n <= Len(file)
    BY <1>1 DEF Building
  <1>3. BuildInv /\ Store(cache) /\ tag = << >>
    BY <1>2 DEF IInv, Live
  <1>4. Place(file, alias, n)
    BY <1>3 DEF BuildInv
  <1>5. n \in 1 .. Len(file)
    BY <1>2, <1>4, FilesAssumption DEF Place
  <1>6. inst.key # None
    BY <1>1, <1>4, <1>5, FilesAssumption DEF Place
  <1>7. Place(file, inst.key, n + 1) /\ Len(file) \in Nat
    BY <1>1, <1>2, <1>4, <1>6, PlaceNext
  <1>8. Cold(file, cli)[n + 1 - 1] = ColdFrom(cli, c, inst)
    <2>1. Cold(file, cli)[n + 1 - 1] = ColdStep(cli, c, inst)
      BY <1>1, <1>4, <1>5, ColdNext DEF Place
    <2> QED
      BY <1>1, <2>1 DEF ColdStep
  <1>9. Linked(c, cache, build_arg, argfrom, images, alias, sid, metadata) /\ cli.host \in HostEnvs
    BY <1>3 DEF BuildInv
  <1>10. /\ cache' = IF base \in DOMAIN cache THEN cache
                     ELSE With(cache, base, [metadata |-> metadata_init(BaseEnv[base[1].key]),
                                             files |-> << >>])
         /\ images' = imgs /\ alias' = inst.key
         /\ metadata' = metadata_load(cache'[base].metadata, cli.host, argfrom)
         /\ sid' = base /\ miss_ct' = 0 /\ n' = n + 1
         /\ file' = file /\ cli' = cli /\ build_arg' = build_arg
         /\ argfrom' = argfrom /\ tag' = tag
    BY DEF From, inputs
  <1>11. running'
    BY <1>2 DEF From
  <1> HIDE DEF c, imgs, base
  <1>12. /\ Store(cache')
         /\ Linked(ColdFrom(cli, c, inst), cache', build_arg, argfrom, imgs, inst.key, base,
                   metadata_load(cache'[base].metadata, cli.host, argfrom))
    <2>1. imgs = Closed(images, alias, sid) /\ base = BaseSid(inst, argfrom, imgs)
      BY DEF imgs, base
    <2> QED
      BY <1>3, <1>6, <1>9, <1>10, <2>1, FromLinked
  <1>13. BuildInv'
    <2>1. Linked(Cold(file, cli)[n - 1], cache, build_arg, argfrom, images, alias, sid, metadata)'
      <3> DEFINE e == ColdFrom(cli, c, inst)
      <3>1. Cold(file', cli')[n' - 1] = e
        BY <1>5, <1>7, <1>8, <1>10
      <3> HIDE DEF e
      <3>2. Linked(e, cache', build_arg', argfrom', images', alias', sid', metadata')
        BY <1>8, <1>10, <1>12 DEF e
      <3> QED
        BY <3>1, <3>2
    <2>2. Place(file, alias, n)' /\ (cli.host \in HostEnvs)' /\ (miss_ct = 0)'
      BY <1>7, <1>9, <1>10
    <2> QED
      BY <1>11, <2>1, <2>2 DEF BuildInv
  <1> QED
    BY <1>3, <1>10, <1>11, <1>12, <1>13 DEF IInv

\* What is known of an instruction in a stage.
LEMMA StageInst ==
  ASSUME NoLeaks, IInv, InStage
  PROVE  /\ running /\ BuildInv /\ Store(cache) /\ tag = << >> /\ inst = file[n]
         /\ Plain(inst.val) /\ (inst.op = "ARG" => inst.key \notin DOMAIN ARG_DEFAULTS)
         /\ alias # None /\ Place(file, alias, n + 1) /\ n \in Nat
         /\ Linked(Cold(file, cli)[n - 1], cache, build_arg, argfrom, images, alias, sid, metadata)
         /\ Cold(file, cli)[n + 1 - 1] = ColdInst(Cold(file, cli)[n - 1], inst)
  <1> DEFINE c == Cold(file, cli)[n - 1]
  <1>1. Building /\ inst.op # "FROM" /\ alias # None /\ inst = file[n]
    BY DEF InStage, inst
  <1>2. running /\ n <= Len(file)
    BY <1>1 DEF Building
  <1>3. BuildInv /\ Store(cache) /\ tag = << >>
    BY <1>2 DEF IInv, Live
  <1>4. Place(file, alias, n) /\ Linked(c, cache, build_arg, argfrom, images, alias, sid, metadata)
    BY <1>3 DEF BuildInv
  <1>5. n \in 1 .. Len(file) /\ Len(file) \in Nat /\ Place(file, alias, n + 1)
    BY <1>1, <1>2, <1>4, PlaceNext
  <1>6. InBody(file, n)
    <2>1. \A i \in 1 .. n - 1 : i \in 1 .. n
      BY <1>5
    <2> QED
      BY <1>1, <1>4, <2>1 DEF InBody, Place
  <1>7. Plain(inst.val) /\ (inst.op = "ARG" => inst.key \notin DOMAIN ARG_DEFAULTS)
    BY <1>1, <1>4, <1>5, <1>6 DEF NoLeaks, Place
  <1>8. Cold(file, cli)[n + 1 - 1] = ColdStep(cli, c, inst)
    BY <1>1, <1>4, <1>5, ColdNext DEF Place
  <1>9. c.alias # None
    BY <1>1, <1>4 DEF Linked
  <1>10. Cold(file, cli)[n + 1 - 1] = ColdInst(c, inst)
    BY <1>1, <1>8, <1>9 DEF ColdStep
  <1> QED
    BY <1>1, <1>2, <1>3, <1>4, <1>5, <1>7, <1>10

LEMMA InvHit ==
  ASSUME NoLeaks, Blind, IInv, Hit
  PROVE  IInv'
  <1> DEFINE c == Cold(file, cli)[n - 1]
             d == Spent(inst, build_arg)
  <1>1. InStage /\ Found /\ Consume
    BY DEF Hit
  <1>2. /\ running /\ BuildInv /\ Store(cache) /\ tag = << >>
        /\ Plain(inst.val) /\ (inst.op = "ARG" => inst.key \notin DOMAIN ARG_DEFAULTS)
        /\ alias # None /\ Place(file, alias, n + 1) /\ n \in Nat
        /\ Linked(c, cache, build_arg, argfrom, images, alias, sid, metadata)
        /\ Cold(file, cli)[n + 1 - 1] = ColdInst(c, inst)
    BY <1>1, StageInst
  <1>3. NewSid = Append(sid, sid_input(inst, metadata, build_arg)) /\ NewSid \in DOMAIN cache
    BY <1>1 DEF NewSid, Found
  <1>4. ~cli.rebuild
    BY <1>1 DEF Found
  <1>5. miss_ct = 0
    BY <1>2, <1>3, <1>4 DEF BuildInv, Worktree
  <1>6. /\ build_arg' = d /\ sid' = NewSid /\ n' = n + 1 /\ file' = file /\ cli' = cli
        /\ argfrom' = argfrom /\ images' = images /\ alias' = alias /\ tag' = tag
        /\ metadata' = prepare(inst, metadata, build_arg)
        /\ cache' = cache /\ miss_ct' = miss_ct
    BY DEF Hit, Consume, inputs, Spent
  <1>7. running'
    BY <1>1, <1>2 DEF Consume
  <1> HIDE DEF c
  <1>8. Linked(ColdInst(c, inst), cache, d, argfrom, images, alias, NewSid,
               prepare(inst, metadata, build_arg))
    BY <1>2, <1>3, HitLinked
  <1> HIDE DEF d
  <1>9. BuildInv'
    <2>1. Linked(Cold(file, cli)[n - 1], cache, build_arg, argfrom, images, alias, sid, metadata)'
      <3> DEFINE e == ColdInst(c, inst)
      <3>1. Cold(file', cli')[n' - 1] = e
        BY <1>2, <1>6, <1>8
      <3> HIDE DEF e
      <3>2. Linked(e, cache', build_arg', argfrom', images', alias', sid', metadata')
        BY <1>2, <1>6, <1>8 DEF e
      <3> QED
        BY <3>1, <3>2
    <2>2. Place(file, alias, n)' /\ (cli.host \in HostEnvs)' /\ (miss_ct = 0)'
      BY <1>2, <1>5, <1>6 DEF BuildInv
    <2> QED
      BY <1>7, <2>1, <2>2 DEF BuildInv
  <1> QED
    BY <1>2, <1>6, <1>7, <1>9 DEF IInv
LEMMA InvMiss ==
  ASSUME NoLeaks, Blind, IInv, Miss
  PROVE  IInv'
  <1> DEFINE c == Cold(file, cli)[n - 1]
             d == Spent(inst, build_arg)
             p == prepare(inst, metadata, build_arg)
             h == Append(p.history, inst.op)
  <1>1. InStage /\ ~Found /\ Consume
    BY DEF Miss
  <1>2. /\ running /\ BuildInv /\ Store(cache) /\ tag = << >>
        /\ Plain(inst.val) /\ (inst.op = "ARG" => inst.key \notin DOMAIN ARG_DEFAULTS)
        /\ alias # None /\ Place(file, alias, n + 1) /\ n \in Nat
        /\ Linked(c, cache, build_arg, argfrom, images, alias, sid, metadata)
        /\ Cold(file, cli)[n + 1 - 1] = ColdInst(c, inst)
    BY <1>1, StageInst
  <1>3. NewSid = Append(sid, sid_input(inst, metadata, build_arg))
    BY DEF NewSid
  <1>4. ~cli.rebuild => NewSid \notin DOMAIN cache
    BY <1>1 DEF Found
  <1>5. /\ build_arg' = d /\ sid' = NewSid /\ n' = n + 1 /\ file' = file /\ cli' = cli
        /\ argfrom' = argfrom /\ images' = images /\ alias' = alias /\ tag' = tag
        /\ metadata' = Noted(p, h)
        /\ files' = execute(inst, p, Operand(inst, metadata, build_arg), Checkout)
        /\ cache' = With(cache, NewSid, Commit(Saved(metadata'), files'))
        /\ miss_ct' = miss_ct + 1
    BY DEF Miss, Consume, inputs, Noted, Commit, Spent
  <1>6. running'
    BY <1>1, <1>2 DEF Consume
  <1>7. miss_ct \in Nat /\ cli.host \in HostEnvs
    BY <1>2 DEF BuildInv
  <1>8. Checkout = cache[sid].files
    BY <1>2, <1>7 DEF Checkout, BuildInv, Worktree
  <1>9. sid \in DOMAIN cache
    BY <1>2 DEF Linked, Stage
  <1> HIDE DEF c, h
  <1>10. /\ Store(cache') /\ DOMAIN cache' = DOMAIN cache \cup {NewSid}
         /\ cache'[NewSid].files = files'
         /\ Linked(ColdInst(c, inst), cache', d, argfrom, images, alias, NewSid, metadata')
    <2> DEFINE fs == cache[sid].files
               md == metadata'
    <2>1. files' = execute(inst, p, Operand(inst, metadata, build_arg), fs)
      BY <1>5, <1>8
    <2>2. /\ Added(cache, cache', NewSid, Saved(md), files')
          /\ Linked(ColdInst(c, inst), cache', d, argfrom, images, alias, NewSid, md)
      <3>1. /\ metadata' = Noted(prepare(inst, metadata, build_arg), h)
            /\ files' = execute(inst, prepare(inst, metadata, build_arg),
                                Operand(inst, metadata, build_arg), cache[sid].files)
            /\ cache' = With(cache, NewSid, Commit(Saved(metadata'), files'))
        BY <1>5, <2>1
      <3> HIDE DEF p, fs
      <3> QED
        BY <1>2, <1>3, <3>1, MissLinked
    <2> QED
      BY <2>2 DEF Added
  <1> HIDE DEF d, p
  <1>11. ASSUME ~cli.rebuild PROVE \A y : Append(NewSid, y) \notin DOMAIN cache'
    BY <1>2, <1>3, <1>4, <1>9, <1>10, <1>11, NothingBelow
  <1>12. BuildInv'
    <2>1. Linked(Cold(file, cli)[n - 1], cache, build_arg, argfrom, images, alias, sid, metadata)'
      <3> DEFINE e == ColdInst(c, inst)
      <3>1. Cold(file', cli')[n' - 1] = e
        BY <1>2, <1>5, <1>10
      <3> HIDE DEF e
      <3>2. Linked(e, cache', build_arg', argfrom', images', alias', sid', metadata')
        BY <1>2, <1>5, <1>10 DEF e
      <3> QED
        BY <3>1, <3>2
    <2>2. Place(file, alias, n)' /\ (cli.host \in HostEnvs)' /\ (miss_ct \in Nat)'
      BY <1>2, <1>5, <1>7
    <2>3. Worktree(cache, sid, files, cli)'
      BY <1>5, <1>10, <1>11 DEF Worktree
    <2> QED
      BY <1>6, <2>1, <2>2, <2>3 DEF BuildInv
  <1> QED
    BY <1>2, <1>5, <1>6, <1>10, <1>12 DEF IInv

LEMMA InvFatal ==
  ASSUME IInv, running, Fatal
  PROVE  IInv'
  <1>1. tag' = << >> /\ cache' = cache
    BY DEF Fatal, IInv
  <1>2. ~running'
    BY DEF Fatal
  <1> QED
    BY <1>1, <1>2 DEF IInv, Live

LEMMA InvFinish ==
  ASSUME IInv, Finish
  PROVE  IInv'
  <1>1. running /\ n > Len(file)
    BY DEF Finish
  <1>2. BuildInv
    BY <1>1 DEF IInv, Live
  <1>3. n = Len(file) + 1
    BY <1>1, <1>2, FilesAssumption DEF BuildInv, Place
  <1>4. ~running'
    BY DEF Finish
  <1>5. /\ cache' = cache /\ file' = file /\ cli' = cli /\ build_arg' = build_arg
        /\ argfrom' = argfrom /\ images' = images /\ alias' = alias /\ n' = n /\ sid' = sid
        /\ metadata' = metadata /\ files' = files /\ miss_ct' = miss_ct /\ tag' = sid
    BY DEF Finish, inputs
  <1>6. BuildInv'
    BY <1>2, <1>3, <1>5 DEF BuildInv
  <1> QED
    BY <1>4, <1>5, <1>6 DEF IInv

LEMMA InvNext ==
  ASSUME NoLeaks, Blind, IInv, [Next]_vars
  PROVE  IInv'
  <1>1. CASE \E f \in Files, b \in BuildArgs, h \in HostEnvs, r \in BOOLEAN : Start(f, b, h, r)
    BY <1>1, InvStart
  <1>2. CASE Arg_First
    BY <1>2, InvArg
  <1>3. CASE From
    BY <1>3, InvFrom
  <1>4. CASE FromFatal \/ RunFatal
    BY <1>4, InvFatal DEF FromFatal, RunFatal, InStage, Building
  <1>5. CASE Hit
    BY <1>5, InvHit
  <1>6. CASE Miss
    BY <1>6, InvMiss
  <1>7. CASE Finish
    BY <1>7, InvFinish
  <1>8. CASE UNCHANGED vars
    <2>1. /\ cache' = cache /\ file' = file /\ cli' = cli /\ build_arg' = build_arg
          /\ argfrom' = argfrom /\ images' = images /\ alias' = alias /\ n' = n /\ sid' = sid
          /\ metadata' = metadata /\ files' = files /\ miss_ct' = miss_ct /\ tag' = tag
          /\ running' = running
      BY <1>8 DEF vars, inputs
    <2> QED
      BY <2>1 DEF IInv, Live, BuildInv
  <1> QED
    BY <1>1, <1>2, <1>3, <1>4, <1>5, <1>6, <1>7, <1>8 DEF Next, Step

\* Metadata that are alike have the same essence.
LEMMA AlikeEssence ==
  ASSUME NEW m, NEW w, Alike(m, w, Hidden)
  PROVE  Essence(m) = Essence(w)
  <1> DEFINE a == Minus(m.arg, Hidden)
             b == Minus(w.arg, Hidden)
  <1>1. a = b
    BY DEF Alike, Same, Minus
  <1>2. m.env = w.env /\ m.cwd = w.cwd /\ m.shell = w.shell /\ m.labels = w.labels
    BY DEF Alike
  <1> QED
    BY <1>1, <1>2 DEF Essence, Hidden

LEMMA InvTransparent == IInv => CacheTransparent
  <1> SUFFICES ASSUME IInv, tag # << >>
               PROVE  /\ cache[tag].files = Cold(file, cli)[Len(file)].files
                      /\ Essence(cache[tag].metadata) = Essence(Cold(file, cli)[Len(file)].m)
    BY DEF CacheTransparent
  <1>1. BuildInv
    BY DEF IInv, Live
  <1>2. n = Len(file) + 1 /\ tag = sid
    BY <1>1 DEF IInv, BuildInv
  <1>3. n - 1 = Len(file)
    BY <1>1, <1>2, FilesAssumption DEF BuildInv, Place
  <1> DEFINE c == Cold(file, cli)[Len(file)]
  <1>4. Linked(c, cache, build_arg, argfrom, images, alias, sid, metadata)
    BY <1>1, <1>3 DEF BuildInv
  <1>5. Stage(cache, sid, metadata, c)
    BY <1>2, <1>4 DEF Linked
  <1>6. Alike(cache[sid].metadata, c.m, Hidden)
    BY <1>5, AlikeMore, AlikeBack, AlikeTrans DEF Stage
  <1> QED
    BY <1>2, <1>5, <1>6, AlikeEssence DEF Stage

(***************************************************************************)
(* An image has the files and metadata that its instructions make without  *)
(* a cache, for any Dockerfiles, --build-arg, --rebuild, environments and  *)
(* base images, after any number of builds, failed or not, with any other  *)
(* arguments, as long as no command of a stage depends on a variable that  *)
(* is set before FROM and no ARG sets a variable that FROM sets back: what *)
(* find_sid finds under a state ID is what Instruction.execute would make. *)
(***************************************************************************)
THEOREM CacheIsTransparent ==
  ASSUME NoLeaks, Blind
  PROVE  Spec => []CacheTransparent
  <1>1. Init => IInv
    BY InvInit
  <1>2. IInv /\ [Next]_vars => IInv'
    BY InvNext
  <1>3. IInv => CacheTransparent
    BY InvTransparent
  <1> QED
    BY <1>1, <1>2, <1>3, PTL DEF Spec
=============================================================================
