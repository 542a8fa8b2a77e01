--------------------------- MODULE RegistryProofs ---------------------------
(***************************************************************************)
(* Proofs about Registry, for any number of layers, any registries and any *)
(* number of commands and faults.                                          *)
(***************************************************************************)
EXTENDS Registry, SequenceTheorems, FiniteSetTheorems, WellFoundedInduction, TLAPS

Active == at \in {"send", "reply"}

-----------------------------------------------------------------------------
(* The script of a push *)

Op == {"base", "prepare", "exists", "post", "put", "verify", "manifest",
       "fatman", "get", "new"}
Request == [op : Op, b : Layers \cup ({"config"} \X Nat)]
R(op, b) == [op |-> op, b |-> b]

\* Uploads come in fours, and the manifest comes last.
ShapeAt(s, i) ==
    /\ s[i].op = "exists" =>
         /\ i + 3 \in DOMAIN s /\ s[i + 1] = R("post", s[i].b)
         /\ s[i + 2] = R("put", s[i].b) /\ s[i + 3] = R("verify", s[i].b)
    /\ s[i].op = "put" => i + 1 \in DOMAIN s /\ s[i + 1] = R("verify", s[i].b)
    /\ i > 1 /\ s[i].op = "put" => s[i - 1].op = "post"
    /\ i > 1 /\ s[i].op = "verify" => s[i - 1] = R("put", s[i].b)
    /\ s[i].op = "manifest" => i = Len(s)
    /\ s[i].op \in {"new", "prepare"} => i < Len(s)

Shape(s) == \A i \in DOMAIN s : ShapeAt(s, i)

LEMMA UploadFacts ==
  ASSUME NEW b
  PROVE  /\ Upload(b)[1] = R("exists", b) /\ Upload(b)[2] = R("post", b)
         /\ Upload(b)[3] = R("put", b) /\ Upload(b)[4] = R("verify", b)
  BY DEF Upload, R

\* Request number r for layer n, or for the config.
LEMMA UploadAllFacts ==
  /\ UploadAll \in Seq(Request) /\ Len(UploadAll) = 4 * LayerCount
  /\ \A n \in 1 .. LayerCount, r \in 1 .. 4 :
       UploadAll[4 * (n - 1) + r] = Upload(<<"layer", n>>)[r]
  <1> USE RegistryAssumption
  <1>1. \A j \in 1 .. 4 * LayerCount :
          (j + 3) \div 4 \in 1 .. LayerCount /\ ((j - 1) % 4) + 1 \in 1 .. 4
    OBVIOUS
  <1>2. \A n \in 1 .. LayerCount, r \in 1 .. 4 : Upload(<<"layer", n>>)[r] \in Request
    <2> TAKE n \in 1 .. LayerCount, r \in 1 .. 4
    <2>1. <<"layer", n>> \in Layers
      BY DEF Layers
    <2> DEFINE b == <<"layer", n>>
    <2> HIDE DEF b
    <2>2. b \in Layers => \A o \in {"exists", "post", "put", "verify"} : R(o, b) \in Request
      BY DEF R, Request, Op
    <2>3. Upload(b)[r] \in {R(o, b) : o \in {"exists", "post", "put", "verify"}}
      BY UploadFacts
    <2> QED
      BY <2>1, <2>2, <2>3 DEF b
  <1>3. \A j \in 1 .. 4 * LayerCount : UploadAll[j] \in Request
    BY <1>1, <1>2 DEF UploadAll
  <1>4. UploadAll \in Seq(Request) /\ Len(UploadAll) = 4 * LayerCount
    BY <1>3, IsASeq DEF UploadAll
  <1>5. \A n \in 1 .. LayerCount, r \in 1 .. 4 :
          /\ 4 * (n - 1) + r \in 1 .. 4 * LayerCount
          /\ (4 * (n - 1) + r + 3) \div 4 = n
          /\ ((4 * (n - 1) + r - 1) % 4) + 1 = r
    <2> TAKE n \in 1 .. LayerCount, r \in 1 .. 4
    <2>1. 4 * (n - 1) + r \in 1 .. 4 * LayerCount
      OBVIOUS
    <2>2. (4 * (n - 1) + r + 3) \div 4 = n
      OBVIOUS
    <2>3. ((4 * (n - 1) + r - 1) % 4) + 1 = r
      OBVIOUS
    <2> QED
      BY <2>1, <2>2, <2>3
  <1>6. \A n \in 1 .. LayerCount, r \in 1 .. 4 :
          UploadAll[4 * (n - 1) + r] = Upload(<<"layer", n>>)[r]
    <2> TAKE n \in 1 .. LayerCount, r \in 1 .. 4
    <2> DEFINE j == 4 * (n - 1) + r
    <2>1. j \in 1 .. 4 * LayerCount /\ (j + 3) \div 4 = n /\ ((j - 1) % 4) + 1 = r
      BY <1>5
    <2> HIDE DEF j
    <2>2. UploadAll[j] = Upload(<<"layer", (j + 3) \div 4>>)[((j - 1) % 4) + 1]
      BY <2>1 DEF UploadAll
    <2>3. UploadAll[j] = Upload(<<"layer", n>>)[r]
      BY <2>1, <2>2
    <2> QED
      BY <2>3 DEF j
  <1> QED
    BY <1>4, <1>6

LEMMA PushScript ==
  ASSUME NEW k \in Nat
  PROVE  /\ PushRequests(k) \in Seq(Request) /\ PushRequests(k) # << >>
         /\ Shape(PushRequests(k))
         /\ \A b \in Blobs(k) : \E i \in DOMAIN PushRequests(k) :
              PushRequests(k)[i] = R("verify", b)
         /\ PushRequests(k)[1].op = "base"
         /\ \A i \in DOMAIN PushRequests(k) : PushRequests(k)[i].op \notin {"fatman", "get"}
         /\ PushRequests(k)[2].op = "prepare" /\ 2 \in DOMAIN PushRequests(k)
  <1> DEFINE L == LayerCount
             B(n) == IF n <= L THEN <<"layer", n>> ELSE Config(k)
             s == PushRequests(k)
             head == <<Req("base"), Req("prepare")>>
             up == Upload(Config(k))
  <1>0. L \in Nat \ {0}
    BY RegistryAssumption
  <1>1. /\ Req("base") \in Request /\ Req("prepare") \in Request /\ Req("manifest") \in Request
        /\ Req("base").op = "base" /\ Req("prepare").op = "prepare"
        /\ Req("manifest").op = "manifest"
    <2>1. <<"layer", 1>> \in Layers
      BY <1>0 DEF Layers
    <2> DEFINE x == <<"layer", 1>>
    <2> HIDE DEF x
    <2>2. x \in Layers => \A o \in Op : [op |-> o, b |-> x] \in Request
      BY DEF Request
    <2> QED
      BY <2>1, <2>2 DEF Req, x, Op
  <1>2. up \in Seq(Request) /\ Len(up) = 4
    <2>1. Config(k) \in {"config"} \X Nat
      BY DEF Config
    <2> DEFINE x == Config(k)
    <2> HIDE DEF x
    <2>2. x \in {"config"} \X Nat => \A o \in Op : [op |-> o, b |-> x] \in Request
      BY DEF Request
    <2> QED
      BY <2>1, <2>2 DEF Upload, x, Op
  <1>3. head \in Seq(Request) /\ Len(head) = 2 /\ head[1] = Req("base") /\ head[2] = Req("prepare")
    BY <1>1
  <1>4. <<Req("manifest")>> \in Seq(Request) /\ Len(<<Req("manifest")>>) = 1
        /\ <<Req("manifest")>>[1] = Req("manifest")
    BY <1>1
  <1> DEFINE last == <<Req("manifest")>>
  <1>5. s = ((head \o UploadAll) \o up) \o last
    BY DEF PushRequests
  <1> HIDE DEF s, head, up, last
  <1> DEFINE m == 4 * L
             s2 == head \o UploadAll
             s3 == s2 \o up
  <1>a. m \in Nat /\ m + 2 \in Nat /\ m + 6 \in Nat /\ UploadAll \in Seq(Request) /\ Len(UploadAll) = m
    BY <1>0, UploadAllFacts
  <1>b. s2 = head \o UploadAll /\ s3 = s2 \o up /\ s = s3 \o last
    BY <1>5
  <1> HIDE DEF m, s2, s3
  <1>6. /\ s2 \in Seq(Request) /\ Len(s2) = m + 2
        /\ \A i \in 1 .. m + 2 : s2[i] = IF i <= 2 THEN head[i] ELSE UploadAll[i - 2]
    <2>1. /\ s2 \in Seq(Request) /\ Len(s2) = 2 + m
          /\ \A i \in 1 .. 2 + m : s2[i] = IF i <= 2 THEN head[i] ELSE UploadAll[i - 2]
      <3>1. /\ s2 \in Seq(Request) /\ Len(s2) = Len(head) + Len(UploadAll)
            /\ \A i \in 1 .. Len(head) + Len(UploadAll) :
                 s2[i] = IF i <= Len(head) THEN head[i] ELSE UploadAll[i - Len(head)]
        BY <1>3, <1>a, ConcatProperties DEF s2
      <3> QED
        BY <1>3, <1>a, <3>1
    <2> QED
      BY <1>a, <2>1
  <1>7. /\ s3 \in Seq(Request) /\ Len(s3) = m + 6
        /\ \A i \in 1 .. m + 6 : s3[i] = IF i <= m + 2 THEN s2[i] ELSE up[i - (m + 2)]
    <2>1. /\ s3 \in Seq(Request) /\ Len(s3) = (m + 2) + 4
          /\ \A i \in 1 .. (m + 2) + 4 : s3[i] = IF i <= m + 2 THEN s2[i] ELSE up[i - (m + 2)]
      <3>1. /\ s3 \in Seq(Request) /\ Len(s3) = Len(s2) + Len(up)
            /\ \A i \in 1 .. Len(s2) + Len(up) :
                 s3[i] = IF i <= Len(s2) THEN s2[i] ELSE up[i - Len(s2)]
        BY <1>2, <1>6, ConcatProperties DEF s3
      <3> QED
        BY <1>2, <1>6, <1>a, <3>1
    <2> QED
      BY <1>a, <2>1
  <1>8. /\ s \in Seq(Request) /\ Len(s) = m + 7
        /\ \A i \in 1 .. m + 7 : s[i] = IF i <= m + 6 THEN s3[i] ELSE last[i - (m + 6)]
    <2>1. /\ s \in Seq(Request) /\ Len(s) = (m + 6) + 1
          /\ \A i \in 1 .. (m + 6) + 1 : s[i] = IF i <= m + 6 THEN s3[i] ELSE last[i - (m + 6)]
      <3>1. /\ s \in Seq(Request) /\ Len(s) = Len(s3) + Len(last)
            /\ \A i \in 1 .. Len(s3) + Len(last) :
                 s[i] = IF i <= Len(s3) THEN s3[i] ELSE last[i - Len(s3)]
        <4>1. last \in Seq(Request)
          BY <1>4 DEF last
        <4>2. /\ s3 \o last \in Seq(Request) /\ Len(s3 \o last) = Len(s3) + Len(last)
              /\ \A i \in 1 .. Len(s3) + Len(last) :
                   (s3 \o last)[i] = IF i <= Len(s3) THEN s3[i] ELSE last[i - Len(s3)]
          BY <1>7, <4>1, ConcatProperties
        <4> QED
          BY <1>b, <4>2
      <3>2. Len(last) = 1
        BY <1>4 DEF last
      <3> QED
        BY <1>7, <1>a, <3>1, <3>2
    <2> QED
      BY <1>a, <2>1
  <1>9. s[1] = Req("base") /\ s[2] = Req("prepare") /\ s[m + 7] = Req("manifest")
    BY <1>3, <1>4, <1>6, <1>7, <1>8, <1>a DEF last
  <1>10. \A n \in 1 .. L + 1, r \in 1 .. 4 :
           /\ 4 * (n - 1) + 2 + r \in 3 .. m + 6
           /\ s[4 * (n - 1) + 2 + r] = Upload(B(n))[r]
    <2> TAKE n \in 1 .. L + 1, r \in 1 .. 4
    <2> DEFINE i == 4 * (n - 1) + 2 + r
    <2>1. i \in 3 .. m + 6
      BY <1>0 DEF m
    <2>2. CASE n <= L
      <3>1. i <= m + 2 /\ i - 2 = 4 * (n - 1) + r
        BY <1>0, <2>2 DEF m
      <3>2. UploadAll[i - 2] = Upload(<<"layer", n>>)[r]
        BY <2>2, <3>1, <1>0, UploadAllFacts
      <3> HIDE DEF i
      <3>3. s[i] = UploadAll[i - 2]
        <4>1. i \in 1 .. m + 2 /\ i \in 1 .. m + 6 /\ i \in 1 .. m + 7 /\ ~(i <= 2) /\ i <= m + 6
          BY <1>a, <2>1, <3>1
        <4>2. s2[i] = UploadAll[i - 2] /\ s3[i] = s2[i] /\ s[i] = s3[i]
          BY <3>1, <4>1, <1>6, <1>7, <1>8
        <4> QED
          BY <4>2
      <3> QED
        BY <2>1, <2>2, <3>2, <3>3 DEF i
    <2>3. CASE n = L + 1
      <3>1. i > m + 2 /\ i - (m + 2) = r
        BY <1>0, <2>3 DEF m
      <3>2. B(n) = Config(k)
        BY <1>0, <2>3
      <3> HIDE DEF i
      <3>3. s[i] = up[r]
        BY <1>a, <2>1, <3>1, <1>7, <1>8
      <3> QED
        BY <2>1, <3>2, <3>3 DEF up, i
    <2> QED
      BY <1>0, <2>2, <2>3
  <1>11. ASSUME NEW i \in 1 .. m + 7, i > 2, i < m + 7
         PROVE  \E n \in 1 .. L + 1, r \in 1 .. 4 : i = 4 * (n - 1) + 2 + r
    <2> DEFINE n == (i + 1) \div 4
               r == ((i - 3) % 4) + 1
    <2>1. n \in 1 .. L + 1 /\ r \in 1 .. 4 /\ i = 4 * (n - 1) + 2 + r
      BY <1>0, <1>11 DEF m
    <2> QED
      BY <2>1
  <1>12. DOMAIN s = 1 .. m + 7 /\ s # << >> /\ 2 \in DOMAIN s
    BY <1>a, <1>8
  <1>13. ASSUME NEW b \in Blobs(k) PROVE \E i \in DOMAIN s : s[i] = R("verify", b)
    <2>1. PICK n \in 1 .. L + 1 : b = B(n)
      <3>1. CASE b = Config(k)
        BY <1>0, <3>1
      <3>2. CASE b \in Layers
        <4>1. PICK n \in 1 .. L : b = <<"layer", n>>
          BY <3>2 DEF Layers
        <4>2. n \in 1 .. L + 1 /\ b = B(n)
          BY <1>0, <4>1
        <4> QED
          BY <4>2
      <3> QED
        BY <3>1, <3>2 DEF Blobs
    <2> HIDE DEF B
    <2> DEFINE i == 4 * (n - 1) + 2 + 4
    <2>2. i \in 3 .. m + 6 /\ s[i] = Upload(B(n))[4]
      BY <1>10
    <2> HIDE DEF i
    <2>3. i \in DOMAIN s /\ s[i] = R("verify", b)
      BY <1>a, <1>12, <2>1, <2>2, UploadFacts
    <2> QED
      BY <2>3
  <1> HIDE DEF B
  <1>14. ASSUME NEW i \in 3 .. m + 6
         PROVE  /\ s[i].op \notin {"fatman", "get", "manifest"}
                /\ s[i].op = "exists" =>
                     /\ i + 3 \in DOMAIN s /\ s[i + 1] = R("post", s[i].b)
                     /\ s[i + 2] = R("put", s[i].b) /\ s[i + 3] = R("verify", s[i].b)
                /\ s[i].op = "put" => i + 1 \in DOMAIN s /\ s[i + 1] = R("verify", s[i].b)
                /\ i > 1 /\ s[i].op = "put" => s[i - 1].op = "post"
                /\ i > 1 /\ s[i].op = "verify" => s[i - 1] = R("put", s[i].b)
                /\ i < Len(s)
    <2>1. PICK n \in 1 .. L + 1, r \in 1 .. 4 : i = 4 * (n - 1) + 2 + r
      <3>1. i \in 1 .. m + 7 /\ i > 2 /\ i < m + 7
        BY <1>a
      <3> QED
        BY <3>1, <1>11
    <2> DEFINE f == 4 * (n - 1) + 2
    <2>2. f \in Nat /\ i = f + r
      BY <1>0, <2>1
    <2>3. \A x \in 1 .. 4 : f + x \in 3 .. m + 6 /\ s[f + x] = Upload(B(n))[x]
      BY <1>10
    <2> HIDE DEF f
    <2>4. /\ s[f + 1] = R("exists", B(n)) /\ s[f + 2] = R("post", B(n))
          /\ s[f + 3] = R("put", B(n)) /\ s[f + 4] = R("verify", B(n))
      BY <2>3, UploadFacts
    <2>5. \A o : R(o, B(n)).op = o /\ R(o, B(n)).b = B(n)
      BY DEF R
    <2>6. f + 4 \in DOMAIN s /\ i < Len(s)
      BY <1>a, <1>8, <1>12, <2>3
    <2>7. CASE r = 1
      BY <2>2, <2>4, <2>5, <2>6, <2>7
    <2>8. CASE r = 2
      BY <2>2, <2>4, <2>5, <2>6, <2>8
    <2>9. CASE r = 3
      BY <2>2, <2>4, <2>5, <2>6, <2>9
    <2>10. CASE r = 4
      BY <2>2, <2>4, <2>5, <2>6, <2>10
    <2> QED
      BY <2>7, <2>8, <2>9, <2>10
  <1>15. s[1].op = "base" /\ s[2].op = "prepare" /\ s[m + 7].op = "manifest"
    BY <1>1, <1>9
  <1>16. \A i \in DOMAIN s : i \in {1, 2, m + 7} \/ i \in 3 .. m + 6
    BY <1>a, <1>12
  <1>17. Shape(s)
    BY <1>8, <1>a, <1>14, <1>15, <1>16 DEF Shape, ShapeAt
  <1>18. \A i \in DOMAIN s : s[i].op \notin {"fatman", "get"}
    BY <1>14, <1>15, <1>16
  <1> QED
    BY <1>8, <1>12, <1>13, <1>15, <1>17, <1>18 DEF s

\* What is left of a script has the same shape.
LEMMA RestShape ==
  ASSUME NEW s \in Seq(Request), Shape(s), NEW n \in Nat, n <= Len(s),
         NEW t \in Seq(Request), Len(t) = Len(s) - n,
         \A i \in 1 .. Len(t) : t[i] = s[i + n]
  PROVE  Shape(t)
  <1> SUFFICES ASSUME NEW i \in 1 .. Len(t) PROVE ShapeAt(t, i)
    BY DEF Shape
  <1> DEFINE j == i + n
  <1>1. j \in DOMAIN s /\ j \in Nat /\ t[i] = s[j]
    OBVIOUS
  <1>3. \A x \in {1, 2, 3} : i + x \in 1 .. Len(t) => t[i + x] = s[j + x]
    <2> TAKE x \in {1, 2, 3}
    <2>1. j + x = (i + x) + n
      OBVIOUS
    <2> QED
      BY <2>1
  <1>4. i > 1 => t[i - 1] = s[j - 1]
    <2>1. j - 1 = (i - 1) + n /\ (i > 1 => i - 1 \in 1 .. Len(t))
      OBVIOUS
    <2> QED
      BY <2>1
  <1>5. \A x \in {1, 3} : j + x \in 1 .. Len(s) => i + x \in 1 .. Len(t)
    OBVIOUS
  <1>6. (i > 1 => j > 1) /\ (j = Len(s) => i = Len(t)) /\ (j < Len(s) => i < Len(t))
    OBVIOUS
  <1>7. i + 3 \in 1 .. Len(t) => i + 2 \in 1 .. Len(t) /\ i + 1 \in 1 .. Len(t)
    OBVIOUS
  <1>8. i \in Nat /\ Len(t) \in Nat
    OBVIOUS
  <1> HIDE DEF j
  <1>2. /\ s[j].op = "exists" =>
             /\ j + 3 \in 1 .. Len(s) /\ s[j + 1] = R("post", s[j].b)
             /\ s[j + 2] = R("put", s[j].b) /\ s[j + 3] = R("verify", s[j].b)
        /\ s[j].op = "put" => j + 1 \in 1 .. Len(s) /\ s[j + 1] = R("verify", s[j].b)
        /\ j > 1 /\ s[j].op = "put" => s[j - 1].op = "post"
        /\ j > 1 /\ s[j].op = "verify" => s[j - 1] = R("put", s[j].b)
        /\ s[j].op = "manifest" => j = Len(s)
        /\ s[j].op \in {"new", "prepare"} => j < Len(s)
    <2>1. j \in DOMAIN s /\ DOMAIN s = 1 .. Len(s) /\ ShapeAt(s, j)
      BY <1>1 DEF Shape
    <2> QED
      BY <2>1 DEF ShapeAt
  <1>9. ASSUME t[i].op = "exists"
        PROVE  /\ i + 3 \in 1 .. Len(t) /\ t[i + 1] = R("post", t[i].b)
               /\ t[i + 2] = R("put", t[i].b) /\ t[i + 3] = R("verify", t[i].b)
    <2>1. i + 3 \in 1 .. Len(t) /\ i + 2 \in 1 .. Len(t) /\ i + 1 \in 1 .. Len(t)
      BY <1>1, <1>2, <1>5, <1>7, <1>9
    <2>2. t[i + 1] = s[j + 1] /\ t[i + 2] = s[j + 2] /\ t[i + 3] = s[j + 3]
      BY <2>1, <1>3
    <2> QED
      BY <1>1, <1>2, <1>9, <2>1, <2>2
  <1>10. ASSUME t[i].op = "put" PROVE i + 1 \in 1 .. Len(t) /\ t[i + 1] = R("verify", t[i].b)
    <2>1. i + 1 \in 1 .. Len(t)
      BY <1>1, <1>2, <1>5, <1>10
    <2>2. t[i + 1] = s[j + 1]
      BY <2>1, <1>3
    <2> QED
      BY <1>1, <1>2, <1>10, <2>1, <2>2
  <1>11. ASSUME i > 1, t[i].op = "put" PROVE t[i - 1].op = "post"
    BY <1>1, <1>2, <1>4, <1>6, <1>11
  <1>12. ASSUME i > 1, t[i].op = "verify" PROVE t[i - 1] = R("put", t[i].b)
    BY <1>1, <1>2, <1>4, <1>6, <1>12
  <1>13. ASSUME t[i].op = "manifest" PROVE i = Len(t)
    BY <1>1, <1>2, <1>6, <1>13
  <1>14. ASSUME t[i].op \in {"new", "prepare"} PROVE i < Len(t)
    BY <1>1, <1>2, <1>6, <1>14
  <1> QED
    BY <1>8, <1>9, <1>10, <1>11, <1>12, <1>13, <1>14 DEF ShapeAt

LEMMA TailShape ==
  ASSUME NEW s \in Seq(Request), Shape(s), s # << >>
  PROVE  /\ Tail(s) \in Seq(Request) /\ Shape(Tail(s)) /\ Len(Tail(s)) = Len(s) - 1
         /\ \A i \in 1 .. Len(Tail(s)) : Tail(s)[i] = s[i + 1]
         /\ Head(s) = s[1] /\ 1 \in DOMAIN s /\ Len(s) \in Nat
  <1>1. /\ Tail(s) \in Seq(Request) /\ Len(Tail(s)) = Len(s) - 1
        /\ \A i \in 1 .. Len(Tail(s)) : Tail(s)[i] = s[i + 1]
        /\ 1 <= Len(s) /\ Head(s) = s[1] /\ 1 \in DOMAIN s /\ Len(s) \in Nat
    BY HeadTailProperties, LenProperties
  <1> QED
    BY <1>1, RestShape

LEMMA SkipShape ==
  ASSUME NEW s \in Seq(Request), Shape(s), s # << >>, Head(s).op = "exists"
  PROVE  LET t == SubSeq(s, 5, Len(s)) IN
         /\ t \in Seq(Request) /\ Shape(t) /\ Len(t) = Len(s) - 4
         /\ \A i \in 1 .. Len(t) : t[i] = s[i + 4]
         /\ 4 \in DOMAIN s /\ s[1].b = Head(s).b /\ s[2] = R("post", s[1].b)
         /\ s[3] = R("put", s[1].b) /\ s[4] = R("verify", s[1].b)
  <1> DEFINE t == SubSeq(s, 5, Len(s))
  <1>1. /\ Head(s) = s[1] /\ 1 \in DOMAIN s /\ Len(s) \in Nat
    BY TailShape
  <1>2. 1 + 3 \in DOMAIN s /\ s[1 + 1] = R("post", s[1].b) /\ s[1 + 2] = R("put", s[1].b)
        /\ s[1 + 3] = R("verify", s[1].b)
    BY <1>1 DEF Shape, ShapeAt
  <1>3. Len(s) >= 4
    BY <1>1, <1>2
  <1>4. /\ t \in Seq(Request) /\ Len(t) = Len(s) - 4
        /\ \A i \in 1 .. Len(t) : t[i] = s[i + 4]
    <2>1. \A i \in 5 .. Len(s) : s[i] \in Request
      BY <1>1
    <2>2. /\ t \in Seq(Request) /\ Len(t) = IF 5 <= Len(s) THEN Len(s) - 5 + 1 ELSE 0
          /\ \A i \in 1 .. Len(s) - 5 + 1 : t[i] = s[5 + i - 1]
      BY <1>1, <1>3, <2>1, SubSeqProperties
    <2> HIDE DEF t
    <2>3. Len(t) = Len(s) - 4
      <3>1. CASE 5 <= Len(s)
        BY <1>1, <2>2, <3>1
      <3>2. CASE Len(s) = 4
        BY <2>2, <3>2
      <3>3. 5 <= Len(s) \/ Len(s) = 4
        <4>1. \A n \in Nat : n >= 4 => 5 <= n \/ n = 4
          OBVIOUS
        <4> QED
          BY ONLY <1>1, <1>3, <4>1
      <3> QED
        BY <3>1, <3>2, <3>3
    <2>4. ASSUME NEW i \in 1 .. Len(t) PROVE t[i] = s[i + 4]
      <3>1. i \in 1 .. Len(s) - 5 + 1 /\ 5 + i - 1 = i + 4
        BY <1>1, <2>3
      <3> QED
        BY <2>2, <3>1
    <2> QED
      BY <2>2, <2>3, <2>4
  <1> HIDE DEF t
  <1>5. Shape(t)
    BY <1>1, <1>3, <1>4, RestShape
  <1> QED
    BY <1>1, <1>2, <1>4, <1>5 DEF t

Reads(s) == \A i \in DOMAIN s : s[i].op \in {"fatman", "get", "new"} /\ s[i].b \in Layers

LEMMA ReadScript ==
  ASSUME NEW k, NEW c \in {"pull", "build"}
  PROVE  /\ Script(c, k) \in Seq(Request) /\ Script(c, k) # << >>
         /\ Reads(Script(c, k)) /\ Shape(Script(c, k)) /\ Script(c, k)[1].op # "new"
  <1> DEFINE pr == PullRequests
             new == <<Req("new")>>
             x == <<"layer", 1>>
             RR == {r \in Request : r.op \in {"fatman", "get", "new"} /\ r.b \in Layers}
  <1>1. x \in Layers
    BY RegistryAssumption DEF Layers
  <1>2. \A o \in {"fatman", "get", "new"} : Req(o) \in RR /\ Req(o).op = o
    <2> HIDE DEF x
    <2>1. \A o \in {"fatman", "get", "new"} : [op |-> o, b |-> x] \in RR
      BY <1>1 DEF Request, Op
    <2> QED
      BY <2>1 DEF Req, x
  <1> HIDE DEF RR, x
  <1>3. /\ pr \in Seq(RR) /\ Len(pr) = 2 /\ pr[1].op = "fatman" /\ pr[2].op = "get"
        /\ new \in Seq(RR) /\ Len(new) = 1 /\ new[1].op = "new"
    BY <1>2 DEF PullRequests
  <1> DEFINE s2 == pr \o new
             s3 == s2 \o pr
  <1> HIDE DEF pr, new
  <1>4. /\ s2 \in Seq(RR) /\ Len(s2) = Len(pr) + Len(new)
        /\ \A i \in 1 .. Len(pr) + Len(new) : s2[i] = IF i <= Len(pr) THEN pr[i] ELSE new[i - Len(pr)]
    BY <1>3, ConcatProperties
  <1>5. s2 \in Seq(RR) /\ Len(s2) = 3 /\ s2[1].op = "fatman" /\ s2[2].op = "get" /\ s2[3].op = "new"
    <2> HIDE DEF s2
    <2> QED
      BY <1>3, <1>4
  <1> HIDE DEF s2
  <1>6. /\ s3 \in Seq(RR) /\ Len(s3) = Len(s2) + Len(pr)
        /\ \A i \in 1 .. Len(s2) + Len(pr) : s3[i] = IF i <= Len(s2) THEN s2[i] ELSE pr[i - Len(s2)]
    BY <1>3, <1>5, ConcatProperties
  <1>7. /\ s3 \in Seq(RR) /\ Len(s3) = 5 /\ s3[1].op = "fatman" /\ s3[2].op = "get"
        /\ s3[3].op = "new" /\ s3[4].op = "fatman" /\ s3[5].op = "get"
    <2> HIDE DEF s3
    <2> QED
      BY <1>3, <1>5, <1>6
  <1> DEFINE s == Script(c, k)
  <1>8. s = pr \/ s = s3
    BY DEF Script, pr, s3, s2, new
  <1> HIDE DEF s, s3
  <1>9. s \in Seq(RR) /\ s # << >> /\ s[1].op = "fatman"
    BY <1>3, <1>7, <1>8
  <1>10. \A i \in DOMAIN s : s[i] \in RR /\ (s[i].op = "new" => i < Len(s))
    <2>1. CASE s = pr
      <3>1. DOMAIN s = {1, 2}
        BY <2>1, <1>3
      <3> QED
        BY <2>1, <3>1, <1>3
    <2>2. CASE s = s3
      <3>0. s \in Seq(RR) /\ Len(s) = 5
        BY <2>2, <1>7
      <3>1. DOMAIN s = 1 .. 5 /\ Len(s) = 5 /\ \A i \in DOMAIN s : s[i] \in RR
        BY <3>0
      <3>2. s[5].op = "get"
        BY <2>2, <1>7
      <3>3. \A i \in 1 .. 5 : i # 5 => i < 5
        OBVIOUS
      <3> QED
        BY <3>1, <3>2, <3>3
    <2> QED
      BY <1>8, <2>1, <2>2
  <1>11. \A r \in RR : r.op \in {"fatman", "get", "new"} /\ r.b \in Layers /\ r \in Request
    BY DEF RR
  <1>12. s \in Seq(Request)
    BY <1>9, <1>11
  <1>13. Reads(s)
    BY <1>10, <1>11 DEF Reads
  <1>14. Shape(s)
    BY <1>10, <1>11 DEF Shape, ShapeAt
  <1> QED
    BY <1>9, <1>12, <1>13, <1>14 DEF s

ScriptOK ==
    /\ cmd \in {"idle", "push", "pull", "build"} /\ commands \in Nat
    /\ todo \in Seq(Request) /\ Shape(todo)
    /\ Active => cmd # "idle" /\ todo # << >>
    /\ Active /\ cmd # "push" => Reads(todo)
    /\ at = "reply" => Head(todo).op \notin {"new", "prepare"}

\* Every blob of the image that is being pushed is there, or it will be looked
\* for before the manifest goes out.
Covered ==
    \A b \in Blobs(commands) : \/ b \in repo
                               \/ \E i \in DOMAIN todo : todo[i] = R("verify", b)

MInv ==
    /\ ScriptOK
    /\ Active /\ cmd = "push" => Covered
    /\ at = "reply" /\ status = 200 /\ Head(todo).op \in {"exists", "verify"} =>
         Head(todo).b \in repo
    /\ ManifestComplete

\* t is what is left of script s after n requests.
Rest(s, n, t) ==
    /\ n \in Nat /\ n <= Len(s) /\ t \in Seq(Request) /\ Len(t) = Len(s) - n
    /\ \A i \in 1 .. Len(t) : t[i] = s[i + n]

LEMMA CoverRest ==
  ASSUME NEW s \in Seq(Request), NEW n, NEW t, Rest(s, n, t), NEW C, NEW S,
         \A b \in C : b \in S \/ \E i \in DOMAIN s : s[i] = R("verify", b),
         \A b \in C, i \in 1 .. n : s[i] = R("verify", b) => b \in S
  PROVE  \A b \in C : b \in S \/ \E i \in DOMAIN t : t[i] = R("verify", b)
  <1> SUFFICES ASSUME NEW b \in C, b \notin S PROVE \E i \in DOMAIN t : t[i] = R("verify", b)
    OBVIOUS
  <1>1. PICK i \in DOMAIN s : s[i] = R("verify", b)
    OBVIOUS
  <1>2. i \notin 1 .. n
    BY <1>1
  <1>3. i - n \in 1 .. Len(t) /\ (i - n) + n = i
    BY <1>2 DEF Rest
  <1>4. t[i - n] = s[i]
    BY <1>3 DEF Rest
  <1> QED
    BY <1>1, <1>3, <1>4 DEF Rest

LEMMA ReadsRest ==
  ASSUME NEW s \in Seq(Request), NEW n, NEW t, Rest(s, n, t), Reads(s)
  PROVE  Reads(t)
  <1> SUFFICES ASSUME NEW i \in 1 .. Len(t) PROVE t[i].op \in {"fatman", "get", "new"} /\ t[i].b \in Layers
    BY DEF Reads, Rest
  <1>1. i + n \in DOMAIN s /\ t[i] = s[i + n]
    BY DEF Rest
  <1> QED
    BY <1>1 DEF Reads

LEMMA InitMInv == Init => MInv
  <1> SUFFICES ASSUME Init PROVE MInv
    OBVIOUS
  <1>1. todo = << >> /\ cmd = "idle" /\ commands = 0 /\ at = "done" /\ manifest \subseteq repo
    BY DEF Init
  <1>2. todo \in Seq(Request) /\ Shape(todo)
    BY <1>1 DEF Shape
  <1> QED
    BY <1>1, <1>2 DEF MInv, ScriptOK, Active, ManifestComplete

\* A step that goes on to the rest of the script, or stays where it is.
LEMMA GoesOn ==
  ASSUME MInv, NEW n, Rest(todo, n, todo'), UNCHANGED <<cmd, commands, repo, manifest>>,
         Active, at' \in {"send", "done", "fatal"}, at' = "send" => todo' # << >>,
         \A b \in Blobs(commands), i \in 1 .. n : todo[i] = R("verify", b) => b \in repo
  PROVE  MInv'
  <1>1. /\ todo \in Seq(Request) /\ Shape(todo) /\ cmd # "idle" /\ commands \in Nat
        /\ cmd # "push" => Reads(todo)
        /\ cmd \in {"idle", "push", "pull", "build"}
    BY DEF MInv, ScriptOK
  <1>2. todo' \in Seq(Request) /\ Shape(todo')
    BY <1>1, RestShape DEF Rest
  <1>3. cmd # "push" => Reads(todo')
    BY <1>1, ReadsRest
  <1>4. ScriptOK'
    BY <1>1, <1>2, <1>3 DEF ScriptOK, Active
  <1>5. cmd = "push" => Covered'
    <2>1. SUFFICES ASSUME cmd = "push" PROVE Covered'
      OBVIOUS
    <2>2. Covered
      BY <2>1 DEF MInv
    <2>3. \A b \in Blobs(commands) : b \in repo \/ \E i \in DOMAIN todo' : todo'[i] = R("verify", b)
      BY <1>1, <2>2, CoverRest DEF Covered
    <2> QED
      BY <2>3 DEF Covered, Blobs, Layers, Config, R
  <1>6. ManifestComplete' /\ at' # "reply"
    BY DEF MInv, ManifestComplete
  <1> QED
    BY <1>4, <1>5, <1>6 DEF MInv

\* A step that leaves the script alone, or ends it.
LEMMA StaysPut ==
  ASSUME MInv, UNCHANGED <<todo, commands, repo, manifest, status>>,
         \/ UNCHANGED <<at, cmd>>
         \/ at' \in {"done", "fatal"} /\ cmd' \in {cmd, "idle"}
  PROVE  MInv'
  <1>1. ScriptOK'
    BY DEF MInv, ScriptOK, Active
  <1>2. Covered => Covered'
    BY DEF Covered, Blobs, Layers, Config, R
  <1> QED
    BY <1>1, <1>2 DEF MInv, ManifestComplete, Active

LEMMA ScriptFacts ==
  ASSUME MInv, Active
  PROVE  /\ todo \in Seq(Request) /\ Shape(todo) /\ todo # << >> /\ cmd # "idle"
         /\ commands \in Nat /\ cmd \in {"push", "pull", "build"}
         /\ 1 \in DOMAIN todo /\ Head(todo) = todo[1] /\ Len(todo) \in Nat /\ Len(todo) > 0
         /\ todo[1].op \in Op /\ ShapeAt(todo, 1)
         /\ Rest(todo, 1, Tail(todo))
  <1>1. todo \in Seq(Request) /\ Shape(todo) /\ todo # << >> /\ cmd # "idle"
        /\ commands \in Nat /\ cmd \in {"push", "pull", "build"}
    BY DEF MInv, ScriptOK
  <1>2. 1 \in DOMAIN todo /\ Head(todo) = todo[1] /\ Len(todo) \in Nat /\ Len(todo) > 0
    BY <1>1, TailShape
  <1>3. todo[1].op \in Op
    <2>1. todo[1] \in Request
      BY <1>1, <1>2
    <2>2. \A r \in Request : r.op \in Op
      BY DEF Request
    <2> QED
      BY <2>1, <2>2
  <1>4. ShapeAt(todo, 1)
    BY <1>1, <1>2 DEF Shape
  <1>5. Rest(todo, 1, Tail(todo))
    BY <1>1, <1>2, TailShape DEF Rest
  <1> QED
    BY <1>1, <1>2, <1>3, <1>4, <1>5

\* Only a push sends anything but a pull's requests.
LEMMA PushOps ==
  ASSUME MInv, Active, Head(todo).op \notin {"fatman", "get", "new"}
  PROVE  cmd = "push"
  BY ScriptFacts DEF MInv, ScriptOK, Reads

LEMMA StepMInv == MInv /\ [Next]_vars => MInv'
  <1> SUFFICES ASSUME MInv, [Next]_vars PROVE MInv'
    OBVIOUS
  <1>1. CASE UNCHANGED vars \/ PrepareFatal \/ Fatal \/ End \/ Broken \/ Expire
    <2>1. UNCHANGED <<todo, commands, repo, manifest, status>>
      BY <1>1 DEF vars, registry, PrepareFatal, Fatal, End, Broken, Expire
    <2>2. UNCHANGED <<at, cmd>> \/ (at' \in {"done", "fatal"} /\ cmd' \in {cmd, "idle"})
      BY <1>1 DEF vars, PrepareFatal, Fatal, End, Broken, Expire
    <2> QED
      BY <2>1, <2>2, StaysPut
  <1>2. ASSUME NEW c \in {"push", "pull", "build"}, Start(c) PROVE MInv'
    <2>1. /\ cmd' = c /\ commands' = commands + 1 /\ commands' \in Nat /\ at' = "send"
          /\ todo' = Script(c, commands') /\ UNCHANGED <<repo, manifest>>
      BY <1>2 DEF Start, registry, MInv, ScriptOK
    <2>2. todo' \in Seq(Request) /\ todo' # << >> /\ Shape(todo') /\ (c # "push" => Reads(todo'))
      <3>1. CASE c = "push"
        BY <3>1, <2>1, PushScript DEF Script
      <3>2. CASE c # "push"
        BY <3>2, <2>1, ReadScript
      <3> QED
        BY <3>1, <3>2
    <2>3. ScriptOK'
      BY <2>1, <2>2 DEF ScriptOK, Active
    <2>4. c = "push" => Covered'
      <3>1. c = "push" => \A b \in Blobs(commands') : \E i \in DOMAIN todo' : todo'[i] = R("verify", b)
        BY <2>1, PushScript DEF Script
      <3> QED
        BY <3>1 DEF Covered, Blobs, Layers, Config, R
    <2> QED
      BY <2>1, <2>3, <2>4 DEF MInv, ManifestComplete
  <1>3. CASE NewHTTP \/ Prepare
    <2>1. /\ Active /\ todo' = Tail(todo) /\ at' = "send" /\ Head(todo).op \in {"new", "prepare"}
          /\ UNCHANGED <<cmd, commands, repo, manifest>>
      BY <1>3 DEF NewHTTP, Prepare, registry, Active
    <2>2. Rest(todo, 1, todo') /\ todo[1].op \in {"new", "prepare"} /\ 1 < Len(todo) /\ Len(todo) \in Nat
      BY <2>1, ScriptFacts DEF ShapeAt
    <2>3. todo' # << >>
      BY <2>2 DEF Rest
    <2>4. \A b \in Blobs(commands), i \in 1 .. 1 : todo[i] = R("verify", b) => b \in repo
      BY <2>2 DEF R
    <2> QED
      BY <2>1, <2>2, <2>3, <2>4, GoesOn
  <1>4. CASE Send
    <2> DEFINE r == Head(todo)
    <2>1. /\ Active /\ at' = "reply" /\ r.op \notin {"new", "prepare"}
          /\ UNCHANGED <<cmd, commands, todo>>
      BY <1>4 DEF Send, Active
    <2>2. /\ status' = IF Granted(r.op) THEN Answer(r) ELSE 401
          /\ repo' = (IF r.op = "put" /\ status' = 201 THEN repo \cup {r.b} ELSE repo)
          /\ (r.op = "manifest" /\ status' = 201 /\ manifest' = Blobs(commands)) \/ manifest' = manifest
      BY <1>4 DEF Send
    <2> HIDE DEF r
    <2>3. repo \subseteq repo'
      BY <2>2
    <2>4. ScriptOK'
      BY <2>1 DEF ScriptOK, MInv, Active, r
    <2>5. Covered => Covered'
      BY <2>1, <2>3 DEF Covered, Blobs, Layers, Config, R
    <2>6. status' = 200 /\ r.op \in {"exists", "verify"} => r.b \in repo
      <3>1. r.op \in {"exists", "verify"} => Answer(r) = (IF r.b \in repo THEN 200 ELSE 404)
        BY DEF Answer
      <3> QED
        BY <2>2, <3>1
    <2>7. ManifestComplete'
      <3>1. CASE manifest' = manifest
        BY <3>1, <2>3 DEF ManifestComplete, MInv
      <3>2. CASE r.op = "manifest" /\ manifest' = Blobs(commands)
        <4>1. cmd = "push" /\ Covered
          BY <2>1, <3>2, PushOps DEF r, MInv
        <4>2. 1 = Len(todo) /\ DOMAIN todo = 1 .. Len(todo) /\ todo[1].op = "manifest"
          BY <2>1, <3>2, ScriptFacts DEF r, ShapeAt
        <4>3. \A b \in Blobs(commands), i \in DOMAIN todo : todo[i] # R("verify", b)
          BY <4>2 DEF R
        <4>4. Blobs(commands) \subseteq repo
          BY <4>1, <4>3 DEF Covered
        <4> QED
          BY <3>2, <4>4, <2>3 DEF ManifestComplete
      <3> QED
        BY <2>2, <3>1, <3>2
    <2>8. Active /\ cmd = "push" => Covered
      BY DEF MInv
    <2> QED
      BY <2>1, <2>3, <2>4, <2>5, <2>6, <2>7, <2>8 DEF MInv, r
  <1>5. CASE Escalate
    <2>1. Active /\ at' = "send" /\ UNCHANGED <<cmd, commands, repo, manifest, todo>>
      BY <1>5 DEF Escalate, registry, Active
    <2>2. todo \in Seq(Request) /\ todo # << >>
      BY <2>1, ScriptFacts
    <2>3. Rest(todo, 0, todo)
      BY <2>2 DEF Rest
    <2> QED
      BY <2>1, <2>2, <2>3, GoesOn
  <1>6. CASE Refused
    <2>1. Active /\ UNCHANGED <<cmd, commands, repo, manifest, status>>
          /\ \/ Head(todo).op = "exists" /\ at' = "send" /\ todo' = Tail(todo)
             \/ at' = "fatal" /\ UNCHANGED todo
      BY <1>6 DEF Refused, registry, Active
    <2>2. CASE at' = "fatal" /\ UNCHANGED todo
      BY <2>1, <2>2, StaysPut
    <2>3. CASE Head(todo).op = "exists" /\ at' = "send" /\ todo' = Tail(todo)
      <3>1. Rest(todo, 1, todo') /\ todo[1].op = "exists" /\ 4 \in DOMAIN todo
        BY <2>1, <2>3, ScriptFacts DEF ShapeAt
      <3>2. todo' # << >>
        BY <2>1, <3>1, ScriptFacts DEF Rest
      <3>3. \A b \in Blobs(commands), i \in 1 .. 1 : todo[i] = R("verify", b) => b \in repo
        BY <3>1 DEF R
      <3> QED
        BY <2>1, <2>3, <3>1, <3>2, <3>3, GoesOn
    <2> QED
      BY <2>1, <2>2, <2>3
  <1>7. CASE Proceed
    <2>1. /\ Active /\ at = "reply" /\ at' = (IF todo' = << >> THEN "done" ELSE "send")
          /\ UNCHANGED <<cmd, commands, repo, manifest>>
          /\ Head(todo).op = "verify" => status = 200
          /\ todo' = IF Head(todo).op = "exists" /\ status = 200
                     THEN SubSeq(todo, 5, Len(todo)) ELSE Tail(todo)
      BY <1>7 DEF Proceed, registry, Active
    <2>2. at' \in {"send", "done", "fatal"} /\ (at' = "send" => todo' # << >>)
      BY <2>1
    <2>3. CASE Head(todo).op = "exists" /\ status = 200
      <3>1. Rest(todo, 4, todo')
        BY <2>1, <2>3, ScriptFacts, SkipShape DEF Rest
      <3>2. Head(todo).b \in repo /\ Head(todo) = todo[1] /\ todo[1].op = "exists"
        BY <2>1, <2>3, ScriptFacts DEF MInv
      <3>3. /\ todo[2] = R("post", todo[1].b) /\ todo[3] = R("put", todo[1].b)
            /\ todo[4] = R("verify", todo[1].b)
        BY <2>1, <2>3, ScriptFacts, SkipShape
      <3>4. ASSUME NEW b \in Blobs(commands), NEW i \in 1 .. 4, todo[i] = R("verify", b)
            PROVE  b \in repo
        <4>1. todo[i].op = "verify" /\ todo[i].b = b /\ R("post", todo[1].b).op = "post"
              /\ R("put", todo[1].b).op = "put" /\ R("verify", todo[1].b).b = todo[1].b
          BY <3>4 DEF R
        <4>2. i = 4
          BY <3>2, <3>3, <4>1
        <4> QED
          BY <3>2, <3>3, <4>1, <4>2
      <3> QED
        BY <2>1, <2>2, <3>1, <3>4, GoesOn
    <2>4. CASE ~(Head(todo).op = "exists" /\ status = 200)
      <3>1. Rest(todo, 1, todo') /\ Head(todo) = todo[1]
        BY <2>1, <2>4, ScriptFacts
      <3>2. Head(todo).op = "verify" => Head(todo).b \in repo
        BY <2>1 DEF MInv
      <3>3. \A b \in Blobs(commands), i \in 1 .. 1 : todo[i] = R("verify", b) => b \in repo
        BY <3>1, <3>2 DEF R
      <3> QED
        BY <2>1, <2>2, <3>1, <3>3, GoesOn
    <2> QED
      BY <2>3, <2>4
  <1>8. CASE Lose
    <2>1. /\ Active /\ at = "reply" /\ Head(todo).op = "put"
          /\ Head(todo).b \notin manifest /\ repo' = repo \ {Head(todo).b}
          /\ UNCHANGED <<cmd, commands, todo, at, manifest, status>>
      BY <1>8 DEF Lose, Active
    <2>2. ScriptOK'
      BY <2>1 DEF ScriptOK, MInv, Active
    <2>3. 2 \in DOMAIN todo /\ todo[2] = R("verify", Head(todo).b)
      BY <2>1, ScriptFacts DEF ShapeAt
    <2>4. Covered => Covered'
      <3>1. Covered => \A b \in Blobs(commands) :
                         b \in repo' \/ \E i \in DOMAIN todo : todo[i] = R("verify", b)
        BY <2>1, <2>3 DEF Covered
      <3> QED
        BY <2>1, <3>1 DEF Covered, Blobs, Layers, Config, R
    <2> QED
      BY <2>1, <2>2, <2>4 DEF MInv, ManifestComplete, Active
  <1> QED
    BY <1>1, <1>2, <1>3, <1>4, <1>5, <1>6, <1>7, <1>8 DEF Next, Client

\* Whatever is killed, broken off, lost or repeated: the registry has every
\* blob that its manifest names (Image_Pusher.push uploads the manifest last,
\* and every blob is looked for after its upload).
THEOREM ManifestIsComplete == Spec => []ManifestComplete
  <1>1. MInv => ManifestComplete
    BY DEF MInv
  <1> QED
    BY <1>1, InitMInv, StepMInv, PTL DEF Spec

-----------------------------------------------------------------------------
(* The history *)

OneIn(h) == \E i \in DOMAIN h : \A j \in DOMAIN h : h[j] = FALSE <=> j = i

\* A non-empty set of indices has a last one: of the sets of those that do not
\* come before one of them, a smallest is a singleton.
LEMMA LastExists ==
  ASSUME NEW n \in Nat, NEW T, T \subseteq 1 .. n, T # {}
  PROVE  \E i \in T : \A j \in T : j <= i
  <1> DEFINE From(i) == {j \in T : j >= i}
             F == {From(i) : i \in T}
             Less == StrictSubsetOrdering(T)
  <1>1. IsFiniteSet(T)
    <2>1. 1 \in Int /\ n \in Int
      OBVIOUS
    <2>2. IsFiniteSet(1 .. n)
      BY <2>1, FS_Interval
    <2> QED
      BY <2>2, FS_Subset
  <1>2. IsWellFoundedOn(Less, SUBSET T)
    BY <1>1, FS_FiniteSubsetsOfFinite, FS_StrictSubsetOrderingWellFounded
  <1>3. F # {} /\ F \subseteq SUBSET T
    OBVIOUS
  <1> HIDE DEF Less, F
  <1>4. PICK X \in F : \A Y \in F : ~(<<Y, X>> \in Less)
    BY <1>2, <1>3, WFMin
  <1>5. PICK i \in T : X = From(i)
    BY DEF F
  <1>6. ASSUME NEW j \in T, ~(j <= i) PROVE FALSE
    <2>1. From(j) \in F
      BY DEF F
    <2>2. i \in Int /\ j \in Int /\ \A x \in T : x \in Int
      OBVIOUS
    <2>3. From(j) \subseteq X /\ i \in X /\ i \notin From(j)
      <3>1. j > i
        BY <1>6, <2>2
      <3>2. \A x \in T : x >= j => x >= i
        BY <2>2, <3>1
      <3>3. i >= i /\ ~(i >= j)
        BY <2>2, <3>1
      <3> QED
        BY <1>5, <3>2, <3>3
    <2>4. From(j) \in SUBSET T /\ X \in SUBSET T /\ From(j) # X
      BY <1>5, <2>3
    <2> DEFINE Y == From(j)
    <2> HIDE DEF Y
    <2>5. Y \in SUBSET T /\ X \in SUBSET T /\ Y # X /\ Y \subseteq X
      BY <2>3, <2>4 DEF Y
    <2>6. <<Y, X>> \in Less
      BY <2>5 DEF Less, StrictSubsetOrdering
    <2> QED
      BY <1>4, <2>1, <2>6 DEF Y
  <1> QED
    BY <1>6

\* What "prepare" makes of a history with at least one layer.
LEMMA OneLayerFacts ==
  ASSUME NEW h \in Seq(BOOLEAN), HasLayer(h)
  PROVE  OneLayer(h) \in Seq(BOOLEAN) /\ OneIn(OneLayer(h))
  <1> DEFINE n == Len(h)
             w == Winner(h)
             g == OneLayer(h)
             T == {i \in DOMAIN h : ~h[i]}
  <1>1. n \in Nat /\ DOMAIN h = 1 .. n /\ \A i \in 1 .. n : h[i] \in BOOLEAN
    OBVIOUS
  <1>2. T # {} /\ T \subseteq 1 .. n
    BY <1>1 DEF HasLayer
  <1>3. PICK i \in T : \A j \in T : j <= i
    <2> HIDE DEF T, n
    <2> QED
      BY <1>1, <1>2, LastExists
  <1>4. \E x \in DOMAIN h : ~h[x] /\ \A j \in DOMAIN h : ~h[j] => j <= x
    BY <1>3
  <1>5. w \in DOMAIN h /\ ~h[w] /\ \A j \in DOMAIN h : ~h[j] => j <= w
    BY <1>4 DEF Winner
  <1>6. /\ DOMAIN g = 1 .. n
        /\ \A x \in 1 .. n : g[x] = IF x < n THEN x # w ELSE h[x]
    BY <1>1 DEF OneLayer
  <1> HIDE DEF w, g, n, T
  <1>7. \A x \in 1 .. n : g[x] \in BOOLEAN
    BY <1>1, <1>6
  <1>8. g \in Seq(BOOLEAN)
    <2>1. g = [x \in 1 .. n |-> g[x]]
      BY <1>6 DEF g, OneLayer
    <2> QED
      BY <1>1, <1>7, <2>1, IsASeq
  <1>9. w \in 1 .. n /\ h[w] = FALSE
    BY <1>1, <1>5
  <1>10. ASSUME NEW j \in 1 .. n PROVE g[j] = FALSE <=> j = w
    <2>1. CASE j < n
      BY <1>6, <2>1
    <2>2. CASE j = n
      <3>1. g[j] = h[j]
        BY <1>1, <1>6, <2>2
      <3>2. h[j] = FALSE => n <= w
        BY <1>1, <1>5, <2>2
      <3>3. n <= w => w = n
        BY <1>1, <1>9
      <3> QED
        BY <2>2, <3>1, <3>2, <3>3, <1>9
    <2>3. j < n \/ j = n
      BY <1>1
    <2> QED
      BY <2>1, <2>2, <2>3
  <1>11. OneIn(g)
    <2>1. \A j \in DOMAIN g : g[j] = FALSE <=> j = w
      BY <1>6, <1>10
    <2>2. w \in DOMAIN g
      BY <1>6, <1>9
    <2> QED
      BY <2>1, <2>2 DEF OneIn
  <1> QED
    BY <1>8, <1>11 DEF g

\* From "prepare" on, the history to push has one entry that is not empty; so
\* has the one in the registry.
Prepared(s) == \A i \in DOMAIN s : s[i].op # "prepare"
HInv ==
    /\ hist \in Seq(BOOLEAN)
    /\ Active /\ cmd = "push" /\ Prepared(todo) => OneIn(hist)
    /\ manifest # {} => history \in Seq(BOOLEAN) /\ OneIn(history)

LEMMA PreparedRest ==
  ASSUME NEW s \in Seq(Request), NEW n, NEW t, Rest(s, n, t), Prepared(t),
         \A i \in 1 .. n : s[i].op # "prepare"
  PROVE  Prepared(s)
  <1> SUFFICES ASSUME NEW i \in DOMAIN s, i \notin 1 .. n PROVE s[i].op # "prepare"
    BY DEF Prepared
  <1>1. i - n \in 1 .. Len(t) /\ (i - n) + n = i
    BY DEF Rest
  <1>2. t[i - n] = s[i]
    BY <1>1 DEF Rest
  <1>3. i - n \in DOMAIN t
    BY <1>1 DEF Rest
  <1> QED
    BY <1>2, <1>3 DEF Prepared

LEMMA InitHInv == Init => HInv
  <1> SUFFICES ASSUME Init PROVE HInv
    OBVIOUS
  <1>1. hist \in Seq(BOOLEAN) /\ ~Active
    BY DEF Init, Active
  <1>2. ASSUME manifest # {} PROVE history \in Seq(BOOLEAN) /\ OneIn(history)
    <2>1. history = <<FALSE>>
      BY <1>2 DEF Init
    <2>2. history \in Seq(BOOLEAN) /\ DOMAIN history = {1} /\ history[1] = FALSE
      BY <2>1
    <2> QED
      BY <2>2 DEF OneIn
  <1> QED
    BY <1>1, <1>2 DEF HInv

LEMMA StepHInv == MInv /\ HInv /\ [Next]_vars => HInv'
  <1> SUFFICES ASSUME MInv, HInv, [Next]_vars PROVE HInv'
    OBVIOUS
  <1>1. ASSUME UNCHANGED <<hist, manifest, history, cmd>>, Active' => Active,
               NEW n, Active => Rest(todo, n, todo'), todo \in Seq(Request),
               Active /\ Active' => \A i \in 1 .. n : todo[i].op # "prepare"
        PROVE  HInv'
    <2>1. Active' /\ Prepared(todo') => Prepared(todo)
      BY <1>1, PreparedRest
    <2>2. Active' /\ cmd' = "push" /\ Prepared(todo') => OneIn(hist)
      BY <1>1, <2>1 DEF HInv
    <2>3. OneIn(hist) => OneIn(hist')
      BY <1>1
    <2>4. OneIn(history) => OneIn(history')
      BY <1>1
    <2> QED
      BY <1>1, <2>2, <2>3, <2>4 DEF HInv, Prepared
  <1>2. ASSUME UNCHANGED <<hist, manifest, history, todo>>, Active' => Active, cmd' \in {cmd, "idle"}
        PROVE  HInv'
    <2>1. (Active' /\ cmd' = "push" /\ Prepared(todo')) => (Active /\ cmd = "push" /\ Prepared(todo))
      BY <1>2 DEF Prepared
    <2> QED
      BY <1>2, <2>1 DEF HInv, OneIn
  <1>3. todo \in Seq(Request)
    BY DEF MInv, ScriptOK
  <1>4. CASE UNCHANGED vars \/ PrepareFatal \/ Fatal \/ End \/ Broken \/ Expire \/ Escalate \/ Lose
    <2>1. UNCHANGED <<hist, manifest, history, todo>> /\ cmd' \in {cmd, "idle"}
      BY <1>4 DEF vars, registry, PrepareFatal, Fatal, End, Broken, Expire, Escalate, Lose
    <2>2. Active' => Active
      BY <1>4 DEF vars, PrepareFatal, Fatal, End, Broken, Expire, Escalate, Lose, Active
    <2> QED
      BY <1>2, <2>1, <2>2
  <1>5. ASSUME NEW c \in {"push", "pull", "build"}, Start(c) PROVE HInv'
    <2>1. cmd' = c /\ UNCHANGED <<manifest, history>>
          /\ todo' = Script(c, commands') /\ commands' \in Nat
      BY <1>5 DEF Start, registry, MInv, ScriptOK
    <2>2. hist' \in Seq(BOOLEAN)
      <3>1. hist' \in Histories \/ hist' = << >>
        BY <1>5 DEF Start
      <3>2. Histories \subseteq Seq(BOOLEAN)
        BY RegistryAssumption
      <3>3. << >> \in Seq(BOOLEAN)
        OBVIOUS
      <3> QED
        BY <3>1, <3>2, <3>3, Zenon
    <2>3. c = "push" => ~Prepared(todo')
      BY <2>1, PushScript DEF Script, Prepared
    <2> QED
      BY <2>1, <2>2, <2>3 DEF HInv, OneIn, Prepared
  <1>6. CASE NewHTTP
    <2>1. Active /\ Active' /\ todo' = Tail(todo) /\ Head(todo).op = "new"
          /\ UNCHANGED <<hist, manifest, history, cmd>>
      BY <1>6 DEF NewHTTP, registry, Active
    <2>2. Rest(todo, 1, todo') /\ \A i \in 1 .. 1 : todo[i].op # "prepare"
      BY <2>1, ScriptFacts
    <2> QED
      BY <1>1, <1>3, <2>1, <2>2
  <1>7. CASE Prepare
    <2>1. HasLayer(hist) /\ hist' = OneLayer(hist) /\ UNCHANGED <<manifest, history>>
      BY <1>7 DEF Prepare, registry
    <2>2. hist' \in Seq(BOOLEAN) /\ OneIn(hist')
      BY <2>1, OneLayerFacts DEF HInv
    <2>3. OneIn(history) => OneIn(history')
      BY <2>1
    <2> QED
      BY <2>1, <2>2, <2>3 DEF HInv
  <1>8. CASE Send
    <2>1. /\ Active /\ Active' /\ UNCHANGED <<cmd, todo, hist>>
          /\ \/ UNCHANGED <<manifest, history>>
             \/ Head(todo).op = "manifest" /\ history' = hist
      BY <1>8 DEF Send, Active
    <2>2. CASE UNCHANGED <<manifest, history>>
      BY <1>2, <2>1, <2>2
    <2>3. CASE Head(todo).op = "manifest" /\ history' = hist
      <3>1. cmd = "push"
        BY <2>1, <2>3, PushOps
      <3>2. 1 = Len(todo) /\ DOMAIN todo = 1 .. Len(todo) /\ todo[1].op = "manifest"
        BY <2>1, <2>3, ScriptFacts DEF ShapeAt
      <3>3. Prepared(todo)
        BY <3>2 DEF Prepared
      <3>4. OneIn(hist) /\ hist \in Seq(BOOLEAN)
        BY <2>1, <3>1, <3>3 DEF HInv
      <3> QED
        BY <2>1, <2>3, <3>4 DEF HInv, OneIn
    <2> QED
      BY <2>1, <2>2, <2>3
  <1>9. CASE Refused
    <2>1. Active /\ (Active' => Active) /\ UNCHANGED <<cmd, hist, manifest, history>>
          /\ \/ Head(todo).op = "exists" /\ at' = "send" /\ todo' = Tail(todo)
             \/ at' = "fatal" /\ UNCHANGED todo
      BY <1>9 DEF Refused, registry, Active
    <2>2. CASE UNCHANGED todo
      BY <1>2, <2>1, <2>2
    <2>3. CASE Head(todo).op = "exists" /\ todo' = Tail(todo)
      <3>1. Rest(todo, 1, todo') /\ \A i \in 1 .. 1 : todo[i].op # "prepare"
        BY <2>1, <2>3, ScriptFacts
      <3> QED
        BY <1>1, <1>3, <2>1, <3>1
    <2> QED
      BY <2>1, <2>2, <2>3
  <1>10. CASE Proceed
    <2>1. /\ Active /\ at = "reply" /\ UNCHANGED <<cmd, hist, manifest, history>>
          /\ todo' = IF Head(todo).op = "exists" /\ status = 200
                     THEN SubSeq(todo, 5, Len(todo)) ELSE Tail(todo)
      BY <1>10 DEF Proceed, registry, Active
    <2>2. CASE Head(todo).op = "exists" /\ status = 200
      <3>1. Rest(todo, 4, todo')
        BY <2>1, <2>2, ScriptFacts, SkipShape DEF Rest
      <3>2. /\ todo[1].op = "exists" /\ todo[2] = R("post", todo[1].b)
            /\ todo[3] = R("put", todo[1].b) /\ todo[4] = R("verify", todo[1].b)
        BY <2>1, <2>2, ScriptFacts, SkipShape
      <3>3. \A i \in 1 .. 4 : todo[i].op # "prepare"
        <4>1. todo[2].op = "post" /\ todo[3].op = "put" /\ todo[4].op = "verify"
          BY <3>2 DEF R
        <4>2. \A i \in 1 .. 4 : i \in {1, 2, 3, 4}
          OBVIOUS
        <4> QED
          BY <3>2, <4>1, <4>2
      <3> QED
        BY <1>1, <1>3, <2>1, <3>1, <3>3
    <2>3. CASE ~(Head(todo).op = "exists" /\ status = 200)
      <3>1. Rest(todo, 1, todo') /\ Head(todo) = todo[1] /\ todo[1].op # "prepare"
        BY <2>1, <2>3, ScriptFacts DEF MInv, ScriptOK
      <3>2. \A i \in 1 .. 1 : todo[i].op # "prepare"
        BY <3>1
      <3> QED
        BY <1>1, <1>3, <2>1, <3>1, <3>2
    <2> QED
      BY <2>2, <2>3
  <1> QED
    BY <1>4, <1>5, <1>6, <1>7, <1>8, <1>9, <1>10 DEF Next, Client

\* The history of an image in the registry has one non-empty entry for its one
\* layer, whatever history the image had when it was pushed (prepare; push
\* flattens every image to one layer).
THEOREM HistoryHasOneLayer ==
  ASSUME LayerCount = 1
  PROVE  Spec => []HistoryMatches
  <1>1. HInv => HistoryMatches
    <2> SUFFICES ASSUME HInv, manifest # {}
                 PROVE  Cardinality({i \in DOMAIN history : ~history[i]}) = LayerCount
      BY DEF HistoryMatches
    <2>1. history \in Seq(BOOLEAN)
      BY DEF HInv
    <2>2. PICK i \in DOMAIN history : \A j \in DOMAIN history : history[j] = FALSE <=> j = i
      BY DEF HInv, OneIn
    <2>3. \A j \in DOMAIN history : history[j] \in BOOLEAN
      BY <2>1
    <2>4. {j \in DOMAIN history : ~history[j]} = {i}
      BY <2>2, <2>3
    <2> QED
      BY <2>4, FS_Singleton
  <1> QED
    BY <1>1, InitMInv, StepMInv, InitHInv, StepHInv, PTL DEF Spec

-----------------------------------------------------------------------------
(* Authorization *)

\* The authorization in use is one that escalation chose for this registry.
Usable == \/ auth = Auth_None
          \/ /\ auth.class \in {"Basic", "Anon", "IDed"} /\ auth.live = TRUE
             /\ Scheme(auth.class) = policy.scheme /\ Authenticated(auth.class) = auth_p
             /\ cmd # "push" => auth.d[1] = "pull"

\* A command that is entitled to what it does and meets no fault: its PUT
\* comes with the authorization of its POST, so that the stream is read once.
Smooth ==
    /\ Active
    /\ Usable
    /\ at = "send" \/ Head(todo).op # "put" => body = TRUE
    /\ at = "send" /\ Head(todo).op = "put" => Granted("put")
    /\ Head(todo).op = "verify" => Head(todo).b \in repo
    /\ at = "reply" =>
         /\ status = 401 <=> ~Granted(Head(todo).op)
         /\ Head(todo).op = "put" => status = 201 /\ Head(todo).b \in repo
         /\ status # 401 => \/ status \in Statuses(Head(todo).op) /\ status \notin {404, 429}
                            \/ Head(todo).op = "exists" /\ status = 404

Writes(s) == \A i \in DOMAIN s : s[i].op \notin {"fatman", "get"}

Known ==
    /\ policy \in Policies /\ auth_p \in BOOLEAN /\ faults \in Nat
    /\ cmd = "push" => auth_p = TRUE
    /\ manifest # {} => Layers \subseteq manifest
    /\ cmd = "push" => Writes(todo)

GInv ==
    /\ Known
    /\ cmd # "idle" /\ faults = 0 /\ Entitled => at = "done" \/ Smooth

LEMMA PolicyFacts ==
  ASSUME policy \in Policies
  PROVE  /\ policy.scheme \in {"none", "Basic", "Bearer"}
         /\ policy.public \in BOOLEAN /\ policy.permit \in BOOLEAN
         /\ policy.known \in BOOLEAN
  BY RegistryAssumption

\* A command sends requests of these scopes only.
LEMMA ReadScope ==
  ASSUME MInv, at = "reply", cmd # "push"
  PROVE  Scope(Head(todo).op) = "pull"
  <1>1. Active /\ Head(todo).op \notin {"new", "prepare"}
    BY DEF Active, MInv, ScriptOK
  <1>2. Head(todo).op \in {"fatman", "get", "new"}
    BY <1>1, ScriptFacts DEF MInv, ScriptOK, Reads
  <1> QED
    BY <1>1, <1>2 DEF Scope

\* Escalation is never at a loss: who is entitled to a request that is refused
\* gets an authorization that differs from the one that was refused.
LEMMA EscalationGoesOn ==
  ASSUME MInv, Known, Usable, Entitled, at = "reply", ~Granted(Head(todo).op)
  PROVE  NewAuth # {}
  <1> DEFINE o == Head(todo).op
             ch == Challenge(o)
             New(class) == [class |-> class, d |-> ch, live |-> TRUE]
  <1>1. /\ policy.scheme \in {"none", "Basic", "Bearer"}
        /\ policy.public \in BOOLEAN /\ policy.permit \in BOOLEAN
        /\ policy.known \in BOOLEAN /\ auth_p \in BOOLEAN
    BY PolicyFacts DEF Known
  <1>2. cmd # "push" => Scope(o) = "pull"
    BY ReadScope
  <1>3. ASSUME NEW class \in Candidates, Issued(class), ~Same(New(class)) PROVE NewAuth # {}
    <2>1. New(class) \in NewAuth
      BY <1>3 DEF NewAuth
    <2> QED
      BY <2>1
  <1>4. ch[1] = Scope(o)
    BY DEF Challenge
  <1> HIDE DEF o, ch
  <1>5. \A c : New(c).class = c /\ New(c).d = ch
    OBVIOUS
  <1> HIDE DEF New
  <1>6. \/ policy.scheme = "none"
        \/ cmd # "push" /\ policy.public = TRUE /\ (policy.scheme = "Basic" \/ auth_p = FALSE \/ policy.known = TRUE)
        \/ auth_p = TRUE /\ policy.known = TRUE /\ policy.permit = TRUE
    BY <1>1 DEF Entitled, Authorized
  <1>7. ~Granted(o)
    BY DEF o
  <1>8. CASE policy.scheme = "none"
    BY <1>7, <1>8 DEF Granted
  <1>9. CASE policy.scheme = "Basic"
    <2>1. ~(cmd # "push" /\ policy.public = TRUE)
      BY <1>2, <1>7, <1>9 DEF Granted
    <2>2. auth_p = TRUE /\ policy.known = TRUE /\ policy.permit = TRUE
      BY <1>6, <1>9, <2>1
    <2>3. auth.class # "Basic"
      BY <1>7, <1>9, <2>2 DEF Granted
    <2>4. auth = Auth_None
      BY <1>9, <2>3 DEF Usable, Scheme
    <2>5. auth.class = "None"
      BY <2>4 DEF Auth_None
    <2>6. "Basic" \in Candidates /\ Issued("Basic")
      BY <1>9, <2>2, <2>5 DEF Candidates, Escalators, Scheme, Authenticated, Issued
    <2>7. ~Same(New("Basic"))
      BY <1>5, <2>5 DEF Same
    <2> QED
      BY <1>3, <2>6, <2>7
  <1>10. CASE policy.scheme = "Bearer"
    <2>1. auth_p = TRUE => policy.known = TRUE
      BY <1>1, <1>6, <1>10
    <2>2. CASE auth = Auth_None
      <3>1. auth.class = "None"
        BY <2>2 DEF Auth_None
      <3> DEFINE c == IF auth_p = TRUE THEN "IDed" ELSE "Anon"
      <3>2. c \in Candidates
        BY <1>1, <1>10, <3>1 DEF Candidates, Escalators, Scheme, Authenticated
      <3>3. Issued(c)
        BY <2>1 DEF Issued
      <3>4. c # "None"
        OBVIOUS
      <3> HIDE DEF c
      <3>5. ~Same(New(c))
        BY <1>5, <3>1, <3>4 DEF Same
      <3> QED
        BY <1>3, <3>2, <3>3, <3>5
    <2>3. CASE auth # Auth_None
      <3>1. /\ auth.class \in {"Anon", "IDed"} /\ auth.live = TRUE
            /\ Authenticated(auth.class) = auth_p /\ (cmd # "push" => auth.d[1] = "pull")
        BY <1>10, <2>3 DEF Usable, Scheme
      <3>2. auth.d[1] = Scope(o) =>
              ~(policy.public = TRUE /\ Scope(o) # "push") /\ ~(auth.class = "IDed" /\ policy.permit = TRUE)
        BY <1>7, <1>10, <3>1 DEF Granted
      <3>3. auth.class = "IDed" <=> auth_p = TRUE
        BY <3>1, <1>1 DEF Authenticated
      <3>4. auth.d[1] # Scope(o)
        BY <1>2, <1>6, <1>10, <3>1, <3>2, <3>3
      <3>5. cmd = "push"
        BY <1>2, <3>1, <3>4
      <3>6. auth_p = TRUE /\ auth.class = "IDed"
        BY <3>3, <3>5 DEF Known
      <3>7. "IDed" \in Candidates /\ Issued("IDed")
        BY <1>10, <2>1, <3>6 DEF Candidates, Escalators, Scheme, Authenticated, Issued
      <3>8. ch # auth.d
        BY <1>4, <3>4
      <3>9. ~Same(New("IDed"))
        BY <1>5, <3>8 DEF Same
      <3> QED
        BY <1>3, <3>7, <3>9
    <2> QED
      BY <2>2, <2>3
  <1> QED
    BY <1>1, <1>8, <1>9, <1>10

LEMMA WritesRest ==
  ASSUME NEW s \in Seq(Request), NEW n, NEW t, Rest(s, n, t), Writes(s)
  PROVE  Writes(t)
  <1> SUFFICES ASSUME NEW i \in 1 .. Len(t) PROVE t[i].op \notin {"fatman", "get"}
    BY DEF Writes, Rest
  <1>1. i + n \in DOMAIN s /\ t[i] = s[i + n]
    BY DEF Rest
  <1> QED
    BY <1>1 DEF Writes

LEMMA InitKnown == Init => Known
  <1> SUFFICES ASSUME Init PROVE Known
    OBVIOUS
  <1>1. auth_p \in BOOLEAN /\ policy \in Policies /\ faults \in Nat /\ cmd # "push" /\ todo = << >>
    BY DEF Init
  <1>2. manifest # {} => Layers \subseteq manifest
    BY DEF Init, Blobs
  <1> QED
    BY <1>1, <1>2 DEF Known

LEMMA StepKnown == MInv /\ Known /\ [Next]_vars => Known'
  <1> SUFFICES ASSUME MInv, Known, [Next]_vars PROVE Known'
    OBVIOUS
  <1>1. policy' \in Policies /\ auth_p' \in BOOLEAN /\ faults' \in Nat /\ Layers' = Layers
    <2>1. policy' = policy
      BY DEF Next, Client, vars, registry, Start, NewHTTP, Prepare, PrepareFatal, Send, Escalate,
             Refused, Proceed, Fatal, End, Broken, Expire, Lose
    <2>2. auth_p' = auth_p \/ auth_p' \in BOOLEAN
      BY DEF Next, Client, vars, Start, NewHTTP, Prepare, PrepareFatal, Send, Escalate,
             Refused, Proceed, Fatal, End, Broken, Expire, Lose
    <2>3. faults' = faults \/ faults' = faults + 1
      BY DEF Next, Client, vars, Start, NewHTTP, Prepare, PrepareFatal, Send, Escalate,
             Refused, Proceed, Fatal, End, Broken, Expire, Lose, Fault
    <2>4. auth_p' \in BOOLEAN
      BY <2>2 DEF Known
    <2>5. faults' \in Nat
      BY <2>3 DEF Known
    <2> QED
      BY <2>1, <2>4, <2>5 DEF Known, Layers
  <1>2. cmd' = "push" => auth_p' = TRUE
    <2>1. (cmd' \in {cmd, "idle"} /\ auth_p' = auth_p) \/ (cmd' = "push" => auth_p' = TRUE)
      BY DEF Next, Client, vars, Start, NewHTTP, Prepare, PrepareFatal, Send, Escalate,
             Refused, Proceed, Fatal, End, Broken, Expire, Lose
    <2> QED
      BY <2>1 DEF Known
  <1>3. manifest' # {} => Layers \subseteq manifest'
    <2>1. manifest' = manifest \/ manifest' = Blobs(commands)
      BY DEF Next, Client, vars, registry, Start, NewHTTP, Prepare, PrepareFatal, Send, Escalate,
             Refused, Proceed, Fatal, End, Broken, Expire, Lose
    <2> QED
      BY <2>1 DEF Known, Blobs
  <1>4. cmd' = "push" => Writes(todo')
    <2>1. todo \in Seq(Request) /\ (cmd = "push" => Writes(todo))
      BY DEF MInv, ScriptOK, Known
    <2>2. CASE UNCHANGED todo /\ cmd' \in {cmd, "idle"}
      BY <2>1, <2>2
    <2>3. ASSUME NEW c \in {"push", "pull", "build"}, Start(c) PROVE cmd' = "push" => Writes(todo')
      <3>1. todo' = Script(c, commands') /\ commands' \in Nat /\ cmd' = c
        BY <2>3 DEF Start, MInv, ScriptOK
      <3> QED
        BY <3>1, PushScript DEF Script, Writes
    <2>4. CASE Active /\ todo' = Tail(todo) /\ cmd' = cmd
      BY <2>1, <2>4, ScriptFacts, WritesRest
    <2>5. CASE Active /\ Head(todo).op = "exists" /\ todo' = SubSeq(todo, 5, Len(todo)) /\ cmd' = cmd
      <3>1. Rest(todo, 4, todo')
        BY <2>5, ScriptFacts, SkipShape DEF Rest
      <3> QED
        BY <2>1, <2>5, <3>1, WritesRest
    <2>6. \/ UNCHANGED todo /\ cmd' \in {cmd, "idle"}
          \/ \E c \in {"push", "pull", "build"} : Start(c)
          \/ Active /\ todo' = Tail(todo) /\ cmd' = cmd
          \/ Active /\ Head(todo).op = "exists" /\ todo' = SubSeq(todo, 5, Len(todo)) /\ cmd' = cmd
      BY DEF Next, Client, vars, NewHTTP, Prepare, PrepareFatal, Send, Escalate,
             Refused, Proceed, Fatal, End, Broken, Expire, Lose, Active
    <2> QED
      BY <2>2, <2>3, <2>4, <2>5, <2>6
  <1> QED
    BY <1>1, <1>2, <1>3, <1>4 DEF Known

\* Going on to the next request, of a blob that was just uploaded or not.
LEMMA NextRequest ==
  ASSUME MInv, Active, todo' = Tail(todo), todo' # << >>
  PROVE  /\ Head(todo') = todo[2] /\ 2 \in DOMAIN todo
         /\ todo[2].op = "put" => todo[1].op = "post"
         /\ todo[2].op = "verify" => todo[1] = R("put", todo[2].b)
  <1>1. /\ todo \in Seq(Request) /\ Shape(todo) /\ Rest(todo, 1, todo') /\ Len(todo) \in Nat
    BY ScriptFacts
  <1>2. todo' \in Seq(Request) /\ Len(todo') = Len(todo) - 1 /\ Len(todo') > 0
    BY <1>1 DEF Rest
  <1>3. 1 \in 1 .. Len(todo') /\ Head(todo') = todo'[1] /\ 2 \in DOMAIN todo
    BY <1>1, <1>2
  <1>4. todo'[1] = todo[1 + 1]
    BY <1>1, <1>3 DEF Rest
  <1>5. ShapeAt(todo, 2)
    BY <1>1, <1>3 DEF Shape
  <1> QED
    BY <1>3, <1>4, <1>5 DEF ShapeAt

\* The rest of the script after an upload that was not needed.
LEMMA SkipRequest ==
  ASSUME MInv, Active, Head(todo).op = "exists", todo' = SubSeq(todo, 5, Len(todo)), todo' # << >>
  PROVE  Head(todo').op \notin {"put", "verify"}
  <1>1. /\ todo \in Seq(Request) /\ Shape(todo) /\ Rest(todo, 4, todo') /\ Len(todo) \in Nat
        /\ todo[4] = R("verify", todo[1].b)
    BY ScriptFacts, SkipShape DEF Rest
  <1>2. todo' \in Seq(Request) /\ Len(todo') = Len(todo) - 4 /\ Len(todo') > 0
    BY <1>1 DEF Rest
  <1>3. 1 \in 1 .. Len(todo') /\ Head(todo') = todo'[1] /\ 5 \in DOMAIN todo
    BY <1>1, <1>2
  <1>4. todo'[1] = todo[1 + 4]
    BY <1>1, <1>3 DEF Rest
  <1>5. ShapeAt(todo, 5)
    BY <1>1, <1>3 DEF Shape
  <1>6. todo[4].op = "verify" /\ \A b : R("put", b).op = "put"
    BY <1>1 DEF R
  <1> QED
    BY <1>3, <1>4, <1>5, <1>6 DEF ShapeAt

\* A granted request of an entitled command is answered the way it hopes.
LEMMA GoodAnswer ==
  ASSUME MInv, Known, Entitled, Smooth, at = "send",
         NEW r, r = Head(todo), r.op \notin {"new", "prepare"}
  PROVE  /\ Answer(r) # 401 /\ (r.op = "put" => Answer(r) = 201)
         /\ \/ Answer(r) \in Statuses(r.op) /\ Answer(r) \notin {404, 429}
            \/ r.op = "exists" /\ Answer(r) = 404
  <1>1. r.op \in Op \ {"new", "prepare"} /\ r = todo[1] /\ 1 \in DOMAIN todo
    BY ScriptFacts DEF Active
  <1>2. r.op \in {"fatman", "get"} => cmd # "push"
    BY <1>1 DEF Known, Writes
  <1>3. cmd # "push" => r.b \in Layers /\ manifest # {}
    BY <1>1 DEF MInv, ScriptOK, Reads, Active, Entitled, Authorized
  <1>4. body = TRUE
    BY DEF Smooth
  <1>5. r.op = "verify" => r.b \in repo
    BY DEF Smooth
  <1>6. manifest # {} => Layers \subseteq repo
    BY DEF Known, MInv, ManifestComplete
  <1>7. r.op \in {"fatman", "get"} => r.b \in repo /\ manifest # {}
    BY <1>2, <1>3, <1>6
  <1> QED
    BY <1>1, <1>4, <1>5, <1>7 DEF Answer, Statuses, Op

LEMMA InitGInv == Init => GInv
  BY InitKnown DEF Init, GInv

LEMMA StepGInv == MInv /\ MInv' /\ GInv /\ [Next]_vars => GInv'
  <1> SUFFICES ASSUME MInv, MInv', GInv, [Next]_vars, cmd' # "idle", faults' = 0, Entitled'
               PROVE  at' = "done" \/ Smooth'
    BY StepKnown DEF GInv
  <1> DEFINE r == Head(todo)
             Had == at = "done" \/ Smooth
  <1>0. Known /\ Known' /\ faults \in Nat
    BY StepKnown DEF GInv, Known
  <1>1. ASSUME UNCHANGED <<policy, auth_p, hist, manifest, cmd, faults>> PROVE Entitled /\ Had
    <2>1. Entitled
      BY <1>1 DEF Entitled, Authorized, HasLayer
    <2> QED
      BY <1>1, <2>1 DEF GInv
  <1>2. CASE UNCHANGED vars
    <2>1. Had
      BY <1>1, <1>2 DEF vars, registry
    <2>2. Smooth => Smooth'
      BY <1>2 DEF vars, registry, Smooth, Active, Usable, Scheme, Authenticated, Granted, Scope,
                  Statuses, Auth_None
    <2> QED
      BY <1>2, <2>1, <2>2 DEF vars
  <1>3. ASSUME NEW c \in {"push", "pull", "build"}, Start(c) PROVE Smooth'
    <2>1. /\ todo' = Script(c, commands') /\ at' = "send" /\ auth' = Auth_None /\ body' = TRUE
          /\ commands' \in Nat
      BY <1>3 DEF Start, MInv, ScriptOK
    <2>2. todo' \in Seq(Request) /\ todo' # << >> /\ todo'[1].op \in {"base", "fatman", "get", "new"}
      <3>1. CASE c = "push"
        BY <2>1, <3>1, PushScript DEF Script
      <3>2. CASE c # "push"
        <4>1. todo' \in Seq(Request) /\ todo' # << >> /\ Reads(todo')
          BY <2>1, <3>2, ReadScript
        <4>2. 1 \in DOMAIN todo'
          BY <4>1
        <4> QED
          BY <4>1, <4>2 DEF Reads
      <3> QED
        BY <3>1, <3>2
    <2>3. Head(todo') = todo'[1]
      BY <2>2
    <2>4. Head(todo').op \notin {"put", "verify"}
      BY <2>2, <2>3
    <2> QED
      BY <2>1, <2>4 DEF Smooth, Active, Usable, Auth_None
  <1>4. CASE NewHTTP \/ Prepare
    <2>1. /\ Active /\ at = "send" /\ at' = "send" /\ todo' = Tail(todo) /\ r.op \in {"new", "prepare"}
          /\ UNCHANGED <<policy, auth_p, manifest, cmd, faults, repo, body>>
          /\ \/ auth' = Auth_None /\ UNCHANGED hist
             \/ UNCHANGED auth /\ HasLayer(hist)
      BY <1>4 DEF NewHTTP, Prepare, registry, Active
    <2>2. Entitled
      BY <2>1 DEF Entitled, Authorized, HasLayer
    <2>3. Smooth
      BY <2>1, <2>2 DEF GInv
    <2>4. todo' # << >>
      BY <2>1 DEF MInv, ScriptOK, Active
    <2>5. Head(todo').op \notin {"put", "verify"}
      <3>1. r = todo[1]
        BY <2>1, ScriptFacts
      <3>2. \A b : R("put", b).op = "put"
        BY DEF R
      <3> QED
        BY <2>1, <2>4, <3>1, <3>2, NextRequest
    <2>6. Usable'
      BY <2>1, <2>3 DEF Smooth, Usable, Auth_None, Scheme, Authenticated
    <2> QED
      BY <2>1, <2>3, <2>5, <2>6 DEF Smooth, Active
  <1>5. CASE Send
    <2>1. /\ at = "send" /\ at' = "reply" /\ r.op \notin {"new", "prepare"}
          /\ UNCHANGED <<policy, cmd, auth_p, todo, auth, hist, faults>>
          /\ status' = (IF Granted(r.op) THEN Answer(r) ELSE 401)
          /\ body' = (r.op = "put" => r.b \notin Layers)
          /\ repo' = (IF r.op = "put" /\ status' = 201 THEN repo \cup {r.b} ELSE repo)
          /\ r.op # "manifest" => UNCHANGED manifest
      BY <1>5 DEF Send
    <2>2. r.op = "manifest" => cmd = "push"
      BY <2>1, PushOps DEF Active
    <2>3. Entitled /\ Smooth
      <3>1. Entitled
        BY <2>1, <2>2 DEF Entitled, Authorized, HasLayer
      <3> QED
        BY <2>1, <3>1 DEF GInv
    <2>4. /\ Answer(r) # 401 /\ (r.op = "put" => Answer(r) = 201)
          /\ \/ Answer(r) \in Statuses(r.op) /\ Answer(r) \notin {404, 429}
             \/ r.op = "exists" /\ Answer(r) = 404
      BY <1>0, <2>1, <2>3, GoodAnswer
    <2>5. \A o : Granted(o)' <=> Granted(o)
      BY <2>1 DEF Granted, Scope
    <2>6. Usable'
      BY <2>1, <2>3 DEF Smooth, Usable, Auth_None, Scheme, Authenticated
    <2>7. r' = r
      BY <2>1
    <2>8. r.op = "put" => status' = 201 /\ r.b \in repo'
      BY <2>1, <2>3, <2>4 DEF Smooth
    <2>9. r.op = "verify" => r.b \in repo'
      BY <2>1, <2>3 DEF Smooth
    <2>10. r.op # "put" => body' = TRUE
      BY <2>1
    <2>11. (status' = 401 <=> ~Granted(r.op)) /\ (status' # 401 => status' = Answer(r))
      BY <2>1, <2>4
    <2> HIDE DEF r
    <2>12. Smooth'
      <3>1. Head(todo') = r
        BY <2>1 DEF r
      <3>2. Statuses(r.op)' = Statuses(r.op) /\ (Granted(r.op)' <=> Granted(r.op))
        BY <2>5, <2>7 DEF Statuses, Granted, Scope
      <3> QED
        BY <2>1, <2>4, <2>6, <2>7, <2>8, <2>9, <2>10, <2>11, <3>1, <3>2 DEF Smooth, Active
    <2> QED
      BY <2>12
  <1>6. CASE Escalate
    <2>1. /\ at = "reply" /\ status = 401 /\ auth' \in NewAuth /\ at' = "send"
          /\ UNCHANGED <<policy, repo, manifest, cmd, auth_p, todo, status, body, hist, faults>>
      BY <1>6 DEF Escalate, registry
    <2>2. Smooth
      BY <1>1, <2>1
    <2>3. PICK class \in Candidates : auth' = [class |-> class, d |-> Challenge(r.op), live |-> TRUE]
      BY <2>1 DEF NewAuth
    <2>4. Scheme(class) = policy.scheme /\ Authenticated(class) = auth_p /\ class \in {"Basic", "Anon", "IDed"}
      BY DEF Candidates, Escalators
    <2>5. auth'.class = class /\ auth'.live = TRUE /\ auth'.d = Challenge(r.op)
      BY <2>3
    <2>6. cmd # "push" => auth'.d[1] = "pull"
      BY <2>1, <2>5, ReadScope DEF Challenge
    <2>7. Usable'
      BY <2>1, <2>4, <2>5, <2>6 DEF Usable, Scheme, Authenticated
    <2>8. r.op # "put"
      BY <2>1, <2>2 DEF Smooth
    <2> QED
      BY <2>1, <2>2, <2>7, <2>8 DEF Smooth, Active
  <1>7. CASE Refused
    <2>1. /\ at = "reply" /\ status = 401 /\ NewAuth = {}
          /\ UNCHANGED <<policy, manifest, cmd, auth_p, hist, faults>>
      BY <1>7 DEF Refused, registry
    <2>2. Smooth /\ Entitled
      BY <1>1, <2>1
    <2>3. ~Granted(r.op) /\ Usable
      BY <2>1, <2>2 DEF Smooth
    <2> QED
      BY <1>0, <2>1, <2>2, <2>3, EscalationGoesOn
  <1>8. CASE Proceed
    <2>1. /\ at = "reply" /\ status # 401 /\ body' = TRUE
          /\ at' = (IF todo' = << >> THEN "done" ELSE "send")
          /\ todo' = (IF r.op = "exists" /\ status = 200 THEN SubSeq(todo, 5, Len(todo)) ELSE Tail(todo))
          /\ UNCHANGED <<policy, repo, manifest, cmd, auth_p, auth, hist, faults>>
      BY <1>8 DEF Proceed, registry
    <2>2. SUFFICES ASSUME todo' # << >> PROVE Smooth'
      BY <2>1
    <2>3. Smooth
      BY <1>1, <2>1
    <2>4. Usable'
      BY <2>1, <2>3 DEF Smooth, Usable, Auth_None, Scheme, Authenticated
    <2>5. Granted(r.op) /\ r = todo[1] /\ Active
      BY <2>1, <2>3, ScriptFacts DEF Smooth, Active
    <2>6. CASE r.op = "exists" /\ status = 200
      <3>1. Head(todo').op \notin {"put", "verify"}
        BY <2>1, <2>2, <2>5, <2>6, SkipRequest
      <3> QED
        BY <2>1, <2>2, <2>4, <3>1 DEF Smooth, Active
    <2>7. CASE ~(r.op = "exists" /\ status = 200)
      <3>1. /\ Head(todo').op = "put" => r.op = "post"
            /\ Head(todo').op = "verify" => r = R("put", Head(todo').b)
        BY <2>1, <2>2, <2>5, <2>7, NextRequest
      <3>2. Head(todo').op = "put" => Granted("put")'
        BY <2>1, <2>5, <3>1 DEF Granted, Scope
      <3>3. Head(todo').op = "verify" => Head(todo').b \in repo'
        <4>1. \A b : R("put", b).op = "put" /\ R("put", b).b = b
          BY DEF R
        <4>2. r.op = "put" => r.b \in repo
          BY <2>1, <2>3 DEF Smooth
        <4>3. Head(todo').op = "verify" => r.op = "put" /\ r.b = Head(todo').b
          BY <3>1, <4>1
        <4>4. repo' = repo
          BY <2>1
        <4> QED
          BY <4>2, <4>3, <4>4
      <3> QED
        BY <2>1, <2>2, <2>4, <3>2, <3>3 DEF Smooth, Active
    <2> QED
      BY <2>6, <2>7
  <1>9. CASE Fatal
    <2>1. /\ at = "reply" /\ status # 401
          /\ \/ status \notin Statuses(r.op)
             \/ r.op \in {"verify", "fatman"} /\ status # 200
          /\ UNCHANGED <<policy, manifest, cmd, auth_p, hist, faults>>
      BY <1>9 DEF Fatal, registry
    <2>2. Smooth
      BY <1>1, <2>1
    <2> QED
      BY <2>1, <2>2 DEF Smooth, Statuses
  <1>10. CASE PrepareFatal
    <2>1. at = "send" /\ r.op = "prepare" /\ ~HasLayer(hist) /\ UNCHANGED <<cmd, hist>>
      BY <1>10 DEF PrepareFatal
    <2>2. cmd = "push"
      BY <2>1, PushOps DEF Active
    <2> QED
      BY <2>1, <2>2 DEF Entitled, Authorized, HasLayer
  <1>11. CASE End
    BY <1>11 DEF End
  <1>12. CASE Broken \/ Expire \/ Lose
    BY <1>0, <1>12 DEF Broken, Expire, Lose, Fault
  <1> QED
    BY <1>2, <1>3, <1>4, <1>5, <1>6, <1>7, <1>8, <1>9, <1>10, <1>11, <1>12 DEF Next, Client

\* Whoever may push or pull, can: without faults a command fails only if the
\* registry does not have the image, the image has no layer, or the user is
\* not entitled to it (HTTP.request, Auth.escalate).
THEOREM FailureHasReason == Spec => []FailsForAReason
  <1>1. GInv => FailsForAReason
    BY DEF GInv, FailsForAReason, Smooth, Active
  <1> QED
    BY <1>1, InitMInv, StepMInv, InitGInv, StepGInv, PTL DEF Spec
=============================================================================
