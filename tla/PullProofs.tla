----------------------------- MODULE PullProofs -----------------------------
(***************************************************************************)
(* Proofs about Storage and Pull, for any processes, any images and any    *)
(* number of commands, kills and changes in the registry.                  *)
(***************************************************************************)
EXTENDS Pull, SequenceTheorems, TLAPS

\* init makes four directories, and starts with none.
MkCount ==
    \A p \in Proc : /\ pc[p] \notin Inside => mk[p] = 0
                    /\ pc[p] = "mkdir" => mk[p] < 4

TInv == TypeOK /\ MkCount

LEMMA InitTInv == Init => TInv
  <1> SUFFICES ASSUME Init PROVE TInv
    OBVIOUS
  <1>1. root \in BOOLEAN
    BY DEF Init, Absent, Found
  <1>2. dir \subseteq Entry
    BY DEF Init, Absent, Found, Entry
  <1>3. /\ version \in {NoVersion, 6, STORAGE_VERSION, Torn}
        /\ inodes \in Nat /\ ino \in 0 .. inodes
    BY DEF Init, Absent, Found, STORAGE_VERSION
  <1> QED
    BY <1>1, <1>2, <1>3, StorageAssumption DEF Init, TInv, TypeOK, MkCount, ProcInit

\* What the commands do inside storage that matters to the processes there.
LEMMA PullStepFs ==
  ASSUME NEW p \in Proc, PullStep(p)
  PROVE  /\ pc[p] = "work"
         /\ \/ UNCHANGED procVars \/ Ends(p)
         /\ UNCHANGED <<root, version, ino, inodes, commands, kills>>
         /\ dir' \in {dir, dir \cup {"imgtmp"}, dir \ {"imgtmp"}}
  BY DEF PullStep, Begin, Unavailable, Open, Stream, Unlink, Rename, FatmanFat,
         FatmanSkinny, FatmanFatal, ManifestLoad, ManifestFatal, NextBlob,
         CheckoutCached, UnpackDelete, Unpack, Adopt, Commit, Finish, Set, Fatal,
         Ends, Gone, Fs

LEMMA StepTInv == TInv /\ [Next]_vars => TInv'
  <1> SUFFICES ASSUME TInv, [Next]_vars PROVE TInv'
    OBVIOUS
  <1> USE StorageAssumption
      DEF TInv, TypeOK, MkCount, Entry, STORAGE_VERSION, NoVersion, Torn, Inside,
          Go, Gone, Ends, Fs
  <1>1. CASE UNCHANGED vars
    BY <1>1 DEF vars, storageVars, procVars
  <1>2. ASSUME NEW s \in Src, Update(s) PROVE TInv'
    BY <1>2 DEF Update, storageVars, procVars
  <1>3. ASSUME NEW p \in Proc, PullStep(p) PROVE TInv'
    BY <1>3, PullStepFs DEF procVars
  <1>4. ASSUME NEW p \in Proc, StorageStep(p) PROVE TInv'
    <2>1. ASSUME NEW c \in {"use", "reset"}, Start(p, c) PROVE TInv'
      BY <2>1 DEF Start
    <2>2. CASE Look(p)
      BY <2>2 DEF Look
    <2>3. CASE LookFatal(p) \/ VersionFatal(p) \/ MkRootFatal(p) \/ LockFatal(p) \/ InsideFatal(p)
               \/ CleanupFatal(p) \/ ResetFatal(p)
      BY <2>3 DEF LookFatal, VersionFatal, MkRootFatal, LockFatal, InsideFatal, CleanupFatal, ResetFatal
    <2>4. CASE Version(p)
      BY <2>4 DEF Version, version_read
    <2>5. CASE MkRoot(p)
      BY <2>5 DEF MkRoot
    <2>6. CASE LockOpen(p)
      BY <2>6 DEF LockOpen
    <2>7. CASE LockF(p)
      BY <2>7 DEF LockF
    <2>8. CASE MkDir(p)
      <3>1. Dirs[mk[p] + 1] \in DirSet
        BY <2>8 DEF MkDir, DirSet
      <3> QED
        BY <2>8, <3>1 DEF MkDir
    <2>9. CASE UpgradeLinks(p)
      BY <2>9 DEF UpgradeLinks
    <2>10. CASE VersionWrite(p)
      BY <2>10 DEF VersionWrite
    <2>11. CASE Strict(p)
      BY <2>11 DEF Strict
    <2>12. CASE cleanup(p)
      BY <2>12 DEF cleanup
    <2>13. CASE Reset(p)
      BY <2>13 DEF Reset
    <2>14. CASE ResetRemove(p)
      BY <2>14 DEF ResetRemove
    <2>15. CASE ResetRmdir(p)
      BY <2>15 DEF ResetRmdir
    <2>16. CASE Kill(p)
      BY <2>16 DEF Kill
    <2> QED
      BY <1>4, <2>1, <2>2, <2>3, <2>4, <2>5, <2>6, <2>7, <2>8, <2>9, <2>10, <2>11,
         <2>12, <2>13, <2>14, <2>15, <2>16 DEF StorageStep
  <1> QED
    BY <1>1, <1>2, <1>3, <1>4 DEF Next

\* Whatever processes do, also beside a reset: the storage directory and the
\* processes that use it are as described in module Storage, and none goes on
\* with a version of storage that it cannot upgrade.
THEOREM TypeCorrect == Spec => []TypeOK
  <1>1. TInv => TypeOK
    BY DEF TInv
  <1> QED
    BY <1>1, InitTInv, StepTInv, PTL DEF Spec

-----------------------------------------------------------------------------
(* The lock *)

\* A process that resets storage is alone, as ResetAlone says.
Alone ==
    \A p \in Proc : /\ pc[p] \in {"reset", "rm"} => cmd[p] = "reset"
                    /\ cmd[p] = "reset" /\ pc[p] # "idle" =>
                         \A q \in Proc \ {p} : pc[q] = "idle"

\* All that have the lock, or are about to ask for it, have the same file
\* open, and that is the one called "lock".
SameFile ==
    /\ holds = {p \in Proc : pc[p] \in Inside}
    /\ \A p \in Proc : pc[p] \in Inside \cup {"lockf"} => "lock" \in dir /\ fp[p] = ino

EInv == TInv /\ Alone /\ SameFile /\ Exclusive

LEMMA InitEInv == Init => EInv
  BY InitTInv DEF Init, EInv, Alone, SameFile, Exclusive, ProcInit, Inside

LEMMA StepEInv ==
  ASSUME ResetAlone = TRUE
  PROVE  EInv /\ [Next]_vars => EInv'
  <1> SUFFICES ASSUME EInv, [Next]_vars PROVE (Alone /\ SameFile /\ Exclusive)'
    BY StepTInv DEF EInv
  <1> USE DEF EInv, TInv, TypeOK, Alone, SameFile, Exclusive, Inside, Go, Gone, Ends, Fs
  <1>1. CASE UNCHANGED vars
    BY <1>1 DEF vars, storageVars, procVars
  <1>2. ASSUME NEW s \in Src, Update(s) PROVE (Alone /\ SameFile /\ Exclusive)'
    BY <1>2 DEF Update, storageVars, procVars
  <1>3. ASSUME NEW p \in Proc, PullStep(p) PROVE (Alone /\ SameFile /\ Exclusive)'
    BY <1>3, PullStepFs DEF procVars
  <1>4. ASSUME NEW p \in Proc, StorageStep(p) PROVE (Alone /\ SameFile /\ Exclusive)'
    <2>1. ASSUME NEW c \in {"use", "reset"}, Start(p, c)
          PROVE  (Alone /\ SameFile /\ Exclusive)'
      BY <2>1 DEF Start
    <2>2. CASE Look(p)
      BY <2>2 DEF Look
    <2>3. CASE LookFatal(p) \/ VersionFatal(p) \/ MkRootFatal(p) \/ LockFatal(p) \/ InsideFatal(p)
               \/ CleanupFatal(p) \/ ResetFatal(p)
      BY <2>3 DEF LookFatal, VersionFatal, MkRootFatal, LockFatal, InsideFatal, CleanupFatal, ResetFatal
    <2>4. CASE Version(p)
      BY <2>4 DEF Version
    <2>5. CASE MkRoot(p)
      BY <2>5 DEF MkRoot
    <2>6. CASE LockOpen(p)
      BY <2>6 DEF LockOpen
    <2>7. CASE LockF(p)
      BY <2>7 DEF LockF
    <2>8. CASE MkDir(p)
      BY <2>8 DEF MkDir
    <2>9. CASE UpgradeLinks(p)
      BY <2>9 DEF UpgradeLinks
    <2>10. CASE VersionWrite(p)
      BY <2>10 DEF VersionWrite
    <2>11. CASE Strict(p)
      BY <2>11 DEF Strict
    <2>12. CASE cleanup(p)
      BY <2>12 DEF cleanup
    <2>13. CASE Reset(p)
      BY <2>13 DEF Reset
    <2>14. CASE ResetRemove(p)
      BY <2>14 DEF ResetRemove
    <2>15. CASE ResetRmdir(p)
      BY <2>15 DEF ResetRmdir
    <2>16. CASE Kill(p)
      BY <2>16 DEF Kill
    <2> QED
      BY <1>4, <2>1, <2>2, <2>3, <2>4, <2>5, <2>6, <2>7, <2>8, <2>9, <2>10, <2>11,
         <2>12, <2>13, <2>14, <2>15, <2>16 DEF StorageStep
  <1> QED
    BY <1>1, <1>2, <1>3, <1>4 DEF Next

\* If nobody runs reset beside another command, no two of any number of
\* ch-image processes are in the storage directory (Storage.lock).
THEOREM LockExcludes ==
  ASSUME ResetAlone = TRUE
  PROVE  Spec => []Exclusive
  <1>1. EInv => Exclusive
    BY DEF EInv
  <1> QED
    BY <1>1, InitEInv, StepEInv, PTL DEF Spec

-----------------------------------------------------------------------------
(* What pulls keep: types *)

Fetching == {"open", "stream", "unlink", "rename"}
At == Fetching \cup {"none", "fatman", "unaware", "manifest", "blobs", "unpack",
                     "adopt", "commit"}
ManKey(d) == {"man"} \X {d} \X (Manifest \cup {"skinny"})
BlobKey == {"blob"} \X Blob
Key == ({"fat"} \X Dst) \cup (UNION {ManKey(d) : d \in Dst}) \cup BlobKey
Content == {Bad, [k |-> "link"], [k |-> "badlink"], [k |-> "partial"]} \cup Listing
           \cup [k : {"blob"}, of : Blob] \cup [k : {"skinny"}, of : Manifest]
Arch == (UNION {ArchFor[d] : d \in Dst}) \cup {"yolo", None}
Puller == [at : At, src : Src \cup {None}, dst : Dst \cup {None}, asked : Arch,
           arch : Arch, file : Key \cup {None},
           ret : {"fatman", "manifest", "blobs", None}, man : Manifest \cup {None},
           todo : Seq(Blob \cup Content), n : Nat, of : SUBSET Manifest]

\* A pull that knows its manifest.
Loading(q) == \/ q.at \in {"blobs", "unpack", "adopt", "commit"}
              \/ q.at \in Fetching /\ q.ret = "blobs"

\* What a pull is about: the file that is being fetched, for whom, and what
\* has been learnt already.
Fits(q) ==
    /\ q.src \in Src /\ q.dst \in Dst
    /\ q.at \in Fetching => \/ q.ret = "fatman" /\ q.file = <<"fat", q.dst>>
                            \/ q.ret = "manifest" /\ q.file \in ManKey(q.dst)
                            \/ q.ret = "blobs" /\ q.file \in BlobKey
    /\ q.at = "manifest" => q.file \in ManKey(q.dst)
    /\ Loading(q) => q.man \in Manifest
    /\ q.at \in Fetching \cup {"blobs"} /\ Loading(q) => q.todo \in Seq(Blob)
    /\ q.at = "commit" => q.todo \in Seq(Content)

DlType == \A n \in DOMAIN dl : dl[n] \in Content
PullType ==
    /\ remote \in [Src -> Listing]
    /\ image \in [Dst -> Seq(Content)]
    /\ DOMAIN cached \subseteq Manifest /\ \A m \in DOMAIN cached : cached[m] \in Seq(Content)
    /\ pull \in [Proc -> Puller]
    /\ \A p \in Proc : /\ pc[p] # "work" => pull[p] = NoPull
                       /\ pull[p].at # "none" => Fits(pull[p])

PInv == TInv /\ DlType /\ PullType

LEMMA ArchKeyIn ==
  ASSUME NEW of, NEW a, ArchKey(of, a) # None
  PROVE  ArchKey(of, a) \in DOMAIN of
  <1> DEFINE alts == IF a \in DOMAIN Fallback THEN Fallback[a] ELSE << >>
             have == {i \in DOMAIN alts : alts[i] \in DOMAIN of}
  <1>1. CASE a \in DOMAIN of
    BY <1>1 DEF ArchKey
  <1>2. CASE a \notin DOMAIN of
    <2>1. have # {} /\ ArchKey(of, a) = alts[CHOOSE i \in have : \A j \in have : i <= j]
      BY <1>2 DEF ArchKey
    <2>2. DOMAIN alts \subseteq {1}
      BY DEF Fallback
    <2>3. have = {1}
      BY <2>1, <2>2
    <2>4. (CHOOSE i \in have : \A j \in have : i <= j) \in have
      BY <2>3
    <2> QED
      BY <2>1, <2>4
  <1> QED
    BY <1>1, <1>2

\* Content that is a manifest or a manifest list names manifests.
LEMMA ContentFacts ==
  ASSUME NEW c \in Content
  PROVE  /\ c.k = "skinny" => c.of \in Manifest
         /\ c.k = "fat" => \A a \in DOMAIN c.of : c.of[a] \in Manifest
  BY PullAssumption DEF Content, Bad

LEMMA OffersManifest ==
  ASSUME NEW c \in Content, c.k \in {"skinny", "fat"}, NEW a
  PROVE  Offers(c, a) \subseteq Manifest
  BY ContentFacts, ArchKeyIn DEF Offers

LEMMA WriteType ==
  ASSUME DlType, NEW f, NEW c \in Content, NEW gone, dl' = Without(Write(f, c), gone)
  PROVE  DlType'
  BY DEF DlType, Write, Without

LEMMA WriteIsWithout == ASSUME NEW f, NEW c PROVE Write(f, c) = Without(Write(f, c), {})
  BY DEF Write, Without

LEMMA RawContent ==
  ASSUME DlType, NEW k PROVE Raw(k) \in Content /\ Read(k) \in Content
  BY DEF DlType, Raw, Read, Exists, Content

\* A step of a puller, from types of what it changes.
LEMMA SetFacts ==
  ASSUME pull \in [Proc -> Puller], NEW p \in Proc, NEW r \in Puller, Set(p, r)
  PROVE  /\ pull' \in [Proc -> Puller] /\ pull'[p] = r
         /\ \A q \in Proc \ {p} : pull'[q] = pull[q]
         /\ pc' = pc /\ pc[p] = "work"
  BY DEF Set, procVars

LEMMA SetType ==
  ASSUME PullType, NEW p \in Proc, NEW r \in Puller, Set(p, r),
         r.at # "none" => Fits(r), remote' = remote,
         image' = image \/ \E d \in Dst, c \in Seq(Content) : image' = [image EXCEPT ![d] = c],
         (\/ cached' = cached
          \/ DOMAIN cached' \subseteq Manifest /\ \A m \in DOMAIN cached' : cached'[m] \in Seq(Content))
  PROVE  PullType'
  <1>1. /\ pull' \in [Proc -> Puller] /\ pull'[p] = r
        /\ \A q \in Proc \ {p} : pull'[q] = pull[q]
        /\ pc' = pc /\ pc[p] = "work"
    BY SetFacts DEF PullType
  <1>2. image' \in [Dst -> Seq(Content)]
    BY DEF PullType
  <1>3. \A q \in Proc :
          /\ pc'[q] # "work" => pull'[q] = NoPull
          /\ pull'[q].at # "none" => Fits(pull'[q])
    BY <1>1 DEF PullType
  <1> QED
    BY <1>1, <1>2, <1>3 DEF PullType

LEMMA NoPullType == NoPull \in Puller /\ NoPull.at = "none"
  <1>1. << >> \in Seq(Blob \cup Content) /\ {} \in SUBSET Manifest /\ 0 \in Nat
    OBVIOUS
  <1> QED
    BY <1>1 DEF NoPull, Puller, At, Arch

LEMMA InitPInv == Init => PInv
  <1> SUFFICES ASSUME Init PROVE PInv
    OBVIOUS
  <1>1. DlType
    BY DEF DlType, Init, Absent, Found, Only, Content
  <1>2. PullType
    BY NoPullType DEF Init, PullType
  <1> QED
    BY <1>1, <1>2, InitTInv DEF PInv

LEMMA KeyFacts ==
  ASSUME NEW d \in Dst
  PROVE  /\ <<"fat", d>> \in Key
         /\ \A x \in Manifest \cup {"skinny"} :
              <<"man", d, x>> \in ManKey(d) /\ <<"man", d, x>> \in Key
         /\ \A b \in Blob : <<"blob", b>> \in BlobKey /\ <<"blob", b>> \in Key
  BY DEF Key, ManKey, BlobKey

\* Pull p goes on with the same file.
LEMMA SameFileType ==
  ASSUME PInv, NEW p \in Proc, NEW at \in At, pull[p].at \in Fetching,
         \/ at \in Fetching \/ at = pull[p].ret
  PROVE  [pull[p] EXCEPT !.at = at] \in Puller /\ Fits([pull[p] EXCEPT !.at = at])
  BY DEF PInv, PullType, Puller, At, Fetching, Fits, Loading

LEMMA BeginType == ASSUME PInv, NEW p \in Proc, Begin(p) PROVE (DlType /\ PullType)'
  <1> DEFINE q == pull[p]
  <1>0. q \in Puller /\ remote \in [Src -> Listing] /\ PullType /\ DlType
    BY DEF PInv, PullType
  <1>1. PICK s \in Src, d \in Dst : \E a \in IF q.n = 0 THEN ArchFor[d] ELSE {q.asked} :
          LET arch == IF q.n = 0 THEN a ELSE q.arch
              fat == arch # "yolo"
          IN Set(p, [NoPull EXCEPT
                      !.at = "open", !.src = s, !.dst = d, !.asked = a,
                      !.arch = arch, !.n = q.n + 1,
                      !.file = IF fat THEN <<"fat", d>> ELSE <<"man", d, "skinny">>,
                      !.ret = IF fat THEN "fatman" ELSE "manifest",
                      !.of = Offers(remote[s], a)])
    BY DEF Begin
  <1>2. PICK a \in IF q.n = 0 THEN ArchFor[d] ELSE {q.asked} :
          LET arch == IF q.n = 0 THEN a ELSE q.arch
              fat == arch # "yolo"
          IN Set(p, [NoPull EXCEPT
                      !.at = "open", !.src = s, !.dst = d, !.asked = a,
                      !.arch = arch, !.n = q.n + 1,
                      !.file = IF fat THEN <<"fat", d>> ELSE <<"man", d, "skinny">>,
                      !.ret = IF fat THEN "fatman" ELSE "manifest",
                      !.of = Offers(remote[s], a)])
    BY <1>1
  <1> DEFINE arch == IF q.n = 0 THEN a ELSE q.arch
             file == IF arch # "yolo" THEN <<"fat", d>> ELSE <<"man", d, "skinny">>
             ret == IF arch # "yolo" THEN "fatman" ELSE "manifest"
             r == [NoPull EXCEPT
                     !.at = "open", !.src = s, !.dst = d, !.asked = a, !.arch = arch,
                     !.n = q.n + 1, !.file = file, !.ret = ret,
                     !.of = Offers(remote[s], a)]
  <1>3. Set(p, r)
    BY <1>2
  <1>4. a \in Arch /\ arch \in Arch
    BY <1>0 DEF Arch, Puller
  <1>5. /\ file \in Key /\ ret \in {"fatman", "manifest"} /\ q.n + 1 \in Nat
        /\ ret = "fatman" => file = <<"fat", d>>
        /\ ret = "manifest" => file \in ManKey(d)
    BY <1>0, KeyFacts DEF Puller
  <1>6. Offers(remote[s], a) \in SUBSET Manifest
    <2>1. remote[s] \in Content /\ remote[s].k \in {"skinny", "fat"}
      BY <1>0, PullAssumption DEF Content
    <2> QED
      BY <2>1, OffersManifest
  <1> HIDE DEF file, ret, arch
  <1>7. r \in Puller
    <2>1. "open" \in At /\ NoPull \in Puller
      BY NoPullType DEF At, Fetching
    <2> QED
      BY <1>4, <1>5, <1>6, <2>1, Zenon DEF Puller
  <1>8. r.at = "open" /\ r.src = s /\ r.dst = d /\ r.file = file /\ r.ret = ret
    BY NoPullType DEF Puller
  <1>9. Fits(r)
    <2> HIDE DEF r
    <2> QED
      BY <1>5, <1>8 DEF Fits, Loading, Fetching
  <1> QED
    BY <1>0, <1>3, <1>7, <1>9, SetType DEF Begin, Quiet, DlType

LEMMA OpenType == ASSUME PInv, NEW p \in Proc, Open(p) PROVE (DlType /\ PullType)'
  <1> DEFINE r == [pull[p] EXCEPT !.at = "stream"]
  <1>1. r \in Puller /\ Fits(r)
    BY SameFileType DEF Open, At, Fetching
  <1>2. DlType'
    <2>1. [k |-> "partial"] \in Content
      BY DEF Content
    <2> QED
      BY <2>1, WriteType, WriteIsWithout DEF Open, PInv
  <1> QED
    BY <1>1, <1>2, SetType DEF Open, Quiet, PInv

LEMMA ResponseContent ==
  ASSUME PInv, NEW p \in Proc, pull[p].at \in Fetching, NEW c \in Responses(pull[p])
  PROVE  c \in Content
  <1> DEFINE q == pull[p]
  <1>1. q \in Puller /\ Fits(q) /\ remote[q.src] \in Listing
    BY DEF PInv, PullType, Fits, Fetching
  <1>2. remote[q.src] \in Content /\ remote[q.src].k \in {"skinny", "fat"}
    BY <1>1, PullAssumption DEF Content
  <1>3. Offers(remote[q.src], "yolo") \subseteq Manifest
    BY <1>2, OffersManifest
  <1>4. q.file[1] = "blob" => q.file[2] \in Blob
    BY <1>1 DEF Fits, BlobKey, ManKey
  <1>5. q.file[1] \notin {"blob", "fat"} /\ q.file[3] # "skinny" => q.file[3] \in Manifest
    BY <1>1 DEF Fits, BlobKey, ManKey
  <1> QED
    BY <1>2, <1>3, <1>4, <1>5 DEF Responses, Content

LEMMA StreamType == ASSUME PInv, NEW p \in Proc, Stream(p) PROVE (DlType /\ PullType)'
  <1> DEFINE r == [pull[p] EXCEPT !.at = "unlink"]
  <1>1. r \in Puller /\ Fits(r)
    BY SameFileType DEF Stream, At, Fetching
  <1>2. DlType'
    <2>1. PICK c \in Responses(pull[p]) : dl' = Write(Part(pull[p].file), c)
      BY DEF Stream
    <2>2. c \in Content
      BY <2>1, ResponseContent DEF Stream, Fetching
    <2> QED
      BY <2>1, <2>2, WriteType, WriteIsWithout DEF PInv
  <1> QED
    BY <1>1, <1>2, SetType DEF Stream, Quiet, PInv

LEMMA UnlinkType == ASSUME PInv, NEW p \in Proc, Unlink(p) PROVE (DlType /\ PullType)'
  <1> DEFINE r == [pull[p] EXCEPT !.at = "rename"]
  <1>1. r \in Puller /\ Fits(r)
    BY SameFileType DEF Unlink, At, Fetching
  <1>2. DlType'
    BY DEF Unlink, DlType, PInv, Without
  <1> QED
    BY <1>1, <1>2, SetType DEF Unlink, Quiet, PInv

LEMMA RenameType == ASSUME PInv, NEW p \in Proc, Rename(p) PROVE (DlType /\ PullType)'
  <1> DEFINE r == [pull[p] EXCEPT !.at = pull[p].ret]
  <1>1. pull[p].ret \in At
    BY DEF PInv, PullType, Rename, Fits, Fetching, At
  <1>2. r \in Puller /\ Fits(r)
    BY <1>1, SameFileType DEF Rename, Fetching
  <1>3. DlType'
    <2>1. dl[Part(pull[p].file)] \in Content
      BY DEF Rename, PInv, DlType
    <2> QED
      BY <2>1, WriteType DEF Rename, PInv
  <1> QED
    BY <1>2, <1>3, SetType DEF Rename, Quiet, PInv

LEMMA FatmanFatType ==
  ASSUME PInv, NEW p \in Proc, FatmanFat(p) PROVE (DlType /\ PullType)'
  <1> DEFINE q == pull[p]
             x == Fat(q).of[ArchKey(Fat(q).of, q.arch)]
             file == <<"man", q.dst, x>>
             r == [q EXCEPT !.at = "open", !.ret = "manifest", !.file = file]
  <1>1. q \in Puller /\ q.src \in Src /\ q.dst \in Dst
    BY DEF PInv, PullType, Fits, FatmanFat
  <1>2. x \in Manifest
    BY ArchKeyIn, RawContent, ContentFacts DEF FatmanFat, Fat, PInv
  <1>3. file \in Key /\ file \in ManKey(q.dst)
    BY <1>1, <1>2, KeyFacts
  <1>4. Set(p, r)
    BY DEF FatmanFat
  <1> HIDE DEF file
  <1>5. r \in Puller
    <2>1. "open" \in At
      BY DEF At, Fetching
    <2> QED
      BY <1>1, <1>3, <2>1, Zenon DEF Puller
  <1>6. r.at = "open" /\ r.src = q.src /\ r.dst = q.dst /\ r.file = file /\ r.ret = "manifest"
    BY <1>1 DEF Puller
  <1>7. Fits(r)
    <2> HIDE DEF r
    <2> QED
      BY <1>1, <1>3, <1>6 DEF Fits, Loading, Fetching
  <1> QED
    BY <1>4, <1>5, <1>7, SetType DEF FatmanFat, Quiet, PInv, DlType

LEMMA FatmanSkinnyType ==
  ASSUME PInv, NEW p \in Proc, FatmanSkinny(p) PROVE (DlType /\ PullType)'
  <1> DEFINE q == pull[p]
             at == IF q.arch = "amd64" THEN "manifest" ELSE "unaware"
             file == <<"man", q.dst, "skinny">>
             r == [q EXCEPT !.at = at, !.arch = "yolo", !.file = file]
  <1>1. q \in Puller /\ q.src \in Src /\ q.dst \in Dst
    BY DEF PInv, PullType, Fits, FatmanSkinny
  <1>2. file \in Key /\ file \in ManKey(q.dst)
    BY <1>1, KeyFacts
  <1>3. Set(p, r)
    BY DEF FatmanSkinny
  <1>4. at \in At /\ at \in {"manifest", "unaware"}
    BY DEF At
  <1> HIDE DEF file, at
  <1>5. r \in Puller
    <2>1. "yolo" \in Arch
      BY DEF Arch
    <2> QED
      BY <1>1, <1>2, <1>4, <2>1, Zenon DEF Puller
  <1>6. r.at = at /\ r.src = q.src /\ r.dst = q.dst /\ r.file = file
    BY <1>1 DEF Puller
  <1>7. Fits(r)
    <2> HIDE DEF r
    <2> QED
      BY <1>1, <1>2, <1>4, <1>6 DEF Fits, Loading, Fetching
  <1>8. DlType'
    <2>1. [k |-> "link"] \in Content
      BY DEF Content
    <2> QED
      BY <2>1, WriteType, WriteIsWithout DEF FatmanSkinny, SkinnyLink, PInv, DlType
  <1> QED
    BY <1>3, <1>5, <1>7, <1>8, SetType DEF FatmanSkinny, Quiet, PInv

\* What is a sequence of blobs is a sequence of blobs or contents.
LEMMA SeqBlob == Seq(Blob) \subseteq Seq(Blob \cup Content)
                 /\ Seq(Content) \subseteq Seq(Blob \cup Content)
  BY SeqMonotonic

LEMMA ManifestLoadType ==
  ASSUME PInv, NEW p \in Proc, ManifestLoad(p) PROVE (DlType /\ PullType)'
  <1> DEFINE q == pull[p]
             x == Read(q.file).of
             r == [q EXCEPT !.at = "blobs", !.man = x, !.todo = BlobsOf[x]]
  <1>1. q \in Puller /\ q.src \in Src /\ q.dst \in Dst
    BY DEF PInv, PullType, Fits, ManifestLoad
  <1>2. x \in Manifest
    BY RawContent, ContentFacts DEF ManifestLoad, PInv
  <1>3. BlobsOf[x] \in Seq(Blob) /\ BlobsOf[x] \in Seq(Blob \cup Content)
    BY <1>2, PullAssumption, SeqBlob
  <1>4. Set(p, r)
    BY DEF ManifestLoad
  <1> HIDE DEF x
  <1>5. r \in Puller
    <2>1. "blobs" \in At
      BY DEF At
    <2> QED
      BY <1>1, <1>2, <1>3, <2>1, Zenon DEF Puller
  <1>6. /\ r.at = "blobs" /\ r.src = q.src /\ r.dst = q.dst
        /\ r.man = x /\ r.todo = BlobsOf[x]
    BY <1>1 DEF Puller
  <1>7. Fits(r)
    <2> HIDE DEF r
    <2> QED
      BY <1>1, <1>2, <1>3, <1>6 DEF Fits, Loading, Fetching
  <1> QED
    BY <1>4, <1>5, <1>7, SetType DEF ManifestLoad, Quiet, PInv, DlType

LEMMA NextBlobType ==
  ASSUME PInv, NEW p \in Proc, NextBlob(p) PROVE (DlType /\ PullType)'
  <1> DEFINE q == pull[p]
             file == <<"blob", Head(q.todo)>>
             r == [q EXCEPT !.todo = Tail(q.todo)]
             t == [r EXCEPT !.at = "open", !.file = file, !.ret = "blobs"]
  <1>1. /\ q \in Puller /\ q.src \in Src /\ q.dst \in Dst /\ q.man \in Manifest
        /\ q.at = "blobs" /\ q.todo \in Seq(Blob) /\ q.todo # << >>
    BY DEF PInv, PullType, Fits, NextBlob, Loading
  <1>2. /\ Head(q.todo) \in Blob /\ Tail(q.todo) \in Seq(Blob)
        /\ Tail(q.todo) \in Seq(Blob \cup Content)
    BY <1>1, SeqBlob
  <1>3. file \in Key /\ file \in BlobKey
    BY <1>1, <1>2, KeyFacts
  <1>4. Set(p, r) \/ Set(p, t)
    BY DEF NextBlob
  <1> HIDE DEF file
  <1>5. r \in Puller
    BY <1>1, <1>2 DEF Puller
  <1>6. /\ r.at = "blobs" /\ r.src = q.src /\ r.dst = q.dst /\ r.man = q.man
        /\ r.todo = Tail(q.todo)
    BY <1>1 DEF Puller
  <1>7. Fits(r)
    <2> HIDE DEF r
    <2> QED
      BY <1>1, <1>2, <1>6 DEF Fits, Loading, Fetching
  <1> HIDE DEF r
  <1>8. t \in Puller
    <2>1. "open" \in At
      BY DEF At, Fetching
    <2> QED
      BY <1>3, <1>5, <2>1, Zenon DEF Puller
  <1>9. /\ t.at = "open" /\ t.src = q.src /\ t.dst = q.dst /\ t.man = q.man
        /\ t.todo = Tail(q.todo) /\ t.file = file /\ t.ret = "blobs"
    BY <1>5, <1>6 DEF Puller
  <1>10. Fits(t)
    <2> HIDE DEF t
    <2> QED
      BY <1>1, <1>2, <1>3, <1>9 DEF Fits, Loading, Fetching
  <1> HIDE DEF t
  <1> QED
    BY <1>4, <1>5, <1>7, <1>8, <1>10, SetType DEF NextBlob, Quiet, PInv, DlType

LEMMA CheckoutCachedType ==
  ASSUME PInv, NEW p \in Proc, CheckoutCached(p) PROVE (DlType /\ PullType)'
  <1> DEFINE q == pull[p]
             r == [q EXCEPT !.at = "none", !.of = {}]
  <1>1. q \in Puller /\ q.dst \in Dst /\ cached[q.man] \in Seq(Content)
    BY DEF PInv, PullType, Fits, CheckoutCached
  <1>2. r \in Puller
    <2>1. "none" \in At /\ {} \in SUBSET Manifest
      BY DEF At
    <2> QED
      BY <1>1, <2>1, Zenon DEF Puller
  <1>3. r.at = "none"
    BY <1>1 DEF Puller
  <1>4. Set(p, r) /\ remote' = remote /\ cached' = cached
        /\ image' = [image EXCEPT ![q.dst] = cached[q.man]]
    BY DEF CheckoutCached
  <1> HIDE DEF r
  <1> QED
    BY <1>1, <1>2, <1>3, <1>4, SetType DEF CheckoutCached, PInv, DlType

\* The steps of pull_lazy keep what the pull knows.
LEMMA LazyStep ==
  ASSUME PInv, NEW p \in Proc, pull[p].at \in {"blobs", "unpack"},
         NEW at \in {"unpack", "adopt"}
  PROVE  [pull[p] EXCEPT !.at = at] \in Puller /\ Fits([pull[p] EXCEPT !.at = at])
  BY DEF PInv, PullType, Puller, At, Fetching, Fits, Loading

LEMMA ContentsType ==
  ASSUME DlType, NEW m \in Manifest PROVE Contents(m) \in Seq(Content)
  <1>1. BlobsOf[m] \in Seq(Blob)
    BY PullAssumption
  <1>2. DOMAIN BlobsOf[m] = 1 .. Len(BlobsOf[m]) /\ Len(BlobsOf[m]) \in Nat
    BY <1>1, LenProperties
  <1>3. \A i \in 1 .. Len(BlobsOf[m]) : Raw(<<"blob", BlobsOf[m][i]>>) \in Content
    BY RawContent
  <1> QED
    BY <1>2, <1>3, IsASeq DEF Contents

LEMMA UnpackedType ==
  ASSUME DlType, NEW m \in Manifest, NEW c \in Unpacked(m) PROVE c \in Seq(Content)
  <1>1. Contents(m) \in Seq(Content) /\ Len(Contents(m)) = Len(BlobsOf[m])
    <2>1. BlobsOf[m] \in Seq(Blob)
      BY PullAssumption
    <2>2. DOMAIN Contents(m) = DOMAIN BlobsOf[m]
      BY DEF Contents
    <2> QED
      BY <2>1, <2>2, ContentsType, LenProperties
  <1>2. ASSUME NEW n \in LastLayer, n < Len(BlobsOf[m])
        PROVE  SubSeq(Contents(m), 1, n + 1) \in Seq(Content)
    <2>1. n \in Nat
      BY PullAssumption
    <2>2. \A i \in 1 .. n + 1 : i \in 1 .. Len(Contents(m))
      BY <1>1, <1>2, <2>1, LenProperties
    <2> QED
      BY <1>1, <2>1, <2>2, SubSeqProperties
  <1> QED
    BY <1>1, <1>2 DEF Unpacked

LEMMA UnpackType ==
  ASSUME PInv, NEW p \in Proc, UnpackDelete(p) \/ Unpack(p) PROVE (DlType /\ PullType)'
  <1> DEFINE q == pull[p]
  <1>1. q \in Puller /\ q.dst \in Dst /\ q.man \in Manifest
    BY DEF PInv, PullType, Fits, Loading, UnpackDelete, Unpack
  <1>2. CASE UnpackDelete(p)
    <2> DEFINE r == [q EXCEPT !.at = "unpack"]
    <2>0. << >> \in Seq(Content)
      OBVIOUS
    <2>1. r \in Puller /\ Fits(r)
      BY <1>2, LazyStep DEF UnpackDelete
    <2>2. Set(p, r) /\ image' = [image EXCEPT ![q.dst] = << >>] /\ UNCHANGED <<remote, cached, dl>>
      BY <1>2 DEF UnpackDelete
    <2> HIDE DEF r
    <2> QED
      BY <1>1, <2>0, <2>1, <2>2, SetType DEF PInv, DlType
  <1>3. CASE Unpack(p)
    <2> DEFINE r == [q EXCEPT !.at = "adopt"]
    <2>1. PICK c \in Unpacked(q.man) : image' = [image EXCEPT ![q.dst] = c]
      BY <1>3 DEF Unpack
    <2>2. Set(p, r) /\ UNCHANGED <<remote, cached, dl>>
      BY <1>3 DEF Unpack
    <2>3. r \in Puller /\ Fits(r) /\ c \in Seq(Content)
      BY <1>1, <1>3, LazyStep, UnpackedType DEF Unpack, PInv
    <2> HIDE DEF r
    <2> QED
      BY <1>1, <2>1, <2>2, <2>3, SetType DEF PInv, DlType
  <1> QED
    BY <1>2, <1>3

LEMMA AdoptType == ASSUME PInv, NEW p \in Proc, Adopt(p) PROVE (DlType /\ PullType)'
  <1> DEFINE q == pull[p]
             c == image[q.dst]
             r == [q EXCEPT !.at = "commit", !.todo = c]
  <1>1. q \in Puller /\ q.src \in Src /\ q.dst \in Dst /\ q.man \in Manifest
    BY DEF PInv, PullType, Fits, Loading, Adopt
  <1>2. c \in Seq(Content) /\ c \in Seq(Blob \cup Content) /\ << >> \in Seq(Content)
    BY <1>1, SeqBlob DEF PInv, PullType
  <1>3. /\ Set(p, r) /\ image' = [image EXCEPT ![q.dst] = << >>]
        /\ UNCHANGED <<remote, cached, dl>>
    BY DEF Adopt
  <1> HIDE DEF c
  <1>4. r \in Puller
    <2>1. "commit" \in At
      BY DEF At
    <2> QED
      BY <1>1, <1>2, <2>1, Zenon DEF Puller
  <1>5. r.at = "commit" /\ r.src = q.src /\ r.dst = q.dst /\ r.man = q.man /\ r.todo = c
    BY <1>1 DEF Puller
  <1> HIDE DEF r
  <1>6. Fits(r)
    BY <1>1, <1>2, <1>5 DEF Fits, Loading, Fetching
  <1> QED
    BY <1>1, <1>2, <1>3, <1>4, <1>6, SetType DEF PInv, DlType

LEMMA CommitType ==
  ASSUME PInv, NEW p \in Proc, Commit(p) PROVE (DlType /\ PullType)'
  <1> DEFINE q == pull[p]
             r == [q EXCEPT !.at = "none", !.todo = << >>, !.of = {}]
  <1>1. q \in Puller /\ q.dst \in Dst /\ q.man \in Manifest /\ q.todo \in Seq(Content)
    BY DEF PInv, PullType, Fits, Loading, Commit
  <1>2. r \in Puller
    <2>1. "none" \in At /\ {} \in SUBSET Manifest /\ << >> \in Seq(Blob \cup Content)
      BY DEF At
    <2> QED
      BY <1>1, <2>1, Zenon DEF Puller
  <1>3. r.at = "none"
    BY <1>1 DEF Puller
  <1>4. /\ Set(p, r) /\ remote' = remote /\ dl' = dl
        /\ image' = [image EXCEPT ![q.dst] = q.todo]
        /\ cached' = [x \in DOMAIN cached \cup {q.man} |->
                         IF x = q.man THEN q.todo ELSE cached[x]]
    BY DEF Commit
  <1>5. /\ DOMAIN cached' \subseteq Manifest
        /\ \A m \in DOMAIN cached' : cached'[m] \in Seq(Content)
    BY <1>1, <1>4 DEF PInv, PullType
  <1> HIDE DEF r
  <1> QED
    BY <1>1, <1>2, <1>3, <1>4, <1>5, SetType DEF PInv, DlType

LEMMA EndType ==
  ASSUME PInv, NEW p \in Proc, pull' = [pull EXCEPT ![p] = NoPull],
         \A q \in Proc \ {p} : pc'[q] = pc[q],
         UNCHANGED <<remote, image, cached>>
  PROVE  PullType'
  BY NoPullType DEF PInv, PullType

\* The storage directory's part in the download cache.
LEMMA StorageDl ==
  ASSUME TypeOK, NEW p \in Proc, StorageStep(p)
  PROVE  /\ \/ dl' = dl \/ dl' = << >> \/ dl' = Without(dl, LinksOf(dl))
         /\ \A q \in Proc \ {p} : pc'[q] = pc[q]
  BY DEF TypeOK, StorageStep, Start, Look, LookFatal, Version, VersionFatal, MkRoot, MkRootFatal,
         LockOpen, LockF, LockFatal, MkDir, UpgradeLinks, VersionWrite, Strict,
         InsideFatal, cleanup, CleanupFatal, Reset, ResetRemove, ResetRmdir,
         ResetFatal, Kill, Go, Gone, Ends, Fs

LEMMA FatalFacts ==
  ASSUME TypeOK, NEW p \in Proc, Fatal(p)
  PROVE  /\ dl' = dl /\ pull' = [pull EXCEPT ![p] = NoPull]
         /\ \A q \in Proc \ {p} : pc'[q] = pc[q]
         /\ UNCHANGED <<remote, image, cached>>
  BY DEF TypeOK, Fatal, Ends, Gone, Go, Fs

LEMMA StepPInv == PInv /\ [Next]_vars => PInv'
  <1> SUFFICES ASSUME PInv, [Next]_vars PROVE (DlType /\ PullType)'
    BY StepTInv DEF PInv
  <1>1. CASE UNCHANGED vars
    BY <1>1 DEF vars, storageVars, procVars, pullVars, PInv, DlType, PullType
  <1>2. ASSUME NEW s \in Src, Update(s) PROVE (DlType /\ PullType)'
    <2>1. remote' \in [Src -> Listing]
      BY <1>2 DEF Update, PInv, PullType
    <2>2. \A q \in Puller, S \in SUBSET Manifest :
            /\ [q EXCEPT !.of = q.of \cup S] \in Puller
            /\ [q EXCEPT !.of = q.of \cup S].at = q.at
            /\ Fits(q) => Fits([q EXCEPT !.of = q.of \cup S])
      BY DEF Puller, Fits, Loading
    <2>3. \A a : Offers(remote'[s], a) \in SUBSET Manifest
      <3>1. remote'[s] \in Content /\ remote'[s].k \in {"skinny", "fat"}
        BY <2>1, PullAssumption DEF Content
      <3> QED
        BY <3>1, OffersManifest
    <2>4. \A p \in Proc : \/ pull'[p] = pull[p]
                          \/ /\ pull[p].at # "none"
                             /\ \E S \in SUBSET Manifest :
                                  pull'[p] = [pull[p] EXCEPT !.of = pull[p].of \cup S]
      BY <1>2, <2>3 DEF Update
    <2>5. pull' = [p \in Proc |-> pull'[p]]
      BY <1>2 DEF Update
    <2>6. \A p \in Proc : /\ pull'[p] \in Puller
                          /\ pc[p] # "work" => pull'[p] = NoPull
                          /\ pull'[p].at # "none" => Fits(pull'[p])
      <3> TAKE p \in Proc
      <3>1. /\ pull[p] \in Puller
            /\ pc[p] # "work" => pull[p] = NoPull
            /\ pull[p].at # "none" => Fits(pull[p])
        BY DEF PInv, PullType
      <3>2. CASE pull'[p] = pull[p]
        BY <3>1, <3>2
      <3>3. CASE pull[p].at # "none" /\ pull'[p] # pull[p]
        <4>1. PICK S \in SUBSET Manifest :
                pull'[p] = [pull[p] EXCEPT !.of = pull[p].of \cup S]
          BY <2>4, <3>3
        <4>2. Fits(pull[p]) /\ pc[p] = "work"
          BY <3>1, <3>3, NoPullType
        <4> DEFINE r == [pull[p] EXCEPT !.of = pull[p].of \cup S]
        <4>3. r \in Puller /\ Fits(r) /\ pull'[p] = r
          BY <2>2, <3>1, <4>1, <4>2
        <4> HIDE DEF r
        <4> QED
          BY <4>2, <4>3
      <3> QED
        BY <2>4, <3>2, <3>3
    <2> QED
      BY <1>2, <2>1, <2>5, <2>6
      DEF Update, storageVars, procVars, PInv, DlType, PullType
  <1>3. ASSUME NEW p \in Proc, PullStep(p) PROVE (DlType /\ PullType)'
    <2>1. CASE Unavailable(p) \/ FatmanFatal(p) \/ ManifestFatal(p) \/ Finish(p)
      BY <2>1, FatalFacts, EndType
      DEF Unavailable, FatmanFatal, ManifestFatal, Finish, PInv, TInv, DlType
    <2> QED
      BY <1>3, <2>1, BeginType, OpenType, StreamType, UnlinkType, RenameType, FatmanFatType,
         FatmanSkinnyType, ManifestLoadType, NextBlobType, CheckoutCachedType,
         UnpackType, AdoptType, CommitType DEF PullStep
  <1>4. ASSUME NEW p \in Proc, StorageStep(p), pull' = [pull EXCEPT ![p] = NoPull],
               UNCHANGED <<remote, image, cached, updates>>
        PROVE  (DlType /\ PullType)'
    <2>1. DlType'
      BY <1>4, StorageDl DEF PInv, TInv, DlType, Without
    <2>2. PullType'
      BY <1>4, StorageDl, EndType DEF PInv, TInv
    <2> QED
      BY <2>1, <2>2
  <1> QED
    BY <1>1, <1>2, <1>3, <1>4 DEF Next

-----------------------------------------------------------------------------
(* The upgrade *)

NoBadLinks == \A n \in DOMAIN dl : dl[n].k # "badlink"

\* When the links of v6 are gone for good: with the download cache, when a
\* process has not found any storage, and when one is past "links".
LinksGone ==
    /\ ~root \/ "dlcache" \notin dir => NoBadLinks
    /\ \A p \in Proc :
         /\ found[p] = NoVersion /\ pc[p] \in Inside \cup {"mkroot", "open", "lockf"} =>
              NoBadLinks
         /\ pc[p] \in {"vopen", "vwrite"} => NoBadLinks
         /\ pc[p] \in {"mkdir", "links"} => found[p] # STORAGE_VERSION

UInv == PInv /\ LinksGone /\ UpgradeComplete

LEMMA InitUInv == Init => UInv
  <1> SUFFICES ASSUME Init PROVE LinksGone /\ UpgradeComplete
    BY InitPInv DEF UInv
  <1>1. CASE Absent
    BY <1>1 DEF Init, Absent, ProcInit, LinksGone, UpgradeComplete, NoBadLinks, Inside
  <1>2. CASE Found(7, << >>, {"imgtmp"})
    BY <1>2 DEF Init, Found, ProcInit, LinksGone, UpgradeComplete, NoBadLinks, Inside
  <1>3. CASE Found(6, Only(Final(<<"man", "x", "skinny">>), [k |-> "badlink"]), {})
    BY <1>3 DEF Init, Found, ProcInit, LinksGone, UpgradeComplete, Inside, DirSet, Dirs,
                STORAGE_VERSION
  <1> QED
    BY <1>1, <1>2, <1>3 DEF Init

\* Nothing ever makes a link of the kind v6 had.
LEMMA NoNewBadLinks == PInv /\ [Next]_vars /\ NoBadLinks => NoBadLinks'
  <1> SUFFICES ASSUME PInv, [Next]_vars, NoBadLinks PROVE NoBadLinks'
    OBVIOUS
  <1>1. ASSUME NEW f, NEW c, c.k # "badlink", NEW gone, dl' = Without(Write(f, c), gone)
        PROVE  NoBadLinks'
    BY <1>1 DEF NoBadLinks, Write, Without
  <1>2. CASE dl' = dl \/ dl' = << >>
    BY <1>2 DEF NoBadLinks
  <1>3. ASSUME NEW gone, dl' = Without(dl, gone) PROVE NoBadLinks'
    BY <1>3 DEF NoBadLinks, Without
  <1>4. ASSUME NEW p \in Proc, PullStep(p) PROVE NoBadLinks'
    <2>1. CASE Open(p)
      BY <2>1, <1>1, WriteIsWithout DEF Open
    <2>2. CASE Stream(p)
      <3>1. PICK c \in Responses(pull[p]) : dl' = Write(Part(pull[p].file), c)
        BY <2>2 DEF Stream
      <3>2. remote[pull[p].src] \in Listing
        BY <2>2 DEF Stream, PInv, PullType, Fits
      <3>3. c.k # "badlink"
        BY <3>1, <3>2, PullAssumption DEF Responses, Bad
      <3> QED
        BY <3>1, <3>3, <1>1, WriteIsWithout
    <2>3. CASE Unlink(p)
      BY <2>3, <1>3 DEF Unlink
    <2>4. CASE Rename(p)
      BY <2>4, <1>1 DEF Rename, NoBadLinks
    <2>5. CASE FatmanSkinny(p)
      BY <2>5, <1>1, <1>2, WriteIsWithout DEF FatmanSkinny, SkinnyLink
    <2> QED
      BY <1>2, <1>4, <2>1, <2>2, <2>3, <2>4, <2>5, FatalFacts
      DEF PullStep, Begin, Unavailable, FatmanFat, FatmanFatal, ManifestLoad, ManifestFatal,
          NextBlob, CheckoutCached, UnpackDelete, Unpack, Adopt, Commit, Finish, PInv, TInv
  <1>5. ASSUME NEW p \in Proc, StorageStep(p) PROVE NoBadLinks'
    BY <1>2, <1>3, <1>5, StorageDl DEF PInv, TInv
  <1> QED
    BY <1>2, <1>4, <1>5 DEF Next, Update, vars, storageVars

LEMMA StepUInv == UInv /\ [Next]_vars => UInv'
  <1> SUFFICES ASSUME UInv, [Next]_vars PROVE (LinksGone /\ UpgradeComplete)'
    BY StepPInv DEF UInv
  <1>0. TypeOK /\ (NoBadLinks => NoBadLinks')
    BY NoNewBadLinks DEF UInv, PInv, TInv
  <1> USE <1>0 DEF UInv, TypeOK, LinksGone, UpgradeComplete, Inside, Go, Gone, Ends, Fs,
          NoVersion, STORAGE_VERSION, Torn
  <1>1. CASE UNCHANGED vars
    BY <1>1 DEF vars, storageVars, procVars, NoBadLinks
  <1>2. ASSUME NEW s \in Src, Update(s) PROVE (LinksGone /\ UpgradeComplete)'
    BY <1>2 DEF Update, storageVars, procVars, NoBadLinks
  <1>3. ASSUME NEW p \in Proc, PullStep(p) PROVE (LinksGone /\ UpgradeComplete)'
    <2>1. UpgradeComplete'
      BY <1>3, PullStepFs DEF NoBadLinks
    <2>2. LinksGone'
      BY <1>3, PullStepFs DEF procVars
    <2> QED
      BY <2>1, <2>2
  <1>4. ASSUME NEW p \in Proc, StorageStep(p) PROVE (LinksGone /\ UpgradeComplete)'
    <2>1. ASSUME NEW c \in {"use", "reset"}, Start(p, c)
          PROVE  (LinksGone /\ UpgradeComplete)'
      BY <2>1 DEF Start
    <2>2. CASE Look(p)
      BY <2>2 DEF Look
    <2>3. CASE LookFatal(p) \/ VersionFatal(p) \/ MkRootFatal(p) \/ LockFatal(p) \/ InsideFatal(p)
               \/ CleanupFatal(p) \/ ResetFatal(p)
      BY <2>3 DEF LookFatal, VersionFatal, MkRootFatal, LockFatal, InsideFatal, CleanupFatal, ResetFatal
    <2>4. CASE Version(p)
      BY <2>4 DEF Version
    <2>5. CASE MkRoot(p)
      BY <2>5 DEF MkRoot
    <2>6. CASE LockOpen(p)
      BY <2>6 DEF LockOpen
    <2>7. CASE LockF(p)
      BY <2>7 DEF LockF
    <2>8. CASE MkDir(p)
      <3>1. Dirs[mk[p] + 1] # "version"
        BY <2>8 DEF PInv, TInv, MkCount, MkDir, Dirs
      <3> QED
        BY <2>8, <3>1 DEF MkDir, NoBadLinks
    <2>9. CASE UpgradeLinks(p)
      <3>1. NoBadLinks'
        <4>1. CASE found[p] = 6
          BY <2>9, <4>1 DEF UpgradeLinks, NoBadLinks, Without, LinksOf
        <4>2. CASE found[p] = NoVersion
          BY <2>9, <4>2 DEF UpgradeLinks
        <4> QED
          BY <2>9, <4>1, <4>2 DEF UpgradeLinks
      <3>2. LinksGone'
        BY <2>9, <3>1 DEF UpgradeLinks
      <3>3. UpgradeComplete'
        BY <3>1 DEF NoBadLinks
      <3> QED
        BY <3>2, <3>3
    <2>10. CASE VersionWrite(p)
      <3>1. NoBadLinks'
        BY <2>10 DEF VersionWrite
      <3>2. LinksGone'
        BY <2>10, <3>1 DEF VersionWrite
      <3>3. UpgradeComplete'
        BY <3>1 DEF NoBadLinks
      <3> QED
        BY <3>2, <3>3
    <2>11. CASE Strict(p)
      BY <2>11 DEF Strict
    <2>12. CASE cleanup(p)
      BY <2>12 DEF cleanup
    <2>13. CASE Reset(p)
      BY <2>13 DEF Reset
    <2>14. CASE ResetRemove(p)
      BY <2>14 DEF ResetRemove, NoBadLinks
    <2>15. CASE ResetRmdir(p)
      BY <2>15 DEF ResetRmdir
    <2>16. CASE Kill(p)
      BY <2>16 DEF Kill
    <2> QED
      BY <1>4, <2>1, <2>2, <2>3, <2>4, <2>5, <2>6, <2>7, <2>8, <2>9, <2>10, <2>11,
         <2>12, <2>13, <2>14, <2>15, <2>16 DEF StorageStep
  <1> QED
    BY <1>1, <1>2, <1>3, <1>4 DEF Next

\* Whatever processes do, also beside a reset and wherever the upgrade is
\* killed: storage that says it is v7 has none of the links of v6.
THEOREM UpgradeIsComplete == Spec => []UpgradeComplete
  <1>1. UInv => UpgradeComplete
    BY DEF UInv
  <1> QED
    BY <1>1, InitUInv, StepUInv, PTL DEF Spec

-----------------------------------------------------------------------------
(* Debris and blobs *)

\* validate_strict has removed imgtmp before cleanup looks for part_ files.
StrictFirst == \A p \in Proc : pc[p] = "cleanup" => "imgtmp" \notin dir

\* A file is called something, or part_ and something.
Names == \A n \in DOMAIN dl : n.part \in BOOLEAN /\ n = File(n.name, n.part)

\* All the debris there is belongs to pull q.
Own(q) ==
    /\ "imgtmp" \in dir => q.at = "commit"
    /\ \A n \in DOMAIN dl : n.part =>
         n.name = q.file /\ q.at \in {"stream", "unlink", "rename"}

\* A part_ file that is about to get its name has what the digest says.
Verified(q) ==
    /\ q.at \in {"unlink", "rename"} /\ q.ret = "blobs" /\ Part(q.file) \in DOMAIN dl
    => dl[Part(q.file)] = [k |-> "blob", of |-> q.file[2]]

PartVerified == \A p \in Proc : Verified(pull[p])

DInv == EInv /\ PInv /\ Names /\ StrictFirst /\ OnlyOwnDebris /\ PartVerified /\ BlobsVerified

LEMMA InitDInv == Init => DInv
  <1> SUFFICES ASSUME Init
               PROVE  Names /\ StrictFirst /\ OnlyOwnDebris /\ PartVerified /\ BlobsVerified
    BY InitEInv, InitPInv DEF DInv
  <1>0. Names
    <2>1. \A k : Final(k).part \in BOOLEAN /\ Final(k) = File(Final(k).name, Final(k).part)
      BY DEF Final, File
    <2>2. DOMAIN dl = {} \/ DOMAIN dl = {Final(<<"man", "x", "skinny">>)}
      BY DEF Init, Absent, Found, Only
    <2>3. ASSUME NEW n \in DOMAIN dl PROVE n.part \in BOOLEAN /\ n = File(n.name, n.part)
      <3>1. n = Final(<<"man", "x", "skinny">>)
        BY <2>2
      <3> QED
        BY <2>1, <3>1, Zenon
    <2> QED
      BY <2>3 DEF Names
  <1>1. StrictFirst /\ OnlyOwnDebris
    BY DEF Init, ProcInit, StrictFirst, OnlyOwnDebris
  <1>2. PartVerified
    BY NoPullType DEF Init, PartVerified, Verified
  <1>3. BlobsVerified
    BY DEF Init, Absent, Found, Only, Final, File, BlobsVerified
  <1> QED
    BY <1>0, <1>1, <1>2, <1>3

\* No step makes a file with another kind of name.
LEMMA StepNames == PInv /\ Names /\ [Next]_vars => Names'
  <1> SUFFICES ASSUME PInv, Names, [Next]_vars PROVE Names'
    OBVIOUS
  <1>1. ASSUME NEW f, NEW b \in BOOLEAN, DOMAIN dl' \subseteq DOMAIN dl \cup {File(f, b)}
        PROVE  Names'
    BY <1>1 DEF Names, File
  <1>2. CASE dl' = dl
    BY <1>2 DEF Names
  <1>3. ASSUME NEW p \in Proc, PullStep(p) PROVE Names'
    <2>1. CASE Open(p) \/ Stream(p)
      BY <2>1, <1>1 DEF Open, Stream, Write, Part
    <2>2. CASE Unlink(p)
      BY <2>2 DEF Unlink, Without, Names
    <2>3. CASE Rename(p)
      BY <2>3, <1>1 DEF Rename, Write, Without, Final
    <2>4. CASE FatmanSkinny(p)
      BY <2>4, <1>1, <1>2 DEF FatmanSkinny, SkinnyLink, Write, Final
    <2> QED
      BY <1>2, <1>3, <2>1, <2>2, <2>3, <2>4, FatalFacts
      DEF PullStep, Begin, Unavailable, FatmanFat, FatmanFatal, ManifestLoad, ManifestFatal,
          NextBlob, CheckoutCached, UnpackDelete, Unpack, Adopt, Commit, Finish, PInv, TInv
  <1>4. ASSUME NEW p \in Proc, StorageStep(p) PROVE Names'
    BY <1>4, StorageDl DEF PInv, TInv, Names, Without
  <1> QED
    BY <1>2, <1>3, <1>4 DEF Next, Update, vars, storageVars

\* Who works in storage is alone there.
LEMMA WorksAlone ==
  ASSUME EInv, PInv, NEW p \in Proc, pc[p] = "work"
  PROVE  \A q \in Proc \ {p} : pc[q] \notin Inside /\ pull[q] = NoPull
  BY DEF EInv, Exclusive, Inside, PInv, PullType

\* A step of a pull changes nothing of the others.
LEMMA PullStepPull ==
  ASSUME PInv, NEW p \in Proc, PullStep(p)
  PROVE  /\ pc[p] = "work" /\ pc'[p] \in {"work", "idle"}
         /\ \A q \in Proc \ {p} : pull'[q] = pull[q] /\ pc'[q] = pc[q]
         /\ pc'[p] = "idle" => pull'[p] = NoPull /\ UNCHANGED <<dl, dir, remote, image, cached>>
  BY DEF PInv, TInv, TypeOK, PullType, PullStep, Begin, Unavailable, Open, Stream, Unlink,
         Rename, FatmanFat, FatmanSkinny, FatmanFatal, ManifestLoad, ManifestFatal, NextBlob,
         CheckoutCached, UnpackDelete, Unpack, Adopt, Commit, Finish, Set, Fatal,
         Ends, Gone, Go, Fs, procVars

\* So it is enough to look at the one pull that makes a step.
LEMMA OneDebris ==
  ASSUME EInv, PInv, NEW p \in Proc, PullStep(p),
         pc'[p] = "work" => Own(pull[p])', Verified(pull[p])'
  PROVE  (StrictFirst /\ OnlyOwnDebris /\ PartVerified)'
  <1>1. /\ \A q \in Proc \ {p} : pc[q] \notin Inside /\ pull[q] = NoPull
        /\ pc'[p] \in {"work", "idle"}
        /\ \A q \in Proc \ {p} : pull'[q] = pull[q] /\ pc'[q] = pc[q]
    BY WorksAlone, PullStepPull
  <1>2. StrictFirst'
    BY <1>1 DEF StrictFirst, Inside
  <1>3. OnlyOwnDebris'
    BY <1>1 DEF OnlyOwnDebris, Own, Inside
  <1>4. PartVerified'
    BY <1>1, NoPullType DEF PartVerified, Verified
  <1> QED
    BY <1>2, <1>3, <1>4

\* What storage does to the debris: it makes none, and cleanup goes on only
\* if there is none.
LEMMA StorageDebris ==
  ASSUME TypeOK, MkCount, NEW p \in Proc, StorageStep(p)
  PROVE  /\ "imgtmp" \in dir' => "imgtmp" \in dir
         /\ pc'[p] = "work" => cleanup(p)
         /\ pc'[p] = "cleanup" => "imgtmp" \notin dir'
  <1>1. "imgtmp" \notin DirSet
    BY DEF DirSet, Dirs
  <1>2. pc[p] = "mkdir" => Dirs[mk[p] + 1] \in DirSet
    BY DEF TypeOK, MkCount, DirSet
  <1> QED
    BY <1>1, <1>2
    DEF TypeOK, StorageStep, Start, Look, LookFatal, Version, VersionFatal, MkRoot, MkRootFatal,
        LockOpen, LockF, LockFatal, MkDir, UpgradeLinks, VersionWrite, Strict,
        InsideFatal, cleanup, CleanupFatal, Reset, ResetRemove, ResetRmdir,
        ResetFatal, Kill, Go, Gone, Ends, Fs

\* A pull that is between downloads has no debris, and starts no other.
LEMMA NoDebrisStep ==
  ASSUME DInv, NEW p \in Proc, pc[p] = "work", UNCHANGED <<dl, dir>>,
         pull[p].at \notin {"stream", "unlink", "rename", "commit"},
         pull'[p].at \notin {"unlink", "rename"}
  PROVE  (Own(pull[p]) /\ Verified(pull[p]) /\ BlobsVerified)'
  BY DEF DInv, OnlyOwnDebris, Own, Verified, BlobsVerified

\* Every step of a pull, where it goes and what it does to the files.
LEMMA PullAt ==
  ASSUME PInv, NEW p \in Proc
  PROVE  /\ Begin(p) => pull'[p].at = "open"
         /\ FatmanFat(p) => pull'[p].at = "open"
         /\ ManifestLoad(p) => pull'[p].at = "blobs"
         /\ NextBlob(p) => pull'[p].at \in {"open", "blobs"}
         /\ CheckoutCached(p) => pull'[p].at = "none"
         /\ UnpackDelete(p) => pull'[p].at = "unpack"
         /\ Unpack(p) => pull'[p].at = "adopt"
  <1>1. pull \in [Proc -> Puller]
    BY DEF PInv, PullType
  <1>2. Begin(p) => pull'[p].at = "open"
    BY <1>1 DEF Begin, Set, NoPull, Puller
  <1>3. FatmanFat(p) => pull'[p].at = "open"
    BY <1>1 DEF FatmanFat, Set, Puller
  <1>4. ManifestLoad(p) => pull'[p].at = "blobs"
    BY <1>1 DEF ManifestLoad, Set, Puller
  <1>5. NextBlob(p) => pull'[p].at \in {"open", "blobs"}
    BY <1>1 DEF NextBlob, Set, Puller
  <1>6. CheckoutCached(p) => pull'[p].at = "none"
    BY <1>1 DEF CheckoutCached, Set, Puller
  <1>7. /\ UnpackDelete(p) => pull'[p].at = "unpack"
        /\ Unpack(p) => pull'[p].at = "adopt"
    BY <1>1 DEF UnpackDelete, Unpack, Set, Puller
  <1> QED
    BY <1>2, <1>3, <1>4, <1>5, <1>6, <1>7

\* While a file is fetched nothing but "at" changes.
LEMMA FetchKeeps ==
  ASSUME PInv, NEW p \in Proc, NEW at \in At, Set(p, [pull[p] EXCEPT !.at = at])
  PROVE  /\ pull'[p].at = at /\ pull'[p].file = pull[p].file /\ pull'[p].ret = pull[p].ret
         /\ pull'[p].src = pull[p].src /\ pull'[p].dst = pull[p].dst
         /\ pull'[p].asked = pull[p].asked /\ pull'[p].arch = pull[p].arch
         /\ pull'[p].man = pull[p].man /\ pull'[p].todo = pull[p].todo
         /\ pull'[p].of = pull[p].of /\ pull'[p].n = pull[p].n
  BY DEF PInv, PullType, Set, Puller

LEMMA OpenDebris ==
  ASSUME DInv, NEW p \in Proc, Open(p)
  PROVE  (Own(pull[p]) /\ Verified(pull[p]) /\ BlobsVerified)'
  <1>1. pull'[p].at = "stream" /\ pull'[p].file = pull[p].file
    BY FetchKeeps DEF Open, DInv, At, Fetching
  <1>2. /\ pc[p] = "work" /\ pull[p].at = "open" /\ dir' = dir
        /\ dl' = Write(Part(pull[p].file), [k |-> "partial"])
    BY DEF Open, Set
  <1> QED
    BY <1>1, <1>2
    DEF DInv, OnlyOwnDebris, Own, Verified, BlobsVerified, Write, Part, File

LEMMA StreamDebris ==
  ASSUME DInv, NEW p \in Proc, Stream(p)
  PROVE  (Own(pull[p]) /\ Verified(pull[p]) /\ BlobsVerified)'
  <1>1. /\ pull'[p].at = "unlink" /\ pull'[p].file = pull[p].file
        /\ pull'[p].ret = pull[p].ret
    BY FetchKeeps DEF Stream, DInv, At, Fetching
  <1>2. /\ pc[p] = "work" /\ pull[p].at = "stream" /\ dir' = dir
    BY DEF Stream, Set
  <1>3. PICK c \in Responses(pull[p]) :
          Accept(pull[p], c) /\ dl' = Write(Part(pull[p].file), c)
    BY DEF Stream
  <1>4. pull[p].ret = "blobs" => pull[p].file[1] = "blob"
    BY <1>2 DEF DInv, PInv, PullType, Fits, Fetching, BlobKey
  <1>5. (Own(pull[p]) /\ BlobsVerified)'
    BY <1>1, <1>2, <1>3 DEF DInv, OnlyOwnDebris, Own, BlobsVerified, Write, Part, File
  <1>6. Verified(pull[p])'
    BY <1>1, <1>3, <1>4 DEF Verified, Accept, Write
  <1> QED
    BY <1>5, <1>6

LEMMA UnlinkDebris ==
  ASSUME DInv, NEW p \in Proc, Unlink(p)
  PROVE  (Own(pull[p]) /\ Verified(pull[p]) /\ BlobsVerified)'
  <1>1. /\ pull'[p].at = "rename" /\ pull'[p].file = pull[p].file
        /\ pull'[p].ret = pull[p].ret
    BY FetchKeeps DEF Unlink, DInv, At, Fetching
  <1>2. /\ pc[p] = "work" /\ pull[p].at = "unlink" /\ dir' = dir
        /\ dl' = Without(dl, {Final(pull[p].file)})
    BY DEF Unlink, Set
  <1> QED
    BY <1>1, <1>2
    DEF DInv, OnlyOwnDebris, Own, PartVerified, Verified, BlobsVerified, Without

LEMMA RenameDebris ==
  ASSUME DInv, NEW p \in Proc, Rename(p)
  PROVE  (Own(pull[p]) /\ Verified(pull[p]) /\ BlobsVerified)'
  <1> DEFINE q == pull[p]
  <1>1. q.ret \in {"fatman", "manifest", "blobs"} /\ q.ret \in At
    BY DEF Rename, DInv, PInv, PullType, Fits, Fetching, At
  <1>2. pull'[p].at = q.ret /\ pull'[p].file = q.file
    BY <1>1, FetchKeeps DEF Rename, DInv
  <1>3. /\ pc[p] = "work" /\ q.at = "rename" /\ dir' = dir /\ Part(q.file) \in DOMAIN dl
        /\ dl' = Without(Write(Final(q.file), dl[Part(q.file)]), {Part(q.file)})
    BY DEF Rename, Set
  <1>4. q.file[1] = "blob" => q.ret = "blobs"
    BY <1>3 DEF DInv, PInv, PullType, Fits, Fetching, ManKey
  <1>5. (Own(pull[p]) /\ Verified(pull[p]))'
    BY <1>1, <1>2, <1>3
    DEF DInv, Names, OnlyOwnDebris, Own, Verified, Without, Write, Part, Final, File
  <1>6. q.file[1] = "blob" => dl[Part(q.file)] = [k |-> "blob", of |-> q.file[2]]
    BY <1>3, <1>4 DEF DInv, PartVerified, Verified
  <1>7. BlobsVerified'
    BY <1>3, <1>6 DEF DInv, BlobsVerified, Without, Write, Part, Final, File
  <1> QED
    BY <1>5, <1>7

LEMMA SkinnyDebris ==
  ASSUME DInv, NEW p \in Proc, FatmanSkinny(p)
  PROVE  (Own(pull[p]) /\ Verified(pull[p]) /\ BlobsVerified)'
  <1> DEFINE k == <<"man", pull[p].dst, "skinny">>
  <1>1. pull'[p].at \in {"manifest", "unaware"}
    BY DEF FatmanSkinny, Set, DInv, PInv, PullType, Puller
  <1>2. /\ pc[p] = "work" /\ pull[p].at = "fatman" /\ dir' = dir
        /\ dl' = dl \/ dl' = Write(Final(k), [k |-> "link"])
    BY DEF FatmanSkinny, Set, SkinnyLink
  <1>3. k[1] = "man"
    OBVIOUS
  <1> HIDE DEF k
  <1> QED
    BY <1>1, <1>2, <1>3
    DEF DInv, OnlyOwnDebris, Own, Verified, BlobsVerified, Write, Final, File

LEMMA AdoptDebris ==
  ASSUME DInv, NEW p \in Proc, Adopt(p) \/ Commit(p)
  PROVE  (Own(pull[p]) /\ Verified(pull[p]) /\ BlobsVerified)'
  <1>0. pull \in [Proc -> Puller]
    BY DEF DInv, PInv, PullType
  <1>1. Adopt(p) => pull'[p].at = "commit"
    BY <1>0 DEF Adopt, Set, Puller
  <1>2. Commit(p) => pull'[p].at = "none"
    BY <1>0 DEF Commit, Set, Puller
  <1> QED
    BY <1>1, <1>2
    DEF Adopt, Commit, Set, DInv, OnlyOwnDebris, Own, Verified, BlobsVerified

LEMMA StepDInv ==
  ASSUME ResetAlone = TRUE
  PROVE  DInv /\ [Next]_vars => DInv'
  <1> SUFFICES ASSUME DInv, [Next]_vars
               PROVE  (StrictFirst /\ OnlyOwnDebris /\ PartVerified /\ BlobsVerified)'
    BY StepEInv, StepPInv, StepNames DEF DInv
  <1>1. CASE UNCHANGED vars
    BY <1>1 DEF vars, storageVars, procVars, pullVars, DInv, StrictFirst, OnlyOwnDebris,
                PartVerified, Verified, BlobsVerified
  <1>2. ASSUME NEW s \in Src, Update(s)
        PROVE  (StrictFirst /\ OnlyOwnDebris /\ PartVerified /\ BlobsVerified)'
    <2>1. \A p \in Proc : /\ pull'[p].at = pull[p].at /\ pull'[p].file = pull[p].file
                          /\ pull'[p].ret = pull[p].ret
      BY <1>2 DEF Update, DInv, PInv, PullType, Puller
    <2>2. UNCHANGED <<dl, dir, pc>>
      BY <1>2 DEF Update, storageVars, procVars
    <2> QED
      BY <2>1, <2>2
      DEF DInv, StrictFirst, OnlyOwnDebris, PartVerified, Verified, BlobsVerified
  <1>3. ASSUME NEW p \in Proc, PullStep(p)
        PROVE  (StrictFirst /\ OnlyOwnDebris /\ PartVerified /\ BlobsVerified)'
    <2>0. EInv /\ PInv /\ pc[p] = "work" /\ pc'[p] \in {"work", "idle"}
      BY <1>3, PullStepPull DEF DInv
    <2>1. CASE pc'[p] = "idle"
      <3>1. Verified(pull[p])' /\ UNCHANGED dl
        BY <1>3, <2>0, <2>1, PullStepPull, NoPullType DEF Verified
      <3> QED
        BY <1>3, <2>0, <2>1, <3>1, OneDebris DEF DInv, BlobsVerified
    <2>2. CASE pc'[p] = "work"
      <3>1. (Own(pull[p]) /\ Verified(pull[p]) /\ BlobsVerified)'
        <4>1. CASE Begin(p) \/ FatmanFat(p) \/ ManifestLoad(p) \/ NextBlob(p)
                   \/ CheckoutCached(p) \/ UnpackDelete(p) \/ Unpack(p)
          <5>1. /\ pull[p].at \notin {"stream", "unlink", "rename", "commit"}
                /\ pull'[p].at \notin {"unlink", "rename"}
                /\ UNCHANGED <<dl, dir>>
            BY <4>1, <2>0, PullAt
            DEF Begin, FatmanFat, ManifestLoad, NextBlob, CheckoutCached, UnpackDelete, Unpack
          <5> QED
            BY <2>0, <5>1, NoDebrisStep
        <4>2. ~Fatal(p)
          BY <2>0, <2>2 DEF Fatal, Ends, Gone, Go, PInv, TInv, TypeOK
        <4> QED
          BY <1>3, <4>1, <4>2, OpenDebris, StreamDebris, UnlinkDebris, RenameDebris,
             SkinnyDebris, AdoptDebris
          DEF PullStep, Unavailable, FatmanFatal, ManifestFatal, Finish
      <3> QED
        BY <1>3, <2>0, <3>1, OneDebris
    <2> QED
      BY <2>0, <2>1, <2>2
  <1>4. ASSUME NEW p \in Proc, StorageStep(p), pull' = [pull EXCEPT ![p] = NoPull]
        PROVE  (StrictFirst /\ OnlyOwnDebris /\ PartVerified /\ BlobsVerified)'
    <2>0. TypeOK /\ MkCount
      BY DEF DInv, EInv, TInv
    <2>1. /\ "imgtmp" \in dir' => "imgtmp" \in dir
          /\ pc'[p] = "work" => cleanup(p)
          /\ pc'[p] = "cleanup" => "imgtmp" \notin dir'
          /\ \A q \in Proc \ {p} : pc'[q] = pc[q] /\ pull'[q] = pull[q]
          /\ pull'[p] = NoPull
      BY <1>4, <2>0, StorageDebris, StorageDl DEF DInv, PInv, PullType
    <2>2. \A n \in DOMAIN dl' : n \in DOMAIN dl /\ dl'[n] = dl[n]
      BY <1>4, <2>0, StorageDl DEF Without
    <2>3. StrictFirst'
      BY <2>1 DEF DInv, StrictFirst
    <2>4. PartVerified' /\ BlobsVerified'
      BY <2>1, <2>2, NoPullType DEF DInv, PartVerified, Verified, BlobsVerified
    <2>5. OnlyOwnDebris'
      <3>1. ASSUME NEW q \in Proc \ {p}, pc'[q] = "work" PROVE Own(pull[q])'
        BY <2>1, <2>2, <3>1 DEF DInv, OnlyOwnDebris, Own
      <3>2. ASSUME pc'[p] = "work" PROVE Own(pull[p])'
        <4>1. "imgtmp" \notin dir /\ Partials = {}
          BY <2>1, <3>2 DEF cleanup, DInv, StrictFirst
        <4> QED
          BY <2>1, <2>2, <4>1 DEF Own, Partials
      <3> QED
        BY <3>1, <3>2 DEF OnlyOwnDebris, Own
    <2> QED
      BY <2>3, <2>4, <2>5
  <1> QED
    BY <1>1, <1>2, <1>3, <1>4 DEF Next

\* If nobody runs reset beside another command: no command works among what
\* another one left half done, wherever that one was killed or gave up.
THEOREM DebrisIsOwn ==
  ASSUME ResetAlone = TRUE
  PROVE  Spec => []OnlyOwnDebris
  <1>1. DInv => OnlyOwnDebris
    BY DEF DInv
  <1> QED
    BY <1>1, InitDInv, StepDInv, PTL DEF Spec

\* If nobody runs reset beside another command: a config or layer file that
\* has its own name has what the digest in that name says.
THEOREM BlobsAreVerified ==
  ASSUME ResetAlone = TRUE
  PROVE  Spec => []BlobsVerified
  <1>1. DInv => BlobsVerified
    BY DEF DInv
  <1> QED
    BY <1>1, InitDInv, StepDInv, PTL DEF Spec

-----------------------------------------------------------------------------
(* The images *)

\* --arch=yolo and other architectures are not used for one destination.
ArchApart == \A d \in Dst : "yolo" \in ArchFor[d] => ArchFor[d] = {"yolo"}

Good(m) == [i \in DOMAIN BlobsOf[m] |-> [k |-> "blob", of |-> BlobsOf[m][i]]]

\* What pull q has been offered, by the registry now or by manifest (list) c.
Fresh(q, c) == /\ c.k = "skinny" => Offers(c, q.asked) \subseteq q.of
               /\ c.k = "fat" => Offers(c, q.asked) \subseteq q.of
ManFresh(q, c) == c.k = "skinny" => c.of \in q.of

\* Manifest list and manifest come from offers made to this pull.
Offered(q) ==
    /\ q.asked \in ArchFor[q.dst] /\ Offers(remote[q.src], q.asked) \subseteq q.of
    /\ (q.at \in Fetching /\ q.ret = "fatman") \/ q.at = "fatman" =>
         q.arch = q.asked /\ q.asked # "yolo"
    /\ q.at \in Fetching /\ q.ret = "manifest" =>
         IF q.file[3] = "skinny" THEN q.asked = "yolo" ELSE q.file[3] \in q.of
    /\ q.at \in {"unlink", "rename"} /\ Part(q.file) \in DOMAIN dl =>
         /\ q.ret = "fatman" => Fresh(q, dl[Part(q.file)])
         /\ q.ret = "manifest" => /\ dl[Part(q.file)].k # "link"
                                  /\ ManFresh(q, dl[Part(q.file)])
    /\ q.at = "fatman" => Fresh(q, Fat(q))
    /\ q.at = "manifest" => ManFresh(q, Read(q.file))

\* Every blob of the manifest is to come, is here or is on its way.
BlobsThere(q) ==
    /\ Loading(q) => q.man \in q.of
    /\ Loading(q) /\ q.at \in Fetching \cup {"blobs", "unpack"} =>
         \A i \in DOMAIN BlobsOf[q.man] :
            \/ q.at # "unpack" /\ \E j \in DOMAIN q.todo : q.todo[j] = BlobsOf[q.man][i]
            \/ Exists(<<"blob", BlobsOf[q.man][i]>>)
            \/ q.at \in Fetching /\ q.file = <<"blob", BlobsOf[q.man][i]>>
    /\ q.at = "adopt" => image[q.dst] = Good(q.man)
    /\ q.at = "commit" => q.todo = Good(q.man)

\* Under the name of a manifest without architecture there is a link, unless
\* somebody asks for "yolo".
SkinnyIsLink ==
    \A d \in Dst : "yolo" \notin ArchFor[d] /\ Exists(<<"man", d, "skinny">>) =>
        Raw(<<"man", d, "skinny">>).k \in {"link", "badlink"}

CachedGood == \A m \in DOMAIN cached : cached[m] = Good(m)

Current == \A p \in Proc : pull[p].at # "none" => Offered(pull[p]) /\ BlobsThere(pull[p])

RInv == DInv /\ SkinnyIsLink /\ CachedGood /\ Current

LEMMA InitRInv == Init => RInv
  <1> SUFFICES ASSUME Init PROVE SkinnyIsLink /\ CachedGood /\ Current
    BY InitDInv DEF RInv
  <1>1. SkinnyIsLink
    BY DEF Init, Absent, Found, Only, SkinnyIsLink, Exists, Raw
  <1>2. CachedGood
    BY DEF Init, CachedGood
  <1>3. Current
    BY NoPullType DEF Init, Current
  <1> QED
    BY <1>1, <1>2, <1>3

LEMMA CurrentFacts ==
  ASSUME RInv, NEW p \in Proc, pull[p].at # "none"
  PROVE  /\ pull \in [Proc -> Puller] /\ pull[p] \in Puller /\ Fits(pull[p])
         /\ Offered(pull[p]) /\ BlobsThere(pull[p])
  BY DEF RInv, DInv, PInv, PullType, Current

\* Again, one pull makes a step and the others are not there.
LEMMA OneCurrent ==
  ASSUME RInv, NEW p \in Proc, PullStep(p),
         pull'[p].at # "none" => (Offered(pull[p]) /\ BlobsThere(pull[p]))'
  PROVE  Current'
  <1>1. pc[p] = "work" /\ EInv /\ PInv
    BY PullStepPull DEF RInv, DInv
  <1>2. \A q \in Proc \ {p} : pull'[q].at = "none"
    BY <1>1, WorksAlone, PullStepPull, NoPullType
  <1>3. \A q \in Proc : pull'[q].at # "none" => q = p
    BY <1>2
  <1> QED
    BY <1>3 DEF Current

\* While a file is fetched, other files stay.
LEMMA FetchCurrent ==
  ASSUME RInv, NEW p \in Proc, pull[p].at \in Fetching, NEW at \in Fetching,
         Set(p, [pull[p] EXCEPT !.at = at]), UNCHANGED <<remote, image>>,
         \A k : Exists(k) => Exists(k)' \/ k = pull[p].file,
         at \in {"unlink", "rename"} /\ Part(pull[p].file) \in DOMAIN dl' =>
           /\ pull[p].ret = "fatman" => Fresh(pull[p], dl'[Part(pull[p].file)])
           /\ pull[p].ret = "manifest" => /\ dl'[Part(pull[p].file)].k # "link"
                                          /\ ManFresh(pull[p], dl'[Part(pull[p].file)])
  PROVE  (Offered(pull[p]) /\ BlobsThere(pull[p]))'
  <1> DEFINE q == pull[p]
  <1>0. Offered(q) /\ BlobsThere(q) /\ PInv /\ at \in At
    BY CurrentFacts DEF RInv, DInv, Fetching, At
  <1>1. /\ pull'[p].at = at /\ pull'[p].file = pull[p].file /\ pull'[p].ret = pull[p].ret
        /\ pull'[p].src = pull[p].src /\ pull'[p].dst = pull[p].dst
        /\ pull'[p].asked = pull[p].asked /\ pull'[p].arch = pull[p].arch
        /\ pull'[p].man = pull[p].man /\ pull'[p].todo = pull[p].todo
        /\ pull'[p].of = pull[p].of
    BY <1>0, FetchKeeps
  <1>2. Offered(pull[p])'
    BY <1>0, <1>1 DEF Offered, Fetching, Fresh, ManFresh
  <1>3. BlobsThere(pull[p])'
    BY <1>0, <1>1 DEF BlobsThere, Fetching, Loading
  <1> QED
    BY <1>2, <1>3

LEMMA OpenCurrent ==
  ASSUME RInv, NEW p \in Proc, Open(p)
  PROVE  (Offered(pull[p]) /\ BlobsThere(pull[p]))'
  <1>1. \A k : Exists(k) => Exists(k)'
    BY DEF Open, Exists, Write
  <1> QED
    BY <1>1, FetchCurrent DEF Open, Fetching, Quiet

LEMMA StreamCurrent ==
  ASSUME RInv, NEW p \in Proc, Stream(p)
  PROVE  (Offered(pull[p]) /\ BlobsThere(pull[p]))'
  <1> DEFINE q == pull[p]
  <1>0. Offered(q) /\ Fits(q) /\ q.at = "stream"
    BY CurrentFacts DEF Stream
  <1>1. PICK c \in Responses(q) : dl' = Write(Part(q.file), c)
    BY DEF Stream
  <1>2. \A k : Exists(k) => Exists(k)'
    BY <1>1 DEF Exists, Write
  <1>3. dl'[Part(q.file)] = c
    BY <1>1 DEF Write
  <1>4. q.ret = "fatman" => Fresh(q, c)
    BY <1>0, <1>1 DEF Fits, Fetching, Responses, Offered, Fresh, Bad
  <1>5. q.ret = "manifest" => c.k # "link" /\ ManFresh(q, c)
    BY <1>0, <1>1 DEF Fits, Fetching, ManKey, Responses, Offered, ManFresh, Bad
  <1> QED
    BY <1>2, <1>3, <1>4, <1>5, FetchCurrent DEF Stream, Fetching, Quiet

LEMMA UnlinkCurrent ==
  ASSUME RInv, NEW p \in Proc, Unlink(p)
  PROVE  (Offered(pull[p]) /\ BlobsThere(pull[p]))'
  <1> DEFINE q == pull[p]
  <1>0. Offered(q) /\ q.at = "unlink"
    BY CurrentFacts DEF Unlink
  <1>1. \A k : Exists(k) => Exists(k)' \/ k = q.file
    BY DEF Unlink, Exists, Without, Final, File
  <1>2. Part(q.file) \in DOMAIN dl' => Part(q.file) \in DOMAIN dl
                                      /\ dl'[Part(q.file)] = dl[Part(q.file)]
    BY DEF Unlink, Without
  <1> QED
    BY <1>0, <1>1, <1>2, FetchCurrent DEF Unlink, Fetching, Quiet, Offered

LEMMA RenameCurrent ==
  ASSUME RInv, NEW p \in Proc, Rename(p)
  PROVE  (Offered(pull[p]) /\ BlobsThere(pull[p]))'
  <1> DEFINE q == pull[p]
             c == dl[Part(q.file)]
  <1>0. /\ Offered(q) /\ BlobsThere(q) /\ Fits(q) /\ PInv /\ q.at = "rename"
        /\ Part(q.file) \in DOMAIN dl
    BY CurrentFacts DEF Rename, RInv, DInv
  <1>1. q.ret \in {"fatman", "manifest", "blobs"} /\ q.ret \in At
    BY <1>0 DEF Fits, Fetching, At
  <1>2. /\ pull'[p].at = q.ret /\ pull'[p].file = q.file /\ pull'[p].ret = q.ret
        /\ pull'[p].src = q.src /\ pull'[p].dst = q.dst
        /\ pull'[p].asked = q.asked /\ pull'[p].arch = q.arch
        /\ pull'[p].man = q.man /\ pull'[p].todo = q.todo
        /\ pull'[p].of = q.of
    BY <1>0, <1>1, FetchKeeps DEF Rename
  <1>3. /\ dl' = Without(Write(Final(q.file), c), {Part(q.file)})
        /\ UNCHANGED <<remote, image>>
    BY DEF Rename, Quiet
  <1>4. Raw(q.file)' = c /\ Exists(q.file)' /\ \A k : Exists(k) => Exists(k)'
    BY <1>2, <1>3 DEF Raw, Exists, Without, Write, Part, Final, File
  <1>5. CASE q.ret = "fatman"
    <2>1. Fresh(q, c) /\ q.file = <<"fat", q.dst>>
      BY <1>0, <1>5 DEF Offered, Fits, Fetching
    <2>2. Fat(pull[p])' = c
      BY <1>2, <1>4, <2>1 DEF Fat
    <2> QED
      BY <1>0, <1>2, <1>3, <1>5, <2>1, <2>2
      DEF Offered, BlobsThere, Loading, Fetching, Fresh
  <1>6. CASE q.ret = "manifest"
    <2>1. c.k # "link" /\ ManFresh(q, c)
      BY <1>0, <1>6 DEF Offered
    <2>2. Read(pull[p].file)' = c
      BY <1>2, <1>4, <2>1 DEF Read
    <2> QED
      BY <1>0, <1>2, <1>3, <1>6, <2>1, <2>2
      DEF Offered, BlobsThere, Loading, Fetching, ManFresh
  <1>7. CASE q.ret = "blobs"
    <2>1. Offered(pull[p])'
      BY <1>0, <1>2, <1>3, <1>7 DEF Offered, Fetching
    <2>2. BlobsThere(pull[p])'
      BY <1>0, <1>2, <1>4, <1>7 DEF BlobsThere, Loading, Fetching
    <2> QED
      BY <2>1, <2>2
  <1> QED
    BY <1>1, <1>5, <1>6, <1>7

LEMMA BeginCurrent ==
  ASSUME RInv, PullsPerCommand = 1, NEW p \in Proc, Begin(p)
  PROVE  (Offered(pull[p]) /\ BlobsThere(pull[p]))'
  <1>0. pull \in [Proc -> Puller] /\ pull[p].n = 0
    BY DEF RInv, DInv, PInv, PullType, Puller, Begin
  <1>1. PICK s \in Src, d \in Dst : \E a \in ArchFor[d] :
          LET fat == a # "yolo"
          IN Set(p, [NoPull EXCEPT
                      !.at = "open", !.src = s, !.dst = d, !.asked = a,
                      !.arch = a, !.n = pull[p].n + 1,
                      !.file = IF fat THEN <<"fat", d>> ELSE <<"man", d, "skinny">>,
                      !.ret = IF fat THEN "fatman" ELSE "manifest",
                      !.of = Offers(remote[s], a)])
    BY <1>0 DEF Begin
  <1>b. PICK a \in ArchFor[d] :
          LET fat == a # "yolo"
          IN Set(p, [NoPull EXCEPT
                      !.at = "open", !.src = s, !.dst = d, !.asked = a,
                      !.arch = a, !.n = pull[p].n + 1,
                      !.file = IF fat THEN <<"fat", d>> ELSE <<"man", d, "skinny">>,
                      !.ret = IF fat THEN "fatman" ELSE "manifest",
                      !.of = Offers(remote[s], a)])
    BY <1>1
  <1> DEFINE file == IF a # "yolo" THEN <<"fat", d>> ELSE <<"man", d, "skinny">>
             ret == IF a # "yolo" THEN "fatman" ELSE "manifest"
  <1>2. /\ a # "yolo" => ret = "fatman"
        /\ a = "yolo" => ret = "manifest" /\ file[3] = "skinny"
    OBVIOUS
  <1>3. pull'[p] = [NoPull EXCEPT
                      !.at = "open", !.src = s, !.dst = d, !.asked = a,
                      !.arch = a, !.n = pull[p].n + 1, !.file = file, !.ret = ret,
                      !.of = Offers(remote[s], a)]
    BY <1>0, <1>b DEF Set
  <1> HIDE DEF file, ret
  <1>4. /\ pull'[p].at = "open" /\ pull'[p].src = s /\ pull'[p].dst = d
        /\ pull'[p].asked = a /\ pull'[p].arch = a /\ pull'[p].file = file
        /\ pull'[p].ret = ret /\ pull'[p].of = Offers(remote[s], a)
    BY <1>3, NoPullType DEF Puller
  <1>5. remote' = remote
    BY DEF Begin, Quiet
  <1> QED
    BY <1>2, <1>4, <1>5 DEF Offered, BlobsThere, Loading, Fetching

LEMMA FatmanFatCurrent ==
  ASSUME RInv, NEW p \in Proc, FatmanFat(p)
  PROVE  (Offered(pull[p]) /\ BlobsThere(pull[p]))'
  <1> DEFINE q == pull[p]
             a == ArchKey(Fat(q).of, q.arch)
             x == Fat(q).of[a]
  <1>0. pull \in [Proc -> Puller] /\ q \in Puller /\ Offered(q) /\ q.at = "fatman"
    BY CurrentFacts DEF FatmanFat
  <1>1. /\ Fat(q).k = "fat" /\ a # None /\ UNCHANGED <<remote, dl, image>>
        /\ pull'[p] = [q EXCEPT !.at = "open", !.ret = "manifest",
                                !.file = <<"man", q.dst, x>>]
    BY <1>0 DEF FatmanFat, Set, Quiet
  <1>2. x \in Manifest /\ x # "skinny"
    BY <1>1, ArchKeyIn, RawContent, ContentFacts, PullAssumption
    DEF Fat, RInv, DInv, PInv
  <1>3. x \in q.of
    <2>1. Offers(Fat(q), q.arch) \subseteq q.of /\ q.arch # "yolo"
      BY <1>0, <1>1 DEF Offered, Fresh
    <2>2. x \in Offers(Fat(q), q.arch)
      BY <1>1, <2>1 DEF Offers
    <2> QED
      BY <2>1, <2>2
  <1> HIDE DEF x
  <1>4. /\ pull'[p].at = "open" /\ pull'[p].src = q.src /\ pull'[p].dst = q.dst
        /\ pull'[p].asked = q.asked /\ pull'[p].file = <<"man", q.dst, x>>
        /\ pull'[p].ret = "manifest" /\ pull'[p].of = q.of
    BY <1>0, <1>1 DEF Puller
  <1> QED
    BY <1>0, <1>1, <1>2, <1>3, <1>4 DEF Offered, BlobsThere, Loading, Fetching

\* What is read through the link of fatman_load.
LEMMA SkinnyRead ==
  ASSUME NEW d, dl' = SkinnyLink(d),
         Exists(<<"man", d, "skinny">>) => Raw(<<"man", d, "skinny">>).k \in {"link", "badlink"}
  PROVE  \/ Read(<<"man", d, "skinny">>)' = Raw(<<"fat", d>>)
         \/ Read(<<"man", d, "skinny">>)'.k = "badlink"
  <1> DEFINE k == <<"man", d, "skinny">>
             l == <<"fat", d>>
  <1>1. k # l /\ k[2] = d
    OBVIOUS
  <1>2. dl' = dl \/ dl' = Write(Final(k), [k |-> "link"])
    BY DEF SkinnyLink
  <1> HIDE DEF k, l
  <1>3. Raw(l)' = Raw(l)
    BY <1>1, <1>2 DEF Raw, Write, Final, File
  <1>4. Raw(k)'.k \in {"link", "badlink"}
    <2>1. CASE Exists(k)
      BY <2>1 DEF SkinnyLink, Raw, k
    <2>2. CASE ~Exists(k)
      BY <2>2 DEF SkinnyLink, Raw, Write, k
    <2> QED
      BY <2>1, <2>2
  <1>5. Read(k)' = IF Raw(k)'.k = "link" THEN Raw(l)' ELSE Raw(k)'
    BY <1>1 DEF Read, l
  <1> QED
    BY <1>3, <1>4, <1>5 DEF k, l

LEMMA FatmanSkinnyCurrent ==
  ASSUME RInv, ArchApart, NEW p \in Proc, FatmanSkinny(p)
  PROVE  (Offered(pull[p]) /\ BlobsThere(pull[p]))'
  <1> DEFINE q == pull[p]
             file == <<"man", q.dst, "skinny">>
             at == IF q.arch = "amd64" THEN "manifest" ELSE "unaware"
  <1>0. /\ pull \in [Proc -> Puller] /\ q \in Puller /\ Offered(q) /\ Fits(q)
        /\ q.at = "fatman"
    BY CurrentFacts DEF FatmanSkinny
  <1>1. /\ Fat(q).k = "skinny" /\ UNCHANGED <<remote, image>> /\ dl' = SkinnyLink(q.dst)
        /\ pull'[p] = [q EXCEPT !.at = at, !.arch = "yolo", !.file = file]
    BY <1>0 DEF FatmanSkinny, Set, Quiet
  <1>2. "yolo" \notin ArchFor[q.dst] /\ q.arch = q.asked /\ q.dst \in Dst
    BY <1>0 DEF Offered, Fits, ArchApart
  <1>3. /\ at \in {"manifest", "unaware"}
        /\ at = "manifest" => q.asked = "amd64"
    BY <1>2
  <1> HIDE DEF at
  <1>4. /\ pull'[p].at = at /\ pull'[p].src = q.src /\ pull'[p].dst = q.dst
        /\ pull'[p].asked = q.asked /\ pull'[p].file = file /\ pull'[p].of = q.of
    BY <1>0, <1>1 DEF Puller
  <1>5. q.asked = "amd64" => Fat(q).of \in q.of
    BY <1>0, <1>1 DEF Offered, Fresh, Offers
  <1>6. Exists(file) => Raw(file).k \in {"link", "badlink"}
    BY <1>2 DEF RInv, SkinnyIsLink
  <1>7. Read(pull[p].file)' = Fat(q) \/ Read(pull[p].file)'.k = "badlink"
    BY <1>1, <1>4, <1>6, SkinnyRead DEF Fat
  <1> QED
    BY <1>0, <1>1, <1>3, <1>4, <1>5, <1>7
    DEF Offered, ManFresh, BlobsThere, Loading, Fetching

LEMMA ManifestLoadCurrent ==
  ASSUME RInv, NEW p \in Proc, ManifestLoad(p)
  PROVE  (Offered(pull[p]) /\ BlobsThere(pull[p]))'
  <1> DEFINE q == pull[p]
             x == Read(q.file).of
  <1>0. pull \in [Proc -> Puller] /\ q \in Puller /\ Offered(q) /\ q.at = "manifest"
    BY CurrentFacts DEF ManifestLoad
  <1>1. /\ Read(q.file).k = "skinny" /\ UNCHANGED <<remote, dl, image>>
        /\ pull'[p] = [q EXCEPT !.at = "blobs", !.man = x, !.todo = BlobsOf[x]]
    BY <1>0 DEF ManifestLoad, Set, Quiet
  <1>2. x \in q.of
    BY <1>0, <1>1 DEF Offered, ManFresh
  <1> HIDE DEF x
  <1>3. /\ pull'[p].at = "blobs" /\ pull'[p].src = q.src /\ pull'[p].dst = q.dst
        /\ pull'[p].asked = q.asked /\ pull'[p].of = q.of
        /\ pull'[p].man = x /\ pull'[p].todo = BlobsOf[x]
    BY <1>0, <1>1 DEF Puller
  <1> QED
    BY <1>0, <1>1, <1>2, <1>3 DEF Offered, BlobsThere, Loading, Fetching

LEMMA NextBlobCurrent ==
  ASSUME RInv, NEW p \in Proc, NextBlob(p)
  PROVE  (Offered(pull[p]) /\ BlobsThere(pull[p]))'
  <1> DEFINE q == pull[p]
             b == Head(q.todo)
             t == Tail(q.todo)
             r == [q EXCEPT !.todo = t]
  <1>0. /\ pull \in [Proc -> Puller] /\ q \in Puller /\ Offered(q) /\ BlobsThere(q)
        /\ q.at = "blobs" /\ q.todo \in Seq(Blob) /\ q.todo # << >>
    BY CurrentFacts DEF NextBlob, Fits, Loading
  <1>1. /\ UNCHANGED <<remote, dl, image>>
        /\ \/ Exists(<<"blob", b>>) /\ pull'[p] = r
           \/ pull'[p] = [r EXCEPT !.at = "open", !.file = <<"blob", b>>, !.ret = "blobs"]
    BY <1>0 DEF NextBlob, Set, Quiet
  <1>2. \A y : (\E j \in DOMAIN q.todo : q.todo[j] = y) =>
                 y = b \/ \E j \in DOMAIN t : t[j] = y
    <2> SUFFICES ASSUME NEW y, NEW j \in DOMAIN q.todo, q.todo[j] = y, y # b
                 PROVE  \E i \in DOMAIN t : t[i] = y
      OBVIOUS
    <2>1. j \in 2 .. Len(q.todo) /\ Len(t) = Len(q.todo) - 1 /\ t \in Seq(Blob)
      BY <1>0
    <2>2. j - 1 \in DOMAIN t /\ t[j - 1] = q.todo[j]
      BY <1>0, <2>1
    <2> QED
      BY <2>2
  <1>3. t \in Seq(Blob \cup Content)
    BY <1>0, SeqBlob
  <1> HIDE DEF t, b
  <1>4. r \in Puller
    BY <1>0, <1>3 DEF Puller
  <1>5. /\ r.at = "blobs" /\ r.src = q.src /\ r.dst = q.dst /\ r.asked = q.asked
        /\ r.of = q.of /\ r.man = q.man /\ r.todo = t
    BY <1>0 DEF Puller
  <1> HIDE DEF r
  <1>6. /\ pull'[p].src = q.src /\ pull'[p].dst = q.dst /\ pull'[p].asked = q.asked
        /\ pull'[p].of = q.of /\ pull'[p].man = q.man /\ pull'[p].todo = t
        /\ \/ Exists(<<"blob", b>>) /\ pull'[p].at = "blobs"
           \/ /\ pull'[p].at = "open" /\ pull'[p].ret = "blobs"
              /\ pull'[p].file = <<"blob", b>>
    BY <1>1, <1>4, <1>5 DEF Puller
  <1>7. Offered(pull[p])'
    BY <1>0, <1>1, <1>6 DEF Offered, Fetching
  <1>8. BlobsThere(pull[p])'
    <2>1. Loading(q) /\ q.man \in q.of
      BY <1>0 DEF Loading, BlobsThere
    <2>2. \A i \in DOMAIN BlobsOf[q.man] :
            \/ BlobsOf[q.man][i] = b \/ \E j \in DOMAIN t : t[j] = BlobsOf[q.man][i]
            \/ Exists(<<"blob", BlobsOf[q.man][i]>>)
      BY <1>0, <1>2, <2>1 DEF BlobsThere, Fetching
    <2>3. \A k : Exists(k)' <=> Exists(k)
      BY <1>1 DEF Exists
    <2> QED
      BY <1>6, <2>1, <2>2, <2>3 DEF BlobsThere, Loading, Fetching
  <1> QED
    BY <1>7, <1>8

LEMMA UnpackDeleteCurrent ==
  ASSUME RInv, NEW p \in Proc, UnpackDelete(p)
  PROVE  (Offered(pull[p]) /\ BlobsThere(pull[p]))'
  <1> DEFINE q == pull[p]
  <1>0. /\ Offered(q) /\ BlobsThere(q) /\ q.at = "blobs" /\ q.todo = << >> /\ PInv
    BY CurrentFacts DEF UnpackDelete, RInv, DInv
  <1>1. /\ pull'[p].at = "unpack" /\ pull'[p].src = q.src /\ pull'[p].dst = q.dst
        /\ pull'[p].asked = q.asked /\ pull'[p].of = q.of /\ pull'[p].man = q.man
    BY <1>0, FetchKeeps DEF UnpackDelete, At
  <1>2. UNCHANGED <<remote, dl>>
    BY DEF UnpackDelete
  <1> QED
    BY <1>0, <1>1, <1>2 DEF Offered, BlobsThere, Loading, Fetching, Exists

\* Every blob there and verified: the image is what the manifest says.
LEMMA ContentsGood ==
  ASSUME BlobsVerified, NEW m,
         \A i \in DOMAIN BlobsOf[m] : Exists(<<"blob", BlobsOf[m][i]>>)
  PROVE  Contents(m) = Good(m)
  <1>1. \A b : Exists(<<"blob", b>>) => Raw(<<"blob", b>>) = [k |-> "blob", of |-> b]
    <2> TAKE b
    <2> DEFINE k == <<"blob", b>>
    <2>1. k[1] = "blob" /\ k[2] = b
      OBVIOUS
    <2> HIDE DEF k
    <2>2. Exists(k) => Raw(k) = [k |-> "blob", of |-> b]
      BY <2>1 DEF BlobsVerified, Exists, Raw, Final, File
    <2> QED
      BY <2>2 DEF k
  <1> QED
    BY <1>1 DEF Contents, Good

LEMMA UnpackCurrent ==
  ASSUME LastLayer = {}, RInv, NEW p \in Proc, Unpack(p)
  PROVE  /\ (Offered(pull[p]) /\ BlobsThere(pull[p]))'
         /\ image' = [image EXCEPT ![pull[p].dst] = Good(pull[p].man)]
  <1> DEFINE q == pull[p]
  <1>0. /\ Offered(q) /\ BlobsThere(q) /\ q.at = "unpack" /\ PInv /\ BlobsVerified
        /\ q.dst \in Dst
    BY CurrentFacts DEF Unpack, RInv, DInv, Fits
  <1>1. /\ pull'[p].at = "adopt" /\ pull'[p].src = q.src /\ pull'[p].dst = q.dst
        /\ pull'[p].asked = q.asked /\ pull'[p].of = q.of /\ pull'[p].man = q.man
    BY <1>0, FetchKeeps DEF Unpack, At
  <1>2. UNCHANGED <<remote, dl>> /\ image' = [image EXCEPT ![q.dst] = Contents(q.man)]
    BY DEF Unpack, Unpacked
  <1>3. Contents(q.man) = Good(q.man)
    BY <1>0, ContentsGood DEF BlobsThere, Loading, Fetching
  <1>4. image'[q.dst] = Good(q.man)
    BY <1>0, <1>2, <1>3 DEF PInv, PullType
  <1>5. Offered(pull[p])'
    BY <1>0, <1>1, <1>2 DEF Offered, Fetching
  <1>6. BlobsThere(pull[p])'
    BY <1>0, <1>1, <1>4 DEF BlobsThere, Loading, Fetching, Good
  <1> QED
    BY <1>2, <1>3, <1>5, <1>6

LEMMA AdoptCurrent ==
  ASSUME RInv, NEW p \in Proc, Adopt(p)
  PROVE  (Offered(pull[p]) /\ BlobsThere(pull[p]))'
  <1> DEFINE q == pull[p]
             c == image[q.dst]
  <1>0. /\ pull \in [Proc -> Puller] /\ q \in Puller /\ Offered(q) /\ BlobsThere(q)
        /\ q.at = "adopt"
    BY CurrentFacts DEF Adopt
  <1>1. UNCHANGED <<remote, dl>> /\ pull'[p] = [q EXCEPT !.at = "commit", !.todo = c]
    BY <1>0 DEF Adopt, Set
  <1>2. c = Good(q.man) /\ q.man \in q.of
    BY <1>0 DEF BlobsThere, Loading
  <1> HIDE DEF c
  <1>3. /\ pull'[p].at = "commit" /\ pull'[p].src = q.src /\ pull'[p].dst = q.dst
        /\ pull'[p].asked = q.asked /\ pull'[p].of = q.of /\ pull'[p].man = q.man
        /\ pull'[p].todo = c
    BY <1>0, <1>1 DEF Puller
  <1>4. Offered(pull[p])'
    BY <1>0, <1>1, <1>3 DEF Offered, Fetching
  <1>5. BlobsThere(pull[p])'
    BY <1>2, <1>3 DEF BlobsThere, Loading, Fetching, Good
  <1> QED
    BY <1>4, <1>5

\* The build cache has whole images only.
LEMMA CommitCached ==
  ASSUME RInv, NEW p \in Proc, Commit(p)
  PROVE  CachedGood' /\ pull[p].todo = Good(pull[p].man)
  <1>1. pull[p].todo = Good(pull[p].man)
    BY CurrentFacts DEF Commit, BlobsThere
  <1> QED
    BY <1>1 DEF Commit, RInv, CachedGood, Good

\* Only a pull with --arch=yolo puts anything but a link there.
LEMMA SkinnyStaysLink ==
  ASSUME RInv, NEW p \in Proc, PullStep(p)
  PROVE  SkinnyIsLink'
  <1> DEFINE K(d) == <<"man", d, "skinny">>
             Link(d) == Exists(K(d)) => Raw(K(d)).k \in {"link", "badlink"}
  <1> SUFFICES ASSUME NEW d \in Dst, "yolo" \notin ArchFor[d] PROVE Link(d)'
    BY DEF SkinnyIsLink
  <1>0. Link(d)
    BY DEF RInv, SkinnyIsLink
  <1>1. ASSUME NEW f, NEW c, dl' = Write(Part(f), c) PROVE Link(d)'
    BY <1>0, <1>1 DEF Exists, Raw, Write, Part, Final, File
  <1>2. ASSUME NEW gone, dl' = Without(dl, gone) PROVE Link(d)'
    BY <1>0, <1>2 DEF Exists, Raw, Without
  <1>3. CASE dl' = dl
    BY <1>0, <1>3 DEF Exists, Raw
  <1>4. CASE Rename(p)
    <2> DEFINE q == pull[p]
    <2>1. Offered(q) /\ Fits(q) /\ q.at = "rename"
      BY <1>4, CurrentFacts DEF Rename
    <2>2. q.file # K(d)
      BY <2>1 DEF Offered, Fits, Fetching, ManKey, BlobKey
    <2>3. dl' = Without(Write(Final(q.file), dl[Part(q.file)]), {Part(q.file)})
      BY <1>4 DEF Rename
    <2> HIDE DEF K
    <2> QED
      BY <1>0, <2>2, <2>3 DEF Exists, Raw, Without, Write, Part, Final, File
  <1>5. CASE FatmanSkinny(p)
    <2>1. dl' = SkinnyLink(pull[p].dst)
      BY <1>5 DEF FatmanSkinny
    <2>2. CASE dl' = Write(Final(K(pull[p].dst)), [k |-> "link"])
      <3> HIDE DEF K
      <3> QED
        BY <1>0, <2>2 DEF Exists, Raw, Write, Final, File
    <2> QED
      BY <1>3, <2>1, <2>2 DEF SkinnyLink
  <1> HIDE DEF Link
  <1> QED
    BY <1>1, <1>2, <1>3, <1>4, <1>5, FatalFacts
    DEF PullStep, Begin, Open, Stream, Unlink, Unavailable, FatmanFat, FatmanFatal,
        ManifestLoad, ManifestFatal, NextBlob, CheckoutCached, UnpackDelete, Unpack, Adopt,
        Commit, Finish, RInv, DInv, PInv, TInv

\* Storage removes files only where no pull is under way.
LEMMA StorageDlAlone ==
  ASSUME DInv, NEW p \in Proc, StorageStep(p), NEW q \in Proc \ {p}, pull[q].at # "none"
  PROVE  dl' = dl
  <1>1. dl' # dl => pc[p] \in {"links", "rm"}
    BY DEF StorageStep, Start, Look, LookFatal, Version, VersionFatal, MkRoot, MkRootFatal,
           LockOpen, LockF, LockFatal, MkDir, UpgradeLinks, VersionWrite, Strict,
           InsideFatal, cleanup, CleanupFatal, Reset, ResetRemove, ResetRmdir,
           ResetFatal, Kill, Gone, Ends, Fs
  <1>2. pc[q] = "work"
    BY NoPullType DEF DInv, PInv, PullType
  <1> QED
    BY <1>1, <1>2 DEF DInv, EInv, Alone, Exclusive, Inside

LEMMA StepRInv ==
  ASSUME ResetAlone = TRUE, ArchApart, PullsPerCommand = 1, LastLayer = {}
  PROVE  RInv /\ [Next]_vars => RInv'
  <1> SUFFICES ASSUME RInv, [Next]_vars PROVE (SkinnyIsLink /\ CachedGood /\ Current)'
    BY StepDInv DEF RInv
  <1>0. PInv /\ EInv /\ DInv /\ pull \in [Proc -> Puller]
    BY DEF RInv, DInv, PInv, PullType
  <1>1. CASE UNCHANGED vars
    <2>1. UNCHANGED <<dl, remote, image, cached, pull>>
      BY <1>1 DEF vars, storageVars, pullVars
    <2>2. SkinnyIsLink' /\ CachedGood'
      BY <2>1 DEF RInv, SkinnyIsLink, CachedGood, Good, Exists, Raw
    <2>3. ASSUME NEW p \in Proc, Offered(pull[p]) PROVE Offered(pull[p])'
      BY <2>1, <2>3 DEF Offered, Fresh, ManFresh, Fat, Read, Raw
    <2>4. ASSUME NEW p \in Proc, BlobsThere(pull[p]) PROVE BlobsThere(pull[p])'
      BY <2>1, <2>4 DEF BlobsThere, Loading, Good, Exists
    <2> QED
      BY <2>1, <2>2, <2>3, <2>4 DEF RInv, Current
  <1>2. ASSUME NEW s \in Src, Update(s) PROVE (SkinnyIsLink /\ CachedGood /\ Current)'
    <2>1. UNCHANGED <<dl, image, cached>>
      BY <1>2 DEF Update, storageVars
    <2>2. SkinnyIsLink' /\ CachedGood'
      BY <2>1 DEF RInv, SkinnyIsLink, CachedGood, Good, Exists, Raw
    <2>3. ASSUME NEW p \in Proc, pull'[p].at # "none"
          PROVE  (Offered(pull[p]) /\ BlobsThere(pull[p]))'
      <3> DEFINE q == pull[p]
      <3>1. /\ pull'[p].at = q.at /\ pull'[p].src = q.src /\ pull'[p].dst = q.dst
            /\ pull'[p].asked = q.asked /\ pull'[p].arch = q.arch /\ pull'[p].file = q.file
            /\ pull'[p].ret = q.ret /\ pull'[p].man = q.man /\ pull'[p].todo = q.todo
        BY <1>0, <1>2 DEF Update, Puller
      <3>2. /\ Offered(q) /\ BlobsThere(q) /\ q.src \in Src
        BY <2>3, <3>1, CurrentFacts DEF Fits
      <3>3. /\ q.of \subseteq pull'[p].of
            /\ Offers(remote'[q.src], q.asked) \subseteq pull'[p].of
        <4>1. CASE q.src = s
          <5>1. pull'[p] = [q EXCEPT !.of = @ \cup Offers(remote'[s], q.asked)]
            BY <1>2, <2>3, <3>1, <4>1 DEF Update
          <5>2. pull'[p].of = q.of \cup Offers(remote'[s], q.asked)
            BY <1>0, <5>1 DEF Puller
          <5> QED
            BY <4>1, <5>2
        <4>2. CASE q.src # s
          <5>1. pull'[p] = q /\ remote'[q.src] = remote[q.src]
            BY <1>0, <1>2, <3>2, <4>2 DEF Update, PInv, PullType
          <5> QED
            BY <3>2, <5>1 DEF Offered
        <4> QED
          BY <4>1, <4>2
      <3>4. Offered(pull[p])'
        BY <2>1, <3>1, <3>2, <3>3
        DEF Offered, Fresh, ManFresh, Fat, Read, Raw
      <3>5. BlobsThere(pull[p])'
        BY <2>1, <3>1, <3>2, <3>3 DEF BlobsThere, Loading, Good, Exists
      <3> QED
        BY <3>4, <3>5
    <2> QED
      BY <2>2, <2>3 DEF Current
  <1>3. ASSUME NEW p \in Proc, PullStep(p) PROVE (SkinnyIsLink /\ CachedGood /\ Current)'
    <2>1. SkinnyIsLink'
      BY <1>3, SkinnyStaysLink
    <2>2. CachedGood'
      <3>1. CASE Commit(p)
        BY <3>1, CommitCached
      <3>2. CASE cached' = cached
        BY <3>2 DEF RInv, CachedGood, Good
      <3> QED
        BY <1>0, <1>3, <3>1, <3>2, FatalFacts
        DEF PullStep, Begin, Open, Stream, Unlink, Rename, Unavailable, FatmanFat, FatmanSkinny,
            FatmanFatal, ManifestLoad, ManifestFatal, NextBlob, CheckoutCached, UnpackDelete,
            Unpack, Adopt, Finish, Quiet, PInv, TInv
    <2>3. Current'
      <3>1. CASE Fatal(p)
        BY <1>0, <1>3, <3>1, NoPullType, OneCurrent DEF Fatal
      <3>2. CASE CheckoutCached(p) \/ Commit(p)
        <4>1. CheckoutCached(p) => pull'[p].at = "none"
          BY <1>0 DEF CheckoutCached, Set, Puller
        <4>2. Commit(p) => pull'[p].at = "none"
          BY <1>0 DEF Commit, Set, Puller
        <4> QED
          BY <1>3, <3>2, <4>1, <4>2, OneCurrent
      <3>3. CASE ~(Fatal(p) \/ CheckoutCached(p) \/ Commit(p))
        <4>1. (Offered(pull[p]) /\ BlobsThere(pull[p]))'
          BY <1>3, <3>3, BeginCurrent, OpenCurrent, StreamCurrent, UnlinkCurrent,
             RenameCurrent, FatmanFatCurrent, FatmanSkinnyCurrent, ManifestLoadCurrent,
             NextBlobCurrent, UnpackDeleteCurrent, UnpackCurrent, AdoptCurrent
          DEF PullStep, Unavailable, FatmanFatal, ManifestFatal, Finish
        <4> QED
          BY <1>3, <4>1, OneCurrent
      <3> QED
        BY <3>1, <3>2, <3>3
    <2> QED
      BY <2>1, <2>2, <2>3
  <1>4. ASSUME NEW p \in Proc, StorageStep(p), pull' = [pull EXCEPT ![p] = NoPull],
               UNCHANGED <<remote, image, cached, updates>>
        PROVE  (SkinnyIsLink /\ CachedGood /\ Current)'
    <2>1. SkinnyIsLink'
      <3>1. \A n \in DOMAIN dl' : n \in DOMAIN dl /\ dl'[n] = dl[n]
        BY <1>0, <1>4, StorageDl DEF Without, PInv, TInv
      <3> QED
        BY <3>1 DEF RInv, SkinnyIsLink, Exists, Raw
    <2>2. CachedGood'
      BY <1>4 DEF RInv, CachedGood, Good
    <2>3. ASSUME NEW q \in Proc, pull'[q].at # "none"
          PROVE  (Offered(pull[q]) /\ BlobsThere(pull[q]))'
      <3>1. q \in Proc \ {p} /\ pull'[q] = pull[q]
        BY <1>0, <1>4, <2>3, NoPullType
      <3>2. dl' = dl /\ Offered(pull[q]) /\ BlobsThere(pull[q])
        BY <1>0, <1>4, <2>3, <3>1, StorageDlAlone, CurrentFacts
      <3>3. Offered(pull[q])'
        BY <1>4, <3>1, <3>2 DEF Offered, Fresh, ManFresh, Fat, Read, Raw
      <3>4. BlobsThere(pull[q])'
        BY <1>4, <3>1, <3>2 DEF BlobsThere, Loading, Good, Exists
      <3> QED
        BY <3>3, <3>4
    <2> QED
      BY <2>1, <2>2, <2>3 DEF Current
  <1> QED
    BY <1>1, <1>2, <1>3, <1>4 DEF Next

-----------------------------------------------------------------------------
(* The refinement *)

\* Manifests are told apart by what they name, so an image that is what its
\* manifest says is that image.
LEMMA ImageOfGood ==
  ASSUME NEW m \in Manifest
  PROVE  ImageOf(Good(m)) = m
  <1>1. BlobsOf[m] \in Seq(Blob) /\ BlobsOf[m] # << >>
    BY PullAssumption
  <1>2. Good(m) # << >>
    <2>1. 1 \in DOMAIN BlobsOf[m]
      BY <1>1, EmptySeq, LenProperties
    <2> QED
      BY <2>1 DEF Good
  <1>3. ASSUME NEW n \in Manifest, Good(m) = Good(n) PROVE n = m
    <2>1. DOMAIN BlobsOf[m] = DOMAIN BlobsOf[n]
      BY <1>3 DEF Good
    <2>2. \A i \in DOMAIN BlobsOf[m] : BlobsOf[m][i] = BlobsOf[n][i]
      <3> TAKE i \in DOMAIN BlobsOf[m]
      <3>1. Good(m)[i].of = BlobsOf[m][i] /\ Good(n)[i].of = BlobsOf[n][i]
        BY <2>1 DEF Good
      <3> QED
        BY <1>3, <3>1
    <2>3. BlobsOf[n] \in Seq(Blob)
      BY PullAssumption
    <2>4. BlobsOf[m] = BlobsOf[n]
      BY <1>1, <2>1, <2>2, <2>3, SeqEqual
    <2> QED
      BY <2>4, PullAssumption
  <1> DEFINE same == {n \in Manifest : Good(m) = Good(n)}
  <1>4. same = {m}
    BY <1>3
  <1>5. ImageOf(Good(m)) = CHOOSE n \in same : TRUE
    BY <1>2, <1>4 DEF ImageOf, Good
  <1> QED
    BY <1>4, <1>5

LEMMA MirrorOffers ==
  ASSUME RInv', image' = image
  PROVE  M!Offers
  <1>1. pull' \in [Proc -> Puller]
        /\ \A p \in Proc : pull'[p].at # "none" => pull'[p].dst \in Dst
    BY DEF RInv, DInv, PInv, PullType, Fits
  <1>2. \A p \in Proc : pull'[p].of \in SUBSET Manifest
    BY <1>1 DEF Puller
  <1> QED
    BY <1>1, <1>2 DEF M!Offers, M!Offer

\* What Mirror sees of pulls and images.
LEMMA OfferType ==
  ASSUME RInv
  PROVE  \A p \in Proc : pull[p].at # "none" =>
           /\ pull[p].dst \in Dst /\ pull[p].of \in SUBSET Manifest
           /\ [dst |-> pull[p].dst, of |-> pull[p].of] # None
  <1>1. \A p \in Proc : pull[p].at # "none" =>
          pull[p].dst \in Dst /\ pull[p].of \in SUBSET Manifest
    BY DEF RInv, DInv, PInv, PullType, Fits, Puller
  <1> QED
    BY <1>1, PullAssumption

LEMMA MirrorInstall ==
  ASSUME RInv, RInv', NEW p \in Proc, Loading(pull[p]), pull[p].at # "none",
         image' = [image EXCEPT ![pull[p].dst] = Good(pull[p].man)]
  PROVE  M!Install(p)
  <1> DEFINE q == pull[p]
  <1>1. q.man \in Manifest /\ q.man \in q.of /\ q.dst \in Dst
    BY CurrentFacts DEF Fits, BlobsThere
  <1>2. ImageOf(Good(q.man)) = q.man
    BY <1>1, ImageOfGood
  <1>3. [d \in Dst |-> ImageOf(image'[d])]
          = [[d \in Dst |-> ImageOf(image[d])] EXCEPT ![q.dst] = q.man]
    BY <1>1, <1>2 DEF RInv, DInv, PInv, PullType
  <1>4. [x \in Proc |-> IF pull'[x].at = "none" THEN None
                        ELSE [dst |-> pull'[x].dst, of |-> pull'[x].of]]
          \in [Proc -> M!Offer]
    <2>1. \A x \in Proc : pull'[x].at # "none" =>
            pull'[x].dst \in Dst /\ pull'[x].of \in SUBSET Manifest
      BY DEF RInv, DInv, PInv, PullType, Fits, Puller
    <2> QED
      BY <2>1 DEF M!Offer
  <1>5. [dst |-> q.dst, of |-> q.of] # None
    BY OfferType
  <1> QED
    BY <1>1, <1>3, <1>4, <1>5 DEF M!Install, ImageOf

LEMMA MirrorRemove ==
  ASSUME RInv, NEW p \in Proc, pull[p].at # "none", pull'[p].at # "none",
         pull'[p].dst = pull[p].dst, pull'[p].of = pull[p].of,
         \A q \in Proc \ {p} : pull'[q] = pull[q],
         image' = [image EXCEPT ![pull[p].dst] = << >>]
  PROVE  M!Remove(p)
  <1> DEFINE q == pull[p]
  <1>1. q.dst \in Dst /\ [dst |-> q.dst, of |-> q.of] # None
    BY OfferType
  <1>2. ImageOf(<< >>) = None
    BY DEF ImageOf
  <1>3. [d \in Dst |-> ImageOf(image'[d])]
          = [[d \in Dst |-> ImageOf(image[d])] EXCEPT ![q.dst] = None]
    BY <1>1, <1>2 DEF RInv, DInv, PInv, PullType
  <1>4. [x \in Proc |-> IF pull'[x].at = "none" THEN None
                        ELSE [dst |-> pull'[x].dst, of |-> pull'[x].of]]
        = [x \in Proc |-> IF pull[x].at = "none" THEN None
                          ELSE [dst |-> pull[x].dst, of |-> pull[x].of]]
    OBVIOUS
  <1> QED
    BY <1>1, <1>3, <1>4 DEF M!Remove, ImageOf

LEMMA MirrorStep ==
  ASSUME LastLayer = {}, RInv, RInv', Next
  PROVE  M!Next
  <1>0. pull \in [Proc -> Puller] /\ PInv
    BY DEF RInv, DInv, PInv, PullType
  <1>1. CASE image' = image
    BY <1>1, MirrorOffers DEF M!Next
  <1>2. ASSUME NEW p \in Proc, PullStep(p), image' # image PROVE M!Next
    <2> DEFINE q == pull[p]
    <2>0. \A x \in Proc \ {p} : pull'[x] = pull[x]
      BY <1>0, <1>2, PullStepPull
    <2>1. CASE CheckoutCached(p)
      <3>1. Loading(q) /\ q.at # "none" /\ cached[q.man] = Good(q.man)
        BY <2>1 DEF CheckoutCached, Loading, RInv, CachedGood
      <3> QED
        BY <2>1, <3>1, MirrorInstall DEF CheckoutCached, M!Next
    <2>2. CASE UnpackDelete(p)
      <3>1. pull'[p].at = "unpack" /\ pull'[p].dst = q.dst /\ pull'[p].of = q.of
        BY <1>0, <2>2, FetchKeeps DEF UnpackDelete, At
      <3> QED
        BY <2>0, <2>2, <3>1, MirrorRemove DEF UnpackDelete, M!Next
    <2>3. CASE Unpack(p)
      <3>1. /\ Loading(q) /\ q.at # "none"
            /\ image' = [image EXCEPT ![q.dst] = Good(q.man)]
        BY <2>3, UnpackCurrent DEF Unpack, Loading
      <3> QED
        BY <3>1, MirrorInstall DEF M!Next
    <2>4. CASE Adopt(p)
      <3>1. pull'[p].at = "commit" /\ pull'[p].dst = q.dst /\ pull'[p].of = q.of
        BY <1>0, <2>4 DEF Adopt, Set, Puller
      <3> QED
        BY <2>0, <2>4, <3>1, MirrorRemove DEF Adopt, M!Next
    <2>5. CASE Commit(p)
      <3>1. Loading(q) /\ q.at # "none" /\ q.todo = Good(q.man)
        BY <2>5, CommitCached DEF Commit, Loading
      <3> QED
        BY <2>5, <3>1, MirrorInstall DEF Commit, M!Next
    <2> QED
      BY <1>0, <1>2, <2>1, <2>2, <2>3, <2>4, <2>5, FatalFacts
      DEF PullStep, Begin, Open, Stream, Unlink, Rename, Unavailable, FatmanFat, FatmanSkinny,
          FatmanFatal, ManifestLoad, ManifestFatal, NextBlob, Finish, Quiet, PInv, TInv
  <1> QED
    BY <1>1, <1>2 DEF Next, Update

\* If nobody runs reset beside another command, --arch=yolo and other
\* architectures are not used for one destination, --last-layer is not used,
\* and a command pulls one image: pull implements Mirror.  An image in storage is one the registry
\* offered for that reference and architecture while the pull that put it
\* there was running, whatever is in the caches, whoever changes the registry
\* and wherever commands are killed.
THEOREM PullIsMirror ==
  ASSUME ResetAlone = TRUE, ArchApart, PullsPerCommand = 1, LastLayer = {}
  PROVE  Spec => PullsUpToDate
  <1>1. Init => M!Init
    BY NoPullType DEF Init, M!Init, ImageOf
  <1>2. RInv /\ RInv' /\ [Next]_vars => [M!Next]_M!vars
    <2>1. CASE UNCHANGED vars
      BY <2>1 DEF vars, pullVars, M!vars, ImageOf
    <2> QED
      BY <2>1, MirrorStep
  <1> QED
    BY <1>1, <1>2, InitRInv, StepRInv, PTL DEF Spec, PullsUpToDate, M!Spec
=============================================================================
