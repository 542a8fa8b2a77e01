--------------------------------- MODULE Pull ---------------------------------
(***************************************************************************)
(* "ch-image pull" and the FROM of builds (lib/pull.py, the downloads of   *)
(* lib/registry.py, Progress_Writer of lib/charliecloud.py), as the work   *)
(* that commands do inside the storage directory: the manifest list, the   *)
(* manifest, the blobs, each by way of a part_ file, then the image.  The  *)
(* registry may change what it serves at any time.                         *)
(***************************************************************************)
EXTENDS Storage

CONSTANTS Src, Dst,      \* references in the registry, and in storage
          Manifest,      \* the images there are
          BlobsOf,       \* config and layers of each, in that order
          Listing,       \* what the registry can serve for a reference
          ArchFor,       \* the --arch values users give for each destination
          LastLayer,     \* the --last-layer values users give
          PullsPerCommand, MaxUpdates,
          None

VARIABLES remote,    \* what the registry serves now
          image,     \* the blobs each image in storage was unpacked from
          cached,    \* images in the build cache, by manifest
          pull,      \* the Image_Puller of each process
          updates

pullVars == <<remote, image, cached, pull, updates>>
vars == <<storageVars, pullVars>>

File(k, part) == [part |-> part, name |-> k]
Final(k) == File(k, FALSE)
Part(k) == File(k, TRUE)
Only(f, c) == [n \in {f} |-> c]
Bad == [k |-> "bad"]         \* truncated or otherwise damaged
Blob == UNION {{BlobsOf[m][i] : i \in DOMAIN BlobsOf[m]} : m \in Manifest}

\* A manifest names a config at least, and manifests are told apart by what
\* they name.
ASSUME PullAssumption ==
    /\ \A m \in Manifest : BlobsOf[m] \in Seq(Blob) /\ BlobsOf[m] # << >>
    /\ \A m, n \in Manifest : BlobsOf[m] = BlobsOf[n] => m = n
    /\ \A l \in Listing : \/ l.k = "skinny" /\ l.of \in Manifest
                          \/ l.k = "fat" /\ \A a \in DOMAIN l.of : l.of[a] \in Manifest
    /\ None \notin Manifest /\ "skinny" \notin Manifest
    /\ \A d \in Dst, S \in SUBSET Manifest : None # [dst |-> d, of |-> S]
    /\ LastLayer \subseteq Nat
    /\ PullsPerCommand \in Nat /\ MaxUpdates \in Nat

NoPull == [at |-> "none", src |-> None, dst |-> None, asked |-> None,
           arch |-> None, file |-> None, ret |-> None,
           man |-> None, todo |-> << >>, n |-> 0, of |-> {}]

\* A file of dlcache, through a symbolic link of the kind fatman_load makes.
Raw(k) == IF Final(k) \in DOMAIN dl THEN dl[Final(k)] ELSE Bad
Read(k) == IF Raw(k).k = "link" THEN Raw(<<"fat", k[2]>>) ELSE Raw(k)
Exists(k) == Final(k) \in DOMAIN dl
Write(f, c) == [n \in DOMAIN dl \cup {f} |-> IF n = f THEN c ELSE dl[n]]

Fallback == [a \in {"arm/v7", "arm64/v8"} |-> IF a = "arm/v7" THEN <<"arm">> ELSE <<"arm64">>]

\* Arch_Dict: a itself, or the first of its fallbacks there is.
ArchKey(of, a) ==
    IF a \in DOMAIN of THEN a
    ELSE LET alts == IF a \in DOMAIN Fallback THEN Fallback[a] ELSE << >>
             have == {i \in DOMAIN alts : alts[i] \in DOMAIN of}
         IN IF have = {} THEN None
            ELSE alts[CHOOSE i \in have : \A j \in have : i <= j]

\* The images a user of --arch=a may get when the registry serves l.
Offers(l, a) ==
    IF l.k = "skinny" THEN (IF a \in {"amd64", "yolo"} THEN {l.of} ELSE {})
    ELSE IF a = "yolo" THEN {l.of[x] : x \in DOMAIN l.of}
    ELSE {l.of[x] : x \in {ArchKey(l.of, a)} \ {None}}

Init == /\ \/ Absent
           \/ Found(7, << >>, {"imgtmp"})
           \/ Found(6, Only(Final(<<"man", "x", "skinny">>), [k |-> "badlink"]), {})
        /\ ProcInit
        /\ remote \in [Src -> Listing]
        /\ image = [d \in Dst |-> << >>]
        /\ cached = << >>
        /\ pull = [p \in Proc |-> NoPull]
        /\ updates = 0

\* A step of p's puller, and the end of the command (ch.FATAL) in it.
Set(p, r) == /\ pc[p] = "work"
             /\ pull' = [pull EXCEPT ![p] = r]
             /\ UNCHANGED <<root, version, ino, inodes, procVars, commands, kills>>
Fatal(p) == /\ Ends(p)
            /\ pull' = [pull EXCEPT ![p] = NoPull]
            /\ UNCHANGED <<remote, image, cached, updates>>
Quiet == UNCHANGED <<remote, image, cached, updates>>

\* pull.main, or a FROM whose base is not in the cache: a command asks for one
\* architecture, but ch.arch is a global that an earlier pull may have changed.
Begin(p) ==
    /\ pull[p].at = "none" /\ pull[p].n < PullsPerCommand
    /\ \E s \in Src, d \in Dst :
       \E a \in IF pull[p].n = 0 THEN ArchFor[d] ELSE {pull[p].asked} :
         LET arch == IF pull[p].n = 0 THEN a ELSE pull[p].arch
             fat == arch # "yolo"
         IN Set(p, [NoPull EXCEPT
                      !.at = "open", !.src = s, !.dst = d, !.asked = a,
                      !.arch = arch, !.n = pull[p].n + 1,
                      !.file = IF fat THEN <<"fat", d>> ELSE <<"man", d, "skinny">>,
                      !.ret = IF fat THEN "fatman" ELSE "manifest",
                      !.of = Offers(remote[s], a)])
    /\ UNCHANGED <<dl, dir>> /\ Quiet

\* request with an output file: what may come back for the file asked for.
Responses(q) ==
    {Bad} \cup
    IF q.file[1] = "blob" THEN {[k |-> "blob", of |-> q.file[2]]}
    ELSE IF q.file[1] = "fat" THEN {remote[q.src]}
    ELSE IF q.file[3] # "skinny" THEN {[k |-> "skinny", of |-> q.file[3]]}
    ELSE {[k |-> "skinny", of |-> x] : x \in Offers(remote[q.src], "yolo")}

\* 401, 404, 429, or the connection cannot be made or breaks; or the part_
\* file has gone (a reset beside us) when it is to be renamed.
Unavailable(p) ==
    /\ pc[p] = "work" /\ pull[p].at \in {"open", "stream", "rename"}
    /\ pull[p].at = "rename" => Part(pull[p].file) \notin DOMAIN dl
    /\ Fatal(p)

\* Progress_Writer.start
Open(p) ==
    /\ pull[p].at = "open" /\ "dlcache" \in dir
    /\ dl' = Write(Part(pull[p].file), [k |-> "partial"])
    /\ Set(p, [pull[p] EXCEPT !.at = "stream"])
    /\ UNCHANGED dir /\ Quiet

\* Mutant: the digest is not checked.
AcceptAny(q, c) == TRUE

\* request: stream the content and check the digest if there is one.
Accept(q, c) == q.file[1] = "blob" => c = [k |-> "blob", of |-> q.file[2]]

Stream(p) ==
    /\ pull[p].at = "stream"
    /\ \E c \in Responses(pull[p]) :
         /\ Accept(pull[p], c)
         /\ dl' = Write(Part(pull[p].file), c)
    /\ Set(p, [pull[p] EXCEPT !.at = "unlink"])
    /\ UNCHANGED dir /\ Quiet

\* Progress_Writer.close: unlink what is there, then rename.
Unlink(p) ==
    /\ pull[p].at = "unlink"
    /\ dl' = Without(dl, {Final(pull[p].file)})
    /\ Set(p, [pull[p] EXCEPT !.at = "rename"])
    /\ UNCHANGED dir /\ Quiet

Rename(p) ==
    /\ pull[p].at = "rename" /\ Part(pull[p].file) \in DOMAIN dl
    /\ dl' = Without(Write(Final(pull[p].file), dl[Part(pull[p].file)]),
                     {Part(pull[p].file)})
    /\ Set(p, [pull[p] EXCEPT !.at = pull[p].ret])
    /\ UNCHANGED dir /\ Quiet

Fat(q) == Raw(<<"fat", q.dst>>)

\* fatman_load: a manifest list that has the architecture.
FatmanFat(p) ==
    LET q == pull[p] IN
    /\ q.at = "fatman" /\ Fat(q).k = "fat" /\ ArchKey(Fat(q).of, q.arch) # None
    /\ Set(p, [q EXCEPT !.at = "open", !.ret = "manifest",
         !.file = <<"man", q.dst, Fat(q).of[ArchKey(Fat(q).of, q.arch)]>>])
    /\ UNCHANGED <<dl, dir>> /\ Quiet

\* Mutant: a copy that stays, where the code has a link.
SkinnyCopy(d) == IF Exists(<<"man", d, "skinny">>) THEN dl
                 ELSE Write(Final(<<"man", d, "skinny">>), Raw(<<"fat", d>>))

\* fatman_load: really a skinny manifest, which gets its usual name by a link
\* if there is nothing of that name; download() goes on if we want amd64.
SkinnyLink(d) == IF Exists(<<"man", d, "skinny">>) THEN dl
                 ELSE Write(Final(<<"man", d, "skinny">>), [k |-> "link"])

FatmanSkinny(p) ==
    /\ pull[p].at = "fatman" /\ Fat(pull[p]).k = "skinny"
    /\ dl' = SkinnyLink(pull[p].dst)
    /\ Set(p, [pull[p] EXCEPT
         !.at = IF pull[p].arch = "amd64" THEN "manifest" ELSE "unaware",
         !.arch = "yolo", !.file = <<"man", pull[p].dst, "skinny">>])
    /\ UNCHANGED dir /\ Quiet

\* Nothing usable, or not for this architecture.
FatmanFatal(p) ==
    /\ pc[p] = "work" /\ pull[p].at \in {"fatman", "unaware"}
    /\ pull[p].at = "fatman" =>
         /\ Fat(pull[p]).k # "skinny"
         /\ Fat(pull[p]).k = "fat" => ArchKey(Fat(pull[p]).of, pull[p].arch) = None
    /\ Fatal(p)

\* manifest_load: config and layers, from the file that is there.
ManifestLoad(p) ==
    /\ pull[p].at = "manifest" /\ Read(pull[p].file).k = "skinny"
    /\ LET x == Read(pull[p].file).of IN
       Set(p, [pull[p] EXCEPT !.at = "blobs", !.man = x, !.todo = BlobsOf[x]])
    /\ UNCHANGED <<dl, dir>> /\ Quiet

ManifestFatal(p) == /\ pc[p] = "work" /\ pull[p].at = "manifest"
                    /\ Read(pull[p].file).k # "skinny" /\ Fatal(p)

\* download: one blob after the other; one that is there is used as it is,
\* unless --always-download (a choice made here for each blob).
NextBlob(p) ==
    /\ pull[p].at = "blobs" /\ pull[p].todo # << >>
    /\ LET k == <<"blob", Head(pull[p].todo)>>
            q == [pull[p] EXCEPT !.todo = Tail(@)]
       IN \/ Exists(k) /\ Set(p, q)
          \/ Set(p, [q EXCEPT !.at = "open", !.file = k, !.ret = "blobs"])
    /\ UNCHANGED <<dl, dir>> /\ Quiet

\* pull_eager: in the build cache already, so check it out.
CheckoutCached(p) ==
    /\ pull[p].at = "blobs" /\ pull[p].todo = << >>
    /\ pull[p].man \in DOMAIN cached
    /\ image' = [image EXCEPT ![pull[p].dst] = cached[pull[p].man]]
    /\ Set(p, [pull[p] EXCEPT !.at = "none", !.of = {}])
    /\ UNCHANGED <<dl, dir, remote, cached, updates>>

\* pull_lazy: remove the old image ...
UnpackDelete(p) ==
    /\ pull[p].at = "blobs" /\ pull[p].todo = << >>
    /\ pull[p].man \notin DOMAIN cached
    /\ image' = [image EXCEPT ![pull[p].dst] = << >>]
    /\ Set(p, [pull[p] EXCEPT !.at = "unpack"])
    /\ UNCHANGED <<dl, dir, remote, cached, updates>>

\* ... unpack the new one from the blobs in dlcache ...
Contents(m) == [i \in DOMAIN BlobsOf[m] |-> Raw(<<"blob", BlobsOf[m][i]>>)]

\* All layers, or as many as --last-layer says.
Unpacked(m) ==
    {Contents(m)} \cup {SubSeq(Contents(m), 1, n + 1) :
                          n \in {l \in LastLayer : l < Len(BlobsOf[m])}}

Unpack(p) ==
    /\ pull[p].at = "unpack"
    /\ \E c \in Unpacked(pull[p].man) : image' = [image EXCEPT ![pull[p].dst] = c]
    /\ Set(p, [pull[p] EXCEPT !.at = "adopt"])
    /\ UNCHANGED <<dl, dir, remote, cached, updates>>

\* ... and make it a worktree: it is away in imgtmp for a while.
Adopt(p) ==
    /\ pull[p].at = "adopt" /\ dir' = dir \cup {"imgtmp"}
    /\ image' = [image EXCEPT ![pull[p].dst] = << >>]
    /\ Set(p, [pull[p] EXCEPT !.at = "commit", !.todo = image[pull[p].dst]])
    /\ UNCHANGED <<dl, remote, cached, updates>>

Commit(p) ==
    /\ pull[p].at = "commit" /\ dir' = dir \ {"imgtmp"}
    /\ image' = [image EXCEPT ![pull[p].dst] = pull[p].todo]
    /\ cached' = [x \in DOMAIN cached \cup {pull[p].man} |->
                    IF x = pull[p].man THEN pull[p].todo ELSE cached[x]]
    /\ Set(p, [pull[p] EXCEPT !.at = "none", !.todo = << >>, !.of = {}])
    /\ UNCHANGED <<dl, remote, updates>>

Finish(p) == /\ pc[p] = "work" /\ pull[p].at = "none" /\ Fatal(p)

\* Somebody pushes: pulls under way may get the old or the new image.
Update(s) ==
    /\ updates < MaxUpdates /\ updates' = updates + 1
    /\ \E p \in Proc : pc[p] = "work"
    /\ \E l \in Listing \ {remote[s]} : remote' = [remote EXCEPT ![s] = l]
    /\ pull' = [p \in Proc |->
         IF pull[p].at = "none" \/ pull[p].src # s THEN pull[p]
         ELSE [pull[p] EXCEPT !.of = @ \cup Offers(remote'[s], pull[p].asked)]]
    /\ UNCHANGED <<storageVars, image, cached>>

PullStep(p) ==
    \/ Begin(p) \/ Unavailable(p) \/ Open(p) \/ Stream(p) \/ Unlink(p)
    \/ Rename(p) \/ FatmanFat(p) \/ FatmanSkinny(p)
    \/ FatmanFatal(p) \/ ManifestLoad(p) \/ ManifestFatal(p) \/ NextBlob(p)
    \/ CheckoutCached(p) \/ UnpackDelete(p) \/ Unpack(p) \/ Adopt(p)
    \/ Commit(p) \/ Finish(p)

Next == \/ \E p \in Proc : \/ /\ StorageStep(p)
                            /\ pull' = [pull EXCEPT ![p] = NoPull]
                            /\ UNCHANGED <<remote, image, cached, updates>>
                         \/ PullStep(p)
        \/ \E s \in Src : Update(s)

Spec == Init /\ [][Next]_vars

-----------------------------------------------------------------------------
\* The storage directory and the processes that use it are as described in
\* module Storage; in particular no process goes on with a version of storage
\* that it cannot upgrade (lib/filesystem.py Storage.init).
TypeOK ==
    /\ root \in BOOLEAN /\ dir \subseteq Entry
    /\ version \in {NoVersion, 6, STORAGE_VERSION, Torn}
    /\ inodes \in Nat /\ ino \in 0 .. inodes
    /\ pc \in [Proc -> Inside \cup {"idle", "init", "version", "mkroot", "open",
                                    "lockf", "reset", "rm"}]
    /\ cmd \in [Proc -> {"use", "reset"}]
    /\ found \in [Proc -> {NoVersion, 6, STORAGE_VERSION}]
    /\ fp \in [Proc -> 0 .. inodes] /\ holds \subseteq Proc
    /\ mk \in [Proc -> 0 .. 4] /\ rm \in [Proc -> SUBSET Entry]
    /\ commands \in 0 .. MaxCommands /\ kills \in 0 .. MaxKills

(***************************************************************************)
(* Storage.lock: no two ch-image processes are in the storage directory,   *)
(* whether they found, created, upgraded or reset it, although they look   *)
(* at it before they lock it ("concurrent instances of ch-image cannot     *)
(* share the same storage directory").                                     *)
(***************************************************************************)
Exclusive == \A p, q \in Proc : pc[p] \in Inside /\ pc[q] \in Inside => p = q

(***************************************************************************)
(* cleanup and validate_strict: no command works among what a killed or    *)
(* failed one left half done (part_ files, the image in imgtmp); all it    *)
(* finds of that kind is its own.                                          *)
(***************************************************************************)
OnlyOwnDebris ==
    \A p \in Proc : pc[p] = "work" =>
        /\ "imgtmp" \in dir => pull[p].at = "commit"
        /\ \A n \in DOMAIN dl : n.part =>
             n.name = pull[p].file /\ pull[p].at \in {"stream", "unlink", "rename"}

(***************************************************************************)
(* cleanup ("Delete partial downloads."): a command does not end there.    *)
(***************************************************************************)
CleanupGoesOn ==
    [][\A p \in Proc : pc[p] = "cleanup" /\ kills' = kills =>
                         pc'[p] \in {"cleanup", "work"}]_vars

(***************************************************************************)
(* The upgrade from v6: a directory that says it is v7 has none of the     *)
(* links of v6, although the upgrade can be killed at any step and another *)
(* process may have read the old version before the upgrade.               *)
(***************************************************************************)
UpgradeComplete ==
    version = STORAGE_VERSION /\ "version" \in dir =>
        \A n \in DOMAIN dl : dl[n].k # "badlink"

(***************************************************************************)
(* download: a config or layer file is used if it exists, so under its own *)
(* name there may only be what the digest in that name says, whatever the  *)
(* registry or the network did to it and wherever a download was killed.   *)
(***************************************************************************)
BlobsVerified ==
    \A n \in DOMAIN dl : ~n.part /\ n.name[1] = "blob" =>
        dl[n] = [k |-> "blob", of |-> n.name[2]]

ImageOf(c) ==
    LET same == {m \in Manifest : c = [i \in DOMAIN BlobsOf[m] |->
                                         [k |-> "blob", of |-> BlobsOf[m][i]]]}
    IN IF c = << >> THEN None
       ELSE IF same = {} THEN "corrupt" ELSE CHOOSE m \in same : TRUE

(***************************************************************************)
(* pull_eager ("Downloaded image is in cache, check it out"): what the     *)
(* state ID of a manifest finds in the build cache is the whole image.     *)
(***************************************************************************)
CachedIsDownloaded ==
    [][\A p \in Proc : CheckoutCached(p) =>
                         ImageOf(image'[pull[p].dst]) = pull[p].man]_vars

(***************************************************************************)
(* pull_eager ("always checking if the repository version is newer"): pull *)
(* implements Mirror.                                                      *)
(***************************************************************************)
M == INSTANCE Mirror WITH
       img <- [d \in Dst |-> ImageOf(image[d])],
       offer <- [p \in Proc |-> IF pull[p].at = "none" THEN None
                                ELSE [dst |-> pull[p].dst, of |-> pull[p].of]]

PullsUpToDate == M!Spec
=============================================================================
