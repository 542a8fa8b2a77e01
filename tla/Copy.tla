-------------------------------- MODULE Copy --------------------------------
(***************************************************************************)
(* The COPY instruction (class Copy_G of lib/build.py) and Path.copy       *)
(* (lib/filesystem.py): locate the destination inside the image, make it   *)
(* if necessary, then merge every source into it.  ch-image runs on the    *)
(* host, so a symbolic link of the image that Python follows leads to the  *)
(* host's files if it is absolute.                                         *)
(*                                                                         *)
(* A tree is a function from paths (sequences of names) to entries; the    *)
(* value v of an entry is the target of a symbolic link (an absolute one   *)
(* starts with "/"), the contents of a file or the metadata of a           *)
(* directory.  Paths have no "..".  Chains of links are followed where the *)
(* code does so itself (dest_realpath); elsewhere the operating system     *)
(* does, and no link leads to or through another: DirectAssumption for the *)
(* sources, NothingDangles for what is below the destination.              *)
(***************************************************************************)
EXTENDS Integers, Sequences, SequencesExt

CONSTANTS Names,       \* names of files
          Contexts,    \* the trees that sources are copied from
          Images,      \* the images copied to
          Instrs,      \* COPY instructions: sources, destination, from where
          Workdir,     \* the WORKDIR in effect
          HostFiles    \* absolute paths that exist on the host, none a directory

VARIABLES ctx, img, ins,   \* the inputs: none of them changes
          samefs,    \* are sources and image on the same file system?
          tree,      \* the image
          pc,
          parts,     \* dst_parts of dest_realpath, ...
          canon,     \* ... its dst_canon ...
          iter_ct,   \* ... and the iterations it made
          n,         \* the source at hand
          todo       \* what is left of it, if it is a directory

inputs == <<ctx, img, ins, samefs>>
vars == <<inputs, tree, pc, parts, canon, iter_ct, n, todo>>

Over(f, g) == [p \in DOMAIN f \cup DOMAIN g |-> IF p \in DOMAIN f THEN f[p] ELSE g[p]]
With(t, p, e) == [q \in DOMAIN t \cup {p} |-> IF q = p THEN e ELSE t[q]]

Is(t, p, kind) == p \in DOMAIN t /\ t[p].k = kind
Absolute(p) == p # << >> /\ Head(p) = "/"

\* Every file is in a directory, and a link leads down from its own directory
\* or from the root.
IsTree(t) ==
  /\ DOMAIN t \subseteq Seq(Names)
  /\ Is(t, << >>, "dir") /\ \A p \in DOMAIN t : p # << >> => Is(t, Front(p), "dir")
  /\ \A p \in DOMAIN t : t[p].k = "sym" =>
       \/ t[p].v \in Seq(Names)
       \/ t[p].v \in Seq(Names \cup {"/"}) /\ Absolute(t[p].v)

ASSUME TreesAssumption ==
  /\ "/" \notin Names
  /\ \A t \in Contexts \cup Images : IsTree(t)
ASSUME InstrsAssumption ==
  /\ Workdir \in Seq(Names \cup {"/"})
  /\ \A i \in Instrs : /\ i.srcs \in Seq(Seq(Names)) /\ i.srcs # << >>
                       /\ i.dst \in Seq(Names \cup {"/"})

\* Where a path leads if it is followed (is_file, is_dir, resolve): one link.
Real(t, p) == IF ~Is(t, p, "sym") THEN p
              ELSE IF Absolute(t[p].v) THEN t[p].v ELSE Front(p) \o t[p].v

\* No link of a context leads to or through another, and no source is named
\* through one.
ASSUME DirectAssumption ==
  \A c \in Contexts :
    /\ \A p \in DOMAIN c : \A j \in 0 .. Len(Real(c, p)) : ~Is(c, SubSeq(Real(c, p), 1, j), "sym")
    /\ \A i \in Instrs : \A s \in Range(i.srcs) :
         \A j \in 0 .. Len(s) - 1 : ~Is(c, SubSeq(s, 1, j), "sym")

\* os.path.exists, which follows links
Exists(t, p) == /\ p \in DOMAIN t
                /\ IF Absolute(Real(t, p)) THEN Real(t, p) \in HostFiles
                                           ELSE Real(t, p) \in DOMAIN t

Children(t, p) == {q \in DOMAIN t : Len(q) = Len(p) + 1 /\ IsPrefix(p, q)}
Below(t, p) == {q \in DOMAIN t : IsPrefix(p, q)}
Without(t, p) == [q \in DOMAIN t \ Below(t, p) |-> t[q]]

Init ==
  /\ ctx \in Contexts /\ img \in Images /\ ins \in Instrs /\ samefs \in BOOLEAN
  /\ tree = img
  /\ pc = "prepare" /\ parts = << >> /\ canon = << >> /\ iter_ct = 0
  /\ n = 1 /\ todo = {}

\* expand_sources, srcs_base_set: there is a context or an earlier stage to
\* copy from, every source is there, and none leads out of it.
SourcesOK ==
  /\ ins.base
  /\ \A s \in Range(ins.srcs) : s \in DOMAIN ctx /\ ~Absolute(Real(ctx, s))

Prepare ==
  /\ pc = "prepare" /\ SourcesOK
  /\ pc' = "realpath"
  /\ parts' = IF Absolute(ins.dst) THEN ins.dst ELSE Workdir \o ins.dst
  /\ UNCHANGED <<inputs, tree, canon, iter_ct, n, todo>>

Fatal == pc' = "fatal" /\ UNCHANGED <<inputs, tree, parts, canon, iter_ct, n, todo>>

PrepareFatal == pc = "prepare" /\ ~SourcesOK /\ Fatal

\* dest_realpath: one component; the root of links is that of the image.
dest_realpath ==
  /\ pc = "realpath" /\ parts # << >> /\ iter_ct < 100
  /\ iter_ct' = iter_ct + 1
  /\ LET cand == Append(canon, Head(parts)) IN
     IF Head(parts) = "/" THEN parts' = Tail(parts) /\ UNCHANGED canon
     ELSE IF ~Is(tree, cand, "sym") THEN parts' = Tail(parts) /\ canon' = cand
     ELSE /\ parts' = tree[cand].v \o Tail(parts)
          /\ canon' = IF Absolute(tree[cand].v) THEN << >> ELSE canon
  /\ UNCHANGED <<inputs, tree, pc, n, todo>>

RealpathFatal == pc = "realpath" /\ parts # << >> /\ iter_ct >= 100 /\ Fatal

\* execute: must the destination be a directory, and can it?
IntoDir == ins.slash \/ Len(ins.srcs) > 1 \/ Is(ctx, Real(ctx, ins.srcs[1]), "dir")

DestOK(t, c) ==
  /\ \A j \in 0 .. Len(c) - 1 : SubSeq(c, 1, j) \in DOMAIN t => Is(t, SubSeq(c, 1, j), "dir")
  /\ IntoDir /\ c \in DOMAIN t => Is(t, c, "dir")

\* mkdirs of the destination or of its parent
NewDir == [k |-> "dir", v |-> << >>]
Made(t, c, len) == Over(t, [p \in {SubSeq(c, 1, j) : j \in 0 .. len} |-> NewDir])
Depth == IF IntoDir THEN Len(canon) ELSE Len(canon) - 1

MakeDest ==
  /\ pc = "realpath" /\ parts = << >> /\ DestOK(tree, canon)
  /\ tree' = Made(tree, canon, Depth) /\ pc' = "source"
  /\ UNCHANGED <<inputs, parts, canon, iter_ct, n, todo>>

DestFatal == pc = "realpath" /\ parts = << >> /\ ~DestOK(tree, canon) /\ Fatal

\* Path.copy of entry e to p in t, as the set of outcomes: trees, none if it
\* fails.  The fast path deletes what is there; the slow one follows a link
\* at p to write a file, whose fate on the host is open.
Fast(e) == e.k = "file" /\ samefs

CopyEntry(t, e, p) ==
  LET q == Real(t, p)
      put(x) == {With(t, x, e)}
  IN IF Fast(e) THEN (IF Is(t, p, "dir") THEN {} ELSE put(p))
     ELSE IF e.k = "sym" THEN (IF p \in DOMAIN t THEN {} ELSE put(p))
     ELSE IF Absolute(q) THEN {t}
     ELSE IF Is(t, q, "dir") \/ ~Is(t, Front(q), "dir") THEN {} ELSE put(q)

\* copy_src_file: into the destination if that is a directory, else over it.
Into(t, dst, s) == IF Is(t, dst, "dir") THEN Append(dst, Last(s)) ELSE dst

CopySrcFile ==
  LET src == Real(ctx, ins.srcs[n])
      dst == Into(tree, canon, ins.srcs[n])
  IN /\ pc = "source" /\ n <= Len(ins.srcs) /\ Is(ctx, src, "file")
     /\ \/ /\ tree' \in CopyEntry(tree, ctx[src], dst)
           /\ n' = n + 1
           /\ UNCHANGED <<inputs, pc, parts, canon, iter_ct, todo>>
        \/ CopyEntry(tree, ctx[src], dst) = {} /\ Fatal

\* copy_src_dir: walk the source, directories before what is in them.
CopySrcDir ==
  LET src == Real(ctx, ins.srcs[n]) IN
  /\ pc = "source" /\ n <= Len(ins.srcs) /\ Is(ctx, src, "dir")
  /\ todo' = Children(ctx, src) /\ pc' = "walk"
  /\ UNCHANGED <<inputs, tree, parts, canon, iter_ct, n>>

\* A subdirectory: what exists and is not a directory is replaced.  A link
\* that leads nowhere does not exist, but is in the way.
WalkDir(t, e, p) ==
  LET u == IF Exists(t, p) /\ ~Is(t, p, "dir") THEN Without(t, p) ELSE t
  IN IF p \in DOMAIN u /\ ~Is(u, p, "dir") THEN {} ELSE {With(u, p, e)}

\* Mutant: what exists is copied over.
WalkFileOver(t, e, p) == IF e.k = "fifo" THEN {} ELSE CopyEntry(t, e, p)

\* A file or link: what exists is removed before it is copied.
WalkFile(t, e, p) ==
  IF e.k = "fifo" THEN {}
  ELSE CopyEntry(IF Exists(t, p) THEN Without(t, p) ELSE t, e, p)

\* A path below directory a, as one below directory b.
Moved(x, a, b) == b \o SubSeq(x, Len(a) + 1, Len(x))

Place(x) == Moved(x, Real(ctx, ins.srcs[n]), canon)

Walk(x) ==
  LET outcomes == IF Is(ctx, x, "dir") THEN WalkDir(tree, ctx[x], Place(x))
                  ELSE WalkFile(tree, ctx[x], Place(x))
  IN /\ pc = "walk" /\ x \in todo
     /\ ~Is(ctx, x, "dir") => \A y \in todo : Is(ctx, y, "dir") => Front(y) # Front(x)
     /\ \/ /\ tree' \in outcomes
           /\ todo' = (todo \ {x}) \cup Children(ctx, x)
           /\ UNCHANGED <<inputs, pc, parts, canon, iter_ct, n>>
        \/ outcomes = {} /\ Fatal

WalkEnd ==
  /\ pc = "walk" /\ todo = {} /\ pc' = "source" /\ n' = n + 1
  /\ UNCHANGED <<inputs, tree, parts, canon, iter_ct, todo>>

\* A source that is neither: a FIFO, or a link that leads nowhere.
SourceFatal ==
  /\ pc = "source" /\ n <= Len(ins.srcs)
  /\ LET src == Real(ctx, ins.srcs[n]) IN ~Is(ctx, src, "file") /\ ~Is(ctx, src, "dir")
  /\ Fatal

Done == /\ pc = "source" /\ n > Len(ins.srcs) /\ pc' = "done"
        /\ UNCHANGED <<inputs, tree, parts, canon, iter_ct, n, todo>>

Ended == pc \in {"done", "fatal"} /\ UNCHANGED vars

Next == \/ Prepare \/ PrepareFatal \/ dest_realpath \/ RealpathFatal
        \/ MakeDest \/ DestFatal \/ CopySrcFile \/ CopySrcDir
        \/ (\E x \in todo : Walk(x)) \/ WalkEnd \/ SourceFatal \/ Done \/ Ended

Spec == Init /\ [][Next]_vars
-----------------------------------------------------------------------------
(* The reference: what the documentation says COPY does (doc/ch-image.rst). *)

\* Entry e put at p: what is there goes, unless both are directories.
Put(t, e, p) == With(IF e.k = "dir" /\ Is(t, p, "dir") THEN t ELSE Without(t, p), p, e)

\* Entries xs of directory src of c merged into directory dst of t, at once.
Merge(c, t, src, dst, xs) ==
  LET to(x) == Moved(x, src, dst)
      clash(x) == to(x) \in DOMAIN t /\ {c[x].k, t[to(x)].k} # {"dir"}
      kept == {p \in DOMAIN t : ~\E x \in xs : clash(x) /\ IsPrefix(to(x), p)}
  IN Over([p \in {to(x) : x \in xs} |-> c[Moved(p, dst, src)]], [p \in kept |-> t[p]])

\* Source s of c copied to dst (links named as a source are followed).
CopyOne(c, t, s, dst) ==
  LET r == Real(c, s) IN
  IF Is(c, r, "dir") THEN Merge(c, t, r, dst, Below(c, r) \ {r})
  ELSE Put(t, c[r], Into(t, dst, s))

\* One source after the other.
CopyAll(c, t, srcs, dst) ==
  LET f[j \in 0 .. Len(srcs)] == IF j = 0 THEN t ELSE CopyOne(c, f[j - 1], srcs[j], dst)
  IN f

Copied == CopyAll(ctx, Made(img, canon, Depth), ins.srcs, canon)

\* The errors: a source that is missing, outside the context or neither file
\* nor directory, a special file in a source, a destination that cannot be a
\* directory although it must, and a file named as a source that would have
\* to replace a directory.
Reason ==
  \/ ~SourcesOK \/ (iter_ct >= 100 /\ parts # << >>)
  \/ \E j \in DOMAIN ins.srcs :
       LET r == Real(ctx, ins.srcs[j]) IN
       \/ ~Is(ctx, r, "file") /\ ~Is(ctx, r, "dir")
       \/ \E x \in Below(ctx, r) : Is(ctx, x, "fifo")
  \/ ~DestOK(img, canon)
  \/ \E j \in DOMAIN ins.srcs :
       /\ Is(ctx, Real(ctx, ins.srcs[j]), "file")
       /\ Is(Copied[j - 1], Into(Copied[j - 1], canon, ins.srcs[j]), "dir")

\* No link that leads nowhere, as seen from the host, or to another link is in
\* the way, nor one whose target the same source removes or makes a link; and
\* a file named as a source meets a link only on the same file system.
NothingDangles ==
  \A j \in DOMAIN ins.srcs : \A p \in DOMAIN Copied[j - 1] :
    Is(Copied[j - 1], p, "sym") /\ IsPrefix(canon, p) =>
      /\ Exists(Copied[j - 1], p)
      /\ LET q == Real(Copied[j - 1], p) IN
         /\ Absolute(q) \/ q \in DOMAIN Copied[j]
         /\ ~Is(Copied[j - 1], q, "sym") /\ ~Is(Copied[j], q, "sym")
      /\ samefs \/ Is(ctx, Real(ctx, ins.srcs[j]), "dir")

\* The image stays a tree: copying never leaves an entry whose parent is not a
\* directory (lib/build.py copy_src_dir).
TypeOK ==
  /\ pc \in {"prepare", "realpath", "source", "walk", "done", "fatal"}
  /\ iter_ct \in 0 .. 100 /\ n \in 1 .. Len(ins.srcs) + 1
  /\ todo \subseteq DOMAIN ctx
  /\ IsTree(tree)

\* COPY is the merge that doc/ch-image.rst describes: copying entry by entry,
\* removing what is in the way, gives the image that merging all sources at
\* once gives, whatever the order of the walk, and it fails only if there is a
\* reason (lib/build.py Copy_G.execute).
CopyIsMerge ==
  /\ pc = "done" => ~Reason /\ (NothingDangles => tree = Copied[Len(ins.srcs)])
  /\ pc = "fatal" => Reason \/ ~NothingDangles
=============================================================================
