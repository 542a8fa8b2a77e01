------------------------------- MODULE Layers -------------------------------
(***************************************************************************)
(* Flattening the layer tarballs of an image into its directory:           *)
(* Image.unpack and what it calls (lib/image.py), and the subclass TarFile *)
(* (lib/filesystem.py) that extracts the members.                          *)
(*                                                                         *)
(* The code does not apply one layer after the other.  It reads the        *)
(* members of all layers, drops and renames some, removes from the LOWER   *)
(* layers what the whiteouts of higher layers delete, and only then        *)
(* extracts what is left, lowest layer first, on top of each other.  The   *)
(* reference at the end of this module applies the layers one by one; the  *)
(* properties say that the two agree.                                      *)
(*                                                                         *)
(* A path is the sequence of its components, "/" the first one of an       *)
(* absolute path, <<>> the path "." (fs.Path.parts).  A member has a name, *)
(* a kind and, if it is a link, a target "to"; the contents of a file are  *)
(* identified with the hash of its layer, <<>> those of an empty one.      *)
(* Whiteouts are files whose last component starts with ".wh.": kind "wh"  *)
(* is ".wh." and the last component of the name, "opq" is ".wh..wh..opq"   *)
(* in the directory that the name without its last component is.           *)
(***************************************************************************)
EXTENDS Integers, FiniteSets, Sequences, SequencesExt

CONSTANTS Hash,       \* the hashes of the tarballs
          Tar,        \* Tar[h]: the members of tarball h, in their order
          MaxLayers,  \* an image has at most this many layers
          Lasts,      \* the values of --last-layer
          GitNames    \* the names that begin with ".git"

Kind == {"dir", "file", "sym", "lnk", "dev", "wh", "opq"}

\* The directories of a member come before it, which is how tar(1) and the
\* builders of images write tarballs, no file occurs twice, and the
\* directories that unpack_init writes to are not symbolic links.
ASSUME LayersAssumption ==
  /\ MaxLayers \in Nat /\ Lasts \subseteq Nat \ {0}
  /\ \A h \in Hash : \A j \in DOMAIN Tar[h] :
       LET m == Tar[h][j] IN
       /\ m.kind \in Kind
       /\ m.kind = "sym" => Last(m.name) \notin {"ch", "etc", "mnt"}
       /\ \A k \in DOMAIN Tar[h] : k # j /\ Tar[h][k].name = m.name =>
                                     (m.kind = "wh") # (Tar[h][k].kind = "wh")
       /\ \A n \in 1..(Len(m.name) - 1) : m.name[n] # "/" =>
            \E k \in 1..(j - 1) : /\ Tar[h][k].name = SubSeq(m.name, 1, n)
                                  /\ Tar[h][k].kind = "dir"

VARIABLES image,   \* the hashes of the layers, lowest first: the argument layer_tars
          last,    \* --last-layer
          pc,      \* what unpack does next
          i,       \* the layer it is at
          layers,  \* the OrderedDict of layers_open: hash, members, all members of the file
          tree,    \* the unpack directory: path -> [k |-> kind, at |-> inode or target]
          data     \* the contents of the inodes

vars == <<image, last, pc, i, layers, tree, data>>

STANDARD_DIRS == {"bin", "dev", "etc", "mnt", "proc", "sys", "tmp", "usr"}

NoTree == [p \in {} |-> <<>>]

Init ==
  /\ image \in UNION {[1..n -> Hash] : n \in 0..MaxLayers}
  /\ last \in Lasts
  /\ pc = "open" /\ i = 1
  /\ layers = <<>>
  /\ tree = NoTree
  /\ data = NoTree

----------------------------------------------------------------------------
(* layers_open *)

\* One tarball is listed.  An empty one is left out; one whose hash was there
\* before keeps its first place.
layers_open ==
  /\ pc = "open" /\ i <= Len(image)
  /\ i' = i + 1
  /\ layers' = IF Tar[image[i]] = <<>> \/ \E n \in DOMAIN layers : layers[n].lh = image[i]
               THEN layers
               ELSE Append(layers, [lh |-> image[i], members |-> Tar[image[i]],
                                    all |-> Tar[image[i]]])
  /\ UNCHANGED <<image, last, pc, tree, data>>

----------------------------------------------------------------------------
(* validate_members *)

\* The members of a tarball have become those of a layer one by one.
Each(op(_), l) == [l EXCEPT !.members = [j \in DOMAIN @ |-> op(@[j])],
                            !.all = [j \in DOMAIN @ |-> op(@[j])]]

EachLayer(op(_), ls) == [n \in DOMAIN ls |-> Each(op, ls[n])]

Members(ls) == UNION {Range(ls[n].members) : n \in DOMAIN ls}

\* Pass 1: absolute names are made relative.
Unrooted(path) == IF path # <<>> /\ Head(path) = "/" THEN Tail(path) ELSE path

Relative(m) == [m EXCEPT !.name = Unrooted(@)]

TopDirs(ls) ==
  {IF m.name = <<>> THEN "." ELSE m.name[1] :
     m \in {x \in Members(ls) : Len(x.name) > 1 \/ x.kind = "dir"}}

\* Pass 2: a single enclosing directory is stripped from the names.
Strip(m) == [m EXCEPT !.name = IF @ = <<>> THEN @ ELSE Tail(@)]

Tarbomb(ls) ==
  IF Cardinality(TopDirs(ls)) # 1 \/ TopDirs(ls) \cap STANDARD_DIRS # {}
  THEN ls ELSE EachLayer(Strip, ls)

\* os.path.normpath of a relative path.
Normal(path) ==
  FoldLeft(LAMBDA done, c : IF c = ".." /\ done # <<>> /\ Last(done) # ".."
                            THEN Front(done) ELSE Append(done, c),
           <<>>, path)

\* The target of a link that was absolute: a symbolic link climbs to the root
\* of the image first, a hard link names a member.
fix_link_target(m) ==
  IF m.kind \in {"sym", "lnk"} /\ Head(m.to) = "/"
  THEN [m EXCEPT !.to = IF m.kind = "lnk" THEN Tail(@)
                        ELSE [n \in 1..(Len(m.name) - 1) |-> ".."] \o Tail(@)]
  ELSE m

\* Pass 3: what is not unpacked.
Ignored(m) ==
  \/ m.kind = "dev"
  \/ m.name # <<>> /\ m.name[1] \in GitNames
  \/ Len(m.name) > 1 /\ m.name[1] = "dev"

Validated == EachLayer(fix_link_target, Tarbomb(EachLayer(Relative, layers)))

\* What is fatal: up-levels in a name (pass 1), a link that climbs out of the
\* image (pass 3).
Rejected ==
  \/ \E m \in Members(layers) : ".." \in Range(m.name)
  \/ \E m \in Members(Validated) :
       m.kind \in {"sym", "lnk"} /\ ".." \in Range(Normal(m.name \o m.to))

validate_members ==
  /\ pc = "open" /\ i > Len(image)
  /\ IF Rejected
     THEN pc' = "fatal" /\ UNCHANGED layers
     ELSE /\ pc' = "whiteouts"
          /\ layers' = [n \in DOMAIN layers |->
               [Validated[n] EXCEPT !.members = SelectSeq(@, LAMBDA m : ~Ignored(m))]]
  /\ i' = 1
  /\ UNCHANGED <<image, last, tree, data>>

----------------------------------------------------------------------------
(* whiteouts_resolve *)

Whiteout(m) == m.kind \in {"wh", "opq"}

\* The path whose members a whiteout removes: its directory if it is opaque,
\* otherwise dirname + "/" + name.  The dirname of a member at the top of the
\* image is empty, so that this is an absolute path.
Prefix(m) == IF m.kind = "opq" THEN Front(m.name)
             ELSE IF Len(m.name) = 1 THEN <<"/">> \o m.name ELSE m.name

\* Mutant: what is below the path is not matched.
prefix_path_same(prefix, name) == prefix = name

prefix_path(prefix, name) == prefix = name \/ (prefix # <<>> /\ IsPrefix(prefix, name))

whiteout_rm_prefix(members, prefixes) ==
  SelectSeq(members, LAMBDA m : ~\E p \in prefixes : prefix_path(p, m.name))

\* The whiteouts of one layer remove members of the lower layers only.
whiteouts_resolve ==
  /\ pc = "whiteouts" /\ i <= Len(layers)
  /\ LET prefixes == {Prefix(m) : m \in {x \in Range(layers[i].members) : Whiteout(x)}}
     IN layers' = [n \in DOMAIN layers |->
          [layers[n] EXCEPT !.members =
             IF n < i THEN whiteout_rm_prefix(@, prefixes)
             ELSE IF n = i THEN SelectSeq(@, LAMBDA m : ~Whiteout(m)) ELSE @]]
  /\ i' = i + 1
  /\ UNCHANGED <<image, last, pc, tree, data>>

----------------------------------------------------------------------------
(* unpack_layers and TarFile *)

\* The unpack directory is created also if there are no layers.
mkdir ==
  /\ pc = "whiteouts" /\ i > Len(layers)
  /\ pc' = "extract" /\ i' = 1
  /\ tree' = <<>> :> [k |-> "dir", at |-> <<>>]
  /\ UNCHANGED <<image, last, layers, data>>

Without(t, path) == [p \in {q \in DOMAIN t : ~IsPrefix(path, q)} |-> t[p]]

Is(kinds, path) == path \in DOMAIN tree /\ tree[path].k \in kinds

\* clobber: the entry at the path is deleted if it is of one of these kinds.
clobber(path, kinds) == IF Is(kinds, path) THEN Without(tree, path) ELSE tree

\* A new file at the path, with contents from the layer at hand.
NewFile(t, path) ==
  /\ tree' = (path :> [k |-> "file", at |-> <<i, path>>]) @@ t
  /\ data' = (<<i, path>> :> <<layers[i].lh>>) @@ data

makedir(m) ==
  /\ tree' = (m.name :> [k |-> "dir", at |-> <<>>]) @@ clobber(m.name, {"file", "sym"})
  /\ UNCHANGED <<data, pc>>

\* A regular file that is there is not deleted: it is opened and overwritten.
\* The unpack directory itself cannot be deleted and become a file.
makefile(m) ==
  IF m.name = <<>> THEN pc' = "fatal" /\ UNCHANGED <<tree, data>>
  ELSE /\ IF Is({"file"}, m.name)
          THEN data' = [data EXCEPT ![tree[m.name].at] = <<layers[i].lh>>] /\ UNCHANGED tree
          ELSE NewFile(clobber(m.name, {"sym", "dir"}), m.name)
       /\ UNCHANGED pc

\* A hard link is linked to its target in the directory or, if that is not
\* there, becomes a copy of the target's member; without such a member the
\* library raises an exception that nobody catches.
makelink(m) ==
  LET t == clobber(m.name, {"file", "sym", "dir"})
      targets == {x \in Range(layers[i].all) : x.name = m.to /\ x.kind = "file"}
  IN IF m.kind = "sym"
     THEN tree' = (m.name :> [k |-> "sym", at |-> m.to]) @@ t /\ UNCHANGED <<data, pc>>
     ELSE \/ /\ m.to \in DOMAIN t
             /\ tree' = (m.name :> t[m.to]) @@ t
             /\ UNCHANGED <<data, pc>>
          \/ /\ m.to \notin DOMAIN t /\ targets # {}
             /\ NewFile(t, m.name)
             /\ UNCHANGED pc
          \/ /\ m.to \notin DOMAIN t /\ targets = {}
             /\ pc' = "fatal"
             /\ UNCHANGED <<tree, data>>

Extracting == pc = "extract" /\ i <= Len(layers)

\* Mutant: one layer more than --last-layer says.
extract_one_more ==
  /\ Extracting /\ i <= last + 1 /\ layers[i].members # <<>>
  /\ LET m == Head(layers[i].members) IN
     \/ m.kind = "dir" /\ makedir(m)
     \/ m.kind = "file" /\ makefile(m)
     \/ m.kind \in {"sym", "lnk"} /\ makelink(m)
  /\ layers' = [layers EXCEPT ![i].members = Tail(@)]
  /\ UNCHANGED <<image, last, i>>

extract ==
  /\ Extracting /\ i <= last /\ layers[i].members # <<>>
  /\ LET m == Head(layers[i].members) IN
     \/ m.kind = "dir" /\ makedir(m)
     \/ m.kind = "file" /\ makefile(m)
     \/ m.kind \in {"sym", "lnk"} /\ makelink(m)
  /\ layers' = [layers EXCEPT ![i].members = Tail(@)]
  /\ UNCHANGED <<image, last, i>>

\* A layer is done, or skipped because of --last-layer.
NextLayer ==
  /\ Extracting
  /\ i > last \/ layers[i].members = <<>>
  /\ i' = i + 1
  /\ UNCHANGED <<image, last, pc, layers, tree, data>>

\* The directories and files of every image that are created if nothing is
\* there.
EssentialDirs ==
  {<<"ch">>} \cup {<<d>> : d \in STANDARD_DIRS}
             \cup {<<"mnt", d>> : d \in {"0", "1", "2", "3", "4", "5", "6", "7", "8", "9"}}

EssentialFiles == {<<"ch", "environment">>, <<"etc", "hosts">>, <<"etc", "resolv.conf">>}

unpack_init ==
  /\ pc = "extract" /\ i > Len(layers)
  /\ IF \E d \in {"ch", "etc", "mnt"} : Is({"file"}, <<d>>)
     THEN pc' = "fatal" /\ UNCHANGED <<tree, data>>
     ELSE /\ pc' = "done"
          /\ tree' = tree @@ [p \in EssentialDirs |-> [k |-> "dir", at |-> <<>>]]
                          @@ [p \in EssentialFiles |-> [k |-> "file", at |-> <<0, p>>]]
          /\ data' = data @@ [n \in {<<0, p>> : p \in EssentialFiles} |-> <<>>]
  /\ UNCHANGED <<image, last, i, layers>>

\* The process has ended.
Ended == pc \in {"done", "fatal"} /\ UNCHANGED vars

Next == layers_open \/ validate_members \/ whiteouts_resolve \/ mkdir \/ extract
        \/ NextLayer \/ unpack_init \/ Ended

Spec == Init /\ [][Next]_vars

----------------------------------------------------------------------------
(***************************************************************************)
(* The reference: the layers applied one after the other.                  *)
(***************************************************************************)

\* All members of all tarballs, with relative names.
Listed(n) == {Relative(m) : m \in Range(Tar[image[n]])}
AllListed == UNION {Listed(n) : n \in DOMAIN image}

\* Everything is in one directory that is not one of an image's own.
Enclosed == \E d \in AllListed :
              /\ d.kind = "dir" /\ Len(d.name) = 1 /\ d.name[1] \notin STANDARD_DIRS
              /\ \A m \in AllListed : IsPrefix(d.name, m.name)

\* The members under the names that they are meant to have in the image.
Meant(n) == IF Enclosed THEN {Strip(m) : m \in Listed(n)} ELSE Listed(n)

\* What a symbolic link at the path points to, seen from inside the container.
Target(path, to) == IF to # <<>> /\ Head(to) = "/" THEN Normal(Tail(to))
                    ELSE Normal(Front(path) \o to)

\* One layer applied to an image t (a function from paths to contents): the
\* whiteouts and what is not a directory delete what is below, the rest stays.
Apply(t, ms, lh) ==
  LET new == {m \in ms : ~Whiteout(m) /\ ~Ignored(m)}
      at(p) == CHOOSE m \in new : m.name = p
      gone(p) == \/ \E m \in ms : m.kind = "wh" /\ IsPrefix(m.name, p)
                 \/ \E m \in ms : m.kind = "opq" /\ IsStrictPrefix(Front(m.name), p)
                 \/ \E m \in new : m.kind # "dir" /\ IsPrefix(m.name, p)
      value(m) == IF m.kind = "file" THEN <<"file", <<lh>>>>
                  ELSE IF m.kind = "dir" THEN <<"dir">>
                  ELSE <<"sym", Target(m.name, m.to)>>
      made(m) == IF m.kind # "lnk" THEN value(m)
                 ELSE value(at(Unrooted(m.to)))
  IN [p \in {m.name : m \in new} |-> made(at(p))]
     @@ [p \in {q \in DOMAIN t : ~gone(q)} |-> t[p]]

\* The first n layers, applied.
Applied ==
  LET root == <<>> :> <<"dir">>
      f[n \in 0..Len(image)] ==
        IF n = 0 THEN root ELSE Apply(f[n - 1], Meant(n), image[n])
  IN f

\* The unpack directory with its contents instead of its inodes.
View == [p \in DOMAIN tree |->
           LET e == tree[p] IN
           IF e.k = "file" THEN <<"file", data[e.at]>>
           ELSE IF e.k = "dir" THEN <<"dir">> ELSE <<"sym", Target(p, e.at)>>]

Essential == [p \in EssentialDirs |-> <<"dir">>] @@ [p \in EssentialFiles |-> <<"file", <<>>>>]

----------------------------------------------------------------------------
(* Properties *)

\* Every layer that is not empty occurs once.  Of one that occurs twice, the
\* code keeps the lower one and warns.
NoDuplicates == \A n, k \in DOMAIN image : image[n] = image[k] /\ n # k => Tar[image[n]] = <<>>

NoRootWhiteouts == \A n \in DOMAIN image : \A m \in Meant(n) : Whiteout(m) => Len(m.name) > 1

\* No layer overwrites a file that a lower layer has under two names.
NoSharedOverwritten ==
  \A n, k \in DOMAIN image : n < k =>
    \A m \in Meant(n), x \in Meant(k) :
      m.kind = "lnk" /\ x.kind = "file" => x.name \notin {m.name, Unrooted(m.to)}

\* No hard link in a directory that is stripped, and nothing beside a single
\* top directory.
NoOddEnclosed ==
  LET tops == {m.name : m \in {x \in AllListed : x.kind = "dir" /\ Len(x.name) <= 1}}
  IN /\ Enclosed => \A m \in AllListed : m.kind # "lnk"
     /\ \/ tops = {} \/ Cardinality(tops) > 1
        \/ tops \cap {<<d>> : d \in STANDARD_DIRS} # {}
        \/ Enclosed

\* No name or link leads out of the image, seen from the root of the tarball.
NoUpLevels ==
  \A m \in AllListed : /\ ".." \notin Range(m.name)
                       /\ m.kind = "sym" => ".." \notin Range(Target(m.name, m.to))

\* The images that the properties are about.
Supported == NoDuplicates /\ NoRootWhiteouts /\ NoSharedOverwritten /\ NoOddEnclosed
             /\ NoUpLevels

\* What is unpacked stays a tree of directories, files that have contents, and
\* links (lib/filesystem.py TarFile).
TypeOK ==
  /\ pc \in {"open", "whiteouts", "extract", "done", "fatal"}
  /\ i \in 1..(MaxLayers + 1)
  /\ \A n \in DOMAIN layers : layers[n].lh \in Range(image)
  /\ \A p \in DOMAIN tree : tree[p].k = "file" => tree[p].at \in DOMAIN data
  /\ \A p \in DOMAIN tree : p # <<>> => Is({"dir"}, Front(p))

\* An image that was unpacked without --last-layer is what its layers make
\* when they are applied one after the other, and unpacking it does not fail:
\* resolving all whiteouts first, renaming, dropping and relinking members
\* and extracting the rest on top of each other gives the same files,
\* directories and links with the same contents (lib/image.py unpack).
FlattenIsApply ==
  pc \in {"done", "fatal"} /\ last >= Len(image) /\ Supported =>
    pc = "done" /\ View = Applied[Len(image)] @@ Essential

\* With --last-layer N the image is incomplete, and not more than that: it has
\* nothing that the first N layers do not make.  (The whiteouts of the layers
\* that are skipped have been resolved all the same.)
LastLayerIsPartial ==
  pc = "done" /\ last < Len(image) /\ Supported /\ <<>> \notin {Tar[h] : h \in Range(image)} =>
    LET t == Applied[last] @@ Essential IN
    \A p \in DOMAIN tree : p \in DOMAIN t /\ View[p] = t[p]

\* "Explicit whiteout: remove same-name file" (lib/image.py), wherever in the
\* image it is.
WhiteoutsRemove ==
  pc = "done" /\ last >= Len(image) /\ NoDuplicates /\ NoOddEnclosed =>
    \A n \in DOMAIN image : \A m \in Meant(n) :
      m.kind = "wh" /\ m.name \notin DOMAIN Applied[Len(image)] => m.name \notin DOMAIN tree
=============================================================================
