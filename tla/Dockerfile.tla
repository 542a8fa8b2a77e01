------------------------------ MODULE Dockerfile ------------------------------
(***************************************************************************)
(* The instructions of a Dockerfile and the state they hand on to each     *)
(* other (class Main_Loop and the classes of instructions in lib/build.py, *)
(* metadata of lib/image.py): ARG before and after FROM, ENV, LABEL,       *)
(* SHELL, WORKDIR and RUN, in several stages and in several builds that    *)
(* share one build cache.  Git is left to module BuildCache: here the      *)
(* cache is a function from state IDs, which are the inputs of all         *)
(* instructions since the base image, to what was committed.  FROM --arg,  *)
(* which is like an ARG before it, is left out.                            *)
(*                                                                         *)
(* An instruction has an op, a key and a value val.  A value is <<v>>, or  *)
(* <<"$", k>> for a reference to variable k.  The files of an image are    *)
(* the RUN and WORKDIR instructions that were executed on it, each with    *)
(* what it could see.                                                      *)
(***************************************************************************)
EXTENDS Naturals, Sequences

CONSTANTS Files,         \* Dockerfiles
          BuildArgs,     \* what --build-arg can say: functions
          HostEnvs,      \* magic variables in ch-image's environment: functions
          BaseEnv,       \* environment of each base image in the registry
          ARGS_MAGIC,    \* variables that are excluded from the cache
          ARG_DEFAULTS,
          Uses(_),       \* the variables that a command uses
          MaxBuilds,
          None

\* A stage without a name has its number for a key.
ASSUME FilesAssumption ==
  \A f \in Files : /\ Len(f) \in Nat
                   /\ \A k \in 1 .. Len(f) : f[k].op = "FROM" => f[k].key # None
ASSUME MagicAssumption == /\ \A h \in HostEnvs : DOMAIN h \subseteq ARGS_MAGIC
                          /\ DOMAIN ARG_DEFAULTS \cap ARGS_MAGIC = {}
ASSUME BoundAssumption == MaxBuilds \in Nat

VARIABLES cache,      \* state ID -> what was committed
          running,    \* is a build under way?
          file,       \* its Dockerfile
          cli,        \* its command line and environment
          build_arg,  \* what of --build-arg has not been consumed
          argfrom,    \* the variables for FROM
          images,     \* the state IDs of the stages that are closed
          alias,      \* the name of the stage being built
          n,          \* the number of the instruction at hand
          sid,        \* state ID of the last instruction
          metadata,   \* self.image.metadata
          files,      \* the files of the worktree, if there was a miss
          miss_ct,    \* misses of this stage
          tag,        \* the image that the last build made, << >> if none
          builds

inputs == <<file, cli>>
vars == <<cache, running, inputs, build_arg, argfrom, images, alias, n, sid, metadata,
          files, miss_ct, tag, builds>>

Minus(f, S) == [k \in DOMAIN f \ S |-> f[k]]
Only(f, S) == [k \in DOMAIN f \cap S |-> f[k]]

\* Function f, where it says nothing g; and f with v at k.
Over(f, g) == [k \in DOMAIN f \cup DOMAIN g |-> IF k \in DOMAIN f THEN f[k] ELSE g[k]]
With(f, k, v) == [x \in DOMAIN f \cup {k} |-> IF x = k THEN v ELSE f[x]]

metadata_init(env) == [arg |-> ARG_DEFAULTS, env |-> env, cwd |-> << >>,
                       shell |-> <<"sh">>, labels |-> << >>, history |-> << >>]

Init ==
  /\ cache = << >> /\ running = FALSE /\ file = << >> /\ tag = << >> /\ builds = 0
  /\ cli = [build_arg |-> << >>, host |-> << >>, rebuild |-> FALSE]
  /\ build_arg = << >> /\ argfrom = << >> /\ images = << >> /\ alias = None
  /\ n = 1 /\ sid = << >> /\ metadata = metadata_init(<< >>)
  /\ files = << >> /\ miss_ct = 0

\* main, cli_process
Start(f, b, h, r) ==
  /\ ~running /\ builds < MaxBuilds /\ builds' = builds + 1
  /\ running' = TRUE /\ file' = f /\ cli' = [build_arg |-> b, host |-> h, rebuild |-> r]
  /\ build_arg' = b /\ argfrom' = << >> /\ images' = << >> /\ alias' = None
  /\ n' = 1 /\ sid' = << >> /\ metadata' = metadata_init(<< >>)
  /\ files' = << >> /\ miss_ct' = 0 /\ tag' = << >>
  /\ UNCHANGED cache

Building == running /\ n <= Len(file)
inst == file[n]

\* The build ends with an error.
Fatal == /\ running' = FALSE
         /\ UNCHANGED <<cache, inputs, build_arg, argfrom, images, alias, n, sid,
                        metadata, files, miss_ct, tag, builds>>

\* A variable that is not set is left as it is.  (The code goes through the
\* variables one after the other, so that what it has put in can be replaced
\* again; that makes no difference to the Dockerfiles that are checked.)
variables_sub(v, env) ==
  IF v # None /\ Len(v) = 2 /\ v[2] \in DOMAIN env THEN env[v[2]] ELSE v

\* The value of an ARG: from --build-arg if nobody has consumed it, else the
\* default.
ArgValue(x, args) == IF x.key \in DOMAIN args THEN args[x.key] ELSE x.val

Set(f, k, v) == IF v = None THEN f ELSE With(f, k, v)

\* ARG before the first FROM.
Arg_First ==
  /\ Building /\ inst.op = "ARG" /\ alias = None
  /\ argfrom' = Set(argfrom, inst.key, ArgValue(inst, build_arg))
  /\ build_arg' = Minus(build_arg, {inst.key})
  /\ n' = n + 1
  /\ UNCHANGED <<cache, running, inputs, images, alias, sid, metadata, files, miss_ct, tag, builds>>

\* The stages that are closed when a FROM is met, and the image it names: one
\* of these, if it is named literally, or one from the registry.
Closed(imgs, a, s) == IF a = None THEN imgs ELSE With(imgs, a, s)
IsStage(x, imgs) == Len(x.val) = 1 /\ x.val[1] \in DOMAIN imgs
BaseOf(x, args) == variables_sub(x.val, args)
BaseSid(x, args, imgs) ==
  IF IsStage(x, imgs) THEN imgs[x.val[1]]
  ELSE <<[op |-> "PULL", key |-> BaseOf(x, args)[1], val |-> << >>]>>

\* metadata_load: default variables, and those of the environment; FROM adds
\* its own.
metadata_load(m, host, args) == [m EXCEPT !.arg = Over(args, Over(ARG_DEFAULTS, Over(host, @)))]

From ==
  LET imgs == Closed(images, alias, sid)
      base == BaseSid(inst, argfrom, imgs)
  IN /\ Building /\ inst.op = "FROM" /\ Len(BaseOf(inst, argfrom)) = 1
     /\ cache' = IF base \in DOMAIN cache THEN cache
                 ELSE With(cache, base, [metadata |-> metadata_init(BaseEnv[base[1].key]),
                                         files |-> << >>])
     /\ images' = imgs /\ alias' = inst.key
     /\ metadata' = metadata_load(cache'[base].metadata, cli.host, argfrom)
     /\ sid' = base /\ miss_ct' = 0 /\ n' = n + 1
     /\ UNCHANGED <<running, inputs, build_arg, argfrom, files, tag, builds>>

\* The reference still has a variable in it.
FromFatal == /\ Building /\ inst.op = "FROM" /\ Len(BaseOf(inst, argfrom)) = 2
             /\ Fatal

env_build(m) == Over(m.env, m.arg)

\* prepare of the instructions: the operand after substitution ...
Operand(x, m, args) ==
  IF x.op = "ARG" THEN variables_sub(ArgValue(x, args), env_build(m))
  ELSE IF x.op = "RUN" /\ x.key = "shell" THEN x.val
  ELSE variables_sub(x.val, env_build(m))

\* ... the metadata, changed here so that they are on a hit, too ...
prepare(x, m, args) ==
  LET v == Operand(x, m, args) IN
  IF x.op = "ARG" THEN [m EXCEPT !.arg = Set(@, x.key, v)]
  ELSE IF x.op = "ENV" THEN [m EXCEPT !.env = Set(@, x.key, v)]
  ELSE IF x.op = "LABEL" THEN [m EXCEPT !.labels = Set(@, x.key, v)]
  ELSE IF x.op = "SHELL" THEN [m EXCEPT !.shell = v]
  ELSE IF x.op = "WORKDIR" THEN [m EXCEPT !.cwd = IF x.key = "absolute" THEN v ELSE @ \o v]
  ELSE m

\* Mutant: the text of the Dockerfile, before substitution.
sid_input_text(x, m, args) == [op |-> x.op, key |-> x.key, val |-> x.val]

\* ... and the input of the state ID.
sid_input(x, m, args) ==
  [op |-> x.op, key |-> x.key,
   val |-> IF x.op = "ARG" /\ x.key \in ARGS_MAGIC THEN << >> ELSE Operand(x, m, args)]

\* execute: RUN sees the variables (of which the magic ones do not count), the
\* directory and, if it has no list of words, the shell.
execute(x, m, v, fs) ==
  IF x.op = "RUN"
  THEN Append(fs, [do |-> v, cwd |-> m.cwd,
                   env |-> Only(Minus(env_build(m), ARGS_MAGIC), Uses(v)),
                   shell |-> IF x.key = "shell" THEN m.shell ELSE << >>])
  ELSE IF x.op = "WORKDIR"
  THEN Append(fs, [do |-> <<"mkdir">>, cwd |-> m.cwd, env |-> << >>, shell |-> << >>])
  ELSE fs

\* metadata_save
Saved(m) == [m EXCEPT !.arg = Minus(@, ARGS_MAGIC)]

InStage == Building /\ inst.op # "FROM" /\ alias # None
NewSid == Append(sid, sid_input(inst, metadata, build_arg))

Consume == /\ build_arg' = IF inst.op = "ARG" THEN Minus(build_arg, {inst.key}) ELSE build_arg
           /\ sid' = NewSid /\ n' = n + 1
           /\ UNCHANGED <<running, inputs, argfrom, images, alias, tag, builds>>

\* find_sid
Found == NewSid \in DOMAIN cache /\ ~cli.rebuild

Hit == /\ InStage /\ Found /\ Consume
       /\ metadata' = prepare(inst, metadata, build_arg)
       /\ UNCHANGED <<cache, files, miss_ct>>

\* checkout_for_build at the first miss, execute, metadata_update, commit
Checkout == IF miss_ct = 0 THEN cache[sid].files ELSE files

Miss ==
  /\ InStage /\ ~Found /\ Consume
  /\ LET m == prepare(inst, metadata, build_arg)
     IN /\ metadata' = [m EXCEPT !.history = Append(@, inst.op)]
        /\ files' = execute(inst, m, Operand(inst, metadata, build_arg), Checkout)
        /\ cache' = With(cache, NewSid, [metadata |-> Saved(metadata'), files |-> files'])
  /\ miss_ct' = miss_ct + 1

\* A RUN that fails is rolled back, and ends the build.
RunFatal == InStage /\ ~Found /\ inst.op = "RUN" /\ Fatal

\* parse_tree_traverse: the image is ready, whether or not an argument that
\* was not consumed makes the command fail in the end.
Finish ==
  /\ running /\ n > Len(file)
  /\ running' = FALSE /\ tag' = sid
  /\ UNCHANGED <<cache, inputs, build_arg, argfrom, images, alias, n, sid, metadata,
                 files, miss_ct, builds>>

Step == Arg_First \/ From \/ FromFatal \/ Hit \/ Miss \/ RunFatal \/ Finish

Next == \/ \E f \in Files, b \in BuildArgs, h \in HostEnvs, r \in BOOLEAN : Start(f, b, h, r)
        \/ Step

Spec == Init /\ [][Next]_vars
-----------------------------------------------------------------------------
(* The reference: the same instructions without a cache.                   *)

ColdStart(c) == [args |-> c.build_arg, from |-> << >>, imgs |-> << >>, alias |-> None,
                 m |-> metadata_init(<< >>), files |-> << >>]

ColdFrom(c, st, x) ==
  LET imgs == Closed(st.imgs, st.alias, [m |-> Saved(st.m), files |-> st.files])
      img == IF IsStage(x, imgs) THEN imgs[x.val[1]]
             ELSE [m |-> metadata_init(BaseEnv[BaseOf(x, st.from)[1]]), files |-> << >>]
  IN [st EXCEPT !.imgs = imgs, !.alias = x.key, !.files = img.files,
                !.m = metadata_load(img.m, c.host, st.from)]

ColdArg(st, x) == [st EXCEPT !.from = Set(@, x.key, ArgValue(x, st.args)),
                             !.args = Minus(@, {x.key})]

ColdInst(st, x) ==
  LET m == prepare(x, st.m, st.args)
  IN [st EXCEPT !.m = m,
                !.files = execute(x, m, Operand(x, st.m, st.args), @),
                !.args = IF x.op = "ARG" THEN Minus(@, {x.key}) ELSE @]

ColdStep(c, st, x) == IF x.op = "FROM" THEN ColdFrom(c, st, x)
                      ELSE IF st.alias = None THEN ColdArg(st, x) ELSE ColdInst(st, x)

\* What there is after k instructions of f, called with c.
Cold(f, c) ==
  LET run[k \in 0 .. Len(f)] ==
        IF k = 0 THEN ColdStart(c) ELSE ColdStep(c, run[k - 1], f[k])
  IN run

\* The variables that some Dockerfile sets before FROM.
FromKeys(f) == {f[k].key : k \in {j \in 1 .. Len(f) : f[j].op = "ARG" /\
                                   \A i \in 1 .. j : f[i].op # "FROM"}}
AllFromKeys == UNION {FromKeys(f) : f \in Files}

\* The Dockerfiles in which no instruction of a stage names such a variable,
\* or sets one that FROM sets again (ARG_DEFAULTS).
Plain(v) == v # None /\ Len(v) = 2 => v[2] \notin AllFromKeys
InBody(f, k) == f[k].op # "FROM" /\ \E i \in 1 .. k : f[i].op = "FROM"
NoLeaks ==
  /\ \A f \in Files : \A k \in 1 .. Len(f) : InBody(f, k) =>
        /\ Plain(f[k].val)
        /\ f[k].op = "ARG" => f[k].key \notin DOMAIN ARG_DEFAULTS
  /\ \A b \in BuildArgs : \A k \in DOMAIN b : Plain(b[k])

\* What of the metadata must not depend on the cache.  History does: it lacks
\* the instructions that were hits before the first miss.
Essence(m) == [arg |-> Minus(m.arg, ARGS_MAGIC \cup AllFromKeys), env |-> m.env,
               cwd |-> m.cwd, shell |-> m.shell, labels |-> m.labels]

(***************************************************************************)
(* The cache is transparent: an image has the files and metadata that all  *)
(* its instructions make when they are executed with the arguments, base   *)
(* image and environment of this build, whatever other builds, with other  *)
(* arguments, failed or not, have left in the cache (Instruction.prepare,  *)
(* metadata_update; "we want disabled results to be the same").            *)
(***************************************************************************)
CacheTransparent ==
  tag # << >> =>
    LET cold == Cold(file, cli)[Len(file)] IN
    /\ cache[tag].files = cold.files
    /\ Essence(cache[tag].metadata) = Essence(cold.m)
=============================================================================
