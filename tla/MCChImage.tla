------------------------------ MODULE MCChImage ------------------------------
(* Instances of ChImage for TLC. *)
EXTENDS ChImage, TLC

CONSTANTS b, s, i, j,   \* references: a base image, a stage and two tags
          x, y, e       \* arguments of RUN, RUN and ENV

RunX == [op |-> "run", arg |-> x]
RunY == [op |-> "run", arg |-> y]
EnvE == [op |-> "env", arg |-> e]

One(tag, from, insts) == <<[tag |-> tag, from |-> from, insts |-> insts]>>

\* Two versions of i with a common prefix, a third with an ENV; j is built
\* from i, or in two stages with the first called s.
\* An image built from itself is refused.
Dockerfiles ==
    { One(i, b, <<RunX>>), One(i, b, <<RunX, RunY>>), One(i, b, <<EnvE, RunY>>),
      One(j, i, <<RunY>>), One(s, b, <<RunX>>) \o One(j, s, <<RunY>>),
      One(i, i, <<RunY>>) }

\* The Dockerfiles of i alone.
DockerfilesI == {d \in Dockerfiles : d[1].tag = i}

Registry1 == b :> 1 @@ s :> 0 @@ i :> 0 @@ j :> 0
Registry2 == b :> 2 @@ s :> 0 @@ i :> 0 @@ j :> 0
StagesOfJ == b :> {} @@ s :> {} @@ i :> {} @@ j :> {s}
Pulls == {<<b, b>>, <<b, i>>}
PullB == {<<b, b>>}
=============================================================================
