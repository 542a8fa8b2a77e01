---------------------------- MODULE MCDockerfile ----------------------------
(* Dockerfiles in which the same instruction means different things,       *)
(* depending on what was said before it.                                   *)
EXTENDS Dockerfile

CONSTANT Odd   \* which unsupported use of variables is made, if any

I(op, key, val) == [op |-> op, key |-> key, val |-> val]
RunShell == I("RUN", "shell", <<"cmd">>)
MCUses(v) == IF v = <<"cmd">> THEN {"x", "y", "USER"} ELSE {}
RunExec == I("RUN", "exec", <<"$", "x">>)
FromB == I("FROM", "s1", <<"b1">>)
FromV == I("FROM", "s1", <<"$", "b">>)
FromS == I("FROM", "s2", <<"s1">>)

\* What can come between FROM and RUN.
Middles == {<<I("ARG", "x", None)>>, <<I("ARG", "x", <<"0">>)>>,
            <<I("ARG", "x", <<"$", "y">>), I("ENV", "y", <<"$", "x">>)>>,
            <<I("ENV", "y", <<"0">>), I("ARG", "y", <<"1">>)>>,
            <<I("ENV", "x", <<"$", "USER">>), I("LABEL", "l", <<"$", "x">>)>>,
            <<I("ARG", "USER", <<"me">>), I("SHELL", "", <<"$", "USER">>)>>,
            <<I("WORKDIR", "absolute", <<"d">>), I("WORKDIR", "relative", <<"$", "x">>)>>,
            << >>}

One == {<<FromB>> \o m \o <<r>> : m \in Middles, r \in {RunShell, RunExec}}
       \cup {<<I("ARG", "b", d), FromV, I("ARG", "x", <<"0">>), RunShell>> : d \in {None, <<"b1">>}}
Two == {<<FromB>> \o m \o <<RunShell, FromS, I("ARG", "x", None), RunExec>> : m \in Middles}

\* A variable of FROM that is used after it.
Leak == {<<I("ARG", "x", <<"0">>), FromB, I("ARG", "x", None), RunShell>>}

\* A default variable, set in a stage and reset by a FROM of that stage.
Reset == {<<FromB, I("ARG", "y", <<"0">>)>> \o m \o <<RunShell>> : m \in {<< >>, <<FromS>>}}

MCFiles == IF Odd = "from" THEN Leak ELSE IF Odd = "defaults" THEN Reset ELSE One \cup Two
MCBuildArgs == {<< >>, [x |-> <<"1">>], [x |-> <<"2">>, b |-> <<"b2">>]}
MCHostEnvs == {<< >>, [USER |-> <<"u">>]}
MCBaseEnv == [b1 |-> << >>, b2 |-> [y |-> <<"b2">>]]
MCDefaults == IF Odd = "defaults" THEN [y |-> <<"p">>] ELSE [PATH |-> <<"p">>]

\* The hypothesis of theorem CacheIsTransparent holds of what is checked.
ASSUME LeaksAssumption ==
  Odd = "no" => /\ NoLeaks
                /\ \A f \in MCFiles, k \in 1 .. 8 :
                     k <= Len(f) => MCUses(f[k].val) \cap AllFromKeys = {}
=============================================================================
