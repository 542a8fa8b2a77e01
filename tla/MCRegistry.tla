----------------------------- MODULE MCRegistry -----------------------------
(* Images of one layer, which is what push makes; registries of every kind. *)
EXTENDS Registry

MCHistories == {<<TRUE>>, <<FALSE, FALSE>>, <<FALSE, TRUE>>, <<TRUE, FALSE, TRUE>>}
MCPolicies == {q \in [scheme : {"none", "Basic", "Bearer"}, public : BOOLEAN,
                      permit : BOOLEAN, known : BOOLEAN,
                      says : {"same", "token", "fickle"}] :
                 /\ q.scheme # "Bearer" => q.says = "same"    \* else it makes no difference
                 /\ q.scheme = "none" => q.public /\ q.permit /\ q.known}
=============================================================================
