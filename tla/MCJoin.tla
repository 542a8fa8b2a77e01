------------------------------- MODULE MCJoin -------------------------------
(* Instances of Join for TLC: two peer groups that use one tag in turn. *)
EXTENDS Join, TLC
CONSTANTS p1, p2, p3, p4, p5

\* A first group of three peers and a second one of two.
Group32 == p1 :> 0 @@ p2 :> 0 @@ p3 :> 0 @@ p4 :> 1 @@ p5 :> 1
Ct32 == p1 :> 3 @@ p2 :> 3 @@ p3 :> 3 @@ p4 :> 2 @@ p5 :> 2

\* One group of three peers.
Group3 == p1 :> 0 @@ p2 :> 0 @@ p3 :> 0
Ct3 == p1 :> 3 @@ p2 :> 3 @@ p3 :> 3
=============================================================================
