------------------------------- MODULE MCPull -------------------------------
(* Two images that share a layer; a reference may have either of them for  *)
(* every architecture, or a list with one for each.                        *)
EXTENDS Pull, TLC

MCBlobsOf == [m1 |-> <<"b1">>, m2 |-> <<"b1", "b2">>]
MCListing == {[k |-> "skinny", of |-> "m1"], [k |-> "skinny", of |-> "m2"],
              [k |-> "fat", of |-> [amd64 |-> "m1", arm64 |-> "m2"]]}
Sym == Permutations(Proc)

MCArchApart == [x |-> {"amd64", "arm64/v8"}, y |-> {"yolo"}]
MCArchMixed == [x |-> {"amd64", "yolo"}, y |-> {}]
=============================================================================
