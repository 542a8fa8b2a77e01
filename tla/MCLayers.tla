------------------------------ MODULE MCLayers ------------------------------
(***************************************************************************)
(* The tarballs of the runs on Layers: all layers over a few paths that    *)
(* an image builder could write.                                           *)
(***************************************************************************)
EXTENDS Layers

CONSTANT RootWhiteouts

Mem(name, kind) == [name |-> name, kind |-> kind, to |-> <<>>]
Link(name, kind, to) == [name |-> name, kind |-> kind, to |-> to]

Usr == <<"usr">>
A == <<"usr", "a">>
B == <<"usr", "a", "b">>
C == <<"usr", "c">>

\* What a layer can say about /usr/a.
AboutA ==
  { <<>>, <<Mem(A, "file")>>, <<Mem(A, "dev")>>, <<Mem(A, "wh")>>, <<Mem(A, "dir")>>,
    <<Link(A, "sym", <<"/", "usr", "c">>)>>,
    <<Mem(A, "dir"), Mem(B, "file")>>,
    <<Mem(A, "dir"), Mem(B, "wh")>>,
    <<Mem(A, "dir"), Mem(Append(A, "opq"), "opq")>>,
    <<Mem(A, "dir"), Mem(Append(A, "opq"), "opq"), Mem(B, "file")>>,
    <<Mem(A, "wh"), Mem(A, "dir"), Mem(B, "file")>> }

\* The same tarball with the names that some builders write.
Absolute(ms) == [j \in DOMAIN ms |-> [ms[j] EXCEPT !.name = <<"/">> \o @]]

Contents ==
  { <<>> }
  \cup {<<Mem(Usr, "dir")>> \o a : a \in AboutA}
  \cup {<<Mem(Usr, "dir")>> \o a \o <<Mem(C, "file")>> : a \in AboutA}
  \cup { <<Mem(Usr, "dir"), Mem(A, "file"), Link(C, "lnk", A)>>,
         Absolute(<<Mem(Usr, "dir"), Mem(A, "file"), Link(C, "lnk", <<"/">> \o A)>>),
         <<Mem(<<>>, "dir"), Mem(<<"f">>, "file"), Mem(<<".git">>, "file"),
           Mem(<<".gitignore">>, "file"),
           Mem(<<"dev">>, "dir"), Mem(<<"dev", "null">>, "file")>>,
         <<Mem(<<"img">>, "dir"), Mem(<<"img", "usr">>, "dir"), Mem(<<"img", "usr", "c">>, "file"),
           Link(<<"img", "usr", "a">>, "sym", <<"/", "usr", "c">>)>>,
         <<Mem(<<"..">>, "dir"), Mem(<<"..", "f">>, "file")>>,
         <<Mem(Usr, "dir"), Link(A, "sym", <<"..", "..", "..", "x">>)>>,
         <<Mem(<<"img">>, "dir"), Mem(<<"img", ".gitignore">>, "file"), Mem(<<"img", "ch">>, "dir"),
           Mem(<<"img", "ch", "environment">>, "file")>>,
         <<Mem(<<"img">>, "dir"), Mem(<<"img", "a">>, "file"),
           Link(<<"img", "c">>, "lnk", <<"img", "a">>)>> }
  \cup IF RootWhiteouts THEN {<<Mem(<<"f">>, "wh")>>} ELSE {}

\* The hash of a tarball identifies its contents.
MCHash == Contents
MCTar == [h \in Contents |-> h]
=============================================================================
