------------------------------- MODULE MCCopy -------------------------------
(* Contexts and images in which every kind of entry meets every other.     *)
EXTENDS Copy, TLC

Dir(v) == [k |-> "dir", v |-> <<v>>]
File(v) == [k |-> "file", v |-> <<v>>]
Sym(v) == [k |-> "sym", v |-> v]
X == <<"x">>
XY == <<"x", "y">>

MCNames == {"x", "y", "z", "s", "t", "d", "f", "ls", "lx", "lout", "lgone", "ld", "lld", "lf",
            "lnew", "new", "loop", "gone", "host", "image", "w", "no"}

\* What can be below a directory d, at d/x.
Under(d, kind, v) ==
  IF kind = "none" THEN << >>
  ELSE IF kind = "full" THEN (d \o X :> Dir(v)) @@ (d \o XY :> File(v))
  ELSE IF kind = "deep" THEN (d \o X :> Dir(v)) @@ (d \o XY :> Dir(v)) @@ (d \o XY \o X :> File(v))
  ELSE IF kind = "link" THEN d \o X :> Sym(<<"z">>)
  ELSE IF kind = "into" THEN d \o X :> Sym(<<"z", "y">>)
  ELSE IF kind = "out" THEN d \o X :> Sym(<<"/", "host">>)
  ELSE IF kind = "gone" THEN d \o X :> Sym(<<"/", "image">>)
  ELSE d \o X :> [k |-> kind, v |-> <<v>>]

Kinds == {"none", "file", "dir", "full", "deep", "link", "out"}

\* Directories s and t, file x, and links to them and to elsewhere.
MCContexts ==
  {Under(<<"s">>, a, "s") @@ Under(<<"t">>, b, "t")
   @@ (<< >> :> Dir("c")) @@ (<<"s">> :> Dir("s")) @@ (<<"t">> :> Dir("t"))
   @@ (<<"s", "z">> :> File("s")) @@ (X :> File("c"))
   @@ (<<"ls">> :> Sym(<<"s">>)) @@ (<<"lx">> :> Sym(X))
   @@ (<<"lout">> :> Sym(<<"/", "host">>)) @@ (<<"lgone">> :> Sym(<<"gone">>)) :
     a \in Kinds \cup {"fifo"}, b \in {"none", "file", "full"}}

\* A directory d with something at d/x and at d/z; links to it.
AtZ == {<< >>, <<"d", "z">> :> File("i"),
        (<<"d", "z">> :> Dir("i")) @@ (<<"d", "z", "y">> :> File("i"))}
MCImages ==
  {Under(<<"d">>, a, "i") @@ z
   @@ (<< >> :> Dir("i")) @@ (<<"d">> :> Dir("i")) @@ (<<"f">> :> File("i"))
   @@ (<<"ld">> :> Sym(<<"/", "d">>)) @@ (<<"lld">> :> Sym(<<"ld">>))
   @@ (<<"lf">> :> Sym(<<"f">>)) @@ (<<"lnew">> :> Sym(<<"new">>))
   @@ (<<"loop">> :> Sym(<<"loop">>)) :
     a \in Kinds \cup {"gone", "into"}, z \in AtZ}

Dests == {<<"/", "d">>, <<"d">>, <<"/", "d", "x">>, <<"/", "f">>, <<"/", "f", "x">>,
          <<"/", "ld">>, <<"/", "lld">>, <<"/", "lf">>, <<"/", "lnew">>, <<"/", "loop">>, <<"/">>}
Sources == {<<X>>, <<<<"s">>>>, <<<<"ls">>>>, <<<<"lx">>>>, <<<<"s">>, <<"t">>>>,
            <<<<"t">>, X>>, <<X, <<"lx">>>>, <<<<"lout">>>>, <<<<"lgone">>>>, <<<<"no">>>>}
MCInstrs == [srcs : Sources, dst : Dests, slash : BOOLEAN, base : {TRUE}]
            \cup [srcs : {<<X>>}, dst : {<<"/", "d">>}, slash : {FALSE}, base : {FALSE}]
MCWorkdir == <<"/", "w">>
MCHostFiles == {<<"/", "host">>}
=============================================================================
