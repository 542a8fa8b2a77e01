---------------------------- MODULE MCGitPrepare ----------------------------
(* Instances of GitPrepare for TLC. *)
EXTENDS GitPrepare, TLC

CONSTANTS g, e, f, i, r, k, d, u   \* file names

\* .gitg/, .gitg/e/, .gitg/e/f, .gitg/.giti, var/lib/rpm/ with __db.k and d,
\* and u.
Paths == {<<g>>, <<g, e>>, <<g, e, f>>, <<g, i>>, <<r>>, <<r, k>>, <<r, d>>, <<u>>}
Pre  == << <<g>>, <<g, e>>, <<g, e, f>>, <<g, i>>, <<r>>, <<r, k>>, <<r, d>>, <<u>> >>
Post == << <<g, e, f>>, <<g, e>>, <<g, i>>, <<g>>, <<r, k>>, <<r, d>>, <<r>>, <<u>> >>
GitNames == {<<g>>, <<g, i>>}
DbNames  == {<<r, k>>}

Empty == [p \in Paths |-> None]
New(I, p, type) == IF type = "none" THEN I ELSE [I EXCEPT ![p] = File(p, type, 0, "low", 0)]
Dir(I, p) == New(I, p, "dir")

\* .gitg with a file in .gitg/e and another, u: a large file or a link to either.
GImages ==
    {New(New(Dir(Dir(Empty, <<g>>), <<g, e>>), <<g, e, f>>, a), <<g, i>>, b) :
        a \in {"none", "reg", "big", "fifo", "sock"}, b \in {"none", "reg", "big", "lnk", "fifo"}}
TImages ==
    GImages \cup {New(I, <<u>>, c) : I \in GImages, c \in {"big"}}
    \cup UNION {{[p \in Paths |-> IF p \in {q, <<u>>}
                                  THEN [I[q] EXCEPT !.links = {q, <<u>>}] ELSE I[p]]
                 : q \in {x \in {<<g, e, f>>, <<g, i>>} : I[x] # None}} : I \in GImages}

\* var/lib/rpm with a database, and perhaps another file.
RImages == {New(New(Dir(Empty, <<r>>), <<r, k>>, a), <<r, d>>, b) :
               a \in {"reg", "none"}, b \in {"reg", "lnk", "big", "none"}}

AllImages == TImages \cup RImages
NewFiles == {<<<<g, e, f>>, "reg">>, <<<<u>>, "fifo">>, <<<<g, i>>, "dir">>, <<<<r, k>>, "reg">>}
=============================================================================
