---------------------------- MODULE MCInfoHash -----------------------------
(***************************************************************************)
(* InfoHash for TLC: every list and dictionary of B code of up to          *)
(* MaxLength characters with each of a few ends of the metafile after it,  *)
(* and every other content of up to four characters.                       *)
(***************************************************************************)
EXTENDS InfoHash

\* The end of the metafile alone, and after one more key and its value.
Tails == {<<"e">>, <<"1", ":", "e", "1", ":", "d", "e">>}

MCContents ==
    {v \o t : v \in {u \in Values : u[1] \in {"d", "l"}}, t \in Tails}
        \cup UNION {[1 .. n -> Characters] : n \in 1 .. 4}

MCGarbage == {-1, 0, 1}

\* 2, the largest digit that there is, stands for 9.
MCNotTheLast == {"1"}

=============================================================================
