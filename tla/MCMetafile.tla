----------------------------- MODULE MCMetafile ----------------------------
(***************************************************************************)
(* Metafile for TLC.  For "hash": every list and dictionary of B code of   *)
(* up to MaxLength characters with each of a few ends of the metafile      *)
(* after it, and every other content of up to four characters.  For the    *)
(* other programs: metafiles with no, one or more tiers, tiers of one or   *)
(* two urls, one file or two, and a comment that holds a key; and some     *)
(* with urls that fill annouce or leave it, with paths that reach length   *)
(* or next, and with lengths that wrap.                                    *)
(***************************************************************************)
EXTENDS Metafile

MCDecimals ==
    1 :> <<"1">> @@ 2 :> <<"2">>
        @@ 11 :> <<"1", "1">> @@ 12 :> <<"1", "2">> @@ 22 :> <<"2", "2">>

\* The end of the metafile alone, and after one more key and its value.
Tails == {<<"e">>, <<"1", ":", "e", "1", ":", "d", "e">>}

MCContents ==
    {v \o t : v \in {w \in Values : w[1] \in {"d", "l"}}, t \in Tails}
        \cup UNION {[1 .. n -> Characters] : n \in 1 .. 4}

\* The first symbol of a url is its protocol.
Url(protocol, host, n) == <<protocol, host>> \o [k \in 1 .. n - 2 |-> "x"]

tracker_a == Url("http", "a", 11)
tracker_b == Url("http", "b", 11)
tracker_u == Url("udp", "u", 11)
full_url  == Url("http", "c", 12)
long_url  == Url("http", "d", 22)

MCUrls == {tracker_a, full_url, long_url}

Name(n) == [k \in 1 .. n |-> "x"]

\* A comment that says nothing, and one with the key info in it.
Comments == {Name(2), <<"1", ":", "info">> \o Name(8)}

MCFile(length, parts, n) == [length |-> length, path |-> [k \in 1 .. parts |-> Name(n)]]
MCFiles ==
    {<<>>, <<MCFile(2, 1, 1)>>}
        \cup {<<MCFile(2, parts, 1), MCFile(1, 1, 1)>> : parts \in {1, 2}}

MCTiers ==
    {<<>>, <<<<tracker_a>>>>, <<<<tracker_u>>, <<tracker_a>>, <<tracker_b>>>>,
     <<<<tracker_a, tracker_b>>, <<tracker_b>>>>}

MCMetafile(announce, tiers, comment, mc_files) ==
    [announce |-> announce, tiers |-> tiers, comment |-> comment, files |-> mc_files,
     length |-> 12, name |-> Name(11), piece_length |-> 2, pieces |-> Name(12)]

MCMetafiles ==
    {MCMetafile(tracker_a, tiers, comment, mc_files) :
        tiers \in MCTiers, comment \in Comments, mc_files \in MCFiles}
    \cup {MCMetafile(long_url, tiers, Name(2), <<MCFile(2, 1, 1)>>) :
        tiers \in {<<>>, <<<<full_url>>, <<tracker_a>>>>, <<<<long_url>>, <<tracker_a>>>>}}
    \cup {MCMetafile(tracker_a, <<>>, Name(2), mc_files) :
        mc_files \in {<<MCFile(2, 1, 2), MCFile(1, 1, 1)>>, <<MCFile(2, 1, 12), MCFile(1, 1, 1)>>,
                     <<MCFile(11, 1, 1), MCFile(22, 1, 1)>>}}

=============================================================================
