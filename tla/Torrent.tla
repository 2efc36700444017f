------------------------------- MODULE Torrent -----------------------------
(***************************************************************************)
(* The reference for the metafile parser: what a metafile says, and the    *)
(* content of the file that says so.  A sequence of symbols stands for the *)
(* content: the characters of Bencode, and one symbol for each text that   *)
(* the parser takes as a whole, so that the key info, 4:info in the file,  *)
(* is <<"1", ":", "info">> here.  Letters that mean nothing to the parser  *)
(* are "x".                                                                *)
(***************************************************************************)
EXTENDS Bencode, SequencesExt

CONSTANT Decimals       \* the lengths that there are, and how each is written

Lengths    == DOMAIN Decimals
Decimal(n) == Decimals[n]

\* The number that the digits say.
Said(digits) == FoldLeft(LAMBDA n, c : n * 10 + Digit[c], 0, digits)

ASSUME DecimalsAssumption ==
    /\ 1 \in Lengths /\ Decimal(1) = <<"1">>
    /\ \A n \in Lengths : /\ n \in Nat \ {0}
                           /\ Decimal(n) \in Seq(Digits) \ {<<>>}
                           /\ Said(Decimal(n)) = n

Text(s)   == Decimal(Len(s)) \o <<":">> \o s
Key(text) == Text(<<text>>)
Int_(n)   == <<"i">> \o Decimal(n) \o <<"e">>

\* One after the other what Encode makes of the elements of s.
Each(s, Encode(_)) == FlattenSeq([k \in DOMAIN s |-> Encode(s[k])])

Tier(urls) == <<"l">> \o Each(urls, Text) \o <<"e">>

File(f) ==
    <<"d">> \o Key("length") \o Int_(f.length)
        \o Key("path") \o <<"l">> \o Each(f.path, Text) \o <<"e">> \o <<"e">>

\* The value of info.  A metafile of one file has no files, and a length.
Info(m) ==
    <<"d">>
        \o (IF m.files = <<>> THEN Key("length") \o Int_(m.length)
            ELSE Key("files") \o <<"l">> \o Each(m.files, File) \o <<"e">>)
        \o Key("name") \o Text(m.name)
        \o Key("piece length") \o Int_(m.piece_length)
        \o Key("pieces") \o Text(m.pieces)
        \o <<"e">>

\* Keys are sorted.  Without tiers there is no announce-list.
Content(m) ==
    <<"d">> \o Key("announce") \o Text(m.announce)
        \o (IF m.tiers = <<>> THEN <<>>
            ELSE Key("announce-list") \o <<"l">> \o Each(m.tiers, Tier) \o <<"e">>)
        \o Key("comment") \o Text(m.comment)
        \o Key("info") \o Info(m)
        \o <<"e">>

\* What metafiles there are.  No text is empty, and no number is 0.
FileTexts == {s \in Seq(STRING) : Len(s) \in Lengths}
AllMetafiles ==
    [announce : FileTexts, tiers : Seq(Seq(FileTexts)), comment : FileTexts,
     files : Seq([length : Lengths, path : Seq(FileTexts)]), length : Lengths,
     name : FileTexts, piece_length : Lengths, pieces : FileTexts]

\* The texts in a metafile that are not keys.
TextsOf(m) ==
    {m.announce, m.comment, m.name, m.pieces}
        \cup (UNION {ToSet(m.tiers[k]) : k \in DOMAIN m.tiers})
        \cup (UNION {ToSet(m.files[k].path) : k \in DOMAIN m.files})

TotalLength(files) == FoldLeft(LAMBDA n, f : n + f.length, 0, files)

=============================================================================
