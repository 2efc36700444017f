------------------------------ MODULE Metafile -----------------------------
(***************************************************************************)
(* The metafile parser of the tracker demo, Demo/trackerDemo/parser.c: its *)
(* functions share the content of the file and a set of globals.  Three    *)
(* programs call them: "main" is that of net_client.c up to the connection *)
(* with the tracker, "any" calls each function whenever it likes, and      *)
(* "hash" only hashes, any content behind the key info.                    *)
(*                                                                         *)
(* get_info_hash goes on step by step, as in InfoHash; every other         *)
(* function is one step.                                                   *)
(***************************************************************************)
EXTENDS Torrent

CONSTANTS
    Contents,           \* what follows the key info, for "hash"
    Metafiles,          \* what the metafiles say
    Urls,               \* what add_an_announce is called with
    MaxCalls,           \* bound: the calls of "any"
    AnnounceSize,       \* the characters of annouce, 128 in the code
    PathSize,           \* and of path, 256
    LongLimit           \* 2^63: the first number that is no long long

ASSUME ContentsAssumption == Contents \subseteq Seq(Characters)
ASSUME MetafilesAssumption == Metafiles \subseteq AllMetafiles
ASSUME SizesAssumption == {AnnounceSize, PathSize} \subseteq Nat \ {0}
ASSUME LongLimitAssumption == LongLimit \in Nat \ {0}

VARIABLES
    content, pc, begin, i, push_pop, info_hash,         \* as in InfoHash
    caller, calls,      \* the program, and the calls it has made
    metafile,           \* what the file says, or "none"
    loaded,             \* metafile_content # NULL
    announce_list, files, file_length,
    muti_file, piece_length, piece, file_name,
    wild,               \* the last of files has what malloc left in next
    state               \* "runs", "done", "crashed" or "released"

hashVars == <<content, pc, begin, i, push_pop, info_hash>>
progVars == <<caller, calls, metafile, loaded, state>>
listVars == <<announce_list, files, wild>>
dataVars == <<file_length, muti_file, piece_length, piece, file_name>>
vars     == <<hashVars, progVars, listVars, dataVars>>

Hash == INSTANCE InfoHash WITH InitialCount <- {0}, FirstDigits <- Digits

At(c)   == Hash!At(c)
filesize == IF loaded THEN Hash!filesize ELSE 0

-----------------------------------------------------------------------------
NotFound == -1          \* find_keyword returned 0
NoFile   == -2          \* or -1: the key is longer than the file

KeyAt(text, c) == \A k \in 1 .. 3 : At(c + k - 1) = Key(text)[k]

find_keyword(text) ==
    IF filesize = 0 THEN NoFile
    ELSE LET found == {c \in 0 .. filesize - 3 : KeyAt(text, c)}
         IN  IF found = {} THEN NotFound ELSE CHOOSE c \in found : \A d \in found : c <= d

\* What follows the key.
After(text)  == find_keyword(text) + Len(Key(text))
Found(text)  == find_keyword(text) >= 0

Number(a, b)      == Hash!Number(a, b)
DigitsEnd(c)      == Hash!SkipWhile(Digits, c)
CharsFrom(c, len) == [k \in 1 .. len |-> At(c + k - 1)]

\* What a symbol adds to a number: what is not of B code counts as 'x'.
Value(symbol) ==
    IF symbol \in Characters THEN Digit[symbol] ELSE IF symbol = Hash!NUL THEN -48 ELSE 72

\* n with digits of these values put behind it, and with what is from a to before b.
Behind(n, values)   == FoldLeft(LAMBDA m, value : m * 10 + value, n, values)
NumberFrom(n, a, b) == Behind(n, [k \in 1 .. b - a |-> Value(At(a + k - 1))])

\* The text that begins with its length at c, and where it ends.
TextAt(c)  == CharsFrom(DigitsEnd(c) + 1, Number(c, DigitsEnd(c)))
TextEnd(c) == DigitsEnd(c) + 1 + Number(c, DigitsEnd(c))

\* Variant: 'l' is skipped once for all tiers.
TierUrl_First(c) == c
\* The url of the tier at c: behind 'l'.
TierUrl(c) == c + 1

\* The urls of the tiers from c on, one of each, and -1 if the loop ended so.
\* The character behind a url is skipped, whatever it is.
Tiers[c \in Nat] ==
    LET u == TierUrl(c)
        next == TextEnd(u) + 1
        rest == Tiers[next]
        urls == IF At(DigitsEnd(u) + 1) = "http" THEN <<TextAt(u)>> ELSE <<>>
    IN  IF At(c) = "e" THEN [urls |-> <<>>, code |-> 0]
        ELSE IF c >= filesize \/ At(DigitsEnd(u)) # ":" THEN [urls |-> <<>>, code |-> -1]
        ELSE IF next > filesize THEN [urls |-> urls, code |-> -1]
        ELSE [rest EXCEPT !.urls = urls \o @]

\* Nobody compares the length of a url with the room for it in a node, where
\* annouce has next behind it, which is assigned after the url.
PointerSize     == 8
Kept(url)       == IF Len(url) < AnnounceSize THEN url ELSE SubSeq(url, 1, AnnounceSize)
LeavesNode(url) == Len(url) >= AnnounceSize + PointerSize

\* What is behind a node is spoiled: an allocation may crash on it.
Store(urls) ==
    state' \in {state} \cup (IF \E k \in DOMAIN urls : LeavesNode(urls[k]) THEN {"crashed"} ELSE {})

NewUrls ==
    IF Found("announce-list") THEN Tiers[After("announce-list") + 1].urls
    ELSE IF find_keyword("announce-list") = NotFound /\ Found("announce")
         THEN <<TextAt(After("announce"))>>
         ELSE <<>>

\* The one url of announce replaces the list; those of announce-list go to its
\* end.
read_announce_list ==
    /\ announce_list' =
        (IF Found("announce-list") \/ NewUrls = <<>> THEN announce_list ELSE <<>>)
            \o [k \in DOMAIN NewUrls |-> Kept(NewUrls[k])]
    /\ Store(NewUrls)
    /\ UNCHANGED <<hashVars, files, wild, dataVars, metafile, loaded>>

\* The text in a node: a url that fills annouce is ended by a next that is NULL,
\* and goes on in any other.
AnnounceOf(k) ==
    IF Len(announce_list[k]) = AnnounceSize /\ k < Len(announce_list)
    THEN Append(announce_list[k], "next") ELSE announce_list[k]

add_an_announce(url) ==
    /\ IF \E k \in DOMAIN announce_list : AnnounceOf(k) = url
       THEN UNCHANGED <<announce_list, state>>
       ELSE announce_list' = Append(announce_list, Kept(url)) /\ Store(<<url>>)
    /\ UNCHANGED <<hashVars, files, wild, dataVars, metafile, loaded>>

is_muti_files ==
    /\ muti_file' = IF Found("files") THEN 1 ELSE muti_file
    /\ UNCHANGED <<hashVars, listVars, file_length, piece_length, piece, file_name,
                   metafile, loaded, state>>

-----------------------------------------------------------------------------
\* The key is spelled 12:piece_length; what it finds is added as digits.
get_piece_length ==
    /\ piece_length' =
        IF Found("piece_length")
        THEN LET c == After("piece_length") + 1
                 e == Hash!SkipTo("e", c)
             IN  NumberFrom(piece_length, c, e)
        ELSE piece_length
    /\ UNCHANGED <<hashVars, listVars, file_length, muti_file, piece, file_name,
                   metafile, loaded, state>>

\* Each symbol from c to before ':' is put behind the same number.
LastDigit(number, c, without) ==
    LET e == Hash!SkipTo(":", c) IN IF e = c THEN without ELSE NumberFrom(number, e - 1, e)

\* The length goes to piece_length; pieces_length stays 0, so does the piece.
get_pieces ==
    /\ IF Found("pieces")
       THEN piece_length' = LastDigit(0, After("pieces"), piece_length) /\ piece' = <<>>
       ELSE UNCHANGED <<piece_length, piece>>
    /\ UNCHANGED <<hashVars, listVars, file_length, muti_file, file_name,
                   metafile, loaded, state>>

get_file_name ==
    /\ file_name' =
        IF Found("name")
        THEN LET c == After("name")
             IN  CharsFrom(Hash!SkipTo(":", c) + 1, LastDigit(piece_length, c, 0))
        ELSE file_name
    /\ UNCHANGED <<hashVars, listVars, file_length, muti_file, piece_length, piece,
                   metafile, loaded, state>>

-----------------------------------------------------------------------------
\* Variant: len still holds the length of the path before.
FirstLen_Kept == 1
FirstLen == 0

\* What malloc left in the length of a file that says none, and what is in it
\* under the end of a path that is too long.
Unassigned == 48
Spoiled    == 120

ULong(n) == n % (2 * LongLimit)
Long(n)  == ((n + LongLimit) % (2 * LongLimit)) - LongLimit

\* The files from c on.  Of a path only the first part is read: with more, the
\* loop goes on between them, finds no path and returns -1.
FileList[c \in Nat] ==
    LET hasLength == KeyAt("length", c + 1)
        number == c + 1 + Len(Key("length")) + 1
        e == Hash!SkipTo("e", number)
        p == IF hasLength THEN e + 1 ELSE c + 1
        path == p + Len(Key("path")) + 1
        length == IF hasLength THEN ULong(NumberFrom(FirstLen, number, e)) ELSE Unassigned
        file == [length |-> IF Len(TextAt(path)) > PathSize THEN Spoiled ELSE length,
                 path |-> TextAt(path)]
    IN  IF At(c) = "e" \/ ~KeyAt("path", p) THEN <<>>
        ELSE <<file>> \o FileList[TextEnd(path) + 2]

\* The first of new files whose next is other than NULL, 0 for none: as malloc
\* gave it, or under the end of a path that is longer than length, too.
Dirty(new) ==
    {d \in 0 .. Len(new) :
        \A k \in DOMAIN new : Len(new[k].path) > PathSize + PointerSize => d \in 1 .. k}

\* New files go to the end of the list.  A walk past a dirty one crashes.
AddFiles(new, dirty) ==
    IF new = <<>> THEN UNCHANGED <<files, wild, state>>
    ELSE IF wild \/ dirty \in 1 .. Len(new) - 1
    THEN state' = "crashed" /\ UNCHANGED <<files, wild>>
    ELSE files' = files \o new /\ wild' = (dirty # 0) /\ UNCHANGED state

NewFiles == IF Found("files") THEN FileList[After("files") + 1] ELSE <<>>

get_files_length_path ==
    /\ \E dirty \in Dirty(NewFiles) : AddFiles(NewFiles, dirty)
    /\ UNCHANGED <<hashVars, announce_list, dataVars, metafile, loaded>>

\* What the digits of a single file's length become, and what is added for
\* each: the comparison is an assignment.
LetterE == 101
Overwritten(from, to) ==
    [k \in DOMAIN content |-> IF k - 1 \in from .. to - 1 THEN "e" ELSE content[k]]

SingleLength ==
    LET c == After("length") + 1
        e == Hash!SkipTo("e", c)
    IN  /\ content' = Overwritten(c, e)
        /\ file_length' = Long(Behind(file_length, [k \in 1 .. e - c |-> LetterE]))

\* Both the walk that links a file and the one that adds up the lengths crash
\* at a next that is not NULL.
LengthOfAll ==
    LET all == IF files = <<>> THEN NewFiles ELSE files
    IN  \E dirty \in IF files = <<>> THEN Dirty(all) ELSE {IF wild THEN 1 ELSE 0} :
            IF dirty # 0 THEN state' = "crashed" /\ UNCHANGED <<files, wild, file_length>>
            ELSE /\ files' = all /\ wild' = FALSE
                 /\ file_length' = Long(file_length + TotalLength(all))
                 /\ UNCHANGED state

get_file_length ==
    /\ IF Found("files")
       THEN muti_file' = 1 /\ LengthOfAll /\ UNCHANGED content
       ELSE /\ UNCHANGED <<muti_file, files, wild>>
            \* That there is no file is taken for a success.
            /\ IF find_keyword("length") = NoFile
               THEN state' = "crashed" /\ UNCHANGED <<content, file_length>>
               ELSE /\ IF Found("length") THEN SingleLength ELSE UNCHANGED <<content, file_length>>
                    /\ UNCHANGED state
    /\ UNCHANGED <<pc, begin, i, push_pop, info_hash, announce_list, metafile, loaded,
                   piece_length, piece, file_name>>

-----------------------------------------------------------------------------
read_metafile ==
    /\ \E opened \in BOOLEAN :
        IF opened THEN content' = Content(metafile) /\ loaded' = TRUE
        ELSE UNCHANGED <<content, loaded>>
    /\ UNCHANGED <<pc, begin, i, push_pop, info_hash, listVars, dataVars, metafile, state>>

\* get_info_hash up to its loop.
get_info_hash ==
    /\ IF Found("info")
       THEN /\ begin' = After("info") /\ i' = begin'
            /\ push_pop' = 0 /\ pc' = "scan"
       ELSE pc' = "failed" /\ UNCHANGED <<begin, i, push_pop>>
    /\ UNCHANGED <<content, info_hash, listVars, dataVars, metafile, loaded, state>>

get_peer_id == UNCHANGED <<hashVars, listVars, dataVars, metafile, loaded, state>>

\* The pointers to what was freed stay; a program calls nothing after it.
release_memory_in_parse_metafile ==
    /\ state' = IF wild THEN "crashed" ELSE "released"
    /\ announce_list' = <<>> /\ files' = <<>>
    /\ UNCHANGED <<hashVars, wild, dataVars, metafile, loaded>>

\* Variant: the length is read before the hash is computed.
MainOrder_LengthFirst ==
    <<"read_metafile", "read_announce_list", "get_file_length", "get_info_hash", "get_peer_id">>
\* The calls of main in net_client.c.
MainOrder ==
    <<"read_metafile", "read_announce_list", "get_info_hash", "get_peer_id", "get_file_length">>

\* The program calls a function once the one before has returned.
Call(function) ==
    /\ state = "runs" /\ pc # "scan"
    /\ \/ caller = "main" /\ calls < Len(MainOrder) /\ MainOrder[calls + 1] = function
       \/ caller = "any" /\ calls < MaxCalls
    /\ calls' = calls + 1
    /\ UNCHANGED caller

\* main returns -1 without a tracker.
HasTracker == caller = "main" => announce_list # <<>>

NoTracker ==
    /\ Call("get_file_length") /\ ~HasTracker
    /\ state' = "done"
    /\ UNCHANGED <<hashVars, listVars, dataVars, metafile, loaded>>

MainGoesOn ==
    /\ caller = "main" /\ state = "runs" /\ pc # "scan" /\ calls = Len(MainOrder)
    /\ state' = "done"
    /\ UNCHANGED <<hashVars, listVars, dataVars, caller, calls, metafile, loaded>>

ScanStep ==
    /\ pc = "scan"
    /\ Hash!Next
    /\ UNCHANGED <<progVars, listVars, dataVars>>

Ended ==
    /\ pc # "scan"
    /\ \/ state # "runs" \/ caller = "hash"
       \/ caller = "any" /\ calls = MaxCalls
    /\ UNCHANGED vars

Init ==
    /\ \/ caller = "hash" /\ metafile = "none" /\ loaded = TRUE /\ Hash!Init
       \/ /\ caller \in {"main", "any"} /\ metafile \in Metafiles /\ loaded = FALSE
          /\ content = <<>> /\ pc = "idle" /\ begin = 0 /\ i = 0 /\ push_pop = 0
          /\ info_hash = <<>>
    /\ calls = 0 /\ state = "runs"
    /\ announce_list = <<>> /\ files = <<>> /\ wild = FALSE
    /\ file_length = 0 /\ muti_file = 0 /\ piece_length = 0
    /\ piece = <<>> /\ file_name = <<>>

Next ==
    \/ Call("read_metafile") /\ read_metafile
    \/ Call("read_announce_list") /\ read_announce_list
    \/ Call("add_an_announce") /\ \E url \in Urls : add_an_announce(url)
    \/ Call("is_muti_files") /\ is_muti_files
    \/ Call("get_piece_length") /\ get_piece_length
    \/ Call("get_pieces") /\ get_pieces
    \/ Call("get_file_name") /\ get_file_name
    \/ Call("get_files_length_path") /\ get_files_length_path
    \/ Call("get_file_length") /\ HasTracker /\ get_file_length
    \/ Call("get_info_hash") /\ get_info_hash
    \/ Call("get_peer_id") /\ get_peer_id
    \/ Call("release") /\ release_memory_in_parse_metafile
    \/ NoTracker \/ MainGoesOn \/ ScanStep \/ Ended

\* A sequential program takes its next step.
Spec == Init /\ [][Next]_vars /\ WF_vars(Next)

-----------------------------------------------------------------------------
TypeOK ==
    /\ pc \in {"idle", "scan", "hashed", "failed", "overrun"}
    /\ state \in {"runs", "done", "crashed", "released"}
    /\ begin \in Nat /\ i \in Nat /\ push_pop \in Int
    /\ calls \in Nat /\ file_length \in Int /\ piece_length \in Int
    /\ muti_file \in {0, 1} /\ {loaded, wild} \subseteq BOOLEAN
    /\ pc = "hashed" => info_hash # <<>>
    /\ caller = "hash" => (pc = "hashed" <=> info_hash # <<>>)

\* For any content: what is hashed behind the key info is one value, all of it
\* and nothing that follows, whatever the strings in it hold.
HashedIsOneValue == caller = "hash" => Hash!HashedIsOneValue

\* And a value of B code there is hashed.
InfoIsHashed == caller = "hash" /\ Hash!WellFormed => <>(pc = "hashed")

\* A key that a string before the real one holds is found in its place.
Keywords == {"announce-list", "announce", "info", "files", "length", "name"}
KeysAreKeys == \A text \in TextsOf(metafile) : ToSet(text) \cap Keywords = {}

\* The hash that net_client sends to the tracker is that of the value of info
\* in the file, and so is any other as long as the parser has not overwritten
\* the file: reading the length of a single file destroys it.
HashIsOfInfo ==
    [][(/\ caller # "hash" /\ pc' = "hashed" /\ pc = "scan" /\ KeysAreKeys
        /\ (caller = "main" \/ content = Content(metafile)))
            => info_hash' = Info(metafile)]_vars

\* For one url in each tier, and urls that fit annouce: what main read of the
\* trackers is every http url of the file in its order, or the one of announce
\* if there are no tiers.
AnnouncedUrls ==
    IF metafile.tiers = <<>> THEN <<metafile.announce>>
    ELSE FlattenSeq([k \in DOMAIN metafile.tiers |->
             IF metafile.tiers[k][1][1] = "http" THEN metafile.tiers[k] ELSE <<>>])
OneUrlEach == \A k \in DOMAIN metafile.tiers : Len(metafile.tiers[k]) = 1
UrlsFit ==
    \A url \in {metafile.announce} \cup UNION {ToSet(metafile.tiers[k]) : k \in DOMAIN metafile.tiers} :
        Len(url) < AnnounceSize

TrackersAreRead ==
    caller = "main" /\ calls > 1 /\ loaded /\ KeysAreKeys /\ OneUrlEach /\ UrlsFit =>
        announce_list = AnnouncedUrls

\* What main tells the tracker is left of several files is the sum of their
\* lengths, as long as their paths have one part that fits path, and the
\* lengths and their sum fit a long long.
FilesFit ==
    /\ \A k \in DOMAIN metafile.files :
        /\ Len(metafile.files[k].path) = 1 /\ Len(metafile.files[k].path[1]) <= PathSize
        /\ metafile.files[k].length < LongLimit
    /\ TotalLength(metafile.files) < LongLimit

LengthOfFilesIsRead ==
    caller = "main" /\ state = "done" /\ calls = Len(MainOrder) /\ KeysAreKeys
      /\ announce_list # <<>> /\ metafile.files # <<>> /\ FilesFit =>
        /\ file_length = TotalLength(metafile.files)
        /\ Len(files) = Len(metafile.files)

\* The types, and what main read of the trackers and of the files.
ReadInv == TypeOK /\ TrackersAreRead /\ LengthOfFilesIsRead

=============================================================================
