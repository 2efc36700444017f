---------------------------- MODULE TrackerClient --------------------------
(***************************************************************************)
(* net_client.c from connect_tracker on, with simple_tracker.c: the name   *)
(* and the port of the tracker are taken from the first url of the         *)
(* announce list, and info_hash goes into the request.  The rest of its    *)
(* way is that of StreamClients.                                           *)
(*                                                                         *)
(* Memory comes from malloc and the stack as it is: fill is what every     *)
(* byte of it that nobody wrote has, and tmp what the number that a port   *)
(* is read into begins with.                                               *)
(***************************************************************************)
EXTENDS StreamClients

CONSTANTS
    AnnounceSize,       \* of the array annouce
    Givens,             \* records of the given variables
    EncodedSize         \* of encoded_info_hash

ASSUME TrackerAssumption ==
    /\ {AnnounceSize, EncodedSize} \subseteq Nat
    /\ \A g \in Givens :
        g.info_hash \in Seq(0 .. 255) /\ 3 * Len(g.info_hash) < EncodedSize

VARIABLES
    url, fill, tmp, info_hash,          \* given
    annouce,                            \* the array in the announce list
    name, offset, port,                 \* of the tracker
    encoded                             \* info_hash in the request

trackerVars == <<streamVars, url, fill, tmp, info_hash, annouce, name, offset, port, encoded>>
givenVars   == <<url, fill, tmp, info_hash, annouce>>

Digits   == <<"0", "1", "2", "3", "4", "5", "6", "7", "8", "9">>
Digit(d) == (CHOOSE n \in 1 .. 10 : Digits[n] = d) - 1
NUL      == "NUL"

\* A url says [scheme, host, port, path]; a port may be missing.
Text(u) == u.scheme \o <<":", "/", "/">> \o u.host
              \o (IF u.port = <<>> THEN <<>> ELSE <<":">> \o u.port) \o u.path

Number(digits) == FoldLeft(LAMBDA n, d : n * 10 + Digit(d), 0, digits)

\* A scheme and a host have none of the characters that end them, a port is a
\* number of 16 bits, and a url and its NUL have room in the array.
ASSUME UrlsAssumption ==
    \A g \in Givens :
        /\ {g.url.scheme, g.url.host, g.url.port, g.url.path} \subseteq Seq(STRING)
        /\ (ToSet(g.url.scheme) \cup ToSet(g.url.host)) \cap {"/", ":", NUL} = {}
        /\ ToSet(g.url.port) \subseteq ToSet(Digits) /\ Number(g.url.port) < 65536
        /\ g.url.path # <<>> => g.url.path[1] = "/"
        /\ Len(Text(g.url)) < AnnounceSize

\* The array is followed by next, which is NULL.
At(c) == IF c < AnnounceSize THEN annouce[c + 1] ELSE NUL

TrackerInit ==
    /\ StreamInit
    /\ \E g \in Givens :
        url = g.url /\ fill = g.fill /\ tmp = g.tmp /\ info_hash = g.info_hash
    /\ LET text == Text(url) \o <<NUL>>
       IN  annouce = [k \in 1 .. AnnounceSize |-> IF k <= Len(text) THEN text[k] ELSE fill]
    /\ name = <<>> /\ offset = 0 /\ port = 0 /\ encoded = <<>>

-----------------------------------------------------------------------------
\* The first position from c on with a character of S, or AnnounceSize.
SkipTo(S, c) ==
    CHOOSE p \in c .. AnnounceSize :
        /\ p = AnnounceSize \/ At(p) \in S
        /\ \A q \in c .. p - 1 : At(q) \notin S

\* Variant: one '/' is skipped.
Slashes_One == 1
Slashes == 2

\* What is copied from c on, and the ':' that ends it if there is one.
NameFrom[c \in Nat] ==
    LET k == IF At(c) = "/" THEN c + Slashes ELSE c
    IN  IF c >= AnnounceSize THEN <<>>
        ELSE IF At(k) = ":" THEN <<":">>
        ELSE <<At(k)>> \o NameFrom[k + 1]

get_tracker_name == NameFrom[SkipTo({"/"}, 0)]

\* What a function that takes text up to NUL makes of a buffer.
CString(s) ==
    LET k == SelectInSeq(s, LAMBDA c : c = NUL)
    IN  IF k # 0 THEN SubSeq(s, 1, k - 1)
        ELSE IF fill = NUL THEN s ELSE Append(s, "garbage")

\* Variant: the search for the port begins where the url does.
Offset_None(copied) == 0
\* One more than the length of the name, where its end in the url was meant.
Offset(copied) == Len(copied)

GetsName ==
    /\ streamAt = "name" /\ streamAt' = "port"
    /\ LET copied == get_tracker_name
       IN  IF copied # <<>> /\ Last(copied) = ":"
           THEN name' = CString(Front(copied)) /\ offset' = Offset(copied)
           ELSE name' = CString(copied) /\ offset' = 0
    /\ UNCHANGED <<conn, request, answered, toClient, printVars, givenVars, port, encoded>>

Short(n) == n % 65536
Value(from, to) ==
    FoldLeft(LAMBDA n, d : Short(n * 10 + Digit(d)), tmp, SubSeq(annouce, from + 1, to))

\* Without a ':' the port stays 0.
get_tracker_port ==
    LET colon == SkipTo({":"}, offset)
        end   == CHOOSE p \in colon + 1 .. AnnounceSize + 1 :
                    /\ At(p) \notin ToSet(Digits)
                    /\ \A q \in colon + 1 .. p - 1 : At(q) \in ToSet(Digits)
    IN  IF colon = AnnounceSize THEN 0 ELSE Value(colon + 1, end)

GetsPort ==
    /\ streamAt = "port"
    /\ port' = get_tracker_port
    /\ streamAt' = IF port' = 0 THEN "failed" ELSE "connect"
    /\ UNCHANGED <<conn, request, answered, toClient, printVars, givenVars, name, offset, encoded>>

-----------------------------------------------------------------------------
Between(from, to) == {b \in 0 .. 255 : b >= from /\ b < to}

\* The characters that are sent as they are: the comparisons leave out 'Z',
\* 'z' and '9', which are sent as numbers.
Plain == Between(65, 90) \cup Between(97, 122) \cup Between(48, 57) \cup {46, 45, 95, 42}

Hex(n) == IF n < 10 THEN 48 + n ELSE 55 + n

\* Variant: '+' is sent as it is.
EncodeByte_Plus(b) ==
    IF b \in Plain \cup {43} THEN <<b>>
    ELSE IF b = 32 THEN <<43>>
    ELSE <<37, Hex(b \div 16), Hex(b % 16)>>
EncodeByte(b) ==
    IF b \in Plain THEN <<b>>
    ELSE IF b = 32 THEN <<43>>
    ELSE <<37, Hex(b \div 16), Hex(b % 16)>>

\* There is room for every byte as three (TrackerAssumption), so that the
\* function never gives up.
http_encode(str) == FlattenSeq([k \in DOMAIN str |-> EncodeByte(str[k])])

\* A host of another name does not exist.
ConnectsToTracker == name = url.host /\ Connects

CreatesRequest == encoded' = http_encode(info_hash) /\ SendsRequest

TrackerStep ==
    \/ GetsName \/ GetsPort
    \/ CreatesRequest /\ UNCHANGED <<givenVars, name, offset, port>>
    \/ /\ ConnectFails \/ ConnectsToTracker \/ Reads \/ ReadFails \/ ReadsEnd \/ Closes
       /\ UNCHANGED <<givenVars, name, offset, port, encoded>>

TrackerNext ==
    \/ sample = "net_client" /\ UNCHANGED <<sample, answer>>
       /\ \/ TrackerStep
          \/ (ServerStep \/ GivesUp \/ Resets) /\ UNCHANGED <<givenVars, name, offset, port, encoded>>
    \/ sample # "net_client" /\ StreamNext /\ UNCHANGED <<givenVars, name, offset, port, encoded>>

\* The three clients alone: what their fairness adds is for ClientsEnd only.
TrackerSpec == TrackerInit /\ [][TrackerNext]_<<sample, trackerVars>>

TrackerFairness ==
    /\ StreamFairness
    /\ WF_trackerVars(sample = "net_client" /\ TrackerStep /\ UNCHANGED answer)

-----------------------------------------------------------------------------
\* From a url with a port the name and the port of the tracker are read, if the
\* memory is clean where nobody wrote, and if the name is not shorter than what
\* is before the first ':' of the url, where the search would find that one.
NameAndPortAreRead ==
    sample = "net_client" /\ streamAt \notin {"name", "port"} /\ fill = NUL /\ tmp = 0
      /\ url.port # <<>> /\ Len(url.host) >= Len(url.scheme)
        => name = url.host /\ port = Number(url.port)

\* What the server reads in a text of percent codes.
HexDigit(b) == IF b < 58 THEN b - 48 ELSE b - 55
Decoded[s \in Seq(0 .. 255)] ==
    IF s = <<>> THEN <<>>
    ELSE IF s[1] = 37 THEN <<16 * HexDigit(s[2]) + HexDigit(s[3])>> \o Decoded[SubSeq(s, 4, Len(s))]
    ELSE <<IF s[1] = 43 THEN 32 ELSE s[1]>> \o Decoded[Tail(s)]

\* The tracker gets the hash that the parser computed, whatever bytes it has.
HashIsSent == sample = "net_client" /\ encoded # <<>> => Decoded[encoded] = info_hash

=============================================================================
