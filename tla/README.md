# DLLib in TLA+

DLLib is an unfinished BitTorrent client in C (`Test/`), with a decoder of B code
(`BCode/`), demos and exercises. This directory holds TLA+ models of the parts that keep
state, TLC runs that check them on small instances, and TLAPS proofs of the results that
matter most. Everything is translated from the code; where code and comments disagree,
the model follows the code and a run shows the difference.

The client has no `main`, and its files do not link as they stand: `peer.h` is a copy of
`peer.c`, `bitfield.h` of `bitfield.c`, `policy.h` says `include` without `#`, and some
globals are spelled in two ways (`piece`/`pieces`, `pieces_lenght`/`pieces_length`,
`tracke`/`tracker`, `is_muti_files`/`is_multi_files`). The models take each pair for one
variable or function, and the create functions in the order files, cache, bitmap.

## 1. Inventory

| Part | State | Operations | Calls and shared state | Status |
|---|---|---|---|---|
| Piece cache, `Test/data.c` | list of cache nodes in groups of one piece each; `download_piece_num` | a slice arrives, a flush, a read of a piece, a release of read groups, a reset of all | writes files, sets bits, withdraws requests of peers, saves the bitmap | `Btcache` |
| Layout on disk, `Test/data.c` | the download's files and their descriptors | create, write a slice, read a slice | called by the cache | `DiskLayout` |
| Bitmap, `Test/bitfield.c` | one bit per piece; the bitmap file | create, get, set, all zero, all set, interested, count, save | read by the cache, sent to peers | `BitfieldOps`, `Interest` |
| Event loop, `Test/torrent.c` | four phase flags, five times | one turn: unchoke timers, connect to trackers, connect to peers, check both rounds | the arrays of sockets of `tracker.c` | `EventLoop` |
| Trackers, `Test/tracker.c` | sockets, connection states, peer addresses | prepare connections; write a request; classify a response | the loop; the announce list | `EventLoop`, partly |
| Peers, `Test/peer.c` | linked list of peers, their buffers and requests | add, delete, cancel requests, release all | walked by cache and policy | `PeerList` |
| Messages, `Test/message.c` | `out_msg`, `msg_len` of a peer | seven create functions; parsing is empty | the peer's buffers | `OutMessages` |
| Metafile parser, `Demo/trackerDemo/parser.c` | the content, announce list, files, lengths, hash | find keys, read lists, files and lengths, hash `info`, release | sets the globals that `net_client.c` uses | `Torrent`, `Metafile`, `InfoHash` |
| Metafile parser, `Test/parser.c` | the same | an earlier version of the above | sets the globals of the client | `InfoHash`, partly |
| B code decoder, `BCode/BDecoder.c` | content, cursor, depth | four functions that call each other | none | `BDecoder` |
| Policy, `Test/policy.c` | unchoked peers | every function is an empty TODO | | not modelled |
| Tracker demo, `Demo/trackerDemo` | the tracker's name and port, the request, one socket | read the metafile, ask the first tracker once, print the answer | parser, SHA1, a tracker | `Metafile`, `TrackerClient`, `StreamClients` |
| HTTP demo, `Demo/httpDemo` | one socket | connect, ask, print | a web server | `StreamClients` |
| Hello, `netSample/` | one socket each | one answer, one read | each other | `StreamClients` |
| Storing echo server, `netSample/` | a child per client, a pipe, a logger's file | accept, echo, store, log | processes on one pipe, clients | `StoreServer` |
| Pipe, UDP echo, bound UDP, `netSample/` | two processes, a pipe or datagrams | write and read; ask and answer | each other | `PipeTalk`, `Datagrams` |
| SHA1, `hash/` and `Demo/trackerDemo/` (the same file) | block, length, hash, two flags | reset, input in portions, result | called by the parser | `Sha1` |
| SHA1, `Test/sha1.c` (third party) | | | | not modelled |
| Host names, `select.c`, the test driver | none | single calls | | not modelled |

Behaviours that are hard:

- **Cache and disk.** Slices arrive in any order, twice, late, corrupted or with the label of
  another; a piece is
  written once complete, into several files, in several calls of `write`, and the process
  may die between two of them. Groups are found by scans that look at one node, stop at the
  first hit or count the wrong thing; a group may be overwritten, loaded or released in
  between. Correct means: what reaches the disk is right, a piece is not spread over two
  groups, a cached read is not stale, and a request is not withdrawn before its slice is
  stored. The first and the last fail, and only fail, for a slice that was stored over one of
  another piece's group and passes that piece's hash.
- **Layout.** A slice ends inside, at or beyond the end of a file, beside empty files.
  Correct means: the files together are one linear image, whatever dies when.
- **Loop.** Trackers and peers are tried in rounds that share arrays and are told apart by
  flags and an interval timer; the flags are reset in some branches only. Correct means:
  rounds do not overlap, who does not answer is given up after a time, and no live socket is
  lost. A round with the peers never ends by itself: its flag is not reset.
- **Decoder and parser.** Functions share a cursor over nested data, each must leave it
  exactly behind its value. Correct means: one value is taken for each call, and the hash
  is over the value of `info` exactly.
  The demo's parser also finds keys by their text alone, reads lists by position, and one
  function overwrites the content that others read: what it tells the tracker depends on the
  order of the calls, and texts of any length go into arrays of fixed ones. Correct means: the
  hash, the trackers and the lengths of the files are those of the metafile.
- **Programs that talk.** Processes share a pipe, also with themselves; datagrams are lost,
  repeated and reordered; a peer leaves in the middle; a read returns a part, or fails without
  anyone looking. Correct means: an answer belongs to its question, what is echoed is stored,
  what is read is printed, and a program ends, or what it waits for is known.
- **SHA1.** Portions of any size meet blocks of one size; the length is carried over two words
  and does not always fit behind the last bytes. Correct means: what is hashed is the padded
  message of the standard, however it is cut.
- **Bitmap, peers, messages.** Bits after the last piece; deletions at the head, middle and
  end with allocations that fail; a buffer that is nearly full.

`PROJECT.json` lists every hazard at its line with the properties that cover it.

## 2. Modules and the code

Names of variables and actions are those of the code where TLA+ allows it. An operator whose
name is that of the next one with a suffix (`HashMatches_StopsEarly`) is a variant with a
plausible bug: no specification uses it, it is there to show that a property tells it from
the right one.

**`BitfieldOps`**: the bitmap operations as operators; a bitmap is the set of positions of
its 1 bits, bytes and all. `set_bit_value` shifts by an unassigned variable: every mask it
can give is in `SetBitOutcomes`.

**`Btcache`**: `cache[g][k]` is node k of group g of `btcache_head`; `disk[i][k]` slice k of
piece i. One action per entry: `write_slice_to_btcache` in its four branches (the slice
goes to the group of its piece, and that group may be complete and be written; or over a
fully used group; or everything is dropped), `write_btcache_to_harddisk`,
`release_read_btcache_node`, `read_piece_from_harddisk`, `Restart` and two crashes, in a
flush and in a slice's own flush, after any prefix of the writes. Each action includes the
whole handler: hash, writes, requests withdrawn, bits, count, save, reset. A slice that a peer
sends has any content under any label: that of another slice, which may be equal to it, one of
zeros as in an empty file, or one that is right nowhere (`Bad`). The hash compares the bytes of
a group with the piece of its first label only (`HashMatches`). The index of a
node from `malloc` is garbage (`HeapGarbage`), which matters since `is_a_complete_piece`
looks at groups not in use. `read_slice_for_send` and `create_req_slice_msg` are declared
and empty; the model takes from their callees and names what they must do: read a piece
into an unused group and only if no group holds it, count an access, ask for slices.
**`PieceStore`** is what this promises of the disk: groups of one slice per slot are written,
each slice with a label; those labelled like the first are stored, the others may be stored or
lost. `Btcache` implements it.

**`DiskLayout`**: opens up the disk of `Btcache`, one call of `write` per step, with the loop
over files, its three branches and a crash anywhere. **`LinearDisk`** is the linear image that
it implements.

**`EventLoop`**: a turn of `download_upload_with_peers` in five stages. Times are ages that
saturate. `connect` may be made, refused or in progress, sockets may be missing, allocation
may fail; the caller may not have allocated `tracker[]` and `valid[]` (nothing in the
repository does), and the arrays of peers get any length, since `count` is read before it is
assigned.

**`Bencode`**: the values of B code up to a length, the reference for the next two.
**`BDecoder`**: the calls of the four print functions as an explicit stack; `tab_cursor` is an
unsigned short of `TabLimit` numbers and wraps.
**`InfoHash`**: the loop of `get_info_hash`; two constants tell the parser of `Test/` from
the one of the tracker demo, which was corrected later.
**`Torrent`**: what a metafile says, and the content that says so; the texts that the parser
compares as a whole (`info`, `http`) are one symbol each.
**`Metafile`**: the demo's parser over such contents, one action per function and the steps of
`InfoHash` for the hash. `caller` is the program that calls it: `main` of `net_client.c`, any
program with up to `MaxCalls` calls, or one that only hashes any content behind the key.
Functions that follow a garbage pointer or run behind the content end in `crashed`. The arrays
`annouce` and `path` have their sizes (`AnnounceSize`, `PathSize`): what does not fit goes over
the field behind, and over the heap behind the node, and lengths wrap at `LongLimit`.

**`Interest`**: `is_interested` between changes of the two bitmaps.
**`PeerList`**: the linked list, its buffers and requests; it implements **`PeerSequence`**.
**`OutMessages`**: the create functions on `out_msg` and 20 bytes of heap behind it, as bytes,
and a reader of the stream. A message has all the numbers it was asked for with, and the bytes
are those that the code writes: a request's begin twice, a piece's index three times.
`MCPeers` runs the three; nothing in the repository calls one from another yet, so each
behaviour is of one of them (`part`).

**`Sha1`**: the context, with one action for each call and one for each turn of the loop of
`SHA1Input`; the bytes of the blocks processed stand for what `SHA1ProcessMessageBlock` makes
of them.
**`MessageDigest`** is what a context promises, and `Sha1` implements it. A message too
long is reported as 1, which is `shaNull`, since the code assigns the number and not the name
`shaInputTooLong`, and only by the next call (`TakeByte`, `SHA1Result`).

The programs that talk share the variable `sample` (**`Sample`**), which names the one that a
behaviour is about and never changes; `MCSamples` puts them together.
**`PipeTalk`**: the two
processes of `pipe2.c`.
**`StoreServer`**: the server, children and logger of
`echo_storeserv.c`, with clients that send, leave and reset at any time. The source does not
compile (two misspelt names, a handler without a definition); it is read as meant.
**`Datagrams`**: `udp_client.c` with `udp_server.c`, and `bound_udp_send.c` with
`bound_udp_recv.c`, over a network that is a bag of datagrams.
**`StreamClients`**: what
`net_client.c`, `connect_http.c` and `hello_client.c` do on a TCP stream, with servers that may
give up or reset. A print shows the buffer up to its first NUL, with what an earlier read or
the stack left behind the bytes just read.
**`TrackerClient`** extends it by what
`net_client.c` does before: name and port from the url, the hash in the request.

`MC...` modules give the constants values for TLC, `...Proofs` modules hold the proofs.

## 3. Runs

Runs that pass:

| Run | Bounds | Shows |
|---|---|---|
| `cache` | 3 pieces of 2 slices, 2 groups, 3 downloads, 1 restart, access counts up to 1 | what is written is right, or a slice that rides in a group of another piece and gets what that hash vouched for (`OnlyVouchedWritten`); one group per piece, fresh reads, the first copy of a slice stays, the count keeps up with the pieces that do not ride, `Btcache` implements `PieceStore` |
| `requests` | as above with 1 group and 2 peers with a request each | a request is withdrawn only when its slice is right on disk, or rides in a group of another piece |
| `disk_layout` | 6 bytes over 1 to 3 files in every way, slices of 3, 2 and 1 bytes | no file is missed, nothing runs past a file's own end, reads of one file give back what was written, `DiskLayout` implements `LinearDisk` |
| `event_loop` | 2 trackers, up to 2 peers, intervals scaled to 1, 1, 3, 4 | rounds exclude each other, trackers and peers that are silent are given up, the loop reaches the peers, and no live socket is lost |
| `bdecoder` | every document of up to 8 characters, every file of up to 4, a `tab_cursor` of 4 numbers | one value per call, the depth printed is that of the calls modulo those numbers (in other files not behind it, before it wraps), a document is decoded to its end |
| `metafile` | every list and dictionary of up to 8 characters with two tails, every content of up to 4; 38 metafiles, `main` and any 3 calls, `annouce` of 12 characters, `path` of 1, lengths that wrap at 10 | the hash is over the value of `info`, and it is computed; `main` reads the trackers and the lengths of several files, where they fit |
| `peers` | 11 pieces in 2 bytes, 6 positions vary; 4 nodes with 2 requests each; 81 bytes, 3 messages of every kind | interest is right but for the last byte; buffers and requests belong to listed peers and `PeerList` implements `PeerSequence`; nothing is written behind the buffer but by a piece with a block of under four bytes, and the stream reads back, with the numbers that the code writes |
| `sha1` | blocks of 6 bytes, words that wrap at 16, a message of 14 bytes and one too long, portions of up to 8 | no byte is lost, the bits are counted, `Sha1` implements `MessageDigest` |
| `samples` | 2 clients with 2 bytes or 3 lines each, 1 datagram lost and 1 repeated, a pipe of 1 byte, answers of 2 and 3 bytes, with and without a NUL, read 1 or 2 at a time, 24 urls, every byte of a hash | an answer belongs to its question, what is echoed is stored, what is read is printed up to a NUL and what is printed behind it is old, the tracker of the url is asked with the hash of the parser, programs end and datagrams are answered but where the code makes them wait |

Why the bounds are enough. *Cache*: two groups are the least in which a piece could be in two,
three pieces the least with two that can be written and the last one, which cannot; two slices
the least that can be out of order, and a third download would need a third piece. `FlushLimit`
and `SaveEvery` stand for 10 and 10 and are met within the bounds. All slices of the torrent
are equal but one, which is zero as in an empty file (`cache`) or has its own content
(`requests`): a slice of one piece can pass the hash of the other. *Layout*: a slice of three
bytes can begin in one file, fill a second and end in a third. *Loop*: two entries tell "one"
from "all"; the order of the intervals is kept, and `LagAssumption` says of them what 10, 10
and 300 give: a round and a turn before it are over before the interval. *Decoder and parser*:
eight characters are nested lists and dictionaries with keys, and strings that hold the
characters with a meaning. The runs have two of the ten digits, so 2 stands for 9, and depths
of up to eight wrap at 4. *Interest*: first and last bits of each byte, the last piece, a bit
without a piece. *Metafiles*: none to three tiers, one and two urls in a tier, http and not,
one file and two, paths of one and two parts, a comment with a key in it; urls that fit, fill
and overrun `annouce` and its node, paths that reach `length` or `next`, lengths and a sum that
wrap. *Peers*: a list of three around a deletion in its middle, and one new node. *Messages*:
after a handshake the shortest piece just fits, and after two long pieces the numbers of a
short one do not; index and begin differ and take two bytes. *Streams*: parts of one and two
bytes of an answer of three leave a byte of one in the next. *SHA1*: six bytes leave four
before the length, so that each of "fits", "just fits" and "takes two blocks" comes up, and the
low word wraps every other byte. *Samples*: two clients are the least whose bytes can mix in a
pipe, a pipe of one byte and a logger of two reads are soon at their ends, and two lines are
needed to take one answer for another.

Runs that must find a violation, each of what a line of the repository says:

| Run | What the code does | The line |
|---|---|---|
| `cache_miss` | a slice of a piece no group holds is dropped with the whole cache | `data.c:770` "write a slice to btcache" |
| `disk_read` | reads of several files come from the first | `data.c:247` "the position is linnable" |
| `info_hash_count` | the count of open values starts from an unassigned variable | `parser.h:41` "caculate info_hash" |

`cache_miss` says what a download does today: with an empty cache every slice is dropped, so
pieces enter the cache only through reads. `cache` still explores flushes: a piece that was
read can be received again, slice by slice, in the group that holds it.

Other places where the code does less than its comments or names say are in the models as
they are in the code, without a run of their own:

- `data.c:751`: a slice goes over one of a group of another piece, whose hash reads only bytes
  and the first label (`:393`). If the bytes fit, because slices are equal or one was sent
  under a wrong label, the slice is written at the place of its own label (`:248`), its request
  is withdrawn (`:427`), and one piece of the group stays incomplete (`Riders`): the exception
  in `OnlyVouchedWritten`, `WithdrawnOnlyWhenStored` and `CountKeepsUp`.
- `data.c:692`: a slice is refused as existing because its slot holds another piece's.
- `bitfield.c:98`: the bit of a piece written stays 0 (`SetBitOutcomes`), and `bitfield.c:167`
  never saves a bitmap that exists (`RestoredFile`).
- `data.c:248`: the position wraps at the largest `int` (`Wrapped`).
- `bitfield.c:156`: pieces of the last byte are never wanted (`WantedInLastByte`).
- `Test/parser.c:382`: a length that begins with 9 is refused (`FirstDigits`).
- `BDecoder.c:24`: the depth is an unsigned short, which wraps (`UShort`); `:150`: a dictionary
  without a key leaves its tab on; `:88`: strings are printed without a terminator.
- `message.c:155`, `181`, `209`: a bitfield moves `msg_len` by five too few, a request says its
  begin for its length, a piece its index for its begin, and it has no block (`Bytes`,
  `Advance`, `Mistold`); `:197`: a piece with a block of 0 to 3 bytes asks for less room than
  the 17 bytes it writes (`InsideBuffer`).
- `torrent.c:191`: `connecting_peer` stays set (`EndPeerRound`), so that no tracker is asked
  again after the first round with the peers (`TrackerDue`); `torrent.c:85`: the optimistic
  unchoke never comes due (`Unchoked`); `tracker.c:273`: the sockets of the trackers are
  connected to the peers (`OpenPeers`).
- `Demo/trackerDemo/parser.c:276`, `:105`, `:69`: a file's `next` is never assigned (`wild`), a
  tier with a second url is misread (`Tiers`), a key is found in a string (`find_keyword`). The
  properties of `metafile` name such cases as their conditions, and the run has them.
- `Demo/trackerDemo/parser.c:350`: the length of a single file is overwritten in the content
  (`Overwritten`); `:201`: `12:piece_length` is misspelt, so it is never found; `:225`:
  `get_pieces` writes to `piece_length`; `:444`: `get_peer_id` writes 21 bytes to 20.
- `simple_tracker.c:38`: Z, z and 9 are sent as codes (`Plain`), which a server reads as the
  same; `:84`, `:85`: the port begins at garbage, the search for it at a wrong place for names
  shorter than the protocol (`get_tracker_port`).
- `net_client.c:108`, `connect_http.c:60`, `hello_client.c:52`: the text in the buffer is not
  ended where the read ended (`Prints`).
- `Demo/trackerDemo/parser.h:11`, `:16`: nobody compares urls and paths with the room for them
  (`Kept`, `LeavesNode`, `Dirty`).
- `connect_http.c:73`: the request lacks the empty line at its end (`Lines`): the program ends
  only if the server gives up. `net_client.c:105`: a read that fails prints the buffer again.
- `echo_storeserv.c:65`, `:85`: the logger stops after its reads and the children then wait for
  room in the pipe for ever; of each read one byte is echoed (`Loop`).
- `pipe2.c:24`: the child may read its own message, and then the parent waits for ever.
- `udp_client.c:49`: a lost datagram holds the client for ever.
- `peer.c:165`: deleted nodes are not freed (`allocated` only grows).

**Fairness.** `EventLoop`: weak fairness of the loop, since nothing in it blocks for ever
(its sockets are non-blocking), and strong fairness of turns in which the clock moves on: a
loop may run many turns within one second, not for ever. `BDecoder`, `InfoHash` and
`Metafile`: weak fairness of a sequential program's next step. `MCSamples`: weak fairness of
each process that the kernel runs (children, logger, servers, clients that are not waiting
for somebody to type), and of the delivery to the one who receives; nobody need type a line,
send a byte, leave, give up or reset, and the network need not lose or repeat. A web server
and a tracker do answer a request that is complete. All other properties are safety.

Deadlock is checked except in `peers` (the list ends after it released everything, and no
more than the bounded number of messages is created) and `samples` (the programs end, or wait
for ever where the code does; that they end is a property).

## 4. Proofs

**`BtcacheProofs`**, for every number of groups, slices, pieces, peers and every limit, and for
every torrent, with equal slices or not: `TypeCorrect`, `VouchedIsWritten`, `OneGroupHolds`,
`ReadsAreFresh`, and `ImplementsPieceStore`, that every step of `Btcache` is one of `PieceStore`
or stutters. The inductive invariant is `IInv`: types, the shape of nodes, one group per piece,
coherent reads, and that the disk holds only what a hash vouched for, in its slot (`Integrity`).
What the cache holds may be wrong in any way. That a group with the right hash writes only what
the hash vouched for, slot by slot, needs that each node in use has `begin` equal to its slot
(`VerifiedGroup`); that only slices that ride in a group of another piece go elsewhere is read
off the labels (`DiskAfterValue`); that a write leaves cached reads fresh needs that no other
group holds the piece. The invariant is stated for a cache and a disk (`CacheInv(c, d)`), so
that it can be applied between the store and the flush of one call. Assumptions: sizes are
positive, `Bad` is the content of no slice and not zero, SHA1 has no collisions among the contents.
From the same invariant follow the three action properties: `FirstCopyIsKept`,
`WithdrawnIsStored` (a request goes only with its slice on disk, whichever call writes it, or
with a slice that rides) and `CountIsKept` (`download_piece_num` grows with the pieces written,
across every entry but a restart, those made whole by slices that ride aside).

**`DiskLayoutProofs`**, for every way to cut a download into files and every size of slices:
`LayoutHolds`, `SingleFileIsRead` and `ImplementsLinearDisk`. The invariant (`IInv` of
`DiskLayout`, which the run checks too) says where the loop over the files stands
(`WalkInv`): how much of the slice is written and that the file it has come to begins where
the rest belongs; a write then stays inside its file (`NothingPastTheEnd`). That the files
together are one image is a lemma about `FirstByte`, a recursive function: its values, their
order, and that each position lies in one file, are shown by induction over the files. The
hypothesis `PositionsAreInts`, that the last position of the download is an `int`, is needed:
the code adds positions up in an `int` (`Wrapped`), and for a larger download neither holds.

**`BencodeProofs`**, for every length: what `Grammar` holds. It is a recursive function over
lengths, whose equation must be proved (`GrammarStep`) before anything else can be; then what a
value, a sequence of values and one of pairs look like from a position of a text on (`ValAt`,
`ValuesBegin`, `PairsBegin`).
**`BDecoderProofs`**, for every file and every width of
`tab_cursor`: `DepthIsKept`, whose inductive part (`TabsInv`) is that the depth printed is,
modulo that width, the tabs of the open calls and some left on, all of them together no more
than the characters read; and `CallsReturnAtEnd`, that in a file of B code a call returns
behind exactly the value it was made for; `DecodedToTheEnd` is the safety half of
`DocumentsAreDecoded`, that `main` returns only at the end of such a file and with no tab left
on. The heart of `IInv` is `DocumentInv`: there is a plan, a position for each open call, such
that what is between the cursor and the first of these is the rest of the value of the call on
top, the next stretch the rest of its caller's, and so on to the end of the file. It does not
say that a call's own value is alone enough; each step shows where the plan goes. That
dictionaries below the top are in the call for a value, and only those (`Framed`), is what a
return needs.

**`MetafileProofs`**, for every content of any length: `ValueIsHashed`, that what `get_info_hash`
hashes is the value it begins at, and `ValueIsNotRefused`, that the scan of such a content ends
in no other way. The scan only counts. Its invariant (`HashInv`) gives each value that is
counted the place of its end, and says that between the scan and the innermost end, and
between each end and the next, are whole values (`Nested`): so an `e` that the scan meets is
the innermost of these ends and never one inside a string or an integer. It counts the keys of
a dictionary as values; that they can be taken for such is a lemma (`PairsAreValues`). The
hypothesis is `ContentsAssumption`, that contents are made of the characters of `Bencode`.

And about `Metafile`, for every metafile (`MetafilesAssumption`: any number of tiers, urls and
files, any texts and lengths but empty ones and 0; `DecimalsAssumption` says only that the digits
make the number that they write), and all sizes of `annouce`, `path` and `long long`:

- `InfoIsHashedWhole`: what `main` hashes is the value of `info` in the file, all of it. The
  search for the key finds the first place that holds it (`KeyIsFound`), which is the real one
  when no text before it holds the word (`BeginsBare`; `KeysAreKeys` says so of all texts). The
  scan of what follows is not over B code but over symbols, texts among them, so `HashInv` does
  not apply; its invariant (`ScanInv`) is that from where the scan is, with the count it has,
  the end of `info` is reached. "Is reached" (`Ends`) is membership in a set of positions that
  each turn of the loop keeps to (`Leads`), and each part of a metafile is shown to carry a
  position before it to one behind it (`Lifts`), lists by induction over their elements.
- `MetafileIsRead`: `ReadInv`. Its types hold for any order of the calls (`Typed`): every number
  that is read, from whatever symbols, is an integer, since what is folded over the symbols is.
  That `main` reads what the metafile states has conditions: no text is a keyword, each tier has
  one url and all urls fit `annouce` (`UrlsFit`); each path has one part, which fits `path`, and the
  lengths and their sum are below the limit of a `long long` (`FilesFit`). The run has metafiles
  that break each of them, and there the program reads something else or crashes.
  For `main`, the invariant (`ReadMainInv`) says what the list of trackers and the files are
  after each of its five calls. That the loops over `announce-list` and `files`, recursive
  functions over positions without an end, have a value at all and satisfy their equations is
  shown first (`TiersAre`, `FilesAre`: every turn goes forward, `FileGoesOn`, `TierGoesOn`);
  then, that from where a list begins they read it piece by piece to its end (`TiersAreTaken`,
  `FilesAreTaken`).

**`PeerProofs`**. About `PeerList`, for every finite set of nodes and number of requests:
`ListIsKept` and `ImplementsSequence`. `ListInv` is not inductive: the invariant says that some
sequence of different nodes is what the links follow (`IsList`); the loops of the deletion,
which stop at what they find, are then positions in it. About `OutMessages`, for every buffer:
`MessagesAreKept`, that nothing is written behind it but by a piece with a block of under four
bytes, and how far that goes; and `StreamIsReadBack` for buffers under 19 * 2^24 bytes
(`NumbersAreTold`), where a reader finds each message with the numbers that the code writes: a
request's length only if it equals its begin, a piece's begin only if it equals its index. With
more bytes than that, the length of a piece could begin with the byte 19 as a handshake does.
No file defines `MSG_SIZE`; any size in use is far below. Its invariant (`StreamInv`) says of
each message where the reader finds it, and that the one that is added changes no byte before
`msg_len`. About `Interest`, for every number of pieces: `InterestHolds`, from the arithmetic
of the bitmap's lengths (`Lengths`, `WholeBytesAreOwned`). About `EventLoop`, for every number
of trackers and peers and all intervals with `connect_timeout + 2 * MaxLag < tracker_interval`:
`OneRoundHolds`, `TrackerRoundIsBounded`, `LiveSocketsAreClosed`, `TypeCorrect`. That rounds
exclude each other needs, between rounds, that a phase is due in this very turn
(`RoundBegins`), in a round with the trackers that the interval cannot have run out yet
(`RoundLasts`: its age is at most that of the round and one turn), and that a round with the
peers is prepared only from between rounds (`PeersDue`).

**`Sha1Proofs`**, for every size of blocks and words, every message and every way to cut it:
`ContextIsKept`, that each byte is hashed or in the block, in its place, until the result is
asked for, and that the two words count the bits. Counting is not inductive by itself: the
code looks for a carry by comparing the low word with 0, which is right only since that word
is a multiple of eight (`LowIsEights`) and its limit is one too (`LimitAssumption`).
`ImplementsDigest` is the refinement of `MessageDigest`. It needs two facts more (`DigestInv`):
what was hashed is whole blocks, and a loop with bytes to take runs on an open context.

**`SamplesProofs`**, each program by itself (`TalkSpec`, `StoreSpec`, `DatagramsSpec`,
`TrackerSpec`; every behaviour of `MCSamples` is one of each, since a step of one program
leaves the variables of the others alone):

- `QuestionIsThanked`: the invariant is the six states that the two processes of `pipe2` reach.
- `EchoesAreStored`, for any number of clients and bytes, and any pipe and buffer. `InOrder` ties
  what is yet to come, the buffer and what was echoed: a failing read leaves the old byte in the
  buffer, and that it is not echoed a second time needs that the write is then to a connection
  that is known to be broken. What a client has in the pipe and the file is read off with
  `FlattenSeq`, for which the module proves what it makes of a longer sequence.
- `AnswersStayInStep`, for any number of clients and lines, losses and repetitions. A client
  that waits has asked one more than it has printed (`TurnsAreTaken`); every datagram carries
  something its client asked (`OwnersAreClients`); and while nothing came twice, a client has
  at most one on its way, in the network or with the server, its last (`OneIsOnItsWay`).
- `AnswersArePrinted`, for an answer of any bytes and length, reads of any part of it and any
  memory under the buffer: what has arrived continues what was read (`InTune`), and the last
  print is what the buffer still holds up to a NUL (`ShownInv`), of which the next read changes
  only its beginning.
- `HashArrives`, for a hash of any bytes and any length that has room: what the request carries is
  decoded to it. A byte that is encoded, in one character or in three, is decoded to itself
  whatever follows (`ByteIsDecoded`), from which the whole is by induction on the bytes encoded.
- `TrackerIsNamed`, for every url with a port that has room in the array, of any size: the name
  and the port are what the url says, with the conditions of the property (memory that was
  clean, a name not shorter than the protocol). The copy of the name, a recursive function, is
  followed from each character to the last; the digits of the port make the number that wrote
  them, also in 16 bits.

Induction. Library theorems that take a predicate as a parameter cannot be used; where a proof
needs induction over numbers it is done on a set of numbers, from the well-foundedness of `<`
(`NatSubset`, `NatFromSmaller`), and the equation of a recursive function is proved by
showing that a function with it exists.

Only model-checked: liveness (`SilentAreGivenUp`, `PeersAreTried`, `DocumentsAreDecoded`,
`InfoIsHashed`, `ClientsEnd`, `ProcessesEnd`, `DatagramsArrive`): each needs fairness, which
TLAPS does not do. Of `DocumentsAreDecoded` and `InfoIsHashed` the safety half is proved
(`DecodedToTheEnd`, `ValueIsNotRefused`). Every invariant and every action property that a
passing run checks is a theorem. The three expected violations are TLC's counterexamples.

## 5. Abstractions

- SHA1 tells the right bytes of a piece from all others. A slice has one of a few contents:
  those of the torrent's slices, zeros, and one for all that are right nowhere (`Bad`).
- A received slice is whole: its `begin` is a multiple of 16K and its length 16K.
  `write_slice_to_btcache` checks neither; `create_req_slice_msg`, which is not written, would
  ask for such slices only.
- Within `Btcache` a slice is written whole or not at all, to one file; `DiskLayout` cuts it.
- `btcache_len` is a multiple of the slices of a piece (1024 and a power of two).
- A piece is read only into an unused group when no group holds it: the caller is not written.
- The announce list, the addresses of peers and whether anything was downloaded are fixed at
  the start of `EventLoop`: nothing in the loop changes them.
- `malloc` does not fail in `BDecoder` and `Btcache`; it does in `EventLoop` and `PeerList`.
- `out_msg` is followed by 20 bytes of heap (`Heap`): what a write behind them would destroy is
  not modelled, only that it happens and how far it goes.
- `malloc` gives `print_str` the length it asks for, which an `int` holds.
- `InfoHash` begins where `find_keyword` found the key; `Metafile` has that search.
- The content of a metafile is symbols (`Torrent`): all letters without a meaning are one. No
  text is empty and no number 0. The runs write lengths with the digits 1 and 2 in one or two
  places: 1, 2, 11, 12, 22. Where a function takes letters for digits, each counts as 'x'
  (`Value`), and the length of a file that states none is one value (`Unassigned`).
- The numbers in the search and the scan, and `piece_length`, are `int` or `long` in the code
  and do not wrap here: the file is smaller than 2^31 bytes. `file_length` and the lengths of
  files do wrap.
- A url or path that leaves its node spoils the heap: that is a crash at once or nothing. One
  that ends in `next` is followed by whatever is there until a NUL, of which `AnnounceOf` keeps
  one symbol.
- That there is a NUL somewhere behind the buffer of a client (`Memory`).
- What a port, a name or a file's `next` holds before it is assigned is one value of a few
  (`Givens`, `wild`).
- The wording of requests is left out but for their lines, the name and the hash; the nth byte
  that a client of the storing server sends is n.
- A write to a socket or a pipe with room is one step; a read from a socket takes any part.
- The bytes of a word of SHA1 (`LengthOctet`) are not opened up.
- Scaled down in the runs: `tab_cursor` to 4 numbers (65,536), `annouce` to 12 characters and,
  for the name of the tracker, 18 (128), `path` to 1 (256), `long long` to 10 (2^63), the
  buffer of a stream client to 2 bytes (`BUFF_SIZE`); the intervals of the loop keep their
  order.
- Bounds that are not in the code: `MaxDownloads`, `MaxAccess`, `MaxRequests`, `MaxRestarts`
  (cache), `PeerSlots`, `MaxLag` and the saturation of ages (loop), `MaxLength` (B code),
  `MaxCalls` (metafiles), `MaxMessages` (messages), `MaxPortion` (SHA1), `MaxSent`, `MaxLines`,
  `MaxLost`, `MaxTwice` (samples).

### Not modelled

- `Test/policy.c`, `parse_tracker_responsel`, `add_peer_node_to_peerlist`, the functions that
  process and parse messages: empty in the source.
- `Test/tracker.c`: `get_tracker_name` and `get_tracker_port` use variables that are declared
  nowhere, and nothing calls them but `create_request`, which nothing calls, as nothing calls
  `get_response_type`. `http_encode` is the demo's.
- `Test/parser.c` but for `get_info_hash`: an earlier version of the demo's parser that cannot
  work (`announce_list` for `announce-list`, comparisons the wrong way round, a loop that does
  not advance, `get_files_length_path;` without a call).
- `Test/sha1.c`: third-party code; `Btcache` and `InfoHash` use what it promises.
- The rounds within one block of SHA1: arithmetic without a state that lasts.
- `get_hostbyname.c`, `select.c`, `testParserMain.c`: they print what single calls return.

## 6. Plan

Order of the whole project; the first nine are done.

1. `BitfieldOps`, `PieceStore`, `Btcache` and their proofs.
2. `EventLoop` and its proofs.
3. `LinearDisk`, `DiskLayout`.
4. `Bencode`, `BDecoder`, `InfoHash`.
5. `Interest` and its proofs; `PeerSequence`, `PeerList`; `OutMessages`.
6. `Torrent`, `Metafile`: the rest of the parser, as the demo has it.
7. `MessageDigest`, `Sha1` and its proofs.
8. `PipeTalk`, `StoreServer`, `Datagrams`: the samples with several processes.
9. `StreamClients`, `TrackerClient`: the demos and hello.
10. A composition of cache and layout: `Btcache` over the files of `DiskLayout`.

Proofs: every safety property that the passing runs check is proved (section 4). A composition
(10) would need one more: that what `Btcache` asks of `DiskLayout` keeps `PieceStore`.
