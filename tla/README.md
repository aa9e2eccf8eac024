# A verification of torrent_client

TLA+ models of the BitTorrent client in `src/`, the TLC runs that check them on
small instances, and TLAPS proofs of what holds for every instance. The models
are translated from the code; where a name exists in the code (`get_piece`,
`process_choke`, `m_returned_pieces`, `on_read`) the models use it.
`PROJECT.json` maps every definition to its lines.

## 1. The system

The program downloads one torrent from the peers that the tracker names. It
never uploads. A poller thread waits for socket events, the main loop puts each
event into the task queue of a thread pool, and a worker performs it: it calls
the callback object of the socket. There is one worker (`main.cpp:20`,
`NUMBER_OF_WORKERS = 1`), but the shared state is locked for several. The poller,
sockets, thread pool, spinlock, `BitSet`, `Url` and `IpAddr` come from the
library jasl, which is not in the repository.

| Component | State | Operations | Talks to |
|---|---|---|---|
| `PieceList` | `m_next_piece`, FIFO list `m_returned_pieces`, spinlock | `get_piece`, `return_piece` | called by every `PeerProtocol` |
| `PeerProtocol`, one per peer | `m_state`, bit set `m_clients_pieces`, `m_piece_index`, `m_piece_size`, `m_piece`, queue `m_messages` | a handler per message, `get_piece_index`, `create_request`, `get_message` | `PieceList`, `Piece`, `Files` |
| `ClientLogic`, one per peer | `m_state` (wait for READ or for WRITE), receive buffer | `on_read`, `on_write`, `on_close`, `on_error`, `on_rearm` | `PeerProtocol`, the socket |
| event loop and thread pool | queue of tasks | `main`, `perform` | all callback objects |
| `Piece`, `Block` | `m_data`, `m_id`, `m_full_piece_size`, ordered set `m_blocks` | `init`, `add`, `full`, `get`, `clear` | used by `PeerProtocol` |
| `Files`, `File` | file descriptors, `m_bitset` (never read) | `write_piece` | called by `PeerProtocol::process_piece` |
| `TorrentFile` | the fields of the torrent, `first_piece` and `last_piece` of each file | reading the tokens, `fill_piece_offsets` | read by `Files` and `PieceList` |
| `BeParser`, `BeToken` | none | `parse` | `TorrentFile`, `TrackerResponse` |
| `TrackerConnection` | `m_state`, receive buffer, `offset` | `on_read`, `on_write`, `on_close`, ... | creates the `ClientLogic` objects |
| `TrackerResponse` | list of peers | constructor | `TrackerConnection` |
| `DownloadManager` | torrents, peer id | `add_torrent_file`, `generate_url` | `main` |
| `ActiveSockets` | locked set of peers | `add` (never called), `remove` | `TrackerConnection` |

What is hard, and what would make each part correct:

- **PieceList and the search for a piece.** `get_piece_index` takes the lock twice
  per attempt and up to forty times per search, so with several workers the
  searches of different connections interleave between two locks. A piece also
  returns to the pool by a choke, and does not when a connection closes, a write
  fails or a second unchoke starts a search. *Correct:* a piece is in one place
  at a time; a piece leaves circulation only in the ways the code has; a search
  ends.
- **PeerProtocol.** The peer may choke with requests outstanding and answer them
  later; the same piece may be taken again meanwhile, by this connection or
  another. The queue `m_messages` is not emptied by a choke. *Correct:* the buffer
  is that of the piece in hand; a late block fits it; every byte that is missing is
  asked for; a piece is asked of a peer that has it.
- **ClientLogic.** A connection waits for READ or for WRITE, never both. *Correct:*
  it waits to write exactly when it has something to write, and a download with
  good peers never stalls.
- **Piece.** Blocks come in any order, overlap, contain each other. *Correct:* the
  list of blocks stands for the set of bytes received; `full` is exact.
- **Files.** A piece may span many files, a file many pieces; files may be empty.
  *Correct:* the search ends and finds the first file of the piece, every byte of
  the piece is written to the file it belongs to, at the place it belongs to.
- **TrackerConnection.** The answer may arrive in parts, and the peers come in two
  forms; the tracker is asked once. *Correct:* no peer twice; an answer that comes
  whole is used whole.
- **TorrentFile: reading.** The fillers walk a flat list of tokens with a counter that
  each of them moves by its own number of steps, some of them once more for their
  caller, and look at the token after a key without asking whether there is one.
  *Correct:* never past the end; what is loaded is what the torrent says; the hash
  is of the bytes of `info`, which are found by counting back from the token that follows.
- **DownloadManager.** *Correct:* the announce chosen is one of the torrent's, and
  none that works is passed over unasked.
- **Message framing** (`process_message`, the loop of `on_read`). A message may
  arrive in parts; `on_read` looks at the first bytes of a part to reject it.

`PROJECT.json` lists the hazards at their lines with the properties that cover
them, and says for the uncovered ones why.

## 2. The modules

```
PieceList  <-EXTENDS-  PeerProtocol  <-EXTENDS-  Download  <-EXTENDS-  MCDownload (TLC)
                                                    |   ^
                                    refines         |   +-EXTENDS-  DownloadProofs (TLAPS)
                                                    v
                                             PieceAllocation

BeParser  <-EXTENDS-  Metainfo  <-EXTENDS-  TorrentFile  <-EXTENDS-  Startup  -EXTENDS->  Files
Startup  --refines (WritesTheTorrent)-->  Files
MCStartup -EXTENDS-> Startup, MCFiles (TLC)            MCFiles -EXTENDS-> Files (TLC)
StartupProofs -EXTENDS-> Startup, FilesProofs (TLAPS)  FilesProofs -EXTENDS-> Files (TLAPS)
LoadingProofs -EXTENDS-> StartupProofs (TLAPS)

Framing  --refines-->  MessageStream    MCFraming -EXTENDS-> Framing  <-EXTENDS-  FramingProofs (TLAPS)
Piece  --refines-->  PieceAssembly      MCPiece -EXTENDS-> Piece  <-EXTENDS-  PieceProofs (TLAPS)
Tracker  <-EXTENDS-  TrackerProofs (TLAPS); TLC checks Tracker as it is
NatLemmas (TLAPS): least and greatest numbers of a set, recursive functions on an initial segment, sums;
                   for PieceProofs, FilesProofs, FramingProofs and StartupProofs
```

**PieceList.** `get_piece` and `return_piece` each run under the lock from the
first line to the last, so each is one step. `get_piece` has an effect on the pool
and two results, `PieceToGet` (the reference parameter) and `SizeToGet` (the
return value). `return_piece` appends whatever it is given, -1 included, and
`SizeOf` treats -1 as any index that is not the last.

**PeerProtocol.** One action per handler that changes state. The search
(`get_piece_index` followed by `create_request`) is cut where the code releases the
lock: `TryPiece` is one `get_piece` and all that follows up to the next lock,
`GiveBackPiece` the `return_piece` of a failed attempt. The control point of a
handler is `pc`; `process_piece` and `process_unchoke` end in "picking" when they
start a search. Reading the bit set past its end, or at -1, which converts to the
largest `uint64`, is undefined in the library, so `BitReads` allows set, clear, an exception,
and the end of the process (action `Crash` of Download). The bit of a HAVE is written without a check
as well: past the end this may throw, end the process, or change nothing that the program
reads (a premise: what else such a write may change is not modelled). In `Piece` only the set of received bytes is kept here;
module Piece justifies that. Handlers that only log (`process_interested`,
`process_request`, ...) are left out.

**Download.** The callbacks of `ClientLogic`, the dispatch of `perform`, and the
peers. A worker is free when fewer than `NUMBER_OF_WORKERS` connections run a
handler; each connection has one event at a time, because the poller is armed again
only by the REARM event. `on_read` starts a handler, each `Message` is one iteration
of the loop over messages, `on_read_end` is the drained socket. `on_close` stands for
CLOSE and ERROR events and for the exception that `perform` catches. Nothing is
given back to the pool then, as in the code. Peers are constrained by what they
could know: a peer answers only what has been requested of it (`requested`), it may
answer late, out of order, after it has choked, or never. `requested` is a set, so a request that was
made in two rounds stands in it once; "answer again" is the fault that keeps it there, for a peer that answers both. What else it may do is a
constant, `Faults`: choke, unchoke twice, unchoke before the bit field, answer again, close; and
for this side "write error", a `Files::write_piece` that throws, and "short write", a
socket that takes only a part of a message: `on_write` writes the messages one by one
and logs what each write returns, so any of them may be lost, and the connection goes on
waiting for its answer. What the peer makes of half a message is not modelled.
`Crash` ends the process where the bit set is accessed outside of it, and with it every connection,
whichever handler the other worker runs; a connection is `Stopped` when it is closed or gone with the process.

**PieceAllocation** (abstract): a piece is free, held by a connection, done, or lost.
It knows no list, no attempts and no messages. `Download` implements it with
`free` = the pieces in the list and those never handed out, `held` = the index of each
connection that is not `Stopped`, `done` = `written`. It permits what the code does lose: `Forget` is a
connection that closes, or searches again with a piece in hand, `Take` may lose the piece at once, `Stop`
is the end of the process. So the refinement says that no piece is ever in two places, and by which
steps pieces move; it does not say that pieces come back, and they do not.

**Piece** and **PieceAssembly** (abstract). `Piece` follows `add` line by line: the
neighbours in the ordered set, the cut of a block that overlaps one, the two errors,
the merge with the previous block or else the next one, the second merge. The bytes
are named by their offset, so a wrong source offset in the `memcpy` shows.
`PieceAssembly` is the set of bytes received. A block whose missing bytes are
separated by received ones is refused there, and the code throws only then, and any other
block is taken in whole; this is what `ImplementsAssembly` shows. For it the last call of
`add` and its result are recorded (`last_add`); `MCPiece` leaves the record out of the view,
since no action reads it and TLC compares every step, not every state, with the abstraction.

**Files.** `fill_piece_offsets` as the recursive function `Position`, `write_piece` as
a state machine: the recursive `search` (one step per call), the loop back to the
first file (`step_back`), the loop over files (`write_file`), and a `pwrite` that
fails. `SourceSize` is the size the caller passes for a whole piece: the code would
pass 0 for the last piece of an exact multiple, but never gets that far (finding 2).

**BeParser.** `parse` turns a source into tokens. A source is a sequence of lexemes (the
marks of structs, integers, strings) with their sizes in bytes, so that the place of each
token in the file, from which the range to hash is computed, is known without spelling
the file out. The calls of `parse` and `process_struct`, which call each other, are folded over the lexemes:
`ParseState` holds the structs whose `process_struct` has not returned, the innermost first, and
`After(lexeme)` is what the code does with one lexeme. A source may be cut between any two lexemes; then
every struct that is open gets its end token all the same, which is what later saves the fillers from
reading past the end.

**Metainfo.** What the program is compared with: a torrent as a record, and the source
that BEP 3 gives it (`Encode`), the bytes of `info` in it (`InfoBytes`), the files and
their paths (`Sizes`, `PathOf`). It shares no definition with the reading. `OneDictionary` is what the
sources looked at have in common: one dictionary from the first lexeme to the last.

**TorrentFile.** The constructor: `parse_tokens`, `TokenListProcessor::process` and a filler
per kind of key, each an action that moves `current_token` by the steps its code takes and
its caller's increments, then the hash and the layout. `reading` is the function that runs, or how
the constructor ended: with an exception ("refused") or a division by zero
("crashed"). `private`, `created by` and `encoding` are read like other keys and left out.

**Startup.** `main` up to its loop: `read_torrent`, `open_files`, `generate_url` twice (main calls
it once for nothing, and each call looks the hosts up), `resolve`, and from then on
`write_pieces`, the actions of Files. The sizes the files are written with are those that
were read. `WritesTheTorrent` says that this implements `Files` with the sizes of the torrent
itself: no error of the reading can move a byte.

**Framing.** One call of `on_read` as a loop: `read` gives any number of bytes, then
`process_message` runs (`process_handshake`, `skip_keep_alive`, `dispatch`, one
iteration each) until it `Returns`; then `keep_part` or `move_rest`, and the next `read`,
or `read_nothing`, which ends the handler. A byte is the pair of its message and its
place there, so a byte that is moved to the wrong place shows. Where the code reads four
bytes that are not a length field, or a byte that is not an id, the model allows every
value. The handlers themselves are those of `PeerProtocol`: `Download` starts from whole
messages in the order of the peer. They stay two modules: a stream of bytes beside the state of
`Download` is beyond TLC, and neither reads the other's variables, except
`m_state` of the protocol, which changes at the handshake in both.

**MessageStream** (abstract): what `Download` takes for granted of the bytes. Messages arrive whole, the first
one that has arrived and was not dispatched is dispatched, and a handler of a READ event comes to rest
only when none that has arrived is left; there are no bytes. `Framing` implements it: `due` are the messages
that have an effect, `arrived` those whose last byte the socket has given, and the moving of
bytes in the buffer is a stutter.

**Tracker.** `on_write` sends the request, `on_read` and `read` fill the buffer from its
begin (`offset = 0`), `use_answer` is the rest of `on_read`: the search for the delimiter, the
parser, the peers, the clients. A byte is its place in the answer. `Outcomes` is what the
parser can make of a cut dictionary: an error, no peers, no token at all (`tokens[0]` of an
empty vector, undefined: an exception or a crash), or the peers. The length of the string of
peers is believed, so of a string that is cut `fill_peers` makes peers with the address
"cut", of bytes that never came. Each client is a connection of `Download` in its initial
state. In
the detailed form (a list of dictionaries) a cut dictionary gives a peer with what was read
of it, or an exception, and where none has begun the loop completes `back()` of an empty vector:
undefined, so the model allows a crash, an exception, or nothing. A full buffer loses
its last bytes (`LOST_SIZE`), because the zero written after its end falls on the low byte of
`offset`. `ActiveSockets` is always empty and therefore left out.

## 3. The runs

| Run | Instance | Shows |
|---|---|---|
| `download_faults` | 2 connections, 2 pieces (of two blocks and of one), 1 worker, all faults but a missing bit field, requests answered twice too | Typing, exclusive pieces, the buffer and the waiting state, late blocks that fit the buffer, missing bytes that are always asked for, the refinement of `PieceAllocation`, under everything a peer or a disk may do |
| `download_two_workers` | 2 connections, 3 pieces, 2 workers, bit sets of 2 bits, peers that send only HAVE and never of piece 1, chokes, closes and short writes | the locks are enough when handlers interleave; no piece is lost; pieces are asked of peers that announced them; the search ends |
| `download_liveness` | 2 connections, 3 pieces in blocks of 2, good peers with all pieces or all but one, at least one of them with all | every piece is written in the end, although searches give up, or the process ends where the bit of piece -1 is read |
| `piece` | pieces up to 8 bytes, two names | every order and overlap of blocks |
| `torrent` | every layout of up to 4 files of up to 4 bytes, in pieces of 3, that ends no file but the last at a piece boundary; and 42 variants of one torrent, whole, cut after every lexeme, and followed by a new line (115,045 distinct states) | reading never leaves the tokens, what is loaded is what the torrent says, the hash is of `info`, the tracker is one of its own; search and loops end, a file gets only its own bytes, a finished piece is whole, and what is written are the files of the torrent |
| `framing` | a handshake and up to 3 messages of 6 kinds, every cut | each message is dispatched once and in order, none waits, closes only for the reasons named; the bytes implement a stream of whole messages, `MessageStream` |
| `tracker` | answers with up to 3 peers in either form, every cut | no peer twice, a whole answer used whole, the answer comes |
| `pool_poison`, `pool_last_piece`, `files_offset`, `framing_split`, `tracker_parts` | as above | the findings of section 6 |

Bounds, and why they are enough:

- *Two connections.* The invariants about exclusiveness relate pairs of connections,
  and the pool treats connections alike (the state permits `SYMMETRY` wherever no
  liveness is checked). The proofs of section 5 lift the bound.
- *Two or three pieces*, one of them the shorter last one. Two pieces let each
  connection hold one, then empty the pool; a third lets the list of returned pieces and
  the counter `m_next_piece` both be in use.
- `ATTEMPTS` = 2 for the code's 20: a first attempt that fails and is tried again,
  and a last one that gives up. `BLOCK_SIZE` and `PIECE_SIZE` in units of bytes;
  in `download_faults` a piece of 3 bytes in blocks of 2 has a whole block and a rest, and
  the last piece is less than a block.
- `BITS_PER_BYTE` = 2 for 8 in `download_two_workers`: with eight, the bit set of
  `number_of_pieces() / 8 + 1` bytes is too short for the first time at nine pieces.
- `MaxReturned` stops chokes, and `MaxMessages` bit fields and unchokes, while the
  list of the pool or the queue is longer. Without them repeated chokes without a
  piece grow the list for ever. In `download_faults`
  (both 1) the list holds more than one entry, -1 among them, and the requests of the last
  piece wait beside those of another; in `download_two_workers` (both 0) only failed searches,
  and one choke, lengthen the list.
- `LiveView` leaves out the state of a closed connection, or one gone with the process, except the piece it took: no
  action and no invariant of those runs reads it.
- In `Piece`, 8 bytes give room for three separate blocks with gaps, and for a fourth
  that overlaps each on either side.
- In `Framing`, `HANDSHAKE_SIZE` = 8 for 68 and `BUFFER_SIZE` = 12 for 500000: the handshake
  is still longer than the 6 bytes from which on a part is looked at, the buffer holds two
  or three short messages at once, and one kind of message is one byte too long for it. The
  kinds are a keep-alive, a message of an id alone, a HAVE, a PORT (known, but rejected in
  parts), an unknown id and the one that is too long.
- In `Tracker`, a header of 5 bytes of which 4 are the delimiter, 2 bytes before the peers,
  2 bytes for each peer (6 in the code), a buffer of 13: an answer with three peers has
  14 bytes and does not fit, one with two does. `LOST_SIZE` is 1 for 80.
- In `torrent`, the variants of `MCStartup` change one thing a torrent may say at a time: announces
  that are missing, local, not URLs or of another protocol, and lists of them; strings that
  equal keys; keys the program does not know, before and after the known ones, whose values are strings,
  numbers, lists and dictionaries, and of several lengths after `info`, where the hash is
  computed by counting back; a single file in either form; pieces that are none, or not a multiple of 20.
- Of the layouts, four files of 0 to 4 bytes (10 in all) with pieces of 3 include several files
  in one piece, empty ones, and files over three pieces.
- `CHECK_DEADLOCK FALSE` where the system may stop: all connections closed, or all
  pieces written. In `piece` deadlock is checked.

Every property has a mutant, a change of a mapped definition as a plausible bug
would make it, and its run finds the property violated. The mutants stand before the
definitions they change.

### Fairness

- `HandlerFairness`: a worker that runs a handler goes on with it (weak fairness of
  the steps of the search and of the end of `on_read`). Nothing in a handler blocks
  except the spinlock, which is held for a few instructions. `SearchEnds` and
  `WritingEnds` need no more: they hold whatever the peers do.
- `Fairness` adds, for `DownloadCompletes` only, strong fairness of `on_write`, and of
  `on_read` while the peer has something to send (`PeerHasToSend`): without it no READ event
  is certain, which is what makes a message left in the queue fatal. The thread pool is a
  FIFO queue and the poller is armed again after every event, so a ready connection is
  performed, although another may occupy the worker in between. Of the peers: one that owes
  a handshake, a bit field, an unchoke (once it has been told INTERESTED) or an answer
  sends it. This is a promise of good peers, not of this program; with a peer that falls
  silent the code waits for ever, there are no timeouts. With `NUMBER_OF_WORKERS` = 2 in
  `MCDownloadLiveness.cfg` TLC finds a stall: while the search of one connection has the
  last piece in hand, whose peer lacks it, that of the other draws only -1 and gives up; the piece
  goes back to the pool, and nothing starts a search again (`peer_protocol.cpp:230`). With the one worker of `main.cpp` searches do not overlap.
- `StartupFairSpec`: main goes on until it waits for events (the name service answers or
  fails, nothing else is waited for), and a `write_piece` that was called goes on. Whether a piece
  ever comes is not assumed.
- In `Framing`, `FairSpec`: `process_message` goes on (weak fairness), READ events are
  performed, and the bytes the peer has sent arrive (strong fairness of `read`, since a
  handler may find nothing any number of times). In `Tracker` the same, and the request is written.
  TCP delivers what was sent; nothing more is assumed of the other side, which may close.

### Premises

Some properties leave a case out, because what the code does there is what no one would
call correct and no text of the repository says otherwise:

- `InBounds` speaks of sources that are one dictionary, cut anywhere between two lexemes, or with a new line after it
  (`OneDictionary`). That is what a torrent is; in a file that ends with a string outside of any dictionary or list a filler
  would look past the last token (`token_list_processor.hpp:91`).
- `LoadedAsNamed` does not ask for the path in a list of one file: the program takes it for
  the form of a single file (`torrent_file.cpp:180`).
- `HashOfInfo` leaves out a comment "info", which is taken for the key (`torrent_file.cpp:366`), and
  a source that is cut inside `info`.
- `WholeIsLoaded` is about torrents with a number of pieces (a multiple of 20 bytes, not 0), in which `path`
  is the last key of a file (`torrent_file.cpp:240`) and nothing that is not known stands before
  `files` in `info`, such as a dictionary, whose end would be taken for that of `info` (`torrent_file.cpp:163`).
- `MissingBytesRequested` is checked without, and proved from the absence of, short writes; `NoPieceLost` without a second unchoke.
- `OnlyOwnBytes`, `FinishedWhole` and the theorems on them leave out layouts with a file other than
  the last that ends at a piece boundary: `fill_piece_offsets` moves the following files one
  piece too far (`torrent_file.cpp:276`), and what is written is wrong from there on.
- `WholeAnswerUsed` speaks of answers that one READ event brings.
- `DownloadCompletes` says that every piece is written *or the process has ended* (`Crashed`). The second case is
  real, and reached without any fault: at the end of a download one connection holds the last piece, the
  search of the other finds the pool empty, gives -1 back, draws it with the size of a piece (finding 1) and
  reads `m_clients_pieces[-1]` (`peer_protocol.cpp:222`), far outside the set. Without `Crashed` in the property TLC
  finds this in 26 states. The other outcomes of the read, a bit or an exception, let the download complete: the
  exception closes the one connection, and the one that holds the piece goes on.

## 4. What is only model-checked

- Liveness: `SearchEnds`, `DownloadCompletes`, `WritingEnds`, `AllDispatched`, `AnswerComes`, `WholeIsLoaded`.
  Liveness under fairness, and `ENABLED`, are beyond the prover.
- The digits of a number: `HashRight` takes it from the torrent (`Hashable`) that `digits` counts the digits of
  the length of the key after `info` as they stand in the source. Those come from the conversion of a number to text, of
  which the prover knows nothing; TLC evaluates it for the lengths up to 1000 (`DigitsCounted` in `MCStartup`).
- `LoadedAsNamed` for torrents that are not plain (section 5, Loading). The run looks at 42 torrents that were chosen for
  what could go wrong, each cut everywhere.
- The violation runs: each is a counterexample.

## 5. What is proved

The theorems hold for every value of the constants that the named assumptions admit.
Every invariant that a passing run checks is proved, `LoadedAsNamed` for plain torrents and `HashOfInfo` for
those in which the program can find `info`, and so is every refinement.

### Download (DownloadProofs)

From the assumptions `PieceListAssumption`, `PeerProtocolAssumption` and
`DownloadAssumption` only: at least two pieces, a last piece shorter than the others
or of size 0, at least one worker, attempt and byte per block. Any number of pieces,
connections and workers, any bit fields, any faults, no bounds on lists but those that
disable peers (`MaxReturned`, `MaxMessages`, any natural numbers).

- `Typing`: `TypeOK`, inductive as it stands. The work is in `create_request`: the
  offsets of the requests are natural numbers, and lie inside the piece.
- `Exclusive`: `PieceExclusive`, inductive together with `TypeOK`. It speaks of
  closed connections too, because a closed connection keeps its `m_piece_index`; if it
  did not, a step that hands a lost piece out again would go unnoticed. One lemma per
  operation that moves a piece: `TryPiecePlaces` (with `PlacesTaken`), `ReturnPlaces`,
  `process_piecePlaces`.
- `Refinement`: `Spec => ImplementsAllocation`. Each step maps to `Take`, `GiveBack`,
  `Finish`, `Forget`, `Stop` or a stutter. `PieceExclusive` is what makes `GiveBack` and
  `Finish` act on a piece that is in no other place. A search that throws at the bit
  set both takes a piece and closes: `Take` therefore may lose the piece at once.
- `WaitsRight`: `WaitsToWriteIffQueued` is not inductive, since it says nothing of a
  handler that runs. `WaitsInv` adds that a handler runs only for a connection that
  waited for READ, so that at its end an empty queue leaves it waiting for READ.
- `BufferRight`: `BufferMatchesIndex`, inductive with `TypeOK`, for "idle" and
  "reading"; in the middle of a search index and buffer may differ.
- `AsksRight`: `AsksOnlyForAnnounced`. The danger is a bit field that replaces the bit set while a piece is in
  hand. It comes once and, as the peer chokes until then, the invariant needed is `QuietWhileChoked`: the
  connection to a choking peer holds no piece and searches for none.
- `NeverLost`: `NoPieceLost`, if "unchoke again" is not among the `Faults`. By `EmptyHanded` a search begins with no
  piece in hand, so that its first `get_piece` overwrites none. The second unchoke is the only
  thing that breaks it; failed searches, exceptions and closes are covered.
- `AnswersRight`: `AnswersFit`. Requests of earlier rounds stay with the peer, so the argument is that
  all rounds cut a piece alike: every request asked is a block of its piece (`RequestsRight`), and of the piece
  in hand each block has come as a whole or not at all (`BlocksReceived`); `RequestsFit` puts them together.
- `MissingAsked`: `MissingBytesRequested`, if "short write" is not among the `Faults`. `AllAwaited` is the form
  that is kept by each step; `EveryByteAsked` shows that `create_request` covers a piece.

- `AllocationExclusive`: the abstract allocation keeps pieces exclusive, and so does whoever implements
  `PieceAllocation`, as `Download` does by `Refinement`.

### Piece (PieceProofs)

From `PieceAssumption`: pieces of any size, any order of blocks. `PieceInv` = `TypeOK`, `Apart` (the blocks
kept neither overlap nor touch) and `BytesInPlace` is inductive, and from it follow `PieceTyping`, `BlocksApart` and
`BytesPlaced`; `FullAtLast` adds that in a set of blocks that do not touch one block of the
full size is the only one.

The work is in `add`. The code finds the neighbours of a block in an ordered set; as
least and greatest elements of a set of numbers (NatLemmas) they have nothing between them
(`PrevBefore`, `NextAfter`, `Gap`). What is cut off at both sides was received (`CutByPrev`,
`CutTwice`), and the merges join exactly what touches (`MergedCovers`). `AddEffect` sums up: `add`
takes in all of a block, or refuses it and leaves the buffer alone. `AssemblyImplemented`
follows: each call maps to a step of `PieceAssembly`.

### Files (FilesProofs)

From `FilesAssumption` and, for the theorems about behaviours, `Unaligned`: any number of files of
any size, empty ones too, any piece size, no file but the last that ends at a piece boundary.
`Start` and `Position` are recursive functions; that they exist follows from the least number
for which there is no such function (NatLemmas, `Recursion` and `SumsExist`), and from it that position and start of a
file agree (`Positions`): the piece where a file begins and the one where it ends are the quotients of their
bytes (`Begins`, `Ends`, `Layout`), and files are in order (`Ordered`). `SliceShared` says that the slice a file gets is
what it shares with the piece. `FilesInv` adds to the three properties that the binary
search keeps a file before or in the piece (`Searching`), that it and `step_back` end in a file
of the piece (`Found`), and that the loop has written all bytes before the next file (`WrittenBefore`).
`FilesTyping`, `OwnBytes` and `WholePieces` follow.

### Framing (FramingProofs)

From `FramingAssumption`: streams of any messages of any length, any buffer that holds a handshake, any
number of bytes per call of `read`. `Start`, where a message begins, is a sum as in Files. `FramingInv` says that
the buffer holds the bytes of the stream from the start of a message on, as many as came (`BufferRight`),
and that `curr` is where one begins, of which all before it were dispatched (`AtMessage`): so no four bytes
are taken for a length that are none, and the moves of `keep_part` and `move_rest` cannot mix two messages.
At rest that message is not whole. From this follow `FramingTyping`, `InOrder`, `NoneWaits` and
`ClosesRightly`; and `StreamImplemented`, that every step maps to a step of `MessageStream` or a stutter.

### Startup (StartupProofs)

From `SourcesAssumption` (a source is one dictionary, cut after any of its lexemes or followed by a new
line), `StartupAssumption` and `FilesAssumption`: any torrents, keys, values and files.

- `NeverOutside`: `InBounds`. The fillers look at the token after a string. What saves them is the parser:
  a source that is one dictionary, wherever it is cut, gives tokens of which the last is the end of a struct, so that a
  string is never the last (`EndsClosed`, `StringFollowed`). `ParseEnds` shows this lexeme by lexeme: the number of
  structs open is the nesting of the source (`ParsedTo`, `NestingMoves`), which is not 0 before the
  dictionary ends; so a cut leaves one open, which is closed last, and a source that goes on
  after its dictionary is refused. `ReadInv` carries it through the steps of the fillers.
- `TrackerRight`: `TrackerNamed`, if `LoadedAsNamed` always holds. `UrlInv` says that what was passed over in this call
  and could be asked was looked up, and starts anew with the second call of `generate_url`. `FlattenedSet` is
  needed to see that the announces that are walked are those of all the lists.
- `TorrentWritten`: `WritesTheTorrent`, if `LoadedAsNamed` always holds: the sizes are those of the torrent from the
  opening of the files on, and nothing is written before (`WritingInv`); then every operator of Files is the same at
  both (`TheTorrentsLayout`), and each step the same step.
- `TorrentWhole`: `TypeOK`, `OnlyOwnBytes` and `FinishedWhole` of the whole program, if `LoadedAsNamed` and
  `Unaligned` always hold: `FilesInv` begins where the program does, and `FilesInvKept` is that of FilesProofs.

The premise of the last three is checked by the run `torrent` at each of its states, and proved for
plain torrents:

### Loading (LoadingProofs)

From the same assumptions. `Plain` says of which torrents: any number of files, announces, lists of them and bytes,
either form, any name and any comment. Before the keys of `info` that the program knows
stand any pairs of an unknown key and a string or a number. After them, in `info` and after it, stands anything at
all, dictionaries and lists too, in which no string is a known key. Nothing stands behind the path of a file. What it leaves out
is what the fillers do get wrong, or read right by chance: a dictionary before `files`, whose end is taken for that of
`info` (`torrent_file.cpp:163`), a key after `path` (`torrent_file.cpp:240`), an unknown key with a value
like a known key. 40 of the 42 variants of `MCStartup` and all of its layouts are plain.

- `PlainLoaded`: `LoadedAsNamed` for plain torrents, wherever the source is cut. The inductive invariant
  (`LoadInv`, TLC has checked it on the instance of the run) is a map of the way through the source. `OnTrack` lists the places
  that `current_token` can be at, with what each member holds there: a place for each key, one for
  each pair of unknown keys, and four for each file (`AtFile`, whose offset is a sum over the files before it). `PiecesRead` and `InfoRead` are
  the stretches where the reader looks at unknown keys and must find nothing. `Past` is a reader that met
  the end of a cut source early; it may be lost in the end tokens, but it never ends in "loaded".
  The argument has three parts. *Where*: the lexeme at each of those places (`BeforeInfoStands`, `InfoStands`,
  `SingleStands`, ...), and the token made of it, which is the same as long as the cut comes later (`Tokenized`).
  *What*: each filler, from each place, reads that key and moves to the next place (`OnTrackStep`,
  `PiecesReadStep`, `InfoReadStep`); `ListIsRead` shows that the recursive functions with which a list is read
  (`read_list`, `read_lists`) give the announces in order, and a path. *Nothing else*: between the last key and the end of the tokens no
  string is taken for a key (`NoKeyAfter`), and the end tokens that stand for a cut lead nowhere (`PastStep`).
- `PlainRuns`: with it `TrackerNamed` and `WritesTheTorrent` hold for plain torrents without any premise on what was loaded.
- `PlainWritten`: and so do `OnlyOwnBytes` and `FinishedWhole` of the whole program, if no file but the last ends at a
  piece boundary.
- `HashRight`: `HashOfInfo`, for torrents that are `Hashable`, plain or not: the value of `info` is one dictionary
  (of any keys, with dictionaries within), no string before the key is "info" (the program would take it for the key), and
  the digits of the length of a key after `info` are counted right (section 4). 1736 of the 1812 sources of the run are of
  such torrents, the others have the comment "info". The inductive invariant is small (`HashWay`: the tokens are those of the
  source until the hash is taken, and from then on the hash is right); the work is in `HashedIs`, on one
  step. *The beginning* is the first token "info" (`InfoFound`). *The end*: the loop of `calculate_info_sha1` counts
  dictionaries only, the parser all structs. `DepthStep` shows token by token that what the loop has counted is the number of
  dictionaries among the structs open above the level of `info`; the outermost of them is one until the last lexeme of
  `info` (`InfoNested`), so the loop stops there and not before (`InfoStops`), and a source that is cut right there still
  has a token to look at, the end of the torrent's own dictionary (`InfoFollowed`). *The bytes*: the place of a token is the sum of the sizes of
  the lexemes before it (`OffsetAfter`), and `length_modifier` takes away what is between that place and the
  token's data, for each type of token that can follow (`InfoFollower`).

### Tracker (TrackerProofs)

From `TrackerAssumption`: any answer, any buffer, any cut. `TrackerInv` = `TypeOK`, `UsedOnce`, `ConnectedOnce` and
`WholeAnswerUsed` is inductive. Once peers were tried the whole header has been received, and
since each event empties the buffer, no later one finds the delimiter again (`UsedOnce`); an `on_read` that kept
`offset` would break exactly this. `WholeEntries` counts the dictionaries of an answer that is
whole. `TrackerTyping`, `TrackerOnce` and `TrackerWhole` follow.

## 6. Findings

1. `pool_poison`: a failed attempt returns -1 to the pool when the pool was empty, and
   so does a choke of a connection without a piece. The next `get_piece` answers index -1
   with the size of a piece, and `m_clients_pieces[-1]` is read. This happens at the end of an ordinary
   download, and the process may end there before the last piece is written (section 3, Premises).
2. `pool_last_piece`: for a torrent whose size is a multiple of the piece size the last
   piece gets size 0 and is never downloaded.
3. `files_offset`: a piece that is not the first of its file is written one piece
   too far into the file.
4. `framing_split`: `on_read` rejects a part of the handshake of 6 bytes or more, because it
   takes the T of "BitTorrent" for a message id, and a part of a PORT message.
5. `tracker_parts`: the part of an answer that came before its delimiter is thrown away
   when the rest comes.

How the passing runs treat them: -1 in the pool is part of every run of `Download` in
which searches fail, and so is the end of the process that it may cause: no safety property minds it, `DownloadCompletes` names it. A last piece of size 0 is left out of the passing runs, where it would
only keep `DownloadCompletes` from holding; the theorems include it. `OnlyOwnBytes` and
`FinishedWhole` speak of which bytes go to which file, so the wrong place of finding 3
does not hide anything from them. Layouts with a file that ends at a piece boundary are not
among those of the passing run (see Premises). `ClosedOnlyFor` names the
closes of finding 4 among the reasons, and `WholeAnswerUsed` speaks of answers that
one READ event brings.

## 7. Not modelled, and what is left

Not modelled:

- A source that is cut or wrong inside a number or a string, and a key of 0 bytes after `info` (the code takes
  the logarithm of 0).
- What the parser makes of each cut of the tracker's answer: `Tracker` chooses among its possible outcomes.
- The keys of the answer of the tracker that are only printed, and `private`, `created by`, `encoding` of a torrent.
- The text of the request to the tracker, the command line, logging.
- `ActiveSockets`, from which the program only removes: it is always empty.
- Handlers that only log (`process_interested`, `process_request`, ...).
- The library: the poller, the thread pool and sockets appear as the code uses them.

Left to do:

1. *Aligned layouts*: a run of `Files` with files that end at piece boundaries, stating
   which of its own bytes a file loses.
2. *Wrong peers*: a statement of which connections a cut answer of the tracker leads to.
3. *The digits*: a proof that the logarithm counts the digits of a number, which needs a definition of its text.
