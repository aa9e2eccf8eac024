-------------------------------- MODULE Files --------------------------------
(***************************************************************************)
(* The files of a torrent (classes TorrentFile, File and Files): which     *)
(* pieces a file begins and ends in, computed when the torrent is read,    *)
(* and the writing of a piece to the files that have a part of it.         *)
(*                                                                         *)
(* A byte is named by its position in the torrent, that is, in the files   *)
(* laid end to end; of a file, what pwrite did to it is kept.              *)
(***************************************************************************)
EXTENDS Integers, Sequences

CONSTANTS
  m_piece_size,
  Layouts  (* sequences of file sizes: the torrents looked at              *)

ASSUME FilesAssumption ==
  /\ m_piece_size \in Nat \ {0}
  /\ Layouts \subseteq Seq(Nat)

VARIABLES
  sizes,     (* sizes of the files of the torrent: its files are           *)
             (* 0 .. Len(sizes) - 1                                        *)
  control,   (* of write_piece: "idle", "search", "back" or "write"        *)
  id,        (* the piece that is written                                  *)
  begin,     (* the bounds of the search; then begin is its result and the *)
  end,       (* file to write                                              *)
  pwrites,   (* calls of pwrite that succeeded                             *)
  finished,  (* pieces write_piece returned for                            *)
  failed     (* pieces write_piece threw for                               *)

vars == << sizes, control, id, begin, end, pwrites, finished, failed >>

SIZE    == Len(sizes)
FileIds == 0 .. (SIZE - 1)

(* fill_piece_offsets: piece_index and offset before file number i; one    *)
(* that ends where a piece ends moves piece_index a second time.           *)
Position == LET
    p[i \in 0 .. SIZE] ==
      IF i = 0 THEN [index |-> 0, offset |-> 0]
      ELSE LET offset == p[i - 1].offset + sizes[i]
               index  == p[i - 1].index + offset \div m_piece_size
           IN  [index  |-> IF offset % m_piece_size = 0 THEN index + 1 ELSE index,
                offset |-> offset % m_piece_size]
  IN p

first_piece(f) == Position[f]

last_piece(f) ==
  LET offset == Position[f].offset + sizes[f + 1]
      rest   == offset % m_piece_size
  IN  [index  |-> Position[f].index + offset \div m_piece_size,
       offset |-> IF rest = 0 THEN m_piece_size ELSE rest]

(* Where file number f begins in the torrent.                              *)
Start == LET s[f \in 0 .. SIZE] == IF f = 0 THEN 0 ELSE s[f - 1] + sizes[f] IN s

m_full_size == Start[SIZE]
Pieces      == 0 .. ((m_full_size + m_piece_size - 1) \div m_piece_size - 1)

(* The size of the buffer that the caller passes for piece p.              *)
SourceSize(p) ==
  IF (p + 1) * m_piece_size <= m_full_size THEN m_piece_size
  ELSE m_full_size % m_piece_size

Init ==
  /\ sizes \in Layouts
  /\ control = "idle"
  /\ id = 0 /\ begin = 0 /\ end = 0
  /\ pwrites = {} /\ finished = {} /\ failed = {}
-----------------------------------------------------------------------------
(* Files::write_piece, for a piece that was not written before.            *)
write_piece(p) ==
  /\ control = "idle"
  /\ p \notin finished \union failed
  /\ control' = "search"
  /\ id' = p /\ begin' = 0 /\ end' = SIZE
  /\ UNCHANGED << sizes, pwrites, finished, failed >>

Middle == (end + begin) \div 2

(* Mutant: the upper bound is not narrowed enough.                         *)
search_inclusive ==
  /\ control = "search"
  /\ \/ /\ id > last_piece(Middle).index
        /\ begin' = Middle
        /\ UNCHANGED << control, end >>
     \/ /\ id <= last_piece(Middle).index /\ id < first_piece(Middle).index
        /\ end' = Middle + 1
        /\ UNCHANGED << control, begin >>
     \/ /\ first_piece(Middle).index <= id /\ id <= last_piece(Middle).index
        /\ control' = "back" /\ begin' = Middle /\ end' = 0
  /\ UNCHANGED << sizes, id, pwrites, finished, failed >>

(* One call of the recursive search.                                       *)
search ==
  /\ control = "search"
  /\ \/ /\ id > last_piece(Middle).index
        /\ begin' = Middle
        /\ UNCHANGED << control, end >>
     \/ /\ id <= last_piece(Middle).index /\ id < first_piece(Middle).index
        /\ end' = Middle
        /\ UNCHANGED << control, begin >>
     \/ /\ first_piece(Middle).index <= id /\ id <= last_piece(Middle).index
        /\ control' = "back" /\ begin' = Middle /\ end' = 0
  /\ UNCHANGED << sizes, id, pwrites, finished, failed >>

(* Mutant: `middle &&` is left out.                                        *)
step_back_unchecked ==
  /\ control = "back"
  /\ IF first_piece(begin).index = id
     THEN begin' = begin - 1 /\ UNCHANGED control
     ELSE control' = "write" /\ UNCHANGED begin
  /\ UNCHANGED << sizes, id, end, pwrites, finished, failed >>

(* The loop at its end: back over the files that begin in the piece.       *)
step_back ==
  /\ control = "back"
  /\ \/ /\ begin # 0 /\ first_piece(begin).index = id
        /\ begin' = begin - 1
        /\ UNCHANGED control
     \/ /\ begin = 0 \/ first_piece(begin).index # id
        /\ control' = "write"
        /\ UNCHANGED begin
  /\ UNCHANGED << sizes, id, end, pwrites, finished, failed >>

(* Mutant: a file is taken to begin where its first piece begins.          *)
Slice_from_piece(f) ==
  [file |-> f,
   from |-> id * m_piece_size,
   size |-> IF id = last_piece(f).index THEN last_piece(f).offset ELSE SourceSize(id),
   at   |-> IF id = first_piece(f).index THEN 0
            ELSE m_piece_size - first_piece(f).offset
                 + (id - first_piece(f).index) * m_piece_size]

(* File::write_piece: the part of the piece that file f gets; from is the  *)
(* byte of the torrent it begins with, at the offset in the file.          *)
Slice(f) ==
  LET first  == first_piece(f)
      offset == IF id = first.index THEN first.offset ELSE 0
  IN  [file |-> f,
       from |-> id * m_piece_size + offset,
       size |-> (IF id = last_piece(f).index THEN last_piece(f).offset ELSE SourceSize(id)) - offset,
       at   |-> IF id = first.index THEN 0
                ELSE m_piece_size - first.offset + (id - first.index) * m_piece_size]

Outside(f) == id < first_piece(f).index \/ id > last_piece(f).index

(* Mutant: only the first file is written.                                 *)
write_file_once ==
  /\ control = "write"
  /\ pwrites' = IF Outside(begin) THEN pwrites ELSE pwrites \union {Slice(begin)}
  /\ control' = "idle" /\ begin' = 0
  /\ finished' = finished \union {id}
  /\ UNCHANGED << sizes, id, end, failed >>

(* A file is written, or left alone when the piece lies outside it, and    *)
(* the loop goes on with the next file if that begins in the piece.        *)
write_file ==
  /\ control = "write"
  /\ pwrites' = IF Outside(begin) THEN pwrites ELSE pwrites \union {Slice(begin)}
  /\ \/ /\ begin + 1 < SIZE /\ first_piece(begin + 1).index = id
        /\ begin' = begin + 1
        /\ UNCHANGED << control, finished >>
     \/ /\ begin + 1 >= SIZE \/ first_piece(begin + 1).index # id
        /\ control' = "idle" /\ begin' = 0
        /\ finished' = finished \union {id}
  /\ UNCHANGED << sizes, id, end, failed >>

(* pwrite fails or is short: the exception leaves what was written.        *)
write_file_throws ==
  /\ control = "write" /\ ~Outside(begin)
  /\ control' = "idle" /\ begin' = 0
  /\ failed' = failed \union {id}
  /\ UNCHANGED << sizes, id, end, pwrites, finished >>

Next ==
  \/ \E p \in Pieces : write_piece(p)
  \/ search \/ step_back \/ write_file \/ write_file_throws

Spec == Init /\ [][Next]_vars
-----------------------------------------------------------------------------
(* The type of every variable.                                             *)
TypeOK ==
  /\ sizes \in Seq(Nat)
  /\ control \in {"idle", "search", "back", "write"}
  /\ id \in Nat
  /\ begin \in FileIds \union {0} /\ end \in 0 .. SIZE
  /\ pwrites \subseteq [file: FileIds, from: Nat, size: Nat, at: Nat]
  /\ finished \subseteq Pieces /\ failed \subseteq Pieces

(* A file is given only bytes of its own, whatever the piece holds before  *)
(* and after them.                                                         *)
OnlyOwnBytes ==
  \A w \in pwrites : w.size > 0 =>
    Start[w.file] <= w.from /\ w.from + w.size <= Start[w.file + 1]

(* A piece that write_piece returned for has been written to the last      *)
(* byte, to every file that begins, ends or lies in it.                    *)
FinishedWhole ==
  \A p \in finished : \A b \in (p * m_piece_size) .. (p * m_piece_size + SourceSize(p) - 1) :
    \E w \in pwrites : /\ w.from <= b /\ b < w.from + w.size
                       /\ Start[w.file] <= b /\ b < Start[w.file + 1]

(* The search finds a file, however many files share the piece, and the    *)
(* loops end: write_piece returns or throws.                               *)
WritingEnds == control # "idle" ~> control = "idle"

(* The format torrent_file.hpp:11 refers to (BEP 3) lays the files end to  *)
(* end: a byte of the torrent belongs at its distance from the start of    *)
(* its file.                                                               *)
WrittenInPlace == \A w \in pwrites : w.size > 0 => w.at = w.from - Start[w.file]
=============================================================================
