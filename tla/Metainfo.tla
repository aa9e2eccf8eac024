------------------------------ MODULE Metainfo ------------------------------
(***************************************************************************)
(* The format of a torrent (BEP 3, named in torrent_file.hpp:11): what a   *)
(* torrent says, and the source that says it, keys in order. The reading   *)
(* of the source is compared with this.                                    *)
(*                                                                         *)
(* A torrent is a record                                                   *)
(*   announce, comment  a string, "" when there is none                    *)
(*   announce_list      a sequence of sequences of strings                 *)
(*   date               a number, 0 when there is none                     *)
(*   single             whether it has the form of a single file           *)
(*   files              a sequence of [length, md5sum, path]               *)
(*   name, piece_length, pieces (a number of bytes)                        *)
(* and lexemes of keys the program does not know: in info before and after *)
(* the others (first, last), at the end of a file (file_last), at the end  *)
(* of the torrent (after).                                                 *)
(***************************************************************************)
EXTENDS BeParser, SequencesExt

When(condition, lexemes) == IF condition THEN lexemes ELSE << >>

Strs(s) == [i \in DOMAIN s |-> Str(s[i])]

List(lexemes) == << Mark("l") >> \o lexemes \o << Mark("e") >>
Dict(lexemes) == << Mark("d") >> \o lexemes \o << Mark("e") >>

Pair(key, value) == When(value # "", << Str(key), Str(value) >>)

SizeAndMd5(f) == << Str("length"), Num(f.length) >> \o Pair("md5sum", f.md5sum)

FileDict(t, f) ==
  Dict(SizeAndMd5(f) \o << Str("path") >> \o List(Strs(f.path)) \o t.file_last)

FileDicts(t) == FlattenSeq([i \in DOMAIN t.files |-> FileDict(t, t.files[i])])

InfoDict(t) ==
  Dict(t.first
       \o (IF t.single THEN SizeAndMd5(t.files[1])
           ELSE << Str("files") >> \o List(FileDicts(t)))
       \o << Str("name"), Str(t.name), Str("piece length"), Num(t.piece_length),
             Str("pieces"), Bytes("hashes", t.pieces) >>
       \o t.last)

BeforeInfo(t) ==
  << Mark("d") >>
  \o Pair("announce", t.announce)
  \o When(t.announce_list # << >>,
          << Str("announce-list") >>
          \o List(FlattenSeq([i \in DOMAIN t.announce_list |-> List(Strs(t.announce_list[i]))])))
  \o Pair("comment", t.comment)
  \o When(t.date # 0, << Str("creation date"), Num(t.date) >>)
  \o << Str("info") >>

Encode(t) == BeforeInfo(t) \o InfoDict(t) \o t.after \o << Mark("e") >>

(* How many structs are open after the first k lexemes of a source.        *)
Nesting(source, k) ==
  Cardinality({i \in 1 .. k : source[i].type \in {"l", "d"}})
    - Cardinality({i \in 1 .. k : source[i].type = "e"})

(* A source that is one dictionary: nothing in it, of keys the program     *)
(* does not know either, ends the dictionary before its last lexeme.       *)
OneDictionary(source) ==
  /\ source # << >> /\ source[1].type = "d"
  /\ \A k \in 1 .. Len(source) : Nesting(source, k) = 0 <=> k = Len(source)

(* The bytes of the value of info: those that name the torrent to a        *)
(* tracker and to a peer.                                                  *)
InfoBytes(t) == [from   |-> SizeOf(BeforeInfo(t)),
                 length |-> SizeOf(InfoDict(t))]

Announces(t) == {t.announce} \union UNION {ToSet(t.announce_list[i]) : i \in DOMAIN t.announce_list}

Sizes(t) == [i \in DOMAIN t.files |-> t.files[i].length]

(* Where file number i belongs, from the directory of the downloads.       *)
PathOf(t, i) == IF t.single THEN << t.name >> ELSE << t.name >> \o t.files[i].path
=============================================================================
