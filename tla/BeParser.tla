------------------------------ MODULE BeParser ------------------------------
(***************************************************************************)
(* Bencoding (classes BeParser and BeToken): a source, the content of a    *)
(* torrent file, is turned into a flat list of tokens.                     *)
(*                                                                         *)
(* A source is a sequence of lexemes: the marks "l", "d" and "e", integers *)
(* and strings, each with its size in bytes, so that the place of every    *)
(* token in the file is known without spelling the file out.               *)
(***************************************************************************)
EXTENDS Integers, Sequences, TLC

Mark(c) == [type |-> c, size |-> 1]

Num(n) == LET s == ToString(n)
          IN  [type |-> "INT", str |-> s, number |-> n, length |-> Len(s), size |-> Len(s) + 2]

(* A string of n bytes, named s; the prefix is its length and a colon.     *)
Bytes(s, n) == [type |-> "STR", str |-> s, number |-> 0, length |-> n,
                size |-> Len(ToString(n)) + 1 + n]

Str(s) == Bytes(s, Len(s))

(* "\n" stands for what is no lexeme.                                      *)
Lexeme ==
  [type: {"INT", "STR"}, str: STRING, number: Int, length: Nat, size: Nat]
    \union [type: {"l", "d", "e", "\n"}, size: {1}]

SizeOf(source) == LET n[k \in 0 .. Len(source)] ==
                        IF k = 0 THEN 0 ELSE n[k - 1] + source[k].size
                  IN  n[Len(source)]
-----------------------------------------------------------------------------
(* process_integer and process_string: the data begin after the "i", or    *)
(* after the length and the colon.                                         *)
Value(lexeme, offset) ==
  [type |-> lexeme.type, str |-> lexeme.str, number |-> lexeme.number, length |-> lexeme.length,
   start |-> IF lexeme.type = "INT" THEN offset + 1 ELSE offset + lexeme.size - lexeme.length]

TypeAtStart == [l |-> "LIST_START", d |-> "DICT_START"]
TypeAtEnd   == [l |-> "LIST_END", d |-> "DICT_END"]

(* The first and the last token of a struct hold no data of their own.     *)
Bound(type, offset) == [type |-> type, start |-> offset]

TokenSet ==
  [type: {"INT", "STR"}, str: STRING, number: Int, length: Nat, start: Int]
    \union [type: {"LIST_START", "LIST_END", "DICT_START", "DICT_END"}, start: Int]

(* What the calls of parse have come to: open are the calls of             *)
(* process_struct that have not returned, by their marks, the innermost    *)
(* first; read are the tokens.                                             *)
ParseState == [offset: Nat, open: Seq({"l", "d"}), read: Seq(TokenSet), threw: BOOLEAN]

ParseInit == [offset |-> 0, open |-> << >>, read |-> << >>, threw |-> FALSE]

Reads(s, lexeme, token, open) ==
  [offset |-> s.offset + lexeme.size, open |-> open, read |-> Append(s.read, token), threw |-> FALSE]

(* The next lexeme is a value, begins a struct, or is the "e" at which the *)
(* innermost call returns; what cannot begin anything throws.              *)
After(lexeme) == [s \in ParseState |->
  CASE ~s.threw /\ lexeme.type \in {"INT", "STR"} ->
         Reads(s, lexeme, Value(lexeme, s.offset), s.open)
    [] ~s.threw /\ lexeme.type \in {"l", "d"} ->
         Reads(s, lexeme, Bound(TypeAtStart[lexeme.type], s.offset), << lexeme.type >> \o s.open)
    [] ~s.threw /\ lexeme.type = "e" /\ s.open # << >> ->
         Reads(s, lexeme, Bound(TypeAtEnd[Head(s.open)], s.offset), Tail(s.open))
    [] OTHER -> [s EXCEPT !.threw = TRUE]]

Parsing(source) ==
  LET s[k \in 0 .. Len(source)] == IF k = 0 THEN ParseInit ELSE After(source[k])[s[k - 1]]
  IN  s

(* Mutant: a struct that the end of the source cuts gets no end token.     *)
parse_unended(source) ==
  LET s == Parsing(source)[Len(source)]
  IN  IF s.threw THEN << >> ELSE << s.read >>

(* BeParser::parse: at the end of the source every call of process_struct  *)
(* that is left returns, adds its end token and moves the offset on. The   *)
(* result is << tokens >>, or << >> for the exception.                     *)
parse(source) ==
  LET s == Parsing(source)[Len(source)]
  IN  IF s.threw THEN << >>
      ELSE << s.read \o [i \in DOMAIN s.open |-> Bound(TypeAtEnd[s.open[i]], s.offset + i - 1)] >>
=============================================================================
