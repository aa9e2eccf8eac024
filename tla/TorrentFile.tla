----------------------------- MODULE TorrentFile -----------------------------
(***************************************************************************)
(* The constructor of class TorrentFile: the tokens of the source are      *)
(* walked by TokenListProcessor::process, which calls a filler for each    *)
(* key it knows; then the hash of info and the layout are computed.        *)
(*                                                                         *)
(* Tokens are numbered from 0, as in the code. The source is the torrent's *)
(* own, cut after any lexeme or followed by something else.                *)
(***************************************************************************)
EXTENDS Metainfo

CONSTANT Sources  (* << torrent, number of lexemes kept of its source >>     *)

ASSUME SourcesAssumption ==
  \A s \in Sources :
    /\ Encode(s[1]) \in Seq(Lexeme)
    /\ s[2] \in 0 .. (Len(Encode(s[1])) + 1)
    /\ OneDictionary(Encode(s[1]))
    /\ s[1].announce_list \in Seq(Seq(STRING))

VARIABLES
  torrent,        (* the torrent the source is of                          *)
  kept,           (* how many lexemes of it the source has; one more than  *)
                  (* there are: with a new line at the end                 *)
  tokens,         (* local to the constructor, as is current_token         *)
  current_token,
  reading,        (* where the constructor is: "parse", the function that  *)
                  (* runs, "loaded", or how it ended: "refused" (it threw) *)
                  (* or "crashed" (a division by zero)                     *)
  tf              (* the members                                           *)

readVars == << torrent, kept, tokens, current_token, reading, tf >>

Source == SubSeq(Append(Encode(torrent), Mark("\n")), 1, kept)

Whole == kept = Len(Encode(torrent))

TOKENS_SIZE == Len(tokens)
Token(i)    == tokens[i + 1]
Type(i)     == Token(i).type

AtType(type) == current_token < TOKENS_SIZE /\ Type(current_token) = type

FileInfo == [path |-> << >>, md5sum |-> "", size |-> 0]

ReadInit ==
  /\ \E s \in Sources : torrent = s[1] /\ kept = s[2]
  /\ tokens = << >> /\ current_token = 0
  /\ reading = "parse"
  /\ tf = [str           |-> [k \in {"announce", "comment"} |-> ""],
           creation_date |-> 0,
           announce_list |-> << >>,
           piece_size    |-> 0,
           pieces        |-> 0,
           dir_name      |-> "",
           dir_path      |-> << >>,
           files         |-> << >>,
           info_sha1     |-> << >>]

(* The exception of the parser is the constructor's.                       *)
parse_tokens ==
  /\ reading = "parse"
  /\ \E source \in {Source} : \E parsed \in {parse(source)} :
       /\ tokens' = IF parsed = << >> THEN << >> ELSE parsed[1]
       /\ reading' = IF parsed = << >> THEN "refused" ELSE "process"
  /\ UNCHANGED << torrent, kept, current_token, tf >>
-----------------------------------------------------------------------------
(* TokenListProcessor::process, at the token that is next: a key that has  *)
(* a filler, or a token to step over.                                      *)
Keys == {"announce", "comment", "announce-list", "creation date", "info"}

AtKey == IF AtType("STR") /\ Token(current_token).str \in Keys
         THEN Token(current_token).str ELSE ""

Processing == reading = "process" /\ current_token < TOKENS_SIZE

skip_token ==
  /\ Processing /\ AtKey = ""
  /\ current_token' = current_token + 1
  /\ UNCHANGED << torrent, kept, tokens, reading, tf >>

(* fill_announce and fill_str; the code has two more keys like "comment".  *)
fill_str ==
  /\ Processing /\ AtKey \in {"announce", "comment"}
  /\ tf' = IF Type(current_token + 1) = "STR"
           THEN [tf EXCEPT !.str[AtKey] = Token(current_token + 1).str] ELSE tf
  /\ current_token' = current_token + 2
  /\ UNCHANGED << torrent, kept, tokens, reading >>

fill_creation_date ==
  /\ Processing /\ AtKey = "creation date"
  /\ tf' = IF Type(current_token + 1) = "INT"
           THEN [tf EXCEPT !.creation_date = Token(current_token + 1).number] ELSE tf
  /\ current_token' = current_token + 2
  /\ UNCHANGED << torrent, kept, tokens, reading >>

(* The loop of read_lists, over the list that begins at token i, when it   *)
(* is at token j: how many lists are open, and the values so far.          *)
ListRead(i) ==
  LET list[j \in (i + 1) .. TOKENS_SIZE] ==
        IF j = i + 1
        THEN [depth |-> IF Type(i) = "LIST_START" THEN 1 ELSE 0, output |-> << >>]
        ELSE CASE Type(j - 1) = "LIST_START" -> [list[j - 1] EXCEPT !.depth = @ + 1]
               [] Type(j - 1) = "LIST_END"   -> [list[j - 1] EXCEPT !.depth = @ - 1]
               [] Type(j - 1) \in {"STR", "INT"} ->
                    [list[j - 1] EXCEPT !.output = Append(@, Token(j - 1).str)]
               [] OTHER -> list[j - 1]
  IN  list

(* Mutant: the first list that ends is taken for the end.                  *)
read_lists_flat(i) ==
  LET stops == {j \in (i + 1) .. TOKENS_SIZE : j = TOKENS_SIZE \/ Type(j - 1) = "LIST_END"}
  IN  [output |-> ListRead(i)[Min(stops)].output, next |-> Min(stops)]

(* read_lists from token i: the values in the list that begins there and   *)
(* in those within it, and the token at which the loop stops.              *)
read_lists(i) ==
  LET stops == {j \in (i + 1) .. TOKENS_SIZE : \/ j = TOKENS_SIZE
                                               \/ ListRead(i)[j].depth = 0
                                               \/ Type(j) \in {"DICT_START", "DICT_END"}}
  IN  [output |-> ListRead(i)[Min(stops)].output, next |-> Min(stops)]

fill_announce_list ==
  /\ Processing /\ AtKey = "announce-list"
  /\ \E list \in {read_lists(current_token + 1)} :
       /\ tf' = [tf EXCEPT !.announce_list = list.output]
       /\ current_token' = list.next
  /\ UNCHANGED << torrent, kept, tokens, reading >>

process_ends ==
  /\ reading = "process" /\ current_token >= TOKENS_SIZE
  /\ reading' = "sha1"
  /\ UNCHANGED << torrent, kept, tokens, current_token, tf >>
-----------------------------------------------------------------------------
(* fill_info: entered at a dictionary only.                                *)
fill_info ==
  /\ Processing /\ AtKey = "info"
  /\ \/ /\ Type(current_token + 1) = "DICT_START"
        /\ current_token' = current_token + 2
        /\ tf' = [tf EXCEPT !.files = Append(@, FileInfo)]
        /\ reading' = "fill_info"
     \/ /\ Type(current_token + 1) # "DICT_START"
        /\ current_token' = TOKENS_SIZE
        /\ UNCHANGED << reading, tf >>
  /\ UNCHANGED << torrent, kept, tokens >>

InInfo == reading = "fill_info" /\ AtType("STR")

(* The key at current_token and the value after it.                        *)
At(key, type) == Token(current_token).str = key /\ Type(current_token + 1) = type
TheStr    == Token(current_token + 1).str
TheNumber == Token(current_token + 1).number

(* A key of info whose value is one token, or which is not known: then the *)
(* value is stepped into, if it is a struct.                               *)
info_value ==
  /\ InInfo
  /\ ~At("pieces", "STR") /\ ~At("files", "LIST_START")
  /\ tf' = CASE At("piece length", "INT") -> [tf EXCEPT !.piece_size = TheNumber]
             [] At("name", "STR")         -> [tf EXCEPT !.dir_name = TheStr]
             [] At("md5sum", "STR")       -> [tf EXCEPT !.files[1].md5sum = TheStr]
             [] At("length", "INT")       -> [tf EXCEPT !.files[1].size = TheNumber]
             [] OTHER                     -> tf
  /\ current_token' = current_token + 2
  /\ UNCHANGED << torrent, kept, tokens, reading >>

(* fill_pieces: it steps over its value, and its caller steps once more.   *)
SHA1_PIECE_LENGTH == 20

fill_pieces ==
  /\ InInfo /\ At("pieces", "STR")
  /\ LET length == Token(current_token + 1).length
     IN  \/ /\ length % SHA1_PIECE_LENGTH # 0
            /\ reading' = "refused"
            /\ UNCHANGED << current_token, tf >>
         \/ /\ length % SHA1_PIECE_LENGTH = 0
            /\ tf' = [tf EXCEPT !.pieces = @ + length \div SHA1_PIECE_LENGTH]
            /\ current_token' = current_token + 3
            /\ UNCHANGED reading
  /\ UNCHANGED << torrent, kept, tokens >>

fill_files ==
  /\ InInfo /\ At("files", "LIST_START")
  /\ current_token' = current_token + 2
  /\ reading' = "first_file"
  /\ UNCHANGED << torrent, kept, tokens, tf >>

(* The loop of fill_info ends, at the end of the dictionary or at what     *)
(* cannot be a key; the files get their directory.                         *)
info_ends ==
  /\ reading = "fill_info" /\ ~AtType("STR")
  /\ current_token' = IF AtType("DICT_END") THEN current_token + 1 ELSE TOKENS_SIZE
  /\ tf' = IF Len(tf.files) = 1
           THEN [tf EXCEPT !.files[1].path = Append(@, tf.dir_name)]
           ELSE [tf EXCEPT !.dir_path = << tf.dir_name >>]
  /\ reading' = "process"
  /\ UNCHANGED << torrent, kept, tokens >>
-----------------------------------------------------------------------------
(* Mutant: a FileInfo is added for the first file, too.                    *)
file_begins_always ==
  /\ reading \in {"first_file", "next_file"} /\ AtType("DICT_START")
  /\ tf' = [tf EXCEPT !.files = Append(@, FileInfo)]
  /\ current_token' = current_token + 1
  /\ reading' = "file"
  /\ UNCHANGED << torrent, kept, tokens >>

(* fill_files: the next file; the first one has its FileInfo already.      *)
file_begins ==
  /\ reading \in {"first_file", "next_file"} /\ AtType("DICT_START")
  /\ tf' = IF reading = "first_file" THEN tf ELSE [tf EXCEPT !.files = Append(@, FileInfo)]
  /\ current_token' = current_token + 1
  /\ reading' = "file"
  /\ UNCHANGED << torrent, kept, tokens >>

(* Mutant: nothing steps over the end of the list.                         *)
files_end_stays ==
  /\ reading \in {"first_file", "next_file"} /\ ~AtType("DICT_START")
  /\ reading' = "fill_info"
  /\ UNCHANGED << torrent, kept, tokens, current_token, tf >>

(* Back in fill_info, which steps over the token it finds.                 *)
files_end ==
  /\ reading \in {"first_file", "next_file"} /\ ~AtType("DICT_START")
  /\ current_token' = current_token + 1
  /\ reading' = "fill_info"
  /\ UNCHANGED << torrent, kept, tokens, tf >>

Back == Len(tf.files)

(* A key of a file. Its end is stepped over by the increment after a path, *)
(* so the path is expected to be the last key.                             *)
file_value ==
  /\ reading = "file" /\ AtType("STR")
  /\ \/ /\ At("path", "LIST_START")
        /\ \E path \in {read_lists(current_token + 1)} :
             /\ tf' = [tf EXCEPT !.files[Back].path = @ \o path.output]
             /\ current_token' = path.next + 1
     \/ /\ ~At("path", "LIST_START")
        /\ tf' = CASE At("md5sum", "STR") -> [tf EXCEPT !.files[Back].md5sum = TheStr]
                   [] At("length", "INT") -> [tf EXCEPT !.files[Back].size = TheNumber]
                   [] OTHER               -> tf
        /\ current_token' = current_token + 2
  /\ UNCHANGED << torrent, kept, tokens, reading >>

file_ends ==
  /\ reading = "file" /\ ~AtType("STR")
  /\ reading' = "next_file"
  /\ UNCHANGED << torrent, kept, tokens, current_token, tf >>
-----------------------------------------------------------------------------
(* The digits of the length of a string, by its logarithm. (For a string   *)
(* of no bytes, log10 gives what the build makes of an infinity; such a    *)
(* key is not looked at.)                                                  *)
digits(length) ==
  (CHOOSE n \in 0 .. length : 10 ^ n <= length /\ length < 10 ^ (n + 1)) + 1

(* Mutant: the colon of a string that follows info is forgotten.           *)
length_modifier_short(token) ==
  CASE token.type = "INT" -> 1
    [] token.type = "STR" -> digits(token.length)
    [] OTHER              -> 0

(* The bytes between the start of a token's data and the end of the token  *)
(* before it.                                                              *)
length_modifier(token) ==
  CASE token.type = "INT" -> 1
    [] token.type = "STR" -> digits(token.length) + 1
    [] OTHER              -> 0

(* How many dictionaries the loop over the value of info, which begins at  *)
(* token i, has open when it comes to token j.                             *)
dict_depth(i, j) ==
  Cardinality({k \in i .. (j - 1) : Type(k) = "DICT_START"})
    - Cardinality({k \in i .. (j - 1) : Type(k) = "DICT_END"})

(* What is hashed: the source from the token after the first string        *)
(* "info" up to the token after that struct.                               *)
Hashed ==
  LET infos == {i \in 0 .. (TOKENS_SIZE - 1) : Type(i) = "STR" /\ Token(i).str = "info"}
      value == 1 + Min(infos)
      stops == {j \in (value + 1) .. TOKENS_SIZE : j = TOKENS_SIZE \/ dict_depth(value, j) = 0}
      after == Min(stops)
      from  == Token(value).start
      asked == Token(after).start - from - length_modifier(Token(after))
  IN  IF infos = {} \/ after = TOKENS_SIZE THEN << >>
      ELSE << [from   |-> from,
               length |-> IF from + asked <= SizeOf(Source) THEN asked
                          ELSE SizeOf(Source) - from] >>

calculate_info_sha1 ==
  /\ reading = "sha1"
  /\ tf' = [tf EXCEPT !.info_sha1 = Hashed]
  /\ reading' = "offsets"
  /\ UNCHANGED << torrent, kept, tokens, current_token >>

(* fill_piece_offsets; the layout itself is in module Files. The tokens    *)
(* go out of scope.                                                        *)
fill_piece_offsets ==
  /\ reading = "offsets"
  /\ reading' = CASE tf.files # << >> /\ tf.piece_size = 0 -> "crashed"
                  [] tf.pieces = 0                         -> "refused"
                  [] OTHER                                 -> "loaded"
  /\ tokens' = << >> /\ current_token' = 0
  /\ UNCHANGED << torrent, kept, tf >>

ReadNext ==
  \/ parse_tokens \/ skip_token \/ fill_str \/ fill_creation_date \/ fill_announce_list
  \/ process_ends \/ fill_info \/ info_value \/ fill_pieces \/ fill_files \/ info_ends
  \/ file_begins \/ file_value \/ file_ends \/ files_end
  \/ calculate_info_sha1 \/ fill_piece_offsets
=============================================================================
