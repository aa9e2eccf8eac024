------------------------------ MODULE MCStartup ------------------------------
(***************************************************************************)
(* Torrents for TLC to look at. One of each layout of MCFiles, whole; and  *)
(* one layout with every other thing a torrent may say, one at a time,     *)
(* whole, cut after every lexeme, and followed by a new line.              *)
(***************************************************************************)
EXTENDS Startup, MCFiles

Paths == << << "a" >>, << "b", "c" >>, << "d" >>, << "e", "f", "g" >> >>

TorrentOf(s) ==
  [announce |-> "http://one", announce_list |-> << >>, comment |-> "", date |-> 0,
   single |-> Len(s) = 1,
   files |-> [i \in DOMAIN s |-> [length |-> s[i], md5sum |-> "", path |-> Paths[i]]],
   name |-> "n", piece_length |-> m_piece_size,
   pieces |-> 20 * ((EndOf(s, Len(s)) + m_piece_size - 1) \div m_piece_size),
   first |-> << >>, last |-> << >>, file_last |-> << >>, after |-> << >>]

Two == TorrentOf(<< 4, 1 >>)

Lists == { << << "udp://two" >> >>,
           << << "http://two", "http://local" >>, << "http://three" >> >> }

(* Keys that come after info, with a string, a list and a number.          *)
Afters == { << Str("url-list"), Str("http://mirror") >>,
            << Str("nodes") >> \o List(List(<< Str("h"), Num(6881) >>)),
            << Str("publisher-url"), Str("x") >>,
            << Str("z"), Num(1) >> }

FileTree == << Str("file tree") >> \o Dict(<< Str("a") >> \o Dict(<< Str("length"), Num(4) >>))

Variants ==
  {Two, TorrentOf(<< 4 >>)}
  \union {[Two EXCEPT !.announce = a, !.announce_list = l] :
            a \in {"", "bad", "http://one", "http://local"}, l \in Lists \union {<< >>}}
  \union {[Two EXCEPT !.comment = c, !.date = d] : c \in {"c", "announce", "info"}, d \in {0, 17}}
  \union {[Two EXCEPT !.after = a] : a \in Afters}
  \union {[Two EXCEPT !.last = << Str("private"), Num(1) >> \o l, !.after = a] :
            l \in {<< >>, << Str("source"), Str("s") >>}, a \in {<< >>} \union Afters}
  \union {[Two EXCEPT !.last = << Str("source"), Str("s") >>]}
  \union {[Two EXCEPT !.first = f] : f \in {<< Str("extra"), Num(1) >>, FileTree}}
  \union {[Two EXCEPT !.file_last = << Str("path.utf-8") >> \o List(<< Str("a") >>)]}
  \union {[Two EXCEPT !.pieces = n] : n \in {0, 39}}
  \union {[t EXCEPT !.files[1].md5sum = "m"] : t \in {Two, TorrentOf(<< 4 >>)}}
  \union {[Two EXCEPT !.single = FALSE, !.files = SubSeq(@, 1, 1)]}

(* The premise of HashRight on the string after info: the logarithm counts *)
(* the digits that stand in the source.                                    *)
ASSUME DigitsCounted == \A n \in 1 .. 1000 : digits(n) = Len(ToString(n))

TheSources ==
  LET whole(t) == Len(Encode(t))
  IN  {<< TorrentOf(s), whole(TorrentOf(s)) >> : s \in UnalignedLayouts}
      \union UNION {{t} \X (0 .. (whole(t) + 1)) : t \in Variants}
=============================================================================
