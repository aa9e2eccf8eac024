------------------------------- MODULE Startup -------------------------------
(***************************************************************************)
(* What main does with a torrent: it is read (TorrentFile), its files are  *)
(* opened (Files), the tracker to ask is chosen (DownloadManager), twice,  *)
(* as main calls generate_url once for nothing, and its host looked up;    *)
(* from then on the pieces that come are written to the files (Files).     *)
(***************************************************************************)
EXTENDS TorrentFile, Files

CONSTANTS
  Local,      (* announces with the word "local" in them                   *)
  Invalid,    (* announces that are not URLs; "" is one                    *)
  NotHttp     (* announces with another protocol                           *)

ASSUME StartupAssumption ==
  /\ "" \in Invalid
  /\ \A s \in Sources : Sizes(s[1]) \in Layouts

VARIABLES
  stage,        (* of main: "TorrentFile", "Files", "first_url", "url",    *)
                (* "resolve", "running" or "ended"                         *)
  announce,     (* the place in available_announces that is looked at      *)
  valid_url,    (* what generate_url returned last, "" before that         *)
  unresolved    (* announces whose host was not found in this call         *)

urlVars  == << announce, valid_url, unresolved >>
fileVars == << control, id, begin, end, pwrites, finished, failed >>

StartupInit ==
  /\ ReadInit
  /\ sizes = << >>
  /\ control = "idle" /\ id = 0 /\ begin = 0 /\ end = 0
  /\ pwrites = {} /\ finished = {} /\ failed = {}
  /\ stage = "TorrentFile"
  /\ announce = 1 /\ valid_url = "" /\ unresolved = {}

(* TorrentFile tf(argv[1]): an exception ends the program.                 *)
read_torrent ==
  /\ stage = "TorrentFile"
  /\ \/ /\ ReadNext
        /\ UNCHANGED << stage, sizes >>
     \/ /\ reading \in {"refused", "crashed"}
        /\ stage' = "ended"
        /\ UNCHANGED << readVars, sizes >>
     \/ /\ reading = "loaded"
        /\ sizes' = [i \in DOMAIN tf.files |-> tf.files[i].size]
        /\ stage' = "Files"
        /\ UNCHANGED readVars
  /\ UNCHANGED << fileVars, urlVars >>

(* open_file for file i: its directory and then its path.                  *)
FullPath(i) == tf.dir_path \o tf.files[i].path

(* Files files(tf): every file is opened, or the program ends.             *)
open_files ==
  /\ stage = "Files"
  /\ stage' \in {"first_url", "ended"}
  /\ UNCHANGED << readVars, sizes, fileVars, urlVars >>
-----------------------------------------------------------------------------
available_announces == << tf.str["announce"] >> \o tf.announce_list

Generating == stage \in {"first_url", "url"}

Usable(url) == url \notin Local \union Invalid \union NotHttp

(* generate_url passes an announce over: one it cannot use, or whose host  *)
(* is not found.                                                           *)
announce_skipped ==
  /\ Generating /\ announce <= Len(available_announces)
  /\ LET i == available_announces[announce]
     IN  unresolved' = IF Usable(i) THEN unresolved \union {i} ELSE unresolved
  /\ announce' = announce + 1
  /\ UNCHANGED << readVars, sizes, fileVars, stage, valid_url >>

(* Mutant: the announces that are named local are not left out.            *)
announce_taken_local ==
  /\ Generating /\ announce <= Len(available_announces)
  /\ available_announces[announce] \notin Invalid \union NotHttp
  /\ valid_url' = available_announces[announce]
  /\ announce' = 1 /\ unresolved' = {}
  /\ stage' = IF stage = "first_url" THEN "url" ELSE "resolve"
  /\ UNCHANGED << readVars, sizes, fileVars >>

(* The first announce that can be used and whose host is found.            *)
announce_taken ==
  /\ Generating /\ announce <= Len(available_announces)
  /\ Usable(available_announces[announce])
  /\ valid_url' = available_announces[announce]
  /\ announce' = 1 /\ unresolved' = {}
  /\ stage' = IF stage = "first_url" THEN "url" ELSE "resolve"
  /\ UNCHANGED << readVars, sizes, fileVars >>

(* The exception "no valid announce".                                      *)
no_valid_announce ==
  /\ Generating /\ announce > Len(available_announces)
  /\ stage' = "ended"
  /\ UNCHANGED << readVars, sizes, fileVars, urlVars >>

(* main looks the host up once more, with the port: found or not.          *)
resolve ==
  /\ stage = "resolve"
  /\ stage' \in {"running", "ended"}
  /\ UNCHANGED << readVars, sizes, fileVars, urlVars >>

write_pieces ==
  /\ stage = "running"
  /\ Next
  /\ UNCHANGED << readVars, stage, urlVars >>

StartupNext ==
  \/ read_torrent \/ open_files
  \/ announce_skipped \/ announce_taken \/ no_valid_announce \/ resolve
  \/ write_pieces

startupVars == << readVars, sizes, fileVars, stage, urlVars >>

StartupSpec == StartupInit /\ [][StartupNext]_startupVars

(* Nothing main does before it waits for events waits for anything but the *)
(* answer of the name service, and neither does a write_piece.             *)
StartupFairSpec ==
  /\ StartupSpec
  /\ WF_startupVars(stage # "running" /\ StartupNext)
  /\ WF_startupVars(control # "idle" /\ write_pieces)
-----------------------------------------------------------------------------
(* The fillers look at the token after a key, and the hash at the token    *)
(* after info, without asking whether there is one: there always is,       *)
(* wherever the source is cut, because the parser ends every struct.       *)
InBounds ==
  /\ \/ reading = "process" /\ AtKey # ""
     \/ reading \in {"fill_info", "file"} /\ AtType("STR")
     => current_token + 1 < TOKENS_SIZE
  /\ reading = "sha1" =>
       \A i \in 0 .. (TOKENS_SIZE - 1) :
         Type(i) = "STR" /\ Token(i).str = "info" => i + 1 < TOKENS_SIZE

(* A torrent that is loaded is the torrent of the source, also when the    *)
(* source is cut, has keys the program does not know, or says the same     *)
(* with and without the optional keys: what is missing is refused. (A list *)
(* of one file is taken for the form of a single file, and gets another    *)
(* path: torrent_file.cpp:180.)                                            *)
LoadedAsNamed ==
  stage = "Files" =>
    /\ tf.str = [k \in {"announce", "comment"} |->
                   IF k = "announce" THEN torrent.announce ELSE torrent.comment]
    /\ tf.announce_list = FlattenSeq(torrent.announce_list)
    /\ tf.creation_date = torrent.date
    /\ tf.piece_size = torrent.piece_length
    /\ tf.pieces * SHA1_PIECE_LENGTH = torrent.pieces
    /\ [i \in DOMAIN tf.files |-> tf.files[i].size] = Sizes(torrent)
    /\ \A i \in DOMAIN tf.files :
         /\ tf.files[i].md5sum = torrent.files[i].md5sum
         /\ torrent.single \/ Len(tf.files) > 1 => FullPath(i) = PathOf(torrent, i)

(* The hash is of the bytes of the value of info and of no others: of the  *)
(* key that follows, whatever its length, nothing is taken. A source that  *)
(* is cut in info, or has the string "info" before the key, is left out:   *)
(* they get the hash of something else.                                    *)
HashOfInfo ==
  /\ stage = "Files"
  /\ kept >= Len(BeforeInfo(torrent) \o InfoDict(torrent))
  /\ torrent.comment # "info"
  => tf.info_sha1 = << InfoBytes(torrent) >>

(* The tracker that is asked is named by the torrent, and no announce that *)
(* could be asked is given up without having been looked up.               *)
TrackerNamed ==
  /\ valid_url # "" => valid_url \in Announces(torrent) /\ Usable(valid_url)
  /\ Generating /\ announce > Len(available_announces)
       => \A a \in Announces(torrent) : Usable(a) => a \in unresolved

(* Writing the files of the torrent that was read is writing the files     *)
(* that the torrent is about.                                              *)
Abstract == INSTANCE Files WITH sizes <- Sizes(torrent)
WritesTheTorrent == Abstract!Spec

(* A torrent that is whole and in which path is the last key of a file and *)
(* info has no dictionary within is loaded, and then the program runs or   *)
(* ends: reading does not stop or crash.                                   *)
WholeIsLoaded ==
  /\ Whole /\ torrent.file_last = << >> /\ torrent.first = << >>
  /\ torrent.pieces > 0 /\ torrent.pieces % SHA1_PIECE_LENGTH = 0
  ~> reading = "loaded" /\ stage \in {"running", "ended"}
=============================================================================
