------------------------------- MODULE MCFiles -------------------------------
(***************************************************************************)
(* Torrents for TLC to look at: up to MaxFiles files of up to MaxFileSize  *)
(* bytes, MaxFullSize together, in which no file but the last ends where a *)
(* piece ends (the layout computed for the others is wrong:                *)
(* torrent_file.cpp:276-284 moves on by one piece too many).               *)
(***************************************************************************)
EXTENDS Files

CONSTANTS MaxFiles, MaxFileSize, MaxFullSize

EndOf(s, i) == LET e[k \in 0 .. i] == IF k = 0 THEN 0 ELSE e[k - 1] + s[k] IN e[i]

AllLayouts == UNION {[1 .. n -> 0 .. MaxFileSize] : n \in 1 .. MaxFiles}

UnalignedLayouts ==
  {s \in AllLayouts : EndOf(s, Len(s)) \in 1 .. MaxFullSize
     /\ \A i \in 1 .. (Len(s) - 1) : EndOf(s, i) % m_piece_size # 0}
=============================================================================
