----------------------------- MODULE MCBoardLink -----------------------------
(* BoardLink with files of one row; three messages of a file under way, so  *)
(* that a first read may hold its header and content; and two commands under*)
(* way, so that one read may hold both.  STANDBY is a command the board     *)
(* obeys and no code of the server sends yet.                               *)
EXTENDS BoardLink
=============================================================================
