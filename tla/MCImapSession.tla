--------------------------- MODULE MCImapSession ----------------------------
(* A small instance of ImapSession for TLC. *)
EXTENDS ImapSession
=============================================================================
