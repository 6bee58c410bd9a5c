------------------------------ MODULE MCBackup ------------------------------
(* An inbox, and a custom folder below the archive, one mail in each.      *)
EXTENDS Backup
Folders == 1 .. 3
Kinds == <<"Inbox", "Archive", "Custom">>
Parents == <<None, None, 2>>
Homes == <<1, 3>>
Lists == <<1, 1>>
=============================================================================
