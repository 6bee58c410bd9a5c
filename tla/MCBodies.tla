------------------------------ MODULE MCBodies ------------------------------
(* Two mails, the second too large for the cache; the first has            *)
(* attachments in two lists, one of them also that of the second's.        *)
EXTENDS Bodies
TwoMails == 1 .. 2
Sizes == <<1, 3>>
Files == 1 .. 3
Attachments == << <<1, 2>>, <<3>> >>
FileLists == <<1, 2, 1>>
=============================================================================
