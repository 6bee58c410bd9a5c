----------------------------- MODULE MCMailSync -----------------------------
(* Small instances of MailSync for TLC. *)
EXTENDS MailSync, TLC

(* Mails are interchangeable, and so are the folders of an account that    *)
(* starts with all of them.                                                *)
Symmetry == Permutations(Mail) \cup Permutations(Folder)

(* Bound: the batches, crashes and failed requests of a behaviour are at    *)
(* most three between them, so any three of them meet.                      *)
AtMostThree == Len(log) + crashes + fails <= 3
=============================================================================
