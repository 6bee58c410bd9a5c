---------------------------- MODULE MCSubmission ----------------------------
(* TLC instance of Submission, with the Governor it extends.               *)
EXTENDS Submission

Submitted ==
    {[from |-> "own", attachments |-> FALSE, replies |-> TRUE],
     [from |-> "alias", attachments |-> TRUE, replies |-> TRUE],
     [from |-> "foreign", attachments |-> FALSE, replies |-> FALSE]}

Interchangeable ==
    Permutations(Conns) \cup Permutations(Callers \ Conns) \cup Permutations(MailIds)
=============================================================================
