--------------------------- MODULE MCSessionLogin ---------------------------
(* TLC instance of SessionLogin.                                           *)
EXTENDS SessionLogin, TLC

Interchangeable == Permutations(Sessions)
=============================================================================
