--------------------------- MODULE MCClientSession ---------------------------
(* Small instances of ClientSession for TLC. *)
EXTENDS ClientSession, TLC

CommandSymmetry == Permutations(Requests)
===============================================================================
