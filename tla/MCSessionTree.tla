--------------------------- MODULE MCSessionTree ---------------------------
(* Small instances of SessionTree for TLC. *)
EXTENDS SessionTree, TLC

FilePaths == Permutations(Files)
=============================================================================
