------------------------------- MODULE MCChat -------------------------------
(* The chat service on small instances, for TLC. *)
EXTENDS ChatProperties, TLC

Symmetry == Permutations(Procs)
\* No operation tells two chats apart that both start absent.
SymmetryOfBoth == Permutations(Procs) \union Permutations(ChatIds)
=============================================================================
