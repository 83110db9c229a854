--------------------------- MODULE MCTokenProvider ---------------------------
(* Model-checking instance of TokenProvider. *)
EXTENDS TokenProvider, TLC

\* Calls are interchangeable.
Calls == Permutations(Call)
=============================================================================
