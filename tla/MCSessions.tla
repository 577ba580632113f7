----------------------------- MODULE MCSessions -----------------------------
(* Sessions with model values; calls and refresh tokens are alike. *)
EXTENDS Sessions, TLC

Symmetries == Permutations(Calls) \cup Permutations(Tokens)
=============================================================================
