------------------------- MODULE MCVerificationCode -------------------------
(* Small instances of VerificationCode.  Sends, and logins, are alike. *)
EXTENDS VerificationCode, TLC

Symmetries == Permutations(Sends) \cup Permutations(Logins)
============================================================================
