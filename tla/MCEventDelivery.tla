-------------------------- MODULE MCEventDelivery --------------------------
(* Small instances of EventDelivery for TLC.  Workers are interchangeable in
   every safety property, and so are administrators; the liveness runs use no symmetry. *)
EXTENDS EventDelivery, TLC

Symmetry == Permutations(Workers) \cup Permutations(Admins)
============================================================================
