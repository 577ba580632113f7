---------------------------- MODULE MCThrottler ----------------------------
(* Small instances of Throttler: clients that share an address and one that
   does not. *)
EXTENDS Throttler, TLC
CONSTANTS c1, c2, c3, a1, a2

AddressOf == (c1 :> a1) @@ (c2 :> a1) @@ (c3 :> a2)
============================================================================
