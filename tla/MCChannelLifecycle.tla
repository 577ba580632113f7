------------------------- MODULE MCChannelLifecycle -------------------------
(* Small instances of ChannelLifecycle. *)
EXTENDS ChannelLifecycle, TLC
============================================================================
