-------------------------- MODULE MCSignalingClient --------------------------
(* Small instances of SignalingClient for TLC. *)
EXTENDS SignalingClient
=============================================================================
