------------------------------ MODULE MCBridge ------------------------------
(* Small instances of Bridge for TLC: its bounds are given in the .cfg files.  *)
EXTENDS Bridge
=============================================================================
