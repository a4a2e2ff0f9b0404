---------------------------- MODULE MCSignedLog ----------------------------
(* A console that signs every append and a command that signs checkpoints. *)
EXTENDS SignedLog

CONSTANTS console, command
=============================================================================
