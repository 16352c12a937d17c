------------------------------- MODULE MCChat -------------------------------
(* Instances of the chat page for TLC.                                     *)
EXTENDS ChatProperties
=============================================================================
