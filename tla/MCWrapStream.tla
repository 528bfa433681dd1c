---------------------------- MODULE MCWrapStream ----------------------------
(* Instances of WrapStream for TLC. *)
EXTENDS WrapStream
=============================================================================
