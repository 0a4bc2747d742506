---------------------------- MODULE MCNullStream ----------------------------
(* Values of NullStream's constants that a cfg cannot write.               *)
EXTENDS NullStream

(* A negative count, clamped to 0, and a count that needs several callbacks.*)
MCAfters == {-1, 2}
=============================================================================
