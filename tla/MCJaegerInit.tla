---------------------------- MODULE MCJaegerInit ----------------------------
(* Small instances of JaegerInit for TLC: the constants are in the .cfg.     *)
EXTENDS JaegerInit
=============================================================================
