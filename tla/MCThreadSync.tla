---------------------------- MODULE MCThreadSync ----------------------------
(* Small instances of thread synchronisation. *)
EXTENDS ThreadSync

=============================================================================
