---------------------------- MODULE MCCodexLogin ----------------------------
(* CodexLogin with the transports of its calls.                            *)
EXTENDS CodexLogin

MCTransport == Connect \X {1, 2}
=============================================================================
