---------------------------- MODULE MCCompression ----------------------------
(* Values for the model checking of Compression.                            *)
EXTENDS Compression

Both      == {"core", "sample"}
AllFaults == FaultKinds

=============================================================================
