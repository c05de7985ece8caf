----------------------------- MODULE MCHelloBdev -----------------------------
(* Values for the model checking of HelloBdev.                              *)
EXTENDS HelloBdev

AllFaults == {"start", "nomem", "submit", "io", "output"}
Both      == {"small", "large"}

=============================================================================
