--------------------------- MODULE MCPassthruBdev ----------------------------
(* Values for the model checking of PassthruBdev.                           *)
EXTENDS PassthruBdev

\* All the base bdevs come under one name, one after the other.
SecondLife == [x \in Bases |-> "base"]
AllFaults  == FaultKinds

=============================================================================
