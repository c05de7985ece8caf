----------------------------- MODULE MCPassthru ------------------------------
(* Values for the model checking of Passthru.                               *)
EXTENDS Passthru

\* Each thread has an spdk_bdev_io of its own.
OwnThread == [i \in IOs |-> i]
AllTypes  == IoTypes
SomeData  == {"a", "head", "seam", "big"}
AllFaults == FaultKinds

=============================================================================
