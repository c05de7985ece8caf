------------------------------ MODULE MCRaid5f ------------------------------
(* Values for the model checking of Raid5f.                                 *)
EXTENDS Raid5f, TLC

\* The I/Os differ in nothing but their names.
Symmetry == Permutations(IOs)

AnyData == StripeData
OneData == {NoData}

OutOfMemory == {"bdev_nomem", "accel_nomem"}
Refusals    == OutOfMemory \cup {"accel_submit"}
Errors      == {"bdev_io", "bdev_submit", "bdev_nomem", "accel_io", "alloc", "poison"}

=============================================================================
