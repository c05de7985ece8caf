------------------------------ MODULE MCLayout ------------------------------
(* Values for the model checking of Layout.                                 *)
EXTENDS Layout, TLC

AllLevels == {"raid0", "raid1", "concat", "raid5f"}

\* Sizes that fill their last strip, and sizes that do not; with the data
\* offset of 3, each leaves a strip of 2 at least.
Strided == {5, 6, 7, 8, 10}

=============================================================================
