------------------------------ MODULE MCRaidIo ------------------------------
(* Values for the model checking of RaidIo.                                 *)
EXTENDS RaidIo

AllLevels == {"raid1", "raid0", "concat"}
Expected  == {"nomem", "submit", "io", "buffer"}

=============================================================================
