----------------------------- MODULE MCRaidBdev -----------------------------
(* Values for the model checking of RaidBdev.                               *)
EXTENDS RaidBdev, TLC

\* Slots, threads and RPCs differ in nothing but their names; a slot that is
\* Small is none of those.
Symmetry ==
  Permutations(Slots \ Small) \cup Permutations(Threads) \cup Permutations(DeleteRpcs)
    \cup Permutations(RemoveRpcs)

AllLevels   == {"raid5f", "raid1", "raid0"}
Troubles    == {"claimed", "mismatch", "shutdown"}
Concurrency == {"overlap", "quiesce_fails", "register_fails", "late_channel"}

=============================================================================
