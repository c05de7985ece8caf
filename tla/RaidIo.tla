------------------------------- MODULE RaidIo -------------------------------
(***************************************************************************)
(* One I/O channel of a raid bdev of level raid1, raid0 or concat           *)
(* (src/raid/raid1.c, raid0.c, concat.c), and the reset of any level        *)
(* (raid_bdev_submit_reset_request of src/raid/bdev_raid.c): how an I/O is  *)
(* handed to one base bdev, or to several in a loop that stops when a base  *)
(* bdev has no spdk_bdev_io left and goes on when one is free.              *)
(*                                                                          *)
(* A callback is one action, as in Raid5f.  A logical block is in one       *)
(* place, or with raid1 in as many as there are base bdevs; which blocks    *)
(* an I/O covers where is the matter of Layout, so that here the contents   *)
(* of a base bdev are one bit, and a flush or an unmap has only the base    *)
(* bdevs it goes to.                                                        *)
(***************************************************************************)
EXTENDS Integers, Sequences, FiniteSets, FiniteSetsExt

CONSTANTS
  Levels,        \* the raid levels looked at
  NumBaseBdevs,  \* raid_bdev->num_base_bdevs
  IOs,           \* the I/Os of the users of the raid bdev, each submitted once
  Types,         \* the types they have
  MaxBlocks,     \* the longest read, in blocks
  Removable,     \* the base bdevs that may be hot-removed
  Faults         \* what may go wrong below the channel

IoTypes == {"read", "write", "reset", "null"}

FaultKinds ==
  { "nomem",   \* a base bdev submission returns -ENOMEM
    "submit",  \* ... or another error,
    "unexpected", \* also to a loop that asserts it does not
    "io",      \* a base bdev I/O completes with success = false
    "buffer" } \* the bdev layer finds no buffer for a read

ASSUME LevelAssumption == Levels \subseteq {"raid1", "raid0", "concat"}
ASSUME NumAssumption   == NumBaseBdevs \in Nat \ {0} /\ MaxBlocks \in Nat \ {0}
ASSUME TypeAssumption  == /\ Types \subseteq IoTypes
                          /\ Faults \subseteq FaultKinds
\* One base bdev stays at least.
ASSUME RemovableAssumption == Removable \subseteq 0 .. NumBaseBdevs - 2

VARIABLES
  level,    \* raid_bdev->level
  io,       \* the raid_bdev_io of each I/O
  counter,  \* raid1_ch->read_blocks_outstanding
  baseCh,   \* the slots whose raid_ch->base_channel is not NULL
  disk,     \* what each base bdev holds
  crashed,  \* an assertion has failed in a debug build
  want,     \* history: what the last write left in each block, if that is known
  clean     \* history: the I/Os no conflicting I/O of their block overlapped

vars == <<level, io, counter, baseCh, disk, crashed, want, clean>>

Slots  == 0 .. NumBaseBdevs - 1
Mirror == level = "raid1"
Bits   == 0 .. 1

\* The blocks worth telling apart, and the base bdevs each of them is on.
Blocks   == IF Mirror THEN {0} ELSE Slots
Place(b) == IF Mirror THEN Slots ELSE {b}

-----------------------------------------------------------------------------
(* A raid_bdev_io.  ph: not submitted, in the module, completed with res.   *)
(* waits: its io_wait callback is queued.  to: the slots it goes to, in the *)
(* order of the loop; rem, sub and status are the base_bdev_io_ fields, sub *)
(* being the slot that is read for a raid1 read.  out: where it is under    *)
(* way.                                                                     *)

IoRecord ==
  [ph : {"idle", "active", "done"}, waits : BOOLEAN, type : IoTypes, b : Blocks, n : 1 .. MaxBlocks,
   data : Bits, to : UNION {[1 .. n -> Slots] : n \in 0 .. NumBaseBdevs},
   rem : 0 .. NumBaseBdevs, sub : 0 .. NumBaseBdevs, status : {"success", "failed"},
   res : {"none", "success", "failed"}, out : SUBSET Slots, buf : Bits]

\* raid_bdev_io_complete
Complete(x, st) == [x EXCEPT !.ph = "done", !.res = st]

\* raid_bdev_io_complete_part
MutCompletePart(x, n, st) ==
  LET y == [x EXCEPT !.rem = @ - n, !.status = st]
  IN  IF y.rem = 0 THEN Complete(y, y.status) ELSE y

CompletePart(x, n, st) ==
  LET y == [x EXCEPT !.rem = @ - n, !.status = IF st = "success" THEN @ ELSE st]
  IN  IF y.rem = 0 THEN Complete(y, y.status) ELSE y

\* raid_bdev_queue_io_wait
QueueIoWait(x) == [x EXCEPT !.waits = TRUE]

\* What a reset, raid0 and concat do not expect: assert(false), which stops a
\* debug build, and the I/O is completed as failed.
Result(x)     == [x |-> x, crash |-> FALSE]
Unexpected(x) == {[x |-> x, crash |-> TRUE], Result(Complete(x, "failed"))}

-----------------------------------------------------------------------------
(* The I/Os that go to several base bdevs: raid1_submit_write_request,      *)
(* raid_bdev_submit_reset_request, raid0_ and concat_submit_null_payload_   *)
(* request.                                                                 *)

MirrorWrite(x) == Mirror /\ x.type = "write"
FansOut(x)     == MirrorWrite(x) \/ x.type \in {"reset", "null"}

\* Where the loop goes; c: the number of base bdevs a flush or an unmap spans.
Wraps(slot)      == level = "raid0" \/ slot < NumBaseBdevs
Targets(x, c)    == IF x.type = "null" THEN [j \in 1 .. c |-> (x.b + j - 1) % NumBaseBdevs]
                    ELSE [j \in 1 .. NumBaseBdevs |-> j - 1]
Spans(x)         == IF x.type # "null" THEN {NumBaseBdevs}
                    ELSE {c \in 1 .. NumBaseBdevs : Wraps(x.b + c - 1)}

\* What base_bdev_io_remaining starts from.
MutExpect(x) == [x EXCEPT !.rem = Len(x.to)]

Expect(x) ==
  IF IF MirrorWrite(x) THEN x.sub = 0 ELSE x.rem = 0 THEN [x EXCEPT !.rem = Len(x.to)] ELSE x

\* The loop from base_bdev_io_submitted to position k, where a slot without a
\* base channel counts as done (a flush or an unmap does not look).
Reached(x, k) ==
  LET passed  == {x.to[j] : j \in (x.sub + 1) .. k}
      missing == passed \ baseCh
      y       == [x EXCEPT !.sub = k, !.out = @ \cup (passed \cap baseCh)]
  IN  IF missing = {} THEN y ELSE CompletePart(y, Cardinality(missing), "success")

\* A submission error other than -ENOMEM ends the loop.
MutHardError(x) == {Result(CompletePart(x, 1, "failed"))}

HardError(x) ==
  IF MirrorWrite(x) THEN {Result(CompletePart(x, Len(x.to) - x.sub, "failed"))}
  ELSE Unexpected(x)

\* Where the loop may end; waited: called back by the io_wait queue of the base
\* bdev it stopped at, which has an spdk_bdev_io for it.
FanOut(x, waited) ==
  LET y       == Expect(x)
      stops   == {k \in x.sub .. Len(x.to) - 1 : x.to[k + 1] \in baseCh}
      refused == IF "nomem" \in Faults THEN stops \ (IF waited THEN {x.sub} ELSE {}) ELSE {}
      error   == IF MirrorWrite(x) THEN "submit" ELSE "unexpected"
      failed  == IF error \in Faults THEN stops ELSE {}
  IN  {Result(Reached(y, Len(y.to)))}
        \cup {Result(QueueIoWait(Reached(y, k))) : k \in refused}
        \cup UNION {HardError(Reached(y, k)) : k \in failed}

-----------------------------------------------------------------------------
(* The I/Os that go to one base bdev: raid1_submit_read_request,            *)
(* raid0_submit_rw_request, concat_submit_rw_request.                       *)

\* raid1_channel_next_read_base_bdev
MutNextReadBaseBdev == Min({c \in Slots : \A d \in Slots : counter[c] <= counter[d]})
NextReadBaseBdev == Min({c \in baseCh : \A d \in baseCh : counter[c] <= counter[d]})

ToOne(x, waited) ==
  LET slot == IF Mirror THEN NextReadBaseBdev ELSE x.b
      y    == IF Mirror THEN [x EXCEPT !.rem = 1] ELSE x
  IN  {Result([y EXCEPT !.out = {slot}, !.sub = IF Mirror THEN slot ELSE @])}
        \cup (IF "nomem" \in Faults /\ ~waited THEN {Result(QueueIoWait(y))} ELSE {})
        \cup (IF Mirror /\ "submit" \in Faults THEN {Result(Complete(y, "failed"))} ELSE {})
        \cup (IF ~Mirror /\ "unexpected" \in Faults THEN Unexpected(y) ELSE {})

SubmitTo(x, waited) == IF FansOut(x) THEN FanOut(x, waited) ELSE ToOne(x, waited)

\* raid1_channel_inc_read_counters for a read just handed over, and
\* raid1_channel_dec_read_counters for one that has ended.
ReadStarts(x) ==
  IF Mirror /\ x.type = "read" /\ x.out # {}
  THEN [counter EXCEPT ![x.sub] = @ + x.n] ELSE counter

MutReadEnds(x, success) ==
  IF Mirror /\ x.type = "read" /\ success THEN [counter EXCEPT ![x.sub] = @ - x.n] ELSE counter

ReadEnds(x, success) ==
  IF Mirror /\ x.type = "read" THEN [counter EXCEPT ![x.sub] = @ - x.n] ELSE counter

-----------------------------------------------------------------------------
(* The actions.                                                             *)

Take(i, p) == io' = [io EXCEPT ![i] = p.x] /\ crashed' = p.crash

\* raid_bdev_submit_request; raid1 supports neither flush nor unmap.
Submit(i) ==
  /\ io[i].ph = "idle"
  /\ \E t \in Types, b \in Blocks, n \in 1 .. MaxBlocks, data \in Bits :
       LET x == [io[i] EXCEPT !.ph = "active", !.type = t, !.b = b, !.n = n, !.data = data]
       IN  /\ Mirror => t # "null"
           /\ t # "read" => n = 1
           /\ t # "write" => data = 0
           /\ t = "reset" => b = CHOOSE c \in Blocks : TRUE
           /\ \/ \E c \in Spans(x) :
                   \E p \in SubmitTo([x EXCEPT !.to = IF FansOut(x) THEN Targets(x, c) ELSE << >>], FALSE) :
                     Take(i, p) /\ counter' = ReadStarts(p.x)
              \/ /\ t = "read" /\ "buffer" \in Faults
                 /\ Take(i, Result(Complete(x, "failed")))
                 /\ UNCHANGED counter
  /\ UNCHANGED <<baseCh, disk>>

\* The io_wait callback: the loop goes on, or the I/O starts again.
Resume(i) ==
  /\ io[i].waits
  /\ \E p \in SubmitTo([io[i] EXCEPT !.waits = FALSE], TRUE) :
       Take(i, p) /\ counter' = ReadStarts(p.x)
  /\ UNCHANGED <<baseCh, disk>>

\* The callback of the base bdev I/O on slot c: raid1_bdev_io_completion,
\* raid_base_bdev_reset_complete, raid0_ and concat_base_io_complete, or the
\* raid0_ and concat_bdev_io_completion.  A write that fails may have reached
\* the medium.
BaseDone(i, c, success) ==
  /\ c \in io[i].out
  /\ success \/ "io" \in Faults
  /\ LET st == IF success THEN "success" ELSE "failed"
         x  == [io[i] EXCEPT !.out = @ \ {c}, !.buf = IF io[i].type = "read" THEN disk[c] ELSE @]
     IN  /\ Take(i, Result(IF FansOut(x) \/ Mirror THEN CompletePart(x, 1, st) ELSE Complete(x, st)))
         /\ counter' = ReadEnds(x, success)
         /\ \/ disk' = IF x.type = "write" THEN [disk EXCEPT ![c] = x.data] ELSE disk
            \/ ~success /\ UNCHANGED disk
  /\ UNCHANGED baseCh

InFlight(x) == x.ph = "active"

\* A base bdev goes away, when the raid bdev is quiesced.  Only a raid1 goes on
\* without it.
RemoveBase(c) ==
  /\ Mirror /\ c \in baseCh /\ \A i \in IOs : ~InFlight(io[i])
  /\ baseCh' = baseCh \ {c}
  /\ UNCHANGED <<io, counter, disk, crashed>>

-----------------------------------------------------------------------------
(* History: which I/Os ran without a conflict, and the contents every later *)
(* read is entitled to.                                                     *)

Unknown == 2

Touches(x, b)  == x.type \in {"read", "write"} /\ x.b = b
Conflict(x, y) == /\ InFlight(x) /\ InFlight(y)
                  /\ Touches(x, y.b) /\ Touches(y, x.b)
                  /\ "write" \in {x.type, y.type}

Ended(i) == io[i].ph # "done" /\ io'[i].ph = "done"

History ==
  /\ clean' = clean \ {i \in IOs : \E j \in IOs \ {i} : Conflict(io'[i], io'[j])}
  /\ want' = [b \in Blocks |->
       LET writes == {i \in IOs : io'[i].type = "write" /\ io'[i].b = b}
           ended  == {i \in writes : Ended(i)}
       IN  IF \E i \in writes : InFlight(io'[i]) THEN Unknown
           ELSE IF ended = {} THEN want[b]
           ELSE LET i == CHOOSE j \in ended : TRUE
                IN  IF io'[i].res = "success" /\ i \in clean THEN io'[i].data ELSE Unknown]

Init ==
  /\ level \in Levels
  /\ io = [i \in IOs |->
            [ph |-> "idle", waits |-> FALSE, type |-> "read", b |-> 0, n |-> 1, data |-> 0,
             to |-> << >>, rem |-> 0, sub |-> 0, status |-> "success", res |-> "none",
             out |-> {}, buf |-> 0]]
  /\ counter = [c \in Slots |-> 0]
  /\ baseCh = Slots
  /\ disk = [c \in Slots |-> 0]
  /\ crashed = FALSE
  /\ want = [b \in Blocks |-> 0]
  /\ clean = IOs

\* A step of a process that is alive.
Step(A) == ~crashed /\ A /\ UNCHANGED level /\ History

IoStep(i) == Resume(i) \/ \E c \in Slots, success \in BOOLEAN : BaseDone(i, c, success)

Next ==
  \/ \E i \in IOs : Step(Submit(i)) \/ Step(IoStep(i))
  \/ \E c \in Removable : Step(RemoveBase(c))

Spec == Init /\ [][Next]_vars

\* The base bdevs complete what they accepted, and call back what waits for an
\* spdk_bdev_io.  Nobody has to submit an I/O.
FairSpec == Spec /\ \A i \in IOs : WF_vars(Step(IoStep(i)))

-----------------------------------------------------------------------------
(* Properties.                                                              *)

TypeOK ==
  /\ level \in Levels
  /\ io \in [IOs -> IoRecord]
  /\ counter \in [Slots -> Nat]
  /\ baseCh \subseteq Slots
  /\ disk \in [Slots -> Bits]
  /\ crashed \in BOOLEAN
  /\ want \in [Blocks -> Bits \cup {Unknown}]
  /\ clean \subseteq IOs

\* base_bdev_io_remaining counts the base bdev I/Os under way and, while the
\* loop waits for an spdk_bdev_io, those it has not come to: the I/O is
\* completed by the last of them, however often the loop was interrupted, and
\* whatever base bdevs are missing.
RemainingIsExact ==
  \A i \in IOs : InFlight(io[i]) /\ FansOut(io[i]) =>
    LET x == io[i]
    IN  /\ x.rem = Cardinality(x.out) + IF x.waits THEN Len(x.to) - x.sub ELSE 0
        /\ x.rem > 0

\* read_blocks_outstanding of a base bdev is what is being read from it, so that
\* the choice of raid1_channel_next_read_base_bdev is that of the least loaded
\* one also after failed reads and reads that had to wait.
CountersAreExact ==
  \A c \in Slots :
    counter[c] = MapThenSumSet(LAMBDA i : io[i].n,
                   {i \in IOs : Mirror /\ io[i].type = "read" /\ c \in io[i].out})

\* Once a write has succeeded, each base bdev of a raid1 that is still there
\* holds its data, until the next write.
MirrorsAgree ==
  \A b \in Blocks : want[b] # Unknown => \A c \in Place(b) \cap baseCh : disk[c] = want[b]

\* What a user sees of the channel: an I/O ends once - "complete the raid_io if
\* this is the final expected IO" (bdev_raid.c:309-310) -, after which nothing
\* that is under way refers to a raid_bdev_io that belongs to somebody else by
\* then, and a read that no write overlaps returns what the last write put there,
\* from whichever base bdev it is taken.
Covers(x) == IF x.type \in {"read", "write"} THEN {x.b} ELSE {}

Bdev == INSTANCE BdevIo WITH
  Units <- Slots,
  phase <- [i \in IOs |-> IF io[i].ph = "idle" THEN "new" ELSE IF InFlight(io[i]) THEN "running"
                          ELSE IF io[i].res = "success" THEN "ok" ELSE "failed"],
  what  <- [i \in IOs |-> [kind |-> IF Covers(io[i]) = {} THEN "other" ELSE io[i].type,
                           units |-> Covers(io[i]), data |-> [u \in Covers(io[i]) |-> io[i].data]]],
  got   <- [i \in IOs |-> io[i].buf],
  want  <- [u \in Slots |-> IF u \in Blocks THEN want[u] ELSE 0],
  alive <- ~crashed

Implements == Bdev!Spec

\* However often base bdevs run out of spdk_bdev_ios, an I/O is completed.
EveryIoCompletes == Bdev!Completes

=============================================================================
