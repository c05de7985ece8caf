------------------------------- MODULE Passthru -------------------------------
(***************************************************************************)
(* The I/O path of the compressing passthru bdev                            *)
(* (src/bdev-passthru-compress/passthru/vbdev_passthru.c): a write is       *)
(* compressed in the buffer of its user, padded with zeros and passed on; a *)
(* read is passed on, trimmed of its zeros and decompressed.  Creation and  *)
(* removal of the bdev are the matter of PassthruBdev.                      *)
(*                                                                          *)
(* The channels of several SPDK threads share two static contexts of the    *)
(* accelerator, one to compress and one to decompress.  An action is what   *)
(* one thread does up to the wait for the accelerator, or from there on, so *)
(* that the use of the contexts by two threads may overlap.                 *)
(*                                                                          *)
(* A place is what one write covers; a read covers exactly one place.       *)
(***************************************************************************)
EXTENDS Integers, FiniteSets

CONSTANTS
  IOs,      \* the spdk_bdev_ios of the users of the passthru bdev
  Threads,  \* the SPDK threads with a channel
  ThreadOf, \* the thread each spdk_bdev_io belongs to
  Places,   \* the ranges of blocks in use
  Types,    \* the types of the I/Os
  Values,   \* what users write
  Faults    \* what may go wrong

IoTypes == {"read", "write", "write_zeroes", "zcopy", "other", "unknown"}

\* What matters of the data of a user is the stream it is compressed into.
DataKinds ==
  { "a", "b",  \* two ordinary ones
    "head",    \* the stream begins with a zero byte
    "tail",    \* ... ends with one
    "seam",    \* ... has one where the first of two iovecs ends
    "big" }    \* ... is longer than the data

FaultKinds ==
  { "nomem",   \* the base bdev has no spdk_bdev_io for a submission
    "queue",   \* ... and does not let the I/O wait for one either
    "submit",  \* the base bdev refuses a submission
    "io",      \* the base bdev completes an I/O with success = false
    "buffer",  \* the bdev layer finds no buffer for a read
    "accel" }  \* doca_compress_init or a job of the accelerator fails

ASSUME KindAssumption ==
  ThreadOf \in [IOs -> Threads] /\ Types \subseteq IoTypes /\ Values \subseteq DataKinds /\ Faults \subseteq FaultKinds

VARIABLES
  io,       \* the I/Os, with what the vbdev makes of them
  disk,     \* the contents of the base bdev
  crashed,  \* the process is gone
  want,     \* history: what the last write left in each place, if that is known
  clean     \* history: the I/Os that no conflicting I/O of their place overlapped

vars == <<io, disk, crashed, want, clean>>

-----------------------------------------------------------------------------
(* Contents of a buffer or a place: data that was compressed n times.       *)

Zeros   == [v |-> "zeros", n |-> 0]
Garbage == [v |-> "garbage", n |-> 0]
Contents == [v : Values \cup {"zeros", "garbage"}, n : 0 .. 2]

\* Undefined behaviour: a memcpy of a length that nobody has set or that does
\* not fit, or a context another thread has replaced.
Good(x)    == [buf |-> x, dies |-> FALSE]
Undefined  == {Good(Garbage), [buf |-> Garbage, dies |-> TRUE]}

\* compress_file of a write.  It is copied into the iovecs whatever it answers; a
\* stream that does not fit is cut off, or with one iovec is not.
MutCompress(x, iovs) == {Good(x)}
Compress(x, iovs) ==
  IF x.v = "big" THEN IF iovs = 1 THEN Undefined ELSE {Good(Garbage)}
  ELSE {Good(IF x.v = "garbage" THEN x ELSE [x EXCEPT !.n = @ + 1])}

\* A first byte that is null: "Skipping decompression".
Skips(x) == x = Zeros \/ (x.v = "head" /\ x.n > 0)

\* The trimming of null characters takes away too much.
Trims(x, iovs)    == x.v = "tail" \/ (x.v = "seam" /\ iovs > 1)

\* The iovecs are filled with what was decompressed.
MutFill(x, iovs) == IF iovs > 1 THEN Garbage ELSE x
Fill(x, iovs)    == x

\* compress_file of a read, which fails for what is no stream.
Decompress(x, iovs) ==
  IF x.n = 0 \/ Trims(x, iovs) THEN Undefined ELSE {Good(Fill([x EXCEPT !.n = @ - 1], iovs))}

-----------------------------------------------------------------------------
(* The I/Os.  ph: not submitted, in the accelerator to compress, under way  *)
(* at the base bdev, waiting for an spdk_bdev_io, in the accelerator to     *)
(* decompress, completed.  sound: no other thread had the same context, and *)
(* the accelerator has not failed.                                          *)

IoRecord ==
  [ph : {"idle", "comp", "base", "waits", "decomp", "done"}, type : Types,
   p : Places, iovs : 1 .. 2, v : Values, buf : Contents, ok : BOOLEAN, retried : BOOLEAN,
   sound : BOOLEAN]

\* An spdk_bdev_io before its first use.
Fresh ==
  [ph |-> "idle", type |-> CHOOSE t \in Types : TRUE,
   p |-> CHOOSE p \in Places : TRUE, iovs |-> 1, v |-> CHOOSE v \in Values : TRUE, buf |-> Zeros,
   ok |-> FALSE, retried |-> FALSE, sound |-> TRUE]

Active(x) == x.ph \notin {"idle", "done"}

\* spdk_bdev_io_complete: the I/O is its user's again, who has what a read or
\* a zcopy found; what the vbdev knew of it is gone.
Complete(x, ok) ==
  [Fresh EXCEPT !.ph = "done", !.type = x.type, !.p = x.p, !.ok = ok, !.sound = x.sound,
                !.buf = IF x.type \in {"read", "zcopy"} THEN x.buf ELSE Zeros]

\* vbdev_passthru_queue_io
MutQueueIo(x) == {[x EXCEPT !.ph = IF "queue" \in Faults THEN "lost" ELSE "waits"]}
QueueIo(x) ==
  {[x EXCEPT !.ph = "waits"]} \cup IF "queue" \in Faults THEN {Complete(x, FALSE)} ELSE {}

\* The call of the base bdev and what follows on its answer.  An I/O that has
\* waited finds the spdk_bdev_io it was called back for.
ToBase(x) ==
  {[x EXCEPT !.ph = "base"]}
    \cup (IF "nomem" \in Faults /\ ~x.retried THEN QueueIo(x) ELSE {})
    \cup (IF "submit" \in Faults THEN {Complete(x, FALSE)} ELSE {})

\* vbdev_passthru_submit_request, up to the accelerator for a write.
SubmitRequest(x) ==
  CASE x.type = "write"   -> {[x EXCEPT !.ph = "comp"]}
    [] x.type = "unknown" -> {Complete(x, FALSE)}
    [] x.type = "read"    -> ToBase(x) \cup IF "buffer" \in Faults THEN {Complete(x, FALSE)} ELSE {}
    [] OTHER              -> ToBase(x)

-----------------------------------------------------------------------------
(* The actions.                                                             *)

\* A thread that waits for the accelerator does nothing else.
Idle(t) == \A i \in IOs : ThreadOf[i] = t => io[i].ph \notin {"comp", "decomp"}

\* I/O i becomes x.  Who enters a context where another thread is has its work
\* spoilt, and spoils that of the other.  A completed I/O is freed by its user.
Take(i, x) ==
  LET sharing == {j \in IOs \ {i} : x.ph \in {"comp", "decomp"} /\ io[j].ph = x.ph}
  IN  io' = [j \in IOs |-> IF j = i THEN [x EXCEPT !.sound = @ /\ sharing = {}]
                           ELSE IF j \in sharing THEN [io[j] EXCEPT !.sound = FALSE]
                           ELSE IF io[j].ph = "done" THEN Fresh ELSE io[j]]

Submit(i) ==
  /\ ~Active(io[i]) /\ Idle(ThreadOf[i])
  /\ \E type \in Types, p \in Places, iovs \in 1 .. 2, v \in Values :
       /\ type # "write" => v = CHOOSE w \in Values : TRUE
       /\ type = "read" \/ (type = "write" /\ v = "big") \/ iovs = 1  \* no other looks at them
       /\ \E x \in SubmitRequest([Fresh EXCEPT !.type = type, !.p = p, !.iovs = iovs, !.v = v,
                                    !.buf = IF type = "write" THEN [v |-> v, n |-> 0] ELSE Zeros]) :
            Take(i, x)
  /\ UNCHANGED <<disk, crashed>>

\* vbdev_passthru_resubmit_io: the whole request again, with the buffer as it is.
Resubmit(i) ==
  /\ io[i].ph = "waits" /\ Idle(ThreadOf[i])
  /\ \E x \in SubmitRequest([io[i] EXCEPT !.retried = TRUE]) : Take(i, x)
  /\ UNCHANGED <<disk, crashed>>

\* What the accelerator does of all that it may do: out, or anything.
Outcomes(x, out) ==
  {[r |-> r, sound |-> x.sound] : r \in out}
    \cup IF ~x.sound \/ "accel" \in Faults THEN {[r |-> r, sound |-> FALSE] : r \in Undefined} ELSE {}

\* The stream is in the buffer, and the write goes on to the base bdev.
Compressed(i) ==
  /\ io[i].ph = "comp"
  /\ \E o \in Outcomes(io[i], Compress(io[i].buf, io[i].iovs)) :
       /\ crashed' = o.r.dies
       /\ IF o.r.dies THEN UNCHANGED io
          ELSE \E x \in ToBase([io[i] EXCEPT !.buf = o.r.buf, !.sound = o.sound]) : Take(i, x)
  /\ UNCHANGED disk

\* _pt_complete_io and _pt_complete_zcopy_io, up to the accelerator for a read,
\* whether it has failed or not.
BaseDone(i, success) ==
  LET x == io[i]
      y == [x EXCEPT !.ok = success]
  IN  /\ x.ph = "base" /\ Idle(ThreadOf[i])
      /\ success \/ "io" \in Faults
      /\ IF x.type = "read"
         THEN \E buf \in IF success THEN {disk[x.p]} ELSE {Zeros, Garbage} :
                LET z == [y EXCEPT !.buf = buf]
                IN  Take(i, IF Skips(buf) THEN Complete(z, success) ELSE [z EXCEPT !.ph = "decomp"])
         ELSE Take(i, Complete(IF x.type = "zcopy" THEN [y EXCEPT !.buf = disk[x.p]] ELSE y, success))
      /\ \/ disk' = CASE x.type = "write"        -> [disk EXCEPT ![x.p] = x.buf]
                      [] x.type = "write_zeroes" -> [disk EXCEPT ![x.p] = Zeros]
                      [] OTHER                   -> disk
         \/ ~success /\ UNCHANGED disk
         \/ x.type = "other" /\ disk' = [disk EXCEPT ![x.p] = Zeros]
  /\ UNCHANGED crashed

\* The data is in the buffer of the user, and the read is completed.
Decompressed(i) ==
  /\ io[i].ph = "decomp"
  /\ \E o \in Outcomes(io[i], Decompress(io[i].buf, io[i].iovs)) :
       /\ crashed' = o.r.dies
       /\ IF o.r.dies THEN UNCHANGED io
          ELSE Take(i, Complete([io[i] EXCEPT !.buf = o.r.buf, !.sound = o.sound], io[i].ok))
  /\ UNCHANGED disk

-----------------------------------------------------------------------------
(* History: which I/Os ran without a conflict, and the contents that a read *)
(* of a place is entitled to.                                               *)

Writes(x)      == x.type \in {"write", "write_zeroes", "other"}
Conflict(x, y) == Active(x) /\ Active(y) /\ x.p = y.p /\ (Writes(x) \/ Writes(y))
Ended(i)       == Active(io[i]) /\ io'[i].ph = "done"

\* What a write promises: its own data, in the cases the vbdev is made for.
Promises(x) ==
  IF x.type = "write_zeroes" THEN {"zeros"}
  ELSE IF x.type = "write" /\ x.sound /\ ~x.retried /\ x.v \in {"a", "b", "seam"} THEN {x.v} ELSE {}

History ==
  /\ clean' = (clean \cup {i \in IOs : ~Active(io'[i])})
                \ {i \in IOs : \E j \in IOs \ {i} : Conflict(io'[i], io'[j])}
  /\ want' = [p \in Places |->
       LET writes == {i \in IOs : Writes(io'[i]) /\ io'[i].p = p}
           ended  == {i \in writes : Ended(i)}
       IN  IF \E i \in writes : Active(io'[i]) THEN "unknown"
           ELSE IF ended = {} THEN want[p]
           ELSE LET i == CHOOSE j \in ended : TRUE
                IN  IF io'[i].ok /\ i \in clean /\ Promises(io[i]) # {}
                    THEN CHOOSE v \in Promises(io[i]) : TRUE ELSE "unknown"]

Init ==
  /\ io = [i \in IOs |-> Fresh]
  /\ disk = [p \in Places |-> Zeros]
  /\ crashed = FALSE
  /\ want = [p \in Places |-> "zeros"]
  /\ clean = IOs

Step(A) == ~crashed /\ A /\ History

IoStep(i) == Resubmit(i) \/ Compressed(i) \/ Decompressed(i) \/ \E success \in BOOLEAN : BaseDone(i, success)

Next == \E i \in IOs : Step(Submit(i)) \/ Step(IoStep(i))

Spec == Init /\ [][Next]_vars

\* The base bdev and the accelerator complete what they accepted, and what waits
\* for an spdk_bdev_io is called back.  A thread may be kept by one I/O after
\* another, but between them it comes to every callback that is pending.
FairSpec == Spec /\ \A i \in IOs : SF_vars(Step(IoStep(i)))

-----------------------------------------------------------------------------
(* Properties.                                                              *)

TypeOK ==
  /\ io \in [IOs -> IoRecord]
  /\ disk \in [Places -> Contents]
  /\ crashed \in BOOLEAN
  /\ want \in [Places -> Values \cup {"zeros", "unknown"}]
  /\ clean \subseteq IOs

\* A write that succeeded is on the base bdev compressed exactly once, unless it
\* is one of those that Promises leaves out: repeated after a wait (its buffer
\* already held the stream), its context taken by another thread, refused by the
\* accelerator, or of a stream the vbdev cannot store or find again.
CompressedOnce ==
  \A p \in Places : want[p] # "unknown" =>
    disk[p] = [v |-> want[p], n |-> IF want[p] = "zeros" THEN 0 ELSE 1]

\* A read that succeeds, that no write overlapped and whose decompression was not
\* disturbed returns what the last write of its place put there, also after a wait,
\* and zeros after zeros were written, if Promises says what that is: it does not of
\* a stream that begins or ends with a zero byte (head, tail; vbdev_passthru.c:198,
\* :219).  Nor does this speak of a stream with a zero byte where the first iovec of
\* the read ends (seam): read with one iovec it comes back, with two the trimming at
\* :219 cuts it there.
ReadsReturnWrites ==
  [][\A i \in IOs :
       LET x == io'[i]
       IN  /\ Ended(i) /\ x.type = "read" /\ x.ok /\ i \in clean /\ x.sound
           /\ want[x.p] # "unknown" /\ ~(want[x.p] = "seam" /\ io[i].iovs > 1)
           => x.buf = [v |-> want[x.p], n |-> 0]]_vars

\* An I/O is completed in the end, whatever the base bdev and the accelerator
\* answer: by exactly one of the many places that may do it.
EveryIoCompletes == \A i \in IOs : Active(io[i]) ~> (io[i].ph = "done" \/ crashed)

=============================================================================
