------------------------------ MODULE HelloBdev ------------------------------
(***************************************************************************)
(* The test application of the passthru bdev                                *)
(* (src/bdev-passthru-compress/hello_world/hello_bdev.c): it writes a file, *)
(* or one short string, to a bdev chunk by chunk, reads it back when all    *)
(* the writes have ended, and stores what it read in another file.          *)
(*                                                                          *)
(* Everything runs on one SPDK thread: an action is a callback, with the    *)
(* loop over the chunks that it may run.  An offset or a file size in bytes *)
(* is a number of chunks here (of MAX_BLOCK_SIZE), and a buffer is the set  *)
(* of the chunks in which it holds what the input file has.                 *)
(***************************************************************************)
EXTENDS Integers, FiniteSets

CONSTANTS
  MaxChunks,  \* the longest input file
  Workloads,  \* "large": LARGE_FILE; "small": STRING and MULTI_BLOCK
  Faults      \* what the bdev layer may do

FaultKinds ==
  { "start",   \* the bdev, the file, the channel or the buffer cannot be had
    "nomem",   \* a submission returns -ENOMEM
    "submit",  \* ... or another error
    "io",      \* an I/O completes with success = false
    "output" } \* the output file cannot be opened

ASSUME SizeAssumption  == MaxChunks \in Nat \ {0}
ASSUME KindsAssumption == Workloads \subseteq {"small", "large"} /\ Faults \subseteq FaultKinds

VARIABLES
  workload,  \* workload
  size,      \* file_in_size; the short workloads have one chunk
  started,   \* hello_start has run
  off,       \* bdev_write_offset and bdev_read_offset
  done,      \* file_write_offset and file_read_offset
  inflight,  \* the chunks whose write or read is under way
  wait,      \* bdev_io_wait.cb_fn when it is queued
  disk,      \* what the bdev holds of the file
  buff,      \* output_data; hello_context->buff of the short workloads
  closes,    \* how often the channel and the descriptor were given back
  rc,        \* what spdk_app_stop was called with first
  refused,   \* history: the chunks a submission was refused of
  failed     \* history: the chunks whose write or read ended without success

vars == <<workload, size, started, off, done, inflight, wait, disk, buff, closes, rc, refused, failed>>

Ops    == {"write", "read"}
Chunks == 0 .. size - 1
Large  == workload = "large"

-----------------------------------------------------------------------------
(* spdk_put_io_channel, spdk_bdev_close, spdk_app_stop.  The first call of  *)
(* spdk_app_stop has the say.                                               *)

Stop(code)  == rc' = IF rc = "none" THEN code ELSE rc
Close(code) == closes' = closes + 1 /\ Stop(code)

\* The chunks the loop of hello_write or hello_read submits.
ToSubmit(op) == IF Large THEN off[op] .. size - 1 ELSE {0}

\* spdk_bdev_queue_io_wait at the end of hello_write and hello_read; w: what the
\* wait entry held before.
MutQueue(op, w) == w
Queue(op, w)    == op

\* hello_write and hello_read: the loop goes over all the chunks whatever the
\* answers are, bad being those that are refused, and the answer to the last
\* one decides what comes then.  under: what is under way, w: the wait entry.
Hello(op, under, w) ==
  \E bad \in SUBSET ToSubmit(op), answer \in (Faults \cap {"nomem", "submit"}) \cup {"none"} :
    LET last == size - 1 \in bad
    IN  /\ (bad = {}) <=> (answer = "none")
        /\ off' = [off EXCEPT ![op] = IF Large THEN size ELSE @]
        /\ inflight' = [under EXCEPT ![op] = @ \cup (ToSubmit(op) \ bad)]
        /\ refused' = refused \cup bad
        /\ wait' = IF last /\ answer = "nomem" THEN Queue(op, w) ELSE w
        /\ IF last /\ answer = "submit" THEN Close("failed") ELSE UNCHANGED <<closes, rc>>

-----------------------------------------------------------------------------
(* The actions.                                                             *)

\* hello_start.  When it fails, the channel is not there yet or is given back by
\* hello_start itself; a file that cannot be opened leaves the descriptor open.
Start ==
  /\ ~started
  /\ started' = TRUE
  /\ \/ Hello("write", inflight, wait)
     \/ "start" \in Faults /\ Stop("failed") /\ UNCHANGED <<off, inflight, wait, closes, refused>>
  /\ UNCHANGED <<done, disk, buff, failed>>

\* The callback of the wait entry.
Resume(op) ==
  /\ wait = op
  /\ Hello(op, inflight, "none")
  /\ UNCHANGED <<started, done, disk, buff, failed>>

\* write_complete.  The last write of all goes on with hello_read.
MutAllWritten(n)        == Large => n >= size - 1
MutAllWrittenRefused(n) == Large => n + Cardinality(refused) >= size
AllWritten(n)           == Large => n >= size

WriteDone(c) ==
  LET under == [inflight EXCEPT !["write"] = @ \ {c}]
      n     == done["write"] + 1
  IN  /\ c \in inflight["write"]
      /\ disk' = disk \cup {c}
      /\ done' = [done EXCEPT !["write"] = n]
      /\ IF AllWritten(n) THEN Hello("read", under, wait) /\ buff' = {}
         ELSE inflight' = under /\ UNCHANGED <<off, wait, buff, closes, rc, refused>>
      /\ UNCHANGED <<started, failed>>

WriteFailed(c) ==
  /\ "io" \in Faults /\ c \in inflight["write"]
  /\ inflight' = [inflight EXCEPT !["write"] = @ \ {c}]
  /\ failed' = [failed EXCEPT !["write"] = @ \cup {c}]
  /\ Close("failed")
  /\ UNCHANGED <<started, off, done, wait, disk, buff, refused>>

\* read_complete.  A read of the file counts whether it succeeded or not, and
\* the last one stores the file.
ReadDone(c, success) ==
  LET n == done["read"] + 1
  IN  /\ c \in inflight["read"]
      /\ success \/ "io" \in Faults
      /\ inflight' = [inflight EXCEPT !["read"] = @ \ {c}]
      /\ failed' = IF success THEN failed ELSE [failed EXCEPT !["read"] = @ \cup {c}]
      /\ done' = [done EXCEPT !["read"] = n]
      /\ buff' = IF success THEN (buff \ {c}) \cup ({c} \cap disk) ELSE buff
      /\ \/ Large /\ n < size /\ UNCHANGED <<closes, rc>>
         \/ Large /\ n >= size /\ Close("ok")
         \/ Large /\ n >= size /\ "output" \in Faults /\ Stop("failed") /\ UNCHANGED closes
         \/ ~Large /\ Close(IF success THEN "ok" ELSE "failed")
      /\ UNCHANGED <<started, off, wait, disk, refused>>

Init ==
  /\ workload \in Workloads
  /\ size \in IF Large THEN 0 .. MaxChunks ELSE {1}
  /\ started = FALSE
  /\ off = [op \in Ops |-> 0]
  /\ done = [op \in Ops |-> 0]
  /\ inflight = [op \in Ops |-> {}]
  /\ wait = "none"
  /\ disk = {}
  /\ buff = IF Large THEN {} ELSE {0}
  /\ closes = 0
  /\ rc = "none"
  /\ refused = {}
  /\ failed = [op \in Ops |-> {}]

\* What the bdev layer owes the application.
Callback ==
  \/ \E op \in Ops : Resume(op)
  \/ \E c \in Chunks : WriteDone(c) \/ WriteFailed(c) \/ \E success \in BOOLEAN : ReadDone(c, success)

\* A second spdk_put_io_channel of the same channel is undefined: the model goes
\* no further.
Step(A) == closes < 2 /\ A /\ UNCHANGED <<workload, size>>

Next == Step(Start) \/ Step(Callback)

Spec == Init /\ [][Next]_vars

\* The bdev layer completes what it accepted, and calls back who waits.
FairSpec == Spec /\ WF_vars(Step(Start)) /\ WF_vars(Step(Callback))

-----------------------------------------------------------------------------
(* Properties.                                                              *)

TypeOK ==
  /\ workload \in {"small", "large"} /\ size \in 0 .. MaxChunks
  /\ started \in BOOLEAN
  /\ off \in [Ops -> Nat] /\ done \in [Ops -> Nat]
  /\ inflight \in [Ops -> SUBSET Chunks] /\ failed \in [Ops -> SUBSET Chunks]
  /\ wait \in Ops \cup {"none"}
  /\ disk \subseteq Chunks /\ buff \subseteq Chunks /\ refused \subseteq Chunks
  /\ closes \in 0 .. 2
  /\ rc \in {"none", "ok", "failed"}

\* When the application ends with 0, the whole input is on the bdev, in whatever
\* order the writes ended and whatever was refused, and what it stores has exactly
\* the chunks whose read did not fail: each was submitted after the last write had
\* ended.  A short workload has no failed read then; a large file is stored, and 0
\* returned, also when reads failed (hello_bdev.c:120-148 never looks at success).
OutputIsInput ==
  rc = "ok" => /\ disk = Chunks
               /\ buff = Chunks \ failed["read"]
               /\ ~Large => failed["read"] = {}

\* "Close the channel" (hello_bdev.c:143): nothing is submitted through a channel
\* that was given back, although callbacks of earlier I/Os still come.
NothingAfterClose ==
  [][closes > 0 => \A op \in Ops : inflight'[op] \subseteq inflight[op]]_vars

\* spdk_app_start blocks "until spdk_app_stop() is called" (hello_bdev.c:511): it
\* is called in the end, unless the file is empty or one of its chunks was
\* refused, which nothing submits again.
Ends == <>(rc # "none" \/ closes = 2 \/ (Large /\ (size = 0 \/ refused # {})))

=============================================================================
