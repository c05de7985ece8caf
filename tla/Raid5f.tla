------------------------------- MODULE Raid5f -------------------------------
(***************************************************************************)
(* One I/O channel of the raid5f module (src/raid/raid5f.c): how a read or  *)
(* a full-stripe write of the raid bdev becomes base bdev I/Os and xor      *)
(* operations.                                                              *)
(*                                                                          *)
(* A channel lives on one SPDK thread, so each callback runs to its end     *)
(* before the next one starts: a callback is one action.  What the bdev     *)
(* layer and the accel framework do between two callbacks - finish          *)
(* operations in any order, refuse them, run out of memory - is the choice  *)
(* of the environment, limited by Faults.                                   *)
(*                                                                          *)
(* Contents are abstracted to one bit a chunk; xor is exact on bits.        *)
(* Metadata takes part as an operation to be waited for, not as contents.   *)
(***************************************************************************)
EXTENDS Integers, Sequences, FiniteSets

CONSTANTS
  NumBaseBdevs,  \* raid_bdev->num_base_bdevs
  Stripes,       \* the stripe indices in use
  IOs,           \* the I/Os of the users of the raid bdev, each submitted once
  WriteReqs,     \* the pool free_stripe_requests.write,
  ReconReqs,     \* and .reconstruct; RAID5F_MAX_STRIPES requests in each
  Contents,      \* the data of the writes looked at
  ReadIdx,       \* the data chunks that are read
  Segments,      \* the most pieces the iovecs of an I/O can cut its xor into
  WithMd,        \* whether I/Os carry a separate metadata buffer
  Removable,     \* the base bdevs that may be hot-removed
  Faults,        \* what may go wrong around the channel
  None           \* no stripe request, no I/O

FaultKinds ==
  { "bdev_nomem",   \* a base bdev submission returns -ENOMEM
    "bdev_submit",  \* ... or another error, for a write or a direct read
    "rebuild_submit", \* ... or for a read of raid5f_chunk_submit
    "bdev_io",      \* a base bdev I/O completes with success = false
    "accel_nomem",  \* spdk_accel_submit_xor returns -ENOMEM: this channel and the
                    \* other users of the thread's accel channel hold all its tasks
    "accel_submit", \* ... returns another error
    "accel_io",     \* a xor completes with a status
    "alloc",        \* realloc of an iovec array, or the buffer of a read, fails
    "poison" }      \* the fault injection of raid5f_chunk_submit fires

ASSUME NumAssumption   == NumBaseBdevs \in Nat /\ NumBaseBdevs >= 3
ASSUME StripeAssumption == Stripes \subseteq Nat /\ Stripes # {}
ASSUME PoolAssumption  == /\ WriteReqs \cap ReconReqs = {}
                          /\ None \notin WriteReqs \cup ReconReqs \cup IOs
ASSUME ParamAssumption == /\ Segments \in Nat \ {0}
                          /\ Contents \subseteq [0 .. NumBaseBdevs - 2 -> 0 .. 1]
                          /\ ReadIdx \subseteq 0 .. NumBaseBdevs - 2
                          /\ WithMd \in BOOLEAN
                          /\ Removable \subseteq 0 .. NumBaseBdevs - 1
                          /\ Faults \subseteq FaultKinds

VARIABLES
  io,      \* the raid_bdev_io of each I/O
  req,     \* the stripe_request of each element of the pools
  retryQ,  \* r5ch->xor_retry_queue, the head first
  xorBufs, \* the request into whose chunks r5ch->chunk_xor_buffers points
  baseCh,  \* the slots whose raid_ch->base_channel is not NULL
  disk,    \* what each base bdev holds, by stripe and slot
  crashed, \* how the process died: a failed assertion, a NULL channel
  accelFull, \* the other users of the accel channel take every task of it that
             \* this channel does not hold; else they leave it one at least
  want,    \* history: what the last write left in each stripe, if that is known
  clean    \* history: the I/Os no conflicting I/O of their stripe overlapped

vars == <<io, req, retryQ, xorBufs, baseCh, disk, crashed, accelFull, want, clean>>

-----------------------------------------------------------------------------
(* The geometry of a stripe.                                                *)

Reqs   == WriteReqs \cup ReconReqs
Chunks == 0 .. NumBaseBdevs - 1
Bits   == 0 .. 1

DataChunksNum == NumBaseBdevs - 1
DataIdx       == 0 .. DataChunksNum - 1
StripeData    == [DataIdx -> Bits]

ParityIndex(s) == DataChunksNum - (s % NumBaseBdevs)

\* The slot of the d-th data chunk of stripe s, and the inverse.
MutChunkIndex(s, d) == IF d <= ParityIndex(s) THEN d ELSE d + 1
ChunkIndex(s, d) == IF d < ParityIndex(s) THEN d ELSE d + 1
DataOf(s, c)     == IF c < ParityIndex(s) THEN c ELSE c - 1

Xor(f, S) == Cardinality({c \in S : f[c] = 1}) % 2

\* The chunks of a full-stripe write, before its parity is computed.
MapIovecs(s, data) ==
  [c \in Chunks |-> IF c = ParityIndex(s) THEN 0 ELSE data[DataOf(s, c)]]

-----------------------------------------------------------------------------
(* A raid_bdev_io.  ph: not submitted, in the module, given back with       *)
(* NOMEM to the bdev layer (which submits it again), or completed with res. *)
(* pend: the callback the bdev layer owes the I/O itself: the completion of *)
(* the direct read, or an io_wait callback to submit the whole I/O or its   *)
(* next chunks.  rem, sub and status are the base_bdev_io_ fields.          *)

NoData == [d \in DataIdx |-> 0]

IoRecord ==
  [ph : {"idle", "active", "nomem", "done"}, pend : {"none", "direct", "rw", "chunks"},
   type : {"read", "write"}, s : Stripes, d : DataIdx, data : StripeData,
   rem : 0 .. NumBaseBdevs, sub : 0 .. NumBaseBdevs,
   status : {"success", "failed"}, res : {"none", "success", "failed", "nomem"},
   sr : Reqs \cup {None}, direct : Bits \cup {-1}, buf : Bits]

ReqRecord ==
  [free : BOOLEAN, io : IOs \cup {None}, s : Stripes, target : Chunks, poisoned : BOOLEAN,
   out : SUBSET Chunks, buf : [Chunks -> Bits],
   seg : 0 .. Segments, own : BOOLEAN, md : BOOLEAN, status : {"ok", "err"},
   task : BOOLEAN, mdTasks : Nat]

InFlight(x) == x.ph \in {"active", "nomem"}

\* raid_bdev_io_complete
Complete(x, st) ==
  [x EXCEPT !.ph = IF st = "nomem" THEN "nomem" ELSE "done",
            !.res = st, !.pend = "none", !.sr = None]

\* raid_bdev_io_complete_part; it asserts x.rem >= n.
MutCompletePart(x, n, st) ==
  LET y == [x EXCEPT !.rem = @ - 1, !.status = IF st = "success" THEN @ ELSE st]
  IN  IF y.rem = 0 THEN Complete(y, y.status) ELSE y

CompletePart(x, n, st) ==
  LET y == [x EXCEPT !.rem = @ - n, !.status = IF st = "success" THEN @ ELSE st]
  IN  IF y.rem = 0 THEN Complete(y, y.status) ELSE y

\* raid5f_stripe_request_release
MutRelease(q) == q
Release(q)    == [q EXCEPT !.free = TRUE]

-----------------------------------------------------------------------------
(* What a handler leaves of the I/O and the stripe request it works on: x   *)
(* and q, whether the request went to the head of the retry queue (enq),    *)
(* whether it set r5ch->chunk_xor_buffers (bufs), whether it reached         *)
(* raid5f_xor_stripe_done, which then takes one request off that queue       *)
(* (drain), and whether the process died.                                    *)

Result(x, q) ==
  [x |-> x, q |-> q, enq |-> FALSE, bufs |-> FALSE, drain |-> FALSE, crash |-> "no"]

IsWrite(x) == x.type = "write"

\* The chunks raid5f_chunk_submit completes at once, without a base bdev I/O.
Immediate(x, q) == IF IsWrite(x) THEN Chunks \ baseCh ELSE {q.target}

\* The loop of raid5f_stripe_request_submit_chunks up to chunk k, where it
\* ended with outcome o: "ok" when k is beyond the last chunk.
ChunkRun(x, q, k, o) ==
  LET imm    == Immediate(x, q)
      passed == x.sub .. k - 1
      x0     == [x EXCEPT !.sub = k]
      x1     == IF passed \cap imm = {} THEN x0
                ELSE CompletePart(x0, Cardinality(passed \cap imm), "success")
      q1     == [q EXCEPT !.out = @ \cup (passed \ imm)]
      notSubmitted == IF IsWrite(x) THEN NumBaseBdevs - k ELSE DataChunksNum - k
      y      == CompletePart(x1, notSubmitted, "failed")
  IN  CASE o = "ok"    -> Result(x1, q1)
        [] o = "nomem" -> Result([x1 EXCEPT !.pend = "chunks"], q1)
        [] o = "err"   -> Result(y, IF y.ph = "done" THEN Release(q1) ELSE q1)

\* The fault injection of raid5f_chunk_submit: at most once a request it flips
\* a chunk among those handed to a base bdev.
Poisoned(x, q, k) ==
  IF "poison" \in Faults /\ IsWrite(x) /\ ~q.poisoned
  THEN {q} \cup {[q EXCEPT !.poisoned = TRUE, !.buf[c] = 1 - @]
                   : c \in ((x.sub .. k) \cap Chunks) \ Immediate(x, q)}
  ELSE {q}

\* The base channels raid5f_chunk_submit hands over without a test for NULL.
NullChannels(x, q) ==
  IF IsWrite(x) THEN {}
  ELSE {c \in x.sub .. NumBaseBdevs - 1 : c # q.target /\ c \notin baseCh}

\* Where the loop of raid5f_stripe_request_submit_chunks may end, and how.
\* waited: called back by the io_wait queue of the base bdev of chunk x.sub,
\* which has an spdk_bdev_io for it.
SubmitError(x, o) ==
  IF o = "nomem" THEN "bdev_nomem" ELSE IF IsWrite(x) THEN "bdev_submit" ELSE "rebuild_submit"

LoopEnds(x, q, waited) ==
  LET null  == NullChannels(x, q)
      errs  == {o \in {"nomem", "err"} : SubmitError(x, o) \in Faults}
      fails == {e \in ((x.sub .. NumBaseBdevs - 1) \ Immediate(x, q)) \X errs :
                  /\ ~(waited /\ e = <<x.sub, "nomem">>)
                  /\ \A c \in null : e[1] < c}
  IN  fails \cup IF null = {} THEN {<<NumBaseBdevs, "ok">>} ELSE {}

\* raid5f_stripe_request_submit_chunks
SubmitChunks(x, q, waited) ==
  (UNION {{ChunkRun(x, p, e[1], e[2]) : p \in Poisoned(x, q, e[1])} : e \in LoopEnds(x, q, waited)})
    \cup IF NullChannels(x, q) = {} THEN {} ELSE {[Result(x, q) EXCEPT !.crash = "null_channel"]}

-----------------------------------------------------------------------------
(* The xor of a stripe request: one accel task for the metadata, and a task *)
(* for each piece of the data, one after the other.  The iterators of the    *)
(* request leave the buffers of its next piece in r5ch->chunk_xor_buffers,   *)
(* where raid5f_xor_stripe_continue takes them from.  own: all pieces of the *)
(* xor so far were its own.                                                 *)

\* This channel holds tasks of the accel channel.
Busy(reqs) == \E r \in Reqs : reqs[r].task \/ reqs[r].mdTasks > 0

\* r5ch->accel_ch is the accel channel of the thread, shared with all its users
\* there: the tasks this channel holds can be the last ones, and the others can
\* leave it none at all.
AccelNomem(busy) == "accel_nomem" \in Faults /\ (busy \/ accelFull)
AccelError       == "accel_submit" \in Faults

\* How a submission may end: the task runs, the request waits in the retry
\* queue, or the xor is over with a status.
XorEnd(q, end)  == [q |-> q, end |-> end]
XorFailed(q)    == XorEnd([q EXCEPT !.status = "err"], "failed")

\* raid5f_xor_stripe_continue
XorContinue(q, busy) ==
  {XorEnd([q EXCEPT !.task = TRUE], "runs")}
    \cup (IF AccelNomem(busy) THEN {XorEnd(q, "queued")} ELSE {})
    \cup (IF AccelError THEN {XorFailed(q)} ELSE {})

\* raid5f_xor_stripe
XorStripe(q, busy) ==
  LET start(n) == [q EXCEPT !.seg = n, !.own = TRUE, !.status = "ok"]
      startMd(n) == [start(n) EXCEPT !.md = TRUE]
  IN  UNION {IF ~WithMd THEN XorContinue(start(n), busy)
             ELSE XorContinue([startMd(n) EXCEPT !.mdTasks = @ + 1], TRUE)
                    \cup (IF AccelNomem(busy) THEN {XorEnd(startMd(n), "queued")} ELSE {})
                    \cup (IF AccelError THEN {XorFailed(startMd(n))} ELSE {})
             : n \in 1 .. Segments}

\* raid5f_xor_stripe_retry; mine: r5ch->chunk_xor_buffers still are those of q.
XorRetry(q, busy, mine) ==
  IF q.md THEN XorStripe(q, busy) ELSE XorContinue([q EXCEPT !.own = @ /\ mine], busy)

\* The callbacks of a failed xor: both give the request back and complete the
\* I/O as failed, raid5f_stripe_request_reconstruct_xor_done by its last part.
FailXor(x) == IF IsWrite(x) THEN Complete(x, "failed") ELSE CompletePart(x, 1, "failed")

\* raid5f_xor_stripe_done with the callback it calls:
\* raid5f_stripe_write_request_xor_done or raid5f_stripe_request_reconstruct_xor_done.
XorDone(x, q) ==
  LET results ==
        IF q.status = "ok" /\ IsWrite(x) THEN SubmitChunks(x, q, FALSE)
        ELSE IF q.status = "ok" THEN {Result(CompletePart(x, 1, "success"), Release(q))}
        ELSE {Result(FailXor(x), Release(q))}
      died == ~IsWrite(x) /\ x.rem < 1
  IN  {[p EXCEPT !.drain = TRUE, !.crash = IF died THEN "assert" ELSE @] : p \in results}

\* What a handler that submitted a xor last leaves behind.
MutAfterXor(x, e) ==
  {[p EXCEPT !.bufs = TRUE] : p \in IF e.end = "failed" THEN XorDone(x, e.q) ELSE {Result(x, e.q)}}

AfterXor(x, e) ==
  {[p EXCEPT !.bufs = TRUE] :
     p \in CASE e.end = "runs"   -> {Result(x, e.q)}
            [] e.end = "queued" -> {[Result(x, e.q) EXCEPT !.enq = TRUE]}
            [] e.end = "failed" -> XorDone(x, e.q)}

\* What the destination chunk may hold when the last piece is done: the xor of
\* the other chunks, unless some piece went elsewhere.
MutXorResults(q, dest) == {Xor(q.buf, Chunks \ {dest, 0})}

XorResults(q, dest) == IF q.own THEN {Xor(q.buf, Chunks \ {dest})} ELSE Bits

XorWrites(x, q) ==
  IF IsWrite(x)
  THEN {[x |-> x, q |-> [q EXCEPT !.buf[ParityIndex(q.s)] = v]] : v \in XorResults(q, ParityIndex(q.s))}
  ELSE {[x |-> [x EXCEPT !.buf = v], q |-> q] : v \in XorResults(q, q.target)}

\* The test of _raid5f_xor_stripe_cb, and what raid5f_xor_stripe_md_cb notes.
XorIsOver(q)    == q.seg = 0 /\ ~q.md
MutMdOver(q)    == [q EXCEPT !.mdTasks = @ - 1]
MdOver(q)       == [q EXCEPT !.mdTasks = @ - 1, !.md = FALSE]

-----------------------------------------------------------------------------
(* The end of raid5f_xor_stripe_done: the head of the retry queue is tried  *)
(* again.  When accel refuses it for good, that is the end of its xor, and  *)
(* the next one is tried: k of them fail.                                   *)

MutDrain(ios, reqs, bufs) == io' = ios /\ req' = reqs /\ xorBufs' = bufs /\ UNCHANGED retryQ

XorFailures(q) == {e.q : e \in {f \in XorRetry(q, TRUE, TRUE) : f.end = "failed"}}

\* The request that has set r5ch->chunk_xor_buffers last when k retries failed.
BufsAfter(k, reqs, bufs) ==
  LET set == {j \in 1 .. k : reqs[retryQ[j]].md}
  IN  IF set = {} THEN bufs ELSE retryQ[CHOOSE j \in set : \A h \in set : h <= j]

Drain(ios, reqs, bufs) ==
  \E k \in 0 .. IF AccelError THEN Len(retryQ) ELSE 0 :
    LET failed == {retryQ[j] : j \in 1 .. k}
        before == BufsAfter(k, reqs, bufs)
    IN  \E fs \in {f \in [failed -> UNION {XorFailures(reqs[r]) : r \in failed}] :
                     \A r \in failed : f[r] \in XorFailures(reqs[r])} :
          LET left == [r \in Reqs |-> IF r \in failed THEN Release(fs[r]) ELSE reqs[r]]
          IN  /\ io' = [i \in IOs |-> IF \E r \in failed : reqs[r].io = i
                                      THEN FailXor(ios[i]) ELSE ios[i]]
              /\ \/ /\ k = Len(retryQ)
                    /\ req' = left /\ xorBufs' = before
                    /\ retryQ' = << >>
                 \/ /\ k < Len(retryQ)
                    /\ LET r    == retryQ[k + 1]
                           rest == SubSeq(retryQ, k + 2, Len(retryQ))
                       IN  /\ xorBufs' = IF left[r].md THEN r ELSE before
                           /\ \E e \in XorRetry(left[r], Busy(left), before = r) :
                                /\ e.end # "failed"
                                /\ req' = [left EXCEPT ![r] = e.q]
                                /\ retryQ' = IF e.end = "queued" THEN <<r>> \o rest ELSE rest

\* The step of a handler that ends with result p for I/O i and request r.
Take(i, r, p) ==
  LET bufs == IF p.bufs THEN r ELSE xorBufs
  IN  /\ crashed' = p.crash
      /\ IF p.drain
         THEN Drain([io EXCEPT ![i] = p.x], [req EXCEPT ![r] = p.q], bufs)
         ELSE /\ io' = [io EXCEPT ![i] = p.x]
              /\ req' = [req EXCEPT ![r] = p.q]
              /\ xorBufs' = bufs
              /\ retryQ' = IF p.enq THEN <<r>> \o retryQ ELSE retryQ

\* The step of a handler that touches I/O i alone.
TakeIo(i, x) == io' = [io EXCEPT ![i] = x] /\ UNCHANGED <<req, retryQ, xorBufs, crashed>>

-----------------------------------------------------------------------------
(* raid5f_submit_rw_request: I/O i, in state x, starts.                     *)

FreeReqs(pool) == {r \in pool : req[r].free}

\* The requests of a pool are interchangeable: which one is taken does not matter.
NextReq(pool)  == IF FreeReqs(pool) = {} THEN {} ELSE {CHOOSE r \in FreeReqs(pool) : TRUE}
NoMemory(pool) == FreeReqs(pool) = {} \/ "alloc" \in Faults

\* raid5f_stripe_request_init
Start(r, i, x) ==
  [req[r] EXCEPT !.free = FALSE, !.io = i, !.s = x.s, !.poisoned = FALSE, !.out = {}, !.own = TRUE,
                 !.target = ChunkIndex(x.s, x.d), !.buf = MapIovecs(x.s, x.data)]

MutOwning(x, r) == [x EXCEPT !.rem = DataChunksNum, !.sr = r]
Owning(x, r)    == [x EXCEPT !.rem = NumBaseBdevs, !.sr = r]

\* raid5f_submit_write_request
SubmitWrite(i, x) ==
  \/ /\ NoMemory(WriteReqs)
     /\ TakeIo(i, Complete(x, "nomem"))
  \/ \E r \in NextReq(WriteReqs) :
       LET q == Start(r, i, x)
           y == Owning(x, r)
       IN  IF ParityIndex(x.s) \in baseCh
           THEN \E e \in XorStripe(q, Busy(req)) : \E p \in AfterXor(y, e) : Take(i, r, p)
           ELSE \E p \in SubmitChunks(y, q, FALSE) : Take(i, r, p)

\* raid5f_submit_reconstruct_read, when there is a request for it.
SubmitReconstruct(i, x) ==
  \E r \in NextReq(ReconReqs) :
    \E p \in SubmitChunks(Owning(x, r), Start(r, i, x), FALSE) : Take(i, r, p)

\* raid5f_submit_read_request; waited as for SubmitChunks.
SubmitRead(i, x, waited) ==
  LET c == ChunkIndex(x.s, x.d)
  IN  \/ /\ c \notin baseCh
         /\ \/ SubmitReconstruct(i, x)
            \/ NoMemory(ReconReqs) /\ TakeIo(i, Complete(x, "nomem"))
      \/ /\ c \in baseCh
         /\ \/ TakeIo(i, [x EXCEPT !.pend = "direct"])
            \/ /\ "bdev_nomem" \in Faults /\ ~waited
               /\ TakeIo(i, [x EXCEPT !.pend = "rw"])
            \/ /\ "bdev_submit" \in Faults
               /\ TakeIo(i, Complete(x, "failed"))

SubmitRw(i, x, waited) ==
  \/ IsWrite(x)  /\ SubmitWrite(i, x)
  \/ ~IsWrite(x) /\ SubmitRead(i, x, waited)

\* raid_bdev_submit_request, with the buffer the bdev layer gets for a read.
SubmitRequest(i, x) ==
  \/ SubmitRw(i, [x EXCEPT !.ph = "active", !.rem = 0, !.sub = 0, !.status = "success"], FALSE)
  \/ ~IsWrite(x) /\ "alloc" \in Faults /\ TakeIo(i, Complete(x, "failed"))

-----------------------------------------------------------------------------
(* The actions.                                                             *)

\* A user of the raid bdev writes a stripe, or reads within one chunk.
Submit(i) ==
  /\ io[i].ph = "idle"
  /\ \E s \in Stripes :
       \/ \E data \in Contents :
            SubmitRequest(i, [io[i] EXCEPT !.type = "write", !.s = s, !.data = data])
       \/ \E d \in ReadIdx :
            SubmitRequest(i, [io[i] EXCEPT !.type = "read", !.s = s, !.d = d])
  /\ UNCHANGED <<baseCh, disk>>

\* The bdev layer submits again what was completed with NOMEM.
Resubmit(i) ==
  /\ io[i].ph = "nomem"
  /\ SubmitRequest(i, [io[i] EXCEPT !.res = "none"])
  /\ UNCHANGED <<baseCh, disk>>

\* The io_wait callback _raid5f_submit_rw_request.
RetryRw(i) ==
  /\ io[i].pend = "rw"
  /\ SubmitRw(i, [io[i] EXCEPT !.pend = "none"], TRUE)
  /\ UNCHANGED <<baseCh, disk>>

\* The io_wait callback raid5f_chunk_submit_retry.
RetryChunks(i) ==
  /\ io[i].pend = "chunks"
  /\ LET r == io[i].sr
     IN  \E p \in SubmitChunks([io[i] EXCEPT !.pend = "none"], req[r], TRUE) : Take(i, r, p)
  /\ UNCHANGED <<baseCh, disk>>

\* raid5f_chunk_read_complete: what was read goes through a reconstruct read,
\* whose return value is not looked at.
DirectReadComplete(i, success) ==
  /\ io[i].pend = "direct"
  /\ success \/ "bdev_io" \in Faults
  /\ LET v == disk[io[i].s][ChunkIndex(io[i].s, io[i].d)]
         x == [io[i] EXCEPT !.pend = "none", !.direct = v, !.buf = v]
     IN  IF success
         THEN \/ SubmitReconstruct(i, x)
              \/ NoMemory(ReconReqs) /\ TakeIo(i, x)
         ELSE TakeIo(i, Complete(io[i], "failed"))
  /\ UNCHANGED <<baseCh, disk>>

\* raid5f_stripe_request_chunk_write_complete
ChunkWritten(x, q, st) ==
  LET y == CompletePart(x, 1, st)
  IN  {[Result(y, IF y.ph = "done" THEN Release(q) ELSE q) EXCEPT
          !.crash = IF x.rem < 1 THEN "assert" ELSE "no"]}

\* raid5f_stripe_request_chunk_read_complete
ChunkRead(x, q, st) ==
  IF x.rem = 1 /\ x.status = "success" /\ st = "success"
  THEN UNION {AfterXor(x, e) : e \in XorStripe(q, Busy(req))}
  ELSE {[Result(CompletePart(x, 1, st), IF x.rem = 1 THEN Release(q) ELSE q) EXCEPT
           !.crash = IF x.rem < 1 THEN "assert" ELSE "no"]}

\* raid5f_chunk_complete_bdev_io for chunk c.  A base bdev I/O that fails may
\* have reached the medium.
ChunkComplete(r, c, success) ==
  /\ c \in req[r].out
  /\ success \/ "bdev_io" \in Faults
  /\ LET i  == req[r].io
         st == IF success THEN "success" ELSE "failed"
         q  == [req[r] EXCEPT !.out = @ \ {c}]
     IN  IF r \in WriteReqs
         THEN /\ \/ disk' = [disk EXCEPT ![q.s][c] = q.buf[c]]
                 \/ ~success /\ UNCHANGED disk
              /\ \E p \in ChunkWritten(io[i], q, st) : Take(i, r, p)
         ELSE /\ UNCHANGED disk
              /\ \E p \in ChunkRead(io[i], [q EXCEPT !.buf[c] = disk[q.s][c]], st) : Take(i, r, p)
  /\ UNCHANGED baseCh

\* raid5f_xor_stripe_cb, the callback of a piece of the data.
XorTaskDone(r, success) ==
  /\ req[r].task
  /\ success \/ "accel_io" \in Faults
  /\ LET i == req[r].io
         q == [req[r] EXCEPT !.task = FALSE, !.seg = @ - 1]
         noted(p) == IF success THEN p ELSE [p EXCEPT !.status = "err"]
     IN  IF q.seg > 0
         THEN \E e \in XorContinue(q, Busy([req EXCEPT ![r] = q])) :
                \E p \in AfterXor(io[i], e) : Take(i, r, [p EXCEPT !.q = noted(@)])
         ELSE \E w \in XorWrites(io[i], noted(q)) :
                \E p \in IF XorIsOver(q) THEN XorDone(w.x, w.q) ELSE {Result(w.x, w.q)} : Take(i, r, p)
  /\ UNCHANGED <<baseCh, disk>>

\* raid5f_xor_stripe_md_cb
XorMdDone(r, success) ==
  /\ req[r].mdTasks > 0
  /\ success \/ "accel_io" \in Faults
  /\ LET i == req[r].io
         q == [MdOver(req[r]) EXCEPT !.status = IF success THEN @ ELSE "err"]
     IN  \E p \in IF XorIsOver(q) THEN XorDone(io[i], q) ELSE {Result(io[i], q)} : Take(i, r, p)
  /\ UNCHANGED <<baseCh, disk>>

\* A base bdev goes away.  raid_bdev_remove_base_bdev quiesces the raid bdev
\* first, so no I/O is outstanding; raid5f tolerates one missing base bdev.
RemoveBase(c) ==
  /\ baseCh = Chunks
  /\ \A i \in IOs : ~InFlight(io[i])
  /\ baseCh' = baseCh \ {c}
  /\ UNCHANGED <<io, req, retryQ, xorBufs, disk, crashed>>

\* The other users of the accel channel take its last tasks, or give some back.
OthersUseAccel ==
  /\ "accel_nomem" \in Faults /\ crashed = "no"
  /\ accelFull' = ~accelFull
  /\ UNCHANGED <<io, req, retryQ, xorBufs, baseCh, disk, crashed, want, clean>>

-----------------------------------------------------------------------------
(* History: which I/Os ran without a conflict, and the contents every       *)
(* later read is entitled to.                                               *)

Unknown == [d \in DataIdx |-> -1]

Conflict(ios, i, j) ==
  /\ i # j /\ InFlight(ios[i]) /\ InFlight(ios[j])
  /\ ios[i].s = ios[j].s
  /\ IsWrite(ios[i]) \/ IsWrite(ios[j])

Ended(i) == io[i].ph # "done" /\ io'[i].ph = "done"

History ==
  /\ clean' = clean \ {i \in IOs : \E j \in IOs : Conflict(io', i, j)}
  /\ want' = [s \in Stripes |->
       LET writes(P(_)) == {i \in IOs : IsWrite(io'[i]) /\ io'[i].s = s /\ P(i)}
           running      == writes(LAMBDA i : InFlight(io'[i]))
           ended        == writes(Ended)
       IN  IF running # {} THEN Unknown
           ELSE IF ended = {} THEN want[s]
           ELSE LET i == CHOOSE j \in ended : TRUE
                IN  IF io'[i].res = "success" /\ i \in clean THEN io'[i].data ELSE Unknown]

-----------------------------------------------------------------------------

\* The raid bdev starts out with stripes of zeroes and with its channels open.
Init ==
  /\ io = [i \in IOs |->
            [ph |-> "idle", pend |-> "none", type |-> "read", s |-> CHOOSE s \in Stripes : TRUE,
             d |-> 0, data |-> NoData, rem |-> 0, sub |-> 0, status |-> "success",
             res |-> "none", sr |-> None, direct |-> -1, buf |-> 0]]
  /\ req = [r \in Reqs |->
             [free |-> TRUE, io |-> None, s |-> CHOOSE s \in Stripes : TRUE,
              target |-> 0, poisoned |-> FALSE, out |-> {}, buf |-> [c \in Chunks |-> 0],
              seg |-> 0, own |-> TRUE, md |-> FALSE, status |-> "ok", task |-> FALSE, mdTasks |-> 0]]
  /\ retryQ = << >>
  /\ xorBufs = None
  /\ baseCh = Chunks
  /\ disk = [s \in Stripes |-> [c \in Chunks |-> 0]]
  /\ crashed = "no"
  /\ accelFull = FALSE
  /\ want = [s \in Stripes |-> NoData]
  /\ clean = IOs

IoStep(i) == \/ RetryRw(i) \/ RetryChunks(i)
             \/ \E success \in BOOLEAN : DirectReadComplete(i, success)

ReqStep(r) ==
  \E success \in BOOLEAN :
    \/ \E c \in Chunks : ChunkComplete(r, c, success)
    \/ XorTaskDone(r, success)
    \/ XorMdDone(r, success)

\* A step of a process that is alive.
Step(A) == crashed = "no" /\ A /\ History /\ UNCHANGED accelFull

Next ==
  \/ \E i \in IOs : Step(Submit(i)) \/ Step(Resubmit(i)) \/ Step(IoStep(i))
  \/ \E r \in Reqs : Step(ReqStep(r))
  \/ \E c \in Removable : Step(RemoveBase(c))
  \/ OthersUseAccel

Spec == Init /\ [][Next]_vars

\* What was submitted to a base bdev or to accel completes, the bdev layer
\* calls back what waits for an spdk_bdev_io, and submits again what ran out
\* of memory: as long as something of that is due, some of it happens.  Nobody
\* has to submit an I/O, no base bdev has to go, and nobody has to give tasks of
\* the accel channel back.
Due ==
  \/ \E i \in IOs : Step(IoStep(i)) \/ Step(Resubmit(i))
  \/ \E r \in Reqs : Step(ReqStep(r))

Fairness == WF_vars(Due)

FairSpec == Spec /\ Fairness

-----------------------------------------------------------------------------
(* Properties.                                                              *)

TypeOK ==
  /\ io \in [IOs -> IoRecord]
  /\ req \in [Reqs -> ReqRecord]
  /\ retryQ \in Seq(Reqs)
  /\ xorBufs \in Reqs \cup {None}
  /\ baseCh \subseteq Chunks
  /\ disk \in [Stripes -> [Chunks -> Bits]]
  /\ crashed \in {"no", "assert", "null_channel"}
  /\ accelFull \in BOOLEAN
  /\ want \in [Stripes -> StripeData \cup {Unknown}]
  /\ clean \subseteq IOs

Queued(r) == \E j \in 1 .. Len(retryQ) : retryQ[j] = r

\* Something is under way that will call the stripe request back.
Driven(r) == req[r].out # {} \/ req[r].task \/ req[r].mdTasks > 0 \/ Queued(r)

Lost(i) ==
  io[i].ph = "active" /\ io[i].pend = "none" /\ (io[i].sr = None \/ ~Driven(io[i].sr))

\* With too few requests for reconstruct reads an I/O is lost, but in one way
\* only: its direct read ended when no request was to be had, and the value
\* raid5f_submit_reconstruct_read returned to raid5f_chunk_read_complete told so.
LostAtDirectRead ==
  [][\A i \in IOs : crashed' = "no" /\ Lost(i)' /\ ~Lost(i)
       => io[i].pend = "direct" /\ NoMemory(ReconReqs)]_vars

\* A stripe request is out of its pool exactly as long as one I/O in the module
\* uses it: no error path leaks a request or returns it while its chunks, its
\* xor or the retry queue still refer to it.
RequestOwnership ==
  /\ \A r \in Reqs :
       IF req[r].free THEN ~Driven(r) /\ \A i \in IOs : io[i].sr # r
       ELSE io[req[r].io].ph = "active" /\ io[req[r].io].sr = r
  /\ \A r \in Reqs : Cardinality({j \in 1 .. Len(retryQ) : retryQ[j] = r}) <= 1

\* base_bdev_io_remaining counts what is still to come for the stripe: the
\* chunk I/Os under way and the chunks to submit yet, none when a submission
\* error ended the loop.  The last read of a reconstruct read is counted until
\* its xor has ended.  So, while the process lives, no stripe request is finished
\* twice, or for a part that was not expected: bdev_raid.c:328 asserts
\* "raid_io->base_bdev_io_remaining >= completed".
RemainingIsExact ==
  /\ crashed # "assert"
  /\ \A r \in Reqs : crashed = "no" /\ ~req[r].free =>
       LET x     == io[req[r].io]
           over  == x.sub > 0 /\ x.pend # "chunks"
           ahead == Cardinality(req[r].out) + IF over THEN 0 ELSE NumBaseBdevs - x.sub
       IN  x.rem = IF ahead = 0 /\ ~IsWrite(x) THEN 1 ELSE ahead

\* Only the end of another xor of the channel takes a request off the retry queue
\* (raid5f.c:229), so a queue without a xor under way waits for a xor yet to come.
\* The channel gets there in one way only: the other users of the accel channel
\* left it no task, and a xor was refused.  A xor that ends, well or not, never
\* leaves behind a queue that it has not tried.
Stalled == retryQ # << >> /\ ~Busy(req)

StallsOnlyWhenFull == [][~Stalled /\ Stalled' => accelFull]_vars

\* Once a full-stripe write has succeeded, every base bdev of the array holds
\* its chunk of that data, or the parity of it, until the next write.
StripeIsWritten ==
  \A s \in Stripes : want[s] # Unknown =>
    \A c \in baseCh :
      disk[s][c] = IF c = ParityIndex(s) THEN Cardinality({d \in DataIdx : want[s][d] = 1}) % 2
                   ELSE want[s][DataOf(s, c)]

\* What a user sees of the channel: its I/Os end once, the end of a late chunk or
\* xor never reaching an I/O that has been given back, and a read that no write
\* overlaps returns what the last write put there, taken directly or rebuilt from
\* the other chunks.
Covers(x) == {x.s} \X (IF IsWrite(x) THEN DataIdx ELSE {x.d})

Bdev == INSTANCE BdevIo WITH
  Units   <- Stripes \X DataIdx,
  Unknown <- -1,
  phase   <- [i \in IOs |-> IF io[i].ph = "idle" THEN "new" ELSE IF InFlight(io[i]) THEN "running"
                            ELSE IF io[i].res = "success" THEN "ok" ELSE "failed"],
  what    <- [i \in IOs |-> [kind |-> io[i].type, units |-> Covers(io[i]),
                             data |-> [u \in Covers(io[i]) |-> io[i].data[u[2]]]]],
  got     <- [i \in IOs |-> io[i].buf],
  want    <- [u \in Stripes \X DataIdx |-> want[u[1]][u[2]]],
  alive   <- crashed = "no"

Implements == Bdev!Spec

\* Whatever runs out of memory or is refused on the way, an I/O in the module is
\* completed, but for a stalled queue that no later xor of the channel comes to
\* wake: the I/Os in it wait for ever, and so do those that were told NOMEM while
\* it holds the stripe requests.
WaitsInStall(i) ==
  Stalled /\ (io[i].ph = "nomem" \/ (io[i].sr # None /\ Queued(io[i].sr)))

EveryIoCompletes ==
  \A i \in IOs :
    \/ InFlight(io[i]) ~> (io[i].ph = "done" \/ crashed # "no")
    \/ <>[]WaitsInStall(i)

=============================================================================
