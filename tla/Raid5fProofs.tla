---------------------------- MODULE Raid5fProofs ----------------------------
(***************************************************************************)
(* A channel of raid5f, for any number of base bdevs, stripes, I/Os and      *)
(* requests, and pieces of a xor.                                            *)
(*                                                                          *)
(* A stripe request that is out of its pool belongs to one I/O (Linked) and  *)
(* is at one of two stages: its chunk I/Os are submitted and under way       *)
(* (Chunking), or its xor is under way or waits for its turn (Xoring).  Each *)
(* handler turns one stage into the other or is done with the request        *)
(* (Good); Take, and Drain with the retry queue behind it, put what the      *)
(* handler leaves into the channel (TakeSound).                              *)
(*                                                                          *)
(* The contents rest on that.  A request in use holds the data of its write, *)
(* or what has been read of its stripe, and the base bdevs hold the chunks   *)
(* of the write that have ended (Holds); each handler hands this on, and     *)
(* tells success only of an I/O whose contents are there (Yields).  Seen     *)
(* from the channel a handler is then the turn of one I/O (Turn), which      *)
(* keeps StripeIsWritten and is a step of BdevIo.                            *)
(***************************************************************************)
EXTENDS Raid5f, FiniteSetTheorems, SequenceTheorems, TLAPS

\* No failure after which the code finishes a stripe request twice or not at
\* all: a read of a chunk that is refused (raid5f.c:538), and with metadata an accel
\* framework that refuses (raid5f.c:389).
Tame ==
  /\ "rebuild_submit" \notin Faults
  /\ WithMd => "accel_nomem" \notin Faults /\ "accel_submit" \notin Faults

\* A stripe request for which nothing is under way.
Working(q) == q.task \/ q.mdTasks > 0
Idle(q)    == q.out = {} /\ ~Working(q)

\* The I/O x owns the stripe request q, of the name r.
Owned(r, q, x) ==
  /\ x.ph = "active" /\ x.sr = r /\ x.pend \in {"none", "chunks"}
  /\ IsWrite(x) <=> r \in WriteReqs
  /\ q.s = x.s /\ q.target = ChunkIndex(x.s, x.d)

\* Its chunks are submitted and under way.
Chunking(q, x) ==
  /\ ~Working(q)
  /\ q.out \subseteq (0 .. x.sub - 1) \ Immediate(x, q)
  /\ x.rem = Cardinality(q.out) + IF x.pend = "chunks" THEN NumBaseBdevs - x.sub ELSE 0
  /\ x.rem > 0
  /\ x.pend = "chunks" => x.sub < NumBaseBdevs /\ x.sub \notin Immediate(x, q)
  /\ x.pend = "none" => x.sub > 0 /\ (IsWrite(x) \/ x.sub = NumBaseBdevs)

\* The counters at a xor: before the chunks of a write, and after those of a
\* reconstruct read.
AtXor(q, x) ==
  /\ q.out = {} /\ x.pend = "none"
  /\ IF IsWrite(x) THEN x.rem = NumBaseBdevs /\ x.sub = 0
     ELSE x.rem = 1 /\ x.sub = NumBaseBdevs /\ x.status = "success"

\* Its xor is under way or waits in the retry queue.
Xoring(q, x, queued) ==
  /\ AtXor(q, x)
  /\ q.seg > 0 \/ q.md
  /\ IF q.seg > 0 THEN q.task # queued ELSE ~q.task /\ ~queued
  /\ q.mdTasks = IF q.md THEN 1 ELSE 0
  /\ WithMd => ~queued

Stage(q, x, queued) == (Chunking(q, x) /\ ~queued) \/ Xoring(q, x, queued)

\* An I/O that owns no stripe request.
Loose(x) ==
  /\ x.pend \in {"none", "direct", "rw"}
  /\ x.pend # "none" => x.ph = "active" /\ ~IsWrite(x) /\ x.sub = 0

Typed(ios, reqs) ==
  /\ ios \in [IOs -> IoRecord] /\ reqs \in [Reqs -> ReqRecord]
  /\ \A r \in Reqs : reqs[r].md => WithMd

\* S: the requests in the retry queue.
Linked(ios, reqs, S) ==
  /\ \A r \in Reqs : IF reqs[r].free THEN Idle(reqs[r]) /\ r \notin S
                     ELSE reqs[r].io \in IOs /\ Owned(r, reqs[r], ios[reqs[r].io])
  /\ \A i \in IOs : IF ios[i].sr = None THEN Loose(ios[i])
                    ELSE ~reqs[ios[i].sr].free /\ reqs[ios[i].sr].io = i

Staged(ios, reqs, S) ==
  \A r \in Reqs : ~reqs[r].free => Stage(reqs[r], ios[reqs[r].io], r \in S)

Members(s) == {s[j] : j \in 1 .. Len(s)}
Waiting    == Members(retryQ)

InOnce(s) == s \in Seq(Reqs) /\ \A j, k \in 1 .. Len(s) : s[j] = s[k] => j = k

\* One base bdev at most is missing.
Redundant == \E c \in Chunks : Chunks \ {c} \subseteq baseCh

QueueInv ==
  /\ Typed(io, req) /\ Linked(io, req, Waiting) /\ InOnce(retryQ)
  /\ crashed \in {"no", "null_channel"}
  /\ crashed = "no" => Staged(io, req, Waiting)
  /\ retryQ # << >> => ~WithMd

Others ==
  /\ xorBufs \in Reqs \cup {None}
  /\ baseCh \subseteq Chunks /\ Redundant
  /\ accelFull \in BOOLEAN
  /\ disk \in [Stripes -> [Chunks -> Bits]]
  /\ want \in [Stripes -> StripeData \cup {Unknown}]
  /\ clean \subseteq IOs

IInv == QueueInv /\ Others

-----------------------------------------------------------------------------
(* The handlers.                                                            *)

\* What a handler leaves for I/O i and request r: either both are done with, or
\* the request is still that of the I/O and at one of its stages.
Outcome == [x : IoRecord, q : ReqRecord, enq : BOOLEAN, bufs : BOOLEAN,
            drain : BOOLEAN, crash : {"no", "null_channel"}]

Good(i, r, p) ==
  /\ p \in Outcome
  /\ p.q.md => WithMd
  /\ p.drain => ~p.enq /\ p.crash = "no"
  /\ p.enq => ~WithMd
  /\ IF p.q.free THEN Idle(p.q) /\ ~p.enq /\ p.x.sr = None /\ p.x.ph = "done" /\ p.x.pend = "none"
     ELSE /\ p.q.io = i /\ Owned(r, p.q, p.x)
          /\ p.crash = "no" => Stage(p.q, p.x, p.enq)

\* What it works on.
AtHand(i, r, x, q) ==
  /\ i \in IOs /\ r \in Reqs /\ x \in IoRecord /\ q \in ReqRecord
  /\ q.md => WithMd
  /\ ~q.free /\ q.io = i /\ Owned(r, q, x)

LEMMA Geometry ==
  /\ NumBaseBdevs \in Nat /\ NumBaseBdevs >= 3
  /\ IsFiniteSet(Chunks)
  /\ \A S \in SUBSET Chunks : IsFiniteSet(S) /\ Cardinality(S) \in Nat
  /\ \A s \in Stripes, d \in DataIdx : ParityIndex(s) \in Chunks /\ ChunkIndex(s, d) \in Chunks
<1>1. NumBaseBdevs \in Nat /\ NumBaseBdevs >= 3
  BY NumAssumption
<1>2. IsFiniteSet(Chunks)
  BY <1>1, FS_Interval DEF Chunks
<1>3. \A S \in SUBSET Chunks : IsFiniteSet(S) /\ Cardinality(S) \in Nat
  BY <1>2, FS_Subset, FS_CardinalityType
<1>4. ASSUME NEW s \in Stripes, NEW d \in DataIdx
      PROVE  ParityIndex(s) \in Chunks /\ ChunkIndex(s, d) \in Chunks
  <2>1. s \in Nat
    BY StripeAssumption
  <2>2. s % NumBaseBdevs \in 0 .. NumBaseBdevs - 1
    BY <2>1, <1>1
  <2>3. QED
    BY <2>2, <1>1 DEF ParityIndex, ChunkIndex, Chunks, DataIdx, DataChunksNum
<1>5. QED
  BY <1>1, <1>2, <1>3, <1>4

LEMMA CompleteResult ==
  ASSUME NEW x \in IoRecord, NEW st \in {"success", "failed", "nomem"}
  PROVE  LET z == Complete(x, st)
         IN  /\ z \in IoRecord /\ z.sr = None /\ z.pend = "none" /\ Loose(z)
             /\ z.ph = IF st = "nomem" THEN "nomem" ELSE "done"
<1> DEFINE z == Complete(x, st)
<1>1. z = [x EXCEPT !.ph = IF st = "nomem" THEN "nomem" ELSE "done",
                    !.res = st, !.pend = "none", !.sr = None]
  BY DEF Complete
<1>2. /\ z.ph = (IF st = "nomem" THEN "nomem" ELSE "done") /\ z.res = st
      /\ z.pend = "none" /\ z.sr = None
  BY <1>1 DEF IoRecord
<1>3. z \in IoRecord
  BY <1>1 DEF IoRecord
<1> HIDE DEF z
<1>4. Loose(z)
  BY <1>2 DEF Loose
<1>5. QED
  BY <1>2, <1>3, <1>4 DEF z

\* What remains when n parts have ended.
LEMMA PartResult ==
  ASSUME NEW x \in IoRecord, NEW n \in Nat, n <= x.rem, NEW st \in {"success", "failed"}
  PROVE  LET z == CompletePart(x, n, st)
         IN  /\ z \in IoRecord
             /\ x.rem = n => z.ph = "done" /\ z.sr = None /\ z.pend = "none"
             /\ x.rem > n => /\ z.rem = x.rem - n /\ z.ph = x.ph /\ z.pend = x.pend /\ z.sr = x.sr
                             /\ z.type = x.type /\ z.s = x.s /\ z.d = x.d /\ z.sub = x.sub
                             /\ st = "success" => z.status = x.status
<1> DEFINE y == [x EXCEPT !.rem = @ - n, !.status = IF st = "success" THEN @ ELSE st]
<1>1. x.rem \in Nat /\ x.rem <= NumBaseBdevs
  BY Geometry DEF IoRecord
<1>2. y \in IoRecord /\ y.rem = x.rem - n
  <2>1. x.rem - n \in 0 .. NumBaseBdevs
    BY <1>1, Geometry
  <2>2. y.rem = x.rem - n
    BY DEF IoRecord
  <2>3. y \in IoRecord
    BY <2>1 DEF IoRecord
  <2>4. QED
    BY <2>2, <2>3
<1>3. y.status \in {"success", "failed", "nomem"}
  BY <1>2 DEF IoRecord
<1>4. CASE x.rem = n
  <2>1. CompletePart(x, n, st) = Complete(y, y.status)
    BY <1>1, <1>2, <1>4 DEF CompletePart
  <2>2. y.status \in {"success", "failed"}
    BY <1>2 DEF IoRecord
  <2>3. QED
    BY <2>1, <2>2, <1>1, <1>2, <1>4, CompleteResult
<1>5. CASE x.rem > n
  <2>1. CompletePart(x, n, st) = y
    BY <1>1, <1>2, <1>5 DEF CompletePart
  <2>2. /\ y.ph = x.ph /\ y.pend = x.pend /\ y.sr = x.sr /\ y.type = x.type
        /\ y.s = x.s /\ y.d = x.d /\ y.sub = x.sub /\ st = "success" => y.status = x.status
    BY DEF IoRecord
  <2>3. QED
    BY <2>1, <2>2, <1>1, <1>2, <1>5
<1>6. QED
  BY <1>1, <1>4, <1>5

\* The chunks from m to k are counted once, as under way or as done at once.
LEMMA CountedOnce ==
  ASSUME NEW m \in 0 .. NumBaseBdevs, NEW k \in m .. NumBaseBdevs,
         NEW out \in SUBSET (0 .. m - 1), NEW imm
  PROVE  LET n   == Cardinality((m .. k - 1) \cap imm)
             now == out \cup ((m .. k - 1) \ imm)
         IN  /\ now \in SUBSET (0 .. k - 1) /\ now \in SUBSET Chunks
             /\ n \in Nat /\ Cardinality(now) \in Nat
             /\ Cardinality(now) + n = Cardinality(out) + k - m
<1> DEFINE passed == m .. k - 1
           n   == Cardinality(passed \cap imm)
           now == out \cup (passed \ imm)
<1>1. m \in Nat /\ k \in Nat /\ m <= k /\ k <= NumBaseBdevs /\ NumBaseBdevs \in Nat
  BY Geometry
<1>2. passed \in SUBSET Chunks /\ out \in SUBSET Chunks /\ now \in SUBSET Chunks
  <2>1. \A c \in passed : c \in Chunks
    BY <1>1 DEF Chunks
  <2>2. \A c \in out : c \in Chunks
    BY <1>1 DEF Chunks
  <2>3. QED
    BY <2>1, <2>2
<1>3. now \in SUBSET (0 .. k - 1)
  <2>1. \A c \in passed : c \in 0 .. k - 1
    BY <1>1
  <2>2. \A c \in out : c \in 0 .. k - 1
    BY <1>1
  <2>3. QED
    BY <2>1, <2>2
<1>4. IsFiniteSet(passed) /\ IsFiniteSet(out) /\ IsFiniteSet(passed \ imm)
  BY <1>2, Geometry
<1>5. Cardinality(passed) = k - m
  <2>1. m \in Int /\ k - 1 \in Int
    BY <1>1
  <2>2. Cardinality(passed) = IF m > k - 1 THEN 0 ELSE (k - 1) - m + 1
    BY <2>1, FS_Interval
  <2>3. QED
    BY <2>2, <1>1
<1>6. n = Cardinality(passed) - Cardinality(passed \ imm) /\ n \in Nat
  <2>1. Cardinality(passed \ imm) = Cardinality(passed) - Cardinality(passed \cap imm)
    BY <1>4, FS_Difference
  <2>2. passed \cap imm \in SUBSET Chunks /\ passed \ imm \in SUBSET Chunks
    BY <1>2
  <2>3. n \in Nat /\ Cardinality(passed \ imm) \in Nat /\ Cardinality(passed) \in Nat
    BY <1>2, <2>2, Geometry
  <2>4. QED
    BY <2>1, <2>3
<1>7. Cardinality(now) = Cardinality(out) + Cardinality(passed \ imm)
  <2>1. out \cap (passed \ imm) = {}
    BY <1>1
  <2>2. Cardinality(now) = Cardinality(out) + Cardinality(passed \ imm) - Cardinality({})
    BY <2>1, <1>4, FS_Union
  <2>3. Cardinality(out) \in Nat /\ passed \ imm \in SUBSET Chunks
    BY <1>2, Geometry
  <2>4. Cardinality(passed \ imm) \in Nat
    BY <2>3, Geometry
  <2>5. QED
    BY <2>2, <2>3, <2>4, FS_EmptySet
<1>8. Cardinality(now) \in Nat /\ Cardinality(out) \in Nat /\ Cardinality(passed \ imm) \in Nat
  <2>1. passed \ imm \in SUBSET Chunks
    BY <1>2
  <2>2. QED
    BY <2>1, <1>2, Geometry
<1>9. Cardinality(now) + n = Cardinality(out) + k - m
  BY <1>1, <1>5, <1>6, <1>7, <1>8
<1>10. QED
  BY <1>2, <1>3, <1>6, <1>8, <1>9

\* What makes the outcome of a handler good.
LEMMA Finished ==
  ASSUME NEW i, NEW r, NEW x \in IoRecord, NEW q \in ReqRecord, NEW bufs \in BOOLEAN,
         NEW drain \in BOOLEAN, q.md => WithMd, q.free = TRUE, Idle(q),
         x.sr = None, x.ph = "done", x.pend = "none"
  PROVE  Good(i, r, [x |-> x, q |-> q, enq |-> FALSE, bufs |-> bufs, drain |-> drain, crash |-> "no"])
BY DEF Good, Outcome

LEMMA Ongoing ==
  ASSUME NEW i, NEW r, NEW x, NEW q, NEW enq \in BOOLEAN, NEW bufs \in BOOLEAN,
         NEW drain \in BOOLEAN, NEW crash \in {"no", "null_channel"},
         AtHand(i, r, x, q), drain => ~enq /\ crash = "no", enq => ~WithMd,
         crash = "no" => Stage(q, x, enq)
  PROVE  Good(i, r, [x |-> x, q |-> q, enq |-> enq, bufs |-> bufs, drain |-> drain, crash |-> crash])
BY DEF Good, Outcome, AtHand

\* The loop of raid5f_stripe_request_submit_chunks can go on: not all the chunks
\* that are left are done at once.
ToSubmit(q, x) ==
  /\ x.pend = "none" /\ ~Working(q)
  /\ q.out \subseteq (0 .. x.sub - 1) \ Immediate(x, q)
  /\ x.rem = Cardinality(q.out) + NumBaseBdevs - x.sub
  /\ \E c \in x.sub .. NumBaseBdevs - 1 : c \notin Immediate(x, q)

\* What a handler leaves that has only submitted chunks.
Plain(p) == p.enq = FALSE /\ p.drain = FALSE /\ ~Working(p.q)

\* The loop has passed the chunks up to k - 1: those done at once are counted off,
\* and the others are under way.
PassedOut(x, q, k) == q.out \cup ((x.sub .. k - 1) \ Immediate(x, q))
PassedIo(x, q, k) ==
  LET x0   == [x EXCEPT !.sub = k]
      done == (x.sub .. k - 1) \cap Immediate(x, q)
  IN  IF done = {} THEN x0 ELSE CompletePart(x0, Cardinality(done), "success")

PassedWell(x, q, k) ==
  LET x1   == PassedIo(x, q, k)
      now  == PassedOut(x, q, k)
      left == NumBaseBdevs - k
  IN  /\ x.sub \in 0 .. NumBaseBdevs /\ k \in Nat /\ left \in Nat
      /\ now \in SUBSET (0 .. k - 1) /\ now \in SUBSET Chunks /\ now \cap Immediate(x, q) = {}
      /\ Cardinality(now) \in Nat /\ Cardinality(now) + left > 0
      /\ x1 \in IoRecord /\ x1.rem = Cardinality(now) + left
      /\ x1.ph = x.ph /\ x1.pend = "none" /\ x1.sr = x.sr /\ x1.type = x.type
      /\ x1.s = x.s /\ x1.d = x.d /\ x1.sub = k

LEMMA ChunksPassed ==
  ASSUME NEW i, NEW r, NEW x, NEW q, AtHand(i, r, x, q), ToSubmit(q, x), NEW k \in x.sub .. NumBaseBdevs
  PROVE  PassedWell(x, q, k)
<1> DEFINE imm    == Immediate(x, q)
           passed == x.sub .. k - 1
           x0     == [x EXCEPT !.sub = k]
           x1     == PassedIo(x, q, k)
           now    == PassedOut(x, q, k)
           left   == NumBaseBdevs - k
<1>1. /\ x.sub \in 0 .. NumBaseBdevs /\ x.rem \in 0 .. NumBaseBdevs /\ NumBaseBdevs \in Nat
      /\ k \in Nat /\ left \in Nat
  <2>1. x.sub \in 0 .. NumBaseBdevs /\ x.rem \in 0 .. NumBaseBdevs /\ NumBaseBdevs \in Nat
    BY Geometry DEF AtHand, IoRecord
  <2>2. QED
    BY <2>1
<1>2. /\ now \in SUBSET (0 .. k - 1) /\ now \in SUBSET Chunks
      /\ Cardinality(passed \cap imm) \in Nat /\ Cardinality(now) \in Nat
      /\ Cardinality(now) + Cardinality(passed \cap imm) = Cardinality(q.out) + k - x.sub
  <2>1. q.out \in SUBSET (0 .. x.sub - 1)
    BY DEF ToSubmit
  <2>2. QED
    BY <1>1, <2>1, CountedOnce DEF PassedOut
<1>3. now \cap imm = {}
  BY DEF ToSubmit, PassedOut
<1>4. Cardinality(q.out) \in Nat
  BY Geometry DEF AtHand, ReqRecord
<1>5. x.rem - Cardinality(passed \cap imm) = Cardinality(now) + left
  BY <1>1, <1>2, <1>4 DEF ToSubmit
<1>6. Cardinality(now) + left > 0
  <2>1. CASE k < NumBaseBdevs
    BY <2>1, <1>1, <1>2
  <2>2. CASE k = NumBaseBdevs
    <3>1. PICK c \in x.sub .. NumBaseBdevs - 1 : c \notin imm
      BY DEF ToSubmit
    <3>2. c \in now
      BY <3>1, <2>2 DEF PassedOut
    <3>3. IsFiniteSet(now)
      BY <1>2, Geometry
    <3>4. Cardinality(now) # 0
      BY <3>2, <3>3, FS_EmptySet
    <3>5. QED
      BY <3>4, <1>1, <1>2
  <2>3. QED
    BY <2>1, <2>2, <1>1
<1>7. x0 \in IoRecord
  BY <1>1 DEF AtHand, IoRecord
<1>8. /\ x1 \in IoRecord /\ x1.rem = Cardinality(now) + left
      /\ x1.ph = x.ph /\ x1.pend = "none" /\ x1.sr = x.sr /\ x1.type = x.type
      /\ x1.s = x.s /\ x1.d = x.d /\ x1.sub = k
  <2>1. /\ x0.rem = x.rem /\ x0.ph = x.ph /\ x0.pend = "none" /\ x0.sr = x.sr /\ x0.type = x.type
        /\ x0.s = x.s /\ x0.d = x.d /\ x0.sub = k
    BY DEF AtHand, IoRecord, ToSubmit
  <2>2. CASE passed \cap imm = {}
    <3>1. Cardinality(passed \cap imm) = 0
      BY <2>2, FS_EmptySet
    <3>2. x0.rem = Cardinality(now) + left
      BY <3>1, <1>5, <2>1, <1>1
    <3>3. QED
      BY <2>1, <2>2, <3>2, <1>7 DEF PassedIo
  <2>3. CASE passed \cap imm # {}
    <3>1. Cardinality(passed \cap imm) < x0.rem
      BY <2>1, <1>1, <1>2, <1>5, <1>6
    <3>2. x1 = CompletePart(x0, Cardinality(passed \cap imm), "success")
      BY <2>3 DEF PassedIo
    <3>3. x0.rem \in Nat
      BY <2>1, <1>1
    <3> HIDE DEF x1, x0, now, left
    <3>4. /\ x1 \in IoRecord /\ x1.rem = x0.rem - Cardinality(passed \cap imm)
          /\ x1.ph = x0.ph /\ x1.pend = x0.pend /\ x1.sr = x0.sr /\ x1.type = x0.type
          /\ x1.s = x0.s /\ x1.d = x0.d /\ x1.sub = x0.sub
      BY <1>7, <1>2, <3>1, <3>2, <3>3, PartResult
    <3>5. QED
      BY <3>4, <2>1, <1>5
  <2>4. QED
    BY <2>2, <2>3
<1>9. QED
  BY <1>1, <1>2, <1>3, <1>6, <1>8 DEF PassedWell

LEMMA ChunkRunGood ==
  ASSUME NEW i, NEW r, NEW x, NEW q, AtHand(i, r, x, q), ToSubmit(q, x), NEW k, NEW o,
         \/ k = NumBaseBdevs /\ o = "ok"
         \/ /\ k \in (x.sub .. NumBaseBdevs - 1) \ Immediate(x, q)
            /\ o = "nomem" \/ (o = "err" /\ IsWrite(x))
  PROVE  LET p == ChunkRun(x, q, k, o)
         IN  Good(i, r, p) /\ Plain(p) /\ p.crash = "no"
<1> DEFINE imm    == Immediate(x, q)
           passed == x.sub .. k - 1
           x1     == PassedIo(x, q, k)
           now    == PassedOut(x, q, k)
           q1     == [q EXCEPT !.out = @ \cup (passed \ imm)]
           left   == NumBaseBdevs - k
<1>1. k \in x.sub .. NumBaseBdevs /\ NumBaseBdevs \in Nat
  <2>1. x.sub \in 0 .. NumBaseBdevs /\ NumBaseBdevs \in Nat
    BY Geometry DEF AtHand, IoRecord
  <2>2. QED
    BY <2>1
<1>2. PassedWell(x, q, k)
  BY <1>1, ChunksPassed
<1>3. /\ now \in SUBSET (0 .. k - 1) /\ now \in SUBSET Chunks /\ now \cap imm = {}
      /\ Cardinality(now) \in Nat /\ Cardinality(now) + left > 0 /\ left \in Nat /\ k \in Nat
  BY <1>2 DEF PassedWell
<1>4. x.sub \in 0 .. NumBaseBdevs
  BY <1>2 DEF PassedWell
<1>5. /\ x1 \in IoRecord /\ x1.rem = Cardinality(now) + left
      /\ x1.ph = x.ph /\ x1.pend = "none" /\ x1.sr = x.sr /\ x1.type = x.type
      /\ x1.s = x.s /\ x1.d = x.d /\ x1.sub = k
  BY <1>2 DEF PassedWell
<1>6. /\ q1 \in ReqRecord /\ q1.out = now /\ q1.free = q.free /\ q1.io = q.io /\ q1.s = q.s
      /\ q1.target = q.target /\ q1.task = q.task /\ q1.mdTasks = q.mdTasks /\ q1.md = q.md
  BY <1>3 DEF AtHand, ReqRecord, PassedOut
<1>7. ~Working(q1) /\ Immediate(x1, q1) = imm /\ IsWrite(x1) = IsWrite(x)
  BY <1>5, <1>6 DEF ToSubmit, Working, Immediate, IsWrite
<1>8. Owned(r, q1, x1)
  BY <1>5, <1>6, <1>7 DEF AtHand, Owned
<1>9. q1.md => WithMd
  BY <1>6 DEF AtHand
<1>10. AtHand(i, r, x1, q1)
  BY <1>5, <1>6, <1>8, <1>9 DEF AtHand
<1> HIDE DEF imm, passed, x1, now, q1, left
<1>11. CASE o = "ok"
  <2>1. ChunkRun(x, q, k, o) = Result(x1, q1)
    BY <1>11 DEF ChunkRun, PassedIo, x1, q1, passed, imm
  <2>2. k = NumBaseBdevs /\ left = 0
    BY <1>11, <1>1 DEF left
  <2>3. /\ Cardinality(q1.out) \in Nat /\ x1.rem = Cardinality(q1.out) /\ x1.rem > 0
        /\ x1.sub = NumBaseBdevs
    BY <2>2, <1>1, <1>3, <1>5, <1>6
  <2>4. q1.out \subseteq (0 .. x1.sub - 1) \ Immediate(x1, q1)
    BY <1>3, <1>5, <1>6, <1>7
  <2>5. Chunking(q1, x1)
    BY <2>3, <2>4, <1>5, <1>7, Geometry DEF Chunking
  <2>6. Good(i, r, Result(x1, q1))
    BY <2>5, <1>10, Ongoing DEF Result, Stage
  <2>7. QED
    BY <2>1, <2>6, <1>7 DEF Plain, Result
<1>12. CASE o = "nomem"
  <2> DEFINE y == [x1 EXCEPT !.pend = "chunks"]
  <2>1. ChunkRun(x, q, k, o) = Result(y, q1)
    BY <1>12 DEF ChunkRun, PassedIo, x1, q1, passed, imm
  <2>2. k < NumBaseBdevs /\ k \notin imm
    BY <1>12, <1>1 DEF imm
  <2>3. /\ y \in IoRecord /\ y.pend = "chunks" /\ y.rem = x1.rem /\ y.ph = x1.ph /\ y.sr = x1.sr
        /\ y.type = x1.type /\ y.s = x1.s /\ y.d = x1.d /\ y.sub = x1.sub
    BY <1>5 DEF IoRecord
  <2> HIDE DEF y
  <2>4. Immediate(y, q1) = imm
    BY <2>3, <1>7 DEF Immediate, IsWrite
  <2>5. y.rem = Cardinality(q1.out) + (NumBaseBdevs - y.sub) /\ y.rem > 0
    BY <2>3, <1>3, <1>5, <1>6 DEF left
  <2>6. q1.out \subseteq (0 .. y.sub - 1) \ Immediate(y, q1)
    BY <2>3, <2>4, <1>3, <1>5, <1>6
  <2>7. y.sub < NumBaseBdevs /\ y.sub \notin Immediate(y, q1)
    BY <2>2, <2>3, <2>4, <1>5
  <2>8. Chunking(q1, y)
    BY <2>3, <2>5, <2>6, <2>7, <1>7 DEF Chunking
  <2>9. Owned(r, q1, y)
    BY <2>3, <1>8 DEF Owned, IsWrite
  <2>10. QED
    <3>1. AtHand(i, r, y, q1)
      BY <2>3, <2>9, <1>6, <1>9 DEF AtHand
    <3>2. Good(i, r, Result(y, q1))
      BY <2>8, <3>1, Ongoing DEF Result, Stage
    <3>3. QED
      BY <2>1, <3>2, <1>7 DEF Plain, Result
<1>13. CASE o = "err"
  <2> DEFINE y == CompletePart(x1, left, "failed")
             z == IF y.ph = "done" THEN Release(q1) ELSE q1
  <2>1. ChunkRun(x, q, k, o) = Result(y, z)
    BY <1>13 DEF ChunkRun, PassedIo, x1, q1, passed, imm, left
  <2>2. IsWrite(x) /\ k < NumBaseBdevs
    BY <1>13, <1>1
  <2>3. left <= x1.rem
    BY <1>1, <1>3, <1>5
  <2>4. CASE Cardinality(now) = 0
    <3>1. x1.rem = left
      BY <2>4, <1>1, <1>3, <1>5
    <3>2. y \in IoRecord /\ y.ph = "done" /\ y.sr = None /\ y.pend = "none"
      BY <3>1, <2>3, <1>1, <1>3, <1>5, PartResult
    <3>3. now = {}
      <4>1. IsFiniteSet(now)
        BY <1>3, Geometry
      <4>2. QED
        BY <4>1, <2>4, FS_EmptySet
    <3>4. /\ z \in ReqRecord /\ z.free = TRUE /\ z.out = {} /\ z.task = q1.task
          /\ z.mdTasks = q1.mdTasks /\ z.md = q1.md
      BY <3>2, <3>3, <1>6 DEF Release, ReqRecord
    <3> HIDE DEF y, z
    <3>5. Idle(z)
      BY <3>4, <1>7 DEF Idle, Working
    <3>6. z.md => WithMd
      BY <3>4, <1>9
    <3>7. Good(i, r, Result(y, z))
      BY <3>2, <3>4, <3>5, <3>6, Finished DEF Result
    <3>8. QED
      BY <2>1, <3>5, <3>7 DEF Plain, Result, Idle
  <2>5. CASE Cardinality(now) # 0
    <3>1. x1.rem > left /\ Cardinality(now) > 0
      BY <2>5, <1>1, <1>3, <1>5
    <3>2. /\ y \in IoRecord /\ y.rem = x1.rem - left /\ y.ph = x1.ph /\ y.pend = x1.pend
          /\ y.sr = x1.sr /\ y.type = x1.type /\ y.s = x1.s /\ y.d = x1.d /\ y.sub = x1.sub
      BY <3>1, <2>3, <1>1, <1>3, <1>5, PartResult
    <3>3. z = q1
      BY <3>2, <1>8 DEF Owned
    <3> HIDE DEF y, z
    <3>4. Immediate(y, q1) = imm /\ IsWrite(y)
      BY <3>2, <1>7, <2>2 DEF Immediate, IsWrite
    <3>5. y.rem = Cardinality(now) /\ y.rem > 0
      BY <3>1, <3>2, <1>1, <1>3, <1>5
    <3>6. k > 0
      <4>1. now # {}
        BY <2>5, FS_EmptySet
      <4>2. PICK c \in now : c \in 0 .. k - 1
        BY <4>1, <1>3
      <4>3. QED
        BY <4>2, <1>3
    <3>7. Chunking(q1, y)
      BY <3>2, <3>4, <3>5, <3>6, <1>3, <1>5, <1>6, <1>7 DEF Chunking
    <3>8. Owned(r, q1, y)
      BY <3>2, <1>8 DEF Owned, IsWrite
    <3>9. AtHand(i, r, y, q1)
      BY <3>2, <3>8, <1>6, <1>9 DEF AtHand
    <3>10. Good(i, r, Result(y, q1))
      BY <3>7, <3>9, Ongoing DEF Result, Stage
    <3>11. QED
      BY <2>1, <3>3, <3>10, <1>7 DEF Plain, Result
  <2>6. QED
    BY <2>4, <2>5
<1>14. QED
  BY <1>11, <1>12, <1>13

\* The fault injection changes contents only.
LEMMA PoisonedKeeps ==
  ASSUME NEW i, NEW r, NEW x, NEW q, AtHand(i, r, x, q), NEW k, NEW p \in Poisoned(x, q, k)
  PROVE  /\ AtHand(i, r, x, p) /\ Immediate(x, p) = Immediate(x, q)
         /\ ToSubmit(q, x) => ToSubmit(p, x)
<1>1. CASE p = q
  BY <1>1
<1>2. ASSUME NEW c \in Chunks, p = [q EXCEPT !.poisoned = TRUE, !.buf[c] = 1 - @]
      PROVE  /\ AtHand(i, r, x, p) /\ Immediate(x, p) = Immediate(x, q)
             /\ ToSubmit(q, x) => ToSubmit(p, x)
  <2>1. q \in ReqRecord
    BY DEF AtHand
  <2>2. 1 - q.buf[c] \in Bits
    BY <2>1 DEF ReqRecord, Bits
  <2>3. [q.buf EXCEPT ![c] = 1 - q.buf[c]] \in [Chunks -> Bits]
    BY <2>1, <2>2 DEF ReqRecord
  <2>4. p = [q EXCEPT !.poisoned = TRUE, !.buf = [q.buf EXCEPT ![c] = 1 - q.buf[c]]]
    BY <1>2, <2>1 DEF ReqRecord
  <2> DEFINE buf == [q.buf EXCEPT ![c] = 1 - q.buf[c]]
  <2> HIDE DEF buf
  <2>5. /\ p \in ReqRecord /\ p.free = q.free /\ p.io = q.io /\ p.s = q.s /\ p.target = q.target
        /\ p.out = q.out /\ p.task = q.task /\ p.mdTasks = q.mdTasks /\ p.md = q.md
    BY <2>1, <2>3, <2>4 DEF ReqRecord, buf
  <2>6. QED
    BY <2>5 DEF AtHand, Owned, Immediate, ToSubmit, Working
<1>3. QED
  BY <1>1, <1>2 DEF Poisoned

\* raid5f_stripe_request_submit_chunks
LEMMA SubmitChunksGood ==
  ASSUME Tame, NEW i, NEW r, NEW x, NEW q, AtHand(i, r, x, q), ToSubmit(q, x),
         NEW waited, NEW p \in SubmitChunks(x, q, waited)
  PROVE  Good(i, r, p) /\ Plain(p) /\ (IsWrite(x) => p.crash = "no")
<1> DEFINE null == NullChannels(x, q)
           dead == [Result(x, q) EXCEPT !.crash = "null_channel"]
<1>1. CASE p = dead /\ null # {}
  <2>1. p = [x |-> x, q |-> q, enq |-> FALSE, bufs |-> FALSE, drain |-> FALSE,
             crash |-> "null_channel"]
    BY <1>1 DEF Result
  <2>2. Good(i, r, p)
    BY <2>1, Ongoing
  <2>3. ~IsWrite(x)
    BY <1>1 DEF NullChannels
  <2>4. QED
    BY <2>1, <2>2, <2>3 DEF Plain, ToSubmit
<1>2. ASSUME NEW k, NEW o, NEW h \in Poisoned(x, q, k), p = ChunkRun(x, h, k, o),
             \/ k = NumBaseBdevs /\ o = "ok"
             \/ /\ k \in (x.sub .. NumBaseBdevs - 1) \ Immediate(x, q)
                /\ o = "nomem" \/ (o = "err" /\ IsWrite(x))
      PROVE  Good(i, r, p) /\ Plain(p) /\ (IsWrite(x) => p.crash = "no")
  <2>1. AtHand(i, r, x, h) /\ ToSubmit(h, x) /\ Immediate(x, h) = Immediate(x, q)
    BY PoisonedKeeps
  <2>2. QED
    BY <1>2, <2>1, ChunkRunGood
<1>3. \/ p = dead /\ null # {}
      \/ \E k, o : /\ \/ k = NumBaseBdevs /\ o = "ok"
                      \/ /\ k \in (x.sub .. NumBaseBdevs - 1) \ Immediate(x, q)
                         /\ o = "nomem" \/ (o = "err" /\ IsWrite(x))
                   /\ \E h \in Poisoned(x, q, k) : p = ChunkRun(x, h, k, o)
  <2>1. CASE p = dead /\ null # {}
    BY <2>1
  <2>2. CASE \E e \in LoopEnds(x, q, waited) :
               \E h \in Poisoned(x, q, e[1]) : p = ChunkRun(x, h, e[1], e[2])
    <3>1. PICK e \in LoopEnds(x, q, waited) :
                 \E h \in Poisoned(x, q, e[1]) : p = ChunkRun(x, h, e[1], e[2])
      BY <2>2
    <3>2. CASE e = <<NumBaseBdevs, "ok">>
      <4>1. e[1] = NumBaseBdevs /\ e[2] = "ok"
        BY <3>2
      <4>2. QED
        BY <3>1, <4>1
    <3>3. CASE e # <<NumBaseBdevs, "ok">>
      <4>1. e \in ((x.sub .. NumBaseBdevs - 1) \ Immediate(x, q))
                     \X {o \in {"nomem", "err"} : SubmitError(x, o) \in Faults}
        BY <3>3 DEF LoopEnds
      <4>2. e[2] = "nomem" \/ (e[2] = "err" /\ IsWrite(x))
        BY <4>1 DEF Tame, SubmitError
      <4>3. e[1] \in (x.sub .. NumBaseBdevs - 1) \ Immediate(x, q)
        BY <4>1
      <4>4. QED
        BY <3>1, <4>2, <4>3
    <3>4. QED
      BY <3>2, <3>3
  <2>3. QED
    BY <2>1, <2>2 DEF SubmitChunks
<1>4. QED
  BY <1>1, <1>2, <1>3

\* The start of the loop: some chunk is not done at once, since one base bdev
\* at most is missing and there are three.
LEMMA StartToSubmit ==
  ASSUME Redundant, NEW i, NEW r, NEW x, NEW q, AtHand(i, r, x, q), ~Working(q), q.out = {},
         x.pend = "none", x.sub = 0, x.rem = NumBaseBdevs
  PROVE  ToSubmit(q, x)
<1>1. 0 \in Chunks /\ 1 \in Chunks
  BY Geometry DEF Chunks
<1>2. 0 \notin Immediate(x, q) \/ 1 \notin Immediate(x, q)
  BY <1>1 DEF Immediate, Redundant
<1>3. 0 \in x.sub .. NumBaseBdevs - 1 /\ 1 \in x.sub .. NumBaseBdevs - 1
  BY Geometry
<1>4. Cardinality(q.out) = 0
  BY FS_EmptySet
<1>5. x.rem = Cardinality(q.out) + NumBaseBdevs - x.sub
  BY <1>4, Geometry
<1>6. QED
  BY <1>2, <1>3, <1>5 DEF ToSubmit

-----------------------------------------------------------------------------
(* The xor.                                                                 *)

\* A request goes to the queue only if the channel, or the others, hold the tasks; if
\* the handler takes no request off the queue, it leaves something under way or found
\* nothing.
Onward(p, busy) == p.enq => (busy \/ accelFull) /\ ~WithMd
Left(p)         == p.drain \/ p.enq \/ Working(p.q)

\* raid5f_xor_stripe_done
LEMMA XorDoneGood ==
  ASSUME Tame, Redundant, NEW i, NEW r, NEW x, NEW q, AtHand(i, r, x, q), ~Working(q),
         AtXor(q, x), NEW p \in XorDone(x, q)
  PROVE  Good(i, r, p) /\ p.drain = TRUE
<1>1. x \in IoRecord /\ q \in ReqRecord /\ NumBaseBdevs \in Nat /\ NumBaseBdevs >= 3
  BY Geometry DEF AtHand
<1>2. PICK h : /\ p = [h EXCEPT !.drain = TRUE,
                                 !.crash = IF ~IsWrite(x) /\ x.rem < 1 THEN "assert" ELSE @]
               /\ IF q.status = "ok" /\ IsWrite(x) THEN h \in SubmitChunks(x, q, FALSE)
                  ELSE IF q.status = "ok" THEN h = Result(CompletePart(x, 1, "success"), Release(q))
                  ELSE h = Result(FailXor(x), Release(q))
  BY DEF XorDone
<1>3. ~(~IsWrite(x) /\ x.rem < 1)
  BY DEF AtXor
<1>4. p = [h EXCEPT !.drain = TRUE, !.crash = @]
  BY <1>2, <1>3
<1>5. CASE q.status = "ok" /\ IsWrite(x)
  <2>1. ToSubmit(q, x)
    BY <1>5, StartToSubmit DEF AtXor
  <2>2. h \in SubmitChunks(x, q, FALSE)
    BY <1>2, <1>5
  <2>3. Good(i, r, h) /\ Plain(h) /\ h.crash = "no"
    BY <2>1, <2>2, <1>5, SubmitChunksGood
  <2>4. /\ p \in Outcome /\ p.x = h.x /\ p.q = h.q /\ p.enq = h.enq /\ p.crash = h.crash
        /\ p.drain = TRUE
    BY <1>4, <2>3 DEF Good, Outcome
  <2>5. QED
    BY <2>3, <2>4 DEF Good, Plain
<1>6. CASE ~(q.status = "ok" /\ IsWrite(x))
  <2>1. PICK y : /\ h = Result(y, Release(q))
                 /\ y = IF q.status = "ok" THEN CompletePart(x, 1, "success") ELSE FailXor(x)
    BY <1>2, <1>6
  <2>2. y \in IoRecord /\ y.sr = None /\ y.ph = "done" /\ y.pend = "none"
    <3>1. CASE IsWrite(x)
      <4>1. y = Complete(x, "failed")
        BY <3>1, <2>1, <1>6 DEF FailXor
      <4>2. QED
        BY <4>1, <1>1, CompleteResult
    <3>2. CASE ~IsWrite(x)
      <4>1. PICK st \in {"success", "failed"} : y = CompletePart(x, 1, st)
        BY <3>2, <2>1, <1>6 DEF FailXor
      <4>2. x.rem = 1
        BY <3>2 DEF AtXor
      <4>3. QED
        BY <4>1, <4>2, <1>1, PartResult
    <3>3. QED
      BY <3>1, <3>2
  <2>3. LET z == Release(q)
        IN  z \in ReqRecord /\ z.free = TRUE /\ Idle(z) /\ (z.md => WithMd)
    BY <1>1 DEF Release, ReqRecord, Idle, Working, AtHand, AtXor
  <2>4. p = [x |-> y, q |-> Release(q), enq |-> FALSE, bufs |-> FALSE, drain |-> TRUE, crash |-> "no"]
    BY <1>4, <2>1 DEF Result
  <2>5. QED
    BY <2>2, <2>3, <2>4, Finished
<1>7. QED
  BY <1>5, <1>6

\* raid5f_xor_stripe_continue, and what its caller leaves behind.
LEMMA XorContinueGood ==
  ASSUME Tame, Redundant, NEW i, NEW r, NEW x, NEW q, AtHand(i, r, x, q), AtXor(q, x),
         q.task = FALSE, q.seg > 0, q.mdTasks = IF q.md THEN 1 ELSE 0,
         NEW busy, NEW e \in XorContinue(q, busy), NEW p \in AfterXor(x, e)
  PROVE  Good(i, r, p) /\ Onward(p, busy) /\ Left(p)
<1>1. x \in IoRecord /\ q \in ReqRecord
  BY DEF AtHand
<1>2. CASE e = XorEnd([q EXCEPT !.task = TRUE], "runs")
  <2> DEFINE z == [q EXCEPT !.task = TRUE]
  <2>1. /\ z \in ReqRecord /\ z.task = TRUE /\ z.free = q.free /\ z.io = q.io /\ z.s = q.s
        /\ z.target = q.target /\ z.out = q.out /\ z.seg = q.seg /\ z.mdTasks = q.mdTasks
        /\ z.md = q.md
    BY <1>1 DEF ReqRecord
  <2>2. p = [x |-> x, q |-> z, enq |-> FALSE, bufs |-> TRUE, drain |-> FALSE, crash |-> "no"]
    BY <1>2 DEF AfterXor, XorEnd, Result
  <2> HIDE DEF z
  <2>3. AtHand(i, r, x, z)
    BY <2>1 DEF AtHand, Owned
  <2>4. Xoring(z, x, FALSE)
    BY <2>1 DEF Xoring, AtXor
  <2>5. Good(i, r, p)
    BY <2>2, <2>3, <2>4, Ongoing DEF Stage
  <2>6. QED
    BY <2>1, <2>2, <2>5 DEF Onward, Left, Working
<1>3. CASE e = XorEnd(q, "queued") /\ AccelNomem(busy)
  <2>1. ~WithMd /\ (busy \/ accelFull)
    BY <1>3 DEF Tame, AccelNomem
  <2>2. p = [x |-> x, q |-> q, enq |-> TRUE, bufs |-> TRUE, drain |-> FALSE, crash |-> "no"]
    <3>1. e.end = "queued" /\ e.q = q
      BY <1>3 DEF XorEnd
    <3>2. p = [[Result(x, q) EXCEPT !.enq = TRUE] EXCEPT !.bufs = TRUE]
      BY <3>1 DEF AfterXor
    <3>3. QED
      BY <3>2 DEF Result
  <2>3. Xoring(q, x, TRUE)
    BY <2>1 DEF Xoring
  <2>4. Good(i, r, p)
    BY <2>1, <2>2, <2>3, Ongoing DEF Stage
  <2>5. QED
    BY <2>1, <2>2, <2>4 DEF Onward, Left
<1>4. CASE e = XorFailed(q) /\ AccelError
  <2>1. ~WithMd /\ ~q.md
    BY <1>4 DEF Tame, AccelError, AtHand
  <2> DEFINE z == [q EXCEPT !.status = "err"]
  <2>2. /\ z \in ReqRecord /\ z.task = q.task /\ z.free = q.free /\ z.io = q.io /\ z.s = q.s
        /\ z.target = q.target /\ z.out = q.out /\ z.mdTasks = q.mdTasks
        /\ z.md = q.md
    BY <1>1 DEF ReqRecord
  <2>3. e.q = z /\ e.end = "failed"
    BY <1>4 DEF XorFailed, XorEnd
  <2> HIDE DEF z
  <2>4. AtHand(i, r, x, z) /\ AtXor(z, x) /\ ~Working(z)
    BY <2>1, <2>2 DEF AtHand, AtXor, Owned, Working
  <2>5. PICK h \in XorDone(x, z) : p = [h EXCEPT !.bufs = TRUE]
    BY <2>3 DEF AfterXor
  <2>6. Good(i, r, h) /\ h.drain = TRUE
    BY <2>4, XorDoneGood
  <2>7. /\ p \in Outcome /\ p.x = h.x /\ p.q = h.q /\ p.enq = h.enq /\ p.crash = h.crash
        /\ p.drain = h.drain
    BY <2>5, <2>6 DEF Good, Outcome
  <2>8. QED
    BY <2>6, <2>7 DEF Good, Onward, Left
<1>5. QED
  BY <1>2, <1>3, <1>4 DEF XorContinue

\* raid5f_xor_stripe: it starts anew with the first piece, and with metadata a
\* task for that is under way as well.
Begun(q, z) ==
  /\ z.own = TRUE /\ z.buf = q.buf /\ z.out = q.out /\ z.target = q.target
  /\ z.task = FALSE /\ z.seg > 0 /\ z.mdTasks = IF z.md THEN 1 ELSE 0

LEMMA XorStripeBegins ==
  ASSUME Tame, NEW i, NEW r, NEW x, NEW q, AtHand(i, r, x, q), AtXor(q, x),
         ~Working(q), NEW busy, NEW e \in XorStripe(q, busy)
  PROVE  \E z, b : /\ AtHand(i, r, x, z) /\ AtXor(z, x) /\ Begun(q, z)
                  /\ e \in XorContinue(z, b) /\ (b = busy \/ WithMd)
<1> DEFINE start(n) == [q EXCEPT !.seg = n, !.own = TRUE, !.status = "ok"]
           startMd(n) == [start(n) EXCEPT !.md = TRUE]
<1>1. q \in ReqRecord /\ Segments \in Nat \ {0}
  BY ParamAssumption DEF AtHand
<1>2. PICK n \in 1 .. Segments :
        e \in IF ~WithMd THEN XorContinue(start(n), busy)
              ELSE XorContinue([startMd(n) EXCEPT !.mdTasks = @ + 1], TRUE)
                     \cup (IF AccelNomem(busy) THEN {XorEnd(startMd(n), "queued")} ELSE {})
                     \cup (IF AccelError THEN {XorFailed(startMd(n))} ELSE {})
  BY DEF XorStripe
<1>3. q.task = FALSE /\ q.mdTasks = 0
  BY <1>1 DEF Working, ReqRecord
<1>4. n \in Nat /\ n > 0 /\ n \in 0 .. Segments
  BY <1>1, <1>2
<1>5. CASE ~WithMd
  <2> DEFINE z == start(n)
  <2>1. /\ z \in ReqRecord /\ z.seg = n /\ z.task = q.task /\ z.free = q.free /\ z.io = q.io
        /\ z.s = q.s /\ z.target = q.target /\ z.out = q.out /\ z.mdTasks = q.mdTasks
        /\ z.md = q.md /\ z.own = TRUE /\ z.buf = q.buf
    BY <1>1, <1>4 DEF ReqRecord
  <2>2. e \in XorContinue(z, busy)
    BY <1>2, <1>5
  <2> HIDE DEF z
  <2>3. AtHand(i, r, x, z) /\ AtXor(z, x)
    BY <2>1 DEF AtHand, AtXor, Owned
  <2>4. z.mdTasks = IF z.md THEN 1 ELSE 0
    BY <2>1, <1>3, <1>5 DEF AtHand
  <2>5. Begun(q, z)
    BY <2>1, <2>4, <1>3, <1>4 DEF Begun
  <2>6. QED
    BY <2>2, <2>3, <2>5
<1>6. CASE WithMd
  <2> DEFINE z == [startMd(n) EXCEPT !.mdTasks = @ + 1]
  <2>1. /\ z \in ReqRecord /\ z.seg = n /\ z.task = q.task /\ z.free = q.free /\ z.io = q.io
        /\ z.s = q.s /\ z.target = q.target /\ z.out = q.out /\ z.mdTasks = 1
        /\ z.md = TRUE /\ z.own = TRUE /\ z.buf = q.buf
    <3> DEFINE y == start(n)
    <3>1. /\ y \in ReqRecord /\ y.seg = n /\ y.task = q.task /\ y.free = q.free /\ y.io = q.io
          /\ y.s = q.s /\ y.target = q.target /\ y.out = q.out /\ y.mdTasks = 0
          /\ y.own = TRUE /\ y.buf = q.buf
      BY <1>1, <1>3, <1>4 DEF ReqRecord
    <3> DEFINE y2 == [y EXCEPT !.md = TRUE]
    <3>2. z = [y2 EXCEPT !.mdTasks = @ + 1]
      OBVIOUS
    <3> HIDE DEF y
    <3>3. /\ y2 \in ReqRecord /\ y2.seg = n /\ y2.task = q.task /\ y2.free = q.free /\ y2.io = q.io
          /\ y2.s = q.s /\ y2.target = q.target /\ y2.out = q.out /\ y2.mdTasks = 0 /\ y2.md = TRUE
          /\ y2.own = TRUE /\ y2.buf = q.buf
      BY <3>1 DEF ReqRecord
    <3> HIDE DEF y2, z
    <3>4. z = [y2 EXCEPT !.mdTasks = 1]
      BY <3>2, <3>3
    <3>5. QED
      BY <3>3, <3>4 DEF ReqRecord
  <2>2. e \in XorContinue(z, TRUE)
    BY <1>2, <1>6 DEF Tame, AccelNomem, AccelError
  <2> HIDE DEF z
  <2>3. AtHand(i, r, x, z) /\ AtXor(z, x)
    BY <2>1, <1>6 DEF AtHand, AtXor, Owned
  <2>4. Begun(q, z)
    BY <2>1, <1>3, <1>4 DEF Begun
  <2>5. QED
    BY <2>2, <2>3, <2>4, <1>6
<1>7. QED
  BY <1>5, <1>6

LEMMA XorStripeGood ==
  ASSUME Tame, Redundant, NEW i, NEW r, NEW x, NEW q, AtHand(i, r, x, q), AtXor(q, x),
         ~Working(q), NEW busy, NEW e \in XorStripe(q, busy), NEW p \in AfterXor(x, e)
  PROVE  Good(i, r, p) /\ Onward(p, busy) /\ Left(p)
<1>1. PICK z, b : /\ AtHand(i, r, x, z) /\ AtXor(z, x) /\ Begun(q, z)
                  /\ e \in XorContinue(z, b) /\ (b = busy \/ WithMd)
  BY XorStripeBegins
<1>2. z.task = FALSE /\ z.seg > 0 /\ z.mdTasks = IF z.md THEN 1 ELSE 0
  BY <1>1 DEF Begun
<1>3. Good(i, r, p) /\ Onward(p, b) /\ Left(p)
  BY <1>1, <1>2, XorContinueGood
<1>4. QED
  BY <1>1, <1>3 DEF Onward

-----------------------------------------------------------------------------
(* What a step makes of the state.                                          *)

\* Nobody waits for I/O x, which owns no stripe request.
Adrift(x) == x.ph = "active" /\ x.pend = "none" /\ x.sr = None

\* I/O i and request r are each other's, or both are without.
Pair(ios, reqs, i, r) ==
  /\ i \in IOs /\ r \in Reqs
  /\ \/ reqs[r].free /\ ios[i].sr = None
     \/ ~reqs[r].free /\ reqs[r].io = i /\ ios[i].sr = r

\* What a handler leaves takes its place in the channel.
LEMMA PutBack ==
  ASSUME NEW ios, NEW reqs, NEW S, Typed(ios, reqs), Linked(ios, reqs, S),
         NEW i, NEW r, Pair(ios, reqs, i, r), NEW p, Good(i, r, p),
         NEW T, T \ {r} = S \ {r}, r \in T <=> p.enq
  PROVE  LET ios2  == [ios EXCEPT ![i] = p.x]
             reqs2 == [reqs EXCEPT ![r] = p.q]
         IN  /\ Typed(ios2, reqs2) /\ Linked(ios2, reqs2, T)
             /\ p.crash = "no" /\ Staged(ios, reqs, S) => Staged(ios2, reqs2, T)
             /\ \A j \in IOs : Adrift(ios2[j]) => Adrift(ios[j])
<1> DEFINE ios2  == [ios EXCEPT ![i] = p.x]
           reqs2 == [reqs EXCEPT ![r] = p.q]
<1>1. i \in IOs /\ r \in Reqs /\ p.x \in IoRecord /\ p.q \in ReqRecord /\ None \notin Reqs
  BY PoolAssumption DEF Pair, Good, Outcome, Reqs
<1>2. ios \in [IOs -> IoRecord] /\ reqs \in [Reqs -> ReqRecord]
  BY DEF Typed
<1>3. /\ ios2 \in [IOs -> IoRecord] /\ ios2[i] = p.x /\ \A j \in IOs \ {i} : ios2[j] = ios[j]
      /\ reqs2 \in [Reqs -> ReqRecord] /\ reqs2[r] = p.q
      /\ \A t \in Reqs \ {r} : reqs2[t] = reqs[t]
  BY <1>1, <1>2
<1> HIDE DEF ios2, reqs2
<1>4. Typed(ios2, reqs2)
  BY <1>1, <1>3 DEF Typed, Good
\* No other request is that of I/O i, and no other I/O has request r.
<1>5. \A t \in Reqs \ {r} : ~reqs[t].free => reqs[t].io \in IOs \ {i}
  BY <1>1 DEF Linked, Pair, Owned
<1>6. \A j \in IOs \ {i} : ios[j].sr # r
  BY <1>1 DEF Linked, Pair
<1>7. \A t \in Reqs \ {r} : t \in T <=> t \in S
  OBVIOUS
<1>8. ASSUME NEW t \in Reqs
      PROVE  IF reqs2[t].free THEN Idle(reqs2[t]) /\ t \notin T
             ELSE reqs2[t].io \in IOs /\ Owned(t, reqs2[t], ios2[reqs2[t].io])
  <2>1. CASE t = r
    BY <2>1, <1>1, <1>3 DEF Good
  <2>2. CASE t # r
    <3>1. reqs2[t] = reqs[t] /\ (t \in T <=> t \in S)
      BY <2>2, <1>3, <1>7
    <3>2. CASE reqs[t].free
      BY <3>1, <3>2 DEF Linked
    <3>3. CASE ~reqs[t].free
      <4>1. reqs[t].io \in IOs \ {i} /\ Owned(t, reqs[t], ios[reqs[t].io])
        BY <3>3, <2>2, <1>5 DEF Linked
      <4>2. ios2[reqs[t].io] = ios[reqs[t].io]
        BY <4>1, <1>3
      <4>3. QED
        BY <3>1, <3>3, <4>1, <4>2
    <3>4. QED
      BY <3>2, <3>3
  <2>3. QED
    BY <2>1, <2>2
<1>9. ASSUME NEW j \in IOs
      PROVE  IF ios2[j].sr = None THEN Loose(ios2[j])
             ELSE ~reqs2[ios2[j].sr].free /\ reqs2[ios2[j].sr].io = j
  <2>1. CASE j = i
    <3>1. CASE p.q.free
      BY <3>1, <2>1, <1>3 DEF Good, Loose
    <3>2. CASE ~p.q.free
      <4>1. p.x.sr = r /\ p.q.io = i
        BY <3>2 DEF Good, Owned
      <4>2. QED
        BY <4>1, <3>2, <2>1, <1>1, <1>3
    <3>3. QED
      BY <3>1, <3>2
  <2>2. CASE j # i
    <3>1. ios2[j] = ios[j] /\ ios[j].sr # r
      BY <2>2, <1>3, <1>6
    <3>2. CASE ios[j].sr = None
      BY <3>1, <3>2 DEF Linked
    <3>3. CASE ios[j].sr # None
      <4>1. ios[j].sr \in Reqs \ {r}
        BY <3>1, <3>3, <1>2 DEF IoRecord
      <4>2. reqs2[ios[j].sr] = reqs[ios[j].sr]
        BY <4>1, <1>3
      <4>3. QED
        BY <3>1, <3>3, <4>2 DEF Linked
    <3>4. QED
      BY <3>2, <3>3
  <2>3. QED
    BY <2>1, <2>2
<1>10. Linked(ios2, reqs2, T)
  BY <1>8, <1>9 DEF Linked
<1>11. ASSUME p.crash = "no", Staged(ios, reqs, S), NEW t \in Reqs, ~reqs2[t].free
       PROVE  Stage(reqs2[t], ios2[reqs2[t].io], t \in T)
  <2>1. CASE t = r
    <3>1. reqs2[t] = p.q /\ ~p.q.free /\ p.q.io = i
      BY <2>1, <1>3, <1>11 DEF Good
    <3>2. Stage(p.q, p.x, p.enq)
      BY <3>1, <1>11 DEF Good
    <3>3. p.enq = (t \in T)
      BY <2>1 DEF Good, Outcome
    <3>4. QED
      BY <3>1, <3>2, <3>3, <1>1, <1>3
  <2>2. CASE t # r
    <3>1. reqs2[t] = reqs[t] /\ (t \in T) = (t \in S)
      BY <2>2, <1>3, <1>7
    <3>2. ios2[reqs[t].io] = ios[reqs[t].io]
      BY <3>1, <2>2, <1>3, <1>5, <1>11
    <3>3. Stage(reqs[t], ios[reqs[t].io], t \in S)
      BY <3>1, <1>11 DEF Staged
    <3>4. QED
      BY <3>1, <3>2, <3>3
  <2>3. QED
    BY <2>1, <2>2
<1>12. \A j \in IOs : Adrift(ios2[j]) => Adrift(ios[j])
  <2>1. ~Adrift(p.x)
    BY <1>1 DEF Good, Owned, Adrift
  <2>2. QED
    BY <2>1, <1>3
<1>13. QED
  BY <1>4, <1>10, <1>11, <1>12 DEF Staged, ios2, reqs2

\* A queue without its first k entries and the next one, which may come back.
LEMMA QueueRest ==
  ASSUME NEW s, InOnce(s), NEW k \in Nat, k < Len(s)
  PROVE  LET failed == {s[j] : j \in 1 .. k}
             r      == s[k + 1]
             rest   == SubSeq(s, k + 2, Len(s))
             after  == Members(s) \ (failed \cup {r})
         IN  /\ failed \in SUBSET Members(s) /\ r \in Members(s) \ failed /\ Members(s) \in SUBSET Reqs
             /\ InOnce(rest) /\ Members(rest) = after
             /\ InOnce(<<r>> \o rest) /\ Members(<<r>> \o rest) = after \cup {r}
<1> DEFINE n    == Len(s)
           r    == s[k + 1]
           rest == SubSeq(s, k + 2, n)
           m    == n - (k + 1)
           both == <<r>> \o rest
           failed == {s[j] : j \in 1 .. k}
           after  == Members(s) \ (failed \cup {r})
<1>1. s \in Seq(Reqs) /\ n \in Nat /\ k + 1 \in 1 .. n /\ m \in Nat
  BY DEF InOnce
<1>2. \A j, h \in 1 .. n : s[j] = s[h] => j = h
  BY DEF InOnce
<1>3. \A j \in 1 .. n : s[j] \in Reqs
  BY <1>1
<1>4. /\ rest \in Seq(Reqs) /\ Len(rest) = m
      /\ \A j \in 1 .. m : rest[j] = s[k + 1 + j]
  <2>1. k + 2 \in 1 .. n + 1 /\ n \in (k + 2) - 1 .. n
    BY <1>1
  <2>2. /\ rest \in Seq(Reqs) /\ Len(rest) = n - (k + 2) + 1
        /\ \A j \in 1 .. n - (k + 2) + 1 : rest[j] = s[(k + 2) + j - 1]
    BY <1>1, <2>1, SubSeqProperties
  <2>3. n - (k + 2) + 1 = m /\ \A j \in 1 .. m : (k + 2) + j - 1 = k + 1 + j
    BY <1>1
  <2> HIDE DEF rest, n, m
  <2>4. QED
    BY <2>2, <2>3
<1>5. /\ both \in Seq(Reqs) /\ Len(both) = m + 1 /\ both[1] = r
      /\ \A j \in 1 .. m : both[j + 1] = s[k + 1 + j]
  <2>1. <<r>> \in Seq(Reqs) /\ Len(<<r>>) = 1
    BY <1>1, <1>3
  <2> HIDE DEF rest, m, n
  <2>2. QED
    BY <2>1, <1>1, <1>4, ConcatProperties
<1> HIDE DEF rest, both
<1>6. failed \in SUBSET Members(s) /\ Members(s) \in SUBSET Reqs /\ r \in Members(s) \ failed
  <2>1. \A j \in 1 .. k : j \in 1 .. n /\ j # k + 1
    BY <1>1
  <2>2. QED
    BY <2>1, <1>1, <1>2, <1>3 DEF Members
<1>7. Members(rest) = after
  <2>1. ASSUME NEW t \in Members(rest)  PROVE  t \in after
    <3>1. PICK j \in 1 .. m : t = s[k + 1 + j]
      BY <1>4 DEF Members
    <3>2. k + 1 + j \in 1 .. n /\ k + 1 + j # k + 1 /\ \A h \in 1 .. k : h \in 1 .. n /\ k + 1 + j # h
      BY <3>1, <1>1
    <3>3. QED
      BY <3>1, <3>2, <1>1, <1>2 DEF Members
  <2>2. ASSUME NEW t \in after  PROVE  t \in Members(rest)
    <3>1. PICK j \in 1 .. n : t = s[j]
      BY <2>2 DEF Members
    <3>2. j \notin 1 .. k /\ j # k + 1
      BY <3>1, <2>2
    <3>3. j - (k + 1) \in 1 .. m /\ k + 1 + (j - (k + 1)) = j
      BY <3>1, <3>2, <1>1
    <3>4. rest[j - (k + 1)] = t
      BY <3>1, <3>3, <1>4
    <3>5. QED
      BY <3>3, <3>4, <1>4 DEF Members
  <2>3. QED
    BY <2>1, <2>2
<1>8. Members(both) = after \cup {r}
  <2>1. ASSUME NEW t \in Members(both)  PROVE  t \in Members(rest) \cup {r}
    <3>1. PICK j \in 1 .. m + 1 : t = both[j]
      BY <1>5 DEF Members
    <3>2. CASE j = 1
      BY <3>1, <3>2, <1>5
    <3>3. CASE j # 1
      <4>1. j - 1 \in 1 .. m /\ (j - 1) + 1 = j
        BY <3>1, <3>3, <1>1
      <4>2. t = rest[j - 1]
        BY <3>1, <4>1, <1>4, <1>5
      <4>3. QED
        BY <4>1, <4>2, <1>4 DEF Members
    <3>4. QED
      BY <3>2, <3>3
  <2>2. r \in Members(both)
    BY <1>1, <1>5 DEF Members
  <2>3. ASSUME NEW t \in Members(rest)  PROVE  t \in Members(both)
    <3>1. PICK j \in 1 .. m : t = rest[j]
      BY <1>4 DEF Members
    <3>2. j + 1 \in 1 .. m + 1 /\ both[j + 1] = t
      BY <3>1, <1>1, <1>4, <1>5
    <3>3. QED
      BY <3>2, <1>5 DEF Members
  <2>4. QED
    BY <2>1, <2>2, <2>3, <1>7
<1>9. InOnce(rest)
  <2>1. ASSUME NEW j \in 1 .. m, NEW h \in 1 .. m, rest[j] = rest[h]  PROVE  j = h
    <3>1. k + 1 + j \in 1 .. n /\ k + 1 + h \in 1 .. n
      BY <1>1
    <3>2. k + 1 + j = k + 1 + h
      BY <3>1, <2>1, <1>2, <1>4
    <3>3. QED
      BY <3>2, <1>1
  <2>2. QED
    BY <2>1, <1>4 DEF InOnce
<1>10. InOnce(both)
  <2>1. ASSUME NEW j \in 1 .. m + 1, NEW h \in 1 .. m + 1, both[j] = both[h]  PROVE  j = h
    <3>1. /\ k + j \in 1 .. n /\ k + h \in 1 .. n
          /\ both[j] = s[k + j] /\ both[h] = s[k + h]
      <4>1. \A a \in 1 .. m + 1 : k + a \in 1 .. n /\ both[a] = s[k + a]
        <5>1. ASSUME NEW a \in 1 .. m + 1  PROVE  k + a \in 1 .. n /\ both[a] = s[k + a]
          <6>1. CASE a = 1
            BY <6>1, <1>1, <1>5
          <6>2. CASE a # 1
            <7>1. a - 1 \in 1 .. m /\ (a - 1) + 1 = a /\ k + 1 + (a - 1) = k + a /\ k + a \in 1 .. n
              BY <6>2, <1>1
            <7>2. QED
              BY <7>1, <1>5
          <6>3. QED
            BY <6>1, <6>2
        <5>2. QED
          BY <5>1
      <4>2. QED
        BY <4>1
    <3>2. k + j = k + h
      BY <3>1, <2>1, <1>2
    <3>3. QED
      BY <3>2, <1>1
  <2>2. QED
    BY <2>1, <1>5 DEF InOnce
<1>11. QED
  BY <1>6, <1>7, <1>8, <1>9, <1>10 DEF rest, both

\* A request that waits: nothing of it is under way.
Quiet(ios, reqs, r) ==
  LET i == reqs[r].io
  IN  /\ i \in IOs /\ AtHand(i, r, ios[i], reqs[r]) /\ ios[i].sr = r
      /\ AtXor(reqs[r], ios[i])
      /\ reqs[r].seg > 0 /\ reqs[r].task = FALSE /\ reqs[r].mdTasks = 0 /\ ~reqs[r].md

LEMMA WaitingIsIdle ==
  ASSUME NEW ios, NEW reqs, NEW S \in SUBSET Reqs, Typed(ios, reqs), Linked(ios, reqs, S),
         Staged(ios, reqs, S), ~WithMd, NEW r \in S
  PROVE  Quiet(ios, reqs, r)
<1>1. r \in Reqs /\ reqs[r] \in ReqRecord /\ ~reqs[r].free
  BY DEF Typed, Linked
<1>2. /\ reqs[r].io \in IOs /\ Owned(r, reqs[r], ios[reqs[r].io]) /\ ~reqs[r].md
      /\ ios[reqs[r].io] \in IoRecord
  BY <1>1 DEF Linked, Typed
<1>3. Xoring(reqs[r], ios[reqs[r].io], r \in S)
  BY <1>1 DEF Staged, Stage
<1>4. /\ AtXor(reqs[r], ios[reqs[r].io]) /\ reqs[r].seg > 0 /\ reqs[r].task = FALSE
      /\ reqs[r].mdTasks = 0
  BY <1>1, <1>2, <1>3 DEF Xoring, ReqRecord
<1>5. QED
  BY <1>1, <1>2, <1>4 DEF AtHand, Owned, Quiet

\* The requests that accel refuses for good on the way, and their I/Os, are done with.
LeftOver(reqs, failed, fs) == [r \in Reqs |-> IF r \in failed THEN Release(fs[r]) ELSE reqs[r]]
Given(ios, reqs, failed) ==
  [i \in IOs |-> IF \E r \in failed : reqs[r].io = i THEN FailXor(ios[i]) ELSE ios[i]]

\* No I/O has been cast adrift.
Calmer(ios2, ios) == \A j \in IOs : Adrift(ios2[j]) => Adrift(ios[j])

\* All but the queue: S are the requests that wait.
Kept(ios, reqs, S) == Typed(ios, reqs) /\ Linked(ios, reqs, S) /\ Staged(ios, reqs, S)

LEMMA RefusedAreDone ==
  ASSUME NEW ios, NEW reqs, NEW S \in SUBSET Reqs, Typed(ios, reqs), Linked(ios, reqs, S),
         Staged(ios, reqs, S), ~WithMd, NEW failed \in SUBSET S,
         NEW fs, \A r \in failed : fs[r] \in XorFailures(reqs[r])
  PROVE  /\ Kept(Given(ios, reqs, failed), LeftOver(reqs, failed, fs), S \ failed)
         /\ Calmer(Given(ios, reqs, failed), ios)
<1> DEFINE left == [r \in Reqs |-> IF r \in failed THEN Release(fs[r]) ELSE reqs[r]]
           hit(i) == \E r \in failed : reqs[r].io = i
           ios1 == [i \in IOs |-> IF hit(i) THEN FailXor(ios[i]) ELSE ios[i]]
           T    == S \ failed
<1>1. ASSUME NEW r \in failed
      PROVE  /\ left[r] \in ReqRecord /\ left[r].free = TRUE /\ Idle(left[r]) /\ ~left[r].md
             /\ FailXor(ios[reqs[r].io]) \in IoRecord
             /\ FailXor(ios[reqs[r].io]).sr = None /\ FailXor(ios[reqs[r].io]).pend = "none"
             /\ FailXor(ios[reqs[r].io]).ph = "done"
             /\ ~reqs[r].free /\ reqs[r].io \in IOs /\ ios[reqs[r].io].sr = r
  <2> DEFINE i == reqs[r].io
             q == reqs[r]
             x == ios[i]
  <2>1. /\ i \in IOs /\ AtHand(i, r, x, q) /\ AtXor(q, x) /\ x.sr = r
        /\ q.task = FALSE /\ q.mdTasks = 0 /\ ~q.md
    <3>1. r \in S
      OBVIOUS
    <3> HIDE DEF left, ios1, T
    <3>2. Quiet(ios, reqs, r)
      BY <3>1, WaitingIsIdle
    <3>3. QED
      BY <3>2 DEF Quiet
  <2>2. left[r] = Release(fs[r]) /\ fs[r] \in XorFailures(q)
    OBVIOUS
  <2> DEFINE own == q.own /\ TRUE
  <2>3. \E f \in XorContinue([q EXCEPT !.own = own], TRUE) : f.end = "failed" /\ f.q = fs[r]
    BY <2>1, <2>2 DEF XorFailures, XorRetry
  <2>4. fs[r] = [[q EXCEPT !.own = own] EXCEPT !.status = "err"]
    <3> HIDE DEF q
    <3> DEFINE z == [q EXCEPT !.own = own]
    <3> HIDE DEF z
    <3>1. \E f \in XorContinue(z, TRUE) : f.end = "failed" /\ f.q = fs[r]
      BY <2>3 DEF z
    <3>2. fs[r] = [z EXCEPT !.status = "err"]
      <4>1. PICK f \in XorContinue(z, TRUE) : f.end = "failed" /\ f.q = fs[r]
        BY <3>1
      <4>2. f = XorFailed(z)
        <5>1. \/ f = XorEnd([z EXCEPT !.task = TRUE], "runs")
              \/ f = XorEnd(z, "queued")
              \/ f = XorFailed(z)
          BY DEF XorContinue
        <5>2. /\ XorEnd([z EXCEPT !.task = TRUE], "runs").end = "runs"
              /\ XorEnd(z, "queued").end = "queued"
          BY DEF XorEnd
        <5>3. QED
          BY <4>1, <5>1, <5>2
      <4>3. QED
        BY <4>1, <4>2 DEF XorFailed, XorEnd
    <3>3. QED
      BY <3>2 DEF z
  <2>5. x \in IoRecord /\ q \in ReqRecord /\ ~q.free /\ q.out = {}
    BY <2>1 DEF AtHand, AtXor
  <2> HIDE DEF i, q, x
  <2>6. /\ Release(fs[r]) \in ReqRecord /\ Release(fs[r]).free = TRUE /\ Release(fs[r]).out = {}
        /\ Release(fs[r]).task = FALSE /\ Release(fs[r]).mdTasks = 0 /\ Release(fs[r]).md = q.md
    <3>1. own \in BOOLEAN
      OBVIOUS
    <3> HIDE DEF own
    <3>2. QED
      BY <3>1, <2>1, <2>4, <2>5 DEF Release, ReqRecord
  <2>7. /\ FailXor(x) \in IoRecord /\ FailXor(x).sr = None /\ FailXor(x).pend = "none"
        /\ FailXor(x).ph = "done"
    <3>1. CASE IsWrite(x)
      BY <3>1, <2>5, CompleteResult DEF FailXor
    <3>2. CASE ~IsWrite(x)
      <4>1. x.rem = 1
        BY <3>2, <2>1 DEF AtXor
      <4>2. QED
        BY <3>2, <4>1, <2>5, PartResult DEF FailXor
    <3>3. QED
      BY <3>1, <3>2
  <2>8. QED
    BY <2>1, <2>2, <2>5, <2>6, <2>7 DEF Idle, Working, i, q, x
<1>2. \A r \in Reqs \ failed : left[r] = reqs[r]
  OBVIOUS
<1>3. \A i \in IOs : ios1[i] = IF hit(i) THEN FailXor(ios[i]) ELSE ios[i]
  OBVIOUS
<1>4. \A r \in Reqs \ failed : ~reqs[r].free => reqs[r].io \in IOs /\ ~hit(reqs[r].io)
  <2>1. ASSUME NEW r \in Reqs \ failed, ~reqs[r].free, hit(reqs[r].io)  PROVE FALSE
    <3>1. PICK t \in failed : reqs[t].io = reqs[r].io
      BY <2>1
    <3>2. ios[reqs[r].io].sr = r
      BY <2>1 DEF Linked, Owned
    <3>3. ios[reqs[r].io].sr = t
      BY <3>1, <1>1
    <3>4. QED
      BY <3>2, <3>3
  <2>2. QED
    BY <2>1 DEF Linked
<1> HIDE DEF left, ios1
<1>5. Typed(ios1, left)
  <2>1. \A r \in Reqs : left[r] \in ReqRecord /\ (left[r].md => WithMd)
    <3>1. ASSUME NEW r \in Reqs  PROVE  left[r] \in ReqRecord /\ (left[r].md => WithMd)
      <4>1. CASE r \in failed
        BY <4>1, <1>1
      <4>2. CASE r \notin failed
        BY <4>2, <1>2 DEF Typed
      <4>3. QED
        BY <4>1, <4>2
    <3>2. QED
      BY <3>1
  <2>2. \A i \in IOs : ios1[i] \in IoRecord
    <3>1. ASSUME NEW i \in IOs  PROVE  ios1[i] \in IoRecord
      <4>1. CASE hit(i)
        <5>1. PICK r \in failed : reqs[r].io = i
          BY <4>1
        <5>2. ios1[i] = FailXor(ios[i])
          BY <4>1, <1>3
        <5>3. QED
          BY <5>1, <5>2, <1>1
      <4>2. CASE ~hit(i)
        BY <4>2, <1>3 DEF Typed
      <4>3. QED
        BY <4>1, <4>2
    <3>2. QED
      BY <3>1
  <2>3. QED
    BY <2>1, <2>2 DEF Typed, left, ios1
<1>6. ASSUME NEW r \in Reqs
      PROVE  IF left[r].free THEN Idle(left[r]) /\ r \notin T
             ELSE left[r].io \in IOs /\ Owned(r, left[r], ios1[left[r].io])
  <2>1. CASE r \in failed
    BY <2>1, <1>1
  <2>2. CASE r \notin failed
    <3>1. left[r] = reqs[r]
      BY <2>2, <1>2
    <3>2. CASE reqs[r].free
      BY <3>1, <3>2 DEF Linked
    <3>3. CASE ~reqs[r].free
      <4>1. reqs[r].io \in IOs /\ ~hit(reqs[r].io)
        BY <2>2, <3>3, <1>4
      <4>2. ios1[reqs[r].io] = ios[reqs[r].io]
        BY <4>1, <1>3
      <4>3. QED
        BY <3>1, <3>3, <4>1, <4>2 DEF Linked
    <3>4. QED
      BY <3>2, <3>3
  <2>3. QED
    BY <2>1, <2>2
<1>7. ASSUME NEW i \in IOs
      PROVE  /\ IF ios1[i].sr = None THEN Loose(ios1[i])
                ELSE ~left[ios1[i].sr].free /\ left[ios1[i].sr].io = i
             /\ Adrift(ios1[i]) => Adrift(ios[i])
  <2>1. CASE hit(i)
    <3>1. PICK r \in failed : reqs[r].io = i
      BY <2>1
    <3>2. ios1[i] = FailXor(ios[i])
      BY <2>1, <1>3
    <3>3. FailXor(ios[reqs[r].io]).sr = None /\ FailXor(ios[reqs[r].io]).pend = "none"
          /\ FailXor(ios[reqs[r].io]).ph = "done"
      BY <1>1
    <3>4. ios1[i].sr = None /\ ios1[i].pend = "none" /\ ios1[i].ph = "done"
      BY <3>1, <3>2, <3>3
    <3>5. QED
      BY <3>4 DEF Loose, Adrift
  <2>2. CASE ~hit(i)
    <3>1. ios1[i] = ios[i]
      BY <2>2, <1>3
    <3>2. CASE ios[i].sr = None
      BY <3>1, <3>2 DEF Linked
    <3>3. CASE ios[i].sr # None
      <4>1. ios[i].sr \in Reqs /\ ~reqs[ios[i].sr].free /\ reqs[ios[i].sr].io = i
        BY <3>3 DEF Linked, Typed, IoRecord
      <4>2. ios[i].sr \notin failed
        BY <4>1, <2>2
      <4>3. QED
        BY <3>1, <3>3, <4>1, <4>2, <1>2
    <3>4. QED
      BY <3>2, <3>3
  <2>3. QED
    BY <2>1, <2>2
<1>8. ASSUME NEW r \in Reqs, ~left[r].free
      PROVE  Stage(left[r], ios1[left[r].io], r \in T)
  <2>1. r \notin failed
    BY <1>1, <1>8
  <2>2. left[r] = reqs[r] /\ (r \in T) = (r \in S)
    BY <2>1, <1>2
  <2>3. ios1[reqs[r].io] = ios[reqs[r].io]
    BY <2>1, <2>2, <1>3, <1>4, <1>8
  <2>4. Stage(reqs[r], ios[reqs[r].io], r \in S)
    BY <2>2, <1>8 DEF Staged
  <2>5. QED
    BY <2>2, <2>3, <2>4
<1>9. QED
  BY <1>5, <1>6, <1>7, <1>8 DEF Linked, Staged, left, ios1, LeftOver, Given, Calmer, Kept

\* A xor is under way whose end looks at the queue s the step leaves; if not, the
\* step found the accel channel full, or the queue without one.
Tended(reqs, s) == s # << >> => Busy(reqs) \/ accelFull \/ Stalled

\* The I/Os, the requests and the queue s, while the process lives.
Sound(ios, reqs, s) ==
  /\ Typed(ios, reqs) /\ Linked(ios, reqs, Members(s)) /\ InOnce(s)
  /\ Staged(ios, reqs, Members(s))
  /\ s # << >> => ~WithMd
  /\ Tended(reqs, s)

\* The head of the queue, behind k that were refused, is tried again.
LEMMA HeadRuns ==
  ASSUME Tame, Redundant, NEW ios, NEW reqs, NEW s, InOnce(s), NEW k \in Nat, k < Len(s), ~WithMd,
         Typed(ios, reqs), Linked(ios, reqs, Members(s) \ {s[j] : j \in 1 .. k}),
         Staged(ios, reqs, Members(s) \ {s[j] : j \in 1 .. k}),
         NEW mine, NEW e \in XorRetry(reqs[s[k + 1]], Busy(reqs), mine), e.end # "failed"
  PROVE  LET r    == s[k + 1]
             rest == SubSeq(s, k + 2, Len(s))
         IN  Sound(ios, [reqs EXCEPT ![r] = e.q], IF e.end = "queued" THEN <<r>> \o rest ELSE rest)
<1> DEFINE failed == {s[j] : j \in 1 .. k}
           r    == s[k + 1]
           rest == SubSeq(s, k + 2, Len(s))
           S    == Members(s) \ failed
           i    == reqs[r].io
           x    == ios[i]
           own  == reqs[r].own /\ mine
           q    == [reqs[r] EXCEPT !.own = own]
           both == <<r>> \o rest
           s2   == IF e.end = "queued" THEN both ELSE rest
           reqs2 == [reqs EXCEPT ![r] = e.q]
<1>1. /\ r \in S /\ S \in SUBSET Reqs /\ r \in Reqs
      /\ InOnce(rest) /\ Members(rest) = S \ {r}
      /\ InOnce(both) /\ Members(both) = S
  <2> HIDE DEF i, x, own, q, s2, reqs2
  <2>1. QED BY QueueRest, SMTT(30)
<1> HIDE DEF failed, r, rest, S, both
<1>2. Typed(ios, reqs) /\ Linked(ios, reqs, S) /\ Staged(ios, reqs, S)
  BY DEF S, failed
<1>3. Quiet(ios, reqs, r)
  BY <1>1, <1>2, WaitingIsIdle
<1>4. /\ i \in IOs /\ AtHand(i, r, x, reqs[r]) /\ AtXor(reqs[r], x) /\ ios[i].sr = r
      /\ reqs[r].seg > 0 /\ reqs[r].task = FALSE /\ reqs[r].mdTasks = 0 /\ ~reqs[r].md
  BY <1>3 DEF Quiet
<1>5. e \in XorContinue(q, Busy(reqs))
  BY <1>4 DEF XorRetry, r
<1> HIDE DEF i, x
<1>6. /\ q \in ReqRecord /\ q.seg = reqs[r].seg /\ q.task = FALSE /\ q.mdTasks = 0 /\ q.md = reqs[r].md
      /\ q.free = reqs[r].free /\ q.io = reqs[r].io /\ q.s = reqs[r].s
      /\ q.target = reqs[r].target /\ q.out = reqs[r].out
  <2>1. own \in BOOLEAN
    OBVIOUS
  <2>2. reqs[r] \in ReqRecord
    BY <1>4 DEF AtHand
  <2> HIDE DEF own
  <2>3. QED
    BY <2>1, <2>2, <1>4 DEF ReqRecord
<1> HIDE DEF q
<1>7. AtHand(i, r, x, q) /\ AtXor(q, x)
  BY <1>4, <1>6 DEF AtHand, AtXor, Owned
<1>8. \/ e.end = "runs" /\ e.q = [q EXCEPT !.task = TRUE]
      \/ e.end = "queued" /\ e.q = q
  <2>1. \/ e = XorEnd([q EXCEPT !.task = TRUE], "runs")
        \/ e = XorEnd(q, "queued")
        \/ e = XorFailed(q)
    BY <1>5 DEF XorContinue
  <2>2. XorFailed(q).end = "failed"
    BY DEF XorFailed, XorEnd
  <2>3. /\ XorEnd([q EXCEPT !.task = TRUE], "runs").end = "runs" /\ XorEnd(q, "queued").end = "queued"
        /\ XorEnd([q EXCEPT !.task = TRUE], "runs").q = [q EXCEPT !.task = TRUE]
        /\ XorEnd(q, "queued").q = q
    BY DEF XorEnd
  <2>4. QED
    BY <2>1, <2>2, <2>3
<1>9. PICK p : /\ p \in AfterXor(x, e)
               /\ p.x = x /\ p.q = e.q /\ (p.enq <=> e.end = "queued") /\ p.drain = FALSE /\ p.crash = "no"
  <2>1. CASE e.end = "runs"
    <3> DEFINE p == [Result(x, e.q) EXCEPT !.bufs = TRUE]
    <3>1. AfterXor(x, e) = {p}
      BY <2>1 DEF AfterXor
    <3>2. p.x = x /\ p.q = e.q /\ p.enq = FALSE /\ p.drain = FALSE /\ p.crash = "no"
      BY DEF Result
    <3> HIDE DEF p
    <3>3. QED
      BY <2>1, <3>1, <3>2
  <2>2. CASE e.end = "queued"
    <3> DEFINE p == [[Result(x, e.q) EXCEPT !.enq = TRUE] EXCEPT !.bufs = TRUE]
    <3>1. AfterXor(x, e) = {p}
      BY <2>2 DEF AfterXor
    <3>2. p.x = x /\ p.q = e.q /\ p.enq = TRUE /\ p.drain = FALSE /\ p.crash = "no"
      BY DEF Result
    <3> HIDE DEF p
    <3>3. QED
      BY <2>2, <3>1, <3>2
  <2>3. QED
    BY <2>1, <2>2, <1>8
<1>10. Good(i, r, p) /\ Onward(p, Busy(reqs)) /\ Left(p)
  <2>1. q.mdTasks = IF q.md THEN 1 ELSE 0
    BY <1>4, <1>6
  <2>2. q.seg > 0
    BY <1>4, <1>6
  <2>3. QED
    BY <2>1, <2>2, <1>5, <1>6, <1>7, <1>9, XorContinueGood
<1>11. Members(s2) \ {r} = S \ {r} /\ (r \in Members(s2) <=> p.enq) /\ InOnce(s2)
  BY <1>1, <1>9
<1>12. Pair(ios, reqs, i, r)
  BY <1>1, <1>4 DEF Pair, AtHand, i
<1>13. /\ Typed([ios EXCEPT ![i] = p.x], [reqs EXCEPT ![r] = p.q])
       /\ Linked([ios EXCEPT ![i] = p.x], [reqs EXCEPT ![r] = p.q], Members(s2))
       /\ Staged([ios EXCEPT ![i] = p.x], [reqs EXCEPT ![r] = p.q], Members(s2))
  BY <1>2, <1>9, <1>10, <1>11, <1>12, PutBack
<1>14. [ios EXCEPT ![i] = p.x] = ios
  BY <1>2, <1>4, <1>9 DEF Typed, x
<1>15. Busy(reqs2) \/ accelFull
  <2>1. reqs \in [Reqs -> ReqRecord] /\ reqs2[r] = e.q /\ \A t \in Reqs \ {r} : reqs2[t] = reqs[t]
    BY <1>1, <1>2 DEF Typed
  <2>2. CASE p.enq /\ ~accelFull
    <3>1. PICK t \in Reqs : reqs[t].task \/ reqs[t].mdTasks > 0
      BY <2>2, <1>10 DEF Onward, Busy
    <3>2. t # r
      BY <3>1, <1>4
    <3>3. QED
      BY <3>1, <3>2, <2>1 DEF Busy
  <2>3. CASE ~p.enq
    BY <2>1, <2>3, <1>1, <1>9, <1>10 DEF Left, Working, Busy
  <2>4. QED
    BY <2>2, <2>3
<1>16. QED
  BY <1>9, <1>11, <1>13, <1>14, <1>15 DEF Sound, Tended, r, rest, both

\* The end of raid5f_xor_stripe_done: requests taken off the queue.
LEMMA DrainSound ==
  ASSUME Tame, Redundant, NEW ios, NEW reqs, Typed(ios, reqs), Linked(ios, reqs, Waiting),
         Staged(ios, reqs, Waiting), InOnce(retryQ), retryQ # << >> => ~WithMd,
         NEW bufs, Drain(ios, reqs, bufs)
  PROVE  Sound(io', req', retryQ') /\ Calmer(io', ios) /\ xorBufs' \in Reqs \cup {bufs}
<1> DEFINE n         == Len(retryQ)
           failed(k) == {retryQ[j] : j \in 1 .. k}
           left(k, fs) == LeftOver(reqs, failed(k), fs)
           ended(k)  == Given(ios, reqs, failed(k))
           head(k)   == retryQ[k + 1]
           rest(k)   == SubSeq(retryQ, k + 2, n)
           Turn(k, fs) ==
             /\ io' = ended(k)
             /\ \/ /\ k = n
                   /\ req' = left(k, fs) /\ xorBufs' = BufsAfter(k, reqs, bufs)
                   /\ retryQ' = << >>
                \/ /\ k < n
                   /\ xorBufs' = IF left(k, fs)[head(k)].md THEN head(k) ELSE BufsAfter(k, reqs, bufs)
                   /\ \E e \in XorRetry(left(k, fs)[head(k)], Busy(left(k, fs)),
                                        BufsAfter(k, reqs, bufs) = head(k)) :
                        /\ e.end # "failed"
                        /\ req' = [left(k, fs) EXCEPT ![head(k)] = e.q]
                        /\ retryQ' = IF e.end = "queued" THEN <<head(k)>> \o rest(k) ELSE rest(k)
<1>1. PICK k \in 0 .. IF AccelError THEN n ELSE 0 :
        \E fs : (\A r \in failed(k) : fs[r] \in XorFailures(reqs[r])) /\ Turn(k, fs)
  <2> DEFINE choices(k) == {f \in [failed(k) -> UNION {XorFailures(reqs[r]) : r \in failed(k)}] :
                              \A r \in failed(k) : f[r] \in XorFailures(reqs[r])}
  <2>1. \E k \in 0 .. IF AccelError THEN n ELSE 0 : \E fs \in choices(k) : Turn(k, fs)
    BY Zenon DEF Drain, LeftOver, Given
  <2> HIDE DEF Turn
  <2>2. QED
    BY <2>1
<1>2. n \in Nat /\ k \in 0 .. n /\ Members(retryQ) \in SUBSET Reqs /\ \A j \in 1 .. n : retryQ[j] \in Reqs
  BY DEF InOnce, Members
<1>3. retryQ = << >> => n = 0
  OBVIOUS
<1>4. failed(k) \in SUBSET Waiting
  <2>1. \A j \in 1 .. k : j \in 1 .. n
    BY <1>2
  <2>2. QED
    BY <2>1 DEF Waiting, Members
<1>5. n # 0 => ~WithMd
  <2>1. retryQ = << >> \/ ~WithMd
    OBVIOUS
  <2>2. QED
    BY <1>3, <2>1
<1>6. PICK fs : (\A r \in failed(k) : fs[r] \in XorFailures(reqs[r])) /\ Turn(k, fs)
  BY <1>1
<1>7. /\ Typed(ended(k), left(k, fs)) /\ Linked(ended(k), left(k, fs), Waiting \ failed(k))
      /\ Staged(ended(k), left(k, fs), Waiting \ failed(k)) /\ Calmer(ended(k), ios)
  <2>1. CASE ~WithMd
    <3>1. Waiting \in SUBSET Reqs /\ failed(k) \in SUBSET Waiting
      BY <1>2, <1>4 DEF Waiting
    <3> HIDE DEF failed
    <3>2. /\ Kept(Given(ios, reqs, failed(k)), LeftOver(reqs, failed(k), fs), Waiting \ failed(k))
          /\ Calmer(Given(ios, reqs, failed(k)), ios)
      BY <2>1, <3>1, <1>6, RefusedAreDone
    <3>3. QED
      BY <3>2 DEF Kept
  <2>2. CASE n = 0
    <3>1. failed(k) = {}
      BY <2>2, <1>2
    <3>2. ended(k) = ios /\ left(k, fs) = reqs
      BY <3>1 DEF Typed, LeftOver, Given
    <3>3. Waiting \ failed(k) = Waiting
      BY <3>1
    <3>4. QED
      BY <3>2, <3>3 DEF Calmer
  <2>3. QED
    BY <2>1, <2>2, <1>5
<1>8. BufsAfter(k, reqs, bufs) = bufs
  <2>1. \A j \in 1 .. k : ~reqs[retryQ[j]].md
    BY <1>2, <1>5 DEF Typed
  <2>2. QED
    BY <2>1 DEF BufsAfter
<1> HIDE DEF n, failed, left, ended, head, rest
<1>9. CASE k = n /\ req' = left(k, fs) /\ xorBufs' = BufsAfter(k, reqs, bufs) /\ retryQ' = << >>
  <2>1. Waiting \ failed(k) = {} /\ Members(retryQ') = {}
    BY <1>9 DEF Waiting, Members, failed, n
  <2>2. InOnce(retryQ')
    BY <1>9 DEF InOnce
  <2>3. QED
    BY <2>1, <2>2, <1>6, <1>7, <1>8, <1>9 DEF Sound, Tended
<1>10. ASSUME k < n,
              xorBufs' = IF left(k, fs)[head(k)].md THEN head(k) ELSE BufsAfter(k, reqs, bufs),
              NEW e \in XorRetry(left(k, fs)[head(k)], Busy(left(k, fs)),
                                 BufsAfter(k, reqs, bufs) = head(k)),
              e.end # "failed", req' = [left(k, fs) EXCEPT ![head(k)] = e.q],
              retryQ' = IF e.end = "queued" THEN <<head(k)>> \o rest(k) ELSE rest(k)
       PROVE  Sound(io', req', retryQ') /\ Calmer(io', ios) /\ xorBufs' \in Reqs \cup {bufs}
  <2>1. ~WithMd /\ k \in Nat
    BY <1>2, <1>5, <1>10
  <2>2. Sound(ended(k), req', retryQ')
    <3> DEFINE lf == left(k, fs)
               mine == BufsAfter(k, reqs, bufs) = head(k)
    <3>1. /\ Typed(ended(k), lf) /\ Linked(ended(k), lf, Members(retryQ) \ {retryQ[j] : j \in 1 .. k})
          /\ Staged(ended(k), lf, Members(retryQ) \ {retryQ[j] : j \in 1 .. k})
      BY <1>7 DEF Waiting, failed
    <3>2. e \in XorRetry(lf[retryQ[k + 1]], Busy(lf), mine)
      BY DEF head
    <3> HIDE DEF lf, mine
    <3>3. Sound(ended(k), [lf EXCEPT ![retryQ[k + 1]] = e.q],
                IF e.end = "queued" THEN <<retryQ[k + 1]>> \o SubSeq(retryQ, k + 2, Len(retryQ))
                ELSE SubSeq(retryQ, k + 2, Len(retryQ)))
      BY <3>1, <3>2, <2>1, <1>10, HeadRuns DEF n
    <3>4. QED
      BY <3>3, <1>10 DEF lf, head, rest, n
  <2>3. head(k) \in Reqs
    BY <1>2, <1>10 DEF head, n
  <2>4. QED
    BY <2>2, <2>3, <1>6, <1>7, <1>8, <1>10
<1>11. QED
  BY <1>6, <1>9, <1>10

\* A request goes to the head of the queue.
LEMMA Pushed ==
  ASSUME NEW s, InOnce(s), NEW r \in Reqs, r \notin Members(s)
  PROVE  /\ InOnce(<<r>> \o s) /\ Members(<<r>> \o s) = Members(s) \cup {r}
         /\ <<r>> \o s # << >>
<1> DEFINE n == Len(s)
           both == <<r>> \o s
<1>1. s \in Seq(Reqs) /\ n \in Nat
  BY DEF InOnce
<1>2. both \in Seq(Reqs) /\ Len(both) = n + 1 /\ both[1] = r /\ \A j \in 1 .. n : both[j + 1] = s[j]
  <2>1. <<r>> \in Seq(Reqs) /\ Len(<<r>>) = 1
    OBVIOUS
  <2> HIDE DEF n
  <2>2. QED
    BY <2>1, <1>1, ConcatProperties DEF n
<1> HIDE DEF n, both
<1>3. \A j \in 1 .. n + 1 : j = 1 \/ (j - 1 \in 1 .. n /\ both[j] = s[j - 1])
  <2>1. ASSUME NEW j \in 1 .. n + 1, j # 1  PROVE  j - 1 \in 1 .. n /\ both[j] = s[j - 1]
    <3>1. j - 1 \in 1 .. n /\ (j - 1) + 1 = j
      BY <2>1, <1>1
    <3>2. QED
      BY <3>1, <1>2
  <2>2. QED
    BY <2>1
<1>4. Members(both) = Members(s) \cup {r}
  <2>1. ASSUME NEW t \in Members(both)  PROVE  t \in Members(s) \cup {r}
    BY <2>1, <1>2, <1>3 DEF Members, n
  <2>2. ASSUME NEW t \in Members(s)  PROVE  t \in Members(both)
    <3>1. PICK j \in 1 .. n : t = s[j]
      BY DEF Members, n
    <3>2. j + 1 \in 1 .. n + 1 /\ both[j + 1] = t
      BY <3>1, <1>1, <1>2
    <3>3. QED
      BY <3>2, <1>2 DEF Members
  <2>3. r \in Members(both)
    BY <1>1, <1>2 DEF Members
  <2>4. QED
    BY <2>1, <2>2, <2>3
<1>5. InOnce(both)
  <2>1. ASSUME NEW j \in 1 .. n + 1, NEW h \in 1 .. n + 1, both[j] = both[h]  PROVE  j = h
    <3>1. CASE j = 1 /\ h = 1
      BY <3>1
    <3>2. CASE j # 1 /\ h # 1
      <4>1. j - 1 = h - 1
        BY <3>2, <2>1, <1>3 DEF InOnce, n
      <4>2. QED
        BY <4>1, <1>1
    <3>3. CASE (j = 1 /\ h # 1) \/ (j # 1 /\ h = 1)
      BY <3>3, <2>1, <1>2, <1>3 DEF Members, n
    <3>4. QED
      BY <3>1, <3>2, <3>3
  <2>2. QED
    BY <2>1, <1>2 DEF InOnce
<1>6. both # << >>
  BY <1>1, <1>2
<1>7. QED
  BY <1>4, <1>5, <1>6 DEF both

\* The base channels take part in the stages.
LEMMA SameChannels ==
  ASSUME UNCHANGED baseCh, Sound(io', req', retryQ'), crashed' = "no"
  PROVE  QueueInv' /\ Tended(req', retryQ')
BY DEF Sound, QueueInv, Waiting, Members, Typed, Linked, Staged, Stage, Chunking, Xoring, AtXor,
       Immediate, Owned, Loose, Idle, Working, InOnce, Busy, IsWrite

\* A step of a handler that works on an I/O and a request.
LEMMA TakeSound ==
  ASSUME Tame, Redundant, QueueInv, crashed = "no", NEW i, NEW r, Pair(io, req, i, r),
         r \notin Waiting, NEW p, Good(i, r, p), Left(p) \/ ~Working(req[r]),
         p.enq => accelFull \/ \E t \in Reqs \ {r} : Working(req[t]),
         Take(i, r, p), UNCHANGED baseCh
  PROVE  QueueInv' /\ Tended(req', retryQ') /\ Calmer(io', io) /\ xorBufs' \in Reqs \cup {xorBufs}
<1> DEFINE ios2  == [io EXCEPT ![i] = p.x]
           reqs2 == [req EXCEPT ![r] = p.q]
           bufs  == IF p.bufs THEN r ELSE xorBufs
           T     == IF p.enq THEN Waiting \cup {r} ELSE Waiting
<1>1. /\ Typed(io, req) /\ Linked(io, req, Waiting) /\ Staged(io, req, Waiting) /\ InOnce(retryQ)
      /\ (retryQ # << >> => ~WithMd) /\ (retryQ # << >> => Busy(req) \/ Stalled)
      /\ i \in IOs /\ r \in Reqs /\ bufs \in Reqs \cup {xorBufs}
  BY DEF QueueInv, Pair, Stalled
<1>2. /\ Typed(ios2, reqs2) /\ Linked(ios2, reqs2, T) /\ Calmer(ios2, io)
      /\ p.crash = "no" => Staged(ios2, reqs2, T)
  <2>1. T \ {r} = Waiting \ {r} /\ (r \in T <=> p.enq)
    OBVIOUS
  <2> HIDE DEF T
  <2>2. QED
    BY <1>1, <2>1, PutBack DEF Calmer
<1>3. crashed' = p.crash /\ p.crash \in {"no", "null_channel"}
  BY DEF Take, Good, Outcome
<1>4. req \in [Reqs -> ReqRecord] /\ reqs2[r] = p.q /\ \A t \in Reqs \ {r} : reqs2[t] = req[t]
  BY <1>1 DEF Typed
<1>5. CASE p.drain
  <2>1. p.crash = "no" /\ T = Waiting
    BY <1>5 DEF Good
  <2>2. Drain(ios2, reqs2, bufs)
    BY <1>5 DEF Take
  <2> HIDE DEF ios2, reqs2, bufs, T
  <2>3. Sound(io', req', retryQ') /\ Calmer(io', ios2) /\ xorBufs' \in Reqs \cup {bufs}
    BY <2>1, <2>2, <1>1, <1>2, DrainSound
  <2>4. QED
    BY <2>1, <2>3, <1>1, <1>2, <1>3, SameChannels DEF Calmer
<1>6. CASE ~p.drain
  <2>1. /\ io' = ios2 /\ req' = reqs2 /\ xorBufs' = bufs
        /\ retryQ' = IF p.enq THEN <<r>> \o retryQ ELSE retryQ
    BY <1>6 DEF Take
  <2>2. InOnce(retryQ') /\ Members(retryQ') = T
    BY <2>1, <1>1, Pushed DEF Waiting
  <2>3. (retryQ' # << >> => ~WithMd) /\ Tended(req', retryQ')
    <3>a. p.enq => ~WithMd
      BY DEF Good
    <3>1. CASE p.enq
      <4>1. CASE accelFull
        BY <4>1, <3>a, <3>1 DEF Tended
      <4>2. CASE ~accelFull
        <5>1. PICK t \in Reqs \ {r} : Working(req[t])
          BY <3>1, <4>2
        <5>2. Busy(reqs2)
          BY <5>1, <1>4 DEF Busy, Working
        <5>3. QED
          BY <5>2, <3>a, <3>1, <2>1 DEF Tended
      <4>3. QED
        BY <4>1, <4>2
    <3>b. CASE ~p.enq /\ retryQ # << >> /\ Stalled
      BY <3>b, <1>1, <2>1 DEF Tended
    <3>2. CASE ~p.enq /\ retryQ # << >> /\ ~Stalled
      <4>1. PICK t \in Reqs : Working(req[t])
        BY <3>2, <1>1 DEF Busy, Working
      <4>2. CASE t # r
        BY <4>1, <4>2, <1>1, <1>4, <2>1, <3>2 DEF Tended, Busy, Working
      <4>3. CASE t = r
        <5>1. Working(p.q)
          BY <4>1, <4>3, <3>2, <1>6 DEF Left
        <5>2. QED
          BY <5>1, <1>1, <1>4, <2>1, <3>2 DEF Tended, Busy, Working
      <4>4. QED
        BY <4>2, <4>3
    <3>3. CASE ~p.enq /\ retryQ = << >>
      BY <3>3, <2>1 DEF Tended
    <3>4. QED
      BY <3>1, <3>b, <3>2, <3>3
  <2> HIDE DEF ios2, reqs2, bufs, T
  <2>4. CASE p.crash = "no"
    <3>1. Sound(io', req', retryQ')
      BY <2>1, <2>2, <2>3, <2>4, <1>2 DEF Sound
    <3>2. QED
      BY <3>1, <2>1, <2>4, <1>1, <1>2, <1>3, SameChannels
  <2>5. CASE p.crash # "no"
    <3>1. /\ Typed(io', req') /\ Linked(io', req', Members(retryQ')) /\ InOnce(retryQ')
          /\ crashed' = "null_channel"
      BY <2>1, <2>2, <2>5, <1>2, <1>3
    <3>2. QueueInv'
      BY <3>1, <2>3 DEF QueueInv, Waiting, Members, Typed, Linked, Owned, Loose, Idle, Working,
                        InOnce, Busy, IsWrite
    <3>3. QED
      BY <3>2, <2>1, <2>3, <1>1, <1>2
  <2>6. QED
    BY <2>4, <2>5
<1>7. QED
  BY <1>5, <1>6

\* A step that touches an I/O alone.
LEMMA TakeIoSound ==
  ASSUME QueueInv, crashed = "no", NEW i \in IOs, io[i].sr = None, NEW x \in IoRecord,
         x.sr = None, Loose(x), TakeIo(i, x), UNCHANGED baseCh
  PROVE  QueueInv' /\ Tended(req', retryQ') /\ io'[i] = x /\ (\A j \in IOs \ {i} : io'[j] = io[j]) /\ xorBufs' = xorBufs
<1>1. /\ Typed(io, req) /\ Linked(io, req, Waiting) /\ Staged(io, req, Waiting) /\ InOnce(retryQ)
      /\ (retryQ # << >> => ~WithMd) /\ (retryQ # << >> => Busy(req) \/ Stalled)
  BY DEF QueueInv, Stalled
<1>2. /\ io' = [io EXCEPT ![i] = x] /\ req' = req /\ retryQ' = retryQ /\ xorBufs' = xorBufs
      /\ crashed' = crashed
  BY DEF TakeIo
<1>3. io'[i] = x /\ (\A j \in IOs \ {i} : io'[j] = io[j]) /\ io' \in [IOs -> IoRecord]
  BY <1>1, <1>2 DEF Typed
<1>4. \A r \in Reqs : ~req[r].free => req[r].io \in IOs \ {i}
  <2>1. None \notin Reqs
    BY PoolAssumption DEF Reqs
  <2>2. QED
    BY <2>1, <1>1 DEF Linked, Owned
<1>5. Typed(io', req')
  BY <1>1, <1>2, <1>3 DEF Typed
<1>6. Linked(io', req', Members(retryQ'))
  <2>1. \A r \in Reqs : IF req'[r].free THEN Idle(req'[r]) /\ r \notin Members(retryQ')
                        ELSE req'[r].io \in IOs /\ Owned(r, req'[r], io'[req'[r].io])
    BY <1>1, <1>2, <1>3, <1>4 DEF Linked, Waiting
  <2>2. \A j \in IOs : IF io'[j].sr = None THEN Loose(io'[j])
                       ELSE ~req'[io'[j].sr].free /\ req'[io'[j].sr].io = j
    BY <1>1, <1>2, <1>3 DEF Linked
  <2>3. QED
    BY <2>1, <2>2 DEF Linked
<1>7. Staged(io', req', Members(retryQ'))
  BY <1>1, <1>2, <1>3, <1>4 DEF Staged, Waiting
<1>8. Sound(io', req', retryQ')
  BY <1>1, <1>2, <1>5, <1>6, <1>7 DEF Sound, Tended
<1>9. QED
  BY <1>2, <1>3, <1>8, SameChannels

-----------------------------------------------------------------------------
(* The actions.                                                             *)

\* What each of them comes to.
Keeps == QueueInv' /\ Tended(req', retryQ') /\ Calmer(io', io) /\ xorBufs' \in Reqs \cup {xorBufs}

\* An I/O that raid5f_submit_rw_request takes.
Entering(x) ==
  /\ x \in IoRecord /\ x.ph = "active" /\ x.pend = "none" /\ x.sr = None /\ x.sub = 0

\* raid5f_stripe_request_init
LEMMA StartAtHand ==
  ASSUME QueueInv, NEW i \in IOs, NEW pool \in SUBSET Reqs, NEW r \in NextReq(pool), NEW x, Entering(x),
         IsWrite(x) <=> r \in WriteReqs
  PROVE  LET q == Start(r, i, x)
             y == Owning(x, r)
         IN  /\ AtHand(i, r, y, q) /\ q.out = {} /\ ~Working(q)
             /\ y.pend = "none" /\ y.sub = 0 /\ y.rem = NumBaseBdevs /\ y.type = x.type
             /\ r \in Reqs /\ req[r].free /\ ~Working(req[r]) /\ r \notin Waiting
<1> DEFINE q == Start(r, i, x)
           y == Owning(x, r)
<1>1. r \in Reqs /\ r \in pool /\ req[r].free
  BY DEF NextReq, FreeReqs
<1>2. req[r] \in ReqRecord /\ Idle(req[r]) /\ r \notin Waiting /\ (req[r].md => WithMd)
  BY <1>1 DEF QueueInv, Typed, Linked
<1>3. x \in IoRecord /\ x.s \in Stripes /\ x.d \in DataIdx /\ x.data \in StripeData
  <2>1. x.d \in DataIdx
    BY DEF Entering, IoRecord
  <2>2. QED
    BY <2>1 DEF Entering, IoRecord
<1>4. ChunkIndex(x.s, x.d) \in Chunks
  BY <1>3, Geometry
<1>5. MapIovecs(x.s, x.data) \in [Chunks -> Bits]
  <2>1. ASSUME NEW c \in Chunks, c # ParityIndex(x.s)  PROVE  DataOf(x.s, c) \in DataIdx
    <3>1. ParityIndex(x.s) \in Chunks
      BY <1>3, Geometry
    <3> DEFINE P == ParityIndex(x.s)
    <3>2. P \in Chunks /\ c # P
      BY <2>1, <3>1
    <3> HIDE DEF P
    <3>3. (IF c < P THEN c ELSE c - 1) \in 0 .. NumBaseBdevs - 2
      BY <3>2, Geometry DEF Chunks
    <3>4. QED
      BY <3>3, Geometry DEF DataOf, P, DataIdx, DataChunksNum
  <2>2. \A c \in Chunks : (IF c = ParityIndex(x.s) THEN 0 ELSE x.data[DataOf(x.s, c)]) \in Bits
    BY <2>1, <1>3 DEF StripeData, Bits
  <2>3. QED
    BY <2>2 DEF MapIovecs
<1>6. /\ q \in ReqRecord /\ q.free = FALSE /\ q.io = i /\ q.s = x.s /\ q.out = {}
      /\ q.target = ChunkIndex(x.s, x.d) /\ q.task = req[r].task /\ q.mdTasks = req[r].mdTasks
      /\ q.md = req[r].md
  <2> DEFINE target == ChunkIndex(x.s, x.d)
             buf    == MapIovecs(x.s, x.data)
             s      == x.s
  <2>1. q = [req[r] EXCEPT !.free = FALSE, !.io = i, !.s = s, !.poisoned = FALSE, !.out = {},
                           !.own = TRUE, !.target = target, !.buf = buf]
    BY DEF Start
  <2>2. target \in Chunks /\ buf \in [Chunks -> Bits] /\ s \in Stripes
    BY <1>3, <1>4, <1>5
  <2> HIDE DEF target, buf, s, q
  <2>3. /\ q \in ReqRecord /\ q.free = FALSE /\ q.io = i /\ q.s = s /\ q.out = {}
        /\ q.target = target /\ q.task = req[r].task /\ q.mdTasks = req[r].mdTasks
        /\ q.md = req[r].md
    BY <2>1, <2>2, <1>2 DEF ReqRecord
  <2>4. QED
    BY <2>3 DEF target, s
<1>7. /\ y \in IoRecord /\ y.rem = NumBaseBdevs /\ y.sr = r /\ y.ph = "active" /\ y.pend = "none"
      /\ y.sub = 0 /\ y.type = x.type /\ y.s = x.s /\ y.d = x.d
  <2>1. NumBaseBdevs \in 0 .. NumBaseBdevs
    BY Geometry
  <2>2. QED
    BY <2>1, <1>1 DEF Owning, Entering, IoRecord
<1> HIDE DEF q, y
<1>8. AtHand(i, r, y, q) /\ ~Working(q)
  BY <1>1, <1>2, <1>6, <1>7 DEF AtHand, Owned, Idle, Working, IsWrite
<1>9. QED
  BY <1>1, <1>2, <1>6, <1>7, <1>8 DEF Idle, q, y

\* raid5f_submit_reconstruct_read
LEMMA SubmitReconstructSound ==
  ASSUME Tame, IInv, crashed = "no", UNCHANGED baseCh, NEW i \in IOs, io[i].sr = None,
         NEW x, Entering(x), ~IsWrite(x), SubmitReconstruct(i, x)
  PROVE  Keeps
<1>1. PICK r \in NextReq(ReconReqs) :
             \E p \in SubmitChunks(Owning(x, r), Start(r, i, x), FALSE) : Take(i, r, p)
  BY DEF SubmitReconstruct
<1> DEFINE q == Start(r, i, x)
           y == Owning(x, r)
<1>2. PICK p \in SubmitChunks(y, q, FALSE) : Take(i, r, p)
  BY <1>1
<1>3. ReconReqs \in SUBSET Reqs /\ r \notin WriteReqs /\ QueueInv /\ Redundant
  BY PoolAssumption DEF Reqs, NextReq, FreeReqs, IInv, Others
<1>4. /\ AtHand(i, r, y, q) /\ q.out = {} /\ ~Working(q)
      /\ y.pend = "none" /\ y.sub = 0 /\ y.rem = NumBaseBdevs
      /\ r \in Reqs /\ req[r].free /\ ~Working(req[r]) /\ r \notin Waiting
  BY <1>3, StartAtHand
<1> HIDE DEF q, y
<1>5. ToSubmit(q, y)
  BY <1>3, <1>4, StartToSubmit
<1>6. Good(i, r, p) /\ Plain(p)
  BY <1>2, <1>4, <1>5, SubmitChunksGood
<1>7. Pair(io, req, i, r)
  BY <1>4 DEF Pair
<1>8. QED
  BY <1>2, <1>3, <1>4, <1>6, <1>7, TakeSound DEF Keeps, Plain

\* The end of an I/O that owns no stripe request, or its wait for an spdk_bdev_io.
LEMMA TakeIoKeeps ==
  ASSUME IInv, crashed = "no", UNCHANGED baseCh, NEW i \in IOs, io[i].sr = None,
         NEW x \in IoRecord, x.sr = None, Loose(x), ~Adrift(x), TakeIo(i, x)
  PROVE  Keeps
<1>1. /\ QueueInv' /\ Tended(req', retryQ') /\ xorBufs' = xorBufs
      /\ io'[i] = x /\ \A j \in IOs \ {i} : io'[j] = io[j]
  BY TakeIoSound DEF IInv
<1>2. QED
  BY <1>1 DEF Keeps, Calmer

\* raid5f_submit_write_request
LEMMA SubmitWriteSound ==
  ASSUME Tame, IInv, crashed = "no", UNCHANGED baseCh, NEW i \in IOs, io[i].sr = None,
         NEW x, Entering(x), IsWrite(x), SubmitWrite(i, x)
  PROVE  Keeps
<1>1. CASE TakeIo(i, Complete(x, "nomem"))
  <2>1. LET z == Complete(x, "nomem")
        IN  z \in IoRecord /\ z.sr = None /\ Loose(z) /\ ~Adrift(z)
    BY CompleteResult DEF Entering, Adrift
  <2>2. QED
    BY <1>1, <2>1, TakeIoKeeps
<1>2. ASSUME NEW r \in NextReq(WriteReqs),
             IF ParityIndex(x.s) \in baseCh
             THEN \E e \in XorStripe(Start(r, i, x), Busy(req)) :
                    \E p \in AfterXor(Owning(x, r), e) : Take(i, r, p)
             ELSE \E p \in SubmitChunks(Owning(x, r), Start(r, i, x), FALSE) : Take(i, r, p)
      PROVE  Keeps
  <2> DEFINE q == Start(r, i, x)
             y == Owning(x, r)
  <2>1. WriteReqs \in SUBSET Reqs /\ r \in WriteReqs /\ QueueInv /\ Redundant
    BY DEF Reqs, NextReq, FreeReqs, IInv, Others
  <2>2. /\ AtHand(i, r, y, q) /\ q.out = {} /\ ~Working(q)
        /\ y.pend = "none" /\ y.sub = 0 /\ y.rem = NumBaseBdevs /\ y.type = x.type
        /\ r \in Reqs /\ req[r].free /\ ~Working(req[r]) /\ r \notin Waiting
    BY <2>1, StartAtHand
  <2>3. Pair(io, req, i, r)
    BY <2>2 DEF Pair
  <2>4. CASE ParityIndex(x.s) \in baseCh
    <3>1. PICK e \in XorStripe(q, Busy(req)) : \E p \in AfterXor(y, e) : Take(i, r, p)
      BY <1>2, <2>4
    <3>2. PICK p \in AfterXor(y, e) : Take(i, r, p)
      BY <3>1
    <3> HIDE DEF q, y
    <3>3. AtXor(q, y)
      BY <2>2 DEF AtXor, IsWrite
    <3>4. Good(i, r, p) /\ Onward(p, Busy(req)) /\ Left(p)
      BY <2>1, <2>2, <3>2, <3>3, XorStripeGood
    <3>5. p.enq => accelFull \/ \E t \in Reqs \ {r} : Working(req[t])
      BY <2>2, <3>4 DEF Onward, Busy, Working
    <3>6. QED
      BY <2>1, <2>2, <2>3, <3>2, <3>4, <3>5, TakeSound DEF Keeps
  <2>5. CASE ParityIndex(x.s) \notin baseCh
    <3>1. PICK p \in SubmitChunks(y, q, FALSE) : Take(i, r, p)
      BY <1>2, <2>5
    <3> HIDE DEF q, y
    <3>2. ToSubmit(q, y)
      BY <2>1, <2>2, StartToSubmit
    <3>3. Good(i, r, p) /\ Plain(p)
      BY <2>2, <3>1, <3>2, SubmitChunksGood
    <3>4. QED
      BY <2>1, <2>2, <2>3, <3>1, <3>3, TakeSound DEF Keeps, Plain
  <2>6. QED
    BY <2>4, <2>5
<1>3. QED
  BY <1>1, <1>2 DEF SubmitWrite

\* raid5f_submit_read_request
LEMMA SubmitReadSound ==
  ASSUME Tame, IInv, crashed = "no", UNCHANGED baseCh, NEW i \in IOs, io[i].sr = None,
         NEW x, Entering(x), ~IsWrite(x), NEW waited, SubmitRead(i, x, waited)
  PROVE  Keeps
<1>1. x \in IoRecord
  BY DEF Entering
<1>2. ASSUME NEW st \in {"nomem", "failed"}, TakeIo(i, Complete(x, st))  PROVE Keeps
  <2>1. LET z == Complete(x, st)
        IN  z \in IoRecord /\ z.sr = None /\ Loose(z) /\ ~Adrift(z)
    BY <1>1, CompleteResult DEF Adrift
  <2>2. QED
    BY <1>2, <2>1, TakeIoKeeps
<1>3. ASSUME NEW pend \in {"direct", "rw"}, TakeIo(i, [x EXCEPT !.pend = pend])  PROVE Keeps
  <2> DEFINE z == [x EXCEPT !.pend = pend]
  <2>1. z \in IoRecord /\ z.sr = None /\ z.pend = pend /\ z.ph = "active" /\ z.sub = 0 /\ z.type = x.type
    BY <1>1 DEF Entering, IoRecord
  <2> HIDE DEF z
  <2>2. Loose(z) /\ ~Adrift(z)
    BY <2>1 DEF Loose, Adrift, IsWrite
  <2>3. TakeIo(i, z)
    BY <1>3 DEF z
  <2>4. QED
    BY <2>1, <2>2, <2>3, TakeIoKeeps
<1>4. QED
  BY <1>2, <1>3, SubmitReconstructSound DEF SubmitRead

LEMMA SubmitRwSound ==
  ASSUME Tame, IInv, crashed = "no", UNCHANGED baseCh, NEW i \in IOs, io[i].sr = None,
         NEW x, Entering(x), NEW waited, SubmitRw(i, x, waited)
  PROVE  Keeps
BY SubmitWriteSound, SubmitReadSound DEF SubmitRw

\* raid_bdev_submit_request
LEMMA SubmitRequestSound ==
  ASSUME Tame, IInv, crashed = "no", UNCHANGED baseCh, NEW i \in IOs, io[i].sr = None,
         NEW x \in IoRecord, x.sr = None, x.pend = "none", SubmitRequest(i, x)
  PROVE  Keeps
<1>1. CASE SubmitRw(i, [x EXCEPT !.ph = "active", !.rem = 0, !.sub = 0, !.status = "success"], FALSE)
  <2> DEFINE y == [x EXCEPT !.ph = "active", !.rem = 0, !.sub = 0, !.status = "success"]
  <2>1. 0 \in 0 .. NumBaseBdevs
    BY Geometry
  <2>2. Entering(y)
    BY <2>1 DEF Entering, IoRecord
  <2> HIDE DEF y
  <2>3. SubmitRw(i, y, FALSE)
    BY <1>1 DEF y
  <2>4. QED
    BY <2>2, <2>3, SubmitRwSound
<1>2. CASE TakeIo(i, Complete(x, "failed"))
  <2>1. LET z == Complete(x, "failed")
        IN  z \in IoRecord /\ z.sr = None /\ Loose(z) /\ ~Adrift(z)
    BY CompleteResult DEF Adrift
  <2>2. QED
    BY <1>2, <2>1, TakeIoKeeps
<1>3. QED
  BY <1>1, <1>2 DEF SubmitRequest

\* An I/O that is not in the module, or waits on its own, owns no stripe request.
LEMMA OutOfModule ==
  ASSUME QueueInv, NEW i \in IOs, io[i].ph # "active" \/ io[i].pend \in {"direct", "rw"}
  PROVE  /\ io[i].sr = None /\ io[i] \in IoRecord /\ Loose(io[i])
         /\ io[i].ph # "active" => io[i].pend = "none"
<1>1. Typed(io, req) /\ Linked(io, req, Waiting) /\ io[i] \in IoRecord
  BY DEF QueueInv, Typed
<1>2. io[i].sr = None
  <2>1. SUFFICES ASSUME io[i].sr # None  PROVE FALSE
    OBVIOUS
  <2>2. io[i].sr \in Reqs
    BY <2>1, <1>1 DEF IoRecord
  <2>3. ~req[io[i].sr].free /\ req[io[i].sr].io = i
    BY <2>1, <1>1 DEF Linked
  <2>4. Owned(io[i].sr, req[io[i].sr], io[i])
    BY <2>2, <2>3, <1>1 DEF Linked
  <2>5. QED
    BY <2>4 DEF Owned
<1>3. QED
  BY <1>1, <1>2 DEF Linked, Loose

LEMMA SubmitKeeps ==
  ASSUME Tame, IInv, crashed = "no", NEW i \in IOs, Submit(i)
  PROVE  Keeps /\ UNCHANGED <<baseCh, disk>>
<1>1. QueueInv /\ UNCHANGED baseCh /\ io[i].ph = "idle" /\ UNCHANGED disk
  BY DEF IInv, Submit
<1>2. io[i].sr = None /\ io[i] \in IoRecord /\ io[i].pend = "none"
  BY <1>1, OutOfModule
<1>3. DataIdx = 0 .. NumBaseBdevs - 2
  BY Geometry DEF DataIdx, DataChunksNum
<1>4. ASSUME NEW s \in Stripes, NEW data \in Contents,
             SubmitRequest(i, [io[i] EXCEPT !.type = "write", !.s = s, !.data = data])
      PROVE  Keeps
  <2> DEFINE x == [io[i] EXCEPT !.type = "write", !.s = s, !.data = data]
  <2>1. data \in StripeData
    BY <1>3, ParamAssumption DEF StripeData, Bits
  <2>2. x \in IoRecord /\ x.sr = None /\ x.pend = "none"
    BY <1>2, <2>1 DEF IoRecord
  <2> HIDE DEF x
  <2>3. SubmitRequest(i, x)
    BY <1>4 DEF x
  <2>4. QED
    BY <1>1, <1>2, <2>2, <2>3, SubmitRequestSound
<1>5. ASSUME NEW s \in Stripes, NEW d \in ReadIdx,
             SubmitRequest(i, [io[i] EXCEPT !.type = "read", !.s = s, !.d = d])
      PROVE  Keeps
  <2> DEFINE x == [io[i] EXCEPT !.type = "read", !.s = s, !.d = d]
  <2>1. d \in DataIdx
    BY <1>3, ParamAssumption
  <2>2. x \in IoRecord /\ x.sr = None /\ x.pend = "none"
    BY <1>2, <2>1 DEF IoRecord
  <2> HIDE DEF x
  <2>3. SubmitRequest(i, x)
    BY <1>5 DEF x
  <2>4. QED
    BY <1>1, <1>2, <2>2, <2>3, SubmitRequestSound
<1>6. QED
  BY <1>1, <1>4, <1>5 DEF Submit

LEMMA ResubmitKeeps ==
  ASSUME Tame, IInv, crashed = "no", NEW i \in IOs, Resubmit(i)
  PROVE  Keeps /\ UNCHANGED <<baseCh, disk>>
<1>1. QueueInv /\ UNCHANGED baseCh /\ io[i].ph = "nomem" /\ UNCHANGED disk
  BY DEF IInv, Resubmit
<1>2. io[i].sr = None /\ io[i] \in IoRecord /\ io[i].pend = "none"
  BY <1>1, OutOfModule
<1> DEFINE x == [io[i] EXCEPT !.res = "none"]
<1>3. x \in IoRecord /\ x.sr = None /\ x.pend = "none"
  BY <1>2 DEF IoRecord
<1> HIDE DEF x
<1>4. SubmitRequest(i, x)
  BY DEF Resubmit, x
<1>5. QED
  BY <1>1, <1>2, <1>3, <1>4, SubmitRequestSound

LEMMA RetryRwKeeps ==
  ASSUME Tame, IInv, crashed = "no", NEW i \in IOs, RetryRw(i)
  PROVE  Keeps /\ UNCHANGED <<baseCh, disk>>
<1>1. QueueInv /\ UNCHANGED baseCh /\ io[i].pend = "rw" /\ UNCHANGED disk
  BY DEF IInv, RetryRw
<1>2. io[i].sr = None /\ io[i] \in IoRecord /\ Loose(io[i])
  BY <1>1, OutOfModule
<1> DEFINE x == [io[i] EXCEPT !.pend = "none"]
<1>3. Entering(x)
  BY <1>1, <1>2 DEF IoRecord, Entering, Loose
<1> HIDE DEF x
<1>4. SubmitRw(i, x, TRUE)
  BY DEF RetryRw, x
<1>5. QED
  BY <1>1, <1>2, <1>3, <1>4, SubmitRwSound

\* The request of an I/O in the module, and what it has reached.
LEMMA AtWork ==
  ASSUME QueueInv, crashed = "no", NEW r \in Reqs, ~req[r].free
  PROVE  LET i == req[r].io
         IN  /\ i \in IOs /\ AtHand(i, r, io[i], req[r]) /\ Pair(io, req, i, r)
             /\ Stage(req[r], io[i], r \in Waiting)
<1>1. Typed(io, req) /\ Linked(io, req, Waiting) /\ Staged(io, req, Waiting)
  BY DEF QueueInv
<1>2. req[r].io \in IOs /\ Owned(r, req[r], io[req[r].io])
  BY <1>1 DEF Linked
<1>3. req[r] \in ReqRecord /\ io[req[r].io] \in IoRecord /\ (req[r].md => WithMd)
  BY <1>1, <1>2 DEF Typed
<1>4. QED
  BY <1>1, <1>2, <1>3 DEF AtHand, Pair, Owned, Staged

LEMMA RetryChunksKeeps ==
  ASSUME Tame, IInv, crashed = "no", NEW i \in IOs, RetryChunks(i)
  PROVE  Keeps /\ UNCHANGED <<baseCh, disk>>
<1>1. QueueInv /\ Redundant /\ UNCHANGED baseCh /\ io[i].pend = "chunks" /\ UNCHANGED disk
  BY DEF IInv, Others, RetryChunks
<1> DEFINE r == io[i].sr
           x == [io[i] EXCEPT !.pend = "none"]
           q == req[r]
<1>2. r \in Reqs /\ ~q.free /\ q.io = i
  <2>1. Typed(io, req) /\ Linked(io, req, Waiting) /\ io[i] \in IoRecord
    BY <1>1 DEF QueueInv, Typed
  <2>2. r # None
    BY <2>1, <1>1 DEF Linked, Loose
  <2>3. QED
    BY <2>1, <2>2 DEF Linked, IoRecord
<1>3. PICK p \in SubmitChunks(x, q, TRUE) : Take(i, r, p)
  BY DEF RetryChunks
<1> HIDE DEF r, x, q
<1>4. AtHand(i, r, io[i], q) /\ Pair(io, req, i, r) /\ Stage(q, io[i], r \in Waiting)
  BY <1>1, <1>2, AtWork DEF q
<1>5. Chunking(q, io[i]) /\ r \notin Waiting
  BY <1>1, <1>4 DEF Stage, Xoring, AtXor
<1>6. /\ x \in IoRecord /\ x.pend = "none" /\ x.ph = io[i].ph /\ x.sr = io[i].sr /\ x.type = io[i].type
      /\ x.s = io[i].s /\ x.d = io[i].d /\ x.sub = io[i].sub /\ x.rem = io[i].rem
  BY <1>4 DEF AtHand, IoRecord, x
<1>7. AtHand(i, r, x, q)
  BY <1>4, <1>6 DEF AtHand, Owned, IsWrite
<1>8. ToSubmit(q, x)
  <2>1. Immediate(x, q) = Immediate(io[i], q)
    BY <1>6 DEF Immediate, IsWrite
  <2>2. x.sub \in 0 .. NumBaseBdevs /\ x.sub < NumBaseBdevs /\ NumBaseBdevs \in Nat
    BY <1>1, <1>5, <1>6, Geometry DEF Chunking, IoRecord
  <2>3. x.sub \in x.sub .. NumBaseBdevs - 1
    BY <2>2
  <2>4. Cardinality(q.out) \in Nat
    BY <1>4, Geometry DEF AtHand, ReqRecord
  <2>5. x.rem = Cardinality(q.out) + NumBaseBdevs - x.sub
    BY <1>1, <1>5, <1>6, <2>2, <2>4 DEF Chunking
  <2>6. QED
    BY <2>1, <2>3, <2>5, <1>1, <1>5, <1>6 DEF ToSubmit, Chunking
<1>9. Good(i, r, p) /\ Plain(p)
  BY <1>3, <1>7, <1>8, SubmitChunksGood
<1>10. ~Working(req[r])
  BY <1>5 DEF Chunking, q
<1>11. QED
  BY <1>1, <1>3, <1>4, <1>5, <1>9, <1>10, TakeSound DEF Keeps, Plain

\* The one way an I/O is cast adrift.
Drifts(i) == io[i].pend = "direct" /\ NoMemory(ReconReqs)

LEMMA DirectReadKeeps ==
  ASSUME Tame, IInv, crashed = "no", NEW i \in IOs, NEW success, DirectReadComplete(i, success)
  PROVE  /\ UNCHANGED <<baseCh, disk>> /\ QueueInv' /\ Tended(req', retryQ') /\ xorBufs' \in Reqs \cup {xorBufs}
         /\ \A j \in IOs : Adrift(io'[j]) => Adrift(io[j]) \/ Drifts(j)
<1>1. QueueInv /\ UNCHANGED baseCh /\ io[i].pend = "direct" /\ UNCHANGED disk
      /\ disk \in [Stripes -> [Chunks -> Bits]]
  BY DEF IInv, Others, DirectReadComplete
<1>2. io[i].sr = None /\ io[i] \in IoRecord /\ Loose(io[i])
  BY <1>1, OutOfModule
<1> DEFINE v == disk[io[i].s][ChunkIndex(io[i].s, io[i].d)]
           x == [io[i] EXCEPT !.pend = "none", !.direct = v, !.buf = v]
<1>3. v \in Bits
  <2>1. io[i].s \in Stripes /\ io[i].d \in DataIdx
    BY <1>2 DEF IoRecord
  <2>2. QED
    BY <2>1, <1>1, Geometry
<1> HIDE DEF v
<1>4. Entering(x) /\ ~IsWrite(x)
  BY <1>1, <1>2, <1>3 DEF IoRecord, Entering, Loose, IsWrite
<1>5. Loose(x)
  BY <1>4 DEF Loose, Entering
<1> HIDE DEF x
<1>6. CASE SubmitReconstruct(i, x)
  <2>1. Keeps
    BY <1>1, <1>2, <1>4, <1>6, SubmitReconstructSound
  <2>2. QED
    BY <2>1, <1>1 DEF Keeps, Calmer
<1>7. CASE NoMemory(ReconReqs) /\ TakeIo(i, x)
  <2>1. /\ QueueInv' /\ Tended(req', retryQ') /\ xorBufs' = xorBufs
        /\ \A j \in IOs \ {i} : io'[j] = io[j]
    BY <1>1, <1>2, <1>4, <1>5, <1>7, TakeIoSound DEF Entering
  <2>2. QED
    BY <2>1, <1>1, <1>7 DEF Drifts
<1>8. CASE TakeIo(i, Complete(io[i], "failed"))
  <2>1. LET z == Complete(io[i], "failed")
        IN  z \in IoRecord /\ z.sr = None /\ Loose(z) /\ ~Adrift(z)
    BY <1>2, CompleteResult DEF Adrift
  <2>2. Keeps
    BY <1>1, <1>2, <1>8, <2>1, TakeIoKeeps
  <2>3. QED
    BY <2>2, <1>1 DEF Keeps, Calmer
<1>9. QED
  BY <1>6, <1>7, <1>8 DEF DirectReadComplete, x, v

\* A chunk of q0 is done with, which leaves q.
ChunkDone(q0, q, c) ==
  /\ q \in ReqRecord /\ c \in q0.out /\ q.out = q0.out \ {c}
  /\ q.free = q0.free /\ q.io = q0.io /\ q.s = q0.s /\ q.target = q0.target /\ q.task = q0.task
  /\ q.mdTasks = q0.mdTasks /\ q.md = q0.md

LEMMA ChunkCounted ==
  ASSUME NEW i, NEW r, NEW x, NEW q0, AtHand(i, r, x, q0), Chunking(q0, x), NEW q, NEW c,
         ChunkDone(q0, q, c)
  PROVE  /\ AtHand(i, r, x, q) /\ ~Working(q) /\ x.rem \in Nat /\ x.rem >= 1
         /\ x.rem = 1 => q.out = {} /\ x.pend = "none"
         /\ x.rem - 1 = Cardinality(q.out) + IF x.pend = "chunks" THEN NumBaseBdevs - x.sub ELSE 0
<1>1. AtHand(i, r, x, q) /\ ~Working(q)
  BY DEF AtHand, ChunkDone, Owned, Chunking, Working
<1>2. x.rem \in Nat /\ x.sub \in 0 .. NumBaseBdevs /\ NumBaseBdevs \in Nat /\ x.rem >= 1
  <2>1. x.rem \in 0 .. NumBaseBdevs /\ x.sub \in 0 .. NumBaseBdevs
    BY DEF AtHand, IoRecord
  <2>2. QED
    BY <2>1, Geometry DEF Chunking
<1>3. IsFiniteSet(q0.out) /\ IsFiniteSet(q.out) /\ Cardinality(q.out) \in Nat /\ Cardinality(q0.out) \in Nat
  <2>1. q0.out \in SUBSET Chunks /\ q.out \in SUBSET Chunks
    BY DEF AtHand, ChunkDone, ReqRecord
  <2>2. QED
    BY <2>1, Geometry
<1>4. Cardinality(q.out) = Cardinality(q0.out) - 1
  BY <1>3, FS_RemoveElement DEF ChunkDone
<1>5. x.rem - 1 = Cardinality(q.out) + IF x.pend = "chunks" THEN NumBaseBdevs - x.sub ELSE 0
  BY <1>2, <1>3, <1>4 DEF Chunking
<1>6. ASSUME x.rem = 1  PROVE  q.out = {} /\ x.pend = "none"
  <2>1. x.pend # "chunks"
    BY <1>2, <1>3, <1>5, <1>6 DEF Chunking
  <2>2. Cardinality(q.out) = 0
    BY <1>3, <1>5, <1>6, <2>1
  <2>3. QED
    BY <2>1, <2>2, <1>3, FS_EmptySet DEF AtHand, Owned
<1>7. QED
  BY <1>1, <1>2, <1>5, <1>6

\* raid5f_stripe_request_chunk_write_complete, and of a read but for the last.
LEMMA ChunkDoneGood ==
  ASSUME NEW i, NEW r, NEW x, NEW q0, AtHand(i, r, x, q0), Chunking(q0, x), NEW q, NEW c,
         ChunkDone(q0, q, c), NEW st \in {"success", "failed"},
         NEW p, p = [Result(CompletePart(x, 1, st), IF x.rem = 1 THEN Release(q) ELSE q) EXCEPT
                       !.crash = IF x.rem < 1 THEN "assert" ELSE "no"]
  PROVE  Good(i, r, p) /\ Plain(p)
<1> DEFINE y == CompletePart(x, 1, st)
<1>1. /\ AtHand(i, r, x, q) /\ ~Working(q) /\ x.rem \in Nat /\ x.rem >= 1
      /\ x.rem = 1 => q.out = {} /\ x.pend = "none"
      /\ x.rem - 1 = Cardinality(q.out) + IF x.pend = "chunks" THEN NumBaseBdevs - x.sub ELSE 0
  BY ChunkCounted
<1>2. x \in IoRecord /\ q \in ReqRecord
  BY <1>1 DEF AtHand
<1>3. CASE x.rem = 1
  <2>1. y \in IoRecord /\ y.ph = "done" /\ y.sr = None /\ y.pend = "none"
    BY <1>2, <1>3, PartResult
  <2> DEFINE z == Release(q)
  <2>2. p = [Result(y, z) EXCEPT !.crash = "no"]
    BY <1>3
  <2> HIDE DEF y
  <2>3. /\ z \in ReqRecord /\ z.free = TRUE /\ z.out = {} /\ z.task = q.task
        /\ z.mdTasks = q.mdTasks /\ z.md = q.md
    BY <1>1, <1>2, <1>3 DEF Release, ReqRecord
  <2> HIDE DEF z
  <2>4. p = [x |-> y, q |-> z, enq |-> FALSE, bufs |-> FALSE, drain |-> FALSE, crash |-> "no"]
    BY <2>2 DEF Result
  <2>5. Idle(z) /\ (z.md => WithMd)
    BY <2>3, <1>1 DEF Idle, Working, AtHand
  <2> DEFINE out == [x |-> y, q |-> z, enq |-> FALSE, bufs |-> FALSE, drain |-> FALSE, crash |-> "no"]
  <2>6. Good(i, r, out)
    BY <2>1, <2>3, <2>5, Finished
  <2>7. Good(i, r, p)
    BY <2>4, <2>6
  <2>8. QED
    BY <2>4, <2>5, <2>7 DEF Plain, Idle
<1>4. CASE x.rem > 1
  <2>1. /\ y \in IoRecord /\ y.rem = x.rem - 1 /\ y.ph = x.ph /\ y.pend = x.pend /\ y.sr = x.sr
        /\ y.type = x.type /\ y.s = x.s /\ y.d = x.d /\ y.sub = x.sub
    BY <1>1, <1>2, <1>4, PartResult
  <2>2. p = [Result(y, q) EXCEPT !.crash = "no"]
    BY <1>1, <1>4
  <2> HIDE DEF y
  <2>3. AtHand(i, r, y, q)
    BY <1>1, <2>1 DEF AtHand, Owned, IsWrite
  <2>4. Immediate(y, q) = Immediate(x, q0) /\ IsWrite(y) = IsWrite(x)
    BY <2>1 DEF Immediate, IsWrite, ChunkDone
  <2>5. y.rem = Cardinality(q.out) + (IF y.pend = "chunks" THEN NumBaseBdevs - y.sub ELSE 0) /\ y.rem > 0
    BY <1>1, <1>4, <2>1
  <2>6. q.out \subseteq (0 .. y.sub - 1) \ Immediate(y, q)
    BY <2>1, <2>4 DEF ChunkDone, Chunking
  <2>7. Chunking(q, y)
    BY <1>1, <2>1, <2>4, <2>5, <2>6 DEF Chunking
  <2> DEFINE out == [x |-> y, q |-> q, enq |-> FALSE, bufs |-> FALSE, drain |-> FALSE, crash |-> "no"]
  <2>8. Good(i, r, out)
    BY <2>3, <2>7, Ongoing DEF Stage
  <2>9. p = out
    BY <2>2 DEF Result
  <2>10. Plain(out)
    BY <1>1 DEF Plain
  <2>11. QED
    BY <2>8, <2>9, <2>10
<1>5. QED
  BY <1>1, <1>3, <1>4

LEMMA ChunkCompleteKeeps ==
  ASSUME Tame, IInv, crashed = "no", NEW r \in Reqs, NEW c \in Chunks, NEW success \in BOOLEAN,
         ChunkComplete(r, c, success)
  PROVE  Keeps /\ UNCHANGED baseCh /\ disk' \in [Stripes -> [Chunks -> Bits]]
<1> DEFINE q0  == req[r]
           i   == q0.io
           x   == io[i]
           q   == [q0 EXCEPT !.out = @ \ {c}]
           qr  == [q EXCEPT !.buf[c] = disk[q.s][c]]
           st  == IF success THEN "success" ELSE "failed"
<1>1. /\ QueueInv /\ Redundant /\ UNCHANGED baseCh /\ c \in q0.out
      /\ disk \in [Stripes -> [Chunks -> Bits]] /\ st \in {"success", "failed"}
  BY DEF IInv, Others, ChunkComplete
<1>2. ~q0.free
  BY <1>1 DEF QueueInv, Linked, Idle
<1>3. i \in IOs /\ AtHand(i, r, x, q0) /\ Pair(io, req, i, r) /\ Stage(q0, x, r \in Waiting)
  BY <1>1, <1>2, AtWork
<1>4. Chunking(q0, x) /\ r \notin Waiting
  BY <1>1, <1>3 DEF Stage, Xoring, AtXor
<1>5. q0 \in ReqRecord
  BY <1>3 DEF AtHand
<1>6. /\ q \in ReqRecord /\ q.out = q0.out \ {c} /\ q.free = q0.free /\ q.io = q0.io /\ q.s = q0.s
      /\ q.target = q0.target /\ q.task = q0.task /\ q.mdTasks = q0.mdTasks /\ q.md = q0.md
  BY <1>5 DEF ReqRecord
<1>7. ChunkDone(q0, q, c)
  BY <1>1, <1>6 DEF ChunkDone
<1>8. CASE r \in WriteReqs
  <2>1. /\ disk' = [disk EXCEPT ![q.s][c] = q.buf[c]] \/ disk' = disk
        /\ \E p \in ChunkWritten(x, q, st) : Take(i, r, p)
    BY <1>8 DEF ChunkComplete
  <2>2. PICK p \in ChunkWritten(x, q, st) : Take(i, r, p)
    BY <2>1
  <2>3. disk' \in [Stripes -> [Chunks -> Bits]]
    <3>1. q.s \in Stripes /\ q.buf[c] \in Bits
      BY <1>6 DEF ReqRecord
    <3> HIDE DEF q
    <3>2. CASE disk' = [disk EXCEPT ![q.s][c] = q.buf[c]]
      BY <3>1, <3>2, <1>1
    <3>3. QED
      BY <3>2, <2>1, <1>1
  <2> HIDE DEF q, x, i, q0, st
  <2>4. /\ AtHand(i, r, x, q) /\ ~Working(q) /\ x.rem \in Nat /\ x.rem >= 1
    BY <1>3, <1>4, <1>7, ChunkCounted
  <2>5. (CompletePart(x, 1, st)).ph = "done" <=> x.rem = 1
    BY <2>4, <1>1, PartResult DEF AtHand, Owned
  <2>6. p = [Result(CompletePart(x, 1, st), IF x.rem = 1 THEN Release(q) ELSE q) EXCEPT
               !.crash = IF x.rem < 1 THEN "assert" ELSE "no"]
    BY <2>2, <2>5 DEF ChunkWritten
  <2>7. Good(i, r, p) /\ Plain(p)
    BY <1>1, <1>3, <1>4, <1>7, <2>6, ChunkDoneGood
  <2>8. ~Working(req[r])
    BY <1>4 DEF Chunking, q0
  <2>9. QED
    BY <1>1, <1>3, <1>4, <2>2, <2>3, <2>7, <2>8, TakeSound DEF Keeps, Plain
<1>9. CASE r \notin WriteReqs
  <2>1. disk' = disk /\ \E p \in ChunkRead(x, qr, st) : Take(i, r, p)
    BY <1>9 DEF ChunkComplete
  <2>2. PICK p \in ChunkRead(x, qr, st) : Take(i, r, p)
    BY <2>1
  <2>3. ChunkDone(q0, qr, c)
    <3> DEFINE v   == disk[q.s][c]
               buf == [q.buf EXCEPT ![c] = v]
    <3>1. v \in Bits /\ q.buf \in [Chunks -> Bits]
      BY <1>1, <1>6 DEF ReqRecord
    <3> HIDE DEF v
    <3>2. buf \in [Chunks -> Bits]
      BY <3>1
    <3> HIDE DEF q
    <3>3. qr = [q EXCEPT !.buf = buf]
      BY <1>6 DEF ReqRecord, v
    <3> HIDE DEF buf, qr
    <3>4. /\ qr \in ReqRecord /\ qr.out = q.out /\ qr.free = q.free /\ qr.io = q.io /\ qr.s = q.s
          /\ qr.target = q.target /\ qr.task = q.task /\ qr.mdTasks = q.mdTasks /\ qr.md = q.md
      BY <3>2, <3>3, <1>6 DEF ReqRecord
    <3>5. QED
      BY <3>4, <1>1, <1>6 DEF ChunkDone
  <2> HIDE DEF q, qr, x, i, q0, st
  <2>4. /\ AtHand(i, r, x, qr) /\ ~Working(qr) /\ x.rem \in Nat /\ x.rem >= 1
        /\ x.rem = 1 => qr.out = {} /\ x.pend = "none"
    BY <1>3, <1>4, <2>3, ChunkCounted
  <2>5. ~Working(req[r])
    BY <1>4 DEF Chunking, q0
  <2>6. CASE x.rem = 1 /\ x.status = "success" /\ st = "success"
    <3>1. PICK e \in XorStripe(qr, Busy(req)) : p \in AfterXor(x, e)
      BY <2>2, <2>6 DEF ChunkRead
    <3>2. ~IsWrite(x)
      BY <1>3, <1>9 DEF AtHand, Owned
    <3>3. AtXor(qr, x)
      BY <2>4, <2>6, <3>2, <1>4 DEF AtXor, Chunking
    <3>4. Good(i, r, p) /\ Onward(p, Busy(req)) /\ Left(p)
      BY <2>4, <3>1, <3>3, <1>1, XorStripeGood
    <3>5. p.enq => accelFull \/ \E t \in Reqs \ {r} : Working(req[t])
      BY <2>5, <3>4 DEF Onward, Busy, Working
    <3>6. QED
      BY <1>1, <1>3, <1>4, <2>1, <2>2, <3>4, <3>5, TakeSound DEF Keeps
  <2>7. CASE ~(x.rem = 1 /\ x.status = "success" /\ st = "success")
    <3>1. p = [Result(CompletePart(x, 1, st), IF x.rem = 1 THEN Release(qr) ELSE qr) EXCEPT
                 !.crash = IF x.rem < 1 THEN "assert" ELSE "no"]
      BY <2>2, <2>7 DEF ChunkRead
    <3>2. Good(i, r, p) /\ Plain(p)
      BY <1>1, <1>3, <1>4, <2>3, <3>1, ChunkDoneGood
    <3>3. QED
      BY <1>1, <1>3, <1>4, <2>1, <2>2, <2>5, <3>2, TakeSound DEF Keeps, Plain
  <2>8. QED
    BY <2>6, <2>7
<1>10. QED
  BY <1>8, <1>9

\* The end of a piece writes to the destination chunk alone.
LEMMA XorWritesGood ==
  ASSUME NEW i, NEW r, NEW x, NEW q, AtHand(i, r, x, q), AtXor(q, x), NEW w \in XorWrites(x, q)
  PROVE  /\ AtHand(i, r, w.x, w.q) /\ AtXor(w.q, w.x)
         /\ w.q.task = q.task /\ w.q.mdTasks = q.mdTasks /\ w.q.md = q.md /\ w.q.seg = q.seg
<1>1. x \in IoRecord /\ q \in ReqRecord /\ q.s \in Stripes
  BY DEF AtHand, ReqRecord
<1>2. \A dest : XorResults(q, dest) \subseteq Bits
  <2>1. ASSUME NEW dest  PROVE Xor(q.buf, Chunks \ {dest}) \in Bits
    <3> DEFINE S == {c \in Chunks \ {dest} : q.buf[c] = 1}
    <3>1. S \in SUBSET Chunks
      OBVIOUS
    <3>2. Cardinality(S) \in Nat
      BY <3>1, Geometry
    <3> DEFINE n == Cardinality(S)
    <3> HIDE DEF S
    <3>3. n % 2 \in 0 .. 1
      BY <3>2
    <3>4. QED
      BY <3>3 DEF Xor, Bits, S
  <2>2. QED
    BY <2>1 DEF XorResults
<1>3. CASE IsWrite(x)
  <2> DEFINE P == ParityIndex(q.s)
  <2>1. PICK v \in Bits : w = [x |-> x, q |-> [q EXCEPT !.buf[P] = v]]
    BY <1>2, <1>3 DEF XorWrites
  <2> DEFINE buf == [q.buf EXCEPT ![P] = v]
             z   == [q EXCEPT !.buf = buf]
  <2>2. buf \in [Chunks -> Bits]
    BY <2>1, <1>1 DEF ReqRecord
  <2>3. [q EXCEPT !.buf[P] = v] = z
    BY <1>1 DEF ReqRecord
  <2>4. w.x = x /\ w.q = z
    BY <2>1, <2>3
  <2> HIDE DEF buf
  <2>5. /\ z \in ReqRecord /\ z.out = q.out /\ z.free = q.free /\ z.io = q.io /\ z.s = q.s
        /\ z.target = q.target /\ z.task = q.task /\ z.mdTasks = q.mdTasks /\ z.md = q.md
        /\ z.seg = q.seg
    BY <2>2, <1>1 DEF ReqRecord
  <2> HIDE DEF z
  <2>6. AtHand(i, r, x, z) /\ AtXor(z, x)
    BY <2>5 DEF AtHand, AtXor, Owned
  <2>7. QED
    BY <2>4, <2>5, <2>6
<1>4. CASE ~IsWrite(x)
  <2>1. PICK v \in Bits : w = [x |-> [x EXCEPT !.buf = v], q |-> q]
    BY <1>2, <1>4 DEF XorWrites
  <2> DEFINE y == [x EXCEPT !.buf = v]
  <2>2. /\ y \in IoRecord /\ y.ph = x.ph /\ y.pend = x.pend /\ y.type = x.type /\ y.s = x.s
        /\ y.d = x.d /\ y.rem = x.rem /\ y.sub = x.sub /\ y.status = x.status /\ y.sr = x.sr
    BY <2>1, <1>1 DEF IoRecord
  <2>3. w.x = y /\ w.q = q
    BY <2>1
  <2> HIDE DEF y
  <2>4. AtHand(i, r, y, q) /\ AtXor(q, y)
    BY <2>2 DEF AtHand, AtXor, Owned, IsWrite
  <2>5. QED
    BY <2>3, <2>4
<1>5. QED
  BY <1>3, <1>4

\* The status of a piece is noted in what its callback leaves.
LEMMA NotedGood ==
  ASSUME NEW i, NEW r, NEW h, Good(i, r, h), NEW success \in BOOLEAN, NEW p,
         p = [h EXCEPT !.q = IF success THEN @ ELSE [@ EXCEPT !.status = "err"]]
  PROVE  Good(i, r, p) /\ p.enq = h.enq /\ (Left(h) => Left(p))
<1>1. h \in Outcome /\ h.q \in ReqRecord
  BY DEF Good, Outcome
<1> DEFINE z == IF success THEN h.q ELSE [h.q EXCEPT !.status = "err"]
<1>2. /\ z \in ReqRecord /\ z.out = h.q.out /\ z.free = h.q.free /\ z.io = h.q.io /\ z.s = h.q.s
      /\ z.target = h.q.target /\ z.task = h.q.task /\ z.mdTasks = h.q.mdTasks /\ z.md = h.q.md
      /\ z.seg = h.q.seg
  BY <1>1 DEF ReqRecord
<1>3. p = [h EXCEPT !.q = z]
  BY <1>1 DEF Outcome
<1> HIDE DEF z
<1>4. /\ p \in Outcome /\ p.q = z /\ p.x = h.x /\ p.enq = h.enq /\ p.crash = h.crash
      /\ p.drain = h.drain
  BY <1>1, <1>2, <1>3 DEF Outcome
<1>5. Left(h) => Left(p)
  BY <1>2, <1>4 DEF Left, Working
<1>9. (p.q.md => WithMd) /\ (p.drain => ~p.enq /\ p.crash = "no") /\ (p.enq => ~WithMd)
  BY <1>2, <1>4 DEF Good
<1>6. CASE z.free
  <2>1. h.q.free
    BY <1>2, <1>6
  <2>2. Idle(h.q) /\ ~h.enq /\ h.x.sr = None /\ h.x.ph = "done" /\ h.x.pend = "none"
    BY <2>1 DEF Good
  <2>3. Idle(z)
    BY <2>2, <1>2 DEF Idle, Working
  <2>4. /\ p.q.free /\ Idle(p.q) /\ ~p.enq /\ p.x.sr = None /\ p.x.ph = "done"
        /\ p.x.pend = "none" /\ p \in Outcome
    BY <2>2, <2>3, <1>4, <1>6
  <2>5. QED
    BY <2>4, <1>4, <1>5, <1>9 DEF Good
<1>7. CASE ~z.free
  <2>1. h.q.io = i /\ Owned(r, h.q, h.x) /\ (h.crash = "no" => Stage(h.q, h.x, h.enq))
    BY <1>2, <1>7 DEF Good
  <2>2. Owned(r, z, h.x)
    BY <2>1, <1>2 DEF Owned
  <2>3. Stage(h.q, h.x, h.enq) => Stage(z, h.x, h.enq)
    BY <1>2 DEF Stage, Chunking, Xoring, AtXor, Working, Immediate
  <2>4. /\ ~p.q.free /\ p.q.io = i /\ Owned(r, p.q, p.x) /\ p \in Outcome
        /\ p.crash = "no" => Stage(p.q, p.x, p.enq)
    BY <2>1, <2>2, <2>3, <1>2, <1>4, <1>7
  <2>5. QED
    BY <2>4, <1>4, <1>5, <1>9 DEF Good
<1>8. QED
  BY <1>4, <1>5, <1>6, <1>7

LEMMA XorTaskDoneKeeps ==
  ASSUME Tame, IInv, crashed = "no", NEW r \in Reqs, NEW success \in BOOLEAN, XorTaskDone(r, success)
  PROVE  Keeps /\ UNCHANGED <<baseCh, disk>>
<1> DEFINE q0 == req[r]
           i  == q0.io
           x  == io[i]
           q  == [q0 EXCEPT !.task = FALSE, !.seg = @ - 1]
           noted(p) == IF success THEN p ELSE [p EXCEPT !.status = "err"]
           busy == Busy([req EXCEPT ![r] = q])
<1>1. QueueInv /\ Redundant /\ UNCHANGED <<baseCh, disk>> /\ q0.task
  BY DEF IInv, Others, XorTaskDone
<1>2. ~q0.free
  BY <1>1 DEF QueueInv, Linked, Idle, Working
<1>3. i \in IOs /\ AtHand(i, r, x, q0) /\ Pair(io, req, i, r) /\ Stage(q0, x, r \in Waiting)
  BY <1>1, <1>2, AtWork
<1>4. Xoring(q0, x, r \in Waiting)
  BY <1>1, <1>3 DEF Stage, Chunking, Working
<1>5. q0 \in ReqRecord /\ q0.seg \in Nat /\ q0.seg \in 0 .. Segments
  BY <1>3, ParamAssumption DEF AtHand, ReqRecord
<1>6. q0.seg > 0 /\ r \notin Waiting /\ q0.mdTasks = IF q0.md THEN 1 ELSE 0
  BY <1>1, <1>4, <1>5 DEF Xoring
<1>7. /\ q \in ReqRecord /\ q.task = FALSE /\ q.seg = q0.seg - 1 /\ q.out = q0.out /\ q.free = q0.free
      /\ q.io = q0.io /\ q.s = q0.s /\ q.target = q0.target /\ q.mdTasks = q0.mdTasks /\ q.md = q0.md
  <2>1. q0.seg - 1 \in 0 .. Segments
    BY <1>5, <1>6, ParamAssumption
  <2> DEFINE n == q0.seg - 1
  <2>2. q = [q0 EXCEPT !.task = FALSE, !.seg = n]
    OBVIOUS
  <2> HIDE DEF n
  <2>3. q.seg = n /\ q \in ReqRecord
    BY <2>1, <2>2, <1>5 DEF ReqRecord, n
  <2>4. QED
    BY <2>2, <2>3, <1>5 DEF ReqRecord, n
<1>8. \/ /\ q.seg > 0
         /\ \E e \in XorContinue(q, busy) : \E h \in AfterXor(x, e) :
              Take(i, r, [h EXCEPT !.q = noted(@)])
      \/ /\ ~(q.seg > 0)
         /\ \E w \in XorWrites(x, noted(q)) :
              \E p \in IF XorIsOver(q) THEN XorDone(w.x, w.q) ELSE {Result(w.x, w.q)} : Take(i, r, p)
  BY DEF XorTaskDone
<1>9. req \in [Reqs -> ReqRecord]
  BY <1>1 DEF QueueInv, Typed
<1>10. AtHand(i, r, x, q) /\ AtXor(q, x)
  BY <1>3, <1>4, <1>7 DEF AtHand, Owned, Xoring, AtXor
<1>11. ASSUME busy, ~WithMd  PROVE \E t \in Reqs \ {r} : Working(req[t])
  <2> DEFINE reqs == [req EXCEPT ![r] = q]
  <2>1. PICK t \in Reqs : Working(reqs[t])
    BY <1>11 DEF Busy, Working
  <2>2. reqs[r] = q /\ \A u \in Reqs \ {r} : reqs[u] = req[u]
    BY <1>9
  <2>3. ~Working(q)
    BY <1>6, <1>7, <1>3, <1>11 DEF Working, AtHand
  <2>4. QED
    BY <2>1, <2>2, <2>3
<1> HIDE DEF q0, i, x, q, busy
<1>12. CASE q.seg > 0
  <2>a. PICK e \in XorContinue(q, busy) : \E h \in AfterXor(x, e) : Take(i, r, [h EXCEPT !.q = noted(@)])
    BY <1>8, <1>12
  <2>1. PICK h \in AfterXor(x, e) : Take(i, r, [h EXCEPT !.q = noted(@)])
    BY <2>a
  <2>2. Good(i, r, h) /\ Onward(h, busy) /\ Left(h)
    <3>1. q.mdTasks = IF q.md THEN 1 ELSE 0
      BY <1>6, <1>7
    <3>2. QED
      BY <3>1, <2>1, <1>1, <1>7, <1>10, <1>12, XorContinueGood
  <2>3. PICK p : p = [h EXCEPT !.q = IF success THEN @ ELSE [@ EXCEPT !.status = "err"]] /\ Take(i, r, p)
    BY <2>1
  <2>4. Good(i, r, p) /\ p.enq = h.enq /\ Left(p)
    BY <2>2, <2>3, NotedGood
  <2>5. p.enq => accelFull \/ \E t \in Reqs \ {r} : Working(req[t])
    BY <2>2, <2>4, <1>11 DEF Onward
  <2>6. QED
    BY <2>3, <2>4, <2>5, <1>1, <1>3, <1>6, TakeSound DEF Keeps
<1>13. CASE ~(q.seg > 0)
  <2> DEFINE nq == noted(q)
  <2>1. PICK w \in XorWrites(x, nq) :
          \E p \in IF XorIsOver(q) THEN XorDone(w.x, w.q) ELSE {Result(w.x, w.q)} : Take(i, r, p)
    BY <1>8, <1>13
  <2>2. PICK p \in IF XorIsOver(q) THEN XorDone(w.x, w.q) ELSE {Result(w.x, w.q)} : Take(i, r, p)
    BY <2>1
  <2>3. /\ nq \in ReqRecord /\ nq.task = FALSE /\ nq.seg = q.seg /\ nq.out = q.out /\ nq.free = q.free
        /\ nq.io = q.io /\ nq.s = q.s /\ nq.target = q.target /\ nq.mdTasks = q.mdTasks /\ nq.md = q.md
    BY <1>7 DEF ReqRecord
  <2> HIDE DEF nq
  <2>4. AtHand(i, r, x, nq) /\ AtXor(nq, x)
    BY <2>3, <1>10 DEF AtHand, Owned, AtXor
  <2>5. /\ AtHand(i, r, w.x, w.q) /\ AtXor(w.q, w.x)
        /\ w.q.task = FALSE /\ w.q.mdTasks = q.mdTasks /\ w.q.md = q.md /\ w.q.seg = q.seg
    BY <2>1, <2>3, <2>4, XorWritesGood
  <2>6. q.seg = 0
    BY <1>5, <1>6, <1>7, <1>13
  <2>7. Good(i, r, p) /\ Left(p) /\ ~p.enq
    <3>1. CASE XorIsOver(q)
      <4>1. ~Working(w.q)
        BY <3>1, <2>5, <1>6, <1>7 DEF XorIsOver, Working
      <4>2. p \in XorDone(w.x, w.q)
        BY <2>2, <3>1
      <4>3. Good(i, r, p) /\ p.drain = TRUE
        BY <4>1, <4>2, <2>5, <1>1, XorDoneGood
      <4>4. QED
        BY <4>3 DEF Left, Good
    <3>2. CASE ~XorIsOver(q)
      <4>1. w.q.md /\ w.q.mdTasks = 1
        BY <3>2, <2>5, <2>6, <1>6, <1>7 DEF XorIsOver
      <4>2. Xoring(w.q, w.x, FALSE)
        BY <4>1, <2>5, <2>6 DEF Xoring
      <4> DEFINE y == w.x
                 z == w.q
      <4>3. p = Result(y, z)
        BY <2>2, <3>2
      <4>4. AtHand(i, r, y, z) /\ Stage(z, y, FALSE) /\ Working(z)
        <5>1. Working(w.q)
          BY <4>1 DEF Working
        <5>2. QED
          BY <5>1, <4>2, <2>5 DEF Stage
      <4> HIDE DEF y, z
      <4> DEFINE out == [x |-> y, q |-> z, enq |-> FALSE, bufs |-> FALSE, drain |-> FALSE, crash |-> "no"]
      <4>5. Good(i, r, out)
        BY <4>4, Ongoing
      <4>6. p = out
        BY <4>3 DEF Result
      <4>7. Left(out) /\ out.enq = FALSE
        BY <4>4 DEF Left
      <4>8. QED
        BY <4>5, <4>6, <4>7
    <3>3. QED
      BY <3>1, <3>2
  <2>8. QED
    BY <2>2, <2>7, <1>1, <1>3, <1>6, TakeSound DEF Keeps
<1>14. QED
  BY <1>1, <1>12, <1>13

LEMMA XorMdDoneKeeps ==
  ASSUME Tame, IInv, crashed = "no", NEW r \in Reqs, NEW success \in BOOLEAN, XorMdDone(r, success)
  PROVE  Keeps /\ UNCHANGED <<baseCh, disk>>
<1> DEFINE q0 == req[r]
           i  == q0.io
           x  == io[i]
           q  == [MdOver(q0) EXCEPT !.status = IF success THEN @ ELSE "err"]
<1>1. QueueInv /\ Redundant /\ UNCHANGED <<baseCh, disk>> /\ q0.mdTasks > 0
  BY DEF IInv, Others, XorMdDone
<1>2. ~q0.free
  BY <1>1 DEF QueueInv, Linked, Idle, Working
<1>3. i \in IOs /\ AtHand(i, r, x, q0) /\ Pair(io, req, i, r) /\ Stage(q0, x, r \in Waiting)
  BY <1>1, <1>2, AtWork
<1>4. Xoring(q0, x, r \in Waiting)
  BY <1>1, <1>3 DEF Stage, Chunking, Working
<1>5. q0 \in ReqRecord /\ q0.seg \in Nat /\ q0.status \in {"ok", "err"}
  BY <1>3, ParamAssumption DEF AtHand, ReqRecord
<1>6. q0.mdTasks = 1 /\ r \notin Waiting /\ (q0.seg > 0 <=> q0.task)
  <2>1. q0.md
    BY <1>1, <1>4 DEF Xoring
  <2>2. WithMd
    BY <2>1, <1>3 DEF AtHand
  <2>3. r \notin Waiting
    BY <2>2, <1>4 DEF Xoring
  <2>4. q0.task \in BOOLEAN
    BY <1>5 DEF ReqRecord
  <2>5. QED
    BY <2>1, <2>3, <2>4, <1>4, <1>5 DEF Xoring
<1>7. /\ q \in ReqRecord /\ q.task = q0.task /\ q.seg = q0.seg /\ q.out = q0.out /\ q.free = q0.free
      /\ q.io = q0.io /\ q.s = q0.s /\ q.target = q0.target /\ q.mdTasks = 0 /\ q.md = FALSE
  <2> DEFINE y == MdOver(q0)
  <2>1. y = [q0 EXCEPT !.mdTasks = 0, !.md = FALSE]
    BY <1>6 DEF MdOver
  <2> HIDE DEF y
  <2>2. /\ y \in ReqRecord /\ y.task = q0.task /\ y.seg = q0.seg /\ y.out = q0.out /\ y.free = q0.free
        /\ y.io = q0.io /\ y.s = q0.s /\ y.target = q0.target /\ y.mdTasks = 0 /\ y.md = FALSE
        /\ y.status \in {"ok", "err"}
    BY <2>1, <1>5 DEF ReqRecord
  <2> DEFINE st == IF success THEN y.status ELSE "err"
  <2>3. q = [y EXCEPT !.status = st] /\ st \in {"ok", "err"}
    BY <2>2 DEF y
  <2> HIDE DEF st, q
  <2>4. QED
    BY <2>2, <2>3 DEF ReqRecord
<1>8. \E p \in IF XorIsOver(q) THEN XorDone(x, q) ELSE {Result(x, q)} : Take(i, r, p)
  BY DEF XorMdDone
<1>9. AtHand(i, r, x, q) /\ AtXor(q, x)
  BY <1>3, <1>4, <1>7 DEF AtHand, Owned, Xoring, AtXor
<1> HIDE DEF q0, i, x, q
<1>10. PICK p \in IF XorIsOver(q) THEN XorDone(x, q) ELSE {Result(x, q)} : Take(i, r, p)
  BY <1>8
<1>11. Good(i, r, p) /\ Left(p) /\ ~p.enq
  <2>1. CASE XorIsOver(q)
    <3>1. ~Working(q)
      BY <2>1, <1>5, <1>6, <1>7 DEF XorIsOver, Working
    <3>2. p \in XorDone(x, q)
      BY <1>10, <2>1
    <3>3. Good(i, r, p) /\ p.drain = TRUE
      BY <3>1, <3>2, <1>1, <1>9, XorDoneGood
    <3>4. QED
      BY <3>3 DEF Left, Good
  <2>2. CASE ~XorIsOver(q)
    <3>1. q.seg > 0 /\ q.task
      BY <2>2, <1>5, <1>6, <1>7 DEF XorIsOver
    <3>2. q.task = TRUE
      BY <3>1, <1>7 DEF ReqRecord
    <3>3. Xoring(q, x, FALSE) /\ Working(q)
      BY <3>1, <3>2, <1>7, <1>9 DEF Xoring, Working
    <3> DEFINE out == [x |-> x, q |-> q, enq |-> FALSE, bufs |-> FALSE, drain |-> FALSE, crash |-> "no"]
    <3>4. Good(i, r, out)
      BY <3>3, <1>9, Ongoing DEF Stage
    <3>5. p = out
      BY <1>10, <2>2 DEF Result
    <3>6. Left(out) /\ out.enq = FALSE
      BY <3>3 DEF Left
    <3>7. QED
      BY <3>4, <3>5, <3>6
  <2>3. QED
    BY <2>1, <2>2
<1>12. QED
  BY <1>10, <1>11, <1>1, <1>3, <1>6, TakeSound DEF Keeps

\* No I/O is in the module, so no stripe request is in use.
LEMMA RemoveBaseKeeps ==
  ASSUME IInv, NEW c \in Removable, RemoveBase(c)
  PROVE  Keeps /\ UNCHANGED disk /\ Redundant' /\ baseCh' \subseteq Chunks
<1>1. /\ QueueInv /\ UNCHANGED <<io, req, retryQ, xorBufs, disk, crashed>> /\ baseCh = Chunks
      /\ baseCh' = baseCh \ {c} /\ \A i \in IOs : io[i].ph # "active"
  BY DEF IInv, RemoveBase, InFlight
<1>2. c \in Chunks
  BY ParamAssumption DEF Chunks
<1>3. \A r \in Reqs : req[r].free
  BY <1>1 DEF QueueInv, Linked, Owned
<1>4. QueueInv'
  BY <1>1, <1>3 DEF QueueInv, Waiting, Members, Typed, Linked, Staged, Owned, Loose, Idle, Working,
                    InOnce, Busy, IsWrite
<1>5. Redundant' /\ baseCh' \subseteq Chunks
  BY <1>1, <1>2 DEF Redundant
<1>6. Tended(req', retryQ')
  BY <1>1 DEF Tended, Stalled
<1>7. QED
  BY <1>1, <1>4, <1>5, <1>6 DEF Keeps, Calmer

LEMMA HistoryTyped ==
  ASSUME History, want \in [Stripes -> StripeData \cup {Unknown}], clean \subseteq IOs,
         io' \in [IOs -> IoRecord]
  PROVE  want' \in [Stripes -> StripeData \cup {Unknown}] /\ clean' \subseteq IOs
<1>1. clean' \subseteq IOs
  BY DEF History
<1>2. \A i \in IOs : io'[i].data \in StripeData
  BY DEF IoRecord
<1> DEFINE running(s) == {i \in IOs : IsWrite(io'[i]) /\ io'[i].s = s /\ InFlight(io'[i])}
           ended(s)   == {i \in IOs : IsWrite(io'[i]) /\ io'[i].s = s /\ Ended(i)}
           now(s)     == IF running(s) # {} THEN Unknown
                         ELSE IF ended(s) = {} THEN want[s]
                         ELSE LET i == CHOOSE j \in ended(s) : TRUE
                              IN  IF io'[i].res = "success" /\ i \in clean THEN io'[i].data ELSE Unknown
<1>3. want' = [s \in Stripes |-> now(s)]
  BY DEF History
<1>4. ASSUME NEW s \in Stripes  PROVE now(s) \in StripeData \cup {Unknown}
  <2>1. ended(s) \subseteq IOs
    OBVIOUS
  <2> HIDE DEF running, ended
  <2>2. ended(s) # {} => (CHOOSE j \in ended(s) : TRUE) \in IOs
    BY <2>1
  <2>3. QED
    BY <2>2, <1>2
<1> HIDE DEF now
<1>5. QED
  BY <1>1, <1>3, <1>4

-----------------------------------------------------------------------------
(* The invariant.                                                           *)

LEMMA InitIInv ==
  ASSUME Init
  PROVE  IInv
<1>1. /\ (CHOOSE s \in Stripes : TRUE) \in Stripes
      /\ None \notin Reqs
  BY StripeAssumption, PoolAssumption DEF Reqs
<1>2. NumBaseBdevs \in Nat /\ NumBaseBdevs >= 3 /\ 0 \in Bits /\ Segments \in Nat
  BY Geometry, ParamAssumption DEF Bits
<1>3. 0 \in Chunks /\ 0 \in DataIdx /\ 0 \in 0 .. NumBaseBdevs /\ 0 \in 0 .. Segments
  BY <1>2 DEF Chunks, DataIdx, DataChunksNum
<1>4. NoData \in StripeData
  BY <1>2 DEF NoData, StripeData
<1>5. io \in [IOs -> IoRecord]
  <2> DEFINE s0 == CHOOSE s \in Stripes : TRUE
             x  == [ph |-> "idle", pend |-> "none", type |-> "read", s |-> s0,
                    d |-> 0, data |-> NoData, rem |-> 0, sub |-> 0, status |-> "success",
                    res |-> "none", sr |-> None, direct |-> -1, buf |-> 0]
  <2>1. s0 \in Stripes
    BY <1>1
  <2> HIDE DEF s0
  <2>2. x \in IoRecord
    BY <2>1, <1>2, <1>3, <1>4 DEF IoRecord
  <2>3. io = [i \in IOs |-> x]
    BY DEF Init, s0
  <2> HIDE DEF x
  <2>4. QED
    BY <2>2, <2>3
<1>6. req \in [Reqs -> ReqRecord]
  <2> DEFINE s0 == CHOOSE s \in Stripes : TRUE
             b0 == [c \in Chunks |-> 0]
             q  == [free |-> TRUE, io |-> None, s |-> s0,
                    target |-> 0, poisoned |-> FALSE, out |-> {}, buf |-> b0,
                    seg |-> 0, own |-> TRUE, md |-> FALSE, status |-> "ok", task |-> FALSE, mdTasks |-> 0]
  <2>1. s0 \in Stripes /\ b0 \in [Chunks -> Bits]
    BY <1>1, <1>2
  <2>2. req = [r \in Reqs |-> q]
    BY DEF Init
  <2> HIDE DEF s0, b0
  <2>3. q \in ReqRecord
    BY <2>1, <1>2, <1>3 DEF ReqRecord
  <2> HIDE DEF q
  <2>4. QED
    BY <2>2, <2>3
<1>7. \A i \in IOs : io[i].sr = None /\ io[i].pend = "none"
  BY DEF Init
<1>8. \A r \in Reqs : req[r].free = TRUE /\ req[r].out = {} /\ req[r].task = FALSE /\ req[r].mdTasks = 0
                      /\ req[r].md = FALSE
  BY DEF Init
<1>9. /\ retryQ = << >> /\ xorBufs = None /\ baseCh = Chunks /\ crashed = "no" /\ clean = IOs
      /\ accelFull = FALSE
  BY DEF Init
<1>10. Waiting = {} /\ InOnce(retryQ)
  BY <1>9 DEF Waiting, Members, InOnce
<1>11. Typed(io, req) /\ Linked(io, req, Waiting) /\ Staged(io, req, Waiting)
  BY <1>5, <1>6, <1>7, <1>8, <1>10 DEF Typed, Linked, Staged, Loose, Idle, Working
<1>12. disk \in [Stripes -> [Chunks -> Bits]] /\ want \in [Stripes -> StripeData \cup {Unknown}]
  BY <1>2, <1>4 DEF Init
<1>13. Redundant
  BY <1>3, <1>9 DEF Redundant
<1>14. QED
  BY <1>9, <1>10, <1>11, <1>12, <1>13 DEF IInv, QueueInv, Others

\* The others of the accel channel take part in the refusals only.
LEMMA OthersKeep ==
  ASSUME IInv, UNCHANGED <<io, req, retryQ, xorBufs, baseCh, disk, crashed, want, clean>>,
         accelFull' \in BOOLEAN
  PROVE  IInv' /\ Tended(req', retryQ') /\ \A j \in IOs : Adrift(io'[j]) => Adrift(io[j])
<1>1. /\ io' = io /\ req' = req /\ retryQ' = retryQ /\ xorBufs' = xorBufs /\ baseCh' = baseCh
      /\ disk' = disk /\ crashed' = crashed /\ want' = want /\ clean' = clean
  OBVIOUS
<1>2. Waiting' = Waiting /\ (InOnce(retryQ))' = InOnce(retryQ)
  BY <1>1 DEF Waiting, Members, InOnce
<1>3. (Typed(io, req))' = Typed(io, req) /\ (Linked(io, req, Waiting))' = Linked(io, req, Waiting)
  BY <1>1, <1>2 DEF Typed, Linked, Owned, Loose, Idle, Working, IsWrite
<1>4. (Staged(io, req, Waiting))' = Staged(io, req, Waiting)
  BY <1>1, <1>2 DEF Staged, Stage, Chunking, Xoring, AtXor, Immediate, Working, IsWrite
<1>5. QueueInv'
  BY <1>1, <1>2, <1>3, <1>4 DEF IInv, QueueInv
<1>6. Others'
  BY <1>1 DEF IInv, Others, Redundant
<1>7. Tended(req', retryQ')
  BY <1>1 DEF Tended, Stalled
<1>8. QED
  BY <1>1, <1>5, <1>6, <1>7 DEF IInv

\* What every step keeps, and the one way it leaves an I/O to itself.
LEMMA NextIInv ==
  ASSUME Tame, IInv, [Next]_vars
  PROVE  IInv' /\ Tended(req', retryQ') /\ \A j \in IOs : Adrift(io'[j]) => Adrift(io[j]) \/ Drifts(j)
<1> DEFINE Calm == \A j \in IOs : Adrift(io'[j]) => Adrift(io[j]) \/ Drifts(j)
           Fine == /\ QueueInv' /\ Tended(req', retryQ') /\ xorBufs' \in Reqs \cup {xorBufs} /\ Calm
                   /\ disk' \in [Stripes -> [Chunks -> Bits]]
                   /\ baseCh' \subseteq Chunks /\ Redundant'
<1>1. /\ xorBufs \in Reqs \cup {None} /\ baseCh \subseteq Chunks /\ Redundant
      /\ disk \in [Stripes -> [Chunks -> Bits]]
      /\ want \in [Stripes -> StripeData \cup {Unknown}] /\ clean \subseteq IOs
      /\ accelFull \in BOOLEAN
  BY DEF IInv, Others
<1>2. Keeps => Calm
  BY DEF Keeps, Calmer
<1> HIDE DEF Calm
<1>3. UNCHANGED baseCh => Redundant' /\ baseCh' \subseteq Chunks
  BY <1>1 DEF Redundant
<1>4. Keeps /\ UNCHANGED <<baseCh, disk>> => Fine
  BY <1>1, <1>2, <1>3 DEF Keeps
<1>5. Fine /\ History /\ UNCHANGED accelFull => IInv' /\ Tended(req', retryQ') /\ Calm
  <2>1. SUFFICES ASSUME Fine, History, UNCHANGED accelFull  PROVE IInv'
    OBVIOUS
  <2>2. io' \in [IOs -> IoRecord]
    BY <2>1 DEF QueueInv, Typed
  <2>3. want' \in [Stripes -> StripeData \cup {Unknown}] /\ clean' \subseteq IOs
    BY <2>1, <2>2, <1>1, HistoryTyped
  <2>4. xorBufs' \in Reqs \cup {None}
    BY <2>1, <1>1
  <2>5. QED
    BY <2>1, <2>3, <2>4 DEF IInv, Others
<1>6. ASSUME NEW i \in IOs, Step(Submit(i))  PROVE Fine /\ History /\ UNCHANGED accelFull
  BY <1>4, <1>6, SubmitKeeps DEF Step
<1>7. ASSUME NEW i \in IOs, Step(Resubmit(i))  PROVE Fine /\ History /\ UNCHANGED accelFull
  BY <1>4, <1>7, ResubmitKeeps DEF Step
<1>8. ASSUME NEW i \in IOs, Step(IoStep(i))  PROVE Fine /\ History /\ UNCHANGED accelFull
  <2>1. crashed = "no" /\ History /\ UNCHANGED accelFull /\ IoStep(i)
    BY <1>8 DEF Step
  <2>2. CASE RetryRw(i)
    BY <2>1, <2>2, <1>4, RetryRwKeeps
  <2>3. CASE RetryChunks(i)
    BY <2>1, <2>3, <1>4, RetryChunksKeeps
  <2>4. ASSUME NEW success \in BOOLEAN, DirectReadComplete(i, success)  PROVE Fine
    <3>1. /\ UNCHANGED <<baseCh, disk>> /\ QueueInv' /\ Tended(req', retryQ')
          /\ xorBufs' \in Reqs \cup {xorBufs} /\ Calm
      BY <2>1, <2>4, DirectReadKeeps DEF Calm
    <3>2. QED
      BY <3>1, <1>1, <1>3
  <2>5. QED
    BY <2>1, <2>2, <2>3, <2>4 DEF IoStep
<1>9. ASSUME NEW r \in Reqs, Step(ReqStep(r))  PROVE Fine /\ History /\ UNCHANGED accelFull
  <2>1. crashed = "no" /\ History /\ UNCHANGED accelFull /\ ReqStep(r)
    BY <1>9 DEF Step
  <2>2. PICK success \in BOOLEAN : \/ \E c \in Chunks : ChunkComplete(r, c, success)
                                   \/ XorTaskDone(r, success)
                                   \/ XorMdDone(r, success)
    BY <2>1 DEF ReqStep
  <2>3. ASSUME NEW c \in Chunks, ChunkComplete(r, c, success)  PROVE Fine
    <3>1. Keeps /\ UNCHANGED baseCh /\ disk' \in [Stripes -> [Chunks -> Bits]]
      BY <2>1, <2>3, ChunkCompleteKeeps
    <3>2. QED
      BY <3>1, <1>2, <1>3 DEF Keeps
  <2>4. CASE XorTaskDone(r, success)
    BY <2>1, <2>4, <1>4, XorTaskDoneKeeps
  <2>5. CASE XorMdDone(r, success)
    BY <2>1, <2>5, <1>4, XorMdDoneKeeps
  <2>6. QED
    BY <2>1, <2>2, <2>3, <2>4, <2>5
<1>10. ASSUME NEW c \in Removable, Step(RemoveBase(c))  PROVE Fine /\ History /\ UNCHANGED accelFull
  <2>1. Keeps /\ UNCHANGED disk /\ Redundant' /\ baseCh' \subseteq Chunks /\ History
        /\ UNCHANGED accelFull
    BY <1>10, RemoveBaseKeeps DEF Step
  <2>2. QED
    BY <2>1, <1>1, <1>2 DEF Keeps
<1>11. CASE OthersUseAccel \/ UNCHANGED vars
  <2>1. /\ UNCHANGED <<io, req, retryQ, xorBufs, baseCh, disk, crashed, want, clean>>
        /\ accelFull' \in BOOLEAN
    BY <1>1, <1>11 DEF OthersUseAccel, vars
  <2>2. QED
    BY <2>1, OthersKeep
<1>12. QED
  <2>1. CASE Next /\ ~OthersUseAccel
    BY <2>1, <1>5, <1>6, <1>7, <1>8, <1>9, <1>10 DEF Next, Calm
  <2>2. QED
    BY <2>1, <1>11

\* No callback of the channel disturbs the invariant.
THEOREM Inductive == ASSUME Tame PROVE Spec => []IInv
<1>1. IInv /\ [Next]_vars => IInv'
  BY NextIInv
<1>2. QED
  BY <1>1, InitIInv, PTL DEF Spec

-----------------------------------------------------------------------------
(* What follows from it.                                                    *)

\* The fields of the I/Os and stripe requests, the retry queue and the base bdevs
\* keep to their ranges; base_bdev_io_remaining in particular never falls below 0.
THEOREM Types == ASSUME Tame PROVE Spec => []TypeOK
<1>1. IInv => TypeOK
  BY DEF IInv, QueueInv, Others, Typed, InOnce, TypeOK
<1>2. QED
  BY <1>1, Inductive, PTL

\* raid5f_stripe_request_release is reached once for each request that was taken,
\* and by none that an I/O, a callback or the retry queue still refers to.
THEOREM RequestsAreOwned == ASSUME Tame PROVE Spec => []RequestOwnership
<1>1. ASSUME IInv  PROVE RequestOwnership
  <2>1. Typed(io, req) /\ Linked(io, req, Waiting) /\ InOnce(retryQ) /\ None \notin Reqs
    BY <1>1, PoolAssumption DEF IInv, QueueInv, Reqs
  <2>2. ASSUME NEW r \in Reqs
        PROVE  IF req[r].free THEN ~Driven(r) /\ \A i \in IOs : io[i].sr # r
               ELSE io[req[r].io].ph = "active" /\ io[req[r].io].sr = r
    <3>1. CASE req[r].free
      <4>1. Idle(req[r]) /\ r \notin Waiting
        BY <3>1, <2>1 DEF Linked
      <4>2. ~Driven(r)
        BY <4>1 DEF Driven, Queued, Idle, Working, Waiting, Members
      <4>3. \A i \in IOs : io[i].sr # r
        BY <3>1, <2>1 DEF Linked
      <4>4. QED
        BY <3>1, <4>2, <4>3
    <3>2. CASE ~req[r].free
      BY <3>2, <2>1 DEF Linked, Owned
    <3>3. QED
      BY <3>1, <3>2
  <2>3. ASSUME NEW r \in Reqs  PROVE Cardinality({j \in 1 .. Len(retryQ) : retryQ[j] = r}) <= 1
    <3> DEFINE S == {j \in 1 .. Len(retryQ) : retryQ[j] = r}
    <3>1. \A j, k \in S : j = k
      BY <2>1 DEF InOnce
    <3> HIDE DEF S
    <3>2. CASE S = {}
      <4>1. Cardinality(S) = 0
        BY <3>2, FS_EmptySet
      <4>2. QED
        BY <4>1 DEF S
    <3>3. CASE S # {}
      <4>1. PICK j \in S : S = {j}
        BY <3>1, <3>3
      <4>2. Cardinality(S) = 1
        BY <4>1, FS_Singleton
      <4>3. QED
        BY <4>2 DEF S
    <3>4. QED
      BY <3>2, <3>3
  <2>4. QED
    BY <2>2, <2>3 DEF RequestOwnership
<1>2. QED
  BY <1>1, Inductive, PTL

\* base_bdev_io_remaining is what is still to come for the stripe, and the assertion
\* of raid_bdev_io_complete_part (bdev_raid.c:328) cannot fail.
THEOREM RemainingAlwaysExact == ASSUME Tame PROVE Spec => []RemainingIsExact
<1>1. ASSUME IInv  PROVE RemainingIsExact
  <2>1. crashed # "assert"
    BY <1>1 DEF IInv, QueueInv
  <2>2. ASSUME crashed = "no", NEW r \in Reqs, ~req[r].free
        PROVE  LET x     == io[req[r].io]
                   over  == x.sub > 0 /\ x.pend # "chunks"
                   ahead == Cardinality(req[r].out) + IF over THEN 0 ELSE NumBaseBdevs - x.sub
               IN  x.rem = IF ahead = 0 /\ ~IsWrite(x) THEN 1 ELSE ahead
    <3> DEFINE q == req[r]
               x == io[q.io]
    <3>1. AtHand(q.io, r, x, q) /\ Stage(q, x, r \in Waiting)
      BY <1>1, <2>2, AtWork DEF IInv
    <3>2. /\ x \in IoRecord /\ q \in ReqRecord /\ x.pend \in {"none", "chunks"}
          /\ Cardinality(q.out) \in Nat /\ NumBaseBdevs \in Nat /\ NumBaseBdevs >= 3
          /\ x.sub \in 0 .. NumBaseBdevs
      BY <3>1, Geometry DEF AtHand, Owned, IoRecord, ReqRecord
    <3> HIDE DEF q, x
    <3>3. CASE Chunking(q, x)
      BY <3>2, <3>3 DEF Chunking, q, x
    <3>4. CASE Xoring(q, x, r \in Waiting)
      <4>1. Cardinality(q.out) = 0
        BY <3>4, FS_EmptySet DEF Xoring, AtXor
      <4>2. QED
        BY <3>2, <3>4, <4>1 DEF Xoring, AtXor, q, x
    <3>5. QED
      BY <3>1, <3>3, <3>4 DEF Stage
  <2>3. QED
    BY <2>1, <2>2 DEF RemainingIsExact
<1>2. QED
  BY <1>1, Inductive, PTL

\* raid5f_xor_stripe_done and raid5f_xor_stripe_continue leave requests in
\* xor_retry_queue without a xor under way only when the other users of the thread's
\* accel channel have left this channel no task of it.
THEOREM StallsAreForced == ASSUME Tame PROVE Spec => StallsOnlyWhenFull
<1>1. ASSUME Tame, IInv, [Next]_vars  PROVE ~Stalled /\ Stalled' => accelFull
  BY <1>1, NextIInv DEF Tended, Stalled, Busy
<1>2. QED
  BY <1>1, Inductive, PTL DEF Spec, StallsOnlyWhenFull

\* An I/O nobody waits for owns no stripe request.
NoneLost == \A i \in IOs : crashed = "no" /\ Lost(i) => Adrift(io[i])

LEMMA NoneIsLost ==
  ASSUME IInv
  PROVE  NoneLost
<1>1. SUFFICES ASSUME NEW i \in IOs, crashed = "no", Lost(i), io[i].sr # None  PROVE FALSE
  BY DEF NoneLost, Lost, Adrift
<1> DEFINE r == io[i].sr
<1>2. r \in Reqs /\ ~req[r].free /\ req[r].io = i
  BY <1>1 DEF IInv, QueueInv, Typed, Linked, IoRecord
<1>3. AtHand(i, r, io[i], req[r]) /\ Stage(req[r], io[i], r \in Waiting)
  BY <1>1, <1>2, AtWork DEF IInv
<1>4. io[i].pend = "none" /\ ~Driven(r)
  BY <1>1 DEF Lost
<1>5. req[r].out = {} /\ ~Working(req[r]) /\ r \notin Waiting
  BY <1>4 DEF Driven, Queued, Working, Waiting, Members
<1>6. ~Chunking(req[r], io[i])
  <2>1. Cardinality(req[r].out) = 0
    BY <1>5, FS_EmptySet
  <2>2. QED
    BY <1>4, <2>1 DEF Chunking
<1>7. ~Xoring(req[r], io[i], r \in Waiting)
  <2>1. req[r].task \in BOOLEAN
    BY <1>3 DEF AtHand, ReqRecord
  <2>2. QED
    BY <1>5, <2>1 DEF Xoring, Working
<1>8. QED
  BY <1>3, <1>6, <1>7 DEF Stage

\* The only I/O nobody will call back is one whose direct read ended without a
\* request for its verification: raid5f_chunk_read_complete drops the value that
\* says so.
THEOREM LossIsTold == ASSUME Tame PROVE Spec => LostAtDirectRead
<1>1. IInv => NoneLost
  BY NoneIsLost
<1>2. ASSUME IInv, NoneLost', [Next]_vars
      PROVE  [\A i \in IOs : crashed' = "no" /\ Lost(i)' /\ ~Lost(i)
                => io[i].pend = "direct" /\ NoMemory(ReconReqs)]_vars
  <2>1. ASSUME NEW i \in IOs, crashed' = "no", Lost(i)', ~Lost(i)
        PROVE  io[i].pend = "direct" /\ NoMemory(ReconReqs)
    <3>1. Adrift(io'[i])
      BY <1>2, <2>1 DEF NoneLost, Adrift
    <3>2. Adrift(io[i]) \/ Drifts(i)
      BY <1>2, <3>1, NextIInv
    <3>3. ~Adrift(io[i])
      BY <2>1 DEF Adrift, Lost
    <3>4. QED
      BY <3>2, <3>3 DEF Drifts
  <2>2. QED
    BY <2>1
<1>3. QED
  BY <1>1, <1>2, Inductive, PTL DEF Spec, LostAtDirectRead

-----------------------------------------------------------------------------
(* The contents.                                                            *)

\* What chunk c of stripe s holds when w is written there.
ParityOf(w)    == Cardinality({d \in DataIdx : w[d] = 1}) % 2
Right(s, w, c) == IF c = ParityIndex(s) THEN ParityOf(w) ELSE w[DataOf(s, c)]

\* The slots but for that of the parity, and the data chunks, are each other's.
LEMMA DataSlots ==
  ASSUME NEW s \in Stripes
  PROVE  /\ \A c \in Chunks \ {ParityIndex(s)} : DataOf(s, c) \in DataIdx /\ ChunkIndex(s, DataOf(s, c)) = c
         /\ \A d \in DataIdx : ChunkIndex(s, d) \in Chunks \ {ParityIndex(s)} /\ DataOf(s, ChunkIndex(s, d)) = d
<1> DEFINE P == ParityIndex(s)
<1>1. 0 \in DataIdx
  BY Geometry DEF DataIdx, DataChunksNum
<1>2. P \in Chunks /\ NumBaseBdevs \in Nat
  BY <1>1, Geometry
<1> HIDE DEF P
<1>3. \A c \in Chunks \ {P} : /\ (IF c < P THEN c ELSE c - 1) \in DataIdx
                              /\ (IF (IF c < P THEN c ELSE c - 1) < P THEN (IF c < P THEN c ELSE c - 1)
                                  ELSE (IF c < P THEN c ELSE c - 1) + 1) = c
  BY <1>2 DEF Chunks, DataIdx, DataChunksNum
<1>4. \A d \in DataIdx : /\ (IF d < P THEN d ELSE d + 1) \in Chunks \ {P}
                         /\ (IF (IF d < P THEN d ELSE d + 1) < P THEN (IF d < P THEN d ELSE d + 1)
                             ELSE (IF d < P THEN d ELSE d + 1) - 1) = d
  BY <1>2 DEF Chunks, DataIdx, DataChunksNum
<1>5. QED
  BY <1>3, <1>4 DEF P, ChunkIndex, DataOf

LEMMA SlotsOfData ==
  ASSUME NEW s \in Stripes, NEW D \in SUBSET DataIdx
  PROVE  Cardinality({c \in Chunks \ {ParityIndex(s)} : DataOf(s, c) \in D}) = Cardinality(D)
<1> DEFINE C == {c \in Chunks \ {ParityIndex(s)} : DataOf(s, c) \in D}
           f == [c \in C |-> DataOf(s, c)]
<1>1. C \in SUBSET Chunks
  OBVIOUS
<1>2. f \in [C -> D]
  OBVIOUS
<1>3. \A a, b \in C : f[a] = f[b] => a = b
  BY DataSlots
<1>4. \A d \in D : \E c \in C : f[c] = d
  <2> SUFFICES ASSUME NEW d \in D PROVE \E c \in C : f[c] = d
    OBVIOUS
  <2>1. ChunkIndex(s, d) \in C /\ DataOf(s, ChunkIndex(s, d)) = d
    BY DataSlots
  <2> QED
    BY <2>1
<1> HIDE DEF C, f
<1>5. f \in Bijection(C, D)
  BY <1>2, <1>3, <1>4 DEF Bijection, Injection, Surjection, IsInjective
<1>6. ExistsBijection(C, D)
  BY <1>5 DEF ExistsBijection
<1>7. IsFiniteSet(C)
  BY <1>1, Geometry
<1>8. Cardinality(D) = Cardinality(C)
  BY <1>6, <1>7, FS_Bijection
<1>9. QED
  BY <1>8 DEF C

LEMMA DataFinite ==
  \A D \in SUBSET DataIdx : IsFiniteSet(D) /\ Cardinality(D) \in Nat
<1>1. \A d \in DataIdx : d \in Chunks
  BY Geometry DEF DataIdx, DataChunksNum, Chunks
<1>2. QED
  BY <1>1, Geometry

LEMMA ParityIsBit ==
  ASSUME NEW w
  PROVE  ParityOf(w) \in Bits
<1> DEFINE n == Cardinality({d \in DataIdx : w[d] = 1})
<1>1. n \in Nat
  BY DataFinite
<1> HIDE DEF n
<1>2. n % 2 \in 0 .. 1
  BY <1>1
<1>3. QED
  BY <1>2 DEF ParityOf, Bits, n

\* The xor of the data chunks is their parity ...
LEMMA XorIsParity ==
  ASSUME NEW s \in Stripes, NEW w, NEW f, \A c \in Chunks \ {ParityIndex(s)} : f[c] = Right(s, w, c)
  PROVE  Xor(f, Chunks \ {ParityIndex(s)}) = ParityOf(w)
<1> DEFINE W == {d \in DataIdx : w[d] = 1}
<1>1. {c \in Chunks \ {ParityIndex(s)} : f[c] = 1} = {c \in Chunks \ {ParityIndex(s)} : DataOf(s, c) \in W}
  BY DataSlots DEF Right
<1>2. W \in SUBSET DataIdx
  OBVIOUS
<1> HIDE DEF W
<1>3. Cardinality({c \in Chunks \ {ParityIndex(s)} : DataOf(s, c) \in W}) = Cardinality(W)
  BY <1>2, SlotsOfData
<1>4. QED
  BY <1>1, <1>3 DEF Xor, ParityOf, W

\* ... and with the parity it rebuilds the chunk left out.
LEMMA XorRebuilds ==
  ASSUME NEW s \in Stripes, NEW w \in StripeData, NEW d \in DataIdx, NEW f,
         \A c \in Chunks \ {ChunkIndex(s, d)} : f[c] = Right(s, w, c)
  PROVE  Xor(f, Chunks \ {ChunkIndex(s, d)}) = w[d]
<1> DEFINE P == ParityIndex(s)
           t == ChunkIndex(s, d)
           W == {e \in DataIdx : w[e] = 1}
           A == {c \in Chunks \ {P} : DataOf(s, c) \in W \ {d}}
           X == {c \in Chunks \ {t} : f[c] = 1}
<1>1. t \in Chunks /\ t # P /\ DataOf(s, t) = d /\ P \in Chunks
  <2>1. P \in Chunks
    BY Geometry
  <2>2. QED
    BY <2>1, DataSlots
<1>2. W \in SUBSET DataIdx /\ W \ {d} \in SUBSET DataIdx
  OBVIOUS
<1>3. IsFiniteSet(W) /\ Cardinality(W) \in Nat /\ Cardinality(W \ {d}) \in Nat
  BY <1>2, DataFinite
<1>4. Cardinality(W \ {d}) = IF w[d] = 1 THEN Cardinality(W) - 1 ELSE Cardinality(W)
  <2>1. d \in W <=> w[d] = 1
    OBVIOUS
  <2> HIDE DEF W
  <2>2. QED
    BY <2>1, <1>3, FS_RemoveElement
<1>5. Cardinality(A) = Cardinality(W \ {d})
  <2> HIDE DEF W
  <2>1. QED
    BY <1>2, SlotsOfData
<1>6. A \in SUBSET Chunks /\ P \notin A
  OBVIOUS
<1>7. IsFiniteSet(A)
  BY <1>6, Geometry
<1>8. \A c \in Chunks \ {P} : c # t <=> DataOf(s, c) # d
  BY <1>1, DataSlots
<1>9. X \ {P} = A
  <2>1. \A c \in Chunks \ {P, t} : f[c] = w[DataOf(s, c)] /\ DataOf(s, c) \in DataIdx
    BY DataSlots DEF Right
  <2>2. \A c \in Chunks \ {P} : c # t /\ f[c] = 1 <=> DataOf(s, c) \in W \ {d}
    BY <2>1, <1>8, DataSlots
  <2>3. QED
    BY <2>2
<1>10. P \in X <=> ParityOf(w) = 1
  BY <1>1 DEF Right
<1>11. w[d] \in Bits
  BY DEF StripeData
<1>12. ParityOf(w) = Cardinality(W) % 2
  BY DEF ParityOf
<1>13. ParityOf(w) \in Bits
  BY ParityIsBit
<1>14. Cardinality(X) = IF ParityOf(w) = 1 THEN Cardinality(A) + 1 ELSE Cardinality(A)
  <2> HIDE DEF A, P, t, W
  <2>1. CASE ParityOf(w) = 1
    <3>1. X = A \cup {P}
      BY <2>1, <1>9, <1>10
    <3> HIDE DEF X
    <3>2. QED
      BY <3>1, <2>1, <1>6, <1>7, FS_AddElement
  <2>2. CASE ParityOf(w) # 1
    <3>1. X = A
      BY <2>2, <1>9, <1>10
    <3>2. QED
      BY <3>1, <2>2
  <2>3. QED
    BY <2>1, <2>2
<1> DEFINE n == Cardinality(W)
           x == Cardinality(X)
<1>15. n \in Nat
  BY <1>3
<1>16. x = (IF w[d] = 1 THEN n - 1 ELSE n) + (IF n % 2 = 1 THEN 1 ELSE 0)
  <2> HIDE DEF W, X, A, n, P, t
  <2>1. x = IF n % 2 = 1 THEN Cardinality(A) + 1 ELSE Cardinality(A)
    BY <1>14, <1>12 DEF n
  <2>2. Cardinality(A) = IF w[d] = 1 THEN n - 1 ELSE n
    BY <1>4, <1>5 DEF n
  <2> HIDE DEF x
  <2>3. QED
    BY <2>1, <2>2, <1>15
<1> HIDE DEF n, x
<1>17. x % 2 = w[d]
  BY <1>11, <1>15, <1>16 DEF Bits
<1>18. QED
  BY <1>17 DEF Xor, X, t, x

\* Nothing that spoils the contents of a stripe: the fault injection, and a xor
\* that waited for the accel framework and takes the buffers of another one
\* (raid5f.c:289).
Pure == Tame /\ "accel_nomem" \notin Faults /\ "poison" \notin Faults

\* What is asked of an I/O does not change while it is in the module.
Same(x, y) == x.type = y.type /\ x.s = y.s /\ x.d = y.d /\ x.data = y.data

\* What the contents are held against, for an I/O: whether it runs without a
\* conflict (sure), what the base bdevs hold of its stripe (row), and what is
\* wanted there (w).
Views == [sure : BOOLEAN, row : [Chunks -> Bits], w : StripeData \cup {Unknown}]

\* The chunks of a write that were submitted and have ended are on the base
\* bdevs; those of a reconstruct read are in the buffers of the request.
LaidSoFar(q, x, row) ==
  x.status = "success" =>
    \A c \in (baseCh \cap (0 .. x.sub - 1)) \ q.out : row[c] = Right(x.s, x.data, c)

ReadSoFar(q, x, w) ==
  \A c \in (0 .. x.sub - 1) \ (q.out \cup {q.target}) : q.buf[c] = Right(x.s, w, c)

DataThere(q, x) == \A c \in Chunks \ {ParityIndex(x.s)} : q.buf[c] = Right(x.s, x.data, c)

Fit(q, x, v) ==
  /\ q.own /\ q.out \subseteq baseCh
  /\ IF IsWrite(x) THEN DataThere(q, x) /\ (v.sure => LaidSoFar(q, x, v.row))
     ELSE v.sure /\ v.w # Unknown => ReadSoFar(q, x, v.w)

\* The xor is done: the parity is there, or the chunk that was missing.
Xored(q, x, v) ==
  IF IsWrite(x) THEN ParityIndex(x.s) \in baseCh => q.buf[ParityIndex(x.s)] = ParityOf(x.data)
  ELSE v.sure /\ v.w # Unknown => x.buf = v.w[x.d]

Holds(q, x, v) ==
  /\ Fit(q, x, v)
  /\ Working(q) /\ q.seg = 0 => Xored(q, x, v)
  /\ ~Working(q) /\ IsWrite(x) =>
       Xored(q, x, v) /\ (x.status = "success" /\ x.pend = "none" => x.sub = NumBaseBdevs)

\* What its success tells the user of an I/O.
Told(x, v) ==
  IF IsWrite(x) THEN v.sure => \A c \in baseCh : v.row[c] = Right(x.s, x.data, c)
  ELSE v.sure /\ v.w # Unknown => x.buf = v.w[x.d]

Succeeds(x) == x.ph = "done" /\ x.res = "success"

\* What a handler leaves of I/O x.
Yields(x, v, p) ==
  /\ p.enq = FALSE
  /\ Same(p.x, x)
  /\ Succeeds(p.x) => Told(p.x, v)
  /\ ~p.q.free /\ p.crash = "no" => Holds(p.q, p.x, v)

-----------------------------------------------------------------------------
(* The contents through the handlers.                                       *)

LEMMA CompleteFields ==
  ASSUME NEW x \in IoRecord, NEW st
  PROVE  LET z == Complete(x, st)
         IN  /\ Same(z, x) /\ z.buf = x.buf /\ z.res = st
             /\ z.status = x.status /\ z.sub = x.sub /\ z.pend = "none"
             /\ z.ph = IF st = "nomem" THEN "nomem" ELSE "done"
BY DEF Complete, IoRecord, Same

LEMMA PartFields ==
  ASSUME NEW x \in IoRecord, NEW n, NEW st \in {"success", "failed"}
  PROVE  LET z == CompletePart(x, n, st)
         IN  /\ Same(z, x) /\ z.buf = x.buf /\ z.sub = x.sub /\ z.pend \in {x.pend, "none"}
             /\ z.status = IF st = "success" THEN x.status ELSE st
             /\ z.ph # x.ph => z.res = z.status
<1> DEFINE y == [x EXCEPT !.rem = @ - n, !.status = IF st = "success" THEN @ ELSE st]
           z == CompletePart(x, n, st)
<1>1. /\ Same(y, x) /\ y.buf = x.buf /\ y.sub = x.sub /\ y.pend = x.pend /\ y.ph = x.ph
      /\ y.status = IF st = "success" THEN x.status ELSE st
  BY DEF IoRecord, Same
<1>2. z = y \/ z = Complete(y, y.status)
  BY DEF CompletePart
<1>3. LET c == Complete(y, y.status)
      IN  /\ Same(c, y) /\ c.buf = y.buf /\ c.res = y.status
          /\ c.status = y.status /\ c.sub = y.sub /\ c.pend = "none"
  BY DEF Complete, IoRecord, Same
<1> HIDE DEF y
<1> QED
  BY <1>1, <1>2, <1>3 DEF Same

\* Only some fields of a request matter.
LEMMA FitSame ==
  ASSUME NEW q, NEW x, NEW v, Fit(q, x, v), NEW z, z.own, z.out = q.out, z.buf = q.buf, z.target = q.target
  PROVE  Fit(z, x, v)
BY DEF Fit, DataThere, LaidSoFar, ReadSoFar

LEMMA PassedFields ==
  ASSUME NEW x \in IoRecord, NEW q, NEW k \in 0 .. NumBaseBdevs
  PROVE  LET x1 == PassedIo(x, q, k) IN Same(x1, x) /\ x1.status = x.status /\ x1.buf = x.buf
<1> DEFINE x0   == [x EXCEPT !.sub = k]
           done == (x.sub .. k - 1) \cap Immediate(x, q)
           n    == Cardinality(done)
           z    == CompletePart(x0, n, "success")
<1>1. x0 \in IoRecord /\ Same(x0, x) /\ x0.status = x.status /\ x0.buf = x.buf
  BY DEF IoRecord, Same
<1>2. PassedIo(x, q, k) = x0 \/ PassedIo(x, q, k) = z
  BY DEF PassedIo
<1> HIDE DEF x0, n
<1>3. Same(z, x0) /\ z.status = x0.status /\ z.buf = x0.buf
  BY <1>1, PartFields
<1> HIDE DEF z
<1> QED
  BY <1>1, <1>2, <1>3 DEF Same

LEMMA ChunkRunYields ==
  ASSUME Tame, NEW i, NEW r, NEW x, NEW q, AtHand(i, r, x, q), ToSubmit(q, x),
         NEW v, Fit(q, x, v), IsWrite(x) => Xored(q, x, v), NEW k, NEW o,
         \/ k = NumBaseBdevs /\ o = "ok"
         \/ /\ k \in (x.sub .. NumBaseBdevs - 1) \ Immediate(x, q)
            /\ o = "nomem" \/ (o = "err" /\ IsWrite(x)),
         ~IsWrite(x) => \A c \in x.sub .. k - 1 : c = q.target \/ c \in baseCh
  PROVE  LET p == ChunkRun(x, q, k, o)
         IN  Yields(x, v, p) /\ ~Succeeds(p.x)
<1> DEFINE imm    == Immediate(x, q)
           passed == x.sub .. k - 1
           x1     == PassedIo(x, q, k)
           now    == PassedOut(x, q, k)
           q1     == [q EXCEPT !.out = @ \cup (passed \ imm)]
           left   == NumBaseBdevs - k
           p      == ChunkRun(x, q, k, o)
<1>1. x \in IoRecord /\ q \in ReqRecord /\ x.ph = "active" /\ x.pend = "none" /\ ~q.free
  BY DEF AtHand, Owned, ToSubmit
<1>2. x.sub \in 0 .. NumBaseBdevs /\ NumBaseBdevs \in Nat /\ k \in x.sub .. NumBaseBdevs
      /\ k \in 0 .. NumBaseBdevs
  <2>1. x.sub \in 0 .. NumBaseBdevs /\ NumBaseBdevs \in Nat
    BY <1>1, Geometry DEF IoRecord
  <2>2. QED
    BY <2>1
<1>3. PassedWell(x, q, k)
  BY <1>2, ChunksPassed
<1>4. /\ x1 \in IoRecord /\ x1.ph = "active" /\ x1.pend = "none" /\ x1.sub = k /\ now \in SUBSET Chunks
  BY <1>1, <1>3 DEF PassedWell
<1>5. Same(x1, x) /\ x1.status = x.status /\ x1.buf = x.buf
  BY <1>1, <1>2, PassedFields
<1>6. /\ q1.out = now /\ q1.buf = q.buf /\ q1.own = q.own /\ q1.target = q.target /\ q1.s = q.s
      /\ q1.task = q.task /\ q1.mdTasks = q.mdTasks /\ q1.free = q.free
  BY <1>1 DEF ReqRecord, PassedOut
<1> HIDE DEF x1, q1
<1>7. \A c \in passed \ imm : c \in baseCh
  <2>1. CASE IsWrite(x)
    <3>1. \A c \in passed : c \in Chunks
      BY <1>2 DEF Chunks
    <3>2. QED
      BY <2>1, <3>1 DEF Immediate
  <2>2. CASE ~IsWrite(x)
    BY <2>2 DEF Immediate
  <2>3. QED
    BY <2>1, <2>2
<1>8. \A c \in 0 .. k - 1 : c \in 0 .. x.sub - 1 \/ c \in passed
  BY <1>2
<1>9. Fit(q1, x1, v)
  <2>1. q1.own /\ q1.out \subseteq baseCh
    BY <1>6, <1>7 DEF Fit, PassedOut
  <2>2. CASE IsWrite(x)
    <3>1. IsWrite(x1) /\ x1.s = x.s /\ x1.data = x.data
      BY <2>2, <1>5 DEF IsWrite, Same
    <3>2. DataThere(q1, x1)
      BY <2>2, <3>1, <1>6 DEF Fit, DataThere
    <3>3. ASSUME v.sure  PROVE LaidSoFar(q1, x1, v.row)
      <4>1. LaidSoFar(q, x, v.row)
        BY <2>2, <3>3 DEF Fit
      <4>2. \A c \in (baseCh \cap (0 .. k - 1)) \ now : c \in (baseCh \cap (0 .. x.sub - 1)) \ q.out
        BY <2>2, <1>8 DEF PassedOut, Immediate
      <4>3. QED
        BY <4>1, <4>2, <3>1, <1>4, <1>5, <1>6 DEF LaidSoFar
    <3>4. QED
      BY <2>1, <3>1, <3>2, <3>3 DEF Fit
  <2>3. CASE ~IsWrite(x)
    <3>1. ~IsWrite(x1) /\ x1.s = x.s
      BY <2>3, <1>5 DEF IsWrite, Same
    <3>2. ASSUME v.sure, v.w # Unknown  PROVE ReadSoFar(q1, x1, v.w)
      <4>1. ReadSoFar(q, x, v.w)
        BY <2>3, <3>2 DEF Fit
      <4>2. \A c \in (0 .. k - 1) \ (now \cup {q.target}) : c \in (0 .. x.sub - 1) \ (q.out \cup {q.target})
        BY <2>3, <1>8 DEF PassedOut, Immediate
      <4>3. QED
        BY <4>1, <4>2, <3>1, <1>4, <1>6 DEF ReadSoFar
    <3>3. QED
      BY <2>1, <3>1, <3>2 DEF Fit
  <2>4. QED
    BY <2>2, <2>3
<1>10. ~Working(q1)
  BY <1>6 DEF Working, ToSubmit
<1>11. IsWrite(x) => Xored(q1, x1, v) /\ IsWrite(x1)
  BY <1>5, <1>6 DEF Xored, IsWrite, Same
<1> HIDE DEF imm, passed, now, left, p
<1>12. CASE o = "ok"
  <2>1. p = Result(x1, q1) /\ k = NumBaseBdevs
    BY <1>12 DEF ChunkRun, PassedIo, x1, q1, passed, imm, p
  <2>2. Holds(q1, x1, v)
    BY <2>1, <1>4, <1>5, <1>9, <1>10, <1>11 DEF Holds, IsWrite, Same
  <2>3. p.x = x1 /\ p.q = q1 /\ p.enq = FALSE
    BY <2>1 DEF Result
  <2>4. QED
    BY <2>2, <2>3, <1>4, <1>5 DEF Yields, Succeeds, p
<1>13. CASE o = "nomem"
  <2> DEFINE y == [x1 EXCEPT !.pend = "chunks"]
  <2>1. p = Result(y, q1)
    BY <1>13 DEF ChunkRun, PassedIo, x1, q1, passed, imm, p
  <2>2. /\ Same(y, x1) /\ y.pend = "chunks" /\ y.ph = "active" /\ y.sub = x1.sub /\ y.status = x1.status
        /\ y.buf = x1.buf
    BY <1>4 DEF IoRecord, Same
  <2> HIDE DEF y
  <2>3. Holds(q1, y, v)
    <3>1. Fit(q1, y, v) /\ (IsWrite(y) => Xored(q1, y, v))
      BY <2>2, <1>5, <1>9, <1>11 DEF Fit, DataThere, LaidSoFar, ReadSoFar, Xored, IsWrite, Same
    <3>2. QED
      BY <3>1, <2>2, <1>10 DEF Holds
  <2>4. p.x = y /\ p.q = q1 /\ p.enq = FALSE
    BY <2>1 DEF Result
  <2>5. Same(y, x)
    BY <2>2, <1>5 DEF Same
  <2>6. QED
    BY <2>2, <2>3, <2>4, <2>5 DEF Yields, Succeeds, p
<1>14. CASE o = "err"
  <2> DEFINE y == CompletePart(x1, left, "failed")
             z == IF y.ph = "done" THEN Release(q1) ELSE q1
  <2>1. p = Result(y, z)
    BY <1>14 DEF ChunkRun, PassedIo, x1, q1, passed, imm, left, p
  <2>2. /\ Same(y, x1) /\ y.sub = x1.sub /\ y.status = "failed"
        /\ y.ph # x1.ph => y.res = "failed"
    BY <1>4, PartFields
  <2>3. Same(y, x) /\ IsWrite(x)
    BY <2>2, <1>5, <1>14 DEF Same
  <2> HIDE DEF y
  <2>4. y.ph # "done" => Holds(q1, y, v)
    <3>1. Fit(q1, y, v) /\ Xored(q1, y, v)
      BY <2>2, <2>3, <1>9, <1>11 DEF Fit, DataThere, LaidSoFar, Xored, IsWrite, Same
    <3>2. QED
      BY <3>1, <2>2, <1>10 DEF Holds
  <2>5. y.ph = "done" => z.free
    BY <1>1, <1>6 DEF Release, q1, ReqRecord
  <2>6. y.ph # "done" => z = q1
    OBVIOUS
  <2> HIDE DEF z
  <2>7. p.x = y /\ p.q = z /\ p.enq = FALSE
    BY <2>1 DEF Result
  <2>8. QED
    BY <2>2, <2>3, <2>4, <2>5, <2>6, <2>7, <1>4 DEF Yields, Succeeds, p
<1>15. QED
  BY <1>12, <1>13, <1>14

\* raid5f_stripe_request_submit_chunks: no chunk of a write is changed on its way,
\* and nothing is read from a missing base bdev.
LEMMA SubmitChunksYields ==
  ASSUME Pure, NEW i, NEW r, NEW x, NEW q, AtHand(i, r, x, q), ToSubmit(q, x),
         NEW v, Fit(q, x, v), IsWrite(x) => Xored(q, x, v),
         NEW waited, NEW p \in SubmitChunks(x, q, waited)
  PROVE  Yields(x, v, p) /\ ~Succeeds(p.x)
<1> DEFINE null == NullChannels(x, q)
           dead == [Result(x, q) EXCEPT !.crash = "null_channel"]
<1>1. x.ph = "active" /\ Tame /\ \A k : Poisoned(x, q, k) = {q}
  BY DEF AtHand, Owned, Pure, Poisoned
<1>2. x.sub \in 0 .. NumBaseBdevs /\ NumBaseBdevs \in Nat
  BY Geometry DEF AtHand, IoRecord
<1>3. CASE p = dead
  <2>1. p.x = x /\ p.enq = FALSE /\ p.crash = "null_channel"
    BY <1>3 DEF Result
  <2>2. QED
    BY <2>1, <1>1 DEF Yields, Succeeds, Same
<1>4. ASSUME NEW e \in LoopEnds(x, q, waited), NEW h \in Poisoned(x, q, e[1]), p = ChunkRun(x, h, e[1], e[2])
      PROVE  Yields(x, v, p) /\ ~Succeeds(p.x)
  <2> DEFINE k == e[1]
             o == e[2]
  <2>1. h = q /\ p = ChunkRun(x, q, k, o)
    BY <1>1, <1>4
  <2>2. \/ k = NumBaseBdevs /\ o = "ok" /\ null = {}
        \/ /\ k \in (x.sub .. NumBaseBdevs - 1) \ Immediate(x, q)
           /\ o = "nomem" \/ (o = "err" /\ IsWrite(x))
           /\ \A c \in null : k < c
    <3>1. CASE e = <<NumBaseBdevs, "ok">> /\ null = {}
      <4>1. e[1] = NumBaseBdevs /\ e[2] = "ok"
        BY <3>1
      <4>2. QED
        BY <3>1, <4>1
    <3>2. CASE /\ e \in ((x.sub .. NumBaseBdevs - 1) \ Immediate(x, q))
                          \X {w \in {"nomem", "err"} : SubmitError(x, w) \in Faults}
               /\ \A c \in null : e[1] < c
      <4>1. e[2] = "nomem" \/ (e[2] = "err" /\ IsWrite(x))
        BY <3>2, <1>1 DEF Tame, SubmitError
      <4>2. QED
        BY <3>2, <4>1
    <3>3. QED
      BY <1>4, <3>1, <3>2 DEF LoopEnds
  <2> HIDE DEF k, o, null
  <2>3. ASSUME ~IsWrite(x), NEW c \in x.sub .. k - 1, c # q.target
        PROVE  c \in baseCh
    <3>1. SUFFICES ASSUME c \notin baseCh  PROVE FALSE
      OBVIOUS
    <3>2. k \in Nat /\ k <= NumBaseBdevs /\ c \in x.sub .. NumBaseBdevs - 1 /\ c < k
      BY <1>2, <2>2, <2>3
    <3>3. c \in null
      BY <3>1, <3>2, <2>3 DEF null, NullChannels
    <3>4. k < c
      BY <3>3, <2>2
    <3>5. c \in Nat
      BY <1>2, <3>2
    <3>6. QED
      BY <3>2, <3>4, <3>5
  <2>4. Yields(x, v, ChunkRun(x, q, k, o)) /\ ~Succeeds(ChunkRun(x, q, k, o).x)
    BY <1>1, <2>2, <2>3, ChunkRunYields
  <2>5. QED
    BY <2>1, <2>4
<1>5. QED
  <2>1. CASE \E e \in LoopEnds(x, q, waited) :
               \E h \in Poisoned(x, q, e[1]) : p = ChunkRun(x, h, e[1], e[2])
    BY <2>1, <1>4
  <2>2. CASE p = dead
    BY <2>2, <1>3
  <2>3. QED
    BY <2>1, <2>2 DEF SubmitChunks

\* raid5f_xor_stripe_done: it submits a stripe whose parity is there, or hands out
\* the chunk that was missing.
LEMMA XorDoneYields ==
  ASSUME Pure, Redundant, NEW i, NEW r, NEW x, NEW q, AtHand(i, r, x, q), ~Working(q), AtXor(q, x),
         NEW v, Fit(q, x, v), q.status = "ok" => Xored(q, x, v), NEW p \in XorDone(x, q)
  PROVE  Yields(x, v, p) /\ (Succeeds(p.x) => q.status = "ok")
<1>1. x \in IoRecord /\ q \in ReqRecord /\ x.ph = "active"
  BY DEF AtHand, Owned
<1>2. PICK h : /\ p = [h EXCEPT !.drain = TRUE,
                                 !.crash = IF ~IsWrite(x) /\ x.rem < 1 THEN "assert" ELSE @]
               /\ IF q.status = "ok" /\ IsWrite(x) THEN h \in SubmitChunks(x, q, FALSE)
                  ELSE IF q.status = "ok" THEN h = Result(CompletePart(x, 1, "success"), Release(q))
                  ELSE h = Result(FailXor(x), Release(q))
  BY DEF XorDone
<1>3. p = [h EXCEPT !.drain = TRUE, !.crash = @]
  <2>1. ~(~IsWrite(x) /\ x.rem < 1)
    BY DEF AtXor
  <2>2. QED
    BY <1>2, <2>1
<1>4. CASE q.status = "ok" /\ IsWrite(x)
  <2>1. ToSubmit(q, x)
    BY <1>4, StartToSubmit DEF AtXor
  <2>2. h \in SubmitChunks(x, q, FALSE)
    BY <1>2, <1>4
  <2>3. Good(i, r, h)
    BY <2>1, <2>2, SubmitChunksGood DEF Pure
  <2>4. Yields(x, v, h) /\ ~Succeeds(h.x)
    BY <2>1, <2>2, <1>4, SubmitChunksYields
  <2>5. p.x = h.x /\ p.q = h.q /\ p.enq = h.enq /\ p.crash = h.crash
    BY <1>3, <2>3 DEF Good, Outcome
  <2>6. QED
    BY <2>4, <2>5 DEF Yields
<1>5. CASE ~(q.status = "ok" /\ IsWrite(x))
  <2>1. PICK y : /\ h = Result(y, Release(q))
                 /\ y = IF q.status = "ok" THEN CompletePart(x, 1, "success") ELSE FailXor(x)
    BY <1>2, <1>5
  <2>2. Same(y, x) /\ (Succeeds(y) => q.status = "ok" /\ y.buf = x.buf)
    <3>1. CASE y = Complete(x, "failed")
      BY <3>1, <1>1, CompleteFields DEF Succeeds
    <3>2. CASE y = CompletePart(x, 1, "success") /\ q.status = "ok"
      BY <3>2, <1>1, PartFields
    <3>3. CASE y = CompletePart(x, 1, "failed")
      BY <3>3, <1>1, PartFields DEF Succeeds
    <3>4. QED
      BY <3>1, <3>2, <3>3, <2>1 DEF FailXor
  <2>3. p.x = y /\ p.q = Release(q) /\ p.enq = FALSE
    BY <1>3, <2>1 DEF Result
  <2>4. Release(q).free = TRUE
    BY <1>1 DEF Release, ReqRecord
  <2>5. Succeeds(y) => Told(y, v)
    <3>1. SUFFICES ASSUME Succeeds(y)  PROVE Told(y, v)
      OBVIOUS
    <3>2. ~IsWrite(x) /\ Xored(q, x, v)
      BY <3>1, <2>2, <1>5
    <3>3. ~IsWrite(y) /\ y.d = x.d /\ y.buf = x.buf
      BY <3>1, <3>2, <2>2 DEF IsWrite, Same
    <3>4. QED
      BY <3>2, <3>3 DEF Told, Xored
  <2>6. QED
    BY <2>2, <2>3, <2>4, <2>5 DEF Yields
<1>6. QED
  BY <1>4, <1>5

\* raid5f_xor_stripe_continue
LEMMA XorContinueYields ==
  ASSUME Pure, Redundant, NEW i, NEW r, NEW x, NEW q, AtHand(i, r, x, q), AtXor(q, x),
         q.task = FALSE, q.seg > 0, q.mdTasks = IF q.md THEN 1 ELSE 0,
         NEW v, Fit(q, x, v),
         NEW busy, NEW e \in XorContinue(q, busy), NEW p \in AfterXor(x, e)
  PROVE  Yields(x, v, p) /\ ~Succeeds(p.x)
<1>1. q \in ReqRecord /\ x.ph = "active"
  BY DEF AtHand, Owned
<1>2. CASE e = XorEnd([q EXCEPT !.task = TRUE], "runs")
  <2> DEFINE z == [q EXCEPT !.task = TRUE]
  <2>1. /\ z.task = TRUE /\ z.out = q.out /\ z.buf = q.buf /\ z.own = q.own /\ z.target = q.target
        /\ z.seg = q.seg
    BY <1>1 DEF ReqRecord
  <2>2. p = [x |-> x, q |-> z, enq |-> FALSE, bufs |-> TRUE, drain |-> FALSE, crash |-> "no"]
    BY <1>2 DEF AfterXor, XorEnd, Result
  <2> HIDE DEF z
  <2>3. Fit(z, x, v)
    BY <2>1, FitSame DEF Fit
  <2>4. Holds(z, x, v)
    BY <2>1, <2>3 DEF Holds, Working
  <2>5. QED
    BY <2>2, <2>4, <1>1 DEF Yields, Succeeds, Same
<1>3. CASE e = XorFailed(q) /\ AccelError
  <2>1. ~WithMd /\ ~q.md /\ x \in IoRecord
    BY <1>3 DEF Pure, Tame, AccelError, AtHand
  <2> DEFINE z == [q EXCEPT !.status = "err"]
  <2>2. /\ z \in ReqRecord /\ z.task = q.task /\ z.free = q.free /\ z.io = q.io /\ z.s = q.s
        /\ z.target = q.target /\ z.out = q.out /\ z.mdTasks = q.mdTasks
        /\ z.md = q.md /\ z.status = "err" /\ z.own = q.own /\ z.buf = q.buf
    BY <1>1 DEF ReqRecord
  <2>3. e.q = z /\ e.end = "failed"
    BY <1>3 DEF XorFailed, XorEnd
  <2> HIDE DEF z
  <2>4. AtHand(i, r, x, z) /\ AtXor(z, x) /\ ~Working(z)
    BY <2>1, <2>2 DEF AtHand, AtXor, Owned, Working
  <2>5. Fit(z, x, v)
    BY <2>2, FitSame DEF Fit
  <2>6. PICK h \in XorDone(x, z) : p = [h EXCEPT !.bufs = TRUE]
    BY <2>3 DEF AfterXor
  <2>7. Good(i, r, h)
    BY <2>4, <2>6, XorDoneGood DEF Pure
  <2>8. Yields(x, v, h) /\ ~Succeeds(h.x)
    BY <2>2, <2>4, <2>5, <2>6, XorDoneYields
  <2>9. p.x = h.x /\ p.q = h.q /\ p.enq = h.enq /\ p.crash = h.crash
    BY <2>6, <2>7 DEF Good, Outcome
  <2>10. QED
    BY <2>8, <2>9 DEF Yields
<1>4. QED
  BY <1>2, <1>3 DEF XorContinue, AccelNomem, Pure

\* raid5f_xor_stripe
LEMMA XorStripeYields ==
  ASSUME Pure, Redundant, NEW i, NEW r, NEW x, NEW q, AtHand(i, r, x, q), AtXor(q, x), ~Working(q),
         NEW v, Fit(q, x, v), NEW busy, NEW e \in XorStripe(q, busy), NEW p \in AfterXor(x, e)
  PROVE  Yields(x, v, p) /\ ~Succeeds(p.x)
<1>1. PICK z, b : /\ AtHand(i, r, x, z) /\ AtXor(z, x) /\ Begun(q, z)
                  /\ e \in XorContinue(z, b) /\ (b = busy \/ WithMd)
  BY XorStripeBegins DEF Pure
<1>2. z.task = FALSE /\ z.seg > 0 /\ z.mdTasks = IF z.md THEN 1 ELSE 0
  BY <1>1 DEF Begun
<1>3. Fit(z, x, v)
  BY <1>1, FitSame DEF Begun
<1>4. QED
  BY <1>1, <1>2, <1>3, XorContinueYields

\* The last piece of a xor leaves the parity, or rebuilds the chunk.
LEMMA XorWritesXored ==
  ASSUME NEW i, NEW r, NEW x, NEW q, AtHand(i, r, x, q), AtXor(q, x),
         NEW v \in Views, Fit(q, x, v), NEW w \in XorWrites(x, q)
  PROVE  /\ Fit(w.q, w.x, v) /\ Xored(w.q, w.x, v) /\ Same(w.x, x)
         /\ w.q.status = q.status
<1>1. x \in IoRecord /\ q \in ReqRecord /\ q.s = x.s /\ q.target = ChunkIndex(x.s, x.d)
      /\ x.s \in Stripes /\ x.d \in DataIdx /\ x.data \in StripeData
  BY DEF AtHand, Owned, IoRecord
<1>2. q.own
  BY DEF Fit
<1> DEFINE P == ParityIndex(x.s)
<1>3. P \in Chunks
  BY <1>1, Geometry
<1>4. CASE IsWrite(x)
  <2>1. w = [x |-> x, q |-> [q EXCEPT !.buf[P] = Xor(q.buf, Chunks \ {P})]]
    BY <1>1, <1>2, <1>4 DEF XorWrites, XorResults
  <2>2. DataThere(q, x)
    BY <1>4 DEF Fit
  <2>3. Xor(q.buf, Chunks \ {P}) = ParityOf(x.data)
    BY <2>2, <1>1, XorIsParity DEF DataThere
  <2> DEFINE z == [q EXCEPT !.buf[P] = ParityOf(x.data)]
  <2>4. w.x = x /\ w.q = z
    BY <2>1, <2>3
  <2>5. /\ z.own = q.own /\ z.out = q.out /\ z.target = q.target /\ z.status = q.status
        /\ z.buf = [q.buf EXCEPT ![P] = ParityOf(x.data)]
    BY <1>1 DEF ReqRecord
  <2>6. q.buf \in [Chunks -> Bits]
    BY <1>1 DEF ReqRecord
  <2> HIDE DEF z, P
  <2>7. z.buf[P] = ParityOf(x.data) /\ \A c \in Chunks \ {P} : z.buf[c] = q.buf[c]
    BY <2>5, <2>6, <1>3
  <2>8. Xored(z, x, v)
    BY <2>7, <1>4 DEF Xored, P
  <2>9. Fit(z, x, v)
    BY <2>5, <2>7, <1>4 DEF Fit, DataThere, LaidSoFar, P
  <2>10. QED
    BY <2>4, <2>5, <2>8, <2>9 DEF Same
<1>5. CASE ~IsWrite(x)
  <2> DEFINE t == q.target
             n == Xor(q.buf, Chunks \ {t})
             y == [x EXCEPT !.buf = n]
  <2>1. w.x = y /\ w.q = q
    BY <1>2, <1>5 DEF XorWrites, XorResults
  <2>2. Same(y, x) /\ y.buf = n /\ y.sub = x.sub
    BY <1>1 DEF IoRecord, Same
  <2> HIDE DEF y, n
  <2>3. Fit(q, y, v)
    BY <2>2, <1>5 DEF Fit, ReadSoFar, IsWrite, Same
  <2>4. ASSUME v.sure, v.w # Unknown  PROVE y.buf = v.w[y.d]
    <3>1. ReadSoFar(q, x, v.w) /\ q.out = {} /\ x.sub = NumBaseBdevs
      BY <2>4, <1>5 DEF Fit, AtXor
    <3>2. \A c \in Chunks \ {t} : q.buf[c] = Right(x.s, v.w, c)
      BY <3>1 DEF ReadSoFar, Chunks
    <3>3. v.w \in StripeData
      BY <2>4 DEF Views
    <3>4. n = v.w[x.d]
      BY <3>2, <3>3, <1>1, XorRebuilds DEF n
    <3>5. QED
      BY <3>4, <2>2 DEF Same
  <2>5. QED
    BY <2>1, <2>2, <2>3, <2>4, <1>5 DEF Xored, IsWrite, Same
<1>6. QED
  BY <1>4, <1>5

\* A chunk of a stripe has ended, and is on its base bdev or in the buffers.
LEMMA ChunkDoneYields ==
  ASSUME baseCh \subseteq Chunks, NEW i, NEW r, NEW x, NEW q0, AtHand(i, r, x, q0), Chunking(q0, x), NEW q, NEW c,
         ChunkDone(q0, q, c), NEW st \in {"success", "failed"},
         NEW v, q.own, q.out \subseteq baseCh,
         IsWrite(x) => /\ DataThere(q, x) /\ Xored(q, x, v)
                       /\ st = "success" /\ v.sure => LaidSoFar(q, x, v.row)
                       /\ x.status = "success" /\ x.pend = "none" => x.sub = NumBaseBdevs,
         ~IsWrite(x) => Fit(q, x, v) /\ ~(x.rem = 1 /\ x.status = "success" /\ st = "success"),
         NEW p, p = [Result(CompletePart(x, 1, st), IF x.rem = 1 THEN Release(q) ELSE q) EXCEPT
                       !.crash = IF x.rem < 1 THEN "assert" ELSE "no"]
  PROVE  Yields(x, v, p)
<1> DEFINE y == CompletePart(x, 1, st)
           z == IF x.rem = 1 THEN Release(q) ELSE q
<1>1. /\ AtHand(i, r, x, q) /\ ~Working(q) /\ x.rem \in Nat /\ x.rem >= 1
      /\ x.rem = 1 => q.out = {} /\ x.pend = "none"
  BY ChunkCounted
<1>2. x \in IoRecord /\ q \in ReqRecord /\ x.ph = "active"
  BY <1>1 DEF AtHand, Owned
<1>3. /\ Same(y, x) /\ y.buf = x.buf /\ y.sub = x.sub /\ y.pend \in {x.pend, "none"}
      /\ y.status = IF st = "success" THEN x.status ELSE st
      /\ y.ph # x.ph => y.res = y.status
  BY <1>2, PartFields
<1>4. p = [Result(y, z) EXCEPT !.crash = "no"]
  BY <1>1
<1>5. x.rem > 1 => y.pend = x.pend /\ y.ph = x.ph
  BY <1>1, <1>2, PartResult
<1> HIDE DEF y
<1>6. x.rem = 1 => z.free = TRUE
  BY <1>2 DEF Release, ReqRecord
<1>7. x.rem # 1 => z = q
  OBVIOUS
<1> HIDE DEF z
<1>8. p.x = y /\ p.q = z /\ p.enq = FALSE
  BY <1>4 DEF Result
<1>9. ASSUME x.rem # 1  PROVE Holds(q, y, v)
  <2>1. y.pend = x.pend
    BY <1>1, <1>5, <1>9
  <2>2. CASE IsWrite(x)
    <3>1. IsWrite(y) /\ y.s = x.s /\ y.data = x.data
      BY <2>2, <1>3 DEF IsWrite, Same
    <3>2. DataThere(q, y) /\ Xored(q, y, v)
      BY <2>2, <3>1 DEF DataThere, Xored
    <3>3. v.sure => LaidSoFar(q, y, v.row)
      BY <2>2, <3>1, <1>3 DEF LaidSoFar
    <3>4. y.status = "success" /\ y.pend = "none" => y.sub = NumBaseBdevs
      BY <2>1, <2>2, <1>3
    <3>5. Fit(q, y, v)
      BY <3>1, <3>2, <3>3 DEF Fit
    <3>6. QED
      BY <3>2, <3>4, <3>5, <1>1 DEF Holds
  <2>3. CASE ~IsWrite(x)
    <3>1. ~IsWrite(y) /\ y.s = x.s
      BY <2>3, <1>3 DEF IsWrite, Same
    <3>2. Fit(q, y, v)
      BY <2>3, <3>1, <1>3 DEF Fit, ReadSoFar
    <3>3. QED
      BY <3>1, <3>2, <1>1 DEF Holds
  <2>4. QED
    BY <2>2, <2>3
<1>10. ASSUME Succeeds(y)  PROVE Told(y, v)
  <2>1. y.ph = "done" /\ y.res = "success" /\ x.rem = 1
    BY <1>1, <1>2, <1>5, <1>10 DEF Succeeds
  <2>2. st = "success" /\ x.status = "success"
    BY <2>1, <1>2, <1>3
  <2>3. IsWrite(x) /\ IsWrite(y) /\ y.s = x.s /\ y.data = x.data
    BY <2>1, <2>2, <1>3 DEF IsWrite, Same
  <2>4. q.out = {} /\ x.sub = NumBaseBdevs
    BY <2>1, <2>2, <2>3, <1>1
  <2>5. \A c2 \in baseCh : c2 \in (baseCh \cap (0 .. x.sub - 1)) \ q.out
    BY <2>4 DEF Chunks
  <2>6. v.sure => LaidSoFar(q, x, v.row)
    BY <2>2, <2>3
  <2>7. QED
    BY <2>2, <2>3, <2>5, <2>6 DEF LaidSoFar, Told
<1>11. QED
  BY <1>3, <1>6, <1>7, <1>8, <1>9, <1>10 DEF Yields

LEMMA NotedYields ==
  ASSUME NEW i, NEW r, NEW h, Good(i, r, h), NEW success \in BOOLEAN, NEW p,
         p = [h EXCEPT !.q = IF success THEN @ ELSE [@ EXCEPT !.status = "err"]],
         NEW x, NEW v, Yields(x, v, h)
  PROVE  Yields(x, v, p) /\ p.x = h.x
<1>1. h \in Outcome /\ h.q \in ReqRecord
  BY DEF Good, Outcome
<1> DEFINE z == IF success THEN h.q ELSE [h.q EXCEPT !.status = "err"]
<1>2. /\ z.out = h.q.out /\ z.free = h.q.free /\ z.own = h.q.own /\ z.buf = h.q.buf
      /\ z.target = h.q.target /\ z.task = h.q.task /\ z.mdTasks = h.q.mdTasks /\ z.seg = h.q.seg
  BY <1>1 DEF ReqRecord
<1>3. p = [h EXCEPT !.q = z]
  BY <1>1 DEF Outcome
<1> HIDE DEF z
<1>4. p.q = z /\ p.x = h.x /\ p.enq = h.enq /\ p.crash = h.crash
  BY <1>1, <1>3 DEF Outcome
<1>5. Holds(h.q, h.x, v) => Holds(z, h.x, v)
  BY <1>2, FitSame DEF Holds, Xored, Working, Fit
<1>6. QED
  BY <1>2, <1>4, <1>5 DEF Yields

-----------------------------------------------------------------------------
(* The contents of the channel.                                             *)

ViewOf(i) == [sure |-> i \in clean, row |-> disk[io[i].s], w |-> want[io[i].s]]

ContentsInv ==
  /\ retryQ = << >>
  /\ \A i \in clean, j \in IOs : ~Conflict(io, i, j)
  /\ StripeIsWritten
  /\ crashed = "no" =>
       \A r \in Reqs : ~req[r].free => Holds(req[r], io[req[r].io], ViewOf(req[r].io))

\* A step of I/O i, held against what the base bdevs hold after it.
NextView(i) == [sure |-> i \in clean, row |-> disk'[io'[i].s], w |-> want[io'[i].s]]

Moved(x, y) ==
  /\ y.ph \in {"active", "nomem", "done"}
  /\ \/ x.ph = "idle" /\ ~Succeeds(y)
     \/ InFlight(x) /\ Same(y, x)

Turn(i) ==
  /\ retryQ' = << >> /\ baseCh' = baseCh
  /\ \A j \in IOs \ {i} : io'[j] = io[j]
  /\ Moved(io[i], io'[i])
  /\ Succeeds(io'[i]) => Told(io'[i], NextView(i))
  /\ \A s \in Stripes : disk'[s] # disk[s] => s = io'[i].s /\ InFlight(io[i]) /\ IsWrite(io'[i])
  /\ \A r \in Reqs : ~req'[r].free =>
       IF req'[r].io = i THEN crashed' = "no" => Holds(req'[r], io'[i], NextView(i))
       ELSE req'[r] = req[r]

\* What History makes of it.
Wanted(i, s) ==
  want'[s] # Unknown =>
    LET ends == IsWrite(io'[i]) /\ io'[i].s = s /\ Ended(i)
    IN  /\ \A j \in IOs : ~(InFlight(io'[j]) /\ IsWrite(io'[j]) /\ io'[j].s = s)
        /\ IF ends THEN io'[i].res = "success" /\ i \in clean /\ want'[s] = io'[i].data
           ELSE want'[s] = want[s]

LEMMA HistoryWants ==
  ASSUME History, NEW i \in IOs, \A j \in IOs \ {i} : io'[j] = io[j], NEW s \in Stripes
  PROVE  Wanted(i, s)
<1> DEFINE running == {j \in IOs : IsWrite(io'[j]) /\ io'[j].s = s /\ InFlight(io'[j])}
           ended   == {j \in IOs : IsWrite(io'[j]) /\ io'[j].s = s /\ Ended(j)}
<1>1. want'[s] = IF running # {} THEN Unknown
                 ELSE IF ended = {} THEN want[s]
                 ELSE LET k == CHOOSE j \in ended : TRUE
                      IN  IF io'[k].res = "success" /\ k \in clean THEN io'[k].data ELSE Unknown
  BY DEF History
<1>2. ended \subseteq {i}
  BY DEF Ended
<1>3. (IsWrite(io'[i]) /\ io'[i].s = s /\ Ended(i)) <=> i \in ended
  OBVIOUS
<1>4. running = {} => \A j \in IOs : ~(InFlight(io'[j]) /\ IsWrite(io'[j]) /\ io'[j].s = s)
  OBVIOUS
<1> HIDE DEF running, ended
<1>5. i \in ended => (CHOOSE j \in ended : TRUE) = i /\ ended # {}
  BY <1>2
<1>6. i \notin ended => ended = {}
  BY <1>2
<1>7. QED
  BY <1>1, <1>3, <1>4, <1>5, <1>6 DEF Wanted

\* The contents are held against less, or against the same.
LEMMA HoldsOn ==
  ASSUME NEW q, NEW x, NEW v, Holds(q, x, v), NEW u, u.sure => v.sure,
         u.sure => u.row = v.row, u.sure => IsWrite(x) \/ u.w = Unknown \/ u.w = v.w
  PROVE  Holds(q, x, u)
<1>1. Fit(q, x, u)
  BY DEF Holds, Fit
<1>2. Xored(q, x, v) => Xored(q, x, u)
  BY DEF Xored
<1>3. QED
  BY <1>1, <1>2 DEF Holds

LEMMA TurnKeeps ==
  ASSUME IInv, IInv', ContentsInv, crashed = "no", History, NEW i \in IOs, Turn(i)
  PROVE  ContentsInv'
<1> DEFINE x == io[i]
           y == io'[i]
<1>1. /\ \A s \in Stripes : Wanted(i, s)
      /\ clean' \subseteq clean /\ clean \subseteq IOs
  BY HistoryWants DEF Turn, History, IInv, Others
<1>2. /\ \A j \in IOs : io[j] \in IoRecord /\ io'[j] \in IoRecord
      /\ Linked(io, req, Waiting) /\ Linked(io', req', Waiting')
  BY DEF IInv, QueueInv, Typed
<1>3. \A j \in IOs : io[j].s \in Stripes /\ io'[j].s \in Stripes
  BY <1>2 DEF IoRecord
<1>4. \A j \in clean', k \in IOs : ~Conflict(io', j, k)
  BY <1>1 DEF History
<1>5. (\A j \in clean, k \in IOs : ~Conflict(io, j, k))'
  BY <1>4 DEF Conflict, InFlight, IsWrite
<1>6. Ended(i) \/ InFlight(y)
  BY DEF Turn, Moved, Ended, InFlight
<1>7. ASSUME NEW s \in Stripes, disk'[s] # disk[s]
      PROVE  InFlight(x) /\ IsWrite(x) /\ x.s = s /\ IsWrite(y) /\ y.s = s
  BY <1>7 DEF Turn, Moved, InFlight, Same, IsWrite
<1>8. StripeIsWritten'
  <2>1. SUFFICES ASSUME NEW s \in Stripes, want'[s] # Unknown, NEW c \in baseCh'
                 PROVE  disk'[s][c] = Right(s, want'[s], c)
    BY DEF StripeIsWritten, Right, ParityOf
  <2>2. c \in baseCh
    BY <2>1 DEF Turn
  <2>3. Wanted(i, s)
    BY <1>1
  <2>4. CASE IsWrite(y) /\ y.s = s /\ Ended(i)
    <3>1. y.res = "success" /\ i \in clean /\ want'[s] = y.data
      BY <2>1, <2>3, <2>4 DEF Wanted
    <3>2. Told(y, NextView(i))
      BY <2>4, <3>1 DEF Turn, Succeeds, Ended
    <3>3. QED
      BY <2>2, <2>4, <3>1, <3>2 DEF Told, NextView
  <2>5. CASE ~(IsWrite(y) /\ y.s = s /\ Ended(i))
    <3>1. want'[s] = want[s] /\ ~(InFlight(y) /\ IsWrite(y) /\ y.s = s)
      BY <2>1, <2>3, <2>5 DEF Wanted
    <3>2. disk'[s] = disk[s]
      BY <2>5, <3>1, <1>6, <1>7
    <3>3. disk[s][c] = Right(s, want[s], c)
      BY <2>1, <2>2, <3>1 DEF ContentsInv, StripeIsWritten, Right, ParityOf
    <3>4. QED
      BY <3>1, <3>2, <3>3
  <2>6. QED
    BY <2>4, <2>5
<1>9. ASSUME crashed' = "no", NEW r \in Reqs, ~req'[r].free
      PROVE  Holds(req'[r], io'[req'[r].io],
                   [sure |-> req'[r].io \in clean', row |-> disk'[io'[req'[r].io].s],
                    w |-> want'[io'[req'[r].io].s]])
  <2> DEFINE j == req'[r].io
             u == [sure |-> j \in clean', row |-> disk'[io'[j].s], w |-> want'[io'[j].s]]
  <2>1. j \in IOs /\ Owned(r, req'[r], io'[j])
    BY <1>2, <1>9 DEF Linked
  <2>3. io'[j].s \in Stripes
    BY <2>1, <1>3
  <2>4. CASE j = i
    <3>1. Holds(req'[r], y, NextView(i))
      BY <1>9, <2>4 DEF Turn
    <3>2. IsWrite(y) \/ want'[y.s] = Unknown \/ want'[y.s] = want[y.s]
      BY <1>1, <2>3, <2>4 DEF Wanted
    <3>3. /\ u.sure => NextView(i).sure
          /\ u.row = NextView(i).row
          /\ IsWrite(y) \/ u.w = Unknown \/ u.w = NextView(i).w
      BY <1>1, <2>4, <3>2 DEF NextView
    <3> HIDE DEF u
    <3>4. Holds(req'[r], y, u)
      BY <3>1, <3>3, HoldsOn
    <3>5. QED
      BY <2>4, <3>4 DEF u
  <2>5. CASE j # i
    <3>1. req'[r] = req[r] /\ io'[j] = io[j] /\ ~req[r].free
      BY <1>9, <2>1, <2>5 DEF Turn
    <3>2. Holds(req[r], io[j], ViewOf(j))
      BY <3>1 DEF ContentsInv
    <3>3. InFlight(io[j])
      BY <2>1, <3>1 DEF Owned, InFlight
    <3>4. ASSUME u.sure  PROVE ~(IsWrite(y) /\ y.s = io[j].s /\ InFlight(x))
      <4>1. SUFFICES ASSUME IsWrite(y), y.s = io[j].s, InFlight(x)  PROVE FALSE
        OBVIOUS
      <4>2. IsWrite(x) /\ x.s = io[j].s
        BY <4>1 DEF Turn, Moved, InFlight, Same, IsWrite
      <4>3. Conflict(io, j, i)
        BY <2>5, <3>3, <4>1, <4>2 DEF Conflict
      <4>4. j \in clean
        BY <3>4, <1>1
      <4>5. QED
        BY <4>3, <4>4 DEF ContentsInv
    <3>5. ASSUME u.sure  PROVE disk'[io[j].s] = disk[io[j].s]
      BY <3>4, <3>5, <1>3, <1>7, <2>1
    <3>6. ASSUME u.sure  PROVE want'[io[j].s] = Unknown \/ want'[io[j].s] = want[io[j].s]
      <4>1. Wanted(i, io[j].s)
        BY <1>1, <1>3, <2>1
      <4>2. CASE IsWrite(y) /\ y.s = io[j].s /\ Ended(i) /\ want'[io[j].s] # Unknown
        <5>1. y.res = "success" /\ y.ph = "done"
          BY <4>1, <4>2 DEF Wanted, Ended
        <5>2. InFlight(x)
          BY <5>1 DEF Turn, Moved, Succeeds
        <5>3. QED
          BY <5>2, <4>2, <3>4, <3>6
      <4>3. QED
        BY <4>1, <4>2 DEF Wanted
    <3>7. /\ u.sure => ViewOf(j).sure
          /\ u.sure => u.row = ViewOf(j).row
          /\ u.sure => IsWrite(io[j]) \/ u.w = Unknown \/ u.w = ViewOf(j).w
      BY <1>1, <3>1, <3>5, <3>6 DEF ViewOf
    <3> HIDE DEF u, j
    <3>8. Holds(req[r], io[j], u)
      BY <3>2, <3>7, HoldsOn
    <3>9. QED
      BY <3>1, <3>8 DEF j, u
  <2>6. QED
    BY <2>4, <2>5
<1>10. retryQ' = << >>
  BY DEF Turn
<1>11. (crashed = "no" =>
          \A r \in Reqs : ~req[r].free => Holds(req[r], io[req[r].io], ViewOf(req[r].io)))'
  <2>1. crashed = "no" /\ baseCh' = baseCh
    BY DEF Turn
  <2>2. ASSUME crashed' = "no", NEW r \in Reqs, ~req'[r].free
        PROVE  Holds(req[r], io[req[r].io], ViewOf(req[r].io))'
    <3> DEFINE v == [sure |-> req'[r].io \in clean', row |-> disk'[io'[req'[r].io].s],
                     w |-> want'[io'[req'[r].io].s]]
    <3>1. ViewOf(req[r].io)' = v
      BY DEF ViewOf
    <3>2. Holds(req'[r], io'[req'[r].io], v)
      BY <1>9, <2>2
    <3> HIDE DEF v
    <3>3. QED
      BY <2>1, <3>1, <3>2 DEF Holds, Fit, DataThere, LaidSoFar, ReadSoFar, Xored
  <2>3. QED
    BY <2>2
<1>12. QED
  BY <1>5, <1>8, <1>10, <1>11 DEF ContentsInv

-----------------------------------------------------------------------------
(* The contents through the actions.                                        *)

\* With nothing in the retry queue a handler changes one I/O and one request.
LEMMA TakeSimple ==
  ASSUME retryQ = << >>, io \in [IOs -> IoRecord], req \in [Reqs -> ReqRecord],
         NEW i \in IOs, NEW r \in Reqs, NEW p, p.enq = FALSE, Take(i, r, p)
  PROVE  /\ io' = [io EXCEPT ![i] = p.x] /\ req' = [req EXCEPT ![r] = p.q]
         /\ retryQ' = << >> /\ crashed' = p.crash
<1> DEFINE ios  == [io EXCEPT ![i] = p.x]
           reqs == [req EXCEPT ![r] = p.q]
           bufs == IF p.bufs THEN r ELSE xorBufs
<1>1. CASE p.drain
  <2>1. Drain(ios, reqs, bufs) /\ crashed' = p.crash
    BY <1>1 DEF Take
  <2>2. ios = [j \in IOs |-> ios[j]] /\ reqs = [t \in Reqs |-> reqs[t]]
    OBVIOUS
  <2> HIDE DEF ios, reqs, bufs
  <2>3. Len(retryQ) = 0
    OBVIOUS
  <2>4. \A k \in 0 .. IF AccelError THEN Len(retryQ) ELSE 0 : k = 0
    BY <2>3
  <2>5. {retryQ[j] : j \in 1 .. 0} = {}
    OBVIOUS
  <2>6. io' = [j \in IOs |-> ios[j]] /\ req' = [t \in Reqs |-> reqs[t]] /\ retryQ' = << >>
    BY <2>1, <2>3, <2>4, <2>5 DEF Drain
  <2>7. QED
    BY <2>1, <2>2, <2>6 DEF ios, reqs
<1>2. CASE ~p.drain
  BY <1>2 DEF Take
<1>3. QED
  BY <1>1, <1>2

\* Where I/O i comes from, of which a handler makes x.
Entered(i, x) == io[i].ph = "idle" \/ (InFlight(io[i]) /\ Same(x, io[i]))

\* What its handler's contents are held against.
View(i, s) == [sure |-> i \in clean, row |-> disk'[s], w |-> want[s]]

LEMMA TakeTurns ==
  ASSUME IInv, IInv', retryQ = << >>, UNCHANGED baseCh, NEW i \in IOs, NEW r \in Reqs,
         NEW p, Good(i, r, p), Take(i, r, p),
         NEW x, Entered(i, x), Yields(x, View(i, x.s), p), InFlight(io[i]) \/ ~Succeeds(p.x),
         \A s \in Stripes : disk'[s] # disk[s] => s = x.s /\ InFlight(io[i]) /\ IsWrite(x)
  PROVE  Turn(i)
<1>1. io \in [IOs -> IoRecord] /\ req \in [Reqs -> ReqRecord] /\ Linked(io', req', Waiting')
  BY DEF IInv, QueueInv, Typed
<1>2. /\ io' = [io EXCEPT ![i] = p.x] /\ req' = [req EXCEPT ![r] = p.q]
      /\ retryQ' = << >> /\ crashed' = p.crash
  BY <1>1, TakeSimple DEF Yields
<1>3. /\ io'[i] = p.x /\ (\A j \in IOs \ {i} : io'[j] = io[j])
      /\ req'[r] = p.q /\ (\A t \in Reqs \ {r} : req'[t] = req[t])
  BY <1>1, <1>2
<1>4. Same(p.x, x) /\ p.x.s = x.s /\ NextView(i) = View(i, x.s)
  BY <1>3 DEF Yields, Same, NextView, View
<1>5. Moved(io[i], io'[i])
  <2>1. p.x.ph \in {"active", "done"}
    BY DEF Good, Owned
  <2>2. InFlight(io[i]) => Same(p.x, io[i])
    BY <1>4 DEF Entered, Same, InFlight
  <2>3. QED
    BY <2>1, <2>2, <1>3 DEF Moved, Entered, InFlight
<1>6. Succeeds(io'[i]) => Told(io'[i], NextView(i))
  BY <1>3, <1>4 DEF Yields
<1>7. ASSUME NEW t \in Reqs, ~req'[t].free
      PROVE  IF req'[t].io = i THEN crashed' = "no" => Holds(req'[t], io'[i], NextView(i))
             ELSE req'[t] = req[t]
  <2>1. CASE t = r
    <3>1. p.q.io = i
      BY <2>1, <1>3, <1>7 DEF Good
    <3>2. crashed' = "no" => Holds(p.q, p.x, View(i, x.s))
      BY <2>1, <1>2, <1>3, <1>7 DEF Yields
    <3>3. QED
      BY <2>1, <3>1, <3>2, <1>3, <1>4
  <2>2. CASE t # r
    <3>1. req'[t].io # i
      <4>1. SUFFICES ASSUME req'[t].io = i  PROVE FALSE
        OBVIOUS
      <4>2. Owned(t, req'[t], io'[i])
        BY <4>1, <1>1, <1>7 DEF Linked
      <4>3. p.x.sr = t
        BY <4>2, <1>3 DEF Owned
      <4>4. p.x.sr \in {None, r}
        BY DEF Good, Owned
      <4>5. QED
        BY <2>2, <4>3, <4>4, PoolAssumption DEF Reqs
    <3>2. QED
      BY <2>2, <3>1, <1>3
  <2>3. QED
    BY <2>1, <2>2
<1>8. \A s \in Stripes : disk'[s] # disk[s] => s = io'[i].s /\ InFlight(io[i]) /\ IsWrite(io'[i])
  BY <1>3, <1>4 DEF Same, IsWrite
<1>9. QED
  BY <1>2, <1>3, <1>5, <1>6, <1>7, <1>8 DEF Turn

LEMMA TakeIoTurns ==
  ASSUME IInv, IInv', retryQ = << >>, UNCHANGED <<baseCh, disk>>, NEW i \in IOs,
         NEW y, TakeIo(i, y), y.sr = None, y.ph \in {"active", "nomem", "done"},
         Entered(i, y), ~Succeeds(y)
  PROVE  Turn(i)
<1>1. io \in [IOs -> IoRecord] /\ Linked(io', req', Waiting')
  BY DEF IInv, QueueInv, Typed
<1>2. /\ io'[i] = y /\ (\A j \in IOs \ {i} : io'[j] = io[j]) /\ req' = req
      /\ retryQ' = << >>
  BY <1>1 DEF TakeIo
<1>3. ASSUME NEW t \in Reqs, ~req'[t].free  PROVE req'[t].io # i
  <2>1. SUFFICES ASSUME req'[t].io = i  PROVE FALSE
    OBVIOUS
  <2>2. Owned(t, req'[t], io'[i])
    BY <2>1, <1>1, <1>3 DEF Linked
  <2>3. QED
    BY <2>2, <1>2, PoolAssumption DEF Owned, Reqs
<1>4. Moved(io[i], io'[i])
  BY <1>2 DEF Moved, Entered
<1>5. QED
  BY <1>2, <1>3, <1>4 DEF Turn

\* What every step of a live channel starts from here.
Sure == IInv /\ IInv' /\ ContentsInv /\ crashed = "no" /\ UNCHANGED baseCh

\* raid5f_stripe_request_init: the data is in the chunks of the request.
LEMMA StartFits ==
  ASSUME QueueInv, NEW r \in Reqs, NEW i, NEW x \in IoRecord, x.sub = 0, NEW v
  PROVE  LET q == Start(r, i, x)
             y == Owning(x, r)
         IN  /\ Fit(q, y, v) /\ Same(y, x)
             /\ IsWrite(y) /\ ParityIndex(x.s) \notin baseCh => Xored(q, y, v)
<1> DEFINE q   == Start(r, i, x)
           y   == Owning(x, r)
           buf == MapIovecs(x.s, x.data)
<1>1. req[r] \in ReqRecord /\ NumBaseBdevs \in Nat
  BY Geometry DEF QueueInv, Typed
<1>2. q.own = TRUE /\ q.out = {} /\ q.buf = buf
  BY <1>1 DEF Start, ReqRecord
<1>3. Same(y, x) /\ y.sub = 0
  BY DEF Owning, IoRecord, Same
<1>4. \A c \in Chunks \ {ParityIndex(x.s)} : buf[c] = Right(x.s, x.data, c)
  BY DEF MapIovecs, Right
<1>5. y.sub - 1 < 0
  BY <1>3
<1> HIDE DEF q, y, buf
<1>6. DataThere(q, y)
  BY <1>2, <1>3, <1>4 DEF DataThere, Same
<1>7. 0 .. y.sub - 1 = {}
  BY <1>3
<1>8. Fit(q, y, v)
  BY <1>2, <1>6, <1>7 DEF Fit, LaidSoFar, ReadSoFar
<1>9. IsWrite(y) /\ ParityIndex(x.s) \notin baseCh => Xored(q, y, v)
  BY <1>3 DEF Xored, Same
<1>10. QED
  BY <1>3, <1>8, <1>9 DEF q, y

LEMMA SubmitReconstructTurns ==
  ASSUME Pure, Sure, UNCHANGED disk, NEW i \in IOs, io[i].sr = None,
         NEW x, Entering(x), ~IsWrite(x), Entered(i, x), SubmitReconstruct(i, x)
  PROVE  Turn(i)
<1>1. PICK r \in NextReq(ReconReqs) :
             \E p \in SubmitChunks(Owning(x, r), Start(r, i, x), FALSE) : Take(i, r, p)
  BY DEF SubmitReconstruct
<1> DEFINE q == Start(r, i, x)
           y == Owning(x, r)
           v == View(i, x.s)
<1>2. PICK p \in SubmitChunks(y, q, FALSE) : Take(i, r, p)
  BY <1>1
<1>3. /\ ReconReqs \in SUBSET Reqs /\ r \notin WriteReqs /\ QueueInv /\ Redundant
      /\ x \in IoRecord /\ x.sub = 0 /\ Tame
  BY PoolAssumption DEF Reqs, NextReq, FreeReqs, IInv, Others, Sure, Entering, Pure
<1>4. /\ AtHand(i, r, y, q) /\ q.out = {} /\ ~Working(q)
      /\ y.pend = "none" /\ y.sub = 0 /\ y.rem = NumBaseBdevs /\ y.type = x.type
      /\ r \in Reqs
  BY <1>3, StartAtHand
<1>5. Fit(q, y, v) /\ Same(y, x)
  BY <1>3, <1>4, StartFits
<1> HIDE DEF q, y, v
<1>6. ToSubmit(q, y)
  BY <1>3, <1>4, StartToSubmit
<1>7. Good(i, r, p)
  BY <1>2, <1>3, <1>4, <1>6, SubmitChunksGood
<1>8. ~IsWrite(y)
  BY <1>4 DEF IsWrite
<1>9. Yields(y, v, p) /\ ~Succeeds(p.x)
  BY <1>2, <1>4, <1>5, <1>6, <1>8, SubmitChunksYields
<1>10. Entered(i, y) /\ y.s = x.s
  BY <1>5 DEF Entered, Same
<1>11. QED
  BY <1>2, <1>4, <1>7, <1>9, <1>10, TakeTurns DEF Sure, ContentsInv, v

\* An I/O is given back before it has reached a base bdev, or waits on its own.
LEMMA RefusedTurns ==
  ASSUME Sure, UNCHANGED disk, NEW i \in IOs, NEW x \in IoRecord, NEW st \in {"nomem", "failed"},
         Entered(i, x), TakeIo(i, Complete(x, st))
  PROVE  Turn(i)
<1> DEFINE z == Complete(x, st)
<1>1. Same(z, x) /\ z.res = st /\ z.sr = None /\ z.ph \in {"nomem", "done"}
  BY CompleteFields, CompleteResult
<1> HIDE DEF z
<1>2. Entered(i, z) /\ ~Succeeds(z)
  BY <1>1 DEF Entered, Same, Succeeds
<1>3. TakeIo(i, z)
  BY DEF z
<1>4. QED
  BY <1>1, <1>2, <1>3, TakeIoTurns DEF Sure, ContentsInv

LEMMA SubmitWriteTurns ==
  ASSUME Pure, Sure, UNCHANGED disk, NEW i \in IOs, io[i].sr = None,
         NEW x, Entering(x), IsWrite(x), Entered(i, x), SubmitWrite(i, x)
  PROVE  Turn(i)
<1>1. CASE TakeIo(i, Complete(x, "nomem"))
  BY <1>1, RefusedTurns DEF Entering
<1>2. ASSUME NEW r \in NextReq(WriteReqs),
             IF ParityIndex(x.s) \in baseCh
             THEN \E e \in XorStripe(Start(r, i, x), Busy(req)) :
                    \E p \in AfterXor(Owning(x, r), e) : Take(i, r, p)
             ELSE \E p \in SubmitChunks(Owning(x, r), Start(r, i, x), FALSE) : Take(i, r, p)
      PROVE  Turn(i)
  <2> DEFINE q == Start(r, i, x)
             y == Owning(x, r)
             v == View(i, x.s)
  <2>1. /\ WriteReqs \in SUBSET Reqs /\ r \in WriteReqs /\ QueueInv /\ Redundant
        /\ x \in IoRecord /\ x.sub = 0 /\ Tame
    BY DEF Reqs, NextReq, FreeReqs, IInv, Others, Sure, Entering, Pure
  <2>2. /\ AtHand(i, r, y, q) /\ q.out = {} /\ ~Working(q)
        /\ y.pend = "none" /\ y.sub = 0 /\ y.rem = NumBaseBdevs /\ y.type = x.type
        /\ r \in Reqs
    BY <2>1, StartAtHand
  <2>3. /\ Fit(q, y, v) /\ Same(y, x)
        /\ IsWrite(y) /\ ParityIndex(x.s) \notin baseCh => Xored(q, y, v)
    BY <2>1, <2>2, StartFits
  <2>4. ASSUME NEW p, Good(i, r, p), Yields(y, v, p), ~Succeeds(p.x), Take(i, r, p)  PROVE Turn(i)
    <3> HIDE DEF q, y, v
    <3>1. Entered(i, y) /\ y.s = x.s
      BY <2>3 DEF Entered, Same
    <3>2. QED
      BY <2>2, <2>4, <3>1, TakeTurns DEF Sure, ContentsInv, v
  <2>5. CASE ParityIndex(x.s) \in baseCh
    <3>1. PICK e \in XorStripe(q, Busy(req)) : \E p \in AfterXor(y, e) : Take(i, r, p)
      BY <1>2, <2>5
    <3>2. PICK p \in AfterXor(y, e) : Take(i, r, p)
      BY <3>1
    <3> HIDE DEF q, y, v
    <3>3. AtXor(q, y)
      BY <2>2 DEF AtXor, IsWrite
    <3>4. Good(i, r, p)
      BY <2>1, <2>2, <3>2, <3>3, XorStripeGood
    <3>5. Yields(y, v, p) /\ ~Succeeds(p.x)
      BY <2>1, <2>2, <2>3, <3>2, <3>3, XorStripeYields
    <3>6. QED
      BY <2>4, <3>2, <3>4, <3>5
  <2>6. CASE ParityIndex(x.s) \notin baseCh
    <3>1. PICK p \in SubmitChunks(y, q, FALSE) : Take(i, r, p)
      BY <1>2, <2>6
    <3> HIDE DEF q, y, v
    <3>2. ToSubmit(q, y)
      BY <2>1, <2>2, StartToSubmit
    <3>3. Good(i, r, p)
      BY <2>1, <2>2, <3>1, <3>2, SubmitChunksGood
    <3>4. Yields(y, v, p) /\ ~Succeeds(p.x)
      BY <2>2, <2>3, <2>6, <3>1, <3>2, SubmitChunksYields
    <3>5. QED
      BY <2>4, <3>1, <3>3, <3>4
  <2>7. QED
    BY <2>5, <2>6
<1>3. QED
  BY <1>1, <1>2 DEF SubmitWrite

LEMMA SubmitReadTurns ==
  ASSUME Pure, Sure, UNCHANGED disk, NEW i \in IOs, io[i].sr = None,
         NEW x, Entering(x), ~IsWrite(x), Entered(i, x), NEW waited, SubmitRead(i, x, waited)
  PROVE  Turn(i)
<1>1. x \in IoRecord
  BY DEF Entering
<1>2. ASSUME NEW st \in {"nomem", "failed"}, TakeIo(i, Complete(x, st))  PROVE Turn(i)
  BY <1>1, <1>2, RefusedTurns
<1>3. ASSUME NEW pend \in {"direct", "rw"}, TakeIo(i, [x EXCEPT !.pend = pend])  PROVE Turn(i)
  <2> DEFINE z == [x EXCEPT !.pend = pend]
  <2>1. z.sr = None /\ z.ph = "active" /\ Same(z, x)
    BY <1>1 DEF Entering, IoRecord, Same
  <2>2. TakeIo(i, z)
    BY <1>3
  <2> HIDE DEF z
  <2>3. Entered(i, z) /\ ~Succeeds(z)
    BY <2>1 DEF Entered, Same, Succeeds
  <2>4. QED
    BY <2>1, <2>2, <2>3, TakeIoTurns DEF Sure, ContentsInv
<1>4. QED
  BY <1>2, <1>3, SubmitReconstructTurns DEF SubmitRead

LEMMA SubmitRwTurns ==
  ASSUME Pure, Sure, UNCHANGED disk, NEW i \in IOs, io[i].sr = None,
         NEW x, Entering(x), Entered(i, x), NEW waited, SubmitRw(i, x, waited)
  PROVE  Turn(i)
BY SubmitWriteTurns, SubmitReadTurns DEF SubmitRw

LEMMA SubmitRequestTurns ==
  ASSUME Pure, Sure, UNCHANGED disk, NEW i \in IOs, io[i].sr = None,
         NEW x \in IoRecord, x.sr = None, x.pend = "none", Entered(i, x), SubmitRequest(i, x)
  PROVE  Turn(i)
<1>1. CASE SubmitRw(i, [x EXCEPT !.ph = "active", !.rem = 0, !.sub = 0, !.status = "success"], FALSE)
  <2> DEFINE y == [x EXCEPT !.ph = "active", !.rem = 0, !.sub = 0, !.status = "success"]
  <2>1. 0 \in 0 .. NumBaseBdevs
    BY Geometry
  <2>2. Entering(y) /\ Same(y, x)
    BY <2>1 DEF Entering, IoRecord, Same
  <2>3. SubmitRw(i, y, FALSE)
    BY <1>1
  <2> HIDE DEF y
  <2>4. Entered(i, y)
    BY <2>2 DEF Entered, Same
  <2>5. QED
    BY <2>2, <2>3, <2>4, SubmitRwTurns
<1>2. CASE TakeIo(i, Complete(x, "failed"))
  BY <1>2, RefusedTurns
<1>3. QED
  BY <1>1, <1>2 DEF SubmitRequest

LEMMA SubmitTurns ==
  ASSUME Pure, Sure, NEW i \in IOs, Submit(i)
  PROVE  Turn(i)
<1>1. QueueInv /\ UNCHANGED disk /\ io[i].ph = "idle"
  BY DEF IInv, Submit, Sure
<1>2. io[i].sr = None /\ io[i] \in IoRecord /\ io[i].pend = "none"
  BY <1>1, OutOfModule
<1>3. DataIdx = 0 .. NumBaseBdevs - 2
  BY Geometry DEF DataIdx, DataChunksNum
<1>4. ASSUME NEW x \in IoRecord, x.sr = None, x.pend = "none", SubmitRequest(i, x)  PROVE Turn(i)
  BY <1>1, <1>2, <1>4, SubmitRequestTurns DEF Entered
<1>5. ASSUME NEW s \in Stripes, NEW data \in Contents
      PROVE  LET x == [io[i] EXCEPT !.type = "write", !.s = s, !.data = data]
             IN  x \in IoRecord /\ x.sr = None /\ x.pend = "none"
  <2>1. data \in StripeData
    BY <1>3, ParamAssumption DEF StripeData, Bits
  <2>2. QED
    BY <1>2, <2>1 DEF IoRecord
<1>6. ASSUME NEW s \in Stripes, NEW d \in ReadIdx
      PROVE  LET x == [io[i] EXCEPT !.type = "read", !.s = s, !.d = d]
             IN  x \in IoRecord /\ x.sr = None /\ x.pend = "none"
  <2>1. d \in DataIdx
    BY <1>3, ParamAssumption
  <2>2. QED
    BY <1>2, <2>1 DEF IoRecord
<1>7. QED
  BY <1>4, <1>5, <1>6 DEF Submit

LEMMA ResubmitTurns ==
  ASSUME Pure, Sure, NEW i \in IOs, Resubmit(i)
  PROVE  Turn(i)
<1>1. QueueInv /\ io[i].ph = "nomem" /\ UNCHANGED disk
  BY DEF IInv, Resubmit, Sure
<1>2. io[i].sr = None /\ io[i] \in IoRecord /\ io[i].pend = "none"
  BY <1>1, OutOfModule
<1> DEFINE x == [io[i] EXCEPT !.res = "none"]
<1>3. x \in IoRecord /\ x.sr = None /\ x.pend = "none" /\ Same(x, io[i])
  BY <1>2 DEF IoRecord, Same
<1>4. SubmitRequest(i, x)
  BY DEF Resubmit
<1> HIDE DEF x
<1>5. Entered(i, x)
  BY <1>1, <1>3 DEF Entered, InFlight
<1>6. QED
  BY <1>1, <1>2, <1>3, <1>4, <1>5, SubmitRequestTurns

LEMMA RetryRwTurns ==
  ASSUME Pure, Sure, NEW i \in IOs, RetryRw(i)
  PROVE  Turn(i)
<1>1. QueueInv /\ io[i].pend = "rw" /\ UNCHANGED disk
  BY DEF IInv, RetryRw, Sure
<1>2. io[i].sr = None /\ io[i] \in IoRecord /\ Loose(io[i])
  BY <1>1, OutOfModule
<1> DEFINE x == [io[i] EXCEPT !.pend = "none"]
<1>3. Entering(x) /\ Same(x, io[i]) /\ InFlight(io[i])
  BY <1>1, <1>2 DEF IoRecord, Entering, Loose, Same, InFlight
<1>4. SubmitRw(i, x, TRUE)
  BY DEF RetryRw
<1> HIDE DEF x
<1>5. Entered(i, x)
  BY <1>3 DEF Entered
<1>6. QED
  BY <1>1, <1>2, <1>3, <1>4, <1>5, SubmitRwTurns

LEMMA DirectReadTurns ==
  ASSUME Pure, Sure, NEW i \in IOs, NEW success, DirectReadComplete(i, success)
  PROVE  Turn(i)
<1>1. QueueInv /\ io[i].pend = "direct" /\ UNCHANGED disk
      /\ disk \in [Stripes -> [Chunks -> Bits]]
  BY DEF IInv, Others, DirectReadComplete, Sure
<1>2. io[i].sr = None /\ io[i] \in IoRecord /\ Loose(io[i])
  BY <1>1, OutOfModule
<1> DEFINE v == disk[io[i].s][ChunkIndex(io[i].s, io[i].d)]
           x == [io[i] EXCEPT !.pend = "none", !.direct = v, !.buf = v]
<1>3. v \in Bits
  <2>1. io[i].s \in Stripes /\ io[i].d \in DataIdx
    BY <1>2 DEF IoRecord
  <2>2. QED
    BY <2>1, <1>1, Geometry
<1> HIDE DEF v
<1>4. Entering(x) /\ ~IsWrite(x) /\ Same(x, io[i]) /\ InFlight(io[i])
  BY <1>1, <1>2, <1>3 DEF IoRecord, Entering, Loose, IsWrite, Same, InFlight
<1> HIDE DEF x
<1>5. Entered(i, x) /\ Entered(i, io[i])
  BY <1>4 DEF Entered, Same
<1>6. CASE SubmitReconstruct(i, x)
  BY <1>1, <1>2, <1>4, <1>5, <1>6, SubmitReconstructTurns
<1>7. CASE TakeIo(i, x)
  BY <1>1, <1>4, <1>5, <1>7, TakeIoTurns DEF Entering, Succeeds, Sure, ContentsInv
<1>8. CASE TakeIo(i, Complete(io[i], "failed"))
  BY <1>1, <1>2, <1>5, <1>8, RefusedTurns
<1>9. QED
  BY <1>6, <1>7, <1>8 DEF DirectReadComplete, x, v

\* A request in use holds what it should, whatever is in the row of its stripe.
LEMMA HeldNow ==
  ASSUME Sure, NEW r \in Reqs, ~req[r].free
  PROVE  LET i == req[r].io
         IN  /\ Holds(req[r], io[i], ViewOf(i)) /\ InFlight(io[i]) /\ Entered(i, io[i])
             /\ UNCHANGED disk => View(i, io[i].s) = ViewOf(i)
             /\ View(i, io[i].s) \in Views
<1> DEFINE i == req[r].io
<1>1. QueueInv /\ ContentsInv /\ crashed = "no"
  BY DEF Sure, IInv
<1>2. i \in IOs /\ io[i] \in IoRecord /\ io[i].ph = "active"
  BY <1>1, AtWork DEF AtHand, Owned
<1>3. Holds(req[r], io[i], ViewOf(i))
  BY <1>1 DEF ContentsInv
<1>4. InFlight(io[i]) /\ Entered(i, io[i])
  BY <1>2 DEF InFlight, Entered, Same
<1>5. UNCHANGED disk => View(i, io[i].s) = ViewOf(i)
  BY DEF View, ViewOf
<1>6. View(i, io[i].s) \in Views
  <2>1. io[i].s \in Stripes
    BY <1>2 DEF IoRecord
  <2>2. disk'[io[i].s] \in [Chunks -> Bits] /\ want[io[i].s] \in StripeData \cup {Unknown}
    BY <2>1 DEF Sure, IInv, Others
  <2>3. QED
    BY <2>2 DEF View, Views
<1>7. QED
  BY <1>3, <1>4, <1>5, <1>6

LEMMA RetryChunksTurns ==
  ASSUME Pure, Sure, NEW i \in IOs, RetryChunks(i)
  PROVE  Turn(i)
<1>1. QueueInv /\ io[i].pend = "chunks" /\ UNCHANGED disk /\ Tame /\ crashed = "no"
  BY DEF IInv, RetryChunks, Sure, Pure
<1> DEFINE r == io[i].sr
           x == [io[i] EXCEPT !.pend = "none"]
           q == req[r]
           v == View(i, x.s)
<1>2. r \in Reqs /\ ~q.free /\ q.io = i
  <2>1. Typed(io, req) /\ Linked(io, req, Waiting) /\ io[i] \in IoRecord
    BY <1>1 DEF QueueInv, Typed
  <2>2. r # None
    BY <2>1, <1>1 DEF Linked, Loose
  <2>3. QED
    BY <2>1, <2>2 DEF Linked, IoRecord
<1>3. PICK p \in SubmitChunks(x, q, TRUE) : Take(i, r, p)
  BY DEF RetryChunks
<1>4. AtHand(i, r, io[i], q) /\ Stage(q, io[i], r \in Waiting)
  BY <1>1, <1>2, AtWork
<1>5. Chunking(q, io[i])
  BY <1>1, <1>4 DEF Stage, Xoring, AtXor
<1>6. /\ x \in IoRecord /\ x.pend = "none" /\ x.ph = io[i].ph /\ x.sr = io[i].sr /\ Same(x, io[i])
      /\ x.sub = io[i].sub /\ x.rem = io[i].rem /\ x.status = io[i].status /\ x.buf = io[i].buf
  BY <1>4 DEF AtHand, IoRecord, Same
<1>7. Holds(q, io[i], View(i, io[i].s)) /\ InFlight(io[i])
  BY <1>1, <1>2, HeldNow
<1>8. v = View(i, io[i].s)
  BY <1>6 DEF Same
<1> HIDE DEF r, x, q, v
<1>9. AtHand(i, r, x, q)
  BY <1>4, <1>6 DEF AtHand, Owned, IsWrite, Same
<1>10. ToSubmit(q, x)
  <2>1. Immediate(x, q) = Immediate(io[i], q)
    BY <1>6 DEF Immediate, IsWrite, Same
  <2>2. x.sub \in 0 .. NumBaseBdevs /\ x.sub < NumBaseBdevs /\ NumBaseBdevs \in Nat
    BY <1>1, <1>5, <1>6, Geometry DEF Chunking, IoRecord
  <2>3. x.sub \in x.sub .. NumBaseBdevs - 1
    BY <2>2
  <2>4. Cardinality(q.out) \in Nat
    BY <1>4, Geometry DEF AtHand, ReqRecord
  <2>5. x.rem = Cardinality(q.out) + NumBaseBdevs - x.sub
    BY <1>1, <1>5, <1>6, <2>2, <2>4 DEF Chunking
  <2>6. QED
    BY <2>1, <2>3, <2>5, <1>1, <1>5, <1>6 DEF ToSubmit, Chunking
<1>11. Good(i, r, p)
  BY <1>1, <1>3, <1>9, <1>10, SubmitChunksGood
<1>12. Fit(q, x, v) /\ (IsWrite(x) => Xored(q, x, v))
  <2>1. Fit(q, io[i], v) /\ (IsWrite(io[i]) => Xored(q, io[i], v))
    BY <1>5, <1>7, <1>8 DEF Holds, Chunking
  <2>2. QED
    BY <2>1, <1>6 DEF Fit, DataThere, LaidSoFar, ReadSoFar, Xored, IsWrite, Same
<1>13. Yields(x, v, p)
  BY <1>3, <1>9, <1>10, <1>12, SubmitChunksYields
<1>14. Entered(i, x)
  BY <1>6, <1>7 DEF Entered
<1>15. QED
  BY <1>1, <1>2, <1>3, <1>7, <1>11, <1>13, <1>14, TakeTurns DEF Sure, ContentsInv, v

LEMMA ChunkCompleteTurns ==
  ASSUME Pure, Sure, NEW r \in Reqs, NEW c \in Chunks, NEW success \in BOOLEAN,
         ChunkComplete(r, c, success)
  PROVE  \E i \in IOs : Turn(i)
<1> DEFINE q0  == req[r]
           i   == q0.io
           x   == io[i]
           q   == [q0 EXCEPT !.out = @ \ {c}]
           qr  == [q EXCEPT !.buf[c] = disk[q.s][c]]
           st  == IF success THEN "success" ELSE "failed"
           v   == View(i, x.s)
<1>1. /\ QueueInv /\ Redundant /\ c \in q0.out /\ baseCh \subseteq Chunks /\ Tame /\ crashed = "no"
      /\ disk \in [Stripes -> [Chunks -> Bits]] /\ st \in {"success", "failed"}
  BY DEF IInv, Others, ChunkComplete, Sure, Pure
<1>2. ~q0.free
  BY <1>1 DEF QueueInv, Linked, Idle
<1>3. i \in IOs /\ AtHand(i, r, x, q0) /\ Stage(q0, x, r \in Waiting)
  BY <1>1, <1>2, AtWork
<1>4. Chunking(q0, x)
  BY <1>1, <1>3 DEF Stage, Xoring, AtXor
<1>5. q0 \in ReqRecord /\ x.s \in Stripes /\ q0.s = x.s /\ ~Working(q0) /\ (IsWrite(x) <=> r \in WriteReqs)
  BY <1>3, <1>4 DEF AtHand, IoRecord, Owned, Chunking
<1>6. /\ q \in ReqRecord /\ q.out = q0.out \ {c} /\ q.free = q0.free /\ q.io = q0.io /\ q.s = q0.s
      /\ q.target = q0.target /\ q.task = q0.task /\ q.mdTasks = q0.mdTasks /\ q.md = q0.md
      /\ q.own = q0.own /\ q.buf = q0.buf
  BY <1>5 DEF ReqRecord
<1>7. ChunkDone(q0, q, c)
  BY <1>1, <1>6 DEF ChunkDone
<1>8. /\ Holds(q0, x, ViewOf(i)) /\ InFlight(x) /\ Entered(i, x)
      /\ UNCHANGED disk => v = ViewOf(i)
  BY <1>2, HeldNow
<1>9. /\ Fit(q0, x, ViewOf(i)) /\ q0.own /\ q0.out \subseteq baseCh /\ c \in baseCh
      /\ IsWrite(x) => /\ Xored(q0, x, ViewOf(i))
                       /\ x.status = "success" /\ x.pend = "none" => x.sub = NumBaseBdevs
  BY <1>1, <1>5, <1>8 DEF Holds, Fit
<1>10. CASE r \in WriteReqs
  <2>1. /\ disk' = [disk EXCEPT ![q.s][c] = q.buf[c]] \/ (~success /\ disk' = disk)
        /\ \E p \in ChunkWritten(x, q, st) : Take(i, r, p)
    BY <1>10 DEF ChunkComplete
  <2>2. PICK p \in ChunkWritten(x, q, st) : Take(i, r, p)
    BY <2>1
  <2>3. IsWrite(x) /\ q.s = x.s
    BY <1>5, <1>6, <1>10
  <2> HIDE DEF q
  <2>4. /\ \A s \in Stripes : disk'[s] # disk[s] => s = x.s
        /\ \A b \in Chunks \ {c} : disk'[x.s][b] = disk[x.s][b]
        /\ success => disk'[x.s][c] = q.buf[c]
    <3>1. CASE disk' = [disk EXCEPT ![q.s][c] = q.buf[c]]
      BY <3>1, <2>3, <1>1, <1>5
    <3>2. QED
      BY <3>1, <2>1
  <2> HIDE DEF x, i, q0
  <2>5. /\ AtHand(i, r, x, q) /\ ~Working(q) /\ x.rem \in Nat /\ x.rem >= 1
    BY <1>3, <1>4, <1>7, ChunkCounted
  <2> HIDE DEF st
  <2>6. (CompletePart(x, 1, st)).ph = "done" <=> x.rem = 1
    BY <2>5, <1>1, PartResult DEF AtHand, Owned
  <2>7. p = [Result(CompletePart(x, 1, st), IF x.rem = 1 THEN Release(q) ELSE q) EXCEPT
               !.crash = IF x.rem < 1 THEN "assert" ELSE "no"]
    BY <2>2, <2>6 DEF ChunkWritten
  <2>8. Good(i, r, p)
    BY <1>1, <1>3, <1>4, <1>7, <2>7, ChunkDoneGood
  <2>9. DataThere(q, x) /\ Xored(q, x, v)
    BY <1>6, <1>9, <2>3 DEF Fit, DataThere, Xored
  <2>10. ASSUME st = "success", v.sure  PROVE LaidSoFar(q, x, v.row)
    <3>1. SUFFICES ASSUME x.status = "success",
                          NEW b \in (baseCh \cap (0 .. x.sub - 1)) \ q.out
                   PROVE  v.row[b] = Right(x.s, x.data, b)
      BY DEF LaidSoFar
    <3>2. v.row = disk'[x.s] /\ success
      BY <2>10 DEF v, View, st
    <3>3. CASE b = c
      <4>1. v.row[c] = q.buf[c]
        BY <2>4, <3>2
      <4>2. q.buf[c] = Right(x.s, x.data, c)
        BY <1>9, <2>3, <2>9 DEF DataThere, Xored, Right
      <4>3. QED
        BY <3>3, <4>1, <4>2
    <3>4. CASE b # c
      <4>1. b \in (baseCh \cap (0 .. x.sub - 1)) \ q0.out /\ b \in Chunks
        BY <3>1, <3>4, <1>1, <1>6
      <4>2. (ViewOf(i)).sure
        BY <2>10 DEF v, View, ViewOf
      <4>3. LaidSoFar(q0, x, (ViewOf(i)).row)
        BY <4>2, <1>9, <2>3 DEF Fit
      <4>4. (ViewOf(i)).row = disk[x.s]
        BY DEF ViewOf, x
      <4>5. disk[x.s][b] = Right(x.s, x.data, b)
        BY <3>1, <4>1, <4>3, <4>4 DEF LaidSoFar
      <4>6. QED
        BY <4>1, <4>5, <2>4, <3>2, <3>4
    <3>5. QED
      BY <3>3, <3>4
  <2>11. q.own /\ q.out \subseteq baseCh
    BY <1>6, <1>9
  <2> HIDE DEF v
  <2>12. Yields(x, v, p)
    BY <1>1, <1>3, <1>4, <1>7, <1>9, <2>3, <2>7, <2>9, <2>10, <2>11, ChunkDoneYields
  <2>13. io[i] = x
    BY DEF x
  <2>14. Turn(i)
    BY <1>3, <1>8, <2>2, <2>3, <2>4, <2>8, <2>12, <2>13, TakeTurns DEF Sure, ContentsInv, v
  <2>15. QED
    BY <2>14, <1>3
<1>11. CASE r \notin WriteReqs
  <2>1. disk' = disk /\ \E p \in ChunkRead(x, qr, st) : Take(i, r, p)
    BY <1>11 DEF ChunkComplete
  <2>2. PICK p \in ChunkRead(x, qr, st) : Take(i, r, p)
    BY <2>1
  <2> DEFINE d   == disk[q.s][c]
             buf == [q.buf EXCEPT ![c] = d]
  <2>3. d \in Bits /\ q.buf \in [Chunks -> Bits]
    BY <1>1, <1>6 DEF ReqRecord
  <2> HIDE DEF d
  <2>4. buf \in [Chunks -> Bits] /\ buf[c] = d /\ \A b \in Chunks \ {c} : buf[b] = q.buf[b]
    BY <2>3
  <2> HIDE DEF q
  <2>5. qr = [q EXCEPT !.buf = buf]
    BY <1>6 DEF ReqRecord, d
  <2> HIDE DEF buf, qr
  <2>6. /\ qr \in ReqRecord /\ qr.out = q.out /\ qr.free = q.free /\ qr.io = q.io /\ qr.s = q.s
        /\ qr.target = q.target /\ qr.task = q.task /\ qr.mdTasks = q.mdTasks /\ qr.md = q.md
        /\ qr.own = q.own /\ qr.buf = buf
    BY <2>4, <2>5, <1>6 DEF ReqRecord
  <2>7. ChunkDone(q0, qr, c)
    BY <2>6, <1>1, <1>6 DEF ChunkDone
  <2>8. v = ViewOf(i) /\ v.w = want[x.s] /\ ~IsWrite(x)
    BY <1>5, <1>8, <1>11, <2>1 DEF View
  <2>9. Fit(qr, x, v)
    <3>1. qr.own /\ qr.out \subseteq baseCh
      BY <1>6, <1>9, <2>6
    <3>2. ASSUME v.sure, v.w # Unknown, NEW b \in (0 .. x.sub - 1) \ (qr.out \cup {qr.target})
          PROVE  qr.buf[b] = Right(x.s, v.w, b)
      <4>1. CASE b = c
        <5>1. disk[x.s][c] = Right(x.s, want[x.s], c)
          BY <3>2, <2>8, <1>5, <1>9 DEF Sure, ContentsInv, StripeIsWritten, Right, ParityOf
        <5>2. qr.buf[c] = disk[x.s][c]
          BY <1>5, <1>6, <2>4, <2>6 DEF d
        <5>3. QED
          BY <4>1, <5>1, <5>2, <2>8
      <4>2. CASE b # c
        <5>1. ReadSoFar(q0, x, v.w)
          BY <3>2, <2>8, <1>9 DEF Fit
        <5>2. b \in (0 .. x.sub - 1) \ (q0.out \cup {q0.target})
          BY <3>2, <4>2, <2>6, <1>6
        <5>3. q0.buf[b] = Right(x.s, v.w, b)
          BY <5>1, <5>2 DEF ReadSoFar
        <5>4. b \in Chunks
          BY <3>2, <1>3, Geometry DEF AtHand, IoRecord, Chunks
        <5>5. QED
          BY <4>2, <5>3, <5>4, <2>4, <2>6, <1>6
      <4>3. QED
        BY <4>1, <4>2
    <3>3. QED
      BY <3>1, <3>2, <2>8 DEF Fit, ReadSoFar
  <2>10. io[i] = x /\ v = View(i, x.s)
    OBVIOUS
  <2>15. ~IsWrite(x)
    BY <2>8
  <2> HIDE DEF x, i, q0, st, v
  <2>11. /\ AtHand(i, r, x, qr) /\ ~Working(qr) /\ x.rem \in Nat /\ x.rem >= 1
         /\ x.rem = 1 => qr.out = {} /\ x.pend = "none"
    BY <1>3, <1>4, <2>7, ChunkCounted
  <2>12. Good(i, r, p) /\ Yields(x, v, p)
    <3>1. CASE x.rem = 1 /\ x.status = "success" /\ st = "success"
      <4>1. PICK e \in XorStripe(qr, Busy(req)) : p \in AfterXor(x, e)
        BY <2>2, <3>1 DEF ChunkRead
      <4>2. AtXor(qr, x)
        BY <2>11, <2>15, <3>1, <1>4 DEF AtXor, Chunking
      <4>3. Good(i, r, p)
        BY <2>11, <4>1, <4>2, <1>1, XorStripeGood
      <4>4. Yields(x, v, p)
        BY <2>9, <2>11, <4>1, <4>2, <1>1, XorStripeYields
      <4>5. QED
        BY <4>3, <4>4
    <3>2. CASE ~(x.rem = 1 /\ x.status = "success" /\ st = "success")
      <4>1. p = [Result(CompletePart(x, 1, st), IF x.rem = 1 THEN Release(qr) ELSE qr) EXCEPT
                   !.crash = IF x.rem < 1 THEN "assert" ELSE "no"]
        BY <2>2, <3>2 DEF ChunkRead
      <4>2. Good(i, r, p)
        BY <1>1, <1>3, <1>4, <2>7, <4>1, ChunkDoneGood
      <4>3. qr.own /\ qr.out \subseteq baseCh
        BY <2>9 DEF Fit
      <4>4. Yields(x, v, p)
        BY <1>1, <1>3, <1>4, <2>7, <2>9, <2>15, <3>2, <4>1, <4>3, ChunkDoneYields
      <4>5. QED
        BY <4>2, <4>4
    <3>3. QED
      BY <3>1, <3>2
  <2>13. Turn(i)
    BY <1>3, <1>8, <2>1, <2>2, <2>10, <2>12, TakeTurns DEF Sure, ContentsInv
  <2>14. QED
    BY <2>13, <1>3
<1>12. QED
  BY <1>10, <1>11

\* A xor goes on behind a piece or its metadata.
LEMMA OngoingYields ==
  ASSUME NEW x, NEW q, NEW v, x.ph = "active", Working(q), Fit(q, x, v), q.seg = 0 => Xored(q, x, v)
  PROVE  Yields(x, v, Result(x, q)) /\ ~Succeeds(x)
BY DEF Yields, Holds, Result, Same, Succeeds

LEMMA XorTaskDoneTurns ==
  ASSUME Pure, Sure, NEW r \in Reqs, NEW success \in BOOLEAN, XorTaskDone(r, success)
  PROVE  \E i \in IOs : Turn(i)
<1> DEFINE q0 == req[r]
           i  == q0.io
           x  == io[i]
           q  == [q0 EXCEPT !.task = FALSE, !.seg = @ - 1]
           noted(p) == IF success THEN p ELSE [p EXCEPT !.status = "err"]
           busy == Busy([req EXCEPT ![r] = q])
           v == View(i, x.s)
<1>1. QueueInv /\ Redundant /\ UNCHANGED disk /\ q0.task /\ Tame /\ crashed = "no"
  BY DEF IInv, Others, XorTaskDone, Sure, Pure
<1>2. ~q0.free
  BY <1>1 DEF QueueInv, Linked, Idle, Working
<1>3. i \in IOs /\ AtHand(i, r, x, q0) /\ Stage(q0, x, r \in Waiting)
  BY <1>1, <1>2, AtWork
<1>4. Xoring(q0, x, r \in Waiting)
  BY <1>1, <1>3 DEF Stage, Chunking, Working
<1>5. q0 \in ReqRecord /\ q0.seg \in Nat /\ q0.seg \in 0 .. Segments
  BY <1>3, ParamAssumption DEF AtHand, ReqRecord
<1>6. q0.seg > 0 /\ q0.mdTasks = IF q0.md THEN 1 ELSE 0
  BY <1>1, <1>4, <1>5 DEF Xoring
<1>7. /\ q \in ReqRecord /\ q.task = FALSE /\ q.seg = q0.seg - 1 /\ q.out = q0.out /\ q.free = q0.free
      /\ q.io = q0.io /\ q.s = q0.s /\ q.target = q0.target /\ q.mdTasks = q0.mdTasks /\ q.md = q0.md
      /\ q.own = q0.own /\ q.buf = q0.buf
  <2>1. q0.seg - 1 \in 0 .. Segments
    BY <1>5, <1>6, ParamAssumption
  <2> DEFINE n == q0.seg - 1
  <2>2. q = [q0 EXCEPT !.task = FALSE, !.seg = n]
    OBVIOUS
  <2> HIDE DEF n
  <2>3. q.seg = n /\ q \in ReqRecord
    BY <2>1, <2>2, <1>5 DEF ReqRecord, n
  <2>4. QED
    BY <2>2, <2>3, <1>5 DEF ReqRecord, n
<1>8. \/ /\ q.seg > 0
         /\ \E e \in XorContinue(q, busy) : \E h \in AfterXor(x, e) :
              Take(i, r, [h EXCEPT !.q = noted(@)])
      \/ /\ ~(q.seg > 0)
         /\ \E w \in XorWrites(x, noted(q)) :
              \E p \in IF XorIsOver(q) THEN XorDone(w.x, w.q) ELSE {Result(w.x, w.q)} : Take(i, r, p)
  BY DEF XorTaskDone
<1>9. AtHand(i, r, x, q) /\ AtXor(q, x)
  BY <1>3, <1>4, <1>7 DEF AtHand, Owned, Xoring, AtXor
<1>10. Holds(q0, x, v) /\ InFlight(x) /\ Entered(i, x) /\ v \in Views
  BY <1>1, <1>2, HeldNow
<1>11. Fit(q, x, v)
  BY <1>7, <1>10, FitSame DEF Holds, Fit
<1>12. io[i] = x /\ v = View(i, x.s)
  OBVIOUS
<1> HIDE DEF q0, i, x, q, busy, v
<1>13. CASE q.seg > 0
  <2>a. PICK e \in XorContinue(q, busy) : \E h \in AfterXor(x, e) : Take(i, r, [h EXCEPT !.q = noted(@)])
    BY <1>8, <1>13
  <2>1. PICK h \in AfterXor(x, e) : Take(i, r, [h EXCEPT !.q = noted(@)])
    BY <2>a
  <2>2. q.mdTasks = IF q.md THEN 1 ELSE 0
    BY <1>6, <1>7
  <2>3. Good(i, r, h)
    BY <2>1, <2>2, <1>1, <1>7, <1>9, <1>13, XorContinueGood
  <2>4. Yields(x, v, h)
    BY <2>1, <2>2, <1>1, <1>7, <1>9, <1>11, <1>13, XorContinueYields
  <2>5. PICK p : p = [h EXCEPT !.q = IF success THEN @ ELSE [@ EXCEPT !.status = "err"]] /\ Take(i, r, p)
    BY <2>1
  <2>6. Good(i, r, p) /\ Yields(x, v, p)
    BY <2>3, <2>4, <2>5, NotedGood, NotedYields
  <2>7. Turn(i)
    BY <2>5, <2>6, <1>1, <1>3, <1>10, <1>12, TakeTurns DEF Sure, ContentsInv
  <2>8. QED
    BY <2>7, <1>3
<1>14. CASE ~(q.seg > 0)
  <2> DEFINE nq == noted(q)
  <2>1. PICK w \in XorWrites(x, nq) :
          \E p \in IF XorIsOver(q) THEN XorDone(w.x, w.q) ELSE {Result(w.x, w.q)} : Take(i, r, p)
    BY <1>8, <1>14
  <2>2. PICK p \in IF XorIsOver(q) THEN XorDone(w.x, w.q) ELSE {Result(w.x, w.q)} : Take(i, r, p)
    BY <2>1
  <2>3. /\ nq \in ReqRecord /\ nq.task = FALSE /\ nq.seg = q.seg /\ nq.out = q.out /\ nq.free = q.free
        /\ nq.io = q.io /\ nq.s = q.s /\ nq.target = q.target /\ nq.mdTasks = q.mdTasks /\ nq.md = q.md
        /\ nq.own = q.own /\ nq.buf = q.buf
    BY <1>7 DEF ReqRecord
  <2> HIDE DEF nq
  <2>4. AtHand(i, r, x, nq) /\ AtXor(nq, x)
    BY <2>3, <1>9 DEF AtHand, Owned, AtXor
  <2>5. Fit(nq, x, v)
    BY <2>3, <1>11, FitSame DEF Fit
  <2>6. /\ AtHand(i, r, w.x, w.q) /\ AtXor(w.q, w.x)
        /\ w.q.task = FALSE /\ w.q.mdTasks = q.mdTasks /\ w.q.md = q.md /\ w.q.seg = q.seg
    BY <2>1, <2>3, <2>4, XorWritesGood
  <2>7. /\ Fit(w.q, w.x, v) /\ Xored(w.q, w.x, v) /\ Same(w.x, x)
    BY <2>1, <2>4, <2>5, <1>10, XorWritesXored
  <2>8. q.seg = 0
    BY <1>5, <1>6, <1>7, <1>14
  <2> DEFINE y == w.x
             z == w.q
  <2>9. /\ AtHand(i, r, y, z) /\ AtXor(z, y) /\ z.task = FALSE /\ z.mdTasks = q.mdTasks
        /\ z.md = q.md /\ z.seg = 0 /\ Fit(z, y, v) /\ Xored(z, y, v) /\ Same(y, x)
        /\ p \in IF XorIsOver(q) THEN XorDone(y, z) ELSE {Result(y, z)}
    BY <2>2, <2>6, <2>7, <2>8
  <2> HIDE DEF y, z
  <2>10. Good(i, r, p) /\ Yields(y, v, p)
    <3>1. CASE XorIsOver(q)
      <4>1. ~Working(z)
        BY <3>1, <2>9, <1>6, <1>7 DEF XorIsOver, Working
      <4>2. p \in XorDone(y, z)
        BY <2>9, <3>1
      <4>3. Good(i, r, p)
        BY <4>1, <4>2, <2>9, <1>1, XorDoneGood
      <4>4. Yields(y, v, p)
        BY <4>1, <4>2, <2>9, <1>1, XorDoneYields
      <4>5. QED
        BY <4>3, <4>4
    <3>2. CASE ~XorIsOver(q)
      <4>1. z.md /\ z.mdTasks = 1
        BY <3>2, <2>8, <2>9, <1>6, <1>7 DEF XorIsOver
      <4>2. Xoring(z, y, FALSE) /\ Working(z)
        BY <4>1, <2>9 DEF Xoring, Working
      <4>3. p = Result(y, z) /\ Stage(z, y, FALSE) /\ y.ph = "active"
        BY <3>2, <4>2, <2>9 DEF Stage, AtHand, Owned
      <4> DEFINE out == [x |-> y, q |-> z, enq |-> FALSE, bufs |-> FALSE, drain |-> FALSE, crash |-> "no"]
      <4>4. Good(i, r, out)
        BY <4>2, <4>3, <2>9, Ongoing
      <4>5. p = out
        BY <4>3 DEF Result
      <4>6. Yields(y, v, Result(y, z))
        BY <4>2, <4>3, <2>9, OngoingYields
      <4>7. QED
        BY <4>3, <4>4, <4>5, <4>6
    <3>3. QED
      BY <3>1, <3>2
  <2>11. Entered(i, y) /\ y.s = x.s
    BY <2>9, <1>10, <1>12 DEF Entered, Same
  <2>12. Turn(i)
    BY <2>2, <2>10, <2>11, <1>1, <1>3, <1>10, <1>12, TakeTurns DEF Sure, ContentsInv
  <2>13. QED
    BY <2>12, <1>3
<1>15. QED
  BY <1>13, <1>14

LEMMA XorMdDoneTurns ==
  ASSUME Pure, Sure, NEW r \in Reqs, NEW success \in BOOLEAN, XorMdDone(r, success)
  PROVE  \E i \in IOs : Turn(i)
<1> DEFINE q0 == req[r]
           i  == q0.io
           x  == io[i]
           q  == [MdOver(q0) EXCEPT !.status = IF success THEN @ ELSE "err"]
           v  == View(i, x.s)
<1>1. QueueInv /\ Redundant /\ UNCHANGED disk /\ q0.mdTasks > 0 /\ Tame /\ crashed = "no"
  BY DEF IInv, Others, XorMdDone, Sure, Pure
<1>2. ~q0.free
  BY <1>1 DEF QueueInv, Linked, Idle, Working
<1>3. i \in IOs /\ AtHand(i, r, x, q0) /\ Stage(q0, x, r \in Waiting)
  BY <1>1, <1>2, AtWork
<1>4. Xoring(q0, x, r \in Waiting)
  BY <1>1, <1>3 DEF Stage, Chunking, Working
<1>5. q0 \in ReqRecord /\ q0.seg \in Nat /\ q0.status \in {"ok", "err"}
  BY <1>3, ParamAssumption DEF AtHand, ReqRecord
<1>6. q0.mdTasks = 1 /\ r \notin Waiting /\ (q0.seg > 0 <=> q0.task) /\ Working(q0)
  <2>1. q0.md
    BY <1>1, <1>4 DEF Xoring
  <2>2. WithMd
    BY <2>1, <1>3 DEF AtHand
  <2>3. r \notin Waiting
    BY <2>2, <1>4 DEF Xoring
  <2>4. q0.task \in BOOLEAN
    BY <1>5 DEF ReqRecord
  <2>5. QED
    BY <2>1, <2>3, <2>4, <1>1, <1>4, <1>5 DEF Xoring, Working
<1>7. /\ q \in ReqRecord /\ q.task = q0.task /\ q.seg = q0.seg /\ q.out = q0.out /\ q.free = q0.free
      /\ q.io = q0.io /\ q.s = q0.s /\ q.target = q0.target /\ q.mdTasks = 0 /\ q.md = FALSE
      /\ q.own = q0.own /\ q.buf = q0.buf
  <2> DEFINE y == MdOver(q0)
  <2>1. y = [q0 EXCEPT !.mdTasks = 0, !.md = FALSE]
    BY <1>6 DEF MdOver
  <2> HIDE DEF y
  <2>2. /\ y \in ReqRecord /\ y.task = q0.task /\ y.seg = q0.seg /\ y.out = q0.out /\ y.free = q0.free
        /\ y.io = q0.io /\ y.s = q0.s /\ y.target = q0.target /\ y.mdTasks = 0 /\ y.md = FALSE
        /\ y.own = q0.own /\ y.buf = q0.buf /\ y.status \in {"ok", "err"}
    BY <2>1, <1>5 DEF ReqRecord
  <2> DEFINE st == IF success THEN y.status ELSE "err"
  <2>3. q = [y EXCEPT !.status = st] /\ st \in {"ok", "err"}
    BY <2>2 DEF y
  <2> HIDE DEF st, q
  <2>4. QED
    BY <2>2, <2>3 DEF ReqRecord
<1>8. \E p \in IF XorIsOver(q) THEN XorDone(x, q) ELSE {Result(x, q)} : Take(i, r, p)
  BY DEF XorMdDone
<1>9. AtHand(i, r, x, q) /\ AtXor(q, x)
  BY <1>3, <1>4, <1>7 DEF AtHand, Owned, Xoring, AtXor
<1>10. Holds(q0, x, v) /\ InFlight(x) /\ Entered(i, x)
  BY <1>1, <1>2, HeldNow
<1>11. io[i] = x /\ v = View(i, x.s)
  OBVIOUS
<1> HIDE DEF q0, i, x, q, v
<1>12. Fit(q, x, v)
  BY <1>7, <1>10, FitSame DEF Holds, Fit
<1>13. q.seg = 0 => Xored(q, x, v)
  BY <1>6, <1>7, <1>10 DEF Holds, Xored
<1>14. PICK p \in IF XorIsOver(q) THEN XorDone(x, q) ELSE {Result(x, q)} : Take(i, r, p)
  BY <1>8
<1>15. Good(i, r, p) /\ Yields(x, v, p)
  <2>1. CASE XorIsOver(q)
    <3>1. ~Working(q) /\ q.seg = 0
      BY <2>1, <1>5, <1>6, <1>7 DEF XorIsOver, Working
    <3>2. p \in XorDone(x, q)
      BY <1>14, <2>1
    <3>3. Good(i, r, p)
      BY <3>1, <3>2, <1>1, <1>9, XorDoneGood
    <3>4. Yields(x, v, p)
      BY <3>1, <3>2, <1>1, <1>9, <1>12, <1>13, XorDoneYields
    <3>5. QED
      BY <3>3, <3>4
  <2>2. CASE ~XorIsOver(q)
    <3>1. q.seg > 0 /\ q.task
      BY <2>2, <1>5, <1>6, <1>7 DEF XorIsOver
    <3>2. q.task = TRUE
      BY <3>1, <1>7 DEF ReqRecord
    <3>3. Xoring(q, x, FALSE) /\ Working(q) /\ x.ph = "active"
      BY <3>1, <3>2, <1>7, <1>9 DEF Xoring, Working, AtHand, Owned
    <3> DEFINE out == [x |-> x, q |-> q, enq |-> FALSE, bufs |-> FALSE, drain |-> FALSE, crash |-> "no"]
    <3>4. Good(i, r, out)
      BY <3>3, <1>9, Ongoing DEF Stage
    <3>5. p = Result(x, q) /\ p = out
      BY <1>14, <2>2 DEF Result
    <3>6. Yields(x, v, Result(x, q))
      BY <3>3, <1>12, <1>13, OngoingYields
    <3>7. QED
      BY <3>4, <3>5, <3>6
  <2>3. QED
    BY <2>1, <2>2
<1>16. Turn(i)
  BY <1>14, <1>15, <1>1, <1>3, <1>10, <1>11, TakeTurns DEF Sure, ContentsInv
<1>17. QED
  BY <1>16, <1>3

-----------------------------------------------------------------------------
(* The contents stay.                                                       *)

\* Nothing is under way when a base bdev goes.
LEMMA RemoveBaseContents ==
  ASSUME IInv, ContentsInv, History, NEW c, RemoveBase(c)
  PROVE  ContentsInv' /\ want' = want /\ clean' = clean
<1>1. /\ UNCHANGED <<io, req, retryQ, disk, crashed>> /\ baseCh' \subseteq baseCh
      /\ \A j \in IOs : ~InFlight(io[j]) /\ ~InFlight(io'[j]) /\ ~Ended(j)
  BY DEF RemoveBase, InFlight, Ended
<1>2. \A j, k \in IOs : ~Conflict(io', j, k)
  BY <1>1 DEF Conflict
<1>3. clean' = clean /\ clean \subseteq IOs
  BY <1>2 DEF History, IInv, Others
<1>4. want' = want
  <2> DEFINE running(s) == {j \in IOs : IsWrite(io'[j]) /\ io'[j].s = s /\ InFlight(io'[j])}
             ended(s)   == {j \in IOs : IsWrite(io'[j]) /\ io'[j].s = s /\ Ended(j)}
  <2>1. want' = [s \in Stripes |-> IF running(s) # {} THEN Unknown
                 ELSE IF ended(s) = {} THEN want[s]
                 ELSE LET k == CHOOSE j \in ended(s) : TRUE
                      IN  IF io'[k].res = "success" /\ k \in clean THEN io'[k].data ELSE Unknown]
    BY DEF History
  <2>2. \A s : running(s) = {} /\ ended(s) = {}
    BY <1>1
  <2> HIDE DEF running, ended
  <2>3. want' = [s \in Stripes |-> want[s]]
    BY <2>1, <2>2
  <2>4. want \in [Stripes -> StripeData \cup {Unknown}]
    BY DEF IInv, Others
  <2>5. QED
    BY <2>3, <2>4
<1>5. \A r \in Reqs : req[r].free
  <2>1. \A r \in Reqs : ~req[r].free => req[r].io \in IOs /\ io[req[r].io].ph = "active"
    BY DEF IInv, QueueInv, Linked, Owned
  <2>2. QED
    BY <2>1, <1>1 DEF InFlight
<1>6. (\A j \in clean, k \in IOs : ~Conflict(io, j, k))'
  BY <1>1, <1>2, <1>3 DEF Conflict, InFlight, IsWrite
<1>7. StripeIsWritten'
  BY <1>1, <1>4 DEF ContentsInv, StripeIsWritten
<1>8. QED
  BY <1>1, <1>3, <1>4, <1>5, <1>6, <1>7 DEF ContentsInv

\* A step is the turn of one I/O, or a base bdev goes.
LEMMA NextTurns ==
  ASSUME Pure, IInv, IInv', ContentsInv, Next
  PROVE  /\ crashed = "no" /\ History
         /\ (\E i \in IOs : Turn(i)) \/ (\E c \in Removable : RemoveBase(c))
<1>a. ~OthersUseAccel
  BY DEF OthersUseAccel, Pure
<1>1. crashed = "no" /\ History
  BY <1>a DEF Next, Step
<1>2. UNCHANGED baseCh => Sure
  BY <1>1 DEF Sure
<1>3. ASSUME NEW i \in IOs, Submit(i) \/ Resubmit(i)  PROVE Turn(i)
  <2>1. UNCHANGED baseCh
    BY <1>3 DEF Submit, Resubmit
  <2>2. QED
    BY <1>2, <1>3, <2>1, SubmitTurns, ResubmitTurns
<1>4. ASSUME NEW i \in IOs, IoStep(i)  PROVE Turn(i)
  <2>1. UNCHANGED baseCh
    BY <1>4 DEF IoStep, RetryRw, RetryChunks, DirectReadComplete
  <2>2. QED
    BY <1>2, <1>4, <2>1, RetryRwTurns, RetryChunksTurns, DirectReadTurns DEF IoStep
<1>5. ASSUME NEW r \in Reqs, ReqStep(r)  PROVE \E i \in IOs : Turn(i)
  <2>1. UNCHANGED baseCh
    BY <1>5 DEF ReqStep, ChunkComplete, XorTaskDone, XorMdDone
  <2>2. PICK success \in BOOLEAN : \/ \E c \in Chunks : ChunkComplete(r, c, success)
                                   \/ XorTaskDone(r, success)
                                   \/ XorMdDone(r, success)
    BY <1>5 DEF ReqStep
  <2>3. QED
    BY <1>2, <2>1, <2>2, ChunkCompleteTurns, XorTaskDoneTurns, XorMdDoneTurns
<1>6. \/ \E i \in IOs : Submit(i) \/ Resubmit(i) \/ IoStep(i)
      \/ \E r \in Reqs : ReqStep(r)
      \/ \E c \in Removable : RemoveBase(c)
  BY <1>a DEF Next, Step
<1>7. QED
  BY <1>1, <1>3, <1>4, <1>5, <1>6

LEMMA InitContents ==
  ASSUME Init
  PROVE  ContentsInv
<1>1. \A r \in Reqs : req[r].free
  BY DEF Init
<1>2. retryQ = << >> /\ \A i \in IOs : ~InFlight(io[i])
  BY DEF Init, InFlight
<1>3. StripeIsWritten
  <2>1. SUFFICES ASSUME NEW s \in Stripes, NEW c \in baseCh
                 PROVE  disk[s][c] = Right(s, NoData, c)
    BY DEF Init, StripeIsWritten, Right, ParityOf
  <2>2. c \in Chunks /\ disk[s][c] = 0
    BY <2>1 DEF Init
  <2>3. {d \in DataIdx : NoData[d] = 1} = {}
    BY DEF NoData
  <2>4. ParityOf(NoData) = 0
    BY <2>3, FS_EmptySet DEF ParityOf
  <2>5. c # ParityIndex(s) => NoData[DataOf(s, c)] = 0
    BY <2>2, DataSlots DEF NoData
  <2>6. QED
    BY <2>2, <2>4, <2>5 DEF Right
<1>4. QED
  BY <1>1, <1>2, <1>3 DEF ContentsInv, Conflict

LEMMA NextContents ==
  ASSUME Pure, IInv, IInv', ContentsInv, [Next]_vars
  PROVE  ContentsInv'
<1>1. CASE Next
  <2>1. /\ crashed = "no" /\ History
        /\ (\E i \in IOs : Turn(i)) \/ (\E c \in Removable : RemoveBase(c))
    BY <1>1, NextTurns
  <2>2. QED
    BY <2>1, TurnKeeps, RemoveBaseContents
<1>2. CASE UNCHANGED vars
  <2>1. /\ io' = io /\ req' = req /\ retryQ' = retryQ /\ baseCh' = baseCh /\ disk' = disk
        /\ crashed' = crashed /\ want' = want /\ clean' = clean
    BY <1>2 DEF vars
  <2>2. (\A i \in clean, j \in IOs : ~Conflict(io, i, j))'
    BY <2>1 DEF ContentsInv, Conflict, InFlight, IsWrite
  <2>3. StripeIsWritten'
    BY <2>1 DEF ContentsInv, StripeIsWritten
  <2>4. ASSUME crashed' = "no", NEW r \in Reqs, ~req'[r].free
        PROVE  Holds(req'[r], io'[req'[r].io],
                     [sure |-> req'[r].io \in clean', row |-> disk'[io'[req'[r].io].s],
                      w |-> want'[io'[req'[r].io].s]])
    BY <2>1, <2>4 DEF ContentsInv, ViewOf
  <2>5. (crashed = "no" =>
            \A r \in Reqs : ~req[r].free => Holds(req[r], io[req[r].io], ViewOf(req[r].io)))'
    <3>1. ASSUME crashed' = "no", NEW r \in Reqs, ~req'[r].free
          PROVE  Holds(req[r], io[req[r].io], ViewOf(req[r].io))'
      <4> DEFINE v == [sure |-> req'[r].io \in clean', row |-> disk'[io'[req'[r].io].s],
                       w |-> want'[io'[req'[r].io].s]]
      <4>1. ViewOf(req[r].io)' = v
        BY DEF ViewOf
      <4>2. Holds(req'[r], io'[req'[r].io], v)
        BY <2>4, <3>1
      <4> HIDE DEF v
      <4>3. QED
        BY <2>1, <4>1, <4>2 DEF Holds, Fit, DataThere, LaidSoFar, ReadSoFar, Xored
    <3>2. QED
      BY <3>1
  <2>6. QED
    BY <2>1, <2>2, <2>3, <2>5 DEF ContentsInv
<1>3. QED
  BY <1>1, <1>2

LEMMA ContentsHold ==
  ASSUME Pure
  PROVE  Spec => [](IInv /\ ContentsInv)
<1>1. Init => IInv /\ ContentsInv
  BY InitIInv, InitContents
<1>2. IInv /\ ContentsInv /\ [Next]_vars => (IInv /\ ContentsInv)'
  BY NextIInv, NextContents DEF Pure
<1>3. QED
  BY <1>1, <1>2, PTL DEF Spec

\* Once a full-stripe write has succeeded, every base bdev of the array holds its
\* chunk of the data, or the parity of it, through the submission errors, retries and
\* missing base bdevs the write may have met, until the next write of the stripe.
THEOREM StripesAreWritten == ASSUME Pure PROVE Spec => []StripeIsWritten
<1>1. ContentsInv => StripeIsWritten
  BY DEF ContentsInv
<1>2. QED
  BY <1>1, ContentsHold, PTL

-----------------------------------------------------------------------------
(* What the users of the channel are promised.                              *)

\* The I/O as BdevIo sees it, and what is wanted of each of its units.
Phase(x) == IF x.ph = "idle" THEN "new" ELSE IF InFlight(x) THEN "running"
            ELSE IF x.res = "success" THEN "ok" ELSE "failed"
Asked(x) == [kind |-> x.type, units |-> Covers(x), data |-> [u \in Covers(x) |-> x.data[u[2]]]]

Cells  == Stripes \X DataIdx
phases == [i \in IOs |-> Phase(io[i])]
whats  == [i \in IOs |-> Asked(io[i])]
gots   == [i \in IOs |-> io[i].buf]
wants  == [u \in Cells |-> want[u[1]][u[2]]]

LEMMA AskedFields ==
  ASSUME NEW x \in IoRecord
  PROVE  /\ Asked(x).units = Covers(x) /\ Asked(x).kind = x.type
         /\ Covers(x) \subseteq Cells
         /\ \A u \in Covers(x) : u[1] = x.s /\ Asked(x).data[u] = x.data[u[2]]
         /\ IsWrite(x) => \A u \in Cells : u \in Covers(x) <=> u[1] = x.s
         /\ ~IsWrite(x) => Covers(x) = {<<x.s, x.d>>}
<1>1. x.s \in Stripes /\ x.d \in DataIdx
  BY DEF IoRecord
<1>2. Covers(x) \subseteq Cells
  BY <1>1 DEF Covers, Cells
<1>3. IsWrite(x) => Covers(x) = {x.s} \X DataIdx
  BY DEF Covers
<1>4. ~IsWrite(x) => Covers(x) = {<<x.s, x.d>>}
  BY DEF Covers
<1>5. \A u \in Covers(x) : u[1] = x.s
  BY DEF Covers
<1>6. Asked(x).units = Covers(x) /\ Asked(x).kind = x.type /\ \A u \in Covers(x) : Asked(x).data[u] = x.data[u[2]]
  BY DEF Asked
<1>7. IsWrite(x) => \A u \in Cells : u \in Covers(x) <=> u[1] = x.s
  BY <1>3 DEF Cells
<1>8. QED
  BY <1>2, <1>4, <1>5, <1>6, <1>7

LEMMA OverlapIsConflict ==
  ASSUME NEW x \in IoRecord, NEW y \in IoRecord
  PROVE  Bdev!Overlap(Asked(x), Asked(y)) <=> x.s = y.s /\ (IsWrite(x) \/ IsWrite(y))
<1>1. x.s \in Stripes /\ x.d \in DataIdx /\ y.s \in Stripes /\ y.d \in DataIdx
  BY DEF IoRecord
<1>2. ASSUME x.s = y.s, IsWrite(x) \/ IsWrite(y)  PROVE Covers(x) \cap Covers(y) # {}
  <2>1. CASE IsWrite(x)
    <3>1. <<y.s, y.d>> \in Covers(x) /\ <<y.s, y.d>> \in Covers(y)
      BY <1>1, <1>2, <2>1 DEF Covers
    <3>2. QED
      BY <3>1
  <2>2. CASE IsWrite(y)
    <3>1. <<x.s, x.d>> \in Covers(x) /\ <<x.s, x.d>> \in Covers(y)
      BY <1>1, <1>2, <2>2 DEF Covers
    <3>2. QED
      BY <3>1
  <2>3. QED
    BY <1>2, <2>1, <2>2
<1>3. ASSUME NEW u \in Covers(x), u \in Covers(y)  PROVE x.s = y.s
  BY <1>3, AskedFields
<1>4. "write" \in {x.type, y.type} <=> IsWrite(x) \/ IsWrite(y)
  BY DEF IsWrite
<1>5. Bdev!Overlap(Asked(x), Asked(y)) <=> Covers(x) \cap Covers(y) # {} /\ "write" \in {x.type, y.type}
  BY AskedFields DEF Bdev!Overlap
<1>6. QED
  BY <1>2, <1>3, <1>4, <1>5

LEMMA PhaseIs ==
  ASSUME NEW x, x.ph \in {"idle", "active", "nomem", "done"}
  PROVE  /\ Phase(x) = "new" <=> x.ph = "idle"
         /\ Phase(x) = "running" <=> InFlight(x)
         /\ Phase(x) = "ok" <=> Succeeds(x)
         /\ Phase(x) \in {"ok", "failed"} <=> x.ph = "done"
BY DEF Phase, InFlight, Succeeds

LEMMA InitImplements ==
  ASSUME Init
  PROVE  Bdev!Init
<1>1. IInv
  BY InitIInv
<1>2. \A i \in IOs : io[i].ph = "idle" /\ io[i].type = "read" /\ io[i] \in IoRecord
  BY <1>1 DEF Init, IInv, QueueInv, Typed
<1>3. phases = [i \in IOs |-> "new"]
  BY <1>2 DEF phases, Phase
<1>4. \A i \in IOs : whats[i].kind \in Bdev!Kinds /\ whats[i].units \subseteq Cells
  BY <1>2, AskedFields DEF whats, Bdev!Kinds
<1>5. -1 \notin {wants[u] : u \in Cells}
  <2>1. SUFFICES ASSUME NEW u \in Cells, wants[u] = -1  PROVE FALSE
    OBVIOUS
  <2>2. u[1] \in Stripes /\ u[2] \in DataIdx
    BY <2>1 DEF Cells
  <2>3. wants[u] = 0
    BY <2>1, <2>2 DEF wants, Init, NoData
  <2>4. QED
    BY <2>1, <2>3
<1>6. clean = IOs /\ crashed = "no"
  BY DEF Init
<1>7. QED
  BY <1>3, <1>4, <1>5, <1>6 DEF Bdev!Init, phases, whats, wants, Phase, Asked, Cells

LEMMA TurnAdvances ==
  ASSUME IInv, IInv', NEW i \in IOs, Turn(i)
  PROVE  Bdev!Advance
<1>1. \A j \in IOs : io[j] \in IoRecord /\ io'[j] \in IoRecord
  BY DEF IInv, QueueInv, Typed
<1>2. \A j \in IOs : io[j].ph \in {"idle", "active", "nomem", "done"}
  BY <1>1 DEF IoRecord
<1>3. /\ phases' = [j \in IOs |-> Phase(io'[j])] /\ whats' = [j \in IOs |-> Asked(io'[j])]
      /\ gots' = [j \in IOs |-> io'[j].buf]
  BY DEF phases, whats, gots, Phase, Asked, Covers, InFlight, IsWrite
<1>4. SUFFICES ASSUME NEW j \in IOs
               PROVE  /\ Phase(io'[j]) = Phase(io[j]) \/ <<Phase(io[j]), Phase(io'[j])>> \in Bdev!Moves
                      /\ Phase(io[j]) # "new" => Asked(io'[j]) = Asked(io[j])
                      /\ Phase(io[j]) \in {"ok", "failed"} => io'[j].buf = io[j].buf
  BY <1>3 DEF Bdev!Advance, phases, whats, gots, Phase, Asked
<1>5. CASE j # i
  BY <1>5 DEF Turn
<1>6. CASE j = i
  <2>1. Moved(io[i], io'[i])
    BY DEF Turn
  <2>2. CASE io[i].ph = "idle"
    <3>1. Phase(io[i]) = "new" /\ Phase(io'[i]) \in {"running", "failed"}
      BY <2>1, <2>2 DEF Moved, Phase, InFlight, Succeeds
    <3>2. QED
      BY <1>6, <3>1 DEF Bdev!Moves
  <2>3. CASE InFlight(io[i]) /\ Same(io'[i], io[i])
    <3>1. Phase(io[i]) = "running" /\ Phase(io'[i]) \in {"running", "ok", "failed"}
      BY <2>1, <2>3 DEF Moved, Phase, InFlight
    <3>2. Covers(io'[i]) = Covers(io[i])
      BY <2>3 DEF Same, Covers, IsWrite
    <3>3. Asked(io'[i]) = Asked(io[i])
      BY <2>3, <3>2 DEF Same, Asked
    <3>4. QED
      BY <1>6, <3>1, <3>3 DEF Bdev!Moves
  <2>4. QED
    BY <2>1, <2>2, <2>3 DEF Moved
<1>7. QED
  BY <1>5, <1>6

LEMMA TurnMeets ==
  ASSUME IInv', History
  PROVE  Bdev!Meet
<1>1. \A j \in IOs : io'[j] \in IoRecord
  BY DEF IInv, QueueInv, Typed
<1>2. \A j \in IOs : Phase(io'[j]) = "running" <=> InFlight(io'[j])
  BY <1>1, PhaseIs DEF IoRecord
<1>3. phases' = [j \in IOs |-> Phase(io'[j])] /\ whats' = [j \in IOs |-> Asked(io'[j])]
  BY DEF phases, whats, Phase, Asked, Covers, InFlight, IsWrite
<1>4. \A j, k \in IOs : Conflict(io', j, k) <=>
        j # k /\ Phase(io'[j]) = "running" /\ Phase(io'[k]) = "running"
              /\ Bdev!Overlap(Asked(io'[j]), Asked(io'[k]))
  BY <1>1, <1>2, OverlapIsConflict DEF Conflict
<1> DEFINE running == {j \in IOs : Phase(io'[j]) = "running"}
<1>5. {j \in IOs : \E k \in IOs : Conflict(io', j, k)}
        = {j \in running : \E k \in running \ {j} : Bdev!Overlap(Asked(io'[j]), Asked(io'[k]))}
  BY <1>4
<1>6. clean' = clean \ {j \in running : \E k \in running \ {j} : Bdev!Overlap(Asked(io'[j]), Asked(io'[k]))}
  BY <1>5 DEF History
<1>7. QED
  BY <1>3, <1>6 DEF Bdev!Meet, phases, whats, Phase, Asked

\* An I/O ends for BdevIo when it does for the channel.
LEMMA TurnEnds ==
  ASSUME IInv, IInv', NEW i \in IOs, Turn(i), NEW j \in IOs
  PROVE  /\ Phase(io'[j]) # Phase(io[j]) /\ Phase(io'[j]) \in {"ok", "failed"} <=> Ended(j)
         /\ Ended(j) => j = i
<1>1. /\ io[j].ph \in {"idle", "active", "nomem", "done"}
      /\ io'[j].ph \in {"idle", "active", "nomem", "done"}
  BY DEF IInv, QueueInv, Typed, IoRecord
<1>2. CASE j # i
  BY <1>2 DEF Turn, Ended
<1>3. CASE j = i
  <2>1. io[i].ph # "done"
    BY DEF Turn, Moved, InFlight
  <2>2. Phase(io[j]) \notin {"ok", "failed"}
    BY <1>1, <1>3, <2>1, PhaseIs
  <2>3. Phase(io'[j]) \in {"ok", "failed"} <=> io'[j].ph = "done"
    BY <1>1, PhaseIs
  <2>4. QED
    BY <1>3, <2>1, <2>2, <2>3 DEF Ended
<1>4. QED
  BY <1>2, <1>3

LEMMA TurnStores ==
  ASSUME IInv, IInv', History, NEW i \in IOs, Turn(i)
  PROVE  Bdev!Store
<1>1. \A j \in IOs : /\ io'[j] \in IoRecord /\ io'[j].ph \in {"idle", "active", "nomem", "done"}
  BY DEF IInv, QueueInv, Typed, IoRecord
<1> DEFINE W(u) == {j \in IOs : IsWrite(io'[j]) /\ io'[j].s = u[1]}
           E(u) == {j \in W(u) : Ended(j)}
           Next2(u) == IF \E j \in W(u) : Phase(io'[j]) = "running" THEN -1
                       ELSE IF E(u) = {} THEN wants[u]
                       ELSE IF \E j \in E(u) : E(u) = {j} /\ Phase(io'[j]) = "ok" /\ j \in clean
                       THEN Asked(io'[CHOOSE j \in E(u) : TRUE]).data[u]
                       ELSE -1
<1>2. ASSUME NEW u \in Cells  PROVE want'[u[1]][u[2]] = Next2(u)
  <2>1. u[1] \in Stripes /\ u[2] \in DataIdx
    BY DEF Cells
  <2>2. \A j \in IOs : /\ Phase(io'[j]) = "running" <=> InFlight(io'[j])
                       /\ Phase(io'[j]) = "ok" <=> io'[j].ph = "done" /\ io'[j].res = "success"
    BY <1>1, PhaseIs DEF Succeeds
  <2>3. E(u) = {} \/ E(u) = {i}
    BY TurnEnds
  <2>4. want'[u[1]] = IF \E j \in W(u) : InFlight(io'[j]) THEN Unknown
                      ELSE IF E(u) = {} THEN want[u[1]]
                      ELSE LET k == CHOOSE j \in E(u) : TRUE
                           IN  IF io'[k].res = "success" /\ k \in clean THEN io'[k].data ELSE Unknown
    <3> DEFINE running == {j \in IOs : IsWrite(io'[j]) /\ io'[j].s = u[1] /\ InFlight(io'[j])}
               ended   == {j \in IOs : IsWrite(io'[j]) /\ io'[j].s = u[1] /\ Ended(j)}
    <3>1. want'[u[1]] = IF running # {} THEN Unknown
                        ELSE IF ended = {} THEN want[u[1]]
                        ELSE LET k == CHOOSE j \in ended : TRUE
                             IN  IF io'[k].res = "success" /\ k \in clean THEN io'[k].data ELSE Unknown
      BY <2>1 DEF History
    <3>2. E(u) = ended /\ ((\E j \in W(u) : InFlight(io'[j])) <=> running # {})
      OBVIOUS
    <3> HIDE DEF W, E, running, ended
    <3>3. QED
      BY <3>1, <3>2
  <2>5. (\E j \in W(u) : InFlight(io'[j])) <=> \E j \in W(u) : Phase(io'[j]) = "running"
    BY <2>2
  <2>6. Unknown[u[2]] = -1 /\ wants[u] = want[u[1]][u[2]]
    BY <2>1 DEF Unknown, wants
  <2>7. CASE E(u) = {}
    <3> HIDE DEF W, E
    <3>1. QED
      BY <2>4, <2>5, <2>6, <2>7
  <2>8. CASE E(u) = {i}
    <3>1. (CHOOSE j \in E(u) : TRUE) = i
      BY <2>8
    <3>2. IsWrite(io'[i]) /\ io'[i].s = u[1] /\ io'[i].ph = "done"
      BY <2>8 DEF Ended
    <3>3. Asked(io'[i]).data[u] = io'[i].data[u[2]]
      <4>1. u \in Covers(io'[i])
        BY <1>1, <3>2, AskedFields
      <4>2. QED
        BY <4>1, <1>1, AskedFields
    <3>4. Phase(io'[i]) = "ok" <=> io'[i].res = "success"
      BY <2>2, <3>2
    <3> HIDE DEF W, E
    <3>5. QED
      BY <2>4, <2>5, <2>6, <2>8, <3>1, <3>3, <3>4
  <2>9. QED
    BY <2>3, <2>7, <2>8
<1>3. \A j \in IOs : whats'[j] = Asked(io'[j]) /\ phases'[j] = Phase(io'[j]) /\ phases[j] = Phase(io[j])
  BY DEF whats, phases, Asked, Phase, Covers, InFlight, IsWrite
<1>4. ASSUME NEW u \in Cells
      PROVE  Next2(u) =
       LET writes == {j \in IOs : whats'[j].kind = "write" /\ u \in whats'[j].units}
           ended  == {j \in writes : phases'[j] # phases[j] /\ phases'[j] \in {"ok", "failed"}}
       IN  IF \E j \in writes : phases'[j] = "running" THEN -1
           ELSE IF ended = {} THEN wants[u]
           ELSE IF \E j \in ended : ended = {j} /\ phases'[j] = "ok" /\ j \in clean
           THEN whats'[CHOOSE j \in ended : TRUE].data[u]
           ELSE -1
  <2>1. W(u) = {j \in IOs : whats'[j].kind = "write" /\ u \in whats'[j].units}
    <3>1. \A j \in IOs : /\ Asked(io'[j]).kind = "write" <=> IsWrite(io'[j])
                         /\ IsWrite(io'[j]) => (u \in Asked(io'[j]).units <=> u[1] = io'[j].s)
      BY <1>1, AskedFields DEF IsWrite
    <3>2. QED
      BY <3>1, <1>3
  <2>2. E(u) = {j \in W(u) : phases'[j] # phases[j] /\ phases'[j] \in {"ok", "failed"}}
    BY <1>3, TurnEnds
  <2>3. W(u) \subseteq IOs /\ E(u) \subseteq IOs
    OBVIOUS
  <2> HIDE DEF W, E
  <2>4. (\E j \in W(u) : Phase(io'[j]) = "running") <=> \E j \in W(u) : phases'[j] = "running"
    BY <1>3, <2>3
  <2>5. (\E j \in E(u) : E(u) = {j} /\ Phase(io'[j]) = "ok" /\ j \in clean)
          <=> \E j \in E(u) : E(u) = {j} /\ phases'[j] = "ok" /\ j \in clean
    BY <1>3, <2>3
  <2>6. E(u) # {} => whats'[CHOOSE j \in E(u) : TRUE] = Asked(io'[CHOOSE j \in E(u) : TRUE])
    BY <1>3, <2>3
  <2>7. Next2(u) = IF \E j \in W(u) : phases'[j] = "running" THEN -1
           ELSE IF E(u) = {} THEN wants[u]
           ELSE IF \E j \in E(u) : E(u) = {j} /\ phases'[j] = "ok" /\ j \in clean
           THEN whats'[CHOOSE j \in E(u) : TRUE].data[u]
           ELSE -1
    BY <2>4, <2>5, <2>6
  <2> HIDE DEF Next2
  <2>8. QED
    BY <2>1, <2>2, <2>7
<1>5. wants' = [u \in Cells |-> want'[u[1]][u[2]]]
  BY DEF wants, Cells, DataIdx, DataChunksNum
<1>6. Bdev!Store <=> wants' = [u \in Cells |->
       LET writes == {j \in IOs : whats'[j].kind = "write" /\ u \in whats'[j].units}
           ended  == {j \in writes : phases'[j] # phases[j] /\ phases'[j] \in {"ok", "failed"}}
       IN  IF \E j \in writes : phases'[j] = "running" THEN -1
           ELSE IF ended = {} THEN wants[u]
           ELSE IF \E j \in ended : ended = {j} /\ phases'[j] = "ok" /\ j \in clean
           THEN whats'[CHOOSE j \in ended : TRUE].data[u]
           ELSE -1]
  BY DEF Bdev!Store, Bdev!Ends, phases, whats, wants, Phase, Asked, Cells
<1> HIDE DEF Next2
<1>7. wants' = [u \in Cells |-> Next2(u)]
  BY <1>2, <1>5
<1>8. QED
  BY <1>4, <1>6, <1>7

LEMMA TurnFetches ==
  ASSUME IInv, IInv', NEW i \in IOs, Turn(i)
  PROVE  Bdev!Fetch
<1>1. \A j \in IOs : /\ io[j] \in IoRecord /\ io'[j] \in IoRecord
                     /\ io'[j].ph \in {"idle", "active", "nomem", "done"}
  BY DEF IInv, QueueInv, Typed, IoRecord
<1>2. clean \subseteq IOs
  BY DEF IInv, Others
<1>3. phases' = [j \in IOs |-> Phase(io'[j])] /\ gots' = [j \in IOs |-> io'[j].buf]
  BY DEF phases, gots, Phase, InFlight
<1>4. SUFFICES ASSUME NEW j \in clean, Phase(io'[j]) # Phase(io[j]), Phase(io'[j]) = "ok",
                      Asked(io[j]).kind = "read", NEW u \in Asked(io[j]).units, wants[u] # -1
               PROVE  io'[j].buf = wants[u]
  BY <1>2, <1>3 DEF Bdev!Fetch, Bdev!Ends, phases, whats, gots, wants, Phase, Asked, Cells
<1>5. j = i /\ Succeeds(io'[i])
  <2>1. j = i
    BY <1>2, <1>4, TurnEnds
  <2>2. QED
    BY <2>1, <1>1, <1>4, PhaseIs
<1>6. Same(io'[i], io[i])
  BY <1>5 DEF Turn, Moved
<1>7. ~IsWrite(io[i]) /\ u = <<io[i].s, io[i].d>> /\ u \in Cells
  <2>1. ~IsWrite(io[i])
    BY <1>1, <1>4, <1>5, AskedFields DEF IsWrite
  <2>2. QED
    BY <2>1, <1>1, <1>4, <1>5, AskedFields
<1>8. wants[u] = want[io[i].s][io[i].d] /\ io[i].s \in Stripes /\ io[i].d \in DataIdx
  BY <1>7 DEF wants, Cells
<1>9. want[io[i].s] # Unknown
  BY <1>4, <1>8 DEF Unknown
<1>10. Told(io'[i], NextView(i))
  BY <1>5 DEF Turn
<1>11. ~IsWrite(io'[i]) /\ io'[i].s = io[i].s /\ io'[i].d = io[i].d
  BY <1>6, <1>7 DEF Same, IsWrite
<1>12. io'[i].buf = want[io[i].s][io[i].d]
  BY <1>4, <1>5, <1>9, <1>10, <1>11 DEF Told, NextView
<1>13. QED
  BY <1>5, <1>8, <1>12

LEMMA NextImplements ==
  ASSUME Pure, IInv, IInv', ContentsInv, [Next]_vars
  PROVE  [Bdev!Next]_(Bdev!vars)
<1>1. CASE Next
  <2>1. /\ crashed = "no" /\ History
        /\ (\E i \in IOs : Turn(i)) \/ (\E c \in Removable : RemoveBase(c))
    BY <1>1, NextTurns
  <2>2. ASSUME NEW i \in IOs, Turn(i)  PROVE Bdev!Next
    <3>1. Bdev!Advance /\ Bdev!Meet /\ Bdev!Store /\ Bdev!Fetch
      BY <2>1, <2>2, TurnAdvances, TurnMeets, TurnStores, TurnFetches
    <3>2. QED
      BY <2>1, <3>1 DEF Bdev!Next
  <2>3. ASSUME NEW c \in Removable, RemoveBase(c)  PROVE UNCHANGED Bdev!vars
    <3>1. io' = io /\ crashed' = crashed /\ want' = want /\ clean' = clean
      BY <2>1, <2>3, RemoveBaseContents DEF RemoveBase
    <3>2. QED
      BY <3>1 DEF Bdev!vars, Covers, InFlight, IsWrite
  <2>4. QED
    BY <2>1, <2>2, <2>3
<1>2. CASE UNCHANGED vars
  BY <1>2 DEF vars, Bdev!vars, Covers, InFlight, IsWrite
<1>3. QED
  BY <1>1, <1>2

\* A user of the channel gets what a bdev promises: each of its I/Os ends once, a late
\* chunk or xor never reaching an I/O that was given back, and a read that no write
\* overlaps returns what the last write put there, read directly or rebuilt.
THEOREM ChannelImplements == ASSUME Pure PROVE Spec => Implements
<1>1. IInv /\ ContentsInv /\ (IInv /\ ContentsInv)' /\ [Next]_vars => [Bdev!Next]_(Bdev!vars)
  BY NextImplements
<1>2. QED
  BY <1>1, ContentsHold, InitImplements, PTL DEF Spec, Implements, Bdev!Spec
=============================================================================
