--------------------------- MODULE HelloBdevProofs ---------------------------
(* Proofs about HelloBdev, for files of any length, any order of the        *)
(* callbacks and any choice of the submissions that are refused: when the   *)
(* application returns 0 the input is on the bdev and the output has what   *)
(* could be read of it; nothing is submitted through a channel given back.  *)
EXTENDS HelloBdev, FiniteSetTheorems, TLAPS

\* Nothing has happened before hello_start.
Fresh ==
  ~started =>
    /\ closes = 0 /\ rc = "none" /\ wait = "none" /\ disk = {}
    /\ off = [op \in Ops |-> 0] /\ inflight = [op \in Ops |-> {}]

\* The large file.  The counts of the bytes written and read are those of the
\* chunks that are on the bdev and in the output or lost, since no chunk has two
\* I/Os; so the reads begin, once, when the whole file is on the bdev.
WritesCount == done["write"] = Cardinality(disk) /\ disk \cap inflight["write"] = {}

WasRead    == buff \cup failed["read"]
ReadsCount == /\ done["read"] = Cardinality(WasRead) /\ WasRead \cap inflight["read"] = {}
              /\ buff \cap failed["read"] = {}

OncePerChunk ==
  /\ wait = "write" \/ inflight["write"] # {} => off["write"] = size
  /\ wait = "read" \/ inflight["read"] # {} => off["read"] = size

ReadsAfterWrites ==
  disk # Chunks => /\ WasRead = {} /\ inflight["read"] = {} /\ wait # "read" /\ off["read"] = 0

\* The channel is given back when reading, or when a chunk will never be written.
ClosedForGood ==
  closes > 0 => \/ disk = Chunks /\ off["read"] = size
                \/ \E c \in Chunks : c \notin disk \cup inflight["write"]

LargeInv ==
  Large => /\ WritesCount /\ ReadsCount /\ OncePerChunk /\ ReadsAfterWrites /\ ClosedForGood
           /\ rc = "ok" => disk = Chunks /\ Chunks \subseteq WasRead

\* The short workloads have one I/O, or one wait, at a time, and none when the
\* channel has been given back.
Quiet == wait = "none" /\ inflight["write"] = {} /\ inflight["read"] = {}

SmallInv ==
  ~Large =>
    /\ size = 1
    /\ closes > 0 => Quiet
    /\ wait # "none" => inflight["write"] = {} /\ inflight["read"] = {}
    /\ inflight["write"] # {} => inflight["read"] = {}
    /\ wait = "read" \/ inflight["read"] # {} => disk = {0}
    /\ closes = 0 => failed["read"] = {}
    /\ rc = "ok" => closes > 0 /\ disk = {0} /\ 0 \in buff /\ failed["read"] = {}

HInv == TypeOK /\ Fresh /\ LargeInv /\ SmallInv


\* What a callback may never do.
Quietens == closes > 0 => \A op \in Ops : inflight'[op] \subseteq inflight[op]

-----------------------------------------------------------------------------

\* The chunks of the file are as many as its size says.
LEMMA ChunksCounted ==
  ASSUME TypeOK, NEW S \in SUBSET Chunks
  PROVE  /\ IsFiniteSet(S) /\ Cardinality(S) \in Nat
         /\ Cardinality(S) >= size => S = Chunks
         /\ S = Chunks => Cardinality(S) = size
<1>1. size \in Nat BY SizeAssumption DEF TypeOK
<1>2. IsFiniteSet(Chunks) /\ Cardinality(Chunks) = size BY <1>1, FS_Interval DEF Chunks
<1>3. IsFiniteSet(S) /\ Cardinality(S) <= size /\ (size = Cardinality(S) => Chunks = S)
  BY <1>2, FS_Subset
<1>4. Cardinality(S) \in Nat BY <1>3, FS_CardinalityType
<1>5. QED BY <1>1, <1>2, <1>3, <1>4

\* hello_start has not run.
LEMMA InitHInv == Init => HInv
<1> SUFFICES ASSUME Init PROVE HInv OBVIOUS
<1>1. workload \in {"small", "large"} BY KindsAssumption DEF Init
<1>2. size \in 0 .. MaxChunks /\ (~Large => size = 1) BY SizeAssumption DEF Init, Large
<1>3. {0} \subseteq Chunks \/ Large BY <1>2 DEF Chunks
<1>4. TypeOK
  <2>1. buff \subseteq Chunks BY <1>3 DEF Init
  <2>2. /\ off \in [Ops -> Nat] /\ done \in [Ops -> Nat]
        /\ inflight \in [Ops -> SUBSET Chunks] /\ failed \in [Ops -> SUBSET Chunks]
    BY DEF Init
  <2>3. started = FALSE /\ wait = "none" /\ disk = {} /\ refused = {} /\ closes = 0 /\ rc = "none"
    BY DEF Init
  <2>4. wait \in Ops \cup {"none"} /\ closes \in 0 .. 2 BY <2>3
  <2>5. disk \subseteq Chunks /\ refused \subseteq Chunks BY <2>3
  <2>6. started \in BOOLEAN /\ rc \in {"none", "ok", "failed"} BY <2>3
  <2>7. QED BY <1>1, <1>2, <2>1, <2>2, <2>4, <2>5, <2>6 DEF TypeOK
<1>5. Fresh BY DEF Init, Fresh, Ops
<1>6. LargeInv
  BY FS_EmptySet DEF Init, LargeInv, WritesCount, ReadsCount, WasRead, OncePerChunk,
     ReadsAfterWrites, ClosedForGood, Ops
<1>7. SmallInv BY <1>2 DEF Init, SmallInv, Ops
<1>8. QED BY <1>4, <1>5, <1>6, <1>7 DEF HInv

\* hello_write or hello_read, called with under under way and w waiting: each
\* chunk of the loop is under way or refused, and it waits or gives up only when
\* the last one was refused.
LEMMA HelloSubmits ==
  ASSUME TypeOK, NEW op \in Ops, NEW under \in [Ops -> SUBSET Chunks], NEW w \in Ops \cup {"none"},
         ~Large => size = 1, closes < 2, Hello(op, under, w)
  PROVE  /\ off' = [off EXCEPT ![op] = IF Large THEN size ELSE @] /\ off' \in [Ops -> Nat]
         /\ inflight' \in [Ops -> SUBSET Chunks] /\ refused' \subseteq Chunks
         /\ \A o \in Ops : o # op => inflight'[o] = under[o]
         /\ under[op] \subseteq inflight'[op] /\ inflight'[op] \subseteq under[op] \cup ToSubmit(op)
         /\ wait' \in {w, op} /\ closes' \in 0 .. 2 /\ rc' \in {rc, "failed"} /\ closes' >= closes
         /\ closes' # closes => /\ closes' = closes + 1
                                /\ \E c \in ToSubmit(op) \cap Chunks : c \notin inflight'[op] \ under[op]
         /\ ~Large => \/ inflight'[op] = under[op] \cup {0} /\ wait' = w /\ closes' = closes
                      \/ inflight'[op] = under[op] /\ wait' = op /\ closes' = closes
                      \/ inflight'[op] = under[op] /\ wait' = w /\ closes' > 0
<1>1. size \in Nat /\ off[op] \in Nat /\ closes \in 0 .. 2 BY SizeAssumption DEF TypeOK
<1>2. ToSubmit(op) \subseteq Chunks BY <1>1 DEF ToSubmit, Chunks
<1>3. PICK bad \in SUBSET ToSubmit(op), answer \in (Faults \cap {"nomem", "submit"}) \cup {"none"} :
        /\ (bad = {}) <=> (answer = "none")
        /\ off' = [off EXCEPT ![op] = IF Large THEN size ELSE @]
        /\ inflight' = [under EXCEPT ![op] = @ \cup (ToSubmit(op) \ bad)]
        /\ refused' = refused \cup bad
        /\ wait' = IF size - 1 \in bad /\ answer = "nomem" THEN op ELSE w
        /\ IF size - 1 \in bad /\ answer = "submit" THEN Close("failed") ELSE UNCHANGED <<closes, rc>>
  BY DEF Hello, Queue
<1>4. off' \in [Ops -> Nat] BY <1>1, <1>3 DEF TypeOK
<1>5. inflight'[op] = under[op] \cup (ToSubmit(op) \ bad) BY <1>3
<1>6. /\ inflight' \in [Ops -> SUBSET Chunks] /\ refused' \subseteq Chunks
      /\ \A o \in Ops : o # op => inflight'[o] = under[o]
  BY <1>2, <1>3 DEF TypeOK
<1>7. /\ wait' \in {w, op} /\ closes' \in 0 .. 2 /\ rc' \in {rc, "failed"} /\ closes' >= closes
      /\ closes' # closes => closes' = closes + 1 /\ size - 1 \in bad
  BY <1>1, <1>3 DEF Close, Stop
<1>8. ~Large => ToSubmit(op) = {0} /\ (bad = {} \/ (bad = {0} /\ size - 1 \in bad))
  <2>1. ~Large => ToSubmit(op) = {0} BY DEF ToSubmit
  <2>2. ~Large => bad \subseteq {0} BY <2>1
  <2>3. ~Large => bad = {} \/ bad = {0} BY <2>2
  <2>4. QED BY <2>1, <2>3
<1>9. ~Large => \/ inflight'[op] = under[op] \cup {0} /\ wait' = w /\ closes' = closes
                \/ inflight'[op] = under[op] /\ wait' = op /\ closes' = closes
                \/ inflight'[op] = under[op] /\ wait' = w /\ closes' > 0
  <2>1. CASE bad = {} BY <1>1, <1>3, <1>5, <1>8, <2>1
  <2>2. CASE bad # {} BY <1>1, <1>3, <1>5, <1>8, <2>2 DEF Close
  <2>3. QED BY <2>1, <2>2
<1>10. QED BY <1>2, <1>3, <1>4, <1>5, <1>6, <1>7, <1>9

-----------------------------------------------------------------------------
(* The callbacks.                                                           *)

\* hello_start submits the writes, or fails.
LEMMA StartStep == ASSUME HInv, Step(Start) PROVE HInv' /\ Quietens
<1>1. TypeOK /\ Fresh /\ (~Large => size = 1) BY DEF HInv, SmallInv
<1>2. /\ closes < 2 /\ UNCHANGED <<workload, size>> /\ ~started /\ started' = TRUE
      /\ UNCHANGED <<done, disk, buff, failed>>
  BY DEF Step, Start
<1>3. /\ closes = 0 /\ rc = "none" /\ wait = "none" /\ disk = {}
      /\ off = [op \in Ops |-> 0] /\ inflight = [op \in Ops |-> {}]
  BY <1>1, <1>2 DEF Fresh
<1>4. Quietens BY <1>3 DEF Quietens
<1>5. CASE Stop("failed") /\ UNCHANGED <<off, inflight, wait, closes, refused>>
  <2>1. rc' = "failed" BY <1>3, <1>5 DEF Stop
  <2>2. TypeOK' BY <1>1, <1>2, <1>5, <2>1 DEF TypeOK, Chunks
  <2>3. LargeInv' /\ SmallInv'
    BY <1>2, <1>3, <1>5, <2>1 DEF HInv, LargeInv, SmallInv, WritesCount, ReadsCount, WasRead,
       OncePerChunk, ReadsAfterWrites, ClosedForGood, Quiet, Chunks, Large
  <2>4. QED BY <1>2, <1>4, <2>2, <2>3 DEF HInv, Fresh
<1>6. CASE Hello("write", inflight, wait)
  <2>1. inflight \in [Ops -> SUBSET Chunks] /\ wait \in Ops \cup {"none"} /\ "write" \in Ops
        /\ size \in Nat
    BY <1>1, SizeAssumption DEF TypeOK, Ops
  <2>2. /\ off' = [off EXCEPT !["write"] = IF Large THEN size ELSE @] /\ off' \in [Ops -> Nat]
        /\ inflight' \in [Ops -> SUBSET Chunks] /\ refused' \subseteq Chunks
        /\ \A o \in Ops : o # "write" => inflight'[o] = {}
        /\ wait' \in {"none", "write"} /\ closes' \in 0 .. 2 /\ rc' \in {"none", "failed"}
        /\ closes' # 0 => \E c \in Chunks : c \notin inflight'["write"]
        /\ ~Large => \/ wait' = "none" /\ closes' = 0
                     \/ inflight'["write"] = {} /\ wait' = "write" /\ closes' = 0
                     \/ inflight'["write"] = {} /\ wait' = "none"
    BY <1>1, <1>2, <1>3, <1>6, <2>1, HelloSubmits DEF Ops
  <2>3. inflight'["read"] = {} /\ off'["read"] = 0 /\ (Large => off'["write"] = size)
    BY <1>3, <2>2 DEF Ops
  <2>4. TypeOK' BY <1>1, <1>2, <2>2 DEF TypeOK, Chunks, Ops
  <2>5. LargeInv'
    <3>1. SUFFICES ASSUME Large PROVE LargeInv'
      BY <1>2 DEF LargeInv, Large
    <3>2. WritesCount' BY <1>2, <1>3, <3>1 DEF HInv, LargeInv, WritesCount
    <3>3. ReadsCount' BY <1>2, <2>3, <3>1 DEF HInv, LargeInv, ReadsCount, WasRead
    <3>4. OncePerChunk' BY <1>2, <2>2, <2>3, <3>1 DEF OncePerChunk
    <3>5. ReadsAfterWrites'
      BY <1>2, <2>2, <2>3, <3>1 DEF HInv, LargeInv, ReadsAfterWrites, WasRead, Chunks
    <3>6. ClosedForGood' BY <1>2, <1>3, <2>2 DEF ClosedForGood, Chunks
    <3>7. QED BY <2>2, <3>2, <3>3, <3>4, <3>5, <3>6 DEF LargeInv
  <2>6. ~Large => failed["read"] = {} BY <1>3 DEF HInv, SmallInv
  <2>7. SmallInv' BY <1>1, <1>2, <2>2, <2>3, <2>6 DEF SmallInv, Quiet, Large
  <2>8. QED BY <1>2, <1>4, <2>4, <2>5, <2>7 DEF HInv, Fresh
<1>7. QED BY <1>5, <1>6 DEF Step, Start


\* The wait entry's callback: all chunks of the large file have been submitted
\* before, and the one I/O of the short workloads is tried again.
LEMMA ResumeStep ==
  ASSUME HInv, NEW op \in Ops, Step(Resume(op)) PROVE HInv' /\ Quietens
<1>1. TypeOK /\ Fresh /\ LargeInv /\ SmallInv /\ (~Large => size = 1) BY DEF HInv, SmallInv
<1>2. /\ closes < 2 /\ UNCHANGED <<workload, size>> /\ wait = op
      /\ Hello(op, inflight, "none") /\ UNCHANGED <<started, done, disk, buff, failed>>
  BY DEF Step, Resume
<1>3. op \in {"write", "read"} /\ started /\ size \in Nat /\ closes \in 0 .. 2
      /\ inflight \in [Ops -> SUBSET Chunks]
  BY <1>1, <1>2, SizeAssumption DEF Ops, Fresh, TypeOK
<1>4. /\ off' = [off EXCEPT ![op] = IF Large THEN size ELSE @] /\ off' \in [Ops -> Nat]
      /\ inflight' \in [Ops -> SUBSET Chunks] /\ refused' \subseteq Chunks
      /\ \A o \in Ops : o # op => inflight'[o] = inflight[o]
      /\ inflight[op] \subseteq inflight'[op] /\ inflight'[op] \subseteq inflight[op] \cup ToSubmit(op)
      /\ wait' \in {"none", op} /\ closes' \in 0 .. 2 /\ rc' \in {rc, "failed"}
      /\ closes' # closes => ToSubmit(op) # {}
      /\ ~Large => \/ inflight'[op] = inflight[op] \cup {0} /\ wait' = "none" /\ closes' = closes
                   \/ inflight'[op] = inflight[op] /\ wait' = op /\ closes' = closes
                   \/ inflight'[op] = inflight[op] /\ wait' = "none" /\ closes' > 0
  BY <1>1, <1>2, <1>3, HelloSubmits
<1>5. TypeOK' BY <1>1, <1>2, <1>3, <1>4 DEF TypeOK, Chunks, Ops
<1>6. CASE Large
  <2>1. off[op] = size BY <1>1, <1>2, <1>3, <1>6 DEF LargeInv, OncePerChunk
  <2>2. ToSubmit(op) = {} BY <1>3, <1>6, <2>1 DEF ToSubmit
  <2>3. \A o \in Ops : inflight'[o] = inflight[o] BY <1>4, <2>2
  <2>4. off' = off /\ closes' = closes BY <1>1, <1>4, <1>6, <2>1, <2>2 DEF TypeOK
  <2>5. "read" \in Ops /\ "write" \in Ops BY DEF Ops
  <2>6. LargeInv'
    BY <1>1, <1>2, <1>3, <1>4, <1>6, <2>3, <2>4, <2>5 DEF LargeInv, WritesCount, ReadsCount,
       WasRead, OncePerChunk, ReadsAfterWrites, ClosedForGood, Chunks, Large
  <2>7. SmallInv' BY <1>2, <1>6 DEF SmallInv, Large
  <2>8. Quietens BY <2>3 DEF Quietens
  <2>9. QED BY <1>2, <1>3, <1>5, <2>6, <2>7, <2>8 DEF HInv, Fresh
<1>7. CASE ~Large
  <2>1. closes = 0 /\ inflight["write"] = {} /\ inflight["read"] = {} /\ rc # "ok"
    BY <1>1, <1>2, <1>3, <1>7 DEF SmallInv, Quiet
  <2>2. op = "read" => disk = {0} BY <1>1, <1>2, <1>7 DEF SmallInv
  <2>3. SmallInv' BY <1>1, <1>2, <1>3, <1>4, <1>7, <2>1, <2>2 DEF SmallInv, Quiet, Large, Ops
  <2>4. LargeInv' BY <1>2, <1>7 DEF LargeInv, Large
  <2>5. QED BY <1>2, <1>3, <1>5, <2>1, <2>3, <2>4 DEF HInv, Fresh, Quietens
<1>8. QED BY <1>6, <1>7

\* A write has failed: its chunk will never be on the bdev.
LEMMA WriteFailedStep ==
  ASSUME HInv, NEW c \in Chunks, Step(WriteFailed(c)) PROVE HInv' /\ Quietens
<1>1. TypeOK /\ Fresh /\ LargeInv /\ SmallInv BY DEF HInv
<1>2. /\ closes < 2 /\ UNCHANGED <<workload, size>> /\ c \in inflight["write"]
      /\ inflight' = [inflight EXCEPT !["write"] = @ \ {c}]
      /\ failed' = [failed EXCEPT !["write"] = @ \cup {c}]
      /\ closes' = closes + 1 /\ rc' \in {rc, "failed"}
      /\ UNCHANGED <<started, off, done, wait, disk, buff, refused>>
  BY DEF Step, WriteFailed, Close, Stop
<1>3. started /\ "read" \in Ops /\ "write" \in Ops /\ closes \in 0 .. 2
      /\ inflight \in [Ops -> SUBSET Chunks] /\ failed \in [Ops -> SUBSET Chunks]
  BY <1>1, <1>2 DEF Fresh, Ops, TypeOK
<1>4. /\ inflight'["write"] = inflight["write"] \ {c} /\ inflight'["read"] = inflight["read"]
      /\ failed'["read"] = failed["read"]
  BY <1>2, <1>3
<1>5. TypeOK' BY <1>1, <1>2, <1>3 DEF TypeOK, Chunks
<1>6. Large => c \notin disk BY <1>1, <1>2 DEF LargeInv, WritesCount
<1>7. LargeInv'
  <2>1. SUFFICES ASSUME Large PROVE LargeInv'
    BY <1>2 DEF LargeInv, Large
  <2>2. ClosedForGood' BY <1>2, <1>4, <1>6, <2>1 DEF ClosedForGood, Chunks
  <2>3. QED
    BY <1>1, <1>2, <1>4, <2>1, <2>2 DEF LargeInv, WritesCount, ReadsCount, WasRead,
       OncePerChunk, ReadsAfterWrites, Chunks
<1>8. SmallInv'
  <2>1. SUFFICES ASSUME ~Large PROVE SmallInv'
    BY <1>2 DEF SmallInv, Large
  <2>2. size = 1 /\ c = 0 /\ inflight["write"] \subseteq {0} BY <1>1, <1>3, <2>1 DEF SmallInv, Chunks
  <2>3. closes = 0 /\ wait = "none" /\ inflight["read"] = {} /\ rc # "ok"
    BY <1>1, <1>2, <1>3, <2>1 DEF SmallInv, Quiet
  <2>4. QED BY <1>2, <1>4, <2>1, <2>2, <2>3 DEF SmallInv, Quiet, Large
<1>9. Quietens BY <1>4 DEF Quietens, Ops
<1>10. QED BY <1>2, <1>3, <1>5, <1>7, <1>8, <1>9 DEF HInv, Fresh

\* A write has ended, and with the last one of all the reads begin.
LEMMA WriteDoneStep ==
  ASSUME HInv, NEW c \in Chunks, Step(WriteDone(c)) PROVE HInv' /\ Quietens
<1> DEFINE under == [inflight EXCEPT !["write"] = @ \ {c}]
           n     == done["write"] + 1
<1>1. TypeOK /\ Fresh /\ LargeInv /\ SmallInv BY DEF HInv
<1>2. /\ closes < 2 /\ UNCHANGED <<workload, size>> /\ c \in inflight["write"]
      /\ disk' = disk \cup {c} /\ done' = [done EXCEPT !["write"] = n]
      /\ UNCHANGED <<started, failed>>
  BY DEF Step, WriteDone
<1>3. \/ AllWritten(n) /\ Hello("read", under, wait) /\ buff' = {}
      \/ ~AllWritten(n) /\ inflight' = under /\ UNCHANGED <<off, wait, buff, closes, rc, refused>>
  BY DEF Step, WriteDone
<1>4. started /\ "read" \in Ops /\ "write" \in Ops /\ closes \in 0 .. 2 /\ size \in Nat
      /\ inflight \in [Ops -> SUBSET Chunks] /\ failed \in [Ops -> SUBSET Chunks]
      /\ disk \subseteq Chunks /\ disk' \subseteq Chunks /\ done \in [Ops -> Nat] /\ n \in Nat
      /\ wait \in Ops \cup {"none"}
  BY <1>1, <1>2, SizeAssumption DEF Fresh, Ops, TypeOK
<1>5. /\ under \in [Ops -> SUBSET Chunks] /\ under["write"] = inflight["write"] \ {c}
      /\ under["read"] = inflight["read"]
      /\ done' \in [Ops -> Nat] /\ done'["write"] = n /\ done'["read"] = done["read"]
  BY <1>2, <1>4
<1>6. Large => n = Cardinality(disk')
  <2>1. SUFFICES ASSUME Large PROVE n = Cardinality(disk')
    OBVIOUS
  <2>2. c \notin disk /\ done["write"] = Cardinality(disk)
    BY <1>1, <1>2, <2>1 DEF LargeInv, WritesCount
  <2>3. IsFiniteSet(disk) BY <1>1, <1>4, ChunksCounted
  <2>4. Cardinality(disk') = Cardinality(disk) + 1 BY <1>2, <2>2, <2>3, FS_AddElement
  <2>5. QED BY <2>2, <2>4
<1>7. Large => (AllWritten(n) <=> disk' = Chunks)
  BY <1>1, <1>4, <1>6, ChunksCounted DEF AllWritten
<1>8. Large => /\ c \notin disk /\ WasRead = {} /\ inflight["read"] = {} /\ wait # "read" /\ off["read"] = 0
               /\ rc # "ok"
  <2>1. SUFFICES ASSUME Large
                 PROVE  /\ c \notin disk /\ WasRead = {} /\ inflight["read"] = {}
                        /\ wait # "read" /\ off["read"] = 0 /\ rc # "ok"
    OBVIOUS
  <2>2. c \notin disk BY <1>1, <1>2, <2>1 DEF LargeInv, WritesCount
  <2>3. WasRead = {} /\ inflight["read"] = {} /\ wait # "read" /\ off["read"] = 0
    BY <1>1, <2>1, <2>2 DEF LargeInv, ReadsAfterWrites
  <2>4. rc # "ok" BY <1>1, <2>1, <2>3 DEF LargeInv
  <2>5. QED BY <2>2, <2>3, <2>4
<1>9. CASE ~AllWritten(n) /\ inflight' = under /\ UNCHANGED <<off, wait, buff, closes, rc, refused>>
  <2>1. Large BY <1>9 DEF AllWritten
  <2>2. TypeOK' BY <1>1, <1>2, <1>4, <1>5, <1>9 DEF TypeOK, Chunks
  <2>3. WritesCount' BY <1>1, <1>2, <1>5, <1>6, <1>9, <2>1 DEF LargeInv, WritesCount
  <2>4. ReadsCount'
    BY <1>1, <1>2, <1>5, <1>9, <2>1 DEF LargeInv, ReadsCount, WasRead
  <2>5. OncePerChunk'
    BY <1>1, <1>2, <1>5, <1>9, <2>1 DEF LargeInv, OncePerChunk
  <2>6. ReadsAfterWrites' BY <1>2, <1>5, <1>8, <1>9, <2>1 DEF ReadsAfterWrites, WasRead, Chunks
  <2>7. closes > 0 => \E d \in Chunks : d \notin disk \cup inflight["write"]
    BY <1>1, <1>8, <2>1 DEF LargeInv, ClosedForGood
  <2>8. ClosedForGood' BY <1>2, <1>5, <1>9, <2>7 DEF ClosedForGood, Chunks
  <2>9. LargeInv' BY <1>8, <1>9, <2>1, <2>3, <2>4, <2>5, <2>6, <2>8 DEF LargeInv
  <2>10. SmallInv' BY <1>2, <2>1 DEF SmallInv, Large
  <2>11. Quietens BY <1>5, <1>9 DEF Quietens, Ops
  <2>12. QED BY <1>2, <1>4, <2>2, <2>9, <2>10, <2>11 DEF HInv, Fresh
<1>10. CASE AllWritten(n) /\ Hello("read", under, wait) /\ buff' = {}
  <2>1. ~Large => size = 1 BY <1>1 DEF SmallInv
  <2>2. /\ off' = [off EXCEPT !["read"] = IF Large THEN size ELSE @] /\ off' \in [Ops -> Nat]
        /\ inflight' \in [Ops -> SUBSET Chunks] /\ refused' \subseteq Chunks
        /\ \A o \in Ops : o # "read" => inflight'[o] = under[o]
        /\ wait' \in {wait, "read"} /\ closes' \in 0 .. 2 /\ rc' \in {rc, "failed"}
        /\ ~Large => \/ inflight'["read"] = under["read"] \cup {0} /\ wait' = wait /\ closes' = closes
                     \/ inflight'["read"] = under["read"] /\ wait' = "read" /\ closes' = closes
                     \/ inflight'["read"] = under["read"] /\ wait' = wait /\ closes' > 0
    BY <1>1, <1>2, <1>4, <1>5, <1>10, <2>1, HelloSubmits
  <2>3. inflight'["write"] = inflight["write"] \ {c} BY <1>4, <1>5, <2>2
  <2>4. TypeOK' BY <1>1, <1>2, <1>4, <1>5, <1>10, <2>2 DEF TypeOK, Chunks
  <2>5. CASE Large
    <3>1. disk' = Chunks BY <1>7, <1>10, <2>5
    <3>2. closes = 0 BY <1>1, <1>2, <1>4, <1>8, <2>5, <3>1 DEF LargeInv, ClosedForGood, TypeOK
    <3>3. off'["read"] = size /\ off'["write"] = off["write"]
      BY <1>1, <1>4, <2>2, <2>5 DEF TypeOK
    <3>4. WritesCount'
      BY <1>1, <1>2, <1>5, <1>6, <2>3, <2>5 DEF LargeInv, WritesCount
    <3>5. WasRead' = {} BY <1>2, <1>8, <1>10, <2>5 DEF WasRead
    <3>6. ReadsCount'
      BY <1>1, <1>2, <1>5, <1>8, <1>10, <2>5, <3>5 DEF LargeInv, ReadsCount
    <3>7. OncePerChunk'
      BY <1>1, <1>2, <2>2, <2>3, <2>5, <3>3 DEF LargeInv, OncePerChunk, Ops
    <3>8. ReadsAfterWrites' /\ ClosedForGood'
      BY <1>2, <3>1, <3>3 DEF ReadsAfterWrites, ClosedForGood, Chunks
    <3>9. rc' # "ok" BY <1>8, <2>2, <2>5
    <3>10. LargeInv' BY <3>4, <3>6, <3>7, <3>8, <3>9 DEF LargeInv
    <3>11. SmallInv' BY <1>2, <2>5 DEF SmallInv, Large
    <3>12. QED BY <1>2, <1>4, <2>4, <3>2, <3>10, <3>11 DEF HInv, Fresh, Quietens
  <2>6. CASE ~Large
    <3>1. size = 1 /\ c = 0 /\ inflight["write"] = {0}
      BY <1>1, <1>2, <1>4, <2>1, <2>6 DEF Chunks
    <3>2. closes = 0 /\ wait = "none" /\ inflight["read"] = {} /\ rc # "ok" /\ disk' = {0}
      <4>1. wait = "none" /\ inflight["read"] = {} BY <1>1, <1>4, <2>6, <3>1 DEF SmallInv
      <4>2. closes = 0 BY <1>1, <1>4, <2>6, <3>1 DEF SmallInv, Quiet
      <4>3. rc # "ok" BY <1>1, <2>6, <4>2 DEF SmallInv
      <4>4. disk \subseteq {0} BY <1>4, <3>1 DEF Chunks
      <4>5. QED BY <1>2, <3>1, <4>1, <4>2, <4>3, <4>4
    <3>3. failed["read"] = {} BY <1>1, <2>6, <3>2 DEF SmallInv
    <3>4. SmallInv'
      BY <1>2, <1>5, <2>2, <2>3, <2>6, <3>1, <3>2, <3>3 DEF SmallInv, Quiet, Large
    <3>5. LargeInv' BY <1>2, <2>6 DEF LargeInv, Large
    <3>6. QED BY <1>2, <1>4, <2>4, <3>2, <3>4, <3>5 DEF HInv, Fresh, Quietens
  <2>7. QED BY <2>5, <2>6
<1>11. QED BY <1>3, <1>9, <1>10

\* A read has ended, well or not; the last one of all stores the file.
LEMMA ReadDoneStep ==
  ASSUME HInv, NEW c \in Chunks, NEW success \in BOOLEAN, Step(ReadDone(c, success))
  PROVE  HInv' /\ Quietens
<1> DEFINE n == done["read"] + 1
<1>1. TypeOK /\ Fresh /\ LargeInv /\ SmallInv BY DEF HInv
<1>2. /\ closes < 2 /\ UNCHANGED <<workload, size>> /\ c \in inflight["read"]
      /\ inflight' = [inflight EXCEPT !["read"] = @ \ {c}]
      /\ failed' = IF success THEN failed ELSE [failed EXCEPT !["read"] = @ \cup {c}]
      /\ done' = [done EXCEPT !["read"] = n]
      /\ buff' = IF success THEN (buff \ {c}) \cup ({c} \cap disk) ELSE buff
      /\ UNCHANGED <<started, off, wait, disk, refused>>
  BY DEF Step, ReadDone
<1>3. \/ Large /\ n < size /\ UNCHANGED <<closes, rc>>
      \/ /\ Large /\ n >= size
         /\ (closes' = closes + 1 /\ rc' \in {rc, "ok"}) \/ (closes' = closes /\ rc' \in {rc, "failed"})
      \/ ~Large /\ closes' = closes + 1 /\ rc' \in {rc, IF success THEN "ok" ELSE "failed"}
  BY DEF Step, ReadDone, Close, Stop
<1>4. started /\ "read" \in Ops /\ "write" \in Ops /\ closes \in 0 .. 2 /\ size \in Nat
      /\ inflight \in [Ops -> SUBSET Chunks] /\ failed \in [Ops -> SUBSET Chunks]
      /\ disk \subseteq Chunks /\ buff \subseteq Chunks /\ done \in [Ops -> Nat] /\ n \in Nat
      /\ rc \in {"none", "ok", "failed"}
  BY <1>1, <1>2, SizeAssumption DEF Fresh, Ops, TypeOK
<1>5. /\ inflight'["write"] = inflight["write"] /\ inflight'["read"] = inflight["read"] \ {c}
      /\ done'["write"] = done["write"] /\ done'["read"] = n
      /\ failed'["read"] = IF success THEN failed["read"] ELSE failed["read"] \cup {c}
  BY <1>2, <1>4
<1>6. closes' \in 0 .. 2 /\ rc' \in {"none", "ok", "failed"} BY <1>2, <1>3, <1>4
<1>7. TypeOK' BY <1>1, <1>2, <1>4, <1>6 DEF TypeOK, Chunks
<1>8. Quietens BY <1>5 DEF Quietens, Ops
<1>9. CASE Large
  <2>1. disk = Chunks /\ off["read"] = size /\ c \notin WasRead
    BY <1>1, <1>2, <1>9 DEF LargeInv, ReadsAfterWrites, OncePerChunk, ReadsCount
  <2>2. WasRead' = WasRead \cup {c} BY <1>2, <1>5, <2>1 DEF WasRead
  <2>3. WasRead \in SUBSET Chunks /\ WasRead' \in SUBSET Chunks BY <1>4, <2>2 DEF WasRead
  <2>4. IsFiniteSet(WasRead) BY <1>1, <2>3, ChunksCounted
  <2>5. n = Cardinality(WasRead')
    BY <1>1, <1>9, <2>1, <2>2, <2>4, FS_AddElement DEF LargeInv, ReadsCount
  <2>6. n >= size => WasRead' = Chunks BY <1>1, <2>3, <2>5, ChunksCounted
  <2>7. ReadsCount'
    <3>1. buff' \cap failed'["read"] = {}
      BY <1>1, <1>2, <1>5, <1>9, <2>1 DEF LargeInv, ReadsCount, WasRead
    <3>2. QED BY <1>1, <1>5, <1>9, <2>2, <2>5, <3>1 DEF LargeInv, ReadsCount
  <2>8. WritesCount' BY <1>1, <1>2, <1>5, <1>9 DEF LargeInv, WritesCount
  <2>9. OncePerChunk' BY <1>1, <1>2, <1>5, <1>9 DEF LargeInv, OncePerChunk
  <2>10. ReadsAfterWrites' /\ ClosedForGood'
    BY <1>2, <2>1 DEF ReadsAfterWrites, ClosedForGood, Chunks
  <2>11. disk' = Chunks /\ (rc' = "ok" => Chunks \subseteq WasRead')
    BY <1>1, <1>2, <1>3, <1>9, <2>1, <2>2, <2>6 DEF LargeInv
  <2>12. Chunks' = Chunks BY <1>2 DEF Chunks
  <2>13. LargeInv' BY <2>7, <2>8, <2>9, <2>10, <2>11, <2>12 DEF LargeInv
  <2>14. SmallInv' BY <1>2, <1>9 DEF SmallInv, Large
  <2>15. QED BY <1>2, <1>4, <1>7, <1>8, <2>13, <2>14 DEF HInv, Fresh
<1>10. CASE ~Large
  <2>1. size = 1 /\ c = 0 /\ inflight["read"] = {0} /\ disk = {0}
    BY <1>1, <1>2, <1>4, <1>10 DEF SmallInv, Chunks
  <2>2. closes = 0 /\ wait = "none" /\ inflight["write"] = {} /\ rc # "ok"
    BY <1>1, <1>2, <1>4, <1>10, <2>1 DEF SmallInv, Quiet
  <2>3. /\ closes' = 1 /\ disk' = {0} /\ inflight'["read"] = {}
        /\ rc' = "ok" => 0 \in buff' /\ failed'["read"] = {}
    <3>1. failed["read"] = {} BY <1>1, <1>10, <2>2 DEF SmallInv
    <3>2. QED BY <1>2, <1>3, <1>5, <1>10, <2>1, <2>2, <3>1
  <2>4. SmallInv' BY <1>2, <1>5, <1>10, <2>1, <2>2, <2>3 DEF SmallInv, Quiet, Large
  <2>5. LargeInv' BY <1>2, <1>10 DEF LargeInv, Large
  <2>6. QED BY <1>2, <1>4, <1>7, <1>8, <2>4, <2>5 DEF HInv, Fresh
<1>11. QED BY <1>9, <1>10

-----------------------------------------------------------------------------

\* Every callback preserves the invariant, and none submits when it may not.
LEMMA NextHInv == HInv /\ [Next]_vars => HInv' /\ [Quietens]_vars
<1> SUFFICES ASSUME HInv, [Next]_vars PROVE HInv' /\ [Quietens]_vars OBVIOUS
<1>1. CASE UNCHANGED vars
  BY <1>1 DEF vars, HInv, TypeOK, Fresh, LargeInv, SmallInv, WritesCount, ReadsCount, WasRead,
     OncePerChunk, ReadsAfterWrites, ClosedForGood, Quiet, Chunks, Large
<1>2. CASE Step(Start) BY <1>2, StartStep
<1>3. ASSUME NEW op \in Ops, Step(Resume(op)) PROVE HInv' /\ Quietens BY <1>3, ResumeStep
<1>4. ASSUME NEW c \in Chunks, Step(WriteDone(c)) \/ Step(WriteFailed(c)) PROVE HInv' /\ Quietens
  BY <1>4, WriteDoneStep, WriteFailedStep
<1>5. ASSUME NEW c \in Chunks, NEW success \in BOOLEAN, Step(ReadDone(c, success))
      PROVE  HInv' /\ Quietens
  BY <1>5, ReadDoneStep
<1>6. Step(Callback) =>
        \/ \E op \in Ops : Step(Resume(op))
        \/ \E c \in Chunks : \/ Step(WriteDone(c)) \/ Step(WriteFailed(c))
                             \/ \E success \in BOOLEAN : Step(ReadDone(c, success))
  BY DEF Step, Callback
<1>7. QED BY <1>1, <1>2, <1>3, <1>4, <1>5, <1>6 DEF Next

\* In whatever order the callbacks of hello_bdev.c come.
LEMMA InductiveH == Spec => []HInv
<1>1. HInv /\ [Next]_vars => HInv' BY NextHInv
<1>2. QED BY <1>1, InitHInv, PTL DEF Spec

\* When the application ends with 0, the whole input is on the bdev and the output
\* has exactly the chunks whose read did not fail - which is all of the input for
\* the short workloads, and less for a large file with failed reads, which ends
\* with 0 all the same (hello_bdev.c:120-148).  For a file of any length:
\* write_complete counts each chunk once, so no read is submitted before the last
\* write has ended.
THEOREM ReadsWhatItWrote == Spec => []OutputIsInput
<1>1. HInv => OutputIsInput
  <2>1. CASE Large
    <3>1. SUFFICES ASSUME HInv, rc = "ok" PROVE disk = Chunks /\ buff = Chunks \ failed["read"]
      BY <2>1 DEF OutputIsInput
    <3>2. disk = Chunks /\ Chunks \subseteq buff \cup failed["read"] /\ buff \cap failed["read"] = {}
      BY <2>1, <3>1 DEF HInv, LargeInv, ReadsCount, WasRead
    <3>3. buff \subseteq Chunks BY <3>1 DEF HInv, TypeOK
    <3>4. QED BY <3>2, <3>3
  <2>2. CASE ~Large
    <3>1. SUFFICES ASSUME HInv, rc = "ok" PROVE disk = Chunks /\ buff = Chunks /\ failed["read"] = {}
      BY <2>2 DEF OutputIsInput
    <3>2. Chunks = {0} BY <2>2, <3>1 DEF HInv, SmallInv, Chunks
    <3>3. buff \subseteq {0} BY <3>1, <3>2 DEF HInv, TypeOK
    <3>4. QED BY <2>2, <3>1, <3>2, <3>3 DEF HInv, SmallInv
  <2>3. QED BY <2>1, <2>2
<1>2. QED BY <1>1, InductiveH, PTL

\* Nothing is submitted through a channel that was given back (hello_bdev.c:143),
\* for a file of any length and however many of its writes are under way when one
\* fails.
THEOREM SilentAfterClose == Spec => NothingAfterClose
<1>1. HInv /\ [Next]_vars => [Quietens]_vars BY NextHInv
<1>2. QED BY <1>1, InductiveH, PTL DEF Spec, NothingAfterClose, Quietens

=============================================================================
