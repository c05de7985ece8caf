---------------------------- MODULE PassthruProofs ----------------------------
(***************************************************************************)
(* CompressedOnce and ReadsReturnWrites of Passthru, for any number of I/Os, *)
(* threads and places and any faults.                                       *)
(*                                                                          *)
(* The invariant says what the buffer of an undisturbed write holds in each *)
(* phase (Held), that nobody is promised anything of a place that is being  *)
(* written (Unpromised), and that what an undisturbed read has fetched is   *)
(* still what is on the base bdev (Fetched), as whoever would change it     *)
(* conflicts with the read (Apart).                                         *)
(***************************************************************************)
EXTENDS Passthru, TLAPS

Fields == {"ph", "type", "p", "iovs", "v", "buf", "ok", "retried", "sound"}

\* What a place holds of which v is promised.
Stored(v) == [v |-> v, n |-> IF v = "zeros" THEN 0 ELSE 1]

Plain == {"a", "b", "seam"}

\* A write that keeps its promise if it succeeds.
Able(x) == x.sound /\ ~x.retried /\ x.v \in Plain

Held(x) ==
  /\ DOMAIN x = Fields
  /\ Active(x) => x.p \in Places
  /\ x.ph = "decomp" => x.type = "read"
  /\ x.type = "write" /\ Able(x) =>
       /\ x.ph = "comp" => x.buf = [v |-> x.v, n |-> 0]
       /\ x.ph \in {"base", "waits"} => x.buf = [v |-> x.v, n |-> 1]

Unpromised == \A i \in IOs : Active(io[i]) /\ Writes(io[i]) => want[io[i].p] = "unknown"

Apart == \A i \in clean : \A j \in IOs \ {i} : ~Conflict(io[i], io[j])

Fetched ==
  \A i \in clean : io[i].ph = "decomp" /\ io[i].ok /\ want[io[i].p] # "unknown" =>
    io[i].buf = disk[io[i].p] /\ ~Skips(io[i].buf)

IInv ==
  /\ DOMAIN io = IOs /\ DOMAIN disk = Places /\ clean \subseteq IOs
  /\ want \in [Places -> Plain \cup {"zeros", "unknown"}]
  /\ \A i \in IOs : Held(io[i])
  /\ Unpromised /\ Apart /\ Fetched /\ CompressedOnce

-----------------------------------------------------------------------------
(* What a step does to one I/O, and to the others.                          *)

\* An I/O that is not the one that moves.
Stays(x, y) ==
  \/ x.ph = "done" /\ y = Fresh
  \/ /\ DOMAIN y = Fields
     /\ y.ph = x.ph /\ y.type = x.type /\ y.p = x.p /\ y.iovs = x.iovs /\ y.v = x.v
     /\ y.buf = x.buf /\ y.ok = x.ok /\ y.retried = x.retried
     /\ y.sound => x.sound

\* An I/O that moves to x, but for what sharing takes from it.
Becomes(y, x) ==
  /\ DOMAIN y = Fields
  /\ y.ph = x.ph /\ y.type = x.type /\ y.p = x.p /\ y.iovs = x.iovs /\ y.v = x.v
  /\ y.buf = x.buf /\ y.ok = x.ok /\ y.retried = x.retried
  /\ y.sound => x.sound

LEMMA TakeMoves ==
  ASSUME IInv, NEW i \in IOs, NEW x, DOMAIN x = Fields, Take(i, x)
  PROVE  /\ DOMAIN io' = IOs
         /\ Becomes(io'[i], x)
         /\ \A j \in IOs \ {i} : Stays(io[j], io'[j])
<1> DEFINE sharing == {j \in IOs \ {i} : x.ph \in {"comp", "decomp"} /\ io[j].ph = x.ph}
<1>1. io' = [j \in IOs |-> IF j = i THEN [x EXCEPT !.sound = @ /\ sharing = {}]
                           ELSE IF j \in sharing THEN [io[j] EXCEPT !.sound = FALSE]
                           ELSE IF io[j].ph = "done" THEN Fresh ELSE io[j]]
  BY DEF Take
<1>2. \A j \in IOs : DOMAIN io[j] = Fields
  BY DEF IInv, Held
<1> HIDE DEF sharing
<1>3. io'[i] = [x EXCEPT !.sound = @ /\ sharing = {}]
  BY <1>1
<1>4. Becomes(io'[i], x)
  BY <1>3 DEF Becomes, Fields
<1>5. ASSUME NEW j \in IOs \ {i} PROVE Stays(io[j], io'[j])
  <2>1. CASE j \in sharing
    <3>1. io'[j] = [io[j] EXCEPT !.sound = FALSE]
      BY <1>1, <2>1
    <3> QED
      BY <1>2, <3>1 DEF Stays, Fields
  <2>2. CASE j \notin sharing /\ io[j].ph = "done"
    BY <1>1, <2>2 DEF Stays
  <2>3. CASE j \notin sharing /\ io[j].ph # "done"
    <3>1. io'[j] = io[j]
      BY <1>1, <2>3
    <3> QED
      BY <1>2, <3>1 DEF Stays
  <2> QED
    BY <2>1, <2>2, <2>3
<1> QED
  BY <1>1, <1>4, <1>5

LEMMA StaysHeld ==
  ASSUME NEW x, NEW y, Held(x), Stays(x, y)
  PROVE  /\ Held(y)
         /\ Active(y) <=> Active(x)
         /\ Active(x) => y.type = x.type /\ y.p = x.p /\ y.ph = x.ph /\ y.ok = x.ok /\ y.buf = x.buf
<1>1. CASE x.ph = "done" /\ y = Fresh
  BY <1>1 DEF Held, Fresh, Active, Fields
<1>2. CASE x.ph # "done" \/ y # Fresh
  BY <1>2 DEF Stays, Held, Active, Able
<1> QED
  BY <1>1, <1>2

\* A step in which i moves: nothing but the end of a write changes what is on the
\* base bdev, and if it is a success, to what it promised.
Moves(i) ==
  /\ DOMAIN io' = IOs /\ Held(io'[i])
  /\ \A j \in IOs \ {i} : Stays(io[j], io'[j])
  /\ Active(io[i]) => io'[i].type = io[i].type /\ io'[i].p = io[i].p
  /\ DOMAIN disk' = Places
  /\ \A p \in Places : disk'[p] # disk[p] =>
       Active(io[i]) /\ Writes(io[i]) /\ p = io[i].p /\ io'[i].ph = "done"
  /\ Ended(i) /\ io'[i].ok /\ Writes(io[i]) /\ Promises(io[i]) # {} =>
       disk'[io[i].p] = Stored(CHOOSE v \in Promises(io[i]) : TRUE)
  /\ io'[i].ph = "decomp" => Active(io[i])
  /\ io'[i].ph = "decomp" /\ io'[i].ok /\ i \in clean /\ want[io[i].p] # "unknown" =>
       io'[i].buf = disk[io[i].p] /\ ~Skips(io'[i].buf)

LEMMA MovesKeep ==
  ASSUME IInv, NEW i \in IOs, Moves(i), History
  PROVE  IInv'
<1>1. \A j \in IOs : Held(io[j])
  BY DEF IInv
<1>2. \A j \in IOs \ {i} :
        /\ Held(io'[j])
        /\ Active(io'[j]) <=> Active(io[j])
        /\ Active(io[j]) => /\ io'[j].type = io[j].type /\ io'[j].p = io[j].p /\ io'[j].ph = io[j].ph
                            /\ io'[j].ok = io[j].ok /\ io'[j].buf = io[j].buf
  BY <1>1, StaysHeld DEF Moves
<1>3. \A j \in IOs : Held(io'[j])
  BY <1>2 DEF Moves
<1>4. \A j \in IOs : Active(io[j]) => io'[j].type = io[j].type /\ io'[j].p = io[j].p
  BY <1>2 DEF Moves
<1>5. \A j \in IOs : Ended(j) => j = i
  BY <1>2 DEF Ended, Active
<1>6. clean' \subseteq IOs /\ Apart'
  BY DEF History, IInv, Apart, Conflict, Active, Writes
<1>7. \A j \in clean' : Active(io'[j]) => j \in clean
  BY DEF History
<1> DEFINE writes(p) == {j \in IOs : Writes(io'[j]) /\ io'[j].p = p}
           ended(p)  == {j \in writes(p) : Ended(j)}
           last(p)   == CHOOSE j \in ended(p) : TRUE
           kept(p)   == io'[last(p)].ok /\ last(p) \in clean /\ Promises(io[last(p)]) # {}
<1>8. /\ DOMAIN want' = Places
      /\ \A p \in Places :
           want'[p] = IF \E j \in writes(p) : Active(io'[j]) THEN "unknown"
                      ELSE IF ended(p) = {} THEN want[p]
                      ELSE IF kept(p) THEN CHOOSE v \in Promises(io[last(p)]) : TRUE ELSE "unknown"
  BY DEF History
\* What is promised after the step was promised before, or is what i has written.
<1>9. ASSUME NEW p \in Places, want'[p] # "unknown"
      PROVE  /\ \A j \in IOs : Active(io'[j]) /\ Writes(io'[j]) => io'[j].p # p
             /\ \/ /\ want'[p] = want[p]
                   /\ ~(Ended(i) /\ Writes(io[i]) /\ io[i].p = p)
                \/ /\ Ended(i) /\ Writes(io[i]) /\ io[i].p = p /\ io'[i].ok /\ i \in clean
                   /\ Promises(io[i]) # {} /\ want'[p] = CHOOSE v \in Promises(io[i]) : TRUE
  <2>1. \A j \in IOs : Active(io'[j]) /\ Writes(io'[j]) => io'[j].p # p
    BY <1>8, <1>9
  <2>2. CASE ended(p) = {}
    <3>1. want'[p] = want[p]
      BY <1>8, <1>9, <2>1, <2>2
    <3>2. ~(Ended(i) /\ Writes(io[i]) /\ io[i].p = p)
      BY <1>4, <2>2 DEF Ended, Writes
    <3> QED
      BY <2>1, <3>1, <3>2
  <2>3. CASE ended(p) # {}
    <3>1. last(p) \in ended(p)
      BY <2>3
    <3>2. last(p) = i /\ Ended(i) /\ Writes(io'[i]) /\ io'[i].p = p
      BY <1>5, <3>1
    <3>3. Writes(io[i]) /\ io[i].p = p
      BY <1>4, <3>2 DEF Ended, Writes
    <3>4. kept(p) /\ want'[p] = CHOOSE v \in Promises(io[last(p)]) : TRUE
      BY <1>8, <1>9, <2>1, <2>3
    <3> QED
      BY <2>1, <3>2, <3>3, <3>4
  <2> QED
    BY <2>2, <2>3
<1>10. \A j \in IOs : \A v : v \in Promises(io[j]) => v \in Plain \cup {"zeros"}
  BY DEF Promises, Plain
<1>11. want' \in [Places -> Plain \cup {"zeros", "unknown"}]
  <2>1. ASSUME NEW p \in Places PROVE want'[p] \in Plain \cup {"zeros", "unknown"}
    <3>1. CASE want'[p] # "unknown"
      <4>1. want[p] \in Plain \cup {"zeros", "unknown"}
        BY DEF IInv
      <4>2. Promises(io[i]) # {} => (CHOOSE v \in Promises(io[i]) : TRUE) \in Plain \cup {"zeros"}
        BY <1>10
      <4> QED
        BY <1>9, <3>1, <4>1, <4>2
    <3> QED
      BY <3>1
  <2>2. want' = [p \in Places |-> want'[p]]
    BY <1>8 DEF History
  <2> QED
    BY <2>1, <2>2
<1>12. Unpromised'
  <2> SUFFICES ASSUME NEW j \in IOs, Active(io'[j]), Writes(io'[j]) PROVE want'[io'[j].p] = "unknown"
    BY DEF Unpromised, Active, Writes
  <2>1. io'[j].p \in Places
    BY <1>3 DEF Held
  <2> QED
    BY <1>9, <2>1
<1>13. CompressedOnce'
  <2> SUFFICES ASSUME NEW p \in Places, want'[p] # "unknown" PROVE disk'[p] = Stored(want'[p])
    BY DEF CompressedOnce, Stored
  <2>1. CASE Ended(i) /\ Writes(io[i]) /\ io[i].p = p
    BY <1>9, <2>1 DEF Moves
  <2>2. CASE ~(Ended(i) /\ Writes(io[i]) /\ io[i].p = p)
    <3>1. disk'[p] = disk[p]
      BY <2>2 DEF Moves, Ended
    <3>2. want'[p] = want[p]
      BY <1>9, <2>2
    <3> QED
      BY <3>1, <3>2 DEF IInv, CompressedOnce, Stored
  <2> QED
    BY <2>1, <2>2
<1>14. Fetched'
  <2> SUFFICES ASSUME NEW j \in clean', io'[j].ph = "decomp", io'[j].ok, want'[io'[j].p] # "unknown"
               PROVE  io'[j].buf = disk'[io'[j].p] /\ ~Skips(io'[j].buf)
    BY DEF Fetched, Skips, Zeros
  <2>1. j \in IOs /\ Active(io'[j])
    BY <1>6 DEF Active
  <2>2. j \in clean /\ Active(io[j]) /\ io'[j].p = io[j].p /\ io[j].p \in Places /\ io'[j].type = io[j].type
    BY <1>1, <1>2, <1>4, <1>7, <2>1 DEF Moves, Held
  <2>3. io'[j].type = "read" /\ ~Writes(io'[j])
    BY <1>3, <2>1 DEF Held, Writes
  <2>4. ~(Active(io[i]) /\ Writes(io[i]) /\ io[i].p = io[j].p)
    <3>1. CASE i = j
      BY <2>2, <2>3, <3>1 DEF Writes
    <3>2. CASE i # j
      BY <2>2, <3>2 DEF IInv, Apart, Conflict
    <3> QED
      BY <3>1, <3>2
  <2>5. disk'[io[j].p] = disk[io[j].p] /\ want'[io[j].p] = want[io[j].p]
    <3>1. disk'[io[j].p] = disk[io[j].p]
      BY <2>2, <2>4 DEF Moves
    <3>2. want'[io[j].p] = want[io[j].p]
      BY <1>9, <2>2, <2>4 DEF Ended
    <3> QED
      BY <3>1, <3>2
  <2>6. CASE i = j
    BY <2>2, <2>5, <2>6 DEF Moves
  <2>7. CASE i # j
    BY <1>2, <2>1, <2>2, <2>5, <2>7 DEF IInv, Fetched
  <2> QED
    BY <2>6, <2>7
<1> QED
  BY <1>3, <1>6, <1>11, <1>12, <1>13, <1>14 DEF IInv, Moves

-----------------------------------------------------------------------------
(* What the functions of the vbdev make of an I/O.                          *)

LEMMA CompleteIs ==
  ASSUME NEW x, NEW ok
  PROVE  /\ DOMAIN Complete(x, ok) = Fields /\ Complete(x, ok).ph = "done"
         /\ Complete(x, ok).type = x.type /\ Complete(x, ok).p = x.p /\ Complete(x, ok).ok = ok
         /\ Complete(x, ok).sound = x.sound
         /\ x.type = "read" => Complete(x, ok).buf = x.buf
BY DEF Complete, Fresh, Fields

\* What has not succeeded yet: an I/O that was passed on as it is, or refused.
Passed(x, y) ==
  /\ DOMAIN y = Fields /\ y.type = x.type /\ y.p = x.p
  /\ \/ /\ y.ph \in {"base", "waits", "comp"}
        /\ y.v = x.v /\ y.buf = x.buf /\ y.retried = x.retried /\ y.sound = x.sound
     \/ y.ph = "done" /\ y.ok = FALSE

LEMMA ToBaseIs ==
  ASSUME NEW x, DOMAIN x = Fields, NEW y \in ToBase(x)
  PROVE  Passed(x, y) /\ y.ph # "comp"
<1>1. CASE y = [x EXCEPT !.ph = "base"] \/ y = [x EXCEPT !.ph = "waits"]
  BY <1>1 DEF Passed, Fields
<1>2. CASE y = Complete(x, FALSE)
  BY <1>2, CompleteIs DEF Passed
<1> QED
  BY <1>1, <1>2 DEF ToBase, QueueIo

LEMMA SubmitRequestIs ==
  ASSUME NEW x, DOMAIN x = Fields, NEW y \in SubmitRequest(x)
  PROVE  Passed(x, y) /\ (x.type = "write" => y.ph = "comp")
<1>1. CASE x.type = "write"
  <2>1. y = [x EXCEPT !.ph = "comp"]
    BY <1>1 DEF SubmitRequest
  <2> QED
    BY <2>1 DEF Passed, Fields
<1>2. CASE x.type # "write"
  <2>1. y \in ToBase(x) \/ y = Complete(x, FALSE)
    BY <1>2 DEF SubmitRequest
  <2>2. CASE y \in ToBase(x)
    BY <1>2, <2>2, ToBaseIs
  <2>3. CASE y = Complete(x, FALSE)
    BY <1>2, <2>3, CompleteIs DEF Passed
  <2> QED
    BY <2>1, <2>2, <2>3
<1> QED
  BY <1>1, <1>2

-----------------------------------------------------------------------------
(* Every action is a move, and completes no read with wrong data.           *)

\* ReadsReturnWrites of one I/O.
Faithful(i) ==
  LET x == io'[i]
  IN  /\ Ended(i) /\ x.type = "read" /\ x.ok /\ i \in clean /\ x.sound
      /\ want[x.p] # "unknown" /\ ~(want[x.p] = "seam" /\ io[i].iovs > 1)
      => x.buf = [v |-> want[x.p], n |-> 0]

LEMMA BecomesHeld ==
  ASSUME NEW x, NEW y, Held(x), Becomes(y, x)
  PROVE  Held(y)
BY DEF Held, Becomes, Active, Able

\* A step that leaves the base bdev alone and succeeds with no write.
LEMMA QuietMove ==
  ASSUME IInv, NEW i \in IOs, NEW y, Held(y), Take(i, y), UNCHANGED disk,
         Active(io[i]) => y.type = io[i].type /\ y.p = io[i].p,
         y.ph # "decomp", y.ph = "done" => y.ok = FALSE \/ ~Writes(y)
  PROVE  Moves(i)
<1>1. /\ DOMAIN io' = IOs /\ Becomes(io'[i], y)
      /\ \A j \in IOs \ {i} : Stays(io[j], io'[j])
  BY TakeMoves DEF Held
<1>2. Held(io'[i])
  BY <1>1, BecomesHeld
<1>3. Active(io[i]) => io'[i].type = io[i].type /\ io'[i].p = io[i].p
  BY <1>1 DEF Becomes
<1>4. ~(Ended(i) /\ io'[i].ok /\ Writes(io[i]))
  BY <1>1 DEF Ended, Writes, Becomes
<1>5. io'[i].ph # "decomp"
  BY <1>1 DEF Becomes
<1> QED
  BY <1>1, <1>2, <1>3, <1>4, <1>5 DEF Moves, IInv

\* The process dies with everything as it was.
LEMMA CrashMove ==
  ASSUME IInv, NEW i \in IOs, UNCHANGED <<io, disk>>
  PROVE  Moves(i) /\ Faithful(i)
<1>1. \A j \in IOs : Held(io[j]) /\ DOMAIN io[j] = Fields
  BY DEF IInv, Held
<1>2. \A j \in IOs : Stays(io[j], io'[j])
  BY <1>1 DEF Stays
<1>3. ~Ended(i)
  BY DEF Ended, Active
<1>4. io[i].ph = "decomp" => Active(io[i])
  BY DEF Active
<1>5. io[i].ph = "decomp" /\ io[i].ok /\ i \in clean /\ want[io[i].p] # "unknown" =>
        io[i].buf = disk[io[i].p] /\ ~Skips(io[i].buf)
  BY DEF IInv, Fetched
<1> QED
  BY <1>1, <1>2, <1>3, <1>4, <1>5 DEF Moves, Faithful, IInv

LEMMA SubmitMoves ==
  ASSUME IInv, NEW i \in IOs, Submit(i)
  PROVE  Moves(i) /\ Faithful(i)
<1>1. PICK type \in Types, p \in Places, iovs \in 1 .. 2, v \in Values :
        \E y \in SubmitRequest([Fresh EXCEPT !.type = type, !.p = p, !.iovs = iovs, !.v = v,
                                  !.buf = IF type = "write" THEN [v |-> v, n |-> 0] ELSE Zeros]) : Take(i, y)
  BY DEF Submit
<1> DEFINE x == [Fresh EXCEPT !.type = type, !.p = p, !.iovs = iovs, !.v = v,
                              !.buf = IF type = "write" THEN [v |-> v, n |-> 0] ELSE Zeros]
<1>2. PICK y \in SubmitRequest(x) : Take(i, y)
  BY <1>1
<1>3. /\ DOMAIN x = Fields /\ x.type = type /\ x.p = p /\ x.v = v
      /\ type = "write" => x.buf = [v |-> v, n |-> 0]
  BY DEF Fresh, Fields
<1> HIDE DEF x
<1>4. Passed(x, y) /\ (x.type = "write" => y.ph = "comp")
  BY <1>2, <1>3, SubmitRequestIs
<1>5. Held(y)
  BY <1>3, <1>4 DEF Held, Passed, Active
<1>6. ~Active(io[i]) /\ UNCHANGED disk
  BY DEF Submit
<1>7. Moves(i)
  BY <1>2, <1>4, <1>5, <1>6, QuietMove DEF Passed
<1> QED
  BY <1>6, <1>7 DEF Faithful, Ended

LEMMA ResubmitMoves ==
  ASSUME IInv, NEW i \in IOs, Resubmit(i)
  PROVE  Moves(i) /\ Faithful(i)
<1> DEFINE x == [io[i] EXCEPT !.retried = TRUE]
<1>1. PICK y \in SubmitRequest(x) : Take(i, y)
  BY DEF Resubmit
<1>2. Held(io[i]) /\ DOMAIN io[i] = Fields
  BY DEF IInv, Held
<1>3. io[i].ph = "waits" /\ Active(io[i]) /\ io[i].p \in Places /\ UNCHANGED disk
  BY <1>2 DEF Resubmit, Active, Held
<1>4. DOMAIN x = Fields /\ x.type = io[i].type /\ x.p = io[i].p /\ x.retried = TRUE
  BY <1>2 DEF Fields
<1> HIDE DEF x
<1>5. Passed(x, y)
  BY <1>1, <1>4, SubmitRequestIs
<1>6. Held(y)
  BY <1>3, <1>4, <1>5, <1>1, SubmitRequestIs DEF Held, Passed, Able, Active
<1>7. Moves(i)
  BY <1>1, <1>3, <1>4, <1>5, <1>6, QuietMove DEF Passed
<1>8. Becomes(io'[i], y)
  BY <1>1, <1>6, TakeMoves DEF Held
<1> QED
  BY <1>5, <1>7, <1>8 DEF Faithful, Ended, Passed, Becomes

LEMMA CompressedMoves ==
  ASSUME IInv, NEW i \in IOs, Compressed(i)
  PROVE  Moves(i) /\ Faithful(i)
<1>1. PICK o \in Outcomes(io[i], Compress(io[i].buf, io[i].iovs)) :
        IF o.r.dies THEN UNCHANGED io
        ELSE \E y \in ToBase([io[i] EXCEPT !.buf = o.r.buf, !.sound = o.sound]) : Take(i, y)
  BY DEF Compressed
<1>2. io[i].ph = "comp" /\ UNCHANGED disk
  BY DEF Compressed
<1>3. CASE o.r.dies
  BY <1>1, <1>2, <1>3, CrashMove
<1>4. CASE ~o.r.dies
  <2> DEFINE x == [io[i] EXCEPT !.buf = o.r.buf, !.sound = o.sound]
  <2>1. PICK y \in ToBase(x) : Take(i, y)
    BY <1>1, <1>4
  <2>2. Held(io[i]) /\ DOMAIN io[i] = Fields /\ Active(io[i]) /\ io[i].p \in Places
    BY <1>2 DEF IInv, Held, Active
  <2>3. /\ DOMAIN x = Fields /\ x.type = io[i].type /\ x.p = io[i].p /\ x.v = io[i].v
        /\ x.retried = io[i].retried /\ x.sound = o.sound /\ x.buf = o.r.buf
    BY <2>2 DEF Fields
  <2>4. o.sound => io[i].sound /\ o.r \in Compress(io[i].buf, io[i].iovs)
    BY DEF Outcomes
  <2> HIDE DEF x
  <2>5. Passed(x, y) /\ y.ph # "comp"
    BY <2>1, <2>3, ToBaseIs
  <2>6. ASSUME x.type = "write", Able(x) PROVE x.buf = [v |-> x.v, n |-> 1]
    <3>1. io[i].buf = [v |-> x.v, n |-> 0] /\ x.v \in Plain
      BY <1>2, <2>2, <2>3, <2>4, <2>6 DEF Held, Able
    <3>2. o.r = Good([io[i].buf EXCEPT !.n = @ + 1])
      BY <2>3, <2>4, <2>6, <3>1 DEF Able, Compress, Plain
    <3> QED
      BY <2>3, <3>1, <3>2 DEF Good
  <2>7. Held(y)
    BY <2>2, <2>3, <2>5, <2>6 DEF Held, Passed, Able, Active
  <2>8. Moves(i)
    BY <1>2, <2>1, <2>3, <2>5, <2>7, QuietMove DEF Passed
  <2>9. Becomes(io'[i], y)
    BY <2>1, <2>7, TakeMoves DEF Held
  <2> QED
    BY <2>5, <2>8, <2>9 DEF Faithful, Ended, Passed, Becomes
<1> QED
  BY <1>3, <1>4

LEMMA DecompressedMoves ==
  ASSUME IInv, NEW i \in IOs, Decompressed(i)
  PROVE  Moves(i) /\ Faithful(i)
<1>1. PICK o \in Outcomes(io[i], Decompress(io[i].buf, io[i].iovs)) :
        IF o.r.dies THEN UNCHANGED io
        ELSE Take(i, Complete([io[i] EXCEPT !.buf = o.r.buf, !.sound = o.sound], io[i].ok))
  BY DEF Decompressed
<1>2. io[i].ph = "decomp" /\ UNCHANGED disk
  BY DEF Decompressed
<1>3. CASE o.r.dies
  BY <1>1, <1>2, <1>3, CrashMove
<1>4. CASE ~o.r.dies
  <2> DEFINE x == [io[i] EXCEPT !.buf = o.r.buf, !.sound = o.sound]
             y == Complete(x, io[i].ok)
  <2>1. Take(i, y)
    BY <1>1, <1>4
  <2>2. Held(io[i]) /\ DOMAIN io[i] = Fields /\ Active(io[i]) /\ io[i].p \in Places /\ io[i].type = "read"
    BY <1>2 DEF IInv, Held, Active
  <2>3. /\ x.type = "read" /\ x.p = io[i].p /\ x.sound = o.sound /\ x.buf = o.r.buf
    BY <2>2 DEF Fields
  <2> HIDE DEF x
  <2>4. /\ DOMAIN y = Fields /\ y.ph = "done" /\ y.type = "read" /\ y.p = io[i].p
        /\ y.ok = io[i].ok /\ y.sound = o.sound /\ y.buf = o.r.buf
    BY <2>3, CompleteIs
  <2> HIDE DEF y
  <2>5. Held(y)
    BY <2>4 DEF Held, Active
  <2>6. Moves(i)
    BY <1>2, <2>1, <2>2, <2>4, <2>5, QuietMove DEF Writes
  <2>7. Becomes(io'[i], y)
    BY <2>1, <2>4, TakeMoves
  <2>8. Faithful(i)
    <3> DEFINE w == want[io[i].p]
    <3> SUFFICES ASSUME io[i].ok, i \in clean, o.sound, w # "unknown", ~(w = "seam" /\ io[i].iovs > 1)
                 PROVE  o.r.buf = [v |-> w, n |-> 0]
      BY <2>4, <2>7 DEF Faithful, Becomes
    <3>1. io[i].buf = disk[io[i].p] /\ ~Skips(io[i].buf)
      BY <1>2 DEF IInv, Fetched
    <3>2. disk[io[i].p] = Stored(w)
      BY <2>2 DEF IInv, CompressedOnce, Stored
    <3>3. w \in Plain /\ io[i].buf = [v |-> w, n |-> 1]
      BY <2>2, <3>1, <3>2 DEF IInv, Stored, Skips, Zeros
    <3>4. o.r \in Decompress(io[i].buf, io[i].iovs)
      BY DEF Outcomes
    <3>5. ~Trims(io[i].buf, io[i].iovs) /\ io[i].buf.n # 0
      BY <3>3 DEF Trims, Plain
    <3>6. o.r = Good([io[i].buf EXCEPT !.n = @ - 1])
      BY <3>4, <3>5 DEF Decompress, Fill
    <3> QED
      BY <3>3, <3>6 DEF Good
  <2> QED
    BY <2>6, <2>8
<1> QED
  BY <1>3, <1>4

LEMMA BaseDoneMoves ==
  ASSUME IInv, NEW i \in IOs, NEW success \in BOOLEAN, BaseDone(i, success)
  PROVE  Moves(i) /\ Faithful(i)
<1> DEFINE x == io[i]
           y == [x EXCEPT !.ok = success]
<1>1. Held(x) /\ DOMAIN x = Fields
  BY DEF IInv, Held
<1>2. x.ph = "base" /\ Active(x) /\ x.p \in Places
  BY <1>1 DEF BaseDone, Active, Held
<1>3. CASE x.type = "read"
  <2>1. PICK buf \in IF success THEN {disk[x.p]} ELSE {Zeros, Garbage} :
          Take(i, IF Skips(buf) THEN Complete([y EXCEPT !.buf = buf], success)
                  ELSE [[y EXCEPT !.buf = buf] EXCEPT !.ph = "decomp"])
    BY <1>3 DEF BaseDone
  <2>2. UNCHANGED disk
    BY <1>3 DEF BaseDone
  <2> DEFINE z == [y EXCEPT !.buf = buf]
             new == IF Skips(buf) THEN Complete(z, success) ELSE [z EXCEPT !.ph = "decomp"]
  <2>3. DOMAIN z = Fields /\ z.type = "read" /\ z.p = x.p /\ z.ok = success /\ z.buf = buf
    BY <1>1, <1>3 DEF Fields
  <2>4. Take(i, new)
    BY <2>1
  <2> HIDE DEF z
  <2>5. /\ DOMAIN new = Fields /\ new.type = "read" /\ new.p = x.p /\ new.ok = success /\ new.buf = buf
        /\ new.ph = IF Skips(buf) THEN "done" ELSE "decomp"
    <3>1. CASE Skips(buf)
      BY <2>3, <3>1, CompleteIs
    <3>2. CASE ~Skips(buf)
      BY <2>3, <3>2 DEF Fields
    <3> QED
      BY <3>1, <3>2
  <2> HIDE DEF new
  <2>6. Held(new)
    BY <1>2, <2>5 DEF Held
  <2>7. /\ DOMAIN io' = IOs /\ Becomes(io'[i], new) /\ \A j \in IOs \ {i} : Stays(io[j], io'[j])
    BY <2>4, <2>5, TakeMoves
  <2>8. Held(io'[i])
    BY <2>6, <2>7, BecomesHeld
  <2>9. Moves(i)
    BY <1>2, <1>3, <2>2, <2>5, <2>7, <2>8 DEF Moves, IInv, Becomes, Writes
  <2>10. Faithful(i)
    <3> DEFINE w == want[x.p]
    <3> SUFFICES ASSUME Ended(i), success, w # "unknown" PROVE buf = [v |-> w, n |-> 0]
      BY <2>5, <2>7 DEF Faithful, Becomes
    <3>1. buf = Stored(w)
      BY <1>2, <2>1 DEF IInv, CompressedOnce, Stored
    <3>2. Skips(buf)
      BY <2>5, <2>7 DEF Ended, Becomes
    <3>3. w \in Plain \cup {"zeros"}
      BY <1>2 DEF IInv
    <3> QED
      BY <3>1, <3>2, <3>3 DEF Stored, Skips, Zeros, Plain
  <2> QED
    BY <2>9, <2>10
<1>4. CASE x.type # "read"
  <2> DEFINE z == IF x.type = "zcopy" THEN [y EXCEPT !.buf = disk[x.p]] ELSE y
             new == Complete(z, success)
  <2>1. Take(i, new)
    BY <1>4 DEF BaseDone
  <2>2. z.type = x.type /\ z.p = x.p
    BY <1>1 DEF Fields
  <2> HIDE DEF z
  <2>3. DOMAIN new = Fields /\ new.ph = "done" /\ new.type = x.type /\ new.p = x.p /\ new.ok = success
    BY <2>2, CompleteIs
  <2> HIDE DEF new
  <2>4. Held(new)
    BY <2>3 DEF Held, Active
  <2>5. /\ DOMAIN io' = IOs /\ Becomes(io'[i], new) /\ \A j \in IOs \ {i} : Stays(io[j], io'[j])
    BY <2>1, <2>3, TakeMoves
  <2>6. Held(io'[i])
    BY <2>4, <2>5, BecomesHeld
  <2>7. io'[i].ph = "done" /\ io'[i].type = x.type /\ io'[i].p = x.p /\ io'[i].ok = success
    BY <2>3, <2>5 DEF Becomes
  <2>8. \/ disk' = CASE x.type = "write"        -> [disk EXCEPT ![x.p] = x.buf]
                     [] x.type = "write_zeroes" -> [disk EXCEPT ![x.p] = Zeros]
                     [] OTHER                   -> disk
        \/ ~success /\ UNCHANGED disk
        \/ x.type = "other" /\ disk' = [disk EXCEPT ![x.p] = Zeros]
    BY DEF BaseDone
  <2>9. DOMAIN disk = Places
    BY DEF IInv
  <2>10. DOMAIN disk' = Places /\ \A p \in Places : disk'[p] # disk[p] => Writes(x) /\ p = x.p
    <3>1. CASE x.type = "write"
      BY <2>8, <2>9, <3>1 DEF Writes
    <3>2. CASE x.type = "write_zeroes"
      BY <2>8, <2>9, <3>2 DEF Writes
    <3>3. CASE x.type \notin {"write", "write_zeroes"}
      BY <2>8, <2>9, <3>3 DEF Writes
    <3> QED
      BY <3>1, <3>2, <3>3
  <2>11. success /\ Promises(x) # {} => disk'[x.p] = Stored(CHOOSE v \in Promises(x) : TRUE)
    <3> SUFFICES ASSUME success, Promises(x) # {}
                 PROVE  disk'[x.p] = Stored(CHOOSE v \in Promises(x) : TRUE)
      OBVIOUS
    <3>1. CASE x.type = "write_zeroes"
      <4>1. disk'[x.p] = Zeros
        BY <1>2, <2>8, <2>9, <3>1
      <4>2. Promises(x) = {"zeros"}
        BY <3>1 DEF Promises
      <4> QED
        BY <4>1, <4>2 DEF Stored, Zeros
    <3>2. CASE x.type # "write_zeroes"
      <4>1. x.type = "write" /\ Able(x) /\ Promises(x) = {x.v}
        BY <3>2 DEF Promises, Able, Plain
      <4>2. disk'[x.p] = x.buf
        BY <1>2, <2>8, <2>9, <4>1
      <4>3. x.buf = [v |-> x.v, n |-> 1] /\ x.v # "zeros"
        BY <1>1, <1>2, <4>1 DEF Held, Able, Plain
      <4> QED
        BY <4>1, <4>2, <4>3 DEF Stored
    <3> QED
      BY <3>1, <3>2
  <2>12. Moves(i)
    BY <1>2, <2>5, <2>6, <2>7, <2>10, <2>11 DEF Moves
  <2> QED
    BY <1>4, <2>7, <2>12 DEF Faithful
<1> QED
  BY <1>3, <1>4

LEMMA StepMoves ==
  ASSUME IInv, [Next]_vars
  PROVE  \/ UNCHANGED vars
         \/ \E i \in IOs : Moves(i) /\ Faithful(i) /\ History
<1>1. CASE Next
  <2>1. PICK i \in IOs : Step(Submit(i)) \/ Step(IoStep(i))
    BY <1>1 DEF Next
  <2>2. (Submit(i) \/ IoStep(i)) /\ History
    BY <2>1 DEF Step
  <2>3. Moves(i) /\ Faithful(i)
    BY <2>2, SubmitMoves, ResubmitMoves, CompressedMoves, DecompressedMoves, BaseDoneMoves DEF IoStep
  <2> QED
    BY <2>2, <2>3
<1> QED
  BY <1>1

-----------------------------------------------------------------------------
(* The invariant, and what follows.                                         *)

LEMMA InitIInv == Init => IInv
<1> SUFFICES ASSUME Init PROVE IInv
  OBVIOUS
<1>1. \A i \in IOs : io[i] = Fresh
  BY DEF Init
<1>2. Held(Fresh) /\ ~Active(Fresh) /\ Fresh.ph = "idle"
  BY DEF Held, Fresh, Active, Fields
<1>3. \A p \in Places : disk[p] = Zeros /\ want[p] = "zeros"
  BY DEF Init
<1>4. want \in [Places -> Plain \cup {"zeros", "unknown"}]
  BY DEF Init
<1>5. Unpromised /\ Apart /\ Fetched
  BY <1>1, <1>2 DEF Unpromised, Apart, Fetched, Conflict, Init
<1>6. CompressedOnce
  BY <1>3 DEF CompressedOnce, Zeros
<1> QED
  BY <1>1, <1>2, <1>4, <1>5, <1>6 DEF IInv, Init

LEMMA NextIInv == IInv /\ [Next]_vars => IInv'
<1> SUFFICES ASSUME IInv, [Next]_vars PROVE IInv'
  OBVIOUS
<1>1. CASE UNCHANGED vars
  BY <1>1 DEF IInv, vars, Held, Active, Able, Unpromised, Apart, Fetched, CompressedOnce, Conflict, Writes, Skips, Zeros
<1>2. CASE \E i \in IOs : Moves(i) /\ Faithful(i) /\ History
  BY <1>2, MovesKeep
<1> QED
  BY <1>1, <1>2, StepMoves

LEMMA Inductive == Spec => []IInv
BY InitIInv, NextIInv, PTL DEF Spec

\* What an undisturbed write that succeeded has put on the base bdev is there,
\* compressed once, until the next write of its place.
THEOREM CompressedOnceAlways == Spec => []CompressedOnce
<1>1. IInv => CompressedOnce
  BY DEF IInv
<1> QED
  BY <1>1, Inductive, PTL

\* An undisturbed read that succeeds returns what the last write of its place put
\* there, if that write was one of those Promises speaks of: undisturbed, never
\* queued, of a stream that neither begins nor ends with a zero byte - nor has one
\* where the first of the two iovecs of the read ends.
THEOREM ReadsAreFaithful == Spec => ReadsReturnWrites
<1> DEFINE Reads == \A i \in IOs :
                      LET x == io'[i]
                      IN  /\ Ended(i) /\ x.type = "read" /\ x.ok /\ i \in clean /\ x.sound
                          /\ want[x.p] # "unknown" /\ ~(want[x.p] = "seam" /\ io[i].iovs > 1)
                          => x.buf = [v |-> want[x.p], n |-> 0]
<1>1. IInv /\ [Next]_vars => [Reads]_vars
  <2> SUFFICES ASSUME IInv, [Next]_vars, NEW k \in IOs, vars' # vars PROVE Faithful(k)
    BY DEF Faithful
  <2>1. PICK i \in IOs : Moves(i) /\ Faithful(i)
    BY StepMoves
  <2>2. CASE k # i
    BY <2>1, <2>2, StaysHeld DEF IInv, Moves, Faithful, Ended, Active
  <2> QED
    BY <2>1, <2>2
<1>2. Spec => [][Reads]_vars
  BY <1>1, Inductive, PTL DEF Spec
<1> QED
  BY <1>2 DEF ReadsReturnWrites

=============================================================================
