---------------------------- MODULE RaidIoProofs ----------------------------
(***************************************************************************)
(* RaidIo, for any number of base bdevs and I/Os.                           *)
(*                                                                          *)
(* RemainingIsExact: base_bdev_io_remaining of an I/O that goes to several  *)
(* base bdevs is what is under way and what the loop has still to submit.   *)
(* What makes it true is that the loop never comes to a slot twice (Once)   *)
(* and that what is under way is what it has passed (Exact), so that a base *)
(* bdev that is missing is counted as done exactly once.                    *)
(*                                                                          *)
(* MirrorsAgree and Implements: a write of a raid1 has left its data on     *)
(* every base bdev it has come to and is done with (Held), unless another   *)
(* I/O of the block has met it, and the last callback finds the loop at its *)
(* end (LastPart).  A loop ends at a base bdev that is there, so that it is *)
(* never what completes an I/O as a success (Sent).                         *)
(*                                                                          *)
(* CountersAreExact: a read is counted where it is under way, which is at   *)
(* one base bdev at most.                                                   *)
(***************************************************************************)
EXTENDS RaidIo, FiniteSetTheorems, SequenceTheorems, WellFoundedInduction, TLAPS

Fields ==
  {"ph", "waits", "type", "b", "n", "data", "to", "rem", "sub", "status", "res", "out", "buf"}

\* A raid_bdev_io as the bdev layer hands it over.
Fresh(x) == x.rem = 0 /\ x.sub = 0 /\ x.out = {} /\ x.waits = FALSE

\* The loop has no slot twice.
Once(s) == s \in Seq(Slots) /\ Len(s) > 0 /\ \A j, k \in 1 .. Len(s) : s[j] = s[k] => j = k

\* How far the loop has come.
Passed(x, k) == {x.to[j] : j \in 1 .. k}
Within(x)    == Once(x.to) /\ x.sub \in 0 .. Len(x.to) /\ x.out \subseteq Passed(x, x.sub)

Exact(x) ==
  /\ Within(x)
  /\ x.waits \in BOOLEAN
  /\ x.waits => x.sub < Len(x.to)
  /\ x.rem = Cardinality(x.out) + IF x.waits THEN Len(x.to) - x.sub ELSE 0
  /\ x.rem > 0

\* Nothing is under way for an I/O that has been completed.
Over(x) == x.ph = "done" /\ "unexpected" \notin Faults => x.out = {}

\* An I/O to one base bdev has at most one.
Single(x) == InFlight(x) /\ ~FansOut(x) => \A c, d \in x.out : c = d

Good(x) ==
  /\ DOMAIN x = Fields /\ x.ph \in {"idle", "active", "done"}
  /\ x.ph = "idle" => Fresh(x)
  /\ x.waits => InFlight(x) /\ (FansOut(x) \/ x.out = {})
  /\ InFlight(x) /\ FansOut(x) => Exact(x)
  /\ Over(x) /\ Single(x)

IInv ==
  /\ DOMAIN io = IOs
  /\ crashed \/ \A i \in IOs : Good(io[i])
  /\ crashed => "unexpected" \in Faults

\* What the submission of an I/O may come to: only an error that a loop does not
\* expect stops the process.
Fine(q) == (q.crash \/ Good(q.x)) /\ (q.crash => "unexpected" \in Faults)

\* An I/O on its way.
Keeps(x, z) ==
  /\ DOMAIN z = Fields /\ z.ph \in {x.ph, "done"}
  /\ z.type = x.type /\ z.b = x.b /\ z.n = x.n /\ z.data = x.data /\ z.buf = x.buf

\* The loop goes on with x: what is left is what it has not submitted and what
\* is under way.
Loop(x) ==
  /\ DOMAIN x = Fields /\ Within(x) /\ x.sub < Len(x.to) /\ x.waits = FALSE
  /\ x.ph = "active"
  /\ x.rem = Cardinality(x.out) + Len(x.to) - x.sub

-----------------------------------------------------------------------------
(* What is under way can be counted.                                        *)

LEMMA StretchCount ==
  ASSUME NEW s, Once(s), NEW a \in 0 .. Len(s), NEW k \in a .. Len(s)
  PROVE  LET T == {s[j] : j \in (a + 1) .. k}
         IN  IsFiniteSet(T) /\ Cardinality(T) = k - a
<1> DEFINE D == (a + 1) .. k
           T == {s[j] : j \in D}
           f == [j \in D |-> s[j]]
<1>1. Len(s) \in Nat /\ a \in Int /\ k \in Int /\ a <= k /\ k <= Len(s)
  BY LenProperties DEF Once
<1>2. IsFiniteSet(D) /\ Cardinality(D) = k - a
  <2>1. a + 1 \in Int
    BY <1>1
  <2>2. IsFiniteSet((a + 1) .. k) /\ Cardinality((a + 1) .. k) = IF a + 1 > k THEN 0 ELSE k - (a + 1) + 1
    BY <1>1, <2>1, FS_Interval
  <2> QED
    BY <1>1, <2>2
<1>3. D \subseteq 1 .. Len(s)
  BY <1>1
<1>4. f \in Bijection(D, T)
  BY <1>3 DEF Once, Bijection, Injection, Surjection, IsInjective
<1>5. ExistsBijection(D, T)
  BY <1>4 DEF ExistsBijection
<1> HIDE DEF D, T, f
<1>6. IsFiniteSet(T) /\ Cardinality(T) = k - a
  BY <1>2, <1>5, FS_Bijection
<1> QED
  BY <1>6 DEF T, D

LEMMA OutFinite ==
  ASSUME NEW x, Within(x)
  PROVE  /\ IsFiniteSet(x.out) /\ Cardinality(x.out) \in Nat
         /\ Cardinality(x.out) = 0 => x.out = {}
<1>1. Len(x.to) \in Nat /\ 0 \in 0 .. Len(x.to) /\ x.sub \in 0 .. Len(x.to)
  BY LenProperties DEF Within, Once
<1>2. IsFiniteSet({x.to[j] : j \in (0 + 1) .. x.sub})
  BY <1>1, StretchCount DEF Within
<1>3. x.out \in SUBSET {x.to[j] : j \in (0 + 1) .. x.sub}
  BY DEF Within, Passed
<1>4. IsFiniteSet(x.out)
  BY <1>2, <1>3, FS_Subset
<1> QED
  BY <1>4, FS_CardinalityType, FS_EmptySet

-----------------------------------------------------------------------------
(* raid_bdev_io_complete_part and the loop.                                 *)

LEMMA PartCounts ==
  ASSUME NEW x, DOMAIN x = Fields, x.rem \in Int, NEW n \in Int, NEW st
  PROVE  LET z == CompletePart(x, n, st)
         IN  /\ Keeps(x, z)
             /\ z.to = x.to /\ z.sub = x.sub /\ z.out = x.out /\ z.waits = x.waits
             /\ z.rem = x.rem - n
             /\ z.rem = 0 => z.ph = "done"
             /\ z.rem # 0 => z.ph = x.ph
BY DEF CompletePart, Complete, Keeps, Fields

LEMMA ReachedCounts ==
  ASSUME NEW x, Loop(x), NEW k \in x.sub .. Len(x.to)
  PROVE  LET z == Reached(x, k)
         IN  /\ Keeps(x, z) /\ Within(z) /\ z.waits = FALSE
             /\ z.to = x.to /\ z.sub = k
             /\ z.rem = Cardinality(z.out) + Len(x.to) - k
             /\ z.ph = "active" \/ k = Len(x.to)
             /\ z.ph = "active" => z.rem > 0
             /\ z.ph = "done" => z.rem = 0
<1> DEFINE passed  == {x.to[j] : j \in (x.sub + 1) .. k}
           missing == passed \ baseCh
           y       == [x EXCEPT !.sub = k, !.out = @ \cup (passed \cap baseCh)]
           z       == Reached(x, k)
<1>1. Len(x.to) \in Nat /\ x.sub \in Nat /\ k \in Nat /\ x.sub <= k /\ k <= Len(x.to) /\ x.sub < Len(x.to)
  BY LenProperties DEF Loop, Within, Once
<1>2. IsFiniteSet(passed) /\ Cardinality(passed) = k - x.sub
  <2>1. Once(x.to) /\ x.sub \in 0 .. Len(x.to)
    BY DEF Loop, Within
  <2> QED
    BY <2>1, StretchCount
<1>3. IsFiniteSet(x.out) /\ Cardinality(x.out) \in Nat
  BY OutFinite DEF Loop
<1>4. x.out \cap passed = {}
  BY <1>1 DEF Loop, Within, Passed, Once
<1>5. /\ IsFiniteSet(missing) /\ IsFiniteSet(passed \cap baseCh)
      /\ Cardinality(missing) = Cardinality(passed) - Cardinality(passed \cap baseCh)
      /\ Cardinality(missing) \in Nat /\ Cardinality(passed \cap baseCh) \in Nat
  <2> HIDE DEF passed
  <2> QED
    BY <1>2, FS_Difference, FS_Intersection, FS_CardinalityType
<1>6. Cardinality(x.out \cup (passed \cap baseCh)) = Cardinality(x.out) + Cardinality(passed \cap baseCh)
  <2>1. x.out \cap (passed \cap baseCh) = {}
    BY <1>4
  <2> DEFINE kept == passed \cap baseCh
  <2>2. IsFiniteSet(kept) /\ x.out \cap kept = {} /\ Cardinality(kept) \in Nat
    BY <2>1, <1>5
  <2> HIDE DEF kept
  <2>3. Cardinality(x.out \cup kept) = Cardinality(x.out) + Cardinality(kept) - Cardinality(x.out \cap kept)
    BY <2>2, <1>3, FS_Union
  <2>4. Cardinality(x.out \cup kept) = Cardinality(x.out) + Cardinality(kept)
    <3>1. Cardinality(x.out \cap kept) = 0
      BY <2>2, FS_EmptySet
    <3> QED
      BY <2>2, <2>3, <1>3, <3>1
  <2> QED
    BY <2>4 DEF kept
<1>7. /\ DOMAIN y = Fields /\ y.sub = k /\ y.out = x.out \cup (passed \cap baseCh) /\ y.to = x.to
      /\ y.rem = x.rem /\ y.type = x.type /\ y.ph = "active" /\ y.waits = FALSE
      /\ y.b = x.b /\ y.n = x.n /\ y.data = x.data /\ y.buf = x.buf
  BY DEF Loop, Fields
<1>8. y.rem = Cardinality(y.out) + Cardinality(missing) + Len(x.to) - k
  <2>1. x.rem = Cardinality(x.out) + Len(x.to) - x.sub
    BY DEF Loop
  <2>2. y.rem = x.rem /\ Cardinality(y.out) = Cardinality(x.out) + Cardinality(passed \cap baseCh)
    BY <1>6, <1>7
  <2> HIDE DEF passed, missing, y
  <2> QED
    BY <1>1, <1>2, <1>3, <1>5, <2>1, <2>2
<1>9. y.out \subseteq Passed(x, k)
  <2>1. x.out \subseteq Passed(x, k)
    BY <1>1 DEF Loop, Within, Passed
  <2>2. passed \subseteq Passed(x, k)
    BY <1>1 DEF Passed
  <2> QED
    BY <2>1, <2>2, <1>7
<1>10. missing = {} => Cardinality(missing) = 0 /\ (k > x.sub => Cardinality(y.out) > 0)
  <2> HIDE DEF passed
  <2>1. SUFFICES ASSUME missing = {} PROVE Cardinality(missing) = 0 /\ (k > x.sub => Cardinality(y.out) > 0)
    OBVIOUS
  <2>2. Cardinality(missing) = 0
    BY <2>1, FS_EmptySet
  <2> HIDE DEF missing, y
  <2> QED
    BY <2>2, <1>1, <1>2, <1>3, <1>5, <1>6, <1>7
<1>11. z = IF missing = {} THEN y ELSE CompletePart(y, Cardinality(missing), "success")
  BY DEF Reached
<1>12. /\ Keeps(x, z) /\ z.to = x.to /\ z.sub = k /\ z.out = y.out /\ z.waits = FALSE
       /\ z.rem = y.rem - Cardinality(missing)
       /\ missing # {} /\ z.rem = 0 => z.ph = "done"
       /\ missing = {} \/ z.rem # 0 => z.ph = "active"
  <2> HIDE DEF y, missing, passed, z
  <2>1. Cardinality(y.out) \in Nat /\ y.rem \in Int
    BY <1>1, <1>3, <1>5, <1>6, <1>7, <1>8
  <2> x.ph = "active"
    BY DEF Loop
  <2>2. CASE missing = {}
    BY <1>7, <1>10, <1>11, <2>1, <2>2 DEF Keeps
  <2>3. CASE missing # {}
    <3> DEFINE n == Cardinality(missing)
    <3>1. n \in Int /\ z = CompletePart(y, n, "success")
      BY <1>5, <1>11, <2>3
    <3> HIDE DEF n
    <3>2. /\ Keeps(y, z) /\ z.to = y.to /\ z.sub = y.sub /\ z.out = y.out /\ z.waits = y.waits
          /\ z.rem = y.rem - n
          /\ z.rem = 0 => z.ph = "done"
          /\ z.rem # 0 => z.ph = y.ph
      BY <1>7, <2>1, <3>1, PartCounts
    <3>3. Keeps(x, z)
      BY <1>7, <3>2 DEF Keeps
    <3> QED
      BY <1>7, <2>3, <3>2, <3>3 DEF n
  <2> QED
    BY <2>2, <2>3
<1>13. Within(z)
  <2> HIDE DEF y, missing, passed, z
  <2> QED
    BY <1>1, <1>9, <1>12 DEF Within, Passed, Loop
<1>14. Cardinality(z.out) \in Nat /\ z.rem = Cardinality(z.out) + Len(x.to) - k
  <2> HIDE DEF y, missing, passed, z
  <2> QED
    BY <1>1, <1>5, <1>8, <1>12, <1>13, OutFinite
<1>15. z.ph = "active" \/ k = Len(x.to)
  <2> HIDE DEF y, missing, passed, z
  <2> QED
    BY <1>1, <1>12, <1>14
<1>16. z.ph = "active" => z.rem > 0
  <2> HIDE DEF y, missing, passed, z
  <2> QED
    BY <1>1, <1>10, <1>12, <1>14
<1>17. z.ph = "done" => z.rem = 0
  <2> HIDE DEF y, missing, passed, z
  <2> QED
    BY <1>12
<1> QED
  BY <1>12, <1>13, <1>14, <1>15, <1>16, <1>17

-----------------------------------------------------------------------------
(* Where an I/O is handed over.                                             *)

\* An I/O that is submitted, or goes on.
Ready(x) ==
  /\ DOMAIN x = Fields /\ Within(x) /\ x.sub < Len(x.to) /\ x.waits = FALSE
  /\ x.ph = "active"
  /\ \/ x.rem = Cardinality(x.out) + Len(x.to) - x.sub
     \/ Fresh(x)

LEMMA ExpectCounts ==
  ASSUME NEW x, Ready(x)
  PROVE  LET y == Expect(x)
         IN  Loop(y) /\ Keeps(x, y) /\ y.to = x.to /\ y.sub = x.sub
<1> DEFINE y == Expect(x)
<1>1. Len(x.to) \in Nat /\ x.sub \in 0 .. Len(x.to) /\ x.sub < Len(x.to)
  BY LenProperties DEF Ready, Within, Once
<1>2. Cardinality(x.out) \in Nat
  BY OutFinite DEF Ready
<1>3. x.sub = 0 => Cardinality(x.out) = 0
  <2>1. x.sub = 0 => x.out = {}
    BY DEF Ready, Within, Passed
  <2> QED
    BY <2>1, FS_EmptySet
<1>4. /\ DOMAIN y = Fields /\ y.to = x.to /\ y.sub = x.sub /\ y.out = x.out /\ y.waits = FALSE
      /\ y.type = x.type /\ y.ph = "active"
      /\ y.b = x.b /\ y.n = x.n /\ y.data = x.data /\ y.buf = x.buf
  BY DEF Ready, Expect, Fields
<1>5. y.rem = Cardinality(x.out) + Len(x.to) - x.sub
  <2>1. CASE Fresh(x)
    <3>1. y.rem = Len(x.to)
      BY <2>1 DEF Expect, Fresh, Ready, Fields
    <3> QED
      BY <1>1, <1>2, <1>3, <2>1, <3>1 DEF Fresh
  <2>2. CASE x.rem = Cardinality(x.out) + Len(x.to) - x.sub
    <3>1. x.rem # 0
      BY <1>1, <1>2, <2>2
    <3>2. y.rem = IF MirrorWrite(x) /\ x.sub = 0 THEN Len(x.to) ELSE x.rem
      BY <3>1 DEF Expect, Ready, Fields
    <3> QED
      BY <1>1, <1>2, <1>3, <2>2, <3>2
  <2> QED
    BY <2>1, <2>2 DEF Ready
<1>6. Within(y)
  BY <1>4 DEF Ready, Within, Passed
<1> HIDE DEF y
<1>7. Loop(y)
  BY <1>1, <1>4, <1>5, <1>6 DEF Loop
<1>8. Keeps(x, y)
  BY <1>4 DEF Keeps, Ready
<1> QED
  BY <1>4, <1>7, <1>8 DEF y

LEMMA FanOutCases ==
  ASSUME NEW x, Within(x), NEW waited, NEW q \in FanOut(x, waited), Expect(x).to = x.to
  PROVE  LET y == Expect(x)
         IN  \/ q = Result(Reached(y, Len(x.to)))
             \/ \E k \in x.sub .. Len(x.to) - 1 :
                  \/ q = Result(QueueIoWait(Reached(y, k)))
                  \/ q \in HardError(Reached(y, k)) /\ (MirrorWrite(x) \/ "unexpected" \in Faults)
BY DEF FanOut

LEMMA WaitGood ==
  ASSUME NEW x, Loop(x), FansOut(x), NEW k \in x.sub .. Len(x.to) - 1
  PROVE  Good(QueueIoWait(Reached(x, k)))
<1> DEFINE z == Reached(x, k)
           w == QueueIoWait(z)
<1>1. Len(x.to) \in Nat /\ x.sub \in Nat /\ k \in x.sub .. Len(x.to) /\ k < Len(x.to)
  BY LenProperties DEF Loop, Within, Once
<1>2. /\ Keeps(x, z) /\ Within(z) /\ z.to = x.to /\ z.sub = k
      /\ z.rem = Cardinality(z.out) + Len(x.to) - k /\ z.ph = "active" /\ z.rem > 0
  <2>1. k # Len(x.to)
    BY <1>1
  <2>2. /\ Keeps(x, z) /\ Within(z) /\ z.to = x.to /\ z.sub = k
        /\ z.rem = Cardinality(z.out) + Len(x.to) - k
        /\ z.ph = "active" \/ k = Len(x.to)
        /\ z.ph = "active" => z.rem > 0
    BY <1>1, ReachedCounts
  <2> QED
    BY <2>1, <2>2
<1> HIDE DEF z
<1>3. /\ DOMAIN w = Fields /\ w.to = x.to /\ w.sub = k /\ w.out = z.out /\ w.waits = TRUE
      /\ w.rem = z.rem /\ w.ph = "active" /\ w.type = x.type
  BY <1>2 DEF QueueIoWait, Keeps, Fields
<1> HIDE DEF w
<1>4. Within(w)
  BY <1>2, <1>3 DEF Within, Passed
<1>5. Exact(w)
  BY <1>1, <1>2, <1>3, <1>4 DEF Exact
<1>6. FansOut(w)
  BY <1>3 DEF FansOut, MirrorWrite
<1>7. Good(w)
  BY <1>3, <1>5, <1>6 DEF Good, InFlight, Over, Single
<1> QED
  BY <1>7 DEF w, z

\* What has gone round the loop and counts what it left out.
LEMMA LeftGood ==
  ASSUME NEW z, DOMAIN z = Fields, Within(z), z.waits = FALSE,
         z.ph \in {"active", "done"}, z.ph = "active" => z.rem = Cardinality(z.out) /\ z.rem # 0,
         Over(z), FansOut(z)
  PROVE  Good(z)
<1>1. Cardinality(z.out) \in Nat
  BY OutFinite
<1>2. z.ph = "active" => Exact(z)
  <2> SUFFICES ASSUME z.ph = "active" PROVE Exact(z)
    OBVIOUS
  <2>1. z.rem > 0 /\ z.rem = Cardinality(z.out) + 0
    BY <1>1
  <2> QED
    BY <2>1 DEF Exact
<1> QED
  BY <1>2 DEF Good, InFlight, Single

LEMMA HardErrorGood ==
  ASSUME NEW x, Loop(x), FansOut(x), NEW k \in x.sub .. Len(x.to) - 1,
         NEW q \in HardError(Reached(x, k)), MirrorWrite(x) \/ "unexpected" \in Faults
  PROVE  Fine(q)
<1> DEFINE z == Reached(x, k)
<1>1. Len(x.to) \in Nat /\ x.sub \in Nat /\ k \in x.sub .. Len(x.to) /\ k < Len(x.to)
  BY LenProperties DEF Loop, Within, Once
<1>2. /\ Keeps(x, z) /\ Within(z) /\ z.to = x.to /\ z.sub = k /\ z.waits = FALSE
      /\ z.rem = Cardinality(z.out) + Len(x.to) - k
      /\ z.ph = "active"
  <2>1. k # Len(x.to)
    BY <1>1
  <2>2. /\ Keeps(x, z) /\ Within(z) /\ z.to = x.to /\ z.sub = k /\ z.waits = FALSE
        /\ z.rem = Cardinality(z.out) + Len(x.to) - k
        /\ z.ph = "active" \/ k = Len(x.to)
    BY <1>1, ReachedCounts
  <2> QED
    BY <2>1, <2>2
<1>3. Cardinality(z.out) \in Nat
  BY <1>2, OutFinite
<1> HIDE DEF z
<1>4. CASE MirrorWrite(z)
  <2> DEFINE n == Len(z.to) - z.sub
             w == CompletePart(z, n, "failed")
  <2>1. q = Result(w)
    BY <1>4 DEF HardError, z
  <2>2. n \in Int /\ z.rem \in Int /\ z.rem - n = Cardinality(z.out)
    BY <1>1, <1>2, <1>3
  <2> HIDE DEF n
  <2>3. /\ Keeps(z, w) /\ w.to = z.to /\ w.sub = z.sub /\ w.out = z.out /\ w.waits = z.waits
        /\ w.rem = z.rem - n /\ (w.rem = 0 => w.ph = "done") /\ (w.rem # 0 => w.ph = z.ph)
    <3>1. DOMAIN z = Fields
      BY <1>2 DEF Keeps
    <3> QED
      BY <2>2, <3>1, PartCounts
  <2> HIDE DEF w
  <2>4. Within(w)
    BY <1>2, <2>3 DEF Within, Passed
  <2>5. DOMAIN w = Fields /\ w.ph \in {"active", "done"} /\ w.waits = FALSE
    BY <1>2, <2>3 DEF Keeps
  <2>6. w.ph = "active" => w.rem = Cardinality(w.out) /\ w.rem # 0
    BY <2>2, <2>3
  <2>7. Over(w)
    <3>1. w.ph = "done" => Cardinality(w.out) = 0
      BY <1>2, <2>2, <2>3
    <3> QED
      BY <2>4, <3>1, OutFinite DEF Over
  <2>8. FansOut(w)
    BY <1>4, <2>3 DEF Keeps, FansOut, MirrorWrite
  <2>9. Good(w)
    BY <2>4, <2>5, <2>6, <2>7, <2>8, LeftGood
  <2> QED
    BY <2>1, <2>9 DEF Result, Fine
<1>5. CASE ~MirrorWrite(z)
  <2> DEFINE w == Complete(z, "failed")
  <2>1. q.crash \/ q = Result(w)
    BY <1>5 DEF HardError, Unexpected, z
  <2>2. DOMAIN w = Fields /\ w.ph = "done" /\ w.waits = FALSE /\ w.to = z.to /\ w.sub = z.sub /\ w.out = z.out
        /\ w.type = z.type
    BY <1>2 DEF Complete, Keeps, Fields
  <2> HIDE DEF w
  <2>3. Within(w)
    BY <1>2, <2>2 DEF Within, Passed
  <2>4. "unexpected" \in Faults => Good(w)
    <3>1. FansOut(w)
      BY <1>2, <2>2 DEF Keeps, FansOut, MirrorWrite
    <3> QED
      BY <2>2, <2>3, <3>1, LeftGood DEF Over
  <2> QED
    BY <1>2, <1>5, <2>1, <2>4 DEF Result, Fine, Keeps, MirrorWrite
<1> QED
  BY <1>4, <1>5

LEMMA FanOutGood ==
  ASSUME NEW x, Ready(x), FansOut(x), NEW waited, NEW q \in FanOut(x, waited)
  PROVE  Fine(q)
<1> DEFINE y == Expect(x)
<1>1. Loop(y) /\ Keeps(x, y) /\ y.to = x.to /\ y.sub = x.sub
  BY ExpectCounts
<1>2. FansOut(y)
  BY <1>1 DEF Keeps, FansOut, MirrorWrite
<1>3. Len(y.to) \in Nat /\ y.sub \in 0 .. Len(y.to) /\ Within(x)
  BY <1>1, LenProperties DEF Ready, Loop, Within, Once
<1>4. \/ q = Result(Reached(y, Len(x.to)))
      \/ \E k \in x.sub .. Len(x.to) - 1 :
           \/ q = Result(QueueIoWait(Reached(y, k)))
           \/ q \in HardError(Reached(y, k)) /\ (MirrorWrite(y) \/ "unexpected" \in Faults)
  BY <1>1, <1>3, FanOutCases DEF Keeps, MirrorWrite
<1> HIDE DEF y
<1>5. CASE q = Result(Reached(y, Len(x.to)))
  <2> DEFINE z == Reached(y, Len(y.to))
  <2>1. Len(y.to) \in y.sub .. Len(y.to)
    BY <1>3
  <2>2. /\ Keeps(y, z) /\ Within(z) /\ z.waits = FALSE
        /\ z.rem = Cardinality(z.out) + Len(y.to) - Len(y.to)
        /\ z.ph = "active" => z.rem > 0
        /\ z.ph = "done" => z.rem = 0
    BY <1>1, <2>1, ReachedCounts
  <2> HIDE DEF z
  <2>3. Cardinality(z.out) \in Nat
    BY <2>2, OutFinite
  <2>4. DOMAIN z = Fields /\ z.ph \in {"active", "done"} /\ (z.ph = "active" => z.rem = Cardinality(z.out) /\ z.rem # 0)
    BY <1>1, <1>3, <2>2, <2>3 DEF Keeps, Loop
  <2>5. Good(z)
    <3>1. z.rem = Cardinality(z.out)
      BY <1>1, <1>3, <2>2, <2>3
    <3>2. Over(z)
      BY <2>2, <3>1, OutFinite DEF Over
    <3>3. FansOut(z)
      BY <1>2, <2>2 DEF Keeps, FansOut, MirrorWrite
    <3> QED
      BY <2>2, <2>4, <3>2, <3>3, LeftGood
  <2> QED
    BY <1>1, <1>5, <2>5 DEF Result, Fine, z
<1>6. CASE \E k \in x.sub .. Len(x.to) - 1 :
             \/ q = Result(QueueIoWait(Reached(y, k)))
             \/ q \in HardError(Reached(y, k)) /\ (MirrorWrite(y) \/ "unexpected" \in Faults)
  <2>1. PICK k \in y.sub .. Len(y.to) - 1 :
          \/ q = Result(QueueIoWait(Reached(y, k)))
          \/ q \in HardError(Reached(y, k)) /\ (MirrorWrite(y) \/ "unexpected" \in Faults)
    BY <1>1, <1>6
  <2>2. Good(QueueIoWait(Reached(y, k)))
    BY <1>1, <1>2, WaitGood
  <2>3. q \in HardError(Reached(y, k)) /\ (MirrorWrite(y) \/ "unexpected" \in Faults) => Fine(q)
    BY <1>1, <1>2, HardErrorGood
  <2> QED
    BY <2>1, <2>2, <2>3 DEF Result, Fine
<1> QED
  BY <1>4, <1>5, <1>6

\* An I/O to one base bdev, wherever it is sent.
LEMMA ToOneGood ==
  ASSUME NEW x, DOMAIN x = Fields, x.ph = "active", x.waits = FALSE, x.out = {}, ~FansOut(x),
         NEW waited, NEW q \in ToOne(x, waited)
  PROVE  Fine(q)
<1> DEFINE y == IF Mirror THEN [x EXCEPT !.rem = 1] ELSE x
           Sent(z) == DOMAIN z = Fields /\ z.type = x.type /\ z.ph \in {"active", "done"}
                      /\ (z.waits = FALSE \/ (z.ph = "active" /\ z.out = {}))
                      /\ (z.ph = "done" => z.out = {}) /\ \A c, d \in z.out : c = d
<1>1. DOMAIN y = Fields /\ y.type = x.type /\ y.ph = "active" /\ y.waits = FALSE /\ y.out = {}
  BY DEF Fields
<1>2. \A slot : Sent([y EXCEPT !.out = {slot}, !.sub = IF Mirror THEN slot ELSE @])
  <2> HIDE DEF y
  <2> QED
    BY <1>1 DEF Fields
<1>3. Sent(QueueIoWait(y)) /\ Sent(Complete(y, "failed"))
  <2> HIDE DEF y
  <2> QED
    BY <1>1 DEF Fields, QueueIoWait, Complete
<1>4. (q.crash \/ Sent(q.x)) /\ (q.crash => "unexpected" \in Faults)
  <2>1. \/ \E slot : q = Result([y EXCEPT !.out = {slot}, !.sub = IF Mirror THEN slot ELSE @])
        \/ q = Result(QueueIoWait(y))
        \/ q = Result(Complete(y, "failed"))
        \/ q \in Unexpected(y) /\ "unexpected" \in Faults
    BY DEF ToOne
  <2> HIDE DEF y, Sent
  <2>2. q \in Unexpected(y) => q.crash \/ q = Result(Complete(y, "failed"))
    BY DEF Unexpected
  <2>3. \A z : q = Result(z) => q.x = z /\ q.crash = FALSE
    BY DEF Result
  <2>4. CASE \E slot : q = Result([y EXCEPT !.out = {slot}, !.sub = IF Mirror THEN slot ELSE @])
    BY <1>2, <2>3, <2>4
  <2>5. CASE q = Result(QueueIoWait(y)) \/ q = Result(Complete(y, "failed"))
    BY <1>3, <2>3, <2>5
  <2> QED
    BY <2>1, <2>2, <2>4, <2>5
<1>5. \A z : Sent(z) => Good(z)
  BY DEF Good, InFlight, FansOut, MirrorWrite, Over, Single
<1> HIDE DEF Sent
<1> QED
  BY <1>4, <1>5 DEF Fine

\* The remainder of a position that wraps around at most once.
LEMMA WrapOnce ==
  ASSUME NEW N \in Nat \ {0}, NEW a \in 0 .. 2 * N - 1
  PROVE  a % N = IF a < N THEN a ELSE a - N
OBVIOUS

LEMMA TargetsOnce ==
  ASSUME NEW x, x.b \in Slots, NEW c \in Spans(x)
  PROVE  Once(Targets(x, c)) /\ Len(Targets(x, c)) > 0
<1> DEFINE s == Targets(x, c)
           N == NumBaseBdevs
<1>1. N \in Nat \ {0} /\ x.b \in 0 .. N - 1
  BY NumAssumption DEF Slots
<1>2. CASE x.type = "null"
  <2>1. c \in 1 .. N
    BY <1>2 DEF Spans
  <2>2. s = [j \in 1 .. c |-> (x.b + j - 1) % N]
    BY <1>2 DEF Targets
  <2>3. \A j \in 1 .. c : (x.b + j - 1) % N = IF x.b + j - 1 < N THEN x.b + j - 1 ELSE x.b + j - 1 - N
    <3> TAKE j \in 1 .. c
    <3>1. x.b + j - 1 \in 0 .. 2 * N - 1
      BY <1>1, <2>1
    <3> HIDE DEF N
    <3> QED
      BY <1>1, <3>1, WrapOnce
  <2>4. s \in [1 .. c -> Slots]
    BY <1>1, <2>1, <2>2, <2>3 DEF Slots
  <2>5. \A j, k \in 1 .. c : s[j] = s[k] => j = k
    <3> TAKE j, k \in 1 .. c
    <3>1. /\ s[j] = IF x.b + j - 1 < N THEN x.b + j - 1 ELSE x.b + j - 1 - N
          /\ s[k] = IF x.b + k - 1 < N THEN x.b + k - 1 ELSE x.b + k - 1 - N
      BY <2>2, <2>3
    <3> HIDE DEF s, N
    <3> QED
      BY <1>1, <2>1, <3>1
  <2>6. s \in Seq(Slots)
    BY <2>1, <2>4, SeqDef
  <2> HIDE DEF s
  <2>7. Len(s) = c
    BY <2>1, <2>4, <2>6, LenProperties
  <2> QED
    BY <2>1, <2>5, <2>6, <2>7 DEF Once, s
<1>3. CASE x.type # "null"
  <2>1. s = [j \in 1 .. N |-> j - 1]
    BY <1>3 DEF Targets
  <2>2. s \in [1 .. N -> Slots]
    BY <1>1, <2>1 DEF Slots
  <2>3. \A j, k \in 1 .. N : s[j] = s[k] => j = k
    BY <1>1, <2>1
  <2>4. s \in Seq(Slots)
    BY <1>1, <2>2, SeqDef
  <2> HIDE DEF s
  <2>5. Len(s) = N
    BY <1>1, <2>2, <2>4, LenProperties
  <2> QED
    BY <1>1, <2>3, <2>4, <2>5 DEF Once, s
<1> QED
  BY <1>2, <1>3

-----------------------------------------------------------------------------
(* The actions.                                                             *)

\* What a step makes of one I/O, the others and the level staying as they are.
LEMMA OneGood ==
  ASSUME IInv, ~crashed, UNCHANGED level, NEW i \in IOs, NEW q, Take(i, q), Fine(q)
  PROVE  IInv'
<1>1. DOMAIN io' = IOs /\ crashed' = q.crash
  BY DEF IInv, Take
<1>2. \A x : Good(x)' <=> Good(x)
  BY DEF Good, Exact, Within, Passed, Once, Fresh, InFlight, FansOut, MirrorWrite, Mirror, Over, Single
<1>3. (q.crash \/ \A j \in IOs : Good(io'[j])) /\ (q.crash => "unexpected" \in Faults)
  BY DEF IInv, Take, Fine
<1> QED
  BY <1>1, <1>2, <1>3 DEF IInv

LEMMA SubmitStep ==
  ASSUME IInv, ~crashed, UNCHANGED level, NEW i \in IOs, Submit(i)
  PROVE  IInv'
<1>1. Good(io[i]) /\ io[i].ph = "idle"
  BY DEF IInv, Submit
<1>2. DOMAIN io[i] = Fields /\ Fresh(io[i])
  BY <1>1 DEF Good
<1>3. PICK t \in Types, b \in Blocks, n \in 1 .. MaxBlocks, data \in Bits :
        LET x == [io[i] EXCEPT !.ph = "active", !.type = t, !.b = b, !.n = n, !.data = data]
        IN  /\ Mirror => t # "null"
            /\ t # "read" => n = 1
            /\ t # "write" => data = 0
            /\ t = "reset" => b = CHOOSE d \in Blocks : TRUE
            /\ \/ \E c \in Spans(x) :
                    \E q \in SubmitTo([x EXCEPT !.to = IF FansOut(x) THEN Targets(x, c) ELSE << >>], FALSE) :
                      Take(i, q) /\ counter' = ReadStarts(q.x)
               \/ /\ t = "read" /\ "buffer" \in Faults
                  /\ Take(i, Result(Complete(x, "failed")))
                  /\ UNCHANGED counter
  BY Zenon DEF Submit
<1> DEFINE x == [io[i] EXCEPT !.ph = "active", !.type = t, !.b = b, !.n = n, !.data = data]
<1>4. DOMAIN x = Fields /\ x.ph = "active" /\ Fresh(x) /\ x.b = b
  BY <1>2 DEF Fields, Fresh
<1>5. b \in Slots
  BY NumAssumption DEF Blocks, Slots
<1> HIDE DEF x
<1>6. CASE Take(i, Result(Complete(x, "failed")))
  <2> DEFINE w == Complete(x, "failed")
  <2>1. DOMAIN w = Fields /\ w.ph = "done" /\ w.waits = FALSE /\ w.out = {}
    BY <1>4 DEF Complete, Fields, Fresh
  <2> HIDE DEF w
  <2>2. Good(w)
    BY <2>1 DEF Good, InFlight, Over, Single
  <2> QED
    BY <1>6, <2>2, OneGood DEF Result, Fine, w
<1>7. CASE \E c \in Spans(x) :
             \E q \in SubmitTo([x EXCEPT !.to = IF FansOut(x) THEN Targets(x, c) ELSE << >>], FALSE) :
               Take(i, q)
  <2>1. PICK c \in Spans(x) :
          \E q \in SubmitTo([x EXCEPT !.to = IF FansOut(x) THEN Targets(x, c) ELSE << >>], FALSE) :
            Take(i, q)
    BY <1>7
  <2> DEFINE y == [x EXCEPT !.to = IF FansOut(x) THEN Targets(x, c) ELSE << >>]
  <2>2. PICK q \in SubmitTo(y, FALSE) : Take(i, q)
    BY <2>1
  <2>3. /\ DOMAIN y = Fields /\ y.ph = "active" /\ Fresh(y) /\ y.type = x.type
        /\ y.to = IF FansOut(x) THEN Targets(x, c) ELSE << >>
    BY <1>4 DEF Fields, Fresh
  <2> HIDE DEF y
  <2>4. FansOut(y) <=> FansOut(x)
    BY <2>3 DEF FansOut, MirrorWrite
  <2>5. CASE FansOut(y)
    <3>1. Once(y.to) /\ Len(y.to) > 0
      BY <1>4, <1>5, <2>3, <2>4, <2>5, TargetsOnce
    <3>2. Len(y.to) \in Nat
      BY <3>1, LenProperties DEF Once
    <3>3. Within(y)
      BY <2>3, <3>1, <3>2 DEF Within, Fresh, Passed
    <3>4. Ready(y)
      BY <2>3, <3>1, <3>3 DEF Ready, Fresh
    <3>5. q \in FanOut(y, FALSE)
      BY <2>5 DEF SubmitTo
    <3>6. Fine(q)
      BY <2>5, <3>4, <3>5, FanOutGood
    <3> QED
      BY <2>2, <3>6, OneGood
  <2>6. CASE ~FansOut(y)
    <3>1. q \in ToOne(y, FALSE)
      BY <2>6 DEF SubmitTo
    <3>2. Fine(q)
      BY <2>3, <2>6, <3>1, ToOneGood DEF Fresh
    <3> QED
      BY <2>2, <3>2, OneGood
  <2> QED
    BY <2>5, <2>6
<1> QED
  <2>1. \/ \E c \in Spans(x) :
             \E q \in SubmitTo([x EXCEPT !.to = IF FansOut(x) THEN Targets(x, c) ELSE << >>], FALSE) :
               Take(i, q)
        \/ Take(i, Result(Complete(x, "failed")))
    BY <1>3, Zenon DEF x
  <2> QED
    BY <1>6, <1>7, <2>1

LEMMA ResumeStep ==
  ASSUME IInv, ~crashed, UNCHANGED level, NEW i \in IOs, Resume(i)
  PROVE  IInv'
<1>1. Good(io[i]) /\ io[i].waits
  BY DEF IInv, Resume
<1> DEFINE x == [io[i] EXCEPT !.waits = FALSE]
<1>2. PICK q \in SubmitTo(x, TRUE) : Take(i, q)
  BY DEF Resume
<1>3. /\ DOMAIN x = Fields /\ x.ph = "active" /\ x.waits = FALSE /\ x.type = io[i].type
      /\ x.to = io[i].to /\ x.sub = io[i].sub /\ x.out = io[i].out /\ x.rem = io[i].rem
  BY <1>1 DEF Good, InFlight, Fields
<1> HIDE DEF x
<1>4. FansOut(x) <=> FansOut(io[i])
  BY <1>3 DEF FansOut, MirrorWrite
<1>5. CASE FansOut(x)
  <2>1. Exact(io[i])
    BY <1>1, <1>4, <1>5 DEF Good
  <2>2. Within(x)
    BY <1>3, <2>1 DEF Exact, Within, Passed
  <2>3. x.sub < Len(x.to) /\ x.rem = Cardinality(x.out) + (Len(x.to) - x.sub)
    BY <1>1, <1>3, <2>1 DEF Exact
  <2>4. Cardinality(x.out) \in Nat /\ Len(x.to) \in Nat /\ x.sub \in Int
    BY <2>2, OutFinite, LenProperties DEF Within, Once
  <2>5. x.rem = Cardinality(x.out) + Len(x.to) - x.sub
    BY <2>3, <2>4
  <2>6. Ready(x)
    BY <1>3, <2>2, <2>3, <2>5 DEF Ready
  <2>7. Fine(q)
    BY <1>5, <2>6, FanOutGood DEF SubmitTo
  <2> QED
    BY <1>2, <2>7, OneGood
<1>6. CASE ~FansOut(x)
  <2>1. x.out = {}
    BY <1>1, <1>3, <1>4, <1>6 DEF Good
  <2>2. Fine(q)
    BY <1>3, <1>6, <2>1, ToOneGood DEF SubmitTo
  <2> QED
    BY <1>2, <2>2, OneGood
<1> QED
  BY <1>5, <1>6

LEMMA BaseDoneStep ==
  ASSUME IInv, ~crashed, UNCHANGED level, NEW i \in IOs, NEW c \in Slots, NEW success \in BOOLEAN,
         BaseDone(i, c, success)
  PROVE  IInv'
<1> DEFINE st == IF success THEN "success" ELSE "failed"
           x  == [io[i] EXCEPT !.out = @ \ {c}, !.buf = IF io[i].type = "read" THEN disk[c] ELSE @]
           z  == IF FansOut(x) \/ Mirror THEN CompletePart(x, 1, st) ELSE Complete(x, st)
<1>1. Good(io[i]) /\ c \in io[i].out
  BY DEF IInv, BaseDone
<1>2. Take(i, Result(z))
  BY DEF BaseDone
<1>3. /\ DOMAIN x = Fields /\ x.type = io[i].type /\ x.ph = io[i].ph /\ x.ph \in {"active", "done"} /\ x.sub = io[i].sub
      /\ x.to = io[i].to /\ x.rem = io[i].rem /\ x.waits = io[i].waits /\ x.out = io[i].out \ {c}
  BY <1>1 DEF Good, Fields, Fresh
<1> HIDE DEF x, st
<1>4. FansOut(x) <=> FansOut(io[i])
  BY <1>3 DEF FansOut, MirrorWrite
<1>5. CASE InFlight(x) /\ FansOut(x)
  <2>1. Exact(io[i])
    BY <1>1, <1>3, <1>4, <1>5 DEF Good, InFlight
  <2>2. Within(x)
    BY <1>3, <2>1 DEF Exact, Within, Passed
  <2>3. IsFiniteSet(io[i].out) /\ Cardinality(io[i].out) \in Nat
    BY <2>1, OutFinite DEF Exact
  <2>4. Cardinality(x.out) = Cardinality(io[i].out) - 1 /\ Cardinality(x.out) \in Nat
    <3>1. x.out = io[i].out \ {c} /\ c \in io[i].out
      BY <1>1, <1>3
    <3>2. Cardinality(x.out) \in Nat
      BY <2>2, OutFinite
    <3> DEFINE out == io[i].out
    <3>3. IsFiniteSet(out) /\ c \in out
      BY <2>3, <3>1
    <3> HIDE DEF out
    <3>4. Cardinality(out \ {c}) = Cardinality(out) - 1
      BY <3>3, FS_RemoveElement
    <3> QED
      BY <3>1, <3>2, <3>4 DEF out
  <2> DEFINE rest == IF x.waits THEN Len(x.to) - x.sub ELSE 0
  <2>5. /\ rest \in Nat /\ (x.waits => rest > 0) /\ x.waits \in BOOLEAN
        /\ x.waits => x.sub < Len(x.to)
    <3>1. Len(x.to) \in Nat /\ x.sub \in Int
      BY <2>2, LenProperties DEF Within, Once
    <3> QED
      BY <1>3, <2>1, <3>1 DEF Exact
  <2>6. io[i].rem = Cardinality(io[i].out) + rest
    BY <1>3, <2>1 DEF Exact
  <2>7. z = CompletePart(x, 1, st)
    BY <1>5
  <2> HIDE DEF z
  <2>8. x.rem \in Int
    <3> HIDE DEF rest
    <3> QED
      BY <1>3, <2>3, <2>5, <2>6
  <2>9. /\ Keeps(x, z) /\ z.to = x.to /\ z.sub = x.sub /\ z.out = x.out /\ z.waits = x.waits
        /\ z.rem = x.rem - 1
        /\ (z.rem = 0 => z.ph = "done") /\ (z.rem # 0 => z.ph = x.ph)
    BY <1>3, <2>7, <2>8, PartCounts
  <2>10. z.rem = Cardinality(z.out) + rest /\ z.rem \in Nat /\ (x.waits => z.rem > 0)
    <3>1. /\ z.rem = io[i].rem - 1 /\ io[i].rem = Cardinality(io[i].out) + rest
          /\ Cardinality(z.out) = Cardinality(io[i].out) - 1
      BY <1>3, <2>4, <2>6, <2>9
    <3>2. rest \in Nat /\ Cardinality(io[i].out) \in Nat /\ Cardinality(z.out) \in Nat
      BY <2>3, <2>4, <2>5, <2>9
    <3>3. x.waits => rest > 0
      BY <2>5
    <3> HIDE DEF rest
    <3> QED
      BY <3>1, <3>2, <3>3
  <2>11. Within(z)
    BY <2>2, <2>9 DEF Within, Passed
  <2>12. InFlight(z) => Exact(z)
    <3>1. InFlight(z) => z.rem > 0
      <4>1. InFlight(z) => z.rem # 0
        BY <2>9 DEF InFlight
      <4>2. z.rem \in Nat
        BY <2>10
      <4> QED
        BY <4>1, <4>2
    <3> QED
      BY <2>5, <2>9, <2>10, <2>11, <3>1 DEF Exact
  <2>13. z.waits => InFlight(z)
    BY <1>5, <2>9, <2>10 DEF InFlight
  <2>14. FansOut(z)
    BY <1>5, <2>9 DEF Keeps, FansOut, MirrorWrite
  <2>15. Over(z)
    <3>1. z.ph = "done" => z.rem = 0
      BY <1>5, <2>9 DEF InFlight
    <3>2. z.rem = 0 => Cardinality(z.out) = 0
      <4>1. rest \in Nat /\ Cardinality(z.out) \in Nat /\ z.rem = Cardinality(z.out) + rest
        BY <2>4, <2>5, <2>9, <2>10
      <4> HIDE DEF rest
      <4> QED
        BY <4>1
    <3> QED
      BY <2>11, <3>1, <3>2, OutFinite DEF Over
  <2>16. Good(z)
    BY <1>3, <2>9, <2>12, <2>13, <2>14, <2>15 DEF Good, Keeps, Single
  <2> QED
    BY <1>2, <2>16, OneGood DEF Result, Fine
<1>6. CASE ~(InFlight(x) /\ FansOut(x))
  <2>1. ~x.waits
    BY <1>1, <1>3, <1>4, <1>6 DEF Good, InFlight
  <2>2. DOMAIN z = Fields /\ z.type = x.type /\ z.ph \in {x.ph, "done"} /\ z.waits = x.waits /\ z.out = x.out
    BY <1>3 DEF CompletePart, Complete, Fields
  <2> HIDE DEF z
  <2>3. ~(InFlight(z) /\ FansOut(z))
    BY <1>6, <2>2 DEF InFlight, FansOut, MirrorWrite
  <2>4. "unexpected" \notin Faults \/ InFlight(x) => x.out = {}
    BY <1>1, <1>3, <1>4, <1>6, <2>2 DEF Good, Over, Single, InFlight
  <2>5. Over(z) /\ Single(z)
    BY <2>2, <2>4 DEF Over, Single, InFlight
  <2>6. Good(z)
    BY <1>3, <2>1, <2>2, <2>3, <2>5 DEF Good
  <2> QED
    BY <1>2, <2>6, OneGood DEF Result, Fine
<1> QED
  BY <1>5, <1>6

LEMMA InitIInv == Init => IInv
<1> SUFFICES ASSUME Init PROVE IInv
  OBVIOUS
<1> DEFINE x == [ph |-> "idle", waits |-> FALSE, type |-> "read", b |-> 0, n |-> 1, data |-> 0,
                 to |-> << >>, rem |-> 0, sub |-> 0, status |-> "success", res |-> "none",
                 out |-> {}, buf |-> 0]
<1>1. Good(x)
  BY DEF Good, Fields, Fresh, InFlight, Over, Single
<1>2. DOMAIN io = IOs /\ (\A i \in IOs : io[i] = x) /\ crashed = FALSE
  BY DEF Init
<1> HIDE DEF x
<1> QED
  BY <1>1, <1>2 DEF IInv

LEMMA NextIInv == IInv /\ [Next]_vars => IInv'
<1> SUFFICES ASSUME IInv, [Next]_vars PROVE IInv'
  OBVIOUS
<1>1. ASSUME NEW i \in IOs, Step(Submit(i)) PROVE IInv'
  BY <1>1, SubmitStep DEF Step
<1>2. ASSUME NEW i \in IOs, Step(IoStep(i)) PROVE IInv'
  <2>1. CASE Resume(i)
    BY <1>2, <2>1, ResumeStep DEF Step
  <2>2. CASE \E c \in Slots, success \in BOOLEAN : BaseDone(i, c, success)
    BY <1>2, <2>2, BaseDoneStep DEF Step
  <2> QED
    BY <1>2, <2>1, <2>2 DEF Step, IoStep
<1>3. ASSUME UNCHANGED <<io, crashed, level>> PROVE IInv'
  BY <1>3 DEF IInv, Good, Exact, Within, Passed, Once, Fresh, InFlight, FansOut, MirrorWrite, Mirror, Over, Single
<1>4. ASSUME NEW c \in Removable, Step(RemoveBase(c)) PROVE IInv'
  BY <1>3, <1>4 DEF Step, RemoveBase
<1> QED
  BY <1>1, <1>2, <1>3, <1>4 DEF Next, vars

-----------------------------------------------------------------------------

\* base_bdev_io_remaining counts exactly what is under way and what the interrupted
\* loop has not come to, as long as the process lives ...
THEOREM RemainingCounts == Spec => [](crashed \/ RemainingIsExact)
<1>1. IInv => crashed \/ RemainingIsExact
  BY DEF IInv, Good, Exact, RemainingIsExact
<1> QED
  BY <1>1, InitIInv, NextIInv, PTL DEF Spec

\* ... and always, if no loop meets the submission error it does not expect.
THEOREM RemainingAlways ==
  ASSUME "unexpected" \notin Faults
  PROVE  Spec => []RemainingIsExact
<1>1. IInv => RemainingIsExact
  BY DEF IInv, Good, Exact, RemainingIsExact
<1> QED
  BY <1>1, InitIInv, NextIInv, PTL DEF Spec

-----------------------------------------------------------------------------
(* Finite sets: what cannot go on forever.  Instead of an induction over a   *)
(* set, the least counterexample.                                           *)

\* Among subsets of a finite set one has no smaller one.
LEMMA SmallestSet ==
  ASSUME NEW S, IsFiniteSet(S), NEW F \in SUBSET SUBSET S, F # {}
  PROVE  \E B \in F : \A C \in F : C \subseteq B => C = B
<1>1. F \subseteq FiniteSubsetsOf(S)
  BY FS_Subset DEF FiniteSubsetsOf
<1>2. PICK B \in F : \A C \in F : ~(<<C, B>> \in StrictSubsetOrdering(S))
  BY <1>1, FS_StrictSubsetOrderingWellFounded, WFMin
<1> QED
  BY <1>2 DEF StrictSubsetOrdering

LEMMA LeastOfFinite ==
  ASSUME NEW S, IsFiniteSet(S), S # {}, NEW f, \A c \in S : f[c] \in Int
  PROVE  \E c \in S : \A d \in S : f[c] <= f[d]
<1> DEFINE Below(c) == {d \in S : f[d] < f[c]}
           Family == {Below(c) : c \in S}
<1>1. Family \in SUBSET SUBSET S /\ Family # {}
  OBVIOUS
<1>2. PICK B \in Family : \A C \in Family : C \subseteq B => C = B
  <2> HIDE DEF Family
  <2> QED
    BY <1>1, SmallestSet
<1>3. PICK c \in S : B = Below(c)
  BY DEF Family
<1>4. Below(c) = {}
  <2> SUFFICES ASSUME NEW d \in Below(c) PROVE FALSE
    OBVIOUS
  <2>1. Below(d) \subseteq Below(c) /\ d \notin Below(d) /\ Below(d) \in Family
    OBVIOUS
  <2> QED
    BY <1>2, <1>3, <2>1
<1> QED
  BY <1>4

-----------------------------------------------------------------------------
(* The sum of the lengths of some I/Os.                                     *)

Pick(s) == CHOOSE x \in s : TRUE

\* A function on the sets of I/Os in t that adds their lengths up.
Adds(h, r, t) ==
  h = [s \in SUBSET t |-> IF s = {} THEN 0 ELSE r[Pick(s)].n + h[s \ {Pick(s)}]]

Load(r, S) == MapThenSumSet(LAMBDA i : r[i].n, S)

LEMMA LoadDef ==
  ASSUME NEW r, NEW S
  PROVE  Load(r, S) = (CHOOSE h : Adds(h, r, S))[S]
BY DEF Load, MapThenSumSet, MapThenFoldSet, Adds, Pick

LEMMA AddsOnce ==
  ASSUME NEW r, NEW t, NEW u, IsFiniteSet(t), NEW g, Adds(g, r, t), NEW h, Adds(h, r, u)
  PROVE  \A s \in SUBSET (t \cap u) : g[s] = h[s]
<1> DEFINE F == {s \in SUBSET (t \cap u) : g[s] # h[s]}
<1> SUFFICES ASSUME F # {} PROVE FALSE
  OBVIOUS
<1>1. F \in SUBSET SUBSET t
  OBVIOUS
<1>2. PICK s \in F : \A v \in F : v \subseteq s => v = s
  <2> HIDE DEF F
  <2> QED
    BY <1>1, SmallestSet
<1> DEFINE v == s \ {Pick(s)}
<1>3. /\ g[s] = IF s = {} THEN 0 ELSE r[Pick(s)].n + g[v]
      /\ h[s] = IF s = {} THEN 0 ELSE r[Pick(s)].n + h[v]
  <2>1. s \in SUBSET t /\ s \in SUBSET u
    OBVIOUS
  <2> QED
    BY <2>1 DEF Adds
<1>4. s # {} /\ g[v] # h[v]
  BY <1>3
<1>5. Pick(s) \in s
  BY <1>4 DEF Pick
<1> QED
  BY <1>2, <1>4, <1>5

LEMMA AddsExists ==
  ASSUME NEW r, NEW S, IsFiniteSet(S)
  PROVE  \E h : Adds(h, r, S)
<1> DEFINE F == {t \in SUBSET S : ~\E h : Adds(h, r, t)}
<1> SUFFICES ASSUME F # {} PROVE FALSE
  OBVIOUS
<1>1. F \in SUBSET SUBSET S
  OBVIOUS
<1>2. PICK t \in F : \A v \in F : v \subseteq t => v = t
  <2> HIDE DEF F
  <2> QED
    BY <1>1, SmallestSet
<1> DEFINE g(u) == CHOOSE h : Adds(h, r, u)
           rest(s) == s \ {Pick(s)}
           h == [s \in SUBSET t |-> IF s = {} THEN 0 ELSE r[Pick(s)].n + g(rest(s))[rest(s)]]
<1>3. \A u \in SUBSET t : u # t => Adds(g(u), r, u) /\ IsFiniteSet(u)
  <2> TAKE u \in SUBSET t
  <2> HAVE u # t
  <2>1. u \in SUBSET S /\ u \notin F
    BY <1>2
  <2>2. \E k : Adds(k, r, u)
    BY <2>1
  <2> QED
    BY <2>1, <2>2, FS_Subset
<1>4. \A s \in SUBSET t : s # {} => Pick(s) \in s /\ rest(s) \in SUBSET t /\ rest(s) # t
  BY DEF Pick
<1>5. ASSUME NEW s \in SUBSET t, s # {} PROVE h[rest(s)] = g(rest(s))[rest(s)]
  <2> DEFINE u == rest(s)
  <2>1. u \in SUBSET t /\ u # t /\ Adds(g(u), r, u) /\ IsFiniteSet(u)
    BY <1>3, <1>4, <1>5
  <2> HIDE DEF u, g, rest
  <2>2. h[u] = IF u = {} THEN 0 ELSE r[Pick(u)].n + g(rest(u))[rest(u)]
    BY <2>1
  <2>3. g(u)[u] = IF u = {} THEN 0 ELSE r[Pick(u)].n + g(u)[u \ {Pick(u)}]
    BY <2>1 DEF Adds
  <2>4. u # {} => g(rest(u))[rest(u)] = g(u)[rest(u)]
    <3> SUFFICES ASSUME u # {} PROVE g(rest(u))[rest(u)] = g(u)[rest(u)]
      OBVIOUS
    <3>1. Adds(g(rest(u)), r, rest(u)) /\ rest(u) \in SUBSET (u \cap rest(u))
      <4>1. rest(u) \in SUBSET t /\ rest(u) # t
        BY <1>4, <2>1
      <4> QED
        BY <1>3, <4>1 DEF rest
    <3> QED
      BY <2>1, <3>1, AddsOnce
  <2> QED
    BY <2>2, <2>3, <2>4 DEF u, rest
<1>6. Adds(h, r, t)
  <2> HIDE DEF g
  <2>1. h = [s \in SUBSET t |-> IF s = {} THEN 0 ELSE r[Pick(s)].n + h[s \ {Pick(s)}]]
    BY <1>5
  <2> QED
    BY <2>1 DEF Adds
<1>7. ~\E k : Adds(k, r, t)
  BY <1>2
<1> QED
  BY <1>6, <1>7

LEMMA LoadAdds ==
  ASSUME NEW r, NEW S, IsFiniteSet(S), NEW h, Adds(h, r, S), NEW s \in SUBSET S
  PROVE  Load(r, s) = h[s]
<1> DEFINE k == CHOOSE g : Adds(g, r, s)
<1>1. IsFiniteSet(s)
  BY FS_Subset
<1>2. Adds(k, r, s)
  <2>1. \E g : Adds(g, r, s)
    BY <1>1, AddsExists
  <2> QED
    BY <2>1
<1>3. Load(r, s) = k[s] /\ s \in SUBSET (s \cap S)
  BY LoadDef
<1> HIDE DEF k
<1> QED
  BY <1>1, <1>2, <1>3, AddsOnce

LEMMA LoadStep ==
  ASSUME NEW r, NEW S, IsFiniteSet(S)
  PROVE  Load(r, S) = IF S = {} THEN 0 ELSE r[Pick(S)].n + Load(r, S \ {Pick(S)})
<1>1. PICK h : Adds(h, r, S)
  BY AddsExists
<1>2. Load(r, S) = h[S] /\ Load(r, S \ {Pick(S)}) = h[S \ {Pick(S)}]
  <2>1. S \in SUBSET S /\ S \ {Pick(S)} \in SUBSET S
    OBVIOUS
  <2> QED
    BY <1>1, <2>1, LoadAdds
<1>3. h[S] = IF S = {} THEN 0 ELSE r[Pick(S)].n + h[S \ {Pick(S)}]
  BY <1>1 DEF Adds
<1> QED
  BY <1>2, <1>3

LEMMA LoadType ==
  ASSUME NEW r, NEW S, IsFiniteSet(S), \A i \in S : r[i].n \in Int
  PROVE  Load(r, S) \in Int
<1> DEFINE F == {s \in SUBSET S : Load(r, s) \notin Int}
<1> SUFFICES ASSUME F # {} PROVE FALSE
  OBVIOUS
<1>1. F \in SUBSET SUBSET S
  OBVIOUS
<1>2. PICK s \in F : \A v \in F : v \subseteq s => v = s
  <2> HIDE DEF F
  <2> QED
    BY <1>1, SmallestSet
<1>3. IsFiniteSet(s)
  BY FS_Subset
<1>4. Load(r, s) = IF s = {} THEN 0 ELSE r[Pick(s)].n + Load(r, s \ {Pick(s)})
  BY <1>3, LoadStep
<1>5. s # {}
  BY <1>4
<1>6. Pick(s) \in s
  BY <1>5 DEF Pick
<1>7. Load(r, s \ {Pick(s)}) \in Int
  BY <1>2, <1>6
<1> QED
  BY <1>4, <1>6, <1>7

\* In whatever order they are added up.
LEMMA LoadRemove ==
  ASSUME NEW r, NEW S, IsFiniteSet(S), \A i \in S : r[i].n \in Int, NEW x \in S
  PROVE  Load(r, S) = r[x].n + Load(r, S \ {x})
<1> DEFINE F == {s \in SUBSET S : \E y \in s : Load(r, s) # r[y].n + Load(r, s \ {y})}
<1> SUFFICES ASSUME F # {} PROVE FALSE
  OBVIOUS
<1>1. F \in SUBSET SUBSET S
  OBVIOUS
<1>2. PICK s \in F : \A v \in F : v \subseteq s => v = s
  <2> HIDE DEF F
  <2> QED
    BY <1>1, SmallestSet
<1>3. PICK y \in s : Load(r, s) # r[y].n + Load(r, s \ {y})
  OBVIOUS
<1> DEFINE p == Pick(s)
<1>4. p \in s
  BY DEF Pick
<1>5. Load(r, s) = r[p].n + Load(r, s \ {p})
  <2>1. IsFiniteSet(s)
    BY FS_Subset
  <2> QED
    BY <2>1, <1>4, LoadStep
<1> HIDE DEF p
<1>6. p # y
  BY <1>3, <1>5
<1> DEFINE v == s \ {p}
           w == s \ {y}
<1>7. v \in SUBSET S /\ w \in SUBSET S /\ v \notin F /\ w \notin F /\ y \in v /\ p \in w
  BY <1>2, <1>4, <1>6
<1>8. Load(r, v) = r[y].n + Load(r, v \ {y}) /\ Load(r, w) = r[p].n + Load(r, w \ {p})
  BY <1>7
<1>9. v \ {y} = w \ {p}
  OBVIOUS
<1>10. Load(r, v \ {y}) \in Int /\ r[y].n \in Int /\ r[p].n \in Int
  <2>1. IsFiniteSet(v \ {y})
    BY <1>7, FS_Subset
  <2> QED
    BY <1>4, <1>7, <2>1, LoadType
<1> HIDE DEF v, w
<1>11. Load(r, s) = r[p].n + Load(r, v) /\ Load(r, s) # r[y].n + Load(r, w)
  BY <1>3, <1>5 DEF v, w
<1>12. Load(r, w \ {p}) = Load(r, v \ {y})
  BY <1>9
<1> DEFINE a == Load(r, v \ {y})
           m == r[y].n
           n == r[p].n
<1>13. Load(r, s) = n + (m + a) /\ Load(r, s) # m + (n + a) /\ a \in Int /\ m \in Int /\ n \in Int
  BY <1>8, <1>10, <1>11, <1>12
<1> HIDE DEF a, m, n
<1> QED
  BY <1>13

LEMMA LoadSame ==
  ASSUME NEW r, NEW q, NEW S, IsFiniteSet(S), \A i \in S : r[i].n = q[i].n
  PROVE  Load(r, S) = Load(q, S)
<1> DEFINE F == {s \in SUBSET S : Load(r, s) # Load(q, s)}
<1> SUFFICES ASSUME F # {} PROVE FALSE
  OBVIOUS
<1>1. F \in SUBSET SUBSET S
  OBVIOUS
<1>2. PICK s \in F : \A v \in F : v \subseteq s => v = s
  <2> HIDE DEF F
  <2> QED
    BY <1>1, SmallestSet
<1>3. IsFiniteSet(s)
  BY FS_Subset
<1>4. /\ Load(r, s) = IF s = {} THEN 0 ELSE r[Pick(s)].n + Load(r, s \ {Pick(s)})
      /\ Load(q, s) = IF s = {} THEN 0 ELSE q[Pick(s)].n + Load(q, s \ {Pick(s)})
  BY <1>3, LoadStep
<1>5. s # {} /\ Pick(s) \in s
  BY <1>4 DEF Pick
<1>6. Load(r, s \ {Pick(s)}) = Load(q, s \ {Pick(s)})
  BY <1>2, <1>5
<1> QED
  BY <1>4, <1>5, <1>6
-----------------------------------------------------------------------------
(* The contents of the base bdevs.                                          *)

\* The targets of a write of a raid1.
AllSlots == [j \in 1 .. NumBaseBdevs |-> j - 1]

\* What an I/O that is under way has in flight, and where.  A loop ends at a base
\* bdev that is there, so that it does not end the I/O itself.
Sent(x) ==
  IF FansOut(x)
  THEN /\ x.to[Len(x.to)] \in baseCh
       /\ MirrorWrite(x) => /\ x.to = AllSlots
                            /\ x.status = "success" /\ ~x.waits => x.sub = Len(x.to)
  ELSE /\ x.out \subseteq Place(x.b) \cap baseCh
       /\ x.status = "success"
       /\ Mirror /\ x.out # {} => x.rem = 1 /\ x.out = {x.sub}

Shaped(x) ==
  /\ x.type \in IoTypes /\ x.b \in Blocks /\ x.n \in 1 .. MaxBlocks /\ x.data \in Bits
  /\ x.ph = "idle" => x.status = "success"
  /\ InFlight(x) => Sent(x)

\* The base bdevs a write of a raid1 has come to and nothing is under way for
\* hold its data.
Held(x) ==
  InFlight(x) /\ MirrorWrite(x) /\ x.status = "success" =>
    \A c \in (Passed(x, x.sub) \cap baseCh) \ x.out : disk[c] = x.data

Setting ==
  /\ level \in Levels
  /\ baseCh \subseteq Slots /\ NumBaseBdevs - 1 \in baseCh
  /\ ~Mirror => baseCh = Slots
  /\ DOMAIN disk = Slots
  /\ DOMAIN counter = Slots /\ \A c \in Slots : counter[c] \in Int
  /\ want \in [Blocks -> Bits \cup {Unknown}]
  /\ clean \subseteq IOs

Apart == \A i \in clean, j \in IOs : i # j => ~Conflict(io[i], io[j])

Contents ==
  /\ IInv /\ Setting /\ Apart
  /\ \A i \in IOs : Shaped(io[i])
  /\ \A i \in clean : Held(io[i])
  /\ MirrorsAgree

-----------------------------------------------------------------------------
(* How an I/O gets on.                                                      *)

\* Its record stays what the user made of it, and what is under way goes to base
\* bdevs that are there.
OnItsWay(x, z) ==
  /\ Keeps(x, z)
  /\ z.ph = "done" => z.res = "failed"
  /\ z.ph # "done" => Sent(z)

\* The data of a write of a raid1 is under way where the loop has come to.
Reaches(x, z) ==
  MirrorWrite(x) /\ z.status = "success" =>
    /\ x.status = "success"
    /\ x.out \subseteq z.out
    /\ (Passed(z, z.sub) \cap baseCh) \ z.out \subseteq (Passed(x, x.sub) \cap baseCh) \ x.out

\* The loop of x has come to position k.
Onward(x, z, k) ==
  /\ Keeps(x, z) /\ z.to = x.to /\ z.sub = k /\ z.status = x.status /\ z.waits = FALSE
  /\ z.rem \in Int /\ z.ph = "active"
  /\ x.out \subseteq z.out
  /\ (Passed(z, k) \cap baseCh) \ z.out \subseteq (Passed(x, x.sub) \cap baseCh) \ x.out

LEMMA ReachedOut ==
  ASSUME NEW x, Loop(x), NEW k \in x.sub .. Len(x.to), x.to[Len(x.to)] \in baseCh
  PROVE  Onward(x, Reached(x, k), k)
<1> DEFINE passed  == {x.to[j] : j \in (x.sub + 1) .. k}
           missing == passed \ baseCh
           y       == [x EXCEPT !.sub = k, !.out = @ \cup (passed \cap baseCh)]
           z       == Reached(x, k)
<1>1. Len(x.to) \in Nat /\ x.sub \in Nat /\ k \in Nat /\ x.sub <= k /\ k <= Len(x.to) /\ x.sub < Len(x.to)
  BY LenProperties DEF Loop, Within, Once
<1>2. /\ Keeps(x, z) /\ Within(z) /\ z.waits = FALSE
      /\ z.to = x.to /\ z.sub = k
      /\ z.rem = Cardinality(z.out) + Len(x.to) - k
      /\ z.ph = "active" \/ k = Len(x.to)
      /\ z.ph = "done" => z.rem = 0
  BY ReachedCounts
<1>3. z.out = x.out \cup (passed \cap baseCh) /\ z.status = x.status
  <2>1. DOMAIN y = Fields /\ y.out = x.out \cup (passed \cap baseCh) /\ y.status = x.status
    BY DEF Loop, Fields
  <2>2. z = IF missing = {} THEN y ELSE CompletePart(y, Cardinality(missing), "success")
    BY DEF Reached
  <2> HIDE DEF y, z, missing
  <2> QED
    BY <2>1, <2>2 DEF CompletePart, Complete, Fields
<1> HIDE DEF z
<1>4. Cardinality(z.out) \in Nat /\ (Cardinality(z.out) = 0 => z.out = {})
  BY <1>2, OutFinite
<1>5. z.ph = "active"
  <2> SUFFICES ASSUME z.ph # "active" PROVE FALSE
    OBVIOUS
  <2>1. k = Len(x.to) /\ z.ph = "done"
    BY <1>2 DEF Keeps, Loop
  <2>2. x.to[Len(x.to)] \in passed
    BY <1>1, <2>1
  <2>3. z.out # {}
    BY <1>3, <2>2
  <2> QED
    BY <1>1, <1>2, <1>4, <2>1, <2>3
<1>6. Passed(z, k) = Passed(x, x.sub) \cup passed
  BY <1>1, <1>2 DEF Passed
<1>7. (Passed(z, k) \cap baseCh) \ z.out \subseteq (Passed(x, x.sub) \cap baseCh) \ x.out
  BY <1>3, <1>6
<1> QED
  BY <1>1, <1>2, <1>3, <1>4, <1>5, <1>7 DEF Onward, z

\* raid_bdev_io_complete_part for what is left of a loop that has met an error.
LEMMA FailedPart ==
  ASSUME NEW x, DOMAIN x = Fields, x.rem \in Int, NEW n \in Int
  PROVE  LET z == CompletePart(x, n, "failed")
         IN  /\ Keeps(x, z) /\ z.to = x.to /\ z.sub = x.sub /\ z.status = "failed"
             /\ z.ph = "done" /\ x.ph # "done" => z.res = "failed"
BY DEF CompletePart, Complete, Keeps, Fields

LEMMA FanOutMoves ==
  ASSUME NEW x, Ready(x), FansOut(x), x.to[Len(x.to)] \in baseCh, MirrorWrite(x) => x.to = AllSlots,
         "unexpected" \notin Faults, NEW waited, NEW q \in FanOut(x, waited)
  PROVE  q.crash = FALSE /\ OnItsWay(x, q.x) /\ Reaches(x, q.x)
<1> DEFINE y == Expect(x)
<1>1. Loop(y) /\ Keeps(x, y) /\ y.to = x.to /\ y.sub = x.sub
  BY ExpectCounts
<1>2. y.status = x.status /\ y.out = x.out
  BY DEF Ready, Expect, Fields
<1>3. Len(y.to) \in Nat /\ y.sub \in 0 .. Len(y.to) /\ Within(x) /\ Len(y.to) \in y.sub .. Len(y.to)
  BY <1>1, LenProperties DEF Ready, Loop, Within, Once
<1>4. PICK k \in y.sub .. Len(y.to) :
        \/ q = Result(Reached(y, k)) /\ k = Len(y.to)
        \/ q = Result(QueueIoWait(Reached(y, k)))
        \/ q \in HardError(Reached(y, k)) /\ MirrorWrite(x)
  <2>1. \/ q = Result(Reached(y, Len(x.to)))
        \/ \E k \in x.sub .. Len(x.to) - 1 :
             \/ q = Result(QueueIoWait(Reached(y, k)))
             \/ q \in HardError(Reached(y, k)) /\ (MirrorWrite(x) \/ "unexpected" \in Faults)
    BY <1>1, <1>3, FanOutCases
  <2>2. \A k \in x.sub .. Len(x.to) - 1 : k \in y.sub .. Len(y.to)
    BY <1>1, <1>3
  <2> HIDE DEF y
  <2> QED
    BY <1>1, <1>3, <2>1, <2>2
<1> DEFINE z == Reached(y, k)
<1>5. Onward(y, z, k)
  <2>1. y.to[Len(y.to)] \in baseCh /\ Loop(y) /\ k \in y.sub .. Len(y.to)
    BY <1>1, <1>4
  <2> HIDE DEF y
  <2> QED
    BY <2>1, ReachedOut
<1> HIDE DEF z, y
<1>6. Keeps(x, z) /\ DOMAIN z = Fields
  BY <1>1, <1>5 DEF Onward, Keeps
<1>7. /\ x.out \subseteq z.out
      /\ (Passed(z, k) \cap baseCh) \ z.out \subseteq (Passed(x, x.sub) \cap baseCh) \ x.out
  BY <1>1, <1>2, <1>5 DEF Onward, Passed
<1>8. CASE q = Result(z) /\ k = Len(y.to)
  <2>1. FansOut(z) /\ Sent(z)
    BY <1>1, <1>5, <1>6, <1>8 DEF Onward, Keeps, FansOut, MirrorWrite, Sent
  <2> QED
    BY <1>2, <1>5, <1>6, <1>7, <1>8, <2>1 DEF Onward, Result, OnItsWay, Reaches
<1>9. CASE q = Result(QueueIoWait(z))
  <2> DEFINE w == QueueIoWait(z)
  <2>1. /\ Keeps(x, w) /\ w.to = z.to /\ w.sub = z.sub /\ w.status = z.status /\ w.waits = TRUE
        /\ w.out = z.out /\ w.ph = z.ph
    BY <1>6 DEF QueueIoWait, Keeps, Fields
  <2> HIDE DEF w
  <2>2. Sent(w)
    BY <1>1, <1>5, <2>1 DEF Onward, Keeps, FansOut, MirrorWrite, Sent
  <2>3. Passed(w, w.sub) = Passed(z, k)
    BY <1>5, <2>1 DEF Onward, Passed
  <2> QED
    BY <1>2, <1>5, <1>7, <1>9, <2>1, <2>2, <2>3 DEF Onward, Result, OnItsWay, Reaches, w
<1>10. CASE q \in HardError(z) /\ MirrorWrite(x)
  <2> DEFINE n == Len(z.to) - z.sub
             w == CompletePart(z, n, "failed")
  <2>1. MirrorWrite(z)
    BY <1>6, <1>10 DEF Keeps, MirrorWrite
  <2>2. q = Result(w) /\ n \in Int
    BY <1>1, <1>3, <1>5, <1>10, <2>1 DEF Onward, HardError
  <2> HIDE DEF n
  <2>3. /\ Keeps(z, w) /\ w.to = z.to /\ w.sub = z.sub /\ w.status = "failed"
        /\ w.ph = "done" => w.res = "failed"
    <3>1. z.ph # "done"
      BY <1>5 DEF Onward
    <3> QED
      BY <1>5, <1>6, <2>2, <3>1, FailedPart DEF Onward
  <2> HIDE DEF w
  <2>4. Keeps(x, w)
    BY <1>6, <2>3 DEF Keeps
  <2>5. Sent(w)
    BY <1>1, <1>5, <2>3, <2>4 DEF Onward, Keeps, FansOut, MirrorWrite, Sent
  <2> QED
    BY <2>2, <2>3, <2>4, <2>5 DEF Result, OnItsWay, Reaches
<1> QED
  BY <1>4, <1>8, <1>9, <1>10 DEF z

\* raid1_channel_next_read_base_bdev finds a base bdev that is there.
LEMMA NextReadBaseBdevFound ==
  ASSUME Setting
  PROVE  NextReadBaseBdev \in baseCh
<1>1. NumBaseBdevs \in Nat /\ baseCh \in SUBSET (0 .. NumBaseBdevs - 1) /\ baseCh # {}
  BY NumAssumption DEF Setting, Slots
<1>2. IsFiniteSet(0 .. NumBaseBdevs - 1)
  BY <1>1, FS_Interval
<1>3. IsFiniteSet(baseCh)
  BY <1>1, <1>2, FS_Subset
<1>4. \A c \in baseCh : counter[c] \in Int
  BY DEF Setting
<1>5. \E c \in baseCh : \A d \in baseCh : counter[c] <= counter[d]
  BY <1>1, <1>3, <1>4, LeastOfFinite
<1> DEFINE S == {c \in baseCh : \A d \in baseCh : counter[c] <= counter[d]}
           id == [c \in S |-> c]
<1>6. S \in SUBSET baseCh /\ S # {}
  BY <1>5
<1>7. IsFiniteSet(S)
  <2> HIDE DEF S
  <2> QED
    BY <1>3, <1>6, FS_Subset
<1>8. \A c \in S : id[c] = c /\ c \in Int
  <2>1. \A c \in baseCh : c \in Int
    BY <1>1
  <2> QED
    BY <2>1
<1>9. \E c \in S : \A d \in S : c <= d
  <2> HIDE DEF S, id
  <2>1. \A c \in S : id[c] \in Int
    BY <1>8
  <2>2. \E c \in S : \A d \in S : id[c] <= id[d]
    BY <1>6, <1>7, <2>1, LeastOfFinite
  <2> QED
    BY <1>8, <2>2
<1>10. Min(S) \in S
  <2> HIDE DEF S
  <2> QED
    BY <1>9 DEF Min
<1> QED
  BY <1>6, <1>10 DEF NextReadBaseBdev

\* An I/O to one base bdev.
LEMMA ToOneMoves ==
  ASSUME NEW x, DOMAIN x = Fields, x.ph = "active", x.out = {}, x.status = "success", ~FansOut(x),
         x.b \in Blocks, Setting, "unexpected" \notin Faults, NEW waited, NEW q \in ToOne(x, waited)
  PROVE  q.crash = FALSE /\ OnItsWay(x, q.x) /\ (q.x.ph = "done" => q.x.out = {})
<1> DEFINE y    == IF Mirror THEN [x EXCEPT !.rem = 1] ELSE x
           slot == IF Mirror THEN NextReadBaseBdev ELSE x.b
           sent == [y EXCEPT !.out = {slot}, !.sub = IF Mirror THEN slot ELSE @]
<1>1. /\ Keeps(x, y) /\ y.ph = "active" /\ y.out = {} /\ y.status = "success"
      /\ Mirror => y.rem = 1
  BY DEF Keeps, Fields
<1>2. slot \in Place(x.b) \cap baseCh
  <2>1. CASE Mirror
    BY <2>1, NextReadBaseBdevFound DEF Place, Setting
  <2>2. CASE ~Mirror
    BY <2>2 DEF Place, Blocks, Setting
  <2> QED
    BY <2>1, <2>2
<1>3. \/ q = Result(sent)
      \/ q = Result(QueueIoWait(y))
      \/ q = Result(Complete(y, "failed"))
  BY DEF ToOne
<1> HIDE DEF y, slot
<1>4. \A z : Keeps(x, z) => ~FansOut(z) /\ z.b = x.b
  BY DEF Keeps, FansOut, MirrorWrite
<1>5. CASE q = Result(sent)
  <2>1. /\ Keeps(x, sent) /\ sent.out = {slot} /\ sent.status = "success" /\ sent.ph = "active"
        /\ Mirror => sent.rem = 1 /\ sent.sub = slot
    BY <1>1 DEF Keeps, Fields
  <2> HIDE DEF sent
  <2>2. Sent(sent)
    BY <1>2, <1>4, <2>1 DEF Sent
  <2> QED
    BY <1>5, <2>1, <2>2 DEF Result, OnItsWay
<1>6. CASE q = Result(QueueIoWait(y))
  <2> DEFINE w == QueueIoWait(y)
  <2>1. Keeps(x, w) /\ w.out = {} /\ w.status = "success" /\ w.ph = "active"
    BY <1>1 DEF Keeps, Fields, QueueIoWait
  <2> HIDE DEF w
  <2>2. Sent(w)
    BY <1>4, <2>1 DEF Sent
  <2> QED
    BY <1>6, <2>1, <2>2 DEF Result, OnItsWay, w
<1>7. CASE q = Result(Complete(y, "failed"))
  <2> DEFINE w == Complete(y, "failed")
  <2>1. Keeps(x, w) /\ w.out = {} /\ w.ph = "done" /\ w.res = "failed"
    BY <1>1 DEF Keeps, Fields, Complete
  <2> HIDE DEF w
  <2> QED
    BY <1>7, <2>1 DEF Result, OnItsWay, w
<1> QED
  BY <1>3, <1>5, <1>6, <1>7

-----------------------------------------------------------------------------
(* A step of one I/O.                                                       *)

\* A write stores its data where it belongs, and everywhere before it succeeds;
\* a read has found what it was to find.
Stores(i) ==
  /\ DOMAIN disk' = Slots
  /\ \A c \in Slots : disk'[c] # disk[c] =>
       InFlight(io[i]) /\ io[i].type = "write" /\ c \in Place(io[i].b)
  /\ i \in clean /\ io'[i].ph = "done" /\ io'[i].res = "success" =>
       /\ io[i].type = "write" => \A c \in Place(io[i].b) \cap baseCh : disk'[c] = io[i].data
       /\ io[i].type = "read" /\ want[io[i].b] # Unknown => io'[i].buf = want[io[i].b]

Moves(i) ==
  /\ \A j \in IOs \ {i} : io'[j] = io[j]
  /\ level' = level /\ baseCh' = baseCh
  /\ DOMAIN counter' = Slots /\ \A c \in Slots : counter'[c] \in Int
  /\ io[i].ph # "done" /\ io'[i].ph \in {"active", "done"}
  /\ io[i].ph = "idle" /\ io'[i].ph = "done" => io'[i].res = "failed"
  /\ io[i].ph = "active" =>
       io'[i].type = io[i].type /\ io'[i].b = io[i].b /\ io'[i].data = io[i].data
  /\ Shaped(io'[i])
  /\ i \in clean => Held(io[i])'
  /\ Stores(i)

LEMMA CounterChange ==
  ASSUME Setting, NEW s, NEW m \in Int
  PROVE  /\ DOMAIN [counter EXCEPT ![s] = @ + m] = Slots
         /\ \A c \in Slots : [counter EXCEPT ![s] = @ + m][c] \in Int
         /\ DOMAIN [counter EXCEPT ![s] = @ - m] = Slots
         /\ \A c \in Slots : [counter EXCEPT ![s] = @ - m][c] \in Int
BY DEF Setting

LEMMA LastTarget ==
  ASSUME Setting, NEW x, x.b \in Slots, NEW c \in Spans(x), Mirror => x.type # "null"
  PROVE  /\ Targets(x, c)[Len(Targets(x, c))] \in baseCh
         /\ x.type # "null" => Targets(x, c) = AllSlots
<1> DEFINE s == Targets(x, c)
           N == NumBaseBdevs
<1>1. Once(s)
  BY TargetsOnce
<1>2. CASE x.type = "null"
  <2>1. Len(s) \in 1 .. Len(s)
    BY <1>1, LenProperties DEF Once
  <2>2. s[Len(s)] \in Slots
    BY <1>1, <2>1, ElementOfSeq DEF Once
  <2> HIDE DEF s
  <2>3. baseCh = Slots
    BY <1>2 DEF Setting
  <2> QED
    BY <1>2, <2>2, <2>3 DEF s
<1>3. CASE x.type # "null"
  <2>1. s = [j \in 1 .. N |-> j - 1] /\ N \in Nat \ {0}
    BY <1>3, NumAssumption DEF Targets
  <2>2. DOMAIN s = 1 .. N /\ s \in Seq(Slots)
    BY <1>1, <2>1 DEF Once
  <2> HIDE DEF s
  <2>3. Len(s) = N
    BY <2>1, <2>2, LenProperties
  <2>4. s[N] = N - 1
    BY <2>1
  <2> QED
    BY <2>1, <2>3, <2>4 DEF Setting, s, AllSlots
<1> QED
  BY <1>2, <1>3

\* What the submission and the resumption of an I/O come to.
LEMMA HandedOver ==
  ASSUME Contents, NEW i \in IOs, NEW x, NEW q,
         OnItsWay(x, q.x), Take(i, q), counter' = ReadStarts(q.x), UNCHANGED <<level, baseCh, disk>>,
         x.type \in IoTypes, x.b \in Blocks, x.n \in 1 .. MaxBlocks, x.data \in Bits, x.ph = "active",
         io[i].ph \in {"idle", "active"},
         io[i].ph = "active" => x.type = io[i].type /\ x.b = io[i].b /\ x.data = io[i].data,
         i \in clean => Held(q.x)
  PROVE  Moves(i)
<1> DEFINE z == q.x
<1>1. io' = [io EXCEPT ![i] = z] /\ DOMAIN io = IOs
  BY DEF Take, Contents, IInv
<1>2. io'[i] = z /\ \A j \in IOs \ {i} : io'[j] = io[j]
  BY <1>1
<1>3. Setting
  BY DEF Contents
<1>4. /\ z.type = x.type /\ z.b = x.b /\ z.n = x.n /\ z.data = x.data /\ z.ph \in {"active", "done"}
      /\ z.ph = "done" => z.res = "failed"
      /\ z.ph # "done" => Sent(z)
  BY DEF OnItsWay, Keeps
<1> HIDE DEF z
<1>5. Shaped(z)
  BY <1>4 DEF Shaped, InFlight
<1>6. DOMAIN counter' = Slots /\ \A c \in Slots : counter'[c] \in Int
  <2>1. z.n \in Int
    BY <1>4, NumAssumption
  <2>2. counter' = ReadStarts(z)
    BY DEF z
  <2>3. counter' = [counter EXCEPT ![z.sub] = @ + z.n] \/ counter' = counter
    BY <2>2 DEF ReadStarts
  <2>4. CASE counter' = counter
    BY <1>3, <2>4 DEF Setting
  <2>5. CASE counter' = [counter EXCEPT ![z.sub] = @ + z.n]
    BY <1>3, <2>1, <2>5 DEF Setting
  <2> QED
    BY <2>3, <2>4, <2>5
<1>7. Stores(i)
  BY <1>2, <1>3, <1>4 DEF Stores, Setting
<1>8. i \in clean => Held(io[i])'
  <2>1. i \in clean => Held(z)
    BY DEF z
  <2> QED
    BY <1>2, <2>1 DEF Held, InFlight, MirrorWrite, Mirror, Passed
<1> QED
  BY <1>2, <1>4, <1>5, <1>6, <1>7, <1>8 DEF Moves

\* What the loop has come to, holds the data or has it under way.
LEMMA ReachesHolds ==
  ASSUME NEW x, NEW z, Keeps(x, z), Reaches(x, z),
         \A c \in (Passed(x, x.sub) \cap baseCh) \ x.out : x.status = "success" => disk[c] = x.data
  PROVE  Held(z)
BY DEF Keeps, Reaches, Held, MirrorWrite

LEMMA SubmitMoves ==
  ASSUME Contents, ~crashed, UNCHANGED level, "unexpected" \notin Faults, NEW i \in IOs, Submit(i)
  PROVE  Moves(i)
<1>1. Good(io[i]) /\ Shaped(io[i]) /\ io[i].ph = "idle" /\ Setting
  BY DEF Contents, IInv, Submit
<1>2. DOMAIN io[i] = Fields /\ Fresh(io[i]) /\ io[i].status = "success"
  BY <1>1 DEF Good, Shaped
<1>3. PICK t \in Types, b \in Blocks, n \in 1 .. MaxBlocks, data \in Bits :
        LET x == [io[i] EXCEPT !.ph = "active", !.type = t, !.b = b, !.n = n, !.data = data]
        IN  /\ Mirror => t # "null"
            /\ t # "read" => n = 1
            /\ t # "write" => data = 0
            /\ t = "reset" => b = CHOOSE d \in Blocks : TRUE
            /\ \/ \E c \in Spans(x) :
                    \E q \in SubmitTo([x EXCEPT !.to = IF FansOut(x) THEN Targets(x, c) ELSE << >>], FALSE) :
                      Take(i, q) /\ counter' = ReadStarts(q.x)
               \/ /\ t = "read" /\ "buffer" \in Faults
                  /\ Take(i, Result(Complete(x, "failed")))
                  /\ UNCHANGED counter
  BY Zenon DEF Submit
<1> DEFINE x == [io[i] EXCEPT !.ph = "active", !.type = t, !.b = b, !.n = n, !.data = data]
<1>4. /\ DOMAIN x = Fields /\ x.ph = "active" /\ Fresh(x) /\ x.status = "success"
      /\ x.b = b /\ x.n = n /\ x.data = data /\ x.type = t
  BY <1>2 DEF Fields, Fresh
<1>5. b \in Slots /\ t \in IoTypes
  BY NumAssumption, TypeAssumption DEF Blocks, Slots
<1>6. (Mirror => x.type # "null") /\ UNCHANGED <<level, baseCh, disk>>
  BY <1>3, <1>4 DEF Submit
<1>7. \/ \E c \in Spans(x) :
           \E q \in SubmitTo([x EXCEPT !.to = IF FansOut(x) THEN Targets(x, c) ELSE << >>], FALSE) :
             Take(i, q) /\ counter' = ReadStarts(q.x)
      \/ t = "read" /\ Take(i, Result(Complete(x, "failed"))) /\ UNCHANGED counter
  BY <1>3, Zenon DEF x
<1> HIDE DEF x
<1>8. CASE t = "read" /\ Take(i, Result(Complete(x, "failed"))) /\ UNCHANGED counter
  <2> DEFINE w == Complete(x, "failed")
             q == Result(w)
  <2>1. Keeps(x, w) /\ w.ph = "done" /\ w.res = "failed" /\ w.out = {} /\ w.type = "read"
    BY <1>4, <1>8 DEF Complete, Keeps, Fields, Fresh
  <2>2. q.x = w /\ Take(i, q)
    BY <1>8 DEF Result
  <2> HIDE DEF w, q
  <2>3. OnItsWay(x, q.x) /\ Held(q.x)
    BY <2>1, <2>2 DEF OnItsWay, Held, InFlight
  <2>4. counter' = ReadStarts(q.x)
    BY <1>8, <2>1, <2>2 DEF ReadStarts
  <2> QED
    BY <1>1, <1>4, <1>5, <1>6, <2>2, <2>3, <2>4, HandedOver
<1>9. CASE \E c \in Spans(x) :
             \E q \in SubmitTo([x EXCEPT !.to = IF FansOut(x) THEN Targets(x, c) ELSE << >>], FALSE) :
               Take(i, q) /\ counter' = ReadStarts(q.x)
  <2>1. PICK c \in Spans(x) :
          \E q \in SubmitTo([x EXCEPT !.to = IF FansOut(x) THEN Targets(x, c) ELSE << >>], FALSE) :
            Take(i, q) /\ counter' = ReadStarts(q.x)
    BY <1>9
  <2> DEFINE y == [x EXCEPT !.to = IF FansOut(x) THEN Targets(x, c) ELSE << >>]
  <2>2. PICK q \in SubmitTo(y, FALSE) : Take(i, q) /\ counter' = ReadStarts(q.x)
    BY <2>1
  <2>3. /\ DOMAIN y = Fields /\ y.ph = "active" /\ Fresh(y) /\ y.status = "success"
        /\ y.b = b /\ y.n = n /\ y.data = data /\ y.type = t
        /\ y.to = IF FansOut(x) THEN Targets(x, c) ELSE << >>
    BY <1>4 DEF Fields, Fresh
  <2> HIDE DEF y
  <2>4. FansOut(y) <=> FansOut(x)
    BY <1>4, <2>3 DEF FansOut, MirrorWrite
  <2>5. OnItsWay(y, q.x) /\ Held(q.x)
    <3>1. CASE FansOut(y)
      <4>1. y.to = Targets(x, c) /\ x.b \in Slots
        BY <1>4, <1>5, <2>3, <2>4, <3>1
      <4>2. Once(y.to)
        BY <4>1, TargetsOnce
      <4>3. Len(y.to) \in Nat /\ 0 < Len(y.to)
        BY <4>2, LenProperties DEF Once
      <4>4. Within(y)
        BY <2>3, <4>2, <4>3 DEF Within, Fresh, Passed
      <4>5. Ready(y)
        BY <2>3, <4>3, <4>4 DEF Ready, Fresh
      <4>6. y.to[Len(y.to)] \in baseCh /\ (x.type # "null" => y.to = AllSlots)
        BY <1>1, <1>6, <4>1, LastTarget
      <4>7. MirrorWrite(y) => y.to = AllSlots
        BY <1>4, <2>3, <4>6 DEF MirrorWrite
      <4>8. OnItsWay(y, q.x) /\ Reaches(y, q.x)
        BY <2>2, <3>1, <4>5, <4>6, <4>7, FanOutMoves DEF SubmitTo
      <4>9. Passed(y, y.sub) = {}
        BY <2>3 DEF Passed, Fresh
      <4> QED
        BY <4>8, <4>9, ReachesHolds DEF OnItsWay
    <3>2. CASE ~FansOut(y)
      <4>1. OnItsWay(y, q.x)
        BY <1>1, <2>2, <2>3, <3>2, ToOneMoves DEF SubmitTo, Fresh
      <4> QED
        BY <3>2, <4>1 DEF OnItsWay, Keeps, Held, FansOut, MirrorWrite
    <3> QED
      BY <3>1, <3>2
  <2> QED
    BY <1>1, <1>5, <1>6, <2>2, <2>3, <2>5, HandedOver
<1> QED
  BY <1>7, <1>8, <1>9

LEMMA ResumeMoves ==
  ASSUME Contents, ~crashed, UNCHANGED level, "unexpected" \notin Faults, NEW i \in IOs, Resume(i)
  PROVE  Moves(i)
<1>1. Good(io[i]) /\ Shaped(io[i]) /\ io[i].waits /\ Setting
  BY DEF Contents, IInv, Resume
<1> DEFINE x == [io[i] EXCEPT !.waits = FALSE]
<1>2. PICK q \in SubmitTo(x, TRUE) : Take(i, q) /\ counter' = ReadStarts(q.x)
  BY DEF Resume
<1>3. /\ DOMAIN x = Fields /\ x.ph = "active" /\ x.waits = FALSE /\ x.type = io[i].type
      /\ x.to = io[i].to /\ x.sub = io[i].sub /\ x.out = io[i].out /\ x.rem = io[i].rem
      /\ x.b = io[i].b /\ x.n = io[i].n /\ x.data = io[i].data /\ x.status = io[i].status
      /\ io[i].ph = "active"
  BY <1>1 DEF Good, InFlight, Fields
<1> HIDE DEF x
<1>4. FansOut(x) <=> FansOut(io[i])
  BY <1>3 DEF FansOut, MirrorWrite
<1>5. Sent(io[i])
  BY <1>1, <1>3 DEF Shaped, InFlight
<1>6. UNCHANGED <<level, baseCh, disk>>
  BY DEF Resume
<1>7. OnItsWay(x, q.x) /\ (i \in clean => Held(q.x))
  <2>1. CASE FansOut(x)
    <3>1. Exact(io[i])
      BY <1>1, <1>3, <1>4, <2>1 DEF Good, InFlight
    <3>2. Within(x)
      BY <1>3, <3>1 DEF Exact, Within, Passed
    <3>3. x.sub < Len(x.to) /\ x.rem = Cardinality(x.out) + (Len(x.to) - x.sub)
      BY <1>1, <1>3, <3>1 DEF Exact
    <3>4. Cardinality(x.out) \in Nat /\ Len(x.to) \in Nat /\ x.sub \in Int
      BY <3>2, OutFinite, LenProperties DEF Within, Once
    <3>5. x.rem = Cardinality(x.out) + Len(x.to) - x.sub
      BY <3>3, <3>4
    <3>6. Ready(x)
      BY <1>3, <3>2, <3>3, <3>5 DEF Ready
    <3>7. x.to[Len(x.to)] \in baseCh /\ (MirrorWrite(x) => x.to = AllSlots)
      BY <1>3, <1>4, <1>5, <2>1 DEF Sent, MirrorWrite
    <3>8. OnItsWay(x, q.x) /\ Reaches(x, q.x)
      BY <1>2, <2>1, <3>6, <3>7, FanOutMoves DEF SubmitTo
    <3>9. i \in clean => Held(q.x)
      <4> SUFFICES ASSUME i \in clean, MirrorWrite(x) PROVE Held(q.x)
        BY <3>8 DEF OnItsWay, Keeps, Held, MirrorWrite
      <4>1. Held(io[i]) /\ MirrorWrite(io[i]) /\ InFlight(io[i])
        BY <1>3 DEF Contents, InFlight, MirrorWrite
      <4>2. Passed(x, x.sub) = Passed(io[i], io[i].sub)
        BY <1>3 DEF Passed
      <4>3. \A c \in (Passed(x, x.sub) \cap baseCh) \ x.out : x.status = "success" => disk[c] = x.data
        BY <1>3, <4>1, <4>2 DEF Held
      <4> QED
        BY <3>8, <4>3, ReachesHolds DEF OnItsWay
    <3> QED
      BY <3>8, <3>9
  <2>2. CASE ~FansOut(x)
    <3>1. x.out = {} /\ x.status = "success"
      BY <1>1, <1>3, <1>4, <1>5, <2>2 DEF Good, Sent
    <3>2. x.b \in Blocks
      BY <1>1, <1>3 DEF Shaped
    <3>3. OnItsWay(x, q.x)
      BY <1>1, <1>2, <1>3, <2>2, <3>1, <3>2, ToOneMoves DEF SubmitTo
    <3> QED
      BY <2>2, <3>3 DEF OnItsWay, Keeps, Held, FansOut, MirrorWrite
  <2> QED
    BY <2>1, <2>2
<1> QED
  BY <1>1, <1>2, <1>3, <1>6, <1>7, HandedOver DEF Shaped

\* The callback of the last base bdev I/O of a write of a raid1 that nothing has
\* failed: the loop has been everywhere.
LEMMA LastPart ==
  ASSUME NEW x, Exact(x), Sent(x), MirrorWrite(x), x.status = "success", NEW c \in x.out, x.rem = 1
  PROVE  x.out = {c} /\ Slots \subseteq Passed(x, x.sub)
<1>1. Within(x) /\ NumBaseBdevs \in Nat
  BY NumAssumption DEF Exact
<1>2. IsFiniteSet(x.out) /\ Cardinality(x.out) \in Nat /\ Cardinality(x.out) # 0
  <2>1. IsFiniteSet(x.out) /\ Cardinality(x.out) \in Nat /\ (Cardinality(x.out) = 0 => x.out = {})
    BY <1>1, OutFinite
  <2> QED
    BY <2>1
<1>3. Len(x.to) \in Nat /\ x.sub \in Int
  BY <1>1, LenProperties DEF Within, Once
<1>4. ~x.waits /\ Cardinality(x.out) = 1
  BY <1>2, <1>3 DEF Exact
<1>5. x.out = {c}
  <2> DEFINE out == x.out
  <2>1. IsFiniteSet(out) /\ c \in out /\ Cardinality(out) = 1
    BY <1>2, <1>4
  <2> HIDE DEF out
  <2>2. Cardinality(out \ {c}) = 0 /\ IsFiniteSet(out \ {c})
    BY <2>1, FS_RemoveElement
  <2>3. out \ {c} = {}
    BY <2>2, FS_EmptySet
  <2> QED
    BY <2>1, <2>3 DEF out
<1>6. x.to = AllSlots /\ x.sub = Len(x.to)
  BY <1>4 DEF Sent, FansOut
<1>7. Len(x.to) = NumBaseBdevs
  <2>1. DOMAIN x.to = 1 .. NumBaseBdevs
    BY <1>6 DEF AllSlots
  <2>2. x.to \in Seq(Slots)
    BY <1>1 DEF Within, Once
  <2> QED
    BY <1>1, <2>1, <2>2, LenProperties
<1>8. Slots \subseteq Passed(x, x.sub)
  <2> SUFFICES ASSUME NEW d \in Slots PROVE d \in Passed(x, x.sub)
    OBVIOUS
  <2>1. d + 1 \in 1 .. NumBaseBdevs /\ x.to[d + 1] = d
    BY <1>1, <1>6 DEF Slots, AllSlots
  <2> QED
    BY <1>6, <1>7, <2>1 DEF Passed
<1> QED
  BY <1>5, <1>8

LEMMA BaseDoneMoves ==
  ASSUME Contents, ~crashed, UNCHANGED level, "unexpected" \notin Faults,
         NEW i \in IOs, NEW c \in Slots, NEW success \in BOOLEAN, BaseDone(i, c, success)
  PROVE  Moves(i)
<1> DEFINE st == IF success THEN "success" ELSE "failed"
           x  == [io[i] EXCEPT !.out = @ \ {c}, !.buf = IF io[i].type = "read" THEN disk[c] ELSE @]
           z  == IF FansOut(x) \/ Mirror THEN CompletePart(x, 1, st) ELSE Complete(x, st)
<1>1. Good(io[i]) /\ Shaped(io[i]) /\ c \in io[i].out /\ Setting
  BY DEF Contents, IInv, BaseDone
<1>2. io[i].ph = "active" /\ DOMAIN io[i] = Fields /\ Sent(io[i])
  <2>1. DOMAIN io[i] = Fields /\ io[i].ph \in {"idle", "active", "done"} /\ io[i].ph # "idle" /\ io[i].ph # "done"
    BY <1>1 DEF Good, Fresh, Over
  <2> QED
    BY <1>1, <2>1 DEF Shaped, InFlight
<1>3. io' = [io EXCEPT ![i] = z] /\ DOMAIN io = IOs
  BY DEF BaseDone, Take, Result, Contents, IInv
<1>4. /\ DOMAIN x = Fields /\ x.type = io[i].type /\ x.ph = "active" /\ x.sub = io[i].sub
      /\ x.to = io[i].to /\ x.rem = io[i].rem /\ x.waits = io[i].waits /\ x.out = io[i].out \ {c}
      /\ x.b = io[i].b /\ x.n = io[i].n /\ x.data = io[i].data /\ x.status = io[i].status
      /\ x.buf = IF io[i].type = "read" THEN disk[c] ELSE io[i].buf
  BY <1>2 DEF Fields
<1>5. /\ counter' = ReadEnds(x, success)
      /\ \/ disk' = IF x.type = "write" THEN [disk EXCEPT ![c] = x.data] ELSE disk
         \/ ~success /\ UNCHANGED disk
      /\ UNCHANGED <<level, baseCh>>
  BY DEF BaseDone
<1>6. z = IF FansOut(x) \/ Mirror THEN CompletePart(x, 1, st) ELSE Complete(x, st)
  OBVIOUS
<1> HIDE DEF x, z
<1>7. io'[i] = z /\ \A j \in IOs \ {i} : io'[j] = io[j]
  BY <1>3
<1>8. x.type \in IoTypes /\ x.b \in Blocks /\ x.n \in 1 .. MaxBlocks /\ x.data \in Bits
  BY <1>1, <1>4 DEF Shaped
<1>9. FansOut(x) <=> FansOut(io[i])
  BY <1>4 DEF FansOut, MirrorWrite
<1>10. DOMAIN counter' = Slots /\ \A d \in Slots : counter'[d] \in Int
  <2>1. x.n \in Int
    BY <1>8, NumAssumption
  <2>2. CASE counter' = counter
    BY <1>1, <2>2 DEF Setting
  <2>3. CASE counter' = [counter EXCEPT ![x.sub] = @ - x.n]
    BY <1>1, <2>1, <2>3 DEF Setting
  <2> QED
    BY <1>5, <2>2, <2>3 DEF ReadEnds
<1>11. /\ DOMAIN z = Fields /\ z.type = x.type /\ z.b = x.b /\ z.n = x.n /\ z.data = x.data /\ z.buf = x.buf
       /\ z.to = x.to /\ z.sub = x.sub /\ z.out = x.out /\ z.waits = x.waits /\ z.ph \in {"active", "done"}
  BY <1>4, <1>6 DEF CompletePart, Complete, Fields
<1>12. FansOut(x) \/ Mirror =>
         /\ z.status = IF success THEN x.status ELSE "failed"
         /\ z.rem = x.rem - 1
         /\ z.ph = "done" <=> z.rem = 0
         /\ z.ph = "done" => z.res = z.status
  <2>1. z.ph = "done" <=> z.ph # "active"
    BY <1>11
  <2> SUFFICES ASSUME FansOut(x) \/ Mirror
               PROVE  /\ z.status = IF success THEN x.status ELSE "failed"
                      /\ z.rem = x.rem - 1
                      /\ z.ph = "done" <=> z.rem = 0
                      /\ z.ph = "done" => z.res = z.status
    OBVIOUS
  <2>2. z = CompletePart(x, 1, st)
    BY <1>6
  <2> QED
    BY <1>4, <2>2 DEF CompletePart, Complete, Fields
<1>13. ~(FansOut(x) \/ Mirror) => z.ph = "done" /\ z.res = st
  BY <1>4, <1>6 DEF Complete, Fields
<1>14. DOMAIN disk' = Slots /\ \A d \in Slots : disk'[d] # disk[d] => x.type = "write" /\ d = c
  BY <1>1, <1>5 DEF Setting
<1>15. success /\ x.type = "write" => disk'[c] = x.data
  BY <1>1, <1>5 DEF Setting
<1>16. CASE FansOut(x)
  <2>1. Exact(io[i])
    BY <1>1, <1>2, <1>9, <1>16 DEF Good, InFlight
  <2>2. Shaped(z)
    BY <1>2, <1>4, <1>8, <1>9, <1>11, <1>12, <1>16 DEF Shaped, Sent, InFlight, FansOut, MirrorWrite
  <2>3. ASSUME i \in clean, MirrorWrite(x), z.status = "success"
        PROVE  \A d \in (Passed(x, x.sub) \cap baseCh) \ x.out : disk'[d] = x.data
    <3>1. success /\ io[i].status = "success"
      BY <1>4, <1>12, <1>16, <2>3
    <3>2. Held(io[i]) /\ MirrorWrite(io[i]) /\ InFlight(io[i])
      BY <1>2, <1>4, <2>3 DEF Contents, InFlight, MirrorWrite
    <3>3. Passed(x, x.sub) = Passed(io[i], io[i].sub)
      BY <1>4 DEF Passed
    <3>4. \A d \in (Passed(x, x.sub) \cap baseCh) \ x.out : d # c => disk[d] = x.data
      BY <1>4, <3>1, <3>2, <3>3 DEF Held
    <3>5. baseCh \subseteq Slots
      BY <1>1 DEF Setting
    <3> QED
      BY <1>14, <1>15, <2>3, <3>1, <3>4, <3>5 DEF MirrorWrite
  <2>4. i \in clean => Held(io[i])'
    <3> SUFFICES ASSUME i \in clean, MirrorWrite(x), z.status = "success"
                 PROVE  \A d \in (Passed(z, z.sub) \cap baseCh) \ z.out : disk'[d] = z.data
      BY <1>5, <1>7, <1>11 DEF Held, InFlight, MirrorWrite, Mirror, Passed
    <3> QED
      BY <1>11, <2>3 DEF Passed
  <2>5. Stores(i)
    <3>1. \A d \in Slots : disk'[d] # disk[d] => InFlight(io[i]) /\ io[i].type = "write" /\ d \in Place(io[i].b)
      BY <1>2, <1>4, <1>14, <1>16 DEF InFlight, FansOut, MirrorWrite, Place
    <3>2. ASSUME i \in clean, z.ph = "done", z.res = "success", io[i].type = "write"
          PROVE  \A d \in Place(io[i].b) \cap baseCh : disk'[d] = io[i].data
      <4>1. MirrorWrite(x) /\ MirrorWrite(io[i]) /\ z.status = "success" /\ io[i].status = "success"
        BY <1>4, <1>12, <1>16, <3>2 DEF FansOut, MirrorWrite
      <4>2. io[i].rem = 1
        <5>1. Cardinality(io[i].out) \in Nat /\ Len(io[i].to) \in Nat /\ io[i].sub \in Int
          <6>1. Within(io[i])
            BY <2>1 DEF Exact
          <6>2. Cardinality(io[i].out) \in Nat
            BY <6>1, OutFinite
          <6>3. Len(io[i].to) \in Nat /\ io[i].sub \in 0 .. Len(io[i].to)
            BY <6>1, LenProperties DEF Within, Once
          <6> QED
            BY <6>2, <6>3
        <5>2. io[i].rem \in Int
          BY <2>1, <5>1 DEF Exact
        <5> QED
          BY <1>4, <1>12, <1>16, <3>2, <5>2
      <4>3. io[i].out = {c} /\ Slots \subseteq Passed(io[i], io[i].sub)
        BY <1>1, <1>2, <2>1, <4>1, <4>2, LastPart
      <4>4. x.out = {} /\ Slots \subseteq Passed(x, x.sub)
        BY <1>4, <4>3 DEF Passed
      <4>5. \A d \in Slots \cap baseCh : disk'[d] = x.data
        BY <2>3, <3>2, <4>1, <4>4
      <4> QED
        BY <1>4, <4>1, <4>5 DEF Place, MirrorWrite
    <3>3. io[i].type # "read"
      BY <1>4, <1>16 DEF FansOut, MirrorWrite
    <3> QED
      BY <1>7, <1>14, <3>1, <3>2, <3>3 DEF Stores
  <2> QED
    BY <1>2, <1>4, <1>5, <1>7, <1>10, <1>11, <2>2, <2>4, <2>5 DEF Moves
<1>17. CASE ~FansOut(x)
  <2>1. c \in Place(x.b) \cap baseCh /\ x.status = "success" /\ (Mirror => x.rem = 1)
    BY <1>1, <1>2, <1>4, <1>9, <1>17 DEF Sent
  <2>2. z.ph = "done" /\ z.res = st
    BY <1>12, <1>13, <1>17, <2>1
  <2>3. Shaped(z)
    BY <1>8, <1>11, <2>2 DEF Shaped, InFlight
  <2>4. Held(io[i])'
    BY <1>7, <2>2 DEF Held, InFlight
  <2>5. x.type = "write" => ~Mirror
    BY <1>17 DEF FansOut, MirrorWrite
  <2>6. Stores(i)
    <3>1. \A d \in Slots : disk'[d] # disk[d] => InFlight(io[i]) /\ io[i].type = "write" /\ d \in Place(io[i].b)
      BY <1>2, <1>4, <1>14, <2>1 DEF InFlight
    <3>2. z.res = "success" /\ io[i].type = "write" => \A d \in Place(io[i].b) \cap baseCh : disk'[d] = io[i].data
      BY <1>4, <1>15, <2>1, <2>2, <2>5 DEF Place
    <3>3. io[i].type = "read" /\ want[io[i].b] # Unknown => z.buf = want[io[i].b]
      <4>1. io[i].type = "read" => z.buf = disk[c]
        BY <1>4, <1>11
      <4> QED
        BY <1>4, <1>8, <2>1, <4>1 DEF Contents, MirrorsAgree
    <3> QED
      BY <1>7, <1>14, <3>1, <3>2, <3>3 DEF Stores
  <2> QED
    BY <1>2, <1>4, <1>5, <1>7, <1>10, <1>11, <2>2, <2>3, <2>4, <2>6 DEF Moves
<1> QED
  BY <1>16, <1>17

-----------------------------------------------------------------------------
(* What the steps leave.                                                    *)

\* Only the write that a step ends is looked at.
LEMMA WantAfter ==
  ASSUME History, NEW i \in IOs, Moves(i), NEW b \in Blocks
  PROVE  \/ want'[b] = Unknown
         \/ /\ want'[b] = want[b]
            /\ ~(InFlight(io'[i]) /\ io'[i].type = "write" /\ io'[i].b = b)
            /\ ~(Ended(i) /\ io'[i].type = "write" /\ io'[i].b = b)
         \/ /\ Ended(i) /\ io'[i].type = "write" /\ io'[i].b = b
            /\ io'[i].res = "success" /\ i \in clean /\ want'[b] = io'[i].data
<1> DEFINE writes == {j \in IOs : io'[j].type = "write" /\ io'[j].b = b}
           ended  == {j \in writes : Ended(j)}
<1>1. want'[b] = IF \E j \in writes : InFlight(io'[j]) THEN Unknown
                 ELSE IF ended = {} THEN want[b]
                 ELSE LET k == CHOOSE j \in ended : TRUE
                      IN  IF io'[k].res = "success" /\ k \in clean THEN io'[k].data ELSE Unknown
  BY DEF History
<1>2. ended \subseteq {i}
  BY DEF Moves, Ended
<1>3. i \in ended <=> Ended(i) /\ io'[i].type = "write" /\ io'[i].b = b
  OBVIOUS
<1>4. InFlight(io'[i]) /\ io'[i].type = "write" /\ io'[i].b = b => \E j \in writes : InFlight(io'[j])
  OBVIOUS
<1> HIDE DEF writes, ended
<1>5. CASE ended = {}
  BY <1>1, <1>3, <1>4, <1>5
<1>6. CASE ended = {i}
  <2>1. (CHOOSE j \in ended : TRUE) = i
    BY <1>6
  <2> QED
    BY <1>1, <1>3, <1>6, <2>1
<1> QED
  BY <1>2, <1>5, <1>6

LEMMA WantType ==
  ASSUME Contents, History, level' = level, \A i \in IOs : Shaped(io[i])'
  PROVE  want' \in [Blocks -> Bits \cup {Unknown}]
<1>1. \A j \in IOs : io'[j].data \in Bits
  BY DEF Shaped, Bits
<1>2. \A b \in Blocks : want[b] \in Bits \cup {Unknown}
  BY DEF Contents, Setting
<1> DEFINE writes(b) == {j \in IOs : io'[j].type = "write" /\ io'[j].b = b}
           ended(b)  == {j \in writes(b) : Ended(j)}
           next(b)   == IF \E j \in writes(b) : InFlight(io'[j]) THEN Unknown
                        ELSE IF ended(b) = {} THEN want[b]
                        ELSE LET k == CHOOSE j \in ended(b) : TRUE
                             IN  IF io'[k].res = "success" /\ k \in clean THEN io'[k].data ELSE Unknown
<1>3. want' = [b \in Blocks |-> next(b)]
  BY DEF History
<1>4. ASSUME NEW b \in Blocks PROVE next(b) \in Bits \cup {Unknown}
  <2>1. ended(b) # {} => (CHOOSE j \in ended(b) : TRUE) \in IOs
    OBVIOUS
  <2> HIDE DEF ended, writes
  <2> QED
    BY <1>1, <1>2, <2>1
<1> HIDE DEF next
<1> QED
  BY <1>3, <1>4

LEMMA ApartAfter ==
  ASSUME Contents, History
  PROVE  Apart'
BY DEF Contents, Setting, History, Apart

LEMMA MovesContents ==
  ASSUME Contents, ~crashed, History, NEW i \in IOs, Moves(i), IInv'
  PROVE  Contents'
<1>1. \A j \in IOs \ {i} : io'[j] = io[j]
  BY DEF Moves
<1>2. level' = level /\ baseCh' = baseCh /\ clean' \subseteq clean
  BY DEF Moves, History
<1>3. \A x : Shaped(x)' <=> Shaped(x)
  BY <1>2 DEF Shaped, Sent, FansOut, MirrorWrite, Mirror, Blocks, Place, InFlight
<1>4. \A j \in IOs : Shaped(io[j])'
  <2>1. \A j \in IOs : Shaped(io'[j])
    BY <1>1 DEF Contents, Moves
  <2> QED
    BY <1>2, <2>1 DEF Shaped, Sent, FansOut, MirrorWrite, Mirror, Blocks, Place, InFlight
<1>5. Setting'
  <2>1. want' \in [Blocks -> Bits \cup {Unknown}]
    BY <1>2, <1>4, WantType
  <2>2. DOMAIN disk' = Slots
    BY DEF Moves, Stores
  <2> QED
    BY <1>2, <2>1, <2>2 DEF Contents, Setting, Moves, Mirror, Blocks
<1>6. \A j \in clean' : Held(io[j])'
  <2> SUFFICES ASSUME NEW j \in clean' PROVE Held(io[j])'
    OBVIOUS
  <2>1. j \in clean /\ j \in IOs
    BY <1>2 DEF Contents, Setting
  <2>2. CASE j = i
    BY <2>1, <2>2 DEF Moves
  <2>3. CASE j # i
    <3>1. io'[j] = io[j] /\ Held(io[j])
      BY <1>1, <2>1, <2>3 DEF Contents
    <3>2. InFlight(io[j]) /\ MirrorWrite(io[j]) => disk' = disk \/ \A c \in Slots : disk'[c] = disk[c]
      <4> SUFFICES ASSUME InFlight(io[j]), MirrorWrite(io[j]), NEW c \in Slots, disk'[c] # disk[c] PROVE FALSE
        OBVIOUS
      <4>1. InFlight(io[i]) /\ io[i].type = "write"
        BY DEF Moves, Stores
      <4>2. io[i].b = 0 /\ io[j].b = 0
        BY <2>1 DEF Contents, Shaped, MirrorWrite, Blocks
      <4>3. Conflict(io[j], io[i])
        BY <4>1, <4>2 DEF Conflict, Touches, MirrorWrite
      <4> QED
        BY <2>1, <2>3, <4>3 DEF Contents, Apart
    <3>3. baseCh \subseteq Slots
      BY DEF Contents, Setting
    <3> QED
      BY <1>2, <3>1, <3>2, <3>3 DEF Held, InFlight, MirrorWrite, Mirror, Passed
  <2> QED
    BY <2>2, <2>3
<1>7. MirrorsAgree'
  <2> SUFFICES ASSUME NEW b \in Blocks, want'[b] # Unknown, NEW c \in Place(b) \cap baseCh
               PROVE  disk'[c] = want'[b]
    BY <1>2 DEF MirrorsAgree, Blocks, Place, Mirror
  <2>1. c \in Slots
    BY DEF Contents, Setting
  <2>2. CASE /\ Ended(i) /\ io'[i].type = "write" /\ io'[i].b = b
             /\ io'[i].res = "success" /\ i \in clean /\ want'[b] = io'[i].data
    <3>1. io[i].ph = "active"
      <4>1. io[i].ph \in {"idle", "active", "done"} /\ io[i].ph # "done"
        BY <2>2 DEF Contents, IInv, Good, Moves, Ended
      <4> QED
        BY <2>2, <4>1 DEF Moves, Ended
    <3>2. io'[i].type = io[i].type /\ io'[i].b = io[i].b /\ io'[i].data = io[i].data
      BY <3>1 DEF Moves
    <3>3. \A d \in Place(io[i].b) \cap baseCh : disk'[d] = io[i].data
      BY <2>2, <3>2 DEF Moves, Stores, Ended
    <3> QED
      BY <2>2, <3>2, <3>3
  <2>3. CASE /\ want'[b] = want[b]
             /\ ~(InFlight(io'[i]) /\ io'[i].type = "write" /\ io'[i].b = b)
             /\ ~(Ended(i) /\ io'[i].type = "write" /\ io'[i].b = b)
    <3>1. disk[c] = want[b]
      BY <2>3 DEF Contents, MirrorsAgree
    <3>2. disk'[c] = disk[c]
      <4> SUFFICES ASSUME disk'[c] # disk[c] PROVE FALSE
        OBVIOUS
      <4>1. InFlight(io[i]) /\ io[i].type = "write" /\ c \in Place(io[i].b)
        BY <2>1 DEF Moves, Stores
      <4>2. io[i].b = b
        BY <4>1 DEF Contents, Shaped, Blocks, Place
      <4>3. io'[i].type = "write" /\ io'[i].b = b
        BY <4>1, <4>2 DEF Moves, InFlight
      <4>4. InFlight(io'[i]) \/ Ended(i)
        BY <4>1 DEF Moves, InFlight, Ended
      <4> QED
        BY <2>3, <4>3, <4>4
    <3> QED
      BY <2>3, <3>1, <3>2
  <2> QED
    BY <2>2, <2>3, WantAfter
<1> QED
  BY <1>4, <1>5, <1>6, <1>7, ApartAfter DEF Contents

LEMMA RemoveBaseContents ==
  ASSUME Contents, History, level' = level, NEW c \in Removable, RemoveBase(c), IInv'
  PROVE  Contents'
<1>1. io' = io /\ counter' = counter /\ disk' = disk /\ baseCh' = baseCh \ {c} /\ Mirror /\ clean' \subseteq clean
  BY DEF RemoveBase, History
<1>2. \A i \in IOs : ~InFlight(io[i])
  BY DEF RemoveBase
<1>3. \A i \in IOs : Shaped(io[i])'
  BY <1>1, <1>2 DEF Contents, Shaped, InFlight, Blocks, Mirror
<1>4. Setting'
  <2>1. want' \in [Blocks -> Bits \cup {Unknown}]
    BY <1>3, WantType
  <2>2. c # NumBaseBdevs - 1
    BY RemovableAssumption, NumAssumption
  <2> QED
    BY <1>1, <2>1, <2>2 DEF Contents, Setting, Mirror, Blocks
<1>5. \A i \in clean' : Held(io[i])'
  <2>1. \A i \in clean' : ~InFlight(io'[i])
    BY <1>1, <1>2 DEF Contents, Setting
  <2> QED
    BY <2>1 DEF Held, InFlight
<1>6. MirrorsAgree'
  <2>1. \A b \in Blocks : want'[b] = want[b] \/ want'[b] = Unknown
    <3> SUFFICES ASSUME NEW b \in Blocks PROVE want'[b] = want[b] \/ want'[b] = Unknown
      OBVIOUS
    <3> DEFINE writes == {j \in IOs : io'[j].type = "write" /\ io'[j].b = b}
               ended  == {j \in writes : Ended(j)}
    <3>1. ended = {}
      BY <1>1 DEF Ended
    <3> QED
      BY <3>1 DEF History
  <2> QED
    BY <1>1, <2>1 DEF Contents, MirrorsAgree, Blocks, Place, Mirror
<1> QED
  BY <1>3, <1>4, <1>5, <1>6, ApartAfter DEF Contents

LEMMA InitContents == Init => Contents
<1> SUFFICES ASSUME Init PROVE Contents
  OBVIOUS
<1>1. NumBaseBdevs \in Nat \ {0} /\ MaxBlocks \in Nat \ {0}
  BY NumAssumption
<1>2. 0 \in Blocks /\ 0 \in Slots /\ NumBaseBdevs - 1 \in Slots /\ Blocks \subseteq Slots
  BY <1>1 DEF Blocks, Slots
<1>3. \A i \in IOs : /\ io[i].ph = "idle" /\ io[i].type = "read" /\ io[i].b = 0 /\ io[i].n = 1
                     /\ io[i].data = 0 /\ io[i].status = "success"
  BY DEF Init
<1>4. Setting
  BY <1>2 DEF Init, Setting, Bits
<1>5. Apart /\ (\A i \in clean : Held(io[i])) /\ (\A i \in IOs : Shaped(io[i]))
  BY <1>1, <1>2, <1>3, <1>4 DEF Apart, Conflict, Held, Shaped, InFlight, IoTypes, Bits, Setting
<1>6. MirrorsAgree
  BY <1>2 DEF Init, MirrorsAgree, Place
<1> QED
  BY <1>4, <1>5, <1>6, InitIInv DEF Contents

LEMMA IoMoves ==
  ASSUME Contents, "unexpected" \notin Faults, NEW i \in IOs, Step(Submit(i)) \/ Step(IoStep(i))
  PROVE  ~crashed /\ History /\ Moves(i)
<1>1. CASE Step(Submit(i))
  BY <1>1, SubmitMoves DEF Step
<1>2. CASE Step(IoStep(i))
  <2>1. CASE Resume(i)
    BY <1>2, <2>1, ResumeMoves DEF Step
  <2>2. CASE \E c \in Slots, success \in BOOLEAN : BaseDone(i, c, success)
    BY <1>2, <2>2, BaseDoneMoves DEF Step
  <2> QED
    BY <1>2, <2>1, <2>2 DEF Step, IoStep
<1> QED
  BY <1>1, <1>2

LEMMA NextContents ==
  ASSUME "unexpected" \notin Faults
  PROVE  Contents /\ [Next]_vars => Contents'
<1> SUFFICES ASSUME Contents, [Next]_vars PROVE Contents'
  OBVIOUS
<1>1. IInv'
  BY NextIInv DEF Contents
<1>2. ASSUME NEW i \in IOs, Step(Submit(i)) \/ Step(IoStep(i)) PROVE Contents'
  BY <1>1, <1>2, IoMoves, MovesContents
<1>3. ASSUME NEW c \in Removable, Step(RemoveBase(c)) PROVE Contents'
  BY <1>1, <1>3, RemoveBaseContents DEF Step
<1>4. CASE UNCHANGED vars
  BY <1>1, <1>4 DEF vars, Contents, Setting, Apart, Shaped, Sent, Held, MirrorsAgree, Conflict, Touches, InFlight,
       FansOut, MirrorWrite, Mirror, Blocks, Place, Passed
<1> QED
  BY <1>2, <1>3, <1>4 DEF Next

\* Once a write has succeeded, every base bdev of a raid1 that is still there
\* holds its data, whatever other I/Os are under way ...
THEOREM MirrorsAlwaysAgree ==
  ASSUME "unexpected" \notin Faults
  PROVE  Spec => []MirrorsAgree
<1>1. Contents => MirrorsAgree
  BY DEF Contents
<1> QED
  BY <1>1, InitContents, NextContents, PTL DEF Spec

-----------------------------------------------------------------------------
(* What the users of the channel are promised.                              *)

\* The I/O as BdevIo sees it.
Phase(x) == IF x.ph = "idle" THEN "new" ELSE IF InFlight(x) THEN "running"
            ELSE IF x.res = "success" THEN "ok" ELSE "failed"
Asked(x) == [kind |-> IF Covers(x) = {} THEN "other" ELSE x.type,
             units |-> Covers(x), data |-> [u \in Covers(x) |-> x.data]]

phases == [i \in IOs |-> Phase(io[i])]
whats  == [i \in IOs |-> Asked(io[i])]
gots   == [i \in IOs |-> io[i].buf]
wants  == [u \in Slots |-> IF u \in Blocks THEN want[u] ELSE 0]

LEMMA AskedFields ==
  ASSUME NEW x, x.type \in IoTypes
  PROVE  /\ Asked(x).units = Covers(x)
         /\ Asked(x).kind = "write" <=> x.type = "write"
         /\ Asked(x).kind = "read" <=> x.type = "read"
         /\ Asked(x).kind \in {"read", "write", "other"}
         /\ \A u \in Covers(x) : u = x.b /\ Asked(x).data[u] = x.data
         /\ x.type \in {"read", "write"} => Covers(x) = {x.b}
         /\ x.type \notin {"read", "write"} => Covers(x) = {}
BY DEF Asked, Covers, IoTypes

LEMMA OverlapIsConflict ==
  ASSUME NEW x, NEW y, x.type \in IoTypes, y.type \in IoTypes
  PROVE  Conflict(x, y) <=> InFlight(x) /\ InFlight(y) /\ Bdev!Overlap(Asked(x), Asked(y))
<1>1. Asked(x).units \cap Asked(y).units # {} <=>
        x.type \in {"read", "write"} /\ y.type \in {"read", "write"} /\ x.b = y.b
  <2>1. Asked(x).units = Covers(x) /\ Asked(y).units = Covers(y)
    BY AskedFields
  <2>2. Covers(x) = IF x.type \in {"read", "write"} THEN {x.b} ELSE {}
    BY DEF Covers
  <2>3. Covers(y) = IF y.type \in {"read", "write"} THEN {y.b} ELSE {}
    BY DEF Covers
  <2> HIDE DEF Asked, Covers
  <2> QED
    BY <2>1, <2>2, <2>3
<1>2. "write" \in {Asked(x).kind, Asked(y).kind} <=> "write" \in {x.type, y.type}
  BY AskedFields
<1> QED
  BY <1>1, <1>2 DEF Conflict, Touches, Bdev!Overlap

LEMMA PhaseIs ==
  ASSUME NEW x, x.ph \in {"idle", "active", "done"}
  PROVE  /\ Phase(x) = "new" <=> x.ph = "idle"
         /\ Phase(x) = "running" <=> InFlight(x)
         /\ Phase(x) = "ok" <=> x.ph = "done" /\ x.res = "success"
         /\ Phase(x) \in {"ok", "failed"} <=> x.ph = "done"
BY DEF Phase, InFlight

LEMMA InitImplements == Init => Bdev!Init
<1> SUFFICES ASSUME Init PROVE Bdev!Init
  OBVIOUS
<1>1. NumBaseBdevs \in Nat \ {0} /\ 0 \in Slots
  BY NumAssumption DEF Slots
<1>2. \A i \in IOs : io[i].ph = "idle" /\ io[i].type = "read" /\ io[i].b = 0
  BY DEF Init
<1>3. phases = [i \in IOs |-> "new"]
  BY <1>2 DEF phases, Phase
<1>4. \A i \in IOs : whats[i].kind \in Bdev!Kinds /\ whats[i].units \subseteq Slots
  <2> SUFFICES ASSUME NEW i \in IOs PROVE Asked(io[i]).kind \in Bdev!Kinds /\ Asked(io[i]).units \subseteq Slots
    BY DEF whats
  <2>1. io[i].type \in IoTypes
    BY <1>2 DEF IoTypes
  <2>2. Asked(io[i]).units = Covers(io[i]) /\ Asked(io[i]).kind \in {"read", "write", "other"}
    BY <2>1, AskedFields
  <2>3. Covers(io[i]) = {0}
    BY <1>2 DEF Covers
  <2> QED
    BY <1>1, <2>2, <2>3 DEF Bdev!Kinds
<1>5. Unknown \notin {wants[u] : u \in Slots}
  BY DEF Init, wants, Unknown
<1> QED
  BY <1>3, <1>4, <1>5 DEF Init, Bdev!Init, phases, whats, wants, Phase, Asked

LEMMA StepImplements ==
  ASSUME Contents, ~crashed, Contents', History, NEW i \in IOs, Moves(i)
  PROVE  Bdev!Next
<1>1. \A j \in IOs \ {i} : io'[j] = io[j]
  BY DEF Moves
<1>2. \A j \in IOs : /\ io[j].ph \in {"idle", "active", "done"} /\ io[j].type \in IoTypes /\ io[j].b \in Blocks
  BY DEF Contents, IInv, Good, Shaped
<1>3. \A j \in IOs : io'[j].type \in IoTypes /\ io'[j].b \in Blocks /\ io'[j].ph \in {"idle", "active", "done"}
  BY <1>1, <1>2 DEF Moves, Shaped
<1>4. level' = level /\ Blocks' = Blocks /\ clean \subseteq IOs /\ Blocks \subseteq Slots
  <2>1. 0 \in Slots
    BY NumAssumption DEF Slots
  <2> QED
    BY <2>1 DEF Moves, Contents, Setting, Blocks, Mirror
<1>5. /\ phases' = [j \in IOs |-> Phase(io'[j])] /\ whats' = [j \in IOs |-> Asked(io'[j])]
      /\ gots' = [j \in IOs |-> io'[j].buf]
      /\ wants' = [u \in Slots |-> IF u \in Blocks THEN want'[u] ELSE 0]
  BY <1>4 DEF phases, whats, gots, wants, Phase, Asked, Covers, InFlight
<1>6. Bdev!Advance
  <2> SUFFICES ASSUME NEW j \in IOs
               PROVE  /\ Phase(io'[j]) = Phase(io[j]) \/ <<Phase(io[j]), Phase(io'[j])>> \in Bdev!Moves
                      /\ Phase(io[j]) # "new" => Asked(io'[j]) = Asked(io[j])
                      /\ Phase(io[j]) \in {"ok", "failed"} => io'[j].buf = io[j].buf
    BY <1>5 DEF Bdev!Advance, phases, whats, gots, Phase, Asked
  <2>1. CASE j # i
    BY <1>1, <2>1
  <2>2. CASE j = i
    <3>1. io[i].ph \in {"idle", "active"} /\ io'[i].ph \in {"active", "done"}
      BY <1>2 DEF Moves
    <3>2. CASE io[i].ph = "idle"
      BY <2>2, <3>1, <3>2 DEF Moves, Phase, InFlight, Bdev!Moves
    <3>3. CASE io[i].ph = "active"
      <4>1. io'[i].type = io[i].type /\ io'[i].b = io[i].b /\ io'[i].data = io[i].data
        BY <3>3 DEF Moves
      <4>2. Covers(io'[i]) = Covers(io[i])
        BY <4>1 DEF Covers
      <4>3. Asked(io'[i]) = Asked(io[i])
        BY <4>1, <4>2 DEF Asked
      <4> QED
        BY <2>2, <3>1, <3>3, <4>3 DEF Phase, InFlight, Bdev!Moves
    <3> QED
      BY <3>1, <3>2, <3>3
  <2> QED
    BY <2>1, <2>2
<1>7. Bdev!Meet
  <2>1. \A j, k \in IOs : Conflict(io'[j], io'[k]) <=>
          Phase(io'[j]) = "running" /\ Phase(io'[k]) = "running" /\ Bdev!Overlap(Asked(io'[j]), Asked(io'[k]))
    BY <1>3, OverlapIsConflict, PhaseIs
  <2> DEFINE running == {j \in IOs : Phase(io'[j]) = "running"}
  <2>2. {j \in IOs : \E k \in IOs \ {j} : Conflict(io'[j], io'[k])}
          = {j \in running : \E k \in running \ {j} : Bdev!Overlap(Asked(io'[j]), Asked(io'[k]))}
    BY <2>1
  <2>3. clean' = clean \ {j \in running : \E k \in running \ {j} : Bdev!Overlap(Asked(io'[j]), Asked(io'[k]))}
    BY <2>2 DEF History
  <2> QED
    BY <1>5, <2>3 DEF Bdev!Meet, phases, whats, Phase, Asked
<1>8. \A j \in IOs : Phase(io'[j]) # Phase(io[j]) /\ Phase(io'[j]) \in {"ok", "failed"} <=> Ended(j)
  <2> SUFFICES ASSUME NEW j \in IOs
               PROVE  Phase(io'[j]) # Phase(io[j]) /\ Phase(io'[j]) \in {"ok", "failed"} <=> Ended(j)
    OBVIOUS
  <2>1. CASE j # i
    BY <1>1, <2>1 DEF Ended
  <2>2. CASE j = i
    <3>1. io[i].ph \in {"idle", "active"} /\ io'[i].ph \in {"active", "done"}
      BY <1>2 DEF Moves
    <3> QED
      BY <2>2, <3>1 DEF Phase, InFlight, Ended
  <2> QED
    BY <2>1, <2>2
<1>9. Bdev!Store
  <2> DEFINE W(u) == {j \in IOs : io'[j].type = "write" /\ io'[j].b = u}
             E(u) == {j \in W(u) : Ended(j)}
             Next2(u) == IF \E j \in W(u) : Phase(io'[j]) = "running" THEN Unknown
                         ELSE IF E(u) = {} THEN wants[u]
                         ELSE IF \E j \in E(u) : E(u) = {j} /\ Phase(io'[j]) = "ok" /\ j \in clean
                         THEN Asked(io'[CHOOSE j \in E(u) : TRUE]).data[u]
                         ELSE Unknown
  <2>1. \A u \in Slots : W(u) = {j \in IOs : Asked(io'[j]).kind = "write" /\ u \in Asked(io'[j]).units}
    <3>1. \A j \in IOs : Asked(io'[j]).kind = "write" <=> io'[j].type = "write"
      BY <1>3, AskedFields
    <3>2. \A j \in IOs : io'[j].type = "write" => Asked(io'[j]).units = {io'[j].b}
      BY <1>3, AskedFields
    <3> QED
      BY <3>1, <3>2
  <2>2. \A u \in Slots : E(u) = {j \in W(u) : Phase(io'[j]) # Phase(io[j]) /\ Phase(io'[j]) \in {"ok", "failed"}}
    BY <1>8
  <2>3. ASSUME NEW u \in Slots
        PROVE  (IF u \in Blocks THEN want'[u] ELSE 0) = Next2(u)
    <3>1. \A j \in IOs : (Phase(io'[j]) = "running" <=> InFlight(io'[j]))
                         /\ (Phase(io'[j]) = "ok" <=> io'[j].ph = "done" /\ io'[j].res = "success")
      BY <1>3, PhaseIs
    <3>2. E(u) = {} \/ E(u) = {i}
      BY <1>1 DEF Ended
    <3>3. CASE u \notin Blocks
      <4>1. W(u) = {}
        BY <1>3, <3>3
      <4>2. E(u) = {}
        BY <4>1
      <4> HIDE DEF W, E
      <4> QED
        BY <3>3, <4>1, <4>2 DEF wants
    <3>4. CASE u \in Blocks
      <4>1. want'[u] = IF \E j \in W(u) : InFlight(io'[j]) THEN Unknown
                       ELSE IF E(u) = {} THEN want[u]
                       ELSE LET k == CHOOSE j \in E(u) : TRUE
                            IN  IF io'[k].res = "success" /\ k \in clean THEN io'[k].data ELSE Unknown
        BY <3>4 DEF History
      <4>2. wants[u] = want[u]
        BY <3>4 DEF wants
      <4>3. (\E j \in W(u) : InFlight(io'[j])) <=> \E j \in W(u) : Phase(io'[j]) = "running"
        BY <3>1
      <4>4. CASE E(u) = {}
        <5> HIDE DEF W, E
        <5> QED
          BY <3>4, <4>1, <4>2, <4>3, <4>4
      <4>5. CASE E(u) = {i}
        <5>1. (CHOOSE j \in E(u) : TRUE) = i
          BY <4>5
        <5>2. io'[i].type = "write" /\ io'[i].b = u /\ io'[i].ph = "done"
          BY <4>5 DEF Ended
        <5>3. Asked(io'[i]).data[u] = io'[i].data
          <6>1. Covers(io'[i]) = {u}
            BY <5>2 DEF Covers
          <6> QED
            BY <6>1 DEF Asked
        <5>4. Phase(io'[i]) = "ok" <=> io'[i].res = "success"
          BY <3>1, <5>2
        <5> HIDE DEF W, E
        <5> QED
          BY <3>4, <4>1, <4>3, <4>5, <5>1, <5>3, <5>4
      <4> QED
        BY <3>2, <4>4, <4>5
    <3> QED
      BY <3>3, <3>4
  <2> HIDE DEF W, E
  <2>4. wants' = [u \in Slots |-> Next2(u)]
    <3> HIDE DEF Next2
    <3> QED
      BY <1>5, <2>3
  <2>5. Bdev!Store <=> wants' = [u \in Slots |->
         LET writes == {j \in IOs : whats'[j].kind = "write" /\ u \in whats'[j].units}
             ended  == {j \in writes : phases'[j] # phases[j] /\ phases'[j] \in {"ok", "failed"}}
         IN  IF \E j \in writes : phases'[j] = "running" THEN Unknown
             ELSE IF ended = {} THEN wants[u]
             ELSE IF \E j \in ended : ended = {j} /\ phases'[j] = "ok" /\ j \in clean
             THEN whats'[CHOOSE j \in ended : TRUE].data[u]
             ELSE Unknown]
    BY DEF Bdev!Store, Bdev!Ends, phases, whats, wants, Phase, Asked
  <2>6. \A j \in IOs : whats'[j] = Asked(io'[j]) /\ phases'[j] = Phase(io'[j]) /\ phases[j] = Phase(io[j])
    BY <1>5 DEF phases
  <2>7. ASSUME NEW u \in Slots
        PROVE  Next2(u) =
         LET writes == {j \in IOs : whats'[j].kind = "write" /\ u \in whats'[j].units}
             ended  == {j \in writes : phases'[j] # phases[j] /\ phases'[j] \in {"ok", "failed"}}
         IN  IF \E j \in writes : phases'[j] = "running" THEN Unknown
             ELSE IF ended = {} THEN wants[u]
             ELSE IF \E j \in ended : ended = {j} /\ phases'[j] = "ok" /\ j \in clean
             THEN whats'[CHOOSE j \in ended : TRUE].data[u]
             ELSE Unknown
    <3>1. W(u) = {j \in IOs : whats'[j].kind = "write" /\ u \in whats'[j].units}
      BY <2>1, <2>6
    <3>2. E(u) = {j \in W(u) : phases'[j] # phases[j] /\ phases'[j] \in {"ok", "failed"}}
      BY <2>2, <2>6 DEF W
    <3>3. W(u) \subseteq IOs /\ E(u) \subseteq IOs
      BY DEF W, E
    <3>4. (\E j \in W(u) : Phase(io'[j]) = "running") <=> \E j \in W(u) : phases'[j] = "running"
      BY <2>6, <3>3
    <3>5. (\E j \in E(u) : E(u) = {j} /\ Phase(io'[j]) = "ok" /\ j \in clean)
            <=> \E j \in E(u) : E(u) = {j} /\ phases'[j] = "ok" /\ j \in clean
      BY <2>6, <3>3
    <3>6. E(u) # {} => whats'[CHOOSE j \in E(u) : TRUE] = Asked(io'[CHOOSE j \in E(u) : TRUE])
      BY <2>6, <3>3
    <3> HIDE DEF Phase, Asked, phases, whats, wants
    <3>7. Next2(u) = IF \E j \in W(u) : phases'[j] = "running" THEN Unknown
             ELSE IF E(u) = {} THEN wants[u]
             ELSE IF \E j \in E(u) : E(u) = {j} /\ phases'[j] = "ok" /\ j \in clean
             THEN whats'[CHOOSE j \in E(u) : TRUE].data[u]
             ELSE Unknown
      BY <3>4, <3>5, <3>6
    <3> HIDE DEF Next2
    <3> QED
      BY <3>1, <3>2, <3>7
  <2> HIDE DEF Next2
  <2> QED
    BY <2>4, <2>5, <2>7
<1>10. Bdev!Fetch
  <2> SUFFICES ASSUME NEW j \in clean, Phase(io'[j]) # Phase(io[j]), Phase(io'[j]) = "ok", Asked(io[j]).kind = "read",
                      NEW u \in Asked(io[j]).units, wants[u] # Unknown
               PROVE  io'[j].buf = wants[u]
    BY <1>4, <1>5 DEF Bdev!Fetch, Bdev!Ends, phases, whats, gots, wants, Phase, Asked
  <2>1. j = i /\ j \in IOs
    BY <1>1, <1>4
  <2>2. io[i].type = "read" /\ u = io[i].b /\ u \in Blocks /\ io'[i].ph = "done" /\ io'[i].res = "success"
    <3>1. Phase(io'[i]) = "ok" => io'[i].ph = "done" /\ io'[i].res = "success"
      BY <1>3, PhaseIs
    <3>2. io[i].type \in IoTypes
      BY <1>2
    <3>3. io[i].type = "read" /\ Asked(io[i]).units = {io[i].b}
      <4>1. Asked(io[i]).kind = "read" => io[i].type = "read"
        BY <3>2, AskedFields
      <4>2. io[i].type = "read" => Asked(io[i]).units = Covers(io[i]) /\ Covers(io[i]) = {io[i].b}
        BY <3>2, AskedFields
      <4> QED
        BY <2>1, <4>1, <4>2
    <3> QED
      BY <1>2, <2>1, <3>1, <3>3
  <2>3. wants[u] = want[u]
    BY <1>4, <2>2 DEF wants
  <2> QED
    BY <2>1, <2>2, <2>3 DEF Moves, Stores
<1> QED
  BY <1>6, <1>7, <1>9, <1>10 DEF Bdev!Next

LEMMA NextImplements ==
  ASSUME "unexpected" \notin Faults
  PROVE  Contents /\ Contents' /\ [Next]_vars => [Bdev!Next]_(Bdev!vars)
<1> SUFFICES ASSUME Contents, Contents', [Next]_vars PROVE [Bdev!Next]_(Bdev!vars)
  OBVIOUS
<1>1. ASSUME NEW i \in IOs, Step(Submit(i)) \/ Step(IoStep(i)) PROVE Bdev!Next
  BY <1>1, IoMoves, StepImplements
<1>2. ASSUME NEW c \in Removable, Step(RemoveBase(c)) PROVE UNCHANGED Bdev!vars
  <2>1. io' = io /\ level' = level /\ crashed' = crashed /\ History /\ \A j \in IOs : ~InFlight(io[j])
    BY <1>2 DEF Step, RemoveBase
  <2>2. Blocks' = Blocks
    BY <2>1 DEF Blocks, Mirror
  <2>3. want' = want
    <3>1. want \in [Blocks -> Bits \cup {Unknown}]
      BY DEF Contents, Setting
    <3>2. ASSUME NEW b \in Blocks PROVE want'[b] = want[b]
      <4> DEFINE writes == {j \in IOs : io'[j].type = "write" /\ io'[j].b = b}
                 ended  == {j \in writes : Ended(j)}
      <4>1. ended = {} /\ ~\E j \in writes : InFlight(io'[j])
        BY <2>1 DEF Ended
      <4> QED
        BY <4>1, <2>1 DEF History
    <3>3. DOMAIN want' = Blocks
      BY <2>1 DEF History
    <3> QED
      BY <2>2, <3>1, <3>2, <3>3 DEF Contents, Setting
  <2>4. clean' = clean
    <3>1. clean \subseteq IOs /\ \A j, k \in IOs : ~Conflict(io'[j], io'[k])
      BY <2>1 DEF Contents, Setting, Conflict
    <3> QED
      BY <2>1, <3>1 DEF History
  <2> QED
    BY <2>1, <2>2, <2>3, <2>4 DEF Bdev!vars, Covers, InFlight
<1>3. CASE UNCHANGED vars
  BY <1>3 DEF vars, Bdev!vars, Covers, InFlight, Blocks, Mirror
<1> QED
  BY <1>1, <1>2, <1>3 DEF Next

\* ... and the channel keeps what BdevIo promises: every I/O ends once, and a
\* read that no write overlaps returns what the last write put there.
THEOREM ChannelImplements ==
  ASSUME "unexpected" \notin Faults
  PROVE  Spec => Implements
<1>1. Contents /\ Contents' /\ [Next]_vars => [Bdev!Next]_(Bdev!vars)
  BY NextImplements
<1> QED
  BY <1>1, InitContents, InitImplements, NextContents, PTL DEF Spec, Implements, Bdev!Spec

-----------------------------------------------------------------------------
(* The counters of the reads.                                               *)

\* Where a read of a raid1 is under way, and the reads there.
ReadAt(x)  == IF Mirror /\ x.type = "read" THEN x.out ELSE {}
Readers(c) == {i \in IOs : c \in ReadAt(io[i])}

Busy == {i \in IOs : io[i].ph # "idle"}

Counted == \A c \in Slots : counter[c] = Load(io, Readers(c))

CountInv == Contents /\ IsFiniteSet(Busy) /\ Counted

LEMMA CountedIsExact == Counted <=> CountersAreExact
<1>1. \A c \in Slots :
        Readers(c) = {i \in IOs : Mirror /\ io[i].type = "read" /\ c \in io[i].out}
  BY DEF Readers, ReadAt
<1>2. \A S : Load(io, S) = MapThenSumSet(LAMBDA i : io[i].n, S)
  BY DEF Load
<1> QED
  BY <1>1, <1>2 DEF Counted, CountersAreExact

\* How a step changes the reads that are under way: one starts, or one ends.
Counts(i) ==
  \/ ReadAt(io[i]) = {} /\ ReadAt(io'[i]) = {} /\ counter' = counter
  \/ \E s \in Slots : /\ ReadAt(io[i]) = {} /\ ReadAt(io'[i]) = {s}
                      /\ counter' = [counter EXCEPT ![s] = @ + io'[i].n]
  \/ \E s \in Slots : /\ ReadAt(io[i]) = {s} /\ ReadAt(io'[i]) = {}
                      /\ counter' = [counter EXCEPT ![s] = @ - io[i].n]

LEMMA StartCounts ==
  ASSUME Contents, Contents', ~crashed, ~crashed', "unexpected" \notin Faults, level' = level, baseCh' = baseCh,
         NEW i \in IOs, ReadAt(io[i]) = {}, counter' = ReadStarts(io'[i]), io'[i].ph \in {"active", "done"}
  PROVE  Counts(i)
<1> DEFINE z == io'[i]
<1>1. Good(io[i])' /\ Shaped(io[i])' /\ baseCh \subseteq Slots
  BY DEF Contents, IInv, Setting
<1>2. CASE ReadAt(z) = {}
  BY <1>2 DEF ReadAt, ReadStarts, Counts
<1>3. CASE ReadAt(z) # {}
  <2>1. Mirror /\ z.type = "read" /\ z.out # {} /\ ReadAt(z) = z.out
    BY <1>3 DEF ReadAt
  <2>2. z.ph = "active"
    BY <1>1, <2>1 DEF Good, Over
  <2>3. z.out = {z.sub} /\ z.sub \in Slots
    BY <1>1, <2>1, <2>2 DEF Shaped, InFlight, Sent, FansOut, MirrorWrite, Mirror, Place
  <2> HIDE DEF z
  <2> QED
    BY <2>1, <2>3 DEF Counts, ReadStarts, z
<1> QED
  BY <1>2, <1>3

LEMMA IoCounts ==
  ASSUME Contents, Contents', "unexpected" \notin Faults, NEW i \in IOs, Step(Submit(i)) \/ Step(IoStep(i))
  PROVE  Counts(i)
<1>1. ~crashed /\ Moves(i) /\ level' = level /\ baseCh' = baseCh
  BY IoMoves DEF Moves
<1>2. ~crashed' /\ io'[i].ph \in {"active", "done"}
  BY <1>1 DEF Contents, IInv, Moves
<1>3. Good(io[i]) /\ Shaped(io[i]) /\ DOMAIN io = IOs
  BY <1>1 DEF Contents, IInv
<1>4. CASE Submit(i)
  <2>1. io[i].out = {} /\ DOMAIN io[i] = Fields
    BY <1>3, <1>4 DEF Submit, Good, Fresh
  <2>2. counter' = ReadStarts(io'[i])
    <3>1. PICK x : /\ x.out = {} /\ DOMAIN x = Fields
                   /\ \/ \E q : Take(i, q) /\ counter' = ReadStarts(q.x)
                      \/ Take(i, Result(Complete(x, "failed"))) /\ UNCHANGED counter
      <4>1. PICK t \in Types, b \in Blocks, n \in 1 .. MaxBlocks, data \in Bits :
              LET x == [io[i] EXCEPT !.ph = "active", !.type = t, !.b = b, !.n = n, !.data = data]
              IN  /\ Mirror => t # "null"
                  /\ t # "read" => n = 1
                  /\ t # "write" => data = 0
                  /\ t = "reset" => b = CHOOSE d \in Blocks : TRUE
                  /\ \/ \E c \in Spans(x) :
                          \E q \in SubmitTo([x EXCEPT !.to = IF FansOut(x) THEN Targets(x, c) ELSE << >>], FALSE) :
                            Take(i, q) /\ counter' = ReadStarts(q.x)
                     \/ /\ t = "read" /\ "buffer" \in Faults
                        /\ Take(i, Result(Complete(x, "failed")))
                        /\ UNCHANGED counter
        BY <1>4, Zenon DEF Submit
      <4> DEFINE x == [io[i] EXCEPT !.ph = "active", !.type = t, !.b = b, !.n = n, !.data = data]
      <4>2. x.out = {} /\ DOMAIN x = Fields
        BY <2>1 DEF Fields
      <4>3. \/ \E q : Take(i, q) /\ counter' = ReadStarts(q.x)
            \/ Take(i, Result(Complete(x, "failed"))) /\ UNCHANGED counter
        BY <4>1, Zenon
      <4> HIDE DEF x
      <4> QED
        BY <4>2, <4>3
    <3>2. CASE \E q : Take(i, q) /\ counter' = ReadStarts(q.x)
      BY <1>3, <3>2 DEF Take, ReadStarts
    <3>3. CASE Take(i, Result(Complete(x, "failed"))) /\ UNCHANGED counter
      <4>1. io'[i] = Complete(x, "failed") /\ counter' = counter
        BY <1>3, <3>3 DEF Take, Result
      <4>2. Complete(x, "failed").out = {}
        BY <3>1 DEF Complete, Fields
      <4> QED
        BY <4>1, <4>2 DEF ReadStarts
    <3> QED
      BY <3>1, <3>2, <3>3
  <2> QED
    BY <1>1, <1>2, <2>1, <2>2, StartCounts DEF ReadAt
<1>5. CASE Resume(i)
  <2>1. ReadAt(io[i]) = {}
    BY <1>3, <1>5 DEF Resume, Good, ReadAt, FansOut, MirrorWrite
  <2>2. counter' = ReadStarts(io'[i])
    BY <1>3, <1>5 DEF Resume, Take, ReadStarts
  <2> QED
    BY <1>1, <1>2, <2>1, <2>2, StartCounts
<1>6. CASE \E c \in Slots, success \in BOOLEAN : BaseDone(i, c, success)
  <2>1. PICK c \in Slots, success \in BOOLEAN : BaseDone(i, c, success)
    BY <1>6
  <2> DEFINE st == IF success THEN "success" ELSE "failed"
             x  == [io[i] EXCEPT !.out = @ \ {c}, !.buf = IF io[i].type = "read" THEN disk[c] ELSE @]
             z  == IF FansOut(x) \/ Mirror THEN CompletePart(x, 1, st) ELSE Complete(x, st)
  <2>2. c \in io[i].out /\ io[i].ph = "active" /\ DOMAIN io[i] = Fields
    <3>1. c \in io[i].out
      BY <2>1 DEF BaseDone
    <3> QED
      BY <1>3, <3>1 DEF Good, Fresh, Over
  <2>3. DOMAIN x = Fields /\ x.type = io[i].type /\ x.sub = io[i].sub /\ x.n = io[i].n /\ x.out = io[i].out \ {c}
    BY <2>2 DEF Fields
  <2>4. io'[i] = z /\ counter' = ReadEnds(x, success)
    BY <1>3, <2>1 DEF BaseDone, Take, Result
  <2> HIDE DEF x
  <2>5. z.type = x.type /\ z.out = x.out
    BY <2>3 DEF CompletePart, Complete, Fields
  <2> HIDE DEF z
  <2>6. CASE Mirror /\ io[i].type = "read"
    <3>1. io[i].out = {io[i].sub}
      BY <1>3, <2>2, <2>6 DEF Shaped, InFlight, Sent, FansOut, MirrorWrite
    <3>2. c = io[i].sub /\ z.out = {}
      BY <2>2, <2>3, <2>5, <3>1
    <3>3. counter' = [counter EXCEPT ![c] = @ - io[i].n]
      BY <2>3, <2>4, <2>6, <3>2 DEF ReadEnds
    <3> QED
      BY <2>3, <2>4, <2>5, <2>6, <3>1, <3>2, <3>3 DEF Counts, ReadAt
  <2>7. CASE ~(Mirror /\ io[i].type = "read")
    BY <2>3, <2>4, <2>5, <2>7 DEF Counts, ReadAt, ReadEnds
  <2> QED
    BY <2>6, <2>7
<1> QED
  BY <1>4, <1>5, <1>6 DEF Step, IoStep

LEMMA CountsCounted ==
  ASSUME CountInv, Contents', "unexpected" \notin Faults, NEW i \in IOs, level' = level, \A j \in IOs \ {i} : io'[j] = io[j], Counts(i)
  PROVE  IsFiniteSet(Busy') /\ Counted'
<1>1. IsFiniteSet(Busy')
  <2>1. Busy' \in SUBSET (Busy \cup {i})
    BY DEF Busy
  <2>2. IsFiniteSet(Busy \cup {i})
    BY FS_AddElement DEF CountInv
  <2> QED
    BY <2>1, <2>2, FS_Subset
<1>2. \A j \in IOs : io[j].n \in Int /\ io'[j].n \in Int
  BY NumAssumption DEF CountInv, Contents, Shaped
<1>3. \A c \in Slots : Readers(c)' = {j \in IOs : c \in ReadAt(io'[j])}
  BY DEF Readers, ReadAt, Mirror
<1>4. \A c \in Slots : IsFiniteSet(Readers(c)) /\ IsFiniteSet(Readers(c)')
  <2> TAKE c \in Slots
  <2>1. \A j \in IOs : io[j].ph = "idle" => io[j].out = {}
    BY DEF CountInv, Contents, IInv, Good, Fresh
  <2>2. \A j \in IOs : io'[j].ph = "idle" => io'[j].out = {}
    BY DEF Contents, IInv, Good, Fresh
  <2>3. Readers(c) \in SUBSET Busy /\ Readers(c)' \in SUBSET Busy'
    BY <2>1, <2>2, <1>3 DEF Readers, ReadAt, Busy
  <2> QED
    BY <1>1, <2>3, FS_Subset DEF CountInv
<1>5. ASSUME NEW c \in Slots PROVE counter'[c] = Load(io', Readers(c)')
  <2> DEFINE R == Readers(c)
             S == Readers(c)'
  <2>1. counter[c] = Load(io, R) /\ c \in DOMAIN counter
    BY DEF CountInv, Counted, Contents, Setting
  <2>2. IsFiniteSet(R) /\ IsFiniteSet(S) /\ R \in SUBSET IOs /\ S \in SUBSET IOs
    BY <1>3, <1>4 DEF Readers
  <2>3. (i \in R <=> c \in ReadAt(io[i])) /\ (i \in S <=> c \in ReadAt(io'[i])) /\ R \ {i} = S \ {i}
    BY <1>3 DEF Readers
  <2>4. Load(io', R \ {i}) = Load(io, R \ {i}) /\ Load(io, R \ {i}) \in Int
    <3> DEFINE T == R \ {i}
    <3>1. IsFiniteSet(T) /\ \A j \in T : io'[j].n = io[j].n /\ io[j].n \in Int
      BY <1>2, <2>2, FS_Subset
    <3> HIDE DEF T
    <3>2. Load(io', T) = Load(io, T) /\ Load(io, T) \in Int
      BY <3>1, LoadSame, LoadType
    <3> QED
      BY <3>2 DEF T
  <2>5. i \in R => Load(io, R) = io[i].n + Load(io, R \ {i})
    BY <1>2, <2>2, LoadRemove
  <2>6. i \in S => Load(io', S) = io'[i].n + Load(io', S \ {i})
    BY <1>2, <2>2, LoadRemove
  <2>7. (i \notin R => R = R \ {i}) /\ (i \notin S => S = R \ {i})
    BY <2>3
  <2> HIDE DEF R, S
  <2>8. ASSUME ReadAt(io[i]) = {}, ReadAt(io'[i]) = {}, counter' = counter
        PROVE  counter'[c] = Load(io', S)
    BY <2>1, <2>3, <2>4, <2>7, <2>8
  <2>9. ASSUME NEW s \in Slots, ReadAt(io[i]) = {}, ReadAt(io'[i]) = {s},
               counter' = [counter EXCEPT ![s] = @ + io'[i].n]
        PROVE  counter'[c] = Load(io', S)
    <3>1. CASE c = s
      <4> DEFINE a == Load(io, R \ {i})
                 n == io'[i].n
      <4>1. counter[c] = a /\ counter'[c] = counter[c] + n /\ a \in Int /\ n \in Int
        BY <1>2, <2>1, <2>3, <2>4, <2>7, <2>9, <3>1
      <4>2. Load(io', S) = n + a
        BY <2>3, <2>4, <2>6, <2>9, <3>1
      <4> HIDE DEF a, n
      <4> QED
        BY <4>1, <4>2
    <3>2. CASE c # s
      BY <2>1, <2>3, <2>4, <2>7, <2>9, <3>2
    <3> QED
      BY <3>1, <3>2
  <2>10. ASSUME NEW s \in Slots, ReadAt(io[i]) = {s}, ReadAt(io'[i]) = {},
                counter' = [counter EXCEPT ![s] = @ - io[i].n]
         PROVE  counter'[c] = Load(io', S)
    <3>1. CASE c = s
      <4> DEFINE a == Load(io, R \ {i})
                 n == io[i].n
      <4>1. counter[c] = n + a /\ counter'[c] = counter[c] - n /\ Load(io', S) = a /\ a \in Int /\ n \in Int
        BY <1>2, <2>1, <2>3, <2>4, <2>5, <2>7, <2>10, <3>1
      <4> HIDE DEF a, n
      <4> QED
        BY <4>1
    <3>2. CASE c # s
      BY <2>1, <2>3, <2>4, <2>7, <2>10, <3>2
    <3> QED
      BY <3>1, <3>2
  <2>11. counter'[c] = Load(io', S)
    BY <2>8, <2>9, <2>10 DEF Counts
  <2> QED
    BY <2>11 DEF S
<1>6. Counted'
  BY <1>5 DEF Counted
<1> QED
  BY <1>1, <1>6

LEMMA InitCount == Init => CountInv
<1> SUFFICES ASSUME Init PROVE CountInv
  OBVIOUS
<1>1. \A i \in IOs : io[i].ph = "idle" /\ io[i].out = {}
  BY DEF Init
<1>2. Busy = {} /\ \A c \in Slots : Readers(c) = {}
  BY <1>1 DEF Busy, Readers, ReadAt
<1>3. IsFiniteSet({}) /\ Load(io, {}) = 0
  BY FS_EmptySet, LoadStep
<1> QED
  BY <1>2, <1>3, InitContents DEF Init, CountInv, Counted

LEMMA NextCount ==
  ASSUME "unexpected" \notin Faults
  PROVE  CountInv /\ [Next]_vars => CountInv'
<1> SUFFICES ASSUME CountInv, [Next]_vars PROVE CountInv'
  OBVIOUS
<1>1. Contents /\ Contents'
  BY NextContents DEF CountInv
<1>2. ASSUME NEW i \in IOs, Step(Submit(i)) \/ Step(IoStep(i)) PROVE CountInv'
  <2>1. Counts(i) /\ Moves(i)
    BY <1>1, <1>2, IoCounts, IoMoves
  <2> QED
    BY <1>1, <2>1, CountsCounted DEF Moves, CountInv
<1>3. ASSUME io' = io, counter' = counter, level' = level PROVE CountInv'
  BY <1>1, <1>3 DEF CountInv, Counted, Busy, Readers, ReadAt, Mirror
<1>4. ASSUME NEW c \in Removable, Step(RemoveBase(c)) PROVE CountInv'
  BY <1>3, <1>4 DEF Step, RemoveBase
<1> QED
  BY <1>2, <1>3, <1>4 DEF Next, vars

\* read_blocks_outstanding of each base bdev is what is being read from it,
\* also after reads that failed, had to wait or were refused.
THEOREM CountersAlwaysExact ==
  ASSUME "unexpected" \notin Faults
  PROVE  Spec => []CountersAreExact
<1>1. CountInv => CountersAreExact
  BY CountedIsExact DEF CountInv
<1> QED
  BY <1>1, InitCount, NextCount, PTL DEF Spec

=============================================================================
