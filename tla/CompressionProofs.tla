-------------------------- MODULE CompressionProofs --------------------------
(***************************************************************************)
(* ContextReleasedOnce and OutputIsInput of Compression, for every set of   *)
(* programs and faults.  Both follow from how far a program has come: Ctx    *)
(* says what has become of the context by each step, Output what is known   *)
(* of the data.                                                             *)
(***************************************************************************)
EXTENDS Compression, TLAPS

\* Where a program is.
Place ==
  /\ p \in {"core", "sample"}
  /\ at \in 1 .. 12
  /\ rc \in {"none", "ok", "failed", "died"}
  /\ rc = "none" => at <= 11
  /\ rc = "ok" => at = 12
  /\ DOMAIN file = 1 .. 2

\* The steps before which the context is not there yet, or is in use.
Unmade == IF p = "core" THEN {1, 2} ELSE {1}
InUse  == IF p = "core" THEN {3, 4, 8, 9, 10} ELSE {2, 3, 4, 5, 7, 8, 9, 10, 11}

Ctx ==
  /\ ignored => p = "core"
  /\ ctx = "twice" => ignored
  /\ rc = "none" /\ ~ignored =>
       ctx = IF at \in Unmade THEN "none" ELSE IF at \in InUse THEN "live" ELSE "destroyed"
  /\ rc = "none" /\ ignored => ctx # "live"
  /\ p = "core" /\ at >= 11 => ctx # "live"
  /\ rc = "ok" => ctx # "live"
  /\ rc = "failed" => (ctx = "live" <=> p = "core" /\ ~ignored)

\* The contents the checksum is of.
FromInput(d) == d = IF p = "core" /\ big[1] THEN "garbled" ELSE "input"

\* The steps between the comparison of the checksums and the last write.
Compared == IF p = "core" THEN {10, 11} ELSE {10}

LastWrite == IF p = "core" THEN 11 ELSE 10

\* What it leaves.
Result ==
  \/ file[2] = Whole(sum)
  \/ p = "core" /\ was[2] # Nothing /\ file[2] = [of |-> sum, form |-> "tail"]
  \/ buf = Freed /\ (file[2] = was[2] \/ file[2].form = "torn")

Output ==
  /\ rc = "none" /\ at = 1 => buf = Nothing
  /\ rc = "none" /\ at \in 2 .. 3 => buf = Nothing \/ FromInput(buf.of)
  /\ at >= 4 => FromInput(sum)
  /\ rc = "none" /\ at = 9 => buf = Whole(buf.of)
  /\ rc = "none" /\ at \in Compared => buf = Whole(sum)
  /\ rc = "none" /\ at <= LastWrite => file[2] = was[2]
  /\ (rc = "none" /\ p = "sample" /\ at = 11) \/ rc = "ok" => Result

IInv == Place /\ Ctx /\ Output

-----------------------------------------------------------------------------

\* The step a program has reached, by its name.
LEMMA Steps11 ==
  /\ p = "core" =>
       /\ Len(Steps) = 11
       /\ Steps[1] = "read" /\ Steps[2] = "init" /\ Steps[3] = "work" /\ Steps[4] = "cleanup"
       /\ Steps[5] = "write" /\ Steps[6] = "read" /\ Steps[7] = "init" /\ Steps[8] = "work"
       /\ Steps[9] = "check" /\ Steps[10] = "cleanup" /\ Steps[11] = "write"
  /\ p = "sample" =>
       /\ Len(Steps) = 11
       /\ Steps[1] = "init" /\ Steps[2] = "read" /\ Steps[3] = "work" /\ Steps[4] = "write"
       /\ Steps[5] = "cleanup" /\ Steps[6] = "init" /\ Steps[7] = "read" /\ Steps[8] = "work"
       /\ Steps[9] = "check" /\ Steps[10] = "write" /\ Steps[11] = "cleanup"
BY DEF Steps

LEMMA Whereabouts ==
  ASSUME Place, NEW s, Reach(s)
  PROVE  /\ rc = "none" /\ at \in 1 .. 11 /\ Len(Steps) = 11
         /\ s = "read" => at \in IF p = "core" THEN {1, 6} ELSE {2, 7}
         /\ s = "init" => at \in IF p = "core" THEN {2, 7} ELSE {1, 6}
         /\ s = "work" => at \in {3, 8}
         /\ s = "check" => at = 9
         /\ s = "write" => at \in IF p = "core" THEN {5, 11} ELSE {4, 10}
         /\ s = "cleanup" => at \in IF p = "core" THEN {4, 10} ELSE {5, 11}
<1>1. at \in {1, 2, 3, 4, 5, 6, 7, 8, 9, 10, 11} /\ rc = "none"
  BY DEF Place, Reach
<1>2. s = Steps[at]
  BY DEF Reach
<1>3. CASE p = "core"
  BY <1>1, <1>2, <1>3, Steps11
<1>4. CASE p = "sample"
  BY <1>1, <1>2, <1>4, Steps11
<1> QED
  BY <1>3, <1>4 DEF Place

LEMMA InitIInv == Init => IInv
BY ProgramAssumption DEF Init, IInv, Place, Ctx, Output, Unmade, InUse, Compared, Nothing, Whole

LEMMA InitialiseStep ==
  ASSUME IInv, Initialise, UNCHANGED <<p, method, big, was>>
  PROVE  IInv'
<1>1. /\ rc = "none" /\ Len(Steps) = 11
      /\ at \in IF p = "core" THEN {2, 7} ELSE {1, 6}
  BY Whereabouts DEF Initialise, IInv
<1>2. Place'
  BY <1>1 DEF IInv, Place, Initialise, StopsAt, GoOn, End
<1>3. Ctx'
  BY <1>1 DEF IInv, Place, Ctx, Initialise, StopsAt, GoOn, End, Unmade, InUse
<1>4. Output'
  BY <1>1 DEF IInv, Place, Output, Initialise, StopsAt, GoOn, End, Compared, FromInput, LastWrite, Result
<1> QED
  BY <1>2, <1>3, <1>4 DEF IInv

LEMMA CleanupStep ==
  ASSUME IInv, Cleanup, UNCHANGED <<p, method, big, was>>
  PROVE  IInv'
<1>1. /\ rc = "none" /\ Len(Steps) = 11
      /\ at \in IF p = "core" THEN {4, 10} ELSE {5, 11}
  BY Whereabouts DEF Cleanup, IInv
<1>2. Place'
  BY <1>1 DEF IInv, Place, Cleanup, GoOn
<1>3. Ctx'
  BY <1>1 DEF IInv, Place, Ctx, Cleanup, Destroyed, GoOn, Unmade, InUse
<1>4. Output'
  BY <1>1 DEF IInv, Place, Output, Cleanup, GoOn, Compared, FromInput, LastWrite, Result
<1> QED
  BY <1>2, <1>3, <1>4 DEF IInv

LEMMA ReadStep ==
  ASSUME IInv, Read, UNCHANGED <<p, method, big, was>>
  PROVE  IInv'
<1>1. /\ rc = "none" /\ Len(Steps) = 11
      /\ at \in IF p = "core" THEN {1, 6} ELSE {2, 7}
  BY Whereabouts DEF Read, IInv
<1>2. at \in 1 .. 2 \/ at \in 6 .. 7
  BY <1>1
<1>3. Place'
  BY <1>1 DEF IInv, Place, Read, GoOn
<1>4. Ctx'
  BY <1>1 DEF IInv, Place, Ctx, Read, GoOn, Unmade, InUse
<1>5. at \in 1 .. 2 => buf' = Nothing \/ FromInput(buf'.of)
  <2> SUFFICES ASSUME at \in 1 .. 2 PROVE buf' = Nothing \/ FromInput(buf'.of)
    OBVIOUS
  <2>1. Part = 1
    BY DEF Part
  <2>2. buf' \in {Pieced(Whole("input")), Nothing}
    BY <2>1 DEF Read
  <2> QED
    BY <2>1, <2>2 DEF Pieced, Whole, FromInput
<1>6. Output'
  BY <1>1, <1>2, <1>5 DEF IInv, Place, Output, Read, GoOn, Compared, FromInput, LastWrite, Result
<1> QED
  BY <1>3, <1>4, <1>6 DEF IInv

LEMMA WorkStep ==
  ASSUME IInv, Work, UNCHANGED <<p, method, big, was>>
  PROVE  IInv'
<1>1. rc = "none" /\ Len(Steps) = 11 /\ at \in {3, 8}
  BY Whereabouts DEF Work, IInv
<1>2. /\ at = 3 <=> Part = 1
      /\ at = 8 <=> Part = 2
  BY <1>1 DEF Part
<1>3. Place'
  BY <1>1 DEF IInv, Place, Work, GoOn, End, Fails
<1>4. Ctx'
  BY <1>1 DEF IInv, Place, Ctx, Work, GoOn, End, Fails, Destroyed, Unmade, InUse
<1>a. file' = file /\ file[2] = was[2]
  BY <1>1 DEF Work, IInv, Output, LastWrite
<1>5. Output'
  <2>1. CASE GoOn /\ at = 3
    <3>1. sum' = buf.of /\ buf # Nothing
      BY <1>1, <1>2, <2>1 DEF Work, Fails, End, GoOn, Ready
    <3>2. FromInput(buf.of)
      BY <1>1, <2>1, <3>1 DEF IInv, Output
    <3> QED
      BY <1>1, <1>a, <2>1, <3>1, <3>2 DEF Output, GoOn, FromInput, LastWrite, Compared
  <2>2. CASE GoOn /\ at = 8
    <3>1. sum' = sum /\ buf' = Whole(buf'.of) /\ FromInput(sum)
      BY <1>1, <1>2, <2>2 DEF Work, Fails, End, GoOn, Whole, IInv, Output
    <3> QED
      BY <1>1, <1>a, <2>2, <3>1 DEF Output, GoOn, FromInput, LastWrite, Compared
  <2>3. CASE rc' \in {"failed", "died"} /\ at' = at /\ sum' = sum
    BY <1>1, <1>a, <2>3 DEF IInv, Output, FromInput, Compared, LastWrite
  <2> QED
    BY <1>1, <2>1, <2>2, <2>3 DEF Work, Fails, End
<1> QED
  BY <1>3, <1>4, <1>5 DEF IInv

LEMMA CheckStep ==
  ASSUME IInv, Check, UNCHANGED <<p, method, big, was>>
  PROVE  IInv'
<1>1. rc = "none" /\ Len(Steps) = 11 /\ at = 9
  BY Whereabouts DEF Check, IInv
<1>2. Place'
  BY <1>1 DEF IInv, Place, Check, Matches, GoOn, End, Fails
<1>3. Ctx'
  BY <1>1 DEF IInv, Place, Ctx, Check, Matches, GoOn, End, Fails, Destroyed, Unmade, InUse
<1>4. Output'
  BY <1>1 DEF IInv, Place, Output, Check, Matches, GoOn, End, Fails, Compared, FromInput, LastWrite, Result
<1> QED
  BY <1>2, <1>3, <1>4 DEF IInv

LEMMA WriteStep ==
  ASSUME IInv, Write, UNCHANGED <<p, method, big, was>>
  PROVE  IInv'
<1>1. /\ rc = "none" /\ Len(Steps) = 11
      /\ at \in IF p = "core" THEN {5, 11} ELSE {4, 10}
  BY Whereabouts DEF Write, IInv
<1>2. Place'
  BY <1>1 DEF IInv, Place, Write, GoOn, End
<1>3. Ctx'
  BY <1>1 DEF IInv, Place, Ctx, Write, GoOn, End, Unmade, InUse
<1>4. at \in {10, 11} => Result'
  <2> SUFFICES ASSUME at \in {10, 11} PROVE Result'
    OBVIOUS
  <2>1. Part = 2 /\ buf = Whole(sum) /\ file[2] = was[2] /\ 2 \in DOMAIN file
    BY <1>1 DEF Part, IInv, Place, Output, Compared, LastWrite
  <2>2. sum' = sum /\ was' = was /\ p' = p
    BY DEF Write
  <2>3. CASE \E c \in Written(buf) : file' = [file EXCEPT ![2] = c]
    <3>1. PICK c \in Written(buf) : file' = [file EXCEPT ![2] = c]
      BY <2>3
    <3>2. file'[2] = c
      BY <2>1, <3>1
    <3>3. c = Whole(sum) \/ (p = "core" /\ was[2] # Nothing /\ c = [of |-> sum, form |-> "tail"])
      BY <2>1 DEF Written, Whole
    <3> QED
      BY <2>2, <3>2, <3>3 DEF Result, Whole
  <2>4. CASE /\ buf' = Freed
             /\ file' = file \/ file' = [file EXCEPT ![2] = [of |-> "wrong", form |-> "torn"]]
    BY <2>1, <2>2, <2>4 DEF Result
  <2> QED
    BY <2>1, <2>3, <2>4 DEF Write
<1>a. at \in {4, 5} => file'[2] = was[2]
  <2>1. at \in {4, 5} => Part = 1 /\ file[2] = was[2]
    BY <1>1 DEF Part, IInv, Output, LastWrite
  <2> QED
    BY <2>1 DEF Write, IInv, Place
<1>5. Output'
  BY <1>1, <1>4, <1>a DEF IInv, Place, Output, Write, GoOn, End, Compared, FromInput, LastWrite
<1> QED
  BY <1>2, <1>3, <1>5 DEF IInv

LEMMA NextIInv == IInv /\ [Next]_vars => IInv'
<1> SUFFICES ASSUME IInv, [Next]_vars PROVE IInv'
  OBVIOUS
<1>1. CASE Next
  BY <1>1, InitialiseStep, CleanupStep, ReadStep, WorkStep, CheckStep, WriteStep DEF Next
<1>2. CASE UNCHANGED vars
  BY <1>2 DEF vars, IInv, Place, Ctx, Output, Unmade, InUse, Compared, FromInput, LastWrite, Result
<1> QED
  BY <1>1, <1>2

LEMMA Inductive == Spec => []IInv
<1> QED
  BY InitIInv, NextIInv, PTL DEF Spec

-----------------------------------------------------------------------------

\* On every path through either program the DOCA context is destroyed once for each
\* time it was created, but by core: it destroys it a second time after an init that
\* failed, and its error returns (compression_local_main.c:74-77, :94-97, :99-102)
\* leave it live.
THEOREM ContextOnce == Spec => []ContextReleasedOnce
<1>1. ASSUME IInv PROVE ContextReleasedOnce
  <2>1. Reach("init") => rc = "none" /\ at \in IF p = "core" THEN {2, 7} ELSE {1, 6}
    BY <1>1, Whereabouts DEF IInv
  <2>2. Reach("init") => ctx # "live"
    BY <1>1, <2>1 DEF IInv, Place, Ctx, Unmade, InUse
  <2> QED
    BY <1>1, <2>2 DEF IInv, Ctx, ContextReleasedOnce
<1> QED
  BY <1>1, Inductive, PTL

\* A program that ends well has decompressed to the contents its first read gave it:
\* the input, or what core makes of one longer than 1 MB.  They are all of the output
\* file, unless core overwrote a longer one of an earlier run, whose rest follows, or
\* the last write failed, which leaves the earlier file or a part of something.
THEOREM SameFileAgain == Spec => []OutputIsInput
<1>1. IInv => OutputIsInput
  BY DEF IInv, Place, Output, Result, FromInput, OutputIsInput
<1> QED
  BY <1>1, Inductive, PTL

=============================================================================
