------------------------------- MODULE BdevIo -------------------------------
(***************************************************************************)
(* What a bdev promises the users of one of its I/O channels, whatever      *)
(* becomes of an I/O inside: it ends once, as a success or as a failure; a  *)
(* write that succeeds is what the reads after it return; and it does end.  *)
(* Raid5f and RaidIo implement this.                                        *)
(*                                                                          *)
(* Nothing is promised to a read that a write overlaps, of what a write has *)
(* left that failed or ran into another one, nor when the process dies.     *)
(***************************************************************************)
EXTENDS FiniteSets

CONSTANTS
  IOs,      \* the I/Os of the users, each submitted once
  Units,    \* the pieces of the bdev that are read,
  Unknown   \* and what stands for contents nobody is promised

VARIABLES
  phase,  \* of each I/O: new, running, ok or failed
  what,   \* its kind, its units, and the data of a write
  got,    \* what a read has found
  want,   \* what a read of each unit must find
  clean,  \* the I/Os that no conflicting one has overlapped
  alive   \* the process has not died

vars == <<phase, what, got, want, clean, alive>>

Kinds == {"read", "write", "other"}

\* An I/O may be refused when it is submitted.
Moves ==
  {<<"new", "running">>, <<"new", "failed">>, <<"running", "ok">>, <<"running", "failed">>}

Ends(i) == phase'[i] # phase[i] /\ phase'[i] \in {"ok", "failed"}

Overlap(x, y) == x.units \cap y.units # {} /\ "write" \in {x.kind, y.kind}

Advance ==
  \A i \in IOs :
    /\ phase'[i] = phase[i] \/ <<phase[i], phase'[i]>> \in Moves
    /\ phase[i] # "new" => what'[i] = what[i]
    /\ phase[i] \in {"ok", "failed"} => got'[i] = got[i]

\* Two I/Os in the bdev at a time.
Meet ==
  LET running == {i \in IOs : phase'[i] = "running"}
  IN  clean' = clean \ {i \in running : \E j \in running \ {i} : Overlap(what'[i], what'[j])}

Store ==
  want' = [u \in Units |->
    LET writes == {i \in IOs : what'[i].kind = "write" /\ u \in what'[i].units}
        ended  == {i \in writes : Ends(i)}
    IN  IF \E i \in writes : phase'[i] = "running" THEN Unknown
        ELSE IF ended = {} THEN want[u]
        ELSE IF \E i \in ended : ended = {i} /\ phase'[i] = "ok" /\ i \in clean
        THEN what'[CHOOSE i \in ended : TRUE].data[u]
        ELSE Unknown]

Fetch ==
  \A i \in clean : Ends(i) /\ phase'[i] = "ok" /\ what[i].kind = "read" =>
    \A u \in what[i].units : want[u] # Unknown => got'[i] = want[u]

Init ==
  /\ phase = [i \in IOs |-> "new"]
  /\ \A i \in IOs : what[i].kind \in Kinds /\ what[i].units \subseteq Units
  /\ Unknown \notin {want[u] : u \in Units}
  /\ clean = IOs
  /\ alive = TRUE

Next == alive /\ (alive' => Advance /\ Meet /\ Store /\ Fetch)

Spec == Init /\ [][Next]_vars

\* What is submitted ends.
Completes == \A i \in IOs : phase[i] = "running" ~> (phase[i] \in {"ok", "failed"} \/ ~alive)

LiveSpec == Spec /\ Completes

=============================================================================
