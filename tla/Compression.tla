----------------------------- MODULE Compression -----------------------------
(***************************************************************************)
(* The two command line programs that compress a file and decompress it     *)
(* again: main of compression_local_main.c over compression_local_core.c    *)
(* (src/bdev-passthru-compress/compress), here "core", and main of          *)
(* src/doca-compression/compression_local.c, "sample".  Both do the same    *)
(* things in two parts, in different orders, and neither looks at the       *)
(* results of all of them.                                                  *)
(*                                                                          *)
(* A part of the program is one step.  Contents are told apart as far as    *)
(* their checksum does.  DOCA and zlib are external: a job may fail, or end *)
(* well with something else than what was asked for.                        *)
(***************************************************************************)
EXTENDS Integers, Sequences

CONSTANTS
  Programs,  \* the programs looked at
  Faults     \* what may go wrong

FaultKinds ==
  { "init",   \* file_compression_init fails
    "read",   \* a file cannot be read
    "job",    \* a job fails
    "wrong",  \* ... or makes something else
    "write" } \* a file cannot be written, or in part only

ASSUME ProgramAssumption == Programs \subseteq {"core", "sample"} /\ Faults \subseteq FaultKinds

VARIABLES
  p,       \* the program
  method,  \* of each part: hw or sw
  big,     \* whether what each part reads is longer than the buffer of
           \* read_local_file_naive, 1 MB
  at,      \* the next step
  ctx,     \* the doca_compress context
  buf,     \* the data handed from one step to the next
  sum,     \* original_checksum: the contents it is of
  file,    \* the compressed file and the decompressed file
  rc,      \* how the program ended
  ignored, \* history: the last init has failed and the program went on
  was      \* history: the files of an earlier run

vars == <<p, method, big, at, ctx, buf, sum, file, rc, ignored, was>>

\* A file: the contents it was made from, and whether it is whole, damaged, or
\* followed by the rest of a longer file that was there before.
Data     == {"input", "garbled", "wrong", "earlier"}
Forms    == {"whole", "torn", "tail"}
Contents == [of : Data, form : Forms]
Whole(d) == [of |-> d, form |-> "whole"]

\* No file, or no data; data that has been freed.
Nothing == [of |-> "none", form |-> "torn"]
Freed   == [of |-> "freed", form |-> "torn"]

\* What main does.
Steps ==
  IF p = "core"
  THEN <<"read", "init", "work", "cleanup", "write", "read", "init", "work", "check", "cleanup", "write">>
  ELSE <<"init", "read", "work", "write", "cleanup", "init", "read", "work", "check", "write", "cleanup">>

Part    == IF at <= 5 THEN 1 ELSE 2
Reach(s) == rc = "none" /\ at <= Len(Steps) /\ Steps[at] = s
GoOn    == at' = at + 1 /\ rc' = IF at = Len(Steps) THEN "ok" ELSE "none"
End(how) == rc' = how /\ UNCHANGED at

-----------------------------------------------------------------------------

\* doca_compress_destroy
Destroyed == IF ctx = "live" THEN "destroyed" ELSE "twice"

\* A failure of the work: the sample cleans up, core returns at once.
Fails == End("failed") /\ ctx' = IF p = "sample" THEN Destroyed ELSE ctx

\* file_compression_init destroys the context again when it fails; core goes on
\* without looking (doca_compress_init).
MutStopsAt(program) == FALSE
StopsAt(program)    == program = "sample"

Initialise ==
  /\ Reach("init")
  /\ \/ ctx' = "live" /\ GoOn /\ ignored' = FALSE
     \/ /\ "init" \in Faults
        /\ ctx' = "destroyed"
        /\ IF StopsAt(p) THEN End("failed") /\ UNCHANGED ignored ELSE GoOn /\ ignored' = TRUE
  /\ UNCHANGED <<buf, sum, file>>

\* file_compression_cleanup
Cleanup ==
  /\ Reach("cleanup")
  /\ ctx' = Destroyed
  /\ GoOn
  /\ UNCHANGED <<buf, sum, file, ignored>>

\* read_local_file, and read_local_file_naive, which copies each piece of the
\* file to the start of the buffer.  Nobody looks at the result: in the second
\* part core still has what it has compressed.
Pieced(c) ==
  IF p = "core" /\ big[Part] THEN IF Part = 1 THEN Whole("garbled") ELSE [c EXCEPT !.form = "torn"] ELSE c

Read ==
  /\ Reach("read")
  /\ GoOn
  /\ \/ Part = 1 /\ buf' = Pieced(Whole("input"))
     \/ Part = 2 /\ file[1] # Nothing /\ buf' = Pieced(file[1])
     \/ /\ "read" \in Faults \/ (Part = 2 /\ file[1] = Nothing)
        /\ buf' = IF p = "core" /\ Part = 2 THEN buf ELSE Nothing
  /\ UNCHANGED <<ctx, sum, file, ignored>>

\* What a decompression may make of contents c: inflateInit2 with MAX_WBITS
\* wants a zlib header, which neither deflateInit2 with -MAX_WBITS nor the
\* device writes.
Inflated(c) ==
  IF method[2] = "sw" THEN {}
  ELSE {"wrong" : w \in IF c.form = "torn" THEN {1} ELSE Faults \cap {"wrong"}}
         \cup (IF c.form = "torn" THEN {} ELSE {c.of})

\* compress_file.  Without data, or with a context that is destroyed, it fails or
\* the process dies; so it may when zlib leaves decompressed_file_len undefined, or
\* when the statistics of compress_file_hw cannot be written from their buffer on
\* the stack.
Ready == buf \notin {Nothing, Freed} /\ (method[Part] = "hw" => ctx = "live")

Work ==
  /\ Reach("work")
  /\ UNCHANGED <<file, ignored>>
  /\ \/ /\ Ready /\ Part = 1
        /\ \E d \in {buf.of} \cup (IF method[1] = "hw" THEN Faults \cap {"wrong"} ELSE {}) : buf' = Whole(d)
        /\ sum' = buf.of
        /\ GoOn /\ UNCHANGED ctx
     \/ /\ Ready /\ Part = 2
        /\ \E d \in Inflated(buf) : buf' = Whole(d)
        /\ GoOn /\ UNCHANGED <<ctx, sum>>
     \/ /\ ~Ready \/ "job" \in Faults \/ (Part = 2 /\ (method[2] = "sw" \/ buf.form # "whole"))
        /\ Fails /\ UNCHANGED <<buf, sum>>
     \/ /\ ~Ready \/ (Part = 2 /\ method[2] = "sw") \/ (p = "core" /\ method[Part] = "hw" /\ "write" \in Faults)
        /\ End("died") /\ UNCHANGED <<buf, sum, ctx>>

MutMatches == TRUE
Matches    == buf.of = sum

Check ==
  /\ Reach("check")
  /\ IF Matches THEN GoOn /\ UNCHANGED ctx ELSE Fails
  /\ UNCHANGED <<buf, sum, file, ignored>>

\* write_local_file, which frees the data when it fails, and file_decompressor,
\* which frees it again.  Core does not truncate the file.
Written(c) ==
  {c} \cup (IF p = "core" /\ file[Part] # Nothing THEN {[c EXCEPT !.form = "tail"]} ELSE {})

Write ==
  /\ Reach("write")
  /\ \/ /\ \E c \in Written(buf) : file' = [file EXCEPT ![Part] = c]
        /\ GoOn /\ UNCHANGED buf
     \/ /\ "write" \in Faults
        /\ buf' = Freed
        /\ \/ UNCHANGED file
           \/ file' = [file EXCEPT ![Part] = [of |-> "wrong", form |-> "torn"]]
        /\ GoOn \/ (p = "sample" /\ Part = 2 /\ End("died"))
  /\ UNCHANGED <<ctx, sum, ignored>>

\* Files of an earlier run may be there.
Init ==
  /\ p \in Programs
  /\ method \in IF p = "core" THEN [1 .. 2 -> {"hw", "sw"}] ELSE {<<"hw", "hw">>}
  /\ big \in [1 .. 2 -> BOOLEAN]
  /\ at = 1 /\ ctx = "none" /\ buf = Nothing /\ sum = "undefined"
  /\ was \in [1 .. 2 -> {Nothing, Whole("earlier")}] /\ file = was
  /\ rc = "none" /\ ignored = FALSE

Next ==
  /\ Initialise \/ Read \/ Work \/ Cleanup \/ Write \/ Check
  /\ UNCHANGED <<p, method, big, was>>

Spec == Init /\ [][Next]_vars

-----------------------------------------------------------------------------
(* Properties.                                                              *)

TypeOK ==
  /\ p \in Programs /\ at \in 1 .. Len(Steps) + 1
  /\ ctx \in {"none", "live", "destroyed", "twice"}
  /\ buf \in Contents \cup {Nothing, Freed}
  /\ sum \in Data \cup {"undefined"}
  /\ file \in [1 .. 2 -> Contents \cup {Nothing}] /\ was \in [1 .. 2 -> Contents \cup {Nothing}]
  /\ rc \in {"none", "ok", "failed", "died"} /\ ignored \in BOOLEAN

\* What a program has done that ends well.  The checksum "is different"
\* (compression_local_main.c:100) unless the last file it writes is the one it has
\* read, whatever became of the compressed file on the way: one of an earlier run
\* that was left, or is longer, a write in part, a job that went wrong.  Three
\* things nobody looks at, and the statement has them: core's first read garbles
\* a file of more than 1 MB (compression_local_core.c:475); core does not cut off
\* the rest of a longer output file of an earlier run (:535); and when the last
\* write fails (compression_local_main.c:107, compression_local.c:506), the output
\* is the file of an earlier run, or a part.
OutputIsInput ==
  rc = "ok" =>
    /\ sum = IF p = "core" /\ big[1] THEN "garbled" ELSE "input"
    /\ \/ file[2] = Whole(sum)
       \/ p = "core" /\ was[2] # Nothing /\ file[2] = [of |-> sum, form |-> "tail"]
       \/ buf = Freed /\ (file[2] = was[2] \/ file[2].form = "torn")

\* The DOCA context is destroyed once for each time it was created - by the sample
\* always, on each of its error paths - but for two ways of core.  After an init
\* that failed, and has destroyed the context, core goes on and destroys it again
\* (compression_local_main.c:70, :78).  And its error returns (:74-77, :94-97,
\* :99-102) leave the context live.  No init overwrites a live context, and a
\* program that ends well leaves none.
ContextReleasedOnce ==
  /\ ctx = "twice" => p = "core" /\ ignored
  /\ rc = "failed" => (ctx = "live" <=> p = "core" /\ ~ignored)
  /\ Reach("init") \/ rc = "ok" => ctx # "live"

=============================================================================
