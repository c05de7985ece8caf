------------------------------- MODULE Layout -------------------------------
(***************************************************************************)
(* Where the blocks of a raid bdev are on its base bdevs: the sizes the     *)
(* start functions of raid0.c, raid1.c, concat.c and raid5f.c give a raid   *)
(* bdev, the base bdev and address each request is mapped to, the split of  *)
(* a flush or an unmap over the base bdevs, and the resize of a raid0.      *)
(*                                                                          *)
(* All numbers count blocks, as in the code; none comes near 2^64.          *)
(***************************************************************************)
EXTENDS Integers, Sequences, FiniteSets, SequencesExt

CONSTANTS
  Levels,        \* the values raid_bdev->level may have
  NumBaseBdevs,  \* raid_bdev->num_base_bdevs
  StripSize,     \* raid_bdev->strip_size
  DataOffset,    \* base_info->data_offset: 0 without a superblock
  Sizes          \* the sizes a base bdev may have

ASSUME LevelAssumption == Levels \subseteq {"raid0", "raid1", "concat", "raid5f"}
ASSUME NumAssumption   == /\ NumBaseBdevs \in Nat \ {0} /\ StripSize \in Nat \ {0}
                          /\ "raid1" \in Levels => NumBaseBdevs >= 2
                          /\ "raid5f" \in Levels => NumBaseBdevs >= 3
ASSUME SizeAssumption  == DataOffset \in Nat /\ \A n \in Sizes : n \in Nat /\ n > DataOffset

VARIABLES
  level,     \* raid_bdev->level, given when the raid bdev is created
  size,      \* bdev->blockcnt of each base bdev
  open,      \* the slots whose base bdev is open
  dataSize,  \* base_info->data_size of each slot
  blockcnt,  \* the size of the raid bdev; 0 until it is online
  crashed    \* a base bdev that is not open was used

vars == <<level, size, open, dataSize, blockcnt, crashed>>

Slots == 0 .. NumBaseBdevs - 1

DataChunksNum == NumBaseBdevs - 1
ParityIndex(stripe) == DataChunksNum - (stripe % NumBaseBdevs)
StripeBlocks == StripSize * DataChunksNum

-----------------------------------------------------------------------------
(* raid0_start, raid1_start, concat_start, raid5f_start.                    *)

Strips(n) == n \div StripSize
Floor(n)  == Strips(n) * StripSize
Smallest(f)         == Min({f[i] : i \in Slots})

\* The data sizes of the base bdevs after the start, from those before, and
\* the size of the raid bdev.

Started(f) ==
  CASE level = "raid1"               -> [i \in Slots |-> Smallest(f)]
    [] level \in {"raid0", "raid5f"} -> [i \in Slots |-> Floor(Smallest(f))]
    [] level = "concat"              -> [i \in Slots |-> Floor(f[i])]

ConcatBlockcnt(f) == FoldLeft(+, 0, [j \in 1 .. NumBaseBdevs |-> Floor(f[j - 1])])

Blockcnt(f) ==
  CASE level = "raid1"  -> Smallest(f)
    [] level = "raid0"  -> Floor(Smallest(f)) * NumBaseBdevs
    [] level = "raid5f" -> StripeBlocks * Strips(Smallest(f))
    [] level = "concat" -> ConcatBlockcnt(f)

\* block_range of a concat.
RangeStart(i) == FoldLeft(+, 0, [j \in 1 .. i |-> dataSize[j - 1]])
RangeEnd(i)   == RangeStart(i) + dataSize[i]

-----------------------------------------------------------------------------
(* Reads and writes: the base bdevs and the address in its data region that *)
(* block b of the raid bdev is read from and written to.                    *)

\* raid0_submit_rw_request
Raid0Home(b) ==
  LET strip == b \div StripSize
  IN  <<strip % NumBaseBdevs, (strip \div NumBaseBdevs) * StripSize + (b % StripSize)>>

\* concat_submit_rw_request
ConcatHome(b) ==
  LET i == Max({j \in Slots : \A k \in 0 .. j : RangeStart(k) <= b})
  IN  <<i, b - RangeStart(i)>>

MutRaid5fHome(b) ==
  LET stripe == b \div StripeBlocks
      chunk  == (b % StripeBlocks) \div StripSize
      offset == (b % StripeBlocks) - chunk * StripSize
  IN  <<IF chunk <= ParityIndex(stripe) THEN chunk ELSE chunk + 1, stripe * StripSize + offset>>

\* raid5f_submit_read_request; a write puts the same chunks there.
Raid5fHome(b) ==
  LET stripe == b \div StripeBlocks
      chunk  == (b % StripeBlocks) \div StripSize
      offset == (b % StripeBlocks) - chunk * StripSize
  IN  <<IF chunk < ParityIndex(stripe) THEN chunk ELSE chunk + 1, stripe * StripSize + offset>>

Homes(b) ==
  CASE level = "raid0"  -> {Raid0Home(b)}
    [] level = "raid1"  -> {<<i, b>> : i \in Slots}
    [] level = "concat" -> {ConcatHome(b)}
    [] level = "raid5f" -> {Raid5fHome(b)}

MutMaxRequest(b) == blockcnt - b

\* The longest request that starts at b, given how the bdev layer splits I/O:
\* raid1 does not ask for it, nor does a raid0 of one base bdev.
MaxRequest(b) ==
  IF level = "raid1" \/ (level = "raid0" /\ NumBaseBdevs = 1) THEN blockcnt - b
  ELSE Min({StripSize - (b % StripSize), blockcnt - b})

-----------------------------------------------------------------------------
(* Flush and unmap: the base bdev I/Os for num blocks from offset.          *)

Extent(i, lba, n) == [disk |-> i, lba |-> lba, n |-> n]

\* _raid0_get_io_range
MutIoRange(offset, num) ==
  LET last  == offset + num
      first == offset \div StripSize
      end   == last \div StripSize
  IN  [startDisk   |-> first % NumBaseBdevs,     endDisk   |-> end % NumBaseBdevs,
       startStrip  |-> first \div NumBaseBdevs,  endStrip  |-> end \div NumBaseBdevs,
       startOffset |-> offset % StripSize,       endOffset |-> last % StripSize,
       disks       |-> Min({end - first + 1, NumBaseBdevs})]

IoRange(offset, num) ==
  LET last  == offset + num - 1
      first == offset \div StripSize
      end   == last \div StripSize
  IN  [startDisk   |-> first % NumBaseBdevs,     endDisk   |-> end % NumBaseBdevs,
       startStrip  |-> first \div NumBaseBdevs,  endStrip  |-> end \div NumBaseBdevs,
       startOffset |-> offset % StripSize,       endOffset |-> last % StripSize,
       disks       |-> Min({end - first + 1, NumBaseBdevs})]

\* _raid0_split_io_range
SplitIoRange(r, i) ==
  LET startStrip  == r.startStrip + IF i < r.startDisk THEN 1 ELSE 0
      endStrip    == r.endStrip - IF i > r.endDisk THEN 1 ELSE 0
      startOffset == IF i = r.startDisk THEN r.startOffset ELSE 0
      endOffset   == IF i = r.endDisk THEN r.endOffset ELSE StripSize - 1
  IN  Extent(i, startOffset + startStrip * StripSize,
             (endStrip - startStrip) * StripSize + endOffset - startOffset + 1)

\* raid0_submit_null_payload_request
Raid0Extents(offset, num) ==
  LET r == IoRange(offset, num)
  IN  {SplitIoRange(r, (r.startDisk + j) % NumBaseBdevs) : j \in 0 .. r.disks - 1}

\* concat_submit_null_payload_request finds the first and the last base bdev ...
ConcatScan(a, i) ==
  IF a.last # -1 \/ a.offset >= RangeEnd(i) THEN a
  ELSE LET n == Min({a.num, RangeEnd(i) - a.offset})
       IN  [offset |-> a.offset + n, num |-> a.num - n,
            first  |-> IF a.first = -1 THEN i ELSE a.first,
            last   |-> IF a.num = n THEN i ELSE -1]

ConcatEnds(offset, num) ==
  FoldLeft(ConcatScan, [offset |-> offset, num |-> num, first |-> -1, last |-> -1],
           [j \in 1 .. NumBaseBdevs |-> j - 1])

\* ... and then goes from one to the other.

ConcatExtents(offset, num) ==
  LET ends   == ConcatEnds(offset, num)
      from(i) == Max({offset, RangeStart(i)})
  IN  {Extent(i, from(i) - RangeStart(i), Min({offset + num, RangeEnd(i)}) - from(i))
         : i \in ends.first .. ends.last}

Extents(offset, num) ==
  IF level = "raid0" THEN Raid0Extents(offset, num) ELSE ConcatExtents(offset, num)

-----------------------------------------------------------------------------
(* The actions.                                                             *)

\* raid_bdev_configure_base_bdev for slot i; with the last one the raid module
\* starts, and the raid bdev is online.
Open(i) ==
  /\ i \notin open
  /\ open' = open \cup {i}
  /\ LET f == [dataSize EXCEPT ![i] = size[i] - DataOffset]
     IN  IF open' = Slots THEN dataSize' = Started(f) /\ blockcnt' = Blockcnt(f)
         ELSE dataSize' = f /\ UNCHANGED blockcnt
  /\ UNCHANGED <<level, size, crashed>>

\* raid0_resize: the sizes of all base bdevs are looked up through their
\* descriptors.

MutResizeTwice(sizes) ==
  LET f == [i \in Slots |-> sizes[i] - 2 * DataOffset]
  IN  dataSize' = Started(f) /\ blockcnt' = Blockcnt(f) /\ UNCHANGED crashed

Raid0Resize(sizes) ==
  LET f == [i \in Slots |-> sizes[i] - DataOffset]
  IN  IF open # Slots THEN crashed' = TRUE /\ UNCHANGED <<dataSize, blockcnt>>
      ELSE /\ UNCHANGED crashed
           /\ IF Blockcnt(f) = blockcnt THEN UNCHANGED <<dataSize, blockcnt>>
              ELSE dataSize' = Started(f) /\ blockcnt' = Blockcnt(f)

\* A base bdev grows; one that somebody has open does not shrink.  The raid bdev
\* is told if it has it open: raid_bdev_resize_base_bdev.
Grow(i, n) ==
  /\ i \in open /\ n > size[i]
  /\ size' = [size EXCEPT ![i] = n]
  /\ IF level = "raid0" THEN Raid0Resize(size') ELSE UNCHANGED <<dataSize, blockcnt, crashed>>
  /\ UNCHANGED <<level, open>>

Init ==
  /\ level \in Levels
  /\ size \in [Slots -> Sizes]
  /\ open = {} /\ dataSize = [i \in Slots |-> 0] /\ blockcnt = 0 /\ crashed = FALSE

Next ==
  /\ ~crashed
  /\ \E i \in Slots : Open(i) \/ \E n \in Sizes : Grow(i, n)

Spec == Init /\ [][Next]_vars

-----------------------------------------------------------------------------
(* Properties.                                                              *)

TypeOK ==
  /\ level \in Levels
  /\ size \in [Slots -> Sizes] /\ open \subseteq Slots
  /\ dataSize \in [Slots -> Nat] /\ blockcnt \in Nat /\ crashed \in BOOLEAN

Online == open = Slots
Ranges == {r \in (0 .. blockcnt - 1) \X (1 .. blockcnt) : r[1] + r[2] <= blockcnt}

\* Every block of an online raid bdev has a place of its own inside the data
\* regions of the base bdevs, which end where the base bdevs end - also after
\* base bdevs of different sizes were started, and after they have grown.
BlocksHaveHomes ==
  Online =>
    /\ \A b \in 0 .. blockcnt - 1 : \A h \in Homes(b) :
         /\ h[2] < dataSize[h[1]] /\ dataSize[h[1]] + DataOffset <= size[h[1]]
         /\ \A c \in 0 .. b - 1 : h \notin Homes(c)
    /\ level = "raid5f" =>
         \A b \in 0 .. blockcnt - 1 : \A h \in Homes(b) : h[1] # ParityIndex(h[2] \div StripSize)

\* A read or a write as the bdev layer hands it to the module is mapped by its
\* first block alone: the rest of it follows on the same base bdev.
RequestsAreContiguous ==
  Online =>
    \A b \in 0 .. blockcnt - 1 : \A k \in 1 .. MaxRequest(b) - 1 :
      Homes(b + k) = {<<h[1], h[2] + k>> : h \in Homes(b)}

\* A flush or an unmap goes to exactly the places that its blocks are read from
\* and written to, with one I/O for each base bdev, whichever base bdev it
\* starts and ends on, and however its ends lie in their strips.
SplitIsExact ==
  Online /\ level \in {"raid0", "concat"} =>
    \A r \in Ranges :
      LET es == Extents(r[1], r[2])
      IN  /\ \A e \in es : e.n > 0
          /\ \A e, f \in es : e.disk = f.disk => e = f
          /\ UNION {{<<e.disk, a>> : a \in e.lba .. e.lba + e.n - 1} : e \in es} =
               UNION {Homes(b) : b \in r[1] .. r[1] + r[2] - 1}

\* A raid bdev that is online keeps its blocks where they are when it is
\* resized, and has no fewer of them.
ResizeKeepsBlocks ==
  [][Online => /\ blockcnt' >= blockcnt
               /\ \A b \in 0 .. blockcnt - 1 : Homes(b)' = Homes(b)]_vars

=============================================================================
