---------------------------- MODULE LayoutProofs ----------------------------
(***************************************************************************)
(* BlocksHaveHomes, RequestsAreContiguous, SplitIsExact and                 *)
(* ResizeKeepsBlocks of Layout for raid0, raid1 and raid5f, any number of   *)
(* base bdevs, any strip size and any sizes.  What a concat adds up needs   *)
(* induction over its base bdevs and is left to the model checker.          *)
(*                                                                          *)
(* A block number is read as digits: row, base bdev and offset in the strip *)
(* (Block0), or stripe, data chunk and offset (Block5f).  The code takes    *)
(* the digits apart and puts others together; Digits says that they are     *)
(* unique, so that no two blocks meet.                                      *)
(***************************************************************************)
EXTENDS Layout, FiniteSetTheorems, WellFoundedInduction, TLAPS

\* Quotient and remainder of a natural number are the only ones.
LEMMA Division ==
  ASSUME NEW d \in Nat \ {0}, NEW a \in Nat
  PROVE  /\ a \div d \in Nat /\ a % d \in 0 .. d - 1
         /\ a = d * (a \div d) + (a % d)
OBVIOUS

LEMMA Products ==
  ASSUME NEW d \in Nat, NEW p \in Int, NEW q \in Int, p <= q
  PROVE  d * p <= d * q
OBVIOUS

LEMMA Digits ==
  ASSUME NEW d \in Nat \ {0}, NEW p \in Int, NEW q \in Int, NEW r \in 0 .. d - 1, NEW s \in 0 .. d - 1,
         d * p + r = d * q + s
  PROVE  p = q /\ r = s
<1>1. ASSUME p < q PROVE FALSE
  <2>1. d * (p + 1) <= d * q
    BY <1>1, Products
  <2>2. d * (p + 1) = d * p + d
    OBVIOUS
  <2> QED
    BY <2>1, <2>2
<1>2. ASSUME q < p PROVE FALSE
  <2>1. d * (q + 1) <= d * p
    BY <1>2, Products
  <2>2. d * (q + 1) = d * q + d
    OBVIOUS
  <2> QED
    BY <2>1, <2>2
<1> QED
  BY <1>1, <1>2

LEMMA Smaller ==
  ASSUME NEW d \in Nat \ {0}, NEW a \in Nat, NEW k \in Nat, a < d * k
  PROVE  a \div d < k
<1>1. a \div d \in Nat /\ a % d \in 0 .. d - 1 /\ a = d * (a \div d) + (a % d)
  BY Division
<1>2. ASSUME a \div d >= k PROVE FALSE
  <2>1. d * k <= d * (a \div d)
    BY <1>1, <1>2, Products
  <2> DEFINE q == a \div d
  <2>2. d * k \in Nat /\ d * q \in Nat /\ q \in Nat /\ a % d \in Nat
    BY <1>1
  <2> QED
    BY <1>1, <2>1, <2>2
<1> QED
  BY <1>1, <1>2

LEMMA Composed ==
  ASSUME NEW d \in Nat \ {0}, NEW q \in Nat, NEW r \in 0 .. d - 1
  PROVE  (d * q + r) \div d = q /\ (d * q + r) % d = r /\ d * q + r \in Nat
<1> DEFINE a == d * q + r
<1>1. a \in Nat
  OBVIOUS
<1>2. a \div d \in Nat /\ a % d \in 0 .. d - 1 /\ a = d * (a \div d) + (a % d)
  BY <1>1, Division
<1>3. d * (a \div d) + (a % d) = d * q + r
  BY <1>2
<1> DEFINE p == a \div d
           s == a % d
<1> p \in Nat /\ s \in 0 .. d - 1 /\ d * p + s = d * q + r
  BY <1>2, <1>3
<1> HIDE DEF a, p, s
<1>4. p = q /\ s = r
  BY Digits
<1> QED
  BY <1>1, <1>4 DEF a, p, s

LEMMA MinOfNats ==
  ASSUME NEW T \in SUBSET Nat, T # {}
  PROVE  Min(T) \in T /\ \A y \in T : Min(T) <= y
<1> DEFINE R == {s \in Nat \X Nat : s[1] < s[2]}
<1>0. IsWellFoundedOn(R, Nat)
  BY NatLessThanWellFounded, Zenon DEF OpToRel
<1>1. \E x \in T : \A y \in T : ~ (<<y, x>> \in R)
  <2> HIDE DEF R
  <2> QED
    BY <1>0, WFMin
<1>2. \E x \in T : \A y \in T : x <= y
  <2>1. PICK x \in T : \A y \in T : <<y, x>> \notin R
    BY <1>1
  <2>2. ASSUME NEW y \in T PROVE x <= y
    <3>1. x \in Nat /\ y \in Nat /\ <<y, x>> \notin R
      BY <2>1
    <3>2. y < x => <<y, x>> \in R
      BY <3>1
    <3> QED
      BY <3>1, <3>2
  <2> QED
    BY <2>2
<1> QED
  BY <1>2 DEF Min

-----------------------------------------------------------------------------
(* The mappings, digit by digit.                                            *)

LEMMA Sizes0 ==
  /\ NumBaseBdevs \in Nat \ {0} /\ StripSize \in Nat \ {0} /\ DataOffset \in Nat
  /\ "raid5f" \in Levels => DataChunksNum \in Nat \ {0} /\ StripeBlocks \in Nat \ {0}
BY NumAssumption, SizeAssumption DEF DataChunksNum, StripeBlocks

\* A block of a raid0: its row of strips, its base bdev and its offset.
Block0(row, disk, off) == StripSize * (NumBaseBdevs * row + disk) + off

LEMMA Raid0Home0 ==
  ASSUME NEW row \in Nat, NEW disk \in Slots, NEW off \in 0 .. StripSize - 1
  PROVE  Raid0Home(Block0(row, disk, off)) = <<disk, row * StripSize + off>>
<1> DEFINE strip == NumBaseBdevs * row + disk
           b == Block0(row, disk, off)
<1>1. strip \in Nat /\ strip \div NumBaseBdevs = row /\ strip % NumBaseBdevs = disk
  BY Sizes0, Composed DEF Slots
<1>2. b \div StripSize = strip /\ b % StripSize = off
  <2> HIDE DEF strip
  <2>1. (StripSize * strip + off) \div StripSize = strip /\ (StripSize * strip + off) % StripSize = off
    BY <1>1, Sizes0, Composed
  <2> QED
    BY <2>1 DEF Block0, strip
<1> HIDE DEF strip, b
<1> QED
  BY <1>1, <1>2 DEF Raid0Home, b

LEMMA Raid0Block ==
  ASSUME NEW b \in Nat
  PROVE  \E row \in Nat, disk \in Slots, off \in 0 .. StripSize - 1 : b = Block0(row, disk, off)
<1> DEFINE strip == b \div StripSize
           row   == strip \div NumBaseBdevs
           disk  == strip % NumBaseBdevs
           off   == b % StripSize
<1>1. strip \in Nat /\ off \in 0 .. StripSize - 1 /\ b = StripSize * strip + off
  BY Sizes0, Division
<1> HIDE DEF strip, off
<1>2. row \in Nat /\ disk \in 0 .. NumBaseBdevs - 1 /\ strip = NumBaseBdevs * row + disk
  BY <1>1, Sizes0, Division
<1> HIDE DEF row, disk
<1>3. b = Block0(row, disk, off) /\ disk \in Slots
  BY <1>1, <1>2 DEF Block0, Slots
<1> QED
  BY <1>1, <1>2, <1>3

\* A block of a raid5f: its stripe, the index of its chunk among the data chunks
\* and its offset.
Block5f(stripe, chunk, off) == StripeBlocks * stripe + (StripSize * chunk + off)

DataChunks == 0 .. DataChunksNum - 1

LEMMA InStripe ==
  ASSUME "raid5f" \in Levels, NEW chunk \in DataChunks, NEW off \in 0 .. StripSize - 1
  PROVE  StripSize * chunk + off \in 0 .. StripeBlocks - 1
<1>1. StripSize * (chunk + 1) <= StripSize * DataChunksNum
  BY Sizes0, Products DEF DataChunks
<1>2. StripSize * (chunk + 1) = StripSize * chunk + StripSize
  BY Sizes0 DEF DataChunks
<1>3. StripSize * chunk \in Nat /\ StripSize * DataChunksNum \in Nat
  BY Sizes0 DEF DataChunks
<1> DEFINE c == StripSize * chunk
           e == StripSize * DataChunksNum
<1>4. c + StripSize <= e /\ c \in Nat /\ e \in Nat
  BY <1>1, <1>2, <1>3
<1> HIDE DEF c, e
<1>5. c + off \in 0 .. e - 1
  BY <1>4, Sizes0
<1> QED
  BY <1>5 DEF c, e, StripeBlocks

LEMMA Raid5fHome0 ==
  ASSUME "raid5f" \in Levels,
         NEW stripe \in Nat, NEW chunk \in DataChunks, NEW off \in 0 .. StripSize - 1
  PROVE  Raid5fHome(Block5f(stripe, chunk, off)) =
           <<IF chunk < ParityIndex(stripe) THEN chunk ELSE chunk + 1, stripe * StripSize + off>>
<1> DEFINE w == StripSize * chunk + off
           b == Block5f(stripe, chunk, off)
<1>1. w \in 0 .. StripeBlocks - 1
  BY InStripe
<1>2. w \div StripSize = chunk /\ w - chunk * StripSize = off
  <2>1. w \div StripSize = chunk
    <3>1. chunk \in Nat /\ StripSize \in Nat \ {0} /\ off \in 0 .. StripSize - 1
      BY Sizes0 DEF DataChunks
    <3>2. (StripSize * chunk + off) \div StripSize = chunk
      BY ONLY <3>1, Composed
    <3> QED
      BY <3>2
  <2> QED
    BY <2>1, Sizes0 DEF DataChunks
<1> HIDE DEF w
<1>3. (StripeBlocks * stripe + w) \div StripeBlocks = stripe /\ (StripeBlocks * stripe + w) % StripeBlocks = w
  BY <1>1, Sizes0, Composed
<1>4. b \div StripeBlocks = stripe /\ b % StripeBlocks = w
  BY <1>3 DEF Block5f, w
<1> HIDE DEF b
<1> QED
  BY <1>2, <1>4 DEF Raid5fHome, b

LEMMA Raid5fBlock ==
  ASSUME "raid5f" \in Levels, NEW b \in Nat
  PROVE  \E stripe \in Nat, chunk \in DataChunks, off \in 0 .. StripSize - 1 :
           b = Block5f(stripe, chunk, off)
<1> DEFINE stripe == b \div StripeBlocks
           w      == b % StripeBlocks
           chunk  == w \div StripSize
           off    == w % StripSize
<1>1. stripe \in Nat /\ w \in 0 .. StripeBlocks - 1 /\ b = StripeBlocks * stripe + w
  BY Sizes0, Division
<1> HIDE DEF stripe, w
<1>2. w \in Nat /\ w < StripSize * DataChunksNum
  <2>1. w \in Nat /\ w < StripeBlocks
    BY <1>1, Sizes0
  <2> QED
    BY <2>1 DEF StripeBlocks
<1>3. chunk \in Nat /\ off \in 0 .. StripSize - 1 /\ w = StripSize * chunk + off
  BY <1>2, Sizes0, Division
<1>4. chunk < DataChunksNum
  BY <1>2, Sizes0, Smaller
<1> HIDE DEF chunk, off
<1>5. chunk \in DataChunks
  BY <1>3, <1>4, Sizes0 DEF DataChunks
<1>6. b = Block5f(stripe, chunk, off)
  BY <1>1, <1>3 DEF Block5f
<1> QED
  BY <1>1, <1>3, <1>5, <1>6

-----------------------------------------------------------------------------
(* The sizes.                                                               *)

LEMMA SmallestIs ==
  ASSUME NEW f \in [Slots -> Nat]
  PROVE  Smallest(f) \in Nat /\ (\A i \in Slots : Smallest(f) <= f[i]) /\ \E i \in Slots : Smallest(f) = f[i]
<1> DEFINE T == {f[i] : i \in Slots}
<1>1. 0 \in Slots
  BY Sizes0 DEF Slots
<1>2. T \in SUBSET Nat /\ T # {}
  BY <1>1
<1>3. Smallest(f) \in T /\ \A y \in T : Smallest(f) <= y
  <2> HIDE DEF T
  <2>1. Min(T) \in T /\ \A y \in T : Min(T) <= y
    BY <1>2, MinOfNats
  <2> QED
    BY <2>1 DEF Smallest, T
<1> QED
  BY <1>2, <1>3

LEMMA FloorIs ==
  ASSUME NEW n \in Nat
  PROVE  Strips(n) \in Nat /\ Floor(n) \in Nat /\ Floor(n) = Strips(n) * StripSize /\ Floor(n) <= n
<1> DEFINE q == n \div StripSize
<1>1. q \in Nat /\ n % StripSize \in 0 .. StripSize - 1 /\ n = StripSize * q + (n % StripSize)
  BY Sizes0, Division
<1> HIDE DEF q
<1>2. StripSize * q \in Nat /\ q * StripSize = StripSize * q
  BY <1>1, Sizes0
<1>3. q * StripSize \in Nat /\ q * StripSize <= n
  BY <1>1, <1>2, Sizes0
<1> QED
  BY <1>1, <1>3 DEF Strips, Floor, q

LEMMA FloorMonotone ==
  ASSUME NEW m \in Nat, NEW n \in Nat, m <= n
  PROVE  Strips(m) <= Strips(n) /\ Floor(m) <= Floor(n)
<1>1. Floor(m) <= n /\ Floor(m) = Strips(m) * StripSize /\ Strips(m) \in Nat /\ Strips(n) \in Nat
  BY FloorIs
<1>2. n \div StripSize \in Nat /\ n % StripSize \in 0 .. StripSize - 1
      /\ n = StripSize * (n \div StripSize) + (n % StripSize)
  BY Sizes0, Division
<1>3. n < StripSize * (Strips(n) + 1)
  <2> DEFINE q == n \div StripSize
  <2>1. StripSize * (q + 1) = StripSize * q + StripSize
    BY <1>2, Sizes0
  <2>2. StripSize * q \in Int
    BY <1>2, Sizes0
  <2>3. n < StripSize * q + StripSize
    BY <1>2, <2>2, Sizes0
  <2> QED
    BY <2>1, <2>3 DEF Strips
<1>4. Strips(m) <= Strips(n)
  <2> SUFFICES ASSUME Strips(n) + 1 <= Strips(m) PROVE FALSE
    BY <1>1
  <2>1. StripSize * (Strips(n) + 1) <= StripSize * Strips(m)
    BY <1>1, Sizes0, Products
  <2>2. StripSize * Strips(m) = Floor(m) /\ StripSize * Strips(m) \in Int /\ StripSize * (Strips(n) + 1) \in Int
    BY <1>1, Sizes0
  <2> QED
    BY <1>1, <1>3, <2>1, <2>2
<1>5. StripSize * Strips(m) <= StripSize * Strips(n)
  BY <1>1, <1>4, Sizes0, Products
<1>6. Floor(m) = StripSize * Strips(m) /\ Floor(n) = StripSize * Strips(n)
  <2>1. Floor(n) = Strips(n) * StripSize
    BY FloorIs
  <2> QED
    BY <1>1, <2>1, Sizes0
<1> QED
  BY <1>4, <1>5, <1>6

-----------------------------------------------------------------------------
(* The inductive invariant.                                                 *)

\* A raid bdev that is online has k strips, or k blocks, on each base bdev.
Has(k) ==
  /\ \A i \in Slots : dataSize[i] = IF level = "raid1" THEN k ELSE k * StripSize
  /\ level = "raid1"  => blockcnt = k
  /\ level = "raid0"  => blockcnt = (k * StripSize) * NumBaseBdevs
  /\ level = "raid5f" => blockcnt = StripeBlocks * k

Room(sizes) == [i \in Slots |-> sizes[i] - DataOffset]

Fits == \A i \in open : dataSize[i] + DataOffset <= size[i]

\* A raid0 follows its base bdevs.
Follows ==
  level = "raid0" =>
    /\ ~Online /\ ~crashed => \A i \in open : dataSize[i] = size[i] - DataOffset
    /\ Online => blockcnt = Blockcnt(Room(size))

Typed ==
  /\ level \in Levels /\ level # "concat"
  /\ size \in [Slots -> Sizes] /\ open \subseteq Slots /\ dataSize \in [Slots -> Nat]

IInv == Typed /\ Fits /\ Follows /\ (Online => \E k \in Nat : Has(k))

LEMMA RoomIs ==
  ASSUME NEW sizes \in [Slots -> Sizes]
  PROVE  /\ Room(sizes) \in [Slots -> Nat]
         /\ \A i \in Slots : Room(sizes)[i] = sizes[i] - DataOffset /\ Room(sizes)[i] + DataOffset = sizes[i]
BY SizeAssumption DEF Room

\* What a start makes of the sizes.
LEMMA StartHas ==
  ASSUME NEW f \in [Slots -> Nat], Typed, UNCHANGED level,
         dataSize' = Started(f), blockcnt' = Blockcnt(f)
  PROVE  /\ \E k \in Nat : Has(k)'
         /\ dataSize' \in [Slots -> Nat]
         /\ \A i \in Slots : dataSize'[i] <= f[i]
<1> DEFINE m == Smallest(f)
<1>1. m \in Nat /\ \A i \in Slots : m <= f[i]
  BY SmallestIs
<1>2. Strips(m) \in Nat /\ Floor(m) \in Nat /\ Floor(m) = Strips(m) * StripSize /\ Floor(m) <= m
  BY <1>1, FloorIs
<1>3. level \in {"raid0", "raid1", "raid5f"}
  BY LevelAssumption DEF Typed
<1>4. CASE level = "raid1"
  <2>1. dataSize' = [i \in Slots |-> m] /\ blockcnt' = m
    BY <1>4 DEF Started, Blockcnt
  <2> HIDE DEF m
  <2>2. Has(m)'
    BY <1>4, <2>1 DEF Has
  <2> QED
    BY <1>1, <2>1, <2>2
<1>5. CASE level = "raid0"
  <2>1. dataSize' = [i \in Slots |-> Floor(m)] /\ blockcnt' = Floor(m) * NumBaseBdevs
    BY <1>5 DEF Started, Blockcnt
  <2> HIDE DEF m
  <2>2. Has(Strips(m))'
    BY <1>2, <1>5, <2>1 DEF Has
  <2> QED
    BY <1>1, <1>2, <2>1, <2>2
<1>6. CASE level = "raid5f"
  <2>1. dataSize' = [i \in Slots |-> Floor(m)] /\ blockcnt' = StripeBlocks * Strips(m)
    BY <1>6 DEF Started, Blockcnt
  <2> HIDE DEF m
  <2>2. Has(Strips(m))'
    BY <1>2, <1>6, <2>1 DEF Has
  <2> QED
    BY <1>1, <1>2, <2>1, <2>2
<1> QED
  BY <1>3, <1>4, <1>5, <1>6

LEMMA OpenStep ==
  ASSUME IInv, ~crashed, NEW i \in Slots, Open(i)
  PROVE  IInv'
<1> DEFINE f == [dataSize EXCEPT ![i] = size[i] - DataOffset]
<1>1. /\ i \notin open /\ open' = open \cup {i} /\ size' = size /\ level' = level /\ crashed' = crashed
      /\ size[i] - DataOffset \in Nat
  BY SizeAssumption DEF Open, IInv, Typed
<1>2. f \in [Slots -> Nat] /\ f[i] = size[i] - DataOffset /\ \A j \in Slots \ {i} : f[j] = dataSize[j]
  BY <1>1 DEF IInv, Typed
<1>3. \A j \in open' : f[j] + DataOffset <= size[j]
  BY <1>1, <1>2, Sizes0, SizeAssumption DEF IInv, Typed, Fits
<1>4. ~Online
  BY <1>1 DEF Online
<1>5. level = "raid0" => \A j \in open' : f[j] = size[j] - DataOffset
  BY <1>1, <1>2, <1>4 DEF IInv, Typed, Follows
<1>6. CASE open' = Slots
  <2>1. dataSize' = Started(f) /\ blockcnt' = Blockcnt(f)
    BY <1>6 DEF Open
  <2> HIDE DEF f
  <2>2. /\ \E k \in Nat : Has(k)'
        /\ dataSize' \in [Slots -> Nat]
        /\ \A j \in Slots : dataSize'[j] <= f[j]
    BY <1>1, <1>2, <2>1, StartHas DEF IInv
  <2>3. Fits'
    <3> SUFFICES ASSUME NEW j \in Slots PROVE dataSize'[j] + DataOffset <= size[j]
      BY <1>1, <1>6 DEF Fits
    <3>1. f[j] + DataOffset <= size[j] /\ dataSize'[j] <= f[j]
      BY <1>3, <1>6, <2>2
    <3>2. size[j] \in Nat /\ f[j] \in Nat /\ dataSize'[j] \in Nat
      BY <1>2, <2>2, SizeAssumption DEF IInv, Typed
    <3> QED
      BY <3>1, <3>2, Sizes0
  <2>4. level = "raid0" => f = Room(size)
    BY <1>2, <1>5, <1>6 DEF Room
  <2>5. Follows'
    <3>1. level = "raid0" => blockcnt' = Blockcnt(Room(size))
      BY <2>1, <2>4
    <3>2. \A g : level = "raid0" => Blockcnt(g)' = Blockcnt(g)
      BY <1>1 DEF Blockcnt
    <3> QED
      BY <1>1, <1>6, <3>1 DEF Follows, Online, Blockcnt, Room
  <2> QED
    BY <1>1, <2>2, <2>3, <2>5 DEF IInv, Typed
<1>7. CASE open' # Slots
  <2>1. dataSize' = f
    BY <1>7 DEF Open
  <2> HIDE DEF f
  <2> QED
    BY <1>1, <1>2, <1>3, <1>5, <1>7, <2>1 DEF IInv, Typed, Fits, Follows, Online
<1> QED
  BY <1>6, <1>7

\* What a base bdev that grows leaves of the data regions.
LEMMA GrowStep ==
  ASSUME IInv, ~crashed, NEW i \in Slots, NEW n \in Sizes, Grow(i, n)
  PROVE  /\ IInv'
         /\ Online => blockcnt' >= blockcnt
<1>1. /\ size' = [size EXCEPT ![i] = n] /\ n > size[i] /\ level' = level /\ open' = open
  BY DEF Grow
<1>2. /\ size' \in [Slots -> Sizes] /\ (\A j \in Slots : size'[j] >= size[j])
      /\ \A j \in Slots : size'[j] \in Nat /\ size[j] \in Nat
  BY <1>1, SizeAssumption DEF IInv, Typed
<1>3. blockcnt \in Nat \/ ~Online
  <2>1. level \in {"raid0", "raid1", "raid5f"}
    BY LevelAssumption DEF IInv, Typed
  <2> SUFFICES ASSUME NEW k \in Nat, Has(k) PROVE blockcnt \in Nat
    BY DEF IInv
  <2>2. (k * StripSize) * NumBaseBdevs \in Nat /\ (level = "raid5f" => StripeBlocks * k \in Nat)
    BY Sizes0 DEF IInv, Typed
  <2> QED
    BY <2>1, <2>2 DEF Has
<1>4. UNCHANGED dataSize => Fits'
  <2> SUFFICES ASSUME NEW j \in open PROVE dataSize[j] + DataOffset <= size'[j]
    BY <1>1 DEF Fits
  <2>1. dataSize[j] + DataOffset <= size[j] /\ dataSize[j] \in Nat /\ size'[j] >= size[j] /\ size'[j] \in Nat
        /\ size[j] \in Nat
    BY <1>2 DEF IInv, Typed, Fits
  <2> QED
    BY <2>1, Sizes0
<1>5. CASE level # "raid0"
  <2>1. UNCHANGED <<dataSize, blockcnt, crashed>>
    BY <1>5 DEF Grow
  <2> QED
    BY <1>1, <1>2, <1>3, <1>4, <1>5, <2>1 DEF IInv, Typed, Follows, Online, Has
<1>6. CASE level = "raid0" /\ open # Slots
  <2>1. UNCHANGED <<dataSize, blockcnt>> /\ crashed' = TRUE
    BY <1>6 DEF Grow, Raid0Resize
  <2> QED
    BY <1>1, <1>2, <1>4, <1>6, <2>1 DEF IInv, Typed, Follows, Online
<1>7. CASE level = "raid0" /\ open = Slots
  <2> DEFINE f == Room(size')
             e == Room(size)
  <2>1. f \in [Slots -> Nat] /\ e \in [Slots -> Nat] /\ \A j \in Slots : f[j] + DataOffset = size'[j] /\ e[j] <= f[j]
    <3>1. /\ f \in [Slots -> Nat] /\ e \in [Slots -> Nat]
          /\ \A j \in Slots : f[j] = size'[j] - DataOffset /\ f[j] + DataOffset = size'[j] /\ e[j] = size[j] - DataOffset
      BY <1>2, RoomIs DEF IInv, Typed
    <3> HIDE DEF f, e
    <3> QED
      BY <3>1, <1>2, Sizes0
  <2>2. \A g : Blockcnt(g) = Floor(Smallest(g)) * NumBaseBdevs /\ Blockcnt(g)' = Floor(Smallest(g)) * NumBaseBdevs
    BY <1>1, <1>7 DEF Blockcnt
  <2>3. blockcnt = Blockcnt(e)
    BY <1>7 DEF IInv, Follows, Online
  <2>4. /\ crashed' = crashed
        /\ IF Blockcnt(f) = blockcnt THEN UNCHANGED <<dataSize, blockcnt>>
           ELSE dataSize' = Started(f) /\ blockcnt' = Blockcnt(f)
    BY <1>7 DEF Grow, Raid0Resize, Room
  <2>5. blockcnt' = Blockcnt(f)
    BY <2>4
  <2>6. Follows'
    <3>1. Room(size)' = f
      BY DEF Room
    <3>2. Blockcnt(Room(size))' = Floor(Smallest(f)) * NumBaseBdevs
      BY <1>1, <1>7, <3>1 DEF Blockcnt
    <3> HIDE DEF f
    <3>3. blockcnt' = Blockcnt(Room(size))'
      BY <2>2, <2>5, <3>2
    <3> QED
      BY <1>1, <1>7, <3>3 DEF Follows, Online
  <2>7. blockcnt' >= blockcnt
    <3> HIDE DEF e, f
    <3>1. /\ Smallest(e) \in Nat /\ (\A j \in Slots : Smallest(e) <= e[j])
          /\ Smallest(f) \in Nat /\ \E j \in Slots : Smallest(f) = f[j]
      BY <2>1, SmallestIs
    <3>2. Smallest(e) <= Smallest(f)
      <4>1. PICK j \in Slots : Smallest(f) = f[j]
        BY <3>1
      <4>2. Smallest(e) <= e[j] /\ e[j] <= f[j] /\ e[j] \in Nat /\ f[j] \in Nat
        BY <2>1, <3>1
      <4> QED
        BY <3>1, <4>1, <4>2
    <3>3. Floor(Smallest(e)) <= Floor(Smallest(f)) /\ Floor(Smallest(e)) \in Nat /\ Floor(Smallest(f)) \in Nat
      BY <3>1, <3>2, FloorMonotone, FloorIs
    <3> DEFINE p == Floor(Smallest(e))
               q == Floor(Smallest(f))
    <3>4. blockcnt = p * NumBaseBdevs /\ blockcnt' = q * NumBaseBdevs
      BY <2>2, <2>3, <2>5
    <3> p \in Nat /\ q \in Nat /\ p <= q
      BY <3>3
    <3> HIDE DEF p, q
    <3>5. NumBaseBdevs * p <= NumBaseBdevs * q /\ NumBaseBdevs * p = p * NumBaseBdevs
          /\ NumBaseBdevs * q = q * NumBaseBdevs /\ p * NumBaseBdevs \in Int /\ q * NumBaseBdevs \in Int
      BY Sizes0, Products
    <3> QED
      BY <3>4, <3>5
  <2>8. CASE UNCHANGED <<dataSize, blockcnt>>
    BY <1>1, <1>2, <1>4, <2>6, <2>7, <2>8 DEF IInv, Typed, Online, Has
  <2>9. CASE dataSize' = Started(f) /\ blockcnt' = Blockcnt(f)
    <3> HIDE DEF f
    <3>1. /\ \E k \in Nat : Has(k)'
          /\ dataSize' \in [Slots -> Nat]
          /\ \A j \in Slots : dataSize'[j] <= f[j]
      BY <1>1, <2>1, <2>9, StartHas DEF IInv
    <3>2. Fits'
      <4> SUFFICES ASSUME NEW j \in Slots PROVE dataSize'[j] + DataOffset <= size'[j]
        BY <1>1, <1>7 DEF Fits
      <4>1. f[j] + DataOffset = size'[j] /\ dataSize'[j] <= f[j] /\ f[j] \in Nat /\ dataSize'[j] \in Nat
        BY <2>1, <3>1
      <4> QED
        BY <4>1, Sizes0
    <3> QED
      BY <1>1, <1>2, <2>6, <2>7, <3>1, <3>2 DEF IInv, Typed
  <2> QED
    BY <2>4, <2>8, <2>9
<1> QED
  BY <1>5, <1>6, <1>7

LEMMA InitIInv == "concat" \notin Levels /\ Init => IInv
<1> SUFFICES ASSUME "concat" \notin Levels, Init PROVE IInv
  OBVIOUS
<1>1. 0 \in Slots /\ ~Online
  BY Sizes0 DEF Init, Online, Slots
<1> QED
  BY <1>1 DEF Init, IInv, Typed, Fits, Follows

LEMMA NextIInv == IInv /\ [Next]_vars => IInv'
<1> SUFFICES ASSUME IInv, [Next]_vars PROVE IInv'
  OBVIOUS
<1>1. CASE Next
  BY <1>1, OpenStep, GrowStep DEF Next
<1>2. CASE UNCHANGED vars
  BY <1>2 DEF vars, IInv, Typed, Fits, Follows, Online, Has, Blockcnt, Started, Room
<1> QED
  BY <1>1, <1>2

LEMMA Inductive == "concat" \notin Levels /\ Spec => []IInv
<1> QED
  BY InitIInv, NextIInv, PTL DEF Spec

-----------------------------------------------------------------------------
(* What follows for the blocks of a raid bdev that is online.               *)

LEMMA Places ==
  /\ level = "raid0"  => \A b : Homes(b) = {Raid0Home(b)}
  /\ level = "raid1"  => \A b : Homes(b) = {<<i, b>> : i \in Slots}
  /\ level = "raid5f" => \A b : Homes(b) = {Raid5fHome(b)}
BY DEF Homes

LEMMA RowWithin ==
  ASSUME NEW k \in Nat, NEW row \in Nat, NEW disk \in Slots, NEW off \in 0 .. StripSize - 1,
         Block0(row, disk, off) < (k * StripSize) * NumBaseBdevs
  PROVE  row * StripSize + off < k * StripSize
<1> DEFINE strip == NumBaseBdevs * row + disk
<1>1. strip \in Nat /\ StripSize * strip + off \in Nat
  BY Sizes0 DEF Slots
<1>2. strip < NumBaseBdevs * k
  <2>1. (StripSize * strip + off) \div StripSize = strip
    <3> HIDE DEF strip
    <3> QED
      BY <1>1, Sizes0, Composed
  <2>2. (k * StripSize) * NumBaseBdevs = StripSize * (NumBaseBdevs * k) /\ NumBaseBdevs * k \in Nat
    BY Sizes0
  <2>3. StripSize * strip + off < StripSize * (NumBaseBdevs * k)
    BY <2>2 DEF Block0
  <2> HIDE DEF strip
  <2> QED
    BY <1>1, <2>1, <2>2, <2>3, Sizes0, Smaller
<1>3. row < k
  <2>1. strip \div NumBaseBdevs = row
    BY Sizes0, Composed DEF Slots
  <2> HIDE DEF strip
  <2> QED
    BY <1>1, <1>2, <2>1, Sizes0, Smaller
<1>4. StripSize * (row + 1) <= StripSize * k
  BY <1>3, Sizes0, Products
<1>5. StripSize * (row + 1) = row * StripSize + StripSize /\ StripSize * k = k * StripSize
      /\ row * StripSize \in Nat /\ k * StripSize \in Nat
  BY Sizes0
<1> QED
  BY <1>4, <1>5, Sizes0

LEMMA StripeWithin ==
  ASSUME "raid5f" \in Levels,
         NEW k \in Nat, NEW stripe \in Nat, NEW chunk \in DataChunks, NEW off \in 0 .. StripSize - 1,
         Block5f(stripe, chunk, off) < StripeBlocks * k
  PROVE  stripe * StripSize + off < k * StripSize
<1> DEFINE w == StripSize * chunk + off
<1>1. w \in 0 .. StripeBlocks - 1
  BY InStripe
<1> HIDE DEF w
<1>2. (StripeBlocks * stripe + w) \div StripeBlocks = stripe /\ StripeBlocks * stripe + w \in Nat
  BY <1>1, Sizes0, Composed
<1>3. StripeBlocks * stripe + w < StripeBlocks * k
  BY DEF Block5f, w
<1>4. stripe < k
  BY <1>2, <1>3, Sizes0, Smaller
<1>5. StripSize * (stripe + 1) <= StripSize * k
  BY <1>4, Sizes0, Products
<1>6. StripSize * (stripe + 1) = stripe * StripSize + StripSize /\ StripSize * k = k * StripSize
      /\ stripe * StripSize \in Nat /\ k * StripSize \in Nat
  BY Sizes0
<1> QED
  BY <1>5, <1>6, Sizes0

\* Rows, and stripes, do not overlap on a base bdev.
LEMMA RowsApart ==
  ASSUME NEW p \in Nat, NEW q \in Nat, NEW r \in 0 .. StripSize - 1, NEW s \in 0 .. StripSize - 1,
         p * StripSize + r = q * StripSize + s
  PROVE  p = q /\ r = s
<1>1. StripSize * p + r = StripSize * q + s
  BY Sizes0
<1> QED
  BY <1>1, Sizes0, Digits

\* The parity of a stripe is on one base bdev, and its data chunks are on the
\* others.
LEMMA ParityIs ==
  ASSUME "raid5f" \in Levels, NEW stripe \in Nat, NEW chunk \in DataChunks
  PROVE  LET slot == IF chunk < ParityIndex(stripe) THEN chunk ELSE chunk + 1
         IN  slot \in Slots /\ slot # ParityIndex(stripe) /\ ParityIndex(stripe) \in Slots
<1>1. stripe % NumBaseBdevs \in 0 .. NumBaseBdevs - 1
  BY Sizes0, Division
<1>2. ParityIndex(stripe) \in 0 .. NumBaseBdevs - 1
  BY <1>1, Sizes0 DEF ParityIndex, DataChunksNum
<1>3. chunk \in 0 .. NumBaseBdevs - 2
  BY Sizes0 DEF DataChunks, DataChunksNum
<1> DEFINE par == ParityIndex(stripe)
<1> HIDE DEF par
<1>4. par \in 0 .. NumBaseBdevs - 1
  BY <1>2 DEF par
<1>5. LET slot == IF chunk < par THEN chunk ELSE chunk + 1
      IN  slot \in 0 .. NumBaseBdevs - 1 /\ slot # par
  BY <1>3, <1>4, Sizes0
<1> QED
  BY <1>2, <1>5 DEF par, Slots

LEMMA Homes0 ==
  ASSUME IInv, Online, level = "raid0", NEW b \in 0 .. blockcnt - 1, NEW h \in Homes(b)
  PROVE  /\ h[1] \in Slots /\ h[2] < dataSize[h[1]]
         /\ \A c \in 0 .. b - 1 : h \notin Homes(c)
<1>1. PICK k \in Nat : Has(k)
  BY DEF IInv
<1>2. blockcnt = (k * StripSize) * NumBaseBdevs /\ \A i \in Slots : dataSize[i] = k * StripSize
  BY <1>1 DEF Has
<1>3. b \in Nat /\ blockcnt \in Nat /\ b < blockcnt
  BY <1>2, Sizes0
<1>4. PICK row \in Nat, disk \in Slots, off \in 0 .. StripSize - 1 : b = Block0(row, disk, off)
  BY <1>3, Raid0Block
<1>5. h = <<disk, row * StripSize + off>>
  BY <1>4, Raid0Home0, Places
<1>6. row * StripSize + off < k * StripSize
  BY <1>2, <1>3, <1>4, RowWithin
<1>7. ASSUME NEW c \in 0 .. b - 1, h \in Homes(c) PROVE FALSE
  <2>1. c \in Nat /\ c # b
    BY <1>3
  <2>2. PICK row2 \in Nat, disk2 \in Slots, off2 \in 0 .. StripSize - 1 : c = Block0(row2, disk2, off2)
    BY <2>1, Raid0Block
  <2>3. h = <<disk2, row2 * StripSize + off2>>
    BY <1>7, <2>2, Raid0Home0, Places
  <2>4. disk = disk2 /\ row * StripSize + off = row2 * StripSize + off2
    BY <1>5, <2>3
  <2>5. row = row2 /\ off = off2
    BY <2>4, RowsApart
  <2> QED
    BY <1>4, <2>1, <2>2, <2>4, <2>5
<1> QED
  BY <1>2, <1>5, <1>6, <1>7

LEMMA Homes1 ==
  ASSUME IInv, Online, level = "raid1", NEW b \in 0 .. blockcnt - 1, NEW h \in Homes(b)
  PROVE  /\ h[1] \in Slots /\ h[2] < dataSize[h[1]]
         /\ \A c \in 0 .. b - 1 : h \notin Homes(c)
<1>1. PICK k \in Nat : Has(k)
  BY DEF IInv
<1>2. blockcnt = k /\ \A i \in Slots : dataSize[i] = k
  BY <1>1 DEF Has
<1>3. PICK i \in Slots : h = <<i, b>>
  BY Places
<1>4. \A c \in 0 .. b - 1 : c # b
  BY <1>2
<1>5. \A c \in 0 .. b - 1 : h \notin Homes(c)
  BY <1>3, <1>4, Places
<1> QED
  BY <1>2, <1>3, <1>5

LEMMA Homes5f ==
  ASSUME IInv, Online, level = "raid5f", NEW b \in 0 .. blockcnt - 1, NEW h \in Homes(b)
  PROVE  /\ h[1] \in Slots /\ h[2] < dataSize[h[1]]
         /\ \A c \in 0 .. b - 1 : h \notin Homes(c)
         /\ h[1] # ParityIndex(h[2] \div StripSize)
<1>0. "raid5f" \in Levels
  BY DEF IInv, Typed
<1>1. PICK k \in Nat : Has(k)
  BY DEF IInv
<1>2. blockcnt = StripeBlocks * k /\ \A i \in Slots : dataSize[i] = k * StripSize
  BY <1>1 DEF Has
<1>3. b \in Nat /\ blockcnt \in Nat /\ b < blockcnt
  BY <1>0, <1>2, Sizes0
<1>4. PICK stripe \in Nat, chunk \in DataChunks, off \in 0 .. StripSize - 1 : b = Block5f(stripe, chunk, off)
  BY <1>0, <1>3, Raid5fBlock
<1> DEFINE slot(s, c) == IF c < ParityIndex(s) THEN c ELSE c + 1
<1>5. h = <<slot(stripe, chunk), stripe * StripSize + off>>
  BY <1>0, <1>4, Raid5fHome0, Places
<1>6. stripe * StripSize + off < k * StripSize
  BY <1>0, <1>2, <1>3, <1>4, StripeWithin
<1>7. /\ slot(stripe, chunk) \in Slots /\ slot(stripe, chunk) # ParityIndex(stripe)
      /\ \A c \in DataChunks : slot(stripe, c) = slot(stripe, chunk) => c = chunk
  <2>1. slot(stripe, chunk) \in Slots /\ slot(stripe, chunk) # ParityIndex(stripe) /\ ParityIndex(stripe) \in Slots
    BY <1>0, ParityIs
  <2> DEFINE par == ParityIndex(stripe)
  <2>2. par \in Int
    BY <2>1, Sizes0 DEF Slots
  <2> HIDE DEF par
  <2>3. \A c \in DataChunks :
          (IF c < par THEN c ELSE c + 1) = (IF chunk < par THEN chunk ELSE chunk + 1) => c = chunk
    BY <1>0, <2>2, Sizes0 DEF DataChunks
  <2> QED
    BY <2>1, <2>3 DEF par
<1>8. (stripe * StripSize + off) \div StripSize = stripe
  <2>1. (StripSize * stripe + off) \div StripSize = stripe /\ StripSize * stripe = stripe * StripSize
    BY Sizes0, Composed
  <2> QED
    BY <2>1
<1>9. ASSUME NEW c \in 0 .. b - 1, h \in Homes(c) PROVE FALSE
  <2>1. c \in Nat /\ c # b
    BY <1>3
  <2>2. PICK stripe2 \in Nat, chunk2 \in DataChunks, off2 \in 0 .. StripSize - 1 :
          c = Block5f(stripe2, chunk2, off2)
    BY <1>0, <2>1, Raid5fBlock
  <2>3. h = <<slot(stripe2, chunk2), stripe2 * StripSize + off2>>
    BY <1>0, <1>9, <2>2, Raid5fHome0, Places
  <2> HIDE DEF slot
  <2>4. slot(stripe, chunk) = slot(stripe2, chunk2) /\ stripe * StripSize + off = stripe2 * StripSize + off2
    BY <1>5, <2>3
  <2>5. stripe = stripe2 /\ off = off2
    BY <2>4, RowsApart
  <2>6. chunk = chunk2
    BY <1>7, <2>4, <2>5
  <2> QED
    BY <1>4, <2>1, <2>2, <2>5, <2>6
<1> HIDE DEF slot
<1> QED
  BY <1>2, <1>5, <1>6, <1>7, <1>8, <1>9

\* Every block of an online raid0, raid1 or raid5f has a place of its own on the
\* base bdevs, within their data regions, and none is where the parity is.
THEOREM OwnHomes ==
  ASSUME "concat" \notin Levels
  PROVE  Spec => []BlocksHaveHomes
<1>1. IInv => BlocksHaveHomes
  <2> SUFFICES ASSUME IInv, Online PROVE BlocksHaveHomes
    BY DEF BlocksHaveHomes
  <2>1. level \in {"raid0", "raid1", "raid5f"}
    BY LevelAssumption DEF IInv, Typed
  <2>2. \A i \in Slots : dataSize[i] + DataOffset <= size[i]
    BY DEF IInv, Fits, Online
  <2> QED
    BY <2>1, <2>2, Homes0, Homes1, Homes5f DEF BlocksHaveHomes
<1> QED
  BY <1>1, Inductive, PTL

\* A raid0, raid1 or raid5f that is online keeps its blocks where they are when a
\* base bdev grows, and has no fewer of them.
THEOREM HomesStay ==
  ASSUME "concat" \notin Levels
  PROVE  Spec => ResizeKeepsBlocks
<1> DEFINE Keeps == Online => /\ blockcnt' >= blockcnt
                              /\ \A b \in 0 .. blockcnt - 1 : Homes(b)' = Homes(b)
<1>1. ASSUME IInv, UNCHANGED level PROVE \A b : Homes(b)' = Homes(b)
  <2>1. level \in {"raid0", "raid1", "raid5f"}
    BY <1>1, LevelAssumption DEF IInv, Typed
  <2> QED
    BY <1>1, <2>1 DEF Homes, Raid0Home, Raid5fHome
<1>2. IInv /\ [Next]_vars => [Keeps]_vars
  <2> SUFFICES ASSUME IInv, Next PROVE Keeps
    OBVIOUS
  <2>1. PICK i \in Slots : Open(i) \/ \E n \in Sizes : Grow(i, n)
    BY DEF Next
  <2>2. CASE Open(i)
    BY <2>2 DEF Open, Online
  <2>3. CASE \E n \in Sizes : Grow(i, n)
    <3>1. PICK n \in Sizes : Grow(i, n)
      BY <2>3
    <3>2. UNCHANGED level /\ (Online => blockcnt' >= blockcnt)
      BY <3>1, GrowStep DEF Next, Grow
    <3> QED
      BY <1>1, <3>2
  <2> QED
    BY <2>1, <2>2, <2>3
<1> HIDE DEF Keeps
<1>3. ResizeKeepsBlocks <=> [][Keeps]_vars
  BY DEF ResizeKeepsBlocks, Keeps
<1>4. Spec => []IInv
  BY Inductive
<1>5. Spec => [][Keeps]_vars
  BY <1>2, <1>4, PTL DEF Spec
<1> QED
  BY <1>3, <1>5

-----------------------------------------------------------------------------
(* What follows for the requests the bdev layer hands over.                 *)

\* Such a request does not leave the strip it starts in.
LEMMA WithinStrip ==
  ASSUME IInv, Online, level \in {"raid0", "raid5f"}, ~(level = "raid0" /\ NumBaseBdevs = 1),
         NEW b \in 0 .. blockcnt - 1, blockcnt \in Nat, NEW k \in 1 .. MaxRequest(b) - 1
  PROVE  k \in Nat /\ (b % StripSize) + k \in 0 .. StripSize - 1
<1> DEFINE off == b % StripSize
<1>1. off \in 0 .. StripSize - 1
  BY Sizes0, Division
<1>2. {StripSize - off, blockcnt - b} \in SUBSET Nat
  BY <1>1, Sizes0
<1>3. MaxRequest(b) = Min({StripSize - off, blockcnt - b})
  BY DEF MaxRequest
<1> HIDE DEF off
<1>4. MaxRequest(b) \in Nat /\ MaxRequest(b) <= StripSize - off
  BY <1>2, <1>3, MinOfNats
<1>5. off + k \in 0 .. StripSize - 1 /\ k \in Nat
  BY <1>1, <1>4, Sizes0
<1> QED
  BY <1>5 DEF off

LEMMA OneAfterOther ==
  ASSUME NEW h, NEW k, NEW T, T = {h}
  PROVE  {<<g[1], g[2] + k>> : g \in T} = {<<h[1], h[2] + k>>}
OBVIOUS

LEMMA Next0 ==
  ASSUME IInv, Online, level = "raid0", NEW b \in 0 .. blockcnt - 1, blockcnt \in Nat,
         NEW k \in 1 .. MaxRequest(b) - 1
  PROVE  Homes(b + k) = {<<h[1], h[2] + k>> : h \in Homes(b)}
<1>1. PICK row \in Nat, disk \in Slots, off \in 0 .. StripSize - 1 : b = Block0(row, disk, off)
  BY Raid0Block
<1>2. Homes(b) = {<<disk, row * StripSize + off>>}
  BY <1>1, Raid0Home0, Places
<1>3. {<<h[1], h[2] + k>> : h \in Homes(b)} = {<<disk, (row * StripSize + off) + k>>}
  BY <1>2, OneAfterOther
<1>4. CASE NumBaseBdevs # 1
  <2>1. b % StripSize = off
    <3>1. NumBaseBdevs * row + disk \in Nat
      BY Sizes0 DEF Slots
    <3> DEFINE strip == NumBaseBdevs * row + disk
    <3> HIDE DEF strip
    <3>2. strip \in Nat /\ b = StripSize * strip + off
      BY <1>1, <3>1 DEF strip, Block0
    <3> QED
      BY <3>2, Sizes0, Composed
  <2>2. k \in Nat /\ off + k \in 0 .. StripSize - 1
    BY <1>4, <2>1, WithinStrip
  <2>3. b + k = Block0(row, disk, off + k)
    <3> DEFINE front == StripSize * (NumBaseBdevs * row + disk)
    <3>1. front \in Nat /\ b = front + off
      BY <1>1, Sizes0 DEF Block0, Slots
    <3>2. Block0(row, disk, off + k) = front + (off + k)
      BY DEF Block0
    <3> HIDE DEF front
    <3> QED
      BY <2>2, <3>1, <3>2
  <2>4. Homes(b + k) = {<<disk, row * StripSize + (off + k)>>}
    BY <2>2, <2>3, Raid0Home0, Places
  <2>5. row * StripSize + (off + k) = (row * StripSize + off) + k
    BY <2>2, Sizes0
  <2> QED
    BY <1>3, <2>4, <2>5
<1>5. CASE NumBaseBdevs = 1
  <2>1. ASSUME NEW c \in Nat PROVE Homes(c) = {<<0, c>>}
    <3>1. PICK r \in Nat, d \in Slots, o \in 0 .. StripSize - 1 : c = Block0(r, d, o)
      BY Raid0Block
    <3>2. d = 0
      BY <1>5 DEF Slots
    <3>3. c = r * StripSize + o
      BY <1>5, <3>1, <3>2, Sizes0 DEF Block0
    <3> QED
      BY <3>1, <3>2, <3>3, Raid0Home0, Places
  <2>2. k \in Nat
    <3>1. MaxRequest(b) = blockcnt - b
      BY <1>5 DEF MaxRequest
    <3> QED
      BY <3>1
  <2>3. Homes(b) = {<<0, b>>} /\ Homes(b + k) = {<<0, b + k>>}
    BY <2>1, <2>2
  <2> QED
    BY <2>3, OneAfterOther
<1> QED
  BY <1>4, <1>5

LEMMA Next1 ==
  ASSUME level = "raid1", NEW b, NEW k
  PROVE  Homes(b + k) = {<<h[1], h[2] + k>> : h \in Homes(b)}
<1>1. Homes(b) = {<<i, b>> : i \in Slots} /\ Homes(b + k) = {<<i, b + k>> : i \in Slots}
  BY Places
<1> DEFINE moved == {<<h[1], h[2] + k>> : h \in Homes(b)}
<1>2. ASSUME NEW i \in Slots PROVE <<i, b + k>> \in moved
  <2>1. <<i, b>> \in Homes(b) /\ <<i, b + k>> = << <<i, b>>[1], <<i, b>>[2] + k>>
    BY <1>1
  <2> QED
    BY <2>1
<1>3. ASSUME NEW g \in moved PROVE \E i \in Slots : g = <<i, b + k>>
  <2>1. PICK h \in Homes(b) : g = <<h[1], h[2] + k>>
    OBVIOUS
  <2>2. PICK i \in Slots : h = <<i, b>>
    BY <1>1
  <2> QED
    BY <2>1, <2>2
<1>4. moved = {<<i, b + k>> : i \in Slots}
  <2> HIDE DEF moved
  <2> QED
    BY <1>2, <1>3
<1> QED
  BY <1>1, <1>4

LEMMA Next5f ==
  ASSUME IInv, Online, level = "raid5f", NEW b \in 0 .. blockcnt - 1, blockcnt \in Nat,
         NEW k \in 1 .. MaxRequest(b) - 1
  PROVE  Homes(b + k) = {<<h[1], h[2] + k>> : h \in Homes(b)}
<1>0. "raid5f" \in Levels
  BY DEF IInv, Typed
<1>1. PICK stripe \in Nat, chunk \in DataChunks, off \in 0 .. StripSize - 1 : b = Block5f(stripe, chunk, off)
  BY <1>0, Raid5fBlock
<1> DEFINE slot == IF chunk < ParityIndex(stripe) THEN chunk ELSE chunk + 1
<1>2. Homes(b) = {<<slot, stripe * StripSize + off>>}
  BY <1>0, <1>1, Raid5fHome0, Places
<1>3. {<<h[1], h[2] + k>> : h \in Homes(b)} = {<<slot, (stripe * StripSize + off) + k>>}
  <2> HIDE DEF slot
  <2> QED
    BY <1>2, OneAfterOther
<1>4. b % StripSize = off
  <2> DEFINE strip == DataChunksNum * stripe + chunk
  <2>1. strip \in Nat
    BY <1>0, Sizes0 DEF DataChunks
  <2>2. StripeBlocks * stripe + (StripSize * chunk + off) = StripSize * strip + off
    <3>1. StripeBlocks * stripe = StripSize * (DataChunksNum * stripe)
      BY <1>0, Sizes0 DEF StripeBlocks
    <3>2. StripSize * strip = StripSize * (DataChunksNum * stripe) + StripSize * chunk
      BY <1>0, Sizes0 DEF DataChunks
    <3>3. StripSize * (DataChunksNum * stripe) \in Int /\ StripSize * chunk \in Int
      BY <1>0, Sizes0 DEF DataChunks
    <3> QED
      BY <3>1, <3>2, <3>3
  <2>3. b = StripSize * strip + off
    BY <1>1, <2>2 DEF Block5f
  <2> HIDE DEF strip
  <2> QED
    BY <2>1, <2>3, Sizes0, Composed
<1>5. k \in Nat /\ off + k \in 0 .. StripSize - 1
  BY <1>4, WithinStrip
<1>6. b + k = Block5f(stripe, chunk, off + k)
  <2> DEFINE front == StripeBlocks * stripe
             inner == StripSize * chunk
  <2>1. front \in Nat /\ inner \in Nat /\ b = front + (inner + off)
    BY <1>0, <1>1, Sizes0 DEF Block5f, DataChunks
  <2>2. Block5f(stripe, chunk, off + k) = front + (inner + (off + k))
    BY DEF Block5f
  <2> HIDE DEF front, inner
  <2> QED
    BY <1>5, <2>1, <2>2
<1>7. Homes(b + k) = {<<slot, stripe * StripSize + (off + k)>>}
  BY <1>0, <1>5, <1>6, Raid5fHome0, Places
<1>8. stripe * StripSize + (off + k) = (stripe * StripSize + off) + k
  BY <1>5, Sizes0
<1> HIDE DEF slot
<1> QED
  BY <1>3, <1>7, <1>8

\* A read or a write of a raid0, raid1 or raid5f that the bdev layer has split
\* goes on, block by block, where its first block is.
THEOREM RequestsStayTogether ==
  ASSUME "concat" \notin Levels
  PROVE  Spec => []RequestsAreContiguous
<1>1. IInv => RequestsAreContiguous
  <2> SUFFICES ASSUME IInv, Online, NEW b \in 0 .. blockcnt - 1, NEW k \in 1 .. MaxRequest(b) - 1
               PROVE  Homes(b + k) = {<<h[1], h[2] + k>> : h \in Homes(b)}
    BY DEF RequestsAreContiguous
  <2>1. level \in {"raid0", "raid1", "raid5f"}
    BY LevelAssumption DEF IInv, Typed
  <2>2. blockcnt \in Nat
    <3>1. PICK m \in Nat : Has(m)
      BY DEF IInv
    <3>2. (m * StripSize) * NumBaseBdevs \in Nat /\ (level = "raid5f" => StripeBlocks * m \in Nat)
      BY Sizes0 DEF IInv, Typed
    <3> QED
      BY <2>1, <3>1, <3>2 DEF Has
  <2> QED
    BY <2>1, <2>2, Next0, Next1, Next5f
<1> QED
  BY <1>1, Inductive, PTL

-----------------------------------------------------------------------------
(* What follows for the flushes and unmaps of a raid0.                      *)

\* Two numbers are ordered as their digits are.
LEMMA Ordered ==
  ASSUME NEW d \in Nat \ {0}, NEW p \in Int, NEW q \in Int, NEW r \in 0 .. d - 1, NEW s \in 0 .. d - 1
  PROVE  d * p + r <= d * q + s <=> (p < q \/ (p = q /\ r <= s))
<1> DEFINE x == d * p
           y == d * q
<1>1. x \in Int /\ y \in Int
  OBVIOUS
<1>2. p < q => x + d <= y
  <2>1. p < q => d * (p + 1) <= d * q
    BY Products
  <2>2. d * (p + 1) = d * p + d
    OBVIOUS
  <2> QED
    BY <2>1, <2>2
<1>3. q < p => y + d <= x
  <2>1. q < p => d * (q + 1) <= d * p
    BY Products
  <2>2. d * (q + 1) = d * q + d
    OBVIOUS
  <2> QED
    BY <2>1, <2>2
<1>4. p = q => x = y
  OBVIOUS
<1>5. x + r <= y + s <=> (p < q \/ (p = q /\ r <= s))
  <2> HIDE DEF x, y
  <2> QED
    BY <1>1, <1>2, <1>3, <1>4
<1> QED
  BY <1>5

\* The strip of a block, and what its number says of its place.
StripOf(row, disk) == NumBaseBdevs * row + disk

LEMMA StripIs ==
  ASSUME NEW row \in Nat, NEW disk \in Slots
  PROVE  /\ StripOf(row, disk) \in Nat
         /\ StripOf(row, disk) \div NumBaseBdevs = row /\ StripOf(row, disk) % NumBaseBdevs = disk
BY Sizes0, Composed DEF StripOf, Slots

LEMMA BlocksInOrder ==
  ASSUME NEW p \in Nat, NEW i \in Slots, NEW r \in 0 .. StripSize - 1,
         NEW q \in Nat, NEW j \in Slots, NEW s \in 0 .. StripSize - 1
  PROVE  /\ Block0(p, i, r) \in Nat /\ Block0(q, j, s) \in Nat
         /\ Block0(p, i, r) \div StripSize = StripOf(p, i) /\ Block0(p, i, r) % StripSize = r
         /\ Block0(p, i, r) <= Block0(q, j, s)
              <=> (StripOf(p, i) < StripOf(q, j) \/ (StripOf(p, i) = StripOf(q, j) /\ r <= s))
         /\ StripOf(p, i) < StripOf(q, j) <=> (p < q \/ (p = q /\ i < j))
         /\ StripOf(p, i) = StripOf(q, j) <=> (p = q /\ i = j)
<1>1. StripOf(p, i) \in Nat /\ StripOf(q, j) \in Nat
  BY StripIs
<1>2. /\ StripOf(p, i) <= StripOf(q, j) <=> (p < q \/ (p = q /\ i <= j))
      /\ StripOf(q, j) <= StripOf(p, i) <=> (q < p \/ (q = p /\ j <= i))
  BY Sizes0, Ordered DEF StripOf, Slots
<1>3. /\ StripOf(p, i) < StripOf(q, j) <=> (p < q \/ (p = q /\ i < j))
      /\ StripOf(p, i) = StripOf(q, j) <=> (p = q /\ i = j)
  BY <1>1, <1>2, Sizes0 DEF Slots
<1> DEFINE u == StripOf(p, i)
           v == StripOf(q, j)
<1>4. Block0(p, i, r) = StripSize * u + r /\ Block0(q, j, s) = StripSize * v + s
  BY DEF Block0, StripOf
<1>5. u \in Nat /\ v \in Nat
  BY <1>1
<1> HIDE DEF u, v
<1>6. StripSize * u + r \in Nat /\ StripSize * v + s \in Nat
      /\ (StripSize * u + r) \div StripSize = u /\ (StripSize * u + r) % StripSize = r
  BY <1>5, Sizes0, Composed
<1>7. StripSize * u + r <= StripSize * v + s <=> (u < v \/ (u = v /\ r <= s))
  BY <1>5, Sizes0, Ordered
<1> QED
  BY <1>3, <1>4, <1>6, <1>7 DEF u, v

LEMMA DigitsInOrder ==
  ASSUME NEW p \in Nat, NEW i \in Slots, NEW r \in 0 .. StripSize - 1,
         NEW q \in Nat, NEW j \in Slots, NEW s \in 0 .. StripSize - 1
  PROVE  Block0(p, i, r) <= Block0(q, j, s)
           <=> (p < q \/ (p = q /\ i < j) \/ (p = q /\ i = j /\ r <= s))
<1>1. /\ Block0(p, i, r) <= Block0(q, j, s)
           <=> (StripOf(p, i) < StripOf(q, j) \/ (StripOf(p, i) = StripOf(q, j) /\ r <= s))
      /\ StripOf(p, i) < StripOf(q, j) <=> (p < q \/ (p = q /\ i < j))
      /\ StripOf(p, i) = StripOf(q, j) <=> (p = q /\ i = j)
  BY BlocksInOrder
<1> QED
  BY <1>1

\* What _raid0_split_io_range gives a base bdev is what lies there between the
\* first block and the last.
LEMMA SplitHolds ==
  ASSUME NEW g, NEW disk \in Slots,
         g.startStrip \in Nat, g.startDisk \in Slots, g.startOffset \in 0 .. StripSize - 1,
         g.endStrip \in Nat, g.endDisk \in Slots, g.endOffset \in 0 .. StripSize - 1
  PROVE  LET e == SplitIoRange(g, disk)
         IN  /\ e.disk = disk /\ e.lba \in Nat /\ e.n \in Int
             /\ \A row \in Nat, off \in 0 .. StripSize - 1 :
                  row * StripSize + off \in e.lba .. e.lba + e.n - 1
                    <=> /\ Block0(g.startStrip, g.startDisk, g.startOffset) <= Block0(row, disk, off)
                        /\ Block0(row, disk, off) <= Block0(g.endStrip, g.endDisk, g.endOffset)
<1> DEFINE p == g.startStrip
           i == g.startDisk
           r == g.startOffset
           q == g.endStrip
           j == g.endDisk
           s == g.endOffset
<1>0. /\ p \in Nat /\ i \in Slots /\ r \in 0 .. StripSize - 1
      /\ q \in Nat /\ j \in Slots /\ s \in 0 .. StripSize - 1
  OBVIOUS
<1> DEFINE e == SplitIoRange(g, disk)
           lowRow  == p + IF disk < i THEN 1 ELSE 0
           lowOff  == IF disk = i THEN r ELSE 0
           highRow == q - IF disk > j THEN 1 ELSE 0
           highOff == IF disk = j THEN s ELSE StripSize - 1
<1>1. /\ e.disk = disk /\ e.lba = lowOff + lowRow * StripSize
      /\ e.n = (highRow - lowRow) * StripSize + highOff - lowOff + 1
  BY DEF SplitIoRange, Extent
<1> HIDE DEF p, i, r, q, j, s
<1>2. /\ lowRow \in Nat /\ highRow \in Int
      /\ lowOff \in 0 .. StripSize - 1 /\ highOff \in 0 .. StripSize - 1
  BY <1>0, Sizes0 DEF Slots
<1>3. ASSUME NEW row \in Nat, NEW off \in 0 .. StripSize - 1
      PROVE  /\ (lowRow < row \/ (lowRow = row /\ lowOff <= off))
                  <=> Block0(p, i, r) <= Block0(row, disk, off)
             /\ (row < highRow \/ (row = highRow /\ off <= highOff))
                  <=> Block0(row, disk, off) <= Block0(q, j, s)
  <2>1. Block0(p, i, r) <= Block0(row, disk, off)
          <=> (p < row \/ (p = row /\ i < disk) \/ (p = row /\ i = disk /\ r <= off))
    BY <1>0, DigitsInOrder
  <2>2. Block0(row, disk, off) <= Block0(q, j, s)
          <=> (row < q \/ (row = q /\ disk < j) \/ (row = q /\ disk = j /\ off <= s))
    BY <1>0, DigitsInOrder
  <2> QED
    BY <1>0, <2>1, <2>2, Sizes0 DEF Slots
<1> HIDE DEF e, lowRow, lowOff, highRow, highOff
<1>4. e.lba \in Nat /\ e.n \in Int
  BY <1>1, <1>2, Sizes0
<1>5. e.lba = StripSize * lowRow + lowOff /\ e.lba + e.n - 1 = StripSize * highRow + highOff
  <2>1. (highRow - lowRow) * StripSize = StripSize * highRow - StripSize * lowRow
        /\ lowRow * StripSize = StripSize * lowRow
        /\ StripSize * highRow \in Int /\ StripSize * lowRow \in Int
    BY <1>2, Sizes0
  <2> QED
    BY <1>1, <1>2, <2>1
<1>6. ASSUME NEW row \in Nat, NEW off \in 0 .. StripSize - 1
      PROVE  row * StripSize + off \in e.lba .. e.lba + e.n - 1
               <=> /\ Block0(p, i, r) <= Block0(row, disk, off)
                   /\ Block0(row, disk, off) <= Block0(q, j, s)
  <2>1. row * StripSize + off = StripSize * row + off /\ StripSize * row + off \in Int
    BY Sizes0
  <2>2. StripSize * lowRow + lowOff <= StripSize * row + off
          <=> Block0(p, i, r) <= Block0(row, disk, off)
    BY <1>2, <1>3, Sizes0, Ordered
  <2>3. StripSize * row + off <= StripSize * highRow + highOff
          <=> Block0(row, disk, off) <= Block0(q, j, s)
    BY <1>2, <1>3, Sizes0, Ordered
  <2> DEFINE x == row * StripSize + off
  <2>4. x \in Int /\ (e.lba <= x <=> Block0(p, i, r) <= Block0(row, disk, off))
        /\ (x <= e.lba + e.n - 1 <=> Block0(row, disk, off) <= Block0(q, j, s))
    BY <1>5, <2>1, <2>2, <2>3
  <2> HIDE DEF x
  <2>5. x \in e.lba .. e.lba + e.n - 1 <=> (e.lba <= x /\ x <= e.lba + e.n - 1)
    BY <1>4, <2>4
  <2> QED
    BY <2>4, <2>5 DEF x
<1> QED
  BY <1>1, <1>4, <1>6 DEF e, p, i, r, q, j, s

\* The base bdevs from the first on, as many as there are strips or base bdevs, are
\* those that have a strip between the first and the last.
Disks(first, end) == {((first % NumBaseBdevs) + j) % NumBaseBdevs : j \in 0 .. Min({end - first + 1, NumBaseBdevs}) - 1}

LEMMA DisksOfStrips ==
  ASSUME NEW first \in Nat, NEW end \in Nat, first <= end
  PROVE  \A disk : disk \in Disks(first, end) <=>
           disk \in Slots /\ \E row \in Nat : StripOf(row, disk) \in first .. end
<1> DEFINE count == Min({end - first + 1, NumBaseBdevs})
           d0    == first % NumBaseBdevs
           row0  == first \div NumBaseBdevs
<1>1. /\ count \in {end - first + 1, NumBaseBdevs} /\ count <= end - first + 1 /\ count <= NumBaseBdevs
      /\ count \in Nat
  <2>1. {end - first + 1, NumBaseBdevs} \in SUBSET Nat
    BY Sizes0
  <2> QED
    BY <2>1, MinOfNats
<1>2. d0 \in 0 .. NumBaseBdevs - 1 /\ row0 \in Nat /\ first = NumBaseBdevs * row0 + d0
  BY Sizes0, Division
<1>3. Disks(first, end) = {(d0 + j) % NumBaseBdevs : j \in 0 .. count - 1}
  BY DEF Disks
<1> HIDE DEF count, d0, row0
\* One step from the first strip is one step from its base bdev.
<1>4. ASSUME NEW j \in Nat
      PROVE  /\ (d0 + j) % NumBaseBdevs \in Slots
             /\ \E row \in Nat : StripOf(row, (d0 + j) % NumBaseBdevs) = first + j
  <2> DEFINE m == (d0 + j) % NumBaseBdevs
             c == (d0 + j) \div NumBaseBdevs
  <2>1. m \in 0 .. NumBaseBdevs - 1 /\ c \in Nat /\ d0 + j = NumBaseBdevs * c + m
    <3> DEFINE a == d0 + j
    <3>1. a \in Nat /\ NumBaseBdevs \in Nat \ {0}
      BY <1>2, Sizes0
    <3> HIDE DEF a
    <3>2. /\ a \div NumBaseBdevs \in Nat /\ a % NumBaseBdevs \in 0 .. NumBaseBdevs - 1
          /\ a = NumBaseBdevs * (a \div NumBaseBdevs) + (a % NumBaseBdevs)
      BY ONLY <3>1, Division
    <3> QED
      BY ONLY <3>2 DEF a, m, c
  <2> HIDE DEF m, c
  <2>2. NumBaseBdevs * (row0 + c) = NumBaseBdevs * row0 + NumBaseBdevs * c
        /\ NumBaseBdevs * row0 \in Nat /\ NumBaseBdevs * c \in Nat
    BY <1>2, <2>1, Sizes0
  <2>3. StripOf(row0 + c, m) = first + j
    BY <1>2, <2>1, <2>2, Sizes0 DEF StripOf
  <2> QED
    BY <1>2, <2>1, <2>3 DEF m, Slots
<1>5. ASSUME NEW disk \in Disks(first, end)
      PROVE  disk \in Slots /\ \E row \in Nat : StripOf(row, disk) \in first .. end
  <2>1. PICK j \in 0 .. count - 1 : disk = (d0 + j) % NumBaseBdevs
    BY <1>3
  <2>2. j \in Nat /\ first + j \in first .. end
    BY <1>1, <2>1
  <2> QED
    BY <1>4, <2>1, <2>2
<1>6. ASSUME NEW disk \in Slots, NEW row \in Nat, StripOf(row, disk) \in first .. end
      PROVE  disk \in Disks(first, end)
  <2>1. CASE count = NumBaseBdevs
    <3> DEFINE j == IF disk >= d0 THEN disk - d0 ELSE disk - d0 + NumBaseBdevs
    <3>1. j \in 0 .. count - 1 /\ d0 + j \in {disk, disk + NumBaseBdevs}
      BY <1>2, <2>1, Sizes0 DEF Slots
    <3>2. (NumBaseBdevs * 0 + disk) % NumBaseBdevs = disk /\ (NumBaseBdevs * 1 + disk) % NumBaseBdevs = disk
      BY Sizes0, Composed DEF Slots
    <3>3. NumBaseBdevs * 0 + disk = disk /\ NumBaseBdevs * 1 + disk = disk + NumBaseBdevs
      BY Sizes0 DEF Slots
    <3> HIDE DEF j
    <3> QED
      BY <1>3, <3>1, <3>2, <3>3
  <2>2. CASE count = end - first + 1
    <3> DEFINE j == StripOf(row, disk) - first
    <3>1. j \in 0 .. count - 1 /\ j \in Nat /\ first + j = StripOf(row, disk)
      BY <1>6, <2>2
    <3> HIDE DEF j
    <3>2. PICK row2 \in Nat : StripOf(row2, (d0 + j) % NumBaseBdevs) = StripOf(row, disk)
      BY <1>4, <3>1
    <3>3. (d0 + j) % NumBaseBdevs = disk
      BY <1>4, <3>1, <3>2, StripIs
    <3> QED
      BY <1>3, <3>1, <3>3
  <2> QED
    BY <1>1, <2>1, <2>2
<1> QED
  BY <1>5, <1>6

\* A flush or an unmap of a raid0 is in pieces, one for each base bdev that has one
\* of its strips.
LEMMA Split0 ==
  ASSUME NEW offset \in Nat, NEW num \in Nat \ {0}, level = "raid0"
  PROVE  LET es == Extents(offset, num)
         IN  /\ \A e \in es : e.n > 0
             /\ \A e, f \in es : e.disk = f.disk => e = f
             /\ UNION {{<<e.disk, a>> : a \in e.lba .. e.lba + e.n - 1} : e \in es} =
                  UNION {Homes(b) : b \in offset .. offset + num - 1}
<1> DEFINE last  == offset + num - 1
           first == offset \div StripSize
           end   == last \div StripSize
           g     == IoRange(offset, num)
           es    == Extents(offset, num)
<1>1. last \in Nat /\ offset <= last
  OBVIOUS
<1>2. PICK p \in Nat, i \in Slots, r \in 0 .. StripSize - 1 : offset = Block0(p, i, r)
  BY Raid0Block
<1>3. PICK q \in Nat, j \in Slots, s \in 0 .. StripSize - 1 : last = Block0(q, j, s)
  BY <1>1, Raid0Block
<1>4. /\ first = StripOf(p, i) /\ offset % StripSize = r
      /\ end = StripOf(q, j) /\ last % StripSize = s
  BY <1>2, <1>3, BlocksInOrder
<1>5. first \in Nat /\ end \in Nat /\ first <= end
  <2>1. first < end \/ first = end
    BY <1>1, <1>2, <1>3, <1>4, BlocksInOrder
  <2> QED
    BY <1>4, <2>1, StripIs
<1>6. /\ g.startDisk = first % NumBaseBdevs /\ g.startStrip = first \div NumBaseBdevs
      /\ g.endDisk = end % NumBaseBdevs /\ g.endStrip = end \div NumBaseBdevs
      /\ g.startOffset = offset % StripSize /\ g.endOffset = last % StripSize
      /\ g.disks = Min({end - first + 1, NumBaseBdevs})
  BY DEF IoRange
<1>7. es = {SplitIoRange(g, disk) : disk \in Disks(first, end)}
  BY <1>6 DEF Extents, Raid0Extents, Disks
<1> HIDE DEF last, first, end, g, es
<1>8. /\ g.startDisk = i /\ g.startStrip = p /\ g.startOffset = r
      /\ g.endDisk = j /\ g.endStrip = q /\ g.endOffset = s
  BY <1>4, <1>6, StripIs
<1>9. ASSUME NEW disk \in Slots
      PROVE  LET e == SplitIoRange(g, disk)
             IN  /\ e.disk = disk /\ e.lba \in Nat /\ e.n \in Int
                 /\ \A row \in Nat, off \in 0 .. StripSize - 1 :
                      row * StripSize + off \in e.lba .. e.lba + e.n - 1
                        <=> offset <= Block0(row, disk, off) /\ Block0(row, disk, off) <= last
  <2>1. LET e == SplitIoRange(g, disk)
        IN  /\ e.disk = disk /\ e.lba \in Nat /\ e.n \in Int
            /\ \A row \in Nat, off \in 0 .. StripSize - 1 :
                 row * StripSize + off \in e.lba .. e.lba + e.n - 1
                   <=> /\ Block0(p, i, r) <= Block0(row, disk, off)
                       /\ Block0(row, disk, off) <= Block0(q, j, s)
    <3>1. /\ g.startStrip \in Nat /\ g.startDisk \in Slots /\ g.startOffset \in 0 .. StripSize - 1
          /\ g.endStrip \in Nat /\ g.endDisk \in Slots /\ g.endOffset \in 0 .. StripSize - 1
      BY <1>8
    <3> QED
      BY <1>8, <3>1, SplitHolds
  <2> QED
    BY <1>2, <1>3, <2>1
<1>10. \A disk \in Disks(first, end) : disk \in Slots /\ \E row \in Nat : StripOf(row, disk) \in first .. end
  BY <1>5, DisksOfStrips
<1>11. ASSUME NEW disk \in Disks(first, end)  PROVE SplitIoRange(g, disk).n > 0
  <2> DEFINE e == SplitIoRange(g, disk)
  <2>1. PICK row \in Nat : StripOf(row, disk) \in first .. end
    BY <1>10
  <2>2. disk \in Slots /\ e.lba \in Nat /\ e.n \in Int
    BY <1>9, <1>10
  <2>3. \E row2 \in Nat, off \in 0 .. StripSize - 1 :
          offset <= Block0(row2, disk, off) /\ Block0(row2, disk, off) <= last
    <3>1. CASE StripOf(row, disk) = first
      <4>1. p = row /\ i = disk
        BY <1>4, <2>2, <3>1, StripIs
      <4> QED
        BY <1>1, <1>2, <4>1
    <3>2. CASE StripOf(row, disk) # first
      <4>1. 0 \in 0 .. StripSize - 1
        BY Sizes0
      <4>2. StripOf(p, i) < StripOf(row, disk)
        BY <1>4, <1>5, <2>1, <2>2, <3>2, StripIs
      <4>3. offset <= Block0(row, disk, 0)
        BY <1>2, <2>2, <4>1, <4>2, BlocksInOrder
      <4>4. StripOf(row, disk) < StripOf(q, j) \/ (StripOf(row, disk) = StripOf(q, j) /\ 0 <= s)
        BY <1>4, <1>5, <2>1, <2>2, StripIs
      <4>5. Block0(row, disk, 0) <= last
        BY <1>3, <2>2, <4>1, <4>4, BlocksInOrder
      <4> QED
        BY <4>1, <4>3, <4>5
    <3> QED
      BY <3>1, <3>2
  <2>4. \E x : x \in e.lba .. e.lba + e.n - 1
    BY <1>9, <2>2, <2>3
  <2> HIDE DEF e
  <2>5. e.n > 0
    BY <2>2, <2>4
  <2> QED
    BY <2>5 DEF e
<1>12. ASSUME NEW e \in es, NEW f \in es, e.disk = f.disk  PROVE e = f
  <2>1. PICK d \in Disks(first, end) : e = SplitIoRange(g, d)
    BY <1>7
  <2>2. PICK c \in Disks(first, end) : f = SplitIoRange(g, c)
    BY <1>7
  <2>3. d \in Slots /\ c \in Slots
    BY <1>10
  <2>4. e.disk = d /\ f.disk = c
    BY <1>9, <2>1, <2>2, <2>3
  <2> QED
    BY <1>12, <2>1, <2>2, <2>4
<1>13. ASSUME NEW e \in es, NEW a \in e.lba .. e.lba + e.n - 1
       PROVE  \E b \in offset .. last : <<e.disk, a>> \in Homes(b)
  <2>1. PICK disk \in Disks(first, end) : e = SplitIoRange(g, disk)
    BY <1>7
  <2>2. disk \in Slots /\ e.disk = disk /\ e.lba \in Nat /\ e.n \in Int
    BY <1>9, <1>10, <2>1
  <2>3. a \in Nat
    BY <2>2
  <2> DEFINE row == a \div StripSize
             off == a % StripSize
  <2>4. row \in Nat /\ off \in 0 .. StripSize - 1 /\ a = StripSize * row + off
    BY <2>3, Sizes0, Division
  <2> HIDE DEF row, off
  <2>5. a = row * StripSize + off
    BY <2>4, Sizes0
  <2>6. offset <= Block0(row, disk, off) /\ Block0(row, disk, off) <= last
    BY <1>9, <2>1, <2>2, <2>4, <2>5
  <2>7. Block0(row, disk, off) \in Nat
    BY <2>2, <2>4, BlocksInOrder
  <2>8. Homes(Block0(row, disk, off)) = {<<disk, a>>}
    BY <2>2, <2>4, <2>5, Raid0Home0, Places
  <2>9. Block0(row, disk, off) \in offset .. last
    BY <1>1, <2>6, <2>7
  <2> QED
    BY <2>2, <2>8, <2>9
<1>14. ASSUME NEW b \in offset .. last, NEW h \in Homes(b)
       PROVE  \E e \in es : \E a \in e.lba .. e.lba + e.n - 1 : h = <<e.disk, a>>
  <2>1. b \in Nat /\ offset <= b /\ b <= last
    BY <1>1
  <2>2. PICK row \in Nat, disk \in Slots, off \in 0 .. StripSize - 1 : b = Block0(row, disk, off)
    BY <2>1, Raid0Block
  <2>3. h = <<disk, row * StripSize + off>>
    BY <2>2, Raid0Home0, Places
  <2>4. StripOf(p, i) < StripOf(row, disk) \/ StripOf(p, i) = StripOf(row, disk)
    BY <1>2, <2>1, <2>2, BlocksInOrder
  <2>5. StripOf(row, disk) < StripOf(q, j) \/ StripOf(row, disk) = StripOf(q, j)
    BY <1>3, <2>1, <2>2, BlocksInOrder
  <2>6. StripOf(row, disk) \in first .. end
    BY <1>4, <1>5, <2>4, <2>5, StripIs
  <2>7. disk \in Disks(first, end)
    BY <1>5, <2>6, DisksOfStrips
  <2>8. SplitIoRange(g, disk) \in es
    BY <1>7, <2>7
  <2>9. /\ SplitIoRange(g, disk).disk = disk
        /\ row * StripSize + off \in SplitIoRange(g, disk).lba ..
             SplitIoRange(g, disk).lba + SplitIoRange(g, disk).n - 1
    BY <1>9, <2>1, <2>2
  <2> QED
    BY <2>3, <2>8, <2>9
<1>15. \A e \in es : e.n > 0
  BY <1>7, <1>11
<1>16. UNION {{<<e.disk, a>> : a \in e.lba .. e.lba + e.n - 1} : e \in es} = UNION {Homes(b) : b \in offset .. last}
  BY <1>13, <1>14
<1> QED
  BY <1>12, <1>15, <1>16 DEF es, last

\* A flush or an unmap of a raid0 reaches exactly the blocks it is for, with one I/O
\* for each base bdev, whatever strips and base bdevs it starts and ends in.
THEOREM SplitReachesItsBlocks ==
  ASSUME "concat" \notin Levels
  PROVE  Spec => []SplitIsExact
<1>1. IInv => SplitIsExact
  <2> SUFFICES ASSUME IInv, Online, level = "raid0" PROVE SplitIsExact
    BY DEF SplitIsExact, IInv, Typed
  <2>1. blockcnt \in Nat
    <3>1. PICK m \in Nat : Has(m)
      BY DEF IInv
    <3>2. (m * StripSize) * NumBaseBdevs \in Nat
      BY Sizes0
    <3> QED
      BY <3>1, <3>2 DEF Has
  <2>2. \A x \in Ranges : x[1] \in Nat /\ x[2] \in Nat \ {0}
    BY <2>1 DEF Ranges
  <2> QED
    BY <2>2, Split0 DEF SplitIsExact
<1> QED
  BY <1>1, Inductive, PTL

=============================================================================
