# FlexBSO in TLA+

FlexBSO offloads block storage work to a DPU. The repository holds a copy of
SPDK's RAID bdev module with a changed raid5f ("safe RAID5", which verifies what
it reads), a virtual bdev that compresses what passes through it, an application
that writes and reads a file through such a bdev, and the compression code, once
as a library of the bdev with a program of its own and once as a sample.

This directory models the RAID bdevs (the I/O engine of raid5f, the life of a
raid bdev, the submission of I/O in raid1, raid0 and concat, the layout of all
four levels), the compressing bdev (its I/O path and its life), the application
and the two compression programs. `tlc -config X.cfg M` checks the runs listed
below; `tlapm M.tla` checks the proofs of the `*Proofs` modules.

## 1. The system

### Components

| Component | Source | State | Operations |
|---|---|---|---|
| raid5f I/O engine | `raid/raid5f.c` | per channel: two pools of stripe requests (writes, reconstruct reads), the xor retry queue, the array of xor sources; per I/O the counters `base_bdev_io_remaining`, `base_bdev_io_submitted` | submit a read or a full-stripe write; chunk I/O and xor callbacks; io_wait and xor retries |
| raid bdev lifecycle | `raid/bdev_raid.c`, `bdev_raid.h` | `state`, `num_base_bdevs_discovered`, `destroy_started`, and per slot name, descriptor, `remove_scheduled`, `remove_cb` | create, examine, configure, remove a base bdev (quiesce, iterate over channels, unquiesce), deconfigure, destruct, clean up, shut down; create and destroy channels |
| RAID RPCs | `raid/bdev_raid_rpc.c` | one context a call | create, delete, remove a base bdev, list |
| raid1 | `raid/raid1.c` | per channel: blocks being read from each base bdev | read from the least loaded base bdev, write to all |
| raid0, concat | `raid/raid0.c`, `raid/concat.c` | sizes; concat: block ranges | read and write one base bdev, flush and unmap several; raid0: resize |
| submit and reset | `raid/bdev_raid.c` 299-506 | the counters of an I/O | dispatch, count the parts of an I/O, reset all base bdevs, wait for an `spdk_bdev_io` |
| compressing passthru vbdev | `bdev-passthru-compress/passthru/vbdev_passthru.c` | the list of names, the nodes with their claimed base bdevs; two static accelerator contexts; per I/O a wait entry | compress and write, read and decompress, resubmit; create, delete, examine, hot removal |
| passthru RPCs | `.../vbdev_passthru_rpc.c` | none | create, delete |
| hello_bdev | `.../hello_world/hello_bdev.c` | offsets submitted and completed, a wait entry, the channel | write a file to a bdev in chunks, read it back, store it |
| compression core, sample | `.../compress/*`, `doca-compression/compression_local.c` | a DOCA context, the data at hand, two files | compress a file, decompress it, compare the checksum |
| scripts and builds | `ninjatool.py`, `bench.sh`, Makefiles | none | build, measure |

### How they interact

A user opens a *raid bdev* and a *channel* of it on its SPDK thread. The channel
holds a channel of each base bdev and one of the raid module. An I/O enters at
`raid_bdev_submit_request` and goes to the module of the level, which submits
I/Os to the base bdevs; their callbacks count down `base_bdev_io_remaining`, and
the last one completes the I/O. A submission that finds no `spdk_bdev_io` puts an
entry in the io_wait queue of the base bdev and goes on from its callback. raid5f
also hands xor operations to the accel framework and takes those it refused from
a queue of its channel when another xor ends.

Everything that changes the array (RPCs, hot removal, configuration, shutdown)
runs on the app thread, in callbacks of the bdev layer: `spdk_bdev_quiesce`, an
iteration over the channels on their threads, `spdk_bdev_unquiesce`,
`spdk_bdev_unregister`, the unregistration of an io_device. Between any two of
those another RPC, another removal, a new channel or the shutdown can come.

The passthru bdev sits on one base bdev, which may be a raid bdev. It compresses a
write where the user's data is, calls the core's `compress_file` and waits for the
accelerator without leaving the thread; other threads with a channel of it do the
same at that time. A name is put in a list before there is a bdev, and the
examination of every new base bdev looks there. hello_bdev is a user of any bdev,
made for this one.

### What is hard, and what makes each component correct

* **raid5f.** Submissions stop half way for lack of memory, for chunks and for
  xors, and continue from a callback after some of the earlier parts have ended;
  errors come at each point; the metadata part of a xor ends before or after
  the data part. Correct means: no I/O is forgotten or completed twice, a stripe
  request is out of its pool as long as one I/O uses it, the count of remaining
  parts is exact, and what was written is what is read, from the chunk or through
  the parity.
* **Lifecycle.** One counter, a state and four flags a slot decide who frees the
  memory, on paths that interleave. Correct means: the count is that of the open
  base bdevs, an online array is assembled and has the base bdevs it needs, the
  raid bdev is quiesced exactly for the removal under way, nothing refers to a
  freed raid bdev, RPCs are answered once, and deletion, removal and shutdown end.
* **raid1, raid0, concat, reset.** A loop over the base bdevs is interrupted, and
  skips base bdevs that are missing. Correct means: the I/O ends with its last
  part, mirrors agree after a successful write, the read counters are exact.
* **Layout.** Correct means: blocks have places of their own inside the data
  regions, a request that the bdev layer does not split stays on one base bdev,
  flush and unmap hit exactly the blocks they name, a resize moves nothing.
* **Passthru, I/O.** Data is changed in place and submissions are repeated;
  threads share a context; the length of the compressed data is guessed back from
  its zeros. Correct means: what a write left is compressed once and comes back
  from a read, and every I/O is completed by one of the many places that may do it.
* **Passthru, life.** Names outlive bdevs, base bdevs come back under old names,
  deletion and removal cross, a close is sent to another thread. Correct means:
  each claim has one owner who gives it back, a deleted bdev does not come back, a
  removed base bdev is let go.
* **hello_bdev.** All chunks are under way at once and end in any order. Correct
  means: reading begins after the last write, the channel is not used after it was
  given back, the application ends.
* **Compression programs.** Results of steps are dropped. Correct means: a program
  that reports success has written what it read, and its context is destroyed once.
  Neither is true of every path (section 6); the properties say what is.

## 2. The modules

| Module | Models | Grain |
|---|---|---|
| `BdevIo` | what a bdev promises for its I/Os: the abstract specification | one step may end any I/Os |
| `Raid5f` | one channel of `raid5f.c`; implements `BdevIo` | one action per callback |
| `RaidBdev` | one raid bdev of `bdev_raid.c` with the RPCs and the starts and stops of the modules | one action per callback of the app thread |
| `RaidIo` | one channel of `raid1.c`, `raid0.c`, `concat.c`, and the reset; implements `BdevIo` | one action per callback |
| `Layout` | sizes, mapping, split and resize of all levels | operators, two actions |
| `Passthru` | the I/O path of `vbdev_passthru.c` on several threads | one action up to the accelerator, one from there on |
| `PassthruBdev` | names, nodes, claims of `vbdev_passthru.c` with its RPCs | one action per RPC or callback |
| `HelloBdev` | `hello_bdev.c` | one action per callback |
| `Compression` | the two programs | one action per step of main |
| `*Proofs` | theorems about `Raid5f`, `RaidBdev`, `RaidIo`, `Layout`, `Passthru`, `PassthruBdev`, `HelloBdev`, `Compression` | |
| `MC*` | values of the constants for the runs | |

An operator whose name begins with `Mut` is a variant of the definition after it
with a plausible slip in it (a dropped reset, an off-by-one). No specification
uses it; with it in place of the definition the property it is kept for fails.

### BdevIo

An I/O is new, running, ok or failed. `Advance` says that it moves forward only and
that what it is and what it found do not change afterwards; `Store` and `Fetch` say
what a read finds that no write overlapped; `Completes` that it ends. `Raid5f` and
`RaidIo` define its variables from theirs (`Bdev == INSTANCE BdevIo WITH ...`),
forgetting requests, queues, counters and base bdevs, and `Implements` states the
refinement. An I/O given back to the bdev layer with NOMEM is still running there.

### Raid5f

`io[i]` is the `raid_bdev_io` of an I/O (`rem`, `sub` are
`base_bdev_io_remaining` and `_submitted`; `pend` is the io_wait callback or the
direct read it waits for; `sr` its `module_private`). `req[r]` is a
`stripe_request`: `out` are its chunk I/Os under way, `seg` the pieces of the xor
left, `task`, `mdTasks` the accel operations under way, `md` that metadata is
remaining. `retryQ` is `xor_retry_queue`, `xorBufs` the request
`chunk_xor_buffers` was last set for, `own` whether a xor took the chunks of its
own request. `accelFull` belongs to the environment: the channel gets the accel
channel of its thread (`raid5f.c:1111`), which all users of accel on that thread
share, and they may hold every task of it that this channel does not.

| Action | Code |
|---|---|
| `Submit`, `Resubmit` | `raid5f_submit_rw_request`: read or full-stripe write; the bdev layer submits an I/O again that was completed with NOMEM |
| `RetryRw`, `RetryChunks` | the io_wait callbacks `_raid5f_submit_rw_request`, `raid5f_chunk_submit_retry` |
| `DirectReadComplete` | `raid5f_chunk_read_complete` with the reconstruct read that verifies it |
| `ChunkComplete` | `raid5f_chunk_complete_bdev_io` |
| `XorTaskDone`, `XorMdDone` | `raid5f_xor_stripe_cb`, `raid5f_xor_stripe_md_cb`, up to `raid5f_xor_stripe_done` and the retry queue (`Drain`) |
| `RemoveBase` | the channel loses a base channel |
| `OthersUseAccel` | the other users of the accel channel fill it, or leave some of it |

The operators in between follow the functions (`SubmitChunks`, `XorStripe`,
`XorContinue`, `XorRetry`, `XorDone`, `CompletePart`, `Release`) and return the set
of their possible results, because the environment may refuse at several places
of one call.

### RaidBdev

The fields of `struct raid_bdev` are variables of their names or nearly so
(`discovered` is `num_base_bdevs_discovered`, `open` the slots with a descriptor,
`named` those with a name, `scheduled` those with `remove_scheduled`). `level` is
chosen at the start and decides on `MinOperational` and on whether the module stops
later (`AsyncStop`). `removal[i]` is how far the removal of slot i is: waiting for
the quiesce, for the channel iteration, or for the unquiesce. `reg`, `device`,
`locked`, `visited`, `attached` are the state the bdev layer keeps. `dead` says how
the process died: a failed assertion or the use of a freed raid bdev. There is one
raid bdev; the layer attaches base bdevs in any order.

| Action | Code |
|---|---|
| `CreateRaid`, `CreateFails` | `rpc_bdev_raid_create` with `raid_bdev_create`, `raid_bdev_add_base_device` |
| `Attach` | `raid_bdev_examine`, up to `raid_bdev_configure` |
| `HotRemove`, `LayerRemoves`, `RemoveRpc` | `raid_bdev_remove_base_bdev` |
| `Quiesced`, `VisitChannel`, `ChannelsVisited`, `Unquiesced` | the chain of callbacks of a removal, 1264-1333 |
| `DeleteRpc` | `rpc_bdev_raid_delete`, `raid_bdev_delete` |
| `Destruct`, `ModuleStopped`, `DeviceGone` | `_raid_bdev_destruct`, `raid_bdev_module_stop_done`, the io_device callbacks |
| `OpenRaid`, `CloseRaid`, `OpenChannel`, `CloseChannel` | users; `raid_bdev_create_cb`, `raid_bdev_destroy_cb` |
| `FiniStart`, `LayerUnregisters`, `ModuleExit` | `raid_bdev_fini_start`, the shutdown of the bdev layer, `raid_bdev_exit` |

### RaidIo

`io[i].to` lists the base bdevs the loop goes over, `sub` is how far it is, `out`
what is under way, `waits` that an io_wait callback will take it up again.
`Submit`, `Resume` and `BaseDone` are `raid_bdev_submit_request`, the io_wait
callback and the callbacks of the base bdev I/Os; `counter` is
`read_blocks_outstanding`. Which base bdevs a flush or an unmap covers is any range
of them, as `Layout` shows.

### Layout

`Started` and `Blockcnt` are the start functions, `Raid0Home`, `ConcatHome`,
`Raid5fHome` the mapping of a block, `IoRange`, `SplitIoRange`, `ConcatExtents` the
split of flush and unmap, `Open`, `Grow` the base bdevs that come and grow, and
`Raid0Resize` the resize. The properties are about every block and every range.

### Passthru

`io[i]` is an `spdk_bdev_io` with what the vbdev makes of it; `buf` is the contents
of its iovecs, "data v compressed n times". `sound` turns false when another thread
enters the static context the I/O is using (`Take`), or the accelerator fails; then
its outcome is anything, the end of the process included (`Outcomes`, `Undefined`).
Data is told apart by what its stream does to the code: ordinary, beginning or
ending with a zero byte, with a zero byte where an iovec ends, or longer than the
data.

| Action | Code |
|---|---|
| `Submit`, `Resubmit` | `vbdev_passthru_submit_request` up to the accelerator, or to the base bdev; `vbdev_passthru_resubmit_io` |
| `Compressed` | the rest of a write: copy back, clean up, `spdk_bdev_writev_blocks_ext`, `vbdev_passthru_queue_io` |
| `BaseDone` | `_pt_complete_io`, `_pt_complete_zcopy_io` up to the accelerator |
| `Decompressed` | the rest of a read |

### PassthruBdev

`names` is `g_bdev_names`, a sequence, since the loop of `vbdev_passthru_register`
goes through it in order; `nodes` are the elements of `g_pt_nodes` and those being
unregistered. `Bases` are all base bdevs that ever exist; several may have the
same name, one after the other. `lost` remembers the base
bdevs a registration has failed on, whose claim the code forgets.

| Action | Code |
|---|---|
| `Create`, `Delete`, `DeleteOther` | the RPCs, with `vbdev_passthru_insert_name` and `vbdev_passthru_register` |
| `Appear` | `vbdev_passthru_examine` |
| `RemoveEvent` | `vbdev_passthru_base_bdev_hotremove_cb` |
| `Destruct`, `CloseBase` | `vbdev_passthru_destruct`, and the message `_vbdev_passthru_destruct` |
| `Vanish`, `Gone`, `Claim`, `OpenNode`, `CloseNode`, `Shutdown`, `ShutdownNode`, `Finish` | the bdev layer and users; `vbdev_passthru_finish` |

### HelloBdev and Compression

In `HelloBdev` a file is a number of chunks, `off` how far the loops have submitted
and `done` how many ended, `wait` the wait entry, `closes` how often the channel was
given back. `Hello` is the loop of `hello_write` or `hello_read`, which runs inside
the callback that calls it. In `Compression` `Steps` is the order of the parts of
main of either program; an action is the part it is named for, with all its ends.
`ignored` says that the last initialisation has failed and core went on, `was` what
files an earlier run had left.

## 3. What the abstraction assumes

* A callback is one action: a channel belongs to one SPDK thread, and the
  lifecycle to the app thread. The wait of the passthru bdev for the accelerator is
  a point where other threads run.
* The contents of a chunk are one bit (xor is exact on bits), those of a base bdev
  in `RaidIo` too. Metadata is an operation to wait for, without contents. Flush,
  unmap and reset have no effect on the contents; below the passthru bdev they may
  zero them.
* A write to a base bdev takes effect when it completes; one that fails may have
  reached the medium or not.
* A base bdev that calls the io_wait callback has an `spdk_bdev_io` for the first
  submission of that callback. The accel framework refuses for lack of tasks while
  this channel holds some, which may be the last, or while its other users have the
  rest (`accelFull`); else it has one.
* Base bdevs are removed from a channel when the raid bdev is quiesced, so that no
  I/O is under way; the callbacks of a quiesce come before the destruct.
* The memory of a freed raid bdev is not used again while callbacks refer to it,
  so that a late callback is seen as a use after free and not as something else.
* The stripe requests of a pool are interchangeable; any free one may be taken.
* A xor that takes its sources from another request gives any result; what it may
  write into that request's chunks is not modelled.
* A base bdev that the raid bdev has open only grows. Numbers are block counts and
  come nowhere near 2^64.
* A submission error that the code does not expect (`assert(false)`) stops a debug
  build, and completes the I/O as failed in a release build: both are modelled.
* A read through the passthru bdev covers what one write covered, as in hello_bdev;
  a stream that is read in part is no stream (`vbdev_passthru.c:187`).
* The bdev layer keeps the name of a bdev until it is closed, tells its users of a
  removal once, and destructs it when nobody has it open. hello_bdev's chunks do not
  overlap; a second `spdk_put_io_channel` of a channel is undefined, and `HelloBdev`
  goes no further. A checksum tells the contents of `Compression` apart.

In `Raid5f`, `RaidIo` and `Passthru` a history variable `want` holds what the last
write left, as long as that is known: a failed write, or two I/Os of which one is a
write and that overlap, make it unknown until the next clean write (`clean`).

Deadlock is not checked in any run: each I/O and RPC is submitted once, base bdevs
grow to a largest size, programs end, and a process that died stays dead, so that
every behaviour really may end.

## 4. The runs

| Run | Constants | States | Shows |
|---|---|---|---|
| `Raid5f_pools` | 3 base bdevs, 3 I/Os, 1 write and 3 read requests; out of memory at base bdevs and accel, other users of the accel channel, accel refuses | 219k | the retry queue is left without a xor under way only when the others have the accel channel full (`StallsOnlyWhenFull`); every I/O is completed, unless it stays in a queue that is stalled so, or is given back with NOMEM for want of the request that does (`EveryIoCompletes`) |
| `Raid5f_errors` | 2 I/Os with metadata, one request a pool, xors in up to two pieces; base bdevs refuse, fail and are removed, accel fails, allocations fail, fault injection | 210k | requests are owned by one I/O (`RequestOwnership`), the remaining parts are counted exactly (`RemainingIsExact`), and an I/O is lost only at the end of a direct read that finds no request (`LostAtDirectRead`) |
| `Raid5f_data` | 3 I/Os on one stripe with any data, base bdevs fail I/Os, slot 0 or 2 removed | 636k | a successful write is on every base bdev (`StripeIsWritten`); the channel is a `BdevIo` (`Implements`): reads return what was written, degraded or not, and no I/O ends twice |
| `RaidBdev_calm` | raid5f, raid1 or raid0 of 3 slots, 2 threads, 2 deletions, 1 removal by RPC, hot removals, claimed and mismatching base bdevs, shutdown; removals and deletions wait for each other | 400k | no use after free or failed assertion (`Survives`), enough base bdevs (`OnlineIsOperational`), nobody knows what was freed (`FreedIsForgotten`), a successful deletion means gone (`DeleteReleases`); deletions are answered and shutdown frees (`TeardownEnds`), I/O is let through again and removed base bdevs are closed (`RemovalEnds`) |
| `RaidBdev_overlap` | the same levels, one thread, 1 deletion, 2 removals, in any order; quiesce and registration fail; channels opened late; one base bdev too small for the superblock | 908k | `DiscoveredCountsOpen`, `OnlineIsAssembled`, `QuiescedForRemoval`, `AnsweredOnce`, `StateOrder` |
| `RaidBdev_two_removals` | two removals at once | fails | section 6 |
| `RaidIo_channel` | raid1, raid0 and concat of 3; 2 I/Os of all types, reads of up to 2 blocks; no memory, refused and failed I/Os, no buffer; two base bdevs removable | 100k | `MirrorsAgree`, `CountersAreExact`; an I/O ends with its last part (`RemainingIsExact`) and does end (`EveryIoCompletes`); the channel is a `BdevIo` (`Implements`) |
| `Layout_mapping` | all levels on 3 base bdevs of 5 to 10 blocks, strips of 2, data offset 3 | 18k | `BlocksHaveHomes`, `RequestsAreContiguous`, `SplitIsExact`, `ResizeKeepsBlocks` |
| `Passthru_io` | 2 threads with an I/O each, again and again, one place, all types, four kinds of data, every failure | 245k | `CompressedOnce`, `ReadsReturnWrites`, `EveryIoCompletes` |
| `PassthruBdev_life` | 2 passthru bdevs, 2 base bdevs under one name, 2 deletions, every failure, shutdown | 124k | `ClaimIsOwned`, `DeletedStaysAway`, `RemovalEnds` |
| `HelloBdev_file` | files of 0 to 3 chunks, and the short workloads; every failure | 286 | `OutputIsInput`, `NothingAfterClose`, `Ends` |
| `Compression_programs` | both programs, all methods, short and long files, with and without files of an earlier run; every failure | 7k | `OutputIsInput`, `ContextReleasedOnce` |

Why the bounds are enough for the cases that matter: three base bdevs are the fewest
raid5f allows and give a first, a middle and a last position to every loop; stripe 1 has
its parity in the middle, so that chunk indices before and after it differ. One write
request against three I/Os exhausts the pool; three reconstruct requests leave two xors
waiting behind another, or behind none; a pool of one makes the verification of a read
find no request. Two pieces of a xor have a first that is not the last. In the
lifecycle, three slots of which two are needed allow one legal removal and one that
takes the array down; two removals and a deletion are the most that can interact, since
a third removal meets an array that is down. Data regions of 2 to 7 blocks with strips
of 2 are with and without a rest, and up to three stripes. In `RaidIo` two I/Os are one
that was interrupted and one that changes counters and contents meanwhile. Two threads
are what shares a context; their I/Os are used again, so that any sequence of writes and
reads of the place comes. Two base bdevs of one name are one that went and one that came
back, and two passthru bdevs want the same one. Three chunks have one that is neither
first nor last; the proofs are for any number.

Fairness. `Raid5f` and `RaidIo`: a base bdev or accel operation that was accepted
completes, an io_wait callback comes, and the bdev layer submits again what came
back with NOMEM, as SPDK's bdev layer does for every I/O. `Raid5f` asks only that
one of the steps that are due is taken, not each (`Due`); nothing is asked of the
other users of the accel channel, who may keep it full for ever. `RaidBdev`: callbacks
come; when the raid bdev is being unregistered its users, told by the bdev layer,
close it; the bdev layer ends a shutdown it began. `Passthru`: as for `RaidIo`, but
strong fairness for the callbacks of an I/O, because a thread that waits for the
accelerator runs nothing else: the poller that a thread runs between two I/Os comes
to every callback that is pending. `PassthruBdev`: events and messages are
delivered, users close a bdev that is being unregistered, each node and base bdev
on its own (one that is busy for ever does not hold up another). `HelloBdev`: the
bdev layer calls back. Nobody has to submit, create, delete or remove anything, and
no user has to leave a bdev that stays.

## 5. The proofs

All theorems hold for any values of the constants that satisfy the named
assumptions of their module, and for any of the faults but those a theorem names.

**`RaidBdevProofs`**, for any finite set of slots (not empty: `bdev_raid.c:986`), any
threads, RPCs and levels. Its first two parts hold in any environment (`overlap`,
`late_channel`, failures and all):

* `TypeCorrect`: `Spec => []TypeOK`;
* `CountIsExact`: `Spec => []DiscoveredCountsOpen`;
* `AssembledOnline`: `Spec => []OnlineIsAssembled`, so that the assertion at
  `bdev_raid.c:1556` cannot fail;
* `NoWayBack`: `Spec => StateOrder`.

The inductive invariant `IInv` adds three facts. The raid bdev goes online when the
count reaches the number of slots; that means `named = open` only if open slots have
names (`NamedBeforeOpen`) and the count is exact. An array that is going down can
lose slots too, and must not be seen to come online again: `named = open` in every
state but configuring (`StaysAssembled`). The callbacks of the bdev layer change the
state without looking at it, and are harmless because the layer knows only a raid
bdev that has been online (`RegisteredWasUp`). `FreeKeepsCount` and `OpenKeepsCount`
carry the arithmetic of the count; `SlotsUnchanged` and `SlotsFreed` cover the
actions that leave the slots alone or release some; each action has a lemma of its
own, and `NextIInv` puts them together.

Its second part proves `QuiesceIsOwned` (`Spec => []QuiescedForRemoval`)
and `NoSecondAnswer` (`Spec => AnsweredOnce`). Its invariant `RInv` says besides
that a removal under way is scheduled (`UnderWayIsScheduled`), so that the early
return at `bdev_raid.c:1367` keeps a second one from starting; that whoever is kept
as the caller of a removal or a deletion is an RPC still without an answer
(`CallersWait`); and that no RPC is kept twice (`CallersDiffer`), so that answering
one caller does not touch the others.

Its third part is about the whole life of a raid bdev: `SurvivesAlways`
(`Spec => []Survives`), `OperationalAlways` (`Spec => []OnlineIsOperational`),
`ForgottenWhenFreed` (`Spec => []FreedIsForgotten`) and `DeletedMeansReleased`
(`Spec => DeleteReleases`). They assume an `Orderly` environment, which leaves out the
three triggers of section 6 after which they are false: `overlap` (the run
`RaidBdev_two_removals` is the counterexample to `OperationalAlways` without it),
`late_channel`, and `register_fails` with a module that stops on its own time. Base bdevs
that are claimed, do not fit, are too small or go away, quiesces that fail, the
shutdown of the bdev layer, and a failed registration of raid0 and concat stay in. The
invariant says what there is of the raid bdev at each stage of its time in the bdev
layer (`Life`: no user before and after, the module on until it is asked to stop, the
device on until the module has stopped), that a removal under way is of an open
base bdev of an online array that can spare it, and is the only one (`Removals`), and
that a deletion that waits has all base bdevs scheduled, then closed (`Deleting`). Each
handler has its lemma (`CreateLife` to `FinishLife`); `Steady`, `AtRest` and `RestGoesOn`
are about the steps that leave the stage alone or happen where no callback is due.

**`HelloBdevProofs`**, for files of any length: `ReadsWhatItWrote` (`Spec =>
[]OutputIsInput`) and `SilentAfterClose` (`Spec => NothingAfterClose`). The first says
of an application that returns 0 that the whole input is on the bdev and the output has
exactly the chunks whose read did not fail; that these are all chunks is true of the
short workloads only, as a large file is stored, and 0 returned, also when reads failed
(section 6). The counter `file_write_offset` says nothing of which chunks have ended.
`LargeInv` relates it to cardinalities: writes that were completed, under way, refused
and failed make up the chunks submitted, so that the counter reaches the size only if
every chunk is on the bdev and nothing else is under way; `SmallInv` says the same of
the one chunk of the short workloads. The theorems of `FiniteSetTheorems` carry the
counting.

**`PassthruBdevProofs`**, for any number of names, base bdevs and deletions:
`ClaimHasOneOwner` (`Spec => []ClaimIsOwned`) and `DeletedForGood`
(`Spec => []DeletedStaysAway`). A base bdev that the module has claimed has one node,
the others have none; a base bdev with a failed registration behind it is the
exception: it stays claimed and has no node ever again (`lost`, section 6). The
invariant `PInv` says that nodes differ in their base bdevs (`OneNode`), that what is
claimed has a node or is lost, and not both (`Owned`), that a name is once in the
list (`NamesDiffer`), so that a deletion, which stops at the first, takes out the
only one, and that no name in the list is deleted (`NoneDeleted`), so that no base
bdev that comes can bring one back. `WithoutKeeps` and `ForgetTakesOut` are about
the list, `RegisterKeeps` about the loop that both creation and examination run.

**`PassthruProofs`**, for any number of I/Os, threads and places and any faults:
`CompressedOnceAlways` (`Spec => []CompressedOnce`) and `ReadsAreFaithful` (`Spec =>
ReadsReturnWrites`). Both are about the writes `Promises` names and the reads nobody
disturbed; streams that begin or end with a zero byte are not among them, nor is the
read with two iovecs of a stream with a zero byte where the first one ends. The
invariant says what the buffer of an undisturbed write holds before and after the
accelerator (`Held`), that nothing is promised of a place that is being written
(`Unpromised`), that an I/O in `clean` has no conflict (`Apart`), and that what such a
read has fetched is still on the base bdev (`Fetched`). Each action is shown to be a
move of one I/O (`Moves`) that completes no read with wrong data (`Faithful`); that a
move keeps the invariant (`MovesKeep`) is then proved once, with the history.

**`CompressionProofs`**, for either program and any faults: `ContextOnce` (`Spec =>
[]ContextReleasedOnce`) and `SameFileAgain` (`Spec => []OutputIsInput`). Both state what
the programs do, with the paths of section 6 on which core destroys the context twice or
leaves it, and the three ends after which the output is not what the program has read
though it reports success. The invariant ties the context and the data to the step the
program has reached: `Ctx` says before which steps the context is there, `Output` that
the checksum is of what was read, and that between the comparison and the last write the
data is whole and has that checksum. `Whereabouts` gives the steps of each name in both
programs.

**`RaidIoProofs`**, for any number of base bdevs and I/Os: `RemainingAlways`
(`Spec => []RemainingIsExact`, if no loop meets the submission error it does not
expect) and `RemainingCounts` (with all faults, as long as the process lives). The
count alone is not inductive. The invariant says besides that the loop has no slot
twice (`Once`, which `TargetsOnce` shows of a loop that wraps around) and that what is
under way is among what the loop has passed (`Within`); then a missing base bdev is
counted as done once, and `ReachedCounts` does the arithmetic over `Cardinality`.

The other three are for runs without `unexpected`, after which a loop that goes on
completes the I/O early. `MirrorsAlwaysAgree` (`Spec => []MirrorsAgree`) and
`ChannelImplements` (`Spec => Implements`, every step is a step of `BdevIo` or a
stutter) share the invariant `Contents`: a write that was not disturbed has left its
data on each base bdev its loop has passed and whose I/O is over (`Held`), the last
callback of an I/O finds the loop at its end (`LastPart`), and a loop that ends in
the submission itself never completes an I/O with success (`Sent`), since some base
bdev is there. `CountersAlwaysExact` (`Spec => []CountersAreExact`) is about a sum
over a set of reads, a fold. `MapThenSumSet` is a recursive function on sets whose
existence has to be proved: `SmallestSet` gives a least counterexample among the
subsets of a finite set, and with it the sum exists, takes its elements in any order
and changes by one summand when a read begins or ends.

**`Raid5fProofs`**, for any number of base bdevs, stripes, I/Os and requests and
pieces of a xor: `Types` (`Spec => []TypeOK`), `RequestsAreOwned`
(`Spec => []RequestOwnership`), `RemainingAlwaysExact` (`Spec => []RemainingIsExact`),
`StallsAreForced` (`Spec => StallsOnlyWhenFull`) and `LossIsTold`
(`Spec => LostAtDirectRead`). They assume `Tame`: none of the three faults of section 6
after which the code does give a request back twice, too early or never
(`rebuild_submit`; `accel_nomem` and `accel_submit` together with separate metadata). All
the others may happen, in any mixture. The properties call for each other: a count is
exact only if the chunk that ends belongs to the I/O that counts it, and the request
is that I/O's only if it was given back when the count said so. So the invariant has
one shape for a request out of its pool (`Stage`): its chunks are submitted and under
way, with the count of both (`Chunking`), or its xor is under way or in the retry queue,
with the count the xor will take off (`Xoring`). Each handler turns what it works on into
something `Good`, one lemma a handler; `TakeSound` puts that into the channel for all of
them, and `DrainSound` does so for the requests that the end of a xor takes off the
queue, of which any number may fail in one call. The queue holds no request twice
(`InOnce`). It can be left without a xor under way, since other users of the thread may
have the accel channel full; that it is so left in no other way is what `DrainSound`
carries besides (`Tended`): an end of a xor looks at the whole queue, or until accel
refuses again. A chunk that is done in the loop itself is possible because a base bdev may be
missing; that one other chunk keeps the count above zero until the loop has ended rests
on three base bdevs of which one at most is away (`StartToSubmit`, `Redundant`).

The contents need one assumption more, `Pure`. `accel_nomem` is left out, because a xor
that is tried again takes the buffers of whichever stripe used them last
(`raid5f.c:289`), so that what it writes or rebuilds can really be wrong; and so is
`poison`, the fault injection that flips a chunk on purpose. Failed, refused and waiting
I/Os of the base bdevs, xors that fail, requests that run out and base bdevs that are
removed stay in. `StripesAreWritten` (`Spec => []StripeIsWritten`) and
`ChannelImplements` (`Spec => Implements`, every step is a step of `BdevIo` or a stutter)
share the invariant `ContentsInv`. Neither follows from what the base bdevs hold alone: it
says besides what a request in use has (`Holds`), namely the data of its write or what
was read of its stripe, and that the chunks of a write that were submitted and have ended
are on the base bdevs. Each handler hands this on and tells success only of an I/O whose
contents are there (`Yields`, again one lemma a handler). That the xor of the data is the
parity, and the xor of the others the missing chunk, is a matter of counting ones
(`XorIsParity`, `XorRebuilds`). For the channel a handler is the `Turn` of one I/O:
`TurnKeeps` has the history in it and shows that the turn leaves alone what is known of
the other I/Os, since the stripe of an I/O in `clean` is in no conflict; the lemmas
`TurnAdvances`, `TurnMeets`, `TurnStores` and `TurnFetches` read the same turn as a step of
`BdevIo`.

**`LayoutProofs`**, for raid0, raid1 and raid5f of any number of base bdevs, strip
size, data offset and sizes: `OwnHomes` (`Spec => []BlocksHaveHomes`),
`RequestsStayTogether` (`Spec => []RequestsAreContiguous`), `HomesStay`
(`Spec => ResizeKeepsBlocks`) and `SplitReachesItsBlocks` (`Spec => []SplitIsExact`, for
raid0). Blocks are read as digits in a mixed base (`Block0`,
`Block5f`); that digits are unique (`Digits`) makes the mappings injective, and
`FloorMonotone` makes a grown raid0 no smaller. The invariant relates the sizes of the
base bdevs and of the raid bdev by the number of strips (`Has`). For the split of a flush,
the order of two blocks is that of their digits (`Ordered`, `BlocksInOrder`): what
`_raid0_split_io_range` gives a base bdev is what lies there between the first and the
last block (`SplitHolds`), and the base bdevs it goes to are those with a strip in
between (`DisksOfStrips`). What the solver
knows of division is put into `Division` and `Products` once. The assumption
`"concat" \notin Levels` stands for the one level whose sizes are a sum over the base
bdevs, which needs induction.

Model-checked only: liveness (`EveryIoCompletes` and the others of section 4), because
this prover has no rule for fairness with ENABLED; and the split and the mapping of a
concat in `Layout`, whose folds over the base bdevs would need induction. Where a theorem
above assumes that a fault does not happen, nothing is claimed of the runs in which it
does, except what section 4 says of the instances that include it.

## 6. Where the code differs from what it says

One run ends in a counterexample:

* `RaidBdev_two_removals`. `bdev_raid.c:1386` compares the count of base bdevs with
  the minimum before the removals that wait for their quiesce have lowered it: two
  removals at once leave the array online with too few.

The modules have more such steps; the passing runs leave the trigger out, or the
properties leave the I/Os out that met it, because what follows is not what the
code promises.

* `raid5f.c:538-548`: when the submission of a chunk of a reconstruct read fails,
  one chunk of the request, the target, was counted as submitted without an I/O,
  and one part too few is completed. The I/O never ends (`rebuild_submit`).
* `raid5f.c:229`, `:297`: a xor that accel refuses while no other xor of the channel is
  under way is put in the retry queue, and only the end of another xor looks there. The
  accel channel (`:1111`) is the thread's, so other users can have it full. The stripe,
  its I/O and its request then wait for the next xor of the channel that is accepted,
  or for ever (`Stalled`; `StallsOnlyWhenFull` and `EveryIoCompletes` say how far it
  goes).
* `raid5f.c:389`: the retry of a xor whose metadata is under way submits the
  metadata again, and the request is finished twice (`WithMd` with `accel_nomem`).
  A xor whose data part is refused for good while the metadata part is under way
  gives the request back too early (`WithMd` with `accel_submit`).
* `raid5f.c:289`: a retried piece of a xor takes its sources from
  `chunk_xor_buffers`, which another stripe may have set since (`accel_nomem` and
  more than one request; no property about contents in `Raid5f_pools`).
* `raid5f.c:518`: the verification of a direct read uses the base channel of a
  removed base bdev, so a read of any other chunk of a degraded array ends the
  process (`crashed = "null_channel"`; `BdevIo` is about processes that live).
* `raid5f.c:217`: the comparison with the parity is commented out and the rebuilt
  value replaces what was read, though `Readme.md:9` says that a mismatch is noticed.
* `raid5f.c:826`: the I/O is lost when no request is left (`LostAtDirectRead`).
* `bdev_raid.c:1382`, `:1514`: between `raid_bdev_deconfigure` and the end of the
  unregistration a removal or deletion frees the raid bdev, which the unregistration
  still uses (`overlap`).
* `bdev_raid.c:76`: a user that has the raid bdev open can open a channel after the
  state has gone offline, and the assertion fails (`late_channel`).
* `bdev_raid.c:1302`: a channel opened after the iteration over the channels, and
  before the base bdev is closed, keeps the removed base bdev (`base`).
* `bdev_raid.c:1562`: a base bdev that is too small for the superblock is counted
  before it is refused, and the array goes online with it (`Small`, `invalid`).
* `bdev_raid.c:1195`: when the registration fails, an asynchronous module stop is
  overtaken by the deletion (`register_fails` with `AsyncStop`).
* `bdev_raid.c:1367`, `:1381`: a removal returns 0 without ever calling back.
* `bdev_raid.c:1324`: after a quiesce that failed, a base bdev that has gone stays
  open (`quiesce_fails`).
* `bdev_raid.c:431`, `raid0.c:332`, `concat.c:267`: a submission error other than
  ENOMEM completes the I/O while parts of it are under way (`unexpected` in
  `RaidIo`).
* `raid0.c:388`: a base bdev that grows before the others are there makes the resize
  use a descriptor that is NULL (`crashed` in `Layout`).
* `concat.c:230`: a base bdev smaller than a strip gets an I/O of no blocks
  (`Sizes` below `DataOffset + StripSize`).
* `bdev_raid.c:1210` says that deconfiguring changes the state to configuring; the
  code sets offline (1231).
* `vbdev_passthru.c:576`: a write that waited for an `spdk_bdev_io` is compressed
  again, its buffer holding the stream already (`retried` in `Passthru`).
* `vbdev_passthru.c:214`, `:468`: the accelerator contexts are static and shared by
  all threads (`sound`).
* `vbdev_passthru.c:198`, `:219`: a stream that begins with a zero byte is taken for
  data that was never written; zero bytes at its end, or where an iovec ends, are
  taken off it (`head`, `tail`, `seam`).
* `vbdev_passthru.c:267`, `:498`: when the accelerator fails, or the stream does not
  fit, bytes of a length nobody has set are copied (`Undefined`).
* `vbdev_passthru.c:560`: zero copy hands the stream to the user as it is.
* `vbdev_passthru.c:898`: a registration that fails gives back the claim of the
  wrong bdev, and the base bdev stays claimed for good (`lost`).
* `vbdev_passthru.c:922`: a creation that fails leaves its name in the list.
* `hello_bdev.c:265`, `:279`: a chunk that was refused is never written, since a
  queued entry starts at the end of the file; the application waits for ever, as it
  does for an empty file (`refused` and `size = 0` in `Ends`).
* `hello_bdev.c:226`: each failed write closes the channel again (`closes = 2`).
* `hello_bdev.c:121`: the reads of a large file count whether they succeeded or not;
  the file is stored with what the buffer held and the application returns 0
  (`OutputIsInput` says which chunks are right).
* `compression_local_main.c:70`: the result of the initialisation is dropped; the
  context is destroyed twice then (`ignored`).
* `compression_local_main.c:74-77`, `:94-97`, `:99-102`: when a job fails or the
  checksums differ, core returns without `file_compression_cleanup`, and the context
  is never destroyed (`ContextReleasedOnce`).
* `compression_local_main.c:107`, `compression_local.c:506`: the result of the last
  write is dropped; the program reports success with the file of an earlier run, or a
  part of one, as its output (the last disjunct of `OutputIsInput`).
* `compression_local_core.c:475`: each piece of a long file is copied to the start
  of the buffer (`Pieced`); `:535`: the output file is not truncated (`tail`);
  `:258`: the decompression in software expects a header that neither compression
  writes, so it fails (`Inflated`).

## 7. What is not modelled

* In `bdev_raid.c`: JSON output, memory domains, I/O statistics, creation
  parameters that are refused at once. In `raid5f.c`: the memory of a channel's
  pools. Leaks of `spdk_bdev_io`s (`raid5f.c:815`).
* Two raid bdevs, a raid bdev on a raid bdev, and passthru bdevs that are stacked.
  A channel of `RaidIo` or `Raid5f` loses a base bdev in one step, when it is
  quiesced; the chain of callbacks that leads there is in `RaidBdev`.
* In `vbdev_passthru.c`: JSON output, abort as something else than another I/O, and
  the memory that a failed creation leaks.
* In `hello_bdev.c`: zone resets, which no workload reaches, options, time
  measurement.
* In the compression core: `file_compressor`, `file_decompressor`, `doca_compress`
  and `doca_decompress`, which nothing calls; the calls of DOCA and zlib that make
  up one job, whose contracts are not in this repository.
* `ninjatool.py`, scripts, Makefiles.

## 8. What is left

1. Composition of a channel of `RaidIo` with the removal of `RaidBdev`: I/O under
   way, quiesce and channel iteration in one state.
2. Theorems: what is left of raid5f's guarantees with a full accel channel, that is for
   the stripes whose xor was never retried.
3. A passthru bdev on a raid bdev: `Passthru` over the contract of `BdevIo` with
   reads of parts of a stream.
