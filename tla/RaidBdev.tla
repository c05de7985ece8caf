------------------------------ MODULE RaidBdev ------------------------------
(***************************************************************************)
(* The life of one raid bdev (src/raid/bdev_raid.c, the RPCs of             *)
(* src/raid/bdev_raid_rpc.c that drive it, and the start and stop of the    *)
(* raid modules): it is created from base bdevs that may appear later, goes *)
(* online when all of them are open, loses base bdevs, and is taken apart by*)
(* a hot removal, by an RPC or by the shutdown of the bdev layer.           *)
(*                                                                          *)
(* Everything but the raid channels lives on the SPDK app thread; a callback*)
(* is one action.  Between two callbacks the bdev layer quiesces, iterates  *)
(* over the channels and unregisters, and users open and close channels on  *)
(* their own threads.                                                       *)
(***************************************************************************)
EXTENDS Integers, FiniteSets

CONSTANTS
  Slots,           \* the slots of base_bdev_info, each with its base bdev
  Levels,          \* the raid levels looked at
  Threads,         \* the threads users open channels of the raid bdev on
  DeleteRpcs,      \* the bdev_raid_delete calls that may come,
  RemoveRpcs,      \* and the bdev_raid_remove_base_bdev calls
  Small,           \* the base bdevs a superblock's data offset does not fit
  Env,             \* what the environment may do
  None             \* no callback, no slot

EnvKinds ==
  { "overlap",        \* removals and deletions come while another is under way
    "late_channel",   \* users that still have the raid bdev open open channels
                      \* after it has begun to be unregistered
    "claimed",        \* a base bdev can be claimed by somebody else
    "mismatch",       \* the base bdevs do not fit together, or the module does not start
    "register_fails", \* spdk_bdev_register returns an error
    "quiesce_fails",  \* spdk_bdev_quiesce or unquiesce returns or reports an error
    "shutdown" }      \* the bdev layer shuts down

\* raid_bdev_create refuses an array without base bdevs (base_bdevs_min is not 0).
ASSUME SlotAssumption == IsFiniteSet(Slots) /\ Slots # {} /\ None \notin Slots
ASSUME LevelAssumption == Levels \subseteq {"raid5f", "raid1", "raid0", "concat"}
ASSUME RpcAssumption  == /\ DeleteRpcs \cap RemoveRpcs = {}
                         /\ None \notin DeleteRpcs \cup RemoveRpcs
ASSUME EnvAssumption  == /\ Small \subseteq Slots
                         /\ Env \subseteq EnvKinds

VARIABLES
  level,      \* raid_bdev->level
  raid,       \* whether the struct raid_bdev exists
  state,      \* its state,
  discovered, \* num_base_bdevs_discovered,
  destroying, \* and destroy_started
  named,      \* the slots whose name is set,
  open,       \* whose base bdev is open and claimed (desc # NULL),
  scheduled,  \* and whose remove_scheduled is set
  invalid,    \* the open slots without a data region inside their base bdev
  removeCb,   \* base_info->remove_cb_ctx: the RPC that waits for the removal
  removal,    \* where the removal of a base bdev from an online raid bdev is
  locked,     \* the removal the raid bdev is quiesced for
  visited,    \* the threads its channel iteration has been to
  attached,   \* the base bdevs that exist in the bdev layer
  reg,        \* the raid bdev in the bdev layer: not there, registered, being
              \* unregistered, or in its destruct callback
  unregCb,    \* the RPC that waits for the unregistration
  module,     \* the raid module: stopped, started, or closing its io_device
  device,     \* the raid bdev's own io_device
  user,       \* somebody has the raid bdev open
  chans,      \* the threads with a channel of the raid bdev,
  base,       \* and the slots such a channel has a base channel for
  answer,     \* what became of each RPC
  shutdown,   \* g_shutdown_started
  dead        \* how the process died

raidVars  == <<raid, state, discovered, destroying, named, open, scheduled, invalid, removeCb>>
quietVars == <<removal, locked, visited>>
layerVars == <<reg, unregCb, module, device>>
userVars  == <<user, chans, base>>
vars == <<level, raidVars, quietVars, layerVars, userVars, attached, answer, shutdown, dead>>

Rpcs == DeleteRpcs \cup RemoveRpcs

\* min_base_bdevs_operational
MinOperational ==
  CASE level = "raid1"  -> 1
    [] level = "raid5f" -> Cardinality(Slots) - 1
    [] OTHER            -> Cardinality(Slots)

\* module->stop returns false: the module answers later.
AsyncStop == level \in {"raid5f", "raid1"}

-----------------------------------------------------------------------------
(* Pieces of the handlers.                                                  *)

Answer(q, res) == answer' = IF q = None THEN answer ELSE [answer EXCEPT ![q] = res]

\* raid_bdev_free_base_bdev_resource for the slots in S.
MutCountClosed(S) ==
  /\ named' = named \ S /\ open' = open \ S /\ invalid' = invalid \ S
  /\ discovered' = discovered - Cardinality(S)

MutKeepCount(S) ==
  named' = named \ S /\ open' = open \ S /\ invalid' = invalid \ S /\ discovered' = discovered

MutKeepName(S) ==
  /\ named' = named /\ open' = open \ S /\ invalid' = invalid \ S
  /\ discovered' = discovered - Cardinality(S \cap open)

FreeResources(S) ==
  /\ named' = named \ S
  /\ open' = open \ S
  /\ invalid' = invalid \ S
  /\ discovered' = discovered - Cardinality(S \cap open)

Died(how) == dead' = how

\* raid_bdev_cleanup and raid_bdev_free, with the assertions of the first.
CleanupAndFree ==
  /\ raid' = "freed"
  /\ IF state' # "online" /\ open' = {} THEN UNCHANGED dead ELSE Died("assert")

\* The tests for the last base bdev (bdev_raid.c:241, 1382, 1514), for the last
\* one the array can lose (1386), and for those to be closed with the raid bdev
\* (273).
MutNothingOpen(n) == TRUE
NothingOpen(n) == n = 0
MutTooFew      == discovered < MinOperational
TooFew         == discovered = MinOperational
MutToClose     == IF shutdown THEN Slots ELSE {}
ToClose        == IF shutdown THEN Slots ELSE scheduled

\* raid_bdev_deconfigure; the bdev layer refuses to unregister twice.
MutStayOnline(q) ==
  /\ UNCHANGED state
  /\ reg' = "leaving" /\ unregCb' = q /\ Answer(q, "waiting")

MutBackToConfiguring(q) ==
  /\ state' = "configuring"
  /\ reg' = "leaving" /\ unregCb' = q /\ Answer(q, "waiting")

Deconfigure(q) ==
  IF state # "online"
  THEN Answer(q, "ok") /\ UNCHANGED <<state, reg, unregCb>>
  ELSE /\ state' = "offline"
       /\ IF reg = "yes"
          THEN reg' = "leaving" /\ unregCb' = q /\ Answer(q, "waiting")
          ELSE Answer(q, "error") /\ UNCHANGED <<reg, unregCb>>

\* raid_bdev_configure: it fails before or after the module has started, or
\* the raid bdev is registered.
Configure ==
  \/ /\ "mismatch" \in Env
     /\ UNCHANGED <<state, reg, module, device>>
  \/ /\ state' = "online" /\ reg' = "yes" /\ module' = "on" /\ device' = "on"
  \/ /\ "register_fails" \in Env
     /\ module' = IF AsyncStop THEN "closing" ELSE "off"
     /\ UNCHANGED <<state, reg, device>>

\* Callbacks of an earlier raid bdev that have not come yet.
Pending ==
  \/ reg # "no" \/ module = "closing" \/ device = "closing"
  \/ \E i \in Slots : removal[i] # "none"

\* Nothing is under way that a removal or a deletion could run into.
Calm == "overlap" \in Env \/ ~(reg \in {"leaving", "destruct"} \/ module = "closing"
                              \/ \E i \in Slots : removal[i] # "none")

\* A callback that takes the raid bdev as it is; if that has been freed, it
\* reads freed memory.
Callback(pending, A) ==
  /\ pending
  /\ \/ raid = "allocated" /\ A
     \/ /\ raid # "allocated"
        /\ Died("use_after_free")
        /\ UNCHANGED <<raidVars, quietVars, layerVars, userVars, attached, answer, shutdown>>

-----------------------------------------------------------------------------
(* Assembly.                                                                *)

\* rpc_bdev_raid_create: raid_bdev_create, and raid_bdev_add_base_device for
\* each base bdev.  A base bdev that does not exist is waited for; any other
\* error deletes the raid bdev again, whose memory is freed at once.
CreateRaid ==
  /\ raid # "allocated" /\ ~Pending /\ ~shutdown
  /\ named' = Slots /\ open' = attached /\ discovered' = Cardinality(attached)
  /\ attached \cap Small = {}
  /\ raid' = "allocated" /\ destroying' = FALSE /\ scheduled' = {} /\ invalid' = {}
  /\ removeCb' = [i \in Slots |-> None]
  /\ IF attached = Slots
     THEN state' = "online" /\ reg' = "yes" /\ module' = "on" /\ device' = "on"
     ELSE state' = "configuring" /\ UNCHANGED <<reg, module, device>>
  /\ UNCHANGED <<quietVars, unregCb, userVars, attached, answer, shutdown, dead>>

\* The same when adding a base bdev fails: only what the module had started
\* outlives the call.
CreateFails ==
  /\ raid # "allocated" /\ ~Pending /\ ~shutdown
  /\ \/ /\ attached \cap Small # {} \/ "claimed" \in Env
        /\ attached # {}
        /\ UNCHANGED module
     \/ /\ attached = Slots /\ "mismatch" \in Env
        /\ UNCHANGED module
     \/ /\ attached = Slots /\ "register_fails" \in Env
        /\ module' = IF AsyncStop THEN "closing" ELSE "off"
  /\ raid' = "freed"
  /\ UNCHANGED <<state, discovered, destroying, named, open, scheduled, invalid, removeCb,
                 quietVars, reg, unregCb, device, userVars, attached, answer, shutdown, dead>>

\* raid_bdev_configure_base_bdev for slot i of a raid bdev that waits for it.
ConfigureBase(i) ==
  /\ open' = open \cup {i}
  /\ discovered' = discovered + 1
  /\ IF state = "online" THEN Died("assert") ELSE UNCHANGED dead
  /\ IF i \in Small
     THEN invalid' = invalid \cup {i} /\ UNCHANGED <<state, reg, module, device>>
     ELSE /\ UNCHANGED invalid
          /\ IF discovered + 1 = Cardinality(Slots) THEN Configure
             ELSE UNCHANGED <<state, reg, module, device>>

\* A base bdev appears: raid_bdev_examine.
Attach(i) ==
  /\ i \notin attached /\ i \notin open /\ ~shutdown
  /\ attached' = attached \cup {i}
  /\ \/ /\ raid = "allocated" /\ i \in named
        /\ ConfigureBase(i)
     \/ /\ raid # "allocated" \/ i \notin named \/ "claimed" \in Env
        /\ UNCHANGED <<open, discovered, invalid, state, reg, module, device, dead>>
  /\ UNCHANGED <<raid, destroying, named, scheduled, removeCb, quietVars, unregCb,
                 userVars, answer, shutdown>>

-----------------------------------------------------------------------------
(* Removal of a base bdev.                                                  *)

\* raid_bdev_remove_base_bdev for the base bdev of slot i, which is open; the
\* RPC q, or nobody, is to be called back.
RemoveBaseBdev(i, q) ==
  \/ /\ i \in scheduled
     /\ Answer(q, "waiting")
     /\ UNCHANGED <<raidVars, quietVars, layerVars, dead>>
  \/ /\ i \notin scheduled /\ state # "online"
     /\ scheduled' = scheduled \cup {i} /\ removeCb' = [removeCb EXCEPT ![i] = q]
     /\ FreeResources({i})
     /\ UNCHANGED state
     /\ IF NothingOpen(discovered') THEN CleanupAndFree ELSE UNCHANGED <<raid, dead>>
     /\ Answer(q, "waiting")
     /\ UNCHANGED <<destroying, quietVars, layerVars>>
  \/ /\ i \notin scheduled /\ state = "online" /\ TooFew
     /\ scheduled' = scheduled \cup {i} /\ removeCb' = [removeCb EXCEPT ![i] = q]
     /\ Deconfigure(q)
     /\ UNCHANGED <<raid, discovered, destroying, named, open, invalid, quietVars,
                    module, device, dead>>
  \/ /\ i \notin scheduled /\ state = "online" /\ ~TooFew
     /\ removeCb' = [removeCb EXCEPT ![i] = q]
     /\ Answer(q, "waiting")
     /\ \/ /\ scheduled' = scheduled \cup {i}
           /\ removal' = [removal EXCEPT ![i] = "quiesce"]
        \/ /\ "quiesce_fails" \in Env
           /\ UNCHANGED <<scheduled, removal>>
     /\ UNCHANGED <<raid, state, discovered, destroying, named, open, invalid,
                    locked, visited, layerVars, dead>>

\* SPDK_BDEV_EVENT_REMOVE for the base bdev of slot i, if it is open here.
BaseGoes(i) ==
  /\ i \in attached
  /\ attached' = attached \ {i}
  /\ \/ /\ raid = "allocated" /\ i \in open
        /\ RemoveBaseBdev(i, None)
     \/ /\ raid # "allocated" \/ i \notin open
        /\ UNCHANGED <<raidVars, quietVars, layerVars, answer, dead>>
  /\ UNCHANGED <<userVars, shutdown>>

HotRemove(i) == ~shutdown /\ Calm /\ BaseGoes(i)

\* rpc_bdev_raid_remove_base_bdev
RemoveRpc(q, i) ==
  /\ answer[q] = "new" /\ ~shutdown /\ Calm
  /\ \/ /\ i \in attached /\ raid = "allocated" /\ i \in open
        /\ RemoveBaseBdev(i, q)
     \/ /\ ~(i \in attached /\ raid = "allocated" /\ i \in open)
        /\ Answer(q, "error")
        /\ UNCHANGED <<raidVars, quietVars, layerVars, dead>>
  /\ UNCHANGED <<userVars, attached, shutdown>>

\* The two ends of raid_bdev_remove_base_bdev_on_quiesced.
Iterate(i) ==
  /\ removal' = [removal EXCEPT ![i] = "visit"]
  /\ locked' = i /\ visited' = {}

MutNotQuiesced(i) == Iterate(i) /\ scheduled' = scheduled \ {i} /\ Answer(removeCb[i], "error")

NotQuiesced(i) ==
  /\ removal' = [removal EXCEPT ![i] = "none"]
  /\ scheduled' = scheduled \ {i}
  /\ Answer(removeCb[i], "error")
  /\ UNCHANGED <<locked, visited>>

\* raid_bdev_remove_base_bdev_on_quiesced; one quiesce of the whole raid bdev
\* waits for the other.
Quiesced(i) ==
  /\ Callback(removal[i] = "quiesce" /\ locked = None,
       \/ /\ Iterate(i)
          /\ UNCHANGED <<raidVars, layerVars, userVars, attached, answer, shutdown, dead>>
       \/ /\ "quiesce_fails" \in Env
          /\ NotQuiesced(i)
          /\ UNCHANGED <<raid, state, discovered, destroying, named, open, invalid, removeCb,
                         layerVars, userVars, attached, shutdown, dead>>)

\* raid_bdev_channel_remove_base_bdev on thread t.
VisitChannel(i, t) ==
  /\ Callback(removal[i] = "visit" /\ t \notin visited,
       /\ visited' = visited \cup {t}
       /\ base' = [base EXCEPT ![t] = @ \ {i}]
       /\ UNCHANGED <<raidVars, removal, locked, layerVars, user, chans, attached, answer,
                      shutdown, dead>>)

MutNotUnquiesced(i) ==
  /\ removal[i] = "visit" /\ Threads \subseteq visited
  /\ removal' = [removal EXCEPT ![i] = "none"]
  /\ UNCHANGED <<raidVars, locked, visited, layerVars, userVars, attached, answer, shutdown, dead>>

\* raid_bdev_channels_remove_base_bdev_done; the iteration ends early when the
\* io_device is being unregistered.
ChannelsVisited(i) ==
  /\ Callback(removal[i] = "visit" /\ (Threads \subseteq visited \/ device # "on"),
       /\ removal' = [removal EXCEPT ![i] = "unquiesce"]
       /\ locked' = None
       /\ UNCHANGED <<raidVars, visited, layerVars, userVars, attached, answer, shutdown, dead>>)

\* raid_bdev_remove_base_bdev_on_unquiesced
Unquiesced(i) ==
  /\ Callback(removal[i] = "unquiesce",
       /\ removal' = [removal EXCEPT ![i] = "none"]
       /\ scheduled' = scheduled \ {i}
       /\ \/ FreeResources({i}) /\ Answer(removeCb[i], "ok")
          \/ /\ "quiesce_fails" \in Env
             /\ Answer(removeCb[i], "error")
             /\ UNCHANGED <<named, open, invalid, discovered>>
       /\ UNCHANGED <<raid, state, destroying, removeCb, locked, visited, layerVars, userVars,
                      attached, shutdown, dead>>)

-----------------------------------------------------------------------------
(* Deletion.                                                                *)

\* rpc_bdev_raid_delete and raid_bdev_delete.
DeleteRpc(q) ==
  /\ answer[q] = "new" /\ ~shutdown /\ Calm
  /\ \/ /\ raid # "allocated" \/ destroying
        /\ Answer(q, "error")
        /\ UNCHANGED <<raidVars, layerVars, dead>>
     \/ /\ raid = "allocated" /\ ~destroying
        /\ destroying' = TRUE /\ scheduled' = Slots
        /\ \/ /\ state # "online"
              /\ FreeResources(Slots) /\ UNCHANGED state
              /\ CleanupAndFree /\ Answer(q, "ok")
              /\ UNCHANGED <<removeCb, layerVars>>
           \/ /\ state = "online"
              /\ Deconfigure(q)
              /\ UNCHANGED <<raid, discovered, named, open, invalid, removeCb, module, device, dead>>
  /\ UNCHANGED <<quietVars, userVars, attached, shutdown>>

\* raid_bdev_module_stop_done, for a raid bdev in state st.
MutStopDone(st) == device' = IF st = "configuring" THEN "closing" ELSE device
StopDone(st)    == device' = IF st = "configuring" THEN device ELSE "closing"

\* _raid_bdev_destruct: the last user has closed the raid bdev, and what was
\* quiescing it has ended.
Destruct ==
  /\ \A i \in Slots : removal[i] = "none"
  /\ Callback(reg = "leaving" /\ ~user,
       /\ reg' = "destruct"
       /\ FreeResources(ToClose)
       /\ state' = IF shutdown THEN "offline" ELSE state
       /\ \/ AsyncStop /\ module' = "closing" /\ UNCHANGED device
          \/ ~AsyncStop /\ module' = "off" /\ StopDone(state')
       /\ UNCHANGED <<raid, destroying, scheduled, removeCb, quietVars, unregCb, userVars,
                      attached, answer, shutdown, dead>>)

\* raid5f_io_device_unregister_done, or that of raid1.
ModuleStopped ==
  Callback(module = "closing" /\ chans = {},
    /\ module' = "off"
    /\ StopDone(state)
    /\ UNCHANGED <<raidVars, quietVars, reg, unregCb, userVars, attached, answer, shutdown, dead>>)

\* raid_bdev_io_device_unregister_cb
DeviceGone ==
  Callback(device = "closing" /\ chans = {},
    /\ device' = "off" /\ reg' = "no" /\ unregCb' = None
    /\ Answer(unregCb, "ok")
    /\ UNCHANGED <<state, open>>
    /\ IF NothingOpen(discovered) THEN CleanupAndFree ELSE UNCHANGED <<raid, dead>>
    /\ UNCHANGED <<discovered, destroying, named, scheduled, invalid, removeCb, quietVars,
                   module, userVars, attached, shutdown>>)

-----------------------------------------------------------------------------
(* Users and shutdown.                                                      *)

OpenRaid ==
  /\ reg = "yes" /\ ~user
  /\ user' = TRUE
  /\ UNCHANGED <<raidVars, quietVars, layerVars, chans, base, attached, answer, shutdown, dead>>

CloseRaid ==
  /\ user /\ chans = {}
  /\ user' = FALSE
  /\ UNCHANGED <<raidVars, quietVars, layerVars, chans, base, attached, answer, shutdown, dead>>

\* raid_bdev_create_cb
OpenChannel(t) ==
  Callback(user /\ t \notin chans /\ (reg = "yes" \/ (reg = "leaving" /\ "late_channel" \in Env)),
    /\ IF state = "online" THEN UNCHANGED dead ELSE Died("assert")
    /\ chans' = chans \cup {t}
    /\ base' = [base EXCEPT ![t] = open]
    /\ UNCHANGED <<raidVars, quietVars, layerVars, user, attached, answer, shutdown>>)

\* raid_bdev_destroy_cb
CloseChannel(t) ==
  /\ t \in chans
  /\ chans' = chans \ {t}
  /\ base' = [base EXCEPT ![t] = {}]
  /\ UNCHANGED <<raidVars, quietVars, layerVars, user, attached, answer, shutdown, dead>>

\* raid_bdev_fini_start
FiniStart ==
  /\ "shutdown" \in Env /\ ~shutdown
  /\ shutdown' = TRUE
  /\ UNCHANGED <<raidVars, quietVars, layerVars, userVars, attached, answer, dead>>

\* Then the bdev layer unregisters the bdevs, those nobody has claimed first,
LayerUnregisters ==
  /\ shutdown /\ reg = "yes"
  /\ reg' = "leaving" /\ unregCb' = None
  /\ UNCHANGED <<raidVars, quietVars, module, device, userVars, attached, answer, shutdown, dead>>

LayerRemoves(i) == shutdown /\ reg = "no" /\ BaseGoes(i)

\* and, when the last one is gone - which it is not while somebody has it open -
\* ends the raid module: raid_bdev_exit.
ModuleExit ==
  /\ shutdown /\ reg = "no" /\ attached \cup open = {} /\ raid = "allocated"
  /\ UNCHANGED <<state, open>>
  /\ CleanupAndFree
  /\ UNCHANGED <<discovered, destroying, named, scheduled, invalid, removeCb, quietVars,
                 layerVars, userVars, attached, answer, shutdown>>

-----------------------------------------------------------------------------

\* No raid bdev, and some of the base bdevs.
Init ==
  /\ level \in Levels
  /\ raid = "freed" /\ state = "configuring" /\ discovered = 0 /\ destroying = FALSE
  /\ named = {} /\ open = {} /\ scheduled = {} /\ invalid = {}
  /\ removeCb = [i \in Slots |-> None]
  /\ removal = [i \in Slots |-> "none"] /\ locked = None /\ visited = {}
  /\ attached \in SUBSET Slots
  /\ reg = "no" /\ unregCb = None /\ module = "off" /\ device = "off"
  /\ user = FALSE /\ chans = {} /\ base = [t \in Threads |-> {}]
  /\ answer = [q \in Rpcs |-> "new"]
  /\ shutdown = FALSE /\ dead = "no"

\* The next callback of what is under way in the bdev layer.
Progress ==
  \/ \E i \in Slots : \/ Quiesced(i) \/ ChannelsVisited(i) \/ Unquiesced(i)
                      \/ \E t \in Threads : VisitChannel(i, t)
  \/ Destruct \/ ModuleStopped \/ DeviceGone

UserLeaves == CloseRaid \/ \E t \in Threads : CloseChannel(t)

Finish == LayerUnregisters \/ ModuleExit \/ \E i \in Slots : LayerRemoves(i)

Next ==
  /\ dead = "no" /\ UNCHANGED level
  /\ \/ CreateRaid \/ CreateFails
     \/ \E i \in Slots : Attach(i) \/ HotRemove(i) \/ \E q \in RemoveRpcs : RemoveRpc(q, i)
     \/ \E q \in DeleteRpcs : DeleteRpc(q)
     \/ OpenRaid \/ \E t \in Threads : OpenChannel(t)
     \/ FiniStart
     \/ Progress \/ UserLeaves \/ Finish

Spec == Init /\ [][Next]_vars

\* The bdev layer keeps calling back, and goes on with a shutdown it has begun;
\* users close a raid bdev they are told is going away.
Alive(A) == dead = "no" /\ A /\ UNCHANGED level

Fairness ==
  /\ WF_vars(Alive(Progress)) /\ WF_vars(Alive(Finish))
  /\ WF_vars(Alive(reg = "leaving" /\ UserLeaves))

FairSpec == Spec /\ Fairness

-----------------------------------------------------------------------------
(* Properties.                                                              *)

Outcomes == {"new", "waiting", "ok", "error"}

TypeOK ==
  /\ level \in Levels
  /\ raid \in {"allocated", "freed"} /\ state \in {"configuring", "online", "offline"}
  /\ discovered \in 0 .. Cardinality(Slots) /\ destroying \in BOOLEAN
  /\ named \subseteq Slots /\ open \subseteq Slots
  /\ scheduled \subseteq Slots /\ invalid \subseteq Slots
  /\ removeCb \in [Slots -> RemoveRpcs \cup {None}]
  /\ removal \in [Slots -> {"none", "quiesce", "visit", "unquiesce"}]
  /\ locked \in Slots \cup {None} /\ visited \subseteq Threads
  /\ attached \subseteq Slots
  /\ reg \in {"no", "yes", "leaving", "destruct"} /\ unregCb \in Rpcs \cup {None}
  /\ module \in {"off", "on", "closing"} /\ device \in {"off", "on", "closing"}
  /\ user \in BOOLEAN /\ chans \subseteq Threads /\ base \in [Threads -> SUBSET Slots]
  /\ answer \in [Rpcs -> Outcomes] /\ shutdown \in BOOLEAN
  /\ dead \in {"no", "assert", "use_after_free"}

\* num_base_bdevs_discovered is the number of base bdevs the raid bdev has open
\* (bdev_raid.c:233 and 1562 maintain it on all paths), so the decisions
\* taken on it - go online, give up, free the memory - see the real number.
DiscoveredCountsOpen == discovered = Cardinality(open)

\* An online raid bdev waits for no base bdev: each slot that has a name has its
\* base bdev open, so raid_bdev_examine never adds one to a running array
\* (bdev_raid.c:1556 asserts it).
OnlineIsAssembled == raid = "allocated" /\ state = "online" => named = open

\* What has been freed is known to nobody: no base bdev is left claimed, nothing
\* of it is registered or about to be called back, and no channel is left.
FreedIsForgotten == raid = "freed" => open = {} /\ chans = {} /\ ~user /\ ~Pending

\* An online raid bdev has the base bdevs it needs.
OnlineIsOperational == raid = "allocated" /\ state = "online" => discovered >= MinOperational

\* The raid bdev is quiesced for a removal that is under way, and for one only:
\* I/O is let through again on each path of the removal.
QuiescedForRemoval ==
  /\ locked # None => removal[locked] = "visit"
  /\ \A i \in Slots : removal[i] = "visit" => locked = i

\* No assertion of bdev_raid.c fails and no freed raid bdev is used.
Survives == dead = "no"

\* An RPC is answered at most once: the request is freed with its answer.
AnsweredOnce ==
  [][\A q \in Rpcs : answer[q] \in {"ok", "error"} => answer'[q] = answer[q]]_vars

\* A raid bdev only comes up from configuring and only goes down to offline.
StateOrder ==
  [][raid = "allocated" /\ raid' = "allocated" /\ state' # state =>
       <<state, state'>> \in {<<"configuring", "online">>, <<"online", "offline">>}]_vars

\* bdev_raid_delete is answered with success when the raid bdev is gone and its
\* base bdevs are free for others.
DeleteReleases ==
  [][\A q \in DeleteRpcs : answer'[q] = "ok" /\ answer[q] # "ok" =>
       raid' = "freed" /\ open' = {} /\ reg' = "no"]_vars

\* A raid bdev that is deleted or shut down ends, if its users let go of it, and
\* whoever deletes it is answered.
TeardownEnds ==
  /\ \A q \in DeleteRpcs : answer[q] = "waiting" ~> answer[q] \in {"ok", "error"}
  /\ shutdown ~> raid = "freed"

\* A removal holds I/O back for a while only.  bdev_raid.h:71 "this flag will be
\* set and later after doing some processing, base device descriptor will be
\* closed": a base bdev that has gone is closed, which is what the hot removal of
\* it waits for.
RemovalEnds ==
  /\ locked # None ~> locked = None
  /\ \A i \in Slots : raid = "allocated" /\ i \in open \ attached ~> i \notin open

-----------------------------------------------------------------------------
(* What the repository says of this code and the code does not do.          *)

\* bdev_raid.h:148 "minimum number of viable base bdevs that are required by
\* array to operate"; bdev_raid.c:1386 gives the array up "after this base bdev
\* is removed there will not be enough base bdevs to keep the raid bdev
\* operational".
KeepsOperational == OnlineIsOperational

=============================================================================
