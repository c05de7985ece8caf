----------------------------- MODULE PassthruBdev -----------------------------
(***************************************************************************)
(* How a compressing passthru bdev comes and goes                           *)
(* (src/bdev-passthru-compress/passthru/vbdev_passthru.c and                *)
(* vbdev_passthru_rpc.c): creation and deletion by RPC, the list of names   *)
(* that waits for base bdevs to show up, the claim of the base bdev, and    *)
(* the removal of a base bdev that is in use.                               *)
(*                                                                          *)
(* A base bdev that is taken away and comes back under its old name is      *)
(* another spdk_bdev: Bases holds all that ever exist.  The bdev layer is   *)
(* external: it forgets the name of a bdev that is unregistered, tells its  *)
(* users, waits until they have closed it, and destructs it.                *)
(***************************************************************************)
EXTENDS Integers, Sequences, FiniteSets

CONSTANTS
  None,
  Names,    \* the names of passthru bdevs
  Bases,    \* the base bdevs, each registered once
  NameOf,   \* their names
  Deletes,  \* the RPCs delete_ext_passthru_bdev
  Faults    \* what may go wrong

FaultKinds ==
  { "memory",    \* an allocation fails
    "register",  \* spdk_bdev_register refuses the passthru bdev
    "claim" }    \* another module claims a base bdev

ASSUME NameAssumption  == DOMAIN NameOf = Bases
ASSUME FaultAssumption == Faults \subseteq FaultKinds

VARIABLES
  names,    \* g_bdev_names
  nodes,    \* g_pt_nodes, and the nodes whose unregistration is under way
  base,     \* the base bdevs in the bdev layer
  claim,    \* who has claimed each of them
  events,   \* SPDK_BDEV_EVENT_REMOVE not yet delivered
  closing,  \* base bdevs that a message will close, after a destruct on another thread
  rpc,      \* the deletions
  up,       \* the bdev layer is not shutting down
  deleted,  \* history: names deleted and not created since
  lost      \* history: base bdevs that a passthru bdev failed to be registered on

vars == <<names, nodes, base, claim, events, closing, rpc, up, deleted, lost>>

\* A node: its base bdev, its name, the state of its pt_bdev, whether a user has
\* opened it, and the deletion that waits for it.
NodeRecord ==
  [x : Bases, v : Names, st : {"registered", "unregistering"}, opened : BOOLEAN,
   cb : Deletes \cup {None}]

Registered  == {n \in nodes : n.st = "registered"}
BaseNames   == {NameOf[x] : x \in Bases}
Found(name) == {x \in Bases : base[x] = "present" /\ NameOf[x] = name}

-----------------------------------------------------------------------------
(* vbdev_passthru_register                                                  *)

\* spdk_bdev_open_ext for writing: -EPERM for a bdev that is claimed.
Opens(x) == claim[x] = "none"

\* spdk_bdev_register.  A bdev that is being unregistered keeps its name while a
\* user has it open, and may still have it afterwards.
NameFree(v)  == \A n \in nodes : n.v = v => n.st = "unregistering" /\ ~n.opened
NameTaken(v) == \E n \in nodes : n.v = v

\* A node is made.  When its registration fails, the claim that is given back is
\* that of the passthru bdev, and the base bdev stays claimed.
Attach(x, v) ==
  /\ claim' = [claim EXCEPT ![x] = "passthru"]
  /\ \/ /\ NameFree(v)
        /\ nodes' = nodes \cup {[x |-> x, v |-> v, st |-> "registered", opened |-> FALSE, cb |-> None]}
        /\ UNCHANGED lost
     \/ /\ NameTaken(v) \/ "register" \in Faults
        /\ lost' = lost \cup {x}
        /\ UNCHANGED nodes

\* The loop over the names that go with base bdev name: the first of them is
\* attached, and the others find the base bdev claimed, which ends the loop.
Fit(list, name) == {k \in DOMAIN list : list[k].base = name}

Register(list, name, present) ==
  \/ \E k \in Fit(list, name), x \in present :
       /\ \A j \in Fit(list, name) : k <= j
       /\ Opens(x) /\ Attach(x, list[k].v)
  \/ /\ Fit(list, name) = {} \/ (\A x \in present : ~Opens(x)) \/ "memory" \in Faults
     /\ UNCHANGED <<nodes, claim, lost>>

-----------------------------------------------------------------------------
(* The RPCs.                                                                *)

\* rpc_bdev_passthru_create: the name stays in the list whether the base bdev is
\* there, can be opened, or not.
Create(v, name) ==
  /\ up /\ \A k \in DOMAIN names : names[k].v # v
  /\ names' = Append(names, [v |-> v, base |-> name])
  /\ Register(names', name, Found(name))
  /\ deleted' = deleted \ {v}
  /\ UNCHANGED <<base, events, closing, rpc, up>>

\* spdk_bdev_unregister of a node that is registered; d: who waits for it.
Unregister(n, d) == nodes' = (nodes \ {n}) \cup {[n EXCEPT !.st = "unregistering", !.cb = d]}

\* The names in the list differ, so that the loop stops at the only one that is v.
Without(list, k) == SubSeq(list, 1, k - 1) \o SubSeq(list, k + 1, Len(list))

MutForget(list, v) ==
  IF \E k \in DOMAIN list : list[k].v = v /\ Found(list[k].base) # {}
  THEN Without(list, CHOOSE k \in DOMAIN list : list[k].v = v) ELSE list

Forget(list, v) ==
  IF \E k \in DOMAIN list : list[k].v = v
  THEN Without(list, CHOOSE k \in DOMAIN list : list[k].v = v) ELSE list

\* rpc_bdev_passthru_delete of the bdev that spdk_bdev_get_by_name finds.  The
\* association goes first, also when a removal of the base bdev has come before
\* and the bdev layer answers -EBUSY.
Delete(d, n) ==
  /\ up /\ rpc[d] = "idle"
  /\ \A m \in Registered : m.v = n.v => m = n
  /\ names' = Forget(names, n.v)
  /\ deleted' = deleted \cup {n.v}
  /\ IF n.st = "registered" THEN Unregister(n, d) /\ rpc' = [rpc EXCEPT ![d] = "waits"]
     ELSE rpc' = [rpc EXCEPT ![d] = "failed"] /\ UNCHANGED nodes
  /\ UNCHANGED <<base, claim, events, closing, up, lost>>

\* ... of a bdev that is not there, or is not a passthru bdev.
DeleteOther(d, v) ==
  /\ up /\ rpc[d] = "idle" /\ NameFree(v)
  /\ rpc' = [rpc EXCEPT ![d] = "failed"]
  /\ UNCHANGED <<names, nodes, base, claim, events, closing, up, deleted, lost>>

-----------------------------------------------------------------------------
(* Removal.                                                                 *)

\* vbdev_passthru_base_bdev_hotremove_cb: the nodes on x that nobody unregisters
\* yet.
MutToUnregister(x) == {n \in Registered : n.x = x /\ ~n.opened}
ToUnregister(x)    == {n \in Registered : n.x = x}

RemoveEvent(x) ==
  /\ x \in events
  /\ events' = events \ {x}
  /\ nodes' = (nodes \ ToUnregister(x)) \cup {[n EXCEPT !.st = "unregistering"] : n \in ToUnregister(x)}
  /\ UNCHANGED <<names, base, claim, closing, rpc, up, deleted, lost>>

\* vbdev_passthru_destruct, when the last user has closed the pt_bdev, and the
\* callback of the deletion.  The base bdev is closed at once, or by a message to
\* the thread that has opened it.
MutRelease(n) == [claim EXCEPT ![n.x] = IF base[n.x] = "present" THEN "none" ELSE @]
Release(n)    == [claim EXCEPT ![n.x] = "none"]

Destruct(n) ==
  /\ n.st = "unregistering" /\ ~n.opened
  /\ nodes' = nodes \ {n}
  /\ claim' = Release(n)
  /\ closing' \in {closing, closing \cup {n.x}}
  /\ rpc' = IF n.cb = None THEN rpc ELSE [rpc EXCEPT ![n.cb] = "done"]
  /\ UNCHANGED <<names, base, events, up, deleted, lost>>

\* _vbdev_passthru_destruct
CloseBase(x) ==
  /\ x \in closing
  /\ closing' = closing \ {x}
  /\ UNCHANGED <<names, nodes, base, claim, events, rpc, up, deleted, lost>>

-----------------------------------------------------------------------------
(* The bdev layer and the users of the bdevs.                               *)

\* A base bdev is registered: vbdev_passthru_examine.
Appear(x) ==
  /\ up /\ base[x] = "absent" /\ Found(NameOf[x]) = {}
  /\ base' = [base EXCEPT ![x] = "present"]
  /\ Register(names, NameOf[x], {x})
  /\ UNCHANGED <<names, events, closing, rpc, up, deleted>>

\* A base bdev is unregistered: its users are told.
Vanish(x) ==
  /\ base[x] = "present"
  /\ base' = [base EXCEPT ![x] = "removing"]
  /\ events' = IF \E n \in nodes : n.x = x THEN events \cup {x} ELSE events
  /\ UNCHANGED <<names, nodes, claim, closing, rpc, up, deleted, lost>>

\* ... and it is destructed when nobody has it open any more.
Gone(x) ==
  /\ base[x] = "removing" /\ x \notin closing /\ \A n \in nodes : n.x # x
  /\ base' = [base EXCEPT ![x] = "gone"]
  /\ UNCHANGED <<names, nodes, claim, events, closing, rpc, up, deleted, lost>>

Claim(x) ==
  /\ "claim" \in Faults /\ base[x] = "present"
  /\ \/ claim[x] = "none" /\ claim' = [claim EXCEPT ![x] = "other"]
     \/ claim[x] = "other" /\ claim' = [claim EXCEPT ![x] = "none"]
  /\ UNCHANGED <<names, nodes, base, events, closing, rpc, up, deleted, lost>>

OpenNode(n) ==
  /\ n.st = "registered" /\ ~n.opened
  /\ nodes' = (nodes \ {n}) \cup {[n EXCEPT !.opened = TRUE]}
  /\ UNCHANGED <<names, base, claim, events, closing, rpc, up, deleted, lost>>

CloseNode(n) ==
  /\ n.opened
  /\ nodes' = (nodes \ {n}) \cup {[n EXCEPT !.opened = FALSE]}
  /\ UNCHANGED <<names, base, claim, events, closing, rpc, up, deleted, lost>>

\* The bdev layer shuts down: it unregisters the passthru bdevs, and then calls
\* vbdev_passthru_finish.
Shutdown ==
  /\ up
  /\ up' = FALSE
  /\ UNCHANGED <<names, nodes, base, claim, events, closing, rpc, deleted, lost>>

ShutdownNode(n) ==
  /\ ~up /\ n.st = "registered"
  /\ Unregister(n, None)
  /\ UNCHANGED <<names, base, claim, events, closing, rpc, up, deleted, lost>>

Finish ==
  /\ ~up /\ nodes = {} /\ names # << >>
  /\ names' = << >>
  /\ UNCHANGED <<nodes, base, claim, events, closing, rpc, up, deleted, lost>>

Init ==
  /\ names = << >> /\ nodes = {}
  /\ base = [x \in Bases |-> "absent"] /\ claim = [x \in Bases |-> "none"]
  /\ events = {} /\ closing = {}
  /\ rpc = [d \in Deletes |-> "idle"]
  /\ up = TRUE
  /\ deleted = {} /\ lost = {}

\* What the module and the bdev layer do by themselves, and a user who closes a
\* bdev that is being unregistered.
Progress ==
  \/ \E x \in Bases : RemoveEvent(x) \/ CloseBase(x) \/ Gone(x)
  \/ \E n \in nodes : Destruct(n) \/ (n.st = "unregistering" /\ CloseNode(n)) \/ ShutdownNode(n)
  \/ Finish

Next ==
  \/ Progress
  \/ \E v \in Names :
       \/ \E name \in BaseNames : Create(v, name)
       \/ \E d \in Deletes : DeleteOther(d, v)
  \/ \E n \in nodes : OpenNode(n) \/ CloseNode(n) \/ \E d \in Deletes : Delete(d, n)
  \/ \E x \in Bases : Appear(x) \/ Vanish(x) \/ Claim(x)
  \/ Shutdown

Spec == Init /\ [][Next]_vars

\* The parts of Progress concern different nodes and base bdevs, and each comes
\* to its end although others go on.
FairSpec ==
  /\ Spec /\ WF_vars(Finish)
  /\ \A x \in Bases :
       /\ WF_vars(RemoveEvent(x)) /\ WF_vars(CloseBase(x)) /\ WF_vars(Gone(x))
       /\ WF_vars(\E n \in nodes : n.x = x /\ (Destruct(n) \/ (n.st = "unregistering" /\ CloseNode(n))
                                                 \/ ShutdownNode(n)))

-----------------------------------------------------------------------------
(* Properties.                                                              *)

TypeOK ==
  /\ names \in Seq([v : Names, base : BaseNames])
  /\ nodes \subseteq NodeRecord
  /\ base \in [Bases -> {"absent", "present", "removing", "gone"}]
  /\ claim \in [Bases -> {"none", "passthru", "other"}]
  /\ events \subseteq Bases /\ closing \subseteq Bases
  /\ rpc \in [Deletes -> {"idle", "waits", "done", "failed"}]
  /\ up \in BOOLEAN /\ deleted \subseteq Names /\ lost \subseteq Bases

\* "Unclaim the underlying bdev" (vbdev_passthru.c:144): a base bdev the module
\* has claimed has one node, which will give the claim back - or a registration on
\* it has failed, and then it stays claimed for good with no node ever again,
\* because vbdev_passthru.c:898 gives back another bdev's claim.
ClaimIsOwned ==
  \A x \in Bases :
    /\ Cardinality({n \in nodes : n.x = x}) =
         IF claim[x] = "passthru" /\ x \notin lost THEN 1 ELSE 0
    /\ x \in lost => claim[x] = "passthru"

\* vbdev_passthru.c:953-955: a bdev that was deleted is not "re-created if the
\* same bdev is constructed at some other time", also when its deletion crosses
\* the removal of the base bdev, unless it is created again.
DeletedStaysAway == \A n \in Registered : n.v \notin deleted

\* A base bdev that is removed is closed by the passthru bdev on top of it, and
\* goes; a deletion is answered.
RemovalEnds ==
  /\ \A x \in Bases : base[x] = "removing" ~> base[x] = "gone"
  /\ \A d \in Deletes : rpc[d] = "waits" ~> rpc[d] = "done"

=============================================================================
