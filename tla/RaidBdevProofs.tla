--------------------------- MODULE RaidBdevProofs ---------------------------
(* Proofs about RaidBdev, for any number of slots, threads and RPCs. In any *)
(* environment: the types, the count of the open base bdevs, that an online   *)
(* raid bdev is assembled, whom a quiesce belongs to and what RPCs are        *)
(* answered. In an orderly one: that no assertion fails, that an online array *)
(* keeps the base bdevs it needs, and that nothing is left of a freed one.    *)
EXTENDS RaidBdev, FiniteSetTheorems, TLAPS

\* Inductive: OnlineIsAssembled needs that an open base bdev has a name, since
\* the last base bdev that opens makes the raid bdev go online; and a raid bdev
\* that is going down is still assembled, since it never was configuring while
\* the bdev layer knew it.
NamedBeforeOpen == raid = "allocated" => open \subseteq named
StaysAssembled  == raid = "allocated" /\ state # "configuring" => named = open
RegisteredWasUp == raid = "allocated" /\ reg # "no" => state # "configuring"

IInv ==
  /\ TypeOK
  /\ DiscoveredCountsOpen
  /\ NamedBeforeOpen
  /\ StaysAssembled
  /\ RegisteredWasUp

-----------------------------------------------------------------------------

\* raid_bdev_free_base_bdev_resource keeps the count and the names in step
\* with the open base bdevs.
LEMMA FreeKeepsCount ==
  ASSUME TypeOK, DiscoveredCountsOpen, NEW S, FreeResources(S)
  PROVE  /\ named' = named \ S /\ open' = open \ S
         /\ named' \subseteq Slots /\ open' \subseteq Slots /\ invalid' \subseteq Slots
         /\ discovered' = Cardinality(open')
         /\ discovered' \in 0 .. Cardinality(Slots)
<1>1. IsFiniteSet(Slots) BY SlotAssumption
<1>2. open \subseteq Slots /\ named \subseteq Slots /\ invalid \subseteq Slots BY DEF TypeOK
<1>3. IsFiniteSet(open) BY <1>1, <1>2, FS_Subset
<1>4. open' = open \ S /\ named' = named \ S /\ invalid' = invalid \ S
      /\ discovered' = discovered - Cardinality(S \cap open)
  BY DEF FreeResources
<1>5. open \cap S = S \cap open OBVIOUS
<1>6. Cardinality(open \ S) = Cardinality(open) - Cardinality(S \cap open)
  BY <1>3, <1>5, FS_Difference
<1>7. discovered' = Cardinality(open') BY <1>4, <1>6 DEF DiscoveredCountsOpen
<1>8. open' \in SUBSET Slots BY <1>2, <1>4
<1>9. IsFiniteSet(open') /\ Cardinality(open') <= Cardinality(Slots)
  BY <1>1, <1>8, FS_Subset
<1>10. Cardinality(open') \in Nat /\ Cardinality(Slots) \in Nat
  BY <1>1, <1>9, FS_CardinalityType
<1>11. discovered' \in 0 .. Cardinality(Slots) BY <1>7, <1>9, <1>10
<1>12. QED BY <1>2, <1>4, <1>7, <1>11

\* raid_bdev_configure_base_bdev counts the base bdev it opens, and the last
\* one completes the set.
LEMMA OpenKeepsCount ==
  ASSUME TypeOK, DiscoveredCountsOpen, NEW i \in Slots, i \notin open
  PROVE  /\ discovered + 1 = Cardinality(open \cup {i})
         /\ discovered + 1 \in 0 .. Cardinality(Slots)
         /\ discovered + 1 = Cardinality(Slots) => open \cup {i} = Slots
<1>1. IsFiniteSet(Slots) BY SlotAssumption
<1>2. open \in SUBSET Slots /\ open \cup {i} \in SUBSET Slots BY DEF TypeOK
<1>3. IsFiniteSet(open) BY <1>1, <1>2, FS_Subset
<1>4. Cardinality(open \cup {i}) = Cardinality(open) + 1 BY <1>3, FS_AddElement
<1>5. /\ Cardinality(open \cup {i}) <= Cardinality(Slots)
      /\ Cardinality(Slots) = Cardinality(open \cup {i}) => Slots = open \cup {i}
  BY <1>1, <1>2, FS_Subset
<1>6. Cardinality(Slots) \in Nat /\ Cardinality(open) \in Nat
  BY <1>1, <1>3, FS_CardinalityType
<1>7. discovered + 1 = Cardinality(open \cup {i}) BY <1>4 DEF DiscoveredCountsOpen
<1>8. QED BY <1>4, <1>5, <1>6, <1>7

\* The program starts without a raid bdev: raid_bdev_create has not been called.
LEMMA InitIInv == Init => IInv
<1> SUFFICES ASSUME Init PROVE IInv OBVIOUS
<1>1. Cardinality({}) = 0 BY FS_EmptySet
<1>2. Cardinality(Slots) \in Nat BY SlotAssumption, FS_CardinalityType
<1>3. discovered \in 0 .. Cardinality(Slots) BY <1>2 DEF Init
<1>4. /\ removeCb \in [Slots -> RemoveRpcs \cup {None}]
      /\ removal \in [Slots -> {"none", "quiesce", "visit", "unquiesce"}]
      /\ base \in [Threads -> SUBSET Slots]
      /\ answer \in [Rpcs -> Outcomes]
  BY DEF Init, Outcomes
<1>5. TypeOK BY <1>3, <1>4 DEF Init, TypeOK
<1>6. DiscoveredCountsOpen BY <1>1 DEF Init, DiscoveredCountsOpen
<1>7. QED
  BY <1>5, <1>6 DEF Init, IInv, NamedBeforeOpen, StaysAssembled, RegisteredWasUp

-----------------------------------------------------------------------------
(* What a step leaves alone.                                                *)

\* Steps that change neither the slots nor the raid bdev's existence and state.
LEMMA SlotsUnchanged ==
  ASSUME IInv, TypeOK', UNCHANGED <<raid, state, discovered, named, open>>,
         reg' # "no" => reg # "no"
  PROVE  IInv'
BY DEF IInv, DiscoveredCountsOpen, NamedBeforeOpen, StaysAssembled, RegisteredWasUp

\* Steps that free the base bdevs of S, and maybe take the raid bdev down.
LEMMA SlotsFreed ==
  ASSUME IInv, TypeOK', NEW S, FreeResources(S), raid' \in {raid, "freed"},
         \/ UNCHANGED state
         \/ state' = "offline" /\ (raid = "allocated" => state # "configuring"),
         reg' # "no" => reg # "no"
  PROVE  IInv'
<1>1. discovered' = Cardinality(open') /\ open' = open \ S /\ named' = named \ S
  BY FreeKeepsCount DEF IInv
<1>2. NamedBeforeOpen' /\ StaysAssembled'
  BY <1>1 DEF IInv, NamedBeforeOpen, StaysAssembled
<1>3. RegisteredWasUp' BY DEF IInv, TypeOK, RegisteredWasUp
<1>4. QED BY <1>1, <1>2, <1>3 DEF IInv, DiscoveredCountsOpen

\* Steps that leave the slots alone, and maybe take the raid bdev down.
LEMMA TakenDown ==
  ASSUME IInv, TypeOK', UNCHANGED <<discovered, named, open>>, raid' \in {raid, "freed"},
         \/ UNCHANGED state
         \/ state' = "offline" /\ state = "online",
         reg' # "no" => reg # "no"
  PROVE  IInv'
BY DEF IInv, TypeOK, DiscoveredCountsOpen, NamedBeforeOpen, StaysAssembled, RegisteredWasUp

\* A callback that finds its raid bdev freed changes no more than dead.
LEMMA FreedMemory ==
  ASSUME IInv, level' = level, Died("use_after_free"),
         UNCHANGED <<raidVars, quietVars, layerVars, userVars, attached, answer, shutdown>>
  PROVE  IInv'
<1>1. TypeOK' BY DEF IInv, TypeOK, Died, raidVars, quietVars, layerVars, userVars
<1>2. QED BY <1>1, SlotsUnchanged DEF raidVars, layerVars

-----------------------------------------------------------------------------
(* Assembly.                                                                *)

\* rpc_bdev_raid_create leaves a raid bdev that is online only when every base
\* bdev was there to open.
LEMMA CreateStep == ASSUME IInv, level' = level, CreateRaid PROVE IInv'
<1>1. attached \subseteq Slots BY DEF IInv, TypeOK
<1>2. IsFiniteSet(Slots) BY SlotAssumption
<1>3. Cardinality(attached) \in 0 .. Cardinality(Slots)
  BY <1>1, <1>2, FS_Subset, FS_CardinalityType
<1>4. removeCb' \in [Slots -> RemoveRpcs \cup {None}] BY DEF CreateRaid
<1>5. TypeOK'
  BY <1>1, <1>3, <1>4 DEF IInv, TypeOK, CreateRaid, quietVars, userVars
<1>6. /\ named' = Slots /\ open' = attached
      /\ IF attached = Slots THEN state' = "online" ELSE state' = "configuring" /\ reg' = "no"
  BY DEF CreateRaid, Pending
<1>7. NamedBeforeOpen' /\ StaysAssembled' /\ RegisteredWasUp'
  BY <1>1, <1>6 DEF NamedBeforeOpen, StaysAssembled, RegisteredWasUp
<1>8. DiscoveredCountsOpen' BY DEF CreateRaid, DiscoveredCountsOpen
<1>9. QED BY <1>5, <1>7, <1>8 DEF IInv

\* and nothing when it fails.
LEMMA CreateFailsStep == ASSUME IInv, level' = level, CreateFails PROVE IInv'
<1>1. TypeOK' BY DEF IInv, TypeOK, CreateFails, quietVars, userVars
<1>2. QED
  BY <1>1 DEF IInv, CreateFails, DiscoveredCountsOpen, NamedBeforeOpen, StaysAssembled, RegisteredWasUp

\* raid_bdev_configure only starts and stops the module and goes online.
LEMMA ConfigureTypes ==
  ASSUME TypeOK, Configure
  PROVE  /\ state' = "online" \/ UNCHANGED <<state, reg>>
         /\ reg' \in {"no", "yes", "leaving", "destruct"}
         /\ module' \in {"off", "on", "closing"} /\ device' \in {"off", "on", "closing"}
BY DEF TypeOK, Configure

\* raid_bdev_examine opens a base bdev: the raid bdev goes online with the last.
LEMMA AttachStep == ASSUME IInv, level' = level, NEW i \in Slots, Attach(i) PROVE IInv'
<1> DEFINE Ignored == UNCHANGED <<open, discovered, invalid, state, reg, module, device, dead>>
<1>1. TypeOK BY DEF IInv
<1>2. i \notin open /\ attached' = attached \cup {i}
      /\ UNCHANGED <<raid, destroying, named, scheduled, removeCb, quietVars, unregCb,
                     userVars, answer, shutdown>>
  BY DEF Attach
<1>3. \/ raid = "allocated" /\ i \in named /\ ConfigureBase(i)
      \/ Ignored
  BY DEF Attach
<1>4. CASE Ignored
  <2>1. TypeOK' BY <1>1, <1>2, <1>4 DEF TypeOK, quietVars, userVars
  <2>2. QED BY <2>1, <1>2, <1>4, SlotsUnchanged
<1>5. CASE raid = "allocated" /\ i \in named /\ ConfigureBase(i)
  <2>1. /\ discovered + 1 = Cardinality(open \cup {i})
        /\ discovered + 1 \in 0 .. Cardinality(Slots)
        /\ discovered + 1 = Cardinality(Slots) => open \cup {i} = Slots
    BY <1>2, OpenKeepsCount DEF IInv
  <2>2. open' = open \cup {i} /\ discovered' = discovered + 1 BY <1>5 DEF ConfigureBase
  <2>3. invalid' \in SUBSET Slots /\ dead' \in {"no", "assert", "use_after_free"}
    BY <1>1, <1>5 DEF TypeOK, ConfigureBase, Died
  <2>4. \/ UNCHANGED <<state, reg, module, device>>
        \/ discovered + 1 = Cardinality(Slots) /\ Configure
    BY <1>5 DEF ConfigureBase
  <2>5. /\ reg' \in {"no", "yes", "leaving", "destruct"}
        /\ module' \in {"off", "on", "closing"} /\ device' \in {"off", "on", "closing"}
    BY <1>1, <2>4, ConfigureTypes DEF TypeOK
  <2>6. state' = "online" \/ UNCHANGED <<state, reg>> BY <1>1, <2>4, ConfigureTypes
  <2>7. TypeOK' BY <1>1, <1>2, <2>1, <2>2, <2>3, <2>5, <2>6 DEF TypeOK, quietVars, userVars
  <2>8. state = "configuring" BY <1>2, <1>5 DEF IInv, StaysAssembled
  <2>9. named \subseteq Slots /\ open \subseteq named
    BY <1>1, <1>5 DEF IInv, TypeOK, NamedBeforeOpen
  <2>10. open' \subseteq named' BY <1>2, <1>5, <2>2, <2>9
  <2>11. state' # "configuring" => named' = open'
    BY <1>2, <2>1, <2>2, <2>4, <2>8, <2>9, <2>10
  <2>12. RegisteredWasUp' BY <1>2, <2>6, <2>8 DEF IInv, RegisteredWasUp
  <2>13. QED
    BY <2>1, <2>2, <2>7, <2>10, <2>11, <2>12
       DEF IInv, DiscoveredCountsOpen, NamedBeforeOpen, StaysAssembled
<1>6. QED BY <1>3, <1>4, <1>5

-----------------------------------------------------------------------------
(* Removal of a base bdev.                                                  *)

\* bdev_raid_delete_done, or an error reply, leaves each RPC with an outcome.
LEMMA AnswerTypes ==
  ASSUME TypeOK, NEW q \in Rpcs \cup {None}, NEW res \in Outcomes, Answer(q, res)
  PROVE  answer' \in [Rpcs -> Outcomes]
BY DEF TypeOK, Answer

\* raid_bdev_cleanup_and_free frees the raid bdev, or its assertions stop the
\* program.
LEMMA CleanupTypes ==
  ASSUME TypeOK, CleanupAndFree
  PROVE  raid' = "freed" /\ dead' \in {"no", "assert", "use_after_free"}
BY DEF TypeOK, CleanupAndFree, Died

\* raid_bdev_deconfigure, which removals and deletions share, keeps the types of
\* what it changes.
LEMMA DeconfigureTypes ==
  ASSUME TypeOK, NEW q \in Rpcs \cup {None}, Deconfigure(q)
  PROVE  /\ \/ UNCHANGED state
            \/ state' = "offline" /\ state = "online"
         /\ reg' \in {"no", "yes", "leaving", "destruct"} /\ (reg' # "no" => reg # "no")
         /\ unregCb' \in Rpcs \cup {None} /\ answer' \in [Rpcs -> Outcomes]
<1>1. \E res \in Outcomes : Answer(q, res) BY DEF Deconfigure, Outcomes
<1>2. answer' \in [Rpcs -> Outcomes] BY <1>1, AnswerTypes
<1>3. QED BY <1>2 DEF Deconfigure, TypeOK

\* raid_bdev_remove_base_bdev, called by a hot removal or by an RPC: base bdevs
\* are closed at once, or nothing of the count is touched yet.
LEMMA RemoveBaseBdevStep ==
  ASSUME IInv, level' = level, NEW i \in Slots, NEW q \in RemoveRpcs \cup {None}, RemoveBaseBdev(i, q),
         attached' \subseteq Slots, UNCHANGED <<userVars, shutdown>>
  PROVE  IInv'
<1>1. TypeOK BY DEF IInv
<1>2. q \in Rpcs \cup {None} /\ {"waiting", "ok", "error"} \subseteq Outcomes
  BY DEF Rpcs, Outcomes
<1>3. removeCb \in [Slots -> RemoveRpcs \cup {None}]
      /\ [removeCb EXCEPT ![i] = q] \in [Slots -> RemoveRpcs \cup {None}]
  BY <1>1 DEF TypeOK
<1>4. CASE /\ Answer(q, "waiting") /\ UNCHANGED <<raidVars, quietVars, layerVars, dead>>
  <2>1. answer' \in [Rpcs -> Outcomes] BY <1>1, <1>2, <1>4, AnswerTypes
  <2>2. TypeOK'
    BY <1>1, <1>4, <2>1 DEF TypeOK, raidVars, quietVars, layerVars, userVars
  <2>3. QED BY <1>4, <2>2, SlotsUnchanged DEF raidVars, layerVars
<1>5. CASE /\ scheduled' = scheduled \cup {i} /\ removeCb' = [removeCb EXCEPT ![i] = q]
           /\ FreeResources({i})
           /\ UNCHANGED state
           /\ IF NothingOpen(discovered') THEN CleanupAndFree ELSE UNCHANGED <<raid, dead>>
           /\ Answer(q, "waiting")
           /\ UNCHANGED <<destroying, quietVars, layerVars>>
  <2>1. answer' \in [Rpcs -> Outcomes] BY <1>1, <1>2, <1>5, AnswerTypes
  <2>2. raid' \in {raid, "freed"} /\ dead' \in {"no", "assert", "use_after_free"}
    BY <1>1, <1>5, CleanupTypes DEF TypeOK
  <2>3. /\ named' \subseteq Slots /\ open' \subseteq Slots /\ invalid' \subseteq Slots
        /\ discovered' \in 0 .. Cardinality(Slots)
    BY <1>5, FreeKeepsCount DEF IInv
  <2>4. TypeOK'
    BY <1>1, <1>3, <1>5, <2>1, <2>2, <2>3 DEF TypeOK, quietVars, layerVars, userVars
  <2>5. QED BY <1>5, <2>2, <2>4, SlotsFreed DEF layerVars
<1>6. CASE /\ scheduled' = scheduled \cup {i} /\ removeCb' = [removeCb EXCEPT ![i] = q]
           /\ Deconfigure(q)
           /\ UNCHANGED <<raid, discovered, destroying, named, open, invalid, quietVars,
                          module, device, dead>>
  <2>1. /\ \/ UNCHANGED state
           \/ state' = "offline" /\ state = "online"
        /\ reg' \in {"no", "yes", "leaving", "destruct"} /\ (reg' # "no" => reg # "no")
        /\ unregCb' \in Rpcs \cup {None} /\ answer' \in [Rpcs -> Outcomes]
    BY <1>1, <1>2, <1>6, DeconfigureTypes
  <2>2. scheduled' \subseteq Slots /\ removeCb' \in [Slots -> RemoveRpcs \cup {None}]
        /\ UNCHANGED <<raid, discovered, destroying, named, open, invalid, quietVars,
                       module, device, dead>>
    BY <1>1, <1>3, <1>6 DEF TypeOK
  <2>3. TypeOK' BY <1>1, <2>1, <2>2 DEF TypeOK, quietVars, userVars
  <2>4. QED BY <2>1, <2>2, <2>3, TakenDown
<1>7. CASE /\ removeCb' = [removeCb EXCEPT ![i] = q]
           /\ Answer(q, "waiting")
           /\ \/ /\ scheduled' = scheduled \cup {i}
                 /\ removal' = [removal EXCEPT ![i] = "quiesce"]
              \/ UNCHANGED <<scheduled, removal>>
           /\ UNCHANGED <<raid, state, discovered, destroying, named, open, invalid,
                          locked, visited, layerVars, dead>>
  <2>1. answer' \in [Rpcs -> Outcomes] BY <1>1, <1>2, <1>7, AnswerTypes
  <2>2. scheduled' \subseteq Slots
        /\ removal' \in [Slots -> {"none", "quiesce", "visit", "unquiesce"}]
    BY <1>1, <1>7 DEF TypeOK
  <2>3. /\ removeCb' \in [Slots -> RemoveRpcs \cup {None}]
        /\ UNCHANGED <<raid, state, discovered, destroying, named, open, invalid,
                       locked, visited, layerVars, dead>>
    BY <1>3, <1>7
  <2>4. TypeOK' BY <1>1, <2>1, <2>2, <2>3 DEF TypeOK, layerVars, userVars
  <2>5. QED BY <2>3, <2>4, SlotsUnchanged DEF layerVars
<1>8. QED BY <1>4, <1>5, <1>6, <1>7 DEF RemoveBaseBdev

\* A base bdev goes away, in service (HotRemove) or at shutdown (LayerRemoves).
LEMMA BaseGoesStep == ASSUME IInv, level' = level, NEW i \in Slots, BaseGoes(i) PROVE IInv'
<1>1. attached' \subseteq Slots /\ UNCHANGED <<userVars, shutdown>>
  BY DEF IInv, TypeOK, BaseGoes
<1>2. CASE RemoveBaseBdev(i, None) BY <1>1, <1>2, RemoveBaseBdevStep
<1>3. CASE UNCHANGED <<raidVars, quietVars, layerVars, answer, dead>>
  <2>1. TypeOK'
    BY <1>1, <1>3 DEF IInv, TypeOK, raidVars, quietVars, layerVars, userVars
  <2>2. QED BY <1>3, <2>1, SlotsUnchanged DEF raidVars, layerVars
<1>4. QED BY <1>2, <1>3 DEF BaseGoes

\* rpc_bdev_raid_remove_base_bdev
LEMMA RemoveRpcStep ==
  ASSUME IInv, level' = level, NEW i \in Slots, NEW q \in RemoveRpcs, RemoveRpc(q, i) PROVE IInv'
<1>1. attached' \subseteq Slots /\ UNCHANGED <<userVars, attached, shutdown>>
  BY DEF IInv, TypeOK, RemoveRpc
<1>2. CASE RemoveBaseBdev(i, q) BY <1>1, <1>2, RemoveBaseBdevStep
<1>3. CASE Answer(q, "error") /\ UNCHANGED <<raidVars, quietVars, layerVars, dead>>
  <2>1. q \in Rpcs \cup {None} /\ "error" \in Outcomes BY DEF Rpcs, Outcomes
  <2>2. answer' \in [Rpcs -> Outcomes] BY <1>3, <2>1, AnswerTypes DEF IInv
  <2>3. TypeOK'
    BY <1>1, <1>3, <2>2 DEF IInv, TypeOK, raidVars, quietVars, layerVars, userVars
  <2>4. QED BY <1>3, <2>3, SlotsUnchanged DEF raidVars, layerVars
<1>4. QED BY <1>2, <1>3 DEF RemoveRpc

\* raid_bdev_remove_base_bdev_on_quiesced
LEMMA QuiescedStep == ASSUME IInv, level' = level, NEW i \in Slots, Quiesced(i) PROVE IInv'
<1>1. TypeOK BY DEF IInv
<1>2. CASE Iterate(i) /\ UNCHANGED <<raidVars, layerVars, userVars, attached, answer, shutdown, dead>>
  <2>1. TypeOK' BY <1>1, <1>2 DEF TypeOK, Iterate, raidVars, layerVars, userVars
  <2>2. QED BY <1>2, <2>1, SlotsUnchanged DEF raidVars, layerVars
<1>3. CASE /\ NotQuiesced(i)
           /\ UNCHANGED <<raid, state, discovered, destroying, named, open, invalid, removeCb,
                          layerVars, userVars, attached, shutdown, dead>>
  <2>1. removeCb[i] \in Rpcs \cup {None} /\ "error" \in Outcomes
    BY <1>1 DEF TypeOK, Rpcs, Outcomes
  <2>2. answer' \in [Rpcs -> Outcomes] BY <1>1, <1>3, <2>1, AnswerTypes DEF NotQuiesced
  <2>3. TypeOK' BY <1>1, <1>3, <2>2 DEF TypeOK, NotQuiesced, layerVars, userVars
  <2>4. QED BY <1>3, <2>3, SlotsUnchanged DEF layerVars
<1>4. QED BY <1>2, <1>3, FreedMemory DEF Quiesced, Callback

\* raid_bdev_channel_remove_base_bdev
LEMMA VisitChannelStep ==
  ASSUME IInv, level' = level, NEW i \in Slots, NEW t \in Threads, VisitChannel(i, t) PROVE IInv'
<1>1. CASE /\ visited' = visited \cup {t}
           /\ base' = [base EXCEPT ![t] = @ \ {i}]
           /\ UNCHANGED <<raidVars, removal, locked, layerVars, user, chans, attached, answer,
                          shutdown, dead>>
  <2>1. base' \in [Threads -> SUBSET Slots] BY <1>1 DEF IInv, TypeOK
  <2>2. TypeOK' BY <1>1, <2>1 DEF IInv, TypeOK, raidVars, layerVars
  <2>3. QED BY <1>1, <2>2, SlotsUnchanged DEF raidVars, layerVars
<1>2. QED BY <1>1, FreedMemory DEF VisitChannel, Callback

\* raid_bdev_channels_remove_base_bdev_done
LEMMA ChannelsVisitedStep == ASSUME IInv, level' = level, NEW i \in Slots, ChannelsVisited(i) PROVE IInv'
<1>1. CASE /\ removal' = [removal EXCEPT ![i] = "unquiesce"]
           /\ locked' = None
           /\ UNCHANGED <<raidVars, visited, layerVars, userVars, attached, answer, shutdown, dead>>
  <2>1. TypeOK' BY <1>1 DEF IInv, TypeOK, raidVars, layerVars, userVars
  <2>2. QED BY <1>1, <2>1, SlotsUnchanged DEF raidVars, layerVars
<1>2. QED BY <1>1, FreedMemory DEF ChannelsVisited, Callback

\* raid_bdev_remove_base_bdev_on_unquiesced closes the base bdev, if it can.
LEMMA UnquiescedStep == ASSUME IInv, level' = level, NEW i \in Slots, Unquiesced(i) PROVE IInv'
<1>1. TypeOK BY DEF IInv
<1>2. ASSUME /\ removal' = [removal EXCEPT ![i] = "none"]
             /\ scheduled' = scheduled \ {i}
             /\ \E res \in {"ok", "error"} : Answer(removeCb[i], res)
             /\ UNCHANGED <<raid, state, destroying, removeCb, locked, visited, layerVars, userVars,
                            attached, shutdown, dead>>,
             named' \subseteq Slots /\ open' \subseteq Slots /\ invalid' \subseteq Slots,
             discovered' \in 0 .. Cardinality(Slots)
      PROVE  TypeOK'
  <2>1. removeCb[i] \in Rpcs \cup {None} /\ {"ok", "error"} \subseteq Outcomes
    BY <1>1 DEF TypeOK, Rpcs, Outcomes
  <2>2. answer' \in [Rpcs -> Outcomes] BY <1>1, <1>2, <2>1, AnswerTypes
  <2>3. removal' \in [Slots -> {"none", "quiesce", "visit", "unquiesce"}] BY <1>1, <1>2 DEF TypeOK
  <2>4. QED BY <1>1, <1>2, <2>2, <2>3 DEF TypeOK, layerVars, userVars
<1>3. CASE /\ removal' = [removal EXCEPT ![i] = "none"]
           /\ scheduled' = scheduled \ {i}
           /\ FreeResources({i}) /\ Answer(removeCb[i], "ok")
           /\ UNCHANGED <<raid, state, destroying, removeCb, locked, visited, layerVars, userVars,
                          attached, shutdown, dead>>
  <2>1. TypeOK' BY <1>2, <1>3, FreeKeepsCount DEF IInv
  <2>2. QED BY <1>3, <2>1, SlotsFreed DEF layerVars
<1>4. CASE /\ removal' = [removal EXCEPT ![i] = "none"]
           /\ scheduled' = scheduled \ {i}
           /\ Answer(removeCb[i], "error")
           /\ UNCHANGED <<named, open, invalid, discovered>>
           /\ UNCHANGED <<raid, state, destroying, removeCb, locked, visited, layerVars, userVars,
                          attached, shutdown, dead>>
  <2>1. TypeOK' BY <1>1, <1>2, <1>4 DEF TypeOK
  <2>2. QED BY <1>4, <2>1, SlotsUnchanged DEF layerVars
<1>5. QED BY <1>3, <1>4, FreedMemory DEF Unquiesced, Callback

-----------------------------------------------------------------------------
(* Deletion, users and shutdown.                                            *)

\* rpc_bdev_raid_delete closes all base bdevs of a raid bdev that is not online.
LEMMA DeleteRpcStep == ASSUME IInv, level' = level, NEW q \in DeleteRpcs, DeleteRpc(q) PROVE IInv'
<1>1. TypeOK BY DEF IInv
<1>2. q \in Rpcs /\ q \in Rpcs \cup {None} /\ {"ok", "error"} \subseteq Outcomes
  BY DEF Rpcs, Outcomes
<1>3. UNCHANGED <<quietVars, userVars, attached, shutdown>> BY DEF DeleteRpc
<1>4. CASE Answer(q, "error") /\ UNCHANGED <<raidVars, layerVars, dead>>
  <2>1. answer' \in [Rpcs -> Outcomes] BY <1>1, <1>2, <1>4, AnswerTypes
  <2>2. TypeOK'
    BY <1>1, <1>3, <1>4, <2>1 DEF TypeOK, raidVars, layerVars, quietVars, userVars
  <2>3. QED BY <1>4, <2>2, SlotsUnchanged DEF raidVars, layerVars
<1>5. CASE /\ destroying' = TRUE /\ scheduled' = Slots
           /\ FreeResources(Slots) /\ UNCHANGED state
           /\ CleanupAndFree /\ Answer(q, "ok")
           /\ UNCHANGED <<removeCb, layerVars>>
  <2>1. answer' \in [Rpcs -> Outcomes] BY <1>1, <1>2, <1>5, AnswerTypes
  <2>2. raid' = "freed" /\ dead' \in {"no", "assert", "use_after_free"}
    BY <1>1, <1>5, CleanupTypes
  <2>3. /\ named' \subseteq Slots /\ open' \subseteq Slots /\ invalid' \subseteq Slots
        /\ discovered' \in 0 .. Cardinality(Slots)
    BY <1>5, FreeKeepsCount DEF IInv
  <2>4. TypeOK'
    BY <1>1, <1>3, <1>5, <2>1, <2>2, <2>3 DEF TypeOK, layerVars, quietVars, userVars
  <2>5. QED BY <1>5, <2>2, <2>4, SlotsFreed DEF layerVars
<1>6. CASE /\ destroying' = TRUE /\ scheduled' = Slots
           /\ Deconfigure(q)
           /\ UNCHANGED <<raid, discovered, named, open, invalid, removeCb, module, device, dead>>
  <2>1. /\ \/ UNCHANGED state
           \/ state' = "offline" /\ state = "online"
        /\ reg' \in {"no", "yes", "leaving", "destruct"} /\ (reg' # "no" => reg # "no")
        /\ unregCb' \in Rpcs \cup {None} /\ answer' \in [Rpcs -> Outcomes]
    BY <1>1, <1>2, <1>6, DeconfigureTypes
  <2>2. TypeOK' BY <1>1, <1>3, <1>6, <2>1 DEF TypeOK, quietVars, userVars
  <2>3. QED BY <1>6, <2>1, <2>2, TakenDown
<1>7. QED BY <1>4, <1>5, <1>6 DEF DeleteRpc

\* _raid_bdev_destruct closes the base bdevs that were to be removed with the
\* raid bdev, all of them at shutdown.
LEMMA DestructStep == ASSUME IInv, level' = level, Destruct PROVE IInv'
<1>1. TypeOK BY DEF IInv
<1>2. CASE /\ reg' = "destruct"
           /\ FreeResources(ToClose)
           /\ state' = IF shutdown THEN "offline" ELSE state
           /\ \/ AsyncStop /\ module' = "closing" /\ UNCHANGED device
              \/ ~AsyncStop /\ module' = "off" /\ StopDone(state')
           /\ UNCHANGED <<raid, destroying, scheduled, removeCb, quietVars, unregCb, userVars,
                          attached, answer, shutdown, dead>>
  <2>1. /\ named' \subseteq Slots /\ open' \subseteq Slots /\ invalid' \subseteq Slots
        /\ discovered' \in 0 .. Cardinality(Slots)
    BY <1>2, FreeKeepsCount DEF IInv
  <2>2. state' \in {state, "offline"} BY <1>2
  <2>3. module' \in {"off", "on", "closing"} /\ device' \in {"off", "on", "closing"}
    BY <1>1, <1>2 DEF TypeOK, StopDone
  <2>4. TypeOK'
    BY <1>1, <1>2, <2>1, <2>2, <2>3 DEF TypeOK, quietVars, userVars
  <2>5. reg = "leaving" BY DEF Destruct, Callback
  <2>6. raid = "allocated" => state # "configuring" BY <2>5 DEF IInv, RegisteredWasUp
  <2>7. QED BY <1>2, <2>4, <2>5, <2>6, SlotsFreed
<1>3. QED BY <1>2, FreedMemory DEF Destruct, Callback

\* raid_bdev_module_stop_done
LEMMA ModuleStoppedStep == ASSUME IInv, level' = level, ModuleStopped PROVE IInv'
<1>1. CASE /\ module' = "off"
           /\ StopDone(state)
           /\ UNCHANGED <<raidVars, quietVars, reg, unregCb, userVars, attached, answer, shutdown, dead>>
  <2>1. TypeOK' BY <1>1 DEF IInv, TypeOK, StopDone, raidVars, quietVars, userVars
  <2>2. QED BY <1>1, <2>1, SlotsUnchanged DEF raidVars, layerVars
<1>2. QED BY <1>1, FreedMemory DEF ModuleStopped, Callback

\* raid_bdev_io_device_unregister_cb frees the raid bdev if nothing is open.
LEMMA DeviceGoneStep == ASSUME IInv, level' = level, DeviceGone PROVE IInv'
<1>1. TypeOK BY DEF IInv
<1>2. CASE /\ device' = "off" /\ reg' = "no" /\ unregCb' = None
           /\ Answer(unregCb, "ok")
           /\ UNCHANGED <<state, open>>
           /\ IF NothingOpen(discovered) THEN CleanupAndFree ELSE UNCHANGED <<raid, dead>>
           /\ UNCHANGED <<discovered, destroying, named, scheduled, invalid, removeCb, quietVars,
                          module, userVars, attached, shutdown>>
  <2>1. unregCb \in Rpcs \cup {None} /\ "ok" \in Outcomes BY <1>1 DEF TypeOK, Outcomes
  <2>2. answer' \in [Rpcs -> Outcomes] BY <1>1, <1>2, <2>1, AnswerTypes
  <2>3. raid' \in {raid, "freed"} /\ dead' \in {"no", "assert", "use_after_free"}
    BY <1>1, <1>2, CleanupTypes DEF TypeOK
  <2>4. TypeOK' BY <1>1, <1>2, <2>2, <2>3 DEF TypeOK, quietVars, userVars
  <2>5. QED BY <1>2, <2>3, <2>4, TakenDown
<1>3. QED BY <1>2, FreedMemory DEF DeviceGone, Callback

\* Users come and go: raid_bdev_create_cb and raid_bdev_destroy_cb.
LEMMA UserSteps ==
  ASSUME IInv, level' = level, OpenRaid \/ CloseRaid \/ \E t \in Threads : OpenChannel(t) \/ CloseChannel(t)
  PROVE  IInv'
<1>1. CASE OpenRaid \/ CloseRaid
  <2>1. /\ user' \in BOOLEAN
        /\ UNCHANGED <<raidVars, quietVars, layerVars, chans, base, attached, answer, shutdown, dead>>
    BY <1>1 DEF OpenRaid, CloseRaid
  <2>2. TypeOK' BY <2>1 DEF IInv, TypeOK, raidVars, quietVars, layerVars
  <2>3. QED BY <2>1, <2>2, SlotsUnchanged DEF raidVars, layerVars
<1>2. ASSUME NEW t \in Threads, CloseChannel(t) PROVE IInv'
  <2>1. base' \in [Threads -> SUBSET Slots] BY <1>2 DEF IInv, TypeOK, CloseChannel
  <2>2. TypeOK'
    BY <1>2, <2>1 DEF IInv, TypeOK, CloseChannel, raidVars, quietVars, layerVars
  <2>3. QED BY <1>2, <2>2, SlotsUnchanged DEF CloseChannel, raidVars, layerVars
<1>3. ASSUME NEW t \in Threads, OpenChannel(t) PROVE IInv'
  <2>1. CASE /\ IF state = "online" THEN UNCHANGED dead ELSE Died("assert")
             /\ chans' = chans \cup {t}
             /\ base' = [base EXCEPT ![t] = open]
             /\ UNCHANGED <<raidVars, quietVars, layerVars, user, attached, answer, shutdown>>
    <3>1. base' \in [Threads -> SUBSET Slots] /\ dead' \in {"no", "assert", "use_after_free"}
      BY <2>1 DEF IInv, TypeOK, Died
    <3>2. chans' \subseteq Threads
          /\ UNCHANGED <<raidVars, quietVars, layerVars, user, attached, answer, shutdown>>
      BY <2>1 DEF IInv, TypeOK
    <3>3. TypeOK' BY <3>1, <3>2 DEF IInv, TypeOK, raidVars, quietVars, layerVars
    <3>4. QED BY <3>2, <3>3, SlotsUnchanged DEF raidVars, layerVars
  <2>2. QED BY <1>3, <2>1, FreedMemory DEF OpenChannel, Callback
<1>4. QED BY <1>1, <1>2, <1>3

\* raid_bdev_fini_start, what the bdev layer does next, and raid_bdev_exit.
LEMMA ShutdownSteps ==
  ASSUME IInv, level' = level, FiniStart \/ LayerUnregisters \/ ModuleExit PROVE IInv'
<1>1. CASE FiniStart \/ LayerUnregisters
  <2>1. /\ shutdown' \in BOOLEAN /\ reg' \in {reg, "leaving"} /\ unregCb' \in {unregCb, None}
        /\ UNCHANGED <<raidVars, quietVars, module, device, userVars, attached, answer, dead>>
    BY <1>1 DEF FiniStart, LayerUnregisters, layerVars, IInv, TypeOK
  <2>2. TypeOK' BY <2>1 DEF IInv, TypeOK, raidVars, quietVars, userVars
  <2>3. reg' # "no" => reg # "no" BY <1>1 DEF FiniStart, LayerUnregisters, layerVars
  <2>4. QED BY <2>1, <2>2, <2>3, SlotsUnchanged DEF raidVars
<1>2. CASE ModuleExit
  <2>1. raid' = "freed" /\ dead' \in {"no", "assert", "use_after_free"}
    BY <1>2, CleanupTypes DEF IInv, ModuleExit
  <2>2. TypeOK'
    BY <1>2, <2>1 DEF IInv, TypeOK, ModuleExit, quietVars, layerVars, userVars
  <2>3. QED BY <1>2, <2>1, <2>2, TakenDown DEF ModuleExit, layerVars
<1>3. QED BY <1>1, <1>2

-----------------------------------------------------------------------------

\* Each handler of bdev_raid.c preserves the invariant.
LEMMA NextIInv == IInv /\ [Next]_vars => IInv'
<1> SUFFICES ASSUME IInv, [Next]_vars PROVE IInv' OBVIOUS
<1>0. level' = level BY DEF Next, vars
<1>1. CASE UNCHANGED vars
  <2>1. UNCHANGED <<raidVars, quietVars, layerVars, userVars, attached, answer, shutdown, dead>>
    BY <1>1 DEF vars
  <2>2. TypeOK' BY <1>0, <2>1 DEF IInv, TypeOK, raidVars, quietVars, layerVars, userVars
  <2>3. QED BY <2>1, <2>2, SlotsUnchanged DEF raidVars, layerVars
<1>2. CASE CreateRaid \/ CreateFails BY <1>0, <1>2, CreateStep, CreateFailsStep
<1>3. ASSUME NEW i \in Slots, Attach(i) \/ HotRemove(i) \/ LayerRemoves(i) PROVE IInv'
  BY <1>0, <1>3, AttachStep, BaseGoesStep DEF HotRemove, LayerRemoves
<1>4. ASSUME NEW i \in Slots, NEW q \in RemoveRpcs, RemoveRpc(q, i) PROVE IInv'
  BY <1>0, <1>4, RemoveRpcStep
<1>5. ASSUME NEW q \in DeleteRpcs, DeleteRpc(q) PROVE IInv' BY <1>0, <1>5, DeleteRpcStep
<1>6. ASSUME NEW i \in Slots, Quiesced(i) \/ ChannelsVisited(i) \/ Unquiesced(i) PROVE IInv'
  BY <1>0, <1>6, QuiescedStep, ChannelsVisitedStep, UnquiescedStep
<1>7. ASSUME NEW i \in Slots, NEW t \in Threads, VisitChannel(i, t) PROVE IInv'
  BY <1>0, <1>7, VisitChannelStep
<1>8. CASE Destruct \/ ModuleStopped \/ DeviceGone
  BY <1>0, <1>8, DestructStep, ModuleStoppedStep, DeviceGoneStep
<1>9. CASE OpenRaid \/ UserLeaves \/ \E t \in Threads : OpenChannel(t)
  BY <1>0, <1>9, UserSteps DEF UserLeaves
<1>10. CASE FiniStart \/ LayerUnregisters \/ ModuleExit BY <1>0, <1>10, ShutdownSteps
<1>11. QED
  BY <1>1, <1>2, <1>3, <1>4, <1>5, <1>6, <1>7, <1>8, <1>9, <1>10 DEF Next, Progress, Finish

\* Whatever order the RPCs, the events of base bdevs, the callbacks and the
\* shutdown come in, the handlers of bdev_raid.c keep the invariant.
LEMMA Inductive == Spec => []IInv
BY InitIInv, NextIInv, PTL DEF Spec

\* The state of a raid bdev and of what is under way for it keeps its types.
THEOREM TypeCorrect == Spec => []TypeOK
<1>1. IInv => TypeOK BY DEF IInv
<1>2. QED BY <1>1, Inductive, PTL

\* num_base_bdevs_discovered is always the number of open base bdevs, in any
\* order of creation, removals, deletions and shutdown (bdev_raid.c:233,
\* 1562), also when they run into each other.
THEOREM CountIsExact == Spec => []DiscoveredCountsOpen
<1>1. IInv => DiscoveredCountsOpen BY DEF IInv
<1>2. QED BY <1>1, Inductive, PTL

\* An online raid bdev waits for no base bdev: the assertion of
\* raid_bdev_configure_base_bdev (bdev_raid.c:1556) cannot fail.
THEOREM AssembledOnline == Spec => []OnlineIsAssembled
<1>1. IInv => OnlineIsAssembled BY DEF IInv, StaysAssembled, OnlineIsAssembled
<1>2. QED BY <1>1, Inductive, PTL

\* A removal or a deletion changes the state of an online raid bdev only.
LEMMA TakingDown ==
  /\ \A i, q : RemoveBaseBdev(i, q) => UNCHANGED state \/ (state = "online" /\ state' = "offline")
  /\ \A i : BaseGoes(i) => UNCHANGED state \/ (state = "online" /\ state' = "offline")
  /\ \A i, q : RemoveRpc(q, i) => UNCHANGED state \/ (state = "online" /\ state' = "offline")
  /\ \A q : DeleteRpc(q) => UNCHANGED state \/ (state = "online" /\ state' = "offline")
<1>1. \A q : Deconfigure(q) => UNCHANGED state \/ (state = "online" /\ state' = "offline")
  BY DEF Deconfigure
<1>2. \A i, q : RemoveBaseBdev(i, q) => UNCHANGED state \/ (state = "online" /\ state' = "offline")
  BY <1>1 DEF RemoveBaseBdev, raidVars
<1>3. QED BY <1>1, <1>2 DEF BaseGoes, RemoveRpc, DeleteRpc, raidVars

\* A raid bdev only comes up from configuring and only goes down to offline:
\* no base bdev that appears late, and no deletion or shutdown that overlaps a
\* removal, takes it back (raid_bdev_configure, _deconfigure and _destruct are
\* the only handlers that assign raid_bdev->state).
THEOREM NoWayBack == Spec => StateOrder
<1> DEFINE Order == raid = "allocated" /\ raid' = "allocated" /\ state' # state =>
                      <<state, state'>> \in {<<"configuring", "online">>, <<"online", "offline">>}
<1>1. ASSUME IInv, [Next]_vars PROVE Order
  <2> SUFFICES ASSUME raid = "allocated", raid' = "allocated", state' # state
               PROVE  \/ state = "configuring" /\ state' = "online"
                      \/ state = "online" /\ state' = "offline"
    OBVIOUS
  <2>1. ASSUME NEW i \in Slots, Attach(i) PROVE state = "configuring" /\ state' = "online"
    <3>1. i \notin open /\ i \in named /\ Configure
      BY <2>1 DEF Attach, ConfigureBase
    <3>2. QED BY <1>1, <3>1 DEF Configure, IInv, StaysAssembled
  <2>2. CASE Destruct
    <3>1. reg = "leaving" /\ state' = "offline" BY <2>2 DEF Destruct, Callback, raidVars
    <3>2. state \in {"configuring", "online", "offline"} /\ state # "configuring"
      BY <1>1, <3>1 DEF IInv, TypeOK, RegisteredWasUp
    <3>3. QED BY <3>1, <3>2
  <2>3. ASSUME NEW i \in Slots, HotRemove(i) \/ LayerRemoves(i)
        PROVE  state = "online" /\ state' = "offline"
    BY <2>3, TakingDown DEF HotRemove, LayerRemoves
  <2>4. ASSUME NEW i \in Slots, NEW q \in RemoveRpcs, RemoveRpc(q, i)
        PROVE  state = "online" /\ state' = "offline"
    BY <2>4, TakingDown
  <2>5. ASSUME NEW q \in DeleteRpcs, DeleteRpc(q) PROVE state = "online" /\ state' = "offline"
    BY <2>5, TakingDown
  <2>6. CASE CreateRaid \/ CreateFails BY <2>6 DEF CreateRaid, CreateFails
  <2>7. ASSUME NEW i \in Slots, Quiesced(i) \/ ChannelsVisited(i) \/ Unquiesced(i)
        PROVE  FALSE
    BY <2>7 DEF Quiesced, ChannelsVisited, Unquiesced, Callback, raidVars
  <2>8. ASSUME NEW i \in Slots, NEW t \in Threads, VisitChannel(i, t) PROVE FALSE
    BY <2>8 DEF VisitChannel, Callback, raidVars
  <2>9. CASE ModuleStopped \/ DeviceGone BY <2>9 DEF ModuleStopped, DeviceGone, Callback, raidVars
  <2>10. CASE OpenRaid \/ UserLeaves \/ \E t \in Threads : OpenChannel(t)
    BY <2>10 DEF OpenRaid, UserLeaves, CloseRaid, CloseChannel, OpenChannel, Callback, raidVars
  <2>11. CASE FiniStart \/ LayerUnregisters \/ ModuleExit
    BY <2>11 DEF FiniStart, LayerUnregisters, ModuleExit, raidVars
  <2>12. CASE UNCHANGED vars BY <2>12 DEF vars, raidVars
  <2>13. QED
    BY <1>1, <2>1, <2>2, <2>3, <2>4, <2>5, <2>6, <2>7, <2>8, <2>9, <2>10, <2>11, <2>12
       DEF Next, Progress, Finish
<1>2. IInv /\ [Next]_vars => [Order]_vars BY <1>1
<1>3. QED BY <1>2, Inductive, PTL DEF Spec, StateOrder

-----------------------------------------------------------------------------
(* The removals and the RPCs that wait for them: a raid bdev is quiesced    *)
(* for the removal that is under way and for no other, and no RPC is        *)
(* answered twice, however removals, deletions, failures of the quiesce and *)
(* the shutdown run into each other.                                        *)

\* A removal that is under way keeps its slot scheduled, so that no second one
\* of the same slot starts (bdev_raid.c:1367) and takes over its callback.
UnderWayIsScheduled == \A i \in Slots : removal[i] # "none" => i \in scheduled

\* Who is to be called back has not been answered,
Waits(q) == q # None => answer[q] = "waiting"

CallersWait ==
  /\ Waits(unregCb)
  /\ \A i \in Slots : removal[i] # "none" => Waits(removeCb[i])

\* and is to be called back from one place only.
CallersDiffer ==
  \A i \in Slots : removal[i] # "none" /\ removeCb[i] # None =>
    /\ removeCb[i] # unregCb
    /\ \A j \in Slots : removal[j] # "none" /\ removeCb[j] = removeCb[i] => j = i

RInv ==
  /\ QuiescedForRemoval
  /\ UnderWayIsScheduled
  /\ CallersWait
  /\ CallersDiffer

\* What a step may never do.
Kept == \A q \in Rpcs : answer[q] \in {"ok", "error"} => answer'[q] = answer[q]

-----------------------------------------------------------------------------
(* The kinds of steps.                                                      *)

\* The program starts with nothing under way.
LEMMA InitRInv == Init => RInv
BY SlotAssumption
   DEF Init, RInv, QuiescedForRemoval, UnderWayIsScheduled, CallersWait, CallersDiffer, Waits

\* A step of which no removal and no RPC takes notice.
LEMMA NothingNew ==
  ASSUME RInv, UNCHANGED <<removal, locked, removeCb, unregCb, answer>>, scheduled \subseteq scheduled'
  PROVE  RInv' /\ Kept
BY DEF RInv, QuiescedForRemoval, UnderWayIsScheduled, CallersWait, CallersDiffer, Waits, Kept

\* An answer that somebody waits for reaches nobody else.
LEMMA AnswerOne ==
  ASSUME TypeOK, NEW q \in Rpcs \cup {None}, NEW res, Answer(q, res)
  PROVE  /\ \A r \in Rpcs : r # q => answer'[r] = answer[r]
         /\ q # None => answer'[q] = res
BY DEF TypeOK, Answer

\* A call q, or an event, that starts no removal: it is answered at once, or
\* waits for the unregistration it has begun or for nothing that will come.
LEMMA CallComes ==
  ASSUME TypeOK, RInv, NEW q \in Rpcs \cup {None}, q # None => answer[q] = "new",
         \E res \in Outcomes : Answer(q, res) /\ (unregCb' = unregCb \/ (unregCb' = q /\ res = "waiting")),
         UNCHANGED <<removal, locked>>, scheduled \subseteq scheduled',
         \/ UNCHANGED removeCb
         \/ \E i \in Slots : removal[i] = "none" /\ removeCb' = [removeCb EXCEPT ![i] = q]
  PROVE  RInv' /\ Kept
<1>1. PICK res \in Outcomes : Answer(q, res) /\ (unregCb' = unregCb \/ (unregCb' = q /\ res = "waiting"))
  OBVIOUS
<1>2. /\ \A r \in Rpcs : r # q => answer'[r] = answer[r]
      /\ q # None => answer'[q] = res
  BY <1>1, AnswerOne
<1>3. /\ unregCb \in Rpcs \cup {None}
      /\ \A i \in Slots : removeCb[i] \in Rpcs \cup {None}
      /\ removeCb \in [Slots -> RemoveRpcs \cup {None}]
  BY DEF TypeOK, Rpcs
<1>4. \A i \in Slots : removal[i] # "none" => removeCb'[i] = removeCb[i] BY <1>3
<1>5. None \notin Rpcs BY RpcAssumption DEF Rpcs
<1>6. QuiescedForRemoval' /\ UnderWayIsScheduled'
  BY DEF RInv, QuiescedForRemoval, UnderWayIsScheduled
<1>7. \A r \in Rpcs \cup {None} : Waits(r) => (r # q \/ r = None) /\ Waits(r)'
  BY <1>2, <1>5 DEF Waits
<1>8. \A i \in Slots : removal[i] # "none" => Waits(removeCb[i]) /\ Waits(removeCb[i])'
  BY <1>3, <1>4, <1>7 DEF RInv, CallersWait, Waits
<1>9. Waits(unregCb)' BY <1>1, <1>2, <1>3, <1>7 DEF RInv, CallersWait, Waits
<1>10. CallersWait' BY <1>8, <1>9 DEF CallersWait
<1>11. CallersDiffer' BY <1>1, <1>3, <1>4, <1>7, <1>8 DEF RInv, CallersDiffer
<1>12. Kept BY <1>2, <1>5 DEF Kept
<1>13. QED BY <1>6, <1>10, <1>11, <1>12 DEF RInv

\* A removal of slot i for the caller q starts.
LEMMA RemovalStarts ==
  ASSUME TypeOK, RInv, NEW i \in Slots, NEW q \in RemoveRpcs \cup {None},
         q # None => answer[q] = "new", removal[i] = "none", Answer(q, "waiting"),
         removeCb' = [removeCb EXCEPT ![i] = q], removal' = [removal EXCEPT ![i] = "quiesce"],
         scheduled' = scheduled \cup {i}, UNCHANGED <<locked, unregCb>>
  PROVE  RInv' /\ Kept
<1>1. q \in Rpcs \cup {None} BY DEF Rpcs
<1>2. /\ \A r \in Rpcs : r # q => answer'[r] = answer[r]
      /\ q # None => answer'[q] = "waiting"
  BY <1>1, AnswerOne
<1>3. /\ unregCb \in Rpcs \cup {None}
      /\ \A j \in Slots : removeCb[j] \in Rpcs \cup {None}
      /\ removeCb'[i] = q /\ removal'[i] = "quiesce"
      /\ \A j \in Slots : j # i => removeCb'[j] = removeCb[j] /\ removal'[j] = removal[j]
  BY DEF TypeOK, Rpcs
<1>4. None \notin Rpcs BY RpcAssumption DEF Rpcs
<1>5. locked \in Slots \cup {None} BY DEF TypeOK
<1>6. QuiescedForRemoval' BY <1>3, <1>5 DEF RInv, QuiescedForRemoval
<1>7. UnderWayIsScheduled' BY <1>3 DEF RInv, UnderWayIsScheduled
<1>8. \A r \in Rpcs \cup {None} : Waits(r) => (r # q \/ r = None) /\ Waits(r)'
  BY <1>2, <1>4 DEF Waits
<1>9. CallersWait' BY <1>2, <1>3, <1>8 DEF RInv, CallersWait, Waits
<1>10. \A j \in Slots : j # i /\ removal[j] # "none" => removeCb[j] # q \/ q = None
  BY <1>3, <1>8 DEF RInv, CallersWait
<1>11. unregCb # q \/ q = None BY <1>3, <1>8 DEF RInv, CallersWait
<1>12. CallersDiffer' BY <1>3, <1>10, <1>11 DEF RInv, CallersDiffer
<1>13. Kept BY <1>2, <1>4 DEF Kept
<1>14. QED BY <1>6, <1>7, <1>9, <1>12, <1>13 DEF RInv

\* The removal of slot i ends with an answer to its caller.
LEMMA RemovalIsOver ==
  ASSUME TypeOK, RInv, NEW i \in Slots, removal[i] \in {"quiesce", "unquiesce"},
         NEW res, Answer(removeCb[i], res),
         removal' = [removal EXCEPT ![i] = "none"], scheduled' = scheduled \ {i},
         UNCHANGED <<locked, removeCb, unregCb>>
  PROVE  RInv' /\ Kept
<1>1. removeCb[i] \in Rpcs \cup {None} BY DEF TypeOK, Rpcs
<1>2. \A r \in Rpcs : r # removeCb[i] => answer'[r] = answer[r] BY <1>1, AnswerOne
<1>3. /\ unregCb \in Rpcs \cup {None}
      /\ \A j \in Slots : removeCb[j] \in Rpcs \cup {None}
      /\ removal'[i] = "none"
      /\ \A j \in Slots : j # i => removal'[j] = removal[j]
  BY DEF TypeOK, Rpcs
<1>4. locked \in Slots \cup {None} BY DEF TypeOK
<1>5. QuiescedForRemoval' BY <1>3, <1>4 DEF RInv, QuiescedForRemoval
<1>6. UnderWayIsScheduled' BY <1>3 DEF RInv, UnderWayIsScheduled
<1>7. removeCb[i] # None => answer[removeCb[i]] = "waiting" BY DEF RInv, CallersWait, Waits
<1>8. \A j \in Slots : removal'[j] # "none" /\ removeCb[j] # None => removeCb[j] # removeCb[i]
  BY <1>3 DEF RInv, CallersDiffer
<1>9. unregCb # None => unregCb # removeCb[i] BY DEF RInv, CallersDiffer
<1>10. CallersWait' BY <1>2, <1>3, <1>8, <1>9 DEF RInv, CallersWait, Waits
<1>11. CallersDiffer' BY <1>3 DEF RInv, CallersDiffer
<1>12. Kept BY <1>2, <1>7, RpcAssumption DEF Kept, Rpcs
<1>13. QED BY <1>5, <1>6, <1>10, <1>11, <1>12 DEF RInv

-----------------------------------------------------------------------------
(* The handlers.                                                            *)

\* raid_bdev_deconfigure has one of three answers for its caller.
LEMMA DeconfigureAnswers ==
  ASSUME NEW q, Deconfigure(q)
  PROVE  \E res \in Outcomes : Answer(q, res) /\ (unregCb' = unregCb \/ (unregCb' = q /\ res = "waiting"))
BY DEF Deconfigure, Outcomes

\* raid_bdev_remove_base_bdev for a new call, or an event.
LEMMA RemoveBaseBdevCalls ==
  ASSUME TypeOK, RInv, NEW i \in Slots, NEW q \in RemoveRpcs \cup {None},
         q # None => answer[q] = "new", RemoveBaseBdev(i, q)
  PROVE  RInv' /\ Kept
<1>1. q \in Rpcs \cup {None} /\ "waiting" \in Outcomes BY DEF Rpcs, Outcomes
<1>2. i \notin scheduled => removal[i] = "none" BY DEF RInv, UnderWayIsScheduled
<1>3. CASE i \in scheduled /\ Answer(q, "waiting") /\ UNCHANGED <<raidVars, quietVars, layerVars, dead>>
  BY <1>1, <1>3, CallComes DEF raidVars, quietVars, layerVars
<1>4. CASE /\ i \notin scheduled
           /\ scheduled' = scheduled \cup {i} /\ removeCb' = [removeCb EXCEPT ![i] = q]
           /\ Answer(q, "waiting") /\ UNCHANGED <<quietVars, layerVars>>
  BY <1>1, <1>2, <1>4, CallComes DEF quietVars, layerVars
<1>5. CASE /\ i \notin scheduled
           /\ scheduled' = scheduled \cup {i} /\ removeCb' = [removeCb EXCEPT ![i] = q]
           /\ Deconfigure(q) /\ UNCHANGED quietVars
  <2>1. \E res \in Outcomes : Answer(q, res) /\ (unregCb' = unregCb \/ (unregCb' = q /\ res = "waiting"))
    BY <1>5, DeconfigureAnswers
  <2>2. \E j \in Slots : removal[j] = "none" /\ removeCb' = [removeCb EXCEPT ![j] = q]
    BY <1>2, <1>5
  <2>3. UNCHANGED <<removal, locked>> /\ scheduled \subseteq scheduled' BY <1>5 DEF quietVars
  <2>4. QED BY <1>1, <2>1, <2>2, <2>3, CallComes
<1>6. CASE /\ i \notin scheduled
           /\ removeCb' = [removeCb EXCEPT ![i] = q] /\ Answer(q, "waiting")
           /\ scheduled' = scheduled \cup {i} /\ removal' = [removal EXCEPT ![i] = "quiesce"]
           /\ UNCHANGED <<locked, visited, layerVars>>
  BY <1>2, <1>6, RemovalStarts DEF layerVars
<1>7. CASE /\ i \notin scheduled
           /\ removeCb' = [removeCb EXCEPT ![i] = q] /\ Answer(q, "waiting")
           /\ UNCHANGED <<scheduled, removal, locked, visited, layerVars>>
  BY <1>1, <1>2, <1>7, CallComes DEF layerVars
<1>8. QED BY <1>3, <1>4, <1>5, <1>6, <1>7 DEF RemoveBaseBdev

\* SPDK_BDEV_EVENT_REMOVE, in service or at shutdown.
LEMMA BaseGoesCalls ==
  ASSUME TypeOK, RInv, NEW i \in Slots, BaseGoes(i) PROVE RInv' /\ Kept
<1>1. CASE RemoveBaseBdev(i, None) BY <1>1, RemoveBaseBdevCalls
<1>2. CASE UNCHANGED <<raidVars, quietVars, layerVars, answer, dead>>
  BY <1>2, NothingNew DEF raidVars, quietVars, layerVars
<1>3. QED BY <1>1, <1>2 DEF BaseGoes

\* rpc_bdev_raid_remove_base_bdev and rpc_bdev_raid_delete.
LEMMA RpcCalls ==
  ASSUME TypeOK, RInv,
         \/ \E i \in Slots, q \in RemoveRpcs : RemoveRpc(q, i)
         \/ \E q \in DeleteRpcs : DeleteRpc(q)
  PROVE  RInv' /\ Kept
<1>1. {"ok", "error"} \subseteq Outcomes BY DEF Outcomes
<1>2. ASSUME NEW i \in Slots, NEW q \in RemoveRpcs, RemoveRpc(q, i) PROVE RInv' /\ Kept
  <2>1. answer[q] = "new" /\ q \in Rpcs \cup {None} BY <1>2 DEF RemoveRpc, Rpcs
  <2>2. CASE RemoveBaseBdev(i, q) BY <2>1, <2>2, RemoveBaseBdevCalls
  <2>3. CASE Answer(q, "error") /\ UNCHANGED <<raidVars, quietVars, layerVars, dead>>
    BY <1>1, <2>1, <2>3, CallComes DEF raidVars, quietVars, layerVars
  <2>4. QED BY <1>2, <2>2, <2>3 DEF RemoveRpc
<1>3. ASSUME NEW q \in DeleteRpcs, DeleteRpc(q) PROVE RInv' /\ Kept
  <2>1. answer[q] = "new" /\ q \in Rpcs \cup {None} /\ UNCHANGED quietVars
    BY <1>3 DEF DeleteRpc, Rpcs
  <2>2. CASE Answer(q, "error") /\ UNCHANGED <<raidVars, layerVars, dead>>
    BY <1>1, <2>1, <2>2, CallComes DEF raidVars, quietVars, layerVars
  <2>3. scheduled \subseteq Slots BY DEF TypeOK
  <2>4. CASE scheduled' = Slots /\ Answer(q, "ok") /\ UNCHANGED <<removeCb, layerVars>>
    BY <1>1, <2>1, <2>3, <2>4, CallComes DEF quietVars, layerVars
  <2>5. CASE scheduled' = Slots /\ Deconfigure(q) /\ UNCHANGED removeCb
    BY <2>1, <2>3, <2>5, DeconfigureAnswers, CallComes DEF quietVars
  <2>6. QED BY <1>3, <2>2, <2>4, <2>5 DEF DeleteRpc
<1>4. QED BY <1>2, <1>3

\* raid_bdev_remove_base_bdev_on_quiesced, the iteration over the channels, and
\* raid_bdev_remove_base_bdev_on_unquiesced.
LEMMA RemovalGoesOn ==
  ASSUME TypeOK, RInv, NEW i \in Slots, Quiesced(i) \/ ChannelsVisited(i) \/ Unquiesced(i)
  PROVE  RInv' /\ Kept
<1> DEFINE Freed == UNCHANGED <<raidVars, quietVars, layerVars, userVars, attached, answer, shutdown>>
<1>1. CASE Freed BY <1>1, NothingNew DEF raidVars, quietVars, layerVars
<1>2. removal \in [Slots -> {"none", "quiesce", "visit", "unquiesce"}]
      /\ locked \in Slots \cup {None} /\ None \notin Slots
  BY SlotAssumption DEF TypeOK
<1>3. CASE /\ removal[i] = "quiesce" /\ locked = None /\ Iterate(i)
           /\ UNCHANGED <<raidVars, layerVars, answer>>
  <2>1. QuiescedForRemoval' BY <1>2, <1>3 DEF RInv, QuiescedForRemoval, Iterate
  <2>2. UnderWayIsScheduled'
    BY <1>2, <1>3 DEF RInv, UnderWayIsScheduled, Iterate, raidVars
  <2>3. CallersWait' BY <1>2, <1>3 DEF RInv, CallersWait, Waits, Iterate, raidVars, layerVars
  <2>4. CallersDiffer' BY <1>2, <1>3 DEF RInv, CallersDiffer, Iterate, raidVars, layerVars
  <2>5. QED BY <1>3, <2>1, <2>2, <2>3, <2>4 DEF RInv, Kept
<1>4. CASE /\ removal[i] = "visit" /\ removal' = [removal EXCEPT ![i] = "unquiesce"] /\ locked' = None
           /\ UNCHANGED <<raidVars, layerVars, answer>>
  <2>1. locked = i BY <1>4 DEF RInv, QuiescedForRemoval
  <2>2. QuiescedForRemoval' BY <1>2, <1>4, <2>1 DEF RInv, QuiescedForRemoval
  <2>3. UnderWayIsScheduled' BY <1>2, <1>4 DEF RInv, UnderWayIsScheduled, raidVars
  <2>4. CallersWait' BY <1>2, <1>4 DEF RInv, CallersWait, Waits, raidVars, layerVars
  <2>5. CallersDiffer' BY <1>2, <1>4 DEF RInv, CallersDiffer, raidVars, layerVars
  <2>6. QED BY <1>4, <2>2, <2>3, <2>4, <2>5 DEF RInv, Kept
<1>5. CASE /\ removal[i] \in {"quiesce", "unquiesce"} /\ \E res : Answer(removeCb[i], res)
           /\ removal' = [removal EXCEPT ![i] = "none"] /\ scheduled' = scheduled \ {i}
           /\ UNCHANGED <<locked, removeCb, layerVars>>
  BY <1>5, RemovalIsOver DEF layerVars
<1>6. CASE Quiesced(i) BY <1>1, <1>3, <1>5, <1>6 DEF Quiesced, NotQuiesced, Callback
<1>7. CASE ChannelsVisited(i) BY <1>1, <1>4, <1>7 DEF ChannelsVisited, Callback
<1>8. CASE Unquiesced(i) BY <1>1, <1>5, <1>8 DEF Unquiesced, Callback
<1>9. QED BY <1>6, <1>7, <1>8

\* raid_bdev_io_device_unregister_cb answers who waits for the unregistration.
LEMMA DeviceGoneAnswers == ASSUME TypeOK, RInv, DeviceGone PROVE RInv' /\ Kept
<1>1. CASE UNCHANGED <<raidVars, quietVars, layerVars, userVars, attached, answer, shutdown>>
  BY <1>1, NothingNew DEF raidVars, quietVars, layerVars
<1>2. CASE /\ unregCb' = None /\ Answer(unregCb, "ok")
           /\ UNCHANGED <<scheduled, removeCb, quietVars>>
  <2>1. unregCb \in Rpcs \cup {None} /\ \A i \in Slots : removeCb[i] \in Rpcs \cup {None}
    BY DEF TypeOK, Rpcs
  <2>2. \A r \in Rpcs : r # unregCb => answer'[r] = answer[r] BY <1>2, <2>1, AnswerOne
  <2>3. QuiescedForRemoval' /\ UnderWayIsScheduled'
    BY <1>2 DEF RInv, QuiescedForRemoval, UnderWayIsScheduled, quietVars
  <2>4. CallersWait'
    BY <1>2, <2>1, <2>2 DEF RInv, CallersWait, CallersDiffer, Waits, quietVars
  <2>5. CallersDiffer' BY <1>2 DEF RInv, CallersDiffer, quietVars
  <2>6. Kept BY <2>1, <2>2, RpcAssumption DEF RInv, CallersWait, Waits, Kept, Rpcs
  <2>7. QED BY <2>3, <2>4, <2>5, <2>6 DEF RInv
<1>3. QED BY <1>1, <1>2 DEF DeviceGone, Callback

\* rpc_bdev_raid_create only comes when no callback is due.
LEMMA CreateCalls == ASSUME TypeOK, RInv, CreateRaid \/ CreateFails PROVE RInv' /\ Kept
<1>1. \A i \in Slots : removal[i] = "none" BY DEF CreateRaid, CreateFails, Pending
<1>2. UNCHANGED <<removal, locked, unregCb, answer>> BY DEF CreateRaid, CreateFails, quietVars
<1>3. QED
  BY <1>1, <1>2
     DEF RInv, QuiescedForRemoval, UnderWayIsScheduled, CallersWait, CallersDiffer, Waits, Kept

\* The other handlers of bdev_raid.c, and the users.
LEMMA OthersCalls ==
  ASSUME RInv,
         \/ \E i \in Slots : Attach(i) \/ \E t \in Threads : VisitChannel(i, t)
         \/ Destruct \/ ModuleStopped \/ OpenRaid \/ UserLeaves \/ \E t \in Threads : OpenChannel(t)
         \/ FiniStart \/ ModuleExit
  PROVE  RInv' /\ Kept
<1>1. UNCHANGED <<removal, locked, removeCb, unregCb, answer, scheduled>>
  <2>1. CASE \E i \in Slots : Attach(i) BY <2>1 DEF Attach, quietVars
  <2>2. CASE \E i \in Slots, t \in Threads : VisitChannel(i, t)
    BY <2>2 DEF VisitChannel, Callback, raidVars, quietVars, layerVars
  <2>3. CASE Destruct \/ ModuleStopped
    BY <2>3 DEF Destruct, ModuleStopped, Callback, raidVars, quietVars, layerVars
  <2>4. CASE OpenRaid \/ UserLeaves \/ \E t \in Threads : OpenChannel(t)
    BY <2>4 DEF OpenRaid, UserLeaves, CloseRaid, CloseChannel, OpenChannel, Callback,
                raidVars, quietVars, layerVars
  <2>5. CASE FiniStart \/ ModuleExit
    BY <2>5 DEF FiniStart, ModuleExit, raidVars, quietVars, layerVars
  <2>6. QED BY <2>1, <2>2, <2>3, <2>4, <2>5
<1>2. QED BY <1>1, NothingNew

\* The shutdown of the bdev layer unregisters the raid bdev for nobody.
LEMMA LayerCalls == ASSUME RInv, LayerUnregisters PROVE RInv' /\ Kept
<1>1. unregCb' = None /\ UNCHANGED <<raidVars, quietVars, answer>> BY DEF LayerUnregisters
<1>2. QED
  BY <1>1 DEF RInv, QuiescedForRemoval, UnderWayIsScheduled, CallersWait, CallersDiffer, Waits,
              Kept, raidVars, quietVars

\* Each handler preserves the invariant and takes no answer back.
LEMMA NextRInv == TypeOK /\ RInv /\ [Next]_vars => RInv' /\ Kept
<1> SUFFICES ASSUME TypeOK, RInv, [Next]_vars PROVE RInv' /\ Kept OBVIOUS
<1>1. CASE UNCHANGED vars BY <1>1, NothingNew DEF vars, raidVars, quietVars, layerVars
<1>2. ASSUME NEW i \in Slots, HotRemove(i) \/ LayerRemoves(i) PROVE RInv' /\ Kept
  BY <1>2, BaseGoesCalls DEF HotRemove, LayerRemoves
<1>3. ASSUME NEW i \in Slots, Quiesced(i) \/ ChannelsVisited(i) \/ Unquiesced(i) PROVE RInv' /\ Kept
  BY <1>3, RemovalGoesOn
<1>4. QED
  BY <1>1, <1>2, <1>3, RpcCalls, DeviceGoneAnswers, CreateCalls, OthersCalls, LayerCalls
     DEF Next, Progress, Finish

\* Whatever runs into each other, the callers that wait are the ones that have not
\* been answered.
LEMMA InductiveR == Spec => [](TypeOK /\ RInv)
<1>1. TypeOK /\ [Next]_vars /\ RInv => RInv' BY NextRInv
<1>2. QED BY <1>1, InitRInv, TypeCorrect, PTL DEF Spec

\* I/O is held back for the one removal that visits the channels, and let through
\* again on each of its paths (bdev_raid.c:1310).
THEOREM QuiesceIsOwned == Spec => []QuiescedForRemoval
<1>1. RInv => QuiescedForRemoval BY DEF RInv
<1>2. QED BY <1>1, InductiveR, PTL

\* No bdev_raid_delete and no bdev_raid_remove_base_bdev is answered twice: what
\* answers it, remove_cb or the end of the unregistration, is the only one that has
\* it, and has it once.
THEOREM NoSecondAnswer == Spec => AnsweredOnce
<1>1. TypeOK /\ RInv /\ [Next]_vars => [Kept]_vars BY NextRInv
<1>2. QED BY <1>1, InductiveR, PTL DEF Spec, AnsweredOnce, Kept

-----------------------------------------------------------------------------
(* The life of a raid bdev whose removals and deletions come one after the   *)
(* other: it keeps the base bdevs it needs as long as it is online, no        *)
(* assertion fails, no callback finds it freed, and nothing is left of it.    *)

\* Removals and deletions come when no other is under way, users that are told
\* the raid bdev is going open no more channels, and a module that stops on its own
\* time (raid1, raid5f) does start: what follows otherwise is in section 6 of the
\* README.
Orderly ==
  /\ "overlap" \notin Env /\ "late_channel" \notin Env
  /\ "register_fails" \in Env => Levels \cap {"raid1", "raid5f"} = {}

\* Where the raid bdev is with the bdev layer, and what there is of it then.
Life ==
  /\ raid = "freed" => reg = "no" /\ open = {}
  /\ reg = "no" => module = "off" /\ device = "off" /\ (raid = "allocated" => state # "online")
  /\ reg = "yes" => state = "online" /\ module = "on" /\ device = "on"
  /\ reg = "leaving" => /\ state # "configuring" /\ module = "on" /\ device = "on"
                        /\ state = "online" => shutdown
  /\ reg = "destruct" => /\ state = "offline"
                         /\ \/ module = "closing" /\ device = "on"
                            \/ module = "off" /\ device = "closing"
  /\ user => reg \in {"yes", "leaving"}
  /\ chans # {} => user

\* The array can lose the one base bdev whose removal is under way.
Removals ==
  /\ \A i \in Slots : removal[i] # "none" =>
       reg \in {"yes", "leaving"} /\ state = "online" /\ i \in open /\ discovered > MinOperational
  /\ \A i, j \in Slots : removal[i] # "none" /\ removal[j] # "none" => i = j

\* What bdev_raid_delete waits for closes all base bdevs.
Deleting ==
  unregCb \in DeleteRpcs =>
    /\ reg \in {"leaving", "destruct"} /\ \A i \in Slots : removal[i] = "none"
    /\ IF reg = "leaving" THEN scheduled = Slots ELSE open = {}

LInv == Life /\ Removals /\ Deleting /\ OnlineIsOperational /\ Survives

\* What a step may never do.
Released ==
  \A q \in DeleteRpcs : answer'[q] = "ok" /\ answer[q] # "ok" =>
    raid' = "freed" /\ open' = {} /\ reg' = "no"

-----------------------------------------------------------------------------

\* An array needs no more base bdevs than it has slots (bdev_raid.c:986 asserts
\* that it has some).
LEMMA Minimum ==
  ASSUME TypeOK
  PROVE  /\ MinOperational \in Int /\ MinOperational <= Cardinality(Slots)
         /\ Cardinality(Slots) \in Nat /\ discovered \in Int
         /\ level' = level => MinOperational' = MinOperational
<1>1. Cardinality(Slots) \in Nat /\ Cardinality(Slots) # 0
  BY SlotAssumption, FS_CardinalityType, FS_EmptySet
<1>2. MinOperational \in Int /\ MinOperational <= Cardinality(Slots)
  BY <1>1 DEF MinOperational
<1>3. discovered \in Int
  BY <1>1 DEF TypeOK
<1>4. QED
  BY <1>1, <1>2, <1>3 DEF MinOperational

\* The count says whether a base bdev is open.
LEMMA NoneIsOpen ==
  ASSUME TypeOK, DiscoveredCountsOpen
  PROVE  NothingOpen(discovered) <=> open = {}
<1>1. IsFiniteSet(open)
  BY SlotAssumption, FS_Subset DEF TypeOK
<1>2. QED
  BY <1>1, FS_EmptySet DEF DiscoveredCountsOpen, NothingOpen

LEMMA InitLInv == Init => LInv
BY SlotAssumption, RpcAssumption
   DEF Init, LInv, Life, Removals, Deleting, OnlineIsOperational, Survives

\* Steps that leave the raid bdev as it is, and start no removal.
LEMMA Steady ==
  ASSUME TypeOK, LInv, level' = level,
         UNCHANGED <<raid, state, discovered, open, reg, module, device, unregCb>>,
         dead' = dead, shutdown => shutdown', unregCb \in DeleteRpcs => scheduled' = scheduled,
         \A i \in Slots : removal'[i] # "none" => removal[i] # "none",
         user' => user \/ reg = "yes", chans' # {} => user'
  PROVE  LInv'
<1>1. MinOperational' = MinOperational
  BY Minimum
<1>2. Life'
  BY DEF LInv, Life
<1>3. Removals'
  BY <1>1 DEF LInv, Removals
<1>4. Deleting'
  BY DEF LInv, Deleting
<1>5. OnlineIsOperational' /\ Survives'
  BY <1>1 DEF LInv, OnlineIsOperational, Survives
<1>6. QED
  BY <1>2, <1>3, <1>4, <1>5 DEF LInv

\* Steps that find nothing under way and leave nothing: what there is of the raid
\* bdev waits for base bdevs or lost one too many.
LEMMA AtRest ==
  ASSUME TypeOK, LInv, reg = "no"
  PROVE  /\ module = "off" /\ device = "off" /\ user = FALSE /\ chans = {} /\ unregCb \notin DeleteRpcs
         /\ \A i \in Slots : removal[i] = "none"
         /\ raid = "allocated" => state # "online"
BY DEF TypeOK, LInv, Life, Removals, Deleting

LEMMA RestGoesOn ==
  ASSUME TypeOK, LInv, reg = "no", level' = level, reg' = "no", module' = "off", device' = "off",
         user' = user, chans' = chans, UNCHANGED <<unregCb, removal>>, dead' = dead,
         raid' = "freed" => open' = {}, raid' = "allocated" => state' # "online",
         raid' \in {"allocated", "freed"}
  PROVE  LInv'
<1>1. /\ module = "off" /\ device = "off" /\ user = FALSE /\ chans = {} /\ unregCb \notin DeleteRpcs
      /\ \A i \in Slots : removal[i] = "none"
  BY AtRest
<1>2. Life' /\ Removals' /\ Deleting'
  BY <1>1 DEF Life, Removals, Deleting
<1>3. QED
  BY <1>2 DEF LInv, OnlineIsOperational, Survives

\* An answer to a bdev_raid_remove_base_bdev is none to a bdev_raid_delete.
LEMMA OthersAnswered ==
  ASSUME NEW q \in RemoveRpcs \cup {None}, NEW res, Answer(q, res), TypeOK
  PROVE  \A d \in DeleteRpcs : answer'[d] = answer[d]
BY RpcAssumption DEF Answer, TypeOK, Rpcs

\* Nothing is under way that a removal or a deletion could run into.
LEMMA CalmMeans ==
  ASSUME Orderly, Calm
  PROVE  /\ reg \notin {"leaving", "destruct"} /\ module # "closing"
         /\ \A i \in Slots : removal[i] = "none"
BY DEF Orderly, Calm

\* raid_bdev_cleanup_and_free: its assertions hold of a raid bdev that is not
\* online and has no base bdev open.
LEMMA CleanlyFreed ==
  ASSUME CleanupAndFree, state' # "online", open' = {}
  PROVE  raid' = "freed" /\ dead' = dead
BY DEF CleanupAndFree

LEMMA CreateLife ==
  ASSUME Orderly, IInv, LInv, level' = level, CreateRaid \/ CreateFails
  PROVE  LInv' /\ Released
<1>1. TypeOK /\ raid = "freed" /\ reg = "no" /\ open = {} /\ answer' = answer /\ dead' = dead
      /\ UNCHANGED <<quietVars, unregCb, userVars>>
  BY DEF IInv, TypeOK, LInv, Life, CreateRaid, CreateFails
<1>2. /\ module = "off" /\ device = "off" /\ user = FALSE /\ chans = {} /\ unregCb \notin DeleteRpcs
      /\ \A i \in Slots : removal[i] = "none"
  BY <1>1, AtRest
<1>3. Released
  BY <1>1 DEF Released
<1>4. CASE CreateFails
  <2>1. module' = "off"
    <3>1. "register_fails" \in Env => ~AsyncStop
      BY <1>1 DEF Orderly, AsyncStop, TypeOK
    <3>2. QED
      BY <3>1, <1>2, <1>4 DEF CreateFails
  <2>2. /\ raid' = "freed" /\ open' = {} /\ reg' = "no" /\ device' = "off" /\ user' = user
        /\ chans' = chans /\ unregCb' = unregCb /\ removal' = removal
    BY <1>1, <1>2, <1>4 DEF CreateFails, quietVars, userVars
  <2>3. QED
    BY <1>1, <1>3, <2>1, <2>2, RestGoesOn
<1>5. CASE CreateRaid /\ attached # Slots
  <2>1. /\ raid' = "allocated" /\ state' = "configuring" /\ reg' = "no" /\ module' = "off"
        /\ device' = "off" /\ user' = user /\ chans' = chans /\ unregCb' = unregCb /\ removal' = removal
    BY <1>1, <1>2, <1>5 DEF CreateRaid, quietVars, userVars
  <2>2. QED
    BY <1>1, <1>3, <2>1, RestGoesOn
<1>6. CASE CreateRaid /\ attached = Slots
  <2>1. /\ raid' = "allocated" /\ state' = "online" /\ reg' = "yes" /\ module' = "on" /\ device' = "on"
        /\ discovered' = Cardinality(Slots) /\ user' = user /\ chans' = chans /\ unregCb' = unregCb
        /\ removal' = removal
    BY <1>1, <1>2, <1>6 DEF CreateRaid, quietVars, userVars
  <2>2. Life' /\ Removals' /\ Deleting'
    BY <1>1, <1>2, <2>1 DEF Life, Removals, Deleting
  <2>3. OnlineIsOperational' /\ Survives'
    BY <1>1, <2>1, Minimum DEF OnlineIsOperational, Survives, LInv
  <2>4. QED
    BY <1>3, <2>2, <2>3 DEF LInv
<1>7. QED
  BY <1>4, <1>5, <1>6

\* A base bdev that comes finds the array configuring, if the array waits for it.
LEMMA AttachLife ==
  ASSUME Orderly, IInv, LInv, level' = level, NEW i \in Slots, Attach(i)
  PROVE  LInv' /\ Released
<1>1. TypeOK /\ answer' = answer /\ UNCHANGED <<raid, named, scheduled, quietVars, unregCb, userVars, shutdown>>
  BY DEF IInv, Attach
<1>2. Released
  BY <1>1 DEF Released
<1>3. CASE UNCHANGED <<open, discovered, invalid, state, reg, module, device, dead>>
  BY <1>1, <1>2, <1>3, Steady DEF quietVars, userVars, LInv, Life
<1>4. CASE raid = "allocated" /\ i \in named /\ i \notin open /\ ConfigureBase(i)
  <2>1. state = "configuring" /\ reg = "no"
    BY <1>1, <1>4 DEF IInv, TypeOK, StaysAssembled, RegisteredWasUp
  <2>2. /\ module = "off" /\ device = "off" /\ user = FALSE /\ chans = {} /\ unregCb \notin DeleteRpcs
        /\ \A j \in Slots : removal[j] = "none"
    BY <1>1, <2>1, AtRest
  <2>3. dead' = dead /\ raid' = "allocated" /\ discovered' = discovered + 1
    BY <1>1, <1>4, <2>1 DEF ConfigureBase
  <2>4. CASE state' = "configuring" /\ reg' = "no" /\ module' = "off" /\ device' = "off"
    BY <1>1, <1>2, <2>1, <2>3, <2>4, RestGoesOn DEF quietVars, userVars
  <2>5. CASE /\ state' = "online" /\ reg' = "yes" /\ module' = "on" /\ device' = "on"
             /\ discovered + 1 = Cardinality(Slots)
    <3>1. Life' /\ Removals' /\ Deleting'
      BY <1>1, <2>2, <2>3, <2>5 DEF Life, Removals, Deleting, quietVars, userVars
    <3>2. OnlineIsOperational' /\ Survives'
      BY <1>1, <2>3, <2>5, Minimum DEF OnlineIsOperational, Survives, LInv
    <3>3. QED
      BY <1>2, <3>1, <3>2 DEF LInv
  <2>6. \/ state' = "configuring" /\ reg' = "no" /\ module' = "off" /\ device' = "off"
        \/ /\ state' = "online" /\ reg' = "yes" /\ module' = "on" /\ device' = "on"
           /\ discovered + 1 = Cardinality(Slots)
    <3>1. "register_fails" \in Env => ~AsyncStop
      BY <1>1 DEF Orderly, AsyncStop, TypeOK
    <3>2. QED
      BY <3>1, <1>4, <2>1, <2>2 DEF ConfigureBase, Configure
  <2>7. QED
    BY <2>4, <2>5, <2>6
<1>5. QED
  BY <1>3, <1>4 DEF Attach

\* raid_bdev_remove_base_bdev of an array nothing else happens to.
LEMMA RemoveBaseBdevLife ==
  ASSUME Orderly, IInv, IInv', LInv, level' = level, NEW i \in Slots, NEW q \in RemoveRpcs \cup {None},
         RemoveBaseBdev(i, q), raid = "allocated", i \in open, UNCHANGED <<userVars, shutdown>>,
         reg \in {"no", "yes"}, \A j \in Slots : removal[j] = "none"
  PROVE  LInv' /\ Released
<1>1. TypeOK /\ q \notin DeleteRpcs
  BY RpcAssumption DEF IInv
<1>2. Released
  <2>1. \E res : Answer(q, res)
    BY DEF RemoveBaseBdev, Deconfigure
  <2>2. QED
    BY <2>1, <1>1, OthersAnswered DEF Released
<1>3. CASE i \in scheduled
  BY <1>1, <1>2, <1>3, Steady DEF RemoveBaseBdev, raidVars, quietVars, layerVars, userVars, LInv, Life
<1>4. CASE i \notin scheduled /\ state # "online"
  <2>1. reg = "no"
    BY <1>4 DEF LInv, Life
  <2>2. /\ FreeResources({i}) /\ state' = state /\ UNCHANGED <<quietVars, layerVars>>
        /\ IF NothingOpen(discovered') THEN CleanupAndFree ELSE UNCHANGED <<raid, dead>>
    BY <1>4 DEF RemoveBaseBdev
  <2>3. NothingOpen(discovered') <=> open' = {}
    <3>1. open' \subseteq Slots /\ discovered' = Cardinality(open')
      BY DEF IInv, TypeOK, DiscoveredCountsOpen
    <3>2. IsFiniteSet(open')
      BY <3>1, SlotAssumption, FS_Subset
    <3>3. QED
      BY <3>1, <3>2, FS_EmptySet DEF NothingOpen
  <2>4. CASE open' = {}
    <3>1. raid' = "freed" /\ dead' = dead
      BY <1>4, <2>2, <2>3, <2>4, CleanlyFreed
    <3>2. QED
      BY <1>1, <1>2, <1>4, <2>1, <2>2, <2>4, <3>1, AtRest, RestGoesOn DEF quietVars, layerVars, userVars
  <2>5. CASE open' # {}
    BY <1>1, <1>2, <1>4, <2>1, <2>2, <2>3, <2>5, AtRest, RestGoesOn DEF quietVars, layerVars, userVars
  <2>6. QED
    BY <2>4, <2>5
<1>5. CASE i \notin scheduled /\ state = "online" /\ TooFew
  <2>1. reg = "yes"
    BY <1>5 DEF LInv, Life
  <2>2. Deconfigure(q) /\ UNCHANGED <<raid, discovered, open, quietVars, module, device, dead>>
    BY <1>5 DEF RemoveBaseBdev
  <2>3. state' = "offline" /\ reg' = "leaving" /\ unregCb' = q
    BY <1>5, <2>1, <2>2 DEF Deconfigure
  <2>4. Life' /\ Removals' /\ Deleting'
    BY <1>1, <2>1, <2>2, <2>3 DEF LInv, Life, Removals, Deleting, quietVars, userVars
  <2>5. QED
    BY <1>2, <2>2, <2>3, <2>4 DEF LInv, OnlineIsOperational, Survives
<1>6. CASE i \notin scheduled /\ state = "online" /\ ~TooFew
  <2>1. reg = "yes" /\ discovered > MinOperational
    BY <1>1, <1>6, Minimum DEF LInv, Life, OnlineIsOperational, TooFew
  <2>2. /\ UNCHANGED <<raid, state, discovered, open, layerVars, dead>>
        /\ removal' \in {removal, [removal EXCEPT ![i] = "quiesce"]}
    BY <1>6 DEF RemoveBaseBdev
  <2>3. \A j \in Slots : removal'[j] # "none" => j = i
    BY <1>1, <2>2 DEF TypeOK
  <2>4. MinOperational' = MinOperational
    BY <1>1, Minimum
  <2>5. Life' /\ Removals' /\ Deleting'
    BY <2>1, <2>2, <2>3, <2>4 DEF LInv, Life, Removals, Deleting, layerVars, userVars
  <2>6. QED
    BY <1>2, <2>2, <2>4, <2>5 DEF LInv, OnlineIsOperational, Survives
<1>7. QED
  BY <1>3, <1>4, <1>5, <1>6 DEF RemoveBaseBdev

LEMMA BaseGoesLife ==
  ASSUME Orderly, IInv, IInv', LInv, level' = level, NEW i \in Slots, BaseGoes(i), shutdown' = shutdown,
         reg \in {"no", "yes"}, \A j \in Slots : removal[j] = "none"
  PROVE  LInv' /\ Released
<1>1. CASE raid = "allocated" /\ i \in open /\ RemoveBaseBdev(i, None)
  BY <1>1, RemoveBaseBdevLife DEF BaseGoes
<1>2. CASE UNCHANGED <<raidVars, quietVars, layerVars, answer, dead>>
  BY <1>2, Steady DEF BaseGoes, raidVars, quietVars, layerVars, userVars, LInv, Life, Released, IInv
<1>3. QED
  BY <1>1, <1>2 DEF BaseGoes

LEMMA RemoveLife ==
  ASSUME Orderly, IInv, IInv', LInv, level' = level, NEW i \in Slots,
         HotRemove(i) \/ LayerRemoves(i) \/ \E q \in RemoveRpcs : RemoveRpc(q, i)
  PROVE  LInv' /\ Released
<1>1. CASE HotRemove(i)
  <2>1. reg \in {"no", "yes"} /\ \A j \in Slots : removal[j] = "none"
    BY <1>1, CalmMeans DEF HotRemove, IInv, TypeOK
  <2>2. QED
    BY <1>1, <2>1, BaseGoesLife DEF HotRemove, BaseGoes
<1>2. CASE LayerRemoves(i)
  <2>1. reg = "no" /\ \A j \in Slots : removal[j] = "none"
    BY <1>2, AtRest DEF LayerRemoves, IInv
  <2>2. QED
    BY <1>2, <2>1, BaseGoesLife DEF LayerRemoves, BaseGoes
<1>3. ASSUME NEW q \in RemoveRpcs, RemoveRpc(q, i)  PROVE LInv' /\ Released
  <2>1. reg \in {"no", "yes"} /\ \A j \in Slots : removal[j] = "none"
    BY <1>3, CalmMeans DEF RemoveRpc, IInv, TypeOK
  <2>2. CASE raid = "allocated" /\ i \in open /\ RemoveBaseBdev(i, q)
    BY <1>3, <2>1, <2>2, RemoveBaseBdevLife DEF RemoveRpc
  <2>3. CASE Answer(q, "error") /\ UNCHANGED <<raidVars, quietVars, layerVars, dead>>
    <3>1. Released
      BY <2>3, OthersAnswered DEF IInv, Released
    <3>2. QED
      BY <1>3, <2>3, <3>1, Steady DEF RemoveRpc, raidVars, quietVars, layerVars, userVars, LInv, Life, IInv
  <2>4. QED
    BY <1>3, <2>2, <2>3 DEF RemoveRpc
<1>4. QED
  BY <1>1, <1>2, <1>3

\* What comes of a removal that was started.
LEMMA RemovalLife ==
  ASSUME Orderly, IInv, IInv', LInv, level' = level, NEW i \in Slots,
         \/ Quiesced(i) \/ ChannelsVisited(i) \/ Unquiesced(i)
         \/ \E t \in Threads : VisitChannel(i, t)
  PROVE  LInv' /\ Released
<1>1. TypeOK /\ removal \in [Slots -> {"none", "quiesce", "visit", "unquiesce"}]
      /\ removeCb[i] \in RemoveRpcs \cup {None}
  BY DEF IInv, TypeOK
<1>2. removal[i] # "none"
  BY DEF Quiesced, ChannelsVisited, Unquiesced, VisitChannel, Callback
<1>3. /\ reg \in {"yes", "leaving"} /\ state = "online" /\ i \in open /\ discovered > MinOperational
      /\ unregCb \notin DeleteRpcs /\ raid = "allocated"
      /\ \A j \in Slots \ {i} : removal[j] = "none"
  BY <1>1, <1>2 DEF LInv, Life, Removals, Deleting, TypeOK
<1>4. CASE Quiesced(i) \/ ChannelsVisited(i) \/ \E t \in Threads : VisitChannel(i, t)
  <2>1. /\ UNCHANGED <<raid, state, discovered, open, layerVars, dead, shutdown, user, chans>>
        /\ removal' = removal \/ \E v : removal' = [removal EXCEPT ![i] = v]
        /\ UNCHANGED answer \/ Answer(removeCb[i], "error")
    BY <1>3, <1>4 DEF Quiesced, ChannelsVisited, VisitChannel, Callback, Iterate, NotQuiesced,
                      raidVars, userVars
  <2>2. \A j \in Slots : removal'[j] # "none" => removal[j] # "none"
    BY <1>1, <1>2, <2>1
  <2>3. Released
    BY <1>1, <2>1, OthersAnswered DEF Released
  <2>4. QED
    BY <1>1, <1>3, <2>1, <2>2, <2>3, Steady DEF layerVars, LInv, Life
<1>5. CASE Unquiesced(i)
  <2>1. /\ UNCHANGED <<raid, state, layerVars, dead, shutdown, user, chans>>
        /\ removal' = [removal EXCEPT ![i] = "none"]
        /\ \/ FreeResources({i}) /\ Answer(removeCb[i], "ok")
           \/ Answer(removeCb[i], "error") /\ UNCHANGED <<open, discovered>>
    BY <1>3, <1>5 DEF Unquiesced, Callback, userVars
  <2>2. Released
    BY <1>1, <2>1, OthersAnswered DEF Released
  <2>3. discovered' >= MinOperational
    <3>1. {i} \cap open = {i} /\ Cardinality({i}) = 1
      BY <1>3, FS_Singleton
    <3>2. discovered' \in {discovered, discovered - 1}
      BY <2>1, <3>1 DEF FreeResources
    <3>3. QED
      BY <1>1, <1>3, <3>2, Minimum
  <2>4. \A j \in Slots : removal'[j] = "none"
    BY <1>1, <1>3, <2>1
  <2>5. Life' /\ Removals' /\ Deleting'
    BY <1>3, <2>1, <2>4 DEF LInv, Life, Removals, Deleting, layerVars
  <2>6. MinOperational' = MinOperational
    BY <1>1, Minimum
  <2>7. QED
    BY <2>1, <2>2, <2>3, <2>5, <2>6 DEF LInv, OnlineIsOperational, Survives
<1>6. QED
  BY <1>4, <1>5

\* rpc_bdev_raid_delete
LEMMA DeleteLife ==
  ASSUME Orderly, IInv, IInv', LInv, level' = level, NEW q \in DeleteRpcs, DeleteRpc(q)
  PROVE  LInv' /\ Released
<1>1. TypeOK /\ q # None /\ q \in Rpcs
  BY RpcAssumption DEF IInv, Rpcs
<1>2. /\ reg \in {"no", "yes"} /\ (\A j \in Slots : removal[j] = "none")
      /\ UNCHANGED <<quietVars, userVars, shutdown>>
  BY <1>1, CalmMeans DEF DeleteRpc, TypeOK
<1>3. CASE Answer(q, "error") /\ UNCHANGED <<raidVars, layerVars, dead>>
  <2>1. Released
    BY <1>1, <1>3 DEF Answer, Released, TypeOK
  <2>2. QED
    BY <1>1, <1>2, <1>3, <2>1, Steady DEF raidVars, quietVars, layerVars, userVars, LInv, Life
<1>4. CASE /\ state # "online" /\ FreeResources(Slots) /\ UNCHANGED state
           /\ CleanupAndFree /\ UNCHANGED layerVars
  <2>1. reg = "no"
    BY <1>2, <1>4 DEF LInv, Life
  <2>2. open' = {}
    BY <1>1, <1>4 DEF FreeResources, TypeOK
  <2>3. raid' = "freed" /\ dead' = dead
    BY <1>4, <2>2, CleanlyFreed
  <2>4. Released
    BY <1>4, <2>1, <2>2, <2>3 DEF Released, layerVars
  <2>5. QED
    BY <1>1, <1>2, <1>4, <2>1, <2>2, <2>3, <2>4, AtRest, RestGoesOn DEF layerVars, quietVars, userVars
<1>5. CASE /\ state = "online" /\ scheduled' = Slots /\ raid = "allocated"
           /\ Deconfigure(q) /\ UNCHANGED <<raid, discovered, open, module, device, dead>>
  <2>1. reg = "yes"
    BY <1>2, <1>5 DEF LInv, Life
  <2>2. state' = "offline" /\ reg' = "leaving" /\ unregCb' = q /\ Answer(q, "waiting")
    BY <1>5, <2>1 DEF Deconfigure
  <2>3. Life' /\ Removals' /\ Deleting'
    BY <1>2, <1>5, <2>1, <2>2 DEF LInv, Life, Removals, Deleting, quietVars, userVars
  <2>4. Released
    BY <1>1, <2>2 DEF Answer, Released, TypeOK
  <2>5. QED
    BY <1>5, <2>2, <2>3, <2>4 DEF LInv, OnlineIsOperational, Survives
<1>6. QED
  BY <1>3, <1>4, <1>5 DEF DeleteRpc

\* _raid_bdev_destruct
LEMMA DestructLife ==
  ASSUME Orderly, IInv, IInv', LInv, level' = level, Destruct
  PROVE  LInv' /\ Released
<1>1. reg = "leaving" /\ user = FALSE /\ \A i \in Slots : removal[i] = "none"
  BY DEF Destruct, Callback, IInv, TypeOK
<1>2. raid = "allocated" /\ chans = {} /\ module = "on" /\ device = "on" /\ state # "configuring"
      /\ (state = "online" => shutdown)
  BY <1>1 DEF LInv, Life, IInv, TypeOK
<1>3. /\ reg' = "destruct" /\ FreeResources(ToClose) /\ state' = IF shutdown THEN "offline" ELSE state
      /\ \/ AsyncStop /\ module' = "closing" /\ UNCHANGED device
         \/ ~AsyncStop /\ module' = "off" /\ StopDone(state')
      /\ UNCHANGED <<raid, scheduled, quietVars, unregCb, userVars, answer, shutdown, dead>>
  BY <1>1, <1>2 DEF Destruct, Callback
<1>4. state' = "offline"
  BY <1>2, <1>3 DEF IInv, TypeOK
<1>5. \/ module' = "closing" /\ device' = "on"
      \/ module' = "off" /\ device' = "closing"
  BY <1>2, <1>3, <1>4 DEF StopDone
<1>6. unregCb \in DeleteRpcs => open' = {}
  <2>1. unregCb \in DeleteRpcs => ToClose = Slots
    BY <1>1 DEF LInv, Deleting, ToClose
  <2>2. QED
    BY <2>1, <1>3 DEF FreeResources, IInv, TypeOK
<1>7. Life' /\ Removals' /\ Deleting'
  BY <1>1, <1>2, <1>3, <1>4, <1>5, <1>6 DEF Life, Removals, Deleting, quietVars, userVars
<1>8. Released
  BY <1>3 DEF Released
<1>9. QED
  BY <1>3, <1>4, <1>7, <1>8 DEF LInv, OnlineIsOperational, Survives

\* What the destruct callback waits for: the io_devices of the module, and of the
\* raid bdev.
LEMMA TeardownLife ==
  ASSUME Orderly, IInv, IInv', LInv, level' = level, ModuleStopped \/ DeviceGone
  PROVE  LInv' /\ Released
<1>1. TypeOK /\ (module = "closing" \/ device = "closing")
  BY DEF ModuleStopped, DeviceGone, Callback, IInv
<1>2. /\ reg = "destruct" /\ raid = "allocated" /\ user = FALSE /\ chans = {} /\ state = "offline"
      /\ \A i \in Slots : removal[i] = "none"
  BY <1>1 DEF LInv, Life, Removals, TypeOK
<1>3. CASE ModuleStopped
  <2>1. /\ module' = "off" /\ device' = "closing"
        /\ UNCHANGED <<raidVars, quietVars, reg, unregCb, userVars, answer, shutdown, dead>>
    BY <1>2, <1>3 DEF ModuleStopped, Callback, StopDone
  <2>2. Life' /\ Removals' /\ Deleting'
    BY <1>2, <2>1 DEF LInv, Life, Removals, Deleting, raidVars, quietVars, userVars
  <2>3. QED
    BY <1>2, <2>1, <2>2 DEF LInv, OnlineIsOperational, Survives, Released, raidVars
<1>4. CASE DeviceGone
  <2>1. /\ device = "closing" /\ device' = "off" /\ reg' = "no" /\ unregCb' = None
        /\ Answer(unregCb, "ok") /\ UNCHANGED <<state, open, discovered, quietVars, module, userVars, shutdown>>
        /\ IF NothingOpen(discovered) THEN CleanupAndFree ELSE UNCHANGED <<raid, dead>>
    BY <1>2, <1>4 DEF DeviceGone, Callback
  <2>2. module' = "off" /\ None \notin DeleteRpcs
    BY <1>2, <2>1, RpcAssumption DEF LInv, Life
  <2>3. NothingOpen(discovered) <=> open = {}
    BY NoneIsOpen DEF IInv
  <2>4. IF open = {} THEN raid' = "freed" /\ dead' = dead ELSE UNCHANGED <<raid, dead>>
    BY <1>2, <2>1, <2>3, CleanlyFreed
  <2>5. Life' /\ Removals' /\ Deleting'
    BY <1>2, <2>1, <2>2, <2>4 DEF Life, Removals, Deleting, quietVars, userVars
  <2>6. Released
    <3>1. ASSUME NEW q \in DeleteRpcs, answer'[q] = "ok", answer[q] # "ok"  PROVE unregCb = q
      BY <3>1, <2>1, <1>1 DEF Answer, TypeOK, Rpcs
    <3>2. unregCb \in DeleteRpcs => open = {}
      BY <1>2 DEF LInv, Deleting
    <3>3. QED
      BY <2>1, <2>4, <3>1, <3>2 DEF Released
  <2>7. QED
    BY <1>2, <2>1, <2>4, <2>5, <2>6 DEF LInv, OnlineIsOperational, Survives
<1>5. QED
  BY <1>3, <1>4

\* Users, and the end of the bdev layer.
LEMMA UsersLife ==
  ASSUME Orderly, IInv, IInv', LInv, level' = level,
         OpenRaid \/ UserLeaves \/ FiniStart \/ \E t \in Threads : OpenChannel(t)
  PROVE  LInv' /\ Released
<1>1. TypeOK
  BY DEF IInv
<1>2. CASE OpenRaid \/ UserLeaves \/ FiniStart
  <2>1. /\ UNCHANGED <<raidVars, quietVars, layerVars, answer, dead>> /\ (shutdown => shutdown')
        /\ user' => user \/ reg = "yes"
        /\ chans' # {} => user'
    BY <1>2 DEF OpenRaid, UserLeaves, CloseRaid, CloseChannel, FiniStart, userVars, LInv, Life
  <2>2. QED
    BY <1>1, <2>1, Steady DEF raidVars, quietVars, layerVars, Released
<1>3. ASSUME NEW t \in Threads, OpenChannel(t)  PROVE LInv' /\ Released
  <2>1. user /\ reg = "yes"
    BY <1>3 DEF OpenChannel, Callback, Orderly
  <2>2. raid = "allocated" /\ state = "online"
    BY <2>1, <1>1 DEF LInv, Life, TypeOK
  <2>3. UNCHANGED <<raidVars, quietVars, layerVars, user, answer, shutdown, dead>>
    BY <1>3, <2>2 DEF OpenChannel, Callback
  <2>4. QED
    BY <1>1, <2>1, <2>3, Steady DEF raidVars, quietVars, layerVars, Released
<1>4. QED
  BY <1>2, <1>3

LEMMA FinishLife ==
  ASSUME Orderly, IInv, IInv', LInv, level' = level, LayerUnregisters \/ ModuleExit
  PROVE  LInv' /\ Released
<1>1. TypeOK /\ answer' = answer /\ shutdown = TRUE /\ shutdown' = TRUE
      /\ UNCHANGED <<quietVars, userVars, discovered>>
  BY DEF IInv, TypeOK, LayerUnregisters, ModuleExit, raidVars
<1>2. CASE LayerUnregisters
  <2>1. reg = "yes" /\ reg' = "leaving" /\ unregCb' = None /\ UNCHANGED <<raidVars, module, device, dead>>
    BY <1>2 DEF LayerUnregisters
  <2>2. None \notin DeleteRpcs /\ MinOperational' = MinOperational
    BY <1>1, RpcAssumption, Minimum
  <2>3. Life' /\ Removals' /\ Deleting'
    BY <1>1, <2>1, <2>2 DEF LInv, Life, Removals, Deleting, raidVars, quietVars, userVars
  <2>4. QED
    BY <1>1, <2>1, <2>2, <2>3 DEF LInv, OnlineIsOperational, Survives, Released, raidVars
<1>3. CASE ModuleExit
  <2>1. reg = "no" /\ open' = {} /\ raid = "allocated" /\ CleanupAndFree
        /\ UNCHANGED <<state, layerVars>>
    BY <1>3 DEF ModuleExit
  <2>2. /\ module = "off" /\ device = "off" /\ user = FALSE /\ chans = {} /\ unregCb \notin DeleteRpcs
        /\ state # "online"
    BY <1>1, <2>1, AtRest
  <2>3. raid' = "freed" /\ dead' = dead
    BY <2>1, <2>2, CleanlyFreed
  <2>4. QED
    BY <1>1, <2>1, <2>2, <2>3, RestGoesOn DEF layerVars, quietVars, userVars, Released
<1>4. QED
  BY <1>2, <1>3

LEMMA NextLInv ==
  ASSUME Orderly, IInv, LInv, [Next]_vars
  PROVE  LInv' /\ Released
<1>1. level' = level /\ IInv' /\ TypeOK
  BY NextIInv DEF Next, vars, IInv
<1>2. CASE UNCHANGED vars
  BY <1>1, <1>2, Steady DEF vars, raidVars, quietVars, layerVars, userVars, LInv, Life, Released
<1>3. ASSUME NEW i \in Slots,
             \/ HotRemove(i) \/ LayerRemoves(i) \/ Quiesced(i) \/ ChannelsVisited(i) \/ Unquiesced(i)
             \/ (\E q \in RemoveRpcs : RemoveRpc(q, i)) \/ \E t \in Threads : VisitChannel(i, t)
      PROVE  LInv' /\ Released
  BY <1>1, <1>3, RemoveLife, RemovalLife
<1>4. QED
  BY <1>1, <1>2, <1>3, CreateLife, AttachLife, DeleteLife, DestructLife, TeardownLife, UsersLife, FinishLife
     DEF Next, Progress, Finish

LEMMA InductiveL == ASSUME Orderly PROVE Spec => [](IInv /\ LInv)
<1>1. IInv /\ LInv /\ [Next]_vars => LInv'
  BY NextLInv
<1>2. QED
  BY <1>1, InitLInv, Inductive, PTL DEF Spec

\* No assertion of bdev_raid.c fails, and no callback of the bdev layer or of a module
\* finds the raid bdev freed.
THEOREM SurvivesAlways == ASSUME Orderly PROVE Spec => []Survives
<1>1. LInv => Survives
  BY DEF LInv
<1>2. QED
  BY <1>1, InductiveL, PTL

\* raid_bdev_remove_base_bdev gives an array up before it has too few base bdevs
\* (bdev_raid.c:1386), and no removal that is under way takes it below that later.
THEOREM OperationalAlways == ASSUME Orderly PROVE Spec => []OnlineIsOperational
<1>1. LInv => OnlineIsOperational
  BY DEF LInv
<1>2. QED
  BY <1>1, InductiveL, PTL

\* raid_bdev_free is reached when no base bdev is open, no channel and no user is
\* left, and no callback is due.
THEOREM ForgottenWhenFreed == ASSUME Orderly PROVE Spec => []FreedIsForgotten
<1>1. ASSUME IInv, LInv  PROVE FreedIsForgotten
  <2>1. SUFFICES ASSUME raid = "freed"  PROVE open = {} /\ chans = {} /\ ~user /\ ~Pending
    BY DEF FreedIsForgotten
  <2>2. reg = "no" /\ open = {}
    BY <1>1, <2>1 DEF LInv, Life
  <2>3. QED
    BY <1>1, <2>2, AtRest DEF IInv, Pending
<1>2. QED
  BY <1>1, InductiveL, PTL

\* rpc_bdev_raid_delete is answered with success when raid_bdev_free has been reached
\* and no base bdev is claimed any more.
THEOREM DeletedMeansReleased == ASSUME Orderly PROVE Spec => DeleteReleases
<1>1. ASSUME IInv, LInv, [Next]_vars  PROVE [Released]_vars
  BY <1>1, NextLInv
<1>2. QED
  BY <1>1, InductiveL, PTL DEF Spec, DeleteReleases, Released

=============================================================================
