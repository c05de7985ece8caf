-------------------------- MODULE PassthruBdevProofs --------------------------
(* Proofs about PassthruBdev, for any number of passthru and base bdevs, of *)
(* deletions, and whatever fails: who owns the claim of a base bdev, and    *)
(* that a deleted passthru bdev stays away.                                 *)
EXTENDS PassthruBdev, FiniteSetTheorems, SequenceTheorems, TLAPS

Typed ==
  /\ names \in Seq([v : Names, base : BaseNames])
  /\ nodes \subseteq NodeRecord
  /\ claim \in [Bases -> {"none", "passthru", "other"}] /\ lost \subseteq Bases

\* A base bdev has one node, which has claimed it, or the claim is that of a failed
\* registration, and no node can be made any more.
OneNode == \A n, m \in nodes : n.x = m.x => n = m
Owned   == \A x \in Bases : /\ claim[x] = "passthru" <=> x \in lost \/ \E n \in nodes : n.x = x
                            /\ ~(x \in lost /\ \E n \in nodes : n.x = x)

\* A name is once in the list - so that a deletion takes it all out -, and none of
\* those that wait there for a base bdev has been deleted.
NamesDiffer == \A j, k \in DOMAIN names : names[j].v = names[k].v => j = k
NoneDeleted == \A k \in DOMAIN names : names[k].v \notin deleted

PInv == Typed /\ OneNode /\ Owned /\ NamesDiffer /\ NoneDeleted /\ DeletedStaysAway

-----------------------------------------------------------------------------
(* The list of names.                                                       *)

\* vbdev_passthru_insert_name refuses a name that is there.
LEMMA AppendDiffers ==
  ASSUME NEW S, NEW s \in Seq(S), NEW e \in S
  PROVE  /\ Append(s, e) \in Seq(S)
         /\ \A k \in DOMAIN Append(s, e) : \/ k \in DOMAIN s /\ Append(s, e)[k] = s[k]
                                           \/ k = Len(s) + 1 /\ Append(s, e)[k] = e
OBVIOUS

\* TAILQ_REMOVE leaves the other names in their order.
LEMMA WithoutKeeps ==
  ASSUME NEW S, NEW s \in Seq(S), NEW k \in DOMAIN s
  PROVE  /\ Without(s, k) \in Seq(S)
         /\ \A j \in DOMAIN Without(s, k) :
              Without(s, k)[j] = s[IF j < k THEN j ELSE j + 1]
              /\ (IF j < k THEN j ELSE j + 1) \in DOMAIN s \ {k}
<1> DEFINE a == SubSeq(s, 1, k - 1)
           b == SubSeq(s, k + 1, Len(s))
<1>1. k \in 1 .. Len(s) /\ Len(s) \in Nat BY LenProperties
<1>2. a \in Seq(S) /\ Len(a) = k - 1 /\ \A j \in 1 .. k - 1 : a[j] = s[j] BY <1>1
<1>3. b \in Seq(S) /\ Len(b) = Len(s) - k /\ \A j \in 1 .. Len(s) - k : b[j] = s[k + j] BY <1>1
<1>4. Without(s, k) = a \o b BY DEF Without
<1> HIDE DEF a, b
<1>5. /\ a \o b \in Seq(S) /\ Len(a \o b) = Len(s) - 1
      /\ \A j \in 1 .. Len(s) - 1 : (a \o b)[j] = IF j <= Len(a) THEN a[j] ELSE b[j - Len(a)]
  <2>1. Len(a) + Len(b) = Len(s) - 1 BY <1>1, <1>2, <1>3
  <2>2. /\ a \o b \in Seq(S) /\ Len(a \o b) = Len(a) + Len(b)
        /\ \A j \in 1 .. Len(a) + Len(b) : (a \o b)[j] = IF j <= Len(a) THEN a[j] ELSE b[j - Len(a)]
    BY <1>2, <1>3, ConcatProperties, Zenon
  <2>3. QED BY <2>1, <2>2, Zenon
<1>6. \A j \in 1 .. Len(s) - 1 : (a \o b)[j] = s[IF j < k THEN j ELSE j + 1]
  <2>1. SUFFICES ASSUME NEW j \in 1 .. Len(s) - 1
                 PROVE  (a \o b)[j] = s[IF j < k THEN j ELSE j + 1]
    OBVIOUS
  <2>2. (a \o b)[j] = IF j <= Len(a) THEN a[j] ELSE b[j - Len(a)] BY <1>5, <2>1
  <2>3. CASE j < k BY <1>1, <1>2, <2>2, <2>3
  <2>4. CASE ~(j < k)
    <3>1. j - Len(a) \in 1 .. Len(s) - k /\ k + (j - Len(a)) = j + 1 BY <1>1, <1>2, <2>4
    <3>2. b[j - Len(a)] = s[j + 1] BY <1>3, <3>1
    <3>3. ~(j <= Len(a)) BY <1>1, <1>2, <2>4
    <3>4. QED BY <2>2, <2>4, <3>2, <3>3
  <2>5. QED BY <2>3, <2>4
<1>7. DOMAIN (a \o b) = 1 .. Len(s) - 1 BY <1>5, LenProperties
<1>8. \A j \in 1 .. Len(s) - 1 : (IF j < k THEN j ELSE j + 1) \in DOMAIN s \ {k}
  BY <1>1, LenProperties
<1>9. QED BY <1>4, <1>5, <1>6, <1>7, <1>8

\* A deletion takes the name out of the list, and nothing else.
LEMMA ForgetTakesOut ==
  ASSUME Typed, NamesDiffer, NoneDeleted, NEW v,
         names' = Forget(names, v), deleted' = deleted \cup {v}
  PROVE  names' \in Seq([v : Names, base : BaseNames]) /\ NamesDiffer' /\ NoneDeleted'
<1> DEFINE at == CHOOSE k \in DOMAIN names : names[k].v = v
<1>1. names \in Seq([v : Names, base : BaseNames]) BY DEF Typed
<1>2. CASE \E k \in DOMAIN names : names[k].v = v
  <2>1. at \in DOMAIN names /\ names[at].v = v BY <1>2
  <2>2. names' = Without(names, at) BY <1>2 DEF Forget
  <2> HIDE DEF at
  <2>3. /\ names' \in Seq([v : Names, base : BaseNames])
        /\ \A j \in DOMAIN names' : names'[j] = names[IF j < at THEN j ELSE j + 1]
                                    /\ (IF j < at THEN j ELSE j + 1) \in DOMAIN names \ {at}
    <3>1. /\ Without(names, at) \in Seq([v : Names, base : BaseNames])
          /\ \A j \in DOMAIN Without(names, at) :
               Without(names, at)[j] = names[IF j < at THEN j ELSE j + 1]
               /\ (IF j < at THEN j ELSE j + 1) \in DOMAIN names \ {at}
      BY <1>1, <2>1, WithoutKeeps
    <3>2. QED BY <2>2, <3>1, Zenon
  <2>4. DOMAIN names' \subseteq Nat /\ DOMAIN names \subseteq Nat /\ at \in Nat
    BY <1>1, <2>1, <2>3, LenProperties
  <2>5. NamesDiffer'
    <3>1. SUFFICES ASSUME NEW j \in DOMAIN names', NEW k \in DOMAIN names', names'[j].v = names'[k].v
                   PROVE  j = k
      BY DEF NamesDiffer
    <3>2. (IF j < at THEN j ELSE j + 1) = (IF k < at THEN k ELSE k + 1)
      BY <2>3, <3>1 DEF NamesDiffer
    <3>3. QED BY <2>4, <3>1, <3>2
  <2>6. NoneDeleted'
    <3>1. SUFFICES ASSUME NEW j \in DOMAIN names' PROVE names'[j].v \notin deleted \cup {v}
      BY DEF NoneDeleted
    <3>2. PICK k \in DOMAIN names : k # at /\ names'[j] = names[k] BY <2>3
    <3>3. QED BY <2>1, <3>2 DEF NamesDiffer, NoneDeleted
  <2>7. QED BY <2>3, <2>5, <2>6
<1>3. CASE ~ \E k \in DOMAIN names : names[k].v = v
  BY <1>1, <1>3 DEF Forget, NamesDiffer, NoneDeleted
<1>4. QED BY <1>2, <1>3

-----------------------------------------------------------------------------
(* The nodes.                                                               *)

\* A step that leaves the nodes on their base bdevs with their names, and
\* registers none, keeps the claims and the names in order.
LEMMA NodesStay ==
  ASSUME PInv, nodes' \subseteq NodeRecord, UNCHANGED <<names, claim, deleted, lost>>,
         \A m \in nodes' : \E n \in nodes : m.x = n.x /\ m.v = n.v
                                            /\ (m.st = "registered" => n.st = "registered"),
         \A n \in nodes : \E m \in nodes' : m.x = n.x,
         OneNode'
  PROVE  PInv'
<1>1. Owned' BY DEF PInv, Owned
<1>2. DeletedStaysAway' BY DEF PInv, DeletedStaysAway, Registered
<1>3. QED BY <1>1, <1>2 DEF PInv, Typed, BaseNames, NamesDiffer, NoneDeleted

\* A node that is replaced by one of the same base bdev and name.
LEMMA NodeChanged ==
  ASSUME PInv, NEW n \in nodes, NEW m \in NodeRecord, m.x = n.x, m.v = n.v,
         m.st = "registered" => n.st = "registered",
         nodes' = (nodes \ {n}) \cup {m}, UNCHANGED <<names, claim, deleted, lost>>
  PROVE  PInv'
<1>1. nodes' \subseteq NodeRecord BY DEF PInv, Typed
<1>2. OneNode' BY DEF PInv, OneNode
<1>3. \A k \in nodes' : \E l \in nodes : k.x = l.x /\ k.v = l.v
                                         /\ (k.st = "registered" => l.st = "registered")
  OBVIOUS
<1>4. \A l \in nodes : \E k \in nodes' : k.x = l.x OBVIOUS
<1>5. QED BY <1>1, <1>2, <1>3, <1>4, NodesStay

\* vbdev_passthru_register makes a node on a base bdev that nobody has claimed,
\* with a name of the list.
LEMMA RegisterKeeps ==
  ASSUME PInv, NEW list \in Seq([v : Names, base : BaseNames]), NEW name, NEW present \in SUBSET Bases,
         Register(list, name, present), names' = list, deleted' \subseteq deleted,
         NamesDiffer', NoneDeleted'
  PROVE  PInv'
<1>1. CASE UNCHANGED <<nodes, claim, lost>>
  BY <1>1 DEF PInv, Typed, BaseNames, OneNode, Owned, DeletedStaysAway, Registered
<1>2. ASSUME NEW k \in Fit(list, name), NEW x \in present, Opens(x), Attach(x, list[k].v) PROVE PInv'
  <2> DEFINE new == [x |-> x, v |-> list[k].v, st |-> "registered", opened |-> FALSE, cb |-> None]
  <2>1. k \in DOMAIN list /\ x \in Bases /\ claim[x] = "none" BY <1>2 DEF Fit, Opens
  <2>2. list[k].v \in Names /\ list[k].v \notin deleted' 
    <3>1. list[k] \in [v : Names, base : BaseNames] BY <2>1, LenProperties, ElementOfSeq
    <3>2. QED BY <2>1, <3>1 DEF NoneDeleted
  <2>3. new \in NodeRecord /\ new.x = x /\ new.v = list[k].v BY <2>1, <2>2 DEF NodeRecord
  <2>4. x \notin lost /\ \A n \in nodes : n.x # x BY <2>1 DEF PInv, Owned
  <2>5. CASE nodes' = nodes \cup {new} /\ claim' = [claim EXCEPT ![x] = "passthru"] /\ lost' = lost
    <3>1. Typed' BY <2>3, <2>5 DEF PInv, Typed, BaseNames
    <3>2. OneNode' BY <2>3, <2>4, <2>5 DEF PInv, OneNode
    <3>3. Owned' BY <2>1, <2>3, <2>4, <2>5 DEF PInv, Typed, Owned
    <3>4. DeletedStaysAway'
      BY <2>2, <2>3, <2>5 DEF PInv, DeletedStaysAway, Registered
    <3>5. QED BY <3>1, <3>2, <3>3, <3>4 DEF PInv
  <2>6. CASE nodes' = nodes /\ claim' = [claim EXCEPT ![x] = "passthru"] /\ lost' = lost \cup {x}
    <3>1. Typed' BY <2>1, <2>6 DEF PInv, Typed, BaseNames
    <3>2. Owned' BY <2>1, <2>4, <2>6 DEF PInv, Typed, Owned
    <3>3. QED BY <2>6, <3>1, <3>2 DEF PInv, OneNode, DeletedStaysAway, Registered
  <2>7. QED BY <1>2, <2>5, <2>6 DEF Attach
<1>3. QED BY <1>1, <1>2 DEF Register

-----------------------------------------------------------------------------
(* The actions.                                                             *)

\* The module is loaded with no bdevs and no names.
LEMMA InitPInv == Init => PInv
BY DEF Init, PInv, Typed, OneNode, Owned, NamesDiffer, NoneDeleted, DeletedStaysAway, Registered

\* construct_ext_passthru_bdev, and vbdev_passthru_examine.
LEMMA CreateStep ==
  ASSUME PInv, NEW v \in Names, NEW name \in BaseNames, Create(v, name) PROVE PInv'
<1> DEFINE entry == [v |-> v, base |-> name]
<1>1. names \in Seq([v : Names, base : BaseNames]) /\ entry \in [v : Names, base : BaseNames]
  BY DEF PInv, Typed
<1>2. names' = Append(names, entry) /\ deleted' = deleted \ {v}
      /\ (\A k \in DOMAIN names : names[k].v # v) /\ Register(names', name, Found(name))
  BY DEF Create
<1>3. names' \in Seq([v : Names, base : BaseNames]) BY <1>1, <1>2, AppendDiffers
<1>4. \A k \in DOMAIN names' : \/ k \in DOMAIN names /\ names'[k] = names[k]
                               \/ k = Len(names) + 1 /\ names'[k] = entry
  BY <1>1, <1>2, AppendDiffers
<1>5. NamesDiffer' BY <1>2, <1>4 DEF PInv, NamesDiffer
<1>6. NoneDeleted' BY <1>2, <1>4 DEF PInv, NoneDeleted
<1>7. Found(name) \in SUBSET Bases BY DEF Found
<1>8. QED BY <1>2, <1>3, <1>5, <1>6, <1>7, RegisterKeeps

LEMMA AppearStep == ASSUME PInv, NEW x \in Bases, Appear(x) PROVE PInv'
<1>1. Register(names, NameOf[x], {x}) /\ UNCHANGED <<names, deleted>> BY DEF Appear
<1>2. names \in Seq([v : Names, base : BaseNames]) /\ {x} \in SUBSET Bases BY DEF PInv, Typed
<1>3. NamesDiffer' /\ NoneDeleted' BY <1>1 DEF PInv, NamesDiffer, NoneDeleted
<1>4. QED BY <1>1, <1>2, <1>3, RegisterKeeps

\* delete_ext_passthru_bdev: nothing of the deleted name is left that is or could
\* become a registered bdev.
LEMMA DeleteStep ==
  ASSUME PInv, NEW n \in nodes, NEW d \in Deletes, Delete(d, n) PROVE PInv'
<1> DEFINE m == [n EXCEPT !.st = "unregistering", !.cb = d]
<1>1. n \in NodeRecord /\ m \in NodeRecord /\ m.x = n.x /\ m.v = n.v /\ m.st = "unregistering"
  BY DEF PInv, Typed, NodeRecord
<1>2. /\ \A k \in Registered : k.v = n.v => k = n
      /\ names' = Forget(names, n.v) /\ deleted' = deleted \cup {n.v} /\ UNCHANGED <<claim, lost>>
      /\ IF n.st = "registered" THEN nodes' = (nodes \ {n}) \cup {m} ELSE nodes' = nodes
  BY DEF Delete, Unregister
<1>3. names' \in Seq([v : Names, base : BaseNames]) /\ NamesDiffer' /\ NoneDeleted'
  BY <1>2, ForgetTakesOut DEF PInv
<1>4. Typed' BY <1>1, <1>2, <1>3 DEF PInv, Typed, BaseNames
<1>5. OneNode'
  <2>1. \A k \in nodes \ {n} : k.x # m.x BY <1>1 DEF PInv, OneNode
  <2>2. CASE nodes' = (nodes \ {n}) \cup {m} BY <2>1, <2>2 DEF PInv, OneNode
  <2>3. CASE nodes' = nodes BY <2>3 DEF PInv, OneNode
  <2>4. QED BY <1>2, <2>2, <2>3
<1>6. Owned'
  <2>1. \A x \in Bases : (\E k \in nodes' : k.x = x) <=> \E k \in nodes : k.x = x
    <3>1. CASE nodes' = (nodes \ {n}) \cup {m} BY <1>1, <3>1
    <3>2. CASE nodes' = nodes BY <3>2
    <3>3. QED BY <1>2, <3>1, <3>2
  <2>2. QED BY <1>2, <2>1 DEF PInv, Owned
<1>7. DeletedStaysAway'
  <2>1. SUFFICES ASSUME NEW k \in nodes', k.st = "registered" PROVE k.v \notin deleted \cup {n.v}
    BY <1>2 DEF DeletedStaysAway, Registered
  <2>2. k \in nodes /\ k # n BY <1>1, <1>2, <2>1
  <2>3. QED BY <1>2, <2>1, <2>2 DEF PInv, DeletedStaysAway, Registered
<1>8. QED BY <1>3, <1>4, <1>5, <1>6, <1>7 DEF PInv

\* vbdev_passthru_base_bdev_hotremove_cb
LEMMA RemoveEventStep == ASSUME PInv, NEW x \in Bases, RemoveEvent(x) PROVE PInv'
<1> DEFINE Off(n) == [n EXCEPT !.st = "unregistering"]
<1>1. nodes \subseteq NodeRecord /\ ToUnregister(x) \subseteq nodes
  BY DEF PInv, Typed, ToUnregister, Registered
<1>2. \A n \in nodes : Off(n) \in NodeRecord /\ Off(n).x = n.x /\ Off(n).v = n.v
                       /\ Off(n).st = "unregistering"
  BY <1>1 DEF NodeRecord
<1>3. nodes' = (nodes \ ToUnregister(x)) \cup {Off(n) : n \in ToUnregister(x)}
      /\ UNCHANGED <<names, claim, deleted, lost>>
  BY DEF RemoveEvent
<1>4. nodes' \subseteq NodeRecord BY <1>1, <1>2, <1>3
<1>5. \A m \in nodes' : \/ m \in nodes \ ToUnregister(x)
                        \/ \E n \in ToUnregister(x) : m = Off(n)
  BY <1>3
<1> HIDE DEF Off
<1>6. \A m \in nodes' : \E n \in nodes : /\ m.x = n.x /\ m.v = n.v
                                         /\ m.st = "registered" => n.st = "registered"
                                         /\ m = IF n \in ToUnregister(x) THEN Off(n) ELSE n
  <2>1. SUFFICES ASSUME NEW m \in nodes'
                 PROVE  \E n \in nodes : /\ m.x = n.x /\ m.v = n.v
                                         /\ m.st = "registered" => n.st = "registered"
                                         /\ m = IF n \in ToUnregister(x) THEN Off(n) ELSE n
    OBVIOUS
  <2>2. CASE m \in nodes \ ToUnregister(x) BY <2>2
  <2>3. CASE \E n \in ToUnregister(x) : m = Off(n)
    <3>1. PICK n \in ToUnregister(x) : m = Off(n) BY <2>3
    <3>2. n \in nodes /\ m.x = n.x /\ m.v = n.v /\ m.st = "unregistering" BY <1>1, <1>2, <3>1
    <3>3. QED BY <3>1, <3>2
  <2>4. QED BY <1>5, <2>2, <2>3
<1>7. \A n \in nodes : \E m \in nodes' : m.x = n.x BY <1>1, <1>2, <1>3
<1>8. OneNode'
  <2>1. SUFFICES ASSUME NEW k \in nodes', NEW m \in nodes', k.x = m.x PROVE k = m
    BY DEF OneNode
  <2>2. PICK n \in nodes : k.x = n.x /\ k = IF n \in ToUnregister(x) THEN Off(n) ELSE n BY <1>6
  <2>3. PICK l \in nodes : m.x = l.x /\ m = IF l \in ToUnregister(x) THEN Off(l) ELSE l BY <1>6
  <2>4. n = l BY <2>1, <2>2, <2>3 DEF PInv, OneNode
  <2>5. QED BY <2>2, <2>3, <2>4
<1>9. QED BY <1>3, <1>4, <1>6, <1>7, <1>8, NodesStay

\* vbdev_passthru_destruct
LEMMA DestructStep == ASSUME PInv, NEW n \in nodes, Destruct(n) PROVE PInv'
<1>1. n.x \in Bases BY DEF PInv, Typed, NodeRecord
<1>2. /\ nodes' = nodes \ {n} /\ claim' = [claim EXCEPT ![n.x] = "none"]
      /\ UNCHANGED <<names, deleted, lost>>
  BY DEF Destruct, Release
<1>3. Typed' BY <1>2 DEF PInv, Typed, BaseNames
<1>4. OneNode' BY <1>2 DEF PInv, OneNode
<1>5. \A m \in nodes' : m.x # n.x BY <1>2 DEF PInv, OneNode
<1>6. Owned'
  <2>1. SUFFICES ASSUME NEW x \in Bases
                 PROVE  /\ claim'[x] = "passthru" <=> x \in lost' \/ \E m \in nodes' : m.x = x
                        /\ ~(x \in lost' /\ \E m \in nodes' : m.x = x)
    BY DEF Owned
  <2>2. CASE x = n.x BY <1>1, <1>2, <1>5, <2>2 DEF PInv, Typed, Owned
  <2>3. CASE x # n.x BY <1>1, <1>2, <2>3 DEF PInv, Typed, Owned
  <2>4. QED BY <2>2, <2>3
<1>7. QED BY <1>2, <1>3, <1>4, <1>6 DEF PInv, NamesDiffer, NoneDeleted, DeletedStaysAway, Registered

\* A user opens or closes a passthru bdev, or the bdev layer unregisters it.
LEMMA NodeSteps ==
  ASSUME PInv, NEW n \in nodes, OpenNode(n) \/ CloseNode(n) \/ ShutdownNode(n) PROVE PInv'
<1>1. n \in NodeRecord BY DEF PInv, Typed
<1>2. PICK m \in {[n EXCEPT !.opened = TRUE], [n EXCEPT !.opened = FALSE],
                  [n EXCEPT !.st = "unregistering", !.cb = None]} :
        nodes' = (nodes \ {n}) \cup {m}
  BY DEF OpenNode, CloseNode, ShutdownNode, Unregister
<1>3. m \in NodeRecord /\ m.x = n.x /\ m.v = n.v /\ (m.st = "registered" => n.st = "registered")
  BY <1>1, <1>2 DEF NodeRecord
<1>4. UNCHANGED <<names, claim, deleted, lost>> BY DEF OpenNode, CloseNode, ShutdownNode
<1>5. QED BY <1>2, <1>3, <1>4, NodeChanged

\* Another module claims a base bdev nobody has claimed, and gives it back.
LEMMA ClaimStep == ASSUME PInv, NEW x \in Bases, Claim(x) PROVE PInv'
<1>1. /\ UNCHANGED <<names, nodes, deleted, lost>> /\ claim[x] \in {"none", "other"}
      /\ \E c \in {"none", "other"} : claim' = [claim EXCEPT ![x] = c]
  BY DEF Claim
<1>2. Typed' BY <1>1 DEF PInv, Typed, BaseNames
<1>3. Owned' BY <1>1 DEF PInv, Typed, Owned
<1>4. QED BY <1>1, <1>2, <1>3 DEF PInv, OneNode, NamesDiffer, NoneDeleted, DeletedStaysAway, Registered

\* The other steps concern neither nodes nor names.
LEMMA OtherSteps ==
  ASSUME PInv, UNCHANGED <<nodes, claim, deleted, lost>>, UNCHANGED names \/ names' = << >>
  PROVE  PInv'
<1>1. names' \in Seq([v : Names, base : BaseNames]) BY EmptySeq DEF PInv, Typed
<1>2. NamesDiffer' /\ NoneDeleted'
  <2>1. CASE names' = << >>
    <3>1. DOMAIN names' = {} BY <2>1
    <3>2. QED BY <3>1 DEF NamesDiffer, NoneDeleted
  <2>2. CASE UNCHANGED names BY <2>2 DEF PInv, NamesDiffer, NoneDeleted
  <2>3. QED BY <2>1, <2>2
<1>3. Typed' BY <1>1 DEF PInv, Typed, BaseNames
<1>4. QED BY <1>2, <1>3 DEF PInv, OneNode, Owned, DeletedStaysAway, Registered

LEMMA NextPInv == PInv /\ [Next]_vars => PInv'
<1> SUFFICES ASSUME PInv, [Next]_vars PROVE PInv' OBVIOUS
<1>1. CASE UNCHANGED vars BY <1>1, OtherSteps DEF vars
<1>2. ASSUME NEW x \in Bases, CloseBase(x) \/ Gone(x) \/ Vanish(x) PROVE PInv'
  BY <1>2, OtherSteps DEF CloseBase, Gone, Vanish
<1>3. ASSUME NEW d \in Deletes, NEW v \in Names, DeleteOther(d, v) PROVE PInv'
  BY <1>3, OtherSteps DEF DeleteOther
<1>4. CASE Finish \/ Shutdown BY <1>4, OtherSteps DEF Finish, Shutdown
<1>5. QED
  BY <1>1, <1>2, <1>3, <1>4, CreateStep, AppearStep, DeleteStep, RemoveEventStep, DestructStep,
     NodeSteps, ClaimStep DEF Next, Progress

\* However registrations fail, base bdevs vanish and come back and deletions cross
\* their removal.
LEMMA InductiveP == Spec => []PInv
BY InitPInv, NextPInv, PTL DEF Spec

\* A base bdev that the module has claimed has one node, and no other has any, for
\* vbdev_passthru_destruct gives back no claim but its own (vbdev_passthru.c:144).
\* The exception is the base bdev a registration has failed on: it stays claimed,
\* and never has a node again (vbdev_passthru.c:898).
THEOREM ClaimHasOneOwner == Spec => []ClaimIsOwned
<1>1. PInv => ClaimIsOwned
  <2> SUFFICES ASSUME PInv, NEW x \in Bases
               PROVE  /\ Cardinality({n \in nodes : n.x = x}) =
                           IF claim[x] = "passthru" /\ x \notin lost THEN 1 ELSE 0
                      /\ x \in lost => claim[x] = "passthru"
    BY DEF ClaimIsOwned
  <2>1. /\ (\E n \in nodes : n.x = x) <=> claim[x] = "passthru" /\ x \notin lost
        /\ x \in lost => claim[x] = "passthru"
    BY DEF PInv, Owned
  <2>2. CASE \E n \in nodes : n.x = x
    <3>1. PICK n \in nodes : n.x = x BY <2>2
    <3>2. {m \in nodes : m.x = x} = {n} BY <3>1 DEF PInv, OneNode
    <3>3. Cardinality({m \in nodes : m.x = x}) = 1 BY <3>2, FS_Singleton
    <3>4. QED BY <2>1, <2>2, <3>3
  <2>3. CASE ~ \E n \in nodes : n.x = x
    <3>1. {m \in nodes : m.x = x} = {} BY <2>3
    <3>2. Cardinality({m \in nodes : m.x = x}) = 0 BY <3>1, FS_EmptySet
    <3>3. QED BY <2>1, <2>3, <3>2
  <2>4. QED BY <2>2, <2>3
<1>2. QED BY <1>1, InductiveP, PTL

\* A passthru bdev that was deleted is not "re-created if the same bdev is
\* constructed at some other time" (vbdev_passthru.c:954), in whatever order
\* deletions, removals, failures and new base bdevs come.
THEOREM DeletedForGood == Spec => []DeletedStaysAway
<1>1. PInv => DeletedStaysAway BY DEF PInv
<1>2. QED BY <1>1, InductiveP, PTL

=============================================================================
