------------------------ MODULE ENIControllerRefinement ------------------------
(***************************************************************************)
(* What handleNode works from may be stale, by any number of versions, but *)
(* not by more than one step of its own: it takes the next one only when   *)
(* it has seen the last.  From that, for any number of interfaces and any  *)
(* lag of the informer: ENIController.tla implements NodeAnnotation.tla    *)
(* through any failures and restarts, as long as nobody deletes the Node   *)
(* object; and, as long as nothing has failed after an attachment, the     *)
(* annotation knows every attachment there is at EC2.                      *)
(***************************************************************************)
EXTENDS ENIControllerProofs

(* How far the node has got: one step for each interface recorded, and one   *)
(* for its flag.                                                             *)
Stage(n) == IF Unattached(n) = {} THEN 2 * Len(n.enis) ELSE 2 * Len(n.enis) - 1

Behind(a, b) ==
    /\ a.info => b.info
    /\ a.label => b.label
    /\ Stage(b) \in {Stage(a), Stage(a) + 1}

(* Only the last interface may not be attached yet. *)
Orderly(n) ==
    /\ n.exists
    /\ \A i \in 1..Len(n.enis) : n.enis[i].attached \/ i = Len(n.enis)
    /\ n.enis # <<>> => n.info /\ n.label

Ordered ==
    /\ Orderly(api) /\ Orderly(cache) /\ Behind(cache, api)
    /\ \A k \in 1..Len(watch) :
         /\ Orderly(watch[k]) /\ Behind(cache, watch[k]) /\ Behind(watch[k], api)
         /\ \A j \in 1..k : Behind(watch[j], watch[k])

SeenFirst ==
    pc # "idle" =>
        /\ Orderly(seen) /\ Behind(seen, cache) /\ Behind(seen, api)
        /\ \A k \in 1..Len(watch) : Behind(seen, watch[k])

Decided ==
    /\ pc \in {"attach", "modify", "saveAttached", "create", "saveCreated"} =>
          seen.info /\ seen.label
    /\ pc \in {"create", "saveCreated"} => Unattached(seen) = {}

(* The inductive invariant. *)
OneStepAtATime == Ordered /\ SeenFirst /\ Decided

NodeOf(n) ==
    [annotated |-> n.enis # <<>>,
     attached |-> {i \in 1..Len(n.enis) : n.enis[i].attached}]

--------------------------------------------------------------------------------
LEMMA FlagsOf ==
    ASSUME NEW n \in NodeType, Orderly(n)
    PROVE  /\ Len(n.enis) \in Nat /\ n.enis \in ENIs
           /\ (n.enis = <<>>) <=> (Len(n.enis) = 0)
           /\ \/ /\ Unattached(n) = {} /\ Stage(n) = 2 * Len(n.enis)
                 /\ NodeOf(n).attached = 1..Len(n.enis)
              \/ /\ Unattached(n) # {} /\ Stage(n) = 2 * Len(n.enis) - 1
                 /\ Len(n.enis) > 0
                 /\ NodeOf(n).attached = 1..(Len(n.enis) - 1)
<1>1. n.enis \in ENIs
    BY DEF NodeType, ENIs, Interface
<1>2. Len(n.enis) \in Nat /\ ((n.enis = <<>>) <=> (Len(n.enis) = 0))
    BY <1>1 DEF ENIs
<1>3. NodeOf(n).attached = {i \in 1..Len(n.enis) : n.enis[i].attached}
    BY DEF NodeOf
<1>4. CASE Unattached(n) = {}
    BY <1>1, <1>2, <1>3, <1>4 DEF Unattached, Stage
<1>5. CASE Unattached(n) # {}
    <2>1. PICK i \in 1..Len(n.enis) : ~n.enis[i].attached
        BY <1>5 DEF Unattached
    <2>2. i = Len(n.enis)
        BY <2>1 DEF Orderly
    <2>3. NodeOf(n).attached = 1..(Len(n.enis) - 1)
        BY <1>2, <1>3, <2>1, <2>2 DEF Orderly
    <2>. QED BY <1>1, <1>2, <1>5, <2>1, <2>3 DEF Stage
<1>. QED BY <1>4, <1>5

(* From one stage to the next is a step of NodeAnnotation.tla. *)
LEMMA BehindIsAStep ==
    ASSUME NEW a \in NodeType, NEW b \in NodeType, Orderly(a), Orderly(b),
           Behind(a, b), Len(b.enis) <= NumENIs
    PROVE  \/ NodeOf(b) = NodeOf(a)
           \/ /\ ~NodeOf(a).annotated /\ NumENIs > 0
              /\ NodeOf(b) = [annotated |-> TRUE, attached |-> 1..0]
           \/ /\ NodeOf(a).annotated
              /\ \E i \in (1..NumENIs) \ NodeOf(a).attached :
                   /\ \A j \in 1..NumENIs : j < i => j \in NodeOf(a).attached
                   /\ NodeOf(b) =
                        [NodeOf(a) EXCEPT !.attached = @ \union {i}]
<1> DEFINE la == Len(a.enis)
           lb == Len(b.enis)
<1>1. /\ la \in Nat /\ lb \in Nat
      /\ Stage(b) = Stage(a) \/ Stage(b) = Stage(a) + 1
    BY FlagsOf DEF Behind
<1>2. /\ NodeOf(a) = [annotated |-> la # 0, attached |-> NodeOf(a).attached]
      /\ NodeOf(b) = [annotated |-> lb # 0, attached |-> NodeOf(b).attached]
      /\ NodeOf(a).annotated <=> la # 0
    BY FlagsOf DEF NodeOf
<1>3. CASE Unattached(a) = {}
    <2>1. Stage(a) = 2 * la /\ NodeOf(a).attached = 1..la
        BY <1>3, FlagsOf
    <2>2. CASE Unattached(b) = {}
        <3>1. Stage(b) = 2 * lb /\ NodeOf(b).attached = 1..lb
            BY <2>2, FlagsOf
        <3>2. la = lb
            BY <1>1, <2>1, <3>1
        <3>. QED BY <1>2, <2>1, <3>1, <3>2
    <2>3. CASE Unattached(b) # {}
        <3>1. Stage(b) = 2 * lb - 1 /\ NodeOf(b).attached = 1..(lb - 1)
            BY <2>3, FlagsOf
        <3>2. lb = la + 1
            BY <1>1, <2>1, <3>1
        <3>3. NodeOf(b).attached = NodeOf(a).attached
            BY <1>1, <2>1, <3>1, <3>2
        <3>4. CASE la # 0
            BY <1>1, <1>2, <3>2, <3>3, <3>4
        <3>5. CASE la = 0
            <4>1. NumENIs > 0 /\ lb # 0
                BY <1>1, <3>2, <3>5, NumAssumption
            <4>2. NodeOf(b).attached = 1..0
                BY <2>1, <3>3, <3>5
            <4>. QED BY <1>2, <3>5, <4>1, <4>2
        <3>. QED BY <3>4, <3>5
    <2>. QED BY <2>2, <2>3
<1>4. CASE Unattached(a) # {}
    <2>1. Stage(a) = 2 * la - 1 /\ NodeOf(a).attached = 1..(la - 1) /\ la > 0
        BY <1>4, FlagsOf
    <2>2. CASE Unattached(b) = {}
        <3>1. Stage(b) = 2 * lb /\ NodeOf(b).attached = 1..lb
            BY <2>2, FlagsOf
        <3>2. la = lb
            BY <1>1, <2>1, <3>1
        <3>3. 1..la = 1..(la - 1) \union {la}
            BY <1>1, <2>1
        <3>4. /\ la \in (1..NumENIs) \ NodeOf(a).attached
              /\ \A j \in 1..NumENIs : j < la => j \in NodeOf(a).attached
            BY <1>1, <2>1, <3>2
        <3>5. NodeOf(b) = [NodeOf(a) EXCEPT !.attached = @ \union {la}]
            BY <1>2, <2>1, <3>1, <3>2, <3>3
        <3>6. NodeOf(a).annotated
            BY <1>2, <2>1
        <3>. QED BY <3>4, <3>5, <3>6
    <2>3. CASE Unattached(b) # {}
        <3>1. Stage(b) = 2 * lb - 1 /\ NodeOf(b).attached = 1..(lb - 1)
            BY <2>3, FlagsOf
        <3>2. la = lb
            BY <1>1, <2>1, <3>1
        <3>. QED BY <1>2, <2>1, <3>1, <3>2
    <2>. QED BY <2>2, <2>3
<1>. QED BY <1>3, <1>4

--------------------------------------------------------------------------------
LEMMA BehindItself ==
    ASSUME NEW n
    PROVE  Behind(n, n)
BY DEF Behind

LEMMA NewVersion ==
    ASSUME TypeOK, Ordered, NEW n \in NodeType, Orderly(n),
           Behind(cache, n), \A k \in 1..Len(watch) : Behind(watch[k], n),
           api' = n, cache' = cache, watch' = Append(watch, n)
    PROVE  Ordered'
<1> DEFINE l == Len(watch)
           w == Append(watch, n)
<1>1. /\ l \in Nat /\ Len(w) = l + 1 /\ w[l + 1] = n
      /\ \A k \in 1..l : w[k] = watch[k]
    BY DEF TypeOK
<1> HIDE DEF w
<1>2. ASSUME NEW k \in 1..Len(w)
      PROVE  /\ Orderly(w[k]) /\ Behind(cache, w[k]) /\ Behind(w[k], n)
             /\ \A j \in 1..k : Behind(w[j], w[k])
    <2>1. CASE k \in 1..l
        <3>1. w[k] = watch[k] /\ \A j \in 1..k : w[j] = watch[j]
            BY <1>1, <2>1
        <3>. QED BY <2>1, <3>1 DEF Ordered
    <2>2. CASE k = l + 1
        <3>1. \A j \in 1..k : w[j] = n \/ \E i \in 1..l : w[j] = watch[i]
            BY <1>1, <2>2
        <3>. QED BY <1>1, <2>2, <3>1, BehindItself DEF Ordered
    <2>. QED BY <1>1, <2>1, <2>2
<1>3. watch' = w
    BY DEF w
<1>. QED BY <1>2, <1>3 DEF Ordered

(* However handleNode ends, having put n in place of the node or not. *)
LEMMA FinishOrders ==
    ASSUME TypeOK, Ordered, NEW n \in NodeType, Orderly(n),
           Behind(cache, n), \A k \in 1..Len(watch) : Behind(watch[k], n),
           NEW ok, NEW w, Finish(ok, w) \/ Restart,
           \/ api' = api /\ w = watch
           \/ api' = n /\ w = Append(watch, api')
    PROVE  OneStepAtATime'
<1>1. /\ pc' = "idle"
      /\ \/ cache' = cache /\ watch' = w
         \/ cache' = api' /\ watch' = <<>>
    BY DEF Finish, Restart
<1>2. Ordered'
    <2>1. CASE cache' = cache /\ watch' = watch /\ api' = api
        BY <2>1 DEF Ordered
    <2>2. CASE cache' = cache /\ watch' = Append(watch, n) /\ api' = n
        BY <2>2, NewVersion
    <2>3. CASE cache' = api' /\ watch' = <<>>
        <3>1. Orderly(api') /\ Len(watch') = 0
            BY <2>3 DEF Ordered
        <3>. QED BY <2>3, <3>1, BehindItself DEF Ordered
    <2>. QED BY <1>1, <2>1, <2>2, <2>3
<1>. QED BY <1>1, <1>2 DEF OneStepAtATime, SeenFirst, Decided

LEMMA UpdateNodeOrders ==
    ASSUME TypeOK, Ordered, NEW n \in NodeType, Orderly(n), Behind(api, n),
           Behind(cache, n), \A k \in 1..Len(watch) : Behind(watch[k], n),
           NEW field, NEW value, NEW ignored,
           n = [api EXCEPT ![field] = value], UpdateNode(field, value, ignored)
    PROVE  OneStepAtATime' /\ Behind(api, api')
<1>1. \/ api' = n /\ \E ok : Finish(ok, Append(watch, api'))
      \/ api' = api /\ \E ok : Finish(ok, watch)
    BY DEF UpdateNode
<1>. QED BY <1>1, FinishOrders, BehindItself

--------------------------------------------------------------------------------
(* What is behind a node is behind one that has the same interfaces and more *)
(* of the rest.                                                              *)
LEMMA SameStage ==
    ASSUME NEW a, NEW b, NEW n, Behind(a, b),
           n.enis = b.enis, b.info => n.info, b.label => n.label
    PROVE  Behind(a, n)
BY DEF Behind, Stage, Unattached

(* A step that handleNode takes from the node it has seen: no copy is past   *)
(* it.                                                                       *)
LEMMA NextStage ==
    ASSUME NEW s, NEW a, NEW b, NEW n, Behind(s, a), Behind(a, b),
           n.info = b.info, n.label = b.label, Stage(n) = Stage(s) + 1
    PROVE  Behind(a, n)
BY DEF Behind

LEMMA SyncOrders ==
    ASSUME TypeOK, OneStepAtATime, Sync \/ Resync
    PROVE  OneStepAtATime' /\ Behind(api, api')
<1>1. UNCHANGED <<api, pc, seen>>
    BY DEF Sync, Resync
<1>2. CASE UNCHANGED <<cache, watch>>
    BY <1>1, <1>2, BehindItself
    DEF OneStepAtATime, Ordered, SeenFirst, Decided, Unattached
<1>3. CASE watch # <<>> /\ cache' = Head(watch) /\ watch' = Tail(watch)
    <2>1. /\ cache' = watch[1] /\ Len(watch) \in Nat /\ 1 \in 1..Len(watch)
          /\ Len(watch') = Len(watch) - 1
          /\ \A k \in 1..Len(watch') :
               /\ watch'[k] = watch[k + 1] /\ k + 1 \in 1..Len(watch)
        BY <1>3 DEF TypeOK
    <2>2. Orderly(cache') /\ Behind(cache', api')
        BY <1>1, <2>1 DEF OneStepAtATime, Ordered
    <2>3. ASSUME NEW k \in 1..Len(watch')
          PROVE  /\ Orderly(watch'[k]) /\ Behind(cache', watch'[k])
                 /\ Behind(watch'[k], api')
                 /\ \A j \in 1..k : Behind(watch'[j], watch'[k])
        <3>1. /\ watch'[k] = watch[k + 1] /\ k + 1 \in 1..Len(watch)
              /\ 1 \in 1..(k + 1)
              /\ \A j \in 1..k : watch'[j] = watch[j + 1] /\ j + 1 \in 1..(k + 1)
            BY <2>1
        <3>. QED BY <1>1, <2>1, <3>1 DEF OneStepAtATime, Ordered
    <2>4. Ordered'
        BY <1>1, <2>2, <2>3 DEF OneStepAtATime, Ordered
    <2>5. SeenFirst'
        BY <1>1, <2>1 DEF OneStepAtATime, SeenFirst
    <2>6. Decided'
        BY <1>1 DEF OneStepAtATime, Decided, Unattached
    <2>. QED BY <1>1, <2>4, <2>5, <2>6, BehindItself DEF OneStepAtATime
<1>. QED BY <1>2, <1>3 DEF Sync, Resync

LEMMA SetProviderIDOrders ==
    ASSUME TypeOK, OneStepAtATime, SetProviderID
    PROVE  OneStepAtATime' /\ Behind(api, api')
<1> DEFINE n == [api EXCEPT !.provider = TRUE]
<1>1. /\ api' = n /\ watch' = Append(watch, n) /\ cache' = cache
      /\ UNCHANGED <<pc, seen>>
    BY DEF SetProviderID, Change
<1>2. /\ n \in NodeType /\ n.enis = api.enis
      /\ n.info = api.info /\ n.label = api.label /\ n.exists = api.exists
    BY DEF TypeOK, NodeType
<1> HIDE DEF n
<1>3. Orderly(n)
    BY <1>2 DEF OneStepAtATime, Ordered, Orderly
<1>4. /\ Behind(api, n) /\ Behind(cache, n)
      /\ \A k \in 1..Len(watch) : Behind(watch[k], n)
    BY <1>2, SameStage, BehindItself DEF OneStepAtATime, Ordered
<1>5. Ordered'
    BY <1>1, <1>2, <1>3, <1>4, NewVersion DEF OneStepAtATime
<1>6. SeenFirst'
    <2>1. \A k \in 1..Len(watch') :
             watch'[k] = n \/ \E j \in 1..Len(watch) : watch'[k] = watch[j]
        BY <1>1, <1>2, AppendVersions DEF TypeOK
    <2>2. pc # "idle" => Behind(seen, n)
        BY <1>2, SameStage DEF OneStepAtATime, SeenFirst
    <2>. QED BY <1>1, <2>1, <2>2 DEF OneStepAtATime, SeenFirst
<1>7. Decided'
    BY <1>1 DEF OneStepAtATime, Decided, Unattached
<1>. QED BY <1>1, <1>4, <1>5, <1>6, <1>7 DEF OneStepAtATime

(* A node that was not deleted is not registered again. *)
LEMMA NeverRegistered ==
    ASSUME OneStepAtATime
    PROVE  ~Register
BY DEF OneStepAtATime, Ordered, Orderly, Register

LEMMA ErrorsOrder ==
    ASSUME TypeOK, OneStepAtATime, ReturnError \/ Crash \/ EC2Fails
    PROVE  OneStepAtATime' /\ Behind(api, api')
<1>1. api' = api /\ ((\E ok : Finish(ok, watch)) \/ Restart)
    BY DEF ReturnError, Crash, EC2Fails, CallFails, RequestFails, Fail
<1>2. /\ api \in NodeType /\ Ordered /\ Orderly(api) /\ Behind(cache, api)
      /\ \A k \in 1..Len(watch) : Behind(watch[k], api)
    BY DEF TypeOK, OneStepAtATime, Ordered
<1>. QED BY <1>1, <1>2, FinishOrders, BehindItself

LEMMA HandleNodeOrders ==
    ASSUME TypeOK, OneStepAtATime, HandleNode
    PROVE  OneStepAtATime' /\ Behind(api, api')
<1>1. UNCHANGED <<api, cache, watch>> /\ seen' = cache /\ pc' = Decision(cache)
    BY DEF HandleNode
<1>2. Ordered'
    BY <1>1 DEF OneStepAtATime, Ordered
<1>3. SeenFirst'
    BY <1>1, BehindItself DEF OneStepAtATime, Ordered, SeenFirst
<1>4. Decided'
    BY <1>1 DEF Decided, Decision, Unattached
<1>. QED BY <1>1, <1>2, <1>3, <1>4, BehindItself DEF OneStepAtATime

--------------------------------------------------------------------------------
(* A change of the node that leaves its interfaces alone. *)
LEMMA DescribeOrders ==
    ASSUME TypeOK, OneStepAtATime, Describe \/ Label
    PROVE  OneStepAtATime' /\ Behind(api, api')
<1>1. PICK field \in {"info", "label"} : UpdateNode(field, TRUE, FALSE)
    BY DEF Describe, Label
<1> DEFINE n == [api EXCEPT ![field] = TRUE]
<1>2. /\ n \in NodeType /\ n.enis = api.enis /\ n.exists = api.exists
      /\ api.info => n.info
      /\ api.label => n.label
    BY DEF TypeOK, NodeType
<1>3. n = [api EXCEPT ![field] = TRUE]
    OBVIOUS
<1> HIDE DEF n
<1>4. Orderly(n)
    BY <1>2 DEF OneStepAtATime, Ordered, Orderly
<1>5. /\ Behind(api, n) /\ Behind(cache, n)
      /\ \A k \in 1..Len(watch) : Behind(watch[k], n)
    BY <1>2, SameStage, BehindItself DEF OneStepAtATime, Ordered
<1>. QED BY <1>1, <1>2, <1>3, <1>4, <1>5, UpdateNodeOrders DEF OneStepAtATime

(* The next step from the node handleNode has seen. *)
LEMMA StepOrders ==
    ASSUME TypeOK, OneStepAtATime, pc # "idle", seen.info, seen.label,
           NEW enis \in ENIs, NEW ignored, UpdateNode("enis", enis, ignored),
           \A i \in 1..Len(enis) : enis[i].attached \/ i = Len(enis),
           Stage([api EXCEPT !["enis"] = enis]) = Stage(seen) + 1
    PROVE  OneStepAtATime' /\ Behind(api, api')
<1> DEFINE n == [api EXCEPT !["enis"] = enis]
<1>1. /\ n \in NodeType /\ n.enis = enis
      /\ n.exists = api.exists /\ n.info = api.info /\ n.label = api.label
    BY DEF TypeOK, NodeType, ENIs, Interface
<1>2. n = [api EXCEPT !["enis"] = enis] /\ Stage(n) = Stage(seen) + 1
    OBVIOUS
<1> HIDE DEF n
<1>3. Behind(seen, api) /\ Behind(seen, cache) /\ api.info /\ api.label
    BY DEF OneStepAtATime, SeenFirst, Behind
<1>4. Orderly(n)
    BY <1>1, <1>3 DEF OneStepAtATime, Ordered, Orderly
<1>5. Behind(api, n) /\ Behind(cache, n)
    BY <1>1, <1>2, <1>3, NextStage, BehindItself DEF OneStepAtATime, Ordered
<1>6. \A k \in 1..Len(watch) : Behind(watch[k], n)
    BY <1>1, <1>2, NextStage DEF OneStepAtATime, Ordered, SeenFirst
<1>. QED BY <1>1, <1>2, <1>4, <1>5, <1>6, UpdateNodeOrders DEF OneStepAtATime

LEMMA SaveAttachedOrders ==
    ASSUME TypeOK, IInv, OneStepAtATime, SaveAttached
    PROVE  OneStepAtATime' /\ Behind(api, api')
<1> DEFINE enis == WithAttached(seen.enis, Target)
           n == [api EXCEPT !["enis"] = enis]
<1>1. /\ pc = "saveAttached" /\ UpdateNode("enis", enis, TRUE)
      /\ Unattached(seen) # {} /\ seen.info /\ seen.label /\ Orderly(seen)
    BY DEF SaveAttached, IInv, DoneBeforeSaved, OneStepAtATime, SeenFirst, Decided
<1>2. /\ seen.enis \in ENIs /\ Len(seen.enis) \in Nat
      /\ Stage(seen) = 2 * Len(seen.enis) - 1
    BY <1>1, FlagsOf DEF TypeOK
<1>3. Target \in 1..Len(seen.enis) /\ Target = Len(seen.enis)
    BY <1>1, TargetIsUnattached DEF Orderly, Unattached
<1>4. /\ enis \in ENIs /\ Len(enis) = Len(seen.enis)
      /\ enis[Target].attached
      /\ \A i \in 1..Len(seen.enis) : i # Target => enis[i] = seen.enis[i]
    BY <1>2, <1>3, WithAttachedIs
<1> HIDE DEF enis
<1>5. \A i \in 1..Len(enis) : enis[i].attached
    BY <1>1, <1>3, <1>4 DEF Orderly
<1>6. n.enis = enis
    BY DEF TypeOK, NodeType
<1>7. Stage(n) = Stage(seen) + 1
    <2> HIDE DEF n
    <2>1. Unattached(n) = {}
        BY <1>5, <1>6 DEF Unattached
    <2>. QED BY <1>2, <1>4, <1>6, <2>1 DEF Stage
<1>. QED BY <1>1, <1>4, <1>5, <1>7, StepOrders

LEMMA SaveCreatedOrders ==
    ASSUME TypeOK, IInv, OneStepAtATime, SaveCreated
    PROVE  OneStepAtATime' /\ Behind(api, api')
<1> DEFINE eni == [id |-> new, attached |-> FALSE]
           enis == Append(seen.enis, eni)
           n == [api EXCEPT !["enis"] = enis]
<1>1. /\ pc = "saveCreated" /\ UpdateNode("enis", enis, FALSE)
      /\ Unattached(seen) = {} /\ seen.info /\ seen.label /\ Orderly(seen)
      /\ new \in ENI
    BY DEF SaveCreated, IInv, DoneBeforeSaved, TypeOK, OneStepAtATime, SeenFirst,
           Decided
<1>2. /\ seen.enis \in ENIs /\ Stage(seen) = 2 * Len(seen.enis)
      /\ \A i \in 1..Len(seen.enis) : seen.enis[i].attached
    BY <1>1, FlagsOf DEF TypeOK, Unattached
<1>3. eni \in Interface /\ ~eni.attached
    BY <1>1 DEF Interface
<1> HIDE DEF eni
<1>4. /\ enis \in ENIs /\ Len(enis) = Len(seen.enis) + 1
      /\ Len(seen.enis) \in Nat /\ enis[Len(enis)] = eni
      /\ \A i \in 1..Len(seen.enis) : enis[i] = seen.enis[i]
    BY <1>2, <1>3 DEF ENIs
<1>5. n.enis = enis
    BY DEF TypeOK, NodeType
<1> HIDE DEF enis
<1>6. \A i \in 1..Len(enis) : enis[i].attached \/ i = Len(enis)
    BY <1>2, <1>4
<1>7. Stage(n) = Stage(seen) + 1
    <2> HIDE DEF n
    <2>1. Unattached(n) # {}
        BY <1>3, <1>4, <1>5 DEF Unattached
    <2>. QED BY <1>2, <1>4, <1>5, <2>1 DEF Stage
<1>. QED BY <1>1, <1>4, <1>6, <1>7, StepOrders

(* The calls to EC2 change no copy of the node. *)
LEMMA CallsOrder ==
    ASSUME TypeOK, OneStepAtATime, AttachENI \/ ModifyAttribute \/ CreateENI
    PROVE  OneStepAtATime' /\ Behind(api, api')
<1>1. /\ UNCHANGED <<api, seen>>
      /\ pc \in {"attach", "modify", "create"}
      /\ \/ /\ UNCHANGED <<cache, watch>>
            /\ \/ pc' \in {"modify", "saveAttached"}
               \/ pc' = "saveCreated" /\ pc = "create"
         \/ Finish(FALSE, watch)
    BY DEF AttachENI, ModifyAttribute, CreateENI, Goto, Fail
<1>2. CASE Finish(FALSE, watch)
    <2>1. /\ api \in NodeType /\ Ordered /\ Orderly(api) /\ Behind(cache, api)
          /\ \A k \in 1..Len(watch) : Behind(watch[k], api)
        BY DEF TypeOK, OneStepAtATime, Ordered
    <2>. QED BY <1>1, <1>2, <2>1, FinishOrders, BehindItself
<1>3. CASE /\ UNCHANGED <<cache, watch>>
           /\ \/ pc' \in {"modify", "saveAttached"}
              \/ pc' = "saveCreated" /\ pc = "create"
    <2>1. Ordered'
        BY <1>1, <1>3 DEF OneStepAtATime, Ordered
    <2>2. SeenFirst'
        BY <1>1, <1>3 DEF OneStepAtATime, SeenFirst
    <2>3. Decided'
        BY <1>1, <1>3 DEF OneStepAtATime, Decided, Unattached
    <2>. QED BY <1>1, <2>1, <2>2, <2>3, BehindItself DEF OneStepAtATime
<1>. QED BY <1>1, <1>2, <1>3

--------------------------------------------------------------------------------
LEMMA InitOrdered ==
    ASSUME Init
    PROVE  OneStepAtATime
<1>1. /\ api = Registered /\ cache = api /\ seen = api /\ Len(watch) = 0
      /\ pc = "idle"
    BY DEF Init
<1>2. Registered.exists /\ Registered.enis = <<>> /\ Len(Registered.enis) = 0
    BY DEF Registered
<1>3. Orderly(api)
    BY <1>1, <1>2 DEF Orderly
<1>. QED BY <1>1, <1>3, BehindItself
     DEF OneStepAtATime, Ordered, SeenFirst, Decided

LEMMA NextOrders ==
    ASSUME TypeOK, IInv, OneStepAtATime, ~Delete, [Next]_vars
    PROVE  OneStepAtATime' /\ Behind(api, api')
<1>1. CASE Next
    BY <1>1, SyncOrders, SetProviderIDOrders, NeverRegistered, ErrorsOrder,
       HandleNodeOrders, DescribeOrders, SaveAttachedOrders, SaveCreatedOrders,
       CallsOrder DEF Next, Handler
<1>2. CASE UNCHANGED vars
    <2>1. UNCHANGED <<api, cache, watch, pc, seen>>
        BY <1>2 DEF vars
    <2>. QED BY <2>1, BehindItself
         DEF OneStepAtATime, Ordered, SeenFirst, Decided, Unattached
<1>. QED BY <1>1, <1>2

(* A step of the controller is one of the annotation, or none. *)
LEMMA StepRefines ==
    ASSUME TypeOK, TypeOK', IInv', OneStepAtATime, OneStepAtATime',
           Behind(api, api')
    PROVE  [Annotation!Next]_[annotated |-> api.enis # <<>>,
               attached |-> {i \in 1..Len(api.enis) : api.enis[i].attached}]
<1>1. /\ api \in NodeType /\ api' \in NodeType /\ Orderly(api) /\ Orderly(api')
      /\ Len(api'.enis) <= NumENIs
    BY DEF TypeOK, OneStepAtATime, Ordered, IInv, CopiesAreGood, Fits
<1>2. \/ NodeOf(api') = NodeOf(api)
      \/ Annotation!Annotate
      \/ Annotation!Attach
    <2>1. CASE NodeOf(api') = NodeOf(api)
        BY <2>1
    <2>2. CASE /\ ~NodeOf(api).annotated /\ NumENIs > 0
               /\ NodeOf(api') = [annotated |-> TRUE, attached |-> 1..0]
        <3>1. 0 \in 0..NumENIs
            BY NumAssumption
        <3>. QED BY <2>2, <3>1 DEF Annotation!Annotate, NodeOf
    <2>3. CASE /\ NodeOf(api).annotated
               /\ \E i \in (1..NumENIs) \ NodeOf(api).attached :
                    /\ \A j \in 1..NumENIs : j < i => j \in NodeOf(api).attached
                    /\ NodeOf(api') =
                         [NodeOf(api) EXCEPT !.attached = @ \union {i}]
        BY <2>3 DEF Annotation!Attach, Annotation!Index, NodeOf
    <2>. QED BY <1>1, <2>1, <2>2, <2>3, BehindIsAStep
<1>. QED BY <1>2 DEF Annotation!Next, NodeOf

(* What the node agent can rely on: as long as the Node object lives,        *)
(* interfaces are flagged one after another and none is ever taken back,     *)
(* whatever fails and however stale the copies handleNode works from.        *)
THEOREM Implements ==
    ASSUME "delete" \notin Faults
    PROVE  Spec => ImplementsNodeAnnotation
<1>1. Init => OneStepAtATime
    BY InitOrdered
<1>2. ~Delete
    BY DEF Delete, Fault
<1>3. TypeOK /\ IInv /\ OneStepAtATime /\ [Next]_vars => OneStepAtATime'
    BY <1>2, NextOrders
<1>4. Spec => []OneStepAtATime
    BY <1>1, <1>3, Inductive, PTL DEF Spec
<1>5. Init => Annotation!Init
    <2> SUFFICES ASSUME Init PROVE Annotation!Init
        OBVIOUS
    <2>1. api.enis = <<>> /\ Len(api.enis) = 0
        BY DEF Init, Registered
    <2>2. {i \in 1..Len(api.enis) : api.enis[i].attached} = {}
        BY <2>1
    <2>3. (api.enis # <<>>) = FALSE
        BY <2>1
    <2>. QED BY <2>2, <2>3 DEF Annotation!Init, Annotation!Blank
<1>6. /\ TypeOK /\ IInv /\ OneStepAtATime /\ [Next]_vars
      /\ TypeOK' /\ IInv' /\ OneStepAtATime'
      => [Annotation!Next]_[annotated |-> api.enis # <<>>,
             attached |-> {i \in 1..Len(api.enis) : api.enis[i].attached}]
    BY <1>2, NextOrders, StepRefines
<1>. QED BY <1>4, <1>5, <1>6, Inductive, PTL
     DEF Spec, ImplementsNodeAnnotation, Annotation!Spec

--------------------------------------------------------------------------------
(* What EC2 has attached is flagged, or is the interface that attachENI is   *)
(* about to flag.                                                            *)
Flagged(e) ==
    /\ device[e] \in 1..Len(api.enis)
    /\ api.enis[device[e]] = [id |-> e, attached |-> TRUE]

Pending(e) ==
    pc \in {"modify", "saveAttached"} /\ seen.enis[Target].id = e

AllFlagged == \A e \in ENI : device[e] # 0 => Flagged(e) \/ Pending(e)

(* EC2 takes one interface per index. *)
Distinct ==
    \A e, f \in ENI : device[e] = device[f] /\ device[e] # 0 => e = f

(* What may fail without an attachment being lost: requests that EC2 never   *)
(* answers by attaching.                                                     *)
BeforeAttachment == {"describe", "create", "resync"}

(* Nothing has failed, or nothing but these can.                             *)
Unharmed == faults = 0 \/ Faults \subseteq BeforeAttachment

(* The inductive invariant. *)
NothingLost == Unharmed => OneStepAtATime /\ Distinct /\ AllFlagged

(* A failure is never forgotten, and one that is yet to come takes a step    *)
(* that counts it.                                                           *)
LEMMA NoHarmYet ==
    ASSUME TypeOK, [Next]_vars, Unharmed'
    PROVE  /\ Unharmed /\ ~Fault("update")
           /\ ~Delete /\ ~Crash /\ ~CallFails("attach") /\ ~CallFails("modify")
<1>1. faults \in Nat
    BY DEF TypeOK
<1>2. \A kind : Fault(kind) => kind \in BeforeAttachment
    BY <1>1 DEF Fault, Unharmed
<1>3. /\ ~Fault("update") /\ ~Fault("delete") /\ ~Fault("crash")
      /\ ~Fault("attach") /\ ~Fault("modify")
    BY <1>2 DEF BeforeAttachment
<1>4. ~Delete /\ ~Crash /\ ~CallFails("attach") /\ ~CallFails("modify")
    BY <1>3 DEF Delete, Crash, CallFails, RequestFails
<1>5. Unharmed
    <2> SUFFICES ASSUME faults' = 0 PROVE faults = 0
        BY DEF Unharmed
    <2>1. \A kind : ~Fault(kind)
        BY <1>1 DEF Fault
    <2>2. ASSUME NEW field, NEW value, NEW ignored,
                 UpdateNode(field, value, ignored)
          PROVE  faults' = faults
        BY <2>1, <2>2 DEF UpdateNode
    <2>3. ~EC2Fails
        BY <2>1 DEF EC2Fails, CallFails, RequestFails
    <2>. QED BY <1>4, <2>2, <2>3
         DEF Next, vars, Handler, Sync, Resync, SetProviderID, Register,
             HandleNode, ReturnError, Describe, Label, AttachENI,
             ModifyAttribute, SaveAttached, CreateENI, SaveCreated
<1>. QED BY <1>3, <1>4, <1>5

(* An attached interface is at the same place of every copy that flags that  *)
(* place.                                                                    *)
LEMMA SamePlace ==
    ASSUME TypeOK, IInv, Distinct, NEW e \in ENI, device[e] # 0,
           device[e] \in 1..Len(seen.enis), seen.enis[device[e]].attached
    PROVE  seen.enis[device[e]] = [id |-> e, attached |-> TRUE]
<1> DEFINE i == device[e]
           f == seen.enis[i].id
<1>1. seen.enis[i] \in Interface /\ f \in ENI
    BY InterfaceAt DEF TypeOK
<1>2. device[f] = i
    BY DEF IInv, CopiesAreGood, Real
<1>3. f = e
    BY <1>1, <1>2 DEF Distinct
<1>. QED BY <1>1, <1>3 DEF Interface

--------------------------------------------------------------------------------
(* A step that leaves the recorded interfaces, EC2's attachments and what    *)
(* attachENI is doing alone.                                                 *)
LEMMA OthersKeepFlags ==
    ASSUME Distinct, AllFlagged, api'.enis = api.enis, device' = device,
           pc \in {"modify", "saveAttached"} =>
               pc' \in {"modify", "saveAttached"} /\ seen' = seen
    PROVE  Distinct' /\ AllFlagged'
<1>1. ASSUME NEW e \in ENI, device[e] # 0
      PROVE  Flagged(e)' \/ Pending(e)'
    <2>1. CASE Flagged(e)
        BY <2>1 DEF Flagged
    <2>2. CASE Pending(e)
        BY <2>2, SeenIsUnchanged DEF Pending
    <2>. QED BY <1>1, <2>1, <2>2 DEF AllFlagged
<1>. QED BY <1>1 DEF Distinct, AllFlagged

(* The first update after the attachment flags it; what was flagged before   *)
(* is flagged in every copy that has got this far.                           *)
LEMMA SaveAttachedFlags ==
    ASSUME TypeOK, IInv, OneStepAtATime, Distinct, AllFlagged, SaveAttached,
           ~Fault("update")
    PROVE  Distinct' /\ AllFlagged'
<1> DEFINE enis == WithAttached(seen.enis, Target)
<1>1. /\ pc = "saveAttached" /\ device' = device
      /\ Unattached(seen) # {} /\ device[seen.enis[Target].id] = Target
      /\ Orderly(seen) /\ Orderly(api) /\ api.exists /\ Behind(seen, api)
    BY DEF SaveAttached, ec2, IInv, DoneBeforeSaved, OneStepAtATime, SeenFirst,
           Ordered, Orderly
<1>2. api' = [api EXCEPT !["enis"] = enis]
    BY <1>1 DEF SaveAttached, UpdateNode
<1>3. api'.enis = enis
    BY <1>2 DEF TypeOK, NodeType
<1>4. /\ seen.enis \in ENIs /\ Len(seen.enis) \in Nat
      /\ Stage(seen) = 2 * Len(seen.enis) - 1
      /\ Target \in 1..Len(seen.enis) /\ Target = Len(seen.enis)
      /\ seen.enis[Target].id \in ENI
    BY <1>1, FlagsOf, TargetIsUnattached DEF TypeOK, Orderly, Unattached
<1>5. /\ enis \in ENIs /\ Len(enis) = Len(seen.enis) /\ enis[Target].attached
      /\ enis[Target].id = seen.enis[Target].id
      /\ \A i \in 1..Len(seen.enis) : i # Target => enis[i] = seen.enis[i]
    BY <1>4, WithAttachedIs
<1> HIDE DEF enis
<1>6. Len(api.enis) \in Nat /\ Len(api.enis) <= Len(seen.enis)
    <2>1. /\ Len(api.enis) \in Nat
          /\ Stage(api) = 2 * Len(api.enis) \/ Stage(api) = 2 * Len(api.enis) - 1
        BY <1>1, FlagsOf DEF TypeOK
    <2>. QED BY <1>1, <1>4, <2>1 DEF Behind
<1>7. ASSUME NEW e \in ENI, device[e] # 0
      PROVE  /\ device[e] \in 1..Len(enis)
             /\ enis[device[e]] = [id |-> e, attached |-> TRUE]
    <2>1. CASE device[e] = Target
        <3>1. seen.enis[Target].id = e
            BY <1>1, <1>4, <1>7, <2>1 DEF Distinct
        <3>2. enis[Target] \in Interface
            BY <1>4, <1>5, ElementOfSeq DEF ENIs
        <3>. QED BY <1>4, <1>5, <2>1, <3>1, <3>2 DEF Interface
    <2>2. CASE device[e] # Target
        <3>1. Flagged(e)
            BY <1>1, <1>7, <2>2 DEF AllFlagged, Pending
        <3>2. device[e] \in 1..Len(seen.enis)
            BY <1>4, <1>6, <3>1 DEF Flagged
        <3>3. seen.enis[device[e]].attached
            BY <1>1, <1>4, <2>2, <3>2 DEF Orderly
        <3>. QED BY <1>5, <1>7, <2>2, <3>2, <3>3, SamePlace
    <2>. QED BY <2>1, <2>2
<1>. QED BY <1>1, <1>3, <1>7 DEF Distinct, AllFlagged, Flagged

(* An interface is created when all those seen are attached. *)
LEMMA SaveCreatedKeepsFlags ==
    ASSUME TypeOK, IInv, OneStepAtATime, Distinct, AllFlagged, SaveCreated,
           ~Fault("update")
    PROVE  Distinct' /\ AllFlagged'
<1> DEFINE eni == [id |-> new, attached |-> FALSE]
           enis == Append(seen.enis, eni)
<1>1. /\ pc = "saveCreated" /\ device' = device /\ Unattached(seen) = {}
      /\ Orderly(seen) /\ Orderly(api) /\ api.exists /\ Behind(seen, api)
      /\ new \in ENI
    BY DEF SaveCreated, ec2, IInv, DoneBeforeSaved, TypeOK, OneStepAtATime,
           SeenFirst, Decided, Ordered, Orderly
<1>2. api' = [api EXCEPT !["enis"] = enis]
    BY <1>1 DEF SaveCreated, UpdateNode
<1>3. api'.enis = enis
    BY <1>2 DEF TypeOK, NodeType
<1>4. /\ seen.enis \in ENIs /\ Stage(seen) = 2 * Len(seen.enis)
      /\ \A i \in 1..Len(seen.enis) : seen.enis[i].attached
    BY <1>1, FlagsOf DEF TypeOK, Unattached
<1>5. eni \in Interface
    BY <1>1 DEF Interface
<1> HIDE DEF eni
<1>6. /\ Len(enis) = Len(seen.enis) + 1 /\ Len(seen.enis) \in Nat
      /\ \A i \in 1..Len(seen.enis) : enis[i] = seen.enis[i]
    BY <1>4, <1>5 DEF ENIs
<1> HIDE DEF enis
<1>7. ASSUME NEW e \in ENI, device[e] # 0
      PROVE  /\ device[e] \in 1..Len(enis)
             /\ enis[device[e]] = [id |-> e, attached |-> TRUE]
    <2>1. Flagged(e)
        BY <1>1, <1>7 DEF AllFlagged, Pending
    <2>2. api.enis[device[e]].attached
        BY <2>1 DEF Flagged
    <2>3. device[e] \in 1..Len(seen.enis)
        <3>1. CASE Unattached(api) = {}
            <4>1. Len(api.enis) \in Nat /\ Stage(api) = 2 * Len(api.enis)
                BY <1>1, <3>1, FlagsOf DEF TypeOK
            <4>2. Len(api.enis) <= Len(seen.enis)
                BY <1>1, <1>4, <1>6, <4>1 DEF Behind
            <4>. QED BY <1>6, <2>1, <4>1, <4>2 DEF Flagged
        <3>2. CASE Unattached(api) # {}
            <4>1. Len(api.enis) \in Nat /\ Stage(api) = 2 * Len(api.enis) - 1
                BY <1>1, <3>2, FlagsOf DEF TypeOK
            <4>2. Len(api.enis) <= Len(seen.enis) + 1
                BY <1>1, <1>4, <1>6, <4>1 DEF Behind
            <4>3. device[e] # Len(api.enis)
                <5>1. PICK i \in 1..Len(api.enis) : ~api.enis[i].attached
                    BY <3>2 DEF Unattached
                <5>. QED BY <1>1, <2>2, <5>1 DEF Orderly
            <4>. QED BY <1>6, <2>1, <4>1, <4>2, <4>3 DEF Flagged
        <3>. QED BY <3>1, <3>2
    <2>. QED BY <1>4, <1>6, <1>7, <2>3, SamePlace
<1>. QED BY <1>1, <1>3, <1>7 DEF Distinct, AllFlagged, Flagged

LEMMA AttachENIKeepsFlags ==
    ASSUME TypeOK, IInv, Distinct, AllFlagged, AttachENI
    PROVE  Distinct' /\ AllFlagged'
<1> DEFINE id == seen.enis[Target].id
<1>1. /\ pc = "attach" /\ UNCHANGED <<api, seen>> /\ Unattached(seen) # {}
    BY DEF AttachENI, IInv, DoneBeforeSaved
<1>2. id \in ENI
    BY <1>1, TargetIsUnattached
<1>3. CASE AttachInterface(id, Target) /\ pc' = "modify"
    <2>1. /\ device'[id] = Target
          /\ \A e \in ENI : e # id => device'[e] = device[e]
        BY <1>2, <1>3 DEF AttachInterface, TypeOK
    <2>2. Distinct'
        BY <1>3, <2>1 DEF Distinct, AttachInterface, Attachable
    <2>3. ASSUME NEW e \in ENI, e = id
          PROVE  Pending(e)'
        BY <1>1, <1>3, <2>3, SeenIsUnchanged DEF Pending
    <2>4. ASSUME NEW e \in ENI, e # id, device[e] # 0
          PROVE  Flagged(e)'
        BY <1>1, <2>1, <2>4 DEF AllFlagged, Flagged, Pending
    <2>. QED BY <2>1, <2>2, <2>3, <2>4 DEF AllFlagged
<1>4. CASE UNCHANGED device
    BY <1>1, <1>4, OthersKeepFlags
<1>. QED BY <1>3, <1>4 DEF AttachENI, Goto, ec2

--------------------------------------------------------------------------------
LEMMA NothingLostYet ==
    ASSUME TypeOK, IInv, NothingLost, [Next]_vars
    PROVE  NothingLost'
<1> SUFFICES ASSUME Unharmed'
             PROVE  OneStepAtATime' /\ Distinct' /\ AllFlagged'
    BY DEF NothingLost
<1>1. /\ ~Fault("update") /\ ~Delete /\ ~Crash
      /\ ~CallFails("attach") /\ ~CallFails("modify")
      /\ OneStepAtATime /\ Distinct /\ AllFlagged
    BY NoHarmYet DEF NothingLost
<1>2. OneStepAtATime'
    BY <1>1, NextOrders
<1>3. CASE Sync \/ Resync \/ SetProviderID \/ UNCHANGED vars
    <2>1. api'.enis = api.enis /\ UNCHANGED <<pc, seen, device>>
        BY <1>3 DEF Sync, Resync, SetProviderID, Change, vars, ec2, TypeOK,
                    NodeType
    <2>. QED BY <1>1, <1>2, <2>1, OthersKeepFlags
<1>4. CASE HandleNode \/ ReturnError \/ CreateENI \/ EC2Fails
    <2>1. CASE HandleNode \/ ReturnError \/ CreateENI
        <3>1. /\ api'.enis = api.enis /\ device' = device
              /\ pc \in {"idle", "error", "create"}
            BY <2>1
            DEF HandleNode, ReturnError, CreateENI, CreateInterface, ec2
        <3>. QED BY <1>1, <1>2, <3>1, OthersKeepFlags
    <2>2. CASE CallFails("describe") \/ CallFails("create")
        <3>1. /\ api'.enis = api.enis /\ device' = device
              /\ pc \in {"describe", "create"}
            BY <2>2
            DEF CallFails, RequestFails, CarriedOut, CreateInterface, ec2
        <3>. QED BY <1>1, <1>2, <3>1, OthersKeepFlags
    <2>. QED BY <1>1, <1>4, <2>1, <2>2 DEF EC2Fails
<1>5. CASE Describe \/ Label
    <2>1. PICK field \in {"info", "label"} :
             /\ UpdateNode(field, TRUE, FALSE)
             /\ device' = device /\ pc \in {"describe", "label"}
        BY <1>5 DEF Describe, Label, ec2
    <2>2. api' = api \/ api' = [api EXCEPT ![field] = TRUE]
        BY <2>1 DEF UpdateNode
    <2>3. api'.enis = api.enis
        BY <2>1, <2>2 DEF TypeOK, NodeType
    <2>. QED BY <1>1, <1>2, <2>1, <2>3, OthersKeepFlags
<1>6. CASE AttachENI
    BY <1>1, <1>2, <1>6, AttachENIKeepsFlags
<1>7. CASE ModifyAttribute
    <2>1. /\ api'.enis = api.enis /\ device' = device /\ seen' = seen
          /\ pc' = "saveAttached"
        BY <1>7 DEF ModifyAttribute, SetPolicy, Goto
    <2>. QED BY <1>1, <1>2, <2>1, OthersKeepFlags
<1>8. CASE SaveAttached
    BY <1>1, <1>2, <1>8, SaveAttachedFlags
<1>9. CASE SaveCreated
    BY <1>1, <1>2, <1>9, SaveCreatedKeepsFlags
<1>. QED BY <1>1, <1>2, <1>3, <1>4, <1>5, <1>6, <1>7, <1>8, <1>9,
            NeverRegistered DEF Next, Handler

(* While nothing has failed after an attachment, the copies are at most one  *)
(* step apart and what EC2 has attached is flagged: the inductive invariant. *)
LEMMA WhileUnharmed == Spec => []NothingLost
<1>1. Init => NothingLost
    <2> SUFFICES ASSUME Init PROVE Distinct /\ AllFlagged
        BY InitOrdered DEF NothingLost
    <2>1. \A e \in ENI : device[e] = 0
        BY DEF Init
    <2>. QED BY <2>1 DEF Distinct, AllFlagged
<1>2. TypeOK /\ IInv /\ NothingLost /\ [Next]_vars => NothingLost'
    BY NothingLostYet
<1>. QED BY <1>1, <1>2, Inductive, PTL DEF Spec

(* As long as nothing has failed, no stale copy that handleNode writes back  *)
(* takes an attached interface out of the annotation.                        *)
THEOREM AttachmentsRecorded == Spec => []AttachmentsAreRecorded
<1>1. NothingLost => AttachmentsAreRecorded
    BY DEF NothingLost, Unharmed, AllFlagged, Flagged, Pending,
           AttachmentsAreRecorded
<1>. QED BY <1>1, WhileUnharmed, PTL

(* However often describing and creating fail, carried out or not, and are   *)
(* tried again, every attachment is flagged or about to be, and has its      *)
(* index for itself: only a failure once EC2 has attached (the reply to the  *)
(* attachment, the deletion policy, an update, a crash) or the node's        *)
(* deletion can lose one.                                                    *)
THEOREM RetriesLoseNothing ==
    ASSUME Faults \subseteq BeforeAttachment
    PROVE  Spec => [](Distinct /\ AllFlagged)
<1>1. NothingLost => Distinct /\ AllFlagged
    BY DEF NothingLost, Unharmed
<1>. QED BY <1>1, WhileUnharmed, PTL

(* As long as nothing has failed, attachENI can attach whatever is recorded  *)
(* as not attached.                                                          *)
THEOREM FailuresWedge == Spec => []OnlyFailuresWedge
<1>1. TypeOK /\ IInv /\ NothingLost => OnlyFailuresWedge
    <2> SUFFICES ASSUME TypeOK, IInv, OneStepAtATime, AllFlagged,
                        pc \notin {"modify", "saveAttached"},
                        NEW i \in Unattached(api)
                 PROVE  Attachable(api.enis[i].id, i)
        BY DEF NothingLost, Unharmed, OnlyFailuresWedge
    <2>1. \A e \in ENI : device[e] # 0 => Flagged(e)
        BY DEF AllFlagged, Pending
    <2>2. /\ i \in 1..Len(api.enis) /\ ~api.enis[i].attached
          /\ api.enis[i].id \in ENI /\ i # 0
        BY InterfaceAt DEF Unattached, TypeOK
    <2>3. ASSUME NEW e \in ENI PROVE device[e] # i
        <3> SUFFICES ASSUME device[e] = i PROVE FALSE
            OBVIOUS
        <3>1. api.enis[i] = [id |-> e, attached |-> TRUE]
            BY <2>1, <2>2 DEF Flagged
        <3>. QED BY <2>2, <3>1
    <2>4. device[api.enis[i].id] = 0
        <3> SUFFICES ASSUME device[api.enis[i].id] # 0 PROVE FALSE
            OBVIOUS
        <3>1. PICK j \in 1..Len(api.enis) :
                 /\ j = device[api.enis[i].id]
                 /\ api.enis[j] = [id |-> api.enis[i].id, attached |-> TRUE]
            BY <2>1, <2>2 DEF Flagged
        <3>2. api.enis[j].id = api.enis[i].id /\ j # i
            BY <2>2, <2>3, <3>1
        <3>. QED BY <2>2, <3>2 DEF IInv, CopiesAreGood, Fits
    <2>. QED BY <2>3, <2>4 DEF Attachable
<1>. QED BY <1>1, WhileUnharmed, Inductive, PTL
================================================================================
