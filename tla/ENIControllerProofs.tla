-------------------------- MODULE ENIControllerProofs --------------------------
(***************************************************************************)
(* Proofs about ENIController.tla, for any number of interfaces, any       *)
(* faults and any lag of the informer: every copy of the node there is     *)
(* tells the truth about EC2, so that whichever of them overwrites the     *)
(* annotation, the annotation does too.                                    *)
(***************************************************************************)
EXTENDS ENIController, TLAPS

W == INSTANCE WellFoundedInduction

USE ENIAssumption, NumAssumption, FaultAssumption

Interface == [id : ENI, attached : BOOLEAN]

ENIs == Seq(Interface)

LEMMA ElementOfSeq ==
    ASSUME NEW S, NEW q \in Seq(S), NEW i \in 1..Len(q)
    PROVE  q[i] \in S
OBVIOUS

LEMMA InterfaceAt ==
    ASSUME NEW n \in NodeType, NEW i \in 1..Len(n.enis)
    PROVE  /\ n.enis \in ENIs /\ n.enis[i] \in Interface
           /\ n.enis[i].id \in ENI /\ i \in Nat \ {0} /\ Len(n.enis) \in Nat
<1>1. n.enis \in ENIs
    BY DEF NodeType, ENIs, Interface
<1>2. n.enis[i] \in Interface
    BY <1>1, ElementOfSeq DEF ENIs
<1>3. Len(n.enis) \in Nat
    BY <1>1 DEF ENIs
<1>. QED BY <1>1, <1>2, <1>3 DEF Interface

--------------------------------------------------------------------------------
(* The first of the interfaces that are not attached. *)
LEMMA TargetExists ==
    ASSUME NEW T \in SUBSET Nat, T # {}
    PROVE  \E i \in T : \A j \in T : i <= j
<1> DEFINE less == W!OpToRel(<, Nat)
<1>1. W!IsWellFoundedOn(less, Nat)
    BY W!NatLessThanWellFounded
<1>2. PICK i \in T : \A j \in T : ~(<<j, i>> \in less)
    <2> HIDE DEF less
    <2>. QED BY <1>1, W!WFMin
<1>3. \A j \in T : j < i => <<j, i>> \in less
    BY DEF W!OpToRel
<1>4. \A j \in T : ~(j < i)
    <2> HIDE DEF less
    <2>. QED BY <1>2, <1>3
<1>5. \A j \in T : i <= j
    BY <1>4
<1>. QED BY <1>5

LEMMA TargetIsUnattached ==
    ASSUME TypeOK, Unattached(seen) # {}
    PROVE  /\ Target \in Unattached(seen)
           /\ Target \in 1..Len(seen.enis)
           /\ seen.enis[Target].id \in ENI
<1>1. Unattached(seen) \in SUBSET Nat
    BY DEF Unattached
<1>2. \E i \in Unattached(seen) : \A j \in Unattached(seen) : i <= j
    BY <1>1, TargetExists
<1>3. Target \in Unattached(seen)
    BY <1>2 DEF Target
<1>4. Target \in 1..Len(seen.enis)
    BY <1>3 DEF Unattached
<1>5. seen.enis[Target].id \in ENI
    BY <1>4, InterfaceAt DEF TypeOK
<1>. QED BY <1>3, <1>4, <1>5

--------------------------------------------------------------------------------
(* What is true of a copy of the node stays true: EC2 attaches only detached *)
(* interfaces, and forgets none.                                             *)
EC2Grows ==
    /\ \A e \in ENI : device[e] # 0 => device'[e] = device[e]
    /\ policy \subseteq policy' /\ created \subseteq created'

EC2Step ==
    /\ EC2Grows /\ device' \in [ENI -> 0..NumENIs]
    /\ policy' \subseteq ENI /\ created' \subseteq ENI

LEMMA EC2Stutters ==
    ASSUME TypeOK, UNCHANGED ec2
    PROVE  EC2Step
BY DEF TypeOK, ec2, EC2Step, EC2Grows

LEMMA GoodStaysGood ==
    ASSUME EC2Grows, NEW n \in NodeType, Real(n), Fits(n)
    PROVE  (Real(n) /\ Fits(n))'
<1>1. \A i \in 1..Len(n.enis) : i # 0 /\ n.enis[i].id \in ENI
    BY InterfaceAt
<1>2. Real(n)'
    BY <1>1 DEF EC2Grows, Real
<1>3. Fits(n)'
    BY DEF EC2Grows, Fits, Recorded
<1>. QED BY <1>2, <1>3

(* The versions on their way to the informer. *)
LEMMA AppendVersions ==
    ASSUME NEW w \in Seq(NodeType), NEW n \in NodeType
    PROVE  /\ Append(w, n) \in Seq(NodeType)
           /\ \A k \in 1..Len(Append(w, n)) :
                 \/ Append(w, n)[k] = n
                 \/ \E j \in 1..Len(w) : Append(w, n)[k] = w[j]
<1>1. /\ Append(w, n) \in Seq(NodeType) /\ Len(Append(w, n)) = Len(w) + 1
      /\ Append(w, n)[Len(w) + 1] = n /\ Len(w) \in Nat
      /\ \A j \in 1..Len(w) : Append(w, n)[j] = w[j]
    OBVIOUS
<1>2. ASSUME NEW k \in 1..Len(Append(w, n))
      PROVE  k = Len(w) + 1 \/ k \in 1..Len(w)
    BY <1>1
<1>. QED BY <1>1, <1>2

LEMMA TailVersions ==
    ASSUME NEW w \in Seq(NodeType), w # <<>>
    PROVE  /\ Head(w) \in NodeType /\ \E j \in 1..Len(w) : Head(w) = w[j]
           /\ Tail(w) \in Seq(NodeType)
           /\ \A k \in 1..Len(Tail(w)) :
                 \E j \in 1..Len(w) : Tail(w)[k] = w[j]
<1>1. /\ Head(w) \in NodeType /\ Head(w) = w[1] /\ 1 \in 1..Len(w)
      /\ Tail(w) \in Seq(NodeType) /\ Len(Tail(w)) = Len(w) - 1
      /\ \A k \in 1..Len(Tail(w)) : Tail(w)[k] = w[k + 1]
      /\ \A k \in 1..Len(Tail(w)) : k + 1 \in 1..Len(w)
    OBVIOUS
<1>. QED BY <1>1

--------------------------------------------------------------------------------
(* The copies after a step: those there were, and perhaps a good new node.   *)
CopiesStep ==
    /\ api' \in NodeType /\ (Real(api) /\ Fits(api))'
    /\ cache' \in {cache, api'} \union {watch[k] : k \in 1..Len(watch)}
    /\ seen' \in {seen, cache}
    /\ watch' \in Seq(NodeType)
    /\ \A k \in 1..Len(watch') :
          watch'[k] = api' \/ \E j \in 1..Len(watch) : watch'[k] = watch[j]

LEMMA CopiesStayGood ==
    ASSUME TypeOK, CopiesAreGood, EC2Grows, CopiesStep
    PROVE  CopiesAreGood' /\ cache' \in NodeType /\ seen' \in NodeType
<1> DEFINE Copies == {api, cache, seen} \union {watch[k] : k \in 1..Len(watch)}
<1>1. \A n \in Copies : n \in NodeType /\ Real(n) /\ Fits(n)
    BY DEF TypeOK, CopiesAreGood
<1>2. \A n \in Copies : (Real(n) /\ Fits(n))'
    BY <1>1, GoodStaysGood
<1>3. (Copies)' \subseteq Copies \union {api'}
    BY DEF CopiesStep
<1>4. \A n \in (Copies)' : (Real(n) /\ Fits(n))'
    BY <1>2, <1>3 DEF CopiesStep
<1>5. cache' \in (Copies \union {api'}) /\ seen' \in Copies
    BY DEF CopiesStep
<1>. QED BY <1>1, <1>4, <1>5 DEF CopiesAreGood, CopiesStep

--------------------------------------------------------------------------------
LEMMA InitInv == Init => TypeOK /\ IInv
<1> SUFFICES ASSUME Init PROVE TypeOK /\ IInv
    OBVIOUS
<1>1. /\ api \in NodeType /\ Len(api.enis) = 0 /\ Len(watch) = 0
      /\ cache = api /\ seen = api /\ watch \in Seq(NodeType)
    BY DEF Init, Registered, NodeType
<1>2. failures \in 0..MaxRequeues /\ device \in [ENI -> 0..NumENIs]
    BY DEF Init, MaxRequeues
<1>3. TypeOK
    BY <1>1, <1>2 DEF Init, TypeOK
<1>4. Real(api) /\ Fits(api)
    BY <1>1 DEF Real, Fits, Recorded
<1>5. CopiesAreGood
    BY <1>1, <1>4 DEF CopiesAreGood
<1>6. DoneBeforeSaved
    BY DEF Init, DoneBeforeSaved
<1>. QED BY <1>3, <1>5, <1>6 DEF IInv

LEMMA EnqueueTypes ==
    ASSUME TypeOK, Enqueue
    PROVE  queued' \in BOOLEAN /\ failures' \in 0..MaxRequeues
BY DEF TypeOK, Enqueue, Min, MaxRequeues

LEMMA FaultCounts ==
    ASSUME TypeOK, NEW kind, Fault(kind)
    PROVE  faults' \in 0..MaxFaults
BY DEF TypeOK, Fault

LEMMA RestartTypes ==
    ASSUME TypeOK, api' \in NodeType, Restart
    PROVE  queued' \in BOOLEAN /\ failures' \in 0..MaxRequeues
<1>1. api'.exists \in BOOLEAN
    BY DEF NodeType
<1>. QED BY <1>1 DEF Restart, MaxRequeues

(* However handleNode ends, the informer's copy is the one it was or, after  *)
(* a restart, the current one.                                               *)
LEMMA FinishOutcome ==
    ASSUME TypeOK, api' \in NodeType, NEW ok, NEW w, Finish(ok, w) \/ Restart
    PROVE  /\ pc' = "idle"
           /\ queued' \in BOOLEAN /\ failures' \in 0..MaxRequeues
           /\ cache' \in {cache, api'} /\ watch' \in {w, <<>>}
<1>1. CASE Restart
    BY <1>1, RestartTypes DEF Restart
<1>2. CASE /\ pc' = "idle" /\ failures' = 0 /\ watch' = w
           /\ UNCHANGED <<queued, cache>>
    BY <1>2 DEF TypeOK, MaxRequeues
<1>3. CASE pc' = "idle" /\ Enqueue /\ watch' = w /\ UNCHANGED cache
    BY <1>3, EnqueueTypes
<1>. QED BY <1>1, <1>2, <1>3 DEF Finish

LEMMA FinishKeeps ==
    ASSUME TypeOK, IInv, NEW ok, NEW w, Finish(ok, w) \/ Restart,
           EC2Step, UNCHANGED <<instance, seen, new>>, faults' \in 0..MaxFaults,
           \/ api' = api /\ w = watch
           \/ /\ api' \in NodeType /\ (Real(api) /\ Fits(api))'
              /\ w = Append(watch, api')
    PROVE  TypeOK' /\ IInv'
<1>1. EC2Grows
    BY DEF EC2Step
<1>2. api' \in NodeType /\ (Real(api) /\ Fits(api))'
    BY <1>1, GoodStaysGood DEF TypeOK, IInv, CopiesAreGood
<1>3. /\ w \in Seq(NodeType)
      /\ \A k \in 1..Len(w) :
            w[k] = api' \/ \E j \in 1..Len(watch) : w[k] = watch[j]
    <2>1. CASE w = watch
        BY <2>1 DEF TypeOK
    <2>2. CASE w = Append(watch, api')
        BY <1>2, <2>2, AppendVersions DEF TypeOK
    <2>. QED BY <2>1, <2>2
<1>4. /\ pc' = "idle"
      /\ queued' \in BOOLEAN /\ failures' \in 0..MaxRequeues
      /\ cache' \in {cache, api'} /\ watch' \in {w, <<>>}
    BY <1>2, FinishOutcome
<1>5. /\ watch' \in Seq(NodeType)
      /\ \A k \in 1..Len(watch') :
            watch'[k] = api' \/ \E j \in 1..Len(watch) : watch'[k] = watch[j]
    <2>1. <<>> \in Seq(NodeType) /\ \A k \in 1..Len(<<>>) : FALSE
        OBVIOUS
    <2>2. CASE watch' = <<>>
        BY <2>1, <2>2
    <2>3. CASE watch' = w
        BY <1>3, <2>3
    <2>. QED BY <1>4, <2>2, <2>3
<1>6. CopiesStep
    BY <1>2, <1>4, <1>5 DEF CopiesStep
<1>7. CopiesAreGood' /\ cache' \in NodeType /\ seen' \in NodeType
    BY <1>1, <1>6, CopiesStayGood DEF IInv
<1>8. DoneBeforeSaved'
    BY <1>4 DEF DoneBeforeSaved
<1>. QED BY <1>2, <1>4, <1>5, <1>7, <1>8 DEF TypeOK, IInv, EC2Step

(* UpdateNode puts a good node in place of a good one, or nothing happens.   *)
LEMMA UpdateNodeKeeps ==
    ASSUME TypeOK, IInv, NEW field, NEW value, NEW ignored,
           UpdateNode(field, value, ignored),
           UNCHANGED <<instance, seen, new, ec2>>,
           NEW n \in NodeType, n = [api EXCEPT ![field] = value],
           Real(n), Fits(n)
    PROVE  TypeOK' /\ IInv'
<1>1. faults' \in 0..MaxFaults /\ EC2Step
    BY FaultCounts, EC2Stutters DEF UpdateNode, TypeOK
<1>2. (Real(n) /\ Fits(n))'
    BY GoodStaysGood DEF EC2Grows, ec2
<1>3. CASE api' = n /\ \E ok : Finish(ok, Append(watch, api'))
    <2>1. (Real(api) /\ Fits(api))'
        BY <1>2, <1>3 DEF Real, Fits, Recorded
    <2>. QED BY <1>1, <1>3, <2>1, FinishKeeps
<1>4. CASE api' = api /\ \E ok : Finish(ok, watch)
    BY <1>1, <1>4, FinishKeeps
<1>5. \/ api' = n /\ \E ok : Finish(ok, Append(watch, api'))
      \/ api' = api /\ \E ok : Finish(ok, watch)
    BY DEF UpdateNode
<1>. QED BY <1>3, <1>4, <1>5

--------------------------------------------------------------------------------
(* The informer and the others' changes: what handleNode does is not         *)
(* touched.                                                                  *)
LEMMA WatchKeeps ==
    ASSUME TypeOK, IInv, CopiesStep,
           UNCHANGED <<instance, pc, seen, new, ec2>>,
           queued' \in BOOLEAN, failures' \in 0..MaxRequeues,
           faults' \in 0..MaxFaults
    PROVE  TypeOK' /\ IInv'
<1>1. CopiesAreGood' /\ cache' \in NodeType
    BY CopiesStayGood DEF IInv, EC2Grows, ec2
<1>2. DoneBeforeSaved'
    <2>1. /\ Unattached(seen)' = Unattached(seen) /\ Target' = Target
          /\ NeedsENI(seen)' = NeedsENI(seen) /\ Recorded(seen)' = Recorded(seen)
        BY DEF Unattached, Target, NeedsENI, Recorded
    <2>. QED BY <2>1 DEF IInv, DoneBeforeSaved, ec2
<1>. QED BY <1>1, <1>2 DEF TypeOK, IInv, CopiesStep, ec2

LEMMA SyncKeeps ==
    ASSUME TypeOK, IInv, Sync \/ Resync
    PROVE  TypeOK' /\ IInv'
<1>1. UNCHANGED <<instance, api, pc, seen, new, ec2, faults>> /\ Enqueue
    BY DEF Sync, Resync
<1>2. api' \in NodeType /\ (Real(api) /\ Fits(api))'
    BY <1>1, GoodStaysGood DEF TypeOK, IInv, CopiesAreGood, EC2Grows, ec2
<1>3. ASSUME Sync PROVE CopiesStep
    BY <1>1, <1>2, <1>3, TailVersions DEF Sync, TypeOK, CopiesStep
<1>4. ASSUME Resync PROVE CopiesStep
    BY <1>1, <1>2, <1>4 DEF Resync, TypeOK, CopiesStep
<1>. QED BY <1>1, <1>3, <1>4, WatchKeeps, EnqueueTypes DEF TypeOK

LEMMA ChangeKeeps ==
    ASSUME TypeOK, IInv, SetProviderID \/ Delete \/ Register
    PROVE  TypeOK' /\ IInv'
<1>1. PICK n \in {[api EXCEPT !.provider = TRUE], Deleted, Registered} :
          Change(n)
    BY DEF SetProviderID, Delete, Register
<1>2. faults' \in 0..MaxFaults
    BY FaultCounts DEF SetProviderID, Delete, Register, TypeOK
<1>3. n \in NodeType
    <2>1. Registered \in NodeType /\ Deleted \in NodeType
        <3>1. <<>> \in Seq([id : ENI, attached : BOOLEAN])
            OBVIOUS
        <3>2. Registered \in NodeType
            BY <3>1 DEF NodeType, Registered
        <3>. QED BY <3>2 DEF NodeType, Deleted
    <2>2. [api EXCEPT !.provider = TRUE] \in NodeType
        BY DEF TypeOK, NodeType
    <2>. QED BY <2>1, <2>2
<1>4. Real(n) /\ Fits(n)
    <2>1. CASE n = [api EXCEPT !.provider = TRUE]
        <3>1. n.enis = api.enis
            BY <2>1 DEF TypeOK, NodeType
        <3>. QED BY <3>1 DEF IInv, CopiesAreGood, Real, Fits, Recorded
    <2>2. CASE n \in {Deleted, Registered}
        <3>1. Len(n.enis) = 0
            BY <2>2 DEF Deleted, Registered
        <3>. QED BY <3>1 DEF Real, Fits, Recorded
    <2>. QED BY <2>1, <2>2
<1>5. (Real(n) /\ Fits(n))'
    BY <1>1, <1>3, <1>4, GoodStaysGood DEF Change, EC2Grows, ec2
<1>6. api' \in NodeType /\ (Real(api) /\ Fits(api))'
    BY <1>1, <1>3, <1>5 DEF Change, Real, Fits, Recorded
<1>7. CopiesStep
    BY <1>1, <1>3, <1>6, AppendVersions DEF Change, CopiesStep, TypeOK
<1>. QED BY <1>1, <1>2, <1>7, WatchKeeps DEF Change, TypeOK

--------------------------------------------------------------------------------
LEMMA HandleNodeKeeps ==
    ASSUME TypeOK, IInv, HandleNode
    PROVE  TypeOK' /\ IInv'
<1>1. /\ UNCHANGED <<instance, api, cache, watch, new, ec2, faults>>
      /\ seen' = cache /\ queued' = FALSE /\ pc' = Decision(cache)
      /\ failures' \in {0, failures}
    BY DEF HandleNode
<1>2. api' \in NodeType /\ (Real(api) /\ Fits(api))'
    BY <1>1, GoodStaysGood DEF TypeOK, IInv, CopiesAreGood, EC2Grows, ec2
<1>3. CopiesStep
    BY <1>1, <1>2 DEF CopiesStep, TypeOK
<1>4. CopiesAreGood' /\ seen' \in NodeType
    BY <1>1, <1>3, CopiesStayGood DEF IInv, EC2Grows, ec2
<1>5. /\ pc' \in {"idle", "error", "describe", "label", "attach", "create"}
      /\ pc' = "attach" => Unattached(cache) # {}
      /\ pc' = "create" => NeedsENI(cache)
    BY <1>1 DEF Decision
<1>6. DoneBeforeSaved'
    BY <1>1, <1>5 DEF DoneBeforeSaved, Unattached, NeedsENI
<1>7. failures' \in 0..MaxRequeues
    BY <1>1 DEF TypeOK, MaxRequeues
<1>. QED BY <1>1, <1>4, <1>5, <1>6, <1>7 DEF TypeOK, IInv, ec2

LEMMA FailKeeps ==
    ASSUME TypeOK, IInv, Fail \/ Restart, EC2Step,
           UNCHANGED <<instance, api, seen, new>>,
           faults' \in 0..MaxFaults
    PROVE  TypeOK' /\ IInv'
BY FinishKeeps DEF Fail

(* The info annotation and the label leave the interfaces alone. *)
LEMMA DescribeKeeps ==
    ASSUME TypeOK, IInv, Describe \/ Label
    PROVE  TypeOK' /\ IInv'
<1>1. PICK field \in {"info", "label"} :
          UpdateNode(field, TRUE, FALSE) /\ UNCHANGED <<instance, seen, new, ec2>>
    BY DEF Describe, Label
<1> DEFINE n == [api EXCEPT ![field] = TRUE]
<1>2. n \in NodeType /\ n.enis = api.enis
    BY DEF TypeOK, NodeType
<1>3. Real(n) /\ Fits(n)
    <2> HIDE DEF n
    <2>1. Real(api) /\ Fits(api)
        BY DEF IInv, CopiesAreGood
    <2>. QED BY <1>2, <2>1 DEF Real, Fits, Recorded
<1>. QED BY <1>1, <1>2, <1>3, UpdateNodeKeeps

--------------------------------------------------------------------------------
(* handleNode goes on after a call to EC2. *)
LEMMA GotoKeeps ==
    ASSUME TypeOK, IInv, EC2Step, NEW to \in {"modify", "saveAttached",
                                              "saveCreated"},
           Goto(to), UNCHANGED <<instance, api, seen, faults>>,
           new' \in ENI \union {NoENI}, DoneBeforeSaved'
    PROVE  TypeOK' /\ IInv'
<1>1. api' \in NodeType /\ (Real(api) /\ Fits(api))'
    BY GoodStaysGood DEF EC2Step, TypeOK, IInv, CopiesAreGood
<1>2. CopiesStep
    BY <1>1 DEF Goto, TypeOK, CopiesStep
<1>3. CopiesAreGood'
    BY <1>2, CopiesStayGood DEF EC2Step, IInv
<1>. QED BY <1>3 DEF Goto, TypeOK, IInv, EC2Step

LEMMA SeenIsUnchanged ==
    ASSUME seen' = seen
    PROVE  /\ Unattached(seen)' = Unattached(seen) /\ Target' = Target
           /\ NeedsENI(seen)' = NeedsENI(seen)
           /\ Recorded(seen)' = Recorded(seen)
BY DEF Unattached, Target, NeedsENI, Recorded

(* What a request does at EC2, whether its reply arrives or not. *)
LEMMA AttachmentStep ==
    ASSUME TypeOK, IInv, pc = "attach",
           AttachInterface(seen.enis[Target].id, Target)
    PROVE  EC2Step /\ device'[seen.enis[Target].id] = Target
<1> DEFINE id == seen.enis[Target].id
<1>1. /\ id \in ENI /\ Target \in 1..Len(seen.enis)
      /\ Len(seen.enis) \in Nat /\ Len(seen.enis) <= NumENIs
    BY TargetIsUnattached, InterfaceAt
    DEF TypeOK, IInv, CopiesAreGood, Fits, DoneBeforeSaved
<1>2. device[id] = 0 /\ device' = [device EXCEPT ![id] = Target]
    BY DEF AttachInterface, Attachable
<1>3. Target \in 0..NumENIs
    BY <1>1
<1>4. /\ device' \in [ENI -> 0..NumENIs] /\ device'[id] = Target
      /\ \A e \in ENI : e # id => device'[e] = device[e]
    BY <1>1, <1>2, <1>3 DEF TypeOK
<1>. QED BY <1>2, <1>4 DEF AttachInterface, EC2Step, EC2Grows, TypeOK

LEMMA PolicyStep ==
    ASSUME TypeOK, IInv, pc = "modify", SetPolicy(seen.enis[Target].id)
    PROVE  EC2Step
<1>1. seen.enis[Target].id \in ENI
    BY TargetIsUnattached DEF IInv, DoneBeforeSaved
<1>. QED BY <1>1 DEF SetPolicy, EC2Step, EC2Grows, TypeOK

LEMMA CreationStep ==
    ASSUME TypeOK, NEW e \in ENI, CreateInterface(e)
    PROVE  EC2Step
BY DEF CreateInterface, EC2Step, EC2Grows, TypeOK

LEMMA ErrorsKeep ==
    ASSUME TypeOK, IInv, ReturnError \/ Crash \/ EC2Fails
    PROVE  TypeOK' /\ IInv'
<1>1. CASE ReturnError
    BY <1>1, FailKeeps, EC2Stutters DEF ReturnError, TypeOK
<1>2. CASE Crash
    BY <1>2, FailKeeps, FaultCounts, EC2Stutters DEF Crash
<1>3. CASE EC2Fails
    <2>1. PICK kind : pc = kind /\ CallFails(kind)
        BY <1>3 DEF EC2Fails, CallFails, RequestFails
    <2>2. EC2Step
        BY <2>1, EC2Stutters, AttachmentStep, PolicyStep, CreationStep
        DEF CallFails, RequestFails, CarriedOut
    <2>. QED BY <2>1, <2>2, FailKeeps, FaultCounts DEF CallFails, RequestFails
<1>. QED BY <1>1, <1>2, <1>3

LEMMA AttachENIKeeps ==
    ASSUME TypeOK, IInv, AttachENI
    PROVE  TypeOK' /\ IInv'
<1> DEFINE id == seen.enis[Target].id
<1>1. /\ pc = "attach" /\ UNCHANGED <<instance, api, seen, new, faults>>
      /\ Unattached(seen) # {}
    BY DEF AttachENI, IInv, DoneBeforeSaved
<1>2. CASE AttachInterface(id, Target) /\ Goto("modify")
    <2>1. EC2Step /\ device'[id] = Target
        BY <1>1, <1>2, AttachmentStep
    <2>2. DoneBeforeSaved'
        BY <1>1, <1>2, <2>1, SeenIsUnchanged DEF DoneBeforeSaved, Goto
    <2>. QED BY <1>1, <1>2, <2>1, <2>2, GotoKeeps DEF TypeOK
<1>3. CASE Fail /\ UNCHANGED ec2
    BY <1>1, <1>3, FailKeeps, EC2Stutters DEF TypeOK
<1>. QED BY <1>2, <1>3 DEF AttachENI

LEMMA ModifyAttributeKeeps ==
    ASSUME TypeOK, IInv, ModifyAttribute
    PROVE  TypeOK' /\ IInv'
<1>1. /\ UNCHANGED <<instance, api, seen, new, faults>> /\ pc = "modify"
      /\ SetPolicy(seen.enis[Target].id) /\ Goto("saveAttached")
      /\ Unattached(seen) # {} /\ device[seen.enis[Target].id] = Target
    BY DEF ModifyAttribute, IInv, DoneBeforeSaved
<1>2. EC2Step
    BY <1>1, PolicyStep
<1>3. DoneBeforeSaved'
    BY <1>1, SeenIsUnchanged DEF DoneBeforeSaved, Goto, SetPolicy
<1>. QED BY <1>1, <1>2, <1>3, GotoKeeps DEF TypeOK

(* The annotation with a flag set. *)
LEMMA WithAttachedIs ==
    ASSUME NEW q \in ENIs, NEW t \in 1..Len(q)
    PROVE  /\ WithAttached(q, t) \in ENIs /\ Len(WithAttached(q, t)) = Len(q)
           /\ WithAttached(q, t)[t].id = q[t].id
           /\ WithAttached(q, t)[t].attached
           /\ \A i \in 1..Len(q) : i # t => WithAttached(q, t)[i] = q[i]
<1> DEFINE set == [q[t] EXCEPT !.attached = TRUE]
           enis == WithAttached(q, t)
<1>1. q[t] \in Interface
    BY ElementOfSeq DEF ENIs
<1>2. set \in Interface /\ set.id = q[t].id /\ set.attached
    BY <1>1 DEF Interface
<1>3. enis = [q EXCEPT ![t] = set]
    BY DEF WithAttached
<1> HIDE DEF enis, set
<1>4. enis \in Seq(Interface) /\ Len(enis) = Len(q)
    BY <1>2, <1>3 DEF ENIs
<1>5. enis[t] = set
    BY <1>3 DEF ENIs
<1>6. \A i \in 1..Len(q) : i # t => enis[i] = q[i]
    BY <1>3 DEF ENIs
<1>7. enis \in ENIs /\ Len(enis) = Len(q) /\ enis[t].id = q[t].id
      /\ enis[t].attached
    BY <1>2, <1>4, <1>5 DEF ENIs
<1>. QED BY <1>6, <1>7 DEF enis

(* The flag is set when EC2 has the attachment and its policy. *)
LEMMA SaveAttachedKeeps ==
    ASSUME TypeOK, IInv, SaveAttached
    PROVE  TypeOK' /\ IInv'
<1> DEFINE enis == WithAttached(seen.enis, Target)
           n == [api EXCEPT !["enis"] = enis]
<1>1. /\ UpdateNode("enis", enis, TRUE) /\ UNCHANGED <<instance, seen, new, ec2>>
      /\ pc = "saveAttached"
    BY DEF SaveAttached
<1>2. /\ Target \in 1..Len(seen.enis)
      /\ device[seen.enis[Target].id] = Target
      /\ seen.enis[Target].id \in policy
    BY <1>1, TargetIsUnattached DEF IInv, DoneBeforeSaved
<1>3. seen.enis \in ENIs /\ Real(seen) /\ Fits(seen)
    BY DEF TypeOK, NodeType, ENIs, Interface, IInv, CopiesAreGood
<1>4. /\ enis \in ENIs /\ Len(enis) = Len(seen.enis)
      /\ enis[Target].id = seen.enis[Target].id
      /\ \A i \in 1..Len(seen.enis) : i # Target => enis[i] = seen.enis[i]
    BY <1>2, <1>3, WithAttachedIs
<1>5. \A i \in 1..Len(seen.enis) : enis[i].id = seen.enis[i].id
    BY <1>4
<1>6. n \in NodeType /\ n.enis = enis
    BY <1>4 DEF TypeOK, NodeType, ENIs, Interface
<1>7. Real(n) /\ Fits(n)
    <2> HIDE DEF n, enis
    <2>1. Real(n)
        BY <1>2, <1>3, <1>4, <1>5, <1>6 DEF Real
    <2>2. Fits(n)
        BY <1>3, <1>4, <1>5, <1>6 DEF Fits, Recorded
    <2>. QED BY <2>1, <2>2
<1>. QED BY <1>1, <1>6, <1>7, UpdateNodeKeeps

LEMMA CreateENIKeeps ==
    ASSUME TypeOK, IInv, CreateENI
    PROVE  TypeOK' /\ IInv'
<1>1. /\ UNCHANGED <<instance, api, seen, faults>>
      /\ NeedsENI(seen) /\ Recorded(seen) \subseteq created
    BY DEF CreateENI, IInv, DoneBeforeSaved, CopiesAreGood, Fits
<1>2. ASSUME NEW e \in ENI, CreateInterface(e), new' = e, Goto("saveCreated")
      PROVE  TypeOK' /\ IInv'
    <2>1. EC2Step
        BY <1>2, CreationStep
    <2>2. DoneBeforeSaved'
        BY <1>1, <1>2, SeenIsUnchanged
        DEF DoneBeforeSaved, Goto, CreateInterface
    <2>. QED BY <1>1, <1>2, <2>1, <2>2, GotoKeeps DEF TypeOK
<1>3. CASE Fail /\ UNCHANGED <<new, ec2>>
    BY <1>1, <1>3, FailKeeps, EC2Stutters DEF TypeOK
<1>. QED BY <1>2, <1>3 DEF CreateENI

(* The new interface is in none of the copies the annotation is made of.     *)
LEMMA SaveCreatedKeeps ==
    ASSUME TypeOK, IInv, SaveCreated
    PROVE  TypeOK' /\ IInv'
<1> DEFINE eni == [id |-> new, attached |-> FALSE]
           enis == Append(seen.enis, eni)
           n == [api EXCEPT !["enis"] = enis]
<1>1. /\ UpdateNode("enis", enis, FALSE) /\ UNCHANGED <<instance, seen, new, ec2>>
      /\ NeedsENI(seen) /\ new \in created \ Recorded(seen) /\ new \in ENI
    BY DEF SaveCreated, IInv, DoneBeforeSaved, TypeOK
<1>2. seen.enis \in ENIs /\ Real(seen) /\ Fits(seen) /\ eni \in Interface
    BY <1>1 DEF TypeOK, NodeType, ENIs, Interface, IInv, CopiesAreGood
<1>3. /\ enis \in ENIs /\ Len(enis) = Len(seen.enis) + 1
      /\ Len(seen.enis) \in Nat /\ enis[Len(seen.enis) + 1] = eni
      /\ \A i \in 1..Len(seen.enis) : enis[i] = seen.enis[i]
    BY <1>2 DEF ENIs
<1>4. n \in NodeType /\ n.enis = enis
    BY <1>3 DEF TypeOK, NodeType, ENIs, Interface
<1>5. \A i \in 1..Len(enis) :
         \/ i \in 1..Len(seen.enis) /\ enis[i] = seen.enis[i]
         \/ i = Len(seen.enis) + 1 /\ enis[i].id = new /\ ~enis[i].attached
    BY <1>3
<1>6. \A i \in 1..Len(seen.enis) : seen.enis[i].id # new
    BY <1>1 DEF Recorded
<1>7. Real(n) /\ Fits(n)
    <2> HIDE DEF n, enis
    <2>1. Real(n)
        BY <1>2, <1>4, <1>5 DEF Real
    <2>2. Len(n.enis) <= NumENIs
        BY <1>1, <1>3, <1>4 DEF NeedsENI
    <2>3. \A i, j \in 1..Len(n.enis) : n.enis[i].id = n.enis[j].id => i = j
        BY <1>2, <1>4, <1>5, <1>6 DEF Fits
    <2>4. Recorded(n) \subseteq created
        BY <1>1, <1>2, <1>4, <1>5 DEF Fits, Recorded
    <2>. QED BY <2>1, <2>2, <2>3, <2>4 DEF Fits
<1>. QED BY <1>1, <1>4, <1>7, UpdateNodeKeeps

--------------------------------------------------------------------------------
(* The types of the state, and the inductive invariant: every copy of the    *)
(* node is good, and handleNode has done what it is about to record.         *)
THEOREM Inductive == Spec => [](TypeOK /\ IInv)
<1>1. TypeOK /\ IInv /\ Next => TypeOK' /\ IInv'
    BY SyncKeeps, ChangeKeeps, HandleNodeKeeps, ErrorsKeep, DescribeKeeps,
       AttachENIKeeps, ModifyAttributeKeeps, SaveAttachedKeeps, CreateENIKeeps,
       SaveCreatedKeeps DEF Next, Handler
<1>2. TypeOK /\ IInv /\ UNCHANGED vars => TypeOK' /\ IInv'
    <2> SUFFICES ASSUME TypeOK, IInv, UNCHANGED vars PROVE TypeOK' /\ IInv'
        OBVIOUS
    <2>1. CopiesStep
        <3>1. api' \in NodeType /\ (Real(api) /\ Fits(api))'
            BY GoodStaysGood DEF vars, TypeOK, IInv, CopiesAreGood, EC2Grows
        <3>. QED BY <3>1 DEF vars, TypeOK, CopiesStep
    <2>. QED BY <2>1, WatchKeeps DEF vars, ec2, TypeOK
<1>. QED BY <1>1, <1>2, InitInv, PTL DEF Spec

(* The node, its copies, the handler and EC2's interfaces. *)
THEOREM TypeCorrect == Spec => []TypeOK
BY Inductive, PTL

(* An interface flagged as attached is attached at its index, with its       *)
(* deletion policy set.                                                      *)
THEOREM AttachedAreReal == Spec => []AttachedIsReal
<1>1. IInv => AttachedIsReal
    BY DEF IInv, CopiesAreGood, AttachedIsReal
<1>. QED BY <1>1, Inductive, PTL

(* The annotation lists at most the interfaces the instance takes, each      *)
(* once and each created.                                                    *)
THEOREM AnnotationsFit == Spec => []AnnotationFits
<1>1. IInv => AnnotationFits
    BY DEF IInv, CopiesAreGood, AnnotationFits
<1>. QED BY <1>1, Inductive, PTL
================================================================================
