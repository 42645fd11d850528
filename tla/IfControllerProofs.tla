--------------------------- MODULE IfControllerProofs --------------------------
(***************************************************************************)
(* Proofs about IfController.tla, for every number of interfaces, every    *)
(* set of steps that can fail and any number of failures: type             *)
(* correctness, the inductive invariant IInv and what it gives.  The types *)
(* rest on the order of the steps and the order on the types, so both are  *)
(* carried through the same steps.                                         *)
(***************************************************************************)
EXTENDS IfController, TLAPS

USE NumAssumption, FaultAssumption

--------------------------------------------------------------------------------
(* The steps of an interface. *)

LEMMA StepsLength == Len(Steps) = 6
BY DEF Steps

(* The last step completes them, and any other leaves another set of them.   *)
LEMMA NextStep ==
    ASSUME NEW k \in 1..Len(Steps)
    PROVE  /\ FirstSteps(k - 1) \union {Steps[k]} = FirstSteps(k)
           /\ FirstSteps(k) \in {FirstSteps(n) : n \in 0..Len(Steps)}
           /\ Steps[k] \in StepNames
           /\ FirstSteps(k) # {}
<1>1. k \in 1..6 /\ k - 1 \in 0..5
    BY StepsLength
<1>. QED BY <1>1, StepsLength DEF FirstSteps, StepNames

LEMMA NoSteps ==
    /\ FirstSteps(0) = {}
    /\ {} \in {FirstSteps(n) : n \in 0..Len(Steps)}
<1>1. FirstSteps(0) = {}
    BY DEF FirstSteps
<1>. QED BY <1>1, StepsLength

(* An interface has its name if it has any step behind it.                   *)
LEMMA RenameIsFirst ==
    ASSUME NEW k \in 0..Len(Steps)
    PROVE  "rename" \in FirstSteps(k) <=> FirstSteps(k) # {}
<1>1. Steps[1] = "rename"
    BY DEF Steps
<1>. QED BY <1>1, StepsLength DEF FirstSteps

LEMMA NamedIsStarted ==
    ASSUME TypeOK, NEW i \in Index
    PROVE  InterfaceExists(i) <=> host[i] # {}
<1>1. PICK k \in 0..Len(Steps) : host[i] = FirstSteps(k)
    BY DEF TypeOK
<1>. QED BY <1>1, RenameIsFirst DEF InterfaceExists

--------------------------------------------------------------------------------
LEMMA InitInv == Init => TypeOK /\ IInv
<1> SUFFICES ASSUME Init PROVE TypeOK /\ IInv
    OBVIOUS
<1>1. TypeOK
    <2>1. node \in Node!NodeType /\ cache \in Node!NodeType
        BY DEF Init, Node!Init, Node!Blank, Node!NodeType
    <2>2. host \in [Index -> {FirstSteps(k) : k \in 0..Len(Steps)}]
        BY NoSteps DEF Init, NotConfigured
    <2>3. at \in 1..(NumENIs + 1) /\ step \in 1..Len(Steps)
          /\ failures \in 0..MaxRequeues /\ faults \in 0..MaxFaults
        BY StepsLength DEF Init, MaxRequeues
    <2>. QED BY <2>1, <2>2, <2>3 DEF Init, TypeOK
<1>2. IInv
    BY DEF Init, IInv, StepsInOrder, PartialIsCut, CollectedIsConfigured,
       CopiesLag, FilesInOrder, WritesInOrder, OfferedIsConfigured,
       PluginsBeforeConfig, NotConfigured, Node!Init, Node!Blank, InLoop,
       Offered
<1>. QED BY <1>1, <1>2

(* Where a handler that fails or ends goes on, and a new process if it can.  *)
LEMMA Outcomes ==
    ASSUME TypeOK, Succeed \/ Fail \/ Restart
    PROVE  /\ \/ pc' = "idle" /\ pool' = pool /\ writing' = writing
              \/ pc' = "idle" /\ pool' = saved /\ ~writing' /\ ~torn
              \/ pc' = "down" /\ pool' = {} /\ ~writing' /\ torn
           /\ queued' \in BOOLEAN /\ failures' \in 0..MaxRequeues
           /\ cache' \in {cache, node} /\ writing' \in BOOLEAN
           /\ pool' \subseteq Index
<1>1. CASE Succeed
    BY <1>1 DEF TypeOK, Succeed, MaxRequeues
<1>2. CASE Retry /\ UNCHANGED pool
    BY <1>2 DEF TypeOK, Retry, Enqueue, MaxRequeues
<1>3. CASE Restart
    <2>1. queued' \in BOOLEAN
        BY <1>3, Zenon DEF Restart
    <2>2. failures' \in 0..MaxRequeues
        BY <1>3 DEF Restart, MaxRequeues
    <2>3. writing' = FALSE /\ cache' = node
        BY <1>3 DEF Restart
    <2>4. \/ pc' = "idle" /\ pool' = saved /\ ~torn
          \/ pc' = "down" /\ pool' = {} /\ torn
        BY <1>3 DEF Restart
    <2>. QED BY <2>1, <2>2, <2>3, <2>4 DEF TypeOK
<1>. QED BY <1>1, <1>2, <1>3 DEF Fail

LEMMA EnqueueTypes ==
    ASSUME TypeOK, Enqueue
    PROVE  queued' \in BOOLEAN /\ failures' \in 0..MaxRequeues
BY DEF TypeOK, Enqueue, MaxRequeues

LEMMA FaultCounts ==
    ASSUME TypeOK, NEW kind, Fault(kind)
    PROVE  faults' \in 0..MaxFaults
BY DEF TypeOK, Fault

(* The annotation grows, unless the Node object is a new one.                *)
LEMMA NodeGrows ==
    ASSUME TypeOK, CopiesLag, ENIController
    PROVE  /\ node' \in Node!NodeType
           /\ node'.annotated /\ node.attached \subseteq node'.attached
<1>1. ASSUME Node!Annotate
      PROVE  /\ node' \in Node!NodeType
             /\ node'.annotated /\ node.attached = {}
    <2>1. PICK k \in 0..NumENIs :
              node' = [annotated |-> TRUE, attached |-> 1..k]
        BY <1>1 DEF Node!Annotate
    <2>2. 1..k \in SUBSET Node!Index
        BY DEF Node!Index
    <2>3. node.attached = {}
        BY <1>1 DEF Node!Annotate, CopiesLag
    <2>. QED BY <2>1, <2>2, <2>3 DEF Node!NodeType
<1>2. ASSUME Node!Attach
      PROVE  /\ node' \in Node!NodeType
             /\ node'.annotated /\ node.attached \subseteq node'.attached
    <2>1. PICK i \in Node!Index :
              node' = [node EXCEPT !.attached = @ \union {i}]
        BY <1>2 DEF Node!Attach
    <2>2. node.annotated
        BY <1>2 DEF Node!Attach
    <2>3. node \in [annotated : BOOLEAN, attached : SUBSET Node!Index]
        BY DEF TypeOK, Node!NodeType
    <2>. QED BY <2>1, <2>2, <2>3 DEF Node!NodeType
<1>. QED BY <1>1, <1>2 DEF ENIController

LEMMA ConfigureTypeOK ==
    ASSUME TypeOK, StepsInOrder, Configure
    PROVE  TypeOK'
<1>1. at \in Index /\ at \in 1..NumENIs /\ host[at] = FirstSteps(step - 1)
    BY DEF Configure, StepsInOrder, TypeOK, Index
<1>2. host' \in [Index -> {FirstSteps(k) : k \in 0..Len(Steps)}]
    BY <1>1, NextStep DEF Configure, TypeOK
<1>3. at' \in 1..(NumENIs + 1) /\ step' \in 1..Len(Steps)
    BY <1>1, StepsLength DEF Configure, TypeOK
<1>4. pc' \in {"configure", "scan"}
      /\ UNCHANGED <<queued, failures, cache, pool, writing>>
    BY DEF Configure, Goto
<1>5. configedENIs' \subseteq Index
    BY <1>1 DEF Configure, TypeOK
<1>. QED BY <1>2, <1>3, <1>4, <1>5 DEF Configure, TypeOK, cniFiles

LEMMA TypeOKStep ==
    ASSUME TypeOK, StepsInOrder, CopiesLag, Next
    PROVE  TypeOK'
<1>1. CASE ENIController
    BY <1>1, NodeGrows
    DEF ENIController, TypeOK, loop, kernel, allocator, stateFile, cniFiles
<1>2. CASE RecreateNode
    BY <1>2, FaultCounts
    DEF RecreateNode, Node!Recreate, Node!Blank, Node!NodeType, TypeOK, loop,
        kernel, allocator, stateFile, cniFiles
<1>3. CASE Sync
    <2>1. Enqueue \/ UNCHANGED <<queued, failures>>
        BY <1>3 DEF Sync
    <2>2. queued' \in BOOLEAN /\ failures' \in 0..MaxRequeues
        BY <2>1, EnqueueTypes DEF TypeOK
    <2>. QED BY <1>3, <2>2
             DEF Sync, TypeOK, loop, kernel, allocator, stateFile, cniFiles
<1>4. CASE PersistBegin \/ PersistEnd
    <2>1. faults' \in 0..MaxFaults
        BY <1>4, FaultCounts DEF PersistBegin, PersistEnd, TypeOK
    <2>. QED BY <1>4, <2>1
             DEF PersistBegin, PersistEnd, TypeOK, watched, loop, kernel,
                 cniFiles
<1>5. CASE Crash
    <2>1. cut' \subseteq Index
        BY <1>5 DEF Crash, CutShort, TypeOK
    <2>. QED BY <1>5, <2>1, FaultCounts, Outcomes
             DEF Crash, TypeOK, loop, cniFiles
<1>6. CASE Reboot
    <2>1. host' \in [Index -> {FirstSteps(k) : k \in 0..Len(Steps)}]
        BY <1>6, NoSteps DEF Reboot, NotConfigured
    <2>. QED BY <1>6, <2>1, FaultCounts, Outcomes
             DEF Reboot, TypeOK, loop, cniFiles
<1>7. CASE HandleNode
    <2>1. seen' \subseteq Index
        BY <1>7 DEF HandleNode, TypeOK, Node!NodeType, Node!Index, Index
    <2>2. at' \in 1..(NumENIs + 1) /\ step' \in 1..Len(Steps)
        BY <1>7, StepsLength DEF HandleNode
    <2>3. failures' \in 0..MaxRequeues
        BY <1>7 DEF HandleNode, TypeOK, MaxRequeues
    <2>. QED BY <1>7, <2>1, <2>2, <2>3
             DEF HandleNode, TypeOK, watched, kernel, allocator, stateFile,
                 cniFiles
<1>8. CASE Scan
    <2>1. configedENIs' \subseteq Index
        BY <1>8 DEF Scan, Kept, TypeOK
    <2>2. pc' \in {"scan", "configure", "setENIs"}
          /\ UNCHANGED <<queued, failures, cache, pool, writing>>
        BY <1>8 DEF Scan, Goto
    <2>3. ASSUME at' = at + 1, at \in Index PROVE at' \in 1..(NumENIs + 1)
        BY <2>3 DEF Index
    <2>4. at' \in 1..(NumENIs + 1)
        BY <1>8, <2>3 DEF Scan, TypeOK
    <2>. QED BY <1>8, <2>1, <2>2, <2>4 DEF Scan, TypeOK, kernel, cniFiles
<1>9. CASE Configure
    BY <1>9, ConfigureTypeOK
<1>10. CASE SetENIs
    <2>1. queued' \in BOOLEAN /\ failures' \in 0..MaxRequeues
          /\ faults' \in 0..MaxFaults
        <3>1. CASE Enqueue /\ Fault("setENIs")
            BY <3>1, EnqueueTypes, FaultCounts
        <3>2. CASE UNCHANGED <<queued, failures, faults>>
            BY <3>2 DEF TypeOK
        <3>. QED BY <1>10, <3>1, <3>2 DEF SetENIs, Retry
    <2>. QED BY <1>10, <2>1
             DEF SetENIs, TypeOK, Retry, loop, kernel, cniFiles
<1>16. CASE SetENIsFails
    BY <1>16, Outcomes, FaultCounts
    DEF SetENIsFails, TypeOK, loop, kernel, cniFiles
<1>17. CASE SaveENIs
    BY <1>17, Outcomes, FaultCounts
    DEF SaveENIs, Goto, TypeOK, loop, kernel, cniFiles
<1>11. CASE CheckConfigured
    BY <1>11, Outcomes
    DEF CheckConfigured, Goto, TypeOK, loop, kernel, cniFiles
<1>12. CASE CopyBinaries
    BY <1>12, Outcomes, FaultCounts
    DEF CopyBinaries, Goto, TypeOK, loop, kernel, cniFiles
<1>13. CASE CreateConfig
    BY <1>13, Outcomes, FaultCounts
    DEF CreateConfig, Goto, TypeOK, loop, kernel
<1>14. CASE WriteConfig
    BY <1>14, Outcomes, FaultCounts DEF WriteConfig, TypeOK, loop, kernel
<1>15. CASE ConfigureFails
    <2>1. cut' \subseteq Index
        BY <1>15 DEF ConfigureFails, CutShort, TypeOK
    <2>. QED BY <1>15, <2>1, Outcomes, FaultCounts
             DEF ConfigureFails, TypeOK, loop, cniFiles
<1>. QED
    BY <1>1, <1>2, <1>3, <1>4, <1>5, <1>6, <1>7, <1>8, <1>9, <1>10, <1>11,
       <1>12, <1>13, <1>14, <1>15, <1>16, <1>17 DEF Next, Handler

--------------------------------------------------------------------------------
(* The Node object and its copy change, the handler's state does not.        *)
LEMMA WatchKeepsIInv ==
    ASSUME TypeOK, IInv, ENIController \/ RecreateNode \/ Sync
    PROVE  IInv'
<1>1. UNCHANGED <<pc, loop, kernel, allocator, cniFiles>>
    BY DEF ENIController, RecreateNode, Sync
<1>2. StepsInOrder' /\ PartialIsCut' /\ CollectedIsConfigured'
      /\ FilesInOrder' /\ WritesInOrder' /\ OfferedIsConfigured'
    BY <1>1
    DEF IInv, WritesInOrder, loop, kernel, allocator, stateFile, cniFiles,
        StepsInOrder, PartialIsCut, CollectedIsConfigured, FilesInOrder,
        InLoop, FullyConfigured, OfferedIsConfigured, Offered
<1>3. CopiesLag' /\ PluginsBeforeConfig'
    <2>1. CASE ENIController
        BY <1>1, <2>1, NodeGrows
        DEF IInv, ENIController, CopiesLag, PluginsBeforeConfig, InLoop, loop,
            allocator, stateFile, cniFiles
    <2>2. CASE RecreateNode
        BY <1>1, <2>2
        DEF IInv, RecreateNode, Node!Recreate, Node!Blank, CopiesLag,
            PluginsBeforeConfig, cniFiles
    <2>3. CASE Sync
        BY <1>1, <2>3
        DEF IInv, Sync, CopiesLag, PluginsBeforeConfig, InLoop, loop,
            allocator, stateFile, cniFiles
    <2>. QED BY <2>1, <2>2, <2>3
<1>. QED BY <1>2, <1>3 DEF IInv

LEMMA PersistKeepsIInv ==
    ASSUME TypeOK, IInv, PersistBegin \/ PersistEnd
    PROVE  IInv'
<1>1. /\ UNCHANGED <<watched, pc, loop, kernel, pool, restored, cniFiles>>
      /\ saved' \in {saved, pool}
    BY DEF PersistBegin, PersistEnd
<1>2. StepsInOrder' /\ PartialIsCut' /\ CollectedIsConfigured'
      /\ CopiesLag' /\ FilesInOrder' /\ OfferedIsConfigured'
      /\ PluginsBeforeConfig'
    BY <1>1 DEF IInv, watched, loop, kernel, cniFiles, StepsInOrder,
       PartialIsCut, CollectedIsConfigured, CopiesLag, FilesInOrder, InLoop,
       FullyConfigured, OfferedIsConfigured, Offered, PluginsBeforeConfig
<1>3. WritesInOrder'
    BY DEF PersistBegin, PersistEnd, IInv, WritesInOrder, loop
<1>. QED BY <1>2, <1>3 DEF IInv

(* A handler that ends or fails, or a new process: what of the pool the new  *)
(* process has, the allocator had before.                                    *)
LEMMA EndKeepsIInv ==
    ASSUME TypeOK, IInv, Succeed \/ Fail \/ Restart,
           UNCHANGED <<node, recreated, host, saved, torn, restored>>,
           cut' = cut \/ CutShort,
           pc = "configure" => CutShort,
           pc # "down",
           PluginsBeforeConfig'
    PROVE  IInv'
<1>1. /\ \/ pc' = "idle" /\ pool' \in {pool, saved}
         \/ pc' = "down" /\ pool' = {} /\ ~writing' /\ torn'
      /\ writing' => writing
      /\ cache' \in {cache, node}
    BY Outcomes
<1>2. StepsInOrder' /\ CollectedIsConfigured' /\ FilesInOrder'
      /\ WritesInOrder'
    BY <1>1 DEF StepsInOrder, CollectedIsConfigured, FilesInOrder, InLoop,
       IInv, WritesInOrder
<1>3. PartialIsCut'
    BY DEF IInv, PartialIsCut, CutShort
<1>4. CopiesLag'
    BY <1>1 DEF IInv, CopiesLag, InLoop
<1>5. OfferedIsConfigured'
    BY <1>1 DEF IInv, OfferedIsConfigured, Offered, FullyConfigured, CutShort
<1>. QED BY <1>2, <1>3, <1>4, <1>5 DEF IInv

LEMMA RebootKeepsIInv ==
    ASSUME TypeOK, IInv, Reboot
    PROVE  IInv'
<1>1. /\ \/ pc' = "idle" /\ pool' = saved /\ ~torn
         \/ pc' = "down" /\ pool' = {} /\ torn
      /\ cache' = node /\ ~writing'
    BY DEF Reboot, Restart
<1>2. StepsInOrder' /\ CollectedIsConfigured' /\ FilesInOrder'
      /\ WritesInOrder'
    BY <1>1 DEF Reboot, StepsInOrder, CollectedIsConfigured, FilesInOrder,
       InLoop, WritesInOrder
<1>3. PartialIsCut'
    BY DEF Reboot, NotConfigured, PartialIsCut
<1>4. CopiesLag' /\ PluginsBeforeConfig'
    BY <1>1 DEF IInv, Reboot, CopiesLag, InLoop, PluginsBeforeConfig, cniFiles,
       WritesInOrder
<1>5. OfferedIsConfigured'
    BY <1>1 DEF Reboot, OfferedIsConfigured, Offered
<1>. QED BY <1>2, <1>3, <1>4, <1>5 DEF IInv

--------------------------------------------------------------------------------
(* A step of the handler away from the state file. *)
LEMMA OtherStepsKeepWrites ==
    ASSUME IInv, UNCHANGED <<torn, writing>>, pc \notin {"saveENIs", "down"},
           pc' \notin {"saveENIs", "down"}
    PROVE  WritesInOrder'
BY DEF IInv, WritesInOrder

(* The attached interfaces the loop has passed when it goes on to the next.  *)
LEMMA PassedGrows ==
    ASSUME TypeOK, at \in Index
    PROVE  {i \in seen : i < at + 1} =
             {i \in seen : i < at} \union (seen \intersect {at})
<1>1. \A i \in seen : i < at + 1 <=> i < at \/ i = at
    <2>1. at \in Nat /\ \A i \in seen : i \in Nat
        BY DEF TypeOK, Index
    <2>. QED BY <2>1
<1>. QED BY <1>1

(* The loop starts with nothing collected, whatever node it has read.        *)
LEMMA HandleNodeKeepsIInv ==
    ASSUME TypeOK, IInv, HandleNode
    PROVE  IInv'
<1>1. UNCHANGED <<node, cache, recreated, host, cut, pool, saved, torn,
                  writing, restored, cni, binaries>>
    BY DEF HandleNode, watched, kernel, allocator, stateFile, cniFiles
<1>2. /\ pc = "idle"
      /\ seen' = cache.attached /\ at' = 1 /\ step' = 1 /\ configedENIs' = {}
      /\ \/ pc' = "idle"
         \/ pc' = "scan" /\ cache.annotated
    BY DEF HandleNode
<1>3. StepsInOrder' /\ CollectedIsConfigured' /\ FilesInOrder'
    BY <1>2 DEF StepsInOrder, CollectedIsConfigured, FilesInOrder
<1>4. PartialIsCut'
    BY <1>1 DEF IInv, HandleNode, PartialIsCut
<1>5. OfferedIsConfigured' /\ PluginsBeforeConfig'
    BY <1>1 DEF IInv, OfferedIsConfigured, Offered, FullyConfigured,
       PluginsBeforeConfig
<1>6. WritesInOrder'
    BY <1>1, <1>2, OtherStepsKeepWrites
<1>7. CopiesLag'
    <2>1. {i \in cache.attached : i < 1} = {}
        BY DEF TypeOK, Node!NodeType, Node!Index
    <2>. QED BY <1>1, <1>2, <2>1 DEF IInv, CopiesLag
<1>. QED BY <1>3, <1>4, <1>5, <1>6, <1>7 DEF IInv

(* An interface with a name is taken up: it has all its steps behind it, or  *)
(* they were cut short.                                                      *)
LEMMA ScanKeepsIInv ==
    ASSUME TypeOK, IInv, Scan
    PROVE  IInv'
<1>1. pc = "scan" /\ step' = 1
      /\ UNCHANGED <<node, cache, recreated, seen, host, cut, pool, saved,
                     torn, writing, restored, cni, binaries>>
      /\ pc' \in {"scan", "configure", "setENIs"}
    BY DEF Scan, Goto, kernel, cniFiles, IInv, StepsInOrder
<1>2. PartialIsCut' /\ OfferedIsConfigured' /\ PluginsBeforeConfig'
      /\ WritesInOrder'
    BY <1>1, OtherStepsKeepWrites
    DEF IInv, PartialIsCut, OfferedIsConfigured, Offered, FullyConfigured,
        PluginsBeforeConfig
<1>3. CASE /\ at \in Index /\ at \in seen /\ InterfaceExists(at)
           /\ configedENIs' = Kept(at) /\ at' = at + 1 /\ pc' = "scan"
    <2>1. at \in FullyConfigured \/ at \in cut
        BY <1>1, <1>3, NamedIsStarted DEF IInv, PartialIsCut, FullyConfigured
    <2>2. CollectedIsConfigured'
        BY <1>1, <1>3, <2>1
        DEF IInv, CollectedIsConfigured, Kept, FullyConfigured, InLoop
    <2>3. {i \in seen : i < at + 1} = {i \in seen : i < at} \union {at}
        BY <1>3, PassedGrows
    <2>4. CopiesLag'
        BY <1>1, <1>3, <2>3 DEF IInv, CopiesLag, Kept, InLoop
    <2>. QED BY <1>1, <1>2, <1>3, <2>2, <2>4
             DEF IInv, StepsInOrder, FilesInOrder
<1>4. CASE /\ at \in Index /\ at \in seen /\ ~InterfaceExists(at)
           /\ UNCHANGED <<configedENIs, at>> /\ pc' = "configure"
    <2>1. host[at] = FirstSteps(0)
        BY <1>4, NamedIsStarted, NoSteps
    <2>2. StepsInOrder'
        BY <1>1, <1>4, <2>1 DEF StepsInOrder
    <2>3. CollectedIsConfigured' /\ CopiesLag' /\ FilesInOrder'
        BY <1>1, <1>4
        DEF IInv, CollectedIsConfigured, CopiesLag, FilesInOrder, InLoop,
            FullyConfigured
    <2>. QED BY <1>2, <2>2, <2>3 DEF IInv
<1>5. CASE /\ at \in Index /\ at \notin seen
           /\ at' = at + 1 /\ UNCHANGED configedENIs /\ pc' = "scan"
    <2>1. {i \in seen : i < at + 1} = {i \in seen : i < at}
        BY <1>5, PassedGrows
    <2>2. CopiesLag'
        BY <1>1, <1>5, <2>1 DEF IInv, CopiesLag, InLoop
    <2>. QED BY <1>1, <1>2, <1>5, <2>2
             DEF IInv, StepsInOrder, CollectedIsConfigured, FilesInOrder,
                 InLoop, FullyConfigured
<1>6. CASE at \notin Index /\ UNCHANGED <<configedENIs, at>> /\ pc' = "setENIs"
    BY <1>1, <1>2, <1>6
    DEF IInv, StepsInOrder, CollectedIsConfigured, CopiesLag, FilesInOrder,
        InLoop, FullyConfigured
<1>. QED BY <1>3, <1>4, <1>5, <1>6 DEF Scan, Goto

(* The last step makes the interface a configured one.                       *)
LEMMA ConfigureKeepsIInv ==
    ASSUME TypeOK, IInv, Configure
    PROVE  IInv'
<1>1. /\ pc = "configure" /\ at \in seen /\ at \in Index
      /\ UNCHANGED <<node, cache, recreated, seen, cut, pool, saved, torn,
                     writing, restored, cni, binaries>>
      /\ pc' \in {"scan", "configure"}
    BY DEF Configure, Goto, cniFiles, IInv, StepsInOrder, TypeOK
<1>2. /\ host'[at] = FirstSteps(step)
      /\ \A i \in Index \ {at} : host'[i] = host[i]
    BY <1>1, NextStep DEF Configure, IInv, StepsInOrder, TypeOK
<1>3. FullyConfigured \subseteq FullyConfigured'
    BY <1>1, NextStep
    DEF Configure, IInv, StepsInOrder, TypeOK, FullyConfigured
<1>4. OfferedIsConfigured' /\ PluginsBeforeConfig' /\ WritesInOrder'
    BY <1>1, <1>3, OtherStepsKeepWrites
    DEF IInv, OfferedIsConfigured, Offered, PluginsBeforeConfig
<1>5. CASE /\ step < Len(Steps) /\ step' = step + 1 /\ pc' = "configure"
           /\ UNCHANGED <<at, configedENIs>>
    <2>1. StepsInOrder'
        BY <1>1, <1>2, <1>5 DEF StepsInOrder, TypeOK
    <2>2. PartialIsCut' /\ CollectedIsConfigured'
        BY <1>1, <1>2, <1>3, <1>5
        DEF IInv, PartialIsCut, CollectedIsConfigured, InLoop
    <2>3. CopiesLag' /\ FilesInOrder'
        BY <1>1, <1>5 DEF IInv, CopiesLag, FilesInOrder, InLoop
    <2>. QED BY <1>4, <2>1, <2>2, <2>3 DEF IInv
<1>6. CASE /\ step = Len(Steps) /\ step' = 1 /\ at' = at + 1 /\ pc' = "scan"
           /\ configedENIs' = configedENIs \union {at}
    <2>1. host'[at] = StepNames
        BY <1>2, <1>6 DEF StepNames
    <2>2. PartialIsCut' /\ CollectedIsConfigured'
        BY <1>1, <1>2, <1>3, <1>6, <2>1
        DEF IInv, PartialIsCut, CollectedIsConfigured, InLoop, FullyConfigured
    <2>3. {i \in seen : i < at + 1} = {i \in seen : i < at} \union {at}
        BY <1>1, PassedGrows
    <2>4. CopiesLag'
        BY <1>1, <1>6, <2>3 DEF IInv, CopiesLag, InLoop
    <2>. QED BY <1>4, <1>6, <2>2, <2>4 DEF IInv, StepsInOrder, FilesInOrder
<1>. QED BY <1>5, <1>6 DEF Configure, Goto

--------------------------------------------------------------------------------
(* What the loop has collected is what it has seen, and no less than what    *)
(* the allocator had.                                                        *)
LEMMA CollectedIsSeen ==
    ASSUME TypeOK, IInv, pc = "setENIs", ~recreated
    PROVE  /\ configedENIs = seen
           /\ pool \subseteq configedENIs /\ saved \subseteq configedENIs
<1>1. \A i \in seen : i < at
    <2>1. at = NumENIs + 1 /\ seen \subseteq 1..NumENIs
        BY DEF TypeOK, IInv, CopiesLag, InLoop, Index
    <2>. QED BY <2>1
<1>2. /\ configedENIs = {i \in seen : i < at}
      /\ pool \subseteq seen /\ saved \subseteq pool
    BY DEF IInv, CopiesLag, InLoop
<1>. QED BY <1>1, <1>2

LEMMA SetENIsKeepsIInv ==
    ASSUME TypeOK, IInv, SetENIs
    PROVE  IInv'
<1>1. /\ pc = "setENIs" /\ ~writing /\ ~writing' /\ pool' = configedENIs
      /\ UNCHANGED <<node, cache, recreated, seen, at, step, configedENIs,
                     host, cut, saved, restored, cni, binaries>>
      /\ (pc' = "saveENIs" /\ torn') \/ pc' = "idle"
    BY DEF SetENIs, Retry, loop, kernel, cniFiles
<1>2. /\ PartialIsCut' /\ PluginsBeforeConfig' /\ CollectedIsConfigured'
      /\ configedENIs \ cut \subseteq FullyConfigured
      /\ FullyConfigured' = FullyConfigured
    BY <1>1 DEF IInv, PartialIsCut, PluginsBeforeConfig, FullyConfigured,
       CollectedIsConfigured, InLoop
<1>3. OfferedIsConfigured'
    BY <1>1, <1>2 DEF IInv, OfferedIsConfigured, Offered
<1>4. CopiesLag'
    BY <1>1, CollectedIsSeen DEF IInv, CopiesLag, InLoop
<1>5. StepsInOrder' /\ FilesInOrder' /\ WritesInOrder'
    BY <1>1 DEF StepsInOrder, FilesInOrder, WritesInOrder
<1>. QED BY <1>2, <1>3, <1>4, <1>5 DEF IInv

LEMMA SetENIsFailsKeepsIInv ==
    ASSUME TypeOK, IInv, SetENIsFails
    PROVE  IInv'
<1>1. PluginsBeforeConfig'
    BY DEF SetENIsFails, IInv, PluginsBeforeConfig, cniFiles
<1>. QED BY <1>1, EndKeepsIInv DEF SetENIsFails, kernel

(* What fills the file are the interfaces the loop has collected.            *)
LEMMA SaveENIsKeepsIInv ==
    ASSUME TypeOK, IInv, SaveENIs
    PROVE  IInv'
<1>1. /\ pc = "saveENIs" /\ pool = configedENIs /\ ~writing
      /\ UNCHANGED <<node, recreated, seen, at, step, configedENIs, host, cut,
                     cni, binaries>>
    BY DEF SaveENIs, loop, kernel, cniFiles, IInv, WritesInOrder
<1>2. /\ PartialIsCut' /\ PluginsBeforeConfig'
      /\ pool \ cut \subseteq FullyConfigured
      /\ FullyConfigured' = FullyConfigured
    BY <1>1 DEF IInv, PartialIsCut, PluginsBeforeConfig, FullyConfigured,
       CollectedIsConfigured, InLoop
<1>3. CASE /\ saved' = pool /\ ~torn' /\ restored' = {}
           /\ pc' = "configured" /\ UNCHANGED <<cache, pool, writing>>
    <2>1. OfferedIsConfigured'
        BY <1>1, <1>2, <1>3 DEF OfferedIsConfigured, Offered
    <2>2. CopiesLag'
        BY <1>1, <1>3 DEF IInv, CopiesLag, InLoop
    <2>. QED BY <1>1, <1>2, <1>3, <2>1, <2>2
             DEF IInv, StepsInOrder, CollectedIsConfigured, FilesInOrder,
                 WritesInOrder, InLoop
<1>4. CASE Fail /\ UNCHANGED <<saved, torn, restored>>
    BY <1>1, <1>2, <1>4, EndKeepsIInv
<1>. QED BY <1>3, <1>4 DEF SaveENIs, Goto

(* The installation of the CNI plugins and their configuration. *)
LEMMA InstallKeepsIInv ==
    ASSUME TypeOK, IInv,
           CheckConfigured \/ CopyBinaries \/ CreateConfig \/ WriteConfig
    PROVE  IInv'
<1>1. /\ UNCHANGED <<node, recreated, seen, at, step, configedENIs, host, cut,
                     saved, torn, restored>>
      /\ pc \notin {"configure", "idle", "saveENIs", "down"}
    BY DEF CheckConfigured, CopyBinaries, CreateConfig, WriteConfig, loop,
       kernel
<1>2. PluginsBeforeConfig'
    BY <1>1
    DEF CheckConfigured, CopyBinaries, CreateConfig, WriteConfig, IInv,
        CopiesLag, FilesInOrder, PluginsBeforeConfig, cniFiles
<1>3. CASE Succeed \/ Fail
    BY <1>1, <1>2, <1>3, EndKeepsIInv
<1>4. ASSUME NEW to \in {"binaries", "config", "write"}, Goto(to),
             to = "binaries" \/ binaries'
      PROVE  IInv'
    <2>1. pc' = to /\ UNCHANGED <<cache, pool, writing>>
        BY <1>4 DEF Goto
    <2>2. StepsInOrder' /\ PartialIsCut' /\ CollectedIsConfigured'
          /\ FilesInOrder' /\ OfferedIsConfigured'
        BY <1>1, <1>4, <2>1
        DEF IInv, StepsInOrder, PartialIsCut, CollectedIsConfigured,
            FilesInOrder, InLoop, OfferedIsConfigured, Offered,
            FullyConfigured
    <2>3. CopiesLag' /\ WritesInOrder'
        BY <1>1, <1>4, <2>1, OtherStepsKeepWrites DEF IInv, CopiesLag, InLoop
    <2>. QED BY <1>2, <2>2, <2>3 DEF IInv
<1>5. \/ Succeed \/ Fail
      \/ \E to \in {"binaries", "config", "write"} :
            Goto(to) /\ (to = "binaries" \/ binaries')
    BY DEF CheckConfigured, CopyBinaries, CreateConfig, WriteConfig, IInv,
       FilesInOrder
<1>. QED BY <1>3, <1>4, <1>5

LEMMA NextKeepsIInv ==
    ASSUME TypeOK, IInv, Next
    PROVE  IInv'
<1>1. CASE Crash
    <2>1. PluginsBeforeConfig'
        BY <1>1 DEF Crash, IInv, PluginsBeforeConfig, cniFiles
    <2>. QED BY <1>1, <2>1, EndKeepsIInv DEF Crash
<1>2. CASE ConfigureFails
    <2>1. PluginsBeforeConfig'
        BY <1>2 DEF ConfigureFails, IInv, PluginsBeforeConfig, cniFiles
    <2>. QED BY <1>2, <2>1, EndKeepsIInv DEF ConfigureFails
<1>. QED
    BY <1>1, <1>2, WatchKeepsIInv, PersistKeepsIInv, RebootKeepsIInv,
       HandleNodeKeepsIInv, ScanKeepsIInv, ConfigureKeepsIInv,
       SetENIsKeepsIInv, SetENIsFailsKeepsIInv, SaveENIsKeepsIInv,
       InstallKeepsIInv DEF Next, Handler

--------------------------------------------------------------------------------
(* The types of the controller's state, and the inductive invariant: half    *)
(* configured interfaces are those cut short, what the loop has collected is *)
(* configured, and each copy of the annotation lags behind the one before.   *)
THEOREM Inductive == Spec => [](TypeOK /\ IInv)
<1>1. TypeOK /\ IInv /\ Next => TypeOK' /\ IInv'
    BY TypeOKStep, NextKeepsIInv DEF IInv
<1>2. TypeOK /\ IInv /\ UNCHANGED vars => TypeOK' /\ IInv'
    BY DEF vars, TypeOK, IInv, StepsInOrder, PartialIsCut,
       CollectedIsConfigured, CopiesLag, FilesInOrder, WritesInOrder, InLoop,
       OfferedIsConfigured, Offered, FullyConfigured, PluginsBeforeConfig
<1>. QED BY <1>1, <1>2, InitInv, PTL DEF Spec

(* The state of the handler, the kernel, the allocator and the files. *)
THEOREM TypeCorrect == Spec => []TypeOK
BY Inductive, PTL

(* The allocator gives out only addresses of interfaces with all their       *)
(* routes and rules, but for the two gaps Offered names.                     *)
THEOREM OfferedAreConfigured == Spec => []OfferedIsConfigured
<1>1. IInv => OfferedIsConfigured
    BY DEF IInv
<1>. QED BY <1>1, Inductive, PTL

(* The kubelet finds no CNI configuration whose plugins are missing. *)
THEOREM PluginsComeFirst == Spec => []PluginsBeforeConfig
<1>1. IInv => PluginsBeforeConfig
    BY DEF IInv
<1>. QED BY <1>1, Inductive, PTL

(* SetENIs withdraws no interface, and a restart goes back to the file's, or *)
(* fails.                                                                    *)
THEOREM PoolGrows == Spec => PoolNeverShrinks
<1>1. ASSUME TypeOK, IInv, Next, ~recreated
      PROVE  /\ saved \subseteq saved'
             /\ pool \subseteq pool' \/ pool' = saved \/ pc' = "down"
    <2>1. CASE SetENIs
        BY <1>1, <2>1, CollectedIsSeen DEF SetENIs
    <2>2. CASE PersistBegin \/ PersistEnd
        BY <1>1, <2>2 DEF PersistBegin, PersistEnd, IInv, CopiesLag,
           WritesInOrder
    <2>3. CASE Crash \/ Reboot \/ ConfigureFails \/ SetENIsFails
        BY <1>1, <2>3, Outcomes DEF Crash, Reboot, ConfigureFails, SetENIsFails
    <2>6. CASE SaveENIs
        BY <1>1, <2>6, Outcomes DEF SaveENIs, Goto, IInv, CopiesLag
    <2>4. CASE CheckConfigured \/ CopyBinaries \/ CreateConfig \/ WriteConfig
        <3>1. saved' = saved /\ (Succeed \/ Fail \/ pool' = pool)
            BY <2>4 DEF CheckConfigured, CopyBinaries, CreateConfig,
               WriteConfig, Goto
        <3>. QED BY <1>1, <3>1, Outcomes
    <2>5. CASE \/ ENIController \/ RecreateNode \/ Sync
               \/ HandleNode \/ Scan \/ Configure
        BY <2>5 DEF ENIController, RecreateNode, Sync, HandleNode, Scan,
           Configure, Goto, allocator, stateFile
    <2>. QED BY <1>1, <2>1, <2>2, <2>3, <2>4, <2>5, <2>6 DEF Next, Handler
<1>2. TypeOK /\ IInv /\ [Next]_vars =>
        [\/ /\ saved \subseteq saved'
            /\ pool \subseteq pool' \/ pool' = saved \/ pc' = "down"
         \/ recreated]_vars
    BY <1>1
<1>. QED BY <1>2, Inductive, PTL DEF Spec, PoolNeverShrinks

--------------------------------------------------------------------------------
(* The kernel's lookup, for an interface with all its steps behind it. *)

LEMMA RulesArePresent ==
    ASSUME TypeOK, NEW i \in FullyConfigured
    PROVE  /\ i \in Index /\ "routes" \in host[i] /\ "rules" \in host[i]
           /\ "masquerade" \in host[i]
<1>1. Steps[4] = "routes" /\ Steps[5] = "rules" /\ Steps[6] = "masquerade"
    BY DEF Steps
<1>. QED BY <1>1, StepsLength DEF FullyConfigured, StepNames, FirstSteps

(* The rule for the destination comes first. *)
LEMMA LocalTable ==
    ASSUME TypeOK, NEW i \in Index, NEW j \in Index, "rules" \in host[j]
    PROVE  StaysLocal(host, i, j)
<1> DEFINE to == [priority |-> 5000, field |-> "dst", pod |-> j,
                  table |-> "main"]
           match == {r \in RulesOf(host) :
                        r.pod = IF r.field = "dst" THEN j ELSE i}
           first == {r \in match : \A s \in match : r.priority <= s.priority}
           chosen == CHOOSE r \in first : TRUE
<1>1. \A r \in RulesOf(host) :
         \E k \in Index :
            \/ r = [priority |-> 5000, field |-> "dst", pod |-> k,
                    table |-> "main"]
            \/ r = [priority |-> 6000, field |-> "src", pod |-> k,
                    table |-> "fromPod"]
    BY DEF RulesOf, Rules, TypeOK
<1>2. to \in RulesOf(host)
    BY DEF RulesOf, Rules, TypeOK
<1>3. to \in match
    BY <1>2
<1>4. \A r \in match : r = to \/ r.priority = 6000
    BY <1>1
<1>5. first = {to}
    BY <1>3, <1>4
<1>6. TableFor(host, i, j) = chosen.table
    BY <1>3 DEF TableFor
<1>7. chosen = to
    BY <1>5
<1>8. to.table = "main"
    OBVIOUS
<1> HIDE DEF chosen, to
<1>. QED BY <1>6, <1>7, <1>8 DEF StaysLocal

(* No rule for a destination matches a remote one. *)
LEMMA RemoteTable ==
    ASSUME TypeOK, NEW i \in Index, "rules" \in host[i]
    PROVE  TableFor(host, i, 0) = "fromPod"
<1> DEFINE from == [priority |-> 6000, field |-> "src", pod |-> i,
                    table |-> "fromPod"]
           match == {r \in RulesOf(host) :
                        r.pod = IF r.field = "dst" THEN 0 ELSE i}
           first == {r \in match : \A s \in match : r.priority <= s.priority}
           chosen == CHOOSE r \in first : TRUE
<1>1. \A r \in RulesOf(host) :
         \E k \in Index :
            \/ r = [priority |-> 5000, field |-> "dst", pod |-> k,
                    table |-> "main"]
            \/ r = [priority |-> 6000, field |-> "src", pod |-> k,
                    table |-> "fromPod"]
    BY DEF RulesOf, Rules, TypeOK
<1>2. from \in RulesOf(host)
    BY DEF RulesOf, Rules, TypeOK
<1>3. from \in match
    BY <1>2
<1>4. 0 \notin Index
    BY DEF Index
<1>5. \A r \in match : r = from
    BY <1>1, <1>4
<1>6. first = {from}
    BY <1>3, <1>5
<1>7. TableFor(host, i, 0) = chosen.table
    BY <1>3 DEF TableFor
<1>8. chosen = from
    BY <1>6
<1>9. from.table = "fromPod"
    OBVIOUS
<1> HIDE DEF chosen, from
<1>. QED BY <1>7, <1>8, <1>9

(* Where the routes of an interface's table send a remote address: to the    *)
(* networks of the VPC by the interface, and elsewhere too without PodIPMasq.*)
LEMMA TableLinks ==
    ASSUME NEW podIPMasq \in BOOLEAN, NEW remote \in Remote
    PROVE  LET link == Link(FromPodTable(podIPMasq), remote)
           IN  IF podIPMasq
                 THEN link = IF remote \intersect {"cluster", "service",
                                                   "subnet", "vpcRouted"} = {}
                               THEN "eth0" ELSE "eni"
                 ELSE link = "eni"
<1> DEFINE table == FromPodTable(podIPMasq)
           specific == {r \in table : r.dst \in remote}
           others == {s \in table : s.dst = "any"}
           matches == IF specific = {} THEN others ELSE specific
<1>1. "any" \notin remote
    BY DEF Remote, Networks
<1>2. Link(table, remote) = (CHOOSE r \in matches : TRUE).link
    BY DEF Link, RouteFor
<1>3. CASE specific # {}
    <2>1. \A r \in specific : r.link = "eni"
        BY <1>1 DEF FromPodTable
    <2>2. (CHOOSE r \in matches : TRUE) \in specific
        BY <1>3
    <2>3. podIPMasq => remote \intersect {"cluster", "service", "subnet",
                                         "vpcRouted"} # {}
        BY <1>1, <1>3 DEF FromPodTable
    <2>. QED BY <1>2, <2>1, <2>2, <2>3
<1>4. CASE specific = {}
    <2>1. others = {[dst |-> "any",
                     link |-> IF podIPMasq THEN "eth0" ELSE "eni"]}
        BY DEF FromPodTable
    <2>2. (CHOOSE r \in matches : TRUE) \in others
        BY <1>4, <2>1
    <2>3. ASSUME podIPMasq,
                 NEW n \in {"cluster", "service", "subnet", "vpcRouted"}
          PROVE  n \notin remote
        <3>1. [dst |-> n, link |-> "eni"] \in table
            BY <2>3 DEF FromPodTable
        <3>. QED BY <1>4, <3>1
    <2>4. Link(table, remote) = IF podIPMasq THEN "eth0" ELSE "eni"
        <3>1. \A r \in others : r.link = IF podIPMasq THEN "eth0" ELSE "eni"
            BY <2>1
        <3> HIDE DEF others, matches
        <3>. QED BY <1>2, <2>2, <3>1
    <2>5. podIPMasq => remote \intersect {"cluster", "service", "subnet",
                                         "vpcRouted"} = {}
        BY <2>3
    <2>. QED BY <2>4, <2>5
<1>. QED BY <1>3, <1>4

(* An interface with all its steps carries its pods' packets. *)
LEMMA ConfiguredIsRouted ==
    ASSUME TypeOK, NEW i \in FullyConfigured, NEW podIPMasq \in BOOLEAN
    PROVE  WellRouted(host, podIPMasq, i)
<1>1. /\ i \in Index /\ "routes" \in host[i] /\ "rules" \in host[i]
      /\ "masquerade" \in host[i]
    BY RulesArePresent
<1>2. \A j \in DOMAIN host : "rules" \in host[j] => StaysLocal(host, i, j)
    BY <1>1, LocalTable DEF TypeOK
<1>3. Routes(host, podIPMasq, i) = FromPodTable(podIPMasq)
    BY <1>1, RemoteTable DEF Routes
<1>4. ASSUME NEW remote \in Remote
      PROVE  /\ remote \intersect {"cluster", "service", "vpcRouted"} # {} =>
                   /\ Link(FromPodTable(podIPMasq), remote) = "eni"
                   /\ ~Masqueraded(host, i, remote)
             /\ \/ "multicast" \in remote
                \/ Masqueraded(host, i, remote)
                \/ Link(FromPodTable(podIPMasq), remote) = "eni"
    <2>1. Masqueraded(host, i, remote) <=>
             remote \intersect {"cluster", "service", "multicast",
                               "vpcRouted"} = {}
        BY <1>1 DEF Masqueraded, Accepted
    <2>. QED BY <2>1, TableLinks
<1>. QED BY <1>2, <1>3, <1>4 DEF WellRouted

(* Packets of the pods on offered interfaces take the right link with the    *)
(* right address, for every address, every network and either masquerading.  *)
THEOREM OfferedAreRouted == Spec => []OfferedIsRouted
<1>1. TypeOK /\ IInv => OfferedIsRouted
    BY ConfiguredIsRouted DEF IInv, OfferedIsConfigured, OfferedIsRouted
<1>. QED BY <1>1, Inductive, PTL
================================================================================
