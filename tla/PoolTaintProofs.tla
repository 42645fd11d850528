---------------------------- MODULE PoolTaintProofs ----------------------------
(***************************************************************************)
(* Proofs about PoolTaint.tla, for any number of handlers and addresses    *)
(* and any lag of the informer: its types, and that the updates of the     *)
(* taint keep what others change in the node.                              *)
(***************************************************************************)
EXTENDS PoolTaint, FiniteSetTheorems, TLAPS

USE TickerAssumption, PoolSizeAssumption, ConfigAssumption, BoundAssumption

(* What the resource version stands for: a thread whose copy is the newest   *)
(* version is about to update the node, and has it as it is (GetNode,        *)
(* UpdateNode, Touch).                                                       *)
CurrentIsNode ==
    \A t \in current : copy[t] = node /\ pc[t] = "update"

(* Where PoolFull and PoolNotFull return to. *)
Returns == {"idle", "evict", "ok", "delete"}

(* A pod has an address, or is about to get it, if its handler is here and   *)
(* goes on there.                                                            *)
Has(here, next) ==
    \/ here \in {"count", "ok"}
    \/ here \in {"full", "notfull", "get", "update"} /\ next = "ok"

Holders == {h \in Handler : Has(pc[h], return[h])}

(* The count of free addresses is what the pods leave of the pool.           *)
FreeIsRest ==
    IsFiniteSet(Holders) /\ free + Cardinality(Holders) = PoolSize

Inv == /\ TypeOK /\ CurrentIsNode /\ FreeIsRest
       /\ return \in [Thread -> Returns]

--------------------------------------------------------------------------------
LEMMA InitInv == Init => Inv
<1> SUFFICES ASSUME Init PROVE Inv
    OBVIOUS
<1>1. node \in NodeType /\ copy \in [Thread -> NodeType \union {NoNode}]
    BY DEF Init, NodeType
<1>2. watch \in Seq(BOOLEAN) /\ Len(watch) <= MaxLag
    BY DEF Init
<1>3. /\ pc \in [Thread -> PCs] /\ return \in [Thread -> PCs]
      /\ return \in [Thread -> Returns]
    BY DEF Init, PCs, Returns
<1>4. TypeOK /\ CurrentIsNode
    <2>1. free \in 0..PoolSize
        BY DEF Init
    <2>2. cache \in BOOLEAN /\ op \in [Thread -> BOOLEAN]
        BY DEF Init
    <2>3. current = {}
        BY DEF Init
    <2>. QED BY <1>1, <1>2, <1>3, <2>1, <2>2, <2>3 DEF TypeOK, CurrentIsNode
<1>5. Holders = {}
    BY DEF Init, Holders, Has, Thread
<1>6. FreeIsRest
    BY <1>5, FS_EmptySet DEF FreeIsRest, Init
<1>. QED BY <1>3, <1>4, <1>6 DEF Inv

(* A step that moves one thread, neither allocates nor releases, and leaves  *)
(* the node alone.  If the thread was in UpdateNode, it forgets its copy.    *)
LEMMA MovesKeep ==
    ASSUME Inv, NEW t \in Thread, NEW to \in PCs, NEW r \in Returns,
           Goto(t, to), return' = [return EXCEPT ![t] = r],
           t \in Handler => (Has(pc[t], return[t]) <=> Has(to, r)),
           op' \in [Thread -> BOOLEAN],
           copy' \in {copy, [copy EXCEPT ![t] = NoNode]},
           \/ pc[t] # "update" /\ UNCHANGED current
           \/ current' = current \ {t},
           UNCHANGED <<free, node, cache, watch>>
    PROVE  Inv'
<1>1. /\ pc' \in [Thread -> PCs] /\ return' \in [Thread -> Returns]
      /\ return' \in [Thread -> PCs]
    BY DEF Goto, Inv, TypeOK, Returns, PCs
<1>2. copy' \in [Thread -> NodeType \union {NoNode}]
    BY DEF Inv, TypeOK
<1>3. TypeOK'
    BY <1>1, <1>2 DEF Inv, TypeOK
<1>4. CurrentIsNode'
    <2>1. ASSUME NEW s \in current' PROVE copy'[s] = node /\ pc'[s] = "update"
        <3>1. s \in current /\ s # t /\ s \in Thread
            BY <2>1 DEF Inv, TypeOK, CurrentIsNode
        <3>2. copy'[s] = copy[s] /\ pc'[s] = pc[s]
            BY <3>1 DEF Goto, Inv, TypeOK
        <3>. QED BY <3>1, <3>2 DEF Inv, CurrentIsNode
    <2>. QED BY <2>1 DEF CurrentIsNode
<1>5. \A h \in Handler : Has(pc'[h], return'[h]) <=> Has(pc[h], return[h])
    BY DEF Goto, Inv, TypeOK, Thread
<1>6. Holders' = Holders
    BY <1>5 DEF Holders
<1>7. FreeIsRest'
    BY <1>6 DEF Inv, FreeIsRest
<1>. QED BY <1>1, <1>3, <1>4, <1>7 DEF Inv

(* The same for a step that leaves alone where the thread goes on.           *)
LEMMA StaysKeep ==
    ASSUME Inv, NEW t \in Thread, NEW to \in PCs,
           Goto(t, to), UNCHANGED return,
           t \in Handler => (Has(pc[t], return[t]) <=> Has(to, return[t])),
           op' \in [Thread -> BOOLEAN],
           copy' \in {copy, [copy EXCEPT ![t] = NoNode]},
           \/ pc[t] # "update" /\ UNCHANGED current
           \/ current' = current \ {t},
           UNCHANGED <<free, node, cache, watch>>
    PROVE  Inv'
<1>1. return[t] \in Returns /\ return' = [return EXCEPT ![t] = return[t]]
    BY DEF Inv
<1>. QED BY <1>1, MovesKeep

(* And for one that returns to where the thread was before the taint.        *)
LEMMA ReturnKeeps ==
    ASSUME Inv, NEW t \in Thread, Return(t),
           pc[t] \in {"full", "notfull", "get", "update"},
           \/ pc[t] # "update" /\ UNCHANGED current
           \/ current' = current \ {t},
           UNCHANGED <<free, node, cache, watch>>
    PROVE  Inv'
<1>1. return[t] \in Returns /\ return[t] \in PCs /\ "idle" \in Returns
    BY DEF Inv, Returns, PCs
<1>2. op' \in [Thread -> BOOLEAN]
    BY DEF Return, Inv, TypeOK
<1>3. Has(pc[t], return[t]) <=> Has(return[t], "idle")
    BY <1>1 DEF Has, Returns
<1>. QED BY <1>1, <1>2, <1>3, MovesKeep DEF Return

(* Allocate takes one address, Release gives one back.                       *)
LEMMA AllocateKeeps ==
    ASSUME Inv, NEW h \in Handler, Allocate(h)
    PROVE  Inv'
<1>1. h \in Thread /\ pc[h] = "checked" /\ ~Has(pc[h], return[h])
    BY DEF Allocate, Thread, Has
<1>2. CASE free > 0 /\ free' = free - 1 /\ Goto(h, "count")
    <2>1. pc' \in [Thread -> PCs] /\ free' \in 0..PoolSize
        BY <1>1, <1>2 DEF Goto, Inv, TypeOK, PCs
    <2>2. TypeOK' /\ return' \in [Thread -> Returns]
        BY <1>2, <2>1 DEF Allocate, nodeVars, Inv, TypeOK
    <2>8. CurrentIsNode'
        BY <1>1, <1>2 DEF Allocate, nodeVars, Goto, Inv, TypeOK, CurrentIsNode
    <2>3. \A g \in Handler :
             Has(pc'[g], return'[g]) <=> g = h \/ Has(pc[g], return[g])
        BY <1>1, <1>2 DEF Allocate, Goto, Inv, TypeOK, Thread, Has
    <2>4. Holders' = Holders \union {h} /\ h \notin Holders
        BY <1>1, <2>3 DEF Holders
    <2>5. /\ IsFiniteSet(Holders')
          /\ Cardinality(Holders') = Cardinality(Holders) + 1
        BY <2>4, FS_AddElement DEF Inv, FreeIsRest
    <2>6. Cardinality(Holders) \in Nat
        BY FS_CardinalityType DEF Inv, FreeIsRest
    <2>7. FreeIsRest'
        BY <1>2, <2>5, <2>6 DEF Inv, FreeIsRest, TypeOK
    <2>. QED BY <2>2, <2>7, <2>8 DEF Inv
<1>3. CASE Goto(h, "failed") /\ UNCHANGED free
    BY <1>1, <1>3, StaysKeep DEF Allocate, nodeVars, PCs, Inv, TypeOK, Has
<1>. QED BY <1>2, <1>3 DEF Allocate

LEMMA ReleaseKeeps ==
    ASSUME Inv, NEW h \in Handler, Release(h)
    PROVE  Inv'
<1>1. /\ h \in Thread /\ pc[h] = "ok" /\ Has(pc[h], return[h])
      /\ free' = free + 1 /\ Goto(h, "released")
    BY DEF Release, Thread, Has
<1>2. \A g \in Handler :
         Has(pc'[g], return'[g]) <=> g # h /\ Has(pc[g], return[g])
    BY <1>1 DEF Release, Goto, Inv, TypeOK, Thread, Has
<1>3. Holders' = Holders \ {h} /\ h \in Holders
    BY <1>1, <1>2 DEF Holders
<1>4. /\ IsFiniteSet(Holders')
      /\ Cardinality(Holders') = Cardinality(Holders) - 1
    BY <1>3, FS_RemoveElement DEF Inv, FreeIsRest
<1>5. Cardinality(Holders) \in Nat /\ Cardinality(Holders') \in Nat
    BY <1>4, FS_CardinalityType DEF Inv, FreeIsRest
<1>6. FreeIsRest' /\ free' \in 0..PoolSize
    BY <1>1, <1>4, <1>5 DEF Inv, FreeIsRest, TypeOK
<1>7. pc' \in [Thread -> PCs]
    BY <1>1 DEF Goto, Inv, TypeOK, PCs
<1>8. TypeOK' /\ return' \in [Thread -> Returns]
    BY <1>6, <1>7 DEF Release, nodeVars, Inv, TypeOK
<1>9. CurrentIsNode'
    BY <1>1 DEF Release, nodeVars, Goto, Inv, TypeOK, CurrentIsNode
<1>. QED BY <1>6, <1>8, <1>9 DEF Inv

--------------------------------------------------------------------------------
(* FreeAddressCount decides whether PoolFull or PoolNotFull is called.       *)
LEMMA CountKeeps ==
    ASSUME Inv, NEW t \in Thread, NEW after \in Returns, Count(t, after),
           pc[t] # "update",
           t \in Handler => (Has(pc[t], return[t]) <=> after = "ok")
    PROVE  Inv'
<1>1. CASE free < 1
    BY <1>1, MovesKeep DEF Count, nodeVars, PCs, Inv, TypeOK, Has
<1>2. CASE ~(free < 1)
    BY <1>2, MovesKeep DEF Count, nodeVars, PCs, Inv, TypeOK, Has
<1>. QED BY <1>1, <1>2

LEMMA IpCheckKeeps ==
    ASSUME Inv, NEW t \in Thread, NEW after \in {"idle", "delete"},
           IpCheck(t, after), ~Has(pc[t], return[t]), pc[t] # "update"
    PROVE  Inv'
<1>1. CASE TaintWhenNoIPs
    BY <1>1, CountKeeps DEF IpCheck, Returns
<1>2. CASE ~TaintWhenNoIPs
    BY <1>2, StaysKeep DEF IpCheck, nodeVars, PCs, Inv, TypeOK, Has
<1>. QED BY <1>1, <1>2

(* The rest of Add. *)
LEMMA AddKeeps ==
    ASSUME Inv, NEW h \in Handler,
           \/ CheckFree(h) \/ NoFreeIPs(h) \/ CheckPool(h) \/ EvictCheck(h)
           \/ DeletePod(h) \/ ReturnError(h)
    PROVE  Inv'
<1>1. h \in Thread
    BY DEF Thread
<1>2. CASE CheckFree(h)
    BY <1>1, <1>2, StaysKeep
    DEF CheckFree, nodeVars, PCs, Inv, TypeOK, Has
<1>3. CASE NoFreeIPs(h)
    <2>1. CASE DeletePodWhenNoIPs
        BY <1>1, <1>3, <2>1, MovesKeep
        DEF NoFreeIPs, nodeVars, PCs, Returns, Inv, TypeOK, Has
    <2>2. CASE ~DeletePodWhenNoIPs
        BY <1>1, <1>3, <2>2, StaysKeep
        DEF NoFreeIPs, nodeVars, PCs, Inv, TypeOK, Has
    <2>. QED BY <2>1, <2>2
<1>4. CASE CheckPool(h)
    BY <1>1, <1>4, CountKeeps DEF CheckPool, Returns, Has
<1>5. CASE EvictCheck(h)
    BY <1>1, <1>5, IpCheckKeeps DEF EvictCheck, Has
<1>6. CASE DeletePod(h)
    BY <1>1, <1>6, StaysKeep DEF DeletePod, nodeVars, PCs, Inv, TypeOK, Has
<1>7. CASE ReturnError(h)
    BY <1>1, <1>7, StaysKeep DEF ReturnError, nodeVars, PCs, Inv, TypeOK, Has
<1>. QED BY <1>2, <1>3, <1>4, <1>5, <1>6, <1>7

LEMMA TickKeeps ==
    ASSUME Inv, Tick
    PROVE  Inv'
<1>1. /\ Ticker \in Thread /\ ~Has(pc[Ticker], return[Ticker])
      /\ pc[Ticker] # "update"
    BY DEF Tick, Thread, Has
<1>. QED BY <1>1, IpCheckKeeps DEF Tick

--------------------------------------------------------------------------------
(* The reconciler. *)
LEMMA PoolStateKeeps ==
    ASSUME Inv, NEW t \in Thread, NEW full \in BOOLEAN,
           pc[t] \in {"full", "notfull"}, PoolState(t, full)
    PROVE  Inv'
<1>1. return[t] \in Returns
    BY DEF Inv
<1>2. CASE Return(t)
    BY <1>2, ReturnKeeps DEF PoolState
<1>3. CASE /\ Goto(t, "get") /\ op' = [op EXCEPT ![t] = full]
           /\ UNCHANGED <<return, copy>>
    BY <1>1, <1>3, StaysKeep DEF PoolState, PCs, Inv, TypeOK, Has
<1>. QED BY <1>2, <1>3 DEF PoolState

(* A request that fails, or conflicts. *)
LEMMA FailedRequestKeeps ==
    ASSUME Inv, NEW t \in Thread, Conflict(t) \/ ApiError(t)
    PROVE  Inv'
<1>1. return[t] \in Returns
    BY DEF Inv
<1>2. CASE Conflict(t)
    <2>1. current' = current \ {t}
        BY <1>2 DEF Conflict, IsConflict
    <2>2. op' \in [Thread -> BOOLEAN] /\ "get" \in PCs
        BY <1>2 DEF Conflict, PCs, Inv, TypeOK
    <2>3. Has(pc[t], return[t]) <=> Has("get", return[t])
        BY <1>2 DEF Conflict, Has
    <2>. QED BY <1>2, <2>1, <2>2, <2>3, StaysKeep DEF Conflict
<1>3. CASE ApiError(t)
    BY <1>3, ReturnKeeps DEF ApiError
<1>. QED BY <1>2, <1>3

(* What the thread holds is the same while it updates the node.              *)
LEMMA SameHolders ==
    ASSUME Inv, NEW t \in Thread, NEW to \in PCs, NEW r \in Returns,
           Goto(t, to), return' = [return EXCEPT ![t] = r], UNCHANGED free,
           t \in Handler => (Has(pc[t], return[t]) <=> Has(to, r))
    PROVE  FreeIsRest'
<1>1. \A h \in Handler : Has(pc'[h], return'[h]) <=> Has(pc[h], return[h])
    BY DEF Goto, Inv, TypeOK, Thread
<1>2. Holders' = Holders
    BY <1>1 DEF Holders
<1>. QED BY <1>2 DEF Inv, FreeIsRest

LEMMA GetNodeKeeps ==
    ASSUME Inv, NEW t \in Thread, GetNode(t)
    PROVE  Inv'
<1>1. /\ pc' \in [Thread -> PCs]
      /\ copy' \in [Thread -> NodeType \union {NoNode}]
    BY DEF GetNode, Goto, Inv, TypeOK, PCs
<1>2. TypeOK' /\ CurrentIsNode'
    <2>1. TypeOK'
        BY <1>1 DEF GetNode, Inv, TypeOK
    <2>2. ASSUME NEW s \in current' PROVE copy'[s] = node /\ pc'[s] = "update"
        BY <2>2 DEF GetNode, Goto, Inv, TypeOK, CurrentIsNode
    <2>. QED BY <2>1, <2>2 DEF GetNode, CurrentIsNode
<1>3. FreeIsRest'
    <2>1. return[t] \in Returns /\ return' = [return EXCEPT ![t] = return[t]]
        BY DEF GetNode, Inv
    <2>. QED BY <2>1, SameHolders DEF GetNode, PCs, Has
<1>. QED BY <1>2, <1>3 DEF GetNode, Inv

(* A change of the node, and the version of it the informer will see.        *)
LEMMA WatchGrows ==
    ASSUME TypeOK, NEW b \in BOOLEAN, Len(watch) < MaxLag
    PROVE  /\ Append(watch, b) \in Seq(BOOLEAN)
           /\ Len(Append(watch, b)) <= MaxLag
BY DEF TypeOK

LEMMA UpdateNodeKeeps ==
    ASSUME Inv, NEW t \in Thread, UpdateNode(t)
    PROVE  Inv' /\ node'.other = node.other
<1>1. /\ pc[t] = "update" /\ t \in current /\ Return(t)
      /\ return[t] \in Returns /\ return[t] \in PCs
      /\ UNCHANGED <<free, cache>>
    BY DEF UpdateNode, IsConflict, Inv, Returns, PCs
<1>2. CASE UNCHANGED <<node, watch>> /\ current' = current \ {t}
    BY <1>1, <1>2, ReturnKeeps
<1>3. copy[t] = node /\ node \in NodeType /\ op[t] \in BOOLEAN
    BY <1>1 DEF Inv, TypeOK, CurrentIsNode
<1>5. CASE /\ Len(watch) < MaxLag
           /\ node' = [copy[t] EXCEPT !.tainted = op[t]]
           /\ watch' = Append(watch, op[t]) /\ current' = {}
    <2>1. node' \in NodeType /\ node'.other = node.other
        BY <1>3, <1>5 DEF NodeType
    <2>2. watch' \in Seq(BOOLEAN) /\ Len(watch') <= MaxLag
        BY <1>3, <1>5, WatchGrows DEF Inv
    <2>3. /\ pc' \in [Thread -> PCs] /\ op' \in [Thread -> BOOLEAN]
          /\ return' \in [Thread -> Returns] /\ return' \in [Thread -> PCs]
          /\ copy' \in [Thread -> NodeType \union {NoNode}]
        BY <1>1 DEF Return, Goto, Inv, TypeOK, Returns, PCs
    <2>4. TypeOK' /\ CurrentIsNode'
        BY <1>1, <1>5, <2>1, <2>2, <2>3 DEF Inv, TypeOK, CurrentIsNode
    <2>5. Has(pc[t], return[t]) <=> Has(return[t], "idle")
        BY <1>1 DEF Has, Returns
    <2>6. FreeIsRest'
        BY <1>1, <2>5, SameHolders DEF Return, Returns
    <2>. QED BY <2>1, <2>3, <2>4, <2>6 DEF Inv
<1>. QED BY <1>2, <1>5 DEF UpdateNode

--------------------------------------------------------------------------------
(* The informer and the others. *)
LEMMA SyncKeeps ==
    ASSUME Inv, Sync
    PROVE  Inv'
<1>1. watch' \in Seq(BOOLEAN) /\ Len(watch') <= MaxLag /\ cache' \in BOOLEAN
    BY DEF Sync, Inv, TypeOK
<1>2. Holders' = Holders
    BY DEF Sync, Holders
<1>. QED BY <1>1, <1>2 DEF Sync, Inv, TypeOK, CurrentIsNode, FreeIsRest

LEMMA TouchKeeps ==
    ASSUME Inv, Touch
    PROVE  Inv'
<1>1. node \in NodeType
    BY DEF Inv, TypeOK
<1>2. node' \in NodeType
    BY <1>1 DEF Touch, NodeType
<1>3. watch' \in Seq(BOOLEAN) /\ Len(watch') <= MaxLag
    BY <1>1, WatchGrows DEF Touch, Inv, NodeType
<1>4. Holders' = Holders
    BY DEF Touch, Holders
<1>. QED BY <1>2, <1>3, <1>4
         DEF Touch, Inv, TypeOK, CurrentIsNode, FreeIsRest

--------------------------------------------------------------------------------
LEMMA NextKeepsInv ==
    ASSUME Inv, Next
    PROVE  Inv'
<1>1. ASSUME NEW t \in Thread, Reconcile(t) PROVE Inv'
    BY <1>1, PoolStateKeeps, FailedRequestKeeps, GetNodeKeeps, UpdateNodeKeeps
    DEF Reconcile, PoolFull, PoolNotFull
<1>2. ASSUME NEW h \in Handler, HandlerStep(h) \/ Release(h) PROVE Inv'
    BY <1>2, AddKeeps, AllocateKeeps, ReleaseKeeps DEF HandlerStep
<1>. QED BY <1>1, <1>2, SyncKeeps, TouchKeeps, TickKeeps DEF Next

LEMMA Invariant == Spec => []Inv
<1>1. Inv /\ UNCHANGED vars => Inv'
    BY DEF vars, Inv, TypeOK, CurrentIsNode, FreeIsRest, Holders
<1>. QED BY <1>1, InitInv, NextKeepsInv, PTL DEF Spec

(* The types, with the count of free addresses between none and all of the   *)
(* pool: what Allocate takes is what Release gives back.                     *)
THEOREM TypeCorrect == Spec => []TypeOK
<1>1. Inv => TypeOK
    BY DEF Inv
<1>. QED BY <1>1, Invariant, PTL

(* An update of the taint is made of the newest version of the node, so that *)
(* no change of anybody else is overwritten, for any number of Add calls.    *)
THEOREM OthersAreKept == Spec => OthersChangesKept
<1>1. ASSUME Inv, Next PROVE node'.other # node.other => Touch
    <2>1. CASE UNCHANGED node
        BY <2>1
    <2>2. ASSUME NEW t \in Thread, Reconcile(t)
          PROVE  UNCHANGED node \/ UpdateNode(t)
        BY <2>2 DEF Reconcile, PoolFull, PoolNotFull, PoolState, GetNode,
                    Conflict, ApiError, nodeVars
    <2>3. ASSUME NEW h \in Handler, HandlerStep(h) \/ Release(h)
          PROVE  UNCHANGED node
        BY <2>3 DEF HandlerStep, Release, CheckFree, Allocate, NoFreeIPs,
                    CheckPool, EvictCheck, DeletePod, ReturnError, IpCheck,
                    Count, nodeVars
    <2>4. Sync \/ Tick => UNCHANGED node
        BY DEF Sync, Tick, IpCheck, Count, nodeVars
    <2>. QED BY <1>1, <2>1, <2>2, <2>3, <2>4, UpdateNodeKeeps
             DEF Next
<1>2. Inv /\ [Next]_vars => [node'.other # node.other => Touch]_vars
    BY <1>1
<1>. QED BY <1>2, Invariant, PTL DEF Spec, OthersChangesKept
================================================================================
