------------------------------- MODULE PoolTaint -------------------------------
(***************************************************************************)
(* What the daemon does around an allocation: the gRPC Add handler tells   *)
(* the reconciler whether the address pool is full, the reconciler taints  *)
(* and untaints the node through the API server, on these calls and on a   *)
(* ticker, and evicts the pod that got no address.  The node as the        *)
(* reconciler sees it is the informer's copy, which lags behind.           *)
(*                                                                         *)
(* The allocator is a number of free addresses here (Allocator.tla has the *)
(* rest, the failed write after an address is taken among it).  Each       *)
(* handler is one Add call, for one pod; its address comes back when the   *)
(* pod is deleted.                                                         *)
(***************************************************************************)
EXTENDS Naturals, Sequences

CONSTANTS Handler,             \* Add calls, one per pod
          Ticker,              \* the reconciler's own goroutine
          PoolSize,            \* addresses of the node
          TaintWhenNoIPs,      \* configuration
          DeletePodWhenNoIPs,  \* configuration
          Other,               \* what the rest of the node may say
          NoNode,              \* nothing fetched
          MaxLag               \* bound: watch events the informer is behind

ASSUME TickerAssumption == Ticker \notin Handler
ASSUME PoolSizeAssumption == PoolSize \in Nat
ASSUME ConfigAssumption ==
    TaintWhenNoIPs \in BOOLEAN /\ DeletePodWhenNoIPs \in BOOLEAN
ASSUME BoundAssumption == MaxLag \in Nat \ {0}

Thread == Handler \union {Ticker}

(* Where a thread is.  A handler begins at "start" and ends at "ok", "error" *)
(* or, its pod gone, "released"; the ticker begins and ends at "idle".       *)
PCs == {"start", "checked", "nofree", "count", "full", "notfull", "get",
        "update", "evict", "delete", "failed", "ok", "error", "released", "idle"}

VARIABLES
    free,      \* addresses FreeAddressCount counts
    node,      \* the node at the API server: the taint, and everything else
    cache,     \* whether the informer's copy has the taint
    watch,     \* the taint in the versions the informer has yet to see
    pc,
    op,        \* the taint value a thread's UpdateNode is to set
    return,    \* where a thread goes on when PoolFull or PoolNotFull returns
    copy,      \* the node a thread's UpdateNode has fetched, until the request
               \* that is to change it
    current    \* threads whose copy is the version at the API server

vars == <<free, node, cache, watch, pc, op, return, copy, current>>

NodeType == [tainted : BOOLEAN, other : Other]

TypeOK ==
    /\ free \in 0..PoolSize
    /\ node \in NodeType /\ cache \in BOOLEAN
    /\ watch \in Seq(BOOLEAN) /\ Len(watch) <= MaxLag
    /\ pc \in [Thread -> PCs]
    /\ op \in [Thread -> BOOLEAN]
    /\ return \in [Thread -> PCs]
    /\ copy \in [Thread -> NodeType \union {NoNode}]
    /\ current \subseteq Thread

Init ==
    /\ free = PoolSize
    /\ node \in [tainted : {FALSE}, other : Other]
    /\ cache = FALSE /\ watch = <<>>
    /\ pc = [t \in Thread |-> IF t = Ticker THEN "idle" ELSE "start"]
    /\ op = [t \in Thread |-> FALSE]
    /\ return = [t \in Thread |-> "idle"]
    /\ copy = [t \in Thread |-> NoNode] /\ current = {}

nodeVars == <<node, cache, watch, op, copy, current>>

Goto(t, to) == pc' = [pc EXCEPT ![t] = to]

(* PoolFull, PoolNotFull or UpdateNode returns; its variables go with it.    *)
Return(t) ==
    /\ Goto(t, return[t])
    /\ return' = [return EXCEPT ![t] = "idle"]
    /\ op' = [op EXCEPT ![t] = FALSE]
    /\ copy' = [copy EXCEPT ![t] = NoNode]

--------------------------------------------------------------------------------
(* Service.Add: Allocate, which looks at the free count before it takes the  *)
(* mutex and looks for a free address.                                       *)
CheckFree(h) ==
    /\ pc[h] = "start"
    /\ Goto(h, IF free < 1 THEN "nofree" ELSE "checked")
    /\ UNCHANGED <<free, nodeVars, return>>

(* Mutant: the count taken before is trusted. *)
AllocateUnchecked(h) ==
    /\ pc[h] = "checked"
    /\ free' = free - 1 /\ Goto(h, "count")
    /\ UNCHANGED <<nodeVars, return>>

(* An error that is not ErrNoFreeIPs is returned and nothing else. *)
Allocate(h) ==
    /\ pc[h] = "checked"
    /\ \/ free > 0 /\ free' = free - 1 /\ Goto(h, "count")
       \/ free = 0 /\ Goto(h, "failed") /\ UNCHANGED free
    /\ UNCHANGED <<nodeVars, return>>

(* ErrNoFreeIPs *)
NoFreeIPs(h) ==
    /\ pc[h] = "nofree"
    /\ IF DeletePodWhenNoIPs
         THEN /\ Goto(h, "full")
              /\ return' = [return EXCEPT ![h] = "evict"]
         ELSE /\ Goto(h, "failed")
              /\ UNCHANGED return
    /\ UNCHANGED <<free, nodeVars>>

(* FreeAddressCount, in Add after an allocation and in ipCheck. *)
Count(t, after) ==
    /\ Goto(t, IF free < 1 THEN "full" ELSE "notfull")
    /\ return' = [return EXCEPT ![t] = after]
    /\ UNCHANGED <<free, nodeVars>>

CheckPool(h) == pc[h] = "count" /\ Count(h, "ok")

(* ipCheck: on the ticker, and before EvictPod deletes the pod. *)
IpCheck(t, after) ==
    IF TaintWhenNoIPs
      THEN Count(t, after)
      ELSE Goto(t, after) /\ UNCHANGED <<free, nodeVars, return>>

Tick == pc[Ticker] = "idle" /\ IpCheck(Ticker, "idle")

EvictCheck(h) == pc[h] = "evict" /\ IpCheck(h, "delete")

(* The delete; an error of it is logged and ignored.  The pod has no address *)
(* to give back.                                                             *)
DeletePod(h) ==
    /\ pc[h] = "delete"
    /\ Goto(h, "failed")
    /\ UNCHANGED <<free, nodeVars, return>>

ReturnError(h) ==
    /\ pc[h] = "failed"
    /\ Goto(h, "error")
    /\ UNCHANGED <<free, nodeVars, return>>

(* The pod is deleted and Del gives its address back. *)
Release(h) ==
    /\ pc[h] = "ok"
    /\ free' = free + 1
    /\ Goto(h, "released")
    /\ UNCHANGED <<nodeVars, return>>

--------------------------------------------------------------------------------
(* Mutant: the taint is never taken off. *)
CacheSuffices(full) == cache \/ ~full

(* PoolFull and PoolNotFull: nothing to do when the cache already says so.   *)
CacheAgrees(full) == cache = full

PoolState(t, full) ==
    /\ IF ~TaintWhenNoIPs \/ CacheAgrees(full)
         THEN Return(t)
         ELSE /\ Goto(t, "get") /\ op' = [op EXCEPT ![t] = full]
              /\ UNCHANGED <<return, copy>>
    /\ UNCHANGED <<free, node, cache, watch, current>>

PoolFull(t) ==
    /\ pc[t] = "full"
    /\ PoolState(t, TRUE)

PoolNotFull(t) ==
    /\ pc[t] = "notfull"
    /\ PoolState(t, FALSE)

(* UpdateNode: fetch, change, update, and all over again after a conflict.   *)
GetNode(t) ==
    /\ pc[t] = "get"
    /\ copy' = [copy EXCEPT ![t] = node]
    /\ current' = current \union {t}
    /\ Goto(t, "update")
    /\ UNCHANGED <<free, node, cache, watch, op, return>>

(* Mutants: no resource version is sent; every error is retried. *)
NoConflict(t) == FALSE
AnyError(t) == t \notin current \/ (op[t] /\ copy[t].tainted)

IsConflict(t) == t \notin current

Conflict(t) ==
    /\ pc[t] = "update" /\ IsConflict(t)
    /\ Goto(t, "get")
    /\ copy' = [copy EXCEPT ![t] = NoNode]
    /\ UNCHANGED <<free, node, cache, watch, op, current, return>>

(* The API server refuses a node that has the same taint twice.              *)
Refused(t) == op[t] /\ copy[t].tainted

UpdateNode(t) ==
    /\ pc[t] = "update" /\ ~IsConflict(t)
    /\ Return(t)
    /\ \/ /\ Refused(t)
          /\ current' = current \ {t} /\ UNCHANGED <<node, watch>>
       \/ /\ ~Refused(t) /\ Len(watch) < MaxLag
          /\ node' = [copy[t] EXCEPT !.tainted = op[t]]
          /\ watch' = Append(watch, op[t])
          /\ current' = {}
    /\ UNCHANGED <<free, cache>>

(* A request fails for another reason: UpdateNode returns the error, and     *)
(* every caller logs it and goes on.                                         *)
ApiError(t) ==
    /\ pc[t] \in {"get", "update"}
    /\ Return(t)
    /\ current' = current \ {t}
    /\ UNCHANGED <<free, node, cache, watch>>

--------------------------------------------------------------------------------
(* The informer sees the next version of the node. *)
Sync ==
    /\ watch # <<>>
    /\ cache' = Head(watch) /\ watch' = Tail(watch)
    /\ UNCHANGED <<free, node, pc, op, return, copy, current>>

(* Somebody else changes the node, as often as they like: the kubelet's      *)
(* heartbeat, the ENI controller, an operator.  What they write may be what  *)
(* the node said before: it is a new version all the same.  They leave the   *)
(* last place of the bounded watch to the threads.                           *)
Touch ==
    /\ Len(watch) + 1 < MaxLag
    /\ \E other \in Other : node' = [node EXCEPT !.other = other]
    /\ watch' = Append(watch, node.tainted)
    /\ current' = {}
    /\ UNCHANGED <<free, cache, pc, op, return, copy>>

--------------------------------------------------------------------------------
Reconcile(t) == PoolFull(t) \/ PoolNotFull(t) \/ GetNode(t) \/ Conflict(t)
                \/ UpdateNode(t) \/ ApiError(t)

HandlerStep(h) ==
    \/ CheckFree(h) \/ Allocate(h) \/ NoFreeIPs(h) \/ CheckPool(h)
    \/ EvictCheck(h) \/ DeletePod(h) \/ ReturnError(h)

Next ==
    \/ Sync \/ Touch \/ Tick
    \/ \E t \in Thread : Reconcile(t)
    \/ \E h \in Handler : HandlerStep(h) \/ Release(h)

Spec == Init /\ [][Next]_vars

(* Goroutines run, the ticker ticks, the watch delivers, and the API server  *)
(* does not fail the ticker's requests for ever; pods need not be created or *)
(* deleted, nor the node be changed by others.  They may change it for ever, *)
(* but not just before every update of a thread that tries again and again:  *)
(* the code has no bound on its attempts (the TODO in UpdateNode), so that   *)
(* an UpdateNode that can succeed time after time is assumed to succeed.     *)
FairSpec ==
    /\ Spec
    /\ WF_vars(Sync) /\ WF_vars(Tick)
    /\ \A t \in Thread : WF_vars(Reconcile(t))
    /\ SF_vars(GetNode(Ticker))
    /\ \A t \in Thread : SF_vars(UpdateNode(t))
    /\ \A h \in Handler : WF_vars(pc[h] # "start" /\ HandlerStep(h))

--------------------------------------------------------------------------------
(* Properties *)

(* Once pods stop coming and going, the node ends up tainted for good if the *)
(* pool is full and untainted for good if it is not, whatever the stale      *)
(* cache, concurrent handlers and conflicts did on the way (ipCheck).        *)
TaintConverges == TaintWhenNoIPs => <>[](node.tainted <=> free = 0)

(* No update of the taint overwrites what somebody else changed in the node  *)
(* since it was fetched (UpdateNode's conflict loop): nobody but they change *)
(* it.                                                                       *)
OthersChangesKept == [][node'.other # node.other => Touch]_vars

(* An Add call that has begun returns, through taint updates, stale caches,  *)
(* refused and failed requests, an eviction and conflicts, so long as it is  *)
(* not overtaken before every update (see FairSpec).                         *)
AddReturns ==
    \A h \in Handler :
        pc[h] # "start" ~> pc[h] \in {"ok", "error", "released"}
================================================================================
