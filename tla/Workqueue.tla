------------------------------- MODULE Workqueue -------------------------------
(***************************************************************************)
(* The work queue both controllers run on, and the workers that drain it:  *)
(* client-go's queue (a FIFO with a dirty and a processing set, and a      *)
(* condition variable), its delaying and rate limiting layers, and the     *)
(* controllers' enqueueNode, processNextItem and handleErr.  A key is one  *)
(* node name.  The handler itself is left open: it reads the newest cached *)
(* node when it starts, and succeeds or fails.  A delay is left out: what  *)
(* waits in the delaying layer may become ready at any moment.             *)
(***************************************************************************)
EXTENDS Naturals, Sequences, FiniteSets

CONSTANTS Key,         \* node names
          Worker,      \* the worker goroutines
          NoKey,       \* the mark of a worker that holds no key
          MaxEvents    \* bound: watch events per key

ASSUME KeyAssumption == NoKey \notin Key /\ IsFiniteSet(Key)
ASSUME WorkerAssumption == IsFiniteSet(Worker)
ASSUME MaxEventsAssumption == MaxEvents \in Nat

VARIABLES
    queue, dirty, processing, shuttingDown,
    pc,         \* worker: get, parked (in cond.Wait), got, handling, failed,
                \* succeeded, done, exited
    key,        \* the key a worker holds
    delayed,    \* keys in the delaying layer
    failures,   \* the rate limiter's count per key
    events,     \* watch events per key so far
    unseen,     \* keys with an event no handler has looked at yet
    fatal       \* glog.Fatalf has ended the process

vars == <<queue, dirty, processing, shuttingDown, pc, key, delayed, failures,
          events, unseen, fatal>>

(* handleErr gives up at this many requeues. *)
MaxRequeues == 5

TypeOK ==
    /\ queue \in Seq(Key) /\ Len(queue) <= Cardinality(Key)
    /\ dirty \subseteq Key /\ processing \subseteq Key
    /\ shuttingDown \in BOOLEAN /\ fatal \in BOOLEAN
    /\ pc \in [Worker -> {"get", "parked", "got", "handling", "failed",
                          "succeeded", "done", "exited"}]
    /\ key \in [Worker -> Key \union {NoKey}]
    /\ delayed \subseteq Key /\ unseen \subseteq Key
    /\ failures \in [Key -> Nat]
    /\ events \in [Key -> 0..MaxEvents]

Init ==
    /\ queue = <<>> /\ dirty = {} /\ processing = {}
    /\ shuttingDown = FALSE /\ fatal = FALSE
    /\ pc = [w \in Worker |-> "get"]
    /\ key = [w \in Worker |-> NoKey]
    /\ delayed = {} /\ unseen = {}
    /\ failures = [k \in Key |-> 0]
    /\ events = [k \in Key |-> 0]

--------------------------------------------------------------------------------
(* Mutant: nobody is woken. *)
NoSignal(next) == next = pc

(* cond.Signal: one worker that waits, if there is one, goes back to Get's   *)
(* loop.                                                                     *)
Signal(next) ==
    \/ \E w \in Worker : pc[w] = "parked" /\ next = [pc EXCEPT ![w] = "get"]
    \/ (\A w \in Worker : pc[w] # "parked") /\ next = pc

(* Mutants: Add without its check of dirty; without its check of processing. *)
AddDuplicate(k) ==
    IF shuttingDown
      THEN UNCHANGED <<queue, dirty, pc>>
      ELSE dirty' = dirty \union {k} /\ queue' = Append(queue, k) /\ Signal(pc')

AddWhileProcessing(k) ==
    IF shuttingDown \/ k \in dirty
      THEN UNCHANGED <<queue, dirty, pc>>
      ELSE dirty' = dirty \union {k} /\ queue' = Append(queue, k) /\ Signal(pc')

(* Mutant: Add ignores a key that is being processed. *)
AddDropped(k) ==
    IF shuttingDown \/ k \in dirty \/ k \in processing
      THEN UNCHANGED <<queue, dirty, pc>>
      ELSE dirty' = dirty \union {k} /\ queue' = Append(queue, k) /\ Signal(pc')

(* Type.Add, called by the delaying layer alone. *)
AddToQueue(k) ==
    IF shuttingDown \/ k \in dirty
      THEN UNCHANGED <<queue, dirty, pc>>
      ELSE /\ dirty' = dirty \union {k}
           /\ IF k \in processing
                THEN UNCHANGED <<queue, pc>>
                ELSE queue' = Append(queue, k) /\ Signal(pc')

(* AddRateLimited: When counts a failure, then AddAfter. *)
AddRateLimited(k) ==
    /\ failures' = [failures EXCEPT ![k] = @ + 1]
    /\ delayed' = IF shuttingDown THEN delayed ELSE delayed \union {k}

(* The informer reports a change of the node: enqueueNode. *)
Event(k) ==
    /\ ~fatal /\ events[k] < MaxEvents
    /\ events' = [events EXCEPT ![k] = @ + 1]
    /\ unseen' = unseen \union {k}
    /\ AddRateLimited(k)
    /\ UNCHANGED <<queue, dirty, processing, shuttingDown, pc, key, fatal>>

(* waitingLoop finds an entry whose time has come; it ends with ShutDown. *)
Ready(k) ==
    /\ ~fatal /\ k \in delayed /\ ~shuttingDown
    /\ AddToQueue(k)
    /\ delayed' = delayed \ {k}
    /\ UNCHANGED <<processing, shuttingDown, key, failures, events,
                   unseen, fatal>>

--------------------------------------------------------------------------------
(* processNextItem, first part: Get. *)
Get(w) ==
    /\ ~fatal /\ pc[w] = "get" /\ queue # <<>>
    /\ key' = [key EXCEPT ![w] = Head(queue)]
    /\ queue' = Tail(queue)
    /\ processing' = processing \union {Head(queue)}
    /\ dirty' = dirty \ {Head(queue)}
    /\ pc' = [pc EXCEPT ![w] = "got"]
    /\ UNCHANGED <<shuttingDown, delayed, failures, events, unseen, fatal>>

Park(w) ==
    /\ ~fatal /\ pc[w] = "get" /\ queue = <<>> /\ ~shuttingDown
    /\ pc' = [pc EXCEPT ![w] = "parked"]
    /\ UNCHANGED <<queue, dirty, processing, shuttingDown, key, delayed,
                   failures, events, unseen, fatal>>

Quit(w) ==
    /\ ~fatal /\ pc[w] = "get" /\ queue = <<>> /\ shuttingDown
    /\ pc' = [pc EXCEPT ![w] = "exited"]
    /\ UNCHANGED <<queue, dirty, processing, shuttingDown, key, delayed,
                   failures, events, unseen, fatal>>

(* handleNode: it reads the node from the cache, then works on what it read. *)
ReadNode(w) ==
    /\ ~fatal /\ pc[w] = "got"
    /\ unseen' = unseen \ {key[w]}
    /\ pc' = [pc EXCEPT ![w] = "handling"]
    /\ UNCHANGED <<queue, dirty, processing, shuttingDown, key, delayed,
                   failures, events, fatal>>

Handle(w) ==
    /\ ~fatal /\ pc[w] = "handling"
    /\ \/ pc' = [pc EXCEPT ![w] = "succeeded"]
       \/ pc' = [pc EXCEPT ![w] = "failed"]
    /\ UNCHANGED <<queue, dirty, processing, shuttingDown, key, delayed,
                   failures, events, unseen, fatal>>

(* handleErr *)
Forget(k) == failures' = [failures EXCEPT ![k] = 0]

HandleSuccess(w) ==
    /\ ~fatal /\ pc[w] = "succeeded"
    /\ Forget(key[w])
    /\ pc' = [pc EXCEPT ![w] = "done"]
    /\ UNCHANGED <<queue, dirty, processing, shuttingDown, key, delayed,
                   events, unseen, fatal>>

Retry(w) ==
    /\ ~fatal /\ pc[w] = "failed" /\ failures[key[w]] < MaxRequeues
    /\ AddRateLimited(key[w])
    /\ pc' = [pc EXCEPT ![w] = "done"]
    /\ UNCHANGED <<queue, dirty, processing, shuttingDown, key, events,
                   unseen, fatal>>

GiveUp(w) ==
    /\ ~fatal /\ pc[w] = "failed" /\ failures[key[w]] >= MaxRequeues
    /\ Forget(key[w])
    /\ fatal' = TRUE
    /\ UNCHANGED <<queue, dirty, processing, shuttingDown, pc, key, delayed,
                   events, unseen>>

(* Mutant: Done leaves a dirty key where it is. *)
NotRequeued(k) == queue

(* The deferred Done: a key that became dirty meanwhile is queued again. *)
Requeued(k) == IF k \in dirty THEN Append(queue, k) ELSE queue

Done(w) ==
    /\ ~fatal /\ pc[w] = "done"
    /\ processing' = processing \ {key[w]}
    /\ queue' = Requeued(key[w])
    /\ key' = [key EXCEPT ![w] = NoKey]
    /\ IF key[w] \in dirty
         THEN \E next \in {pc} \union {[pc EXCEPT ![v] = "get"] : v \in Worker} :
                 Signal(next) /\ pc' = [next EXCEPT ![w] = "get"]
         ELSE pc' = [pc EXCEPT ![w] = "get"]
    /\ UNCHANGED <<dirty, shuttingDown, delayed, failures, events, unseen,
                   fatal>>

(* Run returns: the queue is shut down and every waiter woken. *)
ShutDown ==
    /\ ~fatal /\ ~shuttingDown
    /\ shuttingDown' = TRUE
    /\ pc' = [w \in Worker |-> IF pc[w] = "parked" THEN "get" ELSE pc[w]]
    /\ UNCHANGED <<queue, dirty, processing, key, delayed, failures, events,
                   unseen, fatal>>

--------------------------------------------------------------------------------
Step(w) == \/ Get(w) \/ Park(w) \/ Quit(w) \/ ReadNode(w) \/ Handle(w)
           \/ HandleSuccess(w) \/ Retry(w) \/ GiveUp(w) \/ Done(w)

Next ==
    \/ ShutDown
    \/ \E k \in Key : Event(k) \/ Ready(k)
    \/ \E w \in Worker : Step(w)

Spec == Init /\ [][Next]_vars

(* The delay of an entry passes, and a worker that can run does run. *)
FairSpec ==
    /\ Spec
    /\ \A k \in Key : WF_vars(Ready(k))
    /\ \A w \in Worker : WF_vars(Step(w))

--------------------------------------------------------------------------------
(* Properties *)

Busy(w) == pc[w] \in {"got", "handling", "failed", "succeeded", "done"}

(* "This allows safe parallel processing because two pods with the same key  *)
(* are never processed in parallel" (controller.go:337-338): Get, Add and    *)
(* Done keep a key with one worker.                                          *)
OneWorkerPerKey ==
    \A v, w \in Worker : Busy(v) /\ Busy(w) /\ key[v] = key[w] => v = w

(* A change of a node no handler has looked at is always on its way to one:  *)
(* in the delaying layer, in the queue, dirty with a worker whose Done will  *)
(* queue it, or with a worker that has yet to look.  It is only lost to a    *)
(* shutdown (AddAfter, waitingLoop, Add, Done).                              *)
NoChangeLost ==
    \A k \in unseen :
        \/ shuttingDown
        \/ k \in delayed
        \/ \E i \in 1..Len(queue) : queue[i] = k
        \/ \E w \in Worker : key[w] = k /\ (k \in dirty \/ pc[w] = "got")

(* Signals suffice: while a worker waits, there are at least as many workers *)
(* in Get's loop as items in the queue (Add's and Done's cond.Signal).       *)
NoLostWakeup ==
    (\E w \in Worker : pc[w] = "parked") =>
        /\ ~shuttingDown
        /\ Len(queue) <= Cardinality({w \in Worker : pc[w] = "get"})

(* What these rest on.  A dirty key waits in the queue, once, unless a worker *)
(* has it; the queue has no other keys.                                      *)
QueueIsDirty ==
    /\ \A i, j \in 1..Len(queue) : queue[i] = queue[j] => i = j
    /\ \A i \in 1..Len(queue) : queue[i] \in dirty \ processing
    /\ \A k \in dirty \ processing : \E i \in 1..Len(queue) : queue[i] = k

(* The keys that are being processed are those the workers hold.             *)
ProcessingIsHeld ==
    /\ \A w \in Worker : IF Busy(w) THEN key[w] \in processing
                                     ELSE key[w] = NoKey
    /\ \A k \in processing : \E w \in Worker : key[w] = k

IInv == QueueIsDirty /\ ProcessingIsHeld /\ OneWorkerPerKey /\ NoChangeLost

(* The keys on their way to a worker, as KeyedWork sees them.                *)
waiting == delayed \union dirty

Work == INSTANCE KeyedWork WITH waiting <- waiting, taken <- key

(* The layers of the queue implement KeyedWork: between AddRateLimited and   *)
(* Get a key moves from layer to layer and never drops out, and only Done    *)
(* makes it available to another worker.                                     *)
ImplementsKeyedWork == Work!Spec

(* Every change is looked at in the end, unless the process stops.           *)
ChangesAreHandled ==
    \A k \in Key : k \in unseen ~> k \notin unseen \/ shuttingDown \/ fatal
================================================================================
