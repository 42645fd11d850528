---------------------------- MODULE WorkqueueProofs ----------------------------
(***************************************************************************)
(* Proofs about Workqueue.tla, for every finite set of keys, any number of *)
(* workers and any number of events: the inductive invariant IInv, and     *)
(* with it that a key is with one worker at a time and that no change and  *)
(* no wakeup is lost.                                                      *)
(***************************************************************************)
EXTENDS Workqueue, FiniteSetTheorems, TLAPS

USE KeyAssumption, MaxEventsAssumption

--------------------------------------------------------------------------------
(* Sequences. *)

(* A queue without repetitions is no longer than there are keys. *)
LEMMA DistinctFits ==
    ASSUME NEW q \in Seq(Key),
           \A i, j \in 1..Len(q) : q[i] = q[j] => i = j
    PROVE  Len(q) <= Cardinality(Key)
<1>1. q \in Injection(1..Len(q), Key)
    <2>1. q \in [1..Len(q) -> Key]
        OBVIOUS
    <2>. QED BY <2>1 DEF Injection, IsInjective
<1>2. Cardinality(1..Len(q)) <= Cardinality(Key)
    BY <1>1, FS_Injection
<1>3. Cardinality(1..Len(q)) = Len(q)
    <2>1. Len(q) \in Nat
        OBVIOUS
    <2>2. Cardinality(1..Len(q)) = IF 1 > Len(q) THEN 0 ELSE Len(q) - 1 + 1
        BY <2>1, FS_Interval
    <2>. QED BY <2>1, <2>2
<1>. QED BY <1>2, <1>3

LEMMA AppendElements ==
    ASSUME NEW q \in Seq(Key), NEW k \in Key
    PROVE  /\ Append(q, k) \in Seq(Key)
           /\ Len(Append(q, k)) = Len(q) + 1
           /\ Append(q, k)[Len(q) + 1] = k
           /\ \A i \in 1..Len(q) : Append(q, k)[i] = q[i]
OBVIOUS

LEMMA TailElements ==
    ASSUME NEW q \in Seq(Key), q # <<>>
    PROVE  /\ Head(q) \in Key /\ Head(q) = q[1]
           /\ Tail(q) \in Seq(Key)
           /\ Len(Tail(q)) = Len(q) - 1 /\ Len(q) \in Nat \ {0}
           /\ \A i \in 1..Len(Tail(q)) : Tail(q)[i] = q[i + 1]
OBVIOUS

(* A signal changes who waits, not who is busy. *)
LEMMA SignalKeepsBusy ==
    ASSUME TypeOK, NEW next, Signal(next)
    PROVE  /\ next \in [Worker -> {"get", "parked", "got", "handling", "failed",
                                   "succeeded", "done", "exited"}]
           /\ \A w \in Worker :
                 \/ next[w] = pc[w]
                 \/ pc[w] = "parked" /\ next[w] = "get"
BY DEF Signal, TypeOK

--------------------------------------------------------------------------------
LEMMA InitInv == Init => TypeOK /\ IInv
<1> SUFFICES ASSUME Init PROVE TypeOK /\ IInv
    OBVIOUS
<1>1. IInv
    BY DEF Init, IInv, QueueIsDirty, ProcessingIsHeld, OneWorkerPerKey,
       NoChangeLost, Busy
<1>2. queue \in Seq(Key) /\ Len(queue) <= Cardinality(Key)
    <2>1. queue \in Seq(Key) /\ Len(queue) = 0
        BY DEF Init
    <2>2. \A i, j \in 1..Len(queue) : queue[i] = queue[j] => i = j
        BY <2>1
    <2>. QED BY <2>1, <2>2, DistinctFits
<1>3. /\ failures \in [Key -> Nat] /\ events \in [Key -> 0..MaxEvents]
      /\ key \in [Worker -> Key \union {NoKey}]
      /\ pc \in [Worker -> {"get", "parked", "got", "handling", "failed",
                            "succeeded", "done", "exited"}]
    BY DEF Init
<1>. QED BY <1>1, <1>2, <1>3 DEF Init, TypeOK

(* Type.Add: the key is dirty then, and waits in the queue unless a worker   *)
(* has it.                                                                   *)
LEMMA AddQueues ==
    ASSUME TypeOK, QueueIsDirty, NEW k \in Key, AddToQueue(k),
           UNCHANGED <<processing, shuttingDown, key>>
    PROVE  /\ queue' \in Seq(Key) /\ dirty' \subseteq Key
           /\ pc' \in [Worker -> {"get", "parked", "got", "handling", "failed",
                                  "succeeded", "done", "exited"}]
           /\ QueueIsDirty'
           /\ dirty \subseteq dirty' /\ (shuttingDown \/ k \in dirty')
           /\ \A w \in Worker : pc'[w] # pc[w] => ~Busy(w) /\ ~Busy(w)'
<1>1. CASE shuttingDown \/ k \in dirty
    <2>1. UNCHANGED <<queue, dirty, pc>>
        BY <1>1 DEF AddToQueue
    <2>2. QueueIsDirty'
        BY <2>1 DEF QueueIsDirty
    <2>3. queue' \in Seq(Key) /\ dirty' \subseteq Key
        BY <2>1 DEF TypeOK
    <2>4. shuttingDown \/ k \in dirty'
        BY <1>1, <2>1
    <2>5. \A w \in Worker : pc'[w] = pc[w]
        BY <2>1
    <2>6. pc' \in [Worker -> {"get", "parked", "got", "handling", "failed",
                             "succeeded", "done", "exited"}]
        BY <2>1 DEF TypeOK
    <2>. QED BY <2>1, <2>2, <2>3, <2>4, <2>5, <2>6
<1>2. CASE ~shuttingDown /\ k \notin dirty /\ k \in processing
    <2>1. dirty' = dirty \union {k} /\ UNCHANGED <<queue, pc>>
        BY <1>2 DEF AddToQueue
    <2>2. QueueIsDirty'
        BY <1>2, <2>1 DEF QueueIsDirty
    <2>. QED BY <2>1, <2>2 DEF TypeOK
<1>3. CASE ~shuttingDown /\ k \notin dirty /\ k \notin processing
    <2>1. /\ dirty' = dirty \union {k} /\ queue' = Append(queue, k)
          /\ Signal(pc')
        BY <1>3 DEF AddToQueue
    <2>2. /\ queue' \in Seq(Key) /\ Len(queue') = Len(queue) + 1
          /\ queue'[Len(queue) + 1] = k /\ Len(queue) \in Nat
          /\ \A i \in 1..Len(queue) : queue'[i] = queue[i]
        BY <2>1, AppendElements DEF TypeOK
    <2>3. \A i \in 1..Len(queue) : queue[i] # k
        BY <1>3 DEF QueueIsDirty
    <2>4. \A i, j \in 1..Len(queue') : queue'[i] = queue'[j] => i = j
        <3> SUFFICES ASSUME NEW i \in 1..Len(queue'), NEW j \in 1..Len(queue'),
                            queue'[i] = queue'[j]
                     PROVE  i = j
            OBVIOUS
        <3>1. CASE i \in 1..Len(queue) /\ j \in 1..Len(queue)
            BY <2>2, <3>1 DEF QueueIsDirty
        <3>2. CASE i = Len(queue) + 1 /\ j = Len(queue) + 1
            BY <3>2
        <3>3. CASE i = Len(queue) + 1 /\ j \in 1..Len(queue)
            BY <2>2, <2>3, <3>3
        <3>4. CASE i \in 1..Len(queue) /\ j = Len(queue) + 1
            BY <2>2, <2>3, <3>4
        <3>. QED BY <2>2, <3>1, <3>2, <3>3, <3>4
    <2>5. \A i \in 1..Len(queue') : queue'[i] \in dirty' \ processing
        BY <1>3, <2>1, <2>2 DEF QueueIsDirty
    <2>6. \A d \in dirty' \ processing :
             \E i \in 1..Len(queue') : queue'[i] = d
        BY <2>1, <2>2 DEF QueueIsDirty
    <2>7. QueueIsDirty'
        BY <2>4, <2>5, <2>6 DEF QueueIsDirty
    <2>8. /\ pc' \in [Worker -> {"get", "parked", "got", "handling", "failed",
                                "succeeded", "done", "exited"}]
          /\ \A w \in Worker : \/ pc'[w] = pc[w]
                               \/ pc[w] = "parked" /\ pc'[w] = "get"
        BY <2>1, SignalKeepsBusy
    <2>9. \A w \in Worker : pc'[w] # pc[w] => ~Busy(w) /\ ~Busy(w)'
        BY <2>8 DEF Busy
    <2>. QED BY <2>1, <2>2, <2>7, <2>8, <2>9 DEF TypeOK
<1>. QED BY <1>1, <1>2, <1>3

--------------------------------------------------------------------------------
(* The steps that leave the queue and the workers' keys alone. *)

LEMMA EventKeeps ==
    ASSUME TypeOK, IInv, NEW k \in Key, Event(k)
    PROVE  TypeOK' /\ IInv'
<1>1. UNCHANGED <<queue, dirty, processing, shuttingDown, pc, key>>
      /\ unseen' = unseen \union {k}
      /\ delayed' = IF shuttingDown THEN delayed ELSE delayed \union {k}
    BY DEF Event, AddRateLimited
<1>2. TypeOK'
    <2>1. failures' \in [Key -> Nat] /\ events' \in [Key -> 0..MaxEvents]
        BY DEF Event, AddRateLimited, TypeOK
    <2>2. delayed' \subseteq Key /\ unseen' \subseteq Key
        BY <1>1 DEF TypeOK
    <2>. QED BY <1>1, <2>1, <2>2 DEF TypeOK, Event
<1>3. QueueIsDirty' /\ ProcessingIsHeld' /\ OneWorkerPerKey'
    BY <1>1 DEF IInv, QueueIsDirty, ProcessingIsHeld, OneWorkerPerKey, Busy
<1>4. NoChangeLost'
    BY <1>1 DEF IInv, NoChangeLost
<1>. QED BY <1>2, <1>3, <1>4 DEF IInv

LEMMA ReadyKeeps ==
    ASSUME TypeOK, IInv, NEW k \in Key, Ready(k)
    PROVE  TypeOK' /\ IInv'
<1>1. UNCHANGED <<processing, shuttingDown, key, failures, events, unseen,
                  fatal>>
      /\ ~shuttingDown /\ delayed' = delayed \ {k} /\ AddToQueue(k)
    BY DEF Ready
<1>2. /\ queue' \in Seq(Key) /\ dirty' \subseteq Key
      /\ pc' \in [Worker -> {"get", "parked", "got", "handling", "failed",
                             "succeeded", "done", "exited"}]
      /\ QueueIsDirty'
      /\ dirty \subseteq dirty' /\ k \in dirty'
      /\ \A w \in Worker : pc'[w] # pc[w] => ~Busy(w) /\ ~Busy(w)'
    BY <1>1, AddQueues DEF IInv
<1>3. TypeOK'
    <2>1. Len(queue') <= Cardinality(Key)
        BY <1>2, DistinctFits DEF QueueIsDirty
    <2>. QED BY <1>1, <1>2, <2>1 DEF TypeOK
<1>4. \A w \in Worker : Busy(w)' <=> Busy(w)
    BY <1>2 DEF Busy
<1>5. ProcessingIsHeld' /\ OneWorkerPerKey'
    BY <1>1, <1>4 DEF IInv, ProcessingIsHeld, OneWorkerPerKey
<1>6. NoChangeLost'
    <2> SUFFICES ASSUME NEW u \in unseen
                 PROVE  \/ u \in delayed'
                        \/ \E i \in 1..Len(queue') : queue'[i] = u
                        \/ \E w \in Worker :
                              key[w] = u /\ (u \in dirty' \/ pc'[w] = "got")
        BY <1>1 DEF NoChangeLost
    <2>1. CASE u \in dirty'
        BY <1>1, <1>2, <2>1 DEF QueueIsDirty, IInv, ProcessingIsHeld
    <2>2. CASE u \in delayed \ {k}
        BY <1>1, <2>2
    <2>3. CASE \E w \in Worker : key[w] = u /\ pc[w] = "got"
        BY <1>2, <2>3 DEF Busy
    <2>4. CASE \E i \in 1..Len(queue) : queue[i] = u
        BY <1>2, <2>1, <2>4 DEF IInv, QueueIsDirty
    <2>. QED BY <1>1, <1>2, <2>1, <2>2, <2>3, <2>4 DEF IInv, NoChangeLost
<1>. QED BY <1>2, <1>3, <1>5, <1>6 DEF IInv

(* A worker without a key stays without. *)
LEMMA WaitingKeeps ==
    ASSUME TypeOK, IInv,
           ShutDown \/ \E w \in Worker : Park(w) \/ Quit(w)
    PROVE  TypeOK' /\ IInv'
<1>1. UNCHANGED <<queue, dirty, processing, key, delayed, failures, events,
                  unseen, fatal>>
    BY DEF ShutDown, Park, Quit
<1>2. /\ pc' \in [Worker -> {"get", "parked", "got", "handling", "failed",
                             "succeeded", "done", "exited"}]
      /\ \A w \in Worker : pc'[w] # pc[w] => ~Busy(w) /\ ~Busy(w)'
    BY DEF ShutDown, Park, Quit, TypeOK, Busy
<1>3. shuttingDown' \in BOOLEAN /\ (shuttingDown => shuttingDown')
    BY DEF ShutDown, Park, Quit, TypeOK
<1>4. \A w \in Worker : Busy(w)' <=> Busy(w)
    BY <1>2 DEF Busy
<1>5. QueueIsDirty' /\ ProcessingIsHeld' /\ OneWorkerPerKey'
    BY <1>1, <1>4 DEF IInv, QueueIsDirty, ProcessingIsHeld, OneWorkerPerKey
<1>6. NoChangeLost'
    BY <1>1, <1>2, <1>3 DEF IInv, NoChangeLost, Busy
<1>. QED BY <1>1, <1>2, <1>3, <1>5, <1>6 DEF TypeOK, IInv

(* A worker goes on with its key. *)
LEMMA WorkKeeps ==
    ASSUME TypeOK, IInv, NEW w \in Worker,
           ReadNode(w) \/ Handle(w) \/ HandleSuccess(w) \/ Retry(w)
    PROVE  TypeOK' /\ IInv'
<1>1. /\ UNCHANGED <<queue, dirty, processing, shuttingDown, key, events, fatal>>
      /\ Busy(w) /\ Busy(w)' /\ pc' = [pc EXCEPT ![w] = pc'[w]]
      /\ pc'[w] \in {"handling", "failed", "succeeded", "done"}
    BY DEF ReadNode, Handle, HandleSuccess, Retry, TypeOK, Busy
<1>2. key[w] \in Key
    BY <1>1 DEF IInv, ProcessingIsHeld, TypeOK
<1>3. failures' \in [Key -> Nat]
    BY <1>2 DEF ReadNode, Handle, HandleSuccess, Retry, TypeOK, Forget,
       AddRateLimited
<1>4. delayed \subseteq delayed' /\ delayed' \subseteq Key
    BY <1>2 DEF ReadNode, Handle, HandleSuccess, Retry, TypeOK, AddRateLimited
<1>5. unseen' \subseteq unseen /\ (pc[w] = "got" => key[w] \notin unseen')
    BY DEF ReadNode, Handle, HandleSuccess, Retry
<1>6. \A v \in Worker : (Busy(v)' <=> Busy(v)) /\ (v # w => pc'[v] = pc[v])
    BY <1>1 DEF TypeOK, Busy
<1>7. QueueIsDirty' /\ ProcessingIsHeld' /\ OneWorkerPerKey'
    BY <1>1, <1>6 DEF IInv, QueueIsDirty, ProcessingIsHeld, OneWorkerPerKey
<1>8. NoChangeLost'
    BY <1>1, <1>4, <1>5, <1>6 DEF IInv, NoChangeLost
<1>9. pc' \in [Worker -> {"get", "parked", "got", "handling", "failed",
                         "succeeded", "done", "exited"}]
    BY <1>1 DEF TypeOK
<1>. QED BY <1>1, <1>3, <1>4, <1>5, <1>7, <1>8, <1>9 DEF TypeOK, IInv

LEMMA GiveUpKeeps ==
    ASSUME TypeOK, IInv, NEW w \in Worker, GiveUp(w)
    PROVE  TypeOK' /\ IInv'
<1>1. UNCHANGED <<queue, dirty, processing, shuttingDown, pc, key, delayed,
                  events, unseen>>
      /\ fatal' = TRUE
    BY DEF GiveUp
<1>2. failures' \in [Key -> Nat]
    BY DEF GiveUp, Forget, TypeOK
<1>3. IInv'
    BY <1>1 DEF IInv, QueueIsDirty, ProcessingIsHeld, OneWorkerPerKey,
       NoChangeLost, Busy
<1>. QED BY <1>1, <1>2, <1>3 DEF TypeOK

--------------------------------------------------------------------------------
(* Get takes the head of the queue, which no worker has. *)
LEMMA GetKeeps ==
    ASSUME TypeOK, IInv, NEW w \in Worker, Get(w)
    PROVE  TypeOK' /\ IInv'
<1> DEFINE k == Head(queue)
<1>1. /\ key' = [key EXCEPT ![w] = k] /\ queue' = Tail(queue)
      /\ processing' = processing \union {k} /\ dirty' = dirty \ {k}
      /\ pc' = [pc EXCEPT ![w] = "got"] /\ pc[w] = "get" /\ queue # <<>>
      /\ UNCHANGED <<shuttingDown, delayed, failures, events, unseen, fatal>>
    BY DEF Get
<1>2. /\ k \in Key /\ k = queue[1]
      /\ queue' \in Seq(Key) /\ Len(queue) \in Nat \ {0}
      /\ Len(queue') = Len(queue) - 1
      /\ \A i \in 1..Len(queue') : queue'[i] = queue[i + 1]
    BY <1>1, TailElements DEF TypeOK
<1>3. k \in dirty /\ k \notin processing
    BY <1>2 DEF IInv, QueueIsDirty
<1>4. \A i \in 2..Len(queue) : queue[i] # k
    BY <1>2 DEF IInv, QueueIsDirty
<1>5. QueueIsDirty'
    <2>1. \A i, j \in 1..Len(queue') : queue'[i] = queue'[j] => i = j
        <3> SUFFICES ASSUME NEW i \in 1..Len(queue'), NEW j \in 1..Len(queue'),
                            queue'[i] = queue'[j]
                     PROVE  i = j
            OBVIOUS
        <3>1. i + 1 \in 1..Len(queue) /\ j + 1 \in 1..Len(queue)
              /\ queue[i + 1] = queue[j + 1]
            BY <1>2
        <3>2. i + 1 = j + 1
            BY <3>1 DEF IInv, QueueIsDirty
        <3>. QED BY <3>2
    <2>2. \A i \in 1..Len(queue') : queue'[i] \in dirty' \ processing'
        <3> SUFFICES ASSUME NEW i \in 1..Len(queue')
                     PROVE  queue'[i] \in dirty' \ processing'
            OBVIOUS
        <3>1. i + 1 \in 2..Len(queue) /\ i + 1 \in 1..Len(queue)
              /\ queue'[i] = queue[i + 1]
            BY <1>2
        <3>. QED BY <1>1, <1>4, <3>1 DEF IInv, QueueIsDirty
    <2>3. ASSUME NEW d \in dirty' \ processing'
          PROVE  \E i \in 1..Len(queue') : queue'[i] = d
        <3>1. PICK j \in 1..Len(queue) : queue[j] = d
            BY <1>1, <2>3 DEF IInv, QueueIsDirty
        <3>2. j # 1
            BY <1>1, <1>2, <2>3, <3>1
        <3>3. j - 1 \in 1..Len(queue') /\ queue'[j - 1] = queue[j - 1 + 1]
            BY <1>2, <3>2
        <3>. QED BY <3>1, <3>3
    <2>. QED BY <2>1, <2>2, <2>3 DEF QueueIsDirty
<1>6. TypeOK'
    <2>1. Len(queue') <= Cardinality(Key)
        BY <1>2, <1>5, DistinctFits DEF QueueIsDirty
    <2>2. /\ pc' \in [Worker -> {"get", "parked", "got", "handling", "failed",
                                "succeeded", "done", "exited"}]
          /\ key' \in [Worker -> Key \union {NoKey}]
        BY <1>1, <1>2 DEF TypeOK
    <2>. QED BY <1>1, <1>2, <2>1, <2>2 DEF TypeOK
<1>7. /\ ~Busy(w) /\ Busy(w)' /\ key'[w] = k /\ pc'[w] = "got"
      /\ \A v \in Worker \ {w} : /\ Busy(v)' <=> Busy(v)
                                 /\ key'[v] = key[v] /\ pc'[v] = pc[v]
    BY <1>1 DEF Busy, TypeOK
<1>8. \A v \in Worker : key[v] # k
    BY <1>2, <1>3 DEF IInv, ProcessingIsHeld
<1>9. ProcessingIsHeld' /\ OneWorkerPerKey'
    BY <1>1, <1>2, <1>7, <1>8 DEF IInv, ProcessingIsHeld, OneWorkerPerKey, TypeOK
<1>10. NoChangeLost'
    <2> SUFFICES ASSUME NEW u \in unseen, u # k, ~shuttingDown, u \notin delayed
                 PROVE  \/ \E i \in 1..Len(queue') : queue'[i] = u
                        \/ \E v \in Worker :
                              key'[v] = u /\ (u \in dirty' \/ pc'[v] = "got")
        BY <1>1, <1>7 DEF NoChangeLost
    <2>1. CASE \E i \in 1..Len(queue) : queue[i] = u
        <3>1. u \in dirty' \ processing'
            BY <1>1, <2>1 DEF IInv, QueueIsDirty
        <3>. QED BY <1>5, <3>1 DEF QueueIsDirty
    <2>2. CASE \E v \in Worker : key[v] = u /\ (u \in dirty \/ pc[v] = "got")
        <3>1. PICK v \in Worker : key[v] = u /\ (u \in dirty \/ pc[v] = "got")
            BY <2>2
        <3>2. v # w
            <4>1. key[w] = NoKey /\ u \in Key
                BY <1>7 DEF IInv, ProcessingIsHeld, TypeOK
            <4>. QED BY <3>1, <4>1
        <3>. QED BY <1>1, <1>7, <3>1, <3>2
    <2>. QED BY <2>1, <2>2 DEF IInv, NoChangeLost
<1>. QED BY <1>5, <1>6, <1>9, <1>10 DEF IInv

(* Done queues the key if it has become dirty, and gives it up. *)
LEMMA DoneKeeps ==
    ASSUME TypeOK, IInv, NEW w \in Worker, Done(w)
    PROVE  TypeOK' /\ IInv'
<1> DEFINE k == key[w]
<1>1. /\ processing' = processing \ {k} /\ queue' = Requeued(k)
      /\ key' = [key EXCEPT ![w] = NoKey] /\ pc[w] = "done"
      /\ UNCHANGED <<dirty, shuttingDown, delayed, failures, events, unseen,
                     fatal>>
    BY DEF Done
<1>2. k \in Key /\ k \in processing
    BY <1>1 DEF IInv, ProcessingIsHeld, Busy, TypeOK
<1>3. /\ pc' \in [Worker -> {"get", "parked", "got", "handling", "failed",
                             "succeeded", "done", "exited"}]
      /\ pc'[w] = "get"
      /\ \A v \in Worker \ {w} : pc'[v] # pc[v] => ~Busy(v) /\ ~Busy(v)'
    <2>1. PICK next : /\ next = pc \/ Signal(next)
                      /\ pc' = [next EXCEPT ![w] = "get"]
        BY DEF Done
    <2>2. /\ next \in [Worker -> {"get", "parked", "got", "handling", "failed",
                                 "succeeded", "done", "exited"}]
          /\ \A v \in Worker : \/ next[v] = pc[v]
                               \/ pc[v] = "parked" /\ next[v] = "get"
        BY <2>1, SignalKeepsBusy DEF TypeOK
    <2>. QED BY <2>1, <2>2 DEF Busy
<1>4. /\ Busy(w) /\ ~Busy(w)' /\ key'[w] = NoKey
      /\ \A v \in Worker \ {w} : (Busy(v)' <=> Busy(v)) /\ key'[v] = key[v]
    BY <1>1, <1>3 DEF Busy, TypeOK
<1>5. queue' \in Seq(Key) /\ QueueIsDirty'
    <2>1. CASE k \notin dirty
        <3>1. queue' = queue
            BY <1>1, <2>1 DEF Requeued
        <3>. QED BY <1>1, <2>1, <3>1 DEF IInv, QueueIsDirty, TypeOK
    <2>2. CASE k \in dirty
        <3>1. /\ queue' \in Seq(Key) /\ Len(queue') = Len(queue) + 1
              /\ queue'[Len(queue) + 1] = k /\ Len(queue) \in Nat
              /\ \A i \in 1..Len(queue) : queue'[i] = queue[i]
            BY <1>1, <1>2, <2>2, AppendElements DEF Requeued, TypeOK
        <3>2. \A i \in 1..Len(queue) : queue[i] # k
            BY <1>2 DEF IInv, QueueIsDirty
        <3>3. \A i, j \in 1..Len(queue') : queue'[i] = queue'[j] => i = j
            <4> SUFFICES ASSUME NEW i \in 1..Len(queue'),
                                NEW j \in 1..Len(queue'), queue'[i] = queue'[j]
                         PROVE  i = j
                OBVIOUS
            <4>1. CASE i \in 1..Len(queue) /\ j \in 1..Len(queue)
                BY <3>1, <4>1 DEF IInv, QueueIsDirty
            <4>2. CASE i = Len(queue) + 1 /\ j = Len(queue) + 1
                BY <4>2
            <4>3. CASE i = Len(queue) + 1 /\ j \in 1..Len(queue)
                BY <3>1, <3>2, <4>3
            <4>4. CASE i \in 1..Len(queue) /\ j = Len(queue) + 1
                BY <3>1, <3>2, <4>4
            <4>. QED BY <3>1, <4>1, <4>2, <4>3, <4>4
        <3>4. \A i \in 1..Len(queue') : queue'[i] \in dirty' \ processing'
            BY <1>1, <2>2, <3>1 DEF IInv, QueueIsDirty
        <3>5. \A d \in dirty' \ processing' :
                 \E i \in 1..Len(queue') : queue'[i] = d
            BY <1>1, <3>1 DEF IInv, QueueIsDirty
        <3>. QED BY <3>1, <3>3, <3>4, <3>5 DEF QueueIsDirty
    <2>. QED BY <2>1, <2>2
<1>6. TypeOK'
    <2>1. Len(queue') <= Cardinality(Key)
        BY <1>5, DistinctFits DEF QueueIsDirty
    <2>2. key' \in [Worker -> Key \union {NoKey}]
        BY <1>1 DEF TypeOK
    <2>. QED BY <1>1, <1>3, <1>5, <2>1, <2>2 DEF TypeOK
<1>7. \A v \in Worker \ {w} : Busy(v) => key[v] # k
    BY <1>4 DEF IInv, OneWorkerPerKey
<1>8. ProcessingIsHeld'
    <2>1. \A v \in Worker : IF Busy(v)' THEN key'[v] \in processing'
                                        ELSE key'[v] = NoKey
        BY <1>1, <1>4, <1>7 DEF IInv, ProcessingIsHeld
    <2>2. ASSUME NEW p \in processing' PROVE \E v \in Worker : key'[v] = p
        <3>1. PICK v \in Worker : key[v] = p
            BY <1>1, <2>2 DEF IInv, ProcessingIsHeld
        <3>. QED BY <1>1, <1>4, <2>2, <3>1
    <2>. QED BY <2>1, <2>2 DEF ProcessingIsHeld
<1>9. OneWorkerPerKey'
    BY <1>4 DEF IInv, OneWorkerPerKey
<1>10. NoChangeLost'
    <2> SUFFICES ASSUME NEW u \in unseen, ~shuttingDown, u \notin delayed
                 PROVE  \/ \E i \in 1..Len(queue') : queue'[i] = u
                        \/ \E v \in Worker :
                              key'[v] = u /\ (u \in dirty' \/ pc'[v] = "got")
        BY <1>1 DEF NoChangeLost
    <2>1. CASE u \in dirty /\ u \notin processing'
        BY <1>1, <1>5, <2>1 DEF QueueIsDirty
    <2>2. CASE u \in dirty /\ u \in processing'
        BY <1>1, <1>8, <2>2 DEF ProcessingIsHeld
    <2>3. CASE \E v \in Worker : key[v] = u /\ pc[v] = "got"
        BY <1>1, <1>3, <1>4, <2>3 DEF Busy
    <2>4. CASE \E i \in 1..Len(queue) : queue[i] = u
        BY <2>1, <2>2, <2>4 DEF IInv, QueueIsDirty
    <2>. QED BY <2>1, <2>2, <2>3, <2>4 DEF IInv, NoChangeLost
<1>. QED BY <1>5, <1>6, <1>8, <1>9, <1>10 DEF IInv

--------------------------------------------------------------------------------
(* The types of the queue's state, and the inductive invariant: a dirty key  *)
(* waits in the queue, once, unless a worker has it, and the keys being      *)
(* processed are those the workers hold.                                     *)
THEOREM Inductive == Spec => [](TypeOK /\ IInv)
<1>1. TypeOK /\ IInv /\ Next => TypeOK' /\ IInv'
    BY EventKeeps, ReadyKeeps, WaitingKeeps, WorkKeeps, GiveUpKeeps, GetKeeps,
       DoneKeeps DEF Next, Step
<1>2. TypeOK /\ IInv /\ UNCHANGED vars => TypeOK' /\ IInv'
    <2> SUFFICES ASSUME TypeOK, IInv, UNCHANGED vars PROVE TypeOK' /\ IInv'
        OBVIOUS
    <2>1. TypeOK' /\ QueueIsDirty'
        BY DEF vars, TypeOK, IInv, QueueIsDirty
    <2>2. ProcessingIsHeld' /\ OneWorkerPerKey' /\ NoChangeLost'
        BY DEF vars, IInv, ProcessingIsHeld, OneWorkerPerKey, NoChangeLost,
           Busy
    <2>. QED BY <2>1, <2>2 DEF IInv
<1>. QED BY <1>1, <1>2, InitInv, PTL DEF Spec

(* The queue, its sets and the workers; the queue never outgrows the keys.   *)
THEOREM TypeCorrect == Spec => []TypeOK
BY Inductive, PTL

(* A node is handled by one worker at a time, for any number of workers.     *)
THEOREM KeysAreExclusive == Spec => []OneWorkerPerKey
<1>1. IInv => OneWorkerPerKey
    BY DEF IInv
<1>. QED BY <1>1, Inductive, PTL

(* A change no handler has looked at is on its way to one, for any number of *)
(* nodes, workers and changes.                                               *)
THEOREM ChangesAreKept == Spec => []NoChangeLost
<1>1. IInv => NoChangeLost
    BY DEF IInv
<1>. QED BY <1>1, Inductive, PTL

--------------------------------------------------------------------------------
(* Wakeups. *)
InGet(pcs) == {w \in Worker : pcs[w] = "get"}

LEMMA InGetIsFinite ==
    ASSUME NEW pcs
    PROVE  IsFiniteSet(InGet(pcs)) /\ Cardinality(InGet(pcs)) \in Nat
<1>1. InGet(pcs) \subseteq Worker
    BY DEF InGet
<1>. QED BY <1>1, WorkerAssumption, FS_Subset, FS_CardinalityType

(* One worker more, or one worker less, in Get's loop. *)
LEMMA OneMore ==
    ASSUME NEW pcs, NEW next, NEW w \in Worker,
           InGet(next) = InGet(pcs) \union {w}, w \notin InGet(pcs)
    PROVE  Cardinality(InGet(next)) = Cardinality(InGet(pcs)) + 1
BY InGetIsFinite, FS_AddElement

LEMMA OneLess ==
    ASSUME NEW pcs, NEW next, NEW w \in Worker,
           InGet(next) = InGet(pcs) \ {w}, w \in InGet(pcs)
    PROVE  Cardinality(InGet(next)) = Cardinality(InGet(pcs)) - 1
BY InGetIsFinite, FS_RemoveElement

Awake(pcs, n, down) ==
    (\E w \in Worker : pcs[w] = "parked") =>
        ~down /\ n <= Cardinality(InGet(pcs))

LEMMA AwakeIsNoLostWakeup ==
    /\ NoLostWakeup <=> Awake(pc, Len(queue), shuttingDown)
    /\ NoLostWakeup' <=> Awake(pc', Len(queue'), shuttingDown')
BY DEF NoLostWakeup, Awake, InGet

(* A signal makes up for one item more in the queue. *)
LEMMA SignalSuffices ==
    ASSUME TypeOK, NoLostWakeup, NEW next, Signal(next)
    PROVE  Awake(next, Len(queue) + 1, shuttingDown)
<1>1. CASE (\A w \in Worker : pc[w] # "parked") /\ next = pc
    BY <1>1 DEF Awake
<1>2. ASSUME NEW w \in Worker, pc[w] = "parked", next = [pc EXCEPT ![w] = "get"]
      PROVE  Awake(next, Len(queue) + 1, shuttingDown)
    <2>1. InGet(next) = InGet(pc) \union {w} /\ w \notin InGet(pc)
        BY <1>2 DEF InGet, TypeOK
    <2>2. Cardinality(InGet(next)) = Cardinality(InGet(pc)) + 1
        BY <2>1, OneMore
    <2>3. ~shuttingDown /\ Len(queue) <= Cardinality(InGet(pc))
        BY <1>2, AwakeIsNoLostWakeup DEF Awake
    <2>4. Len(queue) \in Nat
        BY DEF TypeOK
    <2>. QED BY <2>2, <2>3, <2>4, InGetIsFinite DEF Awake
<1>. QED BY <1>1, <1>2 DEF Signal

(* A step that moves a worker outside Get changes nothing of it.             *)
LEMMA OutsideGet ==
    ASSUME TypeOK, NoLostWakeup, NEW w \in Worker,
           NEW to \in {"handling", "failed", "succeeded", "done"},
           pc[w] \notin {"get", "parked"}, pc' = [pc EXCEPT ![w] = to],
           UNCHANGED <<queue, shuttingDown>>
    PROVE  NoLostWakeup'
<1>1. InGet(pc') = InGet(pc)
    BY DEF InGet, TypeOK
<1>2. \A v \in Worker : pc'[v] = "parked" => pc[v] = "parked"
    BY DEF TypeOK
<1>. QED BY <1>1, <1>2, AwakeIsNoLostWakeup DEF Awake

LEMMA GetWakes ==
    ASSUME TypeOK, NoLostWakeup, NEW w \in Worker, Get(w)
    PROVE  NoLostWakeup'
<1>1. /\ w \in InGet(pc) /\ pc' = [pc EXCEPT ![w] = "got"]
      /\ queue # <<>> /\ queue' = Tail(queue) /\ UNCHANGED shuttingDown
    BY DEF Get, InGet
<1>2. InGet(pc') = InGet(pc) \ {w}
    BY <1>1 DEF InGet, TypeOK
<1>3. Cardinality(InGet(pc')) = Cardinality(InGet(pc)) - 1
    BY <1>1, <1>2, OneLess
<1>4. Len(queue') = Len(queue) - 1 /\ Len(queue) \in Nat
    BY <1>1, TailElements DEF TypeOK
<1>5. \A v \in Worker : pc'[v] = "parked" => pc[v] = "parked"
    BY <1>1 DEF TypeOK
<1>. QED BY <1>1, <1>3, <1>4, <1>5, AwakeIsNoLostWakeup, InGetIsFinite
         DEF Awake

LEMMA WaitingWakes ==
    ASSUME TypeOK, NoLostWakeup, NEW w \in Worker, Park(w) \/ Quit(w)
    PROVE  NoLostWakeup'
<1>1. CASE Park(w)
    <2>1. Len(queue') = 0 /\ ~shuttingDown'
        BY <1>1 DEF Park
    <2>. QED BY <2>1, AwakeIsNoLostWakeup, InGetIsFinite DEF Awake
<1>2. CASE Quit(w)
    <2>1. \A v \in Worker : pc[v] # "parked"
        BY <1>2 DEF Quit, NoLostWakeup
    <2>2. \A v \in Worker : pc'[v] # "parked"
        BY <1>2, <2>1 DEF Quit, TypeOK
    <2>. QED BY <2>2 DEF NoLostWakeup
<1>. QED BY <1>1, <1>2

LEMMA WorkWakes ==
    ASSUME TypeOK, NoLostWakeup, NEW w \in Worker,
           \/ ReadNode(w) \/ Handle(w) \/ HandleSuccess(w) \/ Retry(w)
           \/ GiveUp(w)
    PROVE  NoLostWakeup'
<1>1. CASE ReadNode(w) \/ Handle(w) \/ HandleSuccess(w) \/ Retry(w)
    BY <1>1, OutsideGet DEF ReadNode, Handle, HandleSuccess, Retry
<1>2. CASE GiveUp(w)
    BY <1>2 DEF GiveUp, NoLostWakeup
<1>. QED BY <1>1, <1>2

(* The worker that is done is back in Get's loop, and one that waits is      *)
(* woken for the key that is queued again.                                   *)
LEMMA DoneWakes ==
    ASSUME TypeOK, NoLostWakeup, NEW w \in Worker, Done(w)
    PROVE  NoLostWakeup'
<1>1. pc[w] = "done" /\ UNCHANGED shuttingDown /\ queue' = Requeued(key[w])
    BY DEF Done
<1>2. queue \in Seq(Key) /\ Len(queue) \in Nat
    BY DEF TypeOK
<1>3. ASSUME NEW next \in [Worker -> {"get", "parked", "got", "handling",
                                      "failed", "succeeded", "done", "exited"}],
             next[w] = "done", pc' = [next EXCEPT ![w] = "get"],
             Awake(next, Len(queue'), shuttingDown)
      PROVE  NoLostWakeup'
    <2>1. InGet(pc') = InGet(next) \union {w} /\ w \notin InGet(next)
        BY <1>3 DEF InGet
    <2>2. Cardinality(InGet(pc')) = Cardinality(InGet(next)) + 1
        BY <2>1, OneMore
    <2>3. \A v \in Worker : pc'[v] = "parked" => next[v] = "parked"
        BY <1>3
    <2>4. Len(queue') \in Nat
        BY <1>1, <1>2, AppendElements DEF Requeued, TypeOK
    <2>. QED BY <1>1, <1>3, <2>2, <2>3, <2>4, AwakeIsNoLostWakeup,
                InGetIsFinite DEF Awake
<1>4. CASE key[w] \in dirty
    <2>1. PICK next : Signal(next) /\ pc' = [next EXCEPT ![w] = "get"]
        BY <1>4 DEF Done
    <2>2. /\ next[w] = "done"
          /\ next \in [Worker -> {"get", "parked", "got", "handling",
                                   "failed", "succeeded", "done", "exited"}]
        BY <1>1, <2>1, SignalKeepsBusy
    <2>3. Len(queue') = Len(queue) + 1
        BY <1>1, <1>2, <1>4, AppendElements DEF Requeued, TypeOK
    <2>. QED BY <1>3, <2>1, <2>2, <2>3, SignalSuffices
<1>5. CASE key[w] \notin dirty
    <2>1. queue' = queue /\ pc' = [pc EXCEPT ![w] = "get"]
        BY <1>1, <1>5 DEF Done, Requeued
    <2>. QED BY <1>1, <1>3, <2>1, AwakeIsNoLostWakeup DEF TypeOK
<1>. QED BY <1>4, <1>5

LEMMA ReadyWakes ==
    ASSUME TypeOK, NoLostWakeup, NEW k \in Key, Ready(k)
    PROVE  NoLostWakeup'
<1>1. UNCHANGED shuttingDown /\ AddToQueue(k) /\ queue \in Seq(Key)
    BY DEF Ready, TypeOK
<1>2. CASE UNCHANGED <<queue, pc>>
    BY <1>1, <1>2 DEF NoLostWakeup
<1>3. CASE queue' = Append(queue, k) /\ Signal(pc')
    <2>1. Len(queue') = Len(queue) + 1
        BY <1>1, <1>3, AppendElements
    <2>. QED BY <1>1, <1>3, <2>1, SignalSuffices, AwakeIsNoLostWakeup
<1>. QED BY <1>1, <1>2, <1>3 DEF AddToQueue

(* While a worker waits there are as many in Get's loop as there are items:  *)
(* Add and Done signal once for each, and ShutDown wakes everyone.           *)
THEOREM WakeupsAreKept == Spec => []NoLostWakeup
<1>1. Init => NoLostWakeup
    BY DEF Init, NoLostWakeup
<1>2. ASSUME TypeOK, NoLostWakeup, Next PROVE NoLostWakeup'
    <2>1. ASSUME NEW k \in Key, Event(k) PROVE NoLostWakeup'
        BY <1>2, <2>1 DEF Event, NoLostWakeup
    <2>2. CASE ShutDown
        <3>1. \A w \in Worker : pc'[w] # "parked"
            BY <2>2 DEF ShutDown
        <3>. QED BY <3>1 DEF NoLostWakeup
    <2>. QED BY <1>2, <2>1, <2>2, ReadyWakes, GetWakes, WaitingWakes,
                WorkWakes, DoneWakes DEF Next, Step
<1>3. NoLostWakeup /\ UNCHANGED vars => NoLostWakeup'
    BY DEF vars, NoLostWakeup
<1>. QED BY <1>1, <1>2, <1>3, TypeCorrect, PTL DEF Spec

--------------------------------------------------------------------------------
(* The refinement of KeyedWork. *)

LEMMA PutRefines ==
    ASSUME TypeOK, NEW k \in Key, AddRateLimited(k), UNCHANGED <<dirty, key>>
    PROVE  Work!Next \/ UNCHANGED Work!vars
<1>1. waiting' = waiting \/ waiting' = waiting \union {k}
    BY DEF AddRateLimited, waiting
<1>. QED BY <1>1 DEF Work!Next, Work!Put, Work!vars

LEMMA ReadyRefines ==
    ASSUME TypeOK, NEW k \in Key, Ready(k)
    PROVE  UNCHANGED Work!vars
<1>1. /\ k \in delayed /\ delayed' = delayed \ {k} /\ key' = key
      /\ dirty' = dirty \union {k}
    BY DEF Ready, AddToQueue
<1>2. waiting' = waiting
    BY <1>1 DEF waiting
<1>. QED BY <1>1, <1>2 DEF Work!vars

LEMMA GetRefines ==
    ASSUME TypeOK, IInv, NEW w \in Worker, Get(w)
    PROVE  Work!Next
<1> DEFINE k == Head(queue)
<1>1. /\ key' = [key EXCEPT ![w] = k] /\ pc[w] = "get" /\ queue # <<>>
      /\ dirty' = dirty \ {k} /\ delayed' = delayed
    BY DEF Get
<1>2. k \in Key /\ k = queue[1] /\ Len(queue) \in Nat \ {0}
    BY <1>1, TailElements DEF TypeOK
<1>3. k \in dirty /\ k \notin processing
    BY <1>2 DEF IInv, QueueIsDirty
<1>4. key[w] = NoKey /\ \A v \in Worker : key[v] # k
    BY <1>1, <1>2, <1>3 DEF IInv, ProcessingIsHeld, Busy
<1>5. k \in waiting /\ waiting' \in {waiting, waiting \ {k}}
    BY <1>1, <1>3 DEF waiting
<1>. QED BY <1>1, <1>2, <1>4, <1>5 DEF Work!Next, Work!Take

LEMMA DoneRefines ==
    ASSUME TypeOK, IInv, NEW w \in Worker, Done(w)
    PROVE  Work!Next
<1>1. /\ key' = [key EXCEPT ![w] = NoKey] /\ pc[w] = "done"
      /\ UNCHANGED <<dirty, delayed>>
    BY DEF Done
<1>2. key[w] # NoKey
    BY <1>1 DEF IInv, ProcessingIsHeld, Busy, TypeOK
<1>. QED BY <1>1, <1>2 DEF Work!Next, Work!Finish, waiting

(* The work queue with its delaying and rate limiting layers, its sets and   *)
(* its workers implements KeyedWork: no layer drops a key on its way to a    *)
(* worker, and a key changes hands only through Done.                        *)
THEOREM Implements == Spec => ImplementsKeyedWork
<1>1. Init => Work!Init
    BY DEF Init, Work!Init, waiting
<1>2. TypeOK /\ IInv /\ [Next]_vars => [Work!Next]_Work!vars
    <2> SUFFICES ASSUME TypeOK, IInv, [Next]_vars
                 PROVE  Work!Next \/ UNCHANGED Work!vars
        OBVIOUS
    <2>1. CASE UNCHANGED vars \/ ShutDown
        BY <2>1 DEF vars, ShutDown, Work!vars, waiting
    <2>2. ASSUME NEW k \in Key, Event(k) PROVE Work!Next \/ UNCHANGED Work!vars
        BY <2>2, PutRefines DEF Event
    <2>3. ASSUME NEW k \in Key, Ready(k) PROVE UNCHANGED Work!vars
        BY <2>3, ReadyRefines
    <2>4. ASSUME NEW w \in Worker, Step(w)
          PROVE  Work!Next \/ UNCHANGED Work!vars
        <3>1. CASE Park(w) \/ Quit(w) \/ ReadNode(w) \/ Handle(w)
                   \/ HandleSuccess(w) \/ GiveUp(w)
            BY <3>1 DEF Park, Quit, ReadNode, Handle, HandleSuccess, GiveUp,
               Work!vars, waiting
        <3>2. CASE Retry(w)
            <4>1. key[w] \in Key
                BY <3>2 DEF Retry, IInv, ProcessingIsHeld, Busy, TypeOK
            <4>. QED BY <3>2, <4>1, PutRefines DEF Retry
        <3>. QED BY <2>4, <3>1, <3>2, GetRefines, DoneRefines DEF Step
    <2>. QED BY <2>1, <2>2, <2>3, <2>4 DEF Next
<1>. QED BY <1>1, <1>2, TypeCorrect, Inductive, PTL
         DEF Spec, Work!Spec, ImplementsKeyedWork
================================================================================
