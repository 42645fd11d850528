---------------------------- MODULE ShutdownProofs -----------------------------
(***************************************************************************)
(* Proofs about Shutdown.tla, for any number of calls and signals: its     *)
(* types, that no worker handles a node before the caches have synced,     *)
(* that the gRPC server's calls are over before the group stops what they  *)
(* use, and that whatever the group sends to an actor has a receiver.      *)
(***************************************************************************)
EXTENDS Shutdown, TLAPS

USE BoundsAssumption

(* A controller starts its workers after its caches have synced.             *)
SyncedFirst ==
    /\ \A a \in Controllers :
          actor[a] \in {"synced", "running"} => synced
    /\ \A a \in Controllers : \A w \in Workers(a) :
          worker[a][w] # "none" => synced

(* A process without the gRPC server has no calls; in the other, the server  *)
(* drains from its interrupt on, and has drained when that returns.          *)
Served == "ipam" \in Members

Drained ==
    /\ ~Served => actor["ipam"] = "new" /\ rpcs = 0
    /\ Served /\ main = "interrupting" /\ at = 2 /\ phase = "send" => draining
    /\ Served /\ main = "interrupting" /\ at > 2 => draining /\ rpcs = 0
    /\ main \in {"joining", "returned"} => rpcs = 0 /\ (Served => draining)

(* There is an entry for the workers of each controller and for no other.    *)
WorkersAreTotal == worker = [a \in Controllers |-> worker[a]]

Inv == TypeOK /\ WorkersAreTotal /\ SyncedFirst /\ Drained

--------------------------------------------------------------------------------
(* The two groups. *)
LEMMA Groups ==
    ASSUME group \in {VPCNetDaemon, ENIController}
    PROVE  /\ Len(group) \in Nat /\ Len(group) > 2
           /\ \A k \in 1..Len(group) : group[k] \in Actors
           /\ Served => /\ group[2] = "ipam"
                        /\ \A k \in 1..Len(group) :
                              /\ group[k] = "ipam" => k = 2
                              /\ group[k] \in Stoppable => k > 2
           /\ Served <=> group = VPCNetDaemon
<1>1. CASE group = VPCNetDaemon
    <2>1. Len(group) = 5 /\ group[1] = "signal" /\ group[2] = "ipam"
          /\ group[3] = "interfaces" /\ group[4] = "reconciler"
          /\ group[5] = "informer"
        BY <1>1 DEF VPCNetDaemon
    <2>2. \A k \in 1..Len(group) : k \in {1, 2, 3, 4, 5}
        BY <2>1
    <2>3. Served
        BY <2>1 DEF Served, Members
    <2>. QED BY <1>1, <2>1, <2>2, <2>3
             DEF Actors, Stoppable, Controllers
<1>2. CASE group = ENIController
    <2>1. Len(group) = 3 /\ group[1] = "signal" /\ group[2] = "informer"
          /\ group[3] = "enis"
        BY <1>2 DEF ENIController
    <2>2. \A k \in 1..Len(group) : k \in {1, 2, 3}
        BY <2>1
    <2>3. ~Served /\ group # VPCNetDaemon
        BY <2>1, <2>2 DEF Served, Members, VPCNetDaemon
    <2>. QED BY <2>1, <2>2, <2>3 DEF Actors, Stoppable, Controllers
<1>. QED BY <1>1, <1>2

LEMMA InitInv == Init => Inv
<1> SUFFICES ASSUME Init PROVE Inv
    OBVIOUS
<1>1. TypeOK
    <2>1. at \in 1..Len(group)
        BY Groups DEF Init
    <2>2. \A a \in Controllers :
             worker[a] \in [Workers(a) -> {"none", "starting", "idle",
                                          "handling", "gone"}]
        BY DEF Init
    <2>3. /\ signals \in 0..MaxSignals /\ rpcs \in 0..MaxRPCs
          /\ actor \in [Actors -> {"new", "syncing", "stopping", "synced",
                                    "running", "checking", "returned"}]
          /\ poller \in [Stoppable -> {"none", "listening", "gone"}]
        BY DEF Init
    <2>. QED BY <2>1, <2>2, <2>3 DEF Init, TypeOK
<1>2. SyncedFirst /\ WorkersAreTotal
    BY DEF Init, SyncedFirst, WorkersAreTotal, Controllers, Actors, Stoppable
<1>3. Drained
    BY DEF Init, Drained, Actors
<1>. QED BY <1>1, <1>2, <1>3 DEF Inv

--------------------------------------------------------------------------------
(* Steps that leave the server and the run group alone. *)
LEMMA ServerUnchanged ==
    ASSUME Inv, UNCHANGED <<group, main, at, phase, rpcs, draining>>,
           actor'["ipam"] = actor["ipam"]
    PROVE  Drained'
BY DEF Inv, Drained, Served, Members

(* Steps that leave the controllers alone. *)
LEMMA ControllersUnchanged ==
    ASSUME Inv, UNCHANGED <<worker, synced>>,
           \A a \in Controllers : actor'[a] = actor[a]
    PROVE  SyncedFirst' /\ WorkersAreTotal'
BY DEF Inv, SyncedFirst, WorkersAreTotal

(* An interrupt returns; that of the server does when it has drained.        *)
LEMMA InterruptReturns ==
    ASSUME Inv, main = "interrupting", NextInterrupt,
           UNCHANGED <<group, rpcs>>, actor'["ipam"] = actor["ipam"],
           Served /\ at = 2 => rpcs = 0 /\ draining,
           draining => draining'
    PROVE  /\ Drained'
           /\ main' \in {"interrupting", "joining"} /\ phase' \in {"call", "send"}
           /\ at' \in 1..Len(group')
<1>1. at \in 1..Len(group) /\ Len(group) \in Nat /\ Len(group) > 2
    BY Groups DEF Inv, TypeOK
<1>2. Served' <=> Served
    BY DEF Served, Members
<1>3. CASE at < Len(group) /\ at' = at + 1 /\ UNCHANGED main
    BY <1>1, <1>2, <1>3 DEF NextInterrupt, Inv, Drained
<1>4. CASE at = Len(group) /\ main' = "joining" /\ UNCHANGED at
    BY <1>1, <1>2, <1>4 DEF NextInterrupt, Inv, Drained
<1>. QED BY <1>3, <1>4 DEF NextInterrupt

(* The server is the second of its group. *)
LEMMA NotTheServer ==
    ASSUME Inv, NEW a, NEW ph, a # "ipam", Interrupting(a, ph), Served
    PROVE  at # 2
BY Groups DEF Inv, TypeOK, Interrupting

--------------------------------------------------------------------------------
LEMMA GroupKeeps ==
    ASSUME Inv, FirstReturns \/ Join
    PROVE  Inv'
<1>1. Len(group) \in Nat /\ Len(group) > 2
    BY Groups DEF Inv, TypeOK
<1>2. TypeOK'
    BY <1>1 DEF FirstReturns, Join, control, outside, Inv, TypeOK
<1>3. SyncedFirst' /\ WorkersAreTotal'
    BY ControllersUnchanged DEF FirstReturns, Join, control, outside
<1>4. Drained'
    BY DEF FirstReturns, Join, control, outside, Inv, Drained, Served, Members
<1>. QED BY <1>2, <1>3, <1>4 DEF Inv

LEMMA SignalKeeps ==
    ASSUME Inv, Signal \/ HandleSignal
    PROVE  Inv'
<1>1. \A a \in Controllers : actor'[a] = actor[a]
    BY DEF Signal, HandleSignal, Becomes, Controllers, Inv, TypeOK, Actors,
           Stoppable
<1>2. SyncedFirst' /\ WorkersAreTotal'
    BY <1>1, ControllersUnchanged
    DEF Signal, HandleSignal, control
<1>3. CASE Signal
    <2>1. TypeOK'
        BY <1>3 DEF Signal, control, Inv, TypeOK
    <2>2. Drained'
        BY <1>3 DEF Signal, Inv, Drained, Served, Members
    <2>. QED BY <1>2, <2>1, <2>2 DEF Inv
<1>4. CASE HandleSignal
    <2>1. TypeOK'
        BY <1>4 DEF HandleSignal, Becomes, runner, control, Inv, TypeOK
    <2>2. actor'["ipam"] = actor["ipam"]
        BY <1>4 DEF HandleSignal, Becomes, Inv, TypeOK, Actors
    <2>3. Drained'
        BY <1>4, <2>2, ServerUnchanged DEF HandleSignal, runner
    <2>. QED BY <1>2, <2>1, <2>3 DEF Inv
<1>. QED BY <1>3, <1>4

(* The server and its calls. *)
LEMMA ServerKeeps ==
    ASSUME Inv, Serve \/ ServeFails \/ BeginRPC \/ EndRPC
    PROVE  Inv'
<1>1. \A a \in Controllers : actor'[a] = actor[a]
    BY DEF Serve, ServeFails, BeginRPC, EndRPC, Becomes, Controllers, Inv,
           TypeOK, Actors, Stoppable
<1>2. SyncedFirst' /\ WorkersAreTotal'
    BY <1>1, ControllersUnchanged
    DEF Serve, ServeFails, BeginRPC, EndRPC, control, outside
<1>3. TypeOK'
    BY DEF Serve, ServeFails, BeginRPC, EndRPC, Becomes, runner, control,
           outside, Inv, TypeOK
<1>4. actor["ipam"] = "new" => actor'["ipam"] = "new" \/ Served
    BY DEF Serve, ServeFails, BeginRPC, EndRPC, Becomes, Served, Inv, TypeOK
<1>5. rpcs = 0 /\ draining => rpcs' = 0
    <2>1. CASE Serve \/ ServeFails
        BY <2>1 DEF Serve, ServeFails, outside
    <2>2. CASE BeginRPC \/ EndRPC
        BY <2>2 DEF BeginRPC, EndRPC, Inv, TypeOK
    <2>. QED BY <2>1, <2>2
<1>6. actor["ipam"] = "new" /\ rpcs = 0 => rpcs' = 0
    BY DEF Serve, ServeFails, BeginRPC, EndRPC, outside, Inv, TypeOK
<1>7. Drained'
    BY <1>4, <1>5, <1>6
    DEF Serve, ServeFails, BeginRPC, EndRPC, runner, outside, Inv, Drained,
        Served, Members
<1>. QED BY <1>2, <1>3, <1>7 DEF Inv

LEMMA FactoryKeeps ==
    ASSUME Inv, StartFactory \/ InformerSyncs \/ IpCheck
    PROVE  Inv'
<1>1. /\ \A a \in Controllers : actor'[a] = actor[a]
      /\ actor'["ipam"] = actor["ipam"] /\ UNCHANGED worker
      /\ synced => synced'
    BY DEF StartFactory, InformerSyncs, IpCheck, Becomes, Controllers, Inv,
           TypeOK, Actors, Stoppable, control, outside
<1>2. SyncedFirst' /\ WorkersAreTotal'
    BY <1>1 DEF Inv, SyncedFirst, WorkersAreTotal
<1>3. TypeOK'
    BY DEF StartFactory, InformerSyncs, IpCheck, Becomes, runner, control,
           outside, Inv, TypeOK
<1>4. Drained'
    BY <1>1, ServerUnchanged
    DEF StartFactory, InformerSyncs, IpCheck, runner, control, outside
<1>. QED BY <1>2, <1>3, <1>4 DEF Inv

--------------------------------------------------------------------------------
(* The interrupt functions. *)
LEMMA InterruptSignalKeeps ==
    ASSUME Inv, InterruptSignal
    PROVE  Inv'
<1>1. /\ main = "interrupting" /\ NextInterrupt
      /\ UNCHANGED <<group, actor, control, signals, rpcs, draining, synced>>
      /\ sigCh' = "closed"
    BY DEF InterruptSignal, Interrupting
<1>2. Served => at # 2
    BY NotTheServer DEF InterruptSignal
<1>3. /\ Drained' /\ main' \in {"interrupting", "joining"}
      /\ phase' \in {"call", "send"} /\ at' \in 1..Len(group')
    BY <1>1, <1>2, InterruptReturns
<1>4. TypeOK'
    BY <1>1, <1>3 DEF control, Inv, TypeOK
<1>5. SyncedFirst' /\ WorkersAreTotal'
    BY <1>1, ControllersUnchanged DEF control
<1>. QED BY <1>3, <1>4, <1>5 DEF Inv

LEMMA InterruptIPAMKeeps ==
    ASSUME Inv, InterruptIPAM
    PROVE  Inv'
<1>1. UNCHANGED <<group, actor, control, signals, sigCh, rpcs, synced>>
    BY DEF InterruptIPAM
<1>2. SyncedFirst' /\ WorkersAreTotal'
    BY <1>1, ControllersUnchanged DEF control
<1>3. main = "interrupting" /\ group[at] = "ipam" /\ at \in 1..Len(group)
    BY DEF InterruptIPAM, Interrupting, Inv, TypeOK
<1>4. Served /\ at = 2
    BY <1>3, Groups DEF Inv, TypeOK, Served, Members
<1>5. CASE /\ Interrupting("ipam", "call") /\ draining' = TRUE
           /\ phase' = "send" /\ UNCHANGED <<main, at>>
    <2>1. TypeOK'
        BY <1>1, <1>5 DEF control, Inv, TypeOK
    <2>2. Drained'
        BY <1>1, <1>3, <1>4, <1>5 DEF Drained, Served, Members
    <2>. QED BY <1>2, <2>1, <2>2 DEF Inv
<1>6. CASE /\ Interrupting("ipam", "send") /\ rpcs = 0
           /\ NextInterrupt /\ UNCHANGED draining
    <2>1. draining
        BY <1>3, <1>4, <1>6 DEF Inv, Drained, Interrupting
    <2>2. /\ Drained' /\ main' \in {"interrupting", "joining"}
          /\ phase' \in {"call", "send"} /\ at' \in 1..Len(group')
        BY <1>1, <1>3, <1>6, <2>1, InterruptReturns
    <2>3. TypeOK'
        BY <1>1, <1>6, <2>2 DEF control, Inv, TypeOK
    <2>. QED BY <1>2, <2>2, <2>3 DEF Inv
<1>. QED BY <1>5, <1>6 DEF InterruptIPAM

(* A function that has come to its send, or to its end. *)
LEMMA InterruptInformerKeeps ==
    ASSUME Inv, InterruptInformer
    PROVE  Inv'
<1>1. /\ UNCHANGED <<group, control, outside>> /\ main = "interrupting"
      /\ \A a \in Controllers : actor'[a] = actor[a]
      /\ actor'["ipam"] = actor["ipam"]
    BY DEF InterruptInformer, Interrupting, Becomes, Controllers, Actors,
           Stoppable, Inv, TypeOK
<1>2. SyncedFirst' /\ WorkersAreTotal'
    BY <1>1, ControllersUnchanged DEF control, outside
<1>3. Served => at # 2
    BY NotTheServer DEF InterruptInformer
<1>4. CASE phase' = "send" /\ UNCHANGED <<main, at, actor>>
    <2>1. TypeOK'
        BY <1>1, <1>4 DEF control, outside, Inv, TypeOK
    <2>2. Drained'
        BY <1>1, <1>3, <1>4 DEF outside, Inv, Drained, Served, Members
    <2>. QED BY <1>2, <2>1, <2>2 DEF Inv
<1>5. CASE Becomes("informer", "returned") /\ NextInterrupt
    <2>1. /\ Drained' /\ main' \in {"interrupting", "joining"}
          /\ phase' \in {"call", "send"} /\ at' \in 1..Len(group')
        BY <1>1, <1>3, <1>5, InterruptReturns DEF outside
    <2>2. TypeOK'
        BY <1>1, <1>5, <2>1 DEF Becomes, control, outside, Inv, TypeOK
    <2>. QED BY <1>2, <2>1, <2>2 DEF Inv
<1>. QED BY <1>4, <1>5 DEF InterruptInformer

LEMMA StopKeeps ==
    ASSUME Inv, NEW a \in Stoppable, Stop(a)
    PROVE  Inv'
<1>1. /\ UNCHANGED <<group, actor, poller, worker, pending, shut, outside>>
      /\ main = "interrupting"
    BY DEF Stop, Interrupting
<1>2. SyncedFirst' /\ WorkersAreTotal'
    BY <1>1, ControllersUnchanged DEF outside
<1>3. Served => at # 2
    BY NotTheServer DEF Stop, Stoppable, Controllers
<1>4. CASE phase' = "send" /\ UNCHANGED <<main, at, missed>>
    <2>1. TypeOK'
        BY <1>1, <1>4 DEF outside, Inv, TypeOK
    <2>2. Drained'
        BY <1>1, <1>3, <1>4 DEF outside, Inv, Drained, Served, Members
    <2>. QED BY <1>2, <2>1, <2>2 DEF Inv
<1>5. CASE missed' = missed \union {a} /\ NextInterrupt
    <2>1. /\ Drained' /\ main' \in {"interrupting", "joining"}
          /\ phase' \in {"call", "send"} /\ at' \in 1..Len(group')
        BY <1>1, <1>3, <1>5, InterruptReturns DEF outside
    <2>2. TypeOK'
        BY <1>1, <1>5, <2>1 DEF outside, Inv, TypeOK
    <2>. QED BY <1>2, <2>1, <2>2 DEF Inv
<1>. QED BY <1>4, <1>5 DEF Stop

--------------------------------------------------------------------------------
(* One worker changes. *)
WorkerStates == {"none", "starting", "idle", "handling", "gone"}

LEMMA SetWorkerKeeps ==
    ASSUME Inv, NEW a \in Controllers, NEW w \in Workers(a),
           NEW status \in WorkerStates, worker[a][w] # "none",
           SetWorker(a, w, status), UNCHANGED synced,
           \A c \in Controllers :
               actor'[c] \in {"synced", "running"} => actor'[c] = actor[c]
    PROVE  /\ SyncedFirst' /\ WorkersAreTotal'
           /\ \A c \in Controllers : worker'[c] \in [Workers(c) -> WorkerStates]
<1>1. /\ worker = [c \in Controllers |-> worker[c]]
      /\ \A c \in Controllers : worker[c] \in [Workers(c) -> WorkerStates]
    BY DEF Inv, WorkersAreTotal, TypeOK, WorkerStates
<1>2. worker' = [c \in Controllers |->
                    IF c = a THEN [worker[a] EXCEPT ![w] = status]
                    ELSE worker[c]]
    BY <1>1 DEF SetWorker
<1>3. \A c \in Controllers : worker'[c] \in [Workers(c) -> WorkerStates]
    BY <1>1, <1>2
<1>4. WorkersAreTotal'
    BY <1>2 DEF WorkersAreTotal
<1>5. synced
    BY DEF Inv, SyncedFirst
<1>6. SyncedFirst'
    BY <1>5 DEF SyncedFirst
<1>. QED BY <1>3, <1>4, <1>6

(* Who receives what Stop sends. *)
LEMMA RunReceivesKeeps ==
    ASSUME Inv, NEW a \in Stoppable, RunReceives(a)
    PROVE  Inv'
<1>1. /\ UNCHANGED <<group, poller, worker, pending, missed, outside>>
      /\ main = "interrupting" /\ NextInterrupt /\ Return(a)
    BY DEF RunReceives, Interrupting
<1>2. Served => at # 2
    BY NotTheServer DEF RunReceives, Stoppable, Controllers
<1>3. /\ actor'["ipam"] = actor["ipam"]
      /\ \A c \in Controllers : actor'[c] \in {actor[c], "returned"}
    BY <1>1 DEF Return, Becomes, Stoppable, Controllers, Actors, Inv, TypeOK
<1>4. /\ Drained' /\ main' \in {"interrupting", "joining"}
      /\ phase' \in {"call", "send"} /\ at' \in 1..Len(group')
    BY <1>1, <1>2, <1>3, InterruptReturns DEF outside
<1>5. shut' \subseteq Controllers
    BY <1>1 DEF Return, Stoppable, Inv, TypeOK
<1>6. TypeOK'
    BY <1>1, <1>4, <1>5 DEF Return, Becomes, Stoppable, Actors, outside, Inv,
       TypeOK
<1>7. SyncedFirst' /\ WorkersAreTotal'
    BY <1>1, <1>3 DEF outside, Inv, SyncedFirst, WorkersAreTotal
<1>. QED BY <1>4, <1>6, <1>7 DEF Inv

LEMMA PollerReceivesKeeps ==
    ASSUME Inv, NEW a \in Stoppable, PollerReceives(a)
    PROVE  Inv'
<1>1. /\ UNCHANGED <<group, worker, pending, shut, outside>>
      /\ main = "interrupting" /\ NextInterrupt
      /\ poller' = [poller EXCEPT ![a] = "gone"]
      /\ \/ Becomes(a, "stopping") /\ UNCHANGED missed
         \/ UNCHANGED actor /\ missed' = missed \union {a}
    BY DEF PollerReceives, Interrupting
<1>2. Served => at # 2
    BY NotTheServer DEF PollerReceives, Stoppable, Controllers
<1>3. /\ actor'["ipam"] = actor["ipam"]
      /\ \A c \in Controllers : actor'[c] \in {actor[c], "stopping"}
    BY <1>1 DEF Becomes, Stoppable, Controllers, Actors, Inv, TypeOK
<1>4. /\ Drained' /\ main' \in {"interrupting", "joining"}
      /\ phase' \in {"call", "send"} /\ at' \in 1..Len(group')
    BY <1>1, <1>2, <1>3, InterruptReturns DEF outside
<1>5. TypeOK'
    BY <1>1, <1>4 DEF Becomes, Stoppable, Actors, outside, Inv, TypeOK
<1>6. SyncedFirst' /\ WorkersAreTotal'
    BY <1>1, <1>3 DEF outside, Inv, SyncedFirst, WorkersAreTotal
<1>. QED BY <1>4, <1>5, <1>6 DEF Inv

LEMMA WorkerReceivesKeeps ==
    ASSUME Inv, NEW a \in Controllers, NEW w \in Workers(a),
           WorkerReceives(a, w)
    PROVE  Inv'
<1>1. /\ UNCHANGED <<group, actor, poller, pending, shut, outside>>
      /\ main = "interrupting" /\ NextInterrupt
      /\ worker[a][w] = "starting" /\ SetWorker(a, w, "gone")
      /\ missed' = missed \union {a} /\ a \in Stoppable
    BY DEF WorkerReceives, Interrupting, Stoppable
<1>2. Served => at # 2
    BY NotTheServer DEF WorkerReceives, Controllers
<1>3. /\ Drained' /\ main' \in {"interrupting", "joining"}
      /\ phase' \in {"call", "send"} /\ at' \in 1..Len(group')
    BY <1>1, <1>2, InterruptReturns DEF outside
<1>4. /\ SyncedFirst' /\ WorkersAreTotal'
      /\ \A c \in Controllers : worker'[c] \in [Workers(c) -> WorkerStates]
    BY <1>1, SetWorkerKeeps DEF outside, WorkerStates
<1>5. TypeOK'
    BY <1>1, <1>3, <1>4 DEF WorkerStates, outside, Inv, TypeOK
<1>. QED BY <1>3, <1>4, <1>5 DEF Inv

--------------------------------------------------------------------------------
(* Run of the controllers and of the reconciler, and the workers. *)
LEMMA StartRunKeeps ==
    ASSUME Inv, NEW a \in Stoppable, StartRun(a)
    PROVE  Inv'
<1>1. /\ actor'["ipam"] = actor["ipam"]
      /\ \A c \in Controllers : actor'[c] \in {actor[c], "syncing"}
    BY DEF StartRun, Becomes, Stoppable, Controllers, Actors, Inv, TypeOK
<1>2. TypeOK'
    BY DEF StartRun, Becomes, Stoppable, Actors, runner, outside, Inv, TypeOK
<1>3. SyncedFirst' /\ WorkersAreTotal'
    BY <1>1 DEF StartRun, outside, Inv, SyncedFirst, WorkersAreTotal
<1>4. Drained'
    BY <1>1, ServerUnchanged DEF StartRun, runner, outside
<1>. QED BY <1>2, <1>3, <1>4 DEF Inv

LEMMA WaitForCacheSyncKeeps ==
    ASSUME Inv, NEW a \in Stoppable, WaitForCacheSync(a)
    PROVE  Inv'
<1>1. /\ UNCHANGED <<group, runner, poller, worker, pending, outside>>
      /\ \/ synced /\ Becomes(a, "synced") /\ UNCHANGED shut
         \/ Return(a)
      /\ missed' \subseteq missed \union {a}
    BY DEF WaitForCacheSync
<1>2. /\ actor'["ipam"] = actor["ipam"]
      /\ synced \/ \A c \in Controllers : actor'[c] \in {actor[c], "returned"}
    BY <1>1 DEF Return, Becomes, Stoppable, Controllers, Actors, Inv, TypeOK
<1>3. shut' \subseteq Controllers
    BY <1>1 DEF Return, Stoppable, Inv, TypeOK
<1>4. TypeOK'
    BY <1>1, <1>3 DEF Return, Becomes, Stoppable, Actors, runner, outside, Inv,
       TypeOK
<1>5. SyncedFirst' /\ WorkersAreTotal'
    BY <1>1, <1>2 DEF outside, Inv, SyncedFirst, WorkersAreTotal
<1>6. Drained'
    BY <1>1, <1>2, ServerUnchanged DEF runner, outside
<1>. QED BY <1>4, <1>5, <1>6 DEF Inv

LEMMA StartWorkersKeeps ==
    ASSUME Inv, NEW a \in Stoppable, StartWorkers(a)
    PROVE  Inv'
<1>1. /\ actor'["ipam"] = actor["ipam"] /\ actor[a] = "synced"
      /\ \A c \in Controllers : c # a => actor'[c] = actor[c]
      /\ UNCHANGED <<group, runner, poller, pending, shut, missed, outside>>
    BY DEF StartWorkers, Becomes, Stoppable, Controllers, Actors, Inv, TypeOK
<1>2. \A c \in Controllers : worker'[c] \in [Workers(c) -> WorkerStates]
    BY DEF StartWorkers, WorkerStates, Inv, TypeOK
<1>3. TypeOK'
    BY <1>1, <1>2 DEF StartWorkers, Becomes, Stoppable, Actors, WorkerStates,
       runner, outside, Inv, TypeOK
<1>4. WorkersAreTotal'
    BY DEF StartWorkers, WorkersAreTotal
<1>5. SyncedFirst'
    BY <1>1 DEF StartWorkers, outside, Inv, SyncedFirst
<1>6. Drained'
    BY <1>1, ServerUnchanged DEF runner, outside
<1>. QED BY <1>3, <1>4, <1>5, <1>6 DEF Inv

LEMMA WorkKeeps ==
    ASSUME Inv, NEW a \in Controllers, NEW w \in Workers(a), Work(a, w)
    PROVE  Inv'
<1>1. PICK status \in WorkerStates : SetWorker(a, w, status)
    BY DEF Work, StartWorker, Take, Handled, WorkerStates
<1>2. /\ UNCHANGED <<group, runner, actor, poller, shut, missed, outside>>
      /\ pending' \subseteq pending /\ worker[a][w] # "none"
    BY DEF Work, StartWorker, Take, Handled
<1>3. /\ SyncedFirst' /\ WorkersAreTotal'
      /\ \A c \in Controllers : worker'[c] \in [Workers(c) -> WorkerStates]
    BY <1>1, <1>2, SetWorkerKeeps DEF outside
<1>4. TypeOK'
    BY <1>2, <1>3 DEF WorkerStates, runner, outside, Inv, TypeOK
<1>5. Drained'
    BY <1>2, ServerUnchanged DEF runner, outside
<1>. QED BY <1>3, <1>4, <1>5 DEF Inv

LEMMA EventKeeps ==
    ASSUME Inv, NEW a \in Controllers, Event(a)
    PROVE  Inv'
<1>1. TypeOK'
    BY DEF Event, runner, outside, Inv, TypeOK
<1>2. SyncedFirst' /\ WorkersAreTotal'
    BY ControllersUnchanged DEF Event, outside
<1>3. Drained'
    BY ServerUnchanged DEF Event, runner, outside
<1>. QED BY <1>1, <1>2, <1>3 DEF Inv

--------------------------------------------------------------------------------
LEMMA NextKeepsInv ==
    ASSUME Inv, Next
    PROVE  Inv'
<1>1. ASSUME NEW a \in Stoppable, Receive(a) PROVE Inv'
    BY <1>1, RunReceivesKeeps, PollerReceivesKeeps, WorkerReceivesKeeps
    DEF Receive
<1>2. CASE RunGroup
    BY <1>1, <1>2, GroupKeeps, InterruptSignalKeeps, InterruptIPAMKeeps,
       InterruptInformerKeeps, StopKeeps DEF RunGroup, Interrupt
<1>3. ASSUME NEW a \in Stoppable, Run(a) PROVE Inv'
    BY <1>3, StartRunKeeps, WaitForCacheSyncKeeps, StartWorkersKeeps DEF Run
<1>. QED BY <1>2, <1>3, SignalKeeps, ServerKeeps, FactoryKeeps, EventKeeps,
            WorkKeeps DEF Next

LEMMA Invariant == Spec => []Inv
<1>1. Inv /\ UNCHANGED vars => Inv'
    BY DEF vars, Inv, TypeOK, SyncedFirst, WorkersAreTotal, Drained, Served,
           Members
<1>. QED BY <1>1, InitInv, NextKeepsInv, PTL DEF Spec

(* The types of both processes' actors, stop channels and workers. *)
THEOREM TypeCorrect == Spec => []TypeOK
<1>1. Inv => TypeOK
    BY DEF Inv
<1>. QED BY <1>1, Invariant, PTL

(* No handler runs on caches that have not synced, whoever receives what     *)
(* Stop sends.                                                               *)
THEOREM WorkersWait == Spec => []WorkAfterSync
<1>1. Inv => WorkAfterSync
    BY DEF Inv, SyncedFirst, WorkAfterSync
<1>. QED BY <1>1, Invariant, PTL

(* When the group stops the controller and the reconciler, and when it       *)
(* returns, no call of the gRPC server is in flight, for any number of them. *)
THEOREM CallsAreFinished == Spec => []CallsFinishFirst
<1>1. ASSUME Inv, main = "interrupting", group[at] \in Stoppable PROVE rpcs = 0
    <2>1. at \in 1..Len(group) /\ group \in {VPCNetDaemon, ENIController}
        BY <1>1 DEF Inv, TypeOK
    <2>2. Served => at > 2
        BY <1>1, <2>1, Groups
    <2>. QED BY <1>1, <2>2 DEF Inv, Drained
<1>2. Inv => CallsFinishFirst
    BY <1>1 DEF Inv, Drained, CallsFinishFirst
<1>. QED BY <1>2, Invariant, PTL

--------------------------------------------------------------------------------
(* The receivers of what Stop sends. *)

(* The group is past its interrupt of an actor. *)
Interrupted(a) ==
    \/ main \in {"joining", "returned", "panicked"}
    \/ main = "interrupting" /\ \E k \in 1..(at - 1) : group[k] = a

(* WaitForCacheSync's polling goroutine listens from the beginning of Run to *)
(* the actor's own interrupt.                                                *)
PollersListen ==
    \A a \in Stoppable :
        HasStopCh(a) /\ ~Interrupted(a) => poller[a] = "listening"

(* The group sends only to an actor that runs. *)
SendsToRunning ==
    main = "interrupting" /\ phase = "send" =>
        /\ group[at] \in Stoppable => HasStopCh(group[at])
        /\ group[at] = "informer" => actor["informer"] = "running"

Receivers == PollersListen /\ SendsToRunning

(* No actor is in its group twice. *)
LEMMA ActorsAreDistinct ==
    ASSUME group \in {VPCNetDaemon, ENIController},
           NEW j \in 1..Len(group), NEW k \in 1..Len(group),
           group[j] = group[k]
    PROVE  j = k
<1>1. CASE group = VPCNetDaemon
    <2>1. Len(group) = 5 /\ group[1] = "signal" /\ group[2] = "ipam"
          /\ group[3] = "interfaces" /\ group[4] = "reconciler"
          /\ group[5] = "informer"
        BY <1>1 DEF VPCNetDaemon
    <2>2. j \in {1, 2, 3, 4, 5} /\ k \in {1, 2, 3, 4, 5}
        BY <2>1
    <2>. QED BY <2>1, <2>2
<1>2. CASE group = ENIController
    <2>1. Len(group) = 3 /\ group[1] = "signal" /\ group[2] = "informer"
          /\ group[3] = "enis"
        BY <1>2 DEF ENIController
    <2>2. j \in {1, 2, 3} /\ k \in {1, 2, 3}
        BY <2>1
    <2>. QED BY <2>1, <2>2
<1>. QED BY <1>1, <1>2

(* Steps that leave the run group and the pollers alone. *)
LEMMA GroupUnchanged ==
    ASSUME Receivers, UNCHANGED <<group, main, at, phase, poller>>,
           \A a \in Stoppable : HasStopCh(a)' <=> HasStopCh(a),
           actor["informer"] = "running" => actor'["informer"] = "running"
    PROVE  Receivers'
<1>1. PollersListen'
    BY DEF Receivers, PollersListen, Interrupted
<1>2. SendsToRunning'
    BY DEF Receivers, SendsToRunning
<1>. QED BY <1>1, <1>2 DEF Receivers

(* An interrupt returns: its actor is the only one that may lose its poller. *)
LEMMA NextActor ==
    ASSUME TypeOK, Receivers, main = "interrupting", NextInterrupt, group' = group,
           \A a \in Stoppable : HasStopCh(a)' <=> HasStopCh(a),
           \A a \in Stoppable : a # group[at] => poller'[a] = poller[a]
    PROVE  Receivers'
<1>1. at \in 1..Len(group) /\ Len(group) \in Nat
    BY Groups DEF TypeOK
<1>2. SendsToRunning'
    BY DEF NextInterrupt, SendsToRunning
<1>3. CASE at = Len(group) /\ main' = "joining"
    BY <1>2, <1>3 DEF Receivers, PollersListen, Interrupted
<1>4. CASE at < Len(group) /\ at' = at + 1 /\ main' = main
    <2>1. ASSUME NEW a \in Stoppable, ~Interrupted(a)'
          PROVE  ~Interrupted(a) /\ a # group[at]
        <3>1. \A k \in 1..at : group[k] # a
            BY <1>1, <1>4, <2>1 DEF Interrupted
        <3>. QED BY <1>1, <1>4, <2>1, <3>1 DEF Interrupted
    <2>2. PollersListen'
        BY <2>1 DEF Receivers, PollersListen
    <2>. QED BY <1>2, <2>2 DEF Receivers
<1>. QED BY <1>3, <1>4 DEF NextInterrupt

(* Which steps give an actor its stop channel: StartRun alone. *)
LEMMA OnlyRunMakes ==
    ASSUME TypeOK, NEW a \in Actors, NEW status, status # "new",
           Becomes(a, status), actor[a] # "new"
    PROVE  /\ \A b \in Stoppable : HasStopCh(b)' <=> HasStopCh(b)
           /\ \A b \in Actors \ {a} : actor'[b] = actor[b]
BY DEF Becomes, HasStopCh, TypeOK, Actors

LEMMA OutsideKeepsReceivers ==
    ASSUME TypeOK, Receivers,
           \/ Signal \/ HandleSignal \/ Serve \/ ServeFails \/ BeginRPC
           \/ EndRPC \/ StartFactory \/ InformerSyncs \/ IpCheck
           \/ \E a \in Controllers :
                 Event(a) \/ \E w \in Workers(a) : Work(a, w)
    PROVE  Receivers'
<1>1. CASE Signal
    <2>1. /\ UNCHANGED <<group, at, phase, actor, poller>>
          /\ main' = main \/ main' = "panicked"
        BY <1>1 DEF Signal, control
    <2>2. SendsToRunning'
        BY <2>1 DEF Receivers, SendsToRunning, HasStopCh
    <2>3. PollersListen'
        BY <2>1 DEF Receivers, PollersListen, Interrupted, HasStopCh
    <2>. QED BY <2>2, <2>3 DEF Receivers
<1>2. CASE BeginRPC \/ EndRPC \/ InformerSyncs
           \/ \E a \in Controllers :
                 Event(a) \/ \E w \in Workers(a) : Work(a, w)
    <2>1. UNCHANGED <<group, main, at, phase, actor, poller>>
        BY <1>2 DEF BeginRPC, EndRPC, InformerSyncs, Event, Work, StartWorker,
                    Take, Handled, runner, control
    <2>. QED BY <2>1, GroupUnchanged DEF HasStopCh
<1>3. CASE HandleSignal \/ Serve \/ ServeFails \/ StartFactory \/ IpCheck
    <2>1. UNCHANGED <<group, main, at, phase, poller>>
        BY <1>3 DEF HandleSignal, Serve, ServeFails, StartFactory, IpCheck,
                    runner, control
    <2>2. /\ \A a \in Stoppable : HasStopCh(a)' <=> HasStopCh(a)
          /\ actor["informer"] = "running" => actor'["informer"] = "running"
        BY <1>3 DEF HandleSignal, Serve, ServeFails, StartFactory, IpCheck,
           Becomes, HasStopCh, TypeOK, Actors, Stoppable, Controllers
    <2>. QED BY <2>1, <2>2, GroupUnchanged
<1>. QED BY <1>1, <1>2, <1>3

LEMMA RunKeepsReceivers ==
    ASSUME TypeOK, Receivers, NEW a \in Stoppable, Run(a)
    PROVE  Receivers'
<1>1. CASE StartRun(a)
    <2>1. /\ UNCHANGED <<group, main, at, phase>>
          /\ poller' = [poller EXCEPT ![a] = "listening"]
          /\ \A b \in Actors \ {a} : actor'[b] = actor[b]
          /\ actor'[a] = "syncing"
        BY <1>1 DEF StartRun, runner, Becomes, TypeOK, Actors
    <2>2. PollersListen'
        BY <2>1 DEF Receivers, PollersListen, Interrupted, HasStopCh, TypeOK,
                    Actors
    <2>3. SendsToRunning'
        BY <2>1 DEF Receivers, SendsToRunning, HasStopCh, Actors, Stoppable,
                    Controllers
    <2>. QED BY <2>2, <2>3 DEF Receivers
<1>2. CASE WaitForCacheSync(a) \/ StartWorkers(a)
    <2>1. UNCHANGED <<group, main, at, phase, poller>>
        BY <1>2 DEF WaitForCacheSync, StartWorkers, runner
    <2>2. \E status \in {"synced", "returned", "running"} :
             Becomes(a, status) /\ actor[a] # "new"
        BY <1>2 DEF WaitForCacheSync, StartWorkers, Return
    <2>3. /\ \A b \in Stoppable : HasStopCh(b)' <=> HasStopCh(b)
          /\ actor'["informer"] = actor["informer"]
        BY <2>2, OnlyRunMakes DEF Actors, Stoppable, Controllers
    <2>. QED BY <2>1, <2>3, GroupUnchanged
<1>. QED BY <1>1, <1>2 DEF Run

LEMMA InterruptKeepsReceivers ==
    ASSUME TypeOK, Receivers, Interrupt
    PROVE  Receivers'
<1>1. ASSUME phase' = "send", UNCHANGED <<group, main, at, actor, poller>>,
             main = "interrupting",
             group[at] \in Stoppable => HasStopCh(group[at]),
             group[at] = "informer" => actor["informer"] = "running"
      PROVE  Receivers'
    BY <1>1 DEF Receivers, PollersListen, SendsToRunning, Interrupted, HasStopCh
<1>2. CASE InterruptSignal
    <2>1. UNCHANGED <<group, actor, poller>> /\ main = "interrupting"
          /\ NextInterrupt
        BY <1>2 DEF InterruptSignal, Interrupting, control
    <2>. QED BY <2>1, NextActor DEF HasStopCh
<1>3. CASE InterruptIPAM
    <2>1. /\ UNCHANGED <<group, actor, poller>>
          /\ main = "interrupting" /\ group[at] = "ipam"
        BY <1>3 DEF InterruptIPAM, Interrupting, control
    <2>2. CASE NextInterrupt
        BY <2>1, <2>2, NextActor DEF HasStopCh
    <2>3. CASE phase' = "send" /\ UNCHANGED <<main, at>>
        BY <1>1, <2>1, <2>3 DEF Stoppable, Controllers
    <2>. QED BY <1>3, <2>2, <2>3 DEF InterruptIPAM
<1>4. CASE InterruptInformer
    <2>1. /\ UNCHANGED <<group, poller>> /\ actor["informer"] = "running"
          /\ main = "interrupting" /\ group[at] = "informer"
        BY <1>4 DEF InterruptInformer, Interrupting, control
    <2>2. CASE phase' = "send" /\ UNCHANGED <<main, at, actor>>
        BY <1>1, <2>1, <2>2 DEF Stoppable, Controllers
    <2>3. CASE Becomes("informer", "returned") /\ NextInterrupt
        <3>1. \A a \in Stoppable : HasStopCh(a)' <=> HasStopCh(a)
            BY <2>1, <2>3, OnlyRunMakes DEF Actors
        <3>. QED BY <2>1, <2>3, <3>1, NextActor
    <2>. QED BY <1>4, <2>2, <2>3 DEF InterruptInformer
<1>5. ASSUME NEW a \in Stoppable, Stop(a) PROVE Receivers'
    <2>1. /\ UNCHANGED <<group, actor, poller>>
          /\ main = "interrupting" /\ group[at] = a
        BY <1>5 DEF Stop, Interrupting
    <2>2. CASE HasStopCh(a) /\ phase' = "send" /\ UNCHANGED <<main, at>>
        BY <1>1, <2>1, <2>2 DEF Stoppable, Controllers
    <2>3. CASE NextInterrupt
        BY <2>1, <2>3, NextActor DEF HasStopCh
    <2>. QED BY <1>5, <2>2, <2>3 DEF Stop
<1>6. ASSUME NEW a \in Stoppable, Receive(a) PROVE Receivers'
    <2>1. /\ group' = group /\ main = "interrupting" /\ group[at] = a
          /\ NextInterrupt
          /\ \A b \in Stoppable : b # a => poller'[b] = poller[b]
        BY <1>6 DEF Receive, RunReceives, PollerReceives, WorkerReceives,
                    Interrupting, TypeOK
    <2>2. \/ actor' = actor
          \/ \E status \in {"returned", "stopping"} :
                Becomes(a, status) /\ actor[a] # "new"
        BY <1>6 DEF Receive, RunReceives, PollerReceives, WorkerReceives, Return
    <2>3. \A b \in Stoppable : HasStopCh(b)' <=> HasStopCh(b)
        BY <2>2, OnlyRunMakes DEF Actors, HasStopCh
    <2>. QED BY <2>1, <2>3, NextActor
<1>. QED BY <1>2, <1>3, <1>4, <1>5, <1>6 DEF Interrupt

LEMMA NextKeepsReceivers ==
    ASSUME TypeOK, Receivers, Next
    PROVE  Receivers'
<1>1. CASE FirstReturns \/ Join
    <2>1. /\ UNCHANGED <<group, actor, poller>>
          /\ \/ main = "waiting" /\ phase' = "call"
             \/ main = "joining" /\ main' = "returned"
        BY <1>1 DEF FirstReturns, Join, control
    <2>2. SendsToRunning'
        BY <2>1 DEF SendsToRunning
    <2>3. PollersListen'
        BY <2>1 DEF Receivers, PollersListen, Interrupted, HasStopCh
    <2>. QED BY <2>2, <2>3 DEF Receivers
<1>. QED BY <1>1, OutsideKeepsReceivers, RunKeepsReceivers,
            InterruptKeepsReceivers DEF Next, RunGroup

(* Whenever the group sends on a stop channel the polling goroutine of that  *)
(* actor listens on it: the unbuffered send does not block for ever, neither *)
(* when Stop comes before Run nor when Run is over.                          *)
THEOREM SendsFindReceivers == Spec => []SendsAreReceived
<1>1. Init => Receivers
    BY DEF Init, Receivers, PollersListen, SendsToRunning, HasStopCh, Actors
<1>2. TypeOK /\ Receivers /\ [Next]_vars => Receivers'
    <2>1. TypeOK /\ Receivers /\ UNCHANGED vars => Receivers'
        BY GroupUnchanged DEF vars, HasStopCh
    <2>. QED BY <2>1, NextKeepsReceivers
<1>3. TypeOK /\ Receivers => SendsAreReceived
    <2> SUFFICES ASSUME TypeOK, Receivers, main = "interrupting", phase # "call"
                 PROVE  /\ group[at] \in Stoppable =>
                             HasStopCh(group[at]) /\ poller[group[at]] = "listening"
                        /\ group[at] = "informer" => actor["informer"] = "running"
        BY DEF SendsAreReceived
    <2>1. phase = "send" /\ at \in 1..Len(group) /\ Len(group) \in Nat
        BY Groups DEF TypeOK
    <2>2. \A k \in 1..(at - 1) : group[k] # group[at]
        <3>1. \A k \in 1..(at - 1) : k \in 1..Len(group) /\ k # at
            BY <2>1
        <3>. QED BY <2>1, <3>1, ActorsAreDistinct DEF TypeOK
    <2>3. ~Interrupted(group[at])
        BY <2>2 DEF Interrupted
    <2>. QED BY <2>1, <2>3 DEF Receivers, PollersListen, SendsToRunning
<1>. QED BY <1>1, <1>2, <1>3, TypeCorrect, PTL DEF Spec
================================================================================
