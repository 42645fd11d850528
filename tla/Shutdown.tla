------------------------------- MODULE Shutdown --------------------------------
(***************************************************************************)
(* How the two processes end: the oklog/run group of each main function,   *)
(* the signal handler, the gRPC server, the informer factory, and the Run  *)
(* and Stop of the controllers and of the reconciler.  The group starts    *)
(* every actor, waits for the first to return, interrupts all of them in   *)
(* the order they were added, one after another, and waits for the rest.   *)
(* Stop sends one value on an unbuffered channel that Run is not the only  *)
(* one to receive from: the goroutine WaitForCacheSync polls with goes on  *)
(* listening after the caches have synced, and wait.Until looks at the     *)
(* channel before a worker starts.  The language leaves open which of      *)
(* several receivers gets a value.                                         *)
(***************************************************************************)
EXTENDS Naturals, Sequences

CONSTANTS MaxRPCs,      \* bound: IPAM calls at a time
          MaxSignals    \* bound: SIGINTs and SIGTERMs

ASSUME BoundsAssumption == MaxRPCs \in Nat /\ MaxSignals \in Nat

(* The run groups, in the order of their Adds. *)
VPCNetDaemon == <<"signal", "ipam", "interfaces", "reconciler", "informer">>
ENIController == <<"signal", "informer", "enis">>

Controllers == {"interfaces", "enis"}
Stoppable == Controllers \union {"reconciler"}
Actors == Stoppable \union {"signal", "ipam", "informer"}

DefaultThreadiness == [interfaces |-> 1, enis |-> 2]

Workers(a) == 1..DefaultThreadiness[a]

VARIABLES
    group,     \* the run group of this process
    main,      \* Group.Run: waiting for the first actor, interrupting them,
               \* joining them, returned; or the process has panicked
    at,        \* the actor it interrupts
    phase,     \* where that interrupt function is
    actor,     \* where the execute function of each actor is
    poller,    \* the polling goroutine of WaitForCacheSync
    worker,    \* the controllers' workers
    pending,   \* the controllers with something in their work queue
    shut,      \* the controllers whose work queue has been shut down
    missed,    \* history: actors whose Stop is over without Run knowing of it
    signals,   \* signals that came so far
    sigCh,     \* the signal channel: empty, full or closed
    rpcs,      \* IPAM calls in flight
    draining,  \* GracefulStop has been called
    synced     \* the informer has its first list of nodes

vars == <<group, main, at, phase, actor, poller, worker, pending, shut, missed,
          signals, sigCh, rpcs, draining, synced>>

runner == <<main, at, phase>>
control == <<poller, worker, pending, shut, missed>>
outside == <<signals, sigCh, rpcs, draining, synced>>

TypeOK ==
    /\ group \in {VPCNetDaemon, ENIController}
    /\ main \in {"waiting", "interrupting", "joining", "returned", "panicked"}
    /\ at \in 1..Len(group)
    /\ phase \in {"call", "send"}
    /\ actor \in [Actors -> {"new", "syncing", "stopping", "synced", "running",
                             "checking", "returned"}]
    /\ poller \in [Stoppable -> {"none", "listening", "gone"}]
    /\ \A a \in Controllers :
          worker[a] \in [Workers(a) -> {"none", "starting", "idle", "handling",
                                       "gone"}]
    /\ pending \subseteq Controllers /\ shut \subseteq Controllers
    /\ missed \subseteq Stoppable
    /\ signals \in 0..MaxSignals
    /\ sigCh \in {"empty", "full", "closed"}
    /\ rpcs \in 0..MaxRPCs
    /\ draining \in BOOLEAN /\ synced \in BOOLEAN

Members == {group[k] : k \in 1..Len(group)}

Init ==
    /\ group \in {VPCNetDaemon, ENIController}
    /\ main = "waiting" /\ at = 1 /\ phase = "call"
    /\ actor = [a \in Actors |-> "new"]
    /\ poller = [a \in Stoppable |-> "none"]
    /\ worker = [a \in Controllers |-> [w \in Workers(a) |-> "none"]]
    /\ pending = {} /\ shut = {} /\ missed = {}
    /\ signals = 0 /\ sigCh = "empty"
    /\ rpcs = 0 /\ draining = FALSE /\ synced = FALSE

Alive == main \notin {"returned", "panicked"}

Becomes(a, status) == actor' = [actor EXCEPT ![a] = status]

--------------------------------------------------------------------------------
(* Group.Run *)
FirstReturns ==
    /\ main = "waiting"
    /\ \E a \in Members : actor[a] = "returned"
    /\ main' = "interrupting" /\ at' = 1 /\ phase' = "call"
    /\ UNCHANGED <<group, actor, control, outside>>

(* Mutant: the loop goes one too far. *)
OneTooFar ==
    /\ phase' = "call"
    /\ \/ at <= Len(group) /\ at' = at + 1 /\ UNCHANGED main
       \/ at > Len(group) /\ main' = "joining" /\ UNCHANGED at

(* The interrupt function returns: on with the next actor. *)
NextInterrupt ==
    /\ phase' = "call"
    /\ \/ at < Len(group) /\ at' = at + 1 /\ UNCHANGED main
       \/ at = Len(group) /\ main' = "joining" /\ UNCHANGED at

Join ==
    /\ main = "joining"
    /\ \A a \in Members : actor[a] = "returned"
    /\ main' = "returned"
    /\ UNCHANGED <<group, at, phase, actor, control, outside>>

Interrupting(a, ph) ==
    main = "interrupting" /\ group[at] = a /\ phase = ph

--------------------------------------------------------------------------------
(* The signal handler.  Notify drops a signal the channel has no room for,   *)
(* and is still in force when the channel is closed: the send panics.        *)
Signal ==
    /\ signals < MaxSignals
    /\ signals' = signals + 1
    /\ \/ sigCh = "closed" /\ main' = "panicked" /\ UNCHANGED sigCh
       \/ sigCh # "closed" /\ sigCh' = "full" /\ UNCHANGED main
    /\ UNCHANGED <<group, at, phase, actor, control, rpcs, draining, synced>>

HandleSignal ==
    /\ actor["signal"] = "new" /\ sigCh # "empty"
    /\ Becomes("signal", "returned")
    /\ sigCh' = IF sigCh = "full" THEN "empty" ELSE sigCh
    /\ UNCHANGED <<group, runner, control, signals, rpcs, draining, synced>>

(* Mutant: the signal actor is not interrupted. *)
NotClosed ==
    /\ Interrupting("signal", "call")
    /\ NextInterrupt
    /\ UNCHANGED <<group, actor, control, outside>>

(* The handler returns, be it a signal it receives or the channel's end.     *)
InterruptSignal ==
    /\ Interrupting("signal", "call")
    /\ sigCh' = "closed"
    /\ NextInterrupt
    /\ UNCHANGED <<group, actor, control, signals, rpcs, draining, synced>>

--------------------------------------------------------------------------------
(* The gRPC server.  Serve returns when accepting fails or the server stops. *)
Serve ==
    /\ "ipam" \in Members
    /\ \/ actor["ipam"] = "new" /\ ~draining /\ Becomes("ipam", "running")
       \/ actor["ipam"] \in {"new", "running"} /\ draining
          /\ Becomes("ipam", "returned")
    /\ UNCHANGED <<group, runner, control, outside>>

ServeFails ==
    /\ actor["ipam"] = "running"
    /\ Becomes("ipam", "returned")
    /\ UNCHANGED <<group, runner, control, outside>>

BeginRPC ==
    /\ actor["ipam"] \in {"running", "returned"} /\ ~draining
    /\ rpcs < MaxRPCs
    /\ rpcs' = rpcs + 1
    /\ UNCHANGED <<group, runner, actor, control, signals, sigCh, draining,
                   synced>>

EndRPC ==
    /\ rpcs > 0
    /\ rpcs' = rpcs - 1
    /\ UNCHANGED <<group, runner, actor, control, signals, sigCh, draining,
                   synced>>

(* Mutant: Stop in place of GracefulStop. *)
HardStop ==
    /\ Interrupting("ipam", "call")
    /\ draining' = TRUE
    /\ NextInterrupt
    /\ UNCHANGED <<group, actor, control, signals, sigCh, rpcs, synced>>

(* GracefulStop takes no more calls and waits for those in flight. *)
InterruptIPAM ==
    /\ \/ /\ Interrupting("ipam", "call")
          /\ draining' = TRUE /\ phase' = "send"
          /\ UNCHANGED <<main, at>>
       \/ /\ Interrupting("ipam", "send") /\ rpcs = 0
          /\ NextInterrupt
          /\ UNCHANGED draining
    /\ UNCHANGED <<group, actor, control, signals, sigCh, rpcs, synced>>

--------------------------------------------------------------------------------
(* The informer factory.  Many goroutines of an informer receive from its    *)
(* stop channel, so that one value ends at most one of them: the informer    *)
(* may go on, and sync, all the same.                                        *)
StartFactory ==
    /\ actor["informer"] = "new"
    /\ Becomes("informer", "running")
    /\ UNCHANGED <<group, runner, control, outside>>

InformerSyncs ==
    /\ ~synced /\ actor["informer"] # "new"
    /\ synced' = TRUE
    /\ UNCHANGED <<group, runner, actor, control, signals, sigCh, rpcs,
                   draining>>

InterruptInformer ==
    /\ actor["informer"] = "running"
    /\ \/ /\ Interrupting("informer", "call")
          /\ phase' = "send"
          /\ UNCHANGED <<main, at, actor>>
       \/ /\ Interrupting("informer", "send")
          /\ Becomes("informer", "returned")
          /\ NextInterrupt
    /\ UNCHANGED <<group, control, outside>>

--------------------------------------------------------------------------------
(* Run of the controllers and of the reconciler.  It makes the stop channel; *)
(* that Stop sets the field to nil again nobody sees, since the group calls  *)
(* Stop once.                                                                *)
HasStopCh(a) == actor[a] # "new"

StartRun(a) ==
    /\ actor[a] = "new"
    /\ Becomes(a, "syncing")
    /\ poller' = [poller EXCEPT ![a] = "listening"]
    /\ UNCHANGED <<group, runner, worker, pending, shut, missed, outside>>

(* Mutant: without the deferred ShutDown. *)
ReturnOnly(a) == Becomes(a, "returned") /\ UNCHANGED shut

Return(a) ==
    /\ Becomes(a, "returned")
    /\ shut' = shut \union ({a} \ {"reconciler"})

(* Mutant: the result of WaitForCacheSync is ignored. *)
SyncedOrNot(a) ==
    /\ actor[a] \in {"syncing", "stopping"} /\ (synced \/ actor[a] = "stopping")
    /\ Becomes(a, "synced")
    /\ missed' = IF actor[a] = "stopping" THEN missed \union {a} ELSE missed
    /\ UNCHANGED <<group, runner, poller, worker, pending, shut, outside>>

(* The polling goroutine that has received the value makes WaitFor look once *)
(* more whether the caches have synced: if so, the value is lost.            *)
WaitForCacheSync(a) ==
    /\ \/ actor[a] = "syncing" /\ synced
          /\ Becomes(a, "synced") /\ UNCHANGED <<shut, missed>>
       \/ actor[a] = "stopping" /\ synced
          /\ Becomes(a, "synced") /\ missed' = missed \union {a}
          /\ UNCHANGED shut
       \/ actor[a] = "stopping" /\ ~synced
          /\ Return(a) /\ UNCHANGED missed
    /\ UNCHANGED <<group, runner, poller, worker, pending, outside>>

StartWorkers(a) ==
    /\ actor[a] = "synced"
    /\ Becomes(a, "running")
    /\ worker' = [c \in Controllers |->
                     IF c = a THEN [w \in Workers(c) |-> "starting"]
                     ELSE worker[c]]
    /\ UNCHANGED <<group, runner, poller, pending, shut, missed, outside>>

(* The reconciler's ticker: ipCheck runs outside the select. *)
IpCheck ==
    /\ \/ actor["reconciler"] = "running" /\ Becomes("reconciler", "checking")
       \/ actor["reconciler"] = "checking" /\ Becomes("reconciler", "running")
    /\ UNCHANGED <<group, runner, control, outside>>

--------------------------------------------------------------------------------
(* The workers: wait.Until(runWorker).  After ShutDown they empty the queue. *)
SetWorker(a, w, status) == worker' = [worker EXCEPT ![a][w] = status]

StartWorker(a, w) ==
    /\ worker[a][w] = "starting"
    /\ SetWorker(a, w, "idle")
    /\ UNCHANGED <<group, runner, actor, poller, pending, shut, missed,
                   outside>>

Event(a) ==
    /\ a \in Members /\ a \notin pending /\ a \notin shut
    /\ actor["informer"] # "new"
    /\ pending' = pending \union {a}
    /\ UNCHANGED <<group, runner, actor, poller, worker, shut, missed, outside>>

Take(a, w) ==
    /\ worker[a][w] = "idle" /\ a \in pending
    /\ SetWorker(a, w, "handling")
    /\ pending' = pending \ {a}
    /\ UNCHANGED <<group, runner, actor, poller, shut, missed, outside>>

Handled(a, w) ==
    /\ worker[a][w] = "handling"
    /\ SetWorker(a, w, "idle")
    /\ UNCHANGED <<group, runner, actor, poller, pending, shut, missed,
                   outside>>

--------------------------------------------------------------------------------
(* Stop.  Before Run has made the channel it does nothing. *)

(* Mutant: Stop sends on the channel without looking at it: a send on nil    *)
(* blocks.                                                                   *)
SendAnyway(a) ==
    /\ Interrupting(a, "call")
    /\ phase' = IF HasStopCh(a) THEN "send" ELSE "nil"
    /\ UNCHANGED <<group, main, at, actor, control, outside>>

Stop(a) ==
    /\ Interrupting(a, "call")
    /\ \/ /\ HasStopCh(a)
          /\ phase' = "send"
          /\ UNCHANGED <<main, at, missed>>
       \/ /\ ~HasStopCh(a)
          /\ missed' = missed \union {a}
          /\ NextInterrupt
    /\ UNCHANGED <<group, actor, poller, worker, pending, shut, outside>>

(* Who receives what Stop sends. *)
RunReceives(a) ==
    /\ Interrupting(a, "send") /\ actor[a] = "running"
    /\ Return(a)
    /\ NextInterrupt
    /\ UNCHANGED <<group, poller, worker, pending, missed, outside>>

PollerReceives(a) ==
    /\ Interrupting(a, "send") /\ poller[a] = "listening"
    /\ poller' = [poller EXCEPT ![a] = "gone"]
    /\ \/ actor[a] = "syncing" /\ Becomes(a, "stopping") /\ UNCHANGED missed
       \/ actor[a] # "syncing" /\ UNCHANGED actor
          /\ missed' = missed \union {a}
    /\ NextInterrupt
    /\ UNCHANGED <<group, worker, pending, shut, outside>>

WorkerReceives(a, w) ==
    /\ Interrupting(a, "send") /\ worker[a][w] = "starting"
    /\ SetWorker(a, w, "gone")
    /\ missed' = missed \union {a}
    /\ NextInterrupt
    /\ UNCHANGED <<group, actor, poller, pending, shut, outside>>

--------------------------------------------------------------------------------
Run(a) == StartRun(a) \/ WaitForCacheSync(a) \/ StartWorkers(a)

Receive(a) ==
    \/ RunReceives(a) \/ PollerReceives(a)
    \/ a \in Controllers /\ \E w \in Workers(a) : WorkerReceives(a, w)

Interrupt ==
    \/ InterruptSignal \/ InterruptIPAM \/ InterruptInformer
    \/ \E a \in Stoppable : Stop(a) \/ Receive(a)

RunGroup == FirstReturns \/ Interrupt \/ Join

Work(a, w) == StartWorker(a, w) \/ Take(a, w) \/ Handled(a, w)

Next ==
    /\ Alive
    /\ \/ RunGroup \/ Signal \/ HandleSignal
       \/ Serve \/ ServeFails \/ BeginRPC \/ EndRPC
       \/ StartFactory \/ InformerSyncs \/ IpCheck
       \/ \E a \in Stoppable \intersect Members : Run(a)
       \/ \E a \in Controllers : Event(a) \/ \E w \in Workers(a) : Work(a, w)

Spec == Init /\ [][Next]_vars

(* Every goroutine that can take a step takes one; a call in flight and an   *)
(* ipCheck come to their end.  Nothing is assumed of signals, of Serve's     *)
(* failures, of the API server, or of who receives a value.                  *)
Fairness ==
    /\ WF_vars(Alive /\ RunGroup) /\ WF_vars(Alive /\ HandleSignal)
    /\ WF_vars(Alive /\ Serve) /\ WF_vars(Alive /\ EndRPC)
    /\ WF_vars(Alive /\ StartFactory) /\ WF_vars(Alive /\ IpCheck)
    /\ \A a \in Stoppable : WF_vars(Alive /\ a \in Members /\ Run(a))
    /\ \A a \in Controllers : \A w \in Workers(a) :
          WF_vars(Alive /\ Work(a, w))

FairSpec == Spec /\ Fairness

--------------------------------------------------------------------------------
(* Properties *)

(* No worker handles a node before the informer has its list of them, on any *)
(* path through a Stop that comes while the caches sync: a handler would     *)
(* take every node for deleted (WaitForCacheSync, Run's early return).       *)
WorkAfterSync ==
    \A a \in Controllers : \A w \in Workers(a) :
        worker[a][w] = "handling" => synced

(* Once the group interrupts the controllers behind it, the gRPC server has  *)
(* no call in flight and takes no more: no ADD or DEL is cut off by the end  *)
(* of the process (Group.Run's order, GracefulStop).                         *)
CallsFinishFirst ==
    /\ main = "interrupting" /\ group[at] \in Stoppable => rpcs = 0
    /\ main = "returned" => rpcs = 0

(* A send on a stop channel, which has no buffer, always has a receiver, be  *)
(* it one that Run wanted or not: the group does not block for ever in the   *)
(* middle of its interrupts (Stop, the interrupt of the informer factory).   *)
SendsAreReceived ==
    main = "interrupting" /\ phase # "call" =>
        /\ group[at] \in Stoppable =>
             HasStopCh(group[at]) /\ poller[group[at]] = "listening"
        /\ group[at] = "informer" => actor["informer"] = "running"

(* Every interrupt function returns, so that the group reaches the last      *)
(* actor: no send on a stop channel is left without a receiver (Stop, the    *)
(* interrupt of the informer factory).                                       *)
InterruptsReturn == main = "interrupting" ~> main # "interrupting"

(* A process that has begun to end does, unless a second signal makes it     *)
(* panic or a Stop has missed its Run (Group.Run).                           *)
GroupReturns ==
    main = "interrupting" ~> \/ main \in {"returned", "panicked"}
                             \/ missed # {}

(* When Run has returned, the workers empty the queue and then handle no     *)
(* node again, though events keep coming (the deferred ShutDown).            *)
WorkersDrain ==
    \A a \in Controllers :
        actor[a] = "returned" ~>
            [](Alive => \A w \in Workers(a) : worker[a][w] # "handling")

(* "Stop stops the controller" (ifcontroller/controller.go:167,              *)
(* enicontroller/controller.go:125), "Stop terminates the reconciler"        *)
(* (reconciler.go:120).                                                      *)
StopStops ==
    \A a \in Stoppable :
        main = "interrupting" /\ group[at] = a
            ~> actor[a] = "returned" \/ main = "panicked"
================================================================================
