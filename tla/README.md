# A verification of k8s-vpcnet

TLA+ modules that model the control logic of k8s-vpcnet, TLC configurations that
check them on small instances, and TLAPS proofs, for every value of the constants,
about the IP allocator and its selection loops, the work queue, both controllers, the node's taint and the
shutdown of the processes. Paths below are relative to the repository; a line such as
`allocator.go:97` is a line of its Go source. `PROJECT.json` maps every definition
to the lines it models and lists hazards, findings, runs, mutants and theorems.

## 1. The system

| part | source | state | operations |
|---|---|---|---|
| ENI controller (one per cluster) | `cmd/eni-controller` | nothing of its own; the node's annotations (`k8s-vpcnet/ec2-instance-info`, `k8s-vpcnet/eni-interfaces`) and label at the API server, EC2's interfaces, its work queue | `handleNode` (describe, label, attach, create), `enqueueNode`, `handleErr`, `Run`, `Stop` |
| Interface controller (per node) | `cmd/vpcnet-daemon/ifcontroller` | the kernel's interfaces, routes, rules and iptables, `/opt/cni/bin`, `/etc/cni/net.d` | `handleNode`, `enqueueNode`, `handleErr`, `Run`, `Stop` |
| Interface manager | `pkg/ifmgr` | as above | `InterfaceExists`, `ConfigureInterface`, `ConfigureRoutes`, `ConfigureIPMasq` |
| CNI installer | `cmd/vpcnet-daemon/cniinstall`, `pkg/cni/config` | plugin binaries and the CNI configuration | `Configured`, `Install`, `copyFile`, `WriteCNIConfig` |
| IP allocator | `pkg/allocator` | `State` (ENIs, Allocations, LastFreedIP) in memory under `allocatorMu`, and in `/var/lib/cni/vpcnet/state.json` | `New`, `SetENIs`, `Allocate`, `ReleaseByContainer`, `FreeAddressCount`, `State.Write` |
| IPAM service | `cmd/vpcnet-daemon/ipamsvc` | none | `Add`, `Del` (concurrent gRPC handlers) |
| Reconciler | `cmd/vpcnet-daemon/reconciler` | the node's `no-free-ips` taint | `ipCheck` on a ticker, `PoolFull`, `PoolNotFull`, `EvictPod`, `Run`, `Stop` |
| Node helpers | `pkg/objutil` | none | `UpdateNode` (conflict loop), taint mutators, `ProviderIDToAWSInstanceID` |
| CNI plugin | `cmd/cni-vpcnet` | none (one process per call) | `cmdAdd`, `cmdDel` |
| Work queue | `vendor/k8s.io/client-go/util/workqueue` | `queue`, `dirty`, `processing`, the delaying heap, the rate limiter's counts | `Add`, `Get`, `Done`, `AddAfter`, `AddRateLimited`, `Forget`, `ShutDown` |
| Process wiring | both `main.go` | the run group and its stop channels | start, interrupt |

How they interact. The ENI controller and the node's daemon speak only through the
Node object: each reads an informer's copy of it, which lags, and writes with
read-modify-write updates. On the node, kubelet runs the `ptp` plugin, which runs
the IPAM plugin, which calls `Add` and `Del` over a unix socket. `Add` calls the
allocator and then the reconciler; the interface controller calls the allocator's
`SetENIs` and the CNI installer; the reconciler's ticker reads the allocator's free
count. The allocator is thus shared by any number of gRPC handlers, the interface
controller's worker and the ticker.

What is hard, and what makes each part correct:

* *Allocator.* Concurrent calls; a check (`FreeAddressCount`) in another critical
  section than its use; an in-place rewrite of the state file that may fail or be
  cut short; crashes and restarts; DELs that are ignored and ADDs that outlive
  their caller. Correct when no two pods share an address, a pod's address
  survives every fault, and addresses come back.
* *Controllers.* Stale copies, events during a handler, retries, requests that
  fail after others had their effect, crashes between an effect and its record.
  Correct when what is recorded is true, nothing created is forgotten, no event
  is lost, and the configuration is completed in the end.
* *Reconciler.* The taint follows a count read earlier, decided on a stale copy,
  written by racing threads. Correct when it converges and tramples on nobody.
* *Installation.* A sequence of kernel and file operations with a shallow
  "already done" test. Correct when "done" means done and pods start only then.
* *Shutdown.* Unbuffered stop channels with several receivers, interrupts one after
  another, calls in flight. Correct when every interrupt returns, what is in use
  outlives its users, and the process ends.

`PROJECT.json` lists the hazards one by one with the properties that cover them.

## 2. The modules

| module | models | kind |
|---|---|---|
| `AddressPool` | what an allocator promises: it grants addresses nobody uses; only the end of a grant frees one | abstract specification |
| `IPSelection` | which free address `Allocate` picks, as a relation on sets | operators |
| `SelectionLoop` | the sort, rotation and walk of `Allocate`, one iteration per step, compared with `IPSelection` | algorithm |
| `Allocator` | allocator, state file, gRPC calls, CNI calls of the sandboxes, crash and restart | system |
| `KeyedWork` | what the work queue promises the controllers: keys wait, are with one worker at a time, and are not lost | abstract specification |
| `Workqueue` | client-go's queue and the controllers' worker loops | system |
| `PoolTaint` | `Service.Add`, reconciler, `UpdateNode`, API server and informer | system |
| `NodeAnnotation` | what the ENI controller promises the node agents of the annotation it writes | abstract specification |
| `ENIController` | the ENI controller on one node, API server, informer and EC2 | system |
| `Routing` | the routes, rules and masquerading `ifmgr` adds, and a packet's way through them | operators |
| `IfController` | the interface controller, ifmgr, CNI installer, crashes and reboots | system |
| `Shutdown` | the run groups of both processes, their interrupts, `Run`, `Stop` and the workers | system |
| `SelectionLoopProofs`, `AllocatorProofs`, `WorkqueueProofs`, `PoolTaintProofs`, `ENIControllerProofs`, `IfControllerProofs`, `ShutdownProofs` | the proofs about the module of that name | theorems |
| `ENIControllerRefinement` | the proofs that `ENIController` implements `NodeAnnotation` and that, without failures, it knows what it has attached | theorems |
| `MCAllocator`, `MCENIController`, `MCIfController` | constants and symmetry sets for TLC | model checking |

How they compose:

* `Allocator` EXTENDS `IPSelection` and refines `AddressPool`
  (`Pool == INSTANCE AddressPool`, with `held` as the refinement mapping).
* The two controllers meet at the Node object's annotation. `NodeAnnotation` is the
  contract: `ENIController` implements it (`ImplementsNodeAnnotation`), and
  `IfController` has its actions as the environment (`Node!Annotate`, `Node!Attach`,
  `Node!Recreate`).
* `IfController` EXTENDS `Routing`: what its steps have added to the kernel is what
  a packet meets.
* `ENIController` and `IfController` rest on what the work queue promises them and
  model their key as one pending bit and one failure count. `KeyedWork` states the
  promise: a key that was put waits, is taken by a worker that has none while no other
  has that key, and goes on waiting if it was put meanwhile. `Workqueue` implements it
  (`ImplementsKeyedWork`; `waiting` is what is dirty or delayed), with several
  workers, keys and delays; the controllers' `queued` is `waiting` for their one key, and
  a handler that runs is the worker that has it.
* `Shutdown` has the handlers as steps that begin and end; that they are cut off
  when the process ends is the crash of the other models.

### How state and actions correspond to the code

**Allocator.** `enis`, `alloc` and `lastFreed` are the fields of `State`, with ENIs
reduced to the set of their addresses; `lock` is `allocatorMu`; `disk` is the state
file. A call's `pc` walks `check` (the free count, in a critical section of its own)
-> `lock` (the mutex) -> `write` (changed in memory, `State.Write` begins) ->
`writing` (the file is truncated) -> its result. `Allocate`, `ReleaseByContainer` and
`SetENIs` each do everything between taking the mutex and `Write` in one step: the
mutex is held, and nothing outside looks at memory. `Write` is two steps
because a crash can come in between; `WriteFails` covers an error before and after
the truncation. `Crash` clears memory, mutex and calls; `Start` is `New`. The
sandboxes follow the CNI contract: one ADD per container ID, then one DEL, which
the plugin does not repeat if it fails (`cmd/cni-vpcnet/main.go:151-157`). `lossy`
is history: the containers whose ADD was abandoned or whose DEL did not succeed.

**SelectionLoop.** The index loops as written, with no break in either. `sort.Sort` is
taken for what it promises: `SortedIPs` is the sequence of the pool's addresses that
`netIps.Less` has in order, and a rotation of it is `Rotated`.

**Workqueue.** `Get`, `Park`, `Quit` are the three ways out of the loop in `Type.Get`;
`Signal` wakes one parked worker; `Ready` is an entry the delaying layer releases, at
any time after it was added (the delay itself is left out). The informer's event and
a handler's read of the cache maintain `unseen`, a history of changes nobody looked at.

**PoolTaint.** One thread per `Add` handler and the ticker. `cache` is the informer's
copy and `watch` the versions it has yet to see. `current` holds the threads whose
fetched node is still the newest version: the API server's resource version check.
`UpdateNode` fetches, mutates, updates and starts again after a conflict. `AddTaint`
on a tainted copy is refused (the API server validates that taints are unique). `Touch`
is another client's change of the node (a kubelet's heartbeat), which may come at any
time and for ever; it leaves the last place of the watch to the threads, so that the
bound `MaxLag` never keeps them from updating. `Return` is the end of an update, with
its locals forgotten. A write of the state file that fails after an address was taken
is in `Allocator`, not here.

**ENIController.** `pc` names the call `handleNode` makes next, `seen` is the copy it
reads at the start. Every update writes what was computed from `seen` into the node
as it is then: the mutators set one annotation or label, so `UpdateNode` is one step
on that field, whichever Node object has the name by then. A failed update may have
been carried out, and so may a failed request to EC2 (`CarriedOut`): an interface is
created or attached, or its policy set, and the reply is lost. `failures` is `NumRequeues`, which events increase too; at 5,
`glog.Fatalf` (`Restart`). The node has no provider ID at first; once it has, the
ID names an instance and the tables know its type, or not (`instance`). `Delete` and
`Register` are the Node object's end and its kubelet's new registration, with the
instance and its interfaces left as they are: `cleanupNode` is empty.

**NodeAnnotation.** Whether the annotation is there, and which of its interfaces are
flagged attached. `Annotate` lets the first record of a new object have any number
of them: a handler that has read the old object writes into the new one.

**IfController.** `host[i]` has the steps interface i has behind it; `InterfaceExists`
looks at the first. `pool` and `saved` are the allocator's ENIs in memory and in what its
file was last filled with. A write of that file truncates and then fills it, here as
in `Allocator`: `SetENIs` and `SaveENIs` are the two halves of the controller's own,
`PersistBegin` and `PersistEnd` of any other, by an ADD or a DEL, which holds the mutex in
between (`writing`). A failure or a crash between the two leaves the file `torn`; a later
write repairs it, but an agent that starts with it is `down` and stays so, since
`allocator.New` returns an error and `main` exits (`vpcnet-daemon/main.go:92-95`). `cni` is
`absent`, `torn` (created, not filled) or `written`. History variables: `cut`, the interfaces an error or a crash
left between two steps; `restored`, those whose addresses came from the file after a
reboot; `recreated`, whether the Node object is a new one.

**Routing.** The addresses of an interface's pods have the same rules, so that the
interface stands for them. A remote address is the set of the networks it lies in;
the rules do not depend on how the networks overlap, and all combinations are looked
at. `FromPodTable`, `Rules` and `Accepted` are what the code adds; `TableFor`, `RouteFor`
and `Masqueraded` are the kernel's way through it.

**Shutdown.** `actor` says where the execute function of each actor is, `main`, `at` and
`phase` where `Group.Run` and the interrupt it calls are. A send on a stop channel is
one step with its receiver (`RunReceives`, `PollerReceives`, `WorkerReceives`). Go's
language leaves open which of several receivers gets the value, and so does the model;
the present runtime serves them in the order they came, so that the value goes astray
when `Run` is not among the receivers yet: before it has started its workers, or
while `ipCheck` runs. The fields that hold the channels are read and written without
a lock; the model takes them as sequentially consistent. Nobody waits for workers
when `Run` returns. `BeginRPC` is a call the server takes before its interrupt; one that
`GracefulStop` still lets in while it drains would be waited for like those, and is left
out. A second signal after the channel was closed is a send on a
closed channel (`panicked`).

## 3. Runs

Each run's bounds are in its cfg. `CHECK_DEADLOCK FALSE` is set where the environment is
finite (containers, events and faults run out) and because a daemon with a torn state
file stays down.

| run | asks | bounds |
|---|---|---|
| `SelectionLoop` | do the loops compute `IPSelection`? `SelectionAgrees`, `RotationKeepsPool`, `IInv` | 4 addresses: every pool, allocation and last freed address |
| `Allocator_safety` | `NoSharedIP`, `GrantsHeld`, `NoLeak`, `ImplementsAddressPool`, `TypeOK`, `IInv` | 2 containers, 2 addresses, changing pools, every fault |
| `Allocator_live` | `CallsReturn` | 2 containers, 1 address, failing writes |
| `Workqueue` | `OneWorkerPerKey`, `NoChangeLost`, `NoLostWakeup`, `ChangesAreHandled`, `ImplementsKeyedWork`, `TypeOK` | 2 workers, 2 nodes, 2 events each |
| `PoolTaint` | `OthersChangesKept`, `TaintConverges`, `AddReturns`, `TypeOK` | 2 handlers and the ticker, 1 address, any number of foreign changes, between two values, lag 3 |
| `ENIController` | `AttachedIsReal`, `AnnotationFits`, `AttachmentsAreRecorded`, `OnlyFailuresWedge`, `EventuallyConfigured`, `ImplementsNodeAnnotation`, `TypeOK` | 2 interfaces wanted, 3 available, 2 faults of any kind, resyncs at a lag of at most 2 |
| `IfController` | `OfferedIsConfigured`, `OfferedIsRouted`, `PluginsBeforeConfig`, `PoolNeverShrinks`, `EventuallyReady`, `TypeOK` | 2 interfaces, 2 faults of any kind |
| `Shutdown` | `WorkAfterSync`, `CallsFinishFirst`, `SendsAreReceived`, `InterruptsReturn`, `GroupReturns`, `WorkersDrain`, `TypeOK` | both run groups, 2 calls at a time, 2 signals |

In words:

* `NoSharedIP`, `GrantsHeld`, `NoLeak`: no two running pods have one address; a pod's
  address stays its own in memory and in the file; only an abandoned ADD or a failed
  DEL leaks one.
* `OneWorkerPerKey`, `NoChangeLost`, `NoLostWakeup`, `ChangesAreHandled`: one handler
  per node, and every change gets to one. `ImplementsKeyedWork`: the sets, the FIFO, the
  delays and the condition variable amount to the queue the controllers are modelled
  with.
* `OthersChangesKept`, `TaintConverges`, `AddReturns`: the taint tramples on nobody,
  ends up right, and keeps an `Add` no longer than others overtake its updates.
* `AttachedIsReal`, `AnnotationFits`, `EventuallyConfigured`: the annotation tells the
  truth, fits the instance, and gets complete.
* `ImplementsNodeAnnotation`: attached interfaces are never taken back while the Node
  object lives.
* `AttachmentsAreRecorded`, the converse of `AttachedIsReal`: until something fails, what
  EC2 has attached is flagged in the annotation, or `attachENI` is on its way to flag it,
  although each update overwrites the annotation with one computed from a stale copy
  (resyncs are no failures). `OnlyFailuresWedge`: so whatever is recorded as not attached
  can be attached, and only a failure gets a node stuck with an interface that EC2
  refuses.
* `OfferedIsConfigured`, `OfferedIsRouted`: an address is offered only on a configured
  interface, and packets with it stay on the host, keep their source or are
  masqueraded, and leave by the right link.
* `PluginsBeforeConfig`, `PoolNeverShrinks`, `EventuallyReady`: pods start after the
  plugins are there and keep their addresses, and whatever the ENI controller has
  attached is offered in the end, with the CNI configuration written, but for files left
  torn (see below).
* `InterruptsReturn`, `GroupReturns`, `CallsFinishFirst`, `WorkAfterSync`, `WorkersDrain`:
  no interrupt blocks, the process ends, calls are over before what they use is
  stopped, no handler runs on an empty cache, and none for ever after the end.
  `SendsAreReceived` is the safety half of the first: somebody always listens on the
  channel an interrupt sends to, though not always the `Run` that was meant.

Why the bounds are enough. Two containers race for an address, and one takes what the
other has released; two addresses let a release and an allocation differ, and the
pool that changes under them takes one away. (The theorems of section 4 hold for any
number of both.) Two workers are what it takes for a lost signal and for two handlers
on a key; two events per key let one arrive during a handler and one after. Two
handlers and a ticker give three concurrent taint updates; foreign changes are not
counted, and two values for them let each differ from the last. With two interfaces the second is created and attached
after the first, and the third EC2 interface is there for the controller to create
one too many. `MaxFaults` exceeds what the properties need to fail: each mutant below
fails within it. `MaxLag` caps how far the informer may be behind when a resync comes,
without which the versions under way are unbounded. Two faults suffice for
`EventuallyReady`: one that does the harm and one that comes upon the recovery. Two calls and two signals are what
it takes for one to be in flight while another comes, and for a signal after the
channel is closed.

One bound matters: `ImplementsNodeAnnotation` holds up to three deletions of the node
and not at four (`MaxFaults` is 2). If the node is deleted and registered again four
times while the informer has yet to deliver the first of them, copies of several
former lives overwrite each other and an attached interface may vanish from the
annotation. With one interface wanted, TLC finds it.

Every property of a passing run has a mutant in the module: an operator that
changes one mapped definition as a plausible bug would (a dropped error, a missing
guard, an off-by-one), with which TLC finds the property violated.

### What the properties leave to happen

Some properties hold with an exception the code forces:

* `EventuallyConfigured` is about a node that is `Manageable` (registered, with a provider
  ID that names an instance of a known type) and excepts `Wedged`. `attachENI` attaches
  and then sets the deletion policy (`enicontroller/controller.go:463`); when the reply to
  the first is lost (line 448), the second fails, or the update that records the attachment, whose error is dropped
  (line 277), the interface is attached but not recorded as such, every retry attaches
  again and is refused, until `glog.Fatalf`, and the same after the restart. A node that
  was deleted and registered again has its device indexes taken by the interfaces of
  its former life. The other way to be stuck is to run out of interfaces, each one
  orphaned by a stale copy, a lost reply or update or a deletion. Only this last way needs no
  failure (`OnlyFailuresWedge`).
* `EventuallyReady` excepts what is left torn and nothing repairs. `CannotStart`: the state
  file was truncated and not filled when the process ended, and the agent does not
  start any more; `Allocator_torn` shows the same from the allocator's side.
  `ConfigStaysTorn`: the CNI configuration was created and not filled (`config.go:64`), which
  `Configured` takes for done. Without either exception the run fails. It promises nothing
  about what the ENI controller has not attached, and nothing of it is assumed; the
  deletion of the Node object is no exception.
* `EventuallyReady`, `OfferedIsConfigured` and `OfferedIsRouted` except `cut`: the interfaces
  whose configuration was cut short between two steps since the boot. `InterfaceExists`
  looks at the first step only, so nothing ever does the rest; only a reboot clears it.
* `OfferedIsConfigured` and `OfferedIsRouted` except `restored` too: after a reboot the gRPC
  server starts at once with the addresses of the file (`vpcnet-daemon/main.go:153`), and the
  CNI configuration of the former boot is still there.
* `PoolNeverShrinks` and `PluginsBeforeConfig` end with `recreated`: a new Node object starts
  without the annotation, and handling it replaces the pool with fewer interfaces.
* `GroupReturns` excepts `missed`: the actors whose `Stop` is over without their `Run`
  knowing of it, the disagreement `Shutdown_stop` shows.

### Where the code and its documentation disagree

These runs check what a comment says and are expected to be violated.

| run | statement | what happens |
|---|---|---|
| `Allocator_torn` | `allocator.go:24-25` snapshot and restore its state | a crash during the in-place write leaves a daemon that cannot start |
| `ENIController_orphan` | `enicontroller/controller.go:285-286` persisted one at a time | a resync on a stale copy creates a second interface and overwrites the first |
| `IfController_partial` | `ifcontroller/controller.go:282` fully configured | the retry takes a half-configured interface for done |
| `Shutdown_stop` | `ifcontroller/controller.go:167` "Stop stops the controller", `reconciler.go:120` "Stop terminates the reconciler" | `Stop` does nothing before `Run` has made its channel, and otherwise sends one value that the poller of `WaitForCacheSync` or a starting worker may receive: `Run` goes on and the group waits for it for ever, although oklog's `group.go:15-16` asks of an interrupt that execute returns |

Observed while modelling, in the modules but without a run of its own:

* `allocator.go:20-21`: the loser of a race for the last address gets "Could not
  allocate IP" (line 140) and not `ErrNoFreeIPs`, so its pod is not evicted
  (`ErrCouldNotAllocate` in `Allocator`) and `PoolFull` is not called for it, nor for any
  error with `DeletePodWhenNoIPs` off (`ipam-service.go:61`), against the "every time" of
  `ipam-service.go:23-24`. The ticker makes up for it (`TaintConverges`).
* `allocator.go:16-17`: the check for a full pool comes first and hides `ErrEmptyPool`.
* `state.go:28` "far away" from the last freed address: the walk at `allocator.go:129`
  has no break and so ends with the last free address, which is the one freed last
  whenever it is free and in the pool: the theorem `FreedComesBack` for any pool,
  whatever else is free (`RotationKeepsPool` has the address in last place).
* `enicontroller/controller.go:360` "retries 5 times": the watch event counts as a requeue
  too, so there are four retries at most (`AddRateLimited` in `Workqueue`).
* `README.md:23` "before it starts accepting pods": the CNI configuration is installed
  on the first annotation, with no interface attached (`CheckConfigured`), and after a
  reboot it is there before anything is configured (`restored`).
* `install.go:23`: `Configured` is true of an empty file (`cni = "torn"`).
* `vpcnet-daemon/main.go:129`: a second signal after the first interrupt panics (`Signal`).
* `enicontroller/controller.go:315-320`: `cleanupNode` is to ensure that the interfaces and
  their addresses are free and does nothing (a TODO), so that a node that registers again is wedged.
* `ifmgr_linux.go`: without `PodIPMasq` traffic to the outside is masqueraded all the same,
  on the ENI; with it, the ENI's subnet is reached through the ENI but masqueraded
  unless it lies in `cluster`, `service` or `vpcRouted`, and multicast leaves by eth0 with
  the pod's address (the one exception of `WellRouted`).
* A change of the configuration file never reaches an interface that has its name
  (`InterfaceExists`).

### Fairness

The safety properties need none. The liveness properties assume that a goroutine that can run
does run (weak fairness of each call's or worker's next step); that `sync.Mutex`
does not starve a waiter (strong fairness of the lock steps in `Allocator` and of `SetENIs`
in `IfController`: Go's mutex is handed to a waiter of more than 1 ms); that the watch
delivers, the ticker ticks and a delay passes; and, in `PoolTaint`, two things about the
environment that the code does not ensure. The API server does not refuse the
ticker's requests for ever (strong fairness of its fetch and update). And nobody changes the node
just before every attempt of an `UpdateNode` that tries again and again (strong
fairness of `UpdateNode`, for the handlers and the ticker): its loop has no bound
(`node.go:27-46`, with a TODO at line 45), it sleeps between the fetch and the next
attempt, and a client that wins every time keeps an `Add` in it for ever. Otherwise such a
client may change the node as often as it likes. Nothing else is assumed of crashes,
faults, events, pods, other clients or, in `IfController`, the ENI controller: they may
happen or not, and faults in `ENIController` and `IfController` at most `MaxFaults` times. In `Shutdown` every
goroutine that can take a step takes one, a call in flight and an `ipCheck` come to
their end; nothing is assumed of signals, of `Serve`'s failures, of the API server, or
of who receives a value.

## 4. Proofs

Every invariant, action property and refinement that a run checks is a theorem for all values
of the constants (`ImplementsNodeAnnotation` for those without deletions); each module's
theorems rest on the named assumptions of the module it is about and on nothing else (marks such as `NoKey` are no keys, sets of keys and workers
are finite, bounds are numbers). A bound of the model is a constant like any other: the
theorems hold however large it is.

| module | theorems |
|---|---|
| `SelectionLoopProofs` | `Invariance` (`IInv`), `SelectsLastFree` (`SelectionAgrees`), `SliceIsPool` (`RotationKeepsPool`), `FreeIsFound`, `FreedComesBack` |
| `AllocatorProofs` | `TypeCorrect`, `Inductive` (`IInv`), `GrantsAreHeld`, `IPsAreExclusive`, `NothingLeaks`, `Refinement` (`ImplementsAddressPool`) |
| `WorkqueueProofs` | `TypeCorrect`, `Inductive` (`IInv`), `KeysAreExclusive` (`OneWorkerPerKey`), `ChangesAreKept` (`NoChangeLost`), `WakeupsAreKept` (`NoLostWakeup`), `Implements` (`ImplementsKeyedWork`) |
| `PoolTaintProofs` | `TypeCorrect`, `OthersAreKept` (`OthersChangesKept`) |
| `ENIControllerProofs` | `TypeCorrect`, `Inductive` (`IInv`), `AttachedAreReal`, `AnnotationsFit` |
| `ENIControllerRefinement` | `Implements` (`ImplementsNodeAnnotation`, unless the node is deleted), `AttachmentsRecorded` (`AttachmentsAreRecorded`), `RetriesLoseNothing`, `FailuresWedge` (`OnlyFailuresWedge`) |
| `IfControllerProofs` | `TypeCorrect`, `Inductive` (`IInv`), `OfferedAreConfigured`, `OfferedAreRouted`, `PluginsComeFirst`, `PoolGrows` (`PoolNeverShrinks`) |
| `ShutdownProofs` | `TypeCorrect`, `WorkersWait` (`WorkAfterSync`), `CallsAreFinished` (`CallsFinishFirst`), `SendsFindReceivers` (`SendsAreReceived`) |

**SelectionLoop.** The loops are a state machine, so that what they compute is an invariant
and needs no induction over the slice. `Listed` and `InOrder`: the slice has every
address of the pool, in the order `RotatedBefore` of `IPSelection`. The rotation loop has
no break: after the rotation the last freed address is in last place, the loop meets it
there again, and rotates by the whole length, to no effect. `RotateInv` has both phases
(still sorted and not met yet, or in the rotated order); `WalkInv` says that
`reservedIP` is the last free address the walk has met. That the last one met is the one
`LastFreeIP` names follows from the order. What `Init` takes for granted, that there is a
sorted sequence of any finite set of numbers, is proved by a minimal counterexample: a
set of least size without one, less its least member, has one (`EverythingSortable`).
`FreeIsFound` and `FreedComesBack` are about `IPSelection` alone, and so about
`Allocator`, which uses it: an address is found exactly when one is free, and never two.

**Allocator.** None of the safety properties is inductive: that a running pod's
address is in the file says nothing about the moment between the truncation and
the last byte. `IInv` adds, in named parts, what the code relies on:
`MutexOK` (a call is in the write section exactly when it holds the mutex), `DownIsIdle`
(no calls while the daemon is down), `OneCallAtATime` (a container's ADD and DEL do not
overlap unless the ADD was abandoned), `NowhereIn` and `AtMostOneIP` (where a container
that has no allocation may appear: nowhere, in memory or file; otherwise under one
address), `AddHolds` (what ADD has reserved is in memory from `Reserve` on, and in the
file from the end of the write on) and `DelReleased` (the converse for DEL). One lemma
per action shows that it keeps `IInv`; `GrantsHeld`, `NoSharedIP` and `NoLeak` then
follow from `TypeOK /\ IInv` without looking at steps. `Refinement` maps each step:
`ReturnAdd` that makes a pod run is a `Grant`, the DEL that ends it an `End`, all other
steps stutter; the guard of `Grant` is `NoSharedIP` of the next state.

**Workqueue.** `QueueIsDirty`: a dirty key that no worker has is in the queue exactly
once, and nothing else is. `ProcessingIsHeld`: the processing set is what the workers
hold. From the two follow that `Get` never hands out a key that a worker has, and that
the queue is no longer than there are keys, which the type invariant needs.
`NoLostWakeup` is inductive over them by counting: a signal, or a worker that is done,
adds one worker to `Get`'s loop for each item that is added. `Implements` maps each step to
one of `KeyedWork`: an event or a retry is a `Put`, whether it goes to the queue or the
delaying heap; `Get` is a `Take`, whose guard, that no other worker has the key, is
`OneWorkerPerKey`; `Done` is a `Finish`, after which a key that was put meanwhile still
waits, since it is still dirty.

**PoolTaint.** `CurrentIsNode`: a thread whose copy is the newest version has the node as
it is, so that an update the API server accepts starts from everybody's changes.
`FreeIsRest`: the free count is what the pods' handlers leave of the pool, which
bounds it when an address is released.

**ENIController.** The annotation is overwritten with what was computed from a copy of any
age, so that its truth rests on that of all copies. `CopiesAreGood` says of each - at the
API server, with the informer, on the way to it, in the handler - what
`AttachedIsReal` and `AnnotationFits` say of the first; attachments and interfaces are
never undone (`EC2Grows`), so a copy that is good stays good. `DoneBeforeSaved`: what the
handler is about to record has been done. The first interface that is not attached
exists because the order of the numbers is well founded.

**ENIControllerRefinement.** That an attached interface is never taken back cannot be seen
from the truth of the copies: an old copy is as true as a new one. It follows from how
old a copy can be. `Stage` counts the steps a node has behind it, two for an interface
(recorded, attached); the handler takes the next only when it has seen the last, so that
of any two copies the newer is at the same stage or one further (`Ordered`, `SeenFirst`),
however many versions lie between them. What the handler writes is one stage past its
copy: the API server is there already, and nothing visible changes, or it is one
before. `BehindIsAStep` shows that two nodes one stage apart are a step of
`NodeAnnotation`. The theorem assumes that nobody deletes the node
(`"delete" \notin Faults`): with deletions it is not true for every `MaxFaults`
(section 3), and the run covers the first two.

The same order gives `AttachmentsAreRecorded`. `NothingLost` is its inductive invariant: until
the first failure, which a deletion counts as, and for ever where only describing and
creating can fail, carried out or not (`RetriesLoseNothing`; a lost reply to the attachment
does lose it), the copies are one step apart
(`OneStepAtATime`), no two interfaces have one index (`Distinct`), and what EC2 has attached
is flagged or about to be (`AllFlagged`). The step that matters is an update computed from
a copy of an earlier stage. It cannot drop a flag: the annotation it overwrites is at
most one stage past that copy, so that every index flagged there is flagged in what is
written, and the copy is true (`IInv`), so that it flags the same interface there
(`SamePlace`). `OnlyFailuresWedge` follows: an interface that EC2 refuses is attached
already, and then flagged at another place of a list that has it once, or its index
is taken, and then that place is flagged for another interface.

**IfController.** `TypeOK` and `IInv` are carried together, since the steps an interface has
behind it are a prefix of `Steps` only because they are done in order (`StepsInOrder`).
`PartialIsCut` and `CollectedIsConfigured` give `OfferedIsConfigured`; `CopiesLag`, that each
copy of the annotation knows no more than the one it was made of, gives `PoolNeverShrinks`;
`WritesInOrder`, that the file is torn exactly until a write of it ends and that one write
at a time is under way, makes a write that is finished one of the current pool;
`FilesInOrder` gives `PluginsBeforeConfig`. The lemmas on `Routing` (`LocalTable`,
`RemoteTable`, `TableLinks`) compute the kernel's choice of table, route and masquerading,
and `ConfiguredIsRouted` that a configured interface is `WellRouted` whatever others
there are.

**Shutdown.** `SyncedFirst`: no worker exists before the caches have synced. `Drained`: from the
server's interrupt on it takes no calls, and when the group goes on to the next actor
there is none; the server comes before the actors that its calls use (`Groups`).
`PollersListen`: a controller's polling goroutine listens from the beginning of `Run` until the
actor's own interrupt, which alone can stop it, and an actor is in its group once.
`SendsToRunning`: `Stop` sends only when `Run` has made its channel. From the two,
`SendsAreReceived`.

Each inductive invariant was checked by TLC before it was proved. The runs keep two of
them, `SelectionLoop`'s, which is also its type invariant, and `Allocator`'s, the least
obvious; of the others they check what follows from them. Any of them can be added to
the `INVARIANTS` of its module's cfg.

Only model-checked: the liveness properties (`CallsReturn`, `ChangesAreHandled`,
`TaintConverges`, `AddReturns`, `EventuallyConfigured`, `EventuallyReady`, `InterruptsReturn`,
`GroupReturns`, `WorkersDrain`), since temporal reasoning with fairness is out of the
prover's reach; `ImplementsNodeAnnotation` when the node is deleted, which does not hold for
every value of `MaxFaults` (section 3); and the statements of the runs that are expected to
be violated, which are false. The provers cannot use an induction principle, whose
hypothesis is an operator: where a fact about all finite sets was needed, the least
counterexample took its place, and no module has a recursive definition about whose
value a theorem would be wanted.

## 5. Not modelled

* `ProviderIDToAWSInstanceID`, a pure parser (its outcome is `instance.named`); the instance
  type tables and the configuration file, which are data; the JSON encodings.
* The names in `rt_tables`, which nothing reads, and the redirection of the metadata service
  (`ifmgr_linux.go`), which concerns one address and no state of the daemon.
* The `ptp` plugin, which runs the IPAM plugin and whose order of removing the link and
  freeing the address matters: it is not in this repository, nor is anything of it used in
  `src/` that a model could be made from. The CNI result the IPAM plugin prints.
* A container runtime that repeats ADD for one container ID: the contract is one ADD per
  ID, which is what kubelet does.
* Nodes other than the controller's own in one run; nodes without annotations or labels
  (a nil map in the mutators).
* The set-up of the processes before their run groups (flags, metadata, clients, sockets):
  it succeeds or ends the process.
* In `PoolTaint` the node is always in the informer's store: `PoolFull`'s error for a
  missing node, which is logged only, is left out.
* Generated protobuf code, the darwin stub, manifests, the end-to-end test.

## 6. Plan

What is left:

1. A weaker contract than `NodeAnnotation` that holds for any number of deletions, and a
   proof for it: the order of `ENIControllerRefinement` extended to the versions of
   the node across its lives.
2. The controllers' handlers as instances of `KeyedWork`, with their one key.
3. Several nodes in one ENI controller: `glog.Fatalf` for one is a restart for all.
