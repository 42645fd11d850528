----------------------------- MODULE IfController ------------------------------
(***************************************************************************)
(* The interface controller of the node agent (cmd/vpcnet-daemon):         *)
(* handleNode takes every interface the node's annotation flags as         *)
(* attached through ifmgr (rename, address, up, routes and rules,          *)
(* masquerading), hands the lot to the allocator with SetENIs and installs *)
(* the CNI plugins and their configuration, after which the kubelet starts *)
(* pods.  The agent may die, and the host reboot, between any two of these *)
(* steps; the files survive both, the kernel's network configuration       *)
(* survives the first only.  The allocator's state file is truncated       *)
(* before it is filled (Allocator.tla has the allocator's view of that):   *)
(* with a file left empty the agent does not start any more.  One key, so  *)
(* one invocation at a time (Workqueue.tla).  The informer has this node   *)
(* only, once the ENI controller has labelled it; a provider ID of another *)
(* instance, which handleNode skips, cannot come with that label.          *)
(***************************************************************************)
EXTENDS Naturals, Sequences, Routing

CONSTANTS NumENIs,    \* interfaces the ENI controller gives to the instance
          Faults,     \* the steps that can fail and the events of FaultKinds
          MaxFaults   \* bound: how often that happens

(* What ConfigureInterface, ConfigureRoutes and ConfigureIPMasq do to an     *)
(* interface, in this order.                                                 *)
Steps == <<"rename", "address", "up", "routes", "rules", "masquerade">>

FirstSteps(k) == {Steps[j] : j \in 1..k}

StepNames == FirstSteps(Len(Steps))

FaultKinds == StepNames \union {"setENIs", "persist", "binaries", "config",
                                "crash", "reboot", "delete"}

ASSUME NumAssumption == NumENIs \in Nat
ASSUME FaultAssumption == Faults \subseteq FaultKinds /\ MaxFaults \in Nat

Index == 1..NumENIs

VARIABLES
    node,      \* the node at the API server: has it the annotation, and which
               \* interfaces does that flag as attached
    cache,     \* the informer's copy
    queued,    \* the node's key is in the work queue or its delaying layer
    failures,  \* NumRequeues(key)
    pc,        \* handleNode: idle, or what it is about to do; or the agent is
               \* down, as it cannot read the state file
    seen,      \* the attached interfaces of the node handleNode has read
    at,        \* the interface the loop is at
    step,      \* and which of Steps it does next
    configedENIs,
    host,      \* the kernel: which of Steps each interface has behind it
    cut,       \* history: interfaces whose configuration was cut short
               \* between two steps since the boot
    restored,  \* history: interfaces the allocator has from its file since a
               \* reboot and not yet from SetENIs
    pool,      \* the interfaces the allocator has in memory
    saved,     \* and in what its state file was last filled with
    torn,      \* the state file has been truncated and not filled since
    writing,   \* an ADD or a DEL holds the allocator's mutex to write the file
    cni,       \* /etc/cni/net.d: the configuration is absent, torn or written
    binaries,  \* /opt/cni/bin has the plugins
    recreated, \* history: the node has been deleted and registered again
    faults     \* how often something has gone wrong

vars == <<node, cache, queued, failures, pc, seen, at, step, configedENIs,
          host, cut, restored, pool, saved, torn, writing, cni, binaries,
          recreated, faults>>

loop == <<seen, at, step, configedENIs>>
kernel == <<host, cut>>
cniFiles == <<cni, binaries>>
watched == <<node, cache, recreated>>
stateFile == <<saved, torn, writing>>
allocator == <<pool, stateFile, restored>>

(* The Node object, as the ENI controller keeps it (ENIController.tla). *)
Node == INSTANCE NodeAnnotation WITH node <- node, NumENIs <- NumENIs

(* handleErr ends the process at this many requeues. *)
MaxRequeues == 5

TypeOK ==
    /\ node \in Node!NodeType /\ cache \in Node!NodeType
    /\ queued \in BOOLEAN /\ failures \in 0..MaxRequeues
    /\ pc \in {"idle", "scan", "configure", "setENIs", "saveENIs",
               "configured", "binaries", "config", "write", "down"}
    /\ seen \subseteq Index /\ configedENIs \subseteq Index
    /\ at \in 1..(NumENIs + 1) /\ step \in 1..Len(Steps)
    /\ host \in [Index -> {FirstSteps(k) : k \in 0..Len(Steps)}]
    /\ cut \subseteq Index /\ restored \subseteq Index
    /\ pool \subseteq Index /\ saved \subseteq Index
    /\ torn \in BOOLEAN /\ writing \in BOOLEAN
    /\ cni \in {"absent", "torn", "written"} /\ binaries \in BOOLEAN
    /\ recreated \in BOOLEAN /\ faults \in 0..MaxFaults

NotConfigured == [i \in Index |-> {}]

Init ==
    /\ Node!Init
    /\ cache = node
    /\ queued = TRUE /\ failures = 1
    /\ pc = "idle" /\ seen = {} /\ at = 1 /\ step = 1 /\ configedENIs = {}
    /\ host = NotConfigured /\ cut = {}
    /\ pool = {} /\ saved = {} /\ restored = {}
    /\ torn = FALSE /\ writing = FALSE
    /\ cni = "absent" /\ binaries = FALSE
    /\ recreated = FALSE /\ faults = 0

Fault(kind) ==
    /\ kind \in Faults /\ faults < MaxFaults
    /\ faults' = faults + 1

(* AddRateLimited *)
Enqueue ==
    /\ queued' = TRUE
    /\ failures' = IF failures < MaxRequeues THEN failures + 1 ELSE failures

--------------------------------------------------------------------------------
CutShort == cut' = cut \union {i \in Index : host[i] \notin {{}, StepNames}}

(* The process is restarted: it lists the node afresh.  allocator.New reads  *)
(* back the pool; if the file is torn it cannot, and main ends, however      *)
(* often the agent is started again.                                         *)
Restart ==
    /\ cache' = node /\ writing' = FALSE
    /\ \/ /\ ~torn
          /\ pc' = "idle" /\ queued' = TRUE /\ failures' = 1
          /\ pool' = saved
       \/ /\ torn
          /\ pc' = "down" /\ queued' = FALSE /\ failures' = 0
          /\ pool' = {}

(* handleErr: success, a retry, or glog.Fatalf. *)
Succeed ==
    /\ pc' = "idle" /\ failures' = 0
    /\ UNCHANGED <<queued, cache, pool, writing>>

Retry ==
    /\ failures < MaxRequeues
    /\ pc' = "idle" /\ Enqueue
    /\ UNCHANGED <<cache, writing>>

(* Mutant: handleNode drops the error. *)
SwallowedError == Succeed

Fail == \/ Retry /\ UNCHANGED pool
        \/ failures = MaxRequeues /\ Restart

Goto(to) ==
    pc' = to /\ UNCHANGED <<queued, failures, cache, pool, writing>>

Crash ==
    /\ pc # "down"
    /\ Fault("crash")
    /\ Restart
    /\ CutShort
    /\ UNCHANGED <<node, recreated, loop, host, saved, torn, restored,
                   cniFiles>>

Reboot ==
    /\ Fault("reboot")
    /\ Restart
    /\ host' = NotConfigured /\ cut' = {} /\ restored' = saved
    /\ UNCHANGED <<node, recreated, loop, saved, torn, cniFiles>>

--------------------------------------------------------------------------------
(* The ENI controller records an interface or attaches one. *)
ENIController ==
    /\ Node!Annotate \/ Node!Attach
    /\ UNCHANGED <<cache, queued, failures, pc, loop, kernel, allocator,
                   cniFiles, recreated, faults>>

(* The Node object is deleted and registered again. *)
RecreateNode ==
    /\ Fault("delete")
    /\ Node!Recreate /\ recreated' = TRUE
    /\ UNCHANGED <<cache, queued, failures, pc, loop, kernel, allocator,
                   cniFiles>>

(* The informer's handlers: a resync, which changes nothing, is ignored, and *)
(* there is none for a node that is deleted or not labelled again yet.       *)
Sync ==
    /\ pc # "down" /\ cache # node
    /\ cache' = node
    /\ \/ Enqueue
       \/ ~node.annotated /\ UNCHANGED <<queued, failures>>
    /\ UNCHANGED <<node, recreated, pc, loop, kernel, allocator, cniFiles,
                   faults>>

--------------------------------------------------------------------------------
(* handleNode reads the informer's copy. *)
HandleNode ==
    /\ pc = "idle" /\ queued
    /\ queued' = FALSE
    /\ seen' = cache.attached /\ at' = 1 /\ step' = 1 /\ configedENIs' = {}
    /\ \/ cache.annotated /\ pc' = "scan" /\ UNCHANGED failures
       \/ ~cache.annotated /\ pc' = "idle" /\ failures' = 0
    /\ UNCHANGED <<watched, kernel, allocator, cniFiles, faults>>

(* ifmgr.InterfaceExists: an interface has the name. *)
InterfaceExists(i) == "rename" \in host[i]

(* Mutant: only interfaces configured just now are handed on. *)
OnlyNew(i) == configedENIs

(* configedENIs takes up an interface that was configured before. *)
Kept(i) == configedENIs \union {i}

(* The head of the loop over the annotation. *)
Scan ==
    /\ pc = "scan"
    /\ \/ /\ at \in Index /\ at \in seen /\ InterfaceExists(at)
          /\ configedENIs' = Kept(at) /\ at' = at + 1
          /\ Goto("scan")
       \/ /\ at \in Index /\ at \in seen /\ ~InterfaceExists(at)
          /\ UNCHANGED <<configedENIs, at>>
          /\ Goto("configure")
       \/ /\ at \in Index /\ at \notin seen
          /\ at' = at + 1 /\ UNCHANGED configedENIs
          /\ Goto("scan")
       \/ /\ at \notin Index
          /\ UNCHANGED <<configedENIs, at>>
          /\ Goto("setENIs")
    /\ UNCHANGED <<node, recreated, seen, step, kernel, saved, torn, restored,
                   cniFiles, faults>>

(* One step for an interface; after the last, on with the loop.  No step is  *)
(* ever done again on an interface that has it: AddrAdd and RuleAdd would    *)
(* fail, but the first step is the one InterfaceExists looks for.            *)
Configure ==
    /\ pc = "configure"
    /\ host' = [host EXCEPT ![at] = @ \union {Steps[step]}]
    /\ \/ /\ step < Len(Steps)
          /\ step' = step + 1 /\ UNCHANGED <<at, configedENIs>>
          /\ Goto("configure")
       \/ /\ step = Len(Steps)
          /\ step' = 1 /\ at' = at + 1
          /\ configedENIs' = configedENIs \union {at}
          /\ Goto("scan")
    /\ UNCHANGED <<node, recreated, seen, cut, saved, torn, restored,
                   cniFiles, faults>>

(* Mutant: an error of a step but the last is ignored. *)
StepErrorIgnored ==
    /\ pc = "configure" /\ step < Len(Steps)
    /\ Fault(Steps[step])
    /\ step' = step + 1
    /\ Goto("configure")
    /\ UNCHANGED <<node, recreated, seen, at, configedENIs, kernel, saved,
                   torn, restored, cniFiles>>

(* An error leaves the steps before it done.  "rename" stands for the search *)
(* for the interface by its MAC address too.                                 *)
ConfigureFails ==
    /\ pc = "configure"
    /\ Fault(Steps[step])
    /\ Fail
    /\ CutShort
    /\ UNCHANGED <<node, recreated, loop, host, saved, torn, restored,
                   cniFiles>>

(* Installer.Configured: there is a file, whatever is in it.  Pods, and *)
(* ADDs and DELs for them, come with it.                                     *)
Configured == cni # "absent"

(* SetENIs, with the mutex no ADD or DEL has: the allocator has the new set  *)
(* in memory whatever comes of writing its file, which is truncated first.   *)
SetENIs ==
    /\ pc = "setENIs" /\ ~writing
    /\ pool' = configedENIs
    /\ \/ /\ torn' = TRUE /\ pc' = "saveENIs"
          /\ UNCHANGED <<queued, failures, cache, writing, faults>>
       \/ /\ Fault("setENIs") /\ Retry
          /\ UNCHANGED torn
    /\ UNCHANGED <<node, recreated, loop, kernel, saved, restored, cniFiles>>

(* Its last error: the process and what it had in memory are gone.           *)
SetENIsFails ==
    /\ pc = "setENIs" /\ ~writing
    /\ Fault("setENIs")
    /\ failures = MaxRequeues /\ Restart
    /\ UNCHANGED <<node, recreated, loop, kernel, saved, torn, restored,
                   cniFiles>>

(* The file is filled, or stays torn. *)
SaveENIs ==
    /\ pc = "saveENIs"
    /\ \/ /\ saved' = pool /\ torn' = FALSE /\ restored' = {}
          /\ Goto("configured") /\ UNCHANGED faults
       \/ /\ Fault("setENIs") /\ Fail
          /\ UNCHANGED <<saved, torn, restored>>
    /\ UNCHANGED <<node, recreated, loop, kernel, cniFiles>>

(* An ADD or a DEL writes the same file, the pool as it is in memory with    *)
(* it; a complete write is the end of a torn file, too.                      *)
PersistBegin ==
    /\ Configured /\ pc \notin {"saveENIs", "down"} /\ ~writing
    /\ writing' = TRUE /\ torn' = TRUE
    /\ UNCHANGED <<watched, queued, failures, pc, loop, kernel, pool, saved,
                   restored, cniFiles, faults>>

PersistEnd ==
    /\ writing
    /\ writing' = FALSE
    /\ \/ saved' = pool /\ torn' = FALSE /\ UNCHANGED faults
       \/ Fault("persist") /\ UNCHANGED <<saved, torn>>
    /\ UNCHANGED <<watched, queued, failures, pc, loop, kernel, pool, restored,
                   cniFiles>>

CheckConfigured ==
    /\ pc = "configured"
    /\ \/ Configured /\ Succeed
       \/ ~Configured /\ Goto("binaries")
    /\ UNCHANGED <<node, recreated, loop, kernel, saved, torn, restored,
                   cniFiles, faults>>

(* Mutant: the error of copying is ignored. *)
CopyErrorIgnored ==
    /\ pc = "binaries"
    /\ \/ binaries' = TRUE /\ Goto("config") /\ UNCHANGED faults
       \/ Fault("binaries") /\ Goto("config") /\ UNCHANGED binaries
    /\ UNCHANGED <<node, recreated, loop, kernel, saved, torn, restored, cni>>

(* copyFile renames a complete copy into place. *)
CopyBinaries ==
    /\ pc = "binaries"
    /\ \/ binaries' = TRUE /\ Goto("config") /\ UNCHANGED faults
       \/ Fault("binaries") /\ Fail /\ UNCHANGED binaries
    /\ UNCHANGED <<node, recreated, loop, kernel, saved, torn, restored, cni>>

(* WriteCNIConfig: ioutil.WriteFile creates the file, then fills it. *)
CreateConfig ==
    /\ pc = "config"
    /\ \/ cni' = "torn" /\ Goto("write") /\ UNCHANGED faults
       \/ Fault("config") /\ Fail /\ UNCHANGED cni
    /\ UNCHANGED <<node, recreated, loop, kernel, saved, torn, restored,
                   binaries>>

WriteConfig ==
    /\ pc = "write"
    /\ \/ cni' = "written" /\ Succeed /\ UNCHANGED faults
       \/ Fault("config") /\ Fail /\ UNCHANGED cni
    /\ UNCHANGED <<node, recreated, loop, kernel, saved, torn, restored,
                   binaries>>

Handler == HandleNode \/ Scan \/ Configure \/ SetENIs \/ SetENIsFails
           \/ SaveENIs \/ CheckConfigured \/ CopyBinaries \/ CreateConfig
           \/ WriteConfig \/ ConfigureFails

Next == ENIController \/ RecreateNode \/ Sync \/ PersistBegin \/ PersistEnd
        \/ Crash \/ Reboot \/ Handler

Spec == Init /\ [][Next]_vars

(* The watch delivers, the worker runs, a write that has begun ends, and     *)
(* SetENIs gets the mutex though ADDs and DELs compete for it.  Of the ENI   *)
(* controller nothing is assumed.                                            *)
FairSpec ==
    /\ Spec
    /\ WF_vars(Sync) /\ WF_vars(Handler) /\ WF_vars(PersistEnd)
    /\ SF_vars(SetENIs)

--------------------------------------------------------------------------------
(* Properties *)

FullyConfigured == {i \in Index : host[i] = StepNames}

(* The interfaces whose addresses the allocator may give out, but for the    *)
(* two gaps the code leaves: one whose configuration was cut short between   *)
(* two steps is not taken up again (InterfaceExists), and after a reboot the *)
(* gRPC server starts with the addresses of the file.                        *)
Offered == (pool \union saved) \ (cut \union restored)

(* The allocator gives out addresses, at any time, only of interfaces with   *)
(* all their routes and rules, errors, retries, restarts and reboots         *)
(* notwithstanding (handleNode).                                             *)
OfferedIsConfigured == Offered \subseteq FullyConfigured

(* Such an interface carries its pods' packets: those for a pod on the same  *)
(* host stay there, those for the cluster, its services and the networks     *)
(* routed through the VPC keep the pod's address and leave by its interface, *)
(* and no packet leaves by another with it, with and without PodIPMasq       *)
(* (ConfigureRoutes, ConfigureIPMasq).                                       *)
OfferedIsRouted ==
    \A i \in Offered, podIPMasq \in BOOLEAN : WellRouted(host, podIPMasq, i)

(* The kubelet takes up a configuration file at once: the plugins it names   *)
(* are there, and the node has its interfaces recorded, before the file is   *)
(* created, whatever fails between the copies and the file (Install).        *)
PluginsBeforeConfig ==
    cni # "absent" => binaries /\ (node.annotated \/ recreated)

(* SetENIs replaces the pool: no write takes an interface whose addresses    *)
(* pods may hold out of what the file was filled with, through retries,      *)
(* restarts and late copies of the node, and it stays in memory unless a     *)
(* restart falls back to the file, or fails on a torn one, as long as the    *)
(* Node object lives (handleNode).                                           *)
PoolNeverShrinks ==
    [][\/ /\ saved \subseteq saved'
          /\ pool \subseteq pool' \/ pool' = saved \/ pc' = "down"
       \/ recreated]_vars

(* What the properties above rest on, in the order of the code.              *)

(* An interface whose name has not been set has nothing, so that the steps   *)
(* are done from the first to the last, each once.                           *)
StepsInOrder ==
    /\ pc = "scan" => step = 1
    /\ pc = "configure" => at \in seen /\ host[at] = FirstSteps(step - 1)

(* Only an interface being configured, or cut short before, has some steps   *)
(* behind it and not all.                                                    *)
PartialIsCut ==
    \A i \in Index : \/ host[i] \in {{}, StepNames}
                     \/ i \in cut
                     \/ pc = "configure" /\ at = i

InLoop == pc \in {"scan", "configure", "setENIs", "saveENIs"}

CollectedIsConfigured == InLoop => configedENIs \ cut \subseteq FullyConfigured

(* As long as the Node object lives, each of the copies knows no more        *)
(* interfaces than the one it was made of, and the pool is one of them.      *)
CopiesLag ==
    /\ node.annotated \/ node.attached = {}
    /\ \/ recreated
       \/ /\ cache.attached \subseteq node.attached
          /\ cache.annotated => node.annotated
          /\ pool \subseteq cache.attached
          /\ saved \subseteq pool \/ pc = "down"
          /\ InLoop => /\ pool \subseteq seen
                       /\ seen \subseteq cache.attached
                       /\ configedENIs = {i \in seen : i < at}
                       /\ pc \in {"setENIs", "saveENIs"} => at \notin Index
          /\ pc \notin {"idle", "down"} => node.annotated

(* The files are written in the order of Install. *)
FilesInOrder == pc \in {"config", "write"} => binaries

(* One write of the state file at a time, with the file torn until it ends.  *)
WritesInOrder ==
    /\ writing => torn /\ pc \notin {"saveENIs", "down"}
    /\ pc = "saveENIs" => torn /\ pool = configedENIs
    /\ pc = "down" => torn

IInv == /\ StepsInOrder /\ PartialIsCut /\ CollectedIsConfigured /\ CopiesLag
        /\ FilesInOrder /\ WritesInOrder
        /\ OfferedIsConfigured /\ PluginsBeforeConfig

(* What nothing in the code repairs: a state file left torn when the process *)
(* ends, and a CNI configuration left torn, which counts as configured.      *)
CannotStart == pc = "down"

ConfigStaysTorn == cni = "torn" /\ faults > 0

(* Whatever fails at first, if the agent can still start, every interface    *)
(* the ENI controller has attached ends up offered, configured unless that   *)
(* was cut short, and the CNI configuration is written unless it was torn by *)
(* a failure, so that pods start in the end (handleErr's retries, the        *)
(* restart).                                                                 *)
EventuallyReady ==
    <>[](\/ CannotStart
         \/ node.annotated =>
                /\ pool = node.attached
                /\ node.attached \ cut \subseteq FullyConfigured
                /\ cni = "written" \/ ConfigStaysTorn)

(* "If we get to here, we have a fully configured node"                      *)
(* (ifcontroller/controller.go:282).                                         *)
HereFullyConfigured == pc = "configured" => pool \subseteq FullyConfigured
================================================================================
