----------------------------- MODULE ENIController -----------------------------
(***************************************************************************)
(* The ENI controller on one node: handleNode, createENI and attachENI of  *)
(* cmd/eni-controller, between the Kubernetes API server, the informer's   *)
(* copy of the node, and EC2.  An invocation of handleNode makes at most   *)
(* one change of the node and then waits for the watch.  The node is never *)
(* handled by two workers at once (Workqueue.tla); UpdateNode is one step  *)
(* here (its conflict loop is in PoolTaint.tla): what it writes was        *)
(* computed from the informer's copy before the call.  The node object may *)
(* be deleted and registered again while its instance runs on.             *)
(***************************************************************************)
EXTENDS Naturals, Sequences

CONSTANTS ENI,        \* interfaces EC2 can create
          NoENI,
          NumENIs,    \* interfaces to add to the instance (its type's minus 1)
          Faults,     \* what can go wrong, see FaultKinds
          MaxFaults,  \* bound: how often
          MaxLag      \* bound: the versions a resync finds the informer behind

(* A request to EC2 or an update of the node that fails, a crash, the node's *)
(* deletion (these at most MaxFaults times), and, no fault and not counted,  *)
(* a resync of the informer: the node is handled again, as the informer has  *)
(* it.                                                                       *)
FaultKinds == {"describe", "create", "attach", "modify", "update", "crash",
               "delete", "resync"}

ASSUME ENIAssumption == NoENI \notin ENI
ASSUME NumAssumption == NumENIs \in Nat
ASSUME FaultAssumption ==
    Faults \subseteq FaultKinds /\ MaxFaults \in Nat /\ MaxLag \in Nat

VARIABLES
    instance,  \* EC2: does the node's provider ID, once set, name an instance,
               \* and do the tables know its type
    api,       \* the node at the API server
    cache,     \* the informer's copy
    watch,     \* versions the informer has yet to see
    queued,    \* the node's key is in the work queue or its delaying layer
    failures,  \* NumRequeues(key)
    pc,        \* handleNode: idle, or the call it makes next
    seen,      \* the node handleNode has read
    new,       \* the interface CreateNetworkInterface has returned
    device,    \* EC2: interface -> device index on the instance; 0 detached
    created,   \* EC2: interfaces that exist
    policy,    \* EC2: attachments with DeleteOnTermination
    faults     \* how often something has gone wrong

vars == <<instance, api, cache, watch, queued, failures, pc, seen, new, device,
          created, policy, faults>>

(* What handleNode looks at of a node: whether it has a provider ID, its     *)
(* annotations and its label.                                                *)
NodeType == [exists : BOOLEAN, provider : BOOLEAN,
             info : BOOLEAN, label : BOOLEAN,
             enis : Seq([id : ENI, attached : BOOLEAN])]

Registered == [exists |-> TRUE, provider |-> FALSE,
               info |-> FALSE, label |-> FALSE, enis |-> <<>>]

Deleted == [Registered EXCEPT !.exists = FALSE]

(* handleErr gives up at this many requeues. *)
MaxRequeues == 5

TypeOK ==
    /\ instance \in [named : BOOLEAN, known : BOOLEAN]
    /\ api \in NodeType /\ cache \in NodeType /\ seen \in NodeType
    /\ watch \in Seq(NodeType)
    /\ queued \in BOOLEAN /\ failures \in 0..MaxRequeues
    /\ pc \in {"idle", "error", "describe", "label", "attach", "modify",
               "saveAttached", "create", "saveCreated"}
    /\ new \in ENI \union {NoENI}
    /\ device \in [ENI -> 0..NumENIs]
    /\ created \subseteq ENI /\ policy \subseteq ENI
    /\ faults \in 0..MaxFaults

Init ==
    /\ instance \in [named : BOOLEAN, known : BOOLEAN]
    /\ api = Registered
    /\ cache = api /\ seen = api /\ watch = <<>>
    /\ queued = TRUE /\ failures = 1
    /\ pc = "idle" /\ new = NoENI
    /\ device = [e \in ENI |-> 0]
    /\ created = {} /\ policy = {}
    /\ faults = 0

ec2 == <<device, created, policy>>

Fault(kind) ==
    /\ kind \in Faults /\ faults < MaxFaults
    /\ faults' = faults + 1

Min(a, b) == IF a < b THEN a ELSE b

(* AddRateLimited *)
Enqueue == queued' = TRUE /\ failures' = Min(failures + 1, MaxRequeues)

--------------------------------------------------------------------------------
(* The process is restarted: it lists the node afresh. *)
Restart ==
    /\ pc' = "idle"
    /\ queued' = api'.exists /\ failures' = IF api'.exists THEN 1 ELSE 0
    /\ cache' = api' /\ watch' = <<>>

(* How handleNode ends, with w the versions on their way to the informer.    *)
(* Success: forget the failures.  Error: handleErr retries, or ends the      *)
(* process.                                                                  *)
Finish(ok, w) ==
    \/ /\ ok
       /\ pc' = "idle" /\ failures' = 0 /\ watch' = w
       /\ UNCHANGED <<queued, cache>>
    \/ /\ ~ok /\ failures < MaxRequeues
       /\ pc' = "idle" /\ Enqueue /\ watch' = w
       /\ UNCHANGED cache
    \/ ~ok /\ failures = MaxRequeues /\ Restart

(* Mutant: handleNode drops the error. *)
SwallowedError == Finish(TRUE, watch)

Fail == Finish(FALSE, watch)

Goto(to) == pc' = to /\ UNCHANGED <<queued, failures, cache, watch>>

(* UpdateNode with a mutator that sets one annotation or the label.  A       *)
(* request that fails may have been carried out; `ignored` is whether the    *)
(* caller drops the error.  The name is all it knows of the node: it writes  *)
(* to one that was registered again as well.                                 *)
UpdateNode(field, value, ignored) ==
    \/ /\ ~api.exists
       /\ UNCHANGED <<api, faults>>
       /\ Finish(ignored, watch)
    \/ /\ api.exists /\ api' = [api EXCEPT ![field] = value]
       /\ UNCHANGED faults
       /\ Finish(TRUE, Append(watch, api'))
    \/ /\ api.exists /\ api' = [api EXCEPT ![field] = value]
       /\ Fault("update")
       /\ Finish(ignored, Append(watch, api'))
    \/ /\ Fault("update")
       /\ UNCHANGED api
       /\ Finish(ignored, watch)

--------------------------------------------------------------------------------
(* The informer: a version of the node arrives and its key is queued. *)
Sync ==
    /\ watch # <<>>
    /\ cache' = Head(watch) /\ watch' = Tail(watch)
    /\ Enqueue
    /\ UNCHANGED <<instance, api, pc, seen, new, ec2, faults>>

Resync ==
    /\ "resync" \in Faults /\ Len(watch) < MaxLag
    /\ Enqueue
    /\ UNCHANGED <<instance, api, cache, watch, pc, seen, new, ec2, faults>>

Crash ==
    /\ Fault("crash")
    /\ UNCHANGED <<instance, api, seen, new, ec2>>
    /\ Restart

(* Others' changes of the node: the cloud provider sets its provider ID; it  *)
(* is deleted; its kubelet registers it again.                               *)
Change(node) ==
    /\ api' = node /\ watch' = Append(watch, node)
    /\ UNCHANGED <<instance, cache, queued, failures, pc, seen, new, ec2>>

SetProviderID ==
    /\ api.exists /\ ~api.provider
    /\ Change([api EXCEPT !.provider = TRUE])
    /\ UNCHANGED faults

Delete ==
    /\ api.exists /\ Fault("delete")
    /\ Change(Deleted)

Register ==
    /\ ~api.exists
    /\ Change(Registered)
    /\ UNCHANGED faults

--------------------------------------------------------------------------------
(* handleNode reads the informer's copy and decides what to do. *)
Unattached(node) == {i \in 1..Len(node.enis) : ~node.enis[i].attached}

(* Mutant: off by one. *)
NeedsOneMore(node) == Len(node.enis) <= NumENIs

NeedsENI(node) == Len(node.enis) < NumENIs

(* cleanupNode, for a node that is gone, does nothing. *)
Decision(node) ==
    IF ~node.exists \/ ~node.provider THEN "idle"
    ELSE IF ~instance.named            THEN "error"
    ELSE IF ~node.info                 THEN "describe"
    ELSE IF ~instance.known            THEN "error"
    ELSE IF ~node.label                THEN "label"
    ELSE IF Unattached(node) # {}      THEN "attach"
    ELSE IF NeedsENI(node)             THEN "create"
    ELSE "idle"

HandleNode ==
    /\ pc = "idle" /\ queued
    /\ seen' = cache /\ queued' = FALSE
    /\ pc' = Decision(cache)
    /\ failures' = IF pc' = "idle" THEN 0 ELSE failures
    /\ UNCHANGED <<instance, api, cache, watch, new, ec2, faults>>

(* A provider ID that names no instance, or a type the tables do not have:   *)
(* the same error every time.                                                *)
ReturnError ==
    /\ pc = "error"
    /\ UNCHANGED <<instance, api, seen, new, ec2, faults>>
    /\ Fail

(* getInstance, DescribeSubnets, and the instance info annotation. *)
Describe ==
    /\ pc = "describe"
    /\ UpdateNode("info", TRUE, FALSE)
    /\ UNCHANGED <<instance, seen, new, ec2>>

Label ==
    /\ pc = "label"
    /\ UpdateNode("label", TRUE, FALSE)
    /\ UNCHANGED <<instance, seen, new, ec2>>

(* attachENI, for the first interface that is not attached; its index is its *)
(* place in the annotation.  EC2 refuses an interface that is attached and a *)
(* device index that is taken.                                               *)
Target == CHOOSE i \in Unattached(seen) : \A j \in Unattached(seen) : i <= j

Attachable(id, index) == device[id] = 0 /\ \A e \in ENI : device[e] # index

AttachInterface(id, index) ==
    /\ Attachable(id, index)
    /\ device' = [device EXCEPT ![id] = index]
    /\ UNCHANGED <<created, policy>>

AttachENI ==
    /\ pc = "attach"
    /\ LET id == seen.enis[Target].id IN
         \/ AttachInterface(id, Target) /\ Goto("modify")
         \/ ~Attachable(id, Target) /\ UNCHANGED <<api, ec2>> /\ Fail
    /\ UNCHANGED <<instance, api, seen, new, faults>>

SetPolicy(id) ==
    /\ policy' = policy \union {id}
    /\ UNCHANGED <<device, created>>

ModifyAttribute ==
    /\ pc = "modify"
    /\ SetPolicy(seen.enis[Target].id)
    /\ Goto("saveAttached")
    /\ UNCHANGED <<instance, api, seen, new, faults>>

(* Mutant: the flags of the other interfaces are lost. *)
OnlyAttached(enis, i) ==
    [k \in 1..Len(enis) |-> [enis[k] EXCEPT !.attached = (k = i)]]

(* Mutant: the flag is set on a copy of the entry. *)
FlagOnCopy(enis, i) == enis

(* The annotation handleNode has read, with the flag set, replaces the one   *)
(* at the API server.                                                        *)
WithAttached(enis, i) == [enis EXCEPT ![i].attached = TRUE]

SaveAttached ==
    /\ pc = "saveAttached"
    /\ UpdateNode("enis", WithAttached(seen.enis, Target), TRUE)
    /\ UNCHANGED <<instance, seen, new, ec2>>

(* createENI.  The account's quota is ENI. *)
CreateInterface(e) ==
    /\ e \in ENI \ created
    /\ created' = created \union {e}
    /\ UNCHANGED <<device, policy>>

CreateENI ==
    /\ pc = "create"
    /\ UNCHANGED <<instance, api, seen, faults>>
    /\ \/ \E e \in ENI :
             CreateInterface(e) /\ new' = e /\ Goto("saveCreated")
       \/ created = ENI /\ UNCHANGED <<new, ec2>> /\ Fail

SaveCreated ==
    /\ pc = "saveCreated"
    /\ UpdateNode("enis", Append(seen.enis, [id |-> new, attached |-> FALSE]),
                  FALSE)
    /\ UNCHANGED <<instance, seen, new, ec2>>

(* A call to EC2 that fails.  Its request may have been carried out all the *)
(* same, the reply lost: nothing but EC2 knows.                              *)
CarriedOut(kind) ==
    \/ kind = "create" /\ \E e \in ENI : CreateInterface(e)
    \/ kind = "attach" /\ AttachInterface(seen.enis[Target].id, Target)
    \/ kind = "modify" /\ SetPolicy(seen.enis[Target].id)

RequestFails(kind) ==
    /\ pc = kind /\ Fault(kind)
    /\ UNCHANGED ec2 \/ CarriedOut(kind)
    /\ UNCHANGED <<instance, api, seen>>

(* Mutants: the error of setting the deletion policy is ignored; so is that  *)
(* of creating an interface.                                                 *)
PolicyErrorIgnored(kind) ==
    /\ RequestFails(kind)
    /\ UNCHANGED new
    /\ IF kind = "modify" THEN Goto("saveAttached") ELSE Fail

CreateErrorIgnored(kind) ==
    /\ RequestFails(kind)
    /\ IF kind = "create"
         THEN new' = NoENI /\ Goto("saveCreated")
         ELSE UNCHANGED new /\ Fail

CallFails(kind) ==
    /\ RequestFails(kind)
    /\ UNCHANGED new
    /\ Fail

EC2Fails == \E kind \in {"describe", "create", "attach", "modify"} :
                CallFails(kind)

Handler == HandleNode \/ ReturnError \/ Describe \/ Label \/ AttachENI
           \/ ModifyAttribute \/ SaveAttached \/ CreateENI \/ SaveCreated

Next == Sync \/ Resync \/ Crash \/ SetProviderID \/ Delete \/ Register
        \/ EC2Fails \/ Handler

Spec == Init /\ [][Next]_vars

(* The watch delivers, and the worker runs. *)
FairSpec == Spec /\ WF_vars(Sync) /\ WF_vars(Handler)

--------------------------------------------------------------------------------
(* Properties *)

Recorded(n) == {n.enis[i].id : i \in 1..Len(n.enis)}

Real(n) ==
    \A i \in 1..Len(n.enis) :
        n.enis[i].attached => device[n.enis[i].id] = i /\ n.enis[i].id \in policy

(* The node agent relies on the annotation: an interface flagged attached is *)
(* at the device index its place stands for and has its deletion policy set, *)
(* however stale the copies that overwrite it (handleNode, attachENI).       *)
AttachedIsReal == Real(api)

Fits(n) ==
    /\ Len(n.enis) <= NumENIs
    /\ \A i, j \in 1..Len(n.enis) : n.enis[i].id = n.enis[j].id => i = j
    /\ Recorded(n) \subseteq created

(* The annotation never lists more interfaces than the instance type takes,  *)
(* nor one twice, nor one EC2 has not created (createENI, SaveCreated).      *)
AnnotationFits == Fits(api)

(* What both rest on.  Any copy of the node may be the one that overwrites   *)
(* the annotation, so all of them are as good.                               *)
CopiesAreGood ==
    \A n \in {api, cache, seen} \union {watch[k] : k \in 1..Len(watch)} :
        Real(n) /\ Fits(n)

(* What handleNode has done when it updates the node.                        *)
DoneBeforeSaved ==
    /\ pc \in {"attach", "modify", "saveAttached"} => Unattached(seen) # {}
    /\ pc \in {"modify", "saveAttached"} =>
          device[seen.enis[Target].id] = Target
    /\ pc = "saveAttached" => seen.enis[Target].id \in policy
    /\ pc \in {"create", "saveCreated"} => NeedsENI(seen)
    /\ pc = "saveCreated" => new \in created \ Recorded(seen)

IInv == CopiesAreGood /\ DoneBeforeSaved

(* The converse: as long as nothing has failed, what is attached at EC2 is   *)
(* flagged at its place in the annotation, or the running attachENI is about *)
(* to flag it.  The copies handleNode writes back may be stale, but the flag *)
(* of an attached interface is never lost to them.                           *)
AttachmentsAreRecorded ==
    faults = 0 =>
        \A e \in ENI : device[e] # 0 =>
            \/ /\ device[e] \in 1..Len(api.enis)
               /\ api.enis[device[e]] = [id |-> e, attached |-> TRUE]
            \/ pc \in {"modify", "saveAttached"} /\ seen.enis[Target].id = e

(* "Do one at a time to make sure we have them persisted"                    *)
(* (controller.go:285-286): an interface that was created is in the          *)
(* annotation, or about to be put there.                                     *)
CreatedIsRecorded ==
    \A e \in created : e \in Recorded(api) \/ (pc = "saveCreated" /\ new = e)

(* The node agent can rely on what NodeAnnotation.tla promises: no stale     *)
(* copy, failed update or restart takes an attached interface out of the     *)
(* annotation again, short of a new Node object (SaveAttached, SaveCreated). *)
(* Not so when the node is deleted and registered four times while the       *)
(* informer has yet to see the first: copies of several former lives then    *)
(* overwrite each other.  MaxFaults is below that.                           *)
Annotation ==
    INSTANCE NodeAnnotation WITH
        node <- [annotated |-> api.enis # <<>>,
                 attached |-> {i \in 1..Len(api.enis) : api.enis[i].attached}]

ImplementsNodeAnnotation == Annotation!Spec

Configured ==
    Len(api.enis) = NumENIs /\ Unattached(api) = {} /\ api.info /\ api.label

(* The two ways it can get stuck for good: an interface is recorded as not   *)
(* attached while EC2 will not attach it (it is attached, by a call whose    *)
(* reply was lost or whose second half or record failed, or its index is     *)
(* taken by an interface of the node's former life), or there is no          *)
(* interface left to create.                                                 *)
Wedged ==
    \/ \E i \in Unattached(api) : ~Attachable(api.enis[i].id, i)
    \/ created = ENI

(* The first of these takes a failure: stale copies alone never leave an     *)
(* interface in the annotation that attachENI could not attach.              *)
OnlyFailuresWedge ==
    faults = 0 /\ pc \notin {"modify", "saveAttached"} =>
        \A i \in Unattached(api) : Attachable(api.enis[i].id, i)

(* A node the controller can do something about. *)
Manageable ==
    api.exists /\ api.provider /\ instance.named /\ instance.known

(* Step by step and watch by watch, through failed requests, crashes,        *)
(* resyncs and a deletion, the controller ends up with every interface the   *)
(* instance takes created, attached and recorded, unless it is wedged        *)
(* (handleNode bails out after each update and relies on the watch and on    *)
(* handleErr's retries).                                                     *)
EventuallyConfigured == <>[](Manageable => Configured \/ Wedged)
================================================================================
