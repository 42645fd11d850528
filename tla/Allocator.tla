------------------------------- MODULE Allocator -------------------------------
(***************************************************************************)
(* The node's IP allocator (pkg/allocator) behind the gRPC IPAM service,   *)
(* with the mutex, the state file and the process that can die at any      *)
(* step.  A call is one gRPC Add or Del of a container, or the interface   *)
(* controller's SetENIs; its program counter is pc[call].  The mutex is    *)
(* held exactly while the state file is written, since everything a call   *)
(* does between Lock and Write only touches memory the mutex protects.     *)
(*                                                                         *)
(* The sandbox's side (kubelet and the CNI plugin) is the environment: one *)
(* Add and then one Del per container ID, an error of Del ignored          *)
(* (cmd/cni-vpcnet/main.go:151-157).                                       *)
(***************************************************************************)
EXTENDS IPSelection

CONSTANTS Container,     \* container (sandbox) IDs, never used again
          NoContainer,   \* the mark of a free address
          IP,            \* addresses, as numbers
          NoIP,          \* nil: LastFreedIP before the first release
          Pools,         \* the address sets SetENIs may be called with
          Faults         \* which of "crash", "write", "abandon" can happen

ASSUME ContainerAssumption == NoContainer \notin Container
ASSUME IPAssumption == IP \subseteq Nat /\ NoIP \notin IP
ASSUME PoolsAssumption == Pools \subseteq SUBSET IP
ASSUME FaultsAssumption == Faults \subseteq {"crash", "write", "abandon"}

Add(c)  == [op |-> "Add", c |-> c]
Del(c)  == [op |-> "Del", c |-> c]
SetCall == [op |-> "SetENIs", c |-> NoContainer]
NoCall  == [op |-> "None", c |-> NoContainer]
Call    == [op : {"Add", "Del"}, c : Container] \union {SetCall}

Results == {"ok", "ErrNoFreeIPs", "ErrEmptyPool", "ErrCouldNotAllocate",
            "ErrWrite"}

VARIABLES
    up,         \* the daemon process is running
    enis,       \* State.ENIs, as the set of their addresses
    alloc,      \* State.Allocations: address -> container, or NoContainer
    lastFreed,  \* State.LastFreedIP
    lock,       \* allocatorMu: the call that holds it, or NoCall
    pc,         \* where each call is: idle, check, lock, write, writing, or
                \* the result it is about to return
    addr,       \* the address Add has reserved for each container
    disk,       \* the state file
    sandbox,    \* the container's life as kubelet sees it
    lossy       \* containers whose Add was abandoned or whose Del failed

memory == <<enis, alloc, lastFreed>>
vars == <<up, enis, alloc, lastFreed, lock, pc, addr, disk, sandbox, lossy>>

Unallocated == [ip \in IP |-> NoContainer]

TypeOK ==
    /\ up \in BOOLEAN
    /\ enis \subseteq IP
    /\ alloc \in [IP -> Container \union {NoContainer}]
    /\ lastFreed \in IP \union {NoIP}
    /\ lock \in Call \union {NoCall}
    /\ pc \in [Call -> {"idle", "check", "lock", "write", "writing"}
                       \union Results]
    /\ addr \in [Container -> IP \union {NoIP}]
    /\ disk \in [status : {"absent", "ok", "torn"}, enis : SUBSET IP,
                 alloc : [IP -> Container \union {NoContainer}],
                 lastFreed : IP \union {NoIP}]
    /\ sandbox \in [Container -> {"new", "adding", "running", "failed",
                                  "deleting", "gone"}]
    /\ lossy \subseteq Container

Init ==
    /\ up = FALSE
    /\ enis = {} /\ alloc = Unallocated /\ lastFreed = NoIP
    /\ lock = NoCall
    /\ pc = [call \in Call |-> "idle"]
    /\ addr = [c \in Container |-> NoIP]
    /\ disk = [status |-> "absent", enis |-> {}, alloc |-> Unallocated,
               lastFreed |-> NoIP]
    /\ sandbox = [c \in Container |-> "new"]
    /\ lossy = {}

--------------------------------------------------------------------------------
(* New: read the state file if there is one.  A file that does not parse     *)
(* makes New fail, and main exits: the daemon stays down.                    *)
Restorable == disk.status # "torn"

Start ==
    /\ ~up /\ Restorable
    /\ up' = TRUE
    /\ enis' = disk.enis /\ alloc' = disk.alloc /\ lastFreed' = disk.lastFreed
    /\ UNCHANGED <<lock, pc, addr, disk, sandbox, lossy>>

(* The process dies: memory and every call in flight are lost.  The plugin   *)
(* fails an interrupted Add, and ignores the error of an interrupted Del.    *)
Crash ==
    /\ up /\ "crash" \in Faults
    /\ up' = FALSE
    /\ enis' = {} /\ alloc' = Unallocated /\ lastFreed' = NoIP
    /\ lock' = NoCall
    /\ pc' = [call \in Call |-> "idle"]
    /\ sandbox' = [c \in Container |->
                     CASE sandbox[c] = "adding"   -> "failed"
                       [] sandbox[c] = "deleting" -> "gone"
                       [] OTHER                   -> sandbox[c]]
    /\ lossy' = lossy \union {c \in Container : sandbox[c] = "deleting"}
    /\ UNCHANGED <<addr, disk>>

--------------------------------------------------------------------------------
(* The CNI plugin calls Add for a new sandbox. *)
CallAdd(c) ==
    /\ sandbox[c] = "new"
    /\ \/ /\ up
          /\ sandbox' = [sandbox EXCEPT ![c] = "adding"]
          /\ pc' = [pc EXCEPT ![Add(c)] = "check"]
       \/ /\ ~up
          /\ sandbox' = [sandbox EXCEPT ![c] = "failed"]
          /\ UNCHANGED pc
    /\ UNCHANGED <<up, memory, lock, addr, disk, lossy>>

(* The sandbox is given up while Add still runs: the handler ignores its     *)
(* context and carries on.                                                   *)
Abandon(c) ==
    /\ "abandon" \in Faults /\ sandbox[c] = "adding"
    /\ sandbox' = [sandbox EXCEPT ![c] = "failed"]
    /\ lossy' = lossy \union {c}
    /\ UNCHANGED <<up, memory, lock, pc, addr, disk>>

(* The sandbox is torn down: the plugin calls Del, and carries on if the     *)
(* daemon is not there.                                                      *)
CallDel(c) ==
    /\ sandbox[c] \in {"running", "failed"}
    /\ \/ /\ up
          /\ sandbox' = [sandbox EXCEPT ![c] = "deleting"]
          /\ pc' = [pc EXCEPT ![Del(c)] = "lock"]
          /\ UNCHANGED lossy
       \/ /\ ~up
          /\ sandbox' = [sandbox EXCEPT ![c] = "gone"]
          /\ lossy' = lossy \union {c}
          /\ UNCHANGED pc
    /\ UNCHANGED <<up, memory, lock, addr, disk>>

--------------------------------------------------------------------------------
(* Mutant: no mutex. *)
NotLocked == up

(* A call may enter the section allocatorMu protects. *)
LockFree == up /\ lock = NoCall

(* Mutant: Allocations is not looked at. *)
AllIPs == enis

FreeIPs == {ip \in enis : alloc[ip] = NoContainer}

(* FreeAddressCount() < 1: takes and releases the mutex in one step. *)
PoolIsFull == FreeIPs = {}

(* Allocate asks for the free count before it takes the mutex. *)
CheckFree(c) ==
    /\ pc[Add(c)] = "check" /\ LockFree
    /\ pc' = [pc EXCEPT ![Add(c)] =
                IF PoolIsFull THEN "ErrNoFreeIPs" ELSE "lock"]
    /\ UNCHANGED <<up, memory, lock, addr, disk, sandbox, lossy>>

(* The part of Allocate under the mutex, up to the write. *)
Reserve(c, ip) ==
    /\ alloc' = [alloc EXCEPT ![ip] = c]
    /\ addr' = [addr EXCEPT ![c] = ip]
    /\ lock' = Add(c)
    /\ pc' = [pc EXCEPT ![Add(c)] = "write"]

CannotReserve(c, err) ==
    /\ pc' = [pc EXCEPT ![Add(c)] = err]
    /\ UNCHANGED <<alloc, addr, lock>>

Allocate(c) ==
    /\ pc[Add(c)] = "lock" /\ LockFree
    /\ \/ enis = {} /\ CannotReserve(c, "ErrEmptyPool")
       \/ enis # {} /\ FreeIPs = {} /\ CannotReserve(c, "ErrCouldNotAllocate")
       \/ \E ip \in LastFreeIP(enis, enis \ FreeIPs, lastFreed) : Reserve(c, ip)
    /\ UNCHANGED <<up, enis, lastFreed, disk, sandbox, lossy>>

(* Mutant: the search for the container's address looks in the current pool. *)
HeldInPool(c) == {ip \in enis : alloc[ip] = c}

(* ReleaseByContainer, up to the write: it writes even when it finds nothing *)
HeldBy(c) == {ip \in IP : alloc[ip] = c}

ReleaseByContainer(c) ==
    /\ pc[Del(c)] = "lock" /\ LockFree
    /\ \/ \E ip \in HeldBy(c) : /\ alloc' = [alloc EXCEPT ![ip] = NoContainer]
                                /\ lastFreed' = ip
       \/ HeldBy(c) = {} /\ UNCHANGED <<alloc, lastFreed>>
    /\ lock' = Del(c)
    /\ pc' = [pc EXCEPT ![Del(c)] = "write"]
    /\ UNCHANGED <<up, enis, addr, disk, sandbox, lossy>>

(* SetENIs, up to the write; the interface controller calls it again and     *)
(* again, with whatever the node's annotation holds.                         *)
SetENIs(pool) ==
    /\ pc[SetCall] = "idle" /\ LockFree
    /\ enis' = pool
    /\ lock' = SetCall
    /\ pc' = [pc EXCEPT ![SetCall] = "write"]
    /\ UNCHANGED <<up, alloc, lastFreed, addr, disk, sandbox, lossy>>

--------------------------------------------------------------------------------
(* Mutants: a field of State is not marshalled. *)
WithoutAllocations == [status |-> "ok", enis |-> enis, alloc |-> Unallocated,
                       lastFreed |-> lastFreed]

WithoutLastFreed == [status |-> "ok", enis |-> enis, alloc |-> alloc]

(* State.Write, called with the mutex held.  ioutil.WriteFile truncates the  *)
(* file first: until the last byte is there it does not parse.               *)
Snapshot == [status |-> "ok", enis |-> enis, alloc |-> alloc,
             lastFreed |-> lastFreed]

Torn == [status |-> "torn", enis |-> {}, alloc |-> Unallocated,
         lastFreed |-> NoIP]

WriteTruncate ==
    /\ lock # NoCall /\ pc[lock] = "write"
    /\ disk' = Torn
    /\ pc' = [pc EXCEPT ![lock] = "writing"]
    /\ UNCHANGED <<up, memory, lock, addr, sandbox, lossy>>

WriteDone ==
    /\ lock # NoCall /\ pc[lock] = "writing"
    /\ disk' = Snapshot
    /\ pc' = [pc EXCEPT ![lock] = "ok"]
    /\ lock' = NoCall
    /\ UNCHANGED <<up, memory, addr, sandbox, lossy>>

(* Mutant: the error of Write is dropped. *)
ErrorDropped == "ok"

(* What a call returns when Write fails; memory keeps what the call did. *)
WriteError == "ErrWrite"

(* Mutant: the error path returns without unlocking. *)
FailsLocked ==
    /\ "write" \in Faults
    /\ lock # NoCall /\ pc[lock] \in {"write", "writing"}
    /\ pc' = [pc EXCEPT ![lock] = WriteError]
    /\ UNCHANGED <<up, memory, lock, addr, disk, sandbox, lossy>>

WriteFails ==
    /\ "write" \in Faults
    /\ lock # NoCall /\ pc[lock] \in {"write", "writing"}
    /\ pc' = [pc EXCEPT ![lock] = WriteError]
    /\ lock' = NoCall
    /\ UNCHANGED <<up, memory, addr, disk, sandbox, lossy>>

--------------------------------------------------------------------------------
(* The gRPC answers, and SetENIs returning to the controller. *)
ReturnAdd(c) ==
    /\ pc[Add(c)] \in Results
    /\ sandbox' = [sandbox EXCEPT ![c] =
                     IF @ # "adding" THEN @
                     ELSE IF pc[Add(c)] = "ok" THEN "running" ELSE "failed"]
    /\ pc' = [pc EXCEPT ![Add(c)] = "idle"]
    /\ UNCHANGED <<up, memory, lock, addr, disk, lossy>>

ReturnDel(c) ==
    /\ pc[Del(c)] \in Results
    /\ sandbox' = [sandbox EXCEPT ![c] = "gone"]
    /\ lossy' = IF pc[Del(c)] = "ok" THEN lossy ELSE lossy \union {c}
    /\ pc' = [pc EXCEPT ![Del(c)] = "idle"]
    /\ UNCHANGED <<up, memory, lock, addr, disk>>

ReturnSetENIs ==
    /\ pc[SetCall] \in Results
    /\ pc' = [pc EXCEPT ![SetCall] = "idle"]
    /\ UNCHANGED <<up, memory, lock, addr, disk, sandbox, lossy>>

--------------------------------------------------------------------------------
Write == WriteTruncate \/ WriteDone \/ WriteFails

Next ==
    \/ Start \/ Crash \/ Write \/ ReturnSetENIs
    \/ \E pool \in Pools : SetENIs(pool)
    \/ \E c \in Container :
          \/ CallAdd(c) \/ Abandon(c) \/ CallDel(c)
          \/ CheckFree(c) \/ Allocate(c) \/ ReleaseByContainer(c)
          \/ ReturnAdd(c) \/ ReturnDel(c)

Spec == Init /\ [][Next]_vars

(* A goroutine that can run does run, and the mutex does not starve a waiter *)
(* (sync.Mutex switches to handing over to a waiter of more than 1ms).       *)
Fairness ==
    /\ WF_vars(Write) /\ WF_vars(ReturnSetENIs)
    /\ \A c \in Container :
          /\ SF_vars(CheckFree(c)) /\ SF_vars(Allocate(c))
          /\ SF_vars(ReleaseByContainer(c))
          /\ WF_vars(ReturnAdd(c)) /\ WF_vars(ReturnDel(c))

FairSpec == Spec /\ Fairness

--------------------------------------------------------------------------------
(* Properties *)

Running(c) == sandbox[c] = "running"

(* An address a pod was given stays recorded as that pod's until its         *)
(* teardown, in memory whenever the daemon is up and in the state file       *)
(* whenever the file parses: through concurrent calls, failed writes,        *)
(* crashes and restarts (Allocate, ReleaseByContainer, Write, New).          *)
GrantsHeld ==
    \A c \in Container : Running(c) =>
        /\ addr[c] \in IP
        /\ up => alloc[addr[c]] = c
        /\ disk.status = "ok" => disk.alloc[addr[c]] = c
        /\ disk.status # "absent"

(* No two running pods have the same address (Allocate's walk and mutex). *)
NoSharedIP ==
    \A c, d \in Container : Running(c) /\ Running(d) /\ c # d =>
        addr[c] # addr[d]

(* A container that is gone holds no address, in memory or in the file,      *)
(* unless its Add was abandoned or its Del did not succeed: every other      *)
(* error path of Allocate gives its address back in ReleaseByContainer.      *)
NoLeak ==
    \A c \in Container \ lossy : sandbox[c] = "gone" =>
        \A ip \in IP : /\ alloc[ip] # c
                       /\ disk.alloc[ip] # c

(* Every call returns: Allocate, which calls FreeAddressCount, does not      *)
(* deadlock on the mutex, and every path out of a call unlocks it.           *)
CallsReturn == \A call \in Call : pc[call] # "idle" ~> pc[call] = "idle"

(* The grants in force, as AddressPool sees them. *)
held == {<<c, addr[c]>> : c \in {d \in Container : Running(d)}}

Pool == INSTANCE AddressPool WITH held <- held

(* The allocator implements AddressPool: it grants only addresses nobody     *)
(* uses, and only the teardown of a sandbox ends its grant.                  *)
ImplementsAddressPool == Pool!Spec

--------------------------------------------------------------------------------
(* A promise of a comment in the code *)

(* "It can snapshot and restore its state to disk" (allocator.go:24-25): a   *)
(* daemon that died can start again.                                         *)
CanRestore == up \/ Restorable

--------------------------------------------------------------------------------
(* The inductive invariant *)

(* allocatorMu is held by the one call that writes, in a running daemon, and *)
(* a file being written does not parse.                                      *)
MutexOK ==
    /\ \A call \in Call : pc[call] \in {"write", "writing"} <=> lock = call
    /\ lock # NoCall => up
    /\ lock # NoCall /\ pc[lock] = "writing" => disk.status = "torn"

DownIsIdle ==
    ~up => /\ \A call \in Call : pc[call] = "idle"
           /\ alloc = Unallocated

(* One Add and then one Del per container, unless the Add was abandoned.     *)
OneCallAtATime ==
    \A c \in Container :
        /\ pc[Add(c)] # "idle" => /\ sandbox[c] # "new"
                                  /\ c \notin lossy => sandbox[c] = "adding"
        /\ pc[Del(c)] # "idle" => sandbox[c] = "deleting"

NowhereIn(c, map) == \A ip \in IP : map[ip] # c

(* Before its Add has reserved an address a container has none, and it never *)
(* has two.                                                                  *)
AtMostOneIP ==
    /\ \A c \in Container :
          sandbox[c] = "new" \/ pc[Add(c)] \in {"check", "lock"} =>
              NowhereIn(c, alloc) /\ NowhereIn(c, disk.alloc)
    /\ \A i, j \in IP :
          /\ alloc[i] = alloc[j] /\ alloc[i] # NoContainer => i = j
          /\ disk.alloc[i] = disk.alloc[j] /\ disk.alloc[i] # NoContainer => i = j

(* What Add has reserved is there while it writes and when it answers.       *)
AddHolds ==
    \A c \in Container :
        /\ lock = Add(c) => addr[c] \in IP /\ alloc[addr[c]] = c
        /\ pc[Add(c)] = "ok" /\ sandbox[c] = "adding" =>
              /\ addr[c] \in IP
              /\ alloc[addr[c]] = c
              /\ disk.status = "ok" => disk.alloc[addr[c]] = c
              /\ disk.status # "absent"

(* What Del has released is gone from memory, and from the file when it      *)
(* answers.                                                                  *)
DelReleased ==
    \A c \in Container \ lossy :
        /\ pc[Del(c)] \in {"write", "writing", "ok"} => NowhereIn(c, alloc)
        /\ pc[Del(c)] = "ok" => NowhereIn(c, disk.alloc)

(* The inductive invariant: what makes GrantsHeld, NoSharedIP and NoLeak     *)
(* hold at every step of Allocate, ReleaseByContainer and Write.             *)
IInv ==
    /\ TypeOK /\ MutexOK /\ DownIsIdle /\ OneCallAtATime /\ AtMostOneIP
    /\ AddHolds /\ DelReleased
    /\ GrantsHeld /\ NoSharedIP /\ NoLeak
================================================================================
