---------------------------- MODULE AllocatorProofs ----------------------------
(***************************************************************************)
(* Proofs about Allocator.tla, for every set of containers, addresses,     *)
(* pools and faults: the inductive invariant, the three safety invariants  *)
(* it contains, and the implementation of AddressPool.                     *)
(***************************************************************************)
EXTENDS Allocator, TLAPS

USE ContainerAssumption, IPAssumption, PoolsAssumption

(* The calls of different containers, and the two calls of one, differ.      *)
LEMMA CallsDiffer ==
    /\ SetCall \in Call /\ NoCall \notin Call
    /\ \A c \in Container :
          /\ Add(c) \in Call /\ Del(c) \in Call
          /\ Add(c) # SetCall /\ Del(c) # SetCall
          /\ Add(c) # NoCall /\ Del(c) # NoCall
    /\ SetCall # NoCall
    /\ \A c, d \in Container :
          /\ Add(c) # Del(d)
          /\ Add(c) = Add(d) => c = d
          /\ Del(c) = Del(d) => c = d
BY DEF Add, Del, SetCall, NoCall, Call

(* What Allocate reserves is an address of the pool that is free.            *)
LEMMA ReservesFreeIP ==
    ASSUME TypeOK, NEW ip \in LastFreeIP(enis, enis \ FreeIPs, lastFreed)
    PROVE  ip \in IP /\ ip \in enis /\ alloc[ip] = NoContainer
BY DEF TypeOK, LastFreeIP, FreeIPs

--------------------------------------------------------------------------------
LEMMA InitTypeOK == Init => TypeOK
<1> SUFFICES ASSUME Init PROVE TypeOK
    OBVIOUS
<1>1. Unallocated \in [IP -> Container \union {NoContainer}]
    BY DEF Unallocated
<1>2. disk \in [status : {"absent", "ok", "torn"}, enis : SUBSET IP,
               alloc : [IP -> Container \union {NoContainer}],
               lastFreed : IP \union {NoIP}]
    BY <1>1 DEF Init
<1>. QED BY <1>1, <1>2 DEF Init, TypeOK

LEMMA TypeOKStep ==
    ASSUME TypeOK, Next
    PROVE  TypeOK'
<1> USE CallsDiffer
<1>1. CASE Start
    BY <1>1 DEF Start, TypeOK
<1>2. CASE Crash
    <2>1. sandbox' \in [Container -> {"new", "adding", "running", "failed",
                                      "deleting", "gone"}]
        BY <1>2 DEF Crash, TypeOK
    <2>. QED BY <1>2, <2>1 DEF Crash, TypeOK, Unallocated
<1>3. CASE WriteTruncate
    BY <1>3 DEF WriteTruncate, TypeOK, memory, Torn, Unallocated
<1>4. CASE WriteDone
    BY <1>4 DEF WriteDone, TypeOK, memory, Snapshot, Results
<1>5. CASE WriteFails
    BY <1>5 DEF WriteFails, WriteError, TypeOK, memory, Results
<1>6. CASE ReturnSetENIs
    BY <1>6 DEF ReturnSetENIs, TypeOK, memory
<1>7. ASSUME NEW pool \in Pools, SetENIs(pool) PROVE TypeOK'
    BY <1>7 DEF SetENIs, TypeOK
<1>8. ASSUME NEW c \in Container, CallAdd(c) PROVE TypeOK'
    BY <1>8 DEF CallAdd, TypeOK, memory
<1>9. ASSUME NEW c \in Container, Abandon(c) PROVE TypeOK'
    BY <1>9 DEF Abandon, TypeOK, memory
<1>10. ASSUME NEW c \in Container, CallDel(c) PROVE TypeOK'
    BY <1>10 DEF CallDel, TypeOK, memory
<1>11. ASSUME NEW c \in Container, CheckFree(c) PROVE TypeOK'
    BY <1>11 DEF CheckFree, TypeOK, memory, Results
<1>12. ASSUME NEW c \in Container, Allocate(c) PROVE TypeOK'
    <2>1. ASSUME NEW ip \in LastFreeIP(enis, enis \ FreeIPs, lastFreed),
                 Reserve(c, ip)
          PROVE  TypeOK'
        <3>1. ip \in IP
            BY ReservesFreeIP
        <3>. QED BY <1>12, <2>1, <3>1 DEF Allocate, Reserve, TypeOK
    <2>2. ASSUME NEW err \in Results, CannotReserve(c, err) PROVE TypeOK'
        BY <1>12, <2>2 DEF Allocate, CannotReserve, TypeOK
    <2>. QED BY <1>12, <2>1, <2>2 DEF Allocate, Results
<1>13. ASSUME NEW c \in Container, ReleaseByContainer(c) PROVE TypeOK'
    BY <1>13 DEF ReleaseByContainer, HeldBy, TypeOK
<1>14. ASSUME NEW c \in Container, ReturnAdd(c) PROVE TypeOK'
    BY <1>14 DEF ReturnAdd, TypeOK, memory
<1>15. ASSUME NEW c \in Container, ReturnDel(c) PROVE TypeOK'
    BY <1>15 DEF ReturnDel, TypeOK, memory
<1>. QED
    BY <1>1, <1>2, <1>3, <1>4, <1>5, <1>6, <1>7, <1>8, <1>9, <1>10, <1>11,
       <1>12, <1>13, <1>14, <1>15 DEF Next, Write

(* Type correctness of the allocator's state, its file and its calls.        *)
THEOREM TypeCorrect == Spec => []TypeOK
<1>1. TypeOK /\ UNCHANGED vars => TypeOK'
    BY DEF TypeOK, vars
<1>. QED BY <1>1, InitTypeOK, TypeOKStep, PTL DEF Spec

--------------------------------------------------------------------------------
(* New reads back what the file holds.                                       *)
LEMMA StartKeepsIInv ==
    ASSUME IInv, TypeOK', Start
    PROVE  IInv'
<1>1. MutexOK' /\ DownIsIdle' /\ OneCallAtATime' /\ AtMostOneIP' /\
   NoSharedIP' /\ NoLeak'
    BY DEF IInv, Start, MutexOK, DownIsIdle, OneCallAtATime, AtMostOneIP,
       NowhereIn, NoSharedIP, Running, NoLeak
<1>2. AddHolds'
    BY CallsDiffer DEF IInv, Start, AddHolds, TypeOK, MutexOK,
       OneCallAtATime, GrantsHeld, Restorable
<1>3. DelReleased'
    BY CallsDiffer DEF IInv, Start, DelReleased, TypeOK, NowhereIn,
       MutexOK, OneCallAtATime, NoLeak, Restorable
<1>4. GrantsHeld'
    BY CallsDiffer DEF IInv, Start, GrantsHeld, TypeOK, Running,
       Restorable
<1>. QED BY <1>1, <1>2, <1>3, <1>4 DEF IInv

(* Memory is lost, the file and the grants are not.                          *)
LEMMA CrashKeepsIInv ==
    ASSUME IInv, TypeOK', Crash
    PROVE  IInv'
<1>1. DownIsIdle' /\ GrantsHeld' /\ NoSharedIP' /\ NoLeak'
    BY DEF IInv, Crash, DownIsIdle, Unallocated, GrantsHeld, Running,
       NoSharedIP, NoLeak
<1>2. MutexOK'
    BY CallsDiffer DEF IInv, Crash, MutexOK, TypeOK, Unallocated
<1>3. OneCallAtATime'
    BY CallsDiffer DEF IInv, Crash, OneCallAtATime, TypeOK, Unallocated
<1>4. AtMostOneIP'
    BY CallsDiffer DEF IInv, Crash, AtMostOneIP, TypeOK, NowhereIn,
       Unallocated
<1>5. AddHolds'
    BY CallsDiffer DEF IInv, Crash, AddHolds, TypeOK, Unallocated
<1>6. DelReleased'
    BY CallsDiffer DEF IInv, Crash, DelReleased, TypeOK, NowhereIn,
       Unallocated
<1>. QED BY <1>1, <1>2, <1>3, <1>4, <1>5, <1>6 DEF IInv

(* The pool changes, the allocations do not.                                 *)
LEMMA SetENIsKeepsIInv ==
    ASSUME IInv, TypeOK', NEW pool \in Pools, SetENIs(pool)
    PROVE  IInv'
<1>1. DownIsIdle' /\ AtMostOneIP' /\ GrantsHeld' /\ NoSharedIP' /\ NoLeak'
    BY DEF IInv, SetENIs, DownIsIdle, LockFree, AtMostOneIP, NowhereIn,
       GrantsHeld, Running, NoSharedIP, NoLeak
<1>2. MutexOK'
    BY CallsDiffer DEF IInv, SetENIs, MutexOK, TypeOK, LockFree
<1>3. OneCallAtATime'
    BY CallsDiffer DEF IInv, SetENIs, OneCallAtATime, TypeOK,
       LockFree
<1>4. AddHolds'
    BY CallsDiffer DEF IInv, SetENIs, AddHolds, TypeOK,
       LockFree
<1>5. DelReleased'
    BY CallsDiffer DEF IInv, SetENIs, DelReleased, TypeOK,
       NowhereIn, LockFree
<1>. QED BY <1>1, <1>2, <1>3, <1>4, <1>5 DEF IInv

(* Add begins.                                                               *)
LEMMA CallAddKeepsIInv ==
    ASSUME IInv, TypeOK', NEW c \in Container, CallAdd(c)
    PROVE  IInv'
<1>1. DownIsIdle'
    BY DEF IInv, CallAdd, DownIsIdle, memory
<1>2. MutexOK'
    BY CallsDiffer DEF IInv, CallAdd, MutexOK, TypeOK,
       OneCallAtATime, memory
<1>3. OneCallAtATime'
    BY CallsDiffer DEF IInv, CallAdd, OneCallAtATime, TypeOK,
       memory
<1>4. AtMostOneIP'
    BY CallsDiffer DEF IInv, CallAdd, AtMostOneIP, TypeOK,
       NowhereIn, memory
<1>5. AddHolds'
    BY CallsDiffer DEF IInv, CallAdd, AddHolds, TypeOK, memory
<1>6. DelReleased'
    BY CallsDiffer DEF IInv, CallAdd, DelReleased, TypeOK,
       NowhereIn, memory
<1>7. GrantsHeld'
    BY CallsDiffer DEF IInv, CallAdd, GrantsHeld, TypeOK, Running,
       memory
<1>8. NoLeak'
    BY CallsDiffer DEF IInv, CallAdd, NoLeak, TypeOK, memory
<1>9. NoSharedIP'
    BY CallsDiffer DEF IInv, CallAdd, NoSharedIP, TypeOK, Running,
       memory
<1>. QED BY <1>1, <1>2, <1>3, <1>4, <1>5, <1>6, <1>7, <1>8, <1>9 DEF IInv

(* Add is given up.                                                          *)
LEMMA AbandonKeepsIInv ==
    ASSUME IInv, TypeOK', NEW c \in Container, Abandon(c)
    PROVE  IInv'
<1>1. MutexOK' /\ DownIsIdle' /\ OneCallAtATime' /\ AtMostOneIP' /\ AddHolds'
   /\ DelReleased' /\ GrantsHeld' /\ NoSharedIP' /\ NoLeak'
    BY DEF IInv, Abandon, MutexOK, memory, DownIsIdle, OneCallAtATime,
       AtMostOneIP, NowhereIn, AddHolds, DelReleased, GrantsHeld, Running,
       NoSharedIP, NoLeak
<1>. QED BY <1>1 DEF IInv

(* Del begins: the grant is over.                                            *)
LEMMA CallDelKeepsIInv ==
    ASSUME IInv, TypeOK', NEW c \in Container, CallDel(c)
    PROVE  IInv'
<1>1. DownIsIdle'
    BY DEF IInv, CallDel, DownIsIdle, memory
<1>2. MutexOK'
    BY CallsDiffer DEF IInv, CallDel, MutexOK, TypeOK,
       OneCallAtATime, memory
<1>3. OneCallAtATime'
    BY CallsDiffer DEF IInv, CallDel, OneCallAtATime, TypeOK,
       memory
<1>4. AtMostOneIP'
    BY CallsDiffer DEF IInv, CallDel, AtMostOneIP, TypeOK,
       NowhereIn, memory
<1>5. AddHolds'
    BY CallsDiffer DEF IInv, CallDel, AddHolds, TypeOK, memory
<1>6. DelReleased'
    BY CallsDiffer DEF IInv, CallDel, DelReleased, TypeOK,
       NowhereIn, memory
<1>7. GrantsHeld'
    BY CallsDiffer DEF IInv, CallDel, GrantsHeld, TypeOK, Running,
       memory
<1>8. NoLeak'
    BY CallsDiffer DEF IInv, CallDel, NoLeak, TypeOK, memory
<1>9. NoSharedIP'
    BY CallsDiffer DEF IInv, CallDel, NoSharedIP, TypeOK, Running,
       memory
<1>. QED BY <1>1, <1>2, <1>3, <1>4, <1>5, <1>6, <1>7, <1>8, <1>9 DEF IInv

(* Allocate looks at the free count.                                         *)
LEMMA CheckFreeKeepsIInv ==
    ASSUME IInv, TypeOK', NEW c \in Container, CheckFree(c)
    PROVE  IInv'
<1>1. MutexOK' /\ DownIsIdle' /\ OneCallAtATime' /\ AtMostOneIP' /\ AddHolds'
   /\ GrantsHeld' /\ NoSharedIP' /\ NoLeak'
    BY DEF IInv, CheckFree, MutexOK, memory, DownIsIdle, OneCallAtATime,
       AtMostOneIP, NowhereIn, AddHolds, GrantsHeld, Running, NoSharedIP,
       NoLeak
<1>2. DelReleased'
    BY CallsDiffer DEF IInv, CheckFree, DelReleased, TypeOK,
       NowhereIn, memory, LockFree
<1>. QED BY <1>1, <1>2 DEF IInv

(* Allocate reserves a free address for a container that has none.           *)
LEMMA AllocateKeepsIInv ==
    ASSUME IInv, TypeOK', NEW c \in Container, Allocate(c)
    PROVE  IInv'
<1>1. ASSUME NEW err \in Results \ {"ok"}, CannotReserve(c, err) PROVE IInv'
    <2>1. /\ MutexOK' /\ DownIsIdle' /\ OneCallAtATime' /\ AtMostOneIP'
          /\ AddHolds' /\ DelReleased'
        BY <1>1, CallsDiffer
        DEF IInv, Allocate, CannotReserve, LockFree, Results, TypeOK, MutexOK,
            DownIsIdle, OneCallAtATime, AtMostOneIP, NowhereIn, AddHolds,
            DelReleased
    <2>2. GrantsHeld' /\ NoSharedIP' /\ NoLeak'
        BY <1>1 DEF IInv, Allocate, CannotReserve, GrantsHeld, Running,
                    NoSharedIP, NoLeak
    <2>. QED BY <2>1, <2>2 DEF IInv
<1>2. ASSUME NEW ip \in LastFreeIP(enis, enis \ FreeIPs, lastFreed),
             Reserve(c, ip)
      PROVE  IInv'
    <2>1. ip \in IP /\ alloc[ip] = NoContainer
        BY ReservesFreeIP DEF IInv
    <2>2. alloc' = [alloc EXCEPT ![ip] = c] /\ addr' = [addr EXCEPT ![c] = ip]
        BY <1>2 DEF Reserve
    <2>3. /\ sandbox[c] # "new" /\ sandbox[c] # "running"
          /\ c \notin lossy => sandbox[c] = "adding"
        <3>1. sandbox[c] # "new" /\ (c \notin lossy => sandbox[c] = "adding")
            BY CallsDiffer DEF IInv, Allocate, OneCallAtATime
        <3>2. sandbox[c] # "running"
            BY DEF IInv, Allocate, LockFree, GrantsHeld, Running, AtMostOneIP,
                   NowhereIn
        <3>. QED BY <3>1, <3>2
    <2>4. MutexOK' /\ DownIsIdle' /\ OneCallAtATime'
        BY <1>2, CallsDiffer
        DEF IInv, Allocate, Reserve, LockFree, TypeOK, MutexOK, DownIsIdle,
            OneCallAtATime
    <2>5. AtMostOneIP'
        BY <1>2, <2>1, CallsDiffer
        DEF IInv, Allocate, Reserve, TypeOK, AtMostOneIP, NowhereIn,
            OneCallAtATime
    <2>6. AddHolds'
        BY <1>2, <2>1, CallsDiffer
        DEF IInv, Allocate, Reserve, TypeOK, AddHolds, LockFree, MutexOK
    <2>7. DelReleased'
        BY <1>2, <2>1, CallsDiffer
        DEF IInv, Allocate, Reserve, TypeOK, DelReleased, NowhereIn,
            OneCallAtATime
    <2>8. GrantsHeld'
        BY <2>1, <2>2, <2>3
        DEF IInv, Allocate, TypeOK, GrantsHeld, Running
    <2>9. NoSharedIP'
        BY <2>2, <2>3 DEF IInv, Allocate, TypeOK, NoSharedIP, Running
    <2>10. NoLeak'
        BY <2>1, <2>2, <2>3 DEF IInv, Allocate, TypeOK, NoLeak
    <2>. QED BY <2>4, <2>5, <2>6, <2>7, <2>8, <2>9, <2>10 DEF IInv
<1>. QED BY <1>1, <1>2 DEF Allocate, Results

(* ReleaseByContainer frees the one address of a container that is being     *)
(* deleted, and so is not running.                                           *)
LEMMA ReleaseByContainerKeepsIInv ==
    ASSUME IInv, TypeOK', NEW c \in Container, ReleaseByContainer(c)
    PROVE  IInv'
<1>1. sandbox[c] = "deleting"
    BY CallsDiffer DEF IInv, ReleaseByContainer, OneCallAtATime
<1>2. \A j \in IP : /\ alloc[j] # c => alloc'[j] = alloc[j]
                    /\ alloc[j] = c => alloc'[j] = NoContainer
    <2>1. SUFFICES ASSUME NEW j \in IP
                   PROVE  /\ alloc[j] # c => alloc'[j] = alloc[j]
                          /\ alloc[j] = c => alloc'[j] = NoContainer
        OBVIOUS
    <2>2. CASE HeldBy(c) = {} /\ UNCHANGED alloc
        BY <2>2 DEF HeldBy
    <2>3. CASE \E ip \in HeldBy(c) : alloc' = [alloc EXCEPT ![ip] = NoContainer]
        <3>1. PICK ip \in HeldBy(c) : alloc' = [alloc EXCEPT ![ip] = NoContainer]
            BY <2>3
        <3>2. alloc[j] = c => j = ip
            BY <3>1 DEF IInv, HeldBy, AtMostOneIP
        <3>. QED BY <3>1, <3>2 DEF IInv, TypeOK, HeldBy
    <2>. QED BY <2>2, <2>3 DEF ReleaseByContainer
<1>3. MutexOK' /\ DownIsIdle' /\ OneCallAtATime'
    BY CallsDiffer
    DEF IInv, ReleaseByContainer, LockFree, TypeOK, MutexOK, DownIsIdle,
        OneCallAtATime
<1>4. AtMostOneIP'
    BY <1>2, CallsDiffer
    DEF IInv, ReleaseByContainer, TypeOK, AtMostOneIP, NowhereIn
<1>5. AddHolds'
    <2>1. \A d \in Container : lock' # Add(d) /\ pc'[Add(d)] = pc[Add(d)]
        BY CallsDiffer DEF IInv, ReleaseByContainer, TypeOK
    <2>2. UNCHANGED <<addr, disk, sandbox>>
        BY DEF ReleaseByContainer
    <2>. QED
        BY <1>1, <1>2, <2>1, <2>2 DEF IInv, AddHolds
<1>6. DelReleased'
    BY <1>2, CallsDiffer
    DEF IInv, ReleaseByContainer, TypeOK, DelReleased, NowhereIn
<1>7. GrantsHeld'
    BY <1>1, <1>2 DEF IInv, ReleaseByContainer, TypeOK, GrantsHeld, Running
<1>8. NoSharedIP'
    BY DEF IInv, ReleaseByContainer, NoSharedIP, Running
<1>9. NoLeak'
    BY <1>2 DEF IInv, ReleaseByContainer, TypeOK, NoLeak
<1>. QED BY <1>3, <1>4, <1>5, <1>6, <1>7, <1>8, <1>9 DEF IInv

(* The file stops parsing.                                                   *)
LEMMA WriteTruncateKeepsIInv ==
    ASSUME IInv, TypeOK', WriteTruncate
    PROVE  IInv'
<1>1. MutexOK' /\ DownIsIdle' /\ OneCallAtATime' /\ AtMostOneIP' /\ AddHolds'
   /\ DelReleased' /\ GrantsHeld' /\ NoSharedIP' /\ NoLeak'
    BY DEF IInv, WriteTruncate, MutexOK, memory, Torn, Unallocated,
       DownIsIdle, OneCallAtATime, AtMostOneIP, NowhereIn, AddHolds,
       DelReleased, GrantsHeld, Running, NoSharedIP, NoLeak
<1>. QED BY <1>1 DEF IInv

(* The file becomes what memory is.                                          *)
LEMMA WriteDoneKeepsIInv ==
    ASSUME IInv, TypeOK', WriteDone
    PROVE  IInv'
<1>1. DownIsIdle' /\ OneCallAtATime' /\ AtMostOneIP' /\ DelReleased' /\
   NoSharedIP' /\ NoLeak'
    BY DEF IInv, WriteDone, DownIsIdle, memory, Snapshot, OneCallAtATime,
       AtMostOneIP, NowhereIn, DelReleased, NoSharedIP, Running, NoLeak
<1>2. MutexOK'
    BY CallsDiffer DEF IInv, WriteDone, MutexOK, TypeOK, memory,
       Snapshot
<1>3. AddHolds'
    BY CallsDiffer DEF IInv, WriteDone, AddHolds, TypeOK, memory,
       Snapshot
<1>4. GrantsHeld'
    BY CallsDiffer DEF IInv, WriteDone, GrantsHeld, TypeOK,
       Running, AddHolds, DownIsIdle, memory, Snapshot
<1>. QED BY <1>1, <1>2, <1>3, <1>4 DEF IInv

(* The call fails, memory keeps its effect.                                  *)
LEMMA WriteFailsKeepsIInv ==
    ASSUME IInv, TypeOK', WriteFails
    PROVE  IInv'
<1>1. DownIsIdle' /\ OneCallAtATime' /\ DelReleased' /\ GrantsHeld' /\
   NoSharedIP' /\ NoLeak'
    BY DEF IInv, WriteFails, DownIsIdle, memory, WriteError, OneCallAtATime,
       DelReleased, NowhereIn, GrantsHeld, Running, NoSharedIP, NoLeak
<1>2. MutexOK'
    BY CallsDiffer DEF IInv, WriteFails, MutexOK, TypeOK, memory,
       WriteError
<1>3. AtMostOneIP'
    BY CallsDiffer DEF IInv, WriteFails, AtMostOneIP, TypeOK,
       NowhereIn, memory, WriteError
<1>4. AddHolds'
    BY CallsDiffer DEF IInv, WriteFails, AddHolds, TypeOK, memory,
       WriteError
<1>. QED BY <1>1, <1>2, <1>3, <1>4 DEF IInv

(* A grant begins: what Add has reserved is in memory and in the file.       *)
LEMMA ReturnAddKeepsIInv ==
    ASSUME IInv, TypeOK', NEW c \in Container, ReturnAdd(c)
    PROVE  IInv'
<1>1. MutexOK' /\ DownIsIdle' /\ AtMostOneIP' /\ AddHolds' /\ DelReleased' /\
   NoLeak'
    BY DEF IInv, ReturnAdd, MutexOK, memory, Results, DownIsIdle, AtMostOneIP,
       NowhereIn, AddHolds, DelReleased, NoLeak
<1>2. OneCallAtATime'
    BY CallsDiffer DEF IInv, ReturnAdd, OneCallAtATime, TypeOK,
       memory, Results
<1>3. GrantsHeld'
    BY CallsDiffer DEF IInv, ReturnAdd, GrantsHeld, TypeOK,
       Running, AddHolds, DownIsIdle, memory, Results
<1>4. NoSharedIP'
    BY CallsDiffer, <1>3 DEF IInv, ReturnAdd, NoSharedIP,
       TypeOK, Running, GrantsHeld, DownIsIdle, memory, Results
<1>. QED BY <1>1, <1>2, <1>3, <1>4 DEF IInv

(* The container is gone, and so is its address.                             *)
LEMMA ReturnDelKeepsIInv ==
    ASSUME IInv, TypeOK', NEW c \in Container, ReturnDel(c)
    PROVE  IInv'
<1>1. MutexOK' /\ DownIsIdle' /\ AtMostOneIP' /\ AddHolds' /\ DelReleased' /\
   GrantsHeld' /\ NoSharedIP'
    BY DEF IInv, ReturnDel, MutexOK, memory, Results, DownIsIdle, AtMostOneIP,
       NowhereIn, AddHolds, DelReleased, GrantsHeld, Running, NoSharedIP
<1>2. OneCallAtATime'
    BY CallsDiffer DEF IInv, ReturnDel, OneCallAtATime, TypeOK,
       memory, Results
<1>3. NoLeak'
    BY CallsDiffer DEF IInv, ReturnDel, NoLeak, TypeOK,
       DelReleased, NowhereIn, OneCallAtATime, MutexOK, memory, Results
<1>. QED BY <1>1, <1>2, <1>3 DEF IInv

(* SetENIs returns.                                                          *)
LEMMA ReturnSetENIsKeepsIInv ==
    ASSUME IInv, TypeOK', ReturnSetENIs
    PROVE  IInv'
<1>1. MutexOK' /\ DownIsIdle' /\ OneCallAtATime' /\ AtMostOneIP' /\ AddHolds'
   /\ GrantsHeld' /\ NoSharedIP' /\ NoLeak'
    BY DEF IInv, ReturnSetENIs, MutexOK, memory, Results, DownIsIdle,
       OneCallAtATime, AtMostOneIP, NowhereIn, AddHolds, GrantsHeld, Running,
       NoSharedIP, NoLeak
<1>2. DelReleased'
    BY CallsDiffer DEF IInv, ReturnSetENIs, DelReleased,
       TypeOK, NowhereIn, memory, Results
<1>. QED BY <1>1, <1>2 DEF IInv

--------------------------------------------------------------------------------
LEMMA InitIInv == Init => IInv
<1> SUFFICES ASSUME Init PROVE IInv
    OBVIOUS
<1>1. TypeOK
    BY InitTypeOK
<1>2. MutexOK /\ DownIsIdle /\ OneCallAtATime /\ AddHolds /\ DelReleased
    BY CallsDiffer
    DEF Init, MutexOK, DownIsIdle, OneCallAtATime, AddHolds, DelReleased
<1>3. AtMostOneIP
    BY DEF Init, AtMostOneIP, NowhereIn, Unallocated
<1>4. GrantsHeld /\ NoSharedIP /\ NoLeak
    BY DEF Init, GrantsHeld, NoSharedIP, NoLeak, Running
<1>. QED BY <1>1, <1>2, <1>3, <1>4 DEF IInv

LEMMA NextKeepsIInv == ASSUME IInv, Next PROVE IInv'
<1>1. TypeOK'
    BY TypeOKStep DEF IInv
<1>. QED
    BY <1>1, StartKeepsIInv, CrashKeepsIInv, SetENIsKeepsIInv, CallAddKeepsIInv,
       AbandonKeepsIInv, CallDelKeepsIInv, CheckFreeKeepsIInv,
       AllocateKeepsIInv, ReleaseByContainerKeepsIInv, WriteTruncateKeepsIInv,
       WriteDoneKeepsIInv, WriteFailsKeepsIInv, ReturnAddKeepsIInv,
       ReturnDelKeepsIInv, ReturnSetENIsKeepsIInv
    DEF Next, Write

(* The inductive invariant holds in every reachable state, with any set of   *)
(* containers, addresses, pools and faults.                                  *)
THEOREM Inductive == Spec => []IInv
<1>1. IInv /\ UNCHANGED vars => IInv'
    BY DEF IInv, vars, TypeOK, MutexOK, DownIsIdle, OneCallAtATime, AtMostOneIP,
           NowhereIn, AddHolds, DelReleased, GrantsHeld, Running, NoSharedIP,
           NoLeak
<1>. QED BY <1>1, InitIInv, NextKeepsIInv, PTL DEF Spec

(* Allocate, ReleaseByContainer, Write, New: a running pod's address stays   *)
(* recorded as its own, in memory and in a state file that parses.           *)
THEOREM GrantsAreHeld == Spec => []GrantsHeld
<1>1. IInv => GrantsHeld
    BY DEF IInv
<1>. QED BY <1>1, Inductive, PTL

(* Allocate never gives the address of a running pod to another one.         *)
THEOREM IPsAreExclusive == Spec => []NoSharedIP
<1>1. IInv => NoSharedIP
    BY DEF IInv
<1>. QED BY <1>1, Inductive, PTL

(* ReleaseByContainer leaves no address with a container that is gone, but   *)
(* for an abandoned Add or a failed Del.                                     *)
THEOREM NothingLeaks == Spec => []NoLeak
<1>1. IInv => NoLeak
    BY DEF IInv
<1>. QED BY <1>1, Inductive, PTL

--------------------------------------------------------------------------------
LEMMA SameGrants ==
    ASSUME \A d \in Container : /\ Running(d)' <=> Running(d)
                                /\ Running(d) => addr'[d] = addr[d]
    PROVE  UNCHANGED held
BY DEF held

(* A grant begins with the answer to Add: by IInv' the address is nobody     *)
(* else's.                                                                   *)
LEMMA ReturnAddRefines ==
    ASSUME IInv, IInv', NEW c \in Container, ReturnAdd(c)
    PROVE  Pool!Next \/ UNCHANGED held
<1>1. CASE pc[Add(c)] = "ok" /\ sandbox[c] = "adding"
    <2>1. sandbox' = [sandbox EXCEPT ![c] = "running"] /\ addr' = addr
        BY <1>1 DEF ReturnAdd
    <2>2. addr[c] \in IP
        BY <1>1 DEF IInv, AddHolds
    <2>3. \A d \in Container : Running(d) => d # c /\ addr[d] # addr[c]
        BY <1>1, <2>1 DEF IInv, TypeOK, NoSharedIP, Running
    <2>4. \A d \in Container : Running(d)' <=> (Running(d) \/ d = c)
        BY <2>1 DEF IInv, TypeOK, Running
    <2>5. held' = held \union {<<c, addr[c]>>}
        BY <2>1, <2>4 DEF held
    <2>6. \A g \in held : g[1] # c /\ g[2] # addr[c]
        BY <2>3 DEF held
    <2>. QED BY <2>2, <2>5, <2>6 DEF Pool!Next, Pool!Grant
<1>2. CASE ~(pc[Add(c)] = "ok" /\ sandbox[c] = "adding")
    <2>1. \A d \in Container : Running(d)' <=> Running(d)
        BY <1>2 DEF IInv, TypeOK, ReturnAdd, Running
    <2>. QED BY <2>1, SameGrants DEF ReturnAdd
<1>. QED BY <1>1, <1>2

(* A grant ends when kubelet tears the sandbox down, not when the daemon     *)
(* gets round to it.                                                         *)
LEMMA CallDelRefines ==
    ASSUME IInv, NEW c \in Container, CallDel(c)
    PROVE  Pool!Next \/ UNCHANGED held
<1>1. /\ \A d \in Container : Running(d)' <=> Running(d) /\ d # c
      /\ addr' = addr
    BY DEF CallDel, IInv, TypeOK, Running
<1>2. CASE Running(c)
    <2>1. held' = {g \in held : g[1] # c}
        BY <1>1 DEF held
    <2>2. <<c, addr[c]>> \in held
        BY <1>2 DEF held
    <2>. QED BY <2>1, <2>2 DEF Pool!Next, Pool!End
<1>3. CASE ~Running(c)
    BY <1>1, <1>3, SameGrants
<1>. QED BY <1>2, <1>3

LEMMA NextRefines ==
    ASSUME IInv, IInv', Next
    PROVE  Pool!Next \/ UNCHANGED held
<1>1. CASE Start \/ Write \/ ReturnSetENIs \/ \E pool \in Pools : SetENIs(pool)
    <2>1. UNCHANGED <<sandbox, addr>>
        BY <1>1 DEF Start, Write, WriteTruncate, WriteDone, WriteFails,
                    ReturnSetENIs, SetENIs
    <2>. QED BY <2>1, SameGrants DEF Running
<1>2. CASE Crash
    <2>1. \A d \in Container : Running(d)' <=> Running(d)
        BY <1>2 DEF IInv, TypeOK, Crash, Running
    <2>. QED BY <1>2, <2>1, SameGrants DEF Crash
<1>3. ASSUME NEW c \in Container,
             CallAdd(c) \/ Abandon(c) \/ CheckFree(c) \/ ReleaseByContainer(c)
               \/ ReturnDel(c)
      PROVE  UNCHANGED held
    <2>1. addr' = addr
        BY <1>3 DEF CallAdd, Abandon, CheckFree, ReleaseByContainer, ReturnDel
    <2>2. pc[Del(c)] # "idle" => sandbox[c] = "deleting"
        BY DEF IInv, OneCallAtATime
    <2>3. \A d \in Container : Running(d)' <=> Running(d)
        BY <1>3, <2>2
        DEF IInv, TypeOK, CallAdd, Abandon, CheckFree, ReleaseByContainer,
            ReturnDel, Results, Running
    <2>. QED BY <2>1, <2>3, SameGrants
<1>4. ASSUME NEW c \in Container, Allocate(c) PROVE UNCHANGED held
    <2>1. ~Running(c)
        BY <1>4 DEF IInv, Allocate, LockFree, GrantsHeld, Running, AtMostOneIP,
                    NowhereIn
    <2>2. sandbox' = sandbox /\ \A d \in Container \ {c} : addr'[d] = addr[d]
        BY <1>4 DEF IInv, TypeOK, Allocate, Reserve, CannotReserve
    <2>. QED BY <2>1, <2>2, SameGrants DEF Running
<1>. QED
    BY <1>1, <1>2, <1>3, <1>4, ReturnAddRefines, CallDelRefines DEF Next

(* The allocator implements AddressPool: through mutex, state file, failed   *)
(* writes and crashes, what the pods see is addresses granted to one of them *)
(* at a time.                                                                *)
THEOREM Refinement == Spec => ImplementsAddressPool
<1>1. Init => Pool!Init
    BY DEF Init, Pool!Init, held, Running
<1>2. IInv /\ IInv' /\ [Next]_vars => [Pool!Next]_held
    <2>1. UNCHANGED vars => UNCHANGED held
        BY DEF vars, held, Running
    <2>. QED BY <2>1, NextRefines
<1>. QED BY <1>1, <1>2, Inductive, PTL DEF Spec, Pool!Spec, ImplementsAddressPool
================================================================================
