----------------------------- MODULE SelectionLoop -----------------------------
(***************************************************************************)
(* The two loops of Allocate that order the pool and pick an address       *)
(* (allocator.go:104-137), one iteration per step, on every pool, every    *)
(* set of allocated addresses and every last freed address over IP.  They  *)
(* are compared with the set-based definition in IPSelection.tla, which    *)
(* Allocator.tla uses.                                                     *)
(***************************************************************************)
EXTENDS IPSelection, Sequences, FiniteSets

CONSTANTS IP, NoIP

ASSUME SelectionAssumption ==
    IP \subseteq Nat /\ IsFiniteSet(IP) /\ NoIP \notin IP

VARIABLES
    pool,       \* the addresses of the ENIs
    used,       \* the addresses Allocations has
    lastFreed,  \* State.LastFreedIP
    loop,       \* "rotate", "walk" or "done"
    ips,        \* the slice both loops run over
    i,          \* the loop's index, from 1
    reservedIP

inputs == <<pool, used, lastFreed>>
vars == <<pool, used, lastFreed, loop, ips, i, reservedIP>>

(* Mutant: netIps.Less compares the other way round. *)
Descending(s) == \A j, k \in 1..Len(s) : j < k => s[j] > s[k]

(* netIps.Less of every pair. *)
Ascending(s) == \A j, k \in 1..Len(s) : j < k => s[j] < s[k]

(* sort.Sort(netIps(ips)): the pool has each address once. *)
SortedIPs(p) == CHOOSE s \in [1..Cardinality(p) -> p] : Ascending(s)

Init ==
    /\ pool \in SUBSET IP /\ used \in SUBSET IP
    /\ lastFreed \in IP \union {NoIP}
    /\ loop = IF lastFreed = NoIP THEN "walk" ELSE "rotate"
    /\ ips = SortedIPs(pool)
    /\ i = 1
    /\ reservedIP = NoIP

(* Mutant: the second part of the rotation stops one short. *)
RotatedShort(s, n) == SubSeq(s, n + 1, Len(s)) \o SubSeq(s, 1, n - 1)

(* append(ips[i+1:], ips[:i+1]...) *)
Rotated(s, n) == SubSeq(s, n + 1, Len(s)) \o SubSeq(s, 1, n)

(* The rotation goes on with the rotated slice: no break here either. *)
Rotate ==
    /\ loop = "rotate" /\ i <= Len(ips)
    /\ ips' = IF ips[i] = lastFreed THEN Rotated(ips, i) ELSE ips
    /\ i' = i + 1
    /\ UNCHANGED <<inputs, loop, reservedIP>>

EndRotate ==
    /\ loop = "rotate" /\ i > Len(ips)
    /\ loop' = "walk" /\ i' = 1
    /\ UNCHANGED <<inputs, ips, reservedIP>>

(* Mutant: the walk keeps the first free address, as with a break. *)
FirstFree(ip) == IF reservedIP # NoIP \/ ip \in used THEN reservedIP ELSE ip

(* A free address replaces the one found before it. *)
Candidate(ip) == IF ip \in used THEN reservedIP ELSE ip

Walk ==
    /\ loop = "walk" /\ i <= Len(ips)
    /\ reservedIP' = Candidate(ips[i])
    /\ i' = i + 1
    /\ UNCHANGED <<inputs, loop, ips>>

EndWalk ==
    /\ loop = "walk" /\ i > Len(ips)
    /\ loop' = "done"
    /\ UNCHANGED <<inputs, ips, i, reservedIP>>

Next == Rotate \/ EndRotate \/ Walk \/ EndWalk

Spec == Init /\ [][Next]_vars

(* When the walk is over it has found an address exactly when the pool has a *)
(* free one, and it is the one IPSelection names: both loops of Allocate,    *)
(* run to their end without a break, amount to that definition.              *)
SelectionAgrees ==
    loop = "done" =>
        LastFreeIP(pool, used, lastFreed) = {reservedIP} \ {NoIP}

(* However often the rotation fires, the slice Allocate walks holds each     *)
(* address of the pool once, and the walk starts with the last freed address *)
(* in last place.                                                            *)
RotationKeepsPool ==
    /\ {ips[k] : k \in 1..Len(ips)} = pool /\ Len(ips) = Cardinality(pool)
    /\ loop # "rotate" /\ lastFreed \in pool => ips[Len(ips)] = lastFreed

--------------------------------------------------------------------------------
(* What these rest on.                                                       *)

TypeOK ==
    /\ pool \in SUBSET IP /\ used \in SUBSET IP
    /\ lastFreed \in IP \union {NoIP} /\ reservedIP \in pool \union {NoIP}
    /\ loop \in {"rotate", "walk", "done"}
    /\ ips \in Seq(pool) /\ i \in 1..(Len(ips) + 1)

Listed ==
    /\ Len(ips) = Cardinality(pool)
    /\ \A ip \in pool : \E k \in 1..Len(ips) : ips[k] = ip

InOrder ==
    \A j, k \in 1..Len(ips) :
        j < k => RotatedBefore(ips[j], ips[k], pool, lastFreed)

(* The rotation loop, which has no break, rotates the sorted slice when it   *)
(* meets the last freed address, and once more, to no effect, when it meets  *)
(* it again in last place.                                                   *)
RotateInv ==
    loop = "rotate" =>
        /\ lastFreed # NoIP /\ reservedIP = NoIP
        /\ \/ Ascending(ips) /\ \A k \in 1..(i - 1) : ips[k] # lastFreed
           \/ InOrder /\ lastFreed \in pool

(* The walk holds the last free address it has met. *)
WalkInv ==
    loop # "rotate" =>
        /\ InOrder
        /\ IF reservedIP = NoIP
             THEN \A k \in 1..(i - 1) : ips[k] \in used
             ELSE \E j \in 1..(i - 1) :
                     /\ ips[j] = reservedIP /\ reservedIP \notin used
                     /\ \A k \in (j + 1)..(i - 1) : ips[k] \in used
        /\ loop = "done" => i = Len(ips) + 1

IInv == TypeOK /\ Listed /\ RotateInv /\ WalkInv
================================================================================
