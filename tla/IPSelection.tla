----------------------------- MODULE IPSelection -------------------------------
(***************************************************************************)
(* Which free address Allocate hands out, as a relation between sets       *)
(* (allocator.go:104-137).  The addresses are numbers, ordered as          *)
(* netIps.Less orders them.  The code sorts the pool, rotates it so that   *)
(* the last freed address comes last, and walks the whole list keeping the *)
(* last free address it meets: the loop has no break.  SelectionLoop.tla   *)
(* runs those loops and compares them with this module.                    *)
(***************************************************************************)
EXTENDS Naturals

(* a is before b in the sorted pool after the rotation behind lastFreed. *)
RotatedBefore(a, b, pool, lastFreed) ==
    IF lastFreed \in pool
      THEN \/ a > lastFreed /\ b <= lastFreed
           \/ (a > lastFreed <=> b > lastFreed) /\ a < b
      ELSE a < b

(* The address the walk ends with, as a set of at most one element. *)
LastFreeIP(pool, used, lastFreed) ==
    {ip \in pool \ used :
        \A other \in (pool \ used) \ {ip} :
            RotatedBefore(other, ip, pool, lastFreed)}
================================================================================
