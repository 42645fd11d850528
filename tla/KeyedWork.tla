------------------------------- MODULE KeyedWork -------------------------------
(***************************************************************************)
(* What the work queue promises the controllers, with no FIFO, sets, delay *)
(* or condition variable in sight: a key that was put waits until a worker *)
(* takes it, a key is with one worker at a time, and a key put while a     *)
(* worker has it waits for that worker to finish.  Workqueue.tla is shown  *)
(* to implement this specification; the controllers' models, which keep    *)
(* only whether their node is queued, rely on it.                          *)
(***************************************************************************)
CONSTANTS Key, Worker, NoKey

VARIABLES
    waiting,    \* keys somebody has put and that are still to be taken
    taken       \* the key each worker has

vars == <<waiting, taken>>

Init == waiting = {} /\ taken = [w \in Worker |-> NoKey]

Put(k) == waiting' = waiting \union {k} /\ UNCHANGED taken

(* The key goes on waiting when it was put twice, and one of the two is      *)
(* delayed for longer.                                                       *)
Take(w, k) ==
    /\ k \in waiting /\ taken[w] = NoKey
    /\ \A v \in Worker : taken[v] # k
    /\ taken' = [taken EXCEPT ![w] = k]
    /\ waiting' \in {waiting, waiting \ {k}}

Finish(w) ==
    /\ taken[w] # NoKey
    /\ taken' = [taken EXCEPT ![w] = NoKey]
    /\ UNCHANGED waiting

Next ==
    \/ \E k \in Key : Put(k)
    \/ \E w \in Worker : Finish(w) \/ \E k \in Key : Take(w, k)

Spec == Init /\ [][Next]_vars
================================================================================
