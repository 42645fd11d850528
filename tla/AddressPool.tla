------------------------------ MODULE AddressPool ------------------------------
(***************************************************************************)
(* What the node's IP address management promises to the pods, with no     *)
(* daemon, mutex, state file or failure in sight: a set of grants in which *)
(* no address and no sandbox occurs twice.  A grant begins when the CNI    *)
(* plugin prints the address and ends when the sandbox is torn down, never *)
(* before.  Allocator.tla is shown to implement this specification.        *)
(***************************************************************************)
CONSTANTS Container, IP

VARIABLE held          \* the grants <<container, address>> in force

Init == held = {}

(* An Add call answers with an address nobody uses. *)
Grant(c, ip) ==
    /\ \A g \in held : g[1] # c /\ g[2] # ip
    /\ held' = held \union {<<c, ip>>}

(* The sandbox is torn down and its grant is over. *)
End(c) ==
    /\ \E g \in held : g[1] = c
    /\ held' = {g \in held : g[1] # c}

Next == \E c \in Container : End(c) \/ \E ip \in IP : Grant(c, ip)

Spec == Init /\ [][Next]_held
================================================================================
