-------------------------------- MODULE Routing --------------------------------
(***************************************************************************)
(* The routes, routing rules and iptables entries of ifmgr and the way a   *)
(* packet takes through them.  An address is a pod's, of which each        *)
(* interface stands for the ones it has, or the set of the networks it     *)
(* lies in.  No rule depends on how two of these networks overlap, so that *)
(* every combination of them is looked at.  `host' says which steps of     *)
(* ifmgr each interface has behind it.                                     *)
(***************************************************************************)
EXTENDS Naturals

(* The networks of the configuration, the interface's subnet, 224.0.0.0/4.   *)
Networks == {"cluster", "service", "vpcRouted", "subnet", "multicast"}

Remote == SUBSET Networks

--------------------------------------------------------------------------------
(* ConfigureRoutes: the table of an interface.  "eni" is its own link. *)
FromPodTable(podIPMasq) ==
    {[dst |-> n, link |-> "eni"] : n \in {"service", "cluster"}}
    \union IF podIPMasq
             THEN {[dst |-> n, link |-> "eni"] : n \in {"subnet", "vpcRouted"}}
                  \union {[dst |-> "any", link |-> "eth0"]}
             ELSE {[dst |-> "any", link |-> "eni"]}

(* The route of a table that is most specific for the address; those to one  *)
(* of Networks have the same link.                                           *)
RouteFor(table, remote) ==
    LET specific == {r \in table : r.dst \in remote}
    IN  CHOOSE r \in IF specific = {} THEN {s \in table : s.dst = "any"}
                     ELSE specific : TRUE

(* Mutant: the priorities are the other way round. *)
RulesSwapped(i) ==
    {[priority |-> 6000, field |-> "dst", pod |-> i, table |-> "main"],
     [priority |-> 5000, field |-> "src", pod |-> i, table |-> "fromPod"]}

(* Its rules, one each for every address: to a pod on this host by the main  *)
(* table, which the CNI plugin keeps; from it by the interface's table.      *)
Rules(i) ==
    {[priority |-> 5000, field |-> "dst", pod |-> i, table |-> "main"],
     [priority |-> 6000, field |-> "src", pod |-> i, table |-> "fromPod"]}

(* ConfigureIPMasq: what the chain lets pass before it masquerades. *)
Accepted == {"cluster", "service", "multicast", "vpcRouted"}

--------------------------------------------------------------------------------
(* The way of a packet from a pod on interface i.  Both are operators of the *)
(* kernel: the rule of the lowest number that matches names the table, and   *)
(* the chain is jumped to for the addresses that have a jump.                *)
RulesOf(host) ==
    UNION {Rules(i) : i \in {j \in DOMAIN host : "rules" \in host[j]}}

(* The table for a packet from i's pod to an address of j's pods, or to a    *)
(* remote one (0). *)
TableFor(host, i, j) ==
    LET match == {r \in RulesOf(host) :
                     r.pod = IF r.field = "dst" THEN j ELSE i}
        first == {r \in match : \A s \in match : r.priority <= s.priority}
    IN  IF match = {} THEN "main" ELSE (CHOOSE r \in first : TRUE).table

StaysLocal(host, i, j) == TableFor(host, i, j) = "main"

(* The routes a packet to a remote address finds, those of the host if its   *)
(* interface's table is not asked or empty, and the link it leaves by.       *)
Routes(host, podIPMasq, i) ==
    IF TableFor(host, i, 0) = "fromPod" /\ "routes" \in host[i]
      THEN FromPodTable(podIPMasq)
      ELSE {[dst |-> "any", link |-> "eth0"]}

Link(routes, remote) == RouteFor(routes, remote).link

Masqueraded(host, i, remote) ==
    "masquerade" \in host[i] /\ remote \intersect Accepted = {}

(* What a packet must find, wherever it goes: a pod on the same host without *)
(* leaving it; the cluster, its services and the networks routed through the *)
(* VPC with the pod's own address; and, since EC2 drops a packet whose       *)
(* source is not an address of the interface, no other link with it.         *)
(* Multicast the code lets leave by the host's interface.                    *)
WellRouted(host, podIPMasq, i) ==
    /\ \A j \in DOMAIN host : "rules" \in host[j] => StaysLocal(host, i, j)
    /\ LET routes == Routes(host, podIPMasq, i) IN
       \A remote \in Remote :
         /\ remote \intersect {"cluster", "service", "vpcRouted"} # {} =>
               /\ Link(routes, remote) = "eni"
               /\ ~Masqueraded(host, i, remote)
         /\ \/ "multicast" \in remote
            \/ Masqueraded(host, i, remote)
            \/ Link(routes, remote) = "eni"
================================================================================
