---------------------------- MODULE NodeAnnotation -----------------------------
(***************************************************************************)
(* What the node agent can rely on of the annotation the ENI controller    *)
(* writes (k8s-vpcnet/eni-interfaces): as long as the Node object lives,   *)
(* interfaces are flagged as attached one after another and none is taken  *)
(* back.  A node that is deleted and registers again starts without.       *)
(***************************************************************************)
EXTENDS Naturals

CONSTANT NumENIs  \* interfaces the controller adds to the instance

VARIABLE node     \* has it the annotation, and which interfaces does that
                  \* flag as attached

Index == 1..NumENIs

NodeType == [annotated : BOOLEAN, attached : SUBSET Index]

Blank == [annotated |-> FALSE, attached |-> {}]

Init == node = Blank

(* The first record.  A handler that has read the old object of a node that  *)
(* was registered again meanwhile puts its copy into the new one.            *)
Annotate ==
    /\ ~node.annotated /\ NumENIs > 0
    /\ \E k \in 0..NumENIs : node' = [annotated |-> TRUE, attached |-> 1..k]

Attach ==
    /\ node.annotated
    /\ \E i \in Index \ node.attached :
         /\ \A j \in Index : j < i => j \in node.attached
         /\ node' = [node EXCEPT !.attached = @ \union {i}]

Recreate == node' = Blank

Next == Annotate \/ Attach \/ Recreate

Spec == Init /\ [][Next]_node
================================================================================
