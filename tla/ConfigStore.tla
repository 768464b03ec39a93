---------------------------- MODULE ConfigStore ----------------------------
(***************************************************************************)
(* What the configuration service promises of the stored configuration:    *)
(* there is one image that the next start will load, it is replaced in one *)
(* step, only by the successor of the image in force, and what is in force *)
(* only ever becomes what is stored.                                       *)
(***************************************************************************)
EXTENDS Naturals

CONSTANTS Plan, DefaultPlan

VARIABLES
  durable,  \* the image the next start loads
  inForce   \* the image the controller runs

storeVars == <<durable, inForce>>

Image == [generation : Nat, plan : Plan]
FactoryImage == [generation |-> 0, plan |-> DefaultPlan]

Successor(image) ==
  /\ image \in Image
  /\ image.generation = inForce.generation + 1

Init == durable = FactoryImage /\ inForce = FactoryImage

\* A commit takes hold in the store, whole.
Land ==
  /\ durable = inForce
  /\ Successor(durable')
  /\ UNCHANGED inForce

\* The controller runs what is stored: a commit is confirmed, or a start loads it.
Adopt == inForce' = durable /\ UNCHANGED durable

\* An image that landed without being confirmed gives way to the next commit.
Withdraw == durable' = inForce /\ UNCHANGED inForce

Next == Land \/ Adopt \/ Withdraw

Spec == Init /\ [][Next]_storeVars

=============================================================================
