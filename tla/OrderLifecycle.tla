--------------------------- MODULE OrderLifecycle ---------------------------
(***************************************************************************)
(* What the order table of the order-management-service promises its       *)
(* readers: an order is created PENDING, becomes SENT only when the broker *)
(* has it, and is never moved again once it is REJECTED or CANCELLED.      *)
(* FILLED is a legal status of the table that no code path of this         *)
(* repository reaches (see README), so it is not a state here.             *)
(***************************************************************************)
CONSTANT Orders

VARIABLES status,    \* [Orders -> Status], the status column; "none": no row
          atBroker   \* SUBSET Orders, those the broker took an order for

vars == <<status, atBroker>>

Status == {"none", "PENDING", "SENT", "REJECTED", "CANCELLED"}

TypeOK == /\ status \in [Orders -> Status]
          /\ atBroker \subseteq Orders

Init == /\ status = [o \in Orders |-> "none"]
        /\ atBroker = {}

Move(o, from, to) == /\ status[o] \in from
                     /\ status' = [status EXCEPT ![o] = to]
                     /\ UNCHANGED atBroker

Create(o) == Move(o, {"none"}, "PENDING")
Reject(o) == Move(o, {"PENDING"}, "REJECTED")
Cancel(o) == Move(o, {"PENDING", "SENT"}, "CANCELLED")
Send(o)   == o \in atBroker /\ Move(o, {"PENDING"}, "SENT")

\* The broker takes an order only for a row that is still PENDING.
Place(o) == /\ status[o] = "PENDING"
            /\ atBroker' = atBroker \cup {o}
            /\ UNCHANGED status

Next == \E o \in Orders :
          Create(o) \/ Place(o) \/ Send(o) \/ Reject(o) \/ Cancel(o)

Spec == Init /\ [][Next]_vars
=============================================================================
