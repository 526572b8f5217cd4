--------------------------- MODULE OrderLifecycle ---------------------------
(***************************************************************************)
(* What the merchant order API promises about the status of an order.      *)
(*                                                                         *)
(* valid_order_transition lists the edges of the life of an order, but the *)
(* handler that consults it reads the status in one statement and writes   *)
(* it in a later one whose WHERE clause does not name the status it read.  *)
(* What survives any interleaving is therefore weaker than "the status     *)
(* moves along an edge": it moves along an edge out of SOME status the     *)
(* order has had.  That is this specification; MerchantOrders implements   *)
(* it.                                                                     *)
(***************************************************************************)
CONSTANTS
  OrderIds,   \* the identifiers an order can have
  Absent      \* the status of an order that has no row

Statuses ==
  {"ORDER_CREATED", "PAYMENT_PENDING", "PAID", "CANCELLED", "EXPIRED",
   "FULFILLMENT_PENDING", "COMPLETED"}

VARIABLES
  status,     \* status[o]: the current status of order o
  reached     \* reached[o]: every status o has had

vars == <<status, reached>>

\* The edges of valid_order_transition, its reflexive case apart.
Edges ==
  {<<"ORDER_CREATED", "PAYMENT_PENDING">>, <<"PAYMENT_PENDING", "PAID">>,
   <<"PAYMENT_PENDING", "CANCELLED">>, <<"PAYMENT_PENDING", "EXPIRED">>,
   <<"PAID", "FULFILLMENT_PENDING">>, <<"FULFILLMENT_PENDING", "COMPLETED">>}

\* The statuses an order can have before any handler has touched it.
FirstStatuses == {"ORDER_CREATED", "PAYMENT_PENDING"}

TypeOK ==
  /\ status \in [OrderIds -> Statuses \cup {Absent}]
  /\ reached \in [OrderIds -> SUBSET Statuses]

Init ==
  /\ status \in [OrderIds -> FirstStatuses \cup {Absent}]
  /\ reached = [o \in OrderIds |-> IF status[o] = Absent THEN {} ELSE {status[o]}]

Enter(o, s) ==
  /\ status' = [status EXCEPT ![o] = s]
  /\ reached' = [reached EXCEPT ![o] = @ \cup {s}]

\* A new order waits for its payment.
Open(o) == status[o] = Absent /\ Enter(o, "PAYMENT_PENDING")

\* A known order moves along an edge that leaves a status it has had.
Move(o, s) ==
  /\ status[o] # Absent
  /\ \E from \in reached[o] : from = s \/ <<from, s>> \in Edges
  /\ Enter(o, s)

Next == \E o \in OrderIds : Open(o) \/ \E s \in Statuses : Move(o, s)

Spec == Init /\ [][Next]_vars

-----------------------------------------------------------------------------
(***************************************************************************)
(* Every status an order has had was earned: it is one an order can start  *)
(* in, or an edge leads to it from another status the order has had.       *)
(***************************************************************************)
Earned ==
  \A o \in OrderIds : \A s \in reached[o] :
    s \in FirstStatuses \/ \E from \in reached[o] : <<from, s>> \in Edges
=============================================================================
