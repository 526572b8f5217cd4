---------------------------- MODULE FiberPayments ----------------------------
(***************************************************************************)
(* The pages that make and pay Fiber invoices: the checkout, the merchant  *)
(* gateway and the transfer console.  One is shown; each of its operations *)
(* is a sequence of calls to the node of the tab and to the order API, and *)
(* works with the fields as they were when it was clicked: what stands in  *)
(* the field of an invoice is chosen then.                                 *)
(*                                                                         *)
(* An invoice is a number, which stands for its address and its payment    *)
(* hash.  The node keeps the invoices that it issued and moves them as     *)
(* payments arrive; the invoice in the field may be one of another node.   *)
(* The server keeps one order for an invoice, and allows what              *)
(* OrderLifecycle allows.                                                  *)
(***************************************************************************)
EXTENDS Integers

CONSTANTS
  Ops,
  MaxInvoices    \* bound of the invoices that the node issues

VARIABLES
  page,
  auth,          \* is the wallet logged in at the server?
  busy,
  made,          \* the invoice that the page issued last
  route,         \* has the console built a route?
  listed,        \* the orders that the page lists
  invoices,      \* of the node: their states
  orders,        \* of the server: their states
  ops,
  tried,         \* history: the invoices whose dry run succeeded
  paying         \* history: the payments of the checkout

fields == <<busy, made, route, listed>>
vars == <<page, auth, fields, invoices, orders, ops, tried, paying>>

Own == 1 .. MaxInvoices
Foreign == MaxInvoices + 1    \* an invoice of another node
NoInvoice == 0                \* an empty field, or text that is no invoice
Texts == 0 .. Foreign

\* Received: a payment is held for it, or settled; the pages do not tell them apart.
States == {"none", "Open", "Received", "Cancelled", "Expired"}
OrderStates == {"none", "PAYMENT_PENDING", "PAID", "CANCELLED", "EXPIRED"}

Kinds ==
  {"create", "checkout", "send", "console", "router", "build", "inspect", "scan", "check",
   "cancel", "orders"}

Phases ==
  {"idle", "new", "order", "list", "parse", "dry", "pay", "attempt", "get", "update",
   "cancel", "read"}

\* mounted: is the page shown that began it?  related, of its closure: does the page
\* list an order for the invoice, or may it create one?
Op ==
  [kind : Kinds, phase : Phases, mounted : BOOLEAN, text : Texts, related : BOOLEAN,
   status : OrderStates]

IdleOp ==
  [kind |-> "orders", phase |-> "idle", mounted |-> FALSE, text |-> 0,
   related |-> FALSE, status |-> "none"]

TypeOK ==
  /\ page \in {"checkout", "merchant", "console"}
  /\ {auth, busy} \subseteq BOOLEAN
  /\ made \in 0 .. MaxInvoices /\ route \in BOOLEAN
  /\ listed \subseteq Own
  /\ invoices \in [Own -> States] /\ orders \in [Own -> OrderStates]
  /\ ops \in [Ops -> Op]
  /\ tried \subseteq Texts /\ paying \subseteq Texts

Init ==
  /\ page \in {"checkout", "merchant", "console"}
  /\ auth \in BOOLEAN /\ (page # "merchant" => ~auth)
  /\ busy = FALSE /\ made = 0 /\ route = FALSE /\ listed = {}
  /\ invoices = [i \in Own |-> "none"] /\ orders = [i \in Own |-> "none"]
  /\ tried = {} /\ paying = {}
  /\ ops = [o \in Ops |-> IdleOp]

-----------------------------------------------------------------------------
(***************************************************************************)
(* The fields, and the beginning and the end of an operation.              *)
(***************************************************************************)

Idle(o) == ops[o].phase = "idle"

\* A new operation takes the first number that is free.
Free(o) == Idle(o) /\ \A p \in Ops : p < o => ~Idle(p)

\* The buttons of the others are there while the page is busy.
Holds(kind) == kind \notin {"check", "cancel", "orders"}

\* What is pasted: an invoice of the node or of another one.
Pasted == {i \in Own : invoices[i] # "none"} \cup {Foreign}

\* The wallet logs in or out.  A page without a login lists nothing.
Login(o) ==
  /\ page = "merchant" /\ Free(o)
  /\ auth' = ~auth
  /\ IF auth THEN /\ listed' = {} /\ UNCHANGED ops
     ELSE /\ ops' = [ops EXCEPT ![o] = [IdleOp EXCEPT !.phase = "list", !.mounted = TRUE]]
          /\ UNCHANGED listed
  /\ UNCHANGED <<page, busy, made, route, invoices, orders, tried, paying>>

\* What an operation of a page that was left still changes.
Lasting(op) == op.phase \in {"new", "order", "dry", "pay", "attempt", "cancel", "update"}
                 \/ (op.phase = "parse" /\ op.kind # "inspect")
                 \/ (op.phase = "get" /\ op.related)

\* The page is left and shown again.
Leave ==
  /\ busy' = FALSE /\ made' = 0 /\ route' = FALSE /\ listed' = {}
  /\ ops' = [o \in Ops |-> IF Lasting(ops[o]) THEN [ops[o] EXCEPT !.mounted = FALSE]
                           ELSE IdleOp]
  /\ UNCHANGED <<page, auth, invoices, orders, tried, paying>>

Begin(o, kind, phase, text) ==
  /\ Free(o)
  /\ ops' = [ops EXCEPT ![o] =
               [IdleOp EXCEPT !.kind = kind, !.phase = phase, !.mounted = TRUE,
                              !.text = text,
                              !.related = /\ page = "merchant" /\ auth
                                          /\ (kind = "create" \/ text \in listed)]]
  /\ busy' = (busy \/ Holds(kind))
  /\ UNCHANGED <<page, auth, made, route, listed, invoices, orders, tried,
                 paying>>

Ends(o) ==
  /\ ops' = [ops EXCEPT ![o] = IdleOp]
  /\ busy' = (busy /\ ~(ops[o].mounted /\ Holds(ops[o].kind)))

Goes(o, phase) == ops' = [ops EXCEPT ![o].phase = phase] /\ UNCHANGED busy

\* The orders are listed again, and that is all that is left of the operation.
GoesToList(o) ==
  /\ ops' = [ops EXCEPT ![o] = [IdleOp EXCEPT !.kind = ops[o].kind, !.phase = "list",
                                            !.mounted = ops[o].mounted]]
  /\ UNCHANGED busy

\* Whatever the operation waits for fails.
Fails(o) ==
  /\ ~Idle(o)
  /\ Ends(o)
  /\ UNCHANGED <<page, auth, made, route, listed, invoices, orders, tried, paying>>

-----------------------------------------------------------------------------
(***************************************************************************)
(* The node.                                                               *)
(***************************************************************************)

\* A payment reaches an invoice, or the invoice expires.
Node ==
  /\ \E i \in Own, state \in {"Received", "Expired"} :
       invoices[i] = "Open" /\ invoices' = [invoices EXCEPT ![i] = state]
  /\ UNCHANGED <<page, auth, fields, orders, ops, tried, paying>>

\* newInvoice: the pages show it, and the console pastes it.
newInvoice(o) ==
  /\ ops[o].phase = "new"
  /\ \E i \in Own :
       /\ invoices[i] = "none" /\ \A j \in Own : invoices[j] = "none" => i <= j
       /\ invoices' = [invoices EXCEPT ![i] = "Open"]
       /\ made' = IF ops[o].mounted /\ page # "console" THEN i ELSE made
       /\ IF ops[o].related
            THEN ops' = [ops EXCEPT ![o].phase = "order", ![o].text = i] /\ UNCHANGED busy
            ELSE Ends(o)
  /\ UNCHANGED <<page, auth, route, listed, orders, tried, paying>>

\* What the node parses is an invoice, its own or another's.
parseInvoice(o) ==
  /\ ops[o].phase = "parse"
  /\ CASE ops[o].kind = "checkout" -> Goes(o, "dry")
       [] ops[o].kind = "send" -> Goes(o, "pay")
       [] OTHER -> Ends(o)
  /\ UNCHANGED <<page, auth, made, route, listed, invoices, orders, tried, paying>>

\* The end of readiness: a route was found without sending anything, or none was.
readiness(o) ==
  /\ ops[o].phase = "dry"
  /\ \E payable \in BOOLEAN :
       /\ IF payable THEN Goes(o, "pay") ELSE Ends(o)
       /\ tried' = IF payable THEN tried \cup {ops[o].text} ELSE tried
  /\ UNCHANGED <<page, auth, made, route, listed, invoices, orders, paying>>

\* The node has a route, and sends what is no dry run.
sendPayment(o) ==
  /\ ops[o].phase = "pay"
  /\ IF ops[o].kind = "send" /\ ops[o].related THEN Goes(o, "attempt") ELSE Ends(o)
  /\ paying' = IF ops[o].kind = "checkout" THEN paying \cup {ops[o].text} ELSE paying
  /\ UNCHANGED <<page, auth, made, route, listed, invoices, orders, tried>>

\* What an order becomes when its invoice has the state s.
OrderOf(s) ==
  CASE s = "Received" -> "PAID"
    [] s = "Cancelled" -> "CANCELLED"
    [] s = "Expired" -> "EXPIRED"
    [] OTHER -> "none"

getInvoice(o) ==
  LET status == OrderOf(invoices[ops[o].text]) IN
    /\ ops[o].phase = "get"
    /\ ops' = [ops EXCEPT ![o] = IF ops[o].related /\ status # "none"
                                   THEN [@ EXCEPT !.phase = "update", !.status = status]
                                   ELSE IdleOp]
    /\ UNCHANGED <<page, auth, fields, invoices, orders, tried, paying>>

cancelInvoice(o) ==
  /\ ops[o].phase = "cancel"
  /\ invoices[ops[o].text] = "Open"
  /\ invoices' = [invoices EXCEPT ![ops[o].text] = "Cancelled"]
  /\ Ends(o)
  /\ UNCHANGED <<page, auth, made, route, listed, orders, tried, paying>>

\* networkResources and buildMultiHopRoute change nothing of the node.
ReadNode(o) ==
  /\ ops[o].phase = "read"
  /\ Ends(o)
  /\ route' = (route \/ (ops[o].kind = "build" /\ ops[o].mounted))
  /\ UNCHANGED <<page, auth, made, listed, invoices, orders, tried, paying>>

-----------------------------------------------------------------------------
(***************************************************************************)
(* The order API, of the server.                                           *)
(***************************************************************************)

\* Its key has the payment hash, and a new invoice has a new one.
createOrder(o) ==
  /\ ops[o].phase = "order"
  /\ orders' = [orders EXCEPT ![ops[o].text] = "PAYMENT_PENDING"]
  /\ GoesToList(o)
  /\ UNCHANGED <<page, auth, made, route, listed, invoices, tried,
                 paying>>

listOrders(o) ==
  /\ ops[o].phase = "list"
  /\ listed' = IF ops[o].mounted THEN {i \in Own : orders[i] # "none"} ELSE listed
  /\ Ends(o)
  /\ UNCHANGED <<page, auth, made, route, invoices, orders, tried, paying>>

\* Mutant: the status goes to an order that the page lists, whichever it is.
MutantUpdateStatus(o) ==
  /\ ops[o].phase = "update"
  /\ \E i \in Own :
       /\ orders[i] = "PAYMENT_PENDING"
       /\ orders' = [orders EXCEPT ![i] = ops[o].status]
  /\ GoesToList(o)
  /\ UNCHANGED <<page, auth, made, route, listed, invoices, tried,
                 paying>>

\* An order that waits for its payment, or is in that state already; else it is refused.
updateStatus(o) ==
  /\ ops[o].phase = "update"
  /\ orders[ops[o].text] \in {"PAYMENT_PENDING", ops[o].status}
  /\ orders' = [orders EXCEPT ![ops[o].text] = ops[o].status]
  /\ GoesToList(o)
  /\ UNCHANGED <<page, auth, made, route, listed, invoices, tried,
                 paying>>

recordAttempt(o) ==
  /\ ops[o].phase = "attempt"
  /\ Ends(o)
  /\ UNCHANGED <<page, auth, made, route, listed, invoices, orders, tried, paying>>

-----------------------------------------------------------------------------
(***************************************************************************)
(* The buttons.                                                            *)
(***************************************************************************)

createInvoice(o) == ~busy /\ Begin(o, "create", "new", NoInvoice)

\* Checkout: Check & pay.
pay(o) ==
  /\ page = "checkout" /\ ~busy
  /\ \E i \in Pasted : Begin(o, "checkout", "parse", i)

\* Merchant.
SendPayment(o) ==
  /\ page = "merchant" /\ ~busy
  /\ \E i \in Pasted : Begin(o, "send", "parse", i)

inspectInvoice(o) ==
  page = "merchant" /\ ~busy /\ Begin(o, "inspect", "parse", NoInvoice)

checkCreatedInvoice(o) ==
  page = "merchant" /\ made # 0 /\ Begin(o, "check", "get", made)

cancelCreatedInvoice(o) ==
  page = "merchant" /\ made # 0 /\ Begin(o, "cancel", "cancel", made)

refreshOrders(o) == page = "merchant" /\ auth /\ Begin(o, "orders", "list", NoInvoice)

\* Console.
scanResources(o) == page = "console" /\ ~busy /\ Begin(o, "scan", "read", NoInvoice)

Pay(o) ==
  page = "console" /\ ~busy /\ Begin(o, "console", "pay", NoInvoice)

buildRoute(o) == page = "console" /\ ~busy /\ Begin(o, "build", "read", NoInvoice)

\* The route that was built last.
sendRoute(o) ==
  page = "console" /\ ~busy /\ route /\ Begin(o, "router", "pay", NoInvoice)

Next ==
  \/ Leave \/ Node
  \/ \E o \in Ops :
       \/ Login(o) \/ Fails(o)
       \/ createInvoice(o) \/ pay(o) \/ SendPayment(o) \/ inspectInvoice(o)
       \/ checkCreatedInvoice(o) \/ cancelCreatedInvoice(o) \/ refreshOrders(o)
       \/ scanResources(o) \/ Pay(o) \/ buildRoute(o) \/ sendRoute(o)
       \/ newInvoice(o) \/ parseInvoice(o) \/ readiness(o) \/ sendPayment(o)
       \/ getInvoice(o) \/ cancelInvoice(o) \/ ReadNode(o)
       \/ createOrder(o) \/ listOrders(o) \/ updateStatus(o) \/ recordAttempt(o)

Spec == Init /\ [][Next]_vars

-----------------------------------------------------------------------------

\* Whatever the merchant page does with a list that has aged, an order is PAID only if a
\* payment reached its own invoice, and cancelled or expired only if that is; a payment
\* attempt is recorded with an order that there is.
OrdersFollowTheirInvoice ==
  /\ \A i \in Own :
       /\ orders[i] # "none" => invoices[i] # "none"
       /\ orders[i] = "PAID" => invoices[i] = "Received"
       /\ orders[i] = "CANCELLED" => invoices[i] = "Cancelled"
       /\ orders[i] = "EXPIRED" => invoices[i] = "Expired"
  /\ \A o \in Ops : ops[o].phase = "attempt" => orders[ops[o].text] # "none"

\* The checkout pays an invoice only after a dry run for that invoice succeeded, however
\* the field was edited meanwhile.
PaymentsAreTried == paying \subseteq tried
=============================================================================
