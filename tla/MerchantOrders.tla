--------------------------- MODULE MerchantOrders ---------------------------
(***************************************************************************)
(* The merchant order endpoints of the Rust service:                       *)
(* merchant_order_create, merchant_order_update and                        *)
(* merchant_payment_attempt_create, over the tables merchant_orders,       *)
(* fiber_payment_attempts and audit_logs.                                  *)
(*                                                                         *)
(* Each request is an async task.  A handler is not a transaction: every   *)
(* SQL statement commits on its own, so a handler is a sequence of atomic  *)
(* steps, one per statement, and the handlers of all requests interleave   *)
(* between statements.  A handler can also end between any two of them:    *)
(* a statement fails, the process stops, or the caller's timeout closes    *)
(* the connection and the task is dropped.                                 *)
(*                                                                         *)
(* A request refused before its first statement (no token, an over-long    *)
(* idempotency key) changes nothing and does not appear here.  One service *)
(* serves one network, so the network column is constant.                  *)
(***************************************************************************)
CONSTANTS
  Requests,     \* the HTTP requests; a created row is named after its request,
                \* whose handler draws a fresh UUID for it
  LegacyOrders, \* rows that were in the table before the service started
  Wallets,      \* the merchants: claims.sub of a verified token
  Keys,         \* idempotency keys
  Hashes,       \* payment hashes
  None          \* SQL NULL, and an unused field of a request

VARIABLES
  orders,    \* merchant_orders: orders[o] is a row, or None
  attempts,  \* fiber_payment_attempts: at most one row per request
  audit,     \* audit_logs: at most one row per request
  req,       \* the state of each request's handler
  reached    \* history: every status an order has had

vars == <<orders, attempts, audit, req, reached>>

OrderIds == Requests \cup LegacyOrders

Statuses ==
  {"ORDER_CREATED", "PAYMENT_PENDING", "PAID", "CANCELLED", "EXPIRED",
   "FULFILLMENT_PENDING", "COMPLETED"}

Phases ==
  {"idle", "lookup", "insert", "read", "write", "owns", "record", "audit", "done"}

Outcomes == {"ok", "replayed", "rejected", "failed", "lost"}

\* A status a caller asks for is any string; "OTHER" stands for all the rest.
Targets == Statuses \cup {"OTHER"}

\* paidBy stands for paid_at: the request whose write stamped it, or NULL.
Row ==
  [wallet : Wallets, key : Keys \cup {None}, hash : Hashes \cup {None},
   status : Statuses, paidBy : Requests \cup {None}]

ASSUME MerchantAssumption ==
  /\ Requests \cap LegacyOrders = {}
  /\ None \notin OrderIds \cup Wallets \cup Keys \cup Hashes \cup Statuses
  /\ None \notin Outcomes \cup Row

Request ==
  [phase : Phases, kind : {None, "create", "update", "attempt"},
   wallet : Wallets \cup {None}, key : Keys \cup {None}, hash : Hashes \cup {None},
   valid : BOOLEAN, order : OrderIds \cup {None}, from : Statuses \cup {None},
   to : Targets \cup {None}, outcome : Outcomes \cup {None}]

IdleRequest ==
  [phase |-> "idle", kind |-> None, wallet |-> None, key |-> None, hash |-> None,
   valid |-> FALSE, order |-> None, from |-> None, to |-> None, outcome |-> None]

AuditRow ==
  [by : Requests, order : OrderIds,
   action : {"ORDER_CREATED", "ORDER_STATUS_CHANGED", "PAYMENT_ATTEMPT_RECORDED"}]

TypeOK ==
  /\ orders \in [OrderIds -> Row \cup {None}]
  /\ attempts \subseteq [by : Requests, order : OrderIds]
  /\ audit \subseteq AuditRow
  /\ req \in [Requests -> Request]
  /\ reached \in [OrderIds -> SUBSET Statuses]

Exists(o) == orders[o] # None

-----------------------------------------------------------------------------
\* A service whose table is new, or holds open orders of an earlier release: the
\* migration renamed their statuses to these two, and none has an idempotency key.
Init ==
  /\ orders \in [OrderIds ->
       {None} \cup [wallet : Wallets, key : {None}, hash : {None},
                    status : {"ORDER_CREATED", "PAYMENT_PENDING"}, paidBy : {None}]]
  /\ \A o \in OrderIds : Exists(o) <=> o \in LegacyOrders
  /\ attempts = {}
  /\ audit = {}
  /\ req = [r \in Requests |-> IdleRequest]
  /\ reached = [o \in OrderIds |-> IF Exists(o) THEN {orders[o].status} ELSE {}]

Goto(r, phase) == req' = [req EXCEPT ![r].phase = phase]

\* The handler of r ends with an order, or without one; its locals are gone.
Succeed(r, outcome, order) ==
  req' = [req EXCEPT ![r] =
            [IdleRequest EXCEPT !.phase = "done", !.outcome = outcome, !.order = order,
                                !.kind = req[r].kind, !.wallet = req[r].wallet,
                                !.key = req[r].key]]

Fail(r, outcome) ==
  req' = [req EXCEPT ![r] =
            [IdleRequest EXCEPT !.phase = "done", !.outcome = outcome]]

-----------------------------------------------------------------------------
(* POST /merchant/orders                                                   *)

\* A request without a usable Idempotency-Key header skips the lookup.
\* valid: the amount parses as a positive u128 and the hash is well formed.
ReceiveCreate(r) ==
  /\ req[r].phase = "idle"
  /\ \E w \in Wallets, k \in Keys \cup {None}, h \in Hashes \cup {None}, v \in BOOLEAN :
       req' = [req EXCEPT ![r] =
                 [IdleRequest EXCEPT !.phase = IF k = None THEN "insert" ELSE "lookup",
                                     !.kind = "create", !.wallet = w, !.key = k,
                                     !.hash = h, !.valid = v]]
  /\ UNCHANGED <<orders, attempts, audit, reached>>

HasKey(o, w, k) == Exists(o) /\ orders[o].wallet = w /\ orders[o].key = k

\* The lookup precedes every check of the body: a replay is not validated.
LookUpKey(r) ==
  /\ req[r].phase = "lookup"
  /\ \/ \E o \in OrderIds :
          /\ HasKey(o, req[r].wallet, req[r].key)
          /\ Succeed(r, "replayed", o)
     \/ /\ \A o \in OrderIds : ~HasKey(o, req[r].wallet, req[r].key)
        /\ Goto(r, "insert")
  /\ UNCHANGED <<orders, attempts, audit, reached>>

RefuseCreate(r) ==
  /\ req[r].phase = "insert"
  /\ ~req[r].valid
  /\ Fail(r, "rejected")
  /\ UNCHANGED <<orders, attempts, audit, reached>>

\* Mutant: the migration that adds the idempotency index did not run.
MutantConflicts(w, k, h) ==
  h # None /\ \E o \in OrderIds : Exists(o) /\ orders[o].hash = h

\* The two unique indexes, of which NULLs are no part.
Conflicts(w, k, h) ==
  \E o \in OrderIds :
    \/ k # None /\ HasKey(o, w, k)
    \/ h # None /\ Exists(o) /\ orders[o].hash = h

InsertOrder(r) ==
  LET q == req[r] IN
  /\ q.phase = "insert"
  /\ q.valid
  /\ ~Conflicts(q.wallet, q.key, q.hash)
  /\ orders' = [orders EXCEPT ![r] =
       [wallet |-> q.wallet, key |-> q.key, hash |-> q.hash,
        status |-> "PAYMENT_PENDING", paidBy |-> None]]
  /\ reached' = [reached EXCEPT ![r] = @ \cup {"PAYMENT_PENDING"}]
  /\ req' = [req EXCEPT ![r].phase = "audit", ![r].order = r]
  /\ UNCHANGED <<attempts, audit>>

\* A unique violation is a database error: the caller gets a 500.
InsertConflict(r) ==
  /\ req[r].phase = "insert"
  /\ req[r].valid
  /\ Conflicts(req[r].wallet, req[r].key, req[r].hash)
  /\ Fail(r, "failed")
  /\ UNCHANGED <<orders, attempts, audit, reached>>

-----------------------------------------------------------------------------
(* POST /merchant/orders/:id                                               *)

ReceiveUpdate(r) ==
  /\ req[r].phase = "idle"
  /\ \E w \in Wallets, o \in OrderIds, s \in Targets :
       req' = [req EXCEPT ![r] =
                 [IdleRequest EXCEPT !.phase = "read", !.kind = "update",
                                     !.wallet = w, !.order = o, !.to = s]]
  /\ UNCHANGED <<orders, attempts, audit, reached>>

\* Mutant: a pending order can be fulfilled without a payment.
MutantUnpaidTransition(from, to) ==
  from = to \/ <<from, to>> \in
    {<<"ORDER_CREATED", "PAYMENT_PENDING">>, <<"PAYMENT_PENDING", "PAID">>,
     <<"PAYMENT_PENDING", "FULFILLMENT_PENDING">>, <<"FULFILLMENT_PENDING", "COMPLETED">>}

\* Mutant: an order can be cancelled before it waits for a payment.
MutantCancelTransition(from, to) ==
  from = to \/ <<from, to>> \in
    {<<"ORDER_CREATED", "PAYMENT_PENDING">>, <<"ORDER_CREATED", "CANCELLED">>,
     <<"PAYMENT_PENDING", "PAID">>, <<"PAYMENT_PENDING", "CANCELLED">>}

\* The edges of valid_order_transition.
ValidOrderTransition(from, to) ==
  \/ from = to
  \/ <<from, to>> \in
       {<<"ORDER_CREATED", "PAYMENT_PENDING">>,
        <<"PAYMENT_PENDING", "PAID">>,
        <<"PAYMENT_PENDING", "CANCELLED">>,
        <<"PAYMENT_PENDING", "EXPIRED">>,
        <<"PAID", "FULFILLMENT_PENDING">>,
        <<"FULFILLMENT_PENDING", "COMPLETED">>}

OwnedBy(o, w) == Exists(o) /\ orders[o].wallet = w

MayBecome(o, w, s) == OwnedBy(o, w) /\ ValidOrderTransition(orders[o].status, s)

\* 404 when the caller owns no such order, 400 when the table has no such edge.
ReadStatus(r) ==
  LET q == req[r] IN
  /\ q.phase = "read"
  /\ \/ /\ MayBecome(q.order, q.wallet, q.to)
        /\ req' = [req EXCEPT ![r].phase = "write", ![r].from = orders[q.order].status]
     \/ /\ ~MayBecome(q.order, q.wallet, q.to)
        /\ Fail(r, "rejected")
  /\ UNCHANGED <<orders, attempts, audit, reached>>

\* The UPDATE names the order and its owner, not the status that was read.
WriteStatus(r) ==
  LET o == req[r].order
      s == req[r].to
  IN
  /\ req[r].phase = "write"
  /\ orders' = [orders EXCEPT ![o].status = s,
                  ![o].paidBy = IF s = "PAID" /\ @ = None THEN r ELSE @]
  /\ reached' = [reached EXCEPT ![o] = @ \cup {s}]
  /\ Goto(r, "audit")
  /\ UNCHANGED <<attempts, audit>>

-----------------------------------------------------------------------------
(* POST /merchant/orders/:id/attempts                                      *)

ReceiveAttempt(r) ==
  /\ req[r].phase = "idle"
  /\ \E w \in Wallets, o \in OrderIds :
       req' = [req EXCEPT ![r] =
                 [IdleRequest EXCEPT !.phase = "owns", !.kind = "attempt",
                                     !.wallet = w, !.order = o]]
  /\ UNCHANGED <<orders, attempts, audit, reached>>

CheckOwner(r) ==
  /\ req[r].phase = "owns"
  /\ \/ OwnedBy(req[r].order, req[r].wallet) /\ Goto(r, "record")
     \/ ~OwnedBy(req[r].order, req[r].wallet) /\ Fail(r, "rejected")
  /\ UNCHANGED <<orders, attempts, audit, reached>>

RecordAttempt(r) ==
  /\ req[r].phase = "record"
  /\ attempts' = attempts \cup {[by |-> r, order |-> req[r].order]}
  /\ Goto(r, "audit")
  /\ UNCHANGED <<orders, audit, reached>>

-----------------------------------------------------------------------------
ActionOf(kind) ==
  CASE kind = "create"  -> "ORDER_CREATED"
    [] kind = "update"  -> "ORDER_STATUS_CHANGED"
    [] kind = "attempt" -> "PAYMENT_ATTEMPT_RECORDED"

\* Mutant: the answer does not depend on the audit entry being written.
MutantWriteAudit(r) ==
  /\ req[r].phase = "audit"
  /\ Succeed(r, "ok", req[r].order)
  /\ UNCHANGED <<orders, attempts, audit, reached>>

\* The last statement of all three handlers.
WriteAudit(r) ==
  /\ req[r].phase = "audit"
  /\ audit' = audit \cup
       {[by |-> r, order |-> req[r].order, action |-> ActionOf(req[r].kind)]}
  /\ Succeed(r, "ok", req[r].order)
  /\ UNCHANGED <<orders, attempts, reached>>

\* A handler that ends before its next statement takes effect, whatever ends
\* it: the caller sees an error, a timeout or a closed connection.
Abandon(r) ==
  /\ req[r].phase \notin {"idle", "done"}
  /\ Fail(r, "lost")
  /\ UNCHANGED <<orders, attempts, audit, reached>>

Create(r) ==
  ReceiveCreate(r) \/ LookUpKey(r) \/ RefuseCreate(r) \/ InsertOrder(r) \/ InsertConflict(r)

Update(r) == ReceiveUpdate(r) \/ ReadStatus(r) \/ WriteStatus(r)

Attempt(r) == ReceiveAttempt(r) \/ CheckOwner(r) \/ RecordAttempt(r)

Next ==
  \E r \in Requests : Create(r) \/ Update(r) \/ Attempt(r) \/ WriteAudit(r) \/ Abandon(r)

Spec == Init /\ [][Next]_vars

-----------------------------------------------------------------------------
(* Properties                                                              *)

Succeeded(r) == req[r].outcome \in {"ok", "replayed"}

(***************************************************************************)
(* Two creates of one merchant with one Idempotency-Key that are both      *)
(* answered with an order are answered with the same order, however the    *)
(* lookup of one interleaves with the insert of the other, and whether or  *)
(* not the first was answered: the key makes a retry after a timeout safe. *)
(***************************************************************************)
SameKeySameOrder ==
  \A r, s \in Requests :
    /\ req[r].kind = "create" /\ Succeeded(r)
    /\ req[s].kind = "create" /\ Succeeded(s)
    /\ req[r].wallet = req[s].wallet
    /\ req[r].key = req[s].key /\ req[r].key # None
    => req[r].order = req[s].order

(***************************************************************************)
(* An order that is paid, being fulfilled or completed has a payment time, *)
(* although the status is written without looking at the status it         *)
(* replaces: no interleaving of updates takes goods out before a payment   *)
(* was recorded.                                                           *)
(***************************************************************************)
FulfilledWasPaid ==
  \A o \in OrderIds :
    Exists(o) /\ orders[o].status \in {"PAID", "FULFILLMENT_PENDING", "COMPLETED"}
      => orders[o].paidBy # None

(***************************************************************************)
(* The audit log and the tables agree up to handlers that ended between    *)
(* their two statements: every row a request wrote has that request's      *)
(* audit entry unless the request is still to write it or was lost, and    *)
(* every audit entry is about an order that exists.                        *)
(***************************************************************************)
AuditGapsAreLostHandlers ==
  /\ \A a \in audit : Exists(a.order)
  /\ \A r \in Requests :
       \/ [by |-> r, order |-> r, action |-> "ORDER_CREATED"] \in audit
       \/ ~Exists(r)
       \/ req[r].phase = "audit" \/ req[r].outcome = "lost"
  /\ \A t \in attempts :
       \/ [by |-> t.by, order |-> t.order, action |-> "PAYMENT_ATTEMPT_RECORDED"] \in audit
       \/ req[t.by].phase = "audit" \/ req[t.by].outcome = "lost"

(***************************************************************************)
(* The endpoints implement the order lifecycle: a row appears as           *)
(* PAYMENT_PENDING, never disappears, and each status it is given follows  *)
(* along an edge of valid_order_transition from a status it has had.       *)
(***************************************************************************)
Lifecycle ==
  INSTANCE OrderLifecycle WITH
    Absent <- None,
    status <- [o \in OrderIds |-> IF Exists(o) THEN orders[o].status ELSE None]

ImplementsLifecycle == Lifecycle!Spec

(***************************************************************************)
(* Each status change is one valid_order_transition allows: the handler    *)
(* refuses every other one as an "Unsupported order status".               *)
(***************************************************************************)
EachChangeIsAValidTransition ==
  [][\A o \in OrderIds :
       Exists(o) => ValidOrderTransition(orders[o].status, orders'[o].status)]_orders
=============================================================================
