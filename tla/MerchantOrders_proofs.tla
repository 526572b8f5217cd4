----------------------- MODULE MerchantOrders_proofs -----------------------
(***************************************************************************)
(* The safety properties of MerchantOrders, for any number of requests,    *)
(* orders, merchants and keys.                                             *)
(*                                                                         *)
(* None of them is inductive: each depends on what a handler learned in an *)
(* earlier statement and still relies on.  IInv says what that is, phase   *)
(* by phase, and why the other handlers cannot have made it false since.   *)
(***************************************************************************)
EXTENDS MerchantOrders, TLAPS

PaidStatuses == {"PAID", "FULFILLMENT_PENDING", "COMPLETED"}

\* What the handler of r has established when it is about to take its next step.
HandlerOK(r) ==
  LET q == req[r] IN
  /\ q.phase \in {"lookup", "insert"} => q.kind = "create" /\ q.wallet # None
  /\ q.phase \in {"read", "owns"} => q.order # None
  /\ q.phase = "read" => q.kind = "update"
  /\ q.phase = "owns" => q.kind = "attempt"
  /\ q.phase = "write" =>
       /\ q.kind = "update"
       /\ q.order # None /\ Exists(q.order)
       /\ q.from \in reached[q.order]
       /\ ValidOrderTransition(q.from, q.to)
  /\ q.phase = "record" => q.kind = "attempt" /\ q.order # None /\ Exists(q.order)
  /\ q.phase = "audit" =>
       q.kind \in {"create", "update", "attempt"} /\ q.order # None /\ Exists(q.order)

\* A row named after a request is the one that request inserted: there is none
\* before it inserts, and then it writes its audit entry and is over.
RowOK(r) ==
  Exists(r) =>
    \/ req[r].phase = "audit" /\ req[r].kind = "create" /\ req[r].order = r
    \/ req[r].phase = "done"

\* A create that is, or is about to be, answered has a row with its key.
AnswerOK(r) ==
  /\ req[r].phase = "done" \/ req[r].outcome = None
  /\ req[r].kind = "create" /\ (req[r].phase = "audit" \/ Succeeded(r)) =>
       /\ req[r].order # None /\ req[r].wallet # None
       /\ Exists(req[r].order)
       /\ orders[req[r].order].wallet = req[r].wallet
       /\ orders[req[r].order].key = req[r].key

\* The status of a row is one it has had, and a row that was ever paid, being
\* fulfilled or completed has a payment time.
HistoryOK(o) ==
  /\ Exists(o) => orders[o].status \in reached[o]
  /\ ~Exists(o) => reached[o] = {}
  /\ Exists(o) /\ reached[o] \cap PaidStatuses # {} => orders[o].paidBy # None

\* The index on (merchant, idempotency key).
KeyUnique ==
  \A o, p \in OrderIds :
    Exists(o) /\ orders[o].key # None /\ HasKey(p, orders[o].wallet, orders[o].key) => o = p

AttemptOK(t) ==
  \/ [by |-> t.by, order |-> t.order, action |-> "PAYMENT_ATTEMPT_RECORDED"] \in audit
  \/ req[t.by].phase = "audit" /\ req[t.by].kind = "attempt" /\ req[t.by].order = t.order
  \/ req[t.by].phase = "done" /\ req[t.by].outcome = "lost"

CreateAudited(r) ==
  \/ [by |-> r, order |-> r, action |-> "ORDER_CREATED"] \in audit
  \/ ~Exists(r)
  \/ req[r].phase = "audit" \/ req[r].outcome = "lost"

AuditOK ==
  /\ \A a \in audit : Exists(a.order)
  /\ \A r \in Requests : CreateAudited(r)
  /\ \A t \in attempts : AttemptOK(t)

IInv ==
  /\ TypeOK
  /\ \A r \in Requests : HandlerOK(r)
  /\ \A r \in Requests : RowOK(r)
  /\ \A r \in Requests : AnswerOK(r)
  /\ \A o \in OrderIds : HistoryOK(o)
  /\ KeyUnique
  /\ AuditOK

-----------------------------------------------------------------------------
(* The initial states.                                                     *)

LEMMA InitInv == Init => IInv
<1> SUFFICES ASSUME Init PROVE IInv
  OBVIOUS
<1>1. TypeOK
  BY MerchantAssumption DEF Init, TypeOK, Exists, Row, Request, IdleRequest, Phases, Outcomes,
     Statuses, OrderIds, AuditRow
<1>2. \A r \in Requests : HandlerOK(r) /\ RowOK(r) /\ AnswerOK(r)
  BY MerchantAssumption DEF Init, HandlerOK, RowOK, AnswerOK, IdleRequest, OrderIds, Succeeded
<1>3. \A o \in OrderIds : HistoryOK(o)
  BY DEF Init, HistoryOK, PaidStatuses, Exists
<1>4. KeyUnique
  BY DEF Init, KeyUnique, HasKey, Exists
<1>5. AuditOK
  BY MerchantAssumption DEF Init, AuditOK, CreateAudited, OrderIds
<1> QED BY <1>1, <1>2, <1>3, <1>4, <1>5 DEF IInv

-----------------------------------------------------------------------------
(* A step that changes only the handler of one request keeps the invariant *)
(* if the new state of that handler is as the invariant says: nothing the  *)
(* other handlers rely on moves.                                           *)

LEMMA LocalStep ==
  ASSUME IInv, NEW r \in Requests, NEW q \in Request,
         req' = [req EXCEPT ![r] = q],
         UNCHANGED <<orders, attempts, audit, reached>>,
         req[r].phase # "done",
         req[r].phase = "audit" => q.phase = "done" /\ q.outcome = "lost",
         HandlerOK(r)', RowOK(r)', AnswerOK(r)'
  PROVE  IInv'
<1>1. TypeOK'
  BY DEF IInv, TypeOK
<1>2. req' \in [Requests -> Request] /\ req'[r] = q
  BY DEF IInv, TypeOK
<1>3. \A s \in Requests \ {r} : req'[s] = req[s]
  BY DEF IInv, TypeOK
<1>4. \A s \in Requests : HandlerOK(s)'
  BY <1>3 DEF IInv, HandlerOK, Exists
<1>5. \A s \in Requests : RowOK(s)'
  BY <1>3 DEF IInv, RowOK, Exists
<1>6. \A s \in Requests : AnswerOK(s)'
  BY <1>3 DEF IInv, AnswerOK, Exists, Succeeded
<1>7. \A o \in OrderIds : HistoryOK(o)'
  BY DEF IInv, HistoryOK, Exists
<1>8. KeyUnique'
  BY DEF IInv, KeyUnique, HasKey, Exists
<1>9. AuditOK'
  <2>1. \A a \in audit' : Exists(a.order)'
    BY DEF IInv, AuditOK, Exists
  <2>2. \A s \in Requests : CreateAudited(s)'
    BY <1>2, <1>3 DEF IInv, AuditOK, CreateAudited, RowOK, Exists
  <2>3. ASSUME NEW t \in attempts PROVE AttemptOK(t)'
    <3>1. AttemptOK(t) /\ t.by \in Requests
      BY DEF IInv, AuditOK, TypeOK
    <3> QED BY <3>1, <1>2, <1>3 DEF AttemptOK
  <2> QED BY <2>1, <2>2, <2>3 DEF AuditOK
<1> QED BY <1>1, <1>4, <1>5, <1>6, <1>7, <1>8, <1>9 DEF IInv

-----------------------------------------------------------------------------
(* The steps that change only their handler.                               *)

\* The handler ends without an answer that names an order.
LEMMA FailInv ==
  ASSUME IInv, NEW r \in Requests, NEW outcome \in {"rejected", "failed", "lost"},
         req[r].phase \notin {"idle", "done"},
         req[r].phase = "audit" => outcome = "lost",
         Fail(r, outcome), UNCHANGED <<orders, attempts, audit, reached>>
  PROVE  IInv'
<1> DEFINE q == [IdleRequest EXCEPT !.phase = "done", !.outcome = outcome]
<1>1. q \in Request /\ q.phase = "done" /\ q.outcome = outcome /\ q.kind = None
  BY DEF Request, IdleRequest, Phases, Outcomes
<1>2. req' = [req EXCEPT ![r] = q] /\ req'[r] = q
  BY DEF Fail, IInv, TypeOK
<1> HIDE DEF q
<1>3. HandlerOK(r)' /\ RowOK(r)' /\ AnswerOK(r)'
  BY <1>1, <1>2, MerchantAssumption DEF HandlerOK, RowOK, AnswerOK, Succeeded
<1> QED BY <1>1, <1>2, <1>3, LocalStep

\* The handler goes on to a phase whose facts hold.
LEMMA GotoInv ==
  ASSUME IInv, NEW r \in Requests, NEW phase \in Phases,
         req[r].phase \notin {"done", "audit"}, phase \notin {"done", "audit"},
         Goto(r, phase), UNCHANGED <<orders, attempts, audit, reached>>,
         HandlerOK(r)'
  PROVE  IInv'
<1> DEFINE q == [req[r] EXCEPT !.phase = phase]
<1>1. req[r] \in Request
  BY DEF IInv, TypeOK
<1>2. /\ q \in Request /\ q.phase = phase
      /\ q.outcome = req[r].outcome /\ q.kind = req[r].kind /\ q.order = req[r].order
  BY <1>1 DEF Request
<1>3. req' = [req EXCEPT ![r] = q] /\ req'[r] = q
  BY DEF Goto, IInv, TypeOK
<1> HIDE DEF q
<1>4. RowOK(r)' /\ AnswerOK(r)'
  BY <1>2, <1>3, MerchantAssumption DEF IInv, RowOK, AnswerOK, Exists, Succeeded, Outcomes
<1> QED BY <1>2, <1>3, <1>4, LocalStep

\* A request arrives.
LEMMA ReceiveInv ==
  ASSUME IInv, NEW r \in Requests, ReceiveCreate(r) \/ ReceiveUpdate(r) \/ ReceiveAttempt(r)
  PROVE  IInv'
<1>1. ASSUME NEW q \in Request, req[r].phase = "idle", req' = [req EXCEPT ![r] = q],
             UNCHANGED <<orders, attempts, audit, reached>>,
             q.phase \notin {"idle", "write", "record", "audit", "done"}, q.outcome = None,
             q.phase \in {"lookup", "insert"} => q.kind = "create" /\ q.wallet # None,
             q.phase \in {"read", "owns"} => q.order # None,
             q.phase = "read" => q.kind = "update",
             q.phase = "owns" => q.kind = "attempt"
      PROVE  IInv'
  <2>1. req'[r] = q
    BY <1>1 DEF IInv, TypeOK
  <2>2. HandlerOK(r)' /\ RowOK(r)' /\ AnswerOK(r)'
    BY <1>1, <2>1, MerchantAssumption DEF IInv, HandlerOK, RowOK, AnswerOK, Exists, Succeeded, Outcomes
  <2> QED BY <1>1, <2>2, LocalStep
<1>2. CASE ReceiveCreate(r)
  <2>1. PICK w \in Wallets, k \in Keys \cup {None}, h \in Hashes \cup {None}, v \in BOOLEAN :
          req' = [req EXCEPT ![r] =
            [IdleRequest EXCEPT !.phase = IF k = None THEN "insert" ELSE "lookup",
                                !.kind = "create", !.wallet = w, !.key = k,
                                !.hash = h, !.valid = v]]
    BY <1>2 DEF ReceiveCreate
  <2> DEFINE q == [IdleRequest EXCEPT !.phase = IF k = None THEN "insert" ELSE "lookup",
                                      !.kind = "create", !.wallet = w, !.key = k,
                                      !.hash = h, !.valid = v]
  <2>2. /\ q \in Request /\ q.phase \in {"insert", "lookup"} /\ q.outcome = None
        /\ q.kind = "create" /\ q.wallet # None
    BY MerchantAssumption DEF Request, IdleRequest, Phases, Outcomes
  <2> HIDE DEF q
  <2> QED BY <1>1, <1>2, <2>1, <2>2, ZenonT(60) DEF ReceiveCreate, q
<1>3. CASE ReceiveUpdate(r)
  <2>1. PICK w \in Wallets, o \in OrderIds, t \in Targets :
          req' = [req EXCEPT ![r] =
            [IdleRequest EXCEPT !.phase = "read", !.kind = "update",
                                !.wallet = w, !.order = o, !.to = t]]
    BY <1>3 DEF ReceiveUpdate
  <2> DEFINE q == [IdleRequest EXCEPT !.phase = "read", !.kind = "update",
                                      !.wallet = w, !.order = o, !.to = t]
  <2>2. /\ q \in Request /\ q.phase = "read" /\ q.outcome = None /\ q.kind = "update"
        /\ q.order # None
    BY MerchantAssumption DEF Request, IdleRequest, Phases, Outcomes
  <2> HIDE DEF q
  <2> QED BY <1>1, <1>3, <2>1, <2>2 DEF ReceiveUpdate, q
<1>4. CASE ReceiveAttempt(r)
  <2>1. PICK w \in Wallets, o \in OrderIds :
          req' = [req EXCEPT ![r] =
            [IdleRequest EXCEPT !.phase = "owns", !.kind = "attempt",
                                !.wallet = w, !.order = o]]
    BY <1>4 DEF ReceiveAttempt
  <2> DEFINE q == [IdleRequest EXCEPT !.phase = "owns", !.kind = "attempt",
                                      !.wallet = w, !.order = o]
  <2>2. /\ q \in Request /\ q.phase = "owns" /\ q.outcome = None /\ q.kind = "attempt"
        /\ q.order # None
    BY MerchantAssumption DEF Request, IdleRequest, Phases, Outcomes
  <2> HIDE DEF q
  <2> QED BY <1>1, <1>4, <2>1, <2>2 DEF ReceiveAttempt, q
<1> QED BY <1>2, <1>3, <1>4

\* A replayed create is answered with a row that has its key.
LEMMA LookUpKeyInv == ASSUME IInv, NEW r \in Requests, LookUpKey(r) PROVE IInv'
<1>1. CASE Goto(r, "insert")
  <2>1. HandlerOK(r)'
    BY <1>1 DEF IInv, TypeOK, HandlerOK, Goto, LookUpKey, Request
  <2> QED BY <1>1, <2>1, GotoInv DEF LookUpKey, Phases
<1>2. ASSUME NEW o \in OrderIds, HasKey(o, req[r].wallet, req[r].key),
             Succeed(r, "replayed", o)
      PROVE  IInv'
  <2> DEFINE q == [IdleRequest EXCEPT !.phase = "done", !.outcome = "replayed", !.order = o,
                                      !.kind = req[r].kind, !.wallet = req[r].wallet,
                                      !.key = req[r].key]
  <2>1. req[r] \in Request
    BY DEF IInv, TypeOK
  <2>2. /\ q \in Request /\ q.phase = "done" /\ q.order = o
        /\ q.wallet = req[r].wallet /\ q.key = req[r].key
    BY <2>1, ZenonT(60) DEF Request, IdleRequest, Phases, Outcomes
  <2>3. req' = [req EXCEPT ![r] = q] /\ req'[r] = q
    BY <1>2 DEF Succeed, IInv, TypeOK
  <2> HIDE DEF q
  <2>4. HandlerOK(r)' /\ RowOK(r)' /\ AnswerOK(r)'
    BY <1>2, <2>2, <2>3, MerchantAssumption
    DEF IInv, LookUpKey, HasKey, HandlerOK, RowOK, AnswerOK, Exists
  <2> QED BY <2>2, <2>3, <2>4, LocalStep DEF LookUpKey
<1> QED BY <1>1, <1>2 DEF LookUpKey

LEMMA ValidTransitionType ==
  ASSUME NEW from \in Statuses, NEW to, ValidOrderTransition(from, to)
  PROVE  to \in Statuses
BY DEF ValidOrderTransition, Statuses

\* The status read is one the order has had, and stays so until the write.
LEMMA ReadStatusInv == ASSUME IInv, NEW r \in Requests, ReadStatus(r) PROVE IInv'
<1>1. CASE Fail(r, "rejected")
  BY <1>1, FailInv DEF ReadStatus
<1>2. ASSUME MayBecome(req[r].order, req[r].wallet, req[r].to),
             req' = [req EXCEPT ![r].phase = "write",
                                ![r].from = orders[req[r].order].status]
      PROVE  IInv'
  <2> DEFINE q == [req[r] EXCEPT !.phase = "write", !.from = orders[req[r].order].status]
  <2>1. req[r] \in Request /\ req[r].phase = "read" /\ req[r].kind = "update"
    BY DEF IInv, TypeOK, HandlerOK, ReadStatus
  <2>2. req[r].order \in OrderIds /\ req[r].order # None
    BY <2>1 DEF IInv, HandlerOK, Request
  <2>3. Exists(req[r].order) /\ orders[req[r].order].status \in Statuses
    BY <1>2, <2>2 DEF MayBecome, OwnedBy, IInv, TypeOK, Exists, Row
  <2>4. /\ q \in Request /\ q.phase = "write" /\ q.from = orders[req[r].order].status
        /\ q.kind = "update" /\ q.order = req[r].order /\ q.to = req[r].to
        /\ q.outcome = req[r].outcome
    BY <2>1, <2>3 DEF Request, Phases
  <2>5. req' = [req EXCEPT ![r] = q] /\ req'[r] = q
    BY <1>2 DEF IInv, TypeOK
  <2> HIDE DEF q
  <2>6. q.from \in reached[q.order]
    BY <2>2, <2>3, <2>4 DEF IInv, HistoryOK
  <2>7. HandlerOK(r)'
    BY <1>2, <2>2, <2>3, <2>4, <2>5, <2>6 DEF HandlerOK, MayBecome, ReadStatus, Exists
  <2>8. RowOK(r)' /\ AnswerOK(r)'
    BY <2>1, <2>4, <2>5 DEF IInv, RowOK, AnswerOK, Exists, ReadStatus
  <2> QED BY <2>1, <2>4, <2>5, <2>7, <2>8, LocalStep DEF ReadStatus
<1> QED BY <1>1, <1>2 DEF ReadStatus

LEMMA CheckOwnerInv == ASSUME IInv, NEW r \in Requests, CheckOwner(r) PROVE IInv'
<1>1. CASE Fail(r, "rejected")
  BY <1>1, FailInv DEF CheckOwner
<1>2. ASSUME OwnedBy(req[r].order, req[r].wallet), Goto(r, "record") PROVE IInv'
  <2>1. HandlerOK(r)'
    BY <1>2 DEF IInv, TypeOK, HandlerOK, Goto, CheckOwner, OwnedBy, Exists, Request
  <2> QED BY <1>2, <2>1, GotoInv DEF CheckOwner, Phases
<1> QED BY <1>1, <1>2 DEF CheckOwner

LEMMA RefusalInv ==
  ASSUME IInv, NEW r \in Requests, RefuseCreate(r) \/ InsertConflict(r) \/ Abandon(r)
  PROVE  IInv'
BY FailInv DEF RefuseCreate, InsertConflict, Abandon

-----------------------------------------------------------------------------
(* The steps that change a table.                                          *)

\* The new row is the handler's own; the indexes kept its key unique.
LEMMA InsertOrderInv == ASSUME IInv, NEW r \in Requests, InsertOrder(r) PROVE IInv'
<1> DEFINE row == [wallet |-> req[r].wallet, key |-> req[r].key, hash |-> req[r].hash,
                   status |-> "PAYMENT_PENDING", paidBy |-> None]
           q == [req[r] EXCEPT !.phase = "audit", !.order = r]
<1>1. /\ req[r] \in Request /\ req[r].kind = "create" /\ req[r].wallet # None
      /\ r \in OrderIds /\ r # None
  BY MerchantAssumption DEF IInv, TypeOK, HandlerOK, InsertOrder, OrderIds
<1>2. /\ row \in Row /\ row.wallet = req[r].wallet /\ row.key = req[r].key
      /\ row.status = "PAYMENT_PENDING" /\ row # None
  BY <1>1, MerchantAssumption DEF Request, Row, Statuses
<1>3. /\ q \in Request /\ q.phase = "audit" /\ q.order = r /\ q.kind = "create"
      /\ q.wallet = req[r].wallet /\ q.key = req[r].key /\ q.outcome = req[r].outcome
  BY <1>1 DEF Request, Phases
<1>4. /\ orders' = [orders EXCEPT ![r] = row]
      /\ orders'[r] = row
      /\ \A o \in OrderIds \ {r} : orders'[o] = orders[o]
  BY <1>1 DEF InsertOrder, IInv, TypeOK
<1>5. /\ req' = [req EXCEPT ![r] = q] /\ req'[r] = q
      /\ \A s \in Requests \ {r} : req'[s] = req[s]
  BY DEF InsertOrder, IInv, TypeOK
<1> HIDE DEF row, q
<1>6. ~Exists(r) /\ reached[r] = {}
  BY <1>1 DEF IInv, RowOK, HistoryOK, InsertOrder
<1>7. /\ reached'[r] = {"PAYMENT_PENDING"}
      /\ \A o \in OrderIds \ {r} : reached'[o] = reached[o]
  BY <1>1, <1>6 DEF InsertOrder, IInv, TypeOK
<1>8. /\ Exists(r)'
      /\ \A o \in OrderIds : Exists(o) => Exists(o)' /\ o # r
      /\ \A o \in OrderIds \ {r} : Exists(o)' => Exists(o)
  BY <1>2, <1>4, <1>6 DEF Exists
<1>9. TypeOK'
  BY <1>1, <1>2, <1>3, <1>4, <1>5 DEF InsertOrder, IInv, TypeOK, Statuses
<1>10. \A s \in Requests : HandlerOK(s)'
  <2>1. HandlerOK(r)'
    BY <1>1, <1>3, <1>5, <1>8 DEF HandlerOK
  <2>2. ASSUME NEW s \in Requests \ {r} PROVE HandlerOK(s)'
    <3>1. HandlerOK(s) /\ req'[s] = req[s] /\ req[s] \in Request
      BY <1>5 DEF IInv, TypeOK
    <3>2. req[s].order \in OrderIds \cup {None}
      BY <3>1 DEF Request
    <3> QED BY <3>1, <3>2, <1>7, <1>8 DEF HandlerOK
  <2> QED BY <2>1, <2>2
<1>11. \A s \in Requests : RowOK(s)'
  BY <1>3, <1>4, <1>5 DEF IInv, RowOK, Exists, OrderIds
<1>12. \A s \in Requests : AnswerOK(s)'
  <2>1. AnswerOK(r)'
    BY <1>1, <1>2, <1>3, <1>4, <1>5, <1>8 DEF IInv, AnswerOK, InsertOrder, Succeeded
  <2>2. ASSUME NEW s \in Requests \ {r} PROVE AnswerOK(s)'
    <3>1. AnswerOK(s) /\ req'[s] = req[s] /\ req[s] \in Request
      BY <1>5 DEF IInv, TypeOK
    <3>2. req[s].order \in OrderIds \cup {None}
      BY <3>1 DEF Request
    <3> QED BY <3>1, <3>2, <1>4, <1>8 DEF AnswerOK, Succeeded
  <2> QED BY <2>1, <2>2
<1>13. \A o \in OrderIds : HistoryOK(o)'
  BY <1>2, <1>4, <1>7, <1>8 DEF IInv, HistoryOK, Exists, PaidStatuses
<1>14. KeyUnique'
  <2>1. ASSUME NEW o \in OrderIds, NEW p \in OrderIds,
               Exists(o)', (orders[o].key # None)',
               HasKey(p, orders[o].wallet, orders[o].key)'
        PROVE  o = p
    <3>1. CASE o = r
      BY <2>1, <3>1, <1>2, <1>4, <1>8 DEF InsertOrder, Conflicts, HasKey, Exists
    <3>2. CASE p = r
      BY <2>1, <3>2, <1>2, <1>4, <1>8 DEF InsertOrder, Conflicts, HasKey, Exists
    <3>3. CASE o # r /\ p # r
      BY <2>1, <3>3, <1>4 DEF IInv, KeyUnique, HasKey, Exists
    <3> QED BY <3>1, <3>2, <3>3
  <2> QED BY <2>1 DEF KeyUnique
<1>15. AuditOK'
  <2>1. \A a \in audit' : Exists(a.order)'
    BY <1>8 DEF InsertOrder, IInv, AuditOK, TypeOK, AuditRow
  <2>2. \A s \in Requests : CreateAudited(s)'
    <3>1. CreateAudited(r)'
      BY <1>3, <1>5 DEF CreateAudited
    <3>2. ASSUME NEW s \in Requests \ {r} PROVE CreateAudited(s)'
      BY <1>5, <1>8 DEF InsertOrder, IInv, AuditOK, CreateAudited, OrderIds
    <3> QED BY <3>1, <3>2
  <2>3. ASSUME NEW t \in attempts PROVE AttemptOK(t)'
    <3>1. AttemptOK(t) /\ t.by \in Requests
      BY DEF IInv, AuditOK, TypeOK
    <3> QED BY <3>1, <1>5 DEF InsertOrder, AttemptOK
  <2> QED BY <2>1, <2>2, <2>3 DEF AuditOK, InsertOrder
<1> QED BY <1>9, <1>10, <1>11, <1>12, <1>13, <1>14, <1>15 DEF IInv

\* The status written follows from one the order has had: if it means that the
\* order was paid, either this write pays it or the order was paid before.
LEMMA WriteStatusInv == ASSUME IInv, NEW r \in Requests, WriteStatus(r) PROVE IInv'
<1> PICK o, s : o = req[r].order /\ s = req[r].to
  OBVIOUS
<1> DEFINE q == [req[r] EXCEPT !.phase = "audit"]
           row == [orders[o] EXCEPT !.status = s,
                                    !.paidBy = IF s = "PAID" /\ @ = None THEN r ELSE @]
<1>1. /\ req[r] \in Request /\ req[r].phase = "write" /\ req[r].kind = "update"
      /\ o \in OrderIds /\ Exists(o) /\ o # None
      /\ req[r].from \in reached[o] /\ ValidOrderTransition(req[r].from, s)
  BY DEF IInv, TypeOK, HandlerOK, WriteStatus, Request
<1>2. /\ orders[o] \in Row /\ reached[o] \subseteq Statuses
      /\ req[r].from \in Statuses /\ s \in Statuses
  <2>1. orders[o] \in Row /\ reached[o] \subseteq Statuses
    BY <1>1 DEF IInv, TypeOK, Exists
  <2> QED BY <2>1, <1>1, ValidTransitionType
<1>3. /\ row \in Row /\ row # None /\ row.status = s
      /\ row.wallet = orders[o].wallet /\ row.key = orders[o].key
      /\ row.paidBy = IF s = "PAID" /\ orders[o].paidBy = None THEN r ELSE orders[o].paidBy
  <2>1. row \in Row
    BY <1>2 DEF Row
  <2>2. /\ row.status = s /\ row.wallet = orders[o].wallet /\ row.key = orders[o].key
        /\ row.paidBy = IF s = "PAID" /\ orders[o].paidBy = None THEN r ELSE orders[o].paidBy
    BY <1>2 DEF Row
  <2>3. row # None
    BY <2>1, <2>2, <1>1, <1>2, MerchantAssumption DEF Row, Exists
  <2> QED BY <2>1, <2>2, <2>3
<1>4. /\ q \in Request /\ q.phase = "audit" /\ q.kind = "update"
      /\ q.order = o /\ q.outcome = req[r].outcome
  BY <1>1 DEF Request, Phases
<1>5. /\ orders' = [orders EXCEPT ![o] = row] /\ orders'[o] = row
      /\ \A p \in OrderIds \ {o} : orders'[p] = orders[p]
  BY <1>1 DEF WriteStatus, IInv, TypeOK
<1>6. /\ req' = [req EXCEPT ![r] = q] /\ req'[r] = q
      /\ \A t \in Requests \ {r} : req'[t] = req[t]
  BY DEF WriteStatus, Goto, IInv, TypeOK
<1>7. /\ reached'[o] = reached[o] \cup {s}
      /\ \A p \in OrderIds \ {o} : reached'[p] = reached[p]
      /\ reached' \in [OrderIds -> SUBSET Statuses]
  BY <1>1, <1>2 DEF WriteStatus, IInv, TypeOK
<1> HIDE DEF row, q
<1>8. /\ \A p \in OrderIds : Exists(p)' <=> Exists(p)
      /\ \A p \in OrderIds : reached[p] \subseteq reached'[p]
      /\ \A p \in OrderIds : /\ orders'[p].wallet = orders[p].wallet
                             /\ orders'[p].key = orders[p].key
  BY <1>1, <1>3, <1>5, <1>7, SMTT(60) DEF Exists
<1>9. TypeOK'
  BY <1>1, <1>3, <1>4, <1>5, <1>6, <1>7 DEF WriteStatus, IInv, TypeOK
<1>10. \A t \in Requests : HandlerOK(t)'
  <2>1. HandlerOK(r)'
    BY <1>1, <1>4, <1>6, <1>8, MerchantAssumption DEF HandlerOK
  <2>2. ASSUME NEW t \in Requests \ {r} PROVE HandlerOK(t)'
    <3>1. HandlerOK(t) /\ req'[t] = req[t] /\ req[t] \in Request
      BY <1>6 DEF IInv, TypeOK
    <3>2. req[t].order \in OrderIds \cup {None}
      BY <3>1 DEF Request
    <3> QED BY <3>1, <3>2, <1>8 DEF HandlerOK
  <2> QED BY <2>1, <2>2
<1>11. \A t \in Requests : RowOK(t)'
  BY <1>1, <1>6, <1>8 DEF IInv, RowOK, OrderIds
<1>12. \A t \in Requests : AnswerOK(t)'
  <2>1. AnswerOK(r)'
    BY <1>1, <1>4, <1>6, <1>8, MerchantAssumption DEF IInv, AnswerOK, Succeeded, Outcomes
  <2>2. ASSUME NEW t \in Requests \ {r} PROVE AnswerOK(t)'
    <3>1. AnswerOK(t) /\ req'[t] = req[t] /\ req[t] \in Request
      BY <1>6 DEF IInv, TypeOK
    <3>2. req[t].order \in OrderIds \cup {None}
      BY <3>1 DEF Request
    <3> QED BY <3>1, <3>2, <1>8 DEF AnswerOK, Succeeded
  <2> QED BY <2>1, <2>2
<1>13. \A p \in OrderIds : HistoryOK(p)'
  <2>1. HistoryOK(o)'
    <3>1. HistoryOK(o) /\ (s \in PaidStatuses \ {"PAID"} => req[r].from \in PaidStatuses)
      BY <1>1, <1>2 DEF IInv, ValidOrderTransition, PaidStatuses
    <3>2. r # None
      BY MerchantAssumption DEF OrderIds
    <3> QED BY <3>1, <3>2, <1>1, <1>3, <1>5, <1>7, <1>8 DEF HistoryOK, PaidStatuses
  <2>2. \A p \in OrderIds \ {o} : HistoryOK(p)'
    BY <1>5, <1>7, <1>8 DEF IInv, HistoryOK
  <2> QED BY <2>1, <2>2
<1>14. KeyUnique'
  BY <1>8 DEF IInv, KeyUnique, HasKey
<1>15. AuditOK'
  <2>1. \A a \in audit' : Exists(a.order)'
    BY <1>8 DEF WriteStatus, IInv, AuditOK, TypeOK, AuditRow
  <2>2. \A t \in Requests : CreateAudited(t)'
    BY <1>1, <1>4, <1>6, <1>8, ZenonT(60) DEF WriteStatus, IInv, AuditOK, CreateAudited, OrderIds
  <2>3. ASSUME NEW t \in attempts PROVE AttemptOK(t)'
    <3>1. AttemptOK(t) /\ t.by \in Requests
      BY DEF IInv, AuditOK, TypeOK
    <3> QED BY <3>1, <1>1, <1>6 DEF WriteStatus, AttemptOK
  <2> QED BY <2>1, <2>2, <2>3 DEF AuditOK, WriteStatus
<1> QED BY <1>9, <1>10, <1>11, <1>12, <1>13, <1>14, <1>15 DEF IInv

LEMMA RecordAttemptInv == ASSUME IInv, NEW r \in Requests, RecordAttempt(r) PROVE IInv'
<1> DEFINE q == [req[r] EXCEPT !.phase = "audit"]
           new == [by |-> r, order |-> req[r].order]
<1>1. /\ req[r] \in Request /\ req[r].kind = "attempt" /\ req[r].phase = "record"
      /\ req[r].order \in OrderIds /\ req[r].order # None /\ Exists(req[r].order)
      /\ req[r].outcome = None
  BY DEF IInv, TypeOK, HandlerOK, AnswerOK, RecordAttempt, Request
<1>2. /\ q \in Request /\ q.phase = "audit" /\ q.kind = "attempt"
      /\ q.order = req[r].order /\ q.outcome = None
  BY <1>1 DEF Request, Phases
<1>3. /\ req' = [req EXCEPT ![r] = q] /\ req'[r] = q
      /\ \A t \in Requests \ {r} : req'[t] = req[t]
  BY DEF RecordAttempt, Goto, IInv, TypeOK
<1>4. /\ new \in [by : Requests, order : OrderIds]
      /\ new.by = r /\ new.order = req[r].order
      /\ attempts' = attempts \cup {new}
  BY <1>1 DEF RecordAttempt
<1> HIDE DEF q, new
<1>5. TypeOK'
  BY <1>2, <1>3, <1>4 DEF RecordAttempt, IInv, TypeOK
<1>6. \A t \in Requests : HandlerOK(t)'
  BY <1>1, <1>2, <1>3 DEF RecordAttempt, IInv, HandlerOK, Exists
<1>7. \A t \in Requests : RowOK(t)'
  BY <1>1, <1>3 DEF RecordAttempt, IInv, RowOK, Exists
<1>8. \A t \in Requests : AnswerOK(t)'
  BY <1>2, <1>3, MerchantAssumption DEF RecordAttempt, IInv, AnswerOK, Exists, Succeeded, Outcomes
<1>9. (\A o \in OrderIds : HistoryOK(o)') /\ KeyUnique'
  BY DEF RecordAttempt, IInv, HistoryOK, KeyUnique, HasKey, Exists
<1>10. AuditOK'
  <2>1. \A a \in audit' : Exists(a.order)'
    BY DEF RecordAttempt, IInv, AuditOK, Exists
  <2>2. \A t \in Requests : CreateAudited(t)'
    BY <1>2, <1>3 DEF RecordAttempt, IInv, AuditOK, CreateAudited, Exists
  <2>3. ASSUME NEW t \in attempts' PROVE AttemptOK(t)'
    <3>1. CASE t = new
      BY <3>1, <1>2, <1>3, <1>4 DEF AttemptOK
    <3>2. CASE t \in attempts
      <4>1. AttemptOK(t) /\ t.by \in Requests
        BY <3>2 DEF IInv, AuditOK, TypeOK
      <4> QED BY <4>1, <1>1, <1>3 DEF RecordAttempt, AttemptOK
    <3> QED BY <3>1, <3>2, <1>4
  <2> QED BY <2>1, <2>2, <2>3 DEF AuditOK
<1> QED BY <1>5, <1>6, <1>7, <1>8, <1>9, <1>10 DEF IInv

\* The entry closes the gap between the audit log and the row it is about.
LEMMA WriteAuditInv == ASSUME IInv, NEW r \in Requests, WriteAudit(r) PROVE IInv'
<1> DEFINE q == [IdleRequest EXCEPT !.phase = "done", !.outcome = "ok", !.order = req[r].order,
                                    !.kind = req[r].kind, !.wallet = req[r].wallet,
                                    !.key = req[r].key]
           new == [by |-> r, order |-> req[r].order, action |-> ActionOf(req[r].kind)]
<1>1. /\ req[r] \in Request /\ req[r].kind \in {"create", "update", "attempt"}
      /\ req[r].order \in OrderIds /\ req[r].order # None /\ Exists(req[r].order)
      /\ req[r].phase = "audit"
  BY DEF IInv, TypeOK, HandlerOK, WriteAudit, Request
<1>2. /\ q \in Request /\ q.phase = "done" /\ q.outcome = "ok" /\ q.kind = req[r].kind
      /\ q.order = req[r].order /\ q.wallet = req[r].wallet /\ q.key = req[r].key
  BY <1>1, ZenonT(60) DEF Request, IdleRequest, Phases, Outcomes
<1>3. /\ req' = [req EXCEPT ![r] = q] /\ req'[r] = q
      /\ \A t \in Requests \ {r} : req'[t] = req[t]
  BY DEF WriteAudit, Succeed, IInv, TypeOK
<1>4. /\ new \in AuditRow /\ new.order = req[r].order
      /\ audit' = audit \cup {new}
  <2>1. ActionOf(req[r].kind) \in {"ORDER_CREATED", "ORDER_STATUS_CHANGED", "PAYMENT_ATTEMPT_RECORDED"}
    BY <1>1 DEF ActionOf
  <2> QED BY <1>1, <2>1 DEF WriteAudit, AuditRow
<1>5. /\ req[r].kind = "create" => new.action = "ORDER_CREATED"
      /\ req[r].kind = "attempt" => new.action = "PAYMENT_ATTEMPT_RECORDED"
  BY DEF ActionOf
<1>6. new = [by |-> r, order |-> req[r].order, action |-> new.action]
  OBVIOUS
<1> HIDE DEF q, new
<1>7. TypeOK'
  BY <1>2, <1>3, <1>4 DEF WriteAudit, IInv, TypeOK
<1>8. \A t \in Requests : HandlerOK(t)'
  BY <1>2, <1>3 DEF WriteAudit, IInv, HandlerOK, Exists
<1>9. \A t \in Requests : RowOK(t)'
  BY <1>2, <1>3 DEF WriteAudit, IInv, RowOK, Exists
<1>10. \A t \in Requests : AnswerOK(t)'
  BY <1>1, <1>2, <1>3 DEF WriteAudit, IInv, AnswerOK, Exists, Succeeded
<1>11. (\A o \in OrderIds : HistoryOK(o)') /\ KeyUnique'
  BY DEF WriteAudit, IInv, HistoryOK, KeyUnique, HasKey, Exists
<1>12. AuditOK'
  <2>1. \A a \in audit' : Exists(a.order)'
    BY <1>1, <1>4 DEF WriteAudit, IInv, AuditOK, Exists
  <2>2. ASSUME NEW t \in Requests PROVE CreateAudited(t)'
    <3>1. CASE t = r
      BY <3>1, <1>1, <1>4, <1>5, <1>6
      DEF WriteAudit, IInv, RowOK, CreateAudited, Exists
    <3>2. CASE t # r
      BY <3>2, <1>3, <1>4 DEF WriteAudit, IInv, AuditOK, CreateAudited, Exists
    <3> QED BY <3>1, <3>2
  <2>3. ASSUME NEW t \in attempts PROVE AttemptOK(t)'
    <3>1. AttemptOK(t) /\ t.by \in Requests
      BY DEF IInv, AuditOK, TypeOK
    <3>2. CASE t.by = r
      BY <3>1, <3>2, <1>1, <1>4, <1>5, <1>6 DEF AttemptOK
    <3>3. CASE t.by # r
      BY <3>1, <3>3, <1>3, <1>4 DEF AttemptOK
    <3> QED BY <3>2, <3>3
  <2> QED BY <2>1, <2>2, <2>3 DEF AuditOK, WriteAudit
<1> QED BY <1>7, <1>8, <1>9, <1>10, <1>11, <1>12 DEF IInv

-----------------------------------------------------------------------------
(* The theorems.                                                           *)

LEMMA NextInv == IInv /\ [Next]_vars => IInv'
<1> SUFFICES ASSUME IInv, [Next]_vars PROVE IInv'
  OBVIOUS
<1>1. CASE UNCHANGED vars
  <2>1. TypeOK'
    BY <1>1 DEF IInv, vars, TypeOK
  <2>2. \A r \in Requests : HandlerOK(r)' /\ RowOK(r)' /\ AnswerOK(r)'
    BY <1>1 DEF IInv, vars, HandlerOK, RowOK, AnswerOK, Exists, Succeeded
  <2>3. (\A o \in OrderIds : HistoryOK(o)') /\ KeyUnique'
    BY <1>1 DEF IInv, vars, HistoryOK, KeyUnique, HasKey, Exists
  <2>4. AuditOK'
    BY <1>1 DEF IInv, vars, AuditOK, CreateAudited, AttemptOK, Exists
  <2> QED BY <2>1, <2>2, <2>3, <2>4 DEF IInv
<1>2. ASSUME NEW r \in Requests, Create(r) PROVE IInv'
  BY <1>2, ReceiveInv, LookUpKeyInv, RefusalInv, InsertOrderInv DEF Create
<1>3. ASSUME NEW r \in Requests, Update(r) PROVE IInv'
  BY <1>3, ReceiveInv, ReadStatusInv, WriteStatusInv DEF Update
<1>4. ASSUME NEW r \in Requests, Attempt(r) PROVE IInv'
  BY <1>4, ReceiveInv, CheckOwnerInv, RecordAttemptInv DEF Attempt
<1> QED BY <1>1, <1>2, <1>3, <1>4, WriteAuditInv, RefusalInv DEF Next

LEMMA InvHolds == Spec => []IInv
BY InitInv, NextInv, PTL DEF Spec

(***************************************************************************)
(* Rows, handlers and the audit log keep their types: no string a caller   *)
(* sends as a status gets into the table.                                  *)
(***************************************************************************)
THEOREM OrdersTyped == Spec => []TypeOK
<1>1. IInv => TypeOK
  BY DEF IInv
<1> QED BY <1>1, InvHolds, PTL

(***************************************************************************)
(* An order that is paid, being fulfilled or completed has a payment time, *)
(* for any number of concurrent updates.                                   *)
(***************************************************************************)
THEOREM OrdersFulfilledWerePaid == Spec => []FulfilledWasPaid
<1>1. IInv => FulfilledWasPaid
  BY DEF IInv, HistoryOK, FulfilledWasPaid, PaidStatuses
<1> QED BY <1>1, InvHolds, PTL

(***************************************************************************)
(* Creates of one merchant with one Idempotency-Key that are answered with *)
(* an order are answered with the same one, for any number of retries.     *)
(***************************************************************************)
THEOREM KeysNameOneOrder == Spec => []SameKeySameOrder
<1>1. ASSUME IInv, NEW r \in Requests, NEW s \in Requests,
             req[r].kind = "create", Succeeded(r), req[s].kind = "create", Succeeded(s),
             req[r].wallet = req[s].wallet, req[r].key = req[s].key, req[r].key # None
      PROVE  req[r].order = req[s].order
  <2>1. req[r] \in Request /\ req[s] \in Request /\ AnswerOK(r) /\ AnswerOK(s) /\ KeyUnique
    BY <1>1 DEF IInv, TypeOK
  <2>2. req[r].order \in OrderIds /\ req[s].order \in OrderIds
    BY <1>1, <2>1 DEF AnswerOK, Request
  <2> QED BY <1>1, <2>1, <2>2 DEF AnswerOK, KeyUnique, HasKey
<1>2. IInv => SameKeySameOrder
  BY <1>1 DEF SameKeySameOrder
<1> QED BY <1>2, InvHolds, PTL

(***************************************************************************)
(* The audit log lacks an entry only for a handler that is about to write  *)
(* it or was cut off before it could.                                      *)
(***************************************************************************)
THEOREM OrdersAreAudited == Spec => []AuditGapsAreLostHandlers
<1>1. IInv => AuditGapsAreLostHandlers
  BY DEF IInv, AuditOK, CreateAudited, AttemptOK, AuditGapsAreLostHandlers
<1> QED BY <1>1, InvHolds, PTL

(***************************************************************************)
(* The endpoints implement the order lifecycle: creating an order opens    *)
(* it, writing a status moves it along an edge out of a status it has had, *)
(* and no other step of a handler touches an order.                        *)
(***************************************************************************)
THEOREM OrdersImplementLifecycle == Spec => ImplementsLifecycle
<1> DEFINE status == [o \in OrderIds |-> IF Exists(o) THEN orders[o].status ELSE None]
<1>1. Init => Lifecycle!Init
  <2> SUFFICES ASSUME Init PROVE Lifecycle!Init
    OBVIOUS
  <2>1. ASSUME NEW o \in OrderIds, Exists(o)
        PROVE  orders[o].status \in {"ORDER_CREATED", "PAYMENT_PENDING"} /\ orders[o].status # None
    BY <2>1, MerchantAssumption DEF Init, Exists, Statuses
  <2>2. status \in [OrderIds -> Lifecycle!FirstStatuses \cup {None}]
    BY <2>1 DEF Lifecycle!FirstStatuses
  <2>3. reached = [o \in OrderIds |-> IF status[o] = None THEN {} ELSE {status[o]}]
    BY <2>1 DEF Init
  <2> QED BY <2>2, <2>3 DEF Lifecycle!Init
<1>2. IInv /\ [Next]_vars => [Lifecycle!Next]_(Lifecycle!vars)
  <2> SUFFICES ASSUME IInv, [Next]_vars PROVE [Lifecycle!Next]_(Lifecycle!vars)
    OBVIOUS
  <2>1. ASSUME UNCHANGED <<orders, reached>> PROVE UNCHANGED Lifecycle!vars
    BY <2>1 DEF Lifecycle!vars, Exists
  <2>2. ASSUME NEW r \in Requests, InsertOrder(r) PROVE Lifecycle!Open(r)
    <3>1. r \in OrderIds /\ ~Exists(r) /\ None # "PAYMENT_PENDING"
      BY <2>2, MerchantAssumption DEF IInv, RowOK, InsertOrder, OrderIds, Statuses
    <3>2. /\ orders' = [orders EXCEPT ![r] = orders'[r]]
          /\ orders'[r].status = "PAYMENT_PENDING" /\ orders'[r] \in Row
      <4>1. /\ req[r] \in Request /\ req[r].wallet \in Wallets
            /\ req[r].key \in Keys \cup {None} /\ req[r].hash \in Hashes \cup {None}
        BY <2>2 DEF IInv, TypeOK, HandlerOK, InsertOrder, Request
      <4>2. orders'[r] = [wallet |-> req[r].wallet, key |-> req[r].key, hash |-> req[r].hash,
                          status |-> "PAYMENT_PENDING", paidBy |-> None]
        BY <2>2, <3>1 DEF InsertOrder, IInv, TypeOK
      <4>3. orders' = [orders EXCEPT ![r] = orders'[r]]
        BY <2>2, <3>1 DEF InsertOrder, IInv, TypeOK
      <4> QED BY <4>1, <4>2, <4>3 DEF Row, Statuses
    <3>3. orders'[r] # None
      BY <3>2, MerchantAssumption
    <3>4. status' = [status EXCEPT ![r] = "PAYMENT_PENDING"]
      BY <3>1, <3>2, <3>3 DEF Exists, IInv, TypeOK
    <3>5. status[r] = None
      BY <3>1
    <3> QED BY <2>2, <3>4, <3>5 DEF InsertOrder, Lifecycle!Open, Lifecycle!Enter
  <2>3. ASSUME NEW r \in Requests, WriteStatus(r)
        PROVE  \E o \in OrderIds, s \in Lifecycle!Statuses : Lifecycle!Move(o, s)
    <3> PICK o, s : o = req[r].order /\ s = req[r].to
      OBVIOUS
    <3>1. /\ o \in OrderIds /\ Exists(o)
          /\ req[r].from \in reached[o] /\ ValidOrderTransition(req[r].from, s)
      BY <2>3 DEF IInv, TypeOK, HandlerOK, WriteStatus, Request
    <3>2. orders[o] \in Row /\ req[r].from \in Statuses /\ s \in Statuses
      <4>1. orders[o] \in Row /\ reached[o] \subseteq Statuses
        BY <3>1 DEF IInv, TypeOK, Exists
      <4> QED BY <4>1, <3>1, ValidTransitionType
    <3>3. /\ orders' = [orders EXCEPT ![o] = orders'[o]]
          /\ orders'[o].status = s /\ orders'[o] \in Row
      <4>1. orders' = [orders EXCEPT ![o] = orders'[o]] /\ orders'[o].status = s
        BY <2>3, <3>1, <3>2 DEF WriteStatus, IInv, TypeOK, Row
      <4>2. orders'[o] \in Row
        BY <2>3, <3>1, <3>2 DEF WriteStatus, IInv, TypeOK, Row
      <4> QED BY <4>1, <4>2
    <3>4. orders'[o] # None
      BY <3>3, MerchantAssumption
    <3>5. status' = [status EXCEPT ![o] = s]
      BY <3>1, <3>3, <3>4 DEF Exists, IInv, TypeOK
    <3>6. status[o] # None
      BY <3>1, <3>2, MerchantAssumption DEF Row
    <3>7. \E from \in reached[o] : from = s \/ <<from, s>> \in Lifecycle!Edges
      BY <3>1, SMTT(60) DEF ValidOrderTransition, Lifecycle!Edges
    <3>8. Lifecycle!Move(o, s)
      BY <2>3, <3>5, <3>6, <3>7 DEF WriteStatus, Lifecycle!Move, Lifecycle!Enter
    <3> QED BY <3>1, <3>2, <3>8 DEF Statuses, Lifecycle!Statuses
  <2>4. CASE \E r \in Requests : InsertOrder(r)
    BY <2>2, <2>4 DEF Lifecycle!Next, OrderIds
  <2>5. CASE \E r \in Requests : WriteStatus(r)
    BY <2>3, <2>5 DEF Lifecycle!Next
  <2>6. CASE ~(\E r \in Requests : InsertOrder(r) \/ WriteStatus(r))
    <3>1. UNCHANGED <<orders, reached>>
      BY <2>6 DEF vars, Next, Create, Update, Attempt, ReceiveCreate, LookUpKey, RefuseCreate,
         InsertConflict, ReceiveUpdate, ReadStatus, ReceiveAttempt, CheckOwner, RecordAttempt,
         WriteAudit, Abandon
    <3> QED BY <2>1, <3>1
  <2> QED BY <2>4, <2>5, <2>6
<1> QED BY <1>1, <1>2, InvHolds, PTL DEF Spec, ImplementsLifecycle, Lifecycle!Spec

\* The order lifecycle lets no status appear from nowhere.
LEMMA LifecycleIsEarned == Lifecycle!Spec => []Lifecycle!Earned
<1> DEFINE LInv == Lifecycle!TypeOK /\ Lifecycle!Earned
<1>1. Lifecycle!Init => LInv
  BY DEF Lifecycle!Init, Lifecycle!TypeOK, Lifecycle!Earned, Lifecycle!FirstStatuses,
     Lifecycle!Statuses
<1>2. LInv /\ [Lifecycle!Next]_(Lifecycle!vars) => LInv'
  <2> SUFFICES ASSUME LInv, [Lifecycle!Next]_(Lifecycle!vars) PROVE LInv'
    OBVIOUS
  <2>1. CASE UNCHANGED Lifecycle!vars
    BY <2>1 DEF Lifecycle!vars, Lifecycle!TypeOK, Lifecycle!Earned
  <2>2. ASSUME NEW o \in OrderIds, Lifecycle!Open(o) PROVE LInv'
    BY <2>2 DEF Lifecycle!Open, Lifecycle!Enter, Lifecycle!TypeOK, Lifecycle!Earned,
       Lifecycle!FirstStatuses, Lifecycle!Statuses
  <2>3. ASSUME NEW o \in OrderIds, NEW s \in Lifecycle!Statuses, Lifecycle!Move(o, s)
        PROVE  LInv'
    <3>1. PICK from \in reached[o] : from = s \/ <<from, s>> \in Lifecycle!Edges
      BY <2>3 DEF Lifecycle!Move
    <3>2. Lifecycle!TypeOK'
      BY <2>3 DEF Lifecycle!Move, Lifecycle!Enter, Lifecycle!TypeOK
    <3>3. Lifecycle!Earned'
      BY <2>3, <3>1 DEF Lifecycle!Move, Lifecycle!Enter, Lifecycle!TypeOK, Lifecycle!Earned
    <3> QED BY <3>2, <3>3
  <2> QED BY <2>1, <2>2, <2>3 DEF Lifecycle!Next
<1>3. LInv => Lifecycle!Earned
  OBVIOUS
<1> HIDE DEF LInv
<1> QED BY <1>1, <1>2, <1>3, PTL DEF Lifecycle!Spec

(***************************************************************************)
(* Every status an order has ever had is one an order starts in, or is     *)
(* reached along an edge of valid_order_transition from a status the order *)
(* had: the order lifecycle promises it, and however the handlers          *)
(* interleave they implement the lifecycle.                                *)
(***************************************************************************)
THEOREM StatusesAreEarned == Spec => []Lifecycle!Earned
BY OrdersImplementLifecycle, LifecycleIsEarned, PTL DEF ImplementsLifecycle
=============================================================================
