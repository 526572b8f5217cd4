--------------------------- MODULE Reconciliation ---------------------------
(***************************************************************************)
(* FiberOps reconciles a payment: it asks the node, all at once, for the   *)
(* invoice, the payment and the cross-chain order of one hash, judges the  *)
(* three answers, keeps the run, and then opens or resolves the incident   *)
(* of that hash.  The answers are of three moments, a question that fails  *)
(* counts as one about something that does not exist, and requests about   *)
(* the same hash overlap.                                                  *)
(*                                                                         *)
(* The node is external: a status changes at will until it has ended.      *)
(***************************************************************************)
EXTENDS Integers

CONSTANTS
  Requests,     \* numbers
  Beginnings,   \* the statuses that there may be at first
  MaxMoves,     \* bound: how often a status changes
  None          \* no status: the node knows none, or does not answer

VARIABLES
  status,       \* what the node says of the invoice, the payment and the order
  run,          \* fiber_reconciliation_runs: the severity in the last row, or None
  incident,     \* fiber_incidents: the row "reconciliation:<hash>", or None
  requests,     \* requests[r]: the state of the request r
  alone,        \* history: the request that began last, if none overlapped it
  moves

vars == <<status, run, incident, requests, alone, moves>>

Statuses ==
  [invoice : {"Open", "Paid", "Cancelled", "Expired", None},
   payment : {"Created", "Inflight", "Success", "Failed", None},
   cch : {"IncomingAccepted", "Success", "Failed", None}]

Ended == {"Paid", "Cancelled", "Expired", "Success", "Failed"}

Parts == {"invoice", "payment", "cch"}

Severities == {"INFO", "HIGH", "CRITICAL"}

\* waits: the questions that are not answered yet.
Request ==
  [phase : {"idle", "ask", "incident", "done", "failed"}, waits : SUBSET Parts,
   answers : Statuses]

Unknown == [p \in Parts |-> None]

Incident == [status : {"OPEN", "RESOLVED"}, severity : Severities \ {"INFO"}]

\* None is no status, no severity and no incident.
ASSUME ReconciliationAssumption ==
  /\ Beginnings \subseteq Statuses
  /\ MaxMoves \in Nat
  /\ None \notin Ended \cup {"Open", "Created", "Inflight", "IncomingAccepted"}
  /\ None \notin Severities /\ None \notin Incident

TypeOK ==
  /\ status \in Statuses
  /\ run \in Severities \cup {None}
  /\ incident \in Incident \cup {None}
  /\ requests \in [Requests -> Request]
  /\ alone \subseteq Requests
  /\ moves \in 0 .. MaxMoves

Init ==
  /\ status \in Beginnings
  /\ run = None /\ incident = None
  /\ requests = [r \in Requests |-> [phase |-> "idle", waits |-> Parts, answers |-> Unknown]]
  /\ alone = {} /\ moves = 0

-----------------------------------------------------------------------------
(* The verdicts.                                                           *)

\* Mutant: an invoice that was cancelled is no contradiction to a payment that went through.
MutantReconcileStates(s) ==
  CASE s.payment = "Failed" /\ s.invoice = "Paid" -> "CRITICAL"
    [] s.cch = "Failed" /\ s.payment \in {"Inflight", "Success"} -> "CRITICAL"
    [] s.cch # "Failed" /\ s.invoice = "Cancelled" /\ s.payment = "Inflight" -> "HIGH"
    [] s.cch # "Failed" /\ s.payment = "Success" /\ s.invoice = "Open" -> "HIGH"
    [] OTHER -> "INFO"

\* The severity; it is INFO if and only if the states are consistent.
reconcile_states(s) ==
  CASE s.payment = "Failed" /\ s.invoice = "Paid" -> "CRITICAL"
    [] s.cch = "Failed" /\ s.payment \in {"Inflight", "Success"} -> "CRITICAL"
    [] s.cch # "Failed" /\ s.invoice = "Cancelled" /\ s.payment = "Inflight" -> "HIGH"
    [] s.cch # "Failed" /\ s.payment = "Success" /\ s.invoice \notin {"Paid", None} -> "HIGH"
    [] OTHER -> "INFO"

\* The portal asks its own node for two of them: both must be there, and both or none of
\* them ended.
BrowserConsistent(s) ==
  /\ s.invoice # None /\ s.payment # None
  /\ (s.invoice \in Ended) = (s.payment \in Ended)

-----------------------------------------------------------------------------
(* The requests.                                                           *)

Active(r) == requests[r].phase \in {"ask", "incident"}

\* An invoice is paid, a payment fails, ...
Moves(p) ==
  /\ moves < MaxMoves /\ status[p] \notin Ended
  /\ \E s \in Statuses :
       s[p] \notin {None, status[p]} /\ status' = [status EXCEPT ![p] = s[p]]
  /\ moves' = moves + 1
  /\ UNCHANGED <<run, incident, requests, alone>>

\* The numbers of the requests are used in their order.
reconcile(r) ==
  /\ requests[r].phase = "idle"
  /\ \A o \in Requests : o < r => requests[o].phase # "idle"
  /\ requests' = [requests EXCEPT ![r].phase = "ask"]
  /\ alone' = IF \E o \in Requests : Active(o) THEN {} ELSE {r}
  /\ UNCHANGED <<status, run, incident, moves>>

\* get_invoice, get_payment, get_cch_order: an error is no answer.
Answered(r, p) ==
  /\ requests[r].phase = "ask" /\ p \in requests[r].waits
  /\ \E answer \in {status[p], None} :
       requests' = [requests EXCEPT ![r].waits = @ \ {p}, ![r].answers[p] = answer]
  /\ UNCHANGED <<status, run, incident, alone, moves>>

InsertRun(r) ==
  /\ requests[r].phase = "ask" /\ requests[r].waits = {}
  /\ run' = reconcile_states(requests[r].answers)
  /\ requests' = [requests EXCEPT ![r].phase = "incident"]
  /\ UNCHANGED <<status, incident, alone, moves>>

\* A request that is over; only of a lone one is it said later what it was answered.
Over(r, phase) ==
  [phase |-> phase, waits |-> {},
   answers |-> IF phase = "done" /\ r \in alone THEN requests[r].answers ELSE Unknown]

\* resolve_incident, upsert_incident.
Resolve == IF incident = None THEN None ELSE [incident EXCEPT !.status = "RESOLVED"]

Upsert(severity) == [status |-> "OPEN", severity |-> severity]

\* Mutant: what is consistent needs no statement.
MutantWriteIncident(r) ==
  /\ requests[r].phase = "incident"
  /\ LET severity == reconcile_states(requests[r].answers) IN
       incident' = IF severity = "INFO" THEN incident ELSE Upsert(severity)
  /\ requests' = [requests EXCEPT ![r] = Over(r, "done")]
  /\ UNCHANGED <<status, run, alone, moves>>

WriteIncident(r) ==
  /\ requests[r].phase = "incident"
  /\ LET severity == reconcile_states(requests[r].answers) IN
       incident' = IF severity = "INFO" THEN Resolve ELSE Upsert(severity)
  /\ requests' = [requests EXCEPT ![r] = Over(r, "done")]
  /\ UNCHANGED <<status, run, alone, moves>>

\* A statement fails, or the caller is gone.
Fail(r) ==
  /\ Active(r)
  /\ requests' = [requests EXCEPT ![r] = Over(r, "failed")]
  /\ UNCHANGED <<status, run, incident, alone, moves>>

Next ==
  \/ \E p \in Parts : Moves(p)
  \/ \E r \in Requests :
       \/ reconcile(r) \/ InsertRun(r) \/ WriteIncident(r) \/ Fail(r)
       \/ \E p \in Parts : Answered(r, p)

Spec == Init /\ [][Next]_vars

-----------------------------------------------------------------------------
(* Properties                                                              *)

\* Do two of the statuses exclude each other?
Contradicts(s) ==
  \/ s.invoice = "Paid" /\ s.payment = "Failed"
  \/ s.invoice \in {"Open", "Cancelled", "Expired"} /\ s.payment = "Success"
  \/ s.invoice = "Cancelled" /\ s.payment = "Inflight"
  \/ s.cch = "Failed" /\ s.payment \in {"Inflight", "Success"}

Open == incident # None /\ incident.status = "OPEN"

(***************************************************************************)
(* When a request that no other one overlapped has ended without an error, *)
(* the last run and the incident agree: the incident is open, and as       *)
(* severe as the run, if and only if the answers contradict each other,    *)
(* whatever requests that overlapped or failed left behind before.         *)
(***************************************************************************)
LoneRunSettles ==
  \A r \in alone :
    requests[r].phase = "done" =>
      /\ Open <=> Contradicts(requests[r].answers)
      /\ Open <=> run # "INFO"
      /\ Open => incident.severity = run

(***************************************************************************)
(* An incident is resolved, while the statuses still contradict each       *)
(* other, only by a request one of whose questions failed, or was answered *)
(* before a status changed: nothing else hides a mismatch.                 *)
(***************************************************************************)
MismatchesStayReported ==
  [][\A r \in Requests :
       Open /\ ~Open' /\ requests'[r] # requests[r] /\ Contradicts(status) =>
         requests[r].answers # status]_vars

(***************************************************************************)
(* What the portal calls consistent and the service does not are payments  *)
(* and invoices that have both ended: the portal compares no outcomes.     *)
(***************************************************************************)
PortalComparesStages ==
  LET here == [status EXCEPT !.cch = None] IN
  BrowserConsistent(here) /\ reconcile_states(here) # "INFO" =>
    status.invoice \in Ended /\ status.payment \in Ended
=============================================================================
