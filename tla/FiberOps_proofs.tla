--------------------------- MODULE FiberOps_proofs ---------------------------
(***************************************************************************)
(* The safety properties of the two parts of FiberOps: of the              *)
(* reconciliation of a payment, for any number of requests that overlap,   *)
(* any statuses at the beginning and any number of changes; and of the     *)
(* scans of the channels, for any channels, readings and scanners.         *)
(*                                                                         *)
(* The argument is the same in both.  While the one that began last, and   *)
(* that none overlapped, is under way, nobody else is: so what it has      *)
(* written to one table still stands when it writes to the other.          *)
(***************************************************************************)
EXTENDS FiberOps, TLAPS

-----------------------------------------------------------------------------
(* The reconciliation of a payment.                                        *)

\* What the lone request r has written.
Written(r) ==
  LET severity == reconcile_states(requests[r].answers) IN
  /\ requests[r].phase \in {"incident", "done"} => run = severity
  /\ requests[r].phase = "done" =>
       /\ Open <=> severity # "INFO"
       /\ Open => incident.severity = severity

IInv ==
  /\ TypeOK
  /\ \A r \in alone, o \in Requests : Active(o) => o = r
  /\ \A r \in alone : Written(r)

-----------------------------------------------------------------------------
(* The verdicts.                                                           *)

\* reconcile_states finds the contradictions, whichever of its arms comes first.
LEMMA VerdictIsContradiction ==
  ASSUME NEW s \in Statuses
  PROVE  /\ reconcile_states(s) \in Severities
         /\ Contradicts(s) <=> reconcile_states(s) # "INFO"
BY ReconciliationAssumption DEF Ended, Statuses, reconcile_states, Contradicts, Severities

\* What follows a verdict is an incident that is open, or none that is.
LEMMA UpsertOpens ==
  ASSUME NEW severity \in Severities, severity # "INFO"
  PROVE  /\ Upsert(severity) \in Incident /\ Upsert(severity) # None
         /\ Upsert(severity).status = "OPEN" /\ Upsert(severity).severity = severity
BY ReconciliationAssumption DEF Upsert, Severities, Incident

LEMMA ResolveCloses ==
  ASSUME TypeOK
  PROVE  /\ Resolve \in Incident \cup {None}
         /\ Resolve # None => Resolve.status = "RESOLVED"
BY ReconciliationAssumption DEF TypeOK, Resolve, Incident

\* A status that changes is still one.
LEMMA MovedIsStatus ==
  ASSUME TypeOK, NEW p \in Parts, NEW s \in Statuses
  PROVE  [status EXCEPT ![p] = s[p]] \in Statuses
BY DEF TypeOK, Parts, Statuses

-----------------------------------------------------------------------------
LEMMA InitInv == Init => IInv
BY ReconciliationAssumption DEF Init, IInv, TypeOK, Request, Statuses, Unknown, Parts, Active

-----------------------------------------------------------------------------
(* One lemma for every action.                                             *)

LEMMA MovesInv ==
  ASSUME IInv, NEW p \in Parts, Moves(p) PROVE IInv'
<1>1. status' \in Statuses
  BY MovedIsStatus DEF Moves, IInv
<1>2. moves' \in 0 .. MaxMoves
  BY ReconciliationAssumption DEF Moves, IInv, TypeOK
<1> QED
  BY <1>1, <1>2 DEF Moves, IInv, TypeOK, Active, Written, Open

LEMMA ReconcileInv ==
  ASSUME IInv, NEW r \in Requests, reconcile(r) PROVE IInv'
<1>1. TypeOK'
  BY DEF reconcile, IInv, TypeOK, Request
<1>2. \A o \in Requests : Active(o)' <=> Active(o) \/ o = r
  BY DEF reconcile, IInv, TypeOK, Active
<1>3. \A a \in alone', o \in Requests : Active(o)' => o = a
  BY <1>2 DEF reconcile
<1>4. \A a \in alone' : Written(a)'
  BY DEF reconcile, IInv, TypeOK, Written
<1> QED BY <1>1, <1>3, <1>4 DEF IInv

LEMMA AnsweredInv ==
  ASSUME IInv, NEW r \in Requests, NEW p \in Parts, Answered(r, p) PROVE IInv'
<1>1. PICK answer \in {status[p], None} :
        requests' = [requests EXCEPT ![r].waits = @ \ {p}, ![r].answers[p] = answer]
  BY DEF Answered
<1>2. [requests[r].answers EXCEPT ![p] = answer] \in Statuses
  BY DEF IInv, TypeOK, Statuses, Parts, Request
<1>3. requests'[r] = [requests[r] EXCEPT !.waits = @ \ {p},
                                         !.answers = [requests[r].answers EXCEPT ![p] = answer]]
  BY <1>1 DEF IInv, TypeOK, Request, Statuses
<1>4. TypeOK'
  <2>1. requests'[r] \in Request
    BY <1>2, <1>3 DEF IInv, TypeOK, Request
  <2>2. requests' \in [Requests -> Request]
    BY <1>1, <2>1 DEF IInv, TypeOK
  <2> QED BY <2>2 DEF Answered, IInv, TypeOK
<1>5. \A o \in Requests : Active(o)' <=> Active(o)
  BY <1>1, <1>3 DEF IInv, TypeOK, Active, Request
<1>6. \A a \in alone' : Written(a)'
  BY <1>1, <1>3 DEF Answered, IInv, TypeOK, Written, Open, Request
<1> QED BY <1>4, <1>5, <1>6 DEF Answered, IInv

LEMMA InsertRunInv ==
  ASSUME IInv, NEW r \in Requests, InsertRun(r) PROVE IInv'
<1>1. run' \in Severities
  BY VerdictIsContradiction DEF InsertRun, IInv, TypeOK, Request
<1>2. TypeOK'
  BY <1>1 DEF InsertRun, IInv, TypeOK, Request
<1>3. \A o \in Requests : Active(o)' <=> Active(o)
  BY DEF InsertRun, IInv, TypeOK, Active, Request
<1>4. \A a \in alone' : a = r
  BY DEF InsertRun, IInv, Active
<1>5. \A a \in alone' : Written(a)'
  BY <1>4 DEF InsertRun, IInv, TypeOK, Written, Request
<1> QED BY <1>2, <1>3, <1>5 DEF InsertRun, IInv

LEMMA WriteIncidentInv ==
  ASSUME IInv, NEW r \in Requests, WriteIncident(r) PROVE IInv'
<1> DEFINE severity == reconcile_states(requests[r].answers)
<1>1. severity \in Severities
  BY VerdictIsContradiction DEF IInv, TypeOK, Request
<1>2. incident' = IF severity = "INFO" THEN Resolve ELSE Upsert(severity)
  BY DEF WriteIncident
<1>3. incident' \in Incident \cup {None}
  BY <1>1, <1>2, UpsertOpens, ResolveCloses DEF IInv
<1>4. requests' = [requests EXCEPT ![r] = Over(r, "done")]
  BY DEF WriteIncident
<1>5. Over(r, "done") \in Request
  BY DEF Over, IInv, TypeOK, Request, Unknown, Statuses, Parts
<1>6. TypeOK'
  BY <1>3, <1>4, <1>5 DEF WriteIncident, IInv, TypeOK
<1>7. \A o \in Requests : Active(o)' => Active(o)
  BY <1>4 DEF IInv, TypeOK, Active, Over
<1>8. \A a \in alone' : a = r
  BY DEF WriteIncident, IInv, Active
<1>9. ASSUME r \in alone PROVE Written(r)'
  <2>1. requests'[r].answers = requests[r].answers
    BY <1>4, <1>9 DEF Over, IInv, TypeOK
  <2>2. run' = severity
    BY <1>9 DEF WriteIncident, IInv, Written
  <2>3. Open' <=> severity # "INFO"
    BY <1>1, <1>2, UpsertOpens, ResolveCloses DEF Open, IInv
  <2>4. Open' => incident'.severity = severity
    BY <1>1, <1>2, <2>3, UpsertOpens
  <2> QED BY <2>1, <2>2, <2>3, <2>4 DEF Written
<1> QED BY <1>6, <1>7, <1>8, <1>9 DEF WriteIncident, IInv

LEMMA FailInv ==
  ASSUME IInv, NEW r \in Requests, Fail(r) PROVE IInv'
<1>1. requests' = [requests EXCEPT ![r] = Over(r, "failed")]
  BY DEF Fail
<1>2. Over(r, "failed") \in Request
  BY DEF Over, Request, Unknown, Statuses, Parts
<1>3. TypeOK'
  BY <1>1, <1>2 DEF Fail, IInv, TypeOK
<1>4. \A o \in Requests : Active(o)' => Active(o)
  BY <1>1 DEF IInv, TypeOK, Active, Over
<1>5. \A a \in alone' : Written(a)'
  BY <1>1 DEF Fail, IInv, TypeOK, Written, Open, Over
<1> QED BY <1>3, <1>4, <1>5 DEF Fail, IInv

LEMMA NextInv == IInv /\ [Next]_vars => IInv'
<1> SUFFICES ASSUME IInv, [Next]_vars PROVE IInv'
  OBVIOUS
<1>1. CASE UNCHANGED vars
  BY <1>1 DEF vars, IInv, TypeOK, Active, Written, Open
<1>2. CASE Next
  BY <1>2, MovesInv, ReconcileInv, AnsweredInv, InsertRunInv, WriteIncidentInv, FailInv
  DEF Next
<1> QED BY <1>1, <1>2

-----------------------------------------------------------------------------
(* The scans of the channels.                                              *)

\* What a scanner has to do: a channel whose incident is to be written is on its list, and
\* who is not at work has no list.
WorkOK(s) ==
  /\ C!Working(s) \/ (scan[s].list = C!Nothing /\ scan[s].at = None)
  /\ scan[s].at # None => scan[s].list[scan[s].at] # None

\* A scan that nothing overlapped is the only one, and what it has written stands: the
\* channels that left its list are settled, the others have the verdict it listed.
LoneOK(s) ==
  watch[s].alone =>
    /\ \A t \in C!Scanners : C!Working(t) => t = s
    /\ \A c \in Channels : watch[s].listed[c] # None =>
         IF scan[s].list[c] = None THEN C!Settled(c, watch[s].listed[c])
         ELSE /\ scan[s].list[c] = watch[s].listed[c]
              /\ scan[s].at = c => snapshots[c] = watch[s].listed[c]

ScansInv ==
  /\ C!TypeOK
  /\ \A s \in C!Scanners : WorkOK(s) /\ LoneOK(s)

\* Every reading has a verdict.
LEMMA HealthIsVerdict ==
  ASSUME NEW raw \in Readings PROVE Verdict[raw] \in C!Healths /\ Verdict[raw] # None
BY ChannelsFit DEF C!ChannelAssumption

LEMMA NothingFits ==
  /\ C!Nothing \in [Channels -> C!Healths \cup {None}]
  /\ \A c \in Channels : C!Nothing[c] = None
  /\ "HEALTHY" # None /\ "WARNING" # None /\ "CRITICAL" # None /\ None \notin Channels
BY ChannelsFit DEF C!Nothing, C!Healths, C!ChannelAssumption

\* A scanner that has ended has no list and is not at work.
LEMMA OverFits ==
  ASSUME NEW s
  PROVE  /\ C!Over(s) \in C!Scan /\ C!Over(s).list = C!Nothing /\ C!Over(s).at = None
         /\ C!Over(s).phase # "write"
BY NothingFits DEF C!Over, C!Scan

\* What is left of a list.
LEMMA NextChannelFits ==
  ASSUME NEW s, NEW rest \in [Channels -> C!Healths \cup {None}]
  PROVE  LET q == C!NextChannel(s, rest) IN
         /\ q \in C!Scan /\ q.list = rest /\ q.at = None
         /\ q.phase = "write" \/ rest = C!Nothing
BY OverFits DEF C!NextChannel, C!Scan

LEMMA ScansInit == C!Init => ScansInv
<1> SUFFICES ASSUME C!Init PROVE ScansInv
  OBVIOUS
<1>1. C!TypeOK
  BY NothingFits, ChannelsFit DEF C!Init, C!TypeOK, C!Scan, C!Watch, C!ChannelAssumption
<1>2. \A s \in C!Scanners : WorkOK(s) /\ LoneOK(s)
  BY DEF C!Init, WorkOK, LoneOK, C!Working
<1> QED BY <1>1, <1>2 DEF ScansInv

LEMMA NodeMovesInv == ASSUME ScansInv, NEW c \in Channels, C!NodeMoves(c) PROVE ScansInv'
<1>1. C!TypeOK'
  BY ChannelsFit DEF C!NodeMoves, ScansInv, C!TypeOK, C!ChannelAssumption
<1>2. ASSUME NEW s \in C!Scanners PROVE WorkOK(s)' /\ LoneOK(s)'
  BY DEF C!NodeMoves, ScansInv, WorkOK, LoneOK, C!Working, C!Settled
<1> QED BY <1>1, <1>2 DEF ScansInv

\* A scan that begins: the only one if nobody is at work, and then the others are not alone.
LEMMA ListInv == ASSUME ScansInv, NEW s \in C!Scanners, C!List(s) PROVE ScansInv'
<1> DEFINE listed == [c \in Channels |-> IF node[c] = None THEN None ELSE Verdict[node[c]]]
           q == IF listed = C!Nothing THEN C!Over(s)
                ELSE [phase |-> "write", list |-> listed, at |-> None]
<1>1. C!TypeOK /\ UNCHANGED <<node, snapshots, incidents, changes, failures>>
  BY DEF C!List, ScansInv
<1>2. listed \in [Channels -> C!Healths \cup {None}]
  BY <1>1, HealthIsVerdict DEF C!TypeOK
<1>3. /\ scan' = [scan EXCEPT ![s] = q]
      /\ watch' = [t \in C!Scanners |->
           IF t = s THEN [listed |-> listed, alone |-> \A u \in C!Scanners : ~C!Working(u)]
           ELSE [watch[t] EXCEPT !.alone = FALSE]]
  BY DEF C!List
<1>4. /\ q \in C!Scan /\ q.list = listed /\ q.at = None
      /\ q.phase = "write" \/ listed = C!Nothing
  BY <1>2, OverFits DEF C!Scan
<1> HIDE DEF listed, q
<1>5. /\ scan' \in [C!Scanners -> C!Scan] /\ scan'[s] = q
      /\ \A t \in C!Scanners : t # s => scan'[t] = scan[t]
  BY <1>1, <1>3, <1>4 DEF C!TypeOK
<1>6. /\ watch' \in [C!Scanners -> C!Watch]
      /\ watch'[s].listed = listed
      /\ watch'[s].alone => \A u \in C!Scanners : ~C!Working(u)
      /\ \A t \in C!Scanners : t # s => watch'[t].alone = FALSE
  <2>1. \A t \in C!Scanners : watch[t] \in C!Watch
    BY <1>1 DEF C!TypeOK
  <2> QED BY <1>2, <1>3, <2>1 DEF C!Watch
<1>7. C!TypeOK'
  BY <1>1, <1>5, <1>6 DEF C!TypeOK
<1>8. ASSUME NEW t \in C!Scanners PROVE WorkOK(t)'
  BY <1>4, <1>5 DEF ScansInv, WorkOK, C!Working
<1>9. ASSUME NEW t \in C!Scanners PROVE LoneOK(t)'
  <2>1. CASE t = s
    BY <1>4, <1>5, <1>6, <2>1, NothingFits DEF LoneOK, C!Working
  <2> QED BY <1>6, <2>1 DEF LoneOK
<1> QED BY <1>7, <1>8, <1>9 DEF ScansInv

LEMMA WriteSnapshotInv ==
  ASSUME ScansInv, NEW s \in C!Scanners, NEW c \in Channels, C!WriteSnapshot(s, c)
  PROVE  ScansInv'
<1>1. /\ C!TypeOK /\ C!Working(s) /\ scan[s].at = None /\ scan[s].list[c] # None
      /\ UNCHANGED <<node, incidents, watch, changes, failures>>
  BY DEF C!WriteSnapshot, ScansInv
<1>2. /\ scan' \in [C!Scanners -> C!Scan] /\ scan'[s] = [scan[s] EXCEPT !.at = c]
      /\ \A t \in C!Scanners : t # s => scan'[t] = scan[t]
      /\ scan'[s].at = c /\ scan'[s].list = scan[s].list /\ scan'[s].phase = scan[s].phase
  BY <1>1 DEF C!WriteSnapshot, C!TypeOK, C!Scan
<1>3. /\ snapshots' \in [Channels -> C!Healths \cup {None}] /\ snapshots'[c] = scan[s].list[c]
      /\ \A d \in Channels : d # c => snapshots'[d] = snapshots[d]
  BY <1>1 DEF C!WriteSnapshot, C!TypeOK, C!Scan
<1>4. C!TypeOK'
  BY <1>1, <1>2, <1>3 DEF C!TypeOK
<1>5. ASSUME NEW t \in C!Scanners PROVE WorkOK(t)'
  BY <1>1, <1>2 DEF ScansInv, WorkOK, C!Working
<1>6. ASSUME NEW t \in C!Scanners PROVE LoneOK(t)'
  <2> SUFFICES ASSUME watch[t].alone PROVE LoneOK(t)'
    BY <1>1 DEF LoneOK
  <2>1. t = s
    BY <1>1 DEF ScansInv, LoneOK
  <2>2. LoneOK(s)
    BY DEF ScansInv
  <2>3. \A u \in C!Scanners : C!Working(u)' => u = s
    BY <1>2, <2>1, <2>2 DEF LoneOK, C!Working
  <2>4. ASSUME NEW d \in Channels, watch[s].listed[d] # None
        PROVE  IF scan[s].list[d] = None THEN C!Settled(d, watch[s].listed[d])'
               ELSE /\ scan[s].list[d] = watch[s].listed[d]
                    /\ c = d => snapshots'[d] = watch[s].listed[d]
    <3>1. CASE d = c
      BY <1>1, <1>3, <2>1, <2>2, <2>4, <3>1 DEF LoneOK
    <3>2. CASE d # c
      BY <1>1, <1>3, <2>1, <2>2, <2>4, <3>2 DEF LoneOK, C!Settled
    <3> QED BY <3>1, <3>2
  <2>5. /\ scan'[s].list = scan[s].list /\ scan'[s].at = c /\ watch' = watch
    BY <1>1, <1>2
  <2>6. \A d \in Channels : watch'[s].listed[d] # None =>
          IF scan'[s].list[d] = None THEN C!Settled(d, watch[s].listed[d])'
          ELSE /\ scan'[s].list[d] = watch'[s].listed[d]
               /\ scan'[s].at = d => snapshots'[d] = watch'[s].listed[d]
    BY <2>4, <2>5
  <2> QED BY <2>1, <2>3, <2>6 DEF LoneOK
<1> QED BY <1>4, <1>5, <1>6 DEF ScansInv

LEMMA ScanWriteIncidentInv ==
  ASSUME ScansInv, NEW s \in C!Scanners, C!WriteIncident(s) PROVE ScansInv'
<1> DEFINE c == scan[s].at
           health == scan[s].list[c]
           rest == [scan[s].list EXCEPT ![c] = None]
           q == C!NextChannel(s, rest)
<1>1. /\ C!TypeOK /\ C!Working(s) /\ c # None
      /\ incidents' = IF health = "HEALTHY" THEN C!Resolve(c) ELSE C!Upsert(c, health)
      /\ scan' = [scan EXCEPT ![s] = q]
      /\ UNCHANGED <<node, snapshots, watch, changes, failures>>
  BY DEF C!WriteIncident, ScansInv
<1>2. /\ scan[s] \in C!Scan /\ c \in Channels /\ health \in C!Healths
      /\ scan[s].list \in [Channels -> C!Healths \cup {None}]
  BY <1>1 DEF ScansInv, WorkOK, C!TypeOK, C!Scan
<1>3. /\ rest \in [Channels -> C!Healths \cup {None}] /\ rest[c] = None
      /\ \A d \in Channels : d # c => rest[d] = scan[s].list[d]
  BY <1>2
<1> HIDE DEF rest
<1>4. /\ q \in C!Scan /\ q.list = rest /\ q.at = None
      /\ q.phase = "write" \/ rest = C!Nothing
  BY <1>3, NextChannelFits
<1>5. /\ scan' \in [C!Scanners -> C!Scan] /\ scan'[s] = q
      /\ \A t \in C!Scanners : t # s => scan'[t] = scan[t]
  BY <1>1, <1>4 DEF C!TypeOK
<1> HIDE DEF q
<1>6. /\ incidents' \in [Channels -> C!Incident \cup {None}]
      /\ \A d \in Channels : d # c => incidents'[d] = incidents[d]
      /\ IF health = "HEALTHY" THEN incidents'[c] = None \/ incidents'[c].status = "RESOLVED"
         ELSE incidents'[c] = [status |-> "OPEN", severity |-> health]
  <2>1. incidents \in [Channels -> C!Incident \cup {None}]
    BY <1>1 DEF C!TypeOK
  <2>2. CASE health = "HEALTHY"
    BY <1>1, <1>2, <2>1, <2>2 DEF C!Resolve, C!Incident
  <2>3. CASE health # "HEALTHY"
    BY <1>1, <1>2, <2>1, <2>3 DEF C!Upsert, C!Incident, C!Healths
  <2> QED BY <2>2, <2>3
<1>7. C!TypeOK'
  BY <1>1, <1>5, <1>6 DEF C!TypeOK
<1>8. ASSUME NEW t \in C!Scanners PROVE WorkOK(t)'
  BY <1>1, <1>4, <1>5 DEF ScansInv, WorkOK, C!Working
<1>9. ASSUME NEW t \in C!Scanners PROVE LoneOK(t)'
  <2> SUFFICES ASSUME watch[t].alone PROVE LoneOK(t)'
    BY <1>1 DEF LoneOK
  <2>1. t = s
    BY <1>1 DEF ScansInv, LoneOK
  <2>2. LoneOK(s)
    BY DEF ScansInv
  <2>3. \A u \in C!Scanners : C!Working(u)' => u = s
    BY <1>5, <2>1, <2>2 DEF LoneOK, C!Working
  <2>4. ASSUME NEW d \in Channels, watch[s].listed[d] # None
        PROVE  IF q.list[d] = None THEN C!Settled(d, watch[s].listed[d])'
               ELSE q.list[d] = watch[s].listed[d]
    <3>1. CASE d = c
      <4>0. scan[s].list[c] # None
        BY <1>1 DEF ScansInv, WorkOK
      <4>1. health = watch[s].listed[c] /\ snapshots[c] = health
        BY <1>2, <2>1, <2>2, <2>4, <3>1, <4>0 DEF LoneOK
      <4> QED BY <1>1, <1>3, <1>4, <1>6, <3>1, <4>1 DEF C!Settled
    <3>2. CASE d # c
      BY <1>1, <1>3, <1>4, <1>6, <2>1, <2>2, <2>4, <3>2 DEF LoneOK, C!Settled
    <3> QED BY <3>1, <3>2, ZenonT(60)
  <2>5. None \notin Channels
    BY NothingFits
  <2> QED BY <1>1, <1>4, <1>5, <2>1, <2>3, <2>4, <2>5 DEF LoneOK
<1> QED BY <1>7, <1>8, <1>9 DEF ScansInv

\* A scan that fails ends, and is not alone.
LEMMA ScanFailInv == ASSUME ScansInv, NEW s \in C!Scanners, C!Fail(s) PROVE ScansInv'
<1>1. /\ C!TypeOK /\ UNCHANGED <<node, snapshots, incidents, changes>>
      /\ failures' \in 0 .. MaxFailures
  BY ChannelsFit DEF C!Fail, ScansInv, C!TypeOK, C!ChannelAssumption
<1>2. /\ scan' \in [C!Scanners -> C!Scan] /\ scan'[s] = C!Over(s)
      /\ \A t \in C!Scanners : t # s => scan'[t] = scan[t]
  BY <1>1, OverFits DEF C!Fail, C!TypeOK
<1>3. /\ watch' \in [C!Scanners -> C!Watch] /\ watch'[s].alone = FALSE
      /\ \A t \in C!Scanners : t # s => watch'[t] = watch[t]
  BY <1>1 DEF C!Fail, C!TypeOK, C!Watch
<1>4. C!TypeOK'
  BY <1>1, <1>2, <1>3 DEF C!TypeOK
<1>5. ASSUME NEW t \in C!Scanners PROVE WorkOK(t)'
  BY <1>2, OverFits DEF ScansInv, WorkOK, C!Working
<1>6. ASSUME NEW t \in C!Scanners PROVE LoneOK(t)'
  <2>1. CASE t = s
    BY <1>3, <2>1 DEF LoneOK
  <2>2. CASE t # s
    BY <1>1, <1>2, <1>3, <2>2, OverFits DEF ScansInv, LoneOK, C!Working, C!Settled
  <2> QED BY <2>1, <2>2
<1> QED BY <1>4, <1>5, <1>6 DEF ScansInv

LEMMA ScansNext == ScansInv /\ [C!Next]_scans => ScansInv'
<1> SUFFICES ASSUME ScansInv, [C!Next]_scans PROVE ScansInv'
  OBVIOUS
<1>1. CASE UNCHANGED scans
  BY <1>1 DEF scans, ScansInv, C!TypeOK, WorkOK, LoneOK, C!Working, C!Settled
<1>2. CASE C!Next
  BY <1>2, NodeMovesInv, ListInv, WriteSnapshotInv, ScanWriteIncidentInv, ScanFailInv
  DEF C!Next, C!Step
<1> QED BY <1>1, <1>2

-----------------------------------------------------------------------------
(* The arithmetic of the verdicts: how far rounded numbers are off.        *)

\* A larger factor makes a larger product, and only a larger one does.
LEMMA Times ==
  ASSUME NEW a \in Nat, NEW b \in Nat, NEW c \in Nat
  PROVE  /\ a <= b => a * c <= b * c
         /\ a * c < b * c => a < b
         /\ c > 0 /\ a * c <= b * c => a <= b
<1>1. a <= b => a * c <= b * c
  OBVIOUS
<1>2. ASSUME c > 0, b + 1 <= a PROVE b * c < a * c
  <2>1. (b + 1) * c <= a * c
    BY <1>2
  <2> QED BY <1>2, <2>1
<1>3. ASSUME b <= a PROVE b * c <= a * c
  BY <1>3
<1> QED BY <1>1, <1>2, <1>3

\* Rounding is off by half a unit at most.
LEMMA RoundedIsNear ==
  ASSUME NEW n \in Nat, NEW d \in Nat \ {0}
  PROVE  LET q == Rounded(n, d) IN
         q \in Nat /\ 2 * (q * d) <= 2 * n + d /\ 2 * n <= 2 * (q * d) + d
<1> DEFINE q == n \div d
           r == n % d
<1>1. q \in Nat /\ r \in Nat /\ r < d /\ n = q * d + r
  OBVIOUS
<1> HIDE DEF q, r
<1>2. (q + 1) * d = q * d + d
  BY <1>1
<1>3. q * d \in Nat
  BY <1>1
<1>4. Rounded(n, d) = IF 2 * r < d \/ (2 * r = d /\ q % 2 = 0) THEN q ELSE q + 1
  BY DEF Rounded, q, r
<1>5. CASE Rounded(n, d) = q /\ 2 * r <= d
  BY <1>1, <1>3, <1>5
<1>6. CASE Rounded(n, d) = q + 1 /\ 2 * r >= d
  BY <1>1, <1>2, <1>3, <1>6
<1> QED BY <1>1, <1>4, <1>5, <1>6

\* The relative error of one rounding: n s / d, of at least half the significands.
LEMMA RoundedIsClose ==
  ASSUME NEW n \in Nat, NEW d \in Nat \ {0}, NEW N \in Nat, N > 0, N * d <= 2 * n
  PROVE  LET q == Rounded(n, d) IN
         q \in Nat /\ q * d * N <= n * (N + 1) /\ n * (N - 1) <= q * d * N
<1> DEFINE q == Rounded(n, d)
<1>1. q \in Nat /\ 2 * (q * d) <= 2 * n + d /\ 2 * n <= 2 * (q * d) + d
  BY RoundedIsNear
<1> HIDE DEF q
<1> DEFINE p == q * d
           e == N * d
<1>2. p \in Nat /\ e \in Nat /\ n * N \in Nat /\ p * N \in Nat
  BY <1>1
<1>3. (2 * p) * N <= (2 * n + d) * N /\ (2 * n) * N <= (2 * p + d) * N
  BY <1>1, <1>2, Times
<1>4. /\ (2 * p) * N = 2 * (p * N) /\ (2 * n + d) * N = 2 * (n * N) + e
      /\ (2 * n) * N = 2 * (n * N) /\ (2 * p + d) * N = 2 * (p * N) + e
      /\ n * (N + 1) = n * N + n /\ n * (N - 1) = n * N - n
  BY <1>2
<1>5. e <= 2 * n
  OBVIOUS
<1> HIDE DEF e
<1>6. p * N <= n * (N + 1) /\ n * (N - 1) <= p * N
  BY <1>2, <1>3, <1>4, <1>5
<1> QED BY <1>1, <1>6 DEF q

LEMMA QuotientIsClose ==
  ASSUME NEW n \in Nat, NEW d \in Nat \ {0}, Fractions(n, d) # {}
  PROVE  LET x == Quotient(n, d)
             N == Significands
         IN /\ x[1] \in Nat /\ x[2] \in Nat \ {0}
            /\ x[1] * d * N <= n * x[2] * (N + 1) /\ n * x[2] * (N - 1) <= x[1] * d * N
<1> DEFINE s == CHOOSE t \in Fractions(n, d) : TRUE
<1>1. s \in Fractions(n, d)
  OBVIOUS
<1>2. Quotient(n, d) = <<Rounded(n * s, d), s>>
  BY DEF Quotient
<1> HIDE DEF s
<1>3. s \in Nat \ {0} /\ Significands \in Nat /\ Significands > 0
      /\ Significands * d <= 2 * n * s
  BY <1>1, VerdictsFit DEF Fractions, VerdictAssumption
<1>4. n * s \in Nat /\ 2 * n * s = 2 * (n * s)
  BY <1>3
<1>5. Significands * d <= 2 * (n * s)
  BY <1>3, <1>4
<1> DEFINE m == n * s
           q == Rounded(m, d)
           N == Significands
<1>6. q \in Nat /\ q * d * N <= m * (N + 1) /\ m * (N - 1) <= q * d * N
  <2> HIDE DEF m
  <2> QED BY <1>3, <1>4, <1>5, RoundedIsClose DEF m
<1> QED BY <1>2, <1>3, <1>6

LEMMA FloatIsClose ==
  ASSUME NEW n \in Nat \ {0}, n >= Significands => Units(n) # {}
  PROVE  LET f == ToFloat(n)
             N == Significands
         IN /\ f \in Nat \ {0}
            /\ f * N <= n * (N + 1) /\ n * (N - 1) <= f * N
<1> DEFINE u == CHOOSE s \in Units(n) : TRUE
           N == Significands
<1>1. N \in Nat /\ N >= 16 /\ Scales \subseteq Nat \ {0}
  BY VerdictsFit DEF VerdictAssumption
<1>2. CASE n < N
  <2>1. ToFloat(n) = n
    BY <1>2 DEF ToFloat
  <2> HIDE DEF N
  <2> QED BY <1>1, <2>1 DEF N
<1>3. CASE n >= N
  <2>1. u \in Units(n)
    BY <1>1, <1>3
  <2>2. u \in Nat \ {0} /\ N * u <= 2 * n
    BY <1>1, <2>1 DEF Units
  <2>3. ToFloat(n) = Rounded(n, u) * u
    BY <1>1, <1>3 DEF ToFloat
  <2> DEFINE q == Rounded(n, u)
  <2> HIDE DEF u, N
  <2>4. q \in Nat /\ q * u * N <= n * (N + 1) /\ n * (N - 1) <= q * u * N
    BY <1>1, <2>2, RoundedIsClose
  <2> HIDE DEF q
  <2>5. ToFloat(n) = q * u /\ q * u \in Nat
    BY <2>2, <2>3, <2>4 DEF q
  <2>6. n * (N - 1) > 0
    BY <1>1
  <2>7. q * u # 0
    BY <1>1, <2>4, <2>6
  <2> QED BY <2>4, <2>5, <2>7 DEF N
<1> QED BY <1>1, <1>2, <1>3

\* Equal ratios are rounded to the same number.
LEMMA SameRatio ==
  ASSUME NEW a \in Nat, NEW b \in Nat \ {0}, NEW c \in Nat, NEW d \in Nat \ {0},
         a * d = c * b
  PROVE  Rounded(a, b) = Rounded(c, d)
<1> DEFINE q == a \div b
           r == a % b
           v == c \div d
           w == c % d
<1>1. /\ q \in Nat /\ r \in Nat /\ r < b /\ a = q * b + r
      /\ v \in Nat /\ w \in Nat /\ w < d /\ c = v * d + w
  OBVIOUS
<1> HIDE DEF q, r, v, w
<1>2. q * b * d + r * d = v * d * b + w * b
  BY <1>1
<1> DEFINE e == b * d
<1>3. e \in Nat \ {0} /\ q * b * d = q * e /\ v * d * b = v * e
  BY <1>1
<1>4. r * d < e /\ w * b < e /\ r * d \in Nat /\ w * b \in Nat
  BY <1>1
<1> HIDE DEF e
<1>5. q * e + r * d = v * e + w * b
  BY <1>2, <1>3
<1>6. ASSUME NEW x \in Nat, NEW y \in Nat, NEW i \in Nat, NEW j \in Nat,
             x * e + i = y * e + j, i < e, x < y
      PROVE  FALSE
  <2>1. (x + 1) * e <= y * e
    BY <1>3, <1>6
  <2>2. (x + 1) * e = x * e + e
    BY <1>3
  <2> QED BY <1>3, <1>6, <2>1, <2>2
<1>7. q = v
  <2>1. ~(q < v)
    BY <1>1, <1>4, <1>5, <1>6
  <2>2. ~(v < q)
    BY <1>1, <1>4, <1>5, <1>6
  <2> QED BY <1>1, <2>1, <2>2
<1>8. r * d = w * b
  BY <1>1, <1>3, <1>4, <1>5, <1>7
<1>9. 2 * r < b <=> 2 * w < d
  <2>1. 2 * r < b => 2 * w < d
    <3> SUFFICES ASSUME 2 * r < b, 2 * w >= d PROVE FALSE
      BY <1>1
    <3>1. (2 * r) * d < b * d /\ d * b <= (2 * w) * b
      BY <1>1, Times
    <3> QED BY <1>1, <1>8, <3>1
  <2>2. 2 * w < d => 2 * r < b
    <3> SUFFICES ASSUME 2 * w < d, 2 * r >= b PROVE FALSE
      BY <1>1
    <3>1. (2 * w) * b < d * b /\ b * d <= (2 * r) * d
      BY <1>1, Times
    <3> QED BY <1>1, <1>8, <3>1
  <2> QED BY <2>1, <2>2
<1>10. 2 * r = b <=> 2 * w = d
  <2>1. (2 * r) * d = (2 * w) * b
    BY <1>1, <1>8
  <2>2. 2 * r = b => 2 * w = d
    BY <1>1, <2>1
  <2>3. 2 * w = d => 2 * r = b
    BY <1>1, <2>1
  <2> QED BY <2>2, <2>3
<1> QED BY <1>7, <1>9, <1>10 DEF Rounded, q, r, v, w

LEMMA SameQuotient ==
  ASSUME NEW a \in Nat, NEW b \in Nat \ {0}, NEW c \in Nat, NEW d \in Nat \ {0},
         a * d = c * b, Fractions(a, b) # {}
  PROVE  Quotient(a, b) = Quotient(c, d)
<1> DEFINE N == Significands
<1>0. N \in Nat /\ N > 0 /\ Scales \subseteq Nat \ {0}
  BY VerdictsFit DEF VerdictAssumption
<1>1. ASSUME NEW s \in Scales PROVE s \in Fractions(a, b) <=> s \in Fractions(c, d)
  <2>0. s \in Nat \ {0}
    BY <1>0
  <2> DEFINE m == 2 * a * s
             n == 2 * c * s
             e == N * b
             f == N * d
             i == a * s
             j == c * s
  <2>1. /\ m \in Nat /\ n \in Nat /\ e \in Nat /\ f \in Nat /\ i \in Nat /\ j \in Nat
        /\ m * d = n * b /\ e * d = f * b /\ i * d = j * b
    <3>1. m * d = 2 * s * (a * d) /\ n * b = 2 * s * (c * b) /\ e * d = f * b
          /\ i * d = s * (a * d) /\ j * b = s * (c * b)
      BY <1>0, <2>0
    <3> QED BY <1>0, <2>0, <3>1
  <2> HIDE DEF m, n, e, f, i, j
  <2>2. e <= m <=> f <= n
    <3>1. e <= m => f <= n
      <4>1. e <= m => e * d <= m * d
        BY <2>1, Times
      <4>2. f * b <= n * b => f <= n
        BY <2>1, Times
      <4> QED BY <2>1, <4>1, <4>2
    <3>2. f <= n => e <= m
      <4>1. f <= n => f * b <= n * b
        BY <2>1, Times
      <4>2. e * d <= m * d => e <= m
        BY <2>1, Times
      <4> QED BY <2>1, <4>1, <4>2
    <3> QED BY <3>1, <3>2
  <2>3. e <= i <=> f <= j
    <3>1. e <= i => f <= j
      <4>1. e <= i => e * d <= i * d
        BY <2>1, Times
      <4>2. f * b <= j * b => f <= j
        BY <2>1, Times
      <4> QED BY <2>1, <4>1, <4>2
    <3>2. f <= j => e <= i
      <4>1. f <= j => f * b <= j * b
        BY <2>1, Times
      <4>2. e * d <= i * d => e <= i
        BY <2>1, Times
      <4> QED BY <2>1, <4>1, <4>2
    <3> QED BY <3>1, <3>2
  <2>4. i < e <=> j < f
    BY <2>1, <2>3
  <2> QED BY <2>2, <2>4 DEF Fractions, m, n, e, f, i, j
<1>2. Fractions(a, b) = Fractions(c, d)
  <2>1. Fractions(a, b) \subseteq Scales /\ Fractions(c, d) \subseteq Scales
    BY DEF Fractions
  <2> QED BY <1>1, <2>1
<1> DEFINE s == CHOOSE t \in Fractions(c, d) : TRUE
<1>3. s \in Fractions(c, d)
  BY <1>2
<1>4. /\ Quotient(a, b) = <<Rounded(a * s, b), s>>
      /\ Quotient(c, d) = <<Rounded(c * s, d), s>>
  BY <1>2 DEF Quotient
<1> HIDE DEF s
<1>5. s \in Nat /\ a * s \in Nat /\ c * s \in Nat
  BY <1>0, <1>3 DEF Fractions
<1>6. (a * s) * d = (c * s) * b
  <2>1. (a * s) * d = s * (a * d) /\ (c * s) * b = s * (c * b)
    BY <1>5
  <2> QED BY <2>1
<1>7. Rounded(a * s, b) = Rounded(c * s, d)
  <2> DEFINE x == a * s
             y == c * s
  <2>1. x \in Nat /\ y \in Nat /\ x * d = y * b
    BY <1>5, <1>6
  <2> HIDE DEF x, y
  <2>2. Rounded(x, b) = Rounded(y, d)
    BY <2>1, SameRatio
  <2> QED BY <2>2 DEF x, y
<1> QED BY <1>4, <1>7

\* The errors of the two conversions and of the division together, as a quotient q / s of
\* what l and t were converted to, f and g.
LEMMA ErrorOfRatio ==
  ASSUME NEW N \in Nat, N >= 16, NEW l \in Nat, NEW t \in Nat, NEW f \in Nat, NEW g \in Nat,
         NEW q \in Nat, NEW s \in Nat,
         f * N <= l * (N + 1), l * (N - 1) <= f * N,
         g * N <= t * (N + 1), t * (N - 1) <= g * N,
         q * g * N <= f * s * (N + 1), f * s * (N - 1) <= q * g * N
  PROVE  /\ q * t * (N * (N - 1)) <= l * s * ((N + 1) * (N + 1))
         /\ l * s * ((N - 1) * (N - 1)) <= q * t * (N * (N + 1))
<1> DEFINE A == N + 1
           B == N - 1
<1>1. A \in Nat /\ B \in Nat
  OBVIOUS
<1>2. f * N <= l * A /\ l * B <= f * N /\ g * N <= t * A /\ t * B <= g * N
      /\ q * g * N <= f * s * A /\ f * s * B <= q * g * N
  OBVIOUS
<1> HIDE DEF A, B
<1>3. q * t * (N * B) <= l * s * (A * A)
  <2>1. (t * B) * (q * N) <= (g * N) * (q * N)
    BY <1>1, <1>2, Times
  <2>2. (q * g * N) * N <= (f * s * A) * N
    BY <1>1, <1>2, Times
  <2>3. (f * N) * (s * A) <= (l * A) * (s * A)
    BY <1>1, <1>2, Times
  <2>4. /\ q * t * (N * B) = (t * B) * (q * N)
        /\ (g * N) * (q * N) = (q * g * N) * N
        /\ (f * s * A) * N = (f * N) * (s * A)
        /\ (l * A) * (s * A) = l * s * (A * A)
    BY <1>1
  <2> QED BY <1>1, <2>1, <2>2, <2>3, <2>4
<1>4. l * s * (B * B) <= q * t * (N * A)
  <2>1. (g * N) * (q * N) <= (t * A) * (q * N)
    BY <1>1, <1>2, Times
  <2>2. (f * s * B) * N <= (q * g * N) * N
    BY <1>1, <1>2, Times
  <2>3. (l * B) * (s * B) <= (f * N) * (s * B)
    BY <1>1, <1>2, Times
  <2>4. /\ l * s * (B * B) = (l * B) * (s * B)
        /\ (f * N) * (s * B) = (f * s * B) * N
        /\ (q * g * N) * N = (g * N) * (q * N)
        /\ (t * A) * (q * N) = q * t * (N * A)
    BY <1>1
  <2> QED BY <1>1, <2>1, <2>2, <2>3, <2>4
<1> QED BY <1>3, <1>4 DEF A, B

\* How far a share l / t, rounded to q / s, is from a percentage k, rounded to p / w, on
\* the side where the rounded numbers are.
LEMMA ErrorOfBound ==
  ASSUME NEW N \in Nat, N >= 16, NEW l \in Nat, NEW t \in Nat, NEW k \in Nat,
         NEW q \in Nat, NEW s \in Nat \ {0}, NEW p \in Nat, NEW w \in Nat \ {0},
         q * t * (N * (N - 1)) <= l * s * ((N + 1) * (N + 1)),
         l * s * ((N - 1) * (N - 1)) <= q * t * (N * (N + 1)),
         p * 100 * N <= k * w * (N + 1), k * w * (N - 1) <= p * 100 * N
  PROVE  /\ q * w < p * s =>
              l * 100 * ((N - 1) * (N - 1)) <= k * t * ((N + 1) * (N + 1))
         /\ p * s <= q * w =>
              k * t * ((N - 1) * (N - 1)) <= l * 100 * ((N + 1) * (N + 1))
<1> DEFINE A == N + 1
           B == N - 1
<1>1. A \in Nat /\ B \in Nat /\ s * w \in Nat /\ s * w > 0
  OBVIOUS
<1>2. /\ q * t * (N * B) <= l * s * (A * A) /\ l * s * (B * B) <= q * t * (N * A)
      /\ p * 100 * N <= k * w * A /\ k * w * B <= p * 100 * N
  OBVIOUS
<1> HIDE DEF A, B
<1>3. ASSUME q * w < p * s PROVE l * 100 * (B * B) <= k * t * (A * A)
  <2>1. (l * s * (B * B)) * (100 * w) <= (q * t * (N * A)) * (100 * w)
    BY <1>1, <1>2, Times
  <2>2. (q * w) * (100 * t * N * A) <= (p * s) * (100 * t * N * A)
    BY <1>1, <1>3, Times
  <2>3. (p * 100 * N) * (s * t * A) <= (k * w * A) * (s * t * A)
    BY <1>1, <1>2, Times
  <2>4. /\ (l * s * (B * B)) * (100 * w) = (l * 100 * (B * B)) * (s * w)
        /\ (q * t * (N * A)) * (100 * w) = (q * w) * (100 * t * N * A)
        /\ (p * s) * (100 * t * N * A) = (p * 100 * N) * (s * t * A)
        /\ (k * w * A) * (s * t * A) = (k * t * (A * A)) * (s * w)
    BY <1>1
  <2>5. (l * 100 * (B * B)) * (s * w) <= (k * t * (A * A)) * (s * w)
    BY <1>1, <2>1, <2>2, <2>3, <2>4
  <2> QED BY <1>1, <2>5, Times
<1>4. ASSUME p * s <= q * w PROVE k * t * (B * B) <= l * 100 * (A * A)
  <2>1. (k * w * B) * (s * t * B) <= (p * 100 * N) * (s * t * B)
    BY <1>1, <1>2, Times
  <2>2. (p * s) * (100 * t * N * B) <= (q * w) * (100 * t * N * B)
    BY <1>1, <1>4, Times
  <2>3. (q * t * (N * B)) * (100 * w) <= (l * s * (A * A)) * (100 * w)
    BY <1>1, <1>2, Times
  <2>4. /\ (k * w * B) * (s * t * B) = (k * t * (B * B)) * (s * w)
        /\ (p * 100 * N) * (s * t * B) = (p * s) * (100 * t * N * B)
        /\ (q * w) * (100 * t * N * B) = (q * t * (N * B)) * (100 * w)
        /\ (l * s * (A * A)) * (100 * w) = (l * 100 * (A * A)) * (s * w)
    BY <1>1
  <2>5. (k * t * (B * B)) * (s * w) <= (l * 100 * (A * A)) * (s * w)
    BY <1>1, <2>1, <2>2, <2>3, <2>4
  <2> QED BY <1>1, <2>5, Times
<1> QED BY <1>3, <1>4 DEF A, B

\* A share at most this far from 30 % is at the bound.
LEMMA NearTheBound ==
  ASSUME NEW N \in Nat, N >= 16, NEW l \in Nat, NEW t \in Nat
  PROVE  /\ l * 100 * ((N - 1) * (N - 1)) <= 30 * t * ((N + 1) * (N + 1)) =>
              N * (10 * l - 3 * t) <= 15 * t
         /\ 30 * t * ((N - 1) * (N - 1)) <= l * 100 * ((N + 1) * (N + 1)) =>
              N * (3 * t - 10 * l) <= 15 * t
         /\ l * 100 * ((N - 1) * (N - 1)) <= 15 * t * ((N + 1) * (N + 1)) /\ t > 0 =>
              10 * l < 3 * t
<1> DEFINE M == (N - 1) * (N - 1)
           P == (N + 1) * (N + 1)
<1>1. M \in Nat /\ P \in Nat /\ M > 0 /\ P > 0 /\ P = M + 4 * N
  OBVIOUS
<1>2. 4 * N * N <= 5 * M /\ 4 * N * N <= 5 * P
  OBVIOUS
<1>3. P < 2 * M
  OBVIOUS
<1> HIDE DEF M, P
<1>4. ASSUME l * 100 * M <= 30 * t * P, N * (10 * l - 3 * t) > 15 * t PROVE FALSE
  <2> DEFINE d == 10 * l - 3 * t
  <2>1. d \in Int /\ 10 * l = 3 * t + d /\ N * d > 15 * t
    BY <1>4
  <2>2. d > 0
    BY <2>1
  <2> HIDE DEF d
  <2>3. d * M <= 12 * t * N
    <3>1. 10 * (3 * t + d) * M <= 30 * t * (M + 4 * N)
      BY <1>1, <1>4, <2>1
    <3> QED BY <1>1, <2>1, <3>1
  <2>4. (d * M) * N <= (12 * t * N) * N
    BY <1>1, <2>1, <2>2, <2>3, Times
  <2>5. (15 * t + 1) * M <= (N * d) * M
    BY <1>1, <2>1, <2>2, Times
  <2>6. (4 * N * N) * (3 * t) <= (5 * M) * (3 * t)
    BY <1>1, <1>2, Times
  <2> QED BY <1>1, <2>1, <2>2, <2>4, <2>5, <2>6
<1>5. ASSUME 30 * t * M <= l * 100 * P, N * (3 * t - 10 * l) > 15 * t PROVE FALSE
  <2> DEFINE d == 3 * t - 10 * l
  <2>1. d \in Int /\ 10 * l = 3 * t - d /\ N * d > 15 * t
    BY <1>5
  <2>2. d > 0
    BY <2>1
  <2> HIDE DEF d
  <2>3. d * P <= 12 * t * N
    <3>1. 30 * t * (P - 4 * N) <= 10 * (3 * t - d) * P
      BY <1>1, <1>5, <2>1
    <3> QED BY <1>1, <2>1, <3>1
  <2>4. (d * P) * N <= (12 * t * N) * N
    BY <1>1, <2>1, <2>2, <2>3, Times
  <2>5. (15 * t + 1) * P <= (N * d) * P
    BY <1>1, <2>1, <2>2, Times
  <2>6. (4 * N * N) * (3 * t) <= (5 * P) * (3 * t)
    BY <1>1, <1>2, Times
  <2> QED BY <1>1, <2>1, <2>2, <2>4, <2>5, <2>6
<1>6. ASSUME l * 100 * M <= 15 * t * P, t > 0, 3 * t <= 10 * l PROVE FALSE
  <2>1. (3 * t) * (10 * M) <= (10 * l) * (10 * M)
    BY <1>1, <1>6, Times
  <2>2. (15 * t) * P < (15 * t) * (2 * M)
    BY <1>1, <1>3, <1>6
  <2> QED BY <1>1, <1>6, <2>1, <2>2
<1> QED BY <1>4, <1>5, <1>6 DEF M, P

-----------------------------------------------------------------------------
(* The verdicts of the portal.                                             *)

\* The service and the exact share disagree about 30 % at the bound only; below 15 % of
\* the one is below 30 % of the other.
LEMMA SharesDiffer ==
  ASSUME NEW raw \in Readings,
         ~((Below(raw, 15) \/ Below(raw, 30)) <=> 10 * raw.local < 3 * (raw.local + raw.remote))
  PROVE  AtTheBound(raw)
<1> DEFINE N == Significands
           l == raw.local
           t == raw.local + raw.remote
           f == ToFloat(l)
           g == ToFloat(t)
           x == Quotient(f, g)
           low(k) == Less(x, Quotient(k, 100))
<1>1. /\ N \in Nat /\ N >= 16 /\ l \in Nat /\ t \in Nat /\ l <= t
      /\ \A k \in {15, 30} : k \in Nat /\ Fractions(k, 100) # {}
  BY VerdictsFit DEF VerdictAssumption, RawChannel
<1>2. l > 0
  BY <1>1 DEF Below
<1>3. t > 0 /\ \A k \in {15, 30} : Below(raw, k) <=> low(k)
  BY <1>1, <1>2 DEF Below, Percent
<1>4. /\ l >= N => Units(l) # {}
      /\ t >= N => Units(t) # {}
      /\ Fractions(f, g) # {}
  BY <1>2, VerdictsFit DEF VerdictAssumption, InRange
<1>5. /\ f \in Nat \ {0} /\ g \in Nat \ {0}
      /\ f * N <= l * (N + 1) /\ l * (N - 1) <= f * N
      /\ g * N <= t * (N + 1) /\ t * (N - 1) <= g * N
  <2>1. l \in Nat \ {0} /\ t \in Nat \ {0}
    BY <1>1, <1>2, <1>3
  <2> HIDE DEF l, t
  <2> QED BY <1>4, <2>1, FloatIsClose
<1> HIDE DEF f, g
<1>6. /\ x[1] \in Nat /\ x[2] \in Nat \ {0}
      /\ x[1] * g * N <= f * x[2] * (N + 1) /\ f * x[2] * (N - 1) <= x[1] * g * N
  BY <1>4, <1>5, QuotientIsClose
<1> HIDE DEF x, l, t, N
<1>7. /\ x[1] * t * (N * (N - 1)) <= l * x[2] * ((N + 1) * (N + 1))
      /\ l * x[2] * ((N - 1) * (N - 1)) <= x[1] * t * (N * (N + 1))
  BY <1>1, <1>5, <1>6, ErrorOfRatio
<1>8. ASSUME NEW k \in {15, 30}
      PROVE  /\ low(k) => l * 100 * ((N - 1) * (N - 1)) <= k * t * ((N + 1) * (N + 1))
             /\ ~low(k) => k * t * ((N - 1) * (N - 1)) <= l * 100 * ((N + 1) * (N + 1))
  <2> DEFINE y == Quotient(k, 100)
  <2>1. /\ y[1] \in Nat /\ y[2] \in Nat \ {0}
        /\ y[1] * 100 * N <= k * y[2] * (N + 1) /\ k * y[2] * (N - 1) <= y[1] * 100 * N
    BY <1>1, QuotientIsClose DEF N
  <2> HIDE DEF y
  <2>2. low(k) <=> x[1] * y[2] < y[1] * x[2]
    BY DEF Less, y
  <2>3. /\ x[1] * y[2] < y[1] * x[2] =>
             l * 100 * ((N - 1) * (N - 1)) <= k * t * ((N + 1) * (N + 1))
        /\ y[1] * x[2] <= x[1] * y[2] =>
             k * t * ((N - 1) * (N - 1)) <= l * 100 * ((N + 1) * (N + 1))
    <3> DEFINE q == x[1]
               s == x[2]
               p == y[1]
               w == y[2]
    <3>1. /\ k \in Nat /\ q \in Nat /\ s \in Nat \ {0} /\ p \in Nat /\ w \in Nat \ {0}
          /\ q * t * (N * (N - 1)) <= l * s * ((N + 1) * (N + 1))
          /\ l * s * ((N - 1) * (N - 1)) <= q * t * (N * (N + 1))
          /\ p * 100 * N <= k * w * (N + 1) /\ k * w * (N - 1) <= p * 100 * N
      BY <1>1, <1>6, <1>7, <2>1
    <3> HIDE DEF q, s, p, w
    <3>2. /\ q * w < p * s =>
               l * 100 * ((N - 1) * (N - 1)) <= k * t * ((N + 1) * (N + 1))
          /\ p * s <= q * w =>
               k * t * ((N - 1) * (N - 1)) <= l * 100 * ((N + 1) * (N + 1))
      BY <1>1, <3>1, ErrorOfBound
    <3> QED BY <3>2 DEF q, s, p, w
  <2>4. ~low(k) => y[1] * x[2] <= x[1] * y[2]
    BY <1>6, <2>1, <2>2
  <2> QED BY <2>2, <2>3, <2>4
<1>9. /\ low(30) => N * (10 * l - 3 * t) <= 15 * t
      /\ ~low(30) => N * (3 * t - 10 * l) <= 15 * t
      /\ low(15) => 10 * l < 3 * t
  BY <1>1, <1>3, <1>8, NearTheBound
<1>10. ASSUME 10 * l = 3 * t, N > 15 * t PROVE ~low(30)
  <2>1. f = l /\ g = t
    BY <1>1, <1>10 DEF ToFloat, f, g, N
  <2>2. l * 100 = 30 * t
    BY <1>1, <1>10
  <2>3. x = Quotient(30, 100)
    BY <1>4, <1>5, <2>1, <2>2, SameQuotient DEF x
  <2> QED BY <1>6, <2>3 DEF Less
<1>11. (low(15) \/ low(30)) # (10 * l < 3 * t)
  BY <1>3 DEF l, t
<1>12. /\ N <= 15 * t /\ N * (10 * l - 3 * t) <= 15 * t /\ N * (0 - (10 * l - 3 * t)) <= 15 * t
  <2> HIDE DEF low
  <2> DEFINE d == 10 * l - 3 * t
  <2>1. d \in Int /\ 3 * t - 10 * l = 0 - d /\ (10 * l < 3 * t <=> d < 0)
    BY <1>1
  <2> HIDE DEF d
  <2>2. CASE d < 0
    <3>1. N * (0 - d) <= 15 * t
      BY <1>9, <1>11, <2>1, <2>2
    <3>2. N <= N * (0 - d) /\ N * d <= 0
      BY <1>1, <2>1, <2>2
    <3> QED BY <1>1, <2>1, <3>1, <3>2 DEF d
  <2>3. CASE d >= 0
    <3>1. low(30) /\ N * d <= 15 * t
      BY <1>9, <1>11, <2>1, <2>3 DEF d
    <3>2. N * (0 - d) <= 0
      BY <1>1, <2>1, <2>3
    <3>3. d > 0 => N <= N * d
      BY <1>1, <2>1
    <3>4. d = 0 => N <= 15 * t
      BY <1>1, <1>10, <2>1, <3>1 DEF d
    <3> QED BY <1>1, <2>1, <2>3, <3>1, <3>2, <3>3, <3>4 DEF d
  <2> QED BY <2>1, <2>2, <2>3
<1> QED BY <1>12 DEF AtTheBound, l, t, N

\* The ratio rounded down is below a bound if and only if the ratio is.
LEMMA RoundedShare ==
  ASSUME NEW a \in Nat, NEW b \in Nat, b > 0, NEW n \in Nat
  PROVE  (a \div b) \in Nat /\ ((a \div b) < n <=> a < n * b)
<1> DEFINE d == a \div b
<1>1. d \in Nat /\ b * d <= a /\ a < b * d + b
  OBVIOUS
<1> HIDE DEF d
<1>2. CASE d < n
  <2>1. d + 1 <= n
    BY <1>1, <1>2
  <2>2. b * (d + 1) <= b * n
    BY <1>1, <2>1
  <2> QED BY <1>1, <1>2, <2>2
<1>3. CASE d >= n
  <2>1. b * n <= b * d
    BY <1>1, <1>3
  <2> QED BY <1>1, <1>3, <2>1
<1> QED BY <1>1, <1>2, <1>3 DEF d

\* What the bigints find low is less than 30 %.
LEMMA BrowserShare ==
  ASSUME NEW raw \in RawChannel
  PROVE  /\ BrowserLiquidity(raw) \in 0 .. 2
         /\ BrowserLiquidity(raw) > 0 <=> 10 * raw.local < 3 * (raw.local + raw.remote)
<1> DEFINE local == raw.local
           total == raw.local + raw.remote
           ratio == (local * 10000) \div total
<1>1. local \in Nat /\ total \in Nat /\ local <= total
  BY DEF RawChannel
<1>2. BrowserLiquidity(raw) =
        CASE total > 0 /\ ratio < 1500 -> 2
          [] total > 0 /\ ratio \in 1500 .. 2999 -> 1
          [] OTHER -> 0
  BY DEF BrowserLiquidity
<1>3. CASE total = 0
  <2> HIDE DEF ratio
  <2> QED BY <1>1, <1>2, <1>3
<1>4. CASE total > 0
  <2>1. ratio \in Nat /\ (ratio < 3000 <=> local * 10000 < 3000 * total)
    BY <1>1, <1>4, RoundedShare
  <2>2. local * 10000 < 3000 * total <=> 10 * local < 3 * total
    BY <1>1
  <2> HIDE DEF ratio
  <2>3. (ratio < 1500 \/ ratio \in 1500 .. 2999) <=> ratio < 3000
    BY <2>1
  <2> QED BY <1>2, <1>4, <2>1, <2>2, <2>3
<1> QED BY <1>1, <1>3, <1>4

\* What the service finds low is below one of its two bounds.
LEMMA ServiceShare ==
  ASSUME NEW raw
  PROVE  /\ Liquidity(raw) \in 0 .. 2
         /\ Liquidity(raw) > 0 <=> Below(raw, 15) \/ Below(raw, 30)
BY DEF Liquidity

\* The largest of four scores.
LEMMA MaxOfFour ==
  ASSUME NEW a \in Nat, NEW b \in Nat, NEW c \in Nat, NEW d \in Nat
  PROVE  LET m == Max({a, b, c, d}) IN
         /\ m \in {a, b, c, d} /\ m >= a /\ m >= b /\ m >= c /\ m >= d
<1> DEFINE S == {a, b, c, d}
<1>1. \E x \in S : \A y \in S : x >= y
  OBVIOUS
<1> QED BY <1>1 DEF Max

\* The verdicts of the portal and of the service on a reading.
LEMMA PortalVerdict == ASSUME NEW raw \in Readings PROVE DiffersAsKnown(raw)
<1> DEFINE l == Liquidity(raw)
           b == BrowserLiquidity(raw)
           p == Pressure(raw)
           f == IF raw.failure THEN 3 ELSE 0
           t == IF raw.state # "ChannelReady" \/ ~raw.enabled THEN 2 ELSE 0
           u == IF ~LooksReady(raw.state) \/ ~raw.enabled THEN 2 ELSE 0
           m == Max({l, p, f, t})
           n == Max({b, p, u, u})
<1>0. raw \in RawChannel
  BY VerdictsFit DEF VerdictAssumption
<1>1. l \in 0 .. 2 /\ b \in 0 .. 2 /\ ((l > 0 <=> b > 0) \/ AtTheBound(raw))
  BY <1>0, SharesDiffer, BrowserShare, ServiceShare
<1>2. /\ p \in 0 .. 3
      /\ p = IF raw.pending >= 10 THEN 3 ELSE IF raw.pending >= 3 THEN 1 ELSE 0
  BY <1>0 DEF Pressure, RawChannel
<1>3. /\ f \in {0, 3} /\ t \in {0, 2} /\ u \in {0, 2} /\ u <= t
      /\ f = 0 \/ raw.failure
      /\ t = u \/ raw.state = "AwaitingChannelReady"
  BY <1>0 DEF LooksReady, RawChannel
<1> HIDE DEF l, b, p, f, t, u
<1>4. Verdict[raw] = Judged(m)
  BY DEF Verdict, Health, l, p, f, t
<1>5. BrowserVerdict[raw] = Judged(n)
  <2>1. {b, p, u} = {b, p, u, u}
    OBVIOUS
  <2>2. BrowserHealth(raw) = Judged(Max({b, p, u}))
    BY <1>2 DEF BrowserHealth, b, u
  <2> QED BY <2>1, <2>2 DEF BrowserVerdict
<1>6. m \in {l, p, f, t} /\ m >= l /\ m >= p /\ m >= f /\ m >= t
  BY <1>1, <1>2, <1>3, MaxOfFour
<1>7. n \in {b, p, u} /\ n >= b /\ n >= p /\ n >= u
  BY <1>1, <1>2, <1>3, MaxOfFour
<1> HIDE DEF m, n
<1>8. /\ m \in 0 .. 3 /\ n \in 0 .. 3
      /\ m = 3 <=> p = 3 \/ f = 3
      /\ n = 3 <=> p = 3
      /\ m = 0 <=> l = 0 /\ p = 0 /\ f = 0 /\ t = 0
      /\ n = 0 <=> b = 0 /\ p = 0 /\ u = 0
  BY <1>1, <1>2, <1>3, <1>6, <1>7
<1>9. /\ Judged(m) = IF m = 0 THEN "HEALTHY" ELSE IF m = 3 THEN "CRITICAL" ELSE "WARNING"
      /\ Judged(n) = IF n = 0 THEN "HEALTHY" ELSE IF n = 3 THEN "CRITICAL" ELSE "WARNING"
  BY <1>8 DEF Judged
<1>10. CASE f = 3
  BY <1>3, <1>4, <1>5, <1>8, <1>9, <1>10 DEF DiffersAsKnown
<1>11. CASE f = 0 /\ p = 3
  BY <1>4, <1>5, <1>8, <1>9, <1>11 DEF DiffersAsKnown
<1>12. CASE f = 0 /\ p # 3 /\ (l > 0 <=> b > 0)
  BY <1>1, <1>3, <1>4, <1>5, <1>8, <1>9, <1>12 DEF DiffersAsKnown
<1>13. CASE f = 0 /\ p # 3 /\ AtTheBound(raw)
  BY <1>3, <1>4, <1>5, <1>8, <1>9, <1>13 DEF DiffersAsKnown
<1> QED BY <1>1, <1>3, <1>10, <1>11, <1>12, <1>13

-----------------------------------------------------------------------------
(* The theorems.                                                           *)

\* Tables and requests keep their types.
THEOREM ReconciliationsTyped == Spec => []TypeOK
<1>1. IInv => TypeOK
  BY DEF IInv
<1> QED BY <1>1, InitInv, NextInv, PTL DEF Spec

\* A request that no other one overlapped leaves its verdict in both tables, however many
\* requests overlapped or failed before.
THEOREM LoneRunsSettle == Spec => []LoneRunSettles
<1>1. IInv => LoneRunSettles
  <2> SUFFICES ASSUME IInv, NEW r \in alone, requests[r].phase = "done"
               PROVE  /\ Open <=> Contradicts(requests[r].answers)
                      /\ Open <=> run # "INFO"
                      /\ Open => incident.severity = run
    BY DEF LoneRunSettles
  <2>1. requests[r].answers \in Statuses
    BY DEF IInv, TypeOK, Request
  <2> QED BY <2>1, VerdictIsContradiction DEF IInv, Written
<1> QED BY <1>1, InitInv, NextInv, PTL DEF Spec

\* A mismatch is closed only by a request that did not see it.
THEOREM MismatchesAreSeen == Spec => MismatchesStayReported
<1> DEFINE Sees(r) ==
      Open /\ ~Open' /\ requests'[r] # requests[r] /\ Contradicts(status) =>
        requests[r].answers # status
<1>1. ASSUME IInv, Next, NEW r \in Requests PROVE Sees(r)
  <2> SUFFICES ASSUME Open, ~Open', requests'[r] # requests[r], Contradicts(status),
                      requests[r].answers = status
               PROVE  FALSE
    OBVIOUS
  <2>1. PICK o \in Requests : WriteIncident(o)
    BY <1>1 DEF Next, Moves, reconcile, Answered, InsertRun, Fail, Open
  <2>2. o = r
    BY <2>1, <1>1 DEF WriteIncident, IInv, TypeOK
  <2>3. /\ reconcile_states(requests[r].answers) \in Severities
        /\ reconcile_states(requests[r].answers) # "INFO"
    BY <1>1, VerdictIsContradiction DEF IInv, TypeOK
  <2>4. incident' = Upsert(reconcile_states(requests[r].answers))
    BY <2>1, <2>2, <2>3 DEF WriteIncident
  <2> QED BY <2>3, <2>4, UpsertOpens DEF Open
<1>2. IInv /\ [Next]_vars => [\A r \in Requests : Sees(r)]_vars
  BY <1>1
<1> QED BY <1>2, InitInv, NextInv, PTL DEF Spec, MismatchesStayReported

\* FiberOps takes the steps of its parts and no others.
LEMMA OpsAreSteps ==
  /\ OpsInit => Init /\ C!Init
  /\ [OpsNext]_<<route, scans, vars>> => [Next]_vars /\ [C!Next]_scans
BY DEF OpsInit, OpsNext

\* A scan that nothing overlapped leaves its verdict of every channel it listed in both
\* tables, whatever scans overlapped or failed before.
THEOREM LoneScansSettle == OpsSpec => []LoneScanSettles
<1>1. ScansInv => LoneScanSettles
  BY NothingFits DEF ScansInv, LoneScanSettles, C!LoneScanSettles, WorkOK, LoneOK
<1> QED BY <1>1, OpsAreSteps, ScansInit, ScansNext, PTL DEF OpsSpec

\* The verdicts of the portal and of the service, for every precision of the float: on a
\* channel they differ only where rounding cannot tell the share from 30 %, or because
\* the portal reads less and is milder; and the portal finds a payment consistent that the
\* service does not only if both sides have ended.
THEOREM PortalJudgesAsKnown == OpsSpec => []PortalIsKnown
<1>1. ScansInv => \A c \in Channels : node[c] # None => DiffersAsKnown(node[c])
  BY PortalVerdict DEF ScansInv, C!TypeOK
<1>2. IInv => PortalComparesStages
  <2> SUFFICES ASSUME IInv PROVE PortalComparesStages
    OBVIOUS
  <2> DEFINE here == [status EXCEPT !.cch = None]
  <2>1. /\ here \in Statuses /\ here.cch = None
        /\ here.invoice = status.invoice /\ here.payment = status.payment
    BY DEF IInv, TypeOK, Statuses
  <2> HIDE DEF here
  <2>2. ASSUME BrowserConsistent(here), reconcile_states(here) # "INFO"
        PROVE  here.invoice \in Ended /\ here.payment \in Ended
    BY <2>1, <2>2, ReconciliationAssumption
    DEF BrowserConsistent, reconcile_states, Ended, Statuses
  <2> QED BY <2>1, <2>2 DEF PortalComparesStages, here
<1>3. IInv /\ ScansInv => PortalIsKnown
  BY <1>1, <1>2 DEF PortalIsKnown
<1> QED BY <1>3, OpsAreSteps, ScansInit, ScansNext, InitInv, NextInv, PTL DEF OpsSpec
=============================================================================
