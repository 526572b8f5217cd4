---------------------------- MODULE ChannelHealth ----------------------------
(***************************************************************************)
(* FiberOps watches the channels of a Fiber node.  analyze_channels lists  *)
(* the open channels, judges each one, and writes for each, one statement  *)
(* after the other, its row of fiber_channel_snapshots and its row of      *)
(* fiber_incidents.  The native worker scans in a loop, and every          *)
(* GET /fiber-ops/channels/health scans as well, at the same time.         *)
(*                                                                         *)
(* The node is external: channels open, change and close.                  *)
(***************************************************************************)
EXTENDS FiniteSets, Integers

CONSTANTS
  Channels,
  Readings,      \* what the node may say of a channel
  Verdict,       \* the verdict on each reading (ChannelVerdicts)
  Requests,      \* requests for the health of the channels
  Worker,        \* the native polling worker
  MaxMoves,      \* bound: how often the channels change
  MaxFailures,   \* bound: how many scans of the worker fail
  None

Healths == {"HEALTHY", "WARNING", "CRITICAL"}

\* None is no reading, no channel and no verdict.
ChannelAssumption ==
  /\ Verdict \in [Readings -> Healths]
  /\ Worker \notin Requests
  /\ None \notin Readings /\ None \notin Channels /\ None \notin Healths
  /\ MaxMoves \in Nat /\ MaxFailures \in Nat

VARIABLES
  node,        \* node[c]: what the node says of c, None when it does not list c
  snapshots,   \* fiber_channel_snapshots: the health in the row of c, or None
  incidents,   \* fiber_incidents: the row "channel-health:c", or None
  scan,        \* scan[s]: the state of the scanner s
  watch,       \* history: what happened around the scan of s
  moves, failures

vars == <<node, snapshots, incidents, scan, watch, moves, failures>>

-----------------------------------------------------------------------------
Incident == [status : {"OPEN", "RESOLVED"}, severity : {"WARNING", "CRITICAL"}]

Scanners == Requests \cup {Worker}

\* list: the channels still to be written, with their verdicts; at: the channel
\* whose snapshot is written and whose incident is not.
Scan ==
  [phase : {"idle", "write", "done"}, list : [Channels -> Healths \cup {None}],
   at : Channels \cup {None}]

Nothing == [c \in Channels |-> None]

\* listed: what a scan that has written everything has listed.
Watch == [listed : [Channels -> Healths \cup {None}], alone : BOOLEAN]

TypeOK ==
  /\ node \in [Channels -> Readings \cup {None}]
  /\ snapshots \in [Channels -> Healths \cup {None}]
  /\ incidents \in [Channels -> Incident \cup {None}]
  /\ scan \in [Scanners -> Scan]
  /\ watch \in [Scanners -> Watch]
  /\ moves \in 0 .. MaxMoves /\ failures \in 0 .. MaxFailures

Working(s) == scan[s].phase = "write"

Init ==
  /\ node \in [Channels -> Readings \cup {None}]
  /\ snapshots = Nothing
  /\ incidents = Nothing
  /\ scan = [s \in Scanners |-> [phase |-> "idle", list |-> Nothing, at |-> None]]
  /\ watch = [s \in Scanners |-> [listed |-> Nothing, alone |-> FALSE]]
  /\ moves = 0 /\ failures = 0

\* A channel opens, changes, or closes and is listed no more.
NodeMoves(c) ==
  /\ moves < MaxMoves
  /\ \E raw \in (Readings \cup {None}) \ {node[c]} : node' = [node EXCEPT ![c] = raw]
  /\ moves' = moves + 1
  /\ UNCHANGED <<snapshots, incidents, scan, watch, failures>>

\* The worker sleeps and starts over; a request is answered.
Over(s) ==
  [phase |-> IF s = Worker THEN "idle" ELSE "done", list |-> Nothing, at |-> None]

\* list_channels(false) answers; the verdicts are those of this moment.
List(s) ==
  LET listed == [c \in Channels |-> IF node[c] = None THEN None ELSE Verdict[node[c]]] IN
  /\ scan[s].phase = "idle"
  /\ scan' = [scan EXCEPT ![s] =
       IF listed = Nothing THEN Over(s) ELSE [phase |-> "write", list |-> listed, at |-> None]]
  /\ watch' = [t \in Scanners |->
       IF t = s THEN [listed |-> listed, alone |-> \A u \in Scanners : ~Working(u)]
       ELSE [watch[t] EXCEPT !.alone = FALSE]]
  /\ UNCHANGED <<node, snapshots, incidents, moves, failures>>

WriteSnapshot(s, c) ==
  /\ Working(s) /\ scan[s].at = None /\ scan[s].list[c] # None
  /\ snapshots' = [snapshots EXCEPT ![c] = scan[s].list[c]]
  /\ scan' = [scan EXCEPT ![s].at = c]
  /\ UNCHANGED <<node, incidents, watch, moves, failures>>

\* resolve_incident: only an open incident is resolved.
Resolve(c) ==
  IF incidents[c] # None /\ incidents[c].status = "OPEN"
  THEN [incidents EXCEPT ![c].status = "RESOLVED"]
  ELSE incidents

\* Mutant: ON CONFLICT leaves the severity of the first report.
MutantUpsert(c, severity) ==
  [incidents EXCEPT ![c] =
    [status |-> "OPEN", severity |-> IF @ = None THEN severity ELSE @.severity]]

\* upsert_incident: a resolved incident is open again.
Upsert(c, severity) == [incidents EXCEPT ![c] = [status |-> "OPEN", severity |-> severity]]

\* Mutant: the loop never comes to the incident of the last channel.
MutantNextChannel(s, rest) ==
  IF Cardinality({c \in Channels : rest[c] # None}) <= 1 THEN Over(s)
  ELSE [phase |-> "write", list |-> rest, at |-> None]

\* The scan goes on with the channels that are left.
NextChannel(s, rest) ==
  IF rest = Nothing THEN Over(s) ELSE [phase |-> "write", list |-> rest, at |-> None]

\* sync_channel_incident.
WriteIncident(s) ==
  LET c == scan[s].at
      health == scan[s].list[c]
  IN
  /\ Working(s) /\ c # None
  /\ incidents' = IF health = "HEALTHY" THEN Resolve(c) ELSE Upsert(c, health)
  /\ scan' = [scan EXCEPT ![s] = NextChannel(s, [scan[s].list EXCEPT ![c] = None])]
  /\ UNCHANGED <<node, snapshots, watch, moves, failures>>

\* The node does not answer, a statement fails, or the caller or the process is
\* gone: the channels that are left are not written.
Fail(s) ==
  /\ scan[s].phase \in {"idle", "write"}
  /\ s = Worker => failures < MaxFailures
  /\ failures' = IF s = Worker THEN failures + 1 ELSE failures
  /\ scan' = [scan EXCEPT ![s] = Over(s)]
  /\ watch' = [watch EXCEPT ![s].alone = FALSE]
  /\ UNCHANGED <<node, snapshots, incidents, moves>>

Step(s) == List(s) \/ (\E c \in Channels : WriteSnapshot(s, c)) \/ WriteIncident(s)

Next ==
  \/ \E c \in Channels : NodeMoves(c)
  \/ \E s \in Scanners : Step(s) \/ Fail(s)

\* The worker's loop has no exit: tokio polls it on, its sleep ends, and every
\* RPC and statement answers or times out.
Spec == Init /\ [][Next]_vars /\ WF_vars(Step(Worker))

-----------------------------------------------------------------------------
(* Properties                                                              *)

\* What the tables say of c when it was judged `health`.
Settled(c, health) ==
  /\ snapshots[c] = health
  /\ IF health = "HEALTHY"
     THEN incidents[c] = None \/ incidents[c].status = "RESOLVED"
     ELSE incidents[c] = [status |-> "OPEN", severity |-> health]

(***************************************************************************)
(* When a scan that nothing overlapped has ended without an error, every   *)
(* channel it listed has the verdict it was given, in both tables: the     *)
(* snapshot and the incident of a channel do not disagree, whatever        *)
(* overlapping or failing scans left behind before.  (Every table and scan *)
(* has its type.)                                                          *)
(***************************************************************************)
LoneScanSettles ==
  /\ TypeOK
  /\ \A s \in Scanners :
       ~Working(s) /\ watch[s].alone =>
         \A c \in Channels : watch[s].listed[c] # None => Settled(c, watch[s].listed[c])

(***************************************************************************)
(* The worker repairs what late writes of overlapping scans and failed     *)
(* scans leave: once the node's channels stop changing, every channel it   *)
(* lists comes to have its verdict in both tables, for good.  Nothing is   *)
(* promised of a channel that has closed: its last verdict stays.          *)
(***************************************************************************)
WorkerHeals ==
  \A c \in Channels : <>[](node[c] # None => Settled(c, Verdict[node[c]]))

=============================================================================
