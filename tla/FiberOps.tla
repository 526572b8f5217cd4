------------------------------ MODULE FiberOps ------------------------------
(***************************************************************************)
(* The two parts of FiberOps that open incidents, one at a time: the scans *)
(* of the channels and the reconciliation of a payment.  The state is that *)
(* of the part that runs; the other stays where it began.                  *)
(***************************************************************************)
EXTENDS Reconciliation, ChannelVerdicts

CONSTANTS
  Channels, Callers, Worker,   \* the scans; Callers are the requests among them
  MaxChanges, MaxFailures                \* bounds of the scans

VARIABLES route, node, snapshots, incidents, scan, watch, changes, failures

C == INSTANCE ChannelHealth
       WITH Requests <- Callers, MaxMoves <- MaxChanges, moves <- changes

ASSUME VerdictsFit == VerdictAssumption

ASSUME ChannelsFit == C!ChannelAssumption

scans == <<node, snapshots, incidents, scan, watch, changes, failures>>

OpsInit ==
  /\ route \in {"channels", "payment"}
  /\ C!Init /\ Init
  /\ route # "channels" => node = C!Nothing
  /\ route # "payment" => status = [invoice |-> "Open", payment |-> "Inflight", cch |-> None]

OpsNext ==
  \/ /\ route = "channels" /\ C!Next
     /\ UNCHANGED <<route, vars>>
  \/ /\ route = "payment" /\ Next
     /\ UNCHANGED <<route, scans>>

OpsSpec ==
  /\ OpsInit
  /\ [][OpsNext]_<<route, scans, vars>>
  /\ WF_scans(route = "channels" /\ C!Step(Worker))

-----------------------------------------------------------------------------

\* A scan that was alone leaves its verdicts in both tables.
LoneScanSettles == route = "channels" => C!LoneScanSettles

\* The worker repairs what other scans and failures leave.
WorkerHeals == C!WorkerHeals

\* Where the verdicts of the portal are not those of the service.
PortalIsKnown ==
  /\ \A c \in Channels : node[c] # None => DiffersAsKnown(node[c])
  /\ PortalComparesStages
=============================================================================
