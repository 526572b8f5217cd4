------------------------- MODULE TransactionTracking -------------------------
(***************************************************************************)
(* Transaction tracking in the Rust service: track_transaction,            *)
(* transaction_status, transaction_events and dashboard all ask the CKB    *)
(* node for the status of a transaction and then write what it said into   *)
(* the transaction's row of tracked_transactions.                          *)
(*                                                                         *)
(* Between the question and the write the chain moves on and the other     *)
(* handlers write the same row: no write says which status it replaces,    *)
(* so an old answer can overwrite a newer one.                             *)
(*                                                                         *)
(* The chain is external.  It commits a transaction for good (no           *)
(* reorganisations); a rejected one may be sent again.  The three attempts *)
(* of an RPC call are one answer or one failure.  No wallet has more rows  *)
(* than the ten a dashboard lists.                                         *)
(***************************************************************************)
EXTENDS Integers

CONSTANTS
  Txs,        \* transaction hashes
  Wallets,
  Requests,   \* the requests to the service
  MaxPolls,   \* sse_max_polls
  None

ChainStatuses == {"unknown", "pending", "proposed", "committed", "rejected"}

Statuses == ChainStatuses \ {"unknown"}

Row == [wallet : Wallets, status : Statuses]

Kinds == {"track", "status", "stream", "dashboard"}

ASSUME TrackingAssumption ==
  /\ MaxPolls \in Nat \ {0}
  /\ None \notin Txs \cup Wallets \cup ChainStatuses \cup Kinds \cup Row

VARIABLES
  chain,     \* chain[t]: what the node answers about t
  refused,   \* history: the transactions the chain has rejected at some time
  rows,      \* tracked_transactions: rows[t] is a row, or None
  req,       \* req[r]: the state of the handler of r
  watch      \* history: what happened around the handler of r

vars == <<chain, refused, rows, req, watch>>

\* Mutant: what the node does not know is taken for rejected.
MutantNormalize(s) == IF s = "unknown" THEN "rejected" ELSE s

\* normalize_status: what the node does not know is pending.
Normalize(s) == IF s = "unknown" THEN "pending" ELSE s

\* is_final.
Final(s) == s \in {"committed", "rejected"}

\* seen: the answer to write; told: the status of the last event of a stream;
\* list: the rows a dashboard holds; todo: those it has still to ask about.
Request ==
  [phase : {"idle", "ask", "write", "answer", "done"}, kind : Kinds \cup {None},
   wallet : Wallets \cup {None}, tx : Txs \cup {None}, seen : Statuses \cup {None},
   told : Statuses \cup {None}, polls : 0 .. MaxPolls - 1,
   list : [Txs -> Statuses \cup {None}], todo : SUBSET Txs]

IdleRequest ==
  [phase |-> "idle", kind |-> None, wallet |-> None, tx |-> None, seen |-> None,
   told |-> None, polls |-> 0, list |-> [t \in Txs |-> None], todo |-> {}]

Over == [IdleRequest EXCEPT !.phase = "done"]

\* committed: what was committed when the handler began; moved: what the chain
\* changed since; failed: the node did not answer once; alone: no other handler
\* was at work meanwhile.
Watch ==
  [committed : SUBSET Txs, moved : SUBSET Txs, failed : BOOLEAN, alone : BOOLEAN]

NoWatch == [committed |-> {}, moved |-> {}, failed |-> FALSE, alone |-> TRUE]

TypeOK ==
  /\ chain \in [Txs -> ChainStatuses]
  /\ refused \subseteq Txs
  /\ rows \in [Txs -> Row \cup {None}]
  /\ req \in [Requests -> Request]
  /\ watch \in [Requests -> Watch]

Tracked(t) == rows[t] # None

Active(r) == req[r].phase \notin {"idle", "done"}

\* What can be said of a row however late its status was written.
Earned(t) ==
  Tracked(t) =>
    /\ rows[t].status = "committed" => chain[t] = "committed"
    /\ rows[t].status = "rejected" => t \in refused

\* The service starts, or starts again over the table an earlier one left.
Init ==
  /\ chain \in [Txs -> ChainStatuses]
  /\ refused \in SUBSET Txs
  /\ \A t \in Txs : chain[t] = "rejected" => t \in refused
  /\ rows \in [Txs -> Row \cup {None}]
  /\ \A t \in Txs : Earned(t)
  /\ req = [r \in Requests |-> IdleRequest]
  /\ watch = [r \in Requests |-> NoWatch]

-----------------------------------------------------------------------------
(* The chain.                                                              *)

ChainEdges ==
  {<<"unknown", "pending">>, <<"pending", "unknown">>, <<"pending", "proposed">>,
   <<"proposed", "pending">>, <<"proposed", "committed">>, <<"pending", "rejected">>,
   <<"proposed", "rejected">>, <<"rejected", "pending">>}

ChainMoves(t, s) ==
  /\ <<chain[t], s>> \in ChainEdges
  /\ chain' = [chain EXCEPT ![t] = s]
  /\ refused' = IF s = "rejected" THEN refused \cup {t} ELSE refused
  /\ watch' = [r \in Requests |->
       IF Active(r) THEN [watch[r] EXCEPT !.moved = @ \cup {t}] ELSE watch[r]]
  /\ UNCHANGED <<rows, req>>

-----------------------------------------------------------------------------
(* Requests arrive.                                                        *)

\* A request arrives as `fresh`.
Begin(r, fresh) ==
  /\ req[r].phase = "idle"
  /\ req' = [req EXCEPT ![r] = fresh]
  /\ watch' = [q \in Requests |->
       IF q = r
       THEN [committed |-> {t \in Txs : chain[t] = "committed"}, moved |-> {},
             failed |-> FALSE, alone |-> \A p \in Requests : ~Active(p)]
       ELSE IF Active(q) THEN [watch[q] EXCEPT !.alone = FALSE] ELSE watch[q]]
  /\ UNCHANGED <<chain, refused, rows>>

\* The token of the caller names the wallet of the request.
ReceiveTrack(r) ==
  \E t \in Txs, w \in Wallets :
    Begin(r, [IdleRequest EXCEPT !.phase = "ask", !.kind = "track", !.tx = t, !.wallet = w])

ReceiveStatus(r) ==
  \E t \in Txs : Begin(r, [IdleRequest EXCEPT !.phase = "ask", !.kind = "status", !.tx = t])

ReceiveStream(r) ==
  \E t \in Txs : Begin(r, [IdleRequest EXCEPT !.phase = "ask", !.kind = "stream", !.tx = t])

\* recent_by_wallet; rows that are final are not asked about again.
ReceiveDashboard(r) ==
  \E w \in Wallets :
    LET Mine == {t \in Txs : Tracked(t) /\ rows[t].wallet = w}
        Open == {t \in Mine : ~Final(rows[t].status)}
    IN Begin(r, [IdleRequest EXCEPT
         !.phase = IF Open = {} THEN "answer" ELSE "ask", !.kind = "dashboard", !.wallet = w,
         !.list = [t \in Txs |-> IF t \in Mine THEN rows[t].status ELSE None],
         !.todo = Open])

-----------------------------------------------------------------------------
(* The node answers, or does not.                                          *)

Asks(r, kind) == req[r].phase = "ask" /\ req[r].kind = kind

\* The history of a handler ends with it.
Note(r, failed) ==
  watch' = [watch EXCEPT ![r] =
    IF req'[r].phase = "done" THEN NoWatch
    ELSE IF failed THEN [@ EXCEPT !.failed = TRUE] ELSE @]

NodeAnswers(r) == Note(r, FALSE)
NodeFails(r) == Note(r, TRUE)

AskTrack(r) ==
  /\ Asks(r, "track")
  /\ req' = [req EXCEPT ![r].phase = "write", ![r].seen = Normalize(chain[req[r].tx])]
  /\ NodeAnswers(r)
  /\ UNCHANGED <<chain, refused, rows>>

\* A node that does not answer counts as "pending".
AskTrackFails(r) ==
  /\ Asks(r, "track")
  /\ req' = [req EXCEPT ![r].phase = "write", ![r].seen = "pending"]
  /\ NodeFails(r)
  /\ UNCHANGED <<chain, refused, rows>>

AskStatus(r) ==
  /\ Asks(r, "status")
  /\ req' = [req EXCEPT ![r].phase = "write", ![r].seen = Normalize(chain[req[r].tx])]
  /\ NodeAnswers(r)
  /\ UNCHANGED <<chain, refused, rows>>

\* Mutant: a node that does not answer counts as "pending" here too.
MutantAskStatusFails(r) ==
  /\ Asks(r, "status")
  /\ req' = [req EXCEPT ![r].phase = "write", ![r].seen = "pending"]
  /\ NodeFails(r)
  /\ UNCHANGED <<chain, refused, rows>>

AskStatusFails(r) ==
  /\ Asks(r, "status")
  /\ req' = [req EXCEPT ![r] = Over]
  /\ NodeFails(r)
  /\ UNCHANGED <<chain, refused, rows>>

\* Mutant: loop instead of for _ in 0..max_polls.
MutantSleep(r, told) ==
  req' = [req EXCEPT ![r].phase = "ask", ![r].seen = None, ![r].told = told]

\* The stream sleeps and polls again, unless this was its last poll.
Sleep(r, told) ==
  req' = [req EXCEPT ![r] =
    IF req[r].polls + 1 = MaxPolls THEN Over
    ELSE [req[r] EXCEPT !.phase = "ask", !.seen = None, !.told = told, !.polls = @ + 1]]

\* An answer that says nothing new and is not final is neither written nor told.
AskStream(r) ==
  LET s == Normalize(chain[req[r].tx]) IN
  /\ Asks(r, "stream")
  /\ \/ /\ s # req[r].told \/ Final(s)
        /\ req' = [req EXCEPT ![r].phase = "write", ![r].seen = s]
     \/ /\ s = req[r].told /\ ~Final(s)
        /\ Sleep(r, s)
  /\ NodeAnswers(r)
  /\ UNCHANGED <<chain, refused, rows>>

AskStreamFails(r) ==
  /\ Asks(r, "stream")
  /\ Sleep(r, req[r].told)
  /\ NodeFails(r)
  /\ UNCHANGED <<chain, refused, rows>>

\* The dashboard goes on with the row after t.
NextRow(r, t, status) ==
  LET rest == req[r].todo \ {t} IN
  req' = [req EXCEPT ![r] = [req[r] EXCEPT
    !.todo = rest, !.tx = None, !.seen = None, !.list = [@ EXCEPT ![t] = status],
    !.phase = IF rest = {} THEN "answer" ELSE "ask"]]

AskDashboard(r, t) ==
  LET s == Normalize(chain[t]) IN
  /\ Asks(r, "dashboard") /\ t \in req[r].todo
  /\ \/ /\ s # req[r].list[t]
        /\ req' = [req EXCEPT ![r].phase = "write", ![r].tx = t, ![r].seen = s]
     \/ /\ s = req[r].list[t]
        /\ NextRow(r, t, s)
  /\ NodeAnswers(r)
  /\ UNCHANGED <<chain, refused, rows>>

AskDashboardFails(r, t) ==
  /\ Asks(r, "dashboard") /\ t \in req[r].todo
  /\ NextRow(r, t, req[r].list[t])
  /\ NodeFails(r)
  /\ UNCHANGED <<chain, refused, rows>>

-----------------------------------------------------------------------------
(* The answer is written.                                                  *)

Writes(r, kind) == req[r].phase = "write" /\ req[r].kind = kind

\* upsert: a row that is there takes all columns of the request.
StoreTrack(r) ==
  /\ Writes(r, "track")
  /\ rows' = [rows EXCEPT ![req[r].tx] = [wallet |-> req[r].wallet, status |-> req[r].seen]]
  /\ req' = [req EXCEPT ![r] = Over]
  /\ Note(r, FALSE)
  /\ UNCHANGED <<chain, refused>>

\* update_status: no row, no effect.
UpdateStatus(r) ==
  LET t == req[r].tx IN
  rows' = IF Tracked(t) THEN [rows EXCEPT ![t].status = req[r].seen] ELSE rows

StoreStatus(r) ==
  /\ Writes(r, "status")
  /\ UpdateStatus(r)
  /\ req' = [req EXCEPT ![r] = Over]
  /\ Note(r, FALSE)
  /\ UNCHANGED <<chain, refused>>

\* That the update failed is ignored; the event follows, and a final one is the last.
StoreStream(r) ==
  /\ Writes(r, "stream")
  /\ UpdateStatus(r) \/ UNCHANGED rows
  /\ IF Final(req[r].seen) THEN req' = [req EXCEPT ![r] = Over] ELSE Sleep(r, req[r].seen)
  /\ Note(r, FALSE)
  /\ UNCHANGED <<chain, refused>>

\* Mutant: the row is updated, but the list keeps the old status.
MutantStoreDashboard(r) ==
  /\ Writes(r, "dashboard")
  /\ UpdateStatus(r)
  /\ NextRow(r, req[r].tx, req[r].list[req[r].tx])
  /\ Note(r, FALSE)
  /\ UNCHANGED <<chain, refused>>

StoreDashboard(r) ==
  /\ Writes(r, "dashboard")
  /\ UpdateStatus(r)
  /\ NextRow(r, req[r].tx, req[r].seen)
  /\ Note(r, FALSE)
  /\ UNCHANGED <<chain, refused>>

\* The count and the tip of the chain complete the answer.
AnswerDashboard(r) ==
  /\ req[r].phase = "answer"
  /\ req' = [req EXCEPT ![r] = Over]
  /\ Note(r, FALSE)
  /\ UNCHANGED <<chain, refused, rows>>

\* A statement fails, or the caller or the process is gone.
Abandon(r) ==
  /\ Active(r)
  /\ req' = [req EXCEPT ![r] = Over]
  /\ Note(r, FALSE)
  /\ UNCHANGED <<chain, refused, rows>>

Receive(r) == ReceiveTrack(r) \/ ReceiveStatus(r) \/ ReceiveStream(r) \/ ReceiveDashboard(r)

Ask(r) ==
  \/ AskTrack(r) \/ AskTrackFails(r) \/ AskStatus(r) \/ AskStatusFails(r)
  \/ AskStream(r) \/ AskStreamFails(r)
  \/ \E t \in Txs : AskDashboard(r, t) \/ AskDashboardFails(r, t)

Store(r) == StoreTrack(r) \/ StoreStatus(r) \/ StoreStream(r) \/ StoreDashboard(r)

Step(r) == Ask(r) \/ Store(r) \/ AnswerDashboard(r)

Next ==
  \/ \E t \in Txs, s \in ChainStatuses : ChainMoves(t, s)
  \/ \E r \in Requests : Receive(r) \/ Step(r) \/ Abandon(r)

\* tokio polls every task that can make progress, an RPC call is given up after
\* three attempts with a timeout each, and a stream's sleep ends.
Spec == Init /\ [][Next]_vars /\ \A r \in Requests : WF_vars(Step(r))

-----------------------------------------------------------------------------
(* Properties                                                              *)

(***************************************************************************)
(* A row that is final, which no dashboard asks about again, is right: the *)
(* chain committed what the row calls committed, and has at some time      *)
(* rejected what it calls rejected, however late the row was written.      *)
(* (Every table and handler has its type.)                                 *)
(***************************************************************************)
FinalRowsAreEarned == TypeOK /\ \A t \in Txs : Earned(t)

(***************************************************************************)
(* A committed row becomes something else only by a late answer: one of a  *)
(* handler that began before the commit, or a track the node did not       *)
(* answer.  Every other handler leaves it alone.                           *)
(***************************************************************************)
OnlyLateAnswersReopen ==
  [][\A t \in Txs :
       Tracked(t) /\ rows[t].status = "committed" /\ rows'[t].status # "committed" =>
         \E r \in Requests :
           /\ req[r].phase = "write" /\ req[r].tx = t
           /\ \/ t \notin watch[r].committed
              \/ req[r].kind = "track" /\ watch[r].failed]_rows

(***************************************************************************)
(* A dashboard whose questions were answered and which no other handler    *)
(* overlapped repairs what late answers left behind: it answers with, and  *)
(* leaves in the table, the status of every listed transaction that did    *)
(* not move meanwhile.  One the chain rejected may still be shown rejected.*)
(***************************************************************************)
DashboardRepairs ==
  \A r \in Requests :
    req[r].phase = "answer" /\ watch[r].alone /\ ~watch[r].failed =>
      \A t \in Txs \ watch[r].moved :
        req[r].list[t] # None =>
          /\ rows[t].status = req[r].list[t]
          /\ \/ req[r].list[t] = Normalize(chain[t])
             \/ req[r].list[t] = "rejected" /\ t \in refused

(***************************************************************************)
(* Every request ends, streams included: sse_max_polls bounds a stream     *)
(* whose transaction never gets final or whose node never answers.         *)
(***************************************************************************)
RequestsEnd == \A r \in Requests : Active(r) ~> req[r].phase = "done"
=============================================================================
