--------------------- MODULE TransactionTracking_proofs ---------------------
(***************************************************************************)
(* The safety properties of TransactionTracking, for any number of         *)
(* transactions, wallets and requests, and any bound on the polls.         *)
(*                                                                         *)
(* A handler writes what the node said some time ago.  What is still true  *)
(* of it then is what the chain never takes back: that a transaction is    *)
(* committed, and that it was once rejected.  What the history of the      *)
(* handler excludes, a move of the chain or another handler, gives the     *)
(* rest.                                                                   *)
(***************************************************************************)
EXTENDS TransactionTracking, TLAPS

\* What an answer says of t however late it is looked at.
Known(t, s) ==
  /\ s = "committed" => chain[t] = "committed"
  /\ s = "rejected" => t \in refused

ChainOK == \A t \in Txs : Known(t, chain[t]) /\ Earned(t)

\* What the handler of r holds.
HandlerOK(r) ==
  LET q == req[r] IN
  /\ Active(r) <=> q.kind # None
  /\ q.phase \in {"ask", "write"} /\ q.kind # "dashboard" => q.tx \in Txs
  /\ q.phase \in {"ask", "write"} /\ q.kind = "track" => q.wallet \in Wallets
  /\ q.phase = "write" => q.tx \in Txs /\ q.seen \in Statuses /\ Known(q.tx, q.seen)
  /\ q.phase = "write" /\ q.kind = "dashboard" => q.tx \in q.todo
  /\ q.phase = "answer" => q.kind = "dashboard" /\ q.todo = {}
  /\ \A t \in Txs : q.list[t] # None => Known(t, q.list[t])
  /\ \A t \in q.todo : q.list[t] # None

\* A transaction that was committed when the handler began is answered for.
LateOK(r) ==
  Active(r) =>
    /\ \A t \in watch[r].committed : chain[t] = "committed"
    /\ req[r].phase = "write" /\ req[r].tx \in watch[r].committed =>
         req[r].seen = "committed" \/ (req[r].kind = "track" /\ watch[r].failed)

\* A dashboard that is alone holds what the table holds, and once it has asked, what
\* the chain says.
AloneOK(r) ==
  Active(r) /\ watch[r].alone =>
    /\ \A q \in Requests : Active(q) => q = r
    /\ req[r].kind = "dashboard" =>
         \A t \in Txs : req[r].list[t] # None => Tracked(t) /\ rows[t].status = req[r].list[t]

Told(t, s) == s = Normalize(chain[t]) \/ (s = "rejected" /\ t \in refused)

FreshOK(r) ==
  req[r].kind = "dashboard" /\ ~watch[r].failed =>
    \A t \in Txs \ watch[r].moved :
      /\ req[r].list[t] # None /\ t \notin req[r].todo => Told(t, req[r].list[t])
      /\ req[r].phase = "write" /\ req[r].tx = t => Told(t, req[r].seen)

IInv ==
  /\ TypeOK
  /\ ChainOK
  /\ \A r \in Requests : HandlerOK(r)
  /\ \A r \in Requests : LateOK(r)
  /\ \A r \in Requests : AloneOK(r)
  /\ \A r \in Requests : FreshOK(r)

-----------------------------------------------------------------------------
\* What is known of a transaction, an answer of the node says.
LEMMA AnswersAreKnown ==
  ASSUME TypeOK, ChainOK, NEW t \in Txs
  PROVE  /\ Normalize(chain[t]) \in Statuses /\ Known(t, Normalize(chain[t]))
         /\ chain[t] = "committed" => Normalize(chain[t]) = "committed"
BY DEF TypeOK, ChainOK, Known, Normalize, ChainStatuses, Statuses

LEMMA IdleTypes ==
  /\ IdleRequest \in Request /\ IdleRequest.phase = "idle" /\ IdleRequest.kind = None
  /\ Over \in Request /\ Over.phase = "done" /\ Over.kind = None
  /\ \A t \in Txs : IdleRequest.list[t] = None /\ Over.list[t] = None
  /\ IdleRequest.todo = {} /\ Over.todo = {} /\ NoWatch \in Watch
<1>1. 0 \in 0 .. MaxPolls - 1
  BY TrackingAssumption
<1>2. IdleRequest \in Request
  BY <1>1 DEF IdleRequest, Request
<1>3. /\ Over \in Request /\ Over.phase = "done" /\ Over.kind = None /\ Over.todo = {}
      /\ Over.list = IdleRequest.list
  BY <1>2 DEF Over, IdleRequest, Request
<1> QED BY <1>2, <1>3 DEF IdleRequest, NoWatch, Watch

LEMMA InitInv == Init => IInv
<1> SUFFICES ASSUME Init PROVE IInv
  OBVIOUS
<1>1. TypeOK
  BY IdleTypes DEF Init, TypeOK
<1>2. ChainOK
  BY DEF Init, ChainOK, Known
<1>3. \A r \in Requests : req[r] = IdleRequest /\ ~Active(r)
  BY IdleTypes DEF Init, Active
<1>4. \A r \in Requests : HandlerOK(r) /\ LateOK(r) /\ AloneOK(r) /\ FreshOK(r)
  BY <1>3, IdleTypes, TrackingAssumption DEF HandlerOK, LateOK, AloneOK, FreshOK, Kinds
<1> QED BY <1>1, <1>2, <1>4 DEF IInv

\* The chain takes nothing back that is known.
LEMMA ChainMovesInv ==
  ASSUME IInv, NEW t \in Txs, NEW s \in ChainStatuses, ChainMoves(t, s)
  PROVE  IInv'
<1>1. /\ TypeOK /\ ChainOK /\ chain[t] # "committed" /\ UNCHANGED <<rows, req>>
      /\ chain' = [chain EXCEPT ![t] = s] /\ chain'[t] = s
      /\ \A u \in Txs \ {t} : chain'[u] = chain[u]
      /\ refused \subseteq refused' /\ refused' \subseteq Txs
      /\ s = "rejected" => t \in refused'
  BY DEF ChainMoves, ChainEdges, IInv, TypeOK
<1>2. \A u \in Txs : \A v : Known(u, v) => Known(u, v)'
  BY <1>1 DEF Known
<1>3. /\ watch' \in [Requests -> Watch]
      /\ \A r \in Requests :
           /\ watch'[r].committed = watch[r].committed /\ watch'[r].failed = watch[r].failed
           /\ watch'[r].alone = watch[r].alone
           /\ watch[r].moved \subseteq watch'[r].moved
           /\ Active(r) => t \in watch'[r].moved
  <2>1. \A r \in Requests : watch[r] \in Watch
    BY <1>1 DEF TypeOK
  <2>2. watch' = [r \in Requests |->
          IF Active(r) THEN [watch[r] EXCEPT !.moved = @ \cup {t}] ELSE watch[r]]
    BY DEF ChainMoves
  <2> QED BY <2>1, <2>2 DEF Watch
<1>4. TypeOK'
  BY <1>1, <1>3 DEF TypeOK
<1>5. ChainOK'
  BY <1>1, <1>2 DEF ChainOK, Known, Earned, Tracked
<1>6. ASSUME NEW r \in Requests PROVE HandlerOK(r)'
  <2>1. HandlerOK(r) /\ req[r] \in Request
    BY <1>1 DEF IInv, TypeOK
  <2> QED BY <1>1, <1>2, <2>1 DEF HandlerOK, Active
<1>7. ASSUME NEW r \in Requests PROVE LateOK(r)'
  <2>1. LateOK(r) /\ watch[r].committed \subseteq Txs
    BY <1>1 DEF IInv, TypeOK, Watch
  <2> QED BY <1>1, <1>3, <2>1 DEF LateOK, Active
<1>8. ASSUME NEW r \in Requests PROVE AloneOK(r)'
  BY <1>1, <1>3 DEF IInv, AloneOK, Active, Tracked
<1>9. ASSUME NEW r \in Requests PROVE FreshOK(r)'
  <2>1. FreshOK(r) /\ HandlerOK(r)
    BY DEF IInv
  <2>2. req[r].kind = "dashboard" => Active(r)
    BY <2>1, TrackingAssumption DEF HandlerOK, Kinds
  <2>3. \A u \in Txs \ {t} : \A v : Told(u, v) => Told(u, v)'
    BY <1>1 DEF Told
  <2> QED BY <1>1, <1>3, <2>1, <2>2, <2>3 DEF FreshOK
<1> QED BY <1>4, <1>5, <1>6, <1>7, <1>8, <1>9 DEF IInv

-----------------------------------------------------------------------------
LEMMA BeginInv ==
  ASSUME IInv, NEW r \in Requests, NEW fresh \in Request, Begin(r, fresh),
         fresh.kind \in Kinds, fresh.phase \in {"ask", "answer"},
         fresh.kind # "dashboard" => fresh.phase = "ask" /\ fresh.tx \in Txs,
         fresh.kind = "track" => fresh.wallet \in Wallets,
         fresh.phase = "answer" => fresh.todo = {},
         \A t \in Txs : fresh.list[t] # None =>
           Tracked(t) /\ rows[t].status = fresh.list[t] /\ (t \notin fresh.todo => Final(fresh.list[t])),
         \A t \in fresh.todo : fresh.list[t] # None
  PROVE  IInv'
<1>1. TypeOK /\ ChainOK /\ UNCHANGED <<chain, refused, rows>>
  BY DEF IInv, Begin
<1>2. /\ req' \in [Requests -> Request] /\ req'[r] = fresh /\ ~Active(r)
      /\ \A q \in Requests \ {r} : req'[q] = req[q] /\ (Active(q)' <=> Active(q))
  BY <1>1 DEF Begin, Active, TypeOK
<1>3. /\ watch' \in [Requests -> Watch]
      /\ watch'[r].committed = {t \in Txs : chain[t] = "committed"}
      /\ watch'[r].alone => \A q \in Requests : ~Active(q)
      /\ \A q \in Requests \ {r} :
           /\ watch'[q].committed = watch[q].committed /\ watch'[q].failed = watch[q].failed
           /\ watch'[q].moved = watch[q].moved
           /\ Active(q) => ~watch'[q].alone
  <2>1. \A q \in Requests : watch[q] \in Watch
    BY <1>1 DEF TypeOK
  <2> DEFINE new == [committed |-> {t \in Txs : chain[t] = "committed"}, moved |-> {},
                     failed |-> FALSE, alone |-> \A p \in Requests : ~Active(p)]
  <2>2. /\ new \in Watch /\ new.committed = {t \in Txs : chain[t] = "committed"}
        /\ new.alone = \A p \in Requests : ~Active(p)
    BY DEF Watch
  <2>3. watch' = [q \in Requests |->
          IF q = r THEN new ELSE IF Active(q) THEN [watch[q] EXCEPT !.alone = FALSE] ELSE watch[q]]
    BY DEF Begin
  <2> HIDE DEF new
  <2>4. watch'[r] = new
    BY <2>3
  <2>5. \A q \in Requests \ {r} :
           /\ watch'[q] \in Watch
           /\ watch'[q].committed = watch[q].committed /\ watch'[q].failed = watch[q].failed
           /\ watch'[q].moved = watch[q].moved
           /\ Active(q) => ~watch'[q].alone
    BY <2>1, <2>3 DEF Watch
  <2> QED BY <2>2, <2>3, <2>4, <2>5
<1>4. TypeOK' /\ ChainOK'
  BY <1>1, <1>2, <1>3 DEF TypeOK, ChainOK, Known, Earned, Tracked
<1>5. fresh.kind # None /\ fresh.todo \subseteq Txs
  BY TrackingAssumption DEF Kinds, Request
<1>6. \A t \in Txs : fresh.list[t] # None => Known(t, fresh.list[t])
  BY <1>1 DEF ChainOK, Earned, Known
<1>7. HandlerOK(r)'
  BY <1>1, <1>2, <1>5, <1>6 DEF HandlerOK, Known, Active
<1>8. LateOK(r)'
  BY <1>1, <1>2, <1>3 DEF LateOK
<1>9. AloneOK(r)'
  BY <1>1, <1>2, <1>3 DEF AloneOK, Tracked
<1>10. FreshOK(r)'
  <2>1. \A t \in Txs : fresh.list[t] # None /\ t \notin fresh.todo => Told(t, fresh.list[t])
    BY <1>1, <1>6 DEF Told, Known, Final, Normalize
  <2> QED BY <1>1, <1>2, <2>1 DEF FreshOK, Told
<1>11. ASSUME NEW q \in Requests \ {r} PROVE HandlerOK(q)' /\ LateOK(q)' /\ AloneOK(q)' /\ FreshOK(q)'
  <2>1. HandlerOK(q)'
    BY <1>1, <1>2 DEF IInv, HandlerOK, Known, Active
  <2>2. LateOK(q)'
    BY <1>1, <1>2, <1>3 DEF IInv, LateOK
  <2>3. AloneOK(q)'
    BY <1>2, <1>3 DEF AloneOK
  <2>4. FreshOK(q)'
    BY <1>1, <1>2, <1>3, SMTT(60) DEF IInv, FreshOK, Told
  <2> QED BY <2>1, <2>2, <2>3, <2>4
<1> QED BY <1>4, <1>7, <1>8, <1>9, <1>10, <1>11 DEF IInv

LEMMA ReceiveInv == ASSUME IInv, NEW r \in Requests, Receive(r) PROVE IInv'
<1> USE DEF Kinds
<1>1. \A t \in Txs : IdleRequest.list[t] = None
  BY IdleTypes
<1>2. ASSUME NEW t \in Txs, NEW w \in Wallets,
             Begin(r, [IdleRequest EXCEPT !.phase = "ask", !.kind = "track", !.tx = t, !.wallet = w])
      PROVE  IInv'
  <2> DEFINE fresh == [IdleRequest EXCEPT !.phase = "ask", !.kind = "track", !.tx = t, !.wallet = w]
  <2>1. /\ fresh \in Request /\ fresh.kind = "track" /\ fresh.phase = "ask" /\ fresh.tx = t
        /\ fresh.wallet = w /\ fresh.list = IdleRequest.list /\ fresh.todo = {}
    BY IdleTypes DEF Request
  <2> HIDE DEF fresh
  <2>2. Begin(r, fresh)
    BY <1>2 DEF fresh
  <2> QED BY <1>1, <2>1, <2>2, BeginInv
<1>3. ASSUME NEW t \in Txs, NEW kind \in {"status", "stream"},
             Begin(r, [IdleRequest EXCEPT !.phase = "ask", !.kind = kind, !.tx = t])
      PROVE  IInv'
  <2> DEFINE fresh == [IdleRequest EXCEPT !.phase = "ask", !.kind = kind, !.tx = t]
  <2>1. /\ fresh \in Request /\ fresh.kind = kind /\ fresh.phase = "ask" /\ fresh.tx = t
        /\ fresh.list = IdleRequest.list /\ fresh.todo = {}
    BY IdleTypes DEF Request
  <2> HIDE DEF fresh
  <2>2. Begin(r, fresh)
    BY <1>3 DEF fresh
  <2> QED BY <1>1, <2>1, <2>2, BeginInv
<1>4. ASSUME ReceiveDashboard(r) PROVE IInv'
  <2>1. PICK w \in Wallets :
          LET Mine == {t \in Txs : Tracked(t) /\ rows[t].wallet = w}
              Open == {t \in Mine : ~Final(rows[t].status)}
          IN Begin(r, [IdleRequest EXCEPT
               !.phase = IF Open = {} THEN "answer" ELSE "ask", !.kind = "dashboard",
               !.wallet = w,
               !.list = [t \in Txs |-> IF t \in Mine THEN rows[t].status ELSE None],
               !.todo = Open])
    BY <1>4 DEF ReceiveDashboard
  <2> DEFINE Mine == {t \in Txs : Tracked(t) /\ rows[t].wallet = w}
             Open == {t \in Mine : ~Final(rows[t].status)}
             phase == IF Open = {} THEN "answer" ELSE "ask"
             list == [t \in Txs |-> IF t \in Mine THEN rows[t].status ELSE None]
             fresh == [IdleRequest EXCEPT !.phase = phase, !.kind = "dashboard",
                                          !.wallet = w, !.list = list, !.todo = Open]
  <2>2. Begin(r, fresh)
    BY <2>1
  <2>3. \A t \in Mine : t \in Txs /\ Tracked(t) /\ rows[t].status \in Statuses /\ list[t] = rows[t].status
    BY DEF IInv, TypeOK, Tracked, Row
  <2>4. /\ list \in [Txs -> Statuses \cup {None}]
        /\ \A t \in Txs : list[t] # None => t \in Mine
    BY <2>3
  <2>5. \A t \in Open : list[t] # None
    BY <2>3, TrackingAssumption DEF Statuses
  <2>6. \A t \in Mine \ Open : Final(list[t])
    BY <2>3
  <2>7. Open \subseteq Txs /\ phase \in {"ask", "answer"} /\ (phase = "answer" => Open = {})
    OBVIOUS
  <2> HIDE DEF Mine, Open, phase, list
  <2>8. /\ fresh \in Request /\ fresh.kind = "dashboard" /\ fresh.phase = phase
        /\ fresh.list = list /\ fresh.todo = Open
    BY <2>4, <2>7, IdleTypes DEF Request
  <2> HIDE DEF fresh
  <2> QED BY <2>2, <2>3, <2>4, <2>5, <2>6, <2>7, <2>8, BeginInv
<1> QED BY <1>2, <1>3, <1>4 DEF Receive, ReceiveTrack, ReceiveStatus, ReceiveStream

-----------------------------------------------------------------------------
LEMMA NoteStep ==
  ASSUME TypeOK, NEW r \in Requests, NEW failed \in BOOLEAN, Note(r, failed)
  PROVE  /\ watch' \in [Requests -> Watch]
         /\ \A q \in Requests \ {r} : watch'[q] = watch[q]
         /\ req'[r].phase # "done" =>
              /\ watch'[r].committed = watch[r].committed /\ watch'[r].moved = watch[r].moved
              /\ watch'[r].alone = watch[r].alone
              /\ watch'[r].failed <=> (watch[r].failed \/ failed)
<1>1. watch[r] \in Watch
  BY DEF TypeOK
<1>2. watch'[r] = IF req'[r].phase = "done" THEN NoWatch
                  ELSE IF failed THEN [watch[r] EXCEPT !.failed = TRUE] ELSE watch[r]
  BY DEF Note, TypeOK
<1>3. /\ watch' \in [Requests -> Watch]
      /\ \A q \in Requests \ {r} : watch'[q] = watch[q]
  BY <1>1, IdleTypes DEF Note, TypeOK, Watch
<1> QED BY <1>1, <1>2, <1>3 DEF Watch

\* A step of the handler of r: no other handler is alone, so r may write the table.
LEMMA HandlerInv ==
  ASSUME IInv, NEW r \in Requests, Active(r), NEW q \in Request, req' = [req EXCEPT ![r] = q],
         NEW failed \in BOOLEAN, Note(r, failed),
         UNCHANGED <<chain, refused>>, rows' \in [Txs -> Row \cup {None}],
         \A t \in Txs : Earned(t)',
         HandlerOK(r)', LateOK(r)', AloneOK(r)', FreshOK(r)'
  PROVE  IInv'
<1>1. TypeOK /\ ChainOK
  BY DEF IInv
<1>2. req' \in [Requests -> Request] /\ \A p \in Requests \ {r} : req'[p] = req[p]
  BY <1>1 DEF TypeOK
<1>3. watch' \in [Requests -> Watch] /\ \A p \in Requests \ {r} : watch'[p] = watch[p]
  BY <1>1, NoteStep
<1>4. TypeOK' /\ ChainOK'
  BY <1>1, <1>2, <1>3 DEF TypeOK, ChainOK, Known
<1>5. ASSUME NEW p \in Requests \ {r} PROVE HandlerOK(p)' /\ LateOK(p)' /\ AloneOK(p)' /\ FreshOK(p)'
  <2>1. HandlerOK(p)'
    BY <1>2 DEF IInv, HandlerOK, Known, Active
  <2>2. LateOK(p)'
    BY <1>2, <1>3 DEF IInv, LateOK, Active
  <2>3. AloneOK(p)'
    BY <1>2, <1>3 DEF IInv, AloneOK, Active
  <2>4. FreshOK(p)'
    BY <1>2, <1>3 DEF IInv, FreshOK, Told
  <2> QED BY <2>1, <2>2, <2>3, <2>4
<1> QED BY <1>4, <1>5 DEF IInv

\* The handler of r is over.
LEMMA OverInv ==
  ASSUME IInv, NEW r \in Requests, Active(r), req' = [req EXCEPT ![r] = Over],
         NEW failed \in BOOLEAN, Note(r, failed),
         UNCHANGED <<chain, refused>>, rows' \in [Txs -> Row \cup {None}],
         \A t \in Txs : Earned(t)'
  PROVE  IInv'
<1>1. req'[r] = Over /\ ~Active(r)'
  BY IdleTypes DEF IInv, TypeOK, Active
<1>2. HandlerOK(r)' /\ LateOK(r)' /\ AloneOK(r)' /\ FreshOK(r)'
  BY <1>1, IdleTypes, TrackingAssumption DEF HandlerOK, LateOK, AloneOK, FreshOK, Kinds
<1> QED BY <1>2, IdleTypes, HandlerInv

\* A handler that is alone finds the others at rest before and after its step.
LEMMA StaysAlone ==
  ASSUME IInv, NEW r \in Requests, Active(r), NEW q \in Request, req' = [req EXCEPT ![r] = q],
         watch[r].alone
  PROVE  \A p \in Requests : Active(p)' => p = r
<1>1. \A p \in Requests \ {r} : req'[p] = req[p]
  BY DEF IInv, TypeOK
<1> QED BY <1>1 DEF IInv, AloneOK, Active

-----------------------------------------------------------------------------
\* The answer to a handler other than a dashboard waits to be written.
LEMMA AnswerInv ==
  ASSUME IInv, NEW r \in Requests, req[r].phase = "ask", req[r].kind # "dashboard",
         NEW s \in Statuses, req' = [req EXCEPT ![r].phase = "write", ![r].seen = s],
         NEW failed \in BOOLEAN, Note(r, failed), UNCHANGED <<chain, refused, rows>>,
         Known(req[r].tx, s),
         chain[req[r].tx] = "committed" =>
           s = "committed" \/ (req[r].kind = "track" /\ failed)
  PROVE  IInv'
<1>1. /\ TypeOK /\ ChainOK /\ HandlerOK(r) /\ LateOK(r) /\ AloneOK(r) /\ FreshOK(r)
      /\ req[r] \in Request /\ watch[r] \in Watch /\ Active(r)
  BY DEF IInv, TypeOK, Active
<1> DEFINE q == [req[r] EXCEPT !.phase = "write", !.seen = s]
<1>2. /\ q \in Request /\ q.phase = "write" /\ q.seen = s /\ q.kind = req[r].kind
      /\ q.tx = req[r].tx /\ q.wallet = req[r].wallet /\ q.list = req[r].list
      /\ q.todo = req[r].todo
  BY <1>1 DEF Request
<1>3. req' = [req EXCEPT ![r] = q] /\ req'[r] = q
  BY <1>1 DEF TypeOK
<1> HIDE DEF q
<1>4. /\ watch'[r].committed = watch[r].committed /\ watch'[r].moved = watch[r].moved
      /\ watch'[r].alone = watch[r].alone
      /\ watch'[r].failed <=> (watch[r].failed \/ failed)
  BY <1>1, <1>2, <1>3, NoteStep
<1>5. HandlerOK(r)'
  BY <1>1, <1>2, <1>3, ZenonT(60) DEF HandlerOK, Active, Known
<1>6. LateOK(r)'
  BY <1>1, <1>2, <1>3, <1>4 DEF LateOK
<1>7. AloneOK(r)'
  <2>1. watch[r].alone => \A p \in Requests : Active(p)' => p = r
    BY <1>1, <1>2, <1>3, StaysAlone, ZenonT(60)
  <2> QED BY <1>1, <1>2, <1>3, <1>4, <2>1 DEF AloneOK, Tracked
<1>8. FreshOK(r)'
  BY <1>2, <1>3 DEF FreshOK
<1>9. rows' \in [Txs -> Row \cup {None}] /\ \A t \in Txs : Earned(t)'
  BY <1>1 DEF TypeOK, ChainOK, Earned, Tracked
<1> QED BY <1>1, <1>2, <1>3, <1>5, <1>6, <1>7, <1>8, <1>9, HandlerInv

\* A stream goes on to its next poll, or ends with its last.
LEMMA SleepInv ==
  ASSUME IInv, NEW r \in Requests, Active(r), req[r].kind = "stream",
         NEW told \in Statuses \cup {None}, Sleep(r, told),
         NEW failed \in BOOLEAN, Note(r, failed), UNCHANGED <<chain, refused>>,
         rows' \in [Txs -> Row \cup {None}], \A t \in Txs : Earned(t)'
  PROVE  IInv'
<1>1. /\ TypeOK /\ HandlerOK(r) /\ LateOK(r) /\ AloneOK(r)
      /\ req[r] \in Request
  BY DEF IInv, TypeOK
<1>2. CASE req[r].polls + 1 = MaxPolls
  <2>1. req' = [req EXCEPT ![r] = Over]
    BY <1>2 DEF Sleep
  <2> QED BY <2>1, OverInv
<1>3. CASE req[r].polls + 1 # MaxPolls
  <2> DEFINE q == [req[r] EXCEPT !.phase = "ask", !.seen = None, !.told = told, !.polls = @ + 1]
  <2>1. req[r].polls + 1 \in 0 .. MaxPolls - 1
    BY <1>1, <1>3, TrackingAssumption DEF Request
  <2>2. /\ q \in Request /\ q.phase = "ask" /\ q.kind = req[r].kind
        /\ q.tx = req[r].tx /\ q.wallet = req[r].wallet /\ q.list = req[r].list
        /\ q.todo = req[r].todo
    BY <1>1, <2>1 DEF Request
  <2>3. req' = [req EXCEPT ![r] = q] /\ req'[r] = q
    BY <1>1, <1>3 DEF Sleep, TypeOK
  <2> HIDE DEF q
  <2>4. /\ watch'[r].committed = watch[r].committed
        /\ watch'[r].alone = watch[r].alone
    BY <1>1, <2>2, <2>3, NoteStep
  <2>5. req[r].tx \in Txs
    BY <1>1 DEF HandlerOK, Active, Request
  <2>6. HandlerOK(r)'
    BY <1>1, <2>2, <2>3, <2>5 DEF HandlerOK, Active, Known
  <2>7. LateOK(r)'
    BY <1>1, <2>2, <2>3, <2>4 DEF LateOK
  <2>8. AloneOK(r)' /\ FreshOK(r)'
    <3>1. watch[r].alone => \A p \in Requests : Active(p)' => p = r
      BY <1>1, <2>2, <2>3, StaysAlone
    <3> QED BY <2>2, <2>3, <2>4, <3>1 DEF AloneOK, FreshOK
  <2> QED BY <2>2, <2>3, <2>6, <2>7, <2>8, HandlerInv
<1> QED BY <1>2, <1>3

\* A dashboard goes on after t, whose row and entry now say s.
LEMMA NextRowInv ==
  ASSUME IInv, NEW r \in Requests, req[r].kind = "dashboard",
         NEW t \in Txs, t \in req[r].todo, NEW s \in Statuses, NextRow(r, t, s),
         NEW failed \in BOOLEAN, Note(r, failed), UNCHANGED <<chain, refused>>,
         rows' \in [Txs -> Row \cup {None}], \A u \in Txs : Earned(u)', Known(t, s),
         \A u \in Txs \ {t} : rows'[u] = rows[u],
         watch[r].alone => Tracked(t)' /\ rows'[t].status = s,
         failed \/ watch[r].failed \/ t \in watch[r].moved \/ Told(t, s)
  PROVE  IInv'
<1>1. /\ TypeOK /\ HandlerOK(r) /\ LateOK(r) /\ AloneOK(r) /\ FreshOK(r)
      /\ req[r] \in Request /\ Active(r)
  BY TrackingAssumption DEF IInv, TypeOK, HandlerOK, Kinds
<1> DEFINE rest == req[r].todo \ {t}
           phase == IF rest = {} THEN "answer" ELSE "ask"
           list == [req[r].list EXCEPT ![t] = s]
           q == [req[r] EXCEPT !.todo = rest, !.tx = None, !.seen = None, !.list = list,
                               !.phase = phase]
<1>2. /\ rest \subseteq req[r].todo /\ t \notin rest /\ \A u \in req[r].todo : u \in rest \/ u = t
      /\ phase \in {"ask", "answer"} /\ (phase = "answer" => rest = {})
  OBVIOUS
<1>3. /\ list \in [Txs -> Statuses \cup {None}] /\ list[t] = s
      /\ \A u \in Txs \ {t} : list[u] = req[r].list[u]
  BY <1>1 DEF Request
<1>4. req' = [req EXCEPT ![r] = q] /\ req'[r] = q
  <2>1. req' = [req EXCEPT ![r] = q]
    BY DEF NextRow
  <2> QED BY <2>1, <1>1 DEF TypeOK
<1> HIDE DEF rest, phase, list
<1>5. /\ q \in Request /\ q.phase = phase /\ q.kind = "dashboard"
      /\ q.list = list /\ q.todo = rest
  BY <1>1, <1>2, <1>3 DEF Request
<1> HIDE DEF q
<1>6. /\ watch'[r].committed = watch[r].committed /\ watch'[r].moved = watch[r].moved
      /\ watch'[r].alone = watch[r].alone
      /\ watch'[r].failed <=> (watch[r].failed \/ failed)
  BY <1>1, <1>2, <1>4, <1>5, NoteStep
<1>7. s # None /\ None # "dashboard" /\ req[r].todo \subseteq Txs
  BY <1>1, TrackingAssumption DEF Statuses, Kinds, Request
<1>8. HandlerOK(r)'
  BY <1>1, <1>2, <1>3, <1>4, <1>5, <1>7 DEF HandlerOK, Active, Known
<1>9. LateOK(r)'
  BY <1>1, <1>2, <1>4, <1>5, <1>6 DEF LateOK
<1>10. AloneOK(r)'
  <2>1. watch[r].alone => \A p \in Requests : Active(p)' => p = r
    BY <1>1, <1>4, <1>5, StaysAlone
  <2> QED BY <1>1, <1>3, <1>4, <1>5, <1>6, <2>1 DEF AloneOK, Tracked
<1>11. FreshOK(r)'
  BY <1>1, <1>2, <1>3, <1>4, <1>5, <1>6 DEF FreshOK, Told
<1> QED BY <1>1, <1>4, <1>5, <1>8, <1>9, <1>10, <1>11, HandlerInv

-----------------------------------------------------------------------------
\* An update of the status of a row leaves a row whose status is earned.
LEMMA UpdateStep ==
  ASSUME IInv, NEW r \in Requests, req[r].phase = "write", UpdateStatus(r) \/ UNCHANGED rows,
         UNCHANGED <<chain, refused>>
  PROVE  /\ rows' \in [Txs -> Row \cup {None}] /\ \A t \in Txs : Earned(t)'
         /\ \A t \in Txs \ {req[r].tx} : rows'[t] = rows[t]
         /\ UpdateStatus(r) /\ Tracked(req[r].tx) =>
              rows'[req[r].tx] # None /\ rows'[req[r].tx].status = req[r].seen
<1>1. /\ TypeOK /\ ChainOK /\ req[r].tx \in Txs /\ req[r].seen \in Statuses
      /\ Known(req[r].tx, req[r].seen)
  BY DEF IInv, HandlerOK
<1>2. CASE UNCHANGED rows \/ ~Tracked(req[r].tx)
  <2>1. UNCHANGED rows
    BY <1>2 DEF UpdateStatus
  <2>2. rows' \in [Txs -> Row \cup {None}] /\ \A t \in Txs : Earned(t)'
    BY <2>1, <1>1 DEF TypeOK, ChainOK, Earned, Tracked
  <2>3. UpdateStatus(r) /\ Tracked(req[r].tx) => rows[req[r].tx].status = req[r].seen
    <3> SUFFICES ASSUME UpdateStatus(r), Tracked(req[r].tx) PROVE rows[req[r].tx].status = req[r].seen
      OBVIOUS
    <3>1. rows[req[r].tx] \in Row
      BY <1>1 DEF TypeOK, Tracked
    <3>2. rows' = [rows EXCEPT ![req[r].tx] = [rows[req[r].tx] EXCEPT !.status = req[r].seen]]
      BY DEF UpdateStatus
    <3> QED BY <2>1, <3>1, <3>2, <1>1 DEF TypeOK, Row
  <2> QED BY <2>1, <2>2, <2>3 DEF Tracked
<1>3. CASE Tracked(req[r].tx) /\ UpdateStatus(r)
  <2> DEFINE row == [rows[req[r].tx] EXCEPT !.status = req[r].seen]
  <2>1. rows[req[r].tx] \in Row
    BY <1>1, <1>3 DEF TypeOK, Tracked
  <2>2. row \in Row /\ row.status = req[r].seen /\ row # None
    BY <2>1, <1>1, TrackingAssumption DEF Row
  <2>3. rows' = [rows EXCEPT ![req[r].tx] = row]
    BY <1>3 DEF UpdateStatus
  <2> HIDE DEF row
  <2>4. /\ rows' \in [Txs -> Row \cup {None}] /\ rows'[req[r].tx] = row
        /\ \A t \in Txs \ {req[r].tx} : rows'[t] = rows[t]
    BY <2>2, <2>3, <1>1 DEF TypeOK
  <2>5. \A t \in Txs : Earned(t)'
    BY <2>2, <2>4, <1>1 DEF ChainOK, Earned, Tracked, Known
  <2> QED BY <2>2, <2>4, <2>5 DEF Tracked
<1> QED BY <1>2, <1>3

\* The handler of r asks.
LEMMA AskInv == ASSUME IInv, NEW r \in Requests, Ask(r) PROVE IInv'
<1>1. /\ TypeOK /\ ChainOK /\ HandlerOK(r) /\ LateOK(r) /\ AloneOK(r) /\ FreshOK(r)
      /\ req[r] \in Request /\ watch[r] \in Watch
  BY DEF IInv, TypeOK
<1>2. rows \in [Txs -> Row \cup {None}] /\ \A t \in Txs : Earned(t)
  BY <1>1 DEF TypeOK, ChainOK
<1>3. UNCHANGED <<chain, refused, rows>> =>
        rows' \in [Txs -> Row \cup {None}] /\ \A t \in Txs : Earned(t)'
  BY <1>2 DEF Earned, Tracked
<1> DEFINE s == Normalize(chain[req[r].tx])
<1>4. req[r].phase = "ask" /\ req[r].kind # "dashboard" =>
        /\ req[r].tx \in Txs /\ s \in Statuses /\ Known(req[r].tx, s)
        /\ chain[req[r].tx] = "committed" => s = "committed"
  BY <1>1, AnswersAreKnown DEF HandlerOK
<1>5. CASE AskTrack(r) \/ AskStatus(r)
  BY <1>4, <1>5, AnswerInv DEF AskTrack, AskStatus, Asks, NodeAnswers
<1>6. CASE AskTrackFails(r)
  <2>1. Known(req[r].tx, "pending") /\ "pending" \in Statuses
    BY DEF Known, Statuses, ChainStatuses
  <2> QED BY <2>1, <1>6, AnswerInv DEF AskTrackFails, Asks, NodeFails
<1>7. CASE AskStatusFails(r)
  BY <1>3, <1>7, OverInv DEF AskStatusFails, Asks, NodeFails, Active
<1>8. CASE AskStream(r)
  <2>1. CASE req' = [req EXCEPT ![r].phase = "write", ![r].seen = s]
    BY <1>4, <1>8, <2>1, AnswerInv DEF AskStream, Asks, NodeAnswers
  <2>2. CASE Sleep(r, s)
    BY <1>3, <1>4, <1>8, <2>2, SleepInv DEF AskStream, Asks, NodeAnswers, Active
  <2> QED BY <2>1, <2>2, <1>8 DEF AskStream
<1>9. CASE AskStreamFails(r)
  <2>1. req[r].told \in Statuses \cup {None}
    BY <1>1 DEF Request
  <2> QED BY <1>3, <1>9, <2>1, SleepInv DEF AskStreamFails, Asks, NodeFails, Active
<1>10. ASSUME NEW t \in Txs, AskDashboard(r, t) \/ AskDashboardFails(r, t) PROVE IInv'
  <2>1. /\ req[r].phase = "ask" /\ req[r].kind = "dashboard" /\ t \in req[r].todo
        /\ Active(r) /\ UNCHANGED <<chain, refused, rows>>
    BY <1>10 DEF AskDashboard, AskDashboardFails, Asks, Active
  <2>2. /\ Normalize(chain[t]) \in Statuses /\ Known(t, Normalize(chain[t]))
        /\ chain[t] = "committed" => Normalize(chain[t]) = "committed"
    BY <1>1, AnswersAreKnown
  <2>3. req[r].list[t] \in Statuses /\ Known(t, req[r].list[t])
    BY <1>1, <2>1 DEF HandlerOK, Request
  <2>4. watch[r].alone => Tracked(t)' /\ rows'[t].status = req[r].list[t]
    BY <1>1, <2>1, <2>3, TrackingAssumption DEF AloneOK, Tracked, Statuses
  <2>5. CASE AskDashboardFails(r, t)
    BY <1>3, <2>1, <2>3, <2>4, <2>5, NextRowInv DEF AskDashboardFails, NodeFails
  <2>6. CASE AskDashboard(r, t) /\ NextRow(r, t, Normalize(chain[t])) /\ Normalize(chain[t]) = req[r].list[t]
    <3>1. Told(t, Normalize(chain[t]))
      BY DEF Told
    <3> QED BY <1>3, <2>1, <2>2, <2>3, <2>4, <2>6, <3>1, NextRowInv DEF AskDashboard, NodeAnswers
  <2>7. CASE AskDashboard(r, t) /\ req' = [req EXCEPT ![r].phase = "write", ![r].tx = t, ![r].seen = Normalize(chain[t])]
    <3> DEFINE v == Normalize(chain[t])
               q == [req[r] EXCEPT !.phase = "write", !.tx = t, !.seen = v]
    <3> HIDE DEF v
    <3>1. v \in Statuses /\ Known(t, v) /\ Told(t, v) /\ (chain[t] = "committed" => v = "committed")
      BY <2>2 DEF v, Told
    <3>2. /\ q \in Request /\ q.phase = "write" /\ q.seen = v /\ q.kind = "dashboard"
          /\ q.tx = t /\ q.list = req[r].list /\ q.todo = req[r].todo
      BY <1>1, <2>1, <3>1 DEF Request
    <3>3. req' = [req EXCEPT ![r] = q] /\ req'[r] = q
      BY <1>1, <2>7 DEF TypeOK, v
    <3> HIDE DEF q
    <3>4. Note(r, FALSE)
      BY <2>7 DEF AskDashboard, NodeAnswers
    <3>5. /\ watch'[r].committed = watch[r].committed /\ watch'[r].moved = watch[r].moved
          /\ watch'[r].alone = watch[r].alone
          /\ watch'[r].failed <=> watch[r].failed
      BY <1>1, <3>2, <3>3, <3>4, NoteStep
    <3>6. HandlerOK(r)'
      BY <1>1, <2>1, <3>1, <3>2, <3>3 DEF HandlerOK, Active, Known
    <3>7. LateOK(r)'
      BY <1>1, <2>1, <3>1, <3>2, <3>3, <3>5 DEF LateOK
    <3>8. AloneOK(r)'
      <4>1. watch[r].alone => \A p \in Requests : Active(p)' => p = r
        BY <2>1, <3>2, <3>3, StaysAlone
      <4> QED BY <1>1, <2>1, <3>2, <3>3, <3>5, <4>1 DEF AloneOK, Tracked
    <3>9. FreshOK(r)'
      BY <1>1, <2>1, <3>1, <3>2, <3>3, <3>5 DEF FreshOK, Told
    <3> QED BY <1>3, <2>1, <3>2, <3>3, <3>4, <3>6, <3>7, <3>8, <3>9, HandlerInv
  <2> QED BY <1>10, <2>5, <2>6, <2>7 DEF AskDashboard
<1> QED BY <1>5, <1>6, <1>7, <1>8, <1>9, <1>10 DEF Ask

\* The handler of r writes.
LEMMA StoreInv == ASSUME IInv, NEW r \in Requests, Store(r) PROVE IInv'
<1>1. /\ TypeOK /\ ChainOK /\ HandlerOK(r) /\ LateOK(r) /\ AloneOK(r) /\ FreshOK(r)
      /\ req[r] \in Request
  BY DEF IInv, TypeOK
<1>2. /\ req[r].phase = "write" /\ Active(r) /\ Note(r, FALSE)
      /\ UNCHANGED <<chain, refused>>
  BY DEF Store, StoreTrack, StoreStatus, StoreStream, StoreDashboard, Writes, Active
<1>3. req[r].tx \in Txs /\ req[r].seen \in Statuses /\ Known(req[r].tx, req[r].seen)
  BY <1>1, <1>2 DEF HandlerOK
<1>4. CASE StoreTrack(r)
  <2> DEFINE row == [wallet |-> req[r].wallet, status |-> req[r].seen]
  <2>1. row \in Row /\ row.status = req[r].seen
    BY <1>1, <1>2, <1>3, <1>4 DEF HandlerOK, StoreTrack, Writes, Row
  <2> HIDE DEF row
  <2>2. rows' = [rows EXCEPT ![req[r].tx] = row]
    BY <1>4 DEF StoreTrack, row
  <2>3. /\ rows' \in [Txs -> Row \cup {None}] /\ rows'[req[r].tx] = row
        /\ \A t \in Txs \ {req[r].tx} : rows'[t] = rows[t]
    BY <2>1, <2>2, <1>1, <1>3 DEF TypeOK
  <2>4. \A t \in Txs : Earned(t)'
    BY <2>1, <2>3, <1>1, <1>2, <1>3 DEF ChainOK, Earned, Tracked, Known
  <2> QED BY <1>2, <1>4, <2>3, <2>4, OverInv DEF StoreTrack
<1>5. CASE StoreStatus(r)
  BY <1>2, <1>5, UpdateStep, OverInv DEF StoreStatus
<1>6. CASE StoreStream(r)
  <2>1. rows' \in [Txs -> Row \cup {None}] /\ \A t \in Txs : Earned(t)'
    BY <1>2, <1>6, UpdateStep DEF StoreStream
  <2>2. CASE Final(req[r].seen)
    BY <1>2, <1>6, <2>1, <2>2, OverInv DEF StoreStream
  <2>3. CASE ~Final(req[r].seen)
    BY <1>2, <1>3, <1>6, <2>1, <2>3, SleepInv DEF StoreStream, Writes
  <2> QED BY <2>2, <2>3
<1>7. CASE StoreDashboard(r)
  <2>1. PICK t \in Txs, v \in Statuses : t = req[r].tx /\ v = req[r].seen
    BY <1>3
  <2>2. /\ req[r].kind = "dashboard" /\ t \in req[r].todo /\ UpdateStatus(r)
        /\ NextRow(r, t, v) /\ req[r].list[t] # None
    BY <1>1, <1>2, <1>7, <2>1 DEF StoreDashboard, Writes, HandlerOK
  <2>3. /\ rows' \in [Txs -> Row \cup {None}] /\ \A u \in Txs : Earned(u)'
        /\ \A u \in Txs \ {t} : rows'[u] = rows[u]
        /\ Tracked(t) => Tracked(t)' /\ rows'[t].status = v
    BY <1>2, <2>1, <2>2, UpdateStep DEF Tracked
  <2>4. watch[r].alone => Tracked(t)' /\ rows'[t].status = v
    BY <1>1, <1>2, <2>2, <2>3 DEF AloneOK
  <2>5. watch[r].failed \/ t \in watch[r].moved \/ Told(t, v)
    BY <1>1, <1>2, <2>1, <2>2 DEF FreshOK
  <2> QED BY <1>2, <1>3, <2>1, <2>2, <2>3, <2>4, <2>5, NextRowInv
<1> QED BY <1>4, <1>5, <1>6, <1>7 DEF Store

LEMMA NextInv == ASSUME IInv, [Next]_vars PROVE IInv'
<1>1. ASSUME NEW r \in Requests, AnswerDashboard(r) \/ Abandon(r) PROVE IInv'
  <2>1. TypeOK /\ ChainOK
    BY DEF IInv
  <2>2. /\ Active(r) /\ req' = [req EXCEPT ![r] = Over] /\ Note(r, FALSE)
        /\ UNCHANGED <<chain, refused, rows>>
    BY <1>1 DEF AnswerDashboard, Abandon, Active
  <2>3. rows' \in [Txs -> Row \cup {None}] /\ \A t \in Txs : Earned(t)'
    BY <2>1, <2>2 DEF TypeOK, ChainOK, Earned, Tracked
  <2> QED BY <2>2, <2>3, OverInv
<1>2. CASE UNCHANGED vars
  BY <1>2 DEF vars, IInv, TypeOK, ChainOK, Known, Earned, Tracked, HandlerOK, LateOK,
              AloneOK, FreshOK, Told, Active
<1> QED BY <1>1, <1>2, ChainMovesInv, ReceiveInv, AskInv, StoreInv DEF Next, Step

LEMMA InvHolds == Spec => []IInv
BY InitInv, NextInv, PTL DEF Spec

-----------------------------------------------------------------------------
(***************************************************************************)
(* What a row calls final, the chain has made so, however late the answer  *)
(* was written and however many handlers wrote the row.                    *)
(***************************************************************************)
THEOREM FinalRowsAreRight == Spec => []FinalRowsAreEarned
<1>1. IInv => FinalRowsAreEarned
  BY DEF IInv, ChainOK, FinalRowsAreEarned
<1> QED BY <1>1, InvHolds, PTL

(***************************************************************************)
(* A dashboard that was alone and whose questions were answered leaves in  *)
(* the table, and shows, what the chain says of every row it lists.        *)
(***************************************************************************)
THEOREM DashboardsRepair == Spec => []DashboardRepairs
<1>1. IInv => DashboardRepairs
  <2> SUFFICES ASSUME IInv, NEW r \in Requests, req[r].phase = "answer", watch[r].alone,
                      ~watch[r].failed, NEW t \in Txs \ watch[r].moved, req[r].list[t] # None
               PROVE  /\ rows[t].status = req[r].list[t]
                      /\ Told(t, req[r].list[t])
    BY DEF DashboardRepairs, Told
  <2>1. Active(r) /\ req[r].kind = "dashboard" /\ req[r].todo = {}
    BY DEF IInv, HandlerOK, Active
  <2> QED BY <2>1 DEF IInv, AloneOK, FreshOK
<1> QED BY <1>1, InvHolds, PTL

(***************************************************************************)
(* Only a handler that began before the commit, or a track the node left   *)
(* without an answer, takes "committed" from a row.                        *)
(***************************************************************************)
THEOREM OnlyTheLateReopen == Spec => OnlyLateAnswersReopen
<1> DEFINE Late(t, r) ==
      /\ req[r].phase = "write" /\ req[r].tx = t
      /\ \/ t \notin watch[r].committed
         \/ req[r].kind = "track" /\ watch[r].failed
<1>1. ASSUME IInv, [Next]_vars, NEW t \in Txs, Tracked(t), rows[t].status = "committed",
             rows'[t].status # "committed"
      PROVE  \E r \in Requests : Late(t, r)
  <2>1. PICK r \in Requests : Store(r)
    BY <1>1, ZenonT(60) DEF Next, vars, ChainMoves, Receive, ReceiveTrack, ReceiveStatus, ReceiveStream,
                ReceiveDashboard, Begin, Step, Ask, AskTrack, AskTrackFails, AskStatus,
                AskStatusFails, AskStream, AskStreamFails, AskDashboard, AskDashboardFails,
                AnswerDashboard, Abandon
  <2>2. /\ req[r].phase = "write" /\ Active(r) /\ UNCHANGED <<chain, refused>>
        /\ TypeOK /\ HandlerOK(r) /\ LateOK(r)
    BY <1>1, <2>1 DEF Store, StoreTrack, StoreStatus, StoreStream, StoreDashboard, Writes, Active, IInv
  <2>3. req[r].tx = t /\ req[r].seen # "committed"
    <3>1. CASE StoreTrack(r)
      BY <1>1, <2>2, <3>1 DEF StoreTrack, TypeOK, HandlerOK
    <3>2. CASE UpdateStatus(r) \/ UNCHANGED rows
      <4>1. req[r].tx = t
        BY <1>1, <2>2, <3>2, UpdateStep
      <4>2. UpdateStatus(r)
        BY <1>1, <3>2
      <4> QED BY <1>1, <2>2, <4>1, <4>2, UpdateStep
    <3> QED BY <2>1, <3>1, <3>2 DEF Store, StoreStatus, StoreStream, StoreDashboard
  <2>4. Late(t, r)
    BY <2>2, <2>3 DEF LateOK
  <2> QED BY <2>4, ZenonT(60)
<1>2. IInv /\ [Next]_vars =>
        [\A t \in Txs :
           Tracked(t) /\ rows[t].status = "committed" /\ rows'[t].status # "committed" =>
             \E r \in Requests :
               /\ req[r].phase = "write" /\ req[r].tx = t
               /\ \/ t \notin watch[r].committed
                  \/ req[r].kind = "track" /\ watch[r].failed]_rows
  BY <1>1
<1> QED BY <1>2, InvHolds, PTL DEF Spec, OnlyLateAnswersReopen
=============================================================================
