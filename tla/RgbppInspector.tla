--------------------------- MODULE RgbppInspector ---------------------------
(***************************************************************************)
(* The RGB++ page looks one asset up: a CKB cell and the Bitcoin output it *)
(* is bound to, or an output and the cells an indexer has for it.  It      *)
(* reads two chains through public services, one request at a time, while  *)
(* the Bitcoin chain grows and reorganises, and reports how deep the       *)
(* Bitcoin transaction lies: it takes the tip before it starts, and trusts *)
(* the depth only if the tip is the same at the end.                       *)
(*                                                                         *)
(* The transaction is in one block of each branch of the Bitcoin chain; a  *)
(* block is named by its branch and its height.  What cannot be read from  *)
(* Bitcoin or from the indexer becomes "unknown" in the receipt; what      *)
(* cannot be read from CKB ends the lookup.  A deadline of the whole       *)
(* lookup makes every later request fail.                                  *)
(***************************************************************************)
EXTENDS Integers

CONSTANTS
  Forms,       \* queries: records with a kind, "cell" or "utxo", and a txid
  Ops,         \* the lookups under way or shown
  TxHeight,    \* TxHeight[b]: the height of the transaction's block on branch b
  MaxHeight,   \* bound of the chain
  PageSize,    \* cells on a page of the indexer
  Threshold,   \* pins.confirmationPolicy.bitcoin
  None

VARIABLES
  form,     \* query
  active,   \* active.current
  busy,
  shown,    \* the receipt or the error on the page
  ops,      \* ops[o]: the lookup o
  chain     \* the tip of the Bitcoin chain

page == <<form, active, busy, shown>>
vars == <<page, ops, chain>>

Branches == {1, 2}
Blocks == [branch : Branches, height : 1 .. MaxHeight]

\* Asked at once: the Merkle proof and the block of that height.  Neither is answered,
\* or only the proof is left, or only the height.
Inclusion == {"proof", "merkle", "height"}

Phases ==
  {"idle", "identities", "deployment", "tips", "transaction", "live", "index", "rows",
   "tx", "outspend"} \cup Inclusion \cup {"tipBlock", "endTip", "aborted", "done"}

Confirmations ==
  {"none", "unknown", "pending", "pending confirmations", "reorg-detected",
   "observed threshold reached"}

\* A lookup: its query, the candidates left to check, the tip it started from, the
\* block it found the transaction in, and what it has found so far.
Op ==
  [phase : Phases, form : Forms \cup {None}, late : BOOLEAN,
   rows : 0 .. PageSize, tip : Blocks \cup {None}, block : Blocks \cup {None},
   more : BOOLEAN]

IdleOp ==
  [phase |-> "idle", form |-> None, late |-> FALSE, rows |-> 0,
   tip |-> None, block |-> None, more |-> FALSE]

Nothing == [kind |-> "nothing", op |-> None, confirmation |-> "none", more |-> FALSE]

TypeOK ==
  /\ form \in Forms
  /\ active \in Ops \cup {None}
  /\ busy \in BOOLEAN
  /\ shown \in [kind : {"nothing", "receipt", "error"}, op : Ops \cup {None},
                confirmation : Confirmations, more : BOOLEAN]
  /\ ops \in [Ops -> Op]
  /\ chain \in Blocks

Init ==
  /\ form \in Forms
  /\ active = None
  /\ busy = FALSE
  /\ shown = Nothing
  /\ ops = [o \in Ops |-> IdleOp]
  /\ chain = [branch |-> 1, height |-> 1]

\* The network, the kind, the index and the cursor are of their forms.
validateQuery(f) == f.valid

Free(o) == ops[o].phase \in {"idle", "done"} /\ shown.op # o

-----------------------------------------------------------------------------
(***************************************************************************)
(* The Bitcoin chain, as its service shows it.                             *)
(***************************************************************************)

\* The block of the transaction on the present chain, or None.
Containing ==
  LET height == TxHeight[chain.branch] IN
    IF height <= chain.height THEN [branch |-> chain.branch, height |-> height] ELSE None

Deep == Containing # None /\ chain.height - Containing.height + 1 >= Threshold

Grow ==
  /\ chain.height < MaxHeight
  /\ chain' = [chain EXCEPT !.height = @ + 1]
  /\ UNCHANGED <<page, ops>>

\* The other branch overtakes: a node leaves its tip only for one with more work, so
\* that a tip never comes back.
Reorg ==
  /\ chain' \in {b \in Blocks : b.branch # chain.branch /\ b.height > chain.height}
  /\ UNCHANGED <<page, ops>>

-----------------------------------------------------------------------------
(***************************************************************************)
(* The page.                                                               *)
(***************************************************************************)

\* The controller of the page's lookup is aborted: the request that the lookup waits
\* for fails, and every later one, so that all there is left to it is to end.
Abort ==
  [o \in Ops |->
     IF o = active /\ ops[o].phase # "done"
       THEN [IdleOp EXCEPT !.phase = "aborted", !.form = ops[o].form] ELSE ops[o]]

\* A field of the query is edited, or the lookup is cancelled.
change ==
  /\ ops' = Abort
  /\ form' \in Forms
  /\ shown' = Nothing
  /\ busy' = FALSE
  /\ UNCHANGED <<active, chain>>

Cancel ==
  /\ busy
  /\ ops' = Abort
  /\ busy' = FALSE
  /\ UNCHANGED <<form, active, shown, chain>>

\* The page is left and opened again.
Leave ==
  /\ ops' = Abort
  /\ form' \in Forms
  /\ active' = None
  /\ shown' = Nothing
  /\ busy' = FALSE
  /\ UNCHANGED chain

\* A lookup starts: from the button, or from "next page" of a receipt that has one.
\* A query that validateQuery refuses is refused at once.
run(o) ==
  /\ ~busy /\ Free(o)
  /\ ops' = [Abort EXCEPT ![o] =
               [IdleOp EXCEPT !.phase = IF validateQuery(form) THEN "identities" ELSE "done",
                              !.form = form]]
  /\ active' = o
  /\ busy' = validateQuery(form)
  /\ shown' = IF validateQuery(form) THEN Nothing ELSE [Nothing EXCEPT !.kind = "error", !.op = o]
  /\ UNCHANGED <<form, chain>>

\* A lookup ends; its receipt or its error is shown unless it was aborted.
Settle(o, what) ==
  /\ shown' = IF ops[o].phase = "aborted" THEN shown ELSE what
  /\ busy' = (busy /\ active # o)
  /\ ops' = [ops EXCEPT ![o] = [IdleOp EXCEPT !.phase = "done", !.form = ops[o].form]]
  /\ UNCHANGED <<form, active, chain>>

Refused(o) == Settle(o, [Nothing EXCEPT !.kind = "error", !.op = o])

\* The receipt, unless the deadline has passed.
Receipt(o, confirmation) ==
  IF ops[o].late THEN Refused(o)
  ELSE Settle(o, [kind |-> "receipt", op |-> o, confirmation |-> confirmation,
                  more |-> ops[o].more])

-----------------------------------------------------------------------------
(***************************************************************************)
(* The lookup, one step for each request.                                  *)
(***************************************************************************)

At(o, phase) == ops[o].phase = phase

\* Can a request succeed?
Open(o) == ~ops[o].late

Goto(o, update) ==
  /\ ops' = [ops EXCEPT ![o] = update]
  /\ UNCHANGED <<page, chain>>

Continue(o, phase) == Goto(o, [ops[o] EXCEPT !.phase = phase])

\* 45 seconds have passed.
Deadline(o) ==
  /\ ops[o].phase \notin {"idle", "aborted", "done"} /\ ~ops[o].late
  /\ Goto(o, [ops[o] EXCEPT !.late = TRUE])

\* A request of CKB, or of the identities, fails or answers what is not expected;
\* or the lookup was aborted.
request(o) ==
  /\ \/ ops[o].phase \in {"identities", "deployment", "aborted"}
     \/ At(o, "transaction") /\ ops[o].rows = 0
  /\ Refused(o)

readIdentities(o) == At(o, "identities") /\ Open(o) /\ Continue(o, "deployment")

readDeployment(o) == At(o, "deployment") /\ Open(o) /\ Continue(o, "tips")

\* The tips of both chains.  Either may be unknown.
readTips(o) ==
  /\ At(o, "tips")
  /\ \E tip \in {None} \cup (IF Open(o) THEN {chain} ELSE {}) :
       Goto(o, [ops[o] EXCEPT !.phase = IF ops[o].form.kind = "cell" THEN "transaction" ELSE "index",
                              !.tip = tip])

\* The indexer's page of candidates for an output, which may be empty, or fail; a
\* full one has a next page.
readIndex(o) ==
  /\ At(o, "index")
  /\ \E n \in 0 .. (IF Open(o) THEN PageSize ELSE 0) :
       Goto(o, [ops[o] EXCEPT !.phase = IF n = 0 THEN "tx" ELSE "transaction", !.rows = n,
                              !.more = (n = PageSize)])

\* The next candidate, or, after the last, the Bitcoin part.
NextRow(o) ==
  Goto(o, [ops[o] EXCEPT !.phase = IF ops[o].rows > 1 THEN "transaction" ELSE "tx",
                         !.rows = IF @ > 0 THEN @ - 1 ELSE 0])

\* loadCell, first request: the transaction of the cell.  A cell that is not there
\* ends a lookup of a cell; what is wrong with a candidate ends the candidates.
readTransaction(o) ==
  /\ At(o, "transaction")
  /\ \/ Open(o) /\ Continue(o, "live")
     \/ Open(o) /\ ops[o].rows = 0 /\ Receipt(o, "none")
     \/ Open(o) /\ ops[o].rows > 0 /\ NextRow(o)
     \/ ops[o].rows > 0 /\ Goto(o, [ops[o] EXCEPT !.phase = "tx", !.rows = 0])

\* loadCell, second request: is the cell live?  A failure leaves that unknown; a
\* live cell that differs from its transaction is an error.
readLive(o) ==
  /\ At(o, "live")
  /\ \/ NextRow(o)
     \/ /\ Open(o)
        /\ IF ops[o].rows = 0 THEN Refused(o)
           ELSE Goto(o, [ops[o] EXCEPT !.phase = "tx", !.rows = 0])

\* What goes wrong with the Bitcoin part of a lookup makes it unknown, not an error.
BitcoinUnknown(o) ==
  /\ ops[o].phase \in {"tx", "outspend", "tipBlock", "endTip"} \cup Inclusion
  /\ Receipt(o, "unknown")

readBitcoinTx(o) ==
  /\ At(o, "tx") /\ Open(o)
  /\ Goto(o, [ops[o] EXCEPT !.phase = "outspend", !.block = Containing])

\* An unconfirmed transaction needs no proof.
readOutspend(o) ==
  /\ At(o, "outspend") /\ Open(o)
  /\ IF ops[o].block = None THEN Receipt(o, "pending") ELSE Continue(o, "proof")

\* A Merkle proof, which is of the block that has the transaction now, leads to the
\* root in the header.
verifyInclusion(proof, header) == proof # None /\ proof = header

\* The block of that height in the chain.
canonical(height) == [branch |-> chain.branch, height |-> height]

\* One of the two is answered, and the lookup goes on with the other, left, or after
\* both of them.
Included(o, left) ==
  IF At(o, "proof") THEN Continue(o, left)
  ELSE IF ops[o].tip = None THEN Receipt(o, "pending")
  ELSE Continue(o, "tipBlock")

\* The proof of the transaction.  The header is asked for with it, by the hash of its
\* block, and is the same whenever it comes.
readProof(o) ==
  /\ ops[o].phase \in {"proof", "merkle"} /\ Open(o)
  /\ verifyInclusion(Containing, ops[o].block)
  /\ Included(o, "height")

\* The block of that height is the one that has the transaction.
readHeight(o) ==
  /\ ops[o].phase \in {"proof", "height"} /\ Open(o)
  /\ canonical(ops[o].block.height) = ops[o].block
  /\ Included(o, "merkle")

readTipBlock(o) == At(o, "tipBlock") /\ Open(o) /\ Continue(o, "endTip")

confirmationState(confirmed, inChain, blockHeight, tip, stable) ==
  CASE ~inChain -> "reorg-detected"
    [] inChain /\ (~stable \/ blockHeight > tip) -> "unknown"
    [] inChain /\ stable /\ blockHeight <= tip /\ ~confirmed -> "pending"
    [] inChain /\ stable /\ blockHeight <= tip /\ confirmed ->
         IF tip - blockHeight + 1 >= Threshold
           THEN "observed threshold reached" ELSE "pending confirmations"

\* Mutant: whether the tip is still the same is not looked at.
MutantReadEndTip(o) ==
  /\ At(o, "endTip") /\ Open(o)
  /\ Receipt(o, confirmationState(TRUE, TRUE, ops[o].block.height, ops[o].tip.height, TRUE))

readEndTip(o) ==
  /\ At(o, "endTip") /\ Open(o)
  /\ Receipt(o, confirmationState(TRUE, TRUE, ops[o].block.height, ops[o].tip.height,
                                  chain = ops[o].tip))

Step(o) ==
  \/ request(o) \/ readIdentities(o) \/ readDeployment(o) \/ readTips(o)
  \/ readIndex(o) \/ readTransaction(o) \/ readLive(o)
  \/ readBitcoinTx(o) \/ readOutspend(o) \/ readProof(o)
  \/ readHeight(o)
  \/ readTipBlock(o) \/ readEndTip(o) \/ BitcoinUnknown(o)

Next ==
  \/ Grow \/ Reorg
  \/ change \/ Cancel \/ Leave
  \/ \E o \in Ops : run(o) \/ Deadline(o) \/ Step(o)

\* Every request has a timer.
Fairness == \A o \in Ops : WF_vars(Step(o))

Spec == Init /\ [][Next]_vars /\ Fairness

-----------------------------------------------------------------------------

\* The receipt answers the query on the page.
ShownAnswersTheForm ==
  shown.op # None => ops[shown.op].form = form /\ ops[shown.op].phase = "done"

\* A receipt says that the threshold is reached only when the transaction lies that
\* deep in the Bitcoin chain at that moment, whatever the chain did meanwhile.
ThresholdIsEarned ==
  [][shown' # shown /\ shown'.confirmation = "observed threshold reached" => Deep]_vars

BusyEnds == busy ~> ~busy
=============================================================================
