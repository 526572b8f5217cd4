---------------------------- MODULE SimpleLockLab ----------------------------
(***************************************************************************)
(* The hash-lock lab: a deployment is loaded, a lock is derived from a     *)
(* preimage or taken from its digest, cells are funded under it, and one   *)
(* of them is unlocked by a transaction that reveals the preimage.  Every  *)
(* button is a sequence of requests; while one runs, the fields and the    *)
(* buttons are disabled, but the wallet can change, the page can be left   *)
(* and the chain moves: whoever knows a preimage can spend.  What a page   *)
(* that was left still sends counts among what others do.                  *)
(*                                                                         *)
(* A preimage is a number, which is its digest too; 0 is a field that is   *)
(* empty, or a digest that is none.  Whether the deployment is still what  *)
(* its manifest says is asked for before every use, and may fail.  What a  *)
(* wallet refuses to sign, and what its account has no cells for, fails as *)
(* well.                                                                   *)
(***************************************************************************)
EXTENDS Integers, Sequences

CONSTANTS
  Wallets,
  Capacity,     \* of the cells, which are the numbers of its domain
  WithData,     \* the cells that hold more than capacity, which others create
  Fee,          \* what a fee rate makes of the size of an unlock; 0 is no rate
  Occupied,     \* what a recipient needs; 0 is no address
  CellLimit,    \* of a listing: 100 in the code
  None

VARIABLES
  loaded,       \* is there a deployment?
  wallet,
  preimage, digest, recipient, feeRate,
  address,      \* the protected one: the digest it is derived from
  cells, selected, prepared,
  lock, live,   \* of the cells
  op            \* the operation under way

form == <<preimage, digest, recipient, feeRate>>
shown == <<address, cells, selected, prepared>>
chain == <<lock, live>>
vars == <<loaded, wallet, form, shown, chain, op>>

Cells == DOMAIN Capacity
Preimages == {1, 2}
TooLong == 3
Recipients == DOMAIN Occupied
Rates == DOMAIN Fee

Kinds == {"derive", "refresh", "fund", "construct", "submit"}
Phases ==
  {"idle", "verify", "address", "cells", "complete", "again", "live", "send"}

Unlock ==
  [cell : Cells, preimage : Preimages, recipient : Recipients, feeRate : Rates]

\* tx: the unlock of the click, which is dropped when the wallet changes.
Op == [kind : Kinds, phase : Phases, tx : Unlock \cup {None}]

IdleOp == [kind |-> "derive", phase |-> "idle", tx |-> None]

busy == op.phase # "idle"

TypeOK ==
  /\ loaded \in BOOLEAN
  /\ wallet \in Wallets \cup {None}
  /\ preimage \in {0, TooLong} \cup Preimages /\ digest \in {0} \cup Preimages
  /\ recipient \in Recipients /\ feeRate \in Rates
  /\ address \in {0} \cup Preimages
  /\ cells \in Seq(Cells) /\ Len(cells) <= CellLimit /\ selected \in 1 .. CellLimit
  /\ prepared \in Unlock \cup {None}
  /\ lock \in [Cells -> {0} \cup Preimages] /\ live \subseteq Cells
  /\ op \in Op

Init ==
  /\ loaded = FALSE /\ wallet \in Wallets \cup {None}
  /\ preimage = 0 /\ digest = 0 /\ recipient = 0 /\ feeRate = 1
  /\ address = 0 /\ cells = <<>> /\ selected = 1 /\ prepared = None
  /\ lock = [c \in Cells |-> 0] /\ live = {}
  /\ op = IdleOp

-----------------------------------------------------------------------------
(***************************************************************************)
(* Locks and transactions.                                                 *)
(***************************************************************************)

\* The lock of a digest, if it is one.
deriveLock(d) == IF d \in Preimages THEN {d} ELSE {}

\* The contract: it accepts the preimage of the digest in its arguments.
main(args, witness) ==
  CASE args \notin Preimages -> 5
    [] witness = 0 -> 6
    [] witness = TooLong -> 8
    [] witness # args -> 7
    [] OTHER -> 0

\* The unlock of a cell, if there is one: of its preimage, of a cell of capacity only, and
\* with an output that holds what it occupies.
buildUnlock(cell) ==
  {tx \in [cell : {cell}, preimage : {preimage}, recipient : {recipient},
           feeRate : {feeRate}] :
     /\ preimage \in Preimages /\ lock[cell] \in deriveLock(preimage)
     /\ cell \notin WithData
     /\ feeRate # 0 /\ recipient # 0
     /\ Capacity[cell] - Fee[feeRate] >= Occupied[recipient]}

\* The cells of a lock that the indexer has, in its order, up to the limit: one listing.
liveCells(d) ==
  LET found == {c \in live \ WithData : lock[c] = d} IN
    {s \in UNION {[1 .. n -> found] : n \in 0 .. CellLimit} :
       /\ \A i, j \in DOMAIN s : i < j => s[i] < s[j]
       /\ \A c \in found \ {s[i] : i \in DOMAIN s} :
            Len(s) = CellLimit /\ \A i \in DOMAIN s : s[i] < c}

-----------------------------------------------------------------------------
(***************************************************************************)
(* The page and its fields.                                                *)
(***************************************************************************)

Blank ==
  /\ preimage' = 0 /\ digest' = 0 /\ recipient' = 0 /\ feeRate' = 1
  /\ address' = 0 /\ cells' = <<>> /\ selected' = 1 /\ prepared' = None
  /\ op' = IdleOp

\* A manifest that names its network, its RPC and its code cells, and holds no key.
parseDeployment ==
  /\ ~loaded /\ loaded' = TRUE
  /\ UNCHANGED <<wallet, form, shown, chain, op>>

\* Another deployment is to be loaded.
onReset ==
  /\ loaded /\ ~busy
  /\ loaded' = FALSE /\ Blank
  /\ UNCHANGED <<wallet, chain>>

Leave ==
  /\ loaded /\ busy
  /\ loaded' = FALSE /\ Blank
  /\ UNCHANGED <<wallet, chain>>

\* Another wallet, or none: the unlock that was constructed is dropped.
changeWallet ==
  /\ wallet' \in (Wallets \cup {None}) \ {wallet}
  /\ prepared' = None
  /\ UNCHANGED <<loaded, form, address, cells, selected, chain, op>>

Editable == loaded /\ ~busy

editPreimage ==
  /\ Editable
  /\ preimage' \in ({0, TooLong} \cup Preimages) \ {preimage}
  /\ prepared' = None
  /\ UNCHANGED <<loaded, wallet, digest, recipient, feeRate, address, cells, selected>>
  /\ UNCHANGED <<chain, op>>

\* Mutant: the cells of the digest before stay listed.
MutantEditDigest ==
  /\ Editable
  /\ digest' \in ({0} \cup Preimages) \ {digest}
  /\ address' = 0 /\ prepared' = None
  /\ UNCHANGED <<loaded, wallet, preimage, recipient, feeRate, cells, selected, chain, op>>

\* Another digest: nothing of the one before is shown any more.
editDigest ==
  /\ Editable
  /\ digest' \in ({0} \cup Preimages) \ {digest}
  /\ address' = 0 /\ cells' = <<>> /\ prepared' = None
  /\ UNCHANGED <<loaded, wallet, preimage, recipient, feeRate, selected, chain, op>>

select ==
  /\ Editable
  /\ selected' \in DOMAIN cells \ {selected}
  /\ prepared' = None
  /\ UNCHANGED <<loaded, wallet, form, address, cells, chain, op>>

editFee ==
  /\ Editable
  /\ feeRate' \in Rates \ {feeRate}
  /\ prepared' = None
  /\ UNCHANGED <<loaded, wallet, preimage, digest, recipient, address, cells, selected>>
  /\ UNCHANGED <<chain, op>>

editRecipient ==
  /\ Editable
  /\ recipient' \in Recipients \ {recipient}
  /\ prepared' = None
  /\ UNCHANGED <<loaded, wallet, preimage, digest, feeRate, address, cells, selected>>
  /\ UNCHANGED <<chain, op>>

-----------------------------------------------------------------------------
(***************************************************************************)
(* run: an operation begins, goes on to its next request, and ends.        *)
(***************************************************************************)

run(kind) ==
  /\ Editable
  /\ op' = [kind |-> kind, phase |-> "verify",
            tx |-> IF kind = "submit" THEN prepared ELSE None]
  /\ UNCHANGED <<loaded, wallet, form, shown, chain>>

Goes(phase) == op' = [op EXCEPT !.phase = phase]

Ends == op' = IdleOp

\* A request fails, a wallet refuses, or a check does not hold.
Fails ==
  /\ op.phase \notin {"idle", "address"}
  /\ Ends
  /\ UNCHANGED <<loaded, wallet, form, shown, chain>>

derive == run("derive")
refresh == run("refresh")
fund == wallet # None /\ address # 0 /\ run("fund")
construct == selected \in DOMAIN cells /\ run("construct")
submit == prepared # None /\ run("submit")

-----------------------------------------------------------------------------

At(kind, phase) == op.kind = kind /\ op.phase = phase

\* Derive: the digest of the preimage, and then its address.
derived ==
  /\ At("derive", "verify")
  /\ preimage \in Preimages
  /\ digest' = preimage /\ cells' = <<>> /\ prepared' = None
  /\ Goes("address")
  /\ UNCHANGED <<loaded, wallet, preimage, recipient, feeRate, address, selected, chain>>

\* Refresh: the address of the digest, if it is one, and then its cells.
verified ==
  /\ At("refresh", "verify")
  /\ deriveLock(digest) # {}
  /\ Goes("address")
  /\ UNCHANGED <<loaded, wallet, form, shown, chain>>

addressed ==
  /\ op.phase = "address"
  /\ address' = digest
  /\ IF op.kind = "derive" THEN Ends ELSE Goes("cells")
  /\ UNCHANGED <<loaded, wallet, form, cells, selected, prepared, chain>>

listed ==
  /\ op.phase = "cells"
  /\ cells' \in liveCells(digest) /\ selected' = 1 /\ prepared' = None
  /\ Ends
  /\ UNCHANGED <<loaded, wallet, form, address, chain>>

\* Fund: the deployment is verified before the cells are collected and again after; so is
\* the account of the wallet, which must be the same (if it is not, this Fails).
verifyWallet ==
  /\ op.kind = "fund" /\ op.phase \in {"verify", "again"}
  /\ Goes(IF op.phase = "verify" THEN "complete" ELSE "send")
  /\ UNCHANGED <<loaded, wallet, form, shown, chain>>

completeFeeBy ==
  /\ At("fund", "complete")
  /\ Goes("again")
  /\ UNCHANGED <<loaded, wallet, form, shown, chain>>

Unused == {c \in Cells : lock[c] = 0}

Create(d) ==
  \E c \in Unused :
    /\ \A b \in Unused : c <= b
    /\ lock' = [lock EXCEPT ![c] = d]
    /\ live' = live \cup {c}

funded ==
  /\ At("fund", "send")
  /\ \E d \in deriveLock(digest) : Create(d)
  /\ Ends
  /\ UNCHANGED <<loaded, wallet, form, shown>>

\* Construct: the cell that is selected is still live.
constructVerified ==
  /\ At("construct", "verify")
  /\ Goes("live")
  /\ UNCHANGED <<loaded, wallet, form, shown, chain>>

constructed ==
  /\ At("construct", "live")
  /\ cells[selected] \in live
  /\ prepared' \in buildUnlock(cells[selected])
  /\ Ends
  /\ UNCHANGED <<loaded, wallet, form, address, cells, selected, chain>>

\* Submit: the cell is live, and may be spent all the same before the node has it.
submitVerified ==
  /\ At("submit", "verify")
  /\ Goes("live")
  /\ UNCHANGED <<loaded, wallet, form, shown, chain>>

submitLive ==
  /\ At("submit", "live")
  /\ op.tx.cell \in live
  /\ Goes("send")
  /\ UNCHANGED <<loaded, wallet, form, shown, chain>>

\* The node takes it if the cell is live and its lock accepts.
submitted ==
  LET tx == op.tx IN
    /\ At("submit", "send")
    /\ tx.cell \in live /\ main(lock[tx.cell], tx.preimage) = 0
    /\ live' = live \ {tx.cell}
    /\ prepared' = None
    /\ cells' = <<>>
    /\ Ends
    /\ UNCHANGED <<loaded, wallet, form, address, selected, lock>>

\* Others fund cells, and spend them.
Others ==
  /\ \/ \E d \in Preimages : Create(d)
     \/ \E c \in live : live' = live \ {c} /\ UNCHANGED lock
  /\ UNCHANGED <<loaded, wallet, form, shown, op>>

Next ==
  \/ parseDeployment \/ onReset \/ Leave \/ changeWallet
  \/ editPreimage \/ editDigest \/ select \/ editFee \/ editRecipient
  \/ Others
  \/ derive \/ refresh \/ fund \/ construct \/ submit \/ Fails
  \/ derived \/ verified \/ addressed \/ listed
  \/ verifyWallet \/ completeFeeBy \/ funded
  \/ constructVerified \/ constructed
  \/ submitVerified \/ submitLive \/ submitted

Spec == Init /\ [][Next]_vars

-----------------------------------------------------------------------------

\* What the page shows is of its fields: the address of the digest, cells of its lock,
\* and an unlock of the cell that is selected, for the recipient and at the rate that
\* stand there; that unlock opens its cell.
ShownAnswersTheForm ==
  /\ busy \/ address \in {0, digest}
  /\ \A i \in DOMAIN cells : lock[cells[i]] = digest
  /\ prepared # None =>
       /\ selected \in DOMAIN cells /\ prepared.cell = cells[selected]
       /\ <<prepared.preimage, prepared.recipient, prepared.feeRate>>
            = <<preimage, recipient, feeRate>>
       /\ main(lock[prepared.cell], prepared.preimage) = 0
       /\ Capacity[prepared.cell] - Fee[prepared.feeRate] >= Occupied[prepared.recipient]
=============================================================================
