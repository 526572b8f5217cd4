---------------------------- MODULE IckbInspector ----------------------------
(***************************************************************************)
(* The iCKB page reads a snapshot of a CKB chain and previews conversions  *)
(* with it.  The snapshot is read request by request, from a node whose    *)
(* chain may reorganise, below the header read first or above it: the      *)
(* block of its height is compared with that header, once before the cells *)
(* of the pinned code are read and once after.  A preview uses the snapshot of the page, if it is *)
(* still fresh, and may wait for the recipient's address.                  *)
(*                                                                         *)
(* Amounts and rates are small numbers: the constants of model.ts scale.   *)
(* The age of a snapshot is one bit, and so is each branch of the chain.   *)
(***************************************************************************)
EXTENDS Integers

CONSTANTS
  Fields,      \* amount, direction and recipient, as records
  Ops,         \* the refreshes and previews under way
  Rates,       \* DAO rates a header may hold
  AR0, OCCUPIED, CAP, U64, U128,   \* of model.ts
  MinDeposit, MaxDeposit,          \* 1,000 and 1,000,000 CKB
  FEE, FEEBASE,                    \* the defaults of indicative
  CodeCells,   \* the cells of the dependency group
  MaxReorgs,   \* bound of reorgs
  None

VARIABLES
  network, fields,
  busy,
  snapshot,     \* the snapshot of the page, or None
  result,       \* the preview of the page, or None
  error,
  controller,   \* controller.current: the refresh that it aborts
  ops,
  branch,       \* the branch of the chain that the node is on
  reorgs        \* how often it changed

page == <<network, fields, busy, snapshot, result, error, controller>>
chain == <<branch, reorgs>>
vars == <<page, ops, chain>>

Networks == {"testnet", "mainnet"}
Branches == {1, 2}

Phases ==
  {"idle", "genesis", "tip", "canonical", "group", "cells", "final", "aborted",
   "address", "done"}

\* A header of one branch, or, where the branches part above it, common to both.  That
\* a branch grows beyond it changes nothing.
Header == [branch : Branches, ar : Rates, common : BOOLEAN]

\* current: is the revision of the operation still revision.current?
Op ==
  [phase : Phases, current : BOOLEAN, network : Networks \cup {None},
   fields : Fields \cup {None}, header : Header \cup {None}, cells : 0 .. CodeCells,
   read : SUBSET Branches, since : 0 .. MaxReorgs]

IdleOp ==
  [phase |-> "idle", current |-> FALSE, network |-> None, fields |-> None,
   header |-> None, cells |-> 0, read |-> {}, since |-> 0]

TypeOK ==
  /\ network \in Networks /\ fields \in Fields
  /\ {busy, error} \subseteq BOOLEAN
  /\ snapshot \in [network : Networks, header : Header, fresh : BOOLEAN] \cup {None}
  /\ result = None \/ result \in
       [network : Networks, fields : Fields, header : Header, output : 0 .. U128,
        estimate : 0 .. U64, plan : BOOLEAN]
  /\ controller \in Ops \cup {None}
  /\ ops \in [Ops -> Op]
  /\ branch \in Branches /\ reorgs \in 0 .. MaxReorgs

Init ==
  /\ network \in Networks /\ fields \in Fields
  /\ busy = FALSE /\ snapshot = None /\ result = None /\ error = FALSE
  /\ controller = None
  /\ ops = [o \in Ops |-> IdleOp]
  /\ branch = 1 /\ reorgs = 0

-----------------------------------------------------------------------------
(***************************************************************************)
(* The arithmetic of a conversion.                                         *)
(***************************************************************************)

EXCHANGE_DELTA == (OCCUPIED * AR0) \div CAP

rate(ar) == ar \in AR0 .. U64

Ceiling(a, b) == (a + b - 1) \div b

\* What the receipt of a deposit is worth: above the cap, a tenth is cut.
receiptValue(free, ar) ==
  LET amount == (free * AR0) \div ar IN
    IF amount > CAP THEN amount - (amount - CAP) \div 10 ELSE amount

Output(amount, ar, direction) ==
  LET denominator == ar + EXCHANGE_DELTA
      a == IF direction = "ckb-to-ickb" THEN AR0 ELSE denominator
      b == IF direction = "ckb-to-ickb" THEN denominator ELSE AR0
  IN Ceiling(amount * a * (FEEBASE - FEE), b * FEEBASE)

\* The order price of an amount, or None where it, or the amount, is out of range.
indicative(amount, ar, direction) ==
  IF /\ amount \in 1 .. (IF direction = "ckb-to-ickb" THEN U64 ELSE U128)
     /\ rate(ar)
     /\ Output(amount, ar, direction) <= (IF direction = "ckb-to-ickb" THEN U128 ELSE U64)
    THEN Output(amount, ar, direction) ELSE None

\* Is the snapshot of this network, and recent?
assertFresh(s, net) == s.network = net /\ s.fresh /\ rate(s.header.ar)

\* A deposit can be constructed of a fresh snapshot and an amount within the limits.
depositPlan(s, free) == assertFresh(s, s.network) /\ free \in MinDeposit .. MaxDeposit

-----------------------------------------------------------------------------
(***************************************************************************)
(* The page.                                                               *)
(***************************************************************************)

Free(o) == ops[o].phase \in {"idle", "done"}

\* invalidate: what runs is aborted, and of an older revision.
Stale ==
  [o \in Ops |->
     IF o = controller /\ ~Free(o) THEN [IdleOp EXCEPT !.phase = "aborted"]
     ELSE [ops[o] EXCEPT !.current = FALSE]]

Cleared == result' = None /\ error' = FALSE

Cancel ==
  /\ busy
  /\ ops' = Stale
  /\ busy' = FALSE /\ Cleared
  /\ UNCHANGED <<network, fields, snapshot, controller, chain>>

changeNetwork ==
  /\ ops' = Stale
  /\ network' \in Networks \ {network}
  /\ snapshot' = None /\ busy' = FALSE /\ Cleared
  /\ UNCHANGED <<fields, controller, chain>>

\* Mutant: an edit leaves the review of the old fields.
MutantChangeFields ==
  /\ snapshot # None
  /\ fields' \in Fields \ {fields}
  /\ busy' = FALSE
  /\ UNCHANGED <<ops, result, error, network, snapshot, controller, chain>>

\* The fields are there once a snapshot is.
changeFields ==
  /\ snapshot # None
  /\ ops' = Stale
  /\ fields' \in Fields \ {fields}
  /\ busy' = FALSE /\ Cleared
  /\ UNCHANGED <<network, snapshot, controller, chain>>

refresh(o) ==
  /\ ~busy /\ Free(o)
  /\ ops' = [Stale EXCEPT ![o] =
               [IdleOp EXCEPT !.phase = "genesis", !.current = TRUE, !.network = network,
                              !.since = reorgs]]
  /\ controller' = o
  /\ snapshot' = None /\ busy' = TRUE /\ Cleared
  /\ UNCHANGED <<network, fields, chain>>

\* The preview itself, of the fields f, with the snapshot of the page.
Preview(f) ==
  LET output == indicative(f.amount, snapshot.header.ar, f.direction) IN
    IF output = None THEN None
    ELSE [network |-> network, fields |-> f, header |-> snapshot.header, output |-> output,
          estimate |-> IF f.direction = "ckb-to-ickb"
                         THEN receiptValue(f.amount, snapshot.header.ar) ELSE 0,
          plan |-> FALSE]

\* preview with no recipient is over at once; with one, it waits for the address.
preview(o) ==
  /\ ~busy /\ snapshot # None /\ Free(o) /\ o # controller
  /\ LET quote == Preview(fields) IN
       IF ~assertFresh(snapshot, network) \/ quote = None
         THEN /\ result' = None /\ error' = TRUE /\ ops' = Stale
         ELSE IF fields.direction = "ckb-to-ickb" /\ fields.recipient
         THEN /\ ops' = [Stale EXCEPT ![o] =
                           [IdleOp EXCEPT !.phase = "address", !.current = TRUE,
                                          !.fields = fields]]
              /\ Cleared
         ELSE /\ result' = quote /\ error' = FALSE /\ ops' = Stale
  /\ UNCHANGED <<network, fields, busy, snapshot, controller, chain>>

\* The address is read, or is not one of the network; by then the snapshot may have
\* aged.
address(o) ==
  /\ ops[o].phase = "address"
  /\ ops' = [ops EXCEPT ![o] = [IdleOp EXCEPT !.phase = "done"]]
  /\ IF ~ops[o].current THEN UNCHANGED <<result, error>>
     ELSE \/ /\ depositPlan(snapshot, ops[o].fields.amount)
             /\ result' = [Preview(ops[o].fields) EXCEPT !.plan = TRUE]
             /\ UNCHANGED error
          \/ error' = TRUE /\ UNCHANGED result
  /\ UNCHANGED <<network, fields, busy, snapshot, controller, chain>>

-----------------------------------------------------------------------------
(***************************************************************************)
(* loadSnapshot, one step for each request.                                *)
(***************************************************************************)

Reorg ==
  /\ reorgs < MaxReorgs
  /\ branch' \in Branches \ {branch}
  /\ reorgs' = reorgs + 1
  /\ UNCHANGED <<page, ops>>

\* Five minutes pass, or half an hour since the block.
Age ==
  /\ snapshot # None /\ snapshot.fresh
  /\ snapshot' = [snapshot EXCEPT !.fresh = FALSE]
  /\ UNCHANGED <<network, fields, busy, result, error, controller, ops, chain>>

Read(o, update) ==
  /\ ops' = [ops EXCEPT ![o] = [update EXCEPT !.read = @ \cup {branch}]]
  /\ UNCHANGED <<page, chain>>

\* A request fails, in time or not, or answers what the snapshot must not have; or
\* the refresh was aborted, and its error is not shown.
rpc(o) ==
  /\ ops[o].phase \in Phases \ {"idle", "address", "done"}
  /\ ops' = [ops EXCEPT ![o] = [IdleOp EXCEPT !.phase = "done"]]
  /\ error' = (error \/ ops[o].phase # "aborted")
  /\ busy' = (busy /\ ~ops[o].current)
  /\ UNCHANGED <<network, fields, snapshot, result, controller, chain>>

readGenesis(o) ==
  /\ ops[o].phase = "genesis"
  /\ ops' = [ops EXCEPT ![o].phase = "tip"]
  /\ UNCHANGED <<page, chain>>

\* validateHeader: the header hashes to its name, and has a rate of at least AR0.
validateHeader(o) ==
  /\ ops[o].phase = "tip"
  /\ \E header \in Header :
       /\ header.branch = branch /\ rate(header.ar)
       /\ Read(o, [ops[o] EXCEPT !.phase = "canonical", !.header = header])

\* Is the header in the chain of the branch b?
InChain(header, b) == header.common \/ header.branch = b

\* Is the block of that height still the header?
Canonical(o) == InChain(ops[o].header, branch)

checkCanonical(o) ==
  /\ ops[o].phase = "canonical" /\ Canonical(o)
  /\ Read(o, [ops[o] EXCEPT !.phase = "group"])

\* The dependency group is live; it lists the cells of the code.
decodeDepGroup(o) ==
  /\ ops[o].phase = "group"
  /\ Read(o, [ops[o] EXCEPT !.phase = "cells", !.cells = CodeCells])

\* The next cell is live; after the last, every pinned code was among them.
readCodeCell(o) ==
  /\ ops[o].phase = "cells"
  /\ Read(o, [ops[o] EXCEPT !.phase = IF ops[o].cells = 1 THEN "final" ELSE "cells",
                            !.cells = @ - 1])

\* Mutant: the second look at the header is left out.
MutantLoadSnapshot(o) ==
  /\ ops[o].phase = "final"
  /\ ops' = [ops EXCEPT ![o] = [IdleOp EXCEPT !.phase = "done"]]
  /\ IF ops[o].current
       THEN /\ \E fresh \in BOOLEAN :
                 snapshot' = [network |-> ops[o].network, header |-> ops[o].header,
                              fresh |-> fresh]
            /\ busy' = FALSE
       ELSE UNCHANGED <<snapshot, busy>>
  /\ UNCHANGED <<network, fields, result, error, controller, chain>>

\* loadSnapshot returns, if the header is still in the chain.
loadSnapshot(o) ==
  /\ ops[o].phase = "final" /\ Canonical(o)
  /\ ops' = [ops EXCEPT ![o] = [IdleOp EXCEPT !.phase = "done"]]
  /\ IF ops[o].current
       THEN /\ \E fresh \in BOOLEAN :
                 snapshot' = [network |-> ops[o].network, header |-> ops[o].header,
                              fresh |-> fresh]
            /\ busy' = FALSE
       ELSE UNCHANGED <<snapshot, busy>>
  /\ UNCHANGED <<network, fields, result, error, controller, chain>>

Step(o) ==
  \/ rpc(o) \/ readGenesis(o) \/ validateHeader(o) \/ checkCanonical(o)
  \/ decodeDepGroup(o) \/ readCodeCell(o) \/ loadSnapshot(o) \/ address(o)

Next ==
  \/ Cancel \/ changeNetwork \/ changeFields \/ Age \/ Reorg
  \/ \E o \in Ops : refresh(o) \/ preview(o) \/ Step(o)

\* Every request has a timer, and an address is decoded.
Fairness == \A o \in Ops : WF_vars(Step(o))

Spec == Init /\ [][Next]_vars /\ Fairness

-----------------------------------------------------------------------------

\* The review belongs to the fields, the network and the snapshot that are shown,
\* and is worth at most what is deposited; the snapshot is of the network shown.
ShownAnswersTheForm ==
  /\ snapshot # None => snapshot.network = network
  /\ result # None =>
       /\ snapshot # None
       /\ result.network = network
       /\ result.fields = fields
       /\ result.header = snapshot.header
       /\ result.estimate <= fields.amount

\* What a snapshot says of the code and of the rate was read from a chain that its
\* header is in, if the chain reorganised at most once meanwhile.
SnapshotIsOneChain ==
  [][\A o \in Ops :
       (ops[o].phase = "final" /\ snapshot' # snapshot /\ reorgs - ops[o].since <= 1) =>
         \A b \in ops[o].read \cup {branch} : InChain(ops[o].header, b)]_vars

BusyEnds == busy ~> ~busy
=============================================================================
