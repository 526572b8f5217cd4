------------------------- MODULE ReviewedTransactions -------------------------
(***************************************************************************)
(* Three pages of the portal prepare a transaction, show it for review,    *)
(* and send what was reviewed: the Token Lab, the Spore Studio and the     *)
(* CKB transfer.  Each guards itself in its own way against what happens   *)
(* while its promises are pending: the token page counts generations, the  *)
(* studio counts them and keeps an `active` flag, the transfer page only   *)
(* disables its fields.                                                    *)
(*                                                                         *)
(* One page runs at a time; every await is a step, between which the user  *)
(* edits and clicks, the wallet switches accounts, and another wallet is   *)
(* connected.  What a promise can fail with (the network is another, an    *)
(* input is spent, the balance is too low, the user refuses to sign) is    *)
(* one failure.  The reads of the account during a preparation are one.    *)
(***************************************************************************)
EXTENDS Integers

CONSTANTS
  Signers,      \* connected wallets
  Addresses,    \* their accounts
  Forms,        \* the contents of the fields of a page
  Ops,          \* the asynchronous operations that a page keeps track of
  MaxGeneration,   \* bound of generation
  Pages,        \* the pages to look at
  None

Kinds == {"prepare", "submit", "look", "generate"}

Actions == {"move", "destroy"}   \* destroy: burn tokens, melt a Spore

ASSUME PagesAssumption ==
  /\ Pages \subseteq {"token", "spore", "transfer"}
  /\ MaxGeneration \in Nat
  /\ None \notin Ops \cup Addresses \cup Signers \cup Forms \cup Kinds \cup Actions

VARIABLES
  page,        \* the page that runs
  signer,      \* the signer of the last render
  account,     \* account[s]: the address the wallet s recommends
  form,        \* the fields
  generation,  \* generation.current; on the transfer page, which has none, the
               \* count of the wallets connected
  busy,        \* busy, or loading
  active,      \* active.current of the studio
  hash,        \* has the studio a transaction hash to show?
  review,      \* the operation that prepared what is shown for review, or None
  confirmed,   \* the box that confirms a burn or a melt
  ops,         \* ops[o]: the state of operation o
  ticked,      \* history: what was shown when the box was last ticked
  sent         \* history: the operations that sent what they submit

wallet == <<page, signer, account>>
flags == <<busy, active>>
vars == <<wallet, form, generation, flags, hash, review, confirmed, ops, ticked, sent>>

Phases ==
  {"idle", "look", "sender", "build", "check", "sign", "recheck", "send", "follow",
   "done"}

\* What the closure of an operation holds, and how far it has come.
Op ==
  [kind : Kinds \cup {None}, phase : Phases,
   gen : 0 .. MaxGeneration, signer : Signers \cup {None},
   form : Forms \cup {None}, action : Actions \cup {None}, sender : Addresses \cup {None},
   review : Ops \cup {None}, confirmed : Ops \cup {None}]

IdleOp ==
  [kind |-> None, phase |-> "idle", gen |-> 0, signer |-> None, form |-> None,
   action |-> None, sender |-> None, review |-> None, confirmed |-> None]

TypeOK ==
  /\ page \in Pages /\ signer \in Signers /\ form \in Forms
  /\ account \in [Signers -> Addresses]
  /\ generation \in 0 .. MaxGeneration
  /\ busy \in BOOLEAN /\ active \in BOOLEAN /\ hash \in BOOLEAN /\ confirmed \in BOOLEAN
  /\ ops \in [Ops -> Op]
  /\ review \in {o \in Ops : ops[o].kind = "prepare" /\ ops[o].sender # None} \cup {None}
  /\ ticked \in Ops \cup {None}
  /\ sent \in SUBSET {o \in Ops : ops[o].kind = "submit"}

Running(o) == ops[o].phase \notin {"idle", "done"}

Init ==
  /\ page \in Pages /\ signer \in Signers /\ form \in Forms
  /\ account \in [Signers -> Addresses]
  /\ generation = 0
  /\ busy = FALSE /\ active = FALSE /\ hash = FALSE /\ confirmed = FALSE
  /\ review = None /\ ticked = None
  /\ ops = [o \in Ops |-> IdleOp]
  /\ sent = {}

-----------------------------------------------------------------------------
(* The wallet.                                                             *)

\* The wallet shows another account under the same signer object.
SwitchAccount ==
  /\ \E s \in Signers : \E a \in Addresses \ {account[s]} : account' = [account EXCEPT ![s] = a]
  /\ UNCHANGED <<page, signer, form, generation, flags, hash, review, confirmed,
                 ops, ticked, sent>>

\* Mutant: the effect leaves the flags to the operations that set them.
MutantSwitchSigner ==
  /\ generation < MaxGeneration
  /\ generation' = generation + 1
  /\ signer' \in Signers \ {signer}
  /\ review' = None
  /\ hash' = FALSE
  /\ confirmed' = (confirmed /\ page # "token")
  /\ UNCHANGED <<page, account, form, flags, ops, ticked, sent>>

\* Another wallet is connected; the effect on [signer] runs.  The transfer page
\* drops its review but goes on loading; the studio's box stays as it was.
SwitchSigner ==
  /\ generation < MaxGeneration
  /\ generation' = generation + 1
  /\ signer' \in Signers \ {signer}
  /\ review' = None
  /\ hash' = FALSE
  /\ confirmed' = (confirmed /\ page # "token")
  /\ busy' = (busy /\ page = "transfer")
  /\ active' = FALSE
  /\ UNCHANGED <<page, account, form, ops, ticked, sent>>

-----------------------------------------------------------------------------
(* The user.                                                               *)

\* The studio locks its fields while a review is shown.
FieldsEnabled == ~busy /\ (page = "spore" => review = None)

\* An edit drops the review.
Edit ==
  /\ FieldsEnabled
  /\ form' \in Forms \ {form}
  /\ review' = None
  /\ confirmed' = (confirmed /\ page # "token")
  /\ UNCHANGED <<wallet, generation, flags, hash, ops, ticked, sent>>

\* Discard preview, Cancel, Close review.  Only Cancel is always enabled.
Discard ==
  /\ review # None
  /\ busy => page = "transfer"
  /\ review' = None
  /\ hash' = FALSE
  /\ confirmed' = (confirmed /\ page # "token")
  /\ UNCHANGED <<wallet, form, generation, flags, ops, ticked, sent>>

\* The box is shown with a review that destroys something.
Tick ==
  /\ review # None /\ ops[review].action = "destroy"
  /\ confirmed' = ~confirmed
  /\ ticked' = IF confirmed THEN None ELSE review
  /\ UNCHANGED <<wallet, form, generation, flags, hash, review, ops, sent>>

\* Operation o begins with the closure of the last render.
Begin(o, op) ==
  /\ ops[o].phase = "idle"
  /\ ops' = [ops EXCEPT ![o] = [op EXCEPT !.signer = signer, !.form = form, !.gen = generation']]
  /\ busy' = TRUE
  /\ UNCHANGED <<wallet, form, ticked, sent>>

\* Mutant: the box stays ticked.
MutantClickPrepare(o) ==
  \E a \in Actions :
    /\ FieldsEnabled /\ ~active
    /\ page = "transfer" => a = "move"
    /\ page = "spore" => generation < MaxGeneration
    /\ generation' = IF page = "spore" THEN generation + 1 ELSE generation
    /\ Begin(o, [IdleOp EXCEPT !.kind = "prepare", !.phase = "sender", !.action = a])
    /\ review' = None
    /\ active' = (page = "spore")
    /\ hash' = FALSE
    /\ UNCHANGED confirmed

\* prepare, build, previewTx: what was shown is dropped at once.
ClickPrepare(o) ==
  \E a \in Actions :
    /\ FieldsEnabled /\ ~active
    /\ page = "transfer" => a = "move"
    /\ page = "spore" => generation < MaxGeneration
    /\ generation' = IF page = "spore" THEN generation + 1 ELSE generation
    /\ Begin(o, [IdleOp EXCEPT !.kind = "prepare", !.phase = "sender", !.action = a])
    /\ review' = None
    /\ active' = (page = "spore")
    /\ hash' = FALSE
    /\ confirmed' = FALSE

\* Mutant: the studio does not ask whether the review was sent.
MutantMaySubmit ==
  /\ review # None /\ ~busy /\ ~active
  /\ ops[review].action = "destroy" => confirmed

\* The buttons that sign and send what is shown.
MaySubmit ==
  /\ review # None /\ ~busy /\ ~active /\ ~hash
  /\ ops[review].action = "destroy" => confirmed

\* The token page drops the review it submits, the others keep it for now.
ClickSubmit(o) ==
  /\ MaySubmit
  /\ UNCHANGED <<generation, hash>>
  /\ Begin(o, [IdleOp EXCEPT !.kind = "submit", !.phase = "check", !.review = review,
                             !.confirmed = IF confirmed THEN ticked ELSE None])
  /\ review' = IF page = "token" THEN None ELSE review
  /\ confirmed' = (confirmed /\ page # "token")
  /\ active' = (page = "spore")

\* query, and read of the studio: they show cells and drop no review.
ClickLook(o) ==
  /\ (page = "token" /\ ~busy) \/ (page = "spore" /\ FieldsEnabled)
  /\ UNCHANGED <<generation, review, confirmed, active, hash>>
  /\ Begin(o, [IdleOp EXCEPT !.kind = "look", !.phase = "look"])

\* generate of the token page.
ClickGenerate(o) ==
  /\ page = "token" /\ FieldsEnabled
  /\ UNCHANGED <<generation, review, confirmed, active, hash>>
  /\ Begin(o, [IdleOp EXCEPT !.kind = "generate", !.phase = "look"])

-----------------------------------------------------------------------------
(* The promises.                                                           *)

Current(o) == ops[o].gen = generation

\* The finally of an operation: the studio leaves the flags of a newer
\* generation alone, the other pages do not look.
Finally(o) ==
  IF page = "spore" /\ ~Current(o)
  THEN UNCHANGED flags
  ELSE busy' = FALSE /\ active' = (active /\ ops[o].kind = "look")

\* An await of o is over and its function goes on.
Advance(o, phase) ==
  /\ ops' = [ops EXCEPT ![o].phase = phase]
  /\ UNCHANGED <<wallet, form, generation, flags, hash, review, confirmed, ticked, sent>>

\* o is over.  It is kept when it has something to show or has sent something,
\* and else forgotten: its name serves another operation.
End(o, kept) ==
  /\ ops' = [ops EXCEPT ![o] = IF kept THEN [@ EXCEPT !.phase = "done"] ELSE IdleOp]
  /\ Finally(o)
  /\ UNCHANGED <<wallet, generation, ticked>>

Fail(o) ==
  /\ Running(o)
  /\ End(o, o \in sent)
  /\ UNCHANGED <<form, hash, review, confirmed, sent>>

\* The accounts of the wallet, as a preparation reads them.
ReadSender(o) ==
  /\ ops[o].phase = "sender"
  /\ ops' = [ops EXCEPT ![o].phase = "build", ![o].sender = account[ops[o].signer]]
  /\ UNCHANGED <<wallet, form, generation, flags, hash, review, confirmed, ticked, sent>>

\* Mutant: the generation is not compared.
MutantShow(o) ==
  /\ ops[o].phase = "build"
  /\ End(o, TRUE)
  /\ review' = o
  /\ UNCHANGED <<form, hash, confirmed, sent>>

\* The transaction is built.  The transfer page shows it in any case.
Show(o) ==
  /\ ops[o].phase = "build"
  /\ LET shown == page = "transfer" \/ Current(o) IN
       /\ End(o, shown)
       /\ review' = IF shown THEN o ELSE review
  /\ UNCHANGED <<form, hash, confirmed, sent>>

\* A query or a read shows what it found.
Look(o) ==
  /\ ops[o].phase = "look" /\ ops[o].kind = "look"
  /\ End(o, FALSE)
  /\ UNCHANGED <<form, hash, review, confirmed, sent>>

\* The args and the address of the wallet that was connected at the click go
\* into the fields.
Generate(o) ==
  /\ ops[o].phase = "look" /\ ops[o].kind = "generate"
  /\ End(o, FALSE)
  /\ form' \in Forms
  /\ review' = None /\ confirmed' = FALSE
  /\ UNCHANGED <<hash, sent>>

\* Mutant: only the address is compared.
MutantSameWallet(o) == ops[ops[o].review].sender = account[ops[o].signer]

\* Is the wallet that submits, and its account, the one that prepared?  The
\* studio compares the account only: its review is of its own generation.
SameWallet(o) ==
  LET r == ops[ops[o].review] IN
  /\ page = "spore" \/ r.signer = ops[o].signer
  /\ r.sender = account[ops[o].signer]

\* The checks of sendReviewedTransaction, submitToken and signPrepared; the
\* first two then ask the wallet to sign and send.
Check(o) ==
  /\ ops[o].phase = "check" /\ SameWallet(o)
  /\ Advance(o, IF page = "spore" THEN "sign" ELSE "send")

\* The studio's wallet has signed.
Sign(o) ==
  /\ ops[o].phase = "sign" /\ Current(o)
  /\ Advance(o, "recheck")

\* After signing, the studio compares the account and the generation again and
\* broadcasts in the same turn.
Recheck(o) ==
  /\ ops[o].phase = "recheck" /\ SameWallet(o) /\ Current(o)
  /\ Advance(o, "send")

\* The studio returns when the generation is another.
Leave(o) ==
  /\ ops[o].phase \in {"sign", "recheck"} /\ page = "spore" /\ ~Current(o)
  /\ End(o, FALSE)
  /\ UNCHANGED <<form, hash, review, confirmed, sent>>

\* The transaction is out.  The transfer page drops the review, the studio shows
\* the hash when the generation is still its own and else returns.
Send(o) ==
  /\ ops[o].phase = "send"
  /\ sent' = sent \cup {o}
  /\ IF page = "spore" /\ ~Current(o)
     THEN End(o, TRUE) /\ UNCHANGED <<hash, review>>
     ELSE /\ ops' = [ops EXCEPT ![o].phase = "follow"]
          /\ hash' = (page = "spore")
          /\ review' = IF page = "transfer" THEN None ELSE review
          /\ UNCHANGED <<wallet, generation, flags, ticked>>
  /\ UNCHANGED <<form, confirmed>>

\* The service has recorded the submission, or the studio has observed it.
Follow(o) ==
  /\ ops[o].phase = "follow"
  /\ End(o, TRUE)
  /\ UNCHANGED <<form, hash, review, confirmed, sent>>

Click(o) == ClickPrepare(o) \/ ClickSubmit(o) \/ ClickLook(o) \/ ClickGenerate(o)

Resume(o) ==
  \/ ReadSender(o) \/ Show(o) \/ Look(o) \/ Generate(o)
  \/ Check(o) \/ Sign(o) \/ Recheck(o) \/ Leave(o) \/ Send(o) \/ Follow(o)
  \/ Fail(o)

Next ==
  \/ SwitchAccount \/ SwitchSigner \/ Edit \/ Discard \/ Tick
  \/ \E o \in Ops : Click(o) \/ Resume(o)

Spec == Init /\ [][Next]_vars

-----------------------------------------------------------------------------
(* Properties                                                              *)

Reviewed(o) == ops[ops[o].review]

(***************************************************************************)
(* What one wallet prepared, no other wallet sends, on any of the pages:   *)
(* neither a preview that arrives after another wallet was connected, nor  *)
(* two wallets that recommend the same address get around it.              *)
(***************************************************************************)
SentByItsWallet ==
  TypeOK /\ \A o \in sent : Reviewed(o).signer = ops[o].signer

(***************************************************************************)
(* No review is sent twice, although the studio goes on showing it after   *)
(* it was sent and the transfer page while it is being sent.               *)
(***************************************************************************)
SentOnce == \A o, p \in sent : ops[o].review = ops[p].review => o = p

(***************************************************************************)
(* The review that is shown belongs to what is on the page: on the token   *)
(* page and in the studio to the connected wallet, in the studio and on    *)
(* the transfer page to the fields as they are now.                        *)
(***************************************************************************)
ReviewIsCurrent ==
  review # None =>
    /\ page # "transfer" => ops[review].signer = signer
    /\ page # "token" => ops[review].form = form

(***************************************************************************)
(* The studio melts a Spore only after the box was ticked under that very  *)
(* review, although neither closing a review, nor an edit, nor another     *)
(* wallet clears the box.                                                  *)
(***************************************************************************)
MeltsAreConfirmed ==
  page = "spore" =>
    \A o \in sent : Reviewed(o).action = "destroy" => ops[o].confirmed = ops[o].review

(***************************************************************************)
(* No page is left locked: while busy or active is set an operation runs   *)
(* that will clear it.  In the studio that must be one of the current      *)
(* generation, since the others leave the flags alone.                     *)
(***************************************************************************)
NeverLocked ==
  busy \/ active => \E o \in Ops : Running(o) /\ (page = "spore" => Current(o))

(***************************************************************************)
(* docs/token-lab.md: "Burning requires an explicit confirmation."  Every  *)
(* burn that the token page sends was shown when the box was ticked.  The  *)
(* code clears the box when a preparation begins, not when it ends.        *)
(***************************************************************************)
BurnsAreConfirmed ==
  page = "token" =>
    \A o \in sent : Reviewed(o).action = "destroy" => ops[o].confirmed = ops[o].review

=============================================================================
