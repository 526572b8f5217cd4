------------------------- MODULE LateAnswers_proofs -------------------------
(***************************************************************************)
(* The pages whose answers come late: the reviewed transactions, and the   *)
(* three inspectors.                                                       *)
(***************************************************************************)
EXTENDS ReviewedTransactions, Inspectors, TLAPS

-----------------------------------------------------------------------------
(***************************************************************************)
(* ReviewedTransactions, for any number of operations, wallets, accounts   *)
(* and forms, on each of the three pages.                                  *)
(*                                                                         *)
(* What a page shows for review was prepared by an operation that is over, *)
(* so neither its wallet nor its fields change any more.  The rest of the  *)
(* argument is about what may happen beside it: which operations are still *)
(* in play, that is able to touch the page when their promises settle.     *)
(***************************************************************************)

\* An operation whose Finally will look at the flags.
InPlay(o) == Running(o) /\ (page = "spore" => Current(o))

\* What can be shown for review.
IsReview(r) == r \in Ops /\ ops[r].kind = "prepare" /\ ops[r].phase = "done" /\ ops[r].sender # None

\* An operation goes through the phases of its kind and knows the wallet of
\* its generation.
OpOK(o) ==
  LET q == ops[o] IN
  /\ q.phase = "idle" <=> q.kind = None
  /\ q.kind = "prepare" => q.phase \in {"sender", "build", "done"}
  /\ q.kind = "prepare" /\ q.phase # "sender" => q.sender # None
  /\ q.kind \in {"look", "generate"} => q.phase = "look"
  /\ q.kind = "generate" => page = "token"
  /\ q.kind = "submit" => q.phase \in {"check", "sign", "recheck", "send", "follow", "done"}
  /\ o \in sent <=> q.kind = "submit" /\ q.phase \in {"follow", "done"}
  /\ q.kind # None =>
       /\ q.signer \in Signers /\ q.gen <= generation
       /\ q.gen = generation => q.signer = signer

\* A submission belongs to a review: of its wallet, once that was checked, and in
\* the studio of its generation and ticked.
SubmitOK(o) ==
  LET q == ops[o] IN
  q.kind = "submit" =>
    /\ IsReview(q.review)
    /\ page # "spore" => q.phase \notin {"sign", "recheck"}
    /\ page # "transfer" \/ q.phase # "check" => Reviewed(o).signer = q.signer
    /\ page = "spore" =>
         /\ q.gen = Reviewed(o).gen
         /\ Reviewed(o).action = "destroy" => q.confirmed = q.review
    /\ q.review = review =>
         /\ page # "token"
         /\ page = "transfer" => o \notin sent
         /\ page = "spore" /\ o \in sent => hash

OneSubmission ==
  \A o, p \in Ops :
    ops[o].kind = "submit" /\ ops[p].kind = "submit" /\ ops[o].review = ops[p].review => o = p

ReviewOK ==
  /\ ReviewIsCurrent
  /\ review # None =>
       /\ IsReview(review)
       /\ page = "spore" => ops[review].gen = generation /\ (confirmed => ticked = review)

\* The studio and the transfer page have one operation in play, which keeps them busy;
\* a preparation has the fields and the box to itself.
LockOK ==
  /\ NeverLocked
  /\ active => busy /\ page = "spore"
  /\ page # "token" =>
       /\ \A o, p \in Ops : InPlay(o) /\ InPlay(p) => o = p
       /\ \A o \in Ops : InPlay(o) =>
            /\ busy
            /\ ops[o].kind = "look" => ~active
            /\ ops[o].kind = "prepare" =>
                 /\ ops[o].form = form
                 /\ page = "spore" => review = None /\ ~confirmed

IInv ==
  /\ TypeOK
  /\ \A o \in Ops : OpOK(o)
  /\ \A o \in Ops : SubmitOK(o)
  /\ OneSubmission
  /\ ReviewOK
  /\ LockOK

-----------------------------------------------------------------------------
LEMMA IdleOpType ==
  /\ IdleOp \in Op /\ IdleOp.phase = "idle" /\ IdleOp.kind = None
  /\ 0 \in 0 .. MaxGeneration /\ None \notin Kinds
<1>1. 0 \in 0 .. MaxGeneration
  BY PagesAssumption
<1> QED BY <1>1, PagesAssumption DEF IdleOp, Op, Phases

LEMMA InitInv == Init => IInv
<1> SUFFICES ASSUME Init PROVE IInv
  OBVIOUS
<1>1. IdleOp \in Op /\ IdleOp.phase = "idle" /\ IdleOp.kind = None
  BY IdleOpType
<1>2. TypeOK
  BY <1>1, IdleOpType DEF Init, TypeOK
<1>3. \A o \in Ops : ops[o] = IdleOp /\ OpOK(o) /\ SubmitOK(o)
  BY <1>1, PagesAssumption DEF Kinds, Actions, Init, OpOK, SubmitOK
<1>4. OneSubmission /\ ReviewOK
  BY <1>1, <1>3, PagesAssumption DEF Kinds, Actions, Init, OneSubmission, ReviewOK, ReviewIsCurrent
<1>5. LockOK
  BY <1>1, <1>3 DEF Init, LockOK, NeverLocked, InPlay, Running
<1> QED BY <1>2, <1>3, <1>4, <1>5 DEF IInv

\* The steps that leave the operations alone.
LEMMA EnvironmentInv ==
  ASSUME IInv, SwitchAccount \/ SwitchSigner \/ Edit \/ Discard \/ Tick
  PROVE  IInv'
<1>1. /\ TypeOK /\ OneSubmission /\ ReviewOK /\ LockOK
      /\ \A o \in Ops : OpOK(o)
      /\ \A o \in Ops : SubmitOK(o)
      /\ UNCHANGED <<page, ops, sent>>
  BY DEF IInv, SwitchAccount, SwitchSigner, Edit, Discard, Tick, wallet
<1>2. CASE SwitchAccount
  <2>1. TypeOK'
    BY <1>1, <1>2 DEF SwitchAccount, TypeOK, flags
  <2>2. \A o \in Ops : OpOK(o)' /\ SubmitOK(o)'
    BY <1>1, <1>2 DEF SwitchAccount, OpOK, SubmitOK, IsReview, Reviewed, flags
  <2>3. OneSubmission' /\ ReviewOK'
    BY <1>1, <1>2 DEF SwitchAccount, OneSubmission, ReviewOK, ReviewIsCurrent, IsReview
  <2>4. LockOK'
    BY <1>1, <1>2 DEF SwitchAccount, LockOK, NeverLocked, InPlay, Running, Current, flags
  <2> QED BY <2>1, <2>2, <2>3, <2>4 DEF IInv
<1>3. CASE SwitchSigner
  <2>1. generation \in Nat /\ generation' = generation + 1 /\ generation' \in 0 .. MaxGeneration
    BY <1>1, <1>3, PagesAssumption DEF SwitchSigner, TypeOK
  <2>2. TypeOK'
    BY <1>1, <1>3, <2>1 DEF SwitchSigner, TypeOK
  <2>3. \A o \in Ops : ops[o].kind # None => ~Current(o)' /\ ops[o].gen <= generation'
    <3>1. \A o \in Ops : ops[o].gen \in Nat
      BY <1>1 DEF TypeOK, Op
    <3> QED BY <1>1, <2>1, <3>1 DEF OpOK, Current
  <2>4. \A o \in Ops : OpOK(o)'
    BY <1>1, <2>3 DEF OpOK, Current
  <2>5. \A o \in Ops : ops[o].review = review' => ~IsReview(ops[o].review)
    BY <1>3, PagesAssumption DEF SwitchSigner, IsReview
  <2>6. \A o \in Ops : SubmitOK(o)'
    BY <1>1, <2>5 DEF SubmitOK, IsReview, Reviewed
  <2>7. OneSubmission' /\ ReviewOK'
    BY <1>1, <1>3 DEF SwitchSigner, OneSubmission, ReviewOK, ReviewIsCurrent
  <2>8. CASE page = "transfer"
    <3>1. LockOK'
      BY <1>1, <1>3, <2>8
      DEF SwitchSigner, LockOK, NeverLocked, InPlay, Running
    <3> QED BY <2>2, <2>4, <2>6, <2>7, <3>1 DEF IInv
  <2>9. CASE page # "transfer"
    <3>1. page = "spore" => \A o \in Ops : ~InPlay(o)'
      BY <1>1, <2>3 DEF OpOK, InPlay, Running
    <3>2. page # "spore" => page = "token"
      BY <1>1, <2>9, PagesAssumption DEF TypeOK
    <3>3. LockOK'
      BY <1>1, <1>3, <2>9, <3>1, <3>2 DEF SwitchSigner, LockOK, NeverLocked
    <3> QED BY <2>2, <2>4, <2>6, <2>7, <3>3 DEF IInv
  <2> QED BY <2>8, <2>9
<1>4. CASE Edit
  <2>1. TypeOK'
    BY <1>1, <1>4 DEF Edit, TypeOK, wallet, flags
  <2>2. \A o \in Ops : OpOK(o)'
    BY <1>1, <1>4 DEF Edit, OpOK, wallet
  <2>3. \A o \in Ops : ops[o].review = review' => ~IsReview(ops[o].review)
    BY <1>4, PagesAssumption DEF Edit, IsReview
  <2>4. \A o \in Ops : SubmitOK(o)'
    BY <1>1, <2>3 DEF SubmitOK, IsReview, Reviewed
  <2>5. OneSubmission' /\ ReviewOK'
    BY <1>1, <1>4 DEF Edit, OneSubmission, ReviewOK, ReviewIsCurrent
  <2>6. LockOK'
    BY <1>1, <1>4
    DEF Edit, FieldsEnabled, LockOK, NeverLocked, InPlay, Running, Current, wallet, flags
  <2> QED BY <2>1, <2>2, <2>4, <2>5, <2>6 DEF IInv
<1>5. CASE Discard
  <2>1. TypeOK'
    BY <1>1, <1>5 DEF Discard, TypeOK, wallet, flags
  <2>2. \A o \in Ops : OpOK(o)'
    BY <1>1, <1>5 DEF Discard, OpOK, wallet
  <2>3. \A o \in Ops : ops[o].review = review' => ~IsReview(ops[o].review)
    BY <1>5, PagesAssumption DEF Discard, IsReview
  <2>4. \A o \in Ops : SubmitOK(o)'
    BY <1>1, <2>3 DEF SubmitOK, IsReview, Reviewed
  <2>5. OneSubmission' /\ ReviewOK'
    BY <1>1, <1>5 DEF Discard, OneSubmission, ReviewOK, ReviewIsCurrent
  <2>6. LockOK'
    BY <1>1, <1>5
    DEF Discard, LockOK, NeverLocked, InPlay, Running, Current, wallet, flags
  <2> QED BY <2>1, <2>2, <2>4, <2>5, <2>6 DEF IInv
<1>6. CASE Tick
  <2>1. TypeOK'
    BY <1>1, <1>6 DEF Tick, TypeOK, wallet, flags
  <2>2. \A o \in Ops : OpOK(o)' /\ SubmitOK(o)'
    BY <1>1, <1>6 DEF Tick, OpOK, SubmitOK, IsReview, Reviewed, wallet
  <2>3. OneSubmission' /\ ReviewOK'
    BY <1>1, <1>6 DEF Tick, OneSubmission, ReviewOK, ReviewIsCurrent, IsReview, wallet, TypeOK
  <2>4. LockOK'
    BY <1>1, <1>6 DEF Tick, LockOK, NeverLocked, InPlay, Running, Current, wallet, flags
  <2> QED BY <2>1, <2>2, <2>3, <2>4 DEF IInv
<1> QED BY <1>2, <1>3, <1>4, <1>5, <1>6

-----------------------------------------------------------------------------
\* A step of o, which is not over, leaves the others and what can be reviewed as
\* they are.
LEMMA OthersKeep ==
  ASSUME IInv, NEW o \in Ops, ops[o].phase # "done",
         \A p \in Ops \ {o} : ops'[p] = ops[p] /\ (p \in sent' <=> p \in sent),
         UNCHANGED <<page, signer>>, generation' \in {generation, generation + 1},
         review' \in {review, None, o},
         page = "spore" /\ hash => hash' \/ review' \in {None, o}
  PROVE  /\ \A r : IsReview(r) => r # o /\ IsReview(r)'
         /\ \A p \in Ops \ {o} : OpOK(p)' /\ SubmitOK(p)'
<1>1. \A r : IsReview(r) => r # o /\ r # None /\ ops'[r] = ops[r] /\ IsReview(r)'
  BY PagesAssumption DEF IsReview
<1>2. ASSUME NEW p \in Ops \ {o} PROVE OpOK(p)'
  <2>1. OpOK(p) /\ ops[p].gen \in Nat /\ generation \in Nat
    BY PagesAssumption DEF IInv, TypeOK, Op
  <2> QED BY <2>1 DEF OpOK
<1>3. ASSUME NEW p \in Ops \ {o} PROVE SubmitOK(p)'
  <2>1. SubmitOK(p)
    BY DEF IInv
  <2> QED BY <1>1, <2>1 DEF SubmitOK, Reviewed
<1> QED BY <1>1, <1>2, <1>3

\* The parts of the type invariant that the others imply.
LEMMA TypesFollow ==
  ASSUME TypeOK, UNCHANGED wallet, form' \in Forms, generation' \in 0 .. MaxGeneration,
         busy' \in BOOLEAN, active' \in BOOLEAN, hash' \in BOOLEAN, confirmed' \in BOOLEAN,
         ticked' = ticked, ops' \in [Ops -> Op], sent' \subseteq Ops,
         \A o \in Ops : OpOK(o)', ReviewOK'
  PROVE  TypeOK'
<1>1. review' # None => review' \in Ops /\ ops'[review'].kind = "prepare" /\ ops'[review'].sender # None
  BY DEF ReviewOK, IsReview
<1>2. \A o \in sent' : ops'[o].kind = "submit"
  BY DEF OpOK
<1> QED BY <1>1, <1>2 DEF TypeOK, wallet

\* A click: o begins, with nothing else in play on the pages that have one
\* operation at a time.
LEMMA BeginStep ==
  ASSUME IInv, NEW o \in Ops, NEW op \in Op, Begin(o, op),
         op.kind # None, op.phase # "idle",
         generation' \in {generation, generation + 1}, generation' \in 0 .. MaxGeneration
  PROVE  /\ ops' \in [Ops -> Op]
         /\ ops'[o] = [op EXCEPT !.signer = signer, !.form = form, !.gen = generation']
         /\ ops'[o] \in Op /\ ops'[o].kind = op.kind /\ ops'[o].phase = op.phase
         /\ ops'[o].sender = op.sender /\ ops'[o].review = op.review
         /\ ops'[o].confirmed = op.confirmed /\ ops'[o].action = op.action
         /\ ops'[o].signer = signer /\ ops'[o].form = form /\ ops'[o].gen = generation'
         /\ \A p \in Ops \ {o} : ops'[p] = ops[p]
         /\ ops[o].phase = "idle" /\ o \notin sent /\ UNCHANGED <<page, signer, form, sent>>
<1> DEFINE new == [op EXCEPT !.signer = signer, !.form = form, !.gen = generation']
<1>1. signer \in Signers /\ form \in Forms /\ ops \in [Ops -> Op]
  BY DEF IInv, TypeOK
<1>2. /\ new \in Op /\ new.kind = op.kind /\ new.phase = op.phase
      /\ new.sender = op.sender /\ new.review = op.review
      /\ new.confirmed = op.confirmed /\ new.action = op.action
      /\ new.signer = signer /\ new.form = form /\ new.gen = generation'
  BY <1>1 DEF Op
<1>3. ops' = [ops EXCEPT ![o] = new] /\ ops[o].phase = "idle"
  BY DEF Begin
<1>4. OpOK(o)
  BY DEF IInv
<1>5. o \notin sent
  BY <1>3, <1>4 DEF OpOK
<1> HIDE DEF new
<1> QED BY <1>1, <1>2, <1>3, <1>5 DEF Begin, wallet, new

LEMMA BeginLock ==
  ASSUME IInv, NEW o \in Ops, ~busy, busy', UNCHANGED <<page, form>>,
         generation' = generation \/ (page = "spore" /\ generation' = generation + 1),
         \A p \in Ops \ {o} : ops'[p] = ops[p],
         ops'[o].phase \notin {"idle", "done"}, ops'[o].gen = generation', ops'[o].form = form,
         active' => page = "spore",
         ops'[o].kind = "look" => ~active',
         ops'[o].kind = "prepare" => review' = None /\ ~confirmed'
  PROVE  LockOK'
<1>1. NeverLocked'
  BY DEF NeverLocked, Running, Current
<1>2. ASSUME page # "token", NEW p \in Ops \ {o} PROVE ~InPlay(p)'
  <2>1. ~InPlay(p)
    BY <1>2 DEF IInv, LockOK
  <2>2. OpOK(p) /\ ops[p].gen \in Nat /\ generation \in Nat
    BY PagesAssumption DEF IInv, TypeOK, Op
  <2> QED BY <2>1, <2>2 DEF InPlay, Running, Current, OpOK
<1> QED BY <1>1, <1>2 DEF LockOK

LEMMA ClickPrepareInv == ASSUME IInv, NEW o \in Ops, ClickPrepare(o) PROVE IInv'
<1>1. PICK a \in Actions :
        /\ FieldsEnabled /\ ~active
        /\ page = "spore" => generation < MaxGeneration
        /\ generation' = generation \/ (page = "spore" /\ generation' = generation + 1)
        /\ Begin(o, [IdleOp EXCEPT !.kind = "prepare", !.phase = "sender", !.action = a])
        /\ review' = None /\ active' = (page = "spore") /\ hash' = FALSE /\ confirmed' = FALSE
  BY DEF ClickPrepare
<1> DEFINE op == [IdleOp EXCEPT !.kind = "prepare", !.phase = "sender", !.action = a]
<1>2. op \in Op /\ op.kind = "prepare" /\ op.phase = "sender"
  BY IdleOpType, ZenonT(60) DEF Op, Phases, Kinds
<1>3. /\ generation \in 0 .. MaxGeneration /\ generation' \in 0 .. MaxGeneration
      /\ generation' \in {generation, generation + 1}
  BY <1>1, PagesAssumption DEF IInv, TypeOK
<1>4. Begin(o, op)
  BY <1>1
<1>5. op.kind # None
  BY <1>2, PagesAssumption DEF Kinds
<1> HIDE DEF op
<1>6. /\ ops' \in [Ops -> Op] /\ \A p \in Ops \ {o} : ops'[p] = ops[p]
      /\ ops'[o].kind = "prepare" /\ ops'[o].phase = "sender" /\ ops'[o].signer = signer
      /\ ops'[o].form = form /\ ops'[o].gen = generation'
      /\ ops[o].phase = "idle" /\ o \notin sent /\ UNCHANGED <<page, signer, form, sent>>
  BY <1>2, <1>3, <1>4, <1>5, BeginStep
<1>7. \A p \in Ops \ {o} : OpOK(p)' /\ SubmitOK(p)'
  BY <1>1, <1>3, <1>6, OthersKeep
<1>8. OpOK(o)' /\ SubmitOK(o)'
  <2>1. signer \in Signers /\ generation' \in Nat
    BY <1>3 DEF IInv, TypeOK
  <2> QED BY <1>2, <1>5, <1>6, <2>1 DEF OpOK, SubmitOK
<1>9. OneSubmission' /\ ReviewOK'
  BY <1>1, <1>6 DEF IInv, OneSubmission, ReviewOK, ReviewIsCurrent
<1>10. ~busy /\ busy'
  BY <1>1 DEF FieldsEnabled, Begin
<1>11. LockOK'
  <2>1. ops'[o].phase \notin {"idle", "done"} /\ ops'[o].kind # "look"
    BY <1>6
  <2>2. (active' => page = "spore") /\ review' = None /\ ~confirmed'
    BY <1>1
  <2>3. generation' = generation \/ (page = "spore" /\ generation' = generation + 1)
    BY <1>1
  <2> QED BY <1>6, <1>10, <2>1, <2>2, <2>3, BeginLock
<1>12. TypeOK'
  <2>1. /\ TypeOK /\ UNCHANGED <<wallet, ticked>> /\ form' \in Forms /\ sent' \subseteq Ops
        /\ busy' \in BOOLEAN /\ active' \in BOOLEAN /\ hash' \in BOOLEAN /\ confirmed' \in BOOLEAN
    BY <1>1, <1>6, <1>10 DEF Begin, IInv, TypeOK
  <2> QED BY <1>3, <1>6, <1>7, <1>8, <1>9, <2>1, TypesFollow
<1> QED BY <1>7, <1>8, <1>9, <1>11, <1>12 DEF IInv

\* The submitted review was not submitted before: it is shown until it is sent,
\* and a submission of it that runs is in play.
LEMMA ClickSubmitInv == ASSUME IInv, NEW o \in Ops, ClickSubmit(o) PROVE IInv'
<1>1. PICK r \in Ops : r = review /\ IsReview(r)
  BY DEF ClickSubmit, MaySubmit, IInv, ReviewOK, IsReview
<1>2. PICK seen \in Ops \cup {None} : seen = IF confirmed THEN ticked ELSE None
  BY DEF IInv, TypeOK
<1> DEFINE op == [IdleOp EXCEPT !.kind = "submit", !.phase = "check", !.review = r,
                                !.confirmed = seen]
<1>3. /\ op \in Op /\ op.kind = "submit" /\ op.phase = "check" /\ op.review = r
      /\ op.confirmed = seen /\ op.kind # None
  BY IdleOpType, ZenonT(60) DEF Op, Phases, Kinds
<1>4. Begin(o, op)
  BY <1>1, <1>2 DEF ClickSubmit
<1>5. /\ ~busy /\ busy' /\ UNCHANGED <<generation, hash>>
      /\ review' = IF page = "token" THEN None ELSE r
      /\ confirmed' = (confirmed /\ page # "token")
      /\ active' = (page = "spore")
      /\ ~hash /\ (ops[r].action = "destroy" => confirmed)
  BY <1>1 DEF ClickSubmit, MaySubmit, Begin
<1>6. /\ TypeOK /\ ReviewOK /\ r # None
      /\ generation' \in 0 .. MaxGeneration /\ generation' \in {generation, generation + 1}
  BY <1>5, PagesAssumption DEF IInv, TypeOK
<1> HIDE DEF op
<1>7. /\ ops' \in [Ops -> Op] /\ \A p \in Ops \ {o} : ops'[p] = ops[p]
      /\ ops'[o].kind = "submit" /\ ops'[o].phase = "check" /\ ops'[o].signer = signer
      /\ ops'[o].review = r /\ ops'[o].confirmed = seen
      /\ ops'[o].form = form /\ ops'[o].gen = generation
      /\ ops[o].phase = "idle" /\ o \notin sent /\ UNCHANGED <<page, signer, form, sent>>
  BY <1>3, <1>4, <1>5, <1>6, BeginStep, ZenonT(60)
<1>8. /\ \A p \in Ops \ {o} : OpOK(p)' /\ SubmitOK(p)'
      /\ r # o /\ ops'[r] = ops[r] /\ IsReview(r)'
  <2>1. /\ review' \in {review, None, o} /\ UNCHANGED hash
        /\ ops[o].phase # "done"
        /\ \A p \in Ops \ {o} : ops'[p] = ops[p] /\ (p \in sent' <=> p \in sent)
    BY <1>1, <1>5, <1>7
  <2>2. page = "spore" /\ hash => hash' \/ review' \in {None, o}
    BY <2>1
  <2>3. /\ \A q : IsReview(q) => q # o /\ IsReview(q)'
        /\ \A p \in Ops \ {o} : OpOK(p)' /\ SubmitOK(p)'
    BY <1>6, <1>7, <2>1, <2>2, OthersKeep
  <2> QED BY <1>1, <1>7, <2>3
<1>9. OpOK(o)'
  <2>1. signer \in Signers /\ generation' \in Nat
    BY <1>6 DEF TypeOK
  <2> QED BY <1>3, <1>5, <1>7, <2>1 DEF OpOK
<1>10. SubmitOK(o)'
  <2>1. page # "transfer" => ops[r].signer = signer
    BY <1>1, <1>6 DEF ReviewOK, ReviewIsCurrent
  <2>2. page = "spore" => ops[r].gen = generation /\ (ops[r].action = "destroy" => seen = r)
    BY <1>1, <1>2, <1>5, <1>6 DEF ReviewOK
  <2> QED BY <1>5, <1>6, <1>7, <1>8, <2>1, <2>2 DEF SubmitOK, Reviewed, IsReview
<1>11. OneSubmission'
  <2>1. ASSUME NEW p \in Ops \ {o}, ops[p].kind = "submit", ops[p].review = r PROVE FALSE
    <3>1. SubmitOK(p) /\ OpOK(p) /\ LockOK
      BY DEF IInv
    <3>2. page # "token" /\ p \notin sent
      BY <2>1, <3>1, <1>1, <1>5, <1>6, PagesAssumption DEF SubmitOK, TypeOK
    <3>3. Running(p)
      BY <2>1, <3>1, <3>2 DEF OpOK, Running
    <3>4. page = "spore" => Current(p)
      BY <2>1, <3>1, <1>1, <1>6 DEF SubmitOK, ReviewOK, Reviewed, Current
    <3> QED BY <3>1, <3>2, <3>3, <3>4, <1>5 DEF LockOK, InPlay
  <2> QED BY <2>1, <1>7 DEF IInv, OneSubmission
<1>12. ReviewOK'
  <2>1. ticked' = ticked
    BY <1>4 DEF Begin
  <2> QED BY <1>1, <1>5, <1>6, <1>7, <1>8, <2>1 DEF ReviewOK, ReviewIsCurrent
<1>13. LockOK'
  <2>1. /\ ops'[o].kind # "look" /\ ops'[o].kind # "prepare" /\ generation' = generation
        /\ ops'[o].phase \notin {"idle", "done"} /\ ops'[o].gen = generation'
    BY <1>5, <1>7
  <2>2. ~busy /\ busy' /\ (active' => page = "spore")
    BY <1>5
  <2>3. ops'[o].kind = "prepare" => review' = None /\ ~confirmed'
    BY <2>1
  <2>4. ops'[o].kind = "look" => ~active'
    BY <2>1
  <2>5. generation' = generation \/ (page = "spore" /\ generation' = generation + 1)
    BY <2>1
  <2> QED BY <1>7, <2>1, <2>2, <2>3, <2>4, <2>5, BeginLock
<1>14. TypeOK'
  <2>1. /\ UNCHANGED <<wallet, ticked>> /\ form' \in Forms /\ sent' \subseteq Ops
        /\ busy' \in BOOLEAN /\ active' \in BOOLEAN /\ hash' \in BOOLEAN /\ confirmed' \in BOOLEAN
    BY <1>4, <1>5, <1>6, <1>7 DEF Begin, TypeOK
  <2> QED BY <1>6, <1>7, <1>8, <1>9, <1>12, <2>1, TypesFollow
<1> QED BY <1>8, <1>9, <1>10, <1>11, <1>12, <1>13, <1>14 DEF IInv

LEMMA ClickLookInv ==
  ASSUME IInv, NEW o \in Ops, ClickLook(o) \/ ClickGenerate(o)
  PROVE  IInv'
<1> PICK kind \in {"look", "generate"} :
      /\ Begin(o, [IdleOp EXCEPT !.kind = kind, !.phase = "look"])
      /\ kind = "generate" => page = "token"
  BY DEF ClickLook, ClickGenerate
<1> DEFINE op == [IdleOp EXCEPT !.kind = kind, !.phase = "look"]
<1>1. op \in Op /\ op.kind = kind /\ op.phase = "look"
  BY IdleOpType, ZenonT(60) DEF Op, Phases, Kinds
<1>2. /\ Begin(o, op) /\ ~busy /\ busy'
      /\ UNCHANGED <<generation, review, confirmed, active, hash>>
  BY DEF ClickLook, ClickGenerate, FieldsEnabled, Begin
<1>3. /\ TypeOK /\ generation \in 0 .. MaxGeneration /\ op.kind # None
  BY <1>1, PagesAssumption DEF IInv, TypeOK, Kinds
<1> HIDE DEF op
<1>4. /\ ops' \in [Ops -> Op] /\ \A p \in Ops \ {o} : ops'[p] = ops[p]
      /\ ops'[o].kind = kind /\ ops'[o].phase = "look" /\ ops'[o].signer = signer
      /\ ops'[o].form = form /\ ops'[o].gen = generation'
      /\ ops[o].phase = "idle" /\ o \notin sent /\ UNCHANGED <<page, signer, form, sent>>
  BY <1>1, <1>2, <1>3, BeginStep
<1>5. /\ \A p \in Ops \ {o} : OpOK(p)' /\ SubmitOK(p)'
      /\ \A r : IsReview(r) => ops'[r] = ops[r] /\ IsReview(r)'
  <2>1. \A r : IsReview(r) => r \in Ops
    BY DEF IsReview
  <2> QED BY <1>2, <1>4, <2>1, OthersKeep
<1>6. OpOK(o)' /\ SubmitOK(o)'
  <2>1. signer \in Signers /\ generation' \in Nat
    BY <1>2, <1>3 DEF TypeOK
  <2> QED BY <1>1, <1>3, <1>4, <2>1 DEF OpOK, SubmitOK
<1>7. OneSubmission' /\ ReviewOK'
  BY <1>2, <1>4, <1>5 DEF IInv, OneSubmission, ReviewOK, ReviewIsCurrent, Begin
<1>8. LockOK'
  <2>1. ~busy /\ busy' /\ ~active'
    BY <1>2 DEF IInv, LockOK
  <2>2. /\ ops'[o].kind # "prepare" /\ ops'[o].phase \notin {"idle", "done"}
        /\ generation' = generation
    BY <1>2, <1>4
  <2>3. ops'[o].kind = "prepare" => review' = None /\ ~confirmed'
    BY <2>2
  <2>4. active' => page = "spore"
    BY <2>1
  <2>5. generation' = generation \/ (page = "spore" /\ generation' = generation + 1)
    BY <2>2
  <2> QED BY <1>4, <2>1, <2>2, <2>3, <2>4, <2>5, BeginLock
<1>9. TypeOK'
  <2>1. /\ UNCHANGED <<wallet, ticked>> /\ form' \in Forms /\ sent' \subseteq Ops
        /\ busy' \in BOOLEAN /\ active' \in BOOLEAN /\ hash' \in BOOLEAN /\ confirmed' \in BOOLEAN
    BY <1>2, <1>3, <1>4 DEF Begin, TypeOK
  <2> QED BY <1>2, <1>3, <1>4, <1>5, <1>6, <1>7, <2>1, TypesFollow
<1> QED BY <1>5, <1>6, <1>7, <1>8, <1>9 DEF IInv

-----------------------------------------------------------------------------
\* A promise of o settles and o goes on.
LEMMA AdvanceInv ==
  ASSUME IInv, NEW o \in Ops, NEW q \in Op, Running(o), ops' = [ops EXCEPT ![o] = q],
         q.phase \notin {"idle", "done"}, q.kind = ops[o].kind, q.gen = ops[o].gen,
         q.form = ops[o].form, q.review = ops[o].review,
         UNCHANGED <<wallet, form, generation, flags, hash, review, confirmed, ticked, sent>>,
         OpOK(o)', SubmitOK(o)'
  PROVE  IInv'
<1>1. /\ ops' \in [Ops -> Op] /\ ops'[o] = q /\ \A p \in Ops \ {o} : ops'[p] = ops[p]
      /\ UNCHANGED <<page, signer, form, generation, busy, active, hash, review, confirmed, ticked, sent>>
  BY DEF IInv, TypeOK, wallet, flags
<1>2. /\ \A r : IsReview(r) => r # o /\ IsReview(r)'
      /\ \A p \in Ops \ {o} : OpOK(p)' /\ SubmitOK(p)'
  <2>1. ops[o].phase # "done" /\ review' \in {review, None, o}
    BY <1>1 DEF Running
  <2>2. generation' \in {generation, generation + 1}
    BY <1>1
  <2>3. page = "spore" /\ hash => hash' \/ review' \in {None, o}
    BY <1>1
  <2>4. \A p \in Ops \ {o} : ops'[p] = ops[p] /\ (p \in sent' <=> p \in sent)
    BY <1>1
  <2> QED BY <1>1, <2>1, <2>2, <2>3, <2>4, OthersKeep
<1>3. OneSubmission'
  BY <1>1 DEF IInv, OneSubmission
<1>4. ReviewOK'
  BY <1>1, <1>2 DEF IInv, ReviewOK, ReviewIsCurrent, IsReview
<1>5. \A p \in Ops : /\ Running(p)' <=> Running(p)
                     /\ InPlay(p)' <=> InPlay(p)
                     /\ ops'[p].kind = ops[p].kind /\ ops'[p].form = ops[p].form
  BY <1>1 DEF Running, InPlay, Current
<1>6. LockOK'
  <2>1. LockOK
    BY DEF IInv
  <2>2. NeverLocked'
    BY <1>1, <1>5, <2>1 DEF LockOK, NeverLocked, Current
  <2> QED BY <1>1, <1>5, <2>1, <2>2 DEF LockOK
<1>7. TypeOK'
  <2>1. /\ TypeOK /\ form' \in Forms /\ generation' \in 0 .. MaxGeneration /\ sent' \subseteq Ops
        /\ busy' \in BOOLEAN /\ active' \in BOOLEAN /\ hash' \in BOOLEAN /\ confirmed' \in BOOLEAN
    BY <1>1 DEF IInv, TypeOK
  <2> QED BY <1>1, <1>2, <1>4, <2>1, TypesFollow
<1> QED BY <1>2, <1>3, <1>4, <1>6, <1>7 DEF IInv

LEMMA EndStep ==
  ASSUME IInv, NEW o \in Ops, Running(o), NEW kept \in BOOLEAN, End(o, kept)
  PROVE  /\ ops' \in [Ops -> Op]
         /\ \A p \in Ops \ {o} : ops'[p] = ops[p]
         /\ ~kept => ops'[o] = IdleOp
         /\ kept => /\ ops'[o].phase = "done" /\ ops'[o].kind = ops[o].kind
                    /\ ops'[o].gen = ops[o].gen /\ ops'[o].signer = ops[o].signer
                    /\ ops'[o].form = ops[o].form /\ ops'[o].action = ops[o].action
                    /\ ops'[o].sender = ops[o].sender /\ ops'[o].review = ops[o].review
                    /\ ops'[o].confirmed = ops[o].confirmed
         /\ ~Running(o)'
         /\ busy' \in BOOLEAN /\ active' \in BOOLEAN
         /\ UNCHANGED <<wallet, page, signer, generation, ticked>>
<1>1. TypeOK /\ ops[o] \in Op
  BY DEF IInv, TypeOK
<1> DEFINE over == [ops[o] EXCEPT !.phase = "done"]
<1>2. /\ over \in Op /\ over.phase = "done" /\ over.kind = ops[o].kind
      /\ over.gen = ops[o].gen /\ over.signer = ops[o].signer
      /\ over.form = ops[o].form /\ over.action = ops[o].action
      /\ over.sender = ops[o].sender /\ over.review = ops[o].review
      /\ over.confirmed = ops[o].confirmed
  BY <1>1 DEF Op, Phases
<1>3. ops' = [ops EXCEPT ![o] = IF kept THEN over ELSE IdleOp]
  BY DEF End
<1> HIDE DEF over
<1>4. ops' \in [Ops -> Op] /\ \A p \in Ops \ {o} : ops'[p] = ops[p]
  BY <1>1, <1>2, <1>3, IdleOpType DEF TypeOK
<1>5. ops'[o] = IF kept THEN over ELSE IdleOp
  BY <1>1, <1>3 DEF TypeOK
<1>6. busy' \in BOOLEAN /\ active' \in BOOLEAN
  <2>1. CASE page = "spore" /\ ~Current(o)
    BY <1>1, <2>1 DEF End, Finally, flags, TypeOK
  <2>2. CASE ~(page = "spore" /\ ~Current(o))
    <3>1. busy' = FALSE /\ active' = (active /\ ops[o].kind = "look")
      BY <2>2 DEF End, Finally
    <3> QED BY <3>1
  <2> QED BY <2>1, <2>2
<1> QED BY <1>2, <1>4, <1>5, <1>6, IdleOpType DEF Running, End, wallet

\* On the pages that have one operation in play, the flags that an operation clears
\* are its own.
LEMMA EndLock ==
  ASSUME IInv, NEW o \in Ops, Running(o), Finally(o), ~Running(o)',
         \A p \in Ops \ {o} : ops'[p] = ops[p], UNCHANGED <<page, generation>>,
         page # "token" => form' = form,
         page = "spore" => Current(o) \/ UNCHANGED <<review, confirmed>>
  PROVE  LockOK'
<1>1. LockOK /\ OpOK(o)
  BY DEF IInv
<1>2. \A p \in Ops \ {o} : (Running(p)' <=> Running(p)) /\ (InPlay(p)' <=> InPlay(p))
  BY DEF Running, InPlay, Current
<1>3. ~InPlay(o)'
  BY DEF InPlay
<1>4. CASE page = "spore" /\ ~Current(o)
  <2>1. UNCHANGED <<busy, active, review, confirmed, form>>
    BY <1>4 DEF Finally, flags
  <2>2. NeverLocked'
    BY <1>1, <1>2, <1>4, <2>1 DEF LockOK, NeverLocked, InPlay, Current
  <2> QED BY <1>1, <1>2, <1>3, <1>4, <2>1, <2>2 DEF LockOK
<1>5. CASE ~(page = "spore" /\ ~Current(o))
  <2>1. ~busy' /\ (active' => active /\ ops[o].kind = "look")
    BY <1>5 DEF Finally
  <2>2. InPlay(o)
    BY <1>5 DEF InPlay
  <2>3. ~active'
    BY <1>1, <2>1, <2>2 DEF LockOK
  <2>4. page # "token" => \A p \in Ops : ~InPlay(p)'
    BY <1>1, <1>2, <1>3, <2>2 DEF LockOK
  <2> QED BY <2>1, <2>3, <2>4 DEF LockOK, NeverLocked
<1> QED BY <1>4, <1>5

\* o ends and is forgotten, or it has sent something and is kept.
LEMMA EndInv ==
  ASSUME IInv, NEW o \in Ops, Running(o), NEW kept \in BOOLEAN, End(o, kept),
         kept => /\ ops[o].kind = "submit" /\ ops[o].phase \in {"send", "follow"}
                 /\ sent' = sent \cup {o}
                 /\ o \in sent \/ ops[o].review # review,
         ~kept => sent' = sent /\ o \notin sent,
         form' \in Forms, page # "token" => form' = form, UNCHANGED hash,
         UNCHANGED <<review, confirmed>>
           \/ (page = "token" /\ review' = None /\ confirmed' = FALSE)
  PROVE  IInv'
<1>1. /\ ops' \in [Ops -> Op] /\ \A p \in Ops \ {o} : ops'[p] = ops[p]
      /\ ~kept => ops'[o] = IdleOp
      /\ kept => /\ ops'[o].phase = "done" /\ ops'[o].kind = ops[o].kind
                 /\ ops'[o].gen = ops[o].gen /\ ops'[o].signer = ops[o].signer
                 /\ ops'[o].form = ops[o].form /\ ops'[o].action = ops[o].action
                 /\ ops'[o].sender = ops[o].sender /\ ops'[o].review = ops[o].review
                 /\ ops'[o].confirmed = ops[o].confirmed
      /\ ~Running(o)' /\ busy' \in BOOLEAN /\ active' \in BOOLEAN
      /\ UNCHANGED <<wallet, page, signer, generation, ticked>>
  BY EndStep
<1>2. TypeOK /\ OneSubmission /\ ReviewOK /\ OpOK(o) /\ SubmitOK(o)
  BY DEF IInv
<1>3. /\ \A r : IsReview(r) => r # o /\ ops'[r] = ops[r] /\ IsReview(r)'
      /\ \A p \in Ops \ {o} : OpOK(p)' /\ SubmitOK(p)'
  <2>1. ops[o].phase # "done" /\ review' \in {review, None, o}
    BY DEF Running
  <2>2. generation' \in {generation, generation + 1}
    BY <1>1
  <2>3. page = "spore" /\ hash => hash' \/ review' \in {None, o}
    OBVIOUS
  <2>4. \A p \in Ops \ {o} : ops'[p] = ops[p] /\ (p \in sent' <=> p \in sent)
    BY <1>1
  <2>5. \A r : IsReview(r) => r \in Ops
    BY DEF IsReview
  <2> QED BY <1>1, <2>1, <2>2, <2>3, <2>4, <2>5, OthersKeep
<1>4. OpOK(o)'
  BY <1>1, <1>2, IdleOpType DEF OpOK, Kinds
<1>5. SubmitOK(o)'
  <2>1. CASE ~kept
    BY <1>1, <2>1, IdleOpType DEF SubmitOK, Kinds
  <2>2. CASE kept
    BY <1>1, <1>2, <1>3, <2>2, PagesAssumption DEF SubmitOK, IsReview, Reviewed, OpOK
  <2> QED BY <2>1, <2>2
<1>6. OneSubmission'
  BY <1>1, <1>2, IdleOpType DEF OneSubmission, Kinds
<1>7. ReviewOK'
  BY <1>1, <1>2, <1>3 DEF ReviewOK, ReviewIsCurrent
<1>8. LockOK'
  BY <1>1, EndLock DEF End
<1>9. TypeOK'
  <2>1. generation' \in 0 .. MaxGeneration /\ hash' \in BOOLEAN /\ confirmed' \in BOOLEAN
        /\ sent' \subseteq Ops
    BY <1>1, <1>2 DEF TypeOK
  <2> QED BY <1>1, <1>2, <1>3, <1>4, <1>7, <2>1, TypesFollow
<1> QED BY <1>3, <1>4, <1>5, <1>6, <1>7, <1>8, <1>9 DEF IInv

-----------------------------------------------------------------------------
LEMMA ReadSenderInv == ASSUME IInv, NEW o \in Ops, ReadSender(o) PROVE IInv'
<1>1. ops[o] \in Op /\ OpOK(o) /\ TypeOK /\ ops[o].phase = "sender"
  BY DEF IInv, TypeOK, ReadSender
<1>2. ops[o].kind = "prepare" /\ ops[o].signer \in Signers
  BY <1>1, IdleOpType DEF OpOK, Kinds, Op
<1>3. PICK a \in Addresses : a = account[ops[o].signer]
  BY <1>1, <1>2 DEF TypeOK
<1> DEFINE q == [ops[o] EXCEPT !.phase = "build", !.sender = a]
<1>4. /\ q \in Op /\ q.phase = "build" /\ q.sender = a /\ q.kind = ops[o].kind
      /\ q.gen = ops[o].gen /\ q.form = ops[o].form /\ q.review = ops[o].review
      /\ q.signer = ops[o].signer
  BY <1>1 DEF Op, Phases
<1>5. ops' = [ops EXCEPT ![o] = q]
  BY <1>1, <1>3 DEF ReadSender
<1>6. UNCHANGED <<wallet, form, generation, flags, hash, review, confirmed, ticked, sent>>
  BY DEF ReadSender
<1> HIDE DEF q
<1>7. ops'[o] = q
  BY <1>1, <1>5 DEF IInv, TypeOK
<1>8. OpOK(o)' /\ SubmitOK(o)'
  BY <1>1, <1>2, <1>4, <1>6, <1>7, PagesAssumption DEF OpOK, SubmitOK, wallet
<1>9. Running(o)
  BY <1>1 DEF Running
<1> QED BY <1>4, <1>5, <1>6, <1>8, <1>9, AdvanceInv

\* Check is where the transfer page compares the wallets; the studio and the token
\* page submit a review of the wallet that is connected.
LEMMA AdvanceSubmitInv ==
  ASSUME IInv, NEW o \in Ops, Check(o) \/ Sign(o) \/ Recheck(o)
  PROVE  IInv'
<1>1. ops[o] \in Op /\ OpOK(o) /\ SubmitOK(o) /\ TypeOK
  BY DEF IInv, TypeOK
<1>2. /\ ops[o].phase \in {"check", "sign", "recheck"} /\ ops[o].kind = "submit"
      /\ page # "spore" => SameWallet(o)
  BY <1>1, IdleOpType DEF Check, Sign, Recheck, OpOK, SubmitOK, Kinds, Op
<1>3. PICK phase \in {"sign", "recheck", "send"} :
        Advance(o, phase) /\ (page # "spore" => phase = "send")
  BY <1>1, <1>2 DEF Check, Sign, Recheck, SubmitOK
<1> DEFINE q == [ops[o] EXCEPT !.phase = phase]
<1>4. /\ q \in Op /\ q.phase = phase /\ q.kind = ops[o].kind
      /\ q.gen = ops[o].gen /\ q.form = ops[o].form /\ q.review = ops[o].review
      /\ q.signer = ops[o].signer /\ q.confirmed = ops[o].confirmed
  BY <1>1 DEF Op, Phases
<1>5. ops' = [ops EXCEPT ![o] = q]
  BY <1>1, <1>3 DEF Advance
<1>6. UNCHANGED <<wallet, form, generation, flags, hash, review, confirmed, ticked, sent>>
  BY <1>3 DEF Advance
<1> HIDE DEF q
<1>7. ops'[o] = q /\ \A p \in Ops \ {o} : ops'[p] = ops[p]
  BY <1>1, <1>5 DEF TypeOK
<1>8. OpOK(o)'
  BY <1>1, <1>2, <1>4, <1>6, <1>7, PagesAssumption DEF OpOK, wallet
<1>9. SubmitOK(o)'
  <2>1. /\ IsReview(ops[o].review) /\ ops[o].review # o
        /\ ops'[ops[o].review] = ops[ops[o].review]
    BY <1>1, <1>2, <1>7 DEF SubmitOK, IsReview
  <2>2. page # "spore" => Reviewed(o).signer = ops[o].signer
    BY <1>2 DEF SameWallet, Reviewed
  <2> QED
    BY <1>1, <1>2, <1>3, <1>4, <1>6, <1>7, <2>1, <2>2
    DEF SubmitOK, IsReview, Reviewed, wallet
<1>10. Running(o)
  BY <1>2 DEF Running
<1> QED BY <1>3, <1>4, <1>5, <1>6, <1>8, <1>9, <1>10, AdvanceInv

\* What is shown is of the wallet and the fields that the page has now.
LEMMA ShowInv == ASSUME IInv, NEW o \in Ops, Show(o) PROVE IInv'
<1>1. PICK shown \in BOOLEAN :
        /\ shown <=> page = "transfer" \/ Current(o)
        /\ End(o, shown) /\ review' = IF shown THEN o ELSE review
        /\ UNCHANGED <<form, hash, confirmed, sent>>
  BY DEF Show
<1>2. TypeOK /\ OneSubmission /\ ReviewOK /\ LockOK /\ OpOK(o) /\ ops[o].phase = "build"
  BY DEF IInv, Show
<1>3. ops[o].kind = "prepare" /\ ops[o].sender # None /\ o \notin sent /\ Running(o)
  BY <1>2, IdleOpType DEF OpOK, TypeOK, Op, Kinds, Running
<1>4. /\ ops' \in [Ops -> Op] /\ \A p \in Ops \ {o} : ops'[p] = ops[p]
      /\ ~shown => ops'[o] = IdleOp
      /\ shown => /\ ops'[o].phase = "done" /\ ops'[o].kind = "prepare"
                  /\ ops'[o].gen = ops[o].gen /\ ops'[o].signer = ops[o].signer
                  /\ ops'[o].form = ops[o].form /\ ops'[o].sender = ops[o].sender
      /\ ~Running(o)' /\ busy' \in BOOLEAN /\ active' \in BOOLEAN
      /\ UNCHANGED <<wallet, page, signer, generation, ticked>>
  BY <1>1, <1>3, EndStep
<1>5. /\ \A r : IsReview(r) => r # o /\ ops'[r] = ops[r] /\ IsReview(r)'
      /\ \A p \in Ops \ {o} : OpOK(p)' /\ SubmitOK(p)'
  <2>1. ops[o].phase # "done" /\ review' \in {review, None, o}
    BY <1>1, <1>2
  <2>2. generation' \in {generation, generation + 1}
    BY <1>4
  <2>3. page = "spore" /\ hash => hash' \/ review' \in {None, o}
    BY <1>1
  <2>4. \A p \in Ops \ {o} : ops'[p] = ops[p] /\ (p \in sent' <=> p \in sent)
    BY <1>1, <1>4
  <2>5. \A r : IsReview(r) => r \in Ops
    BY DEF IsReview
  <2> QED BY <1>4, <2>1, <2>2, <2>3, <2>4, <2>5, OthersKeep
<1>6. OpOK(o)' /\ SubmitOK(o)'
  BY <1>1, <1>2, <1>3, <1>4, IdleOpType DEF OpOK, SubmitOK, Kinds
<1>7. OneSubmission'
  BY <1>2, <1>3, <1>4, IdleOpType DEF OneSubmission, Kinds
<1>8. ReviewOK'
  <2>1. CASE ~shown
    BY <1>1, <1>2, <1>4, <1>5, <2>1 DEF ReviewOK, ReviewIsCurrent
  <2>2. CASE shown
    <3>1. IsReview(o)'
      BY <1>3, <1>4, <2>2 DEF IsReview
    <3>2. page # "transfer" => Current(o) /\ ops[o].signer = signer
      BY <1>1, <1>2, <1>3, <2>2, PagesAssumption DEF OpOK, Current, Kinds
    <3>3. page # "token" => ops[o].form = form /\ (page = "spore" => ~confirmed)
      BY <1>1, <1>2, <1>3, <2>2 DEF LockOK, InPlay
    <3> QED BY <1>1, <1>4, <2>2, <3>1, <3>2, <3>3 DEF ReviewOK, ReviewIsCurrent, Current, IsReview
  <2> QED BY <2>1, <2>2
<1>9. LockOK'
  <2>1. page = "spore" => Current(o) \/ UNCHANGED <<review, confirmed>>
    BY <1>1
  <2>2. Finally(o) /\ form' = form
    BY <1>1 DEF End
  <2> QED BY <1>3, <1>4, <2>1, <2>2, EndLock
<1>10. TypeOK'
  <2>1. generation' \in 0 .. MaxGeneration /\ hash' \in BOOLEAN /\ confirmed' \in BOOLEAN
        /\ sent' \subseteq Ops /\ form' \in Forms
    BY <1>1, <1>2, <1>4 DEF TypeOK
  <2> QED BY <1>2, <1>4, <1>5, <1>6, <1>8, <2>1, TypesFollow
<1> QED BY <1>5, <1>6, <1>7, <1>8, <1>9, <1>10 DEF IInv

LEMMA EndingsInv ==
  ASSUME IInv, NEW o \in Ops,
         Fail(o) \/ Look(o) \/ Generate(o) \/ Leave(o) \/ Follow(o)
  PROVE  IInv'
<1>1. TypeOK /\ OpOK(o) /\ form \in Forms /\ ops[o] \in Op
  BY DEF IInv, TypeOK
<1>2. CASE Fail(o)
  <2>1. Running(o) /\ UNCHANGED <<form, hash, review, confirmed, sent>>
    BY <1>2 DEF Fail
  <2>2. CASE o \in sent
    <3>1. End(o, TRUE)
      BY <1>2, <2>2 DEF Fail, End
    <3>2. ops[o].kind = "submit" /\ ops[o].phase \in {"send", "follow"} /\ sent = sent \cup {o}
      BY <1>1, <2>1, <2>2 DEF Running, OpOK
    <3> QED BY <1>1, <2>1, <2>2, <3>1, <3>2, EndInv
  <2>3. CASE o \notin sent
    <3>1. End(o, FALSE)
      BY <1>2, <2>3 DEF Fail, End
    <3> QED BY <1>1, <2>1, <2>3, <3>1, EndInv
  <2> QED BY <2>2, <2>3
<1>3. CASE Look(o) \/ Generate(o)
  <2>1. /\ End(o, FALSE) /\ Running(o) /\ o \notin sent /\ UNCHANGED <<hash, sent>>
        /\ form' \in Forms
    BY <1>1, <1>3 DEF Look, Generate, Running, OpOK
  <2>2. /\ page # "token" => form' = form
        /\ UNCHANGED <<review, confirmed>>
             \/ (page = "token" /\ review' = None /\ confirmed' = FALSE)
    BY <1>1, <1>3 DEF Look, Generate, OpOK
  <2> QED BY <2>1, <2>2, EndInv
<1>4. CASE Leave(o)
  <2>1. /\ End(o, FALSE) /\ Running(o) /\ o \notin sent
        /\ UNCHANGED <<form, hash, review, confirmed, sent>>
    BY <1>1, <1>4 DEF Leave, Running, OpOK
  <2> QED BY <1>1, <2>1, EndInv
<1>5. CASE Follow(o)
  <2>1. /\ End(o, TRUE) /\ Running(o) /\ ops[o].phase = "follow"
        /\ UNCHANGED <<form, hash, review, confirmed, sent>>
    BY <1>5 DEF Follow, Running
  <2>2. ops[o].kind = "submit" /\ o \in sent
    BY <1>1, <2>1, IdleOpType DEF OpOK, Kinds, Op
  <2>3. sent' = sent \cup {o}
    BY <2>1, <2>2
  <2> QED BY <1>1, <2>1, <2>2, <2>3, EndInv
<1> QED BY <1>2, <1>3, <1>4, <1>5

\* The studio goes on showing what was sent, with the hash that says so, unless
\* another generation took its place.
LEMMA SendInv == ASSUME IInv, NEW o \in Ops, Send(o) PROVE IInv'
<1>1. TypeOK /\ OpOK(o) /\ SubmitOK(o) /\ ReviewOK /\ LockOK /\ ops[o] \in Op
  BY DEF IInv, TypeOK
<1>2. /\ ops[o].phase = "send" /\ ops[o].kind = "submit" /\ Running(o)
      /\ o \notin sent /\ sent' = sent \cup {o} /\ UNCHANGED <<form, confirmed>>
  BY <1>1, IdleOpType DEF Send, OpOK, Running, Kinds, Op
<1>3. CASE page = "spore" /\ ~Current(o)
  <2>1. End(o, TRUE) /\ UNCHANGED <<hash, review>>
    BY <1>3 DEF Send
  <2>2. ops[o].review # review
    BY <1>1, <1>2, <1>3, PagesAssumption DEF SubmitOK, ReviewOK, Reviewed, IsReview, Current
  <2> QED BY <1>1, <1>2, <2>1, <2>2, EndInv DEF TypeOK
<1>4. CASE ~(page = "spore" /\ ~Current(o))
  <2>1. /\ ops' = [ops EXCEPT ![o].phase = "follow"]
        /\ hash' = (page = "spore")
        /\ review' = IF page = "transfer" THEN None ELSE review
        /\ UNCHANGED <<wallet, page, signer, form, generation, busy, active, confirmed, ticked>>
    BY <1>2, <1>4 DEF Send, wallet, flags
  <2> DEFINE q == [ops[o] EXCEPT !.phase = "follow"]
  <2>2. /\ q \in Op /\ q.phase = "follow" /\ q.kind = ops[o].kind
        /\ q.gen = ops[o].gen /\ q.form = ops[o].form /\ q.review = ops[o].review
        /\ q.signer = ops[o].signer /\ q.confirmed = ops[o].confirmed
    BY <1>1 DEF Op, Phases
  <2>3. ops' = [ops EXCEPT ![o] = q]
    BY <1>1, <2>1 DEF TypeOK
  <2> HIDE DEF q
  <2>4. /\ ops' \in [Ops -> Op] /\ ops'[o] = q /\ \A p \in Ops \ {o} : ops'[p] = ops[p]
    BY <1>1, <2>2, <2>3 DEF TypeOK
  <2>5. /\ \A r : IsReview(r) => r # o /\ ops'[r] = ops[r] /\ IsReview(r)'
        /\ \A p \in Ops \ {o} : OpOK(p)' /\ SubmitOK(p)'
    <3>1. ops[o].phase # "done" /\ review' \in {review, None, o}
      BY <1>2, <2>1
    <3>2. generation' \in {generation, generation + 1}
      BY <2>1
    <3>3. page = "spore" /\ hash => hash' \/ review' \in {None, o}
      BY <2>1
    <3>4. \A p \in Ops \ {o} : ops'[p] = ops[p] /\ (p \in sent' <=> p \in sent)
      BY <1>2, <2>4
    <3>5. \A r : IsReview(r) => r \in Ops
      BY DEF IsReview
    <3> QED BY <2>1, <2>4, <3>1, <3>2, <3>3, <3>4, <3>5, OthersKeep
  <2>6. OpOK(o)'
    BY <1>1, <1>2, <2>1, <2>2, <2>4 DEF OpOK
  <2>7. SubmitOK(o)'
    <3>1. /\ IsReview(ops[o].review) /\ ops[o].review # None
          /\ ops'[ops[o].review] = ops[ops[o].review]
      BY <1>1, <1>2, <2>5, PagesAssumption DEF SubmitOK, IsReview
    <3>2. page = "spore" => hash'
      BY <2>1
    <3> QED BY <1>1, <1>2, <2>1, <2>2, <2>4, <3>1, <3>2 DEF SubmitOK, IsReview, Reviewed
  <2>8. OneSubmission'
    BY <2>2, <2>4 DEF IInv, OneSubmission
  <2>9. ReviewOK'
    BY <1>1, <2>1, <2>4, <2>5 DEF ReviewOK, ReviewIsCurrent
  <2>10. LockOK'
    <3>1. \A p \in Ops : /\ Running(p)' <=> Running(p)
                         /\ InPlay(p)' <=> InPlay(p)
                         /\ ops'[p].kind = ops[p].kind /\ ops'[p].form = ops[p].form
      BY <1>2, <2>1, <2>2, <2>4 DEF Running, InPlay, Current
    <3>2. NeverLocked'
      BY <1>1, <2>1, <2>2, <2>4, <3>1 DEF LockOK, NeverLocked, InPlay
    <3>3. page = "spore" => review' = review
      BY <2>1
    <3> QED BY <1>1, <2>1, <3>1, <3>2, <3>3 DEF LockOK
  <2>11. TypeOK'
    <3>1. hash' \in BOOLEAN
      BY <2>1
    <3>2. /\ form' \in Forms /\ generation' \in 0 .. MaxGeneration /\ sent' \subseteq Ops
          /\ busy' \in BOOLEAN /\ active' \in BOOLEAN /\ confirmed' \in BOOLEAN
      BY <1>1, <1>2, <2>1 DEF TypeOK
    <3> QED BY <1>1, <2>1, <2>4, <2>5, <2>6, <2>9, <3>1, <3>2, TypesFollow
  <2> QED BY <2>5, <2>6, <2>7, <2>8, <2>9, <2>10, <2>11 DEF IInv
<1> QED BY <1>3, <1>4

-----------------------------------------------------------------------------
LEMMA NextInv == IInv /\ [Next]_vars => IInv'
<1> SUFFICES ASSUME IInv, [Next]_vars PROVE IInv'
  OBVIOUS
<1>1. CASE UNCHANGED vars
  <2>1. UNCHANGED <<page, signer, account, form, generation, busy, active, hash, review,
                    confirmed, ops, ticked, sent>>
    BY <1>1 DEF vars, wallet, flags
  <2> QED
    BY <2>1
    DEF IInv, TypeOK, OpOK, SubmitOK, IsReview, Reviewed, OneSubmission, ReviewOK,
        ReviewIsCurrent, LockOK, NeverLocked, InPlay, Running, Current
<1>2. CASE SwitchAccount \/ SwitchSigner \/ Edit \/ Discard \/ Tick
  BY <1>2, EnvironmentInv
<1>3. ASSUME NEW o \in Ops, Click(o) PROVE IInv'
  BY <1>3, ClickPrepareInv, ClickSubmitInv, ClickLookInv DEF Click
<1>4. ASSUME NEW o \in Ops, Resume(o) PROVE IInv'
  BY <1>4, ReadSenderInv, AdvanceSubmitInv, ShowInv, EndingsInv, SendInv DEF Resume
<1> QED BY <1>1, <1>2, <1>3, <1>4 DEF Next

LEMMA InvHolds == Spec => []IInv
BY InitInv, NextInv, PTL DEF Spec

(***************************************************************************)
(* On none of the pages does a wallet send what another one prepared.      *)
(***************************************************************************)
THEOREM SendersPrepared == Spec => []SentByItsWallet
<1>1. IInv => SentByItsWallet
  BY DEF IInv, OpOK, SubmitOK, SentByItsWallet, TypeOK
<1> QED BY <1>1, InvHolds, PTL

(***************************************************************************)
(* No review is sent twice: at most one submission of it is ever under     *)
(* way, and what the page goes on showing after that cannot be submitted.  *)
(***************************************************************************)
THEOREM ReviewsAreSentOnce == Spec => []SentOnce
<1>1. IInv => SentOnce
  BY DEF IInv, TypeOK, OneSubmission, SentOnce
<1> QED BY <1>1, InvHolds, PTL

(***************************************************************************)
(* A review is shown to the wallet, and beside the fields, that it is of.  *)
(***************************************************************************)
THEOREM ReviewsAreCurrent == Spec => []ReviewIsCurrent
<1>1. IInv => ReviewIsCurrent
  BY DEF IInv, ReviewOK
<1> QED BY <1>1, InvHolds, PTL

(***************************************************************************)
(* The studio's box, though it is not cleared with the review, never       *)
(* carries a confirmation over to another one.                             *)
(***************************************************************************)
THEOREM MeltsWereTicked == Spec => []MeltsAreConfirmed
<1>1. IInv => MeltsAreConfirmed
  BY DEF IInv, TypeOK, SubmitOK, MeltsAreConfirmed
<1> QED BY <1>1, InvHolds, PTL

(***************************************************************************)
(* While a page is locked, an operation runs that will unlock it.          *)
(***************************************************************************)
THEOREM LocksHaveAHolder == Spec => []NeverLocked
<1>1. IInv => NeverLocked
  BY DEF IInv, LockOK
<1> QED BY <1>1, InvHolds, PTL

-----------------------------------------------------------------------------
(***************************************************************************)
(* The SSRI inspector.                                                     *)
(***************************************************************************)

SsriRunning(o) == ssriOps[o].phase \notin {"idle", "done"}

\* A query of the page that was not aborted is the active one, keeps the page busy, and is of
\* the fields as they are.
SsriQueryOK(o) ==
  /\ SsriRunning(o) /\ ssriOps[o].by = "page" /\ ~ssriOps[o].aborted =>
       /\ o = ssriActive /\ ssriBusy
       /\ ssriOps[o].form = ssriForm /\ Ssri!queryConfig(ssriForm)
  /\ ssriOps[o].by = "evidence" => ssriOps[o].method \in Ssri!METHODS

SsriInv ==
  /\ Ssri!TypeOK
  /\ \A o \in Queries : SsriQueryOK(o)
  /\ Ssri!ShownAnswersTheForm

LEMMA SsriInitInv == Ssri!Init => SsriInv
<1> SUFFICES ASSUME Ssri!Init PROVE SsriInv
  OBVIOUS
<1>1. Ssri!IdleOp \in Ssri!Op /\ Ssri!IdleOp.phase = "idle" /\ Ssri!IdleOp.by = NoValue
  BY DEF Ssri!IdleOp, Ssri!Op, Ssri!Phases
<1>2. Ssri!TypeOK
  BY <1>1 DEF Ssri!Init, Ssri!TypeOK, Ssri!Nothing
<1>3. \A o \in Queries : ssriOps[o] = Ssri!IdleOp
  BY DEF Ssri!Init
<1>4. \A o \in Queries : SsriQueryOK(o)
  BY <1>1, <1>3, InspectorsAssumption DEF SsriQueryOK, SsriRunning
<1>5. ssriShown.op = NoValue
  BY DEF Ssri!Init, Ssri!Nothing
<1> QED BY <1>2, <1>4, <1>5 DEF SsriInv, Ssri!ShownAnswersTheForm

\* A query that ended shows its own answer, and an aborted one nothing.
LEMMA SsriAbort ==
  ASSUME SsriInv, ssriOps' = Ssri!Aborted
  PROVE  /\ ssriOps' \in [Queries -> Ssri!Op]
         /\ \A o \in Queries :
              /\ ssriOps'[o].by = ssriOps[o].by /\ ssriOps'[o].phase = ssriOps[o].phase
              /\ ssriOps'[o].form = ssriOps[o].form /\ ssriOps'[o].method = ssriOps[o].method
              /\ SsriRunning(o) /\ ssriOps[o].by = "page" => ssriOps'[o].aborted
<1>1. ssriOps \in [Queries -> Ssri!Op]
  BY DEF SsriInv, Ssri!TypeOK
<1>2. ssriOps' = [o \in Queries |->
                    [ssriOps[o] EXCEPT !.aborted = ssriOps[o].aborted \/ o = ssriActive]]
  BY DEF Ssri!Aborted
<1>3. ASSUME NEW o \in Queries
      PROVE  /\ ssriOps'[o] \in Ssri!Op
             /\ ssriOps'[o].by = ssriOps[o].by /\ ssriOps'[o].phase = ssriOps[o].phase
             /\ ssriOps'[o].form = ssriOps[o].form /\ ssriOps'[o].method = ssriOps[o].method
             /\ ssriOps'[o].aborted = (ssriOps[o].aborted \/ o = ssriActive)
  <2> DEFINE aborted == ssriOps[o].aborted \/ o = ssriActive
  <2>1. ssriOps[o] \in Ssri!Op /\ ssriOps'[o] = [ssriOps[o] EXCEPT !.aborted = aborted]
    BY <1>1, <1>2
  <2>2. aborted \in BOOLEAN
    OBVIOUS
  <2> HIDE DEF aborted
  <2>3. /\ ssriOps'[o] \in Ssri!Op /\ ssriOps'[o].aborted = aborted
        /\ ssriOps'[o].by = ssriOps[o].by /\ ssriOps'[o].phase = ssriOps[o].phase
        /\ ssriOps'[o].form = ssriOps[o].form /\ ssriOps'[o].method = ssriOps[o].method
    BY <2>1, <2>2 DEF Ssri!Op
  <2> QED BY <2>3 DEF aborted
<1>4. \A o \in Queries : SsriRunning(o) /\ ssriOps[o].by = "page" => ssriOps'[o].aborted
  <2>1. \A o \in Queries : SsriQueryOK(o)
    BY DEF SsriInv
  <2> QED BY <1>3, <2>1 DEF SsriQueryOK
<1> QED BY <1>2, <1>3, <1>4

LEMMA SsriUserInv ==
  ASSUME SsriInv, Ssri!change \/ Ssri!Cancel \/ Ssri!Leave
  PROVE  SsriInv'
<1>1. /\ ssriOps' = Ssri!Aborted /\ ssriBusy' = FALSE
      /\ \/ ssriShown' = Ssri!Nothing /\ ssriForm' \in SsriForms
         \/ ssriShown' = ssriShown /\ ssriForm' = ssriForm
      /\ ssriActive' \in {ssriActive, NoValue}
  BY DEF Ssri!change, Ssri!invalidate, Ssri!Cancel, Ssri!Leave
<1>2. /\ ssriOps' \in [Queries -> Ssri!Op]
      /\ \A o \in Queries :
           /\ ssriOps'[o].by = ssriOps[o].by /\ ssriOps'[o].phase = ssriOps[o].phase
           /\ ssriOps'[o].form = ssriOps[o].form /\ ssriOps'[o].method = ssriOps[o].method
           /\ SsriRunning(o) /\ ssriOps[o].by = "page" => ssriOps'[o].aborted
  BY <1>1, SsriAbort
<1>3. Ssri!TypeOK'
  <2>1. Ssri!Nothing \in [kind : {"nothing", "result", "error"}, op : Queries \cup {NoValue},
                          code : Ssri!ErrorCode \cup {"ok"}]
    BY DEF Ssri!Nothing
  <2> QED BY <1>1, <1>2, <2>1 DEF SsriInv, Ssri!TypeOK
<1>4. \A o \in Queries : SsriQueryOK(o)'
  BY <1>2 DEF SsriInv, SsriQueryOK, SsriRunning
<1>5. Ssri!ShownAnswersTheForm'
  <2>1. CASE ssriShown' = Ssri!Nothing
    BY <2>1 DEF Ssri!Nothing, Ssri!ShownAnswersTheForm
  <2>2. CASE ssriShown' = ssriShown /\ ssriForm' = ssriForm
    <3>1. SUFFICES ASSUME ssriShown.op # NoValue
                   PROVE  /\ ssriOps'[ssriShown.op].by = "page"
                          /\ ssriOps'[ssriShown.op].form = ssriForm
                          /\ ssriOps'[ssriShown.op].phase = "done"
                          /\ ssriShown.kind = "result" => Ssri!queryConfig(ssriForm)
      BY <2>2 DEF Ssri!ShownAnswersTheForm
    <3>2. ssriShown.op \in Queries
      BY <3>1 DEF SsriInv, Ssri!TypeOK
    <3> QED BY <1>2, <3>1, <3>2 DEF SsriInv, Ssri!ShownAnswersTheForm
  <2> QED BY <1>1, <2>1, <2>2
<1> QED BY <1>3, <1>4, <1>5 DEF SsriInv

\* What is shown stays an answer when its query, which has ended, stays.
LEMMA SsriShownStays ==
  ASSUME SsriInv, UNCHANGED <<ssriShown, ssriForm>>,
         ssriShown.op \in Queries => ssriOps'[ssriShown.op] = ssriOps[ssriShown.op]
  PROVE  Ssri!ShownAnswersTheForm'
<1>1. ssriShown.op # NoValue => ssriShown.op \in Queries
  BY DEF SsriInv, Ssri!TypeOK
<1> QED BY <1>1 DEF SsriInv, Ssri!ShownAnswersTheForm

LEMMA SsriRunInv == ASSUME SsriInv, NEW o \in Queries, Ssri!run(o) PROVE SsriInv'
<1> DEFINE new == [by |-> "page",
                   phase |-> IF Ssri!queryConfig(ssriForm) THEN "genesis" ELSE "done",
                   form |-> ssriForm, method |-> NoValue, aborted |-> FALSE]
<1>1. /\ ~ssriBusy /\ ssriActive' = o /\ ssriOps' = [ssriOps EXCEPT ![o] = new]
      /\ ssriForm' = ssriForm
      /\ IF Ssri!queryConfig(ssriForm)
           THEN ssriBusy' = TRUE /\ ssriShown' = Ssri!Nothing
           ELSE ssriBusy' = FALSE
                /\ ssriShown' = [kind |-> "error", op |-> o, code |-> "CONFIG"]
  BY DEF Ssri!run
<1>2. ssriOps \in [Queries -> Ssri!Op] /\ ssriForm \in SsriForms
  BY DEF SsriInv, Ssri!TypeOK
<1>3. new \in Ssri!Op
  BY <1>2 DEF Ssri!Op, Ssri!Phases
<1>4. Ssri!TypeOK'
  <2>1. ssriShown' \in [kind : {"nothing", "result", "error"}, op : Queries \cup {NoValue},
                        code : Ssri!ErrorCode \cup {"ok"}]
    BY <1>1 DEF Ssri!Nothing, Ssri!ErrorCode
  <2>2. ssriBusy' \in BOOLEAN /\ ssriOps' \in [Queries -> Ssri!Op]
    BY <1>1, <1>2, <1>3
  <2> QED BY <1>1, <1>2, <2>1, <2>2 DEF Ssri!TypeOK
<1>5. \A p \in Queries : ssriOps'[p] = IF p = o THEN new ELSE ssriOps[p]
  BY <1>1, <1>2
<1>6. ASSUME NEW p \in Queries PROVE SsriQueryOK(p)'
  <2>1. SsriQueryOK(p)
    BY DEF SsriInv
  <2>2. CASE p = o
    BY <1>1, <1>5, <2>2 DEF SsriQueryOK, SsriRunning
  <2>3. CASE p # o
    BY <1>1, <1>5, <2>1, <2>3 DEF SsriQueryOK, SsriRunning
  <2> QED BY <2>2, <2>3
<1>7. Ssri!ShownAnswersTheForm'
  <2>1. CASE Ssri!queryConfig(ssriForm)
    BY <1>1, <2>1 DEF Ssri!Nothing, Ssri!ShownAnswersTheForm
  <2>2. CASE ~Ssri!queryConfig(ssriForm)
    BY <1>1, <1>5, <2>2 DEF Ssri!ShownAnswersTheForm
  <2> QED BY <2>1, <2>2
<1> QED BY <1>4, <1>6, <1>7 DEF SsriInv

LEMMA SsriEvidenceInv ==
  ASSUME SsriInv, NEW o \in Queries, NEW method \in Ssri!METHODS, Ssri!Evidence(o, method)
  PROVE  SsriInv'
<1> DEFINE new == [by |-> "evidence", phase |-> "genesis", form |-> NoValue,
                   method |-> method, aborted |-> FALSE]
<1>1. /\ ssriShown.op # o /\ ssriOps' = [ssriOps EXCEPT ![o] = new]
      /\ UNCHANGED <<ssriForm, ssriActive, ssriBusy, ssriShown>>
  BY DEF Ssri!Evidence, Ssri!Free
<1>2. ssriOps \in [Queries -> Ssri!Op]
  BY DEF SsriInv, Ssri!TypeOK
<1>3. new \in Ssri!Op
  BY DEF Ssri!Op, Ssri!Phases
<1>4. Ssri!TypeOK'
  BY <1>1, <1>2, <1>3 DEF SsriInv, Ssri!TypeOK
<1>5. \A p \in Queries : ssriOps'[p] = IF p = o THEN new ELSE ssriOps[p]
  BY <1>1, <1>2
<1>6. \A p \in Queries : SsriQueryOK(p)'
  BY <1>1, <1>5 DEF SsriInv, SsriQueryOK, SsriRunning
<1>7. Ssri!ShownAnswersTheForm'
  BY <1>1, <1>5, SsriShownStays
<1> QED BY <1>4, <1>6, <1>7 DEF SsriInv

\* A request of a query is answered, and another one follows.
LEMMA SsriProceedInv ==
  ASSUME SsriInv, NEW o \in Queries, NEW phase \in Ssri!Phases \ {"idle", "done"},
         NEW next \in Ssri!Phases \ {"idle", "done"}, Ssri!Proceed(o, phase, next)
  PROVE  SsriInv'
<1>1. /\ ssriOps[o].phase = phase
      /\ ssriOps' = [ssriOps EXCEPT ![o].phase = next]
      /\ UNCHANGED <<ssriForm, ssriActive, ssriBusy, ssriShown>>
  BY DEF Ssri!Proceed
<1>2. ssriOps \in [Queries -> Ssri!Op]
  BY DEF SsriInv, Ssri!TypeOK
<1>3. /\ ssriOps' \in [Queries -> Ssri!Op]
      /\ \A p \in Queries \ {o} : ssriOps'[p] = ssriOps[p]
      /\ ssriOps'[o] = [ssriOps[o] EXCEPT !.phase = next]
  BY <1>1, <1>2 DEF Ssri!Op
<1>4. Ssri!TypeOK'
  BY <1>1, <1>3 DEF SsriInv, Ssri!TypeOK
<1>5. ASSUME NEW p \in Queries PROVE SsriQueryOK(p)'
  <2>1. SsriQueryOK(p)
    BY DEF SsriInv
  <2>2. CASE p = o
    <3>1. /\ ssriOps'[p].by = ssriOps[p].by /\ ssriOps'[p].aborted = ssriOps[p].aborted
          /\ ssriOps'[p].form = ssriOps[p].form /\ ssriOps'[p].method = ssriOps[p].method
      BY <1>2, <1>3, <2>2 DEF Ssri!Op
    <3>2. SsriRunning(p)
      BY <1>1, <2>2 DEF SsriRunning
    <3> QED BY <1>1, <2>1, <3>1, <3>2 DEF SsriQueryOK
  <2>3. CASE p # o
    BY <1>1, <1>3, <2>1, <2>3 DEF SsriQueryOK, SsriRunning
  <2> QED BY <2>2, <2>3
<1>6. ssriShown.op # o
  <2>1. NoValue \notin Queries
    BY InspectorsAssumption
  <2> QED BY <1>1, <2>1 DEF SsriInv, Ssri!ShownAnswersTheForm
<1>7. Ssri!ShownAnswersTheForm'
  BY <1>1, <1>3, <1>6, SsriShownStays
<1> QED BY <1>4, <1>5, <1>7 DEF SsriInv

\* A query ends.
LEMMA SsriEndInv ==
  ASSUME SsriInv, NEW o \in Queries, NEW code \in Ssri!ErrorCode \cup {"ok"},
         SsriRunning(o), Ssri!End(o, code)
  PROVE  SsriInv'
<1> DEFINE what == [kind |-> Ssri!Answer(code), op |-> o, code |-> code]
<1>1. /\ ssriOps' = [ssriOps EXCEPT ![o].phase = "done"]
      /\ IF ssriOps[o].by = "page"
           THEN /\ ssriShown' = IF ssriOps[o].aborted THEN ssriShown ELSE what
                /\ ssriBusy' = (ssriBusy /\ ssriActive # o)
           ELSE UNCHANGED <<ssriShown, ssriBusy>>
      /\ UNCHANGED <<ssriForm, ssriActive>>
  BY DEF Ssri!End, Ssri!Settle
<1>2. ssriOps \in [Queries -> Ssri!Op] /\ ssriBusy \in BOOLEAN
  BY DEF SsriInv, Ssri!TypeOK
<1>3. /\ ssriOps' \in [Queries -> Ssri!Op]
      /\ \A p \in Queries \ {o} : ssriOps'[p] = ssriOps[p]
      /\ ssriOps'[o] = [ssriOps[o] EXCEPT !.phase = "done"]
  BY <1>1, <1>2 DEF Ssri!Op, Ssri!Phases
<1>4. what \in [kind : {"nothing", "result", "error"}, op : Queries \cup {NoValue},
                code : Ssri!ErrorCode \cup {"ok"}]
  BY DEF Ssri!Answer
<1>5. Ssri!TypeOK'
  <2>1. ssriShown' \in {ssriShown, what} /\ ssriBusy' \in BOOLEAN
    BY <1>1, <1>2
  <2> HIDE DEF what
  <2> QED BY <1>1, <1>3, <1>4, <2>1 DEF SsriInv, Ssri!TypeOK
<1>6. ASSUME NEW p \in Queries PROVE SsriQueryOK(p)'
  <2>1. SsriQueryOK(p)
    BY DEF SsriInv
  <2>2. CASE p = o
    <3>1. ssriOps'[p].phase = "done" /\ ssriOps'[p].by = ssriOps[p].by
          /\ ssriOps'[p].method = ssriOps[p].method
      BY <1>2, <1>3, <2>2 DEF Ssri!Op
    <3> QED BY <2>1, <3>1 DEF SsriQueryOK, SsriRunning
  <2>3. CASE p # o
    <3>1. p = ssriActive /\ ssriBusy => ssriBusy'
      BY <1>1, <2>3
    <3> QED BY <1>1, <1>3, <2>1, <2>3, <3>1 DEF SsriQueryOK, SsriRunning
  <2> QED BY <2>2, <2>3
<1>7. Ssri!ShownAnswersTheForm'
  <2>1. CASE ssriShown' = ssriShown
    <3>1. ssriShown.op # o
      <4>1. NoValue \notin Queries
        BY InspectorsAssumption
      <4> QED BY <4>1 DEF SsriInv, Ssri!ShownAnswersTheForm, SsriRunning
    <3> QED BY <1>1, <1>3, <2>1, <3>1, SsriShownStays
  <2>2. CASE ssriShown' # ssriShown
    <3>1. ssriShown' = what /\ ssriOps[o].by = "page" /\ ~ssriOps[o].aborted
      BY <1>1, <2>2
    <3>2. ssriOps[o].form = ssriForm /\ Ssri!queryConfig(ssriForm)
      BY <3>1 DEF SsriInv, SsriQueryOK
    <3>3. ssriOps'[o].by = "page" /\ ssriOps'[o].form = ssriForm /\ ssriOps'[o].phase = "done"
      BY <1>2, <1>3, <3>1, <3>2 DEF Ssri!Op
    <3> QED BY <1>1, <3>1, <3>2, <3>3 DEF Ssri!ShownAnswersTheForm
  <2> QED BY <2>1, <2>2
<1> QED BY <1>5, <1>6, <1>7 DEF SsriInv

\* What a request ends with is a code.
LEMMA SsriCodes ==
  /\ \A o : Ssri!rpcErrors(o) \subseteq Ssri!ErrorCode
  /\ \A envelope, hex \in BOOLEAN, dependencies \in {256, 257} :
       Ssri!readContent(envelope, dependencies, hex) \in {"ok", "SCHEMA"}
  /\ \A method \in Ssri!METHODS, content \in Ssri!Contents :
       Ssri!decodeResult(method, content) \in {"ok", "SCHEMA", "UNSUPPORTED"}
<1>1. \A o : Ssri!rpcErrors(o) \subseteq Ssri!ErrorCode
  BY DEF Ssri!rpcErrors, Ssri!ErrorCode
<1>2. \A envelope, hex \in BOOLEAN, dependencies \in {256, 257} :
        Ssri!readContent(envelope, dependencies, hex) \in {"ok", "SCHEMA"}
  BY DEF Ssri!readContent
<1>3. ASSUME NEW method \in Ssri!METHODS, NEW content \in Ssri!Contents
      PROVE  Ssri!decodeResult(method, content) \in {"ok", "SCHEMA", "UNSUPPORTED"}
  <2>1. content.hex \in BOOLEAN
    BY DEF Ssri!Contents
  <2> QED BY <2>1 DEF Ssri!decodeResult, Ssri!METHODS
<1> QED BY <1>1, <1>2, <1>3

LEMMA SsriStepInv == ASSUME SsriInv, NEW o \in Queries, Ssri!Step(o) PROVE SsriInv'
<1>1. "IDENTITY" \in Ssri!ErrorCode /\ {"SCHEMA", "UNSUPPORTED"} \subseteq Ssri!ErrorCode
  BY DEF Ssri!ErrorCode
<1>2. {"genesis", "code", "tip", "discovery", "call"} \subseteq Ssri!Phases \ {"idle", "done"}
  BY DEF Ssri!Phases
<1>3. CASE Ssri!rpc(o)
  <2>1. SsriRunning(o)
    BY <1>3 DEF Ssri!rpc, SsriRunning
  <2>2. PICK code \in Ssri!rpcErrors(o) : Ssri!End(o, code)
    BY <1>3 DEF Ssri!rpc
  <2> QED BY <2>1, <2>2, SsriCodes, SsriEndInv
<1>4. CASE Ssri!verifyGenesis(o)
  BY <1>1, <1>2, <1>4, SsriProceedInv, SsriEndInv DEF Ssri!verifyGenesis, SsriRunning
<1>5. CASE Ssri!verifyCode(o)
  BY <1>1, <1>2, <1>5, SsriProceedInv, SsriEndInv DEF Ssri!verifyCode, SsriRunning
<1>6. CASE Ssri!verifyTip(o)
  BY <1>2, <1>6, SsriProceedInv DEF Ssri!verifyTip
<1>7. CASE Ssri!queryScript(o)
  <2>1. SsriRunning(o)
    BY <1>7 DEF Ssri!queryScript, SsriRunning
  <2>2. PICK code \in {Ssri!readContent(envelope, dependencies, hex) :
                         envelope, hex \in BOOLEAN, dependencies \in {256, 257}} :
          Ssri!End(o, code)
    BY <1>7 DEF Ssri!queryScript
  <2>3. code \in {"ok", "SCHEMA"}
    BY <2>2, SsriCodes
  <2> QED BY <1>1, <2>1, <2>2, <2>3, SsriEndInv
<1>8. CASE Ssri!inspectMethods(o)
  <2>1. SsriRunning(o)
    BY <1>8 DEF Ssri!inspectMethods, SsriRunning
  <2>2. PICK content \in Ssri!Contents :
          LET code == Ssri!decodeResult("SSRI.get_methods", content) IN
            \/ code # "ok" /\ Ssri!End(o, code)
            \/ code = "ok" /\ Ssri!End(o, "UNSUPPORTED")
            \/ code = "ok" /\ Ssri!End(o, "ok")
            \/ code = "ok" /\ Ssri!Proceed(o, "discovery", "call")
    BY <1>8 DEF Ssri!inspectMethods
  <2>3. Ssri!decodeResult("SSRI.get_methods", content) \in {"ok", "SCHEMA", "UNSUPPORTED"}
    BY SsriCodes DEF Ssri!METHODS
  <2> QED BY <1>1, <1>2, <2>1, <2>2, <2>3, SsriEndInv, SsriProceedInv
<1>9. CASE Ssri!inspect(o)
  <2>1. SsriRunning(o) /\ ssriOps[o].method \in Ssri!METHODS
    BY <1>9 DEF Ssri!inspect, SsriRunning, SsriInv, SsriQueryOK
  <2>2. PICK code \in {"ok", "SCHEMA"} : Ssri!End(o, code)
    BY <1>9 DEF Ssri!inspect
  <2> QED BY <1>1, <2>1, <2>2, SsriEndInv
<1> QED BY <1>3, <1>4, <1>5, <1>6, <1>7, <1>8, <1>9 DEF Ssri!Step

LEMMA SsriNextInv == SsriInv /\ [Ssri!Next]_ssri => SsriInv'
<1> SUFFICES ASSUME SsriInv, [Ssri!Next]_ssri PROVE SsriInv'
  OBVIOUS
<1>1. CASE UNCHANGED ssri
  BY <1>1 DEF ssri, SsriInv, Ssri!TypeOK, SsriQueryOK, SsriRunning, Ssri!ShownAnswersTheForm
<1> QED BY <1>1, SsriUserInv, SsriRunInv, SsriEvidenceInv, SsriStepInv DEF Ssri!Next, Ssri!User

-----------------------------------------------------------------------------
(***************************************************************************)
(* The RGB++ inspector.                                                    *)
(***************************************************************************)

RgbppRunning(o) == rgbppOps[o].phase \notin {"idle", "done", "aborted"}

\* Once the block of the transaction was read.
Located == {"outspend", "tipBlock", "endTip"} \cup Rgbpp!Inclusion

\* A lookup that was not aborted is the active one, keeps the page busy, and is of the query
\* as it is.  Its tip is still the tip, or the chain is higher; the block it found the
\* transaction in has it while the tip is still the tip.
RgbppLookupOK(o) ==
  /\ RgbppRunning(o) =>
       o = rgbppActive /\ rgbppBusy /\ rgbppOps[o].form = rgbppForm
  /\ rgbppOps[o].tip # NoValue =>
       bitcoin = rgbppOps[o].tip \/ bitcoin.height > rgbppOps[o].tip.height
  /\ rgbppOps[o].phase \in {"tipBlock", "endTip"} =>
       rgbppOps[o].tip # NoValue /\ rgbppOps[o].block # NoValue
  /\ rgbppOps[o].phase \in Located /\ rgbppOps[o].tip # NoValue /\ bitcoin = rgbppOps[o].tip =>
       Rgbpp!Containing = rgbppOps[o].block

ProofOK(o) == rgbppOps[o].phase \in Rgbpp!Inclusion => rgbppOps[o].block # NoValue

RgbppInv ==
  /\ Rgbpp!TypeOK
  /\ \A o \in Queries : RgbppLookupOK(o) /\ ProofOK(o)
  /\ Rgbpp!ShownAnswersTheForm

RgbppShown == [kind : {"nothing", "receipt", "error"}, op : Queries \cup {NoValue},
               confirmation : Rgbpp!Confirmations, more : BOOLEAN]

LEMMA RgbppIdle ==
  /\ Rgbpp!IdleOp \in Rgbpp!Op /\ Rgbpp!IdleOp.phase = "idle"
  /\ Rgbpp!IdleOp.tip = NoValue
  /\ Rgbpp!Nothing \in RgbppShown /\ Rgbpp!Nothing.op = NoValue
  BY InspectorsAssumption
  DEF Rgbpp!IdleOp, Rgbpp!Op, Rgbpp!Phases, Rgbpp!Nothing, RgbppShown, Rgbpp!Confirmations

LEMMA RgbppInitInv == Rgbpp!Init => RgbppInv
<1> SUFFICES ASSUME Rgbpp!Init PROVE RgbppInv
  OBVIOUS
<1>1. bitcoin \in Rgbpp!Blocks
  BY InspectorsAssumption DEF Rgbpp!Init, Rgbpp!Blocks, Rgbpp!Branches
<1>2. Rgbpp!TypeOK
  BY <1>1, RgbppIdle DEF Rgbpp!Init, Rgbpp!TypeOK, RgbppShown
<1>3. \A o \in Queries : rgbppOps[o] = Rgbpp!IdleOp
  BY DEF Rgbpp!Init
<1>4. \A o \in Queries : RgbppLookupOK(o) /\ ProofOK(o)
  BY <1>3, RgbppIdle DEF RgbppLookupOK, RgbppRunning, ProofOK, Located, Rgbpp!Inclusion
<1>5. Rgbpp!ShownAnswersTheForm
  BY RgbppIdle DEF Rgbpp!Init, Rgbpp!ShownAnswersTheForm
<1> QED BY <1>2, <1>4, <1>5 DEF RgbppInv

\* The block of the transaction on a chain.
LEMMA ContainingType ==
  ASSUME bitcoin \in Rgbpp!Blocks
  PROVE  /\ Rgbpp!Containing \in Rgbpp!Blocks \cup {NoValue}
         /\ bitcoin.height \in Nat
<1>1. bitcoin.branch \in {1, 2} /\ bitcoin.height \in 1 .. MaxHeight
  BY DEF Rgbpp!Blocks, Rgbpp!Branches
<1>2. TxHeight[bitcoin.branch] \in Nat \ {0} /\ MaxHeight \in Nat
  BY <1>1, InspectorsAssumption
<1> QED BY <1>1, <1>2 DEF Rgbpp!Containing, Rgbpp!Blocks, Rgbpp!Branches

\* The tip changes to a higher one, so none that was read comes back.
LEMMA RgbppChainInv == ASSUME RgbppInv, Rgbpp!Grow \/ Rgbpp!Reorg PROVE RgbppInv'
<1>1. UNCHANGED <<rgbppForm, rgbppActive, rgbppBusy, rgbppShown, rgbppOps>>
  BY DEF Rgbpp!Grow, Rgbpp!Reorg, Rgbpp!page
<1>2. bitcoin \in Rgbpp!Blocks /\ bitcoin.height \in Nat
  BY ContainingType DEF RgbppInv, Rgbpp!TypeOK
<1>3. bitcoin' \in Rgbpp!Blocks /\ bitcoin'.height > bitcoin.height
  <2>1. CASE Rgbpp!Grow
    BY <1>2, <2>1, InspectorsAssumption DEF Rgbpp!Grow, Rgbpp!Blocks
  <2>2. CASE Rgbpp!Reorg
    BY <2>2 DEF Rgbpp!Reorg
  <2> QED BY <2>1, <2>2
<1>4. bitcoin'.height \in Nat
  BY <1>3, InspectorsAssumption DEF Rgbpp!Blocks
<1>5. ASSUME NEW o \in Queries PROVE RgbppLookupOK(o)' /\ ProofOK(o)'
  <2>1. rgbppOps[o] \in Rgbpp!Op
    BY DEF RgbppInv, Rgbpp!TypeOK
  <2>2. rgbppOps[o].tip # NoValue => rgbppOps[o].tip.height \in Nat
    BY <2>1, InspectorsAssumption DEF Rgbpp!Op, Rgbpp!Blocks
  <2>3. RgbppLookupOK(o) /\ ProofOK(o)
    BY DEF RgbppInv
  <2>4. rgbppOps[o].tip # NoValue => bitcoin'.height > rgbppOps[o].tip.height
    BY <1>2, <1>3, <1>4, <2>2, <2>3 DEF RgbppLookupOK
  <2>5. rgbppOps[o].tip # NoValue => bitcoin' # rgbppOps[o].tip
    BY <1>4, <2>2, <2>4
  <2> QED BY <1>1, <2>3, <2>4, <2>5 DEF RgbppLookupOK, RgbppRunning, ProofOK
<1>6. Rgbpp!TypeOK'
  BY <1>1, <1>3 DEF RgbppInv, Rgbpp!TypeOK
<1>7. Rgbpp!ShownAnswersTheForm'
  BY <1>1 DEF RgbppInv, Rgbpp!ShownAnswersTheForm
<1> QED BY <1>5, <1>6, <1>7 DEF RgbppInv

\* After an abort no lookup runs, and what is shown is done.
LEMMA RgbppAbort ==
  ASSUME RgbppInv
  PROVE  /\ Rgbpp!Abort \in [Queries -> Rgbpp!Op]
         /\ \A o \in Queries :
              /\ Rgbpp!Abort[o].phase \in {"idle", "done", "aborted"}
              /\ Rgbpp!Abort[o].form = rgbppOps[o].form
              /\ rgbppOps[o].phase = "done" => Rgbpp!Abort[o] = rgbppOps[o]
              /\ Rgbpp!Abort[o].tip \in {NoValue, rgbppOps[o].tip}
<1> DEFINE gone(o) == [Rgbpp!IdleOp EXCEPT !.phase = "aborted", !.form = rgbppOps[o].form]
<1>1. rgbppOps \in [Queries -> Rgbpp!Op]
  BY DEF RgbppInv, Rgbpp!TypeOK
<1>2. \A o \in Queries : /\ gone(o) \in Rgbpp!Op /\ gone(o).phase = "aborted"
                         /\ gone(o).form = rgbppOps[o].form /\ gone(o).tip = NoValue
  BY <1>1, RgbppIdle DEF Rgbpp!Op, Rgbpp!Phases
<1> HIDE DEF gone
<1>3. Rgbpp!Abort = [o \in Queries |-> IF o = rgbppActive /\ rgbppOps[o].phase # "done"
                                         THEN gone(o) ELSE rgbppOps[o]]
  BY DEF Rgbpp!Abort, gone
<1>4. \A o \in Queries : Rgbpp!Abort[o] = IF o = rgbppActive /\ rgbppOps[o].phase # "done"
                                            THEN gone(o) ELSE rgbppOps[o]
  BY <1>3
<1>5. Rgbpp!Abort \in [Queries -> Rgbpp!Op]
  BY <1>1, <1>2, <1>3
<1>6. \A o \in Queries : rgbppOps[o].phase \in {"idle", "done", "aborted"} \/ o = rgbppActive
  BY DEF RgbppInv, RgbppLookupOK, RgbppRunning
<1> QED BY <1>2, <1>4, <1>5, <1>6

\* Lookups that do not run have nothing to keep but what they know of the chain.
LEMMA RgbppStopped ==
  ASSUME NEW o \in Queries, rgbppOps'[o].phase \in {"idle", "done", "aborted"},
         rgbppOps'[o].tip = NoValue \/ bitcoin' = rgbppOps'[o].tip
           \/ bitcoin'.height > rgbppOps'[o].tip.height
  PROVE  RgbppLookupOK(o)' /\ ProofOK(o)'
  BY DEF RgbppLookupOK, RgbppRunning, ProofOK, Located, Rgbpp!Inclusion

LEMMA RgbppUserInv ==
  ASSUME RgbppInv, Rgbpp!change \/ Rgbpp!Cancel \/ Rgbpp!Leave
  PROVE  RgbppInv'
<1>1. /\ rgbppOps' = Rgbpp!Abort /\ rgbppBusy' = FALSE /\ bitcoin' = bitcoin
      /\ \/ rgbppShown' = Rgbpp!Nothing /\ rgbppForm' \in RgbppForms
         \/ rgbppShown' = rgbppShown /\ rgbppForm' = rgbppForm
      /\ rgbppActive' \in {rgbppActive, NoValue}
  BY DEF Rgbpp!change, Rgbpp!Cancel, Rgbpp!Leave
<1>2. Rgbpp!TypeOK'
  BY <1>1, RgbppAbort, RgbppIdle DEF RgbppInv, Rgbpp!TypeOK, RgbppShown
<1>3. ASSUME NEW o \in Queries PROVE RgbppLookupOK(o)' /\ ProofOK(o)'
  <2>1. /\ rgbppOps'[o].phase \in {"idle", "done", "aborted"}
        /\ rgbppOps'[o].tip \in {NoValue, rgbppOps[o].tip}
    BY <1>1, RgbppAbort
  <2> QED BY <1>1, <2>1, RgbppStopped DEF RgbppInv, RgbppLookupOK
<1>4. Rgbpp!ShownAnswersTheForm'
  <2>1. CASE rgbppShown' = Rgbpp!Nothing
    BY <2>1, RgbppIdle DEF Rgbpp!ShownAnswersTheForm
  <2>2. CASE rgbppShown' = rgbppShown /\ rgbppForm' = rgbppForm
    <3>1. rgbppShown.op # NoValue => rgbppShown.op \in Queries
      BY DEF RgbppInv, Rgbpp!TypeOK
    <3> QED BY <1>1, <2>2, <3>1, RgbppAbort DEF RgbppInv, Rgbpp!ShownAnswersTheForm
  <2> QED BY <1>1, <2>1, <2>2
<1> QED BY <1>2, <1>3, <1>4 DEF RgbppInv

LEMMA RgbppRunInv == ASSUME RgbppInv, NEW o \in Queries, Rgbpp!run(o) PROVE RgbppInv'
<1> DEFINE valid == Rgbpp!validateQuery(rgbppForm)
           new == [Rgbpp!IdleOp EXCEPT !.phase = IF valid THEN "identities" ELSE "done",
                                       !.form = rgbppForm]
           refused == [Rgbpp!Nothing EXCEPT !.kind = "error", !.op = o]
<1>1. /\ rgbppOps' = [Rgbpp!Abort EXCEPT ![o] = new]
      /\ rgbppActive' = o /\ rgbppBusy' = valid
      /\ rgbppShown' = IF valid THEN Rgbpp!Nothing ELSE refused
      /\ UNCHANGED <<rgbppForm, bitcoin>>
  BY DEF Rgbpp!run
<1>2. rgbppForm \in RgbppForms /\ valid \in BOOLEAN
  BY InspectorsAssumption DEF RgbppInv, Rgbpp!TypeOK, Rgbpp!validateQuery
<1>3. /\ new \in Rgbpp!Op /\ new.tip = NoValue /\ new.form = rgbppForm
      /\ new.phase = IF valid THEN "identities" ELSE "done"
  BY <1>2, RgbppIdle DEF Rgbpp!Op, Rgbpp!Phases
<1>4. refused \in RgbppShown /\ refused.op = o
  BY RgbppIdle DEF RgbppShown
<1> HIDE DEF new, refused, valid
<1>5. /\ rgbppOps' \in [Queries -> Rgbpp!Op]
      /\ \A p \in Queries : rgbppOps'[p] = IF p = o THEN new ELSE Rgbpp!Abort[p]
  BY <1>1, <1>3, RgbppAbort
<1>6. Rgbpp!TypeOK'
  <2>1. rgbppShown' \in RgbppShown
    BY <1>1, <1>4, RgbppIdle
  <2> QED BY <1>1, <1>2, <1>5, <2>1 DEF RgbppInv, Rgbpp!TypeOK, RgbppShown
<1>7. ASSUME NEW p \in Queries PROVE RgbppLookupOK(p)' /\ ProofOK(p)'
  <2>1. CASE p = o
    <3>1. rgbppOps'[p] = new
      BY <1>5, <2>1
    <3>2. CASE valid
      BY <1>1, <1>3, <2>1, <3>1, <3>2 DEF RgbppLookupOK, RgbppRunning, ProofOK, Located, Rgbpp!Inclusion
    <3>3. CASE ~valid
      BY <1>3, <3>1, <3>3, RgbppStopped
    <3> QED BY <3>2, <3>3
  <2>2. CASE p # o
    <3>1. /\ rgbppOps'[p].phase \in {"idle", "done", "aborted"}
          /\ rgbppOps'[p].tip \in {NoValue, rgbppOps[p].tip}
      BY <1>5, <2>2, RgbppAbort
    <3> QED BY <1>1, <3>1, RgbppStopped DEF RgbppInv, RgbppLookupOK
  <2> QED BY <2>1, <2>2
<1>8. Rgbpp!ShownAnswersTheForm'
  <2>1. CASE valid
    BY <1>1, <2>1, RgbppIdle DEF Rgbpp!ShownAnswersTheForm
  <2>2. CASE ~valid
    BY <1>1, <1>3, <1>4, <1>5, <2>2 DEF Rgbpp!ShownAnswersTheForm
  <2> QED BY <2>1, <2>2
<1> QED BY <1>6, <1>7, <1>8 DEF RgbppInv

\* A lookup goes on; what it newly knows is right.
LEMMA RgbppGotoInv ==
  ASSUME RgbppInv, NEW o \in Queries, NEW update \in Rgbpp!Op, Rgbpp!Goto(o, update),
         RgbppRunning(o), update.form = rgbppOps[o].form,
         update.phase \notin {"idle", "done"},
         update.tip # NoValue =>
           bitcoin = update.tip \/ bitcoin.height > update.tip.height,
         update.phase \in Rgbpp!Inclusion => update.block # NoValue,
         update.phase \in {"tipBlock", "endTip"} =>
           update.tip # NoValue /\ update.block # NoValue,
         update.phase \in Located /\ update.tip # NoValue /\ bitcoin = update.tip =>
           Rgbpp!Containing = update.block
  PROVE  RgbppInv'
<1>1. /\ rgbppOps' = [rgbppOps EXCEPT ![o] = update]
      /\ UNCHANGED <<rgbppForm, rgbppActive, rgbppBusy, rgbppShown, bitcoin>>
  BY DEF Rgbpp!Goto, Rgbpp!page
<1>2. rgbppOps \in [Queries -> Rgbpp!Op]
  BY DEF RgbppInv, Rgbpp!TypeOK
<1>3. /\ rgbppOps' \in [Queries -> Rgbpp!Op]
      /\ \A p \in Queries : rgbppOps'[p] = IF p = o THEN update ELSE rgbppOps[p]
  BY <1>1, <1>2
<1>4. Rgbpp!TypeOK'
  BY <1>1, <1>3 DEF RgbppInv, Rgbpp!TypeOK
<1>5. ASSUME NEW p \in Queries PROVE RgbppLookupOK(p)' /\ ProofOK(p)'
  <2>1. RgbppLookupOK(p) /\ ProofOK(p) /\ RgbppLookupOK(o)
    BY DEF RgbppInv
  <2>2. Rgbpp!Containing' = Rgbpp!Containing
    BY <1>1 DEF Rgbpp!Containing
  <2>3. CASE p = o
    BY <1>1, <1>3, <2>1, <2>2, <2>3 DEF RgbppLookupOK, RgbppRunning, ProofOK
  <2>4. CASE p # o
    BY <1>1, <1>3, <2>1, <2>2, <2>4 DEF RgbppLookupOK, RgbppRunning, ProofOK
  <2> QED BY <2>3, <2>4
<1>6. rgbppShown.op # o
  <2>1. NoValue \notin Queries
    BY InspectorsAssumption
  <2> QED BY <2>1 DEF RgbppInv, Rgbpp!ShownAnswersTheForm, RgbppRunning
<1>7. Rgbpp!ShownAnswersTheForm'
  <2>1. rgbppShown.op # NoValue => rgbppShown.op \in Queries
    BY DEF RgbppInv, Rgbpp!TypeOK
  <2> QED BY <1>1, <1>3, <1>6, <2>1 DEF RgbppInv, Rgbpp!ShownAnswersTheForm
<1> QED BY <1>4, <1>5, <1>7 DEF RgbppInv

\* A lookup ends.
LEMMA RgbppSettleInv ==
  ASSUME RgbppInv, NEW o \in Queries, NEW what \in RgbppShown, what.op = o,
         rgbppOps[o].phase \notin {"idle", "done"}, Rgbpp!Settle(o, what)
  PROVE  RgbppInv'
<1> DEFINE ended == [Rgbpp!IdleOp EXCEPT !.phase = "done", !.form = rgbppOps[o].form]
<1>1. /\ rgbppShown' = IF rgbppOps[o].phase = "aborted" THEN rgbppShown ELSE what
      /\ rgbppBusy' = (rgbppBusy /\ rgbppActive # o)
      /\ rgbppOps' = [rgbppOps EXCEPT ![o] = ended]
      /\ UNCHANGED <<rgbppForm, rgbppActive, bitcoin>>
  BY DEF Rgbpp!Settle
<1>2. rgbppOps \in [Queries -> Rgbpp!Op] /\ rgbppBusy \in BOOLEAN
  BY DEF RgbppInv, Rgbpp!TypeOK
<1>3. /\ ended \in Rgbpp!Op /\ ended.phase = "done" /\ ended.tip = NoValue
      /\ ended.form = rgbppOps[o].form
  BY <1>2, RgbppIdle DEF Rgbpp!Op, Rgbpp!Phases
<1> HIDE DEF ended
<1>4. /\ rgbppOps' \in [Queries -> Rgbpp!Op]
      /\ \A p \in Queries : rgbppOps'[p] = IF p = o THEN ended ELSE rgbppOps[p]
  BY <1>1, <1>2, <1>3
<1>5. Rgbpp!TypeOK'
  <2>1. rgbppShown' \in RgbppShown /\ rgbppBusy' \in BOOLEAN
    BY <1>1, <1>2 DEF RgbppInv, Rgbpp!TypeOK, RgbppShown
  <2> QED BY <1>1, <1>4, <2>1 DEF RgbppInv, Rgbpp!TypeOK, RgbppShown
<1>6. ASSUME NEW p \in Queries PROVE RgbppLookupOK(p)' /\ ProofOK(p)'
  <2>1. RgbppLookupOK(p) /\ ProofOK(p)
    BY DEF RgbppInv
  <2>2. CASE p = o
    BY <1>3, <1>4, <2>2, RgbppStopped
  <2>3. CASE p # o
    <3>1. p = rgbppActive /\ rgbppBusy => rgbppBusy'
      BY <1>1, <2>3
    <3>2. Rgbpp!Containing' = Rgbpp!Containing
      BY <1>1 DEF Rgbpp!Containing
    <3> QED BY <1>1, <1>4, <2>1, <2>3, <3>1, <3>2 DEF RgbppLookupOK, RgbppRunning, ProofOK
  <2> QED BY <2>2, <2>3
<1>7. Rgbpp!ShownAnswersTheForm'
  <2>1. CASE rgbppOps[o].phase = "aborted"
    <3>1. rgbppShown.op # o
      <4>1. NoValue \notin Queries
        BY InspectorsAssumption
      <4> QED BY <2>1, <4>1 DEF RgbppInv, Rgbpp!ShownAnswersTheForm
    <3>2. rgbppShown.op # NoValue => rgbppShown.op \in Queries
      BY DEF RgbppInv, Rgbpp!TypeOK
    <3> QED BY <1>1, <1>4, <2>1, <3>1, <3>2 DEF RgbppInv, Rgbpp!ShownAnswersTheForm
  <2>2. CASE rgbppOps[o].phase # "aborted"
    <3>1. rgbppOps[o].form = rgbppForm
      BY <2>2 DEF RgbppInv, RgbppLookupOK, RgbppRunning
    <3> QED BY <1>1, <1>3, <1>4, <2>2, <3>1 DEF Rgbpp!ShownAnswersTheForm
  <2> QED BY <2>1, <2>2
<1> QED BY <1>5, <1>6, <1>7 DEF RgbppInv

LEMMA RgbppRefusedInv ==
  ASSUME RgbppInv, NEW o \in Queries, rgbppOps[o].phase \notin {"idle", "done"},
         Rgbpp!Refused(o)
  PROVE  RgbppInv'
<1> DEFINE what == [Rgbpp!Nothing EXCEPT !.kind = "error", !.op = o]
<1>1. what \in RgbppShown /\ what.op = o
  BY RgbppIdle DEF RgbppShown
<1>2. Rgbpp!Settle(o, what)
  BY DEF Rgbpp!Refused
<1> HIDE DEF what
<1> QED BY <1>1, <1>2, RgbppSettleInv

LEMMA RgbppReceiptInv ==
  ASSUME RgbppInv, NEW o \in Queries, NEW confirmation \in Rgbpp!Confirmations,
         RgbppRunning(o), Rgbpp!Receipt(o, confirmation)
  PROVE  RgbppInv'
<1> DEFINE what == [kind |-> "receipt", op |-> o, confirmation |-> confirmation,
                    more |-> rgbppOps[o].more]
<1>1. rgbppOps[o].more \in BOOLEAN
  BY DEF RgbppInv, Rgbpp!TypeOK, Rgbpp!Op
<1>2. what \in RgbppShown /\ what.op = o
  BY <1>1 DEF RgbppShown
<1>3. rgbppOps[o].phase \notin {"idle", "done"}
  BY DEF RgbppRunning
<1>4. Rgbpp!Refused(o) \/ Rgbpp!Settle(o, what)
  BY DEF Rgbpp!Receipt
<1> HIDE DEF what
<1> QED BY <1>2, <1>3, <1>4, RgbppSettleInv, RgbppRefusedInv

\* What a lookup knows that the chain may change.
LEMMA RgbppKnown ==
  ASSUME RgbppInv, NEW o \in Queries
  PROVE  /\ rgbppOps[o] \in Rgbpp!Op
         /\ rgbppOps[o].tip # NoValue =>
              bitcoin = rgbppOps[o].tip \/ bitcoin.height > rgbppOps[o].tip.height
         /\ rgbppOps[o].phase \in Rgbpp!Inclusion => rgbppOps[o].block # NoValue
         /\ rgbppOps[o].phase \in {"tipBlock", "endTip"} =>
              rgbppOps[o].tip # NoValue /\ rgbppOps[o].block # NoValue
         /\ rgbppOps[o].phase \in Located /\ rgbppOps[o].tip # NoValue
              /\ bitcoin = rgbppOps[o].tip => Rgbpp!Containing = rgbppOps[o].block
  BY DEF RgbppInv, Rgbpp!TypeOK, RgbppLookupOK, ProofOK

\* A request that teaches nothing of the chain.
LEMMA RgbppContinueInv ==
  ASSUME RgbppInv, NEW o \in Queries, RgbppRunning(o),
         NEW phase \in Rgbpp!Phases \ ({"idle", "done"} \cup Located),
         NEW rows \in 0 .. PageSize, NEW more \in BOOLEAN, NEW late \in BOOLEAN,
         Rgbpp!Goto(o, [rgbppOps[o] EXCEPT !.phase = phase, !.rows = rows, !.more = more,
                                           !.late = late])
  PROVE  RgbppInv'
<1> DEFINE update == [rgbppOps[o] EXCEPT !.phase = phase, !.rows = rows, !.more = more,
                                         !.late = late]
<1>1. /\ update \in Rgbpp!Op /\ update.phase = phase /\ update.form = rgbppOps[o].form
      /\ update.tip = rgbppOps[o].tip
  BY RgbppKnown DEF Rgbpp!Op
<1>2. Rgbpp!Goto(o, update)
  OBVIOUS
<1> HIDE DEF update
<1> QED BY <1>1, <1>2, RgbppKnown, RgbppGotoInv DEF Located, Rgbpp!Inclusion

\* The same record, with fewer of its fields named.
LEMMA RgbppUpdates ==
  ASSUME RgbppInv, NEW o \in Queries, NEW phase, NEW rows, NEW more
  PROVE  LET op == rgbppOps[o] IN
           /\ op \in Rgbpp!Op /\ op.phase \in Rgbpp!Phases
           /\ op.rows \in 0 .. PageSize /\ op.more \in BOOLEAN /\ op.late \in BOOLEAN
           /\ [op EXCEPT !.phase = phase]
                = [op EXCEPT !.phase = phase, !.rows = op.rows, !.more = op.more,
                             !.late = op.late]
           /\ [op EXCEPT !.phase = phase, !.rows = rows]
                = [op EXCEPT !.phase = phase, !.rows = rows, !.more = op.more,
                             !.late = op.late]
           /\ [op EXCEPT !.phase = phase, !.rows = rows, !.more = more]
                = [op EXCEPT !.phase = phase, !.rows = rows, !.more = more,
                             !.late = op.late]
  BY RgbppKnown DEF Rgbpp!Op

LEMMA RgbppDeadlineInv == ASSUME RgbppInv, NEW o \in Queries, Rgbpp!Deadline(o) PROVE RgbppInv'
<1> DEFINE update == [rgbppOps[o] EXCEPT !.late = TRUE]
<1>1. Rgbpp!Goto(o, update) /\ RgbppRunning(o)
  BY DEF Rgbpp!Deadline, RgbppRunning
<1>2. /\ update \in Rgbpp!Op /\ update.phase = rgbppOps[o].phase
      /\ update.form = rgbppOps[o].form /\ update.tip = rgbppOps[o].tip
      /\ update.block = rgbppOps[o].block
  BY RgbppKnown DEF Rgbpp!Op
<1>3. update.phase \notin {"idle", "done"}
  BY <1>1, <1>2 DEF RgbppRunning
<1> HIDE DEF update
<1> QED BY <1>1, <1>2, <1>3, RgbppKnown, RgbppGotoInv

\* The requests before the Bitcoin part.
LEMMA RgbppCkbInv ==
  ASSUME RgbppInv, NEW o \in Queries,
         \/ Rgbpp!request(o) \/ Rgbpp!readIdentities(o) \/ Rgbpp!readDeployment(o)
         \/ Rgbpp!readIndex(o) \/ Rgbpp!readTransaction(o) \/ Rgbpp!readLive(o)
  PROVE  RgbppInv'
<1> DEFINE op == rgbppOps[o]
<1>1. op \in Rgbpp!Op /\ op.rows \in 0 .. PageSize /\ op.more \in BOOLEAN /\ op.late \in BOOLEAN
  BY RgbppUpdates
<1>2. PageSize \in Nat
  BY InspectorsAssumption
<1>3. {"deployment", "tips", "transaction", "live", "tx"} \subseteq
        Rgbpp!Phases \ ({"idle", "done"} \cup Located)
  BY DEF Rgbpp!Phases, Located, Rgbpp!Inclusion
<1>4. CASE Rgbpp!request(o)
  <2>1. op.phase \notin {"idle", "done"} /\ Rgbpp!Refused(o)
    BY <1>4 DEF Rgbpp!request, Rgbpp!At
  <2> QED BY <2>1, RgbppRefusedInv
<1>5. ASSUME RgbppRunning(o), NEW phase \in {"deployment", "tips", "transaction", "live", "tx"},
             Rgbpp!Goto(o, [op EXCEPT !.phase = phase])
      PROVE  RgbppInv'
  <2>1. [op EXCEPT !.phase = phase]
          = [op EXCEPT !.phase = phase, !.rows = op.rows, !.more = op.more, !.late = op.late]
    BY RgbppUpdates
  <2> HIDE DEF op
  <2>2. Rgbpp!Goto(o, [op EXCEPT !.phase = phase, !.rows = op.rows, !.more = op.more,
                                 !.late = op.late])
    BY <1>5, <2>1
  <2> QED BY <1>1, <1>3, <1>5, <2>2, RgbppContinueInv, ZenonT(60) DEF op
<1>6. ASSUME RgbppRunning(o), NEW phase \in {"transaction", "tx"}, NEW rows \in 0 .. PageSize,
             Rgbpp!Goto(o, [op EXCEPT !.phase = phase, !.rows = rows])
      PROVE  RgbppInv'
  <2>1. [op EXCEPT !.phase = phase, !.rows = rows]
          = [op EXCEPT !.phase = phase, !.rows = rows, !.more = op.more, !.late = op.late]
    BY RgbppUpdates
  <2> HIDE DEF op
  <2>2. Rgbpp!Goto(o, [op EXCEPT !.phase = phase, !.rows = rows, !.more = op.more,
                                 !.late = op.late])
    BY <1>6, <2>1
  <2> QED BY <1>1, <1>3, <1>6, <2>2, RgbppContinueInv, ZenonT(60) DEF op
<1>7. ASSUME RgbppRunning(o), Rgbpp!NextRow(o) PROVE RgbppInv'
  <2> DEFINE phase == IF op.rows > 1 THEN "transaction" ELSE "tx"
             rows == IF op.rows > 0 THEN op.rows - 1 ELSE 0
  <2>1. phase \in {"transaction", "tx"} /\ rows \in 0 .. PageSize
    BY <1>1, <1>2
  <2>2. Rgbpp!Goto(o, [op EXCEPT !.phase = phase, !.rows = rows])
    BY <1>1, <1>7 DEF Rgbpp!NextRow, Rgbpp!Op
  <2> HIDE DEF op, phase, rows
  <2> QED BY <1>6, <1>7, <2>1, <2>2
<1>8. CASE Rgbpp!readIdentities(o)
  <2>1. RgbppRunning(o) /\ Rgbpp!Goto(o, [op EXCEPT !.phase = "deployment"])
    BY <1>8 DEF Rgbpp!readIdentities, Rgbpp!At, Rgbpp!Continue, RgbppRunning
  <2> HIDE DEF op
  <2> QED BY <1>5, <2>1
<1>9. CASE Rgbpp!readDeployment(o)
  <2>1. RgbppRunning(o) /\ Rgbpp!Goto(o, [op EXCEPT !.phase = "tips"])
    BY <1>9 DEF Rgbpp!readDeployment, Rgbpp!At, Rgbpp!Continue, RgbppRunning
  <2> HIDE DEF op
  <2> QED BY <1>5, <2>1
<1>10. CASE Rgbpp!readIndex(o)
  <2>1. PICK n \in 0 .. (IF Rgbpp!Open(o) THEN PageSize ELSE 0) :
          Rgbpp!Goto(o, [op EXCEPT !.phase = IF n = 0 THEN "tx" ELSE "transaction",
                                   !.rows = n, !.more = (n = PageSize)])
    BY <1>10 DEF Rgbpp!readIndex
  <2> DEFINE phase == IF n = 0 THEN "tx" ELSE "transaction"
             more == n = PageSize
  <2>2. n \in 0 .. PageSize /\ phase \in {"tx", "transaction"} /\ more \in BOOLEAN
    BY <1>2, <2>1
  <2>3. RgbppRunning(o)
    BY <1>10 DEF Rgbpp!readIndex, Rgbpp!At, RgbppRunning
  <2>4. Rgbpp!Goto(o, [op EXCEPT !.phase = phase, !.rows = n, !.more = more])
    BY <2>1
  <2> HIDE DEF phase, more
  <2>5. [op EXCEPT !.phase = phase, !.rows = n, !.more = more]
          = [op EXCEPT !.phase = phase, !.rows = n, !.more = more, !.late = op.late]
    BY RgbppUpdates
  <2> HIDE DEF op
  <2>6. Rgbpp!Goto(o, [op EXCEPT !.phase = phase, !.rows = n, !.more = more,
                                 !.late = op.late])
    BY <2>4, <2>5
  <2> QED BY <1>1, <1>3, <2>2, <2>3, <2>6, RgbppContinueInv, ZenonT(60) DEF op
<1>11. CASE Rgbpp!readTransaction(o)
  <2>1. RgbppRunning(o)
    BY <1>11 DEF Rgbpp!readTransaction, Rgbpp!At, RgbppRunning
  <2>2. \/ Rgbpp!Goto(o, [op EXCEPT !.phase = "live"])
        \/ Rgbpp!Receipt(o, "none")
        \/ Rgbpp!NextRow(o)
        \/ Rgbpp!Goto(o, [op EXCEPT !.phase = "tx", !.rows = 0])
    BY <1>11 DEF Rgbpp!readTransaction, Rgbpp!Continue
  <2>3. "none" \in Rgbpp!Confirmations /\ 0 \in 0 .. PageSize
    BY <1>2 DEF Rgbpp!Confirmations
  <2> HIDE DEF op
  <2> QED BY <1>5, <1>6, <1>7, <2>1, <2>2, <2>3, RgbppReceiptInv
<1>12. CASE Rgbpp!readLive(o)
  <2>1. RgbppRunning(o) /\ op.phase \notin {"idle", "done"}
    BY <1>12 DEF Rgbpp!readLive, Rgbpp!At, RgbppRunning
  <2>2. \/ Rgbpp!NextRow(o) \/ Rgbpp!Refused(o)
        \/ Rgbpp!Goto(o, [op EXCEPT !.phase = "tx", !.rows = 0])
    BY <1>12 DEF Rgbpp!readLive
  <2>3. 0 \in 0 .. PageSize
    BY <1>2
  <2> QED BY <1>6, <1>7, <2>1, <2>2, <2>3, RgbppRefusedInv
<1> QED BY <1>4, <1>8, <1>9, <1>10, <1>11, <1>12

LEMMA RgbppTipsInv == ASSUME RgbppInv, NEW o \in Queries, Rgbpp!readTips(o) PROVE RgbppInv'
<1>1. PICK tip \in {NoValue} \cup (IF Rgbpp!Open(o) THEN {bitcoin} ELSE {}) :
        Rgbpp!Goto(o, [rgbppOps[o] EXCEPT
          !.phase = IF rgbppOps[o].form.kind = "cell" THEN "transaction" ELSE "index",
          !.tip = tip])
  BY DEF Rgbpp!readTips
<1> DEFINE phase == IF rgbppOps[o].form.kind = "cell" THEN "transaction" ELSE "index"
           update == [rgbppOps[o] EXCEPT !.phase = phase, !.tip = tip]
<1>2. tip \in {NoValue, bitcoin} /\ bitcoin \in Rgbpp!Blocks
  BY <1>1 DEF RgbppInv, Rgbpp!TypeOK
<1>3. phase \in {"transaction", "index"}
  OBVIOUS
<1>4. Rgbpp!Goto(o, update) /\ RgbppRunning(o)
  BY <1>1 DEF Rgbpp!readTips, Rgbpp!At, RgbppRunning
<1> HIDE DEF phase
<1>5. /\ update \in Rgbpp!Op /\ update.phase = phase /\ update.form = rgbppOps[o].form
      /\ update.tip = tip
  BY <1>2, <1>3, RgbppKnown DEF Rgbpp!Op, Rgbpp!Phases
<1> HIDE DEF update
<1> QED BY <1>2, <1>3, <1>4, <1>5, RgbppGotoInv DEF Located, Rgbpp!Inclusion

LEMMA HeightType == \A b \in Rgbpp!Blocks : b.height \in Nat
BY InspectorsAssumption DEF Rgbpp!Blocks

\* The threshold is reported for a tip that stayed, and by its height.
LEMMA ConfirmationState ==
  ASSUME NEW b \in Nat, NEW t \in Nat, NEW stable \in BOOLEAN
  PROVE  LET c == Rgbpp!confirmationState(TRUE, TRUE, b, t, stable) IN
           /\ c \in {"unknown", "observed threshold reached", "pending confirmations"}
           /\ c = "observed threshold reached" => stable /\ t - b + 1 >= Threshold
<1>1. Threshold \in Nat
  BY InspectorsAssumption
<1>2. CASE ~stable
  BY <1>2 DEF Rgbpp!confirmationState
<1>3. CASE stable /\ b > t
  BY <1>3 DEF Rgbpp!confirmationState
<1>4. CASE stable /\ b <= t
  <2>1. ~(b > t)
    BY <1>4
  <2>2. Rgbpp!confirmationState(TRUE, TRUE, b, t, stable)
          = IF t - b + 1 >= Threshold THEN "observed threshold reached"
                                      ELSE "pending confirmations"
    BY <1>4, <2>1 DEF Rgbpp!confirmationState
  <2> QED BY <1>1, <1>4, <2>2
<1>5. b > t \/ b <= t
  OBVIOUS
<1> QED BY <1>2, <1>3, <1>4, <1>5, Zenon

\* The Bitcoin part: its receipts, and what it reads of the chain.
LEMMA RgbppBitcoinInv ==
  ASSUME RgbppInv, NEW o \in Queries,
         \/ Rgbpp!readBitcoinTx(o) \/ Rgbpp!readOutspend(o) \/ Rgbpp!readProof(o)
         \/ Rgbpp!readHeight(o) \/ Rgbpp!readTipBlock(o) \/ Rgbpp!readEndTip(o)
         \/ Rgbpp!BitcoinUnknown(o)
  PROVE  RgbppInv'
<1> DEFINE op == rgbppOps[o]
<1>1. /\ op \in Rgbpp!Op /\ bitcoin \in Rgbpp!Blocks
      /\ Rgbpp!Containing \in Rgbpp!Blocks \cup {NoValue}
  BY RgbppKnown, ContainingType DEF RgbppInv, Rgbpp!TypeOK
<1>2. {"unknown", "pending"} \subseteq Rgbpp!Confirmations
  BY DEF Rgbpp!Confirmations
<1>3. \A phase \in Located :
        LET update == [op EXCEPT !.phase = phase] IN
          /\ update \in Rgbpp!Op /\ update.phase = phase /\ update.form = op.form
          /\ update.tip = op.tip /\ update.block = op.block
  BY <1>1 DEF Rgbpp!Op, Rgbpp!Phases, Located, Rgbpp!Inclusion
<1>4. CASE Rgbpp!readBitcoinTx(o)
  <2> DEFINE update == [op EXCEPT !.phase = "outspend", !.block = Rgbpp!Containing]
  <2>1. Rgbpp!Goto(o, update) /\ RgbppRunning(o)
    BY <1>4 DEF Rgbpp!readBitcoinTx, Rgbpp!At, RgbppRunning
  <2>2. /\ update \in Rgbpp!Op /\ update.phase = "outspend" /\ update.form = op.form
        /\ update.tip = op.tip
    BY <1>1 DEF Rgbpp!Op, Rgbpp!Phases
  <2>3. update.block = Rgbpp!Containing
    BY <1>1 DEF Rgbpp!Op
  <2> HIDE DEF update
  <2> QED BY <2>1, <2>2, <2>3, RgbppKnown, RgbppGotoInv DEF Located, Rgbpp!Inclusion
<1>5. CASE Rgbpp!readOutspend(o)
  <2> DEFINE update == [op EXCEPT !.phase = "proof"]
  <2>1. RgbppRunning(o)
    BY <1>5 DEF Rgbpp!readOutspend, Rgbpp!At, RgbppRunning
  <2>4. op.phase \in Located /\ "proof" \in Located
    BY <1>5 DEF Rgbpp!readOutspend, Rgbpp!At, Located, Rgbpp!Inclusion
  <2>2. CASE op.block = NoValue
    BY <1>2, <1>5, <2>1, <2>2, RgbppReceiptInv DEF Rgbpp!readOutspend
  <2>3. CASE op.block # NoValue
    <3>1. Rgbpp!Goto(o, update)
      BY <1>5, <2>3 DEF Rgbpp!readOutspend, Rgbpp!Continue
    <3>2. /\ update \in Rgbpp!Op /\ update.phase = "proof" /\ update.form = op.form
          /\ update.tip = op.tip /\ update.block = op.block
      BY <1>3, <2>4
    <3> HIDE DEF update
    <3> QED BY <2>1, <2>3, <2>4, <3>1, <3>2, RgbppKnown, RgbppGotoInv
  <2> QED BY <2>2, <2>3
<1>6. CASE Rgbpp!readProof(o) \/ Rgbpp!readHeight(o)
  <2>1. PICK left \in {"height", "merkle"} : op.phase \in Rgbpp!Inclusion /\ Rgbpp!Included(o, left)
    BY <1>6 DEF Rgbpp!readProof, Rgbpp!readHeight, Rgbpp!Inclusion
  <2>2. RgbppRunning(o) /\ op.block # NoValue /\ op.phase \in Located
    BY <2>1, RgbppKnown DEF RgbppRunning, Rgbpp!Inclusion, Located
  <2>3. ASSUME NEW phase \in {"height", "merkle", "tipBlock"}, Rgbpp!Continue(o, phase),
               phase = "tipBlock" => op.tip # NoValue
        PROVE  RgbppInv'
    <3> DEFINE update == [op EXCEPT !.phase = phase]
    <3>1. Rgbpp!Goto(o, update)
      BY <2>3 DEF Rgbpp!Continue
    <3>2. phase \in Located /\ phase \notin {"idle", "done", "endTip"}
      BY DEF Located, Rgbpp!Inclusion
    <3>3. /\ update \in Rgbpp!Op /\ update.phase = phase /\ update.form = op.form
          /\ update.tip = op.tip /\ update.block = op.block
      BY <1>3, <3>2
    <3> HIDE DEF update
    <3> QED BY <2>2, <2>3, <3>1, <3>2, <3>3, RgbppKnown, RgbppGotoInv
  <2>4. CASE Rgbpp!Receipt(o, "pending")
    BY <1>2, <2>2, <2>4, RgbppReceiptInv
  <2>5. \/ Rgbpp!Continue(o, left)
        \/ Rgbpp!Receipt(o, "pending")
        \/ op.tip # NoValue /\ Rgbpp!Continue(o, "tipBlock")
    BY <2>1 DEF Rgbpp!Included
  <2> HIDE DEF op
  <2> QED BY <2>1, <2>3, <2>4, <2>5
<1>7. CASE Rgbpp!readTipBlock(o)
  <2> DEFINE update == [op EXCEPT !.phase = "endTip"]
  <2>1. RgbppRunning(o) /\ op.phase = "tipBlock" /\ Rgbpp!Goto(o, update)
    BY <1>7 DEF Rgbpp!readTipBlock, Rgbpp!At, Rgbpp!Continue, RgbppRunning
  <2>2. {"tipBlock", "endTip"} \subseteq Located /\ "endTip" \notin Rgbpp!Inclusion
    BY DEF Located, Rgbpp!Inclusion
  <2>3. /\ update \in Rgbpp!Op /\ update.phase = "endTip" /\ update.form = op.form
        /\ update.tip = op.tip /\ update.block = op.block
    BY <1>3, <2>2
  <2> HIDE DEF update
  <2> QED BY <2>1, <2>2, <2>3, RgbppKnown, RgbppGotoInv
<1>8. CASE Rgbpp!readEndTip(o)
  <2> DEFINE stable == bitcoin = op.tip
             confirmation == Rgbpp!confirmationState(TRUE, TRUE, op.block.height,
                                                     op.tip.height, stable)
  <2>1. RgbppRunning(o) /\ op.phase = "endTip" /\ Rgbpp!Receipt(o, confirmation)
    BY <1>8 DEF Rgbpp!readEndTip, Rgbpp!At, RgbppRunning
  <2>2. op.tip \in Rgbpp!Blocks /\ op.block \in Rgbpp!Blocks
    BY <1>1, <2>1, RgbppKnown DEF Rgbpp!Op
  <2>3. op.block.height \in Nat /\ op.tip.height \in Nat
    BY <2>2, InspectorsAssumption DEF Rgbpp!Blocks
  <2>4. confirmation \in {"unknown", "observed threshold reached", "pending confirmations"}
    <3>1. stable \in BOOLEAN
      OBVIOUS
    <3> HIDE DEF op, stable
    <3> QED BY <2>3, <3>1, ConfirmationState
  <2>5. confirmation \in Rgbpp!Confirmations
    BY <2>4 DEF Rgbpp!Confirmations
  <2> HIDE DEF confirmation
  <2> QED BY <2>1, <2>5, RgbppReceiptInv
<1>9. CASE Rgbpp!BitcoinUnknown(o)
  <2>1. RgbppRunning(o) /\ Rgbpp!Receipt(o, "unknown")
    BY <1>9 DEF Rgbpp!BitcoinUnknown, RgbppRunning, Rgbpp!Inclusion
  <2> QED BY <1>2, <2>1, RgbppReceiptInv
<1> QED BY <1>4, <1>5, <1>6, <1>7, <1>8, <1>9

LEMMA RgbppNextInv == RgbppInv /\ [Rgbpp!Next]_rgbpp => RgbppInv'
<1> SUFFICES ASSUME RgbppInv, [Rgbpp!Next]_rgbpp PROVE RgbppInv'
  OBVIOUS
<1>1. CASE UNCHANGED rgbpp
  BY <1>1
  DEF rgbpp, RgbppInv, Rgbpp!TypeOK, RgbppLookupOK, RgbppRunning, ProofOK,
      Rgbpp!Containing, Rgbpp!ShownAnswersTheForm
<1> QED
  BY <1>1, RgbppChainInv, RgbppUserInv, RgbppRunInv, RgbppDeadlineInv, RgbppCkbInv,
     RgbppTipsInv, RgbppBitcoinInv
  DEF Rgbpp!Next, Rgbpp!Step

\* A step that shows a threshold reached is the look at the last tip, which is the first.
LEMMA RgbppThreshold ==
  RgbppInv /\ [Rgbpp!Next]_rgbpp =>
    (rgbppShown' # rgbppShown /\ rgbppShown'.confirmation = "observed threshold reached"
       => Rgbpp!Deep)
<1> SUFFICES ASSUME RgbppInv, [Rgbpp!Next]_rgbpp, rgbppShown' # rgbppShown,
                    rgbppShown'.confirmation = "observed threshold reached"
             PROVE  Rgbpp!Deep
  OBVIOUS
<1>1. Rgbpp!Nothing.confirmation = "none"
      /\ \A o : [Rgbpp!Nothing EXCEPT !.kind = "error", !.op = o].confirmation = "none"
  BY DEF Rgbpp!Nothing
<1>2. \A o : Rgbpp!Refused(o) => FALSE
  BY <1>1 DEF Rgbpp!Refused, Rgbpp!Settle
<1>3. ASSUME NEW o, NEW c, Rgbpp!Receipt(o, c) PROVE c = "observed threshold reached"
  <2> DEFINE receipt == [kind |-> "receipt", op |-> o, confirmation |-> c,
                         more |-> rgbppOps[o].more]
  <2>1. Rgbpp!Settle(o, receipt)
    BY <1>2, <1>3 DEF Rgbpp!Receipt
  <2>2. receipt.confirmation = c
    OBVIOUS
  <2> HIDE DEF receipt
  <2>3. rgbppShown' = receipt
    BY <2>1 DEF Rgbpp!Settle
  <2> QED BY <2>2, <2>3
<1>4. \A o, u : Rgbpp!Goto(o, u) => FALSE
  BY DEF Rgbpp!Goto, Rgbpp!page
<1>5. PICK o \in Queries : Rgbpp!Step(o)
  BY <1>1, <1>4
  DEF Rgbpp!Next, rgbpp, Rgbpp!Grow, Rgbpp!Reorg, Rgbpp!page, Rgbpp!change, Rgbpp!Cancel,
      Rgbpp!Leave, Rgbpp!run, Rgbpp!Deadline
<1>6. Rgbpp!readEndTip(o)
  BY <1>2, <1>3, <1>4, <1>5
  DEF Rgbpp!Step, Rgbpp!request, Rgbpp!readIdentities, Rgbpp!readDeployment, Rgbpp!readTips,
      Rgbpp!readIndex, Rgbpp!readTransaction, Rgbpp!readLive, Rgbpp!NextRow,
      Rgbpp!readBitcoinTx, Rgbpp!readOutspend, Rgbpp!readProof, Rgbpp!readHeight,
      Rgbpp!Included, Rgbpp!readTipBlock,
      Rgbpp!BitcoinUnknown, Rgbpp!Continue
<1> DEFINE op == rgbppOps[o]
           stable == bitcoin = op.tip
<1>7. /\ op.phase = "endTip"
      /\ Rgbpp!confirmationState(TRUE, TRUE, op.block.height, op.tip.height, stable)
           = "observed threshold reached"
  BY <1>3, <1>6 DEF Rgbpp!readEndTip, Rgbpp!At
<1>8. op.tip \in Rgbpp!Blocks /\ op.block \in Rgbpp!Blocks
  BY <1>7, RgbppKnown DEF Rgbpp!Op
<1>9. op.block.height \in Nat /\ op.tip.height \in Nat
  <2> HIDE DEF op
  <2> QED BY <1>8, HeightType
<1>10. stable /\ op.tip.height - op.block.height + 1 >= Threshold
  <2>1. stable \in BOOLEAN
    OBVIOUS
  <2> HIDE DEF op, stable
  <2> QED BY <1>7, <1>9, <2>1, ConfirmationState
<1>11. Rgbpp!Containing = op.block /\ op.block # NoValue
  BY <1>7, <1>10, RgbppKnown DEF Located
<1> QED BY <1>10, <1>11 DEF Rgbpp!Deep

-----------------------------------------------------------------------------
(***************************************************************************)
(* The arithmetic of the iCKB inspector.                                   *)
(***************************************************************************)

LEMMA Quotient ==
  \A n \in Nat, d \in Nat \ {0} : n \div d \in Nat /\ d * (n \div d) <= n
BY SMT

LEMMA Product == \A m, n \in Nat : m * n \in Nat
BY SMT

LEMMA Larger == \A k, m, n \in Nat : m <= n => k * m <= k * n
BY SMT

\* A part of something is not more than the whole.
LEMMA Part ==
  ASSUME NEW n \in Nat, NEW p \in Nat, NEW q \in Nat \ {0}, p <= q
  PROVE  (n * p) \div q \in 0 .. n
<1> DEFINE part == (n * p) \div q
<1>1. n * p \in Nat /\ n * q \in Nat /\ n * p <= n * q
  BY Product, Larger
<1>2. part \in Nat /\ q * part <= n * p
  BY <1>1, Quotient
<1> HIDE DEF part
<1>3. ASSUME part > n PROVE FALSE
  <2>1. n + 1 <= part /\ n + 1 \in Nat
    BY <1>2, <1>3
  <2>2. q * (n + 1) <= q * part
    BY <1>2, <2>1, Larger
  <2>3. q * (n + 1) = n * q + q
    OBVIOUS
  <2> DEFINE a == n * p
             b == n * q
             c == q * part
             d == q * (n + 1)
  <2>4. a \in Nat /\ b \in Nat /\ c \in Nat /\ d \in Nat
    BY <1>1, <1>2, <2>1, Product
  <2>5. a <= b /\ c <= a /\ d <= c /\ d = b + q
    BY <1>1, <1>2, <2>2, <2>3
  <2> HIDE DEF a, b, c, d
  <2> QED BY <2>4, <2>5
<1>4. part \in 0 .. n
  BY <1>2, <1>3
<1> QED BY <1>4 DEF part

\* A receipt is worth at most what was deposited.
LEMMA ReceiptBound ==
  ASSUME NEW free \in Nat, NEW ar \in AR0 .. U64
  PROVE  Ickb!receiptValue(free, ar) \in 0 .. free
<1> DEFINE amount == (free * AR0) \div ar
           cut == (amount - CAP) \div 10
<1>1. AR0 \in Nat \ {0} /\ CAP \in Nat \ {0} /\ U64 \in Nat
  BY InspectorsAssumption
<1>2. ar \in Nat \ {0} /\ AR0 <= ar
  BY <1>1
<1>3. amount \in 0 .. free
  BY <1>1, <1>2, Part
<1> HIDE DEF amount
<1>4. CASE amount > CAP
  <2>1. amount - CAP \in Nat
    BY <1>1, <1>3, <1>4
  <2>2. cut \in Nat /\ 10 * cut <= amount - CAP
    BY <2>1, Quotient
  <2> HIDE DEF cut
  <2>3. amount - cut \in 0 .. free
    BY <1>1, <1>3, <1>4, <2>2
  <2> QED BY <1>4, <2>3 DEF Ickb!receiptValue, amount, cut
<1>5. CASE ~(amount > CAP)
  BY <1>3, <1>5 DEF Ickb!receiptValue, amount
<1> QED BY <1>4, <1>5

LEMMA CeilingType == \A x \in Nat, y \in Nat \ {0} : Ickb!Ceiling(x, y) \in Nat
<1> SUFFICES ASSUME NEW x \in Nat, NEW y \in Nat \ {0} PROVE Ickb!Ceiling(x, y) \in Nat
  OBVIOUS
<1>1. x + y - 1 \in Nat
  OBVIOUS
<1> QED BY <1>1, Quotient DEF Ickb!Ceiling

\* A conversion has a natural number as its result.
LEMMA OutputType ==
  ASSUME NEW amount \in Nat, NEW ar \in AR0 .. U64, NEW direction
  PROVE  Ickb!Output(amount, ar, direction) \in Nat
<1>1. /\ AR0 \in Nat \ {0} /\ CAP \in Nat \ {0} /\ U64 \in Nat /\ OCCUPIED \in Nat
      /\ FEE \in Nat /\ FEEBASE \in Nat \ {0} /\ FEE <= FEEBASE
  BY InspectorsAssumption
<1>2. Ickb!EXCHANGE_DELTA \in Nat
  <2>1. OCCUPIED * AR0 \in Nat
    BY <1>1, Product
  <2> QED BY <1>1, <2>1, Quotient DEF Ickb!EXCHANGE_DELTA
<1> DEFINE denominator == ar + Ickb!EXCHANGE_DELTA
           kept == FEEBASE - FEE
           a == IF direction = "ckb-to-ickb" THEN AR0 ELSE denominator
           b == IF direction = "ckb-to-ickb" THEN denominator ELSE AR0
<1>3. denominator \in Nat \ {0} /\ kept \in Nat
  BY <1>1, <1>2
<1> HIDE DEF denominator
<1>4. a \in Nat \ {0} /\ b \in Nat \ {0}
  BY <1>1, <1>3
<1> HIDE DEF a, b, kept
<1>5. amount * a * kept \in Nat
  <2>1. amount * a \in Nat
    BY <1>4, Product
  <2> QED BY <1>3, <2>1, Product
<1>6. b * FEEBASE \in Nat \ {0}
  <2>1. b * FEEBASE \in Nat
    BY <1>1, <1>4, Product
  <2>2. FEEBASE * 1 <= FEEBASE * b
    BY <1>1, <1>4, Larger
  <2>3. FEEBASE * 1 = FEEBASE /\ FEEBASE * b = b * FEEBASE
    BY <1>1, <1>4
  <2> DEFINE p == b * FEEBASE
  <2>4. p \in Nat /\ FEEBASE <= p
    BY <2>1, <2>2, <2>3
  <2> HIDE DEF p
  <2>5. p \in Nat \ {0}
    BY <1>1, <2>4
  <2> QED BY <2>5 DEF p
<1>7. Ickb!Ceiling(amount * a * kept, b * FEEBASE) \in Nat
  BY <1>5, <1>6, CeilingType
<1>8. Ickb!Output(amount, ar, direction) = Ickb!Ceiling(amount * a * kept, b * FEEBASE)
  BY DEF Ickb!Output, denominator, a, b, kept
<1> QED BY <1>7, <1>8

-----------------------------------------------------------------------------
(***************************************************************************)
(* The iCKB inspector.                                                     *)
(***************************************************************************)

IckbSnapshot == [network : Ickb!Networks, header : Ickb!Header, fresh : BOOLEAN]

IckbResult ==
  [network : Ickb!Networks, fields : IckbFields, header : Ickb!Header, output : 0 .. U128,
   estimate : 0 .. U64, plan : BOOLEAN]

Reads == {"genesis", "tip", "canonical", "group", "cells", "final"}

\* The header is there, and what was read is of its branch, unless the chain left that
\* branch, or left it and came back.
HeaderOK(o) ==
  /\ ickbOps[o].header \in Ickb!Header /\ Ickb!rate(ickbOps[o].header.ar)
  /\ reorgs = ickbOps[o].since => branch = ickbOps[o].header.branch
  /\ reorgs - ickbOps[o].since <= 1 /\ branch = ickbOps[o].header.branch =>
       ickbOps[o].read \subseteq {branch}

\* A refresh that goes on is the one of the page, which shows no snapshot and is busy;
\* one that was aborted is stale; a preview that waits for its address, and is not stale, is of the fields shown.
IckbQueryOK(o) ==
  /\ ickbOps[o].phase \in Reads =>
       /\ o = controller /\ ickbBusy /\ snapshot = NoValue
       /\ ickbOps[o].current /\ ickbOps[o].network = network /\ ickbOps[o].since <= reorgs
  /\ ickbOps[o].phase \in {"genesis", "tip"} => ickbOps[o].read = {}
  /\ ickbOps[o].phase \in Reads \ {"genesis", "tip"} => HeaderOK(o)
  /\ ickbOps[o].phase = "cells" => ickbOps[o].cells >= 1
  /\ ickbOps[o].phase = "aborted" => ~ickbOps[o].current
  /\ ickbOps[o].phase = "address" /\ ickbOps[o].current =>
       /\ snapshot # NoValue
       /\ ickbOps[o].fields = fields /\ Ickb!Preview(fields) # NoValue

IckbInv ==
  /\ Ickb!TypeOK
  /\ \A o \in Queries : IckbQueryOK(o)
  /\ snapshot # NoValue => Ickb!rate(snapshot.header.ar)
  /\ Ickb!ShownAnswersTheForm

LEMMA IckbIdle ==
  /\ Ickb!IdleOp \in Ickb!Op /\ Ickb!IdleOp.read = {}
  /\ \A phase \in Ickb!Phases :
       LET op == [Ickb!IdleOp EXCEPT !.phase = phase] IN
         op \in Ickb!Op /\ op.phase = phase /\ op.current = FALSE
<1>1. CodeCells \in Nat /\ MaxReorgs \in Nat
  BY InspectorsAssumption
<1>2. Ickb!IdleOp \in Ickb!Op /\ Ickb!IdleOp.current = FALSE /\ Ickb!IdleOp.read = {}
  BY <1>1 DEF Ickb!IdleOp, Ickb!Op, Ickb!Phases
<1> QED BY <1>2 DEF Ickb!Op

LEMMA IckbTypes ==
  Ickb!TypeOK <=>
    /\ network \in Ickb!Networks /\ fields \in IckbFields
    /\ ickbBusy \in BOOLEAN /\ error \in BOOLEAN
    /\ snapshot \in IckbSnapshot \cup {NoValue}
    /\ result \in IckbResult \cup {NoValue}
    /\ controller \in Queries \cup {NoValue}
    /\ ickbOps \in [Queries -> Ickb!Op]
    /\ branch \in Ickb!Branches /\ reorgs \in 0 .. MaxReorgs
BY DEF Ickb!TypeOK, IckbSnapshot, IckbResult

\* What does not read, and waits for no address or is stale, has nothing to keep.
LEMMA IckbStopped ==
  ASSUME NEW o \in Queries, ickbOps'[o].phase \in {"idle", "aborted", "address", "done"},
         ickbOps'[o].phase \in {"aborted", "address"} => ~ickbOps'[o].current
  PROVE  IckbQueryOK(o)'
BY DEF IckbQueryOK, Reads

LEMMA IckbInitInv == Ickb!Init => IckbInv
<1> SUFFICES ASSUME Ickb!Init PROVE IckbInv
  OBVIOUS
<1>1. MaxReorgs \in Nat /\ 0 \in 0 .. MaxReorgs
  BY InspectorsAssumption
<1>2. Ickb!IdleOp \in Ickb!Op /\ Ickb!IdleOp.phase = "idle"
  <2>1. CodeCells \in Nat /\ MaxReorgs \in Nat
    BY InspectorsAssumption
  <2> QED BY <2>1 DEF Ickb!IdleOp, Ickb!Op, Ickb!Phases
<1>3. Ickb!TypeOK
  BY <1>1, <1>2, IckbTypes DEF Ickb!Init, Ickb!Branches
<1>4. \A o \in Queries : IckbQueryOK(o)
  <2>1. \A o \in Queries : ickbOps[o].phase = "idle"
    BY <1>2 DEF Ickb!Init
  <2> QED BY <2>1 DEF IckbQueryOK, Reads
<1> QED BY <1>3, <1>4 DEF Ickb!Init, IckbInv, Ickb!ShownAnswersTheForm

\* After an edit no request of the page goes on.
LEMMA IckbStale ==
  ASSUME IckbInv
  PROVE  /\ Ickb!Stale \in [Queries -> Ickb!Op]
         /\ \A o \in Queries :
              /\ Ickb!Stale[o].phase \in {"idle", "aborted", "address", "done"}
              /\ ~Ickb!Stale[o].current
<1> DEFINE aborted == [Ickb!IdleOp EXCEPT !.phase = "aborted"]
           old(o) == [ickbOps[o] EXCEPT !.current = FALSE]
<1>1. ickbOps \in [Queries -> Ickb!Op]
  BY IckbTypes DEF IckbInv
<1>2. aborted \in Ickb!Op /\ aborted.phase = "aborted" /\ ~aborted.current
  BY IckbIdle DEF Ickb!Phases
<1>3. \A o \in Queries : /\ old(o) \in Ickb!Op /\ old(o).phase = ickbOps[o].phase
                         /\ ~old(o).current
  BY <1>1 DEF Ickb!Op
<1> HIDE DEF aborted, old
<1>4. Ickb!Stale = [o \in Queries |-> IF o = controller /\ ~Ickb!Free(o)
                                        THEN aborted ELSE old(o)]
  BY DEF Ickb!Stale, aborted, old
<1>5. \A o \in Queries : Ickb!Stale[o] = IF o = controller /\ ~Ickb!Free(o)
                                           THEN aborted ELSE old(o)
  BY <1>4
<1>6. Ickb!Stale \in [Queries -> Ickb!Op]
  BY <1>2, <1>3, <1>4
<1>7. \A o \in Queries :
        \/ ickbOps[o].phase \in {"idle", "aborted", "address", "done"}
        \/ o = controller /\ ~Ickb!Free(o)
  <2>1. \A o \in Queries : ickbOps[o].phase \in Ickb!Phases
    BY <1>1 DEF Ickb!Op
  <2>2. \A o \in Queries : ickbOps[o].phase \in Reads => o = controller
    BY DEF IckbInv, IckbQueryOK
  <2> QED BY <2>1, <2>2 DEF Ickb!Phases, Reads, Ickb!Free
<1> QED BY <1>2, <1>3, <1>5, <1>6, <1>7

\* A preview answers the fields it was asked of, with the snapshot of the page.
LEMMA QuoteType ==
  ASSUME IckbInv, snapshot # NoValue, NEW f \in IckbFields, Ickb!Preview(f) # NoValue
  PROVE  LET quote == Ickb!Preview(f) IN
           /\ quote \in IckbResult
           /\ quote.network = network /\ quote.fields = f
           /\ quote.header = snapshot.header /\ quote.estimate <= f.amount
<1> DEFINE ar == snapshot.header.ar
           output == Ickb!indicative(f.amount, ar, f.direction)
           estimate == IF f.direction = "ckb-to-ickb"
                         THEN Ickb!receiptValue(f.amount, ar) ELSE 0
           quote == [network |-> network, fields |-> f, header |-> snapshot.header,
                     output |-> output, estimate |-> estimate, plan |-> FALSE]
<1>1. Ickb!Preview(f) = IF output = NoValue THEN NoValue ELSE quote
  BY DEF Ickb!Preview
<1>2. output # NoValue
  BY <1>1
<1>3. /\ network \in Ickb!Networks /\ snapshot.header \in Ickb!Header
      /\ ar \in AR0 .. U64
  BY IckbTypes DEF IckbInv, IckbSnapshot, Ickb!rate
<1>4. /\ f.amount \in Nat /\ f.direction \in {"ckb-to-ickb", "ickb-to-ckb"}
      /\ U64 \in Nat /\ U128 \in Nat /\ U64 <= U128
  BY InspectorsAssumption
<1> DEFINE out == Ickb!Output(f.amount, ar, f.direction)
<1>5. out \in Nat /\ Ickb!receiptValue(f.amount, ar) \in 0 .. f.amount
  BY <1>3, <1>4, OutputType, ReceiptBound
<1>6. /\ f.amount <= IF f.direction = "ckb-to-ickb" THEN U64 ELSE U128
      /\ out <= IF f.direction = "ckb-to-ickb" THEN U128 ELSE U64
      /\ output = out
  <2> HIDE DEF out, ar
  <2> QED BY <1>2, <1>4 DEF Ickb!indicative, out
<1>7. output \in 0 .. U128
  <2> HIDE DEF out, output
  <2> QED BY <1>4, <1>5, <1>6
<1>8. estimate \in 0 .. U64 /\ estimate <= f.amount
  <2> DEFINE value == Ickb!receiptValue(f.amount, ar)
  <2>1. value \in 0 .. f.amount /\ estimate = IF f.direction = "ckb-to-ickb" THEN value ELSE 0
    BY <1>5
  <2> HIDE DEF value, estimate
  <2> QED BY <1>4, <1>6, <2>1
<1> HIDE DEF output, estimate
<1>9. quote \in IckbResult
  BY <1>3, <1>7, <1>8 DEF IckbResult
<1> QED BY <1>1, <1>2, <1>8, <1>9

\* Cancel, an edit of a field, another network: nothing goes on, no review stays.
LEMMA IckbUserInv ==
  ASSUME IckbInv, Ickb!Cancel \/ Ickb!changeNetwork \/ Ickb!changeFields
  PROVE  IckbInv'
<1>1. /\ ickbOps' = Ickb!Stale /\ ickbBusy' = FALSE /\ result' = NoValue /\ error' = FALSE
      /\ controller' = controller /\ branch' = branch /\ reorgs' = reorgs
      /\ network' \in Ickb!Networks /\ fields' \in IckbFields
      /\ \/ snapshot' = NoValue
         \/ snapshot' = snapshot /\ network' = network
  BY IckbTypes DEF IckbInv, Ickb!Cancel, Ickb!changeNetwork, Ickb!changeFields,
     Ickb!Cleared, Ickb!chain
<1>2. Ickb!TypeOK'
  BY <1>1, IckbStale, IckbTypes DEF IckbInv, Ickb!TypeOK, IckbSnapshot
<1>3. \A o \in Queries : IckbQueryOK(o)'
  BY <1>1, IckbStale, IckbStopped
<1>4. Ickb!ShownAnswersTheForm' /\ (snapshot' # NoValue => Ickb!rate(snapshot'.header.ar))
  BY <1>1 DEF IckbInv, Ickb!ShownAnswersTheForm, Ickb!rate
<1> QED BY <1>2, <1>3, <1>4 DEF IckbInv, Ickb!rate

LEMMA IckbRefreshInv ==
  ASSUME IckbInv, NEW o \in Queries, Ickb!refresh(o)
  PROVE  IckbInv'
<1> DEFINE new == [Ickb!IdleOp EXCEPT !.phase = "genesis", !.current = TRUE,
                                      !.network = network, !.since = reorgs]
<1>1. /\ ickbOps' = [Ickb!Stale EXCEPT ![o] = new] /\ controller' = o
      /\ snapshot' = NoValue /\ ickbBusy' = TRUE /\ result' = NoValue /\ error' = FALSE
      /\ network' = network /\ fields' = fields /\ branch' = branch /\ reorgs' = reorgs
  BY DEF Ickb!refresh, Ickb!Cleared, Ickb!chain
<1>2. /\ network \in Ickb!Networks /\ reorgs \in 0 .. MaxReorgs /\ MaxReorgs \in Nat
      /\ CodeCells \in Nat
  BY IckbTypes, InspectorsAssumption DEF IckbInv
<1>3. /\ new \in Ickb!Op /\ new.phase = "genesis" /\ new.current = TRUE
      /\ new.network = network /\ new.since = reorgs /\ new.read = {}
  BY <1>2, IckbIdle, ZenonT(60) DEF Ickb!Op, Ickb!Phases
<1> HIDE DEF new
<1>4. /\ ickbOps' \in [Queries -> Ickb!Op]
      /\ \A p \in Queries : ickbOps'[p] = IF p = o THEN new ELSE Ickb!Stale[p]
  BY <1>1, <1>3, IckbStale
<1>5. Ickb!TypeOK'
  BY <1>1, <1>4, IckbTypes DEF IckbInv, Ickb!TypeOK
<1>6. ASSUME NEW p \in Queries PROVE IckbQueryOK(p)'
  <2>1. CASE p = o
    <3>1. ickbOps'[p] = new
      BY <1>4, <2>1
    <3> QED BY <1>1, <1>2, <1>3, <2>1, <3>1 DEF IckbQueryOK, Reads
  <2>2. CASE p # o
    BY <1>4, <2>2, IckbStale, IckbStopped
  <2> QED BY <2>1, <2>2
<1> QED BY <1>1, <1>5, <1>6 DEF IckbInv, Ickb!ShownAnswersTheForm

LEMMA IckbPreviewInv ==
  ASSUME IckbInv, NEW o \in Queries, Ickb!preview(o)
  PROVE  IckbInv'
<1> DEFINE quote == Ickb!Preview(fields)
           new == [Ickb!IdleOp EXCEPT !.phase = "address", !.current = TRUE,
                                      !.fields = fields]
<1>1. /\ snapshot # NoValue
      /\ UNCHANGED <<network, fields, ickbBusy, snapshot, controller, branch, reorgs>>
      /\ \/ result' = NoValue /\ error' = TRUE /\ ickbOps' = Ickb!Stale
         \/ /\ quote # NoValue /\ result' = NoValue /\ error' = FALSE
            /\ ickbOps' = [Ickb!Stale EXCEPT ![o] = new]
         \/ /\ quote # NoValue /\ result' = quote /\ error' = FALSE
            /\ ickbOps' = Ickb!Stale
  BY DEF Ickb!preview, Ickb!Cleared, Ickb!chain
<1>2. fields \in IckbFields
  BY IckbTypes DEF IckbInv
<1>3. /\ new \in Ickb!Op /\ new.phase = "address" /\ new.fields = fields
  BY <1>2, IckbIdle, ZenonT(60) DEF Ickb!Op, Ickb!Phases
<1>4. quote' = quote
  BY <1>1 DEF Ickb!Preview
<1>5. quote # NoValue =>
        /\ quote \in IckbResult
        /\ quote.network = network /\ quote.fields = fields
        /\ quote.header = snapshot.header /\ quote.estimate <= fields.amount
  BY <1>1, <1>2, QuoteType
<1> HIDE DEF new, quote
<1>6. CASE ickbOps' = Ickb!Stale
  <2>1. \A p \in Queries : IckbQueryOK(p)'
    BY <1>6, IckbStale, IckbStopped
  <2>2. result' \in IckbResult \cup {NoValue} /\ error' \in BOOLEAN
    BY <1>1, <1>5
  <2>3. Ickb!TypeOK'
    BY <1>1, <1>6, <2>2, IckbStale, IckbTypes DEF IckbInv, Ickb!TypeOK, IckbResult
  <2>4. Ickb!ShownAnswersTheForm'
    BY <1>1, <1>5 DEF IckbInv, Ickb!ShownAnswersTheForm
  <2> QED BY <1>1, <2>1, <2>3, <2>4 DEF IckbInv, Ickb!rate
<1>7. CASE /\ quote # NoValue /\ result' = NoValue /\ error' = FALSE
           /\ ickbOps' = [Ickb!Stale EXCEPT ![o] = new]
  <2>1. /\ ickbOps' \in [Queries -> Ickb!Op]
        /\ \A p \in Queries : ickbOps'[p] = IF p = o THEN new ELSE Ickb!Stale[p]
    BY <1>3, <1>7, IckbStale
  <2>2. ASSUME NEW p \in Queries PROVE IckbQueryOK(p)'
    <3>1. CASE p = o
      <4>1. ickbOps'[p] = new
        BY <2>1, <3>1
      <4> QED BY <1>1, <1>3, <1>4, <1>7, <4>1 DEF IckbQueryOK, Reads, quote
    <3>2. CASE p # o
      BY <2>1, <3>2, IckbStale, IckbStopped
    <3> QED BY <3>1, <3>2
  <2>3. Ickb!TypeOK'
    BY <1>1, <1>7, <2>1, IckbTypes DEF IckbInv, Ickb!TypeOK
  <2>4. Ickb!ShownAnswersTheForm'
    BY <1>1, <1>7 DEF IckbInv, Ickb!ShownAnswersTheForm
  <2> QED BY <1>1, <2>2, <2>3, <2>4 DEF IckbInv, Ickb!rate
<1> QED BY <1>1, <1>6, <1>7

\* A request, or a preview, that ends: the others, the network, the fields and the
\* chain stay, and so does what is shown but for an answer of its own.
LEMMA IckbEndInv ==
  ASSUME IckbInv, NEW o \in Queries,
         ickbOps' = [ickbOps EXCEPT ![o] = [Ickb!IdleOp EXCEPT !.phase = "done"]],
         UNCHANGED <<network, fields, snapshot, controller, branch, reorgs>>,
         result' \in IckbResult \cup {NoValue}, error' \in BOOLEAN, ickbBusy' \in BOOLEAN,
         \A p \in Queries \ {o} : ickbOps[p].phase \in Reads => ickbBusy' = ickbBusy,
         Ickb!ShownAnswersTheForm'
  PROVE  IckbInv'
<1> DEFINE done == [Ickb!IdleOp EXCEPT !.phase = "done"]
<1>1. done \in Ickb!Op /\ done.phase = "done"
  BY IckbIdle DEF Ickb!Phases
<1> HIDE DEF done
<1>2. /\ ickbOps' \in [Queries -> Ickb!Op]
      /\ \A p \in Queries : ickbOps'[p] = IF p = o THEN done ELSE ickbOps[p]
  BY <1>1, IckbTypes DEF IckbInv, done
<1>3. Ickb!TypeOK'
  <2>1. Ickb!TypeOK
    BY DEF IckbInv
  <2> QED BY <1>2, <2>1 DEF Ickb!TypeOK, IckbResult
<1>4. ASSUME NEW p \in Queries PROVE IckbQueryOK(p)'
  <2>1. CASE p = o
    BY <1>1, <1>2, <2>1, IckbStopped
  <2>2. CASE p # o
    <3>1. ickbOps'[p] = ickbOps[p] /\ IckbQueryOK(p)
      BY <1>2, <2>2 DEF IckbInv
    <3>2. HeaderOK(p)' = HeaderOK(p) /\ Ickb!Preview(fields)' = Ickb!Preview(fields)
      BY <3>1 DEF HeaderOK, Ickb!rate, Ickb!Preview
    <3>3. ickbOps[p].phase \in Reads => ickbBusy' = ickbBusy
      BY <2>2
    <3> QED BY <3>1, <3>2, <3>3 DEF IckbQueryOK
  <2> QED BY <2>1, <2>2
<1> QED BY <1>3, <1>4 DEF IckbInv, Ickb!rate

LEMMA IckbAddressInv ==
  ASSUME IckbInv, NEW o \in Queries, Ickb!address(o)
  PROVE  IckbInv'
<1> DEFINE quote == Ickb!Preview(fields)
           planned == [quote EXCEPT !.plan = TRUE]
<1>1. /\ ickbOps' = [ickbOps EXCEPT ![o] = [Ickb!IdleOp EXCEPT !.phase = "done"]]
      /\ UNCHANGED <<network, fields, ickbBusy, snapshot, controller, branch, reorgs>>
      /\ ickbOps[o].phase = "address"
  BY DEF Ickb!address, Ickb!chain
<1>2. Ickb!TypeOK /\ IckbQueryOK(o) /\ Ickb!ShownAnswersTheForm
  BY DEF IckbInv
<1>3. /\ error' \in BOOLEAN
      /\ \/ result' = result
         \/ /\ ickbOps[o].current
            /\ result' = planned /\ snapshot # NoValue /\ quote # NoValue
  BY <1>1, <1>2, IckbTypes DEF Ickb!address, IckbQueryOK
<1>4. fields \in IckbFields /\ ickbBusy \in BOOLEAN /\ result \in IckbResult \cup {NoValue}
  BY <1>2, IckbTypes
<1>5. CASE result' = result
  BY <1>1, <1>2, <1>3, <1>4, <1>5, IckbEndInv DEF Ickb!ShownAnswersTheForm
<1>6. CASE result' = planned /\ snapshot # NoValue /\ quote # NoValue
  <2>1. /\ quote \in IckbResult
        /\ quote.network = network /\ quote.fields = fields
        /\ quote.header = snapshot.header /\ quote.estimate <= fields.amount
    BY <1>4, <1>6, QuoteType
  <2> HIDE DEF quote
  <2>2. /\ planned \in IckbResult
        /\ planned.network = network /\ planned.fields = fields
        /\ planned.header = snapshot.header /\ planned.estimate <= fields.amount
    BY <2>1 DEF IckbResult
  <2> HIDE DEF planned
  <2>3. Ickb!ShownAnswersTheForm'
    BY <1>1, <1>2, <1>6, <2>2 DEF Ickb!ShownAnswersTheForm
  <2> QED BY <1>1, <1>3, <1>4, <1>6, <2>2, <2>3, IckbEndInv
<1> QED BY <1>3, <1>5, <1>6

\* At most one refresh reads.
LEMMA IckbOneReader ==
  ASSUME IckbInv, NEW o \in Queries, NEW p \in Queries \ {o}, ickbOps[o].phase \in Reads
  PROVE  ickbOps[p].phase \notin Reads
BY DEF IckbInv, IckbQueryOK

LEMMA IckbRpcInv == ASSUME IckbInv, NEW o \in Queries, Ickb!rpc(o) PROVE IckbInv'
<1> DEFINE failed == error \/ ickbOps[o].phase # "aborted"
           held == ickbBusy /\ ~ickbOps[o].current
<1>1. /\ ickbOps' = [ickbOps EXCEPT ![o] = [Ickb!IdleOp EXCEPT !.phase = "done"]]
      /\ UNCHANGED <<network, fields, snapshot, result, controller, branch, reorgs>>
      /\ error' = failed /\ ickbBusy' = held
      /\ ickbOps[o].phase \in Ickb!Phases \ {"idle", "address", "done"}
  BY DEF Ickb!rpc, Ickb!chain
<1>2. Ickb!TypeOK /\ Ickb!ShownAnswersTheForm
  BY DEF IckbInv
<1>3. failed \in BOOLEAN /\ held \in BOOLEAN
  OBVIOUS
<1> HIDE DEF failed
<1>4. \A p \in Queries \ {o} : ickbOps[p].phase \in Reads => ickbBusy' = ickbBusy
  <2>1. ickbOps[o].phase \in Reads \cup {"aborted"}
    BY <1>1 DEF Ickb!Phases, Reads
  <2>2. CASE ickbOps[o].phase \in Reads
    BY <2>2, IckbOneReader
  <2>3. CASE ickbOps[o].phase = "aborted"
    <3>1. ~ickbOps[o].current
      BY <2>3 DEF IckbInv, IckbQueryOK
    <3> QED BY <1>1, <1>2, <3>1, IckbTypes
  <2> QED BY <2>1, <2>2, <2>3
<1> HIDE DEF held
<1>5. Ickb!ShownAnswersTheForm'
  BY <1>1, <1>2 DEF Ickb!ShownAnswersTheForm
<1>6. result' \in IckbResult \cup {NoValue}
  BY <1>1, <1>2, IckbTypes
<1> QED BY <1>1, <1>3, <1>4, <1>5, <1>6, IckbEndInv

\* A refresh goes on with what it knows; the page and the chain stay.
LEMMA IckbGotoInv ==
  ASSUME IckbInv, NEW o \in Queries, NEW update \in Ickb!Op,
         ickbOps' = [ickbOps EXCEPT ![o] = update], UNCHANGED <<Ickb!page, Ickb!chain>>,
         ickbOps[o].phase \in Reads, update.phase \in Reads,
         update.current = ickbOps[o].current, update.network = ickbOps[o].network,
         update.since = ickbOps[o].since,
         update.phase \in {"genesis", "tip"} => update.read = {},
         update.phase \in Reads \ {"genesis", "tip"} =>
           /\ update.header \in Ickb!Header /\ Ickb!rate(update.header.ar)
           /\ reorgs = update.since => branch = update.header.branch
           /\ reorgs - update.since <= 1 /\ branch = update.header.branch =>
                update.read \subseteq {branch},
         update.phase = "cells" => update.cells >= 1
  PROVE  IckbInv'
<1>1. /\ UNCHANGED <<network, fields, ickbBusy, snapshot, result, error, controller>>
      /\ UNCHANGED <<branch, reorgs>>
  BY DEF Ickb!page, Ickb!chain
<1>2. /\ ickbOps' \in [Queries -> Ickb!Op]
      /\ \A p \in Queries : ickbOps'[p] = IF p = o THEN update ELSE ickbOps[p]
  BY IckbTypes DEF IckbInv
<1>3. Ickb!TypeOK'
  BY <1>1, <1>2 DEF IckbInv, Ickb!TypeOK
<1>4. ASSUME NEW p \in Queries PROVE IckbQueryOK(p)'
  <2>1. CASE p = o
    <3>1. ickbOps'[p] = update /\ IckbQueryOK(o)
      BY <1>2, <2>1 DEF IckbInv
    <3>2. update.phase \in Reads \ {"genesis", "tip"} => HeaderOK(p)'
      BY <1>1, <3>1 DEF HeaderOK, Ickb!rate
    <3> QED BY <1>1, <2>1, <3>1, <3>2 DEF IckbQueryOK, Reads
  <2>2. CASE p # o
    <3>1. ickbOps'[p] = ickbOps[p] /\ IckbQueryOK(p)
      BY <1>2, <2>2 DEF IckbInv
    <3>2. HeaderOK(p)' = HeaderOK(p) /\ Ickb!Preview(fields)' = Ickb!Preview(fields)
      BY <1>1, <3>1 DEF HeaderOK, Ickb!rate, Ickb!Preview
    <3> QED BY <1>1, <3>1, <3>2 DEF IckbQueryOK
  <2> QED BY <2>1, <2>2
<1>5. Ickb!ShownAnswersTheForm'
  BY <1>1 DEF IckbInv, Ickb!ShownAnswersTheForm
<1> QED BY <1>1, <1>3, <1>4, <1>5 DEF IckbInv, Ickb!rate

\* The requests of a refresh.
LEMMA IckbReadInv ==
  ASSUME IckbInv, NEW o \in Queries,
         \/ Ickb!readGenesis(o) \/ Ickb!validateHeader(o) \/ Ickb!checkCanonical(o)
         \/ Ickb!decodeDepGroup(o) \/ Ickb!readCodeCell(o)
  PROVE  IckbInv'
<1> DEFINE op == ickbOps[o]
<1>1. /\ op \in Ickb!Op /\ branch \in Ickb!Branches /\ IckbQueryOK(o)
      /\ CodeCells \in Nat \ {0}
  BY IckbTypes, InspectorsAssumption DEF IckbInv
<1>2. op.cells \in 0 .. CodeCells /\ op.read \subseteq Ickb!Branches /\ op.phase \in Ickb!Phases
  BY <1>1 DEF Ickb!Op
<1>3. CASE Ickb!readGenesis(o)
  <2> DEFINE update == [op EXCEPT !.phase = "tip"]
  <2>1. /\ op.phase = "genesis" /\ ickbOps' = [ickbOps EXCEPT ![o] = update]
        /\ UNCHANGED <<Ickb!page, Ickb!chain>>
    BY <1>3 DEF Ickb!readGenesis
  <2>2. /\ update \in Ickb!Op /\ update.phase = "tip" /\ update.current = op.current
        /\ update.network = op.network /\ update.since = op.since /\ update.read = op.read
    BY <1>1 DEF Ickb!Op, Ickb!Phases
  <2>3. op.read = {}
    BY <1>1, <2>1 DEF IckbQueryOK
  <2> HIDE DEF update
  <2> QED BY <2>1, <2>2, <2>3, IckbGotoInv DEF Reads
<1>4. CASE Ickb!validateHeader(o)
  <2>1. PICK header \in Ickb!Header :
          /\ header.branch = branch /\ Ickb!rate(header.ar)
          /\ Ickb!Read(o, [op EXCEPT !.phase = "canonical", !.header = header])
    BY <1>4 DEF Ickb!validateHeader
  <2> DEFINE update == [[op EXCEPT !.phase = "canonical", !.header = header]
                          EXCEPT !.read = @ \cup {branch}]
  <2>2. /\ op.phase = "tip" /\ ickbOps' = [ickbOps EXCEPT ![o] = update]
        /\ UNCHANGED <<Ickb!page, Ickb!chain>>
    BY <1>4, <2>1 DEF Ickb!Read, Ickb!validateHeader
  <2>4. /\ update \in Ickb!Op /\ update.phase = "canonical" /\ update.current = op.current
        /\ update.network = op.network /\ update.since = op.since
        /\ update.read = op.read \cup {branch} /\ update.header = header
    BY <1>1 DEF Ickb!Op, Ickb!Phases
  <2>5. op.read = {}
    BY <1>1, <2>2 DEF IckbQueryOK
  <2> HIDE DEF update
  <2> QED BY <2>1, <2>2, <2>4, <2>5, IckbGotoInv DEF Reads
<1>5. ASSUME NEW phase \in {"group", "cells", "final"}, NEW cells \in 0 .. CodeCells,
             Ickb!Read(o, [op EXCEPT !.phase = phase, !.cells = cells]),
             op.phase \in Reads \ {"genesis", "tip"}, phase = "cells" => cells >= 1
      PROVE  IckbInv'
  <2> DEFINE update == [[op EXCEPT !.phase = phase, !.cells = cells]
                          EXCEPT !.read = @ \cup {branch}]
  <2>1. /\ ickbOps' = [ickbOps EXCEPT ![o] = update]
        /\ UNCHANGED <<Ickb!page, Ickb!chain>>
    BY <1>5 DEF Ickb!Read
  <2>2. /\ update \in Ickb!Op /\ update.phase = phase /\ update.current = op.current
        /\ update.network = op.network /\ update.since = op.since
        /\ update.read = op.read \cup {branch} /\ update.header = op.header
        /\ update.cells = cells
    BY <1>1 DEF Ickb!Op, Ickb!Phases
  <2>3. HeaderOK(o)
    BY <1>1, <1>5 DEF IckbQueryOK
  <2> HIDE DEF update
  <2> QED BY <1>5, <2>1, <2>2, <2>3, IckbGotoInv DEF Reads, HeaderOK
<1>6. CASE Ickb!checkCanonical(o)
  <2>1. [op EXCEPT !.phase = "group"] = [op EXCEPT !.phase = "group", !.cells = op.cells]
    BY <1>1 DEF Ickb!Op
  <2>2. op.phase = "canonical" /\ Ickb!Read(o, [op EXCEPT !.phase = "group"])
    BY <1>6 DEF Ickb!checkCanonical
  <2>3. Ickb!Read(o, [op EXCEPT !.phase = "group", !.cells = op.cells])
    BY <2>1, <2>2
  <2> QED BY <1>2, <1>5, <2>2, <2>3 DEF Reads
<1>7. CASE Ickb!decodeDepGroup(o)
  <2>1. /\ op.phase = "group"
        /\ Ickb!Read(o, [op EXCEPT !.phase = "cells", !.cells = CodeCells])
    BY <1>7 DEF Ickb!decodeDepGroup
  <2>2. CodeCells \in 0 .. CodeCells /\ CodeCells >= 1
    BY <1>1
  <2> QED BY <1>5, <2>1, <2>2 DEF Reads
<1>8. CASE Ickb!readCodeCell(o)
  <2> DEFINE phase == IF op.cells = 1 THEN "final" ELSE "cells"
             cells == op.cells - 1
  <2>1. op.phase = "cells" /\ Ickb!Read(o, [op EXCEPT !.phase = phase, !.cells = cells])
    BY <1>8 DEF Ickb!readCodeCell
  <2>2. op.cells >= 1
    BY <1>1, <2>1 DEF IckbQueryOK
  <2>3. /\ phase \in {"group", "cells", "final"} /\ cells \in 0 .. CodeCells
        /\ phase = "cells" => cells >= 1
    BY <1>1, <1>2, <2>2
  <2> HIDE DEF phase, cells
  <2> QED BY <1>5, <2>1, <2>3 DEF Reads
<1> QED BY <1>3, <1>4, <1>6, <1>7, <1>8

\* The snapshot is shown only of the refresh that the page still waits for.
LEMMA IckbLoadInv ==
  ASSUME IckbInv, NEW o \in Queries, Ickb!loadSnapshot(o)
  PROVE  IckbInv'
<1> DEFINE op == ickbOps[o]
           done == [Ickb!IdleOp EXCEPT !.phase = "done"]
<1>1. Ickb!TypeOK /\ Ickb!ShownAnswersTheForm /\ IckbQueryOK(o)
  BY DEF IckbInv
<1>2. op \in Ickb!Op /\ op.phase = "final"
  BY <1>1, IckbTypes DEF Ickb!loadSnapshot
<1>3. /\ o = controller /\ snapshot = NoValue /\ op.current /\ op.network = network
      /\ op.header \in Ickb!Header /\ Ickb!rate(op.header.ar)
  BY <1>1, <1>2 DEF IckbQueryOK, HeaderOK, Reads
<1>4. PICK fresh \in BOOLEAN :
        snapshot' = [network |-> op.network, header |-> op.header, fresh |-> fresh]
  BY <1>3 DEF Ickb!loadSnapshot
<1>5. /\ ickbOps' = [ickbOps EXCEPT ![o] = done] /\ ickbBusy' = FALSE
      /\ UNCHANGED <<network, fields, result, error, controller, branch, reorgs>>
  BY <1>3 DEF Ickb!loadSnapshot, Ickb!chain
<1>6. /\ snapshot' \in IckbSnapshot /\ snapshot'.network = network
      /\ snapshot'.header = op.header
  <2>1. op.header \in Ickb!Header /\ network \in Ickb!Networks
    BY <1>1, <1>2, <1>3, IckbTypes DEF Ickb!Op
  <2> QED BY <1>3, <1>4, <2>1 DEF IckbSnapshot
<1>7. done \in Ickb!Op /\ done.phase = "done"
  BY IckbIdle DEF Ickb!Phases
<1> HIDE DEF done
<1>8. /\ ickbOps' \in [Queries -> Ickb!Op]
      /\ \A p \in Queries : ickbOps'[p] = IF p = o THEN done ELSE ickbOps[p]
  BY <1>1, <1>5, <1>7, IckbTypes
<1>9. Ickb!TypeOK'
  BY <1>1, <1>5, <1>6, <1>8 DEF Ickb!TypeOK, IckbSnapshot
<1>10. ASSUME NEW p \in Queries PROVE IckbQueryOK(p)'
  <2>1. CASE p = o
    BY <1>7, <1>8, <2>1, IckbStopped
  <2>2. CASE p # o
    <3>1. ickbOps'[p] = ickbOps[p] /\ IckbQueryOK(p) /\ ickbOps[p].phase \in Ickb!Phases
      BY <1>1, <1>8, <2>2, IckbTypes DEF IckbInv, Ickb!Op
    <3>2. ickbOps[p].phase \notin Reads
      BY <1>2, <2>2, IckbOneReader DEF Reads
    <3>3. ickbOps[p].phase \in {"aborted", "address"} => ~ickbOps[p].current
      BY <1>3, <3>1 DEF IckbQueryOK
    <3> QED BY <3>1, <3>2, <3>3, IckbStopped DEF Ickb!Phases, Reads
  <2> QED BY <2>1, <2>2
<1>11. result' = NoValue
  BY <1>1, <1>3, <1>5 DEF Ickb!ShownAnswersTheForm
<1>12. Ickb!ShownAnswersTheForm'
  BY <1>5, <1>6, <1>11 DEF Ickb!ShownAnswersTheForm
<1>13. Ickb!rate(snapshot'.header.ar)
  BY <1>3, <1>6
<1> QED BY <1>9, <1>10, <1>12, <1>13 DEF IckbInv, Ickb!rate

\* The chain takes another branch: of what a refresh read, it knows only that one
\* change could not bring the chain back.
LEMMA IckbReorgInv == ASSUME IckbInv, Ickb!Reorg PROVE IckbInv'
<1>1. /\ UNCHANGED <<network, fields, ickbBusy, snapshot, result, error, controller>>
      /\ ickbOps' = ickbOps /\ branch' \in Ickb!Branches /\ branch' # branch
      /\ reorgs' = reorgs + 1 /\ reorgs < MaxReorgs
  BY DEF Ickb!Reorg, Ickb!page
<1>2. MaxReorgs \in Nat /\ reorgs \in 0 .. MaxReorgs /\ Ickb!TypeOK
  BY IckbTypes, InspectorsAssumption DEF IckbInv
<1>3. Ickb!TypeOK'
  BY <1>1, <1>2 DEF Ickb!TypeOK
<1>4. ASSUME NEW o \in Queries PROVE IckbQueryOK(o)'
  <2>1. IckbQueryOK(o)
    BY DEF IckbInv
  <2>2. ickbOps[o].since \in Nat
    BY <1>2, IckbTypes DEF Ickb!Op
  <2>3. Ickb!Preview(fields)' = Ickb!Preview(fields)
    BY <1>1 DEF Ickb!Preview
  <2>4. ickbOps[o].phase \in Reads => ickbOps[o].since <= reorgs
    BY <2>1 DEF IckbQueryOK
  <2>5. HeaderOK(o) /\ ickbOps[o].since <= reorgs => HeaderOK(o)'
    <3> SUFFICES ASSUME HeaderOK(o), ickbOps[o].since <= reorgs PROVE HeaderOK(o)'
      OBVIOUS
    <3> DEFINE since == ickbOps[o].since
    <3> HIDE DEF since
    <3>1. since \in Nat /\ since <= reorgs
      BY <2>2 DEF since
    <3>2. reorgs' # since /\ (reorgs' - since <= 1 => reorgs = since)
      BY <1>1, <1>2, <3>1
    <3>3. reorgs = since => branch' # ickbOps[o].header.branch
      BY <1>1 DEF HeaderOK, since
    <3> QED BY <1>1, <3>2, <3>3 DEF HeaderOK, since, Ickb!rate
  <2>6. ickbOps[o].since <= reorgs => ickbOps[o].since <= reorgs'
    BY <1>1, <1>2, <2>2
  <2> QED BY <1>1, <2>1, <2>3, <2>4, <2>5, <2>6 DEF IckbQueryOK, Reads
<1>5. Ickb!ShownAnswersTheForm'
  BY <1>1 DEF IckbInv, Ickb!ShownAnswersTheForm
<1> QED BY <1>1, <1>3, <1>4, <1>5 DEF IckbInv, Ickb!rate

\* A snapshot that ages keeps its network and its header.
LEMMA IckbAgeInv == ASSUME IckbInv, Ickb!Age PROVE IckbInv'
<1>1. /\ UNCHANGED <<network, fields, ickbBusy, result, error, controller, ickbOps>>
      /\ UNCHANGED <<branch, reorgs>>
      /\ snapshot # NoValue /\ snapshot' = [snapshot EXCEPT !.fresh = FALSE]
  BY DEF Ickb!Age, Ickb!chain
<1>2. Ickb!TypeOK /\ snapshot \in IckbSnapshot
  BY <1>1, IckbTypes DEF IckbInv
<1>3. /\ snapshot' \in IckbSnapshot /\ snapshot'.network = snapshot.network
      /\ snapshot'.header = snapshot.header
  BY <1>1, <1>2 DEF IckbSnapshot
<1>4. snapshot' # NoValue
  BY <1>3, InspectorsAssumption
  DEF IckbSnapshot, Ickb!Networks, Ickb!Header, Ickb!Branches
<1>5. Ickb!TypeOK'
  BY <1>1, <1>2, <1>3 DEF Ickb!TypeOK, IckbSnapshot
<1>6. ASSUME NEW o \in Queries PROVE IckbQueryOK(o)'
  <2>1. IckbQueryOK(o)
    BY DEF IckbInv
  <2>2. HeaderOK(o)' = HeaderOK(o) /\ Ickb!Preview(fields)' = Ickb!Preview(fields)
    BY <1>1, <1>3 DEF HeaderOK, Ickb!rate, Ickb!Preview
  <2>3. ickbOps[o].phase \notin Reads
    BY <1>1, <2>1 DEF IckbQueryOK
  <2> QED BY <1>1, <1>4, <2>1, <2>2, <2>3 DEF IckbQueryOK, Reads
<1>7. Ickb!ShownAnswersTheForm' /\ Ickb!rate(snapshot'.header.ar)
  BY <1>1, <1>3, <1>4 DEF IckbInv, Ickb!ShownAnswersTheForm, Ickb!rate
<1> QED BY <1>5, <1>6, <1>7 DEF IckbInv, Ickb!rate

LEMMA IckbNextInv == IckbInv /\ [Ickb!Next]_ickb => IckbInv'
<1> SUFFICES ASSUME IckbInv, [Ickb!Next]_ickb PROVE IckbInv'
  OBVIOUS
<1>1. CASE UNCHANGED ickb
  BY <1>1
  DEF ickb, IckbInv, Ickb!TypeOK, IckbQueryOK, HeaderOK, Ickb!rate, Ickb!Preview,
      Ickb!ShownAnswersTheForm
<1> QED
  BY <1>1, IckbUserInv, IckbAgeInv, IckbReorgInv, IckbRefreshInv, IckbPreviewInv,
     IckbRpcInv, IckbReadInv, IckbLoadInv, IckbAddressInv
  DEF Ickb!Next, Ickb!Step

\* What changes the snapshot while a refresh is at its end is that end, or an edit, a
\* refresh or an ageing that finds no such refresh.
LEMMA IckbOneChain ==
  ASSUME IckbInv, [Ickb!Next]_ickb, NEW o \in Queries, ickbOps[o].phase = "final",
         snapshot' # snapshot, reorgs - ickbOps[o].since <= 1
  PROVE  \A b \in ickbOps[o].read \cup {branch} : Ickb!InChain(ickbOps[o].header, b)
<1>1. snapshot = NoValue /\ ickbBusy /\ HeaderOK(o)
  BY SMTT(60) DEF IckbInv, IckbQueryOK, Reads
<1>2. PICK p \in Queries : Ickb!loadSnapshot(p)
  BY <1>1
  DEF Ickb!Next, Ickb!Step, ickb, Ickb!page, Ickb!Cancel, Ickb!changeNetwork,
      Ickb!changeFields, Ickb!Age, Ickb!Reorg, Ickb!refresh, Ickb!preview, Ickb!rpc,
      Ickb!readGenesis, Ickb!validateHeader, Ickb!checkCanonical, Ickb!decodeDepGroup,
      Ickb!readCodeCell, Ickb!Read, Ickb!address
<1>3. p = o
  BY <1>2, IckbOneReader DEF Ickb!loadSnapshot, Reads
<1>4. ickbOps[o].header.common \/ branch = ickbOps[o].header.branch
  BY <1>2, <1>3 DEF Ickb!loadSnapshot, Ickb!Canonical, Ickb!InChain
<1> QED BY <1>1, <1>4 DEF HeaderOK, Ickb!InChain

-----------------------------------------------------------------------------
(***************************************************************************)
(* The three inspectors together.  A step of one leaves the others alone.  *)
(***************************************************************************)

InspectorsInv == SsriInv /\ RgbppInv /\ IckbInv

LEMMA InspectorsInitInv == InspectorsInit => InspectorsInv
BY SsriInitInv, RgbppInitInv, IckbInitInv DEF InspectorsInit, InspectorsInv

LEMMA InspectorsStep ==
  [InspectorsNext]_inspectors =>
    [Ssri!Next]_ssri /\ [Rgbpp!Next]_rgbpp /\ [Ickb!Next]_ickb
BY DEF InspectorsNext, inspectors

LEMMA InspectorsNextInv ==
  InspectorsInv /\ [InspectorsNext]_inspectors => InspectorsInv'
BY InspectorsStep, SsriNextInv, RgbppNextInv, IckbNextInv DEF InspectorsInv

LEMMA InspectorsInvariant == InspectorsSpec => []InspectorsInv
BY InspectorsInitInv, InspectorsNextInv, PTL DEF InspectorsSpec

\* What an inspector shows answers the fields on its page, however many queries were
\* asked, cancelled and edited under way: the revision and the abort signal of each
\* page keep every other answer out.
THEOREM InspectorsAnswerTheForm == InspectorsSpec => []ShownAnswersTheForm
<1>1. InspectorsInv => ShownAnswersTheForm
  BY DEF InspectorsInv, SsriInv, RgbppInv, IckbInv, ShownAnswersTheForm
<1> QED BY <1>1, InspectorsInvariant, PTL

\* An RGB++ receipt that reports the threshold is right about the Bitcoin chain of that
\* moment: a tip that is the same at the end is a chain that has not changed.
THEOREM ThresholdsAreEarned == InspectorsSpec => ThresholdIsEarned
<1>1. InspectorsInv /\ [InspectorsNext]_inspectors =>
        [rgbppShown' # rgbppShown /\ rgbppShown'.confirmation = "observed threshold reached"
           => Rgbpp!Deep]_Rgbpp!vars
  BY InspectorsStep, RgbppThreshold DEF InspectorsInv
<1> QED BY <1>1, InspectorsInvariant, PTL
        DEF InspectorsSpec, ThresholdIsEarned, Rgbpp!ThresholdIsEarned

\* The rate and the code of an iCKB snapshot were read from chains that its header is in,
\* whenever the chain changed branches at most once while they were read.
THEOREM SnapshotsAreOfOneChain == InspectorsSpec => SnapshotIsOneChain
<1>1. InspectorsInv /\ [InspectorsNext]_inspectors =>
        [\A o \in Queries :
           (ickbOps[o].phase = "final" /\ snapshot' # snapshot
              /\ reorgs - ickbOps[o].since <= 1) =>
             \A b \in ickbOps[o].read \cup {branch} :
               Ickb!InChain(ickbOps[o].header, b)]_Ickb!vars
  BY InspectorsStep, IckbOneChain DEF InspectorsInv
<1> QED BY <1>1, InspectorsInvariant, PTL
        DEF InspectorsSpec, SnapshotIsOneChain, Ickb!SnapshotIsOneChain
=============================================================================
