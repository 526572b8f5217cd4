--------------------------- MODULE ExternalFunding ---------------------------
(***************************************************************************)
(* A Fiber channel that a CKB wallet funds.  The page of a node opens the  *)
(* channel: the node freezes a funding transaction, the wallet prepares    *)
(* it, and a transaction that is still the frozen one goes into a draft in *)
(* localStorage.  Another page, to which the tab is sent, has the wallet   *)
(* sign the draft and sends the tab back, and that page submits it.        *)
(*                                                                         *)
(* The draft has one key for all the tabs of the browser and for the nodes *)
(* of all profiles.  A transaction is its channel, its inputs and outputs  *)
(* (core) and its cell deps; witnesses are left out.  The node is what it  *)
(* is asked for, one for each profile.                                     *)
(***************************************************************************)
EXTENDS Integers

CONSTANTS
  Tabs,
  Profiles,     \* of the nodes; a document without ?node= has the first of them
  Default,
  Deps,         \* the sets of cell deps that a wallet may want
  LockDeps,     \* the one that CCC knows for the lock of the wallet
  MaxAttempts,  \* of openChannel, to find the deps that the wallet wants: 3 in the code
  MaxChannels,  \* bound of the channels that are opened
  None

VARIABLES
  tab,          \* where every tab is, and what it does there
  draft,        \* fiberFundingStore
  channels,     \* of the nodes: the profile, the state and the frozen transaction
  submitted,    \* history: what the nodes were handed for their channels
  lost          \* history: the channels that a failure or another tab took the draft of

vars == <<tab, draft, channels, submitted, lost>>

Channels == 1 .. MaxChannels

States == {"pending", "abandoned", "funded"}

Tx == [channel : Channels, core : {"frozen", "changed"}, deps : Deps]

Draft ==
  [channel : Channels, profile : Profiles, unsigned : Tx, signed : Tx \cup {None}]

Phases == {"idle", "lock", "open", "prepare", "abandon", "giveup", "sign", "submit"}

\* url: is ?funding=submit in the address?  deps: requiredDeps of openChannel.
\* tx: the unsigned transaction under way, draft: the one that the page was rendered
\* with.
Tab ==
  [page : {"node", "funding"}, profile : Profiles, url : BOOLEAN, phase : Phases,
   attempt : 0 .. MaxAttempts - 1, deps : Deps \cup {None}, tx : Tx \cup {None},
   draft : Draft \cup {None}]

TypeOK ==
  /\ tab \in [Tabs -> Tab]
  /\ draft \in Draft \cup {None}
  /\ channels \in [Channels -> {None} \cup [profile : Profiles, state : States, tx : Tx]]
  /\ submitted \subseteq Tx
  /\ lost \subseteq Channels

Document(page, profile, url) ==
  [page |-> page, profile |-> profile, url |-> url, phase |-> "idle", attempt |-> 0,
   deps |-> None, tx |-> None, draft |-> None]

\* rpcTransactionToCcc and cccTransactionToRpc: what the page compares is the text of the
\* transaction as it writes it, and any other text counts as another core.
cccTransactionToRpc(tx) == {[tx EXCEPT !.core = core] : core \in {tx.core, "changed"}}

Init ==
  /\ tab \in [Tabs -> {Document("node", p, FALSE) : p \in Profiles}]
  /\ draft = None
  /\ channels = [c \in Channels |-> None]
  /\ submitted = {} /\ lost = {}

-----------------------------------------------------------------------------

Opened == {c \in Channels : channels[c] # None}
Pending == {c \in Opened : channels[c].state = "pending"}

\* The channel a tab works on.
Working(t) == IF tab[t].tx = None THEN {} ELSE {tab[t].tx.channel}

\* The channel of the draft, which is overwritten or cleared.
InDraft == IF draft = None THEN {} ELSE {draft.channel}

Idle(t) == [tab[t] EXCEPT !.phase = "idle", !.attempt = 0, !.deps = None, !.tx = None]

Go(t, phase) == tab' = [tab EXCEPT ![t].phase = phase]

\* The page of the node that was sent ?funding=submit submits a signed draft.
submitFunding(document) ==
  IF document.url /\ draft' # None /\ draft'.signed # None
    THEN [document EXCEPT !.phase = "submit", !.tx = draft'.signed]
    ELSE document

\* A document is loaded, and what the one before did is cut off.
Load(t, page, profile, url) ==
  tab' = [tab EXCEPT ![t] =
            IF page = "node" THEN submitFunding(Document(page, profile, url))
            ELSE [Document(page, profile, url) EXCEPT !.draft = draft']]

-----------------------------------------------------------------------------
(***************************************************************************)
(* openChannel.                                                            *)
(***************************************************************************)

openChannel(t) ==
  /\ tab[t].page = "node" /\ tab[t].phase = "idle"
  /\ Go(t, "lock")
  /\ UNCHANGED <<draft, channels, submitted, lost>>

\* The lock of the wallet is one that CCC knows the cells of, or the page gives up.
knownLock(t) ==
  /\ tab[t].phase = "lock"
  /\ \/ tab' = [tab EXCEPT ![t].phase = "open", ![t].deps = LockDeps]
     \/ tab' = [tab EXCEPT ![t] = Idle(t)]
  /\ UNCHANGED <<draft, channels, submitted, lost>>

\* The node opens a channel, and freezes its transaction with the deps it was given.
openChannelWithExternalFunding(t) ==
  /\ tab[t].phase = "open"
  /\ \E c \in Channels \ Opened :
       LET tx == [channel |-> c, core |-> "frozen", deps |-> tab[t].deps] IN
         /\ \A d \in Channels \ Opened : c <= d
         /\ channels' = [channels EXCEPT ![c] =
                           [profile |-> tab[t].profile, state |-> "pending", tx |-> tx]]
         /\ tab' = [tab EXCEPT ![t].phase = "prepare", ![t].tx = tx]
  /\ UNCHANGED <<draft, submitted, lost>>

openFails(t) ==
  /\ tab[t].phase = "open"
  /\ tab' = [tab EXCEPT ![t] = Idle(t)]
  /\ UNCHANGED <<draft, channels, submitted, lost>>

\* What the wallet makes of a transaction.
Prepared(tx) ==
  {text \in Tx : \E core \in {"frozen", "changed"}, d \in Deps :
                  text \in cccTransactionToRpc([tx EXCEPT !.core = core, !.deps = d])}

coreBody(tx) == [tx EXCEPT !.deps = LockDeps]

\* Only the witnesses may differ.
assertOnlyWitnessesChanged(unsigned, signed) == unsigned = signed

\* The wallet refuses to prepare: the channel stays as it is.
prepareFails(t) ==
  /\ tab[t].phase = "prepare"
  /\ tab' = [tab EXCEPT ![t] = Idle(t)]
  /\ lost' = lost \cup Working(t)
  /\ UNCHANGED <<draft, channels, submitted>>

\* Other inputs or outputs: the channel is abandoned, and the page gives up.
coreChanged(t) ==
  /\ tab[t].phase = "prepare"
  /\ \E tx \in Prepared(tab[t].tx) : coreBody(tx) # coreBody(tab[t].tx)
  /\ Go(t, "giveup")
  /\ UNCHANGED <<draft, channels, submitted, lost>>

\* Mutant: the next attempt begins without abandoning the channel of this one.
MutantDepsChanged(t) ==
  /\ tab[t].phase = "prepare"
  /\ \E tx \in Prepared(tab[t].tx) :
       /\ coreBody(tx) = coreBody(tab[t].tx)
       /\ ~assertOnlyWitnessesChanged(tab[t].tx, tx)
       /\ tab' = [tab EXCEPT ![t] =
                    IF tab[t].attempt + 1 = MaxAttempts THEN Idle(t)
                    ELSE [tab[t] EXCEPT !.phase = "open", !.attempt = @ + 1,
                                        !.deps = tx.deps, !.tx = None]]
  /\ UNCHANGED <<draft, channels, submitted, lost>>

\* Other deps only: the channel is abandoned, and another is opened with those.
depsChanged(t) ==
  /\ tab[t].phase = "prepare"
  /\ \E tx \in Prepared(tab[t].tx) :
       /\ coreBody(tx) = coreBody(tab[t].tx)
       /\ ~assertOnlyWitnessesChanged(tab[t].tx, tx)
       /\ tab' = [tab EXCEPT ![t].phase = "abandon", ![t].deps = tx.deps]
  /\ UNCHANGED <<draft, channels, submitted, lost>>

\* The transaction is stable: it becomes the draft, and the tab goes to sign it.
storeDraft(t) ==
  /\ tab[t].phase = "prepare"
  /\ tab[t].tx \in Prepared(tab[t].tx)
  /\ draft' = [channel |-> tab[t].tx.channel, profile |-> tab[t].profile,
               unsigned |-> tab[t].tx, signed |-> None]
  /\ Load(t, "funding", Default, FALSE)
  /\ lost' = lost \cup InDraft
  /\ UNCHANGED <<channels, submitted>>

\* The node abandons the channel, and its data is dropped here.  After the last attempt
\* the page gives up.
abandonChannel(t) ==
  /\ tab[t].phase \in {"abandon", "giveup"}
  /\ channels' = [channels EXCEPT ![tab[t].tx.channel] =
                    [profile |-> Default, state |-> "abandoned",
                     tx |-> [tab[t].tx EXCEPT !.deps = LockDeps]]]
  /\ tab' = [tab EXCEPT ![t] =
               IF tab[t].phase = "giveup" \/ tab[t].attempt + 1 = MaxAttempts THEN Idle(t)
               ELSE [tab[t] EXCEPT !.phase = "open", !.attempt = @ + 1, !.tx = None]]
  /\ UNCHANGED <<draft, submitted, lost>>

abandonFails(t) ==
  /\ tab[t].phase \in {"abandon", "giveup"}
  /\ lost' = lost \cup Working(t)
  /\ tab' = [tab EXCEPT ![t] = Idle(t)]
  /\ UNCHANGED <<draft, channels, submitted>>

-----------------------------------------------------------------------------
(***************************************************************************)
(* signFunding, and the way back.                                          *)
(***************************************************************************)

\* The draft is read when the page is rendered, and at every rendering after.
Render(t) ==
  /\ tab[t].page = "funding" /\ tab[t].phase = "idle"
  /\ tab' = [tab EXCEPT ![t].draft = draft]
  /\ UNCHANGED <<draft, channels, submitted, lost>>

signFunding(t) ==
  /\ tab[t].page = "funding" /\ tab[t].phase = "idle" /\ tab[t].draft # None
  /\ Go(t, "sign")
  /\ UNCHANGED <<draft, channels, submitted, lost>>

\* The wallet signs what it was given or another transaction; or it refuses.
Signed(t) == Prepared(tab[t].draft.unsigned)

\* Mutant: what the wallet returns is stored unlooked at.
MutantSigned(t) ==
  /\ tab[t].phase = "sign"
  /\ \E tx \in Signed(t) : draft' = [tab[t].draft EXCEPT !.signed = tx]
  /\ Load(t, "node", tab[t].draft.profile, TRUE)
  /\ lost' = lost \cup (InDraft \ {tab[t].draft.channel})
  /\ UNCHANGED <<channels, submitted>>

\* The draft that the page was rendered with is stored, signed.
signed(t) ==
  /\ tab[t].phase = "sign"
  /\ \E tx \in Signed(t) :
       /\ assertOnlyWitnessesChanged(tab[t].draft.unsigned, tx)
       /\ draft' = [tab[t].draft EXCEPT !.signed = tx]
  /\ Load(t, "node", tab[t].draft.profile, TRUE)
  /\ lost' = lost \cup (InDraft \ {tab[t].draft.channel})
  /\ UNCHANGED <<channels, submitted>>

signFails(t) ==
  /\ tab[t].phase = "sign"
  /\ Go(t, "idle")
  /\ UNCHANGED <<draft, channels, submitted, lost>>

\* The node takes it for a channel of its own that waits; then whatever draft is there
\* is cleared.
submitSignedFundingTransaction(t) ==
  LET c == tab[t].tx.channel IN
    /\ tab[t].phase = "submit"
    /\ channels[c].profile = tab[t].profile /\ channels[c].state = "pending"
    /\ channels' = [channels EXCEPT ![c].state = "funded"]
    /\ submitted' = submitted \cup {tab[t].tx}
    /\ draft' = None
    /\ lost' = lost \cup (InDraft \ {c})
    /\ tab' = [tab EXCEPT ![t] = [Idle(t) EXCEPT !.url = FALSE]]

submitFails(t) ==
  /\ tab[t].phase = "submit"
  /\ tab' = [tab EXCEPT ![t] = Idle(t)]
  /\ UNCHANGED <<draft, channels, submitted, lost>>

-----------------------------------------------------------------------------

\* The user loads a page in the tab: what it did is cut off, and a channel that it
\* worked on is nobody's, unless the draft has it.
Open(t) ==
  /\ draft' = draft
  /\ \/ Load(t, "funding", Default, FALSE)
     \/ \E p \in Profiles : Load(t, "node", p, FALSE)
     \/ tab[t].page = "node" /\ Load(t, "node", tab[t].profile, tab[t].url)
  /\ lost' = lost \cup (Working(t) \ InDraft)
  /\ UNCHANGED <<channels, submitted>>

Next ==
  \E t \in Tabs :
    \/ openChannel(t) \/ knownLock(t) \/ openChannelWithExternalFunding(t) \/ openFails(t)
    \/ prepareFails(t) \/ coreChanged(t) \/ depsChanged(t) \/ storeDraft(t)
    \/ abandonChannel(t) \/ abandonFails(t)
    \/ Render(t) \/ signFunding(t) \/ signed(t) \/ signFails(t)
    \/ submitSignedFundingTransaction(t) \/ submitFails(t)
    \/ Open(t)

Spec == Init /\ [][Next]_vars

-----------------------------------------------------------------------------

\* A node is handed the transaction that it froze, input for input, for the channel, and
\* never for a channel that was abandoned.
OnlyFrozenFundingIsSubmitted ==
  \A tx \in submitted :
    channels[tx.channel].tx = tx /\ channels[tx.channel].state = "funded"

\* A channel that waits for its funding has the draft, or a tab that works on it,
\* unless a request failed or another tab took its draft.
NoOrphanWithoutCause ==
  Pending \subseteq lost \cup InDraft \cup UNION {Working(t) : t \in Tabs}
=============================================================================
