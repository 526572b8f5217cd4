--------------------------- MODULE AssetPortfolio ---------------------------
(***************************************************************************)
(* The portal's asset page: AssetPortfolioPage.  The page loads the rows   *)
(* of the connected wallet and, on a click, asks the service to index the  *)
(* wallet again.  Both are chains of awaits, so the wallet can change, the *)
(* account behind it can change, and answers can arrive late, between any  *)
(* two of their steps.  What holds the page together is a generation       *)
(* number: a change of signer draws a new one, and a task compares the one *)
(* it started with before it touches the page.                             *)
(*                                                                         *)
(* The service is external here: its answer about a wallet is that wallet. *)
(* The effect runs before the next click is handled, so a change of signer *)
(* and the effect's cleanup and body are one step.  The two increments of  *)
(* that step are one here: generations are only compared for equality.     *)
(***************************************************************************)
EXTENDS Integers

CONSTANTS
  Signers,         \* the wallets a user connects
  Accounts,        \* their addresses
  Clicks,          \* the clicks on "Sync On-chain"
  MaxGenerations,  \* bound: how often the signer changes
  None

ASSUME PortfolioAssumption ==
  MaxGenerations \in Nat /\ None \notin Signers \cup Accounts

Generations == 0 .. MaxGenerations

VARIABLES
  signer,         \* useFeatureSigner: the connected signer, or None
  account,        \* account[s]: what getRecommendedAddress of s answers now
  authenticated,  \* useBackendAuth
  generation,     \* the ref
  page,           \* the React state
  load,           \* load[g]: the task the effect started in generation g
  sync            \* sync[k]: the task click k started

vars == <<signer, account, authenticated, generation, page, load, sync>>

\* events and cells: whose rows the two lists show; None is the empty list.
Page ==
  [address : Accounts \cup {None}, events : Accounts \cup {None},
   cells : Accounts \cup {None}, syncing : BOOLEAN]

EmptyPage == [address |-> None, events |-> None, cells |-> None, syncing |-> FALSE]

Load ==
  [phase : {"none", "address", "network", "lists", "done"},
   signer : Signers \cup {None}, wallet : Accounts \cup {None}]

NoLoad == [phase |-> "none", signer |-> None, wallet |-> None]

Sync ==
  [phase : {"idle", "network", "address", "request", "done"}, version : Generations,
   signer : Signers \cup {None}, address : Accounts \cup {None}]

IdleSync == [phase |-> "idle", version |-> 0, signer |-> None, address |-> None]

TypeOK ==
  /\ signer \in Signers \cup {None}
  /\ account \in [Signers -> Accounts]
  /\ authenticated \in BOOLEAN
  /\ generation \in Generations
  /\ page \in Page
  /\ load \in [Generations -> Load]
  /\ sync \in [Clicks -> Sync]

\* The page is mounted before a wallet is connected.
Init ==
  /\ signer = None
  /\ account \in [Signers -> Accounts]
  /\ authenticated \in BOOLEAN
  /\ generation = 0
  /\ page = EmptyPage
  /\ load = [g \in Generations |-> NoLoad]
  /\ sync = [k \in Clicks |-> IdleSync]

Running(k) == sync[k].phase \in {"network", "address", "request"}

-----------------------------------------------------------------------------
(* The environment.                                                        *)

\* A signer is connected, replaced or disconnected: the effect runs.
SwitchSigner(s) ==
  /\ s # signer
  /\ generation < MaxGenerations
  /\ signer' = s
  /\ generation' = generation + 1
  /\ page' = EmptyPage
  /\ load' = IF s = None THEN load
             ELSE [load EXCEPT ![generation + 1] = [NoLoad EXCEPT !.phase = "address", !.signer = s]]
  /\ UNCHANGED <<account, authenticated, sync>>

\* The user picks another account in a wallet whose signer object stays.
SwitchAccount(s, a) ==
  /\ a # account[s]
  /\ account' = [account EXCEPT ![s] = a]
  /\ UNCHANGED <<signer, authenticated, generation, page, load, sync>>

Authenticate ==
  /\ authenticated' = ~authenticated
  /\ UNCHANGED <<signer, account, generation, page, load, sync>>

-----------------------------------------------------------------------------
(* The effect's task.  Any await of it may fail; it then shows an error, or*)
(* nothing if it is late, and is over.                                     *)

LoadAddress(g) ==
  /\ load[g].phase = "address"
  /\ load' = [load EXCEPT ![g].phase = "network", ![g].wallet = account[load[g].signer]]
  /\ UNCHANGED <<signer, account, authenticated, generation, page, sync>>

LoadNetwork(g) ==
  /\ load[g].phase = "network"
  /\ load' = [load EXCEPT ![g].phase = "lists"]
  /\ UNCHANGED <<signer, account, authenticated, generation, page, sync>>

LoadFails(g) ==
  /\ load[g].phase \in {"address", "network", "lists"}
  /\ load' = [load EXCEPT ![g].phase = "done"]
  /\ UNCHANGED <<signer, account, authenticated, generation, page, sync>>

\* Mutant: the answer is shown without looking at the generation.
MutantShowLists(g) ==
  /\ load[g].phase = "lists"
  /\ load' = [load EXCEPT ![g].phase = "done"]
  /\ page' = [page EXCEPT !.address = load[g].wallet, !.events = load[g].wallet,
                          !.cells = load[g].wallet]
  /\ UNCHANGED <<signer, account, authenticated, generation, sync>>

ShowLists(g) ==
  /\ load[g].phase = "lists"
  /\ load' = [load EXCEPT ![g].phase = "done"]
  /\ page' = IF g = generation
             THEN [page EXCEPT !.address = load[g].wallet, !.events = load[g].wallet,
                               !.cells = load[g].wallet]
             ELSE page
  /\ UNCHANGED <<signer, account, authenticated, generation, sync>>

-----------------------------------------------------------------------------
(* The click's task.                                                       *)

\* The button is off while a sync runs or no address is loaded, and a click
\* without a session only says so.
Click(k) ==
  /\ sync[k].phase = "idle"
  /\ page.address # None /\ signer # None /\ ~page.syncing
  /\ authenticated
  /\ page' = [page EXCEPT !.syncing = TRUE]
  /\ sync' = [sync EXCEPT ![k] =
       [phase |-> "network", version |-> generation, signer |-> signer,
        address |-> page.address]]
  /\ UNCHANGED <<signer, account, authenticated, generation, load>>

\* Mutant: a sync that stops early leaves the spinner on.
MutantForgetSpinner(k) ==
  /\ sync' = [sync EXCEPT ![k].phase = "done"]
  /\ page' = page

\* The finally block.
Settle(k) ==
  /\ sync' = [sync EXCEPT ![k].phase = "done"]
  /\ page' = [page EXCEPT !.syncing = IF sync[k].version = generation THEN FALSE ELSE @]

Proceed(k, phase) ==
  IF sync[k].version = generation
  THEN sync' = [sync EXCEPT ![k].phase = phase] /\ UNCHANGED page
  ELSE Settle(k)

SyncNetwork(k) ==
  /\ sync[k].phase = "network"
  /\ Proceed(k, "address")
  /\ UNCHANGED <<signer, account, authenticated, generation, load>>

\* The account must still be the one whose rows are shown.
SyncAddress(k) ==
  /\ sync[k].phase = "address"
  /\ IF account[sync[k].signer] = sync[k].address THEN Proceed(k, "request") ELSE Settle(k)
  /\ UNCHANGED <<signer, account, authenticated, generation, load>>

ShowResult(k) ==
  /\ sync[k].phase = "request"
  /\ sync' = [sync EXCEPT ![k].phase = "done"]
  /\ page' = IF sync[k].version = generation
             THEN [page EXCEPT !.cells = sync[k].address, !.syncing = FALSE]
             ELSE page
  /\ UNCHANGED <<signer, account, authenticated, generation, load>>

\* An await of the task throws: another network, a refusal, a timeout.
SyncFails(k) ==
  /\ Running(k)
  /\ Settle(k)
  /\ UNCHANGED <<signer, account, authenticated, generation, load>>

SyncStep(k) == SyncNetwork(k) \/ SyncAddress(k) \/ ShowResult(k)

Environment ==
  \/ \E s \in Signers \cup {None} : SwitchSigner(s)
  \/ \E s \in Signers, a \in Accounts : SwitchAccount(s, a)
  \/ Authenticate

Next ==
  \/ Environment
  \/ \E g \in Generations : LoadAddress(g) \/ LoadNetwork(g) \/ LoadFails(g) \/ ShowLists(g)
  \/ \E k \in Clicks : Click(k) \/ SyncStep(k) \/ SyncFails(k)

\* Every await of a sync settles: requests to the service carry a 12 s timeout,
\* and the wallet answers a question about its own address.
SyncsEnd == \A k \in Clicks : WF_vars(SyncStep(k) \/ SyncFails(k))

Spec == Init /\ [][Next]_vars /\ SyncsEnd

-----------------------------------------------------------------------------
(* Properties                                                              *)

(***************************************************************************)
(* The page shows rows of one wallet, the one the current signer answered  *)
(* with when its own load asked: no late answer to a load or a sync of an  *)
(* earlier signer gets on the page.  The button is busy exactly while one  *)
(* sync of this generation runs: a sync of an earlier wallet that ends     *)
(* late does not free it, and none leaves it busy.                         *)
(***************************************************************************)
ShownIsTheCurrentWallet ==
  /\ TypeOK
  /\ page.cells \in {None, page.address}
  /\ page.events \in {None, page.address}
  /\ page.address # None =>
       /\ load[generation].signer = signer
       /\ load[generation].wallet = page.address
  /\ LET Mine == {k \in Clicks : Running(k) /\ sync[k].version = generation} IN
       /\ page.syncing <=> Mine # {}
       /\ \A j, k \in Mine : j = k

(***************************************************************************)
(* A busy button becomes free again.                                       *)
(***************************************************************************)
SpinnerStops == page.syncing ~> ~page.syncing
=============================================================================
