----------------------------- MODULE WalletPages -----------------------------
(***************************************************************************)
(* The wallet side of the portal, one part of it at a time: the asset      *)
(* page, the session with the backend, the wallet that a page shows, the   *)
(* page that stores data, the hash-lock lab, the cells of the Token Lab    *)
(* and of the Spore Studio, and the developer console.                     *)
(* The state is that of the part that runs; the others stay where they     *)
(* began.                                                                  *)
(***************************************************************************)
EXTENDS AssetPortfolio, Sequences

CONSTANTS
  MaxTokens, MaxChecks,                                      \* BrowserSession
  MaxReads,                                                  \* WalletSnapshot
  Ops, Texts, MaxStored,                                     \* StoreData
  Funders, Capacity, WithData, Fee, Occupied, CellLimit,     \* SimpleLockLab
  Holders, Issuer, Amounts, U128_MAX, Genesis, MaxCoins, MaxPool,   \* TokenCells
  Artists, User, Contents, MaxAssetCells, MaxIds, MaxSpores,        \* SporeCells
  Keys, Calls, SCOPE_LIMIT, LOG_LIMIT, MaxLogs               \* DevConsole

ASSUME WalletPagesAssumption ==
  /\ MaxTokens \in Nat /\ MaxChecks \in Nat /\ MaxReads \in Nat /\ MaxStored \in Nat
  /\ CellLimit \in Nat \ {0}
  /\ {0, 1} \subseteq DOMAIN Fee /\ 0 \in DOMAIN Occupied
  /\ User \in Artists /\ MaxAssetCells \in Nat /\ MaxIds \in Nat /\ MaxSpores \in Nat
  /\ MaxAssetCells >= 2 /\ MaxIds >= 2
  /\ SCOPE_LIMIT \in Nat \ {0} /\ LOG_LIMIT \in Nat \ {0} /\ MaxLogs \in Nat

VARIABLES
  route,
  wallet, token, issued, session, sessionOf, login, checks, request,
  shownWallet, shownAddress, loading, error, reads,
  connected, message, txHash, encoded, decoded, readOf, sent, confirmed, recorded, ops,
  loaded, funder, preimage, digest, recipient, feeRate, address, cells, selected, prepared,
  lock, live, op,
  coins, unspent, user, work, pool, supply,
  assetCells, liveAssets, indexed, broadcast, draft, hash, following, verifying, evidence,
  scope, paused, buffers, generations, sequence, pending

B == INSTANCE BrowserSession
       WITH Wallets <- Accounts, authenticated <- session, walletAddress <- sessionOf

W == INSTANCE WalletSnapshot
       WITH Wallets <- Accounts, wallet <- shownWallet, address <- shownAddress

D == INSTANCE StoreData WITH MaxSent <- MaxStored, live <- confirmed

L == INSTANCE SimpleLockLab WITH Wallets <- Funders, wallet <- funder

T == INSTANCE TokenCells
       WITH Wallets <- Holders, MaxCells <- MaxCoins, cells <- coins, live <- unspent

S == INSTANCE SporeCells
       WITH Wallets <- Artists, Checks <- Ops, MaxCells <- MaxAssetCells,
            MaxSent <- MaxSpores, cells <- assetCells, live <- liveAssets,
            sent <- broadcast, work <- draft, busy <- following, checks <- verifying

C == INSTANCE DevConsole WITH Ops <- Calls, MaxGenerations <- MaxLogs

\* An amount that is asked for fits its encoding; what there is at first are cells.
ASSUME TokensAssumption ==
  /\ U128_MAX \in Nat /\ MaxCoins \in Nat
  /\ Amounts \subseteq 0 .. U128_MAX
  /\ \A g \in Genesis : g \in Seq(T!Cell) /\ Len(g) <= MaxCoins

assets == vars
sessions ==
  <<wallet, token, issued, session, sessionOf, login, checks, request>>
snapshots == <<shownWallet, shownAddress, loading, error, reads>>
storing ==
  <<connected, message, txHash, encoded, decoded, readOf, sent, confirmed, recorded, ops>>
locking ==
  <<loaded, funder, preimage, digest, recipient, feeRate, address, cells, selected,
    prepared, lock, live, op>>
tokens == <<coins, unspent, user, work, pool, supply>>
spores ==
  <<assetCells, liveAssets, indexed, broadcast, draft, hash, following, verifying,
    evidence>>
console == <<scope, paused, buffers, generations, sequence, pending>>

PagesInit ==
  /\ route \in
       {"assets", "session", "snapshot", "store", "lock", "token", "spore", "console"}
  /\ Init /\ B!Init /\ W!Init /\ D!Init /\ L!Init /\ T!Init /\ S!Init /\ C!Init

PagesNext ==
  \/ /\ route = "assets" /\ Next
     /\ UNCHANGED <<route, sessions, snapshots, storing, locking, tokens, spores, console>>
  \/ /\ route = "session" /\ B!Next
     /\ UNCHANGED <<route, assets, snapshots, storing, locking, tokens, spores, console>>
  \/ /\ route = "snapshot" /\ W!Next
     /\ UNCHANGED <<route, assets, sessions, storing, locking, tokens, spores, console>>
  \/ /\ route = "store" /\ D!Next
     /\ UNCHANGED <<route, assets, sessions, snapshots, locking, tokens, spores, console>>
  \/ /\ route = "lock" /\ L!Next
     /\ UNCHANGED <<route, assets, sessions, snapshots, storing, tokens, spores, console>>
  \/ /\ route = "token" /\ T!Next
     /\ UNCHANGED <<route, assets, sessions, snapshots, storing, locking, spores, console>>
  \/ /\ route = "spore" /\ S!Next
     /\ UNCHANGED <<route, assets, sessions, snapshots, storing, locking, tokens, console>>
  \/ /\ route = "console" /\ C!Next
     /\ UNCHANGED <<route, assets, sessions, snapshots, storing, locking, tokens, spores>>

pages ==
  <<route, assets, sessions, snapshots, storing, locking, tokens, spores, console>>

PagesSpec == PagesInit /\ [][PagesNext]_pages /\ SyncsEnd

-----------------------------------------------------------------------------

\* A session is of a wallet that signed for it, and a snapshot that loads has a read.
SessionIsSigned ==
  /\ route = "session" => B!TypeOK /\ B!SessionIsSigned
  /\ route = "snapshot" => W!TypeOK /\ W!LoadingIsTrue

\* The session, and the wallet that a page shows, come to be those of the wallet that is
\* connected.
SessionHeals == B!SessionHeals /\ W!SnapshotHeals

\* What the pages that store data and that lock cells show belongs together: data and
\* transaction, address and digest, unlock and fields.
ShownAnswersTheForm ==
  /\ route = "store" => D!TypeOK /\ D!ShownAnswersTheForm
  /\ route = "lock" => L!TypeOK /\ L!ShownAnswersTheForm

\* The Token Lab neither makes nor loses a token that its review does not name.
TokensAreKept == route = "token" => T!TypeOK /\ T!TokensAreKept

\* What the Spore Studio calls verified has happened.
EvidenceIsEarned == route = "spore" => S!TypeOK /\ S!EvidenceIsEarned

\* A log of the console that was cleared or evicted does not come back.
LogsAreOfOneGeneration == route = "console" => C!TypeOK /\ C!LogsAreOfOneGeneration
=============================================================================
