-------------------------- MODULE WalletPages_proofs --------------------------
(***************************************************************************)
(* The wallet side of the portal: proofs.  Every part has an invariant of  *)
(* its own, which is inductive for the part's steps; the steps of another  *)
(* part leave its variables alone.                                         *)
(***************************************************************************)
EXTENDS WalletPages, FiniteSetTheorems, NaturalsInduction, WellFoundedInduction, TLAPS

-----------------------------------------------------------------------------
(***************************************************************************)
(* The asset page.                                                         *)
(***************************************************************************)

\* A generation that has not begun has no load; a load is of a signer, and what it asks
\* the service about is an account.
LoadOK(g) ==
  /\ g > generation => load[g] = NoLoad
  /\ load[g].phase # "none" => load[g].signer \in Signers
  /\ load[g].phase \in {"network", "lists"} => load[g].wallet \in Accounts

\* The load of this generation is of the signer that is connected; rows are shown once it
\* is over, and they are of the wallet that it was told of.
PageOK ==
  /\ load[generation].phase # "none" => load[generation].signer = signer
  /\ page.cells \in {None, page.address} /\ page.events \in {None, page.address}
  /\ page.address # None =>
       load[generation].phase = "done" /\ load[generation].wallet = page.address

\* A sync that runs in this generation is of the wallet whose rows are shown.
SyncOK(k) ==
  /\ sync[k].version <= generation
  /\ Running(k) /\ sync[k].version = generation =>
       page.address # None /\ sync[k].address = page.address

Mine(k) == Running(k) /\ sync[k].version = generation

\* The button is busy while one sync of this generation runs.
BusyOK ==
  /\ page.syncing <=> \E k \in Clicks : Mine(k)
  /\ \A j, k \in Clicks : Mine(j) /\ Mine(k) => j = k

AssetInv ==
  /\ TypeOK
  /\ \A g \in Generations : LoadOK(g)
  /\ PageOK
  /\ \A k \in Clicks : SyncOK(k)
  /\ BusyOK

LEMMA AssetInitInv == Init => AssetInv
<1> SUFFICES ASSUME Init PROVE AssetInv
  OBVIOUS
<1>1. NoLoad \in Load /\ NoLoad.phase = "none" /\ IdleSync \in Sync /\ EmptyPage \in Page
  BY PortfolioAssumption DEF NoLoad, Load, IdleSync, Sync, EmptyPage, Page, Generations
<1>2. TypeOK
  BY <1>1, PortfolioAssumption DEF Init, TypeOK, Generations
<1>3. \A k \in Clicks : sync[k] = IdleSync /\ ~Running(k)
  BY DEF Init, IdleSync, Running
<1>4. \A g \in Generations : load[g] = NoLoad
  BY DEF Init
<1>5. 0 \in Generations
  BY PortfolioAssumption DEF Generations
<1> QED
  BY <1>1, <1>2, <1>3, <1>4, <1>5
  DEF Init, AssetInv, LoadOK, PageOK, SyncOK, BusyOK, Mine, EmptyPage, IdleSync

\* What the signer's accounts and the session with the backend are does not matter to the
\* page's own state.
LEMMA AccountInv ==
  ASSUME AssetInv, \/ \E s \in Signers, a \in Accounts : SwitchAccount(s, a)
                   \/ Authenticate
  PROVE  AssetInv'
<1>1. UNCHANGED <<signer, generation, page, load, sync>>
  BY DEF SwitchAccount, Authenticate
<1>2. TypeOK'
  BY <1>1 DEF AssetInv, TypeOK, SwitchAccount, Authenticate
<1> QED
  BY <1>1, <1>2 DEF AssetInv, LoadOK, PageOK, SyncOK, BusyOK, Mine, Running

\* Another signer: its generation is new, so no task is of it.
LEMMA SwitchSignerInv ==
  ASSUME AssetInv, NEW s \in Signers \cup {None}, SwitchSigner(s) PROVE AssetInv'
<1> DEFINE g == generation + 1
<1> DEFINE fresh == [NoLoad EXCEPT !.phase = "address", !.signer = s]
<1>1. generation \in Nat /\ g \in Generations /\ generation < g /\ generation' = g
  BY PortfolioAssumption DEF AssetInv, TypeOK, SwitchSigner, Generations
<1>2. page' = EmptyPage /\ EmptyPage \in Page /\ sync' = sync /\ signer' = s
  BY DEF SwitchSigner, EmptyPage, Page
<1>3. load[g] = NoLoad /\ NoLoad.phase = "none"
  BY <1>1 DEF AssetInv, LoadOK, NoLoad
<1>4. s # None => s \in Signers /\ fresh \in Load /\ fresh.phase = "address" /\ fresh.signer = s
  BY DEF NoLoad, Load
<1>5. load' = load \/ (s # None /\ load' = [load EXCEPT ![g] = fresh])
  BY DEF SwitchSigner
<1> HIDE DEF fresh
<1>6. TypeOK'
  BY <1>1, <1>2, <1>4, <1>5 DEF AssetInv, TypeOK, SwitchSigner
<1>7. load'[g].phase # "none" => load'[g].signer = s
  BY <1>1, <1>3, <1>4, <1>5 DEF AssetInv, TypeOK
<1>8. ASSUME NEW h \in Generations PROVE LoadOK(h)'
  <2>1. CASE h = g
    BY <2>1, <1>1, <1>3, <1>4, <1>5 DEF AssetInv, TypeOK, LoadOK
  <2>2. CASE h # g
    <3>1. load'[h] = load[h]
      BY <2>2, <1>5 DEF AssetInv, TypeOK
    <3>2. h > g => h > generation
      BY <1>1 DEF Generations
    <3> QED
      BY <3>1, <3>2, <1>1 DEF AssetInv, LoadOK
  <2> QED
    BY <2>1, <2>2
<1>9. PageOK'
  BY <1>1, <1>2, <1>7 DEF PageOK, EmptyPage
<1>10. ASSUME NEW k \in Clicks PROVE sync[k].version \in Nat /\ sync[k].version < g
  BY <1>1 DEF AssetInv, SyncOK, TypeOK, Sync, Generations
<1>11. ASSUME NEW k \in Clicks PROVE SyncOK(k)' /\ ~Mine(k)'
  BY <1>1, <1>2, <1>10 DEF SyncOK, Mine
<1>12. BusyOK'
  BY <1>2, <1>11 DEF BusyOK, EmptyPage
<1> QED
  BY <1>6, <1>8, <1>9, <1>11, <1>12 DEF AssetInv

\* A load goes on, or ends without a word.
LEMMA LoadStepInv ==
  ASSUME AssetInv, NEW g \in Generations, LoadAddress(g) \/ LoadNetwork(g) \/ LoadFails(g)
  PROVE  AssetInv'
<1>1. load[g] \in Load /\ load[g].phase \in {"address", "network", "lists"}
  BY DEF AssetInv, TypeOK, LoadAddress, LoadNetwork, LoadFails
<1>2. load[g].signer \in Signers /\ ~(g > generation)
  BY <1>1 DEF AssetInv, LoadOK, NoLoad
<1>3. PICK q \in Load :
         /\ load' = [load EXCEPT ![g] = q]
         /\ q.signer = load[g].signer /\ q.phase \in {"network", "lists", "done"}
         /\ q.phase \in {"network", "lists"} => q.wallet \in Accounts
  <2>1. CASE LoadAddress(g)
    <3> DEFINE q == [load[g] EXCEPT !.phase = "network", !.wallet = account[load[g].signer]]
    <3>1. account[load[g].signer] \in Accounts
      BY <1>2 DEF AssetInv, TypeOK
    <3>2. load' = [load EXCEPT ![g] = q]
      BY <2>1 DEF LoadAddress, AssetInv, TypeOK
    <3>3. q \in Load /\ q.signer = load[g].signer /\ q.phase = "network" /\ q.wallet \in Accounts
      BY <1>1, <3>1 DEF Load
    <3> QED
      BY <3>2, <3>3
  <2>2. CASE LoadNetwork(g) \/ LoadFails(g)
    <3>1. PICK p \in {"lists", "done"} :
             load' = [load EXCEPT ![g].phase = p] /\ (p = "lists" => load[g].phase = "network")
      BY <2>2 DEF LoadNetwork, LoadFails
    <3> DEFINE q == [load[g] EXCEPT !.phase = p]
    <3>2. q \in Load /\ q.signer = load[g].signer /\ q.phase = p /\ q.wallet = load[g].wallet
      BY <1>1 DEF Load
    <3>3. p = "lists" => load[g].wallet \in Accounts
      BY <3>1 DEF AssetInv, LoadOK
    <3>4. load' = [load EXCEPT ![g] = q]
      BY <3>1
    <3> QED
      BY <3>2, <3>3, <3>4
  <2> QED
    BY <2>1, <2>2
<1>4. UNCHANGED <<signer, account, authenticated, generation, page, sync>>
  BY DEF LoadAddress, LoadNetwork, LoadFails
<1>5. TypeOK'
  BY <1>3, <1>4 DEF AssetInv, TypeOK
<1>6. load'[g] = q /\ \A h \in Generations \ {g} : load'[h] = load[h]
  BY <1>3 DEF AssetInv, TypeOK
<1>7. ASSUME NEW h \in Generations PROVE LoadOK(h)'
  BY <1>2, <1>3, <1>4, <1>6 DEF AssetInv, LoadOK
<1>8. PageOK'
  <2>1. generation \in Generations
    BY DEF AssetInv, TypeOK
  <2>2. g = generation => page.address = None
    BY <1>1 DEF AssetInv, PageOK
  <2> QED
    BY <1>1, <1>3, <1>4, <1>6, <2>1, <2>2 DEF AssetInv, PageOK
<1> QED
  BY <1>4, <1>5, <1>7, <1>8 DEF AssetInv, SyncOK, BusyOK, Mine, Running

\* The lists of this generation are of its wallet; no sync of it runs yet.
LEMMA ShowListsInv ==
  ASSUME AssetInv, NEW g \in Generations, ShowLists(g) PROVE AssetInv'
<1> DEFINE q == [load[g] EXCEPT !.phase = "done"]
<1>1. load[g] \in Load /\ load[g].phase = "lists" /\ load[g].wallet \in Accounts
  BY DEF AssetInv, TypeOK, LoadOK, ShowLists
<1>2. q \in Load /\ q.signer = load[g].signer /\ q.phase = "done" /\ q.wallet = load[g].wallet
  BY <1>1 DEF Load
<1>3. load' = [load EXCEPT ![g] = q]
  BY DEF ShowLists
<1> HIDE DEF q
<1>4. load'[g] = q /\ \A h \in Generations \ {g} : load'[h] = load[h]
  BY <1>3 DEF AssetInv, TypeOK
<1>5. UNCHANGED <<signer, account, authenticated, generation, sync>>
  BY DEF ShowLists
<1>6. load[g].signer \in Signers /\ ~(g > generation) /\ generation \in Generations
  BY <1>1 DEF AssetInv, LoadOK, NoLoad, TypeOK
<1>7. ASSUME NEW h \in Generations PROVE LoadOK(h)'
  BY <1>2, <1>4, <1>5, <1>6 DEF AssetInv, LoadOK
<1>8. page \in Page
  BY DEF AssetInv, TypeOK
<1>9. /\ page' \in Page /\ page'.syncing = page.syncing
      /\ g # generation => page' = page
      /\ g = generation => /\ page'.address = load[g].wallet /\ page'.events = load[g].wallet
                           /\ page'.cells = load[g].wallet
  BY <1>1, <1>8 DEF ShowLists, Page
<1>10. TypeOK'
  BY <1>2, <1>3, <1>5, <1>9 DEF AssetInv, TypeOK
<1>11. g = generation => \A k \in Clicks : ~Mine(k)
  BY <1>1 DEF AssetInv, PageOK, SyncOK, Mine
<1>12. PageOK'
  <2>1. CASE g = generation
    BY <2>1, <1>1, <1>2, <1>4, <1>5, <1>9 DEF AssetInv, PageOK
  <2>2. CASE g # generation
    BY <2>2, <1>4, <1>5, <1>6, <1>9 DEF AssetInv, PageOK
  <2> QED
    BY <2>1, <2>2
<1>13. ASSUME NEW k \in Clicks PROVE SyncOK(k)' /\ Mine(k)' = Mine(k)
  <2>1. Mine(k)' = Mine(k)
    BY <1>5 DEF Mine, Running
  <2>2. SyncOK(k)'
    BY <1>5, <1>9, <1>11 DEF AssetInv, SyncOK, Mine, Running
  <2> QED
    BY <2>1, <2>2
<1>14. BusyOK'
  BY <1>9, <1>13 DEF AssetInv, BusyOK
<1> QED
  BY <1>7, <1>10, <1>12, <1>13, <1>14 DEF AssetInv

\* A click: the button is free, so no other sync of this generation runs.
LEMMA ClickInv == ASSUME AssetInv, NEW k \in Clicks, Click(k) PROVE AssetInv'
<1> DEFINE q == [phase |-> "network", version |-> generation, signer |-> signer,
                 address |-> page.address]
<1>1. /\ signer \in Signers /\ page \in Page /\ generation \in Generations
      /\ page.address # None /\ ~page.syncing
  BY DEF AssetInv, TypeOK, Click
<1>2. /\ q \in Sync /\ q.phase = "network" /\ q.version = generation
      /\ q.address = page.address
  BY <1>1 DEF Sync, Page
<1>3. sync' = [sync EXCEPT ![k] = q]
  BY DEF Click
<1> HIDE DEF q
<1>4. sync'[k] = q /\ \A j \in Clicks \ {k} : sync'[j] = sync[j]
  BY <1>3 DEF AssetInv, TypeOK
<1>5. UNCHANGED <<signer, account, authenticated, generation, load>>
  BY DEF Click
<1>6. /\ page' \in Page /\ page'.syncing = TRUE /\ page'.address = page.address
      /\ page'.events = page.events /\ page'.cells = page.cells
  BY <1>1 DEF Click, Page
<1>7. TypeOK'
  BY <1>2, <1>3, <1>5, <1>6 DEF AssetInv, TypeOK
<1>8. (\A g \in Generations : LoadOK(g)') /\ PageOK'
  BY <1>5, <1>6 DEF AssetInv, LoadOK, PageOK
<1>9. \A j \in Clicks : ~Mine(j)
  BY <1>1 DEF AssetInv, BusyOK
<1>10. \A j \in Clicks \ {k} : SyncOK(j)' /\ ~Mine(j)'
  BY <1>4, <1>5, <1>6, <1>9 DEF AssetInv, SyncOK, Mine, Running
<1>11. SyncOK(k)' /\ Mine(k)'
  BY <1>1, <1>2, <1>4, <1>5, <1>6 DEF SyncOK, Mine, Running, Generations
<1>12. BusyOK'
  BY <1>6, <1>10, <1>11 DEF BusyOK
<1> QED
  BY <1>7, <1>8, <1>10, <1>11, <1>12 DEF AssetInv

\* A sync ends: if it is of this generation it frees the button, and may show cells.
LEMMA SyncEndInv ==
  ASSUME AssetInv, NEW k \in Clicks, Running(k), sync' = [sync EXCEPT ![k].phase = "done"],
         UNCHANGED <<signer, account, authenticated, generation, load>>,
         page' \in Page, page'.address = page.address, page'.events = page.events,
         page'.cells \in {page.cells, page.address},
         page'.syncing = IF Mine(k) THEN FALSE ELSE page.syncing
  PROVE  AssetInv'
<1> DEFINE q == [sync[k] EXCEPT !.phase = "done"]
<1>1. q \in Sync /\ q.phase = "done" /\ q.version = sync[k].version
  BY DEF AssetInv, TypeOK, Sync
<1>2. sync' = [sync EXCEPT ![k] = q]
  OBVIOUS
<1> HIDE DEF q
<1>3. sync'[k] = q /\ \A j \in Clicks \ {k} : sync'[j] = sync[j]
  BY <1>2 DEF AssetInv, TypeOK
<1>4. TypeOK'
  BY <1>1, <1>2 DEF AssetInv, TypeOK
<1>5. (\A g \in Generations : LoadOK(g)') /\ PageOK'
  BY DEF AssetInv, LoadOK, PageOK
<1>6. \A j \in Clicks \ {k} : SyncOK(j)' /\ Mine(j)' = Mine(j)
  BY <1>3 DEF AssetInv, SyncOK, Mine, Running
<1>7. SyncOK(k)' /\ ~Mine(k)'
  BY <1>1, <1>3 DEF AssetInv, SyncOK, Mine, Running
<1>8. \A i, j \in Clicks : Mine(i)' /\ Mine(j)' => i = j
  BY <1>6, <1>7 DEF AssetInv, BusyOK
<1>9. page'.syncing <=> \E j \in Clicks : Mine(j)'
  <2>1. CASE Mine(k)
    BY <2>1, <1>6, <1>7 DEF AssetInv, BusyOK
  <2>2. CASE ~Mine(k)
    BY <2>2, <1>6, <1>7 DEF AssetInv, BusyOK
  <2> QED
    BY <2>1, <2>2
<1>10. BusyOK'
  BY <1>8, <1>9 DEF BusyOK
<1> QED
  BY <1>4, <1>5, <1>6, <1>7, <1>10 DEF AssetInv

LEMMA SettleInv ==
  ASSUME AssetInv, NEW k \in Clicks, Running(k), Settle(k),
         UNCHANGED <<signer, account, authenticated, generation, load>>
  PROVE  AssetInv'
<1>1. page \in Page
  BY DEF AssetInv, TypeOK
<1>2. page' \in Page /\ page'.address = page.address /\ page'.events = page.events
      /\ page'.cells = page.cells
  BY <1>1 DEF Settle, Page
<1>3. page'.syncing = IF Mine(k) THEN FALSE ELSE page.syncing
  BY <1>1 DEF Settle, Page, Mine
<1> QED
  BY <1>2, <1>3, SyncEndInv DEF Settle

LEMMA ProceedInv ==
  ASSUME AssetInv, NEW k \in Clicks, Running(k), NEW phase \in {"address", "request"},
         Proceed(k, phase), UNCHANGED <<signer, account, authenticated, generation, load>>
  PROVE  AssetInv'
<1>1. CASE sync[k].version = generation
  <2> DEFINE q == [sync[k] EXCEPT !.phase = phase]
  <2>1. /\ q \in Sync /\ q.phase = phase /\ q.version = sync[k].version
        /\ q.address = sync[k].address
    BY DEF AssetInv, TypeOK, Sync
  <2>2. sync' = [sync EXCEPT ![k] = q] /\ page' = page
    BY <1>1 DEF Proceed
  <2> HIDE DEF q
  <2>3. sync'[k] = q /\ \A j \in Clicks \ {k} : sync'[j] = sync[j]
    BY <2>2 DEF AssetInv, TypeOK
  <2>4. TypeOK'
    BY <2>1, <2>2 DEF AssetInv, TypeOK
  <2>5. (\A g \in Generations : LoadOK(g)') /\ PageOK'
    BY <2>2 DEF AssetInv, LoadOK, PageOK
  <2>6. \A j \in Clicks : Mine(j)' = Mine(j)
    BY <2>1, <2>3 DEF Mine, Running
  <2>7. \A j \in Clicks : SyncOK(j)'
    BY <2>1, <2>2, <2>3 DEF AssetInv, SyncOK, Running
  <2> QED
    BY <2>2, <2>4, <2>5, <2>6, <2>7 DEF AssetInv, BusyOK
<1>2. CASE sync[k].version # generation
  BY <1>2, SettleInv DEF Proceed
<1> QED
  BY <1>1, <1>2

LEMMA SyncStepInv ==
  ASSUME AssetInv, NEW k \in Clicks, SyncStep(k) \/ SyncFails(k) PROVE AssetInv'
<1>1. Running(k) /\ UNCHANGED <<signer, account, authenticated, generation, load>>
  BY DEF SyncStep, SyncNetwork, SyncAddress, ShowResult, SyncFails, Running
<1>2. CASE SyncNetwork(k) \/ SyncAddress(k)
  <2>1. Settle(k) \/ \E phase \in {"address", "request"} : Proceed(k, phase)
    BY <1>2 DEF SyncNetwork, SyncAddress
  <2> QED
    BY <1>1, <2>1, SettleInv, ProceedInv
<1>3. CASE ShowResult(k)
  <2>1. page \in Page /\ sync[k] \in Sync
    BY DEF AssetInv, TypeOK
  <2>2. page' = IF Mine(k) THEN [page EXCEPT !.cells = sync[k].address, !.syncing = FALSE]
                ELSE page
    BY <1>1, <1>3 DEF ShowResult, Mine
  <2>3. Mine(k) => sync[k].address = page.address
    BY <1>1 DEF AssetInv, SyncOK, Mine
  <2>4. /\ page' \in Page /\ page'.address = page.address /\ page'.events = page.events
        /\ page'.cells \in {page.cells, page.address}
        /\ page'.syncing = IF Mine(k) THEN FALSE ELSE page.syncing
    BY <2>1, <2>2, <2>3 DEF Page
  <2> QED
    BY <1>1, <1>3, <2>4, SyncEndInv DEF ShowResult
<1>4. CASE SyncFails(k)
  BY <1>1, <1>4, SettleInv DEF SyncFails
<1> QED
  BY <1>2, <1>3, <1>4 DEF SyncStep

LEMMA AssetNextInv == AssetInv /\ [Next]_vars => AssetInv'
<1> SUFFICES ASSUME AssetInv, [Next]_vars PROVE AssetInv'
  OBVIOUS
<1>1. CASE Environment
  BY <1>1, SwitchSignerInv, AccountInv DEF Environment
<1>2. ASSUME NEW g \in Generations, LoadAddress(g) \/ LoadNetwork(g) \/ LoadFails(g) \/ ShowLists(g)
      PROVE  AssetInv'
  BY <1>2, LoadStepInv, ShowListsInv
<1>3. ASSUME NEW k \in Clicks, Click(k) \/ SyncStep(k) \/ SyncFails(k) PROVE AssetInv'
  BY <1>3, ClickInv, SyncStepInv
<1>4. CASE UNCHANGED vars
  BY <1>4 DEF vars, AssetInv, TypeOK, LoadOK, PageOK, SyncOK, BusyOK, Mine, Running
<1> QED
  BY <1>1, <1>2, <1>3, <1>4 DEF Next

LEMMA AssetInvShows == AssetInv => ShownIsTheCurrentWallet
<1> SUFFICES ASSUME AssetInv PROVE ShownIsTheCurrentWallet
  OBVIOUS
<1>1. page.address # None =>
        load[generation].signer = signer /\ load[generation].wallet = page.address
  BY DEF AssetInv, PageOK
<1>2. /\ page.syncing <=> {k \in Clicks : Mine(k)} # {}
      /\ \A j, k \in {i \in Clicks : Mine(i)} : j = k
  BY DEF AssetInv, BusyOK
<1> QED
  BY <1>1, <1>2 DEF AssetInv, PageOK, Mine, ShownIsTheCurrentWallet

\* The rows that the asset page shows are of one wallet, the one that is connected, in
\* every interleaving of its loads and syncs with changes of signer and account
\* (AssetPortfolioPage.tsx).
THEOREM AssetsAreOfTheWallet == Spec => []ShownIsTheCurrentWallet
<1>1. AssetInv /\ [Next]_vars => AssetInv'
  BY AssetNextInv
<1> QED
  BY <1>1, AssetInitInv, AssetInvShows, PTL DEF Spec

-----------------------------------------------------------------------------
(***************************************************************************)
(* The session with the backend.                                           *)
(***************************************************************************)

\* There is one active check at most.
SessionInv ==
  /\ B!TypeOK
  /\ IsFiniteSet(checks)
  /\ \A c, d \in checks : c.active /\ d.active => c = d
  /\ B!SessionIsSigned

\* The tokens of the backend.
IssuedToken == [wallet : Accounts, by : Accounts, valid : BOOLEAN]

LEMMA AtMostOne ==
  ASSUME NEW R, \A a, b \in R : a = b PROVE IsFiniteSet(R) /\ Cardinality(R) <= 1
<1>1. CASE R = {}
  BY <1>1, FS_EmptySet
<1>2. CASE R # {}
  <2>1. PICK a \in R : R = {a}
    BY <1>2
  <2>2. IsFiniteSet({a}) /\ Cardinality({a}) = 1
    BY FS_Singleton
  <2> QED
    BY <2>1, <2>2
<1> QED
  BY <1>1, <1>2

LEMMA SameCardinality == \A R : B!Cardinality(R) = Cardinality(R)
  BY DEF B!Cardinality, Cardinality

\* A token of the wallet w, for which it signed, is made and stored.
LEMMA StoreFacts ==
  ASSUME SessionInv, NEW w \in Accounts, B!Store(w, w)
  PROVE  /\ issued' \in Seq(IssuedToken) /\ Len(issued') <= MaxTokens
         /\ token' \in 0 .. Len(issued')
         /\ \A t \in DOMAIN issued' : issued'[t].by = issued'[t].wallet
         /\ \A t \in DOMAIN issued : t \in DOMAIN issued' /\ issued'[t].wallet = issued[t].wallet
         /\ \E t \in DOMAIN issued' : issued'[t].wallet = w
<1> DEFINE r == [wallet |-> w, by |-> w, valid |-> TRUE]
<1>1. /\ issued \in Seq(IssuedToken) /\ Len(issued) \in Nat /\ Len(issued) < MaxTokens
      /\ \A t \in DOMAIN issued : issued[t].by = issued[t].wallet
  BY WalletPagesAssumption DEF SessionInv, B!TypeOK, B!Store, B!SessionIsSigned, IssuedToken
<1>2. r \in IssuedToken /\ r.wallet = w /\ r.by = w
  BY DEF IssuedToken
<1>3. issued' = Append(issued, r) /\ token' = Len(issued')
  BY DEF B!Store
<1> HIDE DEF r
<1>4. issued' \in Seq(IssuedToken) /\ Len(issued') = Len(issued) + 1
      /\ issued'[Len(issued) + 1] = r
      /\ DOMAIN issued' = 1 .. Len(issued) + 1 /\ DOMAIN issued = 1 .. Len(issued)
      /\ \A t \in 1 .. Len(issued) : issued'[t] = issued[t]
  BY <1>1, <1>2, <1>3
<1>5. \A t \in DOMAIN issued' : t \in DOMAIN issued \/ t = Len(issued) + 1
  BY <1>1, <1>4
<1> QED
  BY <1>1, <1>2, <1>3, <1>4, <1>5, WalletPagesAssumption

LEMMA SessionInitInv == B!Init => SessionInv
<1> SUFFICES ASSUME B!Init PROVE SessionInv
  OBVIOUS
<1>1. {c \in checks : c.active} = {} /\ checks = {} /\ DOMAIN issued = {}
  BY DEF B!Init
<1>2. B!TypeOK
  BY <1>1, FS_EmptySet, WalletPagesAssumption DEF B!Init, B!TypeOK, B!Tokens
<1> QED
  BY <1>1, <1>2, FS_EmptySet DEF B!Init, SessionInv, B!SessionIsSigned

\* The checks and the wallet stay: a login, a request, a token that expires or that another
\* tab stores or drops.
LEMMA SessionRestInv ==
  ASSUME SessionInv,
         \/ B!SignOut \/ B!beginLogin \/ B!challenged \/ B!signed \/ B!loggedIn
         \/ B!loginFails \/ B!beginRequest \/ B!endRequest \/ B!Expire \/ B!OtherTab
  PROVE  SessionInv'
<1>1. UNCHANGED <<wallet, checks>>
  BY DEF B!SignOut, B!beginLogin, B!challenged, B!signed, B!loggedIn, B!loginFails,
         B!beginRequest, B!endRequest, B!Expire, B!OtherTab
<1>2. \/ token' \in {token, 0} /\ UNCHANGED issued
      \/ B!Expire
      \/ \E w \in Accounts : /\ B!Store(w, w)
                            /\ \/ UNCHANGED <<session, sessionOf>>
                               \/ session' = TRUE /\ sessionOf' = w
  <2>1. CASE B!loggedIn
    <3>1. login.wallet \in Accounts
      BY <2>1 DEF B!loggedIn, SessionInv, B!TypeOK, B!Login
    <3> QED
      BY <2>1, <3>1 DEF B!loggedIn
  <2>2. CASE ~B!loggedIn
    BY <2>2 DEF B!SignOut, B!beginLogin, B!challenged, B!signed, B!loginFails,
         B!beginRequest, B!endRequest, B!OtherTab, B!logout, B!session
  <2> QED
    BY <2>1, <2>2
<1>3. \/ UNCHANGED <<session, sessionOf>>
      \/ ~session' /\ session' \in BOOLEAN /\ sessionOf' \in {None, sessionOf}
      \/ B!loggedIn
  BY DEF B!SignOut, B!beginLogin, B!challenged, B!signed, B!loginFails, B!beginRequest,
         B!endRequest, B!Expire, B!OtherTab, B!logout, B!session
<1>4. login' \in B!Login \cup {None} /\ request' \in B!Tokens \cup {None}
  <2>1. login \in B!Login \cup {None} /\ request \in B!Tokens \cup {None}
    BY DEF SessionInv, B!TypeOK
  <2>2. login' \in {login, None} \/ B!beginLogin \/ B!challenged \/ B!signed
    BY DEF B!SignOut, B!loggedIn, B!loginFails, B!beginRequest, B!endRequest, B!Expire, B!OtherTab
  <2>3. B!beginLogin => login' \in B!Login
    BY DEF B!beginLogin, SessionInv, B!TypeOK, B!Login
  <2>4. B!challenged => login' \in B!Login
    BY <2>1 DEF B!challenged, B!Login
  <2>5. B!signed => login' \in B!Login
    BY <2>1 DEF B!signed, B!Login
  <2>6. request' \in {request, None, token}
    BY DEF B!SignOut, B!beginLogin, B!challenged, B!signed, B!loggedIn, B!loginFails,
           B!beginRequest, B!endRequest, B!Expire, B!OtherTab
  <2>7. token \in B!Tokens
    BY WalletPagesAssumption DEF SessionInv, B!TypeOK, B!Tokens
  <2> QED
    BY <2>1, <2>2, <2>3, <2>4, <2>5, <2>6, <2>7
<1>5. /\ issued' \in Seq(IssuedToken) /\ Len(issued') <= MaxTokens
      /\ token' \in 0 .. Len(issued')
      /\ \A t \in DOMAIN issued' : issued'[t].by = issued'[t].wallet
      /\ \A t \in DOMAIN issued : t \in DOMAIN issued' /\ issued'[t].wallet = issued[t].wallet
  <2>1. /\ issued \in Seq(IssuedToken) /\ Len(issued) <= MaxTokens
        /\ token \in 0 .. Len(issued)
        /\ \A t \in DOMAIN issued : issued[t].by = issued[t].wallet
    BY DEF SessionInv, B!TypeOK, B!SessionIsSigned, IssuedToken
  <2>2. CASE B!Expire
    <3>1. PICK t \in DOMAIN issued : issued' = [issued EXCEPT ![t].valid = FALSE]
      BY <2>2 DEF B!Expire
    <3> DEFINE q == [issued[t] EXCEPT !.valid = FALSE]
    <3>2. issued[t] \in IssuedToken
      BY <2>1
    <3>3. q \in IssuedToken /\ q.wallet = issued[t].wallet /\ q.by = issued[t].by
      BY <3>2 DEF IssuedToken
    <3>4. issued' = [issued EXCEPT ![t] = q]
      BY <3>1
    <3> HIDE DEF q
    <3>5. issued' \in Seq(IssuedToken) /\ Len(issued') = Len(issued)
          /\ DOMAIN issued' = DOMAIN issued
          /\ \A i \in DOMAIN issued : /\ issued'[i].wallet = issued[i].wallet
                                      /\ issued'[i].by = issued[i].by
      BY <2>1, <3>3, <3>4
    <3>6. token' = token
      BY <2>2 DEF B!Expire
    <3> QED
      BY <2>1, <3>5, <3>6
  <2>3. CASE \E w \in Accounts : B!Store(w, w)
    BY <2>3, StoreFacts
  <2>4. CASE token' \in {token, 0} /\ UNCHANGED issued
    BY <2>1, <2>4
  <2> QED
    BY <1>2, <2>2, <2>3, <2>4
<1>6. session' \in BOOLEAN /\ sessionOf' \in Accounts \cup {None}
  BY <1>3 DEF SessionInv, B!TypeOK, B!loggedIn, B!Login
<1>7. B!TypeOK'
  BY <1>1, <1>4, <1>5, <1>6 DEF SessionInv, B!TypeOK, IssuedToken
<1>8. session' => \E t \in DOMAIN issued' : issued'[t].wallet = sessionOf'
  <2>1. CASE B!loggedIn
    <3>1. /\ login.wallet \in Accounts /\ B!Store(login.wallet, login.wallet)
          /\ sessionOf' = login.wallet
      BY <2>1 DEF B!loggedIn, SessionInv, B!TypeOK, B!Login
    <3> QED
      BY <3>1, StoreFacts
  <2>2. CASE UNCHANGED <<session, sessionOf>>
    BY <1>5, <2>2 DEF SessionInv, B!SessionIsSigned
  <2> QED
    BY <1>3, <2>1, <2>2
<1> QED
  BY <1>1, <1>5, <1>7, <1>8 DEF SessionInv, B!SessionIsSigned

\* Another account of the wallet: the active check may come to see it.
LEMMA SwitchedInv == ASSUME SessionInv, B!switchAccount PROVE SessionInv'
<1>1. PICK w \in Accounts :
        /\ wallet' = w
        /\ checks' = {IF c.active THEN [c EXCEPT !.seen = @ \cup {w}] ELSE c : c \in checks}
  BY DEF B!switchAccount
<1> DEFINE f == [c \in checks |-> IF c.active THEN [c EXCEPT !.seen = @ \cup {w}] ELSE c]
<1>2. /\ checks \subseteq B!Check /\ IsFiniteSet(checks)
      /\ Cardinality(checks) <= MaxChecks + 1 /\ Cardinality(checks) \in Nat
      /\ UNCHANGED <<token, issued, session, sessionOf, login, request>>
  BY SameCardinality, FS_CardinalityType
  DEF SessionInv, B!TypeOK, B!switchAccount, B!session
<1>3. \A c \in checks : f[c] \in B!Check /\ f[c].active = c.active
  BY <1>2 DEF B!Check
<1>4. checks' = {f[c] : c \in checks} /\ DOMAIN f = checks
  BY <1>1
<1> HIDE DEF f
<1>5. checks' \subseteq B!Check
  BY <1>3, <1>4
<1>6. IsFiniteSet(checks') /\ Cardinality(checks') <= MaxChecks + 1
  <2>1. IsFiniteSet(checks') /\ Cardinality(checks') <= Cardinality(checks)
    <3>1. f \in Surjection(checks, checks')
      BY <1>4 DEF Surjection, f
    <3> QED
      BY <1>2, <3>1, FS_Surjection
  <2> QED
    BY <1>2, <2>1, FS_CardinalityType, WalletPagesAssumption
<1>7. \A c, d \in checks' : c.active /\ d.active => c = d
  BY <1>3, <1>4 DEF SessionInv
<1>8. Cardinality({c \in checks' : c.active}) <= 1
  BY <1>7, AtMostOne
<1>9. B!TypeOK'
  BY <1>1, <1>2, <1>5, <1>6, <1>8, SameCardinality DEF SessionInv, B!TypeOK
<1> QED
  BY <1>2, <1>6, <1>7, <1>9 DEF SessionInv, B!SessionIsSigned

\* The effect of a wallet: the older checks are not active any more.
LEMMA EffectInv == ASSUME SessionInv, B!Effect PROVE SessionInv'
<1> DEFINE older == {[c EXCEPT !.active = FALSE] : c \in checks}
<1> DEFINE fresh == [seen |-> {wallet'}, token |-> token, active |-> TRUE]
<1>1. /\ checks \subseteq B!Check /\ IsFiniteSet(checks)
      /\ Cardinality(checks) <= MaxChecks /\ Cardinality(checks) \in Nat
  BY SameCardinality, FS_CardinalityType DEF SessionInv, B!TypeOK, B!Effect
<1>2. older \subseteq B!Check /\ \A c \in older : ~c.active
  BY <1>1 DEF B!Check
<1>3. IsFiniteSet(older) /\ Cardinality(older) <= Cardinality(checks)
  <2> DEFINE f == [c \in checks |-> [c EXCEPT !.active = FALSE]]
  <2>1. f \in Surjection(checks, older)
    BY DEF Surjection
  <2> QED
    BY <1>1, <2>1, FS_Surjection
<1>4. UNCHANGED <<token, issued, login, request>>
  BY DEF B!Effect
<1>5. wallet' \in Accounts \cup {None}
  BY DEF B!Effect
<1>6. CASE wallet' = None \/ token = 0
  <2>1. checks' = older /\ ~session' /\ session' \in BOOLEAN /\ sessionOf' = None
    BY <1>6 DEF B!Effect
  <2>2. {c \in checks' : c.active} = {}
    BY <1>2, <2>1
  <2>3. IsFiniteSet(checks') /\ Cardinality(checks') <= MaxChecks + 1
        /\ Cardinality({c \in checks' : c.active}) <= 1
    <3>1. Cardinality(older) \in Nat /\ Cardinality({}) = 0
      BY <1>3, FS_CardinalityType, FS_EmptySet
    <3>2. Cardinality({c \in checks' : c.active}) = 0
      BY <2>2, <3>1, Zenon
    <3> HIDE DEF older
    <3>3. Cardinality(older) <= MaxChecks + 1
      BY <1>1, <1>3, <3>1, WalletPagesAssumption
    <3> QED
      BY <1>3, <2>1, <3>2, <3>3
  <2>4. B!TypeOK'
    BY <1>2, <1>4, <1>5, <2>1, <2>3, SameCardinality DEF SessionInv, B!TypeOK
  <2>5. \A c, d \in checks' : c.active /\ d.active => c = d
    BY <1>2, <2>1
  <2> QED
    BY <1>4, <2>1, <2>3, <2>4, <2>5 DEF SessionInv, B!SessionIsSigned
<1>7. CASE ~(wallet' = None \/ token = 0)
  <2>1. checks' = older \cup {fresh} /\ UNCHANGED <<session, sessionOf>>
    BY <1>7 DEF B!Effect, B!session
  <2>2. token \in 1 .. MaxTokens
    BY <1>7, WalletPagesAssumption DEF SessionInv, B!TypeOK
  <2>3. fresh \in B!Check /\ fresh.active
    BY <1>5, <1>7, <2>2 DEF B!Check
  <2> HIDE DEF fresh, older
  <2>4. IsFiniteSet(checks') /\ Cardinality(checks') <= MaxChecks + 1
    <3>1. Cardinality(older) \in Nat /\ Cardinality(older) <= MaxChecks
      BY <1>1, <1>3, FS_CardinalityType, WalletPagesAssumption
    <3>2. /\ IsFiniteSet(older \cup {fresh})
          /\ Cardinality(older \cup {fresh}) \in {Cardinality(older), Cardinality(older) + 1}
      BY <1>3, FS_AddElement
    <3> QED
      BY <2>1, <3>1, <3>2, WalletPagesAssumption
  <2>5. \A c, d \in checks' : c.active /\ d.active => c = d
    BY <1>2, <2>1
  <2>6. Cardinality({c \in checks' : c.active}) <= 1
    BY <2>5, AtMostOne
  <2>7. B!TypeOK'
    BY <1>2, <1>4, <1>5, <2>1, <2>3, <2>4, <2>6, SameCardinality DEF SessionInv, B!TypeOK
  <2> QED
    BY <1>4, <2>1, <2>4, <2>5, <2>7 DEF SessionInv, B!SessionIsSigned
<1> QED
  BY <1>6, <1>7

\* A check ends.
LEMMA CheckEndsInv ==
  ASSUME SessionInv, NEW c \in checks, B!checked(c) \/ B!checkFails(c) PROVE SessionInv'
<1>1. checks' = checks \ {c} /\ UNCHANGED <<wallet, issued, login, request>>
  BY DEF B!checked, B!checkFails
<1>2. c \in B!Check /\ token \in 0 .. Len(issued)
      /\ session \in BOOLEAN /\ sessionOf \in Accounts \cup {None}
  BY DEF SessionInv, B!TypeOK
<1>3. \/ ~session' /\ session' \in BOOLEAN /\ sessionOf' = None /\ token' = 0
      \/ UNCHANGED <<session, sessionOf>> /\ token' \in {token, 0}
      \/ /\ session' = TRUE /\ sessionOf' \in Accounts /\ token' = token
         /\ c.token \in DOMAIN issued /\ issued[c.token].wallet = sessionOf'
  <2>1. CASE B!checked(c)
    <3>1. c.seen \subseteq Accounts /\ c.token \in DOMAIN issued
      BY <1>2, <2>1 DEF B!checked, B!Check, B!Valid
    <3> QED
      BY <2>1, <3>1 DEF B!checked, B!logout, B!session
  <2>2. CASE B!checkFails(c)
    BY <2>2 DEF B!checkFails, B!logout, B!session
  <2> QED
    BY <2>1, <2>2
<1>4. /\ token' \in {token, 0} /\ session' \in BOOLEAN /\ sessionOf' \in Accounts \cup {None}
  BY <1>2, <1>3
<1>5. IsFiniteSet(checks') /\ Cardinality(checks') <= MaxChecks + 1
  <2>1. IsFiniteSet(checks) /\ Cardinality(checks) <= MaxChecks + 1 /\ Cardinality(checks) \in Nat
    BY SameCardinality, FS_CardinalityType DEF SessionInv, B!TypeOK
  <2>2. IsFiniteSet(checks \ {c}) /\ Cardinality(checks \ {c}) = Cardinality(checks) - 1
    BY <2>1, FS_RemoveElement
  <2> QED
    BY <1>1, <2>1, <2>2, WalletPagesAssumption
<1>6. \A d, e \in checks' : d.active /\ e.active => d = e
  BY <1>1 DEF SessionInv
<1>7. Cardinality({d \in checks' : d.active}) <= 1
  BY <1>6, AtMostOne
<1>8. token' \in 0 .. Len(issued)
  BY <1>2, <1>4
<1>9. B!TypeOK'
  BY <1>1, <1>4, <1>5, <1>7, <1>8, SameCardinality DEF SessionInv, B!TypeOK
<1>10. B!SessionIsSigned'
  BY <1>1, <1>3 DEF SessionInv, B!SessionIsSigned
<1> QED
  BY <1>5, <1>6, <1>9, <1>10 DEF SessionInv

LEMMA SessionNextInv == SessionInv /\ [B!Next]_sessions => SessionInv'
<1> SUFFICES ASSUME SessionInv, [B!Next]_sessions PROVE SessionInv'
  OBVIOUS
<1>1. CASE UNCHANGED sessions
  BY <1>1 DEF sessions, SessionInv, B!TypeOK, B!SessionIsSigned
<1>2. ASSUME NEW c \in checks, B!checked(c) \/ B!checkFails(c) PROVE SessionInv'
  BY <1>2, CheckEndsInv
<1> QED
  BY <1>1, <1>2, SwitchedInv, EffectInv, SessionRestInv DEF B!Next

-----------------------------------------------------------------------------
(***************************************************************************)
(* The wallet that a page shows.                                           *)
(***************************************************************************)

SnapshotInv == W!TypeOK /\ W!LoadingIsTrue

LEMMA SnapshotInitInv == W!Init => SnapshotInv
<1> SUFFICES ASSUME W!Init PROVE SnapshotInv
  OBVIOUS
<1>1. 0 \in 0 .. MaxReads
  BY WalletPagesAssumption
<1>2. reads \in [Accounts -> 0 .. MaxReads]
  BY <1>1 DEF W!Init
<1> QED
  BY <1>2 DEF W!Init, SnapshotInv, W!TypeOK, W!LoadingIsTrue

\* A read that begins clears the error, and the snapshot loads if there is a wallet.
LEMMA ReadInv ==
  ASSUME NEW w \in Accounts \cup {None}, NEW before \in [Accounts -> 0 .. MaxReads],
         NEW a \in Accounts \cup {None}, W!Read(w, before, a),
         shownWallet' = w
  PROVE  SnapshotInv'
<1>1. CASE w = None
  BY <1>1 DEF W!Read, SnapshotInv, W!TypeOK, W!LoadingIsTrue
<1>2. CASE w # None
  <2>1. /\ ~error' /\ error' \in BOOLEAN /\ loading' = TRUE /\ shownAddress' = a
        /\ before[w] < MaxReads /\ w \in Accounts
        /\ reads' = [before EXCEPT ![w] = before[w] + 1]
    BY <1>2 DEF W!Read
  <2>2. reads' \in [Accounts -> 0 .. MaxReads] /\ reads'[w] > 0
    BY <2>1, WalletPagesAssumption
  <2> QED
    BY <2>1, <2>2 DEF SnapshotInv, W!TypeOK, W!LoadingIsTrue
<1> QED
  BY <1>1, <1>2

LEMMA SnapshotNextInv == SnapshotInv /\ [W!Next]_snapshots => SnapshotInv'
<1> SUFFICES ASSUME SnapshotInv, [W!Next]_snapshots PROVE SnapshotInv'
  OBVIOUS
<1>1. /\ shownWallet \in Accounts \cup {None} /\ shownAddress \in Accounts \cup {None}
      /\ reads \in [Accounts -> 0 .. MaxReads]
  BY DEF SnapshotInv, W!TypeOK
<1>2. CASE W!refresh
  BY <1>1, <1>2, ReadInv DEF W!refresh
<1>3. CASE W!changeWallet
  BY <1>1, <1>3, ReadInv DEF W!changeWallet
<1>4. CASE W!switchAccount
  BY <1>1, <1>4 DEF W!switchAccount, W!snapshot, SnapshotInv, W!TypeOK, W!LoadingIsTrue
<1>5. CASE W!navigate
  <2>1. [w \in Accounts |-> 0] \in [Accounts -> 0 .. MaxReads]
    BY WalletPagesAssumption
  <2> QED
    BY <1>1, <1>5, <2>1, ReadInv DEF W!navigate
<1>6. ASSUME NEW w \in Accounts, W!shown(w) \/ W!Fails(w) PROVE SnapshotInv'
  <2>1. reads[w] > 0 /\ reads' = [reads EXCEPT ![w] = reads[w] - 1]
    BY <1>6 DEF W!shown, W!Fails
  <2>2. reads' \in [Accounts -> 0 .. MaxReads]
    BY <1>1, <2>1, WalletPagesAssumption
  <2>3. CASE W!shown(w)
    BY <1>1, <2>2, <2>3 DEF W!shown, SnapshotInv, W!TypeOK, W!LoadingIsTrue
  <2>4. CASE W!Fails(w)
    BY <1>1, <2>2, <2>4 DEF W!Fails, SnapshotInv, W!TypeOK, W!LoadingIsTrue
  <2> QED
    BY <1>6, <2>3, <2>4
<1>7. CASE UNCHANGED snapshots
  BY <1>7 DEF snapshots, SnapshotInv, W!TypeOK, W!LoadingIsTrue
<1> QED
  BY <1>2, <1>3, <1>4, <1>5, <1>6, <1>7 DEF W!Next

-----------------------------------------------------------------------------
(***************************************************************************)
(* The page that stores data.                                              *)
(***************************************************************************)

\* An operation that follows a transaction is of one that was sent.
SentOK(o) ==
  ops[o] # None /\ ops[o].phase \in {"network", "track", "cell"} =>
    ops[o].tx \in 1 .. Len(sent)

StoreInv ==
  /\ D!TypeOK
  /\ \A o \in Ops : SentOK(o)
  /\ D!ShownAnswersTheForm

LEMMA StoreInitInv == D!Init => StoreInv
<1> SUFFICES ASSUME D!Init PROVE StoreInv
  OBVIOUS
<1>1. sent \in Seq(D!Data) /\ Len(sent) = 0 /\ DOMAIN sent = {}
  BY DEF D!Init
<1>2. D!TypeOK
  BY <1>1, WalletPagesAssumption DEF D!Init, D!TypeOK
<1> QED
  BY <1>2 DEF D!Init, StoreInv, SentOK, D!ShownAnswersTheForm

\* Nothing is sent or read: the fields, the wallet and the chain move, an operation begins,
\* goes on, or ends.
LEMMA StoreQuietInv ==
  ASSUME StoreInv, UNCHANGED <<txHash, encoded, decoded, readOf, sent>>,
         connected' \in BOOLEAN, message' \in Texts,
         confirmed' \subseteq DOMAIN sent, recorded' \subseteq DOMAIN sent,
         \/ UNCHANGED ops
         \/ \E o \in Ops, q \in D!Op \cup {None} :
              /\ ops' = [ops EXCEPT ![o] = q]
              /\ q # None /\ q.phase \in {"network", "track", "cell"} =>
                   q.tx \in 1 .. Len(sent)
  PROVE  StoreInv'
<1>1. ops \in [Ops -> D!Op \cup {None}]
  BY DEF StoreInv, D!TypeOK
<1>2. ops' \in [Ops -> D!Op \cup {None}] /\ \A o \in Ops : SentOK(o)'
  <2>1. CASE UNCHANGED ops
    BY <1>1, <2>1 DEF StoreInv, SentOK
  <2>2. ASSUME NEW o \in Ops, NEW q \in D!Op \cup {None}, ops' = [ops EXCEPT ![o] = q],
               q # None /\ q.phase \in {"network", "track", "cell"} => q.tx \in 1 .. Len(sent)
        PROVE  ops' \in [Ops -> D!Op \cup {None}] /\ \A p \in Ops : SentOK(p)'
    <3>1. ops' \in [Ops -> D!Op \cup {None}] /\ ops'[o] = q
          /\ \A p \in Ops \ {o} : ops'[p] = ops[p]
      BY <1>1, <2>2
    <3> QED
      BY <2>2, <3>1 DEF StoreInv, SentOK
  <2> QED
    BY <2>1, <2>2
<1>3. D!TypeOK'
  BY <1>2 DEF StoreInv, D!TypeOK
<1> QED
  BY <1>2, <1>3 DEF StoreInv, D!ShownAnswersTheForm

LEMMA StoredInv == ASSUME StoreInv, NEW o \in Ops, D!stored(o) PROVE StoreInv'
<1> DEFINE data == D!utf8ToHex(ops[o].text)
<1> DEFINE n == Len(sent) + 1
<1> DEFINE q == [kind |-> "store", phase |-> "network", text |-> None, tx |-> txHash']
<1>1. /\ ops \in [Ops -> D!Op \cup {None}] /\ sent \in Seq(D!Data) /\ Len(sent) \in Nat
      /\ txHash \in 0 .. Len(sent) /\ readOf \in 0 .. Len(sent)
      /\ confirmed \subseteq DOMAIN sent /\ recorded \subseteq DOMAIN sent
  BY DEF StoreInv, D!TypeOK
<1>2. ops[o].text \in Texts
  BY <1>1 DEF D!stored, D!At, D!Op
<1>3. data \in D!Data
  BY <1>2 DEF D!Data
<1>4. /\ sent' = Append(sent, data) /\ encoded' = data /\ txHash' = Len(sent')
      /\ Len(sent) < MaxStored /\ ops' = [ops EXCEPT ![o] = q]
  BY DEF D!stored, D!Becomes
<1>5. UNCHANGED <<connected, message, decoded, readOf, confirmed, recorded>>
  BY DEF D!stored
<1> HIDE DEF data
<1>6. /\ sent' \in Seq(D!Data) /\ Len(sent') = n /\ sent'[n] = data /\ txHash' = n
      /\ \A i \in 1 .. Len(sent) : sent'[i] = sent[i]
  BY <1>1, <1>3, <1>4
<1>7. n \in 1 .. MaxStored /\ DOMAIN sent \subseteq DOMAIN sent'
  BY <1>1, <1>4, <1>6, WalletPagesAssumption, SMTT(30)
<1>8. q \in D!Op /\ q.tx = n
  BY <1>6, <1>7 DEF D!Op
<1> HIDE DEF q
<1>9. ops' \in [Ops -> D!Op \cup {None}]
  BY <1>1, <1>4, <1>8
<1>10. D!TypeOK'
  BY <1>1, <1>3, <1>4, <1>5, <1>6, <1>7, <1>9, WalletPagesAssumption DEF StoreInv, D!TypeOK
<1>11. ASSUME NEW p \in Ops PROVE SentOK(p)'
  <2>1. CASE p = o
    BY <2>1, <1>1, <1>4, <1>6, <1>8 DEF SentOK
  <2>2. CASE p # o
    BY <2>2, <1>1, <1>4, <1>6 DEF StoreInv, SentOK
  <2> QED
    BY <2>1, <2>2
<1>12. D!ShownAnswersTheForm'
  <2>1. encoded' = sent'[txHash']
    BY <1>4, <1>6
  <2>2. readOf' # txHash'
    BY <1>1, <1>5, <1>6
  <2> QED
    BY <2>1, <2>2 DEF D!ShownAnswersTheForm
<1> QED
  BY <1>10, <1>11, <1>12 DEF StoreInv

LEMMA CellReadInv == ASSUME StoreInv, NEW o \in Ops, D!cellRead(o) PROVE StoreInv'
<1>1. /\ ops[o].tx \in DOMAIN sent /\ ops[o].tx \in confirmed
      /\ decoded' = D!hexToUtf8(sent[ops[o].tx]) /\ readOf' = ops[o].tx
  BY DEF StoreInv, D!TypeOK, D!cellRead
<1>2. UNCHANGED <<connected, message, txHash, encoded, sent, confirmed, recorded>>
      /\ ops' = [ops EXCEPT ![o] = None]
  BY DEF D!cellRead, D!Ends, D!Becomes
<1>3. /\ ops \in [Ops -> D!Op \cup {None}] /\ sent \in Seq(D!Data)
  BY DEF StoreInv, D!TypeOK
<1>4. sent[ops[o].tx] \in D!Data /\ ops[o].tx \in 0 .. Len(sent)
  BY <1>1, <1>3
<1>5. ops' \in [Ops -> D!Op \cup {None}] /\ \A p \in Ops : SentOK(p)'
  BY <1>2, <1>3 DEF StoreInv, SentOK
<1>6. D!TypeOK'
  BY <1>1, <1>2, <1>4, <1>5 DEF StoreInv, D!TypeOK
<1>7. D!ShownAnswersTheForm'
  BY <1>1, <1>2 DEF StoreInv, D!ShownAnswersTheForm
<1> QED
  BY <1>5, <1>6, <1>7 DEF StoreInv

LEMMA StoreNextInv == StoreInv /\ [D!Next]_storing => StoreInv'
<1> SUFFICES ASSUME StoreInv, [D!Next]_storing PROVE StoreInv'
  OBVIOUS
<1>1. /\ ops \in [Ops -> D!Op \cup {None}] /\ connected \in BOOLEAN /\ message \in Texts
      /\ confirmed \subseteq DOMAIN sent /\ recorded \subseteq DOMAIN sent
      /\ sent \in Seq(D!Data) /\ Len(sent) <= MaxStored /\ txHash \in 0 .. Len(sent)
  BY DEF StoreInv, D!TypeOK
<1>2. CASE D!edit \/ D!changeWallet \/ D!Chain
  <2>1. UNCHANGED <<txHash, encoded, decoded, readOf, sent, recorded, ops>>
    BY <1>2 DEF D!edit, D!changeWallet, D!Chain, D!shown
  <2>2. connected' \in BOOLEAN /\ message' \in Texts /\ confirmed' \subseteq DOMAIN sent
    BY <1>1, <1>2 DEF D!edit, D!changeWallet, D!Chain
  <2> QED
    BY <1>1, <2>1, <2>2, StoreQuietInv
<1>3. ASSUME NEW o \in Ops,
             D!store(o) \/ D!owned(o) \/ D!networkRead(o) \/ D!trackTransaction(o)
               \/ D!readOutput(o) \/ D!Fails(o)
      PROVE  StoreInv'
  <2>1. UNCHANGED <<connected, message, txHash, encoded, decoded, readOf, sent, confirmed>>
    BY <1>3 DEF D!store, D!owned, D!networkRead, D!trackTransaction, D!readOutput, D!Fails, D!shown
  <2>2. recorded' \subseteq DOMAIN sent
    BY <1>1, <1>3 DEF D!store, D!owned, D!networkRead, D!trackTransaction, D!readOutput,
                      D!Fails, D!At, StoreInv, SentOK
  <2>3. PICK q \in D!Op \cup {None} :
           /\ ops' = [ops EXCEPT ![o] = q]
           /\ q # None /\ q.phase \in {"network", "track", "cell"} => q.tx \in 1 .. Len(sent)
    <3>1. CASE D!store(o)
      <4> DEFINE q == [kind |-> "store", phase |-> "owner", text |-> message, tx |-> None]
      <4>1. q \in D!Op /\ q.phase = "owner"
        BY <1>1 DEF D!Op
      <4> QED
        BY <3>1, <4>1 DEF D!store, D!Becomes
    <3>2. CASE D!owned(o)
      <4> DEFINE q == [ops[o] EXCEPT !.phase = "send"]
      <4>1. ops[o] \in D!Op /\ ops[o].phase = "owner"
        BY <1>1, <3>2 DEF D!owned, D!At
      <4>2. q \in D!Op /\ q.phase = "send"
        BY <4>1 DEF D!Op
      <4> QED
        BY <3>2, <4>2 DEF D!owned, D!Becomes
    <3>3. CASE D!networkRead(o)
      <4> DEFINE q == [ops[o] EXCEPT !.phase = "track"]
      <4>1. ops[o] \in D!Op /\ ops[o].phase = "network" /\ ops[o].tx \in 1 .. Len(sent)
        BY <1>1, <3>3 DEF D!networkRead, D!At, StoreInv, SentOK
      <4>2. q \in D!Op /\ q.tx = ops[o].tx
        BY <4>1 DEF D!Op
      <4> QED
        BY <3>3, <4>1, <4>2 DEF D!networkRead, D!Becomes
    <3>4. CASE D!readOutput(o)
      <4> DEFINE q == [kind |-> "read", phase |-> "cell", text |-> None, tx |-> txHash]
      <4>1. txHash \in 1 .. Len(sent) /\ txHash \in 1 .. MaxStored
        BY <1>1, <3>4, WalletPagesAssumption DEF D!readOutput
      <4>2. q \in D!Op /\ q.tx = txHash
        BY <4>1 DEF D!Op
      <4> QED
        BY <3>4, <4>1, <4>2 DEF D!readOutput, D!Becomes
    <3>5. CASE D!trackTransaction(o) \/ D!Fails(o)
      BY <3>5 DEF D!trackTransaction, D!Fails, D!Ends, D!Becomes
    <3> QED
      BY <1>3, <3>1, <3>2, <3>3, <3>4, <3>5
  <2> QED
    BY <1>1, <2>1, <2>2, <2>3, StoreQuietInv
<1>4. CASE UNCHANGED storing
  BY <1>4 DEF storing, StoreInv, D!TypeOK, SentOK, D!ShownAnswersTheForm
<1> QED
  BY <1>2, <1>3, <1>4, StoredInv, CellReadInv DEF D!Next

-----------------------------------------------------------------------------
(***************************************************************************)
(* The hash-lock lab.                                                      *)
(***************************************************************************)

\* An address or a listing that is on its way is asked for by Derive or by Check, for a
\* digest that is one; an unlock is constructed of a cell that is listed.
LockOpOK ==
  /\ op.phase = "address" => op.kind \in {"derive", "refresh"} /\ digest \in L!Preimages
  /\ op.phase = "cells" => op.kind = "refresh" /\ digest \in L!Preimages
  /\ op.phase # "idle" /\ op.kind = "construct" => selected \in DOMAIN cells

\* The address is of the digest, except while the address of a new one is on its way.
AddressOK == op.phase # "address" => address \in {0, digest}

\* The cells that are listed are locked.
ListedOK == \A i \in DOMAIN cells : lock[cells[i]] = digest /\ digest \in L!Preimages

\* The unlock that is shown.
PreparedOK ==
  prepared # None =>
    /\ selected \in DOMAIN cells /\ prepared.cell = cells[selected]
    /\ <<prepared.preimage, prepared.recipient, prepared.feeRate>>
         = <<preimage, recipient, feeRate>>
    /\ lock[prepared.cell] = prepared.preimage /\ prepared.preimage \in L!Preimages
    /\ Capacity[prepared.cell] - Fee[prepared.feeRate] >= Occupied[prepared.recipient]

LockInv == L!TypeOK /\ LockOpOK /\ AddressOK /\ ListedOK /\ PreparedOK

LEMMA LockInvShows == LockInv => L!ShownAnswersTheForm
<1> SUFFICES ASSUME LockInv PROVE L!ShownAnswersTheForm
  OBVIOUS
<1>1. L!busy \/ address \in {0, digest}
  BY DEF LockInv, AddressOK, L!busy
<1>2. ASSUME prepared # None PROVE L!main(lock[prepared.cell], prepared.preimage) = 0
  <2>1. lock[prepared.cell] = prepared.preimage /\ prepared.preimage \in {1, 2}
    BY <1>2 DEF LockInv, PreparedOK, L!Preimages
  <2> QED
    BY <2>1 DEF L!main, L!TooLong, L!Preimages
<1> QED
  BY <1>1, <1>2 DEF LockInv, ListedOK, PreparedOK, L!ShownAnswersTheForm

LEMMA LockTypes ==
  /\ L!Preimages = {1, 2} /\ 0 \in L!Recipients /\ 0 \in L!Rates /\ 1 \in L!Rates
  /\ 1 \in 1 .. CellLimit /\ L!IdleOp \in L!Op /\ L!IdleOp.phase = "idle"
  BY WalletPagesAssumption
  DEF L!Preimages, L!Recipients, L!Rates, L!IdleOp, L!Op, L!Kinds, L!Phases

LEMMA LockInitInv == L!Init => LockInv
<1> SUFFICES ASSUME L!Init PROVE LockInv
  OBVIOUS
<1>1. cells \in Seq(L!Cells) /\ Len(cells) = 0 /\ DOMAIN cells = {}
  BY DEF L!Init
<1>2. Len(cells) <= CellLimit
  BY <1>1, WalletPagesAssumption
<1>3. L!TypeOK
  BY <1>1, <1>2, LockTypes DEF L!Init, L!TypeOK
<1> QED
  BY <1>1, <1>3, LockTypes DEF L!Init, LockInv, LockOpOK, AddressOK, ListedOK, PreparedOK

\* The page begins anew.
LEMMA BlankInv ==
  ASSUME LockInv, L!Blank, loaded' \in BOOLEAN, UNCHANGED <<funder, lock, live>>
  PROVE  LockInv'
<1>1. cells' \in Seq(L!Cells) /\ Len(cells') = 0 /\ DOMAIN cells' = {}
  BY DEF L!Blank
<1>2. L!TypeOK'
  BY <1>1, LockTypes, WalletPagesAssumption DEF L!Blank, LockInv, L!TypeOK
<1> QED
  BY <1>1, <1>2, LockTypes DEF L!Blank, LockInv, LockOpOK, AddressOK, ListedOK, PreparedOK

\* A field is edited: what it does not fit is dropped.
LEMMA EditInv ==
  ASSUME LockInv,
         \/ L!changeWallet \/ L!editPreimage \/ L!editDigest \/ L!select \/ L!editFee
         \/ L!editRecipient
  PROVE  LockInv'
<1>1. prepared' = None /\ UNCHANGED <<loaded, lock, live, op>>
  BY DEF L!changeWallet, L!editPreimage, L!editDigest, L!select, L!editFee, L!editRecipient,
         L!chain
<1>2. \/ L!changeWallet
      \/ op.phase = "idle"
  BY DEF L!changeWallet, L!editPreimage, L!editDigest, L!select, L!editFee, L!editRecipient,
         L!Editable, L!busy
<1>3. /\ cells \in Seq(L!Cells) /\ Len(cells) <= CellLimit /\ selected \in 1 .. CellLimit
      /\ op \in L!Op
  BY DEF LockInv, L!TypeOK
<1>4. \/ cells' = cells /\ digest' = digest /\ address' = address
      \/ cells' = <<>> /\ address' = 0 /\ L!editDigest
  BY DEF L!changeWallet, L!editPreimage, L!editDigest, L!select, L!editFee, L!editRecipient,
         L!form
<1>5. cells' \in Seq(L!Cells) /\ Len(cells') <= CellLimit
  BY <1>3, <1>4, WalletPagesAssumption
<1>6. selected' \in 1 .. CellLimit
  <2>1. CASE L!select
    BY <2>1, <1>3, WalletPagesAssumption DEF L!select
  <2>2. CASE ~L!select
    BY <2>2, <1>3 DEF L!changeWallet, L!editPreimage, L!editDigest, L!editFee, L!editRecipient
  <2> QED
    BY <2>1, <2>2
<1>7. /\ funder' \in Funders \cup {None}
      /\ preimage' \in {0, L!TooLong} \cup L!Preimages /\ digest' \in {0} \cup L!Preimages
      /\ recipient' \in L!Recipients /\ feeRate' \in L!Rates
  BY DEF L!changeWallet, L!editPreimage, L!editDigest, L!select, L!editFee, L!editRecipient,
         L!form, LockInv, L!TypeOK
<1>8. address' \in {0} \cup L!Preimages
  BY <1>4 DEF LockInv, L!TypeOK
<1>9. L!TypeOK'
  BY <1>1, <1>5, <1>6, <1>7, <1>8 DEF LockInv, L!TypeOK
<1>10. LockOpOK' /\ AddressOK'
  <2>1. CASE L!changeWallet
    BY <2>1 DEF L!changeWallet, L!form, LockInv, LockOpOK, AddressOK
  <2>2. CASE op.phase = "idle"
    BY <2>2, <1>1, <1>4 DEF LockInv, LockOpOK, AddressOK
  <2> QED
    BY <1>2, <2>1, <2>2
<1>11. ListedOK'
  BY <1>1, <1>4 DEF LockInv, ListedOK
<1> QED
  BY <1>1, <1>9, <1>10, <1>11 DEF LockInv, PreparedOK

\* Cells are created under a lock that was not used; a lock never changes.
ChainGoesOn ==
  /\ lock' \in [L!Cells -> {0} \cup L!Preimages] /\ live' \subseteq L!Cells
  /\ \A c \in L!Cells : lock[c] # 0 => lock'[c] = lock[c]

LEMMA CreateGoesOn ==
  ASSUME LockInv, NEW d \in L!Preimages, L!Create(d) PROVE ChainGoesOn
<1>1. PICK c \in L!Unused : lock' = [lock EXCEPT ![c] = d] /\ live' = live \cup {c}
  BY DEF L!Create
<1>2. c \in L!Cells /\ lock[c] = 0
  BY DEF L!Unused
<1>3. lock \in [L!Cells -> {0} \cup L!Preimages] /\ live \subseteq L!Cells
  BY DEF LockInv, L!TypeOK
<1> QED
  BY <1>1, <1>2, <1>3 DEF ChainGoesOn

\* Only the operation and the chain move.
LEMMA RunInv ==
  ASSUME LockInv, op' \in L!Op, loaded' \in BOOLEAN, funder' = funder,
         UNCHANGED <<preimage, digest, recipient, feeRate, address, cells, selected, prepared>>,
         ChainGoesOn, LockOpOK', AddressOK'
  PROVE  LockInv'
<1>1. L!TypeOK'
  BY DEF LockInv, L!TypeOK, ChainGoesOn
<1>3. \A i \in DOMAIN cells : cells[i] \in L!Cells
  BY DEF LockInv, L!TypeOK
<1>4. ListedOK'
  BY <1>3, LockTypes DEF LockInv, ListedOK, ChainGoesOn
<1>5. PreparedOK'
  <2> SUFFICES ASSUME prepared # None PROVE lock'[prepared.cell] = lock[prepared.cell]
    BY DEF LockInv, PreparedOK
  <2>1. prepared.cell \in L!Cells /\ lock[prepared.cell] # 0
    BY <1>3, LockTypes DEF LockInv, PreparedOK
  <2> QED
    BY <2>1 DEF ChainGoesOn
<1> QED
  BY <1>1, <1>4, <1>5 DEF LockInv

LEMMA SameChain == ASSUME LockInv, UNCHANGED <<lock, live>> PROVE ChainGoesOn
  BY DEF LockInv, L!TypeOK, ChainGoesOn

LEMMA BeginRunInv ==
  ASSUME LockInv, L!derive \/ L!refresh \/ L!fund \/ L!construct \/ L!submit PROVE LockInv'
<1>1. PICK kind \in L!Kinds :
         L!run(kind) /\ (kind = "construct" => selected \in DOMAIN cells)
  BY DEF L!derive, L!refresh, L!fund, L!construct, L!submit, L!Kinds
<1>2. prepared \in L!Unlock \cup {None}
  BY DEF LockInv, L!TypeOK
<1>3. op' \in L!Op /\ op'.phase = "verify" /\ op'.kind = kind
  BY <1>1, <1>2 DEF L!run, L!Op, L!Phases
<1>4. /\ UNCHANGED <<preimage, digest, recipient, feeRate, address, cells, selected, prepared>>
      /\ UNCHANGED <<loaded, funder, lock, live>> /\ op.phase = "idle"
  BY <1>1 DEF L!run, L!form, L!shown, L!chain, L!Editable, L!busy
<1>5. LockOpOK' /\ AddressOK'
  BY <1>1, <1>3, <1>4 DEF LockInv, LockOpOK, AddressOK
<1> QED
  BY <1>3, <1>4, <1>5, SameChain, RunInv DEF LockInv, L!TypeOK

\* A request is answered, or not.
LEMMA GoesInv ==
  ASSUME LockInv,
         \/ L!Fails \/ L!verified \/ L!verifyWallet \/ L!completeFeeBy \/ L!constructVerified
         \/ L!submitVerified \/ L!submitLive \/ L!funded
  PROVE  LockInv'
<1>1. /\ UNCHANGED <<preimage, digest, recipient, feeRate, address, cells, selected, prepared>>
      /\ UNCHANGED <<loaded, funder>>
  BY DEF L!Fails, L!verified, L!verifyWallet, L!completeFeeBy, L!constructVerified,
         L!submitVerified, L!submitLive, L!funded, L!form, L!shown
<1>2. op.phase \notin {"address", "idle"} /\ op \in L!Op
  BY DEF L!Fails, L!verified, L!verifyWallet, L!completeFeeBy, L!constructVerified,
         L!submitVerified, L!submitLive, L!funded, L!At, LockInv, L!TypeOK
<1>3. ChainGoesOn
  <2>1. CASE L!funded
    <3>1. PICK d \in L!deriveLock(digest) : L!Create(d)
      BY <2>1 DEF L!funded
    <3>2. d \in L!Preimages
      BY DEF L!deriveLock
    <3> QED
      BY <3>1, <3>2, CreateGoesOn
  <2>2. CASE ~L!funded
    <3>1. UNCHANGED <<lock, live>>
      BY <2>2 DEF L!Fails, L!verified, L!verifyWallet, L!completeFeeBy, L!constructVerified,
                  L!submitVerified, L!submitLive, L!chain
    <3> QED
      BY <3>1, SameChain
  <2> QED
    BY <2>1, <2>2
<1>4. \/ op' = L!IdleOp
      \/ \E phase \in {"again", "complete", "live", "send"} : L!Goes(phase)
      \/ op.kind = "refresh" /\ digest \in L!Preimages /\ L!Goes("address")
  BY DEF L!Fails, L!verified, L!verifyWallet, L!completeFeeBy, L!constructVerified,
         L!submitVerified, L!submitLive, L!funded, L!Ends, L!At, L!deriveLock
<1>5. op' \in L!Op /\ LockOpOK'
  <2>1. CASE op' = L!IdleOp
    BY <2>1, <1>1, LockTypes DEF LockOpOK
  <2>2. ASSUME NEW phase \in {"again", "complete", "live", "send", "address"}, L!Goes(phase),
               phase = "address" => op.kind = "refresh" /\ digest \in L!Preimages
        PROVE  op' \in L!Op /\ LockOpOK'
    <3>1. op' \in L!Op /\ op'.phase = phase /\ op'.kind = op.kind
      BY <2>2, <1>2 DEF L!Goes, L!Op, L!Phases
    <3> QED
      BY <2>2, <3>1, <1>1, <1>2 DEF LockInv, LockOpOK
  <2> QED
    BY <1>4, <2>1, <2>2
<1>6. AddressOK'
  BY <1>1, <1>2 DEF LockInv, AddressOK
<1> QED
  BY <1>1, <1>3, <1>5, <1>6, RunInv DEF LockInv, L!TypeOK

\* Others move cells, or a deployment is loaded.
LEMMA OthersInv == ASSUME LockInv, L!Others \/ L!parseDeployment PROVE LockInv'
<1>1. /\ UNCHANGED <<preimage, digest, recipient, feeRate, address, cells, selected, prepared>>
      /\ UNCHANGED <<funder, op>> /\ loaded' \in BOOLEAN
  BY DEF L!Others, L!parseDeployment, L!form, L!shown, LockInv, L!TypeOK
<1>2. ChainGoesOn
  <2>1. CASE L!Others
    <3>1. CASE \E d \in L!Preimages : L!Create(d)
      BY <3>1, CreateGoesOn
    <3>2. CASE \E c \in live : live' = live \ {c} /\ UNCHANGED lock
      BY <3>2 DEF LockInv, L!TypeOK, ChainGoesOn
    <3> QED
      BY <2>1, <3>1, <3>2 DEF L!Others
  <2>2. CASE L!parseDeployment
    BY <2>2, SameChain DEF L!parseDeployment, L!chain
  <2> QED
    BY <2>1, <2>2
<1>3. LockOpOK' /\ AddressOK'
  BY <1>1 DEF LockInv, LockOpOK, AddressOK
<1> QED
  BY <1>1, <1>2, <1>3, RunInv DEF LockInv, L!TypeOK

\* Derive: the digest is that of the preimage, and nothing of the one before is shown.
LEMMA DerivedInv == ASSUME LockInv, L!derived PROVE LockInv'
<1>1. /\ digest' = preimage /\ preimage \in L!Preimages /\ cells' = <<>> /\ prepared' = None
      /\ UNCHANGED <<loaded, funder, preimage, recipient, feeRate, address, selected, lock, live>>
  BY DEF L!derived, L!chain
<1>2. op' \in L!Op /\ op'.phase = "address" /\ op'.kind = "derive"
  BY DEF L!derived, L!At, L!Goes, LockInv, L!TypeOK, L!Op, L!Phases
<1>3. cells' \in Seq(L!Cells) /\ Len(cells') <= CellLimit /\ DOMAIN cells' = {}
  BY <1>1, WalletPagesAssumption
<1>4. L!TypeOK'
  BY <1>1, <1>2, <1>3 DEF LockInv, L!TypeOK
<1> QED
  BY <1>1, <1>2, <1>3, <1>4 DEF LockInv, LockOpOK, AddressOK, ListedOK, PreparedOK

LEMMA AddressedInv == ASSUME LockInv, L!addressed PROVE LockInv'
<1>1. /\ op.phase = "address" /\ address' = digest
      /\ UNCHANGED <<loaded, funder, preimage, digest, recipient, feeRate, cells, selected>>
      /\ UNCHANGED <<prepared, lock, live>>
  BY DEF L!addressed, L!form, L!chain
<1>2. op.kind \in {"derive", "refresh"} /\ digest \in L!Preimages /\ op \in L!Op
  BY <1>1 DEF LockInv, LockOpOK, L!TypeOK
<1>3. CASE op.kind = "derive"
  <2>1. op' = L!IdleOp
    BY <1>3 DEF L!addressed, L!Ends
  <2> QED
    BY <1>1, <1>2, <2>1, LockTypes
    DEF LockInv, L!TypeOK, LockOpOK, AddressOK, ListedOK, PreparedOK
<1>4. CASE op.kind = "refresh"
  <2>1. op' \in L!Op /\ op'.phase = "cells" /\ op'.kind = "refresh"
    BY <1>2, <1>4 DEF L!addressed, L!Goes, L!Op, L!Phases
  <2> QED
    BY <1>1, <1>2, <2>1 DEF LockInv, L!TypeOK, LockOpOK, AddressOK, ListedOK, PreparedOK
<1> QED
  BY <1>2, <1>3, <1>4

LEMMA ListedInv == ASSUME LockInv, L!listed PROVE LockInv'
<1>1. /\ op.phase = "cells" /\ cells' \in L!liveCells(digest) /\ selected' = 1
      /\ prepared' = None /\ op' = L!IdleOp
      /\ UNCHANGED <<loaded, funder, preimage, digest, recipient, feeRate, address, lock, live>>
  BY DEF L!listed, L!Ends, L!form, L!chain
<1>2. digest \in L!Preimages
  BY <1>1 DEF LockInv, LockOpOK
<1> DEFINE found == {c \in live \ WithData : lock[c] = digest}
<1>3. PICK n \in 0 .. CellLimit : cells' \in [1 .. n -> found]
  BY <1>1 DEF L!liveCells
<1>4. found \subseteq L!Cells /\ \A c \in found : lock[c] = digest
  BY DEF LockInv, L!TypeOK
<1> HIDE DEF found
<1>5. cells' \in Seq(L!Cells) /\ Len(cells') = n /\ \A i \in DOMAIN cells' : lock[cells'[i]] = digest
  <2>1. n \in Nat /\ cells' \in [1 .. n -> L!Cells]
    BY <1>3, <1>4, WalletPagesAssumption
  <2> QED
    BY <1>3, <1>4, <2>1
<1>6. L!TypeOK'
  BY <1>1, <1>3, <1>5, LockTypes, WalletPagesAssumption DEF LockInv, L!TypeOK
<1> QED
  BY <1>1, <1>2, <1>5, <1>6, LockTypes
  DEF LockInv, LockOpOK, AddressOK, ListedOK, PreparedOK

LEMMA ConstructedInv == ASSUME LockInv, L!constructed PROVE LockInv'
<1>1. /\ op.phase = "live" /\ op.kind = "construct" /\ op' = L!IdleOp
      /\ prepared' \in L!buildUnlock(cells[selected])
      /\ UNCHANGED <<loaded, funder, preimage, digest, recipient, feeRate, address, cells>>
      /\ UNCHANGED <<selected, lock, live>>
  BY DEF L!constructed, L!Ends, L!At, L!form, L!chain
<1>2. selected \in DOMAIN cells /\ cells[selected] \in L!Cells
  BY <1>1 DEF LockInv, LockOpOK, L!TypeOK
<1> DEFINE c == cells[selected]
<1>3. /\ prepared' \in [cell : {c}, preimage : {preimage}, recipient : {recipient},
                         feeRate : {feeRate}]
      /\ preimage \in L!Preimages /\ lock[c] = preimage
      /\ Capacity[c] - Fee[feeRate] >= Occupied[recipient]
  BY <1>1 DEF L!buildUnlock, L!deriveLock
<1>4. /\ prepared'.cell = c /\ prepared'.preimage = preimage
      /\ prepared'.recipient = recipient /\ prepared'.feeRate = feeRate
  BY <1>3
<1>5. prepared' \in L!Unlock
  BY <1>2, <1>3 DEF LockInv, L!TypeOK, L!Unlock
<1>6. L!TypeOK'
  BY <1>1, <1>5, LockTypes DEF LockInv, L!TypeOK
<1>7. LockOpOK' /\ AddressOK' /\ ListedOK'
  BY <1>1, LockTypes DEF LockInv, LockOpOK, AddressOK, ListedOK
<1>8. PreparedOK'
  BY <1>1, <1>2, <1>3, <1>4 DEF PreparedOK
<1> QED
  BY <1>6, <1>7, <1>8 DEF LockInv

LEMMA SubmittedInv == ASSUME LockInv, L!submitted PROVE LockInv'
<1>1. /\ cells' = <<>> /\ prepared' = None /\ op' = L!IdleOp /\ live' \subseteq live
      /\ op.phase = "send"
      /\ UNCHANGED <<loaded, funder, preimage, digest, recipient, feeRate, address, selected>>
      /\ UNCHANGED lock
  BY DEF L!submitted, L!Ends, L!At, L!form
<1>2. cells' \in Seq(L!Cells) /\ Len(cells') <= CellLimit /\ DOMAIN cells' = {}
  BY <1>1, WalletPagesAssumption
<1>3. L!TypeOK'
  BY <1>1, <1>2, LockTypes DEF LockInv, L!TypeOK
<1> QED
  BY <1>1, <1>2, <1>3, LockTypes
  DEF LockInv, LockOpOK, AddressOK, ListedOK, PreparedOK

LEMMA LockNextInv == LockInv /\ [L!Next]_locking => LockInv'
<1> SUFFICES ASSUME LockInv, [L!Next]_locking PROVE LockInv'
  OBVIOUS
<1>1. CASE L!onReset \/ L!Leave
  <2>1. L!Blank /\ loaded' \in BOOLEAN /\ UNCHANGED <<funder, lock, live>>
    BY <1>1 DEF L!onReset, L!Leave, L!chain
  <2> QED
    BY <2>1, BlankInv
<1>2. CASE UNCHANGED locking
  BY <1>2 DEF locking, LockInv, L!TypeOK, LockOpOK, AddressOK, ListedOK, PreparedOK
<1> QED
  BY <1>1, <1>2, EditInv, BeginRunInv, GoesInv, OthersInv, DerivedInv, AddressedInv, ListedInv,
     ConstructedInv, SubmittedInv
  DEF L!Next

-----------------------------------------------------------------------------
(***************************************************************************)
(* The cells of the Spore Studio.                                          *)
(***************************************************************************)

Creates == {"create", "cluster-create"}

SameAsset(c, o) == assetCells[c].id = o.id /\ assetCells[c].content = o.content

\* What a transaction leaves is an input that goes on or the asset it makes, each of an id
\* of its own; what is immortal goes on; and a melt leaves nothing.
TxOK(tx) ==
  /\ tx.inputs \subseteq DOMAIN assetCells
  /\ \A i, j \in DOMAIN tx.outputs : tx.outputs[i].id = tx.outputs[j].id => i = j
  /\ \A i \in DOMAIN tx.outputs :
       \/ \E c \in tx.inputs : SameAsset(c, tx.outputs[i])
       \/ tx.operation \in Creates /\ tx.outputs[i].id = tx.id
  /\ \A c \in tx.inputs : assetCells[c].content = "immortal" =>
       \E i \in DOMAIN tx.outputs : SameAsset(c, tx.outputs[i])
  /\ tx.operation = "melt" =>
       tx.outputs = <<>> /\ \E c \in tx.inputs : assetCells[c].id = tx.id

\* A melt is prepared of what was found and can be melted.
DraftOK ==
  draft # None =>
    /\ draft.at \in {"own", "build"} /\ draft.request.operation = "melt" =>
         /\ draft.before \in DOMAIN assetCells
         /\ assetCells[draft.before].id = draft.request.id
         /\ assetCells[draft.before].content # "immortal"
    /\ draft.at \in {"inputs", "review", "signed"} =>
         draft.tx \in S!Tx /\ TxOK(draft.tx)

\* An asset that is to be made is not there yet; one that was melted is not there any more.
BroadcastOK(h) ==
  LET tx == broadcast[h].tx IN
    /\ TxOK(tx)
    /\ broadcast[h].status = "pool" /\ tx.operation \in Creates =>
         \A c \in DOMAIN assetCells : assetCells[c].id # tx.id
    /\ broadcast[h].status = "committed" /\ tx.operation = "melt" =>
         \A c \in liveAssets : assetCells[c].id # tx.id

PoolOK ==
  \A h, k \in DOMAIN broadcast :
    broadcast[h].status = "pool" /\ broadcast[k].status = "pool"
      /\ broadcast[h].tx.id = broadcast[k].tx.id => h = k

\* An asset has one content, and one live cell at most; what is immortal has one.
AssetsOK ==
  /\ \A c, d \in DOMAIN assetCells :
       assetCells[c].id = assetCells[d].id => assetCells[c].content = assetCells[d].content
  /\ \A c, d \in liveAssets : assetCells[c].id = assetCells[d].id => c = d
  /\ \A c \in DOMAIN assetCells :
       assetCells[c].content = "immortal" =>
         \E d \in liveAssets : assetCells[d].id = assetCells[c].id

\* A cell is what the transaction that made it says.
MadeOK(c) ==
  LET h == assetCells[c].by IN
    h # 0 =>
      /\ h \in DOMAIN broadcast /\ broadcast[h].status = "committed"
      /\ \E i \in DOMAIN broadcast[h].tx.outputs :
           assetCells[c] = [broadcast[h].tx.outputs[i] EXCEPT !.by = h]

\* A verification is of a transaction that was sent; past the node, it was committed; past
\* the indexer, the cell is the one that it made.
VerifyingOK(k) ==
  verifying[k] # None =>
    LET h == verifying[k].hash
        c == verifying[k].found
    IN /\ h \in DOMAIN broadcast
       /\ verifying[k].at \in {"index", "live"} => broadcast[h].status = "committed"
       /\ verifying[k].at = "live" =>
            /\ c \in DOMAIN assetCells /\ assetCells[c].by = h
            /\ assetCells[c].id = broadcast[h].tx.id /\ assetCells[c].lock = broadcast[h].tx.to
            /\ broadcast[h].tx.operation # "melt"

EvidenceOK ==
  evidence # None =>
    LET h == evidence.hash
        c == evidence.out
    IN /\ h \in DOMAIN broadcast /\ broadcast[h].status = "committed"
       /\ broadcast[h].tx.operation # "melt" =>
            /\ c \in DOMAIN assetCells /\ assetCells[c].by = h
            /\ assetCells[c].id = broadcast[h].tx.id /\ assetCells[c].lock = broadcast[h].tx.to

SporeInv ==
  /\ S!TypeOK
  /\ DraftOK
  /\ \A h \in DOMAIN broadcast : BroadcastOK(h)
  /\ PoolOK
  /\ AssetsOK
  /\ \A c \in DOMAIN assetCells : MadeOK(c)
  /\ following => hash # 0
  /\ \A k \in Ops : VerifyingOK(k)
  /\ EvidenceOK

Sent == [tx : S!Tx, status : {"pool", "committed", "rejected"}]

LEMMA SporeTypes ==
  ASSUME SporeInv
  PROVE  /\ assetCells \in Seq(S!Cell) /\ Len(assetCells) \in Nat
         /\ Len(assetCells) <= MaxAssetCells /\ DOMAIN assetCells = 1 .. Len(assetCells)
         /\ liveAssets \subseteq DOMAIN assetCells /\ indexed \subseteq DOMAIN assetCells
         /\ broadcast \in Seq(Sent) /\ Len(broadcast) \in Nat
         /\ Len(broadcast) <= MaxSpores /\ DOMAIN broadcast = 1 .. Len(broadcast)
         /\ draft \in S!Work \cup {None}
         /\ verifying \in [Ops -> S!Check \cup {None}]
BY DEF SporeInv, S!TypeOK, Sent

\* What there is stays: cells are added, transactions keep what they are, and what was
\* committed remains committed.
ChainGrows ==
  /\ \A c \in DOMAIN assetCells :
       c \in DOMAIN assetCells' /\ assetCells'[c] = assetCells[c]
  /\ \A h \in DOMAIN broadcast :
       /\ h \in DOMAIN broadcast' /\ broadcast'[h].tx = broadcast[h].tx
       /\ broadcast[h].status = "committed" => broadcast'[h].status = "committed"

LEMMA Persists ==
  ASSUME SporeInv, ChainGrows
  PROVE  /\ \A tx : TxOK(tx) => TxOK(tx)'
         /\ \A c \in DOMAIN assetCells : MadeOK(c)'
         /\ draft' = draft => DraftOK'
         /\ verifying' = verifying => \A k \in Ops : VerifyingOK(k)'
         /\ evidence' = evidence => EvidenceOK'
<1>1. ASSUME NEW tx, TxOK(tx) PROVE TxOK(tx)'
  BY <1>1 DEF TxOK, SameAsset, ChainGrows
<1>2. ASSUME NEW c \in DOMAIN assetCells PROVE MadeOK(c)'
  BY DEF SporeInv, MadeOK, ChainGrows
<1>3. ASSUME draft' = draft PROVE DraftOK'
  BY <1>1, <1>3 DEF SporeInv, DraftOK, ChainGrows
<1>4. ASSUME verifying' = verifying, NEW k \in Ops PROVE VerifyingOK(k)'
  BY <1>4 DEF SporeInv, VerifyingOK, ChainGrows
<1>5. ASSUME evidence' = evidence PROVE EvidenceOK'
  BY <1>5 DEF SporeInv, EvidenceOK, ChainGrows
<1> QED
  BY <1>1, <1>2, <1>3, <1>4, <1>5

\* Cells are spent, and others are made.
LEMMA SpendFacts ==
  ASSUME SporeInv, NEW ins, NEW outs \in Seq(S!Cell), S!Spend(ins, outs)
  PROVE  /\ assetCells' \in Seq(S!Cell) /\ Len(assetCells') <= MaxAssetCells
         /\ Len(outs) \in Nat /\ Len(assetCells') = Len(assetCells) + Len(outs)
         /\ \A c \in DOMAIN assetCells :
              c \in DOMAIN assetCells' /\ assetCells'[c] = assetCells[c]
         /\ \A c \in DOMAIN assetCells' \ DOMAIN assetCells :
              /\ c - Len(assetCells) \in DOMAIN outs
              /\ assetCells'[c] = outs[c - Len(assetCells)]
         /\ \A i \in DOMAIN outs :
              /\ Len(assetCells) + i \in DOMAIN assetCells' \ DOMAIN assetCells
              /\ assetCells'[Len(assetCells) + i] = outs[i]
         /\ liveAssets' = (liveAssets \ ins) \cup (DOMAIN assetCells' \ DOMAIN assetCells)
         /\ liveAssets' \subseteq DOMAIN assetCells' /\ indexed' = indexed
<1>1. /\ assetCells \in Seq(S!Cell) /\ Len(assetCells) \in Nat
      /\ DOMAIN assetCells = 1 .. Len(assetCells) /\ liveAssets \subseteq DOMAIN assetCells
  BY SporeTypes
<1>2. /\ Len(assetCells) + Len(outs) <= MaxAssetCells /\ assetCells' = assetCells \o outs
      /\ liveAssets' = (liveAssets \ ins) \cup (DOMAIN assetCells' \ DOMAIN assetCells)
      /\ indexed' = indexed
  BY DEF S!Spend
<1>3. /\ assetCells' \in Seq(S!Cell) /\ Len(assetCells') = Len(assetCells) + Len(outs)
      /\ Len(outs) \in Nat /\ DOMAIN outs = 1 .. Len(outs)
      /\ DOMAIN assetCells' = 1 .. Len(assetCells) + Len(outs)
  BY <1>1, <1>2
<1>4. \A c \in 1 .. Len(assetCells) + Len(outs) :
        assetCells'[c] = IF c <= Len(assetCells) THEN assetCells[c] ELSE outs[c - Len(assetCells)]
  BY <1>1, <1>2
<1> QED
  BY <1>1, <1>2, <1>3, <1>4

\* If what is made is an asset that goes on, or new, and immortal assets go on, then the
\* assets are in order after it; and no asset comes back.
LEMMA SpendInv ==
  ASSUME SporeInv, NEW ins, ins \subseteq liveAssets, NEW outs \in Seq(S!Cell),
         S!Spend(ins, outs),
         \A i, j \in DOMAIN outs : outs[i].id = outs[j].id => i = j,
         \A i \in DOMAIN outs : \/ \E c \in ins : SameAsset(c, outs[i])
                                \/ \A c \in DOMAIN assetCells : assetCells[c].id # outs[i].id,
         \A c \in ins : assetCells[c].content = "immortal" =>
           \E i \in DOMAIN outs : SameAsset(c, outs[i])
  PROVE  /\ AssetsOK'
         /\ \A x : /\ \E c \in DOMAIN assetCells : assetCells[c].id = x
                   /\ \A c \in liveAssets \ ins : assetCells[c].id # x
                   /\ \A i \in DOMAIN outs : outs[i].id # x
                   => \A c \in liveAssets' : assetCells'[c].id # x
<1> DEFINE Old == DOMAIN assetCells
<1> DEFINE New == DOMAIN assetCells' \ DOMAIN assetCells
<1> DEFINE n == Len(assetCells)
<1>1. /\ n \in Nat /\ Old = 1 .. n /\ liveAssets \subseteq Old /\ ins \subseteq Old
  BY SporeTypes
<1>2. /\ \A c \in Old : c \in DOMAIN assetCells' /\ assetCells'[c] = assetCells[c]
      /\ \A c \in New : c - n \in DOMAIN outs /\ assetCells'[c] = outs[c - n]
      /\ \A i \in DOMAIN outs : n + i \in New /\ assetCells'[n + i] = outs[i]
      /\ liveAssets' = (liveAssets \ ins) \cup New
      /\ DOMAIN assetCells' \subseteq Int
  BY SpendFacts, SMTT(30)
<1>3. ASSUME NEW c \in New
      PROVE  \/ \E e \in ins : /\ assetCells[e].id = assetCells'[c].id
                               /\ assetCells[e].content = assetCells'[c].content
             \/ \A e \in Old : assetCells[e].id # assetCells'[c].id
  <2>1. PICK i \in DOMAIN outs : assetCells'[c] = outs[i]
    BY <1>2
  <2>2. CASE \E e \in ins : SameAsset(e, outs[i])
    BY <2>1, <2>2 DEF SameAsset
  <2>3. CASE \A e \in Old : assetCells[e].id # outs[i].id
    BY <2>1, <2>3
  <2> QED
    BY <2>2, <2>3
<1>4. ASSUME NEW c \in New, NEW d \in New, assetCells'[c].id = assetCells'[d].id PROVE c = d
  <2>1. c - n = d - n
    BY <1>2, <1>4
  <2> QED
    BY <1>1, <1>2, <2>1
<1> HIDE DEF n, New
<1>5. /\ \A c, d \in Old : assetCells[c].id = assetCells[d].id =>
           assetCells[c].content = assetCells[d].content
      /\ \A c, d \in liveAssets : assetCells[c].id = assetCells[d].id => c = d
      /\ \A c \in Old : assetCells[c].content = "immortal" =>
           \E d \in liveAssets : assetCells[d].id = assetCells[c].id
  BY DEF SporeInv, AssetsOK
<1>6. DOMAIN assetCells' = Old \cup New
  BY <1>2 DEF New
<1>7. ASSUME NEW c \in Old \cup New, NEW d \in Old \cup New, assetCells'[c].id = assetCells'[d].id
      PROVE  assetCells'[c].content = assetCells'[d].content
  <2>1. CASE c \in Old /\ d \in Old
    BY <2>1, <1>2, <1>5, <1>7
  <2>2. CASE c \in New /\ d \in New
    BY <2>2, <1>4, <1>7
  <2>3. ASSUME NEW a \in Old, NEW b \in New, assetCells'[a].id = assetCells'[b].id
        PROVE  assetCells'[a].content = assetCells'[b].content
    <3>1. PICK e \in ins : /\ assetCells[e].id = assetCells'[b].id
                           /\ assetCells[e].content = assetCells'[b].content
      BY <2>3, <1>2, <1>3
    <3> QED
      BY <2>3, <3>1, <1>1, <1>2, <1>5
  <2> QED
    BY <1>7, <2>1, <2>2, <2>3
<1>8. ASSUME NEW c \in liveAssets', NEW d \in liveAssets', assetCells'[c].id = assetCells'[d].id
      PROVE  c = d
  <2>1. CASE c \in liveAssets \ ins /\ d \in liveAssets \ ins
    BY <2>1, <1>1, <1>2, <1>5, <1>8
  <2>2. CASE c \in New /\ d \in New
    BY <2>2, <1>4, <1>8
  <2>3. ASSUME NEW a \in liveAssets \ ins, NEW b \in New, assetCells'[a].id = assetCells'[b].id
        PROVE  FALSE
    <3>1. assetCells[a].id = assetCells'[b].id /\ a \in Old
      BY <2>3, <1>1, <1>2
    <3>2. PICK e \in ins : assetCells[e].id = assetCells'[b].id
      BY <3>1, <1>3
    <3> QED
      BY <3>1, <3>2, <1>5
  <2> QED
    BY <1>2, <1>8, <2>1, <2>2, <2>3
<1>9. ASSUME NEW c \in Old \cup New, assetCells'[c].content = "immortal"
      PROVE  \E d \in liveAssets' : assetCells'[d].id = assetCells'[c].id
  <2>1. CASE c \in New
    BY <2>1, <1>2
  <2>2. CASE c \in Old
    <3>1. PICK d \in liveAssets : assetCells[d].id = assetCells[c].id
      BY <2>2, <1>2, <1>5, <1>9
    <3>2. CASE d \in ins
      <4>1. assetCells[d].content = "immortal"
        BY <2>2, <3>1, <1>1, <1>2, <1>5, <1>9
      <4>2. PICK i \in DOMAIN outs : outs[i].id = assetCells[d].id
        BY <3>2, <4>1 DEF SameAsset
      <4> QED
        BY <2>2, <3>1, <4>2, <1>2
    <3>3. CASE d \notin ins
      BY <2>2, <3>1, <3>3, <1>1, <1>2
    <3> QED
      BY <3>2, <3>3
  <2> QED
    BY <2>1, <2>2
<1>10. AssetsOK'
  BY <1>6, <1>7, <1>8, <1>9 DEF AssetsOK
<1>11. ASSUME NEW x, \A c \in liveAssets \ ins : assetCells[c].id # x,
              \A i \in DOMAIN outs : outs[i].id # x, NEW c \in liveAssets'
       PROVE  assetCells'[c].id # x
  BY <1>11, <1>1, <1>2
<1> QED
  BY <1>10, <1>11

\* A transaction is committed: an id that it makes is new, and what it melts was the only
\* live cell of its id.
LEMMA CommitInv == ASSUME SporeInv, S!Commit PROVE SporeInv'
<1>1. PICK h \in DOMAIN broadcast :
         LET tx == broadcast[h].tx IN
         /\ broadcast[h].status = "pool" /\ tx.inputs \subseteq liveAssets
         /\ S!Spend(tx.inputs, [i \in DOMAIN tx.outputs |-> [tx.outputs[i] EXCEPT !.by = h]])
         /\ S!Ends(h, "committed")
         /\ UNCHANGED <<draft, hash, following, verifying, evidence>>
  BY DEF S!Commit, S!following
<1> DEFINE tx == broadcast[h].tx
<1> DEFINE outs == [i \in DOMAIN tx.outputs |-> [tx.outputs[i] EXCEPT !.by = h]]
<1> DEFINE q == [broadcast[h] EXCEPT !.status = "committed"]
<1>2. /\ broadcast \in Seq(Sent) /\ Len(broadcast) <= MaxSpores /\ Len(broadcast) \in Nat
      /\ broadcast[h] \in Sent /\ DOMAIN broadcast = 1 .. Len(broadcast)
  BY SporeTypes
<1>3. tx \in S!Tx /\ tx.outputs \in Seq(S!Cell)
  BY <1>2 DEF Sent, S!Tx
<1>4. h \in 0 .. MaxSpores /\ h # 0
  BY <1>2, WalletPagesAssumption
<1>5. ASSUME NEW i \in DOMAIN tx.outputs
      PROVE  /\ [tx.outputs[i] EXCEPT !.by = h] \in S!Cell
             /\ [tx.outputs[i] EXCEPT !.by = h].id = tx.outputs[i].id
             /\ [tx.outputs[i] EXCEPT !.by = h].content = tx.outputs[i].content
             /\ [tx.outputs[i] EXCEPT !.by = h].by = h
  <2>1. tx.outputs[i] \in S!Cell
    BY <1>3
  <2> QED
    BY <1>4, <2>1 DEF S!Cell
<1>6. q \in Sent /\ q.tx = tx /\ q.status = "committed"
  BY <1>2 DEF Sent
<1>7. broadcast' = [broadcast EXCEPT ![h] = q]
  BY <1>1 DEF S!Ends
<1>8. /\ tx.inputs \subseteq liveAssets /\ S!Spend(tx.inputs, outs) /\ broadcast[h].status = "pool"
      /\ UNCHANGED <<draft, hash, following, verifying, evidence>>
  BY <1>1
<1>9. outs \in Seq(S!Cell) /\ DOMAIN outs = DOMAIN tx.outputs
      /\ \A i \in DOMAIN outs : /\ outs[i].id = tx.outputs[i].id /\ outs[i].by = h
                                /\ outs[i].content = tx.outputs[i].content
                                /\ outs[i] = [tx.outputs[i] EXCEPT !.by = h]
  BY <1>3, <1>5
<1>10. BroadcastOK(h) /\ TxOK(tx)
  BY DEF SporeInv, BroadcastOK
<1> HIDE DEF q, outs
<1>11. /\ broadcast' \in Seq(Sent) /\ Len(broadcast') = Len(broadcast) /\ broadcast'[h] = q
       /\ DOMAIN broadcast' = DOMAIN broadcast
       /\ \A k \in DOMAIN broadcast \ {h} : broadcast'[k] = broadcast[k]
  BY <1>2, <1>6, <1>7
<1> HIDE DEF tx
<1>12. \A i, j \in DOMAIN outs : outs[i].id = outs[j].id => i = j
  BY <1>9, <1>10 DEF TxOK
<1>13. ASSUME NEW i \in DOMAIN outs
       PROVE  \/ \E c \in tx.inputs : SameAsset(c, outs[i])
              \/ /\ tx.operation \in Creates /\ outs[i].id = tx.id
                 /\ \A c \in DOMAIN assetCells : assetCells[c].id # outs[i].id
  <2>1. CASE \E c \in tx.inputs : SameAsset(c, tx.outputs[i])
    BY <2>1, <1>9 DEF SameAsset
  <2>2. CASE tx.operation \in Creates /\ tx.outputs[i].id = tx.id
    BY <2>2, <1>8, <1>9, <1>10 DEF BroadcastOK, tx
  <2> QED
    BY <2>1, <2>2, <1>9, <1>10 DEF TxOK
<1>14. \A c \in tx.inputs : assetCells[c].content = "immortal" =>
         \E i \in DOMAIN outs : SameAsset(c, outs[i])
  <2> SUFFICES ASSUME NEW c \in tx.inputs, assetCells[c].content = "immortal"
               PROVE  \E i \in DOMAIN outs : SameAsset(c, outs[i])
    OBVIOUS
  <2>1. PICK i \in DOMAIN tx.outputs : SameAsset(c, tx.outputs[i])
    BY <1>10 DEF TxOK
  <2> QED
    BY <2>1, <1>9 DEF SameAsset
<1>15. /\ AssetsOK'
       /\ \A x : /\ \E c \in DOMAIN assetCells : assetCells[c].id = x
                 /\ \A c \in liveAssets \ tx.inputs : assetCells[c].id # x
                 /\ \A i \in DOMAIN outs : outs[i].id # x
                 => \A c \in liveAssets' : assetCells'[c].id # x
  <2>1. \A i \in DOMAIN outs :
          \/ \E c \in tx.inputs : SameAsset(c, outs[i])
          \/ \A c \in DOMAIN assetCells : assetCells[c].id # outs[i].id
    BY <1>13
  <2> QED
    BY <1>8, <1>9, <1>12, <1>14, <2>1, SpendInv, ZenonT(60)
<1>16. /\ assetCells' \in Seq(S!Cell) /\ Len(assetCells') <= MaxAssetCells
       /\ \A c \in DOMAIN assetCells :
            c \in DOMAIN assetCells' /\ assetCells'[c] = assetCells[c]
       /\ \A c \in DOMAIN assetCells' \ DOMAIN assetCells :
            \E i \in DOMAIN outs : assetCells'[c] = outs[i]
       /\ liveAssets' = (liveAssets \ tx.inputs) \cup (DOMAIN assetCells' \ DOMAIN assetCells)
       /\ liveAssets' \subseteq DOMAIN assetCells' /\ indexed' = indexed
  BY <1>8, <1>9, SpendFacts
<1>17. ChainGrows
  BY <1>6, <1>11, <1>16 DEF ChainGrows, tx
<1>18. S!TypeOK'
  BY <1>2, <1>8, <1>11, <1>16 DEF SporeInv, S!TypeOK, Sent
<1>19. PoolOK'
  BY <1>6, <1>11 DEF SporeInv, PoolOK
<1>20. ASSUME NEW k \in DOMAIN broadcast PROVE BroadcastOK(k)'
  <2> DEFINE t == broadcast[k].tx
  <2>1. TxOK(t) /\ BroadcastOK(k)
    BY DEF SporeInv, BroadcastOK
  <2>2. TxOK(t)' /\ broadcast'[k].tx = t
    BY <1>17, <2>1, Persists DEF ChainGrows
  <2>3. ASSUME broadcast'[k].status = "pool", t.operation \in Creates, NEW c \in DOMAIN assetCells'
        PROVE  assetCells'[c].id # t.id
    <3>1. k # h /\ broadcast[k].status = "pool"
      BY <2>3, <1>6, <1>11
    <3>2. t.id # tx.id
      BY <3>1, <1>8 DEF SporeInv, PoolOK, tx
    <3>3. \A d \in DOMAIN assetCells : assetCells[d].id # t.id
      BY <2>1, <2>3, <3>1 DEF BroadcastOK
    <3>4. CASE c \in DOMAIN assetCells
      BY <3>3, <3>4, <1>16
    <3>5. CASE c \notin DOMAIN assetCells
      <4>1. PICK i \in DOMAIN outs : assetCells'[c] = outs[i]
        BY <3>5, <1>16
      <4>2. tx.inputs \subseteq DOMAIN assetCells
        BY <1>10 DEF TxOK
      <4> QED
        BY <3>2, <3>3, <4>1, <4>2, <1>13 DEF SameAsset
    <3> QED
      BY <3>4, <3>5
  <2>4. ASSUME broadcast'[k].status = "committed", t.operation = "melt"
        PROVE  \A c \in liveAssets' : assetCells'[c].id # t.id
    <3>1. PICK d \in t.inputs : assetCells[d].id = t.id /\ d \in DOMAIN assetCells
      BY <2>1, <2>4 DEF TxOK
    <3>2. CASE k = h
      <4>1. \A c \in liveAssets \ tx.inputs : assetCells[c].id # t.id
        BY <3>1, <3>2, <1>8 DEF SporeInv, AssetsOK, tx
      <4>2. DOMAIN outs = {}
        BY <2>4, <3>2, <1>9, <1>10 DEF TxOK, tx
      <4> QED
        BY <3>1, <4>1, <4>2, <1>15
    <3>3. CASE k # h
      <4>1. broadcast[k].status = "committed"
        BY <2>4, <3>3, <1>11
      <4>2. \A c \in liveAssets : assetCells[c].id # t.id
        BY <2>1, <2>4, <4>1 DEF BroadcastOK
      <4>3. \A i \in DOMAIN outs : outs[i].id # t.id
        BY <3>1, <4>2, <1>8, <1>13 DEF SameAsset
      <4> QED
        BY <3>1, <4>2, <4>3, <1>15
    <3> QED
      BY <3>2, <3>3
  <2> QED
    BY <2>2, <2>3, <2>4 DEF BroadcastOK
<1>21. ASSUME NEW c \in DOMAIN assetCells' PROVE MadeOK(c)'
  <2>1. CASE c \in DOMAIN assetCells
    BY <2>1, <1>17, Persists
  <2>2. CASE c \notin DOMAIN assetCells
    <3>1. PICK i \in DOMAIN outs : assetCells'[c] = outs[i]
      BY <2>2, <1>16
    <3>2. assetCells'[c].by = h /\ assetCells'[c] = [tx.outputs[i] EXCEPT !.by = h]
          /\ i \in DOMAIN tx.outputs
      BY <3>1, <1>9
    <3> QED
      BY <3>2, <1>4, <1>6, <1>11 DEF MadeOK
  <2> QED
    BY <2>1, <2>2
<1>22. (following => hash # 0)'
  BY <1>8 DEF SporeInv
<1> QED
  BY <1>8, <1>11, <1>15, <1>17, <1>18, <1>19, <1>20, <1>21, <1>22, Persists DEF SporeInv

\* What the node has taken is not committed after all.
LEMMA RejectInv == ASSUME SporeInv, S!Reject PROVE SporeInv'
<1>1. PICK h \in DOMAIN broadcast :
         /\ broadcast[h].status = "pool" /\ broadcast' = [broadcast EXCEPT ![h].status = "rejected"]
         /\ UNCHANGED <<assetCells, liveAssets, indexed, draft, hash, following, verifying>>
         /\ UNCHANGED evidence
  BY DEF S!Reject, S!Ends, S!following
<1> DEFINE q == [broadcast[h] EXCEPT !.status = "rejected"]
<1>2. /\ broadcast \in Seq(Sent) /\ Len(broadcast) \in Nat /\ broadcast[h] \in Sent
  BY SporeTypes
<1>3. q \in Sent /\ q.tx = broadcast[h].tx /\ q.status = "rejected"
  BY <1>2 DEF Sent
<1>4. broadcast' = [broadcast EXCEPT ![h] = q]
  BY <1>1
<1> HIDE DEF q
<1>5. /\ broadcast' \in Seq(Sent) /\ Len(broadcast') = Len(broadcast) /\ broadcast'[h] = q
      /\ DOMAIN broadcast' = DOMAIN broadcast
      /\ \A k \in DOMAIN broadcast \ {h} : broadcast'[k] = broadcast[k]
  BY <1>2, <1>3, <1>4
<1>6. ChainGrows
  BY <1>1, <1>3, <1>5 DEF ChainGrows
<1>7. S!TypeOK'
  BY <1>1, <1>5 DEF SporeInv, S!TypeOK, Sent
<1>8. PoolOK'
  BY <1>3, <1>5 DEF SporeInv, PoolOK
<1>9. ASSUME NEW k \in DOMAIN broadcast PROVE BroadcastOK(k)'
  <2>1. TxOK(broadcast[k].tx)' /\ broadcast'[k].tx = broadcast[k].tx
    BY <1>6, Persists DEF SporeInv, BroadcastOK, ChainGrows
  <2>2. broadcast'[k].status \in {broadcast[k].status, "rejected"}
    BY <1>3, <1>5
  <2> QED
    BY <1>1, <2>1, <2>2 DEF SporeInv, BroadcastOK
<1> QED
  BY <1>1, <1>5, <1>6, <1>7, <1>8, <1>9, Persists DEF SporeInv, AssetsOK

\* Another program moves or melts an asset: it makes no new one.
LEMMA ElsewhereInv == ASSUME SporeInv, S!Elsewhere PROVE SporeInv'
<1>1. PICK c \in liveAssets :
         /\ \/ \E w \in Artists \ {assetCells[c].lock} :
                 S!Spend({c}, <<[assetCells[c] EXCEPT !.lock = w, !.by = 0]>>)
            \/ assetCells[c].content # "immortal" /\ S!Spend({c}, <<>>)
         /\ UNCHANGED <<broadcast, draft, hash, following, verifying, evidence>>
  BY DEF S!Elsewhere, S!following
<1>2. assetCells[c] \in S!Cell /\ c \in DOMAIN assetCells
  BY SporeTypes
<1>3. PICK outs \in Seq(S!Cell) :
         /\ S!Spend({c}, outs)
         /\ \A i \in DOMAIN outs : i = 1 /\ SameAsset(c, outs[i]) /\ outs[i].by = 0
         /\ assetCells[c].content = "immortal" => \E i \in DOMAIN outs : SameAsset(c, outs[i])
  <2>1. ASSUME NEW w \in Artists,
               S!Spend({c}, <<[assetCells[c] EXCEPT !.lock = w, !.by = 0]>>)
        PROVE  \E outs \in Seq(S!Cell) :
                 /\ S!Spend({c}, outs)
                 /\ \A i \in DOMAIN outs : i = 1 /\ SameAsset(c, outs[i]) /\ outs[i].by = 0
                 /\ assetCells[c].content = "immortal" =>
                      \E i \in DOMAIN outs : SameAsset(c, outs[i])
    <3> DEFINE o == [assetCells[c] EXCEPT !.lock = w, !.by = 0]
    <3>1. o \in S!Cell /\ SameAsset(c, o) /\ o.by = 0
      <4>1. 0 \in 0 .. MaxSpores
        BY WalletPagesAssumption
      <4> QED
        BY <1>2, <4>1 DEF S!Cell, SameAsset
    <3> HIDE DEF o
    <3>2. <<o>> \in Seq(S!Cell) /\ DOMAIN <<o>> = {1} /\ <<o>>[1] = o
      BY <3>1
    <3> QED
      BY <2>1, <3>1, <3>2 DEF o
  <2>2. <<>> \in Seq(S!Cell) /\ DOMAIN <<>> = {}
    OBVIOUS
  <2> QED
    BY <1>1, <2>1, <2>2
<1>4. /\ AssetsOK'
      /\ \A x : /\ \E d \in DOMAIN assetCells : assetCells[d].id = x
                /\ \A d \in liveAssets \ {c} : assetCells[d].id # x
                /\ \A i \in DOMAIN outs : outs[i].id # x
                => \A d \in liveAssets' : assetCells'[d].id # x
  <2>1. \A i, j \in DOMAIN outs : outs[i].id = outs[j].id => i = j
    BY <1>3
  <2>2. {c} \subseteq liveAssets
    OBVIOUS
  <2>3. \A i \in DOMAIN outs :
          \/ \E d \in {c} : SameAsset(d, outs[i])
          \/ \A d \in DOMAIN assetCells : assetCells[d].id # outs[i].id
    BY <1>3
  <2>4. \A d \in {c} : assetCells[d].content = "immortal" =>
          \E i \in DOMAIN outs : SameAsset(d, outs[i])
    BY <1>3
  <2> QED
    BY <1>3, <2>1, <2>2, <2>3, <2>4, SpendInv
<1>5. /\ assetCells' \in Seq(S!Cell) /\ Len(assetCells') <= MaxAssetCells
      /\ \A d \in DOMAIN assetCells :
           d \in DOMAIN assetCells' /\ assetCells'[d] = assetCells[d]
      /\ \A d \in DOMAIN assetCells' \ DOMAIN assetCells :
           \E i \in DOMAIN outs : assetCells'[d] = outs[i]
      /\ liveAssets' \subseteq DOMAIN assetCells' /\ indexed' = indexed
  BY <1>3, SpendFacts
<1>6. ChainGrows
  BY <1>1, <1>5 DEF ChainGrows
<1>7. S!TypeOK'
  BY <1>1, <1>5 DEF SporeInv, S!TypeOK
<1>8. ASSUME NEW k \in DOMAIN broadcast PROVE BroadcastOK(k)'
  <2> DEFINE t == broadcast[k].tx
  <2>1. TxOK(t) /\ TxOK(t)' /\ BroadcastOK(k)
    BY <1>1, <1>6, Persists DEF SporeInv, BroadcastOK
  <2>2. ASSUME broadcast[k].status = "pool", t.operation \in Creates, NEW d \in DOMAIN assetCells'
        PROVE  assetCells'[d].id # t.id
    <3>1. \A e \in DOMAIN assetCells : assetCells[e].id # t.id
      BY <2>1, <2>2 DEF BroadcastOK
    <3> QED
      BY <3>1, <1>2, <1>3, <1>5 DEF SameAsset
  <2>3. ASSUME broadcast[k].status = "committed", t.operation = "melt"
        PROVE  \A d \in liveAssets' : assetCells'[d].id # t.id
    <3>1. \E d \in DOMAIN assetCells : assetCells[d].id = t.id
      BY <2>1, <2>3 DEF TxOK
    <3>2. \A d \in liveAssets : assetCells[d].id # t.id
      BY <2>1, <2>3 DEF BroadcastOK
    <3>3. \A i \in DOMAIN outs : outs[i].id # t.id
      BY <3>2, <1>3 DEF SameAsset
    <3> QED
      BY <3>1, <3>2, <3>3, <1>4
  <2> QED
    BY <1>1, <2>1, <2>2, <2>3 DEF BroadcastOK
<1>9. ASSUME NEW d \in DOMAIN assetCells' PROVE MadeOK(d)'
  <2>1. CASE d \in DOMAIN assetCells
    BY <2>1, <1>6, Persists
  <2>2. CASE d \notin DOMAIN assetCells
    BY <2>2, <1>3, <1>5 DEF MadeOK
  <2> QED
    BY <2>1, <2>2
<1>10. PoolOK' /\ (following => hash # 0)'
  BY <1>1 DEF SporeInv, PoolOK
<1> QED
  BY <1>1, <1>4, <1>6, <1>7, <1>8, <1>9, <1>10, Persists DEF SporeInv

LEMMA SporeInitInv == S!Init => SporeInv
<1> SUFFICES ASSUME S!Init PROVE SporeInv
  OBVIOUS
<1> DEFINE Spore(x) == [kind |-> "spore", id |-> 1, lock |-> User, content |-> x,
                        cluster |-> 0, by |-> 0]
<1> DEFINE Cluster == [kind |-> "cluster", id |-> 2, lock |-> User, content |-> None,
                       cluster |-> 0, by |-> 0]
<1>1. PICK content \in Contents : assetCells = <<Spore(content), Cluster>>
  BY DEF S!Init
<1>2. /\ liveAssets = {1, 2} /\ indexed = {1, 2} /\ broadcast = <<>> /\ draft = None
      /\ hash = 0 /\ following = FALSE /\ verifying = [k \in Ops |-> None] /\ evidence = None
  BY DEF S!Init
<1>3. 0 \in 0 .. MaxIds /\ 0 \in 0 .. MaxSpores /\ 1 \in 1 .. MaxIds /\ 2 \in 1 .. MaxIds
  BY WalletPagesAssumption
<1>4. Spore(content) \in S!Cell /\ Cluster \in S!Cell
  BY <1>3, WalletPagesAssumption DEF S!Cell
<1>5. /\ Spore(content).id = 1 /\ Cluster.id = 2
      /\ Spore(content).by = 0 /\ Cluster.by = 0
  OBVIOUS
<1> HIDE DEF Spore, Cluster
<1>6. /\ assetCells \in Seq(S!Cell) /\ Len(assetCells) = 2 /\ DOMAIN assetCells = {1, 2}
      /\ assetCells[1] = Spore(content) /\ assetCells[2] = Cluster
  BY <1>1, <1>4
<1>7. broadcast \in Seq(Sent) /\ Len(broadcast) = 0 /\ DOMAIN broadcast = {}
  BY <1>2
<1>8. S!TypeOK
  <2>1. /\ Len(assetCells) <= MaxAssetCells /\ liveAssets \subseteq DOMAIN assetCells
        /\ indexed \subseteq DOMAIN assetCells
    BY <1>2, <1>6, WalletPagesAssumption
  <2>2. Len(broadcast) <= MaxSpores /\ hash \in 0 .. Len(broadcast) /\ following \in BOOLEAN
    BY <1>2, <1>7, WalletPagesAssumption
  <2>3. verifying \in [Ops -> S!Check \cup {None}]
    BY <1>2
  <2>4. draft = None /\ evidence = None /\ assetCells \in Seq(S!Cell) /\ broadcast \in Seq(Sent)
    BY <1>2, <1>6, <1>7
  <2> QED
    BY <2>1, <2>2, <2>3, <2>4 DEF S!TypeOK, Sent
<1>9. AssetsOK
  BY <1>2, <1>5, <1>6 DEF AssetsOK
<1>10. \A c \in DOMAIN assetCells : MadeOK(c)
  BY <1>5, <1>6 DEF MadeOK
<1>11. \A k \in Ops : VerifyingOK(k)
  BY <1>2 DEF VerifyingOK
<1> QED
  BY <1>2, <1>7, <1>8, <1>9, <1>10, <1>11 DEF SporeInv, DraftOK, PoolOK, EvidenceOK

\* What is not a step of the chain changes what the studio prepares, follows and verifies.
LEMMA StudioInv ==
  ASSUME SporeInv, UNCHANGED <<assetCells, liveAssets, broadcast>>,
         indexed' \subseteq DOMAIN assetCells,
         draft' = draft \/ (draft' \in S!Work \cup {None} /\ DraftOK'),
         \/ UNCHANGED <<hash, following>>
         \/ hash' \in 0 .. Len(broadcast) /\ following' \in BOOLEAN /\ (following' => hash' # 0),
         \/ verifying' = verifying
         \/ verifying' \in [Ops -> S!Check \cup {None}] /\ \A k \in Ops : VerifyingOK(k)',
         \/ evidence' = evidence
         \/ evidence' \in [hash : 1 .. MaxSpores, out : 0 .. MaxAssetCells] \cup {None}
              /\ EvidenceOK'
  PROVE  SporeInv'
<1>1. ChainGrows
  BY DEF ChainGrows
<1>2. S!TypeOK'
  BY DEF SporeInv, S!TypeOK
<1>3. DraftOK' /\ EvidenceOK' /\ \A k \in Ops : VerifyingOK(k)'
  BY <1>1, Persists
<1>4. ASSUME NEW h \in DOMAIN broadcast PROVE BroadcastOK(h)'
  BY DEF SporeInv, BroadcastOK, TxOK, SameAsset
<1>5. ASSUME NEW c \in DOMAIN assetCells PROVE MadeOK(c)'
  BY <1>1, Persists
<1>6. PoolOK' /\ AssetsOK' /\ (following => hash # 0)'
  BY DEF SporeInv, PoolOK, AssetsOK
<1> QED
  BY <1>2, <1>3, <1>4, <1>5, <1>6 DEF SporeInv

LEMMA IndexInv == ASSUME SporeInv, S!Index PROVE SporeInv'
<1>1. /\ indexed' = liveAssets
      /\ UNCHANGED <<assetCells, liveAssets, broadcast, draft, hash, following, verifying>>
      /\ UNCHANGED evidence
  BY DEF S!Index, S!following
<1>2. liveAssets \subseteq DOMAIN assetCells
  BY SporeTypes
<1> QED
  BY <1>1, <1>2, StudioInv

\* What a preparation becomes.
LEMMA BecomesInv ==
  ASSUME SporeInv, NEW w \in S!Work \cup {None}, S!Becomes(w), DraftOK'
  PROVE  SporeInv'
  BY StudioInv, SporeTypes DEF S!Becomes, S!chain, S!following

LEMMA buildInv == ASSUME SporeInv, S!build PROVE SporeInv'
<1>1. PICK r \in S!Requests :
         draft' = [at |-> IF S!Subject(r) = 0 THEN "build" ELSE "find", request |-> r,
                   before |-> 0, tx |-> None]
  BY DEF S!build
<1>2. /\ verifying' = [k \in Ops |-> None] /\ evidence' = None
      /\ UNCHANGED <<assetCells, liveAssets, indexed, broadcast, hash, following>>
  BY DEF S!build, S!chain
<1>3. \A c \in DOMAIN assetCells : assetCells[c].id \in 1 .. MaxIds
  <2>1. \A c \in DOMAIN assetCells : assetCells[c] \in S!Cell
    BY SporeTypes
  <2> QED
    BY <2>1 DEF S!Cell
<1>4. 0 \in 0 .. MaxIds /\ 0 \in 0 .. MaxAssetCells /\ 1 .. MaxIds \subseteq 0 .. MaxIds
  BY WalletPagesAssumption
<1>5. r \in S!Request /\ (r.operation = "melt" => r.id # 0)
  BY <1>3, <1>4, WalletPagesAssumption DEF S!Requests, S!Request, S!Operation
<1>6. draft' \in S!Work
  BY <1>1, <1>4, <1>5 DEF S!Work
<1>7. DraftOK'
  BY <1>1, <1>5 DEF DraftOK, S!Subject
<1>8. \A k \in Ops : VerifyingOK(k)'
  BY <1>2 DEF VerifyingOK
<1>9. EvidenceOK'
  BY <1>2 DEF EvidenceOK
<1> QED
  BY <1>2, <1>6, <1>7, <1>8, <1>9, StudioInv, SporeTypes

LEMMA findInv == ASSUME SporeInv, S!find PROVE SporeInv'
<1>1. PICK c \in S!Found(S!Subject(draft.request)) :
         /\ draft.request.operation = "melt" => assetCells[c].content # "immortal"
         /\ S!Becomes([draft EXCEPT !.at = "own", !.before = c])
  BY DEF S!find
<1> DEFINE w == [draft EXCEPT !.at = "own", !.before = c]
<1>2. draft \in S!Work /\ draft # None
  BY SporeTypes DEF S!find, S!At
<1>3. c \in DOMAIN assetCells /\ c \in 0 .. MaxAssetCells
      /\ assetCells[c].id = S!Subject(draft.request)
  BY SporeTypes, WalletPagesAssumption DEF S!Found
<1>4. w \in S!Work /\ w.at = "own" /\ w.before = c /\ w.request = draft.request
  BY <1>2, <1>3 DEF S!Work
<1>5. draft' = w /\ assetCells' = assetCells
  BY <1>1 DEF S!Becomes, S!chain
<1> HIDE DEF w
<1>6. DraftOK'
  BY <1>1, <1>3, <1>4, <1>5 DEF DraftOK, S!Subject
<1> QED
  BY <1>1, <1>4, <1>6, BecomesInv DEF w

\* A preparation that goes on as it is.
LEMMA GoesOnInv ==
  ASSUME SporeInv, NEW step \in {"build", "review", "signed"}, draft # None,
         draft.at \in IF step = "build" THEN {"own"} ELSE {"inputs", "review", "signed"},
         S!Becomes([draft EXCEPT !.at = step])
  PROVE  SporeInv'
<1> DEFINE w == [draft EXCEPT !.at = step]
<1>1. draft \in S!Work
  BY SporeTypes
<1>2. /\ w \in S!Work /\ w.at = step /\ w.before = draft.before /\ w.request = draft.request
      /\ w.tx = draft.tx
  BY <1>1 DEF S!Work
<1>3. draft' = w /\ assetCells' = assetCells
  BY DEF S!Becomes, S!chain
<1> HIDE DEF w
<1>4. DraftOK'
  BY <1>2, <1>3 DEF SporeInv, DraftOK, TxOK, SameAsset
<1> QED
  BY <1>2, <1>4, BecomesInv DEF w

LEMMA ownedCellInv == ASSUME SporeInv, S!ownedCell PROVE SporeInv'
<1>1. draft # None /\ draft.at = "own" /\ S!Becomes([draft EXCEPT !.at = "build"])
  BY DEF S!ownedCell, S!At
<1> QED
  BY <1>1, GoesOnInv

LEMMA preparedInv == ASSUME SporeInv, S!prepared PROVE SporeInv'
<1>1. draft # None /\ draft.at = "inputs" /\ S!Becomes([draft EXCEPT !.at = "review"])
  BY DEF S!prepared, S!At
<1> QED
  BY <1>1, GoesOnInv

LEMMA signPreparedInv == ASSUME SporeInv, S!signPrepared PROVE SporeInv'
<1>1. draft # None /\ draft.at = "review" /\ S!Becomes([draft EXCEPT !.at = "signed"])
  BY DEF S!signPrepared, S!At
<1> QED
  BY <1>1, GoesOnInv

LEMMA FailsInv == ASSUME SporeInv, S!Fails PROVE SporeInv'
<1>1. CASE S!At("signed")
  <2>1. draft # None /\ draft.at = "signed" /\ S!Becomes([draft EXCEPT !.at = "review"])
    BY <1>1 DEF S!Fails, S!At
  <2> QED
    BY <2>1, GoesOnInv
<1>2. CASE ~S!At("signed")
  <2>1. S!Becomes(None) /\ draft' = None
    BY <1>2 DEF S!Fails, S!Becomes
  <2>2. DraftOK'
    BY <2>1 DEF DraftOK
  <2> QED
    BY <2>1, <2>2, BecomesInv
<1> QED
  BY <1>1, <1>2

LEMMA closeReviewInv == ASSUME SporeInv, S!closeReview PROVE SporeInv'
<1>1. /\ draft' = None /\ hash' = 0 /\ ~following
      /\ UNCHANGED <<assetCells, liveAssets, indexed, broadcast, following, verifying, evidence>>
  BY DEF S!closeReview, S!chain
<1>2. DraftOK'
  BY <1>1 DEF DraftOK
<1>3. following \in BOOLEAN
  BY DEF SporeInv, S!TypeOK
<1> QED
  BY <1>1, <1>2, <1>3, StudioInv, SporeTypes

\* The library makes an asset of a new id, or takes the one that the studio found: if that
\* can be melted, so can every cell of its id.
LEMMA libraryInv == ASSUME SporeInv, S!library PROVE SporeInv'
<1> DEFINE r == draft.request
<1> DEFINE New(x) == [kind |-> IF S!isCluster(r.operation) THEN "cluster" ELSE "spore",
                      id |-> x, lock |-> r.to, content |-> r.content,
                      cluster |-> r.clusterId, by |-> 0]
<1> DEFINE Kept(c, w) == [assetCells[c] EXCEPT !.lock = w, !.by = 0]
<1> DEFINE Made(x, ins, outs) == [operation |-> r.operation, id |-> x, to |-> r.to,
                                  inputs |-> ins, outputs |-> outs]
<1>1. draft \in S!Work /\ draft # None /\ draft.at = "build"
  BY SporeTypes DEF S!library, S!At
<1>2. /\ r.operation \in S!Operation /\ r.id \in 0 .. MaxIds /\ r.clusterId \in 0 .. MaxIds
      /\ r.content \in Contents \cup {None} /\ r.to \in Artists
  BY <1>1 DEF S!Work, S!Request
<1>3. 0 \in 0 .. MaxSpores
  BY WalletPagesAssumption
<1>4. ASSUME NEW x \in 1 .. MaxIds
      PROVE  New(x) \in S!Cell /\ New(x).id = x
  BY <1>2, <1>3 DEF S!Cell
<1>5. ASSUME NEW c \in DOMAIN assetCells, NEW w \in Artists
      PROVE  Kept(c, w) \in S!Cell /\ SameAsset(c, Kept(c, w))
  <2>1. assetCells[c] \in S!Cell
    BY SporeTypes
  <2> QED
    BY <1>3, <2>1 DEF S!Cell, SameAsset
<1>6. ASSUME NEW c \in DOMAIN assetCells
      PROVE  /\ c \in 1 .. MaxAssetCells /\ assetCells[c].id \in 1 .. MaxIds
             /\ assetCells[c].lock \in Artists
  <2>1. assetCells[c] \in S!Cell
    BY SporeTypes
  <2>2. c \in 1 .. MaxAssetCells
    BY SporeTypes, WalletPagesAssumption
  <2> QED
    BY <2>1, <2>2 DEF S!Cell
<1>7. ASSUME NEW x \in 1 .. MaxIds, NEW ins \in SUBSET (1 .. MaxAssetCells),
             NEW outs \in Seq(S!Cell)
      PROVE  /\ Made(x, ins, outs) \in S!Tx /\ Made(x, ins, outs).operation = r.operation
             /\ Made(x, ins, outs).id = x /\ Made(x, ins, outs).inputs = ins
             /\ Made(x, ins, outs).outputs = outs
  BY <1>2 DEF S!Tx
<1>8. S!Found(r.id) \subseteq DOMAIN assetCells /\ S!Found(r.clusterId) \subseteq DOMAIN assetCells
  BY SporeTypes DEF S!Found
<1>9. PICK t :
        /\ S!Becomes([draft EXCEPT !.at = "inputs", !.tx = t])
        /\ \/ \E x \in 1 .. MaxIds :
                 /\ r.operation \in Creates
                 /\ \A c \in DOMAIN assetCells : assetCells[c].id # x
                 /\ \/ t = Made(x, {}, <<New(x)>>)
                    \/ \E c \in S!Found(r.clusterId) :
                         t = Made(x, {c}, <<New(x), Kept(c, assetCells[c].lock)>>)
           \/ \E c \in S!Found(r.id) :
                 /\ r.operation \notin Creates
                 /\ t = Made(r.id, {c}, IF r.operation = "melt" THEN <<>> ELSE <<Kept(c, r.to)>>)
  BY ZenonT(40) DEF S!library, Creates
<1> HIDE DEF New, Kept, Made
<1>10. t \in S!Tx /\ TxOK(t)
  <2>1. ASSUME NEW x \in 1 .. MaxIds, r.operation \in Creates, t = Made(x, {}, <<New(x)>>)
        PROVE  t \in S!Tx /\ TxOK(t)
    <3> DEFINE outs == <<New(x)>>
    <3>1. outs \in Seq(S!Cell) /\ DOMAIN outs = {1} /\ outs[1] = New(x)
      BY <1>4
    <3> HIDE DEF outs
    <3>2. /\ t \in S!Tx /\ t.operation = r.operation /\ t.id = x /\ t.inputs = {}
          /\ t.outputs = outs
      <4>1. {} \in SUBSET (1 .. MaxAssetCells) /\ t = Made(x, {}, outs)
        BY <2>1 DEF outs
      <4> QED
        BY <3>1, <4>1, <1>7
    <3> QED
      BY <2>1, <3>1, <3>2, <1>4 DEF TxOK, Creates
  <2>2. ASSUME NEW x \in 1 .. MaxIds, r.operation \in Creates,
               \A c \in DOMAIN assetCells : assetCells[c].id # x, NEW c \in DOMAIN assetCells,
               t = Made(x, {c}, <<New(x), Kept(c, assetCells[c].lock)>>)
        PROVE  t \in S!Tx /\ TxOK(t)
    <3> DEFINE kept == Kept(c, assetCells[c].lock)
    <3> DEFINE outs == <<New(x), kept>>
    <3>1. kept \in S!Cell /\ SameAsset(c, kept) /\ kept.id # x
      BY <2>2, <1>5, <1>6 DEF SameAsset
    <3>2. /\ outs \in Seq(S!Cell) /\ DOMAIN outs = {1, 2} /\ outs[1] = New(x)
          /\ outs[2] = kept
      BY <3>1, <1>4
    <3> HIDE DEF outs
    <3>3. /\ t \in S!Tx /\ t.operation = r.operation /\ t.id = x /\ t.inputs = {c}
          /\ t.outputs = outs
      <4>1. {c} \in SUBSET (1 .. MaxAssetCells) /\ t = Made(x, {c}, outs)
        BY <2>2, <1>6 DEF outs
      <4> QED
        BY <3>2, <4>1, <1>7
    <3> HIDE DEF kept
    <3>4. \A i, j \in DOMAIN t.outputs : t.outputs[i].id = t.outputs[j].id => i = j
      BY <3>1, <3>2, <3>3, <1>4
    <3>5. \A i \in DOMAIN t.outputs :
            \/ \E d \in t.inputs : SameAsset(d, t.outputs[i])
            \/ t.operation \in Creates /\ t.outputs[i].id = t.id
      <4>1. t.operation \in Creates /\ t.outputs[1].id = t.id
        BY <2>2, <3>2, <3>3, <1>4
      <4>2. c \in t.inputs /\ SameAsset(c, t.outputs[2])
        BY <3>1, <3>2, <3>3
      <4>3. DOMAIN t.outputs = {1, 2}
        BY <3>2, <3>3
      <4> QED
        BY <4>1, <4>2, <4>3
    <3>6. \A d \in t.inputs : \E i \in DOMAIN t.outputs : SameAsset(d, t.outputs[i])
      BY <3>1, <3>2, <3>3
    <3>7. t.operation # "melt"
      BY <2>2, <3>3 DEF Creates
    <3> QED
      BY <3>3, <3>4, <3>5, <3>6, <3>7 DEF TxOK
  <2>3. ASSUME NEW c \in DOMAIN assetCells, assetCells[c].id = r.id, r.operation # "melt",
               t = Made(r.id, {c}, <<Kept(c, r.to)>>)
        PROVE  t \in S!Tx /\ TxOK(t)
    <3> DEFINE kept == Kept(c, r.to)
    <3> DEFINE outs == <<kept>>
    <3>1. kept \in S!Cell /\ SameAsset(c, kept)
      BY <1>2, <1>5
    <3>2. outs \in Seq(S!Cell) /\ DOMAIN outs = {1} /\ outs[1] = kept
      BY <3>1
    <3>3. /\ t \in S!Tx /\ t.operation = r.operation /\ t.inputs = {c} /\ t.outputs = outs
      <4> HIDE DEF outs
      <4>1. {c} \in SUBSET (1 .. MaxAssetCells) /\ t = Made(r.id, {c}, outs)
            /\ r.id \in 1 .. MaxIds
        BY <2>3, <1>6 DEF outs
      <4> QED
        BY <3>2, <4>1, <1>7
    <3> HIDE DEF kept, outs
    <3> QED
      BY <2>3, <3>1, <3>2, <3>3 DEF TxOK
  <2>4. ASSUME NEW c \in DOMAIN assetCells, assetCells[c].id = r.id, r.operation = "melt",
               t = Made(r.id, {c}, <<>>)
        PROVE  t \in S!Tx /\ TxOK(t)
    <3> DEFINE outs == <<>>
    <3>1. outs \in Seq(S!Cell) /\ DOMAIN outs = {}
      OBVIOUS
    <3> HIDE DEF outs
    <3>2. /\ t \in S!Tx /\ t.operation = r.operation /\ t.id = r.id /\ t.inputs = {c}
          /\ t.outputs = outs
      <4>1. PICK x \in 1 .. MaxIds, ins \in SUBSET (1 .. MaxAssetCells) :
               x = r.id /\ ins = {c} /\ t = Made(x, ins, outs)
        BY <2>4, <1>6 DEF outs
      <4>2. /\ t \in S!Tx /\ t.operation = r.operation /\ t.id = x /\ t.inputs = ins
            /\ t.outputs = outs
        <5>1. outs \in Seq(S!Cell)
          BY <3>1
        <5> QED
          BY <4>1, <5>1, <1>7
      <4> QED
        BY <4>1, <4>2
    <3>3. assetCells[c].content # "immortal"
      <4>1. /\ draft.before \in DOMAIN assetCells /\ assetCells[draft.before].id = r.id
            /\ assetCells[draft.before].content # "immortal"
        BY <2>4, <1>1 DEF SporeInv, DraftOK
      <4> QED
        BY <2>4, <4>1 DEF SporeInv, AssetsOK
    <3>4. t.outputs = <<>> /\ \E d \in t.inputs : assetCells[d].id = t.id
      BY <2>4, <3>2 DEF outs
    <3>5. t.inputs \subseteq DOMAIN assetCells
          /\ \A d \in t.inputs : assetCells[d].content # "immortal"
      BY <2>4, <3>2, <3>3
    <3>6. DOMAIN t.outputs = {}
      BY <3>1, <3>2
    <3> QED
      BY <3>2, <3>4, <3>5, <3>6 DEF TxOK
  <2> QED
    BY <2>1, <2>2, <2>3, <2>4, <1>8, <1>9 DEF S!Found
<1> DEFINE w == [draft EXCEPT !.at = "inputs", !.tx = t]
<1>11. w \in S!Work /\ w.at = "inputs" /\ w.tx = t
  BY <1>1, <1>10 DEF S!Work
<1>12. draft' = w /\ assetCells' = assetCells /\ S!Becomes(w)
  BY <1>9 DEF S!Becomes, S!chain
<1> HIDE DEF w
<1>13. DraftOK'
  BY <1>10, <1>11, <1>12 DEF DraftOK, TxOK, SameAsset
<1> QED
  BY <1>11, <1>12, <1>13, BecomesInv, ZenonT(30)

\* The node takes a transaction: its id is nobody else's in the pool.
LEMMA sendTransactionInv == ASSUME SporeInv, S!sendTransaction PROVE SporeInv'
<1> DEFINE q == [tx |-> draft.tx, status |-> "pool"]
<1> DEFINE w == [draft EXCEPT !.at = "review"]
<1>0. PICK n, t : n = Len(broadcast) + 1 /\ t = draft.tx
  OBVIOUS
<1>1. /\ draft # None /\ draft.at = "signed" /\ Len(broadcast) < MaxSpores
      /\ S!Accepts(draft.tx) /\ broadcast' = Append(broadcast, q) /\ draft' = w
      /\ \/ hash' = Len(broadcast') /\ following' = TRUE
         \/ UNCHANGED <<hash, following>>
      /\ UNCHANGED <<assetCells, liveAssets, indexed, verifying, evidence>>
  BY DEF S!sendTransaction, S!At
<1>2. /\ broadcast \in Seq(Sent) /\ Len(broadcast) \in Nat /\ draft \in S!Work
      /\ DOMAIN broadcast = 1 .. Len(broadcast)
  BY <1>1, SporeTypes
<1>3. draft.tx \in S!Tx /\ TxOK(draft.tx)
  BY <1>1 DEF SporeInv, DraftOK
<1>4. q \in Sent /\ q.tx = draft.tx /\ q.status = "pool"
  BY <1>3 DEF Sent
<1>5. w \in S!Work /\ w.at = "review" /\ w.tx = draft.tx
  BY <1>2 DEF S!Work
<1> HIDE DEF q, w
<1>6. /\ broadcast' \in Seq(Sent) /\ Len(broadcast') = n /\ n <= MaxSpores
      /\ DOMAIN broadcast' = DOMAIN broadcast \cup {n} /\ n \notin DOMAIN broadcast
      /\ broadcast'[n] = q
      /\ \A k \in DOMAIN broadcast : broadcast'[k] = broadcast[k]
  BY <1>0, <1>1, <1>2, <1>4, WalletPagesAssumption
<1>7. ChainGrows
  BY <1>1, <1>6 DEF ChainGrows
<1>8. hash' \in 0 .. Len(broadcast') /\ following' \in BOOLEAN /\ (following' => hash' # 0)
  <2>1. hash \in 0 .. Len(broadcast) /\ following \in BOOLEAN /\ (following => hash # 0)
    BY DEF SporeInv, S!TypeOK
  <2>2. CASE hash' = Len(broadcast') /\ following' = TRUE
    BY <2>2, <1>0, <1>2, <1>6
  <2>3. CASE UNCHANGED <<hash, following>>
    BY <2>1, <2>3, <1>0, <1>2, <1>6
  <2> QED
    BY <2>2, <2>3, <1>1
<1>9. S!TypeOK'
  BY <1>1, <1>5, <1>6, <1>8 DEF SporeInv, S!TypeOK, Sent
<1>10. DraftOK'
  BY <1>1, <1>3, <1>5, <1>7, Persists DEF DraftOK
<1>11. \A k \in DOMAIN broadcast : broadcast[k].status = "pool" => broadcast[k].tx.id # draft.tx.id
  BY <1>1 DEF S!Accepts
<1>12. PoolOK'
  BY <1>4, <1>6, <1>11 DEF SporeInv, PoolOK
<1>13. ASSUME NEW k \in DOMAIN broadcast PROVE BroadcastOK(k)'
  <2>1. TxOK(broadcast[k].tx)' /\ broadcast'[k] = broadcast[k]
    BY <1>6, <1>7, Persists DEF SporeInv, BroadcastOK
  <2> QED
    BY <1>1, <2>1 DEF SporeInv, BroadcastOK
<1>14. BroadcastOK(n)'
  <2>1. TxOK(t)' /\ broadcast'[n].tx = t /\ broadcast'[n].status = "pool"
    BY <1>0, <1>3, <1>4, <1>6, <1>7, Persists
  <2>2. t.operation \in Creates => \A c \in DOMAIN assetCells' : assetCells'[c].id # t.id
    BY <1>0, <1>1 DEF S!Accepts, Creates
  <2> QED
    BY <2>1, <2>2 DEF BroadcastOK
<1>15. AssetsOK' /\ \A c \in DOMAIN assetCells' : MadeOK(c)'
  BY <1>1, <1>7, Persists DEF SporeInv, AssetsOK
<1> QED
  BY <1>1, <1>6, <1>7, <1>8, <1>9, <1>10, <1>12, <1>13, <1>14, <1>15, Persists DEF SporeInv

\* A verification begins.
LEMMA BeginsInv ==
  ASSUME SporeInv, NEW k \in Ops, NEW own \in BOOLEAN, S!Begins(k, own), hash # 0
  PROVE  SporeInv'
<1> DEFINE q == [at |-> "node", own |-> own, hash |-> hash, found |-> 0]
<1>1. /\ verifying' = [verifying EXCEPT ![k] = q]
      /\ UNCHANGED <<assetCells, liveAssets, indexed, broadcast, draft, hash, following, evidence>>
  BY DEF S!Begins, S!chain
<1>2. hash \in DOMAIN broadcast /\ hash \in 1 .. MaxSpores /\ 0 \in 0 .. MaxAssetCells
  <2>1. hash \in 0 .. Len(broadcast)
    BY DEF SporeInv, S!TypeOK
  <2> QED
    BY <2>1, SporeTypes, WalletPagesAssumption
<1>3. q \in S!Check /\ q.at = "node" /\ q.hash = hash
  BY <1>2 DEF S!Check
<1> HIDE DEF q
<1>4. /\ verifying' \in [Ops -> S!Check \cup {None}] /\ verifying'[k] = q
      /\ \A j \in Ops \ {k} : verifying'[j] = verifying[j]
  BY <1>1, <1>3, SporeTypes
<1>5. ASSUME NEW j \in Ops PROVE VerifyingOK(j)'
  <2>1. CASE j = k
    BY <2>1, <1>1, <1>2, <1>3, <1>4 DEF VerifyingOK
  <2>2. CASE j # k
    BY <2>2, <1>1, <1>4 DEF SporeInv, VerifyingOK
  <2> QED
    BY <2>1, <2>2
<1> QED
  BY <1>1, <1>4, <1>5, StudioInv, SporeTypes

\* A verification goes on, or ends.
LEMMA VerifyingGoesInv ==
  ASSUME SporeInv, NEW k \in Ops, NEW q \in S!Check \cup {None}, S!Goes(k, q), VerifyingOK(k)',
         \/ evidence' = evidence
         \/ evidence' \in [hash : 1 .. MaxSpores, out : 0 .. MaxAssetCells] \cup {None}
              /\ EvidenceOK'
  PROVE  SporeInv'
<1>1. /\ verifying' = [verifying EXCEPT ![k] = q]
      /\ following' = (following /\ (q = None => ~verifying[k].own))
      /\ UNCHANGED <<assetCells, liveAssets, indexed, broadcast, draft, hash>>
  BY DEF S!Goes, S!chain
<1>2. /\ verifying' \in [Ops -> S!Check \cup {None}]
      /\ \A j \in Ops \ {k} : verifying'[j] = verifying[j]
  BY <1>1, SporeTypes
<1>3. ASSUME NEW j \in Ops PROVE VerifyingOK(j)'
  BY <1>1, <1>2 DEF SporeInv, VerifyingOK
<1>4. hash' \in 0 .. Len(broadcast) /\ following' \in BOOLEAN /\ (following' => hash' # 0)
  BY <1>1 DEF SporeInv, S!TypeOK
<1> QED
  BY <1>1, <1>2, <1>3, <1>4, StudioInv, SporeTypes

\* The node says that the transaction was committed; then the indexer has its cell.
LEMMA CheckStepsInv ==
  ASSUME SporeInv, NEW k \in Ops,
         S!NodeCommitted(k) \/ S!Indexed(k) \/ S!CheckFails(k)
  PROVE  SporeInv'
<1> DEFINE v == verifying[k]
<1> DEFINE h == v.hash
<1>1. verifying \in [Ops -> S!Check \cup {None}] /\ v # None /\ v \in S!Check
      /\ h \in DOMAIN broadcast
  BY SporeTypes
  DEF SporeInv, VerifyingOK, S!NodeCommitted, S!Indexed, S!CheckFails, S!Stands
<1>2. CASE S!CheckFails(k)
  <2>1. S!Goes(k, None) /\ verifying'[k] = None /\ evidence' = evidence
    BY <1>1, <1>2 DEF S!CheckFails, S!Goes
  <2>2. VerifyingOK(k)'
    BY <2>1 DEF VerifyingOK
  <2> QED
    BY <2>1, <2>2, VerifyingGoesInv
<1>3. CASE S!NodeCommitted(k)
  <2> DEFINE q == [v EXCEPT !.at = "index"]
  <2>1. q \in S!Check /\ q.at = "index" /\ q.hash = h
    BY <1>1 DEF S!Check
  <2>2. S!Goes(k, q) /\ evidence' = evidence /\ broadcast[h].status = "committed"
    BY <1>3 DEF S!NodeCommitted
  <2>3. verifying'[k] = q /\ broadcast' = broadcast
    BY <1>1, <2>2 DEF S!Goes, S!chain
  <2> HIDE DEF q
  <2>4. VerifyingOK(k)'
    BY <1>1, <2>1, <2>2, <2>3 DEF VerifyingOK
  <2> QED
    BY <2>1, <2>2, <2>4, VerifyingGoesInv
<1>4. CASE S!Indexed(k)
  <2>1. PICK c \in S!Found(broadcast[h].tx.id) :
           /\ broadcast[h].tx.operation # "melt"
           /\ assetCells[c].by = h /\ assetCells[c].lock = broadcast[h].tx.to
           /\ S!Goes(k, [v EXCEPT !.at = "live", !.found = c])
    BY <1>4 DEF S!Indexed
  <2> DEFINE q == [v EXCEPT !.at = "live", !.found = c]
  <2>2. c \in DOMAIN assetCells /\ c \in 0 .. MaxAssetCells
        /\ assetCells[c].id = broadcast[h].tx.id
    BY SporeTypes, WalletPagesAssumption DEF S!Found
  <2>3. q \in S!Check /\ q.at = "live" /\ q.hash = h /\ q.found = c
    BY <1>1, <2>2, ZenonT(30) DEF S!Check
  <2>4. v.at = "index" /\ broadcast[h].status = "committed"
    BY <1>1, <1>4 DEF S!Indexed, S!Stands, SporeInv, VerifyingOK
  <2>5. verifying'[k] = q /\ UNCHANGED <<broadcast, assetCells>> /\ evidence' = evidence
    BY <1>1, <1>4, <2>1 DEF S!Indexed, S!Goes, S!chain
  <2> HIDE DEF q
  <2>6. VerifyingOK(k)'
    BY <1>1, <2>1, <2>2, <2>3, <2>4, <2>5 DEF VerifyingOK
  <2> QED
    BY <2>1, <2>3, <2>5, <2>6, VerifyingGoesInv, ZenonT(30) DEF q
<1> QED
  BY <1>2, <1>3, <1>4, ZenonT(30)

\* It is verified: the node has committed the transaction, and what it left was found.
LEMMA VerifiedInv ==
  ASSUME SporeInv, NEW k \in Ops, S!Melted(k) \/ S!StillLive(k)
  PROVE  SporeInv'
<1> DEFINE v == verifying[k]
<1> DEFINE h == v.hash
<1>1. verifying \in [Ops -> S!Check \cup {None}] /\ v # None /\ v \in S!Check
      /\ h \in DOMAIN broadcast /\ broadcast[h].status = "committed"
  BY SporeTypes DEF SporeInv, VerifyingOK, S!Melted, S!StillLive, S!Stands
<1>2. PICK c \in 0 .. MaxAssetCells :
         /\ S!Verified(k, c)
         /\ broadcast[h].tx.operation # "melt" =>
              /\ c \in DOMAIN assetCells /\ assetCells[c].by = h
              /\ assetCells[c].id = broadcast[h].tx.id
              /\ assetCells[c].lock = broadcast[h].tx.to
  <2>1. CASE S!Melted(k)
    <3>1. S!Verified(k, 0) /\ broadcast[h].tx.operation = "melt"
      BY <2>1 DEF S!Melted
    <3>2. 0 \in 0 .. MaxAssetCells
      BY WalletPagesAssumption
    <3> QED
      BY <3>1, <3>2
  <2>2. CASE S!StillLive(k)
    <3>1. S!Verified(k, v.found) /\ v.at = "live"
      BY <2>2 DEF S!StillLive, S!Stands
    <3>2. v.found \in 0 .. MaxAssetCells
      BY <1>1 DEF S!Check
    <3> QED
      BY <1>1, <3>1, <3>2 DEF SporeInv, VerifyingOK
  <2> QED
    BY <2>1, <2>2
<1> DEFINE e == [hash |-> h, out |-> c]
<1>3. /\ e \in [hash : 1 .. MaxSpores, out : 0 .. MaxAssetCells] /\ e.hash = h /\ e.out = c
  BY <1>1 DEF S!Check
<1>4. /\ S!Goes(k, None) /\ evidence' = e /\ verifying'[k] = None
      /\ UNCHANGED <<assetCells, broadcast>>
  BY <1>1, <1>2 DEF S!Verified, S!Goes, S!chain
<1> HIDE DEF e
<1>5. VerifyingOK(k)'
  BY <1>4 DEF VerifyingOK
<1>6. EvidenceOK'
  BY <1>1, <1>2, <1>3, <1>4 DEF EvidenceOK
<1> QED
  BY <1>3, <1>4, <1>5, <1>6, VerifyingGoesInv, ZenonT(30)

LEMMA FollowInv ==
  ASSUME SporeInv,
         S!observed \/ \E k \in Ops : S!committed(k) \/ S!recheck(k)
  PROVE  SporeInv'
<1>1. CASE S!observed
  <2>1. /\ ~following' /\ following' \in BOOLEAN
        /\ UNCHANGED <<assetCells, liveAssets, indexed, broadcast, draft, hash, verifying>>
        /\ UNCHANGED evidence
    BY <1>1 DEF S!observed, S!chain
  <2>2. hash' \in 0 .. Len(broadcast)
    BY <2>1 DEF SporeInv, S!TypeOK
  <2> QED
    BY <2>1, <2>2, StudioInv, SporeTypes
<1>2. ASSUME NEW k \in Ops, S!committed(k) PROVE SporeInv'
  <2>1. S!Begins(k, TRUE) /\ hash # 0
    BY <1>2 DEF S!committed, S!Observing, SporeInv
  <2> QED
    BY <2>1, BeginsInv
<1>3. ASSUME NEW k \in Ops, S!recheck(k) PROVE SporeInv'
  <2>1. S!Begins(k, FALSE) /\ hash # 0
    BY <1>3 DEF S!recheck
  <2> QED
    BY <2>1, BeginsInv
<1> QED
  BY <1>1, <1>2, <1>3

LEMMA SporeNextInv == SporeInv /\ [S!Next]_spores => SporeInv'
<1> SUFFICES ASSUME SporeInv, [S!Next]_spores PROVE SporeInv'
  OBVIOUS
<1>1. CASE UNCHANGED spores
  BY <1>1, StudioInv, SporeTypes DEF spores
<1>2. ASSUME NEW k \in Ops,
             \/ S!committed(k) \/ S!recheck(k) \/ S!NodeCommitted(k) \/ S!Melted(k)
             \/ S!Indexed(k) \/ S!StillLive(k) \/ S!CheckFails(k)
      PROVE  SporeInv'
  BY <1>2, CheckStepsInv, VerifiedInv, FollowInv
<1> QED
  BY <1>1, <1>2, CommitInv, RejectInv, ElsewhereInv, IndexInv, buildInv, findInv, ownedCellInv,
     libraryInv, preparedInv, signPreparedInv, sendTransactionInv, FailsInv, closeReviewInv,
     FollowInv
  DEF S!Next

LEMMA SporeInvEarned == SporeInv => S!EvidenceIsEarned
<1> SUFFICES ASSUME SporeInv PROVE S!EvidenceIsEarned
  OBVIOUS
<1> DEFINE h == evidence.hash
<1> DEFINE t == broadcast[h].tx
<1>1. ASSUME evidence # None, t.operation = "melt"
      PROVE  broadcast[h].status = "committed" /\ \A c \in liveAssets : assetCells[c].id # t.id
  <2>1. h \in DOMAIN broadcast /\ broadcast[h].status = "committed"
    BY <1>1, SMTT(30) DEF SporeInv, EvidenceOK
  <2> QED
    BY <1>1, <2>1 DEF SporeInv, BroadcastOK
<1>2. ASSUME evidence # None, t.operation # "melt"
      PROVE  /\ broadcast[h].status = "committed"
             /\ \E i \in DOMAIN t.outputs :
                  /\ t.outputs[i].id = t.id /\ t.outputs[i].lock = t.to
                  /\ assetCells[evidence.out] = [t.outputs[i] EXCEPT !.by = h]
  <2> DEFINE c == evidence.out
  <2>1. /\ h \in DOMAIN broadcast /\ broadcast[h].status = "committed"
        /\ c \in DOMAIN assetCells /\ assetCells[c].by = h
        /\ assetCells[c].id = t.id /\ assetCells[c].lock = t.to
    BY <1>2 DEF SporeInv, EvidenceOK
  <2>2. h # 0 /\ broadcast[h] \in Sent
    BY <2>1, SporeTypes
  <2>3. PICK i \in DOMAIN t.outputs : assetCells[c] = [t.outputs[i] EXCEPT !.by = h]
    BY <2>1, <2>2 DEF SporeInv, MadeOK
  <2>4. t.outputs[i] \in S!Cell
    BY <2>2 DEF Sent, S!Tx
  <2>5. t.outputs[i].id = t.id /\ t.outputs[i].lock = t.to
    BY <2>1, <2>3, <2>4 DEF S!Cell
  <2> QED
    BY <2>1, <2>3, <2>5
<1>3. \A c \in DOMAIN assetCells :
        assetCells[c].content = "immortal" => \E d \in liveAssets : assetCells[d].id = assetCells[c].id
  BY DEF SporeInv, AssetsOK
<1> QED
  BY <1>1, <1>2, <1>3 DEF S!EvidenceIsEarned

-----------------------------------------------------------------------------
(***************************************************************************)
(* The logs of the developer console.                                      *)
(***************************************************************************)

\* A log still has the beginning of what the source began, unless it is full and lost it.
Began(log, source) ==
  Len(log) = LOG_LIMIT \/ \E n \in DOMAIN log : log[n].source = source /\ ~log[n].end

LogOK(log, g) ==
  /\ Len(log) <= LOG_LIMIT
  /\ \A j \in DOMAIN log :
       /\ log[j].generation = g
       /\ log[j].end =>
            \/ Len(log) = LOG_LIMIT
            \/ \E n \in 1 .. j - 1 : log[n].source = log[j].source /\ ~log[n].end

DistinctKeys(b) == \A i, j \in DOMAIN b : b[i].key = b[j].key => i = j

\* A call that is under way finds its beginning in the log, if that is still the same one.
CallOK(o) ==
  pending[o] # None =>
    /\ pending[o].generation <= sequence
    /\ generations[pending[o].key] = pending[o].generation =>
         \A i \in DOMAIN buffers : buffers[i].key = pending[o].key => Began(buffers[i].log, o)

ConsoleInv ==
  /\ C!TypeOK
  /\ DistinctKeys(buffers) /\ Len(buffers) <= SCOPE_LIMIT
  /\ \A k \in Keys : k \in C!Buffered(buffers) <=> generations[k] # 0
  /\ \A k \in Keys : generations[k] <= sequence
  /\ \A i \in DOMAIN buffers : LogOK(buffers[i].log, generations[buffers[i].key])
  /\ \A o \in Calls : CallOK(o)

\* A key is taken out, and the others stay.
LEMMA WithoutFacts ==
  ASSUME NEW R, NEW b \in Seq(R), NEW key, DistinctKeys(b)
  PROVE  LET w == C!Without(b, key) IN
           /\ w \in Seq(R) /\ DistinctKeys(w)
           /\ \A i \in DOMAIN w : w[i].key # key /\ \E j \in DOMAIN b : w[i] = b[j]
           /\ \A j \in DOMAIN b : b[j].key # key => \E i \in DOMAIN w : w[i] = b[j]
<1> DEFINE w == C!Without(b, key)
<1>1. CASE key \notin C!Buffered(b)
  <2>1. w = b /\ \A i \in DOMAIN b : b[i].key # key
    BY <1>1 DEF C!Without, C!Buffered
  <2> QED
    BY <2>1
<1>2. CASE key \in C!Buffered(b)
  <2> DEFINE p == C!Position(b, key)
  <2>1. p \in DOMAIN b /\ b[p].key = key
    BY <1>2 DEF C!Buffered, C!Position
  <2>2. w = SubSeq(b, 1, p - 1) \o SubSeq(b, p + 1, Len(b))
    BY <1>2 DEF C!Without, C!RemoveAt
  <2> HIDE DEF p
  <2>3. PICK n \in Nat : n = Len(b) /\ DOMAIN b = 1 .. n
    OBVIOUS
  <2>4. p \in 1 .. n
    BY <2>1, <2>3
  <2> DEFINE u == SubSeq(b, 1, p - 1)
  <2> DEFINE v == SubSeq(b, p + 1, n)
  <2>5. u \in Seq(R) /\ Len(u) = p - 1 /\ \A i \in 1 .. p - 1 : u[i] = b[i]
    BY <2>3, <2>4
  <2>6. v \in Seq(R) /\ Len(v) = n - p /\ \A i \in 1 .. n - p : v[i] = b[i + p]
    <3>1. v \in Seq(R) /\ Len(v) = n - p
      BY <2>3, <2>4
    <3>2. ASSUME NEW i \in 1 .. n - p PROVE v[i] = b[i + p]
      <4>1. v[i] = b[p + 1 + i - 1]
        BY <2>3, <2>4
      <4>2. p + 1 + i - 1 = i + p
        BY <2>4
      <4> QED
        BY <4>1, <4>2
    <3> QED
      BY <3>1, <3>2
  <2> HIDE DEF u, v
  <2>7. w \in Seq(R) /\ DOMAIN w = 1 .. n - 1
        /\ \A i \in 1 .. n - 1 : w[i] = IF i < p THEN b[i] ELSE b[i + 1]
    <3>1. w = u \o v
      BY <2>2, <2>3 DEF u, v
    <3> HIDE DEF w
    <3>2. w \in Seq(R) /\ Len(w) = Len(u) + Len(v)
      <4>1. u \in Seq(R) /\ v \in Seq(R)
        BY <2>5, <2>6
      <4>2. u \o v \in Seq(R) /\ Len(u \o v) = Len(u) + Len(v)
        BY <4>1
      <4> QED
        BY <3>1, <4>2
    <3>3. \A i \in 1 .. Len(u) + Len(v) : w[i] = IF i <= Len(u) THEN u[i] ELSE v[i - Len(u)]
      BY <2>5, <2>6, <3>1
    <3>4. Len(u) + Len(v) = n - 1
      BY <2>3, <2>4, <2>5, <2>6
    <3>5. Len(w) = n - 1 /\ DOMAIN w = 1 .. n - 1
      BY <3>2, <3>4
    <3>6. ASSUME NEW i \in 1 .. n - 1 PROVE w[i] = IF i < p THEN b[i] ELSE b[i + 1]
      <4>1. w[i] = IF i <= p - 1 THEN u[i] ELSE v[i - (p - 1)]
        BY <2>5, <3>3, <3>4
      <4>2. CASE i < p
        <5>1. i <= p - 1 /\ i \in 1 .. p - 1
          BY <2>4, <4>2
        <5> QED
          BY <2>5, <4>1, <4>2, <5>1
      <4>3. CASE ~(i < p)
        <5>1. i - (p - 1) \in 1 .. n - p /\ i - (p - 1) + p = i + 1 /\ ~(i <= p - 1)
          BY <2>3, <2>4, <4>3
        <5> QED
          BY <2>6, <4>1, <4>3, <5>1
      <4> QED
        BY <4>2, <4>3
    <3> QED
      BY <3>2, <3>5, <3>6
  <2> HIDE DEF w
  <2>8. ASSUME NEW i \in 1 .. n - 1
        PROVE  \E j \in 1 .. n : w[i] = b[j] /\ j # p /\ j = IF i < p THEN i ELSE i + 1
    BY <2>3, <2>4, <2>7
  <2>9. DistinctKeys(w)
    <3> SUFFICES ASSUME NEW i \in 1 .. n - 1, NEW j \in 1 .. n - 1, w[i].key = w[j].key
                 PROVE  i = j
      BY <2>7 DEF DistinctKeys
    <3>1. PICK x \in 1 .. n : w[i] = b[x] /\ x = IF i < p THEN i ELSE i + 1
      BY <2>8
    <3>2. PICK y \in 1 .. n : w[j] = b[y] /\ y = IF j < p THEN j ELSE j + 1
      BY <2>8
    <3>3. x = y
      BY <2>3, <3>1, <3>2 DEF DistinctKeys
    <3> QED
      BY <2>3, <2>4, <3>1, <3>2, <3>3
  <2>10. \A i \in DOMAIN w : w[i].key # key /\ \E j \in DOMAIN b : w[i] = b[j]
    <3> SUFFICES ASSUME NEW i \in DOMAIN w
                 PROVE  \E j \in DOMAIN b : w[i] = b[j] /\ j # p
      BY <2>1 DEF DistinctKeys
    <3> QED
      BY <2>3, <2>7, <2>8
  <2>11. ASSUME NEW j \in DOMAIN b, b[j].key # key PROVE \E i \in DOMAIN w : w[i] = b[j]
    <3>1. j # p
      BY <2>1, <2>11
    <3>2. CASE j < p
      <4>1. j \in 1 .. n - 1
        BY <2>3, <2>4, <3>2
      <4> QED
        BY <2>7, <3>2, <4>1
    <3>3. CASE j > p
      <4>1. j - 1 \in 1 .. n - 1 /\ ~(j - 1 < p) /\ j - 1 + 1 = j
        BY <2>3, <2>4, <3>3
      <4> QED
        BY <2>7, <4>1
    <3> QED
      BY <2>3, <2>4, <3>1, <3>2, <3>3
  <2> QED
    BY <2>7, <2>9, <2>10, <2>11 DEF w
<1> QED
  BY <1>1, <1>2

\* The last of a sequence, as many as the limit lets stay.
LEMMA LastFacts ==
  ASSUME NEW R, NEW s \in Seq(R), NEW limit \in Nat \ {0}
  PROVE  LET m == IF Len(s) > limit THEN Len(s) - limit ELSE 0
             t == SubSeq(s, IF Len(s) > limit THEN Len(s) - limit + 1 ELSE 1, Len(s))
         IN /\ t \in Seq(R) /\ Len(t) = Len(s) - m /\ Len(t) <= limit
            /\ m \in Nat /\ \A i \in 1 .. Len(t) : i + m \in 1 .. Len(s) /\ t[i] = s[i + m]
<1> DEFINE m == IF Len(s) > limit THEN Len(s) - limit ELSE 0
<1>1. Len(s) \in Nat /\ m \in Nat /\ m <= Len(s) /\ Len(s) - m <= limit
      /\ m + 1 = IF Len(s) > limit THEN Len(s) - limit + 1 ELSE 1
  OBVIOUS
<1> DEFINE t == SubSeq(s, m + 1, Len(s))
<1> HIDE DEF m
<1>2. t \in Seq(R) /\ Len(t) = Len(s) - m /\ \A i \in 1 .. Len(t) : t[i] = s[i + m]
  BY <1>1
<1>3. \A i \in 1 .. Len(t) : i + m \in 1 .. Len(s)
  BY <1>1, <1>2
<1> QED
  BY <1>1, <1>2, <1>3 DEF m

\* A scope is written: it is the last one, and the others stay or are evicted.
LEMMA WriteFacts ==
  ASSUME ConsoleInv, NEW key \in Keys, NEW e \in C!Buffer, e.key = key,
         buffers' = C!trimScopes(Append(C!Without(buffers, key), e))
  PROVE  /\ buffers' \in Seq(C!Buffer) /\ DistinctKeys(buffers') /\ Len(buffers') <= SCOPE_LIMIT
         /\ \E i \in DOMAIN buffers' : buffers'[i] = e
         /\ \A i \in DOMAIN buffers' :
              \/ buffers'[i] = e
              \/ buffers'[i].key # key /\ \E j \in DOMAIN buffers : buffers'[i] = buffers[j]
         /\ C!Buffered(Append(C!Without(buffers, key), e)) = C!Buffered(buffers) \cup {key}
         /\ Append(C!Without(buffers, key), e)[Len(Append(C!Without(buffers, key), e))] = e
<1> DEFINE w == C!Without(buffers, key)
<1> DEFINE b == Append(w, e)
<1> DEFINE R == C!Buffer
<1> HIDE DEF R
<1>1. /\ w \in Seq(R) /\ DistinctKeys(w)
      /\ \A i \in DOMAIN w : w[i].key # key /\ \E j \in DOMAIN buffers : w[i] = buffers[j]
      /\ \A j \in DOMAIN buffers : buffers[j].key # key => \E i \in DOMAIN w : w[i] = buffers[j]
  <2>1. buffers \in Seq(R) /\ DistinctKeys(buffers)
    BY DEF ConsoleInv, C!TypeOK, R
  <2> QED
    BY <2>1, WithoutFacts
<1> HIDE DEF w
<1>2. e \in R
  BY DEF R
<1>3. /\ b \in Seq(R) /\ Len(b) = Len(w) + 1 /\ Len(w) \in Nat /\ DOMAIN w = 1 .. Len(w)
      /\ DOMAIN b = 1 .. Len(w) + 1 /\ b[Len(b)] = e /\ \A i \in DOMAIN w : b[i] = w[i]
  BY <1>1, <1>2
<1> HIDE DEF b
<1>4. DistinctKeys(b)
  BY <1>1, <1>3 DEF DistinctKeys
<1>5. PICK m \in Nat :
         /\ buffers' \in Seq(R) /\ Len(buffers') = Len(b) - m /\ Len(buffers') <= SCOPE_LIMIT
         /\ \A i \in 1 .. Len(buffers') : i + m \in 1 .. Len(b) /\ buffers'[i] = b[i + m]
         /\ Len(buffers') >= 1
  <2> DEFINE m == IF Len(b) > SCOPE_LIMIT THEN Len(b) - SCOPE_LIMIT ELSE 0
  <2>1. SCOPE_LIMIT \in Nat \ {0}
    BY WalletPagesAssumption
  <2>2. buffers' = SubSeq(b, IF Len(b) > SCOPE_LIMIT THEN Len(b) - SCOPE_LIMIT + 1 ELSE 1, Len(b))
    BY DEF C!trimScopes, b, w
  <2>3. /\ buffers' \in Seq(R) /\ Len(buffers') = Len(b) - m /\ Len(buffers') <= SCOPE_LIMIT
        /\ m \in Nat /\ \A i \in 1 .. Len(buffers') : i + m \in 1 .. Len(b) /\ buffers'[i] = b[i + m]
    BY <1>3, <2>1, <2>2, LastFacts, ZenonT(30)
  <2>4. Len(b) - m >= 1
    BY <1>3, <2>1
  <2> HIDE DEF m
  <2> QED
    BY <2>3, <2>4
<1>6. DOMAIN buffers' = 1 .. Len(buffers') /\ DOMAIN b = 1 .. Len(b) /\ Len(buffers') \in Nat
  BY <1>3, <1>5
<1>7. DistinctKeys(buffers')
  <2> SUFFICES ASSUME NEW i \in DOMAIN buffers', NEW j \in DOMAIN buffers',
                      buffers'[i].key = buffers'[j].key
               PROVE  i = j
    BY DEF DistinctKeys
  <2>1. i + m \in DOMAIN b /\ j + m \in DOMAIN b /\ b[i + m].key = b[j + m].key
    BY <1>5, <1>6
  <2>2. i + m = j + m
    BY <1>4, <2>1 DEF DistinctKeys
  <2> QED
    BY <1>6, <2>2
<1>8. \E i \in DOMAIN buffers' : buffers'[i] = e
  <2>1. Len(buffers') \in DOMAIN buffers' /\ Len(buffers') + m = Len(b)
    BY <1>3, <1>5, <1>6
  <2> QED
    BY <1>3, <1>5, <1>6, <2>1
<1>9. ASSUME NEW i \in DOMAIN b
      PROVE  b[i] = e \/ (b[i].key # key /\ \E j \in DOMAIN buffers : b[i] = buffers[j])
  <2>1. CASE i \in DOMAIN w
    BY <1>1, <1>3, <2>1
  <2>2. CASE i \notin DOMAIN w
    <3>1. i = Len(b)
      BY <1>3, <2>2
    <3> QED
      BY <1>3, <3>1
  <2> QED
    BY <2>1, <2>2
<1>10. \A i \in DOMAIN buffers' :
         \/ buffers'[i] = e
         \/ buffers'[i].key # key /\ \E j \in DOMAIN buffers : buffers'[i] = buffers[j]
  <2> SUFFICES ASSUME NEW i \in DOMAIN buffers'
               PROVE  \/ buffers'[i] = e
                      \/ /\ buffers'[i].key # key
                         /\ \E j \in DOMAIN buffers : buffers'[i] = buffers[j]
    OBVIOUS
  <2>1. i + m \in DOMAIN b /\ buffers'[i] = b[i + m]
    BY <1>5, <1>6
  <2> QED
    BY <1>9, <2>1
<1>11. C!Buffered(b) = C!Buffered(buffers) \cup {key}
  <2>1. ASSUME NEW i \in DOMAIN b PROVE b[i].key \in C!Buffered(buffers) \cup {key}
    BY <1>9 DEF C!Buffered
  <2>2. key \in C!Buffered(b)
    <3>1. Len(b) \in DOMAIN b
      BY <1>3
    <3> QED
      BY <1>3, <3>1 DEF C!Buffered
  <2>3. ASSUME NEW j \in DOMAIN buffers, buffers[j].key # key PROVE buffers[j].key \in C!Buffered(b)
    <3>1. PICK i \in DOMAIN w : w[i] = buffers[j]
      BY <1>1, <2>3
    <3>2. i \in DOMAIN b /\ b[i] = buffers[j]
      BY <1>3, <3>1
    <3> QED
      BY <3>2 DEF C!Buffered
  <2> QED
    BY <2>1, <2>2, <2>3 DEF C!Buffered
<1> QED
  BY <1>3, <1>5, <1>7, <1>8, <1>10, <1>11 DEF b, w, R

LEMMA SnapshotFacts ==
  ASSUME ConsoleInv, NEW key \in Keys
  PROVE  /\ C!snapshot(key) \in Seq(C!Entry)
         /\ key \notin C!Buffered(buffers) => C!snapshot(key) = <<>>
         /\ \A i \in DOMAIN buffers : buffers[i].key = key => C!snapshot(key) = buffers[i].log
<1>1. \A i \in DOMAIN buffers : buffers[i] \in C!Buffer
  BY DEF ConsoleInv, C!TypeOK
<1>2. \A i \in DOMAIN buffers : buffers[i].log \in Seq(C!Entry)
  BY <1>1 DEF C!Buffer
<1>3. CASE key \notin C!Buffered(buffers)
  <2>1. C!snapshot(key) = <<>> /\ <<>> \in Seq(C!Entry)
    BY <1>3 DEF C!snapshot
  <2> QED
    BY <1>3, <2>1 DEF C!Buffered
<1>4. CASE key \in C!Buffered(buffers)
  <2> DEFINE p == C!Position(buffers, key)
  <2>1. p \in DOMAIN buffers /\ buffers[p].key = key
    BY <1>4 DEF C!Buffered, C!Position
  <2>2. C!snapshot(key) = buffers[p].log
    BY <1>4 DEF C!snapshot
  <2> HIDE DEF p
  <2> QED
    BY <1>2, <1>4, <2>1, <2>2 DEF ConsoleInv, DistinctKeys
<1> QED
  BY <1>3, <1>4

\* Entries are added at the end: the beginnings that were there stay, or the log is full.
LEMMA KeptFacts ==
  ASSUME NEW g, NEW log \in Seq(C!Entry), LogOK(log, g), NEW more \in Seq(C!Entry),
         Len(more) >= 1,
         \A j \in DOMAIN more :
           /\ more[j].generation = g
           /\ more[j].end =>
                \/ Began(log, more[j].source)
                \/ \E n \in 1 .. j - 1 : more[n].source = more[j].source /\ ~more[n].end
  PROVE  LET s == log \o more
             kept == SubSeq(s, IF Len(s) > LOG_LIMIT THEN Len(s) - LOG_LIMIT + 1 ELSE 1, Len(s))
         IN /\ kept \in Seq(C!Entry) /\ LogOK(kept, g)
            /\ \A x : Began(log, x) => Began(kept, x)
            /\ \A j \in DOMAIN more : ~more[j].end => Began(kept, more[j].source)
<1> DEFINE E == C!Entry
<1> DEFINE s == log \o more
<1> DEFINE kept == SubSeq(s, IF Len(s) > LOG_LIMIT THEN Len(s) - LOG_LIMIT + 1 ELSE 1, Len(s))
<1> DEFINE m == IF Len(s) > LOG_LIMIT THEN Len(s) - LOG_LIMIT ELSE 0
<1> HIDE DEF E
<1>1. log \in Seq(E) /\ more \in Seq(E) /\ LOG_LIMIT \in Nat \ {0}
  BY WalletPagesAssumption DEF E
<1>2. PICK a \in Nat, c \in Nat :
         /\ a = Len(log) /\ c = Len(more) /\ DOMAIN log = 1 .. a /\ DOMAIN more = 1 .. c /\ c >= 1
  BY <1>1
<1>3. s \in Seq(E) /\ Len(s) = a + c
  BY <1>1, <1>2
<1>4. /\ \A i \in 1 .. a : s[i] = log[i]
      /\ \A j \in 1 .. c : s[a + j] = more[j]
  BY <1>1, <1>2
<1> HIDE DEF s
<1>5. /\ kept \in Seq(E) /\ Len(kept) = Len(s) - m /\ Len(kept) <= LOG_LIMIT
      /\ m \in Nat /\ \A i \in 1 .. Len(kept) : i + m \in 1 .. Len(s) /\ kept[i] = s[i + m]
  BY <1>1, <1>3, LastFacts
<1> HIDE DEF kept
<1>6. ASSUME NEW i \in 1 .. a + c
      PROVE  \/ i \in 1 .. a /\ s[i] = log[i]
             \/ \E j \in 1 .. c : i = a + j /\ s[i] = more[j]
  <2>1. CASE i <= a
    BY <1>2, <1>4, <2>1
  <2>2. CASE ~(i <= a)
    <3>1. i - a \in 1 .. c /\ i = a + (i - a)
      BY <1>2, <2>2
    <3> QED
      BY <1>4, <3>1
  <2> QED
    BY <2>1, <2>2
<1>7. \A i \in 1 .. a + c : s[i].generation = g
  <2>1. (\A i \in 1 .. a : log[i].generation = g) /\ \A j \in 1 .. c : more[j].generation = g
    BY <1>2 DEF LogOK
  <2> QED
    BY <1>6, <2>1
<1>8. DOMAIN kept = 1 .. Len(kept)
  BY <1>5
<1>9. CASE a + c > LOG_LIMIT
  <2>1. Len(kept) = LOG_LIMIT
    BY <1>1, <1>2, <1>3, <1>5, <1>9
  <2>2. \A i \in DOMAIN kept : kept[i].generation = g
    BY <1>3, <1>5, <1>7, <1>8
  <2>3. LogOK(kept, g)
    BY <2>1, <2>2, <1>5 DEF LogOK
  <2> QED
    BY <2>1, <2>3, <1>5 DEF Began, kept, s, E
<1>10. CASE ~(a + c > LOG_LIMIT)
  <2>1. /\ m = 0 /\ Len(kept) = a + c /\ a < LOG_LIMIT /\ DOMAIN kept = 1 .. a + c
        /\ \A i \in 1 .. a + c : kept[i] = s[i]
    BY <1>1, <1>2, <1>3, <1>5, <1>8, <1>10
  <2>2. ASSUME NEW x, Began(log, x)
        PROVE  \E n \in 1 .. a : kept[n].source = x /\ ~kept[n].end
    <3>1. PICK n \in 1 .. a : log[n].source = x /\ ~log[n].end
      BY <1>2, <2>1, <2>2 DEF Began
    <3>2. n \in 1 .. a + c /\ kept[n] = log[n]
      BY <1>2, <1>4, <2>1
    <3> QED
      BY <3>1, <3>2
  <2>3. ASSUME NEW i \in 1 .. a + c, kept[i].end
        PROVE  \E n \in 1 .. i - 1 : kept[n].source = kept[i].source /\ ~kept[n].end
    <3>1. CASE i \in 1 .. a /\ s[i] = log[i]
      <4>1. PICK n \in 1 .. i - 1 : log[n].source = log[i].source /\ ~log[n].end
        BY <1>2, <2>1, <2>3, <3>1 DEF LogOK
      <4>2. n \in 1 .. a /\ n \in 1 .. a + c
        BY <1>2, <3>1
      <4> QED
        BY <1>4, <2>1, <3>1, <4>1, <4>2
    <3>2. ASSUME NEW j \in 1 .. c, i = a + j, s[i] = more[j]
          PROVE  \E n \in 1 .. i - 1 : kept[n].source = kept[i].source /\ ~kept[n].end
      <4>1. CASE Began(log, more[j].source)
        <5>1. PICK n \in 1 .. a : kept[n].source = more[j].source /\ ~kept[n].end
          BY <2>2, <4>1
        <5>2. n \in 1 .. i - 1
          BY <1>2, <3>2
        <5> QED
          BY <2>1, <3>2, <5>1, <5>2
      <4>2. CASE \E n \in 1 .. j - 1 : more[n].source = more[j].source /\ ~more[n].end
        <5>1. PICK n \in 1 .. j - 1 : more[n].source = more[j].source /\ ~more[n].end
          BY <4>2
        <5>2. n \in 1 .. c /\ a + n \in 1 .. i - 1 /\ a + n \in 1 .. a + c
          BY <1>2, <3>2
        <5>3. kept[a + n] = more[n] /\ kept[i] = more[j]
          BY <1>4, <2>1, <3>2, <5>2
        <5> QED
          BY <5>1, <5>2, <5>3
      <4>3. more[j].end
        BY <2>1, <2>3, <3>2
      <4> QED
        BY <1>2, <4>1, <4>2, <4>3
    <3> QED
      BY <1>6, <3>1, <3>2
  <2>4. \A i \in 1 .. a + c : kept[i].generation = g
    BY <1>7, <2>1
  <2>5. LogOK(kept, g)
    BY <2>1, <2>3, <2>4, <1>5 DEF LogOK
  <2>6. ASSUME NEW x, Began(log, x) PROVE Began(kept, x)
    <3>1. PICK n \in 1 .. a : kept[n].source = x /\ ~kept[n].end
      BY <2>2, <2>6
    <3>2. n \in 1 .. a + c
      BY <1>2
    <3> QED
      BY <2>1, <3>1, <3>2 DEF Began
  <2>7. ASSUME NEW j \in DOMAIN more, ~more[j].end PROVE Began(kept, more[j].source)
    <3>1. j \in 1 .. c /\ a + j \in 1 .. a + c
      BY <1>2
    <3>2. kept[a + j] = more[j]
      BY <1>4, <2>1, <3>1
    <3> QED
      BY <2>1, <2>7, <3>1, <3>2 DEF Began
  <2> QED
    BY <2>5, <2>6, <2>7, <1>5 DEF kept, s, E
<1> QED
  BY <1>2, <1>9, <1>10

\* Entries of one generation are written to the log of a scope, which is of that generation,
\* or new.
LEMMA PublishInv ==
  ASSUME ConsoleInv, NEW key \in Keys, NEW g \in 1 .. MaxLogs, NEW more \in Seq(C!Entry),
         Len(more) >= 1, C!publish(key, more), sequence' \in 0 .. MaxLogs,
         sequence <= sequence',
         IF generations[key] = 0 THEN sequence' = sequence + 1 /\ g = sequence'
         ELSE g = generations[key],
         \A j \in DOMAIN more :
           /\ more[j].generation = g
           /\ more[j].end =>
                \/ Began(C!snapshot(key), more[j].source)
                \/ \E n \in 1 .. j - 1 : more[n].source = more[j].source /\ ~more[n].end
  PROVE  /\ buffers' \in Seq(C!Buffer) /\ DistinctKeys(buffers') /\ Len(buffers') <= SCOPE_LIMIT
         /\ generations' \in [Keys -> 0 .. MaxLogs] /\ generations'[key] = g
         /\ \A k \in Keys : k \in C!Buffered(buffers') <=> generations'[k] # 0
         /\ \A k \in Keys : generations'[k] <= sequence'
         /\ \A i \in DOMAIN buffers' : LogOK(buffers'[i].log, generations'[buffers'[i].key])
         /\ \A i \in DOMAIN buffers' : buffers'[i].key = key =>
              \A j \in DOMAIN more : ~more[j].end => Began(buffers'[i].log, more[j].source)
         /\ \A o \in Calls : pending[o] # None =>
              /\ pending[o].generation <= sequence'
              /\ generations'[pending[o].key] = pending[o].generation =>
                   \A i \in DOMAIN buffers' :
                     buffers'[i].key = pending[o].key => Began(buffers'[i].log, o)
<1> DEFINE log == C!snapshot(key)
<1> DEFINE s == log \o more
<1> DEFINE kept == SubSeq(s, IF Len(s) > LOG_LIMIT THEN Len(s) - LOG_LIMIT + 1 ELSE 1, Len(s))
<1> DEFINE e == [key |-> key, log |-> kept]
<1> DEFINE b == Append(C!Without(buffers, key), e)
<1>1. /\ C!TypeOK /\ generations \in [Keys -> 0 .. MaxLogs] /\ sequence \in Nat
      /\ buffers \in Seq(C!Buffer) /\ pending \in [Calls -> C!Begun \cup {None}]
  BY DEF ConsoleInv, C!TypeOK
<1>2. /\ log \in Seq(C!Entry) /\ (key \notin C!Buffered(buffers) => log = <<>>)
      /\ \A i \in DOMAIN buffers : buffers[i].key = key => log = buffers[i].log
  BY SnapshotFacts
<1>3. LogOK(log, g)
  <2>1. CASE key \in C!Buffered(buffers)
    <3>1. PICK i \in DOMAIN buffers : buffers[i].key = key
      BY <2>1 DEF C!Buffered
    <3>2. generations[key] # 0 /\ log = buffers[i].log
      BY <1>2, <2>1, <3>1 DEF ConsoleInv
    <3> QED
      BY <3>1, <3>2 DEF ConsoleInv
  <2>2. CASE key \notin C!Buffered(buffers)
    <3>1. log = <<>> /\ Len(<<>>) = 0 /\ DOMAIN <<>> = {}
      BY <1>2, <2>2
    <3>2. 0 <= LOG_LIMIT
      BY WalletPagesAssumption
    <3> HIDE DEF log
    <3> QED
      BY <3>1, <3>2 DEF LogOK
  <2> QED
    BY <2>1, <2>2
<1>4. /\ buffers' = C!trimScopes(b)
      /\ generations' =
           [k \in Keys |->
              IF k \in C!Buffered(b) \ C!Buffered(buffers') THEN 0
              ELSE IF k = b[Len(b)].key /\ generations[k] = 0 THEN sequence'
              ELSE generations[k]]
  BY DEF C!publish, C!Keep
<1> HIDE DEF log
<1>5. /\ kept \in Seq(C!Entry) /\ LogOK(kept, g)
      /\ \A x : Began(log, x) => Began(kept, x)
      /\ \A j \in DOMAIN more : ~more[j].end => Began(kept, more[j].source)
  <2>1. \A j \in DOMAIN more :
           /\ more[j].generation = g
           /\ more[j].end =>
                \/ Began(log, more[j].source)
                \/ \E n \in 1 .. j - 1 : more[n].source = more[j].source /\ ~more[n].end
    BY DEF log
  <2> QED
    BY <1>2, <1>3, <2>1, KeptFacts
<1> HIDE DEF kept
<1>6. e \in C!Buffer /\ e.key = key /\ e.log = kept
  BY <1>5 DEF C!Buffer
<1> HIDE DEF e
<1>7. /\ buffers' \in Seq(C!Buffer) /\ DistinctKeys(buffers') /\ Len(buffers') <= SCOPE_LIMIT
      /\ \E i \in DOMAIN buffers' : buffers'[i] = e
      /\ \A i \in DOMAIN buffers' :
           \/ buffers'[i] = e
           \/ buffers'[i].key # key /\ \E j \in DOMAIN buffers : buffers'[i] = buffers[j]
      /\ C!Buffered(b) = C!Buffered(buffers) \cup {key} /\ b[Len(b)] = e
  BY <1>4, <1>6, WriteFacts
<1> HIDE DEF b
<1>8. key \in C!Buffered(buffers')
  BY <1>6, <1>7 DEF C!Buffered
<1>9. generations' \in [Keys -> 0 .. MaxLogs] /\ generations'[key] = g
  <2>1. \A k \in Keys : generations'[k] \in {0, sequence', generations[k]}
    BY <1>4
  <2>2. generations' = [k \in Keys |-> generations'[k]]
    BY <1>4
  <2>3. \A k \in Keys : generations'[k] \in 0 .. MaxLogs
    BY <1>1, <2>1, WalletPagesAssumption, SMTT(30)
  <2>4. generations'[key] = IF generations[key] = 0 THEN sequence' ELSE generations[key]
    BY <1>4, <1>6, <1>7, <1>8
  <2> QED
    BY <2>2, <2>3, <2>4
<1>10. ASSUME NEW k \in Keys, k # key
       PROVE  /\ k \in C!Buffered(buffers') => k \in C!Buffered(buffers)
              /\ generations'[k] = IF k \in C!Buffered(buffers') THEN generations[k] ELSE 0
  <2>1. k \in C!Buffered(buffers') => k \in C!Buffered(buffers)
    <3> SUFFICES ASSUME NEW i \in DOMAIN buffers', buffers'[i].key = k
                 PROVE  k \in C!Buffered(buffers)
      BY DEF C!Buffered
    <3>1. PICK j \in DOMAIN buffers : buffers'[i] = buffers[j]
      BY <1>6, <1>7, <1>10
    <3> QED
      BY <3>1 DEF C!Buffered
  <2>2. k \notin C!Buffered(buffers) => generations[k] = 0
    BY DEF ConsoleInv
  <2>3. generations'[k] = IF k \in C!Buffered(b) \ C!Buffered(buffers') THEN 0 ELSE generations[k]
    BY <1>4, <1>6, <1>7, <1>10
  <2> QED
    BY <1>7, <1>10, <2>1, <2>2, <2>3
<1>11. ASSUME NEW k \in Keys PROVE k \in C!Buffered(buffers') <=> generations'[k] # 0
  <2>1. CASE k = key
    BY <1>8, <1>9, <2>1
  <2>2. CASE k # key
    BY <1>10, <2>2 DEF ConsoleInv
  <2> QED
    BY <2>1, <2>2
<1>12. ASSUME NEW k \in Keys PROVE generations'[k] <= sequence'
  <2>1. generations[k] <= sequence /\ generations[k] \in Nat /\ sequence' \in Nat
    BY <1>1 DEF ConsoleInv
  <2>2. CASE k = key
    BY <1>1, <1>9, <2>1, <2>2
  <2>3. CASE k # key
    BY <1>1, <1>10, <2>1, <2>3
  <2> QED
    BY <2>2, <2>3
<1>13. ASSUME NEW i \in DOMAIN buffers'
       PROVE  \/ buffers'[i].key = key /\ buffers'[i].log = kept
              \/ /\ buffers'[i].key \in Keys \ {key}
                 /\ generations'[buffers'[i].key] = generations[buffers'[i].key]
                 /\ \E j \in DOMAIN buffers : buffers'[i] = buffers[j]
  <2>1. buffers'[i].key \in Keys /\ buffers'[i].key \in C!Buffered(buffers')
    <3>1. buffers'[i] \in C!Buffer
      BY <1>7
    <3> QED
      BY <3>1 DEF C!Buffer, C!Buffered
  <2>2. CASE buffers'[i] = e
    BY <1>6, <2>2
  <2>3. CASE buffers'[i] # e
    <3>1. buffers'[i].key # key /\ \E j \in DOMAIN buffers : buffers'[i] = buffers[j]
      BY <1>7, <2>3
    <3> QED
      BY <1>10, <2>1, <3>1
  <2> QED
    BY <2>2, <2>3
<1>14. ASSUME NEW i \in DOMAIN buffers' PROVE LogOK(buffers'[i].log, generations'[buffers'[i].key])
  BY <1>5, <1>9, <1>13 DEF ConsoleInv
<1>15. ASSUME NEW i \in DOMAIN buffers', buffers'[i].key = key, NEW j \in DOMAIN more, ~more[j].end
       PROVE  Began(buffers'[i].log, more[j].source)
  BY <1>5, <1>13, <1>15
<1>16. ASSUME NEW o \in Calls, pending[o] # None
       PROVE  /\ pending[o].generation <= sequence'
              /\ generations'[pending[o].key] = pending[o].generation =>
                   \A i \in DOMAIN buffers' :
                     buffers'[i].key = pending[o].key => Began(buffers'[i].log, o)
  <2>1. /\ pending[o].key \in Keys /\ pending[o].generation \in Nat \ {0}
        /\ pending[o].generation <= sequence /\ CallOK(o)
    <3>1. pending[o] \in C!Begun
      BY <1>1, <1>16
    <3>2. CallOK(o)
      BY DEF ConsoleInv
    <3> QED
      BY <1>16, <3>1, <3>2 DEF C!Begun, CallOK
  <2>2. pending[o].generation <= sequence'
    BY <1>1, <2>1
  <2>3. ASSUME generations'[pending[o].key] = pending[o].generation, NEW i \in DOMAIN buffers',
               buffers'[i].key = pending[o].key
        PROVE  Began(buffers'[i].log, o)
    <3>1. CASE pending[o].key = key
      <4>1. g = pending[o].generation
        BY <1>9, <2>3, <3>1
      <4>2. generations[key] # 0 /\ g = generations[key]
        BY <1>1, <2>1, <4>1
      <4>3. PICK j \in DOMAIN buffers : buffers[j].key = key
        BY <4>2 DEF ConsoleInv, C!Buffered
      <4>4. Began(log, o)
        BY <1>2, <1>16, <2>1, <3>1, <4>1, <4>2, <4>3 DEF CallOK
      <4> QED
        BY <1>5, <1>13, <2>3, <3>1, <4>4
    <3>2. CASE pending[o].key # key
      <4>1. /\ generations[pending[o].key] = pending[o].generation
            /\ \E j \in DOMAIN buffers : buffers'[i] = buffers[j]
        BY <1>13, <2>3, <3>2
      <4> QED
        BY <1>16, <2>1, <2>3, <4>1 DEF CallOK
    <3> QED
      BY <3>1, <3>2
  <2> QED
    BY <2>2, <2>3
<1> QED
  BY <1>7, <1>9, <1>11, <1>12, <1>14, <1>15, <1>16

LEMMA ConsoleInitInv == C!Init => ConsoleInv
<1> SUFFICES ASSUME C!Init PROVE ConsoleInv
  OBVIOUS
<1>1. /\ scope \in Keys /\ paused = None /\ buffers = <<>> /\ generations = [k \in Keys |-> 0]
      /\ sequence = 0 /\ pending = [o \in Calls |-> None]
  BY DEF C!Init
<1>2. 0 \in 0 .. MaxLogs /\ 0 <= SCOPE_LIMIT
  BY WalletPagesAssumption
<1>3. buffers \in Seq(C!Buffer) /\ Len(buffers) = 0 /\ DOMAIN buffers = {}
  BY <1>1
<1>4. C!TypeOK
  BY <1>1, <1>2, <1>3 DEF C!TypeOK
<1>5. C!Buffered(buffers) = {} /\ DistinctKeys(buffers)
  BY <1>3 DEF C!Buffered, DistinctKeys
<1> QED
  BY <1>1, <1>2, <1>3, <1>4, <1>5 DEF ConsoleInv, CallOK

\* What is opened or begun enters a log, of the generation that it has or of a new one.
LEMMA EnterFacts ==
  ASSUME ConsoleInv, NEW key \in Keys, C!Enter(key)
  PROVE  LET g == C!GenerationOf(key) IN
           /\ g \in 1 .. MaxLogs /\ sequence' \in 0 .. MaxLogs /\ sequence <= sequence'
           /\ g <= sequence'
           /\ IF generations[key] = 0 THEN sequence' = sequence + 1 /\ g = sequence'
              ELSE g = generations[key]
<1>1. /\ generations[key] \in 0 .. MaxLogs /\ sequence \in 0 .. MaxLogs /\ MaxLogs \in Nat
      /\ generations[key] <= sequence
  BY WalletPagesAssumption DEF ConsoleInv, C!TypeOK
<1> QED
  BY <1>1 DEF C!Enter, C!GenerationOf

LEMMA EntriesFacts ==
  ASSUME NEW source \in C!Sources, NEW g \in 1 .. MaxLogs, NEW ends \in Seq(BOOLEAN)
  PROVE  /\ C!Entries(source, g, ends) \in Seq(C!Entry)
         /\ Len(C!Entries(source, g, ends)) = Len(ends)
         /\ DOMAIN C!Entries(source, g, ends) = 1 .. Len(ends)
         /\ \A j \in 1 .. Len(ends) :
              /\ C!Entries(source, g, ends)[j].source = source
              /\ C!Entries(source, g, ends)[j].generation = g
              /\ C!Entries(source, g, ends)[j].end = ends[j]
<1>1. \A j \in 1 .. Len(ends) :
        [source |-> source, generation |-> g, end |-> ends[j]] \in C!Entry
  BY DEF C!Entry
<1>2. Len(ends) \in Nat
  OBVIOUS
<1> QED
  BY <1>1, <1>2 DEF C!Entries

LEMMA navigateInv == ASSUME ConsoleInv, NEW key \in Keys, C!navigate(key) PROVE ConsoleInv'
<1> DEFINE g == C!GenerationOf(key)
<1> DEFINE ends == <<FALSE, TRUE>>
<1> DEFINE more == C!Entries("open", g, ends)
<1>1. /\ scope' = key /\ paused' = None /\ C!Enter(key) /\ C!publish(key, more)
      /\ pending' = pending
  BY DEF C!navigate
<1>2. /\ g \in 1 .. MaxLogs /\ sequence' \in 0 .. MaxLogs /\ sequence <= sequence'
      /\ IF generations[key] = 0 THEN sequence' = sequence + 1 /\ g = sequence'
         ELSE g = generations[key]
  BY <1>1, EnterFacts
<1> HIDE DEF g
<1>3. ends \in Seq(BOOLEAN) /\ Len(ends) = 2 /\ ends[1] = FALSE /\ ends[2] = TRUE
  OBVIOUS
<1>4. "open" \in C!Sources
  BY DEF C!Sources
<1> HIDE DEF ends
<1>5. /\ more \in Seq(C!Entry) /\ Len(more) = 2 /\ DOMAIN more = 1 .. 2
      /\ \A j \in 1 .. 2 :
           more[j].source = "open" /\ more[j].generation = g /\ more[j].end = ends[j]
  BY <1>2, <1>3, <1>4, EntriesFacts
<1> HIDE DEF more
<1>6. \A j \in DOMAIN more :
        /\ more[j].generation = g
        /\ more[j].end =>
             \/ Began(C!snapshot(key), more[j].source)
             \/ \E n \in 1 .. j - 1 : more[n].source = more[j].source /\ ~more[n].end
  <2>1. more[1].source = "open" /\ ~more[1].end /\ more[2].source = "open" /\ 1 \in 1 .. 2 - 1
    BY <1>3, <1>5
  <2> QED
    BY <1>5, <2>1
<1>7. /\ buffers' \in Seq(C!Buffer) /\ DistinctKeys(buffers') /\ Len(buffers') <= SCOPE_LIMIT
      /\ generations' \in [Keys -> 0 .. MaxLogs]
      /\ \A k \in Keys : k \in C!Buffered(buffers') <=> generations'[k] # 0
      /\ \A k \in Keys : generations'[k] <= sequence'
      /\ \A i \in DOMAIN buffers' : LogOK(buffers'[i].log, generations'[buffers'[i].key])
      /\ \A o \in Calls : pending[o] # None =>
           /\ pending[o].generation <= sequence'
           /\ generations'[pending[o].key] = pending[o].generation =>
                \A i \in DOMAIN buffers' :
                  buffers'[i].key = pending[o].key => Began(buffers'[i].log, o)
  BY <1>1, <1>2, <1>5, <1>6, PublishInv
<1>8. C!TypeOK'
  BY <1>1, <1>2, <1>7 DEF ConsoleInv, C!TypeOK
<1>9. ASSUME NEW o \in Calls PROVE CallOK(o)'
  BY <1>1, <1>7 DEF CallOK
<1> QED
  BY <1>7, <1>8, <1>9 DEF ConsoleInv, DistinctKeys, C!Buffered, LogOK

LEMMA beginOperationInv ==
  ASSUME ConsoleInv, NEW o \in Calls, C!beginOperation(o)
  PROVE  ConsoleInv'
<1>0. PICK g, key : g = C!GenerationOf(scope) /\ key = scope
  OBVIOUS
<1> DEFINE ends == <<FALSE>>
<1> DEFINE more == C!Entries(o, g, ends)
<1> DEFINE q == [key |-> key, generation |-> g]
<1>1. /\ C!Enter(key) /\ C!publish(key, more) /\ pending' = [pending EXCEPT ![o] = q]
      /\ UNCHANGED <<scope, paused>>
  BY <1>0 DEF C!beginOperation
<1>2. /\ g \in 1 .. MaxLogs /\ sequence' \in 0 .. MaxLogs /\ sequence <= sequence'
      /\ g <= sequence' /\ key \in Keys
      /\ IF generations[key] = 0 THEN sequence' = sequence + 1 /\ g = sequence'
         ELSE g = generations[key]
  <2>1. key \in Keys
    BY <1>0 DEF ConsoleInv, C!TypeOK
  <2> QED
    BY <1>0, <1>1, <2>1, EnterFacts
<1>3. ends \in Seq(BOOLEAN) /\ Len(ends) = 1 /\ ends[1] = FALSE
  OBVIOUS
<1>4. o \in C!Sources
  BY DEF C!Sources
<1> HIDE DEF ends
<1>5. /\ more \in Seq(C!Entry) /\ Len(more) = 1 /\ DOMAIN more = 1 .. 1
      /\ \A j \in 1 .. 1 : more[j].source = o /\ more[j].generation = g /\ ~more[j].end
  <2>1. \A j \in 1 .. 1 : j = 1
    OBVIOUS
  <2> QED
    BY <1>2, <1>3, <1>4, <2>1, EntriesFacts
<1> HIDE DEF more
<1>6. \A j \in DOMAIN more :
        /\ more[j].generation = g
        /\ more[j].end =>
             \/ Began(C!snapshot(key), more[j].source)
             \/ \E n \in 1 .. j - 1 : more[n].source = more[j].source /\ ~more[n].end
  BY <1>5
<1>7. /\ buffers' \in Seq(C!Buffer) /\ DistinctKeys(buffers') /\ Len(buffers') <= SCOPE_LIMIT
      /\ generations' \in [Keys -> 0 .. MaxLogs]
      /\ \A k \in Keys : k \in C!Buffered(buffers') <=> generations'[k] # 0
      /\ \A k \in Keys : generations'[k] <= sequence'
      /\ \A i \in DOMAIN buffers' : LogOK(buffers'[i].log, generations'[buffers'[i].key])
      /\ \A i \in DOMAIN buffers' : buffers'[i].key = key =>
           \A j \in DOMAIN more : ~more[j].end => Began(buffers'[i].log, more[j].source)
      /\ \A c \in Calls : pending[c] # None =>
           /\ pending[c].generation <= sequence'
           /\ generations'[pending[c].key] = pending[c].generation =>
                \A i \in DOMAIN buffers' :
                  buffers'[i].key = pending[c].key => Began(buffers'[i].log, c)
  BY <1>1, <1>2, <1>5, <1>6, PublishInv
<1>8. q \in C!Begun /\ q.key = key /\ q.generation = g
  BY <1>2 DEF C!Begun
<1> HIDE DEF q
<1>9. /\ pending' \in [Calls -> C!Begun \cup {None}] /\ pending'[o] = q
      /\ \A c \in Calls \ {o} : pending'[c] = pending[c]
  BY <1>1, <1>8 DEF ConsoleInv, C!TypeOK
<1>10. C!TypeOK'
  BY <1>1, <1>2, <1>7, <1>9 DEF ConsoleInv, C!TypeOK
<1>11. \A i \in DOMAIN buffers' : buffers'[i].key = key => Began(buffers'[i].log, o)
  BY <1>5, <1>7
<1>12. ASSUME NEW c \in Calls PROVE CallOK(c)'
  <2>1. CASE c = o
    BY <2>1, <1>2, <1>8, <1>9, <1>11 DEF CallOK, Began
  <2>2. CASE c # o
    BY <2>2, <1>7, <1>9, SMTT(30) DEF CallOK, Began
  <2> QED
    BY <2>1, <2>2
<1> QED
  BY <1>7, <1>10, <1>12 DEF ConsoleInv, DistinctKeys, C!Buffered, LogOK

\* A call writes its end if the log is still the one in which it began, and else nothing.
LEMMA settleInv == ASSUME ConsoleInv, NEW o \in Calls, C!settle(o) PROVE ConsoleInv'
<1>0. PICK g, key : g = pending[o].generation /\ key = pending[o].key
  OBVIOUS
<1>1. /\ pending[o] # None /\ pending' = [pending EXCEPT ![o] = None]
      /\ UNCHANGED <<scope, paused>>
  BY DEF C!settle
<1>2. key \in Keys /\ g \in 1 .. MaxLogs /\ CallOK(o)
  <2>1. pending[o] \in C!Begun /\ CallOK(o)
    BY <1>1 DEF ConsoleInv, C!TypeOK
  <2> QED
    BY <1>0, <2>1 DEF C!Begun
<1>3. /\ pending' \in [Calls -> C!Begun \cup {None}] /\ pending'[o] = None
      /\ \A c \in Calls \ {o} : pending'[c] = pending[c]
  BY <1>1 DEF ConsoleInv, C!TypeOK
<1>4. CASE generations[key] = g
  <2> DEFINE ends == <<TRUE>>
  <2> DEFINE more == C!Entries(o, g, ends)
  <2>1. C!publish(key, more) /\ sequence' = sequence
    BY <1>0, <1>4 DEF C!settle
  <2>2. ends \in Seq(BOOLEAN) /\ Len(ends) = 1 /\ ends[1] = TRUE
    OBVIOUS
  <2>3. o \in C!Sources
    BY DEF C!Sources
  <2> HIDE DEF ends
  <2>4. /\ more \in Seq(C!Entry) /\ Len(more) = 1 /\ DOMAIN more = 1 .. 1
        /\ \A j \in 1 .. 1 : more[j].source = o /\ more[j].generation = g
    BY <1>2, <2>2, <2>3, EntriesFacts
  <2> HIDE DEF more
  <2>5. Began(C!snapshot(key), o)
    <3>1. PICK i \in DOMAIN buffers : buffers[i].key = key
      BY <1>2, <1>4 DEF ConsoleInv, C!Buffered
    <3>2. C!snapshot(key) = buffers[i].log
      BY <1>2, <3>1, SnapshotFacts
    <3> QED
      BY <1>0, <1>1, <1>2, <1>4, <3>1, <3>2 DEF CallOK
  <2>6. \A j \in DOMAIN more :
          /\ more[j].generation = g
          /\ more[j].end =>
               \/ Began(C!snapshot(key), more[j].source)
               \/ \E n \in 1 .. j - 1 : more[n].source = more[j].source /\ ~more[n].end
    BY <2>4, <2>5
  <2>7. sequence' \in 0 .. MaxLogs /\ sequence <= sequence'
        /\ IF generations[key] = 0 THEN sequence' = sequence + 1 /\ g = sequence'
           ELSE g = generations[key]
    BY <1>2, <1>4, <2>1, WalletPagesAssumption DEF ConsoleInv, C!TypeOK
  <2>8. /\ buffers' \in Seq(C!Buffer) /\ DistinctKeys(buffers') /\ Len(buffers') <= SCOPE_LIMIT
        /\ generations' \in [Keys -> 0 .. MaxLogs]
        /\ \A k \in Keys : k \in C!Buffered(buffers') <=> generations'[k] # 0
        /\ \A k \in Keys : generations'[k] <= sequence'
        /\ \A i \in DOMAIN buffers' : LogOK(buffers'[i].log, generations'[buffers'[i].key])
        /\ \A c \in Calls : pending[c] # None =>
             /\ pending[c].generation <= sequence'
             /\ generations'[pending[c].key] = pending[c].generation =>
                  \A i \in DOMAIN buffers' :
                    buffers'[i].key = pending[c].key => Began(buffers'[i].log, c)
    BY <1>2, <2>1, <2>4, <2>6, <2>7, PublishInv
  <2>9. C!TypeOK'
    BY <1>1, <1>3, <2>7, <2>8 DEF ConsoleInv, C!TypeOK
  <2>10. ASSUME NEW c \in Calls PROVE CallOK(c)'
    BY <1>3, <2>8 DEF CallOK, Began
  <2> QED
    BY <2>8, <2>9, <2>10 DEF ConsoleInv, DistinctKeys, C!Buffered, LogOK
<1>5. CASE generations[key] # g
  <2>1. UNCHANGED <<buffers, generations, sequence>>
    BY <1>0, <1>5 DEF C!settle, C!store
  <2>2. C!TypeOK'
    BY <1>1, <1>3, <2>1 DEF ConsoleInv, C!TypeOK
  <2>3. ASSUME NEW c \in Calls PROVE CallOK(c)'
    BY <1>3, <2>1 DEF ConsoleInv, CallOK, Began
  <2> QED
    BY <2>1, <2>2, <2>3 DEF ConsoleInv, DistinctKeys, C!Buffered, LogOK
<1> QED
  BY <1>4, <1>5

\* The log of the page is empty, and of a new generation: no call that is under way finds
\* its own there.
LEMMA clearLogsInv == ASSUME ConsoleInv, C!clearLogs PROVE ConsoleInv'
<1> DEFINE e == [key |-> scope, log |-> <<>>]
<1>1. /\ sequence < MaxLogs /\ sequence' = sequence + 1
      /\ buffers' = C!trimScopes(Append(C!Without(buffers, scope), e))
      /\ generations' =
           [k \in Keys |-> IF k = scope THEN sequence'
                           ELSE IF k \in C!Buffered(buffers') THEN generations[k] ELSE 0]
      /\ paused' = (IF paused = None THEN None ELSE <<>>)
      /\ UNCHANGED <<scope, pending>>
  BY DEF C!clearLogs
<1>2. /\ scope \in Keys /\ sequence \in Nat /\ generations \in [Keys -> 0 .. MaxLogs]
      /\ MaxLogs \in Nat
  BY WalletPagesAssumption DEF ConsoleInv, C!TypeOK
<1>3. <<>> \in Seq(C!Entry) /\ Len(<<>>) = 0 /\ DOMAIN <<>> = {} /\ 0 <= LOG_LIMIT
  BY WalletPagesAssumption
<1>4. e \in C!Buffer /\ e.key = scope /\ LogOK(e.log, sequence')
  BY <1>2, <1>3 DEF C!Buffer, LogOK
<1> HIDE DEF e
<1>5. /\ buffers' \in Seq(C!Buffer) /\ DistinctKeys(buffers') /\ Len(buffers') <= SCOPE_LIMIT
      /\ \E i \in DOMAIN buffers' : buffers'[i] = e
      /\ \A i \in DOMAIN buffers' :
           \/ buffers'[i] = e
           \/ buffers'[i].key # scope /\ \E j \in DOMAIN buffers : buffers'[i] = buffers[j]
  BY <1>1, <1>2, <1>4, WriteFacts
<1>6. sequence' \in 1 .. MaxLogs /\ generations' \in [Keys -> 0 .. MaxLogs]
      /\ generations'[scope] = sequence'
  BY <1>1, <1>2
<1>7. ASSUME NEW i \in DOMAIN buffers'
      PROVE  /\ buffers'[i].key \in Keys /\ buffers'[i].key \in C!Buffered(buffers')
             /\ \/ buffers'[i] = e
                \/ /\ buffers'[i].key # scope
                   /\ generations'[buffers'[i].key] = generations[buffers'[i].key]
                   /\ \E j \in DOMAIN buffers : buffers'[i] = buffers[j]
  <2>1. buffers'[i].key \in Keys /\ buffers'[i].key \in C!Buffered(buffers')
    <3>1. buffers'[i] \in C!Buffer
      BY <1>5
    <3> QED
      BY <3>1 DEF C!Buffer, C!Buffered
  <2> QED
    BY <1>1, <1>5, <2>1
<1>8. ASSUME NEW k \in Keys PROVE k \in C!Buffered(buffers') <=> generations'[k] # 0
  <2>1. CASE k = scope
    BY <1>4, <1>5, <1>6, <2>1 DEF C!Buffered
  <2>2. ASSUME k # scope, k \in C!Buffered(buffers') PROVE generations[k] # 0
    <3>1. PICK i \in DOMAIN buffers' : buffers'[i].key = k
      BY <2>2 DEF C!Buffered
    <3>2. PICK j \in DOMAIN buffers : buffers[j].key = k
      BY <1>4, <1>5, <2>2, <3>1
    <3> QED
      BY <3>2 DEF ConsoleInv, C!Buffered
  <2> QED
    BY <1>1, <2>1, <2>2
<1>9. ASSUME NEW k \in Keys PROVE generations'[k] <= sequence'
  <2>1. generations[k] <= sequence /\ generations[k] \in Nat
    BY <1>2 DEF ConsoleInv
  <2> QED
    BY <1>1, <1>2, <2>1
<1>10. ASSUME NEW i \in DOMAIN buffers' PROVE LogOK(buffers'[i].log, generations'[buffers'[i].key])
  BY <1>4, <1>6, <1>7 DEF ConsoleInv
<1>11. ASSUME NEW o \in Calls PROVE CallOK(o)'
  <2> SUFFICES ASSUME pending[o] # None
               PROVE  /\ pending[o].generation <= sequence'
                      /\ generations'[pending[o].key] = pending[o].generation =>
                           \A i \in DOMAIN buffers' :
                             buffers'[i].key = pending[o].key => Began(buffers'[i].log, o)
    BY <1>1 DEF CallOK, Began
  <2>1. /\ pending[o].key \in Keys /\ pending[o].generation \in Nat
        /\ pending[o].generation <= sequence /\ CallOK(o)
    <3>1. pending[o] \in C!Begun /\ CallOK(o)
      BY DEF ConsoleInv, C!TypeOK
    <3> QED
      BY <3>1 DEF C!Begun, CallOK
  <2>2. pending[o].generation <= sequence' /\ pending[o].generation # sequence'
    BY <1>1, <1>2, <2>1
  <2>3. ASSUME generations'[pending[o].key] = pending[o].generation, NEW i \in DOMAIN buffers',
               buffers'[i].key = pending[o].key
        PROVE  Began(buffers'[i].log, o)
    <3>1. pending[o].key # scope
      BY <1>6, <2>2, <2>3
    <3>2. /\ generations[pending[o].key] = pending[o].generation
          /\ \E j \in DOMAIN buffers : buffers'[i] = buffers[j]
      BY <1>4, <1>7, <2>3, <3>1
    <3> QED
      BY <2>1, <2>3, <3>2 DEF CallOK
  <2> QED
    BY <2>2, <2>3
<1>12. C!TypeOK'
  BY <1>1, <1>3, <1>5, <1>6 DEF ConsoleInv, C!TypeOK
<1> QED
  BY <1>5, <1>8, <1>9, <1>10, <1>11, <1>12 DEF ConsoleInv, DistinctKeys, C!Buffered, LogOK

LEMMA ConsoleNextInv == ConsoleInv /\ [C!Next]_console => ConsoleInv'
<1> SUFFICES ASSUME ConsoleInv, [C!Next]_console PROVE ConsoleInv'
  OBVIOUS
<1>1. ASSUME UNCHANGED <<buffers, generations, sequence, pending, scope>>,
             paused' \in Seq(C!Entry) \cup {None}
      PROVE  ConsoleInv'
  <2>1. C!TypeOK'
    BY <1>1 DEF ConsoleInv, C!TypeOK
  <2> QED
    BY <1>1, <2>1 DEF ConsoleInv, DistinctKeys, C!Buffered, LogOK, CallOK, Began
<1>2. CASE C!pause
  <2>1. /\ UNCHANGED <<buffers, generations, sequence, pending, scope>>
        /\ paused' = IF paused = None THEN C!snapshot(scope) ELSE None
    BY <1>2 DEF C!pause, C!store
  <2>2. C!snapshot(scope) \in Seq(C!Entry)
    BY SnapshotFacts DEF ConsoleInv, C!TypeOK
  <2> QED
    BY <1>1, <2>1, <2>2
<1>3. CASE UNCHANGED console
  BY <1>1, <1>3 DEF console, ConsoleInv, C!TypeOK
<1> QED
  BY <1>2, <1>3, navigateInv, beginOperationInv, settleInv, clearLogsInv DEF C!Next

LEMMA SameLogCardinality == \A R : C!Cardinality(R) = Cardinality(R)
  BY DEF C!Cardinality, Cardinality

LEMMA ConsoleInvLogs == ConsoleInv => C!LogsAreOfOneGeneration
<1> SUFFICES ASSUME ConsoleInv PROVE C!LogsAreOfOneGeneration
  OBVIOUS
<1>1. \A i \in DOMAIN buffers : buffers[i].key \in Keys
  <2>1. \A i \in DOMAIN buffers : buffers[i] \in C!Buffer
    BY DEF ConsoleInv, C!TypeOK
  <2> QED
    BY <2>1 DEF C!Buffer
<1>2. C!Buffered(buffers) = {k \in Keys : generations[k] # 0}
  BY <1>1 DEF ConsoleInv, C!Buffered
<1>3. Cardinality(C!Buffered(buffers)) = Len(buffers)
  <2>1. Len(buffers) \in Nat /\ DOMAIN buffers = 1 .. Len(buffers)
    BY DEF ConsoleInv, C!TypeOK
  <2> DEFINE f == [i \in 1 .. Len(buffers) |-> buffers[i].key]
  <2>2. f \in Bijection(1 .. Len(buffers), C!Buffered(buffers))
    <3>1. f \in [1 .. Len(buffers) -> C!Buffered(buffers)]
      BY <2>1 DEF C!Buffered
    <3>2. \A i, j \in 1 .. Len(buffers) : f[i] = f[j] => i = j
      BY <2>1 DEF ConsoleInv, DistinctKeys
    <3>3. \A k \in C!Buffered(buffers) : \E i \in 1 .. Len(buffers) : f[i] = k
      BY <2>1 DEF C!Buffered
    <3> HIDE DEF f
    <3> QED
      BY <3>1, <3>2, <3>3 DEF Bijection, Injection, Surjection, IsInjective
  <2>3. ExistsBijection(1 .. Len(buffers), C!Buffered(buffers))
    BY <2>2 DEF ExistsBijection
  <2> QED
    BY <2>1, <2>3, FS_CountingElements
<1>4. Len(buffers) = C!Cardinality(C!Buffered(buffers))
  BY <1>3, SameLogCardinality
<1> QED
  BY <1>2, <1>4 DEF ConsoleInv, LogOK, C!LogsAreOfOneGeneration

-----------------------------------------------------------------------------
(***************************************************************************)
(* Sums over finite sets.  The sum is the last value of a function that is *)
(* defined by recursion over the subsets, each without the element that    *)
(* CHOOSE gives; that any element may be taken out first, and the rest of  *)
(* what a sum should do, is by induction over the subsets, which is here a *)
(* fact about a set of them.                                               *)
(***************************************************************************)

LEMMA LeastNatural ==
  ASSUME NEW A, A \subseteq Nat, A # {}
  PROVE  \E n \in A : \A m \in A : n <= m
<1> DEFINE R == OpToRel(<, Nat)
<1>1. IsWellFoundedOn(R, Nat) /\ \A x, y \in Nat : x < y => <<x, y>> \in R
  BY NatLessThanWellFounded, Zenon DEF OpToRel
<1> HIDE DEF R
<1>2. IsWellFoundedOn(R, Nat)
  BY <1>1
<1>3. PICK n \in A : \A m \in A : ~ (<<m, n>> \in R)
  BY <1>2, WFMin
<1>4. ASSUME NEW m \in A PROVE n <= m
  <2>1. n \in Nat /\ m \in Nat /\ ~ (<<m, n>> \in R)
    BY <1>3
  <2>2. ~ (m < n)
    BY <1>1, <2>1
  <2> QED BY <2>1, <2>2
<1> QED BY <1>4

\* What holds of a subset of a finite set once it holds of all that are smaller, holds of all.
LEMMA SubsetInduction ==
  ASSUME NEW A, IsFiniteSet(A), NEW P,
         \A Q \in SUBSET A : (\A c \in Q : Q \ {c} \in P) => Q \in P
  PROVE  \A Q \in SUBSET A : Q \in P
<1> DEFINE Bad == {n \in Nat : \E Q \in SUBSET A : Cardinality(Q) = n /\ Q \notin P}
<1>1. SUFFICES ASSUME NEW V \in SUBSET A, V \notin P PROVE FALSE
  OBVIOUS
<1>2. Cardinality(V) \in Bad
  BY <1>1, FS_CardinalityType, FS_Subset
<1>3. PICK n \in Bad : \A m \in Bad : n <= m
  <2>1. Bad \subseteq Nat /\ Bad # {}
    BY <1>2
  <2> HIDE DEF Bad
  <2> QED BY <2>1, LeastNatural
<1>4. PICK Q \in SUBSET A : Cardinality(Q) = n /\ Q \notin P
  BY <1>3
<1>5. PICK c \in Q : Q \ {c} \notin P
  BY <1>4
<1>6. n \in Nat /\ Cardinality(Q \ {c}) = n - 1 /\ Cardinality(Q \ {c}) \in Nat
  <2>1. IsFiniteSet(Q)
    BY FS_Subset
  <2>2. IsFiniteSet(Q \ {c}) /\ Cardinality(Q \ {c}) = Cardinality(Q) - 1
    BY <2>1, <1>5, FS_RemoveElement
  <2> QED BY <1>3, <1>4, <2>2, FS_CardinalityType
<1>7. n - 1 \in Bad
  BY <1>5, <1>6
<1> QED BY <1>3, <1>6, <1>7

\* A set of sets that has the empty one and with a set those with one element more, up to A,
\* has A.
LEMMA FiniteInduction ==
  ASSUME NEW A, IsFiniteSet(A), NEW P, {} \in P,
         \A Q \in SUBSET A : \A c \in A \ Q : Q \in P => Q \cup {c} \in P
  PROVE  A \in P
<1>1. ASSUME NEW Q \in SUBSET A, \A c \in Q : Q \ {c} \in P PROVE Q \in P
  <2>1. CASE Q = {}
    BY <2>1
  <2>2. CASE Q # {}
    <3>1. PICK c \in Q : TRUE
      BY <2>2
    <3>2. Q \ {c} \in SUBSET A /\ c \in A \ (Q \ {c}) /\ (Q \ {c}) \cup {c} = Q
      BY <3>1
    <3> QED BY <1>1, <3>1, <3>2
  <2> QED BY <2>1, <2>2
<1> QED BY <1>1, SubsetInduction, ZenonT(60)

pick(s) == CHOOSE x \in s : TRUE

\* f holds the sums of the amounts of x over the subsets of A.
Sums(f, x, A) ==
  f = [s \in SUBSET A |-> IF s = {} THEN 0 ELSE x[pick(s)].amount + f[s \ {pick(s)}]]

Total(x, A) == (CHOOSE f : Sums(f, x, A))[A]

\* Subsets of A with n elements at most.
Small(A, n) == {s \in SUBSET A : Cardinality(s) <= n}

SmallSums(f, x, A, n) ==
  f = [s \in Small(A, n) |-> IF s = {} THEN 0 ELSE x[pick(s)].amount + f[s \ {pick(s)}]]

LEMMA Picked ==
  ASSUME NEW A, IsFiniteSet(A), NEW s \in SUBSET A, s # {}
  PROVE  /\ pick(s) \in s /\ s \ {pick(s)} \in SUBSET A
         /\ Cardinality(s) \in Nat \ {0} /\ Cardinality(s \ {pick(s)}) = Cardinality(s) - 1
<1>1. pick(s) \in s
  BY DEF pick
<1>2. IsFiniteSet(s)
  BY FS_Subset
<1>3. Cardinality(s) \in Nat /\ Cardinality(s) # 0
  BY <1>2, FS_CardinalityType, FS_EmptySet
<1>4. Cardinality(s \ {pick(s)}) = Cardinality(s) - 1
  BY <1>1, <1>2, FS_RemoveElement
<1> QED BY <1>1, <1>3, <1>4

LEMMA SumsExist ==
  ASSUME NEW x, NEW A, IsFiniteSet(A)
  PROVE  \E f : Sums(f, x, A)
<1> DEFINE Bad == {n \in Nat : ~ \E f : SmallSums(f, x, A, n)}
<1>1. Bad = {}
  <2>1. SUFFICES ASSUME Bad # {} PROVE FALSE
    OBVIOUS
  <2>2. PICK n \in Bad : \A m \in Bad : n <= m
    <3>1. Bad \subseteq Nat
      OBVIOUS
    <3> HIDE DEF Bad
    <3> QED BY <2>1, <3>1, LeastNatural
  <2>3. CASE n = 0
    <3> DEFINE f == [s \in Small(A, 0) |-> 0]
    <3>1. \A s \in Small(A, 0) : s = {}
      <4>1. ASSUME NEW s \in Small(A, 0), s # {} PROVE FALSE
        <5>1. s \in SUBSET A /\ Cardinality(s) <= 0
          BY DEF Small
        <5>2. Cardinality(s) \in Nat \ {0}
          BY <4>1, <5>1, Picked
        <5> QED BY <5>1, <5>2
      <4> QED BY <4>1
    <3>2. SmallSums(f, x, A, 0)
      BY <3>1 DEF SmallSums
    <3> QED BY <2>2, <2>3, <3>2
  <2>4. CASE n # 0
    <3>1. n - 1 \in Nat /\ n - 1 \notin Bad
      BY <2>2, <2>4
    <3>2. PICK f : SmallSums(f, x, A, n - 1)
      BY <3>1
    <3> DEFINE g == [s \in Small(A, n) |->
                       IF s = {} THEN 0 ELSE x[pick(s)].amount + f[s \ {pick(s)}]]
    <3>3. \A s \in Small(A, n - 1) : s \in Small(A, n) /\ f[s] = g[s]
      <4>1. ASSUME NEW s \in Small(A, n - 1) PROVE s \in Small(A, n)
        <5>1. s \in SUBSET A /\ IsFiniteSet(s) /\ Cardinality(s) <= n - 1
          BY FS_Subset DEF Small
        <5>2. Cardinality(s) \in Nat
          BY <5>1, FS_CardinalityType
        <5>3. Cardinality(s) <= n
          BY <5>1, <5>2, <2>2
        <5> QED BY <5>1, <5>3 DEF Small
      <4> QED BY <4>1, <3>2, Zenon DEF SmallSums
    <3>4. \A s \in Small(A, n) : s # {} => s \ {pick(s)} \in Small(A, n - 1)
      <4>1. ASSUME NEW s \in Small(A, n), s # {} PROVE s \ {pick(s)} \in Small(A, n - 1)
        <5>1. s \in SUBSET A /\ Cardinality(s) <= n
          BY DEF Small
        <5>2. /\ s \ {pick(s)} \in SUBSET A /\ Cardinality(s) \in Nat
              /\ Cardinality(s \ {pick(s)}) = Cardinality(s) - 1
          BY <4>1, <5>1, Picked
        <5>3. Cardinality(s \ {pick(s)}) <= n - 1
          BY <5>1, <5>2, <2>2
        <5> QED BY <5>2, <5>3 DEF Small
      <4> QED BY <4>1
    <3>5. \A s \in Small(A, n) : s # {} => f[s \ {pick(s)}] = g[s \ {pick(s)}]
      BY <3>3, <3>4
    <3>6. SmallSums(g, x, A, n)
      <4>1. g = [s \in Small(A, n) |->
                   IF s = {} THEN 0 ELSE x[pick(s)].amount + g[s \ {pick(s)}]]
        BY <3>5, Zenon
      <4> QED BY <4>1 DEF SmallSums
    <3> HIDE DEF g
    <3> QED BY <2>2, <3>6
  <2> QED BY <2>3, <2>4
<1>2. Cardinality(A) \in Nat
  BY FS_CardinalityType
<1>3. PICK f : SmallSums(f, x, A, Cardinality(A))
  BY <1>1, <1>2
<1>4. Small(A, Cardinality(A)) = SUBSET A
  BY FS_Subset DEF Small
<1> QED BY <1>3, <1>4 DEF Sums, SmallSums

LEMMA TotalIsSums ==
  ASSUME NEW x, NEW A, IsFiniteSet(A)
  PROVE  \E f : Sums(f, x, A) /\ Total(x, A) = f[A]
<1>1. Sums(CHOOSE f : Sums(f, x, A), x, A)
  BY SumsExist
<1> QED BY <1>1 DEF Total

LEMMA SumsEmpty ==
  ASSUME NEW x, NEW A, NEW f, Sums(f, x, A)
  PROVE  f[{}] = 0
<1>1. {} \in SUBSET A
  OBVIOUS
<1> QED BY <1>1, Zenon DEF Sums

LEMMA SumsNat ==
  ASSUME NEW x, NEW A, IsFiniteSet(A), \A c \in A : x[c].amount \in Nat, NEW f, Sums(f, x, A)
  PROVE  \A s \in SUBSET A : f[s] \in Nat
<1> DEFINE P == {s \in SUBSET A : f[s] \in Nat}
<1>1. ASSUME NEW s \in SUBSET A, \A c \in s : s \ {c} \in P PROVE s \in P
  <2>1. CASE s = {}
    <3>1. f[{}] = 0
      BY SumsEmpty
    <3> QED BY <2>1, <3>1
  <2>2. CASE s # {}
    <3>1. pick(s) \in s
      BY <2>2, Picked
    <3>2. f[s] = x[pick(s)].amount + f[s \ {pick(s)}]
      BY <2>2, Zenon DEF Sums
    <3>3. f[s \ {pick(s)}] \in Nat /\ x[pick(s)].amount \in Nat
      BY <1>1, <3>1
    <3> QED BY <3>2, <3>3
  <2> QED BY <2>1, <2>2
<1>2. \A s \in SUBSET A : s \in P
  <2> HIDE DEF P
  <2> QED BY <1>1, SubsetInduction
<1> QED BY <1>2

\* Any element may be taken out of a sum first.
LEMMA SumsTakeAny ==
  ASSUME NEW x, NEW A, IsFiniteSet(A), \A c \in A : x[c].amount \in Nat, NEW f, Sums(f, x, A)
  PROVE  \A s \in SUBSET A : \A c \in s : f[s] = x[c].amount + f[s \ {c}]
<1> DEFINE P == {s \in SUBSET A : \A c \in s : f[s] = x[c].amount + f[s \ {c}]}
<1>1. ASSUME NEW s \in SUBSET A, \A c \in s : s \ {c} \in P PROVE s \in P
  <2>1. ASSUME NEW c \in s PROVE f[s] = x[c].amount + f[s \ {c}]
    <3> DEFINE d == pick(s)
    <3>1. d \in s
      BY Picked
    <3>2. s # {} /\ f[s] = x[d].amount + f[s \ {d}]
      <4>1. s # {}
        OBVIOUS
      <4> QED BY <4>1, Zenon DEF Sums
    <3> HIDE DEF d
    <3>3. CASE c = d
      BY <3>2, <3>3
    <3>4. CASE c # d
      <4>1. c \in s \ {d} /\ d \in s \ {c}
        BY <3>1, <3>4
      <4>2. f[s \ {d}] = x[c].amount + f[(s \ {d}) \ {c}]
        BY <1>1, <3>1, <4>1
      <4>3. f[s \ {c}] = x[d].amount + f[(s \ {c}) \ {d}]
        BY <1>1, <4>1
      <4>4. (s \ {d}) \ {c} = (s \ {c}) \ {d}
        OBVIOUS
      <4>5. f[(s \ {d}) \ {c}] = f[(s \ {c}) \ {d}]
        BY <4>4
      <4>6. f[(s \ {c}) \ {d}] \in Nat /\ x[c].amount \in Nat /\ x[d].amount \in Nat
        BY <3>1, SumsNat
      <4> HIDE DEF P
      <4> QED BY <3>2, <4>2, <4>3, <4>5, <4>6
    <3> QED BY <3>3, <3>4
  <2> QED BY <2>1
<1>2. \A s \in SUBSET A : s \in P
  <2> HIDE DEF P
  <2> QED BY <1>1, SubsetInduction
<1> QED BY <1>2

LEMMA TotalEmpty ==
  ASSUME NEW x
  PROVE  Total(x, {}) = 0
<1>1. IsFiniteSet({})
  BY FS_EmptySet
<1>2. PICK f : Sums(f, x, {}) /\ Total(x, {}) = f[{}]
  BY <1>1, TotalIsSums
<1> QED BY <1>2, SumsEmpty

LEMMA TotalNat ==
  ASSUME NEW x, NEW A, IsFiniteSet(A), \A c \in A : x[c].amount \in Nat
  PROVE  Total(x, A) \in Nat
<1>1. PICK f : Sums(f, x, A) /\ Total(x, A) = f[A]
  BY TotalIsSums
<1> QED BY <1>1, SumsNat

\* The sums over the subsets of a set are those over the subsets of a larger one.
LEMMA TotalIsPart ==
  ASSUME NEW x, NEW A, IsFiniteSet(A), \A c \in A : x[c].amount \in Nat,
         NEW f, Sums(f, x, A), NEW Q \in SUBSET A
  PROVE  Total(x, Q) = f[Q]
<1>1. IsFiniteSet(Q)
  BY FS_Subset
<1>2. PICK g : Sums(g, x, Q) /\ Total(x, Q) = g[Q]
  BY <1>1, TotalIsSums
<1> DEFINE P == {s \in SUBSET Q : f[s] = g[s]}
<1>3. ASSUME NEW s \in SUBSET Q, \A c \in s : s \ {c} \in P PROVE s \in P
  <2>1. CASE s = {}
    <3>1. f[{}] = 0 /\ g[{}] = 0
      BY <1>2, SumsEmpty
    <3> QED BY <2>1, <3>1
  <2>2. CASE s # {}
    <3>1. pick(s) \in s
      BY <2>2, Picked, <1>1
    <3>2. f[s] = x[pick(s)].amount + f[s \ {pick(s)}]
      BY <2>2, Zenon DEF Sums
    <3>3. g[s] = x[pick(s)].amount + g[s \ {pick(s)}]
      BY <1>2, <2>2, Zenon DEF Sums
    <3>4. f[s \ {pick(s)}] = g[s \ {pick(s)}]
      BY <1>3, <3>1
    <3> QED BY <3>2, <3>3, <3>4
  <2> QED BY <2>1, <2>2
<1>4. \A s \in SUBSET Q : s \in P
  <2> HIDE DEF P
  <2> QED BY <1>1, <1>3, SubsetInduction
<1> QED BY <1>2, <1>4

LEMMA TotalAdd ==
  ASSUME NEW x, NEW A, IsFiniteSet(A), NEW c, c \notin A,
         \A d \in A \cup {c} : x[d].amount \in Nat
  PROVE  Total(x, A \cup {c}) = Total(x, A) + x[c].amount
<1> DEFINE V == A \cup {c}
<1>1. IsFiniteSet(V)
  BY FS_AddElement
<1>2. PICK f : Sums(f, x, V) /\ Total(x, V) = f[V]
  BY <1>1, TotalIsSums
<1>3. f[V] = x[c].amount + f[V \ {c}]
  BY <1>1, <1>2, SumsTakeAny
<1>4. V \ {c} = A
  OBVIOUS
<1>5. f[A] = Total(x, A)
  BY <1>1, <1>2, TotalIsPart
<1>6. Total(x, A) \in Nat /\ x[c].amount \in Nat
  BY TotalNat
<1>7. Total(x, V) = x[c].amount + Total(x, A)
  BY <1>2, <1>3, <1>4, <1>5
<1> QED BY <1>6, <1>7

LEMMA TotalOne ==
  ASSUME NEW x, NEW c, x[c].amount \in Nat
  PROVE  Total(x, {c}) = x[c].amount
<1>1. Total(x, {} \cup {c}) = Total(x, {}) + x[c].amount
  BY TotalAdd, FS_EmptySet
<1> QED BY <1>1, TotalEmpty

\* The sum over two disjoint sets.
LEMMA TotalUnion ==
  ASSUME NEW x, NEW A, NEW Q, IsFiniteSet(A), IsFiniteSet(Q), A \cap Q = {},
         \A d \in A \cup Q : x[d].amount \in Nat
  PROVE  Total(x, A \cup Q) = Total(x, A) + Total(x, Q)
<1> DEFINE P == {R \in SUBSET Q : Total(x, A \cup R) = Total(x, A) + Total(x, R)}
<1>1. Total(x, A) \in Nat
  BY TotalNat
<1>2. {} \in P
  <2>1. A \cup {} = A
    OBVIOUS
  <2> QED BY <1>1, <2>1, TotalEmpty
<1>3. ASSUME NEW R \in SUBSET Q, NEW c \in Q \ R, R \in P PROVE R \cup {c} \in P
  <2>1. IsFiniteSet(R) /\ IsFiniteSet(A \cup R)
    BY FS_Subset, FS_Union
  <2>2. Total(x, R \cup {c}) = Total(x, R) + x[c].amount
    BY <2>1, TotalAdd
  <2>3. c \notin A \cup R /\ \A d \in (A \cup R) \cup {c} : x[d].amount \in Nat
    OBVIOUS
  <2>4. Total(x, (A \cup R) \cup {c}) = Total(x, A \cup R) + x[c].amount
    BY <2>1, <2>3, TotalAdd
  <2>5. Total(x, R) \in Nat /\ x[c].amount \in Nat
    BY <2>1, TotalNat
  <2>6. (A \cup R) \cup {c} = A \cup (R \cup {c})
    OBVIOUS
  <2>7. Total(x, A \cup R) = Total(x, A) + Total(x, R)
    BY <1>3
  <2>8. Total(x, A \cup (R \cup {c})) = Total(x, A) + Total(x, R \cup {c})
    <3>1. Total(x, A \cup (R \cup {c})) = Total(x, A \cup R) + x[c].amount
      BY <2>4, <2>6
    <3> HIDE DEF P
    <3> QED BY <3>1, <1>1, <2>2, <2>5, <2>7
  <2> QED BY <2>8
<1>4. Q \in P
  <2> HIDE DEF P
  <2> QED BY <1>2, <1>3, FiniteInduction
<1> QED BY <1>4

LEMMA TotalMonotone ==
  ASSUME NEW x, NEW Q, IsFiniteSet(Q), NEW A \in SUBSET Q, \A d \in Q : x[d].amount \in Nat
  PROVE  Total(x, A) <= Total(x, Q)
<1>1. IsFiniteSet(A) /\ IsFiniteSet(Q \ A)
  BY FS_Subset
<1>2. A \cup (Q \ A) = Q /\ A \cap (Q \ A) = {}
  OBVIOUS
<1>3. Total(x, A \cup (Q \ A)) = Total(x, A) + Total(x, Q \ A)
  BY <1>1, <1>2, TotalUnion
<1>4. Total(x, A) \in Nat /\ Total(x, Q \ A) \in Nat
  BY <1>1, TotalNat
<1>5. Total(x, Q) = Total(x, A) + Total(x, Q \ A)
  BY <1>2, <1>3
<1> QED BY <1>4, <1>5

\* Renamed cells, of the same amounts, have the same sum.
LEMMA TotalRenamed ==
  ASSUME NEW x, NEW y, NEW A, IsFiniteSet(A), NEW h,
         \A c \in A : x[c].amount \in Nat /\ y[h[c]].amount = x[c].amount,
         \A c, d \in A : h[c] = h[d] => c = d
  PROVE  Total(y, {h[c] : c \in A}) = Total(x, A)
<1> DEFINE P == {R \in SUBSET A : Total(y, {h[c] : c \in R}) = Total(x, R)}
<1>1. {} \in P
  <2>1. {h[c] : c \in {}} = {}
    OBVIOUS
  <2> QED BY <2>1, TotalEmpty
<1>2. ASSUME NEW R \in SUBSET A, NEW d \in A \ R, R \in P PROVE R \cup {d} \in P
  <2> DEFINE H == {h[c] : c \in R}
  <2>1. IsFiniteSet(R) /\ IsFiniteSet(H)
    <3>1. IsFiniteSet(R)
      BY FS_Subset
    <3>2. H = {[c \in R |-> h[c]][b] : b \in R}
      OBVIOUS
    <3>3. [c \in R |-> h[c]] \in Surjection(R, H)
      BY DEF Surjection
    <3> QED BY <3>1, <3>3, FS_Surjection
  <2>2. {h[c] : c \in R \cup {d}} = H \cup {h[d]}
    OBVIOUS
  <2>3. h[d] \notin H
    OBVIOUS
  <2>4. \A c \in H \cup {h[d]} : y[c].amount \in Nat
    OBVIOUS
  <2>5. Total(x, R \cup {d}) = Total(x, R) + x[d].amount
    BY <2>1, TotalAdd
  <2>6. Total(y, H \cup {h[d]}) = Total(y, H) + y[h[d]].amount
    <3> HIDE DEF H
    <3> QED BY <2>1, <2>3, <2>4, TotalAdd
  <2>7. Total(y, H) = Total(x, R) /\ y[h[d]].amount = x[d].amount
    BY <1>2
  <2> HIDE DEF H
  <2>8. Total(y, H \cup {h[d]}) = Total(x, R \cup {d})
    BY <2>5, <2>6, <2>7
  <2> QED BY <2>2, <2>8
<1>3. A \in P
  <2> HIDE DEF P
  <2> QED BY <1>1, <1>2, FiniteInduction
<1> QED BY <1>3

LEMMA TotalSame ==
  ASSUME NEW x, NEW y, NEW A, IsFiniteSet(A),
         \A c \in A : x[c].amount \in Nat /\ y[c].amount = x[c].amount
  PROVE  Total(y, A) = Total(x, A)
<1> DEFINE h == [c \in A |-> c]
<1>1. {h[c] : c \in A} = A
  OBVIOUS
<1>2. \A c \in A : h[c] = c
  OBVIOUS
<1> HIDE DEF h
<1>3. Total(y, {h[c] : c \in A}) = Total(x, A)
  BY <1>2, TotalRenamed
<1> QED BY <1>1, <1>3

-----------------------------------------------------------------------------
\* The cells of A that hold tokens, and how many they are.
TokensOf(x, A) == {c \in A : x[c].type = "token"}

Worth(x, A) == Total(x, TokensOf(x, A))

LEMMA TokenSums ==
  /\ \A A : T!Sum(A) = Total(coins, A) /\ T!Tokens(A) = TokensOf(coins, A)
  /\ \A outputs : T!OutputSum(outputs) = Worth(outputs, DOMAIN outputs)
<1>1. ASSUME NEW A PROVE T!Sum(A) = Total(coins, A)
  BY Zenon DEF T!Sum, T!MapThenSumSet, T!MapThenFoldSet, Total, Sums, pick
<1>2. ASSUME NEW outputs PROVE T!OutputSum(outputs) = Worth(outputs, DOMAIN outputs)
  BY Zenon DEF T!OutputSum, T!MapThenSumSet, T!MapThenFoldSet, Worth, TokensOf, Total, Sums, pick
<1>3. ASSUME NEW A PROVE T!Tokens(A) = TokensOf(coins, A)
  BY DEF T!Tokens, TokensOf
<1> QED BY <1>1, <1>2, <1>3

Cells == Seq(T!Cell)

LEMMA CellFacts ==
  ASSUME NEW x \in Cells, NEW A \in SUBSET DOMAIN x
  PROVE  /\ IsFiniteSet(A) /\ IsFiniteSet(TokensOf(x, A)) /\ TokensOf(x, A) \in SUBSET A
         /\ \A c \in A : x[c] \in T!Cell /\ x[c].amount \in Nat
         /\ DOMAIN x = 1 .. Len(x) /\ Len(x) \in Nat
<1>1. DOMAIN x = 1 .. Len(x) /\ Len(x) \in Nat
  BY DEF Cells
<1>2. IsFiniteSet(1 .. Len(x))
  BY <1>1, FS_Interval
<1>3. IsFiniteSet(A) /\ IsFiniteSet(TokensOf(x, A)) /\ TokensOf(x, A) \in SUBSET A
  BY <1>1, <1>2, FS_Subset DEF TokensOf
<1>4. \A c \in A : x[c] \in T!Cell
  BY DEF Cells
<1>5. \A c \in A : x[c].amount \in Nat
  BY <1>4, TokensAssumption DEF T!Cell
<1> QED BY <1>1, <1>3, <1>4, <1>5

LEMMA WorthNat ==
  ASSUME NEW x \in Cells, NEW A \in SUBSET DOMAIN x
  PROVE  Worth(x, A) \in Nat
  BY CellFacts, TotalNat DEF Worth

LEMMA WorthUnion ==
  ASSUME NEW x \in Cells, NEW A \in SUBSET DOMAIN x, NEW Q \in SUBSET DOMAIN x, A \cap Q = {}
  PROVE  Worth(x, A \cup Q) = Worth(x, A) + Worth(x, Q)
<1>1. TokensOf(x, A \cup Q) = TokensOf(x, A) \cup TokensOf(x, Q)
  BY DEF TokensOf
<1>2. TokensOf(x, A) \cap TokensOf(x, Q) = {}
  BY DEF TokensOf
<1>3. IsFiniteSet(TokensOf(x, A)) /\ IsFiniteSet(TokensOf(x, Q))
  BY CellFacts
<1>4. \A c \in TokensOf(x, A) \cup TokensOf(x, Q) : x[c].amount \in Nat
  BY CellFacts
<1>5. Total(x, TokensOf(x, A) \cup TokensOf(x, Q))
        = Total(x, TokensOf(x, A)) + Total(x, TokensOf(x, Q))
  <2> DEFINE V == TokensOf(x, A)
             H == TokensOf(x, Q)
  <2>1. /\ IsFiniteSet(V) /\ IsFiniteSet(H) /\ V \cap H = {}
        /\ \A c \in V \cup H : x[c].amount \in Nat
    BY <1>2, <1>3, <1>4
  <2> HIDE DEF V, H
  <2>2. Total(x, V \cup H) = Total(x, V) + Total(x, H)
    BY <2>1, TotalUnion
  <2> QED BY <2>2 DEF V, H
<1> QED BY <1>1, <1>5 DEF Worth

LEMMA WorthGrows ==
  ASSUME NEW x \in Cells, NEW y \in Cells, NEW A \in SUBSET DOMAIN x
  PROVE  Worth(x \o y, A) = Worth(x, A)
<1>1. \A c \in A : (x \o y)[c] = x[c]
  BY DEF Cells
<1>2. TokensOf(x \o y, A) = TokensOf(x, A)
  BY <1>1 DEF TokensOf
<1>3. IsFiniteSet(TokensOf(x, A)) /\ \A c \in TokensOf(x, A) : x[c].amount \in Nat
  BY CellFacts
<1>4. \A c \in TokensOf(x, A) : (x \o y)[c].amount = x[c].amount
  BY <1>1, CellFacts
<1> DEFINE z == x \o y
           V == TokensOf(x, A)
<1>5. /\ IsFiniteSet(V)
      /\ \A c \in V : x[c].amount \in Nat /\ z[c].amount = x[c].amount
  BY <1>3, <1>4
<1> HIDE DEF z, V
<1>6. Total(z, V) = Total(x, V)
  BY <1>5, TotalSame
<1> QED BY <1>2, <1>6 DEF Worth, z, V

\* The outputs of a transaction are cells of the chain.
LEMMA WorthOfOutputs ==
  ASSUME NEW x \in Cells, NEW y \in Cells
  PROVE  Worth(x \o y, DOMAIN (x \o y) \ DOMAIN x) = Worth(y, DOMAIN y)
<1> DEFINE z == x \o y
           h == [i \in 1 .. Len(y) |-> Len(x) + i]
           A == TokensOf(y, DOMAIN y)
<1>1. /\ DOMAIN x = 1 .. Len(x) /\ Len(x) \in Nat
      /\ DOMAIN y = 1 .. Len(y) /\ Len(y) \in Nat
      /\ DOMAIN z = 1 .. Len(x) + Len(y)
  BY DEF Cells
<1>2. \A i \in DOMAIN y : h[i] = Len(x) + i /\ z[h[i]] = y[i] /\ h[i] \in DOMAIN z \ DOMAIN x
  BY <1>1 DEF Cells
<1>3. \A c \in DOMAIN z \ DOMAIN x : \E i \in DOMAIN y : c = h[i]
  <2>1. SUFFICES ASSUME NEW c \in DOMAIN z \ DOMAIN x PROVE \E i \in DOMAIN y : c = h[i]
    OBVIOUS
  <2>2. c - Len(x) \in DOMAIN y /\ Len(x) + (c - Len(x)) = c
    BY <1>1
  <2>3. h[c - Len(x)] = c
    BY <1>1, <2>2
  <2> QED BY <2>2, <2>3
<1>4. \A i, j \in A : h[i] = h[j] => i = j
  BY <1>1, <1>2 DEF TokensOf
<1>5. TokensOf(z, DOMAIN z \ DOMAIN x) = {h[i] : i \in A}
  <2> HIDE DEF h, z
  <2> QED BY <1>2, <1>3 DEF TokensOf
<1>6. IsFiniteSet(A) /\ A \in SUBSET DOMAIN y /\ \A i \in A : y[i].amount \in Nat
  BY CellFacts
<1>7. \A i \in A : z[h[i]].amount = y[i].amount
  BY <1>2, <1>6
<1>8. Total(z, {h[i] : i \in A}) = Total(y, A)
  <2> HIDE DEF h, z, A
  <2> QED BY <1>4, <1>6, <1>7, TotalRenamed
<1> QED BY <1>5, <1>8 DEF Worth

\* What is live after a transaction is worth what was, without its inputs and with its outputs.
LEMMA WorthAfter ==
  ASSUME NEW x \in Cells, NEW y \in Cells, NEW A \in SUBSET DOMAIN x, NEW Q \in SUBSET A
  PROVE  Worth(x \o y, (A \ Q) \cup (DOMAIN (x \o y) \ DOMAIN x))
           = Worth(x, A) - Worth(x, Q) + Worth(y, DOMAIN y)
<1> DEFINE z == x \o y
           N == DOMAIN z \ DOMAIN x
<1>1. z \in Cells /\ DOMAIN x \subseteq DOMAIN z
  BY DEF Cells
<1>2. Worth(z, (A \ Q) \cup N) = Worth(z, A \ Q) + Worth(z, N)
  <2>1. A \ Q \in SUBSET DOMAIN z /\ N \in SUBSET DOMAIN z /\ (A \ Q) \cap N = {}
    BY <1>1
  <2> HIDE DEF z, N
  <2> QED BY <1>1, <2>1, WorthUnion
<1>3. Worth(z, A \ Q) = Worth(x, A \ Q)
  BY WorthGrows
<1>4. Worth(x, A) = Worth(x, A \ Q) + Worth(x, Q)
  <2>1. A \ Q \in SUBSET DOMAIN x /\ Q \in SUBSET DOMAIN x /\ (A \ Q) \cap Q = {}
    OBVIOUS
  <2>2. (A \ Q) \cup Q = A
    OBVIOUS
  <2>3. Worth(x, (A \ Q) \cup Q) = Worth(x, A \ Q) + Worth(x, Q)
    BY <2>1, WorthUnion
  <2> QED BY <2>2, <2>3
<1>5. Worth(x, A \ Q) \in Nat /\ Worth(x, Q) \in Nat /\ Worth(y, DOMAIN y) \in Nat
  BY WorthNat
<1>6. Worth(z, N) = Worth(y, DOMAIN y)
  BY WorthOfOutputs
<1>7. Worth(z, (A \ Q) \cup N) = Worth(x, A \ Q) + Worth(y, DOMAIN y)
  BY <1>2, <1>3, <1>6
<1> HIDE DEF z, N
<1>8. Worth(z, (A \ Q) \cup N) = Worth(x, A) - Worth(x, Q) + Worth(y, DOMAIN y)
  BY <1>4, <1>5, <1>7
<1> QED BY <1>8 DEF z, N

-----------------------------------------------------------------------------
(***************************************************************************)
(* The cells of the Token Lab.                                             *)
(***************************************************************************)

\* A cell of another asset, or a token with more data than its amount.
Foreign(cell) ==
  \/ cell.type = "other"
  \/ cell.type = "token" /\ cell.extended /\ cell.amount > 0

\* From its draft on, what comes out of a transaction is what its action makes of what goes
\* in, and nothing foreign goes in or comes out.
Accounted(x, tx) ==
  /\ tx \in T!Tx /\ tx.inputs \subseteq DOMAIN x
  /\ \A c \in tx.inputs : ~Foreign(x[c])
  /\ \A i \in DOMAIN tx.outputs : ~Foreign(tx.outputs[i])
  /\ T!assertTokenAccounting(tx.action, Worth(x, tx.inputs),
                             Worth(tx.outputs, DOMAIN tx.outputs), tx.amount)

TokenInv ==
  /\ coins \in Cells /\ Len(coins) <= MaxCoins
  /\ unspent \subseteq DOMAIN coins
  /\ user \in Holders
  /\ work # None => work \in T!Work /\ Accounted(coins, work.tx)
  /\ \A tx \in pool : Accounted(coins, tx)
  /\ supply = Worth(coins, unspent)
  /\ \A c \in DOMAIN coins : Foreign(coins[c]) => c \in unspent

LEMMA TokenInvKept == TokenInv => T!TypeOK /\ T!TokensAreKept
<1> SUFFICES ASSUME TokenInv PROVE T!TypeOK /\ T!TokensAreKept
  OBVIOUS
<1>1. T!TypeOK
  BY WorthNat DEF TokenInv, T!TypeOK, Accounted, Cells
<1>2. T!Sum(T!Tokens(unspent)) = supply
  BY TokenSums DEF TokenInv, Worth
<1>3. T!Others(DOMAIN coins) \subseteq unspent
  BY DEF TokenInv, T!Others, Foreign
<1> QED BY <1>1, <1>2, <1>3 DEF T!TokensAreKept

LEMMA TokenInitInv == T!Init => TokenInv
<1> SUFFICES ASSUME T!Init PROVE TokenInv
  OBVIOUS
<1>1. T!Sum(T!Tokens(unspent)) = Worth(coins, unspent)
  BY TokenSums DEF Worth
<1> QED BY <1>1, TokensAssumption DEF T!Init, TokenInv, Cells

\* The cells of a transaction stay what they are when others are added.
LEMMA AccountedGrows ==
  ASSUME NEW x \in Cells, NEW y \in Cells, NEW tx, Accounted(x, tx)
  PROVE  Accounted(x \o y, tx)
<1>1. tx.inputs \subseteq DOMAIN x /\ DOMAIN x \subseteq DOMAIN (x \o y)
  BY DEF Accounted, Cells
<1>2. \A c \in tx.inputs : (x \o y)[c] = x[c]
  BY <1>1 DEF Cells
<1>3. Worth(x \o y, tx.inputs) = Worth(x, tx.inputs)
  BY <1>1, WorthGrows
<1> QED BY <1>1, <1>2, <1>3 DEF Accounted

\* Cells without foreign ones are added and others, not foreign, are spent.
LEMMA TokenSpendInv ==
  ASSUME TokenInv, NEW inputs \in SUBSET unspent, NEW outputs \in Cells, T!Spend(inputs, outputs),
         \A c \in inputs : ~Foreign(coins[c]), \A i \in DOMAIN outputs : ~Foreign(outputs[i])
  PROVE  /\ coins' \in Cells /\ Len(coins') <= MaxCoins /\ unspent' \subseteq DOMAIN coins'
         /\ \A c \in DOMAIN coins' : Foreign(coins'[c]) => c \in unspent'
         /\ Worth(coins', unspent')
              = Worth(coins, unspent) - Worth(coins, inputs) + Worth(outputs, DOMAIN outputs)
         /\ Worth(coins, unspent) \in Nat /\ Worth(coins, inputs) \in Nat
         /\ Worth(outputs, DOMAIN outputs) \in Nat
         /\ \A tx : Accounted(coins, tx) => Accounted(coins', tx)
<1>1. /\ coins \in Cells /\ unspent \in SUBSET DOMAIN coins
      /\ coins' = coins \o outputs /\ Len(coins) + Len(outputs) <= MaxCoins
      /\ unspent' = (unspent \ inputs) \cup (DOMAIN coins' \ DOMAIN coins)
  BY DEF TokenInv, T!Spend
<1>2. /\ DOMAIN coins = 1 .. Len(coins) /\ Len(coins) \in Nat
      /\ DOMAIN outputs = 1 .. Len(outputs) /\ Len(outputs) \in Nat
      /\ coins' \in Cells /\ DOMAIN coins' = 1 .. Len(coins) + Len(outputs)
      /\ Len(coins') = Len(coins) + Len(outputs)
      /\ \A c \in DOMAIN coins : coins'[c] = coins[c]
      /\ \A c \in DOMAIN coins' \ DOMAIN coins :
           c - Len(coins) \in DOMAIN outputs /\ coins'[c] = outputs[c - Len(coins)]
  BY <1>1 DEF Cells
<1>3. unspent' \subseteq DOMAIN coins'
  BY <1>1, <1>2
<1>4. ASSUME NEW c \in DOMAIN coins', Foreign(coins'[c]) PROVE c \in unspent'
  <2>1. c \in DOMAIN coins /\ Foreign(coins[c])
    BY <1>2, <1>4
  <2> QED BY <1>1, <1>2, <2>1 DEF TokenInv
<1>5. Worth(coins', unspent')
        = Worth(coins, unspent) - Worth(coins, inputs) + Worth(outputs, DOMAIN outputs)
  BY <1>1, WorthAfter
<1>6. /\ Worth(coins, unspent) \in Nat /\ Worth(coins, inputs) \in Nat
      /\ Worth(outputs, DOMAIN outputs) \in Nat
  <2>1. inputs \in SUBSET DOMAIN coins
    BY <1>1
  <2> QED BY <1>1, <2>1, WorthNat
<1>7. \A tx : Accounted(coins, tx) => Accounted(coins', tx)
  BY <1>1, AccountedGrows
<1> QED BY <1>1, <1>2, <1>3, <1>4, <1>5, <1>6, <1>7

LEMMA TokenCommitInv == ASSUME TokenInv, T!Commit PROVE TokenInv'
<1>1. PICK tx \in pool :
        /\ tx.inputs \subseteq unspent
        /\ T!Spend(tx.inputs, tx.outputs)
        /\ pool' = pool \ {tx}
        /\ supply' = CASE tx.action = "MINT" -> supply + tx.amount
                       [] tx.action = "BURN" -> supply - tx.amount
                       [] tx.action = "TRANSFER" -> supply
        /\ UNCHANGED <<user, work>>
  BY DEF T!Commit
<1>2. Accounted(coins, tx)
  BY DEF TokenInv
<1>3. /\ tx.outputs \in Cells /\ tx.inputs \in SUBSET unspent
      /\ \A c \in tx.inputs : ~Foreign(coins[c])
      /\ \A i \in DOMAIN tx.outputs : ~Foreign(tx.outputs[i])
      /\ tx.amount \in Nat /\ tx.action \in {"MINT", "TRANSFER", "BURN"}
  BY <1>1, <1>2, TokensAssumption DEF Accounted, T!Tx, T!TokenAction, Cells
<1> DEFINE in == Worth(coins, tx.inputs)
           out == Worth(tx.outputs, DOMAIN tx.outputs)
<1>4. /\ coins' \in Cells /\ Len(coins') <= MaxCoins /\ unspent' \subseteq DOMAIN coins'
      /\ \A c \in DOMAIN coins' : Foreign(coins'[c]) => c \in unspent'
      /\ Worth(coins', unspent') = Worth(coins, unspent) - in + out
      /\ Worth(coins, unspent) \in Nat /\ in \in Nat /\ out \in Nat
      /\ \A t : Accounted(coins, t) => Accounted(coins', t)
  BY <1>1, <1>3, TokenSpendInv
<1>5. T!assertTokenAccounting(tx.action, in, out, tx.amount)
  BY <1>2 DEF Accounted
<1> HIDE DEF in, out
<1>6. supply' = Worth(coins', unspent')
  <2>1. supply = Worth(coins, unspent)
    BY DEF TokenInv
  <2>2. supply \in Nat
    BY <2>1, <1>4
  <2>3. CASE tx.action = "MINT"
    <3>1. out = in + tx.amount /\ supply' = supply + tx.amount
      BY <1>1, <1>5, <2>3 DEF T!assertTokenAccounting
    <3> QED BY <3>1, <1>3, <1>4, <2>1, <2>2
  <2>4. CASE tx.action = "BURN"
    <3>1. out = in - tx.amount /\ supply' = supply - tx.amount
      BY <1>1, <1>5, <2>4 DEF T!assertTokenAccounting
    <3> QED BY <3>1, <1>3, <1>4, <2>1, <2>2
  <2>5. CASE tx.action = "TRANSFER"
    <3>1. out = in /\ supply' = supply
      BY <1>1, <1>5, <2>5 DEF T!assertTokenAccounting
    <3> QED BY <3>1, <1>3, <1>4, <2>1, <2>2
  <2> QED BY <1>3, <2>3, <2>4, <2>5
<1>7. \A t \in pool' : Accounted(coins', t)
  BY <1>1, <1>4 DEF TokenInv
<1>8. work' # None => work' \in T!Work /\ Accounted(coins', work'.tx)
  BY <1>1, <1>4 DEF TokenInv
<1> QED BY <1>1, <1>4, <1>6, <1>7, <1>8 DEF TokenInv

LEMMA TokenElsewhereInv == ASSUME TokenInv, T!Elsewhere PROVE TokenInv'
<1>1. PICK c \in T!Tokens(unspent) \ T!Others(unspent) :
        \E w \in Holders \ {coins[c].lock} :
          /\ T!Spend({c}, <<[coins[c] EXCEPT !.lock = w]>>)
          /\ pool' = {tx \in pool : c \notin tx.inputs}
          /\ UNCHANGED <<user, work, supply>>
  BY DEF T!Elsewhere
<1>2. PICK w \in Holders \ {coins[c].lock} :
        /\ T!Spend({c}, <<[coins[c] EXCEPT !.lock = w]>>)
        /\ pool' = {tx \in pool : c \notin tx.inputs}
        /\ UNCHANGED <<user, work, supply>>
  BY <1>1
<1> DEFINE given == [coins[c] EXCEPT !.lock = w]
           out == <<given>>
<1>3. c \in unspent /\ c \in DOMAIN coins /\ coins[c] \in T!Cell /\ coins[c].type = "token"
  BY DEF T!Tokens, TokenInv, Cells
<1>4. ~Foreign(coins[c])
  BY <1>3 DEF T!Others, Foreign
<1>5. /\ given \in T!Cell /\ given.type = "token" /\ given.amount = coins[c].amount
      /\ ~Foreign(given)
  BY <1>3, <1>4 DEF T!Cell, Foreign
<1>6. out \in Cells /\ DOMAIN out = {1} /\ out[1] = given
  <2> HIDE DEF given
  <2> QED BY <1>5 DEF Cells
<1>7. coins[c].amount \in Nat
  BY <1>3, TokensAssumption DEF T!Cell
<1>8. Worth(coins, {c}) = coins[c].amount
  <2>1. TokensOf(coins, {c}) = {c}
    BY <1>3 DEF TokensOf
  <2> QED BY <2>1, <1>7, TotalOne DEF Worth
<1>9. Worth(out, DOMAIN out) = coins[c].amount
  <2> HIDE DEF out
  <2>1. TokensOf(out, DOMAIN out) = {1}
    BY <1>5, <1>6 DEF TokensOf
  <2>2. out[1].amount = coins[c].amount
    BY <1>5, <1>6
  <2> QED BY <2>1, <2>2, <1>7, TotalOne DEF Worth
<1> HIDE DEF given
<1>10. T!Spend({c}, out)
  BY <1>2 DEF given
<1> HIDE DEF out
<1>11. {c} \in SUBSET unspent /\ \A i \in DOMAIN out : ~Foreign(out[i])
  BY <1>3, <1>5, <1>6
<1>12. /\ coins' \in Cells /\ Len(coins') <= MaxCoins /\ unspent' \subseteq DOMAIN coins'
       /\ \A d \in DOMAIN coins' : Foreign(coins'[d]) => d \in unspent'
       /\ Worth(coins', unspent')
            = Worth(coins, unspent) - Worth(coins, {c}) + Worth(out, DOMAIN out)
       /\ Worth(coins, unspent) \in Nat
       /\ \A t : Accounted(coins, t) => Accounted(coins', t)
  BY <1>4, <1>6, <1>10, <1>11, TokenSpendInv
<1>13. supply' = Worth(coins', unspent')
  <2>1. Worth(coins', unspent') = Worth(coins, unspent)
    BY <1>7, <1>8, <1>9, <1>12
  <2> QED BY <1>2, <2>1 DEF TokenInv
<1>14. \A t \in pool' : Accounted(coins', t)
  BY <1>2, <1>12 DEF TokenInv
<1>15. work' # None => work' \in T!Work /\ Accounted(coins', work'.tx)
  BY <1>2, <1>12 DEF TokenInv
<1> QED BY <1>2, <1>12, <1>13, <1>14, <1>15 DEF TokenInv

\* A step of the lab that leaves the chain and the node alone.
LEMMA LabStepInv ==
  ASSUME TokenInv, UNCHANGED <<coins, unspent, supply, user>>,
         work' # None => work' \in T!Work /\ Accounted(coins, work'.tx),
         \A tx \in pool' : Accounted(coins, tx)
  PROVE  TokenInv'
  BY DEF TokenInv

\* What a wallet makes is a cell, and not foreign.
LEMMA MadeCells ==
  ASSUME NEW holder \in Holders, NEW n \in 0 .. U128_MAX
  PROVE  /\ T!Token(holder, n) \in T!Cell /\ ~Foreign(T!Token(holder, n))
         /\ T!Token(holder, n).type = "token" /\ T!Token(holder, n).amount = n
         /\ T!Plain(holder) \in T!Cell /\ ~Foreign(T!Plain(holder))
         /\ T!Plain(holder).type = "none"
  BY TokensAssumption DEF T!Token, T!Plain, T!Cell, Foreign

\* What outputs are worth: none, one of tokens, one more.
LEMMA WorthEmpty == <<>> \in Cells /\ Worth(<<>>, DOMAIN <<>>) = 0
<1>1. TokensOf(<<>>, DOMAIN <<>>) = {}
  BY DEF TokensOf
<1>2. Worth(<<>>, DOMAIN <<>>) = Total(<<>>, {})
  BY <1>1 DEF Worth
<1>3. <<>> \in Cells
  BY DEF Cells
<1> QED BY <1>2, <1>3, TotalEmpty

LEMMA WorthOne ==
  ASSUME NEW cell \in T!Cell
  PROVE  /\ <<cell>> \in Cells
         /\ Worth(<<cell>>, DOMAIN <<cell>>) = IF cell.type = "token" THEN cell.amount ELSE 0
<1> DEFINE out == <<cell>>
<1>1. out \in Cells /\ DOMAIN out = {1} /\ out[1] = cell /\ cell.amount \in Nat
  BY TokensAssumption DEF Cells, T!Cell
<1> HIDE DEF out
<1>2. CASE cell.type = "token"
  <2>1. TokensOf(out, DOMAIN out) = {1}
    BY <1>1, <1>2 DEF TokensOf
  <2> QED BY <1>1, <1>2, <2>1, TotalOne DEF Worth, out
<1>3. CASE cell.type # "token"
  <2>1. TokensOf(out, DOMAIN out) = {}
    BY <1>1, <1>3 DEF TokensOf
  <2> QED BY <1>1, <1>3, <2>1, TotalEmpty DEF Worth, out
<1> QED BY <1>2, <1>3

LEMMA WorthAppend ==
  ASSUME NEW x \in Cells, NEW y \in Cells
  PROVE  /\ x \o y \in Cells
         /\ Worth(x \o y, DOMAIN (x \o y)) = Worth(x, DOMAIN x) + Worth(y, DOMAIN y)
         /\ Worth(x, DOMAIN x) \in Nat /\ Worth(y, DOMAIN y) \in Nat
<1> DEFINE z == x \o y
           N == DOMAIN z \ DOMAIN x
<1>1. z \in Cells /\ N \in SUBSET DOMAIN z /\ DOMAIN x \in SUBSET DOMAIN z
      /\ DOMAIN x \cup N = DOMAIN z /\ DOMAIN x \cap N = {}
  BY DEF Cells
<1>2. Worth(z, DOMAIN x) = Worth(x, DOMAIN x) /\ Worth(z, N) = Worth(y, DOMAIN y)
  BY WorthGrows, WorthOfOutputs
<1>3. Worth(x, DOMAIN x) \in Nat /\ Worth(y, DOMAIN y) \in Nat
  BY WorthNat
<1> HIDE DEF z, N
<1>4. Worth(z, DOMAIN x \cup N) = Worth(z, DOMAIN x) + Worth(z, N)
  BY <1>1, WorthUnion
<1>5. z \in Cells /\ Worth(z, DOMAIN z) = Worth(x, DOMAIN x) + Worth(y, DOMAIN y)
  BY <1>1, <1>2, <1>4
<1> QED BY <1>3, <1>5 DEF z

\* A draft that is accounted for is what the page prepares.
LEMMA DraftedInv ==
  ASSUME TokenInv, NEW action \in T!TokenAction, NEW amount \in Amounts,
         NEW inputs \in SUBSET unspent, NEW outputs \in Cells,
         T!Drafted(action, amount, inputs, outputs),
         \A c \in inputs : ~Foreign(coins[c]), \A i \in DOMAIN outputs : ~Foreign(outputs[i]),
         T!assertTokenAccounting(action, Worth(coins, inputs),
                                 Worth(outputs, DOMAIN outputs), amount)
  PROVE  TokenInv'
<1> DEFINE tx == [inputs |-> inputs, outputs |-> outputs, action |-> action,
                  amount |-> amount]
<1>1. /\ work' = [at |-> "capacity", left |-> {}, tx |-> tx]
      /\ UNCHANGED <<coins, unspent, supply, user, pool>>
  BY DEF T!Drafted, T!Becomes, T!chain
<1>2. inputs \subseteq DOMAIN coins /\ DOMAIN coins \subseteq 1 .. MaxCoins
  BY TokensAssumption DEF TokenInv, Cells
<1>3. tx \in T!Tx
  BY <1>2 DEF T!Tx, Cells
<1>4. Accounted(coins, tx)
  BY <1>2, <1>3 DEF Accounted
<1>5. work' \in T!Work /\ work'.tx = tx
  BY <1>1, <1>3 DEF T!Work
<1>6. \A t \in pool' : Accounted(coins, t)
  BY <1>1 DEF TokenInv
<1> HIDE DEF tx
<1> QED BY <1>1, <1>4, <1>5, <1>6, LabStepInv

LEMMA LeastCell ==
  ASSUME TokenInv, NEW A \in SUBSET unspent, A # {}
  PROVE  T!Min(A) \in A /\ A \subseteq Nat
<1>1. A \subseteq Nat
  BY DEF TokenInv, Cells
<1>2. \E n \in A : \A m \in A : n <= m
  BY <1>1, LeastNatural
<1> QED BY <1>1, <1>2 DEF T!Min

LEMMA MintInv == ASSUME TokenInv, T!mint PROVE TokenInv'
<1> DEFINE plain == {c \in unspent : coins[c] = T!Plain(user)}
<1>1. plain # {}
  BY DEF T!mint
<1>2. PICK amount \in Amounts \ {0}, to \in Holders :
        T!Drafted("MINT", amount, {T!Min(plain)}, <<T!Token(to, amount)>>)
  BY DEF T!mint
<1> DEFINE c == T!Min(plain)
<1>3. c \in unspent /\ coins[c] = T!Plain(user) /\ user \in Holders
  <2>1. plain \in SUBSET unspent /\ \A d \in plain : coins[d] = T!Plain(user)
    OBVIOUS
  <2> HIDE DEF plain
  <2>2. T!Min(plain) \in plain
    BY <1>1, <2>1, LeastCell
  <2>3. user \in Holders
    BY DEF TokenInv
  <2> QED BY <2>1, <2>2, <2>3
<1> HIDE DEF c, plain
<1>4. amount \in 0 .. U128_MAX /\ amount \in Nat
  BY <1>2, TokensAssumption
<1>5. /\ coins[c].type = "none" /\ ~Foreign(coins[c])
  BY <1>3, <1>4, MadeCells
<1> DEFINE cell == T!Token(to, amount)
<1>6. cell \in T!Cell /\ ~Foreign(cell) /\ cell.type = "token" /\ cell.amount = amount
  BY <1>4, MadeCells
<1> HIDE DEF cell
<1>7. <<cell>> \in Cells /\ Worth(<<cell>>, DOMAIN <<cell>>) = amount
  BY <1>6, WorthOne
<1>8. Worth(coins, {c}) = 0
  <2>1. TokensOf(coins, {c}) = {}
    BY <1>5 DEF TokensOf
  <2> QED BY <2>1, TotalEmpty DEF Worth
<1>9. T!assertTokenAccounting("MINT", 0, amount, amount)
  BY <1>4 DEF T!assertTokenAccounting
<1>10. "MINT" \in T!TokenAction /\ {c} \in SUBSET unspent /\ amount \in Amounts
  BY <1>2, <1>3 DEF T!TokenAction
<1>11. \A i \in DOMAIN <<cell>> : ~Foreign(<<cell>>[i])
  BY <1>6
<1>12. T!Drafted("MINT", amount, {c}, <<cell>>)
  BY <1>2 DEF c, cell
<1> QED BY <1>5, <1>7, <1>8, <1>9, <1>10, <1>11, <1>12, DraftedInv

\* What a transfer and a burn spend: cells of the wallet, worth the amount and in range.
LEMMA ChosenCells ==
  ASSUME TokenInv, NEW amount \in Amounts,
         NEW enough, NEW inputs,
         enough = {n \in T!ownedTokenCells :
                     T!Sum({c \in T!ownedTokenCells : c <= n}) >= amount},
         enough # {}, inputs = {c \in T!ownedTokenCells : c <= T!Min(enough)}
  PROVE  /\ inputs \in SUBSET unspent /\ \A c \in inputs : ~Foreign(coins[c])
         /\ T!Sum(inputs) = Worth(coins, inputs)
         /\ Worth(coins, inputs) \in amount .. U128_MAX
<1> DEFINE own == T!ownedTokenCells
<1>1. /\ own \in SUBSET unspent /\ own \in SUBSET DOMAIN coins
      /\ \A c \in own : coins[c].type = "token" /\ ~coins[c].extended
      /\ own # {} => T!Sum(own) <= U128_MAX
  <2> DEFINE mine == T!Tokens({c \in unspent : coins[c].lock = user})
  <2>1. \/ own = {}
        \/ own = mine /\ ~(\E c \in mine : coins[c].extended) /\ T!InRange(T!Sum(mine))
    BY DEF T!ownedTokenCells
  <2>2. mine \in SUBSET unspent /\ \A c \in mine : coins[c].type = "token"
    BY DEF T!Tokens
  <2>3. unspent \subseteq DOMAIN coins
    BY DEF TokenInv
  <2> HIDE DEF own, mine
  <2> QED BY <2>1, <2>2, <2>3 DEF T!InRange
<1>2. T!Min(enough) \in enough
  BY <1>1, LeastCell
<1> HIDE DEF own
<1>3. inputs \in SUBSET own /\ own # {} /\ T!Sum(inputs) >= amount
  BY <1>2 DEF own
<1>4. \A A \in SUBSET own : TokensOf(coins, A) = A
  BY <1>1 DEF TokensOf
<1>5. T!Sum(inputs) = Worth(coins, inputs) /\ T!Sum(own) = Worth(coins, own)
  BY <1>3, <1>4, TokenSums DEF Worth
<1>6. coins \in Cells /\ IsFiniteSet(own) /\ \A c \in own : coins[c].amount \in Nat
  <2>1. coins \in Cells
    BY DEF TokenInv
  <2> QED BY <1>1, <2>1, CellFacts
<1>7. Total(coins, inputs) <= Total(coins, own)
  BY <1>3, <1>6, TotalMonotone
<1>8. Worth(coins, inputs) <= Worth(coins, own)
  BY <1>3, <1>4, <1>7 DEF Worth
<1>9. Worth(coins, inputs) \in Nat /\ Worth(coins, own) \in Nat
  BY <1>1, <1>3, <1>6, WorthNat
<1>10. Worth(coins, inputs) \in amount .. U128_MAX
  <2>1. amount \in Nat /\ U128_MAX \in Nat
    BY TokensAssumption
  <2> QED BY <1>1, <1>3, <1>5, <1>8, <1>9, <2>1
<1>11. \A c \in inputs : ~Foreign(coins[c])
  BY <1>1, <1>3 DEF Foreign
<1> QED BY <1>1, <1>3, <1>5, <1>10, <1>11

LEMMA MoveInv == ASSUME TokenInv, T!move PROVE TokenInv'
<1> DEFINE own == T!ownedTokenCells
           UpTo(n) == {c \in own : c <= n}
<1>1. PICK amount \in Amounts \ {0} :
        LET enough == {n \in own : T!Sum(UpTo(n)) >= amount}
            inputs == UpTo(T!Min(enough))
            change == T!Sum(inputs) - amount
            back == IF change > 0 THEN <<T!Token(user, change)>> ELSE <<>>
        IN
          /\ enough # {}
          /\ \/ T!Drafted("BURN", amount, inputs, back)
             \/ \E to \in Holders :
                  T!Drafted("TRANSFER", amount, inputs, <<T!Token(to, amount)>> \o back)
  BY DEF T!move
<1> DEFINE enough == {n \in own : T!Sum(UpTo(n)) >= amount}
           inputs == UpTo(T!Min(enough))
           change == T!Sum(inputs) - amount
           back == IF change > 0 THEN <<T!Token(user, change)>> ELSE <<>>
<1>2. /\ enough # {}
      /\ \/ T!Drafted("BURN", amount, inputs, back)
         \/ \E to \in Holders :
              T!Drafted("TRANSFER", amount, inputs, <<T!Token(to, amount)>> \o back)
  BY <1>1
<1>3. /\ inputs \in SUBSET unspent /\ \A c \in inputs : ~Foreign(coins[c])
      /\ T!Sum(inputs) = Worth(coins, inputs)
      /\ Worth(coins, inputs) \in amount .. U128_MAX
  BY <1>2, ChosenCells
<1> HIDE DEF own, UpTo, enough, inputs
<1>4. /\ amount \in Amounts /\ amount \in Nat /\ amount \in 0 .. U128_MAX
      /\ user \in Holders /\ U128_MAX \in Nat
  BY TokensAssumption DEF TokenInv
<1>5. change \in 0 .. U128_MAX /\ change = Worth(coins, inputs) - amount
      /\ Worth(coins, inputs) \in Nat
  BY <1>3, <1>4
<1> HIDE DEF change
<1>6. /\ back \in Cells /\ \A i \in DOMAIN back : ~Foreign(back[i])
      /\ Worth(back, DOMAIN back) = change
  <2>1. CASE change > 0
    <3> DEFINE cell == T!Token(user, change)
    <3>1. cell \in T!Cell /\ ~Foreign(cell) /\ cell.type = "token" /\ cell.amount = change
      BY <1>4, <1>5, MadeCells
    <3>2. back = <<cell>>
      BY <2>1
    <3> HIDE DEF cell, back
    <3> QED BY <3>1, <3>2, WorthOne
  <2>2. CASE ~(change > 0)
    <3>1. back = <<>> /\ change = 0
      BY <1>5, <2>2
    <3> HIDE DEF back
    <3> QED BY <3>1, WorthEmpty
  <2> QED BY <2>1, <2>2
<1> HIDE DEF back
<1>7. CASE T!Drafted("BURN", amount, inputs, back)
  <2>1. T!assertTokenAccounting("BURN", Worth(coins, inputs), Worth(back, DOMAIN back), amount)
    BY <1>5, <1>6 DEF T!assertTokenAccounting
  <2>2. "BURN" \in T!TokenAction
    BY DEF T!TokenAction
  <2> QED BY <1>3, <1>4, <1>6, <1>7, <2>1, <2>2, DraftedInv
<1>8. CASE \E to \in Holders :
             T!Drafted("TRANSFER", amount, inputs, <<T!Token(to, amount)>> \o back)
  <2>1. PICK to \in Holders :
          T!Drafted("TRANSFER", amount, inputs, <<T!Token(to, amount)>> \o back)
    BY <1>8
  <2> DEFINE cell == T!Token(to, amount)
             outputs == <<cell>> \o back
  <2>2. cell \in T!Cell /\ ~Foreign(cell) /\ cell.type = "token" /\ cell.amount = amount
    BY <1>4, MadeCells
  <2>3. T!Drafted("TRANSFER", amount, inputs, outputs)
    BY <2>1
  <2> HIDE DEF cell
  <2>4. <<cell>> \in Cells /\ Worth(<<cell>>, DOMAIN <<cell>>) = amount
    BY <2>2, WorthOne
  <2>5. outputs \in Cells /\ Worth(outputs, DOMAIN outputs) = amount + change
    BY <1>6, <2>4, WorthAppend
  <2>6. \A i \in DOMAIN outputs : ~Foreign(outputs[i])
    <3>1. \A i \in DOMAIN outputs : \/ i = 1 /\ outputs[i] = cell
                                    \/ i - 1 \in DOMAIN back /\ outputs[i] = back[i - 1]
      BY <1>6 DEF Cells
    <3> QED BY <1>6, <2>2, <3>1
  <2> HIDE DEF outputs
  <2>7. T!assertTokenAccounting("TRANSFER", Worth(coins, inputs),
                                Worth(outputs, DOMAIN outputs), amount)
    BY <1>4, <1>5, <2>5 DEF T!assertTokenAccounting
  <2>8. "TRANSFER" \in T!TokenAction
    BY DEF T!TokenAction
  <2> QED BY <1>3, <1>4, <2>3, <2>5, <2>6, <2>7, <2>8, DraftedInv
<1> QED BY <1>2, <1>7, <1>8

\* What completes a transaction that is accounted for, and leaves it so, brings no foreign
\* tokens in: they would have to come out.
LEMMA CompleteInv == ASSUME TokenInv, T!complete PROVE TokenInv'
<1> DEFINE tx == work.tx
<1>1. PICK more \in {{}} \cup {{c} : c \in {k \in unspent \ tx.inputs : coins[k].lock = user}} :
        LET inputs == tx.inputs \cup more IN
          /\ \A c \in inputs : coins[c].type # "other"
          /\ T!assertTokenAccounting(tx.action, T!Sum(T!Tokens(inputs)),
                                     T!OutputSum(tx.outputs), tx.amount)
          /\ T!Becomes([work EXCEPT !.at = "review", !.tx.inputs = inputs,
                                    !.tx.outputs = Append(@, T!Plain(user))])
  BY DEF T!complete
<1> DEFINE inputs == tx.inputs \cup more
           last == T!Plain(user)
           outputs == tx.outputs \o <<last>>
           done == [tx EXCEPT !.inputs = inputs, !.outputs = outputs]
<1>2. work # None /\ work \in T!Work /\ Accounted(coins, tx) /\ user \in Holders
  BY DEF T!complete, T!At, TokenInv
<1>3. /\ tx \in T!Tx /\ tx.inputs \subseteq DOMAIN coins /\ tx.outputs \in Cells
      /\ tx.amount \in Nat /\ tx.action \in {"MINT", "TRANSFER", "BURN"}
      /\ DOMAIN coins \subseteq 1 .. MaxCoins /\ coins \in Cells
  <2>1. coins \in Cells /\ Len(coins) <= MaxCoins /\ MaxCoins \in Nat
    BY TokensAssumption DEF TokenInv
  <2>2. DOMAIN coins \subseteq 1 .. MaxCoins
    BY <2>1 DEF Cells
  <2>3. tx \in T!Tx /\ tx.inputs \subseteq DOMAIN coins
    BY <1>2 DEF Accounted
  <2> HIDE DEF tx
  <2>4. tx.outputs \in Cells /\ tx.amount \in Amounts /\ tx.action \in T!TokenAction
    BY <2>3 DEF T!Tx, Cells
  <2>5. tx.amount \in Nat
    <3>1. Amounts \subseteq Nat
      BY TokensAssumption
    <3> QED BY <2>4, <3>1
  <2> QED BY <2>1, <2>2, <2>3, <2>4, <2>5 DEF T!TokenAction
<1>4. more \subseteq DOMAIN coins /\ more \cap tx.inputs = {}
      /\ (more = {} \/ \E c \in DOMAIN coins : more = {c})
  BY DEF TokenInv
<1>5. /\ T!Sum(T!Tokens(inputs)) = Worth(coins, inputs)
      /\ T!OutputSum(tx.outputs) = Worth(tx.outputs, DOMAIN tx.outputs)
  BY TokenSums DEF Worth
<1>6. Worth(coins, inputs) = Worth(coins, tx.inputs) + Worth(coins, more)
  BY <1>3, <1>4, WorthUnion
<1>7. /\ Worth(coins, tx.inputs) \in Nat /\ Worth(coins, more) \in Nat
      /\ Worth(coins, inputs) \in Nat
  <2>1. inputs \in SUBSET DOMAIN coins
    BY <1>3, <1>4
  <2> HIDE DEF inputs, tx
  <2> QED BY <1>3, <1>4, <2>1, WorthNat
<1>8. /\ T!assertTokenAccounting(tx.action, Worth(coins, tx.inputs),
                                 Worth(tx.outputs, DOMAIN tx.outputs), tx.amount)
      /\ T!assertTokenAccounting(tx.action, Worth(coins, inputs),
                                 Worth(tx.outputs, DOMAIN tx.outputs), tx.amount)
  BY <1>1, <1>2, <1>5 DEF Accounted
<1>9. Worth(coins, more) = 0
  <2> DEFINE in == Worth(coins, tx.inputs)
             all == Worth(coins, inputs)
             out == Worth(tx.outputs, DOMAIN tx.outputs)
  <2>1. in = all
    <3> HIDE DEF in, all, out
    <3>1. in \in Nat /\ all \in Nat
      BY <1>7 DEF in, all
    <3>2. /\ T!assertTokenAccounting(tx.action, in, out, tx.amount)
          /\ T!assertTokenAccounting(tx.action, all, out, tx.amount)
      BY <1>8 DEF in, all, out
    <3> QED BY <1>3, <3>1, <3>2 DEF T!assertTokenAccounting
  <2> QED BY <1>6, <1>7, <2>1
<1>10. \A c \in inputs : ~Foreign(coins[c])
  <2>1. \A c \in tx.inputs : ~Foreign(coins[c])
    BY <1>2 DEF Accounted
  <2>2. ASSUME NEW c \in more PROVE ~Foreign(coins[c])
    <3>1. more = {c} /\ c \in DOMAIN coins /\ coins[c].type # "other"
      BY <1>1, <1>4
    <3>2. coins[c].amount \in Nat
      BY <1>3, <3>1, CellFacts
    <3>3. CASE coins[c].type = "token"
      <4>1. TokensOf(coins, {c}) = {c}
        BY <3>3 DEF TokensOf
      <4>2. Worth(coins, {c}) = coins[c].amount
        BY <3>2, <4>1, TotalOne DEF Worth
      <4> QED BY <1>9, <3>1, <3>2, <4>2 DEF Foreign
    <3> QED BY <3>1, <3>3 DEF Foreign
  <2> QED BY <2>1, <2>2
<1>11. last \in T!Cell /\ ~Foreign(last) /\ last.type = "none"
  BY <1>2, TokensAssumption, MadeCells
<1> HIDE DEF last
<1>12. <<last>> \in Cells /\ Worth(<<last>>, DOMAIN <<last>>) = 0
  BY <1>11, WorthOne
<1>13. /\ outputs \in Cells
       /\ Worth(outputs, DOMAIN outputs) = Worth(tx.outputs, DOMAIN tx.outputs)
  <2> DEFINE before == tx.outputs
             new == <<last>>
  <2>1. before \in Cells /\ new \in Cells /\ Worth(new, DOMAIN new) = 0
    BY <1>3, <1>12
  <2> HIDE DEF before, new
  <2>2. /\ before \o new \in Cells
        /\ Worth(before \o new, DOMAIN (before \o new)) = Worth(before, DOMAIN before) + 0
    BY <2>1, WorthAppend
  <2>3. Worth(before, DOMAIN before) \in Nat
    BY <2>1, WorthNat
  <2> QED BY <2>2, <2>3 DEF before, new
<1>14. \A i \in DOMAIN outputs : ~Foreign(outputs[i])
  <2> DEFINE before == tx.outputs
  <2>1. before \in Cells
    BY <1>3
  <2> HIDE DEF before
  <2>2. \A i \in DOMAIN (before \o <<last>>) :
          \/ i \in DOMAIN before /\ (before \o <<last>>)[i] = before[i]
          \/ (before \o <<last>>)[i] = last
    BY <2>1 DEF Cells
  <2>3. \A i \in DOMAIN outputs : \/ i \in DOMAIN tx.outputs /\ outputs[i] = tx.outputs[i]
                                  \/ outputs[i] = last
    BY <2>2 DEF before
  <2> QED BY <1>2, <1>11, <2>3 DEF Accounted
<1>15. /\ done \in T!Tx /\ done.inputs = inputs /\ done.outputs = outputs
       /\ done.action = tx.action /\ done.amount = tx.amount
  <2>1. inputs \in SUBSET (1 .. MaxCoins)
    BY <1>3, <1>4
  <2> HIDE DEF inputs, outputs, tx
  <2> QED BY <1>3, <1>13, <2>1 DEF T!Tx, Cells
<1>16. Accounted(coins, done)
  <2>1. inputs \subseteq DOMAIN coins
    BY <1>3, <1>4
  <2> HIDE DEF inputs, outputs, tx, done
  <2> QED BY <1>8, <1>10, <1>13, <1>14, <1>15, <2>1 DEF Accounted
<1>17. work' = [work EXCEPT !.at = "review", !.tx = done]
  <2>1. Append(tx.outputs, last) = outputs
    <3> DEFINE before == tx.outputs
    <3>1. before \in Seq(T!Cell) /\ last \in T!Cell
      BY <1>3, <1>11 DEF Cells
    <3> HIDE DEF before
    <3>2. Append(before, last) = before \o <<last>>
      BY <3>1
    <3> QED BY <3>2 DEF before
  <2>2. work' = [work EXCEPT !.at = "review", !.tx.inputs = inputs,
                             !.tx.outputs = Append(@, last)]
    BY <1>1 DEF T!Becomes, last
  <2> QED BY <1>2, <1>3, <2>1, <2>2 DEF T!Work, T!Tx
<1>18. work' \in T!Work /\ work'.tx = done
  <2> HIDE DEF done
  <2> QED BY <1>2, <1>15, <1>17 DEF T!Work
<1>19. UNCHANGED <<coins, unspent, supply, user, pool>>
  BY <1>1 DEF T!Becomes, T!chain
<1>20. \A t \in pool' : Accounted(coins, t)
  BY <1>19 DEF TokenInv
<1> HIDE DEF done
<1> QED BY <1>16, <1>18, <1>19, <1>20, LabStepInv, SMTT(30)

\* A step that leaves the transaction that it is about.
LEMMA SameTxInv ==
  ASSUME TokenInv, work # None, work' \in T!Work, work'.tx = work.tx,
         UNCHANGED <<coins, unspent, supply, user, pool>>
  PROVE  TokenInv'
<1>1. Accounted(coins, work'.tx) /\ \A t \in pool' : Accounted(coins, t)
  BY DEF TokenInv
<1> QED BY <1>1, LabStepInv

LEMMA SubmitTokenInv == ASSUME TokenInv, T!submitToken PROVE TokenInv'
<1>1. work # None /\ work \in T!Work /\ work.tx.inputs \in SUBSET (1 .. MaxCoins)
  BY DEF T!submitToken, T!At, TokenInv, T!Work, T!Tx
<1>2. /\ work' = [work EXCEPT !.at = "check", !.left = work.tx.inputs]
      /\ UNCHANGED <<coins, unspent, supply, user, pool>>
  BY DEF T!submitToken, T!Becomes, T!chain
<1>3. work' \in T!Work /\ work'.tx = work.tx
  BY <1>1, <1>2 DEF T!Work
<1> QED BY <1>1, <1>2, <1>3, SameTxInv

LEMMA GetCellLiveInv == ASSUME TokenInv, T!getCellLive PROVE TokenInv'
<1> DEFINE c == T!Min(work.left)
<1>1. work # None /\ work \in T!Work
  BY DEF T!getCellLive, T!At, TokenInv
<1>2. /\ work' = [work EXCEPT !.left = @ \ {c},
                    !.at = IF work.left = {c} THEN "send" ELSE @]
      /\ UNCHANGED <<coins, unspent, supply, user, pool>>
  BY DEF T!getCellLive, T!Becomes, T!chain
<1> HIDE DEF c
<1>3. work' \in T!Work /\ work'.tx = work.tx
  BY <1>1, <1>2 DEF T!Work
<1> QED BY <1>1, <1>2, <1>3, SameTxInv

LEMMA SendTransactionInv == ASSUME TokenInv, T!sendTransaction PROVE TokenInv'
<1>1. /\ work # None /\ pool' = pool \cup {work.tx} /\ work' = None
      /\ UNCHANGED <<coins, unspent, supply, user>>
  BY DEF T!sendTransaction, T!At, T!chain
<1>2. \A t \in pool' : Accounted(coins, t)
  BY <1>1 DEF TokenInv
<1> QED BY <1>1, <1>2, LabStepInv

LEMMA TokenFailsInv == ASSUME TokenInv, T!Fails PROVE TokenInv'
<1>1. work' = None /\ UNCHANGED <<coins, unspent, supply, user, pool>>
  BY DEF T!Fails, T!Becomes, T!chain
<1>2. \A t \in pool' : Accounted(coins, t)
  BY <1>1 DEF TokenInv
<1> QED BY <1>1, <1>2, LabStepInv

LEMMA TokenNextInv == TokenInv /\ [T!Next]_tokens => TokenInv'
<1> SUFFICES ASSUME TokenInv, [T!Next]_tokens PROVE TokenInv'
  OBVIOUS
<1>1. CASE UNCHANGED tokens
  BY <1>1 DEF tokens, TokenInv
<1> QED BY <1>1, TokenCommitInv, TokenElsewhereInv, MintInv, MoveInv, CompleteInv, SubmitTokenInv,
           GetCellLiveInv, SendTransactionInv, TokenFailsInv
    DEF T!Next

-----------------------------------------------------------------------------
(***************************************************************************)
(* All the parts: each step is of one, and the others keep what they have. *)
(***************************************************************************)

PagesInv ==
  AssetInv /\ SessionInv /\ SnapshotInv /\ StoreInv /\ LockInv /\ TokenInv /\ SporeInv
  /\ ConsoleInv

LEMMA PagesInitInv == PagesInit => PagesInv
  BY AssetInitInv, SessionInitInv, SnapshotInitInv, StoreInitInv, LockInitInv,
     TokenInitInv, SporeInitInv, ConsoleInitInv
  DEF PagesInit, PagesInv

LEMMA PagesNextInv == PagesInv /\ [PagesNext]_pages => PagesInv'
<1> SUFFICES ASSUME PagesInv, [PagesNext]_pages PROVE PagesInv'
  OBVIOUS
<1>1. [Next]_vars
  BY DEF PagesNext, pages, assets
<1>2. [B!Next]_sessions
  BY DEF PagesNext, pages
<1>3. [W!Next]_snapshots
  BY DEF PagesNext, pages
<1>4. [D!Next]_storing
  BY DEF PagesNext, pages
<1>5. [L!Next]_locking
  BY DEF PagesNext, pages
<1>6. [T!Next]_tokens
  BY DEF PagesNext, pages
<1>7. [S!Next]_spores
  BY DEF PagesNext, pages
<1>8. [C!Next]_console
  BY DEF PagesNext, pages
<1> QED
  BY <1>1, <1>2, <1>3, <1>4, <1>5, <1>6, <1>7, <1>8, AssetNextInv, SessionNextInv,
     SnapshotNextInv, StoreNextInv, LockNextInv, TokenNextInv, SporeNextInv, ConsoleNextInv
  DEF PagesInv

LEMMA PagesInvariant == PagesSpec => []PagesInv
  BY PagesInitInv, PagesNextInv, PTL DEF PagesSpec

\* However many tokens and checks there are and whenever the account is switched, a token
\* is of the wallet that signed for it and the session that is shown of a wallet with a
\* token (AuthProvider.tsx); and a snapshot that loads has a read that can end it
\* (useWallet.ts).
THEOREM SessionsAreSigned == PagesSpec => []SessionIsSigned
<1>1. PagesInv => SessionIsSigned
  BY DEF PagesInv, SessionInv, SnapshotInv, SessionIsSigned
<1> QED
  BY <1>1, PagesInvariant, PTL

\* What the data page and the hash-lock lab show belongs to their fields, for every number
\* of operations at once, of transactions and of cells (StoreDataPage.tsx,
\* SimpleLockLabPage.tsx).
THEOREM AnswersAreOfTheForm == PagesSpec => []ShownAnswersTheForm
<1>1. PagesInv => ShownAnswersTheForm
  BY LockInvShows DEF PagesInv, StoreInv, LockInv, ShownAnswersTheForm
<1> QED
  BY <1>1, PagesInvariant, PTL

\* There are as many tokens as there were, with what the reviews of the Token Lab minted and
\* without what they burned, and no cell of another asset, and no token with more data than
\* its amount, was spent: for all amounts, wallets and cells that there may be, in all the
\* transactions that the library may complete, whatever is committed meanwhile (token.ts).
THEOREM NoTokenIsLost == PagesSpec => []TokensAreKept
<1>1. PagesInv => TokensAreKept
  BY TokenInvKept DEF PagesInv, TokensAreKept
<1> QED
  BY <1>1, PagesInvariant, PTL

\* What the Spore Studio calls verified has happened: the transaction was committed, and the
\* asset is where the review said, or is gone if it was melted; what is immortal is never
\* gone.  For all the other wallets, however late the indexer is, and for every number of
\* cells, of transactions and of verifications at a time (Studio.tsx, verifyCommitted).
THEOREM EvidenceIsOfTheChain == PagesSpec => []EvidenceIsEarned
<1>1. PagesInv => EvidenceIsEarned
  BY SporeInvEarned DEF PagesInv, SporeInv, EvidenceIsEarned
<1> QED
  BY <1>1, PagesInvariant, PTL

\* The end of an operation of the developer console never enters a log that was cleared or
\* evicted since the operation began, so a log is of one generation and an end follows its
\* beginning, for every number of scopes, calls and entries (dev-console/store.ts).
THEOREM LogsAreOfTheirGeneration == PagesSpec => []LogsAreOfOneGeneration
<1>1. PagesInv => LogsAreOfOneGeneration
  BY ConsoleInvLogs DEF PagesInv, ConsoleInv, LogsAreOfOneGeneration
<1> QED
  BY <1>1, PagesInvariant, PTL
=============================================================================
