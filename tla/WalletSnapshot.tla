---------------------------- MODULE WalletSnapshot ----------------------------
(***************************************************************************)
(* The wallet that a page shows: its address and balance, read anew when   *)
(* the wallet changes and when the page asks.  The reads run side by side  *)
(* and are not told apart when they end; a page that is left takes none.   *)
(* A switch of the account in the wallet reads nothing anew.  A read is of *)
(* the account at its beginning; one that asks later is only fresher.      *)
(***************************************************************************)
EXTENDS Integers, Sequences, FiniteSets

CONSTANTS Wallets, MaxReads, None

VARIABLES
  wallet,                    \* the address of the account that the wallet would give now
  address, loading, error,   \* the snapshot
  reads                      \* under way, of each address

snapshot == <<address, loading, error>>
vars == <<wallet, snapshot, reads>>

TypeOK ==
  /\ wallet \in Wallets \cup {None} /\ address \in Wallets \cup {None}
  /\ loading \in BOOLEAN /\ error \in BOOLEAN
  /\ reads \in [Wallets -> 0 .. MaxReads]

Init ==
  /\ wallet = None /\ address = None
  /\ loading = FALSE /\ error = FALSE
  /\ reads = [w \in Wallets |-> 0]

-----------------------------------------------------------------------------

\* A read begins, of the wallet w; the snapshot before is that of the address a.
Read(w, before, a) ==
  /\ error' = FALSE
  /\ IF w = None
     THEN address' = None /\ loading' = FALSE /\ reads' = before
     ELSE /\ before[w] < MaxReads
          /\ address' = a /\ loading' = TRUE
          /\ reads' = [before EXCEPT ![w] = @ + 1]

\* The page asks.
refresh ==
  /\ Read(wallet, reads, address)
  /\ UNCHANGED wallet

\* The effect: another wallet, or none.
changeWallet ==
  /\ wallet' \in (Wallets \cup {None}) \ {wallet}
  /\ Read(wallet', reads, address)

\* Another account of the same wallet has no effect.
switchAccount ==
  /\ wallet # None /\ wallet' \in Wallets \ {wallet}
  /\ UNCHANGED <<snapshot, reads>>

\* Another page begins with a snapshot of its own.
navigate ==
  /\ Read(wallet, [w \in Wallets |-> 0], None)
  /\ UNCHANGED wallet

\* Mutant: an address that is shown already stays.
MutantShown(w) ==
  /\ reads[w] > 0 /\ reads' = [reads EXCEPT ![w] = @ - 1]
  /\ address' = IF address = None THEN w ELSE address
  /\ loading' = FALSE /\ error' = FALSE
  /\ UNCHANGED wallet

\* The address and the balance are there: they are shown, whatever the wallet is now.
shown(w) ==
  /\ reads[w] > 0 /\ reads' = [reads EXCEPT ![w] = @ - 1]
  /\ address' = w /\ loading' = FALSE /\ error' = FALSE
  /\ UNCHANGED wallet

\* One of them fails: the address that was shown stays.
Fails(w) ==
  /\ reads[w] > 0 /\ reads' = [reads EXCEPT ![w] = @ - 1]
  /\ loading' = FALSE /\ error' = TRUE
  /\ UNCHANGED <<wallet, address>>

Next ==
  \/ refresh \/ changeWallet \/ switchAccount \/ navigate
  \/ \E w \in Wallets : shown(w) \/ Fails(w)

Spec == Init /\ [][Next]_vars

-----------------------------------------------------------------------------

\* A snapshot that loads has a read that can still end it, whichever reads have ended
\* before: no late end of another one leaves a page loading for ever.
LoadingIsTrue == loading => \E w \in Wallets : reads[w] > 0

(***************************************************************************)
(* A late read of the wallet before, a read that failed and an account     *)
(* that was switched leave the address of another wallet; reads put that   *)
(* right: once the wallet stays the same, and reads of it end well again   *)
(* and again, an address that is shown comes to be that of the wallet for  *)
(* good.                                                                   *)
(***************************************************************************)
SnapshotHeals ==
  <>[][wallet' = wallet]_vars /\ []<><<wallet # None /\ shown(wallet)>>_vars =>
    <>[](address \in {None, wallet})
=============================================================================
