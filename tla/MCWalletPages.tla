---------------------------- MODULE MCWalletPages ----------------------------
(***************************************************************************)
(* The wallet side of the portal on small instances.  What the parts that  *)
(* do not run begin with is pinned.                                        *)
(***************************************************************************)
EXTENDS WalletPages

\* A text that decodes as it was, one that does not, and one that is not encoded as it is.
MCTexts == {"marked", "torn"}

\* The first cell can pay for what a recipient occupies, but for no fee; the second holds
\* data.
MCCapacity == <<3, 9, 5>>

MCFee == [r \in 0 .. 1 |-> r]

MCOccupied == [a \in 0 .. 1 |-> 3 * a]

\* What a wallet holds at first: one cell is of another asset, or has more than an amount.
MCGenesis ==
  LET c(l, t, a, e) == [lock |-> l, type |-> t, amount |-> a, extended |-> e] IN
    {<<c("issuer", "none", 0, FALSE), c("issuer", "token", 1, FALSE), third>> :
       third \in {c("issuer", "other", 0, FALSE), c("bob", "token", 1, TRUE)}}

MCInit ==
  /\ PagesInit
  /\ route # "session" => wallet = None
  /\ route # "store" => connected /\ message = "marked"
  /\ route # "lock" => funder = None
  /\ route # "token" => user = "bob" /\ supply = 1
  /\ route # "spore" => assetCells[1].content = "art"
  /\ route # "console" => scope = CHOOSE k \in Keys : TRUE
  /\ route # "assets" =>
       /\ account = [s \in Signers |-> CHOOSE a \in Accounts : TRUE]
       /\ authenticated = FALSE

MCSpec == MCInit /\ [][PagesNext]_pages /\ SyncsEnd
=============================================================================
