----------------------------- MODULE BrowserNode -----------------------------
(***************************************************************************)
(* The Fiber side of the portal, one part of it at a time: the node of a   *)
(* tab, the external funding of channels, the pages that pay, and the      *)
(* two-node lab.  The state is that of the part that runs; the others stay *)
(* where they began.                                                       *)
(***************************************************************************)
EXTENDS Integers, Sequences

CONSTANTS
  NodeOps, Instances, Keys,                                          \* FiberRuntime
  Tabs, Profiles, Default, Deps, LockDeps, MaxAttempts, MaxChannels, \* ExternalFunding
  Ops, MaxInvoices,                                                  \* FiberPayments
  MaxShared, HopLists, Payee,                                        \* FiberLab
  None

VARIABLES
  route,
  nodePage, info, loading, nodeBusy, fiber, start, key, running, stored, nodeOps, disturbed,
  tab, draft, channels, submitted, lost,
  page, auth, busy, made, built, listed, invoices, orders, ops, tried, paying,
  shared, events, pages, crossed

N == INSTANCE FiberRuntime
       WITH Ops <- NodeOps, page <- nodePage, busy <- nodeBusy, ops <- nodeOps

F == INSTANCE ExternalFunding

P == INSTANCE FiberPayments WITH route <- built

L == INSTANCE FiberLab WITH MaxInvoices <- MaxShared

\* A new identity is none of those that run, and there always is one.  None is nothing else.
ASSUME BrowserNodeAssumption ==
  /\ NodeOps \subseteq Int /\ Instances \subseteq Nat /\ Keys \subseteq Nat
  /\ \A taken \in [Instances -> Keys \cup {None}] :
       \E k \in Keys : \A i \in Instances : taken[i] # k
  /\ None \notin Instances \cup Keys
  /\ Default \in Profiles /\ LockDeps \in Deps
  /\ MaxAttempts \in Nat \ {0} /\ MaxChannels \in Nat
  /\ None \notin Deps /\ None \notin F!Tx /\ None \notin F!Draft
  /\ None \notin [profile : Profiles, state : F!States, tx : F!Tx]
  /\ MaxInvoices \in Nat /\ MaxShared \in Nat \ {0}

node ==
  <<nodePage, info, loading, nodeBusy, fiber, start, key, running, stored, nodeOps,
    disturbed>>
funding == <<tab, draft, channels, submitted, lost>>
payments ==
  <<page, auth, busy, made, built, listed, invoices, orders, ops, tried, paying>>
lab == <<shared, events, pages, crossed>>

NodeInit ==
  /\ route \in {"node", "funding", "payments", "lab"}
  /\ N!Init /\ F!Init /\ P!Init /\ L!Init

NodeNext ==
  \/ /\ route = "node" /\ N!Next
     /\ UNCHANGED <<route, funding, payments, lab>>
  \/ /\ route = "funding" /\ F!Next
     /\ UNCHANGED <<route, node, payments, lab>>
  \/ /\ route = "payments" /\ P!Next
     /\ UNCHANGED <<route, node, funding, lab>>
  \/ /\ route = "lab" /\ L!Next
     /\ UNCHANGED <<route, node, funding, payments>>

vars == <<route, node, funding, payments, lab>>

NodeSpec == NodeInit /\ [][NodeNext]_vars

-----------------------------------------------------------------------------

\* A tab runs one node at most, with the stored identity, and shows that one, unless a
\* stop met what an earlier page began.
OneNode == N!TypeOK /\ N!OneNode

\* What is submitted for a channel is what its node froze.
OnlyFrozenFundingIsSubmitted == F!TypeOK /\ F!OnlyFrozenFundingIsSubmitted

\* A channel that waits for its funding is in somebody's hands.
NoOrphanWithoutCause == F!NoOrphanWithoutCause

\* An order has the state of its own invoice.
OrdersFollowTheirInvoice == P!TypeOK /\ P!OrdersFollowTheirInvoice

\* The lab shows the answers of the invoice that it shows; the checkout pays what its
\* dry run went through for.
AnswersAreOfTheInvoice ==
  L!TypeOK /\ L!AnswersAreOfTheInvoice /\ P!PaymentsAreTried
=============================================================================
