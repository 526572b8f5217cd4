------------------------------ MODULE FiberLab ------------------------------
(***************************************************************************)
(* The two-node lab: a tab with node B issues invoices, a tab with node A  *)
(* pays them.  The invoice that B issued last is shared in localStorage,   *)
(* and reaches the other tab as a storage event, some time later.  A page  *)
(* shows an invoice, with the answer to its last payment and to its last   *)
(* verification; a payment or a verification begins by having the node     *)
(* parse the invoice, which writes the invoice of the click back.          *)
(***************************************************************************)
EXTENDS Integers, Sequences

CONSTANTS
  MaxInvoices,   \* bound of the invoices that B issues
  HopLists,      \* what the field of trampolines may hold
  Payee,         \* B's public key
  None

VARIABLES
  shared,    \* the invoice in localStorage, or text that is none
  events,    \* the storage events on their way to A
  pages,
  crossed    \* history: another invoice came while the answer of an older was awaited

vars == <<shared, events, pages, crossed>>

Sides == {"A", "B"}
Invoices == 1 .. MaxInvoices
Foreign == MaxInvoices + 1    \* pasted on A, from elsewhere
Broken == 0

\* text: the invoice of the click; mounted: is the page still the one that was clicked?
Page ==
  [invoice : 0 .. Foreign, payment : 0 .. Foreign, verification : 0 .. Foreign,
   phase : {"idle", "new", "parse", "pay", "get", "read"},
   kind : {"none", "send", "verify"}, text : 0 .. Foreign, mounted : BOOLEAN]

TypeOK ==
  /\ shared \in Invoices \cup {Broken, None}
  /\ events \in Seq(Invoices)
  /\ pages \in [Sides -> Page]
  /\ crossed \in BOOLEAN

\* What is no invoice of the lab counts as none: 0 in a page.
parseSharedInvoice(raw) == IF raw \in Invoices THEN raw ELSE 0

FreshPage ==
  [invoice |-> parseSharedInvoice(shared), payment |-> 0, verification |-> 0,
   phase |-> "idle", kind |-> "none", text |-> 0, mounted |-> TRUE]

Init ==
  /\ shared \in {None, Broken, 1}
  /\ events = <<>>
  /\ pages = [t \in Sides |-> FreshPage]
  /\ crossed = FALSE

-----------------------------------------------------------------------------

\* A page whose operation is over, with what the answer changes.
Done(page) ==
  [page EXCEPT !.phase = "idle", !.kind = "none", !.text = 0, !.mounted = TRUE]

Waits(t) == pages[t].phase \in {"parse", "pay", "get"}

Button(t) == pages[t].phase = "idle"

\* Mutant: the answer to the payment of the invoice before stays.
MutantReceive ==
  /\ events # <<>>
  /\ events' = Tail(events)
  /\ pages' = [pages EXCEPT !["A"].invoice = Head(events), !["A"].verification = 0]
  /\ crossed' = Waits("A")
  /\ UNCHANGED shared

\* The storage event: another invoice, and no answer yet.
receive ==
  /\ events # <<>>
  /\ events' = Tail(events)
  /\ pages' = [pages EXCEPT !["A"].invoice = Head(events), !["A"].payment = 0,
                            !["A"].verification = 0]
  /\ crossed' = Waits("A")
  /\ UNCHANGED shared

\* The field of A takes any text, busy or not.
Edit ==
  /\ \E i \in {0, Foreign} \ {pages["A"].invoice} :
       pages' = [pages EXCEPT !["A"].invoice = i, !["A"].payment = 0, !["A"].verification = 0]
  /\ crossed' = Waits("A")
  /\ UNCHANGED <<shared, events>>

\* A page is left and shown again: it reads what is shared.  Of what it had begun only
\* a new invoice still counts.
Leave(t) ==
  /\ pages' = [pages EXCEPT ![t] = IF @.phase # "new" THEN FreshPage
                                   ELSE [FreshPage EXCEPT !.phase = "new", !.mounted = FALSE]]
  /\ events' = IF t = "A" THEN <<>> ELSE events
  /\ crossed' = (crossed /\ t # "A")
  /\ UNCHANGED shared

\* connectRelay and scanGossip.
execute(t) ==
  /\ Button(t)
  /\ pages' = [pages EXCEPT ![t].phase = "read"]
  /\ UNCHANGED <<shared, events, crossed>>

\* The node fails, or answers what the page does not take.
Fails(t) ==
  /\ ~Button(t)
  /\ pages' = [pages EXCEPT ![t] = Done(@)]
  /\ UNCHANGED <<shared, events, crossed>>

createInvoice ==
  /\ Button("B")
  /\ pages' = [pages EXCEPT !["B"].phase = "new"]
  /\ UNCHANGED <<shared, events, crossed>>

Issued == IF shared \in Invoices THEN 1 .. shared ELSE {}

\* The invoice is shared, and shown if the page still stands.
newInvoice ==
  /\ pages["B"].phase = "new"
  /\ \E i \in Invoices \ Issued :
       /\ \A j \in Invoices \ Issued : i <= j
       /\ shared' = i
       /\ events' = Append(events, i)
       /\ pages' = [pages EXCEPT !["B"] =
                      IF @.mounted THEN [Done(@) EXCEPT !.invoice = i, !.verification = 0]
                      ELSE Done(@)]
  /\ UNCHANGED crossed

\* sendPayment clears both answers, verify its own.
sendPayment ==
  /\ Button("A") /\ pages["A"].invoice # 0
  /\ pages' = [pages EXCEPT !["A"] =
                 [@ EXCEPT !.phase = "parse", !.kind = "send", !.text = pages["A"].invoice,
                           !.payment = 0, !.verification = 0]]
  /\ crossed' = FALSE
  /\ UNCHANGED <<shared, events>>

verify(t) ==
  /\ Button(t) /\ pages[t].invoice # 0
  /\ pages' = [pages EXCEPT ![t] =
                 [@ EXCEPT !.phase = "parse", !.kind = "verify", !.text = pages[t].invoice,
                           !.verification = 0]]
  /\ UNCHANGED <<shared, events, crossed>>

\* The node parses the invoice of the click, and the page shows that one again.
resolveInvoice(t) ==
  /\ pages[t].phase = "parse"
  /\ pages' = [pages EXCEPT ![t].invoice = pages[t].text,
                 ![t].phase = IF pages[t].kind = "send" THEN "pay" ELSE "get"]
  /\ UNCHANGED <<shared, events, crossed>>

\* At most five hops, none twice, and not the payee; with hops there is a fee limit,
\* and with several of them one part only: the page asks for that.
validTrampoline(hops) ==
  /\ Len(hops) <= 5
  /\ \A i, j \in DOMAIN hops : hops[i] = hops[j] => i = j
  /\ \A i \in DOMAIN hops : hops[i] # Payee

\* The answer to a payment, or to a dry run.
sendPaymentAdvanced ==
  /\ pages["A"].phase = "pay"
  /\ \E hops \in HopLists : validTrampoline(hops)
  /\ pages' = [pages EXCEPT !["A"] = [Done(@) EXCEPT !.payment = pages["A"].text]]
  /\ UNCHANGED <<shared, events, crossed>>

\* getInvoice on B, getPayment on A.
Verified(t) ==
  /\ pages[t].phase = "get"
  /\ pages' = [pages EXCEPT ![t] = [Done(@) EXCEPT !.verification = pages[t].text]]
  /\ UNCHANGED <<shared, events, crossed>>

Next ==
  \/ receive \/ Edit \/ createInvoice \/ newInvoice \/ sendPayment \/ sendPaymentAdvanced
  \/ \E t \in Sides :
       Leave(t) \/ execute(t) \/ Fails(t) \/ verify(t) \/ resolveInvoice(t) \/ Verified(t)

Spec == Init /\ [][Next]_vars

-----------------------------------------------------------------------------

\* The payment and the verification that a page shows are those of the invoice that it
\* shows, unless another invoice came while one of them was awaited.
AnswersAreOfTheInvoice ==
  \A t \in Sides :
    (t = "A" => ~crossed) =>
      /\ pages[t].payment \in {0, pages[t].invoice}
      /\ pages[t].verification \in {0, pages[t].invoice}
=============================================================================
