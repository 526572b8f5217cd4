------------------------------ MODULE StoreData ------------------------------
(***************************************************************************)
(* The page that stores a text in a cell and reads it back.  Neither       *)
(* button waits for the other, nor for itself: stores and reads run side   *)
(* by side, each with the fields, the wallet and the transaction of its    *)
(* click, while the wallet comes and goes, and while the chain commits the *)
(* cells and their owners spend them.                                      *)
(***************************************************************************)
EXTENDS Integers, Sequences

CONSTANTS Ops, Texts, MaxSent, None

VARIABLES
  connected,                  \* is there a wallet?
  message,
  txHash, encoded, decoded,   \* what the page shows
  readOf,                     \* the transaction that decoded was read for
  sent,                       \* the data of the transactions that the node has taken
  live,                       \* those whose cell is live
  recorded,                   \* those that the backend has a row of
  ops

shown == <<txHash, encoded, decoded, readOf>>
vars == <<connected, message, shown, sent, live, recorded, ops>>

-----------------------------------------------------------------------------

\* A text with a surrogate that has no partner is encoded with a replacement for it.
utf8ToHex(text) == IF text = "torn" THEN "repaired" ELSE text

\* Decoding drops a byte order mark.
hexToUtf8(data) == IF data = "marked" THEN "plain" ELSE data

Data == {utf8ToHex(t) : t \in Texts}

Op ==
  [kind : {"store"}, phase : {"owner", "send"}, text : Texts, tx : {None}]
    \cup [kind : {"store"}, phase : {"network", "track"}, text : {None}, tx : 1 .. MaxSent]
    \cup [kind : {"read"}, phase : {"cell"}, text : {None}, tx : 1 .. MaxSent]

TypeOK ==
  /\ connected \in BOOLEAN
  /\ message \in Texts
  /\ txHash \in 0 .. Len(sent) /\ readOf \in 0 .. Len(sent)
  /\ encoded \in Data \cup {None}
  /\ decoded \in {hexToUtf8(d) : d \in Data} \cup {None}
  /\ sent \in Seq(Data) /\ Len(sent) <= MaxSent
  /\ live \subseteq DOMAIN sent /\ recorded \subseteq DOMAIN sent
  /\ ops \in [Ops -> Op \cup {None}]

Init ==
  /\ connected \in BOOLEAN
  /\ message \in Texts
  /\ txHash = 0 /\ encoded = None /\ decoded = None /\ readOf = 0
  /\ sent = <<>> /\ live = {} /\ recorded = {}
  /\ ops = [o \in Ops |-> None]

-----------------------------------------------------------------------------

edit ==
  /\ message' \in Texts \ {message}
  /\ UNCHANGED <<connected, shown, sent, live, recorded, ops>>

changeWallet ==
  /\ connected' = ~connected
  /\ UNCHANGED <<message, shown, sent, live, recorded, ops>>

\* The chain commits a transaction, or its cell is spent.
Chain ==
  /\ \E h \in DOMAIN sent :
       live' = IF h \in live THEN live \ {h} ELSE live \cup {h}
  /\ UNCHANGED <<connected, message, shown, sent, recorded, ops>>

Becomes(o, op) == ops' = [ops EXCEPT ![o] = op]

Ends(o) == Becomes(o, None)

At(o, phase) == ops[o] # None /\ ops[o].phase = phase

\* A request fails, or the wallet refuses.
Fails(o) ==
  /\ ops[o] # None
  /\ Ends(o)
  /\ UNCHANGED <<connected, message, shown, sent, live, recorded>>

-----------------------------------------------------------------------------

store(o) ==
  /\ ops[o] = None
  /\ connected
  /\ Becomes(o, [kind |-> "store", phase |-> "owner", text |-> message, tx |-> None])
  /\ UNCHANGED <<connected, message, shown, sent, live, recorded>>

\* The owner is known, and the account has cells for the capacity and the fee.
owned(o) ==
  /\ At(o, "owner")
  /\ Becomes(o, [ops[o] EXCEPT !.phase = "send"])
  /\ UNCHANGED <<connected, message, shown, sent, live, recorded>>

\* The node takes the transaction, and the page shows it with its data.
stored(o) ==
  /\ At(o, "send")
  /\ Len(sent) < MaxSent
  /\ LET data == utf8ToHex(ops[o].text) IN
       /\ sent' = Append(sent, data)
       /\ encoded' = data /\ txHash' = Len(sent')
  /\ Becomes(o, [kind |-> "store", phase |-> "network", text |-> None, tx |-> txHash'])
  /\ UNCHANGED <<connected, message, decoded, readOf, live, recorded>>

\* The backend is of the network of the wallet; if it is not, or if it is away, the
\* operation ends (Fails) and nothing is recorded.
networkRead(o) ==
  /\ At(o, "network")
  /\ Becomes(o, [ops[o] EXCEPT !.phase = "track"])
  /\ UNCHANGED <<connected, message, shown, sent, live, recorded>>

\* recordSubmittedTransaction: the backend has a row of it, under the account of this
\* moment.
trackTransaction(o) ==
  /\ At(o, "track")
  /\ recorded' = recorded \cup {ops[o].tx}
  /\ Ends(o)
  /\ UNCHANGED <<connected, message, shown, sent, live>>

readOutput(o) ==
  /\ ops[o] = None
  /\ connected /\ txHash # 0
  /\ Becomes(o, [kind |-> "read", phase |-> "cell", text |-> None, tx |-> txHash])
  /\ UNCHANGED <<connected, message, shown, sent, live, recorded>>

\* The cell is live: its data is decoded.  (If it is not, the read Fails.)
cellRead(o) ==
  /\ At(o, "cell")
  /\ ops[o].tx \in live
  /\ decoded' = hexToUtf8(sent[ops[o].tx]) /\ readOf' = ops[o].tx
  /\ Ends(o)
  /\ UNCHANGED <<connected, message, txHash, encoded, sent, live, recorded>>

Next ==
  \/ edit \/ changeWallet \/ Chain
  \/ \E o \in Ops :
       \/ store(o) \/ owned(o) \/ stored(o) \/ networkRead(o) \/ trackTransaction(o)
       \/ readOutput(o) \/ cellRead(o) \/ Fails(o)

Spec == Init /\ [][Next]_vars

-----------------------------------------------------------------------------

\* The data that is shown is that of the transaction that is shown; and the text is what
\* that data says, unless it was read for an earlier transaction.
ShownAnswersTheForm ==
  /\ txHash # 0 => encoded = sent[txHash]
  /\ readOf = txHash /\ txHash # 0 => decoded = hexToUtf8(encoded)
=============================================================================
