------------------------------ MODULE TokenCells ------------------------------
(***************************************************************************)
(* What the Token Lab of one wallet does to the cells of one token, one    *)
(* transaction after the other.  Between its awaits the transactions that  *)
(* it has sent are committed, and other programs of all the wallets spend  *)
(* cells.  The script of the token lets its issuer make and destroy tokens *)
(* at will, and lets everybody destroy them: that none are lost is up to   *)
(* the arithmetic of this code.                                            *)
(***************************************************************************)
EXTENDS Integers, Sequences, FiniteSetsExt

CONSTANTS
  Wallets,
  Issuer,       \* the wallet whose lock hash is the args of the token
  Amounts,      \* what a user asks for
  U128_MAX,
  Genesis,      \* the cells that there can be at first
  MaxCells,     \* bound of the cells that there ever are
  MaxPool,      \* bound of what the node has taken and not yet committed
  None

VARIABLES
  cells, live,      \* all the cells that there ever were; those that are not spent
  user,             \* the wallet of the page
  work,             \* what the page prepares, shows or sends
  pool,             \* what the node has taken
  supply            \* history: the tokens that the committed reviews leave

chain == <<cells, live, supply>>
vars == <<chain, user, work, pool>>

Cell == [lock : Wallets, type : {"none", "token", "other"}, amount : 0 .. U128_MAX,
         extended : BOOLEAN]

TokenAction == {"MINT", "TRANSFER", "BURN"}

Tx == [inputs : SUBSET (1 .. MaxCells), outputs : Seq(Cell), action : TokenAction,
       amount : Amounts]

Work == [at : {"capacity", "review", "check", "send"}, tx : Tx, left : SUBSET (1 .. MaxCells)]

TypeOK ==
  /\ cells \in Seq(Cell) /\ Len(cells) <= MaxCells
  /\ live \subseteq DOMAIN cells
  /\ user \in Wallets
  /\ work = None \/ work \in Work
  /\ \A tx \in pool : tx \in Tx
  /\ supply \in Nat

-----------------------------------------------------------------------------
(* Amounts.                                                                *)

\* Mutant: a transaction may spend more than comes out of it.
MutantAssertTokenAccounting(action, input, output, amount) ==
  CASE action = "MINT" -> output = input + amount
    [] action = "BURN" -> output <= input
    [] action = "TRANSFER" -> output <= input

assertTokenAccounting(action, input, output, amount) ==
  output = CASE action = "MINT" -> input + amount
             [] action = "BURN" -> input - amount
             [] action = "TRANSFER" -> input

Sum(cs) == MapThenSumSet(LAMBDA c : cells[c].amount, cs)

OutputSum(outputs) ==
  MapThenSumSet(LAMBDA i : outputs[i].amount,
                {i \in DOMAIN outputs : outputs[i].type = "token"})

\* sumAmounts goes on: no group is beyond the width of an amount.
InRange(total) == total <= U128_MAX

Tokens(cs) == {c \in cs : cells[c].type = "token"}

\* Cells of another asset, and the tokens whose cell has more data than an amount.  Data
\* without tokens is only kept by the library, which adds no cell with data to a transaction.
Others(cs) ==
  {c \in cs : \/ cells[c].type = "other"
              \/ cells[c].type = "token" /\ cells[c].extended /\ cells[c].amount > 0}

\* The script of the token: no check when a cell of the issuer is spent, and else no more
\* tokens come out than went in.
simple_udt(tx) ==
  \/ \E c \in tx.inputs : cells[c].lock = Issuer
  \/ /\ InRange(Sum(Tokens(tx.inputs))) /\ InRange(OutputSum(tx.outputs))
     /\ OutputSum(tx.outputs) <= Sum(Tokens(tx.inputs))

Init ==
  /\ cells \in Genesis /\ live = DOMAIN cells
  /\ user \in Wallets
  /\ work = None
  /\ pool = {}
  /\ supply = Sum(Tokens(live))

-----------------------------------------------------------------------------
(* The chain and the rest of the world.                                    *)

Spend(inputs, outputs) ==
  /\ Len(cells) + Len(outputs) <= MaxCells
  /\ cells' = cells \o outputs
  /\ live' = (live \ inputs) \cup (DOMAIN cells' \ DOMAIN cells)

Commit ==
  \E tx \in pool :
    /\ tx.inputs \subseteq live
    /\ Spend(tx.inputs, tx.outputs)
    /\ pool' = pool \ {tx}
    /\ supply' = CASE tx.action = "MINT" -> supply + tx.amount
                   [] tx.action = "BURN" -> supply - tx.amount
                   [] tx.action = "TRANSFER" -> supply
    /\ UNCHANGED <<user, work>>

\* Another program of a wallet gives tokens away; what the node has taken and can no
\* longer commit, it drops.
Elsewhere ==
  \E c \in Tokens(live) \ Others(live) : \E w \in Wallets \ {cells[c].lock} :
    /\ Spend({c}, <<[cells[c] EXCEPT !.lock = w]>>)
    /\ pool' = {tx \in pool : c \notin tx.inputs}
    /\ UNCHANGED <<user, work, supply>>

-----------------------------------------------------------------------------
(* The lab.                                                                *)

At(step) == work # None /\ work.at = step

Becomes(state) ==
  /\ work' = state
  /\ UNCHANGED <<chain, user, pool>>

\* The deployment is not that of the network, or its code is not live (verifyTokenDeployment,
\* first of a preparation and of a submission), or another call fails; or the preview is
\* discarded.
Fails == work # None /\ Becomes(None)

Token(lock, amount) ==
  [lock |-> lock, type |-> "token", amount |-> amount, extended |-> FALSE]

Plain(lock) == [lock |-> lock, type |-> "none", amount |-> 0, extended |-> FALSE]

\* The inputs and outputs that the action itself calls for are settled.
Drafted(action, amount, inputs, outputs) ==
  /\ work = None
  /\ Becomes([at |-> "capacity", left |-> {},
                 tx |-> [inputs |-> inputs, outputs |-> outputs,
                         action |-> action, amount |-> amount]])

\* A mint spends a cell of the issuer that holds nothing.
mint ==
  /\ user = Issuer
  /\ LET plain == {c \in live : cells[c] = Plain(user)} IN
       /\ plain # {}
       /\ \E amount \in Amounts \ {0}, to \in Wallets :
            Drafted("MINT", amount, {Min(plain)}, <<Token(to, amount)>>)

\* The wallet's cells of the token.  One with more data than an amount, or a sum out of
\* range, is an error.
ownedTokenCells ==
  LET own == Tokens({c \in live : cells[c].lock = user}) IN
  IF (\E c \in own : cells[c].extended) \/ ~InRange(Sum(own)) THEN {} ELSE own

\* A transfer and a burn spend cells in their order until they suffice; the rest of
\* their tokens goes back to the wallet.
move ==
  \E amount \in Amounts \ {0} :
    LET own == ownedTokenCells
        UpTo(n) == {c \in own : c <= n}
        enough == {n \in own : Sum(UpTo(n)) >= amount}
        inputs == UpTo(Min(enough))
        change == Sum(inputs) - amount
        back == IF change > 0 THEN <<Token(user, change)>> ELSE <<>>
    IN
      /\ enough # {}
      /\ \/ Drafted("BURN", amount, inputs, back)
         \/ \E to \in Wallets :
              Drafted("TRANSFER", amount, inputs, <<Token(to, amount)>> \o back)

\* The library adds inputs for the capacity and the fee, and an output for the change.
\* The code does not rely on which ones: it compares what went in with what comes out.
complete ==
  /\ At("capacity")
  /\ LET tx == work.tx IN
     \E more \in {{}} \cup {{c} : c \in {k \in live \ tx.inputs : cells[k].lock = user}} :
       LET inputs == tx.inputs \cup more
           input == Sum(Tokens(inputs))
           output == OutputSum(tx.outputs)
       IN
         /\ \A c \in inputs : cells[c].type # "other"
         /\ InRange(input) /\ InRange(output)
         /\ assertTokenAccounting(tx.action, input, output, tx.amount)
         /\ Becomes([work EXCEPT !.at = "review", !.tx.inputs = inputs,
                          !.tx.outputs = Append(@, Plain(user))])

submitToken ==
  /\ At("review")
  /\ Becomes([work EXCEPT !.at = "check", !.left = work.tx.inputs])

\* The inputs are read one after the other.
getCellLive ==
  /\ At("check")
  /\ LET c == Min(work.left) IN
       /\ c \in live
       /\ Becomes([work EXCEPT !.left = @ \ {c},
                        !.at = IF work.left = {c} THEN "send" ELSE @])

\* The wallet signs for its own cells; the node takes what it can commit.
sendTransaction ==
  /\ At("send")
  /\ LET tx == work.tx IN
       /\ tx.inputs \subseteq live /\ \A c \in tx.inputs : cells[c].lock = user
       /\ \A other \in pool : other.inputs \cap tx.inputs = {}
       /\ simple_udt(tx)
       /\ pool' = pool \cup {tx} /\ Cardinality(pool') <= MaxPool
  /\ work' = None
  /\ UNCHANGED <<chain, user>>

Next ==
  \/ Commit \/ Elsewhere
  \/ mint \/ move \/ complete \/ submitToken
  \/ getCellLive \/ sendTransaction \/ Fails

Spec == Init /\ [][Next]_vars

-----------------------------------------------------------------------------

\* There are as many tokens as there were, with what the reviews minted and without what
\* they burned; no cell of another asset, or with data beyond its amount, was spent.
TokensAreKept ==
  /\ Sum(Tokens(live)) = supply
  /\ Others(DOMAIN cells) \subseteq live
=============================================================================
