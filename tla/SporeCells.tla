------------------------------ MODULE SporeCells ------------------------------
(***************************************************************************)
(* What the Spore Studio of one wallet does to Spores and clusters, and    *)
(* when it says that it has verified it.  It asks two sources: the node,   *)
(* whose answers are of the moment, and the indexer, which lags behind.    *)
(* Other programs of all the wallets move and melt the same cells, the     *)
(* node rejects or commits what it has taken, an answer is lost, and the   *)
(* button that checks again can be pressed while a check runs.             *)
(*                                                                         *)
(* Capacity, fees and the cells that pay for them are left out: what they  *)
(* can fail with is one of the failures.                                   *)
(***************************************************************************)
EXTENDS Integers, Sequences, FiniteSets

CONSTANTS
  Wallets, User,     \* User: the wallet of the studio
  Contents,          \* "immortal": content of a type with that parameter
  Checks,            \* the verifications that run at a time
  MaxCells, MaxIds, MaxSent, None

VARIABLES
  cells, live,       \* all the cells that there ever were; those that are not spent
  indexed,           \* those that were not spent when the indexer last looked
  sent,              \* the transactions that the node has taken
  work,              \* what the studio prepares, shows or signs
  hash, busy,   \* the transaction that it shows; is it still followed?
  checks,            \* the verifications
  evidence

chain == <<cells, live, indexed, sent>>
following == <<hash, busy, checks, evidence>>
vars == <<chain, work, following>>

Operation == {"create", "transfer", "melt", "cluster-create", "cluster-transfer"}

isCluster(operation) == operation \in {"cluster-create", "cluster-transfer"}

\* by: the transaction that made the cell.
Cell == [kind : {"spore", "cluster"}, id : 1 .. MaxIds, lock : Wallets,
         content : Contents \cup {None}, cluster : 0 .. MaxIds, by : 0 .. MaxSent]

Tx == [operation : Operation, id : 1 .. MaxIds, to : Wallets,
       inputs : SUBSET (1 .. MaxCells), outputs : Seq(Cell)]

Request == [operation : Operation, id : 0 .. MaxIds, clusterId : 0 .. MaxIds,
            content : Contents \cup {None}, to : Wallets]

\* before: the cell of the asset, as it was found.
Work ==
  [at : {"find", "own", "build", "inputs", "review", "signed"}, request : Request,
   before : 0 .. MaxCells, tx : Tx \cup {None}]

Check ==
  [at : {"node", "index", "live"}, own : BOOLEAN, hash : 1 .. MaxSent,
   found : 0 .. MaxCells]

TypeOK ==
  /\ cells \in Seq(Cell) /\ Len(cells) <= MaxCells
  /\ live \subseteq DOMAIN cells /\ indexed \subseteq DOMAIN cells
  /\ sent \in Seq([tx : Tx, status : {"pool", "committed", "rejected"}])
  /\ Len(sent) <= MaxSent
  /\ work \in Work \cup {None}
  /\ hash \in 0 .. Len(sent) /\ busy \in BOOLEAN
  /\ checks \in [Checks -> Check \cup {None}]
  /\ evidence \in [hash : 1 .. MaxSent, out : 0 .. MaxCells] \cup {None}

Init ==
  /\ \E content \in Contents :
       cells = << [kind |-> "spore", id |-> 1, lock |-> User, content |-> content,
                   cluster |-> 0, by |-> 0],
                  [kind |-> "cluster", id |-> 2, lock |-> User, content |-> None,
                   cluster |-> 0, by |-> 0] >>
  /\ live = {1, 2} /\ indexed = {1, 2}
  /\ sent = <<>> /\ work = None
  /\ hash = 0 /\ busy = FALSE
  /\ checks = [k \in Checks |-> None] /\ evidence = None

-----------------------------------------------------------------------------
(* The chain, the indexer, and the rest of the world.                      *)

Spend(inputs, outputs) ==
  /\ Len(cells) + Len(outputs) <= MaxCells
  /\ cells' = cells \o outputs
  /\ live' = (live \ inputs) \cup (DOMAIN cells' \ DOMAIN cells)
  /\ UNCHANGED indexed

Ends(h, status) == sent' = [sent EXCEPT ![h].status = status]

Commit ==
  \E h \in DOMAIN sent :
    LET tx == sent[h].tx IN
    /\ sent[h].status = "pool" /\ tx.inputs \subseteq live
    /\ Spend(tx.inputs, [i \in DOMAIN tx.outputs |-> [tx.outputs[i] EXCEPT !.by = h]])
    /\ Ends(h, "committed")
    /\ UNCHANGED <<work, following>>

Reject ==
  \E h \in DOMAIN sent :
    /\ sent[h].status = "pool"
    /\ Ends(h, "rejected")
    /\ UNCHANGED <<cells, live, indexed, work, following>>

\* Another program gives an asset away, or melts it.
Elsewhere ==
  \E c \in live :
    /\ \/ \E w \in Wallets \ {cells[c].lock} :
            Spend({c}, <<[cells[c] EXCEPT !.lock = w, !.by = 0]>>)
       \/ cells[c].content \notin {None, "immortal"} /\ Spend({c}, <<>>)
    /\ UNCHANGED <<sent, work, following>>

\* The indexer has caught up.
Index ==
  /\ indexed' = live
  /\ UNCHANGED <<cells, live, sent, work, following>>

\* findSpore, findCluster
Found(id) == {c \in indexed : cells[c].id = id}

-----------------------------------------------------------------------------
(* A preparation.                                                          *)

At(step) == work # None /\ work.at = step

Becomes(state) ==
  /\ work' = state
  /\ UNCHANGED <<chain, following>>

Requests ==
  LET ids(kind) == {cells[c].id : c \in {k \in DOMAIN cells : cells[k].kind = kind}} IN
    [operation : {"create"}, id : {0}, clusterId : {0} \cup ids("cluster"),
     content : Contents, to : {User}]
      \cup [operation : {"cluster-create"}, id : {0}, clusterId : {0}, content : {None},
            to : {User}]
      \cup [operation : {"transfer"}, id : ids("spore"), clusterId : {0}, content : {None},
            to : Wallets]
      \cup [operation : {"melt"}, id : ids("spore"), clusterId : {0}, content : {None},
            to : {User}]
      \cup [operation : {"cluster-transfer"}, id : ids("cluster"), clusterId : {0},
            content : {None}, to : Wallets]

\* The cell that a request is about: the asset, or the cluster of a new Spore.
Subject(request) == IF request.operation = "create" THEN request.clusterId ELSE request.id

\* The studio forgets what it showed; what it still verifies is of another generation.
build ==
  /\ work = None /\ Len(sent) < MaxSent
  /\ \E request \in Requests :
       work' = [at |-> IF Subject(request) = 0 THEN "build" ELSE "find",
                request |-> request, before |-> 0, tx |-> None]
  /\ checks' = [k \in Checks |-> None] /\ evidence' = None
  /\ UNCHANGED <<chain, hash, busy>>

\* What is immortal is not melted.
find ==
  /\ At("find")
  /\ \E c \in Found(Subject(work.request)) :
       /\ work.request.operation = "melt" => cells[c].content # "immortal"
       /\ Becomes([work EXCEPT !.at = "own", !.before = c])

ownedCell ==
  /\ At("own")
  /\ cells[work.before].lock = User /\ work.before \in live
  /\ Becomes([work EXCEPT !.at = "build"])

\* The library looks the asset up once more, and chooses the id of a new one, which
\* follows from the first input: what was not sent, or not committed, may have had it.
library ==
  /\ At("build")
  /\ LET r == work.request
         New(id) == [kind |-> IF isCluster(r.operation) THEN "cluster" ELSE "spore",
                     id |-> id, lock |-> r.to, content |-> r.content,
                     cluster |-> r.clusterId, by |-> 0]
         Built(id, inputs, outputs) ==
           Becomes([work EXCEPT !.at = "inputs",
                      !.tx = [operation |-> r.operation, id |-> id, to |-> r.to,
                              inputs |-> inputs, outputs |-> outputs]])
         Kept(c, lock) == [cells[c] EXCEPT !.lock = lock, !.by = 0]
     IN
       \/ /\ r.operation \in {"create", "cluster-create"}
          /\ \E id \in 1 .. MaxIds :
               /\ \A c \in DOMAIN cells : cells[c].id # id
               /\ IF r.clusterId = 0 THEN Built(id, {}, <<New(id)>>)
                  ELSE \E c \in Found(r.clusterId) :
                         Built(id, {c}, <<New(id), Kept(c, cells[c].lock)>>)
       \/ /\ r.operation \notin {"create", "cluster-create"}
          /\ \E c \in Found(r.id) :
               Built(r.id, {c}, IF r.operation = "melt" THEN <<>> ELSE <<Kept(c, r.to)>>)

\* The output of the asset is what the cell was, under the lock.
assertPreserved(before, outputs, lock) ==
  \E i \in DOMAIN outputs :
    outputs[i] = [cells[before] EXCEPT !.lock = lock, !.by = 0]

\* The inputs are live, and the asset, or the cluster that is an input, is preserved.
prepared ==
  /\ At("inputs")
  /\ work.tx.inputs \subseteq live
  /\ LET operation == work.request.operation IN
       work.before # 0 /\ operation # "melt" =>
         /\ assertPreserved(work.before, work.tx.outputs,
              IF operation = "create" THEN cells[work.before].lock ELSE work.request.to)
         /\ operation = "create" => work.before \in work.tx.inputs
  /\ Becomes([work EXCEPT !.at = "review"])

-----------------------------------------------------------------------------
(* Signing, and what follows.                                              *)

signPrepared ==
  /\ At("review") /\ hash = 0
  /\ work.tx.inputs \subseteq live
  /\ Becomes([work EXCEPT !.at = "signed"])

\* The node takes a transaction whose inputs the wallet can unlock and nobody else spends,
\* and whose new id is new.
Accepts(tx) ==
  /\ tx.inputs \subseteq live
  /\ \A c \in tx.inputs : cells[c].lock = User
  /\ \A h \in DOMAIN sent : sent[h].status = "pool" =>
       sent[h].tx.inputs \cap tx.inputs = {} /\ sent[h].tx.id # tx.id
  /\ tx.operation \in {"create", "cluster-create"} =>
       \A c \in DOMAIN cells : cells[c].id # tx.id

\* It answers with the hash, which is shown and observed; or its answer is lost, and the
\* review stays as if nothing had been sent.
sendTransaction ==
  /\ At("signed") /\ Len(sent) < MaxSent
  /\ Accepts(work.tx)
  /\ sent' = Append(sent, [tx |-> work.tx, status |-> "pool"])
  /\ work' = [work EXCEPT !.at = "review"]
  /\ \/ hash' = Len(sent') /\ busy' = TRUE
     \/ UNCHANGED <<hash, busy>>
  /\ UNCHANGED <<cells, live, indexed, checks, evidence>>

\* The network is another, or the code of Spores is not live (verifyNetwork, first of a
\* preparation, of a signature and of a broadcast), or another call fails: a preparation
\* leaves nothing, a signature or a broadcast the review.
Fails ==
  /\ work # None /\ work.at # "review"
  /\ Becomes(IF At("signed") THEN [work EXCEPT !.at = "review"] ELSE None)

closeReview ==
  /\ At("review") /\ ~busy
  /\ work' = None /\ hash' = 0
  /\ UNCHANGED <<chain, busy, checks, evidence>>

\* own: the verification that submit waits for; until it ends, the studio is busy.
Begins(k, own) ==
  /\ checks[k] = None
  /\ checks' = [checks EXCEPT ![k] = [at |-> "node", own |-> own, hash |-> hash, found |-> 0]]
  /\ UNCHANGED <<chain, work, hash, busy, evidence>>

Observing == busy /\ \A k \in Checks : checks[k] # None => ~checks[k].own

\* The node has committed it: it is verified.
committed(k) ==
  /\ Observing
  /\ sent[hash].status = "committed"
  /\ Begins(k, TRUE)

\* The node has rejected it, or three minutes are over.
observed ==
  /\ Observing
  /\ busy' = FALSE
  /\ UNCHANGED <<chain, work, hash, checks, evidence>>

recheck(k) ==
  /\ hash # 0 /\ ~busy
  /\ Begins(k, FALSE)

-----------------------------------------------------------------------------
(* verifyCommitted                                                         *)

Stands(k, step) == checks[k] # None /\ checks[k].at = step

Goes(k, state) ==
  /\ checks' = [checks EXCEPT ![k] = state]
  /\ busy' = (busy /\ (state = None => ~checks[k].own))
  /\ UNCHANGED <<chain, work, hash>>

Verified(k, out) ==
  /\ Goes(k, None)
  /\ evidence' = [hash |-> checks[k].hash, out |-> out]

\* Mutant: that its inputs are spent is taken for its commitment.
MutantNodeCommitted(k) ==
  /\ Stands(k, "node")
  /\ LET h == checks[k].hash IN sent[h].tx.inputs \cap live = {}
  /\ Goes(k, [checks[k] EXCEPT !.at = "index"])
  /\ UNCHANGED evidence

\* The node has committed the transaction, and its inputs are spent.
NodeCommitted(k) ==
  /\ Stands(k, "node")
  /\ LET h == checks[k].hash IN
       sent[h].status = "committed" /\ sent[h].tx.inputs \cap live = {}
  /\ Goes(k, [checks[k] EXCEPT !.at = "index"])
  /\ UNCHANGED evidence

\* The indexer no longer has a Spore that was melted.
Melted(k) ==
  /\ Stands(k, "index")
  /\ LET tx == sent[checks[k].hash].tx IN
       tx.operation = "melt" /\ Found(tx.id) = {} /\ tx.outputs = <<>>
  /\ Verified(k, 0)

\* It has the asset as this transaction left it.
Indexed(k) ==
  /\ Stands(k, "index")
  /\ LET h == checks[k].hash IN
       \E c \in Found(sent[h].tx.id) :
         /\ sent[h].tx.operation # "melt"
         /\ cells[c].by = h /\ cells[c].lock = sent[h].tx.to
         /\ Goes(k, [checks[k] EXCEPT !.at = "live", !.found = c])
  /\ UNCHANGED evidence

\* And the node says that it is still there.
StillLive(k) ==
  /\ Stands(k, "live") /\ checks[k].found \in live
  /\ Verified(k, checks[k].found)

\* The indexer is behind, or the asset has moved on.
CheckFails(k) == checks[k] # None /\ Goes(k, None) /\ UNCHANGED evidence

Next ==
  \/ Commit \/ Reject \/ Elsewhere \/ Index
  \/ build \/ find \/ ownedCell \/ library \/ prepared \/ signPrepared \/ sendTransaction
  \/ Fails \/ closeReview \/ observed
  \/ \E k \in Checks :
       \/ committed(k) \/ recheck(k) \/ NodeCommitted(k) \/ Melted(k) \/ Indexed(k)
       \/ StillLive(k) \/ CheckFails(k)

Spec == Init /\ [][Next]_vars

-----------------------------------------------------------------------------

\* Evidence is of a transaction that was committed, which left the asset where the review
\* said, or nowhere; and nothing immortal is gone.
EvidenceIsEarned ==
  /\ evidence # None =>
       LET tx == sent[evidence.hash].tx IN
         /\ sent[evidence.hash].status = "committed"
         /\ IF tx.operation = "melt" THEN \A c \in live : cells[c].id # tx.id
            ELSE \E i \in DOMAIN tx.outputs :
                   /\ tx.outputs[i].id = tx.id /\ tx.outputs[i].lock = tx.to
                   /\ cells[evidence.out] = [tx.outputs[i] EXCEPT !.by = evidence.hash]
  /\ \A c \in DOMAIN cells :
       cells[c].content = "immortal" => \E d \in live : cells[d].id = cells[c].id
=============================================================================
