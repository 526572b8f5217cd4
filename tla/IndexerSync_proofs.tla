-------------------------- MODULE IndexerSync_proofs --------------------------
(***************************************************************************)
(* The safety properties of IndexerSync, for any chain, any owners, any    *)
(* page size and page bound, and any number of syncs.                      *)
(*                                                                         *)
(* A scan that moves on from a page has seen every cell up to its cursor   *)
(* that stays live, because a page holds the first cells after the cursor, *)
(* and a cursor that the node loses only makes the scan begin anew.        *)
(* From there on only the statements of the syncs matter: a sync that is   *)
(* alone owns the rows of its owner, and of several overlapping ones the   *)
(* last to mark the rows stale still has to write them again.              *)
(***************************************************************************)
EXTENDS IndexerSync, FiniteSetTheorems, TLAPS

TypedOf(w) == OfOwner(w) \cap Typed

\* The cells that s found, and those it has still to write.
Found(s) == Collected(sync[s].found)
Todo(s) == Collected(sync[s].todo)

\* What the handler of s holds.
HandlerOK(s) ==
  LET q == sync[s] IN
  /\ q.phase = "idle" => q = IdleSync
  /\ Active(s) => q.owner \in Owners /\ q.outcome = None
  /\ Completed(s) => q.phase = "done" /\ q.owner \in Owners
  /\ q.outcome = "error" => q.phase = "done" /\ q.owner = None
  /\ Found(s) \subseteq TypedOf(q.owner)
  /\ Todo(s) \subseteq Found(s)
  /\ q.phase = "persist" => Todo(s) # {}

\* What the scan of s has seen of the chain.
ScanOK(s) ==
  Active(s) =>
    /\ live \subseteq watch[s].ever /\ watch[s].throughout \subseteq live
    /\ Found(s) \subseteq watch[s].ever
    /\ sync[s].phase = "page" =>
         \A c \in watch[s].throughout \cap TypedOf(sync[s].owner) :
           c <= sync[s].cursor => c \in Found(s)
    /\ sync[s].whole => watch[s].throughout \cap TypedOf(sync[s].owner) \subseteq Found(s)

\* A sync that is alone has the rows of its owner to itself.
AloneOK(s) ==
  Active(s) /\ watch[s].alone =>
    /\ \A t \in Syncs : Active(t) /\ sync[t].owner = sync[s].owner => t = s
    /\ sync[s].phase \in {"persist", "finish"} =>
         /\ Found(s) \ Todo(s) \subseteq LiveRows(sync[s].owner)
         /\ LiveRows(sync[s].owner) \subseteq Found(s)
    /\ sync[s].phase = "finish" => Todo(s) = {}

Marked(s, w) == sync[s].owner = w /\ sync[s].phase \in {"persist", "finish", "done"}

\* Because of s, nothing is promised about the row of c.
Spoils(s, c) ==
  \/ sync[s].outcome = "error"
  \/ Marked(s, OwnerOf[c]) /\ ~(sync[s].whole /\ c \in watch[s].throughout)

\* What a sync of its owner has marked stale is live again, or somebody is about
\* to write it.
CoverOK(c) ==
  (\E s \in Syncs : Marked(s, OwnerOf[c])) =>
    \/ index[c] = "live"
    \/ \E s \in Syncs : sync[s].phase = "persist" /\ sync[s].owner = OwnerOf[c] /\ c \in Todo(s)
    \/ \E s \in Syncs : Spoils(s, c)

IInv ==
  /\ TypeOK
  /\ \A s \in Syncs : HandlerOK(s)
  /\ \A s \in Syncs : ScanOK(s)
  /\ \A s \in Syncs : AloneOK(s)
  /\ \A c \in Typed : CoverOK(c)

-----------------------------------------------------------------------------
\* The library's order on the naturals, as a relation the provers can hold.
LEMMA NatIsWellFounded ==
  \E R : IsWellFoundedOn(R, Nat) /\ \A x, y \in Nat : x < y => <<x, y>> \in R
<1> DEFINE R == OpToRel(<, Nat)
<1>1. IsWellFoundedOn(R, Nat)
  BY NatLessThanWellFounded
<1>2. \A x, y \in Nat : x < y => <<x, y>> \in R
  BY DEF OpToRel
<1> QED BY <1>1, <1>2, Zenon

\* A set of natural numbers has a least one.
LEMMA LeastNatural ==
  ASSUME NEW S, S \subseteq Nat, S # {}
  PROVE  \E n \in S : \A m \in S : n <= m
<1>1. PICK R : IsWellFoundedOn(R, Nat) /\ \A x, y \in Nat : x < y => <<x, y>> \in R
  BY NatIsWellFounded
<1>2. IsWellFoundedOn(R, Nat)
  BY <1>1
<1>3. PICK n \in S : \A m \in S : ~ (<<m, n>> \in R)
  BY <1>2, WFMin
<1>4. ASSUME NEW m \in S PROVE n <= m
  <2>1. n \in Nat /\ m \in Nat /\ ~ (<<m, n>> \in R)
    BY <1>3
  <2>2. ~ (m < n)
    BY <1>1, <2>1
  <2> QED BY <2>1, <2>2
<1> QED BY <1>4

\* The two ends of a set of cells.
LEMMA LeastCell ==
  ASSUME NEW S, S \subseteq Cells, S # {}
  PROVE  Min(S) \in S
<1>1. S \subseteq Nat
  BY IndexerAssumption DEF Cells
<1>2. PICK c \in S : \A d \in S : c <= d
  BY <1>1, LeastNatural
<1> QED BY <1>2 DEF Min

LEMMA LastCell ==
  ASSUME NEW S, S \subseteq Cells, S # {}
  PROVE  Max(S) \in S /\ \A c \in S : c <= Max(S)
<1> DEFINE T == {MaxCells - c : c \in S}
<1>0. MaxCells \in Nat /\ \A c \in S : c \in Nat /\ c <= MaxCells
  BY IndexerAssumption DEF Cells
<1>1. T \subseteq Nat /\ T # {}
  BY <1>0
<1>2. PICK n \in T : \A m \in T : n <= m
  BY <1>1, LeastNatural
<1>3. PICK c \in S : n = MaxCells - c
  BY <1>2
<1>4. ASSUME NEW d \in S PROVE c >= d
  <2>1. MaxCells - d \in T
    OBVIOUS
  <2>2. MaxCells - c <= MaxCells - d
    BY <1>2, <1>3, <2>1
  <2> QED BY <1>0, <2>2
<1>5. Max(S) \in S /\ \A d \in S : Max(S) >= d
  BY <1>4 DEF Max
<1> QED BY <1>0, <1>5

\* A page is the first cells after the cursor, and all of them if it is short.
LEMMA PageIsPrefix ==
  ASSUME NEW w, NEW cursor \in 0 .. MaxCells, live \subseteq Cells
  PROVE  LET page == Page(w, cursor)
             after == {c \in live : OwnerOf[c] = w /\ c > cursor} IN
         /\ page \subseteq after
         /\ \A c \in page, d \in after : d < c => d \in page
         /\ page = {} => after = {}
         /\ Cardinality(page) < PageLimit => after = page
<1> DEFINE page == Page(w, cursor)
           after == {c \in live : OwnerOf[c] = w /\ c > cursor}
           Below(c) == {d \in after : d < c}
<1>1. /\ \A c \in after : c \in Cells /\ c \in Nat
      /\ PageLimit \in Nat /\ PageLimit > 0
  BY IndexerAssumption DEF Cells
<1>2. \A c \in after : c \in page <=> Cardinality(Below(c)) < PageLimit
  BY DEF Page
<1>3. page \subseteq after
  BY DEF Page
<1>4. IsFiniteSet(Cells)
  BY FS_Interval, IndexerAssumption DEF Cells
<1>5. \A S \in SUBSET after : IsFiniteSet(S) /\ Cardinality(S) \in Nat
  BY <1>1, <1>4, FS_Subset, FS_CardinalityType
<1> HIDE DEF page, after
<1>6. \A c \in after : Below(c) \in SUBSET after
  OBVIOUS
<1>7. ASSUME NEW c \in page, NEW d \in after, d < c PROVE d \in page
  <2> DEFINE B == Below(c)  D == Below(d)
  <2>1. D \subseteq B
    BY <1>1, <1>3, <1>7
  <2>2. c \in after /\ B \in SUBSET after /\ D \in SUBSET after
    BY <1>3
  <2>3. Cardinality(B) < PageLimit /\ (Cardinality(D) < PageLimit => d \in page)
    BY <1>2, <1>3, <1>7
  <2> HIDE DEF B, D
  <2>4. Cardinality(D) <= Cardinality(B) /\ Cardinality(D) \in Nat /\ Cardinality(B) \in Nat
    BY <1>5, <2>1, <2>2, FS_Subset
  <2> QED BY <1>1, <2>3, <2>4
<1>8. ASSUME Cardinality(page) < PageLimit PROVE after = page
  <2> SUFFICES ASSUME after # page PROVE FALSE
    OBVIOUS
  <2>1. after \ page # {} /\ after \ page \subseteq Nat
    BY <1>1, <1>3
  <2>2. PICK c \in after \ page : \A d \in after \ page : c <= d
    BY <2>1, LeastNatural
  <2> DEFINE B == Below(c)
  <2>3. B \subseteq page
    BY <1>1, <2>2
  <2>4. ~ (Cardinality(B) < PageLimit)
    BY <1>2, <2>2
  <2> HIDE DEF B
  <2>5. Cardinality(B) <= Cardinality(page) /\ Cardinality(B) \in Nat /\ Cardinality(page) \in Nat
    BY <1>3, <1>5, <2>3, FS_Subset
  <2> QED BY <1>1, <1>8, <2>4, <2>5
<1>9. page = {} => after = {}
  BY <1>1, <1>8, FS_EmptySet
<1> QED BY <1>3, <1>7, <1>8, <1>9 DEF page, after

-----------------------------------------------------------------------------
\* What the pages hold together.
LEMMA CollectedCells ==
  ASSUME NEW listing \in Listing PROVE Collected(listing) \subseteq Cells
BY DEF Collected, Listing

LEMMA NothingCollected == NoCells \in Listing /\ Collected(NoCells) = {}
BY DEF NoCells, Listing, Collected

\* Cells are added to a page, and one is taken from it.
LEMMA CollectedGrows ==
  ASSUME NEW listing \in Listing, NEW p \in 1 .. MaxPages, NEW S \in SUBSET Cells
  PROVE  LET new == [listing EXCEPT ![p] = @ \cup S] IN
         new \in Listing /\ Collected(new) = Collected(listing) \cup S
<1> DEFINE new == [listing EXCEPT ![p] = @ \cup S]
<1>1. new \in Listing
  BY DEF Listing
<1>2. new[p] = listing[p] \cup S /\ \A r \in 1 .. MaxPages : r # p => new[r] = listing[r]
  BY DEF Listing
<1> HIDE DEF new
<1>3. Collected(new) = Collected(listing) \cup S
  BY <1>2 DEF Collected
<1> QED BY <1>1, <1>3 DEF new

LEMMA CollectedShrinks ==
  ASSUME NEW listing \in Listing, NEW p \in 1 .. MaxPages, NEW c
  PROVE  LET new == [listing EXCEPT ![p] = @ \ {c}] IN
         /\ new \in Listing /\ Collected(new) \subseteq Collected(listing)
         /\ Collected(listing) \ {c} \subseteq Collected(new)
<1> DEFINE new == [listing EXCEPT ![p] = @ \ {c}]
<1>1. new \in Listing
  BY DEF Listing
<1>2. new[p] = listing[p] \ {c} /\ \A r \in 1 .. MaxPages : r # p => new[r] = listing[r]
  BY DEF Listing
<1> HIDE DEF new
<1>3. Collected(new) \subseteq Collected(listing) /\ Collected(listing) \ {c} \subseteq Collected(new)
  BY <1>2 DEF Collected
<1> QED BY <1>1, <1>3 DEF new

\* The next cell to write is one of the first page that has some.
LEMMA NextCell ==
  ASSUME NEW s \in Syncs, sync[s].todo \in Listing, Todo(s) # {}
  PROVE  LET p == NextPage(s) IN
         p \in 1 .. MaxPages /\ Min(sync[s].todo[p]) \in sync[s].todo[p]
<1> DEFINE Pages == {p \in 1 .. MaxPages : sync[s].todo[p] # {}}
<1>1. Pages \subseteq Nat /\ Pages # {}
  BY DEF Todo, Collected
<1>2. PICK p \in Pages : \A r \in Pages : p <= r
  BY <1>1, LeastNatural
<1>3. Min(Pages) \in Pages
  BY <1>2 DEF Min
<1>4. NextPage(s) \in 1 .. MaxPages /\ sync[s].todo[NextPage(s)] # {}
  BY <1>3 DEF NextPage
<1>5. sync[s].todo[NextPage(s)] \subseteq Cells
  BY <1>4 DEF Listing
<1> QED BY <1>4, <1>5, LeastCell

LEMMA IdleTypes ==
  /\ IdleSync \in Sync /\ IdleSync.phase = "idle" /\ IdleSync.owner = None
  /\ Collected(IdleSync.found) = {} /\ Collected(IdleSync.todo) = {} /\ IdleSync.cursor = 0
  /\ IdleSync.whole = FALSE /\ IdleSync.outcome = None /\ NoWatch \in Watch
<1>1. 0 \in 0 .. MaxCells /\ 0 \in 0 .. MaxPages
  BY IndexerAssumption
<1> QED BY <1>1, NothingCollected DEF IdleSync, Sync, Outcomes, NoWatch, Watch

LEMMA InitInv == Init => IInv
<1> SUFFICES ASSUME Init PROVE IInv
  OBVIOUS
<1>1. TypeOK
  BY IdleTypes DEF Init, TypeOK, RowStates
<1>2. \A s \in Syncs : sync[s] = IdleSync /\ ~Active(s)
  BY IdleTypes DEF Init, Active
<1>3. None # "ok" /\ None # "error"
  BY IndexerAssumption DEF Outcomes
<1>4. \A s \in Syncs : HandlerOK(s) /\ ScanOK(s) /\ AloneOK(s)
  BY <1>2, <1>3, IdleTypes DEF HandlerOK, ScanOK, AloneOK, Completed, Found, Todo
<1>5. \A c \in Typed : CoverOK(c)
  BY <1>2, IdleTypes DEF CoverOK, Marked
<1> QED BY <1>1, <1>4, <1>5 DEF IInv

\* The chain moves on: what is live now was live at some moment of every sync, and
\* what is gone was not live throughout it.
LEMMA TransactionInv == ASSUME IInv, Transaction PROVE IInv'
<1>1. PICK fresh \in 0 .. 1, spent \in SUBSET live :
       created + fresh <= MaxCells /\ Commit(spent, fresh)
  BY DEF Transaction
<1>2. TypeOK /\ UNCHANGED <<index, sync, run>>
  BY <1>1 DEF IInv, Commit
<1>3. created' \in 0 .. MaxCells /\ live' \subseteq 1 .. created' /\ live' \subseteq Cells
  <2>1. /\ created' = created + fresh /\ created + fresh <= MaxCells
        /\ live' = (live \ spent) \cup (created + 1 .. created + fresh)
    BY <1>1 DEF Commit
  <2>2. /\ created \in Nat /\ fresh \in Nat /\ MaxCells \in Nat
        /\ \A c \in live : c \in 1 .. created
    BY <1>1, <1>2, IndexerAssumption DEF TypeOK
  <2>3. created' \in 0 .. MaxCells /\ \A c \in live' : c \in 1 .. created'
    BY <2>1, <2>2
  <2> QED BY <2>2, <2>3 DEF Cells
<1>4. /\ watch' \in [Syncs -> Watch]
      /\ \A s \in Syncs :
           /\ watch'[s].alone = watch[s].alone
           /\ watch'[s].throughout \subseteq watch[s].throughout
           /\ watch[s].ever \subseteq watch'[s].ever
           /\ Active(s) => live' \subseteq watch'[s].ever /\ watch'[s].throughout \subseteq live'
  <2>1. \A s \in Syncs : watch[s] \in Watch
    BY <1>2 DEF TypeOK
  <2>2. watch' = [s \in Syncs |->
          IF Active(s)
          THEN [watch[s] EXCEPT !.ever = @ \cup live', !.throughout = @ \cap live']
          ELSE watch[s]]
    BY <1>1 DEF Commit
  <2> QED BY <1>3, <2>1, <2>2 DEF Watch
<1>5. TypeOK'
  BY <1>2, <1>3, <1>4 DEF TypeOK
<1>6. ASSUME NEW s \in Syncs PROVE HandlerOK(s)' /\ ScanOK(s)' /\ AloneOK(s)'
  <2>1. HandlerOK(s)'
    BY <1>2 DEF IInv, HandlerOK, Active, Completed, Found, Todo
  <2>2. ScanOK(s)'
    BY <1>2, <1>4 DEF IInv, ScanOK, Active, Found
  <2>3. AloneOK(s)'
    BY <1>2, <1>4 DEF IInv, AloneOK, Active, LiveRows, Found, Todo
  <2> QED BY <2>1, <2>2, <2>3
<1>7. ASSUME NEW c \in Typed PROVE CoverOK(c)'
  BY <1>2, <1>4 DEF IInv, CoverOK, Marked, Spoils, Todo
<1> QED BY <1>5, <1>6, <1>7 DEF IInv

\* A sync that begins takes their solitude from the others of its owner.
LEMMA BeginInv == ASSUME IInv, NEW s \in Syncs, NEW w \in Owners, Begin(s, w) PROVE IInv'
<1>1. /\ TypeOK /\ sync[s] = IdleSync /\ UNCHANGED <<created, live, index>>
      /\ run' \in [Syncs -> {None, "RUNNING", "COMPLETED", "FAILED"}]
  BY DEF IInv, TypeOK, HandlerOK, Begin
<1> DEFINE q == [IdleSync EXCEPT !.phase = "page", !.owner = w]
<1>2. /\ q \in Sync /\ q.phase = "page" /\ q.owner = w
      /\ Collected(q.found) = {} /\ Collected(q.todo) = {}
      /\ q.cursor = 0 /\ q.whole = FALSE /\ q.outcome = None
  BY IdleTypes DEF Sync
<1>3. sync' = [sync EXCEPT ![s] = q] /\ sync'[s] = q /\ ~Active(s)
  BY <1>1, IdleTypes DEF Begin, TypeOK, Active
<1> HIDE DEF q
<1>4. sync' \in [Syncs -> Sync] /\ \A t \in Syncs \ {s} : sync'[t] = sync[t] /\ (Active(t)' <=> Active(t))
  BY <1>1, <1>2, <1>3 DEF TypeOK, Active
<1>5. /\ watch' \in [Syncs -> Watch]
      /\ watch'[s].ever = live /\ watch'[s].throughout = live
      /\ watch'[s].alone => \A t \in Syncs : Active(t) => sync[t].owner # w
      /\ \A t \in Syncs \ {s} :
           /\ watch'[t].ever = watch[t].ever /\ watch'[t].throughout = watch[t].throughout
           /\ watch'[t].alone => watch[t].alone /\ (Active(t) => sync[t].owner # w)
  <2> DEFINE Rivals == {t \in Syncs : Active(t) /\ sync[t].owner = w}
             new == [past |-> (1 .. created) \ live, ever |-> live, throughout |-> live,
                     alone |-> Rivals = {}]
  <2>1. \A t \in Syncs : watch[t] \in Watch
    BY <1>1 DEF TypeOK
  <2>2. live \subseteq Cells /\ (1 .. created) \ live \subseteq Cells
    BY <1>1, IndexerAssumption DEF TypeOK, Cells
  <2>3. /\ new \in Watch /\ new.ever = live /\ new.throughout = live
        /\ new.alone <=> Rivals = {}
    BY <2>2 DEF Watch
  <2>4. watch' = [t \in Syncs |->
          IF t = s THEN new
          ELSE IF t \in Rivals THEN [watch[t] EXCEPT !.alone = FALSE] ELSE watch[t]]
    BY DEF Begin
  <2>5. \A t \in Syncs : t \in Rivals <=> Active(t) /\ sync[t].owner = w
    OBVIOUS
  <2> HIDE DEF new, Rivals
  <2>6. watch'[s] = new
    BY <2>4
  <2>7. \A t \in Syncs \ {s} :
           /\ watch'[t] \in Watch
           /\ watch'[t].ever = watch[t].ever /\ watch'[t].throughout = watch[t].throughout
           /\ watch'[t].alone => watch[t].alone /\ t \notin Rivals
    BY <2>1, <2>4 DEF Watch
  <2> QED BY <2>3, <2>4, <2>5, <2>6, <2>7
<1>6. TypeOK'
  BY <1>1, <1>4, <1>5 DEF TypeOK
<1>7. HandlerOK(s)' /\ ScanOK(s)' /\ AloneOK(s)'
  <2>1. HandlerOK(s)'
    BY <1>2, <1>3, IndexerAssumption DEF HandlerOK, Active, Completed, Outcomes, Found, Todo
  <2>2. \A c \in Cells : ~ (c <= 0)
    BY IndexerAssumption DEF Cells
  <2>3. ScanOK(s)'
    BY <1>1, <1>2, <1>3, <1>5, <2>2 DEF ScanOK, OfOwner, TypedOf, Found
  <2>4. AloneOK(s)'
    BY <1>2, <1>3, <1>4, <1>5 DEF AloneOK
  <2> QED BY <2>1, <2>3, <2>4
<1>8. ASSUME NEW t \in Syncs \ {s} PROVE HandlerOK(t)' /\ ScanOK(t)' /\ AloneOK(t)'
  <2>1. HandlerOK(t)'
    BY <1>4 DEF IInv, HandlerOK, Active, Completed, Found, Todo
  <2>2. ScanOK(t)'
    BY <1>1, <1>4, <1>5 DEF IInv, ScanOK, TypedOf, Found
  <2>3. AloneOK(t)'
    <3>1. Found(t)' = Found(t) /\ Todo(t)' = Todo(t)
      BY <1>4 DEF Found, Todo
    <3> QED BY <1>1, <1>2, <1>3, <1>4, <1>5, <3>1 DEF IInv, AloneOK, LiveRows
  <2> QED BY <2>1, <2>2, <2>3
<1>9. ASSUME NEW c \in Typed PROVE CoverOK(c)'
  BY <1>1, <1>2, <1>3, <1>4, <1>5, IdleTypes, IndexerAssumption
  DEF IInv, CoverOK, Marked, Spoils, Todo
<1> QED BY <1>6, <1>7, <1>8, <1>9 DEF IInv

-----------------------------------------------------------------------------
\* A step of the handler of s touches its own state and rows of its owner.
LEMMA HandlerInv ==
  ASSUME IInv, NEW s \in Syncs, Active(s), NEW q \in Sync, sync' = [sync EXCEPT ![s] = q],
         UNCHANGED <<created, live, watch>>,
         q.phase \notin {"idle", "done"} => q.owner = sync[s].owner,
         index' \in [Cells -> RowStates],
         run' \in [Syncs -> {None, "RUNNING", "COMPLETED", "FAILED"}],
         \A c \in Cells : OwnerOf[c] # sync[s].owner => index'[c] = index[c],
         HandlerOK(s)', ScanOK(s)', AloneOK(s)', \A c \in Typed : CoverOK(c)'
  PROVE  IInv'
<1>1. TypeOK /\ sync' \in [Syncs -> Sync] /\ sync'[s] = q
      /\ \A t \in Syncs \ {s} : sync'[t] = sync[t]
  BY DEF IInv, TypeOK
<1>2. TypeOK'
  BY <1>1 DEF TypeOK
<1>3. ASSUME NEW t \in Syncs \ {s} PROVE HandlerOK(t)' /\ ScanOK(t)' /\ AloneOK(t)'
  <2>1. HandlerOK(t)'
    BY <1>1 DEF IInv, HandlerOK, Active, Completed, Found, Todo
  <2>2. ScanOK(t)'
    BY <1>1 DEF IInv, ScanOK, Active, TypedOf, Found
  <2>3. AloneOK(t)'
    <3> SUFFICES ASSUME Active(t), watch[t].alone PROVE AloneOK(t)'
      BY <1>1 DEF AloneOK, Active
    <3>1. AloneOK(t) /\ sync[t].owner # sync[s].owner
      BY DEF IInv, AloneOK
    <3>2. LiveRows(sync[t].owner)' = LiveRows(sync[t].owner)
      BY <1>1, <3>1 DEF LiveRows, OfOwner
    <3>3. \A u \in Syncs : Active(u)' /\ sync'[u].owner = sync[t].owner => u = t
      BY <1>1, <3>1 DEF AloneOK, Active
    <3> QED BY <1>1, <3>1, <3>2, <3>3 DEF AloneOK, Found, Todo
  <2> QED BY <2>1, <2>2, <2>3
<1> QED BY <1>2, <1>3 DEF IInv

\* The handler of s is over without a result: nothing is promised any more.
LEMMA ErrorInv ==
  ASSUME IInv, NEW s \in Syncs, Active(s),
         sync' = [sync EXCEPT ![s] = [IdleSync EXCEPT !.phase = "done", !.outcome = "error"]],
         UNCHANGED <<created, live, index, watch>>,
         run' \in [Syncs -> {None, "RUNNING", "COMPLETED", "FAILED"}]
  PROVE  IInv'
<1> DEFINE q == [IdleSync EXCEPT !.phase = "done", !.outcome = "error"]
<1>1. /\ q \in Sync /\ q.phase = "done" /\ q.outcome = "error" /\ q.owner = None
      /\ Collected(q.found) = {} /\ Collected(q.todo) = {}
  BY IdleTypes DEF Sync, Outcomes
<1>2. TypeOK /\ sync' = [sync EXCEPT ![s] = q] /\ sync'[s] = q
  BY DEF IInv, TypeOK
<1> HIDE DEF q
<1>3. HandlerOK(s)' /\ ScanOK(s)' /\ AloneOK(s)'
  BY <1>1, <1>2 DEF HandlerOK, ScanOK, AloneOK, Active, Completed, Found, Todo
<1>4. \A c \in Typed : CoverOK(c)'
  BY <1>1, <1>2 DEF CoverOK, Spoils
<1>5. index' \in [Cells -> RowStates]
  BY <1>2 DEF TypeOK
<1> QED BY <1>1, <1>2, <1>3, <1>4, <1>5, HandlerInv

\* The next page.  Until the rows are marked, nothing is promised about them.
LEMMA FetchInv == ASSUME IInv, NEW s \in Syncs, FetchPage(s) \/ FetchFails(s) PROVE IInv'
<1>1. /\ TypeOK /\ HandlerOK(s) /\ ScanOK(s) /\ AloneOK(s) /\ sync[s] \in Sync
      /\ sync[s].phase = "page" /\ Active(s) /\ UNCHANGED <<created, live, index, run, watch>>
  BY DEF IInv, TypeOK, FetchPage, FetchFails, Active
<1>2. ASSUME NEW q \in Sync, sync' = [sync EXCEPT ![s] = q], q.phase \in {"page", "mark", "failing"},
             q.owner = sync[s].owner, q.todo = sync[s].todo, q.outcome = sync[s].outcome,
             Collected(q.found) \subseteq TypedOf(q.owner), Found(s) \subseteq Collected(q.found),
             ScanOK(s)'
      PROVE  IInv'
  <2>1. sync'[s] = q /\ \A t \in Syncs \ {s} : sync'[t] = sync[t]
    BY <1>1, <1>2 DEF TypeOK
  <2>2. HandlerOK(s)'
    BY <1>1, <1>2, <2>1 DEF HandlerOK, Active, Completed, Found, Todo
  <2>3. AloneOK(s)'
    BY <1>1, <1>2, <2>1 DEF AloneOK, Active
  <2>4. \A c \in Typed : CoverOK(c)'
    BY <1>1, <1>2, <2>1 DEF IInv, CoverOK, Marked, Spoils, Todo
  <2>5. index' \in [Cells -> RowStates] /\ run' \in [Syncs -> {None, "RUNNING", "COMPLETED", "FAILED"}]
    BY <1>1 DEF TypeOK
  <2> QED BY <1>1, <1>2, <2>2, <2>3, <2>4, <2>5, HandlerInv
<1>3. CASE FetchFails(s)
  <2> DEFINE q == [sync[s] EXCEPT !.phase = "failing"]
  <2>1. /\ q \in Sync /\ q.phase = "failing" /\ q.owner = sync[s].owner /\ q.todo = sync[s].todo
        /\ q.outcome = sync[s].outcome /\ q.found = sync[s].found /\ q.whole = sync[s].whole
    BY <1>1 DEF Sync
  <2>2. sync' = [sync EXCEPT ![s] = q] /\ sync'[s] = q
    BY <1>1, <1>3 DEF FetchFails, TypeOK
  <2> HIDE DEF q
  <2>3. ScanOK(s)'
    BY <1>1, <2>1, <2>2 DEF ScanOK, Active, Found
  <2>4. Collected(q.found) \subseteq TypedOf(q.owner)
    BY <1>1, <2>1 DEF HandlerOK, Found
  <2>5. Found(s) \subseteq Collected(q.found)
    BY <2>1 DEF Found
  <2> QED BY <1>2, <2>1, <2>2, <2>3, <2>4, <2>5
<1>4. CASE FetchPage(s)
  <2>1. PICK w \in Owners, cursor \in 0 .. MaxCells :
          w = sync[s].owner /\ cursor = sync[s].cursor
    BY <1>1 DEF Sync, HandlerOK
  <2> DEFINE page == Page(w, cursor)
             after == {c \in live : OwnerOf[c] = w /\ c > cursor}
             number == IF sync[s].pages < MaxPages THEN sync[s].pages + 1 ELSE MaxPages
             found == [sync[s].found EXCEPT ![number] = @ \cup (page \cap Typed)]
             whole == Cardinality(page) < PageLimit
             last == [sync[s] EXCEPT !.found = found, !.whole = whole, !.phase = "mark",
                                     !.cursor = 0, !.pages = 0]
             onward(next) == [sync[s] EXCEPT !.found = found, !.cursor = next, !.pages = number]
  <2>2. live \subseteq Cells
    BY <1>1, IndexerAssumption DEF TypeOK, Cells
  <2>3. /\ page \subseteq after
        /\ \A c \in page, d \in after : d < c => d \in page
        /\ page = {} => after = {}
        /\ Cardinality(page) < PageLimit => after = page
    BY <2>2, PageIsPrefix
  <2>4. \A c \in after : c \in live /\ c \in OfOwner(w) /\ c \in Cells /\ c \in Int
    BY <2>2, IndexerAssumption DEF OfOwner, Cells
  <2>5. \A c \in live \cap OfOwner(w) : c <= cursor \/ c \in after
    BY <2>2, IndexerAssumption DEF OfOwner, Cells
  <2>6. number \in 1 .. MaxPages /\ number \in 0 .. MaxPages /\ 0 \in 0 .. MaxPages
    BY <1>1, IndexerAssumption DEF Sync
  <2>7. PICK next \in Cursors(page, cursor) :
          sync' = [sync EXCEPT ![s] = IF LastPage(s, page, next) THEN last ELSE onward(next)]
    BY <1>1, <1>4, <2>1, ZenonT(60) DEF FetchPage, TypeOK
  <2> HIDE DEF page, after, number
  <2>8. page # {} => Max(page) \in page /\ \A c \in page : c <= Max(page)
    BY <2>3, <2>4, LastCell
  <2>9. page \cap Typed \in SUBSET Cells /\ sync[s].found \in Listing
    BY <1>1, <2>3, <2>4 DEF Sync
  <2>10. found \in Listing /\ Collected(found) = Found(s) \cup (page \cap Typed)
    BY <2>6, <2>9, CollectedGrows DEF Found
  <2>11. Collected(found) \subseteq TypedOf(w) /\ Found(s) \subseteq Collected(found)
    BY <1>1, <2>1, <2>3, <2>4, <2>10 DEF HandlerOK, TypedOf
  <2>12. next \in 0 .. MaxCells /\ (next = 0 \/ next = cursor \/ (page # {} /\ next = Max(page)))
    <3>1. next = 0 \/ next = cursor \/ (page # {} /\ next = Max(page))
      BY <2>7 DEF Cursors
    <3>2. page # {} => Max(page) \in Cells
      BY <2>3, <2>4, <2>8
    <3> QED BY <3>1, <3>2, IndexerAssumption DEF Cells
  <2> HIDE DEF found, whole
  <2>13. /\ live \subseteq watch[s].ever /\ watch[s].throughout \subseteq live
         /\ Found(s) \subseteq watch[s].ever
         /\ \A c \in watch[s].throughout \cap TypedOf(w) : c <= cursor => c \in Found(s)
         /\ sync[s].whole => watch[s].throughout \cap TypedOf(w) \subseteq Found(s)
    BY <1>1, <2>1 DEF ScanOK
  <2>14. Collected(found) \subseteq watch[s].ever
    BY <2>3, <2>4, <2>10, <2>13
  <2>15. ASSUME NEW c \in watch[s].throughout \cap TypedOf(w), c <= next \/ whole
         PROVE  c \in Collected(found)
    <3>1. c \in Typed /\ c \in Cells /\ (c \in Found(s) \/ (c \in after /\ ~(c <= cursor)))
      BY <2>2, <2>5, <2>13 DEF TypedOf, OfOwner
    <3>2. CASE c \in after /\ ~(c <= cursor)
      <4>1. ~(c <= 0)
        BY <3>1, IndexerAssumption DEF Cells
      <4>2. c \in page
        BY <2>3, <2>4, <2>8, <2>12, <2>15, <3>2, <4>1 DEF whole
      <4> QED BY <2>10, <3>1, <4>2
    <3> QED BY <2>10, <3>1, <3>2
  <2>16. CASE LastPage(s, page, next)
    <3>1. whole \in BOOLEAN
      BY DEF whole
    <3>2. /\ last \in Sync /\ last.phase = "mark" /\ last.owner = w /\ last.todo = sync[s].todo
          /\ last.outcome = sync[s].outcome /\ last.found = found /\ last.whole = whole
      <4>1. 0 \in 0 .. MaxCells
        BY IndexerAssumption
      <4> QED BY <1>1, <2>1, <2>6, <2>10, <3>1, <4>1 DEF Sync
    <3> HIDE DEF last
    <3>3. sync' = [sync EXCEPT ![s] = last] /\ sync'[s] = last
      BY <1>1, <2>7, <2>16 DEF TypeOK
    <3>4. ScanOK(s)'
      BY <1>1, <2>13, <2>14, <2>15, <3>2, <3>3 DEF ScanOK, Found
    <3> QED BY <1>2, <2>1, <2>11, <3>2, <3>3, <3>4
  <2>17. CASE ~LastPage(s, page, next)
    <3> DEFINE q == onward(next)
    <3>1. /\ q \in Sync /\ q.phase = "page" /\ q.owner = w /\ q.todo = sync[s].todo /\ q.cursor = next
          /\ q.outcome = sync[s].outcome /\ q.found = found /\ q.whole = sync[s].whole
      BY <1>1, <2>1, <2>6, <2>10, <2>12 DEF Sync
    <3>2. sync' = [sync EXCEPT ![s] = q]
      BY <2>7, <2>17
    <3> HIDE DEF q
    <3>3. sync'[s] = q
      BY <1>1, <3>2 DEF TypeOK
    <3>4. ScanOK(s)'
      BY <1>1, <2>11, <2>13, <2>14, <2>15, <3>1, <3>3 DEF ScanOK, Found
    <3> QED BY <1>2, <2>1, <2>11, <3>1, <3>2, <3>4
  <2> QED BY <2>16, <2>17
<1> QED BY <1>3, <1>4

\* The rows are marked: a cell the whole scan could see is one of those to write again.
LEMMA MarkInv == ASSUME IInv, NEW s \in Syncs, MarkStale(s) PROVE IInv'
<1>1. /\ TypeOK /\ HandlerOK(s) /\ ScanOK(s) /\ AloneOK(s) /\ sync[s] \in Sync
      /\ sync[s].phase = "mark" /\ Active(s) /\ UNCHANGED <<created, live, run, watch>>
      /\ sync[s].owner \in Owners
      /\ run' \in [Syncs -> {None, "RUNNING", "COMPLETED", "FAILED"}]
  BY DEF IInv, TypeOK, HandlerOK, MarkStale, Active
<1> DEFINE found == sync[s].found
           phase == IF Collected(found) = {} THEN "finish" ELSE "persist"
           q == [sync[s] EXCEPT !.phase = phase, !.todo = found]
<1>2. phase \in {"finish", "persist"} /\ (phase = "finish" <=> Collected(found) = {})
  OBVIOUS
<1>3. sync' = [sync EXCEPT ![s] = q]
  BY <1>1 DEF MarkStale, TypeOK
<1> HIDE DEF phase
<1>4. /\ q \in Sync /\ q.phase = phase /\ q.owner = sync[s].owner /\ q.todo = found
      /\ q.outcome = sync[s].outcome /\ q.found = found /\ q.whole = sync[s].whole
  BY <1>1, <1>2 DEF Sync
<1> HIDE DEF q
<1>5. sync'[s] = q /\ \A t \in Syncs \ {s} : sync'[t] = sync[t]
  BY <1>1, <1>3 DEF TypeOK
<1>6. /\ index' \in [Cells -> RowStates]
      /\ \A c \in Cells : OwnerOf[c] # sync[s].owner => index'[c] = index[c]
      /\ \A c \in Cells : OwnerOf[c] = sync[s].owner => index'[c] # "live"
  BY <1>1 DEF MarkStale, OfOwner, TypeOK, RowStates
<1>7. HandlerOK(s)'
  BY <1>1, <1>2, <1>4, <1>5 DEF HandlerOK, Active, Completed, Found, Todo
<1>8. ScanOK(s)'
  BY <1>1, <1>2, <1>4, <1>5 DEF ScanOK, Active, Found
<1>9. AloneOK(s)'
  <2>1. PICK w \in Owners : w = sync[s].owner
    BY <1>1
  <2>2. LiveRows(w)' = {}
    BY <1>6, <2>1 DEF LiveRows, OfOwner
  <2> QED BY <1>1, <1>2, <1>4, <1>5, <2>1, <2>2 DEF AloneOK, Active, Found, Todo
<1>10. ASSUME NEW c \in Typed PROVE CoverOK(c)'
  <2>1. c \in Cells
    BY IndexerAssumption
  <2>2. CASE OwnerOf[c] # sync[s].owner
    BY <1>1, <1>4, <1>5, <1>6, <2>1, <2>2 DEF IInv, CoverOK, Marked, Spoils, Todo
  <2>3. CASE OwnerOf[c] = sync[s].owner /\ sync[s].whole /\ c \in watch[s].throughout
    <3>1. c \in Collected(found)
      BY <1>1, <2>1, <2>3 DEF ScanOK, TypedOf, OfOwner, Found
    <3>2. sync'[s].phase = "persist" /\ sync'[s].owner = OwnerOf[c] /\ c \in Todo(s)'
      BY <1>2, <1>4, <1>5, <2>3, <3>1 DEF Todo
    <3> QED BY <3>2 DEF CoverOK
  <2>4. CASE OwnerOf[c] = sync[s].owner /\ ~(sync[s].whole /\ c \in watch[s].throughout)
    <3>1. Spoils(s, c)'
      BY <1>1, <1>2, <1>4, <1>5, <2>4 DEF Spoils, Marked
    <3> QED BY <3>1 DEF CoverOK
  <2> QED BY <2>2, <2>3, <2>4
<1> QED BY <1>1, <1>2, <1>3, <1>4, <1>6, <1>7, <1>8, <1>9, <1>10, HandlerInv

\* One row is written.
LEMMA UpsertInv == ASSUME IInv, NEW s \in Syncs, Upsert(s) PROVE IInv'
<1>1. /\ TypeOK /\ HandlerOK(s) /\ ScanOK(s) /\ AloneOK(s) /\ sync[s] \in Sync
      /\ sync[s].phase = "persist" /\ Active(s) /\ UNCHANGED <<created, live, run, watch>>
      /\ sync[s].owner \in Owners
      /\ run' \in [Syncs -> {None, "RUNNING", "COMPLETED", "FAILED"}]
  BY DEF IInv, TypeOK, HandlerOK, Upsert, Active
<1>2. sync[s].todo \in Listing /\ sync[s].found \in Listing /\ Todo(s) # {}
  BY <1>1 DEF HandlerOK, Sync
<1>3. PICK p \in 1 .. MaxPages : p = NextPage(s) /\ Min(sync[s].todo[p]) \in sync[s].todo[p]
  BY <1>2, NextCell
<1>4. PICK d \in Cells : d = Min(sync[s].todo[p]) /\ d \in sync[s].todo[p]
  BY <1>2, <1>3 DEF Listing
<1> DEFINE todo == [sync[s].todo EXCEPT ![p] = @ \ {d}]
           phase == IF Collected(todo) = {} THEN "finish" ELSE "persist"
           q == [sync[s] EXCEPT !.todo = todo, !.phase = phase]
<1>5. /\ todo \in Listing /\ Collected(todo) \subseteq Todo(s) /\ Todo(s) \ {d} \subseteq Collected(todo)
  BY <1>2, CollectedShrinks DEF Todo
<1>6. phase \in {"finish", "persist"} /\ (phase = "finish" <=> Collected(todo) = {})
  OBVIOUS
<1>7. sync' = [sync EXCEPT ![s] = q] /\ index' = [index EXCEPT ![d] = "live"]
  BY <1>1, <1>3, <1>4 DEF Upsert, Written, TypeOK
<1> HIDE DEF todo, phase
<1>8. /\ q \in Sync /\ q.phase = phase /\ q.owner = sync[s].owner /\ q.todo = todo
      /\ q.outcome = sync[s].outcome /\ q.found = sync[s].found /\ q.whole = sync[s].whole
  BY <1>1, <1>5, <1>6 DEF Sync
<1> HIDE DEF q
<1>9. /\ sync'[s] = q /\ \A t \in Syncs \ {s} : sync'[t] = sync[t]
      /\ Found(s)' = Found(s) /\ Todo(s)' = Collected(todo)
  <2>1. sync'[s] = q /\ \A t \in Syncs \ {s} : sync'[t] = sync[t]
    BY <1>1, <1>7 DEF TypeOK
  <2> QED BY <1>8, <2>1 DEF Found, Todo
<1>10. d \in Todo(s) /\ d \in Found(s) /\ OwnerOf[d] = sync[s].owner
  <2>1. d \in Todo(s)
    BY <1>4 DEF Todo, Collected
  <2> QED BY <1>1, <2>1 DEF HandlerOK, TypedOf, OfOwner
<1>11. /\ index' \in [Cells -> RowStates] /\ index'[d] = "live"
       /\ \A c \in Cells \ {d} : index'[c] = index[c]
  BY <1>1, <1>7 DEF TypeOK, RowStates
<1>12. HandlerOK(s)'
  BY <1>1, <1>5, <1>6, <1>8, <1>9 DEF HandlerOK, Active, Completed
<1>13. ScanOK(s)'
  BY <1>1, <1>6, <1>8, <1>9 DEF ScanOK, Active
<1>14. AloneOK(s)'
  <2>1. PICK w \in Owners : w = sync[s].owner
    BY <1>1
  <2>2. LiveRows(w)' = LiveRows(w) \cup {d}
    BY <1>10, <1>11, <2>1 DEF LiveRows, OfOwner
  <2>3. \A t \in Syncs : Active(t)' => Active(t) /\ sync'[t].owner = sync[t].owner
    BY <1>1, <1>8, <1>9 DEF Active
  <2> QED BY <1>1, <1>5, <1>6, <1>8, <1>9, <1>10, <2>1, <2>2, <2>3 DEF AloneOK
<1>15. ASSUME NEW c \in Typed PROVE CoverOK(c)'
  <2>1. c \in Cells
    BY IndexerAssumption
  <2>2. CASE c = d
    BY <1>11, <2>2 DEF CoverOK
  <2>3. CASE c # d
    <3>1. \A t \in Syncs \ {s} : Todo(t)' = Todo(t)
      BY <1>9 DEF Todo
    <3>2. \A t \in Syncs :
            sync[t].phase = "persist" /\ sync[t].owner = OwnerOf[c] /\ c \in Todo(t) =>
            sync'[t].phase = "persist" /\ sync'[t].owner = OwnerOf[c] /\ c \in Todo(t)'
      BY <1>5, <1>6, <1>8, <1>9, <2>3, <3>1
    <3>3. \A t \in Syncs : (Marked(t, OwnerOf[c])' <=> Marked(t, OwnerOf[c])) /\ (Spoils(t, c) => Spoils(t, c)')
      BY <1>1, <1>6, <1>8, <1>9 DEF Marked, Spoils
    <3> QED BY <1>11, <2>1, <2>3, <3>2, <3>3 DEF IInv, CoverOK
  <2> QED BY <2>2, <2>3
<1> QED BY <1>1, <1>6, <1>7, <1>8, <1>10, <1>11, <1>12, <1>13, <1>14, <1>15, HandlerInv

\* A sync completes: what it promises of its rows it goes on promising.
LEMMA FinishInv == ASSUME IInv, NEW s \in Syncs, Finish(s) PROVE IInv'
<1>1. /\ TypeOK /\ HandlerOK(s) /\ sync[s] \in Sync /\ sync[s].owner \in Owners
      /\ sync[s].phase = "finish" /\ Active(s) /\ UNCHANGED <<created, live, index, watch>>
      /\ index' \in [Cells -> RowStates]
      /\ run' \in [Syncs -> {None, "RUNNING", "COMPLETED", "FAILED"}]
  BY DEF IInv, TypeOK, HandlerOK, Finish, Active
<1> DEFINE q == [IdleSync EXCEPT !.phase = "done", !.owner = sync[s].owner,
                                 !.whole = sync[s].whole, !.found = sync[s].found,
                                 !.outcome = "ok"]
<1>2. /\ q \in Sync /\ q.phase = "done" /\ q.owner = sync[s].owner /\ Collected(q.todo) = {}
      /\ q.outcome = "ok" /\ q.found = sync[s].found /\ q.whole = sync[s].whole
  BY <1>1, IdleTypes DEF Sync, Outcomes
<1>3. sync' = [sync EXCEPT ![s] = q]
  BY DEF Finish
<1> HIDE DEF q
<1>4. sync'[s] = q /\ \A t \in Syncs \ {s} : sync'[t] = sync[t]
  BY <1>1, <1>3 DEF TypeOK
<1>5. HandlerOK(s)' /\ ScanOK(s)' /\ AloneOK(s)'
  BY <1>1, <1>2, <1>4 DEF HandlerOK, ScanOK, AloneOK, Active, Completed, Found, Todo
<1>6. ASSUME NEW c \in Typed PROVE CoverOK(c)'
  <2>1. \A t \in Syncs : (Marked(t, OwnerOf[c])' <=> Marked(t, OwnerOf[c])) /\ (Spoils(t, c) => Spoils(t, c)')
    BY <1>1, <1>2, <1>4, IndexerAssumption DEF Marked, Spoils, HandlerOK, Outcomes
  <2> QED BY <1>1, <1>2, <1>4, <2>1 DEF IInv, CoverOK, Todo
<1> QED BY <1>1, <1>2, <1>3, <1>5, <1>6, HandlerInv

LEMMA NextInv == ASSUME IInv, [Next]_vars PROVE IInv'
<1>1. ASSUME NEW s \in Syncs, RecordFailure(s) \/ Abandon(s) PROVE IInv'
  <2>1. /\ Active(s) /\ UNCHANGED <<created, live, index, watch>>
        /\ sync' = [sync EXCEPT ![s] = [IdleSync EXCEPT !.phase = "done", !.outcome = "error"]]
    BY <1>1 DEF RecordFailure, Abandon, Active
  <2>2. run' \in [Syncs -> {None, "RUNNING", "COMPLETED", "FAILED"}]
    BY <1>1 DEF RecordFailure, Abandon, IInv, TypeOK
  <2> QED BY <2>1, <2>2, ErrorInv
<1>2. CASE UNCHANGED vars
  <2>1. UNCHANGED <<created, live, index, sync, run, watch>>
    BY <1>2 DEF vars
  <2>2. TypeOK'
    BY <2>1 DEF IInv, TypeOK
  <2>3. \A s \in Syncs : Found(s)' = Found(s) /\ Todo(s)' = Todo(s)
    BY <2>1 DEF Found, Todo
  <2>4. \A s \in Syncs : HandlerOK(s)' /\ ScanOK(s)' /\ AloneOK(s)'
    BY <2>1, <2>3 DEF IInv, HandlerOK, ScanOK, AloneOK, Active, Completed, LiveRows
  <2>5. \A c \in Typed : CoverOK(c)'
    BY <2>1, <2>3 DEF IInv, CoverOK, Marked, Spoils
  <2> QED BY <2>2, <2>4, <2>5 DEF IInv
<1> QED BY <1>1, <1>2, TransactionInv, BeginInv, FetchInv, MarkInv, UpsertInv, FinishInv
        DEF Next, Step

LEMMA InvHolds == Spec => []IInv
BY InitInv, NextInv, PTL DEF Spec

-----------------------------------------------------------------------------
(***************************************************************************)
(* When a sync that was alone is about to complete, the live rows of its   *)
(* owner are the cells it found: none that was gone before it began, and,  *)
(* after a whole scan, all that stayed.                                    *)
(***************************************************************************)
THEOREM SoloSyncsAreFresh == Spec => []SoloSyncIsFresh
<1>1. IInv => SoloSyncIsFresh
  <2> SUFFICES ASSUME IInv, NEW s \in Syncs, sync[s].phase = "finish", watch[s].alone
               PROVE  /\ LiveRows(sync[s].owner) \subseteq watch[s].ever
                      /\ sync[s].whole =>
                           watch[s].throughout \cap OfOwner(sync[s].owner) \cap Typed
                             \subseteq LiveRows(sync[s].owner)
    BY DEF SoloSyncIsFresh, IInv
  <2>1. Active(s) /\ LiveRows(sync[s].owner) = Found(s)
    BY DEF IInv, AloneOK, Active
  <2> QED BY <2>1 DEF IInv, ScanOK, TypedOf
<1> QED BY <1>1, InvHolds, PTL

(***************************************************************************)
(* However many syncs of an owner overlap: once all have completed after a *)
(* whole scan, no typed cell that stayed live during them is missing.      *)
(***************************************************************************)
THEOREM OverlapsLoseNoCell == Spec => []OverlapLosesNoCell
<1>1. IInv => OverlapLosesNoCell
  <2> SUFFICES ASSUME IInv, NEW w \in Owners,
                      NEW s \in Syncs, sync[s].phase # "idle", sync[s].owner \in {w, None},
                      \A t \in Syncs : sync[t].phase # "idle" /\ sync[t].owner \in {w, None} =>
                        Completed(t) /\ sync[t].whole,
                      NEW c \in OfOwner(w) \cap Typed,
                      \A t \in Syncs : sync[t].phase # "idle" /\ sync[t].owner \in {w, None} =>
                        c \in watch[t].throughout
               PROVE  index[c] = "live"
    BY DEF OverlapLosesNoCell, LiveRows
  <2>1. CoverOK(c) /\ OwnerOf[c] = w /\ \A t \in Syncs : HandlerOK(t)
    BY DEF IInv, OfOwner
  <2>2. Marked(s, w)
    BY <2>1, IndexerAssumption DEF HandlerOK, Marked
  <2>3. \A t \in Syncs : ~(sync[t].phase = "persist" /\ sync[t].owner = w)
    BY <2>1 DEF HandlerOK
  <2>4. \A t \in Syncs : ~Spoils(t, c)
    BY <2>1 DEF HandlerOK, Spoils, Marked, Completed
  <2> QED BY <2>1, <2>2, <2>3, <2>4 DEF CoverOK
<1> QED BY <1>1, InvHolds, PTL
=============================================================================
