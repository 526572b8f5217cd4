----------------------------- MODULE IndexerSync -----------------------------
(***************************************************************************)
(* The wallet indexer of the Rust service: sync_wallet copies the typed    *)
(* cells of one owner from the CKB node into the table indexed_assets.     *)
(*                                                                         *)
(* A sync reads the node page by page, and the chain moves on between two  *)
(* pages.  It then marks every row of the owner stale and makes the rows   *)
(* of the cells it found live again, one statement at a time and without a *)
(* transaction or a lock, so the statements of two syncs of one owner      *)
(* interleave, and readers see every intermediate table.                   *)
(*                                                                         *)
(* Cells are numbered in the order the chain creates them, which is the    *)
(* order the node lists them in ("asc"), and a cursor is the number of the *)
(* last cell listed.  The node should return that cursor with each page;   *)
(* the code also reckons with an answer that has none, or the one that was *)
(* sent.  A cell that was consumed stays consumed: chain reorganisations   *)
(* are not modelled.                                                       *)
(***************************************************************************)
EXTENDS Integers, FiniteSets, FiniteSetsExt

CONSTANTS
  Owners,      \* wallet addresses
  OwnerOf,     \* OwnerOf[c]: the address whose lock guards cell c
  Typed,       \* the cells with a type script
  MaxCells,    \* bound: how many cells the chain creates
  PageLimit,   \* PAGE_LIMIT_HEX: the cells in a full page
  MaxPages,    \* MAX_PAGES_PER_SYNC
  Syncs,       \* the sync requests
  None

Cells == 1 .. MaxCells

Outcomes == {"ok", "error"}

ASSUME IndexerAssumption ==
  /\ MaxCells \in Nat /\ PageLimit \in Nat \ {0} /\ MaxPages \in Nat \ {0}
  /\ OwnerOf \in [Cells -> Owners]
  /\ Typed \subseteq Cells
  /\ None \notin Owners \cup Outcomes

VARIABLES
  created,   \* how many cells the chain has created
  live,      \* the cells that are live on the chain
  index,     \* indexed_assets: index[c] is the row of c: absent, live or stale
  sync,      \* sync[s]: the state of one sync request's handler
  run,       \* run[s]: the status of its row in indexer_runs
  watch      \* history: what the chain and other syncs did while s ran

chainVars == <<created, live>>
vars == <<created, live, index, sync, run, watch>>

RowStates == {"absent", "live", "stale"}

\* The typed cells of each page: a cell that two pages list is written twice.
Listing == [1 .. MaxPages -> SUBSET Cells]

Collected(listing) == UNION {listing[p] : p \in 1 .. MaxPages}

NoCells == [p \in 1 .. MaxPages |-> {}]

\* cursor: what the next page is asked for with (0: none); found: the typed cells
\* collected; todo: those whose upsert is still to come; whole: the last page was short.
Sync ==
  [phase : {"idle", "page", "mark", "persist", "finish", "failing", "done"},
   owner : Owners \cup {None}, cursor : 0 .. MaxCells, pages : 0 .. MaxPages,
   found : Listing, todo : Listing, whole : BOOLEAN,
   outcome : Outcomes \cup {None}]

IdleSync ==
  [phase |-> "idle", owner |-> None, cursor |-> 0, pages |-> 0, found |-> NoCells,
   todo |-> NoCells, whole |-> FALSE, outcome |-> None]

\* past: cells consumed before the sync began; ever: cells live at some moment of
\* it; throughout: cells live at every moment of it so far; alone: no other sync
\* of the owner overlapped it.
Watch ==
  [past : SUBSET Cells, ever : SUBSET Cells, throughout : SUBSET Cells, alone : BOOLEAN]

NoWatch == [past |-> {}, ever |-> {}, throughout |-> {}, alone |-> TRUE]

TypeOK ==
  /\ created \in 0 .. MaxCells
  /\ live \subseteq 1 .. created
  /\ index \in [Cells -> RowStates]
  /\ sync \in [Syncs -> Sync]
  /\ run \in [Syncs -> {None, "RUNNING", "COMPLETED", "FAILED"}]
  /\ watch \in [Syncs -> Watch]

Active(s) == sync[s].phase \notin {"idle", "done"}

OfOwner(w) == {c \in Cells : OwnerOf[c] = w}

\* live_by_owner: what a reader of the table is shown.
LiveRows(w) == {c \in OfOwner(w) : index[c] = "live"}

Init ==
  /\ created \in 0 .. MaxCells
  /\ live = 1 .. created
  /\ index = [c \in Cells |-> "absent"]
  /\ sync = [s \in Syncs |-> IdleSync]
  /\ run = [s \in Syncs |-> None]
  /\ watch = [s \in Syncs |-> NoWatch]

-----------------------------------------------------------------------------
(* The chain: a transaction consumes live cells and creates new ones.      *)

Commit(spent, fresh) ==
  /\ created' = created + fresh
  /\ live' = (live \ spent) \cup (created + 1 .. created + fresh)
  /\ watch' = [s \in Syncs |->
       IF Active(s)
       THEN [watch[s] EXCEPT !.ever = @ \cup live', !.throughout = @ \cap live']
       ELSE watch[s]]
  /\ UNCHANGED <<index, sync, run>>

Transaction ==
  \E fresh \in 0 .. 1 : \E spent \in {{}} \cup {{c} : c \in live} :
    /\ created + fresh <= MaxCells
    /\ fresh > 0 \/ spent # {}
    /\ Commit(spent, fresh)

-----------------------------------------------------------------------------
(* POST /indexer/sync                                                      *)

\* begin_run.
Begin(s, w) ==
  /\ sync[s].phase = "idle"
  /\ sync' = [sync EXCEPT ![s].phase = "page", ![s].owner = w]
  /\ run' = [run EXCEPT ![s] = "RUNNING"]
  /\ LET Rivals == {t \in Syncs : Active(t) /\ sync[t].owner = w} IN
     watch' = [t \in Syncs |->
       IF t = s
       THEN [past |-> (1 .. created) \ live, ever |-> live, throughout |-> live,
             alone |-> Rivals = {}]
       ELSE IF t \in Rivals THEN [watch[t] EXCEPT !.alone = FALSE]
       ELSE watch[t]]
  /\ UNCHANGED <<created, live, index>>

\* The page get_cells returns after a cursor: the first PageLimit live cells.
Page(w, cursor) ==
  LET after == {c \in live : OwnerOf[c] = w /\ c > cursor} IN
  {c \in after : Cardinality({d \in after : d < c}) < PageLimit}

\* The cursor of an answer: the last cell listed; or none, or the one that was sent.
Cursors(page, cursor) == {0, cursor} \cup (IF page = {} THEN {} ELSE {Max(page)})

\* Mutant: the loop has no page bound.
MutantLastPage(s, page, next) ==
  Cardinality(page) < PageLimit \/ next = sync[s].cursor

\* A short page is the last one; so is one whose cursor leads nowhere, and the last page
\* the bound allows.
LastPage(s, page, next) ==
  \/ Cardinality(page) < PageLimit
  \/ next = sync[s].cursor
  \/ sync[s].pages + 1 >= MaxPages

\* The scan goes on after this page, or it is over and its cursor and counter are gone.
FetchPage(s) ==
  /\ sync[s].phase = "page"
  /\ LET page == Page(sync[s].owner, sync[s].cursor)
         number == IF sync[s].pages < MaxPages THEN sync[s].pages + 1 ELSE MaxPages
         found == [sync[s].found EXCEPT ![number] = @ \cup (page \cap Typed)]
         whole == Cardinality(page) < PageLimit
     IN
     \E next \in Cursors(page, sync[s].cursor) :
       sync' = [sync EXCEPT ![s] =
         IF LastPage(s, page, next)
         THEN [@ EXCEPT !.found = found, !.whole = whole, !.phase = "mark",
                        !.cursor = 0, !.pages = 0]
         ELSE [@ EXCEPT !.found = found, !.cursor = next, !.pages = number]]
  /\ UNCHANGED <<created, live, index, run, watch>>

\* The node does not answer, or a cell does not parse: nothing is kept.
FetchFails(s) ==
  /\ sync[s].phase = "page"
  /\ sync' = [sync EXCEPT ![s].phase = "failing"]
  /\ UNCHANGED <<created, live, index, run, watch>>

RecordFailure(s) ==
  /\ sync[s].phase = "failing"
  /\ run' = [run EXCEPT ![s] = "FAILED"]
  /\ sync' = [sync EXCEPT ![s] = [IdleSync EXCEPT !.phase = "done", !.outcome = "error"]]
  /\ UNCHANGED <<created, live, index, watch>>

\* Mutant: the rows of the last sync are not marked.
MutantMarkStale(s) ==
  /\ sync[s].phase = "mark"
  /\ sync' = [sync EXCEPT ![s].phase = IF Collected(sync[s].found) = {} THEN "finish" ELSE "persist",
                          ![s].todo = sync[s].found]
  /\ UNCHANGED <<created, live, index, run, watch>>

\* mark_owner_snapshot_stale: one statement over all rows of the owner.
MarkStale(s) ==
  /\ sync[s].phase = "mark"
  /\ index' = [c \in Cells |->
       IF c \in OfOwner(sync[s].owner) /\ index[c] = "live" THEN "stale" ELSE index[c]]
  /\ sync' = [sync EXCEPT ![s].phase = IF Collected(sync[s].found) = {} THEN "finish" ELSE "persist",
                          ![s].todo = sync[s].found]
  /\ UNCHANGED <<created, live, run, watch>>

\* The page that is being written back.
NextPage(s) == Min({p \in 1 .. MaxPages : sync[s].todo[p] # {}})

\* The cell c of that page is written: what is left of sync[s].
Written(s, c) ==
  LET todo == [sync[s].todo EXCEPT ![NextPage(s)] = @ \ {c}] IN
  [sync[s] EXCEPT !.todo = todo,
                  !.phase = IF Collected(todo) = {} THEN "finish" ELSE "persist"]

\* Mutant: ON CONFLICT DO NOTHING.
MutantUpsert(s) ==
  /\ sync[s].phase = "persist"
  /\ LET c == Min(sync[s].todo[NextPage(s)]) IN
     /\ index' = [index EXCEPT ![c] = IF @ = "absent" THEN "live" ELSE @]
     /\ sync' = [sync EXCEPT ![s] = Written(s, c)]
  /\ UNCHANGED <<created, live, run, watch>>

\* upsert, once per cell, in the order the cells were found.
Upsert(s) ==
  /\ sync[s].phase = "persist"
  /\ LET c == Min(sync[s].todo[NextPage(s)]) IN
     /\ index' = [index EXCEPT ![c] = "live"]
     /\ sync' = [sync EXCEPT ![s] = Written(s, c)]
  /\ UNCHANGED <<created, live, run, watch>>

Finish(s) ==
  /\ sync[s].phase = "finish"
  /\ run' = [run EXCEPT ![s] = "COMPLETED"]
  /\ sync' = [sync EXCEPT ![s] =
       [IdleSync EXCEPT !.phase = "done", !.owner = sync[s].owner,
                        !.whole = sync[s].whole, !.found = sync[s].found,
                        !.outcome = "ok"]]
  /\ UNCHANGED <<created, live, index, watch>>

\* A statement fails, the process stops or the caller is gone: the handler ends
\* where it stands, its run still says RUNNING and the table is left as it is.
Abandon(s) ==
  /\ Active(s)
  /\ sync' = [sync EXCEPT ![s] = [IdleSync EXCEPT !.phase = "done", !.outcome = "error"]]
  /\ UNCHANGED <<created, live, index, run, watch>>

\* The steps a handler takes on its own once its request has arrived.
Step(s) == FetchPage(s) \/ RecordFailure(s) \/ MarkStale(s) \/ Upsert(s) \/ Finish(s)

Next ==
  \/ Transaction
  \/ \E s \in Syncs :
       (\E w \in Owners : Begin(s, w)) \/ Step(s) \/ FetchFails(s) \/ Abandon(s)

\* tokio polls every task that can make progress, and a call to the node that
\* hangs is cut off by the client's timeout (FetchFails).
Spec == Init /\ [][Next]_vars /\ \A s \in Syncs : WF_vars(Step(s))

-----------------------------------------------------------------------------
(* Properties                                                              *)

Completed(s) == sync[s].outcome = "ok"

(***************************************************************************)
(* A sync that no other sync of its owner overlapped leaves a table that   *)
(* is right up to what happened while it ran: a row is live only if its    *)
(* cell was live at some moment of the sync, and if the scan reached the   *)
(* last cell, every typed cell that was live all the time has a live row.  *)
(* (Every table and sync has its type.)                                    *)
(***************************************************************************)
SoloSyncIsFresh ==
  /\ TypeOK
  /\ \A s \in Syncs :
       sync[s].phase = "finish" /\ watch[s].alone =>
         LET w == sync[s].owner IN
           /\ LiveRows(w) \subseteq watch[s].ever
           /\ sync[s].whole =>
                watch[s].throughout \cap OfOwner(w) \cap Typed \subseteq LiveRows(w)

(***************************************************************************)
(* However the syncs of an owner overlap, once all of them completed with  *)
(* a scan that reached the last cell, no typed cell that was live during   *)
(* all of them is missing: the rows one sync marks stale behind the back   *)
(* of another are written again by the one that marked them.               *)
(***************************************************************************)
OverlapLosesNoCell ==
  \A w \in Owners :
    LET Mine == {s \in Syncs : sync[s].phase # "idle" /\ sync[s].owner \in {w, None}} IN
    /\ Mine # {}
    /\ \A s \in Mine : Completed(s) /\ sync[s].whole
    => \A c \in OfOwner(w) \cap Typed :
         (\A s \in Mine : c \in watch[s].throughout) => c \in LiveRows(w)

(***************************************************************************)
(* Every sync that begins ends, although the chain may grow while it runs  *)
(* and the node may lose the cursor, so that full pages come for ever: the *)
(* bound on the pages stops a scan that nothing else would stop.           *)
(***************************************************************************)
EverySyncEnds == \A s \in Syncs : Active(s) ~> sync[s].phase = "done"

(***************************************************************************)
(* The page titles the live rows "On-chain source of truth": a cell that   *)
(* was consumed before a completed sync began is not shown after it.       *)
(***************************************************************************)
ConsumedStaysGone ==
  \A s \in Syncs :
    Completed(s) => LiveRows(sync[s].owner) \cap watch[s].past = {}
=============================================================================
