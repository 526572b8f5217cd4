------------------------------ MODULE DevConsole ------------------------------
(***************************************************************************)
(* The developer console of the portal: every feature and network, a       *)
(* scope, has a bounded log of the operations that were begun there, and   *)
(* there are so many scopes at most: the one written longest ago goes.     *)
(* An operation writes its end where it began, whatever page is open then, *)
(* unless the log was cleared or evicted since: the generation of a log    *)
(* tells.                                                                  *)
(***************************************************************************)
EXTENDS Integers, SequencesExt

CONSTANTS
  Keys,             \* of the scopes
  Ops,              \* the operations under way at once
  SCOPE_LIMIT,      \* 80 in the code
  LOG_LIMIT,        \* 250 in the code
  MaxGenerations,
  None

VARIABLES
  scope,         \* the page that is open
  paused,        \* the view that was paused, if it was
  buffers,       \* of the scopes, the one written longest ago first
  generations,   \* of the scopes: the number of the log that is kept
  sequence,      \* the last generation that was made
  pending        \* of the operations under way: their scope and generation

store == <<buffers, generations, sequence>>
vars == <<scope, paused, store, pending>>

\* What is opened, and what is clicked or asked for.
Sources == {"open"} \cup Ops

Entry == [source : Sources, generation : 1 .. MaxGenerations, end : BOOLEAN]

Buffer == [key : Keys, log : Seq(Entry)]

Begun == [key : Keys, generation : 1 .. MaxGenerations]

Buffered(b) == {b[i].key : i \in DOMAIN b}

TypeOK ==
  /\ scope \in Keys /\ paused \in Seq(Entry) \cup {None}
  /\ buffers \in Seq(Buffer)
  /\ generations \in [Keys -> 0 .. MaxGenerations]
  /\ sequence \in 0 .. MaxGenerations
  /\ pending \in [Ops -> Begun \cup {None}]

Init ==
  /\ scope \in Keys /\ paused = None
  /\ buffers = <<>> /\ generations = [k \in Keys |-> 0] /\ sequence = 0
  /\ pending = [o \in Ops |-> None]

-----------------------------------------------------------------------------
(***************************************************************************)
(* The store.  A generation of 0 is none.                                  *)
(***************************************************************************)

\* Where the scope stands.
Position(b, key) == CHOOSE i \in DOMAIN b : b[i].key = key

snapshot(key) ==
  IF key \in Buffered(buffers) THEN buffers[Position(buffers, key)].log ELSE <<>>

\* A map writes a key that it had at its end only after it was deleted.
Without(b, key) == IF key \in Buffered(b) THEN RemoveAt(b, Position(b, key)) ELSE b

\* The scopes that stay: as many as there may be, and the last that were written.
trimScopes(b) ==
  SubSeq(b, IF Len(b) > SCOPE_LIMIT THEN Len(b) - SCOPE_LIMIT + 1 ELSE 1, Len(b))

\* An evicted scope loses its generation with its log.
Keep(b) ==
  /\ buffers' = trimScopes(b)
  /\ generations' =
       [k \in Keys |->
          IF k \in Buffered(b) \ Buffered(buffers') THEN 0
          ELSE IF k = b[Len(b)].key /\ generations[k] = 0 THEN sequence'
          ELSE generations[k]]

\* The entries are added, the oldest ones go, and the scope is the last one written.
publish(key, entries) ==
  LET log == snapshot(key) \o entries
      kept == SubSeq(log, IF Len(log) > LOG_LIMIT THEN Len(log) - LOG_LIMIT + 1 ELSE 1,
                     Len(log))
  IN Keep(Append(Without(buffers, key), [key |-> key, log |-> kept]))

\* The generation of a scope, or a new one.
GenerationOf(key) == IF generations[key] = 0 THEN sequence + 1 ELSE generations[key]

Enter(key) ==
  /\ GenerationOf(key) <= MaxGenerations
  /\ sequence' = IF generations[key] = 0 THEN sequence + 1 ELSE sequence

\* Mutant: the log that is cleared keeps its generation.
MutantClearLogs ==
  /\ sequence < MaxGenerations /\ sequence' = sequence + 1
  /\ buffers' = trimScopes(Append(Without(buffers, scope), [key |-> scope, log |-> <<>>]))
  /\ generations' =
       [k \in Keys |-> IF k \in Buffered(buffers') THEN generations[k] ELSE 0]
  /\ paused' = IF paused = None THEN None ELSE <<>>
  /\ UNCHANGED <<scope, pending>>

\* The console is cleared, and what it shows while it is paused.
clearLogs ==
  /\ sequence < MaxGenerations /\ sequence' = sequence + 1
  /\ buffers' = trimScopes(Append(Without(buffers, scope), [key |-> scope, log |-> <<>>]))
  /\ generations' =
       [k \in Keys |-> IF k = scope THEN sequence'
                       ELSE IF k \in Buffered(buffers') THEN generations[k] ELSE 0]
  /\ paused' = IF paused = None THEN None ELSE <<>>
  /\ UNCHANGED <<scope, pending>>

-----------------------------------------------------------------------------

Entries(source, generation, ends) ==
  [i \in 1 .. Len(ends) |->
     [source |-> source, generation |-> generation, end |-> ends[i]]]

\* Another page: it says that it was opened; a paused view is not kept.
navigate(key) ==
  /\ scope' = key /\ paused' = None
  /\ Enter(key)
  /\ publish(key, Entries("open", GenerationOf(key), <<FALSE, TRUE>>))
  /\ UNCHANGED pending

pause ==
  /\ paused' = IF paused = None THEN snapshot(scope) ELSE None
  /\ UNCHANGED <<scope, store, pending>>

\* An operation begins on the page that is open.
beginOperation(o) ==
  /\ pending[o] = None
  /\ Enter(scope)
  /\ pending' = [pending EXCEPT ![o] = [key |-> scope, generation |-> GenerationOf(scope)]]
  /\ publish(scope, Entries(o, GenerationOf(scope), <<FALSE>>))
  /\ UNCHANGED <<scope, paused>>

\* traceCall: it completes, fails or is cancelled, once; if its log is still there, the
\* end is written.
settle(o) ==
  LET op == pending[o] IN
    /\ op # None
    /\ pending' = [pending EXCEPT ![o] = None]
    /\ IF generations[op.key] = op.generation
       THEN publish(op.key, Entries(o, op.generation, <<TRUE>>)) /\ UNCHANGED sequence
       ELSE UNCHANGED store
    /\ UNCHANGED <<scope, paused>>

Next ==
  \/ \E key \in Keys \ {scope} : navigate(key)
  \/ clearLogs \/ pause
  \/ \E o \in Ops : beginOperation(o) \/ settle(o)

Spec == Init /\ [][Next]_vars

-----------------------------------------------------------------------------

\* A log holds entries of its generation only: what was cleared or evicted does not come
\* back with an end that comes late.  So an end follows its beginning, unless the log is
\* full and lost it.  A scope without a log has no generation.
LogsAreOfOneGeneration ==
  /\ Buffered(buffers) = {k \in Keys : generations[k] # 0}
  /\ Len(buffers) = Cardinality(Buffered(buffers)) /\ Len(buffers) <= SCOPE_LIMIT
  /\ \A i \in DOMAIN buffers :
       LET log == buffers[i].log IN
         /\ Len(log) <= LOG_LIMIT
         /\ \A j \in DOMAIN log :
              /\ log[j].generation = generations[buffers[i].key]
              /\ log[j].end =>
                   \/ Len(log) = LOG_LIMIT
                   \/ \E n \in 1 .. j - 1 : log[n].source = log[j].source /\ ~log[n].end
=============================================================================
