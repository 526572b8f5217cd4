---------------------------- MODULE SsriInspector ----------------------------
(***************************************************************************)
(* The SSRI page asks a server to run a script and shows the answer.  A    *)
(* query first has a node confirm the script: its genesis block, then the  *)
(* committed transaction that holds the code, then the tip; only then is   *)
(* the server asked.  Every request has a timer and an abort signal, and   *)
(* the fields stay editable while a query runs: an edit aborts it.         *)
(*                                                                         *)
(* The evidence script queries the same server without a page: it asks     *)
(* which methods the script has, and then for one of them.                 *)
(*                                                                         *)
(* A step is an answer, in time or not, or what the user does.  An answer  *)
(* is anything: nothing here depends on the server being honest.           *)
(***************************************************************************)
EXTENDS Integers

CONSTANTS
  Forms,   \* the contents of the fields: an identity, a method, arguments
  Ops,     \* the queries under way or shown
  None

VARIABLES
  form,     \* identity, name and params
  active,   \* active.current: the query whose controller the page holds
  busy,
  shown,    \* the result or the error on the page
  ops       \* ops[o]: the query o

vars == <<form, active, busy, shown, ops>>

METHODS ==
  {"SSRI.version", "SSRI.get_methods", "SSRI.has_methods", "SSRI.get_cell_deps",
   "UDT.name", "UDT.symbol", "UDT.decimals", "UDT.balance"}

ErrorCode ==
  {"CONFIG", "HTTP", "TRANSPORT", "TIMEOUT", "ABORTED", "SIZE", "SCHEMA", "RPC",
   "IDENTITY", "UNSUPPORTED"}

Phases == {"idle", "genesis", "code", "tip", "discovery", "call", "done"}

Op ==
  [by : {"page", "evidence", None}, phase : Phases, form : Forms \cup {None},
   method : METHODS \cup {None}, aborted : BOOLEAN]

IdleOp ==
  [by |-> None, phase |-> "idle", form |-> None, method |-> None, aborted |-> FALSE]

Nothing == [kind |-> "nothing", op |-> None, code |-> "ok"]

TypeOK ==
  /\ form \in Forms
  /\ active \in Ops \cup {None}
  /\ busy \in BOOLEAN
  /\ shown \in [kind : {"nothing", "result", "error"}, op : Ops \cup {None},
                code : ErrorCode \cup {"ok"}]
  /\ ops \in [Ops -> Op]

Init ==
  /\ form \in Forms
  /\ active = None
  /\ busy = FALSE
  /\ shown = Nothing
  /\ ops = [o \in Ops |-> IdleOp]

Free(o) == ops[o].phase \in {"idle", "done"} /\ shown.op # o

-----------------------------------------------------------------------------
(***************************************************************************)
(* What an answer may be, and what becomes of it.                          *)
(***************************************************************************)

\* The arguments a method of the readonly profile takes: "ok", or the error.
encodeArgs(method, offset, limit) ==
  IF method \notin METHODS \/ method = "SSRI.has_methods"
    THEN "UNSUPPORTED"
  ELSE IF offset \in 0 .. 64 /\ limit \in 1 .. 64 THEN "ok" ELSE "CONFIG"

\* The bytes of an answer: is it hexadecimal, how long, is it printable text, and
\* is it the encoding of an empty list?
Contents ==
  [hex : BOOLEAN, length : {0, 1, 8, 16, 256, 257, 512, 520}, text : BOOLEAN,
   empty : BOOLEAN]

decodeResult(method, content) ==
  CASE ~content.hex -> "SCHEMA"
    [] content.hex /\ method = "SSRI.get_methods" ->
         IF content.length % 8 = 0 /\ content.length \in 1 .. 64 * 8
           THEN "ok" ELSE "SCHEMA"
    [] content.hex /\ method \in {"UDT.name", "UDT.symbol"} ->
         IF content.length \in 1 .. 256 /\ content.text THEN "ok" ELSE "SCHEMA"
    [] content.hex /\ method \in {"SSRI.version", "UDT.decimals"} ->
         IF content.length = 1 THEN "ok" ELSE "SCHEMA"
    [] content.hex /\ method = "UDT.balance" ->
         IF content.length = 16 THEN "ok" ELSE "SCHEMA"
    [] content.hex /\ method \in {"SSRI.has_methods", "SSRI.get_cell_deps"} ->
         IF method = "SSRI.get_cell_deps" /\ content.empty THEN "ok"
         ELSE "UNSUPPORTED"

\* An answer of the page's query: bytes, or an envelope with the bytes and a list
\* of at most 256 dependencies.
readContent(envelope, dependencies, hex) ==
  IF (envelope => dependencies <= 256) /\ hex THEN "ok" ELSE "SCHEMA"

\* Is there a password, a token or another scheme in a URL?
publicEndpoint(f) == f.defect # "endpoint"

\* The network and the genesis block agree, and the identity is hashes and an index.
verifyConfig(f) == publicEndpoint(f) /\ f.defect # "identity"

\* The name is a method's and the arguments are a list of hexadecimal strings.
queryConfig(f) == f.defect # "arguments" /\ verifyConfig(f)

\* What a request can end with instead of a result.  The reason of an abort wins
\* over whatever else went wrong.
rpcErrors(o) ==
  IF ops[o].aborted THEN {"ABORTED"}
  ELSE {"TIMEOUT", "HTTP", "SIZE", "SCHEMA", "RPC", "TRANSPORT"}

-----------------------------------------------------------------------------
(***************************************************************************)
(* The page.                                                               *)
(***************************************************************************)

Aborted == [o \in Ops |-> [ops[o] EXCEPT !.aborted = @ \/ o = active]]

invalidate ==
  /\ ops' = Aborted
  /\ shown' = Nothing
  /\ busy' = FALSE

\* A field is edited.
change ==
  /\ invalidate
  /\ form' \in Forms \ {form}
  /\ UNCHANGED active

\* Cancel: what is shown stays, and a query shows nothing while it is busy.
Cancel ==
  /\ busy
  /\ ops' = Aborted
  /\ busy' = FALSE
  /\ UNCHANGED <<form, active, shown>>

\* The page is left, which aborts the query, and opened again, with empty fields.
Leave ==
  /\ ops' = Aborted
  /\ form' \in Forms
  /\ active' = None
  /\ busy' = FALSE
  /\ shown' = Nothing

\* Mutant: an error leaves the page busy.
MutantSettle(o, what) ==
  /\ ops' = [ops EXCEPT ![o].phase = "done"]
  /\ IF ops[o].by = "page"
       THEN /\ shown' = IF ops[o].aborted THEN shown ELSE what
            /\ busy' = (busy /\ (active # o \/ what.kind = "error"))
       ELSE UNCHANGED <<shown, busy>>
  /\ UNCHANGED <<form, active>>

\* A query ends: its result or its error is shown unless it was aborted, and the
\* page is idle again if it was this query that kept it busy.
Settle(o, what) ==
  /\ ops' = [ops EXCEPT ![o].phase = "done"]
  /\ IF ops[o].by = "page"
       THEN /\ shown' = IF ops[o].aborted THEN shown ELSE what
            /\ busy' = (busy /\ active # o)
       ELSE UNCHANGED <<shown, busy>>
  /\ UNCHANGED <<form, active>>

Answer(code) == IF code = "ok" THEN "result" ELSE "error"

End(o, code) == Settle(o, [kind |-> Answer(code), op |-> o, code |-> code])

\* "Verify identity and query".  Fields that make no sense are refused at once.
run(o) ==
  /\ ~busy /\ Free(o)
  /\ active' = o
  /\ ops' = [ops EXCEPT ![o] =
               [by |-> "page", phase |-> IF queryConfig(form) THEN "genesis" ELSE "done",
                form |-> form, method |-> None, aborted |-> FALSE]]
  /\ IF queryConfig(form)
       THEN busy' = TRUE /\ shown' = Nothing
       ELSE busy' = FALSE /\ shown' = [kind |-> "error", op |-> o, code |-> "CONFIG"]
  /\ UNCHANGED form

\* The evidence script calls inspect, with the page of results that it wants.
Evidence(o, method) ==
  /\ Free(o) /\ active # o
  /\ "ok" \in {encodeArgs(method, offset, limit) : offset, limit \in {0, 1, 64, 65}}
  /\ ops' = [ops EXCEPT ![o] =
               [by |-> "evidence", phase |-> "genesis", form |-> None, method |-> method,
                aborted |-> FALSE]]
  /\ UNCHANGED <<form, active, busy, shown>>

-----------------------------------------------------------------------------
(***************************************************************************)
(* The requests of a query.                                                *)
(***************************************************************************)

\* A request fails, and the query with it.
rpc(o) ==
  /\ ops[o].phase \in Phases \ {"idle", "done"}
  /\ \E code \in rpcErrors(o) : End(o, code)

Proceed(o, phase, next) ==
  /\ ops[o].phase = phase /\ ~ops[o].aborted
  /\ ops' = [ops EXCEPT ![o].phase = next]
  /\ UNCHANGED <<form, active, busy, shown>>

\* The node's genesis block is the one the fields name.
verifyGenesis(o) ==
  \/ Proceed(o, "genesis", "code")
  \/ ops[o].phase = "genesis" /\ ~ops[o].aborted /\ End(o, "IDENTITY")

\* The node has the code committed, with the hash the fields name.
verifyCode(o) ==
  \/ Proceed(o, "code", "tip")
  \/ ops[o].phase = "code" /\ ~ops[o].aborted /\ End(o, "IDENTITY")

\* The node's tip: verifyIdentity returns.
verifyTip(o) ==
  Proceed(o, "tip", IF ops[o].by = "page" THEN "call" ELSE "discovery")

\* queryScript: the server answers the page.
queryScript(o) ==
  /\ ops[o].phase = "call" /\ ops[o].by = "page" /\ ~ops[o].aborted
  /\ \E code \in {readContent(envelope, dependencies, hex) :
                   envelope, hex \in BOOLEAN, dependencies \in {256, 257}} :
       End(o, code)

\* inspect: the server lists the methods of the script, and the one wanted must be
\* among them.  The first page of the list is the answer if it is what is wanted.
inspectMethods(o) ==
  /\ ops[o].phase = "discovery" /\ ops[o].by = "evidence"
  /\ \E code \in {decodeResult("SSRI.get_methods", content) : content \in Contents} :
       \/ code # "ok" /\ End(o, code)
       \/ code = "ok" /\ End(o, "UNSUPPORTED")
       \/ code = "ok" /\ ops[o].method = "SSRI.get_methods" /\ End(o, "ok")
       \/ code = "ok" /\ Proceed(o, "discovery", "call")

\* The result, or the error that every failure to decode it becomes.
inspect(o) ==
  /\ ops[o].phase = "call" /\ ops[o].by = "evidence"
  /\ \E code \in {decodeResult(ops[o].method, content) : content \in Contents} :
       End(o, IF code = "ok" THEN "ok" ELSE "SCHEMA")

Step(o) ==
  \/ rpc(o) \/ verifyGenesis(o) \/ verifyCode(o) \/ verifyTip(o)
  \/ queryScript(o) \/ inspectMethods(o) \/ inspect(o)

User ==
  \/ change \/ Cancel \/ Leave
  \/ \E o \in Ops : run(o)

Next ==
  \/ User
  \/ \E o \in Ops : Step(o)
  \/ \E o \in Ops, method \in METHODS : Evidence(o, method)

\* Every request has a timer.
Fairness == \A o \in Ops : WF_vars(Step(o))

Spec == Init /\ [][Next]_vars /\ Fairness

-----------------------------------------------------------------------------

\* What is shown answers the fields as they are: an answer of earlier fields, or of
\* a query that was cancelled, is never shown.
ShownAnswersTheForm ==
  shown.op # None =>
    /\ ops[shown.op].by = "page"
    /\ ops[shown.op].form = form
    /\ ops[shown.op].phase = "done"
    /\ shown.kind = "result" => queryConfig(form)

\* A busy page becomes idle without the user's help, as no request outlives its
\* timer.
BusyEnds == busy ~> ~busy
=============================================================================
