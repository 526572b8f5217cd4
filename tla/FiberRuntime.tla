---------------------------- MODULE FiberRuntime ----------------------------
(***************************************************************************)
(* The Fiber node of a browser tab.  The runtime is one object of the      *)
(* document: it starts a node on the first call that needs one, and a stop *)
(* or a reset of the identity takes it away.  A page shows the node with   *)
(* the state of its own FiberRuntimeProvider, which a visit makes anew;    *)
(* what a page began goes on after the page was left.                      *)
(*                                                                         *)
(* A node is an instance with an identity, and runs until it is stopped or *)
(* the document is loaded again.  Which method is called does not matter   *)
(* here: a call is answered by the instance that it was made on.           *)
(*                                                                         *)
(* There is one tab.  IndexedDB, which holds the identity, is shared with  *)
(* the other tabs of the profile; that one of them resets it, or makes one *)
(* at the same time, is not modelled.                                      *)
(***************************************************************************)
EXTENDS Integers

CONSTANTS
  Ops,         \* the numbers of the operations under way
  Instances,   \* the values of new Fiber(), which are numbers here
  Keys,        \* the identities, numbers as well
  None

VARIABLES
  page,        \* the route that is shown
  info,        \* the instance that the page shows, or None
  loading, busy,
  fiber,       \* this.fiber, None as long as the runtime is not started
  start,       \* where startInternal is, "none" if startPromise is null
  key,         \* the identity that it loaded
  running,     \* the identity of every instance that runs
  stored,      \* the identity in IndexedDB, or None
  ops,
  disturbed    \* history: a stop met what an earlier page began, or failed half way,
               \* or a refresh reset the flag of another

shown == <<page, info, loading, busy>>
runtime == <<fiber, start, key, running, stored>>
vars == <<shown, runtime, ops, disturbed>>

Pages == {"node", "overview"}

\* renew: the refresh that ends an action.
Kinds == {"refresh", "action", "renew", "poll", "stop", "reset"}

Starting == {"config", "identity", "store", "boot"}

\* mounted: does the page that began it still stand?
Op ==
  [kind : Kinds, phase : {"idle", "start", "call", "stop", "clear"},
   node : Instances \cup {None}, mounted : BOOLEAN]

IdleOp == [kind |-> "refresh", phase |-> "idle", node |-> None, mounted |-> FALSE]

TypeOK ==
  /\ page \in Pages /\ info \in Instances \cup {None}
  /\ {loading, busy, disturbed} \subseteq BOOLEAN
  /\ fiber \in Instances \cup {None}
  /\ start \in Starting \cup {"none"} /\ key \in Keys \cup {None}
  /\ running \in [Instances -> Keys \cup {None}] /\ stored \in Keys \cup {None}
  /\ ops \in [Ops -> Op]

Busy(o) == ops[o].phase # "idle"

\* A new operation takes the first number that is free, as a new node does.
Free(o) == ~Busy(o) /\ \A p \in Ops : p < o => Busy(p)

\* The document is loaded; the visit of its route is the first step.
Init ==
  /\ page = "node" /\ info = None /\ loading = FALSE /\ busy = FALSE
  /\ fiber = None /\ start = "none" /\ key = None
  /\ running = [i \in Instances |-> None]
  /\ stored \in Keys \cup {None}
  /\ ops = [o \in Ops |-> IdleOp]
  /\ disturbed = FALSE

-----------------------------------------------------------------------------
(***************************************************************************)
(* The runtime: start, and node, which every call begins with.             *)
(***************************************************************************)

\* node(): the node that runs, or the start under way, or a start of its own.
Call(kind, mounted) ==
  [kind |-> kind, phase |-> IF fiber # None THEN "call" ELSE "start", node |-> fiber,
   mounted |-> mounted]

node ==
  /\ start' = IF fiber = None /\ start = "none" THEN "config" ELSE start
  /\ UNCHANGED <<fiber, key, running, stored>>

\* A stop of a page that was left is still under way.
LateStop == \E o \in Ops : ~ops[o].mounted /\ ops[o].phase \in {"stop", "clear"}

Acting(o) == Busy(o) /\ ops[o].kind = "action"

\* What a page that was left began may still start a node, or take one away.
LateCall ==
  LateStop \/ \E o \in Ops : ~ops[o].mounted /\ (ops[o].phase = "start" \/ Acting(o))

\* Refreshes of the page that is shown share loading: one that ends resets it for one
\* that still waits for the node to start.
Refreshing(ending) ==
  \E o \in Ops \ ending :
    ops[o].phase = "start" /\ ops[o].mounted /\ ops[o].kind \in {"refresh", "renew"}

\* The flags that the end of an operation resets, if its page still stands.
Flags(kind, mounted) ==
  /\ loading' = (loading /\ ~(mounted /\ kind \in {"refresh", "renew"}))
  /\ busy' = (busy /\ ~(mounted /\ kind \in {"action", "renew", "stop", "reset"}))

Least(S) == CHOOSE x \in S : \A y \in S : x <= y

\* The configuration is there.
startInternal ==
  /\ start = "config"
  /\ start' = "identity"
  /\ UNCHANGED <<shown, fiber, key, running, stored, ops, disturbed>>

\* The stored identity, or a new one.
loadIdentity ==
  /\ start = "identity"
  /\ IF stored # None
       THEN key' = stored /\ start' = "boot"
       ELSE /\ start' = "store"
            /\ key' = Least({k \in Keys : \A i \in Instances : running[i] # k})
  /\ UNCHANGED <<shown, fiber, running, stored, ops, disturbed>>

putIdentity ==
  /\ start = "store"
  /\ stored' = key /\ start' = "boot"
  /\ UNCHANGED <<shown, fiber, key, running, ops, disturbed>>

\* An instance that nothing refers to any more.
Fresh == {i \in Instances : /\ running[i] = None /\ info # i
                            /\ \A o \in Ops : ops[o].node # i}

\* The node starts; all that waited for it go on.
started ==
  /\ start = "boot"
  /\ Fresh # {} /\ fiber' = Least(Fresh)
  /\ running' = [running EXCEPT ![fiber'] = key]
  /\ start' = "none" /\ key' = None
  /\ ops' = [o \in Ops |-> IF ops[o].phase = "start"
                             THEN [ops[o] EXCEPT !.phase = "call", !.node = fiber']
                             ELSE ops[o]]
  /\ UNCHANGED <<shown, stored, disturbed>>

\* The configuration, the identity or the node fails, and so do all that waited.
startFails ==
  /\ start \in Starting
  /\ start' = "none" /\ key' = None
  /\ LET waiting == {o \in Ops : ops[o].phase = "start"}
         held(kinds) == \E o \in waiting : ops[o].mounted /\ ops[o].kind \in kinds
     IN /\ ops' = [o \in Ops |-> IF o \in waiting THEN IdleOp ELSE ops[o]]
        /\ loading' = (loading /\ ~held({"refresh", "renew"}))
        /\ busy' = (busy /\ ~held({"action", "renew"}))
        /\ disturbed' = (disturbed \/ (held({"refresh", "renew"}) /\ Refreshing(waiting)))
  /\ UNCHANGED <<page, info, fiber, running, stored>>

-----------------------------------------------------------------------------
(***************************************************************************)
(* The pages.                                                              *)
(***************************************************************************)

\* A route is shown: its provider begins empty, and refreshes.
Visit(o) ==
  /\ Free(o)
  /\ page' \in Pages
  /\ info' = None /\ loading' = TRUE /\ busy' = FALSE
  /\ ops' = [p \in Ops |-> IF p = o THEN Call("refresh", TRUE)
                           ELSE [ops[p] EXCEPT !.mounted = FALSE]]
  /\ node
  /\ disturbed' = (disturbed \/ \E p \in Ops : ops[p].phase \in {"stop", "clear"})

\* The document is loaded again: only the stored identity stays.
Reload ==
  /\ page' = "node" /\ info' = None /\ loading' = FALSE /\ busy' = FALSE
  /\ fiber' = None /\ start' = "none" /\ key' = None
  /\ running' = [i \in Instances |-> None]
  /\ ops' = [o \in Ops |-> IdleOp]
  /\ disturbed' = FALSE
  /\ UNCHANGED stored

Begin(o, kind) ==
  /\ Free(o)
  /\ ops' = [ops EXCEPT ![o] = Call(kind, TRUE)]
  /\ node
  /\ disturbed' = (disturbed \/ LateStop)

\* Start / Refresh.
refresh(o) ==
  /\ page = "node" /\ ~busy /\ ~loading
  /\ Begin(o, "refresh")
  /\ loading' = TRUE
  /\ UNCHANGED <<page, info, busy>>

Action(o) ==
  /\ page = "node" /\ ~busy
  /\ Begin(o, "action")
  /\ busy' = TRUE
  /\ UNCHANGED <<page, info, loading>>

\* An address that a browser reaches, or the key of a peer.
validateBrowserPeerConnection(address, pubkey) ==
  /\ address # "" \/ pubkey # ""
  /\ address \in {"", "wss"}
  /\ pubkey \in {"", "02"}

\* An address goes alone: the key counts without one only.
connectPeer(o) ==
  /\ \E address \in {"", "tcp", "wss"}, pubkey \in {"", "01", "02"} :
       validateBrowserPeerConnection(address, IF address = "" THEN pubkey ELSE "")
  /\ Action(o)

\* The peers and channels that the page lists are those of a node that it shows.
disconnectPeer(o) == info # None /\ Action(o)
setChannelEnabled(o) == info # None /\ Action(o)
closeChannel(o) == info # None /\ Action(o)

\* The overview reads all it shows every five seconds, whatever still runs.
load(o) ==
  /\ page = "overview"
  /\ Begin(o, "poll")
  /\ UNCHANGED shown

\* The operation of a page is answered, and the provider refreshes.
ActionAnswered(o) ==
  /\ ops[o].phase = "call" /\ ops[o].kind = "action"
  /\ running[ops[o].node] # None
  /\ ops' = [ops EXCEPT ![o] = Call("renew", ops[o].mounted)]
  /\ node
  /\ loading' = (loading \/ ops[o].mounted)
  /\ UNCHANGED <<page, info, busy, disturbed>>

LoadingLost(o) ==
  disturbed' = (disturbed \/ (ops[o].mounted /\ ops[o].kind \in {"refresh", "renew"}
                                /\ Refreshing({o})))

\* What a refresh reads is shown by the provider that asked; what load reads is of
\* its own page.
Answered(o) ==
  LET op == ops[o] IN
    /\ op.phase = "call" /\ op.kind # "action"
    /\ running[op.node] # None
    /\ ops' = [ops EXCEPT ![o] = IdleOp]
    /\ info' = IF op.kind # "poll" /\ op.mounted THEN op.node ELSE info
    /\ Flags(op.kind, op.mounted)
    /\ LoadingLost(o)
    /\ UNCHANGED <<page, runtime>>

\* The call fails; it does when its node was stopped.
Fails(o) ==
  /\ ops[o].phase = "call"
  /\ ops' = [ops EXCEPT ![o] = IdleOp]
  /\ Flags(ops[o].kind, ops[o].mounted)
  /\ LoadingLost(o)
  /\ UNCHANGED <<page, info, runtime>>

-----------------------------------------------------------------------------
(***************************************************************************)
(* stop and resetIdentity.  A stop that sees no node changes nothing.      *)
(***************************************************************************)

Stopping(o, kind, phase) ==
  /\ Free(o)
  /\ ops' = [ops EXCEPT ![o] =
               [kind |-> kind, phase |-> phase, node |-> fiber, mounted |-> TRUE]]
  /\ busy' = TRUE
  /\ disturbed' = (disturbed \/ LateCall)
  /\ UNCHANGED <<page, info, loading, runtime>>

stop(o) ==
  /\ page = "node" /\ ~busy /\ ~loading /\ info # None
  /\ IF fiber # None THEN Stopping(o, "stop", "stop")
     ELSE /\ info' = None
          /\ UNCHANGED <<page, loading, busy, runtime, ops, disturbed>>

\* Mutant: an identity can be reset while the page loads.
MutantReset(o) ==
  /\ page = "node" /\ ~busy
  /\ Stopping(o, "reset", IF fiber # None THEN "stop" ELSE "clear")

reset(o) ==
  /\ page = "node" /\ ~busy /\ ~loading
  /\ Stopping(o, "reset", IF fiber # None THEN "stop" ELSE "clear")

Ended(o) ==
  /\ ops' = [ops EXCEPT ![o] = IdleOp]
  /\ Flags(ops[o].kind, ops[o].mounted)

\* The node has stopped, and this.fiber is null, whichever node it is by now.
Stopped(o) ==
  /\ ops[o].phase = "stop"
  /\ running' = [running EXCEPT ![ops[o].node] = None]
  /\ fiber' = None
  /\ IF ops[o].kind = "reset"
       THEN /\ ops' = [ops EXCEPT ![o].phase = "clear", ![o].node = None]
            /\ UNCHANGED <<info, loading, busy>>
       ELSE /\ Ended(o)
            /\ info' = IF ops[o].mounted THEN None ELSE info
  /\ UNCHANGED <<page, start, key, stored, disturbed>>

\* The identity is deleted.
clearIdentity(o) ==
  /\ ops[o].phase = "clear"
  /\ stored' = None
  /\ Ended(o)
  /\ info' = IF ops[o].mounted THEN None ELSE info
  /\ UNCHANGED <<page, fiber, start, key, running, disturbed>>

\* A stop that fails leaves the node; a reset can fail after its stop.
StopFails(o) ==
  /\ ops[o].phase \in {"stop", "clear"}
  /\ Ended(o)
  /\ disturbed' = (disturbed \/ ops[o].phase = "clear")
  /\ UNCHANGED <<page, info, runtime>>

Next ==
  \/ Reload
  \/ startInternal \/ loadIdentity \/ putIdentity \/ started \/ startFails
  \/ \E o \in Ops :
       \/ Visit(o) \/ refresh(o) \/ load(o)
       \/ connectPeer(o) \/ disconnectPeer(o) \/ setChannelEnabled(o) \/ closeChannel(o)
       \/ ActionAnswered(o) \/ Answered(o) \/ Fails(o)
       \/ stop(o) \/ reset(o) \/ Stopped(o) \/ clearIdentity(o) \/ StopFails(o)

Spec == Init /\ [][Next]_vars

-----------------------------------------------------------------------------

\* As long as no stop meets what a page began that was left, and no two refreshes share
\* the flag of the page, the tab runs one node at most, the runtime knows it, it has the
\* stored identity, and it is the node that the page shows.
OneNode ==
  ~disturbed =>
    /\ \A i \in Instances : running[i] # None => i = fiber /\ running[i] = stored
    /\ info # None => info = fiber \/ \E o \in Ops : ops[o].phase = "clear"
=============================================================================
