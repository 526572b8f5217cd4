-------------------------- MODULE BrowserNode_proofs --------------------------
(***************************************************************************)
(* The Fiber side of the portal: proofs, for any number of operations,     *)
(* nodes, tabs, profiles, channels and invoices.  Every part has an        *)
(* invariant of its own; the steps of the other parts leave its variables  *)
(* alone.                                                                  *)
(***************************************************************************)
EXTENDS BrowserNode, NaturalsInduction, WellFoundedInduction, TLAPS

\* The library's order on the naturals, as a relation the provers can hold.
LEMMA NatIsWellFounded ==
  \E R : IsWellFoundedOn(R, Nat) /\ \A x, y \in Nat : x < y => <<x, y>> \in R
<1> DEFINE R == OpToRel(<, Nat)
<1>1. IsWellFoundedOn(R, Nat)
  BY NatLessThanWellFounded
<1>2. \A x, y \in Nat : x < y => <<x, y>> \in R
  BY DEF OpToRel
<1> QED BY <1>1, <1>2, Zenon

\* A set of naturals has a least element.
LEMMA LeastNatural ==
  ASSUME NEW S, S \subseteq Nat, S # {}
  PROVE  \E n \in S : \A m \in S : n <= m
<1>1. PICK R : IsWellFoundedOn(R, Nat) /\ \A x, y \in Nat : x < y => <<x, y>> \in R
  BY NatIsWellFounded
<1>2. IsWellFoundedOn(R, Nat)
  BY <1>1
<1>3. PICK n \in S : \A m \in S : ~ (<<m, n>> \in R)
  BY <1>2, WFMin
<1>4. ASSUME NEW m \in S PROVE n <= m
  <2>1. n \in Nat /\ m \in Nat /\ ~ (<<m, n>> \in R)
    BY <1>3
  <2>2. ~ (m < n)
    BY <1>1, <2>1
  <2> QED BY <2>1, <2>2
<1> QED BY <1>4

-----------------------------------------------------------------------------
(***************************************************************************)
(* The node of a tab.                                                      *)
(***************************************************************************)

Holders == {"action", "renew", "stop", "reset"}

\* Has a page that still stands an operation that its busy flag is for?
Holds(o) == nodeOps[o].phase # "idle" /\ nodeOps[o].mounted /\ nodeOps[o].kind \in Holders

Ending(o) == nodeOps[o].phase \in {"stop", "clear"}

\* What is answered, or stopped, is an instance.  Operations of the page that is shown
\* are operations of its route.
OpOK(o) ==
  /\ nodeOps[o].phase = "idle" => nodeOps[o].kind = "refresh"
  /\ nodeOps[o].phase \in {"call", "stop"} => nodeOps[o].node # None
  /\ nodeOps[o].phase \in {"start", "call"} => nodeOps[o].kind \notin {"stop", "reset"}
  /\ Ending(o) => nodeOps[o].kind \in {"stop", "reset"}
  /\ nodeOps[o].phase = "clear" => nodeOps[o].kind = "reset"
  /\ nodeOps[o].phase # "idle" /\ nodeOps[o].mounted =>
       /\ nodeOps[o].kind = "poll" => nodePage = "overview"
       /\ nodeOps[o].kind \in Holders => nodePage = "node"

\* Who waits for a node waits for a start, and there is one while the runtime has no node.
StartOK ==
  /\ start # "none" => fiber = None
  /\ start # "none" <=> \E o \in NodeOps : nodeOps[o].phase = "start"

\* The page is busy while it has an operation that busy is for, and it has one at most.
BusyOK ==
  /\ \A o \in NodeOps : Holds(o) => nodeBusy
  /\ \A o, p \in NodeOps : Holds(o) /\ Holds(p) => o = p

\* A refresh of the page that waits for the node keeps the page loading.
LoadingOK ==
  \A o \in NodeOps :
    nodeOps[o].phase = "start" /\ nodeOps[o].mounted /\ nodeOps[o].kind \in {"refresh", "renew"}
      => loading

\* A stop or a reset is of the page that is shown and has the runtime for itself.
EndingOK ==
  \A o \in NodeOps : Ending(o) =>
    /\ nodeOps[o].mounted /\ start = "none"
    /\ nodeOps[o].phase = "stop" => nodeOps[o].node = fiber
    /\ nodeOps[o].phase = "clear" => fiber = None
    /\ \A p \in NodeOps \ {o} :
         nodeOps[p].phase # "start" /\ nodeOps[p].kind \in {"refresh", "renew", "poll"}

\* What runs is the node of the runtime, with the stored identity.
RunningOK ==
  /\ start = "boot" => key = stored
  /\ \A i \in Instances : running[i] # None => i = fiber /\ running[i] = stored
  /\ info # None => info = fiber \/ \E o \in NodeOps : nodeOps[o].phase = "clear"

RuntimeInv ==
  /\ N!TypeOK
  /\ \A o \in NodeOps : OpOK(o)
  /\ StartOK /\ BusyOK
  /\ ~disturbed => LoadingOK /\ EndingOK /\ RunningOK

LEMMA IdleIsOp ==
  /\ N!IdleOp \in N!Op /\ N!IdleOp.phase = "idle" /\ N!IdleOp.kind = "refresh"
  /\ N!IdleOp.node = None /\ N!IdleOp.mounted = FALSE
BY DEF N!IdleOp, N!Op, N!Kinds

\* What an operation that calls the runtime becomes.
LEMMA CallIsOp ==
  ASSUME N!TypeOK, NEW kind \in N!Kinds, NEW mounted \in BOOLEAN
  PROVE  LET q == N!Call(kind, mounted) IN
         /\ q \in N!Op /\ q.kind = kind /\ q.mounted = mounted /\ q.node = fiber
         /\ q.phase = IF fiber # None THEN "call" ELSE "start"
BY DEF N!TypeOK, N!Call, N!Op

LEMMA RuntimeInitInv == N!Init => RuntimeInv
<1> SUFFICES ASSUME N!Init PROVE RuntimeInv
  OBVIOUS
<1>1. \A o \in NodeOps : nodeOps[o] = N!IdleOp
  BY DEF N!Init
<1>2. N!TypeOK
  BY IdleIsOp DEF N!Init, N!TypeOK, N!Pages, N!Starting
<1>3. /\ \A o \in NodeOps : OpOK(o)
      /\ StartOK /\ BusyOK /\ LoadingOK /\ EndingOK /\ RunningOK
  BY <1>1, IdleIsOp
  DEF N!Init, OpOK, Ending, StartOK, BusyOK, Holds, LoadingOK, EndingOK, RunningOK
<1> QED BY <1>2, <1>3 DEF RuntimeInv

\* The identity is chosen and stored while no node runs.
LEMMA IdentityInv ==
  ASSUME RuntimeInv, N!startInternal \/ N!loadIdentity \/ N!putIdentity PROVE RuntimeInv'
<1>1. /\ N!TypeOK /\ start \in {"config", "identity", "store"} /\ start' # "none"
      /\ UNCHANGED <<nodePage, info, loading, nodeBusy, fiber, running, nodeOps, disturbed>>
  BY DEF RuntimeInv, N!startInternal, N!loadIdentity, N!putIdentity, N!shown
<1>2. fiber = None /\ \E o \in NodeOps : nodeOps[o].phase = "start"
  BY <1>1 DEF RuntimeInv, StartOK
<1>3. ASSUME N!loadIdentity, stored = None
      PROVE  key' \in Keys
  <2> DEFINE S == {k \in Keys : \A i \in Instances : running[i] # k}
  <2>1. S # {} /\ S \subseteq Nat
    BY <1>1, BrowserNodeAssumption DEF N!TypeOK
  <2>2. PICK k \in S : \A y \in S : k <= y
    BY <2>1, LeastNatural
  <2>3. N!Least(S) \in S
    BY <2>2 DEF N!Least
  <2> QED BY <1>3, <2>3 DEF N!loadIdentity
<1>4. N!TypeOK'
  BY <1>1, <1>3
  DEF N!TypeOK, N!startInternal, N!loadIdentity, N!putIdentity, N!Starting
<1>5. /\ \A o \in NodeOps : OpOK(o)'
      /\ StartOK' /\ BusyOK' /\ (LoadingOK => LoadingOK')
  BY <1>1, <1>2 DEF RuntimeInv, OpOK, Ending, StartOK, BusyOK, Holds, LoadingOK
<1>6. ASSUME ~disturbed PROVE EndingOK' /\ RunningOK'
  <2>1. \A o \in NodeOps : ~Ending(o)
    BY <1>1, <1>6 DEF RuntimeInv, EndingOK
  <2>2. \A i \in Instances : running[i] = None
    BY <1>2, <1>6, BrowserNodeAssumption DEF RuntimeInv, RunningOK
  <2>3. start' = "boot" => key' = stored'
    BY <1>1 DEF N!startInternal, N!loadIdentity, N!putIdentity
  <2>4. EndingOK'
    BY <1>1, <2>1 DEF EndingOK, Ending
  <2>5. RunningOK'
    BY <1>1, <1>6, <2>2, <2>3 DEF RuntimeInv, RunningOK
  <2> QED BY <2>4, <2>5
<1> QED BY <1>1, <1>4, <1>5, <1>6 DEF RuntimeInv

\* The node starts, and nothing else runs.
LEMMA StartedInv == ASSUME RuntimeInv, N!started PROVE RuntimeInv'
<1>1. /\ N!TypeOK /\ start = "boot" /\ start' = "none" /\ key' = None
      /\ UNCHANGED <<nodePage, info, loading, nodeBusy, stored, disturbed>>
      /\ running' = [running EXCEPT ![fiber'] = key]
      /\ nodeOps' = [o \in NodeOps |->
           IF nodeOps[o].phase = "start"
           THEN [nodeOps[o] EXCEPT !.phase = "call", !.node = fiber'] ELSE nodeOps[o]]
  BY DEF RuntimeInv, N!started, N!shown
<1>2. fiber' \in Instances /\ fiber' # None
  <2>1. N!Fresh # {} /\ N!Fresh \subseteq Nat /\ N!Fresh \subseteq Instances
    BY BrowserNodeAssumption DEF N!started, N!Fresh
  <2>2. PICK k \in N!Fresh : \A y \in N!Fresh : k <= y
    BY <2>1, LeastNatural
  <2>3. N!Least(N!Fresh) \in N!Fresh
    BY <2>2 DEF N!Least
  <2> QED BY <2>1, <2>3, BrowserNodeAssumption DEF N!started
<1>3. /\ nodeOps' \in [NodeOps -> N!Op]
      /\ \A o \in NodeOps :
           /\ nodeOps'[o].kind = nodeOps[o].kind /\ nodeOps'[o].mounted = nodeOps[o].mounted
           /\ nodeOps'[o].phase = IF nodeOps[o].phase = "start" THEN "call" ELSE nodeOps[o].phase
           /\ nodeOps'[o].node = IF nodeOps[o].phase = "start" THEN fiber' ELSE nodeOps[o].node
  <2>1. \A o \in NodeOps : nodeOps[o] \in N!Op
    BY <1>1 DEF N!TypeOK
  <2> QED BY <1>1, <1>2, <2>1 DEF N!Op
<1>4. N!TypeOK'
  BY <1>1, <1>2, <1>3 DEF N!TypeOK
<1>5. ASSUME NEW o \in NodeOps PROVE OpOK(o)'
  <2>1. OpOK(o)
    BY DEF RuntimeInv
  <2>2. CASE nodeOps[o].phase = "start"
    <3>1. /\ nodeOps'[o].phase = "call" /\ nodeOps'[o].node # None
          /\ nodeOps'[o].kind = nodeOps[o].kind /\ nodeOps'[o].mounted = nodeOps[o].mounted
          /\ nodePage' = nodePage
      BY <1>1, <1>2, <1>3, <2>2
    <3> QED BY <2>1, <2>2, <3>1 DEF OpOK, Ending
  <2>3. CASE nodeOps[o].phase # "start"
    BY <1>1, <1>3, <2>1, <2>3 DEF OpOK, Ending
  <2> QED BY <2>2, <2>3
<1>6. StartOK' /\ BusyOK'
  <2>1. \A o \in NodeOps : nodeOps'[o].phase # "start" /\ (Holds(o)' <=> Holds(o))
    BY <1>3 DEF Holds
  <2> QED BY <1>1, <2>1 DEF RuntimeInv, StartOK, BusyOK
<1>7. ASSUME ~disturbed PROVE LoadingOK' /\ EndingOK' /\ RunningOK'
  <2>1. \A o \in NodeOps : ~Ending(o)
    BY <1>1, <1>7 DEF RuntimeInv, EndingOK
  <2>2. fiber = None /\ \A i \in Instances : running[i] = None
    BY <1>1, <1>7, BrowserNodeAssumption DEF RuntimeInv, StartOK, RunningOK
  <2>3. info = None
    BY <1>7, <2>1, <2>2 DEF RuntimeInv, RunningOK, Ending
  <2>4. key = stored
    BY <1>1, <1>7 DEF RuntimeInv, RunningOK
  <2>5. LoadingOK' /\ EndingOK'
    BY <1>3, <2>1 DEF LoadingOK, EndingOK, Ending
  <2>6. RunningOK'
    BY <1>1, <1>2, <2>2, <2>3, <2>4 DEF RunningOK, N!TypeOK
  <2> QED BY <2>5, <2>6
<1> QED BY <1>1, <1>4, <1>5, <1>6, <1>7 DEF RuntimeInv

LEMMA StartFailsInv == ASSUME RuntimeInv, N!startFails PROVE RuntimeInv'
<1>1. /\ N!TypeOK /\ start \in N!Starting /\ start' = "none" /\ key' = None
      /\ UNCHANGED <<nodePage, info, fiber, running, stored>>
      /\ nodeOps' = [o \in NodeOps |->
           IF nodeOps[o].phase = "start" THEN N!IdleOp ELSE nodeOps[o]]
      /\ loading' \in BOOLEAN /\ nodeBusy' \in BOOLEAN /\ disturbed' \in BOOLEAN
      /\ ~disturbed' => ~disturbed
  BY DEF RuntimeInv, N!startFails
<1>2. nodeBusy' = (nodeBusy /\ ~(\E o \in NodeOps :
        /\ nodeOps[o].phase = "start" /\ nodeOps[o].mounted
        /\ nodeOps[o].kind \in {"action", "renew"}))
  BY DEF N!startFails
<1>3. \A o \in NodeOps :
        nodeOps'[o] = IF nodeOps[o].phase = "start" THEN N!IdleOp ELSE nodeOps[o]
  BY <1>1
<1>4. N!TypeOK'
  BY <1>1, IdleIsOp DEF N!TypeOK
<1>5. \A o \in NodeOps : OpOK(o)'
  BY <1>1, <1>3, IdleIsOp DEF RuntimeInv, OpOK, Ending
<1>6. StartOK'
  BY <1>1, <1>3, IdleIsOp DEF StartOK
<1>7. BusyOK'
  <2>1. \A o \in NodeOps : Holds(o)' => Holds(o) /\ nodeOps[o].phase # "start"
    BY <1>3, IdleIsOp DEF Holds
  <2>2. ASSUME NEW o \in NodeOps, Holds(o)' PROVE nodeBusy'
    BY <1>2, <2>1, <2>2 DEF RuntimeInv, BusyOK, Holds, Holders
  <2> QED BY <2>1, <2>2 DEF RuntimeInv, BusyOK
<1>8. ASSUME ~disturbed PROVE LoadingOK' /\ EndingOK' /\ RunningOK'
  <2>1. \A o \in NodeOps : ~Ending(o)
    BY <1>1, <1>8 DEF RuntimeInv, EndingOK, N!Starting
  <2>2. \A o \in NodeOps : ~Ending(o)' /\ nodeOps'[o].phase # "start"
    BY <1>3, <2>1, IdleIsOp DEF Ending
  <2>3. RunningOK'
    BY <1>1, <1>8, <2>1 DEF RuntimeInv, RunningOK, Ending
  <2> QED BY <2>2, <2>3 DEF LoadingOK, EndingOK
<1> QED BY <1>1, <1>4, <1>5, <1>6, <1>7, <1>8 DEF RuntimeInv

LEMMA ReloadInv == ASSUME RuntimeInv, N!Reload PROVE RuntimeInv'
<1>1. \A o \in NodeOps : nodeOps'[o] = N!IdleOp
  BY DEF N!Reload
<1>2. N!TypeOK'
  BY IdleIsOp DEF N!Reload, RuntimeInv, N!TypeOK, N!Pages
<1> QED
  BY <1>1, <1>2, IdleIsOp
  DEF N!Reload, RuntimeInv, OpOK, Ending, StartOK, BusyOK, Holds, LoadingOK, EndingOK, RunningOK

LEMMA VisitInv == ASSUME RuntimeInv, NEW o \in NodeOps, N!Visit(o) PROVE RuntimeInv'
<1> DEFINE q == N!Call("refresh", TRUE)
<1>1. /\ N!TypeOK /\ nodePage' \in N!Pages /\ info' = None /\ loading' = TRUE
      /\ nodeBusy' = FALSE /\ nodeOps[o].phase = "idle"
      /\ nodeOps' = [p \in NodeOps |-> IF p = o THEN q ELSE [nodeOps[p] EXCEPT !.mounted = FALSE]]
      /\ start' = (IF fiber = None /\ start = "none" THEN "config" ELSE start)
      /\ UNCHANGED <<fiber, key, running, stored>>
      /\ disturbed' = (disturbed \/ \E p \in NodeOps : nodeOps[p].phase \in {"stop", "clear"})
  BY DEF RuntimeInv, N!Visit, N!Free, N!Busy, N!node
<1>2. /\ q \in N!Op /\ q.kind = "refresh" /\ q.mounted = TRUE /\ q.node = fiber
      /\ q.phase = IF fiber # None THEN "call" ELSE "start"
  BY <1>1, CallIsOp DEF N!Kinds
<1> HIDE DEF q
<1>3. /\ nodeOps' \in [NodeOps -> N!Op] /\ nodeOps'[o] = q
      /\ \A p \in NodeOps \ {o} :
           /\ nodeOps'[p].kind = nodeOps[p].kind /\ nodeOps'[p].mounted = FALSE
           /\ nodeOps'[p].phase = nodeOps[p].phase /\ nodeOps'[p].node = nodeOps[p].node
  <2>1. \A p \in NodeOps : nodeOps[p] \in N!Op
    BY <1>1 DEF N!TypeOK
  <2> QED BY <1>1, <1>2, <2>1 DEF N!Op
<1>4. N!TypeOK'
  BY <1>1, <1>3 DEF N!TypeOK, N!Starting
<1>5. ASSUME NEW p \in NodeOps PROVE OpOK(p)'
  BY <1>1, <1>2, <1>3 DEF RuntimeInv, OpOK, Ending, Holders
<1>6. StartOK'
  BY <1>1, <1>2, <1>3 DEF RuntimeInv, StartOK
<1>7. BusyOK' /\ LoadingOK'
  BY <1>1, <1>2, <1>3 DEF BusyOK, Holds, Holders, LoadingOK
<1>8. ASSUME ~disturbed' PROVE EndingOK' /\ RunningOK'
  <2>1. \A p \in NodeOps : ~Ending(p)'
    BY <1>1, <1>2, <1>3, <1>8 DEF Ending
  <2>2. EndingOK'
    BY <2>1 DEF EndingOK
  <2>3. RunningOK'
    BY <1>1, <1>8 DEF RuntimeInv, RunningOK
  <2> QED BY <2>2, <2>3
<1> QED BY <1>4, <1>5, <1>6, <1>7, <1>8 DEF RuntimeInv

\* An operation of the page that is shown begins.
LEMMA BeginInv ==
  ASSUME RuntimeInv, NEW o \in NodeOps, NEW kind \in {"refresh", "action", "poll"},
         N!Begin(o, kind), nodePage' = nodePage, info' = info,
         loading' = (loading \/ kind = "refresh"), nodeBusy' = (nodeBusy \/ kind = "action"),
         kind \in {"refresh", "action"} => ~nodeBusy,
         nodePage = IF kind = "poll" THEN "overview" ELSE "node"
  PROVE  RuntimeInv'
<1> DEFINE q == N!Call(kind, TRUE)
<1>1. /\ N!TypeOK /\ nodeOps[o].phase = "idle"
      /\ nodeOps' = [nodeOps EXCEPT ![o] = q]
      /\ start' = (IF fiber = None /\ start = "none" THEN "config" ELSE start)
      /\ UNCHANGED <<nodePage, info, fiber, key, running, stored>>
      /\ disturbed' = (disturbed \/ N!LateStop)
  BY DEF RuntimeInv, N!Begin, N!Free, N!Busy, N!node
<1>2. /\ q \in N!Op /\ q.kind = kind /\ q.mounted = TRUE /\ q.node = fiber
      /\ q.phase = IF fiber # None THEN "call" ELSE "start"
  BY <1>1, CallIsOp, ZenonT(60) DEF N!Kinds
<1> HIDE DEF q
<1>3. /\ nodeOps' \in [NodeOps -> N!Op] /\ nodeOps'[o] = q
      /\ \A p \in NodeOps \ {o} : nodeOps'[p] = nodeOps[p]
  BY <1>1, <1>2 DEF N!TypeOK
<1>4. N!TypeOK'
  BY <1>1, <1>3 DEF N!TypeOK, N!Starting
<1>5. ASSUME NEW p \in NodeOps PROVE OpOK(p)'
  BY <1>1, <1>2, <1>3 DEF RuntimeInv, OpOK, Ending, Holders
<1>6. StartOK'
  BY <1>1, <1>2, <1>3 DEF RuntimeInv, StartOK
<1>7. BusyOK'
  <2>1. \A p \in NodeOps \ {o} : Holds(p)' <=> Holds(p)
    BY <1>3 DEF Holds
  <2>2. Holds(o)' => kind = "action"
    BY <1>2, <1>3 DEF Holds, Holders
  <2> QED BY <2>1, <2>2 DEF RuntimeInv, BusyOK
<1>8. ASSUME ~disturbed' PROVE LoadingOK' /\ EndingOK' /\ RunningOK'
  <2>1. ~disturbed /\ ~N!LateStop
    BY <1>1, <1>8
  <2>2. \A p \in NodeOps : ~Ending(p)
    <3> SUFFICES ASSUME NEW p \in NodeOps, Ending(p) PROVE FALSE
      OBVIOUS
    <3>1. nodeOps[p].mounted
      BY <2>1 DEF RuntimeInv, EndingOK
    <3>2. Holds(p) /\ nodePage = "node"
      BY <3>1 DEF RuntimeInv, OpOK, Ending, Holds, Holders
    <3>3. nodeBusy
      BY <3>2 DEF RuntimeInv, BusyOK
    <3> QED BY <3>2, <3>3
  <2>3. \A p \in NodeOps : ~Ending(p)'
    BY <1>2, <1>3, <2>2 DEF Ending
  <2>4. LoadingOK'
    BY <1>2, <1>3, <2>1 DEF RuntimeInv, LoadingOK
  <2>5. RunningOK'
    <3>1. \A p \in NodeOps : nodeOps[p].phase # "clear"
      BY <2>2 DEF Ending
    <3> QED BY <1>1, <2>1, <3>1 DEF RuntimeInv, RunningOK
  <2> QED BY <2>3, <2>4, <2>5 DEF EndingOK
<1> QED BY <1>4, <1>5, <1>6, <1>7, <1>8 DEF RuntimeInv

LEMMA ButtonsInv ==
  ASSUME RuntimeInv, NEW o \in NodeOps, N!refresh(o) \/ N!Action(o) \/ N!load(o)
  PROVE  RuntimeInv'
<1>0. loading \in BOOLEAN /\ nodeBusy \in BOOLEAN
  BY DEF RuntimeInv, N!TypeOK
<1>1. CASE N!refresh(o)
  <2> PICK kind \in {"refresh", "action", "poll"} : kind = "refresh"
    OBVIOUS
  <2>1. /\ N!Begin(o, kind) /\ nodePage' = nodePage /\ info' = info
        /\ loading' = (loading \/ kind = "refresh") /\ nodeBusy' = (nodeBusy \/ kind = "action")
        /\ kind \in {"refresh", "action"} => ~nodeBusy
        /\ nodePage = IF kind = "poll" THEN "overview" ELSE "node"
    BY <1>0, <1>1 DEF N!refresh
  <2> QED BY <2>1, BeginInv
<1>2. CASE N!Action(o)
  <2> PICK kind \in {"refresh", "action", "poll"} : kind = "action"
    OBVIOUS
  <2>1. /\ N!Begin(o, kind) /\ nodePage' = nodePage /\ info' = info
        /\ loading' = (loading \/ kind = "refresh") /\ nodeBusy' = (nodeBusy \/ kind = "action")
        /\ kind \in {"refresh", "action"} => ~nodeBusy
        /\ nodePage = IF kind = "poll" THEN "overview" ELSE "node"
    BY <1>0, <1>2 DEF N!Action
  <2> QED BY <2>1, BeginInv
<1>3. CASE N!load(o)
  <2> PICK kind \in {"refresh", "action", "poll"} : kind = "poll"
    OBVIOUS
  <2>1. /\ N!Begin(o, kind) /\ nodePage' = nodePage /\ info' = info
        /\ loading' = (loading \/ kind = "refresh") /\ nodeBusy' = (nodeBusy \/ kind = "action")
        /\ kind \in {"refresh", "action"} => ~nodeBusy
        /\ nodePage = IF kind = "poll" THEN "overview" ELSE "node"
    BY <1>0, <1>3 DEF N!load, N!shown
  <2> QED BY <2>1, BeginInv
<1> QED BY <1>1, <1>2, <1>3

LEMMA ActionAnsweredInv ==
  ASSUME RuntimeInv, NEW o \in NodeOps, N!ActionAnswered(o) PROVE RuntimeInv'
<1> DEFINE m == nodeOps[o].mounted
           q == N!Call("renew", m)
<1>1. /\ N!TypeOK /\ nodeOps[o].phase = "call" /\ nodeOps[o].kind = "action"
      /\ m \in BOOLEAN
      /\ nodeOps' = [nodeOps EXCEPT ![o] = q]
      /\ start' = (IF fiber = None /\ start = "none" THEN "config" ELSE start)
      /\ loading' = (loading \/ m)
      /\ UNCHANGED <<nodePage, info, nodeBusy, fiber, key, running, stored, disturbed>>
  BY DEF RuntimeInv, N!TypeOK, N!Op, N!ActionAnswered, N!node
<1>2. /\ q \in N!Op /\ q.kind = "renew" /\ q.mounted = m /\ q.node = fiber
      /\ q.phase = IF fiber # None THEN "call" ELSE "start"
  BY <1>1, CallIsOp DEF N!Kinds
<1> HIDE DEF q
<1>3. /\ nodeOps' \in [NodeOps -> N!Op] /\ nodeOps'[o] = q
      /\ \A p \in NodeOps \ {o} : nodeOps'[p] = nodeOps[p]
  BY <1>1, <1>2 DEF N!TypeOK
<1>4. N!TypeOK'
  BY <1>1, <1>3 DEF N!TypeOK, N!Starting
<1>5. ASSUME NEW p \in NodeOps PROVE OpOK(p)'
  BY <1>1, <1>2, <1>3 DEF RuntimeInv, OpOK, Ending, Holders
<1>6. StartOK'
  BY <1>1, <1>2, <1>3 DEF RuntimeInv, StartOK
<1>7. BusyOK'
  <2>1. \A p \in NodeOps : Holds(p)' <=> Holds(p)
    BY <1>1, <1>2, <1>3 DEF Holds, Holders
  <2> QED BY <1>1, <2>1 DEF RuntimeInv, BusyOK
<1>8. ASSUME ~disturbed PROVE LoadingOK' /\ EndingOK' /\ RunningOK'
  <2>1. \A p \in NodeOps : ~Ending(p)
    BY <1>1, <1>8 DEF RuntimeInv, EndingOK, Ending
  <2>2. \A p \in NodeOps : ~Ending(p)'
    BY <1>2, <1>3, <2>1 DEF Ending
  <2>3. LoadingOK'
    BY <1>1, <1>2, <1>3, <1>8 DEF RuntimeInv, LoadingOK
  <2>4. RunningOK'
    <3>1. \A p \in NodeOps : nodeOps[p].phase # "clear"
      BY <2>1 DEF Ending
    <3> QED BY <1>1, <1>8, <3>1 DEF RuntimeInv, RunningOK
  <2> QED BY <2>2, <2>3, <2>4 DEF EndingOK
<1> QED BY <1>1, <1>4, <1>5, <1>6, <1>7, <1>8 DEF RuntimeInv

\* An operation ends; the flags are reset if its page still stands.
LEMMA EndsFacts ==
  ASSUME RuntimeInv, NEW o \in NodeOps, nodeOps[o].phase # "idle",
         nodeOps' = [nodeOps EXCEPT ![o] = N!IdleOp],
         N!Flags(nodeOps[o].kind, nodeOps[o].mounted)
  PROVE  /\ nodeOps' \in [NodeOps -> N!Op] /\ nodeOps'[o] = N!IdleOp
         /\ \A p \in NodeOps \ {o} : nodeOps'[p] = nodeOps[p]
         /\ loading' \in BOOLEAN /\ nodeBusy' \in BOOLEAN
         /\ nodePage' = nodePage => \A p \in NodeOps : OpOK(p)'
         /\ BusyOK'
         /\ ~disturbed /\ (nodeOps[o].mounted /\ nodeOps[o].kind \in {"refresh", "renew"}
                             => ~N!Refreshing({o}))
              => LoadingOK'
<1>1. N!TypeOK
  BY DEF RuntimeInv
<1>2. /\ nodeOps' \in [NodeOps -> N!Op] /\ nodeOps'[o] = N!IdleOp
      /\ \A p \in NodeOps \ {o} : nodeOps'[p] = nodeOps[p]
  BY <1>1, IdleIsOp DEF N!TypeOK
<1>3. loading' \in BOOLEAN /\ nodeBusy' \in BOOLEAN
  BY DEF N!Flags
<1>4. ASSUME nodePage' = nodePage, NEW p \in NodeOps PROVE OpOK(p)'
  BY <1>2, <1>4, IdleIsOp DEF RuntimeInv, OpOK, Ending
<1>5. BusyOK'
  <2>1. \A p \in NodeOps : Holds(p)' => Holds(p) /\ p # o
    BY <1>2, IdleIsOp DEF Holds
  <2>2. ASSUME NEW p \in NodeOps, Holds(p)' PROVE nodeBusy'
    <3>1. ~Holds(o) /\ nodeBusy
      BY <2>1, <2>2 DEF RuntimeInv, BusyOK
    <3> QED BY <3>1 DEF N!Flags, Holds, Holders
  <2> QED BY <2>1, <2>2 DEF RuntimeInv, BusyOK
<1>6. ASSUME ~disturbed,
             nodeOps[o].mounted /\ nodeOps[o].kind \in {"refresh", "renew"} => ~N!Refreshing({o})
      PROVE  LoadingOK'
  BY <1>2, <1>6, IdleIsOp DEF RuntimeInv, LoadingOK, N!Flags, N!Refreshing
<1> QED BY <1>2, <1>3, <1>4, <1>5, <1>6

LEMMA AnsweredInv ==
  ASSUME RuntimeInv, NEW o \in NodeOps, N!Answered(o) \/ N!Fails(o) PROVE RuntimeInv'
<1>1. /\ N!TypeOK /\ nodeOps[o].phase = "call"
      /\ nodeOps' = [nodeOps EXCEPT ![o] = N!IdleOp]
      /\ N!Flags(nodeOps[o].kind, nodeOps[o].mounted)
      /\ N!LoadingLost(o)
      /\ UNCHANGED <<nodePage, fiber, start, key, running, stored>>
  BY DEF RuntimeInv, N!Answered, N!Fails, N!runtime
<1>2. /\ nodeOps' \in [NodeOps -> N!Op] /\ nodeOps'[o] = N!IdleOp
      /\ \A p \in NodeOps \ {o} : nodeOps'[p] = nodeOps[p]
      /\ loading' \in BOOLEAN /\ nodeBusy' \in BOOLEAN
      /\ \A p \in NodeOps : OpOK(p)'
      /\ BusyOK'
      /\ ~disturbed /\ (nodeOps[o].mounted /\ nodeOps[o].kind \in {"refresh", "renew"}
                          => ~N!Refreshing({o}))
           => LoadingOK'
  BY <1>1, EndsFacts
<1>3. info' = info \/ (info' = nodeOps[o].node /\ running[nodeOps[o].node] # None)
  BY DEF N!Answered, N!Fails
<1>4. nodeOps[o] \in N!Op /\ nodeOps[o].node \in Instances
  BY <1>1 DEF RuntimeInv, OpOK, N!TypeOK, N!Op
<1>5. disturbed' \in BOOLEAN /\ (~disturbed' => ~disturbed /\
        (nodeOps[o].mounted /\ nodeOps[o].kind \in {"refresh", "renew"} => ~N!Refreshing({o})))
  BY <1>1 DEF N!LoadingLost
<1>6. N!TypeOK'
  BY <1>1, <1>2, <1>3, <1>4, <1>5 DEF N!TypeOK
<1>7. StartOK'
  BY <1>1, <1>2, IdleIsOp DEF RuntimeInv, StartOK
<1>8. ASSUME ~disturbed' PROVE LoadingOK' /\ EndingOK' /\ RunningOK'
  <2>1. LoadingOK'
    BY <1>2, <1>5, <1>8
  <2>2. \A p \in NodeOps : Ending(p)' <=> Ending(p)
    BY <1>1, <1>2, IdleIsOp DEF Ending
  <2>3. EndingOK'
    <3> SUFFICES ASSUME NEW p \in NodeOps, Ending(p), p # o
                 PROVE  /\ nodeOps'[p].mounted /\ start' = "none"
                        /\ nodeOps'[p].phase = "stop" => nodeOps'[p].node = fiber'
                        /\ nodeOps'[p].phase = "clear" => fiber' = None
                        /\ \A r \in NodeOps \ {p} :
                             /\ nodeOps'[r].phase # "start"
                             /\ nodeOps'[r].kind \in {"refresh", "renew", "poll"}
      BY <1>1, <2>2 DEF EndingOK, Ending
    <3> QED BY <1>1, <1>2, <1>5, <1>8, IdleIsOp DEF RuntimeInv, EndingOK
  <2>4. ASSUME NEW p \in NodeOps, nodeOps[p].phase = "clear" PROVE nodeOps'[p].phase = "clear"
    BY <1>1, <1>2, <2>4
  <2>5. RunningOK'
    BY <1>1, <1>3, <1>4, <1>5, <1>8, <2>4 DEF RuntimeInv, RunningOK
  <2> QED BY <2>1, <2>3, <2>5
<1> QED BY <1>2, <1>6, <1>7, <1>8 DEF RuntimeInv

\* A stop or a reset begins: the page waits for nothing else, and if nothing of an earlier
\* page is under way, nobody waits for a node.
LEMMA StoppingInv ==
  ASSUME RuntimeInv, NEW o \in NodeOps, NEW kind \in {"stop", "reset"},
         NEW phase \in {"stop", "clear"},
         phase = "stop" <=> fiber # None, phase = "clear" => kind = "reset",
         N!Stopping(o, kind, phase), nodePage = "node", ~nodeBusy, ~loading
  PROVE  RuntimeInv'
<1> DEFINE q == [kind |-> kind, phase |-> phase, node |-> fiber, mounted |-> TRUE]
<1>1. /\ N!TypeOK /\ nodeOps[o].phase = "idle"
      /\ nodeOps' = [nodeOps EXCEPT ![o] = q]
      /\ nodeBusy' = TRUE
      /\ disturbed' = (disturbed \/ N!LateCall)
      /\ UNCHANGED <<nodePage, info, loading, fiber, start, key, running, stored>>
  BY DEF RuntimeInv, N!Stopping, N!Free, N!Busy, N!runtime
<1>2. /\ q \in N!Op /\ q.kind = kind /\ q.phase = phase /\ q.node = fiber /\ q.mounted = TRUE
  BY <1>1 DEF N!TypeOK, N!Op, N!Kinds
<1> HIDE DEF q
<1>3. /\ nodeOps' \in [NodeOps -> N!Op] /\ nodeOps'[o] = q
      /\ \A p \in NodeOps \ {o} : nodeOps'[p] = nodeOps[p]
  BY <1>1, <1>2 DEF N!TypeOK
<1>4. N!TypeOK'
  BY <1>1, <1>3 DEF N!TypeOK
<1>5. ASSUME NEW p \in NodeOps PROVE OpOK(p)'
  BY <1>1, <1>2, <1>3 DEF RuntimeInv, OpOK, Ending, Holders
<1>6. StartOK'
  BY <1>1, <1>2, <1>3 DEF RuntimeInv, StartOK
<1>7. \A p \in NodeOps : ~Holds(p)
  BY DEF RuntimeInv, BusyOK
<1>8. BusyOK'
  BY <1>1, <1>3, <1>7 DEF BusyOK, Holds
<1>9. ASSUME ~disturbed' PROVE LoadingOK' /\ EndingOK' /\ RunningOK'
  <2>1. ~disturbed /\ ~N!LateCall
    BY <1>1, <1>9
  <2>2. ASSUME NEW p \in NodeOps
        PROVE  nodeOps[p].phase # "start" /\ nodeOps[p].kind \in {"refresh", "renew", "poll"}
    <3>1. nodeOps[p] \in N!Op /\ nodeOps[p].phase \in {"idle", "start", "call", "stop", "clear"}
      BY <1>1 DEF N!TypeOK, N!Op
    <3>2. CASE nodeOps[p].phase = "idle"
      BY <3>2 DEF RuntimeInv, OpOK
    <3>3. CASE nodeOps[p].phase # "idle" /\ ~nodeOps[p].mounted
      BY <2>1, <3>1, <3>3 DEF N!LateCall, N!LateStop, N!Acting, N!Busy, N!Op, N!Kinds,
         RuntimeInv, OpOK, Ending
    <3>4. CASE nodeOps[p].phase # "idle" /\ nodeOps[p].mounted
      <4>1. nodeOps[p].kind \in {"refresh", "poll"}
        BY <1>7, <3>1, <3>4 DEF Holds, Holders, N!Op, N!Kinds
      <4>2. nodeOps[p].kind # "poll"
        BY <3>4 DEF RuntimeInv, OpOK
      <4>3. nodeOps[p].phase # "start"
        BY <2>1, <3>4, <4>1, <4>2 DEF RuntimeInv, LoadingOK
      <4> QED BY <4>1, <4>3
    <3> QED BY <3>2, <3>3, <3>4
  <2>3. LoadingOK'
    BY <1>2, <1>3, <2>2 DEF LoadingOK
  <2>4. start = "none"
    BY <2>2 DEF RuntimeInv, StartOK
  <2>5. \A p \in NodeOps : ~Ending(p)
    BY <2>2 DEF RuntimeInv, OpOK
  <2>6. EndingOK'
    BY <1>1, <1>2, <1>3, <2>2, <2>4, <2>5 DEF EndingOK, Ending
  <2>7. RunningOK'
    BY <1>1, <2>1, <2>5 DEF RuntimeInv, RunningOK, Ending
  <2> QED BY <2>3, <2>6, <2>7
<1> QED BY <1>4, <1>5, <1>6, <1>8, <1>9 DEF RuntimeInv

LEMMA StopsInv == ASSUME RuntimeInv, NEW o \in NodeOps, N!stop(o) \/ N!reset(o) PROVE RuntimeInv'
<1>1. CASE N!stop(o) /\ fiber # None
  <2>1. N!Stopping(o, "stop", "stop") /\ nodePage = "node" /\ ~nodeBusy /\ ~loading
    BY <1>1 DEF N!stop
  <2> QED BY <1>1, <2>1, StoppingInv
<1>2. CASE N!stop(o) /\ fiber = None
  <2>1. /\ info' = None
        /\ UNCHANGED <<nodePage, loading, nodeBusy, fiber, start, key, running, stored, nodeOps,
                       disturbed>>
    BY <1>2 DEF N!stop, N!runtime
  <2> QED
    BY <2>1 DEF RuntimeInv, N!TypeOK, OpOK, Ending, StartOK, BusyOK, Holds, LoadingOK, EndingOK,
       RunningOK
<1>3. CASE N!reset(o)
  <2>1. /\ nodePage = "node" /\ ~nodeBusy /\ ~loading
        /\ N!Stopping(o, "reset", IF fiber # None THEN "stop" ELSE "clear")
    BY <1>3 DEF N!reset
  <2>2. CASE fiber # None
    BY <2>1, <2>2, StoppingInv
  <2>3. CASE fiber = None
    BY <2>1, <2>3, StoppingInv
  <2> QED BY <2>2, <2>3
<1> QED BY <1>1, <1>2, <1>3

\* The node has stopped.
LEMMA StoppedInv == ASSUME RuntimeInv, NEW o \in NodeOps, N!Stopped(o) PROVE RuntimeInv'
<1> DEFINE q == IF nodeOps[o].kind = "reset"
                THEN [nodeOps[o] EXCEPT !.phase = "clear", !.node = None] ELSE N!IdleOp
<1>1. /\ N!TypeOK /\ nodeOps[o].phase = "stop"
      /\ running' = [running EXCEPT ![nodeOps[o].node] = None] /\ fiber' = None
      /\ UNCHANGED <<nodePage, start, key, stored, disturbed>>
  BY DEF RuntimeInv, N!Stopped
<1>2. /\ nodeOps[o] \in N!Op /\ nodeOps[o].node \in Instances
      /\ nodeOps[o].kind \in {"stop", "reset"}
  BY <1>1 DEF RuntimeInv, OpOK, Ending, N!TypeOK, N!Op
<1>3. /\ nodeOps' = [nodeOps EXCEPT ![o] = q]
      /\ nodeOps[o].kind = "reset" => UNCHANGED <<info, loading, nodeBusy>>
      /\ nodeOps[o].kind # "reset" =>
           /\ N!Flags(nodeOps[o].kind, nodeOps[o].mounted)
           /\ info' = IF nodeOps[o].mounted THEN None ELSE info
  BY <1>1 DEF N!Stopped, N!Ended, N!TypeOK
<1>4. /\ q \in N!Op /\ q.phase \in {"clear", "idle"} /\ q.node = None
      /\ q.phase = "clear" <=> nodeOps[o].kind = "reset"
      /\ q.phase = "clear" => q.kind = "reset" /\ q.mounted = nodeOps[o].mounted
      /\ q.phase = "idle" => q.kind = "refresh"
  BY <1>2, IdleIsOp DEF N!Op
<1> HIDE DEF q
<1>5. /\ nodeOps' \in [NodeOps -> N!Op] /\ nodeOps'[o] = q
      /\ \A p \in NodeOps \ {o} : nodeOps'[p] = nodeOps[p]
  BY <1>1, <1>3, <1>4 DEF N!TypeOK
<1>6. loading' \in BOOLEAN /\ nodeBusy' \in BOOLEAN /\ loading' = loading
  BY <1>1, <1>2, <1>3 DEF N!Flags, N!TypeOK
<1>7. running' \in [Instances -> Keys \cup {None}]
  BY <1>1, <1>2 DEF N!TypeOK
<1>8. N!TypeOK'
  BY <1>1, <1>3, <1>5, <1>6, <1>7 DEF N!TypeOK
<1>9. ASSUME NEW p \in NodeOps PROVE OpOK(p)'
  <2>1. OpOK(p) /\ OpOK(o)
    BY DEF RuntimeInv
  <2>2. CASE p = o
    BY <1>1, <1>2, <1>4, <1>5, <2>1, <2>2 DEF OpOK, Ending, Holders
  <2>3. CASE p # o
    BY <1>1, <1>5, <2>1, <2>3 DEF OpOK, Ending
  <2> QED BY <2>2, <2>3
<1>10. StartOK'
  BY <1>1, <1>4, <1>5 DEF RuntimeInv, StartOK
<1>11. BusyOK'
  <2>1. \A p \in NodeOps : Holds(p)' => Holds(p)
    BY <1>1, <1>2, <1>4, <1>5 DEF Holds, Holders
  <2>2. ASSUME NEW p \in NodeOps, Holds(p)' PROVE nodeBusy'
    <3>1. Holds(p) /\ nodeBusy /\ (Holds(o) => o = p)
      BY <2>1, <2>2 DEF RuntimeInv, BusyOK
    <3>2. nodeOps[o].kind = "reset" \/ ~Holds(o)
      BY <1>4, <1>5, <2>2, <3>1 DEF Holds
    <3> QED BY <1>1, <1>2, <1>3, <3>1, <3>2 DEF N!Flags, Holds, Holders
  <2> QED BY <2>1, <2>2 DEF RuntimeInv, BusyOK
<1>12. ASSUME ~disturbed PROVE LoadingOK' /\ EndingOK' /\ RunningOK'
  <2>1. /\ nodeOps[o].mounted /\ start = "none" /\ nodeOps[o].node = fiber
        /\ \A p \in NodeOps \ {o} :
             nodeOps[p].phase # "start" /\ nodeOps[p].kind \in {"refresh", "renew", "poll"}
    BY <1>1, <1>12 DEF RuntimeInv, EndingOK, Ending
  <2>2. LoadingOK'
    BY <1>4, <1>5, <2>1 DEF LoadingOK
  <2>3. \A p \in NodeOps \ {o} : ~Ending(p)
    BY <2>1 DEF RuntimeInv, OpOK
  <2>4. EndingOK'
    <3>1. \A p \in NodeOps : Ending(p)' => p = o
      BY <1>5, <2>3 DEF Ending
    <3>2. Ending(o)' => nodeOps'[o].mounted /\ nodeOps'[o].phase = "clear"
      BY <1>4, <1>5, <2>1 DEF Ending
    <3>3. \A p \in NodeOps \ {o} :
            nodeOps'[p].phase # "start" /\ nodeOps'[p].kind \in {"refresh", "renew", "poll"}
      BY <1>5, <2>1
    <3> QED BY <1>1, <2>1, <3>1, <3>2, <3>3 DEF EndingOK
  <2>5. \A i \in Instances : running'[i] = None
    BY <1>1, <1>2, <1>12, <2>1 DEF RuntimeInv, RunningOK, N!TypeOK
  <2>6. info' # None => nodeOps'[o].phase = "clear"
    BY <1>2, <1>3, <1>4, <1>5, <2>1
  <2>7. RunningOK'
    BY <1>1, <2>1, <2>5, <2>6 DEF RunningOK
  <2> QED BY <2>2, <2>4, <2>7
<1> QED BY <1>1, <1>8, <1>9, <1>10, <1>11, <1>12 DEF RuntimeInv

\* The identity is deleted: of what ran nothing is left.
LEMMA ClearedInv == ASSUME RuntimeInv, NEW o \in NodeOps, N!clearIdentity(o) PROVE RuntimeInv'
<1>1. /\ N!TypeOK /\ nodeOps[o].phase = "clear" /\ stored' = None
      /\ nodeOps' = [nodeOps EXCEPT ![o] = N!IdleOp]
      /\ N!Flags(nodeOps[o].kind, nodeOps[o].mounted)
      /\ info' = IF nodeOps[o].mounted THEN None ELSE info
      /\ UNCHANGED <<nodePage, fiber, start, key, running, disturbed>>
  BY DEF RuntimeInv, N!clearIdentity, N!Ended
<1>2. /\ nodeOps' \in [NodeOps -> N!Op] /\ nodeOps'[o] = N!IdleOp
      /\ \A p \in NodeOps \ {o} : nodeOps'[p] = nodeOps[p]
      /\ loading' \in BOOLEAN /\ nodeBusy' \in BOOLEAN
      /\ \A p \in NodeOps : OpOK(p)'
      /\ BusyOK'
      /\ ~disturbed /\ (nodeOps[o].mounted /\ nodeOps[o].kind \in {"refresh", "renew"}
                          => ~N!Refreshing({o}))
           => LoadingOK'
  BY <1>1, EndsFacts
<1>3. N!TypeOK'
  BY <1>1, <1>2 DEF N!TypeOK
<1>4. StartOK'
  BY <1>1, <1>2, IdleIsOp DEF RuntimeInv, StartOK
<1>5. ASSUME ~disturbed PROVE LoadingOK' /\ EndingOK' /\ RunningOK'
  <2>1. /\ nodeOps[o].mounted /\ start = "none" /\ fiber = None
        /\ \A p \in NodeOps \ {o} :
             nodeOps[p].phase # "start" /\ nodeOps[p].kind \in {"refresh", "renew", "poll"}
    BY <1>1, <1>5 DEF RuntimeInv, EndingOK, Ending
  <2>2. LoadingOK'
    BY <1>2, <2>1, IdleIsOp DEF LoadingOK
  <2>3. \A p \in NodeOps : ~Ending(p)'
    BY <1>2, <2>1, IdleIsOp DEF RuntimeInv, OpOK, Ending
  <2>4. \A i \in Instances : running[i] = None
    BY <1>5, <2>1, BrowserNodeAssumption DEF RuntimeInv, RunningOK
  <2>5. RunningOK'
    BY <1>1, <2>1, <2>4 DEF RunningOK
  <2> QED BY <2>2, <2>3, <2>5 DEF EndingOK
<1> QED BY <1>1, <1>2, <1>3, <1>4, <1>5 DEF RuntimeInv

\* A stop that fails leaves the node; a reset that fails after its stop leaves an identity
\* that is shown as if it ran.
LEMMA StopFailsInv == ASSUME RuntimeInv, NEW o \in NodeOps, N!StopFails(o) PROVE RuntimeInv'
<1>1. /\ N!TypeOK /\ nodeOps[o].phase \in {"stop", "clear"}
      /\ nodeOps' = [nodeOps EXCEPT ![o] = N!IdleOp]
      /\ N!Flags(nodeOps[o].kind, nodeOps[o].mounted)
      /\ disturbed' = (disturbed \/ nodeOps[o].phase = "clear")
      /\ UNCHANGED <<nodePage, info, fiber, start, key, running, stored>>
  BY DEF RuntimeInv, N!StopFails, N!Ended, N!runtime
<1>2. /\ nodeOps' \in [NodeOps -> N!Op] /\ nodeOps'[o] = N!IdleOp
      /\ \A p \in NodeOps \ {o} : nodeOps'[p] = nodeOps[p]
      /\ loading' \in BOOLEAN /\ nodeBusy' \in BOOLEAN
      /\ \A p \in NodeOps : OpOK(p)'
      /\ BusyOK'
      /\ ~disturbed /\ (nodeOps[o].mounted /\ nodeOps[o].kind \in {"refresh", "renew"}
                          => ~N!Refreshing({o}))
           => LoadingOK'
  BY <1>1, EndsFacts
<1>3. N!TypeOK'
  BY <1>1, <1>2 DEF N!TypeOK
<1>4. StartOK'
  BY <1>1, <1>2, IdleIsOp DEF RuntimeInv, StartOK
<1>5. ASSUME ~disturbed' PROVE LoadingOK' /\ EndingOK' /\ RunningOK'
  <2>1. ~disturbed /\ nodeOps[o].phase = "stop"
    BY <1>1, <1>5
  <2>2. \A p \in NodeOps \ {o} :
          nodeOps[p].phase # "start" /\ nodeOps[p].kind \in {"refresh", "renew", "poll"}
    BY <2>1 DEF RuntimeInv, EndingOK, Ending
  <2>3. LoadingOK'
    BY <1>2, <2>2, IdleIsOp DEF LoadingOK
  <2>4. \A p \in NodeOps : ~Ending(p)'
    BY <1>2, <2>2, IdleIsOp DEF RuntimeInv, OpOK, Ending
  <2>5. \A p \in NodeOps : nodeOps[p].phase # "clear"
    BY <2>1, <2>2 DEF RuntimeInv, OpOK, Ending
  <2>6. RunningOK'
    BY <1>1, <2>1, <2>5 DEF RuntimeInv, RunningOK
  <2> QED BY <2>3, <2>4, <2>6 DEF EndingOK
<1> QED BY <1>1, <1>2, <1>3, <1>4, <1>5 DEF RuntimeInv

LEMMA RuntimeNextInv == ASSUME RuntimeInv, N!Next PROVE RuntimeInv'
<1>1. CASE N!Reload \/ N!started \/ N!startFails
  BY <1>1, ReloadInv, StartedInv, StartFailsInv
<1>2. CASE N!startInternal \/ N!loadIdentity \/ N!putIdentity
  BY <1>2, IdentityInv
<1>3. ASSUME NEW o \in NodeOps,
             \/ N!refresh(o) \/ N!load(o) \/ N!connectPeer(o) \/ N!disconnectPeer(o)
             \/ N!setChannelEnabled(o) \/ N!closeChannel(o)
      PROVE  RuntimeInv'
  BY <1>3, ButtonsInv
  DEF N!connectPeer, N!disconnectPeer, N!setChannelEnabled, N!closeChannel
<1>4. ASSUME NEW o \in NodeOps,
             \/ N!Visit(o) \/ N!ActionAnswered(o) \/ N!Answered(o) \/ N!Fails(o)
             \/ N!stop(o) \/ N!reset(o) \/ N!Stopped(o) \/ N!clearIdentity(o)
             \/ N!StopFails(o)
      PROVE  RuntimeInv'
  BY <1>4, VisitInv, ActionAnsweredInv, AnsweredInv, StopsInv, StoppedInv, ClearedInv,
     StopFailsInv
<1> QED BY <1>1, <1>2, <1>3, <1>4 DEF N!Next

\* The steps of the other parts leave the node alone.
LEMMA RuntimeStutters == ASSUME RuntimeInv, UNCHANGED node PROVE RuntimeInv'
BY DEF node, RuntimeInv, N!TypeOK, OpOK, Ending, StartOK, BusyOK, Holds, LoadingOK, EndingOK,
   RunningOK

-----------------------------------------------------------------------------
(***************************************************************************)
(* The external funding of channels.                                       *)
(***************************************************************************)

\* The tab has a channel of its own that it still prepares, or has to abandon.
Preparing == {"prepare", "abandon", "giveup"}

\* What a tab has in its hands while it does what it does.
ShapeOK(q) ==
  /\ q.phase \in Preparing \cup {"submit"} <=> q.tx # None
  /\ q.phase \in {"open", "abandon"} => q.deps # None
  /\ q.phase = "sign" => q.draft # None

\* A transaction is of a channel that was opened, and is what the node froze for it as
\* long as that channel is not abandoned.
Known(tx) ==
  tx # None =>
    /\ channels[tx.channel] # None
    /\ channels[tx.channel].state # "abandoned" => channels[tx.channel].tx = tx

\* A draft is of its channel, and what is signed is what was to be signed.
DraftOK(d) ==
  d # None =>
    d.unsigned.channel = d.channel /\ d.signed \in {None, d.unsigned} /\ Known(d.unsigned)

\* Is it (a transaction, or a draft) of the channel c?
Of(x, c) == x # None /\ x.channel = c

\* The channel c is in the hands of the tab, or in the draft.
Held(t, c) == Of(tab[t].tx, c) \/ Of(tab[t].draft, c) \/ Of(draft, c)

\* A tab that prepares has its channel for itself, and that one waits for its funding.
PreparingOK(t) ==
  tab[t].phase \in Preparing =>
    LET c == tab[t].tx.channel IN
      /\ c \in F!Pending /\ channels[c].tx = tab[t].tx
      /\ \A u \in Tabs \ {t} : ~Of(tab[u].tx, c) /\ ~Of(tab[u].draft, c)
      /\ ~Of(tab[t].draft, c) /\ ~Of(draft, c)

\* What a tab submits was the draft: if the channel still waits, it is the draft's, or
\* another tab has taken its draft.
SubmittingOK(t) ==
  tab[t].phase = "submit" /\ tab[t].tx.channel \in F!Pending =>
    tab[t].tx.channel \in lost \/ Of(draft, tab[t].tx.channel)

FundingInv ==
  /\ F!TypeOK
  /\ DraftOK(draft)
  /\ \A t \in Tabs :
       /\ ShapeOK(tab[t]) /\ Known(tab[t].tx) /\ DraftOK(tab[t].draft)
       /\ PreparingOK(t) /\ SubmittingOK(t)
  /\ \A tx \in submitted : channels[tx.channel] # None
  /\ F!OnlyFrozenFundingIsSubmitted /\ F!NoOrphanWithoutCause

LEMMA FundingTypes ==
  ASSUME FundingInv
  PROVE  /\ \A t \in Tabs : tab[t] \in F!Tab
         /\ MaxAttempts \in Nat \ {0} /\ MaxChannels \in Nat
         /\ None \notin F!Tx /\ None \notin F!Draft /\ None \notin Deps
         /\ Default \in Profiles /\ LockDeps \in Deps
         /\ \A c \in F!Channels :
              channels[c] \in {None} \cup [profile : Profiles, state : F!States, tx : F!Tx]
         /\ None \notin [profile : Profiles, state : F!States, tx : F!Tx]
BY BrowserNodeAssumption DEF FundingInv, F!TypeOK

\* The pending channels are those in somebody's hands, or lost.
LEMMA PendingIsKnown ==
  F!NoOrphanWithoutCause <=>
    \A c \in F!Pending : c \in lost \/ Of(draft, c) \/ \E t \in Tabs : Of(tab[t].tx, c)
BY DEF F!NoOrphanWithoutCause, F!InDraft, F!Working, Of

\* The tab t becomes q and the draft d; channels change that were not there, or that the
\* tab has in its hands.
LEMMA FundingMove ==
  ASSUME FundingInv, NEW t \in Tabs, NEW q \in F!Tab, tab' = [tab EXCEPT ![t] = q],
         NEW d \in F!Draft \cup {None}, draft' = d,
         channels' \in [F!Channels -> {None} \cup
                                      [profile : Profiles, state : F!States, tx : F!Tx]],
         submitted' \subseteq F!Tx, F!OnlyFrozenFundingIsSubmitted',
         \A x \in submitted' : channels'[x.channel] # None,
         lost \subseteq lost', lost' \subseteq F!Channels,
         \A c \in F!Channels : channels'[c] = channels[c] \/ channels[c] = None \/ Held(t, c),
         \A x \in F!Tx : Known(x) => Known(x)',
         \A c \in F!Pending' : c \in F!Pending \/ (channels[c] = None /\ Of(q.tx, c)),
         ShapeOK(q), Known(q.tx)', DraftOK(q.draft)', DraftOK(d)',
         q.tx # None => Held(t, q.tx.channel) \/ channels[q.tx.channel] = None,
         q.draft # None => Held(t, q.draft.channel),
         d # None => Held(t, d.channel),
         q.phase \in Preparing =>
           LET c == q.tx.channel IN
             /\ c \in F!Pending' /\ channels'[c].tx = q.tx
             /\ \A u \in Tabs \ {t} : ~Of(tab[u].tx, c) /\ ~Of(tab[u].draft, c)
             /\ ~Of(q.draft, c) /\ ~Of(d, c),
         q.phase = "submit" /\ q.tx.channel \in F!Pending' =>
           q.tx.channel \in lost' \/ Of(d, q.tx.channel),
         \A c \in F!Pending' :
           (Of(draft, c) => c \in lost' \/ Of(d, c))
             /\ (Of(tab[t].tx, c) => c \in lost' \/ Of(d, c) \/ Of(q.tx, c))
  PROVE  FundingInv'
<1>1. /\ tab' \in [Tabs -> F!Tab] /\ tab'[t] = q
      /\ \A u \in Tabs \ {t} : tab'[u] = tab[u] /\ tab[u] \in F!Tab
  BY DEF FundingInv, F!TypeOK
<1>2. F!TypeOK'
  BY <1>1 DEF F!TypeOK
<1>3. ASSUME NEW x \in F!Tx \cup {None}, Known(x) PROVE Known(x)'
  BY <1>3 DEF Known
<1>4. ASSUME NEW x \in F!Draft \cup {None}, DraftOK(x) PROVE DraftOK(x)'
  <2>1. x # None => x.unsigned \in F!Tx /\ Known(x.unsigned)
    BY <1>4 DEF DraftOK, F!Draft
  <2>2. x # None => Known(x.unsigned)'
    BY <1>3, <2>1
  <2> QED BY <1>4, <2>2 DEF DraftOK
<1>5. DraftOK(draft)'
  BY DEF DraftOK
<1>6. ASSUME NEW u \in Tabs, u # t
      PROVE  /\ ShapeOK(tab[u])' /\ Known(tab[u].tx)' /\ DraftOK(tab[u].draft)'
             /\ PreparingOK(u)' /\ SubmittingOK(u)'
  <2>1. PICK r \in F!Tab : r = tab[u] /\ r = tab'[u]
    BY <1>1, <1>6
  <2>2. /\ r.tx \in F!Tx \cup {None} /\ r.draft \in F!Draft \cup {None}
        /\ ShapeOK(r) /\ Known(r.tx) /\ DraftOK(r.draft)
        /\ PreparingOK(u) /\ SubmittingOK(u)
    BY <2>1 DEF FundingInv, F!Tab
  <2>3. Known(r.tx)' /\ DraftOK(r.draft)'
    BY <1>3, <1>4, <2>2
  <2>4. ShapeOK(tab[u])' /\ Known(tab[u].tx)' /\ DraftOK(tab[u].draft)'
    BY <2>1, <2>2, <2>3 DEF ShapeOK, Known, DraftOK
  <2>5. PreparingOK(u)'
    <3> SUFFICES ASSUME r.phase \in Preparing
                 PROVE  LET c == r.tx.channel IN
                        /\ c \in F!Pending' /\ channels'[c].tx = r.tx
                        /\ \A v \in Tabs \ {u} : ~Of(tab'[v].tx, c) /\ ~Of(tab'[v].draft, c)
                        /\ ~Of(r.draft, c) /\ ~Of(draft', c)
      BY <2>1 DEF PreparingOK, Of
    <3>1. PICK c : c = r.tx.channel
      OBVIOUS
    <3>2. /\ c \in F!Pending /\ c \in F!Channels /\ channels[c] # None /\ channels[c].tx = r.tx
          /\ \A v \in Tabs \ {u} : ~Of(tab[v].tx, c) /\ ~Of(tab[v].draft, c)
          /\ ~Of(r.draft, c) /\ ~Of(draft, c)
      BY <2>1, <2>2, <3>1 DEF PreparingOK, F!Pending, F!Opened
    <3>3. ~Held(t, c)
      BY <1>6, <3>2 DEF Held
    <3>4. channels'[c] = channels[c]
      BY <3>2, <3>3
    <3>5. c \in F!Pending'
      BY <3>2, <3>4 DEF F!Pending, F!Opened
    <3>6. ~Of(q.tx, c) /\ ~Of(q.draft, c) /\ ~Of(d, c)
      BY <3>2, <3>3 DEF Of
    <3> QED BY <1>1, <3>1, <3>2, <3>4, <3>5, <3>6
  <2>6. SubmittingOK(u)'
    <3> SUFFICES ASSUME r.phase = "submit", r.tx.channel \in F!Pending'
                 PROVE  r.tx.channel \in lost' \/ Of(d, r.tx.channel)
      BY <2>1 DEF SubmittingOK, Of
    <3>1. channels[r.tx.channel] # None
      BY <2>2 DEF ShapeOK, Known
    <3>2. r.tx.channel \in F!Pending
      BY <3>1
    <3>3. r.tx.channel \in lost \/ Of(draft, r.tx.channel)
      BY <2>1, <2>2, <3>2 DEF SubmittingOK
    <3> QED BY <3>3
  <2> QED BY <2>4, <2>5, <2>6
<1>7. ShapeOK(tab[t])' /\ Known(tab[t].tx)' /\ DraftOK(tab[t].draft)'
  BY <1>1 DEF ShapeOK, Known, DraftOK
<1>8. PreparingOK(t)'
  BY <1>1 DEF PreparingOK, Of
<1>9. SubmittingOK(t)'
  BY <1>1 DEF SubmittingOK, Of
<1>10. F!NoOrphanWithoutCause'
  <2> SUFFICES ASSUME NEW c \in F!Pending'
               PROVE  c \in lost' \/ Of(d, c) \/ \E u \in Tabs : Of(tab'[u].tx, c)
    BY DEF F!NoOrphanWithoutCause, F!InDraft, F!Working, Of
  <2>1. CASE channels[c] = None /\ Of(q.tx, c)
    BY <1>1, <2>1
  <2>2. CASE c \in F!Pending
    <3>1. c \in lost \/ Of(draft, c) \/ \E u \in Tabs : Of(tab[u].tx, c)
      BY <2>2, PendingIsKnown DEF FundingInv
    <3>2. ASSUME NEW u \in Tabs, Of(tab[u].tx, c)
          PROVE  c \in lost' \/ Of(d, c) \/ \E v \in Tabs : Of(tab'[v].tx, c)
      BY <1>1, <3>2
    <3> QED BY <3>1, <3>2
  <2> QED BY <2>1, <2>2
<1>11. ASSUME NEW u \in Tabs
       PROVE  /\ ShapeOK(tab[u])' /\ Known(tab[u].tx)' /\ DraftOK(tab[u].draft)'
              /\ PreparingOK(u)' /\ SubmittingOK(u)'
  BY <1>6, <1>7, <1>8, <1>9
<1> QED BY <1>2, <1>5, <1>10, <1>11 DEF FundingInv

\* The tab goes on without the node or the draft: what it lets go is lost, or the draft's,
\* or was submitted.
LEMMA TabMove ==
  ASSUME FundingInv, NEW t \in Tabs, NEW q \in F!Tab, tab' = [tab EXCEPT ![t] = q],
         UNCHANGED <<draft, channels, submitted>>,
         lost \subseteq lost', lost' \subseteq F!Channels,
         ShapeOK(q), q.draft \in {None, draft, tab[t].draft},
         \/ /\ q.tx = tab[t].tx
            /\ q.phase \in Preparing <=> tab[t].phase \in Preparing
         \/ /\ q.phase \notin Preparing
            /\ q.tx # None => draft # None /\ q.tx = draft.signed
            /\ \/ tab[t].tx = None \/ tab[t].phase = "submit"
               \/ tab[t].tx.channel \in lost' \/ Of(draft, tab[t].tx.channel)
  PROVE  FundingInv'
<1>1. PICK d \in F!Draft \cup {None} : d = draft
  BY DEF FundingInv, F!TypeOK
<1>2. /\ channels' \in [F!Channels -> {None} \cup
                                      [profile : Profiles, state : F!States, tx : F!Tx]]
      /\ submitted' \subseteq F!Tx /\ F!OnlyFrozenFundingIsSubmitted'
      /\ \A x \in submitted' : channels'[x.channel] # None
      /\ \A c \in F!Channels : channels'[c] = channels[c]
      /\ F!Pending' = F!Pending
      /\ \A x \in F!Tx : Known(x) => Known(x)'
  BY DEF FundingInv, F!TypeOK, F!OnlyFrozenFundingIsSubmitted, F!Pending, F!Opened, Known
<1>3. /\ tab[t] \in F!Tab /\ ShapeOK(tab[t]) /\ Known(tab[t].tx) /\ DraftOK(tab[t].draft)
      /\ DraftOK(draft) /\ PreparingOK(t) /\ SubmittingOK(t)
      /\ tab[t].tx \in F!Tx \cup {None} /\ tab[t].draft \in F!Draft \cup {None}
  BY FundingTypes DEF FundingInv, F!Tab
<1>4. draft # None /\ draft.signed # None =>
        /\ Known(draft.signed) /\ draft.signed.channel = draft.channel
  BY <1>3 DEF DraftOK
<1>5. Known(q.tx) /\ DraftOK(q.draft)
  BY <1>3, <1>4 DEF Known, DraftOK
<1>6. Known(q.tx)' /\ DraftOK(q.draft)' /\ DraftOK(d)'
  BY <1>1, <1>3, <1>5 DEF Known, DraftOK
<1>7. /\ q.tx # None => Held(t, q.tx.channel)
      /\ q.draft # None => Held(t, q.draft.channel)
      /\ d # None => Held(t, d.channel)
  BY <1>1, <1>4 DEF Held, Of
<1>8. q.phase \in Preparing =>
        LET c == q.tx.channel IN
          /\ c \in F!Pending' /\ channels'[c].tx = q.tx
          /\ \A u \in Tabs \ {t} : ~Of(tab[u].tx, c) /\ ~Of(tab[u].draft, c)
          /\ ~Of(q.draft, c) /\ ~Of(d, c)
  BY <1>1, <1>2, <1>3 DEF PreparingOK, Of
<1>9. q.phase = "submit" /\ q.tx.channel \in F!Pending' =>
        q.tx.channel \in lost' \/ Of(d, q.tx.channel)
  <2> SUFFICES ASSUME q.phase = "submit", q.tx.channel \in F!Pending
               PROVE  q.tx.channel \in lost' \/ Of(d, q.tx.channel)
    BY <1>2
  <2>1. q.tx # None
    BY DEF ShapeOK
  <2>2. CASE q.tx = tab[t].tx /\ (q.phase \in Preparing <=> tab[t].phase \in Preparing)
    <3>1. tab[t].phase = "submit"
      BY <1>3, <2>1, <2>2 DEF ShapeOK, Preparing
    <3> QED BY <1>1, <1>3, <2>2, <3>1 DEF SubmittingOK
  <2>3. CASE draft # None /\ q.tx = draft.signed
    BY <1>1, <1>4, <2>1, <2>3 DEF Of
  <2> QED BY <2>1, <2>2, <2>3
<1>10. \A c \in F!Pending' :
         (Of(draft, c) => c \in lost' \/ Of(d, c))
           /\ (Of(tab[t].tx, c) => c \in lost' \/ Of(d, c) \/ Of(q.tx, c))
  BY <1>1, <1>2, <1>3 DEF Of, SubmittingOK
<1> QED
  BY <1>1, <1>2, <1>6, <1>7, <1>8, <1>9, <1>10, FundingMove, ZenonT(60)

\* A page whose operation is over.
LEMMA IdleTab ==
  ASSUME FundingInv, NEW t \in Tabs
  PROVE  /\ F!Idle(t) \in F!Tab /\ F!Idle(t).phase = "idle" /\ F!Idle(t).tx = None
         /\ F!Idle(t).draft = tab[t].draft
<1>1. PICK r \in F!Tab : r = tab[t]
  BY FundingTypes
<1>2. 0 \in 0 .. MaxAttempts - 1
  BY FundingTypes
<1>3. F!Idle(t) = [r EXCEPT !.phase = "idle", !.attempt = 0, !.deps = None, !.tx = None]
  BY <1>1 DEF F!Idle
<1> QED BY <1>1, <1>2, <1>3 DEF F!Tab, F!Phases

\* The tab works on: its phase and its deps are all that changes.
LEMMA WorksOnInv ==
  ASSUME FundingInv, NEW t \in Tabs,
         \/ F!openChannel(t) \/ F!coreChanged(t) \/ F!depsChanged(t) \/ F!Render(t)
         \/ F!signFunding(t) \/ F!signFails(t)
  PROVE  FundingInv'
<1>1. /\ tab[t] \in F!Tab /\ ShapeOK(tab[t]) /\ lost \subseteq F!Channels
      /\ draft \in F!Draft \cup {None} /\ tab \in [Tabs -> F!Tab]
  BY FundingTypes DEF FundingInv, F!TypeOK
<1>2. UNCHANGED <<draft, channels, submitted, lost>>
  BY DEF F!openChannel, F!coreChanged, F!depsChanged, F!Render, F!signFunding, F!signFails
<1>3. PICK q \in F!Tab :
        /\ tab' = [tab EXCEPT ![t] = q] /\ q.tx = tab[t].tx
        /\ q.phase \in Preparing <=> tab[t].phase \in Preparing
        /\ ShapeOK(q) /\ q.draft \in {draft, tab[t].draft}
  <2>1. CASE F!openChannel(t)
    <3> DEFINE r == [tab[t] EXCEPT !.phase = "lock"]
    <3>1. /\ r \in F!Tab /\ r.phase = "lock" /\ r.tx = tab[t].tx /\ r.draft = tab[t].draft
          /\ tab' = [tab EXCEPT ![t] = r] /\ tab[t].phase = "idle"
      BY <1>1, <2>1 DEF F!openChannel, F!Go, F!Tab, F!Phases
    <3> HIDE DEF r
    <3> QED BY <1>1, <3>1 DEF ShapeOK, Preparing
  <2>2. CASE F!coreChanged(t)
    <3> DEFINE r == [tab[t] EXCEPT !.phase = "giveup"]
    <3>1. /\ r \in F!Tab /\ r.phase = "giveup" /\ r.tx = tab[t].tx /\ r.draft = tab[t].draft
          /\ tab' = [tab EXCEPT ![t] = r] /\ tab[t].phase = "prepare"
      BY <1>1, <2>2 DEF F!coreChanged, F!Go, F!Tab, F!Phases
    <3> HIDE DEF r
    <3> QED BY <1>1, <3>1 DEF ShapeOK, Preparing
  <2>3. CASE F!depsChanged(t)
    <3>1. PICK deps \in Deps : tab' = [tab EXCEPT ![t].phase = "abandon", ![t].deps = deps]
      <4>1. PICK tx \in F!Prepared(tab[t].tx) :
              tab' = [tab EXCEPT ![t].phase = "abandon", ![t].deps = tx.deps]
        BY <2>3 DEF F!depsChanged
      <4>2. tab[t].tx \in F!Tx
        BY <1>1, <2>3 DEF F!depsChanged, ShapeOK, Preparing, F!Tab
      <4>3. tx.deps \in Deps
        BY <4>1, <4>2 DEF F!Prepared, F!Tx
      <4> QED BY <4>1, <4>3
    <3> DEFINE r == [tab[t] EXCEPT !.phase = "abandon", !.deps = deps]
    <3>2. /\ r \in F!Tab /\ r.phase = "abandon" /\ r.tx = tab[t].tx /\ r.draft = tab[t].draft
          /\ r.deps = deps /\ tab' = [tab EXCEPT ![t] = r] /\ tab[t].phase = "prepare"
      BY <1>1, <2>3, <3>1 DEF F!depsChanged, F!Tab, F!Phases
    <3> HIDE DEF r
    <3> QED BY <1>1, <3>2, FundingTypes DEF ShapeOK, Preparing
  <2>4. CASE F!Render(t)
    <3> DEFINE r == [tab[t] EXCEPT !.draft = draft]
    <3>1. /\ r \in F!Tab /\ r.phase = "idle" /\ r.tx = tab[t].tx /\ r.draft = draft
          /\ tab' = [tab EXCEPT ![t] = r] /\ tab[t].phase = "idle"
      BY <1>1, <2>4 DEF F!Render, F!Tab
    <3> HIDE DEF r
    <3> QED BY <1>1, <3>1 DEF ShapeOK, Preparing
  <2>5. CASE F!signFunding(t)
    <3> DEFINE r == [tab[t] EXCEPT !.phase = "sign"]
    <3>1. /\ r \in F!Tab /\ r.phase = "sign" /\ r.tx = tab[t].tx /\ r.draft = tab[t].draft
          /\ r.draft # None /\ tab' = [tab EXCEPT ![t] = r] /\ tab[t].phase = "idle"
      BY <1>1, <2>5 DEF F!signFunding, F!Go, F!Tab, F!Phases
    <3> HIDE DEF r
    <3> QED BY <1>1, <3>1 DEF ShapeOK, Preparing
  <2>6. CASE F!signFails(t)
    <3> DEFINE r == [tab[t] EXCEPT !.phase = "idle"]
    <3>1. /\ r \in F!Tab /\ r.phase = "idle" /\ r.tx = tab[t].tx /\ r.draft = tab[t].draft
          /\ tab' = [tab EXCEPT ![t] = r] /\ tab[t].phase = "sign"
      BY <1>1, <2>6 DEF F!signFails, F!Go, F!Tab, F!Phases
    <3> HIDE DEF r
    <3> QED BY <1>1, <3>1 DEF ShapeOK, Preparing
  <2> QED BY <2>1, <2>2, <2>3, <2>4, <2>5, <2>6
<1> QED BY <1>1, <1>2, <1>3, TabMove

\* The tab gives up, and what it prepared is lost; or it knows the lock of the wallet.
LEMMA EndsInv ==
  ASSUME FundingInv, NEW t \in Tabs,
         \/ F!knownLock(t) \/ F!openFails(t) \/ F!prepareFails(t) \/ F!abandonFails(t)
         \/ F!submitFails(t)
  PROVE  FundingInv'
<1>1. /\ tab[t] \in F!Tab /\ ShapeOK(tab[t]) /\ lost \subseteq F!Channels
      /\ tab[t].tx \in F!Tx \cup {None}
  BY FundingTypes DEF FundingInv, F!TypeOK, F!Tab
<1>2. /\ UNCHANGED <<draft, channels, submitted>>
      /\ lost \subseteq lost' /\ lost' \subseteq F!Channels
      /\ \/ tab[t].tx = None \/ tab[t].phase = "submit" \/ tab[t].tx.channel \in lost'
  <2>1. CASE F!knownLock(t) \/ F!openFails(t) \/ F!submitFails(t)
    BY <1>1, <2>1 DEF F!knownLock, F!openFails, F!submitFails, ShapeOK, Preparing
  <2>2. CASE F!prepareFails(t) \/ F!abandonFails(t)
    BY <1>1, <2>2 DEF F!prepareFails, F!abandonFails, F!Working, F!Tx
  <2> QED BY <2>1, <2>2
<1>3. PICK q \in F!Tab :
        /\ tab' = [tab EXCEPT ![t] = q] /\ q.tx = None /\ q.phase \in {"idle", "open"}
        /\ ShapeOK(q) /\ q.draft = tab[t].draft
  <2>1. CASE tab' = [tab EXCEPT ![t] = F!Idle(t)]
    BY <2>1, IdleTab DEF ShapeOK, Preparing
  <2>2. CASE tab[t].phase = "lock" /\ tab' = [tab EXCEPT ![t].phase = "open", ![t].deps = LockDeps]
    <3> DEFINE r == [tab[t] EXCEPT !.phase = "open", !.deps = LockDeps]
    <3>1. /\ r \in F!Tab /\ r.phase = "open" /\ r.tx = tab[t].tx /\ r.deps = LockDeps
          /\ r.draft = tab[t].draft /\ tab' = [tab EXCEPT ![t] = r]
      BY <1>1, <2>2, FundingTypes DEF F!Tab, F!Phases, FundingInv, F!TypeOK
    <3>2. LockDeps # None /\ tab[t].tx = None
      BY <1>1, <2>2, FundingTypes DEF ShapeOK, Preparing
    <3> HIDE DEF r
    <3> QED BY <3>1, <3>2 DEF ShapeOK, Preparing
  <2> QED
    BY <2>1, <2>2
    DEF F!knownLock, F!openFails, F!prepareFails, F!abandonFails, F!submitFails
<1>4. q.phase \notin Preparing
  BY <1>3 DEF Preparing
<1> QED BY <1>2, <1>3, <1>4, TabMove

\* A document is loaded: it submits, or shows the draft.
LEMMA LoadFacts ==
  ASSUME FundingInv, NEW t \in Tabs, NEW kind \in {"node", "funding"}, NEW profile \in Profiles,
         NEW url \in BOOLEAN, F!Load(t, kind, profile, url),
         NEW d \in F!Draft \cup {None}, draft' = d
  PROVE  \E q \in F!Tab :
           /\ tab' = [tab EXCEPT ![t] = q] /\ ShapeOK(q)
           /\ q.phase \in {"idle", "submit"} /\ q.draft \in {None, d}
           /\ q.tx # None => d # None /\ q.tx = d.signed
<1> DEFINE empty == F!Document(kind, profile, url)
<1>1. /\ empty \in F!Tab /\ empty.phase = "idle" /\ empty.tx = None /\ empty.draft = None
  <2>1. 0 \in 0 .. MaxAttempts - 1
    BY FundingTypes
  <2> QED BY <2>1 DEF F!Document, F!Tab, F!Phases
<1> HIDE DEF empty
<1>2. CASE kind = "funding"
  <2> DEFINE q == [empty EXCEPT !.draft = d]
  <2>1. /\ q \in F!Tab /\ q.phase = "idle" /\ q.tx = None /\ q.draft = d
        /\ tab' = [tab EXCEPT ![t] = q]
    BY <1>1, <1>2 DEF F!Load, F!Tab, empty
  <2> HIDE DEF q
  <2> QED BY <2>1 DEF ShapeOK, Preparing
<1>3. CASE kind = "node"
  <2>1. tab' = [tab EXCEPT ![t] = F!submitFunding(empty)]
    BY <1>3 DEF F!Load, empty
  <2>2. CASE F!submitFunding(empty) = empty
    BY <1>1, <2>1, <2>2 DEF ShapeOK, Preparing
  <2>3. CASE /\ d # None /\ d.signed # None
             /\ F!submitFunding(empty) = [empty EXCEPT !.phase = "submit", !.tx = d.signed]
    <3> DEFINE q == [empty EXCEPT !.phase = "submit", !.tx = d.signed]
    <3>1. d.signed \in F!Tx
      BY <2>3 DEF F!Draft
    <3>2. /\ q \in F!Tab /\ q.phase = "submit" /\ q.tx = d.signed /\ q.draft = None
          /\ tab' = [tab EXCEPT ![t] = q]
      BY <1>1, <2>1, <2>3, <3>1 DEF F!Tab, F!Phases
    <3> HIDE DEF q
    <3> QED BY <2>3, <3>2 DEF ShapeOK, Preparing
  <2> QED BY <2>2, <2>3 DEF F!submitFunding
<1> QED BY <1>2, <1>3

\* The user loads a page.
LEMMA OpenInv == ASSUME FundingInv, NEW t \in Tabs, F!Open(t) PROVE FundingInv'
<1>1. /\ tab[t] \in F!Tab /\ tab[t].profile \in Profiles /\ tab[t].url \in BOOLEAN
      /\ tab[t].tx \in F!Tx \cup {None} /\ lost \subseteq F!Channels
  BY FundingTypes DEF FundingInv, F!TypeOK, F!Tab
<1>2. PICK d \in F!Draft \cup {None} : d = draft /\ draft' = d
  BY DEF F!Open, FundingInv, F!TypeOK
<1>3. PICK q \in F!Tab :
        /\ tab' = [tab EXCEPT ![t] = q] /\ ShapeOK(q)
        /\ q.phase \in {"idle", "submit"} /\ q.draft \in {None, d}
        /\ q.tx # None => d # None /\ q.tx = d.signed
  <2>1. PICK kind \in {"node", "funding"}, profile \in Profiles, url \in BOOLEAN :
          F!Load(t, kind, profile, url)
    BY <1>1, FundingTypes DEF F!Open
  <2> QED BY <1>2, <2>1, LoadFacts
<1>4. /\ UNCHANGED <<draft, channels, submitted>>
      /\ lost \subseteq lost' /\ lost' \subseteq F!Channels
      /\ tab[t].tx = None \/ tab[t].tx.channel \in lost' \/ Of(draft, tab[t].tx.channel)
  BY <1>1 DEF F!Open, F!Working, F!InDraft, F!Tx, Of
<1> QED BY <1>2, <1>3, <1>4, TabMove DEF Preparing

\* The node freezes the funding of another channel.
LEMMA OpenedInv ==
  ASSUME FundingInv, NEW t \in Tabs, F!openChannelWithExternalFunding(t) PROVE FundingInv'
<1>1. /\ tab[t] \in F!Tab /\ tab[t].phase = "open" /\ tab[t].profile \in Profiles
      /\ tab[t].deps \in Deps /\ tab[t].tx = None
      /\ tab \in [Tabs -> F!Tab] /\ DraftOK(tab[t].draft)
  BY FundingTypes
  DEF FundingInv, F!TypeOK, F!openChannelWithExternalFunding, ShapeOK, Preparing, F!Tab
<1>2. PICK c \in F!Channels \ F!Opened, tx \in F!Tx :
        /\ tx = [channel |-> c, core |-> "frozen", deps |-> tab[t].deps]
        /\ channels' = [channels EXCEPT ![c] =
                          [profile |-> tab[t].profile, state |-> "pending", tx |-> tx]]
        /\ tab' = [tab EXCEPT ![t].phase = "prepare", ![t].tx = tx]
        /\ UNCHANGED <<draft, submitted, lost>>
  <2> DEFINE Frozen(c) == [channel |-> c, core |-> "frozen", deps |-> tab[t].deps]
  <2>1. \E c \in F!Channels \ F!Opened :
        /\ channels' = [channels EXCEPT ![c] =
                          [profile |-> tab[t].profile, state |-> "pending", tx |-> Frozen(c)]]
        /\ tab' = [tab EXCEPT ![t].phase = "prepare", ![t].tx = Frozen(c)]
        /\ UNCHANGED <<draft, submitted, lost>>
    BY DEF F!openChannelWithExternalFunding
  <2>2. \A c \in F!Channels : Frozen(c) \in F!Tx
    BY <1>1 DEF F!Tx
  <2> QED BY <2>1, <2>2
<1>3. PICK q \in F!Tab :
        /\ q.phase = "prepare" /\ q.tx = tx /\ q.draft = tab[t].draft
        /\ tab' = [tab EXCEPT ![t] = q] /\ ShapeOK(q)
  <2> DEFINE r == [tab[t] EXCEPT !.phase = "prepare", !.tx = tx]
  <2>1. /\ r \in F!Tab /\ r.phase = "prepare" /\ r.tx = tx /\ r.draft = tab[t].draft
        /\ tab' = [tab EXCEPT ![t] = r]
    BY <1>1, <1>2 DEF F!Tab, F!Phases
  <2> HIDE DEF r
  <2> QED BY <2>1, FundingTypes DEF ShapeOK, Preparing
<1>4. PICK d \in F!Draft \cup {None} : d = draft /\ draft' = d
  BY <1>2 DEF FundingInv, F!TypeOK
<1>5. PICK channel \in [profile : Profiles, state : F!States, tx : F!Tx] :
        /\ channel.state = "pending" /\ channel.tx = tx
        /\ channels' = [channels EXCEPT ![c] = channel]
  BY <1>1, <1>2 DEF F!States
<1>6. /\ channels[c] = None /\ channels'[c] = channel /\ channel # None
      /\ \A e \in F!Channels \ {c} : channels'[e] = channels[e]
      /\ channels' \in [F!Channels -> {None} \cup
                                      [profile : Profiles, state : F!States, tx : F!Tx]]
  BY <1>2, <1>5, FundingTypes DEF FundingInv, F!TypeOK, F!Opened
<1>7. ASSUME NEW x \in F!Tx, Known(x) PROVE Known(x)' /\ x.channel # c
  BY <1>6, <1>7, FundingTypes DEF Known, F!Tx
<1>8. \A e \in F!Channels : e \in F!Pending' <=> e \in F!Pending \/ e = c
  BY <1>5, <1>6 DEF F!Pending, F!Opened
<1>9. /\ submitted' \subseteq F!Tx /\ F!OnlyFrozenFundingIsSubmitted'
      /\ \A x \in submitted' : channels'[x.channel] # None
  <2>1. \A x \in submitted : x \in F!Tx /\ x.channel # c
    <3> SUFFICES ASSUME NEW x \in submitted, x.channel = c PROVE FALSE
      BY DEF FundingInv, F!TypeOK
    <3> QED BY <1>6 DEF FundingInv
  <2> QED BY <1>2, <1>6, <2>1 DEF FundingInv, F!OnlyFrozenFundingIsSubmitted, F!Tx
<1>10. lost \subseteq lost' /\ lost' \subseteq F!Channels
  BY <1>2 DEF FundingInv, F!TypeOK
<1>11. Known(q.tx)'
  BY <1>2, <1>3, <1>5, <1>6 DEF Known
<1>12. \A x \in F!Draft \cup {None} : DraftOK(x) => ~Of(x, c) /\ DraftOK(x)'
  BY <1>7 DEF DraftOK, F!Draft, Of
<1>13. \A x \in F!Tx \cup {None} : Known(x) => ~Of(x, c)
  BY <1>7 DEF Of
<1>14. \A u \in Tabs : ~Of(tab[u].tx, c) /\ ~Of(tab[u].draft, c)
  BY <1>12, <1>13, FundingTypes DEF FundingInv, F!Tab
<1>15. ~Of(draft, c) /\ ~Of(q.draft, c) /\ DraftOK(q.draft)' /\ DraftOK(d)'
  BY <1>3, <1>4, <1>12, <1>14, FundingTypes DEF FundingInv, F!Tab
<1>16. /\ q.draft # None => Held(t, q.draft.channel)
       /\ d # None => Held(t, d.channel)
  BY <1>3, <1>4 DEF Held, Of
<1>17. q.tx.channel = c /\ Of(q.tx, c) /\ channels'[c].tx = q.tx
  BY <1>2, <1>3, <1>5, <1>6, FundingTypes DEF Of
<1>18. \A e \in F!Pending' :
         /\ e \in F!Pending \/ (channels[e] = None /\ Of(q.tx, e))
         /\ Of(draft, e) => e \in lost' \/ Of(d, e)
         /\ ~Of(tab[t].tx, e)
  BY <1>1, <1>4, <1>6, <1>8, <1>17 DEF F!Pending, F!Opened, Of
<1>19. c \in F!Pending' /\ c \in F!Channels
  BY <1>2, <1>8
<1>20. /\ q.phase \in Preparing =>
            LET e == q.tx.channel IN
              /\ e \in F!Pending' /\ channels'[e].tx = q.tx
              /\ \A u \in Tabs \ {t} : ~Of(tab[u].tx, e) /\ ~Of(tab[u].draft, e)
              /\ ~Of(q.draft, e) /\ ~Of(d, e)
       /\ q.tx # None => Held(t, q.tx.channel) \/ channels[q.tx.channel] = None
       /\ q.phase = "submit" /\ q.tx.channel \in F!Pending' =>
            q.tx.channel \in lost' \/ Of(d, q.tx.channel)
  BY <1>3, <1>4, <1>6, <1>14, <1>15, <1>17, <1>19
<1>21. /\ \A e \in F!Channels :
            channels'[e] = channels[e] \/ channels[e] = None \/ Held(t, e)
       /\ \A x \in F!Tx : Known(x) => Known(x)'
       /\ \A e \in F!Pending' : e \in F!Pending \/ (channels[e] = None /\ Of(q.tx, e))
       /\ \A e \in F!Pending' :
            (Of(draft, e) => e \in lost' \/ Of(d, e))
              /\ (Of(tab[t].tx, e) => e \in lost' \/ Of(d, e) \/ Of(q.tx, e))
  BY <1>6, <1>7, <1>18
<1> QED
  BY <1>3, <1>4, <1>6, <1>9, <1>10, <1>11, <1>15, <1>16, <1>20, <1>21, FundingMove, ZenonT(60)

\* The tab goes on with another draft, of the channel that it had in its hands.
LEMMA DraftMove ==
  ASSUME FundingInv, NEW t \in Tabs, NEW q \in F!Tab, tab' = [tab EXCEPT ![t] = q],
         NEW d \in F!Draft, draft' = d, DraftOK(d), Held(t, d.channel),
         UNCHANGED <<channels, submitted>>, lost \subseteq lost', lost' \subseteq F!Channels,
         ShapeOK(q), q.phase \in {"idle", "submit"}, q.draft \in {None, d},
         q.tx # None => q.tx = d.signed,
         \A c \in F!Channels : Of(draft, c) => c \in lost' \/ c = d.channel,
         tab[t].tx = None \/ tab[t].tx.channel = d.channel
  PROVE  FundingInv'
<1>1. /\ channels' \in [F!Channels -> {None} \cup
                                      [profile : Profiles, state : F!States, tx : F!Tx]]
      /\ submitted' \subseteq F!Tx /\ F!OnlyFrozenFundingIsSubmitted'
      /\ \A x \in submitted' : channels'[x.channel] # None
      /\ \A c \in F!Channels : channels'[c] = channels[c]
      /\ F!Pending' = F!Pending /\ F!Pending \subseteq F!Channels
      /\ \A x \in F!Tx : Known(x) => Known(x)'
  BY DEF FundingInv, F!TypeOK, F!OnlyFrozenFundingIsSubmitted, F!Pending, F!Opened, Known
<1>2. d # None /\ (q.tx # None => Known(q.tx) /\ q.tx.channel = d.channel)
  BY FundingTypes DEF DraftOK
<1>3. Known(q.tx)' /\ DraftOK(q.draft)' /\ DraftOK(d)'
  BY <1>2 DEF Known, DraftOK
<1>4. /\ q.tx # None => Held(t, q.tx.channel)
      /\ q.draft # None => Held(t, q.draft.channel)
  BY <1>2
<1>5. q.phase = "submit" => Of(d, q.tx.channel)
  BY <1>2 DEF ShapeOK, Of
<1>6. \A c \in F!Pending' :
        (Of(draft, c) => c \in lost' \/ Of(d, c))
          /\ (Of(tab[t].tx, c) => c \in lost' \/ Of(d, c) \/ Of(q.tx, c))
  BY <1>1, <1>2 DEF Of
<1>7. q.phase \notin Preparing
  BY DEF Preparing
<1> QED BY <1>1, <1>3, <1>4, <1>5, <1>6, <1>7, FundingMove

\* A transaction that is stable becomes the draft, and whatever draft was there is lost.
LEMMA StoredInv ==
  ASSUME FundingInv, NEW t \in Tabs, F!storeDraft(t) PROVE FundingInv'
<1>1. /\ tab[t] \in F!Tab /\ tab[t].phase = "prepare" /\ tab[t].profile \in Profiles
      /\ tab[t].tx \in F!Tx /\ Known(tab[t].tx) /\ lost \subseteq F!Channels
  BY FundingTypes
  DEF FundingInv, F!TypeOK, F!storeDraft, ShapeOK, Preparing, F!Tab
<1>2. PICK d \in F!Draft :
        /\ draft' = d /\ d.channel = tab[t].tx.channel /\ d.unsigned = tab[t].tx
        /\ d.signed = None
  BY <1>1 DEF F!storeDraft, F!Draft, F!Tx
<1>3. DraftOK(d)
  BY <1>1, <1>2 DEF DraftOK
<1>4. PICK q \in F!Tab :
        /\ tab' = [tab EXCEPT ![t] = q] /\ ShapeOK(q)
        /\ q.phase \in {"idle", "submit"} /\ q.draft \in {None, d}
        /\ q.tx # None => d # None /\ q.tx = d.signed
  <2>1. PICK kind \in {"node", "funding"}, url \in BOOLEAN : F!Load(t, kind, Default, url)
    BY DEF F!storeDraft
  <2> QED BY <1>2, <2>1, LoadFacts, FundingTypes
<1>5. q.tx = None /\ q.phase = "idle"
  BY <1>2, <1>4 DEF ShapeOK, Preparing
<1>6. /\ UNCHANGED <<channels, submitted>>
      /\ lost \subseteq lost' /\ lost' \subseteq F!Channels
      /\ \A c \in F!Channels : Of(draft, c) => c \in lost'
  BY <1>1 DEF F!storeDraft, F!InDraft, Of, FundingInv, F!TypeOK, F!Draft
<1>7. Held(t, d.channel)
  BY <1>1, <1>2, FundingTypes DEF Held, Of
<1> QED BY <1>2, <1>3, <1>4, <1>5, <1>6, <1>7, DraftMove

\* The draft that the page was rendered with is stored, signed.
LEMMA SignedInv == ASSUME FundingInv, NEW t \in Tabs, F!signed(t) PROVE FundingInv'
<1>1. /\ tab[t] \in F!Tab /\ tab[t].phase = "sign" /\ tab[t].tx = None
      /\ tab[t].draft \in F!Draft /\ tab[t].draft # None /\ DraftOK(tab[t].draft)
      /\ lost \subseteq F!Channels
  BY FundingTypes DEF FundingInv, F!TypeOK, F!signed, ShapeOK, Preparing, F!Tab
<1>2. PICK old \in F!Draft : old = tab[t].draft /\ old.unsigned \in F!Tx
  BY <1>1 DEF F!Draft
<1>3. PICK d \in F!Draft :
        /\ draft' = d /\ d.channel = old.channel /\ d.unsigned = old.unsigned
        /\ d.signed = old.unsigned
  BY <1>2 DEF F!signed, F!assertOnlyWitnessesChanged, F!Draft
<1>4. DraftOK(d)
  BY <1>1, <1>2, <1>3, FundingTypes DEF DraftOK
<1>5. PICK q \in F!Tab :
        /\ tab' = [tab EXCEPT ![t] = q] /\ ShapeOK(q)
        /\ q.phase \in {"idle", "submit"} /\ q.draft \in {None, d}
        /\ q.tx # None => d # None /\ q.tx = d.signed
  <2>1. PICK kind \in {"node", "funding"}, profile \in Profiles, url \in BOOLEAN :
          F!Load(t, kind, profile, url)
    BY <1>1 DEF F!signed, F!Draft
  <2> QED BY <1>3, <2>1, LoadFacts
<1>6. /\ UNCHANGED <<channels, submitted>>
      /\ lost \subseteq lost' /\ lost' \subseteq F!Channels
      /\ \A c \in F!Channels : Of(draft, c) => c \in lost' \/ c = d.channel
  BY <1>1, <1>2, <1>3 DEF F!signed, F!InDraft, Of, FundingInv, F!TypeOK, F!Draft
<1>7. Held(t, d.channel)
  BY <1>1, <1>2, <1>3 DEF Held, Of
<1> QED BY <1>1, <1>3, <1>4, <1>5, <1>6, <1>7, DraftMove

\* The channel that the tab has in its hands stops waiting, and the tab lets it go.
LEMMA SettlesMove ==
  ASSUME FundingInv, NEW t \in Tabs, NEW q \in F!Tab, tab' = [tab EXCEPT ![t] = q],
         NEW c \in F!Channels, Of(tab[t].tx, c),
         NEW channel \in [profile : Profiles, state : F!States, tx : F!Tx],
         channels' = [channels EXCEPT ![c] = channel], channel.state # "pending",
         channel.state # "abandoned" => channel.tx = channels[c].tx /\ channels[c].state # "abandoned",
         NEW d \in F!Draft \cup {None}, draft' = d, d \in {None, draft},
         submitted' \subseteq F!Tx,
         \A x \in submitted' :
           IF x.channel = c THEN channel.tx = x /\ channel.state = "funded" ELSE x \in submitted,
         lost \subseteq lost', lost' \subseteq F!Channels,
         \A e \in F!Channels \ {c} : Of(draft, e) => e \in lost' \/ Of(d, e),
         ShapeOK(q), q.phase \in {"idle", "open"}, q.draft = tab[t].draft
  PROVE  FundingInv'
<1>1. /\ channels[c] # None /\ channels'[c] = channel /\ channel # None
      /\ \A e \in F!Channels \ {c} : channels'[e] = channels[e]
      /\ channels' \in [F!Channels -> {None} \cup
                                      [profile : Profiles, state : F!States, tx : F!Tx]]
  BY FundingTypes DEF FundingInv, F!TypeOK, Known, Of
<1>2. ASSUME NEW x \in F!Tx, Known(x) PROVE Known(x)'
  <2>1. CASE x.channel = c
    BY <1>1, <1>2, <2>1 DEF Known
  <2>2. CASE x.channel # c
    BY <1>1, <1>2, <2>2 DEF Known, F!Tx
  <2> QED BY <2>1, <2>2
<1>3. ASSUME NEW x \in F!Draft \cup {None}, DraftOK(x) PROVE DraftOK(x)'
  <2>1. x # None => x.unsigned \in F!Tx /\ Known(x.unsigned)
    BY <1>3 DEF DraftOK, F!Draft
  <2> QED BY <1>2, <1>3, <2>1 DEF DraftOK
<1>4. q.tx = None /\ q.phase \notin Preparing
  BY SMTT(60) DEF ShapeOK, Preparing
<1>5. /\ Known(q.tx)' /\ DraftOK(q.draft)' /\ DraftOK(d)'
  BY <1>3, <1>4, FundingTypes DEF FundingInv, F!Tab, Known, DraftOK
<1>6. F!Pending' \subseteq F!Pending \ {c} /\ F!Pending \subseteq F!Channels
  BY <1>1 DEF F!Pending, F!Opened
<1>7. /\ F!OnlyFrozenFundingIsSubmitted'
      /\ \A x \in submitted' : channels'[x.channel] # None
  <2> SUFFICES ASSUME NEW x \in submitted'
               PROVE  /\ channels'[x.channel] # None /\ channels'[x.channel].tx = x
                      /\ channels'[x.channel].state = "funded"
    BY DEF F!OnlyFrozenFundingIsSubmitted
  <2>1. CASE x.channel = c
    BY <1>1, <2>1
  <2>2. CASE x.channel # c
    <3>1. x \in submitted /\ x.channel \in F!Channels
      BY <2>2 DEF F!Tx
    <3> QED BY <1>1, <2>2, <3>1 DEF FundingInv, F!OnlyFrozenFundingIsSubmitted
  <2> QED BY <2>1, <2>2
<1>8. /\ q.draft # None => Held(t, q.draft.channel)
      /\ d # None => Held(t, d.channel)
      /\ \A e \in F!Channels : channels'[e] = channels[e] \/ Held(t, e)
  BY <1>1 DEF Held, Of
<1>9. \A e \in F!Pending' :
        (Of(draft, e) => e \in lost' \/ Of(d, e))
          /\ (Of(tab[t].tx, e) => e \in lost' \/ Of(d, e) \/ Of(q.tx, e))
  BY <1>6 DEF Of
<1>10. q.phase # "submit"
  OBVIOUS
<1> QED
  BY <1>1, <1>2, <1>4, <1>5, <1>6, <1>7, <1>8, <1>9, <1>10, FundingMove

\* A channel that is abandoned was never submitted.
LEMMA AbandonedInv == ASSUME FundingInv, NEW t \in Tabs, F!abandonChannel(t) PROVE FundingInv'
<1>1. /\ tab[t] \in F!Tab /\ tab[t].phase \in {"abandon", "giveup"} /\ ShapeOK(tab[t])
      /\ tab[t].tx \in F!Tx /\ PreparingOK(t) /\ tab \in [Tabs -> F!Tab]
  BY FundingTypes
  DEF FundingInv, F!TypeOK, F!abandonChannel, ShapeOK, Preparing, F!Tab
<1>2. PICK c \in F!Channels : c = tab[t].tx.channel /\ Of(tab[t].tx, c)
  BY <1>1, FundingTypes DEF F!Tx, Of
<1>3. PICK channel \in [profile : Profiles, state : F!States, tx : F!Tx] :
        channels' = [channels EXCEPT ![c] = channel] /\ channel.state = "abandoned"
  <2> DEFINE tx == [tab[t].tx EXCEPT !.deps = LockDeps]
             r == [profile |-> Default, state |-> "abandoned", tx |-> tx]
  <2>1. tx \in F!Tx
    BY <1>1, FundingTypes DEF F!Tx
  <2>2. r \in [profile : Profiles, state : F!States, tx : F!Tx] /\ r.state = "abandoned"
    BY <2>1, FundingTypes DEF F!States
  <2>3. channels' = [channels EXCEPT ![c] = r]
    BY <1>2 DEF F!abandonChannel
  <2> QED BY <2>2, <2>3
<1>4. UNCHANGED <<draft, submitted, lost>>
  BY DEF F!abandonChannel
<1>5. PICK q \in F!Tab :
        /\ tab' = [tab EXCEPT ![t] = q] /\ ShapeOK(q) /\ q.phase \in {"idle", "open"}
        /\ q.draft = tab[t].draft
  <2>1. CASE tab' = [tab EXCEPT ![t] = F!Idle(t)]
    BY <2>1, IdleTab DEF ShapeOK, Preparing
  <2>2. CASE /\ tab[t].phase = "abandon" /\ tab[t].attempt + 1 # MaxAttempts
             /\ tab' = [tab EXCEPT ![t] =
                          [tab[t] EXCEPT !.phase = "open", !.attempt = @ + 1, !.tx = None]]
    <3> DEFINE r == [tab[t] EXCEPT !.phase = "open", !.attempt = @ + 1, !.tx = None]
    <3>1. tab[t].attempt + 1 \in 0 .. MaxAttempts - 1
      BY <1>1, <2>2, FundingTypes DEF F!Tab
    <3>2. /\ r \in F!Tab /\ r.phase = "open" /\ r.tx = None /\ r.deps = tab[t].deps
          /\ r.draft = tab[t].draft /\ tab' = [tab EXCEPT ![t] = r]
      BY <1>1, <2>2, <3>1 DEF F!Tab, F!Phases
    <3> HIDE DEF r
    <3> QED BY <1>1, <2>2, <3>2 DEF ShapeOK, Preparing
  <2> QED BY <1>1, <2>1, <2>2 DEF F!abandonChannel
<1>6. PICK d \in F!Draft \cup {None} : d = draft /\ draft' = d
  BY <1>4 DEF FundingInv, F!TypeOK
<1>7. \A x \in submitted : x \in F!Tx /\ x.channel # c
  <2>1. channels[c].state = "pending"
    BY <1>1, <1>2 DEF PreparingOK, Preparing, F!Pending
  <2> QED BY <2>1 DEF FundingInv, F!TypeOK, F!OnlyFrozenFundingIsSubmitted
<1>8. /\ submitted' \subseteq F!Tx /\ lost \subseteq lost' /\ lost' \subseteq F!Channels
      /\ \A x \in submitted' :
           IF x.channel = c THEN channel.tx = x /\ channel.state = "funded" ELSE x \in submitted
      /\ \A e \in F!Channels \ {c} : Of(draft, e) => e \in lost' \/ Of(d, e)
  BY <1>4, <1>6, <1>7 DEF FundingInv, F!TypeOK
<1>9. /\ channel.state # "pending"
      /\ channel.state # "abandoned" =>
           channel.tx = channels[c].tx /\ channels[c].state # "abandoned"
      /\ d \in {None, draft}
  BY <1>3, <1>6
<1>10. tab' = [tab EXCEPT ![t] = q] /\ channels' = [channels EXCEPT ![c] = channel]
  BY <1>3, <1>5
<1> QED BY <1>2, <1>5, <1>6, <1>8, <1>9, <1>10, SettlesMove, ZenonT(60)

\* What the node takes is what it froze, as the channel waits.
LEMMA SubmittedInv ==
  ASSUME FundingInv, NEW t \in Tabs, F!submitSignedFundingTransaction(t) PROVE FundingInv'
<1>1. /\ tab[t] \in F!Tab /\ tab[t].phase = "submit" /\ tab[t].tx \in F!Tx
      /\ Known(tab[t].tx) /\ tab \in [Tabs -> F!Tab]
  BY FundingTypes
  DEF FundingInv, F!TypeOK, F!submitSignedFundingTransaction, ShapeOK, Preparing, F!Tab
<1>2. PICK c \in F!Channels : c = tab[t].tx.channel /\ Of(tab[t].tx, c)
  BY <1>1, FundingTypes DEF F!Tx, Of
<1>3. /\ channels[c].state = "pending" /\ channels[c].tx = tab[t].tx
      /\ channels[c] \in [profile : Profiles, state : F!States, tx : F!Tx]
  BY <1>1, <1>2, FundingTypes DEF F!submitSignedFundingTransaction, Known
<1>4. PICK channel \in [profile : Profiles, state : F!States, tx : F!Tx] :
        /\ channels' = [channels EXCEPT ![c] = channel] /\ channel.state = "funded"
        /\ channel.tx = channels[c].tx
  <2> DEFINE r == [channels[c] EXCEPT !.state = "funded"]
  <2>1. /\ r \in [profile : Profiles, state : F!States, tx : F!Tx] /\ r.state = "funded"
        /\ r.tx = channels[c].tx /\ channels' = [channels EXCEPT ![c] = r]
    BY <1>2, <1>3 DEF F!submitSignedFundingTransaction, F!States, FundingInv, F!TypeOK
  <2> QED BY <2>1
<1>5. PICK q \in F!Tab :
        /\ tab' = [tab EXCEPT ![t] = q] /\ ShapeOK(q) /\ q.phase \in {"idle", "open"}
        /\ q.draft = tab[t].draft
  <2>1. PICK idle \in F!Tab : /\ idle = F!Idle(t) /\ idle.phase = "idle" /\ idle.tx = None
                              /\ idle.draft = tab[t].draft
    BY IdleTab
  <2> DEFINE r == [idle EXCEPT !.url = FALSE]
  <2>2. /\ r \in F!Tab /\ r.phase = "idle" /\ r.tx = None /\ r.draft = tab[t].draft
        /\ tab' = [tab EXCEPT ![t] = r]
    BY <2>1 DEF F!submitSignedFundingTransaction, F!Tab
  <2> HIDE DEF r
  <2> QED BY <2>2 DEF ShapeOK, Preparing
<1>6. PICK d \in F!Draft \cup {None} : d = None /\ draft' = d
  BY DEF F!submitSignedFundingTransaction
<1>7. /\ submitted' = submitted \cup {tab[t].tx} /\ lost' = lost \cup (F!InDraft \ {c})
  BY <1>2 DEF F!submitSignedFundingTransaction
<1>8. \A x \in submitted : x \in F!Tx /\ x.channel # c
  BY <1>3 DEF FundingInv, F!TypeOK, F!OnlyFrozenFundingIsSubmitted
<1>9. /\ submitted' \subseteq F!Tx /\ lost \subseteq lost'
      /\ \A x \in submitted' :
           IF x.channel = c THEN channel.tx = x /\ channel.state = "funded" ELSE x \in submitted
  BY <1>1, <1>2, <1>3, <1>4, <1>7, <1>8
<1>10. /\ lost' \subseteq F!Channels
       /\ \A e \in F!Channels \ {c} : Of(draft, e) => e \in lost' \/ Of(d, e)
  BY <1>7 DEF F!InDraft, Of, FundingInv, F!TypeOK, F!Draft
<1>11. /\ channel.state # "pending"
       /\ channel.state # "abandoned" =>
            channel.tx = channels[c].tx /\ channels[c].state # "abandoned"
       /\ d \in {None, draft}
  BY <1>3, <1>4, <1>6
<1> QED BY <1>2, <1>4, <1>5, <1>6, <1>9, <1>10, <1>11, SettlesMove, ZenonT(60)

LEMMA FundingNextInv == ASSUME FundingInv, F!Next PROVE FundingInv'
<1>1. PICK t \in Tabs :
        \/ F!openChannel(t) \/ F!knownLock(t) \/ F!openChannelWithExternalFunding(t)
        \/ F!openFails(t) \/ F!prepareFails(t) \/ F!coreChanged(t) \/ F!depsChanged(t)
        \/ F!storeDraft(t) \/ F!abandonChannel(t) \/ F!abandonFails(t)
        \/ F!Render(t) \/ F!signFunding(t) \/ F!signed(t) \/ F!signFails(t)
        \/ F!submitSignedFundingTransaction(t) \/ F!submitFails(t) \/ F!Open(t)
  BY DEF F!Next
<1> QED
  BY <1>1, WorksOnInv, EndsInv, OpenInv, OpenedInv, StoredInv, AbandonedInv, SignedInv,
     SubmittedInv

LEMMA FundingInitInv == F!Init => FundingInv
<1> SUFFICES ASSUME F!Init PROVE FundingInv
  OBVIOUS
<1>1. ASSUME NEW t \in Tabs
      PROVE  /\ tab[t] \in F!Tab /\ tab[t].phase = "idle" /\ tab[t].tx = None
             /\ tab[t].draft = None
  <2>1. PICK profile \in Profiles : tab[t] = F!Document("node", profile, FALSE)
    BY DEF F!Init
  <2>2. 0 \in 0 .. MaxAttempts - 1
    BY BrowserNodeAssumption
  <2> QED BY <2>1, <2>2 DEF F!Document, F!Tab, F!Phases
<1>2. F!TypeOK
  BY <1>1 DEF F!Init, F!TypeOK
<1>3. F!Pending = {} /\ submitted = {} /\ draft = None
  BY DEF F!Init, F!Pending, F!Opened
<1> QED
  BY <1>1, <1>2, <1>3
  DEF FundingInv, DraftOK, ShapeOK, Known, PreparingOK, SubmittingOK, Preparing,
      F!OnlyFrozenFundingIsSubmitted, F!NoOrphanWithoutCause

LEMMA FundingStutters == ASSUME FundingInv, UNCHANGED funding PROVE FundingInv'
<1>1. /\ \A x : Known(x)' <=> Known(x)
      /\ \A x : DraftOK(x)' <=> DraftOK(x)
      /\ F!Pending' = F!Pending /\ F!InDraft' = F!InDraft
  BY DEF funding, Known, DraftOK, F!Pending, F!Opened, F!InDraft
<1> QED
  BY <1>1
  DEF funding, FundingInv, F!TypeOK, DraftOK, Known, ShapeOK, PreparingOK, SubmittingOK,
      F!OnlyFrozenFundingIsSubmitted, F!NoOrphanWithoutCause, F!Working, Of

-----------------------------------------------------------------------------
(***************************************************************************)
(* The pages that pay.                                                     *)
(***************************************************************************)

\* What an operation works on is an invoice that the node issued, as far as the page knew
\* that; its order follows that invoice, and what the checkout pays was tried.
PaymentOK(op) ==
  LET issued == op.text \in P!Own /\ invoices[op.text] # "none"
  IN /\ op.phase = "new" => op.kind = "create"
     /\ op.phase \in {"order", "get", "cancel"} => issued
     /\ op.phase = "update" =>
          issued /\ op.status # "none" /\ op.status = P!OrderOf(invoices[op.text])
     /\ op.phase = "attempt" \/ (op.kind = "send" /\ op.related) =>
          issued /\ orders[op.text] # "none"
     /\ op.kind = "checkout" /\ op.phase = "pay" => op.text \in tried

PaymentsInv ==
  /\ P!TypeOK
  /\ \A o \in Ops : PaymentOK(ops[o])
  /\ made # 0 => invoices[made] # "none"
  /\ \A i \in listed : orders[i] # "none"
  /\ P!OrdersFollowTheirInvoice /\ P!PaymentsAreTried

\* Idle operations promise nothing.
LEMMA IdlePays ==
  /\ P!IdleOp \in P!Op /\ P!IdleOp.phase = "idle" /\ P!IdleOp.kind = "orders"
  /\ P!IdleOp.related = FALSE /\ P!IdleOp.text = 0 /\ PaymentOK(P!IdleOp)
  /\ 0 \in P!Texts /\ P!Own \subseteq P!Texts /\ MaxInvoices \in Nat
<1>1. MaxInvoices \in Nat /\ 0 \in P!Texts /\ P!Own \subseteq P!Texts
  BY BrowserNodeAssumption DEF P!Texts, P!Foreign, P!Own
<1>2. /\ P!IdleOp \in P!Op /\ P!IdleOp.phase = "idle" /\ P!IdleOp.kind = "orders"
      /\ P!IdleOp.related = FALSE /\ P!IdleOp.text = 0
  BY <1>1 DEF P!IdleOp, P!Op, P!Kinds, P!Phases, P!OrderStates
<1> QED BY <1>1, <1>2 DEF PaymentOK

LEMMA PaymentsInitInv == P!Init => PaymentsInv
<1> SUFFICES ASSUME P!Init PROVE PaymentsInv
  OBVIOUS
<1>1. \A o \in Ops : ops[o] = P!IdleOp
  BY DEF P!Init
<1>2. P!TypeOK
  <2>1. page \in {"checkout", "merchant", "console"} /\ auth \in BOOLEAN /\ busy \in BOOLEAN
    BY DEF P!Init
  <2>2. made \in 0 .. MaxInvoices /\ listed = {} /\ tried = {} /\ paying = {}
    BY IdlePays DEF P!Init
  <2>3. invoices \in [P!Own -> P!States] /\ orders \in [P!Own -> P!OrderStates]
    BY DEF P!Init, P!States, P!OrderStates
  <2>4. ops \in [Ops -> P!Op]
    BY IdlePays DEF P!Init
  <2>5. built \in BOOLEAN
    BY DEF P!Init
  <2> QED BY <2>1, <2>2, <2>3, <2>4, <2>5 DEF P!TypeOK
<1>3. \A o \in Ops : PaymentOK(ops[o]) /\ ops[o].phase = "idle"
  BY <1>1, IdlePays
<1> QED
  BY <1>2, <1>3 DEF PaymentsInv, P!Init, P!OrdersFollowTheirInvoice, P!PaymentsAreTried

\* What is issued, ordered and tried stays so, and an invoice that an order follows stays
\* as it is.
Grows ==
  /\ \A i \in P!Own :
       /\ invoices[i] # "none" => invoices'[i] # "none"
       /\ orders[i] # "none" => orders'[i] # "none"
       /\ P!OrderOf(invoices[i]) # "none" => invoices'[i] = invoices[i]
  /\ tried \subseteq tried'

LEMMA PaymentLasts ==
  ASSUME Grows, NEW op \in P!Op, PaymentOK(op) PROVE PaymentOK(op)'
BY DEF Grows, PaymentOK

\* An order of an invoice that keeps its state, or gets one that no order follows yet.
LEMMA OrdersLast ==
  ASSUME PaymentsInv, Grows, orders' = orders
  PROVE  \A i \in P!Own :
           /\ orders'[i] # "none" => invoices'[i] # "none"
           /\ orders'[i] = "PAID" => invoices'[i] = "Received"
           /\ orders'[i] = "CANCELLED" => invoices'[i] = "Cancelled"
           /\ orders'[i] = "EXPIRED" => invoices'[i] = "Expired"
BY DEF PaymentsInv, P!OrdersFollowTheirInvoice, Grows, P!OrderOf

\* Every operation stays as it is, or becomes one that the new state allows.
LEMMA PaymentsMove ==
  ASSUME PaymentsInv, ops' \in [Ops -> P!Op],
         \A p \in Ops : ops'[p] = ops[p] \/ PaymentOK(ops[p])',
         Grows, page' = page,
         auth' \in BOOLEAN, busy' \in BOOLEAN, built' \in BOOLEAN,
         invoices' \in [P!Own -> P!States], orders' \in [P!Own -> P!OrderStates],
         tried' \subseteq P!Texts, paying' \subseteq tried',
         made' \in 0 .. MaxInvoices, made' # 0 => invoices'[made'] # "none",
         listed' \subseteq P!Own, \A i \in listed' : orders'[i] # "none",
         \A i \in P!Own :
           /\ orders'[i] # "none" => invoices'[i] # "none"
           /\ orders'[i] = "PAID" => invoices'[i] = "Received"
           /\ orders'[i] = "CANCELLED" => invoices'[i] = "Cancelled"
           /\ orders'[i] = "EXPIRED" => invoices'[i] = "Expired"
  PROVE  PaymentsInv'
<1>2. P!TypeOK'
  BY DEF PaymentsInv, P!TypeOK
<1>3. ASSUME NEW p \in Ops, ops'[p] = ops[p] PROVE PaymentOK(ops[p])'
  <2>1. PICK op \in P!Op : op = ops[p] /\ op = ops'[p]
    BY <1>3
  <2>2. PaymentOK(op)
    BY <2>1 DEF PaymentsInv
  <2>3. PaymentOK(op)'
    BY <2>2, PaymentLasts
  <2> QED BY <2>1, <2>3 DEF PaymentOK
<1>4. \A p \in Ops : ops'[p].phase = "attempt" => orders'[ops'[p].text] # "none"
  BY <1>3 DEF PaymentOK
<1>5. P!OrdersFollowTheirInvoice' /\ P!PaymentsAreTried'
  BY <1>4 DEF P!OrdersFollowTheirInvoice, P!PaymentsAreTried
<1> QED BY <1>2, <1>3, <1>5 DEF PaymentsInv

\* Nothing that is issued or ordered changes.
LEMMA PagesMove ==
  ASSUME PaymentsInv, NEW o \in Ops, NEW q \in P!Op, ops' = [ops EXCEPT ![o] = q],
         PaymentOK(q)', page' = page, made' = made, invoices' = invoices, orders' = orders,
         auth' \in BOOLEAN, busy' \in BOOLEAN, built' \in BOOLEAN,
         tried \subseteq tried', tried' \subseteq P!Texts, paying' \subseteq tried',
         listed' \subseteq {i \in P!Own : orders[i] # "none"}
  PROVE  PaymentsInv'
<1>1. Grows
  BY DEF Grows
<1>2. \A i \in P!Own :
        /\ orders'[i] # "none" => invoices'[i] # "none"
        /\ orders'[i] = "PAID" => invoices'[i] = "Received"
        /\ orders'[i] = "CANCELLED" => invoices'[i] = "Cancelled"
        /\ orders'[i] = "EXPIRED" => invoices'[i] = "Expired"
  BY <1>1, OrdersLast
<1>3. /\ invoices' \in [P!Own -> P!States] /\ orders' \in [P!Own -> P!OrderStates]
      /\ made' \in 0 .. MaxInvoices /\ (made' # 0 => invoices'[made'] # "none")
      /\ listed' \subseteq P!Own /\ \A i \in listed' : orders'[i] # "none"
  BY DEF PaymentsInv, P!TypeOK
<1>4. /\ ops' \in [Ops -> P!Op] /\ ops'[o] = q
      /\ \A p \in Ops \ {o} : ops'[p] = ops[p]
  BY DEF PaymentsInv, P!TypeOK
<1>5. \A p \in Ops : ops'[p] = ops[p] \/ PaymentOK(ops[p])'
  BY <1>4 DEF PaymentOK
<1> QED BY <1>1, <1>2, <1>3, <1>4, <1>5, PaymentsMove

\* A button works on what its page knows: an invoice that it lists has an order.
LEMMA BeginsInv ==
  ASSUME PaymentsInv, NEW o \in Ops, NEW kind \in P!Kinds, NEW text \in P!Texts,
         NEW phase \in {"new", "parse", "get", "cancel", "list", "read", "pay"},
         P!Begin(o, kind, phase, text), kind = "checkout" => phase # "pay",
         phase = "new" => kind = "create",
         phase \in {"get", "cancel"} => text \in P!Own /\ invoices[text] # "none"
  PROVE  PaymentsInv'
<1>1. PICK related \in BOOLEAN :
        related = (/\ page = "merchant" /\ auth /\ (kind = "create" \/ text \in listed))
  BY DEF PaymentsInv, P!TypeOK
<1> DEFINE q == [P!IdleOp EXCEPT !.kind = kind, !.phase = phase, !.mounted = TRUE,
                   !.text = text, !.related = related]
<1>2. /\ ops' = [ops EXCEPT ![o] = q] /\ busy' \in BOOLEAN
      /\ UNCHANGED <<page, auth, made, built, listed, invoices, orders, tried, paying>>
  BY <1>1 DEF P!Begin
<1>3. /\ q \in P!Op /\ q.kind = kind /\ q.phase = phase /\ q.text = text
      /\ q.related = related
  BY IdlePays DEF P!Op, P!Phases
<1> HIDE DEF q
<1>4. kind = "send" /\ related => text \in P!Own /\ orders[text] # "none" /\ invoices[text] # "none"
  BY <1>1 DEF PaymentsInv, P!TypeOK, P!OrdersFollowTheirInvoice
<1>5. PaymentOK(q)
  BY <1>3, <1>4 DEF PaymentOK
<1>6. PaymentOK(q)'
  BY <1>2, <1>5 DEF PaymentOK
<1>7. /\ auth' \in BOOLEAN /\ built' \in BOOLEAN /\ tried \subseteq tried'
      /\ tried' \subseteq P!Texts /\ paying' \subseteq tried'
      /\ listed' \subseteq {i \in P!Own : orders[i] # "none"}
  BY <1>2 DEF PaymentsInv, P!TypeOK, P!PaymentsAreTried
<1> QED BY <1>2, <1>3, <1>6, <1>7, PagesMove

LEMMA PayButtonsInv ==
  ASSUME PaymentsInv, NEW o \in Ops,
         \/ P!createInvoice(o) \/ P!pay(o) \/ P!SendPayment(o) \/ P!inspectInvoice(o)
         \/ P!checkCreatedInvoice(o) \/ P!cancelCreatedInvoice(o) \/ P!refreshOrders(o)
         \/ P!scanResources(o) \/ P!Pay(o) \/ P!buildRoute(o) \/ P!sendRoute(o)
  PROVE  PaymentsInv'
<1>1. PICK kind \in P!Kinds, text \in P!Texts,
           phase \in {"new", "parse", "get", "cancel", "list", "read", "pay"} :
        /\ P!Begin(o, kind, phase, text) /\ (kind = "checkout" => phase # "pay")
        /\ phase = "new" => kind = "create"
        /\ phase \in {"get", "cancel"} => text \in P!Own /\ invoices[text] # "none"
  <2>1. P!NoInvoice \in P!Texts /\ P!Pasted \subseteq P!Texts
    BY IdlePays DEF P!NoInvoice, P!Pasted, P!Own, P!Texts, P!Foreign
  <2>2. made # 0 => made \in P!Texts /\ made \in P!Own /\ invoices[made] # "none"
    BY IdlePays DEF PaymentsInv, P!TypeOK, P!Own, P!Texts, P!Foreign
  <2>3. CASE \/ P!createInvoice(o) \/ P!inspectInvoice(o) \/ P!refreshOrders(o)
             \/ P!scanResources(o) \/ P!Pay(o) \/ P!buildRoute(o) \/ P!sendRoute(o)
    BY <2>1, <2>3
    DEF P!createInvoice, P!inspectInvoice, P!refreshOrders, P!scanResources, P!Pay,
        P!buildRoute, P!sendRoute, P!Kinds
  <2>4. CASE P!pay(o) \/ P!SendPayment(o)
    BY <2>1, <2>4 DEF P!pay, P!SendPayment, P!Kinds
  <2>5. CASE P!checkCreatedInvoice(o) \/ P!cancelCreatedInvoice(o)
    BY <2>2, <2>5 DEF P!checkCreatedInvoice, P!cancelCreatedInvoice, P!Kinds
  <2> QED BY <2>3, <2>4, <2>5
<1> QED BY <1>1, BeginsInv

\* An operation that ends, or goes on, without an invoice or an order that changes.
LEMMA PayAnswersInv ==
  ASSUME PaymentsInv, NEW o \in Ops,
         \/ P!Login(o) \/ P!Fails(o) \/ P!parseInvoice(o) \/ P!readiness(o) \/ P!sendPayment(o)
         \/ P!getInvoice(o) \/ P!ReadNode(o) \/ P!listOrders(o) \/ P!recordAttempt(o)
  PROVE  PaymentsInv'
<1>1. /\ P!TypeOK /\ ops[o] \in P!Op /\ ops[o].text \in P!Texts /\ PaymentOK(ops[o])
      /\ listed \subseteq {i \in P!Own : orders[i] # "none"} /\ paying \subseteq tried
  BY DEF PaymentsInv, P!TypeOK, P!Op, P!PaymentsAreTried
<1>2. PICK q \in P!Op :
        /\ ops' = [ops EXCEPT ![o] = q] /\ PaymentOK(q)'
        /\ UNCHANGED <<page, made, invoices, orders>>
        /\ auth' \in BOOLEAN /\ busy' \in BOOLEAN /\ built' \in BOOLEAN
        /\ tried \subseteq tried' /\ tried' \subseteq P!Texts /\ paying' \subseteq tried'
        /\ listed' \subseteq {i \in P!Own : orders[i] # "none"}
  <2>1. CASE P!Fails(o) \/ P!recordAttempt(o) \/ P!listOrders(o) \/ P!ReadNode(o)
    <3>1. /\ ops' = [ops EXCEPT ![o] = P!IdleOp] /\ busy' \in BOOLEAN
          /\ UNCHANGED <<page, auth, made, invoices, orders, tried, paying>>
          /\ built' \in BOOLEAN /\ listed' \subseteq {i \in P!Own : orders[i] # "none"}
      BY <1>1, <2>1
      DEF P!Fails, P!recordAttempt, P!listOrders, P!ReadNode, P!Ends, P!TypeOK
    <3>2. PaymentOK(P!IdleOp)'
      BY IdlePays DEF PaymentOK
    <3> QED BY <1>1, <3>1, <3>2, IdlePays DEF P!TypeOK
  <2>2. CASE P!Login(o)
    <3> DEFINE r == [P!IdleOp EXCEPT !.phase = "list", !.mounted = TRUE]
    <3>1. /\ r \in P!Op /\ r.phase = "list" /\ r.kind = "orders" /\ r.related = FALSE
      BY IdlePays DEF P!Op, P!Phases
    <3>2. /\ UNCHANGED <<page, busy, made, built, invoices, orders, tried, paying>>
          /\ auth' \in BOOLEAN /\ listed' \subseteq {i \in P!Own : orders[i] # "none"}
          /\ ops' = [ops EXCEPT ![o] = r] \/ ops' = ops
      BY <1>1, <2>2 DEF P!Login
    <3> HIDE DEF r
    <3>3. PaymentOK(r)'
      BY <3>1 DEF PaymentOK
    <3>4. CASE ops' = [ops EXCEPT ![o] = r]
      BY <1>1, <3>1, <3>2, <3>3, <3>4 DEF P!TypeOK
    <3>5. CASE ops' = ops
      <4>1. PICK op \in P!Op : op = ops[o] /\ PaymentOK(op)
        BY <1>1
      <4>2. PaymentOK(op)' /\ ops' = [ops EXCEPT ![o] = op]
        BY <1>1, <3>2, <3>5, <4>1 DEF PaymentOK, P!TypeOK
      <4> QED BY <1>1, <3>2, <4>2 DEF P!TypeOK
    <3> QED BY <3>2, <3>4, <3>5
  <2>3. CASE P!parseInvoice(o) \/ P!readiness(o) \/ P!sendPayment(o)
    <3>1. PICK phase \in {"dry", "pay", "attempt"} :
            /\ \/ ops' = [ops EXCEPT ![o] = P!IdleOp]
               \/ ops' = [ops EXCEPT ![o].phase = phase]
            /\ phase = "attempt" => ops[o].kind = "send" /\ ops[o].related
            /\ phase = "pay" /\ ops[o].kind = "checkout" => ops[o].text \in tried'
            /\ UNCHANGED <<page, auth, made, built, listed, invoices, orders>>
            /\ busy' \in BOOLEAN
            /\ tried \subseteq tried' /\ tried' \subseteq P!Texts /\ paying' \subseteq tried'
      <4>1. CASE P!parseInvoice(o)
        BY <1>1, <4>1 DEF P!parseInvoice, P!Goes, P!Ends, P!TypeOK
      <4>2. CASE P!readiness(o)
        BY <1>1, <4>2 DEF P!readiness, P!Goes, P!Ends, P!TypeOK
      <4>3. CASE P!sendPayment(o)
        <5>1. ops[o].kind = "checkout" => ops[o].text \in tried
          BY <1>1, <4>3 DEF P!sendPayment, PaymentOK
        <5> QED BY <1>1, <4>3, <5>1 DEF P!sendPayment, P!Goes, P!Ends, P!TypeOK
      <4> QED BY <2>3, <4>1, <4>2, <4>3
    <3>2. CASE ops' = [ops EXCEPT ![o] = P!IdleOp]
      <4>1. PaymentOK(P!IdleOp)'
        BY IdlePays DEF PaymentOK
      <4> QED BY <1>1, <3>1, <3>2, <4>1, IdlePays DEF P!TypeOK
    <3>3. CASE ops' = [ops EXCEPT ![o].phase = phase]
      <4>1. PICK r \in P!Op :
              /\ r.phase = phase /\ r.kind = ops[o].kind /\ r.text = ops[o].text
              /\ r.related = ops[o].related /\ ops' = [ops EXCEPT ![o] = r]
        <5> DEFINE r == [ops[o] EXCEPT !.phase = phase]
        <5>1. /\ r \in P!Op
              /\ r.phase = phase /\ r.kind = ops[o].kind /\ r.text = ops[o].text
              /\ r.related = ops[o].related /\ ops' = [ops EXCEPT ![o] = r]
          BY <1>1, <3>3 DEF P!Op, P!Phases, P!TypeOK
        <5> QED BY <5>1
      <4>2. PaymentOK(r)'
        BY <1>1, <3>1, <4>1 DEF PaymentOK
      <4> QED BY <1>1, <3>1, <4>1, <4>2 DEF P!TypeOK
    <3> QED BY <3>1, <3>2, <3>3
  <2>4. CASE P!getInvoice(o)
    <3>1. PICK status : status = P!OrderOf(invoices[ops[o].text])
      OBVIOUS
    <3>2. PICK r : r = IF ops[o].related /\ status # "none"
                       THEN [ops[o] EXCEPT !.phase = "update", !.status = status]
                       ELSE P!IdleOp
      OBVIOUS
    <3>3. /\ ops[o].phase = "get" /\ ops' = [ops EXCEPT ![o] = r]
          /\ UNCHANGED <<page, auth, busy, made, built, listed, invoices, orders, tried, paying>>
      BY <1>1, <2>4, <3>1, <3>2 DEF P!getInvoice, P!fields, P!TypeOK
    <3>4. status \in P!OrderStates
      BY <3>1 DEF P!OrderOf, P!OrderStates
    <3>5. /\ r \in P!Op
          /\ \/ r = P!IdleOp
             \/ /\ r.phase = "update" /\ r.status = status /\ status # "none"
                /\ r.text = ops[o].text /\ r.kind = ops[o].kind /\ r.related = ops[o].related
      BY <1>1, <3>2, <3>4, IdlePays DEF P!Op, P!Phases
    <3>6. PaymentOK(r)
      BY <1>1, <3>1, <3>3, <3>5, IdlePays DEF PaymentOK
    <3>7. PaymentOK(r)'
      BY <3>3, <3>6 DEF PaymentOK
    <3> QED BY <1>1, <3>3, <3>5, <3>7 DEF P!TypeOK
  <2> QED BY <2>1, <2>2, <2>3, <2>4
<1> QED BY <1>2, PagesMove

\* The page is left: what goes on forgets its page only.
LEMMA LeaveInv == ASSUME PaymentsInv, P!Leave PROVE PaymentsInv'
<1>1. /\ P!TypeOK /\ busy' = FALSE /\ made' = 0 /\ built' = FALSE /\ listed' = {}
      /\ UNCHANGED <<page, auth, invoices, orders, tried, paying>>
      /\ ops' = [o \in Ops |-> IF P!Lasting(ops[o]) THEN [ops[o] EXCEPT !.mounted = FALSE]
                               ELSE P!IdleOp]
  BY DEF P!Leave, PaymentsInv
<1>2. ASSUME NEW o \in Ops
      PROVE  /\ ops'[o] \in P!Op
             /\ \/ ops'[o] = P!IdleOp
                \/ /\ ops'[o].phase = ops[o].phase /\ ops'[o].kind = ops[o].kind
                   /\ ops'[o].text = ops[o].text /\ ops'[o].related = ops[o].related
                   /\ ops'[o].status = ops[o].status
  <2>1. ops[o] \in P!Op
    BY <1>1 DEF P!TypeOK
  <2> QED BY <1>1, <2>1, IdlePays DEF P!Op
<1>3. P!TypeOK'
  <2>1. ops' \in [Ops -> P!Op]
    BY <1>1, <1>2
  <2>2. made' \in 0 .. MaxInvoices /\ listed' \subseteq P!Own
    BY <1>1, IdlePays
  <2>3. busy' \in BOOLEAN /\ built' \in BOOLEAN
    BY <1>1
  <2> QED BY <1>1, <2>1, <2>2, <2>3 DEF P!TypeOK
<1>4. ASSUME NEW o \in Ops PROVE PaymentOK(ops[o])'
  <2>1. PaymentOK(ops[o])
    BY DEF PaymentsInv
  <2> QED BY <1>1, <1>2, <2>1, IdlePays DEF PaymentOK
<1>5. \A o \in Ops : ops'[o].phase = "attempt" => orders'[ops'[o].text] # "none"
  BY <1>4 DEF PaymentOK
<1> QED
  BY <1>1, <1>3, <1>4, <1>5 DEF PaymentsInv, P!OrdersFollowTheirInvoice, P!PaymentsAreTried

\* A payment reaches an invoice, or the invoice expires or is cancelled: no order was of
\* that state before.
LEMMA InvoiceMoves ==
  ASSUME PaymentsInv, NEW i \in P!Own, NEW state \in {"Received", "Expired", "Cancelled"},
         invoices[i] = "Open", invoices' = [invoices EXCEPT ![i] = state],
         ops' \in [Ops -> P!Op], \A p \in Ops : ops'[p] = ops[p] \/ ops'[p] = P!IdleOp,
         busy' \in BOOLEAN,
         UNCHANGED <<page, auth, made, built, listed, orders, tried, paying>>
  PROVE  PaymentsInv'
<1>1. P!TypeOK /\ invoices \in [P!Own -> P!States]
  BY DEF PaymentsInv, P!TypeOK
<1>2. /\ invoices' \in [P!Own -> P!States] /\ invoices'[i] = state
      /\ \A j \in P!Own \ {i} : invoices'[j] = invoices[j]
  BY <1>1 DEF P!States
<1>3. Grows
  BY <1>2 DEF Grows, P!OrderOf
<1>4. \A j \in P!Own :
        /\ orders'[j] # "none" => invoices'[j] # "none"
        /\ orders'[j] = "PAID" => invoices'[j] = "Received"
        /\ orders'[j] = "CANCELLED" => invoices'[j] = "Cancelled"
        /\ orders'[j] = "EXPIRED" => invoices'[j] = "Expired"
  BY <1>2 DEF PaymentsInv, P!OrdersFollowTheirInvoice
<1>5. made \in 0 .. MaxInvoices /\ (made # 0 => made \in P!Own)
  BY <1>1, IdlePays DEF P!TypeOK, P!Own
<1>6. made' # 0 => invoices'[made'] # "none"
  BY <1>2, <1>5 DEF PaymentsInv
<1>7. /\ auth' \in BOOLEAN /\ built' \in BOOLEAN /\ made' \in 0 .. MaxInvoices
      /\ orders' \in [P!Own -> P!OrderStates] /\ tried' \subseteq P!Texts
      /\ paying' \subseteq tried' /\ listed' \subseteq P!Own
      /\ \A j \in listed' : orders'[j] # "none"
  BY <1>1 DEF PaymentsInv, P!TypeOK, P!PaymentsAreTried
<1>8. \A p \in Ops : ops'[p] = ops[p] \/ PaymentOK(ops[p])'
  BY IdlePays DEF PaymentOK
<1> QED BY <1>2, <1>3, <1>4, <1>6, <1>7, <1>8, PaymentsMove

LEMMA InvoicesInv ==
  ASSUME PaymentsInv, P!Node \/ \E o \in Ops : P!cancelInvoice(o) PROVE PaymentsInv'
<1>1. P!TypeOK /\ ops \in [Ops -> P!Op]
  BY DEF PaymentsInv, P!TypeOK
<1>2. CASE P!Node
  <2>1. PICK i \in P!Own, state \in {"Received", "Expired", "Cancelled"} :
          invoices[i] = "Open" /\ invoices' = [invoices EXCEPT ![i] = state]
    BY <1>2 DEF P!Node
  <2>2. /\ ops' \in [Ops -> P!Op] /\ \A p \in Ops : ops'[p] = ops[p] \/ ops'[p] = P!IdleOp
        /\ UNCHANGED <<page, auth, busy, made, built, listed, orders, tried, paying>>
        /\ busy' \in BOOLEAN
    BY <1>1, <1>2 DEF P!Node, P!fields, P!TypeOK
  <2> QED BY <2>1, <2>2, InvoiceMoves
<1>3. ASSUME NEW o \in Ops, P!cancelInvoice(o) PROVE PaymentsInv'
  <2>1. PICK i \in P!Own : i = ops[o].text
    BY <1>3 DEF PaymentsInv, PaymentOK, P!cancelInvoice
  <2>2. PICK state \in {"Received", "Expired", "Cancelled"} : state = "Cancelled"
    OBVIOUS
  <2>3. /\ invoices[i] = "Open" /\ invoices' = [invoices EXCEPT ![i] = state]
        /\ ops' = [ops EXCEPT ![o] = P!IdleOp] /\ busy' \in BOOLEAN
        /\ UNCHANGED <<page, auth, made, built, listed, orders, tried, paying>>
    BY <1>3, <2>1, <2>2 DEF P!cancelInvoice, P!Ends
  <2>4. ops' \in [Ops -> P!Op] /\ \A p \in Ops : ops'[p] = ops[p] \/ ops'[p] = P!IdleOp
    BY <1>1, <2>3, IdlePays
  <2> QED BY <2>3, <2>4, InvoiceMoves
<1> QED BY <1>2, <1>3

\* The node issues another invoice: no order and no page knows that one.
LEMMA IssuedInv == ASSUME PaymentsInv, NEW o \in Ops, P!newInvoice(o) PROVE PaymentsInv'
<1>1. /\ P!TypeOK /\ ops[o] \in P!Op /\ ops[o].phase = "new" /\ PaymentOK(ops[o])
  BY DEF PaymentsInv, P!TypeOK, P!newInvoice
<1>2. PICK i \in P!Own :
        /\ invoices[i] = "none" /\ invoices' = [invoices EXCEPT ![i] = "Open"]
        /\ made' = IF ops[o].mounted /\ page # "console" THEN i ELSE made
        /\ IF ops[o].related
           THEN ops' = [ops EXCEPT ![o].phase = "order", ![o].text = i] /\ UNCHANGED busy
           ELSE P!Ends(o)
        /\ UNCHANGED <<page, auth, built, listed, orders, tried, paying>>
  BY DEF P!newInvoice
<1>3. /\ invoices' \in [P!Own -> P!States] /\ invoices'[i] = "Open"
      /\ \A j \in P!Own \ {i} : invoices'[j] = invoices[j]
  BY <1>1, <1>2 DEF P!States, P!TypeOK
<1>4. Grows
  BY <1>2, <1>3 DEF Grows, P!OrderOf
<1>5. \A j \in P!Own :
        /\ orders'[j] # "none" => invoices'[j] # "none"
        /\ orders'[j] = "PAID" => invoices'[j] = "Received"
        /\ orders'[j] = "CANCELLED" => invoices'[j] = "Cancelled"
        /\ orders'[j] = "EXPIRED" => invoices'[j] = "Expired"
  BY <1>2, <1>4, OrdersLast
<1>6. /\ made' \in 0 .. MaxInvoices /\ (made' # 0 => invoices'[made'] # "none")
  BY <1>1, <1>2, <1>3, IdlePays DEF PaymentsInv, P!TypeOK, P!Own
<1>7. PICK q \in P!Op :
        /\ ops' = [ops EXCEPT ![o] = q] /\ busy' \in BOOLEAN
        /\ \/ q = P!IdleOp
           \/ /\ q.phase = "order" /\ q.text = i /\ q.kind = ops[o].kind
              /\ q.related = ops[o].related
  <2>1. CASE ops[o].related
    <3> DEFINE r == [ops[o] EXCEPT !.phase = "order", !.text = i]
    <3>1. /\ r \in P!Op /\ r.phase = "order" /\ r.text = i /\ r.kind = ops[o].kind
          /\ r.related = ops[o].related /\ ops' = [ops EXCEPT ![o] = r] /\ busy' \in BOOLEAN
      BY <1>1, <1>2, <2>1, IdlePays DEF P!Op, P!Phases, P!TypeOK
    <3> QED BY <3>1
  <2>2. CASE ~ops[o].related
    BY <1>2, <2>2, IdlePays DEF P!Ends
  <2> QED BY <2>1, <2>2
<1>8. PaymentOK(q)'
  <2>1. CASE q = P!IdleOp
    BY <2>1, IdlePays DEF PaymentOK
  <2>2. CASE q # P!IdleOp
    <3>1. q.kind = "send" /\ q.related => FALSE
      BY <1>1, <1>7, <2>2 DEF PaymentOK
    <3> QED BY <1>3, <1>7, <2>2, <3>1 DEF PaymentOK
  <2> QED BY <2>1, <2>2
<1> QED
  BY <1>2, <1>3, <1>4, <1>5, <1>6, <1>7, <1>8, PaymentsMove
  DEF PaymentsInv, P!TypeOK, P!PaymentsAreTried

\* The server takes a state for an order that its invoice has.
LEMMA OrderMoves ==
  ASSUME PaymentsInv, NEW o \in Ops, NEW i \in P!Own, NEW status \in P!OrderStates,
         status # "none", invoices[i] # "none",
         status = "PAYMENT_PENDING" \/ status = P!OrderOf(invoices[i]),
         orders' = [orders EXCEPT ![i] = status], P!GoesToList(o),
         UNCHANGED <<page, auth, made, built, listed, invoices, tried, paying>>
  PROVE  PaymentsInv'
<1>1. P!TypeOK /\ ops[o] \in P!Op
  BY DEF PaymentsInv, P!TypeOK
<1>2. /\ orders' \in [P!Own -> P!OrderStates] /\ orders'[i] = status
      /\ \A j \in P!Own \ {i} : orders'[j] = orders[j]
  BY <1>1 DEF P!TypeOK
<1>3. Grows
  BY <1>2 DEF Grows
<1>4. \A j \in P!Own :
        /\ orders'[j] # "none" => invoices'[j] # "none"
        /\ orders'[j] = "PAID" => invoices'[j] = "Received"
        /\ orders'[j] = "CANCELLED" => invoices'[j] = "Cancelled"
        /\ orders'[j] = "EXPIRED" => invoices'[j] = "Expired"
  BY <1>2 DEF PaymentsInv, P!OrdersFollowTheirInvoice, P!OrderOf
<1>5. PICK q \in P!Op :
        /\ ops' = [ops EXCEPT ![o] = q] /\ busy' \in BOOLEAN
        /\ q.phase = "list" /\ q.related = FALSE
  <2> DEFINE r == [P!IdleOp EXCEPT !.kind = ops[o].kind, !.phase = "list",
                                   !.mounted = ops[o].mounted]
  <2>1. /\ r \in P!Op /\ r.phase = "list" /\ r.related = FALSE
        /\ ops' = [ops EXCEPT ![o] = r] /\ busy' \in BOOLEAN
    BY <1>1, IdlePays DEF P!GoesToList, P!Op, P!Phases, P!TypeOK
  <2> QED BY <2>1
<1>6. PaymentOK(q)'
  BY <1>5 DEF PaymentOK
<1>7. /\ ops' \in [Ops -> P!Op] /\ \A p \in Ops : ops'[p] = ops[p] \/ PaymentOK(ops[p])'
  <2>1. ops' \in [Ops -> P!Op] /\ ops'[o] = q /\ \A p \in Ops \ {o} : ops'[p] = ops[p]
    BY <1>1, <1>5 DEF P!TypeOK
  <2> QED BY <1>6, <2>1 DEF PaymentOK
<1>8. /\ auth' \in BOOLEAN /\ built' \in BOOLEAN /\ made' \in 0 .. MaxInvoices
      /\ made' # 0 => invoices'[made'] # "none"
      /\ invoices' \in [P!Own -> P!States] /\ tried' \subseteq P!Texts
      /\ paying' \subseteq tried' /\ listed' \subseteq P!Own
      /\ \A j \in listed' : orders'[j] # "none"
  BY <1>1, <1>2 DEF PaymentsInv, P!TypeOK, P!PaymentsAreTried
<1> QED BY <1>2, <1>3, <1>4, <1>5, <1>7, <1>8, PaymentsMove

LEMMA OrdersInv ==
  ASSUME PaymentsInv, NEW o \in Ops, P!createOrder(o) \/ P!updateStatus(o) PROVE PaymentsInv'
<1>1. PaymentOK(ops[o]) /\ ops[o] \in P!Op
  BY DEF PaymentsInv, P!TypeOK
<1>2. PICK i \in P!Own : i = ops[o].text /\ invoices[i] # "none"
  BY <1>1 DEF PaymentOK, P!createOrder, P!updateStatus
<1>3. PICK status \in P!OrderStates :
        /\ status # "none"
        /\ status = "PAYMENT_PENDING" \/ status = P!OrderOf(invoices[i])
        /\ orders' = [orders EXCEPT ![i] = status] /\ P!GoesToList(o)
        /\ UNCHANGED <<page, auth, made, built, listed, invoices, tried, paying>>
  <2>1. CASE P!createOrder(o)
    BY <1>2, <2>1 DEF P!createOrder, P!OrderStates
  <2>2. CASE P!updateStatus(o)
    BY <1>1, <1>2, <2>2 DEF P!updateStatus, PaymentOK, P!Op
  <2> QED BY <2>1, <2>2
<1> QED BY <1>2, <1>3, OrderMoves

LEMMA PaymentsNextInv == ASSUME PaymentsInv, P!Next PROVE PaymentsInv'
<1>1. CASE P!Leave
  BY <1>1, LeaveInv
<1>2. CASE P!Node
  BY <1>2, InvoicesInv
<1>3. ASSUME NEW o \in Ops,
             \/ P!createInvoice(o) \/ P!pay(o) \/ P!SendPayment(o) \/ P!inspectInvoice(o)
             \/ P!checkCreatedInvoice(o) \/ P!cancelCreatedInvoice(o) \/ P!refreshOrders(o)
             \/ P!scanResources(o) \/ P!Pay(o) \/ P!buildRoute(o) \/ P!sendRoute(o)
      PROVE  PaymentsInv'
  BY <1>3, PayButtonsInv
<1>4. ASSUME NEW o \in Ops,
             \/ P!Login(o) \/ P!Fails(o) \/ P!parseInvoice(o) \/ P!readiness(o)
             \/ P!sendPayment(o) \/ P!getInvoice(o) \/ P!ReadNode(o) \/ P!listOrders(o)
             \/ P!recordAttempt(o)
      PROVE  PaymentsInv'
  BY <1>4, PayAnswersInv
<1>5. ASSUME NEW o \in Ops,
             P!newInvoice(o) \/ P!cancelInvoice(o) \/ P!createOrder(o) \/ P!updateStatus(o)
      PROVE  PaymentsInv'
  BY <1>5, IssuedInv, InvoicesInv, OrdersInv
<1> QED BY <1>1, <1>2, <1>3, <1>4, <1>5 DEF P!Next

LEMMA PaymentsStutter == ASSUME PaymentsInv, UNCHANGED payments PROVE PaymentsInv'
BY DEF payments, PaymentsInv, PaymentOK, P!TypeOK, P!OrdersFollowTheirInvoice,
   P!PaymentsAreTried

-----------------------------------------------------------------------------
(***************************************************************************)
(* The two-node lab.                                                       *)
(***************************************************************************)

\* The answer that is awaited will be of the invoice that is shown; B pays nothing.
LabInv ==
  /\ L!TypeOK
  /\ \A t \in L!Sides :
       L!Waits(t) /\ (t = "A" => ~crossed) => pages[t].text = pages[t].invoice
  /\ pages["B"].payment = 0
  /\ L!AnswersAreOfTheInvoice

LEMMA LabInitInv == L!Init => LabInv
<1> SUFFICES ASSUME L!Init PROVE LabInv
  OBVIOUS
<1>1. MaxShared \in Nat \ {0}
  BY BrowserNodeAssumption
<1>2. L!FreshPage \in L!Page
  BY <1>1 DEF L!FreshPage, L!Page, L!parseSharedInvoice, L!Invoices, L!Foreign
<1>3. \A t \in L!Sides : pages[t] = L!FreshPage
  BY DEF L!Init
<1>4. L!TypeOK
  <2>1. shared \in L!Invoices \cup {L!Broken, None}
    BY <1>1 DEF L!Init, L!Invoices
  <2>2. events \in Seq(L!Invoices)
    <3>1. events = <<>>
      BY DEF L!Init
    <3> QED BY <3>1
  <2>3. pages \in [L!Sides -> L!Page]
    BY <1>2 DEF L!Init
  <2>4. crossed \in BOOLEAN
    BY DEF L!Init
  <2> QED BY <2>1, <2>2, <2>3, <2>4 DEF L!TypeOK
<1> QED
  BY <1>3, <1>4 DEF LabInv, L!Sides, L!Waits, L!AnswersAreOfTheInvoice, L!FreshPage

\* One page becomes q.
LEMMA LabMoves ==
  ASSUME LabInv, NEW t \in L!Sides, NEW q \in L!Page, pages' = [pages EXCEPT ![t] = q],
         crossed' \in BOOLEAN, events' \in Seq(L!Invoices),
         shared' \in L!Invoices \cup {L!Broken, None},
         t = "B" => q.payment = 0 /\ crossed' = crossed,
         (t = "A" => ~crossed') =>
           /\ q.phase \in {"parse", "pay", "get"} => q.text = q.invoice
           /\ q.payment \in {0, q.invoice} /\ q.verification \in {0, q.invoice}
  PROVE  LabInv'
<1>1. /\ pages' \in [L!Sides -> L!Page] /\ pages'[t] = q
      /\ \A u \in L!Sides \ {t} : pages'[u] = pages[u]
  BY DEF LabInv, L!TypeOK
<1>2. L!TypeOK'
  BY <1>1 DEF L!TypeOK
<1>3. t = "A" \/ (t = "B" /\ crossed' = crossed)
  BY DEF L!Sides
<1>4. pages'["B"].payment = 0
  BY <1>1, <1>3 DEF LabInv, L!Sides
<1>5. ASSUME NEW u \in L!Sides, u = "A" => ~crossed'
      PROVE  /\ L!Waits(u)' => pages'[u].text = pages'[u].invoice
             /\ pages'[u].payment \in {0, pages'[u].invoice}
             /\ pages'[u].verification \in {0, pages'[u].invoice}
  <2>1. CASE u = t
    BY <1>1, <1>5, <2>1 DEF L!Waits
  <2>2. CASE u # t
    <3>1. pages'[u] = pages[u] /\ (u = "A" => ~crossed)
      BY <1>1, <1>3, <1>5, <2>2
    <3> QED BY <3>1 DEF LabInv, L!Waits, L!AnswersAreOfTheInvoice
  <2> QED BY <2>1, <2>2
<1> QED BY <1>2, <1>4, <1>5 DEF LabInv, L!AnswersAreOfTheInvoice

LEMMA LabNextInv == ASSUME LabInv, L!Next PROVE LabInv'
<1>1. /\ L!TypeOK /\ MaxShared \in Nat \ {0} /\ "A" \in L!Sides /\ "B" \in L!Sides
      /\ \A t \in L!Sides : pages[t] \in L!Page
      /\ 0 \in 0 .. L!Foreign /\ L!Foreign \in 0 .. L!Foreign
      /\ L!Invoices \subseteq 0 .. L!Foreign
  BY BrowserNodeAssumption DEF LabInv, L!TypeOK, L!Sides, L!Foreign, L!Invoices
<1>2. L!FreshPage \in L!Page
  BY <1>1 DEF L!FreshPage, L!Page, L!parseSharedInvoice
<1>3. \A t \in L!Sides :
        /\ L!Done(pages[t]) \in L!Page /\ L!Done(pages[t]).phase = "idle"
        /\ L!Done(pages[t]).invoice = pages[t].invoice
        /\ L!Done(pages[t]).payment = pages[t].payment
        /\ L!Done(pages[t]).verification = pages[t].verification
  BY <1>1 DEF L!Done, L!Page
<1>4. \A t \in L!Sides : (t = "A" => ~crossed) =>
        /\ L!Waits(t) => pages[t].text = pages[t].invoice
        /\ pages[t].payment \in {0, pages[t].invoice}
        /\ pages[t].verification \in {0, pages[t].invoice}
  BY DEF LabInv, L!AnswersAreOfTheInvoice
<1>5. pages["B"].payment = 0
  BY DEF LabInv
<1>6. CASE L!receive \/ L!Edit
  <2>1. PICK i \in 0 .. L!Foreign :
          /\ pages' = [pages EXCEPT !["A"].invoice = i, !["A"].payment = 0,
                                    !["A"].verification = 0]
          /\ crossed' = L!Waits("A") /\ shared' = shared /\ events' \in Seq(L!Invoices)
    <3>1. CASE L!receive
      <4>1. Head(events) \in L!Invoices /\ Tail(events) \in Seq(L!Invoices)
        BY <1>1, <3>1 DEF L!receive, L!TypeOK
      <4>2. Head(events) \in 0 .. L!Foreign
        BY <1>1, <4>1
      <4> QED BY <3>1, <4>1, <4>2 DEF L!receive
    <3>2. CASE L!Edit
      BY <1>1, <3>2 DEF L!Edit, L!TypeOK
    <3> QED BY <1>6, <3>1, <3>2
  <2> DEFINE q == [pages["A"] EXCEPT !.invoice = i, !.payment = 0, !.verification = 0]
  <2>2. /\ q \in L!Page /\ q.payment = 0 /\ q.verification = 0
        /\ q.phase = pages["A"].phase /\ pages' = [pages EXCEPT !["A"] = q]
    BY <1>1, <2>1 DEF L!Page, L!TypeOK
  <2> HIDE DEF q
  <2>3. crossed' \in BOOLEAN
    BY <2>1 DEF L!Waits
  <2>4. ~crossed' => q.phase \notin {"parse", "pay", "get"}
    <3>1. ~crossed' => ~L!Waits("A")
      BY <2>1
    <3> QED BY <2>2, <3>1 DEF L!Waits
  <2> QED BY <1>1, <2>1, <2>2, <2>3, <2>4, LabMoves, ZenonT(60) DEF L!TypeOK
<1>7. ASSUME NEW t \in L!Sides, L!Leave(t) PROVE LabInv'
  <2> DEFINE q == IF pages[t].phase # "new" THEN L!FreshPage
                  ELSE [L!FreshPage EXCEPT !.phase = "new", !.mounted = FALSE]
  <2>1. /\ q \in L!Page /\ q.payment = 0 /\ q.verification = 0 /\ q.phase \in {"idle", "new"}
        /\ pages' = [pages EXCEPT ![t] = q]
    BY <1>2, <1>7 DEF L!Leave, L!Page, L!FreshPage
  <2> HIDE DEF q
  <2>2. /\ shared' = shared /\ crossed' \in BOOLEAN /\ (t = "B" => crossed' = crossed)
        /\ events' \in Seq(L!Invoices)
    BY <1>1, <1>7 DEF L!Leave, L!TypeOK
  <2> QED BY <1>1, <2>1, <2>2, LabMoves DEF L!TypeOK
<1>8. ASSUME NEW t \in L!Sides, L!execute(t) \/ L!Fails(t) \/ (L!createInvoice /\ t = "B")
      PROVE  LabInv'
  <2>1. PICK q \in L!Page :
          /\ pages' = [pages EXCEPT ![t] = q] /\ UNCHANGED <<shared, events, crossed>>
          /\ q.phase \in {"idle", "new", "read"} /\ q.invoice = pages[t].invoice
          /\ q.payment = pages[t].payment /\ q.verification = pages[t].verification
    <3>1. CASE L!execute(t)
      <4> DEFINE r == [pages[t] EXCEPT !.phase = "read"]
      <4>1. /\ r \in L!Page /\ r.phase = "read" /\ r.invoice = pages[t].invoice
            /\ r.payment = pages[t].payment /\ r.verification = pages[t].verification
            /\ pages' = [pages EXCEPT ![t] = r] /\ UNCHANGED <<shared, events, crossed>>
        BY <1>1, <3>1 DEF L!execute, L!Page, L!TypeOK
      <4> QED BY <4>1
    <3>2. CASE L!createInvoice /\ t = "B"
      <4> DEFINE r == [pages[t] EXCEPT !.phase = "new"]
      <4>1. /\ r \in L!Page /\ r.phase = "new" /\ r.invoice = pages[t].invoice
            /\ r.payment = pages[t].payment /\ r.verification = pages[t].verification
            /\ pages' = [pages EXCEPT ![t] = r] /\ UNCHANGED <<shared, events, crossed>>
        BY <1>1, <3>2 DEF L!createInvoice, L!Page, L!TypeOK
      <4> QED BY <4>1
    <3>3. CASE L!Fails(t)
      <4>1. pages' = [pages EXCEPT ![t] = L!Done(pages[t])] /\ UNCHANGED <<shared, events, crossed>>
        BY <1>1, <3>3 DEF L!Fails, L!TypeOK
      <4> QED BY <1>3, <4>1
    <3> QED BY <1>8, <3>1, <3>2, <3>3
  <2>2. /\ t = "B" => q.payment = 0
        /\ (t = "A" => ~crossed) =>
             q.payment \in {0, q.invoice} /\ q.verification \in {0, q.invoice}
    BY <1>4, <1>5, <2>1
  <2> QED BY <1>1, <2>1, <2>2, LabMoves DEF L!TypeOK
<1>9. CASE L!newInvoice
  <2>1. PICK i \in L!Invoices :
          /\ shared' = i /\ events' = Append(events, i) /\ crossed' = crossed
          /\ pages' = [pages EXCEPT !["B"] =
                         IF @.mounted THEN [L!Done(@) EXCEPT !.invoice = i, !.verification = 0]
                         ELSE L!Done(@)]
    BY <1>9 DEF L!newInvoice
  <2> DEFINE q == IF pages["B"].mounted
                  THEN [L!Done(pages["B"]) EXCEPT !.invoice = i, !.verification = 0]
                  ELSE L!Done(pages["B"])
  <2>2. /\ q \in L!Page /\ q.phase = "idle" /\ q.payment = 0
        /\ q.verification \in {0, q.invoice} /\ pages' = [pages EXCEPT !["B"] = q]
    <3>1. i \in 0 .. L!Foreign
      BY <1>1
    <3>2. pages["B"].verification \in {0, pages["B"].invoice}
      BY <1>1, <1>4
    <3>3. CASE pages["B"].mounted
      <4>1. q = [L!Done(pages["B"]) EXCEPT !.invoice = i, !.verification = 0]
        BY <3>3
      <4>2. PICK d \in L!Page : d = L!Done(pages["B"]) /\ d.phase = "idle" /\ d.payment = 0
        BY <1>1, <1>3, <1>5
      <4>3. q = [d EXCEPT !.invoice = i, !.verification = 0]
        BY <4>1, <4>2
      <4>4. /\ q \in L!Page /\ q.phase = "idle" /\ q.payment = 0 /\ q.verification = 0
        BY <1>1, <3>1, <4>2, <4>3, ZenonT(60) DEF L!Page
      <4>5. pages' = [pages EXCEPT !["B"] = q]
        BY <2>1, <3>3
      <4> QED BY <4>4, <4>5
    <3>4. CASE ~pages["B"].mounted
      BY <1>1, <1>3, <1>5, <2>1, <3>2, <3>4 DEF L!TypeOK
    <3> QED BY <3>3, <3>4
  <2> HIDE DEF q
  <2>3. events' \in Seq(L!Invoices)
    BY <1>1, <2>1 DEF L!TypeOK
  <2> QED BY <1>1, <2>1, <2>2, <2>3, LabMoves DEF L!TypeOK
<1>10. CASE L!sendPayment
  <2> DEFINE q == [pages["A"] EXCEPT !.phase = "parse", !.kind = "send",
                     !.text = pages["A"].invoice, !.payment = 0, !.verification = 0]
  <2>1. /\ q \in L!Page /\ q.payment = 0 /\ q.verification = 0 /\ q.text = q.invoice
        /\ pages' = [pages EXCEPT !["A"] = q]
        /\ crossed' = FALSE /\ UNCHANGED <<shared, events>>
    BY <1>1, <1>10 DEF L!sendPayment, L!Page, L!TypeOK
  <2> HIDE DEF q
  <2> QED BY <1>1, <2>1, LabMoves DEF L!TypeOK
<1>11. ASSUME NEW t \in L!Sides, L!verify(t) PROVE LabInv'
  <2> DEFINE q == [pages[t] EXCEPT !.phase = "parse", !.kind = "verify",
                     !.text = pages[t].invoice, !.verification = 0]
  <2>1. /\ q \in L!Page /\ q.payment = pages[t].payment /\ q.invoice = pages[t].invoice
        /\ q.verification = 0 /\ q.text = q.invoice /\ pages' = [pages EXCEPT ![t] = q]
        /\ UNCHANGED <<shared, events, crossed>>
    BY <1>1, <1>11 DEF L!verify, L!Page, L!TypeOK
  <2> HIDE DEF q
  <2> QED BY <1>1, <1>4, <1>5, <2>1, LabMoves DEF L!TypeOK
<1>12. ASSUME NEW t \in L!Sides, L!resolveInvoice(t) PROVE LabInv'
  <2> DEFINE q == [pages[t] EXCEPT !.invoice = pages[t].text,
                     !.phase = IF pages[t].kind = "send" THEN "pay" ELSE "get"]
  <2>1. /\ q \in L!Page /\ q.payment = pages[t].payment /\ q.invoice = pages[t].text
        /\ q.verification = pages[t].verification /\ q.text = q.invoice
        /\ pages' = [pages EXCEPT ![t] = q] /\ UNCHANGED <<shared, events, crossed>>
    BY <1>1, <1>12, ZenonT(60) DEF L!resolveInvoice, L!Page, L!TypeOK
  <2> HIDE DEF q
  <2>2. L!Waits(t)
    BY <1>12 DEF L!resolveInvoice, L!Waits
  <2> QED BY <1>1, <1>4, <1>5, <2>1, <2>2, LabMoves DEF L!TypeOK
<1>13. CASE L!sendPaymentAdvanced
  <2> DEFINE q == [L!Done(pages["A"]) EXCEPT !.payment = pages["A"].text]
  <2>1. /\ q \in L!Page /\ q.payment = pages["A"].text /\ q.invoice = pages["A"].invoice
        /\ q.verification = pages["A"].verification /\ q.phase = "idle"
        /\ pages' = [pages EXCEPT !["A"] = q] /\ UNCHANGED <<shared, events, crossed>>
    BY <1>1, <1>3, <1>13, ZenonT(60) DEF L!sendPaymentAdvanced, L!Page, L!TypeOK
  <2> HIDE DEF q
  <2>2. L!Waits("A")
    BY <1>13 DEF L!sendPaymentAdvanced, L!Waits
  <2> QED BY <1>1, <1>4, <2>1, <2>2, LabMoves DEF L!TypeOK
<1>14. ASSUME NEW t \in L!Sides, L!Verified(t) PROVE LabInv'
  <2> DEFINE q == [L!Done(pages[t]) EXCEPT !.verification = pages[t].text]
  <2>1. /\ q \in L!Page /\ q.verification = pages[t].text /\ q.invoice = pages[t].invoice
        /\ q.payment = pages[t].payment /\ q.phase = "idle"
        /\ pages' = [pages EXCEPT ![t] = q] /\ UNCHANGED <<shared, events, crossed>>
    BY <1>1, <1>3, <1>14, ZenonT(60) DEF L!Verified, L!Page, L!TypeOK
  <2> HIDE DEF q
  <2>2. L!Waits(t)
    BY <1>14 DEF L!Verified, L!Waits
  <2> QED BY <1>1, <1>4, <1>5, <2>1, <2>2, LabMoves DEF L!TypeOK
<1> QED
  BY <1>1, <1>6, <1>7, <1>8, <1>9, <1>10, <1>11, <1>12, <1>13, <1>14 DEF L!Next

LEMMA LabStutters == ASSUME LabInv, UNCHANGED lab PROVE LabInv'
BY DEF lab, LabInv, L!TypeOK, L!Waits, L!AnswersAreOfTheInvoice

-----------------------------------------------------------------------------
(***************************************************************************)
(* All the parts: each step is of one, and the others keep what they have. *)
(***************************************************************************)

NodeInv == RuntimeInv /\ FundingInv /\ PaymentsInv /\ LabInv

LEMMA NodeInitInv == NodeInit => NodeInv
  BY RuntimeInitInv, FundingInitInv, PaymentsInitInv, LabInitInv DEF NodeInit, NodeInv

LEMMA NodeNextInv == NodeInv /\ [NodeNext]_vars => NodeInv'
<1> SUFFICES ASSUME NodeInv, [NodeNext]_vars PROVE NodeInv'
  OBVIOUS
<1>1. /\ N!Next \/ UNCHANGED node
      /\ F!Next \/ UNCHANGED funding
      /\ P!Next \/ UNCHANGED payments
      /\ L!Next \/ UNCHANGED lab
  BY DEF NodeNext, vars
<1> QED
  BY <1>1, RuntimeNextInv, RuntimeStutters, FundingNextInv, FundingStutters,
     PaymentsNextInv, PaymentsStutter, LabNextInv, LabStutters
  DEF NodeInv

LEMMA NodeInvariant == NodeSpec => []NodeInv
  BY NodeInitInv, NodeNextInv, PTL DEF NodeSpec

\* Whatever the user starts, stops, resets, leaves and reloads, a tab runs one node at most,
\* the one that the runtime knows, with the identity that is stored, and shows that one; the
\* causes of the exceptions are in disturbed.  For every number of operations under way, of
\* nodes and of identities (runtime.ts, FiberRuntimeProvider).
THEOREM OneNodePerTab == NodeSpec => []OneNode
<1>1. NodeInv => OneNode
  BY DEF NodeInv, RuntimeInv, RunningOK, OneNode, N!OneNode
<1> QED
  BY <1>1, NodeInvariant, PTL

\* Whatever the tabs of a browser do with their one draft, a node is handed for a channel
\* the very transaction that it froze for it, and never for one that was abandoned.  For
\* every number of tabs, profiles and channels (assertOnlyWitnessesChanged, submitFunding).
THEOREM FrozenFundingIsSubmitted == NodeSpec => []OnlyFrozenFundingIsSubmitted
<1>1. NodeInv => OnlyFrozenFundingIsSubmitted
  BY DEF NodeInv, FundingInv, OnlyFrozenFundingIsSubmitted
<1> QED
  BY <1>1, NodeInvariant, PTL

\* A channel that waits for its funding is the draft's, or a tab works on it, or it was lost
\* to a request that failed, to a page that was left, or to another tab's draft: the
\* attempts of openChannel leave none behind.
THEOREM OrphansHaveACause == NodeSpec => []NoOrphanWithoutCause
<1>1. NodeInv => NoOrphanWithoutCause
  BY DEF NodeInv, FundingInv, NoOrphanWithoutCause
<1> QED
  BY <1>1, NodeInvariant, PTL

\* An order has the state of its own invoice, however the answers of the node and of the
\* server interleave, and a payment attempt is recorded with an order that there is.  For
\* every number of operations under way and of invoices (MerchantGatewayPage.tsx).
THEOREM OrdersAreOfTheirInvoice == NodeSpec => []OrdersFollowTheirInvoice
<1>1. NodeInv => OrdersFollowTheirInvoice
  BY DEF NodeInv, PaymentsInv, OrdersFollowTheirInvoice
<1> QED
  BY <1>1, NodeInvariant, PTL

\* The lab shows the answers of the invoice that it shows, unless another came while one was
\* awaited, and the checkout pays what its dry run went through for
\* (FiberTwoNodeLabPage.tsx, FiberCheckoutPage.tsx).
THEOREM AnswersFitTheInvoice == NodeSpec => []AnswersAreOfTheInvoice
<1>1. NodeInv => AnswersAreOfTheInvoice
  BY DEF NodeInv, PaymentsInv, LabInv, AnswersAreOfTheInvoice
<1> QED
  BY <1>1, NodeInvariant, PTL
===============================================================================
