---------------------------- MODULE MCBrowserNode ----------------------------
(***************************************************************************)
(* The Fiber side of the portal on small instances.  What the parts that   *)
(* do not run begin with is pinned, and a tab is not followed further once *)
(* it is disturbed.                                                        *)
(***************************************************************************)
EXTENDS BrowserNode

\* No hop, one, two, a hop twice, the payee.
MCHopLists == {<<>>, <<"r">>, <<"r", "s">>, <<"r", "r">>, <<"b">>}

MCInit ==
  /\ NodeInit
  /\ route # "node" => stored = None
  /\ route # "funding" => \A t \in Tabs : tab[t].profile = Default
  /\ route # "payments" => page = "console"
  /\ route # "lab" => shared = None

MCNext == ~disturbed /\ NodeNext

MCSpec == MCInit /\ [][MCNext]_vars
=============================================================================
