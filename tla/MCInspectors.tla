---------------------------- MODULE MCInspectors ----------------------------
(***************************************************************************)
(* The inspectors on small instances.  What those that do not run begin    *)
(* with is pinned.                                                         *)
(***************************************************************************)
EXTENDS Inspectors

\* An identity and its arguments, or what is wrong with them.
MCSsriForms ==
  [text : {1, 2}, defect : {"none"}]
    \cup [text : {1}, defect : {"endpoint", "identity", "arguments"}]

MCRgbppForms ==
  [kind : {"cell", "utxo"}, valid : {TRUE}] \cup [kind : {"utxo"}, valid : {FALSE}]

MCTxHeight == <<1, 3>>

MCIckbFields ==
  [amount : {10, 30}, direction : {"ckb-to-ickb"}, recipient : BOOLEAN]
    \cup [amount : {10, 150}, direction : {"ickb-to-ckb"}, recipient : {FALSE}]

MCInit ==
  /\ InspectorsInit
  /\ inspector # "ssri" => ssriForm = [text |-> 1, defect |-> "none"]
  /\ inspector # "rgbpp" => rgbppForm = [kind |-> "cell", valid |-> TRUE]
  /\ inspector # "ickb" =>
       /\ network = "testnet"
       /\ fields = [amount |-> 10, direction |-> "ckb-to-ickb", recipient |-> FALSE]

MCSpec == MCInit /\ [][InspectorsNext]_inspectors /\ RequestsEnd
=============================================================================
