----------------------------- MODULE Inspectors -----------------------------
(***************************************************************************)
(* The three inspectors, of which the router shows one: SSRI, RGB++, iCKB. *)
(* The state is that of the one that runs; the others stay where they      *)
(* began.                                                                  *)
(***************************************************************************)
EXTENDS Integers

CONSTANTS
  Queries,                                            \* under way or shown
  SsriForms,                                          \* SsriInspector
  RgbppForms, TxHeight, MaxHeight, PageSize, Threshold,            \* RgbppInspector
  IckbFields, Rates, AR0, OCCUPIED, CAP, U64, U128,                \* IckbInspector
  MinDeposit, MaxDeposit, FEE, FEEBASE, CodeCells, MaxReorgs,
  NoValue

\* NoValue is no query and no snapshot; the fee is a part of what is converted; a group
\* lists at least one cell of the code.
ASSUME InspectorsAssumption ==
  /\ NoValue \notin Queries \cup {"page", "evidence"}
  /\ NoValue \notin [network : {"testnet", "mainnet"},
                     header : [branch : {1, 2}, ar : Rates, common : BOOLEAN],
                     fresh : BOOLEAN]
  /\ \A f \in RgbppForms : f.valid \in BOOLEAN
  /\ {1, 2} \subseteq DOMAIN TxHeight /\ \A b \in {1, 2} : TxHeight[b] \in Nat \ {0}
  /\ MaxHeight \in Nat \ {0} /\ PageSize \in Nat /\ Threshold \in Nat
  /\ \A f \in IckbFields :
       /\ f.amount \in Nat /\ f.direction \in {"ckb-to-ickb", "ickb-to-ckb"}
       /\ f.recipient \in BOOLEAN
  /\ Rates \subseteq Nat /\ AR0 \in Nat \ {0} /\ OCCUPIED \in Nat /\ CAP \in Nat \ {0}
  /\ U64 \in Nat /\ U128 \in Nat /\ U64 <= U128
  /\ FEE \in Nat /\ FEEBASE \in Nat \ {0} /\ FEE <= FEEBASE
  /\ CodeCells \in Nat \ {0} /\ MaxReorgs \in Nat

VARIABLES
  inspector,
  ssriForm, ssriActive, ssriBusy, ssriShown, ssriOps,
  rgbppForm, rgbppActive, rgbppBusy, rgbppShown, rgbppOps, bitcoin,
  network, fields, ickbBusy, snapshot, result, error, controller, ickbOps, branch, reorgs

Ssri == INSTANCE SsriInspector
          WITH Forms <- SsriForms, Ops <- Queries, None <- NoValue, form <- ssriForm,
               active <- ssriActive, busy <- ssriBusy, shown <- ssriShown, ops <- ssriOps

Rgbpp == INSTANCE RgbppInspector
           WITH Forms <- RgbppForms, Ops <- Queries, None <- NoValue, form <- rgbppForm,
                active <- rgbppActive, busy <- rgbppBusy, shown <- rgbppShown,
                ops <- rgbppOps, chain <- bitcoin

Ickb == INSTANCE IckbInspector
          WITH Fields <- IckbFields, Ops <- Queries, None <- NoValue, busy <- ickbBusy,
               ops <- ickbOps

ssri == <<ssriForm, ssriActive, ssriBusy, ssriShown, ssriOps>>
rgbpp == <<rgbppForm, rgbppActive, rgbppBusy, rgbppShown, rgbppOps, bitcoin>>
ickb ==
  <<network, fields, ickbBusy, snapshot, result, error, controller, ickbOps, branch, reorgs>>
inspectors == <<inspector, ssri, rgbpp, ickb>>

InspectorsInit ==
  /\ inspector \in {"ssri", "rgbpp", "ickb"}
  /\ Ssri!Init /\ Rgbpp!Init /\ Ickb!Init

InspectorsNext ==
  \/ inspector = "ssri" /\ Ssri!Next /\ UNCHANGED <<inspector, rgbpp, ickb>>
  \/ inspector = "rgbpp" /\ Rgbpp!Next /\ UNCHANGED <<inspector, ssri, ickb>>
  \/ inspector = "ickb" /\ Ickb!Next /\ UNCHANGED <<inspector, ssri, rgbpp>>

\* Every request has a timer, in all three.
RequestsEnd == Ssri!Fairness /\ Rgbpp!Fairness /\ Ickb!Fairness

InspectorsSpec == InspectorsInit /\ [][InspectorsNext]_inspectors /\ RequestsEnd

-----------------------------------------------------------------------------

\* What an inspector shows answers the fields that it shows, whatever was edited,
\* cancelled or asked meanwhile.
ShownAnswersTheForm ==
  /\ Ssri!TypeOK /\ Rgbpp!TypeOK /\ Ickb!TypeOK
  /\ Ssri!ShownAnswersTheForm /\ Rgbpp!ShownAnswersTheForm /\ Ickb!ShownAnswersTheForm

\* The depth that an RGB++ receipt reports is the depth at that moment.
ThresholdIsEarned == Rgbpp!ThresholdIsEarned

\* The rate and the code of an iCKB snapshot are read from chains that its header is in.
SnapshotIsOneChain == Ickb!SnapshotIsOneChain

\* No inspector stays busy.
BusyEnds == Ssri!BusyEnds /\ Rgbpp!BusyEnds /\ Ickb!BusyEnds
=============================================================================
