---- MODULE SessionProofs ----
(* The parts of a session together, as they are checked: what is proved of each   *)
(* part holds of them together, for every value of the constants.                 *)
EXTENDS MCSessionParts, SessionServiceProofs, SessionPartsProofs, ToolProofs, SessionHistoryProofs

(* A behaviour of the parts together is one of each part: they share no variable, *)
(* and each starts in one of its initial states.                                  *)
THEOREM PartsAreTheComponents ==
    PartSpec => TuiSpec /\ ReqSpec /\ AuthSpec /\ BgtSpec /\ WfSpec /\ FmSpec /\ HistSpec
<1>1. PartInit => TuiInit /\ ReqInit /\ AuthInit /\ BgtInit /\ WfInit /\ FmInit /\ HistInit
  BY SMTT(60) DEF PartInit
<1>2. [PartNext]_partVars =>
          /\ [TuiNext]_allVars /\ [ReqNext]_reqVars /\ [AuthNext]_authVars /\ [BgtNext]_bgtVars
          /\ [WfNext]_wfVars /\ [FmNext]_fmVars /\ [HistNext]_histVars
  BY DEF PartNext, partVars
<1> QED
  BY <1>1, <1>2, PTL DEF PartSpec, TuiSpec, ReqSpec, AuthSpec, BgtSpec, WfSpec, FmSpec, HistSpec

(* Whichever part a behaviour is about, its state is well typed.                  *)
THEOREM PartsTypeCorrect == SingleProcess => (PartSpec => []PartsTypeOK)
<1> SUFFICES ASSUME SingleProcess PROVE PartSpec => []PartsTypeOK
  OBVIOUS
<1>1. TuiTypeOK /\ ReqTypeOK /\ AuthTypeOK /\ BgtTypeOK /\ WfTypeOK /\ FmTypeOK /\ HistTypeOK => PartsTypeOK
  BY DEF PartsTypeOK
<1> QED
  BY <1>1, PartsAreTheComponents, TuiTypeCorrect, ReqTypeCorrect, AuthTypeCorrect, BgtTypeCorrect,
     WfTypeCorrect, FmTypeCorrect, HistTypeCorrect, PTL
====
