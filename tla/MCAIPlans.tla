----------------------------- MODULE MCAIPlans ------------------------------
(* Small instances of AIPlans for TLC.                                     *)
EXTENDS AIPlans, TLC

CONSTANTS plan1, plan2

MCActionsOf == plan1 :> 1 @@ plan2 :> 2
=============================================================================
