--------------------------- MODULE MCClientUpdate ---------------------------
(* Small instances of ClientUpdate for TLC.                                *)
EXTENDS ClientUpdate, TLC

CONSTANTS older, newer, faulty, p, q

MCBuilds == {older, newer, faulty}
MCVersionOf == older :> 1 @@ newer :> 2 @@ faulty :> 2

MCTwoBuilds == {older, newer}
MCTwoVersions == older :> 1 @@ newer :> 2
=============================================================================
