-------------------------- MODULE MCClientSettings --------------------------
(***************************************************************************)
(* Small instances for TLC of NetworkSettings, RouteGuard and AIPlans.     *)
(* They have no variable in common: a behaviour is one of any of them, the *)
(* others rest.  No liveness is asked of NetworkSettings.                  *)
(***************************************************************************)
EXTENDS NetworkSettings, RouteGuard, MCAIPlans

VARIABLE acting

unionVars == <<acting, settingsVars, guardVars, aiVars>>

UnionInit ==
    /\ acting \in {"settings", "guard", "ai"}
    /\ SettingsInit /\ GuardInit /\ AIInit
    /\ (acting # "guard" =>
          pref = "auto" /\ ~business /\ route = "physical")
    /\ (acting # "ai" => held = key)

UnionNext ==
    /\ UNCHANGED acting
    /\ \/ /\ acting = "settings" /\ SettingsNext
          /\ UNCHANGED <<guardVars, aiVars>>
       \/ /\ acting = "guard" /\ GuardNext
          /\ UNCHANGED <<settingsVars, aiVars>>
       \/ /\ acting = "ai" /\ AINext
          /\ UNCHANGED <<settingsVars, guardVars>>

UnionSpec ==
    /\ UnionInit /\ [][UnionNext]_unionVars
    /\ \/ acting = "guard" /\ GuardFairness
       \/ acting = "ai" /\ AIFairness
=============================================================================
