-------------------------- MODULE MCClientServices --------------------------
(***************************************************************************)
(* Small instances for TLC of Portmap and ClientUpdate.  They have no      *)
(* variable in common: a behaviour is one of either, the other rests.      *)
(***************************************************************************)
EXTENDS Portmap, MCClientUpdate

VARIABLE acting

unionVars == <<acting, vars, updVars>>

UnionInit ==
    /\ acting \in {"portmap", "update"}
    /\ Init /\ UpdInit
    /\ (acting # "update" => ~autoUpdate)

UnionNext ==
    /\ UNCHANGED acting
    /\ \/ /\ acting = "portmap" /\ Next
          /\ UNCHANGED <<updVars>>
       \/ /\ acting = "update" /\ UpdNext
          /\ UNCHANGED <<vars>>

UnionSpec ==
    /\ UnionInit /\ [][UnionNext]_unionVars
    /\ \/ acting = "portmap" /\ Fairness
       \/ acting = "update" /\ UpdFairness
=============================================================================
