--------------------------- MODULE MCServerNodes ----------------------------
(***************************************************************************)
(* Small instances for TLC of NebulaChild and MeshNodes.  They have no     *)
(* variable in common: a behaviour is one of either, the other rests.      *)
(***************************************************************************)
EXTENDS NebulaChild, MeshNodes

VARIABLE acting

unionVars == <<acting, vars, meshVars>>

UnionInit ==
    /\ acting \in {"child", "mesh"}
    /\ Init /\ MeshInit

UnionNext ==
    /\ UNCHANGED acting
    /\ \/ /\ acting = "child" /\ Next
          /\ UNCHANGED <<meshVars>>
       \/ /\ acting = "mesh" /\ MeshNext
          /\ UNCHANGED <<vars>>

UnionSpec ==
    /\ UnionInit /\ [][UnionNext]_unionVars
    /\ \/ acting = "child" /\ Fairness
       \/ acting = "mesh" /\ MeshFairness
=============================================================================
