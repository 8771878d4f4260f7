-------------------------- MODULE MCServerRecords ---------------------------
(***************************************************************************)
(* Small instances for TLC of StateFile and AccessControl.  They have no   *)
(* variable in common: a behaviour is one of either, the other rests.      *)
(***************************************************************************)
EXTENDS StateFile, AccessControl

VARIABLE acting

unionVars == <<acting, fileVars, accessVars>>

UnionInit ==
    /\ acting \in {"file", "access"}
    /\ FileInit /\ AccessInit
    /\ (acting # "access" => guarded = {})

UnionNext ==
    /\ UNCHANGED acting
    /\ \/ /\ acting = "file" /\ FileNext
          /\ UNCHANGED <<accessVars>>
       \/ /\ acting = "access" /\ AccessNext
          /\ UNCHANGED <<fileVars>>

UnionSpec ==
    /\ UnionInit /\ [][UnionNext]_unionVars
    /\ \/ acting = "file" /\ FileFairness
       \/ acting = "access" /\ AccessFairness
=============================================================================
