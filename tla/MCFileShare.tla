---------------------------- MODULE MCFileShare ----------------------------
(***************************************************************************)
(* Small instances of FileShare for TLC.  A behaviour is of one of three   *)
(* kinds: downloads of one share, with only the loop to serve and one      *)
(* heartbeat at a time; one share with all syncers and heartbeats out of   *)
(* order; or more shares than the server takes, and no faults.             *)
(***************************************************************************)
EXTENDS FileShare

CONSTANT Only  \* the share of a behaviour that has one

VARIABLE kind

kindVars == <<shareVars, kind>>

KindInit == ShareInit /\ kind \in {"downloads", "mail", "shares"}

LoopOnly == \A y \in Syncers \ {Loop} : sync'[y] = "idle"

KindNext ==
    /\ ShareNext
    /\ UNCHANGED kind
    /\ kind # "mail" => LoopOnly /\ Cardinality(mail') <= 1
    /\ kind # "downloads" => UNCHANGED transfer
    /\ kind = "shares" => UNCHANGED faults
    /\ kind # "shares" => \A s \in Shares \ {Only} :
          content'[s] = "none" /\ s \in known'

KindSpec == KindInit /\ [][KindNext]_kindVars /\ ShareFairness
=============================================================================
