---------------------------- MODULE MCReceivers -----------------------------
(***************************************************************************)
(* A small instance of RevocationSync for TLC: the server and one of its   *)
(* receivers, a client or a child node, while the others rest.  Receivers  *)
(* do not talk to each other.                                              *)
(***************************************************************************)
EXTENDS RevocationSync

VARIABLE receiver

oneVars == <<allVars, receiver>>

OneInit == SyncInit /\ receiver \in Receivers

OneNext ==
    /\ \/ Next /\ UNCHANGED syncVars
       \/ receiver \in Clients /\ ClientStep(receiver) /\ UNCHANGED ledgerVars
       \/ receiver \in Nodes /\ NodeStep(receiver) /\ UNCHANGED ledgerVars
    /\ UNCHANGED receiver

\* What Fairness of RevocationSync asks, of the receiver at work.
Receives ==
    \E e \in sent \cap {mem} :
        /\ \/ receiver \in Clients /\ ApplyEnvelope(receiver, e, "ok")
           \/ receiver \in Nodes /\ NodeReceives(receiver, e, "ok")
        /\ UNCHANGED ledgerVars

OneFairSpec ==
    /\ OneInit /\ [][OneNext]_oneVars
    /\ WF_allVars(Serve /\ UNCHANGED syncVars)
    /\ SF_allVars(Work("ok", TRUE) /\ UNCHANGED syncVars)
    /\ SF_allVars(Receives)

\* RevocationReachesEveryone of RevocationSync: a revocation answered with 200
\* reaches Nebula's config of the client or node at work, whatever failed on
\* the way, unless a crash made the server forget another one or a long
\* handler of the client wrote an older list.
RevocationReachesReceiver ==
    \A f \in Fingerprints :
        (f \in acked) ~> (f \in config[receiver] \/ forgot
                                                \/ Regressed(receiver))
=============================================================================
