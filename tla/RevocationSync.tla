--------------------------- MODULE RevocationSync ---------------------------
(***************************************************************************)
(* How the revocation list travels: from the server (RevocationLedger) to  *)
(* the Windows clients, in the replies to heartbeats and rekey commits,    *)
(* and to the Linux child nodes, pushed every 15 seconds.                  *)
(*                                                                         *)
(* A receiver keeps an envelope only when its version is greater than its  *)
(* own.  A client writes the list to Nebula's config, then the version to  *)
(* client-state.json, which the Route Guard polls to restart the service.  *)
(* A child node does the same in one handler, which restarts Nebula after  *)
(* it has released its lock.  Any envelope ever signed may arrive at any   *)
(* time, again, or never.                                                  *)
(*                                                                         *)
(* /api/pair and the identity repair load client-state.json, talk to the   *)
(* server and write the config and the file back: a long handler.          *)
(***************************************************************************)
EXTENDS RevocationLedger

CONSTANTS Clients,  \* Windows clients
          Nodes     \* child nodes

ASSUME SyncAssumption == Clients \cap Nodes = {}

VARIABLES
    saved,     \* version and list in the state file of a client or node
    known,     \* the version and list a node's process holds
    config,    \* the blocklist in Nebula's config, of a client or node
    service,   \* the Nebula process of a client or node
    requested, \* a client's Route Guard: $requestedSecurityVersion
    applied,   \* a client's Route Guard: $securityAppliedVersion
    long,      \* the long handler of a client and the state it loaded
    handlers,  \* versions a node's handlers stored and will restart Nebula for
    regressed  \* history: a long handler of the client wrote an older list

clientVars == <<requested, applied, long, regressed>>
nodeVars == <<known, handlers>>
syncVars == <<saved, config, service, clientVars, nodeVars>>
ledgerVars == vars
allVars == <<ledgerVars, syncVars>>

Receivers == Clients \cup Nodes
NewList == [ver |-> 0, list |-> {}]
NoHandler == [step |-> "none", state |-> NewList]

-----------------------------------------------------------------------------
(* A Windows client.                                                       *)

\* Mutant: whatever arrives last is kept.
ApplyAnyEnvelope(c, e, out) ==
    /\ e # saved[c]
    /\ config' = [config EXCEPT ![c] = e.list]
    /\ saved' = [saved EXCEPT ![c] = IF out = "lost" THEN @ ELSE e]
    /\ UNCHANGED <<service, clientVars, nodeVars>>

\* applyRevocationEnvelope: the config first, then the state file.
ApplyEnvelope(c, e, out) ==
    /\ e.ver > saved[c].ver
    /\ config' = [config EXCEPT ![c] = e.list]
    /\ saved' = [saved EXCEPT ![c] = IF out = "lost" THEN @ ELSE e]
    /\ UNCHANGED <<service, clientVars, nodeVars>>

\* The Route Guard begins a round: it reads client-state.json.
GuardReads(c) ==
    /\ requested' = [requested EXCEPT ![c] = saved[c].ver]
    /\ UNCHANGED <<saved, config, service, applied, long, regressed, nodeVars>>

\* Mutant: the version counts as applied, the service is left alone.
GuardOnlyNotes(c) ==
    /\ requested[c] > applied[c]
    /\ applied' = [applied EXCEPT ![c] = requested[c]]
    /\ UNCHANGED <<saved, config, service, requested, long, regressed, nodeVars>>

\* It saw a greater version: it restarts or starts the service, or finds
\* none; either way the version counts as applied.
GuardApplies(c) ==
    /\ requested[c] > applied[c]
    /\ \E p \in {Running(config[c])} \cup ({service[c]} \cap {Stopped}) :
          service' = [service EXCEPT ![c] = p]
    /\ applied' = [applied EXCEPT ![c] = requested[c]]
    /\ UNCHANGED <<saved, config, requested, long, regressed, nodeVars>>

\* The guard's task starts again; it does not remember what it applied.
GuardRestarts(c) ==
    /\ requested' = [requested EXCEPT ![c] = 0]
    /\ applied' = [applied EXCEPT ![c] = 0]
    /\ UNCHANGED <<saved, config, service, long, regressed, nodeVars>>

\* The service is started, restarted or stopped by someone else.
ServiceStarts(c) ==
    /\ service' = [service EXCEPT ![c] = Running(config[c])]
    /\ UNCHANGED <<saved, config, clientVars, nodeVars>>

ServiceStops(c) ==
    /\ service' = [service EXCEPT ![c] = Stopped]
    /\ UNCHANGED <<saved, config, clientVars, nodeVars>>

-----------------------------------------------------------------------------
(* The long handlers of a client, repairIdentity and POST /api/pair.       *)

LongLoads(c) ==
    /\ long[c].step = "none"
    /\ long' = [long EXCEPT ![c] = [step |-> "loaded", state |-> saved[c]]]
    /\ UNCHANGED <<saved, config, service, requested, applied, regressed, nodeVars>>

\* Nebula's config is rendered from the state that was loaded.
LongWritesConfig(c) ==
    /\ long[c].step = "loaded"
    /\ config' = [config EXCEPT ![c] = long[c].state.list]
    /\ regressed' = [regressed EXCEPT ![c] = @ \/ saved[c].ver # long[c].state.ver]
    /\ long' = [long EXCEPT ![c].step = "written"]
    /\ UNCHANGED <<saved, service, requested, applied, nodeVars>>

\* client-state.json is saved; a repair whose commit fails then writes both
\* back once more.
LongSaves(c, rollback) ==
    /\ long[c].step = "written"
    /\ saved' = [saved EXCEPT ![c] = long[c].state]
    /\ regressed' = [regressed EXCEPT ![c] = @ \/ saved[c].ver # long[c].state.ver]
    /\ long' = [long EXCEPT ![c] = IF rollback THEN [@ EXCEPT !.step = "loaded"]
                                   ELSE NoHandler]
    /\ UNCHANGED <<config, service, requested, applied, nodeVars>>

\* It fails, or the client process ends.
LongEnds(c) ==
    /\ long[c].step # "none"
    /\ long' = [long EXCEPT ![c] = NoHandler]
    /\ UNCHANGED <<saved, config, service, requested, applied, regressed, nodeVars>>

-----------------------------------------------------------------------------
(* A child node: POST /v1/node/revocations.                                *)

\* Mutant: the config is written with a newer list only.
NodeReceivesOnce(n, e, out) ==
    LET newer == e.ver > known[n].ver
        s == IF newer THEN e ELSE known[n]
    IN  /\ out # "ok" => newer
        /\ known' = [known EXCEPT ![n] = s]
        /\ config' = [config EXCEPT ![n] = IF newer /\ out # "conf" THEN s.list ELSE @]
        /\ saved' = [saved EXCEPT ![n] =
                       IF newer /\ out \notin {"conf", "lost"} THEN s ELSE @]
        /\ handlers' = [handlers EXCEPT ![n] =
                          IF out = "ok" /\ newer THEN @ \cup {e.ver} ELSE @]
        /\ UNCHANGED <<service, clientVars>>

\* Under stateMu: memory, the config, the state file, in this order.  Nebula
\* is restarted afterwards, and only if the list or the config changed.
NodeReceives(n, e, out) ==
    LET newer == e.ver > known[n].ver
        s == IF newer THEN e ELSE known[n]
        changed == newer \/ config[n] # s.list
    IN  /\ out = "conf" => changed
        /\ out \in {"lost", "late"} => newer
        /\ known' = [known EXCEPT ![n] = s]
        /\ config' = [config EXCEPT ![n] = IF out = "conf" THEN @ ELSE s.list]
        /\ saved' = [saved EXCEPT ![n] =
                       IF newer /\ out \notin {"conf", "lost"} THEN s ELSE @]
        /\ handlers' = [handlers EXCEPT ![n] =
                          IF out = "ok" /\ changed THEN @ \cup {e.ver} ELSE @]
        /\ UNCHANGED <<service, clientVars>>

\* startNebula, outside the lock.  It may fail, and when two were at work a
\* process may be left that later ones do not know of (NebulaChild).
NodeRestartsNebula(n, v) ==
    /\ v \in handlers[n]
    /\ handlers' = [handlers EXCEPT ![n] = @ \ {v}]
    /\ \E p \in {Running(config[n]), service[n], Stopped} :
          service' = [service EXCEPT ![n] = p]
    /\ UNCHANGED <<saved, config, known, clientVars>>

NodeNebulaExits(n) ==
    /\ service[n].running
    /\ service' = [service EXCEPT ![n] = Stopped]
    /\ UNCHANGED <<saved, config, known, handlers, clientVars>>

\* The agent stops and starts: it loads its state and starts Nebula with the
\* config it finds.
NodeRestarts(n) ==
    /\ known' = [known EXCEPT ![n] = saved[n]]
    /\ service' = [service EXCEPT ![n] = Running(config[n])]
    /\ handlers' = [handlers EXCEPT ![n] = {}]
    /\ UNCHANGED <<saved, config, clientVars>>

-----------------------------------------------------------------------------

SyncInit ==
    /\ Init
    /\ saved = [r \in Receivers |-> NewList]
    /\ known = [n \in Nodes |-> NewList]
    /\ config = [r \in Receivers |-> {}]
    /\ service = [r \in Receivers |-> Running({})]
    /\ requested = [c \in Clients |-> 0]
    /\ applied = [c \in Clients |-> 0]
    /\ long = [c \in Clients |-> NoHandler]
    /\ regressed = [c \in Clients |-> FALSE]
    /\ handlers = [n \in Nodes |-> {}]

ClientStep(c) ==
    \/ \E e \in sent, out \in Outcomes \cap {"ok", "lost"} : ApplyEnvelope(c, e, out)
    \/ GuardReads(c)
    \/ GuardApplies(c)
    \/ GuardRestarts(c)
    \/ ServiceStarts(c)
    \/ ServiceStops(c)
    \/ LongLoads(c)
    \/ LongWritesConfig(c)
    \/ \E rollback \in BOOLEAN : LongSaves(c, rollback)
    \/ LongEnds(c)

NodeStep(n) ==
    \/ \E e \in sent, out \in Outcomes \cap {"ok", "conf", "lost", "late"} :
          NodeReceives(n, e, out)
    \/ \E v \in handlers[n] : NodeRestartsNebula(n, v)
    \/ NodeNebulaExits(n)
    \/ NodeRestarts(n)

SyncNext ==
    \/ Next /\ UNCHANGED syncVars
    \/ \E c \in Clients : ClientStep(c) /\ UNCHANGED ledgerVars
    \/ \E n \in Nodes : NodeStep(n) /\ UNCHANGED ledgerVars

SyncSpec == SyncInit /\ [][SyncNext]_allVars

\* systemd starts the server again.  Clients send heartbeats every ten seconds
\* and the server pushes its list to the nodes every fifteen, for ever, so
\* that the list is signed and the current one received again and again; a
\* server that is up, or a receiver that can take the list, infinitely often
\* does so in the end although it may crash or fail in between.
Fairness ==
    /\ WF_allVars(Serve /\ UNCHANGED syncVars)
    /\ SF_allVars(Work("ok", TRUE) /\ UNCHANGED syncVars)
    /\ \A c \in Clients :
          SF_allVars(\E e \in sent \cap {mem} :
                        ApplyEnvelope(c, e, "ok") /\ UNCHANGED ledgerVars)
    /\ \A n \in Nodes :
          SF_allVars(\E e \in sent \cap {mem} :
                        NodeReceives(n, e, "ok") /\ UNCHANGED ledgerVars)

FairSpec == SyncSpec /\ Fairness

-----------------------------------------------------------------------------
(* Properties.                                                             *)

\* Type invariant of the receivers; a node never saved more than it knows.
SyncTypeOK ==
    /\ saved \in [Receivers -> Envelopes]
    /\ known \in [Nodes -> Envelopes]
    /\ config \in [Receivers -> SUBSET Fingerprints]
    /\ service \in [Receivers -> [running : BOOLEAN, list : SUBSET Fingerprints]]
    /\ requested \in [Clients -> Nat]
    /\ applied \in [Clients -> Nat]
    /\ long \in [Clients -> [step : {"none", "loaded", "written"}, state : Envelopes]]
    /\ regressed \in [Clients -> BOOLEAN]
    /\ handlers \in [Nodes -> SUBSET Nat]
    /\ \A n \in Nodes : saved[n].ver <= known[n].ver

\* A client or node that holds the server's version, or one the server has not
\* reached, holds every fingerprint the server has revoked: comparing versions
\* is enough.  A crash that discards a revocation breaks it.
VersionMeansList ==
    ~forgot => \A r \in Receivers :
        saved[r].ver >= mem.ver => mem.list \subseteq saved[r].list

Regressed(r) == r \in Clients /\ regressed[r]

\* A late, repeated or reordered envelope never takes a fingerprint away from
\* the list a client or node has saved.
ListsNeverShrink ==
    [][~forgot => \A r \in Receivers :
          ~Regressed(r)' => saved[r].list \subseteq saved'[r].list]_allVars

\* The config Nebula will load blocks whatever the state file next to it says
\* is revoked, so a client or node that stops between its two writes still
\* starts with the list it counts as received.
ConfigHoldsSavedList ==
    ~forgot => \A r \in Receivers :
        ~Regressed(r) => saved[r].list \subseteq config[r]

\* When the Route Guard has applied the version in the state file, the service
\* it guards runs with at least that list, whoever restarted it last.
GuardedServiceUpToDate ==
    ~forgot => \A c \in Clients :
        /\ ~regressed[c]
        /\ applied[c] >= saved[c].ver
        /\ service[c].running
        => saved[c].list \subseteq service[c].list

\* A revocation answered with 200 reaches Nebula's config on every client and
\* node, whatever failed on the way, unless a crash made the server forget
\* another one or a long handler of the client wrote an older list.
RevocationReachesEveryone ==
    \A f \in Fingerprints, r \in Receivers :
        (f \in acked) ~> (f \in config[r] \/ forgot \/ Regressed(r))

-----------------------------------------------------------------------------
(* What the application says of the list, and the code does not keep.      *)

\* "Joined to the network-wide revocation list": a client whose version is
\* not behind the server's has every fingerprint whose revocation the server
\* answered with 200.
CurrentClientsHaveAcked ==
    \A c \in Clients : saved[c].ver >= mem.ver => acked \subseteq saved[c].list

\* "Version X, applied on this machine Y": when the applied version is the
\* one in the state file, the running service has loaded that list.
AppliedVersionIsLoaded ==
    ~forgot => \A c \in Clients :
        /\ long[c].step = "none"
        /\ applied[c] >= saved[c].ver
        /\ requested[c] = saved[c].ver
        /\ service[c].running
        => saved[c].list \subseteq service[c].list
=============================================================================
