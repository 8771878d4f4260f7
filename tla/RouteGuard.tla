----------------------------- MODULE RouteGuard -----------------------------
(***************************************************************************)
(* The Route Guard, a PowerShell task of the system account: every two     *)
(* seconds it reads client-state.json, keeps the routes to the lighthouses *)
(* and peers on the physical network, takes the IPv6 default route off the *)
(* P2P interface while a business interface is up, and restarts the Nebula *)
(* service for a newer race or revocation version, or after it changed a   *)
(* route, though for that at most once in 15 seconds.                      *)
(*                                                                         *)
(* What it remembers is lost when the task is registered again, except the *)
(* race version, which it reads back from its status file.  A command that *)
(* throws ends the round.                                                  *)
(***************************************************************************)
EXTENDS Integers, FiniteSets

CONSTANTS
    MaxRequests, \* bound: race or revocation versions of client-state.json
    MaxUpsets    \* bound: changes of the network and of preferences,
                 \* failing commands and restarts

ASSUME GuardAssumption == {MaxRequests, MaxUpsets} \subseteq Nat

VARIABLES
    version,   \* the version client-state.json asks for
    pref,      \* preferredP2PInterface: an interface, or "auto"
    online,    \* an interface with a gateway is up
    business,  \* the preferred business interface is up
    route,     \* the way to a lighthouse: "physical", or "other"
    default6,  \* the P2P interface has its IPv6 default route
    host6,     \* ... and routes to single IPv6 addresses
    round,     \* where the round is, and what it read
    memory,    \* $raceAppliedVersion, $suppressedIPv6Gateway, $lastRestart
    status,    \* route-guard-status.json
    service,   \* the version Nebula's service was last started for
    absent,    \* there is no Nebula service
    upsets,    \* upsets so far
    forgot     \* history: the gateway of a removed default route was lost

guardEnv == <<version, pref, online, business>>
guardNet == <<route, default6, host6>>
nebulaService == <<service, absent>>
guardVars == <<guardEnv, guardNet, round, memory, status, nebulaService,
               upsets, forgot>>

NoRound == [at |-> "asleep", pref |-> "auto", business |-> FALSE, wanted |-> 0,
            changed |-> FALSE]
Fresh(v) == [applied |-> v, gateway |-> FALSE, recent |-> FALSE]

Upset(k) == upsets + k <= MaxUpsets /\ upsets' = upsets + k

-----------------------------------------------------------------------------
(* The client and the machine.                                             *)

\* The client has written Nebula's config and then the version: see
\* NetworkSettings and RevocationSync.
Requested ==
    /\ version < MaxRequests /\ version' = version + 1
    /\ UNCHANGED <<pref, online, business, guardNet, round, memory, status,
                   nebulaService, upsets, forgot>>

PreferenceSet(p) ==
    /\ Upset(1) /\ p # pref /\ pref' = p
    /\ UNCHANGED <<version, online, business, guardNet, round, memory, status,
                   nebulaService, forgot>>

NetworkChanges ==
    /\ Upset(1)
    /\ \/ online' = ~online /\ UNCHANGED business
       \/ business' = ~business /\ UNCHANGED online
    /\ UNCHANGED <<version, pref, guardNet, round, memory, status, nebulaService,
                   forgot>>

\* A proxy or a TUN adapter takes the way over.
Hijacked ==
    /\ Upset(1) /\ route = "physical" /\ route' = "other"
    /\ UNCHANGED <<guardEnv, default6, host6, round, memory, status, nebulaService,
                   forgot>>

\* Nebula's service is removed, or installed, which starts it.
ServiceChanges ==
    /\ Upset(1) /\ absent' = ~absent
    /\ service' = IF absent THEN version ELSE service
    /\ UNCHANGED <<guardEnv, guardNet, round, memory, status, forgot>>

\* Fifteen seconds are over.
CooldownEnds ==
    /\ memory.recent /\ memory' = [memory EXCEPT !.recent = FALSE]
    /\ UNCHANGED <<guardEnv, guardNet, round, status, nebulaService, upsets, forgot>>

-----------------------------------------------------------------------------
(* A round.                                                                *)

RoundReads ==
    /\ round.at = "asleep"
    /\ round' = [NoRound EXCEPT !.at = "read", !.pref = pref,
                                !.business = business, !.wanted = version]
    /\ UNCHANGED <<guardEnv, guardNet, memory, status, nebulaService, upsets,
                   forgot>>

\* Get-PhysicalIPv6Route: the P2P interface has IPv6 as long as a default
\* route, a host route, a neighbour or the guard's memory shows a gateway.
Physical6 == default6 \/ host6 \/ memory.gateway

\* Mutant: the remembered gateway is not used to put the route back.
DefaultByHostRoute(ok) ==
    LET suppress == round.business /\ round.pref # "auto" /\ Physical6
        restore == ~round.business /\ round.pref # "auto" /\ ~default6
                   /\ host6
    IN  /\ round.at = "read"
        /\ Upset(IF ok THEN 0 ELSE 1)
        /\ default6' = IF suppress /\ ok THEN FALSE
                       ELSE IF restore /\ ok THEN TRUE ELSE default6
        /\ memory' = [memory EXCEPT !.gateway = @ \/ (suppress /\ default6)]
        /\ round' = [round EXCEPT !.at = "default"]
        /\ UNCHANGED <<guardEnv, route, host6, status, nebulaService, forgot>>

\* The default route is noted and taken off, or put back by memory or by the
\* gateway of a host route.  Both commands fail silently.
DefaultRoute(ok) ==
    LET suppress == round.business /\ round.pref # "auto" /\ Physical6
        restore == ~round.business /\ round.pref # "auto" /\ ~default6
                   /\ (memory.gateway \/ host6)
    IN  /\ round.at = "read"
        /\ Upset(IF ok THEN 0 ELSE 1)
        /\ default6' = IF suppress /\ ok THEN FALSE
                       ELSE IF restore /\ ok THEN TRUE ELSE default6
        /\ memory' = [memory EXCEPT !.gateway = @ \/ (suppress /\ default6)]
        /\ round' = [round EXCEPT !.at = "default"]
        /\ UNCHANGED <<guardEnv, route, host6, status, nebulaService, forgot>>

\* Save-GuardStatus, which ends a round.
Saved(mode) ==
    /\ status' = [mode |-> mode, applied |-> memory'.applied]
    /\ round' = NoRound

\* No interface has a gateway, or New-NetRoute throws.
RoutesGivenUp ==
    /\ round.at = "default"
    /\ \/ ~online /\ UNCHANGED upsets
       \/ online /\ Upset(1)
    /\ UNCHANGED memory
    /\ Saved(IF online THEN "error" ELSE "no_physical_gateway")
    /\ UNCHANGED <<guardEnv, guardNet, nebulaService, forgot>>

\* Mutant: a route that exists is left as it is.
RoutesOnlyAdded ==
    /\ round.at = "default" /\ online
    /\ host6' \in {host6, host6 \/ Physical6}
    /\ round' = [round EXCEPT !.at = "routes"]
    /\ UNCHANGED <<guardEnv, route, default6, memory, status, nebulaService, upsets,
                   forgot>>

\* Each target's route is put on the physical gateway; IPv6 targets, if there
\* are any, get host routes.
RoutesRepaired ==
    /\ round.at = "default" /\ online
    /\ route' = "physical"
    /\ host6' \in {host6, host6 \/ Physical6}
    /\ round' = [round EXCEPT !.at = "routes",
                              !.changed = route = "other" \/ host6' # host6]
    /\ UNCHANGED <<guardEnv, default6, memory, status, nebulaService, upsets,
                   forgot>>

\* The service is restarted, or the command throws.  A route that changed
\* within the 15 seconds is forgotten with the round.  Without a service the
\* versions count as applied.
Restart(ok) ==
    LET newer == round.wanted > memory.applied
        due == newer \/ (round.changed /\ ~memory.recent)
        restart == due /\ ~absent
    IN  /\ round.at = "routes"
        /\ ok \/ restart
        /\ Upset(IF ok THEN 0 ELSE 1)
        /\ service' = IF restart /\ ok THEN version ELSE service
        /\ memory' = IF due /\ ok
                     THEN [memory EXCEPT !.applied = round.wanted,
                                         !.recent = @ \/ restart]
                     ELSE memory
        /\ Saved(IF ok THEN "guarding" ELSE "error")
        /\ UNCHANGED <<guardEnv, guardNet, absent, forgot>>

\* The task is stopped and started again, at any point of a round.
TaskRestarts ==
    /\ Upset(1)
    /\ memory' = Fresh(status.applied)
    /\ round' = NoRound
    /\ forgot' = (forgot \/ (~default6 /\ memory.gateway))
    /\ UNCHANGED <<guardEnv, guardNet, status, nebulaService>>

-----------------------------------------------------------------------------
GuardInit ==
    /\ version = 0 /\ pref \in {"auto", "p2p"} /\ online = TRUE
    /\ business \in BOOLEAN
    /\ route \in {"physical", "other"} /\ default6 = TRUE /\ host6 = FALSE
    /\ round = NoRound /\ memory = Fresh(0)
    /\ status = [mode |-> "not_installed", applied |-> 0]
    /\ service = 0 /\ absent = FALSE /\ upsets = 0 /\ forgot = FALSE

Rounds ==
    \/ RoundReads \/ RoutesGivenUp \/ RoutesRepaired
    \/ \E ok \in BOOLEAN : DefaultRoute(ok) \/ Restart(ok)

GuardNext ==
    \/ Rounds
    \/ Requested \/ NetworkChanges \/ Hijacked \/ ServiceChanges
    \/ CooldownEnds \/ TaskRestarts
    \/ \E p \in {"auto", "p2p"} : PreferenceSet(p)

\* The task runs for good.
GuardFairness == WF_guardVars(Rounds)

GuardSpec == GuardInit /\ [][GuardNext]_guardVars
GuardFairSpec == GuardSpec /\ GuardFairness

-----------------------------------------------------------------------------
\* Types; and the status file never runs ahead of the guard, which runs ahead
\* of the version the service was started for only while there is no service.
GuardTypeOK ==
    /\ route \in {"physical", "other"}
    /\ round.at \in {"asleep", "read", "default", "routes"}
    /\ status.mode \in {"not_installed", "guarding", "error",
                        "no_physical_gateway"}
    /\ status.applied <= memory.applied
    /\ memory.applied <= service \/ absent
    /\ round.wanted <= version /\ service <= version

\* As long as there is a physical network, a route that was taken over is
\* put back, and the service, if there is one, is restarted for every version.
GuardKeepsUp ==
    <>[]online => /\ []<>(route = "physical")
                  /\ <>[](service >= version \/ absent)

\* The IPv6 default route comes back once the business interface is gone,
\* unless the guard was restarted while it was off.
DefaultReturns ==
    <>[](~business /\ pref = "p2p" /\ ~forgot) => <>[]default6
=============================================================================
