--------------------------- MODULE NetworkSettings ---------------------------
(***************************************************************************)
(* The network settings of a Windows client: the handlers of the page that *)
(* change one, apply it and put it back if that fails; the loop that knows *)
(* the network the machine is in and restores the interfaces chosen there; *)
(* and the requests for a race of IPv4 against IPv6, which the Route Guard *)
(* answers with a restart of the Nebula service (RouteGuard).              *)
(*                                                                         *)
(* All share client-state.json and Nebula's config.  These hold stateMu;   *)
(* but a page handler takes the lock for each of its steps, and between    *)
(* them asks for elevation and waits up to 90 seconds.  An identity repair *)
(* and a pairing do not: they write both from a copy of the state that     *)
(* they loaded before they asked the server, seconds ago.                  *)
(***************************************************************************)
EXTENDS Integers, FiniteSets

CONSTANTS
    Calls,      \* bound: calls of the page's handlers, each made once
    Kinds,      \* "mode": ip-mode, "force": nat/mode, "prefs": interfaces
    Networks,   \* fingerprints of networks
    Interfaces, \* names of network interfaces, and "auto"
    Relays,     \* lighthouses that may be the preferred relay
    Unset,
    MaxRaces,   \* bound: race requests
    MaxTrouble, \* bound: failing writes, commands and waits, restarts, copies
    MaxMoves,   \* bound: changes of network, relay and switches, copies
    MaxCopies   \* bound: identity repairs and pairings, one at a time

ASSUME SettingsAssumption ==
    /\ Kinds \subseteq {"mode", "force", "prefs"}
    /\ {MaxRaces, MaxTrouble, MaxMoves, MaxCopies} \subseteq Nat

VARIABLES
    file,      \* client-state.json
    conf,      \* Nebula's config; its race is that of the state it is from
    loaded,    \* the config the Nebula service runs with
    applied,   \* Route Guard: raceAppliedVersion
    call,      \* where each handler of the page stands
    here,      \* the network the machine is in
    seen,      \* a change of network the loop has noticed and not yet saved
    trouble,   \* faults so far
    moves,     \* moves so far
    copy,      \* the repair or pairing under way, with its copy of the state
               \* and the config it may put back
    answered   \* history: by kind, the value last answered with 200 if no
               \* other call of that kind, and no repair or pairing, was at
               \* work meanwhile or since

settingsEnv == <<here, trouble, moves>>
settingsVars == <<file, conf, loaded, applied, call, seen, copy, answered,
                  settingsEnv>>

Values(k) == IF k = "mode" THEN {"dual", "single"}
             ELSE IF k = "force" THEN BOOLEAN ELSE Interfaces

\* renderClientConfig: of the settings, those Nebula knows.
Render(s) == [mode |-> s.mode, force |-> s.force, relay |-> s.relay,
              race |-> s.race]

NotCalled == [step |-> "idle", kind |-> Unset, value |-> Unset, old |-> Unset,
              race |-> 0, net |-> Unset, alone |-> FALSE]
NoCopy(n) == [nth |-> n, step |-> "none", state |-> Unset, conf |-> Unset]
AtWork(c) == call[c].step \notin {"idle", "done"}

At(c, step) == [call EXCEPT ![c].step = step]
Troubled(k) == trouble + k <= MaxTrouble /\ trouble' = trouble + k
Moved == moves < MaxMoves /\ moves' = moves + 1

\* Under stateMu the config is written and then the state.  Either may fail.
WritesBoth(s, out) ==
    /\ conf' = IF out = "neither" THEN conf ELSE Render(s)
    /\ file' = IF out = "ok" THEN s ELSE file
    /\ Troubled(IF out = "ok" THEN 0 ELSE 1)

Outcomes == {"ok", "unsaved", "neither"}

-----------------------------------------------------------------------------
(* POST /api/settings/ip-mode, /api/nat/mode and /api/settings/interfaces. *)

\* The value to go back to is read without the lock.
CallBegins(c, k, v) ==
    /\ call[c].step = "idle"
    /\ call' = [d \in Calls |->
                  IF d # c
                  THEN [call[d] EXCEPT !.alone = @ /\ call[d].kind # k]
                  ELSE [NotCalled EXCEPT
                          !.step = "asked", !.kind = k, !.value = v,
                          !.old = file[k],
                          !.alone = copy.step = "none" /\
                              \A e \in Calls \ {c} :
                                  AtWork(e) => call[e].kind # k]]
    /\ answered' = [answered EXCEPT ![k] = Unset]
    /\ UNCHANGED <<file, conf, loaded, applied, seen, copy, settingsEnv>>

\* setIPMode, setForceP2P, setInterfacePreferences: the state with the value.
\* The interfaces become those of the network the state knows to be in.
With(s, k, v) ==
    IF k = "mode" /\ v # "dual"
    THEN [s EXCEPT !.mode = v, !.auto = FALSE, !.follow = FALSE]
    ELSE IF k = "prefs" /\ s.net # Unset
    THEN [s EXCEPT !.prefs = v, !.scenes[s.net] = v]
    ELSE [s EXCEPT ![k] = v]

CallSaves(c, ok) ==
    LET k == call[c].kind IN
    /\ call[c].step = "asked"
    /\ file' = IF ok THEN With(file, k, call[c].value) ELSE file
    /\ call' = [call EXCEPT ![c].step = IF ok THEN "saved" ELSE "done",
                            ![c].net = file.net]
    /\ Troubled(IF ok THEN 0 ELSE 1)
    /\ UNCHANGED <<conf, loaded, applied, seen, here, moves, answered, copy>>

\* The race applyNATOptimization waits for, if the automation is on.
Confirmed == IF file.auto /\ file.mode = "dual" THEN file.race ELSE 0

\* Mutant: the config is not rendered again.
ConfigKept(c, ok) ==
    /\ call[c].step = "saved"
    /\ call' = [call EXCEPT ![c].step = IF ok THEN "ready" ELSE "failed",
                            ![c].race = Confirmed]
    /\ Troubled(IF ok THEN 0 ELSE 1)
    /\ UNCHANGED <<file, conf, loaded, applied, seen, here, moves,
                   answered, copy>>

\* ensureOptimizedClientConfig, in setIPMode or setForceP2P and again in
\* applyNATOptimization.  A failure of the first is answered with 500 and
\* nothing is put back.
ConfigEnsured(c, ok) ==
    /\ call[c].step = "saved"
    /\ conf' = IF ok THEN Render(file) ELSE conf
    /\ \E next \in IF ok THEN {"ready"}
                   ELSE IF call[c].kind = "prefs" THEN {"failed"}
                   ELSE {"failed", "done"} :
          call' = [call EXCEPT ![c].step = next, ![c].race = Confirmed]
    /\ Troubled(IF ok THEN 0 ELSE 1)
    /\ UNCHANGED <<file, loaded, applied, seen, here, moves, answered, copy>>

\* The elevated script restarts the service; it may be refused, or fail
\* afterwards.
CallRestarts(c, out) ==
    /\ call[c].step = "ready"
    /\ loaded' = IF out = "refused" THEN loaded ELSE conf
    /\ call' = At(c, IF out = "ok" THEN "waiting" ELSE "failed")
    /\ Troubled(IF out = "ok" THEN 0 ELSE 1)
    /\ UNCHANGED <<file, conf, applied, seen, here, moves, answered, copy>>

\* It waits until the Route Guard reports the race.
CallAnswers(c) ==
    /\ call[c].step = "waiting" /\ applied >= call[c].race
    /\ call' = At(c, "done")
    /\ answered' = IF call[c].alone
                   THEN [answered EXCEPT ![call[c].kind] = call[c].value]
                   ELSE answered
    /\ UNCHANGED <<file, conf, loaded, applied, seen, copy, settingsEnv>>

CallGivesUp(c) ==
    /\ call[c].step = "waiting"
    /\ Troubled(1)
    /\ call' = At(c, "failed")
    /\ UNCHANGED <<file, conf, loaded, applied, seen, here, moves,
                   answered, copy>>

\* The old value is set again, as the state is now; what that returns is
\* ignored.  The automation is not switched on again.
CallReverts(c, ok) ==
    /\ call[c].step = "failed"
    /\ file' = IF ok THEN With(file, call[c].kind, call[c].old) ELSE file
    /\ call' = At(c, IF ok /\ call[c].kind # "prefs" THEN "reverted" ELSE "done")
    /\ Troubled(IF ok THEN 0 ELSE 1)
    /\ UNCHANGED <<conf, loaded, applied, seen, here, moves, answered, copy>>

RevertEnsured(c, ok) ==
    /\ call[c].step = "reverted"
    /\ conf' = IF ok THEN Render(file) ELSE conf
    /\ call' = At(c, "done")
    /\ Troubled(IF ok THEN 0 ELSE 1)
    /\ UNCHANGED <<file, loaded, applied, seen, here, moves, answered, copy>>

-----------------------------------------------------------------------------
(* The automation: networks, races, relays.                                *)

Race(s) == [s EXCEPT !.race = @ + 1]

\* observeNetworkScene, every five seconds: compared without the lock.
SceneSeen ==
    /\ seen = Unset /\ here # file.net
    /\ seen' = here
    /\ UNCHANGED <<file, conf, loaded, applied, call, answered, copy,
                   settingsEnv>>

\* A new network learns the present interfaces; a known one brings its own.
Entered(s, n) ==
    LET known == s.scenes[n] # Unset
        t == [s EXCEPT !.net = n,
                       !.scenes[n] = IF known THEN @ ELSE s.prefs,
                       !.prefs = IF known /\ s.follow THEN s.scenes[n] ELSE @]
    IN  IF s.auto /\ s.mode = "dual" THEN Race(t) ELSE t

SceneEntered(out) ==
    /\ seen # Unset /\ seen' = Unset
    /\ IF seen = file.net
       THEN out = "ok" /\ UNCHANGED <<file, conf, trouble>>
       ELSE file.race < MaxRaces /\ WritesBoth(Entered(file, seen), out)
    /\ UNCHANGED <<loaded, applied, call, here, moves, answered, copy>>

\* deleteNetworkScene.
SceneDeleted(n) ==
    /\ Moved
    /\ file.scenes[n] # Unset
    /\ file' = [file EXCEPT !.scenes[n] = Unset,
                            !.net = IF @ = n THEN Unset ELSE @]
    /\ UNCHANGED <<conf, loaded, applied, call, seen, here, trouble,
                   answered, copy>>

\* setNetworkAutomation: refused unless the mode is "dual".
AutomationSet(on, scenes, out) ==
    LET s == [file EXCEPT !.auto = on, !.follow = scenes]
        turnedOn == on /\ ~file.auto
    IN  /\ Moved
        /\ (on \/ scenes) => file.mode = "dual"
        /\ IF turnedOn
           THEN file.race < MaxRaces /\ WritesBoth(Race(s), out)
           ELSE out = "ok" /\ file' = s /\ UNCHANGED <<conf, trouble>>
        /\ UNCHANGED <<loaded, applied, call, seen, here, answered, copy>>

\* requestDualStackRace: the quality was bad three times in a row, and the
\* last request is two minutes old.
RaceRequested(out) ==
    /\ file.auto /\ file.mode = "dual" /\ file.race < MaxRaces
    /\ WritesBoth(Race(file), out)
    /\ UNCHANGED <<loaded, applied, call, seen, here, moves, answered, copy>>

\* optimizeRelaySelection, after probes: another relay is better.
RelayChosen(r, out) ==
    LET s == [file EXCEPT !.relay = r]
    IN  /\ Moved /\ r # file.relay /\ file.race < MaxRaces
        /\ WritesBoth(IF file.force THEN s ELSE Race(s), out)
        /\ UNCHANGED <<loaded, applied, call, seen, here, answered, copy>>

-----------------------------------------------------------------------------
(* The writers of an old copy: repairIdentity and POST /api/pair.  The     *)
(* answers that stand are forgotten when one starts.                       *)

\* The state is loaded, by a pairing without stateMu.
CopyTaken ==
    /\ Troubled(1) /\ Moved
    /\ copy.step = "none" /\ copy.nth < MaxCopies
    /\ copy' = [nth |-> copy.nth + 1, step |-> "loaded", state |-> file,
                conf |-> Unset]
    /\ call' = [c \in Calls |-> [call[c] EXCEPT !.alone = FALSE]]
    /\ answered' = [k \in Kinds |-> Unset]
    /\ UNCHANGED <<file, conf, loaded, applied, seen, here>>

\* The server has answered: the config is read, to be put back, and rendered
\* from the copy.  Until here, either may simply fail.
CopyConfigWritten ==
    /\ copy.step = "loaded"
    /\ copy' = [copy EXCEPT !.step = "written", !.conf = conf]
    /\ conf' = Render(copy.state)
    /\ UNCHANGED <<file, loaded, applied, call, seen, answered, settingsEnv>>

\* The copy becomes the file.  A handler that holds stateMu and loaded the
\* file before may write its own over that of a pairing.
CopySaved ==
    /\ copy.step = "written"
    /\ file' \in {file, copy.state}
    /\ copy' = [copy EXCEPT !.step = "saved"]
    /\ UNCHANGED <<conf, loaded, applied, call, seen, answered, settingsEnv>>

\* It fails.  A repair then puts the config and the state back, whatever
\* those writes return; the writes are one step here.
CopyFails ==
    /\ copy.step \in {"loaded", "written", "saved"}
    /\ IF copy.step = "loaded" THEN UNCHANGED <<file, conf>>
       ELSE conf' \in {conf, copy.conf} /\ file' \in {file, copy.state}
    /\ copy' = NoCopy(copy.nth)
    /\ UNCHANGED <<loaded, applied, call, seen, answered, settingsEnv>>

\* It succeeds: a new revocation list, or the pairing, renders the config
\* from the file, and the service is restarted, if that is allowed.
CopyEnds ==
    /\ copy.step = "saved"
    /\ conf' \in {conf, Render(file)} /\ loaded' \in {loaded, conf'}
    /\ copy' = NoCopy(copy.nth)
    /\ UNCHANGED <<file, applied, call, seen, answered, settingsEnv>>

CopyNext == CopyTaken \/ CopyConfigWritten \/ CopySaved \/ CopyFails \/ CopyEnds

-----------------------------------------------------------------------------
(* The Route Guard, as far as races go, and the machine.                   *)

\* The guard's round, as far as races go: the service is restarted, or
\* started, and the version counts as applied.
RaceApplied ==
    /\ file.race > applied
    /\ applied' = file.race
    /\ loaded' = conf
    /\ UNCHANGED <<file, conf, call, seen, answered, copy, settingsEnv>>

\* Someone restarts the service, or the machine starts again.
ServiceReloads ==
    /\ Troubled(1)
    /\ loaded' = conf
    /\ UNCHANGED <<file, conf, applied, call, seen, here, moves,
                   answered, copy>>

Moves(n) ==
    /\ Moved
    /\ here' = n /\ n # here
    /\ UNCHANGED <<file, conf, loaded, applied, call, seen, trouble,
                   answered, copy>>

\* The client ends and starts, which ensures the config: calls are given up.
ClientRestarts ==
    /\ Troubled(1)
    /\ call' = [c \in Calls |-> IF call[c].step = "idle" THEN NotCalled
                                ELSE [call[c] EXCEPT !.step = "done"]]
    /\ seen' = Unset
    /\ conf' = Render(file)
    /\ copy' = NoCopy(copy.nth)
    /\ UNCHANGED <<file, loaded, applied, here, moves, answered>>

-----------------------------------------------------------------------------
\* Paired and at home: the first network has been learned.
SettingsInit ==
    LET home == CHOOSE n \in Networks : TRUE
        first == CHOOSE i \in Interfaces : TRUE
    IN
    /\ file = [mode |-> "dual", force |-> TRUE, prefs |-> first, net |-> home,
               auto |-> TRUE, follow |-> TRUE, race |-> 0,
               relay |-> CHOOSE r \in Relays : TRUE,
               scenes |-> [n \in Networks |-> IF n = home THEN first ELSE Unset]]
    /\ here = home
    /\ conf = Render(file) /\ loaded = conf
    /\ applied = 0
    /\ call = [c \in Calls |-> NotCalled] /\ seen = Unset
    /\ trouble = 0 /\ moves = 0
    /\ copy = NoCopy(0)
    /\ answered = [k \in Kinds |-> Unset]

CallNext(c) ==
    \/ \E k \in Kinds : \E v \in Values(k) : CallBegins(c, k, v)
    \/ \E ok \in BOOLEAN : \/ CallSaves(c, ok) \/ ConfigEnsured(c, ok)
                           \/ CallReverts(c, ok) \/ RevertEnsured(c, ok)
    \/ \E out \in {"ok", "refused", "late"} : CallRestarts(c, out)
    \/ CallAnswers(c) \/ CallGivesUp(c)

SettingsNext ==
    \/ \E c \in Calls : CallNext(c)
    \/ SceneSeen
    \/ \E out \in Outcomes :
          \/ SceneEntered(out) \/ RaceRequested(out)
          \/ \E on, scenes \in BOOLEAN : AutomationSet(on, scenes, out)
          \/ \E r \in Relays : RelayChosen(r, out)
    \/ \E n \in Networks : SceneDeleted(n) \/ Moves(n)
    \/ RaceApplied \/ ServiceReloads \/ ClientRestarts
    \/ CopyNext

\* The Route Guard's task goes on.
SettingsFairness == WF_settingsVars(RaceApplied)

SettingsSpec == SettingsInit /\ [][SettingsNext]_settingsVars
SettingsFairSpec == SettingsSpec /\ SettingsFairness

-----------------------------------------------------------------------------
\* Types, and: the automation is only on in mode "dual", although a call that
\* fails sets an old mode again after the switch was used.
SettingsTypeOK ==
    /\ \A k \in Kinds : file[k] \in Values(k)
    /\ file.auto \/ file.follow => file.mode = "dual"
    /\ {file.net, here, seen} \subseteq Networks \cup {Unset}
    /\ file.net # Unset => file.scenes[file.net] # Unset
    /\ MaxCopies = 0 => applied <= file.race

\* A race that counts as applied is one the service was restarted for: it runs
\* with a config at least as new as the request.  (MaxCopies = 0: an old copy
\* takes the version back.)
RaceIsLoaded == loaded.race >= applied

\* A mode that was answered with 200 is the one the service runs with, also
\* after the automation wrote the config and restarted the service: until
\* another call for it begins, or an identity repair or a pairing, which may
\* write back the state and the config of before the answer.
AnsweredIsLoaded ==
    \A k \in Kinds \cap {"mode", "force"} :
        answered[k] # Unset => loaded[k] = answered[k] /\ file[k] = answered[k]

\* Every request for a race reaches the service.  (MaxCopies = 0, too.)
RaceReachesService ==
    \A k \in 1 .. MaxRaces : file.race >= k ~> applied >= k

\* A call that failed and sets the interfaces back undoes its own change: it
\* does not change the interfaces another network has of its own.
RevertKeepsOtherScenes ==
    [][\A c \in Calls : call[c].step = "failed" /\ CallReverts(c, TRUE) =>
          \A n \in Networks : file'.scenes[n] # file.scenes[n] =>
              n = call[c].net \/ file.scenes[n] = call[c].value]_settingsVars
=============================================================================
