------------------------------ MODULE Portmap -------------------------------
(***************************************************************************)
(* The service mappings of a client: the list in client-state.json, the    *)
(* runtimes that listen on the mesh address (a.forwards), the connections  *)
(* they carry and the counters shown for them.                             *)
(*                                                                         *)
(* A handler saves the list under stateMu, releases it, and only then      *)
(* touches a.forwards under forwardMu.  syncForwarders, one at a time      *)
(* under syncMu, loads the list, closes what it does not name, and opens   *)
(* what is missing, with forwardMu taken for each look and each change,    *)
(* not for the whole.  Connections outlive all of it.                      *)
(*                                                                         *)
(* All mappings ask for the same mesh port, so those of one protocol       *)
(* compete for it.                                                         *)
(***************************************************************************)
EXTENDS Integers, FiniteSets

CONSTANTS Mappings,    \* IDs of mappings; each is added once
          Handlers,    \* requests of the local page at work at once
          Connections, \* TCP connections and UDP sessions at once
          MaxRuntimes, \* bound: runtimes in use at once; one for each protocol
                       \* in use and each connection is enough
          None

ASSUME PortmapAssumption ==
    /\ MaxRuntimes \in Nat \ {0}
    /\ IsFiniteSet(Connections)
    /\ None \notin Mappings \cup Handlers \cup Nat

VARIABLES
    udp,      \* the mappings of UDP; the others forward TCP
    saved,    \* the list in the state file, and what it no longer has
    forwards, \* a.forwards: a runtime, Broken for one without socket, 0 for nil
    socket,   \* the socket of each runtime
    of,       \* the mapping each runtime was opened for
    sync,     \* progress of syncForwarders
    hand,     \* progress of each handler
    conn,     \* connections and sessions
    active,   \* Active of each mapping's connection record, or None
    page      \* the mappings a page request has loaded, or None

netVars == <<socket, of, conn>>
vars == <<udp, saved, forwards, sync, hand, active, page, netVars>>

Runtimes == 1 .. MaxRuntimes
Broken == -1
Listed == {m \in Mappings : saved[m] \in {"on", "paused"}}

Idle == [step |-> "idle", m |-> None, rt |-> 0]
Resting == [step |-> "idle", by |-> None, todo |-> {}, m |-> None, rt |-> 0]
Closed == [step |-> "none", rt |-> 0]

HasProtocol(m, isUdp) == m \in udp <=> isUdp

\* A socket that was given up holds its port until it is collected.
PortFree(isUdp) == \A r \in Runtimes :
    socket[r] \in {"open", "lost"} => ~HasProtocol(of[r], isUdp)

Unused(r) ==
    /\ socket[r] = "closed"
    /\ \A m \in Mappings : forwards[m] # r
    /\ \A c \in Connections : conn[c].rt # r

\* openMappingRuntime, for the first number that nothing refers to.
Opens(r, m, isUdp) ==
    /\ PortFree(isUdp)
    /\ Unused(r) /\ \A q \in Runtimes : q < r => ~Unused(q)
    /\ socket' = [socket EXCEPT ![r] = "open"]
    /\ of' = [of EXCEPT ![r] = m]

\* closeForwardRuntime: connections that were accepted are not touched, but
\* the sessions of UDP are closed and end with the socket.
CloseAll(rs) ==
    socket' = [r \in Runtimes |-> IF r \in rs /\ socket[r] = "open" THEN "closed"
                                  ELSE socket[r]]

-----------------------------------------------------------------------------
(* Handlers of the page.                                                   *)

\* addServiceMapping, up to where it releases stateMu; when it fails it closes
\* what it opened.
AddSaves(h, m, isUdp) ==
    /\ hand[h].step = "idle"
    /\ saved[m] = "new"
    /\ udp' = IF isUdp THEN udp \cup {m} ELSE udp
    /\ \A n \in Listed : ~HasProtocol(n, isUdp)
    /\ \E r \in Runtimes :
          /\ Opens(r, m, isUdp)
          /\ hand' = [hand EXCEPT ![h] = [step |-> "install", m |-> m, rt |-> r]]
    /\ saved' = [saved EXCEPT ![m] = "on"]
    /\ UNCHANGED <<forwards, sync, conn, active, page>>

AddInstalls(h) ==
    /\ hand[h].step = "install"
    /\ forwards' = [forwards EXCEPT ![hand[h].m] = hand[h].rt]
    /\ hand' = [hand EXCEPT ![h] = Idle]
    /\ UNCHANGED <<udp, saved, sync, active, page, netVars>>

DeleteSaves(h, m) ==
    /\ hand[h].step = "idle"
    /\ m \in Listed
    /\ saved' = [saved EXCEPT ![m] = "gone"]
    /\ hand' = [hand EXCEPT ![h] = [step |-> "close", m |-> m, rt |-> 0]]
    /\ UNCHANGED <<udp, forwards, sync, active, page, netVars>>

DeleteCloses(h) ==
    /\ hand[h].step = "close"
    /\ CloseAll({forwards[hand[h].m]})
    /\ forwards' = [forwards EXCEPT ![hand[h].m] = 0]
    /\ hand' = [hand EXCEPT ![h].step = "forget"]
    /\ UNCHANGED <<udp, saved, sync, of, conn, active, page>>

DeleteForgets(h) ==
    /\ hand[h].step = "forget"
    /\ active' = [active EXCEPT ![hand[h].m] = None]
    /\ hand' = [hand EXCEPT ![h] = Idle]
    /\ UNCHANGED <<udp, saved, forwards, sync, page, netVars>>

\* setServiceMappingPaused saves, and waits for a synchronisation of its own.
PauseSaves(h, m, paused) ==
    /\ hand[h].step = "idle"
    /\ m \in Listed
    /\ saved' = [saved EXCEPT ![m] = IF paused THEN "paused" ELSE "on"]
    /\ hand' = [hand EXCEPT ![h] = [step |-> "sync", m |-> m, rt |-> 0]]
    /\ UNCHANGED <<udp, forwards, sync, active, page, netVars>>

\* connectionRecords drops the records of mappings it was not given.
PageLoads ==
    /\ page = None
    /\ page' = Listed
    /\ UNCHANGED <<udp, saved, forwards, sync, hand, active, netVars>>

PageShows ==
    /\ page # None
    /\ active' = [m \in Mappings |-> IF m \in page THEN active[m] ELSE None]
    /\ page' = None
    /\ UNCHANGED <<udp, saved, forwards, sync, hand, netVars>>

-----------------------------------------------------------------------------
(* syncForwarders.                                                         *)

\* By the loops, every few seconds, or by the handler of a pause.
SyncLoads(by) ==
    /\ sync.step = "idle"
    /\ by # None => hand[by].step = "sync"
    /\ sync' = [Resting EXCEPT !.step = "prune", !.by = by,
                               !.todo = {m \in Mappings : saved[m] = "on"}]
    /\ hand' = IF by = None THEN hand ELSE [hand EXCEPT ![by].step = "syncing"]
    /\ UNCHANGED <<udp, saved, forwards, active, page, netVars>>

\* Mutant: what is not listed is left to the handler that removed it.
SyncPrunesNothing ==
    /\ sync.step = "prune"
    /\ sync' = [sync EXCEPT !.step = "look"]
    /\ UNCHANGED <<udp, saved, forwards, hand, active, page, netVars>>

SyncPrunes ==
    /\ sync.step = "prune"
    /\ CloseAll({forwards[m] : m \in Mappings \ sync.todo})
    /\ forwards' = [m \in Mappings |-> IF m \in sync.todo THEN forwards[m] ELSE 0]
    /\ sync' = [sync EXCEPT !.step = "look"]
    /\ UNCHANGED <<udp, saved, hand, of, conn, active, page>>

\* Mutant: a mapping that has a runtime is left alone, whatever its state.
SyncLooksForNil ==
    /\ sync.step = "look"
    /\ \E m \in sync.todo :
          sync' = IF forwards[m] # 0
                  THEN [sync EXCEPT !.todo = @ \ {m}]
                  ELSE [sync EXCEPT !.todo = @ \ {m}, !.step = "open", !.m = m]
    /\ UNCHANGED <<udp, saved, forwards, hand, active, page, netVars>>

SyncLooks ==
    /\ sync.step = "look"
    /\ \E m \in sync.todo :
          sync' = IF forwards[m] \in Runtimes
                  THEN [sync EXCEPT !.todo = @ \ {m}]
                  ELSE [sync EXCEPT !.todo = @ \ {m}, !.step = "open", !.m = m]
    /\ UNCHANGED <<udp, saved, forwards, hand, active, page, netVars>>

SyncOpens ==
    /\ sync.step = "open"
    /\ \/ \E r \in Runtimes :
             /\ Opens(r, sync.m, sync.m \in udp)
             /\ sync' = [sync EXCEPT !.step = "install", !.rt = r]
       \/ /\ ~PortFree(sync.m \in udp)
          /\ sync' = [sync EXCEPT !.step = "install", !.rt = Broken]
          /\ UNCHANGED <<socket, of>>
    /\ UNCHANGED <<udp, saved, forwards, hand, conn, active, page>>

\* The runtime, or one with an error, replaces whatever is there by now.
SyncInstalls ==
    /\ sync.step = "install"
    /\ forwards' = [forwards EXCEPT ![sync.m] = sync.rt]
    /\ sync' = [sync EXCEPT !.step = "look", !.m = None, !.rt = 0]
    /\ UNCHANGED <<udp, saved, hand, active, page, netVars>>

SyncEnds ==
    /\ sync.step = "look"
    /\ sync.todo = {}
    /\ sync' = Resting
    /\ hand' = IF sync.by = None THEN hand ELSE [hand EXCEPT ![sync.by] = Idle]
    /\ UNCHANGED <<udp, saved, forwards, active, page, netVars>>

-----------------------------------------------------------------------------
(* Sockets and connections.                                                *)

\* Installed runtimes are served; one that was replaced still is.
Served(r) ==
    /\ socket[r] = "open"
    /\ \A h \in Handlers : hand[h].rt # r
    /\ sync.rt # r

\* Accept or ReadFromUDP fails, say because the mesh address has gone: the
\* runtime loses its socket, which is not closed.
AcceptFails(r) ==
    /\ Served(r)
    /\ socket' = [socket EXCEPT ![r] = "lost"]
    /\ forwards' = [m \in Mappings |-> IF forwards[m] = r THEN Broken ELSE forwards[m]]
    /\ UNCHANGED <<udp, saved, sync, hand, of, conn, active, page>>

Collected(r) ==
    /\ socket[r] = "lost"
    /\ socket' = [socket EXCEPT ![r] = "closed"]
    /\ UNCHANGED <<udp, saved, forwards, sync, hand, of, conn, active, page>>

ConnStep(c, step) == conn' = [conn EXCEPT ![c].step = step]

Accepts(c, r) ==
    /\ conn[c].step = "none"
    /\ Served(r)
    /\ conn' = [conn EXCEPT ![c] = [step |-> "accepted", rt |-> r]]
    /\ UNCHANGED <<udp, saved, forwards, sync, hand, socket, of, active, page>>

\* updateConnection makes no record for a mapping that has no runtime.
Update(m, delta) ==
    active' = IF active[m] = None /\ forwards[m] = 0 THEN active
              ELSE LET old == IF active[m] = None THEN 0 ELSE active[m]
                   IN  [active EXCEPT ![m] = IF old + delta < 0 THEN 0 ELSE old + delta]

\* The session of UDP exists before it is counted.
OpensSession(c) ==
    /\ conn[c].step = "accepted"
    /\ of[conn[c].rt] \in udp
    /\ ConnStep(c, "session")
    /\ UNCHANGED <<udp, saved, forwards, sync, hand, socket, of, active, page>>

Counts(c) ==
    /\ conn[c].step \in {"accepted", "session"}
    /\ conn[c].step = "session" <=> of[conn[c].rt] \in udp
    /\ Update(of[conn[c].rt], 1)
    /\ ConnStep(c, "counted")
    /\ UNCHANGED <<udp, saved, forwards, sync, hand, socket, of, page>>

\* Bytes are added to the record.
Reports(c) ==
    /\ conn[c].step = "counted"
    /\ Update(of[conn[c].rt], 0)
    /\ UNCHANGED <<udp, saved, forwards, sync, hand, page, netVars>>

\* Mutant: a connection whose target cannot be reached is not taken off.
EndsUncounted(c) ==
    /\ conn[c].step = "counted"
    /\ \/ Update(of[conn[c].rt], -1)
       \/ UNCHANGED active
    /\ conn' = [conn EXCEPT ![c] = Closed]
    /\ UNCHANGED <<udp, saved, forwards, sync, hand, socket, of, page>>

\* The target is not reached, one end closes, or the session times out or finds
\* its socket closed.
Ends(c) ==
    /\ conn[c].step = "counted"
    /\ Update(of[conn[c].rt], -1)
    /\ conn' = [conn EXCEPT ![c] = Closed]
    /\ UNCHANGED <<udp, saved, forwards, sync, hand, socket, of, page>>

-----------------------------------------------------------------------------

Init ==
    /\ udp = {}
    /\ saved = [m \in Mappings |-> "new"]
    /\ forwards = [m \in Mappings |-> 0]
    /\ socket = [r \in Runtimes |-> "closed"]
    /\ of = [r \in Runtimes |-> None]
    /\ sync = Resting
    /\ hand = [h \in Handlers |-> Idle]
    /\ conn = [c \in Connections |-> Closed]
    /\ active = [m \in Mappings |-> None]
    /\ page = None

HandlerGoesOn(h) ==
    \/ AddInstalls(h)
    \/ DeleteCloses(h)
    \/ DeleteForgets(h)

SyncGoesOn ==
    \/ SyncPrunes
    \/ SyncLooks
    \/ SyncOpens
    \/ SyncInstalls
    \/ SyncEnds

ConnectionGoesOn(c) ==
    \/ OpensSession(c)
    \/ Counts(c)
    \/ Reports(c)
    \/ Ends(c)

Next ==
    \/ \E h \in Handlers, m \in Mappings :
          \/ \E isUdp \in BOOLEAN : AddSaves(h, m, isUdp)
          \/ DeleteSaves(h, m)
          \/ \E paused \in BOOLEAN : PauseSaves(h, m, paused)
    \/ \E h \in Handlers : HandlerGoesOn(h)
    \/ PageLoads
    \/ PageShows
    \/ \E by \in Handlers \cup {None} : SyncLoads(by)
    \/ SyncGoesOn
    \/ \E r \in Runtimes : AcceptFails(r) \/ Collected(r)
    \/ \E c \in Connections, r \in Runtimes : Accepts(c, r)
    \/ \E c \in Connections : ConnectionGoesOn(c)

Spec == Init /\ [][Next]_vars

\* The loops call syncForwarders for ever, what has begun goes on, sockets
\* nothing points to are collected, and a session of UDP ends when its runtime
\* is closed.  Nobody is assumed to ask for anything, and a TCP connection may
\* last for ever.
Fairness ==
    /\ WF_vars(\E by \in Handlers \cup {None} : SyncLoads(by))
    /\ WF_vars(SyncGoesOn)
    /\ \A h \in Handlers : WF_vars(HandlerGoesOn(h))
    /\ \A r \in Runtimes : WF_vars(Collected(r))
    /\ \A c \in Connections :
          /\ WF_vars(OpensSession(c) \/ Counts(c))
          /\ WF_vars(/\ conn[c].step = "counted"
                     /\ of[conn[c].rt] \in udp
                     /\ socket[conn[c].rt] # "open"
                     /\ Ends(c))

FairSpec == Spec /\ Fairness

-----------------------------------------------------------------------------
(* Properties.                                                             *)

\* Type invariant.
PortmapTypeOK ==
    /\ udp \subseteq Mappings
    /\ saved \in [Mappings -> {"new", "on", "paused", "gone"}]
    /\ forwards \in [Mappings -> Runtimes \cup {0, Broken}]
    /\ socket \in [Runtimes -> {"open", "lost", "closed"}]
    /\ of \in [Runtimes -> Mappings \cup {None}]
    /\ sync \in [step : {"idle", "prune", "look", "open", "install"},
                 by : Handlers \cup {None}, todo : SUBSET Mappings,
                 m : Mappings \cup {None}, rt : Runtimes \cup {0, Broken}]
    /\ hand \in [Handlers -> [step : {"idle", "install", "close", "forget", "sync",
                                      "syncing"},
                              m : Mappings \cup {None}, rt : Runtimes \cup {0}]]
    /\ conn \in [Connections -> [step : {"none", "accepted", "session", "counted"},
                                 rt : Runtimes \cup {0}]]
    /\ active \in [Mappings -> Nat \cup {None}]
    /\ page \in (SUBSET Mappings) \cup {None}

\* A mapping that is shown as listening is.
ActiveIsOpen ==
    \A m \in Mappings : forwards[m] \in Runtimes =>
        socket[forwards[m]] = "open" /\ of[forwards[m]] = m

\* The page never shows more connections of a mapping than there are, whatever
\* is paused, resumed, deleted or dropped from the records while they last.
NoPhantomConnections ==
    \A m \in Mappings :
        active[m] # None =>
            active[m] <= Cardinality({c \in Connections :
                            conn[c].step = "counted" /\ of[conn[c].rt] = m})

\* A socket that serves and that no entry of a.forwards leads to: it was opened
\* by addServiceMapping and installed while syncForwarders, which had found no
\* runtime and could not open the same port, was about to install its error.
\* Nothing closes it any more.
Stray(r) == Served(r) /\ \A m \in Mappings : forwards[m] # r

Reachable(m) == \E r \in Runtimes : socket[r] = "open" /\ of[r] = m
Sessions(m) == {c \in Connections : conn[c].step # "none" /\ of[conn[c].rt] = m}

\* A mapping that is paused or deleted is closed in the end, with its UDP
\* sessions, although a synchronisation with an older list may open it again;
\* unless its socket went astray.
MappingWithdrawn ==
    \A m \in Mappings :
        saved[m] \in {"paused", "gone"} ~>
            \/ saved[m] = "on"
            \/ ~Reachable(m) /\ (m \in udp => Sessions(m) = {})
            \/ \E r \in Runtimes : Stray(r)

\* A mapping that is on is listened for in the end, whoever held its port,
\* unless a stray socket holds it.
MappingServed ==
    \A m \in Mappings :
        saved[m] = "on" ~>
            \/ saved[m] # "on"
            \/ forwards[m] \in Runtimes
            \/ \E r \in Runtimes : Stray(r)
=============================================================================
