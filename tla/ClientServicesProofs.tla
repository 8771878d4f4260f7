------------------------ MODULE ClientServicesProofs ------------------------
(***************************************************************************)
(* Proofs about the client's port mappings (Portmap), for any mappings,    *)
(* handlers and finite set of connections, and about its update            *)
(* (ClientUpdate), for any requests and builds.                            *)
(***************************************************************************)
EXTENDS Portmap, ClientUpdate, FiniteSetTheorems, TLAPS

-----------------------------------------------------------------------------
(* Port mappings.                                                          *)

\* A runtime that listens for a mapping.
Listens(r, m) == m \in Mappings /\ socket[r] = "open" /\ of[r] = m

\* Whoever has opened a runtime and not yet installed it holds one that
\* listens, for the mapping it was opened for.
HandHolds(h) ==
    /\ hand[h].step = "install" =>
          hand[h].rt \in Runtimes /\ Listens(hand[h].rt, hand[h].m)
    /\ hand[h].step # "install" => hand[h].rt = 0
    /\ hand[h].step # "idle" => hand[h].m \in Mappings
SyncHolds ==
    /\ sync.rt \in Runtimes => Listens(sync.rt, sync.m)
    /\ sync.step # "install" => sync.rt = 0
    /\ sync.step \in {"open", "install"} => sync.m \in Mappings

\* Nobody else holds it, and no entry of a.forwards leads to it.
HeldOnce ==
    /\ \A h \in Handlers : hand[h].rt \in Runtimes =>
          /\ hand[h].rt # sync.rt
          /\ \A g \in Handlers : hand[g].rt = hand[h].rt => g = h
          /\ \A m \in Mappings : forwards[m] # hand[h].rt
    /\ sync.rt \in Runtimes => \A m \in Mappings : forwards[m] # sync.rt

\* A connection knows its runtime, and that its mapping.
Connected ==
    /\ \A r \in Runtimes : socket[r] = "open" => of[r] \in Mappings
    /\ \A c \in Connections :
          /\ conn[c].step # "none" => conn[c].rt \in Runtimes
          /\ conn[c].rt \in Runtimes => of[conn[c].rt] \in Mappings

\* The handler that a synchronisation was begun for waits for it.
SyncServesPause ==
    sync.step # "idle" /\ sync.by # None => hand[sync.by].step = "syncing"

RuntimeInvariant ==
    /\ PortmapTypeOK
    /\ \A h \in Handlers : HandHolds(h)
    /\ SyncHolds
    /\ HeldOnce
    /\ ActiveIsOpen
    /\ Connected

PortmapInvariant ==
    RuntimeInvariant /\ SyncServesPause /\ NoPhantomConnections

RuntimeFacts ==
    Runtimes \subseteq Nat \ {0} /\ Broken \notin Nat /\ 0 \notin Runtimes

\* Runtimes are numbered from 1, as the definitions that use them expect.
LEMMA RuntimesAreNumbers == RuntimeFacts
  BY PortmapAssumption DEF RuntimeFacts, PortmapAssumption, Runtimes, Broken

-----------------------------------------------------------------------------
(* Runtimes are opened, installed, closed and lost.                        *)

\* A number is taken only if nothing refers to it.
LEMMA OpensFree ==
    ASSUME RuntimeInvariant, NEW r \in Runtimes, NEW m \in Mappings,
           NEW isUdp, Opens(r, m, isUdp)
    PROVE  /\ socket' = [socket EXCEPT ![r] = "open"]
           /\ of' = [of EXCEPT ![r] = m]
           /\ socket[r] = "closed"
           /\ \A n \in Mappings : forwards[n] # r
           /\ \A c \in Connections : conn[c].rt # r
           /\ \A h \in Handlers : hand[h].rt # r
           /\ sync.rt # r
  <1>1. socket[r] = "closed"
    BY DEF Opens, Unused
  <1>2. \A h \in Handlers : hand[h].rt # r
    BY <1>1, RuntimesAreNumbers
    DEF RuntimeInvariant, HandHolds, Listens, RuntimeFacts
  <1>3. sync.rt # r
    BY <1>1 DEF RuntimeInvariant, SyncHolds, Listens
  <1> QED
    BY <1>1, <1>2, <1>3 DEF Opens, Unused

\* Opening a runtime leaves all others alone.
LEMMA OpeningFrame ==
    ASSUME RuntimeInvariant, NEW r \in Runtimes, NEW m \in Mappings,
           NEW isUdp, Opens(r, m, isUdp), UNCHANGED <<forwards, conn>>
    PROVE  /\ Listens(r, m)' /\ ActiveIsOpen' /\ Connected'
           /\ socket' \in [Runtimes -> {"open", "lost", "closed"}]
           /\ of' \in [Runtimes -> Mappings \cup {None}]
           /\ \A h \in Handlers : HandHolds(h) /\ hand'[h] = hand[h]
                                    => HandHolds(h)'
           /\ UNCHANGED sync => SyncHolds'
  <1>1. /\ socket' = [socket EXCEPT ![r] = "open"]
        /\ of' = [of EXCEPT ![r] = m]
        /\ \A n \in Mappings : forwards[n] # r
        /\ \A c \in Connections : conn[c].rt # r
        /\ \A h \in Handlers : hand[h].rt # r
        /\ sync.rt # r
    BY OpensFree
  <1>2. /\ socket \in [Runtimes -> {"open", "lost", "closed"}]
        /\ of \in [Runtimes -> Mappings \cup {None}]
    BY DEF RuntimeInvariant, PortmapTypeOK
  <1>3. /\ socket' \in [Runtimes -> {"open", "lost", "closed"}]
        /\ of' \in [Runtimes -> Mappings \cup {None}]
        /\ socket'[r] = "open" /\ of'[r] = m
        /\ \A q \in Runtimes : q # r =>
              socket'[q] = socket[q] /\ of'[q] = of[q]
    BY <1>1, <1>2
  <1>4. Listens(r, m)'
    BY <1>3 DEF Listens
  <1>5. ActiveIsOpen' /\ Connected'
    BY <1>1, <1>3 DEF RuntimeInvariant, ActiveIsOpen, Connected
  <1>6. \A h \in Handlers : HandHolds(h) /\ hand'[h] = hand[h]
                              => HandHolds(h)'
    BY <1>1, <1>3 DEF HandHolds, Listens
  <1>7. UNCHANGED sync => SyncHolds'
    BY <1>1, <1>3 DEF RuntimeInvariant, SyncHolds, Listens
  <1> QED
    BY <1>3, <1>4, <1>5, <1>6, <1>7

\* POST /api/forwards appends a mapping.
LEMMA AddSavesSound ==
    ASSUME RuntimeInvariant, NEW h \in Handlers, NEW m \in Mappings,
           NEW isUdp \in BOOLEAN, AddSaves(h, m, isUdp)
    PROVE  RuntimeInvariant'
  <1>1. PICK r \in Runtimes :
              /\ Opens(r, m, isUdp)
              /\ hand' = [hand EXCEPT
                            ![h] = [step |-> "install", m |-> m, rt |-> r]]
    BY DEF AddSaves
  <1>2. UNCHANGED <<forwards, sync, conn, active, page>>
    BY DEF AddSaves
  <1>3. /\ hand'[h] = [step |-> "install", m |-> m, rt |-> r]
        /\ \A g \in Handlers : g # h => hand'[g] = hand[g]
    BY <1>1 DEF RuntimeInvariant, PortmapTypeOK
  <1>4. /\ Listens(r, m)' /\ ActiveIsOpen' /\ Connected'
        /\ socket' \in [Runtimes -> {"open", "lost", "closed"}]
        /\ of' \in [Runtimes -> Mappings \cup {None}]
        /\ \A g \in Handlers : HandHolds(g) /\ hand'[g] = hand[g]
                                 => HandHolds(g)'
        /\ SyncHolds'
    BY <1>1, <1>2, OpeningFrame
  <1>5. /\ \A n \in Mappings : forwards[n] # r
        /\ \A g \in Handlers : hand[g].rt # r
        /\ sync.rt # r
    BY <1>1, OpensFree
  <1>6. \A g \in Handlers : HandHolds(g)'
    <2>1. HandHolds(h)'
      BY <1>3, <1>4 DEF HandHolds
    <2> QED
      BY <1>3, <1>4, <2>1 DEF RuntimeInvariant
  <1>7. HeldOnce'
    BY <1>2, <1>3, <1>5 DEF RuntimeInvariant, HeldOnce
  <1>8. PortmapTypeOK'
    BY <1>1, <1>2, <1>4 DEF AddSaves, RuntimeInvariant, PortmapTypeOK
  <1> QED
    BY <1>4, <1>6, <1>7, <1>8 DEF RuntimeInvariant

\* syncForwarders opens a listener for a mapping it found missing.
LEMMA SyncOpensSound ==
    ASSUME RuntimeInvariant, SyncOpens
    PROVE  RuntimeInvariant'
  <1>1. /\ sync.step = "open" /\ sync.m \in Mappings
        /\ UNCHANGED <<udp, saved, forwards, hand, conn, active, page>>
    BY DEF SyncOpens, RuntimeInvariant, SyncHolds
  <1>2. ASSUME NEW r \in Runtimes \cup {Broken},
               sync' = [sync EXCEPT !.step = "install", !.rt = r]
        PROVE  /\ sync'.step = "install" /\ sync'.rt = r /\ sync'.m = sync.m
               /\ sync' \in [step : {"idle", "prune", "look", "open",
                                     "install"},
                             by : Handlers \cup {None},
                             todo : SUBSET Mappings, m : Mappings \cup {None},
                             rt : Runtimes \cup {0, Broken}]
    BY <1>2 DEF RuntimeInvariant, PortmapTypeOK
  <1>3. CASE \E r \in Runtimes :
                /\ Opens(r, sync.m, sync.m \in udp)
                /\ sync' = [sync EXCEPT !.step = "install", !.rt = r]
    <2>1. PICK r \in Runtimes :
                /\ Opens(r, sync.m, sync.m \in udp)
                /\ sync' = [sync EXCEPT !.step = "install", !.rt = r]
      BY <1>3
    <2>2. /\ sync'.step = "install" /\ sync'.rt = r /\ sync'.m = sync.m
          /\ sync' \in [step : {"idle", "prune", "look", "open", "install"},
                        by : Handlers \cup {None}, todo : SUBSET Mappings,
                        m : Mappings \cup {None},
                        rt : Runtimes \cup {0, Broken}]
      BY <1>2, <2>1
    <2>3. /\ Listens(r, sync.m)' /\ ActiveIsOpen' /\ Connected'
          /\ socket' \in [Runtimes -> {"open", "lost", "closed"}]
          /\ of' \in [Runtimes -> Mappings \cup {None}]
          /\ \A g \in Handlers : HandHolds(g) /\ hand'[g] = hand[g]
                                   => HandHolds(g)'
      <3>1. PICK m \in Mappings : m = sync.m
        BY <1>1
      <3>2. Opens(r, m, m \in udp)
        BY <2>1, <3>1
      <3>3. /\ Listens(r, m)' /\ ActiveIsOpen' /\ Connected'
            /\ socket' \in [Runtimes -> {"open", "lost", "closed"}]
            /\ of' \in [Runtimes -> Mappings \cup {None}]
            /\ \A g \in Handlers : HandHolds(g) /\ hand'[g] = hand[g]
                                     => HandHolds(g)'
        BY <1>1, <3>2, OpeningFrame
      <3> QED
        BY <2>2, <3>1, <3>3 DEF Listens
    <2>4. /\ \A n \in Mappings : forwards[n] # r
          /\ \A g \in Handlers : hand[g].rt # r
      BY <1>1, <2>1, OpensFree
    <2>5. SyncHolds'
      BY <1>1, <2>2, <2>3 DEF SyncHolds, Listens
    <2>6. HeldOnce'
      BY <1>1, <2>2, <2>4 DEF RuntimeInvariant, HeldOnce
    <2>7. PortmapTypeOK'
      BY <1>1, <2>2, <2>3 DEF RuntimeInvariant, PortmapTypeOK
    <2> QED
      BY <1>1, <2>3, <2>5, <2>6, <2>7 DEF RuntimeInvariant
  <1>4. CASE /\ sync' = [sync EXCEPT !.step = "install", !.rt = Broken]
             /\ UNCHANGED <<socket, of>>
    <2>1. /\ sync'.step = "install" /\ sync'.rt = Broken /\ sync'.m = sync.m
          /\ sync' \in [step : {"idle", "prune", "look", "open", "install"},
                        by : Handlers \cup {None}, todo : SUBSET Mappings,
                        m : Mappings \cup {None},
                        rt : Runtimes \cup {0, Broken}]
      BY <1>2, <1>4
    <2>2. Broken \notin Runtimes
      BY RuntimesAreNumbers DEF RuntimeFacts
    <2>3. PortmapTypeOK' /\ ActiveIsOpen' /\ Connected'
      BY <1>1, <1>4, <2>1
      DEF RuntimeInvariant, PortmapTypeOK, ActiveIsOpen, Connected
    <2>4. SyncHolds' /\ \A h \in Handlers : HandHolds(h)'
      BY <1>1, <1>4, <2>1, <2>2
      DEF RuntimeInvariant, SyncHolds, HandHolds, Listens
    <2>5. HeldOnce'
      BY <1>1, <2>1, <2>2 DEF RuntimeInvariant, HeldOnce
    <2> QED
      BY <2>3, <2>4, <2>5 DEF RuntimeInvariant
  <1> QED
    BY <1>3, <1>4 DEF SyncOpens

-----------------------------------------------------------------------------

\* The runtime that was held is now the one a.forwards leads to.
LEMMA AddInstallsSound ==
    ASSUME RuntimeInvariant, NEW h \in Handlers, AddInstalls(h)
    PROVE  RuntimeInvariant'
  <1>1. PICK m \in Mappings, r \in Runtimes :
              m = hand[h].m /\ r = hand[h].rt /\ Listens(r, m)
    BY DEF AddInstalls, RuntimeInvariant, HandHolds, Listens
  <1>2. /\ forwards' = [forwards EXCEPT ![m] = r]
        /\ hand' = [hand EXCEPT ![h] = Idle]
        /\ UNCHANGED <<udp, saved, sync, active, page, socket, of, conn>>
    BY <1>1 DEF AddInstalls, netVars
  <1>3. /\ forwards' \in [Mappings -> Runtimes \cup {0, Broken}]
        /\ forwards'[m] = r
        /\ \A n \in Mappings : n # m => forwards'[n] = forwards[n]
        /\ hand'[h] = Idle
        /\ \A g \in Handlers : g # h => hand'[g] = hand[g]
    BY <1>2 DEF RuntimeInvariant, PortmapTypeOK
  <1>4. 0 \notin Runtimes
    BY RuntimesAreNumbers DEF RuntimeFacts
  <1>5. PortmapTypeOK'
    BY <1>2, <1>3 DEF RuntimeInvariant, PortmapTypeOK, Idle
  <1>6. ActiveIsOpen' /\ Connected' /\ SyncHolds'
    BY <1>1, <1>2, <1>3
    DEF RuntimeInvariant, ActiveIsOpen, Connected, SyncHolds, Listens
  <1>7. \A g \in Handlers : HandHolds(g)'
    BY <1>2, <1>3 DEF RuntimeInvariant, HandHolds, Listens, Idle
  <1>8. HeldOnce'
    BY <1>1, <1>2, <1>3, <1>4 DEF RuntimeInvariant, HeldOnce, Idle
  <1> QED
    BY <1>5, <1>6, <1>7, <1>8 DEF RuntimeInvariant

\* syncForwarders puts the runtime it opened into the map, or closes it.
LEMMA SyncInstallsSound ==
    ASSUME RuntimeInvariant, SyncInstalls
    PROVE  RuntimeInvariant'
  <1>1. PICK m \in Mappings, r \in Runtimes \cup {0, Broken} :
              m = sync.m /\ r = sync.rt /\ (r \in Runtimes => Listens(r, m))
    BY DEF SyncInstalls, RuntimeInvariant, PortmapTypeOK, SyncHolds
  <1>2. /\ forwards' = [forwards EXCEPT ![m] = r]
        /\ sync' = [sync EXCEPT !.step = "look", !.m = None, !.rt = 0]
        /\ UNCHANGED <<udp, saved, hand, active, page, socket, of, conn>>
    BY <1>1 DEF SyncInstalls, netVars
  <1>3. /\ forwards' \in [Mappings -> Runtimes \cup {0, Broken}]
        /\ forwards'[m] = r
        /\ \A n \in Mappings : n # m => forwards'[n] = forwards[n]
        /\ sync'.step = "look" /\ sync'.rt = 0
        /\ sync' \in [step : {"idle", "prune", "look", "open", "install"},
                      by : Handlers \cup {None}, todo : SUBSET Mappings,
                      m : Mappings \cup {None},
                      rt : Runtimes \cup {0, Broken}]
    BY <1>2 DEF RuntimeInvariant, PortmapTypeOK
  <1>4. 0 \notin Runtimes
    BY RuntimesAreNumbers DEF RuntimeFacts
  <1>5. PortmapTypeOK'
    BY <1>2, <1>3 DEF RuntimeInvariant, PortmapTypeOK
  <1>6. ActiveIsOpen' /\ Connected' /\ SyncHolds'
    BY <1>1, <1>2, <1>3, <1>4
    DEF RuntimeInvariant, ActiveIsOpen, Connected, SyncHolds, Listens
  <1>7. \A g \in Handlers : HandHolds(g)'
    BY <1>2 DEF RuntimeInvariant, HandHolds, Listens
  <1>8. HeldOnce'
    BY <1>1, <1>2, <1>3, <1>4 DEF RuntimeInvariant, HeldOnce
  <1> QED
    BY <1>5, <1>6, <1>7, <1>8 DEF RuntimeInvariant

\* Entries of a.forwards are closed and taken out.
LEMMA ClosingFrame ==
    ASSUME RuntimeInvariant, NEW M \in SUBSET Mappings,
           CloseAll({forwards[m] : m \in M}),
           forwards' \in [Mappings -> Runtimes \cup {0, Broken}],
           \A m \in M : forwards'[m] = 0,
           \A m \in Mappings \ M : forwards'[m] = forwards[m],
           UNCHANGED <<of, conn>>
    PROVE  /\ socket' \in [Runtimes -> {"open", "lost", "closed"}]
           /\ ActiveIsOpen' /\ Connected'
           /\ \A h \in Handlers :
                 hand'[h].rt = hand[h].rt /\ hand'[h].m = hand[h].m
                 /\ (hand'[h].step = "install" <=> hand[h].step = "install")
                 /\ (hand'[h].step = "idle" <=> hand[h].step = "idle")
                   => HandHolds(h)'
           /\ sync'.rt = sync.rt /\ sync'.m = sync.m
              /\ (sync'.step = "install" <=> sync.step = "install")
              /\ (sync'.step = "open" <=> sync.step = "open")
                => SyncHolds'
           /\ (\A h \in Handlers : hand'[h].rt = hand[h].rt)
              /\ sync'.rt = sync.rt => HeldOnce'
  <1>1. /\ socket' \in [Runtimes -> {"open", "lost", "closed"}]
        /\ \A r \in Runtimes : socket'[r] \in {socket[r], "closed"}
        /\ \A r \in Runtimes :
              (\A m \in M : forwards[m] # r) => socket'[r] = socket[r]
    BY DEF CloseAll, RuntimeInvariant, PortmapTypeOK
  <1>2. 0 \notin Runtimes
    BY RuntimesAreNumbers DEF RuntimeFacts
  <1>3. ActiveIsOpen'
    BY <1>1, <1>2 DEF RuntimeInvariant, ActiveIsOpen
  <1>4. Connected'
    BY <1>1 DEF RuntimeInvariant, Connected
  <1>5. \A h \in Handlers : hand[h].rt \in Runtimes =>
              socket'[hand[h].rt] = socket[hand[h].rt]
    BY <1>1 DEF RuntimeInvariant, HeldOnce
  <1>6. sync.rt \in Runtimes => socket'[sync.rt] = socket[sync.rt]
    BY <1>1 DEF RuntimeInvariant, HeldOnce
  <1>7. ASSUME NEW h \in Handlers,
               hand'[h].rt = hand[h].rt, hand'[h].m = hand[h].m,
               hand'[h].step = "install" <=> hand[h].step = "install",
               hand'[h].step = "idle" <=> hand[h].step = "idle"
        PROVE  HandHolds(h)'
    BY <1>5, <1>7 DEF RuntimeInvariant, HandHolds, Listens
  <1>8. ASSUME sync'.rt = sync.rt, sync'.m = sync.m,
               sync'.step = "install" <=> sync.step = "install",
               sync'.step = "open" <=> sync.step = "open"
        PROVE  SyncHolds'
    BY <1>6, <1>8 DEF RuntimeInvariant, SyncHolds, Listens
  <1>9. ASSUME \A h \in Handlers : hand'[h].rt = hand[h].rt,
               sync'.rt = sync.rt
        PROVE  HeldOnce'
    BY <1>2, <1>9 DEF RuntimeInvariant, HeldOnce
  <1> QED
    BY <1>1, <1>3, <1>4, <1>7, <1>8, <1>9

\* DELETE /api/forwards closes the runtime it took from the map.
LEMMA DeleteClosesSound ==
    ASSUME RuntimeInvariant, NEW h \in Handlers, DeleteCloses(h)
    PROVE  RuntimeInvariant'
  <1>1. PICK m \in Mappings : m = hand[h].m
    BY DEF DeleteCloses, RuntimeInvariant, HandHolds
  <1>2. /\ CloseAll({forwards[n] : n \in {m}})
        /\ forwards' = [forwards EXCEPT ![m] = 0]
        /\ hand' = [hand EXCEPT ![h].step = "forget"]
        /\ hand[h].step = "close"
        /\ UNCHANGED <<udp, saved, sync, of, conn, active, page>>
    <2>1. {forwards[n] : n \in {m}} = {forwards[m]}
      OBVIOUS
    <2> QED
      BY <1>1, <2>1 DEF DeleteCloses
  <1>3. /\ forwards' \in [Mappings -> Runtimes \cup {0, Broken}]
        /\ forwards'[m] = 0
        /\ \A n \in Mappings \ {m} : forwards'[n] = forwards[n]
    BY <1>2 DEF RuntimeInvariant, PortmapTypeOK
  <1>4. /\ hand'[h].step = "forget"
        /\ \A g \in Handlers : g # h => hand'[g] = hand[g]
        /\ \A g \in Handlers : hand'[g].rt = hand[g].rt
                               /\ hand'[g].m = hand[g].m
        /\ hand' \in [Handlers ->
                        [step : {"idle", "install", "close", "forget", "sync",
                                 "syncing"},
                         m : Mappings \cup {None}, rt : Runtimes \cup {0}]]
    BY <1>2 DEF RuntimeInvariant, PortmapTypeOK
  <1>5. /\ socket' \in [Runtimes -> {"open", "lost", "closed"}]
        /\ ActiveIsOpen' /\ Connected'
        /\ \A g \in Handlers : HandHolds(g)'
        /\ SyncHolds' /\ HeldOnce'
    <2>1. \A g \in Handlers :
             /\ hand'[g].step = "install" <=> hand[g].step = "install"
             /\ hand'[g].step = "idle" <=> hand[g].step = "idle"
      BY <1>2, <1>4
    <2>2. /\ {m} \in SUBSET Mappings
          /\ \A n \in {m} : forwards'[n] = 0
          /\ UNCHANGED <<of, conn>> /\ UNCHANGED sync
      BY <1>2, <1>3
    <2> QED
      BY <1>2, <1>3, <1>4, <2>1, <2>2, ClosingFrame
  <1>6. PortmapTypeOK'
    BY <1>2, <1>3, <1>4, <1>5 DEF RuntimeInvariant, PortmapTypeOK
  <1> QED
    BY <1>5, <1>6 DEF RuntimeInvariant

\* syncForwarders drops the runtimes whose mapping is gone.
LEMMA SyncPrunesSound ==
    ASSUME RuntimeInvariant, SyncPrunes
    PROVE  RuntimeInvariant'
  <1>1. PICK M \in SUBSET Mappings : M = Mappings \ sync.todo
    OBVIOUS
  <1>2. /\ CloseAll({forwards[m] : m \in M})
        /\ forwards' = [m \in Mappings |-> IF m \in M THEN 0 ELSE forwards[m]]
        /\ sync' = [sync EXCEPT !.step = "look"] /\ sync.step = "prune"
        /\ UNCHANGED <<udp, saved, hand, of, conn, active, page>>
    <2>1. forwards' = [m \in Mappings |-> IF m \in sync.todo THEN forwards[m]
                                          ELSE 0]
      BY DEF SyncPrunes
    <2>2. \A m \in Mappings : m \in M <=> m \notin sync.todo
      BY <1>1
    <2>3. forwards' = [m \in Mappings |-> IF m \in M THEN 0 ELSE forwards[m]]
      BY <2>1, <2>2
    <2> QED
      BY <1>1, <2>3 DEF SyncPrunes
  <1>3. /\ forwards' \in [Mappings -> Runtimes \cup {0, Broken}]
        /\ \A m \in M : forwards'[m] = 0
        /\ \A m \in Mappings \ M : forwards'[m] = forwards[m]
    BY <1>2 DEF RuntimeInvariant, PortmapTypeOK
  <1>4. /\ sync'.step = "look" /\ sync'.rt = sync.rt /\ sync'.m = sync.m
        /\ sync' \in [step : {"idle", "prune", "look", "open", "install"},
                      by : Handlers \cup {None}, todo : SUBSET Mappings,
                      m : Mappings \cup {None},
                      rt : Runtimes \cup {0, Broken}]
    BY <1>2 DEF RuntimeInvariant, PortmapTypeOK
  <1>5. /\ socket' \in [Runtimes -> {"open", "lost", "closed"}]
        /\ ActiveIsOpen' /\ Connected'
        /\ \A g \in Handlers : HandHolds(g)'
        /\ SyncHolds' /\ HeldOnce'
    <2>1. UNCHANGED <<of, conn>> /\ UNCHANGED hand
          /\ (sync'.step = "install" <=> sync.step = "install")
          /\ (sync'.step = "open" <=> sync.step = "open")
      BY <1>2, <1>4
    <2> QED
      BY <1>2, <1>3, <1>4, <2>1, ClosingFrame
  <1>6. PortmapTypeOK'
    BY <1>2, <1>3, <1>4, <1>5 DEF RuntimeInvariant, PortmapTypeOK
  <1> QED
    BY <1>5, <1>6 DEF RuntimeInvariant

\* Only a runtime that nobody holds can lose its socket.
LEMMA AcceptFailsSound ==
    ASSUME RuntimeInvariant, NEW r \in Runtimes, AcceptFails(r)
    PROVE  RuntimeInvariant'
  <1>1. /\ socket' = [socket EXCEPT ![r] = "lost"]
        /\ forwards' = [m \in Mappings |-> IF forwards[m] = r THEN Broken
                                           ELSE forwards[m]]
        /\ \A h \in Handlers : hand[h].rt # r
        /\ sync.rt # r
        /\ UNCHANGED <<udp, saved, sync, hand, of, conn, active, page>>
    BY DEF AcceptFails, Served
  <1>2. /\ socket' \in [Runtimes -> {"open", "lost", "closed"}]
        /\ \A q \in Runtimes : q # r => socket'[q] = socket[q]
        /\ socket'[r] = "lost"
        /\ forwards' \in [Mappings -> Runtimes \cup {0, Broken}]
        /\ \A m \in Mappings : forwards'[m] \in {forwards[m], Broken}
                               /\ forwards'[m] # r
    BY <1>1, RuntimesAreNumbers
    DEF RuntimeInvariant, PortmapTypeOK, RuntimeFacts
  <1>3. Broken \notin Runtimes
    BY RuntimesAreNumbers DEF RuntimeFacts
  <1>4. PortmapTypeOK'
    BY <1>1, <1>2 DEF RuntimeInvariant, PortmapTypeOK
  <1>5. ActiveIsOpen' /\ Connected'
    BY <1>1, <1>2, <1>3 DEF RuntimeInvariant, ActiveIsOpen, Connected
  <1>6. SyncHolds' /\ \A h \in Handlers : HandHolds(h)'
    BY <1>1, <1>2 DEF RuntimeInvariant, SyncHolds, HandHolds, Listens
  <1>7. HeldOnce'
    BY <1>1, <1>2, <1>3 DEF RuntimeInvariant, HeldOnce
  <1> QED
    BY <1>4, <1>5, <1>6, <1>7 DEF RuntimeInvariant

-----------------------------------------------------------------------------
(* Steps that leave the runtimes as they are.                              *)

\* A step that opens and closes no socket and installs nothing.
LEMMA RuntimesStay ==
    ASSUME RuntimeInvariant, PortmapTypeOK', UNCHANGED <<forwards, of>>,
           \A r \in Runtimes : socket'[r] = socket[r]
                               \/ {socket[r], socket'[r]} \cap {"open"} = {},
           \A h \in Handlers :
              \/ hand'[h] = hand[h]
              \/ /\ hand[h].step # "install" /\ hand'[h].step # "install"
                 /\ hand'[h].rt = 0
                 /\ hand'[h].step # "idle" => hand'[h].m \in Mappings,
           \/ sync' = sync
           \/ /\ sync.step # "install" /\ sync'.step # "install"
              /\ sync'.rt = 0
              /\ sync'.step = "open" => sync'.m \in Mappings,
           \A c \in Connections :
              conn'[c].rt \in Runtimes \cup {0}
              /\ (conn'[c].step # "none" => conn'[c].rt \in Runtimes)
              /\ (conn'[c].rt \in Runtimes => of[conn'[c].rt] \in Mappings)
    PROVE  RuntimeInvariant'
  <1>1. 0 \notin Runtimes
    BY RuntimesAreNumbers DEF RuntimeFacts
  <1>2. ActiveIsOpen'
    BY DEF RuntimeInvariant, ActiveIsOpen
  <1>3. Connected'
    BY DEF RuntimeInvariant, Connected
  <1>4. \A h \in Handlers : HandHolds(h)'
    BY DEF RuntimeInvariant, HandHolds, Listens
  <1>5. SyncHolds'
    BY <1>1 DEF RuntimeInvariant, SyncHolds, Listens
  <1>6. HeldOnce'
    <2>1. sync'.rt = sync.rt
      BY DEF RuntimeInvariant, SyncHolds
    <2>2. \A h \in Handlers : hand'[h].rt = hand[h].rt
      BY DEF RuntimeInvariant, HandHolds
    <2> QED
      BY <2>1, <2>2 DEF RuntimeInvariant, HeldOnce
  <1> QED
    BY <1>2, <1>3, <1>4, <1>5, <1>6 DEF RuntimeInvariant

HandlerStates ==
    [step : {"idle", "install", "close", "forget", "sync", "syncing"},
     m : Mappings \cup {None}, rt : Runtimes \cup {0}]

\* The steps of a handler that change the list, not the runtimes.
LEMMA HandlersSound ==
    ASSUME RuntimeInvariant, NEW h \in Handlers, NEW m \in Mappings,
           \/ DeleteSaves(h, m) \/ DeleteForgets(h)
           \/ \E paused \in BOOLEAN : PauseSaves(h, m, paused)
    PROVE  RuntimeInvariant'
  <1>1. /\ UNCHANGED <<udp, forwards, sync, page, socket, of, conn>>
        /\ saved' \in [Mappings -> {"new", "on", "paused", "gone"}]
        /\ active' \in [Mappings -> Nat \cup {None}]
    BY DEF DeleteSaves, DeleteForgets, PauseSaves, netVars,
           RuntimeInvariant, PortmapTypeOK
  <1>2. PICK r \in HandlerStates :
              /\ hand' = [hand EXCEPT ![h] = r]
              /\ r.rt = 0 /\ r.step # "install"
              /\ r.step # "idle" => r.m \in Mappings
    <2>1. \/ hand' = [hand EXCEPT ![h] =
                        [step |-> "close", m |-> m, rt |-> 0]]
          \/ hand' = [hand EXCEPT ![h] = Idle]
          \/ hand' = [hand EXCEPT ![h] =
                        [step |-> "sync", m |-> m, rt |-> 0]]
      BY DEF DeleteSaves, DeleteForgets, PauseSaves
    <2>2. /\ [step |-> "close", m |-> m, rt |-> 0] \in HandlerStates
          /\ [step |-> "sync", m |-> m, rt |-> 0] \in HandlerStates
          /\ Idle \in HandlerStates /\ Idle.rt = 0 /\ Idle.step = "idle"
      BY DEF HandlerStates, Idle
    <2> QED
      BY <2>1, <2>2
  <1>3. /\ hand' \in [Handlers -> HandlerStates]
        /\ hand'[h] = r /\ \A g \in Handlers : g # h => hand'[g] = hand[g]
    BY <1>2 DEF RuntimeInvariant, PortmapTypeOK, HandlerStates
  <1>4. hand[h].step # "install"
    BY DEF DeleteSaves, DeleteForgets, PauseSaves
  <1>5. PortmapTypeOK'
    BY <1>1, <1>3 DEF RuntimeInvariant, PortmapTypeOK, HandlerStates
  <1>6. \A c \in Connections :
            /\ conn[c].rt \in Runtimes \cup {0}
            /\ conn[c].step # "none" => conn[c].rt \in Runtimes
            /\ conn[c].rt \in Runtimes => of[conn[c].rt] \in Mappings
    BY DEF RuntimeInvariant, Connected, PortmapTypeOK
  <1> QED
    BY <1>1, <1>2, <1>3, <1>4, <1>5, <1>6, RuntimesStay

SyncStates ==
    [step : {"idle", "prune", "look", "open", "install"},
     by : Handlers \cup {None}, todo : SUBSET Mappings,
     m : Mappings \cup {None}, rt : Runtimes \cup {0, Broken}]

\* A synchronisation begins, looks for what is missing, or ends.
LEMMA SyncSound ==
    ASSUME RuntimeInvariant, SyncServesPause,
           \/ SyncLooks \/ SyncEnds
           \/ \E by \in Handlers \cup {None} : SyncLoads(by)
    PROVE  RuntimeInvariant'
  <1>1. UNCHANGED <<udp, saved, forwards, active, page, socket, of, conn>>
    BY DEF SyncLooks, SyncEnds, SyncLoads, netVars
  <1>2. /\ sync \in SyncStates /\ hand \in [Handlers -> HandlerStates]
        /\ sync.step # "install" /\ sync.rt = 0
    BY DEF SyncLooks, SyncEnds, SyncLoads, RuntimeInvariant, PortmapTypeOK,
           SyncHolds, SyncStates, HandlerStates
  <1>3. /\ sync' \in SyncStates
        /\ sync'.step # "install" /\ sync'.rt = 0
        /\ sync'.step = "open" => sync'.m \in Mappings
    <2>1. CASE SyncLooks
      <3>1. PICK m \in sync.todo :
                sync' = IF forwards[m] \in Runtimes
                        THEN [sync EXCEPT !.todo = @ \ {m}]
                        ELSE [sync EXCEPT !.todo = @ \ {m}, !.step = "open",
                                          !.m = m]
        BY <2>1 DEF SyncLooks
      <3>2. m \in Mappings /\ sync.step = "look"
        BY <1>2, <2>1 DEF SyncStates, SyncLooks
      <3>3. CASE sync' = [sync EXCEPT !.todo = @ \ {m}]
        BY <1>2, <3>2, <3>3 DEF SyncStates
      <3>4. CASE sync' = [sync EXCEPT !.todo = @ \ {m}, !.step = "open",
                                      !.m = m]
        BY <1>2, <3>2, <3>4 DEF SyncStates
      <3> QED
        BY <3>1, <3>3, <3>4
    <2>2. CASE SyncEnds
      BY <2>2 DEF SyncEnds, Resting, SyncStates
    <2>3. CASE \E by \in Handlers \cup {None} : SyncLoads(by)
      BY <2>3 DEF SyncLoads, Resting, SyncStates
    <2> QED
      BY <2>1, <2>2, <2>3
  <1>4. /\ hand' \in [Handlers -> HandlerStates]
        /\ \A h \in Handlers :
              \/ hand'[h] = hand[h]
              \/ /\ hand[h].step # "install" /\ hand'[h].step # "install"
                 /\ hand'[h].rt = 0
                 /\ hand'[h].step # "idle" => hand'[h].m \in Mappings
    <2>1. CASE UNCHANGED hand
      BY <1>2, <2>1
    <2>2. CASE SyncEnds /\ ~UNCHANGED hand
      <3>1. PICK h \in Handlers : /\ hand' = [hand EXCEPT ![h] = Idle]
                                  /\ hand[h].step = "syncing"
        BY <1>2, <2>2 DEF SyncEnds, SyncServesPause, SyncStates
      <3> QED
        BY <1>2, <3>1 DEF Idle, HandlerStates
    <2>3. CASE ~UNCHANGED hand /\ \E by \in Handlers \cup {None} : SyncLoads(by)
      <3>1. PICK h \in Handlers : /\ hand' = [hand EXCEPT ![h].step = "syncing"]
                                  /\ hand[h].step = "sync"
        BY <2>3 DEF SyncLoads
      <3>2. hand[h].rt = 0 /\ hand[h].m \in Mappings
        BY <3>1 DEF RuntimeInvariant, HandHolds
      <3> QED
        BY <1>2, <3>1, <3>2 DEF HandlerStates
    <2> QED
      BY <2>1, <2>2, <2>3 DEF SyncLooks
  <1>5. PortmapTypeOK'
    BY <1>1, <1>3, <1>4
    DEF RuntimeInvariant, PortmapTypeOK, SyncStates, HandlerStates
  <1>6. \A c \in Connections :
            /\ conn[c].rt \in Runtimes \cup {0}
            /\ conn[c].step # "none" => conn[c].rt \in Runtimes
            /\ conn[c].rt \in Runtimes => of[conn[c].rt] \in Mappings
    BY DEF RuntimeInvariant, Connected, PortmapTypeOK
  <1> QED
    BY <1>1, <1>2, <1>3, <1>4, <1>5, <1>6, RuntimesStay

\* The page reads the list and shows it.
LEMMA PagesSound ==
    ASSUME RuntimeInvariant, PageLoads \/ PageShows
    PROVE  RuntimeInvariant'
  <1>1. /\ UNCHANGED <<udp, saved, forwards, sync, hand, socket, of, conn>>
        /\ page' \in (SUBSET Mappings) \cup {None}
        /\ active' \in [Mappings -> Nat \cup {None}]
    <2>1. CASE PageLoads
      <3>1. Listed \in SUBSET Mappings
        BY DEF Listed
      <3>2. /\ page' = Listed
            /\ UNCHANGED <<udp, saved, forwards, sync, hand, active, socket,
                           of, conn>>
        BY <2>1 DEF PageLoads, netVars
      <3>3. active \in [Mappings -> Nat \cup {None}]
        BY DEF RuntimeInvariant, PortmapTypeOK
      <3> QED
        BY <3>1, <3>2, <3>3
    <2>2. CASE PageShows
      BY <2>2 DEF PageShows, netVars, RuntimeInvariant, PortmapTypeOK
    <2> QED
      BY <2>1, <2>2
  <1>2. PortmapTypeOK'
    BY <1>1 DEF RuntimeInvariant, PortmapTypeOK
  <1> QED
    BY <1>1, <1>2
    DEF RuntimeInvariant, HandHolds, SyncHolds, HeldOnce, ActiveIsOpen,
        Connected, Listens

\* A socket that nothing points to is closed.
LEMMA CollectedSound ==
    ASSUME RuntimeInvariant, NEW r \in Runtimes, Collected(r)
    PROVE  RuntimeInvariant'
  <1>1. /\ socket' = [socket EXCEPT ![r] = "closed"] /\ socket[r] = "lost"
        /\ UNCHANGED <<udp, saved, forwards, sync, hand, of, conn, active,
                       page>>
    BY DEF Collected
  <1>2. /\ socket' \in [Runtimes -> {"open", "lost", "closed"}]
        /\ \A q \in Runtimes : socket'[q] = socket[q]
                               \/ {socket[q], socket'[q]} \cap {"open"} = {}
    BY <1>1 DEF RuntimeInvariant, PortmapTypeOK
  <1>3. PortmapTypeOK'
    BY <1>1, <1>2 DEF RuntimeInvariant, PortmapTypeOK
  <1>4. \A c \in Connections :
            /\ conn[c].rt \in Runtimes \cup {0}
            /\ conn[c].step # "none" => conn[c].rt \in Runtimes
            /\ conn[c].rt \in Runtimes => of[conn[c].rt] \in Mappings
    BY DEF RuntimeInvariant, Connected, PortmapTypeOK
  <1> QED
    BY <1>1, <1>2, <1>3, <1>4, RuntimesStay

-----------------------------------------------------------------------------
(* Connections and how they are counted.                                   *)

Counted(m) == {c \in Connections :
                 conn[c].step = "counted" /\ of[conn[c].rt] = m}

\* The connections counted for a mapping can be counted.
LEMMA CountedFinite ==
    ASSUME NEW m
    PROVE  IsFiniteSet(Counted(m)) /\ Cardinality(Counted(m)) \in Nat
  BY PortmapAssumption, FS_Subset, FS_CardinalityType
  DEF PortmapAssumption, Counted

ConnStates == [step : {"none", "accepted", "session", "counted"},
               rt : Runtimes \cup {0}]

\* What the page shows for a mapping.
Shown(m) == IF active[m] = None THEN 0 ELSE active[m]

\* The number the page shows is a count of connections.
LEMMA ShownIsNoPhantom ==
    ASSUME active \in [Mappings -> Nat \cup {None}]
    PROVE  /\ \A m \in Mappings : Shown(m) \in Nat
           /\ NoPhantomConnections <=>
                 \A m \in Mappings : Shown(m) <= Cardinality(Counted(m))
  <1>1. \A m \in Mappings : Cardinality(Counted(m)) \in Nat
    BY CountedFinite
  <1>2. NoPhantomConnections <=>
           \A m \in Mappings : active[m] # None =>
              active[m] <= Cardinality(Counted(m))
    BY DEF NoPhantomConnections, Counted
  <1>3. \A m \in Mappings : Shown(m) \in Nat
    BY DEF Shown
  <1> QED
    BY <1>1, <1>2, <1>3 DEF Shown

\* updateConnection changes the count of one mapping by what it is told, at
\* most.
LEMMA UpdateEffect ==
    ASSUME active \in [Mappings -> Nat \cup {None}], NEW m \in Mappings,
           NEW delta \in Int, Update(m, delta)
    PROVE  /\ active' \in [Mappings -> Nat \cup {None}]
           /\ \A n \in Mappings : n # m => Shown(n)' = Shown(n)
           /\ Shown(m)' <= IF Shown(m) + delta < 0 THEN 0
                           ELSE Shown(m) + delta
  <1>0. None \notin Nat
    BY PortmapAssumption DEF PortmapAssumption
  <1> DEFINE old == IF active[m] = None THEN 0 ELSE active[m]
             new == IF old + delta < 0 THEN 0 ELSE old + delta
  <1>1. old \in Nat /\ new \in Nat /\ old = Shown(m)
    BY DEF Shown
  <1>2. CASE active[m] = None /\ forwards[m] = 0
    <2>1. active' = active
      BY <1>2 DEF Update
    <2> QED
      BY <1>1, <1>2, <2>1 DEF Shown
  <1>3. CASE ~(active[m] = None /\ forwards[m] = 0)
    <2>1. active' = [active EXCEPT ![m] = new]
      BY <1>3 DEF Update
    <2> HIDE DEF new
    <2>2. /\ active' \in [Mappings -> Nat \cup {None}]
          /\ active'[m] = new
          /\ \A n \in Mappings : n # m => active'[n] = active[n]
      BY <1>1, <2>1
    <2>3. Shown(m)' = new
      BY <1>0, <1>1, <2>2 DEF Shown
    <2> QED
      BY <1>1, <2>2, <2>3 DEF Shown, new
  <1> QED
    BY <1>2, <1>3

\* One connection takes a step: the counts of all mappings but its own stay.
LEMMA CountedMoves ==
    ASSUME conn \in [Connections -> ConnStates], NEW c \in Connections,
           NEW s \in ConnStates, conn' = [conn EXCEPT ![c] = s],
           UNCHANGED of, NEW m
    PROVE  Counted(m)' = (Counted(m) \ {c}) \cup
                (IF s.step = "counted" /\ of[s.rt] = m THEN {c} ELSE {})
  BY DEF Counted

\* It is accepted, or its session is opened.
LEMMA ConnectionBegins ==
    ASSUME PortmapInvariant, NEW c \in Connections,
           OpensSession(c) \/ \E r \in Runtimes : Accepts(c, r)
    PROVE  PortmapInvariant'
  <1>1. UNCHANGED <<udp, saved, forwards, sync, hand, socket, of, active,
                    page>>
    BY DEF OpensSession, Accepts
  <1>2. /\ RuntimeInvariant
        /\ conn \in [Connections -> ConnStates]
        /\ active \in [Mappings -> Nat \cup {None}]
    BY DEF PortmapInvariant, RuntimeInvariant, PortmapTypeOK, ConnStates
  <1>3. PICK s \in ConnStates :
              /\ conn' = [conn EXCEPT ![c] = s]
              /\ s.step # "counted" /\ conn[c].step # "counted"
              /\ s.rt \in Runtimes /\ of[s.rt] \in Mappings
    <2>1. CASE OpensSession(c)
      <3>1. /\ conn' = [conn EXCEPT ![c] = [conn[c] EXCEPT !.step = "session"]]
            /\ conn[c].step = "accepted"
        BY <1>2, <2>1 DEF OpensSession, ConnStep
      <3>2. conn[c].rt \in Runtimes /\ of[conn[c].rt] \in Mappings
        BY <1>2, <3>1 DEF RuntimeInvariant, Connected
      <3>3. PICK s \in ConnStates : s = [conn[c] EXCEPT !.step = "session"]
        BY <1>2 DEF ConnStates
      <3>4. s.step = "session" /\ s.rt = conn[c].rt
        BY <1>2, <3>3 DEF ConnStates
      <3> QED
        BY <3>1, <3>2, <3>3, <3>4
    <2>2. CASE \E r \in Runtimes : Accepts(c, r)
      <3>1. PICK r \in Runtimes :
                /\ conn' = [conn EXCEPT ![c] = [step |-> "accepted", rt |-> r]]
                /\ socket[r] = "open" /\ conn[c].step = "none"
        BY <2>2 DEF Accepts, Served
      <3>2. of[r] \in Mappings
        BY <1>2, <3>1 DEF RuntimeInvariant, Connected
      <3>3. PICK s \in ConnStates : s = [step |-> "accepted", rt |-> r]
        BY DEF ConnStates
      <3> QED
        BY <3>1, <3>2, <3>3
    <2> QED
      BY <2>1, <2>2
  <1>4. /\ conn' \in [Connections -> ConnStates] /\ conn'[c] = s
        /\ \A d \in Connections : d # c => conn'[d] = conn[d]
    BY <1>2, <1>3
  <1>5. PortmapTypeOK'
    BY <1>1, <1>2, <1>4 DEF RuntimeInvariant, PortmapTypeOK, ConnStates
  <1>6. RuntimeInvariant'
    BY <1>1, <1>2, <1>3, <1>4, <1>5
    DEF RuntimeInvariant, HandHolds, SyncHolds, HeldOnce, ActiveIsOpen,
        Connected, Listens
  <1>7. NoPhantomConnections'
    <2>1. \A m \in Mappings : Counted(m)' = Counted(m)
      BY <1>1, <1>3, <1>4 DEF Counted
    <2> QED
      BY <1>1, <2>1 DEF PortmapInvariant, NoPhantomConnections, Counted
  <1> QED
    BY <1>1, <1>6, <1>7 DEF PortmapInvariant, SyncServesPause

\* It is counted, reports, and is taken off again.
LEMMA ConnectionGoes ==
    ASSUME PortmapInvariant, NEW c \in Connections,
           Counts(c) \/ Reports(c) \/ Ends(c)
    PROVE  PortmapInvariant'
  <1>1. UNCHANGED <<udp, saved, forwards, sync, hand, socket, of, page>>
    BY DEF Counts, Reports, Ends, netVars
  <1>2. /\ RuntimeInvariant
        /\ conn \in [Connections -> ConnStates]
        /\ active \in [Mappings -> Nat \cup {None}]
        /\ \A m \in Mappings :
              /\ Shown(m) \in Nat /\ Shown(m) <= Cardinality(Counted(m))
              /\ IsFiniteSet(Counted(m)) /\ Cardinality(Counted(m)) \in Nat
    BY ShownIsNoPhantom, CountedFinite
    DEF PortmapInvariant, RuntimeInvariant, PortmapTypeOK, ConnStates
  <1>3. PICK m \in Mappings : m = of[conn[c].rt]
    BY <1>2 DEF Counts, Reports, Ends, RuntimeInvariant, Connected
  <1>4. conn[c].rt \in Runtimes
    BY <1>2 DEF Counts, Reports, Ends, RuntimeInvariant, Connected
  <1>5. PICK s \in ConnStates, delta \in {-1, 0, 1} :
              /\ conn' = [conn EXCEPT ![c] = s]
              /\ Update(m, delta)
              /\ \/ /\ delta = 1 /\ conn[c].step # "counted"
                    /\ s.step = "counted" /\ s.rt = conn[c].rt
                 \/ delta = 0 /\ s = conn[c]
                 \/ /\ delta = -1 /\ conn[c].step = "counted"
                    /\ s = Closed
    <2>1. CASE Counts(c)
      <3>1. /\ conn' = [conn EXCEPT ![c] = [conn[c] EXCEPT !.step = "counted"]]
            /\ conn[c].step # "counted" /\ Update(m, 1)
        BY <1>2, <1>3, <2>1 DEF Counts, ConnStep
      <3>2. [conn[c] EXCEPT !.step = "counted"] \in ConnStates
            /\ [conn[c] EXCEPT !.step = "counted"].step = "counted"
            /\ [conn[c] EXCEPT !.step = "counted"].rt = conn[c].rt
        BY <1>2 DEF ConnStates
      <3> QED
        BY <3>1, <3>2
    <2>2. CASE Reports(c)
      <3>1. conn' = conn /\ Update(m, 0)
        BY <1>3, <2>2 DEF Reports, netVars
      <3>2. conn' = [conn EXCEPT ![c] = conn[c]] /\ conn[c] \in ConnStates
        BY <1>2, <3>1
      <3> QED
        BY <3>1, <3>2
    <2>3. CASE Ends(c)
      <3>1. /\ conn' = [conn EXCEPT ![c] = Closed] /\ Update(m, -1)
            /\ conn[c].step = "counted"
        BY <1>3, <2>3 DEF Ends
      <3>2. Closed \in ConnStates
        BY DEF Closed, ConnStates
      <3> QED
        BY <3>1, <3>2
    <2> QED
      BY <2>1, <2>2, <2>3
  <1>6. /\ conn' \in [Connections -> ConnStates] /\ conn'[c] = s
        /\ \A d \in Connections : d # c => conn'[d] = conn[d]
        /\ \/ s.step # "none" /\ s.rt = conn[c].rt
           \/ s.step = "none" /\ s.rt = 0
    BY <1>2, <1>5 DEF Closed, Counts, Reports, Ends
  <1>7. /\ active' \in [Mappings -> Nat \cup {None}]
        /\ \A n \in Mappings : n # m => Shown(n)' = Shown(n)
        /\ Shown(m)' <= IF Shown(m) + delta < 0 THEN 0 ELSE Shown(m) + delta
    <2>1. delta \in Int
      BY <1>5
    <2> QED
      BY <1>2, <1>5, <2>1, UpdateEffect
  <1>8. PortmapTypeOK'
    BY <1>1, <1>2, <1>6, <1>7 DEF RuntimeInvariant, PortmapTypeOK, ConnStates
  <1>9. RuntimeInvariant'
    <2>1. 0 \notin Runtimes
      BY RuntimesAreNumbers DEF RuntimeFacts
    <2> QED
      BY <1>1, <1>2, <1>3, <1>4, <1>6, <1>8, <2>1
      DEF RuntimeInvariant, HandHolds, SyncHolds, HeldOnce, ActiveIsOpen,
          Connected, Listens
  <1>10. ASSUME NEW n \in Mappings
         PROVE  Shown(n)' <= Cardinality(Counted(n)')
    <2>0. Shown(n)' \in Nat
      BY <1>7 DEF Shown
    <2>1. Counted(n)' = (Counted(n) \ {c}) \cup
                (IF s.step = "counted" /\ of[s.rt] = n THEN {c} ELSE {})
      BY <1>1, <1>2, <1>5, CountedMoves
    <2>2. c \in Counted(n) <=> conn[c].step = "counted" /\ n = m
      BY <1>3 DEF Counted
    <2>3. CASE n # m \/ delta = 0
      <3>1. Counted(n)' = Counted(n)
        BY <1>3, <1>5, <2>1, <2>2, <2>3 DEF Closed
      <3> QED
        BY <1>2, <1>7, <2>0, <2>3, <3>1
    <2>4. CASE n = m /\ delta = 1
      <3>1. Counted(m)' = Counted(m) \cup {c} /\ c \notin Counted(m)
        BY <1>3, <1>5, <2>1, <2>2, <2>4
      <3>2. Cardinality(Counted(m)') = Cardinality(Counted(m)) + 1
        BY <1>2, <3>1, FS_AddElement
      <3> QED
        BY <1>2, <1>7, <2>0, <2>4, <3>2
    <2>5. CASE n = m /\ delta = -1
      <3>1. Counted(m)' = Counted(m) \ {c} /\ c \in Counted(m)
        BY <1>3, <1>5, <2>1, <2>2, <2>5 DEF Closed
      <3>2. Cardinality(Counted(m)') = Cardinality(Counted(m)) - 1
        BY <1>2, <3>1, FS_RemoveElement
      <3>3. Cardinality(Counted(m)') \in Nat
        BY <1>2, <3>1, FS_RemoveElement, FS_CardinalityType
      <3> QED
        BY <1>2, <1>7, <2>0, <2>5, <3>2, <3>3
    <2> QED
      BY <1>5, <2>3, <2>4, <2>5
  <1>11. NoPhantomConnections'
    <2>1. \A n \in Mappings : active'[n] # None =>
              active'[n] <= Cardinality(Counted(n)')
      BY <1>10 DEF Shown
    <2> QED
      BY <2>1 DEF NoPhantomConnections, Counted
  <1> QED
    BY <1>1, <1>9, <1>11 DEF PortmapInvariant, SyncServesPause

-----------------------------------------------------------------------------
(* The steps that leave the connections alone.                             *)

\* A runtime of a connection keeps its mapping, so the counts stay; and no
\* other step raises what the page shows.
LEMMA CountsStay ==
    ASSUME RuntimeInvariant, NoPhantomConnections, UNCHANGED conn,
           \/ UNCHANGED of
           \/ \E r \in Runtimes, m \in Mappings, isUdp \in BOOLEAN :
                 Opens(r, m, isUdp),
           \A m \in Mappings : active'[m] \in {active[m], None}
    PROVE  NoPhantomConnections'
  <1>1. \A c \in Connections : conn[c].step = "counted" =>
            of'[conn[c].rt] = of[conn[c].rt]
    <2>1. CASE \E r \in Runtimes, m \in Mappings, isUdp \in BOOLEAN :
                  Opens(r, m, isUdp)
      <3>1. PICK r \in Runtimes, m \in Mappings : /\ of' = [of EXCEPT ![r] = m]
                     /\ \A c \in Connections : conn[c].rt # r
        BY <2>1, OpensFree
      <3> QED
        BY <3>1 DEF RuntimeInvariant, Connected, PortmapTypeOK
    <2> QED
      BY <2>1
  <1>2. \A m \in Mappings : Counted(m)' = Counted(m)
    BY <1>1 DEF Counted
  <1> QED
    BY <1>2 DEF NoPhantomConnections, Counted

\* A synchronisation serves the pause of its handler, whatever runs besides.
LEMMA HandlersKeepPause ==
    ASSUME RuntimeInvariant, SyncServesPause, Next
    PROVE  SyncServesPause'
  <1>1. /\ sync \in SyncStates /\ hand \in [Handlers -> HandlerStates]
    BY DEF RuntimeInvariant, PortmapTypeOK, SyncStates, HandlerStates
  <1>2. CASE sync'.step # "idle" /\ sync.step # "idle" /\ sync'.by = sync.by
             /\ \A h \in Handlers : hand'[h] = hand[h]
                                    \/ hand[h].step # "syncing"
    BY <1>1, <1>2 DEF SyncServesPause, SyncStates
  <1>3. CASE \E by \in Handlers \cup {None} : SyncLoads(by)
    <2>1. PICK by \in Handlers \cup {None} : SyncLoads(by)
      BY <1>3
    <2>2. sync'.by = by
      BY <2>1 DEF SyncLoads, Resting
    <2> QED
      BY <1>1, <2>1, <2>2 DEF SyncLoads, SyncServesPause
  <1>4. CASE SyncGoesOn
    <2>1. CASE SyncEnds
      BY <2>1 DEF SyncEnds, SyncServesPause, Resting
    <2>2. CASE SyncPrunes \/ SyncLooks \/ SyncOpens \/ SyncInstalls
      <3>1. UNCHANGED hand /\ sync.step # "idle"
        BY <2>2 DEF SyncPrunes, SyncLooks, SyncOpens, SyncInstalls
      <3>2. sync'.by = sync.by
        BY <1>1, <2>2
        DEF SyncPrunes, SyncLooks, SyncOpens, SyncInstalls, SyncStates
      <3> QED
        BY <3>1, <3>2 DEF SyncServesPause
    <2> QED
      BY <1>4, <2>1, <2>2 DEF SyncGoesOn
  <1>5. CASE UNCHANGED sync /\ \A h \in Handlers :
                hand'[h] = hand[h] \/ hand[h].step # "syncing"
    BY <1>1, <1>5 DEF SyncServesPause, SyncStates
  <1>6. ASSUME NEW h \in Handlers, NEW m \in Mappings,
               \/ \E isUdp \in BOOLEAN : AddSaves(h, m, isUdp)
               \/ DeleteSaves(h, m)
               \/ \E paused \in BOOLEAN : PauseSaves(h, m, paused)
               \/ HandlerGoesOn(h)
        PROVE  SyncServesPause'
    <2>1. UNCHANGED sync /\ hand[h].step # "syncing"
      BY <1>6 DEF AddSaves, DeleteSaves, PauseSaves, HandlerGoesOn,
                  AddInstalls, DeleteCloses, DeleteForgets
    <2>2. \A g \in Handlers : g # h => hand'[g] = hand[g]
      BY <1>1, <1>6 DEF AddSaves, DeleteSaves, PauseSaves, HandlerGoesOn,
                        AddInstalls, DeleteCloses, DeleteForgets
    <2> QED
      BY <1>5, <2>1, <2>2
  <1>7. CASE \E h \in Handlers : HandlerGoesOn(h)
    <2>1. PICK h \in Handlers : HandlerGoesOn(h)
      BY <1>7
    <2>2. UNCHANGED sync /\ hand[h].step # "syncing"
      BY <2>1 DEF HandlerGoesOn, AddInstalls, DeleteCloses, DeleteForgets
    <2>3. \A g \in Handlers : g # h => hand'[g] = hand[g]
      BY <1>1, <2>1
      DEF HandlerGoesOn, AddInstalls, DeleteCloses, DeleteForgets
    <2> QED
      BY <1>5, <2>2, <2>3
  <1>8. CASE \/ PageLoads \/ PageShows
             \/ \E r \in Runtimes : AcceptFails(r) \/ Collected(r)
             \/ \E c \in Connections, r \in Runtimes : Accepts(c, r)
             \/ \E c \in Connections : ConnectionGoesOn(c)
    <2>1. UNCHANGED <<sync, hand>>
      BY <1>8 DEF PageLoads, PageShows, AcceptFails, Collected, Accepts,
                  ConnectionGoesOn, OpensSession, Counts, Reports, Ends
    <2> QED
      BY <1>5, <2>1
  <1> QED
    BY <1>3, <1>4, <1>6, <1>7, <1>8 DEF Next

\* Every step keeps the invariant.
LEMMA PortmapStep ==
    ASSUME PortmapInvariant, [Next]_vars
    PROVE  PortmapInvariant'
  <1>1. CASE UNCHANGED vars
    BY <1>1 DEF PortmapInvariant, RuntimeInvariant, PortmapTypeOK, HandHolds,
       SyncHolds, HeldOnce, ActiveIsOpen, Connected, Listens, vars, netVars,
       SyncServesPause, NoPhantomConnections
  <1>2. RuntimeInvariant /\ SyncServesPause /\ NoPhantomConnections
    BY DEF PortmapInvariant
  <1>3. ASSUME Next PROVE SyncServesPause'
    BY <1>2, <1>3, HandlersKeepPause
  <1>4. ASSUME NEW h \in Handlers, NEW m \in Mappings, Next,
               \/ \E isUdp \in BOOLEAN : AddSaves(h, m, isUdp)
               \/ DeleteSaves(h, m)
               \/ \E paused \in BOOLEAN : PauseSaves(h, m, paused)
        PROVE  PortmapInvariant'
    <2>1. RuntimeInvariant'
      BY <1>2, <1>4, AddSavesSound, HandlersSound
    <2>2. NoPhantomConnections'
      <3>1. UNCHANGED <<conn, active>>
        BY <1>4 DEF AddSaves, DeleteSaves, PauseSaves, netVars
      <3>2. \/ UNCHANGED of
            \/ \E r \in Runtimes, n \in Mappings, isUdp \in BOOLEAN :
                  Opens(r, n, isUdp)
        BY <1>4 DEF AddSaves, DeleteSaves, PauseSaves, netVars
      <3> QED
        BY <1>2, <3>1, <3>2, CountsStay
    <2> QED
      BY <1>3, <1>4, <2>1, <2>2 DEF PortmapInvariant
  <1>5. ASSUME NEW h \in Handlers, Next, HandlerGoesOn(h)
        PROVE  PortmapInvariant'
    <2>1. RuntimeInvariant'
      <3>1. CASE DeleteForgets(h)
        <4>1. hand[h].m \in Mappings
          BY <1>2, <3>1 DEF DeleteForgets, RuntimeInvariant, HandHolds
        <4> QED
          BY <1>2, <3>1, <4>1, HandlersSound
      <3> QED
        BY <1>2, <1>5, <3>1, AddInstallsSound, DeleteClosesSound
        DEF HandlerGoesOn
    <2>2. NoPhantomConnections'
      <3>1. UNCHANGED <<conn, of>>
            /\ \A m \in Mappings : active'[m] \in {active[m], None}
        BY <1>2, <1>5 DEF HandlerGoesOn, AddInstalls, DeleteCloses,
           DeleteForgets, netVars, RuntimeInvariant, PortmapTypeOK
      <3> QED
        BY <1>2, <3>1, CountsStay
    <2> QED
      BY <1>3, <1>5, <2>1, <2>2 DEF PortmapInvariant
  <1>6. ASSUME Next,
               PageLoads \/ PageShows \/ SyncGoesOn
               \/ \E by \in Handlers \cup {None} : SyncLoads(by)
        PROVE  PortmapInvariant'
    <2>1. RuntimeInvariant'
      BY <1>2, <1>6, PagesSound, SyncSound, SyncPrunesSound, SyncOpensSound,
         SyncInstallsSound DEF SyncGoesOn
    <2>2. NoPhantomConnections'
      <3>1. UNCHANGED conn /\ \A m \in Mappings :
                                 active'[m] \in {active[m], None}
        BY <1>6 DEF PageLoads, PageShows, SyncGoesOn, SyncLoads, SyncPrunes,
           SyncLooks, SyncOpens, SyncInstalls, SyncEnds, netVars
      <3>2. \/ UNCHANGED of
            \/ \E r \in Runtimes, n \in Mappings, isUdp \in BOOLEAN :
                  Opens(r, n, isUdp)
        <4>1. CASE SyncOpens
          <5>1. sync.m \in Mappings
            BY <1>2, <4>1 DEF SyncOpens, RuntimeInvariant, SyncHolds
          <5>2. CASE \E r \in Runtimes : Opens(r, sync.m, sync.m \in udp)
            <6>1. PICK r \in Runtimes : Opens(r, sync.m, sync.m \in udp)
              BY <5>2
            <6>2. (sync.m \in udp) \in BOOLEAN
              OBVIOUS
            <6> QED
              BY <5>1, <6>1, <6>2
          <5> QED
            BY <4>1, <5>2 DEF SyncOpens
        <4> QED
          BY <1>6, <4>1 DEF PageLoads, PageShows, SyncGoesOn, SyncLoads,
             SyncPrunes, SyncLooks, SyncInstalls, SyncEnds, netVars
      <3> QED
        BY <1>2, <3>1, <3>2, CountsStay
    <2> QED
      BY <1>3, <1>6, <2>1, <2>2 DEF PortmapInvariant
  <1>7. ASSUME NEW r \in Runtimes, Next, AcceptFails(r) \/ Collected(r)
        PROVE  PortmapInvariant'
    <2>1. RuntimeInvariant'
      BY <1>2, <1>7, AcceptFailsSound, CollectedSound
    <2>2. NoPhantomConnections'
      <3>1. UNCHANGED <<conn, of, active>>
        BY <1>7 DEF AcceptFails, Collected
      <3> QED
        BY <1>2, <3>1, CountsStay
    <2> QED
      BY <1>3, <1>7, <2>1, <2>2 DEF PortmapInvariant
  <1>8. ASSUME NEW c \in Connections,
               ConnectionGoesOn(c) \/ \E r \in Runtimes : Accepts(c, r)
        PROVE  PortmapInvariant'
    BY <1>8, ConnectionBegins, ConnectionGoes DEF ConnectionGoesOn
  <1> QED
    BY <1>1, <1>4, <1>5, <1>6, <1>7, <1>8 DEF Next

\* The client starts without forwarders.
LEMMA PortmapStart == Init => PortmapInvariant
  <1> SUFFICES ASSUME Init PROVE PortmapInvariant
    OBVIOUS
  <1>1. PortmapTypeOK
    <2>1. Idle \in HandlerStates /\ Closed \in ConnStates
      BY DEF Idle, Closed, HandlerStates, ConnStates
    <2>2. Resting \in SyncStates
      BY DEF Resting, SyncStates
    <2>3. /\ hand \in [Handlers -> HandlerStates]
          /\ conn \in [Connections -> ConnStates]
          /\ sync \in SyncStates
      BY <2>1, <2>2 DEF Init
    <2>4. page \in (SUBSET Mappings) \cup {None}
      BY DEF Init
    <2> QED
      BY <2>3, <2>4
      DEF Init, PortmapTypeOK, HandlerStates, ConnStates, SyncStates
  <1>2. 0 \notin Runtimes
    BY RuntimesAreNumbers DEF RuntimeFacts
  <1>3. SyncHolds /\ \A h \in Handlers : HandHolds(h)
    BY <1>2 DEF Init, HandHolds, SyncHolds, Idle, Resting
  <1>4. HeldOnce /\ ActiveIsOpen /\ Connected
    BY <1>2 DEF Init, HeldOnce, ActiveIsOpen, Connected, Idle, Resting, Closed
  <1>5. SyncServesPause /\ NoPhantomConnections
    BY DEF Init, SyncServesPause, NoPhantomConnections, Resting
  <1> QED
    BY <1>1, <1>3, <1>4, <1>5 DEF PortmapInvariant, RuntimeInvariant

\* A mapping that is shown as listening has an open socket that was opened for
\* it, whoever opened, closed or lost one meanwhile.
THEOREM ShownListeningIsOpen == Spec => []ActiveIsOpen
  <1>1. PortmapInvariant => ActiveIsOpen
    BY DEF PortmapInvariant, RuntimeInvariant
  <1> QED
    BY PortmapStart, PortmapStep, <1>1, PTL DEF Spec

\* The page never shows more connections of a mapping than there are: counts
\* that updateConnection dropped and began again never exceed what lasts.
THEOREM NoPhantomsShown == Spec => []NoPhantomConnections
  <1>1. PortmapInvariant => NoPhantomConnections
    BY DEF PortmapInvariant
  <1> QED
    BY PortmapStart, PortmapStep, <1>1, PTL DEF Spec

-----------------------------------------------------------------------------
(* Updates.                                                                *)

Jobs == [step : JobSteps, target : Builds]

UpdShape ==
    /\ {listed, manifest} \subseteq Builds \cup {NoBuild}
    /\ published \subseteq Builds
    /\ job \in [Appliers -> Jobs]

-----------------------------------------------------------------------------
(* What each request is about.                                             *)

\* The update starts well formed.
LEMMA ShapeInit == ASSUME UpdInit PROVE UpdShape
  <1>1. AtEase \in Jobs
    BY UpdateAssumption DEF UpdateAssumption, AtEase, Jobs, JobSteps
  <1> QED
    BY <1>1 DEF UpdInit, UpdShape

\* A request that moves on keeps its target.
LEMMA GotoShape ==
    ASSUME UpdShape, NEW a \in Appliers, NEW step \in JobSteps,
           Goto(a, step) \/ Drop(a)
    PROVE  /\ job' \in [Appliers -> Jobs]
           /\ \A b \in Appliers \ {a} : job'[b] = job[b]
           /\ Goto(a, step) =>
                /\ job'[a].step = step /\ job'[a].target = job[a].target
           /\ Drop(a) => job'[a] = AtEase
  <1>1. AtEase \in Jobs
    BY UpdateAssumption DEF UpdateAssumption, AtEase, Jobs, JobSteps
  <1>2. CASE Goto(a, step)
    BY <1>1, <1>2 DEF Goto, UpdShape, Jobs, Drop
  <1>3. CASE Drop(a) /\ ~Goto(a, step)
    BY <1>1, <1>3 DEF Drop, UpdShape
  <1> QED
    BY <1>2, <1>3

\* Every step of the update keeps it well formed.
LEMMA ShapeStep == ASSUME UpdShape, [UpdNext]_updVars PROVE UpdShape'
  <1>a. AtEase \in Jobs
    BY UpdateAssumption DEF UpdateAssumption, AtEase, Jobs, JobSteps
  <1> USE DEF UpdShape
  <1>1. ASSUME NEW b \in Builds, PublishUpdate(b) PROVE UpdShape'
    BY <1>1 DEF PublishUpdate
  <1>2. CASE DaemonSaves \/ DaemonRestarts \/ SetAutoUpdate
    BY <1>2 DEF DaemonSaves, DaemonRestarts, SetAutoUpdate, serverVars
  <1>3. ASSUME NEW a \in Appliers, NEW auto \in BOOLEAN, Check(a, auto)
        PROVE  UpdShape'
    BY <1>3 DEF Check, Offered, Jobs, JobSteps, serverVars
  <1>4. ASSUME NEW a \in Appliers,
               \/ Measure(a) \/ Fetch(a) \/ Received(a) \/ GiveUp(a)
               \/ Verify(a) \/ RemoveStaged(a) \/ Rename(a)
               \/ ScheduleUpdate(a) \/ ApplyRollback(a)
        PROVE  UpdShape'
    <2>1. UNCHANGED serverVars
      BY <1>4 DEF Measure, Fetch, Received, GiveUp, Verify, RemoveStaged,
                  Rename, ScheduleUpdate, ApplyRollback
    <2>2. \E step \in JobSteps : Goto(a, step) \/ Drop(a)
      BY <1>4 DEF Measure, Fetch, Received, GiveUp, Verify, RemoveStaged,
                  Rename, ScheduleUpdate, ApplyRollback, Schedule, JobSteps
    <2> QED
      BY <2>1, <2>2, GotoShape DEF serverVars
  <1>5. ASSUME NEW a \in Appliers, HelperStep(a) \/ ReportHealth(a)
        PROVE  UpdShape'
    <2>1. UNCHANGED serverVars
      BY <1>5 DEF HelperStep, StopClients, Keep, Kept, Clear, Move, StartNew,
                  Healthy, Unhealthy, Restore, Restored, ReportHealth
    <2>2. job' = job \/ job' = [b \in Appliers |-> AtEase]
      BY <1>5 DEF HelperStep, StopClients, Keep, Kept, Clear, Move, StartNew,
                  Healthy, Unhealthy, Restore, Restored, ReportHealth
    <2> QED
      BY <1>a, <2>1, <2>2 DEF serverVars
  <1>8. ASSUME NEW a \in Appliers, HelperBreaks(a) PROVE UpdShape'
    BY <1>8 DEF HelperBreaks, serverVars
  <1>6. CASE Exit \/ PowerFails \/ LogsOn
    BY <1>6, <1>a DEF Exit, PowerFails, LogsOn, serverVars
  <1>7. CASE UNCHANGED updVars
    BY <1>7 DEF updVars, serverVars
  <1> QED
    BY <1>1, <1>2, <1>3, <1>4, <1>5, <1>6, <1>7, <1>8 DEF UpdNext

-----------------------------------------------------------------------------
(* The swap of the executable.                                             *)

\* The helper is past the point where it stopped every client.
Stopped == {"keep", "kept", "clear", "move", "start", "restore", "restored"}

\* The steps at which the executable is whole, and those at which the kept
\* one is.
Keeping == {"wait", "keep", "kept"}
Replacing == {"clear", "move", "start", "watch", "restore", "restored"}

HelperSound(step) ==
    /\ step \in Stopped => running = NoBuild
    /\ step \in Keeping => Starts(current)
    /\ step \in Replacing => Starts(backup)

SwapInvariant ==
    /\ helper \in [Appliers -> [step : HelperSteps, slot : Slots]]
    /\ running # NoBuild => Starts(current)
    /\ \A a \in Appliers : HelperSound(helper[a].step)
    /\ ~power => \A a \in Appliers : helper[a].step = "off"
    /\ WorkingCopyKept

\* Two helpers at once replace each other's copies: see MCUpdateTwice.
OneHelper == \A a, b \in Appliers :
    helper[a].step # "off" /\ helper[b].step # "off" => a = b

\* A helper's own step leaves the others, which are off, alone.
LEMMA HelperMoves ==
    ASSUME SwapInvariant, OneHelper, NEW a \in Appliers,
           helper[a].step # "off", NEW step \in HelperSteps,
           HelperTo(a, step) \/ (step = "off" /\ HelperEnds(a)),
           HelperSound(step)'
    PROVE  /\ helper' \in [Appliers -> [step : HelperSteps, slot : Slots]]
           /\ \A b \in Appliers : HelperSound(helper[b].step)'
  <1>1. Off \in [step : HelperSteps, slot : Slots] /\ Off.step = "off"
    BY DEF Off, HelperSteps, Slots
  <1>2. /\ helper' \in [Appliers -> [step : HelperSteps, slot : Slots]]
        /\ helper'[a].step = step
        /\ \A b \in Appliers \ {a} : helper'[b] = helper[b]
    <2>1. CASE HelperTo(a, step)
      BY <2>1 DEF HelperTo, SwapInvariant
    <2>2. CASE step = "off" /\ HelperEnds(a)
      BY <1>1, <2>2 DEF HelperEnds, SwapInvariant
    <2> QED
      BY <2>1, <2>2
  <1>3. \A b \in Appliers \ {a} : helper'[b].step = "off"
    BY <1>2 DEF OneHelper
  <1>4. \A b \in Appliers : helper'[b].step \in {step, "off"}
    BY <1>2, <1>3
  <1> QED
    BY <1>2, <1>4 DEF HelperSound, Stopped, Keeping, Replacing

\* Each step of the helper, with the computer on: the executable is given up
\* only when the kept one is whole, and the other way round.
LEMMA HelperStepSound ==
    ASSUME SwapInvariant, OneHelper, NEW a \in Appliers, HelperStep(a)
    PROVE  SwapInvariant'
  <1> DEFINE s == helper[a].step
  <1>a. HelperSound(s) /\ power /\ s # "off"
    BY DEF SwapInvariant, HelperStep, StopClients, Keep, Kept, Clear, Move,
           StartNew, Healthy, Unhealthy, Restore, Restored, HelperAt
  <1>b. SUFFICES \E step \in HelperSteps :
            /\ HelperTo(a, step) \/ (step = "off" /\ HelperEnds(a))
            /\ HelperSound(step)'
            /\ power' = power
            /\ (running # NoBuild => Starts(current))'
            /\ WorkingCopyKept'
    BY <1>a, HelperMoves DEF SwapInvariant
  <1> USE DEF HelperSound, Stopped, Keeping, Replacing, HelperSteps, HelperAt,
              WorkingCopyKept, Starts, Whole
  <1>1. CASE StopClients(a)
    BY <1>a, <1>1 DEF StopClients, files, SwapInvariant
  <1>2. CASE Keep(a)
    BY <1>a, <1>2 DEF Keep, process
  <1>3. CASE Kept(a)
    BY <1>a, <1>3 DEF Kept, process
  <1>4. CASE Clear(a)
    BY <1>a, <1>4 DEF Clear, process
  <1>5. CASE Move(a)
    BY <1>a, <1>5 DEF Move, process
  <1>6. CASE StartNew(a)
    BY <1>a, <1>6 DEF StartNew, files
  <1>7. CASE Healthy(a)
    BY <1>a, <1>7 DEF Healthy, files, SwapInvariant
  <1>8. CASE Unhealthy(a)
    BY <1>a, <1>8 DEF Unhealthy, files
  <1>9. CASE Restore(a)
    BY <1>a, <1>9 DEF Restore, process
  <1>10. CASE Restored(a)
    BY <1>a, <1>10 DEF Restored
  <1> QED
    BY <1>1, <1>2, <1>3, <1>4, <1>5, <1>6, <1>7, <1>8, <1>9, <1>10
    DEF HelperStep

\* A helper whose command fails leaves what it was about to replace, and a
\* whole copy beside it.
LEMMA HelperBreaksSound ==
    ASSUME SwapInvariant, OneHelper, NEW a \in Appliers, HelperBreaks(a)
    PROVE  SwapInvariant'
  <1> DEFINE s == helper[a].step
  <1>1. /\ HelperSound(s) /\ s # "off" /\ HelperEnds(a)
        /\ UNCHANGED <<backup, running, power>>
        /\ s \in Stopped \cup {"watch"}
        /\ s # "restored" => current' = current
        /\ s = "restored" => current' \in {current, backup}
    BY DEF SwapInvariant, HelperBreaks, Stopped
  <1>2. HelperSound("off")'
    BY DEF HelperSound, Stopped, Keeping, Replacing
  <1>3. /\ (running # NoBuild => Starts(current))'
        /\ WorkingCopyKept'
    <2>1. CASE s = "watch"
      BY <1>1, <2>1 DEF SwapInvariant, WorkingCopyKept, Starts, Whole
    <2>2. CASE s \in Stopped
      BY <1>1, <2>2
      DEF SwapInvariant, HelperSound, Stopped, Keeping, Replacing,
          WorkingCopyKept, Starts, Whole
    <2> QED
      BY <1>1, <2>1, <2>2
  <1>4. /\ helper' \in [Appliers -> [step : HelperSteps, slot : Slots]]
        /\ \A b \in Appliers : HelperSound(helper[b].step)'
    BY <1>1, <1>2, HelperMoves DEF HelperSteps
  <1>5. power
    BY DEF HelperBreaks
  <1> QED
    BY <1>1, <1>3, <1>4, <1>5 DEF SwapInvariant

\* What leaves the executables, the helpers, the power and the client alone.
LEMMA SwapRests ==
    ASSUME SwapInvariant,
           UNCHANGED <<current, backup, running, power, helper>>
    PROVE  SwapInvariant'
  BY DEF SwapInvariant, HelperSound, WorkingCopyKept, Starts, Whole

\* A helper is started by a client that serves: its executable starts.
LEMMA ScheduleSound ==
    ASSUME SwapInvariant, NEW a \in Appliers, NEW slot \in Slots,
           Schedule(a, slot), running # NoBuild, power,
           UNCHANGED <<current, backup, running, power>>
    PROVE  SwapInvariant'
  <1>1. \/ helper' = [helper EXCEPT ![a] = [step |-> "wait", slot |-> slot]]
        \/ helper' = helper
    BY DEF Schedule
  <1>2. /\ helper' \in [Appliers -> [step : HelperSteps, slot : Slots]]
        /\ \A b \in Appliers : helper'[b].step \in {helper[b].step, "wait"}
    BY <1>1 DEF SwapInvariant, HelperSteps
  <1>3. /\ Starts(current)' /\ (Starts(backup) => Starts(backup)')
        /\ WorkingCopyKept'
    BY DEF SwapInvariant, WorkingCopyKept, Starts, Whole
  <1>4. \A b \in Appliers : HelperSound(helper[b].step)'
    BY <1>2, <1>3
    DEF SwapInvariant, HelperSound, Stopped, Keeping, Replacing
  <1> QED
    BY <1>2, <1>3, <1>4 DEF SwapInvariant

\* Every step keeps the executable where a lone helper expects it.
LEMMA SwapStep ==
    ASSUME UpdShape, SwapInvariant, OneHelper, [UpdNext]_updVars
    PROVE  SwapInvariant'
  <1>1. CASE \/ \E b \in Builds : PublishUpdate(b)
             \/ DaemonSaves \/ DaemonRestarts \/ SetAutoUpdate
    BY <1>1, SwapRests DEF PublishUpdate, DaemonSaves, DaemonRestarts,
                           SetAutoUpdate, files, process
  <1>2. ASSUME NEW a \in Appliers,
               \/ \E auto \in BOOLEAN : Check(a, auto)
               \/ Measure(a) \/ Fetch(a) \/ Received(a) \/ GiveUp(a)
        PROVE  SwapInvariant'
    BY <1>2, SwapRests DEF Check, Measure, Fetch, Received, GiveUp, files,
                           process
  <1>3. ASSUME NEW a \in Appliers,
               Verify(a) \/ RemoveStaged(a) \/ Rename(a) \/ ReportHealth(a)
        PROVE  SwapInvariant'
    BY <1>3, SwapRests DEF Verify, RemoveStaged, Rename, ReportHealth, files,
                           process
  <1>4. ASSUME NEW a \in Appliers, ScheduleUpdate(a) PROVE SwapInvariant'
    <2>1. VersionAt(a) \in Slots
      BY DEF UpdShape, Jobs, VersionAt, Slots, Versions
    <2> QED
      BY <1>4, <2>1, ScheduleSound DEF ScheduleUpdate, files, Active
  <1>5. ASSUME NEW a \in Appliers, ApplyRollback(a) PROVE SwapInvariant'
    BY <1>5, ScheduleSound DEF ApplyRollback, Active, Slots
  <1>6. ASSUME NEW a \in Appliers, HelperStep(a) \/ HelperBreaks(a)
        PROVE  SwapInvariant'
    BY <1>6, HelperStepSound, HelperBreaksSound
  <1>7. CASE Exit
    <2>1. UNCHANGED <<current, backup, power, helper>> /\ running' = NoBuild
      BY <1>7 DEF Exit, files
    <2> QED
      BY <2>1 DEF SwapInvariant, HelperSound, WorkingCopyKept, Starts, Whole
  <1>8. CASE PowerFails
    <2>1. /\ UNCHANGED <<current, backup>> /\ running' = NoBuild
          /\ helper' = [a \in Appliers |-> Off]
      BY <1>8 DEF PowerFails, files
    <2> QED
      BY <2>1 DEF SwapInvariant, HelperSound, WorkingCopyKept, Starts, Whole,
                  Off, HelperSteps, Slots, Stopped, Keeping, Replacing
  <1>9. CASE LogsOn
    <2>1. /\ UNCHANGED <<current, backup, helper>> /\ power'
          /\ running' # NoBuild => Starts(current)
          /\ \A a \in Appliers : helper[a].step = "off"
      BY <1>9 DEF LogsOn, files, SwapInvariant
    <2> QED
      BY <2>1 DEF SwapInvariant, HelperSound, WorkingCopyKept, Starts, Whole,
                  Stopped, Keeping, Replacing
  <1>10. CASE UNCHANGED updVars
    BY <1>10, SwapRests DEF updVars, files, process
  <1> QED
    BY <1>1, <1>2, <1>3, <1>4, <1>5, <1>6, <1>7, <1>8, <1>9, <1>10
    DEF UpdNext

\* No helper runs at the start.
LEMMA SwapInit == ASSUME UpdInit PROVE SwapInvariant
  <1>1. current = [of |-> First, full |-> TRUE] /\ running = First /\ power
    BY DEF UpdInit
  <1>2. [of |-> First, full |-> TRUE] # NoBuild /\ First # NoBuild
    <2>1. First \in Builds
      BY UpdateAssumption DEF UpdateAssumption
    <2>2. [of |-> First, full |-> TRUE] \in
              [of : Builds \cup {NoBuild}, full : BOOLEAN]
      BY <2>1
    <2> QED
      BY <2>1, <2>2, UpdateAssumption DEF UpdateAssumption
  <1>3. Starts(current)
    BY <1>1, <1>2, UpdateAssumption DEF UpdateAssumption, Starts, Whole
  <1>4. helper = [a \in Appliers |-> Off]
    BY DEF UpdInit
  <1> QED
    BY <1>1, <1>3, <1>4
    DEF SwapInvariant, WorkingCopyKept, HelperSound, Off, HelperSteps, Slots,
        Stopped, Keeping, Replacing

\* While no two helpers run at once, a complete executable that starts and
\* reports its health is there at every moment, in its place or beside it:
\* whichever packages are published and wherever the power or a command of the
\* helper fails.
THEOREM UpdateKeepsWorkingCopy ==
    UpdSpec /\ []OneHelper => []WorkingCopyKept
  <1>1. UpdInit => UpdShape /\ SwapInvariant
    BY ShapeInit, SwapInit
  <1>2. UpdShape /\ SwapInvariant /\ OneHelper /\ [UpdNext]_updVars
            => (UpdShape /\ SwapInvariant)'
    BY ShapeStep, SwapStep
  <1>3. SwapInvariant => WorkingCopyKept
    BY DEF SwapInvariant
  <1> QED
    BY <1>1, <1>2, <1>3, PTL DEF UpdSpec

-----------------------------------------------------------------------------
(* What is staged.                                                         *)

Verified(b) == [of |-> b, full |-> TRUE]

\* Past its verification the part is what the manifest named, or gone.
JobSound(j) ==
    /\ j.step # "idle" => j.target \in published
    /\ j.step \in {"replace", "rename"} =>
        part[VersionOf[j.target]] \in {NoBuild, Verified(j.target)}

StagingInvariant ==
    /\ UpdShape /\ DOMAIN staged = Slots
    /\ {listed, manifest} \subseteq published \cup {NoBuild}
    /\ \A a \in Appliers : JobSound(job[a])
    /\ StagedIsPublished

\* Two downloads of one version at once write one part.
OneJob == \A a, b \in Appliers :
    job[a].step # "idle" /\ job[b].step # "idle" => a = b

\* The file kept for a rollback is not a staged version.
LEMMA RollbackIsNoVersion ==
    RollbackSlot \notin Versions /\ Versions \subseteq Slots
  BY UpdateAssumption
  DEF UpdateAssumption, RollbackSlot, Versions, Slots

\* What leaves the staged versions alone, or removes some of them.
LEMMA StagedRests ==
    ASSUME StagingInvariant, DOMAIN staged' = Slots,
           \A v \in Versions : staged'[v] \in {staged[v], NoBuild},
           published \subseteq published'
    PROVE  StagedIsPublished'
  <1> SUFFICES ASSUME NEW v \in Versions, staged'[v] # NoBuild
               PROVE  /\ Whole(staged'[v])
                      /\ staged'[v].of \in published'
                      /\ VersionOf[staged'[v].of] = v
    BY DEF StagedIsPublished, Whole
  <1> QED
    BY DEF StagingInvariant, StagedIsPublished, Whole

\* What leaves the requests alone, or ends them all.
LEMMA JobsRest ==
    ASSUME StagingInvariant, UNCHANGED part, published \subseteq published',
           job' = job \/ job' = [a \in Appliers |-> AtEase]
    PROVE  \A a \in Appliers : JobSound(job[a])'
  BY DEF StagingInvariant, JobSound, AtEase

\* A request that moves on is the only one.
LEMMA JobMoves ==
    ASSUME StagingInvariant, OneJob, NEW a \in Appliers,
           job[a].step # "idle", UNCHANGED published,
           NEW step \in JobSteps, Goto(a, step) \/ Drop(a),
           step \in {"replace", "rename"} /\ Goto(a, step) =>
               part'[VersionAt(a)] \in {NoBuild, Verified(job[a].target)}
    PROVE  \A b \in Appliers : JobSound(job[b])'
  <1>1. /\ \A b \in Appliers \ {a} : job'[b] = job[b]
        /\ Goto(a, step) =>
             /\ job'[a].step = step /\ job'[a].target = job[a].target
        /\ Drop(a) => job'[a] = AtEase
    BY GotoShape DEF StagingInvariant
  <1>2. ASSUME NEW b \in Appliers \ {a} PROVE JobSound(job[b])'
    <2>1. job'[b].step = "idle"
      BY <1>1 DEF OneJob
    <2> QED
      BY <2>1 DEF JobSound
  <1>3. JobSound(job[a])'
    BY <1>1 DEF JobSound, AtEase, VersionAt, StagingInvariant
  <1> QED
    BY <1>2, <1>3

\* Every step keeps what a lone request has staged and verified.
LEMMA StagingStep ==
    ASSUME StagingInvariant, OneJob, [UpdNext]_updVars
    PROVE  StagingInvariant'
  <1>a. UpdShape'
    BY ShapeStep DEF StagingInvariant
  <1>1. ASSUME NEW b \in Builds, PublishUpdate(b) PROVE StagingInvariant'
    BY <1>1, <1>a, StagedRests, JobsRest
    DEF PublishUpdate, StagingInvariant, files
  <1>2. CASE DaemonSaves \/ DaemonRestarts \/ SetAutoUpdate
    BY <1>2, <1>a, StagedRests, JobsRest
    DEF DaemonSaves, DaemonRestarts, SetAutoUpdate, StagingInvariant, files,
        serverVars
  <1>3. ASSUME NEW a \in Appliers, NEW auto \in BOOLEAN, Check(a, auto)
        PROVE  StagingInvariant'
    <2>1. /\ UNCHANGED <<listed, manifest, published, part, staged>>
          /\ manifest \in published
          /\ job' = [job EXCEPT ![a] = [step |-> "ask", target |-> manifest]]
      BY <1>3 DEF Check, Offered, StagingInvariant, files, serverVars
    <2>2. \A b \in Appliers :
              \/ job'[b] = job[b]
              \/ job'[b].step = "ask" /\ job'[b].target = manifest
      BY <2>1 DEF StagingInvariant, UpdShape
    <2>3. \A b \in Appliers : JobSound(job[b])'
      BY <2>1, <2>2 DEF StagingInvariant, JobSound
    <2> QED
      BY <1>a, <2>1, <2>3, StagedRests DEF StagingInvariant
  <1>4. ASSUME NEW a \in Appliers,
               Measure(a) \/ Fetch(a) \/ Received(a) \/ GiveUp(a)
        PROVE  StagingInvariant'
    <2>1. /\ UNCHANGED <<listed, manifest, published, staged>>
          /\ job[a].step # "idle"
          /\ \E step \in {"ask", "fetch", "copy", "verify"} :
                Goto(a, step) \/ Drop(a)
      BY <1>4 DEF Measure, Fetch, Received, GiveUp, Active, files, serverVars
    <2>2. \A b \in Appliers : JobSound(job[b])'
      BY <2>1, JobMoves DEF JobSteps
    <2> QED
      BY <1>a, <2>1, <2>2, StagedRests DEF StagingInvariant
  <1>5. ASSUME NEW a \in Appliers, Verify(a) PROVE StagingInvariant'
    <2>1. /\ UNCHANGED <<listed, manifest, published, staged>>
          /\ job[a].step # "idle"
          /\ \/ Drop(a)
             \/ /\ Goto(a, "replace")
                /\ part'[VersionAt(a)] = Verified(job[a].target)
      BY <1>5 DEF Verified, Verify, Active, serverVars
    <2>2. \A b \in Appliers : JobSound(job[b])'
      BY <2>1, JobMoves DEF JobSteps
    <2> QED
      BY <1>a, <2>1, <2>2, StagedRests DEF StagingInvariant
  <1>6. ASSUME NEW a \in Appliers, RemoveStaged(a) PROVE StagingInvariant'
    <2>1. /\ UNCHANGED <<listed, manifest, published, part>>
          /\ job[a].step = "replace" /\ Goto(a, "rename")
          /\ staged' = [staged EXCEPT ![VersionAt(a)] = NoBuild]
      BY <1>6 DEF RemoveStaged, Active, serverVars
    <2>2. \A b \in Appliers : JobSound(job[b])'
      BY <2>1, JobMoves DEF JobSteps, StagingInvariant, JobSound, VersionAt
    <2>3. /\ DOMAIN staged' = Slots
          /\ \A v \in Versions : staged'[v] \in {staged[v], NoBuild}
      BY <2>1, RollbackIsNoVersion DEF StagingInvariant
    <2> QED
      BY <1>a, <2>1, <2>2, <2>3, StagedRests DEF StagingInvariant
  <1>7. ASSUME NEW a \in Appliers, Rename(a) PROVE StagingInvariant'
    <2>1. /\ UNCHANGED <<listed, manifest, published>>
          /\ job[a].step = "rename" /\ (Drop(a) \/ Goto(a, "schedule"))
          /\ \/ UNCHANGED staged
             \/ /\ part[VersionAt(a)] # NoBuild
                /\ staged' = [staged EXCEPT ![VersionAt(a)] =
                                                part[VersionAt(a)]]
      BY <1>7 DEF Rename, Active, serverVars
    <2>2. \A b \in Appliers : JobSound(job[b])'
      BY <2>1, JobMoves DEF JobSteps
    <2>3. CASE UNCHANGED staged
      BY <1>a, <2>1, <2>2, <2>3, StagedRests DEF StagingInvariant
    <2>4. CASE /\ part[VersionAt(a)] # NoBuild
               /\ staged' = [staged EXCEPT ![VersionAt(a)] =
                                               part[VersionAt(a)]]
      <3>1. /\ part[VersionAt(a)] = Verified(job[a].target)
            /\ job[a].target \in published /\ job[a].target # NoBuild
        BY <2>1, <2>4, UpdateAssumption
        DEF StagingInvariant, JobSound, VersionAt, UpdShape, UpdateAssumption
      <3>2. Whole(part[VersionAt(a)])
        BY <2>4, <3>1 DEF Whole, Verified
      <3>3. ASSUME NEW v \in Versions, staged'[v] # NoBuild
            PROVE  /\ Whole(staged'[v])
                   /\ staged'[v].of \in published
                   /\ VersionOf[staged'[v].of] = v
        <4>1. CASE v = VersionAt(a)
          BY <2>4, <3>1, <3>2, <4>1, RollbackIsNoVersion
          DEF Verified, StagingInvariant, VersionAt
        <4>2. CASE v # VersionAt(a)
          BY <2>4, <3>3, <4>2, RollbackIsNoVersion
          DEF StagingInvariant, StagedIsPublished
        <4> QED
          BY <4>1, <4>2
      <3>4. StagedIsPublished'
        BY <2>1, <3>3 DEF StagedIsPublished, Whole
      <3> QED
        BY <1>a, <2>1, <2>2, <2>4, <3>4 DEF StagingInvariant
    <2> QED
      BY <2>1, <2>3, <2>4
  <1>8. ASSUME NEW a \in Appliers, ScheduleUpdate(a) PROVE StagingInvariant'
    <2>1. /\ UNCHANGED <<listed, manifest, published, staged>>
          /\ job[a].step = "schedule" /\ Drop(a)
      BY <1>8 DEF ScheduleUpdate, Schedule, Active, serverVars, files
    <2>2. \A b \in Appliers : JobSound(job[b])'
      BY <2>1, JobMoves DEF JobSteps
    <2> QED
      BY <1>a, <2>1, <2>2, StagedRests DEF StagingInvariant
  <1>9. ASSUME NEW a \in Appliers, ApplyRollback(a) PROVE StagingInvariant'
    <2>1. /\ UNCHANGED <<listed, manifest, published, part>>
          /\ job' = [job EXCEPT ![a] = AtEase]
          /\ staged' = [staged EXCEPT ![RollbackSlot] = backup]
      BY <1>9 DEF ApplyRollback, Schedule, Drop, serverVars
    <2>2. \A b \in Appliers : JobSound(job[b])'
      <3>1. \A b \in Appliers : job'[b] \in {job[b], AtEase}
        BY <2>1 DEF StagingInvariant, UpdShape
      <3> QED
        BY <2>1, <3>1 DEF StagingInvariant, JobSound, AtEase
    <2>3. /\ DOMAIN staged' = Slots
          /\ \A v \in Versions : staged'[v] = staged[v]
      BY <2>1, RollbackIsNoVersion DEF StagingInvariant
    <2> QED
      BY <1>a, <2>1, <2>2, <2>3, StagedRests DEF StagingInvariant
  <1>10. ASSUME NEW a \in Appliers,
               HelperStep(a) \/ HelperBreaks(a) \/ ReportHealth(a)
         PROVE  StagingInvariant'
    <2>1. /\ UNCHANGED <<listed, manifest, published, part>>
          /\ job' = job \/ job' = [b \in Appliers |-> AtEase]
      BY <1>10 DEF HelperStep, StopClients, Keep, Kept, Clear, Move, StartNew,
                  Healthy, Unhealthy, Restore, Restored, ReportHealth,
                  HelperBreaks, serverVars, files
    <2>2. \/ staged' = staged
          \/ staged' = [staged EXCEPT ![helper[a].slot] = NoBuild]
      BY <1>10 DEF HelperStep, StopClients, Keep, Kept, Clear, Move, StartNew,
                  Healthy, Unhealthy, Restore, Restored, ReportHealth,
                  HelperBreaks, files
    <2>3. /\ DOMAIN staged' = Slots
          /\ \A v \in Versions : staged'[v] \in {staged[v], NoBuild}
      BY <2>2, RollbackIsNoVersion DEF StagingInvariant
    <2> QED
      BY <1>a, <2>1, <2>3, StagedRests, JobsRest DEF StagingInvariant
  <1>11. CASE Exit \/ PowerFails \/ LogsOn \/ UNCHANGED updVars
    <2>1. /\ UNCHANGED <<listed, manifest, published, part, staged>>
          /\ job' = job \/ job' = [b \in Appliers |-> AtEase]
      BY <1>11 DEF Exit, PowerFails, LogsOn, updVars, serverVars, files
    <2> QED
      BY <1>a, <2>1, StagedRests, JobsRest DEF StagingInvariant
  <1> QED
    BY <1>1, <1>2, <1>3, <1>4, <1>5, <1>6, <1>7, <1>8, <1>9, <1>10, <1>11
    DEF UpdNext

\* While no two downloads run at once, what is staged as a version is a package
\* that was published as that version, byte for byte: whatever the answers
\* were resumed with and wherever downloads, clients or the power stopped.
THEOREM StagedWasPublished == UpdSpec /\ []OneJob => []StagedIsPublished
  <1>1. UpdInit => StagingInvariant
    <2> SUFFICES ASSUME UpdInit PROVE StagingInvariant
      OBVIOUS
    <2>1. \A a \in Appliers : JobSound(job[a])
      BY DEF UpdInit, JobSound, AtEase
    <2>2. DOMAIN staged = Slots /\ StagedIsPublished
      BY RollbackIsNoVersion DEF UpdInit, StagedIsPublished
    <2> QED
      BY <2>1, <2>2, ShapeInit DEF UpdInit, StagingInvariant
  <1>2. StagingInvariant /\ OneJob /\ [UpdNext]_updVars => StagingInvariant'
    BY StagingStep
  <1>3. StagingInvariant => StagedIsPublished
    BY DEF StagingInvariant
  <1> QED
    BY <1>1, <1>2, <1>3, PTL DEF UpdSpec
=============================================================================
