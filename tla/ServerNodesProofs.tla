------------------------- MODULE ServerNodesProofs --------------------------
(***************************************************************************)
(* Proofs about the Nebula child of a server process (NebulaChild), for    *)
(* any handlers and any number of children, and about the child nodes of   *)
(* the main server (MeshNodes), for any nodes, addresses and bounds.       *)
(***************************************************************************)
EXTENDS NebulaChild, MeshNodes, TLAPS

-----------------------------------------------------------------------------
(* The Nebula child of a server process.                                   *)

Stages == {"running", "killed", "dead", "waited", "over"}

\* Every state of the child and its goroutines is well formed.
THEOREM ChildTypeCorrect == Spec => []ChildTypeOK
  <1>1. Init => ChildTypeOK
    BY ChildAssumption DEF Init, ChildTypeOK, Children
  <1>2. ChildTypeOK /\ [Next]_vars => ChildTypeOK'
    <2> SUFFICES ASSUME ChildTypeOK, [Next]_vars PROVE ChildTypeOK'
      OBVIOUS
    <2> USE ChildAssumption DEF ChildTypeOK, Children
    <2>1. ASSUME NEW h \in Handlers, Enter(h) PROVE ChildTypeOK'
      BY <2>1 DEF Enter, Goto
    <2>2. ASSUME NEW h \in Handlers, SaveFails(h) PROVE ChildTypeOK'
      BY <2>2 DEF SaveFails, Fails, Goto
    <2>3. ASSUME NEW h \in Handlers, StartLocked(h)
          PROVE  /\ cmd' \in 0 .. MaxChildren
                 /\ child' \in [Children -> Stages]
                 /\ behind' \subseteq Children
                 /\ good' \in [Handlers -> BOOLEAN]
                 /\ pc' = [pc EXCEPT ![h] = "reply"]
      <3>1. CASE Fails(h) /\ UNCHANGED <<cmd, child, behind>>
        BY <3>1 DEF Fails, Goto, Stages
      <3>2. ASSUME NEW k \in Children,
                   child' = [child EXCEPT ![k] = "running"],
                   cmd' = k,
                   behind' = behind \ {k},
                   good' = [good EXCEPT ![h] = TRUE],
                   Goto(h, "reply")
            PROVE  /\ cmd' \in 0 .. MaxChildren
                   /\ child' \in [Children -> Stages]
                   /\ behind' \subseteq Children
                   /\ good' \in [Handlers -> BOOLEAN]
                   /\ pc' = [pc EXCEPT ![h] = "reply"]
        BY <3>2 DEF Goto, Stages
      <3> QED
        BY <2>3, <3>1, <3>2 DEF StartLocked
    <2>4. ASSUME NEW h \in Handlers, RestartStarts(h) PROVE ChildTypeOK'
      <3>1. /\ cmd' \in 0 .. MaxChildren
            /\ child' \in [Children -> Stages]
            /\ behind' \subseteq Children
            /\ good' \in [Handlers -> BOOLEAN]
            /\ pc' = [pc EXCEPT ![h] = "reply"]
        BY <2>3, <2>4 DEF RestartStarts
      <3> QED
        BY <2>4, <3>1 DEF RestartStarts, Stages
    <2>5. ASSUME NEW h \in Handlers, RestartKills(h) PROVE ChildTypeOK'
      BY <2>5 DEF RestartKills, Kill, Goto
    <2>6. ASSUME NEW h \in Handlers, RestartGoesOn(h) PROVE ChildTypeOK'
      <3>1. /\ cmd' \in 0 .. MaxChildren
            /\ child' \in [Children -> Stages]
            /\ behind' \subseteq Children
            /\ good' \in [Handlers -> BOOLEAN]
            /\ pc' = [pc EXCEPT ![h] = "reply"]
        BY <2>3, <2>6 DEF RestartGoesOn
      <3> QED
        BY <2>6, <3>1 DEF RestartGoesOn, Stages
    <2>7. ASSUME NEW h \in Handlers, RestartTimesOut(h) PROVE ChildTypeOK'
      BY <2>7 DEF RestartTimesOut, Fails, Goto
    <2>8. ASSUME NEW h \in Handlers, Reply(h) PROVE ChildTypeOK'
      BY <2>8 DEF Reply, Goto
    <2>9. ASSUME NEW k \in Children, ChildStep(k) PROVE ChildTypeOK'
      <3>1. CASE Exits(k) \/ ClosesDone(k)
        BY <3>1 DEF Exits, ClosesDone
      <3>2. CASE LogsHandshake(k) \/ ReadsHandshake(k)
        BY <3>2 DEF LogsHandshake, ReadsHandshake
      <3>3. CASE Waited(k)
        BY <3>3 DEF Waited
      <3> QED
        BY <2>9, <3>1, <3>2, <3>3 DEF ChildStep
    <2>10. CASE StopKills
      BY <2>10 DEF StopKills, Kill
    <2>11. CASE StopReturns
      BY <2>11 DEF StopReturns
    <2>12. CASE UNCHANGED vars
      BY <2>12 DEF vars
    <2> QED
      BY <2>1, <2>2, <2>4, <2>5, <2>6, <2>7, <2>8, <2>9, <2>10, <2>11, <2>12
      DEF Next, HandlerStep, Restart
  <1> QED
    BY <1>1, <1>2, PTL DEF Spec

-----------------------------------------------------------------------------
(* The main server.  p.cmd is the child whose waiter has not returned: it  *)
(* is not enough to say so of the children that live, because a handler    *)
(* starts another one when p.cmd is nil, and p.cmd may point to a dead one *)
(* whose output is unread.  The mutex makes all this stable while a        *)
(* handler waits.                                                          *)

Unwaited(k) == child[k] \in {"running", "killed", "dead"}

OnlyCommand == \A k \in Children : Unwaited(k) <=> cmd = k
HolderOnly == \A h \in Handlers : pc[h] # "idle" => mutex = h
WaitsForCommand == \A h \in Handlers :
    pc[h] = "waiting" => cmd \in {0, target[h]}
Loaded == \A h \in Handlers :
    pc[h] = "reply" /\ good[h] =>
        \A k \in Children : Alive(k) => k \notin behind

ServerInv == OnlyCommand /\ HolderOnly /\ WaitsForCommand /\ Loaded

\* A child is started only when p.cmd is nil, and is then the only one.
LEMMA StartKeepsInv ==
    ASSUME ChildTypeOK, ServerInv, NEW h \in Handlers, cmd = 0, StartLocked(h),
           pc[h] # "idle", target' \in {target, [target EXCEPT ![h] = 0]},
           UNCHANGED mutex
    PROVE  ServerInv'
  <1>1. \A j \in Handlers : j # h => pc[j] = "idle"
    BY DEF ServerInv, HolderOnly
  <1>2. pc' = [pc EXCEPT ![h] = "reply"]
    BY DEF StartLocked, Fails, Goto
  <1>3. HolderOnly' /\ WaitsForCommand'
    BY <1>1, <1>2 DEF ChildTypeOK, ServerInv, HolderOnly, WaitsForCommand
  <1>4. \A k \in Children : ~Unwaited(k)
    BY DEF ServerInv, OnlyCommand, Children
  <1>5. CASE Fails(h) /\ UNCHANGED <<cmd, child, behind>>
    <2>1. good' = [good EXCEPT ![h] = FALSE]
      BY <1>5 DEF Fails
    <2>2. OnlyCommand'
      BY <1>5 DEF ServerInv, OnlyCommand, Unwaited
    <2>3. Loaded'
      BY <1>1, <1>2, <2>1 DEF ChildTypeOK, Loaded
    <2> QED
      BY <1>3, <2>2, <2>3 DEF ServerInv
  <1>6. ASSUME NEW k \in Children,
               child' = [child EXCEPT ![k] = "running"],
               cmd' = k,
               behind' = behind \ {k}
        PROVE  ServerInv'
    <2>1. OnlyCommand'
      BY <1>4, <1>6 DEF ChildTypeOK, OnlyCommand, Unwaited
    <2>2. \A j \in Children : Alive(j)' => j = k
      BY <1>4, <1>6 DEF ChildTypeOK, Alive, Unwaited
    <2>3. Loaded'
      BY <1>6, <2>2 DEF Loaded
    <2> QED
      BY <1>3, <2>1, <2>3 DEF ServerInv
  <1> QED
    BY <1>5, <1>6 DEF StartLocked

\* Killing the child leaves it to its waiter.
LEMMA KillKeepsStages ==
    ASSUME ChildTypeOK, cmd # 0, Kill
    PROVE  \A k \in Children : /\ Unwaited(k)' <=> Unwaited(k)
                               /\ Alive(k)' => Alive(k)
  BY DEF ChildTypeOK, Kill, Unwaited, Alive, Children

\* Every step of the main server keeps the invariant.
LEMMA ServerInvInductive ==
    ASSUME MainServer, ChildTypeOK, ServerInv, [Next]_vars
    PROVE  ServerInv'
  <1> USE DEF ServerInv
  <1>1. ASSUME NEW h \in Handlers, Enter(h) PROVE ServerInv'
    <2>1. \A j \in Handlers : pc[j] = "idle"
      BY <1>1, ChildAssumption DEF Enter, HolderOnly
    <2>2. HolderOnly' /\ WaitsForCommand' /\ Loaded'
      BY <1>1, <2>1
      DEF ChildTypeOK, Enter, Goto, HolderOnly, WaitsForCommand, Loaded
    <2>3. OnlyCommand'
      BY <1>1 DEF Enter, OnlyCommand, Unwaited
    <2> QED
      BY <2>2, <2>3
  <1>2. ASSUME NEW h \in Handlers, SaveFails(h) PROVE ServerInv'
    BY <1>2 DEF ChildTypeOK, SaveFails, Fails, Goto, OnlyCommand, HolderOnly,
                WaitsForCommand, Loaded, Unwaited, Alive
  <1>3. ASSUME NEW h \in Handlers, RestartStarts(h) PROVE ServerInv'
    BY <1>3, StartKeepsInv DEF RestartStarts
  <1>4. ASSUME NEW h \in Handlers, RestartKills(h) PROVE ServerInv'
    <2>1. \A j \in Handlers : j # h => pc[j] = "idle"
      BY <1>4 DEF RestartKills, HolderOnly
    <2>2. OnlyCommand'
      BY <1>4, KillKeepsStages DEF RestartKills, OnlyCommand
    <2>3. HolderOnly' /\ WaitsForCommand' /\ Loaded'
      BY <1>4, <2>1 DEF ChildTypeOK, RestartKills, Goto, HolderOnly,
                        WaitsForCommand, Loaded
    <2> QED
      BY <2>2, <2>3
  <1>5. ASSUME NEW h \in Handlers, RestartGoesOn(h) PROVE ServerInv'
    <2>1. child[target[h]] = "over" /\ cmd \in {0, target[h]}
      BY <1>5 DEF RestartGoesOn, WaitsForCommand
    <2>2. cmd = 0
      BY <2>1 DEF ChildTypeOK, OnlyCommand, Unwaited, Children
    <2> QED
      BY <1>5, <2>2, StartKeepsInv DEF RestartGoesOn
  <1>6. ASSUME NEW h \in Handlers, RestartTimesOut(h) PROVE ServerInv'
    BY <1>6 DEF ChildTypeOK, RestartTimesOut, Fails, Goto, OnlyCommand,
                HolderOnly, WaitsForCommand, Loaded, Unwaited, Alive
  <1>7. ASSUME NEW h \in Handlers, Reply(h) PROVE ServerInv'
    <2>1. \A j \in Handlers : j # h => pc[j] = "idle"
      BY <1>7 DEF Reply, HolderOnly
    <2>2. HolderOnly' /\ WaitsForCommand' /\ Loaded'
      BY <1>7, <2>1
      DEF ChildTypeOK, Reply, Goto, HolderOnly, WaitsForCommand, Loaded
    <2>3. OnlyCommand'
      BY <1>7 DEF Reply, OnlyCommand, Unwaited
    <2> QED
      BY <2>2, <2>3
  <1>8. ASSUME NEW k \in Children, Exits(k) PROVE ServerInv'
    <2>1. OnlyCommand'
      BY <1>8 DEF ChildTypeOK, Exits, OnlyCommand, Unwaited, Alive
    <2>2. HolderOnly' /\ WaitsForCommand' /\ Loaded'
      BY <1>8 DEF ChildTypeOK, Exits, HolderOnly, WaitsForCommand, Loaded, Alive
    <2> QED
      BY <2>1, <2>2
  <1>9. ASSUME NEW k \in Children, LogsHandshake(k) \/ ReadsHandshake(k)
        PROVE  ServerInv'
    BY <1>9 DEF LogsHandshake, ReadsHandshake, OnlyCommand, HolderOnly,
                WaitsForCommand, Loaded, Unwaited, Alive
  <1>10. ASSUME NEW k \in Children, Waited(k) PROVE ServerInv'
    <2>1. cmd = k /\ cmd' = 0
      BY <1>10 DEF Waited, OnlyCommand, Unwaited
    <2>2. OnlyCommand'
      BY <1>10, <2>1 DEF ChildTypeOK, Waited, OnlyCommand, Unwaited, Children
    <2>3. HolderOnly' /\ WaitsForCommand' /\ Loaded'
      BY <1>10, <2>1
      DEF ChildTypeOK, Waited, HolderOnly, WaitsForCommand, Loaded, Alive
    <2> QED
      BY <2>2, <2>3
  <1>11. ASSUME NEW k \in Children, ClosesDone(k) PROVE ServerInv'
    BY <1>11 DEF ChildTypeOK, ClosesDone, OnlyCommand, HolderOnly,
                 WaitsForCommand, Loaded, Unwaited, Alive
  <1>12. CASE StopKills
    <2>1. CASE cmd = 0
      BY <1>12, <2>1 DEF StopKills, OnlyCommand, HolderOnly, WaitsForCommand,
                         Loaded, Unwaited, Alive
    <2>2. CASE cmd # 0
      <3>1. OnlyCommand' /\ Loaded'
        BY <1>12, <2>2, KillKeepsStages DEF StopKills, OnlyCommand, Loaded
      <3>2. HolderOnly' /\ WaitsForCommand'
        BY <1>12 DEF StopKills, HolderOnly, WaitsForCommand
      <3> QED
        BY <3>1, <3>2
    <2> QED
      BY <2>1, <2>2
  <1>13. CASE StopReturns \/ UNCHANGED vars
    BY <1>13 DEF StopReturns, vars, OnlyCommand, HolderOnly, WaitsForCommand,
                 Loaded, Unwaited, Alive
  <1> QED
    BY <1>1, <1>2, <1>3, <1>4, <1>5, <1>6, <1>7, <1>8, <1>9, <1>10, <1>11,
       <1>12, <1>13
    DEF Next, HandlerStep, Restart, ChildStep

\* The invariant holds throughout on the main server.
LEMMA ServerInvCorrect == ASSUME MainServer PROVE Spec => []ServerInv
  <1>1. Init => ServerInv
    BY ChildAssumption DEF Init, ServerInv, OnlyCommand, HolderOnly,
                           WaitsForCommand, Loaded, Unwaited, Children
  <1>2. ChildTypeOK /\ ServerInv /\ [Next]_vars => ServerInv'
    BY ServerInvInductive
  <1> QED
    BY <1>1, <1>2, ChildTypeCorrect, PTL DEF Spec

\* On the main server no Nebula process lives that p.cmd does not point to.
THEOREM ChildrenStayTracked == Spec => []AliveIsTracked
  <1>1. CASE MainServer
    <2>1. ServerInv => AliveIsTracked
      BY DEF ServerInv, OnlyCommand, AliveIsTracked, Alive, Unwaited
    <2> QED
      BY <1>1, <2>1, ServerInvCorrect, PTL
  <1>2. CASE ~MainServer
    <2>1. AliveIsTracked
      BY <1>2 DEF AliveIsTracked
    <2> QED
      BY <2>1, PTL
  <1> QED
    BY <1>1, <1>2

\* A Restart of the main server that returned without an error left no process
\* alive with an older config.
THEOREM AnswersMeanLoaded == Spec => []AnsweredConfigLoaded
  <1>1. CASE MainServer
    <2>1. ServerInv => AnsweredConfigLoaded
      BY DEF ServerInv, Loaded, AnsweredConfigLoaded
    <2> QED
      BY <1>1, <2>1, ServerInvCorrect, PTL
  <1>2. CASE ~MainServer
    <2>1. AnsweredConfigLoaded
      BY <1>2 DEF AnsweredConfigLoaded
    <2> QED
      BY <2>1, PTL
  <1> QED
    BY <1>1, <1>2

-----------------------------------------------------------------------------
(* The child nodes.                                                        *)

NodeRecords == [addr : Addrs, online : BOOLEAN, running : BOOLEAN,
                failures : 0 .. 3]
Requests == [node : Nodes, addr : Addrs, live : BOOLEAN,
             answer : {Absent, "starting", "ok", "failed"}]
AgentStates == [up : BOOLEAN, nebula : BOOLEAN, enrolled : BOOLEAN,
                addr : Addrs \cup {Absent}]
AgentFiles == [enrolled : BOOLEAN, addr : Addrs \cup {Absent}]

\* What memory and state file of the server list: nodes that keep their
\* enrolment with the listed address, none of them deleted, no address twice.
ListSound(s) ==
    /\ s \in MeshState
    /\ \A n \in Listed(s) :
          /\ n \notin removed
          /\ agentDisk[n].enrolled /\ agentDisk[n].addr = s.nodes[n].addr
          /\ s.nodes[n].addr \notin s.devices
          /\ \A k \in Listed(s) \ {n} : s.nodes[k].addr # s.nodes[n].addr

\* A process knows the enrolment its file has.  A request that is carried out
\* left its address there, and so did every node that was deleted.
AgentsSound ==
    /\ agent \in [Nodes -> AgentStates] /\ agentDisk \in [Nodes -> AgentFiles]
    /\ check \in [todo : SUBSET Nodes, node : Nodes \cup {Absent},
                  nebula : BOOLEAN,
                  result : {Absent, "healthy", "pushed", "failed"}]
    /\ \A n \in Nodes : agentDisk[n].enrolled /\ agent[n].up =>
          agent[n].enrolled /\ agent[n].addr = agentDisk[n].addr
    /\ \A n \in removed : n \in Nodes /\ agentDisk[n].enrolled

CarriedOut(p) == p.answer \in {"starting", "ok"} =>
    agentDisk[p.node].enrolled /\ agentDisk[p.node].addr = p.addr

\* stateMu: the handler in addMeshNode waits for one request, about an address
\* nobody has and a node that was never deleted.
HandlerSound ==
    /\ posts \subseteq Requests
    /\ adding = Idle => \A p \in posts : ~p.live
    /\ \A p, q \in posts : p.live /\ q.live => p = q
    /\ \A p \in posts : p.live => FreeOf(p.addr) /\ p.node \notin removed
    /\ \A p \in posts : CarriedOut(p)

MeshInvariant ==
    ListSound(mesh) /\ ListSound(meshDisk) /\ AgentsSound /\ HandlerSound

-----------------------------------------------------------------------------
(* The lists.                                                              *)

\* A list of fewer nodes and devices is as sound.
LEMMA FewerListed ==
    ASSUME NEW s, NEW t \in MeshState, ListSound(s),
           t.devices \subseteq s.devices,
           \A n \in Listed(t) :
                n \in Listed(s) /\ t.nodes[n].addr = s.nodes[n].addr
    PROVE  ListSound(t)
  BY DEF ListSound, MeshState

\* Nothing takes an enrolment out of a node's file.
LEMMA ListStays ==
    ASSUME NEW s, ListSound(s), removed' = removed,
           \A n \in Nodes : agentDisk[n].enrolled =>
               agentDisk'[n].enrolled /\ agentDisk'[n].addr = agentDisk[n].addr
    PROVE  ListSound(s)'
  BY DEF ListSound, MeshState, Listed

\* The file is what it was, or what memory is.
LEMMA SavedList ==
    ASSUME MeshInvariant, ListSound(mesh)',
           removed' = removed, agentDisk' = agentDisk,
           meshDisk' = mesh' \/ meshDisk' = meshDisk
    PROVE  ListSound(meshDisk)'
  <1>1. CASE meshDisk' = mesh'
    BY <1>1 DEF ListSound, Listed
  <1>2. CASE meshDisk' = meshDisk
    BY <1>2 DEF ListSound, Listed, MeshInvariant
  <1> QED
    BY <1>1, <1>2

\* Where no handler waits, the requests that are left promise less.
LEMMA NobodyWaits ==
    ASSUME MeshInvariant, \A p \in posts' : ~p.live, agentDisk' = agentDisk,
           \A q \in posts' : /\ q \in Requests
                             /\ \E p \in posts :
                                  /\ q.node = p.node /\ q.addr = p.addr
                                  /\ q.answer = p.answer
    PROVE  HandlerSound'
  BY DEF MeshInvariant, HandlerSound, CarriedOut

\* What leaves agents, requests and lists alone.
LEMMA AgentsRest ==
    ASSUME MeshInvariant, UNCHANGED <<agent, agentDisk, check, removed>>
    PROVE  AgentsSound'
  BY DEF MeshInvariant, AgentsSound

\* Steps that leave lists, requests and files alone.
LEMMA MeshRests ==
    ASSUME MeshInvariant, UNCHANGED <<mesh, meshDisk, adding, posts, agent,
                                      agentDisk, removed>>,
           AgentsSound'
    PROVE  MeshInvariant'
  <1>1. ListSound(mesh)' /\ ListSound(meshDisk)'
    BY DEF MeshInvariant, ListSound, Listed
  <1>2. HandlerSound'
    BY DEF MeshInvariant, HandlerSound, CarriedOut, FreeOf, Listed
  <1> QED
    BY <1>1, <1>2 DEF MeshInvariant

-----------------------------------------------------------------------------
(* Steps of the server that change its list.                               *)

\* The node answers and the handler stores it, or fails to.
LEMMA AddAnsweredSound ==
    ASSUME MeshInvariant, NEW p \in posts, NEW ok \in BOOLEAN,
           AddAnswered(p, ok)
    PROVE  MeshInvariant'
  <1>1. /\ p.live /\ posts' = posts \ {p}
        /\ UNCHANGED <<check, agent, agentDisk, removed>>
        /\ p \in Requests /\ FreeOf(p.addr) /\ p.node \notin removed
        /\ CarriedOut(p)
    BY DEF AddAnswered, MeshInvariant, HandlerSound
  <1>2. HandlerSound'
    BY <1>1, NobodyWaits DEF MeshInvariant, HandlerSound
  <1>3. CASE p.answer = "ok"
    <2>1. /\ mesh' = [mesh EXCEPT !.nodes[p.node] = NewRecord(p.addr)]
          /\ meshDisk' = mesh' \/ meshDisk' = meshDisk
      BY <1>3 DEF AddAnswered, SavesMesh
    <2>2. NewRecord(p.addr) \in NodeRecords /\ NewRecord(p.addr).addr = p.addr
      BY <1>1 DEF NewRecord, NodeRecords, Requests
    <2>3. /\ mesh' \in MeshState /\ mesh'.devices = mesh.devices
          /\ mesh'.nodes[p.node] = NewRecord(p.addr)
          /\ \A n \in Nodes \ {p.node} : mesh'.nodes[n] = mesh.nodes[n]
      <3>1. mesh \in MeshState /\ p.node \in Nodes
        BY <1>1 DEF MeshInvariant, ListSound, Requests
      <3> QED
        BY <2>1, <2>2, <3>1 DEF MeshState, NodeRecords
    <2>4. ListSound(mesh)'
      <3>1. /\ agentDisk[p.node].enrolled /\ agentDisk[p.node].addr = p.addr
            /\ p.addr \notin mesh.devices
            /\ \A n \in Listed(mesh) : mesh.nodes[n].addr # p.addr
        BY <1>1, <1>3 DEF CarriedOut, FreeOf
      <3>2. Listed(mesh') \subseteq Listed(mesh) \cup {p.node}
        BY <2>3 DEF Listed
      <3> QED
        BY <1>1, <2>2, <2>3, <3>1, <3>2
        DEF MeshInvariant, ListSound, Listed
    <2> QED
      BY <1>1, <1>2, <2>1, <2>4, SavedList, AgentsRest DEF MeshInvariant
  <1>4. CASE p.answer # "ok"
    <2>1. UNCHANGED <<mesh, meshDisk>>
      BY <1>4 DEF AddAnswered
    <2>2. ListSound(mesh)' /\ ListSound(meshDisk)'
      BY <1>1, <2>1 DEF MeshInvariant, ListSound, Listed
    <2> QED
      BY <1>1, <1>2, <2>2, AgentsRest DEF MeshInvariant
  <1> QED
    BY <1>3, <1>4

\* The administrator deletes a node.
LEMMA DeleteNodeSound ==
    ASSUME MeshInvariant, NEW n \in Nodes, NEW ok \in BOOLEAN,
           DeleteNode(n, ok)
    PROVE  MeshInvariant'
  <1>1. /\ adding = Idle /\ n \in Listed(mesh)
        /\ UNCHANGED <<adding, check, posts, agent, agentDisk>>
        /\ mesh' = [mesh EXCEPT !.nodes[n] = Absent]
        /\ meshDisk' = mesh' \/ (~ok /\ meshDisk' = meshDisk)
        /\ removed' = removed \/ (ok /\ removed' = removed \cup {n})
    BY DEF DeleteNode, SavesMesh, meshAgents, Listed
  <1>2. /\ mesh' \in MeshState /\ mesh'.devices = mesh.devices
        /\ mesh'.nodes[n] = Absent
        /\ \A k \in Nodes \ {n} : mesh'.nodes[k] = mesh.nodes[k]
    BY <1>1 DEF MeshInvariant, ListSound, MeshState
  <1>3. ListSound(mesh)'
    <2>1. \A k \in Listed(mesh') :
             k \in Listed(mesh) \ {n} /\ mesh'.nodes[k] = mesh.nodes[k]
      BY <1>2 DEF Listed
    <2>2. ListSound(mesh')
      BY <1>2, <2>1, FewerListed DEF MeshInvariant
    <2> QED
      BY <1>1, <2>1, <2>2 DEF ListSound, Listed
  <1>4. ListSound(meshDisk)'
    <2>1. CASE removed' = removed
      BY <1>1, <1>3, <2>1, SavedList
    <2>2. CASE meshDisk' = mesh'
      BY <1>3, <2>2 DEF ListSound, Listed
    <2> QED
      BY <1>1, <2>1, <2>2
  <1>5. HandlerSound'
    BY <1>1 DEF MeshInvariant, HandlerSound, CarriedOut
  <1>6. AgentsSound'
    BY <1>1 DEF MeshInvariant, AgentsSound, ListSound
  <1> QED
    BY <1>3, <1>4, <1>5, <1>6 DEF MeshInvariant

\* What the health check writes keeps the address.
WithHealth(r, online, k, running) ==
    [r EXCEPT !.online = online, !.failures = k, !.running = running]

\* The health check writes a well-formed record with the same address.
LEMMA HealthRecord ==
    ASSUME NEW r \in NodeRecords, NEW online \in BOOLEAN,
           NEW running \in BOOLEAN, NEW k \in 0 .. 3
    PROVE  /\ WithHealth(r, online, k, running) \in NodeRecords
           /\ WithHealth(r, online, k, running).addr = r.addr
  BY DEF NodeRecords, WithHealth

\* A push does, too.
LEMMA PushedRecord ==
    ASSUME NEW r \in NodeRecords, check.nebula \in BOOLEAN
    PROVE  Pushed(r) \in NodeRecords /\ Pushed(r).addr = r.addr
  <1>1. Pushed(r) = WithHealth(r, TRUE, 0, check.nebula)
    BY DEF Pushed, WithHealth
  <1>2. TRUE \in BOOLEAN /\ 0 \in 0 .. 3
    OBVIOUS
  <1>3. PICK o \in BOOLEAN, g \in BOOLEAN, k \in 0 .. 3 :
            Pushed(r) = WithHealth(r, o, k, g)
    BY <1>1, <1>2
  <1>4. WithHealth(r, o, k, g) \in NodeRecords
    BY HealthRecord
  <1>5. WithHealth(r, o, k, g).addr = r.addr
    BY HealthRecord
  <1> QED
    BY <1>3, <1>4, <1>5

\* And so does a push that failed.
LEMMA FailedRecord ==
    ASSUME NEW r \in NodeRecords
    PROVE  Failed(r) \in NodeRecords /\ Failed(r).addr = r.addr
  <1> DEFINE k == IF r.failures < 3 THEN r.failures + 1 ELSE 3
             online == r.online /\ k < 3
             running == r.running /\ k < 3
  <1>1. k \in 0 .. 3
    BY DEF NodeRecords
  <1>2. online \in BOOLEAN /\ running \in BOOLEAN
    OBVIOUS
  <1>3. Failed(r) = WithHealth(r, online, k, running)
    BY DEF Failed, WithHealth
  <1>4. PICK o \in BOOLEAN, g \in BOOLEAN, j \in 0 .. 3 :
            Failed(r) = WithHealth(r, o, j, g)
    BY <1>1, <1>2, <1>3
  <1>5. WithHealth(r, o, j, g) \in NodeRecords
    BY HealthRecord
  <1>6. WithHealth(r, o, j, g).addr = r.addr
    BY HealthRecord
  <1> QED
    BY <1>4, <1>5, <1>6

\* Devices come and go, and the health check writes back: no handler waits,
\* no node is listed that was not, none under another address.
LEMMA WriteBackRecord ==
    ASSUME MeshInvariant, WriteBack
    PROVE  /\ mesh' \in MeshState /\ mesh'.devices = mesh.devices
           /\ \A n \in Listed(mesh') : /\ n \in Listed(mesh)
                                       /\ mesh'.nodes[n].addr =
                                            mesh.nodes[n].addr
  <1> DEFINE n == check.node
             r == mesh.nodes[n]
             new == IF r = Absent THEN r
                    ELSE IF check.result = "pushed" THEN Pushed(r)
                    ELSE Failed(r)
  <1>1. mesh' = [mesh EXCEPT !.nodes[n] = new] /\ mesh \in MeshState
    BY DEF WriteBack, MeshInvariant, ListSound
  <1>2. CASE n \notin Nodes
    <2>1. mesh' = mesh
      BY <1>1, <1>2 DEF MeshState
    <2> QED
      BY <1>1, <2>1
  <1>3. CASE n \in Nodes /\ r = Absent
    <2> HIDE DEF n
    <2> QED
      BY <1>1, <1>3 DEF MeshState, Listed
  <1>4. CASE n \in Nodes /\ r # Absent
    <2>1. r \in NodeRecords /\ check.nebula \in BOOLEAN
      BY <1>1, <1>4 DEF MeshState, NodeRecords, MeshInvariant, AgentsSound
    <2>2. new \in NodeRecords /\ new.addr = r.addr
      <3>1. Pushed(r) \in NodeRecords /\ Pushed(r).addr = r.addr
        BY <2>1, PushedRecord
      <3>2. Failed(r) \in NodeRecords /\ Failed(r).addr = r.addr
        BY <2>1, FailedRecord
      <3> QED
        BY <1>4, <3>1, <3>2
    <2> HIDE DEF new, n
    <2>3. /\ mesh' \in MeshState /\ mesh'.devices = mesh.devices
          /\ mesh'.nodes[n] = new
          /\ \A k \in Nodes \ {n} : mesh'.nodes[k] = mesh.nodes[k]
      BY <1>1, <1>4, <2>2 DEF MeshState, NodeRecords
    <2> QED
      BY <1>4, <2>2, <2>3 DEF Listed, n
  <1> QED
    BY <1>2, <1>3, <1>4

\* Devices come and go, and the health check writes its copy back.
LEMMA ListChangeSound ==
    ASSUME MeshInvariant,
           \/ \E x \in Addrs : DeviceEnrols(x) \/ DeviceLeaves(x)
           \/ WriteBack
    PROVE  MeshInvariant'
  <1>1. /\ adding = Idle
        /\ UNCHANGED <<adding, posts, agent, agentDisk, removed>>
        /\ meshDisk' = mesh' \/ meshDisk' = meshDisk
    BY DEF DeviceEnrols, DeviceLeaves, WriteBack, SavesMesh, meshAgents
  <1>2. HandlerSound'
    BY <1>1 DEF MeshInvariant, HandlerSound, CarriedOut
  <1>3. AgentsSound'
    <2>1. CASE UNCHANGED check
      BY <1>1, <2>1, AgentsRest
    <2>2. CASE WriteBack
      <3>1. check' = [NoCheck EXCEPT !.todo = check.todo]
        BY <2>2 DEF WriteBack
      <3> QED
        BY <1>1, <3>1 DEF MeshInvariant, AgentsSound, NoCheck
    <2> QED
      BY <2>1, <2>2 DEF DeviceEnrols, DeviceLeaves
  <1>4. ListSound(mesh)'
    <2>1. SUFFICES ListSound(mesh')
      BY <1>1 DEF ListSound, Listed
    <2>2. CASE WriteBack
      BY <2>2, WriteBackRecord, FewerListed DEF MeshInvariant
    <2>3. ASSUME NEW x \in Addrs, DeviceLeaves(x) PROVE ListSound(mesh')
      <3>1. mesh' = [mesh EXCEPT !.devices = @ \ {x}] /\ mesh \in MeshState
        BY <2>3 DEF DeviceLeaves, MeshInvariant, ListSound
      <3>2. /\ mesh' \in MeshState /\ mesh'.devices \subseteq mesh.devices
            /\ mesh'.nodes = mesh.nodes
        BY <3>1 DEF MeshState
      <3> QED
        BY <3>2, FewerListed DEF MeshInvariant, Listed
    <2>4. ASSUME NEW x \in Addrs, DeviceEnrols(x) PROVE ListSound(mesh')
      <3>1. /\ mesh' = [mesh EXCEPT !.devices = @ \cup {x}] /\ FreeOf(x)
            /\ mesh \in MeshState
        BY <2>4 DEF DeviceEnrols, Lowest, MeshInvariant, ListSound
      <3>2. /\ mesh' \in MeshState /\ mesh'.devices = mesh.devices \cup {x}
            /\ mesh'.nodes = mesh.nodes
        BY <3>1 DEF MeshState
      <3> QED
        BY <3>1, <3>2 DEF MeshInvariant, ListSound, Listed, FreeOf
    <2> QED
      BY <2>2, <2>3, <2>4
  <1> QED
    BY <1>1, <1>2, <1>3, <1>4, SavedList DEF MeshInvariant

\* The main server restarts from its file.
LEMMA MainRestartsSound ==
    ASSUME MeshInvariant, MainRestarts PROVE MeshInvariant'
  <1>1. /\ mesh' = meshDisk /\ check' = NoCheck
        /\ UNCHANGED <<meshDisk, agent, agentDisk, removed>>
        /\ posts' = {[p EXCEPT !.live = FALSE] :
                        p \in {q \in posts :
                                q.answer \in {Absent, "starting"}}}
    BY DEF MainRestarts
  <1>2. \A q \in posts' : /\ q \in Requests /\ ~q.live
                          /\ \E p \in posts :
                               /\ q.node = p.node /\ q.addr = p.addr
                               /\ q.answer = p.answer
    BY <1>1 DEF MeshInvariant, HandlerSound, Requests
  <1>3. HandlerSound'
    BY <1>1, <1>2, NobodyWaits
  <1>4. ListSound(mesh)' /\ ListSound(meshDisk)'
    BY <1>1 DEF MeshInvariant, ListSound, Listed
  <1>5. AgentsSound'
    BY <1>1 DEF MeshInvariant, AgentsSound, NoCheck
  <1> QED
    BY <1>3, <1>4, <1>5 DEF MeshInvariant

-----------------------------------------------------------------------------
(* Requests and agents.                                                    *)

Answers == {Absent, "starting", "ok", "failed"}

\* Requests that came of those there were: fewer wait, fewer are carried out.
Follows(q, p) ==
    /\ q.node = p.node /\ q.addr = p.addr /\ (q.live => p.live)
    /\ q.answer \in {"starting", "ok"} => p.answer \in {"starting", "ok"}

\* The handler that adds a node keeps its request when requests move on.
LEMMA RequestsFollow ==
    ASSUME MeshInvariant, UNCHANGED <<mesh, agentDisk, removed>>,
           posts' \subseteq Requests,
           \A q \in posts' : \E p \in posts : Follows(q, p),
           \A p, q \in posts' : p.live /\ q.live => p = q,
           adding' = Idle => adding = Idle \/ \A p \in posts' : ~p.live
    PROVE  HandlerSound'
  <1>1. \A p \in posts' : ~p.live \/ adding' # Idle
    BY DEF MeshInvariant, HandlerSound, Follows
  <1>2. \A p \in posts' : /\ p.live => FreeOf(p.addr)'
                          /\ p.live => p.node \notin removed'
    BY DEF MeshInvariant, HandlerSound, Follows, FreeOf, Listed
  <1>3. \A p \in posts' : CarriedOut(p)'
    BY DEF MeshInvariant, HandlerSound, Follows, CarriedOut
  <1> QED
    BY <1>1, <1>2, <1>3 DEF HandlerSound

\* One request gets an answer, or its answer changes.
LEMMA AnswerChanges ==
    ASSUME MeshInvariant, NEW p \in posts, NEW a \in Answers,
           posts' = (posts \ {p}) \cup {[p EXCEPT !.answer = a]}
    PROVE  /\ posts' \subseteq Requests
           /\ \A q \in posts' : q \in posts \/
                 /\ q.node = p.node /\ q.addr = p.addr /\ q.live = p.live
                 /\ q.answer = a
           /\ \A q, r \in posts' : q.live /\ r.live => q = r
  <1> DEFINE new == [p EXCEPT !.answer = a]
  <1>1. /\ new \in Requests /\ new.node = p.node /\ new.addr = p.addr
        /\ new.live = p.live /\ new.answer = a
    BY DEF MeshInvariant, HandlerSound, Requests, Answers
  <1> HIDE DEF new
  <1>2. posts' = (posts \ {p}) \cup {new}
    BY DEF new
  <1>3. \A q, r \in posts' : q.live /\ r.live => q = r
    BY <1>1, <1>2 DEF MeshInvariant, HandlerSound
  <1> QED
    BY <1>1, <1>2, <1>3 DEF MeshInvariant, HandlerSound

\* The administrator adds a node: its request is sent.
LEMMA AddBeginsSound ==
    ASSUME MeshInvariant, NEW n \in Nodes, NEW x \in Addrs, AddBegins(n, x)
    PROVE  MeshInvariant'
  <1> DEFINE new == [node |-> n, addr |-> x, live |-> TRUE, answer |-> Absent]
  <1>1. /\ adding = Idle /\ adding' = [node |-> n, addr |-> x]
        /\ posts' = posts \cup {new} /\ FreeOf(x)
        /\ agent[n].up /\ ~agent[n].enrolled
        /\ UNCHANGED <<mesh, meshDisk, check, agent, agentDisk, removed>>
    BY DEF AddBegins, Lowest
  <1>2. /\ new \in Requests /\ new.node = n /\ new.addr = x
        /\ new.answer = Absent
    BY DEF Requests
  <1>3. n \notin removed
    BY <1>1 DEF MeshInvariant, AgentsSound
  <1>4. adding' # Idle
    BY <1>1, MeshAssumption DEF MeshAssumption, Idle
  <1>5. CarriedOut(new)
    BY <1>2, MeshAssumption DEF MeshAssumption, CarriedOut
  <1> HIDE DEF new
  <1>6. \A p, q \in posts' : p.live /\ q.live => p = q
    BY <1>1 DEF MeshInvariant, HandlerSound
  <1>7. \A p \in posts' : /\ p.live => FreeOf(p.addr) /\ p.node \notin removed
                          /\ CarriedOut(p)
    BY <1>1, <1>2, <1>3, <1>5 DEF MeshInvariant, HandlerSound
  <1>8. HandlerSound'
    BY <1>1, <1>2, <1>4, <1>6, <1>7
    DEF MeshInvariant, HandlerSound, FreeOf, Listed, CarriedOut
  <1>9. ListSound(mesh)' /\ ListSound(meshDisk)'
    BY <1>1 DEF MeshInvariant, ListSound, Listed
  <1> QED
    BY <1>1, <1>8, <1>9, AgentsRest DEF MeshInvariant

\* The handler stops waiting, or the request of one that has is dropped.
LEMMA RequestEnds ==
    ASSUME MeshInvariant, NEW p \in posts, AddTimesOut(p) \/ Unheard(p)
    PROVE  MeshInvariant'
  <1>1. /\ UNCHANGED <<mesh, meshDisk, check, agent, agentDisk, removed>>
        /\ \/ posts' = posts \ {p}
           \/ p.live /\ posts' = (posts \ {p}) \cup
                                    {[p EXCEPT !.live = FALSE]}
        /\ p.live \/ adding' = adding
    BY DEF AddTimesOut, Unheard, meshServer
  <1>2. ListSound(mesh)' /\ ListSound(meshDisk)'
    BY <1>1 DEF MeshInvariant, ListSound, Listed
  <1> DEFINE new == [p EXCEPT !.live = FALSE]
  <1>3. p \in Requests /\ new \in Requests /\ ~new.live /\ Follows(new, p)
    BY DEF MeshInvariant, HandlerSound, Requests, Follows
  <1>4. \A q \in posts' : q = new \/ q \in posts \ {p}
    BY <1>1
  <1> HIDE DEF new
  <1>5. /\ posts' \subseteq Requests
        /\ \A q \in posts' : \E r \in posts : Follows(q, r)
        /\ \A q, r \in posts' : q.live /\ r.live => q = r
        /\ p.live => \A q \in posts' : ~q.live
    BY <1>3, <1>4 DEF MeshInvariant, HandlerSound, Follows
  <1>6. HandlerSound'
    BY <1>1, <1>5, RequestsFollow
  <1> QED
    BY <1>1, <1>2, <1>6, AgentsRest DEF MeshInvariant

\* The node carries a request out, although its sender may have given up:
\* only a node whose file has no enrolment takes one.
LEMMA EnrolsSound ==
    ASSUME MeshInvariant, NEW p \in posts,
           NEW out \in {"ok", "files", "unsaved", "late"}, Enrols(p, out)
    PROVE  MeshInvariant'
  <1> DEFINE n == p.node
             a == IF out = "ok" /\ ~agent[n].enrolled THEN "starting"
                  ELSE "failed"
             now == [enrolled |-> TRUE, addr |-> p.addr]
  <1>1. /\ UNCHANGED <<mesh, meshDisk, adding, check, removed>>
        /\ posts' = (posts \ {p}) \cup {[p EXCEPT !.answer = a]}
        /\ agent[n].up
    BY DEF Enrols, meshServer
  <1>2. p \in Requests /\ n \in Nodes /\ p.addr \in Addrs
    BY DEF MeshInvariant, HandlerSound, Requests
  <1>3. /\ \/ agent' = agent /\ agentDisk' = agentDisk /\ a = "failed"
           \/ /\ ~agent[n].enrolled
              /\ agent' = [agent EXCEPT ![n].addr = p.addr,
                                        ![n].enrolled = out # "files"]
              /\ agentDisk' = [agentDisk EXCEPT ![n] =
                                  IF out \in {"files", "unsaved"} THEN @
                                  ELSE now]
    BY DEF Enrols
  <1>4. /\ posts' \subseteq Requests
        /\ \A q \in posts' : q \in posts \/
              /\ q.node = p.node /\ q.addr = p.addr /\ q.live = p.live
              /\ q.answer = a
        /\ \A q, r \in posts' : q.live /\ r.live => q = r
    <2>1. a \in Answers
      BY DEF Answers
    <2> HIDE DEF a
    <2> QED
      BY <1>1, <2>1, AnswerChanges
  <1>5. CASE agent' = agent /\ agentDisk' = agentDisk /\ a = "failed"
    <2>1. \A q \in posts' : \E r \in posts : Follows(q, r)
      BY <1>4, <1>5 DEF Follows
    <2>2. HandlerSound'
      BY <1>1, <1>4, <1>5, <2>1, RequestsFollow
    <2>3. ListSound(mesh)' /\ ListSound(meshDisk)'
      BY <1>1, <1>5 DEF MeshInvariant, ListSound, Listed
    <2> QED
      BY <1>1, <1>5, <2>2, <2>3, AgentsRest DEF MeshInvariant
  <1>6. CASE /\ ~agent[n].enrolled
             /\ agent' = [agent EXCEPT ![n].addr = p.addr,
                                       ![n].enrolled = out # "files"]
             /\ agentDisk' = [agentDisk EXCEPT ![n] =
                                 IF out \in {"files", "unsaved"} THEN @
                                 ELSE now]
    <2>1. ~agentDisk[n].enrolled
      BY <1>1, <1>2, <1>6 DEF MeshInvariant, AgentsSound
    <2>2. /\ agent' \in [Nodes -> AgentStates]
          /\ agent'[n].addr = p.addr
          /\ out # "files" => agent'[n].enrolled
          /\ \A k \in Nodes \ {n} : agent'[k] = agent[k]
      BY <1>2, <1>6 DEF MeshInvariant, AgentsSound, AgentStates
    <2>3. /\ agentDisk' \in [Nodes -> AgentFiles]
          /\ \A k \in Nodes \ {n} : agentDisk'[k] = agentDisk[k]
          /\ \/ out \in {"files", "unsaved"} /\ agentDisk'[n] = agentDisk[n]
             \/ /\ out \notin {"files", "unsaved"}
                /\ agentDisk'[n].enrolled /\ agentDisk'[n].addr = p.addr
      BY <1>2, <1>6 DEF MeshInvariant, AgentsSound, AgentFiles
    <2>4. \A k \in Nodes : agentDisk[k].enrolled =>
              agentDisk'[k].enrolled /\ agentDisk'[k].addr = agentDisk[k].addr
      BY <2>1, <2>3
    <2>5. AgentsSound'
      <3>1. \A k \in Nodes : agentDisk'[k].enrolled /\ agent'[k].up =>
              agent'[k].enrolled /\ agent'[k].addr = agentDisk'[k].addr
        BY <2>1, <2>2, <2>3 DEF MeshInvariant, AgentsSound
      <3> QED
        BY <1>1, <2>2, <2>3, <2>4, <3>1 DEF MeshInvariant, AgentsSound
    <2>6. ListSound(mesh)' /\ ListSound(meshDisk)'
      <3>1. \A s : ListSound(s) => ListSound(s)'
        BY <1>1, <2>4, ListStays
      <3> QED
        BY <1>1, <3>1 DEF MeshInvariant, ListSound, Listed
    <2>7. \A q \in posts' : CarriedOut(q)'
      <3>1. ASSUME NEW q \in posts PROVE CarriedOut(q)'
        BY <2>4 DEF MeshInvariant, HandlerSound, CarriedOut, Requests
      <3>2. ASSUME NEW q \in posts', q \notin posts PROVE CarriedOut(q)'
        BY <1>4, <2>3, <3>2 DEF CarriedOut
      <3> QED
        BY <3>1, <3>2
    <2>8. HandlerSound'
      BY <1>1, <1>4, <2>7
      DEF MeshInvariant, HandlerSound, FreeOf, Listed
    <2> QED
      BY <2>5, <2>6, <2>8 DEF MeshInvariant
  <1> QED
    BY <1>3, <1>5, <1>6

\* Nebula of one node starts, restarts or ends.
LEMMA NebulaChanges ==
    ASSUME MeshInvariant, NEW n, NEW b \in BOOLEAN,
           agent' = [agent EXCEPT ![n].nebula = b]
    PROVE  /\ agent' \in [Nodes -> AgentStates]
           /\ \A k \in Nodes : /\ agent'[k].up = agent[k].up
                               /\ agent'[k].enrolled = agent[k].enrolled
                               /\ agent'[k].addr = agent[k].addr
  BY DEF MeshInvariant, AgentsSound, AgentStates

\* The agent starts Nebula for the request it carried out.
LEMMA StartsNebulaSound ==
    ASSUME MeshInvariant, NEW p \in posts, NEW ok \in BOOLEAN,
           StartsNebula(p, ok)
    PROVE  MeshInvariant'
  <1> DEFINE a == IF ok THEN "ok" ELSE "failed"
  <1>1. /\ p.answer = "starting"
        /\ agent' = [agent EXCEPT ![p.node].nebula = ok]
        /\ UNCHANGED <<mesh, meshDisk, adding, check, agentDisk, removed>>
        /\ posts' = (posts \ {p}) \cup {[p EXCEPT !.answer = a]}
        /\ a \in Answers
    BY DEF StartsNebula, meshServer, Answers
  <1> HIDE DEF a
  <1>2. /\ posts' \subseteq Requests
        /\ \A q \in posts' : \E r \in posts : Follows(q, r)
        /\ \A q, r \in posts' : q.live /\ r.live => q = r
    BY <1>1, AnswerChanges DEF Follows
  <1>3. HandlerSound'
    BY <1>1, <1>2, RequestsFollow
  <1>4. AgentsSound'
    BY <1>1, NebulaChanges DEF MeshInvariant, AgentsSound
  <1>5. ListSound(mesh)' /\ ListSound(meshDisk)'
    BY <1>1 DEF MeshInvariant, ListSound, Listed
  <1> QED
    BY <1>3, <1>4, <1>5 DEF MeshInvariant

\* The agent ends.
LEMMA AgentStopsSound ==
    ASSUME MeshInvariant, NEW n \in Nodes, AgentStops(n) PROVE MeshInvariant'
  <1> DEFINE lost(p) == [p EXCEPT !.answer = IF @ = "ok" THEN "ok"
                                             ELSE "failed"]
             left == {q \in posts : q.node = n /\ q.live}
  <1>1. /\ agent' = [agent EXCEPT ![n].up = FALSE, ![n].nebula = FALSE]
        /\ UNCHANGED <<mesh, meshDisk, adding, check, agentDisk, removed>>
        /\ posts' = {p \in posts : p.node # n} \cup {lost(p) : p \in left}
    BY DEF AgentStops, meshServer
  <1>2. \A p \in posts : /\ lost(p) \in Requests /\ lost(p).live = p.live
                         /\ Follows(lost(p), p)
    BY DEF MeshInvariant, HandlerSound, Requests, Follows
  <1> HIDE DEF lost
  <1>3. /\ posts' \subseteq Requests
        /\ \A q \in posts' : \E r \in posts : Follows(q, r)
    BY <1>1, <1>2 DEF MeshInvariant, HandlerSound, Follows
  <1>4. ASSUME NEW q \in posts', NEW r \in posts', q.live, r.live
        PROVE  q = r
    <2>1. ASSUME NEW t \in posts', t.live
          PROVE  \E p \in posts : p.live /\ \/ p.node # n /\ t = p
                                            \/ p.node = n /\ t = lost(p)
      <3>1. CASE t \in posts /\ t.node # n
        BY <2>1, <3>1
      <3>2. CASE \E p \in left : t = lost(p)
        BY <3>2
      <3> QED
        BY <1>1, <3>1, <3>2
    <2>2. PICK p \in posts : p.live /\ \/ p.node # n /\ q = p
                                       \/ p.node = n /\ q = lost(p)
      BY <1>4, <2>1
    <2>3. PICK o \in posts : o.live /\ \/ o.node # n /\ r = o
                                       \/ o.node = n /\ r = lost(o)
      BY <1>4, <2>1
    <2>4. o = p
      BY <2>2, <2>3 DEF MeshInvariant, HandlerSound
    <2> QED
      BY <2>2, <2>3, <2>4
  <1>5. HandlerSound'
    BY <1>1, <1>3, <1>4, RequestsFollow
  <1>6. AgentsSound'
    <2>0. agent \in [Nodes -> AgentStates]
      BY DEF MeshInvariant, AgentsSound
    <2>1. /\ agent' \in [Nodes -> AgentStates] /\ ~agent'[n].up
          /\ \A k \in Nodes \ {n} : agent'[k] = agent[k]
      BY <1>1, <2>0 DEF AgentStates
    <2> QED
      BY <1>1, <2>1 DEF MeshInvariant, AgentsSound
  <1>7. ListSound(mesh)' /\ ListSound(meshDisk)'
    BY <1>1 DEF MeshInvariant, ListSound, Listed
  <1> QED
    BY <1>5, <1>6, <1>7 DEF MeshInvariant

\* The Nebula of an agent ends, an agent starts, a list is pushed.
LEMMA AgentAloneSound ==
    ASSUME MeshInvariant,
           \/ \E n \in Nodes : NebulaEnds(n) \/ AgentStarts(n)
           \/ \E out \in {"same", "new", "broken", "lost"} : Push(out)
    PROVE  MeshInvariant'
  <1>1. UNCHANGED <<mesh, meshDisk, adding, posts, agentDisk, removed>>
    BY DEF NebulaEnds, AgentStarts, Push, meshServer
  <1> SUFFICES AgentsSound'
    BY <1>1, MeshRests DEF MeshInvariant, ListSound, Listed, HandlerSound,
                           CarriedOut, FreeOf
  <1>2. ASSUME NEW n \in Nodes, NebulaEnds(n) PROVE AgentsSound'
    <2>1. agent' = [agent EXCEPT ![n].nebula = FALSE] /\ check' = check
      BY <1>2 DEF NebulaEnds, meshServer
    <2> QED
      BY <1>1, <2>1, NebulaChanges DEF MeshInvariant, AgentsSound
  <1>3. ASSUME NEW n \in Nodes, AgentStarts(n) PROVE AgentsSound'
    <2> DEFINE started == [up |-> TRUE, nebula |-> agentDisk[n].enrolled,
                           enrolled |-> agentDisk[n].enrolled,
                           addr |-> agentDisk[n].addr]
    <2>1. agent' = [agent EXCEPT ![n] = started] /\ check' = check
      BY <1>3 DEF AgentStarts, meshServer
    <2>2. agentDisk[n] \in AgentFiles
      BY DEF MeshInvariant, AgentsSound
    <2>3. /\ started \in AgentStates
          /\ started.enrolled = agentDisk[n].enrolled
          /\ started.addr = agentDisk[n].addr
      BY <2>2 DEF AgentStates, AgentFiles
    <2> HIDE DEF started
    <2> QED
      BY <1>1, <2>1, <2>3 DEF MeshInvariant, AgentsSound
  <1>4. ASSUME NEW out \in {"same", "new", "broken", "lost"}, Push(out)
        PROVE  AgentsSound'
    <2>1. /\ agent' \in [Nodes -> AgentStates]
          /\ \A k \in Nodes : /\ agent'[k].up = agent[k].up
                              /\ agent'[k].enrolled = agent[k].enrolled
                              /\ agent'[k].addr = agent[k].addr
      <3>1. \/ \E b \in BOOLEAN :
                 agent' = [agent EXCEPT ![check.node].nebula = b]
            \/ agent' = [agent EXCEPT ![check.node].nebula = @]
        BY <1>4 DEF Push
      <3>2. CASE agent' = [agent EXCEPT ![check.node].nebula = @]
        BY <3>2 DEF MeshInvariant, AgentsSound, AgentStates
      <3> QED
        BY <3>1, <3>2, NebulaChanges
    <2>2. check' \in [todo : SUBSET Nodes, node : Nodes \cup {Absent},
                      nebula : BOOLEAN,
                      result : {Absent, "healthy", "pushed", "failed"}]
      BY <1>4 DEF Push, MeshInvariant, AgentsSound
    <2> QED
      BY <1>1, <2>1, <2>2 DEF MeshInvariant, AgentsSound
  <1> QED
    BY <1>2, <1>3, <1>4

\* Steps of the health check and of heartbeats that write no list.
LEMMA OthersSound ==
    ASSUME MeshInvariant,
           \/ CheckBegins \/ \E n \in Nodes, lost \in BOOLEAN : Probe(n, lost)
           \/ Syncing \/ BeatAnswered \/ BeatLost \/ UNCHANGED meshVars
    PROVE  MeshInvariant'
  <1>1. UNCHANGED <<mesh, meshDisk, adding, posts, agent, agentDisk, removed>>
    BY DEF CheckBegins, Probe, Syncing, SyncLighthouses, BeatAnswered,
           BeatLost, meshVars, meshServer, meshAgents
  <1>2. check' \in [todo : SUBSET Nodes, node : Nodes \cup {Absent},
                    nebula : BOOLEAN,
                    result : {Absent, "healthy", "pushed", "failed"}]
    <2>1. CASE CheckBegins
      BY <2>1 DEF CheckBegins, NoCheck, Listed
    <2>2. ASSUME NEW n \in Nodes, NEW lost \in BOOLEAN, Probe(n, lost)
          PROVE  check' \in [todo : SUBSET Nodes, node : Nodes \cup {Absent},
                             nebula : BOOLEAN,
                             result : {Absent, "healthy", "pushed", "failed"}]
      BY <2>2 DEF Probe, MeshInvariant, AgentsSound, AgentStates
    <2>3. CASE UNCHANGED check
      BY <2>3 DEF MeshInvariant, AgentsSound
    <2> QED
      BY <2>1, <2>2, <2>3 DEF Syncing, SyncLighthouses, BeatAnswered,
                              BeatLost, meshVars, meshServer
  <1>3. AgentsSound'
    BY <1>1, <1>2 DEF MeshInvariant, AgentsSound
  <1> QED
    BY <1>1, <1>3, MeshRests

-----------------------------------------------------------------------------
\* No node is registered at the start.
LEMMA MeshInvariantInit == ASSUME MeshInit PROVE MeshInvariant
  <1>1. ListSound(mesh) /\ ListSound(meshDisk)
    BY DEF MeshInit, ListSound, MeshState, Listed
  <1>2. AgentsSound
    BY DEF MeshInit, AgentsSound, AgentStates, AgentFiles, NotEnrolled,
           NoCheck
  <1>3. HandlerSound
    BY DEF MeshInit, HandlerSound
  <1> QED
    BY <1>1, <1>2, <1>3 DEF MeshInvariant

\* Every step keeps the invariant.
LEMMA MeshInvariantStep ==
    ASSUME MeshInvariant, [MeshNext]_meshVars PROVE MeshInvariant'
  <1>1. ASSUME Enrolment PROVE MeshInvariant'
    BY <1>1, RequestEnds, EnrolsSound, StartsNebulaSound, AddAnsweredSound
    DEF Enrolment
  <1>2. ASSUME Checking PROVE MeshInvariant'
    BY <1>2, OthersSound, AgentAloneSound DEF Checking
  <1>3. CASE WriteBack \/ \E x \in Addrs : DeviceEnrols(x) \/ DeviceLeaves(x)
    BY <1>3, ListChangeSound
  <1>4. ASSUME NEW n \in Nodes,
               \/ \E x \in Addrs : AddBegins(n, x)
               \/ \E ok \in BOOLEAN : DeleteNode(n, ok)
               \/ NebulaEnds(n) \/ AgentStops(n) \/ AgentStarts(n)
        PROVE  MeshInvariant'
    BY <1>4, AddBeginsSound, DeleteNodeSound, AgentAloneSound,
       AgentStopsSound
  <1>5. CASE MainRestarts
    BY <1>5, MainRestartsSound
  <1>6. CASE Syncing \/ BeatAnswered \/ BeatLost \/ UNCHANGED meshVars
    BY <1>6, OthersSound
  <1> QED
    BY <1>1, <1>2, <1>3, <1>4, <1>5, <1>6 DEF MeshNext

\* The invariant holds throughout.
LEMMA MeshAlways == MeshSpec => []MeshInvariant
  <1>1. MeshInit => MeshInvariant
    BY MeshInvariantInit
  <1>2. MeshInvariant /\ [MeshNext]_meshVars => MeshInvariant'
    BY MeshInvariantStep
  <1> QED
    BY <1>1, <1>2, PTL DEF MeshSpec

\* A node the server lists, in memory or on disk, keeps the enrolment with
\* the address it is listed with, although requests the server gave up on
\* are carried out late (enrollMainNode, addMeshNode).
THEOREM RecordsAlwaysMatch == MeshSpec => []RecordsMatchAgents
  <1>1. ASSUME MeshInvariant, NEW s \in {mesh, meshDisk}, NEW n \in Listed(s)
        PROVE  /\ agentDisk[n] = [enrolled |-> TRUE,
                                  addr |-> s.nodes[n].addr]
               /\ agent[n].up =>
                    agent[n].enrolled /\ agent[n].addr = s.nodes[n].addr
    <2>1. /\ n \in Nodes /\ agentDisk[n] \in AgentFiles
          /\ agentDisk[n].enrolled /\ agentDisk[n].addr = s.nodes[n].addr
      BY <1>1 DEF MeshInvariant, ListSound, AgentsSound, Listed
    <2> QED
      BY <1>1, <2>1 DEF MeshInvariant, AgentsSound, AgentFiles
  <1>2. MeshInvariant => RecordsMatchAgents
    BY <1>1 DEF RecordsMatchAgents
  <1> QED
    BY <1>2, MeshAlways, PTL

\* A node whose deletion was answered stays away: no health check that began
\* before, no late request and no restart brings it back.
THEOREM RemovedNodesStayAway == MeshSpec => []RemovedNodeStaysAway
  <1>1. MeshInvariant => RemovedNodeStaysAway
    BY DEF MeshInvariant, ListSound, RemovedNodeStaysAway
  <1> QED
    BY <1>1, MeshAlways, PTL

\* No address is given to two nodes, or to a node and a device, in memory or
\* in the state file (allocateAddress), although an allocation is held over
\* two requests to the node.
THEOREM MeshAddressesStayUnique == MeshSpec => []MeshAddressesUnique
  <1>1. MeshInvariant => MeshAddressesUnique
    BY DEF MeshInvariant, ListSound, MeshAddressesUnique
  <1> QED
    BY <1>1, MeshAlways, PTL
=============================================================================
