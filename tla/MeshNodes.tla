------------------------------ MODULE MeshNodes ------------------------------
(***************************************************************************)
(* Linux child nodes: how the main server enrols one, asks each every 15   *)
(* seconds how it is, and tells the clients which to use as lighthouse.    *)
(*                                                                         *)
(* addMeshNode asks the node, allocates an address, signs and enrols with  *)
(* two requests, all under stateMu: heartbeats and the write-back of the   *)
(* health check wait for it, at most 20 seconds.  The node carries out a   *)
(* request the server gave up on.  The health check works on a snapshot    *)
(* and writes what it learned back by ID, with stateMu for each node.      *)
(* What the push of revocations changes at a node is in RevocationSync.    *)
(***************************************************************************)
EXTENDS Integers, FiniteSets

CONSTANTS
    Nodes,      \* node agents, each with its ID, secret and pin
    LastAddr,   \* addresses of the subnet, without the main server's own
    Absent,
    MaxAdds,    \* bound: enrolments begun, of nodes and of devices
    MaxFaults   \* bound: failures, restarts, and pushes with something new

ASSUME MeshAssumption ==
    /\ {LastAddr, MaxAdds, MaxFaults} \subseteq Nat
    /\ Absent \notin Nodes \cup {"starting", "ok", "failed"}

Addrs == 1 .. LastAddr

VARIABLES
    mesh,        \* server, memory: records of nodes, addresses of devices
    meshDisk,    \* server, state file: the same
    adding,      \* the handler that holds stateMu in addMeshNode
    posts,       \* enrolment requests not yet carried out, or not answered
    agent,       \* each node: process up, what it knows, Nebula running
    agentDisk,   \* each node: its state file
    check,       \* the health check: records to probe, and the last answer
    beat,        \* the answer of a heartbeat, not yet used by the client
    lighthouses, \* a client: client-state.json
    hosts,       \* a client: Nebula's config
    adds,        \* enrolments so far
    mishaps,     \* faults so far
    removed      \* history: nodes whose deletion was answered with 200

meshServer == <<mesh, meshDisk, adding, check>>
meshAgents == <<posts, agent, agentDisk>>
meshClient == <<beat, lighthouses, hosts>>
meshVars == <<meshServer, meshAgents, meshClient, adds, mishaps, removed>>

NotEnrolled == [enrolled |-> FALSE, addr |-> Absent]
Idle == [node |-> Absent, addr |-> Absent]
NoCheck == [todo |-> {}, node |-> Absent, nebula |-> FALSE, result |-> Absent]

\* appends a MeshNodeRecord: the node was reached a moment ago.
NewRecord(x) == [addr |-> x, online |-> TRUE, running |-> TRUE, failures |-> 0]

Listed(s) == {n \in Nodes : s.nodes[n] # Absent}

\* meshNodeEndpoints: the nodes the clients are told of.
Endpoints ==
    {n \in Listed(mesh) : mesh.nodes[n].online /\ mesh.nodes[n].running}

Mishap(k) == mishaps + k <= MaxFaults /\ mishaps' = mishaps + k

\* saveJSON: the file may be replaced although the caller sees an error.
SavesMesh(ok) ==
    /\ meshDisk' = mesh' \/ (~ok /\ meshDisk' = meshDisk)
    /\ Mishap(IF ok THEN 0 ELSE 1)

-----------------------------------------------------------------------------
(* The administrator's handlers, and the devices that share the subnet.    *)

\* allocateAddress: taken are the addresses the server has in memory.
FreeOf(x) ==
    /\ x \notin mesh.devices
    /\ \A n \in Listed(mesh) : mesh.nodes[n].addr # x

Lowest(x) == FreeOf(x) /\ \A y \in 1 .. (x - 1) : ~FreeOf(y)

\* GET /v1/node/info, then POST /v1/node/enroll; a node that says it is
\* enrolled, or a list that has it, ends the handler before.
AddBegins(n, x) ==
    /\ adding = Idle /\ adds < MaxAdds
    /\ mesh.nodes[n] = Absent
    /\ agent[n].up /\ ~agent[n].enrolled
    /\ Lowest(x)
    /\ adding' = [node |-> n, addr |-> x]
    /\ posts' = posts \cup {[node |-> n, addr |-> x, live |-> TRUE,
                             answer |-> Absent]}
    /\ adds' = adds + 1
    /\ UNCHANGED <<mesh, meshDisk, check, agent, agentDisk, meshClient,
                   mishaps, removed>>

AddAnswered(p, ok) ==
    /\ p \in posts /\ p.live /\ p.answer # Absent
    /\ posts' = posts \ {p}
    /\ adding' = Idle
    /\ IF p.answer = "ok"
       THEN mesh' = [mesh EXCEPT !.nodes[p.node] = NewRecord(p.addr)]
            /\ SavesMesh(ok)
       ELSE ok /\ UNCHANGED <<mesh, meshDisk, mishaps>>
    /\ UNCHANGED <<check, agent, agentDisk, meshClient, adds, removed>>

\* Twenty seconds are over, or an answer is lost: the node may still carry
\* the request out.
AddTimesOut(p) ==
    /\ p \in posts /\ p.live
    /\ Mishap(1)
    /\ posts' = (posts \ {p}) \cup
                (IF p.answer \in {Absent, "starting"}
                 THEN {[p EXCEPT !.live = FALSE]} ELSE {})
    /\ adding' = Idle
    /\ UNCHANGED <<mesh, meshDisk, check, agent, agentDisk, meshClient, adds,
                   removed>>

\* POST /v1/admin/nodes/delete: the node itself is told nothing.
DeleteNode(n, ok) ==
    /\ adding = Idle /\ mesh.nodes[n] # Absent
    /\ mesh' = [mesh EXCEPT !.nodes[n] = Absent]
    /\ SavesMesh(ok)
    /\ removed' = IF ok THEN removed \cup {n} ELSE removed
    /\ UNCHANGED <<adding, check, meshAgents, meshClient, adds>>

\* Pairing and deletion of a device, as far as its address goes: Registry.
DeviceEnrols(x) ==
    /\ adding = Idle /\ adds < MaxAdds /\ adds' = adds + 1
    /\ Lowest(x)
    /\ mesh' = [mesh EXCEPT !.devices = @ \cup {x}]
    /\ SavesMesh(TRUE)
    /\ UNCHANGED <<adding, check, meshAgents, meshClient, removed>>

DeviceLeaves(x) ==
    /\ adding = Idle /\ x \in mesh.devices
    /\ mesh' = [mesh EXCEPT !.devices = @ \ {x}]
    /\ SavesMesh(TRUE)
    /\ UNCHANGED <<adding, check, meshAgents, meshClient, adds, removed>>

MainRestarts ==
    /\ Mishap(1)
    /\ mesh' = meshDisk
    /\ adding' = Idle /\ check' = NoCheck
    /\ posts' = {[p EXCEPT !.live = FALSE] :
                   p \in {q \in posts : q.answer \in {Absent, "starting"}}}
    /\ beat' = Absent
    /\ UNCHANGED <<meshDisk, agent, agentDisk, lighthouses, hosts, adds,
                   removed>>

-----------------------------------------------------------------------------
(* The agent of a child node.                                              *)

\* Mutant: an enrolled node takes another enrolment.
EnrolsAgain(p, out) ==
    LET n == p.node
        now == [enrolled |-> TRUE, addr |-> p.addr]
    IN  /\ p \in posts /\ p.answer = Absent /\ agent[n].up
        /\ agent' = [agent EXCEPT ![n].enrolled = TRUE, ![n].addr = p.addr]
        /\ agentDisk' = [agentDisk EXCEPT ![n] =
                           IF out = "unsaved" THEN @ ELSE now]
        /\ Mishap(IF out = "ok" THEN 0 ELSE 1)
        /\ posts' = (posts \ {p}) \cup
                    {[p EXCEPT !.answer = IF out = "ok" THEN "starting"
                                          ELSE "failed"]}
        /\ UNCHANGED <<meshServer, meshClient, adds, removed>>

\* Under its stateMu: refused if enrolled; memory, three files, Enrolled,
\* the state file.  Name and address are in memory although a file failed.
Enrols(p, out) ==
    LET n == p.node
        now == [enrolled |-> TRUE, addr |-> p.addr]
    IN  /\ p \in posts /\ p.answer = Absent /\ agent[n].up
        /\ IF agent[n].enrolled
           THEN /\ out = "ok" /\ Mishap(0)
                /\ posts' = (posts \ {p}) \cup {[p EXCEPT !.answer = "failed"]}
                /\ UNCHANGED <<agent, agentDisk>>
           ELSE /\ agent' = [agent EXCEPT ![n].addr = p.addr,
                                          ![n].enrolled = out # "files"]
                /\ agentDisk' = [agentDisk EXCEPT ![n] =
                                   IF out \in {"files", "unsaved"} THEN @
                                   ELSE now]
                /\ Mishap(IF out = "ok" THEN 0 ELSE 1)
                /\ posts' = (posts \ {p}) \cup
                            {[p EXCEPT !.answer = IF out = "ok" THEN "starting"
                                                  ELSE "failed"]}
        /\ UNCHANGED <<meshServer, meshClient, adds, removed>>

\* startNebula, after the lock is released, then the answer.
StartsNebula(p, ok) ==
    /\ p \in posts /\ p.answer = "starting"
    /\ agent' = [agent EXCEPT ![p.node].nebula = ok]
    /\ Mishap(IF ok THEN 0 ELSE 1)
    /\ posts' = (posts \ {p}) \cup
                {[p EXCEPT !.answer = IF ok THEN "ok" ELSE "failed"]}
    /\ UNCHANGED <<agentDisk, meshServer, meshClient, adds, removed>>

\* Nobody waits for the answer any more.
Unheard(p) ==
    /\ p \in posts /\ ~p.live /\ p.answer \in {"ok", "failed"}
    /\ posts' = posts \ {p}
    /\ UNCHANGED <<agent, agentDisk, meshServer, meshClient, adds, mishaps,
                   removed>>

\* The waiter notices the exit of the child; nothing starts it again.
NebulaEnds(n) ==
    /\ agent[n].nebula
    /\ Mishap(1)
    /\ agent' = [agent EXCEPT ![n].nebula = FALSE]
    /\ UNCHANGED <<posts, agentDisk, meshServer, meshClient, adds, removed>>

AgentStops(n) ==
    /\ agent[n].up
    /\ Mishap(1)
    /\ agent' = [agent EXCEPT ![n].up = FALSE, ![n].nebula = FALSE]
    /\ posts' = {p \in posts : p.node # n} \cup
                {[p EXCEPT !.answer = IF @ = "ok" THEN "ok" ELSE "failed"] :
                   p \in {q \in posts : q.node = n /\ q.live}}
    /\ UNCHANGED <<agentDisk, meshServer, meshClient, adds, removed>>

\* An enrolled node serves only if Nebula starts.
AgentStarts(n) ==
    /\ ~agent[n].up /\ (\A p \in posts : p.node # n)
    /\ agent' = [agent EXCEPT ![n] =
                   [up |-> TRUE, nebula |-> agentDisk[n].enrolled,
                    enrolled |-> agentDisk[n].enrolled,
                    addr |-> agentDisk[n].addr]]
    /\ UNCHANGED <<posts, agentDisk, meshServer, meshClient, adds, mishaps,
                   removed>>

-----------------------------------------------------------------------------
(* The health check, every 15 seconds.                                     *)

CheckBegins ==
    /\ adding = Idle /\ check = NoCheck
    /\ check' = [NoCheck EXCEPT !.todo = Listed(mesh)]
    /\ Listed(mesh) # {}
    /\ UNCHANGED <<mesh, meshDisk, adding, meshAgents, meshClient, adds,
                   mishaps, removed>>

\* GET /v1/node/health.
Probe(n, lost) ==
    /\ n \in check.todo /\ check.node = Absent
    /\ check' = [todo |-> check.todo \ {n}, node |-> n,
                 nebula |-> agent[n].nebula,
                 result |-> IF agent[n].up /\ ~lost THEN "healthy"
                            ELSE "failed"]
    /\ Mishap(IF lost THEN 1 ELSE 0)
    /\ UNCHANGED <<mesh, meshDisk, adding, meshAgents, meshClient, adds,
                   removed>>

\* POST /v1/node/revocations: a push with something new restarts Nebula; one
\* that fails makes the probe a failed one.
Push(out) ==
    LET n == check.node
        reached == agent[n].up /\ agent[n].enrolled /\ out # "lost"
    IN  /\ check.result = "healthy"
        /\ check' = [check EXCEPT !.result =
                       IF reached /\ out # "broken" THEN "pushed"
                       ELSE "failed"]
        /\ agent' = [agent EXCEPT ![n].nebula =
                       IF reached /\ out \in {"new", "broken"} THEN out = "new"
                       ELSE @]
        /\ Mishap(IF out = "same" THEN 0 ELSE 1)
        /\ UNCHANGED <<mesh, meshDisk, adding, posts, agentDisk, meshClient,
                       adds, removed>>

Pushed(r) == [r EXCEPT !.online = TRUE, !.failures = 0,
                       !.running = check.nebula]

\* Mutant: failures are counted, and nothing is done about them.
FailedStays(r) == [r EXCEPT !.failures = IF @ < 3 THEN @ + 1 ELSE 3]

\* Three failures in a row take the node off the clients' lists.
Failed(r) ==
    LET k == IF r.failures < 3 THEN r.failures + 1 ELSE 3  \* bound: 3
    IN  [r EXCEPT !.failures = k, !.online = @ /\ k < 3,
                  !.running = @ /\ k < 3]

\* Mutant: the result is written back whether the list has the node or not.
WriteBackAnyway ==
    LET n == check.node
        r == IF mesh.nodes[n] # Absent THEN mesh.nodes[n]
             ELSE NewRecord(agent[n].addr)
    IN  /\ adding = Idle /\ check.result \in {"pushed", "failed"}
        /\ mesh' = [mesh EXCEPT !.nodes[n] =
                      IF check.result = "pushed" THEN Pushed(r) ELSE Failed(r)]
        /\ \E ok \in BOOLEAN : SavesMesh(ok)
        /\ check' = [NoCheck EXCEPT !.todo = check.todo]
        /\ UNCHANGED <<adding, meshAgents, meshClient, adds, removed>>

\* By ID, if the list still has it; what saveJSON says is ignored.
WriteBack ==
    LET n == check.node
        r == mesh.nodes[n]
    IN  /\ adding = Idle /\ check.result \in {"pushed", "failed"}
        /\ mesh' = [mesh EXCEPT !.nodes[n] =
                      IF r = Absent THEN r
                      ELSE IF check.result = "pushed" THEN Pushed(r)
                      ELSE Failed(r)]
        /\ \E ok \in BOOLEAN : SavesMesh(ok)
        /\ check' = [NoCheck EXCEPT !.todo = check.todo]
        /\ UNCHANGED <<adding, meshAgents, meshClient, adds, removed>>

-----------------------------------------------------------------------------
(* A client: its heartbeat is answered with the list.                      *)

BeatAnswered ==
    /\ adding = Idle /\ beat = Absent
    /\ beat' = Endpoints
    /\ UNCHANGED <<meshServer, meshAgents, lighthouses, hosts, adds, mishaps,
                   removed>>

BeatLost ==
    /\ beat # Absent /\ beat' = Absent
    /\ Mishap(1)
    /\ UNCHANGED <<meshServer, meshAgents, lighthouses, hosts, adds, removed>>

\* syncLighthouseNodes: nothing to do if client-state.json has this list;
\* else the config and then the file are written, and the file asks the
\* Route Guard for a restart of the service.
SyncLighthouses(out) ==
    /\ beat # Absent /\ beat' = Absent
    /\ out # "ok" => beat # lighthouses
    /\ hosts' = IF beat = lighthouses \/ out = "neither" THEN hosts ELSE beat
    /\ lighthouses' = IF out = "ok" THEN beat ELSE lighthouses
    /\ Mishap(IF out = "ok" THEN 0 ELSE 1)
    /\ UNCHANGED <<meshServer, meshAgents, adds, removed>>

-----------------------------------------------------------------------------
MeshInit ==
    /\ mesh = [nodes |-> [n \in Nodes |-> Absent], devices |-> {}]
    /\ meshDisk = mesh
    /\ adding = Idle /\ posts = {} /\ check = NoCheck
    /\ agent = [n \in Nodes |-> [up |-> TRUE, nebula |-> FALSE,
                                 enrolled |-> FALSE, addr |-> Absent]]
    /\ agentDisk = [n \in Nodes |-> NotEnrolled]
    /\ beat = Absent /\ lighthouses = {} /\ hosts = {}
    /\ adds = 0 /\ mishaps = 0 /\ removed = {}

Enrolment ==
    \E p \in posts :
        \/ AddTimesOut(p)
        \/ Unheard(p)
        \/ \E out \in {"ok", "files", "unsaved", "late"} : Enrols(p, out)
        \/ \E ok \in BOOLEAN : StartsNebula(p, ok) \/ AddAnswered(p, ok)

Answering == adding # Idle /\ Enrolment
Checking ==
    \/ CheckBegins
    \/ \E n \in Nodes, lost \in BOOLEAN : Probe(n, lost)
    \/ \E out \in {"same", "new", "broken", "lost"} : Push(out)
Writing == WriteBack
Syncing == \E out \in {"ok", "neither", "unsaved"} : SyncLighthouses(out)

MeshNext ==
    \/ Enrolment \/ Checking \/ WriteBack \/ Syncing
    \/ \E n \in Nodes :
          \/ \E x \in Addrs : AddBegins(n, x)
          \/ \E ok \in BOOLEAN : DeleteNode(n, ok)
          \/ NebulaEnds(n) \/ AgentStops(n) \/ AgentStarts(n)
    \/ \E x \in Addrs : DeviceEnrols(x) \/ DeviceLeaves(x)
    \/ MainRestarts
    \/ BeatAnswered \/ BeatLost

\* The handlers return, the health check and the heartbeats go on.
MeshFairness ==
    /\ WF_meshVars(Answering)
    /\ WF_meshVars(Checking)
    /\ WF_meshVars(WriteBack)
    /\ WF_meshVars(BeatAnswered)
    /\ WF_meshVars(Syncing)

MeshSpec == MeshInit /\ [][MeshNext]_meshVars
MeshFairSpec == MeshSpec /\ MeshFairness

-----------------------------------------------------------------------------
MeshState ==
    [nodes : [Nodes -> {Absent} \cup
                [addr : Addrs, online : BOOLEAN, running : BOOLEAN,
                 failures : 0 .. 3]],
     devices : SUBSET Addrs]

\* Types, and what one of the parts says of another: the handler in
\* addMeshNode is the one a live request belongs to, and a node whose Nebula
\* runs is up.
MeshTypeOK ==
    /\ {mesh, meshDisk} \subseteq MeshState
    /\ adding = Idle <=> \A p \in posts : ~p.live
    /\ \A p \in posts : p.live => adding = [node |-> p.node, addr |-> p.addr]
    /\ \A n \in Nodes : agent[n].nebula => agent[n].up /\ agent[n].enrolled
    /\ check.result = Absent <=> check.node = Absent
    /\ beat \in {Absent} \cup SUBSET Nodes
    /\ lighthouses \subseteq Nodes /\ hosts \subseteq Nodes

\* What the server has in memory and on disk never gives one address to two
\* nodes or to a node and a device.
MeshAddressesUnique ==
    \A s \in {mesh, meshDisk} : \A n \in Listed(s) :
        /\ s.nodes[n].addr \notin s.devices
        /\ \A k \in Listed(s) \ {n} : s.nodes[k].addr # s.nodes[n].addr

\* A node the server lists keeps, also over a restart, the enrolment with the
\* address the server lists it with, although requests the server gave up on
\* are carried out late: the health check always probes the node it writes
\* about, and a node is not listed again under an older enrolment.
RecordsMatchAgents ==
    \A s \in {mesh, meshDisk} : \A n \in Listed(s) :
        /\ agentDisk[n] = [enrolled |-> TRUE, addr |-> s.nodes[n].addr]
        /\ agent[n].up => agent[n].enrolled /\ agent[n].addr = s.nodes[n].addr

\* A node whose deletion was answered does not come back: not by a health
\* check that began before, nor after a restart.
RemovedNodeStaysAway == removed \cap Listed(mesh) = {}

\* In the end a client knows the nodes that are listed, up and running
\* Nebula, and no node that was deleted, is down or lost its Nebula, as far as
\* each stays so.
ClientsFollowNodes ==
    \A n \in Nodes :
        /\ (<>[](mesh.nodes[n] # Absent /\ agent[n].up /\ agent[n].nebula)
              => <>[](n \in lighthouses))
        /\ (<>[](mesh.nodes[n] = Absent \/ ~agent[n].up \/ ~agent[n].nebula)
              => <>[](n \notin lighthouses))

\* After a node's deletion a client drops it from Nebula's config.  A sync
\* that wrote the config with the node and failed to save client-state.json
\* leaves it there: the file already equals the list without the node.
DeletedNodeLeaves ==
    \A n \in Nodes : <>[](mesh.nodes[n] = Absent) => <>[](n \notin hosts)
=============================================================================
