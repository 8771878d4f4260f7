--------------------------- MODULE IdentityRepair ---------------------------
(***************************************************************************)
(* One Windows client, the main server and the requests between them: the  *)
(* identity repair of repairIdentity, enrolling again through /api/pair,   *)
(* heartbeats, and the fingerprints the server reads from its Nebula log.  *)
(*                                                                         *)
(* The server is Registry, handler by handler.  The client's half is not   *)
(* atomic.  A heartbeat, and every handler that changes a setting, holds   *)
(* stateMu from its load of client-state.json to its save of the whole     *)
(* record; repairIdentity holds it for each load and each save, and        *)
(* /api/pair never takes it.  Every write of the client may fail, also one *)
(* that puts an old file or the old state back, and the error of those is  *)
(* ignored.  A request the client gave up on may still be executed by the  *)
(* server later; a reply may be lost.                                      *)
(*                                                                         *)
(* A device key is named after who generated it: Device for the first one, *)
(* the repair for the others.                                              *)
(***************************************************************************)
EXTENDS Registry

CONSTANTS Device,    \* the client's device name
          Repairs,   \* runs of repairIdentity
          Pairings   \* later runs of /api/pair

Jobs == Repairs \cup Pairings

ASSUME RepairAssumption ==
    /\ Device \in Names
    /\ {Device} \cup Repairs \subseteq Keys
    /\ Device \notin Repairs
    /\ Repairs \cap Pairings = {}
    /\ None \notin Jobs
    /\ MaxCerts > 0

VARIABLES
    client,  \* client-state.json: token, cached fingerprint
    files,   \* host.key and host.crt
    loaded,  \* the certificate the local Nebula service loaded
    job,     \* progress of every repair and pairing
    holder,  \* the heartbeat or handler that holds stateMu, and what it loaded
    crossed, \* history: a pairing saved its state while another copy was held
    wire,    \* requests the server has not executed
    replies, \* replies the client has not read
    lines    \* handshake lines of the server's Nebula log, not read yet

clientVars == <<client, files, loaded, job, holder, crossed>>
netVars == <<wire, replies>>
registryVars == vars
allVars == <<registryVars, clientVars, netVars, lines>>

ClientState == [tok : CertOrNone, fp : CertOrNone]
IdentityFiles == [key : Keys, cert : CertOrNone]
Waiting == {"rekey", "pair", "commit"}
\* A repair is "stuck" when it failed and the save that had to put the old
\* state back failed too, or a failing save had replaced the file already.
Over == {"done", "failed", "stuck", "crashed"}
Steps == {"idle", "key", "crt", "state", "undo", "unsave", "service"}
Job == [pc : Waiting \cup Over \cup Steps, old : ClientState,
        files : IdentityFiles, new : CertOrNone]
Request == [op : {"rekey", "pair", "commit", "beat"}, job : Jobs \cup {None},
            tok : CertOrNone, val : Nat, key : Keys]

\* currentCertificateFingerprint: the cached one wins over the file's.
Fingerprint(s) == IF s.fp # 0 THEN s.fp ELSE files.cert

Nobody == [busy |-> FALSE, copy |-> [tok |-> 0, fp |-> 0]]

Goto(j, pc) == job' = [job EXCEPT ![j].pc = pc]

Post(op, j, tok, val, key) ==
    wire' = wire \cup {[op |-> op, job |-> j, tok |-> tok, val |-> val,
                        key |-> key]}

-----------------------------------------------------------------------------
(* The client: repairIdentity.                                             *)

\* The state is copied under stateMu; everything after works on the copy.
StartRepair(r) ==
    /\ job[r].pc = "idle"
    /\ ~holder.busy
    /\ client.tok # 0
    /\ Fingerprint(client) # 0
    /\ job' = [job EXCEPT ![r].pc = "rekey",
                          ![r].old = [client EXCEPT !.fp = Fingerprint(client)]]
    /\ Post("rekey", r, client.tok, Fingerprint(client), r)
    /\ UNCHANGED <<client, files, loaded, replies>>

\* The rekey hash arrived: a key is generated and sent to be signed.
SendRepairKey(r) ==
    /\ job[r].pc = "rekey"
    /\ \E m \in replies :
          /\ m.job = r
          /\ Post("pair", r, 0, m.val, r)
          /\ replies' = replies \ {m}
    /\ Goto(r, "pair")
    /\ UNCHANGED <<client, files, loaded>>

\* The staged certificate arrived and passed nebula -test; the files it will
\* replace are kept aside.
KeepOldFiles(r) ==
    /\ job[r].pc = "pair"
    /\ \E m \in replies :
          /\ m.job = r
          /\ job' = [job EXCEPT ![r].pc = "key", ![r].new = m.val,
                                ![r].files = files]
          /\ replies' = replies \ {m}
    /\ UNCHANGED <<client, files, loaded, wire>>

\* writeIdentityFiles, file by file.
WriteKey(r) ==
    /\ job[r].pc = "key"
    /\ files' = [files EXCEPT !.key = r]
    /\ Goto(r, "crt")
    /\ UNCHANGED <<client, loaded, netVars>>

WriteCertificate(r) ==
    /\ job[r].pc = "crt"
    /\ files' = [files EXCEPT !.cert = job[r].new]
    /\ Goto(r, "state")
    /\ UNCHANGED <<client, loaded, netVars>>

\* A key, the certificate, the CA or the config is not written:
\* repairIdentity returns and puts nothing back.
WriteFails(r) ==
    /\ job[r].pc \in {"key", "crt", "state"}
    /\ Goto(r, "failed")
    /\ UNCHANGED <<client, files, loaded, netVars>>

\* Mutant: the cached fingerprint of the old certificate is kept.
SaveIdentityKeepsFingerprint(r) ==
    /\ job[r].pc = "state"
    /\ ~holder.busy
    /\ client' = [job[r].old EXCEPT !.tok = job[r].new]
    /\ Post("commit", r, job[r].new, 0, r)
    /\ Goto(r, "commit")
    /\ UNCHANGED <<files, loaded, replies>>

\* The copy of the state, with the new identity.
Renewal(r) == [job[r].old EXCEPT !.tok = job[r].new, !.fp = job[r].new]

\* It replaces the state file, and the commit is sent.
SaveIdentity(r) ==
    /\ job[r].pc = "state"
    /\ ~holder.busy
    /\ client' = Renewal(r)
    /\ Post("commit", r, job[r].new, 0, r)
    /\ Goto(r, "commit")
    /\ UNCHANGED <<files, loaded, replies>>

\* The key and the certificate that were kept are written back, each if its
\* write succeeds.
FilesPutBack(r) ==
    files' \in [key : {files.key, job[r].files.key},
               cert : {files.cert, job[r].files.cert}]

\* The save fails, before or after it replaced the state file: the files are
\* put back, the state is not.
SaveFails(r) ==
    /\ job[r].pc = "state"
    /\ ~holder.busy
    /\ FilesPutBack(r)
    /\ \/ UNCHANGED client /\ Goto(r, "failed")
       \/ client' = Renewal(r) /\ Goto(r, "stuck")
    /\ UNCHANGED <<loaded, netVars>>

\* The server answered the commit with 200.
Committed(r) ==
    /\ job[r].pc = "commit"
    /\ \E m \in replies : m.job = r /\ replies' = replies \ {m}
    /\ Goto(r, "service")
    /\ UNCHANGED <<client, files, loaded, wire>>

\* The commit was not answered with 200: the old files are put back.
UndoFiles(r) ==
    /\ job[r].pc = "undo"
    /\ FilesPutBack(r)
    /\ Goto(r, "unsave")
    /\ UNCHANGED <<client, loaded, netVars>>

\* Mutant: only the files are put back.
UndoStateForgotten(r) ==
    /\ job[r].pc = "unsave"
    /\ ~holder.busy
    /\ Goto(r, "failed")
    /\ UNCHANGED <<client, files, loaded, netVars>>

\* The old copy of the state is saved, if that succeeds.
UndoState(r) ==
    /\ job[r].pc = "unsave"
    /\ ~holder.busy
    /\ \/ client' = job[r].old /\ Goto(r, "failed")
       \/ UNCHANGED client /\ Goto(r, "stuck")
    /\ UNCHANGED <<files, loaded, netVars>>

\* The service restart at the end of a repair or pairing; it may fail, and the
\* identity is kept.
RestartService(j) ==
    /\ job[j].pc = "service"
    /\ loaded' \in {loaded, files.cert}
    /\ Goto(j, "done")
    /\ UNCHANGED <<client, files, netVars>>

\* A request is refused, times out or loses its reply.  The server may still
\* execute it.  Only after a commit is there something to undo.
GiveUp(j) ==
    /\ job[j].pc \in Waiting
    /\ replies' = {m \in replies : m.job # j}
    /\ Goto(j, IF job[j].pc = "commit" THEN "undo" ELSE "failed")
    /\ UNCHANGED <<client, files, loaded, wire>>

-----------------------------------------------------------------------------
(* The client: /api/pair, heartbeats, crash.                               *)

\* /api/pair keeps the key it finds and sends it with an administrator's hash.
StartPairing(p) ==
    /\ job[p].pc = "idle"
    /\ \E id \in Codes : Post("pair", p, 0, id, files.key)
    /\ job' = [job EXCEPT ![p].pc = "pair", ![p].old = client]
    /\ UNCHANGED <<client, files, loaded, replies>>

WritePairedCertificate(p) ==
    /\ job[p].pc = "pair"
    /\ \E m \in replies :
          /\ m.job = p
          /\ files' = [files EXCEPT !.cert = m.val]
          /\ job' = [job EXCEPT ![p].pc = "state", ![p].new = m.val]
          /\ replies' = replies \ {m}
    /\ UNCHANGED <<client, loaded, wire>>

\* The copy read at the start, with the new pairing; the cached fingerprint
\* is the copy's.
PairedState(p) == [job[p].old EXCEPT !.tok = job[p].new]

\* It is saved without stateMu: a handler that has loaded the state will write
\* the old pairing back.
SavePairing(p) ==
    /\ job[p].pc = "state"
    /\ client' = PairedState(p)
    /\ crossed' = (crossed \/ holder.busy)
    /\ Goto(p, "service")
    /\ UNCHANGED <<files, loaded, netVars>>

\* The CA, the config or the state is not written, or not finished: the answer
\* is 500, and nothing is undone.
PairingFails(p) ==
    /\ job[p].pc = "state"
    /\ client' \in {client, PairedState(p)}
    /\ Goto(p, "failed")
    /\ UNCHANGED <<files, loaded, netVars>>

\* A heartbeat, or another handler that saves the state, takes stateMu and
\* loads.
TakeState ==
    /\ ~holder.busy
    /\ client.tok # 0
    /\ holder' = [busy |-> TRUE, copy |-> client]
    /\ UNCHANGED <<client, files, loaded, job, netVars>>

\* sendHeartbeat reads the interface counters, caches the fingerprint it will
\* report, saves the state it loaded, whether that succeeds or not, gives
\* stateMu back and sends.
SendHeartbeat ==
    LET copy == holder.copy
        fp == Fingerprint(copy)
    IN  /\ holder.busy
        /\ client' \in {client, [copy EXCEPT !.fp = fp]}
        /\ Post("beat", None, copy.tok, fp, Device)
        /\ holder' = Nobody
        /\ UNCHANGED <<files, loaded, job, replies>>

\* identityStatus caches the fingerprint too; a handler that changes something
\* else saves the pairing it loaded.
SaveState ==
    /\ holder.busy
    /\ client' \in {client, holder.copy,
                    [holder.copy EXCEPT !.fp = Fingerprint(holder.copy)]}
    /\ holder' = Nobody
    /\ UNCHANGED <<files, loaded, job, netVars>>

ClientCrash ==
    /\ holder.busy \/ \E j \in Jobs : job[j].pc \notin Over \cup {"idle"}
    /\ holder' = Nobody
    /\ job' = [j \in Jobs |-> IF job[j].pc \in Over \cup {"idle"} THEN job[j]
                              ELSE [job[j] EXCEPT !.pc = "crashed"]]
    /\ replies' = {}
    /\ UNCHANGED <<client, files, loaded, wire>>

-----------------------------------------------------------------------------
(* The server executes a request of the client.                            *)

Reply(m, good, val) ==
    replies' = IF good /\ job[m.job].pc = m.op
               THEN replies \cup {[job |-> m.job, val |-> val]}
               ELSE replies

\* Mutant: handshake lines of the old child are read after the restart.
RestartsAnyway(out) == TRUE

\* Restart waits for the child's output to be read, and its handshake lines
\* are read under the mutex the handler holds.
Restarts(out) == out = "ok" => lines = {}

HandleRekey(m) ==
    \E out \in SaveOutcomes :
        /\ RequestRekey(Device, m.tok, m.val, out)
        /\ Reply(m, out = "ok", nextCode)

Issued(c) == \/ mem'.peers[Device].tok = c
             \/ \E p \in mem'.pending : p.new = c

\* Mutant: the reply does not wait for the state file.
HandlePairUnsaved(m) ==
    \E out \in SignOutcomes :
        /\ \/ PairNew(m.val, Device, m.key, out)
           \/ PairRekey(m.val, Device, m.key, out)
        /\ Reply(m, Issued(nextCert), nextCert)

\* A refusal after the hash was bound changes nothing a lone device could
\* notice; it is one of the reasons for GiveUp.
HandlePair(m) ==
    \E out \in SignOutcomes :
        /\ \/ PairNew(m.val, Device, m.key, out)
           \/ PairRekey(m.val, Device, m.key, out)
        /\ Reply(m, out = "ok" /\ Issued(nextCert), nextCert)

HandleCommit(m) ==
    \E out \in PublishOutcomes :
        /\ Restarts(out)
        /\ CommitRekey(Device, m.tok, out)
        /\ Reply(m, out = "ok", m.tok)

HandleHeartbeat(m) ==
    /\ \E out \in SaveOutcomes : Heartbeat(Device, m.tok, m.val, out)
    /\ UNCHANGED replies

Handle(m) ==
    /\ \/ m.op = "rekey" /\ HandleRekey(m)
       \/ m.op = "pair" /\ HandlePair(m)
       \/ m.op = "commit" /\ HandleCommit(m)
       \/ m.op = "beat" /\ HandleHeartbeat(m)
    /\ wire' = wire \ {m}
    /\ UNCHANGED <<clientVars, lines>>

\* The administrator issues a hash for a device that pairs again.
Enroll ==
    /\ Pairings # {}
    /\ \E out \in SaveOutcomes : AdminEnroll(out)
    /\ UNCHANGED <<clientVars, netVars, lines>>

Delete ==
    /\ \E out \in PublishOutcomes : Restarts(out) /\ DeletePeer(Device, out)
    /\ UNCHANGED <<clientVars, netVars, lines>>

\* The client's Nebula shakes hands with the server's.
Handshake ==
    /\ nebula.running
    /\ loaded \notin nebula.list
    /\ loaded \notin lines
    /\ lines' = lines \cup {loaded}
    /\ UNCHANGED <<registryVars, clientVars, netVars>>

ReadLine(c) ==
    /\ c \in lines
    /\ lines' = lines \ {c}
    /\ IF up /\ Registered(mem, Device) /\ mem.peers[Device].fp # c
       THEN \E out \in SaveOutcomes : LogFingerprint(Device, c, out)
       ELSE UNCHANGED registryVars
    /\ UNCHANGED <<clientVars, netVars>>

ServerStops ==
    /\ Crash
    /\ lines' = {}
    /\ UNCHANGED <<clientVars, netVars>>

ServerStarts ==
    /\ Serve
    /\ UNCHANGED <<clientVars, netVars, lines>>

World ==
    /\ \/ \E c \in Certs : ExpireRekey(c)
       \/ NebulaExit
    /\ UNCHANGED <<clientVars, netVars, lines>>

Server ==
    \/ \E m \in wire : Handle(m)
    \/ Enroll
    \/ Delete
    \/ \E c \in Certs : ReadLine(c)
    \/ ServerStops
    \/ ServerStarts

RepairStep(r) ==
    \/ StartRepair(r)
    \/ SendRepairKey(r)
    \/ KeepOldFiles(r)
    \/ WriteKey(r)
    \/ WriteCertificate(r)
    \/ WriteFails(r)
    \/ SaveIdentity(r)
    \/ SaveFails(r)
    \/ Committed(r)
    \/ UndoFiles(r)
    \/ UndoState(r)
    \/ RestartService(r)
    \/ GiveUp(r)

PairingStep(p) ==
    \/ StartPairing(p)
    \/ WritePairedCertificate(p)
    \/ PairingFails(p)
    \/ RestartService(p)
    \/ GiveUp(p)

\* The handlers that hold stateMu, and the end of the client.
HolderStep ==
    \/ TakeState
    \/ SendHeartbeat
    \/ SaveState
    \/ ClientCrash

ClientStep ==
    \/ \E r \in Repairs : RepairStep(r) /\ UNCHANGED <<holder, crossed>>
    \/ \E p \in Pairings : PairingStep(p) /\ UNCHANGED <<holder, crossed>>
    \/ \E p \in Pairings : SavePairing(p) /\ UNCHANGED holder
    \/ HolderStep /\ UNCHANGED crossed

\* The device is paired with its first certificate and the administrator has
\* withdrawn the hash it used.
Paired ==
    [EmptyState EXCEPT !.peers[Device] =
        [key |-> Device, addr |-> 1, fp |-> 1, tok |-> 1]]

RepairInit ==
    /\ mem = Paired
    /\ disk = Paired
    /\ conf = {}
    /\ nebula = Running({})
    /\ up = TRUE
    /\ deadCodes = {}
    /\ deadRekeys = {}
    /\ nextCode = 1
    /\ nextCert = 2
    /\ acked = {}
    /\ sent = {}
    /\ forgot = FALSE
    /\ client = [tok |-> 1, fp |-> 1]
    /\ files = [key |-> Device, cert |-> 1]
    /\ loaded = 1
    /\ job = [j \in Jobs |-> [pc |-> "idle", old |-> client, files |-> files,
                              new |-> 0]]
    /\ holder = Nobody
    /\ crossed = FALSE
    /\ wire = {}
    /\ replies = {}
    /\ lines = {}

RepairNext ==
    \/ ClientStep /\ UNCHANGED <<registryVars, lines>>
    \/ Server
    \/ Handshake
    \/ World

RepairSpec == RepairInit /\ [][RepairNext]_allVars

-----------------------------------------------------------------------------
(* Properties.                                                             *)

\* Type invariant of the client, the requests and the replies.
RepairTypeOK ==
    /\ client \in ClientState
    /\ files \in IdentityFiles
    /\ loaded \in CertIds
    /\ job \in [Jobs -> Job]
    /\ holder \in [busy : BOOLEAN, copy : ClientState]
    /\ crossed \in BOOLEAN
    /\ wire \subseteq Request
    /\ replies \subseteq [job : Jobs, val : Nat \ {0}]
    /\ lines \subseteq CertIds

\* The administrator has not been asked to pair the device again.
NoPairing == \A p \in Pairings : job[p].pc = "idle"

\* No repair has been started.
NoRepair == \A r \in Repairs : job[r].pc = "idle"

\* A repair that was answered 200 has switched both sides: the client holds
\* the new key, certificate and token, the server accepts that token, has
\* revoked the certificate the client gave up and records the new one, so
\* that deleting the device would revoke the right certificate.
RepairSwitched ==
    NoPairing => \A r \in Repairs : job[r].pc \in {"service", "done"} =>
        /\ files = [key |-> r, cert |-> job[r].new]
        /\ client.tok = job[r].new
        /\ job[r].old.fp \in mem.rev \cap disk.rev
        /\ \A s \in {mem, disk} : Registered(s, Device) =>
              /\ Authorized(s, Device, client.tok)
              /\ s.peers[Device].key = r
              /\ s.peers[Device].fp = files.cert

\* A repair that failed before the server switched, and could save the state
\* it had replaced, leaves the device a token the server accepts and a
\* certificate that is not revoked, whatever was staged, bound, half written
\* or not written back on the way.  The key may no longer fit that
\* certificate.  A "stuck" repair keeps the staged token.
UncommittedRepairHarmless ==
    NoPairing => \A r \in Repairs :
        /\ job[r].pc = "failed"
        /\ Registered(mem, Device)
        /\ mem.peers[Device].tok # job[r].new
        => /\ Authorized(mem, Device, client.tok)
           /\ files.cert \notin mem.rev

\* A pairing that was answered 200 is in the server's memory and state file:
\* the token it gave the device survives a restart of the server.  The client
\* holds that token unless a heartbeat or another handler had loaded the state
\* before the pairing saved it: that one puts the old token back.
PairingSwitched ==
    NoRepair => \A p \in Pairings : job[p].pc \in {"service", "done"} =>
        \A s \in {mem, disk} : Registered(s, Device) =>
            /\ Authorized(s, Device, job[p].new)
            /\ crossed \/ Authorized(s, Device, client.tok)

\* When the administrator deleted the device, the certificate the device goes
\* on using is on the list, whatever repairs, late requests and log lines did
\* to the fingerprint the server had recorded for it.
RepairedDeviceCutOff ==
    /\ NoPairing
    /\ ~Registered(mem, Device)
    /\ \A r \in Repairs : job[r].pc \in {"idle", "done"}
    => files.cert \in mem.rev

-----------------------------------------------------------------------------
(* What the application says of a deletion, and the code does not keep.    *)

=============================================================================
