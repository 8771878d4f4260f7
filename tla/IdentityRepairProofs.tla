------------------------ MODULE IdentityRepairProofs ------------------------
(***************************************************************************)
(* Proofs about IdentityRepair, for any repairs and pairings, every bound  *)
(* and every subset of the outcomes of a handler, with requests that are   *)
(* executed after the client gave up and replies that are lost.            *)
(*                                                                         *)
(* Types hold whatever runs at once.  The safety properties are proved for *)
(* the one repair, or the one pairing, that a client ever starts: another  *)
(* one beside it, or a late request of an earlier one, can break them.     *)
(***************************************************************************)
EXTENDS IdentityRepair, RegistryProofs

\* Steps after which a job holds a certificate of its own.
Holding == {"key", "crt", "state", "commit", "undo", "unsave", "service",
            "done"}

JobRecord == [pc : Waiting \cup Over \cup Steps, old : ClientState,
              files : [key : Keys, cert : CertIds], new : CertOrNone]
RequestShape(m) ==
    /\ m \in Request
    /\ m.op = "beat" <=> m.job = None
    /\ m.op \in {"beat", "rekey"} => m.val \in CertOrNone

\* Steps of a job that has given up on its request.
Silenced == {"failed", "crashed", "undo", "unsave", "stuck"}

\* A job has at most one request or reply under way, of the step it waits in;
\* the server may still execute the request of one that gave up.
Silent(j) == \A m \in wire : m.job # j
Unanswered(j) == \A a \in replies : a.job # j
Talk(j) ==
    /\ \A m \in wire : m.job = j =>
          /\ job[j].pc \in Waiting \cup Silenced
          /\ job[j].pc \in Waiting => m.op = job[j].pc
    /\ \A m, n \in wire : m.job = j /\ n.job = j => m = n
    /\ \A a \in replies : a.job = j =>
          /\ job[j].pc \in Waiting
          /\ job[j].pc = "pair" => a.val \in CertIds
          /\ Silent(j)
    /\ \A a, b \in replies : a.job = j /\ b.job = j => a = b

ClientShape ==
    /\ client \in ClientState
    /\ files \in [key : Keys, cert : CertIds]
    /\ loaded \in CertIds
    /\ job \in [Jobs -> JobRecord]
    /\ \A j \in Jobs : job[j].pc \in Holding => job[j].new \in CertIds
    /\ \A m \in wire : RequestShape(m)
    /\ replies \subseteq [job : Jobs, val : Nat \ {0}]
    /\ \A j \in Jobs : Talk(j)

HolderShape == /\ holder \in [busy : BOOLEAN, copy : ClientState]
               /\ crossed \in BOOLEAN

RepairShape == TypeOK /\ ClientShape /\ HolderShape /\ lines \subseteq CertIds

-----------------------------------------------------------------------------
(* A job takes a step.                                                     *)

\* The names of jobs, devices and keys.
LEMMA JobFacts ==
    /\ None \notin Jobs /\ Repairs \cap Pairings = {}
    /\ Device \in Names /\ Device \in Keys /\ Repairs \subseteq Keys
    /\ Repairs \subseteq Jobs /\ Pairings \subseteq Jobs
    /\ Device \notin Repairs /\ 1 \in CertIds
  BY RepairAssumption, RegistryAssumption
  DEF RepairAssumption, Jobs, CertIds, RegistryAssumption

\* Job j moves to q: it has given up or nothing of it is under way.
LEMMA JobStep ==
    ASSUME ClientShape, NEW j \in Jobs, NEW q \in JobRecord,
           job' = [job EXCEPT ![j] = q],
           q.pc \in Holding => q.new \in CertIds,
           client' \in ClientState, files' \in [key : Keys, cert : CertIds],
           loaded' \in CertIds, wire' = wire, replies' \subseteq replies,
           Unanswered(j)',
           Silent(j) \/ q.pc \in Silenced
    PROVE  ClientShape'
  <1>1. /\ job' \in [Jobs -> JobRecord] /\ job'[j] = q
        /\ \A i \in Jobs : i # j => job'[i] = job[i]
    BY DEF ClientShape
  <1>2. ASSUME NEW i \in Jobs, i # j PROVE Talk(i)'
    BY <1>1, <1>2 DEF ClientShape, Talk, Silent
  <1>3. Talk(j)'
    BY <1>1 DEF ClientShape, Talk, Silent, Unanswered, Waiting, Silenced
  <1>4. \A i \in Jobs : job'[i].pc \in Holding => job'[i].new \in CertIds
    BY <1>1 DEF ClientShape
  <1> QED
    BY <1>1, <1>2, <1>3, <1>4 DEF ClientShape

\* Job j moves to q and posts the request q waits for.
LEMMA JobPosts ==
    ASSUME ClientShape, NEW j \in Jobs, NEW q \in JobRecord,
           job' = [job EXCEPT ![j] = q],
           q.pc \in Holding => q.new \in CertIds,
           client' \in ClientState, files' \in [key : Keys, cert : CertIds],
           loaded' \in CertIds, replies' \subseteq replies,
           Unanswered(j)', Silent(j),
           NEW m, RequestShape(m), m.job = j, m.op = q.pc, q.pc \in Waiting,
           wire' = wire \cup {m}
    PROVE  ClientShape'
  <1>1. /\ job' \in [Jobs -> JobRecord] /\ job'[j] = q
        /\ \A i \in Jobs : i # j => job'[i] = job[i]
    BY DEF ClientShape
  <1>2. ASSUME NEW i \in Jobs, i # j PROVE Talk(i)'
    BY <1>1, <1>2 DEF ClientShape, Talk, Silent
  <1>3. Talk(j)'
    BY <1>1 DEF ClientShape, Talk, Silent, Unanswered, Waiting, Silenced
  <1>4. \A i \in Jobs : job'[i].pc \in Holding => job'[i].new \in CertIds
    BY <1>1 DEF ClientShape
  <1>5. \A n \in wire' : RequestShape(n)
    BY DEF ClientShape
  <1> QED
    BY <1>1, <1>2, <1>3, <1>4, <1>5 DEF ClientShape

\* The steps that a repair and a pairing share.
LEMMA EndStepShape ==
    ASSUME ClientShape, NEW j \in Jobs, RestartService(j) \/ GiveUp(j)
    PROVE  ClientShape'
  <1>0. /\ job[j] \in JobRecord /\ job \in [Jobs -> JobRecord]
        /\ client \in ClientState /\ files \in [key : Keys, cert : CertIds]
        /\ loaded \in CertIds
        /\ job[j].pc \in Holding => job[j].new \in CertIds
    BY DEF ClientShape
  <1>1. ASSUME NEW pc \in Waiting \cup Over \cup Steps
        PROVE  /\ [job[j] EXCEPT !.pc = pc] \in JobRecord
               /\ [job[j] EXCEPT !.pc = pc].pc = pc
               /\ [job[j] EXCEPT !.pc = pc].new = job[j].new
    BY <1>0 DEF JobRecord
  <1>2. CASE RestartService(j)
    <2> DEFINE q1 == [job[j] EXCEPT !.pc = "done"]
    <2>1. q1 \in JobRecord /\ q1.pc = "done" /\ q1.new \in CertIds
      BY <1>0, <1>1, <1>2 DEF RestartService, Holding, Over
    <2>2. job' = [job EXCEPT ![j] = q1]
      BY <1>0, <1>2 DEF RestartService, Goto
    <2>3. Silent(j) /\ Unanswered(j)
      BY <1>2 DEF ClientShape, Talk, Silent, Unanswered, RestartService,
                  Waiting, Silenced
    <2>4. loaded' \in CertIds
      BY <1>0, <1>2 DEF RestartService
    <2> HIDE DEF q1
    <2> QED
      BY <1>0, <1>2, <2>1, <2>2, <2>3, <2>4, JobStep
      DEF RestartService, netVars, Unanswered
  <1>3. CASE GiveUp(j)
    <2> DEFINE pc == IF job[j].pc = "commit" THEN "undo" ELSE "failed"
               q1 == [job[j] EXCEPT !.pc = pc]
    <2>1. q1 \in JobRecord /\ q1.pc = pc /\ q1.new = job[j].new
      BY <1>0, <1>1 DEF Over, Steps
    <2>2. job' = [job EXCEPT ![j] = q1]
      BY <1>0, <1>3 DEF GiveUp, Goto
    <2>3. Unanswered(j)'
      BY <1>3 DEF GiveUp, Unanswered
    <2>4. pc \in {"undo", "failed"}
      OBVIOUS
    <2>5. q1.pc \in Holding => q1.new \in CertIds
      <3>1. CASE job[j].pc = "commit"
        <4>1. job[j].new \in CertIds
          BY <1>0, <3>1 DEF ClientShape, Talk, Holding, GiveUp
        <4> QED
          BY <4>1, <2>1
      <3>2. CASE job[j].pc # "commit"
        BY <3>2, <2>1 DEF Holding
      <3> QED
        BY <3>1, <3>2
    <2> HIDE DEF q1, pc
    <2> QED
      BY <1>0, <1>3, <2>1, <2>2, <2>3, <2>4, <2>5, JobStep
      DEF GiveUp, Silenced
  <1> QED
    BY <1>2, <1>3

\* The steps of repairIdentity.
LEMMA RepairStepShape ==
    ASSUME ClientShape, NEW r \in Repairs, RepairStep(r)
    PROVE  ClientShape'
  <1> DEFINE q == job'[r]
  <1>0. /\ r \in Jobs /\ r \in Keys /\ job[r] \in JobRecord
        /\ job \in [Jobs -> JobRecord]
        /\ client \in ClientState /\ files \in [key : Keys, cert : CertIds]
        /\ loaded \in CertIds
        /\ job[r].pc \in Holding => job[r].new \in CertIds
        /\ CertIds \subseteq CertOrNone /\ CertOrNone \subseteq Nat
        /\ 0 \in CertOrNone
        /\ Fingerprint(client) \in CertOrNone
    BY JobFacts, CertFacts DEF ClientShape, Fingerprint, ClientState
  <1>00. ASSUME NEW pc \in Waiting \cup Over \cup Steps
         PROVE  [job[r] EXCEPT !.pc = pc] \in JobRecord
    BY <1>0 DEF JobRecord
  <1>1. CASE StartRepair(r)
    <2> DEFINE o == [client EXCEPT !.fp = Fingerprint(client)]
               q1 == [job[r] EXCEPT !.pc = "rekey", !.old = o]
               m == [op |-> "rekey", job |-> r, tok |-> client.tok,
                     val |-> Fingerprint(client), key |-> r]
    <2>1. o \in ClientState
      BY <1>0 DEF ClientState
    <2>2. q1 \in JobRecord /\ q1.pc = "rekey"
      BY <1>0, <2>1 DEF JobRecord, Waiting
    <2>3. job' = [job EXCEPT ![r] = q1] /\ wire' = wire \cup {m}
      BY <1>1, <1>0 DEF StartRepair, Post
    <2>4. RequestShape(m)
      BY <1>0, JobFacts DEF RequestShape, Request, ClientState
    <2>5. Silent(r) /\ Unanswered(r)
      BY <1>0, <1>1 DEF ClientShape, Talk, StartRepair, Silent, Unanswered,
                        Waiting, Silenced
    <2> HIDE DEF q1, m
    <2>6. m.job = r /\ m.op = q1.pc
      BY <2>2 DEF m
    <2> QED
      BY <1>0, <1>1, <2>2, <2>3, <2>4, <2>5, <2>6, JobPosts
      DEF StartRepair, Unanswered, Holding, Waiting
  <1>2. CASE SendRepairKey(r)
    <2>1. PICK a \in replies : /\ a.job = r
                               /\ Post("pair", r, 0, a.val, r)
                               /\ replies' = replies \ {a}
      BY <1>2 DEF SendRepairKey
    <2> DEFINE q1 == [job[r] EXCEPT !.pc = "pair"]
               m == [op |-> "pair", job |-> r, tok |-> 0, val |-> a.val,
                     key |-> r]
    <2>2. q1 \in JobRecord /\ q1.pc = "pair"
      BY <1>0, <1>00 DEF JobRecord, Waiting
    <2>3. job' = [job EXCEPT ![r] = q1] /\ wire' = wire \cup {m}
      BY <1>2, <1>0, <2>1 DEF SendRepairKey, Post, Goto
    <2>4. RequestShape(m)
      BY <1>0, JobFacts DEF RequestShape, Request, ClientShape
    <2>5. Silent(r) /\ Unanswered(r)'
      BY <1>0, <2>1 DEF ClientShape, Talk, Silent, Unanswered
    <2> HIDE DEF q1, m
    <2>6. m.job = r /\ m.op = q1.pc
      BY <2>2 DEF m
    <2> QED
      BY <1>0, <1>2, <2>1, <2>2, <2>3, <2>4, <2>5, <2>6, JobPosts
      DEF SendRepairKey, Holding, Waiting
  <1>3. CASE KeepOldFiles(r)
    <2>1. PICK a \in replies :
             /\ a.job = r
             /\ job' = [job EXCEPT ![r].pc = "key", ![r].new = a.val,
                                   ![r].files = files]
             /\ replies' = replies \ {a}
      BY <1>3 DEF KeepOldFiles
    <2> DEFINE q1 == [job[r] EXCEPT !.pc = "key", !.new = a.val,
                                    !.files = files]
    <2>2. a.val \in CertIds
      BY <1>0, <1>3, <2>1 DEF KeepOldFiles, ClientShape, Talk
    <2>3. q1 \in JobRecord /\ q1.pc = "key" /\ q1.new \in CertIds
      BY <1>0, <2>2 DEF JobRecord, Steps
    <2>4. job' = [job EXCEPT ![r] = q1]
      BY <1>0, <2>1
    <2>5. Silent(r) /\ Unanswered(r)'
      BY <1>0, <2>1 DEF ClientShape, Talk, Silent, Unanswered
    <2> HIDE DEF q1
    <2> QED
      BY <1>0, <1>3, <2>1, <2>3, <2>4, <2>5, JobStep DEF KeepOldFiles
  <1>4. ASSUME /\ Silent(r) /\ Unanswered(r)
               /\ UNCHANGED netVars
               /\ client' \in ClientState
               /\ files' \in [key : Keys, cert : CertIds]
               /\ loaded' \in CertIds,
               NEW pc \in Over \cup Steps, Goto(r, pc),
               pc \in Holding => job[r].pc \in Holding
        PROVE  ClientShape'
    <2> DEFINE q1 == [job[r] EXCEPT !.pc = pc]
    <2>1. q1 \in JobRecord /\ q1.pc = pc /\ q1.new = job[r].new
      BY <1>0, <1>00 DEF JobRecord
    <2>2. job' = [job EXCEPT ![r] = q1]
      BY <1>0, <1>4 DEF Goto
    <2> HIDE DEF q1
    <2> QED
      BY <1>0, <1>4, <2>1, <2>2, JobStep DEF netVars, Unanswered
  <1>5. job[r].pc \notin Waiting \cup Silenced => Silent(r) /\ Unanswered(r)
    BY <1>0 DEF ClientShape, Talk, Silent, Unanswered
  <1>6. CASE WriteKey(r) \/ WriteCertificate(r) \/ WriteFails(r) \/ SaveFails(r)
    <2>1. Silent(r) /\ Unanswered(r)
      BY <1>5, <1>6 DEF WriteKey, WriteCertificate, WriteFails, SaveFails,
                        Waiting, Silenced
    <2>2. files' \in [key : Keys, cert : CertIds]
          /\ UNCHANGED netVars /\ UNCHANGED loaded
      <3>1. FilesPutBack(r) => files' \in [key : Keys, cert : CertIds]
        BY <1>0 DEF FilesPutBack, JobRecord
      <3> QED
        BY <1>0, <1>6, <3>1
        DEF WriteKey, WriteCertificate, WriteFails, SaveFails, Holding
    <2>3. \/ job[r].pc \in {"key", "crt", "state"} /\ Goto(r, "failed")
          \/ job[r].pc = "key" /\ Goto(r, "crt")
          \/ job[r].pc = "crt" /\ Goto(r, "state")
          \/ job[r].pc = "state" /\ Goto(r, "stuck")
      BY <1>6 DEF WriteKey, WriteCertificate, WriteFails, SaveFails
    <2>4. client' \in ClientState
      <3>1. job[r].pc = "state" => Renewal(r) \in ClientState
        BY <1>0 DEF Renewal, ClientState, JobRecord, Holding
      <3> QED
        BY <1>0, <1>6, <3>1
        DEF WriteKey, WriteCertificate, WriteFails, SaveFails
    <2> QED
      BY <1>0, <1>4, <2>1, <2>2, <2>3, <2>4 DEF Holding, Over, Steps
  <1>7. CASE SaveIdentity(r)
    <2> DEFINE q1 == [job[r] EXCEPT !.pc = "commit"]
               m == [op |-> "commit", job |-> r, tok |-> job[r].new, val |-> 0,
                     key |-> r]
    <2>1. q1 \in JobRecord /\ q1.pc = "commit" /\ q1.new = job[r].new
      BY <1>0, <1>00 DEF JobRecord, Waiting
    <2>2. job[r].new \in CertIds /\ job[r].old \in ClientState
      BY <1>0, <1>7 DEF SaveIdentity, Holding, JobRecord
    <2>3. job' = [job EXCEPT ![r] = q1] /\ wire' = wire \cup {m}
          /\ client' \in ClientState
      BY <1>0, <1>7, <2>2 DEF SaveIdentity, Renewal, Goto, Post, ClientState
    <2>4. RequestShape(m)
      BY <1>0, <2>2, JobFacts DEF RequestShape, Request
    <2>5. Silent(r) /\ Unanswered(r)
      BY <1>5, <1>7 DEF SaveIdentity, Waiting, Silenced
    <2> HIDE DEF q1, m
    <2>6. m.job = r /\ m.op = q1.pc
      BY <2>1 DEF m
    <2> QED
      BY <1>0, <1>7, <2>1, <2>2, <2>3, <2>4, <2>5, <2>6, JobPosts
      DEF SaveIdentity, Unanswered, Holding, Waiting
  <1>8. CASE Committed(r)
    <2>1. PICK a \in replies : a.job = r /\ replies' = replies \ {a}
      BY <1>8 DEF Committed
    <2> DEFINE q1 == [job[r] EXCEPT !.pc = "service"]
    <2>2. q1 \in JobRecord /\ q1.pc = "service" /\ q1.new \in CertIds
      BY <1>0, <1>00, <1>8 DEF JobRecord, Committed, Holding, Steps
    <2>3. job' = [job EXCEPT ![r] = q1]
      BY <1>0, <1>8 DEF Committed, Goto
    <2>4. Silent(r) /\ Unanswered(r)'
      BY <1>0, <2>1 DEF ClientShape, Talk, Silent, Unanswered
    <2> HIDE DEF q1
    <2> QED
      BY <1>0, <1>8, <2>1, <2>2, <2>3, <2>4, JobStep DEF Committed
  <1>9. CASE UndoFiles(r) \/ UndoState(r)
    <2> PICK pc \in {"unsave", "failed", "stuck"} : Goto(r, pc)
      BY <1>9 DEF UndoFiles, UndoState
    <2> DEFINE q1 == [job[r] EXCEPT !.pc = pc]
    <2>1. q1 \in JobRecord /\ q1.pc = pc /\ q1.new = job[r].new
      BY <1>0, <1>00 DEF JobRecord, Over, Steps
    <2>5. pc \in Holding => job[r].pc \in Holding
      BY <1>9 DEF UndoFiles, UndoState, Holding, Goto
    <2>2. job' = [job EXCEPT ![r] = q1]
      BY <1>0 DEF Goto
    <2>3. Unanswered(r)
      BY <1>0, <1>9 DEF ClientShape, Talk, Unanswered, UndoFiles, UndoState,
                        Waiting
    <2>4. /\ files' \in [key : Keys, cert : CertIds] /\ UNCHANGED netVars
          /\ client' \in ClientState /\ loaded' \in CertIds
      <3>1. FilesPutBack(r) => files' \in [key : Keys, cert : CertIds]
        BY <1>0 DEF FilesPutBack, JobRecord
      <3>2. job[r].old \in ClientState
        BY <1>0 DEF JobRecord
      <3> QED
        BY <1>0, <1>9, <3>1, <3>2 DEF UndoFiles, UndoState
    <2>6. Silent(r) \/ q1.pc \in Silenced
      BY <2>1 DEF Silenced
    <2> HIDE DEF q1
    <2> QED
      BY <1>0, <2>1, <2>2, <2>3, <2>4, <2>5, <2>6, JobStep
      DEF netVars, Unanswered
  <1>10. CASE RestartService(r) \/ GiveUp(r)
    BY <1>0, <1>10, EndStepShape
  <1> QED
    BY <1>1, <1>2, <1>3, <1>6, <1>7, <1>8, <1>9, <1>10 DEF RepairStep

\* The steps of /api/pair.
LEMMA PairingStepShape ==
    ASSUME ClientShape, NEW p \in Pairings, PairingStep(p) \/ SavePairing(p),
           Codes \subseteq Nat
    PROVE  ClientShape'
  <1>0. /\ p \in Jobs /\ job[p] \in JobRecord
        /\ job \in [Jobs -> JobRecord]
        /\ client \in ClientState /\ files \in [key : Keys, cert : CertIds]
        /\ loaded \in CertIds
        /\ job[p].pc \in Holding => job[p].new \in CertIds
        /\ CertIds \subseteq CertOrNone /\ CertOrNone \subseteq Nat
        /\ 0 \in CertOrNone
    BY JobFacts, CertFacts DEF ClientShape
  <1>1. CASE StartPairing(p)
    <2> PICK id \in Codes : Post("pair", p, 0, id, files.key)
      BY <1>1 DEF StartPairing
    <2> DEFINE q1 == [job[p] EXCEPT !.pc = "pair", !.old = client]
               m == [op |-> "pair", job |-> p, tok |-> 0, val |-> id,
                     key |-> files.key]
    <2>1. q1 \in JobRecord /\ q1.pc = "pair"
      BY <1>0 DEF JobRecord, Waiting
    <2>2. job' = [job EXCEPT ![p] = q1] /\ wire' = wire \cup {m}
      BY <1>0, <1>1 DEF StartPairing, Post
    <2>3. RequestShape(m)
      BY <1>0, JobFacts DEF RequestShape, Request
    <2>4. Silent(p) /\ Unanswered(p)
      BY <1>0, <1>1 DEF ClientShape, Talk, StartPairing, Silent, Unanswered,
                        Waiting, Silenced
    <2> HIDE DEF q1, m
    <2>5. m.job = p /\ m.op = q1.pc
      BY <2>1 DEF m
    <2> QED
      BY <1>0, <1>1, <2>1, <2>2, <2>3, <2>4, <2>5, JobPosts
      DEF StartPairing, Unanswered, Holding, Waiting
  <1>2. CASE WritePairedCertificate(p)
    <2>1. PICK a \in replies :
             /\ a.job = p
             /\ files' = [files EXCEPT !.cert = a.val]
             /\ job' = [job EXCEPT ![p].pc = "state", ![p].new = a.val]
             /\ replies' = replies \ {a}
      BY <1>2 DEF WritePairedCertificate
    <2> DEFINE q1 == [job[p] EXCEPT !.pc = "state", !.new = a.val]
    <2>2. a.val \in CertIds
      BY <1>0, <1>2, <2>1 DEF WritePairedCertificate, ClientShape, Talk
    <2>3. q1 \in JobRecord /\ q1.pc = "state" /\ q1.new \in CertIds
      BY <1>0, <2>2 DEF JobRecord, Steps
    <2>4. job' = [job EXCEPT ![p] = q1]
      BY <1>0, <2>1
    <2>5. Silent(p) /\ Unanswered(p)'
      BY <1>0, <2>1 DEF ClientShape, Talk, Silent, Unanswered
    <2>6. files' \in [key : Keys, cert : CertIds]
      BY <1>0, <2>1, <2>2
    <2> HIDE DEF q1
    <2> QED
      BY <1>0, <1>2, <2>1, <2>3, <2>4, <2>5, <2>6, JobStep
      DEF WritePairedCertificate
  <1>3. CASE SavePairing(p) \/ PairingFails(p)
    <2> PICK pc \in {"service", "failed"} : Goto(p, pc)
      BY <1>3 DEF SavePairing, PairingFails
    <2> DEFINE q1 == [job[p] EXCEPT !.pc = pc]
    <2>1. q1 \in JobRecord /\ q1.pc = pc /\ q1.new \in CertIds
      BY <1>0, <1>3
      DEF JobRecord, SavePairing, PairingFails, Holding, Steps, Over
    <2>2. job' = [job EXCEPT ![p] = q1]
      BY <1>0 DEF Goto
    <2>3. Silent(p) /\ Unanswered(p)
      BY <1>0, <1>3 DEF ClientShape, Talk, SavePairing, PairingFails, Silent,
                        Unanswered, Waiting, Silenced
    <2>4. client' \in ClientState
      <3>1. job[p].old \in ClientState /\ job[p].new \in CertIds
        BY <1>0, <1>3 DEF SavePairing, PairingFails, JobRecord, Holding
      <3>2. PairedState(p) \in ClientState
        BY <1>0, <3>1 DEF PairedState, ClientState
      <3> QED
        BY <1>0, <1>3, <3>2 DEF SavePairing, PairingFails
    <2> HIDE DEF q1
    <2> QED
      BY <1>0, <1>3, <2>1, <2>2, <2>3, <2>4, JobStep
      DEF SavePairing, PairingFails, netVars, Unanswered
  <1>4. CASE RestartService(p) \/ GiveUp(p)
    BY <1>0, <1>4, EndStepShape
  <1> QED
    BY <1>1, <1>2, <1>3, <1>4 DEF PairingStep

\* The handlers that hold the state, and the end of the client.
LEMMA ClientStepShape ==
    ASSUME RepairShape, ClientStep, UNCHANGED <<registryVars, lines>>
    PROVE  RepairShape'
  <1>0. ClientShape /\ TypeOK /\ HolderShape
    BY DEF RepairShape
  <1>1. TypeOK'
    BY WorldTypes, <1>0 DEF registryVars
  <1>2. Codes \subseteq Nat
    BY <1>0 DEF Codes, TypeOK
  <1>3. /\ \A s \in ClientState : /\ Fingerprint(s) \in CertOrNone
                                  /\ [s EXCEPT !.fp = Fingerprint(s)]
                                       \in ClientState
        /\ client \in ClientState /\ holder.copy \in ClientState
        /\ Nobody \in [busy : BOOLEAN, copy : ClientState]
    BY <1>0, CertFacts
    DEF ClientShape, HolderShape, ClientState, Fingerprint, Nobody
  <1>7. CASE SendHeartbeat /\ UNCHANGED crossed
    <2> DEFINE fp == Fingerprint(holder.copy)
               m == [op |-> "beat", job |-> None, tok |-> holder.copy.tok,
                     val |-> fp, key |-> Device]
    <2>1. fp \in CertOrNone /\ holder.copy.tok \in CertOrNone
      BY <1>3 DEF ClientState
    <2>2. RequestShape(m)
      BY <2>1, JobFacts, CertFacts DEF RequestShape, Request
    <2>3. wire' = wire \cup {m} /\ m.job = None
      BY <1>7 DEF SendHeartbeat, Post
    <2>4. client' \in ClientState
      BY <1>3, <1>7 DEF SendHeartbeat
    <2>5. \A j \in Jobs : Talk(j)'
      <3> HIDE DEF m
      <3> SUFFICES ASSUME NEW j \in Jobs PROVE Talk(j)'
        OBVIOUS
      <3>1. Talk(j) /\ j # None
        BY <1>0, JobFacts DEF ClientShape
      <3> QED
        BY <1>7, <2>3, <3>1 DEF SendHeartbeat, Talk, Silent
    <2> HIDE DEF m
    <2>6. \A n \in wire' : RequestShape(n)
      BY <1>0, <2>2, <2>3 DEF ClientShape
    <2>7. /\ job' \in [Jobs -> JobRecord]
          /\ \A j \in Jobs : job'[j].pc \in Holding => job'[j].new \in CertIds
          /\ replies' \subseteq [job : Jobs, val : Nat \ {0}]
          /\ files' \in [key : Keys, cert : CertIds] /\ loaded' \in CertIds
          /\ HolderShape'
      BY <1>0, <1>3, <1>7 DEF SendHeartbeat, ClientShape, HolderShape
    <2> QED
      BY <1>0, <1>1, <2>4, <2>5, <2>6, <2>7 DEF ClientShape, RepairShape
  <1>8. CASE (TakeState \/ SaveState) /\ UNCHANGED crossed
    <2>1. /\ client' \in ClientState
          /\ UNCHANGED <<files, loaded, job, wire, replies>>
      BY <1>3, <1>8 DEF TakeState, SaveState, netVars
    <2>2. HolderShape'
      <3>1. holder' = [busy |-> TRUE, copy |-> client] \/ holder' = Nobody
        BY <1>8 DEF TakeState, SaveState
      <3>2. [busy |-> TRUE, copy |-> client]
               \in [busy : BOOLEAN, copy : ClientState]
        BY <1>3
      <3> QED
        BY <1>0, <1>3, <1>8, <3>1, <3>2 DEF HolderShape
    <2>3. ASSUME NEW j \in Jobs PROVE Talk(j)'
      <3>1. Talk(j)
        BY <1>0 DEF ClientShape
      <3> QED
        BY <2>1, <3>1 DEF Talk, Silent
    <2> QED
      BY <1>0, <1>1, <2>1, <2>2, <2>3 DEF ClientShape, RepairShape
  <1>4. CASE ClientCrash /\ UNCHANGED crossed
    <2>1. ASSUME NEW j \in Jobs
          PROVE  /\ job'[j] \in JobRecord
                 /\ job'[j].pc \in Holding => job'[j].new \in CertIds
                 /\ \/ job'[j] = job[j] /\ job[j].pc \in Over \cup {"idle"}
                    \/ job'[j].pc = "crashed"
      <3>1. job[j] \in JobRecord
            /\ (job[j].pc \in Holding => job[j].new \in CertIds)
        BY <1>0 DEF ClientShape
      <3>2. [job[j] EXCEPT !.pc = "crashed"] \in JobRecord
            /\ [job[j] EXCEPT !.pc = "crashed"].pc = "crashed"
        BY <3>1 DEF JobRecord, Over
      <3>3. \/ job'[j] = job[j] /\ job[j].pc \in Over \cup {"idle"}
            \/ job'[j] = [job[j] EXCEPT !.pc = "crashed"]
        BY <1>4 DEF ClientCrash
      <3> QED
        BY <3>1, <3>2, <3>3 DEF Holding
    <2>2. ASSUME NEW j \in Jobs PROVE Talk(j)'
      <3>1. Talk(j)
        BY <1>0 DEF ClientShape
      <3> QED
        BY <1>4, <2>1, <3>1
        DEF ClientCrash, Talk, Silent, Waiting, Over, Silenced
    <2>3. job' \in [Jobs -> JobRecord]
      BY <1>4, <2>1 DEF ClientCrash
    <2>4. HolderShape'
      BY <1>0, <1>3, <1>4 DEF ClientCrash, HolderShape
    <2> QED
      BY <1>0, <1>1, <1>4, <2>1, <2>2, <2>3, <2>4
      DEF ClientCrash, ClientShape, RepairShape
  <1>5. CASE \E r \in Repairs : RepairStep(r) /\ UNCHANGED <<holder, crossed>>
    BY <1>0, <1>1, <1>5, RepairStepShape DEF RepairShape, HolderShape
  <1>6. CASE \/ \E p \in Pairings :
                   PairingStep(p) /\ UNCHANGED <<holder, crossed>>
             \/ \E p \in Pairings : SavePairing(p) /\ UNCHANGED holder
    <2>1. ClientShape'
      BY <1>0, <1>2, <1>6, PairingStepShape
    <2>2. HolderShape'
      BY <1>0, <1>6 DEF SavePairing, HolderShape
    <2> QED
      BY <1>0, <1>1, <2>1, <2>2 DEF RepairShape
  <1> QED
    BY <1>4, <1>5, <1>6, <1>7, <1>8 DEF ClientStep, HolderStep

-----------------------------------------------------------------------------
(* The server executes a request.                                          *)

\* A request leaves the wire, and its reply reaches a job that waits for it.
LEMMA ReplyShape ==
    ASSUME ClientShape, NEW m \in wire, wire' = wire \ {m},
           UNCHANGED clientVars,
           NEW good, NEW val \in Nat \ {0},
           \/ m.op = "beat" /\ UNCHANGED replies
           \/ m.op # "beat" /\ Reply(m, good, val),
           m.op = "pair" /\ good => val \in CertIds
    PROVE  ClientShape'
  <1>1. RequestShape(m) /\ replies \subseteq [job : Jobs, val : Nat \ {0}]
    BY DEF ClientShape
  <1>2. \A n \in wire' : RequestShape(n)
    BY DEF ClientShape
  <1>3. CASE m.op = "beat" /\ UNCHANGED replies
    <2>1. ASSUME NEW j \in Jobs PROVE Talk(j)'
      <3>1. Talk(j)
        BY DEF ClientShape
      <3> QED
        BY <1>3, <3>1 DEF Talk, Silent, clientVars
    <2> QED
      BY <1>2, <1>3, <2>1 DEF ClientShape, clientVars
  <1>4. CASE Reply(m, good, val) /\ m.op # "beat"
    <2>1. m.job \in Jobs
      BY <1>1, <1>4 DEF RequestShape, Request
    <2>2. CASE good /\ job[m.job].pc = m.op
      <3> DEFINE a == [job |-> m.job, val |-> val]
      <3>1. replies' = replies \cup {a} /\ a.job = m.job /\ a.val = val
            /\ replies' \subseteq [job : Jobs, val : Nat \ {0}]
        BY <1>1, <1>4, <2>1, <2>2 DEF Reply
      <3> HIDE DEF a
      <3>2. ASSUME NEW j \in Jobs PROVE Talk(j)'
        <4>1. Talk(j)
          BY DEF ClientShape
        <4>2. CASE j = m.job
          <5>1. /\ Unanswered(j) /\ \A n \in wire : n.job = j => n = m
                /\ m.op \in {"rekey", "pair", "commit"}
            BY <1>1, <1>4, <4>1, <4>2 DEF Talk, Silent, Unanswered,
               RequestShape, Request
          <5> QED
            BY <2>2, <3>1, <4>1, <4>2, <5>1
            DEF Talk, Silent, Unanswered, clientVars, Waiting
        <4>3. CASE j # m.job
          BY <3>1, <4>1, <4>3 DEF Talk, Silent, clientVars
        <4> QED
          BY <4>2, <4>3
      <3> QED
        BY <1>2, <3>1, <3>2 DEF ClientShape, clientVars
    <2>3. CASE ~(good /\ job[m.job].pc = m.op)
      <3>1. replies' = replies
        BY <1>4, <2>3 DEF Reply
      <3>2. ASSUME NEW j \in Jobs PROVE Talk(j)'
        <4>1. Talk(j)
          BY DEF ClientShape
        <4> QED
          BY <3>1, <4>1 DEF Talk, Silent, clientVars
      <3> QED
        BY <1>2, <3>1, <3>2 DEF ClientShape, clientVars
    <2> QED
      BY <2>2, <2>3
  <1> QED
    BY <1>3, <1>4

\* Executing a request keeps the shape of the client and of the server.
LEMMA HandleShape ==
    ASSUME RepairShape, NEW m \in wire, Handle(m)
    PROVE  RepairShape'
  <1>0. /\ ClientShape /\ TypeOK /\ RequestShape(m)
        /\ Device \in Names /\ lines' \subseteq CertIds
    BY JobFacts DEF RepairShape, ClientShape, Handle
  <1>1. /\ m.key \in Keys /\ m.val \in Nat /\ m.tok \in CertOrNone
        /\ m.op \in {"beat", "rekey"} => m.val \in CertOrNone
    BY <1>0 DEF RequestShape, Request
  <1>2. wire' = wire \ {m} /\ UNCHANGED clientVars
    BY DEF Handle
  <1>8. HolderShape'
    BY <1>2 DEF RepairShape, HolderShape, clientVars
  <1>3. nextCode \in Nat \ {0} /\ nextCert \in Nat \ {0}
    BY <1>0 DEF TypeOK
  <1>4. CASE m.op = "rekey" /\ HandleRekey(m)
    <2> PICK out : /\ RequestRekey(Device, m.tok, m.val, out)
                   /\ Reply(m, out = "ok", nextCode)
      BY <1>4 DEF HandleRekey
    <2>1. TypeOK'
      BY <1>0, <1>1, <1>4, DeviceTypes
    <2>2. ClientShape'
      BY <1>0, <1>2, <1>3, <1>4, ReplyShape
    <2> QED
      BY <1>0, <1>8, <2>1, <2>2 DEF RepairShape
  <1>5. CASE m.op = "pair" /\ HandlePair(m)
    <2> PICK out : /\ \/ PairNew(m.val, Device, m.key, out)
                      \/ PairRekey(m.val, Device, m.key, out)
                   /\ Reply(m, out = "ok" /\ Issued(nextCert), nextCert)
      BY <1>5 DEF HandlePair
    <2>1. TypeOK'
      BY <1>0, <1>1, PairTypes
    <2>2. nextCert \in CertIds
      BY <1>0, NextCertFacts DEF PairNew, PairRekey, TypeOK
    <2>3. ClientShape'
      BY <1>0, <1>2, <1>3, <1>5, <2>2, ReplyShape
    <2> QED
      BY <1>0, <1>8, <2>1, <2>3 DEF RepairShape
  <1>6. CASE m.op = "commit" /\ HandleCommit(m)
    <2> PICK out : /\ CommitRekey(Device, m.tok, out)
                   /\ Reply(m, out = "ok", m.tok)
      BY <1>6 DEF HandleCommit
    <2>1. TypeOK'
      BY <1>0, CertFacts, DeviceTypes
    <2>2. m.tok \in Nat \ {0}
      <3>1. PICK p \in mem.pending : p.new = m.tok
        BY DEF CommitRekey
      <3>2. p \in PendingRekeyRecord
        BY <1>0, <3>1 DEF TypeOK, ServerState
      <3> QED
        BY <3>1, <3>2, CertFacts DEF PendingRekeyRecord
    <2>3. ClientShape'
      BY <1>0, <1>2, <1>6, <2>2, ReplyShape
    <2> QED
      BY <1>0, <1>8, <2>1, <2>3 DEF RepairShape
  <1>7. CASE m.op = "beat" /\ HandleHeartbeat(m)
    <2> PICK out : Heartbeat(Device, m.tok, m.val, out)
      BY <1>7 DEF HandleHeartbeat
    <2>0. m.val \in CertOrNone /\ Heartbeat(Device, m.tok, m.val, out)
      BY <1>1, <1>7
    <2>1. TypeOK'
      BY <1>0, <2>0, DeviceTypes
    <2>2. ClientShape'
      BY <1>0, <1>2, <1>3, <1>7, ReplyShape DEF HandleHeartbeat
    <2> QED
      BY <1>0, <1>8, <2>1, <2>2 DEF RepairShape
  <1> QED
    BY <1>4, <1>5, <1>6, <1>7 DEF Handle

\* The server's other steps, the tunnel and the rest of the world.
LEMMA OtherShape ==
    ASSUME RepairShape,
           \/ Enroll \/ Delete \/ (\E c \in Certs : ReadLine(c))
           \/ ServerStops \/ ServerStarts \/ Handshake \/ World
           \/ UNCHANGED allVars
    PROVE  RepairShape'
  <1>0. ClientShape /\ TypeOK /\ lines \subseteq CertIds /\ Device \in Names
    BY JobFacts DEF RepairShape
  <1>1. Certs \subseteq CertIds /\ CertIds \subseteq CertOrNone
    BY <1>0, CertFacts, NextCertFacts DEF TypeOK
  <1>2. TypeOK'
    <2>1. CASE Enroll
      BY <1>0, <2>1, AdminTypes DEF Enroll
    <2>2. CASE Delete
      BY <1>0, <2>2, CertFacts, DeviceTypes DEF Delete
    <2>3. CASE \E c \in Certs : ReadLine(c)
      BY <1>0, <1>1, <2>3, DeviceTypes, WorldTypes DEF ReadLine, registryVars
    <2>4. CASE ServerStops \/ ServerStarts \/ Handshake \/ UNCHANGED allVars
      BY <1>0, <2>4, WorldTypes
      DEF ServerStops, ServerStarts, Handshake, allVars, registryVars
    <2>5. CASE World
      BY <1>0, <1>1, <2>5, WorldTypes DEF World
    <2> QED
      BY <2>1, <2>2, <2>3, <2>4, <2>5
  <1>3. lines' \subseteq CertIds
    <2>1. loaded \in CertIds
      BY <1>0 DEF ClientShape
    <2> QED
      BY <1>0, <2>1 DEF Enroll, Delete, ReadLine, ServerStops, ServerStarts,
                        Handshake, World, allVars
  <1>4. UNCHANGED <<clientVars, netVars>>
    BY DEF Enroll, Delete, ReadLine, ServerStops, ServerStarts, Handshake,
           World, allVars
  <1>5. ClientShape'
    <2>1. ASSUME NEW j \in Jobs PROVE Talk(j)'
      <3>1. Talk(j)
        BY <1>0 DEF ClientShape
      <3> QED
        BY <1>4, <3>1 DEF Talk, Silent, clientVars, netVars
    <2> QED
      BY <1>0, <1>4, <2>1 DEF ClientShape, clientVars, netVars
  <1>6. HolderShape'
    BY <1>4 DEF RepairShape, HolderShape, clientVars
  <1> QED
    BY <1>2, <1>3, <1>5, <1>6 DEF RepairShape

\* The device is paired when the model starts.
LEMMA InitShape == RepairInit => RepairShape
  <1> SUFFICES ASSUME RepairInit PROVE RepairShape
    OBVIOUS
  <1>0. /\ Device \in Names /\ Device \in Keys /\ None \notin Names
        /\ 1 \in CertIds /\ 0 \in CertOrNone /\ CertIds \subseteq CertOrNone
        /\ CertIds \subseteq Nat
    BY JobFacts, CertFacts, RegistryAssumption DEF RegistryAssumption
  <1>1. TypeOK
    <2> DEFINE p == [key |-> Device, addr |-> 1, fp |-> 1, tok |-> 1]
    <2>1. EmptyState \in ServerState /\ p \in PeerRecord
      BY <1>0, NoPeerType DEF EmptyState, ServerState, PeerRecord
    <2>2. Paired \in ServerState
      <3> HIDE DEF p
      <3>1. Paired = [EmptyState EXCEPT !.peers[Device] = p]
        BY DEF Paired, p
      <3> QED
        BY <1>0, <2>1, <3>1 DEF ServerState
    <2>3. nebula \in [running : BOOLEAN, list : SUBSET CertIds]
      BY DEF RepairInit, Running
    <2>4. nextCert \in 1 .. MaxCerts + 1
      BY RegistryAssumption, RepairAssumption
      DEF RepairInit, RegistryAssumption, RepairAssumption
    <2>5. mem \in ServerState /\ disk \in ServerState
      BY <2>2 DEF RepairInit
    <2>6. sent \subseteq [ver : Nat, list : SUBSET CertIds]
      BY DEF RepairInit
    <2> HIDE DEF p
    <2>7. /\ conf \subseteq CertIds /\ deadCodes \subseteq Nat
          /\ deadRekeys \subseteq CertIds /\ acked \subseteq CertIds
          /\ nextCode \in Nat \ {0}
      BY DEF RepairInit
    <2>8. up \in BOOLEAN /\ forgot \in BOOLEAN /\ up = TRUE
      BY DEF RepairInit
    <2> QED
      BY <2>3, <2>4, <2>5, <2>6, <2>7, <2>8 DEF TypeOK
  <1>2. ClientShape
    <2>1. client \in ClientState /\ files \in [key : Keys, cert : CertIds]
          /\ files \in IdentityFiles
      BY <1>0 DEF RepairInit, ClientState, IdentityFiles
    <2> DEFINE q == [pc |-> "idle", old |-> client, files |-> files, new |-> 0]
    <2>2. q \in JobRecord /\ q.pc = "idle"
      BY <1>0, <2>1 DEF JobRecord, Steps
    <2> HIDE DEF q
    <2>3. job = [j \in Jobs |-> q]
      BY DEF RepairInit, q
    <2>4. job \in [Jobs -> JobRecord] /\ \A j \in Jobs : job[j].pc = "idle"
      BY <2>2, <2>3
    <2> QED
      BY <1>0, <2>1, <2>4 DEF RepairInit, ClientShape, Talk, Holding
  <1>3. HolderShape
    BY <1>0 DEF RepairInit, HolderShape, Nobody, ClientState
  <1> QED
    BY <1>1, <1>2, <1>3 DEF RepairShape, RepairInit

\* The shape is kept by every step.
LEMMA NextShape == RepairShape /\ [RepairNext]_allVars => RepairShape'
  BY ClientStepShape, HandleShape, OtherShape DEF RepairNext, Server

\* The shape holds throughout.
LEMMA AlwaysShaped == RepairSpec => []RepairShape
  BY InitShape, NextShape, PTL DEF RepairSpec

\* Every state of the client, the requests and the replies is well formed, the
\* registry included, whatever is repaired and paired at once.
THEOREM RepairTypeCorrect == RepairSpec => [](TypeOK /\ RepairTypeOK)
  <1>1. RepairShape => TypeOK /\ RepairTypeOK
    <2> SUFFICES ASSUME RepairShape PROVE RepairTypeOK
      BY DEF RepairShape
    <2>1. CertIds \subseteq CertOrNone
      BY CertFacts
    <2>2. JobRecord \subseteq Job /\ files \in IdentityFiles
      BY <2>1 DEF JobRecord, Job, IdentityFiles, RepairShape, ClientShape
    <2> QED
      BY <2>2
      DEF RepairShape, ClientShape, HolderShape, RepairTypeOK, RequestShape
  <1> QED
    BY <1>1, AlwaysShaped, PTL

-----------------------------------------------------------------------------
(* Jobs that have started.                                                 *)

\* A job that takes a step has started; the others stay as they are.
LEMMA StepsStart ==
    ASSUME ClientShape
    PROVE  /\ \A r \in Repairs : RepairStep(r) =>
                 /\ job'[r].pc # "idle"
                 /\ \A j \in Jobs : j # r => job'[j] = job[j]
           /\ \A p \in Pairings : PairingStep(p) \/ SavePairing(p) =>
                 /\ job'[p].pc # "idle"
                 /\ \A j \in Jobs : j # p => job'[j] = job[j]
  <1>0. /\ job \in [Jobs -> JobRecord]
        /\ Repairs \subseteq Jobs /\ Pairings \subseteq Jobs
    BY JobFacts DEF ClientShape
  <1>1. ASSUME NEW j \in Jobs,
               \/ \E pc : Goto(j, pc) /\ pc # "idle"
               \/ \E o : job' = [job EXCEPT ![j].pc = "rekey", ![j].old = o]
               \/ \E o : job' = [job EXCEPT ![j].pc = "pair", ![j].old = o]
               \/ \E c : job' = [job EXCEPT ![j].pc = "state", ![j].new = c]
               \/ \E c, f : job' = [job EXCEPT ![j].pc = "key", ![j].new = c,
                                               ![j].files = f]
        PROVE  /\ job'[j].pc # "idle"
               /\ \A i \in Jobs : i # j => job'[i] = job[i]
    <2>0. job[j] \in JobRecord
      BY <1>0
    <2>1. CASE \E pc : Goto(j, pc) /\ pc # "idle"
      BY <1>0, <2>0, <2>1 DEF Goto, JobRecord
    <2>2. CASE \E o : job' = [job EXCEPT ![j].pc = "rekey", ![j].old = o]
      BY <1>0, <2>0, <2>2 DEF JobRecord
    <2>3. CASE \E o : job' = [job EXCEPT ![j].pc = "pair", ![j].old = o]
      BY <1>0, <2>0, <2>3 DEF JobRecord
    <2>4. CASE \E c : job' = [job EXCEPT ![j].pc = "state", ![j].new = c]
      BY <1>0, <2>0, <2>4 DEF JobRecord
    <2>5. CASE \E c, f : job' = [job EXCEPT ![j].pc = "key", ![j].new = c,
                                            ![j].files = f]
      BY <1>0, <2>0, <2>5 DEF JobRecord
    <2> QED
      BY <1>1, <2>1, <2>2, <2>3, <2>4, <2>5
  <1>2. ASSUME NEW r \in Repairs, RepairStep(r)
        PROVE  /\ job'[r].pc # "idle"
               /\ \A j \in Jobs : j # r => job'[j] = job[j]
    <2>1. \/ \E pc : Goto(r, pc) /\ pc # "idle"
          \/ \E o : job' = [job EXCEPT ![r].pc = "rekey", ![r].old = o]
          \/ \E c, f : job' = [job EXCEPT ![r].pc = "key", ![r].new = c,
                                          ![r].files = f]
      <3>1. CASE StartRepair(r)
        BY <3>1 DEF StartRepair
      <3>2. CASE KeepOldFiles(r)
        BY <3>2 DEF KeepOldFiles
      <3>3. \A q \in {"undo", "failed", "pair", "crt", "state", "commit",
                      "service", "unsave", "done", "stuck"} :
               Goto(r, q) => \E pc : Goto(r, pc) /\ pc # "idle"
        OBVIOUS
      <3>4. CASE GiveUp(r)
        <4>1. Goto(r, "undo") \/ Goto(r, "failed")
          BY <3>4 DEF GiveUp
        <4> QED
          BY <3>3, <4>1
      <3>5. CASE \/ SendRepairKey(r) \/ WriteKey(r) \/ WriteCertificate(r)
                 \/ WriteFails(r) \/ SaveIdentity(r) \/ SaveFails(r)
        BY <3>3, <3>5
        DEF SendRepairKey, WriteKey, WriteCertificate, WriteFails,
            SaveIdentity, SaveFails
      <3>6. CASE \/ Committed(r) \/ UndoFiles(r) \/ UndoState(r)
                 \/ RestartService(r)
        BY <3>3, <3>6 DEF Committed, UndoFiles, UndoState, RestartService
      <3> QED
        BY <1>2, <3>1, <3>2, <3>4, <3>5, <3>6 DEF RepairStep
    <2> QED
      BY <1>0, <1>1, <2>1
  <1>3. ASSUME NEW p \in Pairings, PairingStep(p) \/ SavePairing(p)
        PROVE  /\ job'[p].pc # "idle"
               /\ \A j \in Jobs : j # p => job'[j] = job[j]
    <2>1. \/ \E pc : Goto(p, pc) /\ pc # "idle"
          \/ \E o : job' = [job EXCEPT ![p].pc = "pair", ![p].old = o]
          \/ \E c : job' = [job EXCEPT ![p].pc = "state", ![p].new = c]
      BY <1>3
      DEF PairingStep, StartPairing, WritePairedCertificate, SavePairing,
          PairingFails, RestartService, GiveUp
    <2> QED
      BY <1>0, <1>1, <2>1
  <1> QED
    BY <1>2, <1>3

\* A job never becomes idle again.
LEMMA NeverIdleAgain ==
    ASSUME RepairShape, [RepairNext]_allVars, NEW j \in Jobs,
           job[j].pc # "idle"
    PROVE  job'[j].pc # "idle"
  <1>0. ClientShape
    BY DEF RepairShape
  <1>1. CASE UNCHANGED job
    BY <1>1
  <1>2. CASE ClientCrash
    <2>1. \/ job'[j] = job[j]
          \/ job'[j] = [job[j] EXCEPT !.pc = "crashed"]
      BY <1>2 DEF ClientCrash
    <2> QED
      BY <1>0, <2>1 DEF ClientShape, JobRecord
  <1>3. CASE \/ \E r \in Repairs : RepairStep(r)
             \/ \E p \in Pairings : PairingStep(p) \/ SavePairing(p)
    BY <1>0, <1>3, StepsStart
  <1> QED
    BY <1>1, <1>2, <1>3
    DEF RepairNext, ClientStep, HolderStep, TakeState, SendHeartbeat, SaveState,
        Server, Handle, Enroll, Delete, ReadLine, ServerStops, ServerStarts, Handshake, World, clientVars,
        allVars

-----------------------------------------------------------------------------
(* One pairing and no repair.                                              *)

\* At most one later run of /api/pair was started.
OnePairing == \A p, q \in Pairings :
                  job[p].pc # "idle" /\ job[q].pc # "idle" => p = q

NoStaged(s) == s.pending = {} /\ \A e \in s.codes : ~e.rekey

\* Token t is the device's, unless the device was deleted.
Holds(s, t) == Registered(s, Device) => s.peers[Device].tok = t

\* The certificate of a reply, and the one a pairing wrote down, came with the
\* token both copies of the registry hold, and no other request can replace it.
PairSafe ==
    /\ \A m \in wire : m.op \in {"pair", "beat"}
    /\ \A s \in {mem, disk} : NoStaged(s)
    /\ \A a \in replies : \A s \in {mem, disk} : Holds(s, a.val)
    /\ \A p \in Pairings : job[p].pc \in {"state", "service", "done"} =>
          \A s \in {mem, disk} : Holds(s, job[p].new)
    /\ \A p \in Pairings : job[p].pc \in {"service", "done"} =>
          \/ crossed
          \/ /\ client.tok = job[p].new
             /\ holder.busy => holder.copy.tok = job[p].new

PairInv == NoRepair /\ OnePairing => PairSafe

\* t's registry lets nothing happen that s's did not.
Follows(t, s) == /\ NoStaged(s) => NoStaged(t)
                 /\ Registered(t, Device) =>
                       /\ Registered(s, Device)
                       /\ t.peers[Device].tok = s.peers[Device].tok

Following == \A t \in {mem', disk'} : \E s \in {mem, disk} : Follows(t, s)

\* A request of a job is the only message on its way, and no pairing is past
\* its reply.
LEMMA RequestAlone ==
    ASSUME ClientShape, NoRepair, OnePairing, NEW m \in wire, m.op # "beat"
    PROVE  /\ replies = {}
           /\ \A p \in Pairings : job[p].pc \notin {"state", "service", "done"}
  <1>1. RequestShape(m) /\ m.job \in Jobs
    BY DEF ClientShape, RequestShape, Request
  <1>2. Talk(m.job)
    BY <1>1 DEF ClientShape
  <1>3. /\ job[m.job].pc \notin {"idle", "state", "service", "done"}
        /\ Unanswered(m.job)
    BY <1>1, <1>2 DEF Talk, Silent, Unanswered, Waiting, Silenced
  <1>4. m.job \in Pairings
    BY <1>1, <1>3 DEF NoRepair, Jobs
  <1>5. \A p \in Pairings : p # m.job => job[p].pc = "idle"
    BY <1>3, <1>4 DEF OnePairing
  <1>6. ASSUME NEW a \in replies PROVE FALSE
    <2>1. a.job \in Jobs /\ Talk(a.job)
      BY DEF ClientShape
    <2>2. job[a.job].pc # "idle"
      BY <2>1 DEF Talk, Waiting
    <2>3. a.job = m.job
      BY <1>5, <2>1, <2>2 DEF NoRepair, Jobs
    <2> QED
      BY <1>3, <2>3 DEF Unanswered
  <1> QED
    BY <1>3, <1>5, <1>6

\* Steps of the server and of the world that give the device no token.
LEMMA FollowingKeeps ==
    ASSUME PairInv, Following, UNCHANGED clientVars, replies' \subseteq replies,
           wire' \subseteq wire
    PROVE  PairInv'
  <1> SUFFICES ASSUME NoRepair, OnePairing PROVE PairSafe'
    BY DEF PairInv, NoRepair, OnePairing, clientVars
  <1>1. PairSafe
    BY DEF PairInv
  <1>2. \A t \in {mem', disk'} :
           /\ NoStaged(t)
           /\ \A c : (\A s \in {mem, disk} : Holds(s, c)) => Holds(t, c)
    BY <1>1 DEF Following, Follows, PairSafe, Holds
  <1> QED
    BY <1>1, <1>2 DEF PairSafe, clientVars

\* Storing what follows the state in memory, however it ends.
LEMMA SaveFollows ==
    ASSUME NEW s, NEW out, Follows(s, mem), Save(s, out) \/ Publish(s, out)
    PROVE  Following
  BY DEF Following, Follows, Save, Publish

\* Recording another fingerprint leaves the token alone.
LEMMA ReportFollows ==
    ASSUME NEW s \in ServerState, NEW c
    PROVE  Follows([s EXCEPT !.peers[Device].fp = c], s)
  <1> DEFINE t == [s EXCEPT !.peers[Device].fp = c]
  <1>1. /\ t.pending = s.pending /\ t.codes = s.codes
        /\ t.peers[Device].addr = s.peers[Device].addr
        /\ t.peers[Device].tok = s.peers[Device].tok
    BY JobFacts DEF ServerState, PeerRecord
  <1> QED
    BY <1>1 DEF Follows, NoStaged, Registered

\* A heartbeat gives the device no token.
LEMMA BeatFollows ==
    ASSUME TypeOK, NEW m, NEW out, Heartbeat(Device, m.tok, m.val, out)
    PROVE  Following
  BY ReportFollows, SaveFollows DEF Heartbeat, TypeOK

\* The other steps of the server give the device no token.
LEMMA OtherFollows ==
    ASSUME TypeOK,
           \/ Enroll \/ Delete \/ (\E c \in Certs : ReadLine(c))
           \/ ServerStops \/ ServerStarts \/ Handshake \/ World
           \/ UNCHANGED allVars
    PROVE  Following
  <1>0. mem \in ServerState /\ disk \in ServerState
    BY DEF TypeOK
  <1>1. CASE Enroll
    <2> DEFINE e == [id |-> nextCode, rekey |-> FALSE, name |-> None,
                     key |-> None, addr |-> 0]
    <2>1. PICK out : Save(IssueCode(mem, e), out)
      BY <1>1 DEF Enroll, AdminEnroll
    <2>2. ~e.rekey
      OBVIOUS
    <2> HIDE DEF e
    <2>3. IssueCode(mem, e) = [mem EXCEPT !.codes = mem.codes \cup {e}]
      BY DEF IssueCode
    <2>4. Follows(IssueCode(mem, e), mem)
      BY <1>0, <2>2, <2>3 DEF Follows, NoStaged, Registered, ServerState
    <2> QED
      BY <2>1, <2>4, SaveFollows
  <1>2. CASE Delete
    <2> DEFINE r == AddRevocation(mem, mem.peers[Device].fp)
    <2>1. PICK out : Publish(RemovePeer(r, Device), out)
      BY <1>2 DEF Delete, DeletePeer
    <2>2. r \in ServerState /\ r.pending = mem.pending /\ r.codes = mem.codes
      <3>1. mem.peers[Device].fp \in CertOrNone
        BY <1>0, JobFacts DEF ServerState, PeerRecord
      <3> QED
        BY <1>0, <3>1, AddRevocationType DEF AddRevocation, ServerState
    <2> HIDE DEF r
    <2>3. /\ RemovePeer(r, Device).pending = r.pending
          /\ RemovePeer(r, Device).codes \subseteq r.codes
          /\ RemovePeer(r, Device).peers[Device] = NoPeer
      BY <2>2, JobFacts DEF RemovePeer, SetPeer, ServerState
    <2>4. Follows(RemovePeer(r, Device), mem)
      BY <2>2, <2>3 DEF Follows, NoStaged, Registered, NoPeer
    <2> QED
      BY <2>1, <2>4, SaveFollows
  <1>3. CASE \E c \in Certs : ReadLine(c)
    <2>1. CASE UNCHANGED registryVars
      BY <2>1 DEF registryVars, vars, serverVars, Following, Follows
    <2>2. CASE \E c, out : LogFingerprint(Device, c, out)
      BY <1>0, <2>2, ReportFollows, SaveFollows DEF LogFingerprint
    <2> QED
      BY <1>3, <2>1, <2>2 DEF ReadLine
  <1>4. CASE ServerStops
    BY <1>4 DEF ServerStops, Crash, Following, Follows
  <1>5. CASE ServerStarts
    <2>1. mem' = PurgeExpiredRekeys(disk) /\ disk' = mem'
      BY <1>5 DEF ServerStarts, Serve
    <2>2. Follows(PurgeExpiredRekeys(disk), disk)
      BY <1>0 DEF PurgeExpiredRekeys, Follows, NoStaged, Registered,
                  ServerState
    <2> QED
      BY <2>1, <2>2 DEF Following
  <1>6. CASE Handshake \/ World \/ UNCHANGED allVars
    BY <1>6 DEF Handshake, World, ExpireRekey, NebulaExit, allVars,
                registryVars, vars, serverVars, Following, Follows
  <1> QED
    BY <1>1, <1>2, <1>3, <1>4, <1>5, <1>6

\* The server answers the pairing: both copies hold the token it answers with.
LEMMA PairingAnswered ==
    ASSUME TypeOK, ClientShape, PairInv, NEW m \in wire, m.op = "pair",
           HandlePair(m), UNCHANGED clientVars, wire' = wire \ {m}
    PROVE  PairInv'
  <1> SUFFICES ASSUME NoRepair, OnePairing PROVE PairSafe'
    BY DEF PairInv, NoRepair, OnePairing, clientVars
  <1>0. PairSafe /\ mem \in ServerState
    BY DEF PairInv, TypeOK
  <1>1. replies = {}
        /\ \A p \in Pairings : job[p].pc \notin {"state", "service", "done"}
    BY RequestAlone
  <1>2. PICK out : /\ \/ PairNew(m.val, Device, m.key, out)
                      \/ PairRekey(m.val, Device, m.key, out)
                   /\ Reply(m, out = "ok" /\ Issued(nextCert), nextCert)
    BY DEF HandlePair
  <1>3. ~PairRekey(m.val, Device, m.key, out)
    BY <1>0 DEF PairRekey, Live, PairSafe, NoStaged
  <1>4. PICK e \in mem.codes, a \in 1 .. PoolSize :
          LET fp == IF out = "sign" THEN mem.peers[Device].fp ELSE nextCert
              peer == [key |-> m.key, addr |-> a, fp |-> fp, tok |-> nextCert]
              s == SetPeer(Bind(mem, e, Device, m.key), Device, peer)
          IN  IF out = "sign"
              THEN mem' = s /\ UNCHANGED <<disk, conf, nebula, up>>
              ELSE Save(s, out)
    BY <1>2, <1>3 DEF PairNew, Live
  <1> DEFINE fp == IF out = "sign" THEN mem.peers[Device].fp ELSE nextCert
             peer == [key |-> m.key, addr |-> a, fp |-> fp, tok |-> nextCert]
             b == Bind(mem, e, Device, m.key)
             t == SetPeer(b, Device, peer)
             g == [e EXCEPT !.name = Device, !.key = m.key]
  <1>5. m.key \in Keys /\ Device \in Names /\ e \in EnrollmentRecord
    BY <1>0, JobFacts DEF ClientShape, RequestShape, Request, ServerState
  <1>6. b \in ServerState
    BY <1>0, <1>5, BindType
  <1>7. ~g.rekey /\ peer.tok = nextCert
    BY <1>0, <1>5 DEF PairSafe, NoStaged, EnrollmentRecord
  <1> HIDE DEF g, peer
  <1>8. b.pending = mem.pending /\ b.codes \subseteq mem.codes \cup {g}
    BY <1>0 DEF Bind, ServerState, g
  <1> HIDE DEF b
  <1>9. t.pending = b.pending /\ t.codes = b.codes /\ t.peers[Device] = peer
    BY <1>5, <1>6 DEF SetPeer, ServerState
  <1>10. NoStaged(t) /\ Holds(t, nextCert)
    BY <1>0, <1>7, <1>8, <1>9 DEF NoStaged, PairSafe, Holds
  <1>11. mem' = t /\ disk' \in {disk, t} /\ (out = "ok" => disk' = t)
    BY <1>4 DEF Save, t, b, peer
  <1> HIDE DEF t
  <1>12. \A s \in {mem', disk'} : NoStaged(s)
    BY <1>0, <1>10, <1>11 DEF PairSafe
  <1>13. \A r \in replies' : \A s \in {mem', disk'} : Holds(s, r.val)
    <2>1. CASE out = "ok"
      BY <1>1, <1>2, <1>10, <1>11, <2>1 DEF Reply
    <2>2. CASE out # "ok"
      BY <1>1, <1>2, <2>2 DEF Reply
    <2> QED
      BY <2>1, <2>2
  <1> QED
    BY <1>0, <1>1, <1>12, <1>13 DEF PairSafe, clientVars

\* The client's own steps.
LEMMA PairClient ==
    ASSUME RepairShape, PairInv, ClientStep, UNCHANGED <<registryVars, lines>>
    PROVE  PairInv'
  <1> SUFFICES ASSUME NoRepair', OnePairing' PROVE PairSafe'
    BY DEF PairInv
  <1>0. ClientShape /\ job \in [Jobs -> JobRecord] /\ UNCHANGED <<mem, disk>>
    BY DEF RepairShape, ClientShape, registryVars, vars, serverVars
  <1>1. ASSUME NEW r \in Repairs, RepairStep(r) PROVE FALSE
    BY <1>0, <1>1, StepsStart DEF NoRepair
  <1>2. ASSUME NEW p \in Pairings, UNCHANGED holder,
               \/ PairingStep(p) /\ UNCHANGED crossed
               \/ SavePairing(p)
        PROVE  PairSafe'
    <2>0. p \in Jobs /\ Pairings \subseteq Jobs /\ Repairs \subseteq Jobs
          /\ p \notin Repairs /\ job[p] \in JobRecord
      BY <1>0, JobFacts
    <2>1. /\ \A j \in Jobs : j # p => job'[j] = job[j]
          /\ job'[p].pc # "idle"
          /\ job[p].pc \in {"idle", "pair", "rekey", "commit", "state",
                            "service"}
      BY <1>0, <1>2, <2>0
      DEF PairingStep, StartPairing, WritePairedCertificate, SavePairing,
          PairingFails, RestartService, GiveUp, Goto, JobRecord, Waiting
    <2>2. NoRepair
      BY <2>0, <2>1 DEF NoRepair
    <2>3. \A q \in Pairings : q # p => job[q].pc = "idle"
      BY <2>0, <2>1 DEF OnePairing
    <2>4. OnePairing /\ \A q \in Pairings : q # p => job'[q].pc = "idle"
      BY <2>0, <2>1, <2>3 DEF OnePairing
    <2>5. PairSafe
      BY <2>2, <2>4 DEF PairInv
    <2>6. CASE StartPairing(p) /\ UNCHANGED crossed
      <3>1. job'[p].pc = "pair"
        BY <1>0, <2>0, <2>6 DEF StartPairing, JobRecord
      <3>2. /\ \A m \in wire' : m.op \in {"pair", "beat"}
            /\ UNCHANGED <<client, replies>>
        BY <2>5, <2>6 DEF PairSafe, StartPairing, Post
      <3> QED
        BY <1>0, <2>4, <2>5, <3>1, <3>2 DEF PairSafe
    <2>7. CASE WritePairedCertificate(p) /\ UNCHANGED crossed
      <3>1. PICK a \in replies :
               /\ job' = [job EXCEPT ![p].pc = "state", ![p].new = a.val]
               /\ replies' = replies \ {a}
        BY <2>7 DEF WritePairedCertificate
      <3>2. job'[p].pc = "state" /\ job'[p].new = a.val
        BY <1>0, <2>0, <3>1 DEF JobRecord
      <3>3. \A t \in {mem, disk} : Holds(t, job'[p].new)
        BY <2>5, <3>2 DEF PairSafe
      <3>4. UNCHANGED <<client, wire>> /\ replies' \subseteq replies
        BY <2>7, <3>1 DEF WritePairedCertificate
      <3>5. \A q \in Pairings : job'[q].pc \in {"state", "service", "done"}
                                => q = p
        BY <2>4
      <3> QED
        BY <1>0, <2>5, <3>2, <3>3, <3>4, <3>5 DEF PairSafe
    <2>8. CASE SavePairing(p)
      <3>1. /\ job'[p].pc = "service" /\ job'[p].new = job[p].new
            /\ job[p].pc = "state"
        BY <1>0, <2>0, <2>8 DEF SavePairing, Goto, JobRecord
      <3>2. client'.tok = job[p].new
        BY <2>0, <2>8 DEF SavePairing, PairedState, JobRecord, ClientState
      <3>3. crossed' \/ ~holder'.busy
        BY <1>2, <2>8 DEF SavePairing
      <3> QED
        BY <1>0, <2>4, <2>5, <2>8, <3>1, <3>2, <3>3
        DEF PairSafe, SavePairing, netVars
    <2>9. CASE RestartService(p) /\ UNCHANGED crossed
      <3>1. /\ job'[p].pc = "done" /\ job'[p].new = job[p].new
            /\ job[p].pc = "service"
        BY <1>0, <2>0, <2>9 DEF RestartService, Goto, JobRecord
      <3> QED
        BY <1>0, <1>2, <2>4, <2>5, <2>9, <3>1
        DEF PairSafe, RestartService, netVars
    <2>10. CASE GiveUp(p) /\ UNCHANGED crossed
      <3>1. job'[p].pc \in {"undo", "failed"}
        BY <1>0, <2>0, <2>10 DEF GiveUp, Goto, JobRecord
      <3> QED
        BY <1>0, <2>4, <2>5, <2>10, <3>1 DEF PairSafe, GiveUp
    <2>11. CASE PairingFails(p) /\ UNCHANGED crossed
      <3>1. job'[p].pc = "failed"
        BY <1>0, <2>0, <2>11 DEF PairingFails, Goto, JobRecord
      <3> QED
        BY <1>0, <2>4, <2>5, <2>11, <3>1 DEF PairSafe, PairingFails, netVars
    <2> QED
      BY <1>2, <2>6, <2>7, <2>8, <2>9, <2>10, <2>11 DEF PairingStep
  <1>3. CASE (TakeState \/ SendHeartbeat \/ SaveState) /\ UNCHANGED crossed
    <2>1. UNCHANGED <<job, replies>> /\ PairSafe
      BY <1>3 DEF TakeState, SendHeartbeat, SaveState, netVars, PairInv,
                  NoRepair, OnePairing
    <2>2. holder.copy \in ClientState /\ client \in ClientState
      BY <1>0 DEF RepairShape, HolderShape, ClientShape
    <2>3. \/ TakeState /\ client' = client /\ holder'.copy = client
          \/ /\ holder.busy /\ ~holder'.busy
             /\ client'.tok \in {client.tok, holder.copy.tok}
      BY <1>3, <2>2 DEF TakeState, SendHeartbeat, SaveState, Nobody, ClientState
    <2>4. \A m \in wire' : m.op \in {"pair", "beat"}
      BY <1>3, <2>1
      DEF TakeState, SendHeartbeat, SaveState, netVars, Post, PairSafe
    <2>5. \A p \in Pairings : job[p].pc \in {"service", "done"} =>
             \/ crossed
             \/ /\ client'.tok = job[p].new
                /\ holder'.busy => holder'.copy.tok = job[p].new
      BY <2>1, <2>3 DEF PairSafe
    <2> QED
      BY <1>0, <1>3, <2>1, <2>4, <2>5 DEF PairSafe
  <1>4. CASE ClientCrash /\ UNCHANGED crossed
    <2>1. ASSUME NEW j \in Jobs
          PROVE  /\ job'[j].pc = "idle" <=> job[j].pc = "idle"
                 /\ \/ job'[j] = job[j]
                    \/ job'[j].pc = "crashed"
      BY <1>0, <1>4 DEF ClientCrash, JobRecord, Over
    <2>2. NoRepair /\ OnePairing
      BY <2>1, JobFacts DEF NoRepair, OnePairing
    <2>3. /\ PairSafe /\ replies' = {} /\ UNCHANGED <<client, wire>>
          /\ ~holder'.busy
      BY <1>4, <2>2 DEF PairInv, ClientCrash, Nobody
    <2> QED
      BY <1>0, <1>4, <2>1, <2>3, JobFacts DEF PairSafe
  <1> QED
    BY <1>1, <1>2, <1>3, <1>4 DEF ClientStep, HolderStep

\* Every step keeps the invariant of a lone pairing.
LEMMA PairStep ==
    RepairShape /\ PairInv /\ [RepairNext]_allVars => PairInv'
  <1> SUFFICES ASSUME RepairShape, PairInv, [RepairNext]_allVars PROVE PairInv'
    OBVIOUS
  <1>0. TypeOK /\ ClientShape
    BY DEF RepairShape
  <1>1. CASE ClientStep /\ UNCHANGED <<registryVars, lines>>
    BY <1>1, PairClient
  <1>2. ASSUME NEW m \in wire, Handle(m) PROVE PairInv'
    <2>1. wire' = wire \ {m} /\ UNCHANGED clientVars
      BY <1>2 DEF Handle
    <2>2. CASE m.op = "beat" /\ HandleHeartbeat(m)
      BY <1>0, <2>1, <2>2, BeatFollows, FollowingKeeps DEF HandleHeartbeat
    <2>3. CASE m.op = "pair" /\ HandlePair(m)
      BY <1>0, <2>1, <2>3, PairingAnswered
    <2>4. CASE m.op \in {"rekey", "commit"}
      BY <2>1, <2>4 DEF PairInv, PairSafe, NoRepair, OnePairing, clientVars
    <2> QED
      BY <1>2, <2>2, <2>3, <2>4 DEF Handle
  <1>3. CASE \/ Enroll \/ Delete \/ (\E c \in Certs : ReadLine(c))
             \/ ServerStops \/ ServerStarts \/ Handshake \/ World
             \/ UNCHANGED allVars
    <2>1. UNCHANGED <<clientVars, netVars>>
      BY <1>3 DEF Enroll, Delete, ReadLine, ServerStops, ServerStarts,
                  Handshake, World, allVars
    <2> QED
      BY <1>0, <1>3, <2>1, OtherFollows, FollowingKeeps DEF netVars
  <1> QED
    BY <1>1, <1>2, <1>3 DEF RepairNext, Server

\* A pairing that was answered 200 is in the server's memory and state file,
\* while it is the only one and no repair was started: with two, the second
\* has replaced the token on the server before the client saves it.  The
\* client has that token too, unless the pairing's save fell between the load
\* and the save of a handler that holds stateMu.
THEOREM AnsweredPairingsLast ==
    RepairSpec => [](OnePairing => PairingSwitched)
  <1>1. RepairInit => PairInv
    <2> SUFFICES ASSUME RepairInit PROVE PairSafe
      BY DEF PairInv
    <2>1. NoStaged(Paired)
      BY DEF NoStaged, Paired, EmptyState
    <2>2. \A p \in Pairings : job[p].pc = "idle"
      BY JobFacts DEF RepairInit
    <2> QED
      BY <2>1, <2>2 DEF RepairInit, PairSafe
  <1>2. RepairShape /\ PairInv => (OnePairing => PairingSwitched)
    <2> SUFFICES ASSUME RepairShape, PairInv, OnePairing, NoRepair,
                        NEW p \in Pairings, job[p].pc \in {"service", "done"},
                        NEW s \in {mem, disk}, Registered(s, Device)
                 PROVE  /\ Authorized(s, Device, job[p].new)
                        /\ crossed \/ Authorized(s, Device, client.tok)
      BY DEF PairingSwitched
    <2>1. /\ crossed \/ client.tok = job[p].new
          /\ s.peers[Device].tok = job[p].new
      BY DEF PairInv, PairSafe, Holds
    <2>2. job[p].new \in CertIds
      BY JobFacts DEF RepairShape, ClientShape, Holding
    <2> QED
      BY <2>1, <2>2, CertFacts DEF Authorized
  <1> QED
    BY <1>1, <1>2, PairStep, AlwaysShaped, PTL DEF RepairSpec

-----------------------------------------------------------------------------
(* One repair and no pairing.                                              *)

\* At most one repair was started.
OneRepair == \A q, r \in Repairs :
                 job[q].pc # "idle" /\ job[r].pc # "idle" => q = r

\* Nothing was started but r, which is a repair or None.
Lone(r) == NoPairing /\ \A q \in Repairs : q # r => job[q].pc = "idle"

Pc(r) == IF r \in Repairs THEN job[r].pc ELSE "idle"

\* The certificate r was given, with its token.
Gift(r) == IF r \in Repairs THEN job[r].new ELSE 0

Identity(c) == [tok |-> c, fp |-> c]

\* The client's state has the first identity or the one of r, entirely, and so
\* has the copy a handler holds.
ClientSafe(r) ==
    /\ Gift(r) # 1
    /\ Pc(r) \in {"idle", "rekey", "pair"} => Gift(r) = 0
    /\ r \in Repairs => job[r].old = Identity(1) /\ job[r].files.cert = 1
    /\ holder.busy => holder.copy = client
    /\ \/ /\ client = Identity(1)
          /\ Pc(r) \notin {"commit", "undo", "unsave", "service", "done",
                           "stuck"}
       \/ /\ client = Identity(Gift(r)) /\ Gift(r) # 0
          /\ Pc(r) \in {"commit", "undo", "unsave", "service", "done",
                        "stuck", "crashed"}
    /\ files.cert \in {1, Gift(r)}
    /\ Pc(r) \in {"idle", "rekey", "pair", "key", "crt"} => files.cert = 1
    /\ Pc(r) = "crt" => files.key = r
    /\ Pc(r) \in {"state", "commit", "undo", "service", "done"} =>
          files = [key |-> r, cert |-> Gift(r)]
    /\ loaded = 1 \/ (Pc(r) = "done" /\ loaded = Gift(r))
    /\ \A l \in lines : l = 1 \/ (Pc(r) = "done" /\ l = Gift(r))

\* The device as it was paired, and as repair r left it with certificate c.
Original(s) == /\ s.peers[Device].tok = 1
               /\ s.peers[Device].fp = 1
               /\ s.rev = {}

Renewed(s, r, c) == /\ c # 0
                    /\ s.peers[Device].tok = c
                    /\ s.peers[Device].key = r
                    /\ s.peers[Device].fp \in {1, c}
                    /\ 1 \in s.rev

RegistrySafe(s, r, c) ==
    /\ \A p \in s.pending : p.old = 1 /\ p.key = r
    /\ Registered(s, Device) => Original(s) \/ Renewed(s, r, c)
    /\ ~Registered(s, Device) => 1 \in s.rev

\* The server has switched for good: whatever happens to the device now, the
\* certificate it uses will be the one that is revoked.
Switched(s, r, c) ==
    /\ 1 \in s.rev
    /\ IF Registered(s, Device)
       THEN Renewed(s, r, c) /\ s.peers[Device].fp = c
       ELSE c \in s.rev

\* No handshake of the first certificate will be read any more.
FirstIsSilent == /\ nebula.running => 1 \in nebula.list
                 /\ 1 \notin lines

RekeyCode(id) == /\ id < nextCode
                 /\ \A s \in {mem, disk} : \A e \in s.codes :
                       e.id = id => e.rekey

ServerSafe(r) ==
    /\ nextCert >= 2
    /\ \A s \in {mem, disk} : /\ RegistrySafe(s, r, Gift(r))
                              /\ \A e \in s.codes : e.id < nextCode

HasSwitched(r) == /\ \A s \in {mem, disk} : Switched(s, r, Gift(r))
                  /\ FirstIsSilent

WireSafe(r) ==
    \A m \in wire :
        /\ m.op = "beat" => m.val = m.tok /\ m.tok \in {1, Gift(r)} \ {0}
        /\ m.op = "rekey" => m.tok = 1 /\ m.val = 1
        /\ m.op = "pair" => m.key = r /\ RekeyCode(m.val)
        /\ m.op \in {"rekey", "pair"} => Gift(r) = 0
        /\ m.op = "commit" => m.tok = Gift(r) /\ m.tok # 0

ReplySafe(r) ==
    \A a \in replies :
        /\ Pc(r) = "rekey" => RekeyCode(a.val)
        /\ Pc(r) = "pair" => a.val # 1
        /\ Pc(r) = "commit" => HasSwitched(r)

RepairSafe(r) ==
    /\ ClientSafe(r)
    /\ ServerSafe(r)
    /\ WireSafe(r)
    /\ ReplySafe(r)
    /\ Pc(r) \in {"service", "done"} => HasSwitched(r)

RepairInv == \A r \in Repairs \cup {None} : Lone(r) => RepairSafe(r)

\* A lone repair is the only job with anything under way, and it waits for at
\* most one message.
LEMMA LoneFacts ==
    ASSUME ClientShape, NEW r \in Repairs \cup {None}, Lone(r)
    PROVE  /\ \A m \in wire : m.op # "beat" =>
                 /\ m.job = r /\ r \in Repairs /\ replies = {}
                 /\ Pc(r) \in Waiting \cup Silenced
                 /\ Pc(r) \in Waiting => m.op = Pc(r)
                 /\ \A n \in wire : n.op # "beat" => n = m
           /\ \A a \in replies :
                 /\ a.job = r /\ r \in Repairs /\ Pc(r) \in Waiting
                 /\ Pc(r) = "pair" => a.val \in CertIds
                 /\ \A b \in replies : b = a
                 /\ \A m \in wire : m.op = "beat"
  <1>1. ASSUME NEW j \in Jobs, job[j].pc # "idle"
        PROVE  j = r /\ r \in Repairs /\ Pc(r) = job[j].pc
    BY <1>1 DEF Lone, NoPairing, Jobs, Pc
  <1>2. ASSUME NEW a \in replies
        PROVE  /\ a.job = r /\ r \in Jobs /\ r \in Repairs
               /\ Pc(r) \in Waiting
               /\ Pc(r) = "pair" => a.val \in CertIds
               /\ Silent(r)
               /\ \A b \in replies : b.job = r => b = a
    <2>1. a.job \in Jobs /\ Talk(a.job)
      BY DEF ClientShape
    <2>2. job[a.job].pc # "idle"
      BY <2>1 DEF Talk, Waiting
    <2>3. a.job = r /\ r \in Repairs /\ Pc(r) = job[r].pc
      BY <1>1, <2>1, <2>2
    <2> QED
      BY <2>1, <2>3, JobFacts DEF Talk
  <1>3. ASSUME NEW m \in wire, m.op # "beat"
        PROVE  /\ m.job = r /\ r \in Jobs /\ r \in Repairs
               /\ Pc(r) \in Waiting \cup Silenced
               /\ Pc(r) \in Waiting => m.op = Pc(r)
               /\ \A n \in wire : n.job = r => n = m
    <2>1. m.job \in Jobs
      BY <1>3 DEF ClientShape, RequestShape, Request
    <2>2. Talk(m.job)
      BY <2>1 DEF ClientShape
    <2>3. job[m.job].pc # "idle"
      BY <1>3, <2>2 DEF Talk, Waiting, Silenced
    <2>4. m.job = r /\ r \in Repairs /\ Pc(r) = job[r].pc
      BY <1>1, <2>1, <2>3
    <2> QED
      BY <2>1, <2>2, <2>4, JobFacts DEF Talk
  <1>4. ASSUME NEW m \in wire, m.op # "beat" PROVE replies = {}
    BY <1>2, <1>3, <1>4 DEF Silent
  <1> QED
    BY <1>2, <1>3, <1>4

\* Steps that leave the server and its log alone.
LEMMA Frozen ==
    ASSUME NEW r, UNCHANGED <<registryVars, lines>>
    PROVE  /\ \A id : RekeyCode(id)' <=> RekeyCode(id)
           /\ Gift(r)' = Gift(r) => (HasSwitched(r)' <=> HasSwitched(r))
           /\ Gift(r)' = Gift(r) \/ Gift(r) = 0 =>
                 (ServerSafe(r) => ServerSafe(r)')
  BY DEF registryVars, vars, serverVars, mintVars, RekeyCode, HasSwitched,
         FirstIsSilent, ServerSafe, RegistrySafe, Renewed, Original

\* A step of the repair that says nothing to the server.
LEMMA QuietStep ==
    ASSUME NEW r, RepairSafe(r), UNCHANGED <<registryVars, lines, wire>>,
           replies' \subseteq replies, replies = {} \/ Pc(r)' \notin Waiting,
           Gift(r)' = Gift(r), ClientSafe(r)',
           Pc(r)' \in {"service", "done"} => HasSwitched(r)
    PROVE  RepairSafe(r)'
  <1>1. ServerSafe(r)' /\ (Pc(r)' \in {"service", "done"} => HasSwitched(r)')
    BY Frozen DEF RepairSafe
  <1>2. WireSafe(r)'
    BY Frozen DEF RepairSafe, WireSafe
  <1>3. ReplySafe(r)'
    BY DEF ReplySafe, Waiting
  <1> QED
    BY <1>1, <1>2, <1>3 DEF RepairSafe

\* The steps of the lone repair.
LEMMA LoneStep ==
    ASSUME RepairShape, RepairShape', NEW r \in Repairs, Lone(r), RepairSafe(r),
           RepairStep(r), UNCHANGED <<registryVars, lines, holder>>
    PROVE  RepairSafe(r)'
  <1>0. /\ ClientShape /\ r \in Jobs /\ job[r] \in JobRecord /\ r \in Keys
        /\ r \in Repairs \cup {None} /\ job \in [Jobs -> JobRecord]
        /\ Pc(r) = job[r].pc /\ Gift(r) = job[r].new /\ Gift(r) # 1
        /\ files \in [key : Keys, cert : CertIds] /\ CertIds \subseteq Nat \ {0}
        /\ job[r].old = Identity(1) /\ job[r].files.cert = 1
        /\ job[r].pc \in Holding => job[r].new \in CertIds
        /\ Pc(r)' = job'[r].pc /\ Gift(r)' = job'[r].new
    BY JobFacts, CertFacts
    DEF RepairShape, ClientShape, RepairSafe, ClientSafe, Pc, Gift
  <1>1. ASSUME NEW pc \in Waiting \cup Over \cup Steps, Goto(r, pc)
        PROVE  /\ job'[r] = [job[r] EXCEPT !.pc = pc]
               /\ job'[r].pc = pc /\ job'[r].new = job[r].new
               /\ job'[r].old = job[r].old /\ job'[r].files = job[r].files
    BY <1>0, <1>1 DEF Goto, JobRecord
  <1>2. job[r].pc \in Steps => replies = {}
    BY <1>0, LoneFacts DEF Steps, Waiting
  <1>3. CASE StartRepair(r)
    <2>1. client = Identity(1) /\ Fingerprint(client) = 1 /\ replies = {}
      BY <1>0, <1>2, <1>3
      DEF StartRepair, RepairSafe, ClientSafe, Identity, Fingerprint, Steps
    <2>2. job' = [job EXCEPT ![r].pc = "rekey",
                             ![r].old = [client EXCEPT !.fp = 1]]
      BY <1>3, <2>1 DEF StartRepair
    <2>3. /\ job'[r].pc = "rekey" /\ job'[r].new = job[r].new
          /\ job'[r].files = job[r].files
          /\ job'[r].old = [client EXCEPT !.fp = 1]
      BY <1>0, <2>2 DEF JobRecord
    <2>4. job'[r].old = Identity(1)
      BY <2>1, <2>3 DEF Identity
    <2>5. Gift(r) = 0
      BY <1>0, <1>3 DEF StartRepair, RepairSafe, ClientSafe
    <2>6. ClientSafe(r)'
      BY <1>0, <1>3, <2>1, <2>3, <2>4, <2>5
      DEF StartRepair, RepairSafe, ClientSafe
    <2>7. WireSafe(r)'
      <3>1. wire' = wire \cup {[op |-> "rekey", job |-> r, tok |-> 1,
                                val |-> 1, key |-> r]}
        BY <1>3, <2>1 DEF StartRepair, Post, Identity
      <3> QED
        BY <1>0, <2>3, <2>5, <3>1, Frozen DEF RepairSafe, WireSafe
    <2>8. replies' = {}
      BY <1>3, <2>1 DEF StartRepair
    <2> QED
      BY <1>0, <2>3, <2>5, <2>6, <2>7, <2>8, Frozen DEF RepairSafe, ReplySafe
  <1>4. CASE SendRepairKey(r)
    <2>1. PICK a \in replies : Post("pair", r, 0, a.val, r)
                               /\ replies' = replies \ {a}
      BY <1>4 DEF SendRepairKey
    <2>2. /\ Goto(r, "pair") /\ Pc(r) = "rekey"
          /\ UNCHANGED <<client, files, loaded>>
      BY <1>0, <1>4 DEF SendRepairKey
    <2>3. job'[r].pc = "pair" /\ job'[r].new = 0
          /\ job'[r].old = job[r].old /\ job'[r].files = job[r].files
      BY <1>0, <1>1, <2>2 DEF Waiting, RepairSafe, ClientSafe
    <2>4. replies' = {} /\ RekeyCode(a.val)
      BY <1>0, <2>1, <2>2, LoneFacts DEF RepairSafe, ReplySafe
    <2>5. ClientSafe(r)'
      BY <1>0, <2>2, <2>3 DEF RepairSafe, ClientSafe
    <2>6. Gift(r) = 0
      BY <2>2 DEF RepairSafe, ClientSafe
    <2>7. WireSafe(r)'
      <3>1. wire' = wire \cup {[op |-> "pair", job |-> r, tok |-> 0,
                                val |-> a.val, key |-> r]}
        BY <2>1 DEF Post
      <3> QED
        BY <1>0, <2>3, <2>4, <2>6, <3>1, Frozen DEF RepairSafe, WireSafe
    <2> QED
      BY <1>0, <2>3, <2>4, <2>5, <2>6, <2>7, Frozen DEF RepairSafe, ReplySafe
  <1>5. CASE KeepOldFiles(r)
    <2>1. PICK a \in replies :
             /\ job' = [job EXCEPT ![r].pc = "key", ![r].new = a.val,
                                   ![r].files = files]
             /\ replies' = replies \ {a}
      BY <1>5 DEF KeepOldFiles
    <2>2. Pc(r) = "pair" /\ UNCHANGED <<client, files, loaded, wire>>
      BY <1>0, <1>5 DEF KeepOldFiles
    <2>3. /\ job'[r].pc = "key" /\ job'[r].new = a.val
          /\ job'[r].old = job[r].old /\ job'[r].files = files
      BY <1>0, <2>1 DEF JobRecord
    <2>4. /\ replies' = {} /\ a.val # 1 /\ a.val \in CertIds
          /\ \A m \in wire : m.op = "beat"
      BY <1>0, <2>1, <2>2, LoneFacts DEF RepairSafe, ReplySafe
    <2>5. ClientSafe(r)' /\ Gift(r) = 0
      BY <1>0, <2>2, <2>3, <2>4 DEF RepairSafe, ClientSafe
    <2>6. WireSafe(r)'
      BY <2>2, <2>4, <2>5 DEF RepairSafe, WireSafe
    <2> QED
      BY <1>0, <2>3, <2>4, <2>5, <2>6, Frozen DEF RepairSafe, ReplySafe
  <1>6. CASE WriteKey(r) \/ WriteCertificate(r) \/ WriteFails(r)
    <2>1. /\ \/ Goto(r, "crt") /\ WriteKey(r) /\ job[r].pc = "key"
             \/ Goto(r, "state") /\ WriteCertificate(r) /\ job[r].pc = "crt"
             \/ /\ Goto(r, "failed") /\ WriteFails(r)
                /\ job[r].pc \in {"key", "crt", "state"}
          /\ UNCHANGED <<client, loaded, wire, replies>>
      BY <1>6 DEF WriteKey, WriteCertificate, WriteFails, netVars
    <2>2. /\ job'[r].pc \in {"crt", "state", "failed"}
          /\ Gift(r)' = Gift(r) /\ job'[r].old = job[r].old
          /\ job'[r].files = job[r].files
      BY <1>0, <1>1, <2>1 DEF Steps, Over
    <2>3. \/ /\ job'[r].pc = "crt" /\ files'.cert = 1 /\ files'.key = r
          \/ /\ job'[r].pc = "state" /\ files' = [key |-> r, cert |-> Gift(r)]
          \/ /\ job'[r].pc = "failed" /\ files'.cert \in {1, Gift(r)}
      <3>1. CASE WriteKey(r) /\ Goto(r, "crt") /\ job[r].pc = "key"
        <4>1. files' = [files EXCEPT !.key = r] /\ files.cert = 1
          BY <1>0, <3>1 DEF WriteKey, RepairSafe, ClientSafe
        <4>2. files'.cert = 1 /\ files'.key = r
          BY <1>0, <4>1
        <4> QED
          BY <1>0, <1>1, <3>1, <4>2 DEF Steps
      <3>2. CASE WriteCertificate(r) /\ Goto(r, "state") /\ job[r].pc = "crt"
        <4>1. files.key = r /\ files' = [files EXCEPT !.cert = Gift(r)]
          BY <1>0, <3>2 DEF WriteCertificate, RepairSafe, ClientSafe
        <4>2. files' = [key |-> r, cert |-> Gift(r)]
          BY <1>0, <4>1
        <4> QED
          BY <1>0, <1>1, <3>2, <4>2 DEF Steps
      <3>3. CASE WriteFails(r) /\ Goto(r, "failed")
        BY <1>0, <1>1, <3>3 DEF WriteFails, RepairSafe, ClientSafe, Over
      <3> QED
        BY <2>1, <3>1, <3>2, <3>3
    <2>4. ClientSafe(r)'
      BY <1>0, <2>1, <2>2, <2>3 DEF RepairSafe, ClientSafe
    <2> QED
      BY <1>0, <1>2, <2>1, <2>2, <2>4, QuietStep DEF Steps, Waiting
  <1>12. ASSUME FilesPutBack(r), files.cert \in {1, Gift(r)}
         PROVE  files'.cert \in {1, Gift(r)}
    BY <1>0, <1>12 DEF FilesPutBack
  <1>13. CASE SaveFails(r)
    <2>1. /\ \/ Goto(r, "failed") /\ UNCHANGED client
             \/ Goto(r, "stuck") /\ client' = Identity(Gift(r))
          /\ job[r].pc = "state" /\ FilesPutBack(r) /\ Gift(r) # 0
          /\ ~holder.busy
          /\ UNCHANGED <<loaded, wire, replies>>
      BY <1>0, <1>13 DEF SaveFails, Renewal, Identity, netVars, Holding
    <2>2. /\ \/ job'[r].pc = "failed" /\ UNCHANGED client
             \/ job'[r].pc = "stuck" /\ client' = Identity(Gift(r))
          /\ Gift(r)' = Gift(r) /\ job'[r].old = job[r].old
          /\ job'[r].files = job[r].files
      BY <1>0, <1>1, <2>1 DEF Steps, Over
    <2>3. files'.cert \in {1, Gift(r)}
      BY <1>12, <2>1 DEF RepairSafe, ClientSafe
    <2>4. ClientSafe(r)'
      BY <1>0, <2>1, <2>2, <2>3 DEF RepairSafe, ClientSafe
    <2> QED
      BY <1>0, <1>2, <2>1, <2>2, <2>4, QuietStep DEF Steps, Waiting
  <1>7. CASE SaveIdentity(r)
    <2>1. /\ job'[r].pc = "commit" /\ job'[r].new = job[r].new
          /\ job'[r].old = job[r].old /\ job'[r].files = job[r].files
      BY <1>0, <1>1, <1>7 DEF SaveIdentity, Waiting
    <2>2. /\ client' = Identity(Gift(r)) /\ Gift(r) # 0
          /\ UNCHANGED <<files, loaded, replies>> /\ Pc(r) = "state"
          /\ ~holder.busy
      BY <1>0, <1>7 DEF SaveIdentity, Renewal, Identity, Holding
    <2>3. ClientSafe(r)'
      BY <1>0, <2>1, <2>2 DEF RepairSafe, ClientSafe
    <2>4. WireSafe(r)'
      <3>1. wire' = wire \cup {[op |-> "commit", job |-> r, tok |-> Gift(r),
                                val |-> 0, key |-> r]}
        BY <1>0, <1>7 DEF SaveIdentity, Post
      <3> QED
        BY <1>0, <2>1, <2>2, <3>1, Frozen DEF RepairSafe, WireSafe
    <2>5. replies' = {}
      BY <1>0, <1>2, <2>2 DEF Steps
    <2> QED
      BY <1>0, <2>1, <2>3, <2>4, <2>5, Frozen DEF RepairSafe, ReplySafe
  <1>8. CASE Committed(r)
    <2>1. PICK a \in replies : replies' = replies \ {a}
      BY <1>8 DEF Committed
    <2>2. /\ job'[r].pc = "service" /\ job'[r].new = job[r].new
          /\ job'[r].old = job[r].old /\ job'[r].files = job[r].files
          /\ Pc(r) = "commit" /\ UNCHANGED <<client, files, loaded, wire>>
      BY <1>0, <1>1, <1>8 DEF Committed, Steps
    <2>3. HasSwitched(r)
      BY <2>2 DEF RepairSafe, ReplySafe
    <2>4. ClientSafe(r)'
      BY <1>0, <2>2 DEF RepairSafe, ClientSafe
    <2> QED
      BY <1>0, <2>1, <2>2, <2>3, <2>4, QuietStep DEF Waiting
  <1>9. CASE UndoFiles(r) \/ UndoState(r)
    <2>1. /\ \/ /\ Goto(r, "unsave") /\ FilesPutBack(r)
                /\ job[r].pc = "undo" /\ UNCHANGED client
             \/ /\ Goto(r, "failed") /\ client' = job[r].old
                /\ job[r].pc = "unsave" /\ UNCHANGED files /\ ~holder.busy
             \/ /\ Goto(r, "stuck") /\ job[r].pc = "unsave"
                /\ UNCHANGED <<client, files>>
          /\ UNCHANGED <<loaded, wire, replies>>
      BY <1>9 DEF UndoFiles, UndoState, netVars
    <2>2. /\ \/ job'[r].pc = "unsave" /\ UNCHANGED client
                /\ job[r].pc = "undo"
             \/ /\ job'[r].pc = "failed" /\ client' = job[r].old
                /\ ~holder.busy
             \/ /\ job'[r].pc = "stuck" /\ UNCHANGED client
                /\ job[r].pc = "unsave"
          /\ Gift(r)' = Gift(r) /\ job'[r].old = job[r].old
          /\ job'[r].files = job[r].files
      BY <1>0, <1>1, <2>1 DEF Steps, Over
    <2>3. files'.cert \in {1, Gift(r)}
      BY <1>12, <2>1 DEF RepairSafe, ClientSafe
    <2>4. ClientSafe(r)'
      BY <1>0, <2>1, <2>2, <2>3 DEF RepairSafe, ClientSafe
    <2> QED
      BY <1>0, <2>1, <2>2, <2>4, QuietStep DEF Waiting
  <1>10. CASE RestartService(r)
    <2>1. /\ job'[r].pc = "done" /\ job'[r].new = job[r].new
          /\ job'[r].old = job[r].old /\ job'[r].files = job[r].files
          /\ Pc(r) = "service" /\ UNCHANGED <<client, files, wire, replies>>
          /\ loaded' \in {loaded, files.cert}
      BY <1>0, <1>1, <1>10 DEF RestartService, Over, netVars
    <2>2. ClientSafe(r)'
      BY <1>0, <2>1 DEF RepairSafe, ClientSafe
    <2> QED
      BY <1>0, <2>1, <2>2, QuietStep DEF Waiting, RepairSafe
  <1>11. CASE GiveUp(r)
    <2>1. /\ \/ Pc(r) = "commit" /\ Goto(r, "undo")
             \/ Pc(r) \in {"rekey", "pair"} /\ Goto(r, "failed")
          /\ UNCHANGED <<client, files, loaded, wire>>
          /\ replies' \subseteq replies
      BY <1>0, <1>11 DEF GiveUp, Waiting
    <2>2. /\ \/ Pc(r) = "commit" /\ job'[r].pc = "undo"
             \/ Pc(r) \in {"rekey", "pair"} /\ job'[r].pc = "failed"
          /\ Gift(r)' = Gift(r) /\ job'[r].old = job[r].old
          /\ job'[r].files = job[r].files
      BY <1>0, <1>1, <2>1 DEF Steps, Over
    <2>3. ClientSafe(r)'
      BY <1>0, <2>1, <2>2 DEF RepairSafe, ClientSafe
    <2> QED
      BY <1>0, <2>1, <2>2, <2>3, QuietStep DEF Waiting
  <1> QED
    BY <1>3, <1>4, <1>5, <1>6, <1>7, <1>8, <1>9, <1>10, <1>11, <1>13
    DEF RepairStep

\* The handlers that hold the state, and the end of the client.
LEMMA LoneClient ==
    ASSUME RepairShape, RepairShape', NEW r \in Repairs \cup {None},
           Lone(r), Lone(r)', RepairSafe(r), ClientStep,
           UNCHANGED <<registryVars, lines>>
    PROVE  RepairSafe(r)'
  <1>0. /\ ClientShape /\ Repairs \subseteq Jobs /\ Pairings \subseteq Jobs
        /\ job \in [Jobs -> JobRecord] /\ Repairs \cap Pairings = {}
        /\ CertIds \subseteq Nat \ {0}
    BY JobFacts, CertFacts DEF RepairShape, ClientShape
  <1>1. CASE \E q \in Repairs : RepairStep(q) /\ UNCHANGED <<holder, crossed>>
    <2> PICK q \in Repairs : RepairStep(q) /\ UNCHANGED holder
      BY <1>1
    <2>1. q = r
      BY <1>0, StepsStart DEF Lone
    <2> QED
      BY <2>1, LoneStep
  <1>2. CASE \E p \in Pairings : PairingStep(p) \/ SavePairing(p)
    BY <1>0, <1>2, StepsStart DEF Lone, NoPairing
  <1>5. /\ client.tok \in {1, Gift(r)} \ {0} /\ client.fp = client.tok
        /\ client = [tok |-> client.tok, fp |-> client.fp]
        /\ Fingerprint(client) = client.fp
        /\ [client EXCEPT !.fp = client.fp] = client
        /\ holder.busy => holder.copy = client
    BY DEF RepairSafe, ClientSafe, Identity, Fingerprint
  <1>3. CASE SendHeartbeat
    <2>1. client' = client /\ ~holder'.busy
      BY <1>3, <1>5 DEF SendHeartbeat, Nobody
    <2>4. wire' = wire \cup {[op |-> "beat", job |-> None, tok |-> client.tok,
                              val |-> client.tok, key |-> Device]}
      BY <1>3, <1>5 DEF SendHeartbeat, Post
    <2>5. UNCHANGED <<job, files, loaded, replies>>
      BY <1>3 DEF SendHeartbeat
    <2>6. Pc(r)' = Pc(r) /\ Gift(r)' = Gift(r)
      BY <2>5 DEF Pc, Gift
    <2>7. ClientSafe(r)'
      BY <2>1, <2>5, <2>6 DEF RepairSafe, ClientSafe
    <2>8. WireSafe(r)'
      BY <1>5, <2>4, <2>6, Frozen DEF RepairSafe, WireSafe
    <2> QED
      BY <2>5, <2>6, <2>7, <2>8, Frozen DEF RepairSafe, ReplySafe
  <1>6. CASE TakeState \/ SaveState
    <2>1. /\ client' = client /\ UNCHANGED <<job, files, loaded, wire, replies>>
          /\ holder'.busy => holder'.copy = client
      BY <1>5, <1>6 DEF TakeState, SaveState, Nobody, netVars
    <2>2. Pc(r)' = Pc(r) /\ Gift(r)' = Gift(r)
      BY <2>1 DEF Pc, Gift
    <2>3. ClientSafe(r)'
      BY <2>1, <2>2 DEF RepairSafe, ClientSafe
    <2>4. WireSafe(r)'
      BY <2>1, <2>2, Frozen DEF RepairSafe, WireSafe
    <2> QED
      BY <2>1, <2>2, <2>3, <2>4, Frozen DEF RepairSafe, ReplySafe
  <1>4. CASE ClientCrash
    <2>1. ASSUME r \in Repairs
          PROVE  /\ Gift(r)' = Gift(r)
                 /\ job'[r].old = job[r].old /\ job'[r].files = job[r].files
                 /\ \/ Pc(r)' = Pc(r) /\ Pc(r) \in {"idle", "done", "failed",
                                                    "stuck", "crashed"}
                    \/ Pc(r)' = "crashed" /\ Pc(r) \notin {"idle", "done"}
      <3>1. /\ r \in Jobs /\ job[r] \in JobRecord
            /\ Pc(r) = job[r].pc /\ Gift(r) = job[r].new
            /\ Pc(r)' = job'[r].pc /\ Gift(r)' = job'[r].new
        BY <1>0, <2>1 DEF Pc, Gift
      <3>2. CASE job[r].pc \in Over \cup {"idle"}
        <4>1. job'[r] = job[r]
          BY <1>4, <3>1, <3>2 DEF ClientCrash
        <4> QED
          BY <3>1, <3>2, <4>1 DEF Over
      <3>3. CASE job[r].pc \notin Over \cup {"idle"}
        <4>1. job'[r] = [job[r] EXCEPT !.pc = "crashed"]
          BY <1>4, <3>1, <3>3 DEF ClientCrash
        <4>2. /\ job'[r].pc = "crashed" /\ job'[r].new = job[r].new
              /\ job'[r].old = job[r].old /\ job'[r].files = job[r].files
          BY <3>1, <4>1 DEF JobRecord
        <4> QED
          BY <3>1, <3>3, <4>2 DEF Over
      <3> QED
        BY <3>2, <3>3
    <2>2. ASSUME r \notin Repairs
          PROVE  /\ Gift(r)' = Gift(r)
                 /\ Pc(r)' = Pc(r) /\ Pc(r) = "idle"
      BY <2>2 DEF Pc, Gift
    <2>3. /\ Gift(r)' = Gift(r)
          /\ \/ Pc(r)' = Pc(r) /\ Pc(r) \in {"idle", "done", "failed",
                                             "stuck", "crashed"}
             \/ Pc(r)' = "crashed" /\ Pc(r) \notin {"idle", "done"}
      BY <2>1, <2>2
    <2>4. /\ UNCHANGED <<client, files, loaded, wire>> /\ replies' = {}
          /\ ~holder'.busy
      BY <1>4 DEF ClientCrash, Nobody
    <2>5. ClientSafe(r)'
      BY <2>1, <2>2, <2>3, <2>4 DEF RepairSafe, ClientSafe
    <2> QED
      BY <2>3, <2>4, <2>5, QuietStep DEF Waiting, RepairSafe
  <1> QED
    BY <1>1, <1>2, <1>3, <1>4, <1>6 DEF ClientStep, HolderStep

-----------------------------------------------------------------------------
(* The server while one repair runs.                                       *)

\* The codes of t were there before, or one was issued.
CodesFrom(t) ==
    \A e \in t.codes :
        \/ \E s \in {mem, disk} : \E f \in s.codes :
               f.id = e.id /\ f.rekey = e.rekey
        \/ e.id = nextCode /\ nextCode' = nextCode + 1

\* A step may leave the registry t behind.
GoodNext(t, r) == /\ RegistrySafe(t, r, Gift(r))
                  /\ HasSwitched(r) => Switched(t, r, Gift(r))
                  /\ CodesFrom(t)

\* What the server may do.
ServerMove(r) ==
    /\ nextCert' >= nextCert /\ nextCode' >= nextCode
    /\ wire' \subseteq wire
    /\ \A l \in lines' : l \in lines \/ l = loaded
    /\ \A t \in {mem', disk'} : GoodNext(t, r)
    /\ HasSwitched(r) => FirstIsSilent'

\* A move of the server, the client resting, keeps the repair's invariant.
LEMMA MoveKeeps ==
    ASSUME TypeOK, TypeOK', ClientShape, NEW r, RepairSafe(r),
           UNCHANGED clientVars, ServerMove(r),
           replies' \subseteq replies \/ ReplySafe(r)'
    PROVE  RepairSafe(r)'
  <1>0. /\ Pc(r)' = Pc(r) /\ Gift(r)' = Gift(r)
        /\ nextCode \in Nat /\ nextCode' \in Nat
        /\ nextCert \in Nat /\ nextCert' \in Nat
        /\ nextCert' >= nextCert /\ nextCode' >= nextCode
        /\ \A m \in wire : m.val \in Nat
        /\ \A a \in replies : a.val \in Nat
        /\ \A s \in {mem, disk} : \A e \in s.codes : e.id \in Nat
        /\ \A s \in {mem', disk'} : \A e \in s.codes : e.id \in Nat
    BY DEF clientVars, Pc, Gift, TypeOK, ServerMove, ServerState,
           EnrollmentRecord, ClientShape, RequestShape, Request
  <1>1. ClientSafe(r)'
    BY <1>0 DEF RepairSafe, ClientSafe, ServerMove, clientVars
  <1>2. \A t \in {mem', disk'} : \A e \in t.codes : e.id < nextCode'
    <2> SUFFICES ASSUME NEW t \in {mem', disk'}, NEW e \in t.codes
                 PROVE  e.id < nextCode'
      OBVIOUS
    <2>1. \/ \E s \in {mem, disk} : \E f \in s.codes : f.id = e.id
          \/ e.id = nextCode /\ nextCode' = nextCode + 1
      BY DEF ServerMove, GoodNext, CodesFrom
    <2>2. \A s \in {mem, disk} : \A f \in s.codes : f.id < nextCode
      BY DEF RepairSafe, ServerSafe
    <2>3. e.id < nextCode \/ (e.id = nextCode /\ nextCode' = nextCode + 1)
      BY <2>1, <2>2
    <2> QED
      BY <1>0, <2>3
  <1>3. ASSUME NEW id \in Nat, RekeyCode(id) PROVE RekeyCode(id)'
    <2>1. id < nextCode
      BY <1>3 DEF RekeyCode
    <2>2. id < nextCode' /\ id # nextCode
      BY <1>0, <2>1
    <2> SUFFICES ASSUME NEW t \in {mem', disk'}, NEW e \in t.codes, e.id = id
                 PROVE  e.rekey
      BY <2>2 DEF RekeyCode
    <2>3. \E s \in {mem, disk} : \E f \in s.codes :
             f.id = e.id /\ f.rekey = e.rekey
      BY <2>2 DEF ServerMove, GoodNext, CodesFrom
    <2> QED
      BY <1>3, <2>3 DEF RekeyCode
  <1>4. ServerSafe(r)'
    BY <1>0, <1>2 DEF RepairSafe, ServerSafe, ServerMove, GoodNext,
                      RegistrySafe, Renewed, Original
  <1>5. HasSwitched(r) => HasSwitched(r)'
    BY <1>0 DEF HasSwitched, ServerMove, GoodNext
  <1>6. WireSafe(r)'
    <2>1. \A m \in wire' : m \in wire
      BY DEF ServerMove
    <2> QED
      BY <1>0, <1>3, <2>1 DEF RepairSafe, WireSafe
  <1>7. ReplySafe(r)'
    BY <1>0, <1>3, <1>5 DEF RepairSafe, ReplySafe
  <1> QED
    BY <1>0, <1>1, <1>4, <1>5, <1>6, <1>7 DEF RepairSafe

\* The registries as they are may be left behind.
LEMMA OldGood ==
    ASSUME NEW r, RepairSafe(r), NEW s \in {mem, disk}
    PROVE  GoodNext(s, r)
  BY DEF RepairSafe, ServerSafe, GoodNext, CodesFrom, HasSwitched

\* A handler saves a registry that may be left behind.
LEMMA SaveGood ==
    ASSUME NEW r, RepairSafe(r), NEW t, GoodNext(t, r), NEW out, Save(t, out)
    PROVE  /\ \A u \in {mem', disk'} : GoodNext(u, r)
           /\ UNCHANGED nebula
  <1>1. GoodNext(disk, r)
    BY OldGood
  <1> QED
    BY <1>1 DEF Save

\* A handler publishes a registry that may be left behind.
LEMMA PublishGood ==
    ASSUME NEW r, RepairSafe(r), NEW t, GoodNext(t, r), NEW out,
           Publish(t, out), lines' \subseteq lines
    PROVE  /\ \A u \in {mem', disk'} : GoodNext(u, r)
           /\ HasSwitched(r) => FirstIsSilent'
  <1>1. GoodNext(disk, r)
    BY OldGood
  <1>2. \A u \in {mem', disk'} : GoodNext(u, r)
    BY <1>1 DEF Publish
  <1>3. ASSUME HasSwitched(r) PROVE FirstIsSilent'
    <2>1. nebula' \in {Running(t.rev), nebula, Stopped}
      BY DEF Publish
    <2>2. 1 \in t.rev
      BY <1>3 DEF GoodNext, Switched
    <2> QED
      BY <1>3, <2>1, <2>2 DEF HasSwitched, FirstIsSilent, Running, Stopped
  <1> QED
    BY <1>2, <1>3

\* A registry that differs only in hashes and staged identities.
LEMMA DeviceKept ==
    ASSUME NEW r, RepairSafe(r), NEW s \in {mem, disk}, NEW t,
           t.peers[Device] = s.peers[Device], t.rev = s.rev,
           \A p \in t.pending : p \in s.pending \/ (p.old = 1 /\ p.key = r),
           CodesFrom(t)
    PROVE  GoodNext(t, r)
  BY DEF RepairSafe, ServerSafe, GoodNext, HasSwitched, RegistrySafe, Switched,
         Original, Renewed, Registered

\* The recorded fingerprint is replaced by one the device uses.
LEMMA ReportGood ==
    ASSUME mem \in ServerState, NEW r, RepairSafe(r), NEW c \in CertOrNone,
           Registered(mem, Device),
           Original(mem) => c = 1,
           Renewed(mem, r, Gift(r)) => c \in {1, Gift(r)},
           HasSwitched(r) => c = Gift(r)
    PROVE  GoodNext([mem EXCEPT !.peers[Device].fp = c], r)
  <1> DEFINE t == [mem EXCEPT !.peers[Device].fp = c]
  <1>1. /\ t.pending = mem.pending /\ t.codes = mem.codes /\ t.rev = mem.rev
        /\ t.peers[Device].addr = mem.peers[Device].addr
        /\ t.peers[Device].tok = mem.peers[Device].tok
        /\ t.peers[Device].key = mem.peers[Device].key
        /\ t.peers[Device].fp = c
    BY JobFacts DEF ServerState, PeerRecord
  <1> HIDE DEF t
  <1>2. RegistrySafe(mem, r, Gift(r))
    BY DEF RepairSafe, ServerSafe
  <1>3. RegistrySafe(t, r, Gift(r))
    BY <1>1, <1>2 DEF RegistrySafe, Original, Renewed, Registered
  <1>4. HasSwitched(r) => Switched(t, r, Gift(r))
    BY <1>1 DEF HasSwitched, Switched, Renewed, Registered
  <1>5. CodesFrom(t)
    BY <1>1 DEF CodesFrom
  <1> QED
    BY <1>3, <1>4, <1>5 DEF GoodNext, t

\* Once the server has switched, the device is not as it was paired.
LEMMA NotBoth ==
    ASSUME NEW s, NEW r, NEW c, Switched(s, r, c) \/ Renewed(s, r, c)
    PROVE  ~Original(s)
  BY DEF Switched, Renewed, Original

\* A beat, a request for a hash, a new key.
LEMMA BeatGood ==
    ASSUME RepairShape, RepairShape', NEW r \in Repairs \cup {None},
           RepairSafe(r), NEW m \in wire, m.op = "beat", Handle(m)
    PROVE  RepairSafe(r)'
  <1>0. /\ TypeOK /\ TypeOK' /\ ClientShape /\ mem \in ServerState
        /\ m.val = m.tok /\ m.tok \in {1, Gift(r)} \ {0}
        /\ m.val \in CertOrNone
    BY DEF RepairShape, ClientShape, TypeOK, RequestShape, RepairSafe, WireSafe
  <1>1. PICK out : Heartbeat(Device, m.tok, m.val, out)
    BY DEF Handle, HandleHeartbeat
  <1>2. /\ Authorized(mem, Device, m.tok)
        /\ Save([mem EXCEPT !.peers[Device].fp = m.val], out)
    BY <1>0, <1>1 DEF Heartbeat
  <1>3. Registered(mem, Device) /\ mem.peers[Device].tok = m.val
    BY <1>0, <1>2 DEF Authorized
  <1>4. GoodNext([mem EXCEPT !.peers[Device].fp = m.val], r)
    <2>1. HasSwitched(r) => m.val = Gift(r)
      BY <1>3 DEF HasSwitched, Switched, Renewed
    <2> QED
      BY <1>0, <1>3, <2>1, ReportGood DEF Original
  <1>5. ServerMove(r)
    <2>1. UNCHANGED <<nextCode, nextCert, lines>> /\ wire' = wire \ {m}
      BY <1>1 DEF Heartbeat, mintVars, Handle
    <2>2. UNCHANGED nebula /\ \A u \in {mem', disk'} : GoodNext(u, r)
      BY <1>2, <1>4, SaveGood
    <2> QED
      BY <1>0, <2>1, <2>2 DEF ServerMove, HasSwitched, FirstIsSilent, TypeOK
  <1> QED
    BY <1>0, <1>5, MoveKeeps DEF Handle, HandleHeartbeat

\* The server hands out an enrollment hash for the repair.
LEMMA HashGood ==
    ASSUME RepairShape, RepairShape', NEW r \in Repairs \cup {None}, Lone(r),
           RepairSafe(r), NEW m \in wire, m.op = "rekey", Handle(m)
    PROVE  RepairSafe(r)'
  <1>0. /\ TypeOK /\ TypeOK' /\ ClientShape /\ mem \in ServerState
        /\ m.tok = 1 /\ m.val = 1 /\ Gift(r) = 0
        /\ m.job = r /\ r \in Repairs /\ replies = {}
        /\ nextCode \in Nat /\ nextCert \in Nat
    BY LoneFacts DEF RepairShape, TypeOK, RepairSafe, WireSafe
  <1>1. PICK out : /\ RequestRekey(Device, 1, 1, out)
                   /\ Reply(m, out = "ok", nextCode)
    BY <1>0 DEF Handle, HandleRekey
  <1> DEFINE n == [mem EXCEPT !.peers[Device].fp = 1]
             e == [id |-> nextCode, rekey |-> TRUE, name |-> Device,
                   key |-> None, addr |-> mem.peers[Device].addr]
             t == IssueCode(PurgeExpiredRekeys(n), e)
  <1>2. /\ Registered(mem, Device) /\ mem.peers[Device].tok = 1
        /\ Save(t, out) /\ nextCode' = nextCode + 1
        /\ UNCHANGED <<nextCert, lines, clientVars>> /\ wire' = wire \ {m}
    BY <1>1 DEF RequestRekey, Authorized, Handle
  <1>3. Original(mem)
    BY <1>0, <1>2 DEF RepairSafe, ServerSafe, RegistrySafe, Renewed
  <1>4. n.peers = mem.peers /\ n.rev = mem.rev /\ n.pending = mem.pending
        /\ n.codes = mem.codes /\ n \in ServerState
    <2>1. 1 \in CertOrNone
      BY JobFacts, CertFacts
    <2>2. n \in ServerState
      BY <1>0, <2>1, ReportType, JobFacts
    <2>3. n.peers = mem.peers
      BY <1>0, <1>3, JobFacts DEF Original, ServerState, PeerRecord
    <2> QED
      BY <1>0, <2>2, <2>3 DEF ServerState
  <1> HIDE DEF n
  <1>5. /\ t.peers = mem.peers /\ t.rev = mem.rev
        /\ t.pending \subseteq mem.pending /\ t.codes = mem.codes \cup {e}
    BY <1>4 DEF IssueCode, PurgeExpiredRekeys, ServerState
  <1>6. e.id = nextCode /\ e.rekey
    OBVIOUS
  <1> HIDE DEF t, e
  <1>7. GoodNext(t, r)
    <2>1. CodesFrom(t)
      BY <1>2, <1>5, <1>6 DEF CodesFrom
    <2> QED
      BY <1>5, <2>1, DeviceKept
  <1>8. UNCHANGED nebula /\ \A u \in {mem', disk'} : GoodNext(u, r)
    BY <1>2, <1>7, SaveGood
  <1>9. ServerMove(r)
    BY <1>0, <1>2, <1>8 DEF ServerMove, HasSwitched, FirstIsSilent
  <1>10. ReplySafe(r)'
    <2> SUFFICES ASSUME NEW a \in replies'
                 PROVE  Pc(r)' = "rekey" /\ RekeyCode(a.val)'
      BY DEF ReplySafe
    <2>1. job[r].pc = "rekey" /\ a.val = nextCode
      BY <1>0, <1>1 DEF Reply
    <2>2. Pc(r)' = "rekey"
      BY <1>0, <1>2, <2>1 DEF Pc, clientVars
    <2>3. ASSUME NEW s \in {mem', disk'}, NEW f \in s.codes, f.id = nextCode
          PROVE  f.rekey
      <3>1. s = t \/ s = disk
        BY <1>2 DEF Save
      <3>2. \A u \in {mem, disk} : \A g \in u.codes :
               g.id < nextCode /\ g.id \in Nat
        BY <1>0 DEF RepairSafe, ServerSafe, TypeOK, ServerState,
                    EnrollmentRecord
      <3>3. f = e
        BY <1>0, <1>5, <2>3, <3>1, <3>2
      <3> QED
        BY <1>6, <3>3
    <2> QED
      BY <1>0, <1>2, <2>1, <2>2, <2>3 DEF RekeyCode
  <1> QED
    BY <1>0, <1>2, <1>9, <1>10, MoveKeeps

\* The server binds the new key to the hash and stages the identity.
LEMMA KeyGood ==
    ASSUME RepairShape, RepairShape', NEW r \in Repairs \cup {None}, Lone(r),
           RepairSafe(r), NEW m \in wire, m.op = "pair", Handle(m)
    PROVE  RepairSafe(r)'
  <1>0. /\ TypeOK /\ TypeOK' /\ ClientShape /\ mem \in ServerState
        /\ m.key = r /\ RekeyCode(m.val) /\ Gift(r) = 0
        /\ m.job = r /\ r \in Repairs /\ replies = {} /\ r \in Keys
        /\ nextCode \in Nat /\ nextCert \in Nat /\ nextCert >= 2
    BY LoneFacts, JobFacts
    DEF RepairShape, TypeOK, RepairSafe, WireSafe, ServerSafe
  <1>1. PICK out : /\ \/ PairNew(m.val, Device, r, out)
                      \/ PairRekey(m.val, Device, r, out)
                   /\ Reply(m, out = "ok" /\ Issued(nextCert), nextCert)
    BY <1>0 DEF Handle, HandlePair
  <1>2. PairRekey(m.val, Device, r, out)
    BY <1>0, <1>1 DEF PairNew, Live, RekeyCode
  <1>3. PICK e \in mem.codes :
          LET peer == mem.peers[Device]
              bound == Bind(mem, e, Device, r)
              staged == [name |-> Device, addr |-> peer.addr, old |-> peer.fp,
                         key |-> r, new |-> nextCert]
          IN  \/ mem' = bound /\ UNCHANGED <<disk, conf, nebula, up>>
              \/ /\ Registered(mem, Device)
                 /\ Save([bound EXCEPT !.pending = @ \cup {staged}], out)
    BY <1>2 DEF PairRekey, Live
  <1> DEFINE peer == mem.peers[Device]
             b == Bind(mem, e, Device, r)
             g == [e EXCEPT !.name = Device, !.key = r]
             p == [name |-> Device, addr |-> peer.addr, old |-> peer.fp,
                   key |-> r, new |-> nextCert]
             t == [b EXCEPT !.pending = @ \cup {p}]
  <1>4. /\ nextCert' = nextCert + 1 /\ UNCHANGED <<nextCode, lines, clientVars>>
        /\ wire' = wire \ {m}
    BY <1>2 DEF PairRekey, Handle
  <1>5. b \in ServerState
    BY <1>0, BindType, JobFacts
  <1>6. g.id = e.id /\ g.rekey = e.rekey
    BY <1>0 DEF ServerState, EnrollmentRecord
  <1>7. p.old = mem.peers[Device].fp /\ p.key = r
    OBVIOUS
  <1> HIDE DEF g, p
  <1>8. /\ b.peers = mem.peers /\ b.rev = mem.rev /\ b.pending = mem.pending
        /\ b.codes = (mem.codes \ {e}) \cup {g}
    BY <1>0 DEF Bind, ServerState, g
  <1> HIDE DEF b
  <1>9. /\ t.peers = b.peers /\ t.rev = b.rev /\ t.pending = b.pending \cup {p}
        /\ t.codes = b.codes
    BY <1>5 DEF ServerState
  <1> HIDE DEF t
  <1>10. CodesFrom(b) /\ CodesFrom(t)
    BY <1>6, <1>8, <1>9 DEF CodesFrom
  <1>11. GoodNext(b, r)
    BY <1>8, <1>10, DeviceKept
  <1>12. Registered(mem, Device) => GoodNext(t, r)
    <2> SUFFICES ASSUME Registered(mem, Device) PROVE GoodNext(t, r)
      OBVIOUS
    <2>1. p.old = 1
      BY <1>0, <1>7
      DEF RepairSafe, ServerSafe, RegistrySafe, Renewed, Original
    <2> QED
      BY <1>7, <1>8, <1>9, <1>10, <2>1, DeviceKept
  <1>13. UNCHANGED nebula /\ \A u \in {mem', disk'} : GoodNext(u, r)
    <2>1. \/ mem' = b /\ UNCHANGED <<disk, conf, nebula, up>>
          \/ Registered(mem, Device) /\ Save(t, out)
      BY <1>3 DEF b, t, p
    <2>2. GoodNext(disk, r)
      BY OldGood
    <2> QED
      BY <1>11, <1>12, <2>1, <2>2, SaveGood
  <1>14. ServerMove(r)
    BY <1>0, <1>4, <1>13 DEF ServerMove, HasSwitched, FirstIsSilent
  <1>15. ReplySafe(r)'
    <2> SUFFICES ASSUME NEW a \in replies'
                 PROVE  Pc(r)' = "pair" /\ a.val # 1
      BY DEF ReplySafe
    <2>1. job[r].pc = "pair" /\ a.val = nextCert
      BY <1>0, <1>1 DEF Reply
    <2> QED
      BY <1>0, <1>4, <2>1 DEF Pc, clientVars
  <1> QED
    BY <1>0, <1>4, <1>14, <1>15, MoveKeeps

\* Committing the identity that r was given revokes the first certificate.
LEMMA CommitGood ==
    ASSUME RepairShape, RepairShape', NEW r \in Repairs \cup {None}, Lone(r),
           RepairSafe(r), NEW m \in wire, m.op = "commit", Handle(m)
    PROVE  RepairSafe(r)'
  <1>0. /\ TypeOK /\ TypeOK' /\ ClientShape /\ mem \in ServerState
        /\ m.tok = Gift(r) /\ Gift(r) # 0 /\ Gift(r) # 1
        /\ m.job = r /\ r \in Repairs /\ replies = {}
        /\ nextCode \in Nat /\ nextCert \in Nat /\ Device \in Names
        /\ 1 \in CertOrNone
    BY LoneFacts, JobFacts, CertFacts
    DEF RepairShape, TypeOK, RepairSafe, WireSafe, ClientSafe
  <1>1. PICK out : /\ Restarts(out)
                   /\ CommitRekey(Device, Gift(r), out)
                   /\ Reply(m, out = "ok", Gift(r))
    BY <1>0 DEF Handle, HandleCommit
  <1>2. PICK p \in mem.pending : /\ p.new = Gift(r)
                                 /\ Registered(mem, Device)
                                 /\ mem.peers[Device].addr = p.addr
                                 /\ Publish(Commit(mem, Device, p), out)
    BY <1>1 DEF CommitRekey
  <1>3. /\ UNCHANGED <<nextCode, nextCert, lines, clientVars>>
        /\ wire' = wire \ {m}
    BY <1>1 DEF CommitRekey, Handle, mintVars
  <1> DEFINE peer == [key |-> p.key, addr |-> p.addr, fp |-> p.new,
                      tok |-> p.new]
             v == AddRevocation(mem, p.old)
             u == SetPeer(v, Device, peer)
             t == Commit(mem, Device, p)
  <1>4. /\ p.old = 1 /\ p.key = r /\ p.addr # 0
        /\ p \in PendingRekeyRecord
    BY <1>0, <1>2
    DEF RepairSafe, ServerSafe, RegistrySafe, Registered, ServerState
  <1>5. peer \in PeerRecord /\ peer.tok = Gift(r) /\ peer.fp = Gift(r)
        /\ peer.key = r /\ peer.addr # 0
    BY <1>2, <1>4, CertFacts DEF PendingRekeyRecord, PeerRecord
  <1>6. v \in ServerState /\ 1 \in v.rev /\ v.pending = mem.pending
        /\ v.codes = mem.codes
    <2>1. v \in ServerState
      BY <1>0, <1>4, AddRevocationType
    <2> QED
      BY <1>0, <1>4, <2>1 DEF AddRevocation, ServerState
  <1> HIDE DEF peer, v
  <1>7. u \in ServerState /\ u.peers[Device] = peer /\ u.rev = v.rev
        /\ u.pending = v.pending /\ u.codes = v.codes
    <2>1. u \in ServerState
      BY <1>0, <1>5, <1>6, SetPeerType
    <2> QED
      BY <1>0, <1>6, <2>1 DEF SetPeer, ServerState
  <1> HIDE DEF u
  <1>8. /\ t.peers[Device] = peer /\ 1 \in t.rev
        /\ t.pending \subseteq mem.pending /\ t.codes \subseteq mem.codes
    <2>1. t = [u EXCEPT !.pending = @ \ {p},
                        !.codes = {e \in @ : ~(e.rekey /\ e.name = Device)}]
      BY DEF Commit, t, u, v, peer
    <2> HIDE DEF t
    <2> QED
      BY <1>6, <1>7, <2>1 DEF ServerState
  <1> HIDE DEF t
  <1>9. Renewed(t, r, Gift(r)) /\ t.peers[Device].fp = Gift(r)
        /\ Registered(t, Device)
    BY <1>0, <1>5, <1>8 DEF Renewed, Registered
  <1>10. Switched(t, r, Gift(r))
    BY <1>8, <1>9 DEF Switched
  <1>11. GoodNext(t, r)
    <2>1. CodesFrom(t)
      BY <1>8 DEF CodesFrom
    <2>2. \A q \in t.pending : q.old = 1 /\ q.key = r
      BY <1>8 DEF RepairSafe, ServerSafe, RegistrySafe
    <2> QED
      BY <1>9, <1>10, <2>1, <2>2 DEF GoodNext, RegistrySafe
  <1>12. Publish(t, out)
    BY <1>2 DEF t
  <1>13. ServerMove(r)
    BY <1>0, <1>3, <1>11, <1>12, PublishGood DEF ServerMove
  <1>14. ReplySafe(r)'
    <2> SUFFICES ASSUME NEW a \in replies'
                 PROVE  Pc(r)' = "commit" /\ HasSwitched(r)'
      BY DEF ReplySafe
    <2>1. job[r].pc = "commit" /\ out = "ok"
      BY <1>0, <1>1, <1>3 DEF Reply, Handle
    <2>2. Pc(r)' = "commit" /\ Gift(r)' = Gift(r)
      BY <1>0, <1>3, <2>1 DEF Pc, Gift, clientVars
    <2>3. mem' = t /\ disk' = t /\ nebula' = Running(t.rev) /\ lines' = {}
      BY <1>1, <1>3, <1>12, <2>1 DEF Publish, Restarts
    <2> QED
      BY <1>8, <1>10, <2>2, <2>3 DEF HasSwitched, FirstIsSilent, Running
  <1> QED
    BY <1>0, <1>3, <1>13, <1>14, MoveKeeps

\* The administrator deletes the device.
LEMMA DeleteGood ==
    ASSUME RepairShape, RepairShape', NEW r, RepairSafe(r), Delete
    PROVE  RepairSafe(r)'
  <1>0. /\ TypeOK /\ TypeOK' /\ ClientShape /\ mem \in ServerState
        /\ nextCode \in Nat /\ nextCert \in Nat /\ Device \in Names
    BY JobFacts DEF RepairShape, TypeOK
  <1> DEFINE c == mem.peers[Device].fp
             v == AddRevocation(mem, c)
             t == RemovePeer(v, Device)
  <1>1. PICK out : DeletePeer(Device, out)
    BY DEF Delete
  <1>2. /\ Registered(mem, Device) /\ c # 0 /\ Publish(t, out)
        /\ UNCHANGED <<nextCode, nextCert, lines, clientVars, netVars>>
    BY <1>1 DEF DeletePeer, Delete, mintVars
  <1>3. c \in CertOrNone
    BY <1>0 DEF ServerState, PeerRecord
  <1>4. /\ v \in ServerState /\ v.rev = mem.rev \cup {c}
        /\ v.pending = mem.pending /\ v.codes = mem.codes
    <2>1. v \in ServerState
      BY <1>0, <1>3, AddRevocationType
    <2> QED
      BY <1>0, <1>2, <2>1 DEF AddRevocation, ServerState
  <1> HIDE DEF v
  <1>5. /\ t.rev = v.rev /\ t.pending = v.pending /\ t.codes \subseteq v.codes
        /\ t.peers[Device] = NoPeer
    BY <1>0, <1>4 DEF RemovePeer, SetPeer, ServerState
  <1> HIDE DEF t
  <1>6. ~Registered(t, Device)
    BY <1>5 DEF Registered, NoPeer
  <1>7. RegistrySafe(mem, r, Gift(r))
    BY DEF RepairSafe, ServerSafe
  <1>8. 1 \in t.rev /\ c \in t.rev
    BY <1>2, <1>4, <1>5, <1>7 DEF RegistrySafe, Original, Renewed
  <1>9. RegistrySafe(t, r, Gift(r))
    BY <1>4, <1>5, <1>6, <1>7, <1>8 DEF RegistrySafe
  <1>10. HasSwitched(r) => Switched(t, r, Gift(r))
    BY <1>2, <1>6, <1>8 DEF HasSwitched, Switched
  <1>11. GoodNext(t, r)
    BY <1>4, <1>5, <1>9, <1>10 DEF GoodNext, CodesFrom
  <1>12. ServerMove(r)
    BY <1>0, <1>2, <1>11, PublishGood DEF ServerMove, netVars
  <1> QED
    BY <1>0, <1>2, <1>12, MoveKeeps DEF netVars

\* A handshake line is read.
LEMMA LineGood ==
    ASSUME RepairShape, RepairShape', NEW r, RepairSafe(r),
           NEW c \in Certs, ReadLine(c)
    PROVE  RepairSafe(r)'
  <1>0. /\ TypeOK /\ TypeOK' /\ ClientShape /\ mem \in ServerState
        /\ nextCode \in Nat /\ nextCert \in Nat /\ c \in CertOrNone
    BY NextCertFacts, CertFacts DEF RepairShape, TypeOK
  <1>1. /\ c \in lines /\ lines' \subseteq lines
        /\ UNCHANGED <<clientVars, netVars>>
    BY DEF ReadLine
  <1>2. c \in {1, Gift(r)} /\ (HasSwitched(r) => c = Gift(r))
    BY <1>1 DEF RepairSafe, ClientSafe, HasSwitched, FirstIsSilent
  <1>3. ~HasSwitched(r) => c = 1
    BY <1>1 DEF RepairSafe, ClientSafe
  <1>4. CASE UNCHANGED registryVars
    <2>1. ServerMove(r)
      BY <1>0, <1>1, <1>4, OldGood
      DEF registryVars, vars, serverVars, mintVars, netVars, ServerMove,
          HasSwitched, FirstIsSilent
    <2> QED
      BY <1>0, <1>1, <2>1, MoveKeeps DEF netVars
  <1>5. CASE \E out : LogFingerprint(Device, c, out)
    <2> PICK out : LogFingerprint(Device, c, out)
      BY <1>5
    <2>1. /\ Registered(mem, Device)
          /\ Save([mem EXCEPT !.peers[Device].fp = c], out)
          /\ UNCHANGED <<nextCode, nextCert>>
      BY DEF LogFingerprint, mintVars
    <2>2. Original(mem) => c = 1
      BY <1>3, NotBoth DEF HasSwitched
    <2>3. GoodNext([mem EXCEPT !.peers[Device].fp = c], r)
      BY <1>0, <1>2, <2>1, <2>2, ReportGood
    <2>4. UNCHANGED nebula /\ \A u \in {mem', disk'} : GoodNext(u, r)
      BY <2>1, <2>3, SaveGood
    <2>5. ServerMove(r)
      BY <1>0, <1>1, <2>1, <2>4
      DEF ServerMove, HasSwitched, FirstIsSilent, netVars
    <2> QED
      BY <1>0, <1>1, <2>5, MoveKeeps DEF netVars
  <1> QED
    BY <1>4, <1>5 DEF ReadLine

\* What else the server and the world do.
LEMMA RestGood ==
    ASSUME RepairShape, RepairShape', NEW r, RepairSafe(r),
           \/ Enroll \/ ServerStops \/ ServerStarts \/ Handshake \/ World
           \/ UNCHANGED allVars
    PROVE  RepairSafe(r)'
  <1>0. /\ TypeOK /\ TypeOK' /\ ClientShape /\ mem \in ServerState
        /\ nextCode \in Nat /\ nextCert \in Nat /\ disk \in ServerState
    BY DEF RepairShape, TypeOK
  <1>1. UNCHANGED <<clientVars, netVars>>
    BY DEF Enroll, ServerStops, ServerStarts, Handshake, World, allVars
  <1>2. CASE Enroll
    <2> DEFINE e == [id |-> nextCode, rekey |-> FALSE, name |-> None,
                     key |-> None, addr |-> 0]
               t == IssueCode(mem, e)
    <2>1. PICK out : Save(t, out)
      BY <1>2 DEF Enroll, AdminEnroll
    <2>2. nextCode' = nextCode + 1 /\ UNCHANGED <<nextCert, lines>>
      BY <1>2 DEF Enroll, AdminEnroll
    <2>3. e.id = nextCode
      OBVIOUS
    <2> HIDE DEF e
    <2>4. /\ t.peers = mem.peers /\ t.rev = mem.rev /\ t.pending = mem.pending
          /\ t.codes = mem.codes \cup {e}
      BY <1>0 DEF IssueCode, ServerState
    <2> HIDE DEF t
    <2>5. CodesFrom(t)
      BY <2>2, <2>3, <2>4 DEF CodesFrom
    <2>6. GoodNext(t, r)
      BY <2>4, <2>5, DeviceKept
    <2>7. UNCHANGED nebula /\ \A u \in {mem', disk'} : GoodNext(u, r)
      BY <2>1, <2>6, SaveGood
    <2> QED
      BY <1>0, <1>1, <2>2, <2>7, MoveKeeps
      DEF ServerMove, HasSwitched, FirstIsSilent, netVars
  <1>3. CASE ServerStops
    <2>1. /\ mem' = disk /\ disk' = disk /\ nebula' = Stopped /\ lines' = {}
          /\ UNCHANGED <<nextCode, nextCert>>
      BY <1>3 DEF ServerStops, Crash, mintVars
    <2>2. FirstIsSilent'
      BY <2>1 DEF FirstIsSilent, Stopped
    <2> QED
      BY <1>0, <1>1, <2>1, <2>2, OldGood, MoveKeeps DEF ServerMove, netVars
  <1>4. CASE ServerStarts
    <2> DEFINE t == PurgeExpiredRekeys(disk)
    <2>1. /\ mem' = t /\ disk' = t /\ nebula' = Running(t.rev)
          /\ UNCHANGED <<nextCode, nextCert, lines>>
      BY <1>4 DEF ServerStarts, Serve, mintVars
    <2>2. /\ t.peers = disk.peers /\ t.rev = disk.rev /\ t.codes = disk.codes
          /\ t.pending \subseteq disk.pending
      BY <1>0 DEF PurgeExpiredRekeys, ServerState
    <2> HIDE DEF t
    <2>3. CodesFrom(t)
      BY <2>2 DEF CodesFrom
    <2>4. GoodNext(t, r)
      BY <2>2, <2>3, DeviceKept
    <2>5. HasSwitched(r) => FirstIsSilent'
      BY <2>1, <2>4 DEF GoodNext, Switched, HasSwitched, FirstIsSilent, Running
    <2> QED
      BY <1>0, <1>1, <2>1, <2>4, <2>5, MoveKeeps DEF ServerMove, netVars
  <1>5. CASE Handshake \/ World \/ UNCHANGED allVars
    <2>1. /\ UNCHANGED <<mem, disk, nextCode, nextCert>>
          /\ nebula' \in {nebula, Stopped}
      BY <1>5 DEF Handshake, World, ExpireRekey, NebulaExit, allVars,
                  registryVars, vars, serverVars, mintVars
    <2>2. \A l \in lines' : l \in lines \/ l = loaded
      BY <1>5 DEF Handshake, World, allVars
    <2>3. HasSwitched(r) => FirstIsSilent'
      BY <1>5, <2>1 DEF Handshake, World, allVars, HasSwitched, FirstIsSilent,
                        Stopped
    <2> QED
      BY <1>0, <1>1, <2>1, <2>2, <2>3, OldGood, MoveKeeps
      DEF ServerMove, netVars
  <1> QED
    BY <1>2, <1>3, <1>4, <1>5

\* Every step keeps the invariant of a lone repair.
LEMMA RepairInvStep ==
    RepairShape /\ RepairInv /\ [RepairNext]_allVars => RepairInv'
  <1> SUFFICES ASSUME RepairShape, RepairInv, [RepairNext]_allVars,
                      NEW r \in Repairs \cup {None}, Lone(r)'
               PROVE  RepairSafe(r)'
    BY DEF RepairInv
  <1>1. Lone(r)
    BY NeverIdleAgain, JobFacts DEF Lone, NoPairing
  <1>2. RepairSafe(r) /\ RepairShape'
    BY <1>1, NextShape DEF RepairInv
  <1>3. CASE ClientStep /\ UNCHANGED <<registryVars, lines>>
    BY <1>1, <1>2, <1>3, LoneClient
  <1>4. ASSUME NEW m \in wire, Handle(m) PROVE RepairSafe(r)'
    BY <1>1, <1>2, <1>4, BeatGood, HashGood, KeyGood, CommitGood DEF Handle
  <1>5. CASE Delete \/ (\E c \in Certs : ReadLine(c))
    BY <1>2, <1>5, DeleteGood, LineGood
  <1>6. CASE \/ Enroll \/ ServerStops \/ ServerStarts \/ Handshake \/ World
             \/ UNCHANGED allVars
    BY <1>2, <1>6, RestGood
  <1> QED
    BY <1>3, <1>4, <1>5, <1>6 DEF RepairNext, Server

\* The device is as it was paired when the model starts.
LEMMA RepairInvInit == RepairInit => RepairInv
  <1> SUFFICES ASSUME RepairInit, NEW r \in Repairs \cup {None}
               PROVE  RepairSafe(r)
    BY DEF RepairInv
  <1> DEFINE q == [pc |-> "idle", old |-> client, files |-> files, new |-> 0]
  <1>1. client = Identity(1) /\ files.cert = 1 /\ loaded = 1 /\ lines = {}
    BY DEF RepairInit, Identity
  <1>2. /\ q.pc = "idle" /\ q.old = client /\ q.files = files /\ q.new = 0
        /\ \A j \in Repairs : job[j] = q
    BY JobFacts DEF RepairInit
  <1> HIDE DEF q
  <1>3. Pc(r) = "idle" /\ Gift(r) = 0
    BY <1>2 DEF Pc, Gift
  <1>4. ClientSafe(r)
    BY <1>1, <1>2, <1>3 DEF ClientSafe, RepairInit, Nobody
  <1>5. ServerSafe(r)
    <2> DEFINE d == [key |-> Device, addr |-> 1, fp |-> 1, tok |-> 1]
    <2>1. Paired.peers[Device] = d /\ Paired.rev = {} /\ Paired.codes = {}
          /\ Paired.pending = {}
      BY JobFacts DEF Paired, EmptyState
    <2>2. RegistrySafe(Paired, r, Gift(r))
      BY <2>1 DEF RegistrySafe, Original, Registered
    <2> HIDE DEF d
    <2> QED
      BY <2>1, <2>2 DEF RepairInit, ServerSafe
  <1> QED
    BY <1>3, <1>4, <1>5 DEF RepairSafe, WireSafe, ReplySafe, RepairInit

\* Shape and invariant hold throughout.
LEMMA AlwaysRepairInv == RepairSpec => [](RepairShape /\ RepairInv)
  BY InitShape, NextShape, RepairInvInit, RepairInvStep, PTL DEF RepairSpec

\* The repair that was started, or none.
LEMMA SomeLone ==
    ASSUME OneRepair, NoPairing
    PROVE  \E r \in Repairs \cup {None} :
              /\ Lone(r)
              /\ \A q \in Repairs : job[q].pc # "idle" => q = r
  <1>1. CASE \E q \in Repairs : job[q].pc # "idle"
    BY <1>1 DEF OneRepair, Lone
  <1>2. CASE ~\E q \in Repairs : job[q].pc # "idle"
    BY <1>2 DEF Lone
  <1> QED
    BY <1>1, <1>2

\* A repair that was answered 200 has switched both sides, whatever writes
\* failed on the way and whenever the server crashed, as long as no second
\* repair or pairing was started.
THEOREM AnsweredRepairsSwitch ==
    RepairSpec => [](OneRepair => RepairSwitched)
  <1>1. RepairShape /\ RepairInv => (OneRepair => RepairSwitched)
    <2> SUFFICES ASSUME RepairInv, RepairShape, OneRepair, NoPairing,
                        NEW r \in Repairs, job[r].pc \in {"service", "done"}
                 PROVE  /\ files = [key |-> r, cert |-> job[r].new]
                        /\ client.tok = job[r].new
                        /\ job[r].old.fp \in mem.rev \cap disk.rev
                        /\ \A s \in {mem, disk} : Registered(s, Device) =>
                              /\ Authorized(s, Device, client.tok)
                              /\ s.peers[Device].key = r
                              /\ s.peers[Device].fp = files.cert
      BY DEF RepairSwitched
    <2>1. RepairSafe(r) /\ Pc(r) = job[r].pc /\ Gift(r) = job[r].new
      BY SomeLone DEF RepairInv, Pc, Gift
    <2>2. HasSwitched(r) /\ ClientSafe(r)
      BY <2>1 DEF RepairSafe
    <2>3. /\ files = [key |-> r, cert |-> job[r].new]
          /\ client = Identity(job[r].new) /\ job[r].new # 0
          /\ job[r].old = Identity(1)
      BY <2>1, <2>2 DEF ClientSafe
    <2>4. files.cert = job[r].new /\ client.tok = job[r].new
          /\ job[r].old.fp = 1
      BY <2>3 DEF Identity
    <2> QED
      BY <2>1, <2>2, <2>3, <2>4 DEF HasSwitched, Switched, Renewed, Authorized
  <1> QED
    BY <1>1, AlwaysRepairInv, PTL

\* A repair that failed before the server switched, and could save the old
\* state again, leaves the device an accepted token and a certificate that is
\* not revoked, whichever files were not put back.
THEOREM FailedRepairsHarmless ==
    RepairSpec => [](OneRepair => UncommittedRepairHarmless)
  <1>1. RepairShape /\ RepairInv => (OneRepair => UncommittedRepairHarmless)
    <2> SUFFICES ASSUME RepairInv, RepairShape, OneRepair, NoPairing,
                        NEW r \in Repairs, job[r].pc = "failed",
                        Registered(mem, Device),
                        mem.peers[Device].tok # job[r].new
                 PROVE  /\ Authorized(mem, Device, client.tok)
                        /\ files.cert \notin mem.rev
      BY DEF UncommittedRepairHarmless
    <2>1. RepairSafe(r) /\ Pc(r) = job[r].pc /\ Gift(r) = job[r].new
      BY SomeLone DEF RepairInv, Pc, Gift
    <2>2. client = Identity(1)
      BY <2>1 DEF RepairSafe, ClientSafe
    <2>3. Original(mem)
      BY <2>1 DEF RepairSafe, ServerSafe, RegistrySafe, Renewed
    <2> QED
      BY <2>2, <2>3 DEF Original, Authorized, Identity
  <1> QED
    BY <1>1, AlwaysRepairInv, PTL

\* The certificate a device goes on using after the administrator deleted it
\* is on the list, whatever its repair did.
THEOREM RepairedDevicesCutOff ==
    RepairSpec => [](OneRepair => RepairedDeviceCutOff)
  <1>1. RepairShape /\ RepairInv => (OneRepair => RepairedDeviceCutOff)
    <2> SUFFICES ASSUME RepairInv, RepairShape, OneRepair, NoPairing,
                        ~Registered(mem, Device),
                        \A q \in Repairs : job[q].pc \in {"idle", "done"}
                 PROVE  files.cert \in mem.rev
      BY DEF RepairedDeviceCutOff
    <2> PICK r \in Repairs \cup {None} : Lone(r)
      BY SomeLone
    <2>1. RepairSafe(r) /\ Pc(r) \in {"idle", "done"}
      BY DEF RepairInv, Pc
    <2>2. CASE Pc(r) = "idle"
      BY <2>1, <2>2 DEF RepairSafe, ClientSafe, ServerSafe, RegistrySafe
    <2>3. CASE Pc(r) = "done"
      <3>1. files = [key |-> r, cert |-> Gift(r)]
        BY <2>1, <2>3 DEF RepairSafe, ClientSafe
      <3>2. files.cert = Gift(r)
        BY <3>1
      <3> QED
        BY <2>1, <2>3, <3>2 DEF RepairSafe, HasSwitched, Switched
    <2> QED
      BY <2>1, <2>2, <2>3
  <1> QED
    BY <1>1, AlwaysRepairInv, PTL
=============================================================================
