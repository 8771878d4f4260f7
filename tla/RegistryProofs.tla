--------------------------- MODULE RegistryProofs ----------------------------
(***************************************************************************)
(* Proofs about Registry, for every set of devices and keys, every address *)
(* pool, every bound and every subset of the outcomes of a handler:        *)
(* types; the registry as a RevocationLedger, step by step; then tokens,   *)
(* addresses and rekey hashes by the inductive invariant IInv.             *)
(*                                                                         *)
(* In each part first the operations on a ServerState, then the two ways a *)
(* handler stores its result, then one step per action.                    *)
(***************************************************************************)
EXTENDS Registry, TLAPS

-----------------------------------------------------------------------------
(* The operations keep a ServerState well formed.                          *)

\* Certificate numbers, with and without the "none" of a device that has not
\* reported one.
LEMMA CertFacts ==
    /\ CertIds \subseteq Nat \ {0}
    /\ CertIds \subseteq CertOrNone
    /\ CertOrNone \subseteq Nat
    /\ 0 \in CertOrNone
    /\ \A c \in CertOrNone : c # 0 => c \in CertIds
  BY RegistryAssumption DEF CertIds, CertOrNone

\* A certificate that may still be signed has a number of its own.
LEMMA NextCertFacts ==
    ASSUME nextCert \in 1 .. MaxCerts + 1
    PROVE  /\ nextCert <= MaxCerts =>
                 nextCert \in CertIds /\ nextCert + 1 \in 1 .. MaxCerts + 1
           /\ Certs \subseteq CertIds
           /\ {0} \cup Certs \subseteq CertOrNone
  BY RegistryAssumption DEF CertIds, CertOrNone, Certs

\* A peer record written over another leaves a well-formed state.
LEMMA SetPeerType ==
    ASSUME NEW s \in ServerState, NEW n \in Names, NEW p \in PeerRecord
    PROVE  SetPeer(s, n, p) \in ServerState
  BY CertFacts DEF ServerState, PeerRecord, SetPeer

\* Revoking a fingerprint leaves a well-formed state.
LEMMA AddRevocationType ==
    ASSUME NEW s \in ServerState, NEW c \in CertOrNone
    PROVE  AddRevocation(s, c) \in ServerState
  <1>1. CASE c = 0 \/ c \in s.rev
    BY <1>1 DEF AddRevocation
  <1>2. CASE ~(c = 0 \/ c \in s.rev)
    <2>1. s.rev \cup {c} \in SUBSET CertIds /\ s.ver + 1 \in Nat
      BY <1>2, CertFacts DEF ServerState
    <2>2. [s EXCEPT !.rev = s.rev \cup {c}, !.ver = s.ver + 1] \in ServerState
      BY <2>1 DEF ServerState
    <2> QED
      BY <1>2, <2>2 DEF AddRevocation
  <1> QED
    BY <1>1, <1>2

\* Binding an enrollment hash leaves a well-formed state.
LEMMA BindType ==
    ASSUME NEW s \in ServerState, NEW e \in s.codes,
           NEW n \in Names, NEW k \in Keys
    PROVE  Bind(s, e, n, k) \in ServerState
  <1>1. [e EXCEPT !.name = n, !.key = k] \in EnrollmentRecord
    BY DEF ServerState, EnrollmentRecord
  <1> QED
    BY <1>1 DEF ServerState, Bind

\* Issuing a hash leaves a well-formed state.
LEMMA IssueCodeType ==
    ASSUME NEW s \in ServerState, NEW e \in EnrollmentRecord
    PROVE  IssueCode(s, e) \in ServerState
  BY DEF ServerState, IssueCode

\* Purging staged identities leaves a well-formed state.
LEMMA PurgeType ==
    ASSUME NEW s \in ServerState
    PROVE  PurgeExpiredRekeys(s) \in ServerState
  BY DEF ServerState, PurgeExpiredRekeys

\* The empty peer record is a peer record.
LEMMA NoPeerType == NoPeer \in PeerRecord
  BY CertFacts DEF NoPeer, PeerRecord

\* Removing a device leaves a well-formed state.
LEMMA RemovePeerType ==
    ASSUME NEW s \in ServerState, NEW n \in Names
    PROVE  RemovePeer(s, n) \in ServerState
  <1>1. SetPeer(s, n, NoPeer) \in ServerState
    BY SetPeerType, NoPeerType
  <1> QED
    BY <1>1 DEF ServerState, RemovePeer

\* Recording a reported fingerprint leaves a well-formed state.
LEMMA ReportType ==
    ASSUME NEW s \in ServerState, NEW n \in Names, NEW c \in CertOrNone
    PROVE  [s EXCEPT !.peers[n].fp = c] \in ServerState
  BY DEF ServerState, PeerRecord

-----------------------------------------------------------------------------
(* The ways a handler stores its result.                                   *)

\* The variables that Save and Publish write.
StoreOK == /\ mem \in ServerState
           /\ disk \in ServerState
           /\ conf \subseteq CertIds
           /\ nebula \in [running : BOOLEAN, list : SUBSET CertIds]
           /\ up \in BOOLEAN
           /\ ~up => mem = disk /\ nebula = Stopped

\* Saving a well-formed state keeps the store well formed.
LEMMA SaveType ==
    ASSUME StoreOK, up, NEW s \in ServerState, NEW out, Save(s, out)
    PROVE  StoreOK'
  BY DEF StoreOK, Save

\* So does publishing one.
LEMMA PublishType ==
    ASSUME StoreOK, up, NEW s \in ServerState, NEW out, Publish(s, out)
    PROVE  StoreOK'
  <1>1. s.rev \subseteq CertIds
    BY DEF ServerState
  <1>2. nebula' \in {Running(s.rev), nebula, Stopped}
    BY DEF Publish
  <1>3. nebula' \in [running : BOOLEAN, list : SUBSET CertIds]
    <2>1. Running(s.rev) \in [running : BOOLEAN, list : SUBSET CertIds]
      BY <1>1 DEF Running
    <2>2. Stopped \in [running : BOOLEAN, list : SUBSET CertIds]
      BY DEF Stopped
    <2> QED
      BY <1>2, <2>1, <2>2 DEF StoreOK
  <1>4. mem' \in ServerState /\ disk' \in ServerState /\ up'
    BY DEF StoreOK, Publish
  <1>5. conf' \subseteq CertIds
    BY <1>1 DEF StoreOK, Publish
  <1> QED
    BY <1>3, <1>4, <1>5 DEF StoreOK

-----------------------------------------------------------------------------
(* Type correctness.                                                       *)

\* Handlers of the administrator's enrollment hashes.
LEMMA AdminTypes ==
    ASSUME TypeOK, NEW id, NEW out,
           \/ AdminEnroll(out)
           \/ RevokeEnrollment(id, out)
    PROVE  TypeOK'
  <1> USE DEF TypeOK
  <1>0. StoreOK /\ mem \in ServerState /\ nextCode \in Nat
    BY DEF StoreOK
  <1>1. CASE AdminEnroll(out)
    <2>1. [id |-> nextCode, rekey |-> FALSE, name |-> None, key |-> None,
           addr |-> 0] \in EnrollmentRecord
      BY DEF EnrollmentRecord
    <2>2. StoreOK'
      BY <1>0, <1>1, <2>1, IssueCodeType, SaveType DEF AdminEnroll
    <2> QED
      BY <1>1, <2>2 DEF AdminEnroll, StoreOK, timeVars, historyVars
  <1>2. CASE RevokeEnrollment(id, out)
    <2>1. [mem EXCEPT !.codes = {e \in @ : e.id # id}] \in ServerState
      BY DEF ServerState
    <2>2. StoreOK'
      BY <1>0, <1>2, <2>1, SaveType DEF RevokeEnrollment
    <2> QED
      BY <1>2, <2>2
      DEF RevokeEnrollment, StoreOK, timeVars, mintVars, historyVars
  <1> QED
    BY <1>1, <1>2

\* POST /v1/pair.
LEMMA PairTypes ==
    ASSUME TypeOK, NEW n \in Names, NEW k \in Keys, NEW id, NEW out,
           \/ PairRefused(id, n, k)
           \/ PairNew(id, n, k, out)
           \/ PairRekey(id, n, k, out)
    PROVE  TypeOK'
  <1> USE DEF TypeOK
  <1>0. StoreOK /\ mem \in ServerState /\ nextCode \in Nat
    BY DEF StoreOK
  <1>1. CASE PairRefused(id, n, k)
    <2>1. mem' \in ServerState
      BY <1>0, <1>1, BindType DEF PairRefused, Live
    <2> QED
      BY <1>1, <2>1 DEF PairRefused, timeVars, mintVars, historyVars
  <1>2. CASE PairNew(id, n, k, out)
    <2> PICK e \in Live(mem, id), a \in 1 .. PoolSize :
          LET fp == IF out = "sign" THEN mem.peers[n].fp ELSE nextCert
              peer == [key |-> k, addr |-> a, fp |-> fp, tok |-> nextCert]
              s == SetPeer(Bind(mem, e, n, k), n, peer)
          IN  IF out = "sign"
              THEN mem' = s /\ UNCHANGED <<disk, conf, nebula, up>>
              ELSE Save(s, out)
      BY <1>2 DEF PairNew
    <2> DEFINE fp == IF out = "sign" THEN mem.peers[n].fp ELSE nextCert
               peer == [key |-> k, addr |-> a, fp |-> fp, tok |-> nextCert]
               s == SetPeer(Bind(mem, e, n, k), n, peer)
    <2>1. mem.peers[n].fp \in CertOrNone
      BY DEF ServerState, PeerRecord
    <2>0. nextCert \in CertIds /\ nextCert + 1 \in 1 .. MaxCerts + 1
      BY <1>2, NextCertFacts DEF PairNew
    <2>2. peer \in PeerRecord
      BY <2>0, <2>1, CertFacts, RegistryAssumption DEF PeerRecord
    <2>3. Bind(mem, e, n, k) \in ServerState
      BY BindType DEF Live
    <2>4. s \in ServerState
      BY <2>2, <2>3, SetPeerType
    <2>6. IF out = "sign"
          THEN mem' = s /\ UNCHANGED <<disk, conf, nebula, up>>
          ELSE Save(s, out)
      OBVIOUS
    <2>5. StoreOK'
      <3> HIDE DEF s
      <3>1. CASE out = "sign"
        BY <3>1, <2>4, <2>6, <1>0, <1>2 DEF StoreOK, PairNew
      <3>2. CASE out # "sign"
        BY <3>2, <2>4, <2>6, <1>0, <1>2, SaveType DEF PairNew
      <3> QED
        BY <3>1, <3>2
    <2> QED
      BY <1>2, <2>0, <2>5 DEF PairNew, StoreOK, timeVars, historyVars
  <1>3. CASE PairRekey(id, n, k, out)
    <2>1. PICK e \in Live(mem, id) :
            LET staged == [name |-> n, addr |-> mem.peers[n].addr,
                           old |-> mem.peers[n].fp, key |-> k,
                           new |-> nextCert]
            IN  \/ /\ mem' = Bind(mem, e, n, k)
                   /\ UNCHANGED <<disk, conf, nebula, up>>
                \/ Save([Bind(mem, e, n, k) EXCEPT
                           !.pending = @ \cup {staged}], out)
      BY <1>3 DEF PairRekey
    <2> DEFINE staged == [name |-> n, addr |-> mem.peers[n].addr,
                          old |-> mem.peers[n].fp, key |-> k,
                          new |-> nextCert]
               bound == Bind(mem, e, n, k)
               s == [bound EXCEPT !.pending = @ \cup {staged}]
    <2>2. bound \in ServerState
      BY BindType DEF Live
    <2>0. nextCert \in CertIds /\ nextCert + 1 \in 1 .. MaxCerts + 1
      BY <1>3, NextCertFacts DEF PairRekey
    <2>3. staged \in PendingRekeyRecord
      BY <2>0 DEF ServerState, PeerRecord, PendingRekeyRecord
    <2>4. s \in ServerState
      <3> HIDE DEF bound, staged
      <3> QED
        BY <2>2, <2>3 DEF ServerState
    <2>5. \/ mem' = bound /\ UNCHANGED <<disk, conf, nebula, up>>
          \/ Save(s, out)
      BY <2>1
    <2>6. StoreOK'
      <3> HIDE DEF s, bound
      <3>1. CASE mem' = bound /\ UNCHANGED <<disk, conf, nebula, up>>
        BY <3>1, <2>2, <1>0, <1>3 DEF StoreOK, PairRekey
      <3>2. CASE Save(s, out)
        BY <3>2, <2>4, <1>0, <1>3, SaveType DEF PairRekey
      <3> QED
        BY <3>1, <3>2, <2>5
    <2> QED
      BY <1>3, <2>0, <2>6 DEF PairRekey, StoreOK, timeVars, historyVars
  <1> QED
    BY <1>1, <1>2, <1>3

\* Handlers about a device, and the Nebula log.
LEMMA DeviceTypes ==
    ASSUME TypeOK, NEW n \in Names, NEW c \in CertOrNone, NEW t, NEW out,
           \/ RequestRekey(n, t, c, out)
           \/ CommitRekey(n, t, out)
           \/ DeletePeer(n, out)
           \/ Heartbeat(n, t, c, out)
           \/ LogFingerprint(n, c, out)
    PROVE  TypeOK'
  <1> USE DEF TypeOK
  <1>0. StoreOK /\ mem \in ServerState /\ nextCode \in Nat
    BY DEF StoreOK
  <1>1. CASE RequestRekey(n, t, c, out)
    <2> DEFINE fp == IF c = 0 THEN mem.peers[n].fp ELSE c
               reported == [mem EXCEPT !.peers[n].fp = fp]
               seen == PurgeExpiredRekeys(reported)
               e == [id |-> nextCode, rekey |-> TRUE, name |-> n,
                     key |-> None, addr |-> mem.peers[n].addr]
    <2>1. fp \in CertOrNone /\ mem.peers[n].addr \in Nat
      BY DEF ServerState, PeerRecord
    <2>2. seen \in ServerState
      BY <2>1, ReportType, PurgeType
    <2>3. e \in EnrollmentRecord
      BY <2>1 DEF EnrollmentRecord
    <2>4. Save(IssueCode(seen, e), out)
      BY <1>1 DEF RequestRekey
    <2>5. StoreOK'
      <3> HIDE DEF seen, e
      <3> QED
        BY <1>0, <1>1, <2>2, <2>3, <2>4, IssueCodeType, SaveType
        DEF RequestRekey
    <2> QED
      BY <1>1, <2>5 DEF RequestRekey, StoreOK, timeVars, historyVars
  <1>2. CASE CommitRekey(n, t, out)
    <2>1. PICK p \in mem.pending :
            LET peer == [key |-> p.key, addr |-> p.addr, fp |-> p.new,
                         tok |-> p.new]
                s == [SetPeer(AddRevocation(mem, p.old), n, peer) EXCEPT
                        !.pending = @ \ {p},
                        !.codes = {e \in @ : ~(e.rekey /\ e.name = n)}]
            IN  /\ Publish(s, out)
                /\ acked' = IF out = "ok" /\ p.old # 0
                            THEN acked \cup {p.old} ELSE acked
                /\ sent' = IF out = "ok" THEN sent \cup {Envelope(s)} ELSE sent
      BY <1>2 DEF CommitRekey, Commit
    <2> DEFINE peer == [key |-> p.key, addr |-> p.addr, fp |-> p.new,
                        tok |-> p.new]
               r == SetPeer(AddRevocation(mem, p.old), n, peer)
               s == [r EXCEPT
                       !.pending = @ \ {p},
                       !.codes = {e \in @ : ~(e.rekey /\ e.name = n)}]
    <2>2. p \in PendingRekeyRecord
      BY DEF ServerState
    <2>3. peer \in PeerRecord /\ p.old \in CertOrNone
      BY <2>2, CertFacts DEF PendingRekeyRecord, PeerRecord
    <2>4. r \in ServerState
      BY <2>3, AddRevocationType, SetPeerType
    <2>5. s \in ServerState
      <3> HIDE DEF r
      <3> QED
        BY <2>4 DEF ServerState
    <2>6. /\ Publish(s, out)
          /\ acked' = IF out = "ok" /\ p.old # 0
                      THEN acked \cup {p.old} ELSE acked
          /\ sent' = IF out = "ok" THEN sent \cup {Envelope(s)} ELSE sent
      BY <2>1
    <2> HIDE DEF s
    <2>7. StoreOK'
      BY <1>0, <1>2, <2>5, <2>6, PublishType DEF CommitRekey
    <2>8. Envelope(s) \in [ver : Nat, list : SUBSET CertIds]
      BY <2>5 DEF ServerState, Envelope
    <2>9. /\ acked' \subseteq CertIds
          /\ sent' \subseteq [ver : Nat, list : SUBSET CertIds]
      BY <2>3, <2>6, <2>8, CertFacts
    <2> QED
      BY <1>2, <2>7, <2>9 DEF CommitRekey, StoreOK, timeVars, mintVars
  <1>3. CASE DeletePeer(n, out)
    <2>1. mem.peers[n].fp \in CertOrNone
      BY DEF ServerState, PeerRecord
    <2>2. RemovePeer(AddRevocation(mem, mem.peers[n].fp), n) \in ServerState
      BY <2>1, AddRevocationType, RemovePeerType
    <2>3. StoreOK'
      BY <1>0, <1>3, <2>2, PublishType DEF DeletePeer
    <2> QED
      BY <1>3, <2>1, <2>3, CertFacts DEF DeletePeer, StoreOK, timeVars, mintVars
  <1>4. CASE Heartbeat(n, t, c, out)
    <2> DEFINE fp == IF c = 0 THEN mem.peers[n].fp ELSE c
    <2>1. fp \in CertOrNone
      BY DEF ServerState, PeerRecord
    <2>2. [mem EXCEPT !.peers[n].fp = fp] \in ServerState
      BY <2>1, ReportType
    <2>3. StoreOK'
      BY <1>0, <1>4, <2>2, SaveType DEF Heartbeat
    <2>4. Envelope(mem) \in [ver : Nat, list : SUBSET CertIds]
      BY DEF ServerState, Envelope
    <2> QED
      BY <1>4, <2>3, <2>4 DEF Heartbeat, StoreOK, timeVars, mintVars
  <1>5. CASE LogFingerprint(n, c, out)
    <2>1. StoreOK'
      BY <1>0, <1>5, ReportType, SaveType DEF LogFingerprint
    <2> QED
      BY <1>5, <2>1 DEF LogFingerprint, StoreOK, timeVars, mintVars,
                         historyVars
  <1> QED
    BY <1>1, <1>2, <1>3, <1>4, <1>5

\* Clocks, the end of Nebula or of the server, and its start.
LEMMA WorldTypes ==
    ASSUME TypeOK,
           \/ \E id \in Nat : ExpireCode(id)
           \/ \E c \in CertIds : ExpireRekey(c)
           \/ NebulaExit \/ Crash \/ Serve \/ UNCHANGED vars
    PROVE  TypeOK'
  <1> USE DEF TypeOK
  <1>1. CASE \E id \in Nat : ExpireCode(id)
    BY <1>1 DEF ExpireCode, serverVars, mintVars, historyVars
  <1>2. CASE \E c \in CertIds : ExpireRekey(c)
    BY <1>2 DEF ExpireRekey, serverVars, mintVars, historyVars
  <1>3. CASE NebulaExit
    <2>1. nebula' \in [running : BOOLEAN, list : SUBSET CertIds]
      BY <1>3 DEF NebulaExit, Stopped
    <2> QED
      BY <1>3, <2>1 DEF NebulaExit, timeVars, mintVars, historyVars
  <1>4. CASE Crash
    <2>1. nebula' \in [running : BOOLEAN, list : SUBSET CertIds]
      BY <1>4 DEF Crash, Stopped
    <2>2. forgot' \in BOOLEAN
      BY <1>4 DEF Crash
    <2> QED
      BY <1>4, <2>1, <2>2 DEF Crash, timeVars, mintVars
  <1>5. CASE Serve
    <2>1. mem' \in ServerState
      BY <1>5, PurgeType DEF Serve
    <2>2. mem'.rev \in SUBSET CertIds
      BY <2>1 DEF ServerState
    <2>3. nebula' \in [running : BOOLEAN, list : SUBSET CertIds]
      BY <1>5, <2>2 DEF Serve, Running
    <2> QED
      BY <1>5, <2>1, <2>2, <2>3 DEF Serve, timeVars, mintVars, historyVars
  <1>6. CASE UNCHANGED vars
    BY <1>6 DEF vars, serverVars, timeVars, mintVars, historyVars
  <1> QED
    BY <1>1, <1>2, <1>3, <1>4, <1>5, <1>6

\* Every state of the registry is well formed.
THEOREM TypeCorrect == Spec => []TypeOK
  <1>1. Init => TypeOK
    <2> SUFFICES ASSUME Init PROVE TypeOK
      OBVIOUS
    <2>1. EmptyState \in ServerState
      BY NoPeerType DEF EmptyState, ServerState
    <2> QED
      <3>1. nebula \in [running : BOOLEAN, list : SUBSET CertIds]
        BY DEF Init, Stopped
      <3>2. mem \in ServerState /\ disk \in ServerState
        BY <2>1 DEF Init
      <3>3. /\ conf \subseteq CertIds
            /\ up \in BOOLEAN
            /\ deadCodes \subseteq Nat
            /\ deadRekeys \subseteq CertIds
            /\ acked \subseteq CertIds
            /\ forgot \in BOOLEAN
        BY DEF Init
      <3>4. nextCode \in Nat \ {0} /\ nextCert \in 1 .. MaxCerts + 1
        BY RegistryAssumption DEF Init
      <3>5. sent \subseteq [ver : Nat, list : SUBSET CertIds]
        BY DEF Init
      <3>6. ~up => mem = disk /\ nebula = Stopped
        BY DEF Init
      <3> QED
        BY <3>1, <3>2, <3>3, <3>4, <3>5, <3>6 DEF TypeOK
  <1>2. TypeOK /\ [Next]_vars => TypeOK'
    <2> SUFFICES ASSUME TypeOK, [Next]_vars PROVE TypeOK'
      OBVIOUS
    <2>1. /\ Codes \subseteq Nat
          /\ Certs \subseteq CertIds
          /\ {0} \cup Certs \subseteq CertOrNone
      BY NextCertFacts DEF Codes, TypeOK
    <2>2. Certs \subseteq CertOrNone
      BY <2>1
    <2> QED
      BY <2>1, <2>2, AdminTypes, PairTypes, DeviceTypes, WorldTypes DEF Next
  <1> QED
    BY <1>1, <1>2, PTL DEF Spec

-----------------------------------------------------------------------------
(* What the operations of the registry do to the revocation list.          *)

\* Operations that leave the revocation list alone.
LEMMA KeepsList ==
    ASSUME NEW s \in ServerState
    PROVE  /\ \A e, n, k : Envelope(Bind(s, e, n, k)) = Envelope(s)
           /\ \A e : Envelope(IssueCode(s, e)) = Envelope(s)
           /\ \A n, p : Envelope(SetPeer(s, n, p)) = Envelope(s)
           /\ \A n, c : Envelope([s EXCEPT !.peers[n].fp = c]) = Envelope(s)
           /\ \A S : Envelope([s EXCEPT !.pending = S]) = Envelope(s)
           /\ \A S : Envelope([s EXCEPT !.codes = S]) = Envelope(s)
           /\ Envelope(PurgeExpiredRekeys(s)) = Envelope(s)
  BY DEF ServerState, Envelope, Bind, IssueCode, SetPeer, PurgeExpiredRekeys

\* addCertificateRevocation is the ledger's Add.
LEMMA AddsToList ==
    ASSUME NEW s \in ServerState, NEW c \in CertOrNone
    PROVE  Envelope(AddRevocation(s, c)) = Ledger!Add(Envelope(s), c)
  <1>1. CASE c = 0 \/ c \in s.rev
    BY <1>1 DEF AddRevocation, Envelope, Ledger!Add
  <1>2. CASE ~(c = 0 \/ c \in s.rev)
    BY <1>2 DEF AddRevocation, Envelope, Ledger!Add, ServerState
  <1> QED
    BY <1>1, <1>2

-----------------------------------------------------------------------------
(* The ways a handler stores its result, seen from the ledger.             *)

\* A handler that saves a state with the same list is the ledger's Work.
LEMMA SaveIsWork ==
    ASSUME up, NEW s, NEW out \in SaveOutcomes, Save(s, out),
           Envelope(s) = Envelope(mem),
           acked' = acked, forgot' = forgot,
           sent' \in {sent, sent \cup {Envelope(mem)}}
    PROVE  Ledger!Next
  <1>1. \/ Ledger!Work(out, TRUE)
        \/ Ledger!Work(out, FALSE)
    BY DEF Save, Ledger!Work, Envelope
  <1>2. out \in Outcomes
    BY DEF SaveOutcomes
  <1> QED
    BY <1>1, <1>2 DEF Ledger!Next

\* A handler that publishes a state whose list has one more fingerprint is
\* the ledger's Revoke.
LEMMA PublishIsRevoke ==
    ASSUME up, NEW s, NEW out \in PublishOutcomes, Publish(s, out),
           NEW c \in CertOrNone, NEW signs \in BOOLEAN,
           Envelope(s) = Ledger!Add(Envelope(mem), c),
           acked' = IF out = "ok" /\ c # 0 THEN acked \cup {c} ELSE acked,
           sent' = IF out = "ok" /\ signs THEN sent \cup {Envelope(s)}
                                          ELSE sent,
           forgot' = forgot
    PROVE  Ledger!Next
  <1>1. Envelope(mem)' = Envelope(s) /\ Envelope(s).list = s.rev
    BY DEF Publish, Envelope
  <1>2. Ledger!Revoke(c, out, signs)
    BY <1>1 DEF Publish, Ledger!Revoke, Envelope, Running, Stopped,
                Ledger!Running, Ledger!Stopped
  <1>3. out \in Outcomes /\ c \in CertIds \cup {0}
    BY DEF PublishOutcomes, CertOrNone
  <1> QED
    BY <1>2, <1>3 DEF Ledger!Next

-----------------------------------------------------------------------------

\* Every step of the registry is a step of the ledger or leaves its variables
\* alone.
LEMMA StepIsLedgerStep ==
    TypeOK /\ [Next]_vars => [Ledger!Next]_Ledger!vars
  <1> SUFFICES ASSUME TypeOK, [Next]_vars
               PROVE  Ledger!Next \/ UNCHANGED Ledger!vars
    OBVIOUS
  <1>0. mem \in ServerState /\ disk \in ServerState
    BY DEF TypeOK
  <1> DEFINE Goal == Ledger!Next \/ UNCHANGED Ledger!vars
  <1>1. ASSUME NEW out \in SaveOutcomes, AdminEnroll(out) PROVE Goal
    BY <1>0, <1>1, KeepsList, SaveIsWork DEF AdminEnroll, historyVars
  <1>2. ASSUME NEW id, NEW out \in SaveOutcomes, RevokeEnrollment(id, out)
        PROVE  Goal
    <2>1. Save([mem EXCEPT !.codes = {e \in mem.codes : e.id # id}], out)
      BY <1>2 DEF RevokeEnrollment
    <2> QED
      BY <1>0, <1>2, <2>1, KeepsList, SaveIsWork
         DEF RevokeEnrollment, historyVars
  <1>3. ASSUME NEW id, NEW n \in Names, NEW k \in Keys, PairRefused(id, n, k)
        PROVE  Goal
    <2>1. Envelope(mem)' = Envelope(mem)
      BY <1>0, <1>3, KeepsList DEF PairRefused
    <2> QED
      BY <1>3, <2>1 DEF PairRefused, Ledger!vars, historyVars, Envelope
  <1>4. ASSUME NEW id, NEW n \in Names, NEW k \in Keys,
               NEW out \in SignOutcomes, PairNew(id, n, k, out)
        PROVE  Goal
    <2>0. PICK e \in Live(mem, id) : \E p :
            IF out = "sign"
            THEN /\ mem' = SetPeer(Bind(mem, e, n, k), n, p)
                 /\ UNCHANGED <<disk, conf, nebula, up>>
            ELSE Save(SetPeer(Bind(mem, e, n, k), n, p), out)
      BY <1>4 DEF PairNew
    <2>1. PICK p :
            IF out = "sign"
            THEN /\ mem' = SetPeer(Bind(mem, e, n, k), n, p)
                 /\ UNCHANGED <<disk, conf, nebula, up>>
            ELSE Save(SetPeer(Bind(mem, e, n, k), n, p), out)
      BY <2>0
    <2> DEFINE s == SetPeer(Bind(mem, e, n, k), n, p)
    <2>2. Envelope(s) = Envelope(mem)
      <3>1. Bind(mem, e, n, k) \in ServerState
        BY <1>0, BindType DEF Live
      <3> QED
        BY <1>0, <3>1, KeepsList
    <2>3. CASE out = "sign"
      <3>1. Envelope(mem)' = Envelope(mem)
        BY <2>1, <2>2, <2>3 DEF Envelope
      <3> QED
        BY <1>4, <2>1, <2>3, <3>1
           DEF PairNew, Ledger!vars, historyVars, Envelope
    <2>4. CASE out # "sign"
      <3>1. Save(s, out) /\ out \in SaveOutcomes
        BY <2>1, <2>4 DEF SignOutcomes
      <3> HIDE DEF s
      <3> QED
        BY <1>4, <2>2, <3>1, SaveIsWork DEF PairNew, historyVars
    <2> QED
      BY <2>3, <2>4
  <1>5. ASSUME NEW n \in Names, NEW t, NEW c \in CertOrNone,
               NEW out \in SaveOutcomes, RequestRekey(n, t, c, out)
        PROVE  Goal
    <2> DEFINE fp == IF c = 0 THEN mem.peers[n].fp ELSE c
               reported == [mem EXCEPT !.peers[n].fp = fp]
               seen == PurgeExpiredRekeys(reported)
    <2>1. PICK e : Save(IssueCode(seen, e), out)
      BY <1>5 DEF RequestRekey
    <2>2. fp \in CertOrNone
      BY <1>0 DEF ServerState, PeerRecord
    <2>3. reported \in ServerState /\ seen \in ServerState
      BY <1>0, <2>2, ReportType, PurgeType
    <2>4. Envelope(IssueCode(seen, e)) = Envelope(mem)
      <3>1. Envelope(reported) = Envelope(mem)
        BY <1>0, KeepsList
      <3>2. Envelope(seen) = Envelope(reported)
        BY <2>3, KeepsList
      <3>3. Envelope(IssueCode(seen, e)) = Envelope(seen)
        BY <2>3, KeepsList
      <3> QED
        BY <3>1, <3>2, <3>3
    <2> HIDE DEF seen
    <2> QED
      BY <1>5, <2>1, <2>4, SaveIsWork DEF RequestRekey, historyVars
  <1>6. ASSUME NEW id, NEW n \in Names, NEW k \in Keys,
               NEW out \in SignOutcomes, PairRekey(id, n, k, out)
        PROVE  Goal
    <2>0. PICK e \in Live(mem, id) : \E staged :
            \/ /\ mem' = Bind(mem, e, n, k)
               /\ UNCHANGED <<disk, conf, nebula, up>>
            \/ /\ Save([Bind(mem, e, n, k) EXCEPT
                          !.pending = @ \cup {staged}], out)
               /\ out # "sign"
      BY <1>6 DEF PairRekey
    <2>1. PICK staged :
            \/ /\ mem' = Bind(mem, e, n, k)
               /\ UNCHANGED <<disk, conf, nebula, up>>
            \/ /\ Save([Bind(mem, e, n, k) EXCEPT
                          !.pending = @ \cup {staged}], out)
               /\ out # "sign"
      BY <2>0
    <2> DEFINE bound == Bind(mem, e, n, k)
               s == [bound EXCEPT !.pending = bound.pending \cup {staged}]
    <2>2. bound \in ServerState /\ Envelope(bound) = Envelope(mem)
      BY <1>0, BindType, KeepsList DEF Live
    <2>3. Envelope(s) = Envelope(mem)
      <3> HIDE DEF bound
      <3> QED
        BY <2>2, KeepsList
    <2>4. CASE mem' = bound /\ UNCHANGED <<disk, conf, nebula, up>>
      <3>1. Envelope(mem)' = Envelope(mem)
        BY <2>2, <2>4 DEF Envelope
      <3> QED
        BY <1>6, <2>4, <3>1
           DEF PairRekey, Ledger!vars, historyVars, Envelope
    <2>5. CASE Save(s, out) /\ out # "sign"
      <3>1. out \in SaveOutcomes
        BY <2>5 DEF SignOutcomes
      <3> HIDE DEF s
      <3> QED
        BY <1>6, <2>3, <2>5, <3>1, SaveIsWork DEF PairRekey, historyVars
    <2> QED
      BY <2>1, <2>4, <2>5
  <1>7. ASSUME NEW n \in Names, NEW t, NEW out \in PublishOutcomes,
               CommitRekey(n, t, out)
        PROVE  Goal
    <2>1. PICK p \in mem.pending :
            LET peer == [key |-> p.key, addr |-> p.addr, fp |-> p.new,
                         tok |-> p.new]
                s == [SetPeer(AddRevocation(mem, p.old), n, peer) EXCEPT
                        !.pending = @ \ {p},
                        !.codes = {e \in @ : ~(e.rekey /\ e.name = n)}]
            IN  /\ Publish(s, out)
                /\ acked' = IF out = "ok" /\ p.old # 0
                            THEN acked \cup {p.old} ELSE acked
                /\ sent' = IF out = "ok" THEN sent \cup {Envelope(s)} ELSE sent
      BY <1>7 DEF CommitRekey, Commit
    <2> DEFINE peer == [key |-> p.key, addr |-> p.addr, fp |-> p.new,
                        tok |-> p.new]
               a == AddRevocation(mem, p.old)
               r == SetPeer(a, n, peer)
               s == [r EXCEPT
                       !.pending = @ \ {p},
                       !.codes = {e \in @ : ~(e.rekey /\ e.name = n)}]
    <2>2. p \in PendingRekeyRecord
      BY <1>0 DEF ServerState
    <2>3. peer \in PeerRecord /\ p.old \in CertOrNone
      BY <2>2, CertFacts DEF PendingRekeyRecord, PeerRecord
    <2>4. a \in ServerState /\ Envelope(a) = Ledger!Add(Envelope(mem), p.old)
      BY <1>0, <2>3, AddRevocationType, AddsToList
    <2>5. r \in ServerState /\ Envelope(r) = Envelope(a)
      <3> HIDE DEF a, peer
      <3> QED
        BY <2>3, <2>4, SetPeerType, KeepsList
    <2>6. Envelope(s) = Envelope(r)
      <3> HIDE DEF r
      <3> QED
        BY <2>5 DEF ServerState, Envelope
    <2>7. /\ Publish(s, out)
          /\ acked' = IF out = "ok" /\ p.old # 0
                      THEN acked \cup {p.old} ELSE acked
          /\ sent' = IF out = "ok" THEN sent \cup {Envelope(s)} ELSE sent
      BY <2>1
    <2> HIDE DEF s, r, a
    <2>8. up /\ forgot' = forgot
      BY <1>7 DEF CommitRekey, Commit
    <2>9. Envelope(s) = Ledger!Add(Envelope(mem), p.old)
      BY <2>4, <2>5, <2>6
    <2>10. sent' = IF out = "ok" /\ TRUE THEN sent \cup {Envelope(s)} ELSE sent
      BY <2>7
    <2> QED
      BY <2>3, <2>7, <2>8, <2>9, <2>10, PublishIsRevoke
  <1>8. ASSUME NEW n \in Names, NEW out \in PublishOutcomes, DeletePeer(n, out)
        PROVE  Goal
    <2> DEFINE c == mem.peers[n].fp
               a == AddRevocation(mem, c)
               s == RemovePeer(a, n)
    <2>1. c \in CertOrNone /\ c # 0
      BY <1>0, <1>8 DEF ServerState, PeerRecord, DeletePeer
    <2>2. a \in ServerState /\ Envelope(a) = Ledger!Add(Envelope(mem), c)
      BY <1>0, <2>1, AddRevocationType, AddsToList
    <2>3. Envelope(s) = Envelope(a)
      <3> HIDE DEF a
      <3>1. SetPeer(a, n, NoPeer) \in ServerState
        BY <2>2, NoPeerType, SetPeerType
      <3>2. Envelope(SetPeer(a, n, NoPeer)) = Envelope(a)
        BY <2>2, KeepsList
      <3> QED
        BY <3>1, <3>2 DEF RemovePeer, ServerState, Envelope
    <2>4. /\ Publish(s, out)
          /\ acked' = IF out = "ok" /\ c # 0 THEN acked \cup {c} ELSE acked
          /\ sent' = IF out = "ok" /\ FALSE
                     THEN sent \cup {Envelope(s)} ELSE sent
          /\ up
          /\ forgot' = forgot
      BY <1>8, <2>1 DEF DeletePeer
    <2> HIDE DEF s, a, c
    <2>5. Envelope(s) = Ledger!Add(Envelope(mem), c)
      BY <2>2, <2>3
    <2> QED
      BY <2>1, <2>4, <2>5, PublishIsRevoke
  <1>9. ASSUME NEW n \in Names, NEW t, NEW c \in CertOrNone,
               NEW out \in SaveOutcomes, Heartbeat(n, t, c, out)
        PROVE  Goal
    <2>1. PICK fp : Save([mem EXCEPT !.peers[n].fp = fp], out)
      BY <1>9 DEF Heartbeat
    <2>2. Envelope([mem EXCEPT !.peers[n].fp = fp]) = Envelope(mem)
      BY <1>0, KeepsList
    <2> QED
      BY <1>9, <2>1, <2>2, SaveIsWork DEF Heartbeat
  <1>10. ASSUME NEW n \in Names, NEW c, NEW out \in SaveOutcomes,
                LogFingerprint(n, c, out)
         PROVE  Goal
    BY <1>0, <1>10, KeepsList, SaveIsWork DEF LogFingerprint, historyVars
  <1>11. ASSUME NEW id, ExpireCode(id) PROVE Goal
    BY <1>11 DEF ExpireCode, serverVars, historyVars, Ledger!vars, Envelope
  <1>12. ASSUME NEW c, ExpireRekey(c) PROVE Goal
    BY <1>12 DEF ExpireRekey, serverVars, historyVars, Ledger!vars, Envelope
  <1>13. CASE NebulaExit
    <2>1. Ledger!NebulaExit
      BY <1>13 DEF NebulaExit, Ledger!NebulaExit, Stopped, Ledger!Stopped,
                   historyVars, Envelope
    <2> QED
      BY <2>1 DEF Ledger!Next
  <1>14. CASE Crash
    <2>1. Ledger!Crash
      BY <1>14 DEF Crash, Ledger!Crash, Stopped, Ledger!Stopped, Envelope
    <2> QED
      BY <2>1 DEF Ledger!Next
  <1>15. CASE Serve
    <2>1. Envelope(mem)' = Envelope(disk)
      BY <1>0, <1>15, KeepsList DEF Serve, Envelope
    <2>2. Envelope(disk)' = Envelope(disk)
      BY <1>15, <2>1 DEF Serve, Envelope
    <2>3. mem'.rev = Envelope(disk).list
      BY <2>1 DEF Envelope
    <2>4. Ledger!Serve
      BY <1>15, <2>1, <2>2, <2>3
         DEF Serve, Ledger!Serve, Running, Ledger!Running, historyVars
    <2> QED
      BY <2>4 DEF Ledger!Next
  <1>16. CASE UNCHANGED vars
    BY <1>16 DEF vars, serverVars, historyVars, Ledger!vars, Envelope
  <1>17. Certs \subseteq CertOrNone /\ {0} \cup Certs \subseteq CertOrNone
    BY NextCertFacts DEF TypeOK
  <1> QED
    BY <1>1, <1>2, <1>3, <1>4, <1>5, <1>6, <1>7, <1>8, <1>9, <1>10, <1>11,
       <1>12, <1>13, <1>14, <1>15, <1>16, <1>17 DEF Next

\* Every behaviour of the registry is a behaviour of the revocation ledger.
THEOREM RegistryImplementsLedger == Spec => ImplementsLedger
  <1>1. Init => Ledger!Init
    BY DEF Init, Ledger!Init, EmptyState, Envelope, Stopped, Ledger!Stopped
  <1> QED
    BY <1>1, StepIsLedgerStep, TypeCorrect, PTL
       DEF Spec, ImplementsLedger, Ledger!Spec

-----------------------------------------------------------------------------
\* A revocation that /v1/rekey/commit or /v1/admin/peers/delete answered with
\* 200 stays in force, whatever writes fail and whenever the server crashes:
\* no step of the ledger, and so no step of the registry, takes it away.
THEOREM RevocationsStayInForce == Spec => []AckedRevocationsInForce
  <1>1. Init => AckedRevocationsInForce
    BY DEF Init, AckedRevocationsInForce
  <1>2. TypeOK /\ AckedRevocationsInForce /\ [Ledger!Next]_Ledger!vars
          => AckedRevocationsInForce'
    <2> SUFFICES ASSUME TypeOK, AckedRevocationsInForce,
                        [Ledger!Next]_Ledger!vars
                 PROVE  AckedRevocationsInForce'
      OBVIOUS
    <2> USE DEF AckedRevocationsInForce, Envelope
    <2>1. ASSUME NEW out, NEW signs, Ledger!Work(out, signs)
          PROVE  AckedRevocationsInForce'
      BY <2>1 DEF Ledger!Work
    <2>2. ASSUME NEW c \in CertIds \cup {0}, NEW out, NEW signs,
                 Ledger!Revoke(c, out, signs)
          PROVE  AckedRevocationsInForce'
      <3>1. mem.rev \subseteq mem'.rev /\ (c # 0 => c \in mem'.rev)
        BY <2>2 DEF Ledger!Revoke, Ledger!Add
      <3>2. CASE out = "ok"
        <4>1. /\ conf' = mem'.rev
              /\ disk'.rev = mem'.rev
              /\ nebula' = Ledger!Running(mem'.rev)
              /\ acked' \subseteq acked \cup ({c} \ {0})
          BY <2>2, <3>2 DEF Ledger!Revoke
        <4> QED
          BY <3>1, <4>1 DEF Ledger!Running
      <3>3. CASE out # "ok"
        <4>1. /\ conf' \in {conf, mem'.rev}
              /\ disk'.rev \in {disk.rev, mem'.rev}
              /\ nebula' \in {nebula, Ledger!Stopped}
              /\ acked' = acked
          BY <2>2, <3>3 DEF Ledger!Revoke
        <4> QED
          BY <3>1, <4>1 DEF Ledger!Stopped
      <3> QED
        BY <3>2, <3>3
    <2>3. CASE Ledger!NebulaExit
      BY <2>3 DEF Ledger!NebulaExit, Ledger!Stopped
    <2>4. CASE Ledger!Crash
      BY <2>4 DEF Ledger!Crash, Ledger!Stopped
    <2>5. CASE Ledger!Serve
      BY <2>5 DEF Ledger!Serve, Ledger!Running
    <2>6. CASE UNCHANGED Ledger!vars
      BY <2>6 DEF Ledger!vars
    <2> QED
      BY <2>1, <2>2, <2>3, <2>4, <2>5, <2>6 DEF Ledger!Next
  <1> QED
    BY <1>1, <1>2, StepIsLedgerStep, TypeCorrect, PTL DEF Spec

\* Where the tokens below c are.  A token is held by one device, staged once,
\* or retired, and only one of the three.
TokInv(s, c) ==
    /\ \A n \in Names : s.peers[n].tok < c /\ s.peers[n].tok \notin s.retired
    /\ \A m, n \in Names :
          s.peers[m].tok = s.peers[n].tok /\ s.peers[m].tok # 0 => m = n
    /\ \A p \in s.pending :
          /\ p.new < c
          /\ p.new \notin s.retired
          /\ \A n \in Names : s.peers[n].tok # p.new
    /\ \A p, q \in s.pending : p.new = q.new => p = q
    /\ \A r \in s.retired : r < c

\* The devices have addresses of their own and the hashes of /v1/rekey point
\* at registered devices.
AddrInv(s) ==
    /\ \A m, n \in Names :
          Registered(s, m) /\ s.peers[m].addr = s.peers[n].addr => m = n
    /\ \A e \in s.codes :
          e.rekey => /\ e.name \in Names
                     /\ Registered(s, e.name)
                     /\ s.peers[e.name].addr = e.addr

\* A state whose tokens are those of s, with fewer identities staged.
LEMMA TokFrame ==
    ASSUME NEW s, NEW t, NEW c, TokInv(s, c),
           \A n \in Names : t.peers[n].tok = s.peers[n].tok,
           t.retired = s.retired, t.pending \subseteq s.pending
    PROVE  TokInv(t, c)
  BY DEF TokInv

\* Tokens that are safe below c are safe below c + 1.
LEMMA TokLater ==
    ASSUME NEW s \in ServerState, NEW c \in Nat, TokInv(s, c)
    PROVE  TokInv(s, c + 1)
  BY DEF TokInv, ServerState, PeerRecord, PendingRekeyRecord, CertOrNone,
         CertIds

\* A state whose addresses are those of s, with hashes of /v1/rekey for
\* devices that already had one.
LEMMA AddrFrame ==
    ASSUME NEW s, NEW t, AddrInv(s),
           \A n \in Names : t.peers[n].addr = s.peers[n].addr,
           \A e \in t.codes : e.rekey =>
              \E d \in s.codes : d.rekey /\ d.name = e.name /\ d.addr = e.addr
    PROVE  AddrInv(t)
  BY DEF AddrInv, Registered

-----------------------------------------------------------------------------
(* What each operation does to tokens and addresses.                       *)

\* Binding a hash changes neither.
LEMMA BindSafe ==
    ASSUME NEW s \in ServerState, NEW c, TokInv(s, c), AddrInv(s),
           NEW e \in s.codes, NEW n \in Names, NEW k \in Keys, Accepts(e, n, k)
    PROVE  TokInv(Bind(s, e, n, k), c) /\ AddrInv(Bind(s, e, n, k))
  <1> DEFINE t == Bind(s, e, n, k)
             b == [e EXCEPT !.name = n, !.key = k]
  <1>1. /\ t.peers = s.peers
        /\ t.retired = s.retired
        /\ t.pending = s.pending
        /\ t.codes = (s.codes \ {e}) \cup {b}
    BY DEF Bind, ServerState
  <1>2. e \in EnrollmentRecord
    BY DEF ServerState
  <1>3. b.rekey = e.rekey /\ b.addr = e.addr /\ b.name = n
    BY <1>2 DEF EnrollmentRecord
  <1>4. e.rekey => e.name = n
    BY RegistryAssumption DEF AddrInv, Accepts
  <1> HIDE DEF t, b
  <1>5. AddrInv(t)
    BY <1>1, <1>3, <1>4, AddrFrame
  <1> QED
    BY <1>1, <1>5, TokFrame DEF t

\* Recording a reported fingerprint changes neither.
LEMMA ReportSafe ==
    ASSUME NEW s \in ServerState, NEW c, TokInv(s, c), AddrInv(s),
           NEW n \in Names, NEW f
    PROVE  /\ TokInv([s EXCEPT !.peers[n].fp = f], c)
           /\ AddrInv([s EXCEPT !.peers[n].fp = f])
  <1> DEFINE t == [s EXCEPT !.peers[n].fp = f]
  <1>1. /\ \A m \in Names : t.peers[m].tok = s.peers[m].tok
        /\ \A m \in Names : t.peers[m].addr = s.peers[m].addr
        /\ t.retired = s.retired
        /\ t.pending = s.pending
        /\ t.codes = s.codes
    BY DEF ServerState, PeerRecord
  <1> HIDE DEF t
  <1>2. TokInv(t, c)
    BY <1>1, TokFrame
  <1>3. AddrInv(t)
    BY <1>1, AddrFrame
  <1> QED
    BY <1>2, <1>3 DEF t

\* Purging staged identities changes neither.
LEMMA PurgeSafe ==
    ASSUME NEW s \in ServerState, NEW c, TokInv(s, c), AddrInv(s)
    PROVE  TokInv(PurgeExpiredRekeys(s), c) /\ AddrInv(PurgeExpiredRekeys(s))
  <1> DEFINE t == PurgeExpiredRekeys(s)
  <1>1. /\ t.peers = s.peers
        /\ t.retired = s.retired
        /\ t.pending \subseteq s.pending
        /\ t.codes = s.codes
    BY DEF PurgeExpiredRekeys, ServerState
  <1> HIDE DEF t
  <1> QED
    BY <1>1, TokFrame, AddrFrame DEF t

\* A new hash is safe if it is for a new device, or for the address of a
\* registered one.
LEMMA IssueSafe ==
    ASSUME NEW s \in ServerState, NEW c, TokInv(s, c), AddrInv(s), NEW e,
           e.rekey => /\ e.name \in Names
                      /\ Registered(s, e.name)
                      /\ s.peers[e.name].addr = e.addr
    PROVE  TokInv(IssueCode(s, e), c) /\ AddrInv(IssueCode(s, e))
  <1> DEFINE t == IssueCode(s, e)
  <1>1. /\ t.peers = s.peers
        /\ t.retired = s.retired
        /\ t.pending = s.pending
        /\ t.codes = s.codes \cup {e}
    BY DEF IssueCode, ServerState
  <1> HIDE DEF t
  <1>2. AddrInv(t)
    BY <1>1 DEF AddrInv, Registered
  <1> QED
    BY <1>1, <1>2, TokFrame DEF t

\* A token that nobody holds and nothing stages may be given to a device:
\* the one it replaces is retired.
LEMMA SetPeerTok ==
    ASSUME NEW s \in ServerState, NEW c \in Nat, TokInv(s, c),
           NEW n \in Names, NEW p \in PeerRecord,
           p.tok < c, p.tok \notin s.retired,
           \A m \in Names : p.tok # 0 => s.peers[m].tok # p.tok,
           \A q \in s.pending : q.new # p.tok
    PROVE  TokInv(SetPeer(s, n, p), c)
  <1> DEFINE t == SetPeer(s, n, p)
             old == s.peers[n].tok
  <1>1. /\ \A m \in Names :
              t.peers[m].tok = IF m = n THEN p.tok ELSE s.peers[m].tok
        /\ t.pending = s.pending
        /\ t.retired = IF old \in {0, p.tok} THEN s.retired
                                             ELSE s.retired \cup {old}
    BY DEF SetPeer, ServerState, PeerRecord
  <1>2. 0 \notin s.retired /\ p.tok \in Nat /\ old \in Nat
    BY CertFacts DEF ServerState, PeerRecord
  <1>3. \A q \in s.pending : q.new # 0
    BY CertFacts DEF ServerState, PendingRekeyRecord
  <1> HIDE DEF t
  <1>4. \A m \in Names : t.peers[m].tok < c /\ t.peers[m].tok \notin t.retired
    BY <1>1, <1>2 DEF TokInv
  <1>5. \A m, l \in Names :
           t.peers[m].tok = t.peers[l].tok /\ t.peers[m].tok # 0 => m = l
    BY <1>1 DEF TokInv
  <1>6. \A q \in t.pending :
           /\ q.new < c
           /\ q.new \notin t.retired
           /\ \A m \in Names : t.peers[m].tok # q.new
    BY <1>1, <1>3 DEF TokInv
  <1>7. \A r \in t.retired : r < c
    BY <1>1 DEF TokInv
  <1> QED
    BY <1>1, <1>4, <1>5, <1>6, <1>7 DEF TokInv, t

\* What SetPeer leaves alone.
LEMMA SetPeerFacts ==
    ASSUME NEW s \in ServerState, NEW n \in Names, NEW p \in PeerRecord
    PROVE  LET t == SetPeer(s, n, p)
           IN  /\ \A m \in Names : t.peers[m] = IF m = n THEN p ELSE s.peers[m]
               /\ t.codes = s.codes
               /\ t.pending = s.pending
  BY DEF SetPeer, ServerState, PeerRecord

\* A revocation changes neither tokens nor addresses.
LEMMA RevocationSafe ==
    ASSUME NEW s \in ServerState, NEW r, NEW c, TokInv(s, c), AddrInv(s)
    PROVE  TokInv(AddRevocation(s, r), c) /\ AddrInv(AddRevocation(s, r))
  <1> DEFINE t == AddRevocation(s, r)
  <1>1. /\ t.peers = s.peers
        /\ t.retired = s.retired
        /\ t.pending = s.pending
        /\ t.codes = s.codes
    BY DEF AddRevocation, ServerState
  <1> HIDE DEF t
  <1> QED
    BY <1>1, TokFrame, AddrFrame DEF t

\* A new device, or a device that enrols again, gets the next token and an
\* address that is its own or nobody's.
LEMMA EnrolSafe ==
    ASSUME NEW s \in ServerState, NEW c \in CertIds, TokInv(s, c), AddrInv(s),
           NEW n \in Names, NEW p \in PeerRecord, p.tok = c,
           NEW a \in 1 .. PoolSize, p.addr = a, AddressFor(s, n, a)
    PROVE  TokInv(SetPeer(s, n, p), c + 1) /\ AddrInv(SetPeer(s, n, p))
  <1> DEFINE t == SetPeer(s, n, p)
  <1>1. c \in Nat /\ c + 1 \in Nat /\ c < c + 1
    BY CertFacts
  <1>2. TokInv(s, c + 1)
    BY <1>1, TokLater
  <1>3. /\ c \notin s.retired
        /\ \A m \in Names : s.peers[m].tok # c
        /\ \A q \in s.pending : q.new # c
    BY <1>1 DEF TokInv
  <1>4. TokInv(t, c + 1)
    BY <1>1, <1>2, <1>3, SetPeerTok
  <1>5. /\ \A m \in Names : t.peers[m] = IF m = n THEN p ELSE s.peers[m]
        /\ t.codes = s.codes
    BY SetPeerFacts
  <1> HIDE DEF t
  <1>6. \A m \in Names \ {n} : s.peers[m].addr # a
    BY RegistryAssumption
       DEF AddressFor, FreeAddresses, AddrInv, Registered, ServerState,
           PeerRecord
  <1>7. a # 0 /\ (Registered(s, n) => a = s.peers[n].addr)
    BY RegistryAssumption DEF AddressFor
  <1>8. AddrInv(t)
    BY <1>5, <1>6, <1>7 DEF AddrInv, Registered
  <1> QED
    BY <1>4, <1>8 DEF t

\* A staged identity carries the next token.
LEMMA StageSafe ==
    ASSUME NEW s \in ServerState, NEW c \in CertIds, TokInv(s, c), AddrInv(s),
           NEW p \in PendingRekeyRecord, p.new = c
    PROVE  /\ TokInv([s EXCEPT !.pending = @ \cup {p}], c + 1)
           /\ AddrInv([s EXCEPT !.pending = @ \cup {p}])
  <1> DEFINE t == [s EXCEPT !.pending = @ \cup {p}]
  <1>1. /\ t.peers = s.peers
        /\ t.retired = s.retired
        /\ t.codes = s.codes
        /\ t.pending = s.pending \cup {p}
    BY DEF ServerState
  <1>2. c \in Nat /\ c < c + 1
    BY CertFacts
  <1>3. TokInv(s, c + 1)
    BY <1>2, TokLater
  <1> HIDE DEF t
  <1>4. TokInv(t, c + 1)
    BY <1>1, <1>2, <1>3 DEF TokInv
  <1>5. AddrInv(t)
    BY <1>1, AddrFrame
  <1> QED
    BY <1>4, <1>5 DEF t

\* A staged identity that replaces the device's own at the same address.
LEMMA CommitSafe ==
    ASSUME NEW s \in ServerState, NEW c \in Nat, TokInv(s, c), AddrInv(s),
           NEW n \in Names, NEW q \in s.pending, NEW p \in PeerRecord,
           p.tok = q.new, p.addr = s.peers[n].addr,
           NEW codes, codes \subseteq s.codes
    PROVE  LET t == [SetPeer(s, n, p)
                       EXCEPT !.pending = @ \ {q}, !.codes = codes]
           IN  TokInv(t, c) /\ AddrInv(t)
  <1> DEFINE u == [s EXCEPT !.pending = @ \ {q}]
             v == SetPeer(u, n, p)
             t == [SetPeer(s, n, p)
                     EXCEPT !.pending = @ \ {q}, !.codes = codes]
  <1>1. /\ u \in ServerState
        /\ u.peers = s.peers
        /\ u.retired = s.retired
        /\ u.pending = s.pending \ {q}
    BY DEF ServerState
  <1>2. /\ t.peers = v.peers
        /\ t.retired = v.retired
        /\ t.pending = v.pending
        /\ t.codes = codes
        /\ \A m \in Names : t.peers[m].addr = s.peers[m].addr
    BY DEF SetPeer, ServerState, PeerRecord
  <1> HIDE DEF u
  <1>3. TokInv(u, c)
    BY <1>1, TokFrame
  <1>4. /\ p.tok < c
        /\ p.tok \notin u.retired
        /\ \A m \in Names : u.peers[m].tok # p.tok
        /\ \A r \in u.pending : r.new # p.tok
    BY <1>1 DEF TokInv
  <1>5. TokInv(v, c)
    BY <1>1, <1>3, <1>4, SetPeerTok
  <1> HIDE DEF t, v
  <1>6. TokInv(t, c)
    BY <1>2, <1>5, TokFrame
  <1>7. AddrInv(t)
    BY <1>2, AddrFrame
  <1> QED
    BY <1>6, <1>7 DEF t

\* A device that is removed takes its hashes with it.
LEMMA RemoveSafe ==
    ASSUME NEW s \in ServerState, NEW c \in Nat, TokInv(s, c), AddrInv(s),
           NEW n \in Names, c # 0
    PROVE  TokInv(RemovePeer(s, n), c) /\ AddrInv(RemovePeer(s, n))
  <1> DEFINE v == SetPeer(s, n, NoPeer)
             t == RemovePeer(s, n)
  <1>1. NoPeer.tok = 0 /\ NoPeer.addr = 0 /\ NoPeer \in PeerRecord
    BY NoPeerType DEF NoPeer
  <1>2. 0 < c /\ 0 \notin s.retired /\ \A q \in s.pending : q.new # 0
    BY CertFacts DEF ServerState, PendingRekeyRecord
  <1>3. TokInv(v, c)
    BY <1>1, <1>2, SetPeerTok
  <1>4. /\ \A m \in Names : v.peers[m] = IF m = n THEN NoPeer ELSE s.peers[m]
        /\ v.codes = s.codes
        /\ v \in ServerState
    BY <1>1, SetPeerFacts, SetPeerType
  <1> HIDE DEF v
  <1>5. /\ t.peers = v.peers
        /\ t.retired = v.retired
        /\ t.pending = v.pending
        /\ t.codes = {e \in v.codes : e.name # n}
    BY <1>4 DEF RemovePeer, ServerState, v
  <1> HIDE DEF t
  <1>6. TokInv(t, c)
    BY <1>3, <1>5, TokFrame
  <1>7. AddrInv(t)
    BY <1>1, <1>4, <1>5 DEF AddrInv, Registered
  <1> QED
    BY <1>6, <1>7 DEF t
-----------------------------------------------------------------------------
(* The inductive invariant.                                                *)

Safe(s, c) == s \in ServerState /\ TokInv(s, c) /\ AddrInv(s)

IInv == TypeOK /\ Safe(mem, nextCert) /\ Safe(disk, nextCert)

\* However a handler stores a safe state, memory and the file are safe.
LEMMA StoreSafe ==
    ASSUME NEW s, NEW c, Safe(s, c), Safe(disk, c), NEW out,
           \/ Save(s, out)
           \/ Publish(s, out)
           \/ mem' = s /\ disk' = disk
    PROVE  Safe(mem', c) /\ Safe(disk', c)
  <1>1. mem' = s /\ disk' \in {disk, s}
    BY DEF Save, Publish
  <1> QED
    BY <1>1

\* Every step of the registry keeps the tokens and the addresses safe.
LEMMA StepSafe == IInv /\ TypeOK' /\ [Next]_vars => IInv'
  <1> SUFFICES ASSUME IInv, TypeOK', [Next]_vars
               PROVE  Safe(mem', nextCert') /\ Safe(disk', nextCert')
    BY DEF IInv, Safe
  <1>0. /\ Safe(mem, nextCert)
        /\ Safe(disk, nextCert)
        /\ mem \in ServerState
        /\ TokInv(mem, nextCert)
        /\ AddrInv(mem)
        /\ nextCert \in Nat \ {0}
        /\ nextCert <= MaxCerts => nextCert \in CertIds
    BY NextCertFacts, RegistryAssumption DEF IInv, TypeOK, Safe
  <1>s. nextCert <= MaxCerts => /\ Safe(mem, nextCert + 1)
                                /\ Safe(disk, nextCert + 1)
    BY <1>0, TokLater DEF Safe
  <1>1. ASSUME NEW out, AdminEnroll(out)
        PROVE  Safe(mem', nextCert') /\ Safe(disk', nextCert')
    <2> DEFINE e == [id |-> nextCode, rekey |-> FALSE, name |-> None,
                     key |-> None, addr |-> 0]
    <2>1. e \in EnrollmentRecord
      BY DEF IInv, TypeOK, EnrollmentRecord
    <2>2. e.rekey = FALSE
      OBVIOUS
    <2>3. Save(IssueCode(mem, e), out) /\ nextCert' = nextCert
      BY <1>1 DEF AdminEnroll
    <2> HIDE DEF e
    <2>4. Safe(IssueCode(mem, e), nextCert)
      BY <1>0, <2>1, <2>2, IssueCodeType, IssueSafe DEF Safe
    <2> QED
      BY <1>0, <2>3, <2>4, StoreSafe
  <1>2. ASSUME NEW id, NEW out, RevokeEnrollment(id, out)
        PROVE  Safe(mem', nextCert') /\ Safe(disk', nextCert')
    <2> DEFINE s == [mem EXCEPT !.codes = {e \in @ : e.id # id}]
    <2>1. /\ s \in ServerState
          /\ s.peers = mem.peers
          /\ s.retired = mem.retired
          /\ s.pending = mem.pending
          /\ s.codes \subseteq mem.codes
      BY <1>0 DEF ServerState
    <2>2. Save(s, out) /\ nextCert' = nextCert
      BY <1>2 DEF RevokeEnrollment, mintVars
    <2> HIDE DEF s
    <2>3. TokInv(s, nextCert)
      BY <1>0, <2>1, TokFrame
    <2>4. AddrInv(s)
      BY <1>0, <2>1, AddrFrame
    <2> QED
      BY <1>0, <2>1, <2>2, <2>3, <2>4, StoreSafe DEF Safe
  <1>3. ASSUME NEW id, NEW n \in Names, NEW k \in Keys, PairRefused(id, n, k)
        PROVE  Safe(mem', nextCert') /\ Safe(disk', nextCert')
    <2>1. PICK e \in mem.codes : Accepts(e, n, k) /\ mem' = Bind(mem, e, n, k)
      BY <1>3 DEF PairRefused, Live
    <2>2. Safe(mem', nextCert)
      BY <1>0, <2>1, BindType, BindSafe DEF Safe
    <2> QED
      BY <1>0, <1>3, <2>2 DEF PairRefused, mintVars
  <1>4. ASSUME NEW id, NEW n \in Names, NEW k \in Keys, NEW out,
               PairNew(id, n, k, out)
        PROVE  Safe(mem', nextCert') /\ Safe(disk', nextCert')
    <2> DEFINE fp == IF out = "sign" THEN mem.peers[n].fp ELSE nextCert
               peer(a) == [key |-> k, addr |-> a, fp |-> fp, tok |-> nextCert]
    <2>1. PICK e \in mem.codes, a \in 1 .. PoolSize :
            /\ Accepts(e, n, k)
            /\ AddressFor(mem, n, a)
            /\ \/ Save(SetPeer(Bind(mem, e, n, k), n, peer(a)), out)
               \/ /\ mem' = SetPeer(Bind(mem, e, n, k), n, peer(a))
                  /\ disk' = disk
      BY <1>4 DEF PairNew, Live
    <2>2. /\ nextCert \in CertIds /\ nextCert' = nextCert + 1
          /\ nextCert <= MaxCerts
      BY <1>0, <1>4 DEF PairNew
    <2>3. peer(a) \in PeerRecord
      <3>1. mem.peers[n].fp \in CertOrNone
        BY <1>0 DEF ServerState, PeerRecord
      <3> QED
        BY <2>2, <3>1, CertFacts, RegistryAssumption DEF PeerRecord
    <2>4. peer(a).tok = nextCert /\ peer(a).addr = a
      OBVIOUS
    <2> DEFINE b == Bind(mem, e, n, k)
    <2>5. b \in ServerState /\ TokInv(b, nextCert) /\ AddrInv(b)
      BY <1>0, <2>1, BindType, BindSafe
    <2>6. AddressFor(b, n, a)
      <3>1. b.peers = mem.peers
        BY <1>0 DEF Bind, ServerState
      <3> HIDE DEF b
      <3> QED
        BY <2>1, <3>1 DEF AddressFor, FreeAddresses, Registered
    <2> HIDE DEF peer, b
    <2>7. Safe(SetPeer(b, n, peer(a)), nextCert + 1)
      BY <2>2, <2>3, <2>4, <2>5, <2>6, EnrolSafe, SetPeerType DEF Safe
    <2>8. \/ Save(SetPeer(b, n, peer(a)), out)
          \/ mem' = SetPeer(b, n, peer(a)) /\ disk' = disk
      BY <2>1 DEF b
    <2> QED
      BY <1>s, <2>2, <2>7, <2>8, StoreSafe
  <1>5. ASSUME NEW n \in Names, NEW t, NEW c \in CertOrNone, NEW out,
               RequestRekey(n, t, c, out)
        PROVE  Safe(mem', nextCert') /\ Safe(disk', nextCert')
    <2> DEFINE fp == IF c = 0 THEN mem.peers[n].fp ELSE c
               reported == [mem EXCEPT !.peers[n].fp = fp]
               seen == PurgeExpiredRekeys(reported)
               e == [id |-> nextCode, rekey |-> TRUE, name |-> n,
                     key |-> None, addr |-> mem.peers[n].addr]
    <2>1. fp \in CertOrNone /\ mem.peers[n].addr \in Nat
      BY <1>0 DEF ServerState, PeerRecord
    <2>2. Save(IssueCode(seen, e), out) /\ nextCert' = nextCert
      BY <1>5 DEF RequestRekey
    <2>3. e \in EnrollmentRecord
      BY <2>1 DEF IInv, TypeOK, EnrollmentRecord
    <2>4. seen.peers = reported.peers
      BY <1>0 DEF PurgeExpiredRekeys, ServerState
    <2>5. /\ Registered(seen, n)
          /\ seen.peers[n].addr = mem.peers[n].addr
      <3>1. reported.peers[n].addr = mem.peers[n].addr
        BY <1>0 DEF ServerState, PeerRecord
      <3> HIDE DEF reported, seen
      <3> QED
        BY <1>5, <2>4, <3>1 DEF RequestRekey, Authorized, Registered
    <2>6. e.name = n /\ e.addr = mem.peers[n].addr
      OBVIOUS
    <2> HIDE DEF fp, e
    <2>7. Safe(reported, nextCert)
      BY <1>0, <2>1, ReportType, ReportSafe DEF Safe
    <2> HIDE DEF reported
    <2>8. Safe(seen, nextCert)
      BY <2>7, PurgeType, PurgeSafe DEF Safe
    <2> HIDE DEF seen
    <2>9. Safe(IssueCode(seen, e), nextCert)
      BY <2>3, <2>5, <2>6, <2>8, IssueSafe, IssueCodeType DEF Safe
    <2> QED
      BY <1>0, <2>2, <2>9, StoreSafe
  <1>6. ASSUME NEW id, NEW n \in Names, NEW k \in Keys, NEW out,
               PairRekey(id, n, k, out)
        PROVE  Safe(mem', nextCert') /\ Safe(disk', nextCert')
    <2> DEFINE staged == [name |-> n, addr |-> mem.peers[n].addr,
                          old |-> mem.peers[n].fp, key |-> k,
                          new |-> nextCert]
    <2>1. PICK e \in mem.codes :
            /\ Accepts(e, n, k)
            /\ \/ mem' = Bind(mem, e, n, k) /\ disk' = disk
               \/ Save([Bind(mem, e, n, k)
                          EXCEPT !.pending = @ \cup {staged}], out)
      BY <1>6 DEF PairRekey, Live
    <2>2. /\ nextCert \in CertIds /\ nextCert' = nextCert + 1
          /\ nextCert <= MaxCerts
      BY <1>0, <1>6 DEF PairRekey
    <2>3. staged \in PendingRekeyRecord /\ staged.new = nextCert
      BY <1>0, <2>2 DEF ServerState, PeerRecord, PendingRekeyRecord
    <2> DEFINE b == Bind(mem, e, n, k)
               s == [b EXCEPT !.pending = @ \cup {staged}]
    <2> HIDE DEF staged
    <2>4. b \in ServerState /\ TokInv(b, nextCert) /\ AddrInv(b)
      BY <1>0, <2>1, BindType, BindSafe
    <2>5. (mem' = b /\ disk' = disk) \/ Save(s, out)
      BY <2>1
    <2> HIDE DEF b
    <2>6. s \in ServerState
      BY <2>3, <2>4 DEF ServerState
    <2>7. TokInv(s, nextCert + 1) /\ AddrInv(s)
      BY <2>2, <2>3, <2>4, StageSafe
    <2> HIDE DEF s
    <2>8. Safe(s, nextCert + 1)
      BY <2>6, <2>7 DEF Safe
    <2>9. Safe(b, nextCert + 1)
      BY <1>0, <2>4, TokLater DEF Safe
    <2> QED
      BY <1>s, <2>2, <2>5, <2>8, <2>9, StoreSafe
  <1>7. ASSUME NEW n \in Names, NEW tok, NEW out, CommitRekey(n, tok, out)
        PROVE  Safe(mem', nextCert') /\ Safe(disk', nextCert')
    <2> DEFINE peer(p) == [key |-> p.key, addr |-> p.addr, fp |-> p.new,
                           tok |-> p.new]
               r(p) == AddRevocation(mem, p.old)
               codes(q) == {e \in q.codes : ~(e.rekey /\ e.name = n)}
               s(p) == [SetPeer(r(p), n, peer(p)) EXCEPT
                          !.pending = @ \ {p},
                          !.codes = {e \in @ : ~(e.rekey /\ e.name = n)}]
    <2>1. PICK p \in mem.pending : /\ mem.peers[n].addr = p.addr
                                   /\ Publish(s(p), out)
      BY <1>7 DEF CommitRekey, Commit
    <2>2. p \in PendingRekeyRecord
      BY <1>0 DEF ServerState
    <2>3. peer(p) \in PeerRecord /\ peer(p).tok = p.new /\ peer(p).addr = p.addr
      BY <2>2, CertFacts DEF PendingRekeyRecord, PeerRecord
    <2>4. /\ r(p) \in ServerState
          /\ r(p).peers = mem.peers
          /\ r(p).pending = mem.pending
      <3>1. p.old \in CertOrNone
        BY <2>2 DEF PendingRekeyRecord
      <3>2. r(p) \in ServerState
        BY <1>0, <3>1, AddRevocationType
      <3>3. r(p).peers = mem.peers /\ r(p).pending = mem.pending
        BY <1>0 DEF AddRevocation, ServerState
      <3> QED
        BY <3>2, <3>3
    <2>5. TokInv(r(p), nextCert) /\ AddrInv(r(p))
      BY <1>0, RevocationSafe
    <2> HIDE DEF peer, r
    <2>6. SetPeer(r(p), n, peer(p)) \in ServerState
      BY <2>3, <2>4, SetPeerType
    <2>7. SetPeer(r(p), n, peer(p)).codes = r(p).codes
      BY <2>3, <2>4, SetPeerFacts
    <2>8. s(p) = [SetPeer(r(p), n, peer(p)) EXCEPT
                    !.pending = @ \ {p}, !.codes = codes(r(p))]
      BY <2>7
    <2>9. codes(r(p)) \subseteq r(p).codes
      OBVIOUS
    <2>10. s(p) \in ServerState
      BY <2>6 DEF ServerState
    <2> HIDE DEF codes, s
    <2>11. TokInv(s(p), nextCert) /\ AddrInv(s(p))
      <3> DEFINE c == codes(r(p))
                 q == peer(p)
                 u == r(p)
      <3>1. /\ u \in ServerState /\ TokInv(u, nextCert) /\ AddrInv(u)
            /\ p \in u.pending /\ q \in PeerRecord
            /\ q.tok = p.new /\ q.addr = u.peers[n].addr
            /\ c \subseteq u.codes
        BY <2>1, <2>3, <2>4, <2>5, <2>9
      <3> HIDE DEF c, q, u
      <3>2. LET t == [SetPeer(u, n, q) EXCEPT !.pending = @ \ {p}, !.codes = c]
            IN  TokInv(t, nextCert) /\ AddrInv(t)
        BY <1>0, <3>1, CommitSafe
      <3> QED
        BY <2>8, <3>2 DEF c, q, u
    <2>12. Safe(s(p), nextCert)
      BY <2>10, <2>11 DEF Safe
    <2>13. nextCert' = nextCert
      BY <1>7 DEF CommitRekey, mintVars
    <2> QED
      BY <1>0, <2>1, <2>12, <2>13, StoreSafe
  <1>8. ASSUME NEW n \in Names, NEW out, DeletePeer(n, out)
        PROVE  Safe(mem', nextCert') /\ Safe(disk', nextCert')
    <2> DEFINE r == AddRevocation(mem, mem.peers[n].fp)
    <2>1. Publish(RemovePeer(r, n), out) /\ nextCert' = nextCert
      BY <1>8 DEF DeletePeer, mintVars
    <2>2. mem.peers[n].fp \in CertOrNone
      BY <1>0 DEF ServerState, PeerRecord
    <2>3. r \in ServerState /\ TokInv(r, nextCert) /\ AddrInv(r)
      BY <1>0, <2>2, AddRevocationType, RevocationSafe
    <2> HIDE DEF r
    <2>4. Safe(RemovePeer(r, n), nextCert)
      BY <1>0, <2>3, RemovePeerType, RemoveSafe DEF Safe
    <2> QED
      BY <1>0, <2>1, <2>4, StoreSafe
  <1>9. ASSUME NEW n \in Names, NEW c \in CertOrNone, NEW out,
               Save([mem EXCEPT !.peers[n].fp = c], out),
               nextCert' = nextCert
        PROVE  Safe(mem', nextCert') /\ Safe(disk', nextCert')
    <2>1. Safe([mem EXCEPT !.peers[n].fp = c], nextCert)
      BY <1>0, ReportType, ReportSafe DEF Safe
    <2> QED
      BY <1>0, <1>9, <2>1, StoreSafe
  <1>10. ASSUME NEW n \in Names, NEW t, NEW c \in CertOrNone, NEW out,
                Heartbeat(n, t, c, out)
         PROVE  Safe(mem', nextCert') /\ Safe(disk', nextCert')
    <2> DEFINE fp == IF c = 0 THEN mem.peers[n].fp ELSE c
    <2>1. fp \in CertOrNone
      BY <1>0 DEF ServerState, PeerRecord
    <2>2. Save([mem EXCEPT !.peers[n].fp = fp], out) /\ nextCert' = nextCert
      BY <1>10 DEF Heartbeat, mintVars
    <2> QED
      BY <1>9, <2>1, <2>2
  <1>11. ASSUME NEW n \in Names, NEW c \in CertOrNone, NEW out,
                LogFingerprint(n, c, out)
         PROVE  Safe(mem', nextCert') /\ Safe(disk', nextCert')
    BY <1>9, <1>11 DEF LogFingerprint, mintVars
  <1>12. CASE Crash
    BY <1>0, <1>12 DEF Crash, mintVars
  <1>13. CASE Serve
    <2>1. Safe(PurgeExpiredRekeys(disk), nextCert)
      BY <1>0, PurgeType, PurgeSafe DEF Safe
    <2> QED
      BY <1>13, <2>1 DEF Serve, mintVars
  <1>14. ASSUME UNCHANGED <<mem, disk, nextCert>>
         PROVE  Safe(mem', nextCert') /\ Safe(disk', nextCert')
    BY <1>0, <1>14
  <1>15. ASSUME NEW id, ExpireCode(id) PROVE UNCHANGED <<mem, disk, nextCert>>
    BY <1>15 DEF ExpireCode, serverVars, mintVars
  <1>16. ASSUME NEW c, ExpireRekey(c) PROVE UNCHANGED <<mem, disk, nextCert>>
    BY <1>16 DEF ExpireRekey, serverVars, mintVars
  <1>17. NebulaExit => UNCHANGED <<mem, disk, nextCert>>
    BY DEF NebulaExit, mintVars
  <1>18. UNCHANGED vars => UNCHANGED <<mem, disk, nextCert>>
    BY DEF vars, serverVars, mintVars
  <1>19. Certs \subseteq CertOrNone /\ {0} \cup Certs \subseteq CertOrNone
    BY NextCertFacts DEF IInv, TypeOK
  <1> QED
    BY <1>1, <1>2, <1>3, <1>4, <1>5, <1>6, <1>7, <1>8, <1>10, <1>11, <1>12,
       <1>13, <1>14, <1>15, <1>16, <1>17, <1>18, <1>19 DEF Next

-----------------------------------------------------------------------------

\* The inductive invariant holds in every state.
LEMMA AlwaysSafe == Spec => []IInv
  <1>1. Init /\ TypeOK => IInv
    <2> SUFFICES ASSUME Init, TypeOK PROVE Safe(EmptyState, 1)
      BY DEF Init, IInv
    <2>1. EmptyState \in ServerState
      BY DEF Init, TypeOK
    <2>2. /\ \A n \in Names : EmptyState.peers[n] = NoPeer
          /\ EmptyState.codes = {}
          /\ EmptyState.pending = {}
          /\ EmptyState.retired = {}
      BY DEF EmptyState
    <2>3. NoPeer.tok = 0 /\ NoPeer.addr = 0
      BY DEF NoPeer
    <2> QED
      BY <2>1, <2>2, <2>3 DEF Safe, TokInv, AddrInv, Registered
  <1> QED
    BY <1>1, StepSafe, TypeCorrect, PTL DEF Spec

\* A device token that was replaced or removed never authorises a device
\* again, neither in memory nor in what a restart would load.
THEOREM ReplacedTokensStayOut == Spec => []TokensNeverReturn
  <1>1. IInv => TokensNeverReturn
    BY DEF IInv, Safe, TokInv, TokensNeverReturn
  <1> QED
    BY <1>1, AlwaysSafe, PTL

\* No two devices of the registry share an address, through deletions,
\* re-enrolments, staged identities and restarts.
THEOREM AddressesStayUnique == Spec => []AddressesUnique
  <1>1. IInv => AddressesUnique
    BY DEF IInv, Safe, AddrInv, AddressesUnique
  <1> QED
    BY <1>1, AlwaysSafe, PTL

\* A hash issued by /v1/rekey names a device that is still registered at the
\* address the hash reserves.
THEOREM RekeyCodesKeepTheirPeer == Spec => []RekeyCodeHasPeer
  <1>1. IInv => RekeyCodeHasPeer
    BY DEF IInv, Safe, AddrInv, RekeyCodeHasPeer
  <1> QED
    BY <1>1, AlwaysSafe, PTL
=============================================================================
