------------------------------ MODULE Registry ------------------------------
(***************************************************************************)
(* The identity registry of the main server (`meshlan server serve`): the  *)
(* enrolled devices, the enrollment hashes that admit them, the staged     *)
(* identities of /v1/pair that wait for /v1/rekey/commit, and the          *)
(* certificate revocation list, with the three copies of it the server     *)
(* keeps: ServerState in memory, the state file, and lighthouse.yml, which *)
(* the Nebula child process loads when it starts.                          *)
(*                                                                         *)
(* Every handler runs under stateMu, so it is one action; what can         *)
(* interleave is the handlers, the Nebula log, the child's exit, a crash   *)
(* and a restart.  `out` is how the handler's own steps ended:             *)
(*   "ok"      every step succeeded and the handler replied 200;           *)
(*   "sign"    nebula-cert failed;                                         *)
(*   "conf"    lighthouse.yml was not written;                             *)
(*   "lost"    saveJSON failed before it replaced the state file;          *)
(*   "late"    saveJSON replaced the file and then failed                  *)
(*             (finalizeJSONSave);                                         *)
(*   "restart" everything is stored, but Nebula did not restart.           *)
(* Requests are open: any device may send any request with any credential  *)
(* that was ever issued.  A request that is refused before it changes      *)
(* anything is a stuttering step.                                          *)
(*                                                                         *)
(* A certificate, its fingerprint and the device token issued together     *)
(* are one number; 0 is "no fingerprint" or "no token".                    *)
(***************************************************************************)
EXTENDS Integers, FiniteSets

CONSTANTS Names,      \* device names
          Keys,       \* Nebula public keys
          None,       \* an enrollment hash that is not bound yet
          PoolSize,   \* number of addresses allocateAddress can give out
          MaxCodes,   \* bound: enrollment hashes ever issued
          MaxCerts,   \* bound: certificates ever signed
          MaxExpired, \* bound: hashes and staged identities that expire
          Outcomes    \* how the steps of a handler may end

ASSUME RegistryAssumption ==
    /\ PoolSize \in Nat
    /\ MaxCodes \in Nat
    /\ MaxCerts \in Nat
    /\ MaxExpired \in Nat
    /\ Outcomes \subseteq {"ok", "sign", "conf", "lost", "late", "restart"}
    /\ None \notin Names
    /\ None \notin Keys

VARIABLES
    mem,        \* ServerState in memory
    disk,       \* ServerState in the state file
    conf,       \* the blocklist in lighthouse.yml
    nebula,     \* the child process and the blocklist it loaded
    up,         \* the server process is serving
    deadCodes,  \* enrollment hashes past their ExpiresAt
    deadRekeys, \* staged identities past their ExpiresAt
    nextCode,   \* the next enrollment hash
    nextCert,   \* the next certificate, with its token
    acked,      \* history: fingerprints whose revocation was answered 200
    sent,       \* history: the revocation envelopes that were signed
    forgot      \* history: a crash discarded a revocation the file never had

serverVars == <<mem, disk, conf, nebula, up>>
timeVars == <<deadCodes, deadRekeys>>
mintVars == <<nextCode, nextCert>>
historyVars == <<acked, sent, forgot>>
vars == <<serverVars, timeVars, mintVars, historyVars>>

CertIds == 1 .. MaxCerts
CertOrNone == {0} \cup CertIds

PeerRecord == [key : Keys \cup {None}, addr : Nat, fp : CertOrNone,
               tok : CertOrNone]
EnrollmentRecord == [id : Nat, rekey : BOOLEAN, name : Names \cup {None},
                     key : Keys \cup {None}, addr : Nat]
PendingRekeyRecord == [name : Names, addr : Nat, old : CertOrNone,
                       key : Keys, new : CertIds]

\* `retired` is history: the tokens that authorised a device and were replaced.
ServerState == [peers : [Names -> PeerRecord],
                codes : SUBSET EnrollmentRecord,
                pending : SUBSET PendingRekeyRecord,
                rev : SUBSET CertIds,
                ver : Nat,
                retired : SUBSET CertIds]

NoPeer == [key |-> None, addr |-> 0, fp |-> 0, tok |-> 0]

EmptyState == [peers |-> [n \in Names |-> NoPeer], codes |-> {}, pending |-> {},
               rev |-> {}, ver |-> 0, retired |-> {}]

-----------------------------------------------------------------------------
(* Operations on a ServerState.                                            *)

Registered(s, n) == s.peers[n].addr # 0

Authorized(s, n, t) == /\ t # 0
                       /\ Registered(s, n)
                       /\ s.peers[n].tok = t

Live(s, id) == {e \in s.codes : e.id = id /\ id \notin deadCodes}

Accepts(e, n, k) == /\ e.name \in {None, n}
                    /\ e.key \in {None, k}

Bind(s, e, n, k) ==
    [s EXCEPT !.codes = (@ \ {e}) \cup {[e EXCEPT !.name = n, !.key = k]}]

\* Mutant: the list grows, its version does not.
AddRevocationSameVersion(s, c) ==
    IF c = 0 \/ c \in s.rev THEN s ELSE [s EXCEPT !.rev = @ \cup {c}]

AddRevocation(s, c) ==
    IF c = 0 \/ c \in s.rev
    THEN s
    ELSE [s EXCEPT !.rev = @ \cup {c}, !.ver = @ + 1]

PurgeExpiredRekeys(s) ==
    [s EXCEPT !.pending = {p \in @ : p.new \notin deadRekeys}]

\* The device's token is replaced: the old one joins the history.
SetPeer(s, n, p) ==
    [s EXCEPT !.peers = [@ EXCEPT ![n] = p],
              !.retired = IF s.peers[n].tok \in {0, p.tok}
                          THEN @ ELSE @ \cup {s.peers[n].tok}]

\* Mutant: the hashes of the removed device stay.
RemovePeerKeepsCodes(s, n) == SetPeer(s, n, NoPeer)

RemovePeer(s, n) ==
    [SetPeer(s, n, NoPeer) EXCEPT !.codes = {e \in @ : e.name # n}]

\* Mutant: the identity stays staged.
CommitKeepsStaged(s, n, p) ==
    [SetPeer(AddRevocation(s, p.old), n,
             [key |-> p.key, addr |-> p.addr, fp |-> p.new, tok |-> p.new])
       EXCEPT !.codes = {e \in @ : ~(e.rekey /\ e.name = n)}]

\* The staged identity p becomes the device's, and the certificate it replaces
\* is revoked.
Commit(s, n, p) ==
    [SetPeer(AddRevocation(s, p.old), n,
             [key |-> p.key, addr |-> p.addr, fp |-> p.new, tok |-> p.new])
       EXCEPT !.pending = @ \ {p},
              !.codes = {e \in @ : ~(e.rekey /\ e.name = n)}]

IssueCode(s, e) == [s EXCEPT !.codes = @ \cup {e}]

\* Mutant: the addresses in use are not skipped.
FreeAddressesAll(s) == 1 .. PoolSize

FreeAddresses(s) == (1 .. PoolSize) \ {s.peers[n].addr : n \in Names}

\* The address findOrCreatePeer settles on: the device's own, or the lowest
\* free one.
AddressFor(s, n, a) ==
    IF Registered(s, n)
    THEN a = s.peers[n].addr
    ELSE /\ a \in FreeAddresses(s)
         /\ \A b \in FreeAddresses(s) : a <= b

\* findOrCreatePeer refuses a name or a key that belongs to another pairing.
Conflict(s, n, k) ==
    \E m \in Names : /\ Registered(s, m)
                     /\ (m = n) # (s.peers[m].key = k)

\* It takes the first peer with the name or the key: the peer that has both may
\* come before the one in conflict (the order of the list is not kept).
MayPair(s, n, k) ==
    ~Conflict(s, n, k) \/ (Registered(s, n) /\ s.peers[n].key = k)

-----------------------------------------------------------------------------
(* How a handler stores what it did.                                       *)

SaveOutcomes == Outcomes \cap {"ok", "late", "lost"}
SignOutcomes == SaveOutcomes \cup (Outcomes \cap {"sign"})
PublishOutcomes == Outcomes \ {"sign"}

Save(s, out) ==
    /\ mem' = s
    /\ disk' = IF out = "lost" THEN disk ELSE s
    /\ UNCHANGED <<conf, nebula, up>>

Running(list) == [running |-> TRUE, list |-> list]
Stopped == [running |-> FALSE, list |-> {}]

\* Mutant: the child keeps running with the list it has.
PublishWithoutRestart(s, out) ==
    /\ mem' = s
    /\ conf' = IF out = "conf" THEN conf ELSE s.rev
    /\ disk' = IF out \in {"conf", "lost"} THEN disk ELSE s
    /\ UNCHANGED <<nebula, up>>

\* lighthouse.yml first, then the state file, then the child process.
Publish(s, out) ==
    /\ mem' = s
    /\ conf' = IF out = "conf" THEN conf ELSE s.rev
    /\ disk' = IF out \in {"conf", "lost"} THEN disk ELSE s
    /\ nebula' \in CASE out = "ok" -> {Running(s.rev)}
                     [] out = "restart" -> {nebula, Stopped}
                     [] OTHER -> {nebula}
    /\ UNCHANGED up

Envelope(s) == [ver |-> s.ver, list |-> s.rev]

-----------------------------------------------------------------------------
(* The handlers.                                                           *)

\* POST /v1/admin/enrollments
AdminEnroll(out) ==
    /\ up
    /\ nextCode <= MaxCodes
    /\ Save(IssueCode(mem, [id |-> nextCode, rekey |-> FALSE, name |-> None,
                            key |-> None, addr |-> 0]), out)
    /\ nextCode' = nextCode + 1
    /\ UNCHANGED <<timeVars, nextCert, historyVars>>

\* POST /v1/admin/enrollments/revoke
RevokeEnrollment(id, out) ==
    /\ up
    /\ \E e \in mem.codes : e.id = id
    /\ Save([mem EXCEPT !.codes = {e \in @ : e.id # id}], out)
    /\ UNCHANGED <<timeVars, mintVars, historyVars>>

\* POST /v1/pair with the hash of a new device, whose name or key is taken or
\* for which no address is left.  The hash stays bound, in memory.
PairRefused(id, n, k) ==
    /\ up
    /\ \E e \in Live(mem, id) :
          /\ ~e.rekey
          /\ Accepts(e, n, k)
          /\ \/ Conflict(mem, n, k)
             \/ ~Registered(mem, n) /\ FreeAddresses(mem) = {}
          /\ mem' = Bind(mem, e, n, k)
    /\ UNCHANGED <<disk, conf, nebula, up, timeVars, mintVars, historyVars>>

\* POST /v1/pair with the hash of a new device.  The token is replaced before
\* the certificate is signed.
PairNew(id, n, k, out) ==
    /\ up
    /\ nextCert <= MaxCerts
    /\ MayPair(mem, n, k)
    /\ \E e \in Live(mem, id), a \in 1 .. PoolSize :
          LET fp == IF out = "sign" THEN mem.peers[n].fp ELSE nextCert
              peer == [key |-> k, addr |-> a, fp |-> fp, tok |-> nextCert]
              s == SetPeer(Bind(mem, e, n, k), n, peer)
          IN  /\ ~e.rekey
              /\ Accepts(e, n, k)
              /\ AddressFor(mem, n, a)
              /\ IF out = "sign"
                 THEN mem' = s /\ UNCHANGED <<disk, conf, nebula, up>>
                 ELSE Save(s, out)
    /\ nextCert' = nextCert + 1
    /\ UNCHANGED <<timeVars, nextCode, historyVars>>

\* POST /v1/rekey: the device reports the certificate it uses and gets a hash
\* bound to its name and address.
RequestRekey(n, t, c, out) ==
    /\ up
    /\ nextCode <= MaxCodes
    /\ Authorized(mem, n, t)
    /\ LET fp == IF c = 0 THEN mem.peers[n].fp ELSE c
           seen == PurgeExpiredRekeys([mem EXCEPT !.peers[n].fp = fp])
       IN  /\ fp # 0
           /\ Save(IssueCode(seen, [id |-> nextCode, rekey |-> TRUE, name |-> n,
                                    key |-> None, addr |-> mem.peers[n].addr]),
                   out)
    /\ nextCode' = nextCode + 1
    /\ UNCHANGED <<timeVars, nextCert, historyVars>>

\* POST /v1/pair with a hash of /v1/rekey: the new identity is signed and
\* staged next to the certificate it will replace.
PairRekey(id, n, k, out) ==
    /\ up
    /\ nextCert <= MaxCerts
    /\ \E e \in Live(mem, id) :
          LET peer == mem.peers[n]
              bound == Bind(mem, e, n, k)
              staged == [name |-> n, addr |-> peer.addr, old |-> peer.fp,
                         key |-> k, new |-> nextCert]
          IN  /\ e.rekey
              /\ Accepts(e, n, k)
              /\ IF \/ ~Registered(mem, n)
                    \/ e.addr # peer.addr
                    \/ \E m \in Names \ {n} : mem.peers[m].key = k
                    \/ out = "sign"
                 THEN mem' = bound /\ UNCHANGED <<disk, conf, nebula, up>>
                 ELSE Save([bound EXCEPT !.pending = @ \cup {staged}], out)
    /\ nextCert' = nextCert + 1
    /\ UNCHANGED <<timeVars, nextCode, historyVars>>

\* POST /v1/rekey/commit: the staged identity whose token the request carries
\* becomes the device's, and the certificate it replaces is revoked.
CommitRekey(n, t, out) ==
    /\ up
    /\ \E p \in mem.pending :
          /\ p.name = n
          /\ p.new = t
          /\ p.new \notin deadRekeys
          /\ Registered(mem, n)
          /\ mem.peers[n].addr = p.addr
          /\ Publish(Commit(mem, n, p), out)
          /\ acked' = IF out = "ok" /\ p.old # 0
                      THEN acked \cup {p.old} ELSE acked
          /\ sent' = IF out = "ok"
                     THEN sent \cup {Envelope(Commit(mem, n, p))} ELSE sent
    /\ UNCHANGED <<timeVars, mintVars, forgot>>

\* POST /v1/admin/peers/delete
DeletePeer(n, out) ==
    /\ up
    /\ Registered(mem, n)
    /\ mem.peers[n].fp # 0
    /\ Publish(RemovePeer(AddRevocation(mem, mem.peers[n].fp), n), out)
    /\ acked' = IF out = "ok" THEN acked \cup {mem.peers[n].fp} ELSE acked
    /\ UNCHANGED <<timeVars, mintVars, sent, forgot>>

\* POST /v1/heartbeat: the fingerprint the device reports replaces the
\* recorded one, a failed save is ignored, and the reply carries the list.
Heartbeat(n, t, c, out) ==
    /\ up
    /\ Authorized(mem, n, t)
    /\ LET fp == IF c = 0 THEN mem.peers[n].fp ELSE c
       IN  Save([mem EXCEPT !.peers[n].fp = fp], out)
    /\ sent' = sent \cup {Envelope(mem)}
    /\ UNCHANGED <<timeVars, mintVars, acked, forgot>>

\* The fingerprint writer reads a handshake line of the Nebula log.
LogFingerprint(n, c, out) ==
    /\ up
    /\ Registered(mem, n)
    /\ mem.peers[n].fp # c
    /\ Save([mem EXCEPT !.peers[n].fp = c], out)
    /\ UNCHANGED <<timeVars, mintVars, historyVars>>

-----------------------------------------------------------------------------
(* The rest of the world: time, the child process, crash and restart.      *)

Expired == Cardinality(deadCodes) + Cardinality(deadRekeys)

ExpireCode(id) ==
    /\ Expired < MaxExpired
    /\ id \notin deadCodes
    /\ deadCodes' = deadCodes \cup {id}
    /\ UNCHANGED <<serverVars, deadRekeys, mintVars, historyVars>>

ExpireRekey(c) ==
    /\ Expired < MaxExpired
    /\ c \notin deadRekeys
    /\ deadRekeys' = deadRekeys \cup {c}
    /\ UNCHANGED <<serverVars, deadCodes, mintVars, historyVars>>

\* Nothing restarts the child when it exits on its own.
NebulaExit ==
    /\ nebula.running
    /\ nebula' = Stopped
    /\ UNCHANGED <<mem, disk, conf, up, timeVars, mintVars, historyVars>>

\* The server process dies; what only memory held is gone, and systemd kills
\* the child with its service.
Crash ==
    /\ up
    /\ up' = FALSE
    /\ nebula' = Stopped
    /\ mem' = disk
    /\ forgot' = (forgot \/ Envelope(disk) # Envelope(mem))
    /\ UNCHANGED <<disk, conf, timeVars, mintVars, acked, sent>>

\* serverServe: load, purge, save, write lighthouse.yml, start the child.
Serve ==
    /\ ~up
    /\ up' = TRUE
    /\ mem' = PurgeExpiredRekeys(disk)
    /\ disk' = mem'
    /\ conf' = mem'.rev
    /\ nebula' = Running(mem'.rev)
    /\ UNCHANGED <<timeVars, mintVars, historyVars>>

Init ==
    /\ mem = EmptyState
    /\ disk = EmptyState
    /\ conf = {}
    /\ nebula = Stopped
    /\ up = FALSE
    /\ deadCodes = {}
    /\ deadRekeys = {}
    /\ nextCode = 1
    /\ nextCert = 1
    /\ acked = {}
    /\ sent = {}
    /\ forgot = FALSE

Codes == 1 .. nextCode - 1
Certs == 1 .. nextCert - 1

Next ==
    \/ \E out \in SaveOutcomes : AdminEnroll(out)
    \/ \E id \in Codes, out \in SaveOutcomes : RevokeEnrollment(id, out)
    \/ \E id \in Codes, n \in Names, k \in Keys : PairRefused(id, n, k)
    \/ \E id \in Codes, n \in Names, k \in Keys,
          out \in SignOutcomes : PairNew(id, n, k, out)
    \/ \E n \in Names, t \in Certs, c \in {0} \cup Certs, out \in SaveOutcomes :
          RequestRekey(n, t, c, out)
    \/ \E id \in Codes, n \in Names, k \in Keys,
          out \in SignOutcomes : PairRekey(id, n, k, out)
    \/ \E n \in Names, t \in Certs, out \in PublishOutcomes :
          CommitRekey(n, t, out)
    \/ \E n \in Names, out \in PublishOutcomes : DeletePeer(n, out)
    \/ \E n \in Names, t \in Certs, c \in {0} \cup Certs, out \in SaveOutcomes :
          Heartbeat(n, t, c, out)
    \/ \E n \in Names, c \in Certs, out \in SaveOutcomes :
          LogFingerprint(n, c, out)
    \/ \E id \in Codes : ExpireCode(id)
    \/ \E c \in Certs : ExpireRekey(c)
    \/ NebulaExit
    \/ Crash
    \/ Serve

Spec == Init /\ [][Next]_vars

-----------------------------------------------------------------------------
(* Properties.                                                             *)

\* Type invariant: the three copies of the registry and the history hold
\* well-formed records, and a server that is down holds what its file holds
\* and has no child.
TypeOK ==
    /\ mem \in ServerState
    /\ disk \in ServerState
    /\ conf \subseteq CertIds
    /\ nebula \in [running : BOOLEAN, list : SUBSET CertIds]
    /\ up \in BOOLEAN
    /\ deadCodes \subseteq Nat
    /\ deadRekeys \subseteq CertIds
    /\ nextCode \in Nat \ {0}
    /\ nextCert \in 1 .. MaxCerts + 1
    /\ acked \subseteq CertIds
    /\ sent \subseteq [ver : Nat, list : SUBSET CertIds]
    /\ forgot \in BOOLEAN
    /\ ~up => mem = disk /\ nebula = Stopped

\* A revocation that /v1/rekey/commit or /v1/admin/peers/delete answered with
\* 200 stays in force: it is in memory, in the state file and in
\* lighthouse.yml, and every Nebula child that runs has loaded it, whatever
\* writes fail and whenever the server crashes afterwards.
AckedRevocationsInForce ==
    \A c \in acked :
        /\ c \in mem.rev
        /\ c \in disk.rev
        /\ c \in conf
        /\ nebula.running => c \in nebula.list

\* A device token that was replaced or removed never authorises a device
\* again, neither in memory nor in what a restart would load: no staged
\* identity and no failed save brings it back.
TokensNeverReturn ==
    \A s \in {mem, disk} : \A n \in Names :
        Registered(s, n) => s.peers[n].tok \notin s.retired

\* No two devices of the registry share an address, through deletions,
\* re-enrolments, staged identities and restarts.
AddressesUnique ==
    \A s \in {mem, disk} : \A m, n \in Names :
        /\ Registered(s, m)
        /\ Registered(s, n)
        /\ s.peers[m].addr = s.peers[n].addr
        => m = n

\* A hash issued by /v1/rekey names a device that is still registered at the
\* address the hash reserves.
RekeyCodeHasPeer ==
    \A s \in {mem, disk} : \A e \in s.codes :
        e.rekey => /\ e.name \in Names
                   /\ Registered(s, e.name)
                   /\ s.peers[e.name].addr = e.addr

-----------------------------------------------------------------------------
\* What the registry does to the revocation list is RevocationLedger.
Ledger == INSTANCE RevocationLedger
            WITH mem <- Envelope(mem),
                 disk <- Envelope(disk),
                 Fingerprints <- CertIds

\* Every step of the registry is a step of the revocation ledger or changes
\* nothing in it: no handler edits the list, its version or the blocklist in
\* any other way or order.
ImplementsLedger == Ledger!Spec
=============================================================================
