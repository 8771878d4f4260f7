----------------------- MODULE RevocationSyncProofs ------------------------
(***************************************************************************)
(* Proofs about RevocationLedger and RevocationSync, for every set of      *)
(* fingerprints, of clients and of child nodes and every subset of the     *)
(* outcomes of a handler.                                                  *)
(***************************************************************************)
EXTENDS RevocationSync, TLAPS

\* An envelope with one more fingerprint is an envelope, keeps what it had,
\* lists the fingerprint, and is either unchanged or one version further.
LEMMA AddFacts ==
    ASSUME NEW s \in Envelopes, NEW c \in Fingerprints \cup {0}
    PROVE  /\ Add(s, c) \in Envelopes
           /\ s.list \subseteq Add(s, c).list
           /\ c # 0 => c \in Add(s, c).list
           /\ \/ Add(s, c) = s
              \/ Add(s, c).ver = s.ver + 1
  <1>1. CASE c = 0 \/ c \in s.list
    BY <1>1 DEF Add
  <1>2. CASE ~(c = 0 \/ c \in s.list)
    <2>1. s.list \cup {c} \in SUBSET Fingerprints /\ s.ver + 1 \in Nat
      BY <1>2, LedgerAssumption DEF Envelopes
    <2>2. Add(s, c) = [s EXCEPT !.list = s.list \cup {c}, !.ver = s.ver + 1]
      BY <1>2 DEF Add
    <2>3. /\ Add(s, c) \in Envelopes
          /\ Add(s, c).list = s.list \cup {c}
          /\ Add(s, c).ver = s.ver + 1
      BY <2>1, <2>2 DEF Envelopes
    <2> QED
      BY <2>3
  <1> QED
    BY <1>1, <1>2

\* Every state of the ledger is well formed.
THEOREM LedgerTypeCorrect == Spec => []TypeOK
  <1>1. Init => TypeOK
    <2> SUFFICES ASSUME Init PROVE TypeOK
      OBVIOUS
    <2>1. mem \in Envelopes /\ disk = mem
      BY DEF Init, Envelopes
    <2>2. nebula \in [running : BOOLEAN, list : SUBSET Fingerprints]
      BY DEF Init, Stopped
    <2>3. /\ sent \subseteq Envelopes
          /\ acked \subseteq Fingerprints /\ conf \subseteq Fingerprints
      BY DEF Init
    <2> QED
      BY <2>1, <2>2, <2>3 DEF Init, TypeOK
  <1>2. TypeOK /\ [Next]_vars => TypeOK'
    <2> SUFFICES ASSUME TypeOK, [Next]_vars PROVE TypeOK'
      OBVIOUS
    <2> USE DEF TypeOK
    <2>1. ASSUME NEW out, NEW signs, Work(out, signs) PROVE TypeOK'
      BY <2>1 DEF Work
    <2>2. ASSUME NEW c \in Fingerprints \cup {0}, NEW out, NEW signs,
                 Revoke(c, out, signs)
          PROVE  TypeOK'
      <3>1. mem' \in Envelopes
        BY <2>2, AddFacts DEF Revoke
      <3>2. mem'.list \in SUBSET Fingerprints
        BY <3>1 DEF Envelopes
      <3>3. nebula' \in {Running(mem'.list), nebula, Stopped}
        BY <2>2 DEF Revoke
      <3>4. nebula' \in [running : BOOLEAN, list : SUBSET Fingerprints]
        <4>1. Running(mem'.list) \in
                  [running : BOOLEAN, list : SUBSET Fingerprints]
          BY <3>2 DEF Running
        <4>2. Stopped \in [running : BOOLEAN, list : SUBSET Fingerprints]
          BY DEF Stopped
        <4> QED
          BY <3>3, <4>1, <4>2
      <3>5. acked' \subseteq Fingerprints /\ sent' \subseteq Envelopes
        BY <2>2, <3>1, LedgerAssumption DEF Revoke
      <3> QED
        BY <2>2, <3>1, <3>2, <3>4, <3>5 DEF Revoke
    <2>3. CASE NebulaExit
      BY <2>3 DEF NebulaExit, Stopped
    <2>4. CASE Crash
      BY <2>4 DEF Crash, Stopped
    <2>5. CASE Serve
      <3>1. disk.list \in SUBSET Fingerprints
        BY DEF Envelopes
      <3> QED
        BY <2>5, <3>1 DEF Serve, Running
    <2>6. CASE UNCHANGED vars
      BY <2>6 DEF vars
    <2> QED
      BY <2>1, <2>2, <2>3, <2>4, <2>5, <2>6 DEF Next
  <1> QED
    BY <1>1, <1>2, PTL DEF Spec

\* A revocation that was answered with 200 stays in memory, in the state file,
\* in lighthouse.yml and in every Nebula child that runs.
THEOREM AckedStayInForce == Spec => []AckedInForce
  <1>1. Init => AckedInForce
    BY DEF Init, AckedInForce
  <1>2. TypeOK /\ AckedInForce /\ [Next]_vars => AckedInForce'
    <2> SUFFICES ASSUME TypeOK, AckedInForce, [Next]_vars PROVE AckedInForce'
      OBVIOUS
    <2> USE DEF AckedInForce
    <2>1. ASSUME NEW out, NEW signs, Work(out, signs) PROVE AckedInForce'
      BY <2>1 DEF Work
    <2>2. ASSUME NEW c \in Fingerprints \cup {0}, NEW out, NEW signs,
                 Revoke(c, out, signs)
          PROVE  AckedInForce'
      <3>1. mem.list \subseteq mem'.list /\ (c # 0 => c \in mem'.list)
        BY <2>2, AddFacts DEF Revoke, TypeOK
      <3>2. CASE out = "ok"
        <4>1. /\ conf' = mem'.list
              /\ disk' = mem'
              /\ nebula' = Running(mem'.list)
              /\ acked' \subseteq acked \cup ({c} \ {0})
          BY <2>2, <3>2 DEF Revoke
        <4> QED
          BY <3>1, <4>1 DEF Running
      <3>3. CASE out # "ok"
        <4>1. /\ conf' \in {conf, mem'.list}
              /\ disk' \in {disk, mem'}
              /\ nebula' \in {nebula, Stopped}
              /\ acked' = acked
          BY <2>2, <3>3 DEF Revoke
        <4> QED
          BY <3>1, <4>1 DEF Stopped
      <3> QED
        BY <3>2, <3>3
    <2>3. CASE NebulaExit
      BY <2>3 DEF NebulaExit, Stopped
    <2>4. CASE Crash
      BY <2>4 DEF Crash, Stopped
    <2>5. CASE Serve
      BY <2>5 DEF Serve, Running
    <2>6. CASE UNCHANGED vars
      BY <2>6 DEF vars
    <2> QED
      BY <2>1, <2>2, <2>3, <2>4, <2>5, <2>6 DEF Next
  <1> QED
    BY <1>1, <1>2, LedgerTypeCorrect, PTL DEF Spec

\* What every signed envelope has to do with the list in memory, as long as
\* no crash discarded a revocation: it is not newer, it carries the same list
\* when the version is the same, and part of it otherwise.
Behind(e) == /\ e.ver <= mem.ver
             /\ e.ver = mem.ver => e.list = mem.list
             /\ e.list \subseteq mem.list

AllBehind == ~forgot => \A e \in sent : Behind(e)

\* The order is not inductive by itself: a new envelope must be compared with
\* the old ones, which AllBehind does.
LEMMA OrderAlways == Spec => [](AllBehind /\ EnvelopesOrdered)
  <1>1. Init => AllBehind /\ EnvelopesOrdered
    BY DEF Init, AllBehind, EnvelopesOrdered
  <1>2. TypeOK /\ AllBehind /\ EnvelopesOrdered /\ [Next]_vars
          => (AllBehind /\ EnvelopesOrdered)'
    <2> SUFFICES ASSUME TypeOK, AllBehind, EnvelopesOrdered, [Next]_vars
                 PROVE  AllBehind' /\ EnvelopesOrdered'
      OBVIOUS
    <2>0. mem.ver \in Nat /\ \A e \in sent : e.ver \in Nat
      BY DEF TypeOK, Envelopes
    <2>1. ASSUME NEW out, NEW signs, Work(out, signs)
          PROVE  AllBehind' /\ EnvelopesOrdered'
      <3>1. mem' = mem /\ forgot' = forgot /\ sent' \in {sent, sent \cup {mem}}
        BY <2>1 DEF Work
      <3>2. AllBehind'
        BY <2>0, <3>1 DEF AllBehind, Behind
      <3>3. EnvelopesOrdered'
        BY <2>0, <3>1 DEF AllBehind, Behind, EnvelopesOrdered
      <3> QED
        BY <3>2, <3>3
    <2>2. ASSUME NEW c \in Fingerprints \cup {0}, NEW out, NEW signs,
                 Revoke(c, out, signs)
          PROVE  AllBehind' /\ EnvelopesOrdered'
      <3>1. /\ mem' \in Envelopes
            /\ mem.list \subseteq mem'.list
            /\ mem' = mem \/ mem'.ver = mem.ver + 1
            /\ forgot' = forgot
            /\ sent' \in {sent, sent \cup {mem'}}
        BY <2>2, AddFacts DEF Revoke, TypeOK
      <3>2. mem'.ver \in Nat
        BY <3>1 DEF Envelopes
      <3>3. ~forgot => \A e \in sent : Behind(e)'
        BY <2>0, <3>1, <3>2 DEF AllBehind, Behind
      <3>4. AllBehind'
        BY <2>0, <3>1, <3>2, <3>3 DEF AllBehind, Behind
      <3>5. EnvelopesOrdered'
        BY <2>0, <3>1, <3>2, <3>3 DEF Behind, EnvelopesOrdered
      <3> QED
        BY <3>4, <3>5
    <2>3. CASE NebulaExit
      BY <2>3 DEF NebulaExit, AllBehind, Behind, EnvelopesOrdered
    <2>4. CASE Crash
      BY <2>4 DEF Crash, AllBehind, Behind, EnvelopesOrdered
    <2>5. CASE Serve
      BY <2>5 DEF Serve, AllBehind, Behind, EnvelopesOrdered, TypeOK
    <2>6. CASE UNCHANGED vars
      BY <2>6 DEF vars, AllBehind, Behind, EnvelopesOrdered
    <2> QED
      BY <2>1, <2>2, <2>3, <2>4, <2>5, <2>6 DEF Next
  <1> QED
    BY <1>1, <1>2, LedgerTypeCorrect, PTL DEF Spec

\* Signed envelopes are ordered as their versions are (revoke, signSecurity),
\* whatever fails and restarts, as long as no crash discarded a revocation.
THEOREM EnvelopesStayOrdered == Spec => []EnvelopesOrdered
  BY OrderAlways, PTL

\* Version 0 is the empty list, in memory, on disk and in every envelope.
Zero(e) == e.ver = 0 => e.list = {}
ZeroIsEmpty == Zero(mem) /\ Zero(disk) /\ \A e \in sent : Zero(e)

\* Only the empty list has version 0.
LEMMA ZeroAlways == Spec => []ZeroIsEmpty
  <1>1. Init => ZeroIsEmpty
    BY DEF Init, ZeroIsEmpty, Zero
  <1>2. TypeOK /\ ZeroIsEmpty /\ [Next]_vars => ZeroIsEmpty'
    <2> SUFFICES ASSUME TypeOK, ZeroIsEmpty, [Next]_vars PROVE ZeroIsEmpty'
      OBVIOUS
    <2> USE DEF ZeroIsEmpty, Zero
    <2>1. ASSUME NEW out, NEW signs, Work(out, signs) PROVE ZeroIsEmpty'
      BY <2>1 DEF Work
    <2>2. ASSUME NEW c \in Fingerprints \cup {0}, NEW out, NEW signs,
                 Revoke(c, out, signs)
          PROVE  ZeroIsEmpty'
      <3>1. mem' = mem \/ mem'.ver = mem.ver + 1
        BY <2>2, AddFacts DEF Revoke, TypeOK
      <3>2. /\ disk' \in {disk, mem'} /\ sent' \in {sent, sent \cup {mem'}}
            /\ mem.ver \in Nat
        BY <2>2 DEF Revoke, TypeOK, Envelopes
      <3> QED
        BY <3>1, <3>2
    <2>3. CASE NebulaExit
      BY <2>3 DEF NebulaExit
    <2>4. CASE Crash
      BY <2>4 DEF Crash
    <2>5. CASE Serve
      BY <2>5 DEF Serve
    <2>6. CASE UNCHANGED vars
      BY <2>6 DEF vars
    <2> QED
      BY <2>1, <2>2, <2>3, <2>4, <2>5, <2>6 DEF Next
  <1> QED
    BY <1>1, <1>2, LedgerTypeCorrect, PTL DEF Spec

-----------------------------------------------------------------------------
(* RevocationSync: the server is a ledger, whatever its receivers do.      *)

\* What the receivers do is a stutter of the ledger.
LEMMA ServerIsLedger == SyncSpec => Spec
  <1>1. SyncInit => Init
    BY DEF SyncInit
  <1>2. [SyncNext]_allVars => [Next]_vars
    BY DEF SyncNext, allVars, ledgerVars, vars
  <1> QED
    BY <1>1, <1>2, PTL DEF SyncSpec, Spec

LedgerFacts == TypeOK /\ AllBehind /\ EnvelopesOrdered /\ ZeroIsEmpty

\* What was proved of the ledger, in one predicate.
LEMMA LedgerFactsAlways == SyncSpec => []LedgerFacts
  <1>1. TypeOK /\ AllBehind /\ EnvelopesOrdered /\ ZeroIsEmpty => LedgerFacts
    BY DEF LedgerFacts
  <1> QED
    BY <1>1, ServerIsLedger, LedgerTypeCorrect, OrderAlways, ZeroAlways, PTL

\* What a receiver may hold: a signed envelope, or the list it began with.
Circulating == sent \cup {NewList}

\* What a receiver may hold: signed envelopes and the list of a new client.
LEMMA CirculatingFacts ==
    ASSUME LedgerFacts
    PROVE  /\ Circulating \subseteq Envelopes /\ NewList \in Circulating
           /\ \A e \in Circulating : e.ver \in Nat /\ Zero(e)
           /\ ~forgot => \A e \in Circulating : Behind(e)
           /\ ~forgot => \A e, f \in Circulating :
                             e.ver <= f.ver => e.list \subseteq f.list
  <1>1. NewList \in Envelopes /\ NewList.ver = 0 /\ NewList.list = {}
    BY DEF NewList, Envelopes
  <1>2. mem.ver \in Nat /\ \A e \in Circulating : e \in Envelopes
    BY <1>1 DEF LedgerFacts, TypeOK, Circulating, Envelopes
  <1>3. \A e \in Circulating : e.ver \in Nat /\ Zero(e)
    BY <1>1, <1>2 DEF LedgerFacts, ZeroIsEmpty, Zero, Circulating, Envelopes
  <1>4. ~forgot => \A e \in Circulating : Behind(e)
    BY <1>1, <1>2 DEF LedgerFacts, AllBehind, Behind, Circulating,
                      ZeroIsEmpty, Zero
  <1>5. ~forgot => \A e, f \in Circulating :
                       e.ver <= f.ver => e.list \subseteq f.list
    BY <1>1, <1>3 DEF LedgerFacts, EnvelopesOrdered, Circulating, Zero
  <1> QED
    BY <1>1, <1>2, <1>3, <1>4, <1>5 DEF Circulating

\* What the receivers hold came from the server; what the guard of a client
\* has applied is not newer than its file; Nebula's config and a service the
\* guard counts as up to date have the saved list.
Held ==
    /\ \A r \in Receivers : saved[r] \in Circulating
    /\ \A n \in Nodes : known[n] \in Circulating
    /\ \A c \in Clients : long[c].state \in Circulating

GuardBehind == \A c \in Clients : ~regressed[c] =>
    applied[c] <= requested[c] /\ requested[c] <= saved[c].ver

SyncInvariant ==
    /\ SyncTypeOK /\ Held /\ GuardBehind
    /\ ConfigHoldsSavedList /\ GuardedServiceUpToDate

\* Receivers start with the empty list.
LEMMA SyncInvariantInit == ASSUME SyncInit PROVE SyncInvariant
  <1>1. NewList \in Envelopes /\ NewList.ver = 0 /\ NewList.list = {}
    BY DEF NewList, Envelopes
  <1>2. NoHandler \in [step : {"none", "loaded", "written"},
                       state : Envelopes]
    BY <1>1 DEF NoHandler
  <1>3. Running({}) \in [running : BOOLEAN, list : SUBSET Fingerprints]
    BY DEF Running
  <1>4. SyncTypeOK
    BY <1>1, <1>2, <1>3 DEF SyncInit, SyncTypeOK, Receivers
  <1>5. Held /\ GuardBehind
    BY <1>1 DEF SyncInit, Held, GuardBehind, Circulating, NoHandler,
                Receivers
  <1>6. ConfigHoldsSavedList /\ GuardedServiceUpToDate
    BY <1>1 DEF SyncInit, ConfigHoldsSavedList, GuardedServiceUpToDate,
                Receivers
  <1> QED
    BY <1>4, <1>5, <1>6 DEF SyncInvariant

\* A step of the server.
LEMMA ServerStepSound ==
    ASSUME SyncInvariant, Next, UNCHANGED syncVars PROVE SyncInvariant'
  <1>1. sent \subseteq sent' /\ (forgot => forgot')
    <2>1. ASSUME NEW c, NEW out, NEW signs, Revoke(c, out, signs)
          PROVE  sent \subseteq sent' /\ (forgot => forgot')
      BY <2>1 DEF Revoke
    <2>2. ASSUME NEW out, NEW signs, Work(out, signs)
          PROVE  sent \subseteq sent' /\ (forgot => forgot')
      BY <2>2 DEF Work
    <2>3. CASE NebulaExit \/ Serve
      BY <2>3 DEF NebulaExit, Serve
    <2>4. CASE Crash
      BY <2>4 DEF Crash
    <2> QED
      BY <2>1, <2>2, <2>3, <2>4 DEF Next
  <1>2. UNCHANGED <<saved, known, config, service, requested, applied, long,
                    handlers, regressed>>
    BY DEF syncVars, clientVars, nodeVars
  <1>3. SyncTypeOK' /\ Held' /\ GuardBehind'
    BY <1>1, <1>2 DEF SyncInvariant, SyncTypeOK, Held, GuardBehind,
                      Circulating
  <1>4. ConfigHoldsSavedList' /\ GuardedServiceUpToDate'
    BY <1>1, <1>2 DEF SyncInvariant, ConfigHoldsSavedList,
                      GuardedServiceUpToDate, Regressed
  <1> QED
    BY <1>3, <1>4 DEF SyncInvariant

\* The order of versions is the order of lists, among what receivers hold.
LEMMA HeldOrdered ==
    ASSUME LedgerFacts, ~forgot, NEW e \in Circulating, NEW f \in Circulating
    PROVE  /\ e.ver <= f.ver => e.list \subseteq f.list
           /\ e.ver \in Nat /\ f.ver \in Nat
  BY CirculatingFacts

\* A service that runs with list l, and one that does not run.
LEMMA RunningFacts ==
    ASSUME NEW l \in SUBSET Fingerprints
    PROVE  /\ Running(l) \in [running : BOOLEAN, list : SUBSET Fingerprints]
           /\ Running(l).running /\ Running(l).list = l
           /\ Stopped \in [running : BOOLEAN, list : SUBSET Fingerprints]
           /\ ~Stopped.running
  BY DEF Running, Stopped

\* The steps of a client that write its files.
LEMMA ApplyEnvelopeSound ==
    ASSUME LedgerFacts, SyncInvariant, UNCHANGED ledgerVars,
           NEW c \in Clients, NEW e \in sent, NEW out, ApplyEnvelope(c, e, out)
    PROVE  SyncInvariant'
  <1>1. /\ e \in Circulating /\ e \in Envelopes /\ e.ver > saved[c].ver
        /\ UNCHANGED <<known, service, requested, applied, long, handlers,
                       regressed, sent, forgot>>
    BY CirculatingFacts DEF ApplyEnvelope, clientVars, nodeVars, ledgerVars,
                            vars, Circulating
  <1>2. /\ config' = [config EXCEPT ![c] = e.list]
        /\ \/ saved' = saved
           \/ saved' = [saved EXCEPT ![c] = e]
    <2>1. saved \in [Receivers -> Envelopes]
      BY DEF SyncInvariant, SyncTypeOK
    <2> QED
      BY <2>1 DEF ApplyEnvelope, Receivers
  <1>3. /\ c \in Receivers /\ c \notin Nodes /\ e.list \subseteq Fingerprints
        /\ e.ver \in Nat
    BY <1>1, SyncAssumption DEF SyncAssumption, Receivers, Envelopes
  <1>4. /\ saved' \in [Receivers -> Envelopes]
        /\ config' \in [Receivers -> SUBSET Fingerprints]
        /\ saved'[c] \in {saved[c], e} /\ config'[c] = e.list
        /\ \A r \in Receivers \ {c} :
              saved'[r] = saved[r] /\ config'[r] = config[r]
    BY <1>1, <1>2, <1>3 DEF SyncInvariant, SyncTypeOK
  <1>5. SyncTypeOK'
    BY <1>1, <1>3, <1>4 DEF SyncInvariant, SyncTypeOK, Receivers
  <1>6. Held'
    BY <1>1, <1>4 DEF SyncInvariant, Held, Circulating
  <1>7. saved[c].ver \in Nat /\ saved[c] \in Circulating
    BY <1>3, CirculatingFacts DEF SyncInvariant, Held
  <1>8. GuardBehind'
    <2>1. \A d \in Clients : requested[d] \in Nat /\ applied[d] \in Nat
      BY DEF SyncInvariant, SyncTypeOK
    <2> QED
      BY <1>1, <1>3, <1>4, <1>7, <2>1
      DEF SyncInvariant, GuardBehind, Receivers
  <1>9. ConfigHoldsSavedList'
    <2>1. ~forgot => saved[c].list \subseteq e.list
      BY <1>1, <1>3, <1>7, HeldOrdered
    <2> QED
      BY <1>1, <1>4, <2>1
      DEF SyncInvariant, ConfigHoldsSavedList, Regressed
  <1>10. GuardedServiceUpToDate'
    <2>1. ASSUME saved'[c] = e, ~regressed[c] PROVE ~(applied[c] >= e.ver)
      <3>1. /\ applied[c] <= requested[c] /\ requested[c] <= saved[c].ver
            /\ applied[c] \in Nat /\ requested[c] \in Nat
        BY <2>1 DEF SyncInvariant, SyncTypeOK, GuardBehind
      <3> QED
        BY <1>1, <1>3, <1>7, <3>1
    <2> QED
      BY <1>1, <1>4, <2>1
      DEF SyncInvariant, GuardedServiceUpToDate, Receivers
  <1> QED
    BY <1>5, <1>6, <1>8, <1>9, <1>10 DEF SyncInvariant

\* A long handler of the client writes the config of its copy.
LEMMA LongWritesConfigSound ==
    ASSUME LedgerFacts, SyncInvariant, UNCHANGED ledgerVars,
           NEW c \in Clients, LongWritesConfig(c)
    PROVE  SyncInvariant'
  <1> DEFINE state == long[c].state
  <1>1. /\ c \in Receivers /\ state \in Circulating /\ state \in Envelopes
        /\ saved[c] \in Circulating
    BY CirculatingFacts DEF SyncInvariant, Held, Receivers
  <1>2. /\ config' = [config EXCEPT ![c] = state.list]
        /\ long' = [long EXCEPT ![c].step = "written"]
        /\ regressed' = [regressed EXCEPT
                            ![c] = @ \/ saved[c].ver # state.ver]
        /\ UNCHANGED <<saved, known, service, requested, applied, handlers,
                       sent, forgot>>
    BY DEF LongWritesConfig, nodeVars, ledgerVars, vars
  <1>3. /\ config' \in [Receivers -> SUBSET Fingerprints]
        /\ config'[c] = state.list
        /\ \A r \in Receivers \ {c} : config'[r] = config[r]
    BY <1>1, <1>2 DEF SyncInvariant, SyncTypeOK, Envelopes
  <1>4. /\ long' \in [Clients -> [step : {"none", "loaded", "written"},
                                  state : Envelopes]]
        /\ \A d \in Clients : long'[d].state = long[d].state
    BY <1>2 DEF SyncInvariant, SyncTypeOK
  <1>5. /\ regressed' \in [Clients -> BOOLEAN]
        /\ ~regressed'[c] => ~regressed[c] /\ saved[c].ver = state.ver
        /\ \A d \in Clients \ {c} : regressed'[d] = regressed[d]
    BY <1>2 DEF SyncInvariant, SyncTypeOK
  <1>6. SyncTypeOK' /\ Held' /\ GuardBehind'
    BY <1>2, <1>3, <1>4, <1>5
    DEF SyncInvariant, SyncTypeOK, Held, GuardBehind, Circulating
  <1>7. ~forgot /\ saved[c].ver = state.ver =>
            saved[c].list \subseteq state.list
    BY <1>1, HeldOrdered
  <1>8. ConfigHoldsSavedList'
    BY <1>2, <1>3, <1>5, <1>7
    DEF SyncInvariant, ConfigHoldsSavedList, Regressed
  <1>9. GuardedServiceUpToDate'
    BY <1>2, <1>5 DEF SyncInvariant, GuardedServiceUpToDate
  <1> QED
    BY <1>6, <1>8, <1>9 DEF SyncInvariant

\* A long handler of the client saves its copy, or rolls it back.
LEMMA LongSavesSound ==
    ASSUME LedgerFacts, SyncInvariant, UNCHANGED ledgerVars,
           NEW c \in Clients, NEW rollback \in BOOLEAN, LongSaves(c, rollback)
    PROVE  SyncInvariant'
  <1> DEFINE state == long[c].state
  <1>1. /\ c \in Receivers /\ c \notin Nodes
        /\ state \in Circulating /\ state \in Envelopes
        /\ saved[c] \in Circulating /\ NewList \in Circulating
        /\ NewList \in Envelopes
    BY CirculatingFacts, SyncAssumption
    DEF SyncAssumption, SyncInvariant, Held, Receivers
  <1>2. /\ saved' = [saved EXCEPT ![c] = state]
        /\ regressed' = [regressed EXCEPT
                            ![c] = @ \/ saved[c].ver # state.ver]
        /\ UNCHANGED <<config, known, service, requested, applied, handlers,
                       sent, forgot>>
    BY DEF LongSaves, nodeVars, ledgerVars, vars
  <1>3. /\ saved' \in [Receivers -> Envelopes] /\ saved'[c] = state
        /\ \A r \in Receivers \ {c} : saved'[r] = saved[r]
    BY <1>1, <1>2 DEF SyncInvariant, SyncTypeOK
  <1>4. /\ long' \in [Clients -> [step : {"none", "loaded", "written"},
                                  state : Envelopes]]
        /\ \A d \in Clients : long'[d].state \in {long[d].state, NewList}
    <2>1. /\ NoHandler \in [step : {"none", "loaded", "written"},
                            state : Envelopes]
          /\ NoHandler.state = NewList
      BY <1>1 DEF NoHandler
    <2>2. CASE rollback
      <3>1. long' = [long EXCEPT ![c] = [@ EXCEPT !.step = "loaded"]]
        BY <2>2 DEF LongSaves
      <3> QED
        BY <3>1 DEF SyncInvariant, SyncTypeOK
    <2>3. CASE ~rollback
      <3>1. long' = [long EXCEPT ![c] = NoHandler]
        BY <2>3 DEF LongSaves
      <3> QED
        BY <2>1, <3>1 DEF SyncInvariant, SyncTypeOK
    <2> QED
      BY <2>2, <2>3
  <1>5. /\ regressed' \in [Clients -> BOOLEAN]
        /\ ~regressed'[c] => ~regressed[c] /\ saved[c].ver = state.ver
        /\ \A d \in Clients \ {c} : regressed'[d] = regressed[d]
    BY <1>2 DEF SyncInvariant, SyncTypeOK
  <1>6. SyncTypeOK'
    BY <1>1, <1>2, <1>3, <1>4, <1>5
    DEF SyncInvariant, SyncTypeOK, Receivers
  <1>7. Held'
    BY <1>1, <1>2, <1>3, <1>4 DEF SyncInvariant, Held, Circulating
  <1>8. GuardBehind'
    BY <1>2, <1>3, <1>5 DEF SyncInvariant, GuardBehind, Receivers
  <1>9. ~forgot /\ saved[c].ver = state.ver => saved[c].list = state.list
    <2>1. ASSUME ~forgot, saved[c].ver = state.ver
          PROVE  /\ saved[c].list \subseteq state.list
                 /\ state.list \subseteq saved[c].list
      <3> HIDE DEF state
      <3>1. saved[c].ver \in Nat /\ state.ver \in Nat
        BY <1>1, CirculatingFacts
      <3>2. saved[c].ver <= state.ver /\ state.ver <= saved[c].ver
        BY <2>1, <3>1
      <3> QED
        BY <1>1, <2>1, <3>2, HeldOrdered
    <2> QED
      BY <2>1
  <1>10. ConfigHoldsSavedList'
    BY <1>2, <1>3, <1>5, <1>9
    DEF SyncInvariant, ConfigHoldsSavedList, Regressed
  <1>11. GuardedServiceUpToDate'
    BY <1>2, <1>3, <1>5, <1>9
    DEF SyncInvariant, GuardedServiceUpToDate, Receivers
  <1> QED
    BY <1>6, <1>7, <1>8, <1>10, <1>11 DEF SyncInvariant

\* The Route Guard, and whoever starts and stops the service.
LEMMA GuardSound ==
    ASSUME LedgerFacts, SyncInvariant, UNCHANGED ledgerVars,
           NEW c \in Clients,
           \/ GuardReads(c) \/ GuardApplies(c) \/ GuardRestarts(c)
           \/ ServiceStarts(c) \/ ServiceStops(c)
    PROVE  SyncInvariant'
  <1>1. /\ UNCHANGED <<saved, config, known, long, handlers, regressed, sent,
                       forgot>>
        /\ c \in Receivers
    BY DEF GuardReads, GuardApplies, GuardRestarts, ServiceStarts,
           ServiceStops, clientVars, nodeVars, ledgerVars, vars, Receivers
  <1>2. /\ config[c] \in SUBSET Fingerprints
        /\ saved[c].ver \in Nat /\ Zero(saved[c])
        /\ requested[c] \in Nat /\ applied[c] \in Nat
    BY <1>1, CirculatingFacts DEF SyncInvariant, SyncTypeOK, Held
  <1>3. /\ service' \in [Receivers -> [running : BOOLEAN,
                                       list : SUBSET Fingerprints]]
        /\ service'[c] \in {service[c], Running(config[c]), Stopped}
        /\ \A r \in Receivers \ {c} : service'[r] = service[r]
    <2>1. \/ service' = service
          \/ \E p \in {Running(config[c]), service[c], Stopped} :
                service' = [service EXCEPT ![c] = p]
      BY DEF GuardReads, GuardApplies, GuardRestarts, ServiceStarts,
             ServiceStops
    <2> QED
      BY <1>1, <1>2, <2>1, RunningFacts DEF SyncInvariant, SyncTypeOK
  <1>4. /\ requested' \in [Clients -> Nat] /\ applied' \in [Clients -> Nat]
        /\ \A d \in Clients \ {c} :
              requested'[d] = requested[d] /\ applied'[d] = applied[d]
        /\ \/ requested'[c] = requested[c] /\ applied'[c] = applied[c]
              /\ service'[c] \in {service[c], Running(config[c]), Stopped}
           \/ requested'[c] = saved[c].ver /\ applied'[c] = applied[c]
              /\ service' = service
           \/ requested'[c] = requested[c] /\ applied'[c] = requested[c]
              /\ service'[c] \in {Running(config[c]), Stopped}
           \/ requested'[c] = 0 /\ applied'[c] = 0 /\ service' = service
    <2>1. CASE GuardReads(c)
      BY <1>2, <2>1 DEF GuardReads, SyncInvariant, SyncTypeOK
    <2>2. CASE GuardApplies(c)
      BY <1>1, <1>2, <2>2 DEF GuardApplies, SyncInvariant, SyncTypeOK
    <2>3. CASE GuardRestarts(c)
      BY <2>3 DEF GuardRestarts, SyncInvariant, SyncTypeOK
    <2>4. CASE ServiceStarts(c) \/ ServiceStops(c)
      BY <1>3, <2>4
      DEF ServiceStarts, ServiceStops, clientVars, SyncInvariant, SyncTypeOK
    <2> QED
      BY <2>1, <2>2, <2>3, <2>4
  <1>5. SyncTypeOK' /\ Held' /\ ConfigHoldsSavedList'
    BY <1>1, <1>3, <1>4
    DEF SyncInvariant, SyncTypeOK, Held, ConfigHoldsSavedList, Regressed,
        Circulating
  <1>6. GuardBehind'
    <2>1. ~regressed[c] =>
              applied'[c] <= requested'[c] /\ requested'[c] <= saved[c].ver
      BY <1>2, <1>4 DEF SyncInvariant, GuardBehind
    <2> QED
      BY <1>1, <1>4, <2>1 DEF SyncInvariant, GuardBehind
  <1>7. GuardedServiceUpToDate'
    <2>1. ASSUME ~forgot, ~regressed[c], applied'[c] >= saved[c].ver,
                 service'[c].running
          PROVE  saved[c].list \subseteq service'[c].list
      <3>1. saved[c].list \subseteq config[c]
        BY <1>1, <2>1
        DEF SyncInvariant, ConfigHoldsSavedList, Regressed
      <3>2. CASE service'[c] \in {Running(config[c]), Stopped}
        BY <1>2, <2>1, <3>1, <3>2, RunningFacts
      <3>3. CASE service'[c] = service[c] /\ applied'[c] = applied[c]
        BY <2>1, <3>3 DEF SyncInvariant, GuardedServiceUpToDate
      <3>4. CASE applied'[c] = 0
        BY <1>2, <2>1, <3>4 DEF Zero
      <3> QED
        BY <1>4, <3>2, <3>3, <3>4
    <2> QED
      BY <1>1, <1>3, <1>4, <2>1
      DEF SyncInvariant, GuardedServiceUpToDate, Receivers
  <1> QED
    BY <1>5, <1>6, <1>7 DEF SyncInvariant

\* A long handler of the client loads a copy, or ends.
LEMMA LongRestSound ==
    ASSUME LedgerFacts, SyncInvariant, UNCHANGED ledgerVars,
           NEW c \in Clients, LongLoads(c) \/ LongEnds(c)
    PROVE  SyncInvariant'
  <1>1. UNCHANGED <<saved, config, known, service, requested, applied,
                    handlers, regressed, sent, forgot>>
    BY DEF LongLoads, LongEnds, nodeVars, ledgerVars, vars
  <1>2. /\ long' \in [Clients -> [step : {"none", "loaded", "written"},
                                  state : Envelopes]]
        /\ \A d \in Clients :
              long'[d].state \in {long[d].state, saved[c], NewList}
    <2>1. CASE LongLoads(c)
      <3>1. saved[c] \in Envelopes
        BY DEF SyncInvariant, SyncTypeOK, Receivers
      <3> QED
        BY <2>1, <3>1 DEF LongLoads, SyncInvariant, SyncTypeOK
    <2>2. CASE LongEnds(c)
      <3>1. NoHandler \in [step : {"none", "loaded", "written"},
                           state : Envelopes] /\ NoHandler.state = NewList
        BY CirculatingFacts DEF NoHandler
      <3> QED
        BY <2>2, <3>1 DEF LongEnds, SyncInvariant, SyncTypeOK
    <2> QED
      BY <2>1, <2>2
  <1>3. SyncTypeOK' /\ Held'
    BY <1>1, <1>2, CirculatingFacts
    DEF SyncInvariant, SyncTypeOK, Held, Circulating, Receivers
  <1>4. GuardBehind' /\ ConfigHoldsSavedList' /\ GuardedServiceUpToDate'
    BY <1>1 DEF SyncInvariant, GuardBehind, ConfigHoldsSavedList,
                GuardedServiceUpToDate, Regressed
  <1> QED
    BY <1>3, <1>4 DEF SyncInvariant

-----------------------------------------------------------------------------
(* Child nodes.                                                            *)

\* Only Nebula, or the handlers that will restart it, or what the process
\* knows, which is then what the file has.
LEMMA NodeRestSound ==
    ASSUME LedgerFacts, SyncInvariant, UNCHANGED ledgerVars,
           NEW n \in Nodes,
           \/ \E v \in handlers[n] : NodeRestartsNebula(n, v)
           \/ NodeNebulaExits(n) \/ NodeRestarts(n)
    PROVE  SyncInvariant'
  <1>1. /\ UNCHANGED <<saved, config, requested, applied, long, regressed,
                       sent, forgot>>
        /\ n \in Receivers /\ n \notin Clients
    BY SyncAssumption
    DEF NodeRestartsNebula, NodeNebulaExits, NodeRestarts, clientVars,
        ledgerVars, vars, Receivers, SyncAssumption
  <1>2. /\ service' \in [Receivers -> [running : BOOLEAN,
                                       list : SUBSET Fingerprints]]
        /\ \A r \in Receivers \ {n} : service'[r] = service[r]
    <2>1. \E p \in {Running(config[n]), service[n], Stopped} :
              service' = [service EXCEPT ![n] = p]
      BY DEF NodeRestartsNebula, NodeNebulaExits, NodeRestarts
    <2>2. config[n] \in SUBSET Fingerprints
      BY <1>1 DEF SyncInvariant, SyncTypeOK
    <2> QED
      BY <1>1, <2>1, <2>2, RunningFacts DEF SyncInvariant, SyncTypeOK
  <1>3. /\ known' \in [Nodes -> Envelopes]
        /\ \A m \in Nodes : known'[m] \in {known[m], saved[m]}
    BY DEF NodeRestartsNebula, NodeNebulaExits, NodeRestarts, SyncInvariant,
           SyncTypeOK, Receivers
  <1>4. handlers' \in [Nodes -> SUBSET Nat]
    BY DEF NodeRestartsNebula, NodeNebulaExits, NodeRestarts, SyncInvariant,
           SyncTypeOK
  <1>5. \A m \in Nodes : saved[m].ver <= known'[m].ver
    <2>1. ASSUME NEW m \in Nodes
          PROVE  saved[m].ver \in Nat /\ saved[m].ver <= known[m].ver
      BY DEF SyncInvariant, SyncTypeOK, Envelopes, Receivers
    <2>2. ASSUME NEW m \in Nodes PROVE saved[m].ver <= saved[m].ver
      BY <2>1
    <2> QED
      BY <1>3, <2>1, <2>2
  <1>6. SyncTypeOK' /\ Held'
    BY <1>1, <1>2, <1>3, <1>4, <1>5
    DEF SyncInvariant, SyncTypeOK, Held, Circulating, Receivers
  <1>7. GuardBehind' /\ ConfigHoldsSavedList' /\ GuardedServiceUpToDate'
    BY <1>1, <1>2
    DEF SyncInvariant, GuardBehind, ConfigHoldsSavedList,
        GuardedServiceUpToDate, Regressed, Receivers
  <1> QED
    BY <1>6, <1>7 DEF SyncInvariant

\* A push: what the process knows is never older than what the file has.
LEMMA NodeReceivesEffect ==
    ASSUME LedgerFacts, SyncInvariant, NEW n \in Nodes, NEW e \in sent,
           NEW out, NodeReceives(n, e, out)
    PROVE  \E s \in {known[n], e} :
              /\ saved[n].ver <= known[n].ver /\ known[n].ver <= s.ver
              /\ known' = [known EXCEPT ![n] = s]
              /\ \/ config' = [config EXCEPT ![n] = s.list]
                    /\ (saved' = saved \/ saved' = [saved EXCEPT ![n] = s])
                 \/ config' = config /\ saved' = saved
  <1> DEFINE newer == e.ver > known[n].ver
             s == IF newer THEN e ELSE known[n]
  <1>1. /\ e.ver \in Nat /\ known[n].ver \in Nat
        /\ saved[n].ver <= known[n].ver
        /\ saved \in [Receivers -> Envelopes]
        /\ config \in [Receivers -> SUBSET Fingerprints]
    BY DEF LedgerFacts, TypeOK, Envelopes, SyncInvariant, SyncTypeOK
  <1>2. known[n].ver <= s.ver /\ s \in {known[n], e}
    BY <1>1
  <1>3. /\ known' = [known EXCEPT ![n] = s]
        /\ config' = [config EXCEPT ![n] = IF out = "conf" THEN @
                                           ELSE s.list]
        /\ saved' = [saved EXCEPT ![n] =
                       IF newer /\ out \notin {"conf", "lost"} THEN s ELSE @]
    BY DEF NodeReceives
  <1>4. CASE out = "conf"
    <2>1. config' = config /\ saved' = saved
      BY <1>1, <1>3, <1>4
    <2> QED
      BY <1>1, <1>2, <1>3, <2>1
  <1>5. CASE out # "conf"
    <2>1. config' = [config EXCEPT ![n] = s.list]
      BY <1>3, <1>5
    <2>2. saved' = saved \/ saved' = [saved EXCEPT ![n] = s]
      BY <1>1, <1>3
    <2> QED
      BY <1>1, <1>2, <1>3, <2>1, <2>2
  <1> QED
    BY <1>4, <1>5

\* A child node receives an envelope.
LEMMA NodeReceivesSound ==
    ASSUME LedgerFacts, SyncInvariant, UNCHANGED ledgerVars,
           NEW n \in Nodes, NEW e \in sent, NEW out, NodeReceives(n, e, out)
    PROVE  SyncInvariant'
  <1>1. PICK s \in {known[n], e} :
              /\ saved[n].ver <= known[n].ver /\ known[n].ver <= s.ver
              /\ known' = [known EXCEPT ![n] = s]
              /\ \/ config' = [config EXCEPT ![n] = s.list]
                    /\ (saved' = saved \/ saved' = [saved EXCEPT ![n] = s])
                 \/ config' = config /\ saved' = saved
    BY NodeReceivesEffect
  <1>2. /\ UNCHANGED <<service, requested, applied, long, regressed, sent,
                       forgot>>
        /\ n \in Receivers /\ n \notin Clients
        /\ s \in Circulating /\ s \in Envelopes /\ e.ver \in Nat
        /\ s.list \subseteq Fingerprints
    BY CirculatingFacts, SyncAssumption
    DEF NodeReceives, clientVars, ledgerVars, vars, Receivers, Circulating,
        SyncAssumption, SyncInvariant, Held, Envelopes
  <1>3. /\ known' \in [Nodes -> Envelopes] /\ known'[n] = s
        /\ saved' \in [Receivers -> Envelopes] /\ saved'[n] \in {saved[n], s}
        /\ config' \in [Receivers -> SUBSET Fingerprints]
        /\ \/ config'[n] = s.list
           \/ config'[n] = config[n] /\ saved'[n] = saved[n]
        /\ \A m \in Nodes \ {n} : known'[m] = known[m]
        /\ \A r \in Receivers \ {n} :
              saved'[r] = saved[r] /\ config'[r] = config[r]
    <2> USE <1>1, <1>2
    <2>1. /\ saved \in [Receivers -> Envelopes]
          /\ known \in [Nodes -> Envelopes]
          /\ config \in [Receivers -> SUBSET Fingerprints]
      BY DEF SyncInvariant, SyncTypeOK
    <2>2. /\ known' \in [Nodes -> Envelopes] /\ known'[n] = s
          /\ \A m \in Nodes \ {n} : known'[m] = known[m]
      BY <2>1
    <2>3. CASE config' = config /\ saved' = saved
      BY <2>1, <2>2, <2>3
    <2>4. CASE /\ config' = [config EXCEPT ![n] = s.list]
               /\ saved' = saved \/ saved' = [saved EXCEPT ![n] = s]
      <3>1. /\ config' \in [Receivers -> SUBSET Fingerprints]
            /\ config'[n] = s.list
            /\ \A r \in Receivers \ {n} : config'[r] = config[r]
        BY <2>1, <2>4
      <3>2. /\ saved' \in [Receivers -> Envelopes]
            /\ saved'[n] \in {saved[n], s}
            /\ \A r \in Receivers \ {n} : saved'[r] = saved[r]
        BY <2>1, <2>4
      <3> QED
        BY <2>2, <3>1, <3>2
    <2> QED
      BY <2>3, <2>4
  <1>4. handlers' \in [Nodes -> SUBSET Nat]
    BY <1>2 DEF NodeReceives, SyncInvariant, SyncTypeOK
  <1>5. \A m \in Nodes : saved'[m].ver <= known'[m].ver
    <2>1. saved[n].ver \in Nat /\ known[n].ver \in Nat /\ s.ver \in Nat
      BY <1>2 DEF SyncInvariant, SyncTypeOK, Envelopes
    <2> QED
      BY <1>1, <1>3, <2>1 DEF SyncInvariant, SyncTypeOK, Receivers
  <1>6. SyncTypeOK' /\ Held'
    BY <1>2, <1>3, <1>4, <1>5
    DEF SyncInvariant, SyncTypeOK, Held, Circulating, Receivers
  <1>7. ConfigHoldsSavedList'
    <2>1. ~forgot => saved[n].list \subseteq s.list
      <3>1. saved[n] \in Circulating /\ known[n].ver \in Nat
        BY <1>2 DEF SyncInvariant, Held, SyncTypeOK, Envelopes
      <3>2. saved[n].ver \in Nat /\ s.ver \in Nat
        BY <1>2, <3>1, CirculatingFacts
      <3> QED
        BY <1>1, <1>2, <3>1, <3>2, HeldOrdered
    <2> QED
      BY <1>2, <1>3, <2>1
      DEF SyncInvariant, ConfigHoldsSavedList, Regressed
  <1>8. GuardBehind' /\ GuardedServiceUpToDate'
    BY <1>2, <1>3
    DEF SyncInvariant, GuardBehind, GuardedServiceUpToDate, Receivers
  <1> QED
    BY <1>6, <1>7, <1>8 DEF SyncInvariant

-----------------------------------------------------------------------------
\* Every step keeps the invariant.
LEMMA SyncInvariantStep ==
    ASSUME LedgerFacts, SyncInvariant, [SyncNext]_allVars
    PROVE  SyncInvariant'
  <1>1. CASE Next /\ UNCHANGED syncVars
    BY <1>1, ServerStepSound
  <1>2. ASSUME NEW c \in Clients, ClientStep(c), UNCHANGED ledgerVars
        PROVE  SyncInvariant'
    BY <1>2, ApplyEnvelopeSound, LongWritesConfigSound, LongSavesSound,
       GuardSound, LongRestSound DEF ClientStep
  <1>3. ASSUME NEW n \in Nodes, NodeStep(n), UNCHANGED ledgerVars
        PROVE  SyncInvariant'
    BY <1>3, NodeReceivesSound, NodeRestSound DEF NodeStep
  <1>4. CASE UNCHANGED allVars
    <2>1. UNCHANGED <<saved, known, config, service, requested, applied,
                      long, handlers, regressed, sent, forgot>>
      BY <1>4 DEF allVars, syncVars, clientVars, nodeVars, ledgerVars, vars
    <2>2. SyncTypeOK' /\ Held' /\ GuardBehind'
      BY <2>1 DEF SyncInvariant, SyncTypeOK, Held, GuardBehind, Circulating
    <2>3. ConfigHoldsSavedList' /\ GuardedServiceUpToDate'
      BY <2>1 DEF SyncInvariant, ConfigHoldsSavedList,
                  GuardedServiceUpToDate, Regressed
    <2> QED
      BY <2>2, <2>3 DEF SyncInvariant
  <1> QED
    BY <1>1, <1>2, <1>3, <1>4 DEF SyncNext

\* The facts about the ledger and the invariant hold together.
LEMMA SyncAlways == SyncSpec => [](LedgerFacts /\ SyncInvariant)
  <1>1. SyncInit => SyncInvariant
    BY SyncInvariantInit
  <1>2. LedgerFacts /\ SyncInvariant /\ [SyncNext]_allVars => SyncInvariant'
    BY SyncInvariantStep
  <1> QED
    BY <1>1, <1>2, LedgerFactsAlways, PTL DEF SyncSpec

\* A client or node whose version is not behind the server's has every
\* fingerprint the server has in memory, until a crash discards one: comparing
\* versions is enough (applyRevocationEnvelope, updateRevocations).
THEOREM VersionsMeanLists == SyncSpec => []VersionMeansList
  <1>1. ASSUME LedgerFacts, SyncInvariant, ~forgot, NEW r \in Receivers,
               saved[r].ver >= mem.ver
        PROVE  mem.list \subseteq saved[r].list
    <2>1. saved[r] \in Circulating /\ saved[r].ver \in Nat /\ mem.ver \in Nat
      BY <1>1, CirculatingFacts
      DEF SyncInvariant, Held, LedgerFacts, TypeOK, Envelopes
    <2>2. Behind(saved[r])
      BY <1>1, <2>1, CirculatingFacts
    <2> QED
      BY <1>1, <2>1, <2>2 DEF Behind
  <1>2. LedgerFacts /\ SyncInvariant => VersionMeansList
    BY <1>1 DEF VersionMeansList
  <1> QED
    BY <1>2, SyncAlways, PTL

\* A service the Route Guard counts as up to date runs with the list in the
\* state file, whoever restarted it last and whatever was received since.
THEOREM GuardedServicesUpToDate == SyncSpec => []GuardedServiceUpToDate
  <1>1. SyncInvariant => GuardedServiceUpToDate
    BY DEF SyncInvariant
  <1> QED
    BY <1>1, SyncAlways, PTL

\* Nebula's config blocks whatever the state file next to it says is revoked,
\* also between the two writes of a receiver.
THEOREM ConfigsHoldSavedLists == SyncSpec => []ConfigHoldsSavedList
  <1>1. SyncInvariant => ConfigHoldsSavedList
    BY DEF SyncInvariant
  <1> QED
    BY <1>1, SyncAlways, PTL

\* No late, repeated or reordered envelope takes a fingerprint away from what
\* a client or node has saved.
THEOREM SavedListsNeverShrink == SyncSpec => ListsNeverShrink
  <1> DEFINE Grows == ~forgot => \A r \in Receivers :
                 ~Regressed(r)' => saved[r].list \subseteq saved'[r].list
  <1>1. ASSUME LedgerFacts, SyncInvariant, [SyncNext]_allVars PROVE Grows
    <2> SUFFICES ASSUME ~forgot, NEW r \in Receivers, ~Regressed(r)',
                        saved'[r] # saved[r]
                 PROVE  saved[r].list \subseteq saved'[r].list
      OBVIOUS
    <2>0. saved[r] \in Circulating /\ saved[r].ver \in Nat
      BY <1>1, CirculatingFacts DEF SyncInvariant, Held
    <2>1. ASSUME NEW c \in Clients, NEW e \in sent, NEW out,
                 ApplyEnvelope(c, e, out)
          PROVE  saved[r].list \subseteq saved'[r].list
      <3>1. e \in Circulating /\ saved'[r] = e /\ r = c /\ e.ver > saved[r].ver
        BY <1>1, <2>1
        DEF ApplyEnvelope, SyncInvariant, SyncTypeOK, Circulating
      <3>2. e.ver \in Nat
        BY <1>1, <3>1, CirculatingFacts
      <3> QED
        BY <1>1, <2>0, <3>1, <3>2, HeldOrdered
    <2>2. ASSUME NEW c \in Clients, NEW rollback, LongSaves(c, rollback)
          PROVE  saved[r].list \subseteq saved'[r].list
      <3>1. /\ r = c /\ saved'[r] = long[c].state
            /\ long[c].state \in Circulating
        BY <1>1, <2>2 DEF LongSaves, SyncInvariant, SyncTypeOK, Held
      <3>2. regressed'[c] = (regressed[c] \/ saved[c].ver # long[c].state.ver)
        BY <1>1, <2>2 DEF LongSaves, SyncInvariant, SyncTypeOK
      <3>3. saved[r].ver = long[c].state.ver
        BY <3>1, <3>2 DEF Regressed
      <3> QED
        BY <1>1, <2>0, <3>1, <3>3, HeldOrdered
    <2>3. ASSUME NEW n \in Nodes, NEW e \in sent, NEW out,
                 NodeReceives(n, e, out)
          PROVE  saved[r].list \subseteq saved'[r].list
      <3>1. PICK s \in {known[n], e} :
                /\ saved[n].ver <= known[n].ver /\ known[n].ver <= s.ver
                /\ saved' = saved \/ saved' = [saved EXCEPT ![n] = s]
        BY <1>1, <2>3, NodeReceivesEffect
      <3>2. r = n /\ saved'[r] = s
        BY <1>1, <3>1 DEF SyncInvariant, SyncTypeOK
      <3>3. s \in Circulating /\ known[n] \in Circulating
        BY <1>1 DEF SyncInvariant, Held, Circulating
      <3>4. saved[n].ver \in Nat /\ known[n].ver \in Nat /\ s.ver \in Nat
        BY <1>1, <2>0, <3>2, <3>3, CirculatingFacts
      <3> QED
        BY <1>1, <2>0, <3>1, <3>2, <3>3, <3>4, HeldOrdered
    <2>4. ASSUME NEW c \in Clients,
                 \/ GuardReads(c) \/ GuardApplies(c) \/ GuardRestarts(c)
                 \/ ServiceStarts(c) \/ ServiceStops(c) \/ LongLoads(c)
                 \/ LongWritesConfig(c) \/ LongEnds(c)
          PROVE  FALSE
      BY <2>4 DEF GuardReads, GuardApplies, GuardRestarts, ServiceStarts,
                  ServiceStops, LongLoads, LongWritesConfig, LongEnds
    <2>5. ASSUME NEW n \in Nodes,
                 \/ \E v \in handlers[n] : NodeRestartsNebula(n, v)
                 \/ NodeNebulaExits(n) \/ NodeRestarts(n)
          PROVE  FALSE
      BY <2>5 DEF NodeRestartsNebula, NodeNebulaExits, NodeRestarts
    <2>6. ~UNCHANGED syncVars /\ ~UNCHANGED allVars
      BY DEF syncVars, allVars
    <2> QED
      BY <1>1, <2>1, <2>2, <2>3, <2>4, <2>5, <2>6
      DEF SyncNext, ClientStep, NodeStep
  <1>2. LedgerFacts /\ SyncInvariant /\ [SyncNext]_allVars => [Grows]_allVars
    BY <1>1
  <1> QED
    BY <1>2, SyncAlways, PTL DEF SyncSpec, ListsNeverShrink
=============================================================================
