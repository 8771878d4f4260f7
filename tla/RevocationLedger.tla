-------------------------- MODULE RevocationLedger --------------------------
(***************************************************************************)
(* What the main server promises about certificate revocation, without the *)
(* devices, hashes and staged identities: one versioned list, kept in      *)
(* memory, in the state file, in lighthouse.yml and in the Nebula child,   *)
(* grown one fingerprint at a time and handed to clients in envelopes.     *)
(* Registry implements it.                                                 *)
(*                                                                         *)
(* `out` is how the steps of a handler end, as in Registry.                *)
(***************************************************************************)
EXTENDS Integers

CONSTANTS Fingerprints,  \* what may be revoked
          Outcomes       \* how the steps of a handler may end

ASSUME LedgerAssumption ==
    /\ Fingerprints \subseteq Nat \ {0}
    /\ Outcomes \subseteq {"ok", "sign", "conf", "lost", "late", "restart"}

VARIABLES mem,     \* the list and its version in memory
          disk,    \* the list and its version in the state file
          conf,    \* the blocklist in lighthouse.yml
          nebula,  \* the child process and the blocklist it loaded
          up,      \* the server process is serving
          acked,   \* history: fingerprints whose revocation was answered 200
          sent,    \* history: the envelopes that were signed
          forgot   \* history: a crash discarded a revocation the file never had

vars == <<mem, disk, conf, nebula, up, acked, sent, forgot>>

Envelopes == [ver : Nat, list : SUBSET Fingerprints]

Running(list) == [running |-> TRUE, list |-> list]
Stopped == [running |-> FALSE, list |-> {}]

\* Mutant: the list grows, its version does not.
AddSameVersion(s, c) ==
    IF c = 0 \/ c \in s.list THEN s ELSE [s EXCEPT !.list = @ \cup {c}]

Add(s, c) ==
    IF c = 0 \/ c \in s.list
    THEN s
    ELSE [s EXCEPT !.list = @ \cup {c}, !.ver = @ + 1]

-----------------------------------------------------------------------------

\* A handler that revokes nothing: it may store the whole state, whatever is
\* in memory by then, and may sign the list.
Work(out, signs) ==
    /\ up
    /\ disk' = IF out = "lost" THEN disk ELSE mem
    /\ sent' = IF signs THEN sent \cup {mem} ELSE sent
    /\ UNCHANGED <<mem, conf, nebula, up, acked, forgot>>

\* A handler that revokes c: memory, lighthouse.yml, the state file, the
\* child process, the reply, in this order.  It stops at the first failure.
Revoke(c, out, signs) ==
    /\ up
    /\ mem' = Add(mem, c)
    /\ conf' = IF out = "conf" THEN conf ELSE mem'.list
    /\ disk' = IF out \in {"conf", "lost"} THEN disk ELSE mem'
    /\ nebula' \in CASE out = "ok" -> {Running(mem'.list)}
                     [] out = "restart" -> {nebula, Stopped}
                     [] OTHER -> {nebula}
    /\ acked' = IF out = "ok" /\ c # 0 THEN acked \cup {c} ELSE acked
    /\ sent' = IF out = "ok" /\ signs THEN sent \cup {mem'} ELSE sent
    /\ UNCHANGED <<up, forgot>>

NebulaExit ==
    /\ nebula.running
    /\ nebula' = Stopped
    /\ UNCHANGED <<mem, disk, conf, up, acked, sent, forgot>>

Crash ==
    /\ up
    /\ up' = FALSE
    /\ nebula' = Stopped
    /\ mem' = disk
    /\ forgot' = (forgot \/ disk # mem)
    /\ UNCHANGED <<disk, conf, acked, sent>>

Serve ==
    /\ ~up
    /\ up' = TRUE
    /\ mem' = disk
    /\ conf' = disk.list
    /\ nebula' = Running(disk.list)
    /\ UNCHANGED <<disk, acked, sent, forgot>>

Init ==
    /\ mem = [ver |-> 0, list |-> {}]
    /\ disk = mem
    /\ conf = {}
    /\ nebula = Stopped
    /\ up = FALSE
    /\ acked = {}
    /\ sent = {}
    /\ forgot = FALSE

Next ==
    \/ \E out \in Outcomes, signs \in BOOLEAN : Work(out, signs)
    \/ \E c \in Fingerprints \cup {0}, out \in Outcomes, signs \in BOOLEAN :
          Revoke(c, out, signs)
    \/ NebulaExit
    \/ Crash
    \/ Serve

Spec == Init /\ [][Next]_vars

-----------------------------------------------------------------------------

\* Type invariant, with the state file never newer than what is served: a
\* stopped server holds exactly what the file holds.
TypeOK ==
    /\ mem \in Envelopes
    /\ disk \in Envelopes
    /\ conf \subseteq Fingerprints
    /\ nebula \in [running : BOOLEAN, list : SUBSET Fingerprints]
    /\ up \in BOOLEAN
    /\ acked \subseteq Fingerprints
    /\ sent \subseteq Envelopes
    /\ forgot \in BOOLEAN
    /\ ~up => mem = disk

\* A revocation answered with 200 stays in force: it is in memory, in the
\* state file and in lighthouse.yml, and every Nebula child that runs has
\* loaded it, whatever writes fail and whenever the server crashes afterwards.
AckedInForce ==
    \A c \in acked :
        /\ c \in mem.list
        /\ c \in disk.list
        /\ c \in conf
        /\ nebula.running => c \in nebula.list

\* Two signed envelopes are ordered as their versions are: the later one
\* extends the earlier, and equal versions carry equal lists.  The clients
\* keep an envelope only when its version is greater, so they depend on it.
\* Only a crash that discards an unsaved revocation breaks it.
EnvelopesOrdered ==
    ~forgot => \A e, f \in sent : e.ver <= f.ver => e.list \subseteq f.list
=============================================================================
