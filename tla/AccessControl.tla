---------------------------- MODULE AccessControl ----------------------------
(***************************************************************************)
(* Who may use a device's published services.  The main server keeps, for  *)
(* each mapping and user name, where a request for access stands; the      *)
(* owner approves, rejects, pauses and resumes users.  The owner's client  *)
(* fetches its policies every two seconds, and after each of the page's    *)
(* actions, keeps the last answer in memory and decides by the address a   *)
(* connection comes from.                                                  *)
(*                                                                         *)
(* The server's handlers hold stateMu, change memory and then save all of  *)
(* it.  Deleting a device deletes every request it made.  The owner of the *)
(* mappings stays enrolled.                                                *)
(* The client's fetches overlap: an older answer may replace a newer one.  *)
(***************************************************************************)
EXTENDS Integers, FiniteSets

CONSTANTS
    Services,   \* mapping IDs of one owner
    Users,      \* names of other devices; a name may be enrolled again
    Visitors,   \* bound: users who ask, or whom the owner pauses
    Addresses,  \* mesh addresses; one may pass to another device
    Fetchers,   \* concurrent callers of refreshControl
    Loop,       \* the one that returns every two seconds
    Nil,
    MaxChanges,   \* bound: requests, answers, pauses and resumptions
    MaxBroken   \* bound: restarts and failing saves

ASSUME AccessAssumption ==
    /\ Loop \in Fetchers /\ Visitors \subseteq Users
    /\ Nil \notin Addresses
    /\ {MaxChanges, MaxBroken} \subseteq Nat

Statuses == {"none", "pending", "approved", "rejected", "paused", "open"}

VARIABLES
    guarded,    \* mappings created with ApprovalRequired
    published,  \* server, memory: the owner's mappings, from its heartbeats
    record,     \* server, memory: where each user's request stands
    address,    \* server, memory: the address of each enrolled name
    stored,     \* server, disk: all three
    control,    \* owner's client: the last answer of /v1/control
    fetch,      \* owner's client: answers fetched and not yet kept
    changes,    \* changes so far
    broken,     \* faults so far
    granted,    \* history: <<m, u>> the owner approved or resumed; neither
                \* a pause nor a deletion was answered 200 since
    ackedPause  \* history: <<m, u>> paused with 200, neither resumed nor
                \* deleted since

owner == <<control, fetch>>
accessHistory == <<granted, ackedPause>>
accessVars == <<guarded, published, record, stored, address, owner, changes,
                broken, accessHistory>>

Memory == [published |-> published, record |-> record, address |-> address]

\* saveJSON: the file may be replaced although the caller sees an error.
SavesAccess(ok) ==
    /\ stored' = Memory' \/ (~ok /\ stored' = stored)
    /\ IF ok THEN UNCHANGED broken
       ELSE broken < MaxBroken /\ broken' = broken + 1

Put(m, u, status) ==
    /\ changes < MaxChanges /\ changes' = changes + 1
    /\ record' = [record EXCEPT ![m][u] = status]

-----------------------------------------------------------------------------
(* Handlers of the server.                                                 *)

Heartbeat(S, ok) ==
    /\ published \subseteq S  \* bound: no mapping is deleted
    /\ published' = S
    /\ UNCHANGED <<guarded, record, address, owner, changes, accessHistory>>
    /\ SavesAccess(ok)

\* Addresses are unique: see Registry.
Enrol(u, x, ok) ==
    /\ address[u] = Nil /\ \A v \in Users : address[v] # x
    /\ address' = [address EXCEPT ![u] = x]
    /\ UNCHANGED <<guarded, published, record, owner, changes, accessHistory>>
    /\ SavesAccess(ok)

\* Mutant: a name's requests outlive its device.
DeleteKeepsRequests(u, ok) ==
    /\ address[u] # Nil
    /\ address' = [address EXCEPT ![u] = Nil]
    /\ granted' = IF ok THEN granted \ (Services \X {u}) ELSE granted
    /\ ackedPause' = ackedPause \ (Services \X {u})
    /\ UNCHANGED <<guarded, published, record, owner, changes>>
    /\ SavesAccess(ok)

\* removePeer deletes the device's requests with it.
DeleteDevice(u, ok) ==
    /\ address[u] # Nil
    /\ address' = [address EXCEPT ![u] = Nil]
    /\ record' = [m \in Services |-> [record[m] EXCEPT ![u] = "none"]]
    /\ granted' = IF ok THEN granted \ (Services \X {u}) ELSE granted
    /\ ackedPause' = ackedPause \ (Services \X {u})
    /\ UNCHANGED <<guarded, published, owner, changes>>
    /\ SavesAccess(ok)

\* Mutant: a user who was paused may ask again.
RequestAnyway(m, u, ok) ==
    /\ address[u] # Nil /\ m \in published \cap guarded
    /\ record[m][u] \in {"none", "rejected", "open", "paused"}
    /\ Put(m, u, "pending")
    /\ UNCHANGED <<guarded, published, address, owner, accessHistory>>
    /\ SavesAccess(ok)

\* POST /v1/access/request: a second request of a pending or approved user
\* changes nothing.
Request(m, u, ok) ==
    /\ address[u] # Nil /\ m \in published \cap guarded
    /\ record[m][u] \in {"none", "rejected", "open"}
    /\ Put(m, u, "pending")
    /\ UNCHANGED <<guarded, published, address, owner, accessHistory>>
    /\ SavesAccess(ok)

\* POST /v1/access/respond.
Respond(m, u, approve, ok) ==
    /\ record[m][u] = "pending"
    /\ Put(m, u, IF approve THEN "approved" ELSE "rejected")
    /\ granted' = IF approve THEN granted \cup {<<m, u>>} ELSE granted
    /\ UNCHANGED <<guarded, published, address, owner, ackedPause>>
    /\ SavesAccess(ok)

\* POST /v1/access/user: pauses a user, with or without a request, or resumes.
SetUser(m, u, pause, ok) ==
    /\ address[u] # Nil /\ m \in published
    /\ Put(m, u, IF pause THEN "paused"
                 ELSE IF m \in guarded THEN "approved" ELSE "open")
    /\ granted' = IF ~pause THEN granted \cup {<<m, u>>}
                  ELSE IF ok THEN granted \ {<<m, u>>} ELSE granted
    /\ ackedPause' = IF ~pause THEN ackedPause \ {<<m, u>>}
                     ELSE IF ok THEN ackedPause \cup {<<m, u>>} ELSE ackedPause
    /\ UNCHANGED <<guarded, published, address, owner>>
    /\ SavesAccess(ok)

ServerRestarts ==
    /\ broken < MaxBroken /\ broken' = broken + 1
    /\ published' = stored.published
    /\ record' = stored.record /\ address' = stored.address
    /\ UNCHANGED <<guarded, stored, owner, changes, accessHistory>>

-----------------------------------------------------------------------------
(* The owner's client.                                                     *)

\* Mutant: an open mapping's records are not looked up.
StatusOfGuarded(m, u) ==
    IF m \notin guarded THEN "open"
    ELSE IF record[m][u] # "none" THEN record[m][u] ELSE "not_requested"

StatusOf(m, u) ==
    IF record[m][u] # "none" THEN record[m][u]
    ELSE IF m \in guarded THEN "not_requested" ELSE "open"

\* buildDeviceControl: a policy for each mapping the server knows.  (History:
\* with the approvals that stood when the server gave the answer.)
Answer == [at |-> address,
           policy |-> [m \in published |-> [u \in Users |-> StatusOf(m, u)]],
           granted |-> granted]

\* A client that has just started knows nothing.
Nothing == [at |-> [u \in Users |-> Nil], policy |-> [m \in {} |-> Nil],
            granted |-> {}]

Fetch(f) ==
    /\ fetch[f] = Nil
    /\ fetch' = [fetch EXCEPT ![f] = Answer]
    /\ UNCHANGED <<guarded, published, record, stored, address, control,
                   changes,
                   broken, accessHistory>>

\* The answer is kept unless its revocation list or its DNS records could not
\* be put in place before.
Keep(f) ==
    /\ fetch[f] # Nil
    /\ control' = fetch[f]
    /\ fetch' = [fetch EXCEPT ![f] = Nil]
    /\ UNCHANGED <<guarded, published, record, stored, address, changes,
                   broken,
                   accessHistory>>

Drop(f) ==
    /\ fetch[f] # Nil
    /\ fetch' = [fetch EXCEPT ![f] = Nil]
    /\ UNCHANGED <<guarded, published, record, stored, address, control,
                   changes,
                   broken, accessHistory>>

OwnerRestarts ==
    /\ broken < MaxBroken /\ broken' = broken + 1
    /\ control' = Nothing
    /\ fetch' = [f \in Fetchers |-> Nil]
    /\ UNCHANGED <<guarded, published, record, stored, address, changes,
                   accessHistory>>

\* remoteAllowed: asked for every connection and every datagram.
Allowed(m, x) ==
    LET users == {u \in Users : control.at[u] = x} IN
    IF m \in DOMAIN control.policy /\ users # {} THEN
        \A u \in users : LET status == control.policy[m][u] IN
            /\ status # "paused"
            /\ m \in guarded => status \in {"approved", "open"}
    ELSE m \notin guarded

-----------------------------------------------------------------------------
AccessInit ==
    /\ guarded \in SUBSET Services /\ published = {}
    /\ record = [m \in Services |-> [u \in Users |-> "none"]]
    /\ address = [u \in Users |-> Nil]
    /\ stored = Memory
    /\ control = Nothing /\ fetch = [f \in Fetchers |-> Nil]
    /\ changes = 0 /\ broken = 0
    /\ granted = {} /\ ackedPause = {}

AccessNext ==
    \/ \E S \in SUBSET Services, ok \in BOOLEAN : Heartbeat(S, ok)
    \/ \E u \in Users, x \in Addresses, ok \in BOOLEAN : Enrol(u, x, ok)
    \/ \E u \in Users, ok \in BOOLEAN : DeleteDevice(u, ok)
    \/ \E m \in Services, u \in Visitors, ok, yes \in BOOLEAN :
        Request(m, u, ok) \/ Respond(m, u, yes, ok) \/ SetUser(m, u, yes, ok)
    \/ ServerRestarts
    \/ \E f \in Fetchers : Fetch(f) \/ Keep(f) \/ Drop(f)
    \/ OwnerRestarts

\* controlLoop returns every two seconds; an answer can be put in place if it
\* is tried again and again.
AccessFairness ==
    /\ WF_accessVars(Fetch(Loop))
    /\ SF_accessVars(Keep(Loop))

AccessSpec == AccessInit /\ [][AccessNext]_accessVars
AccessFairSpec == AccessSpec /\ AccessFairness

-----------------------------------------------------------------------------
(* Properties.                                                             *)

Records == [Services -> [Users -> Statuses]]
AddressBook == [Users -> Addresses \cup {Nil}]
Answers == [at : AddressBook,
            policy : UNION {[S -> [Users -> (Statuses \ {"none"})
                                            \cup {"not_requested"}]] :
                            S \in SUBSET Services},
            granted : SUBSET (Services \X Users)]

AccessTypeOK ==
    /\ guarded \subseteq Services /\ published \subseteq Services
    /\ record \in Records /\ address \in AddressBook
    /\ stored \in [published : SUBSET Services, record : Records,
                    address : AddressBook]
    /\ control \in Answers /\ fetch \in [Fetchers -> Answers \cup {Nil}]
    /\ changes \in 0 .. MaxChanges /\ broken \in 0 .. MaxBroken
    /\ {granted, ackedPause} \subseteq SUBSET (Services \X Users)

\* A mapping that needs approval lets an address in only on an answer that names
\* it as the address of a user whose approval stood when the server gave that
\* answer: the owner had approved or resumed the user, and no pause and no
\* deletion of the user's device had been answered with 200 since.  So a name
\* that is deleted and enrolled again has to be approved again.
GuardedNeedsApproval == \A m \in guarded, x \in Addresses : Allowed(m, x) =>
    \E u \in Users : control.at[u] = x /\ <<m, u>> \in control.granted

\* A pause the owner was answered 200 for stands until the owner resumes the
\* user or the user's device is deleted: no request of the user, answer to an
\* older request, failing save or restart of the server ends it.
AckedPauseStands == \A m \in Services, u \in Users :
    <<m, u>> \in ackedPause => record[m][u] = "paused"

\* A pause that stays takes hold: in the end the owner's client refuses the
\* user's address for good, although answers overtake each other and the client
\* forgets its policies when it restarts.
PauseTakesHold == \A m \in Services, u \in Users, x \in Addresses :
    <>[](m \in published /\ record[m][u] = "paused" /\ address[u] = x)
        => <>[](~Allowed(m, x))
=============================================================================
