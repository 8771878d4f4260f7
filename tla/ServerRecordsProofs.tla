------------------------ MODULE ServerRecordsProofs -------------------------
(***************************************************************************)
(* Proofs about the server's state file and its master key (StateFile),    *)
(* for any number of changes and commands, and about the access control    *)
(* of mapped services (AccessControl), for any users and services.         *)
(***************************************************************************)
EXTENDS StateFile, AccessControl, TLAPS

-----------------------------------------------------------------------------
(* The state file and the master key.                                      *)

Sealed == [key : Nat, val : SUBSET Nat]

CommandSteps ==
    {"idle", "make", "seal", "write", "rename", "keepState", "keptState", "keepKey",
     "keptKey", "remove", "install", "reseal", "rewrite", "swap", "verify",
     "key", "setKey", "state", "setState"}

Keeping == {"keepState", "keptState", "keepKey", "keptKey"}

\* Only the daemon makes a key; a command that will save has found one, and
\* while no key is being made a daemon that runs finds no empty file.
KeysFound ==
    /\ proc["command"] # "make"
    /\ proc["command"] \in {"seal", "reseal"} \cup Keeping => master \notin {0, Empty}
    /\ proc["command"] = "install" => next # 0
    /\ up /\ proc["daemon"] # "make" => master # Empty

FileShape ==
    /\ state \in Sealed /\ tmp \in Sealed /\ oldFile \in Sealed
    /\ master \in Nat \cup {Empty} /\ oldKey \in Nat /\ next \in Nat /\ keys \in Nat
    /\ edits \in Nat /\ mem \subseteq Nat /\ content \subseteq Nat
    /\ hand \in [Processes -> Sealed]
    /\ proc \in [Processes -> CommandSteps] /\ KeysFound

Backup == Opens(oldKey, oldFile)

\* What a process at one of these steps will put in place of the state: it is
\* sealed with the master key, or with the one about to be written.
InFlight ==
    /\ proc["daemon"] = "make" => master = Empty
    /\ \A p \in Processes : proc[p] = "write" => hand[p].key = master
    /\ \A p \in Processes :
          proc[p] = "rename" => tmp = Missing \/ tmp.key = master

\* The state opens, and will after every save that is under way.
InOrder == Opens(master, state) /\ InFlight

\* A handler that has seen no command holds what the master key seals.
FreshInFlight == fresh => proc["command"] = "idle" /\ InFlight

Swapping == {"remove", "install", "reseal", "rewrite", "swap", "verify",
             "key", "setKey", "state", "setState"}

\* While the backups are made anew the state is in order; once the key is
\* touched the backups fit together.
BackupsInTime ==
    /\ Backup \/ InOrder
    /\ proc["command"] \in Keeping => InOrder
    /\ proc["command"] = "keptState" => hand["command"].key = master
    /\ proc["command"] \in {"keepKey", "keptKey"} => oldFile.key = master
    /\ proc["command"] = "keptKey" => hand["command"].key = master
    /\ proc["command"] \in Swapping => Backup

RecoveryInvariant ==
    FileShape /\ FreshInFlight /\ (~gambled => BackupsInTime)

\* Nothing that was acknowledged is missing from what a process is about to
\* save, as long as no command and handler were at work at once.
NothingForgotten ==
    /\ acked \subseteq state.val
    /\ up => acked \subseteq mem
    /\ proc["daemon"] = "idle" \/ proc["command"] = "idle"
    /\ proc["command"] # "setState"
    /\ proc["daemon"] \in {"idle", "make", "write", "rename"}
    /\ proc["daemon"] \in {"make", "write"} => up /\ hand["daemon"].val = mem
    /\ proc["daemon"] = "rename" => up /\ tmp.val = mem
    /\ proc["command"] \in {"seal", "reseal"} \cup Keeping
                           \cup {"remove", "install"}
          => acked \subseteq content
    /\ proc["command"] \in {"write", "rewrite"}
          => acked \subseteq hand["command"].val
    /\ proc["command"] \in {"rename", "swap"}
          => tmp = Missing \/ acked \subseteq tmp.val

KeptInvariant == FileShape /\ (~overlap => NothingForgotten)
-----------------------------------------------------------------------------
\* A save seals with the master key; without one the daemon begins to make one.
LEMMA SealStep ==
    ASSUME FileShape, NEW p \in Processes, NEW val \in SUBSET Nat,
           NEW then \in CommandSteps, Seal(p, val, then)
    PROVE  /\ hand' = [hand EXCEPT ![p] = [key |-> master, val |-> val]]
           /\ \/ /\ master = 0 /\ master' = Empty
                 /\ proc' = [proc EXCEPT ![p] = "make"]
              \/ /\ master # 0 /\ master' = master
                 /\ proc' = [proc EXCEPT ![p] = then]
           /\ proc' \in [Processes -> CommandSteps]
  BY DEF Seal, GoTo, FileShape, CommandSteps

\* Every step keeps the files and the commands well formed.
LEMMA ShapeKept ==
    ASSUME FileShape, [FileNext]_fileVars PROVE FileShape'
  <1> USE DEF FileShape, KeysFound, Keeping, Empty, Sealed, Missing,
              Opens, Processes, CommandSteps, GoTo, Daemon, files, counters,
              history
  <1>1. CASE DaemonStarts
    BY <1>1 DEF DaemonStarts
  <1>2. ASSUME NEW b \in BOOLEAN, DaemonSeals(b) PROVE FileShape'
    <2>1. mem' \in SUBSET Nat /\ edits' \in Nat
      <3>1. \/ edits' = edits + 1 /\ mem' = mem \cup {edits + 1}
            \/ edits' = edits /\ mem' = mem
        BY <1>2 DEF DaemonSeals
      <3>2. edits + 1 \in Nat /\ mem \subseteq Nat
        BY DEF FileShape
      <3>3. edits' \in Nat
        BY <3>1, <3>2
      <3>4. ASSUME NEW e \in mem' PROVE e \in Nat
        <4>1. e \in mem \/ e = edits + 1
          BY <3>1
        <4> QED
          BY <3>2, <4>1
      <3> QED
        BY <3>3, <3>4
    <2>2. /\ hand' = [hand EXCEPT !["daemon"] = [key |-> master, val |-> mem']]
          /\ \/ /\ master = 0 /\ master' = Empty
                /\ proc' = [proc EXCEPT !["daemon"] = "make"]
             \/ /\ master # 0 /\ master' = master
                /\ proc' = [proc EXCEPT !["daemon"] = "write"]
      BY <1>2, <2>1, SealStep DEF DaemonSeals
    <2>3. /\ up /\ proc["daemon"] = "idle"
          /\ UNCHANGED <<state, tmp, oldKey, oldFile, next, up, content, keys>>
      BY <1>2 DEF DaemonSeals
    <2>4. hand' \in [Processes -> Sealed]
      BY <2>1, <2>2, <2>3
    <2> QED
      BY <2>1, <2>2, <2>3, <2>4
  <1>25. CASE DaemonMakesKey
    BY <1>25 DEF DaemonMakesKey
  <1>3. CASE DaemonWrites
    BY <1>3 DEF DaemonWrites, WriteTmp
  <1>4. CASE DaemonRenames
    BY <1>4 DEF DaemonRenames, Rename
  <1>5. CASE DaemonEnds
    BY <1>5 DEF DaemonEnds
  <1>6. CASE EditBegins
    BY <1>6 DEF EditBegins, Begins
  <1>7. CASE RotateBegins
    BY <1>7 DEF RotateBegins, Begins
  <1>8. CASE RestoreBegins
    BY <1>8 DEF RestoreBegins, Begins
  <1>9. CASE KeepStateBegins
    BY <1>9 DEF KeepStateBegins, Holds
  <1>10. CASE KeepStateEnds
    BY <1>10 DEF KeepStateEnds
  <1>11. CASE KeepKeyBegins
    BY <1>11 DEF KeepKeyBegins, Holds
  <1>12. CASE KeepKeyEnds
    BY <1>12 DEF KeepKeyEnds
  <1>13. CASE RemoveKey
    BY <1>13 DEF RemoveKey
  <1>14. CASE InstallKey
    BY <1>14 DEF InstallKey
  <1>15. CASE RotateVerifies
    BY <1>15 DEF RotateVerifies
  <1>16. CASE CommandSeals
    <2>1. /\ master \notin {0, Empty} /\ proc["command"] \in {"seal", "reseal"}
          /\ UNCHANGED <<state, tmp, oldKey, oldFile, next, up, mem, content,
                         edits, keys>>
      BY <1>16 DEF CommandSeals
    <2>2. /\ hand' = [hand EXCEPT !["command"] = [key |-> master,
                                                 val |-> content]]
          /\ master' = master
          /\ proc' = [proc EXCEPT !["command"] =
                         IF proc["command"] = "seal" THEN "write" ELSE "rewrite"]
      BY <1>16, <2>1 DEF CommandSeals, Seal
    <2> QED
      BY <2>1, <2>2
  <1>17. CASE CommandWrites
    BY <1>17 DEF CommandWrites, WriteTmp
  <1>18. CASE CommandRenames
    BY <1>18 DEF CommandRenames, Rename
  <1>19. CASE RestoreKeyBegins
    BY <1>19 DEF RestoreKeyBegins, Holds
  <1>20. CASE RestoreKeyEnds
    BY <1>20 DEF RestoreKeyEnds
  <1>21. CASE RestoreStateBegins
    BY <1>21 DEF RestoreStateBegins
  <1>22. CASE RestoreStateEnds
    BY <1>22 DEF RestoreStateEnds, Rename
  <1>23. CASE CommandEnds
    BY <1>23 DEF CommandEnds
  <1>24. CASE UNCHANGED fileVars
    BY <1>24 DEF fileVars
  <1> QED
    BY <1>1, <1>2, <1>25, <1>3, <1>4, <1>5, <1>6, <1>7, <1>8, <1>9, <1>10,
       <1>11, <1>12, <1>13, <1>14, <1>15, <1>16, <1>17, <1>18, <1>19, <1>20,
       <1>21, <1>22, <1>23, <1>24
       DEF FileNext, DaemonStep, Rotates, Saves, Restores

\* The master key and the backups are never touched in an order that leaves
\* neither pair whole.
LEMMA BackupsInTimeKept ==
    ASSUME RecoveryInvariant, FileShape', [FileNext]_fileVars
    PROVE  FreshInFlight' /\ (~gambled => BackupsInTime)'
  <1> DEFINE Goal == FreshInFlight' /\ (~gambled => BackupsInTime)'
  <1> SUFFICES Goal
    OBVIOUS
  <1> USE DEF RecoveryInvariant, FileShape, KeysFound, Empty, FreshInFlight,
              BackupsInTime, InOrder, InFlight, Backup, Opens, Keeping, Swapping, Sealed,
              Missing, Processes, CommandSteps, GoTo, Daemon, files, counters,
              history
  <1>1. CASE DaemonStarts
    BY <1>1 DEF DaemonStarts
  <1>2. ASSUME NEW b \in BOOLEAN, DaemonSeals(b) PROVE Goal
    <2>1. mem' \in SUBSET Nat
      BY DEF FileShape
    <2>2. Seal("daemon", mem', "write")
      BY <1>2 DEF DaemonSeals
    <2>3. /\ hand' = [hand EXCEPT !["daemon"] = [key |-> master, val |-> mem']]
          /\ \/ /\ master = 0 /\ master' = Empty
                /\ proc' = [proc EXCEPT !["daemon"] = "make"]
             \/ /\ master # 0 /\ master' = master
                /\ proc' = [proc EXCEPT !["daemon"] = "write"]
      BY <2>1, <2>2, SealStep
    <2> QED
      BY <1>2, <2>3 DEF DaemonSeals
  <1>25. CASE DaemonMakesKey
    BY <1>25 DEF DaemonMakesKey
  <1>3. CASE DaemonWrites
    BY <1>3 DEF DaemonWrites, WriteTmp
  <1>4. CASE DaemonRenames
    BY <1>4 DEF DaemonRenames, Rename
  <1>5. CASE DaemonEnds
    BY <1>5 DEF DaemonEnds
  <1>6. CASE EditBegins
    BY <1>6 DEF EditBegins, Begins
  <1>7. CASE RotateBegins
    BY <1>7 DEF RotateBegins, Begins
  <1>8. CASE RestoreBegins
    BY <1>8 DEF RestoreBegins, Begins
  <1>9. CASE KeepStateBegins
    BY <1>9 DEF KeepStateBegins, Holds
  <1>10. CASE KeepStateEnds
    BY <1>10 DEF KeepStateEnds
  <1>11. CASE KeepKeyBegins
    BY <1>11 DEF KeepKeyBegins, Holds
  <1>12. CASE KeepKeyEnds
    BY <1>12 DEF KeepKeyEnds
  <1>13. CASE RemoveKey
    BY <1>13 DEF RemoveKey
  <1>14. CASE InstallKey
    BY <1>14 DEF InstallKey
  <1>15. CASE RotateVerifies
    BY <1>15 DEF RotateVerifies
  <1>16. CASE CommandSeals
    BY <1>16, SealStep DEF CommandSeals
  <1>17. CASE CommandWrites
    BY <1>17 DEF CommandWrites, WriteTmp
  <1>18. CASE CommandRenames
    BY <1>18 DEF CommandRenames, Rename
  <1>19. CASE RestoreKeyBegins
    BY <1>19 DEF RestoreKeyBegins, Holds
  <1>20. CASE RestoreKeyEnds
    BY <1>20 DEF RestoreKeyEnds
  <1>21. CASE RestoreStateBegins
    BY <1>21 DEF RestoreStateBegins
  <1>22. CASE RestoreStateEnds
    BY <1>22 DEF RestoreStateEnds, Rename
  <1>23. CASE CommandEnds
    BY <1>23 DEF CommandEnds
  <1>24. CASE UNCHANGED fileVars
    BY <1>24 DEF fileVars
  <1> QED
    BY <1>1, <1>2, <1>25, <1>3, <1>4, <1>5, <1>6, <1>7, <1>8, <1>9, <1>10,
       <1>11, <1>12, <1>13, <1>14, <1>15, <1>16, <1>17, <1>18, <1>19, <1>20,
       <1>21, <1>22, <1>23, <1>24
       DEF FileNext, DaemonStep, Rotates, Saves, Restores

\* What a handler answered stays in everything that is about to be saved.
LEMMA NothingForgottenKept ==
    ASSUME KeptInvariant, FileShape', [FileNext]_fileVars
    PROVE  (~overlap => NothingForgotten)'
  <1> DEFINE Goal == (~overlap => NothingForgotten)'
  <1> SUFFICES Goal
    OBVIOUS
  <1> USE DEF KeptInvariant, FileShape, KeysFound, NothingForgotten, Keeping,
              Empty, Sealed,
              Missing, Processes, CommandSteps, GoTo, Daemon, files, counters,
              history
  <1>1. CASE DaemonStarts
    BY <1>1 DEF DaemonStarts
  <1>2. ASSUME NEW b \in BOOLEAN, DaemonSeals(b) PROVE Goal
    <2>1. mem' \in SUBSET Nat
      BY DEF FileShape
    <2>2. Seal("daemon", mem', "write")
      BY <1>2 DEF DaemonSeals
    <2>3. /\ hand' = [hand EXCEPT !["daemon"] = [key |-> master, val |-> mem']]
          /\ \/ /\ master = 0 /\ master' = Empty
                /\ proc' = [proc EXCEPT !["daemon"] = "make"]
             \/ /\ master # 0 /\ master' = master
                /\ proc' = [proc EXCEPT !["daemon"] = "write"]
      BY <2>1, <2>2, SealStep
    <2> QED
      BY <1>2, <2>3 DEF DaemonSeals
  <1>25. CASE DaemonMakesKey
    BY <1>25 DEF DaemonMakesKey
  <1>3. CASE DaemonWrites
    BY <1>3 DEF DaemonWrites, WriteTmp
  <1>4. CASE DaemonRenames
    BY <1>4 DEF DaemonRenames, Rename
  <1>5. CASE DaemonEnds
    BY <1>5 DEF DaemonEnds
  <1>6. CASE EditBegins
    BY <1>6 DEF EditBegins, Begins
  <1>7. CASE RotateBegins
    BY <1>7 DEF RotateBegins, Begins
  <1>8. CASE RestoreBegins
    BY <1>8 DEF RestoreBegins, Begins
  <1>9. CASE KeepStateBegins
    BY <1>9 DEF KeepStateBegins, Holds
  <1>10. CASE KeepStateEnds
    BY <1>10 DEF KeepStateEnds
  <1>11. CASE KeepKeyBegins
    BY <1>11 DEF KeepKeyBegins, Holds
  <1>12. CASE KeepKeyEnds
    BY <1>12 DEF KeepKeyEnds
  <1>13. CASE RemoveKey
    BY <1>13 DEF RemoveKey
  <1>14. CASE InstallKey
    BY <1>14 DEF InstallKey
  <1>15. CASE RotateVerifies
    BY <1>15 DEF RotateVerifies
  <1>16. CASE CommandSeals
    BY <1>16, SealStep DEF CommandSeals
  <1>17. CASE CommandWrites
    BY <1>17 DEF CommandWrites, WriteTmp
  <1>18. CASE CommandRenames
    BY <1>18 DEF CommandRenames, Rename
  <1>19. CASE RestoreKeyBegins
    BY <1>19 DEF RestoreKeyBegins, Holds
  <1>20. CASE RestoreKeyEnds
    BY <1>20 DEF RestoreKeyEnds
  <1>21. CASE RestoreStateBegins
    BY <1>21 DEF RestoreStateBegins
  <1>22. CASE RestoreStateEnds
    BY <1>22 DEF RestoreStateEnds, Rename
  <1>23. CASE CommandEnds
    BY <1>23 DEF CommandEnds
  <1>24. CASE UNCHANGED fileVars
    BY <1>24 DEF fileVars
  <1> QED
    BY <1>1, <1>2, <1>25, <1>3, <1>4, <1>5, <1>6, <1>7, <1>8, <1>9, <1>10,
       <1>11, <1>12, <1>13, <1>14, <1>15, <1>16, <1>17, <1>18, <1>19, <1>20,
       <1>21, <1>22, <1>23, <1>24
       DEF FileNext, DaemonStep, Rotates, Saves, Restores
-----------------------------------------------------------------------------
\* Wherever a rotation, a restore, an edit or the daemon is killed, for any
\* number of them and any interleaving: the state opens with the master key or
\* its backup with the backup of the key (the order in rotateServerMasterKey).
THEOREM AlwaysRecoverable == FileSpec => []Recoverable
  <1>1. FileInit => RecoveryInvariant
    BY DEF FileInit, RecoveryInvariant, FileShape, KeysFound, Empty, FreshInFlight,
           BackupsInTime, InOrder, InFlight, Backup, Opens, Keeping, Swapping,
           Sealed, Missing, Processes, CommandSteps
  <1>2. RecoveryInvariant /\ [FileNext]_fileVars => RecoveryInvariant'
    <2> SUFFICES ASSUME RecoveryInvariant, [FileNext]_fileVars
                 PROVE  RecoveryInvariant'
      OBVIOUS
    <2>1. FileShape'
      BY ShapeKept DEF RecoveryInvariant
    <2> QED
      BY <2>1, BackupsInTimeKept DEF RecoveryInvariant
  <1>3. RecoveryInvariant => Recoverable
    BY DEF RecoveryInvariant, BackupsInTime, InOrder, Backup, Recoverable
  <1> QED
    BY <1>1, <1>2, <1>3, PTL DEF FileSpec

\* As long as handlers and commands do not work at once and no backup comes
\* back, no kill of either loses a change that was answered with 200.
THEOREM AckedChangesStay == FileSpec => []AckedChangesKept
  <1>1. FileInit => KeptInvariant
    BY DEF FileInit, KeptInvariant, FileShape, KeysFound, Empty, NothingForgotten, Keeping,
           Sealed, Missing, Processes, CommandSteps
  <1>2. KeptInvariant /\ [FileNext]_fileVars => KeptInvariant'
    <2> SUFFICES ASSUME KeptInvariant, [FileNext]_fileVars
                 PROVE  KeptInvariant'
      OBVIOUS
    <2>1. FileShape'
      BY ShapeKept DEF KeptInvariant
    <2> QED
      BY <2>1, NothingForgottenKept DEF KeptInvariant
  <1>3. KeptInvariant => AckedChangesKept
    BY DEF KeptInvariant, NothingForgotten, AckedChangesKept
  <1> QED
    BY <1>1, <1>2, <1>3, PTL DEF FileSpec

-----------------------------------------------------------------------------
(* Access to guarded services.                                             *)

AccessShape ==
    /\ guarded \subseteq Services
    /\ published \subseteq Services /\ record \in Records
    /\ stored.published \subseteq Services /\ stored.record \in Records

\* A user of a guarded mapping is let in by the record only if an approval of
\* the owner stands.
Grants(r) == \A m \in guarded, u \in Users :
    r[m][u] \in {"approved", "open"} => <<m, u>> \in granted

\* The same of an answer and the time it was given at.
Sound(a) ==
    /\ DOMAIN a.policy \subseteq Services
    /\ \A m \in guarded \cap DOMAIN a.policy, u \in Users :
          a.policy[m][u] \in {"approved", "open"} => <<m, u>> \in a.granted

ApprovalInvariant ==
    /\ AccessShape /\ Grants(record) /\ Grants(stored.record)
    /\ Sound(control)
    /\ \A f \in Fetchers : fetch[f] # Nil => Sound(fetch[f])

\* An acknowledged pause is in memory and in the file a restart would load.
PausesStored == \A m \in Services, u \in Users : <<m, u>> \in ackedPause =>
    record[m][u] = "paused" /\ stored.record[m][u] = "paused"

PauseInvariant == AccessShape /\ PausesStored

-----------------------------------------------------------------------------
(* What the handlers do to the records.                                    *)

\* A save that succeeds makes the file what memory is; one that fails may.
LEMMA SaveEffect ==
    ASSUME NEW ok \in BOOLEAN, SavesAccess(ok)
    PROVE  /\ \/ stored'.record = record' /\ stored'.published = published'
              \/ ~ok /\ stored' = stored
  BY DEF SavesAccess, Memory

\* A handler that leaves the published mappings within Services and the records
\* well formed keeps the shape.
LEMMA SaveKeepsShape ==
    ASSUME AccessShape, NEW ok \in BOOLEAN, SavesAccess(ok),
           guarded' = guarded, published' \subseteq Services,
           record' \in Records
    PROVE  AccessShape'
  BY SaveEffect DEF AccessShape

\* One entry changes in memory.
LEMMA PutEffect ==
    ASSUME AccessShape, NEW m \in Services, NEW u \in Users,
           NEW status \in Statuses, Put(m, u, status)
    PROVE  /\ record' \in Records /\ record'[m][u] = status
           /\ \A n \in Services, v \in Users :
                 <<n, v>> # <<m, u>> => record'[n][v] = record[n][v]
  BY DEF AccessShape, Records, Put

\* The three handlers that change a record: each writes one status, which lets
\* the user in only if an approval of the owner stands.  An approval is taken
\* back by a pause that is in the file.
LEMMA ChangeEffect ==
    ASSUME AccessShape, NEW m \in Services, NEW u \in Users,
           NEW ok \in BOOLEAN, NEW yes \in BOOLEAN,
           Request(m, u, ok) \/ Respond(m, u, yes, ok) \/ SetUser(m, u, yes, ok)
    PROVE  \E status \in Statuses :
              /\ Put(m, u, status) /\ SavesAccess(ok)
              /\ \/ granted \subseteq granted'
                 \/ ok /\ status = "paused" /\ granted' = granted \ {<<m, u>>}
              /\ m \in guarded /\ status \in {"approved", "open"}
                    => <<m, u>> \in granted'
              /\ \/ record[m][u] # "paused" /\ ackedPause' = ackedPause
                 \/ ackedPause' = ackedPause \ {<<m, u>>}
                 \/ status = "paused" /\ ackedPause' = ackedPause
                 \/ /\ status = "paused" /\ ok
                    /\ ackedPause' = ackedPause \cup {<<m, u>>}
              /\ UNCHANGED <<guarded, published, address, owner>>
  <1>1. CASE Request(m, u, ok)
    BY <1>1 DEF Request, Statuses, accessHistory
  <1>2. CASE Respond(m, u, yes, ok)
    <2> DEFINE status == IF yes THEN "approved" ELSE "rejected"
    <2>1. status \in Statuses /\ Put(m, u, status) /\ SavesAccess(ok)
      BY <1>2 DEF Respond, Statuses
    <2>2. /\ record[m][u] # "paused" /\ ackedPause' = ackedPause
          /\ granted \subseteq granted'
          /\ status \in {"approved", "open"} => <<m, u>> \in granted'
          /\ UNCHANGED <<guarded, published, address, owner>>
      BY <1>2 DEF Respond
    <2> HIDE DEF status
    <2> QED
      BY <2>1, <2>2
  <1>3. CASE SetUser(m, u, yes, ok)
    <2> DEFINE status == IF yes THEN "paused"
                         ELSE IF m \in guarded THEN "approved" ELSE "open"
    <2>1. status \in Statuses /\ Put(m, u, status) /\ SavesAccess(ok)
      BY <1>3 DEF SetUser, Statuses
    <2>2. /\ \/ granted \subseteq granted'
             \/ ok /\ status = "paused" /\ granted' = granted \ {<<m, u>>}
          /\ status \in {"approved", "open"} => <<m, u>> \in granted'
          /\ UNCHANGED <<guarded, published, address, owner>>
      BY <1>3 DEF SetUser
    <2>3. \/ ackedPause' = ackedPause \ {<<m, u>>}
          \/ status = "paused" /\ ackedPause' = ackedPause
          \/ /\ status = "paused" /\ ok
             /\ ackedPause' = ackedPause \cup {<<m, u>>}
      BY <1>3 DEF SetUser
    <2> HIDE DEF status
    <2> QED
      BY <2>1, <2>2, <2>3
  <1> QED
    BY <1>1, <1>2, <1>3

\* Deleting a device leaves the other devices' records and takes back, with
\* its approvals, the records that stood on them.
LEMMA DeleteEffect ==
    ASSUME AccessShape, NEW u \in Users, NEW ok \in BOOLEAN,
           DeleteDevice(u, ok)
    PROVE  /\ record' \in Records /\ SavesAccess(ok)
           /\ \A m \in Services, v \in Users :
                 record'[m][v] = IF v = u THEN "none" ELSE record[m][v]
           /\ \/ granted' = granted
              \/ ok /\ granted' = granted \ (Services \X {u})
           /\ ackedPause' = ackedPause \ (Services \X {u})
           /\ UNCHANGED <<guarded, published, owner>>
  <1>1. record' \in Records
    BY DEF DeleteDevice, AccessShape, Records, Statuses
  <1> QED
    BY <1>1 DEF DeleteDevice, AccessShape, Records

\* Whoever changes a record, the shape is kept.
LEMMA AccessShapeKept ==
    ASSUME AccessShape, [AccessNext]_accessVars PROVE AccessShape'
  <1>1. ASSUME NEW m \in Services, NEW u \in Visitors,
               NEW ok \in BOOLEAN, NEW yes \in BOOLEAN,
               \/ Request(m, u, ok) \/ Respond(m, u, yes, ok)
               \/ SetUser(m, u, yes, ok)
        PROVE  AccessShape'
    <2>1. u \in Users
      BY AccessAssumption DEF AccessAssumption
    <2>2. PICK status \in Statuses : /\ Put(m, u, status) /\ SavesAccess(ok)
                                     /\ UNCHANGED <<guarded, published>>
      BY <1>1, <2>1, ChangeEffect
    <2>3. record' \in Records
      BY <2>1, <2>2, PutEffect
    <2> QED
      BY <2>2, <2>3, SaveKeepsShape DEF AccessShape
  <1>2. ASSUME NEW S \in SUBSET Services, NEW ok \in BOOLEAN, Heartbeat(S, ok)
        PROVE  AccessShape'
    BY <1>2, SaveKeepsShape DEF Heartbeat, AccessShape
  <1>3. ASSUME NEW u, NEW x, NEW ok \in BOOLEAN, Enrol(u, x, ok)
        PROVE  AccessShape'
    BY <1>3, SaveKeepsShape DEF Enrol, AccessShape
  <1>4. ASSUME NEW u \in Users, NEW ok \in BOOLEAN, DeleteDevice(u, ok)
        PROVE  AccessShape'
    BY <1>4, DeleteEffect, SaveKeepsShape DEF AccessShape
  <1> USE DEF AccessShape
  <1>5. CASE ServerRestarts
    BY <1>5 DEF ServerRestarts
  <1>6. ASSUME NEW f, Fetch(f) \/ Keep(f) \/ Drop(f) PROVE AccessShape'
    BY <1>6 DEF Fetch, Keep, Drop
  <1>7. CASE OwnerRestarts
    BY <1>7 DEF OwnerRestarts
  <1>8. CASE UNCHANGED accessVars
    BY <1>8 DEF accessVars
  <1> QED
    BY <1>1, <1>2, <1>3, <1>4, <1>5, <1>6, <1>7, <1>8 DEF AccessNext

-----------------------------------------------------------------------------
(* Nobody is let in without approval.                                      *)

\* The answer of the server is sound.
LEMMA AnswerIsSound == ASSUME ApprovalInvariant PROVE Sound(Answer)
  <1>1. /\ Answer.granted = granted /\ DOMAIN Answer.policy = published
        /\ \A m \in published, u \in Users :
              Answer.policy[m][u] = StatusOf(m, u)
    BY DEF Answer
  <1>2. ASSUME NEW m \in guarded \cap published, NEW u \in Users,
               StatusOf(m, u) \in {"approved", "open"}
        PROVE  <<m, u>> \in granted
    BY <1>2 DEF StatusOf, ApprovalInvariant, Grants
  <1> HIDE DEF Answer
  <1> QED
    BY <1>1, <1>2 DEF Sound, ApprovalInvariant, AccessShape

\* An owner without an answer lets nobody in.
LEMMA NothingIsSound == Sound(Nothing)
  BY DEF Sound, Nothing

\* Nobody is approved at the start.
LEMMA ApprovalInit == ASSUME AccessInit PROVE ApprovalInvariant
  <1>1. AccessShape /\ Grants(record) /\ Grants(stored.record)
    BY DEF AccessInit, AccessShape, Memory, Records, Statuses, Grants
  <1> QED
    BY <1>1, NothingIsSound DEF AccessInit, ApprovalInvariant

\* The server's half of a step that leaves the owner's client alone.
LEMMA ServerStep ==
    ASSUME ApprovalInvariant, AccessShape', UNCHANGED <<guarded, owner>>,
           Grants(record)', Grants(stored.record)'
    PROVE  ApprovalInvariant'
  BY DEF ApprovalInvariant, Sound, owner

\* A save does not let in anybody whom memory does not.
LEMMA SaveKeepsGrants ==
    ASSUME ApprovalInvariant, NEW ok \in BOOLEAN, SavesAccess(ok),
           guarded' = guarded, ok \/ granted \subseteq granted',
           Grants(record)'
    PROVE  Grants(stored.record)'
  BY SaveEffect DEF ApprovalInvariant, Grants

\* One step per handler of the server and of the owner's client.
LEMMA ApprovalStep ==
    ASSUME ApprovalInvariant, [AccessNext]_accessVars
    PROVE  ApprovalInvariant'
  <1>a. AccessShape /\ AccessShape'
    BY AccessShapeKept DEF ApprovalInvariant
  <1>1. ASSUME NEW S, NEW ok \in BOOLEAN, Heartbeat(S, ok)
        PROVE  ApprovalInvariant'
    <2>1. /\ UNCHANGED <<guarded, record, owner, granted>>
          /\ SavesAccess(ok)
      BY <1>1 DEF Heartbeat, accessHistory
    <2>2. Grants(record)'
      BY <2>1 DEF ApprovalInvariant, Grants
    <2> QED
      BY <1>a, <2>1, <2>2, SaveKeepsGrants, ServerStep
  <1>2. ASSUME NEW u, NEW x, NEW ok \in BOOLEAN, Enrol(u, x, ok)
        PROVE  ApprovalInvariant'
    <2>1. /\ UNCHANGED <<guarded, record, owner, granted>>
          /\ SavesAccess(ok)
      BY <1>2 DEF Enrol, accessHistory
    <2>2. Grants(record)'
      BY <2>1 DEF ApprovalInvariant, Grants
    <2> QED
      BY <1>a, <2>1, <2>2, SaveKeepsGrants, ServerStep
  <1>3. ASSUME NEW u \in Users, NEW ok \in BOOLEAN, DeleteDevice(u, ok)
        PROVE  ApprovalInvariant'
    <2>1. /\ SavesAccess(ok) /\ UNCHANGED <<guarded, owner>>
          /\ ok \/ granted' = granted
      BY <1>3, <1>a, DeleteEffect
    <2>2. Grants(record)'
      <3> SUFFICES ASSUME NEW m \in guarded', NEW v \in Users,
                          record'[m][v] \in {"approved", "open"}
                   PROVE  <<m, v>> \in granted'
        BY DEF Grants
      <3>1. m \in Services /\ m \in guarded
        BY <1>a, <2>1 DEF AccessShape
      <3>2. v # u /\ record'[m][v] = record[m][v]
        BY <1>3, <1>a, <3>1, DeleteEffect
      <3>3. <<m, v>> \in granted
        BY <3>1, <3>2 DEF ApprovalInvariant, Grants
      <3> QED
        BY <1>3, <1>a, <3>1, <3>2, <3>3, DeleteEffect
    <2> QED
      BY <1>a, <2>1, <2>2, SaveKeepsGrants, ServerStep
  <1>4. ASSUME NEW m \in Services, NEW u \in Visitors,
               NEW ok \in BOOLEAN, NEW yes \in BOOLEAN,
               \/ Request(m, u, ok) \/ Respond(m, u, yes, ok)
               \/ SetUser(m, u, yes, ok)
        PROVE  ApprovalInvariant'
    <2>1. u \in Users
      BY AccessAssumption DEF AccessAssumption
    <2>2. PICK status \in Statuses :
              /\ Put(m, u, status) /\ SavesAccess(ok)
              /\ \/ granted \subseteq granted'
                 \/ ok /\ status = "paused" /\ granted' = granted \ {<<m, u>>}
              /\ m \in guarded /\ status \in {"approved", "open"}
                    => <<m, u>> \in granted'
              /\ UNCHANGED <<guarded, published, address, owner>>
      BY <1>4, <1>a, <2>1, ChangeEffect
    <2>3. /\ record'[m][u] = status
          /\ \A n \in Services, v \in Users :
                <<n, v>> # <<m, u>> => record'[n][v] = record[n][v]
      BY <1>a, <2>1, <2>2, PutEffect
    <2>4. Grants(record)'
      BY <1>a, <2>1, <2>2, <2>3 DEF ApprovalInvariant, Grants, AccessShape
    <2> QED
      BY <1>a, <2>2, <2>4, SaveKeepsGrants, ServerStep
  <1>5. CASE ServerRestarts
    <2>1. /\ UNCHANGED <<guarded, stored, owner, granted>>
          /\ record' = stored.record
      BY <1>5 DEF ServerRestarts, accessHistory
    <2>2. Grants(record)' /\ Grants(stored.record)'
      BY <2>1 DEF ApprovalInvariant, Grants
    <2> QED
      BY <1>a, <2>1, <2>2, ServerStep
  <1>6. ASSUME NEW g \in Fetchers, Fetch(g) \/ Keep(g) \/ Drop(g)
        PROVE  ApprovalInvariant'
    <2>1. /\ UNCHANGED <<guarded, record, stored, granted>>
          /\ \/ control' = control
             \/ control' = fetch[g] /\ fetch[g] # Nil
          /\ \A f \in Fetchers : fetch'[f] # Nil =>
                fetch'[f] = Answer \/ fetch'[f] = fetch[f]
      <3>1. CASE Fetch(g)
        BY <3>1 DEF Fetch, accessHistory
      <3>2. CASE Keep(g)
        BY <3>2 DEF Keep, accessHistory
      <3>3. CASE Drop(g)
        BY <3>3 DEF Drop, accessHistory
      <3> QED
        BY <1>6, <3>1, <3>2, <3>3
    <2>2. /\ Sound(control')
          /\ \A f \in Fetchers : fetch'[f] # Nil => Sound(fetch'[f])
      BY <2>1, AnswerIsSound DEF ApprovalInvariant
    <2> QED
      BY <1>a, <2>1, <2>2 DEF ApprovalInvariant, Grants, Sound
  <1>7. CASE OwnerRestarts
    <2>1. /\ UNCHANGED <<guarded, record, stored, granted>>
          /\ control' = Nothing /\ \A f \in Fetchers : fetch'[f] = Nil
      BY <1>7 DEF OwnerRestarts, accessHistory
    <2> QED
      BY <1>a, <2>1, NothingIsSound DEF ApprovalInvariant, Grants, Sound
  <1>8. CASE UNCHANGED accessVars
    <2>1. UNCHANGED <<guarded, record, stored, owner, granted>>
      BY <1>8 DEF accessVars, accessHistory
    <2>2. Grants(record)' /\ Grants(stored.record)'
      BY <2>1 DEF ApprovalInvariant, Grants
    <2> QED
      BY <1>a, <2>1, <2>2, ServerStep
  <1> QED
    BY <1>1, <1>2, <1>3, <1>4, <1>5, <1>6, <1>7, <1>8 DEF AccessNext

\* Who is let in is named by the answer, with an approval that stood.
LEMMA ApprovalMeans ==
    ASSUME ApprovalInvariant PROVE GuardedNeedsApproval
  <1> SUFFICES ASSUME NEW m \in guarded, NEW x \in Addresses, Allowed(m, x)
               PROVE  \E u \in Users : /\ control.at[u] = x
                                       /\ <<m, u>> \in control.granted
    BY DEF GuardedNeedsApproval
  <1>1. /\ m \in DOMAIN control.policy
        /\ \E u \in Users : control.at[u] = x
        /\ \A u \in Users : control.at[u] = x =>
              control.policy[m][u] \in {"approved", "open"}
    BY DEF Allowed
  <1>2. PICK u \in Users : control.at[u] = x
    BY <1>1
  <1> QED
    BY <1>1, <1>2 DEF ApprovalInvariant, Sound

\* A mapping that needs approval lets an address in only on an answer that
\* names it as that of a user whose approval stood when the answer was given
\* (remoteAllowed), whatever answers overtook each other, however often server
\* and client restarted and saves failed: a deletion that was answered with 200
\* ends the approval (removePeer), also of a name that is enrolled again.
THEOREM AccessNeedsApproval == AccessSpec => []GuardedNeedsApproval
  <1>1. AccessInit => ApprovalInvariant
    BY ApprovalInit
  <1>2. ApprovalInvariant /\ [AccessNext]_accessVars => ApprovalInvariant'
    BY ApprovalStep
  <1>3. ApprovalInvariant => GuardedNeedsApproval
    BY ApprovalMeans
  <1> QED
    BY <1>1, <1>2, <1>3, PTL DEF AccessSpec

-----------------------------------------------------------------------------
(* A pause that was acknowledged.                                          *)

\* A pause that is in memory before and after a handler stays in the file.
LEMMA SaveKeepsPauses ==
    ASSUME PausesStored, NEW ok \in BOOLEAN, SavesAccess(ok),
           \A m \in Services, u \in Users : <<m, u>> \in ackedPause' =>
              /\ record'[m][u] = "paused"
              /\ ok \/ <<m, u>> \in ackedPause
    PROVE  PausesStored'
  BY SaveEffect DEF PausesStored

\* One step per handler: only a resumption of the owner's or a deletion takes a
\* pair out, and a pause is acknowledged once the file has it.
LEMMA PauseStep ==
    ASSUME PauseInvariant, [AccessNext]_accessVars PROVE PauseInvariant'
  <1>a. AccessShape /\ AccessShape' /\ PausesStored
    BY AccessShapeKept DEF PauseInvariant
  <1> SUFFICES PausesStored'
    BY <1>a DEF PauseInvariant
  <1>1. ASSUME NEW m \in Services, NEW u \in Visitors,
               NEW ok \in BOOLEAN, NEW yes \in BOOLEAN,
               \/ Request(m, u, ok) \/ Respond(m, u, yes, ok)
               \/ SetUser(m, u, yes, ok)
        PROVE  PausesStored'
    <2>1. u \in Users
      BY AccessAssumption DEF AccessAssumption
    <2>2. PICK status \in Statuses :
              /\ Put(m, u, status) /\ SavesAccess(ok)
              /\ \/ record[m][u] # "paused" /\ ackedPause' = ackedPause
                 \/ ackedPause' = ackedPause \ {<<m, u>>}
                 \/ status = "paused" /\ ackedPause' = ackedPause
                 \/ /\ status = "paused" /\ ok
                    /\ ackedPause' = ackedPause \cup {<<m, u>>}
      BY <1>1, <1>a, <2>1, ChangeEffect
    <2>3. /\ record'[m][u] = status
          /\ \A n \in Services, v \in Users :
                <<n, v>> # <<m, u>> => record'[n][v] = record[n][v]
      BY <1>a, <2>1, <2>2, PutEffect
    <2>4. ASSUME NEW n \in Services, NEW v \in Users, <<n, v>> \in ackedPause'
          PROVE  record'[n][v] = "paused" /\ (ok \/ <<n, v>> \in ackedPause)
      <3>1. CASE <<n, v>> = <<m, u>> /\ <<m, u>> \in ackedPause
        BY <1>a, <2>1, <2>2, <2>3, <2>4, <3>1 DEF PausesStored
      <3>2. CASE <<n, v>> = <<m, u>> /\ <<m, u>> \notin ackedPause
        BY <2>2, <2>3, <2>4, <3>2
      <3>3. CASE <<n, v>> # <<m, u>>
        BY <1>a, <2>2, <2>3, <2>4, <3>3 DEF PausesStored
      <3> QED
        BY <3>1, <3>2, <3>3
    <2> QED
      BY <1>a, <2>2, <2>4, SaveKeepsPauses
  <1>2. ASSUME NEW S, NEW ok \in BOOLEAN, Heartbeat(S, ok)
        PROVE  PausesStored'
    <2>1. UNCHANGED <<record, ackedPause>> /\ SavesAccess(ok)
      BY <1>2 DEF Heartbeat, accessHistory
    <2> QED
      BY <1>a, <2>1, SaveKeepsPauses DEF PausesStored
  <1>3. ASSUME NEW u, NEW x, NEW ok \in BOOLEAN, Enrol(u, x, ok)
        PROVE  PausesStored'
    <2>1. UNCHANGED <<record, ackedPause>> /\ SavesAccess(ok)
      BY <1>3 DEF Enrol, accessHistory
    <2> QED
      BY <1>a, <2>1, SaveKeepsPauses DEF PausesStored
  <1>4. ASSUME NEW u \in Users, NEW ok \in BOOLEAN, DeleteDevice(u, ok)
        PROVE  PausesStored'
    <2>1. ASSUME NEW m \in Services, NEW v \in Users, <<m, v>> \in ackedPause'
          PROVE  record'[m][v] = "paused" /\ <<m, v>> \in ackedPause
      <3>1. <<m, v>> \in ackedPause /\ v # u
        BY <1>4, <1>a, <2>1, DeleteEffect
      <3> QED
        BY <1>4, <1>a, <3>1, DeleteEffect DEF PausesStored
    <2> QED
      BY <1>4, <1>a, <2>1, DeleteEffect, SaveKeepsPauses
  <1>5. CASE ServerRestarts
    BY <1>5, <1>a DEF ServerRestarts, accessHistory, PausesStored
  <1>6. ASSUME NEW f, Fetch(f) \/ Keep(f) \/ Drop(f) PROVE PausesStored'
    BY <1>6, <1>a DEF Fetch, Keep, Drop, accessHistory, PausesStored
  <1>7. CASE OwnerRestarts
    BY <1>7, <1>a DEF OwnerRestarts, accessHistory, PausesStored
  <1>8. CASE UNCHANGED accessVars
    BY <1>8, <1>a DEF accessVars, accessHistory, PausesStored
  <1> QED
    BY <1>1, <1>2, <1>3, <1>4, <1>5, <1>6, <1>7, <1>8 DEF AccessNext

\* A pause the owner was answered 200 for stands until the owner resumes the
\* user or the device is deleted, across failing saves and restarts.
THEOREM AckedPausesStand == AccessSpec => []AckedPauseStands
  <1>1. AccessInit => PauseInvariant
    BY DEF AccessInit, PauseInvariant, AccessShape, Memory, Records, Statuses,
           PausesStored
  <1>2. PauseInvariant /\ [AccessNext]_accessVars => PauseInvariant'
    BY PauseStep
  <1>3. PauseInvariant => AckedPauseStands
    BY DEF PauseInvariant, PausesStored, AckedPauseStands
  <1> QED
    BY <1>1, <1>2, <1>3, PTL DEF AccessSpec
=============================================================================
