---------------------------- MODULE ClientUpdate ----------------------------
(***************************************************************************)
(* The signed self-update of a Windows client: the server's published      *)
(* package and its manifest, the resumable download into a `.part` file,   *)
(* its verification, and the PowerShell helper that stops the client,      *)
(* keeps the executable as `.previous.exe`, puts the staged one in its     *)
(* place, waits for the new client's health report and puts the kept one   *)
(* back when none comes.  The user may also roll back to `.previous.exe`.  *)
(*                                                                         *)
(* Several requests may apply an update at once: nothing orders the page's *)
(* requests and the update loop.  Power may fail between any two steps.    *)
(***************************************************************************)
EXTENDS Integers

CONSTANTS
    Builds,     \* executables: each is a content of its own
    VersionOf,  \* the version each was published as; two may share one
    Good,       \* the builds that start and report their health
    First,      \* the build the client was installed with
    Appliers,   \* requests to update or roll back: the page's, the loop's
    NoBuild

Versions == {VersionOf[b] : b \in Builds}
RollbackSlot == 0  \* updates/rollback.exe, beside the staged versions
Slots == Versions \cup {RollbackSlot}

ASSUME UpdateAssumption ==
    /\ VersionOf \in [Builds -> Nat \ {0}]
    /\ Good \subseteq Builds /\ First \in Good
    /\ NoBuild \notin Builds \cup [of : Builds \cup {NoBuild}, full : BOOLEAN]

VARIABLES
    package,    \* server: the package file's content
    listed,     \* server: the build the manifest in the state file describes
    manifest,   \* server: the build the manifest in memory describes
    published,  \* history: what publish-update was ever given
    current,    \* client: the executable
    backup,     \* client: .previous.exe
    part,       \* client: .exe.part of each version
    staged,     \* client: the verified executables, and rollback.exe
    running,    \* the build that serves as client
    exiting,    \* the client ends within 600 ms
    autoUpdate, \* the user's preference
    looped,     \* this process's update loop has made its one attempt
    health,     \* whose health token update-health.txt holds
    broken,     \* history: a command of the helper failed since one was started
    power,      \* the computer is on
    job,        \* progress of each applier
    helper      \* progress of the helper each applier started

serverVars == <<package, listed, manifest, published>>
files == <<current, backup, part, staged>>
process == <<running, exiting, looped, health>>
updVars == <<serverVars, files, process, autoUpdate, broken, power, job,
             helper>>

\* A file: of which build its bytes are (NoBuild: of several), and whether it
\* has the full length.
Files == [of : Builds \cup {NoBuild}, full : BOOLEAN] \cup {NoBuild}
Whole(f) == f # NoBuild /\ f.full /\ f.of # NoBuild
Cut(f) == [f EXCEPT !.full = FALSE]
Starts(f) == Whole(f) /\ f.of \in Good

AtEase == [step |-> "idle", target |-> First]
Off == [step |-> "off", slot |-> RollbackSlot]
Goto(a, step) == job' = [job EXCEPT ![a].step = step]
Drop(a) == job' = [job EXCEPT ![a] = AtEase]
HelperAt(a, step) == helper[a].step = step /\ power
HelperTo(a, step) == helper' = [helper EXCEPT ![a].step = step]
HelperEnds(a) == helper' = [helper EXCEPT ![a] = Off]

-----------------------------------------------------------------------------
(* The server.                                                             *)

\* The command copies the package and saves the state file; the daemon keeps
\* its own copy of the state until it is started again.
PublishUpdate(b) ==
    /\ b \notin published \cup {First}  \* bound: each later build once
    /\ package' = b /\ listed' = b /\ published' = published \cup {b}
    /\ UNCHANGED <<manifest, files, process, autoUpdate, broken, power, job,
                   helper>>

\* Any save of the daemon, or a command that fails before its own.
DaemonSaves ==
    /\ listed # manifest
    /\ listed' = manifest
    /\ UNCHANGED <<package, manifest, published, files, process, autoUpdate,
                   broken, power, job, helper>>

DaemonRestarts ==
    /\ manifest # listed
    /\ manifest' = listed
    /\ UNCHANGED <<package, listed, published, files, process, autoUpdate,
                   broken, power, job, helper>>

\* Both endpoints compare the package with the manifest in memory.
Offered == manifest # NoBuild /\ package = manifest

\* What the bytes of an answer may be: the first attempt may be redirected to
\* another client, which serves its executable as it is then.
Sent == IF Offered THEN Builds ELSE {}

-----------------------------------------------------------------------------
(* Download: downloadUpdate.                                               *)

Active(a, step) == job[a].step = step /\ running # NoBuild /\ power
VersionAt(a) == VersionOf[job[a].target]

\* checkForUpdate, asked by the page or by the loop.
Check(a, auto) ==
    /\ Active(a, "idle") /\ Offered
    /\ auto => autoUpdate /\ ~looped
    /\ VersionOf[running] < VersionOf[manifest]
    /\ job' = [job EXCEPT ![a] = [step |-> "ask", target |-> manifest]]
    /\ looped' = (looped \/ auto)
    /\ UNCHANGED <<serverVars, files, running, exiting, health, autoUpdate,
                   broken, power, helper>>

SetAutoUpdate ==
    /\ running # NoBuild
    /\ autoUpdate' = ~autoUpdate
    /\ UNCHANGED <<serverVars, files, process, broken, power, job, helper>>

\* How the length of what is there compares with the manifest's.
Lengths(f, target) ==
    IF f = NoBuild THEN {"less"}
    ELSE IF f.of = target THEN {IF f.full THEN "equal" ELSE "less"}
    ELSE {"less", "equal", "more"}

Busy(a) == \E b \in Appliers \ {a} :
    job[b].step = "copy" /\ VersionAt(b) = VersionAt(a)

\* Mutant: a part is taken for the manifest's because of its length.
MeasureTrusting(a) ==
    /\ Active(a, "ask")
    /\ \E length \in Lengths(part[VersionAt(a)], job[a].target) :
        /\ part' = IF length # "more" THEN part
                   ELSE [part EXCEPT ![VersionAt(a)] = NoBuild]
        /\ Goto(a, IF length = "equal" THEN "replace" ELSE "fetch")
    /\ UNCHANGED <<serverVars, current, backup, staged, process, autoUpdate,
                   broken, power, helper>>

\* A part that is too long is removed; one of the right length is not asked
\* for again.
Measure(a) ==
    /\ Active(a, "ask")
    /\ \E length \in Lengths(part[VersionAt(a)], job[a].target) :
        /\ part' = IF length # "more" THEN part
                   ELSE [part EXCEPT ![VersionAt(a)] = NoBuild]
        /\ Goto(a, IF length = "equal" THEN "verify" ELSE "fetch")
    /\ UNCHANGED <<serverVars, current, backup, staged, process, autoUpdate,
                   broken, power, helper>>

\* The answer arrives: 206 is appended to the part, 200 replaces it.  Two
\* writers of one part leave a mixture.
Fetch(a) ==
    /\ Active(a, "fetch")
    /\ \E b \in Sent, resumed \in BOOLEAN :
        LET old == part[VersionAt(a)]
            of == IF (resumed /\ old # NoBuild /\ old.of # b) \/ Busy(a)
                  THEN NoBuild ELSE b IN
        part' = [part EXCEPT ![VersionAt(a)] = [of |-> of, full |-> FALSE]]
    /\ Goto(a, "copy")
    /\ UNCHANGED <<serverVars, current, backup, staged, process, autoUpdate,
                   broken, power, helper>>

\* The body ends: with the announced length, or too short and the attempt is
\* repeated, or too long and the part is removed first.
Received(a) ==
    /\ Active(a, "copy")
    /\ LET v == VersionAt(a) IN
        \/ /\ part[v] # NoBuild
           /\ part' = [part EXCEPT ![v].full = TRUE]
           /\ Goto(a, "verify")
        \/ /\ UNCHANGED part
           /\ Goto(a, "ask")
        \/ /\ part' = [part EXCEPT ![v] = NoBuild]
           /\ part[v] # NoBuild /\ part[v].of # job[a].target
           /\ Goto(a, "ask")
    /\ UNCHANGED <<serverVars, current, backup, staged, process, autoUpdate,
                   broken, power, helper>>

\* The fifth attempt failed.
GiveUp(a) ==
    /\ Active(a, "fetch")
    /\ Drop(a)
    /\ UNCHANGED <<serverVars, files, process, autoUpdate, broken, power,
                   helper>>

\* SHA-256, length and, when the manifest names a certificate, Authenticode.
Verify(a) ==
    /\ Active(a, "verify")
    /\ LET v == VersionAt(a) IN
        \/ /\ part[v] = [of |-> job[a].target, full |-> TRUE]
           /\ Goto(a, "replace")
           /\ UNCHANGED part
        \/ /\ part' = IF Busy(a) THEN part ELSE [part EXCEPT ![v] = NoBuild]
           /\ Drop(a)
    /\ UNCHANGED <<serverVars, current, backup, staged, process, autoUpdate,
                   broken, power, helper>>

RemoveStaged(a) ==
    /\ Active(a, "replace")
    /\ staged' = [staged EXCEPT ![VersionAt(a)] = NoBuild]
    /\ Goto(a, "rename")
    /\ UNCHANGED <<serverVars, current, backup, part, process, autoUpdate,
                   broken, power, helper>>

\* A part that is gone, or open in another download, is not renamed.
Rename(a) ==
    /\ Active(a, "rename")
    /\ LET v == VersionAt(a) IN
        IF part[v] = NoBuild \/ Busy(a)
        THEN Drop(a) /\ UNCHANGED <<part, staged>>
        ELSE /\ staged' = [staged EXCEPT ![v] = part[v]]
             /\ part' = [part EXCEPT ![v] = NoBuild]
             /\ Goto(a, "schedule")
    /\ UNCHANGED <<serverVars, current, backup, process, autoUpdate, broken,
                   power, helper>>

-----------------------------------------------------------------------------
(* The swap: scheduleExecutableSwap and its helper.                        *)

\* The script is written and started, or one of the two fails: the client
\* goes on.
Schedule(a, slot) ==
    /\ helper[a] = Off
    /\ \/ /\ helper' = [helper EXCEPT ![a] = [step |-> "wait", slot |-> slot]]
          /\ exiting' = TRUE /\ broken' = FALSE
       \/ UNCHANGED <<helper, exiting, broken>>
    /\ Drop(a)

ScheduleUpdate(a) ==
    /\ Active(a, "schedule")
    /\ Schedule(a, VersionAt(a))
    /\ UNCHANGED <<serverVars, files, running, looped, health, autoUpdate,
                   power>>

\* applyRollback stages a copy of .previous.exe.
ApplyRollback(a) ==
    /\ Active(a, "idle") /\ backup # NoBuild
    /\ staged' = [staged EXCEPT ![RollbackSlot] = backup]
    /\ Schedule(a, RollbackSlot)
    /\ UNCHANGED <<serverVars, current, backup, part, running, looped, health,
                   autoUpdate, power>>

Exit ==
    /\ exiting
    /\ running' = NoBuild /\ exiting' = FALSE /\ looped' = FALSE
    /\ job' = [a \in Appliers |-> AtEase]
    /\ UNCHANGED <<serverVars, files, health, autoUpdate, broken, power,
                   helper>>

\* The parent has ended; every other process of the executable is stopped.
StopClients(a) ==
    /\ HelperAt(a, "wait") /\ ~exiting
    /\ running' = NoBuild /\ looped' = FALSE
    /\ job' = [b \in Appliers |-> AtEase]
    /\ HelperTo(a, "keep")
    /\ UNCHANGED <<serverVars, files, exiting, health, autoUpdate, broken,
                   power>>

\* Mutant: the executable is not kept before it is replaced.
KeepNothing(a) ==
    /\ HelperAt(a, "keep")
    /\ HelperTo(a, "clear")
    /\ UNCHANGED <<serverVars, files, process, autoUpdate, broken, power, job>>

\* Copy-Item Current -> Backup: begun here, ended by Kept.
Keep(a) ==
    /\ HelperAt(a, "keep")
    /\ IF current = NoBuild THEN HelperEnds(a) /\ UNCHANGED backup
       ELSE backup' = Cut(current) /\ HelperTo(a, "kept")
    /\ UNCHANGED <<serverVars, current, part, staged, process, autoUpdate,
                   broken, power, job>>

Kept(a) ==
    /\ HelperAt(a, "kept")
    /\ backup' = current
    /\ HelperTo(a, "clear")
    /\ UNCHANGED <<serverVars, current, part, staged, process, autoUpdate,
                   broken, power, job>>

\* Move-Item -Force Staged -> Current: the old file is removed here, the staged
\* one arrives with Move.  A missing source stops the script.
Clear(a) ==
    /\ HelperAt(a, "clear")
    /\ IF staged[helper[a].slot] = NoBuild
       THEN HelperEnds(a) /\ UNCHANGED current
       ELSE current' = NoBuild /\ HelperTo(a, "move")
    /\ UNCHANGED <<serverVars, backup, part, staged, process, autoUpdate,
                   broken, power, job>>

Move(a) ==
    /\ HelperAt(a, "move")
    /\ current' = staged[helper[a].slot]
    /\ staged' = [staged EXCEPT ![helper[a].slot] = NoBuild]
    /\ HelperTo(a, "start")
    /\ UNCHANGED <<serverVars, backup, part, process, autoUpdate, broken, power,
                   job>>

\* The old health file is removed; Start-Process of a file that is no program
\* stops the script.
StartNew(a) ==
    /\ HelperAt(a, "start")
    /\ health' = NoBuild
    /\ IF Whole(current)
       THEN /\ running' = IF Starts(current) THEN current.of ELSE NoBuild
            /\ HelperTo(a, "watch")
       ELSE HelperEnds(a) /\ UNCHANGED running
    /\ UNCHANGED <<serverVars, files, exiting, looped, autoUpdate, broken,
                   power, job>>

\* writeUpdateHealth: the new client writes the token it was started with.
ReportHealth(a) ==
    /\ HelperAt(a, "watch") /\ running # NoBuild /\ health # a
    /\ health' = a
    /\ UNCHANGED <<serverVars, files, running, exiting, looped, autoUpdate,
                   broken, power, job, helper>>

Healthy(a) ==
    /\ HelperAt(a, "watch") /\ health = a
    /\ health' = NoBuild
    /\ HelperEnds(a)
    /\ UNCHANGED <<serverVars, files, running, exiting, looped, autoUpdate,
                   broken, power, job>>

\* Mutant: the helper waits for the report of a client that has ended.
WatchTheDead(a) ==
    /\ HelperAt(a, "watch") /\ health # a /\ running # NoBuild
    /\ running' = NoBuild /\ looped' = FALSE
    /\ job' = [b \in Appliers |-> AtEase]
    /\ HelperTo(a, "restore")
    /\ UNCHANGED <<serverVars, files, exiting, health, autoUpdate, broken,
                   power>>

\* No report within a minute, or the new client has ended.
Unhealthy(a) ==
    /\ HelperAt(a, "watch") /\ health # a
    /\ running' = NoBuild /\ looped' = FALSE
    /\ job' = [b \in Appliers |-> AtEase]
    /\ HelperTo(a, "restore")
    /\ UNCHANGED <<serverVars, files, exiting, health, autoUpdate, broken,
                   power>>

\* Copy-Item Backup -> Current, begun here, ended by Restored, which starts it.
Restore(a) ==
    /\ HelperAt(a, "restore")
    /\ IF backup = NoBuild THEN HelperEnds(a) /\ UNCHANGED current
       ELSE current' = Cut(backup) /\ HelperTo(a, "restored")
    /\ UNCHANGED <<serverVars, backup, part, staged, process, autoUpdate,
                   broken, power, job>>

Restored(a) ==
    /\ HelperAt(a, "restored")
    /\ current' = backup
    /\ running' = IF Starts(backup) THEN backup.of ELSE NoBuild
    /\ HelperEnds(a)
    /\ UNCHANGED <<serverVars, backup, part, staged, exiting, looped, health,
                   autoUpdate, broken, power, job>>

\* $ErrorActionPreference is 'Stop': a copy, a move or a start that fails, of a
\* full disk or a file still locked, ends the script where it is.  So does a
\* health report that is there and still empty.
HelperBreaks(a) ==
    /\ power
    /\ \/ helper[a].step \in {"keep", "kept", "clear", "move", "start",
                               "restore", "restored"}
       \/ helper[a].step = "watch" /\ running # NoBuild
    /\ current' \in IF helper[a].step = "restored" THEN {current, backup}
                    ELSE {current}
    /\ health' = IF helper[a].step = "start" THEN NoBuild ELSE health
    /\ HelperEnds(a)
    /\ broken' = TRUE
    /\ UNCHANGED <<serverVars, backup, part, staged, running, exiting, looped,
                   autoUpdate, power, job>>

-----------------------------------------------------------------------------
(* The computer.                                                           *)

PowerFails ==
    /\ power
    /\ power' = FALSE /\ running' = NoBuild
    /\ exiting' = FALSE /\ looped' = FALSE
    /\ job' = [a \in Appliers |-> AtEase]
    /\ helper' = [a \in Appliers |-> Off]
    /\ UNCHANGED <<serverVars, files, health, autoUpdate, broken>>

\* Logon: the Run key starts the executable.
LogsOn ==
    /\ ~power
    /\ power' = TRUE
    /\ running' = IF Starts(current) THEN current.of ELSE NoBuild
    /\ UNCHANGED <<serverVars, files, exiting, looped, health, autoUpdate,
                   broken, job, helper>>

-----------------------------------------------------------------------------
UpdInit ==
    /\ package = NoBuild /\ listed = NoBuild /\ manifest = NoBuild
    /\ published = {}
    /\ current = [of |-> First, full |-> TRUE] /\ backup = NoBuild
    /\ part = [v \in Versions |-> NoBuild]
    /\ staged = [s \in Slots |-> NoBuild]
    /\ running = First /\ exiting = FALSE /\ looped = FALSE /\ health = NoBuild
    /\ autoUpdate \in BOOLEAN /\ power = TRUE /\ broken = FALSE
    /\ job = [a \in Appliers |-> AtEase] /\ helper = [a \in Appliers |-> Off]

HelperStep(a) ==
    \/ StopClients(a) \/ Keep(a) \/ Kept(a) \/ Clear(a) \/ Move(a)
    \/ StartNew(a) \/ Healthy(a) \/ Unhealthy(a) \/ Restore(a) \/ Restored(a)

UpdNext ==
    \/ \E b \in Builds : PublishUpdate(b)
    \/ DaemonSaves \/ DaemonRestarts
    \/ SetAutoUpdate
    \/ \E a \in Appliers :
        \/ \E auto \in BOOLEAN : Check(a, auto)
        \/ Measure(a) \/ Fetch(a) \/ Received(a) \/ GiveUp(a) \/ Verify(a)
        \/ RemoveStaged(a) \/ Rename(a) \/ ScheduleUpdate(a)
        \/ ApplyRollback(a)
        \/ HelperStep(a) \/ HelperBreaks(a)
        \/ ReportHealth(a)
    \/ Exit
    \/ PowerFails \/ LogsOn

\* os.Exit is under way, and the helper is a script that goes on while none of
\* its commands fails.
UpdFairness ==
    /\ WF_updVars(Exit)
    /\ \A a \in Appliers : WF_updVars(HelperStep(a))

UpdSpec == UpdInit /\ [][UpdNext]_updVars
UpdFairSpec == UpdSpec /\ UpdFairness

-----------------------------------------------------------------------------
(* Properties.                                                             *)

JobSteps == {"idle", "ask", "fetch", "copy", "verify", "replace", "rename",
             "schedule"}
HelperSteps == {"off", "wait", "keep", "kept", "clear", "move", "start",
                "watch", "restore", "restored"}

UpdTypeOK ==
    /\ {package, listed, manifest, running} \subseteq Builds \cup {NoBuild}
    /\ published \subseteq Builds
    /\ {current, backup} \subseteq Files
    /\ part \in [Versions -> Files] /\ staged \in [Slots -> Files]
    /\ health \in Appliers \cup {NoBuild}
    /\ {exiting, autoUpdate, looped, broken, power} \subseteq BOOLEAN
    /\ job \in [Appliers -> [step : JobSteps, target : Builds]]
    /\ helper \in [Appliers -> [step : HelperSteps, slot : Slots]]

\* Whenever power or a command of the helper fails, a complete executable that
\* starts and reports its health is there, in its place or beside it: the
\* helper never gives up one before the other is complete.
WorkingCopyKept == Starts(current) \/ Starts(backup)

\* What is staged as a version is, byte for byte, a package that was published
\* as that version, however often the download was cut, resumed with bytes of
\* another package or another client, or interrupted by a restart.
StagedIsPublished == \A v \in Versions : staged[v] # NoBuild =>
    /\ Whole(staged[v])
    /\ staged[v].of \in published /\ VersionOf[staged[v].of] = v

\* Unless power or a command of the helper fails, a client that has ended and
\* left a complete package to the helper comes back, new or old: a package that
\* does not start does not leave the computer without a client.  (A failing
\* command does: nobody starts the executable that is left, see broken.)
ClientComesBack == \A a \in Appliers :
    (HelperAt(a, "wait") /\ ~exiting /\ Whole(staged[helper[a].slot]))
        ~> ((running # NoBuild /\ helper[a] = Off)
            \/ ~power \/ broken)
=============================================================================
