----------------------------- MODULE StateFile -----------------------------
(***************************************************************************)
(* The state file of the main server and the key that seals the secrets in *)
(* it: the daemon, which holds the state in memory and saves it again and  *)
(* again, and one command line process at a time that loads the file,      *)
(* changes it or the key, and saves it.  Nothing locks the files; every    *)
(* process may be killed between two steps.                                *)
(*                                                                         *)
(* Every save writes the same `.tmp` and renames it.  copyFileAtomic       *)
(* removes its destination before it renames, so that a backup, the key or *)
(* the state may be missing for a moment, or, after a kill, for good.      *)
(***************************************************************************)
EXTENDS Integers

CONSTANTS MaxEdits,    \* bound: changes of the state, by handlers or commands
          MaxCommands  \* bound: runs of a command

ASSUME StateFileAssumption == MaxEdits \in Nat /\ MaxCommands \in Nat

VARIABLES
    state,   \* server-state.json: the key it is sealed with, and its content
    tmp,     \* server-state.json.tmp
    master,  \* the master key file: missing (0), empty, or a key
    oldKey,  \* its copy, .previous
    oldFile, \* the copy of the state, .pre-master-rotation
    next,    \* the key a rotation will install
    up,      \* the daemon runs
    mem,     \* the content the daemon holds in memory
    content, \* the content the command has loaded
    proc,    \* progress of the daemon's handler and of the command
    hand,    \* what each has sealed and not yet written, or is copying
    fresh,   \* the daemon's handler has seen no command
    edits,   \* how many changes were made
    keys,    \* how many keys were made
    runs,    \* how many commands were started
    acked,   \* history: handlers' changes answered with 200
    overlap, \* history: a handler and a command were at work at once, or the
             \* older content of the backup came back
    gambled  \* history: a restore began with backups that do not fit together

files == <<state, tmp, master, oldKey, oldFile>>
counters == <<edits, keys, runs>>
history == <<acked, overlap, gambled>>
fileVars == <<files, next, up, mem, content, proc, hand, fresh, counters,
              history>>

Edits == 1 .. MaxEdits
\* A command removes the key at most twice, and what is removed is made again
\* by whoever saves next.
Keys == 1 .. 1 + 3 * MaxCommands
File == [key : Keys \cup {0}, val : SUBSET Edits]
Missing == [key |-> 0, val |-> {}]
Empty == -1  \* the key file was created and not written: it opens nothing
Processes == {"daemon", "command"}

Opens(k, f) == k # 0 /\ f.key = k

GoTo(p, step) == proc' = [proc EXCEPT ![p] = step]

-----------------------------------------------------------------------------
(* saveJSON.                                                               *)

\* Mutant: a save does not make a key.
SealUnlessMissing(p, val, then) ==
    /\ IF master = 0 THEN GoTo(p, "idle") /\ UNCHANGED hand
       ELSE /\ hand' = [hand EXCEPT ![p] = [key |-> master, val |-> val]]
            /\ GoTo(p, then)
    /\ UNCHANGED master

\* readServerMasterKey: a save that finds no key creates the file, and writes
\* one into it in a step of its own.  Only the daemon may find none (a command
\* has opened the state or installed the key before), and nobody finds an empty
\* one: handlers exclude each other, and no command begins to save by it.
Seal(p, val, then) ==
    /\ hand' = [hand EXCEPT ![p] = [key |-> master, val |-> val]]
    /\ IF master = 0 THEN master' = Empty /\ GoTo(p, "make")
       ELSE UNCHANGED master /\ GoTo(p, then)

WriteTmp(p, then) ==
    /\ tmp' = hand[p]
    /\ hand' = [hand EXCEPT ![p] = Missing]
    /\ GoTo(p, then)

\* What is renamed is whatever lies there by now.
Rename(p, then, failed) ==
    IF tmp = Missing
    THEN GoTo(p, failed) /\ UNCHANGED <<state, tmp>>
    ELSE /\ state' = tmp
         /\ tmp' = Missing
         /\ GoTo(p, then)

-----------------------------------------------------------------------------
(* The daemon; its handlers hold stateMu from the change to the reply.     *)

DaemonStarts ==
    /\ ~up
    /\ Opens(master, state)
    /\ up' = TRUE
    /\ mem' = state.val
    /\ UNCHANGED <<files, next, content, proc, hand, fresh, counters, history>>

\* A handler changes the state in memory, or a heartbeat leaves it, and saves.
DaemonSeals(changes) ==
    /\ up
    /\ proc["daemon"] = "idle"
    /\ IF changes
       THEN /\ edits < MaxEdits
             /\ edits' = edits + 1
             /\ mem' = mem \cup {edits + 1}
       ELSE UNCHANGED <<edits, mem>>
    /\ Seal("daemon", mem', "write")
    /\ fresh' = (proc["command"] = "idle")
    /\ overlap' = (overlap \/ proc["command"] # "idle")
    /\ UNCHANGED <<state, tmp, oldKey, oldFile, next, up, content, keys, runs,
                   acked, gambled>>

\* The new key goes into the file that was created, or nowhere if a command
\* has replaced or removed that file.
DaemonMakesKey ==
    /\ proc["daemon"] = "make"
    /\ keys' = keys + 1
    /\ master' = IF master = Empty THEN keys + 1 ELSE master
    /\ hand' = [hand EXCEPT !["daemon"].key = keys + 1]
    /\ GoTo("daemon", "write")
    /\ UNCHANGED <<state, tmp, oldKey, oldFile, next, up, mem, content, fresh,
                   edits, runs, history>>

\* Mutant: the handler does not wait for the file.
DaemonAnswersFirst ==
    /\ proc["daemon"] = "write"
    /\ WriteTmp("daemon", "rename")
    /\ acked' = acked \cup mem
    /\ UNCHANGED <<state, master, oldKey, oldFile, next, up, mem, content,
                   fresh,
                   counters, overlap, gambled>>

DaemonWrites ==
    /\ proc["daemon"] = "write"
    /\ WriteTmp("daemon", "rename")
    /\ UNCHANGED <<state, master, oldKey, oldFile, next, up, mem, content,
                   fresh,
                   counters, history>>

DaemonRenames ==
    /\ proc["daemon"] = "rename"
    /\ Rename("daemon", "idle", "idle")
    /\ fresh' = FALSE
    /\ acked' = IF tmp = Missing THEN acked ELSE acked \cup mem
    /\ UNCHANGED <<master, oldKey, oldFile, next, up, mem, content, hand,
                   counters,
                   overlap, gambled>>

DaemonEnds ==
    /\ up
    /\ up' = FALSE
    /\ mem' = {}
    /\ hand' = [hand EXCEPT !["daemon"] = Missing]
    /\ GoTo("daemon", "idle")
    /\ fresh' = FALSE
    /\ UNCHANGED <<files, next, content, counters, history>>

-----------------------------------------------------------------------------
(* The commands.                                                           *)

\* A command is started by hand: no handler lasts from before one command into
\* the next.
Begins ==
    /\ proc["command"] = "idle"
    /\ proc["daemon"] = "idle" \/ fresh
    /\ runs < MaxCommands
    /\ runs' = runs + 1
    /\ fresh' = FALSE
    /\ overlap' = (overlap \/ proc["daemon"] # "idle")

\* The steps of the command touch neither the daemon nor its memory.
Daemon == <<up, mem, fresh>>

\* pairing, admin-token, enable-totp, activate-update-key...: load and change.
EditBegins ==
    /\ Begins
    /\ Opens(master, state)
    /\ edits < MaxEdits
    /\ edits' = edits + 1
    /\ content' = state.val \cup {edits + 1}
    /\ GoTo("command", "seal")
    /\ UNCHANGED <<files, next, up, mem, hand, keys, acked, gambled>>

RotateBegins ==
    /\ Begins
    /\ Opens(master, state)
    /\ content' = state.val
    /\ GoTo("command", "keepState")
    /\ UNCHANGED <<files, next, up, mem, hand, edits, keys, acked, gambled>>

\* It looks whether the backups are there, not whether they fit together.
RestoreBegins ==
    /\ Begins
    /\ oldKey # 0
    /\ oldFile # Missing
    /\ gambled' = (gambled \/ ~Opens(oldKey, oldFile))
    /\ GoTo("command", "key")
    /\ UNCHANGED <<files, next, up, mem, content, hand, edits, keys, acked>>

Holds(f) == hand' = [hand EXCEPT !["command"] = f]

\* copyFileAtomic: the source is read and the destination removed, then the
\* copy is renamed.
KeepStateBegins ==
    /\ proc["command"] = "keepState"
    /\ Holds(state)
    /\ oldFile' = Missing
    /\ GoTo("command", "keptState")
    /\ UNCHANGED <<state, tmp, master, oldKey, next, Daemon, content, counters,
                   history>>

KeepStateEnds ==
    /\ proc["command"] = "keptState"
    /\ oldFile' = hand["command"]
    /\ GoTo("command", "keepKey")
    /\ UNCHANGED <<state, tmp, master, oldKey, next, Daemon, content, hand,
                   counters,
                   history>>

\* Mutant: the key is not kept.
KeepNoKey ==
    /\ proc["command"] = "keepKey"
    /\ GoTo("command", "remove")
    /\ UNCHANGED <<files, next, Daemon, content, hand, counters, history>>

KeepKeyBegins ==
    /\ proc["command"] = "keepKey"
    /\ Holds([key |-> master, val |-> {}])
    /\ oldKey' = 0
    /\ GoTo("command", "keptKey")
    /\ UNCHANGED <<state, tmp, master, oldFile, next, Daemon, content,
                   counters,
                   history>>

KeepKeyEnds ==
    /\ proc["command"] = "keptKey"
    /\ oldKey' = hand["command"].key
    /\ GoTo("command", "remove")
    /\ UNCHANGED <<state, tmp, master, oldFile, next, Daemon, content, hand,
                   counters,
                   history>>

\* The new key is written next to the old one, which is removed.
RemoveKey ==
    /\ proc["command"] = "remove"
    /\ next' = keys + 1
    /\ keys' = keys + 1
    /\ master' = 0
    /\ GoTo("command", "install")
    /\ UNCHANGED <<state, tmp, oldKey, oldFile, Daemon, content, hand, edits,
                   runs,
                   history>>

InstallKey ==
    /\ proc["command"] = "install"
    /\ master' = next
    /\ next' = 0
    /\ GoTo("command", "reseal")
    /\ UNCHANGED <<state, tmp, oldKey, oldFile, Daemon, content, hand,
                   counters,
                   history>>

CommandSeals ==
    /\ \/ proc["command"] = "seal" /\ Seal("command", content, "write")
       \/ proc["command"] = "reseal" /\ Seal("command", content, "rewrite")
    /\ UNCHANGED <<state, tmp, oldKey, oldFile, next, Daemon, content,
                   counters,
                   history>>

CommandWrites ==
    /\ \/ proc["command"] = "write" /\ WriteTmp("command", "rename")
       \/ proc["command"] = "rewrite" /\ WriteTmp("command", "swap")
    /\ UNCHANGED <<state, master, oldKey, oldFile, next, Daemon, content,
                   counters,
                   history>>

\* A rotation that cannot save goes back to the backups.
CommandRenames ==
    /\ \/ proc["command"] = "rename" /\ Rename("command", "idle", "idle")
       \/ proc["command"] = "swap" /\ Rename("command", "verify", "key")
    /\ UNCHANGED <<master, oldKey, oldFile, next, Daemon, content, hand,
                   counters,
                   history>>

RotateVerifies ==
    /\ proc["command"] = "verify"
    /\ GoTo("command", IF Opens(master, state) THEN "idle" ELSE "key")
    /\ UNCHANGED <<files, next, Daemon, content, hand, counters, history>>

\* The way back, of a restore or of a rotation that failed: the key, then the
\* state through the same `.tmp`.
RestoreKeyBegins ==
    /\ proc["command"] = "key"
    /\ Holds([key |-> oldKey, val |-> {}])
    /\ master' = 0
    /\ GoTo("command", "setKey")
    /\ UNCHANGED <<state, tmp, oldKey, oldFile, next, Daemon, content,
                   counters,
                   history>>

RestoreKeyEnds ==
    /\ proc["command"] = "setKey"
    /\ master' = hand["command"].key
    /\ GoTo("command", "state")
    /\ UNCHANGED <<state, tmp, oldKey, oldFile, next, Daemon, content, hand,
                   counters,
                   history>>

RestoreStateBegins ==
    /\ proc["command"] = "state"
    /\ tmp' = oldFile
    /\ state' = Missing
    /\ overlap' = TRUE
    /\ GoTo("command", "setState")
    /\ UNCHANGED <<master, oldKey, oldFile, next, Daemon, content, hand,
                   counters,
                   acked, gambled>>

RestoreStateEnds ==
    /\ proc["command"] = "setState"
    /\ Rename("command", "idle", "idle")
    /\ UNCHANGED <<master, oldKey, oldFile, next, Daemon, content, hand,
                   counters,
                   history>>

CommandEnds ==
    /\ proc["command"] # "idle"
    /\ hand' = [hand EXCEPT !["command"] = Missing]
    /\ content' = {}
    /\ GoTo("command", "idle")
    /\ UNCHANGED <<files, next, Daemon, counters, history>>

-----------------------------------------------------------------------------

FileInit ==
    /\ state = [key |-> 1, val |-> {}]
    /\ tmp = Missing
    /\ master = 1
    /\ oldKey = 0
    /\ oldFile = Missing
    /\ next = 0
    /\ up = FALSE
    /\ mem = {}
    /\ content = {}
    /\ proc = [p \in Processes |-> "idle"]
    /\ hand = [p \in Processes |-> Missing]
    /\ fresh = FALSE
    /\ edits = 0
    /\ keys = 1
    /\ runs = 0
    /\ acked = {}
    /\ overlap = FALSE
    /\ gambled = FALSE

DaemonStep ==
    \/ \E changes \in BOOLEAN : DaemonSeals(changes)
    \/ DaemonMakesKey
    \/ DaemonWrites
    \/ DaemonRenames

Rotates ==
    \/ KeepStateBegins
    \/ KeepStateEnds
    \/ KeepKeyBegins
    \/ KeepKeyEnds
    \/ RemoveKey
    \/ InstallKey
    \/ RotateVerifies

Saves ==
    \/ CommandSeals
    \/ CommandWrites
    \/ CommandRenames

Restores ==
    \/ RestoreKeyBegins
    \/ RestoreKeyEnds
    \/ RestoreStateBegins
    \/ RestoreStateEnds

FileNext ==
    \/ DaemonStarts
    \/ DaemonStep
    \/ DaemonEnds
    \/ EditBegins
    \/ RotateBegins
    \/ RestoreBegins
    \/ Rotates
    \/ Saves
    \/ Restores
    \/ CommandEnds

FileSpec == FileInit /\ [][FileNext]_fileVars

\* Heartbeats arrive for ever, and each saves the state; a handler and a
\* command that have begun go on.
FileFairness ==
    /\ WF_fileVars(DaemonStep)
    /\ WF_fileVars(Rotates \/ Saves \/ Restores)

FileFairSpec == FileSpec /\ FileFairness

-----------------------------------------------------------------------------
(* Properties.                                                             *)

\* Type invariant; what is written has been sealed.
StateTypeOK ==
    /\ {state, tmp, oldFile} \subseteq File
    /\ {oldKey, next} \subseteq Keys \cup {0}
    /\ master \in Keys \cup {0, Empty}
    /\ up \in BOOLEAN
    /\ {mem, content, acked} \subseteq SUBSET Edits
    /\ hand \in [Processes -> File]
    /\ \A p \in Processes : proc[p] \in {"write", "rewrite"} => hand[p].key \in Keys
    /\ fresh \in BOOLEAN
    /\ runs \in 0 .. MaxCommands
    /\ edits \in 0 .. MaxEdits
    /\ keys \in Keys

\* Wherever a rotation, a restore, an edit or the daemon is killed, and however
\* they overlap, the secrets can be opened: the state with the master key, or
\* the backup of the state with the backup of the key.
Recoverable ==
    ~gambled => Opens(master, state) \/ Opens(oldKey, oldFile)

\* A change a handler answered with 200 is in the file the daemon would start
\* with, unless a command was at work meanwhile or a backup came back.
AckedChangesKept == ~overlap => acked \subseteq state.val

\* While the daemon runs, the file returns again and again to the daemon's
\* state sealed with the key on disk, whatever a rotation or restore next to
\* it, finished or killed, has left.
FileHeals ==
    []<>(~up \/ (Opens(master, state) /\ state.val = mem))
=============================================================================
