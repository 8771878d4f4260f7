----------------------------- MODULE FileShare -----------------------------
(***************************************************************************)
(* Direct file sharing: one device keeps the content of its shares and     *)
(* their list file, serves downloads over the mesh, and announces what is  *)
(* available in its heartbeats; the main server keeps the announced shares *)
(* and, in memory only, their access tokens, and lists to other devices    *)
(* the shares it has a token for.  It takes nothing from a heartbeat with  *)
(* more than 64 shares, and of the others no share for a device it does    *)
(* not know; the client keeps and announces any number.                    *)
(*                                                                         *)
(* fileShareMu makes each access to the list one step; the copy of a       *)
(* download, the decision to serve and the heartbeat lie between steps.    *)
(* Windows does not remove a file that a download has open.                *)
(***************************************************************************)
EXTENDS Integers, FiniteSets

CONSTANTS
    Shares,
    Transfers,     \* downloads under way at once
    MaxDownloads,  \* of each share
    Syncers,       \* callers of syncFileShareServer: the loop and the page
    Loop,          \* the one of them that returns every 30 seconds
    MaxListed,     \* 64: the server refuses a heartbeat with more shares
    MaxMail,       \* bound: heartbeats the server has not handled yet
    MaxFaults      \* bound: ends of a process or listener, failing loads and
                   \* saves, recipients deleted

ASSUME ShareAssumption ==
    /\ Loop \in Syncers /\ IsFiniteSet(Transfers)
    /\ MaxDownloads \in Nat \ {0}
    /\ {MaxListed, MaxMail, MaxFaults} \subseteq Nat

VARIABLES
    store,       \* file-shares.json
    age,         \* environment: 1 expired, 2 expired a week ago
    content,     \* the share's .bin, or .bin.part
    reserved,    \* memory: fileReservations
    transfer,    \* progress of each download
    serving,     \* the listener of fileShareRuntime is open
    sync,        \* what each syncer has decided, and not yet done
    alive,       \* the client process runs
    mail,        \* heartbeats on their way, each the shares it announces
    directory,   \* server: the shares it lists while the device is online:
                 \* announced, with a token
    known,       \* server: the shares for everyone or for an enrolled device
    faults,      \* how many there were
    delivered,   \* history: complete downloads
    uncounted,   \* history: complete downloads the list does not count
    broken       \* history: shares whose content was removed, or a removal
                 \* was tried, and the list that says so was not saved

disk == <<store, content>>
memory == <<reserved, transfer, serving, sync, alive>>
network == <<mail, directory, known>>
shareHistory == <<delivered, uncounted, broken>>
shareVars == <<disk, age, memory, network, faults, shareHistory>>

Entry == [kind |-> "listed", count |-> 0, removed |-> FALSE]
NoEntry == [kind |-> "none", count |-> 0, removed |-> FALSE]
Free == [step |-> "idle", share |-> CHOOSE s \in Shares : TRUE]

Exists(s) == store[s].kind = "listed"
Used(s) == store[s].count >= MaxDownloads
Available(s) == Exists(s) /\ ~store[s].removed /\ age[s] = 0 /\ ~Used(s)
IsOpen(s) == \E t \in Transfers :
    transfer[t].step = "copy" /\ transfer[t].share = s

\* os.Remove, whose error is ignored.
Remove(S) == content' = [s \in Shares |->
    IF s \in S /\ ~IsOpen(s) THEN "none" ELSE content[s]]

\* A step that succeeds, or one more fault.
Counted(ok) == IF ok THEN UNCHANGED faults
               ELSE faults < MaxFaults /\ faults' = faults + 1

-----------------------------------------------------------------------------
(* Creating and deleting.                                                  *)

Upload(s) ==
    /\ alive /\ store[s].kind = "none" /\ content[s] = "none"
    /\ content' = [content EXCEPT ![s] = "part"]
    /\ UNCHANGED <<store, age, memory, network, faults, shareHistory>>

Uploaded(s, ok) ==
    /\ Counted(ok)
    /\ alive /\ content[s] = "part"
    /\ content' = [content EXCEPT ![s] = IF ok THEN "whole" ELSE "none"]
    /\ UNCHANGED <<store, age, memory, network, shareHistory>>

\* Mutant: the entry is written before the content has its name.
AppendEarly(s, ok) ==
    /\ Counted(ok)
    /\ alive /\ content[s] = "part" /\ store[s].kind = "none"
    /\ IF ok THEN store' = [store EXCEPT ![s] = Entry] /\ UNCHANGED content
       ELSE content' = [content EXCEPT ![s] = "none"] /\ UNCHANGED store
    /\ UNCHANGED <<age, memory, network, shareHistory>>

\* The share joins the list; content of a share that cannot is removed.
Append(s, ok) ==
    /\ Counted(ok)
    /\ alive /\ content[s] = "whole" /\ store[s].kind = "none"
    /\ IF ok THEN store' = [store EXCEPT ![s] = Entry] /\ UNCHANGED content
       ELSE content' = [content EXCEPT ![s] = "none"] /\ UNCHANGED store
    /\ UNCHANGED <<age, memory, network, shareHistory>>

\* The content goes before the list is saved.
Delete(s, saved) ==
    /\ Counted(saved)
    /\ alive /\ Exists(s)
    /\ Remove({s})
    /\ IF saved
       THEN store' = [store EXCEPT ![s].kind = "gone"] /\ UNCHANGED broken
       ELSE broken' = broken \cup {s} /\ UNCHANGED store
    /\ UNCHANGED <<age, memory, network, delivered, uncounted>>

Expire(s) ==
    /\ Exists(s) /\ age[s] < 2
    /\ age' = [age EXCEPT ![s] = @ + 1]
    /\ UNCHANGED <<disk, memory, network, faults, shareHistory>>

-----------------------------------------------------------------------------
(* cleanupFileSharesLocked: part of the page, the heartbeat and every sync. *)

Due(s) == Exists(s) /\ (age[s] > 0 \/ Used(s)) /\ ~store[s].removed
Forgotten(s) == Exists(s) /\ age[s] = 2 /\ (store[s].removed \/ Due(s))

\* The list is saved when something changed.
Cleanup(saved) ==
    /\ saved \/ \E s \in Shares : Due(s) \/ Forgotten(s)
    /\ Remove({s \in Shares : Due(s)})
    /\ IF saved
       THEN /\ store' = [s \in Shares |->
                  IF Forgotten(s) THEN [store[s] EXCEPT !.kind = "gone"]
                  ELSE IF Due(s) THEN [store[s] EXCEPT !.removed = TRUE]
                  ELSE store[s]]
            /\ UNCHANGED broken
       ELSE /\ broken' = broken \cup {s \in Shares : Due(s)}
            /\ UNCHANGED store

Page(saved) ==
    /\ Counted(saved)
    /\ alive
    /\ \E s \in Shares : Due(s) \/ Forgotten(s)
    /\ Cleanup(saved)
    /\ UNCHANGED <<age, memory, network, delivered, uncounted>>

-----------------------------------------------------------------------------
(* Downloads.                                                              *)

\* Mutant: downloads under way are not counted.
AdmitsUnreserved(s) == Available(s)

Admits(s) == Available(s) /\ store[s].count + reserved[s] < MaxDownloads

\* findFileShareForRequest, for a device with the token and the right name.
Request(t, s) ==
    /\ alive /\ serving /\ transfer[t].step = "idle" /\ Admits(s)
    /\ reserved' = [reserved EXCEPT ![s] = @ + 1]
    /\ transfer' = [transfer EXCEPT ![t] = [step |-> "open", share |-> s]]
    /\ UNCHANGED <<disk, age, serving, sync, alive, network, faults,
                   shareHistory>>

Goes(t, step) == transfer' = [transfer EXCEPT ![t].step = step]

OpenContent(t) ==
    /\ transfer[t].step = "open"
    /\ Goes(t, IF content[transfer[t].share] = "whole" THEN "copy"
               ELSE "failed")
    /\ UNCHANGED <<disk, age, reserved, serving, sync, alive, network, faults,
                   shareHistory>>

\* The content was copied and its file closed, or the connection broke.
Copied(t, complete) ==
    /\ transfer[t].step = "copy"
    /\ Goes(t, IF complete THEN "complete" ELSE "failed")
    /\ delivered' = IF complete
                    THEN [delivered EXCEPT ![transfer[t].share] = @ + 1]
                    ELSE delivered
    /\ UNCHANGED <<disk, age, reserved, serving, sync, alive, network, faults,
                   uncounted, broken>>

Release(s) == reserved' = [reserved EXCEPT ![s] = IF @ > 0 THEN @ - 1 ELSE 0]

\* finishFileTransfer: the reservation goes first; a list that cannot be loaded
\* or saved leaves the download uncounted.
Finish(t, loaded, saved) ==
    LET s == transfer[t].share
        complete == transfer[t].step = "complete"
        count == store[s].count + (IF complete THEN 1 ELSE 0)
        full == count >= MaxDownloads IN
    /\ Counted(loaded /\ saved)
    /\ transfer[t].step \in {"complete", "failed"}
    /\ Release(s)
    /\ transfer' = [transfer EXCEPT ![t] = Free]
    /\ IF ~loaded \/ ~Exists(s) THEN UNCHANGED <<disk, broken>>
       ELSE /\ IF full THEN Remove({s}) ELSE UNCHANGED content
            /\ IF saved
               THEN /\ store' = [store EXCEPT ![s].count = count,
                                             ![s].removed = @ \/ full]
                    /\ UNCHANGED broken
               ELSE /\ broken' = IF full THEN broken \cup {s} ELSE broken
                    /\ UNCHANGED store
    /\ uncounted' = IF complete /\ ~(loaded /\ saved)
                    THEN [uncounted EXCEPT ![s] = @ + 1] ELSE uncounted
    /\ UNCHANGED <<age, serving, sync, alive, network, delivered>>

-----------------------------------------------------------------------------
(* Serving: syncFileShareServer decides with one lock and acts with another. *)

Announced == {s \in Shares : Available(s)}

\* A list that cannot be loaded counts as empty.
SyncDecides(y, loaded, saved) ==
    /\ Counted(loaded /\ saved)
    /\ alive /\ sync[y] = "idle"
    /\ IF loaded THEN Cleanup(saved) ELSE UNCHANGED <<disk, broken>>
    /\ sync' = [sync EXCEPT ![y] =
         IF loaded /\ Announced # {} THEN "open" ELSE "close"]
    /\ UNCHANGED <<age, reserved, transfer, serving, alive, network,
                   delivered, uncounted>>

SyncActs(y) == sync' = [sync EXCEPT ![y] = "idle"] /\ UNCHANGED
    <<disk, age, reserved, transfer, alive, network, faults, shareHistory>>

SyncOpens(y) == sync[y] = "open" /\ serving' = TRUE /\ SyncActs(y)

\* The mesh address cannot be bound: its interface is not there.
SyncFails(y) == sync[y] = "open" /\ ~serving /\ SyncActs(y) /\ UNCHANGED serving

SyncCloses(y) == sync[y] = "close" /\ serving' = FALSE /\ SyncActs(y)

\* Serve returns an error: the runtime is kept without its listener.
ServeFails ==
    /\ serving /\ faults < MaxFaults
    /\ serving' = FALSE /\ faults' = faults + 1
    /\ UNCHANGED <<disk, age, reserved, transfer, sync, alive, network,
                   shareHistory>>

-----------------------------------------------------------------------------
(* Announcing.                                                             *)

\* One heartbeat at a time (heartbeatMu), but one that timed out may still be
\* handled after a later one.
SendHeartbeat(loaded, saved) ==
    LET list == IF loaded THEN Announced ELSE {} IN
    /\ Counted(loaded /\ saved)
    /\ alive /\ Cardinality(mail) < MaxMail /\ list \notin mail
    /\ IF loaded THEN Cleanup(saved) ELSE UNCHANGED <<disk, broken>>
    /\ mail' = mail \cup {list}
    /\ UNCHANGED <<age, memory, directory, known, delivered, uncounted>>

Lost(list) ==
    /\ mail' = mail \ {list}
    /\ UNCHANGED <<disk, age, memory, directory, known, faults, shareHistory>>

\* Mutant: the limit itself is too many.
HeardBelowLimit(list) ==
    /\ mail' = mail \ {list}
    /\ directory' = IF Cardinality(list) >= MaxListed THEN directory
                    ELSE list \cap known
    /\ UNCHANGED <<disk, age, memory, known, faults, shareHistory>>

\* The server replaces the announced shares and their tokens, but for those of
\* unknown recipients; it refuses too many as a whole.
Heard(list) ==
    /\ mail' = mail \ {list}
    /\ directory' = IF Cardinality(list) > MaxListed THEN directory
                    ELSE list \cap known
    /\ UNCHANGED <<disk, age, memory, known, faults, shareHistory>>

\* The recipient of a share is deleted, or enrolled again.
RecipientLeaves(s) ==
    /\ Counted(FALSE)
    /\ s \in known /\ known' = known \ {s}
    /\ UNCHANGED <<disk, age, memory, mail, directory, shareHistory>>

RecipientReturns(s) ==
    /\ s \notin known /\ known' = known \cup {s}
    /\ UNCHANGED <<disk, age, memory, mail, directory, faults, shareHistory>>

ServerRestarts ==
    /\ faults < MaxFaults
    /\ directory' = {} /\ faults' = faults + 1
    /\ UNCHANGED <<disk, age, memory, mail, known, shareHistory>>

\* A complete download whose end is not reached is not counted either.
ClientCrashes ==
    /\ alive /\ faults < MaxFaults
    /\ alive' = FALSE /\ faults' = faults + 1 /\ serving' = FALSE
    /\ reserved' = [s \in Shares |-> 0]
    /\ transfer' = [t \in Transfers |-> Free]
    /\ sync' = [y \in Syncers |-> "idle"]
    /\ uncounted' = [s \in Shares |-> uncounted[s] + Cardinality(
         {t \in Transfers : transfer[t] = [step |-> "complete", share |-> s]})]
    /\ UNCHANGED <<disk, age, network, delivered, broken>>

ClientStarts ==
    /\ ~alive
    /\ alive' = TRUE
    /\ UNCHANGED <<disk, age, reserved, transfer, serving, sync, network,
                   faults, shareHistory>>

-----------------------------------------------------------------------------
ShareInit ==
    /\ store = [s \in Shares |-> NoEntry] /\ age = [s \in Shares |-> 0]
    /\ content = [s \in Shares |-> "none"]
    /\ reserved = [s \in Shares |-> 0]
    /\ transfer = [t \in Transfers |-> Free]
    /\ serving = FALSE /\ sync = [y \in Syncers |-> "idle"] /\ alive = TRUE
    /\ mail = {} /\ directory = {} /\ known = Shares /\ faults = 0
    /\ delivered = [s \in Shares |-> 0] /\ uncounted = [s \in Shares |-> 0]
    /\ broken = {}

ShareNext ==
    \/ \E s \in Shares, ok \in BOOLEAN :
        Uploaded(s, ok) \/ Append(s, ok) \/ Delete(s, ok)
    \/ \E s \in Shares : \/ Upload(s) \/ Expire(s)
                         \/ RecipientLeaves(s) \/ RecipientReturns(s)
    \/ \E saved \in BOOLEAN : Page(saved)
    \/ \E loaded, saved \in BOOLEAN :
        \/ SendHeartbeat(loaded, saved)
        \/ \E y \in Syncers : SyncDecides(y, loaded, saved)
    \/ \E t \in Transfers, s \in Shares : Request(t, s)
    \/ \E t \in Transfers : OpenContent(t)
    \/ \E t \in Transfers, ok \in BOOLEAN : Copied(t, ok)
    \/ \E t \in Transfers, loaded, saved \in BOOLEAN : Finish(t, loaded, saved)
    \/ \E y \in Syncers : SyncOpens(y) \/ SyncFails(y) \/ SyncCloses(y)
    \/ \E list \in mail : Heard(list) \/ Lost(list)
    \/ ServeFails \/ ServerRestarts \/ ClientCrashes \/ ClientStarts

\* The loops run on and a heartbeat is answered or times out; the address can be
\* bound, and a heartbeat that lists a share arrives, if tried again and again:
\* nothing else in it is refused for ever.
ShareFairness ==
    /\ WF_shareVars(ClientStarts)
    /\ WF_shareVars(\E loaded, saved \in BOOLEAN : SendHeartbeat(loaded, saved))
    /\ WF_shareVars(\E loaded, saved \in BOOLEAN :
                       SyncDecides(Loop, loaded, saved))
    /\ WF_shareVars(SyncCloses(Loop))
    /\ WF_shareVars(\E list \in mail : Heard(list) \/ Lost(list))
    /\ SF_shareVars(SyncOpens(Loop))
    /\ \A s \in Shares :
        SF_shareVars(\E list \in mail : s \in list /\ Heard(list))

ShareSpec == ShareInit /\ [][ShareNext]_shareVars
ShareFairSpec == ShareSpec /\ ShareFairness

-----------------------------------------------------------------------------
(* Properties.                                                             *)

TransferSteps == {"idle", "open", "copy", "complete", "failed"}

ShareTypeOK ==
    /\ store \in [Shares -> [kind : {"none", "listed", "gone"},
                             count : 0 .. MaxDownloads, removed : BOOLEAN]]
    /\ age \in [Shares -> 0 .. 2]
    /\ content \in [Shares -> {"none", "part", "whole"}]
    /\ reserved \in [Shares -> 0 .. Cardinality(Transfers)]
    /\ transfer \in [Transfers -> [step : TransferSteps, share : Shares]]
    /\ sync \in [Syncers -> {"idle", "open", "close"}]
    /\ {serving, alive} \subseteq BOOLEAN
    /\ mail \subseteq SUBSET Shares
    /\ {directory, known} \subseteq SUBSET Shares
    /\ faults \in 0 .. MaxFaults /\ broken \subseteq Shares

\* However downloads overlap, a share is handed out completely at most as often
\* as its owner allowed, plus the downloads whose end was not written down: the
\* list could not be loaded or saved, or the client ended first.
DownloadsWithinLimit == \A s \in Shares :
    delivered[s] <= MaxDownloads + uncounted[s]

\* A download that was admitted finds the content, whatever other downloads
\* end in between, unless the share has expired or was deleted since, or a list
\* was not saved after the content was gone.
ReservationHonoured == \A t \in Transfers :
    LET s == transfer[t].share IN
    transfer[t].step = "open" /\ Exists(s) /\ age[s] = 0 /\ s \notin broken
        => content[s] = "whole"

\* An available share is at some time listed to other devices and served, unless
\* it is used up, expires or is deleted, its recipient is not enrolled or the
\* device has more shares than the server takes: a stale decision to close, a
\* listener that failed, a list that could not be loaded, a heartbeat out of
\* order and a server that forgot its tokens are all made good by the loops.
ShareReachable == \A s \in Shares :
    Available(s) ~> \/ s \in directory /\ serving
                    \/ ~Available(s) \/ s \notin known
                    \/ Cardinality(Announced) > MaxListed

\* web/index.html: content of a share that expired or is used up is removed.
ContentWithdrawn == \A s \in Shares :
    store[s].removed ~> content[s] = "none"
=============================================================================
