---------------------------- MODULE NebulaChild ----------------------------
(***************************************************************************)
(* nebulaChildProcess: the Nebula process a main server or a child node    *)
(* keeps running, and the goroutines around it.                            *)
(*                                                                         *)
(* Every child has a waiter (cmd.Wait), which returns when the process is  *)
(* gone and its output was read to the end, takes p.mu to forget the       *)
(* child, and closes `done`.  On the main server the output is read by a   *)
(* goroutine that takes stateMu for each handshake line, the mutex that a  *)
(* handler holds while it calls Restart.  A child node's handlers release  *)
(* theirs before the call, and its child writes to the standard output.    *)
(* What runs under p.mu is one action.                                     *)
(***************************************************************************)
EXTENDS Integers

CONSTANTS Handlers,    \* requests that end in Restart
          MaxChildren, \* bound: children whose waiters are at work at once
          MainServer,  \* TRUE: the main server; FALSE: a child node
          None

ASSUME ChildAssumption ==
    /\ MaxChildren \in Nat \ {0}
    /\ MainServer \in BOOLEAN
    /\ None \notin Handlers

VARIABLES
    cmd,    \* p.cmd, 0 for nil; p.running says whether it is nil
    child,  \* what became of each child
    behind, \* children that loaded a config which was rewritten since
    unread, \* children with a handshake line nobody has read
    mutex,  \* stateMu of the main server: the handler that holds it, or None
    pc,     \* progress of each handler
    target, \* the child whose `done` the handler waits for
    good,   \* whether its Restart returned without an error
    phase   \* of the server itself: serving, in Stop, or ended

vars == <<cmd, child, behind, unread, mutex, pc, target, good, phase>>

Children == 1 .. MaxChildren
Alive(k) == child[k] \in {"running", "killed"}

\* A number may be used again when its waiter has ended.
Unused(k) == child[k] = "over" /\ \A h \in Handlers : target[h] # k

Goto(h, step) == pc' = [pc EXCEPT ![h] = step]

-----------------------------------------------------------------------------
(* A handler: it writes Nebula's config and restarts the child.            *)

Enter(h) ==
    /\ pc[h] = "idle"
    /\ mutex = None
    /\ mutex' = IF MainServer THEN h ELSE None
    /\ behind' = {k \in Children : Alive(k)}
    /\ Goto(h, "restart")
    /\ UNCHANGED <<cmd, child, unread, target, good, phase>>

Fails(h) ==
    /\ good' = [good EXCEPT ![h] = FALSE]
    /\ Goto(h, "reply")

\* The state could not be saved: the child is left alone.
SaveFails(h) ==
    /\ pc[h] = "restart"
    /\ Fails(h)
    /\ UNCHANGED <<cmd, child, behind, unread, mutex, target, phase>>

\* startLocked: whatever p.cmd was is overwritten.
StartLocked(h) ==
    \/ \E k \in Children :
          /\ Unused(k)
          /\ child' = [child EXCEPT ![k] = "running"]
          /\ cmd' = k
          /\ behind' = behind \ {k}
          /\ good' = [good EXCEPT ![h] = TRUE]
          /\ Goto(h, "reply")
    \/ /\ Fails(h)
       /\ UNCHANGED <<cmd, child, behind>>

RestartStarts(h) ==
    /\ pc[h] = "restart"
    /\ cmd = 0
    /\ StartLocked(h)
    /\ UNCHANGED <<unread, mutex, target, phase>>

\* Killing a process that is gone is an error the code ignores.
Kill == child' = [child EXCEPT ![cmd] = IF @ = "running" THEN "killed" ELSE @]

\* Mutant: Start, which leaves a child that runs alone.
RestartKeeps(h) ==
    /\ pc[h] = "restart"
    /\ cmd # 0
    /\ good' = [good EXCEPT ![h] = TRUE]
    /\ Goto(h, "reply")
    /\ UNCHANGED <<cmd, child, behind, unread, mutex, target, phase>>

RestartKills(h) ==
    /\ pc[h] = "restart"
    /\ cmd # 0
    /\ Kill
    /\ target' = [target EXCEPT ![h] = cmd]
    /\ Goto(h, "waiting")
    /\ UNCHANGED <<cmd, behind, unread, mutex, good, phase>>

\* `done` is closed: p.mu is taken again and a child started, without a look
\* at what happened meanwhile.
RestartGoesOn(h) ==
    /\ pc[h] = "waiting"
    /\ child[target[h]] = "over"
    /\ StartLocked(h)
    /\ target' = [target EXCEPT ![h] = 0]
    /\ UNCHANGED <<unread, mutex, phase>>

\* Mutant: the time is up, and the handler waits again.
RestartWaits(h) ==
    /\ pc[h] = "waiting"
    /\ UNCHANGED vars

\* Mutant: the time is up, and a child is started all the same.
RestartForces(h) ==
    /\ pc[h] = "waiting"
    /\ StartLocked(h)
    /\ target' = [target EXCEPT ![h] = 0]
    /\ UNCHANGED <<unread, mutex, phase>>

\* Five seconds have passed.
RestartTimesOut(h) ==
    /\ pc[h] = "waiting"
    /\ Fails(h)
    /\ target' = [target EXCEPT ![h] = 0]
    /\ UNCHANGED <<cmd, child, behind, unread, mutex, phase>>

Reply(h) ==
    /\ pc[h] = "reply"
    /\ mutex' = None
    /\ Goto(h, "idle")
    /\ UNCHANGED <<cmd, child, behind, unread, target, good, phase>>

-----------------------------------------------------------------------------
(* The child, the reader of its output and its waiter.                     *)

\* The process ends, by itself or killed.
Exits(k) ==
    /\ Alive(k)
    /\ child' = [child EXCEPT ![k] = "dead"]
    /\ UNCHANGED <<cmd, behind, unread, mutex, pc, target, good, phase>>

LogsHandshake(k) ==
    /\ MainServer
    /\ child[k] = "running"
    /\ unread' = unread \cup {k}
    /\ UNCHANGED <<cmd, child, behind, mutex, pc, target, good, phase>>

\* nebulaCertificateLogWriter.Write calls onFingerprint, which takes stateMu.
ReadsHandshake(k) ==
    /\ k \in unread
    /\ mutex = None
    /\ unread' = unread \ {k}
    /\ UNCHANGED <<cmd, child, behind, mutex, pc, target, good, phase>>

\* cmd.Wait returns, and p.cmd is cleared if it still is this child.
Waited(k) ==
    /\ child[k] = "dead"
    /\ k \notin unread
    /\ child' = [child EXCEPT ![k] = "waited"]
    /\ cmd' = IF cmd = k THEN 0 ELSE cmd
    /\ UNCHANGED <<behind, unread, mutex, pc, target, good, phase>>

ClosesDone(k) ==
    /\ child[k] = "waited"
    /\ child' = [child EXCEPT ![k] = "over"]
    /\ UNCHANGED <<cmd, behind, unread, mutex, pc, target, good, phase>>

-----------------------------------------------------------------------------
(* The server stops: the listener failed and Stop runs, up to three        *)
(* seconds, while handlers go on.                                          *)

StopKills ==
    /\ phase = "serving"
    /\ phase' = "stopping"
    /\ IF cmd = 0 THEN UNCHANGED child ELSE Kill
    /\ UNCHANGED <<cmd, behind, unread, mutex, pc, target, good>>

StopReturns ==
    /\ phase = "stopping"
    /\ phase' = "ended"
    /\ UNCHANGED <<cmd, child, behind, unread, mutex, pc, target, good>>

-----------------------------------------------------------------------------

\* Start has started the first child.
Init ==
    /\ cmd = 1
    /\ child = [k \in Children |-> IF k = 1 THEN "running" ELSE "over"]
    /\ behind = {}
    /\ unread = {}
    /\ mutex = None
    /\ pc = [h \in Handlers |-> "idle"]
    /\ target = [h \in Handlers |-> 0]
    /\ good = [h \in Handlers |-> FALSE]
    /\ phase = "serving"

Restart(h) ==
    \/ RestartStarts(h)
    \/ RestartKills(h)
    \/ RestartGoesOn(h)
    \/ RestartTimesOut(h)

HandlerStep(h) ==
    \/ Enter(h)
    \/ SaveFails(h)
    \/ Restart(h)
    \/ Reply(h)

ChildStep(k) ==
    \/ Exits(k)
    \/ LogsHandshake(k)
    \/ ReadsHandshake(k)
    \/ Waited(k)
    \/ ClosesDone(k)

Next ==
    \/ phase # "ended" /\ \E h \in Handlers : HandlerStep(h)
    \/ phase # "ended" /\ \E k \in Children : ChildStep(k)
    \/ StopKills
    \/ StopReturns

Spec == Init /\ [][Next]_vars

\* Goroutines that can run do, and the timer of Restart fires.  A sync.Mutex
\* does not starve the reader of the output.  Nothing makes a request arrive,
\* a child exit by itself or the server stop.
Running == phase # "ended"
Fairness ==
    /\ \A h \in Handlers : WF_vars(Running /\ (Restart(h) \/ Reply(h)))
    /\ \A k \in Children :
          /\ WF_vars(Running /\ child[k] = "killed" /\ Exits(k))
          /\ SF_vars(Running /\ ReadsHandshake(k))
          /\ WF_vars(Running /\ Waited(k))
          /\ WF_vars(Running /\ ClosesDone(k))

FairSpec == Spec /\ Fairness

-----------------------------------------------------------------------------
(* Properties.                                                             *)

\* Type invariant.
ChildTypeOK ==
    /\ cmd \in 0 .. MaxChildren
    /\ child \in [Children -> {"running", "killed", "dead", "waited", "over"}]
    /\ behind \subseteq Children
    /\ unread \subseteq Children
    /\ mutex \in Handlers \cup {None}
    /\ pc \in [Handlers -> {"idle", "restart", "waiting", "reply"}]
    /\ target \in [Handlers -> 0 .. MaxChildren]
    /\ good \in [Handlers -> BOOLEAN]
    /\ phase \in {"serving", "stopping", "ended"}
    /\ \A h \in Handlers : pc[h] = "waiting" => target[h] # 0

\* On the main server no Nebula process lives that p.cmd does not point to:
\* the next Restart can kill it, and no two compete for the UDP port.
AliveIsTracked ==
    MainServer => \A k \in Children : Alive(k) => cmd = k

\* When the main server's Restart returned without an error, no process is
\* alive with a config, and so a blocklist, older than the handler's.
AnsweredConfigLoaded ==
    MainServer => \A h \in Handlers :
        pc[h] = "reply" /\ good[h] => \A k \in Children : Alive(k) => k \notin behind

\* A handler that has entered returns, although the reader of the child's
\* output needs the mutex the handler holds while it waits for the child.
HandlersReturn ==
    \A h \in Handlers : pc[h] = "restart" ~> (pc[h] = "idle" \/ phase = "ended")

\* The exit of a child is noticed: the health the server reports (p.running)
\* does not go on showing a process that is gone.
ExitNoticed ==
    \A k \in Children :
        (cmd = k /\ child[k] = "dead") ~>
            (cmd # k \/ child[k] = "running" \/ phase = "ended")
=============================================================================
