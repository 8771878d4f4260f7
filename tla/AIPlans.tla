------------------------------ MODULE AIPlans -------------------------------
(***************************************************************************)
(* The AI assistant.  A page of the client asks; the client seals the      *)
(* question for the server, which has the provider write a plan and seals  *)
(* it for the key it holds of the client.  The client keeps the plan in    *)
(* memory until a page confirms it: then its actions are executed one      *)
(* after the other, and the provider is asked to review the results.       *)
(*                                                                         *)
(* A key that Windows can no longer decrypt is replaced on the spot, while *)
(* the server learns the new one with a heartbeat.  Several pages may be   *)
(* open, and each may confirm what the conversation shows.                 *)
(***************************************************************************)
EXTENDS Integers, FiniteSets

CONSTANTS
    Pages,      \* pages of the client: its window and browsers
    Plans,      \* plan IDs, random tokens
    NoPlan,     \* no plan
    ActionsOf,  \* how many actions a plan has (12 at most in the code)
    MaxRate,    \* requests a device has in a minute (10 in the code)
    MaxAsked,   \* bound: questions under way at once
    MaxMishaps  \* bound: lost keys, restarts, changes of the settings

ASSUME AIAssumption ==
    /\ NoPlan \notin Plans
    /\ ActionsOf \in [Plans -> Nat]
    /\ {MaxRate, MaxAsked} \subseteq Nat \ {0} /\ MaxMishaps \in Nat

VARIABLES
    key,       \* the client's key pairs are numbered; 0: none yet
    readable,  \* Windows decrypts the private key
    pinned,    \* client-state.json holds the server's public key
    held,      \* the client's key in the server's registry; 0: none
    beats,     \* keys in heartbeats on their way
    enabled,   \* the provider is set up on the server
    recent,    \* requests the server counts in the last minute
    task,      \* what each page waits for
    plans,     \* aiPlans: the plans the client holds
    expired,   \* plans whose ten minutes are over
    talk,      \* a conversation in the history file: "open" or "deleted"
    shown,     \* the plans in its messages, which its pages show
    confirmed, \* history: plans somebody confirmed
    begun,     \* history: how often the actions of a plan were begun
    mishaps    \* mishaps so far

aiKeys == <<key, readable, pinned, held, beats>>
aiServer == <<enabled, recent>>
aiTalk == <<talk, shown>>
aiHistory == <<confirmed, begun>>
aiVars == <<aiKeys, aiServer, task, plans, expired, aiTalk, aiHistory,
            mishaps>>

Mishap == mishaps < MaxMishaps /\ mishaps' = mishaps + 1

\* `of` is the plan a page has confirmed, `left` its actions still to come.
AtRest == [at |-> "idle", review |-> FALSE, key |-> 0, sealed |-> 0,
           plan |-> NoPlan, of |-> NoPlan, left |-> 0]
Steps == {"idle", "asked", "sent", "served", "answered", "confirmed",
          "acting", "acted"}

Waits(p) == task[p].at \in {"asked", "sent", "served", "answered"}

Advances(p, j) == task' = [task EXCEPT ![p] = j]

-----------------------------------------------------------------------------
(* Keys.                                                                   *)

\* A pair that is missing or cannot be decrypted is replaced and saved.
ensureClientAIIdentity ==
    /\ key' = IF key > 0 /\ readable THEN key ELSE key + 1
    /\ readable' = TRUE

\* Another Windows account or profile: DPAPI refuses.
KeyUnreadable ==
    /\ Mishap /\ readable /\ readable' = FALSE
    /\ UNCHANGED <<key, pinned, held, beats, aiServer, task, plans, expired,
                   aiTalk, aiHistory>>

\* Mutant: a heartbeat carries the key only until the server has one.
BeatSentOnce ==
    /\ beats' = IF held = 0 THEN beats \cup {key} ELSE beats
    /\ UNCHANGED <<key, readable, pinned, held, aiServer, task, plans, expired,
                   aiTalk, aiHistory, mishaps>>

\* A heartbeat reads the public key from client-state.json.
BeatSent ==
    /\ beats' = beats \cup {key}
    /\ UNCHANGED <<key, readable, pinned, held, aiServer, task, plans, expired,
                   aiTalk, aiHistory, mishaps>>

\* The server keeps the key of the heartbeat; the reply, which may be lost,
\* carries its own, which is pinned for good.
BeatHeard(k) ==
    /\ k \in beats /\ beats' = beats \ {k}
    /\ held' = k
    /\ pinned' \in {pinned, TRUE}
    /\ UNCHANGED <<key, readable, aiServer, task, plans, expired, aiTalk,
                   aiHistory, mishaps>>

-----------------------------------------------------------------------------
(* The conversation.                                                       *)

\* AddAIMessage asks for no conversation: the reference of its table is not
\* enforced.
Noted(some) == shown' = shown \cup some

DeleteAIConversation ==
    /\ talk = "open" /\ talk' = "deleted" /\ shown' = {}
    /\ UNCHANGED <<aiKeys, aiServer, task, plans, expired, aiHistory,
                   mishaps>>

-----------------------------------------------------------------------------
(* A request.                                                              *)

\* A page asks in the conversation.
Asked(p) ==
    /\ task[p] = AtRest /\ talk = "open"
    /\ Cardinality({q \in Pages : Waits(q)}) < MaxAsked
    /\ Advances(p, [AtRest EXCEPT !.at = "asked"])
    /\ UNCHANGED <<aiKeys, aiServer, plans, expired, aiTalk, aiHistory,
                   mishaps>>

\* The question is sealed for the pinned key; the private key in use by now
\* will open the answer.
Sealed(p) ==
    /\ task[p].at = "asked" /\ pinned
    /\ ensureClientAIIdentity
    /\ Advances(p, [task[p] EXCEPT !.at = "sent", !.key = key'])
    /\ UNCHANGED <<pinned, held, beats, aiServer, plans, expired, aiTalk,
                   aiHistory, mishaps>>

\* The server reads the client's key and its settings, and counts the request.
Served(p) ==
    /\ task[p].at = "sent" /\ recent < MaxRate /\ held > 0 /\ enabled
    /\ recent' = recent + 1
    /\ Advances(p, [task[p] EXCEPT !.at = "served", !.sealed = held])
    /\ UNCHANGED <<aiKeys, enabled, plans, expired, aiTalk, aiHistory,
                   mishaps>>

\* The answer opens with the key it was sealed for; its plan has the size and
\* the tools that validateAIPlan allows, and is kept.
Answered(p, a) ==
    /\ task[p].at = "served" /\ task[p].sealed = task[p].key
    /\ begun[a] = 0 /\ a \notin plans \cup expired \cup shown \cup confirmed
    /\ \A q \in Pages : task[q].plan # a
    /\ plans' = plans \cup {a}
    /\ Advances(p, [task[p] EXCEPT !.at = "answered", !.plan = a])
    /\ UNCHANGED <<aiKeys, aiServer, expired, aiTalk, aiHistory, mishaps>>

\* The conversation and its page get the answer; if the page was closed
\* meanwhile, nothing is noted.
Replied(p) ==
    /\ task[p].at = "answered" /\ ~task[p].review
    /\ Noted({task[p].plan}) \/ UNCHANGED shown
    /\ Advances(p, AtRest)
    /\ UNCHANGED <<aiKeys, aiServer, plans, expired, talk, aiHistory, mishaps>>

\* What ends a request: no pinned key; too many requests, no key of the
\* client, no provider; and a provider that fails or writes no valid plan, an
\* answer that does not open or does not come within 330 seconds.
Refused(p) ==
    \/ task[p].at = "asked" /\ ~pinned
       /\ ensureClientAIIdentity /\ UNCHANGED recent
    \/ task[p].at = "sent" /\ recent = MaxRate
       /\ UNCHANGED <<key, readable, recent>>
    \/ task[p].at = "sent" /\ recent < MaxRate /\ (held = 0 \/ ~enabled)
       /\ recent' = recent + 1 /\ UNCHANGED <<key, readable>>
    \/ task[p].at = "served"
       /\ UNCHANGED <<key, readable, recent>>

\* A page that waits is told; a review that fails is left out.
Failed(p) ==
    /\ Refused(p)
    /\ Advances(p, IF task[p].review THEN [task[p] EXCEPT !.at = "acted"]
                ELSE AtRest)
    /\ UNCHANGED <<pinned, held, beats, enabled, plans, expired,
                   aiTalk, aiHistory, mishaps>>

-----------------------------------------------------------------------------
(* A plan.                                                                 *)

\* A page shows a plan, and somebody confirms it: perhaps once more, or on
\* another page.
PlanConfirmed(p, a) ==
    /\ task[p] = AtRest /\ a \in shown
    /\ confirmed' = confirmed \cup {a}
    /\ Advances(p, [AtRest EXCEPT !.at = "confirmed", !.of = a])
    /\ UNCHANGED <<aiKeys, aiServer, plans, expired, aiTalk, begun,
                   mishaps>>

Begins(p, a) ==
    /\ Advances(p, [task[p] EXCEPT !.at = "acting", !.left = ActionsOf[a]])
    /\ begun' = [begun EXCEPT ![a] = @ + 1]

\* Mutant: the plan is taken out of the map when its actions are done.
ExecuteKeeping(p) ==
    LET a == task[p].of
    IN  /\ task[p].at = "confirmed" /\ UNCHANGED plans
        /\ IF a \in plans \ expired
           THEN Begins(p, a)
           ELSE Advances(p, AtRest) /\ UNCHANGED begun
        /\ UNCHANGED <<aiKeys, aiServer, expired, aiTalk, confirmed, mishaps>>

\* executeAIPlan takes the plan out of the map, and looks at the time after.
Execute(p) ==
    LET a == task[p].of
    IN  /\ task[p].at = "confirmed" /\ plans' = plans \ {a}
        /\ IF a \in plans \ expired
           THEN Begins(p, a)
           ELSE Advances(p, AtRest) /\ UNCHANGED begun
        /\ UNCHANGED <<aiKeys, aiServer, expired, aiTalk, confirmed, mishaps>>

\* One action, which may fail: the next one follows.  An installed update
\* ends the plan without a review.  So does a plan without actions.
Act(p) ==
    /\ task[p].at = "acting"
    /\ \/ /\ task[p].left > 1
          /\ Advances(p, [task[p] EXCEPT !.left = @ - 1])
       \/ /\ task[p].left = 1
          /\ Advances(p, [task[p] EXCEPT !.left = 0, !.at = "asked",
                                     !.review = TRUE])
       \/ Advances(p, [task[p] EXCEPT !.left = 0, !.at = "acted"])
    /\ UNCHANGED <<aiKeys, aiServer, plans, expired, aiTalk, aiHistory,
                   mishaps>>

\* The results, and the plan of the review, go to the page and into the
\* conversation.
Reported(p) ==
    LET review == IF task[p].plan = NoPlan THEN {} ELSE {task[p].plan}
    IN  /\ \/ task[p].at = "acted"
           \/ task[p].at = "answered" /\ task[p].review
        /\ Advances(p, AtRest)
        /\ Noted(review)
        /\ UNCHANGED <<aiKeys, aiServer, plans, expired, talk, aiHistory,
                       mishaps>>

-----------------------------------------------------------------------------
(* Time, the server's settings, and restarts.                              *)

Expires(a) ==
    /\ a \in plans \ expired
    /\ expired' = expired \cup {a}
    /\ UNCHANGED <<aiKeys, aiServer, task, plans, aiTalk, aiHistory, mishaps>>

\* A request leaves the limiter's minute.
MinutePasses ==
    /\ recent > 0 /\ recent' = recent - 1
    /\ UNCHANGED <<aiKeys, enabled, task, plans, expired, aiTalk,
                   aiHistory, mishaps>>

ConfigSet ==
    /\ Mishap /\ enabled' = ~enabled
    /\ UNCHANGED <<aiKeys, recent, task, plans, expired, aiTalk, aiHistory>>

AIServerRestarts ==
    /\ Mishap /\ recent' = 0
    /\ UNCHANGED <<aiKeys, enabled, task, plans, expired, aiTalk, aiHistory>>

\* The client forgets its plans and what its pages waited for; the history
\* file shows the plans as before.
AIClientRestarts ==
    /\ Mishap
    /\ plans' = {} /\ task' = [p \in Pages |-> AtRest]
    /\ ensureClientAIIdentity
    /\ UNCHANGED <<pinned, held, beats, aiServer, expired, aiTalk, aiHistory>>

-----------------------------------------------------------------------------
AIInit ==
    /\ key = 1 /\ readable = TRUE /\ held \in {0, 1} /\ pinned = (held = 1)
    /\ beats = {}
    /\ enabled = TRUE /\ recent = 0
    /\ task = [p \in Pages |-> AtRest]
    /\ plans = {} /\ expired = {}
    /\ talk = "open" /\ shown = {}
    /\ confirmed = {} /\ begun = [a \in Plans |-> 0]
    /\ mishaps = 0

BeatsHeard == \E k \in beats : BeatHeard(k)

AINext ==
    \/ KeyUnreadable \/ BeatSent \/ BeatsHeard \/ DeleteAIConversation
    \/ MinutePasses \/ ConfigSet \/ AIServerRestarts \/ AIClientRestarts
    \/ \E a \in Plans : Expires(a)
    \/ \E p \in Pages :
          \/ Asked(p) \/ Sealed(p)
          \/ Served(p) \/ Replied(p) \/ Failed(p)
          \/ Execute(p) \/ Act(p) \/ Reported(p)
          \/ \E a \in Plans : Answered(p, a) \/ PlanConfirmed(p, a)

\* Heartbeats are sent every ten seconds and come through.
AIFairness == WF_aiVars(BeatSent) /\ WF_aiVars(BeatsHeard)

AISpec == AIInit /\ [][AINext]_aiVars
AIFairSpec == AISpec /\ AIFairness

-----------------------------------------------------------------------------
AITypeOK ==
    /\ key \in Nat /\ held \in 0 .. key /\ beats \subseteq 0 .. key
    /\ recent \in 0 .. MaxRate
    /\ \A p \in Pages :
          /\ task[p].at \in Steps
          /\ {task[p].plan, task[p].of} \subseteq Plans \cup {NoPlan}
    /\ plans \cup expired \cup shown \subseteq Plans

\* A plan's actions are begun at most once, however many pages confirm it and
\* whatever the reviews propose, and only after somebody confirmed that very
\* plan (executeAIPlan).
PlanRunsOnce ==
    \A a \in Plans : begun[a] <= (IF a \in confirmed THEN 1 ELSE 0)

\* A client that had to replace its key is not cut off from the assistant:
\* the server gets to hold the key that is in use.
KeysMeet == <>[](held = key)

\* The page says that deleting a conversation deletes all its messages.
DeletedTalkIsEmpty == talk = "deleted" => shown = {}
=============================================================================
