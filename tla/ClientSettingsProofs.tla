------------------------ MODULE ClientSettingsProofs ------------------------
(***************************************************************************)
(* Proofs about the AI assistant's plans (AIPlans), for any pages, plans   *)
(* and bounds, and about the client's network settings (NetworkSettings),  *)
(* for any calls of the page's handlers, networks, relays and bounds.      *)
(***************************************************************************)
EXTENDS AIPlans, NetworkSettings, TLAPS

-----------------------------------------------------------------------------
(* Plans of the AI assistant.                                              *)

Tasks == [at : Steps, review : BOOLEAN, key : Nat, sealed : Nat,
          plan : Plans \cup {NoPlan}, of : Plans \cup {NoPlan}, left : Int]

AIShape ==
    /\ key \in Nat /\ held \in 0 .. key /\ beats \subseteq 0 .. key
    /\ recent \in 0 .. MaxRate
    /\ task \in [Pages -> Tasks]
    /\ plans \subseteq Plans /\ expired \subseteq Plans
    /\ shown \subseteq Plans /\ confirmed \subseteq Plans
    /\ begun \in [Plans -> Nat]

\* A plan that is still in the map was never begun.
KeptPlansUnbegun == \A a \in plans : begun[a] = 0

\* A page comes to execute only what somebody confirmed.
ConfirmedFirst ==
    \A p \in Pages : task[p].at = "confirmed" => task[p].of \in confirmed

\* An answer brought a plan.
AnsweredByPlan ==
    \A p \in Pages : task[p].at = "answered" => task[p].plan \in Plans

AIInvariant ==
    /\ AIShape /\ KeptPlansUnbegun /\ ConfirmedFirst /\ AnsweredByPlan
    /\ PlanRunsOnce

-----------------------------------------------------------------------------
(* What one request does.                                                  *)

\* A page that waits, asks or reports changes neither the history nor the
\* plans: the invariant's other parts are kept if no page gets to confirm.
LEMMA QuietStep ==
    ASSUME AIInvariant, UNCHANGED <<plans, confirmed, begun>>,
           NEW p \in Pages, NEW j \in Tasks, Advances(p, j),
           j.at \notin {"confirmed", "answered"}
    PROVE  /\ KeptPlansUnbegun' /\ ConfirmedFirst' /\ AnsweredByPlan'
           /\ PlanRunsOnce'
  <1> USE DEF AIInvariant
  <1>1. KeptPlansUnbegun' /\ PlanRunsOnce'
    BY DEF KeptPlansUnbegun, PlanRunsOnce
  <1>2. ConfirmedFirst' /\ AnsweredByPlan'
    BY DEF ConfirmedFirst, AnsweredByPlan, AIShape, Advances
  <1> QED
    BY <1>1, <1>2

\* Steps that leave the pages, the plans and the history alone.
LEMMA OutsideStep ==
    ASSUME AIInvariant, UNCHANGED <<task, plans, confirmed, begun>>
    PROVE  /\ KeptPlansUnbegun' /\ ConfirmedFirst' /\ AnsweredByPlan'
           /\ PlanRunsOnce'
  BY DEF AIInvariant, KeptPlansUnbegun, ConfirmedFirst, AnsweredByPlan,
         PlanRunsOnce

\* A key is replaced by a newer one, never by an older one.
LEMMA KeyGrows ==
    ASSUME AIShape, ensureClientAIIdentity
    PROVE  key' \in Nat /\ key <= key' /\ 0 .. key \subseteq 0 .. key'
  BY DEF AIShape, ensureClientAIIdentity

\* What a page has when nothing is under way is well formed.
LEMMA IdleTask == AtRest \in Tasks /\ AtRest.at = "idle"
  BY DEF AtRest, Tasks, Steps

\* An answer arrives, with or without a plan.
LEMMA AnsweredStep ==
    ASSUME AIInvariant, NEW p \in Pages, NEW a \in Plans, Answered(p, a)
    PROVE  AIInvariant'
  <1>1. task[p] \in Tasks
    BY DEF AIInvariant, AIShape
  <1>2. [task[p] EXCEPT !.at = "answered", !.plan = a] \in Tasks
    BY <1>1 DEF Tasks, Steps
  <1>3. AIShape'
    BY <1>2 DEF AIInvariant, AIShape, Answered, Advances, aiKeys, aiServer,
                aiTalk, aiHistory
  <1>4. KeptPlansUnbegun' /\ PlanRunsOnce'
    BY DEF AIInvariant, KeptPlansUnbegun, PlanRunsOnce, Answered, aiHistory
  <1>5. ConfirmedFirst' /\ AnsweredByPlan'
    BY <1>1 DEF AIInvariant, AIShape, ConfirmedFirst, AnsweredByPlan,
                Answered, Advances, aiHistory, Tasks
  <1> QED
    BY <1>3, <1>4, <1>5 DEF AIInvariant

\* A page confirms a plan that is taken out of the kept ones.
LEMMA ConfirmedStep ==
    ASSUME AIInvariant, NEW p \in Pages, NEW a \in Plans,
           PlanConfirmed(p, a)
    PROVE  AIInvariant'
  <1>1. [AtRest EXCEPT !.at = "confirmed", !.of = a] \in Tasks
    BY IdleTask DEF Tasks, Steps
  <1>2. AIShape'
    BY <1>1 DEF AIInvariant, AIShape, PlanConfirmed, Advances, aiKeys,
                aiServer, aiTalk
  <1>3. KeptPlansUnbegun'
    BY DEF AIInvariant, KeptPlansUnbegun, PlanConfirmed
  <1>4. PlanRunsOnce'
    <2> SUFFICES ASSUME NEW b \in Plans
                 PROVE  begun'[b] <= IF b \in confirmed' THEN 1 ELSE 0
      BY DEF PlanRunsOnce
    <2>1. begun[b] \in Nat /\ begun[b] <= IF b \in confirmed THEN 1 ELSE 0
      BY DEF AIInvariant, AIShape, PlanRunsOnce
    <2> QED
      BY <2>1 DEF PlanConfirmed
  <1>5. ConfirmedFirst' /\ AnsweredByPlan'
    BY DEF AIInvariant, AIShape, ConfirmedFirst, AnsweredByPlan,
           PlanConfirmed, Advances, AtRest
  <1> QED
    BY <1>2, <1>3, <1>4, <1>5 DEF AIInvariant

\* The plan leaves the map before its actions are begun, so that no page can
\* take it a second time.
LEMMA ExecuteStep ==
    ASSUME AIInvariant, AIAssumption, NEW p \in Pages, Execute(p)
    PROVE  AIInvariant'
  <1> DEFINE a == task[p].of
  <1>1. task[p] \in Tasks /\ task[p].at = "confirmed" /\ a \in confirmed
    BY DEF AIInvariant, AIShape, ConfirmedFirst, Execute
  <1>2. /\ plans' = plans \ {a}
        /\ UNCHANGED <<key, held, beats, recent, expired, shown, confirmed>>
    BY DEF Execute, aiKeys, aiServer, aiTalk
  <1>3. CASE a \in plans \ expired
    <2>1. a \in Plans /\ begun[a] = 0 /\ ActionsOf[a] \in Int
      BY <1>3 DEF AIInvariant, AIShape, KeptPlansUnbegun, AIAssumption
    <2>2. begun' = [begun EXCEPT ![a] = @ + 1]
      BY <1>3 DEF Execute, Begins
    <2>3. [task[p] EXCEPT !.at = "acting", !.left = ActionsOf[a]] \in Tasks
      BY <1>1, <2>1 DEF Tasks, Steps
    <2>4. task' = [task EXCEPT ![p] = [task[p] EXCEPT !.at = "acting",
                                               !.left = ActionsOf[a]]]
      BY <1>3 DEF Execute, Begins, Advances
    <2>5. AIShape'
      BY <1>2, <2>1, <2>2, <2>3, <2>4 DEF AIInvariant, AIShape
    <2>6. KeptPlansUnbegun' /\ PlanRunsOnce'
      BY <1>1, <1>2, <2>1, <2>2
         DEF AIInvariant, AIShape, KeptPlansUnbegun, PlanRunsOnce
    <2>7. ConfirmedFirst' /\ AnsweredByPlan'
      BY <1>1, <1>2, <2>4
         DEF AIInvariant, AIShape, ConfirmedFirst, AnsweredByPlan, Tasks
    <2> QED
      BY <2>5, <2>6, <2>7 DEF AIInvariant
  <1>4. CASE a \notin plans \ expired
    <2>1. Advances(p, AtRest) /\ UNCHANGED begun
      BY <1>4 DEF Execute
    <2>2. AIShape'
      BY <1>2, <2>1, IdleTask DEF AIInvariant, AIShape, Advances
    <2>3. KeptPlansUnbegun' /\ PlanRunsOnce'
      BY <1>2, <2>1 DEF AIInvariant, KeptPlansUnbegun, PlanRunsOnce
    <2>4. ConfirmedFirst' /\ AnsweredByPlan'
      BY <1>2, <2>1, IdleTask
         DEF AIInvariant, AIShape, ConfirmedFirst, AnsweredByPlan, Advances
    <2> QED
      BY <2>2, <2>3, <2>4 DEF AIInvariant
  <1> QED
    BY <1>3, <1>4
\* The steps of a page that asks, is answered or works through its actions.
LEMMA PageStep ==
    ASSUME AIInvariant, AIAssumption, NEW p \in Pages,
           \/ Asked(p) \/ Sealed(p) \/ Served(p) \/ Replied(p)
           \/ Failed(p) \/ Act(p) \/ Reported(p)
    PROVE  AIInvariant'
  <1>1. AIShape /\ task[p] \in Tasks
    BY DEF AIInvariant, AIShape
  <1>2. ASSUME NEW j \in Tasks, Advances(p, j)
        PROVE  task' \in [Pages -> Tasks]
    BY <1>1, <1>2 DEF AIShape, Advances
  <1>3. CASE Asked(p)
    <2>1. [AtRest EXCEPT !.at = "asked"] \in Tasks
      BY IdleTask DEF Tasks, Steps
    <2>2. UNCHANGED <<aiKeys, aiServer, plans, expired, aiTalk, aiHistory>>
          /\ Advances(p, [AtRest EXCEPT !.at = "asked"])
      BY <1>3 DEF Asked
    <2>3. AIShape'
      BY <1>1, <1>2, <2>1, <2>2
         DEF AIShape, aiKeys, aiServer, aiTalk, aiHistory
    <2> QED
      BY <2>1, <2>2, <2>3, QuietStep DEF AIInvariant, aiHistory, AtRest
  <1>4. CASE Sealed(p)
    <2>1. ensureClientAIIdentity /\ key' \in Nat /\ 0 .. key \subseteq 0 .. key'
      BY <1>1, <1>4, KeyGrows DEF Sealed
    <2>2. [task[p] EXCEPT !.at = "sent", !.key = key'] \in Tasks
      BY <1>1, <2>1 DEF Tasks, Steps
    <2>3. UNCHANGED <<held, beats, aiServer, plans, expired, aiTalk, aiHistory>>
          /\ Advances(p, [task[p] EXCEPT !.at = "sent", !.key = key'])
      BY <1>4 DEF Sealed
    <2>4. AIShape'
      BY <1>1, <1>2, <2>1, <2>2, <2>3
         DEF AIShape, aiServer, aiTalk, aiHistory
    <2> QED
      BY <1>1, <2>2, <2>3, <2>4, QuietStep DEF AIInvariant, aiHistory, Tasks
  <1>5. CASE Served(p)
    <2>1. [task[p] EXCEPT !.at = "served", !.sealed = held] \in Tasks
      <3>1. held \in Nat
        BY <1>1 DEF AIShape
      <3> QED
        BY <1>1, <3>1 DEF Tasks, Steps
    <2>2. /\ UNCHANGED <<aiKeys, plans, expired, aiTalk, aiHistory>>
          /\ recent < MaxRate /\ recent' = recent + 1
          /\ Advances(p, [task[p] EXCEPT !.at = "served", !.sealed = held])
      BY <1>5 DEF Served
    <2>3. AIShape'
      BY <1>1, <1>2, <2>1, <2>2, AIAssumption
         DEF AIShape, AIAssumption, aiKeys, aiTalk, aiHistory
    <2> QED
      BY <1>1, <2>1, <2>2, <2>3, QuietStep DEF AIInvariant, aiHistory, Tasks
  <1>6. CASE Replied(p)
    <2>1. /\ UNCHANGED <<aiKeys, aiServer, plans, expired, aiHistory>>
          /\ Advances(p, AtRest)
      BY <1>6 DEF Replied
    <2>2. task[p].plan \in Plans /\ shown' \subseteq shown \cup {task[p].plan}
      BY <1>6 DEF AIInvariant, AnsweredByPlan, Replied, Noted
    <2>3. AIShape'
      BY <1>1, <1>2, <2>1, <2>2, IdleTask
         DEF AIShape, aiKeys, aiServer, aiHistory
    <2> QED
      BY <2>1, <2>3, QuietStep, IdleTask DEF AIInvariant, aiHistory
  <1>7. CASE Failed(p)
    <2>1. /\ key' \in Nat /\ 0 .. key \subseteq 0 .. key'
          /\ recent' \in 0 .. MaxRate
      BY <1>1, <1>7, KeyGrows, AIAssumption
         DEF Failed, Refused, AIShape, AIAssumption
    <2>2. UNCHANGED <<held, beats, plans, expired, aiTalk, aiHistory>>
      BY <1>7 DEF Failed
    <2>3. PICK j \in Tasks : /\ Advances(p, j)
                              /\ j.at \notin {"confirmed", "answered"}
      <3>1. [task[p] EXCEPT !.at = "acted"] \in Tasks
        BY <1>1 DEF Tasks, Steps
      <3> QED
        BY <1>1, <1>7, <3>1, IdleTask DEF Failed, Tasks
    <2>4. AIShape'
      BY <1>1, <1>2, <2>1, <2>2, <2>3 DEF AIShape, aiTalk, aiHistory
    <2> QED
      BY <2>2, <2>3, <2>4, QuietStep DEF AIInvariant, aiHistory
  <1>8. CASE Act(p)
    <2>1. UNCHANGED <<aiKeys, aiServer, plans, expired, aiTalk, aiHistory>>
      BY <1>8 DEF Act
    <2>2. PICK j \in Tasks : /\ Advances(p, j)
                              /\ j.at \notin {"confirmed", "answered"}
      <3>1. task[p].left - 1 \in Int /\ 0 \in Int
        BY <1>1 DEF Tasks
      <3>2. [task[p] EXCEPT !.left = @ - 1] \in Tasks
        BY <1>1, <3>1 DEF Tasks
      <3>3. [task[p] EXCEPT !.left = 0] \in Tasks
        BY <1>1, <3>1 DEF Tasks
      <3>4. [task[p] EXCEPT !.left = 0, !.at = "acted"] \in Tasks
        BY <1>1, <3>1, <3>3, Zenon DEF Tasks, Steps
      <3>5. [task[p] EXCEPT !.left = 0, !.at = "asked", !.review = TRUE]
              \in Tasks
        BY <1>1, <3>1, <3>3 DEF Tasks, Steps
      <3>6. /\ task[p].at = "acting"
            /\ \/ Advances(p, [task[p] EXCEPT !.left = @ - 1])
               \/ Advances(p, [task[p] EXCEPT !.left = 0, !.at = "asked",
                                              !.review = TRUE])
               \/ Advances(p, [task[p] EXCEPT !.left = 0, !.at = "acted"])
        BY <1>8 DEF Act
      <3> QED
        BY <1>1, <3>2, <3>4, <3>5, <3>6 DEF Tasks
    <2>3. AIShape'
      BY <1>1, <1>2, <2>1, <2>2 DEF AIShape, aiKeys, aiServer, aiTalk, aiHistory
    <2> QED
      BY <2>1, <2>2, <2>3, QuietStep DEF AIInvariant, aiHistory
  <1>9. CASE Reported(p)
    <2>1. /\ UNCHANGED <<aiKeys, aiServer, plans, expired, aiHistory>>
          /\ Advances(p, AtRest)
      BY <1>9 DEF Reported
    <2>2. shown' \subseteq shown \cup ({task[p].plan} \ {NoPlan})
      BY <1>9 DEF Reported, Noted
    <2>3. AIShape'
      BY <1>1, <1>2, <2>1, <2>2, IdleTask
         DEF AIShape, aiKeys, aiServer, aiHistory, Tasks
    <2> QED
      BY <2>1, <2>3, QuietStep, IdleTask DEF AIInvariant, aiHistory
  <1> QED
    BY <1>3, <1>4, <1>5, <1>6, <1>7, <1>8, <1>9
-----------------------------------------------------------------------------
(* The theorems.                                                           *)

\* No plan exists at the start.
LEMMA AIInvariantInit ==
    ASSUME AIInit, AIAssumption PROVE AIInvariant
  <1>1. AIShape
    BY IdleTask DEF AIInit, AIShape, AIAssumption
  <1>2. KeptPlansUnbegun /\ PlanRunsOnce
    BY DEF AIInit, KeptPlansUnbegun, PlanRunsOnce
  <1>3. ConfirmedFirst /\ AnsweredByPlan
    BY IdleTask DEF AIInit, ConfirmedFirst, AnsweredByPlan
  <1> QED
    BY <1>1, <1>2, <1>3 DEF AIInvariant

\* Every step of the assistant keeps the invariant.
LEMMA AIInvariantKept ==
    ASSUME AIInvariant, AIAssumption, [AINext]_aiVars PROVE AIInvariant'
  <1>1. CASE UNCHANGED aiVars
    BY <1>1, OutsideStep
       DEF AIInvariant, AIShape, aiVars, aiKeys, aiServer, aiTalk, aiHistory
  <1>2. ASSUME NEW k \in beats, BeatHeard(k) PROVE AIInvariant'
    BY <1>2, OutsideStep
       DEF AIInvariant, AIShape, BeatHeard, aiServer, aiTalk, aiHistory
  <1>3. CASE BeatSent
    <2>1. key \in 0 .. key
      BY DEF AIInvariant, AIShape
    <2> QED
      BY <1>3, <2>1, OutsideStep
         DEF AIInvariant, AIShape, BeatSent, aiServer, aiTalk, aiHistory
  <1>4. CASE KeyUnreadable
    BY <1>4, OutsideStep
       DEF AIInvariant, AIShape, KeyUnreadable, aiServer, aiTalk, aiHistory
  <1>5. CASE DeleteAIConversation
    BY <1>5, OutsideStep
       DEF AIInvariant, AIShape, DeleteAIConversation, aiKeys, aiServer,
           aiHistory
  <1>6. CASE MinutePasses \/ ConfigSet \/ AIServerRestarts
    <2>1. recent' \in 0 .. MaxRate
      BY <1>6, AIAssumption
         DEF AIInvariant, AIShape, AIAssumption, MinutePasses, ConfigSet,
             AIServerRestarts
    <2> QED
      BY <1>6, <2>1, OutsideStep
         DEF AIInvariant, AIShape, MinutePasses, ConfigSet,
             AIServerRestarts, aiKeys, aiTalk, aiHistory
  <1>7. CASE AIClientRestarts
    <2>1. /\ plans' = {} /\ task' = [p \in Pages |-> AtRest]
          /\ ensureClientAIIdentity
          /\ UNCHANGED <<held, beats, recent, expired, shown, confirmed, begun>>
      BY <1>7 DEF AIClientRestarts, aiServer, aiTalk, aiHistory
    <2>2. AIShape'
      BY <2>1, KeyGrows, IdleTask DEF AIInvariant, AIShape
    <2>3. /\ KeptPlansUnbegun' /\ ConfirmedFirst' /\ AnsweredByPlan'
          /\ PlanRunsOnce'
      BY <2>1, IdleTask DEF AIInvariant, KeptPlansUnbegun, ConfirmedFirst,
                            AnsweredByPlan, PlanRunsOnce
    <2> QED
      BY <2>2, <2>3 DEF AIInvariant
  <1>8. ASSUME NEW a \in Plans, Expires(a) PROVE AIInvariant'
    BY <1>8, OutsideStep
       DEF AIInvariant, AIShape, Expires, aiKeys, aiServer, aiTalk, aiHistory
  <1> QED
    BY <1>1, <1>2, <1>3, <1>4, <1>5, <1>6, <1>7, <1>8, PageStep,
       ExecuteStep, AnsweredStep, ConfirmedStep DEF AINext, BeatsHeard

\* The actions of a plan are begun at most once, and only after somebody
\* confirmed that plan, for any number of pages that confirm it and whatever
\* restarts, expires or is proposed meanwhile (executeAIPlan).
THEOREM PlanBegunOnce == AISpec => []PlanRunsOnce
  <1>1. AIInit => AIInvariant
    BY AIInvariantInit, AIAssumption
  <1>2. AIInvariant /\ [AINext]_aiVars => AIInvariant'
    BY AIInvariantKept, AIAssumption
  <1>3. AIInvariant => PlanRunsOnce
    BY DEF AIInvariant
  <1> QED
    BY <1>1, <1>2, <1>3, PTL DEF AISpec

\* The keys the server and the heartbeats hold are never newer than the
\* client's own, and the limiter never counts more than it allows.
THEOREM AITypeCorrect == AISpec => []AITypeOK
  <1>1. AIInit => AIInvariant
    BY AIInvariantInit, AIAssumption
  <1>2. AIInvariant /\ [AINext]_aiVars => AIInvariant'
    BY AIInvariantKept, AIAssumption
  <1>3. AIInvariant => AITypeOK
    BY DEF AIInvariant, AIShape, AITypeOK, Tasks
  <1> QED
    BY <1>1, <1>2, <1>3, PTL DEF AISpec

-----------------------------------------------------------------------------
(* Network settings.                                                       *)

\* The two settings a call both saves and has Nebula load.
Loadable == Kinds \cap {"mode", "force"}

Fields == {"mode", "force", "prefs", "net", "auto", "follow", "race", "relay",
           "scenes"}
CallFields == {"step", "kind", "value", "old", "race", "net", "alone"}
IsRecord(s, F) == s = [x \in F |-> s[x]]

SettingsShape ==
    /\ IsRecord(file, Fields)
    /\ IsRecord(call, Calls)
    /\ IsRecord(answered, Kinds)
    /\ \A c \in Calls :
          /\ IsRecord(call[c], CallFields)
          /\ call[c].alone \in BOOLEAN
          /\ AtWork(c) => call[c].kind \in Kinds

\* A call that is alone shares its kind with no other call at work.
AloneIsAlone ==
    \A c, d \in Calls :
        c # d /\ call[c].alone /\ AtWork(c) /\ AtWork(d) =>
            call[d].kind # call[c].kind

\* What such a call has done so far stands.
OwnWorkStands(c) ==
    LET k == call[c].kind
        v == call[c].value
    IN  call[c].alone /\ k \in Loadable =>
          /\ call[c].step \in {"saved", "ready", "waiting"} => file[k] = v
          /\ call[c].step \in {"ready", "waiting"} => conf[k] = v
          /\ call[c].step = "waiting" => loaded[k] = v

\* While an answer stands, nobody works at its setting, and the file, the
\* config and the service agree on it.
AnswerStands(k) ==
    answered[k] # Unset =>
        /\ \A c \in Calls : AtWork(c) => call[c].kind # k
        /\ file[k] = answered[k] /\ conf[k] = answered[k]
        /\ loaded[k] = answered[k]

\* While an old copy of the state is about, nothing counts as answered and no
\* call as alone.
CopyFields == {"nth", "step", "state", "conf"}
CopyExcludes ==
    /\ IsRecord(copy, CopyFields)
    /\ copy.step # "none" =>
          /\ IsRecord(copy.state, Fields)
          /\ \A c \in Calls : ~call[c].alone
          /\ \A k \in Kinds : answered[k] = Unset

SettingsInvariant ==
    /\ SettingsShape
    /\ CopyExcludes
    /\ AloneIsAlone
    /\ \A c \in Calls : OwnWorkStands(c)
    /\ \A k \in Loadable : AnswerStands(k)

-----------------------------------------------------------------------------
(* What is done to a state.                                                *)

\* Writing the config keeps the two settings a call can answer for.
LEMMA RenderKeeps ==
    ASSUME NEW s, NEW k \in {"mode", "force"}
    PROVE  Render(s)[k] = s[k]
  BY DEF Render

\* One setting is set; of the two others Nebula knows, none changes.
LEMMA WithSets ==
    ASSUME NEW s, IsRecord(s, Fields), NEW k \in Kinds, NEW v
    PROVE  /\ IsRecord(With(s, k, v), Fields)
           /\ k \in Loadable => With(s, k, v)[k] = v
           /\ \A j \in {"mode", "force"} : j # k => With(s, k, v)[j] = s[j]
  <1>1. k \in {"mode", "force", "prefs"}
    BY SettingsAssumption DEF SettingsAssumption
  <1>2. CASE k = "mode" /\ v # "dual"
    BY <1>2 DEF With, IsRecord, Fields
  <1>3. CASE k = "prefs" /\ s.net # Unset
    BY <1>3 DEF With, IsRecord, Fields, Loadable
  <1>4. CASE ~(k = "mode" /\ v # "dual") /\ ~(k = "prefs" /\ s.net # Unset)
    <2>1. With(s, k, v) = [s EXCEPT ![k] = v]
      BY <1>4 DEF With
    <2> QED
      BY <1>1, <2>1 DEF IsRecord, Fields
  <1> QED
    BY <1>2, <1>3, <1>4

\* A race, a network, a relay or the switches leave both alone.
SameForNebula(s, t) ==
    /\ IsRecord(t, Fields)
    /\ \A k \in {"mode", "force"} : t[k] = s[k]

\* A race request leaves what Nebula is given.
LEMMA RaceKeeps ==
    ASSUME NEW s, IsRecord(s, Fields)
    PROVE  SameForNebula(s, Race(s))
  BY DEF SameForNebula, Race, IsRecord, Fields

\* Entering a network leaves what Nebula is given.
LEMMA EnteredKeeps ==
    ASSUME NEW s, IsRecord(s, Fields), NEW n
    PROVE  SameForNebula(s, Entered(s, n))
  <1> DEFINE known == s.scenes[n] # Unset
             t == [s EXCEPT !.net = n,
                       !.scenes[n] = IF known THEN @ ELSE s.prefs,
                       !.prefs = IF known /\ s.follow THEN s.scenes[n] ELSE @]
  <1>1. SameForNebula(s, t)
    BY DEF SameForNebula, IsRecord, Fields
  <1> HIDE DEF t
  <1>2. SameForNebula(s, Race(t))
    BY <1>1, RaceKeeps DEF SameForNebula
  <1>3. Entered(s, n) = IF s.auto /\ s.mode = "dual" THEN Race(t) ELSE t
    <2>1. t.auto = s.auto /\ t.mode = s.mode
      BY DEF t, IsRecord, Fields
    <2> QED
      BY <2>1 DEF Entered, t
  <1> QED
    BY <1>1, <1>2, <1>3

-----------------------------------------------------------------------------
(* Steps that leave the calls and the two settings alone.                  *)

\* The config may be rendered and the service may load it.
LEMMA SettingsFrame ==
    ASSUME SettingsInvariant, SameForNebula(file, file'),
           UNCHANGED <<call, answered, copy>>,
           \A k \in {"mode", "force"} :
              conf'[k] \in {conf[k], file[k]}
              /\ loaded'[k] \in {loaded[k], conf[k]}
    PROVE  SettingsInvariant'
  <1>1. SettingsShape' /\ AloneIsAlone' /\ CopyExcludes'
    BY DEF SettingsInvariant, SettingsShape, SameForNebula, AloneIsAlone,
           AtWork, CopyExcludes
  <1>2. \A k \in Loadable : file'[k] = file[k]
    BY DEF SameForNebula, Loadable
  <1>3. ASSUME NEW c \in Calls PROVE OwnWorkStands(c)'
    BY <1>2 DEF SettingsInvariant, OwnWorkStands, Loadable
  <1>4. ASSUME NEW k \in Loadable PROVE AnswerStands(k)'
    BY <1>2 DEF SettingsInvariant, AnswerStands, Loadable, AtWork
  <1> QED
    BY <1>1, <1>3, <1>4 DEF SettingsInvariant

\* Whoever writes a state that gives Nebula the same is harmless.
LEMMA WriteSound ==
    ASSUME SettingsInvariant, NEW s, SameForNebula(file, s), NEW out,
           WritesBoth(s, out), UNCHANGED <<loaded, call, answered, copy>>
    PROVE  SettingsInvariant'
  <1>1. file' \in {file, s} /\ SameForNebula(file, file)
    BY DEF WritesBoth, SettingsInvariant, SettingsShape, SameForNebula
  <1>2. \A k \in {"mode", "force"} : conf'[k] \in {conf[k], file[k]}
    <2>1. conf' = conf \/ conf' = Render(s)
      BY DEF WritesBoth
    <2> QED
      BY <2>1, RenderKeeps DEF SameForNebula
  <1>3. SameForNebula(file, file')
    BY <1>1
  <1> QED
    BY <1>2, <1>3, SettingsFrame

\* Scenes, the race, the automation and the relay choice.
LEMMA AutomationSound ==
    ASSUME SettingsInvariant,
           \/ SceneSeen
           \/ \E out \in Outcomes :
                 \/ SceneEntered(out) \/ RaceRequested(out)
                 \/ \E on, scenes \in BOOLEAN : AutomationSet(on, scenes, out)
                 \/ \E r \in Relays : RelayChosen(r, out)
           \/ \E n \in Networks : SceneDeleted(n) \/ Moves(n)
           \/ RaceApplied \/ ServiceReloads
    PROVE  SettingsInvariant'
  <1>0. IsRecord(file, Fields) /\ SameForNebula(file, file)
    BY DEF SettingsInvariant, SettingsShape, SameForNebula
  <1>1. ASSUME UNCHANGED <<file, conf, call, answered, copy>>,
               loaded' = loaded \/ loaded' = conf
        PROVE  SettingsInvariant'
    BY <1>0, <1>1, SettingsFrame
  <1>2. CASE SceneSeen \/ RaceApplied \/ ServiceReloads
             \/ \E n \in Networks : Moves(n)
    BY <1>1, <1>2 DEF SceneSeen, RaceApplied, ServiceReloads, Moves
  <1>3. ASSUME NEW out \in Outcomes, SceneEntered(out)
        PROVE  SettingsInvariant'
    <2>1. UNCHANGED <<loaded, call, answered, copy>>
      BY <1>3 DEF SceneEntered
    <2>2. CASE seen = file.net
      BY <1>1, <1>3, <2>2 DEF SceneEntered
    <2>3. CASE seen # file.net
      <3>1. WritesBoth(Entered(file, seen), out)
        BY <1>3, <2>3 DEF SceneEntered
      <3>2. SameForNebula(file, Entered(file, seen))
        BY <1>0, EnteredKeeps
      <3> QED
        BY <2>1, <3>1, <3>2, WriteSound
    <2> QED
      BY <2>2, <2>3
  <1>4. ASSUME NEW out \in Outcomes, RaceRequested(out)
        PROVE  SettingsInvariant'
    BY <1>0, <1>4, RaceKeeps, WriteSound DEF RaceRequested
  <1>5. ASSUME NEW out \in Outcomes, NEW on \in BOOLEAN, NEW scenes \in BOOLEAN,
               AutomationSet(on, scenes, out)
        PROVE  SettingsInvariant'
    <2> DEFINE s == [file EXCEPT !.auto = on, !.follow = scenes]
    <2>1. UNCHANGED <<loaded, call, answered, copy>>
      BY <1>5 DEF AutomationSet
    <2>2. SameForNebula(file, s)
      BY <1>0 DEF SameForNebula, IsRecord, Fields
    <2>3. SameForNebula(file, Race(s))
      BY <2>2, RaceKeeps DEF SameForNebula
    <2>4. CASE on /\ ~file.auto
      <3>1. WritesBoth(Race(s), out)
        BY <1>5, <2>4 DEF AutomationSet
      <3> QED
        BY <2>1, <2>3, <3>1, WriteSound
    <2>5. CASE ~(on /\ ~file.auto)
      <3>1. file' = s /\ UNCHANGED conf
        BY <1>5, <2>5 DEF AutomationSet
      <3> QED
        BY <2>1, <2>2, <3>1, SettingsFrame
    <2> QED
      BY <2>4, <2>5
  <1>6. ASSUME NEW out \in Outcomes, NEW r \in Relays, RelayChosen(r, out)
        PROVE  SettingsInvariant'
    <2> DEFINE s == [file EXCEPT !.relay = r]
    <2>1. SameForNebula(file, s)
      BY <1>0 DEF SameForNebula, IsRecord, Fields
    <2>2. SameForNebula(file, Race(s))
      BY <2>1, RaceKeeps DEF SameForNebula
    <2>3. /\ WritesBoth(s, out) \/ WritesBoth(Race(s), out)
          /\ UNCHANGED <<loaded, call, answered, copy>>
      BY <1>6 DEF RelayChosen
    <2> QED
      BY <2>1, <2>2, <2>3, WriteSound
  <1>7. ASSUME NEW n \in Networks, SceneDeleted(n)
        PROVE  SettingsInvariant'
    <2>1. SameForNebula(file, file')
      BY <1>0, <1>7 DEF SceneDeleted, SameForNebula, IsRecord, Fields
    <2> QED
      BY <1>7, <2>1, SettingsFrame DEF SceneDeleted
  <1> QED
    BY <1>2, <1>3, <1>4, <1>5, <1>6, <1>7

-----------------------------------------------------------------------------
(* Steps of a call.                                                        *)

\* Call c goes on to step next; its kind, value and being alone stay.
GoesOn(c, next) ==
    /\ IsRecord(call', Calls)
    /\ \A d \in Calls \ {c} : call'[d] = call[d]
    /\ IsRecord(call'[c], CallFields)
    /\ call'[c].step = next /\ call'[c].kind = call[c].kind
    /\ call'[c].value = call[c].value /\ call'[c].alone = call[c].alone

\* Every way in which the record of a call moves to its next step.
LEMMA AtGoesOn ==
    ASSUME SettingsInvariant, NEW c \in Calls, NEW next,
           \/ call' = At(c, next)
           \/ \E race : call' = [call EXCEPT ![c].step = next,
                                             ![c].race = race]
           \/ \E net : call' = [call EXCEPT ![c].step = next, ![c].net = net]
    PROVE  GoesOn(c, next)
  <1>1. IsRecord(call, Calls) /\ IsRecord(call[c], CallFields)
    BY DEF SettingsInvariant, SettingsShape
  <1>2. CASE call' = At(c, next)
    BY <1>1, <1>2 DEF At, GoesOn, IsRecord, CallFields
  <1>3. CASE \E race : call' = [call EXCEPT ![c].step = next, ![c].race = race]
    <2>1. PICK v : call' = [call EXCEPT ![c].step = next, ![c].race = v]
      BY <1>3
    <2>2. call'[c] = [call[c] EXCEPT !.step = next, !.race = v]
      BY <1>1, <2>1 DEF IsRecord
    <2>3. /\ IsRecord(call', Calls)
          /\ \A d \in Calls \ {c} : call'[d] = call[d]
      BY <1>1, <2>1 DEF IsRecord
    <2> QED
      BY <1>1, <2>2, <2>3 DEF GoesOn, IsRecord, CallFields
  <1>4. CASE \E net : call' = [call EXCEPT ![c].step = next, ![c].net = net]
    <2>1. PICK v : call' = [call EXCEPT ![c].step = next, ![c].net = v]
      BY <1>4
    <2>2. call'[c] = [call[c] EXCEPT !.step = next, !.net = v]
      BY <1>1, <2>1 DEF IsRecord
    <2>3. /\ IsRecord(call', Calls)
          /\ \A d \in Calls \ {c} : call'[d] = call[d]
      BY <1>1, <2>1 DEF IsRecord
    <2> QED
      BY <1>1, <2>2, <2>3 DEF GoesOn, IsRecord, CallFields
  <1> QED
    BY <1>2, <1>3, <1>4

\* A call at work goes on, or is done: who is alone stays alone, and the work
\* of the others stands if their settings do.
LEMMA GoingOnSound ==
    ASSUME SettingsInvariant, NEW c \in Calls, NEW next, AtWork(c),
           GoesOn(c, next), UNCHANGED <<answered, copy>>, IsRecord(file', Fields),
           \A k \in Loadable : k # call[c].kind => file'[k] = file[k],
           \A k \in Loadable : conf'[k] = conf[k] \/ conf'[k] = file'[k],
           \A k \in Loadable : loaded'[k] = loaded[k] \/ loaded'[k] = conf'[k],
           OwnWorkStands(c)'
    PROVE  SettingsInvariant'
  <1>1. \A d \in Calls : /\ AtWork(d)' => AtWork(d)
                         /\ call'[d].kind = call[d].kind
                         /\ call'[d].alone = call[d].alone
    BY DEF GoesOn, AtWork
  <1>2. SettingsShape' /\ CopyExcludes'
    BY <1>1 DEF SettingsInvariant, SettingsShape, GoesOn, CopyExcludes
  <1>3. AloneIsAlone'
    BY <1>1 DEF SettingsInvariant, AloneIsAlone
  <1>4. ASSUME NEW d \in Calls PROVE OwnWorkStands(d)'
    <2>1. CASE d # c
      <3>1. call'[d] = call[d]
        BY <2>1 DEF GoesOn
      <3>2. CASE /\ call[d].alone /\ call[d].kind \in Loadable
                 /\ call[d].step \in {"saved", "ready", "waiting"}
        <4>1. AtWork(d)
          BY <3>2 DEF AtWork
        <4>2. call[d].kind # call[c].kind
          BY <2>1, <3>2, <4>1 DEF SettingsInvariant, AloneIsAlone
        <4> QED
          BY <3>1, <3>2, <4>2 DEF SettingsInvariant, OwnWorkStands
      <3> QED
        BY <3>1, <3>2 DEF OwnWorkStands
    <2> QED
      BY <2>1
  <1>5. ASSUME NEW k \in Loadable PROVE AnswerStands(k)'
    BY <1>1 DEF SettingsInvariant, AnswerStands
  <1> QED
    BY <1>2, <1>3, <1>4, <1>5 DEF SettingsInvariant

\* The handler saves its value, or the old one.
LEMMA SavesSound ==
    ASSUME SettingsInvariant, NEW c \in Calls, NEW ok \in BOOLEAN,
           CallSaves(c, ok) \/ CallReverts(c, ok)
    PROVE  SettingsInvariant'
  <1>1. PICK k \in Kinds : k = call[c].kind
    BY DEF SettingsInvariant, SettingsShape, AtWork, CallSaves, CallReverts
  <1>2. UNCHANGED <<conf, loaded, answered, copy>> /\ AtWork(c)
    BY DEF CallSaves, CallReverts, AtWork
  <1>3. PICK v, next :
            /\ file' = IF ok THEN With(file, k, v) ELSE file
            /\ GoesOn(c, next)
            /\ next \in {"saved", "done", "reverted"}
            /\ next = "saved" => ok /\ v = call[c].value
    <2>1. CASE CallSaves(c, ok)
      BY <1>1, <2>1, AtGoesOn DEF CallSaves
    <2>2. CASE CallReverts(c, ok)
      <3>1. PICK next \in {"reverted", "done"} : call' = At(c, next)
        BY <2>2 DEF CallReverts
      <3>2. GoesOn(c, next)
        BY <3>1, AtGoesOn
      <3>3. file' = IF ok THEN With(file, k, call[c].old) ELSE file
        BY <1>1, <2>2 DEF CallReverts
      <3> QED
        BY <3>2, <3>3
    <2> QED
      BY <2>1, <2>2
  <1>4. /\ IsRecord(file', Fields)
        /\ \A j \in Loadable : j # k => file'[j] = file[j]
        /\ ok /\ k \in Loadable => file'[k] = v
    <2>1. IsRecord(file, Fields)
      BY DEF SettingsInvariant, SettingsShape
    <2> QED
      BY <1>3, <2>1, WithSets DEF Loadable
  <1>5. OwnWorkStands(c)'
    BY <1>1, <1>3, <1>4 DEF OwnWorkStands, GoesOn
  <1> QED
    BY <1>1, <1>2, <1>3, <1>4, <1>5, GoingOnSound

\* The config is rendered again.
LEMMA EnsuresSound ==
    ASSUME SettingsInvariant, NEW c \in Calls, NEW ok \in BOOLEAN,
           ConfigEnsured(c, ok) \/ RevertEnsured(c, ok)
    PROVE  SettingsInvariant'
  <1>1. UNCHANGED <<file, loaded, answered, copy>> /\ AtWork(c)
        /\ conf' = IF ok THEN Render(file) ELSE conf
    BY DEF ConfigEnsured, RevertEnsured, AtWork
  <1>2. PICK next :
            /\ GoesOn(c, next)
            /\ next \in {"ready", "failed", "done"}
            /\ next = "ready" => ok /\ call[c].step = "saved"
    <2>1. CASE ConfigEnsured(c, ok)
      <3>1. PICK next \in {"ready", "failed", "done"} :
                /\ call' = [call EXCEPT ![c].step = next, ![c].race = Confirmed]
                /\ next = "ready" => ok
        BY <2>1 DEF ConfigEnsured
      <3>2. GoesOn(c, next)
        BY <3>1, AtGoesOn
      <3>3. call[c].step = "saved"
        BY <2>1 DEF ConfigEnsured
      <3>4. next = "ready" => ok
        BY <2>1, <3>1, <3>3 DEF ConfigEnsured
      <3> QED
        BY <3>1, <3>2, <3>3, <3>4
    <2>2. CASE RevertEnsured(c, ok)
      <3>1. GoesOn(c, "done")
        BY <2>2, AtGoesOn DEF RevertEnsured
      <3> QED
        BY <3>1
    <2> QED
      BY <2>1, <2>2
  <1>3. \A k \in Loadable : /\ conf'[k] = conf[k] \/ conf'[k] = file'[k]
                            /\ ok => conf'[k] = file'[k]
    <2>1. \A k \in Loadable : Render(file)[k] = file[k]
      BY RenderKeeps DEF Loadable
    <2>2. CASE ok
      <3>1. conf' = Render(file) /\ file' = file
        BY <1>1, <2>2
      <3> QED
        BY <2>1, <3>1
    <2>3. CASE ~ok
      BY <1>1, <2>3
    <2> QED
      BY <2>2, <2>3
  <1>4. OwnWorkStands(c)'
    <2>1. CASE next = "ready"
      <3>1. OwnWorkStands(c) /\ call[c].step = "saved" /\ ok
        BY <1>2, <2>1 DEF SettingsInvariant
      <3> QED
        BY <1>1, <1>2, <1>3, <2>1, <3>1 DEF OwnWorkStands, GoesOn
    <2>2. CASE next # "ready"
      BY <1>2, <2>2 DEF OwnWorkStands, GoesOn
    <2> QED
      BY <2>1, <2>2
  <1>5. IsRecord(file', Fields)
    BY <1>1 DEF SettingsInvariant, SettingsShape
  <1> QED
    BY <1>1, <1>2, <1>3, <1>4, <1>5, GoingOnSound

\* A call restarts the service, or gives up.
LEMMA RestartsSound ==
    ASSUME SettingsInvariant, NEW c \in Calls, NEW out,
           CallRestarts(c, out) \/ CallGivesUp(c)
    PROVE  SettingsInvariant'
  <1>1. UNCHANGED <<file, conf, answered, copy>> /\ AtWork(c)
        /\ loaded' \in {loaded, conf}
    BY DEF CallRestarts, CallGivesUp, AtWork
  <1>2. PICK next :
            /\ GoesOn(c, next)
            /\ next \in {"waiting", "failed"}
            /\ next = "waiting" => loaded' = conf /\ call[c].step = "ready"
    <2>1. CASE CallRestarts(c, out)
      <3>1. PICK next \in {"waiting", "failed"} :
                /\ call' = At(c, next)
                /\ next = "waiting" => out = "ok"
        BY <2>1 DEF CallRestarts
      <3>2. GoesOn(c, next)
        BY <3>1, AtGoesOn
      <3>3. call[c].step = "ready"
        BY <2>1 DEF CallRestarts
      <3>4. next = "waiting" => loaded' = conf
        BY <2>1, <3>1, <3>3 DEF CallRestarts
      <3> QED
        BY <3>1, <3>2, <3>3, <3>4
    <2>2. CASE CallGivesUp(c)
      <3>1. GoesOn(c, "failed")
        BY <2>2, AtGoesOn DEF CallGivesUp
      <3> QED
        BY <3>1
    <2> QED
      BY <2>1, <2>2
  <1>3. OwnWorkStands(c)'
    BY <1>1, <1>2 DEF SettingsInvariant, OwnWorkStands, GoesOn
  <1>4. IsRecord(file', Fields)
    BY <1>1 DEF SettingsInvariant, SettingsShape
  <1> QED
    BY <1>1, <1>2, <1>3, <1>4, GoingOnSound

\* A call that was alone is answered with what it did; one that was not leaves
\* the answers alone.
LEMMA AnswersSound ==
    ASSUME SettingsInvariant, NEW c \in Calls, CallAnswers(c)
    PROVE  SettingsInvariant'
  <1>1. /\ UNCHANGED <<file, conf, loaded, copy>> /\ AtWork(c)
        /\ call[c].step = "waiting" /\ GoesOn(c, "done")
        /\ answered' = IF call[c].alone
                       THEN [answered EXCEPT ![call[c].kind] = call[c].value]
                       ELSE answered
    BY AtGoesOn DEF CallAnswers, AtWork
  <1>2. OwnWorkStands(c)' /\ ~AtWork(c)'
    BY <1>1 DEF OwnWorkStands, GoesOn, AtWork
  <1>3. IsRecord(file', Fields)
    BY <1>1 DEF SettingsInvariant, SettingsShape
  <1>4. CASE ~call[c].alone
    BY <1>1, <1>2, <1>3, <1>4, GoingOnSound
  <1>5. CASE call[c].alone
    <2>1. PICK k \in Kinds : k = call[c].kind
      BY <1>1 DEF SettingsInvariant, SettingsShape
    <2>2. /\ IsRecord(answered', Kinds) /\ answered'[k] = call[c].value
          /\ \A j \in Kinds : j # k => answered'[j] = answered[j]
      <3>1. IsRecord(answered, Kinds)
        BY DEF SettingsInvariant, SettingsShape
      <3>2. answered' = [answered EXCEPT ![k] = call[c].value]
        BY <1>1, <1>5, <2>1
      <3> QED
        BY <3>1, <3>2 DEF IsRecord
    <2>3. \A d \in Calls : /\ AtWork(d)' => AtWork(d) /\ d # c
                           /\ call'[d].kind = call[d].kind
                           /\ call'[d].alone = call[d].alone
      BY <1>1, <1>2 DEF GoesOn, AtWork
    <2>0. CopyExcludes'
      BY <1>1, <1>5 DEF SettingsInvariant, CopyExcludes
    <2>4. SettingsShape' /\ AloneIsAlone'
      BY <1>1, <2>2, <2>3
      DEF SettingsInvariant, SettingsShape, AloneIsAlone, GoesOn
    <2>5. ASSUME NEW d \in Calls PROVE OwnWorkStands(d)'
      BY <1>1, <1>2 DEF SettingsInvariant, OwnWorkStands, GoesOn
    <2>6. ASSUME NEW j \in Loadable PROVE AnswerStands(j)'
      <3>1. CASE j = k
        <4>1. \A d \in Calls : AtWork(d)' => call'[d].kind # k
          BY <1>1, <1>5, <2>1, <2>3 DEF SettingsInvariant, AloneIsAlone
        <4>2. /\ file[k] = call[c].value /\ conf[k] = call[c].value
              /\ loaded[k] = call[c].value
          BY <1>1, <1>5, <2>1, <3>1 DEF SettingsInvariant, OwnWorkStands
        <4> QED
          BY <1>1, <2>2, <3>1, <4>1, <4>2 DEF AnswerStands
      <3>2. CASE j # k
        BY <1>1, <2>2, <2>3, <3>2
        DEF SettingsInvariant, AnswerStands, Loadable
      <3> QED
        BY <3>1, <3>2
    <2> QED
      BY <2>0, <2>4, <2>5, <2>6 DEF SettingsInvariant
  <1> QED
    BY <1>4, <1>5

\* A new call: others of its kind are no longer alone, and the answer is void.
LEMMA BeginsSound ==
    ASSUME SettingsInvariant, NEW c \in Calls, NEW k \in Kinds, NEW v,
           CallBegins(c, k, v)
    PROVE  SettingsInvariant'
  <1>1. /\ UNCHANGED <<file, conf, loaded, copy>> /\ ~AtWork(c)
        /\ call[c].step = "idle"
        /\ answered' = [answered EXCEPT ![k] = Unset]
    BY DEF CallBegins, AtWork
  <1>2. /\ IsRecord(answered', Kinds) /\ answered'[k] = Unset
        /\ \A j \in Kinds : j # k => answered'[j] = answered[j]
    BY <1>1 DEF SettingsInvariant, SettingsShape, IsRecord
  <1>3. ASSUME NEW d \in Calls, d # c
        PROVE  /\ IsRecord(call'[d], CallFields)
               /\ call'[d].step = call[d].step /\ call'[d].kind = call[d].kind
               /\ call'[d].value = call[d].value
               /\ call'[d].alone = (call[d].alone /\ call[d].kind # k)
    <2>1. call'[d] = [call[d] EXCEPT !.alone = @ /\ call[d].kind # k]
      BY <1>3 DEF CallBegins
    <2>2. IsRecord(call[d], CallFields) /\ call[d].alone \in BOOLEAN
      BY DEF SettingsInvariant, SettingsShape
    <2> QED
      BY <2>1, <2>2 DEF IsRecord, CallFields
  <1>4. /\ IsRecord(call'[c], CallFields)
        /\ call'[c].step = "asked" /\ call'[c].kind = k
        /\ call'[c].alone = (copy.step = "none" /\
                              \A e \in Calls \ {c} :
                                  AtWork(e) => call[e].kind # k)
    <2>1. call'[c] = [NotCalled EXCEPT
                          !.step = "asked", !.kind = k, !.value = v,
                          !.old = file[k],
                          !.alone = copy.step = "none" /\
                              \A e \in Calls \ {c} :
                                  AtWork(e) => call[e].kind # k]
      BY DEF CallBegins
    <2> QED
      BY <2>1 DEF NotCalled, IsRecord, CallFields
  <1>5. IsRecord(call', Calls)
    BY DEF CallBegins, IsRecord
  <1>6. \A d \in Calls : d # c => (AtWork(d)' <=> AtWork(d))
    BY <1>3 DEF AtWork
  <1>7. SettingsShape'
    <2>1. \A d \in Calls : IsRecord(call'[d], CallFields)
      BY <1>3, <1>4
    <2>2. \A d \in Calls : call'[d].alone \in BOOLEAN
      BY <1>3, <1>4
    <2>3. \A d \in Calls : AtWork(d)' => call'[d].kind \in Kinds
      BY <1>3, <1>4, <1>6 DEF SettingsInvariant, SettingsShape
    <2> QED
      BY <1>1, <1>2, <1>5, <2>1, <2>2, <2>3
      DEF SettingsInvariant, SettingsShape
  <1>8. AloneIsAlone'
    <2>1. ASSUME NEW d \in Calls, NEW e \in Calls, d # e, call'[d].alone,
                 AtWork(d)', AtWork(e)'
          PROVE  call'[e].kind # call'[d].kind
      <3>1. CASE d = c
        BY <1>3, <1>4, <1>6, <2>1, <3>1
      <3>2. CASE e = c
        BY <1>3, <1>4, <2>1, <3>2
      <3>3. CASE d # c /\ e # c
        <4>1. /\ call[d].alone /\ AtWork(d) /\ AtWork(e)
              /\ call'[e].kind = call[e].kind /\ call'[d].kind = call[d].kind
          BY <1>3, <1>6, <2>1, <3>3
        <4> QED
          BY <2>1, <4>1 DEF SettingsInvariant, AloneIsAlone
      <3> QED
        BY <3>1, <3>2, <3>3
    <2> QED
      BY <2>1 DEF AloneIsAlone
  <1>9. ASSUME NEW d \in Calls PROVE OwnWorkStands(d)'
    <2>1. CASE d = c
      BY <1>4, <2>1 DEF OwnWorkStands
    <2>2. CASE d # c
      <3>1. OwnWorkStands(d) /\ (call'[d].alone => call[d].alone)
        BY <1>3, <2>2 DEF SettingsInvariant
      <3> QED
        BY <1>1, <1>3, <2>2, <3>1 DEF OwnWorkStands
    <2> QED
      BY <2>1, <2>2
  <1>10. ASSUME NEW j \in Loadable PROVE AnswerStands(j)'
    <2>1. CASE j = k
      BY <1>2, <2>1 DEF AnswerStands
    <2>2. CASE j # k
      <3>1. answered'[j] = answered[j] /\ AnswerStands(j)
        BY <1>2, <2>2 DEF Loadable, SettingsInvariant
      <3>2. (\A d \in Calls : AtWork(d) => call[d].kind # j)
              => \A d \in Calls : AtWork(d)' => call'[d].kind # j
        BY <1>3, <1>4, <1>6, <2>2
      <3> QED
        BY <1>1, <3>1, <3>2 DEF AnswerStands
    <2> QED
      BY <2>1, <2>2
  <1>11. CopyExcludes'
    BY <1>1, <1>2, <1>3, <1>4 DEF SettingsInvariant, CopyExcludes
  <1> QED
    BY <1>7, <1>8, <1>9, <1>10, <1>11 DEF SettingsInvariant

\* The client ends: no call goes on.
LEMMA RestartSound ==
    ASSUME SettingsInvariant, ClientRestarts
    PROVE  SettingsInvariant'
  <1>1. /\ UNCHANGED <<file, loaded, answered>> /\ conf' = Render(file)
        /\ IsRecord(call', Calls)
    BY DEF ClientRestarts, IsRecord
  <1>2. \A c \in Calls : /\ IsRecord(call'[c], CallFields)
                         /\ call'[c].alone \in BOOLEAN
                         /\ call'[c].step \in {"idle", "done"}
    <2>1. ASSUME NEW c \in Calls
          PROVE  /\ IsRecord(call'[c], CallFields)
                 /\ call'[c].alone \in BOOLEAN
                 /\ call'[c].step \in {"idle", "done"}
      <3>1. IsRecord(call[c], CallFields) /\ call[c].alone \in BOOLEAN
        BY DEF SettingsInvariant, SettingsShape
      <3>2. CASE call'[c] = NotCalled
        BY <3>2 DEF NotCalled, IsRecord, CallFields
      <3>3. CASE call'[c] = [call[c] EXCEPT !.step = "done"]
        BY <3>1, <3>3 DEF IsRecord, CallFields
      <3> QED
        BY <3>2, <3>3 DEF ClientRestarts
    <2> QED
      BY <2>1
  <1>3. \A c \in Calls : ~AtWork(c)'
    BY <1>2 DEF AtWork
  <1>4. SettingsShape' /\ AloneIsAlone' /\ CopyExcludes'
    <2>1. IsRecord(copy', CopyFields) /\ copy'.step = "none"
      BY DEF ClientRestarts, NoCopy, IsRecord, CopyFields
    <2> QED
      BY <1>1, <1>2, <1>3, <2>1
      DEF SettingsInvariant, SettingsShape, AloneIsAlone, CopyExcludes
  <1>5. \A c \in Calls : OwnWorkStands(c)'
    BY <1>2 DEF OwnWorkStands
  <1>6. \A k \in Loadable : AnswerStands(k)'
    BY <1>1, <1>3, RenderKeeps DEF SettingsInvariant, AnswerStands, Loadable
  <1> QED
    BY <1>4, <1>5, <1>6 DEF SettingsInvariant

\* A repair or a pairing may write what it likes: no answer stands meanwhile.
LEMMA CopySound ==
    ASSUME SettingsInvariant, CopyNext
    PROVE  SettingsInvariant'
  <1>1. /\ IsRecord(file, Fields) /\ IsRecord(call, Calls)
        /\ IsRecord(copy, CopyFields)
    BY DEF SettingsInvariant, SettingsShape, CopyExcludes
  <1>2. /\ IsRecord(file', Fields)
        /\ IsRecord(copy', CopyFields)
        /\ copy'.step # "none" => IsRecord(copy'.state, Fields)
    <2>1. CASE CopyTaken
      BY <1>1, <2>1 DEF CopyTaken, IsRecord, CopyFields
    <2>2. CASE CopyConfigWritten
      BY <1>1, <2>2
      DEF CopyConfigWritten, SettingsInvariant, CopyExcludes, IsRecord, CopyFields
    <2>3. CASE CopySaved
      BY <1>1, <2>3
      DEF CopySaved, SettingsInvariant, CopyExcludes, IsRecord, CopyFields
    <2>4. CASE CopyFails \/ CopyEnds
      <3>1. copy' = NoCopy(copy.nth) /\ copy.step # "none"
        BY <2>4 DEF CopyFails, CopyEnds
      <3>2. IsRecord(file', Fields)
        BY <1>1, <2>4, <3>1
        DEF CopyFails, CopyEnds, SettingsInvariant, CopyExcludes
      <3> QED
        BY <3>1, <3>2 DEF NoCopy, IsRecord, CopyFields
    <2> QED
      BY <2>1, <2>2, <2>3, <2>4 DEF CopyNext
  <1>3. /\ IsRecord(call', Calls) /\ IsRecord(answered', Kinds)
        /\ \A k \in Kinds : answered'[k] = Unset
        /\ \A c \in Calls : /\ IsRecord(call'[c], CallFields)
                           /\ call'[c].alone = FALSE
                           /\ call'[c].step = call[c].step
                           /\ call'[c].kind = call[c].kind
    <2>1. CASE CopyTaken
      <3>1. /\ call' = [c \in Calls |-> [call[c] EXCEPT !.alone = FALSE]]
            /\ answered' = [k \in Kinds |-> Unset]
        BY <2>1 DEF CopyTaken
      <3>2. \A c \in Calls : call'[c] = [call[c] EXCEPT !.alone = FALSE]
        BY <3>1
      <3>3. \A c \in Calls : IsRecord(call[c], CallFields)
        BY DEF SettingsInvariant, SettingsShape
      <3>4. ASSUME NEW c \in Calls
            PROVE  /\ IsRecord(call'[c], CallFields)
                   /\ call'[c].alone = FALSE
                   /\ call'[c].step = call[c].step
                   /\ call'[c].kind = call[c].kind
        BY <3>2, <3>3 DEF IsRecord, CallFields
      <3> QED
        BY <3>1, <3>4 DEF IsRecord
    <2>2. CASE CopyConfigWritten \/ CopySaved \/ CopyFails \/ CopyEnds
      <3>1. UNCHANGED <<call, answered>> /\ copy.step # "none"
        BY <2>2 DEF CopyConfigWritten, CopySaved, CopyFails, CopyEnds
      <3> QED
        BY <3>1 DEF SettingsInvariant, SettingsShape, CopyExcludes
    <2> QED
      BY <2>1, <2>2 DEF CopyNext
  <1>4. SettingsShape' /\ CopyExcludes' /\ AloneIsAlone'
    BY <1>2, <1>3
    DEF SettingsInvariant, SettingsShape, CopyExcludes, AloneIsAlone, AtWork
  <1>5. \A c \in Calls : OwnWorkStands(c)'
    BY <1>3 DEF OwnWorkStands
  <1>6. \A k \in Loadable : AnswerStands(k)'
    BY <1>3 DEF AnswerStands, Loadable
  <1> QED
    BY <1>4, <1>5, <1>6 DEF SettingsInvariant

-----------------------------------------------------------------------------

\* Every step keeps the invariant.
LEMMA SettingsStep ==
    ASSUME SettingsInvariant, [SettingsNext]_settingsVars
    PROVE  SettingsInvariant'
  <1>1. CASE UNCHANGED settingsVars
    BY <1>1 DEF settingsVars, SettingsInvariant, SettingsShape, AloneIsAlone,
       OwnWorkStands, AnswerStands, AtWork, CopyExcludes
  <1>2. ASSUME NEW c \in Calls, CallNext(c)
        PROVE  SettingsInvariant'
    BY <1>2, BeginsSound, SavesSound, EnsuresSound, RestartsSound, AnswersSound
    DEF CallNext
  <1> QED
    BY <1>1, <1>2, AutomationSound, RestartSound, CopySound DEF SettingsNext

\* No call runs at the start.
LEMMA SettingsStart == SettingsInit => SettingsInvariant
  <1> SUFFICES ASSUME SettingsInit PROVE SettingsInvariant
    OBVIOUS
  <1>1. IsRecord(file, Fields)
    <2>1. PICK first, home, relay, scenes :
              file = [mode |-> "dual", force |-> TRUE, prefs |-> first,
                      net |-> home, auto |-> TRUE, follow |-> TRUE,
                      race |-> 0, relay |-> relay, scenes |-> scenes]
      BY DEF SettingsInit
    <2> QED
      BY <2>1 DEF IsRecord, Fields
  <1>2. /\ IsRecord(call, Calls) /\ IsRecord(answered, Kinds)
        /\ \A c \in Calls : call[c] = NotCalled
        /\ \A k \in Kinds : answered[k] = Unset
    BY DEF SettingsInit, IsRecord
  <1>3. /\ NotCalled.step = "idle" /\ NotCalled.alone = FALSE
        /\ IsRecord(NotCalled, CallFields)
    BY DEF NotCalled, IsRecord, CallFields
  <1>4. \A c \in Calls : ~AtWork(c)
    BY <1>2, <1>3 DEF AtWork
  <1>5. SettingsShape /\ AloneIsAlone /\ CopyExcludes
    <2>1. IsRecord(copy, CopyFields) /\ copy.step = "none"
      BY DEF SettingsInit, NoCopy, IsRecord, CopyFields
    <2> QED
      BY <1>1, <1>2, <1>3, <1>4, <2>1
      DEF SettingsShape, AloneIsAlone, CopyExcludes
  <1>6. \A c \in Calls : OwnWorkStands(c)
    BY <1>2, <1>3 DEF OwnWorkStands
  <1>7. \A k \in Loadable : AnswerStands(k)
    BY <1>2 DEF AnswerStands, Loadable
  <1> QED
    BY <1>5, <1>6, <1>7 DEF SettingsInvariant

\* The mode and the NAT setting that were answered with 200, by a call that was
\* alone in its kind, are the ones in the file and in the running service,
\* whatever the automation writes and restarts, until the next call of that kind
\* and until the next identity repair or pairing, which writes an old copy.
THEOREM AnsweredSettingsLoaded == SettingsSpec => []AnsweredIsLoaded
  <1>1. SettingsInvariant => AnsweredIsLoaded
    BY DEF SettingsInvariant, AnsweredIsLoaded, AnswerStands, Loadable
  <1> QED
    BY SettingsStart, SettingsStep, <1>1, PTL DEF SettingsSpec
=============================================================================
