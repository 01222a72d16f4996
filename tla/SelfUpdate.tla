----------------------------- MODULE SelfUpdate -----------------------------
(***************************************************************************)
(* The self update: the Updates tab of AdminPage, the endpoints of         *)
(* update.py and updater.sh, which share trigger.json and state.json.      *)
(*                                                                         *)
(* The tab learns of the update only by polling, while the containers it   *)
(* polls are recreated: answers are lost, late and out of order, and the   *)
(* state it reads first may be that of the update before.                  *)
(***************************************************************************)
EXTENDS Integers, Sequences, SequencesExt

CONSTANTS
    LastStep,     \* the steps of run_update
    MaxTries,     \* bound on the updates asked for
    MaxPolls,     \* bound on the polls under way at once
    MaxPollsLost  \* bound on the polls that fail

ASSUME SelfUpdateAssumption ==
    LastStep \in Nat \ {0} /\ {MaxTries, MaxPolls, MaxPollsLost} \subseteq Nat

VARIABLES
    trigger,      \* trigger.json exists
    updState,     \* the status of state.json, "none" without the file
    updStep,      \* 0 while the updater waits for a trigger
    triggered, sawRunning, reloading, liveState,  \* the state of UpdateTab
    statusData,   \* the status in the cache of useUpdateStatus
    runPosts,     \* the POSTs to /run: "sent" or "accepted"
    polls,        \* the polls of the effect: "sent" or the status they read
    tries, successes, reloads, pollsLost,
    overtaken     \* an answer was shown while an earlier one was still to come

updater == <<trigger, updState, updStep, successes>>
tab == <<triggered, sawRunning, reloading, liveState, statusData, polls>>
updateVars == <<updater, tab, runPosts, tries, reloads, pollsLost, overtaken>>

Status == {"none", "running", "success", "failed"}
Ends == {"success", "failed"}

\* An admin opens the tab at any time between two updates.
UpdateInit ==
    /\ trigger = FALSE /\ updState \in {"none"} \cup Ends /\ updStep = 0
    /\ triggered = FALSE /\ sawRunning = FALSE /\ reloading = FALSE
    /\ liveState = "none" /\ statusData = "none" /\ runPosts = <<>> /\ polls = <<>>
    /\ tries = 0 /\ successes = 0 /\ reloads = 0 /\ pollsLost = 0
    /\ overtaken = FALSE

-----------------------------------------------------------------------------
(* updater.sh                                                              *)

\* trigger.json is removed before run_update writes its first state.
TakeTrigger ==
    /\ trigger /\ updStep = 0
    /\ trigger' = FALSE /\ updStep' = 1
    /\ UNCHANGED <<updState, successes, tab, runPosts, tries, reloads, pollsLost, overtaken>>

\* set_progress
Advance ==
    /\ updStep \in 1 .. LastStep
    /\ updStep' = updStep + 1 /\ updState' = "running"
    /\ UNCHANGED <<trigger, successes, tab, runPosts, tries, reloads, pollsLost, overtaken>>

\* fail_update, of any step after the first
FailUpdate ==
    /\ updStep \in 2 .. LastStep + 1
    /\ updStep' = 0 /\ updState' = "failed"
    /\ UNCHANGED <<trigger, successes, tab, runPosts, tries, reloads, pollsLost, overtaken>>

SucceedUpdate ==
    /\ updStep = LastStep + 1
    /\ updStep' = 0 /\ updState' = "success" /\ successes' = successes + 1
    /\ UNCHANGED <<trigger, tab, runPosts, tries, reloads, pollsLost, overtaken>>

\* Another admin.
OthersTrigger ==
    /\ ~trigger /\ tries < MaxTries
    /\ trigger' = TRUE /\ tries' = tries + 1
    /\ UNCHANGED <<updState, updStep, successes, tab, runPosts, reloads, pollsLost, overtaken>>

-----------------------------------------------------------------------------
(* The tab.                                                                *)

StatusShown(live, data) == IF live = "none" THEN data ELSE live
State == StatusShown(liveState, statusData)

\* Mutant: any success reloads the page, that of an earlier update too.
RenderAnySuccess(live, data) ==
    LET status == StatusShown(live, data)
        changed == status # State
    IN
    /\ liveState' = live /\ statusData' = data
    /\ sawRunning' = CASE changed /\ status = "running" -> TRUE
                       [] changed /\ status = "success" -> FALSE
                       [] OTHER -> sawRunning
    /\ reloading' = (reloading \/ (changed /\ status = "success"))

\* A render with this state, and the effects on its status: sawRunning is set,
\* or a success that was seen running is about to reload the page.
Render(live, data) ==
    LET status == StatusShown(live, data)
        changed == status # State
    IN
    /\ liveState' = live /\ statusData' = data
    /\ sawRunning' = CASE changed /\ status = "running" -> TRUE
                       [] changed /\ status = "success" -> FALSE
                       [] OTHER -> sawRunning
    /\ reloading' = (reloading \/ (changed /\ status = "success" /\ sawRunning))

\* useUpdateStatus, every 60 s or 3 s.
FetchStatus ==
    /\ statusData # updState
    /\ Render(liveState, updState)
    /\ overtaken' = (overtaken \/ \E i \in DOMAIN polls : polls[i] # "sent")
    /\ UNCHANGED <<updater, triggered, polls, runPosts, tries, reloads, pollsLost>>

\* The button is not disabled while its POST is under way.
PressUpdate ==
    /\ State # "running" /\ ~triggered /\ ~reloading
    /\ tries < MaxTries /\ tries' = tries + 1
    /\ runPosts' = Append(runPosts, "sent")
    /\ UNCHANGED <<updater, tab, reloads, pollsLost, overtaken>>

\* run_update refuses only while trigger.json exists, not during the update.
AnswerRun(i) ==
    /\ runPosts[i] = "sent"
    /\ IF trigger THEN runPosts' = RemoveAt(runPosts, i)
                  ELSE runPosts' = [runPosts EXCEPT ![i] = "accepted"]
    /\ trigger' = TRUE
    /\ UNCHANGED <<updState, updStep, successes, tab, tries, reloads, pollsLost, overtaken>>

\* onSuccess: setTriggered(true), whose effect polls at once.
RunAccepted(i) ==
    /\ runPosts[i] = "accepted"
    /\ runPosts' = RemoveAt(runPosts, i)
    /\ triggered' = TRUE
    /\ polls' = IF triggered THEN polls ELSE <<"sent">>
    /\ UNCHANGED <<updater, sawRunning, reloading, liveState, statusData, tries, reloads, pollsLost, overtaken>>

\* setInterval(poll, 1500)
SendPoll ==
    /\ triggered /\ Len(polls) < MaxPolls
    /\ polls' = Append(polls, "sent")
    /\ UNCHANGED <<updater, triggered, sawRunning, reloading, liveState, statusData,
                   runPosts, tries, reloads, pollsLost, overtaken>>

AnswerPoll(i) ==
    /\ polls[i] = "sent"
    /\ polls' = [polls EXCEPT ![i] = updState]
    /\ UNCHANGED <<updater, triggered, sawRunning, reloading, liveState, statusData,
                   runPosts, tries, reloads, pollsLost, overtaken>>

\* Mutant: a failure does not stop the polling.
ApplyPollOfSuccess(i) ==
    /\ polls[i] # "sent"
    /\ triggered' = ~(polls[i] = "success" /\ sawRunning)
    /\ polls' = IF triggered' THEN RemoveAt(polls, i) ELSE <<>>
    /\ Render(polls[i], statusData)
    /\ overtaken' = (overtaken \/ \E j \in DOMAIN polls \ {i} : polls[j] # "sent")
    /\ UNCHANGED <<updater, runPosts, tries, reloads, pollsLost>>

\* The polls of an effect that was stopped are ignored.
ApplyPoll(i) ==
    /\ polls[i] # "sent"
    /\ triggered' = ~(polls[i] \in Ends /\ sawRunning)
    /\ polls' = IF triggered' THEN RemoveAt(polls, i) ELSE <<>>
    /\ Render(polls[i], statusData)
    /\ overtaken' = (overtaken \/ \E j \in DOMAIN polls \ {i} : polls[j] # "sent")
    /\ UNCHANGED <<updater, runPosts, tries, reloads, pollsLost>>

\* "Transient failures occur while containers restart mid-update."
LosePoll(i) ==
    /\ pollsLost < MaxPollsLost
    /\ pollsLost' = pollsLost + 1 /\ polls' = RemoveAt(polls, i)
    /\ UNCHANGED <<updater, triggered, sawRunning, reloading, liveState, statusData,
                   runPosts, tries, reloads, overtaken>>

\* window.location.reload: the tab starts again.
Reload ==
    /\ reloading
    /\ triggered' = FALSE /\ sawRunning' = FALSE /\ reloading' = FALSE
    /\ liveState' = "none" /\ statusData' = "none" /\ polls' = <<>> /\ runPosts' = <<>>
    /\ reloads' = reloads + 1
    /\ UNCHANGED <<updater, tries, pollsLost, overtaken>>

-----------------------------------------------------------------------------
Updater == TakeTrigger \/ Advance \/ FailUpdate \/ SucceedUpdate

UpdateNext ==
    \/ Updater \/ OthersTrigger \/ FetchStatus \/ PressUpdate \/ SendPoll \/ Reload
    \/ \E i \in DOMAIN runPosts : AnswerRun(i) \/ RunAccepted(i)
    \/ \E i \in DOMAIN polls : AnswerPoll(i) \/ ApplyPoll(i) \/ LosePoll(i)

UpdateSpec == UpdateInit /\ [][UpdateNext]_updateVars

\* The updater goes on, the timers fire, and the oldest poll is answered.
UpdateFairness ==
    /\ WF_updateVars(Updater) /\ WF_updateVars(SendPoll) /\ WF_updateVars(Reload)
    /\ WF_updateVars(polls # <<>> /\ (AnswerPoll(1) \/ ApplyPoll(1)))

UpdateTypeOK ==
    /\ {trigger, triggered, sawRunning, reloading, overtaken} \subseteq BOOLEAN
    /\ {updState, liveState, statusData} \subseteq Status /\ updStep \in 0 .. LastStep + 1
    /\ runPosts \in Seq({"sent", "accepted"}) /\ polls \in Seq(Status \cup {"sent"})
    /\ Len(polls) <= MaxPolls + 1
    /\ tries \in 0 .. MaxTries /\ successes \in 0 .. MaxTries /\ pollsLost \in 0 .. MaxPollsLost

(* The page is reloaded at most once for an update that succeeds, and not  *)
(* for the success of the update before, read before or after the reload;  *)
(* but for a poll that read it and is overtaken by a later one.            *)
OneReloadPerSuccess ==
    overtaken \/ reloads + (IF reloading THEN 1 ELSE 0) <= successes

(* Once the update was seen running, its end is seen: the bar does not     *)
(* stay for ever, however many polls fail while the containers restart.    *)
EndIsSeen == (triggered /\ sawRunning) ~> ~triggered
=============================================================================
