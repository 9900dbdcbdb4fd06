---- MODULE Workflow ----
(* The phases of a session's workflow: internal/app/runtime_workflow_executor.go, *)
(* runtime_workflow_phase_runtime.go, runtime_workflow_evidence.go,               *)
(* runtime_workflow_agent.go, and events/projector_workflow.go.                   *)
(*                                                                                *)
(* A call (a user's message, the answer to an approval) runs a turn in the        *)
(* current phase and, when the turn ends, moves the workflow and runs the next    *)
(* phase's turn itself. Nothing holds the session in between: every function      *)
(* takes a Snapshot, decides, and appends events, here the call's drafts, which   *)
(* are applied one by one while other calls of the session go on.                 *)
EXTENDS Naturals, Sequences

CONSTANTS
    WfTypes,        \* the definition: the type of each phase, in order
    WfOutputs,      \* phases that must record an output (or another evidence)
    WfAuto,         \* phases not marked auto_continue: false
    WfRevision,     \* phase -> [to, max], where failed evidence revises
    WfRetry,        \* <<phase, event>> -> [to, max], where the end of a turn leads
    WfSkipTo,       \* approval phases that may be skipped -> where the skip leads, 0: on
    WfFailures,     \* the codes a turn fails with
    WfCalls,        \* calls of one session that may overlap
    WfMaxTurns, WfMaxFailed, WfMaxQuestions, WfMaxCrashes  \* bounds of the model: turns
                    \* begun or resumed, results of one kind, questions, ends of the process

WfPhases == DOMAIN WfTypes
JudgedTypes == {"check", "verification", "review"}
FailureCodes == {"turn_failed", "budget_exceeded", "provider_request_limit", "no_progress"}
ResultEvents == FailureCodes \cup {"canceled"}

(* validateTransitions: a transition may lead to any phase of the definition, a   *)
(* later one, too.                                                                *)
ASSUME WfAssumption ==
    /\ WfTypes \in Seq({"agent", "approval", "check", "verification", "review", "final"})
    /\ WfTypes # <<>>
    /\ WfOutputs \subseteq WfPhases /\ WfAuto \subseteq WfPhases
    /\ DOMAIN WfRevision \subseteq {p \in WfPhases : WfTypes[p] \in JudgedTypes}
    /\ DOMAIN WfRetry \subseteq WfPhases \X ResultEvents /\ DOMAIN WfSkipTo \subseteq WfPhases
    /\ \A p \in DOMAIN WfRevision : WfRevision[p].to \in WfPhases /\ WfRevision[p].max \in Nat
    /\ \A t \in DOMAIN WfRetry : WfRetry[t].to \in WfPhases /\ WfRetry[t].max \in Nat
    /\ \A p \in DOMAIN WfSkipTo : WfSkipTo[p] \in WfPhases \cup {0}
    /\ WfFailures \subseteq FailureCodes
    /\ {WfMaxTurns, WfMaxFailed, WfMaxQuestions, WfMaxCrashes} \subseteq Nat

VARIABLES
    wfState,      \* status and current phase of the session's workflow
    wfFacts,      \* recorded evidence: <<phase, kind>>
    wfFailed,     \* how many failed results a phase has recorded
    wfStops,      \* how many phase_failure evidences a phase has of an event
    wfOrder,      \* the phases in the order in which events first named them
    wfQuestions,  \* approval questions waiting for an answer
    wfCall,       \* where each call is
    wfTurns, wfCrashes,
    wfRevised,    \* history: how often each phase was revised
    wfPassed,     \* history: the phases a declared transition has led past
    wfClean       \* history: no call carried a decision into a workflow started later

wfVars == <<wfState, wfFacts, wfFailed, wfStops, wfOrder, wfQuestions, wfCall, wfTurns, wfCrashes,
            wfRevised, wfPassed, wfClean>>

\* phase: of the turn, or the approval; again: answers whose maybeAdvance is to follow
IdleWfCall == [pc |-> "idle", drafts |-> <<>>, phase |-> 0, outcome |-> "none",
               again |-> 0, recovery |-> FALSE]

WfInit ==
    /\ wfState = [status |-> "none", phase |-> 0]
    /\ wfFacts = {}
    /\ wfFailed = [p \in WfPhases |-> 0] /\ wfStops = [t \in DOMAIN WfRetry |-> 0]
    /\ wfOrder = <<>>
    /\ wfRevised = [p \in WfPhases |-> 0] /\ wfPassed = {}
    /\ wfQuestions = 0 /\ wfTurns = 0 /\ wfCrashes = 0 /\ wfClean = TRUE
    /\ wfCall = [c \in WfCalls |-> IdleWfCall]

WfAt(c, pc) == wfCall[c].pc = pc /\ wfCall[c].drafts = <<>>
Drafted(c, pc, drafts) == wfCall' = [wfCall EXCEPT ![c] = [@ EXCEPT !.pc = pc, !.drafts = drafts]]
GoOn(c, pc) == Drafted(c, pc, <<>>)

(* An error leaves every caller; a result may be followed by the second           *)
(* maybeAdvanceWorkflowAfterTurn of continueAfterWorkflowApproval.                *)
GivesUp(c, drafts) == wfCall' = [wfCall EXCEPT ![c] = [IdleWfCall EXCEPT !.drafts = drafts]]
Fails(c) == wfCall' = [wfCall EXCEPT ![c] = IdleWfCall]
BackWith(call, drafts) ==
    IF call.again = 0 THEN [IdleWfCall EXCEPT !.drafts = drafts]
    ELSE [call EXCEPT !.pc = "decide", !.drafts = drafts, !.again = @ - 1, !.recovery = FALSE]
Back(c, drafts) == wfCall' = [wfCall EXCEPT ![c] = BackWith(@, drafts)]

WfShared == <<wfState, wfFacts, wfFailed, wfStops, wfOrder, wfCrashes, wfRevised, wfPassed, wfClean>>

Live == wfState.status \in {"active", "blocked"}
TypeNow == WfTypes[wfState.phase]

------------------------------------------------------------------------------
(* Events.                                                                        *)

Draft(type, phase, what) == [type |-> type, phase |-> phase, what |-> what]

(* No other call is between a decision and its events.                            *)
NoDecisionPending(c) == \A d \in WfCalls \ {c} : wfCall[d].pc \in {"idle", "prepare"} /\ wfCall[d].drafts = <<>>

(* ensureWorkflowPhase *)
Seen(order, p) == IF \E i \in DOMAIN order : order[i] = p THEN order ELSE Append(order, p)

(* The phases a declared transition leads past: the one it leaves, too, unless    *)
(* its evidence is asked for.                                                     *)
PassedBy(e) ==
    CASE e.type \in {"routed", "revised"} -> e.what .. e.phase - 1
      [] e.type = "skipped" -> e.what + 1 .. e.phase - 1
      [] OTHER -> {}

(* applyWorkflow...: the projector takes every event as it comes.                 *)
WorkflowStarted(c) ==
    /\ wfState' = [status |-> "active", phase |-> 1]
    /\ wfFacts' = {}
    /\ wfFailed' = [p \in WfPhases |-> 0] /\ wfStops' = [t \in DOMAIN WfRetry |-> 0]
    /\ wfOrder' = <<1>>
    /\ wfRevised' = [p \in WfPhases |-> 0] /\ wfPassed' = {}
    /\ wfClean' = (wfClean /\ NoDecisionPending(c))
EvidenceRecorded(e) ==
    /\ CASE e.what = "fail" -> /\ wfFailed' = [wfFailed EXCEPT ![e.phase] = @ + 1]
                               /\ UNCHANGED <<wfFacts, wfStops>>
         [] e.what \in ResultEvents -> /\ wfStops' = [wfStops EXCEPT ![<<e.phase, e.what>>] = @ + 1]
                                       /\ UNCHANGED <<wfFacts, wfFailed>>
         [] OTHER -> wfFacts' = wfFacts \cup {<<e.phase, e.what>>} /\ UNCHANGED <<wfFailed, wfStops>>
    /\ wfOrder' = Seen(wfOrder, e.phase)
    /\ UNCHANGED <<wfState, wfRevised, wfPassed, wfClean>>
PhaseMoved(e) ==
    /\ wfState' = [status |-> CASE e.type = "blocked" -> "blocked"
                                [] e.type = "completed" -> "completed"
                                [] OTHER -> "active",
                   phase |-> e.phase]
    /\ wfOrder' = Seen(IF e.what = 0 THEN wfOrder ELSE Seen(wfOrder, e.what), e.phase)
    /\ wfRevised' = IF e.type = "revised" THEN [wfRevised EXCEPT ![e.what] = @ + 1] ELSE wfRevised
    /\ wfPassed' = wfPassed \cup PassedBy(e)
    /\ UNCHANGED <<wfFacts, wfFailed, wfStops, wfClean>>

ApplyDraft(c) ==
    /\ wfCall[c].drafts # <<>>
    /\ LET e == Head(wfCall[c].drafts)
       IN CASE e.type = "started" -> WorkflowStarted(c)
            [] e.type = "evidence" -> EvidenceRecorded(e)
            [] OTHER -> PhaseMoved(e)
    /\ wfCall' = [wfCall EXCEPT ![c].drafts = Tail(@)]
    /\ UNCHANGED <<wfQuestions, wfTurns, wfCrashes>>

Evidence(phase, what) == Draft("evidence", phase, what)
Moved(type, phase) == Draft(type, phase, 0)
\* appendWorkflowPhaseAdvanced: the event names the phase left, here also why.
Advanced(type, from, to) == Draft(type, to, from)
RevisedTo(from) == Advanced("revised", from, WfRevision[from].to)

------------------------------------------------------------------------------
(* A turn: prepareWorkflowPhaseTurn, and what its phase's type runs.              *)

RunsNext(c, call) ==
    /\ wfTurns < WfMaxTurns /\ wfTurns' = wfTurns + 1
    /\ wfCall' = [wfCall EXCEPT ![c] = [call EXCEPT !.pc = "prepare", !.drafts = <<>>]]

UserMessage(c) ==
    /\ WfAt(c, "idle")
    /\ RunsNext(c, IdleWfCall)
    /\ UNCHANGED <<wfQuestions, WfShared>>

PcOfType(type) ==
    CASE type = "approval" -> "approval" [] type = "final" -> "final"
      [] type = "check" -> "check" [] OTHER -> "run"

(* The turn is bound to the phase that was read, and says so unless it has just   *)
(* started the workflow.                                                          *)
BoundTo(c, drafts) ==
    wfCall' = [wfCall EXCEPT ![c] = [@ EXCEPT !.pc = PcOfType(TypeNow), !.drafts = drafts,
                                              !.phase = wfState.phase]]
PhaseStarted == <<Moved("phase_started", wfState.phase)>>

Prepare(c) ==
    /\ WfAt(c, "prepare")
    /\ CASE wfState.status = "active" -> BoundTo(c, PhaseStarted)
         [] wfState.status = "blocked" ->
               wfCall' = [wfCall EXCEPT ![c] = [@ EXCEPT !.pc = "resuming", !.phase = wfState.phase]]
         [] OTHER -> GoOn(c, "starting")
    /\ UNCHANGED <<wfQuestions, wfTurns, WfShared>>

StartWorkflow(c) ==
    /\ WfAt(c, "starting")
    /\ IF Live THEN Fails(c)
       ELSE Drafted(c, "started", <<Moved("started", 1), Moved("phase_started", 1)>>)
    /\ UNCHANGED <<wfQuestions, wfTurns, WfShared>>

(* Read again after the start; another call may have moved it.                    *)
Started(c) ==
    /\ WfAt(c, "started")
    /\ CASE wfState.status = "active" -> BoundTo(c, <<>>)
         [] wfState.status = "blocked" ->
               wfCall' = [wfCall EXCEPT ![c] = [@ EXCEPT !.pc = "resuming", !.phase = wfState.phase]]
         [] OTHER -> Fails(c)
    /\ UNCHANGED <<wfQuestions, wfTurns, WfShared>>

ResumeWorkflow(c) ==
    /\ WfAt(c, "resuming")
    /\ IF wfState.status = "blocked" /\ wfState.phase = wfCall[c].phase
       THEN Drafted(c, "resumed", <<Moved("resumed", wfState.phase)>>)
       ELSE Fails(c)
    /\ UNCHANGED <<wfQuestions, wfTurns, WfShared>>

Resumed(c) ==
    /\ WfAt(c, "resumed")
    /\ BoundTo(c, PhaseStarted)
    /\ UNCHANGED <<wfQuestions, wfTurns, WfShared>>

(* /workflow resume: no turn.                                                     *)
ResumeCommand(c) ==
    /\ WfAt(c, "idle") /\ wfState.status = "blocked"
    /\ Drafted(c, "idle", <<Moved("resumed", wfState.phase)>>)
    /\ UNCHANGED <<wfQuestions, wfTurns, WfShared>>

(* What a tool may record for the phase it finds current. A command of a check    *)
(* that a turn runs counts as one the runtime runs, and its failure blocks.       *)
ResultsOf(p) ==
    (IF p \in WfOutputs
        THEN {<<Evidence(p, "output")>>, <<Evidence(p, "output"), Evidence(p, "small")>>} ELSE {})
    \cup (IF WfTypes[p] \in JudgedTypes THEN {<<Evidence(p, "pass")>>, <<Evidence(p, "fail")>>} ELSE {})
    \cup (IF WfTypes[p] = "check" THEN {<<Evidence(p, "fail"), Moved("blocked", p)>>} ELSE {})

RecordResult(c) ==
    LET p == wfState.phase
    IN /\ WfAt(c, "run") /\ wfState.status = "active"
       /\ \E results \in ResultsOf(p) :
             /\ results[1].what = "fail" => wfFailed[p] < WfMaxFailed
             /\ results[1].what # "fail" => <<p, results[Len(results)].what>> \notin wfFacts
             /\ Drafted(c, "run", results)
       /\ UNCHANGED <<wfQuestions, wfTurns, WfShared>>

(* The turn ends. A canceled one returns past finalizeTurnRunResult.              *)
EndPhaseTurn(c) ==
    /\ WfAt(c, "run")
    /\ \E outcome \in {"completed"} \cup WfFailures :
          wfCall' = [wfCall EXCEPT ![c] = [@ EXCEPT !.pc = "finalize", !.outcome = outcome]]
    /\ UNCHANGED <<wfQuestions, wfTurns, WfShared>>
CancelTurn(c) ==
    /\ WfAt(c, "run") \/ WfAt(c, "waiting")
    /\ wfCall' = [wfCall EXCEPT ![c] = BackWith([@ EXCEPT !.outcome = "canceled"], <<>>)]
    /\ UNCHANGED <<wfQuestions, wfTurns, WfShared>>

(* The turn waits for an answer: its callers return, and no maybeAdvance of       *)
(* theirs does anything. It goes on in the call that brings the answer.           *)
WaitsWith(c, drafts) ==
    wfCall' = [wfCall EXCEPT ![c] = [@ EXCEPT !.pc = "waiting", !.again = 0, !.drafts = drafts]]
PendTurn(c) ==
    /\ WfAt(c, "run")
    /\ WaitsWith(c, <<>>)
    /\ UNCHANGED <<wfQuestions, wfTurns, WfShared>>
AnswerTurn(c) ==
    /\ WfAt(c, "waiting")
    /\ wfTurns < WfMaxTurns /\ wfTurns' = wfTurns + 1
    /\ GoOn(c, "run")
    /\ UNCHANGED <<wfQuestions, WfShared>>

(* startWorkflowVerificationPhaseTurn: the phase's own commands are run one by    *)
(* one, and each result is recorded before the next is run, here as one result    *)
(* for all that passed. A failure is recorded and blocks, a command that needs    *)
(* permission leaves the turn waiting, and goes on as any turn.                   *)
RunChecks(c) ==
    LET p == wfCall[c].phase
    IN /\ WfAt(c, "check")
       /\ \/ /\ Live
             /\ wfCall' = [wfCall EXCEPT ![c] = [@ EXCEPT !.pc = "advance", !.outcome = "completed",
                                                          !.drafts = <<Evidence(p, "pass")>>]]
          \/ /\ Live
             /\ \E passed \in {<<>>, <<Evidence(p, "pass")>>} :
                   \/ /\ wfFailed[p] < WfMaxFailed
                      /\ wfCall' = [wfCall EXCEPT ![c] =
                             [@ EXCEPT !.pc = "recheck", !.outcome = "completed",
                                       !.drafts = passed \o <<Evidence(p, "fail"), Moved("blocked", p)>>]]
                   \/ WaitsWith(c, passed)
                   \/ GivesUp(c, passed)
          \/ ~Live /\ (WaitsWith(c, <<>>) \/ Fails(c))
       /\ UNCHANGED <<wfQuestions, wfTurns, WfShared>>

------------------------------------------------------------------------------
(* maybeAdvanceWorkflowAfterTurn.                                                 *)

(* maybeAdvanceWorkflowBoundTurn                                                  *)
Finalize(c) ==
    /\ WfAt(c, "finalize")
    /\ IF Live THEN GoOn(c, "decide") ELSE Back(c, <<>>)
    /\ UNCHANGED <<wfQuestions, wfTurns, WfShared>>

(* maybeApplyWorkflowTurnResultTransition: the code of the failure comes first,   *)
(* then turn_failed; where the transition leads no evidence is asked for. The     *)
(* evidence of a turn that is decided on a second time may be there already.      *)
Routes(p, outcome) ==
    {event \in {outcome} \cup (IF outcome \in WfFailures THEN {"turn_failed"} ELSE {}) :
        <<p, event>> \in DOMAIN WfRetry}
ApplyTurnResult(c) ==
    LET p       == wfState.phase
        outcome == wfCall[c].outcome
    IN /\ WfAt(c, "decide") /\ outcome # "completed"
       /\ \/ /\ wfState.status # "active" \/ Routes(p, outcome) = {}
             /\ Back(c, <<>>)
          \/ /\ wfState.status = "active"
             /\ \E event \in Routes(p, outcome) :
                   LET stops == wfStops[<<p, event>>]
                       route == WfRetry[<<p, event>>]
                       moved == Advanced("routed", p, route.to)
                   IN /\ outcome \in Routes(p, outcome) => event = outcome
                      /\ \/ /\ route.max > 0 /\ stops >= route.max
                            /\ Back(c, <<Moved("blocked", p)>>)
                         \/ /\ ~(route.max > 0 /\ stops >= route.max) /\ stops < WfMaxFailed
                            /\ Back(c, <<Evidence(p, event), moved>>)
                         \/ /\ ~(route.max > 0 /\ stops >= route.max) /\ stops > 0
                            /\ Back(c, <<moved>>)
       /\ UNCHANGED <<wfQuestions, wfTurns, WfShared>>

(* One more turn is run to obtain a missing output.                               *)
NeedsRecovery(c) ==
    wfState.phase \in WfOutputs /\ <<wfState.phase, "output">> \notin wfFacts /\ ~wfCall[c].recovery

DecideCompleted(c) ==
    /\ WfAt(c, "decide") /\ wfCall[c].outcome = "completed"
    /\ ~(wfState.status = "active" /\ TypeNow \notin {"approval", "final"} /\ NeedsRecovery(c))
    /\ \/ (~Live \/ (wfState.status = "active" /\ TypeNow = "approval")) /\ Back(c, <<>>)
       \/ wfState.status = "blocked" /\ GoOn(c, "unblock")
       \/ wfState.status = "active" /\ TypeNow = "final" /\ GoOn(c, "complete")
       \/ wfState.status = "active" /\ TypeNow \in JudgedTypes /\ GoOn(c, "revise")
       \/ wfState.status = "active" /\ TypeNow = "agent" /\ GoOn(c, "advance")
    /\ UNCHANGED <<wfQuestions, wfTurns, WfShared>>

RecoverOutput(c) ==
    /\ WfAt(c, "decide") /\ wfCall[c].outcome = "completed"
    /\ wfState.status = "active" /\ TypeNow \notin {"approval", "final"} /\ NeedsRecovery(c)
    /\ RunsNext(c, [wfCall[c] EXCEPT !.recovery = TRUE])
    /\ UNCHANGED <<wfQuestions, WfShared>>

(* How often is counted from the failed evidence there is.                        *)
Revises(p) == p \in DOMAIN WfRevision /\ wfFailed[p] \in 1 .. WfRevision[p].max

(* maybeReviseWorkflowAfter(Verification|Review)Failure: after a completed turn,  *)
(* in a blocked workflow, and after the runtime's own checks.                     *)
Revise(c) ==
    LET p == wfState.phase
        to == CASE wfCall[c].pc = "recheck" -> "return" [] OTHER -> "rerun"
    IN /\ WfAt(c, "revise") \/ WfAt(c, "unblock") \/ WfAt(c, "recheck")
       /\ CASE ~Live -> Fails(c)
            [] Live /\ Revises(p) /\ (wfCall[c].pc # "revise" => TypeNow # "review") ->
                  Drafted(c, to, <<RevisedTo(p)>>)
            [] OTHER -> IF wfCall[c].pc = "revise" THEN GoOn(c, "advance") ELSE Back(c, <<>>)
       /\ UNCHANGED <<wfQuestions, wfTurns, WfShared>>

EndRevision(c) ==
    /\ WfAt(c, "return")
    /\ Back(c, <<>>)
    /\ UNCHANGED <<wfQuestions, wfTurns, WfShared>>

(* missingWorkflowPhaseCompletionEvidence                                         *)
Complete(p) ==
    /\ p \in WfOutputs => <<p, "output">> \in wfFacts
    /\ WfTypes[p] = "approval" => <<p, "approval">> \in wfFacts
    /\ WfTypes[p] \in {"check", "verification"} => <<p, "pass">> \in wfFacts
    /\ WfTypes[p] = "review" => <<p, "pass">> \in wfFacts \/ wfFailed[p] > 0

(* Mutant: only the outputs are asked for, not what the type of the phase demands. *)
OutputsAreThere(p) == p \in WfOutputs => <<p, "output">> \in wfFacts
MayLeave(p) == Complete(p)

(* AdvanceWorkflow, after a turn and after an approval.                           *)
AdvanceWorkflow(c) ==
    LET p == wfState.phase
    IN /\ WfAt(c, "advance") \/ WfAt(c, "approve")
       /\ CASE wfState.status # "active" \/ p = Len(WfTypes) -> Fails(c)
            [] wfState.status = "active" /\ p < Len(WfTypes) /\ MayLeave(p) ->
                  Drafted(c, IF wfCall[c].pc = "approve" THEN "follow" ELSE "continue",
                          <<Advanced("advanced", p, p + 1)>>)
            [] OTHER -> IF wfCall[c].pc = "approve" THEN GivesUp(c, <<Moved("blocked", p)>>)
                        ELSE Back(c, <<Moved("blocked", p)>>)
       /\ UNCHANGED <<wfQuestions, wfTurns, WfShared>>

(* workflowApprovalSkipAllowed: the phase before is the one seen before it.       *)
MaySkip(p) ==
    /\ p \in DOMAIN WfSkipTo
    /\ \E i \in 1 .. Len(wfOrder) - 1 : wfOrder[i + 1] = p /\ <<wfOrder[i], "small">> \in wfFacts
Runnable(p) == WfTypes[p] # "final" /\ p \in WfAuto /\ ~MaySkip(p)

(* continueWorkflowIfRunnable: the next phase's turn, in this call.               *)
ContinueWorkflow(c) ==
    /\ WfAt(c, "continue") \/ WfAt(c, "rerun")
    /\ wfState.status = "active" /\ Runnable(wfState.phase)
    /\ RunsNext(c, [wfCall[c] EXCEPT !.recovery = FALSE])
    /\ UNCHANGED <<wfQuestions, WfShared>>
StopContinuing(c) ==
    /\ WfAt(c, "continue") \/ WfAt(c, "rerun")
    /\ ~(wfState.status = "active" /\ Runnable(wfState.phase))
    /\ IF wfCall[c].pc = "continue" /\ wfState.status = "active" /\ TypeNow = "final"
       THEN GoOn(c, "complete") ELSE Back(c, <<>>)
    /\ UNCHANGED <<wfQuestions, wfTurns, WfShared>>

(* In the turn of the final phase missing evidence is an error.                   *)
CompleteWorkflow(c) ==
    LET p == wfState.phase
    IN /\ WfAt(c, "complete") \/ WfAt(c, "final")
       /\ CASE wfState.status # "active" \/ TypeNow # "final" -> Fails(c)
            [] wfState.status = "active" /\ TypeNow = "final" /\ Complete(p) ->
                  wfCall' = [wfCall EXCEPT ![c] =
                      BackWith([@ EXCEPT !.outcome = "completed"], <<Moved("completed", p)>>)]
            [] OTHER -> IF wfCall[c].pc = "final" THEN GivesUp(c, <<Moved("blocked", p)>>)
                        ELSE Back(c, <<Moved("blocked", p)>>)
       /\ UNCHANGED <<wfQuestions, wfTurns, WfShared>>

------------------------------------------------------------------------------
(* Approvals.                                                                     *)

(* startWorkflowApprovalPhaseTurn                                                 *)
SkipApproval(c) ==
    LET p == wfCall[c].phase
    IN /\ WfAt(c, "approval") /\ MaySkip(p)
       /\ Drafted(c, "skip", <<Evidence(p, "approval")>>)
       /\ UNCHANGED <<wfQuestions, wfTurns, WfShared>>
AskPhase(c) ==
    /\ WfAt(c, "approval") /\ ~MaySkip(wfCall[c].phase)
    /\ wfQuestions < WfMaxQuestions /\ wfQuestions' = wfQuestions + 1
    /\ wfCall' = [wfCall EXCEPT ![c] = BackWith([@ EXCEPT !.outcome = "pending"], <<>>)]
    /\ UNCHANGED <<wfTurns, WfShared>>

(* advanceSkippedWorkflowApproval: a blocked phase is advanced, too, where the    *)
(* definition says where to; else AdvanceWorkflow does it.                        *)
AdvanceSkipped(c) ==
    LET p == wfCall[c].phase
    IN /\ WfAt(c, "skip")
       /\ CASE ~Live \/ wfState.phase # p -> Fails(c)
            [] Live /\ wfState.phase = p /\ WfSkipTo[p] = 0 -> GoOn(c, "approve")
            [] Live /\ wfState.phase = p /\ WfSkipTo[p] # 0 /\ MayLeave(p) ->
                  Drafted(c, "follow", <<Advanced("skipped", p, WfSkipTo[p])>>)
            [] OTHER -> GivesUp(c, <<Moved("blocked", p)>>)
       /\ UNCHANGED <<wfQuestions, wfTurns, WfShared>>

(* continueAfterWorkflowApproval: maybeAdvanceWorkflowAfterTurn is called on the  *)
(* result of a turn that has already called it.                                   *)
FollowApproval(c) ==
    /\ WfAt(c, "follow") /\ wfState.status = "active" /\ wfState.phase # wfCall[c].phase
    /\ RunsNext(c, [wfCall[c] EXCEPT !.again = @ + 1, !.recovery = FALSE])
    /\ UNCHANGED <<wfQuestions, WfShared>>
EndApproval(c) ==
    /\ WfAt(c, "follow") /\ ~(wfState.status = "active" /\ wfState.phase # wfCall[c].phase)
    /\ wfCall' = [wfCall EXCEPT ![c] = BackWith([@ EXCEPT !.outcome = "completed"], <<>>)]
    /\ UNCHANGED <<wfQuestions, wfTurns, WfShared>>

(* answerWorkflowApproval: the phase approved is the one current when the answer  *)
(* came in, whatever the question was asked for. outcome holds the status read.   *)
ReadAnswer(c) ==
    /\ WfAt(c, "idle") /\ wfQuestions > 0
    /\ wfCall' = [wfCall EXCEPT ![c] = [IdleWfCall EXCEPT !.pc = "answer", !.phase = wfState.phase,
                                                          !.outcome = wfState.status]]
    /\ UNCHANGED <<wfQuestions, wfTurns, WfShared>>
AnswerQuestion(c) ==
    LET call == wfCall[c]
    IN /\ WfAt(c, "answer")
       /\ wfQuestions' = IF wfQuestions = 0 THEN 0 ELSE wfQuestions - 1
       /\ \/ /\ wfQuestions = 0 \/ call.outcome # "active"
             /\ Fails(c)
          \/ /\ wfQuestions > 0 /\ call.outcome = "active"
             /\ Drafted(c, "approve", <<Evidence(call.phase, "approval")>>)
          \/ /\ wfQuestions > 0 /\ call.outcome = "active"
             /\ GoOn(c, "block")
       /\ UNCHANGED <<wfTurns, WfShared>>
BlockWorkflow(c) ==
    /\ WfAt(c, "block")
    /\ IF Live /\ wfState.phase = wfCall[c].phase
       THEN GivesUp(c, <<Moved("blocked", wfState.phase)>>) ELSE Fails(c)
    /\ UNCHANGED <<wfQuestions, wfTurns, WfShared>>

------------------------------------------------------------------------------

(* The process ends: what the calls had decided is lost. A request that waits for *)
(* its answer is in the log.                                                      *)
CrashWorkflow ==
    /\ wfCrashes < WfMaxCrashes /\ wfCrashes' = wfCrashes + 1
    /\ \E c \in WfCalls : wfCall[c] # IdleWfCall /\ ~WfAt(c, "waiting")
    /\ wfCall' = [c \in WfCalls |-> IF WfAt(c, "waiting") THEN wfCall[c] ELSE IdleWfCall]
    /\ UNCHANGED <<wfState, wfFacts, wfFailed, wfStops, wfOrder, wfQuestions, wfTurns, wfRevised,
                   wfPassed, wfClean>>

WfTurn(c) ==
    \/ UserMessage(c) \/ Prepare(c) \/ StartWorkflow(c) \/ Started(c) \/ ResumeWorkflow(c)
    \/ Resumed(c) \/ ResumeCommand(c) \/ RecordResult(c) \/ EndPhaseTurn(c) \/ CancelTurn(c)
    \/ PendTurn(c) \/ AnswerTurn(c) \/ RunChecks(c)
WfOutcome(c) ==
    \/ Finalize(c) \/ ApplyTurnResult(c) \/ DecideCompleted(c) \/ RecoverOutput(c) \/ Revise(c)
    \/ EndRevision(c) \/ AdvanceWorkflow(c) \/ ContinueWorkflow(c) \/ StopContinuing(c)
    \/ CompleteWorkflow(c)
WfApproval(c) ==
    \/ SkipApproval(c) \/ AskPhase(c) \/ AdvanceSkipped(c) \/ FollowApproval(c) \/ EndApproval(c)
    \/ ReadAnswer(c) \/ AnswerQuestion(c) \/ BlockWorkflow(c)

WfNext ==
    \/ \E c \in WfCalls : ApplyDraft(c) \/ WfTurn(c) \/ WfOutcome(c) \/ WfApproval(c)
    \/ CrashWorkflow

WfSpec == WfInit /\ [][WfNext]_wfVars

------------------------------------------------------------------------------
(* Properties.                                                                    *)

(* The workflow's status and phase go together; every call is in a phase or none. *)
WfTypeOK ==
    /\ wfState.status \in {"none", "active", "blocked", "completed"}
    /\ wfState.phase \in WfPhases \cup {0} /\ (wfState.phase = 0 <=> wfState.status = "none")
    /\ wfFacts \subseteq WfPhases \X {"output", "small", "approval", "pass"}
    /\ \A p \in WfPhases : wfFailed[p] \in Nat
    /\ \A t \in DOMAIN WfRetry : wfStops[t] \in Nat
    /\ wfPassed \subseteq WfPhases
    /\ \A c \in WfCalls : wfCall[c].phase \in WfPhases \cup {0} /\ wfCall[c].again \in Nat

Earned(p) == \A q \in WfPhases : q < p => Complete(q) \/ q \in wfPassed

(* A phase is current, run, waiting or completed only when every phase before it  *)
(* has the evidence its type demands, but for those that a transition of the      *)
(* definition has led past: no turn edits before the approval, and no workflow is *)
(* done without its checks, whichever calls overlap, end twice or are cut off.    *)
WfRunsAreEarned ==
    wfClean => /\ Earned(wfState.phase)
               /\ \A c \in WfCalls :
                     wfCall[c].pc \in {"run", "waiting", "check", "approval"} => Earned(wfCall[c].phase)

(* site/src/content/docs/getting-started/workflows.mdx: max_revision_loops caps   *)
(* automatic revision loops after failed verification or review evidence.         *)
WfRevisionsAreCapped ==
    \A p \in DOMAIN WfRevision : wfRevised[p] <= WfRevision[p].max
====
