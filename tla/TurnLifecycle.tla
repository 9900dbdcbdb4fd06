---- MODULE TurnLifecycle ----
(* One session's turns: the calls that start, resume and cancel them              *)
(* (internal/app/runtime_session.go, runtime_resume.go, runtime_answer_question.go, *)
(* runtime_cancel_turn.go, turn_resume.go, turn_runner_loop.go).                  *)
(*                                                                                *)
(* A call (StartSessionTurn, ResolveSessionTurn, AnswerSessionQuestion) runs in   *)
(* the goroutine of its client and appends to the session's log; what the log     *)
(* says of a turn is status, ended, tools and request. A turn has at most one     *)
(* runner because a call registers a handle for it; the handle is also what a     *)
(* canceller signals. Every append and every Snapshot is one step (the session    *)
(* lock, module SessionService), and nothing is locked between two of them.       *)
EXTENDS Naturals, FiniteSets, Sequences

CONSTANTS
    Calls,            \* call slots: goroutines in the runtime on behalf of a client
    Cancellers,       \* CancelSessionTurn calls in flight together
    NoCall,
    MaxTurns,         \* bound on turns, rolled-over continuations included
    MaxTools,         \* bound on the tool calls of a turn, one per provider step
    MaxStages,        \* approvals a tool call may need (path, network, execution)
    MaxQuestions,     \* bound on a turn's loop questions
    MaxCrashes,       \* bound on process crashes
    SetupMayFail,     \* whose skills, model route or prompt may not load: of a turn that
                      \*   "start"s or continues, of a turn that is "resume"d
    Overlap           \* what a client does while another of its calls is in flight:
                      \*   "resolve" answers a request whose asking call has not returned,
                      \*   "second"  answers while another answer is being handled,
                      \*   "cancel"  cancels while anything is in flight

ASSUME TurnAssumption ==
    /\ NoCall \notin Calls
    /\ MaxTurns \in Nat /\ MaxTools \in Nat /\ MaxStages \in Nat
    /\ MaxQuestions \in Nat /\ MaxCrashes \in Nat
    /\ SetupMayFail \subseteq {"start", "resume"}
    /\ Overlap \subseteq {"resolve", "second", "cancel"}

VARIABLES
    status,     \* projected status of each turn
    ended,      \* the log holds a TurnDone, TurnCanceled or TurnError of the turn
    tools,      \* the turn's declared tool calls
    request,    \* last word of the log on each approval request and loop question
    granted,    \* requests the log once approved: grants outlive a later denial
    handles,    \* activeTurns: the call whose handle is registered for the turn
    call,       \* calls in flight
    cancel,     \* cancellations in flight
    crashes

vars == <<status, ended, tools, request, granted, handles, call, cancel, crashes>>
logVars == <<status, ended, tools, request, granted>>

Turns == 1..MaxTurns
Statuses == {"none", "running", "completed", "canceled", "failed"}

(* An approval request of stage s of tool k, or the loop question s (k = 0).      *)
Requests == (Turns \X (1..MaxTools) \X (1..MaxStages)) \cup (Turns \X {0} \X (1..MaxQuestions))
NoRequest == <<0, 0, 0>>
TurnOf(r) == r[1]
ToolOf(r) == r[2]
IsQuestion(r) == r[2] = 0

Idle == [pc |-> "idle", turn |-> 0, req |-> NoRequest, decision |-> "none",
         tool |-> 0, result |-> "none", canceled |-> FALSE]
IdleCancel == [pc |-> "idle", turn |-> 0, target |-> NoCall]

Init ==
    /\ status = [t \in Turns |-> "none"]
    /\ ended = [t \in Turns |-> FALSE]
    /\ tools = [t \in Turns |-> <<>>]
    /\ request = [r \in Requests |-> "none"]
    /\ granted = {}
    /\ handles = [t \in Turns |-> NoCall]
    /\ call = [c \in Calls |-> Idle]
    /\ cancel = [k \in Cancellers |-> IdleCancel]
    /\ crashes = 0

------------------------------------------------------------------------------
(* What the log says.                                                             *)

PendingOf(t) == {r \in Requests : TurnOf(r) = t /\ request[r] = "pending"}

(* turnHasPendingInteraction: the turn is not over and waits for its user.        *)
TurnHasPending(t) ==
    /\ status[t] \notin {"completed", "canceled", "failed"}
    /\ PendingOf(t) # {}

(* The stages the call's tool still needs an approval for.                        *)
MissingStages(t, k) == {s \in 1..tools[t][k].need : <<t, k, s>> \notin granted}

(* The three terminal events. Each sets the status whatever it was before; only   *)
(* TurnCanceled withdraws what the turn asked.                                    *)
EndTurn(t, s) ==
    /\ status' = [status EXCEPT ![t] = s]
    /\ ended' = [ended EXCEPT ![t] = TRUE]
    /\ UNCHANGED <<tools, granted>>

AppendDone(t) == EndTurn(t, "completed") /\ UNCHANGED request
AppendError(t) == EndTurn(t, "failed") /\ UNCHANGED request

(* Mutant: the pending requests of a canceled turn are not cleared.               *)
AppendCanceledKeepsRequests(t) == EndTurn(t, "canceled") /\ UNCHANGED request

AppendCanceled(t) ==
    /\ EndTurn(t, "canceled")
    /\ request' = [r \in Requests |-> IF r \in PendingOf(t) THEN "withdrawn" ELSE request[r]]

Ask(r) ==
    /\ request' = [request EXCEPT ![r] = "pending"]
    /\ UNCHANGED <<status, ended, tools, granted>>

------------------------------------------------------------------------------
(* Clients.                                                                       *)

Active(c) == call[c].pc # "idle"
NothingInFlight ==
    /\ \A c \in Calls : ~Active(c)
    /\ "cancel" \notin Overlap => \A k \in Cancellers : cancel[k].pc = "idle"

MayResolve ==
    /\ \A c \in Calls : Active(c) =>
          IF call[c].req = NoRequest THEN "resolve" \in Overlap ELSE "second" \in Overlap
    /\ "cancel" \notin Overlap => \A k \in Cancellers : cancel[k].pc = "idle"
MayCancel == "cancel" \in Overlap \/ NothingInFlight

Goto(c, pc) == call' = [call EXCEPT ![c].pc = pc]
Leave(c) == call' = [call EXCEPT ![c] = Idle]
Returned(c, result) == call' = [call EXCEPT ![c].pc = "returned", ![c].result = result]

(* StartSessionTurn up to appendTurnConfigured; the prompt is held back while a   *)
(* turn runs or waits, and each start makes a new turn id.                        *)
MayStart(t) ==
    /\ NothingInFlight
    /\ status[t] = "none"
    /\ \A u \in 1..(t - 1) : status[u] # "none"
    /\ \A r \in Requests : request[r] # "pending"

StartTurn(c, t) ==
    /\ MayStart(t)
    /\ status' = [status EXCEPT ![t] = "running"]
    /\ call' = [call EXCEPT ![c] = [Idle EXCEPT !.pc = "begin", !.turn = t]]
    /\ UNCHANGED <<ended, tools, request, granted, handles, cancel, crashes>>

(* recordTurnFailure before the turn was configured.                              *)
StartTurnFails(t) ==
    /\ "start" \in SetupMayFail
    /\ MayStart(t)
    /\ AppendError(t)
    /\ UNCHANGED <<handles, call, cancel, crashes>>

(* The client answers a request it sees pending.                                  *)
Resolve(c, r, d) ==
    /\ MayResolve
    /\ ~Active(c)
    /\ request[r] = "pending"
    /\ call' = [call EXCEPT ![c] = [Idle EXCEPT !.pc = "check", !.turn = TurnOf(r),
                                                !.req = r, !.decision = d]]
    /\ UNCHANGED <<logVars, handles, cancel, crashes>>

(* ResolveSessionTurn rebuilds the turn's setup before it resolves the request;   *)
(* AnswerSessionQuestion does so after it recorded the answer.                    *)
SetupFails(c) ==
    /\ "resume" \in SetupMayFail
    /\ call[c].req # NoRequest
    /\ call[c].pc = IF IsQuestion(call[c].req) THEN "begin" ELSE "check"
    /\ IF status[call[c].turn] = "failed" THEN UNCHANGED logVars ELSE AppendError(call[c].turn)
    /\ Leave(c)
    /\ UNCHANGED <<handles, cancel, crashes>>

(* The Snapshot of ResolvePermission or AnswerQuestion.                           *)
CheckPending(c) ==
    /\ call[c].pc = "check"
    /\ IF request[call[c].req] = "pending" THEN Goto(c, "append") ELSE Leave(c)
    /\ UNCHANGED <<logVars, handles, cancel, crashes>>

(* ... and its append. "stop" or "block" to a loop question goes on to cancel.    *)
AppendDecision(c) ==
    LET r == call[c].req
        d == call[c].decision
    IN /\ call[c].pc = "append"
       /\ request' = [request EXCEPT ![r] = d]
       /\ granted' = IF d = "approved" THEN granted \cup {r} ELSE granted
       /\ Goto(c, IF IsQuestion(r) /\ d = "denied" THEN "stop" ELSE "begin")
       /\ UNCHANGED <<status, ended, tools, handles, cancel, crashes>>

StopTurn(c) ==
    /\ call[c].pc = "stop"
    /\ AppendCanceled(call[c].turn)
    /\ Leave(c)
    /\ UNCHANGED <<handles, cancel, crashes>>

------------------------------------------------------------------------------
(* The runner.                                                                    *)

(* Mutant: a registered handle is replaced.                                       *)
BeginReplaces(c) ==
    /\ call[c].pc = "begin"
    /\ handles' = [handles EXCEPT ![call[c].turn] = c]
    /\ Goto(c, IF call[c].req = NoRequest THEN "step" ELSE "replay")
    /\ UNCHANGED <<logVars, cancel, crashes>>

(* beginCancelableTurnContext; ErrTurnAlreadyRunning ends the call.               *)
Begin(c) ==
    LET t == call[c].turn
    IN /\ call[c].pc = "begin"
       /\ IF handles[t] = NoCall
          THEN /\ handles' = [handles EXCEPT ![t] = c]
               /\ Goto(c, IF call[c].req = NoRequest THEN "step" ELSE "replay")
          ELSE Leave(c) /\ UNCHANGED handles
       /\ UNCHANGED <<logVars, cancel, crashes>>

Alive(c) == ~call[c].canceled
Runs(c, pc) == call[c].pc = pc /\ Alive(c)

(* Mutant: a completed tool call is replayed like a pending one.                  *)
NotResumableIfEndedOnly(c) == ended[call[c].turn]

(* buildTurnReplay: a turn that ended, or a tool call that completed, is not      *)
(* resumed. The log's last decision counts.                                       *)
NotResumable(c) ==
    \/ ended[call[c].turn]
    \/ /\ ~IsQuestion(call[c].req)
       /\ tools[call[c].turn][ToolOf(call[c].req)].ended

Replay(c) ==
    LET r == call[c].req
    IN /\ Runs(c, "replay")
       /\ \/ NotResumable(c) /\ Returned(c, "error")
          \/ ~NotResumable(c) /\ IsQuestion(r) /\ Goto(c, "step")
          \/ /\ ~NotResumable(c) /\ ~IsQuestion(r)
             /\ call' = [call EXCEPT ![c].tool = ToolOf(r),
                                     ![c].pc = IF request[r] = "approved" THEN "tool" ELSE "denied"]
       /\ UNCHANGED <<logVars, handles, cancel, crashes>>

EndToolCall(t, k) ==
    /\ tools' = [tools EXCEPT ![t][k].ended = TRUE]
    /\ UNCHANGED <<status, ended, request, granted>>

(* A denied tool call completes with an error the model gets to see.              *)
DenyTool(c) ==
    /\ Runs(c, "denied")
    /\ EndToolCall(call[c].turn, call[c].tool)
    /\ Goto(c, "step")
    /\ UNCHANGED <<handles, cancel, crashes>>

(* The tool call the stream asked for.  When the stream broke after it (cut), a   *)
(* call that only reads is run all the same; one that needs no approval then ends *)
(* like any other.                                                                *)
DeclareTool(c, n, cut) ==
    LET t == call[c].turn
    IN /\ Runs(c, "step")
       /\ cut => n > 0
       /\ Len(tools[t]) < MaxTools
       /\ tools' = [tools EXCEPT ![t] = Append(@, [need |-> n, ended |-> FALSE, ran |-> 0, cut |-> cut])]
       /\ call' = [call EXCEPT ![c].pc = "tool", ![c].tool = Len(tools[t]) + 1]
       /\ UNCHANGED <<status, ended, request, granted, handles, cancel, crashes>>

(* The runner is at the end of a broken stream: it runs the tool for the step     *)
(* that declared it, not for an answer.                                           *)
StreamBroke(c) ==
    /\ tools[call[c].turn][call[c].tool].cut
    /\ ToolOf(call[c].req) # call[c].tool

(* Authorization finds or appends the request of the first missing stage, and the *)
(* turn returns pending; but a broken stream has its error left to return.        *)
AskApproval(c) ==
    LET t == call[c].turn
        missing == MissingStages(t, call[c].tool)
    IN /\ Runs(c, "tool")
       /\ \E s \in missing :
             /\ \A other \in missing : s <= other
             /\ Ask(<<t, call[c].tool, s>>)
       /\ IF StreamBroke(c) THEN Goto(c, "broken") ELSE Returned(c, "pending")
       /\ UNCHANGED <<handles, cancel, crashes>>

(* ToolExecStart and the side effect; a canceled context kills the tool but the   *)
(* effect may be there.                                                           *)
RunTool(c) ==
    LET t == call[c].turn
        k == call[c].tool
    IN /\ Runs(c, "tool")
       /\ MissingStages(t, k) = {}
       /\ tools' = [tools EXCEPT ![t][k].ran = @ + 1]
       /\ Goto(c, "ran")
       /\ UNCHANGED <<status, ended, request, granted, handles, cancel, crashes>>

(* ToolExecEnd; a foreground process appends it even after cancellation.          *)
EndTool(c) ==
    /\ call[c].pc = "ran"
    /\ EndToolCall(call[c].turn, call[c].tool)
    /\ Goto(c, "step")
    /\ UNCHANGED <<handles, cancel, crashes>>

(* Repeated calls or the provider request limit: ask whether to go on.            *)
AskQuestion(c) ==
    /\ Runs(c, "step")
    /\ \E q \in 1..MaxQuestions :
          /\ request[<<call[c].turn, 0, q>>] = "none"
          /\ \A p \in 1..(q - 1) : request[<<call[c].turn, 0, p>>] # "none"
          /\ Ask(<<call[c].turn, 0, q>>)
    /\ Returned(c, "pending")
    /\ UNCHANGED <<handles, cancel, crashes>>

(* TurnRetryScheduled makes the turn running, whatever it was.                    *)
Retry(c) ==
    /\ Runs(c, "step")
    /\ status' = [status EXCEPT ![call[c].turn] = "running"]
    /\ UNCHANGED <<ended, tools, request, granted, handles, call, cancel, crashes>>

TurnDone(c) ==
    /\ Runs(c, "step")
    /\ AppendDone(call[c].turn)
    /\ Returned(c, "done")
    /\ UNCHANGED <<handles, cancel, crashes>>

(* failTurn: of the step, also after its broken stream asked for an approval.     *)
TurnFail(c) ==
    /\ Runs(c, "step") \/ Runs(c, "broken")
    /\ AppendError(call[c].turn)
    /\ Returned(c, "failed")
    /\ UNCHANGED <<handles, cancel, crashes>>

(* Mutant: a rolled-over turn is recorded with a status of its own.              *)
TurnRollAsStatus(c) ==
    /\ Runs(c, "step")
    /\ \E t \in Turns : status[t] = "none"
    /\ EndTurn(call[c].turn, "rolled")
    /\ UNCHANGED request
    /\ Returned(c, "rolled")
    /\ UNCHANGED <<handles, cancel, crashes>>

(* The context is full, before a request or by the error its stream broke with:   *)
(* TurnDone, and a new turn goes on with the work.                                *)
TurnRoll(c) ==
    /\ Runs(c, "step") \/ Runs(c, "broken")
    /\ \E t \in Turns : status[t] = "none"
    /\ AppendDone(call[c].turn)
    /\ Returned(c, "rolled")
    /\ UNCHANGED <<handles, cancel, crashes>>

RunnerPcs == {"replay", "step", "tool", "denied", "ran", "broken"}

(* Any append or provider call fails once the context is canceled.                *)
CtxCanceled(c) ==
    /\ call[c].pc \in RunnerPcs
    /\ ~Alive(c)
    /\ Returned(c, "error")
    /\ UNCHANGED <<logVars, handles, cancel, crashes>>

(* Mutant: the runner's error is looked at before the cancellation.               *)
ReturnResultErrorFirst(c) ==
    /\ call[c].pc = "returned"
    /\ Goto(c, IF call[c].canceled /\ call[c].result # "error" THEN "canceling" ELSE "finish")
    /\ UNCHANGED <<logVars, handles, cancel, crashes>>

(* Mutant: the handle is released before the cancellation is recorded.            *)
ReturnResultReleases(c) ==
    /\ call[c].pc = "returned"
    /\ Goto(c, IF call[c].canceled THEN "canceling" ELSE "finish")
    /\ handles' = [handles EXCEPT ![call[c].turn] = NoCall]
    /\ UNCHANGED <<logVars, cancel, crashes>>

(* The runner returned: cancellation is looked at first, then the result.         *)
ReturnResult(c) ==
    /\ call[c].pc = "returned"
    /\ Goto(c, IF call[c].canceled THEN "canceling" ELSE "finish")
    /\ UNCHANGED <<logVars, handles, cancel, crashes>>

(* loadCanceledSessionTurnResult, outside the canceled context.                   *)
CanceledResult(c) ==
    /\ call[c].pc = "canceling"
    /\ AppendCanceled(call[c].turn)
    /\ call' = [call EXCEPT ![c].pc = "finish", ![c].result = "canceled"]
    /\ UNCHANGED <<handles, cancel, crashes>>

(* Mutant: a call that returns pending keeps its handle registered.               *)
FinishLeaksHandle(c) ==
    /\ call[c].pc = "finish"
    /\ handles' = IF call[c].result = "pending" THEN handles
                  ELSE [handles EXCEPT ![call[c].turn] = NoCall]
    /\ IF call[c].result = "rolled" THEN Goto(c, "continue") ELSE Leave(c)
    /\ UNCHANGED <<logVars, cancel, crashes>>

(* finishTurn removes the call's own handle; whoever still holds that handle      *)
(* signals nobody.                                                                *)
Finish(c) ==
    LET t == call[c].turn
    IN /\ call[c].pc = "finish"
       /\ handles' = [handles EXCEPT ![t] = IF @ = c THEN NoCall ELSE @]
       /\ cancel' = [k \in Cancellers |->
                        IF cancel[k].target = c THEN [cancel[k] EXCEPT !.target = NoCall]
                        ELSE cancel[k]]
       /\ IF call[c].result = "rolled" THEN Goto(c, "continue") ELSE Leave(c)
       /\ UNCHANGED <<logVars, crashes>>

(* continueRolledOverTurn: a new turn in the same call.                           *)
ContinueRolled(c, t) ==
    /\ call[c].pc = "continue"
    /\ status[t] = "none"
    /\ \A u \in 1..(t - 1) : status[u] # "none"
    /\ status' = [status EXCEPT ![t] = "running"]
    /\ call' = [call EXCEPT ![c] = [Idle EXCEPT !.pc = "begin", !.turn = t]]
    /\ UNCHANGED <<ended, tools, request, granted, handles, cancel, crashes>>

(* ... whose setup may fail as any turn's.                                        *)
ContinueFails(c, t) ==
    /\ "start" \in SetupMayFail
    /\ call[c].pc = "continue"
    /\ status[t] = "none"
    /\ \A u \in 1..(t - 1) : status[u] # "none"
    /\ AppendError(t)
    /\ Leave(c)
    /\ UNCHANGED <<handles, cancel, crashes>>

------------------------------------------------------------------------------
(* CancelSessionTurn.                                                             *)

CancelLookup(k, t) ==
    /\ MayCancel
    /\ cancel[k].pc = "idle"
    /\ status[t] # "none"
    /\ cancel' = [cancel EXCEPT ![k] =
                    [pc |-> IF handles[t] = NoCall THEN "snapshot" ELSE "signal",
                     turn |-> t, target |-> handles[t]]]
    /\ UNCHANGED <<logVars, handles, call, crashes>>

(* requestCancel, after the registry's lock was released.                         *)
CancelSignal(k) ==
    /\ cancel[k].pc = "signal"
    /\ IF cancel[k].target = NoCall THEN UNCHANGED call
       ELSE call' = [call EXCEPT ![cancel[k].target].canceled = TRUE]
    /\ cancel' = [cancel EXCEPT ![k] = IdleCancel]
    /\ UNCHANGED <<logVars, handles, crashes>>

(* cancelPendingSessionTurn: a Snapshot, then the append.                         *)
CancelSnapshot(k) ==
    /\ cancel[k].pc = "snapshot"
    /\ cancel' = [cancel EXCEPT ![k] =
                    IF TurnHasPending(cancel[k].turn) THEN [@ EXCEPT !.pc = "append"] ELSE IdleCancel]
    /\ UNCHANGED <<logVars, handles, call, crashes>>

CancelAppend(k) ==
    /\ cancel[k].pc = "append"
    /\ AppendCanceled(cancel[k].turn)
    /\ cancel' = [cancel EXCEPT ![k] = IdleCancel]
    /\ UNCHANGED <<handles, call, crashes>>

(* The process dies; the registry and every call die with it, the log does not.   *)
Crash ==
    /\ crashes < MaxCrashes
    /\ crashes' = crashes + 1
    /\ handles' = [t \in Turns |-> NoCall]
    /\ call' = [c \in Calls |-> Idle]
    /\ cancel' = [k \in Cancellers |-> IdleCancel]
    /\ UNCHANGED logVars

------------------------------------------------------------------------------

CallStep(c) ==
    \/ SetupFails(c) \/ CheckPending(c) \/ AppendDecision(c) \/ StopTurn(c)
    \/ Begin(c) \/ Replay(c) \/ DenyTool(c) \/ AskApproval(c) \/ RunTool(c) \/ EndTool(c)
    \/ \E n \in 0..MaxStages, cut \in BOOLEAN : DeclareTool(c, n, cut)
    \/ AskQuestion(c) \/ Retry(c) \/ TurnDone(c) \/ TurnFail(c) \/ TurnRoll(c)
    \/ CtxCanceled(c) \/ ReturnResult(c) \/ CanceledResult(c) \/ Finish(c)
    \/ \E t \in Turns : ContinueRolled(c, t) \/ ContinueFails(c, t)

CancelStep(k) == CancelSignal(k) \/ CancelSnapshot(k) \/ CancelAppend(k)

Next ==
    \/ \E c \in Calls, t \in Turns : StartTurn(c, t)
    \/ \E t \in Turns : StartTurnFails(t)
    \/ \E c \in Calls, r \in Requests, d \in {"approved", "denied"} : Resolve(c, r, d)
    \/ \E c \in Calls : CallStep(c)
    \/ \E k \in Cancellers, t \in Turns : CancelLookup(k, t)
    \/ \E k \in Cancellers : CancelStep(k)
    \/ Crash

Spec == Init /\ [][Next]_vars

(* Goroutines are scheduled, and a canceled context makes the provider stream,    *)
(* the tool and every append return. Clients promise nothing.                     *)
FairSpec ==
    /\ Spec
    /\ \A c \in Calls : WF_vars(CtxCanceled(c)) /\ WF_vars(ReturnResult(c))
                        /\ WF_vars(CanceledResult(c)) /\ WF_vars(Finish(c))

------------------------------------------------------------------------------
(* Properties.                                                                    *)

ToolCalls == [need : 0..MaxStages, ended : BOOLEAN, ran : Nat, cut : BOOLEAN]
Verdicts == {"none", "pending", "approved", "denied", "withdrawn"}
CallRecords ==
    [pc : {"idle", "check", "append", "stop", "begin", "returned", "canceling", "finish",
           "continue"} \cup RunnerPcs,
     turn : 0..MaxTurns, req : Requests \cup {NoRequest},
     decision : {"none", "approved", "denied"}, tool : 0..MaxTools,
     result : {"none", "error", "pending", "done", "failed", "rolled", "canceled"},
     canceled : BOOLEAN]
CancelRecords ==
    [pc : {"idle", "signal", "snapshot", "append"}, turn : 0..MaxTurns,
     target : Calls \cup {NoCall}]

(* Type invariant: the log, then what lives in the process.                       *)
LogTypeOK ==
    /\ status \in [Turns -> Statuses]
    /\ ended \in [Turns -> BOOLEAN]
    /\ tools \in [Turns -> Seq(ToolCalls)]
    /\ \A t \in Turns : Len(tools[t]) <= MaxTools
    /\ request \in [Requests -> Verdicts]
    /\ granted \subseteq Requests
ProcessTypeOK ==
    /\ handles \in [Turns -> Calls \cup {NoCall}]
    /\ call \in [Calls -> CallRecords]
    /\ cancel \in [Cancellers -> CancelRecords]
    /\ crashes \in 0..MaxCrashes
TypeOK == LogTypeOK /\ ProcessTypeOK

Working(c) == call[c].pc \in RunnerPcs \cup {"returned", "canceling", "finish"}

(* Two calls never run the same turn: between beginCancelableTurnContext and      *)
(* finishTurn a turn's conversation has one writer, however its requests are      *)
(* answered.                                                                      *)
OneRunnerPerTurn ==
    \A c, d \in Calls : (Working(c) /\ Working(d) /\ call[c].turn = call[d].turn) => c = d

(* From registration to finishTurn a call's own handle is the registered one, so  *)
(* CancelSessionTurn always finds the call that works on the turn.                *)
RunnerIsRegistered ==
    \A c \in Calls : Working(c) => call[c].turn \in Turns /\ handles[call[c].turn] = c

(* What a call knows at each point: the turn it is about, and the request it      *)
(* answers until its replay.                                                      *)
CallShape ==
    \A c \in Calls :
        /\ Active(c) => call[c].turn \in Turns
        /\ call[c].pc \in {"check", "append", "stop", "replay"} => call[c].req \in Requests
        /\ call[c].pc \in {"check", "append"} => call[c].decision # "none"

(* The inductive invariant.                                                       *)
IndInv == TypeOK /\ CallShape /\ RunnerIsRegistered

(* A tool call's side effect happens at most once: neither a second answer to its *)
(* request, nor a cancellation, nor a crash makes a resumed turn run it again.    *)
ToolRunsAtMostOnce ==
    \A t \in Turns : \A k \in 1..Len(tools[t]) : tools[t][k].ran <= 1

(* Why it holds.  A call that answers a tool's request, from its check of the     *)
(* request to its replay, is about that request's turn and a declared tool.       *)
Answers(c, t, k) ==
    /\ call[c].pc \in {"append", "begin", "replay"}
    /\ TurnOf(call[c].req) = t /\ ToolOf(call[c].req) = k
AnswersItsTurn ==
    \A c \in Calls : call[c].req \in Requests =>
        /\ call[c].pc \in {"check", "append", "begin", "replay"} => call[c].turn = TurnOf(call[c].req)
        /\ \A k \in 1..MaxTools :
              Answers(c, call[c].turn, k) => k \in 1..Len(tools[call[c].turn])

(* An open request is about an approval the tool lacks; a tool that ran lacks     *)
(* none, so nobody can be asked about it again.                                   *)
PendingIsMissing ==
    \A t \in Turns : \A k \in 1..MaxTools, s \in 1..MaxStages :
        request[<<t, k, s>>] = "pending" => k \in 1..Len(tools[t]) /\ s \in MissingStages(t, k)
RanIsGranted ==
    \A t \in Turns : \A k \in 1..Len(tools[t]) : tools[t][k].ran > 0 => MissingStages(t, k) = {}

(* A call about to run a tool is the first to do so.                              *)
ToolIsFresh ==
    \A c \in Calls : call[c].pc \in {"tool", "denied", "ran"} =>
        /\ call[c].tool \in 1..Len(tools[call[c].turn])
        /\ call[c].pc = "tool" => tools[call[c].turn][call[c].tool].ran = 0

(* A tool that ran and whose end is not in the log of a live turn: its runner is  *)
(* about to append the end, or the turn's, or nobody is answering its request.    *)
Concludes(c, t, k) ==
    /\ call[c].turn = t
    /\ \/ call[c].pc = "ran" /\ call[c].tool = k
       \/ call[c].pc \in {"returned", "canceling"} /\ call[c].canceled
EffectIsOwned ==
    \A t \in Turns : \A k \in 1..Len(tools[t]) :
        (tools[t][k].ran > 0 /\ ~tools[t][k].ended /\ ~ended[t])
            => (\E c \in Calls : Concludes(c, t, k)) \/ (\A c \in Calls : ~Answers(c, t, k))

RunInv ==
    /\ AnswersItsTurn /\ PendingIsMissing /\ RanIsGranted
    /\ ToolIsFresh /\ EffectIsOwned /\ ToolRunsAtMostOnce

(* A request that waits for the user belongs to a turn that can go on when it is  *)
(* answered; or the stream that led to it broke, and the turn failed or rolled    *)
(* over at once.  Neither a canceled turn nor a loop question is left so.         *)
Stranded(r) ==
    /\ ~IsQuestion(r) /\ tools[TurnOf(r)][ToolOf(r)].cut
    /\ status[TurnOf(r)] \in {"failed", "completed"}
PendingBelongsToLiveTurn ==
    \A r \in Requests : request[r] = "pending" =>
        \/ status[TurnOf(r)] = "running" /\ ~ended[TurnOf(r)]
        \/ Stranded(r)

(* A turn that runs while no call is in flight waits for its user: something the  *)
(* client can answer or cancel.                                                   *)
NoOrphanedTurn ==
    NothingInFlight => \A t \in Turns : status[t] = "running" => PendingOf(t) # {}

(* A turn the log calls canceled stays canceled.                                  *)
CanceledIsFinal == [][\A t \in Turns : status[t] = "canceled" => status'[t] = "canceled"]_vars

(* A cancellation that reaches the handle while the runner works ends the turn as *)
(* canceled, whatever the runner's own result is, unless the process dies.         *)
CancelHonoured ==
    \A t \in Turns :
        (/\ crashes = MaxCrashes
         /\ \E c \in Calls : call[c].turn = t /\ call[c].pc \in RunnerPcs /\ call[c].canceled)
            ~> status[t] = "canceled"
====
