---- MODULE ProviderRequest ----
(* One step of a turn: a provider request, its attempts, and the tool calls the   *)
(* stream asks for: internal/app/turn_runner_step*.go, turn_runner_scheduler.go,  *)
(* turn_runner_provider_retry.go.                                                 *)
(*                                                                                *)
(* The runner keeps the conversation for the next request in memory and appends   *)
(* to the log what it will need to rebuild it; a retry puts the conversation back *)
(* but can take nothing out of the log. Calls are collected into a batch, which   *)
(* runs when the stream ends; reads that touch no path run in parallel.           *)
EXTENDS Naturals, Sequences, FiniteSets, SequencesExt, EventSelection

CONSTANTS
    ReqKinds,          \* kinds of tool call the model makes
    ReqMaxCalls,       \* bound on the tool calls
    ReqMaxDeltas,      \* bound on the other stream events
    ReqRetries,        \* configured retries
    ReqContinuations   \* configured continuations of an answer cut at its length

(* query: a read without paths (git_status); read: a read whose path may need an  *)
(* approval; plain: runs alone; write: a workspace mutation; question: blocks.    *)
ASSUME ReqAssumption ==
    /\ ReqKinds \subseteq {"query", "read", "plain", "write", "question"}
    /\ {ReqMaxCalls, ReqMaxDeltas, ReqRetries, ReqContinuations} \subseteq Nat

VARIABLES
    reqPc,      \* open, stream, run, commit, apply, decide, returned
    reqTry,     \* what the attempt knows of its own stream
    reqRun,     \* the batch being run: calls, results in order, buffered executions,
                \* how many of those were appended
    reqConv,    \* the conversation: current, committed by the attempt, at its start
    reqCount,   \* attempts, continuations, calls and deltas so far
    reqEnd,     \* how the attempt ended: outcome and error
    reqLog      \* durable events

reqVars == <<reqPc, reqTry, reqRun, reqConv, reqCount, reqEnd, reqLog>>

Logged(kind, call) == [kind |-> kind, call |-> call]
NewTry == [started |-> TRUE, batch |-> <<>>, toolCalls |-> FALSE, segment |-> FALSE,
           tokens |-> FALSE, durable |-> FALSE, executed |-> 0, broken |-> FALSE]
NoRun == [calls |-> <<>>, results |-> <<>>, buffered |-> <<>>, committed |-> 0, err |-> "none"]
NoEnd == [outcome |-> "none", err |-> "none"]

ReqInit ==
    /\ reqPc = "open" /\ reqTry = NewTry /\ reqRun = NoRun /\ reqEnd = NoEnd
    /\ reqConv = [now |-> <<>>, committed |-> <<>>, initial |-> <<>>]
    /\ reqCount = [attempt |-> 1, continued |-> 0, calls |-> 0, deltas |-> 0]
    /\ reqLog = <<>>

------------------------------------------------------------------------------
(* Scheduling capabilities.                                                       *)

(* A boundary ends the step: what the model asked for after it is not run.        *)
IsBoundary(kind) == kind \in {"write", "question"}
IsParallelRead(kind) == kind \in {"query", "read"}
CanJoinPrefix(calls) == \A i \in DOMAIN calls : ~IsBoundary(calls[i].kind)

(* Tools that ask for paths, targets or executions append to the log themselves.  *)
RunsInParallel(calls) == Len(calls) >= 2 /\ \A i \in DOMAIN calls : calls[i].kind = "query"

(* The prefix of a batch up to and including its first boundary.                  *)
Scheduled(batch) ==
    LET boundaries == {i \in DOMAIN batch : IsBoundary(batch[i].kind)}
    IN IF boundaries = {} THEN batch
       ELSE SubSeq(batch, 1, CHOOSE i \in boundaries : \A j \in boundaries : i <= j)

(* Mutant: the whole batch runs once the stream broke.                            *)
InterruptedAll(batch) == batch

(* Only leading reads are run once the stream broke.                              *)
InterruptedSafe(batch) ==
    LET others == {i \in DOMAIN batch : ~IsParallelRead(batch[i].kind)}
    IN IF others = {} THEN batch
       ELSE SubSeq(batch, 1, (CHOOSE i \in others : \A j \in others : i <= j) - 1)

------------------------------------------------------------------------------
(* The conversation.                                                              *)

(* Text that follows text is added to it.                                         *)
AddInput(conv, input) ==
    IF input.kind = "text" /\ conv # <<>> /\ Last(conv).kind = "text" THEN conv
    ELSE Append(conv, input)

AddCall(conv, call, answered) ==
    conv \o <<Logged("call", call.id)>> \o IF answered THEN <<Logged("result", call.id)>> ELSE <<>>

(* The results of a batch's calls, in order; one that failed the turn is left out. *)
AddResults(conv, calls, results) ==
    LET part[i \in 0 .. Len(results)] ==
            IF i = 0 THEN conv
            ELSE IF results[i] = "turnfail" THEN part[i - 1]
            ELSE AddCall(part[i - 1], calls[i], results[i] = "done")
    IN part[Len(results)]

(* The calls of a batch are put before their results.                             *)
NormalizeToolCallBatch(conv, calls) ==
    LET own == {calls[i].id : i \in DOMAIN calls}
        OfBatch(e) == e.kind \in {"call", "result"} /\ e.call \in own
        Part(kind) == Select(conv, {Logged(kind, id) : id \in own})
        first == {i \in DOMAIN conv : OfBatch(conv[i])}
    IN IF Len(calls) < 2 \/ first = {} THEN conv
       ELSE SubSeq(conv, 1, (CHOOSE i \in first : \A j \in first : i <= j) - 1)
              \o Part("call") \o Part("result")

(* CommitAssistant: the text becomes durable and part of the conversation.        *)
CommitAssistant ==
    IF reqTry.segment
    THEN /\ reqLog' = Append(reqLog, Logged("text", 0))
         /\ reqConv' = LET conv == AddInput(reqConv.now, Logged("text", 0))
                       IN [reqConv EXCEPT !.now = conv, !.committed = conv]
         /\ reqTry' = [reqTry EXCEPT !.segment = FALSE, !.durable = TRUE]
    ELSE UNCHANGED <<reqLog, reqConv, reqTry>>

------------------------------------------------------------------------------
(* The stream of an attempt.                                                      *)

EndAttempt(outcome, err) == reqPc' = "decide" /\ reqEnd' = [outcome |-> outcome, err |-> err]

(* The provider is asked again from the conversation of the attempt's start.      *)
OpenStream ==
    /\ reqPc = "open"
    /\ reqConv' = [reqConv EXCEPT !.now = reqConv.initial, !.committed = reqConv.initial]
    /\ \/ reqPc' = "stream" /\ reqTry' = NewTry /\ UNCHANGED reqEnd
       \/ \E err \in {"retryable", "fatal"}, started \in BOOLEAN :
             EndAttempt("none", err) /\ reqTry' = [NewTry EXCEPT !.started = started]
    /\ UNCHANGED <<reqRun, reqCount, reqLog>>

Streaming == reqPc = "stream"
Delta ==
    /\ Streaming /\ reqCount.deltas < ReqMaxDeltas
    /\ reqCount' = [reqCount EXCEPT !.deltas = @ + 1]
    /\ UNCHANGED <<reqPc, reqRun, reqEnd>>

(* Text after the first tool call is dropped.                                     *)
AssistantDelta ==
    /\ Delta
    /\ reqTry' = [reqTry EXCEPT !.tokens = TRUE, !.segment = @ \/ ~reqTry.toolCalls]
    /\ UNCHANGED <<reqConv, reqLog>>

(* Reasoning is durable at once, until a call was collected.                      *)
ReasoningDelta ==
    /\ Delta
    /\ IF reqTry.batch = <<>>
       THEN /\ reqTry' = [reqTry EXCEPT !.tokens = TRUE, !.durable = TRUE]
            /\ reqLog' = Append(reqLog, Logged("thought", 0))
       ELSE reqTry' = [reqTry EXCEPT !.tokens = TRUE] /\ UNCHANGED reqLog
    /\ UNCHANGED reqConv

(* A reasoning item the next request has to send back; it counts no tokens.       *)
ReasoningCommitted ==
    /\ Delta /\ reqTry.batch = <<>>
    /\ reqLog' = Append(reqLog, Logged("reasoning", 0))
    /\ reqConv' = LET conv == AddInput(reqConv.now, Logged("reasoning", 0))
                  IN [reqConv EXCEPT !.now = conv, !.committed = conv]
    /\ reqTry' = [reqTry EXCEPT !.durable = TRUE]

(* The first sign of a tool call turns text so far into a work log entry.         *)
StartToolStep(try, kind) ==
    IF ~try.toolCalls /\ kind # "question" /\ try.segment
    THEN [try EXCEPT !.toolCalls = TRUE, !.durable = TRUE, !.segment = FALSE]
    ELSE [try EXCEPT !.toolCalls = TRUE]
WorklogOf(try) == IF try.segment THEN <<Logged("worklog", 0)>> ELSE <<>>

ToolCallDelta ==
    /\ Delta
    /\ \E kind \in ReqKinds :
          /\ reqTry' = StartToolStep(reqTry, kind)
          /\ reqLog' = IF reqTry'.segment = reqTry.segment THEN reqLog ELSE reqLog \o WorklogOf(reqTry)
    /\ UNCHANGED reqConv

(* Declaring comes before running; the batch's calls are then run.                *)
RunBatch(batch, log, try, err) ==
    LET calls == Scheduled(batch)
    IN /\ reqPc' = "run"
       /\ reqRun' = [NoRun EXCEPT !.calls = calls, !.err = err,
                                  !.buffered = [i \in DOMAIN calls |-> "none"]]
       /\ reqLog' = log \o [i \in DOMAIN calls |-> Logged("declared", calls[i].id)]
       /\ reqTry' = try
       /\ reqConv' = [reqConv EXCEPT !.committed = reqConv.now]
       /\ UNCHANGED reqEnd

(* A finished call joins the batch, unless the batch has a boundary or the model  *)
(* repeats a call id: then what was collected runs and the rest is dropped. Text  *)
(* before a question is kept as a work log entry (question_preview).              *)
ToolCallDone ==
    /\ Streaming /\ reqCount.calls < ReqMaxCalls
    /\ reqCount' = [reqCount EXCEPT !.calls = @ + 1]
    /\ \E kind \in ReqKinds, repeated \in BOOLEAN :
          LET stepped == StartToolStep(reqTry, kind)
              try == [stepped EXCEPT !.segment = @ /\ kind # "question",
                                     !.durable = @ \/ (stepped.segment /\ kind = "question")]
              log == IF try.segment = reqTry.segment THEN reqLog ELSE reqLog \o WorklogOf(reqTry)
              id == IF repeated THEN Last(reqTry.batch).id ELSE reqCount'.calls
              accepted == CanJoinPrefix(reqTry.batch) /\ \A i \in DOMAIN reqTry.batch : reqTry.batch[i].id # id
          IN /\ repeated => reqTry.batch # <<>>
             /\ IF accepted
                THEN /\ reqTry' = [try EXCEPT !.batch = Append(@, [id |-> id, kind |-> kind]),
                                              !.tokens = TRUE]
                     /\ reqLog' = log
                     /\ UNCHANGED <<reqPc, reqRun, reqConv, reqEnd>>
                ELSE RunBatch(reqTry.batch, log, try, "none")

(* The stream's end runs the batch, or commits the answer.                        *)
StreamEof ==
    /\ Streaming /\ UNCHANGED reqCount
    /\ \/ reqTry.batch # <<>> /\ RunBatch(reqTry.batch, reqLog, reqTry, "none")
       \/ /\ reqTry.batch = <<>>
          /\ CommitAssistant /\ EndAttempt("assistant_done", "none") /\ UNCHANGED reqRun

(* A broken stream still runs the reads the batch begins with.                    *)
StreamBreaks ==
    /\ Streaming /\ UNCHANGED reqCount
    /\ \E err \in {"retryable", "fatal", "input_limit"} :
          LET safe == InterruptedSafe(reqTry.batch)
          IN IF safe # <<>>
             THEN RunBatch(safe, reqLog, [reqTry EXCEPT !.broken = TRUE], err)
             ELSE /\ EndAttempt("none", err) /\ reqTry' = [reqTry EXCEPT !.broken = TRUE]
                  /\ UNCHANGED <<reqRun, reqConv, reqLog>>

------------------------------------------------------------------------------
(* Running a batch.                                                               *)

Outcomes(kind) ==
    {"done", "retryable", "fatal"} \cup
    (IF kind = "query" THEN {} ELSE {"pending"}) \cup
    (IF kind = "question" THEN {"turnfail"} ELSE {})
IsError(outcome) == outcome \in {"retryable", "fatal"}
Stops(outcome) == outcome \in {"pending", "turnfail"}

(* What a run leaves in the log; an error may come before or after it.            *)
ExecEvents(call, outcome) ==
    CASE outcome \in {"done", "turnfail"} -> <<Logged("end", call.id)>>
      [] outcome = "pending" -> <<Logged("asked", call.id)>>
      [] OTHER -> <<>>

(* One after the other, until one errs, waits for the user or fails the turn.     *)
RunNextCall ==
    LET done == Len(reqRun.results)
    IN /\ reqPc = "run" /\ ~RunsInParallel(reqRun.calls) /\ done < Len(reqRun.calls)
       /\ \E outcome \in Outcomes(reqRun.calls[done + 1].kind) :
             /\ reqLog' = reqLog \o ExecEvents(reqRun.calls[done + 1], outcome)
             /\ IF IsError(outcome)
                THEN reqPc' = "apply" /\ reqRun' = [reqRun EXCEPT !.err = outcome, !.buffered = <<"err">>]
                ELSE /\ reqRun' = [reqRun EXCEPT !.results = Append(@, outcome)]
                     /\ reqPc' = IF Stops(outcome) \/ done + 1 = Len(reqRun.calls) THEN "apply" ELSE "run"
       /\ UNCHANGED <<reqTry, reqConv, reqCount, reqEnd>>

(* All at once; what each would append is kept until all have finished.           *)
RunParallelCall(i) ==
    /\ reqPc = "run" /\ RunsInParallel(reqRun.calls) /\ reqRun.buffered[i] = "none"
    /\ \E outcome \in Outcomes(reqRun.calls[i].kind) : reqRun' = [reqRun EXCEPT !.buffered[i] = outcome]
    /\ reqPc' = IF \A j \in DOMAIN reqRun.calls : reqRun'.buffered[j] # "none" THEN "commit" ELSE "run"
    /\ UNCHANGED <<reqTry, reqConv, reqCount, reqEnd, reqLog>>

(* The buffered executions are appended in the order of the calls, whichever      *)
(* finished first; an append may fail on the way.                                 *)
CommitBuffered ==
    LET next == reqRun.committed + 1
    IN /\ reqPc = "commit" /\ next \in DOMAIN reqRun.calls
       /\ \/ /\ reqLog' = reqLog \o ExecEvents(reqRun.calls[next], reqRun.buffered[next])
             /\ reqRun' = [reqRun EXCEPT !.committed = next]
             /\ UNCHANGED reqPc
          \/ /\ reqRun' = [reqRun EXCEPT !.err = "fatal", !.buffered = <<"err">>]
             /\ reqPc' = "apply" /\ UNCHANGED reqLog
       /\ UNCHANGED <<reqTry, reqConv, reqCount, reqEnd>>

(* The results of a parallel run are those before its first error.                *)
CollectResults ==
    LET n == Len(reqRun.calls)
        errors == {i \in 1 .. n : IsError(reqRun.buffered[i])}
        good == IF errors = {} THEN n ELSE (CHOOSE i \in errors : \A j \in errors : i <= j) - 1
    IN /\ reqPc = "commit" /\ reqRun.committed = n
       /\ reqRun' = [reqRun EXCEPT !.results = SubSeq(reqRun.buffered, 1, good),
                                   !.err = IF good < n THEN reqRun.buffered[good + 1] ELSE @,
                                   !.buffered = IF good < n THEN <<"err">> ELSE <<>>]
       /\ reqPc' = "apply"
       /\ UNCHANGED <<reqTry, reqConv, reqCount, reqEnd, reqLog>>

(* Results enter the conversation in order. A run that waits or fails the turn    *)
(* ends the loop early, its outcome without counts; an execution error leaves the *)
(* attempt without a result.                                                      *)
ApplyResults ==
    LET calls == reqRun.calls
        results == reqRun.results
        stop == {i \in DOMAIN results : Stops(results[i])}
        all == AddResults(reqConv.now, calls, results)
        conv == IF stop = {} THEN NormalizeToolCallBatch(all, calls) ELSE all
        failed == reqRun.buffered = <<"err">>
    IN /\ reqPc = "apply"
       /\ reqConv' = [reqConv EXCEPT !.now = conv, !.committed = conv]
       /\ reqTry' = [reqTry EXCEPT !.durable = @ \/ results # <<>>,
                                   !.executed = IF stop = {} /\ ~failed THEN Len(results) ELSE 0]
       /\ reqLog' = IF stop # {} /\ Last(results) = "turnfail"
                    THEN Append(reqLog, Logged("failed", 0)) ELSE reqLog
       /\ EndAttempt(CASE failed -> "none"
                       [] ~failed /\ stop = {} -> "tool_result"
                       [] OTHER -> IF Last(results) = "pending" THEN "pending" ELSE "failed",
                     reqRun.err)
       /\ UNCHANGED <<reqRun, reqCount>>

------------------------------------------------------------------------------
(* After an attempt.                                                              *)

Return(outcome) == reqPc' = "returned" /\ reqEnd' = [reqEnd EXCEPT !.outcome = outcome]

(* Mutants: durable progress, or the number of attempts, does not forbid a retry. *)
MayRetryAfterProgress ==
    /\ reqEnd.err = "retryable"
    /\ reqTry.started => ~reqTry.tokens /\ ~reqTry.toolCalls /\ reqTry.executed = 0
    /\ reqCount.attempt <= ReqRetries
MayRetryForever ==
    /\ reqEnd.err = "retryable"
    /\ reqTry.started =>
          /\ ~reqTry.durable /\ ~reqTry.tokens /\ ~reqTry.toolCalls /\ reqTry.executed = 0
    /\ reqCount.attempt <= ReqRetries + ReqContinuations + 1

(* providerRetryDecision: never once the stream left anything behind.             *)
MayRetry ==
    /\ reqEnd.err = "retryable"
    /\ reqTry.started =>
          /\ ~reqTry.durable /\ ~reqTry.tokens /\ ~reqTry.toolCalls /\ reqTry.executed = 0
    /\ reqCount.attempt <= ReqRetries

ShouldContinueOutput(length) ==
    /\ length /\ reqCount.continued < ReqContinuations
    /\ reqEnd.outcome = "assistant_done" /\ reqTry.batch = <<>>

Again == reqPc' = "open" /\ reqEnd' = NoEnd /\ reqTry' = NewTry /\ reqRun' = NoRun

(* An answer cut at its length goes on in another attempt, from its own text.     *)
ReturnStep ==
    /\ reqPc = "decide" /\ reqEnd.err = "none" /\ UNCHANGED reqLog
    /\ \E length \in BOOLEAN :
          IF ShouldContinueOutput(length)
          THEN /\ Again /\ reqConv' = [reqConv EXCEPT !.initial = reqConv.committed]
               /\ reqCount' = [reqCount EXCEPT !.attempt = @ + 1, !.continued = @ + 1]
          ELSE Return(reqEnd.outcome) /\ UNCHANGED <<reqConv, reqTry, reqRun, reqCount>>

(* A broken attempt whose reads ran returns them, so the next request goes on.    *)
KeepsResult == reqEnd.err = "retryable" /\ reqTry.durable /\ reqTry.executed > 0

HandleError ==
    /\ reqPc = "decide" /\ reqEnd.err # "none"
    /\ \/ /\ reqEnd.err = "input_limit"
          /\ Return("rollover") /\ UNCHANGED <<reqTry, reqRun, reqCount, reqLog>>
          /\ reqConv' = [reqConv EXCEPT !.now = reqConv.committed]
       \/ /\ KeepsResult
          /\ Return(reqEnd.outcome) /\ UNCHANGED <<reqTry, reqRun, reqCount>>
          /\ reqLog' = Append(reqLog, Logged("retry_scheduled", 0))
          /\ reqConv' = [reqConv EXCEPT !.now = reqConv.committed]
       \/ /\ ~KeepsResult /\ MayRetry
          /\ Again /\ reqCount' = [reqCount EXCEPT !.attempt = @ + 1]
          /\ reqLog' = Append(reqLog, Logged("retry_scheduled", 0))
          /\ UNCHANGED reqConv
       \/ /\ reqEnd.err # "input_limit" /\ ~KeepsResult /\ ~MayRetry
          /\ Return("failed") /\ UNCHANGED <<reqTry, reqRun, reqCount>>
          /\ reqLog' = Append(reqLog, Logged("failed", 0))
          /\ reqConv' = [reqConv EXCEPT !.now = reqConv.committed]

ReqNext ==
    \/ OpenStream \/ AssistantDelta \/ ReasoningDelta \/ ReasoningCommitted \/ ToolCallDelta
    \/ ToolCallDone \/ StreamEof \/ StreamBreaks
    \/ RunNextCall \/ (\E i \in 1 .. ReqMaxCalls : i \in DOMAIN reqRun.calls /\ RunParallelCall(i))
    \/ CommitBuffered \/ CollectResults \/ ApplyResults
    \/ ReturnStep \/ HandleError

ReqSpec == ReqInit /\ [][ReqNext]_reqVars

------------------------------------------------------------------------------
(* Properties.                                                                    *)

(* Everything the request keeps has its type.                                     *)
ReqTypeOK ==
    /\ reqPc \in {"open", "stream", "run", "commit", "apply", "decide", "returned"}
    /\ reqTry.batch \in Seq([id : 1 .. ReqMaxCalls, kind : ReqKinds])
    /\ reqCount.attempt \in 1 .. (1 + ReqRetries + ReqContinuations)
    /\ reqTry.executed <= Len(reqTry.batch)

(* Whenever another request is built from the conversation, in the next attempt   *)
(* or by the turn's next step, it holds exactly what the log would rebuild: the   *)
(* reasoning, the answers and the tool results, in the log's order. A retry has   *)
(* left nothing behind, and parallel calls come out in the order they were asked. *)
FactKinds == {"reasoning", "text", "end", "result"}
AddFact(facts, e) ==
    IF e.kind \notin FactKinds THEN facts
    ELSE AddInput(facts, IF e.kind = "end" THEN Logged("result", e.call) ELSE e)
Facts(events) == FoldLeft(AddFact, <<>>, events)
ReqConversationIsLog ==
    \/ reqPc = "open"
    \/ reqPc = "returned" /\ reqEnd.outcome \in {"tool_result", "assistant_done"}
    => Facts(IF reqPc = "open" THEN reqConv.initial ELSE reqConv.now) = Facts(reqLog)

(* Once a stream broke, the model's request was perhaps not complete: nothing but *)
(* reads has run for it.                                                          *)
CallsRun(try) ==
    {c \in {try.batch[i] : i \in DOMAIN try.batch} :
        \E e \in {reqLog[i] : i \in DOMAIN reqLog} : e.kind \in {"end", "asked"} /\ e.call = c.id}
ReqBrokenStreamOnlyReads ==
    reqTry.broken => \A c \in CallsRun(reqTry) : c.kind \in {"query", "read"}
====
