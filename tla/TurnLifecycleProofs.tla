------------------------ MODULE TurnLifecycleProofs ------------------------
(***************************************************************************)
(* Theorems about TurnLifecycle for any number of calls, cancellers,       *)
(* turns, tools, approvals and crashes.  Whatever the clients overlap, a   *)
(* turn has one runner, and a tool call has its side effect once.  When    *)
(* they do not, a turn that runs waits for its user or has a call, and     *)
(* only such a turn has anything to wait for.                              *)
(***************************************************************************)
EXTENDS TurnLifecycle, SequenceTheorems, TLAPS

-----------------------------------------------------------------------------
(* Requests and sequences.                                                  *)

(* What a request is about.                                                 *)
LEMMA RequestParts ==
  ASSUME NEW r \in Requests
  PROVE  TurnOf(r) \in Turns /\ ToolOf(r) \in 0..MaxTools
BY TurnAssumption DEF Requests, TurnOf, ToolOf, Turns

(* Changing an element, or what is no element, keeps a sequence a sequence   *)
(* of the same length.                                                      *)
LEMMA SeqUpdate ==
  ASSUME NEW S, NEW s \in Seq(S), NEW k, NEW v, k \in 1..Len(s) => v \in S
  PROVE  [s EXCEPT ![k] = v] \in Seq(S) /\ Len([s EXCEPT ![k] = v]) = Len(s)
<1>1. CASE k \in 1..Len(s)
  BY <1>1, ExceptSeq
<1>2. CASE k \notin 1..Len(s)
  <2>1. s \in [1..Len(s) -> S]
    BY LenProperties
  <2>2. [s EXCEPT ![k] = v] = s
    BY <1>2, <2>1
  <2> QED
    BY <2>2
<1> QED
  BY <1>1, <1>2

-----------------------------------------------------------------------------
(* The log stays well-typed.                                                *)

(* Each of the appends keeps the log well-typed.                            *)
LEMMA EndTurnTyped ==
  ASSUME LogTypeOK, NEW t, NEW s \in Statuses, EndTurn(t, s)
  PROVE  /\ status' \in [Turns -> Statuses]
         /\ ended' \in [Turns -> BOOLEAN]
         /\ UNCHANGED <<tools, granted>>
BY DEF LogTypeOK, EndTurn

LEMMA AppendDoneTyped ==
  ASSUME LogTypeOK, NEW t, AppendDone(t) PROVE LogTypeOK'
<1>1. "completed" \in Statuses
  BY DEF Statuses
<1> QED
  BY <1>1, EndTurnTyped DEF LogTypeOK, AppendDone

LEMMA AppendErrorTyped ==
  ASSUME LogTypeOK, NEW t, AppendError(t) PROVE LogTypeOK'
<1>1. "failed" \in Statuses
  BY DEF Statuses
<1> QED
  BY <1>1, EndTurnTyped DEF LogTypeOK, AppendError

LEMMA AppendCanceledTyped ==
  ASSUME LogTypeOK, NEW t, AppendCanceled(t) PROVE LogTypeOK'
<1>1. "canceled" \in Statuses /\ "withdrawn" \in Verdicts
  BY DEF Statuses, Verdicts
<1>2. request' \in [Requests -> Verdicts]
  BY <1>1 DEF LogTypeOK, AppendCanceled
<1> QED
  BY <1>1, <1>2, EndTurnTyped DEF LogTypeOK, AppendCanceled

LEMMA AskTyped ==
  ASSUME LogTypeOK, NEW r, Ask(r) PROVE LogTypeOK'
BY DEF LogTypeOK, Ask, Verdicts

LEMMA EndToolCallTyped ==
  ASSUME LogTypeOK, NEW t, NEW k, EndToolCall(t, k) PROVE LogTypeOK'
<1> DEFINE v == [tools[t][k] EXCEPT !.ended = TRUE]
<1> DEFINE u == [tools[t] EXCEPT ![k] = v]
<1>1. tools' = [tools EXCEPT ![t] = u]
  BY DEF EndToolCall
<1>2. ASSUME t \in Turns PROVE u \in Seq(ToolCalls) /\ Len(u) = Len(tools[t])
  <2>1. tools[t] \in Seq(ToolCalls)
    BY <1>2 DEF LogTypeOK
  <2>2. ASSUME k \in 1..Len(tools[t]) PROVE v \in ToolCalls
    <3>1. tools[t][k] \in ToolCalls
      BY <2>1, <2>2, ElementOfSeq
    <3> QED
      BY <3>1 DEF ToolCalls
  <2>3. u = [tools[t] EXCEPT ![k] = v]
    OBVIOUS
  <2>4. k \in 1..Len(tools[t]) => v \in ToolCalls
    BY <2>2
  <2> HIDE DEF v, u
  <2> QED
    BY <2>1, <2>3, <2>4, SeqUpdate, SMTT(30)
<1> HIDE DEF u
<1>3. tools' \in [Turns -> Seq(ToolCalls)] /\ \A x \in Turns : Len(tools'[x]) <= MaxTools
  BY <1>1, <1>2 DEF LogTypeOK
<1> QED
  BY <1>3 DEF LogTypeOK, EndToolCall

LEMMA RunToolTyped ==
  ASSUME LogTypeOK, NEW c \in Calls, RunTool(c) PROVE LogTypeOK'
<1> DEFINE t == call[c].turn
<1> DEFINE k == call[c].tool
<1> DEFINE v == [tools[t][k] EXCEPT !.ran = @ + 1]
<1> DEFINE u == [tools[t] EXCEPT ![k] = v]
<1>1. tools' = [tools EXCEPT ![t] = u] /\ UNCHANGED <<status, ended, request, granted>>
  BY DEF RunTool
<1>2. ASSUME t \in Turns PROVE u \in Seq(ToolCalls) /\ Len(u) = Len(tools[t])
  <2>1. tools[t] \in Seq(ToolCalls)
    BY <1>2, SMTT(60) DEF LogTypeOK
  <2>2. ASSUME k \in 1..Len(tools[t]) PROVE v \in ToolCalls
    <3>1. tools[t][k] \in ToolCalls
      BY <2>1, <2>2, ElementOfSeq
    <3> QED
      BY <3>1 DEF ToolCalls
  <2>3. u = [tools[t] EXCEPT ![k] = v]
    OBVIOUS
  <2> HIDE DEF v, k, t, u
  <2> QED
    BY <2>1, <2>2, <2>3, SeqUpdate
<1> HIDE DEF u, t
<1>3. tools' \in [Turns -> Seq(ToolCalls)] /\ \A x \in Turns : Len(tools'[x]) <= MaxTools
  BY <1>1, <1>2 DEF LogTypeOK
<1> QED
  BY <1>1, <1>3 DEF LogTypeOK

LEMMA DeclareToolTyped ==
  ASSUME LogTypeOK, NEW c \in Calls, NEW n \in 0..MaxStages, NEW x \in BOOLEAN,
         DeclareTool(c, n, x)
  PROVE  LogTypeOK'
<1> DEFINE t == call[c].turn
<1> DEFINE d == [need |-> n, ended |-> FALSE, ran |-> 0, cut |-> x]
<1>1. /\ tools' = [tools EXCEPT ![t] = Append(tools[t], d)]
      /\ Len(tools[t]) < MaxTools
      /\ UNCHANGED <<status, ended, request, granted>>
  BY DEF DeclareTool
<1>2. d \in ToolCalls
  BY DEF ToolCalls
<1>3. ASSUME t \in Turns
      PROVE  Append(tools[t], d) \in Seq(ToolCalls) /\ Len(Append(tools[t], d)) <= MaxTools
  <2>1. tools[t] \in Seq(ToolCalls) /\ Len(tools[t]) \in Nat
    BY <1>3, LenProperties DEF LogTypeOK
  <2> HIDE DEF d
  <2>2. Append(tools[t], d) \in Seq(ToolCalls) /\ Len(Append(tools[t], d)) = Len(tools[t]) + 1
    BY <1>2, <2>1, AppendProperties
  <2> QED
    BY <1>1, <2>1, <2>2, TurnAssumption
<1> HIDE DEF d, t
<1>4. tools' \in [Turns -> Seq(ToolCalls)] /\ \A u \in Turns : Len(tools'[u]) <= MaxTools
  BY <1>1, <1>3 DEF LogTypeOK
<1> QED
  BY <1>1, <1>4 DEF LogTypeOK

-----------------------------------------------------------------------------
(* Each step of a call keeps the inductive invariant.                       *)

(* The facts about one process's bookkeeping that the steps preserve.       *)
LEMMA ProcessFacts ==
  ASSUME IndInv, NEW c \in Calls
  PROVE  /\ call[c] \in CallRecords
         /\ Active(c) => call[c].turn \in Turns
         /\ Working(c) => handles[call[c].turn] = c
         /\ 0 \in 0..MaxTurns /\ 0 \in 0..MaxTools
         /\ Turns \subseteq 0..MaxTurns
BY TurnAssumption DEF IndInv, TypeOK, ProcessTypeOK, CallShape, RunnerIsRegistered, Turns

(* A step that only moves a call on, keeping its turn, keeps the invariant   *)
(* if the call worked before it works after, or gives up its turn.          *)
LEMMA Moved ==
  ASSUME IndInv, LogTypeOK', NEW c \in Calls, NEW r \in CallRecords,
         call' = [call EXCEPT ![c] = r],
         UNCHANGED <<handles, cancel, crashes>>,
         r.pc = "idle" \/ r.turn = call[c].turn,
         r.pc # "idle" => Active(c),
         r.pc \in RunnerPcs \cup {"returned", "canceling", "finish"} => Working(c),
         r.pc \in {"check", "append", "stop", "replay"} =>
            r.req = call[c].req /\ call[c].pc \in {"check", "append", "stop", "replay"},
         r.pc \in {"check", "append"} =>
            r.decision = call[c].decision /\ call[c].pc \in {"check", "append"}
  PROVE  IndInv'
<1>1. ProcessTypeOK'
  BY DEF IndInv, TypeOK, ProcessTypeOK
<1>2. CallShape'
  BY DEF IndInv, TypeOK, ProcessTypeOK, CallShape, Active
<1>3. RunnerIsRegistered'
  BY DEF IndInv, TypeOK, ProcessTypeOK, RunnerIsRegistered, Working, Active, RunnerPcs
<1> QED
  BY <1>1, <1>2, <1>3 DEF IndInv, TypeOK

(* An empty slot.                                                           *)
LEMMA IdleTyped == Idle \in CallRecords /\ Idle.pc = "idle" /\ Turns \subseteq 0..MaxTurns
BY TurnAssumption DEF Idle, CallRecords, Turns

(* Steps that move the program counter only.                                *)
LEMMA GotoKeeps ==
  ASSUME IndInv, LogTypeOK', NEW c \in Calls, NEW pc, Goto(c, pc),
         UNCHANGED <<handles, cancel, crashes>>,
         \/ pc = "append" /\ call[c].pc = "check"
         \/ pc \in {"stop", "begin"} /\ call[c].pc = "append"
         \/ pc \in RunnerPcs \ {"replay"} /\ call[c].pc \in RunnerPcs
         \/ pc \in {"canceling", "finish"} /\ call[c].pc \in {"returned", "canceling"}
  PROVE  IndInv'
<1> DEFINE r == [call[c] EXCEPT !.pc = pc]
<1>1. call' = [call EXCEPT ![c] = r]
  BY DEF Goto
<1>2. r \in CallRecords
  BY ProcessFacts DEF CallRecords, RunnerPcs
<1>3. r.pc = pc /\ r.turn = call[c].turn /\ r.req = call[c].req /\ r.decision = call[c].decision
  BY ProcessFacts DEF CallRecords
<1> HIDE DEF r
<1> QED
  BY <1>1, <1>2, <1>3, Moved DEF Active, Working, RunnerPcs

LEMMA LeaveKeeps ==
  ASSUME IndInv, LogTypeOK', NEW c \in Calls, Leave(c), UNCHANGED <<handles, cancel, crashes>>
  PROVE  IndInv'
<1>1. call' = [call EXCEPT ![c] = Idle]
  BY DEF Leave
<1> QED
  BY <1>1, IdleTyped, Moved DEF RunnerPcs

LEMMA ReturnedKeeps ==
  ASSUME IndInv, LogTypeOK', NEW c \in Calls, NEW result \in {"error", "pending", "done", "failed", "rolled"},
         Returned(c, result), call[c].pc \in RunnerPcs, UNCHANGED <<handles, cancel, crashes>>
  PROVE  IndInv'
<1> DEFINE r == [call[c] EXCEPT !.pc = "returned", !.result = result]
<1>1. call' = [call EXCEPT ![c] = r]
  BY DEF Returned
<1>2. r \in CallRecords
  BY ProcessFacts, ZenonT(60) DEF CallRecords
<1>3. r.pc = "returned" /\ r.turn = call[c].turn
  BY ProcessFacts DEF CallRecords
<1> HIDE DEF r
<1> QED
  BY <1>1, <1>2, <1>3, Moved DEF Active, Working, RunnerPcs

(* A call that holds no handle starts on a turn: a client's call, or the     *)
(* continuation of a rolled-over turn.                                      *)
LEMMA EnterKeeps ==
  ASSUME IndInv, LogTypeOK', NEW c \in Calls, NEW r \in CallRecords,
         call' = [call EXCEPT ![c] = r],
         r.turn \in Turns,
         \/ r.pc = "begin"
         \/ r.pc = "check" /\ r.req \in Requests /\ r.decision # "none",
         UNCHANGED <<handles, cancel, crashes>>
  PROVE  IndInv'
<1>1. ProcessTypeOK'
  BY DEF IndInv, TypeOK, ProcessTypeOK
<1>2. CallShape'
  BY DEF IndInv, TypeOK, ProcessTypeOK, CallShape, Active
<1>3. RunnerIsRegistered'
  BY DEF IndInv, TypeOK, ProcessTypeOK, RunnerIsRegistered, Working, RunnerPcs
<1> QED
  BY <1>1, <1>2, <1>3 DEF IndInv, TypeOK

(* A step that leaves the log alone leaves it well-typed.                   *)
LEMMA LogSame ==
  ASSUME LogTypeOK, UNCHANGED logVars PROVE LogTypeOK'
BY DEF LogTypeOK, logVars

-----------------------------------------------------------------------------
(* The client's steps.                                                      *)

LEMMA StartKeeps ==
  ASSUME IndInv, NEW c \in Calls, NEW t \in Turns, StartTurn(c, t) \/ ContinueRolled(c, t)
  PROVE  IndInv'
<1> DEFINE r == [Idle EXCEPT !.pc = "begin", !.turn = t]
<1>1. LogTypeOK'
  BY DEF IndInv, TypeOK, LogTypeOK, Statuses, StartTurn, ContinueRolled
<1>2. r \in CallRecords /\ r.turn = t /\ r.pc = "begin"
  BY IdleTyped DEF CallRecords
<1>3. call' = [call EXCEPT ![c] = r] /\ UNCHANGED <<handles, cancel, crashes>>
  BY DEF StartTurn, ContinueRolled
<1> HIDE DEF r
<1> QED
  BY <1>1, <1>2, <1>3, EnterKeeps

LEMMA ResolveKeeps ==
  ASSUME IndInv, NEW c \in Calls, NEW q \in Requests, NEW d \in {"approved", "denied"},
         Resolve(c, q, d)
  PROVE  IndInv'
<1> DEFINE r == [Idle EXCEPT !.pc = "check", !.turn = TurnOf(q), !.req = q, !.decision = d]
<1>1. LogTypeOK'
  BY LogSame DEF IndInv, TypeOK, Resolve
<1>2. r \in CallRecords /\ r.turn = TurnOf(q) /\ r.pc = "check" /\ r.req = q /\ r.decision = d
  BY IdleTyped, RequestParts DEF CallRecords
<1>3. call' = [call EXCEPT ![c] = r] /\ UNCHANGED <<handles, cancel, crashes>>
  BY DEF Resolve
<1> HIDE DEF r
<1> QED
  BY <1>1, <1>2, <1>3, EnterKeeps, RequestParts

LEMMA AnswerKeeps ==
  ASSUME IndInv, NEW c \in Calls,
         SetupFails(c) \/ CheckPending(c) \/ AppendDecision(c) \/ StopTurn(c)
  PROVE  IndInv'
<1>0. LogTypeOK
  BY DEF IndInv, TypeOK
<1>1. CASE SetupFails(c)
  <2>1. LogTypeOK'
    BY <1>0, <1>1, LogSame, AppendErrorTyped DEF SetupFails
  <2> QED
    BY <1>1, <2>1, LeaveKeeps DEF SetupFails
<1>2. CASE CheckPending(c)
  <2>1. LogTypeOK'
    BY <1>0, <1>2, LogSame DEF CheckPending
  <2>2. CASE Leave(c)
    BY <1>2, <2>1, <2>2, LeaveKeeps DEF CheckPending
  <2>3. CASE Goto(c, "append")
    BY <1>2, <2>1, <2>3, GotoKeeps DEF CheckPending
  <2> QED
    BY <1>2, <2>2, <2>3 DEF CheckPending
<1>3. CASE AppendDecision(c)
  <2>1. call[c].req \in Requests /\ call[c].decision \in {"approved", "denied"}
    BY <1>3, ProcessFacts DEF AppendDecision, IndInv, CallShape, CallRecords
  <2>2. LogTypeOK'
    BY <1>0, <1>3, <2>1 DEF AppendDecision, LogTypeOK, Verdicts
  <2>3. PICK pc \in {"stop", "begin"} : Goto(c, pc)
    BY <1>3 DEF AppendDecision
  <2> QED
    BY <1>3, <2>2, <2>3, GotoKeeps DEF AppendDecision
<1>4. CASE StopTurn(c)
  <2>1. LogTypeOK'
    BY <1>0, <1>4, AppendCanceledTyped DEF StopTurn
  <2> QED
    BY <1>4, <2>1, LeaveKeeps DEF StopTurn
<1> QED
  BY <1>1, <1>2, <1>3, <1>4

-----------------------------------------------------------------------------
(* The runner's steps.                                                      *)

(* Registration: the turn had no handle, so nobody worked on it.             *)
LEMMA BeginKeeps ==
  ASSUME IndInv, NEW c \in Calls, Begin(c)
  PROVE  IndInv'
<1> DEFINE t == call[c].turn
<1> DEFINE pc == IF call[c].req = NoRequest THEN "step" ELSE "replay"
<1> DEFINE r == [call[c] EXCEPT !.pc = pc]
<1>1. LogTypeOK'
  BY LogSame DEF IndInv, TypeOK, Begin
<1>2. CASE handles[t] # NoCall
  BY <1>1, <1>2, LeaveKeeps DEF Begin
<1>3. CASE handles[t] = NoCall
  <2>1. /\ handles' = [handles EXCEPT ![t] = c]
        /\ call' = [call EXCEPT ![c] = r]
        /\ UNCHANGED <<cancel, crashes>>
    BY <1>3 DEF Begin, Goto
  <2>2. /\ r \in CallRecords /\ r.turn = t /\ t \in Turns
        /\ r.pc \in {"step", "replay"}
        /\ r.pc = "replay" => r.req \in Requests
    BY ProcessFacts DEF Begin, Active, CallRecords, RunnerPcs
  <2>3. \A d \in Calls : Working(d) => call[d].turn # t
    BY <1>3, TurnAssumption DEF IndInv, RunnerIsRegistered
  <2> HIDE DEF r, t
  <2>4. ProcessTypeOK'
    BY <2>1, <2>2 DEF IndInv, TypeOK, ProcessTypeOK
  <2>5. CallShape'
    BY <2>1, <2>2 DEF IndInv, TypeOK, ProcessTypeOK, CallShape, Active
  <2>6. RunnerIsRegistered'
    BY <2>1, <2>2, <2>3 DEF IndInv, TypeOK, ProcessTypeOK, RunnerIsRegistered, Working
  <2> QED
    BY <1>1, <2>4, <2>5, <2>6 DEF IndInv, TypeOK
<1> QED
  BY <1>2, <1>3

LEMMA ReplayKeeps ==
  ASSUME IndInv, NEW c \in Calls, Replay(c)
  PROVE  IndInv'
<1> DEFINE q == call[c].req
<1> DEFINE pc == IF request[q] = "approved" THEN "tool" ELSE "denied"
<1> DEFINE r == [call[c] EXCEPT !.tool = ToolOf(q), !.pc = pc]
<1>1. LogTypeOK' /\ call[c].pc = "replay" /\ UNCHANGED <<handles, cancel, crashes>>
  BY LogSame DEF IndInv, TypeOK, Replay, Runs
<1>2. CASE Returned(c, "error")
  BY <1>1, <1>2, ReturnedKeeps DEF RunnerPcs
<1>3. CASE Goto(c, "step")
  BY <1>1, <1>3, GotoKeeps DEF RunnerPcs
<1>4. CASE call' = [call EXCEPT ![c].tool = ToolOf(q), ![c].pc = pc]
  <2>1. q \in Requests
    BY <1>1 DEF IndInv, CallShape
  <2>2. call' = [call EXCEPT ![c] = r]
    BY <1>4, ProcessFacts DEF CallRecords
  <2>3. r \in CallRecords /\ r.pc \in {"tool", "denied"} /\ r.turn = call[c].turn
    BY <2>1, ProcessFacts, RequestParts, ZenonT(60) DEF CallRecords, RunnerPcs
  <2> HIDE DEF r, q, pc
  <2> QED
    BY <1>1, <2>2, <2>3, Moved DEF Active, Working, RunnerPcs
<1> QED
  BY <1>2, <1>3, <1>4 DEF Replay

LEMMA DeclareKeeps ==
  ASSUME IndInv, NEW c \in Calls, NEW n \in 0..MaxStages, NEW x \in BOOLEAN, DeclareTool(c, n, x)
  PROVE  IndInv'
<1> DEFINE k == Len(tools[call[c].turn]) + 1
<1> DEFINE r == [call[c] EXCEPT !.pc = "tool", !.tool = k]
<1>1. LogTypeOK' /\ call[c].pc = "step" /\ UNCHANGED <<handles, cancel, crashes>>
  BY DeclareToolTyped DEF IndInv, TypeOK, DeclareTool, Runs
<1>2. k \in 0..MaxTools
  <2>1. call[c].turn \in Turns
    BY <1>1, ProcessFacts DEF Active
  <2>2. Len(tools[call[c].turn]) \in Nat
    BY <2>1, LenProperties DEF IndInv, TypeOK, LogTypeOK
  <2> QED
    BY <2>2, TurnAssumption, SMTT(60) DEF DeclareTool
<1> HIDE DEF k
<1>3. call' = [call EXCEPT ![c] = r]
  BY DEF DeclareTool, k
<1>4. r \in CallRecords /\ r.pc = "tool" /\ r.turn = call[c].turn
  BY <1>2, ProcessFacts, ZenonT(60) DEF CallRecords, RunnerPcs
<1> HIDE DEF r
<1> QED
  BY <1>1, <1>3, <1>4, Moved DEF Active, Working, RunnerPcs

LEMMA ToolKeeps ==
  ASSUME IndInv, NEW c \in Calls, DenyTool(c) \/ AskApproval(c) \/ RunTool(c) \/ EndTool(c)
  PROVE  IndInv'
<1>0. LogTypeOK
  BY DEF IndInv, TypeOK
<1>1. CASE DenyTool(c) \/ EndTool(c)
  <2>1. LogTypeOK' /\ Goto(c, "step") /\ call[c].pc \in RunnerPcs
    BY <1>0, <1>1, EndToolCallTyped DEF DenyTool, EndTool, Runs, RunnerPcs
  <2> QED
    BY <1>1, <2>1, GotoKeeps DEF DenyTool, EndTool, RunnerPcs
<1>2. CASE AskApproval(c)
  <2>1. LogTypeOK'
    BY <1>0, <1>2, AskTyped, SMTT(60) DEF AskApproval
  <2>2. /\ call[c].pc \in RunnerPcs /\ UNCHANGED <<handles, cancel, crashes>>
        /\ Goto(c, "broken") \/ Returned(c, "pending")
    BY <1>2 DEF AskApproval, Runs, RunnerPcs
  <2> QED
    BY <2>1, <2>2, ReturnedKeeps, GotoKeeps DEF RunnerPcs
<1>3. CASE RunTool(c)
  <2>1. LogTypeOK'
    BY <1>0, <1>3, RunToolTyped
  <2> QED
    BY <1>3, <2>1, GotoKeeps DEF RunTool, Runs, RunnerPcs
<1> QED
  BY <1>1, <1>2, <1>3

LEMMA OutcomeKeeps ==
  ASSUME IndInv, NEW c \in Calls,
         AskQuestion(c) \/ Retry(c) \/ TurnDone(c) \/ TurnFail(c) \/ TurnRoll(c) \/ CtxCanceled(c)
  PROVE  IndInv'
<1>0. LogTypeOK
  BY DEF IndInv, TypeOK
<1>1. CASE AskQuestion(c)
  <2>1. LogTypeOK'
    BY <1>0, <1>1, AskTyped DEF AskQuestion
  <2> QED
    BY <1>1, <2>1, ReturnedKeeps DEF AskQuestion, Runs, RunnerPcs
<1>2. CASE Retry(c)
  <2>1. LogTypeOK'
    BY <1>0, <1>2 DEF Retry, LogTypeOK, Statuses
  <2> QED
    BY <1>2, <2>1 DEF Retry, IndInv, TypeOK, ProcessTypeOK, CallShape, RunnerIsRegistered,
                      Working, Active
<1>3. CASE TurnDone(c)
  <2>1. LogTypeOK'
    BY <1>0, <1>3, AppendDoneTyped DEF TurnDone
  <2> QED
    BY <1>3, <2>1, ReturnedKeeps DEF TurnDone, Runs, RunnerPcs
<1>4. CASE TurnFail(c)
  <2>1. LogTypeOK'
    BY <1>0, <1>4, AppendErrorTyped DEF TurnFail
  <2> QED
    BY <1>4, <2>1, ReturnedKeeps DEF TurnFail, Runs, RunnerPcs
<1>5. CASE TurnRoll(c)
  <2>1. LogTypeOK'
    BY <1>0, <1>5, AppendDoneTyped DEF TurnRoll
  <2> QED
    BY <1>5, <2>1, ReturnedKeeps DEF TurnRoll, Runs, RunnerPcs
<1>6. CASE CtxCanceled(c)
  <2>1. LogTypeOK'
    BY <1>0, <1>6, LogSame DEF CtxCanceled
  <2> QED
    BY <1>6, <2>1, ReturnedKeeps DEF CtxCanceled
<1> QED
  BY <1>1, <1>2, <1>3, <1>4, <1>5, <1>6

(* After the runner: the cancellation is recorded while the handle is still  *)
(* registered.                                                              *)
LEMMA ResultKeeps ==
  ASSUME IndInv, NEW c \in Calls, ReturnResult(c) \/ CanceledResult(c)
  PROVE  IndInv'
<1>1. CASE ReturnResult(c)
  <2>1. LogTypeOK'
    BY <1>1, LogSame DEF IndInv, TypeOK, ReturnResult
  <2>2. PICK pc \in {"canceling", "finish"} : Goto(c, pc)
    BY <1>1 DEF ReturnResult
  <2> QED
    BY <1>1, <2>1, <2>2, GotoKeeps DEF ReturnResult
<1>2. CASE CanceledResult(c)
  <2> DEFINE r == [call[c] EXCEPT !.pc = "finish", !.result = "canceled"]
  <2>1. LogTypeOK'
    BY <1>2, AppendCanceledTyped DEF IndInv, TypeOK, CanceledResult
  <2>2. call' = [call EXCEPT ![c] = r] /\ call[c].pc = "canceling"
        /\ UNCHANGED <<handles, cancel, crashes>>
    BY <1>2 DEF CanceledResult
  <2>3. r \in CallRecords /\ r.pc = "finish" /\ r.turn = call[c].turn
    BY ProcessFacts, ZenonT(60) DEF CallRecords
  <2> HIDE DEF r
  <2> QED
    BY <2>1, <2>2, <2>3, Moved DEF Active, Working, RunnerPcs
<1> QED
  BY <1>1, <1>2

(* finishTurn: the call that gives up its handle stops working, and no other *)
(* call worked on the turn.                                                 *)
LEMMA FinishKeeps ==
  ASSUME IndInv, NEW c \in Calls, Finish(c)
  PROVE  IndInv'
<1> DEFINE t == call[c].turn
<1>1. LogTypeOK'
  BY LogSame DEF IndInv, TypeOK, Finish
<1>2. /\ handles[t] = c
      /\ handles' = [handles EXCEPT ![t] = NoCall]
      /\ t \in Turns
  BY ProcessFacts DEF Finish, Working, Active
<1> DEFINE m == [call[c] EXCEPT !.pc = "continue"]
<1> DEFINE r == IF call[c].result = "rolled" THEN m ELSE Idle
<1>3. /\ call' = [call EXCEPT ![c] = r]
      /\ r \in CallRecords
      /\ r.pc = "idle" \/ (r.pc = "continue" /\ r.turn = t)
  <2>1. m \in CallRecords /\ m.pc = "continue" /\ m.turn = t
    BY ProcessFacts DEF CallRecords
  <2>2. Idle \in CallRecords /\ Idle.pc = "idle"
    BY IdleTyped
  <2>3. call' = [call EXCEPT ![c] = r]
    BY DEF Finish, Goto, Leave
  <2> HIDE DEF m
  <2> QED
    BY <2>1, <2>2, <2>3
<1> HIDE DEF r
<1>4. cancel' \in [Cancellers -> CancelRecords] /\ crashes' = crashes
  BY DEF Finish, IndInv, TypeOK, ProcessTypeOK, CancelRecords
<1>5. \A d \in Calls : d # c /\ Working(d) => call[d].turn # t
  BY <1>2 DEF IndInv, RunnerIsRegistered
<1> HIDE DEF t
<1>6. ProcessTypeOK'
  BY <1>2, <1>3, <1>4 DEF IndInv, TypeOK, ProcessTypeOK
<1>7. CallShape'
  BY <1>2, <1>3 DEF IndInv, TypeOK, ProcessTypeOK, CallShape, Active
<1>8. RunnerIsRegistered'
  BY <1>2, <1>3, <1>5 DEF IndInv, TypeOK, ProcessTypeOK, RunnerIsRegistered, Working, RunnerPcs
<1> QED
  BY <1>1, <1>6, <1>7, <1>8 DEF IndInv, TypeOK

LEMMA ContinueFailsKeeps ==
  ASSUME IndInv, NEW c \in Calls, NEW t \in Turns, ContinueFails(c, t)
  PROVE  IndInv'
<1>1. LogTypeOK'
  BY AppendErrorTyped DEF IndInv, TypeOK, ContinueFails
<1> QED
  BY <1>1, LeaveKeeps DEF ContinueFails

-----------------------------------------------------------------------------
(* Cancellation and crashes.                                                *)

(* A canceller changes nothing of a call but the flag of its handle.         *)
LEMMA CancelKeeps ==
  ASSUME IndInv, NEW k \in Cancellers, CancelStep(k) \/ \E t \in Turns : CancelLookup(k, t)
  PROVE  IndInv'
<1>0. LogTypeOK /\ cancel[k] \in CancelRecords /\ IdleCancel \in CancelRecords
  BY TurnAssumption DEF IndInv, TypeOK, ProcessTypeOK, IdleCancel, CancelRecords
<1>1. CASE CancelSignal(k)
  <2>1. LogTypeOK' /\ UNCHANGED <<handles, crashes>>
    BY <1>0, <1>1, LogSame DEF CancelSignal
  <2>2. call' \in [Calls -> CallRecords]
        /\ \A c \in Calls : /\ call'[c].pc = call[c].pc /\ call'[c].turn = call[c].turn
                            /\ call'[c].req = call[c].req /\ call'[c].decision = call[c].decision
    <3>1. CASE cancel[k].target = NoCall
      BY <1>1, <3>1 DEF CancelSignal, IndInv, TypeOK, ProcessTypeOK
    <3>2. CASE cancel[k].target # NoCall
      <4>1. cancel[k].target \in Calls
        BY <1>0, <3>2 DEF CancelRecords
      <4> DEFINE r == [call[cancel[k].target] EXCEPT !.canceled = TRUE]
      <4>2. call' = [call EXCEPT ![cancel[k].target] = r]
        BY <1>1, <3>2 DEF CancelSignal
      <4>3. r \in CallRecords /\ r.pc = call[cancel[k].target].pc
            /\ r.turn = call[cancel[k].target].turn /\ r.req = call[cancel[k].target].req
            /\ r.decision = call[cancel[k].target].decision
        BY <4>1, ZenonT(60) DEF IndInv, TypeOK, ProcessTypeOK, CallRecords
      <4> HIDE DEF r
      <4> QED
        BY <4>1, <4>2, <4>3 DEF IndInv, TypeOK, ProcessTypeOK
    <3> QED
      BY <3>1, <3>2
  <2>3. cancel' \in [Cancellers -> CancelRecords]
    BY <1>0, <1>1 DEF CancelSignal, IndInv, TypeOK, ProcessTypeOK
  <2>4. ProcessTypeOK'
    BY <2>1, <2>2, <2>3 DEF IndInv, TypeOK, ProcessTypeOK
  <2>5. CallShape'
    BY <2>2 DEF IndInv, CallShape, Active
  <2>6. RunnerIsRegistered'
    BY <2>1, <2>2 DEF IndInv, RunnerIsRegistered, Working
  <2> QED
    BY <2>1, <2>4, <2>5, <2>6 DEF IndInv, TypeOK
<1>2. ASSUME CancelSnapshot(k) \/ CancelAppend(k) \/ \E t \in Turns : CancelLookup(k, t)
      PROVE  IndInv'
  <2>1. UNCHANGED <<handles, call, crashes>>
    BY <1>2 DEF CancelSnapshot, CancelAppend, CancelLookup
  <2>2. LogTypeOK'
    BY <1>0, <1>2, LogSame, AppendCanceledTyped DEF CancelSnapshot, CancelAppend, CancelLookup
  <2>3. cancel' \in [Cancellers -> CancelRecords]
    <3>1. PICK r \in CancelRecords : cancel' = [cancel EXCEPT ![k] = r]
      <4>1. CASE CancelSnapshot(k) \/ CancelAppend(k)
        BY <1>0, <4>1 DEF CancelSnapshot, CancelAppend, CancelRecords
      <4>2. CASE \E t \in Turns : CancelLookup(k, t)
        <5>1. PICK t \in Turns : CancelLookup(k, t)
          BY <4>2
        <5> DEFINE r == [pc |-> IF handles[t] = NoCall THEN "snapshot" ELSE "signal",
                         turn |-> t, target |-> handles[t]]
        <5>2. r \in CancelRecords
          BY IdleTyped DEF CancelRecords, IndInv, TypeOK, ProcessTypeOK
        <5>3. cancel' = [cancel EXCEPT ![k] = r]
          BY <5>1 DEF CancelLookup
        <5> HIDE DEF r
        <5> QED
          BY <5>2, <5>3
      <4> QED
        BY <1>2, <4>1, <4>2
    <3> QED
      BY <3>1 DEF IndInv, TypeOK, ProcessTypeOK
  <2> QED
    BY <2>1, <2>2, <2>3 DEF IndInv, TypeOK, ProcessTypeOK, CallShape, RunnerIsRegistered,
                            Working, Active
<1> QED
  BY <1>1, <1>2 DEF CancelStep

LEMMA CrashKeeps == ASSUME IndInv, Crash PROVE IndInv'
<1>1. LogTypeOK'
  BY LogSame DEF IndInv, TypeOK, Crash
<1>2. ProcessTypeOK'
  BY TurnAssumption, IdleTyped DEF IndInv, TypeOK, ProcessTypeOK, Crash, IdleCancel, CancelRecords
<1>3. \A c \in Calls : call'[c].pc = "idle"
  BY IdleTyped DEF Crash
<1>4. CallShape' /\ RunnerIsRegistered'
  BY <1>3 DEF CallShape, RunnerIsRegistered, Active, Working, RunnerPcs
<1> QED
  BY <1>1, <1>2, <1>4 DEF IndInv, TypeOK

-----------------------------------------------------------------------------
(* The theorems.                                                            *)

LEMMA InitInd == Init => IndInv
<1> SUFFICES ASSUME Init PROVE IndInv
  OBVIOUS
<1>1. LogTypeOK
  <2>1. <<>> \in Seq(ToolCalls) /\ Len(<<>>) = 0
    BY EmptySeq
  <2> QED
    BY <2>1, TurnAssumption DEF Init, LogTypeOK, Statuses, Verdicts
<1>2. ProcessTypeOK
  BY TurnAssumption, IdleTyped DEF Init, ProcessTypeOK, IdleCancel, CancelRecords
<1>3. \A c \in Calls : call[c].pc = "idle"
  BY IdleTyped DEF Init
<1>4. CallShape /\ RunnerIsRegistered
  BY <1>3 DEF CallShape, RunnerIsRegistered, Active, Working, RunnerPcs
<1> QED
  BY <1>1, <1>2, <1>4 DEF IndInv, TypeOK

LEMMA NextInd == IndInv /\ [Next]_vars => IndInv'
<1> SUFFICES ASSUME IndInv, [Next]_vars PROVE IndInv'
  OBVIOUS
<1>1. ASSUME NEW c \in Calls, NEW t \in Turns, StartTurn(c, t) PROVE IndInv'
  BY <1>1, StartKeeps
<1>2. ASSUME NEW t \in Turns, StartTurnFails(t) PROVE IndInv'
  <2>1. LogTypeOK'
    BY <1>2, AppendErrorTyped DEF IndInv, TypeOK, StartTurnFails
  <2> QED
    BY <1>2, <2>1 DEF StartTurnFails, IndInv, TypeOK, ProcessTypeOK, CallShape,
                      RunnerIsRegistered, Working, Active
<1>3. ASSUME NEW c \in Calls, NEW r \in Requests, NEW d \in {"approved", "denied"}, Resolve(c, r, d)
      PROVE  IndInv'
  BY <1>3, ResolveKeeps
<1>4. ASSUME NEW c \in Calls, CallStep(c) PROVE IndInv'
  BY <1>4, StartKeeps, AnswerKeeps, BeginKeeps, ReplayKeeps, DeclareKeeps, ToolKeeps,
     OutcomeKeeps, ResultKeeps, FinishKeeps, ContinueFailsKeeps DEF CallStep
<1>5. ASSUME NEW k \in Cancellers, CancelStep(k) \/ \E t \in Turns : CancelLookup(k, t)
      PROVE  IndInv'
  BY <1>5, CancelKeeps
<1>6. CASE Crash
  BY <1>6, CrashKeeps
<1>7. CASE UNCHANGED vars
  <2>1. LogTypeOK'
    BY <1>7, LogSame DEF IndInv, TypeOK, vars, logVars
  <2> QED
    BY <1>7, <2>1 DEF vars, IndInv, TypeOK, ProcessTypeOK, CallShape, RunnerIsRegistered,
                      Working, Active
<1> QED
  BY <1>1, <1>2, <1>3, <1>4, <1>5, <1>6, <1>7 DEF Next

(* Every reachable state is well-typed, and a call that works on a turn owns *)
(* the turn's registered handle.                                            *)
THEOREM TurnInductive == Spec => []IndInv
BY InitInd, NextInd, PTL DEF Spec

(* The state of turns, calls and cancellations keeps its type.               *)
THEOREM TurnTypeCorrect == Spec => []TypeOK
<1>1. IndInv => TypeOK
  BY DEF IndInv
<1> QED
  BY <1>1, TurnInductive, PTL

(* CancelSessionTurn finds the call that works on a turn, whenever one does. *)
THEOREM TurnRunnerIsRegistered == Spec => []RunnerIsRegistered
<1>1. IndInv => RunnerIsRegistered
  BY DEF IndInv
<1> QED
  BY <1>1, TurnInductive, PTL

(* Whatever clients overlap, no two calls work on the same turn.             *)
THEOREM TurnOneRunner == Spec => []OneRunnerPerTurn
<1>1. IndInv => OneRunnerPerTurn
  BY DEF IndInv, RunnerIsRegistered, OneRunnerPerTurn
<1> QED
  BY <1>1, TurnInductive, PTL

-----------------------------------------------------------------------------
(* What the steps that touch no tool have in common.                        *)

Answering == {"check", "append", "begin", "replay"}

(* A call about to touch a tool touches a declared one, and runs a fresh one. *)
FreshNext(c) ==
  call'[c].pc \in {"tool", "denied", "ran"} =>
    /\ call'[c].tool \in 1..Len(tools[call'[c].turn])
    /\ call'[c].pc = "tool" => tools[call'[c].turn][call'[c].tool].ran = 0

(* A step disturbs nothing RunInv says of call c: what it starts to answer is *)
(* a tool that never ran, and a tool that ran stays accounted for.            *)
QuietCall(c) ==
  /\ call'[c].req \in Requests /\ call'[c].pc \in Answering => call'[c].turn = TurnOf(call'[c].req)
  /\ \A t \in Turns, k \in 1..MaxTools :
        Answers(c, t, k)' => Answers(c, t, k) \/ (k \in 1..Len(tools[t]) /\ tools[t][k].ran = 0)
  /\ FreshNext(c)
  /\ \A t \in Turns, k \in 1..MaxTools : Concludes(c, t, k) => Concludes(c, t, k)' \/ ended'[t]

(* A turn's declared tools are numbered within the bound.                    *)
LEMMA ToolNumbers ==
  ASSUME IndInv, NEW t \in Turns
  PROVE  /\ tools[t] \in Seq(ToolCalls) /\ Len(tools[t]) \in Nat
         /\ 1..Len(tools[t]) \subseteq 1..MaxTools
         /\ \A k \in 1..Len(tools[t]) : tools[t][k] \in ToolCalls
<1>1. tools[t] \in Seq(ToolCalls) /\ Len(tools[t]) <= MaxTools
  BY DEF IndInv, TypeOK, LogTypeOK
<1>2. Len(tools[t]) \in Nat /\ \A k \in 1..Len(tools[t]) : tools[t][k] \in ToolCalls
  BY <1>1, LenProperties, ElementOfSeq
<1> QED
  BY <1>1, <1>2, TurnAssumption

(* A call that answers a tool's request is about the request's turn, and the  *)
(* tool is declared.                                                         *)
LEMMA AnswersDeclared ==
  ASSUME IndInv, RunInv, NEW c \in Calls, NEW t \in Turns, NEW k \in 1..MaxTools, Answers(c, t, k)
  PROVE  call[c].req \in Requests /\ call[c].turn = t /\ k \in 1..Len(tools[t])
<1>1. call[c].req \in Requests
  <2>1. call[c].req \in Requests \cup {NoRequest}
    BY ProcessFacts DEF CallRecords
  <2>2. call[c].req # NoRequest
    BY TurnAssumption DEF Answers, TurnOf, NoRequest, Turns
  <2> QED
    BY <2>1, <2>2
<1>2. call[c].turn = t
  BY <1>1 DEF RunInv, AnswersItsTurn, Answers
<1> QED
  BY <1>1, <1>2 DEF RunInv, AnswersItsTurn

(* A step that leaves the tools alone and disturbs no call keeps RunInv.     *)
LEMMA Quiet ==
  ASSUME IndInv, RunInv, IndInv', tools' = tools, granted \subseteq granted', PendingIsMissing',
         \A t \in Turns : ended[t] => ended'[t],
         \A c \in Calls : QuietCall(c)
  PROVE  RunInv'
<1>1. AnswersItsTurn'
  <2> SUFFICES ASSUME NEW c \in Calls, call'[c].req \in Requests
               PROVE  /\ call'[c].pc \in Answering => call'[c].turn = TurnOf(call'[c].req)
                      /\ \A k \in 1..MaxTools : Answers(c, call[c].turn, k)' => k \in 1..Len(tools[call'[c].turn])
    BY DEF AnswersItsTurn, Answering
  <2>1. call'[c].pc \in Answering => call'[c].turn = TurnOf(call'[c].req)
    BY DEF QuietCall
  <2>2. ASSUME NEW k \in 1..MaxTools, Answers(c, call[c].turn, k)'
        PROVE  k \in 1..Len(tools[call'[c].turn])
    <3>1. TurnOf(call'[c].req) = call'[c].turn /\ call'[c].turn \in Turns
      BY <2>2, RequestParts DEF Answers
    <3>2. \/ Answers(c, call'[c].turn, k)
          \/ k \in 1..Len(tools[call'[c].turn])
      BY <2>2, <3>1 DEF QuietCall, Answers
    <3> QED
      BY <3>1, <3>2, AnswersDeclared
  <2> QED
    BY <2>1, <2>2
<1>2. RanIsGranted'
  BY DEF RunInv, RanIsGranted, MissingStages
<1>3. ToolIsFresh'
  BY DEF QuietCall, FreshNext, ToolIsFresh
<1>4. EffectIsOwned'
  <2> SUFFICES ASSUME NEW t \in Turns, NEW k \in 1..Len(tools[t]),
                      tools[t][k].ran > 0, ~tools[t][k].ended, ~ended'[t],
                      NEW d \in Calls, Answers(d, t, k)'
               PROVE  \E c \in Calls : Concludes(c, t, k)'
    BY DEF EffectIsOwned
  <2>1. k \in 1..MaxTools /\ tools[t][k].ran # 0
    BY ToolNumbers DEF ToolCalls
  <2>2. Answers(d, t, k)
    BY <2>1 DEF QuietCall
  <2>3. PICK c \in Calls : Concludes(c, t, k)
    BY <2>2 DEF RunInv, EffectIsOwned
  <2> QED
    BY <2>1, <2>3 DEF QuietCall
<1>5. ToolRunsAtMostOnce'
  BY DEF RunInv, ToolRunsAtMostOnce
<1> QED
  BY <1>1, <1>2, <1>3, <1>4, <1>5 DEF RunInv

(* Requests that no longer wait, and approvals for requests that do not wait, *)
(* leave the rest as it was.                                                 *)
LEMMA PendingShrinks ==
  ASSUME RunInv, tools' = tools,
         \A r \in Requests : request'[r] = "pending" /\ ToolOf(r) # 0 =>
            request[r] = "pending" /\ (r \in granted' => r \in granted)
  PROVE  PendingIsMissing'
<1> SUFFICES ASSUME NEW t \in Turns, NEW k \in 1..MaxTools, NEW s \in 1..MaxStages,
                    request'[<<t, k, s>>] = "pending"
             PROVE  k \in 1..Len(tools[t]) /\ s \in MissingStages(t, k)'
  BY DEF PendingIsMissing
<1>1. <<t, k, s>> \in Requests /\ ToolOf(<<t, k, s>>) # 0
  BY TurnAssumption DEF Requests, ToolOf
<1>2. request[<<t, k, s>>] = "pending" /\ (<<t, k, s>> \in granted' => <<t, k, s>> \in granted)
  BY <1>1
<1> QED
  BY <1>2 DEF RunInv, PendingIsMissing, MissingStages

(* The other calls are where they were.                                      *)
LEMMA OthersQuiet ==
  ASSUME IndInv, RunInv, NEW c \in Calls, call'[c] = call[c], tools' = tools
  PROVE  QuietCall(c)
<1>1. FreshNext(c)
  BY DEF RunInv, ToolIsFresh, FreshNext
<1> QED
  BY <1>1 DEF RunInv, AnswersItsTurn, QuietCall, Answers, Concludes, Answering

(* A call that lets go: it neither answers a request nor has a tool in hand,  *)
(* and owed the log nothing.                                                 *)
LEMMA LetsGo ==
  ASSUME NEW c \in Calls,
         call'[c].pc \in {"idle", "stop", "step", "broken", "returned", "canceling", "finish", "continue"},
         call[c].pc \notin {"ran", "returned", "canceling"}
  PROVE  QuietCall(c)
BY DEF QuietCall, FreshNext, Answers, Concludes, Answering

(* A step of one call that changes no tool.                                  *)
LEMMA OneCall ==
  ASSUME IndInv, RunInv, IndInv', tools' = tools, granted \subseteq granted', PendingIsMissing',
         \A t \in Turns : ended[t] => ended'[t],
         NEW c \in Calls, \E r : call' = [call EXCEPT ![c] = r], QuietCall(c)
  PROVE  RunInv'
<1>1. ASSUME NEW d \in Calls PROVE QuietCall(d)
  <2>1. CASE d = c
    BY <2>1
  <2>2. CASE d # c
    <3>1. call'[d] = call[d]
      BY <2>2 DEF IndInv, TypeOK, ProcessTypeOK
    <3> QED
      BY <3>1, OthersQuiet
  <2> QED
    BY <2>1, <2>2
<1> QED
  BY <1>1, Quiet

(* The ends of a turn open no request and touch no tool.                     *)
LEMMA EndsQuiet ==
  ASSUME IndInv, NEW t, AppendDone(t) \/ AppendError(t) \/ AppendCanceled(t)
  PROVE  /\ tools' = tools /\ granted' = granted
         /\ \A u \in Turns : ended[u] => ended'[u]
         /\ \A r \in Requests : request'[r] = "pending" => request[r] = "pending"
BY DEF IndInv, TypeOK, LogTypeOK, AppendDone, AppendError, AppendCanceled, EndTurn, PendingOf

LEMMA LogQuiet ==
  ASSUME RunInv, UNCHANGED logVars
  PROVE  /\ tools' = tools /\ granted' = granted
         /\ \A u \in Turns : ended[u] => ended'[u]
         /\ PendingIsMissing'
BY PendingShrinks DEF logVars

LEMMA EndsLog ==
  ASSUME IndInv, RunInv, NEW t, AppendDone(t) \/ AppendError(t) \/ AppendCanceled(t)
  PROVE  /\ tools' = tools /\ granted' = granted
         /\ \A u \in Turns : ended[u] => ended'[u]
         /\ PendingIsMissing'
BY EndsQuiet, PendingShrinks, SMTT(60)

(* What the three moves of a call's program counter do.                      *)
LEMMA Moves ==
  ASSUME IndInv, NEW c \in Calls
  PROVE  /\ Leave(c) => call' = [call EXCEPT ![c] = Idle] /\ call'[c].pc = "idle"
         /\ \A pc : Goto(c, pc) =>
               /\ call' = [call EXCEPT ![c] = [call[c] EXCEPT !.pc = pc]]
               /\ call'[c] = [call[c] EXCEPT !.pc = pc]
               /\ call'[c].pc = pc /\ call'[c].turn = call[c].turn /\ call'[c].req = call[c].req
               /\ call'[c].tool = call[c].tool /\ call'[c].canceled = call[c].canceled
         /\ \A x : Returned(c, x) =>
               /\ call' = [call EXCEPT ![c] = [call[c] EXCEPT !.pc = "returned", !.result = x]]
               /\ call'[c].pc = "returned" /\ call'[c].turn = call[c].turn
               /\ call'[c].canceled = call[c].canceled
<1>1. call \in [Calls -> CallRecords] /\ call[c] \in CallRecords
  BY DEF IndInv, TypeOK, ProcessTypeOK
<1>2. Leave(c) => call' = [call EXCEPT ![c] = Idle] /\ call'[c].pc = "idle"
  BY <1>1, IdleTyped DEF Leave
<1>3. ASSUME NEW pc, Goto(c, pc)
      PROVE  /\ call' = [call EXCEPT ![c] = [call[c] EXCEPT !.pc = pc]]
             /\ call'[c] = [call[c] EXCEPT !.pc = pc]
             /\ call'[c].pc = pc /\ call'[c].turn = call[c].turn /\ call'[c].req = call[c].req
             /\ call'[c].tool = call[c].tool /\ call'[c].canceled = call[c].canceled
  BY <1>1, <1>3 DEF Goto, CallRecords
<1>4. ASSUME NEW x, Returned(c, x)
      PROVE  /\ call' = [call EXCEPT ![c] = [call[c] EXCEPT !.pc = "returned", !.result = x]]
             /\ call'[c].pc = "returned" /\ call'[c].turn = call[c].turn
             /\ call'[c].canceled = call[c].canceled
  BY <1>1, <1>4 DEF Returned, CallRecords
<1> QED
  BY <1>2, <1>3, <1>4

LEMMA LettingGo ==
  ASSUME IndInv, NEW c \in Calls, call[c].pc \notin {"ran", "returned", "canceling"},
         \/ Leave(c)
         \/ \E pc \in {"step", "broken", "stop", "continue"} : Goto(c, pc)
         \/ \E x : Returned(c, x)
  PROVE  QuietCall(c) /\ \E r : call' = [call EXCEPT ![c] = r]
<1>1. CASE Leave(c)
  BY <1>1, Moves, LetsGo
<1>2. ASSUME NEW pc \in {"step", "broken", "stop", "continue"}, Goto(c, pc)
      PROVE  QuietCall(c) /\ \E r : call' = [call EXCEPT ![c] = r]
  <2>1. call'[c].pc = pc /\ \E r : call' = [call EXCEPT ![c] = r]
    BY <1>2, Moves, ZenonT(60)
  <2> QED
    BY <2>1, LetsGo
<1>3. ASSUME NEW x, Returned(c, x)
      PROVE  QuietCall(c) /\ \E r : call' = [call EXCEPT ![c] = r]
  <2>1. call'[c].pc = "returned" /\ \E r : call' = [call EXCEPT ![c] = r]
    BY <1>3, Moves
  <2> QED
    BY <2>1, LetsGo
<1> QED
  BY <1>1, <1>2, <1>3

-----------------------------------------------------------------------------
(* The client's steps.                                                      *)

LEMMA StartRuns ==
  ASSUME IndInv, RunInv, IndInv', NEW c \in Calls, NEW t \in Turns, StartTurn(c, t) \/ ContinueRolled(c, t)
  PROVE  RunInv'
<1> DEFINE r == [Idle EXCEPT !.pc = "begin", !.turn = t]
<1>1. /\ tools' = tools /\ granted' = granted /\ request' = request /\ ended' = ended
      /\ call' = [call EXCEPT ![c] = r]
      /\ call[c].pc \in {"idle", "continue"} \/ StartTurn(c, t)
  BY DEF StartTurn, ContinueRolled
<1>2. call[c].pc \in {"idle", "continue"}
  BY <1>1 DEF StartTurn, MayStart, NothingInFlight, Active
<1>3. r.pc = "begin" /\ r.req = NoRequest
  BY DEF Idle
<1>4. call'[c] = r
  BY <1>1 DEF IndInv, TypeOK, ProcessTypeOK
<1>5. NoRequest \notin Requests /\ TurnOf(NoRequest) \notin Turns
  BY TurnAssumption DEF Requests, NoRequest, TurnOf, Turns
<1> HIDE DEF r
<1>6. QuietCall(c)
  BY <1>2, <1>3, <1>4, <1>5 DEF QuietCall, FreshNext, Answers, Concludes, Answering
<1>7. PendingIsMissing'
  BY <1>1, PendingShrinks
<1> QED
  BY <1>1, <1>6, <1>7, OneCall

LEMMA ResolveRuns ==
  ASSUME IndInv, RunInv, IndInv', NEW c \in Calls, NEW q \in Requests, NEW d \in {"approved", "denied"},
         Resolve(c, q, d)
  PROVE  RunInv'
<1> DEFINE r == [Idle EXCEPT !.pc = "check", !.turn = TurnOf(q), !.req = q, !.decision = d]
<1>1. call' = [call EXCEPT ![c] = r] /\ call[c].pc = "idle" /\ UNCHANGED logVars
  BY DEF Resolve, Active
<1>2. r.pc = "check" /\ r.turn = TurnOf(q) /\ r.req = q
  BY DEF Idle
<1>3. call'[c] = r
  BY <1>1 DEF IndInv, TypeOK, ProcessTypeOK
<1> HIDE DEF r
<1>4. QuietCall(c)
  BY <1>1, <1>2, <1>3 DEF QuietCall, FreshNext, Answers, Concludes, Answering
<1> QED
  BY <1>1, <1>4, LogQuiet, OneCall

(* The pending request a call found is one its tool lacks, so the tool has   *)
(* not run.                                                                 *)
LEMMA CheckRuns ==
  ASSUME IndInv, RunInv, IndInv', NEW c \in Calls, CheckPending(c)
  PROVE  RunInv'
<1>0. call[c].pc = "check" /\ UNCHANGED logVars
  BY DEF CheckPending
<1>1. CASE Leave(c)
  BY <1>0, <1>1, LettingGo, LogQuiet, OneCall, SMTT(60)
<1>2. CASE Goto(c, "append") /\ request[call[c].req] = "pending"
  <2> DEFINE q == call[c].req
  <2>1. q \in Requests /\ call[c].turn = TurnOf(q) /\ call'[c].turn = TurnOf(q) /\ call'[c].req = q
        /\ call'[c].pc = "append"
    BY <1>0, <1>2, Moves, ZenonT(60) DEF IndInv, CallShape, RunInv, AnswersItsTurn
  <2>2. ASSUME NEW t \in Turns, NEW k \in 1..MaxTools, Answers(c, t, k)'
        PROVE  k \in 1..Len(tools[t]) /\ tools[t][k].ran = 0
    <3>1. TurnOf(q) = t /\ ToolOf(q) = k /\ k # 0
      BY <2>1, <2>2, TurnAssumption DEF Answers
    <3>2. PICK s \in 1..MaxStages : q = <<t, k, s>>
      BY <2>1, <3>1 DEF Requests, TurnOf, ToolOf
    <3>3. k \in 1..Len(tools[t]) /\ s \in MissingStages(t, k)
      BY <1>2, <3>2 DEF RunInv, PendingIsMissing
    <3>4. ~(tools[t][k].ran > 0)
      BY <3>3 DEF RunInv, RanIsGranted
    <3> QED
      BY <3>3, <3>4, ToolNumbers, SMTT(60) DEF ToolCalls
  <2>3. QuietCall(c)
    BY <1>0, <2>1, <2>2 DEF QuietCall, FreshNext, Concludes
  <2> QED
    BY <1>0, <1>2, <2>3, Moves, LogQuiet, OneCall, ZenonT(60)
<1> QED
  BY <1>1, <1>2 DEF CheckPending

LEMMA DecisionRuns ==
  ASSUME IndInv, RunInv, IndInv', NEW c \in Calls, AppendDecision(c)
  PROVE  RunInv'
<1> DEFINE q == call[c].req
<1>1. /\ call[c].pc = "append" /\ q \in Requests /\ call[c].turn = TurnOf(q)
      /\ call[c].decision \in {"approved", "denied"}
  BY ProcessFacts DEF AppendDecision, IndInv, CallShape, RunInv, AnswersItsTurn, CallRecords
<1>2. /\ tools' = tools /\ ended' = ended /\ granted' \in {granted, granted \cup {q}}
      /\ request' = [request EXCEPT ![q] = call[c].decision]
  BY DEF AppendDecision
<1>3. PICK pc \in {"stop", "begin"} : Goto(c, pc)
  BY DEF AppendDecision
<1>4. PendingIsMissing'
  BY <1>1, <1>2, PendingShrinks, SMTT(60) DEF IndInv, TypeOK, LogTypeOK
<1>5. /\ call'[c].pc = pc /\ call'[c].turn = call[c].turn /\ call'[c].req = q
      /\ call' = [call EXCEPT ![c] = [call[c] EXCEPT !.pc = pc]]
  BY <1>3, Moves
<1>6. QuietCall(c)
  BY <1>1, <1>5 DEF QuietCall, FreshNext, Answers, Concludes, Answering
<1> QED
  BY <1>2, <1>4, <1>5, <1>6, OneCall

LEMMA LeavingRuns ==
  ASSUME IndInv, RunInv, IndInv', NEW c \in Calls,
         SetupFails(c) \/ StopTurn(c) \/ \E t \in Turns : ContinueFails(c, t)
  PROVE  RunInv'
<1>1. Leave(c) /\ call[c].pc \in {"check", "begin", "stop", "continue"}
  BY DEF SetupFails, StopTurn, ContinueFails
<1>2. /\ tools' = tools /\ granted' = granted /\ PendingIsMissing'
      /\ \A u \in Turns : ended[u] => ended'[u]
  BY LogQuiet, EndsLog DEF SetupFails, StopTurn, ContinueFails
<1> QED
  BY <1>1, <1>2, LettingGo, OneCall

-----------------------------------------------------------------------------
(* The runner's steps that change no tool.                                  *)

LEMMA BeginRuns ==
  ASSUME IndInv, RunInv, IndInv', NEW c \in Calls, Begin(c)
  PROVE  RunInv'
<1>1. call[c].pc = "begin" /\ UNCHANGED logVars
  BY DEF Begin
<1>2. CASE Leave(c) \/ Goto(c, "step")
  BY <1>1, <1>2, LettingGo, LogQuiet, OneCall
<1>3. CASE Goto(c, "replay")
  <2>1. /\ call'[c].pc = "replay" /\ call'[c].turn = call[c].turn /\ call'[c].req = call[c].req
        /\ call' = [call EXCEPT ![c] = [call[c] EXCEPT !.pc = "replay"]]
    BY <1>3, Moves
  <2>2. QuietCall(c)
    BY <1>1, <2>1 DEF QuietCall, FreshNext, Answers, Concludes, Answering, RunInv, AnswersItsTurn
  <2> QED
    BY <1>1, <2>1, <2>2, LogQuiet, OneCall
<1> QED
  BY <1>2, <1>3 DEF Begin

(* A tool that ran is not replayed: of a live turn, its end is in the log or  *)
(* its runner still works on the turn, and that would be a second runner.    *)
LEMMA ReplayRuns ==
  ASSUME IndInv, RunInv, IndInv', NEW c \in Calls, Replay(c)
  PROVE  RunInv'
<1> DEFINE q == call[c].req
<1> DEFINE t == call[c].turn
<1> DEFINE k == ToolOf(q)
<1> DEFINE pc == IF request[q] = "approved" THEN "tool" ELSE "denied"
<1> DEFINE r == [call[c] EXCEPT !.tool = k, !.pc = pc]
<1>1. call[c].pc = "replay" /\ UNCHANGED logVars
  BY DEF Replay, Runs
<1>2. CASE Returned(c, "error") \/ Goto(c, "step")
  BY <1>1, <1>2, LettingGo, LogQuiet, OneCall
<1>3. CASE /\ ~NotResumable(c) /\ ~IsQuestion(q)
           /\ call' = [call EXCEPT ![c].tool = k, ![c].pc = pc]
  <2>1. q \in Requests /\ t = TurnOf(q) /\ t \in Turns /\ k \in 1..MaxTools
    BY <1>1, <1>3, RequestParts, TurnAssumption
       DEF IndInv, CallShape, RunInv, AnswersItsTurn, IsQuestion, ToolOf
  <2>2. Answers(c, t, k) /\ k \in 1..Len(tools[t])
    BY <1>1, <2>1, AnswersDeclared DEF Answers
  <2>3. ~ended[t] /\ ~tools[t][k].ended
    BY <1>3 DEF NotResumable
  <2>4. ~ \E d \in Calls : Concludes(d, t, k)
    <3> SUFFICES ASSUME NEW d \in Calls, Concludes(d, t, k) PROVE FALSE
      OBVIOUS
    <3>1. Working(d) /\ Working(c) /\ call[d].turn = t
      BY <1>1 DEF Concludes, Working, RunnerPcs
    <3>2. d = c
      BY <3>1 DEF IndInv, RunnerIsRegistered
    <3> QED
      BY <1>1, <3>2 DEF Concludes
  <2> HIDE DEF r, q, t, k, pc
  <2>5. tools[t][k].ran = 0
    <3>1. ~(tools[t][k].ran > 0)
      BY <2>1, <2>2, <2>3, <2>4 DEF RunInv, EffectIsOwned
    <3>2. tools[t][k].ran \in Nat
      BY <2>1, <2>2, ToolNumbers DEF ToolCalls
    <3> QED
      BY <3>1, <3>2
  <2>6. call' = [call EXCEPT ![c] = r]
    BY <1>3, ProcessFacts DEF CallRecords, r, q, t, k, pc
  <2>7. r.pc \in {"tool", "denied"} /\ r.turn = t /\ r.tool = k
    BY ProcessFacts DEF CallRecords, r, q, t, k, pc
  <2>8. call'[c] = r
    BY <2>6 DEF IndInv, TypeOK, ProcessTypeOK
  <2>9. QuietCall(c)
    BY <1>1, <2>2, <2>5, <2>7, <2>8 DEF QuietCall, FreshNext, Answers, Concludes, Answering
  <2> QED
    BY <1>1, <2>6, <2>9, LogQuiet, OneCall
<1> QED
  BY <1>2, <1>3 DEF Replay

LEMMA EndingRuns ==
  ASSUME IndInv, RunInv, IndInv', NEW c \in Calls, TurnDone(c) \/ TurnFail(c) \/ TurnRoll(c)
  PROVE  RunInv'
<1>1. /\ tools' = tools /\ granted' = granted /\ PendingIsMissing'
      /\ \A u \in Turns : ended[u] => ended'[u]
  BY EndsLog DEF TurnDone, TurnFail, TurnRoll
<1>2. PICK x : Returned(c, x)
  BY DEF TurnDone, TurnFail, TurnRoll
<1>3. call[c].pc \in {"step", "broken"}
  BY DEF TurnDone, TurnFail, TurnRoll, Runs
<1> QED
  BY <1>1, <1>2, <1>3, LettingGo, OneCall

LEMMA RetryRuns ==
  ASSUME IndInv, RunInv, IndInv', NEW c \in Calls, Retry(c)
  PROVE  RunInv'
<1>1. tools' = tools /\ granted' = granted /\ request' = request /\ ended' = ended /\ call' = call
  BY DEF Retry
<1>2. PendingIsMissing'
  BY <1>1, PendingShrinks
<1> QED
  BY <1>1, <1>2, OthersQuiet, Quiet

(* A loop question is about no tool, and an approval about the tool in hand.  *)
LEMMA AskRuns ==
  ASSUME IndInv, RunInv, IndInv', NEW c \in Calls, AskQuestion(c) \/ AskApproval(c)
  PROVE  RunInv'
<1>1. /\ tools' = tools /\ granted' = granted /\ ended' = ended
      /\ Returned(c, "pending") \/ Goto(c, "broken")
      /\ call[c].pc \in {"step", "tool"}
  BY DEF AskQuestion, AskApproval, Ask, Runs
<1>2. PendingIsMissing'
  <2>1. CASE AskQuestion(c)
    <3>1. PICK q : request' = [request EXCEPT ![<<call[c].turn, 0, q>>] = "pending"]
      BY <2>1 DEF AskQuestion, Ask
    <3>2. ToolOf(<<call[c].turn, 0, q>>) = 0
      BY DEF ToolOf
    <3>3. \A r \in Requests : r # <<call[c].turn, 0, q>> => request'[r] = request[r]
      BY <3>1 DEF IndInv, TypeOK, LogTypeOK
    <3> QED
      BY <1>1, <3>2, <3>3, PendingShrinks
  <2>2. CASE AskApproval(c)
    <3>1. PICK a \in MissingStages(call[c].turn, call[c].tool) :
             request' = [request EXCEPT ![<<call[c].turn, call[c].tool, a>>] = "pending"]
      BY <2>2 DEF AskApproval, Ask
    <3>2. call[c].tool \in 1..Len(tools[call[c].turn])
      BY <2>2 DEF AskApproval, Runs, RunInv, ToolIsFresh
    <3> SUFFICES ASSUME NEW t \in Turns, NEW k \in 1..MaxTools, NEW s \in 1..MaxStages,
                        request'[<<t, k, s>>] = "pending"
                 PROVE  k \in 1..Len(tools[t]) /\ s \in MissingStages(t, k)
      BY <1>1 DEF PendingIsMissing, MissingStages
    <3>3. <<t, k, s>> \in Requests
      BY TurnAssumption DEF Requests
    <3>4. request[<<t, k, s>>] = "pending" \/ <<t, k, s>> = <<call[c].turn, call[c].tool, a>>
      BY <3>1, <3>3 DEF IndInv, TypeOK, LogTypeOK
    <3>5. CASE request[<<t, k, s>>] = "pending"
      BY <3>5 DEF RunInv, PendingIsMissing
    <3>6. CASE <<t, k, s>> = <<call[c].turn, call[c].tool, a>>
      BY <3>1, <3>2, <3>6
    <3> QED
      BY <3>4, <3>5, <3>6
  <2> QED
    BY <2>1, <2>2
<1> QED
  BY <1>1, <1>2, LettingGo, OneCall

(* A canceled runner returns with the cancellation it has to record.         *)
LEMMA ResultRuns ==
  ASSUME IndInv, RunInv, IndInv', NEW c \in Calls, CtxCanceled(c) \/ ReturnResult(c)
  PROVE  RunInv'
<1>1. UNCHANGED logVars /\ call[c].pc \in RunnerPcs \cup {"returned"}
  BY DEF CtxCanceled, ReturnResult
<1>2. /\ call'[c].turn = call[c].turn /\ call'[c].canceled = call[c].canceled
      /\ call'[c].pc \in {"returned", "canceling", "finish"}
      /\ call[c].canceled => call'[c].pc \in {"returned", "canceling"}
      /\ call[c].pc = "ran" => call[c].canceled
      /\ \E r : call' = [call EXCEPT ![c] = r]
  BY Moves, ZenonT(60) DEF CtxCanceled, ReturnResult, Alive, RunnerPcs
<1>3. QuietCall(c)
  BY <1>1, <1>2 DEF QuietCall, FreshNext, Answers, Concludes, Answering, RunnerPcs
<1> QED
  BY <1>1, <1>2, <1>3, LogQuiet, OneCall

LEMMA CanceledRuns ==
  ASSUME IndInv, RunInv, IndInv', NEW c \in Calls, CanceledResult(c)
  PROVE  RunInv'
<1> DEFINE r == [call[c] EXCEPT !.pc = "finish", !.result = "canceled"]
<1>1. /\ tools' = tools /\ granted' = granted /\ PendingIsMissing'
      /\ \A u \in Turns : ended[u] => ended'[u]
  BY EndsLog DEF CanceledResult
<1>2. call' = [call EXCEPT ![c] = r] /\ call[c].pc = "canceling"
  BY DEF CanceledResult
<1>3. call'[c] = r
  BY <1>2 DEF IndInv, TypeOK, ProcessTypeOK
<1>4. r.pc = "finish"
  BY ProcessFacts DEF CallRecords
<1>5. \A t \in Turns : call[c].turn = t => ended'[t]
  BY DEF CanceledResult, AppendCanceled, EndTurn, IndInv, TypeOK, LogTypeOK
<1> HIDE DEF r
<1>6. QuietCall(c)
  BY <1>2, <1>3, <1>4, <1>5 DEF QuietCall, FreshNext, Answers, Concludes, Answering
<1> QED
  BY <1>1, <1>2, <1>6, OneCall

LEMMA FinishRuns ==
  ASSUME IndInv, RunInv, IndInv', NEW c \in Calls, Finish(c)
  PROVE  RunInv'
<1>1. call[c].pc = "finish" /\ UNCHANGED logVars /\ (Goto(c, "continue") \/ Leave(c))
  BY DEF Finish
<1> QED
  BY <1>1, LettingGo, LogQuiet, OneCall

-----------------------------------------------------------------------------
(* The runner's steps that change its turn's tools.                         *)

(* A runner changes the tools of its own turn only, and nobody else runs it:  *)
(* what it must show is about its turn's tools and the tool it has in hand.  *)
LEMMA ToolsChange ==
  ASSUME IndInv, RunInv, IndInv', NEW c \in Calls, NEW t \in Turns,
         call[c].turn = t, call[c].pc \in {"step", "tool", "denied", "ran"},
         call'[c].turn = t, call'[c].pc \in {"step", "tool", "ran"},
         \A d \in Calls : d # c => call'[d] = call[d],
         granted' = granted, request' = request, ended' = ended,
         \A u \in Turns : u # t => tools'[u] = tools[u],
         Len(tools[t]) <= Len(tools'[t]),
         \A k \in 1..Len(tools[t]) : tools'[t][k].need = tools[t][k].need,
         \A k \in 1..Len(tools'[t]) :
            /\ tools'[t][k].ran <= 1
            /\ tools'[t][k].ran > 0 => MissingStages(t, k)' = {}
            /\ tools'[t][k].ran > 0 /\ ~tools'[t][k].ended =>
                  \/ Concludes(c, t, k)'
                  \/ k \in 1..Len(tools[t]) /\ tools[t][k].ran > 0 /\ ~tools[t][k].ended /\ ~Concludes(c, t, k),
         call'[c].pc \in {"tool", "ran"} => call'[c].tool \in 1..Len(tools'[t]),
         call'[c].pc = "tool" => tools'[t][call'[c].tool].ran = 0
  PROVE  RunInv'
<1>1. \A d \in Calls : d # c /\ Working(d) => call[d].turn # t
  BY DEF IndInv, RunnerIsRegistered, Working, RunnerPcs
<1>2. \A u \in Turns : /\ Len(tools[u]) \in Nat /\ Len(tools'[u]) \in Nat
                       /\ Len(tools[u]) <= Len(tools'[u])
                       /\ \A k \in 1..Len(tools[u]) : tools'[u][k].need = tools[u][k].need
  <2>1. \A u \in Turns : Len(tools[u]) \in Nat
    BY ToolNumbers
  <2>2. \A u \in Turns : tools'[u] \in Seq(ToolCalls)
    BY DEF IndInv, TypeOK, LogTypeOK
  <2>3. \A u \in Turns : Len(tools'[u]) \in Nat
    BY <2>2, LenProperties
  <2> QED
    BY <2>1, <2>3
<1>3. AnswersItsTurn'
  <2> SUFFICES ASSUME NEW d \in Calls, call'[d].req \in Requests
               PROVE  /\ call'[d].pc \in Answering => call'[d].turn = TurnOf(call'[d].req)
                      /\ \A k \in 1..MaxTools : Answers(d, call[d].turn, k)' => k \in 1..Len(tools'[call'[d].turn])
    BY DEF AnswersItsTurn, Answering
  <2>1. CASE d = c
    BY <2>1 DEF Answers, Answering
  <2>2. CASE d # c
    <3>1. call'[d] = call[d]
      BY <2>2
    <3>2. ASSUME NEW k \in 1..MaxTools, Answers(d, call[d].turn, k)
          PROVE  k \in 1..Len(tools'[call[d].turn])
      <4>1. call[d].turn \in Turns /\ k \in 1..Len(tools[call[d].turn])
        BY <3>1, <3>2, RequestParts, AnswersDeclared DEF Answers
      <4> QED
        BY <4>1, <1>2
    <3>3. call[d].pc \in Answering => call[d].turn = TurnOf(call[d].req)
      BY <3>1 DEF RunInv, AnswersItsTurn, Answering
    <3> QED
      BY <3>1, <3>2, <3>3 DEF Answers
  <2> QED
    BY <2>1, <2>2
<1>4. PendingIsMissing'
  <2> SUFFICES ASSUME NEW u \in Turns, NEW k \in 1..MaxTools, NEW s \in 1..MaxStages,
                      request[<<u, k, s>>] = "pending"
               PROVE  k \in 1..Len(tools'[u]) /\ s \in MissingStages(u, k)'
    BY DEF PendingIsMissing
  <2>1. k \in 1..Len(tools[u]) /\ s \in MissingStages(u, k)
    BY DEF RunInv, PendingIsMissing
  <2> QED
    BY <1>2, <2>1, SMTT(60) DEF MissingStages
<1>5. RanIsGranted'
  <2> SUFFICES ASSUME NEW u \in Turns, NEW k \in 1..Len(tools'[u]), tools'[u][k].ran > 0
               PROVE  MissingStages(u, k)' = {}
    BY DEF RanIsGranted
  <2>1. CASE u = t
    BY <2>1
  <2>2. CASE u # t
    BY <2>2 DEF RunInv, RanIsGranted, MissingStages
  <2> QED
    BY <2>1, <2>2
<1>6. ToolIsFresh'
  <2> SUFFICES ASSUME NEW d \in Calls, call'[d].pc \in {"tool", "denied", "ran"}
               PROVE  /\ call'[d].tool \in 1..Len(tools'[call'[d].turn])
                      /\ call'[d].pc = "tool" => tools'[call'[d].turn][call'[d].tool].ran = 0
    BY DEF ToolIsFresh
  <2>1. CASE d = c
    BY <2>1
  <2>2. CASE d # c
    <3>1. call'[d] = call[d] /\ Working(d) /\ call[d].turn \in Turns
      BY <2>2, ProcessFacts DEF Working, Active, RunnerPcs
    <3>2. tools'[call[d].turn] = tools[call[d].turn]
      BY <1>1, <2>2, <3>1
    <3> QED
      BY <3>1, <3>2 DEF RunInv, ToolIsFresh
  <2> QED
    BY <2>1, <2>2
<1>7. EffectIsOwned'
  <2> SUFFICES ASSUME NEW u \in Turns, NEW k \in 1..Len(tools'[u]),
                      tools'[u][k].ran > 0, ~tools'[u][k].ended, ~ended[u],
                      NEW e \in Calls, Answers(e, u, k)'
               PROVE  \E d \in Calls : Concludes(d, u, k)'
    BY DEF EffectIsOwned
  <2>1. e # c /\ Answers(e, u, k)
    BY DEF Answers
  <2>2. CASE u # t
    <3>1. PICK d \in Calls : Concludes(d, u, k)
      BY <2>1, <2>2 DEF RunInv, EffectIsOwned
    <3>2. d # c
      BY <2>2, <3>1 DEF Concludes
    <3> QED
      BY <3>1, <3>2 DEF Concludes
  <2>3. CASE u = t /\ ~Concludes(c, t, k)'
    <3>1. k \in 1..Len(tools[t]) /\ tools[t][k].ran > 0 /\ ~tools[t][k].ended /\ ~Concludes(c, t, k)
      BY <2>3
    <3>2. PICK d \in Calls : Concludes(d, t, k)
      BY <2>1, <2>3, <3>1 DEF RunInv, EffectIsOwned
    <3>3. Working(d) /\ call[d].turn = t
      BY <3>2 DEF Concludes, Working, RunnerPcs
    <3> QED
      BY <1>1, <3>1, <3>2, <3>3
  <2> QED
    BY <2>2, <2>3
<1>8. ToolRunsAtMostOnce'
  BY DEF RunInv, ToolRunsAtMostOnce
<1> QED
  BY <1>3, <1>4, <1>5, <1>6, <1>7, <1>8 DEF RunInv

(* The runner's own state at a step that touches a tool.                     *)
LEMMA RunnerFacts ==
  ASSUME IndInv, RunInv, NEW c \in Calls, call[c].pc \in {"step", "tool", "denied", "ran"}
  PROVE  /\ call[c].turn \in Turns
         /\ call[c].pc # "step" => call[c].tool \in 1..Len(tools[call[c].turn])
         /\ call[c].pc = "tool" => tools[call[c].turn][call[c].tool].ran = 0
BY ProcessFacts DEF Active, RunInv, ToolIsFresh

(* Changing the tool in hand changes no other tool.                          *)
LEMMA ToolUpdate ==
  ASSUME IndInv, NEW t \in Turns, NEW k \in 1..Len(tools[t]), NEW v \in ToolCalls,
         tools' = [tools EXCEPT ![t] = [tools[t] EXCEPT ![k] = v]]
  PROVE  /\ Len(tools'[t]) = Len(tools[t]) /\ tools'[t][k] = v
         /\ \A i \in 1..Len(tools[t]) : i # k => tools'[t][i] = tools[t][i]
         /\ \A u \in Turns : u # t => tools'[u] = tools[u]
<1>1. tools[t] \in Seq(ToolCalls)
  BY ToolNumbers
<1>2. tools[t] \in [1..Len(tools[t]) -> ToolCalls]
  BY <1>1, LenProperties
<1>3. tools \in [Turns -> Seq(ToolCalls)]
  BY DEF IndInv, TypeOK, LogTypeOK
<1>4. tools'[t] = [tools[t] EXCEPT ![k] = v] /\ \A u \in Turns : u # t => tools'[u] = tools[u]
  BY <1>3
<1>5. Len([tools[t] EXCEPT ![k] = v]) = Len(tools[t])
  BY <1>1, SeqUpdate
<1> QED
  BY <1>2, <1>4, <1>5

(* The call moves on and the others stay.                                    *)
LEMMA OthersStay ==
  ASSUME IndInv, NEW c \in Calls, NEW r, call' = [call EXCEPT ![c] = r]
  PROVE  \A d \in Calls : d # c => call'[d] = call[d]
BY DEF IndInv, TypeOK, ProcessTypeOK

LEMMA EndToolRuns ==
  ASSUME IndInv, RunInv, IndInv', NEW c \in Calls, DenyTool(c) \/ EndTool(c)
  PROVE  RunInv'
<1>0. PICK t, k : t = call[c].turn /\ k = call[c].tool
  OBVIOUS
<1> DEFINE v == [tools[t][k] EXCEPT !.ended = TRUE]
<1>1. /\ call[c].pc \in {"denied", "ran"} /\ Goto(c, "step") /\ EndToolCall(t, k)
      /\ granted' = granted /\ request' = request /\ ended' = ended
  BY <1>0 DEF DenyTool, EndTool, Runs, EndToolCall
<1>2. t \in Turns /\ k \in 1..Len(tools[t])
  BY <1>0, <1>1, RunnerFacts
<1>3. tools[t][k] \in ToolCalls
  BY <1>2, ToolNumbers
<1>4. v \in ToolCalls /\ v.ended /\ v.need = tools[t][k].need /\ v.ran = tools[t][k].ran
  BY <1>3 DEF ToolCalls
<1>5. tools' = [tools EXCEPT ![t] = [tools[t] EXCEPT ![k] = v]]
  BY <1>1 DEF EndToolCall
<1>6. call'[c].turn = t /\ call'[c].pc = "step" /\ \A d \in Calls : d # c => call'[d] = call[d]
  <2>1. call' = [call EXCEPT ![c] = [call[c] EXCEPT !.pc = "step"]]
    BY <1>1, Moves
  <2> QED
    BY <1>0, <1>1, <2>1, Moves, OthersStay, ZenonT(60)
<1> HIDE DEF v
<1>8. /\ Len(tools'[t]) = Len(tools[t]) /\ tools'[t][k] = v
      /\ \A i \in 1..Len(tools[t]) : i # k => tools'[t][i] = tools[t][i]
      /\ \A u \in Turns : u # t => tools'[u] = tools[u]
  BY <1>2, <1>4, <1>5, ToolUpdate
<1>9. Len(tools[t]) \in Nat
  BY <1>2, ToolNumbers
<1>10. ASSUME NEW i \in 1..Len(tools'[t])
       PROVE  /\ tools'[t][i].need = tools[t][i].need /\ tools'[t][i].ran = tools[t][i].ran
              /\ ~tools'[t][i].ended => i # k /\ ~tools[t][i].ended
  BY <1>4, <1>8
<1>11. ASSUME NEW i \in 1..Len(tools'[t])
       PROVE  /\ tools'[t][i].ran <= 1
              /\ tools'[t][i].ran > 0 => MissingStages(t, i)' = {}
              /\ tools'[t][i].ran > 0 /\ ~tools'[t][i].ended =>
                    i \in 1..Len(tools[t]) /\ tools[t][i].ran > 0 /\ ~tools[t][i].ended /\ ~Concludes(c, t, i)
  <2>1. i \in 1..Len(tools[t])
    BY <1>8
  <2>2. tools[t][i].ran <= 1 /\ (tools[t][i].ran > 0 => MissingStages(t, i) = {})
    BY <1>2, <2>1 DEF RunInv, ToolRunsAtMostOnce, RanIsGranted
  <2>3. MissingStages(t, i)' = MissingStages(t, i)
    BY <1>1, <1>10 DEF MissingStages
  <2>4. Concludes(c, t, i) => i = k
    BY <1>0, <1>1 DEF Concludes
  <2> QED
    BY <1>10, <2>1, <2>2, <2>3, <2>4
<1>12. call[c].turn = t /\ call[c].pc \in {"step", "tool", "denied", "ran"}
  BY <1>0, <1>1
<1> QED
  BY <1>1, <1>2, <1>6, <1>8, <1>9, <1>10, <1>11, <1>12, ToolsChange, SMTT(60)

(* The tool ran never before, and needs no approval any more.                *)
LEMMA RunToolRuns ==
  ASSUME IndInv, RunInv, IndInv', NEW c \in Calls, RunTool(c)
  PROVE  RunInv'
<1>0. PICK t, k : t = call[c].turn /\ k = call[c].tool
  OBVIOUS
<1> DEFINE v == [tools[t][k] EXCEPT !.ran = @ + 1]
<1>1. /\ call[c].pc = "tool" /\ Goto(c, "ran") /\ MissingStages(t, k) = {}
      /\ granted' = granted /\ request' = request /\ ended' = ended
      /\ tools' = [tools EXCEPT ![t] = [tools[t] EXCEPT ![k] = v]]
  BY <1>0, SMTT(60) DEF RunTool, Runs
<1>2. t \in Turns /\ k \in 1..Len(tools[t]) /\ tools[t][k].ran = 0
  BY <1>0, <1>1, RunnerFacts
<1>3. tools[t][k] \in ToolCalls
  BY <1>2, ToolNumbers
<1>4. v \in ToolCalls /\ v.need = tools[t][k].need /\ v.ran = 1
  BY <1>2, <1>3, SMTT(60) DEF ToolCalls
<1>6. /\ call'[c].turn = t /\ call'[c].pc = "ran" /\ call'[c].tool = k
      /\ \A d \in Calls : d # c => call'[d] = call[d]
  <2>1. call' = [call EXCEPT ![c] = [call[c] EXCEPT !.pc = "ran"]]
    BY <1>1, Moves
  <2> QED
    BY <1>0, <1>1, <2>1, Moves, OthersStay, ZenonT(60)
<1>7. call[c].turn = t /\ call[c].pc \in {"step", "tool", "denied", "ran"} /\ \A i : ~Concludes(c, t, i)
  BY <1>0, <1>1 DEF Concludes
<1> HIDE DEF v
<1>8. /\ Len(tools'[t]) = Len(tools[t]) /\ tools'[t][k] = v
      /\ \A i \in 1..Len(tools[t]) : i # k => tools'[t][i] = tools[t][i]
      /\ \A u \in Turns : u # t => tools'[u] = tools[u]
  BY <1>1, <1>2, <1>4, ToolUpdate
<1>9. Len(tools[t]) \in Nat
  BY <1>2, ToolNumbers
<1>10. \A i \in 1..Len(tools[t]) : tools'[t][i].need = tools[t][i].need
  BY <1>4, <1>8
<1>11. ASSUME NEW i \in 1..Len(tools'[t])
       PROVE  /\ tools'[t][i].ran <= 1
              /\ tools'[t][i].ran > 0 => MissingStages(t, i)' = {}
              /\ tools'[t][i].ran > 0 /\ ~tools'[t][i].ended =>
                    \/ Concludes(c, t, i)'
                    \/ i \in 1..Len(tools[t]) /\ tools[t][i].ran > 0 /\ ~tools[t][i].ended /\ ~Concludes(c, t, i)
  <2>1. i \in 1..Len(tools[t])
    BY <1>8
  <2>2. tools[t][i].ran <= 1 /\ (tools[t][i].ran > 0 => MissingStages(t, i) = {})
    BY <1>2, <2>1 DEF RunInv, ToolRunsAtMostOnce, RanIsGranted
  <2>3. MissingStages(t, i)' = MissingStages(t, i)
    BY <1>1, <1>10, <2>1 DEF MissingStages
  <2>4. CASE i = k
    BY <1>1, <1>4, <1>6, <1>8, <2>3, <2>4 DEF Concludes
  <2>5. CASE i # k
    BY <1>7, <1>8, <2>1, <2>2, <2>3, <2>5
  <2> QED
    BY <2>4, <2>5
<1> QED
  BY <1>1, <1>2, <1>6, <1>7, <1>8, <1>9, <1>10, <1>11, ToolsChange, SMTT(60)

(* A tool just declared has not run.                                         *)
LEMMA DeclareRuns ==
  ASSUME IndInv, RunInv, IndInv', NEW c \in Calls, NEW n \in 0..MaxStages, NEW x \in BOOLEAN,
         DeclareTool(c, n, x)
  PROVE  RunInv'
<1>0. PICK t : t = call[c].turn
  OBVIOUS
<1> DEFINE k == Len(tools[t]) + 1
<1> DEFINE v == [need |-> n, ended |-> FALSE, ran |-> 0, cut |-> x]
<1> DEFINE r == [call[c] EXCEPT !.pc = "tool", !.tool = k]
<1>1. /\ call[c].pc = "step" /\ call' = [call EXCEPT ![c] = r]
      /\ granted' = granted /\ request' = request /\ ended' = ended
      /\ tools' = [tools EXCEPT ![t] = Append(tools[t], v)]
  BY <1>0 DEF DeclareTool, Runs
<1>2. t \in Turns
  BY <1>0, <1>1, RunnerFacts
<1>3. tools[t] \in Seq(ToolCalls) /\ v \in ToolCalls /\ Len(tools[t]) \in Nat /\ v.ran = 0
  BY <1>2, ToolNumbers DEF ToolCalls
<1>4. r.pc = "tool" /\ r.turn = t /\ r.tool = k
  BY <1>0, ProcessFacts DEF CallRecords
<1>5. call'[c] = r /\ \A d \in Calls : d # c => call'[d] = call[d]
  BY <1>1 DEF IndInv, TypeOK, ProcessTypeOK
<1>6. call[c].turn = t /\ \A i : ~Concludes(c, t, i)
  BY <1>0, <1>1 DEF Concludes
<1>7. tools'[t] = Append(tools[t], v) /\ \A u \in Turns : u # t => tools'[u] = tools[u]
  BY <1>1, <1>2 DEF IndInv, TypeOK, LogTypeOK
<1> HIDE DEF v, r
<1>8. /\ Len(tools'[t]) = k /\ tools'[t][k] = v /\ k \in 1..k
      /\ \A i \in 1..Len(tools[t]) : tools'[t][i] = tools[t][i]
  BY <1>3, <1>7, AppendProperties
<1>9. ASSUME NEW i \in 1..Len(tools'[t])
      PROVE  /\ tools'[t][i].ran <= 1
             /\ tools'[t][i].ran > 0 => MissingStages(t, i)' = {}
             /\ tools'[t][i].ran > 0 /\ ~tools'[t][i].ended =>
                   i \in 1..Len(tools[t]) /\ tools[t][i].ran > 0 /\ ~tools[t][i].ended /\ ~Concludes(c, t, i)
  <2>1. CASE i = k
    BY <1>3, <1>8, <2>1
  <2>2. CASE i \in 1..Len(tools[t])
    <3>1. tools'[t][i] = tools[t][i]
      BY <1>8, <2>2
    <3>2. tools[t][i].ran <= 1 /\ (tools[t][i].ran > 0 => MissingStages(t, i) = {})
      BY <1>2, <2>2 DEF RunInv, ToolRunsAtMostOnce, RanIsGranted
    <3>3. MissingStages(t, i)' = MissingStages(t, i)
      BY <1>1, <3>1 DEF MissingStages
    <3> QED
      BY <1>6, <2>2, <3>1, <3>2, <3>3
  <2> QED
    BY <1>3, <1>8, <2>1, <2>2
<1>10. \A i \in 1..Len(tools[t]) : tools'[t][i].need = tools[t][i].need
  BY <1>8
<1> HIDE DEF k
<1>11. Len(tools[t]) <= Len(tools'[t])
  BY <1>3, <1>8 DEF k
<1> QED
  BY <1>1, <1>2, <1>3, <1>4, <1>5, <1>6, <1>7, <1>8, <1>9, <1>10, <1>11, ToolsChange, SMTT(60)

-----------------------------------------------------------------------------
(* Cancellation, crashes, and the theorem.                                  *)

LEMMA CancelRuns ==
  ASSUME IndInv, RunInv, IndInv', NEW k \in Cancellers,
         CancelStep(k) \/ \E t \in Turns : CancelLookup(k, t)
  PROVE  RunInv'
<1>1. CASE CancelSignal(k)
  <2>1. \A c \in Calls : /\ call'[c].pc = call[c].pc /\ call'[c].turn = call[c].turn
                         /\ call'[c].req = call[c].req /\ call'[c].tool = call[c].tool
                         /\ call[c].canceled => call'[c].canceled
    BY <1>1, ProcessFacts DEF CancelSignal, IndInv, TypeOK, ProcessTypeOK, CallRecords
  <2>2. UNCHANGED logVars
    BY <1>1 DEF CancelSignal
  <2>3. ASSUME NEW c \in Calls PROVE QuietCall(c)
    <3>1. FreshNext(c)
      BY <2>1 DEF RunInv, ToolIsFresh, FreshNext
    <3> QED
      BY <2>1, <3>1 DEF RunInv, AnswersItsTurn, QuietCall, Answers, Concludes, Answering
  <2> QED
    BY <2>2, <2>3, LogQuiet, Quiet
<1>2. CASE CancelSnapshot(k) \/ CancelAppend(k) \/ \E t \in Turns : CancelLookup(k, t)
  <2>1. /\ tools' = tools /\ granted' = granted /\ PendingIsMissing'
        /\ \A u \in Turns : ended[u] => ended'[u]
    BY <1>2, LogQuiet, EndsLog DEF CancelSnapshot, CancelAppend, CancelLookup
  <2>2. call' = call
    BY <1>2 DEF CancelSnapshot, CancelAppend, CancelLookup
  <2> QED
    BY <2>1, <2>2, OthersQuiet, Quiet
<1> QED
  BY <1>1, <1>2 DEF CancelStep

(* A crash leaves nobody to answer for a tool; a tool that ran and whose end  *)
(* was not written has no open request either, so nobody will.               *)
LEMMA CrashRuns == ASSUME IndInv, RunInv, IndInv', Crash PROVE RunInv'
<1>1. \A c \in Calls : call'[c].pc = "idle"
  BY IdleTyped DEF Crash
<1>2. tools' = tools /\ granted' = granted /\ ended' = ended /\ PendingIsMissing'
  BY LogQuiet DEF Crash, logVars
<1>3. AnswersItsTurn' /\ ToolIsFresh' /\ EffectIsOwned'
  BY <1>1 DEF AnswersItsTurn, ToolIsFresh, EffectIsOwned, Answers
<1>4. RanIsGranted' /\ ToolRunsAtMostOnce'
  BY <1>2 DEF RunInv, RanIsGranted, ToolRunsAtMostOnce, MissingStages
<1> QED
  BY <1>2, <1>3, <1>4 DEF RunInv

LEMMA InitRuns == Init => RunInv
<1> SUFFICES ASSUME Init PROVE RunInv
  OBVIOUS
<1>1. \A c \in Calls : call[c].pc = "idle"
  BY IdleTyped DEF Init
<1>2. AnswersItsTurn /\ ToolIsFresh
  BY <1>1 DEF AnswersItsTurn, ToolIsFresh, Answers
<1>3. \A t \in Turns : Len(tools[t]) = 0
  BY EmptySeq DEF Init
<1>4. RanIsGranted /\ EffectIsOwned /\ ToolRunsAtMostOnce
  BY <1>3 DEF RanIsGranted, EffectIsOwned, ToolRunsAtMostOnce
<1>5. PendingIsMissing
  BY TurnAssumption DEF Init, PendingIsMissing, Requests
<1> QED
  BY <1>2, <1>4, <1>5 DEF RunInv

LEMMA NextRuns == IndInv /\ RunInv /\ IndInv' /\ [Next]_vars => RunInv'
<1> SUFFICES ASSUME IndInv, RunInv, IndInv', [Next]_vars PROVE RunInv'
  OBVIOUS
<1>1. ASSUME NEW c \in Calls, NEW t \in Turns, StartTurn(c, t) PROVE RunInv'
  BY <1>1, StartRuns
<1>2. ASSUME NEW t \in Turns, StartTurnFails(t) PROVE RunInv'
  <2>1. call' = call /\ AppendError(t)
    BY <1>2 DEF StartTurnFails
  <2> QED
    BY <2>1, EndsLog, OthersQuiet, Quiet
<1>3. ASSUME NEW c \in Calls, NEW r \in Requests, NEW d \in {"approved", "denied"}, Resolve(c, r, d)
      PROVE  RunInv'
  BY <1>3, ResolveRuns
<1>4. ASSUME NEW c \in Calls, CallStep(c) PROVE RunInv'
  BY <1>4, StartRuns, LeavingRuns, CheckRuns, DecisionRuns, BeginRuns, ReplayRuns, EndToolRuns,
     AskRuns, RunToolRuns, DeclareRuns, RetryRuns, EndingRuns, ResultRuns, CanceledRuns, FinishRuns
     DEF CallStep
<1>5. ASSUME NEW k \in Cancellers, CancelStep(k) \/ \E t \in Turns : CancelLookup(k, t)
      PROVE  RunInv'
  BY <1>5, CancelRuns
<1>6. CASE Crash
  BY <1>6, CrashRuns
<1>7. CASE UNCHANGED vars
  <2>1. call' = call /\ UNCHANGED logVars
    BY <1>7 DEF vars, logVars
  <2> QED
    BY <2>1, LogQuiet, OthersQuiet, Quiet
<1> QED
  BY <1>1, <1>2, <1>3, <1>4, <1>5, <1>6, <1>7 DEF Next

(* However its requests are answered, canceled or interrupted by crashes, a   *)
(* tool call's side effect happens at most once.                             *)
THEOREM TurnToolRunsAtMostOnce == Spec => []ToolRunsAtMostOnce
<1>1. Init => RunInv
  BY InitRuns
<1>2. IndInv /\ RunInv /\ IndInv' /\ [Next]_vars => RunInv'
  BY NextRuns
<1>3. RunInv => ToolRunsAtMostOnce
  BY DEF RunInv
<1> QED
  BY <1>1, <1>2, <1>3, TurnInductive, PTL DEF Spec

-----------------------------------------------------------------------------
(* Clients that wait for their calls.                                       *)

(* Nothing overlaps, and a turn that is resumed can be set up again.         *)
OneAtATime == Overlap = {} /\ "resume" \notin SetupMayFail

(* What the log shows pending, and what of it a turn that is not over waits for. *)
Pending == {r \in Requests : request[r] = "pending"}
Waiting == {r \in Pending : ~ended[TurnOf(r)]}
LivePcs == RunnerPcs \cup {"begin", "stop"}

(* One call or one cancellation is in flight, and none was signaled.         *)
OneInFlight ==
  /\ \A c, d \in Calls : Active(c) /\ Active(d) => c = d
  /\ \A k, l \in Cancellers : cancel[k].pc # "idle" /\ cancel[l].pc # "idle" => k = l
  /\ \A c \in Calls, k \in Cancellers : Active(c) => cancel[k].pc = "idle"
  /\ \A k \in Cancellers : cancel[k].pc # "signal" /\ (cancel[k].pc # "idle" => cancel[k].turn \in Turns)
  /\ \A t \in Turns : handles[t] # NoCall => Working(handles[t]) /\ call[handles[t]].turn = t

(* What is asked is asked for a tool that has not ended; what a turn that is   *)
(* not over waits for is one thing, and the turn runs; what a turn that is over *)
(* left behind was asked after its stream broke.                             *)
OpenTool(t, k) == k \in 1..Len(tools[t]) /\ ~tools[t][k].ended
OpenRequest(r) == IsQuestion(r) \/ OpenTool(TurnOf(r), ToolOf(r))
Cut(r) == ~IsQuestion(r) /\ tools[TurnOf(r)][ToolOf(r)].cut
PendingIsOpen ==
  /\ \A r \in Pending : OpenRequest(r)
  /\ \A r \in Pending : ended[TurnOf(r)] => Stranded(r)
  /\ \A r \in Waiting : status[TurnOf(r)] = "running"
  /\ \A r, q \in Waiting : r = q
  /\ \A t \in Turns : ended[t] => status[t] \notin {"none", "running"}

(* A call about to answer finds its request pending; while a call works on a  *)
(* turn the turn runs, and it waits only for what the call asked after its     *)
(* stream broke; a call that answers what a turn that is over left behind gets *)
(* as far as its replay.  A call returns pending or an error, or has ended the *)
(* turn.                                                                     *)
Live(r) ==
  /\ status[r.turn] = "running" /\ ~ended[r.turn]
  /\ \A q \in Waiting : r.pc = "broken" /\ TurnOf(q) = r.turn /\ Cut(q)
Late(r) == r.pc \in {"begin", "replay"} /\ ended[r.turn] /\ r.req # NoRequest
Alone(r) ==
  /\ ~r.canceled /\ r.pc # "canceling"
  /\ r.pc \in {"check", "append"} => request[r.req] = "pending" /\ r.turn = TurnOf(r.req)
  /\ r.pc \in LivePcs => Live(r) \/ Late(r)
  /\ r.pc \in {"begin", "replay"} /\ r.req # NoRequest => OpenRequest(r.req) /\ r.turn = TurnOf(r.req)
  /\ r.pc \in {"tool", "denied", "ran"} => OpenTool(r.turn, r.tool)
  /\ r.pc \in {"returned", "finish"} /\ r.result \notin {"pending", "error"} =>
        Waiting = {} /\ status[r.turn] # "running"
  /\ r.pc = "continue" => Waiting = {}
CallsAreAlone == \A c \in Calls : Alone(call[c])

(* Without crashes a running turn waits for its user or has a call.          *)
RunningIsKept ==
  MaxCrashes = 0 =>
    \A t \in Turns : status[t] = "running" =>
      PendingOf(t) # {} \/ \E c \in Calls : call[c].turn = t /\ call[c].pc \in LivePcs

SeqInv == OneInFlight /\ PendingIsOpen /\ CallsAreAlone /\ RunningIsKept

(* The call in flight, if there is one, is c.                                *)
Only(c) ==
  /\ \A d \in Calls \ {c} : ~Active(d)
  /\ \A k \in Cancellers : cancel[k].pc = "idle"
  /\ \A t \in Turns : handles[t] # NoCall => handles[t] = c /\ Working(c) /\ call[c].turn = t

LEMMA SeqOnly ==
  ASSUME IndInv, SeqInv, NEW c \in Calls, Active(c)
  PROVE  Only(c) /\ Alone(call[c]) /\ call[c].turn \in Turns /\ call[c] \in CallRecords
<1>1. \A t \in Turns : handles[t] # NoCall => handles[t] \in Calls /\ Active(handles[t])
  BY TurnAssumption DEF SeqInv, OneInFlight, Working, Active, IndInv, TypeOK, ProcessTypeOK, RunnerPcs
<1> QED
  BY <1>1 DEF Only, SeqInv, OneInFlight, CallsAreAlone, IndInv, TypeOK, ProcessTypeOK, CallShape

LEMMA SeqNone ==
  ASSUME IndInv, SeqInv, NEW c \in Calls, \A d \in Calls : ~Active(d),
         \A k \in Cancellers : cancel[k].pc = "idle"
  PROVE  Only(c) /\ \A t \in Turns : handles[t] = NoCall
<1>1. \A t \in Turns : handles[t] # NoCall => handles[t] \in Calls /\ Active(handles[t])
  BY TurnAssumption DEF SeqInv, OneInFlight, Working, Active, IndInv, TypeOK, ProcessTypeOK, RunnerPcs
<1> QED
  BY <1>1 DEF Only

(* A step of the call in flight.                                             *)
LEMMA SeqStep ==
  ASSUME IndInv, SeqInv, NEW c \in Calls, Only(c), NEW r, call' = [call EXCEPT ![c] = r],
         \A k \in Cancellers : cancel'[k].pc = "idle",
         \A t \in Turns : handles'[t] # NoCall =>
            /\ handles'[t] = c /\ r.turn = t
            /\ r.pc \in RunnerPcs \cup {"returned", "canceling", "finish"},
         PendingIsOpen', Alone(r)', RunningIsKept'
  PROVE  SeqInv'
<1>1. /\ call'[c] = r
      /\ \A d \in Calls \ {c} : call'[d] = call[d] /\ call[d].pc = "idle" /\ Alone(call[d])
  BY DEF IndInv, TypeOK, ProcessTypeOK, Only, Active, SeqInv, CallsAreAlone
<1>2. \A d \in Calls \ {c} : Alone(call[d])'
  BY <1>1 DEF Alone, LivePcs, RunnerPcs
<1>3. CallsAreAlone'
  BY <1>1, <1>2 DEF CallsAreAlone
<1>4. \A d \in Calls : Active(d)' => d = c
  BY <1>1 DEF Active
<1>5. OneInFlight'
  BY <1>1, <1>4 DEF OneInFlight, Working
<1> QED
  BY <1>3, <1>5 DEF SeqInv

(* A running turn that had no call keeps what it waits for.                  *)
LEMMA SeqKept ==
  ASSUME IndInv, SeqInv, NEW c \in Calls, Only(c), NEW r, call' = [call EXCEPT ![c] = r],
         \A t \in Turns : status'[t] = "running" =>
            \/ PendingOf(t)' # {}
            \/ r.pc \in LivePcs /\ r.turn = t
            \/ /\ status[t] = "running" /\ PendingOf(t) \subseteq PendingOf(t)'
               /\ ~(call[c].pc \in LivePcs /\ call[c].turn = t)
  PROVE  RunningIsKept'
<1>1. call'[c] = r
  BY DEF IndInv, TypeOK, ProcessTypeOK
<1>2. \A d \in Calls : call[d].pc \in LivePcs => d = c
  BY DEF Only, Active, LivePcs, RunnerPcs
<1> QED
  BY <1>1, <1>2 DEF SeqInv, RunningIsKept

(* What is open stays open, and a record fits, if the log does not change.     *)
LEMMA SeqSame ==
  ASSUME SeqInv, UNCHANGED logVars
  PROVE  /\ PendingIsOpen' /\ \A r : Alone(r) => Alone(r)'
         /\ \A t \in Turns : PendingOf(t)' = PendingOf(t) /\ status'[t] = status[t]
<1>1. UNCHANGED <<status, ended, tools, request, granted>>
  BY DEF logVars
<1>2. Pending' = Pending /\ Waiting' = Waiting /\ \A r : Stranded(r)' = Stranded(r)
  BY <1>1 DEF Pending, Waiting, Stranded
<1>3. \A r : OpenRequest(r)' = OpenRequest(r) /\ Cut(r)' = Cut(r)
  BY <1>1 DEF OpenRequest, OpenTool, Cut
<1>4. PendingIsOpen'
  BY <1>1, <1>2, <1>3 DEF SeqInv, PendingIsOpen
<1>5. \A r : Live(r) => Live(r)'
  BY <1>1, <1>2, <1>3 DEF Live
<1>6. \A r : Alone(r) => Alone(r)'
  BY <1>1, <1>2, <1>3, <1>5 DEF Alone, Late, OpenTool
<1> QED
  BY <1>1, <1>4, <1>6 DEF PendingOf

(* A step of the call in flight that writes nothing to the log.              *)
LEMMA SeqMove ==
  ASSUME IndInv, SeqInv, NEW c \in Calls, Only(c), NEW r, call' = [call EXCEPT ![c] = r],
         \A k \in Cancellers : cancel'[k].pc = "idle",
         \A t \in Turns : handles'[t] # NoCall =>
            /\ handles'[t] = c /\ r.turn = t
            /\ r.pc \in RunnerPcs \cup {"returned", "canceling", "finish"},
         UNCHANGED logVars, Alone(r),
         call[c].pc \in LivePcs =>
            (r.pc \in LivePcs /\ r.turn = call[c].turn) \/ status[call[c].turn] # "running"
  PROVE  SeqInv'
<1>1. /\ PendingIsOpen' /\ Alone(r)'
      /\ \A t \in Turns : PendingOf(t)' = PendingOf(t) /\ status'[t] = status[t]
  BY SeqSame
<1>2. \A t \in Turns : status'[t] = "running" =>
         \/ r.pc \in LivePcs /\ r.turn = t
         \/ /\ status[t] = "running" /\ PendingOf(t) \subseteq PendingOf(t)'
            /\ ~(call[c].pc \in LivePcs /\ call[c].turn = t)
  BY <1>1
<1>3. RunningIsKept'
  BY <1>2, SeqKept, ZenonT(60)
<1> QED
  BY <1>1, <1>3, SeqStep

(* A step of nobody's call, while none is in flight.                         *)
LEMMA SeqAside ==
  ASSUME IndInv, SeqInv, \A c \in Calls : ~Active(c), call' = call, handles' = handles,
         \A k, l \in Cancellers : cancel'[k].pc # "idle" /\ cancel'[l].pc # "idle" => k = l,
         \A k \in Cancellers :
            cancel'[k].pc # "signal" /\ (cancel'[k].pc # "idle" => cancel'[k].turn \in Turns),
         PendingIsOpen',
         \A t \in Turns : status'[t] = "running" =>
            status[t] = "running" /\ PendingOf(t) \subseteq PendingOf(t)'
  PROVE  SeqInv'
<1>1. \A c \in Calls : call'[c] = call[c] /\ call[c].pc = "idle" /\ Alone(call[c])
  BY DEF Active, SeqInv, CallsAreAlone
<1>2. CallsAreAlone'
  BY <1>1 DEF CallsAreAlone, Alone, LivePcs, RunnerPcs
<1>3. \A t \in Turns : handles'[t] = NoCall
  BY <1>1 DEF SeqInv, OneInFlight, Working, RunnerPcs, IndInv, TypeOK, ProcessTypeOK
<1>4. OneInFlight'
  BY <1>1, <1>3 DEF OneInFlight, Active
<1>5. RunningIsKept'
  BY <1>1 DEF SeqInv, RunningIsKept, LivePcs, RunnerPcs
<1> QED
  BY <1>2, <1>4, <1>5 DEF SeqInv

(* The end of a turn leaves behind only what it asked after its stream broke, *)
(* and a cancellation not even that.                                         *)
LEMMA SeqEnds ==
  ASSUME IndInv, SeqInv, NEW t \in Turns,
         \/ AppendDone(t) \/ AppendError(t)
         \/ AppendCanceled(t),
         AppendCanceled(t) \/ \A r \in Waiting : TurnOf(r) = t /\ Cut(r)
  PROVE  /\ PendingIsOpen' /\ status'[t] \notin {"none", "running"}
         /\ \A u \in Turns : status'[u] = "running" =>
               u # t /\ status[u] = "running" /\ PendingOf(u) \subseteq PendingOf(u)'
         /\ (\A r \in Waiting : TurnOf(r) = t) => Waiting' = {}
<1>1. /\ status'[t] \in {"completed", "failed", "canceled"} /\ ended'[t]
      /\ \A u \in Turns : u # t => status'[u] = status[u] /\ ended'[u] = ended[u]
      /\ tools' = tools
  BY DEF IndInv, TypeOK, LogTypeOK, AppendDone, AppendError, AppendCanceled, EndTurn
<1>2. /\ \A r \in Pending' : r \in Pending /\ TurnOf(r) \in Turns
      /\ AppendCanceled(t) => \A r \in Pending' : TurnOf(r) # t
      /\ ~AppendCanceled(t) => status'[t] \in {"completed", "failed"}
  BY RequestParts DEF AppendDone, AppendError, AppendCanceled, PendingOf, Pending, EndTurn, IndInv,
     TypeOK, LogTypeOK
<1>3. \A r \in Requests : TurnOf(r) # t => request'[r] = request[r]
  BY DEF AppendDone, AppendError, AppendCanceled, PendingOf
<1>4. Waiting' \subseteq Waiting /\ \A r \in Waiting' : TurnOf(r) # t
  BY <1>1, <1>2 DEF Waiting
<1>5. \A r \in Pending' : OpenRequest(r)'
  BY <1>1, <1>2 DEF SeqInv, PendingIsOpen, OpenRequest, OpenTool
<1>6. \A r \in Pending' : ended'[TurnOf(r)] => Stranded(r)'
  <2> SUFFICES ASSUME NEW r \in Pending', ended'[TurnOf(r)] PROVE Stranded(r)'
    OBVIOUS
  <2>1. CASE TurnOf(r) # t
    <3>1. Stranded(r) /\ TurnOf(r) \in Turns
      BY <1>1, <1>2, <2>1 DEF SeqInv, PendingIsOpen
    <3> QED
      BY <1>1, <2>1, <3>1 DEF Stranded
  <2>2. CASE TurnOf(r) = t
    <3>1. ~AppendCanceled(t) /\ status'[t] \in {"completed", "failed"}
      BY <1>2, <2>2
    <3>2. r \in Pending /\ (ended[t] => Stranded(r)) /\ (~ended[t] => r \in Waiting)
      BY <1>2, <2>2 DEF SeqInv, PendingIsOpen, Waiting
    <3>3. Cut(r)
      BY <3>1, <3>2 DEF Stranded, Cut
    <3> QED
      BY <1>1, <2>2, <3>1, <3>3 DEF Stranded, Cut
  <2> QED
    BY <2>1, <2>2
<1>7. PendingIsOpen'
  <2>1. \A r \in Waiting' : TurnOf(r) \in Turns /\ status'[TurnOf(r)] = "running"
    BY <1>1, <1>2, <1>4 DEF SeqInv, PendingIsOpen, Waiting
  <2>2. \A u \in Turns : ended'[u] => status'[u] \notin {"none", "running"}
    BY <1>1 DEF SeqInv, PendingIsOpen
  <2> QED
    BY <1>4, <1>5, <1>6, <2>1, <2>2 DEF SeqInv, PendingIsOpen
<1>8. \A u \in Turns : u # t => PendingOf(u) \subseteq PendingOf(u)'
  BY <1>3 DEF PendingOf
<1> QED
  BY <1>1, <1>4, <1>7, <1>8

(* The records a call moves to.                                              *)
LEMMA SeqIdle ==
  /\ Alone(Idle) /\ Idle.pc = "idle"
  /\ \A t : LET r == [Idle EXCEPT !.pc = "begin", !.turn = t]
            IN r.pc = "begin" /\ r.turn = t /\ r.req = NoRequest /\ ~r.canceled /\ r.result = "none"
BY DEF Idle, Alone, LivePcs, RunnerPcs

-----------------------------------------------------------------------------
(* Clients.                                                                 *)

LEMMA SeqNobody ==
  ASSUME OneAtATime, IndInv, SeqInv, NothingInFlight
  PROVE  /\ \A c \in Calls : Only(c) /\ call[c].pc = "idle"
         /\ \A k \in Cancellers : cancel[k].pc = "idle"
         /\ \A t \in Turns : handles[t] = NoCall
<1>1. (\A c \in Calls : ~Active(c)) /\ \A k \in Cancellers : cancel[k].pc = "idle"
  BY DEF NothingInFlight, OneAtATime
<1>2. \A t \in Turns : handles[t] = NoCall
  BY <1>1 DEF SeqInv, OneInFlight, Working, Active, RunnerPcs, IndInv, TypeOK, ProcessTypeOK
<1> QED
  BY <1>1, <1>2 DEF Only, Active

(* A new turn, of a client or of a call that rolled its turn over.           *)
LEMMA SeqStart ==
  ASSUME OneAtATime, IndInv, SeqInv, NEW c \in Calls, NEW t \in Turns,
         StartTurn(c, t) \/ ContinueRolled(c, t)
  PROVE  SeqInv'
<1>1. PICK r : r = [Idle EXCEPT !.pc = "begin", !.turn = t]
  OBVIOUS
<1>2. /\ call' = [call EXCEPT ![c] = r] /\ status' = [status EXCEPT ![t] = "running"]
      /\ UNCHANGED <<ended, tools, request, granted, handles, cancel>> /\ status[t] = "none"
  BY <1>1 DEF StartTurn, ContinueRolled, MayStart
<1>3. Only(c) /\ Waiting = {} /\ call[c].pc \in {"idle", "continue"}
  <2>1. CASE StartTurn(c, t)
    BY <2>1, SeqNobody DEF StartTurn, MayStart, Pending, Waiting
  <2>2. CASE ContinueRolled(c, t)
    BY <2>2, SeqOnly DEF ContinueRolled, Active, Alone
  <2> QED
    BY <2>1, <2>2
<1>4. r.pc = "begin" /\ r.turn = t /\ r.req = NoRequest /\ ~r.canceled /\ r.result = "none"
  BY <1>1, SeqIdle
<1>5. status'[t] = "running" /\ \A u \in Turns : u # t => status'[u] = status[u]
  BY <1>2 DEF IndInv, TypeOK, LogTypeOK
<1>6. Pending' = Pending /\ Waiting' = {} /\ ~ended'[t]
  BY <1>2, <1>3 DEF Pending, Waiting, SeqInv, PendingIsOpen
<1>7. PendingIsOpen'
  <2>1. \A q \in Pending : OpenRequest(q)' /\ (ended'[TurnOf(q)] => Stranded(q)')
    <3> SUFFICES ASSUME NEW q \in Pending
                 PROVE  OpenRequest(q)' /\ (ended'[TurnOf(q)] => Stranded(q)')
      OBVIOUS
    <3>1. OpenRequest(q)'
      BY <1>2 DEF SeqInv, PendingIsOpen, OpenRequest, OpenTool
    <3>2. ASSUME ended'[TurnOf(q)] PROVE Stranded(q)'
      <4>1. Stranded(q) /\ TurnOf(q) \in Turns /\ TurnOf(q) # t
        BY <1>2, <3>2, RequestParts, <1>6 DEF SeqInv, PendingIsOpen, Pending
      <4> QED
        BY <1>2, <1>5, <4>1 DEF Stranded
    <3> QED
      BY <3>1, <3>2
  <2>2. \A u \in Turns : ended'[u] => status'[u] \notin {"none", "running"}
    BY <1>2, <1>5, <1>6 DEF SeqInv, PendingIsOpen
  <2>3. /\ \A q \in Pending' : OpenRequest(q)'
        /\ \A q \in Pending' : ended'[TurnOf(q)] => Stranded(q)'
    BY <1>6, <2>1
  <2>4. /\ \A q \in Waiting' : status'[TurnOf(q)] = "running"
        /\ \A q, p \in Waiting' : q = p
    BY <1>6
  <2> QED
    BY <2>2, <2>3, <2>4 DEF PendingIsOpen
<1>8. Alone(r)'
  BY <1>4, <1>5, <1>6 DEF Alone, Live, LivePcs, RunnerPcs
<1>9. \A u \in Turns : status'[u] = "running" =>
         \/ r.pc \in LivePcs /\ r.turn = u
         \/ status[u] = "running" /\ PendingOf(u) \subseteq PendingOf(u)' /\ ~(call[c].pc \in LivePcs)
  BY <1>2, <1>3, <1>4, <1>5 DEF LivePcs, RunnerPcs, PendingOf
<1>10. RunningIsKept'
  BY <1>2, <1>3, <1>9, SeqKept, ZenonT(60)
<1>11. \A u \in Turns : handles[u] = NoCall
  BY <1>3 DEF Only, Working, RunnerPcs
<1> QED
  BY <1>2, <1>3, <1>7, <1>8, <1>10, <1>11, SeqStep DEF Only

LEMMA SeqResolve ==
  ASSUME OneAtATime, IndInv, SeqInv, NEW c \in Calls, NEW q \in Requests,
         NEW d \in {"approved", "denied"}, Resolve(c, q, d)
  PROVE  SeqInv'
<1>1. PICK r : r = [Idle EXCEPT !.pc = "check", !.turn = TurnOf(q), !.req = q, !.decision = d]
  OBVIOUS
<1>2. call' = [call EXCEPT ![c] = r] /\ UNCHANGED <<handles, cancel>> /\ UNCHANGED logVars
  BY <1>1 DEF Resolve
<1>3. NothingInFlight
  BY DEF Resolve, MayResolve, OneAtATime, NothingInFlight
<1>4. Only(c) /\ call[c].pc = "idle" /\ \A t \in Turns : handles[t] = NoCall
  BY <1>3, SeqNobody
<1>5. r.pc = "check" /\ r.turn = TurnOf(q) /\ r.req = q /\ ~r.canceled /\ r.result = "none"
  BY <1>1 DEF Idle
<1>6. Alone(r)
  BY <1>5 DEF Alone, LivePcs, RunnerPcs, Resolve
<1>7. (\A k \in Cancellers : cancel'[k].pc = "idle") /\ call[c].pc \notin LivePcs
  BY <1>2, <1>4 DEF Only, LivePcs, RunnerPcs
<1> QED
  BY <1>2, <1>4, <1>6, <1>7, SeqMove

(* The end of a turn nobody works on: a start that fails before the turn was  *)
(* configured, or a cancellation of a turn that waits.                       *)
LEMMA SeqEndsAside ==
  ASSUME OneAtATime, IndInv, SeqInv, NEW t \in Turns,
         StartTurnFails(t) \/ \E k \in Cancellers : CancelAppend(k) /\ t = cancel[k].turn
  PROVE  SeqInv'
<1>1. /\ call' = call /\ handles' = handles /\ \A c \in Calls : ~Active(c)
      /\ \A k \in Cancellers : cancel'[k].pc = "idle"
  <2>1. CASE StartTurnFails(t)
    BY <2>1, SeqNobody DEF StartTurnFails, MayStart, Active
  <2>2. ASSUME NEW k \in Cancellers, CancelAppend(k)
        PROVE  /\ call' = call /\ handles' = handles /\ \A c \in Calls : ~Active(c)
               /\ \A l \in Cancellers : cancel'[l].pc = "idle"
    <3>1. /\ call' = call /\ handles' = handles /\ cancel[k].pc = "append"
          /\ \A l \in Cancellers : cancel'[l] = cancel[l] \/ cancel'[l].pc = "idle"
          /\ cancel'[k].pc = "idle"
      BY <2>2 DEF CancelAppend, IndInv, TypeOK, ProcessTypeOK, IdleCancel
    <3> QED
      BY <3>1 DEF SeqInv, OneInFlight
  <2> QED
    BY <2>1, <2>2
<1>2. \/ Waiting = {} /\ AppendError(t)
      \/ AppendCanceled(t)
  BY DEF StartTurnFails, MayStart, CancelAppend, Pending, Waiting
<1> QED
  BY <1>1, <1>2, SeqEnds, SeqAside

(* A cancellation finds no call to signal.                                   *)
LEMMA SeqCancel ==
  ASSUME OneAtATime, IndInv, SeqInv, NEW k \in Cancellers,
         CancelSnapshot(k) \/ \E t \in Turns : CancelLookup(k, t)
  PROVE  SeqInv'
<1>1. /\ call' = call /\ handles' = handles /\ UNCHANGED logVars
      /\ \A c \in Calls : ~Active(c)
      /\ \A l \in Cancellers : l # k => cancel[l].pc = "idle" /\ cancel'[l] = cancel[l]
      /\ cancel'[k].pc # "signal" /\ (cancel'[k].pc # "idle" => cancel'[k].turn \in Turns)
  <2>1. CASE CancelSnapshot(k)
    <3>1. /\ cancel[k].pc = "snapshot" /\ cancel'[k].pc # "signal"
          /\ cancel'[k].pc # "idle" => cancel'[k].turn = cancel[k].turn
          /\ \A l \in Cancellers : l # k => cancel'[l] = cancel[l]
      BY <2>1 DEF CancelSnapshot, IndInv, TypeOK, ProcessTypeOK, CancelRecords, IdleCancel
    <3> QED
      BY <2>1, <3>1 DEF CancelSnapshot, SeqInv, OneInFlight
  <2>2. ASSUME NEW t \in Turns, CancelLookup(k, t)
        PROVE  /\ \A c \in Calls : ~Active(c)
               /\ \A l \in Cancellers : l # k => cancel[l].pc = "idle" /\ cancel'[l] = cancel[l]
               /\ cancel'[k].pc # "signal" /\ cancel'[k].turn \in Turns
    <3>1. NothingInFlight
      BY <2>2 DEF CancelLookup, MayCancel, OneAtATime
    <3>2. handles[t] = NoCall
      BY <3>1, SeqNobody
    <3>3. /\ cancel'[k].pc = "snapshot" /\ cancel'[k].turn = t
          /\ \A l \in Cancellers : l # k => cancel'[l] = cancel[l]
      BY <2>2, <3>2 DEF CancelLookup, IndInv, TypeOK, ProcessTypeOK
    <3> QED
      BY <3>1, <3>3, SeqNobody DEF Active
  <2> QED
    BY <2>1, <2>2 DEF CancelSnapshot, CancelLookup
<1>2. PendingIsOpen' /\ \A t \in Turns : status'[t] = status[t] /\ PendingOf(t)' = PendingOf(t)
  BY <1>1, SeqSame
<1> QED
  BY <1>1, <1>2, SeqAside

-----------------------------------------------------------------------------
(* Answers.                                                                 *)

LEMMA SeqCheck ==
  ASSUME OneAtATime, IndInv, SeqInv, NEW c \in Calls, CheckPending(c)
  PROVE  SeqInv'
<1>1. /\ call[c].pc = "check" /\ UNCHANGED <<handles, cancel>> /\ UNCHANGED logVars
      /\ Goto(c, "append") \/ Leave(c)
  BY DEF CheckPending
<1>2. Only(c) /\ Alone(call[c]) /\ call[c] \in CallRecords
  BY <1>1, SeqOnly DEF Active
<1>3. PICK r \in {[call[c] EXCEPT !.pc = "append"], Idle} : call' = [call EXCEPT ![c] = r]
  BY <1>1, Moves
<1>4. Alone(r)
  <2>1. CASE r = Idle
    BY <2>1, SeqIdle
  <2>2. CASE r = [call[c] EXCEPT !.pc = "append"]
    BY <1>1, <1>2, <2>2 DEF Alone, CallRecords, LivePcs, RunnerPcs
  <2> QED
    BY <1>3, <2>1, <2>2
<1>5. /\ \A t \in Turns : handles[t] = NoCall
      /\ \A k \in Cancellers : cancel[k].pc = "idle"
      /\ call[c].pc \notin LivePcs
  BY <1>1, <1>2 DEF Only, Working, LivePcs, RunnerPcs
<1> QED
  BY <1>1, <1>2, <1>3, <1>4, <1>5, SeqMove

(* The answer closes its request: the one thing the turn waited for, and the turn *)
(* goes on, or what a turn that is over left behind.                         *)
LEMMA SeqDecision ==
  ASSUME OneAtATime, IndInv, SeqInv, NEW c \in Calls, AppendDecision(c)
  PROVE  SeqInv'
<1>0. PICK q, t : q = call[c].req /\ t = call[c].turn
  OBVIOUS
<1>1. /\ call[c].pc = "append" /\ UNCHANGED <<status, ended, tools, handles, cancel>>
      /\ request' = [request EXCEPT ![q] = call[c].decision]
      /\ Goto(c, "stop") \/ Goto(c, "begin")
  BY <1>0 DEF AppendDecision
<1>2. Only(c) /\ Alone(call[c]) /\ t \in Turns /\ call[c] \in CallRecords
  BY <1>0, <1>1, SeqOnly DEF Active
<1>3. q \in Requests /\ call[c].decision # "pending" /\ request[q] = "pending" /\ t = TurnOf(q)
  BY <1>0, <1>1, <1>2, ProcessFacts DEF IndInv, CallShape, CallRecords, Alone
<1>4. q \in Pending /\ OpenRequest(q) /\ Waiting \subseteq {q} \cup {p \in Pending : TurnOf(p) # t}
  BY <1>3 DEF Pending, Waiting, SeqInv, PendingIsOpen
<1>5. \A r \in Requests : request'[r] = IF r = q THEN call[c].decision ELSE request[r]
  BY <1>1, <1>3 DEF IndInv, TypeOK, LogTypeOK
<1>6. Pending' = Pending \ {q} /\ Waiting' = Waiting \ {q}
  BY <1>1, <1>3, <1>5 DEF Pending, Waiting
<1>7. /\ ~ended[t] => status[t] = "running" /\ Waiting = {q}
      /\ ended[t] => ~IsQuestion(q)
  BY <1>3, <1>4, SMTT(60) DEF SeqInv, PendingIsOpen, Waiting, Stranded
<1>8. PICK r \in {[call[c] EXCEPT !.pc = "stop"], [call[c] EXCEPT !.pc = "begin"]} :
         call' = [call EXCEPT ![c] = r]
  BY <1>1, Moves, ZenonT(60)
<1>9. /\ r.pc \in {"stop", "begin"} /\ r.turn = t /\ r.req = q
      /\ r.canceled = call[c].canceled /\ r.result = call[c].result
      /\ r.pc = "stop" => IsQuestion(q)
  <2>1. /\ r.pc \in {"stop", "begin"} /\ r.turn = t /\ r.req = q
        /\ r.canceled = call[c].canceled /\ r.result = call[c].result
    BY <1>0, <1>2, <1>8 DEF CallRecords
  <2>2. r.pc = "stop" => IsQuestion(q)
    <3>1. call'[c].pc = r.pc
      BY <1>8 DEF IndInv, TypeOK, ProcessTypeOK
    <3>2. ~IsQuestion(q) => Goto(c, "begin")
      BY <1>0 DEF AppendDecision
    <3>3. Goto(c, "begin") => call'[c].pc = "begin"
      BY <1>2 DEF Goto, IndInv, TypeOK, ProcessTypeOK, CallRecords
    <3> QED
      BY <3>1, <3>2, <3>3
  <2> QED
    BY <2>1, <2>2
<1>10. PendingIsOpen'
  <2>1. \A p \in Pending : OpenRequest(p)' = OpenRequest(p) /\ Stranded(p)' = Stranded(p)
    BY <1>1 DEF OpenRequest, OpenTool, Stranded
  <2> QED
    BY <1>1, <1>6, <2>1 DEF SeqInv, PendingIsOpen
<1>11. Alone(r)'
  <2>1. OpenRequest(q)'
    BY <1>1, <1>4 DEF OpenRequest, OpenTool
  <2>2. q # NoRequest
    BY <1>3, TurnAssumption DEF Requests, NoRequest, Turns
  <2>3. Live(r)' \/ Late(r)'
    <3>1. CASE ended[t]
      BY <1>1, <1>7, <1>9, <2>2, <3>1 DEF Late
    <3>2. CASE ~ended[t]
      BY <1>1, <1>6, <1>7, <1>9, <3>2 DEF Live
    <3> QED
      BY <3>1, <3>2
  <2> QED
    BY <1>1, <1>2, <1>3, <1>9, <2>1, <2>3 DEF Alone, LivePcs, RunnerPcs
<1>12. \A u \in Turns : status'[u] = "running" =>
          \/ r.pc \in LivePcs /\ r.turn = u
          \/ /\ status[u] = "running" /\ PendingOf(u) \subseteq PendingOf(u)'
             /\ ~(call[c].pc \in LivePcs /\ call[c].turn = u)
  BY <1>1, <1>3, <1>5, <1>9 DEF PendingOf, LivePcs, RunnerPcs
<1>13. RunningIsKept'
  BY <1>2, <1>8, <1>12, SeqKept
<1>14. \A u \in Turns : handles[u] = NoCall
  BY <1>1, <1>2 DEF Only, Working, RunnerPcs
<1> QED
  BY <1>1, <1>2, <1>8, <1>10, <1>11, <1>13, <1>14, SeqStep DEF Only

LEMMA SeqStop ==
  ASSUME OneAtATime, IndInv, SeqInv, NEW c \in Calls,
         StopTurn(c) \/ \E t \in Turns : ContinueFails(c, t)
  PROVE  SeqInv'
<1>1. PICK t \in Turns :
         /\ AppendCanceled(t) \/ AppendError(t)
         /\ call[c].pc \in {"stop", "continue"} /\ Leave(c) /\ UNCHANGED <<handles, cancel>>
         /\ call[c].pc = "stop" => call[c].turn = t
  BY ProcessFacts DEF StopTurn, ContinueFails, Active
<1>2. Only(c) /\ Alone(call[c])
  BY <1>1, SeqOnly DEF Active
<1>3. Waiting = {} /\ \A u \in Turns : handles[u] = NoCall
  BY <1>1, <1>2 DEF Only, Working, RunnerPcs, Alone, Live, Late, LivePcs
<1>4. call' = [call EXCEPT ![c] = Idle]
  BY <1>1 DEF Leave
<1>5. /\ PendingIsOpen'
      /\ \A u \in Turns : status'[u] = "running" =>
            u # t /\ status[u] = "running" /\ PendingOf(u) \subseteq PendingOf(u)'
  BY <1>1, <1>3, SeqEnds
<1>6. \A u \in Turns : status'[u] = "running" =>
         /\ status[u] = "running" /\ PendingOf(u) \subseteq PendingOf(u)'
         /\ ~(call[c].pc \in LivePcs /\ call[c].turn = u)
  BY <1>1, <1>5 DEF LivePcs, RunnerPcs
<1>7. RunningIsKept'
  BY <1>2, <1>4, <1>6, SeqKept
<1>8. Alone(Idle)'
  BY DEF Idle, Alone, LivePcs, RunnerPcs
<1> QED
  BY <1>1, <1>2, <1>3, <1>4, <1>5, <1>7, <1>8, SeqStep DEF Only

-----------------------------------------------------------------------------
(* The runner.                                                              *)

(* A record with another program counter, and perhaps another tool.          *)
LEMMA SeqRecord ==
  ASSUME NEW x \in CallRecords, NEW pc, NEW k
  PROVE  /\ LET r == [x EXCEPT !.pc = pc]
            IN /\ r.pc = pc /\ r.turn = x.turn /\ r.tool = x.tool
               /\ r.canceled = x.canceled /\ r.result = x.result
         /\ LET r == [x EXCEPT !.pc = pc, !.tool = k]
            IN r.pc = pc /\ r.turn = x.turn /\ r.tool = k /\ r.canceled = x.canceled /\ r.result = x.result
         /\ LET r == [x EXCEPT !.pc = pc, !.result = k]
            IN r.pc = pc /\ r.turn = x.turn /\ r.canceled = x.canceled /\ r.result = k
BY DEF CallRecords

(* What a runner knows.                                                      *)
LEMMA SeqRunner ==
  ASSUME IndInv, SeqInv, NEW c \in Calls, call[c].pc \in LivePcs
  PROVE  /\ Only(c) /\ Alone(call[c]) /\ call[c] \in CallRecords /\ call[c].turn \in Turns
         /\ \A k \in Cancellers : cancel[k].pc = "idle"
         /\ Live(call[c]) \/ Late(call[c])
         /\ call[c].pc \notin {"begin", "replay"} => Live(call[c])
<1>1. Active(c)
  BY DEF Active, LivePcs, RunnerPcs
<1> QED
  BY <1>1, SeqOnly DEF Only, Alone, Late

(* ... once it is past its replay.                                           *)
LEMMA SeqWorks ==
  ASSUME IndInv, SeqInv, NEW c \in Calls, call[c].pc \in {"step", "tool", "denied", "ran"}
  PROVE  /\ Only(c) /\ Alone(call[c]) /\ call[c] \in CallRecords /\ call[c].turn \in Turns
         /\ Waiting = {} /\ status[call[c].turn] = "running" /\ ~ended[call[c].turn]
         /\ \A k \in Cancellers : cancel[k].pc = "idle"
<1>1. call[c].pc \in LivePcs
  BY DEF LivePcs, RunnerPcs
<1> QED
  BY <1>1, SeqRunner DEF Live

LEMMA SeqBegin ==
  ASSUME OneAtATime, IndInv, SeqInv, NEW c \in Calls, Begin(c)
  PROVE  SeqInv'
<1>0. PICK t : t = call[c].turn
  OBVIOUS
<1>1. call[c].pc = "begin" /\ UNCHANGED cancel /\ UNCHANGED logVars
  BY DEF Begin
<1>2. /\ Only(c) /\ Alone(call[c]) /\ call[c] \in CallRecords /\ t \in Turns
      /\ \A k \in Cancellers : cancel[k].pc = "idle"
      /\ Live(call[c]) \/ Late(call[c])
  BY <1>0, <1>1, SeqRunner DEF LivePcs
<1>3. \A u \in Turns : handles[u] = NoCall
  BY <1>1, <1>2 DEF Only, Working, RunnerPcs
<1>4. /\ handles' = [handles EXCEPT ![t] = c]
      /\ Goto(c, IF call[c].req = NoRequest THEN "step" ELSE "replay")
  BY <1>0, <1>2, <1>3 DEF Begin
<1>5. PICK r : r = [call[c] EXCEPT !.pc = IF call[c].req = NoRequest THEN "step" ELSE "replay"]
  OBVIOUS
<1>6. call' = [call EXCEPT ![c] = r]
  BY <1>4, <1>5, Moves
<1>7. /\ r.pc \in {"step", "replay"} /\ r.turn = t /\ r.req = call[c].req
      /\ r.canceled = call[c].canceled /\ r.result = call[c].result
      /\ call[c].req # NoRequest => r.pc = "replay"
  BY <1>0, <1>2, <1>5 DEF CallRecords
<1>8. Alone(r)
  <2>1. Live(r) \/ Late(r)
    BY <1>0, <1>1, <1>2, <1>7 DEF Live, Late
  <2> QED
    BY <1>0, <1>1, <1>2, <1>7, <2>1 DEF Alone, LivePcs, RunnerPcs
<1>9. \A u \in Turns : handles'[u] # NoCall => handles'[u] = c /\ u = t
  BY <1>2, <1>3, <1>4 DEF IndInv, TypeOK, ProcessTypeOK
<1>10. r.pc \in LivePcs /\ r.pc \in RunnerPcs
  BY <1>7 DEF LivePcs, RunnerPcs
<1> QED
  BY <1>0, <1>1, <1>2, <1>6, <1>7, <1>8, <1>9, <1>10, SeqMove

(* The answer of a turn that is over is refused.                             *)
LEMMA SeqRefuse ==
  ASSUME OneAtATime, IndInv, SeqInv, NEW c \in Calls, Replay(c), ended[call[c].turn]
  PROVE  SeqInv'
<1>1. /\ call[c].pc = "replay" /\ UNCHANGED <<handles, cancel>> /\ UNCHANGED logVars
      /\ Returned(c, "error")
  BY DEF Replay, Runs, NotResumable
<1>2. /\ Only(c) /\ Alone(call[c]) /\ call[c] \in CallRecords /\ call[c].turn \in Turns
      /\ \A k \in Cancellers : cancel[k].pc = "idle"
  BY <1>1, SeqRunner DEF LivePcs, RunnerPcs
<1>3. PICK r : r = [call[c] EXCEPT !.pc = "returned", !.result = "error"]
  BY SMTT(60)
<1>4. call' = [call EXCEPT ![c] = r]
  BY <1>1, <1>3, Moves
<1>5. r.pc = "returned" /\ r.turn = call[c].turn /\ r.canceled = call[c].canceled /\ r.result = "error"
  BY <1>2, <1>3, SeqRecord
<1>6. Alone(r)
  BY <1>2, <1>5 DEF Alone, LivePcs, RunnerPcs
<1>7. status[call[c].turn] # "running"
  BY <1>2 DEF SeqInv, PendingIsOpen
<1>8. /\ \A k \in Cancellers : cancel'[k].pc = "idle"
      /\ \A u \in Turns : handles'[u] # NoCall => handles'[u] = c /\ r.turn = u
  BY <1>1, <1>2, <1>5 DEF Only
<1> QED
  BY <1>1, <1>2, <1>4, <1>5, <1>6, <1>7, <1>8, SeqMove, ZenonT(60)

(* A request of a turn that is not over was answered alone, and is resumed.  *)
LEMMA SeqReplay ==
  ASSUME OneAtATime, IndInv, SeqInv, NEW c \in Calls, Replay(c), ~ended[call[c].turn]
  PROVE  SeqInv'
<1>0. PICK t, q : t = call[c].turn /\ q = call[c].req
  OBVIOUS
<1>1. call[c].pc = "replay" /\ UNCHANGED <<handles, cancel>> /\ UNCHANGED logVars
  BY DEF Replay, Runs
<1>2. /\ Only(c) /\ Alone(call[c]) /\ call[c] \in CallRecords /\ ~ended[t]
      /\ \A k \in Cancellers : cancel[k].pc = "idle"
      /\ Live(call[c])
  BY <1>0, <1>1, SeqRunner DEF LivePcs, RunnerPcs, Late
<1>3. q \in Requests /\ q # NoRequest
  BY <1>0, <1>1, TurnAssumption DEF IndInv, CallShape, Requests, NoRequest, Turns
<1>4. OpenRequest(q) /\ t = TurnOf(q)
  BY <1>0, <1>1, <1>2, <1>3 DEF Alone
<1>5. ~NotResumable(c)
  BY <1>0, <1>2, <1>4 DEF NotResumable, OpenRequest, OpenTool
<1>6. \/ IsQuestion(q) /\ Goto(c, "step")
      \/ /\ ~IsQuestion(q)
         /\ \E pc \in {"tool", "denied"} : call' = [call EXCEPT ![c].tool = ToolOf(q), ![c].pc = pc]
  BY <1>0, <1>5 DEF Replay
<1>7. PICK r : /\ call' = [call EXCEPT ![c] = r]
               /\ r.pc \in {"step", "tool", "denied"} /\ r.turn = t /\ r.req = q
               /\ r.canceled = call[c].canceled /\ r.result = call[c].result
               /\ r.pc \in {"tool", "denied"} => ~IsQuestion(q) /\ r.tool = ToolOf(q)
  <2>1. CASE Goto(c, "step")
    <3>1. PICK r : r = [call[c] EXCEPT !.pc = "step"]
      OBVIOUS
    <3>2. /\ r.pc = "step" /\ r.turn = t /\ r.req = q
          /\ r.canceled = call[c].canceled /\ r.result = call[c].result
      BY <1>0, <1>2, <3>1 DEF CallRecords
    <3>3. call' = [call EXCEPT ![c] = r]
      BY <2>1, <3>1, Moves
    <3> QED
      BY <3>2, <3>3
  <2>2. ASSUME ~IsQuestion(q), NEW pc \in {"tool", "denied"},
               call' = [call EXCEPT ![c].tool = ToolOf(q), ![c].pc = pc]
        PROVE  \E r : /\ call' = [call EXCEPT ![c] = r]
                      /\ r.pc \in {"step", "tool", "denied"} /\ r.turn = t /\ r.req = q
                      /\ r.canceled = call[c].canceled /\ r.result = call[c].result
                      /\ r.pc \in {"tool", "denied"} => ~IsQuestion(q) /\ r.tool = ToolOf(q)
    <3>1. PICK r : r = [call[c] EXCEPT !.tool = ToolOf(q), !.pc = pc]
      OBVIOUS
    <3>2. /\ r.pc = pc /\ r.turn = t /\ r.req = q /\ r.tool = ToolOf(q)
          /\ r.canceled = call[c].canceled /\ r.result = call[c].result
      BY <1>0, <1>2, <3>1 DEF CallRecords
    <3>3. call' = [call EXCEPT ![c] = r]
      BY <2>2, <3>1
    <3> QED
      BY <2>2, <3>2, <3>3
  <2> QED
    BY <1>6, <2>1, <2>2
<1>8. Alone(r)
  <2>1. r.pc \in {"tool", "denied"} => OpenTool(t, r.tool)
    BY <1>4, <1>7 DEF OpenRequest
  <2>2. Live(r)
    BY <1>0, <1>1, <1>2, <1>7 DEF Live
  <2> QED
    BY <1>0, <1>1, <1>2, <1>7, <2>1, <2>2 DEF Alone, LivePcs, RunnerPcs
<1>9. r.pc \in LivePcs /\ r.pc \in RunnerPcs
  BY <1>7 DEF LivePcs, RunnerPcs
<1>10. /\ \A k \in Cancellers : cancel'[k].pc = "idle"
       /\ \A u \in Turns : handles'[u] # NoCall => handles'[u] = c /\ r.turn = u
  BY <1>0, <1>1, <1>2, <1>7 DEF Only
<1>11. call' = [call EXCEPT ![c] = r] /\ r.turn = call[c].turn
  BY <1>0, <1>7
<1> QED
  BY <1>1, <1>2, <1>8, <1>9, <1>10, <1>11, SeqMove, ZenonT(60)

(* The runner goes on: what it writes is about its tools.                    *)
LEMMA SeqRuns ==
  ASSUME IndInv, SeqInv, NEW c \in Calls, call[c].pc \in {"step", "tool", "denied", "ran"}, NEW r,
         call' = [call EXCEPT ![c] = r], UNCHANGED <<handles, cancel>>,
         \A t \in Turns : t # call[c].turn => tools'[t] = tools[t],
         request' = request, ended' = ended, \A t \in Turns : status'[t] = status[t],
         r.pc \in {"step", "tool", "ran"}, r.turn = call[c].turn,
         r.canceled = call[c].canceled, r.result = call[c].result,
         r.pc # "step" => OpenTool(r.turn, r.tool)'
  PROVE  SeqInv'
<1>1. /\ Only(c) /\ Alone(call[c]) /\ call[c].turn \in Turns
      /\ Waiting = {} /\ status[call[c].turn] = "running" /\ ~ended[call[c].turn]
      /\ \A k \in Cancellers : cancel[k].pc = "idle"
  BY SeqWorks
<1>2. Pending' = Pending /\ Waiting' = {}
  BY <1>1 DEF Pending, Waiting
<1>3. PendingIsOpen'
  <2>1. \A q \in Pending : TurnOf(q) \in Turns /\ TurnOf(q) # call[c].turn
    BY <1>1, RequestParts DEF Pending, Waiting
  <2>2. \A q \in Pending : OpenRequest(q)'
    BY <2>1 DEF SeqInv, PendingIsOpen, OpenRequest, OpenTool
  <2>3. \A q \in Pending : ended'[TurnOf(q)] => Stranded(q)'
    <3> SUFFICES ASSUME NEW q \in Pending, ended'[TurnOf(q)] PROVE Stranded(q)'
      OBVIOUS
    <3>1. Stranded(q) /\ TurnOf(q) \in Turns /\ TurnOf(q) # call[c].turn
      BY <2>1 DEF SeqInv, PendingIsOpen
    <3> QED
      BY <3>1 DEF Stranded
  <2> QED
    BY <1>2, <2>2, <2>3 DEF SeqInv, PendingIsOpen
<1>4. Alone(r)'
  BY <1>1, <1>2 DEF Alone, Live, LivePcs, RunnerPcs
<1>5. \A t \in Turns : status'[t] = "running" =>
         \/ r.pc \in LivePcs /\ r.turn = t
         \/ /\ status[t] = "running" /\ PendingOf(t) \subseteq PendingOf(t)'
            /\ ~(call[c].pc \in LivePcs /\ call[c].turn = t)
  BY DEF LivePcs, RunnerPcs, PendingOf
<1>6. RunningIsKept'
  BY <1>1, <1>5, SeqKept
<1>7. r.pc \in RunnerPcs
  BY DEF RunnerPcs
<1>8. /\ \A k \in Cancellers : cancel'[k].pc = "idle"
      /\ \A u \in Turns : handles'[u] # NoCall => handles'[u] = c /\ r.turn = u
  BY <1>1 DEF Only
<1> QED
  BY <1>1, <1>3, <1>4, <1>6, <1>7, <1>8, SeqStep

LEMMA SeqTools ==
  ASSUME OneAtATime, IndInv, RunInv, SeqInv, NEW c \in Calls,
         Retry(c) \/ DenyTool(c) \/ EndTool(c)
  PROVE  SeqInv'
<1>1. call[c].pc \in {"step", "tool", "denied", "ran"}
  BY DEF Retry, DenyTool, EndTool, Runs
<1>2. call[c] \in CallRecords /\ status[call[c].turn] = "running"
  BY <1>1, SeqWorks
<1>3. CASE Retry(c)
  <2>1. PICK r : r = call[c]
    OBVIOUS
  <2>2. call' = [call EXCEPT ![c] = r] /\ r.pc = "step"
    BY <1>3, <2>1 DEF Retry, Runs, IndInv, TypeOK, ProcessTypeOK
  <2>3. \A t \in Turns : status'[t] = status[t]
    BY <1>2, <1>3 DEF Retry, IndInv, TypeOK, LogTypeOK
  <2> QED
    BY <1>1, <1>3, <2>1, <2>2, <2>3, SeqRuns DEF Retry
<1>4. CASE DenyTool(c) \/ EndTool(c)
  <2>1. PICK r : r = [call[c] EXCEPT !.pc = "step"]
    OBVIOUS
  <2>2. /\ Goto(c, "step") /\ UNCHANGED <<handles, cancel, request, ended, status>>
        /\ \A t \in Turns : t # call[c].turn => tools'[t] = tools[t]
    BY <1>4, SMTT(60) DEF DenyTool, EndTool, EndToolCall, IndInv, TypeOK, LogTypeOK
  <2>3. call' = [call EXCEPT ![c] = r]
    BY <2>1, <2>2, Moves
  <2>4. r.pc = "step" /\ r.turn = call[c].turn /\ r.canceled = call[c].canceled /\ r.result = call[c].result
    BY <1>2, <2>1, SeqRecord
  <2> QED
    BY <1>1, <2>2, <2>3, <2>4, SeqRuns
<1> QED
  BY <1>3, <1>4

LEMMA SeqRunTool ==
  ASSUME OneAtATime, IndInv, RunInv, SeqInv, NEW c \in Calls, RunTool(c)
  PROVE  SeqInv'
<1>0. PICK t, k : t = call[c].turn /\ k = call[c].tool
  OBVIOUS
<1> DEFINE v == [tools[t][k] EXCEPT !.ran = @ + 1]
<1>1. /\ call[c].pc = "tool" /\ Goto(c, "ran")
      /\ UNCHANGED <<handles, cancel, request, ended, status>>
      /\ tools' = [tools EXCEPT ![t] = [tools[t] EXCEPT ![k] = v]]
  BY <1>0 DEF RunTool, Runs
<1>2. call[c].pc \in {"step", "tool", "denied", "ran"}
  BY <1>1
<1>3. call[c] \in CallRecords /\ Alone(call[c]) /\ t \in Turns
  BY <1>0, <1>2, SeqWorks, SMTT(60)
<1>4. k \in 1..Len(tools[t]) /\ ~tools[t][k].ended
  BY <1>0, <1>1, <1>3 DEF Alone, OpenTool
<1>5. tools[t][k] \in ToolCalls
  BY <1>3, <1>4, ToolNumbers
<1>6. v \in ToolCalls /\ v.ended = tools[t][k].ended
  BY <1>5 DEF ToolCalls
<1> HIDE DEF v
<1>7. Len(tools'[t]) = Len(tools[t]) /\ tools'[t][k] = v
  <2>1. k \in 1..Len(tools[t]) /\ tools' = [tools EXCEPT ![t] = [tools[t] EXCEPT ![k] = v]]
    BY <1>1, <1>4
  <2> QED
    BY <1>3, <1>6, <2>1, ToolUpdate, ZenonT(60)
<1>8. OpenTool(t, k)'
  BY <1>4, <1>6, <1>7 DEF OpenTool
<1>9. PICK r : r = [call[c] EXCEPT !.pc = "ran"]
  OBVIOUS
<1>10. call' = [call EXCEPT ![c] = r]
  BY <1>1, <1>9, Moves
<1>11. /\ r.pc = "ran" /\ r.turn = t /\ r.tool = k
       /\ r.canceled = call[c].canceled /\ r.result = call[c].result
  BY <1>0, <1>3, <1>9, SeqRecord
<1>12. /\ r.turn = call[c].turn /\ OpenTool(r.turn, r.tool)'
       /\ \A u \in Turns : u # call[c].turn => tools'[u] = tools[u]
  BY <1>0, <1>1, <1>8, <1>11 DEF IndInv, TypeOK, LogTypeOK
<1> QED
  BY <1>1, <1>2, <1>10, <1>11, <1>12, SeqRuns

LEMMA SeqDeclare ==
  ASSUME OneAtATime, IndInv, RunInv, SeqInv, NEW c \in Calls, NEW n \in 0..MaxStages, NEW x \in BOOLEAN,
         DeclareTool(c, n, x)
  PROVE  SeqInv'
<1>0. PICK t, k : t = call[c].turn /\ k = Len(tools[t]) + 1
  OBVIOUS
<1> DEFINE v == [need |-> n, ended |-> FALSE, ran |-> 0, cut |-> x]
<1>1. /\ call[c].pc = "step" /\ call' = [call EXCEPT ![c].pc = "tool", ![c].tool = k]
      /\ UNCHANGED <<handles, cancel, request, ended, status>>
      /\ tools' = [tools EXCEPT ![t] = Append(tools[t], v)]
  BY <1>0 DEF DeclareTool, Runs
<1>2. call[c].pc \in {"step", "tool", "denied", "ran"}
  BY <1>1
<1>3. call[c] \in CallRecords /\ t \in Turns
  BY <1>0, <1>2, SeqWorks
<1>4. tools[t] \in Seq(ToolCalls) /\ v \in ToolCalls /\ Len(tools[t]) \in Nat /\ ~v.ended
  BY <1>3, ToolNumbers DEF ToolCalls
<1>5. tools'[t] = Append(tools[t], v)
  BY <1>1, <1>3 DEF IndInv, TypeOK, LogTypeOK
<1> HIDE DEF v
<1>6. Len(tools'[t]) = k /\ tools'[t][k] = v /\ k \in 1..k
  BY <1>0, <1>4, <1>5, AppendProperties
<1>7. OpenTool(t, k)'
  BY <1>4, <1>6 DEF OpenTool
<1>8. PICK r : r = [call[c] EXCEPT !.pc = "tool", !.tool = k]
  OBVIOUS
<1>9. call' = [call EXCEPT ![c] = r]
  BY <1>1, <1>8
<1>10. /\ r.pc = "tool" /\ r.turn = t /\ r.tool = k
       /\ r.canceled = call[c].canceled /\ r.result = call[c].result
  BY <1>0, <1>3, <1>8, SeqRecord
<1>11. /\ r.turn = call[c].turn /\ OpenTool(r.turn, r.tool)'
       /\ \A u \in Turns : u # call[c].turn => tools'[u] = tools[u]
  BY <1>0, <1>1, <1>7, <1>10 DEF IndInv, TypeOK, LogTypeOK
<1> QED
  BY <1>1, <1>2, <1>9, <1>10, <1>11, SeqRuns

(* The runner asks about the tool in its hands, or whether to go on; nothing  *)
(* else waits.                                                               *)
LEMMA SeqAsk ==
  ASSUME OneAtATime, IndInv, RunInv, SeqInv, NEW c \in Calls, AskApproval(c) \/ AskQuestion(c)
  PROVE  SeqInv'
<1>0. PICK t : t = call[c].turn
  OBVIOUS
<1>1. /\ call[c].pc \in {"tool", "step", "denied", "ran"}
      /\ Returned(c, "pending") \/ (Goto(c, "broken") /\ AskApproval(c) /\ StreamBroke(c))
      /\ UNCHANGED <<handles, cancel, tools, ended, status>>
  BY DEF AskApproval, AskQuestion, Ask, Runs
<1>2. /\ Only(c) /\ Alone(call[c]) /\ call[c] \in CallRecords /\ t \in Turns
      /\ Waiting = {} /\ status[t] = "running" /\ ~ended[t]
      /\ \A k \in Cancellers : cancel[k].pc = "idle"
  BY <1>0, <1>1, SeqWorks
<1>3. PICK q \in Requests : /\ request' = [request EXCEPT ![q] = "pending"]
                            /\ TurnOf(q) = t /\ OpenRequest(q)
                            /\ Goto(c, "broken") => Cut(q)
  <2>1. CASE AskApproval(c)
    <3>0. PICK k : k = call[c].tool
      OBVIOUS
    <3>1. PICK s \in MissingStages(t, k) : request' = [request EXCEPT ![<<t, k, s>>] = "pending"]
      BY <1>0, <2>1, <3>0 DEF AskApproval, Ask
    <3>2. OpenTool(t, k)
      BY <1>0, <1>2, <2>1, <3>0 DEF AskApproval, Runs, Alone
    <3>3. tools[t][k] \in ToolCalls /\ k \in 1..MaxTools
      BY <1>2, <3>2, ToolNumbers DEF OpenTool
    <3>4. s \in 1..MaxStages
      BY <3>3, TurnAssumption DEF MissingStages, ToolCalls
    <3>5. <<t, k, s>> \in Requests
      BY <1>2, <3>3, <3>4 DEF Requests
    <3>6. PICK q : q = <<t, k, s>>
      OBVIOUS
    <3>7. TurnOf(q) = t /\ ToolOf(q) = k /\ ~IsQuestion(q)
      BY <3>3, <3>6, TurnAssumption DEF TurnOf, ToolOf, IsQuestion
    <3>8. StreamBroke(c) => Cut(q)
      BY <1>0, <3>0, <3>7 DEF StreamBroke, Cut
    <3>9. Goto(c, "broken") => StreamBroke(c)
      <4> SUFFICES ASSUME Goto(c, "broken"), Returned(c, "pending") PROVE FALSE
        BY <1>1
      <4>1. call'[c].pc = "broken" /\ call'[c].pc = "returned"
        BY <1>2 DEF Goto, Returned, IndInv, TypeOK, ProcessTypeOK, CallRecords
      <4> QED
        BY <4>1
    <3> QED
      BY <3>1, <3>2, <3>5, <3>6, <3>7, <3>8, <3>9 DEF OpenRequest
  <2>2. CASE AskQuestion(c)
    <3>1. PICK q \in 1..MaxQuestions : request' = [request EXCEPT ![<<t, 0, q>>] = "pending"]
      BY <1>0, <2>2 DEF AskQuestion, Ask
    <3>2. <<t, 0, q>> \in Requests
      BY <1>2 DEF Requests
    <3>3. ~Goto(c, "broken")
      <4> SUFFICES ASSUME Goto(c, "broken"), Returned(c, "pending") PROVE FALSE
        BY <2>2 DEF AskQuestion
      <4>1. call'[c].pc = "broken" /\ call'[c].pc = "returned"
        BY <1>2 DEF Goto, Returned, IndInv, TypeOK, ProcessTypeOK, CallRecords
      <4> QED
        BY <4>1
    <3> QED
      BY <3>1, <3>2, <3>3 DEF TurnOf, IsQuestion, OpenRequest
  <2> QED
    BY <2>1, <2>2
<1>4. \A r \in Requests : request'[r] = IF r = q THEN "pending" ELSE request[r]
  BY <1>3 DEF IndInv, TypeOK, LogTypeOK
<1>5. /\ Pending' = Pending \cup {q} /\ Waiting' = {q}
  BY <1>1, <1>2, <1>3, <1>4 DEF Pending, Waiting
<1>6. PendingIsOpen'
  <2>1. \A p : OpenRequest(p)' = OpenRequest(p) /\ Stranded(p)' = Stranded(p)
    BY <1>1 DEF OpenRequest, OpenTool, Stranded
  <2> QED
    BY <1>1, <1>2, <1>3, <1>5, <2>1 DEF SeqInv, PendingIsOpen
<1>7. PICK r : /\ call' = [call EXCEPT ![c] = r] /\ r.turn = t /\ r.canceled = call[c].canceled
               /\ \/ r.pc = "returned" /\ r.result = "pending"
                  \/ r.pc = "broken" /\ Goto(c, "broken")
  <2>1. CASE Returned(c, "pending")
    <3>1. PICK r : r = [call[c] EXCEPT !.pc = "returned", !.result = "pending"]
      BY SMTT(60)
    <3>2. call' = [call EXCEPT ![c] = r]
      BY <2>1, <3>1, Moves
    <3>3. r.pc = "returned" /\ r.turn = t /\ r.canceled = call[c].canceled /\ r.result = "pending"
      BY <1>0, <1>2, <3>1, SeqRecord
    <3> QED
      BY <3>2, <3>3
  <2>2. CASE Goto(c, "broken")
    <3>1. PICK r : r = [call[c] EXCEPT !.pc = "broken"]
      OBVIOUS
    <3>2. call' = [call EXCEPT ![c] = r]
      BY <2>2, <3>1, Moves
    <3>3. r.pc = "broken" /\ r.turn = t /\ r.canceled = call[c].canceled
      BY <1>0, <1>2, <3>1, SeqRecord
    <3> QED
      BY <2>2, <3>2, <3>3
  <2> QED
    BY <1>1, <2>1, <2>2
<1>10. Alone(r)'
  <2>1. CASE r.pc = "returned" /\ r.result = "pending"
    BY <1>2, <1>7, <2>1 DEF Alone, LivePcs, RunnerPcs
  <2>2. CASE r.pc = "broken" /\ Goto(c, "broken")
    <3>1. Cut(q)'
      BY <1>1, <1>3, <2>2 DEF Cut
    <3>2. Live(r)'
      BY <1>1, <1>2, <1>3, <1>5, <1>7, <2>2, <3>1 DEF Live
    <3> QED
      BY <1>2, <1>7, <2>2, <3>2 DEF Alone, LivePcs, RunnerPcs
  <2> QED
    BY <1>7, <2>1, <2>2
<1>11. PendingOf(t)' # {} /\ \A u \in Turns : PendingOf(u) \subseteq PendingOf(u)'
  BY <1>3, <1>4 DEF PendingOf
<1>12. \A u \in Turns : status'[u] = "running" =>
          \/ PendingOf(u)' # {}
          \/ /\ status[u] = "running" /\ PendingOf(u) \subseteq PendingOf(u)'
             /\ ~(call[c].pc \in LivePcs /\ call[c].turn = u)
  BY <1>0, <1>1, <1>11
<1>13. RunningIsKept'
  BY <1>2, <1>7, <1>12, SeqKept
<1>14. /\ \A k \in Cancellers : cancel'[k].pc = "idle"
       /\ \A u \in Turns : handles'[u] # NoCall => handles'[u] = c /\ r.turn = u
  BY <1>0, <1>1, <1>2, <1>7 DEF Only
<1>15. r.pc \in RunnerPcs \cup {"returned", "canceling", "finish"}
  BY <1>7 DEF RunnerPcs
<1> QED
  BY <1>2, <1>6, <1>7, <1>10, <1>13, <1>14, <1>15, SeqStep

(* The runner ends its turn.                                                 *)
LEMMA SeqOutcome ==
  ASSUME OneAtATime, IndInv, SeqInv, NEW c \in Calls, TurnDone(c) \/ TurnFail(c) \/ TurnRoll(c)
  PROVE  SeqInv'
<1>0. PICK t : t = call[c].turn
  OBVIOUS
<1>1. PICK x \in {"done", "failed", "rolled"} :
         /\ AppendDone(t) \/ AppendError(t)
         /\ call[c].pc \in {"step", "broken"} /\ Returned(c, x) /\ UNCHANGED <<handles, cancel>>
  BY <1>0 DEF TurnDone, TurnFail, TurnRoll, Runs
<1>2. /\ Only(c) /\ Alone(call[c]) /\ call[c] \in CallRecords /\ t \in Turns
      /\ \A q \in Waiting : TurnOf(q) = t /\ Cut(q)
      /\ \A k \in Cancellers : cancel[k].pc = "idle"
  BY <1>0, <1>1, SeqRunner DEF LivePcs, RunnerPcs, Live
<1>3. /\ PendingIsOpen' /\ status'[t] # "running" /\ Waiting' = {}
      /\ \A u \in Turns : status'[u] = "running" =>
            u # t /\ status[u] = "running" /\ PendingOf(u) \subseteq PendingOf(u)'
  BY <1>1, <1>2, SeqEnds
<1>4. PICK r : r = [call[c] EXCEPT !.pc = "returned", !.result = x]
  BY SMTT(60)
<1>5. call' = [call EXCEPT ![c] = r]
  BY <1>1, <1>4, Moves
<1>6. r.pc = "returned" /\ r.turn = t /\ r.canceled = call[c].canceled /\ r.result = x
  BY <1>0, <1>2, <1>4, SeqRecord
<1>7. Alone(r)'
  BY <1>1, <1>2, <1>3, <1>6 DEF Alone, LivePcs, RunnerPcs
<1>8. \A u \in Turns : status'[u] = "running" =>
         /\ status[u] = "running" /\ PendingOf(u) \subseteq PendingOf(u)'
         /\ ~(call[c].pc \in LivePcs /\ call[c].turn = u)
  BY <1>0, <1>3
<1>9. RunningIsKept'
  BY <1>2, <1>5, <1>8, SeqKept
<1>10. /\ \A k \in Cancellers : cancel'[k].pc = "idle"
       /\ \A u \in Turns : handles'[u] # NoCall => handles'[u] = c /\ r.turn = u
  BY <1>0, <1>1, <1>2, <1>6 DEF Only
<1> QED
  BY <1>2, <1>3, <1>5, <1>6, <1>7, <1>9, <1>10, SeqStep, ZenonT(60)

-----------------------------------------------------------------------------
(* The end of a call.                                                       *)

LEMMA SeqResult ==
  ASSUME OneAtATime, IndInv, SeqInv, NEW c \in Calls, ReturnResult(c)
  PROVE  SeqInv'
<1>1. call[c].pc = "returned" /\ UNCHANGED <<handles, cancel>> /\ UNCHANGED logVars
  BY DEF ReturnResult
<1>2. Only(c) /\ Alone(call[c]) /\ call[c] \in CallRecords
  BY <1>1, SeqOnly DEF Active
<1>3. PICK r : r = [call[c] EXCEPT !.pc = "finish"]
  OBVIOUS
<1>4. call' = [call EXCEPT ![c] = r]
  BY <1>2, <1>3, Moves, ZenonT(60) DEF ReturnResult, Alone
<1>5. r.pc = "finish" /\ r.turn = call[c].turn /\ r.canceled = call[c].canceled /\ r.result = call[c].result
  BY <1>2, <1>3, SeqRecord
<1>6. Alone(r)
  BY <1>1, <1>2, <1>5 DEF Alone, LivePcs, RunnerPcs
<1>7. /\ \A k \in Cancellers : cancel'[k].pc = "idle"
      /\ \A u \in Turns : handles'[u] # NoCall => handles'[u] = c /\ r.turn = u
      /\ call[c].pc \notin LivePcs
  BY <1>1, <1>2, <1>5 DEF Only, LivePcs, RunnerPcs
<1> QED
  BY <1>1, <1>2, <1>4, <1>5, <1>6, <1>7, SeqMove

LEMMA SeqFinish ==
  ASSUME OneAtATime, IndInv, SeqInv, NEW c \in Calls, Finish(c)
  PROVE  SeqInv'
<1>1. /\ call[c].pc = "finish" /\ UNCHANGED logVars
      /\ handles' = [handles EXCEPT ![call[c].turn] = IF @ = c THEN NoCall ELSE @]
      /\ IF call[c].result = "rolled" THEN Goto(c, "continue") ELSE Leave(c)
  BY DEF Finish
<1>2. Only(c) /\ Alone(call[c]) /\ call[c] \in CallRecords /\ call[c].turn \in Turns
  BY <1>1, SeqOnly DEF Active
<1>3. \A k \in Cancellers : cancel'[k].pc = "idle"
  BY <1>2 DEF Finish, Only, IndInv, TypeOK, ProcessTypeOK, CancelRecords
<1>4. \A u \in Turns : handles'[u] = NoCall
  BY <1>1, <1>2 DEF Only, IndInv, TypeOK, ProcessTypeOK
<1>5. PICK r : /\ call' = [call EXCEPT ![c] = r]
               /\ r = Idle \/ (r = [call[c] EXCEPT !.pc = "continue"] /\ call[c].result = "rolled")
  BY <1>1, Moves, ZenonT(60)
<1>6. Alone(r)
  <2>1. CASE r = Idle
    BY <2>1, SeqIdle
  <2>2. CASE r = [call[c] EXCEPT !.pc = "continue"] /\ call[c].result = "rolled"
    <3>1. /\ r.pc = "continue" /\ r.turn = call[c].turn
          /\ r.canceled = call[c].canceled /\ r.result = call[c].result
      BY <1>2, <2>2, SeqRecord
    <3> QED
      BY <1>1, <1>2, <2>2, <3>1 DEF Alone, LivePcs, RunnerPcs
  <2> QED
    BY <1>5, <2>1, <2>2
<1>7. call[c].pc \notin LivePcs
  BY <1>1 DEF LivePcs, RunnerPcs
<1> QED
  BY <1>1, <1>2, <1>3, <1>4, <1>5, <1>6, <1>7, SeqMove

(* Nobody is canceled while it works, and no setup fails on the way back.    *)
LEMMA SeqNever ==
  ASSUME OneAtATime, IndInv, SeqInv
  PROVE  /\ \A c \in Calls : ~SetupFails(c) /\ ~CtxCanceled(c) /\ ~CanceledResult(c)
         /\ \A k \in Cancellers : ~CancelSignal(k)
BY DEF OneAtATime, SetupFails, CtxCanceled, CanceledResult, CancelSignal, Alive,
       SeqInv, CallsAreAlone, Alone, OneInFlight

(* A crash leaves what waits as it is, and may leave a turn that runs alone.  *)
LEMMA SeqCrash ==
  ASSUME OneAtATime, IndInv, SeqInv, Crash
  PROVE  SeqInv'
<1>1. /\ \A c \in Calls : call'[c] = Idle
      /\ \A k \in Cancellers : cancel'[k].pc = "idle"
      /\ \A t \in Turns : handles'[t] = NoCall
      /\ UNCHANGED logVars
  BY DEF Crash, IdleCancel
<1>2. PendingIsOpen'
  BY <1>1, SeqSame
<1>3. CallsAreAlone'
  BY <1>1 DEF CallsAreAlone, Alone, Idle, LivePcs, RunnerPcs
<1>4. OneInFlight'
  BY <1>1, SeqIdle DEF OneInFlight, Active
<1>5. MaxCrashes # 0
  BY TurnAssumption DEF Crash, IndInv, TypeOK, ProcessTypeOK
<1> QED
  BY <1>2, <1>3, <1>4, <1>5 DEF SeqInv, RunningIsKept

LEMMA InitSeq == Init => SeqInv
<1> SUFFICES ASSUME Init PROVE SeqInv
  OBVIOUS
<1>1. /\ \A c \in Calls : call[c] = Idle
      /\ \A k \in Cancellers : cancel[k].pc = "idle"
      /\ \A t \in Turns : handles[t] = NoCall /\ status[t] = "none" /\ ~ended[t]
      /\ Pending = {} /\ Waiting = {}
  BY DEF Init, IdleCancel, Pending, Waiting
<1>2. CallsAreAlone
  BY <1>1 DEF CallsAreAlone, Alone, Idle, LivePcs, RunnerPcs
<1>3. OneInFlight
  BY <1>1, SeqIdle DEF OneInFlight, Active
<1> QED
  BY <1>1, <1>2, <1>3 DEF SeqInv, PendingIsOpen, RunningIsKept

LEMMA NextSeq ==
  ASSUME OneAtATime
  PROVE  IndInv /\ RunInv /\ SeqInv /\ [Next]_vars => SeqInv'
<1> SUFFICES ASSUME IndInv, RunInv, SeqInv, [Next]_vars PROVE SeqInv'
  OBVIOUS
<1>1. ASSUME NEW c \in Calls, NEW t \in Turns, StartTurn(c, t) PROVE SeqInv'
  BY <1>1, SeqStart
<1>2. ASSUME NEW t \in Turns, StartTurnFails(t) PROVE SeqInv'
  BY <1>2, SeqEndsAside
<1>3. ASSUME NEW c \in Calls, NEW r \in Requests, NEW d \in {"approved", "denied"}, Resolve(c, r, d)
      PROVE  SeqInv'
  BY <1>3, SeqResolve
<1>4. ASSUME NEW c \in Calls, CallStep(c) PROVE SeqInv'
  BY <1>4, SeqStart, SeqStop, SeqCheck, SeqDecision, SeqBegin, SeqRefuse, SeqReplay, SeqTools, SeqRunTool,
     SeqDeclare, SeqAsk, SeqOutcome, SeqResult, SeqFinish, SeqNever DEF CallStep
<1>5. ASSUME NEW k \in Cancellers, CancelStep(k) \/ \E t \in Turns : CancelLookup(k, t)
      PROVE  SeqInv'
  <2>1. CASE CancelAppend(k)
    <3>1. cancel[k].turn \in Turns
      BY <2>1 DEF CancelAppend, SeqInv, OneInFlight
    <3> QED
      BY <2>1, <3>1, SeqEndsAside
  <2> QED
    BY <1>5, <2>1, SeqCancel, SeqNever DEF CancelStep
<1>6. CASE Crash
  BY <1>6, SeqCrash, SMTT(60)
<1>7. CASE UNCHANGED vars
  <2>1. UNCHANGED <<handles, call, cancel>> /\ UNCHANGED logVars
    BY <1>7 DEF vars, logVars
  <2>2. PendingIsOpen' /\ (\A r : Alone(r) => Alone(r)')
        /\ \A t \in Turns : PendingOf(t)' = PendingOf(t) /\ status'[t] = status[t]
    BY <2>1, SeqSame
  <2> QED
    BY <2>1, <2>2 DEF SeqInv, OneInFlight, Active, Working, CallsAreAlone, RunningIsKept
<1> QED
  BY <1>1, <1>2, <1>3, <1>4, <1>5, <1>6, <1>7 DEF Next

(* When clients wait for their calls, what waits for the user belongs to a    *)
(* turn that runs and can go on when it is answered, also after a crash; all  *)
(* a turn that is over can leave behind is the approval it asked for after its *)
(* stream broke, when it failed or rolled over.                              *)
THEOREM TurnPendingIsLive == OneAtATime => (Spec => []PendingBelongsToLiveTurn)
<1> SUFFICES ASSUME OneAtATime PROVE Spec => []PendingBelongsToLiveTurn
  OBVIOUS
<1>1. Init => IndInv /\ RunInv /\ SeqInv
  BY InitInd, InitRuns, InitSeq
<1>2. (IndInv /\ RunInv /\ SeqInv) /\ [Next]_vars => (IndInv /\ RunInv /\ SeqInv)'
  BY NextInd, NextRuns, NextSeq
<1>3. IndInv /\ RunInv /\ SeqInv => PendingBelongsToLiveTurn
  BY DEF SeqInv, PendingIsOpen, Pending, Waiting, PendingBelongsToLiveTurn
<1> QED
  BY <1>1, <1>2, <1>3, PTL DEF Spec

(* ... and without crashes a turn that runs while nobody works for it waits   *)
(* for its user: no turn is orphaned.                                        *)
THEOREM TurnNobodyIsOrphaned == OneAtATime /\ MaxCrashes = 0 => (Spec => []NoOrphanedTurn)
<1> SUFFICES ASSUME OneAtATime, MaxCrashes = 0 PROVE Spec => []NoOrphanedTurn
  OBVIOUS
<1>1. Init => IndInv /\ RunInv /\ SeqInv
  BY InitInd, InitRuns, InitSeq
<1>2. (IndInv /\ RunInv /\ SeqInv) /\ [Next]_vars => (IndInv /\ RunInv /\ SeqInv)'
  BY NextInd, NextRuns, NextSeq
<1>3. IndInv /\ RunInv /\ SeqInv => NoOrphanedTurn
  BY DEF SeqInv, RunningIsKept, NoOrphanedTurn, NothingInFlight, Active, LivePcs, RunnerPcs
<1> QED
  BY <1>1, <1>2, <1>3, PTL DEF Spec
=============================================================================
