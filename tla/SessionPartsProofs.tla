---- MODULE SessionPartsProofs ----
(* What the parts of a session that share no state promise, for every value of    *)
(* their constants: the requests of a turn to its provider run only reads once    *)
(* the stream broke and build the next request from what the log says, the costs  *)
(* kept are what sessions cost, and no turn of a workflow runs in a phase that    *)
(* the phases before it did not earn.                                             *)
EXTENDS ProviderRequest, Budget, Workflow, EventSelectionProofs, FiniteSetTheorems

(******************************************************************************)
(* ProviderRequest: once a stream broke only reads run, and attempts are      *)
(* bounded, for any number of calls, stream events, retries, continuations.   *)
(******************************************************************************)

ReqCalls == [id : 1 .. ReqMaxCalls, kind : ReqKinds]
ReqQuietKinds == {"thought", "reasoning", "worklog", "text", "declared", "failed", "retry_scheduled"}
ReqEntries == [kind : ReqQuietKinds \cup {"end", "asked"}, call : Nat]
ReqQuietEntries == [kind : ReqQuietKinds, call : Nat]
ReqOutcomes == {"done", "retryable", "fatal", "pending", "turnfail", "none", "err"}
ReqTries ==
    [started : BOOLEAN, batch : Seq(ReqCalls), toolCalls : BOOLEAN, segment : BOOLEAN,
     tokens : BOOLEAN, durable : BOOLEAN, executed : Nat, broken : BOOLEAN]
ReqRuns ==
    [calls : Seq(ReqCalls), results : Seq(ReqOutcomes), buffered : Seq(ReqOutcomes),
     committed : Nat, err : {"none", "retryable", "fatal", "input_limit"}]
ReqCounts == [attempt : Nat \ {0}, continued : Nat, calls : 0 .. ReqMaxCalls, deltas : Nat]
ReqPcs == {"open", "stream", "run", "commit", "apply", "decide", "returned"}

ReqTurnShape == reqPc \in ReqPcs /\ reqCount \in ReqCounts
ReqTryShape == reqTry \in ReqTries
ReqRunShape == reqRun \in ReqRuns
ReqLogShape == reqLog \in Seq(ReqEntries)

(* A call left a trace of having run.                                             *)
ReqRan(log, id) == \E i \in DOMAIN log : log[i].kind \in {"end", "asked"} /\ log[i].call = id

ReqIsPrefix(calls, batch) ==
    /\ Len(calls) <= Len(batch)
    /\ \A i \in 1 .. Len(calls) : calls[i] = batch[i]
ReqReads(calls) == \A i \in 1 .. Len(calls) : IsParallelRead(calls[i].kind)

(* Attempts are the first, the retries and the continuations.                     *)
ReqFewAttempts ==
    /\ reqCount.continued <= ReqContinuations
    /\ reqCount.attempt <= 1 + ReqRetries + reqCount.continued

(* The calls of a batch are numbered as the stream brought them.                  *)
ReqNumbered ==
    /\ \A i, j \in 1 .. Len(reqTry.batch) : reqTry.batch[i].id = reqTry.batch[j].id => i = j
    /\ \A i \in 1 .. Len(reqTry.batch) : reqTry.batch[i].id <= reqCount.calls
    /\ \A id \in Nat : ReqRan(reqLog, id) => id <= reqCount.calls

(* What is run is the beginning of the batch, and reads once the stream broke.    *)
ReqRunIsBatch ==
    /\ reqPc \in {"open", "stream"} => reqRun = NoRun
    /\ reqPc \in {"run", "commit"} => Len(reqRun.buffered) = Len(reqRun.calls)
    /\ ReqIsPrefix(reqRun.calls, reqTry.batch)
    /\ Len(reqRun.results) <= Len(reqRun.calls)
    /\ reqTry.executed <= Len(reqTry.batch)
    /\ reqTry.broken => ReqReads(reqRun.calls)

(* Nothing ran while the stream was open; only reads did once it broke.           *)
ReqFresh ==
    reqPc \in {"open", "stream"} =>
        /\ ~reqTry.broken /\ reqTry.executed = 0
        /\ \A j \in 1 .. Len(reqTry.batch) : ~ReqRan(reqLog, reqTry.batch[j].id)
ReqBroken ==
    reqTry.broken =>
        \A j \in 1 .. Len(reqTry.batch) :
            ReqRan(reqLog, reqTry.batch[j].id) => IsParallelRead(reqTry.batch[j].kind)

ReqShape == ReqTurnShape /\ ReqTryShape /\ ReqRunShape /\ ReqLogShape
ReqInv == ReqShape /\ ReqFewAttempts /\ ReqNumbered /\ ReqRunIsBatch /\ ReqFresh /\ ReqBroken

------------------------------------------------------------------------------
(* Prefixes of a batch.                                                           *)

LEMMA ReqLeastExists ==
    ASSUME NEW S \in SUBSET Nat, S # {}
    PROVE  \E m \in S : \A n \in S : m <= n
<1>1. IsWellFoundedOn(OpToRel(<, Nat), Nat)
  BY NatLessThanWellFounded
<1>2. PICK m \in S : \A n \in S : <<n, m>> \notin OpToRel(<, Nat)
  BY <1>1, WFMin
<1>3. ASSUME NEW n \in S PROVE m <= n
  <2>1. ~ (n < m)
    BY <1>2 DEF OpToRel
  <2> QED
    BY <2>1
<1> QED
  BY <1>3

LEMMA ReqConstants ==
    /\ ReqMaxCalls \in Nat /\ ReqMaxDeltas \in Nat /\ ReqRetries \in Nat /\ ReqContinuations \in Nat
    /\ ReqKinds \subseteq {"query", "read", "plain", "write", "question"}
BY ReqAssumption

(* What is scheduled, or run although the stream broke, begins the batch.         *)
LEMMA ReqCut ==
    ASSUME NEW batch \in Seq(ReqCalls), NEW n \in 0 .. Len(batch)
    PROVE  /\ SubSeq(batch, 1, n) \in Seq(ReqCalls) /\ Len(SubSeq(batch, 1, n)) = n
           /\ ReqIsPrefix(SubSeq(batch, 1, n), batch)
<1>1. SubSeq(batch, 1, n) \in Seq(ReqCalls) /\ Len(SubSeq(batch, 1, n)) = n
  OBVIOUS
<1>2. \A i \in 1 .. n : SubSeq(batch, 1, n)[i] = batch[i]
  OBVIOUS
<1> QED
  BY <1>1, <1>2 DEF ReqIsPrefix

LEMMA ReqScheduled ==
    ASSUME NEW batch \in Seq(ReqCalls)
    PROVE  Scheduled(batch) \in Seq(ReqCalls) /\ ReqIsPrefix(Scheduled(batch), batch)
<1> DEFINE boundaries == {i \in DOMAIN batch : IsBoundary(batch[i].kind)}
<1> DEFINE first == CHOOSE i \in boundaries : \A j \in boundaries : i <= j
<1>1. CASE boundaries = {}
  <2>1. Scheduled(batch) = batch
    BY <1>1 DEF Scheduled
  <2> QED
    BY <2>1 DEF ReqIsPrefix
<1>2. CASE boundaries # {}
  <2>1. boundaries \in SUBSET Nat /\ boundaries \subseteq 1 .. Len(batch)
    OBVIOUS
  <2>2. first \in boundaries
    BY <1>2, <2>1, ReqLeastExists
  <2>3. Scheduled(batch) = SubSeq(batch, 1, first)
    BY <1>2 DEF Scheduled
  <2>4. first \in 0 .. Len(batch)
    BY <2>1, <2>2
  <2> QED
    BY <2>3, <2>4, ReqCut
<1> QED
  BY <1>1, <1>2

LEMMA ReqInterrupted ==
    ASSUME NEW batch \in Seq(ReqCalls)
    PROVE  /\ InterruptedSafe(batch) \in Seq(ReqCalls) /\ ReqIsPrefix(InterruptedSafe(batch), batch)
           /\ ReqReads(InterruptedSafe(batch))
<1> DEFINE others == {i \in DOMAIN batch : ~IsParallelRead(batch[i].kind)}
<1> DEFINE first == CHOOSE i \in others : \A j \in others : i <= j
<1>1. CASE others = {}
  <2>1. InterruptedSafe(batch) = batch
    BY <1>1 DEF InterruptedSafe
  <2>2. \A i \in 1 .. Len(batch) : IsParallelRead(batch[i].kind)
    BY <1>1
  <2> QED
    BY <2>1, <2>2 DEF ReqIsPrefix, ReqReads
<1>2. CASE others # {}
  <2>1. others \in SUBSET Nat /\ others \subseteq 1 .. Len(batch)
    OBVIOUS
  <2>2. first \in others /\ \A j \in others : first <= j
    BY <1>2, <2>1, ReqLeastExists
  <2>3. InterruptedSafe(batch) = SubSeq(batch, 1, first - 1)
    BY <1>2 DEF InterruptedSafe
  <2>4. first \in 1 .. Len(batch) /\ first - 1 \in 0 .. Len(batch)
    BY <2>1, <2>2
  <2>5. ASSUME NEW i \in 1 .. first - 1 PROVE i \notin others /\ i \in DOMAIN batch
    <3> HIDE DEF first, others
    <3>1. i \in Nat /\ i < first /\ i \in 1 .. Len(batch)
      BY <2>4
    <3>2. ~(first <= i)
      BY <3>1, <2>4
    <3> QED
      BY <3>1, <3>2, <2>2
  <2>6. \A i \in 1 .. first - 1 : IsParallelRead(batch[i].kind)
    BY <2>5
  <2> HIDE DEF first, others
  <2>7. /\ SubSeq(batch, 1, first - 1) \in Seq(ReqCalls) /\ Len(SubSeq(batch, 1, first - 1)) = first - 1
        /\ ReqIsPrefix(SubSeq(batch, 1, first - 1), batch)
    BY <2>4, ReqCut
  <2>8. ReqReads(SubSeq(batch, 1, first - 1))
    BY <2>6, <2>7 DEF ReqIsPrefix, ReqReads
  <2> QED
    BY <2>3, <2>7, <2>8
<1> QED
  BY <1>1, <1>2

LEMMA ReqPrefixOfPrefix ==
    ASSUME NEW batch \in Seq(ReqCalls), NEW some \in Seq(ReqCalls), NEW few \in Seq(ReqCalls),
           ReqIsPrefix(some, batch), ReqIsPrefix(few, some)
    PROVE  ReqIsPrefix(few, batch) /\ (ReqReads(some) => ReqReads(few))
<1>1. /\ Len(few) \in Nat /\ Len(some) \in Nat /\ Len(batch) \in Nat
      /\ Len(few) <= Len(some) /\ Len(some) <= Len(batch)
      /\ \A i \in 1 .. Len(few) : few[i] = some[i]
      /\ \A i \in 1 .. Len(some) : some[i] = batch[i]
  BY LenProperties DEF ReqIsPrefix
<1>2. \A i \in 1 .. Len(few) : i \in 1 .. Len(some)
  BY <1>1
<1>3. Len(few) <= Len(batch)
  BY <1>1
<1>4. \A i \in 1 .. Len(few) : few[i] = batch[i]
  BY <1>1, <1>2
<1>5. ReqReads(some) => ReqReads(few)
  BY <1>1, <1>2 DEF ReqReads
<1> QED
  BY <1>3, <1>4, <1>5 DEF ReqIsPrefix

------------------------------------------------------------------------------
(* What is appended to the log.                                                   *)

LEMMA ReqAppended ==
    ASSUME NEW log \in Seq(ReqEntries), NEW more \in Seq(ReqEntries)
    PROVE  /\ log \o more \in Seq(ReqEntries)
           /\ \A id : ReqRan(log \o more, id) <=> ReqRan(log, id) \/ ReqRan(more, id)
<1>1. log \o more \in Seq(ReqEntries) /\ Len(log \o more) = Len(log) + Len(more)
  OBVIOUS
<1>2. \A i \in 1 .. Len(log) : (log \o more)[i] = log[i] /\ i \in DOMAIN (log \o more)
  OBVIOUS
<1>3. \A i \in 1 .. Len(more) : (log \o more)[Len(log) + i] = more[i] /\ Len(log) + i \in DOMAIN (log \o more)
  OBVIOUS
<1>4. \A k \in DOMAIN (log \o more) :
         k \in 1 .. Len(log) \/ (k - Len(log) \in 1 .. Len(more) /\ k = Len(log) + (k - Len(log)))
  BY <1>1
<1>5. DOMAIN log = 1 .. Len(log) /\ DOMAIN more = 1 .. Len(more)
  OBVIOUS
<1>6. ASSUME NEW id PROVE ReqRan(log \o more, id) <=> ReqRan(log, id) \/ ReqRan(more, id)
  <2>1. ASSUME ReqRan(log \o more, id) PROVE ReqRan(log, id) \/ ReqRan(more, id)
    <3>1. PICK k \in DOMAIN (log \o more) :
             (log \o more)[k].kind \in {"end", "asked"} /\ (log \o more)[k].call = id
      BY <2>1 DEF ReqRan
    <3> QED
      BY <3>1, <1>2, <1>3, <1>4, <1>5 DEF ReqRan
  <2>2. ASSUME ReqRan(log, id) PROVE ReqRan(log \o more, id)
    BY <2>2, <1>2, <1>5 DEF ReqRan
  <2>3. ASSUME ReqRan(more, id) PROVE ReqRan(log \o more, id)
    BY <2>3, <1>3, <1>5 DEF ReqRan
  <2> QED
    BY <2>1, <2>2, <2>3
<1> QED
  BY <1>1, <1>6

(* Entries that are not about a run tell nothing of one.                          *)
LEMMA ReqQuiet ==
    ASSUME NEW log \in Seq(ReqEntries), NEW more \in Seq(ReqQuietEntries)
    PROVE  /\ log \o more \in Seq(ReqEntries)
           /\ \A id : ReqRan(log \o more, id) <=> ReqRan(log, id)
<1>1. more \in Seq(ReqEntries)
  <2>1. ReqQuietEntries \subseteq ReqEntries
    BY DEF ReqQuietEntries, ReqEntries
  <2> QED
    BY <2>1
<1>2. \A i \in DOMAIN more : more[i].kind \notin {"end", "asked"}
  <2>1. \A i \in DOMAIN more : more[i] \in ReqQuietEntries
    OBVIOUS
  <2> QED
    BY <2>1 DEF ReqQuietEntries, ReqQuietKinds
<1>3. \A id : ~ReqRan(more, id)
  BY <1>2 DEF ReqRan
<1> QED
  BY <1>1, <1>3, ReqAppended

LEMMA ReqQuietOne ==
    ASSUME NEW log \in Seq(ReqEntries), NEW e \in ReqQuietEntries
    PROVE  /\ Append(log, e) \in Seq(ReqEntries)
           /\ \A id : ReqRan(Append(log, e), id) <=> ReqRan(log, id)
<1>1. <<e>> \in Seq(ReqQuietEntries) /\ log \o <<e>> = Append(log, e)
  OBVIOUS
<1> QED
  BY <1>1, ReqQuiet, ZenonT(60)

------------------------------------------------------------------------------
(* How the state moves.                                                           *)

(* What the log says of runs stays as it is.                                      *)
ReqTellsNothing ==
    /\ reqLog' \in Seq(ReqEntries)
    /\ \A id : ReqRan(reqLog', id) <=> ReqRan(reqLog, id)

LEMMA ReqSilent == ASSUME ReqInv, UNCHANGED reqLog PROVE ReqTellsNothing
BY DEF ReqTellsNothing, ReqInv, ReqShape, ReqLogShape

LEMMA ReqAppendsQuiet ==
    ASSUME ReqInv, NEW kind \in ReqQuietKinds, reqLog' = Append(reqLog, Logged(kind, 0))
    PROVE  ReqTellsNothing
<1>1. Logged(kind, 0) \in ReqQuietEntries /\ reqLog \in Seq(ReqEntries)
  BY DEF Logged, ReqQuietEntries, ReqInv, ReqShape, ReqLogShape
<1> QED
  BY <1>1, ReqQuietOne DEF ReqTellsNothing

LEMMA ReqAppendsWorklog ==
    ASSUME ReqInv, NEW try, reqLog' = reqLog \o WorklogOf(try)
    PROVE  ReqTellsNothing
<1>1. <<Logged("worklog", 0)>> \in Seq(ReqQuietEntries) /\ << >> \in Seq(ReqQuietEntries)
  BY DEF Logged, ReqQuietEntries, ReqQuietKinds
<1>2. WorklogOf(try) \in Seq(ReqQuietEntries)
  BY <1>1 DEF WorklogOf
<1>3. reqLog \in Seq(ReqEntries)
  BY DEF ReqInv, ReqShape, ReqLogShape
<1> QED
  BY <1>2, <1>3, ReqQuiet DEF ReqTellsNothing

(* The same batch, of which nothing runs in this step.                            *)
ReqSameBatch ==
    /\ reqTry' \in ReqTries
    /\ reqTry'.batch = reqTry.batch
    /\ reqTry'.executed <= Len(reqTry.batch)
    /\ reqTry'.broken => reqTry.broken \/ reqPc = "stream"
    /\ reqPc' \in {"open", "stream"} =>
          reqPc \in {"open", "stream"} /\ ~reqTry'.broken /\ reqTry'.executed = 0
ReqMoreCounted ==
    /\ reqCount' \in ReqCounts /\ reqCount'.calls >= reqCount.calls
    /\ ReqFewAttempts'
ReqRunMoves == reqRun' \in ReqRuns /\ ReqRunIsBatch'

LEMMA ReqMoves ==
    ASSUME ReqInv, reqPc' \in ReqPcs, ReqSameBatch, ReqMoreCounted, ReqRunMoves, ReqTellsNothing
    PROVE  ReqInv'
<1>1. ReqShape'
  BY DEF ReqShape, ReqTurnShape, ReqTryShape, ReqRunShape, ReqLogShape, ReqSameBatch,
         ReqMoreCounted, ReqRunMoves, ReqTellsNothing
<1>2. reqCount.calls \in Nat /\ reqCount'.calls \in Nat /\ reqCount'.calls >= reqCount.calls
  BY ReqConstants DEF ReqInv, ReqShape, ReqTurnShape, ReqCounts, ReqMoreCounted
<1>3. /\ reqTry.batch \in Seq(ReqCalls) /\ Len(reqTry.batch) \in Nat
      /\ \A i \in 1 .. Len(reqTry.batch) : reqTry.batch[i].id \in Nat
  <2>1. reqTry.batch \in Seq(ReqCalls)
    BY DEF ReqInv, ReqShape, ReqTryShape, ReqTries
  <2>2. \A i \in 1 .. Len(reqTry.batch) : reqTry.batch[i] \in ReqCalls
    BY <2>1
  <2> QED
    BY <2>1, <2>2, ReqConstants DEF ReqCalls
<1>4. ReqNumbered'
  BY <1>2, <1>3, SMTT(60) DEF ReqInv, ReqNumbered, ReqSameBatch, ReqTellsNothing
<1>5. ReqFresh'
  BY DEF ReqInv, ReqFresh, ReqSameBatch, ReqTellsNothing
<1>6. ReqBroken'
  BY DEF ReqInv, ReqFresh, ReqBroken, ReqSameBatch, ReqTellsNothing
<1> QED
  BY <1>1, <1>4, <1>5, <1>6 DEF ReqInv, ReqMoreCounted, ReqRunMoves

(* Another attempt, from nothing.                                                 *)
LEMMA ReqAnew ==
    ASSUME ReqInv, reqPc' \in {"open", "stream", "decide"}, reqTry' \in ReqTries,
           reqTry'.batch = << >>, reqTry'.executed = 0, ~reqTry'.broken,
           reqRun' = NoRun, ReqMoreCounted, ReqTellsNothing
    PROVE  ReqInv'
<1>1. << >> \in Seq(ReqCalls) /\ << >> \in Seq(ReqOutcomes) /\ Len(<< >>) = 0
  OBVIOUS
<1>2. NoRun \in ReqRuns
  BY <1>1 DEF NoRun, ReqRuns
<1>3. ReqShape'
  BY <1>2 DEF ReqShape, ReqTurnShape, ReqTryShape, ReqRunShape, ReqLogShape, ReqMoreCounted,
         ReqTellsNothing, ReqPcs
<1>4. reqCount.calls \in Nat /\ reqCount'.calls \in Nat /\ reqCount'.calls >= reqCount.calls
  BY ReqConstants DEF ReqInv, ReqShape, ReqTurnShape, ReqCounts, ReqMoreCounted
<1>5. ReqNumbered'
  BY <1>1, <1>4 DEF ReqInv, ReqNumbered, ReqTellsNothing
<1>6. ReqFresh' /\ ReqBroken'
  BY <1>1 DEF ReqFresh, ReqBroken
<1>7. NoRun.calls = << >> /\ NoRun.results = << >>
  BY DEF NoRun
<1>8. ReqRunIsBatch'
  BY <1>1, <1>7 DEF ReqRunIsBatch, ReqIsPrefix
<1> QED
  BY <1>3, <1>5, <1>6, <1>8 DEF ReqInv, ReqMoreCounted

(* One of the calls being run leaves its trace.                                   *)
LEMMA ReqRanOne ==
    ASSUME ReqInv, reqPc \in {"run", "commit"}, reqPc' \in {"run", "commit", "apply"},
           UNCHANGED <<reqTry, reqCount>>, ReqRunMoves,
           NEW k \in 1 .. Len(reqRun.calls), NEW outcome,
           reqLog' = reqLog \o ExecEvents(reqRun.calls[k], outcome)
    PROVE  ReqInv'
<1> DEFINE call == reqRun.calls[k]
<1> DEFINE more == ExecEvents(call, outcome)
<1>1. /\ reqTry \in ReqTries /\ reqRun \in ReqRuns /\ reqCount \in ReqCounts /\ reqLog \in Seq(ReqEntries)
      /\ reqTry.batch \in Seq(ReqCalls) /\ reqRun.calls \in Seq(ReqCalls)
  BY DEF ReqInv, ReqShape, ReqTurnShape, ReqTryShape, ReqRunShape, ReqLogShape, ReqTries, ReqRuns
<1>2. call \in ReqCalls /\ call.id \in Nat
  <2>1. call \in ReqCalls
    BY <1>1
  <2> QED
    BY <2>1, ReqConstants DEF ReqCalls
<1>3. k \in 1 .. Len(reqTry.batch) /\ reqTry.batch[k] = call
  BY <1>1 DEF ReqInv, ReqRunIsBatch, ReqIsPrefix
<1>4. more \in Seq(ReqEntries) /\ \A id : ReqRan(more, id) => id = call.id
  <2>1. \A kind \in {"end", "asked"} : <<Logged(kind, call.id)>> \in Seq(ReqEntries)
    BY <1>2 DEF Logged, ReqEntries
  <2>2. \A kind, id : ReqRan(<<Logged(kind, call.id)>>, id) => id = call.id
    BY DEF Logged, ReqRan
  <2>3. << >> \in Seq(ReqEntries) /\ \A id : ~ReqRan(<< >>, id)
    BY DEF ReqRan
  <2>4. \/ more = << >>
        \/ more = <<Logged("end", call.id)>>
        \/ more = <<Logged("asked", call.id)>>
    BY DEF ExecEvents
  <2> HIDE DEF more, call
  <2> QED
    BY <2>1, <2>2, <2>3, <2>4
<1> HIDE DEF more
<1>5. reqLog' = reqLog \o more
  BY DEF more
<1>6. reqLog' \in Seq(ReqEntries) /\ \A id : ReqRan(reqLog', id) => ReqRan(reqLog, id) \/ id = call.id
  BY <1>1, <1>4, <1>5, ReqAppended
<1> HIDE DEF call
<1>7. ReqShape'
  BY <1>1, <1>6 DEF ReqShape, ReqTurnShape, ReqTryShape, ReqRunShape, ReqLogShape, ReqRunMoves, ReqPcs
<1>8. ReqNumbered'
  BY <1>3, <1>6 DEF ReqInv, ReqNumbered
<1>9. ReqFresh'
  BY DEF ReqFresh
<1>10. ReqBroken'
  <2> SUFFICES ASSUME reqTry.broken, NEW j \in 1 .. Len(reqTry.batch), ReqRan(reqLog', reqTry.batch[j].id)
               PROVE  IsParallelRead(reqTry.batch[j].kind)
    BY DEF ReqBroken
  <2>1. CASE ReqRan(reqLog, reqTry.batch[j].id)
    BY <2>1 DEF ReqInv, ReqBroken
  <2>2. CASE reqTry.batch[j].id = call.id
    <3>1. j = k
      BY <2>2, <1>3 DEF ReqInv, ReqNumbered
    <3>2. IsParallelRead(call.kind)
      BY DEF ReqInv, ReqRunIsBatch, ReqReads, call
    <3> QED
      BY <3>1, <3>2, <1>3
  <2> QED
    BY <2>1, <2>2, <1>6
<1>11. ReqFewAttempts'
  BY DEF ReqInv, ReqFewAttempts
<1> QED
  BY <1>7, <1>8, <1>9, <1>10, <1>11 DEF ReqInv, ReqRunMoves

------------------------------------------------------------------------------
(* The steps.                                                                     *)

LEMMA ReqNew ==
    /\ NewTry \in ReqTries /\ NewTry.batch = << >> /\ NewTry.executed = 0 /\ ~NewTry.broken
    /\ \A b \in BOOLEAN :
          LET try == [NewTry EXCEPT !.started = b]
          IN try \in ReqTries /\ try.batch = << >> /\ try.executed = 0 /\ ~try.broken
<1>1. << >> \in Seq(ReqCalls)
  OBVIOUS
<1> QED
  BY <1>1 DEF NewTry, ReqTries

LEMMA ReqInvInit == ReqInit => ReqInv
<1> SUFFICES ASSUME ReqInit PROVE ReqInv
  OBVIOUS
<1>1. << >> \in Seq(ReqCalls) /\ << >> \in Seq(ReqOutcomes) /\ Len(<< >>) = 0 /\ << >> \in Seq(ReqEntries)
  OBVIOUS
<1>2. NoRun \in ReqRuns /\ NoRun.calls = << >> /\ NoRun.results = << >>
  BY <1>1 DEF NoRun, ReqRuns
<1>3. reqCount \in ReqCounts /\ reqCount.continued = 0 /\ reqCount.attempt = 1
  BY ReqConstants DEF ReqInit, ReqCounts
<1>4. ReqShape
  BY <1>1, <1>2, <1>3, ReqNew DEF ReqInit, ReqShape, ReqTurnShape, ReqTryShape, ReqRunShape, ReqLogShape, ReqPcs
<1>5. ReqFewAttempts
  BY <1>3, ReqConstants DEF ReqFewAttempts
<1>6. \A id : ~ReqRan(reqLog, id)
  BY DEF ReqInit, ReqRan
<1>7. ReqNumbered /\ ReqFresh /\ ReqBroken
  BY <1>1, <1>6, ReqNew DEF ReqInit, ReqNumbered, ReqFresh, ReqBroken
<1>8. ReqRunIsBatch
  BY <1>1, <1>2, ReqNew DEF ReqInit, ReqRunIsBatch, ReqIsPrefix
<1> QED
  BY <1>4, <1>5, <1>7, <1>8 DEF ReqInv

(* What is known before a step.                                                   *)
LEMMA ReqNow ==
    ASSUME ReqInv
    PROVE  /\ reqTry \in ReqTries /\ reqRun \in ReqRuns /\ reqCount \in ReqCounts /\ reqLog \in Seq(ReqEntries)
           /\ reqTry.batch \in Seq(ReqCalls) /\ reqRun.calls \in Seq(ReqCalls)
           /\ reqRun.results \in Seq(ReqOutcomes) /\ reqRun.buffered \in Seq(ReqOutcomes)
           /\ reqTry.executed <= Len(reqTry.batch) /\ Len(reqRun.results) <= Len(reqRun.calls)
           /\ Len(reqRun.calls) <= Len(reqTry.batch)
           /\ reqPc \in ReqPcs
BY DEF ReqInv, ReqShape, ReqTurnShape, ReqTryShape, ReqRunShape, ReqLogShape, ReqTries, ReqRuns,
       ReqRunIsBatch, ReqIsPrefix

LEMMA ReqCountsOn == ASSUME ReqInv, UNCHANGED reqCount PROVE ReqMoreCounted
<1>1. reqCount.calls \in Nat
  BY ReqNow, ReqConstants DEF ReqCounts
<1> QED
  BY <1>1, ReqNow DEF ReqMoreCounted, ReqInv, ReqFewAttempts

LEMMA ReqCountsDelta ==
    ASSUME ReqInv, reqCount' = [reqCount EXCEPT !.deltas = @ + 1]
    PROVE  ReqMoreCounted
<1>1. reqCount \in ReqCounts /\ reqCount.calls \in Nat
  BY ReqNow, ReqConstants DEF ReqCounts
<1>2. /\ reqCount' \in ReqCounts /\ reqCount'.calls = reqCount.calls
      /\ reqCount'.attempt = reqCount.attempt /\ reqCount'.continued = reqCount.continued
  BY <1>1 DEF ReqCounts
<1> QED
  BY <1>1, <1>2 DEF ReqMoreCounted, ReqInv, ReqFewAttempts

(* A run stays as it is, with no more done than it has calls.                     *)
LEMMA ReqRunStays ==
    ASSUME ReqInv, UNCHANGED reqRun, ReqSameBatch,
           reqPc' \in {"run", "commit"} => reqPc \in {"run", "commit"}
    PROVE  ReqRunMoves
<1>1. ReqRunIsBatch
  BY DEF ReqInv
<1>2. reqTry'.broken => ReqReads(reqRun.calls)
  <2>1. CASE reqPc = "stream"
    <3>1. reqRun.calls = << >>
      BY <2>1, <1>1 DEF ReqRunIsBatch, NoRun
    <3> QED
      BY <3>1 DEF ReqReads
  <2> QED
    BY <2>1, <1>1 DEF ReqRunIsBatch, ReqSameBatch
<1> QED
  BY <1>1, <1>2, ReqNow DEF ReqRunMoves, ReqRunIsBatch, ReqSameBatch

LEMMA ReqOpenStep == ReqInv /\ OpenStream => ReqInv'
<1> SUFFICES ASSUME ReqInv, OpenStream PROVE ReqInv'
  OBVIOUS
<1>1. reqRun' = NoRun
  BY DEF OpenStream, ReqInv, ReqRunIsBatch
<1>2. ReqMoreCounted /\ ReqTellsNothing
  BY ReqCountsOn, ReqSilent DEF OpenStream
<1>3. CASE reqPc' = "stream" /\ reqTry' = NewTry
  BY <1>1, <1>2, <1>3, ReqNew, ReqAnew
<1>4. CASE \E err \in {"retryable", "fatal"}, started \in BOOLEAN :
             EndAttempt("none", err) /\ reqTry' = [NewTry EXCEPT !.started = started]
  <2>1. PICK started \in BOOLEAN : reqPc' = "decide" /\ reqTry' = [NewTry EXCEPT !.started = started]
    BY <1>4 DEF EndAttempt
  <2> QED
    BY <1>1, <1>2, <2>1, ReqNew, ReqAnew
<1> QED
  BY <1>3, <1>4 DEF OpenStream

(* The flags of the attempt change, and nothing else of it.                       *)
ReqSameTry(try) ==
    /\ try \in ReqTries /\ try.batch = reqTry.batch
    /\ try.executed = reqTry.executed /\ try.broken = reqTry.broken

LEMMA ReqStepped ==
    ASSUME ReqInv, NEW kind
    PROVE  ReqSameTry(StartToolStep(reqTry, kind))
BY ReqNow DEF StartToolStep, ReqSameTry, ReqTries

LEMMA ReqListens ==
    ASSUME ReqInv, Streaming, ReqSameTry(reqTry'), reqPc' = "stream"
    PROVE  ReqSameBatch
BY ReqNow DEF Streaming, ReqSameTry, ReqSameBatch, ReqInv, ReqFresh

LEMMA ReqDeltaMoves ==
    ASSUME ReqInv, Delta, ReqSameTry(reqTry'), ReqTellsNothing
    PROVE  ReqInv'
<1>1. reqPc' = "stream" /\ Streaming /\ UNCHANGED reqRun
  BY DEF Delta, Streaming
<1>2. ReqSameBatch
  BY <1>1, ReqListens
<1>3. ReqRunMoves
  BY <1>1, <1>2, ReqRunStays
<1>4. ReqMoreCounted
  BY ReqCountsDelta DEF Delta
<1> QED
  BY <1>1, <1>2, <1>3, <1>4, ReqMoves DEF ReqPcs

LEMMA ReqDeltaStep ==
    ReqInv /\ (AssistantDelta \/ ReasoningDelta \/ ReasoningCommitted \/ ToolCallDelta) => ReqInv'
<1>1. ASSUME ReqInv, AssistantDelta PROVE ReqInv'
  <2>1. ReqSameTry(reqTry')
    BY <1>1, ReqNow DEF AssistantDelta, ReqSameTry, ReqTries
  <2> QED
    BY <1>1, <2>1, ReqSilent, ReqDeltaMoves DEF AssistantDelta
<1>2. ASSUME ReqInv, ReasoningDelta PROVE ReqInv'
  <2>1. ReqSameTry(reqTry')
    BY <1>2, ReqNow DEF ReasoningDelta, ReqSameTry, ReqTries
  <2>2. ReqTellsNothing
    BY <1>2, ReqSilent, ReqAppendsQuiet DEF ReasoningDelta, ReqQuietKinds
  <2> QED
    BY <1>2, <2>1, <2>2, ReqDeltaMoves DEF ReasoningDelta
<1>3. ASSUME ReqInv, ReasoningCommitted PROVE ReqInv'
  <2>1. ReqSameTry(reqTry')
    BY <1>3, ReqNow DEF ReasoningCommitted, ReqSameTry, ReqTries
  <2>2. ReqTellsNothing
    BY <1>3, ReqAppendsQuiet DEF ReasoningCommitted, ReqQuietKinds
  <2> QED
    BY <1>3, <2>1, <2>2, ReqDeltaMoves DEF ReasoningCommitted
<1>4. ASSUME ReqInv, ToolCallDelta PROVE ReqInv'
  <2>1. PICK kind \in ReqKinds :
           /\ reqTry' = StartToolStep(reqTry, kind)
           /\ reqLog' = IF reqTry'.segment = reqTry.segment THEN reqLog ELSE reqLog \o WorklogOf(reqTry)
    BY <1>4 DEF ToolCallDelta
  <2>2. ReqTellsNothing
    BY <1>4, <2>1, ReqSilent, ReqAppendsWorklog
  <2> QED
    BY <1>4, <2>1, <2>2, ReqStepped, ReqDeltaMoves DEF ToolCallDelta
<1> QED
  BY <1>1, <1>2, <1>3, <1>4

(* Declaring the calls tells nothing of their runs.                               *)
LEMMA ReqRunBatch ==
    ASSUME ReqInv, Streaming, NEW batch \in Seq(ReqCalls), NEW log, NEW try, NEW err,
           RunBatch(batch, log, try, err),
           err \in {"none", "retryable", "fatal", "input_limit"},
           ReqIsPrefix(batch, reqTry.batch),
           try \in ReqTries, try.batch = reqTry.batch, try.executed = 0,
           try.broken => ReqReads(batch),
           log \in Seq(ReqEntries), \A id : ReqRan(log, id) <=> ReqRan(reqLog, id),
           ReqMoreCounted
    PROVE  ReqInv'
<1> DEFINE calls == Scheduled(batch)
<1> DEFINE declared == [i \in DOMAIN calls |-> Logged("declared", calls[i].id)]
<1>1. calls \in Seq(ReqCalls) /\ ReqIsPrefix(calls, batch)
  BY ReqScheduled
<1>2. ReqIsPrefix(calls, reqTry.batch) /\ (try.broken => ReqReads(calls))
  BY <1>1, ReqNow, ReqPrefixOfPrefix
<1>3. /\ reqRun' = [NoRun EXCEPT !.calls = calls, !.err = err, !.buffered = [i \in DOMAIN calls |-> "none"]]
      /\ reqPc' = "run" /\ reqTry' = try /\ reqLog' = log \o declared
  BY DEF RunBatch
<1> HIDE DEF calls
<1>4. declared \in Seq(ReqQuietEntries)
  <2>1. \A i \in DOMAIN calls : Logged("declared", calls[i].id) \in ReqQuietEntries
    <3>1. \A i \in DOMAIN calls : calls[i] \in ReqCalls
      BY <1>1
    <3> QED
      BY <3>1, ReqConstants DEF ReqCalls, Logged, ReqQuietEntries, ReqQuietKinds
  <2>2. DOMAIN calls = 1 .. Len(calls) /\ Len(calls) \in Nat
    BY <1>1
  <2> QED
    BY <2>1, <2>2
<1>5. ReqTellsNothing
  BY <1>3, <1>4, ReqQuiet DEF ReqTellsNothing
<1> DEFINE none == [i \in DOMAIN calls |-> "none"]
<1>6. none \in Seq(ReqOutcomes) /\ Len(none) = Len(calls)
  <2>1. DOMAIN calls = 1 .. Len(calls) /\ Len(calls) \in Nat
    BY <1>1
  <2> QED
    BY <2>1 DEF ReqOutcomes
<1> HIDE DEF none
<1>7. reqRun' = [calls |-> calls, results |-> << >>, buffered |-> none, committed |-> 0, err |-> err]
  BY <1>3 DEF NoRun, none
<1>8. << >> \in Seq(ReqOutcomes) /\ Len(<< >>) = 0 /\ Len(calls) \in Nat
  BY <1>1
<1>9. reqRun' \in ReqRuns
  BY <1>1, <1>6, <1>7, <1>8 DEF ReqRuns
<1>10. Len(reqTry.batch) \in Nat
  BY ReqNow
<1>11. ReqRunIsBatch'
  <2>1. reqRun'.calls = calls /\ reqRun'.buffered = none /\ reqRun'.results = << >>
    BY <1>7
  <2>2. reqTry'.batch = reqTry.batch /\ reqTry'.executed = 0 /\ (reqTry'.broken => ReqReads(calls))
    BY <1>2, <1>3
  <2>3. reqPc' = "run"
    BY <1>3
  <2> HIDE DEF none
  <2>4. ReqIsPrefix(reqRun'.calls, reqTry'.batch) /\ (reqTry'.broken => ReqReads(reqRun'.calls))
    BY <1>2, <2>1, <2>2
  <2> QED
    BY <1>6, <1>8, <1>10, <2>1, <2>2, <2>3, <2>4 DEF ReqRunIsBatch
<1>12. ReqSameBatch
  BY <1>3, <1>10 DEF ReqSameBatch, Streaming
<1> QED
  BY <1>3, <1>5, <1>9, <1>11, <1>12, ReqMoves DEF ReqRunMoves, ReqPcs

(* A call joins the batch under a number of its own.                              *)
LEMMA ReqJoins ==
    ASSUME ReqInv, Streaming, NEW kind \in ReqKinds, NEW try, ReqSameTry(try),
           reqCount.calls < ReqMaxCalls, reqCount' = [reqCount EXCEPT !.calls = @ + 1],
           reqTry' = [try EXCEPT !.batch = Append(@, [id |-> reqCount.calls + 1, kind |-> kind]),
                                 !.tokens = TRUE],
           reqPc' = reqPc, reqRun' = reqRun, ReqTellsNothing
    PROVE  ReqInv'
<1> DEFINE batch == reqTry.batch
<1> DEFINE call == [id |-> reqCount.calls + 1, kind |-> kind]
<1>1. reqCount \in ReqCounts /\ reqCount.calls \in 0 .. ReqMaxCalls /\ reqCount.calls \in Nat
  BY ReqNow, ReqConstants DEF ReqCounts
<1>2. call \in ReqCalls
  BY <1>1, ReqConstants DEF ReqCalls
<1>3. /\ batch \in Seq(ReqCalls) /\ Append(batch, call) \in Seq(ReqCalls)
      /\ Len(Append(batch, call)) = Len(batch) + 1 /\ Len(batch) \in Nat
      /\ \A i \in 1 .. Len(batch) : Append(batch, call)[i] = batch[i]
      /\ Append(batch, call)[Len(batch) + 1] = call
  BY <1>2, ReqNow
<1>4. /\ reqTry' \in ReqTries /\ reqTry'.batch = Append(batch, call)
      /\ reqTry'.executed = reqTry.executed /\ reqTry'.broken = reqTry.broken
  BY <1>3 DEF ReqSameTry, ReqTries
<1>5. /\ reqCount' \in ReqCounts /\ reqCount'.calls = reqCount.calls + 1
      /\ reqCount'.attempt = reqCount.attempt /\ reqCount'.continued = reqCount.continued
  BY <1>1, ReqConstants DEF ReqCounts
<1>6. /\ ~reqTry.broken /\ reqTry.executed = 0 /\ reqRun = NoRun
      /\ \A j \in 1 .. Len(batch) : ~ReqRan(reqLog, batch[j].id)
  BY DEF ReqInv, ReqFresh, ReqRunIsBatch, Streaming
<1>7. /\ \A i, j \in 1 .. Len(batch) : batch[i].id = batch[j].id => i = j
      /\ \A i \in 1 .. Len(batch) : batch[i].id <= reqCount.calls
      /\ \A id \in Nat : ReqRan(reqLog, id) => id <= reqCount.calls
  BY DEF ReqInv, ReqNumbered
<1>8. \A i \in 1 .. Len(batch) : batch[i].id \in Nat /\ batch[i].id # call.id
  <2>1. \A i \in 1 .. Len(batch) : batch[i] \in ReqCalls
    BY <1>3
  <2>2. \A i \in 1 .. Len(batch) : batch[i].id \in Nat
    BY <2>1, ReqConstants DEF ReqCalls
  <2> QED
    BY <2>2, <1>1, <1>7
<1>9. call.id = reqCount.calls + 1 /\ call.id \in Nat
  BY <1>1
<1> HIDE DEF call, batch
<1>10. ~ReqRan(reqLog, call.id)
  BY <1>1, <1>7, <1>9
<1>11. ReqShape'
  BY <1>4, <1>5 DEF ReqShape, ReqTurnShape, ReqTryShape, ReqRunShape, ReqLogShape, ReqTellsNothing, ReqInv
<1>12. ReqFewAttempts'
  BY <1>5 DEF ReqInv, ReqFewAttempts
<1>13. \A i \in 1 .. Len(batch) + 1 : i \in 1 .. Len(batch) \/ i = Len(batch) + 1
  BY <1>3
<1>14. ReqNumbered'
  <2>1. \A i, j \in 1 .. Len(batch) + 1 : Append(batch, call)[i].id = Append(batch, call)[j].id => i = j
    BY <1>3, <1>7, <1>8, <1>13
  <2>2. \A i \in 1 .. Len(batch) + 1 : Append(batch, call)[i].id <= reqCount.calls + 1
    BY <1>1, <1>3, <1>7, <1>8, <1>9, <1>13
  <2>3. \A id \in Nat : ReqRan(reqLog', id) => id <= reqCount.calls + 1
    BY <1>1, <1>7 DEF ReqTellsNothing
  <2> QED
    BY <1>3, <1>4, <1>5, <2>1, <2>2, <2>3, SMTT(60) DEF ReqNumbered
<1>15. ReqFresh'
  <2>1. \A i \in 1 .. Len(batch) + 1 : ~ReqRan(reqLog', Append(batch, call)[i].id)
    BY <1>3, <1>6, <1>10, <1>13 DEF ReqTellsNothing
  <2> QED
    BY <1>3, <1>4, <1>6, <2>1 DEF ReqFresh
<1>16. ReqBroken'
  BY <1>4, <1>6 DEF ReqBroken
<1>17. ReqRunIsBatch'
  <2>1. NoRun.calls = << >> /\ NoRun.results = << >> /\ Len(<< >>) = 0
    BY DEF NoRun
  <2> QED
    BY <2>1, <1>3, <1>4, <1>6 DEF ReqRunIsBatch, ReqIsPrefix, Streaming
<1> QED
  BY <1>11, <1>12, <1>14, <1>15, <1>16, <1>17 DEF ReqInv

LEMMA ReqCallDoneStep == ReqInv /\ ToolCallDone => ReqInv'
<1> SUFFICES ASSUME ReqInv, ToolCallDone PROVE ReqInv'
  OBVIOUS
<1>1. Streaming /\ reqCount.calls < ReqMaxCalls /\ reqCount' = [reqCount EXCEPT !.calls = @ + 1]
  BY SMTT(60) DEF ToolCallDone
<1> PICK kind \in ReqKinds, repeated \in BOOLEAN :
          LET stepped == StartToolStep(reqTry, kind)
              try == [stepped EXCEPT !.segment = @ /\ kind # "question",
                                     !.durable = @ \/ (stepped.segment /\ kind = "question")]
              log == IF try.segment = reqTry.segment THEN reqLog ELSE reqLog \o WorklogOf(reqTry)
              id == IF repeated THEN Last(reqTry.batch).id ELSE reqCount'.calls
              accepted == CanJoinPrefix(reqTry.batch) /\ \A i \in DOMAIN reqTry.batch : reqTry.batch[i].id # id
          IN /\ repeated => reqTry.batch # <<>>
             /\ IF accepted
                THEN /\ reqTry' = [try EXCEPT !.batch = Append(@, [id |-> id, kind |-> kind]),
                                              !.tokens = TRUE]
                     /\ reqLog' = log
                     /\ UNCHANGED <<reqPc, reqRun, reqConv, reqEnd>>
                ELSE RunBatch(reqTry.batch, log, try, "none")
  BY DEF ToolCallDone
<1> DEFINE stepped == StartToolStep(reqTry, kind)
<1> DEFINE try == [stepped EXCEPT !.segment = @ /\ kind # "question",
                                  !.durable = @ \/ (stepped.segment /\ kind = "question")]
<1> DEFINE log == IF try.segment = reqTry.segment THEN reqLog ELSE reqLog \o WorklogOf(reqTry)
<1> DEFINE id == IF repeated THEN Last(reqTry.batch).id ELSE reqCount'.calls
<1> DEFINE accepted == CanJoinPrefix(reqTry.batch) /\ \A i \in DOMAIN reqTry.batch : reqTry.batch[i].id # id
<1>2. repeated => reqTry.batch # << >>
  OBVIOUS
<1>3. CASE accepted
  <2>1. /\ reqTry' = [try EXCEPT !.batch = Append(@, [id |-> id, kind |-> kind]), !.tokens = TRUE]
        /\ reqLog' = log /\ UNCHANGED <<reqPc, reqRun>>
    BY <1>3
  <2>2. id = reqCount.calls + 1
    <3>1. ~repeated
      <4>1. ASSUME repeated PROVE FALSE
        <5>1. Len(reqTry.batch) \in DOMAIN reqTry.batch
          BY <4>1, <1>2, ReqNow
        <5>2. Last(reqTry.batch) = reqTry.batch[Len(reqTry.batch)]
          BY DEF Last
        <5> QED
          BY <4>1, <5>1, <5>2, <1>3
      <4> QED
        BY <4>1
    <3> QED
      BY <3>1, <1>1, ReqNow DEF ReqCounts
  <2>3. ReqSameTry(try)
    BY ReqStepped, ZenonT(60) DEF ReqSameTry, ReqTries
  <2>4. ReqTellsNothing
    BY <2>1, ReqSilent, ReqAppendsWorklog
  <2> HIDE DEF try, id
  <2> QED
    BY <1>1, <2>1, <2>2, <2>3, <2>4, ReqJoins
<1>4. CASE ~accepted
  <2>1. RunBatch(reqTry.batch, log, try, "none")
    BY <1>4
  <2>2. ReqSameTry(try)
    BY ReqStepped DEF ReqSameTry, ReqTries
  <2>3. try.executed = 0 /\ ~try.broken
    BY <2>2, <1>1 DEF ReqSameTry, ReqInv, ReqFresh, Streaming
  <2>4. log \in Seq(ReqEntries) /\ \A c : ReqRan(log, c) <=> ReqRan(reqLog, c)
    <3>1. WorklogOf(reqTry) \in Seq(ReqQuietEntries)
      <4>1. <<Logged("worklog", 0)>> \in Seq(ReqQuietEntries) /\ << >> \in Seq(ReqQuietEntries)
        BY DEF Logged, ReqQuietEntries, ReqQuietKinds
      <4> QED
        BY <4>1 DEF WorklogOf
    <3> QED
      BY <3>1, ReqNow, ReqQuiet
  <2>5. ReqMoreCounted
    <3>1. reqCount \in ReqCounts /\ reqCount.calls \in 0 .. ReqMaxCalls /\ reqCount.calls \in Nat
      BY ReqNow, ReqConstants DEF ReqCounts
    <3>2. /\ reqCount' \in ReqCounts /\ reqCount'.calls = reqCount.calls + 1
          /\ reqCount'.attempt = reqCount.attempt /\ reqCount'.continued = reqCount.continued
      BY <1>1, <3>1, ReqConstants DEF ReqCounts
    <3> QED
      BY <3>1, <3>2 DEF ReqMoreCounted, ReqInv, ReqFewAttempts
  <2>6. ReqIsPrefix(reqTry.batch, reqTry.batch)
    BY ReqNow DEF ReqIsPrefix
  <2> HIDE DEF try, log, accepted
  <2> QED
    BY <1>1, <2>1, <2>2, <2>3, <2>4, <2>5, <2>6, ReqNow, ReqRunBatch DEF ReqSameTry
<1> QED
  BY <1>3, <1>4

LEMMA ReqEofStep == ReqInv /\ StreamEof => ReqInv'
<1> SUFFICES ASSUME ReqInv, StreamEof PROVE ReqInv'
  OBVIOUS
<1>1. Streaming /\ ReqMoreCounted
  BY ReqCountsOn DEF StreamEof
<1>2. CASE RunBatch(reqTry.batch, reqLog, reqTry, "none")
  <2>1. reqTry.executed = 0 /\ ~reqTry.broken
    BY <1>1 DEF ReqInv, ReqFresh, Streaming
  <2>2. ReqIsPrefix(reqTry.batch, reqTry.batch)
    BY ReqNow DEF ReqIsPrefix
  <2> QED
    BY <1>1, <1>2, <2>1, <2>2, ReqNow, ReqRunBatch
<1>3. CASE CommitAssistant /\ EndAttempt("assistant_done", "none") /\ UNCHANGED reqRun
  <2>1. ReqTellsNothing
    BY <1>3, ReqSilent, ReqAppendsQuiet DEF CommitAssistant, ReqQuietKinds
  <2>2. ReqSameTry(reqTry')
    BY <1>3, ReqNow, ZenonT(60) DEF CommitAssistant, ReqSameTry, ReqTries
  <2>3. reqPc' = "decide"
    BY <1>3 DEF EndAttempt
  <2>4. ReqSameBatch
    BY <2>2, <2>3, ReqNow DEF ReqSameTry, ReqSameBatch
  <2> QED
    BY <1>1, <1>3, <2>1, <2>3, <2>4, ReqRunStays, ReqMoves DEF ReqPcs
<1> QED
  BY <1>2, <1>3 DEF StreamEof

LEMMA ReqBreakStep == ReqInv /\ StreamBreaks => ReqInv'
<1> SUFFICES ASSUME ReqInv, StreamBreaks PROVE ReqInv'
  OBVIOUS
<1>1. Streaming /\ ReqMoreCounted
  BY ReqCountsOn DEF StreamBreaks
<1> DEFINE safe == InterruptedSafe(reqTry.batch)
<1> DEFINE try == [reqTry EXCEPT !.broken = TRUE]
<1>2. PICK err \in {"retryable", "fatal", "input_limit"} :
         IF safe # << >>
         THEN RunBatch(safe, reqLog, try, err)
         ELSE EndAttempt("none", err) /\ reqTry' = try /\ UNCHANGED <<reqRun, reqConv, reqLog>>
  BY DEF StreamBreaks
<1>3. try \in ReqTries /\ try.batch = reqTry.batch /\ try.executed = reqTry.executed /\ reqTry.executed = 0
  BY <1>1, ReqNow DEF ReqTries, ReqInv, ReqFresh, Streaming
<1>4. safe \in Seq(ReqCalls) /\ ReqIsPrefix(safe, reqTry.batch) /\ ReqReads(safe)
  BY ReqNow, ReqInterrupted
<1> HIDE DEF safe, try
<1>5. CASE RunBatch(safe, reqLog, try, err)
  BY <1>1, <1>3, <1>4, <1>5, ReqNow, ReqRunBatch
<1>6. CASE EndAttempt("none", err) /\ reqTry' = try /\ UNCHANGED <<reqRun, reqConv, reqLog>>
  <2>1. reqPc' = "decide"
    BY <1>6 DEF EndAttempt
  <2>2. ReqSameBatch
    BY <1>1, <1>3, <1>6, <2>1, ReqNow DEF ReqSameBatch, Streaming
  <2> QED
    BY <1>1, <1>6, <2>1, <2>2, ReqSilent, ReqRunStays, ReqMoves DEF ReqPcs
<1> QED
  BY <1>2, <1>5, <1>6

(* Running a batch: the attempt stays as it is.                                   *)
LEMMA ReqRunning ==
    ASSUME ReqInv, UNCHANGED <<reqTry, reqCount>>, reqPc' \in {"run", "commit", "apply"}
    PROVE  ReqSameBatch /\ ReqMoreCounted
BY ReqNow, ReqCountsOn DEF ReqSameBatch

LEMMA ReqRunKept ==
    ASSUME ReqInv, UNCHANGED reqTry, reqPc' \in {"run", "commit", "apply"},
           reqRun' \in ReqRuns, reqRun'.calls = reqRun.calls,
           Len(reqRun'.results) <= Len(reqRun.calls),
           reqPc' \in {"run", "commit"} => Len(reqRun'.buffered) = Len(reqRun.calls)
    PROVE  ReqRunMoves
BY DEF ReqRunMoves, ReqInv, ReqRunIsBatch

LEMMA ReqOutcomesAre == ASSUME NEW kind PROVE Outcomes(kind) \subseteq ReqOutcomes
BY DEF Outcomes, ReqOutcomes

LEMMA ReqErrIs ==
    << "err" >> \in Seq(ReqOutcomes) /\ << >> \in Seq(ReqOutcomes) /\ Len(<< >>) = 0
BY SMTT(60) DEF ReqOutcomes

LEMMA ReqNextCallStep == ReqInv /\ RunNextCall => ReqInv'
<1> SUFFICES ASSUME ReqInv, RunNextCall PROVE ReqInv'
  OBVIOUS
<1> DEFINE done == Len(reqRun.results)
<1> DEFINE call == reqRun.calls[done + 1]
<1>1. PICK outcome \in Outcomes(call.kind) :
         /\ reqLog' = reqLog \o ExecEvents(call, outcome)
         /\ IF IsError(outcome)
            THEN reqPc' = "apply" /\ reqRun' = [reqRun EXCEPT !.err = outcome, !.buffered = <<"err">>]
            ELSE /\ reqRun' = [reqRun EXCEPT !.results = Append(@, outcome)]
                 /\ reqPc' = IF Stops(outcome) \/ done + 1 = Len(reqRun.calls) THEN "apply" ELSE "run"
  BY DEF RunNextCall
<1>2. reqPc = "run" /\ done < Len(reqRun.calls) /\ UNCHANGED <<reqTry, reqCount>>
  BY DEF RunNextCall
<1>3. done \in Nat /\ Len(reqRun.calls) \in Nat /\ done + 1 \in 1 .. Len(reqRun.calls)
  BY <1>2, ReqNow
<1>4. outcome \in ReqOutcomes
  BY ReqOutcomesAre
<1>5. Len(reqRun.buffered) = Len(reqRun.calls) /\ reqRun \in ReqRuns
  BY <1>2, ReqNow DEF ReqInv, ReqRunIsBatch
<1>6. reqPc' \in {"run", "commit", "apply"} /\ ReqRunMoves
  <2>1. CASE IsError(outcome)
    <3>1. reqPc' = "apply" /\ reqRun' = [reqRun EXCEPT !.err = outcome, !.buffered = <<"err">>]
      BY <1>1, <2>1
    <3>2. outcome \in {"retryable", "fatal"}
      BY <2>1 DEF IsError
    <3>3. reqRun' \in ReqRuns /\ reqRun'.calls = reqRun.calls /\ reqRun'.results = reqRun.results
      BY <1>5, <3>1, <3>2, ReqErrIs DEF ReqRuns
    <3> QED
      BY <1>2, <3>1, <3>3, ReqNow, ReqRunKept
  <2>2. CASE ~IsError(outcome)
    <3>1. reqRun' = [reqRun EXCEPT !.results = Append(@, outcome)] /\ reqPc' \in {"run", "apply"}
      BY <1>1, <2>2
    <3>2. /\ Append(reqRun.results, outcome) \in Seq(ReqOutcomes)
          /\ Len(Append(reqRun.results, outcome)) = done + 1
      BY <1>4, ReqNow
    <3>3. /\ reqRun' \in ReqRuns /\ reqRun'.calls = reqRun.calls /\ reqRun'.buffered = reqRun.buffered
          /\ reqRun'.results = Append(reqRun.results, outcome)
      BY <1>5, <3>1, <3>2 DEF ReqRuns
    <3> QED
      BY <1>2, <1>3, <1>5, <3>1, <3>2, <3>3, ReqRunKept
  <2> QED
    BY <2>1, <2>2
<1> QED
  BY <1>1, <1>2, <1>3, <1>6, ReqRanOne

LEMMA ReqParallelStep ==
    ASSUME ReqInv, NEW i \in DOMAIN reqRun.calls, RunParallelCall(i)
    PROVE  ReqInv'
<1>1. PICK outcome \in Outcomes(reqRun.calls[i].kind) : reqRun' = [reqRun EXCEPT !.buffered[i] = outcome]
  BY DEF RunParallelCall
<1>2. reqPc = "run" /\ reqPc' \in {"run", "commit"} /\ UNCHANGED <<reqTry, reqCount, reqLog>>
  BY DEF RunParallelCall
<1>3. outcome \in ReqOutcomes
  BY ReqOutcomesAre
<1>4. Len(reqRun.buffered) = Len(reqRun.calls) /\ reqRun \in ReqRuns
  BY <1>2, ReqNow DEF ReqInv, ReqRunIsBatch
<1> DEFINE buffered == [reqRun.buffered EXCEPT ![i] = outcome]
<1>5. buffered \in Seq(ReqOutcomes) /\ Len(buffered) = Len(reqRun.calls)
  BY <1>3, <1>4, ReqNow
<1> HIDE DEF buffered
<1>6. reqRun' = [reqRun EXCEPT !.buffered = buffered]
  BY <1>1 DEF buffered
<1>7. /\ reqRun' \in ReqRuns /\ reqRun'.calls = reqRun.calls /\ reqRun'.results = reqRun.results
      /\ reqRun'.buffered = buffered
  BY <1>4, <1>5, <1>6 DEF ReqRuns
<1>8. ReqRunMoves
  BY <1>2, <1>5, <1>7, ReqNow, ReqRunKept, SMTT(60)
<1> QED
  BY <1>2, <1>8, ReqRunning, ReqSilent, ReqMoves DEF ReqPcs

LEMMA ReqCommitStep == ReqInv /\ CommitBuffered => ReqInv'
<1> SUFFICES ASSUME ReqInv, CommitBuffered PROVE ReqInv'
  OBVIOUS
<1> DEFINE next == reqRun.committed + 1
<1>1. reqPc = "commit" /\ next \in DOMAIN reqRun.calls /\ UNCHANGED <<reqTry, reqCount>>
  BY SMTT(60) DEF CommitBuffered
<1>2. Len(reqRun.buffered) = Len(reqRun.calls) /\ reqRun \in ReqRuns /\ next \in 1 .. Len(reqRun.calls)
  BY <1>1, ReqNow, SMTT(60) DEF ReqInv, ReqRunIsBatch
<1>3. CASE /\ reqLog' = reqLog \o ExecEvents(reqRun.calls[next], reqRun.buffered[next])
           /\ reqRun' = [reqRun EXCEPT !.committed = next]
           /\ UNCHANGED reqPc
  <2>1. /\ reqRun' \in ReqRuns /\ reqRun'.calls = reqRun.calls /\ reqRun'.results = reqRun.results
        /\ reqRun'.buffered = reqRun.buffered
    <3>1. reqRun' = [reqRun EXCEPT !.committed = next]
      BY <1>3
    <3>2. next \in Nat
      BY <1>2
    <3> HIDE DEF next
    <3> QED
      BY <1>2, <3>1, <3>2 DEF ReqRuns
  <2>2. ReqRunMoves
    BY <1>1, <1>2, <1>3, <2>1, ReqNow, ReqRunKept
  <2> QED
    BY <1>1, <1>2, <1>3, <2>2, ReqRanOne
<1>4. CASE /\ reqRun' = [reqRun EXCEPT !.err = "fatal", !.buffered = <<"err">>]
           /\ reqPc' = "apply" /\ UNCHANGED reqLog
  <2>1. reqRun' \in ReqRuns /\ reqRun'.calls = reqRun.calls /\ reqRun'.results = reqRun.results
    BY <1>2, <1>4, ReqErrIs DEF ReqRuns
  <2>2. ReqRunMoves
    BY <1>1, <1>4, <2>1, ReqNow, ReqRunKept
  <2> QED
    BY <1>1, <1>4, <2>2, ReqRunning, ReqSilent, ReqMoves DEF ReqPcs
<1> QED
  BY <1>3, <1>4 DEF CommitBuffered

LEMMA ReqCollectStep == ReqInv /\ CollectResults => ReqInv'
<1> SUFFICES ASSUME ReqInv, CollectResults PROVE ReqInv'
  OBVIOUS
<1> DEFINE n == Len(reqRun.calls)
<1> DEFINE errors == {i \in 1 .. n : IsError(reqRun.buffered[i])}
<1> DEFINE first == CHOOSE i \in errors : \A j \in errors : i <= j
<1> DEFINE good == IF errors = {} THEN n ELSE first - 1
<1>1. /\ reqPc = "commit" /\ reqPc' = "apply" /\ UNCHANGED <<reqTry, reqCount, reqLog>>
      /\ reqRun' = [reqRun EXCEPT !.results = SubSeq(reqRun.buffered, 1, good),
                                  !.err = IF good < n THEN reqRun.buffered[good + 1] ELSE @,
                                  !.buffered = IF good < n THEN <<"err">> ELSE <<>>]
  BY DEF CollectResults
<1>2. Len(reqRun.buffered) = n /\ reqRun \in ReqRuns /\ n \in Nat /\ reqRun.buffered \in Seq(ReqOutcomes)
  BY <1>1, ReqNow DEF ReqInv, ReqRunIsBatch
<1>3. good \in 0 .. n /\ (good < n => IsError(reqRun.buffered[good + 1]))
  <2>1. CASE errors = {}
    BY <2>1, <1>2
  <2>2. CASE errors # {}
    <3>1. errors \in SUBSET Nat /\ errors \subseteq 1 .. n
      BY <1>2
    <3>2. first \in errors
      BY <2>2, <3>1, ReqLeastExists
    <3>3. first \in 1 .. n /\ IsError(reqRun.buffered[first])
      BY <3>2
    <3> HIDE DEF first, errors
    <3>4. good = first - 1
      BY <2>2
    <3>5. good + 1 = first /\ good \in 0 .. n
      BY <1>2, <3>3, <3>4
    <3> QED
      BY <3>3, <3>5
  <2> QED
    BY <2>1, <2>2
<1> HIDE DEF good, errors, first
<1>4. SubSeq(reqRun.buffered, 1, good) \in Seq(ReqOutcomes) /\ Len(SubSeq(reqRun.buffered, 1, good)) = good
  BY <1>2, <1>3
<1>5. (IF good < n THEN reqRun.buffered[good + 1] ELSE reqRun.err)
        \in {"none", "retryable", "fatal", "input_limit"}
  BY <1>2, <1>3 DEF IsError, ReqRuns
<1>6. (IF good < n THEN <<"err">> ELSE << >>) \in Seq(ReqOutcomes)
  BY ReqErrIs
<1>7. /\ reqRun' \in ReqRuns /\ reqRun'.calls = reqRun.calls
      /\ reqRun'.results = SubSeq(reqRun.buffered, 1, good)
  BY <1>1, <1>2, <1>4, <1>5, <1>6 DEF ReqRuns
<1>8. ReqRunMoves
  BY <1>1, <1>2, <1>3, <1>4, <1>7, ReqRunKept
<1> QED
  BY <1>1, <1>8, ReqRunning, ReqSilent, ReqMoves DEF ReqPcs

LEMMA ReqApplyStep == ReqInv /\ ApplyResults => ReqInv'
<1> SUFFICES ASSUME ReqInv, ApplyResults PROVE ReqInv'
  OBVIOUS
<1> DEFINE results == reqRun.results
<1> DEFINE stop == {i \in DOMAIN results : Stops(results[i])}
<1> DEFINE ran == IF stop = {} /\ ~(reqRun.buffered = <<"err">>) THEN Len(results) ELSE 0
<1>1. /\ reqPc = "apply" /\ reqPc' = "decide" /\ UNCHANGED <<reqRun, reqCount>>
      /\ reqTry' = [reqTry EXCEPT !.durable = @ \/ results # <<>>, !.executed = ran]
      /\ \/ reqLog' = Append(reqLog, Logged("failed", 0))
         \/ reqLog' = reqLog
  BY DEF ApplyResults, EndAttempt
<1>2. ran \in Nat /\ ran <= Len(reqTry.batch)
  <2>1. Len(results) \in Nat /\ Len(results) <= Len(reqRun.calls) /\ Len(reqRun.calls) <= Len(reqTry.batch)
        /\ Len(reqRun.calls) \in Nat /\ Len(reqTry.batch) \in Nat
    BY ReqNow
  <2> QED
    BY <2>1
<1> HIDE DEF ran, stop
<1>3. /\ reqTry' \in ReqTries /\ reqTry'.batch = reqTry.batch /\ reqTry'.executed = ran
      /\ reqTry'.broken = reqTry.broken
  BY <1>1, <1>2, ReqNow DEF ReqTries
<1>4. ReqSameBatch
  BY <1>1, <1>2, <1>3 DEF ReqSameBatch
<1>5. ReqTellsNothing
  BY <1>1, ReqSilent, ReqAppendsQuiet DEF ReqQuietKinds
<1> QED
  BY <1>1, <1>4, <1>5, ReqCountsOn, ReqRunStays, ReqMoves DEF ReqPcs

LEMMA ReqReturns ==
    ASSUME ReqInv, reqPc' = "returned", UNCHANGED <<reqTry, reqRun, reqCount>>, ReqTellsNothing
    PROVE  ReqInv'
<1>1. ReqSameBatch
  BY ReqNow DEF ReqSameBatch
<1> QED
  BY <1>1, ReqCountsOn, ReqRunStays, ReqMoves DEF ReqPcs

LEMMA ReqReturnStep == ReqInv /\ ReturnStep => ReqInv'
<1> SUFFICES ASSUME ReqInv, ReturnStep PROVE ReqInv'
  OBVIOUS
<1>1. ReqTellsNothing
  BY ReqSilent DEF ReturnStep
<1>2. CASE Return(reqEnd.outcome) /\ UNCHANGED <<reqConv, reqTry, reqRun, reqCount>>
  BY <1>1, <1>2, ReqReturns DEF Return
<1>3. CASE /\ Again /\ reqCount.continued < ReqContinuations
           /\ reqCount' = [reqCount EXCEPT !.attempt = @ + 1, !.continued = @ + 1]
  <2>1. reqCount \in ReqCounts /\ reqCount.calls \in Nat
    BY ReqNow, ReqConstants DEF ReqCounts
  <2>2. /\ reqCount' \in ReqCounts /\ reqCount'.calls = reqCount.calls
        /\ reqCount'.attempt = reqCount.attempt + 1 /\ reqCount'.continued = reqCount.continued + 1
    <3>1. /\ reqCount.attempt + 1 \in Nat \ {0} /\ reqCount.continued + 1 \in Nat
          /\ reqCount' = [reqCount EXCEPT !.attempt = reqCount.attempt + 1,
                                          !.continued = reqCount.continued + 1]
      BY <1>3, <2>1 DEF ReqCounts
    <3> QED
      BY <2>1, <3>1 DEF ReqCounts
  <2>3. ReqMoreCounted
    BY <1>3, <2>1, <2>2, ReqConstants DEF ReqMoreCounted, ReqInv, ReqFewAttempts, ReqCounts
  <2> QED
    BY <1>1, <1>3, <2>3, ReqNew, ReqAnew DEF Again
<1> QED
  BY <1>2, <1>3 DEF ReturnStep, ShouldContinueOutput

LEMMA ReqErrorStep == ReqInv /\ HandleError => ReqInv'
<1> SUFFICES ASSUME ReqInv, HandleError PROVE ReqInv'
  OBVIOUS
<1>1. CASE /\ \E outcome : Return(outcome)
           /\ UNCHANGED <<reqTry, reqRun, reqCount>>
           /\ \/ reqLog' = reqLog
              \/ \E kind \in ReqQuietKinds : reqLog' = Append(reqLog, Logged(kind, 0))
  <2>1. ReqTellsNothing
    BY <1>1, ReqSilent, ReqAppendsQuiet
  <2> QED
    BY <1>1, <2>1, ReqReturns DEF Return
<1>2. CASE /\ MayRetry /\ Again /\ reqCount' = [reqCount EXCEPT !.attempt = @ + 1]
           /\ reqLog' = Append(reqLog, Logged("retry_scheduled", 0))
  <2>1. reqCount \in ReqCounts /\ reqCount.calls \in Nat
    BY ReqNow, ReqConstants DEF ReqCounts
  <2>2. /\ reqCount' \in ReqCounts /\ reqCount'.calls = reqCount.calls
        /\ reqCount'.attempt = reqCount.attempt + 1 /\ reqCount'.continued = reqCount.continued
    BY <1>2, <2>1 DEF ReqCounts
  <2>3. ReqMoreCounted
    BY <1>2, <2>1, <2>2, ReqConstants, SMTT(60) DEF ReqMoreCounted, ReqInv, ReqFewAttempts, ReqCounts, MayRetry
  <2>4. ReqTellsNothing
    BY <1>2, ReqAppendsQuiet DEF ReqQuietKinds
  <2> QED
    BY <1>2, <2>3, <2>4, ReqNew, ReqAnew DEF Again
<1> QED
  BY <1>1, <1>2 DEF HandleError, ReqQuietKinds

LEMMA ReqInvStep == ReqInv /\ [ReqNext]_reqVars => ReqInv'
<1> SUFFICES ASSUME ReqInv, [ReqNext]_reqVars PROVE ReqInv'
  OBVIOUS
<1>1. CASE OpenStream
  BY <1>1, ReqOpenStep
<1>2. CASE AssistantDelta \/ ReasoningDelta \/ ReasoningCommitted \/ ToolCallDelta
  BY <1>2, ReqDeltaStep
<1>3. CASE ToolCallDone
  BY <1>3, ReqCallDoneStep
<1>4. CASE StreamEof
  BY <1>4, ReqEofStep
<1>5. CASE StreamBreaks
  BY <1>5, ReqBreakStep
<1>6. CASE RunNextCall
  BY <1>6, ReqNextCallStep
<1>7. CASE \E i \in 1 .. ReqMaxCalls : i \in DOMAIN reqRun.calls /\ RunParallelCall(i)
  BY <1>7, ReqParallelStep
<1>8. CASE CommitBuffered
  BY <1>8, ReqCommitStep
<1>9. CASE CollectResults
  BY <1>9, ReqCollectStep
<1>10. CASE ApplyResults
  BY <1>10, ReqApplyStep
<1>11. CASE ReturnStep
  BY <1>11, ReqReturnStep
<1>12. CASE HandleError
  BY <1>12, ReqErrorStep
<1>13. CASE UNCHANGED reqVars
  BY <1>13 DEF reqVars, ReqInv, ReqShape, ReqTurnShape, ReqTryShape, ReqRunShape, ReqLogShape,
               ReqFewAttempts, ReqNumbered, ReqRunIsBatch, ReqFresh, ReqBroken
<1> QED
  BY <1>1, <1>2, <1>3, <1>4, <1>5, <1>6, <1>7, <1>8, <1>9, <1>10, <1>11, <1>12, <1>13 DEF ReqNext

(* What the request keeps stays in its sets: there are never more attempts than   *)
(* the retries and the continuations allow (providerRetryDecision).               *)
THEOREM ReqTypeCorrect == ReqSpec => []ReqTypeOK
<1>1. ReqInv => ReqTypeOK
  <2> SUFFICES ASSUME ReqInv PROVE ReqTypeOK
    OBVIOUS
  <2>1. reqCount.attempt \in 1 .. (1 + ReqRetries + ReqContinuations)
    BY ReqNow, ReqConstants, SMTT(60) DEF ReqInv, ReqFewAttempts, ReqCounts
  <2> QED
    BY <2>1, ReqNow DEF ReqTypeOK, ReqPcs, ReqCalls
<1> QED
  BY <1>1, ReqInvInit, ReqInvStep, PTL DEF ReqSpec

(* Once a provider's stream broke, nothing but reads has run of the calls it      *)
(* asked for, for any number of calls, deltas, retries and continuations and      *)
(* whatever the calls' kinds (StreamBreaks, InterruptedSafe).                     *)
THEOREM ReqOnlyReadsRun == ReqSpec => []ReqBrokenStreamOnlyReads
<1>1. ReqInv => ReqBrokenStreamOnlyReads
  <2> SUFFICES ASSUME ReqInv, reqTry.broken, NEW c \in CallsRun(reqTry)
               PROVE  c.kind \in {"query", "read"}
    BY DEF ReqBrokenStreamOnlyReads
  <2>1. PICK j \in DOMAIN reqTry.batch : c = reqTry.batch[j]
    BY DEF CallsRun
  <2>2. ReqRan(reqLog, reqTry.batch[j].id)
    BY <2>1 DEF CallsRun, ReqRan
  <2>3. j \in 1 .. Len(reqTry.batch)
    BY ReqNow
  <2> QED
    BY <2>1, <2>2, <2>3 DEF ReqInv, ReqBroken, IsParallelRead
<1> QED
  BY <1>1, ReqInvInit, ReqInvStep, PTL DEF ReqSpec

------------------------------------------------------------------------------
(* The conversation in memory says what the log says. The facts of a log are a    *)
(* fold over it: one event more adds one fact or none. While the stream is open   *)
(* the conversation holds the log's facts; while a batch runs the log is ahead by *)
(* the results so far; applying them brings the conversation up to it.            *)

ReqFactEntries == [kind : ReqQuietKinds \cup {"end", "asked", "call", "result"}, call : Nat]

(* What FoldLeft computes with: the facts of each set of places in the log.       *)
ReqLast(T) == CHOOSE x \in T : \A y \in T : x >= y
ReqFolds(s, f) ==
    f = [T \in SUBSET (DOMAIN s) |-> IF T = {} THEN <<>> ELSE AddFact(f[T \ {ReqLast(T)}], s[ReqLast(T)])]

LEMMA ReqFactsFold ==
    ASSUME NEW s
    PROVE  Facts(s) = (CHOOSE f : ReqFolds(s, f))[DOMAIN s]
  BY DEF Facts, FoldLeft, MapThenFoldSet, ReqFolds, ReqLast, Max

LEMMA ReqLastIs ==
    ASSUME NEW n \in Nat, NEW T \in SUBSET (1 .. n), T # {}
    PROVE  ReqLast(T) \in T /\ \A y \in T : ReqLast(T) >= y
<1> DEFINE U == {u \in Nat : \A y \in T : y <= u}
<1>1. U \in SUBSET Nat /\ n \in U
  OBVIOUS
<1>2. PICK x \in U : \A u \in U : x <= u
  <2> HIDE DEF U
  <2> QED
    BY <1>1, LeastOf
<1>3. x \in T
  <2> SUFFICES ASSUME x \notin T PROVE FALSE
    OBVIOUS
  <2>1. x \in Nat /\ \A y \in T : y \in Nat /\ y # 0 /\ y <= x /\ y # x
    OBVIOUS
  <2>2. x # 0
    <3> PICK member \in T : TRUE
      OBVIOUS
    <3>1. member \in Nat /\ member # 0 /\ member <= x
      BY <2>1
    <3> QED
      BY <3>1
  <2>3. x - 1 \in Nat /\ \A y \in T : y <= x - 1
    BY <2>1, <2>2
  <2>4. x - 1 \in U
    BY <2>3
  <2> HIDE DEF U
  <2> QED
    BY <1>2, <2>1, <2>4
<1>4. \A y \in T : x >= y
  OBVIOUS
<1> QED
  BY <1>3, <1>4 DEF ReqLast

LEMMA AddFactType ==
    ASSUME NEW facts \in Seq(ReqFactEntries), NEW e \in ReqFactEntries
    PROVE  AddFact(facts, e) \in Seq(ReqFactEntries)
<1>1. Logged("result", e.call) \in ReqFactEntries
  BY DEF ReqFactEntries, Logged
<1>2. ASSUME NEW input \in ReqFactEntries PROVE AddInput(facts, input) \in Seq(ReqFactEntries)
  <2>1. Append(facts, input) \in Seq(ReqFactEntries)
    BY AppendProperties
  <2> QED
    BY <2>1 DEF AddInput
<1> QED
  BY <1>1, <1>2 DEF AddFact

(* Such a function exists: it is approached by the size of the set.               *)
LEMMA ReqFoldsExist ==
    ASSUME NEW s \in Seq(ReqFactEntries)
    PROVE  \E f \in [SUBSET (DOMAIN s) -> Seq(ReqFactEntries)] : ReqFolds(s, f)
<1> DEFINE D == SUBSET (DOMAIN s)
           X == [D -> Seq(ReqFactEntries)]
           Step(h) == [T \in D |-> IF T = {} THEN <<>>
                                   ELSE AddFact(h[T \ {ReqLast(T)}], s[ReqLast(T)])]
           g == [p \in Nat \X X |-> Step(p[2])]
           b == [T \in D |-> <<>>]
<1>1. DOMAIN s = 1 .. Len(s) /\ Len(s) \in Nat
  BY LenProperties
<1>2. \A T \in D : T # {} => ReqLast(T) \in T /\ T \ {ReqLast(T)} \in D /\ s[ReqLast(T)] \in ReqFactEntries
  <2> SUFFICES ASSUME NEW T \in D, T # {}
               PROVE  ReqLast(T) \in T /\ T \ {ReqLast(T)} \in D /\ s[ReqLast(T)] \in ReqFactEntries
    OBVIOUS
  <2>1. ReqLast(T) \in T
    BY <1>1, ReqLastIs
  <2> QED
    BY <1>1, <2>1, ElementOfSeq
<1>3. b \in X
  BY EmptySeq
<1>4. ASSUME NEW h \in X PROVE Step(h) \in X
  <2>1. ASSUME NEW T \in D, T # {}
        PROVE  AddFact(h[T \ {ReqLast(T)}], s[ReqLast(T)]) \in Seq(ReqFactEntries)
    <3>1. T \ {ReqLast(T)} \in D /\ s[ReqLast(T)] \in ReqFactEntries
      BY <1>2, <2>1
    <3>2. h[T \ {ReqLast(T)}] \in Seq(ReqFactEntries)
      BY <3>1
    <3> QED
      BY <3>1, <3>2, AddFactType
  <2> QED
    BY <2>1, EmptySeq
<1>5. g \in [Nat \X X -> X]
  <2> HIDE DEF X, Step
  <2> QED
    BY <1>4
<1>6. PICK r : IsRecursion(r, X, b, g)
  <2> HIDE DEF X, g, b
  <2> QED
    BY <1>3, <1>5, Recursion
<1>7. \A n \in Nat : r[n] \in X /\ r[n + 1] = Step(r[n])
  <2> HIDE DEF X, Step, b
  <2>1. ASSUME NEW n \in Nat PROVE r[n] \in X /\ r[n + 1] = Step(r[n])
    <3>1. r[n] \in X /\ r[n + 1] = g[<<n, r[n]>>]
      BY <1>6 DEF IsRecursion
    <3>2. <<n, r[n]>> \in Nat \X X
      BY <3>1
    <3>3. g[<<n, r[n]>>] = Step(r[n])
      BY <3>2
    <3> QED
      BY <3>1, <3>3
  <2> QED
    BY <2>1
<1>8. r[0] = b
  BY <1>6 DEF IsRecursion
<1> DEFINE f == [T \in D |-> r[Cardinality(T)][T]]
<1>9. IsFiniteSet(DOMAIN s)
  BY <1>1, FS_Interval
<1>10. \A T \in D : IsFiniteSet(T) /\ Cardinality(T) \in Nat
  BY <1>9, FS_Subset, FS_CardinalityType
<1>11. f \in X
  <2>1. ASSUME NEW T \in D PROVE r[Cardinality(T)][T] \in Seq(ReqFactEntries)
    BY <1>7, <1>10
  <2> QED
    BY <2>1
<1>12. ASSUME NEW T \in D
       PROVE  f[T] = IF T = {} THEN <<>> ELSE AddFact(f[T \ {ReqLast(T)}], s[ReqLast(T)])
  <2>1. CASE T = {}
    <3>1. Cardinality(T) = 0
      BY <2>1, FS_EmptySet
    <3>2. f[T] = b[T]
      BY <1>8, <3>1
    <3> QED
      BY <2>1, <3>2
  <2>2. CASE T # {}
    <3> DEFINE x == ReqLast(T)
    <3>1. x \in T /\ T \ {x} \in D
      BY <1>2, <2>2
    <3> HIDE DEF x
    <3>2. PICK n : n = Cardinality(T \ {x})
      OBVIOUS
    <3>3. n \in Nat /\ Cardinality(T) = n + 1
      BY <1>10, <3>1, <3>2, FS_RemoveElement
    <3>4. f[T] = r[n + 1][T] /\ f[T \ {x}] = r[n][T \ {x}]
      BY <3>1, <3>2, <3>3
    <3>5. r[n + 1] = Step(r[n])
      BY <1>7, <3>3
    <3> HIDE DEF f
    <3>6. r[n + 1][T] = AddFact(r[n][T \ {x}], s[x])
      BY <2>2, <3>5 DEF x
    <3> QED
      BY <2>2, <3>4, <3>6 DEF x
  <2> QED
    BY <2>1, <2>2
<1>13. ReqFolds(s, f)
  <2>1. f = [T \in D |-> f[T]]
    OBVIOUS
  <2> HIDE DEF f
  <2> QED
    BY <1>12, <2>1 DEF ReqFolds
<1> QED
  BY <1>11, <1>13

(* One event more is one fact more, or one text that goes on.                     *)
LEMMA ReqFoldsAt ==
    ASSUME NEW s, NEW f, ReqFolds(s, f), NEW T \in SUBSET (DOMAIN s)
    PROVE  f[T] = IF T = {} THEN <<>> ELSE AddFact(f[T \ {ReqLast(T)}], s[ReqLast(T)])
<1> DEFINE h == [R \in SUBSET (DOMAIN s) |->
                   IF R = {} THEN <<>> ELSE AddFact(f[R \ {ReqLast(R)}], s[ReqLast(R)])]
<1>1. f = h
  BY Zenon DEF ReqFolds
<1>2. f[T] = h[T]
  BY <1>1, Zenon
<1> QED
  BY <1>2

LEMMA ReqFoldsOne ==
    ASSUME NEW s \in Seq(ReqFactEntries), NEW f, ReqFolds(s, f), NEW k \in Nat, k + 1 <= Len(s)
    PROVE  f[1 .. (k + 1)] = AddFact(f[1 .. k], s[k + 1])
<1> DEFINE T == 1 .. (k + 1)
<1>1. DOMAIN s = 1 .. Len(s) /\ Len(s) \in Nat
  BY LenProperties
<1>2. T \in SUBSET (DOMAIN s) /\ T # {} /\ T \in SUBSET (1 .. (k + 1)) /\ k + 1 \in Nat
  <2>1. k + 1 \in T /\ k + 1 \in Nat
    OBVIOUS
  <2>2. \A i \in T : i \in 1 .. Len(s)
    BY <1>1
  <2> HIDE DEF T
  <2>3. T \subseteq 1 .. Len(s) /\ T # {}
    BY <2>1, <2>2
  <2> QED
    BY <1>1, <2>1, <2>3 DEF T
<1>3. ReqLast(T) \in T /\ \A y \in T : ReqLast(T) >= y
  BY <1>2, ReqLastIs
<1>4. ReqLast(T) = k + 1
  <2>1. k + 1 \in T
    OBVIOUS
  <2> QED
    BY <1>3, <2>1
<1>5. T \ {k + 1} = 1 .. k
  OBVIOUS
<1>6. f[T] = AddFact(f[T \ {ReqLast(T)}], s[ReqLast(T)])
  <2> HIDE DEF T
  <2> QED
    BY <1>2, ReqFoldsAt
<1> QED
  BY <1>4, <1>5, <1>6

LEMMA FactsEmpty == Facts(<<>>) = <<>>
<1>1. <<>> \in Seq(ReqFactEntries) /\ DOMAIN <<>> = {}
  BY EmptySeq
<1> DEFINE f == CHOOSE f : ReqFolds(<<>>, f)
<1>2. ReqFolds(<<>>, f)
  BY <1>1, ReqFoldsExist
<1>3. Facts(<<>>) = f[{}]
  BY <1>1, ReqFactsFold
<1> HIDE DEF f
<1>4. {} \in SUBSET (DOMAIN <<>>)
  OBVIOUS
<1>5. f[{}] = <<>>
  BY <1>2, <1>4, ReqFoldsAt
<1> QED
  BY <1>3, <1>5

LEMMA FactsAppend ==
    ASSUME NEW s \in Seq(ReqFactEntries), NEW e \in ReqFactEntries
    PROVE  Facts(Append(s, e)) = AddFact(Facts(s), e)
<1> DEFINE t == Append(s, e)
           n == Len(s)
           f == CHOOSE f : ReqFolds(s, f)
           h == CHOOSE h : ReqFolds(t, h)
<1>1. /\ t \in Seq(ReqFactEntries) /\ Len(t) = n + 1 /\ n \in Nat /\ t[n + 1] = e
      /\ \A i \in 1 .. n : t[i] = s[i]
      /\ DOMAIN t = 1 .. (n + 1) /\ DOMAIN s = 1 .. n
  BY AppendProperties, LenProperties
<1> HIDE DEF t, n
<1>2. ReqFolds(s, f) /\ ReqFolds(t, h)
  BY <1>1, ReqFoldsExist
<1>3. Facts(s) = f[1 .. n] /\ Facts(t) = h[1 .. (n + 1)]
  BY <1>1, ReqFactsFold
<1> HIDE DEF f, h
<1> DEFINE Z == {k \in Nat : k <= n => f[1 .. k] = h[1 .. k]}
<1>4. 0 \in Z
  <2>1. 1 .. 0 = {} /\ {} \in SUBSET (DOMAIN s) /\ {} \in SUBSET (DOMAIN t)
    OBVIOUS
  <2>2. f[{}] = <<>> /\ h[{}] = <<>>
    BY <1>2, <2>1, ReqFoldsAt
  <2> QED
    BY <2>1, <2>2
<1>5. ASSUME NEW k \in Nat, k \in Z PROVE k + 1 \in Z
  <2> SUFFICES ASSUME k + 1 <= n PROVE f[1 .. (k + 1)] = h[1 .. (k + 1)]
    OBVIOUS
  <2>1. f[1 .. k] = h[1 .. k] /\ k + 1 <= Len(t) /\ k + 1 \in 1 .. n /\ k + 1 <= Len(s)
    BY <1>1, <1>5 DEF n
  <2>2. f[1 .. (k + 1)] = AddFact(f[1 .. k], s[k + 1]) /\ h[1 .. (k + 1)] = AddFact(h[1 .. k], t[k + 1])
    BY <1>1, <1>2, <2>1, ReqFoldsOne
  <2> QED
    BY <1>1, <2>1, <2>2
<1> HIDE DEF Z
<1>6. n \in Z
  BY <1>1, <1>4, <1>5, ClosedIsNat
<1>7. f[1 .. n] = h[1 .. n]
  BY <1>1, <1>6 DEF Z
<1>8. h[1 .. (n + 1)] = AddFact(h[1 .. n], t[n + 1])
  BY <1>1, <1>2, ReqFoldsOne
<1> QED
  BY <1>1, <1>3, <1>7, <1>8 DEF t

LEMMA FactsType ==
    ASSUME NEW s \in Seq(ReqFactEntries)
    PROVE  Facts(s) \in Seq(ReqFactEntries)
<1> DEFINE Z == {t \in Seq(ReqFactEntries) : Facts(t) \in Seq(ReqFactEntries)}
<1>1. <<>> \in Z
  BY FactsEmpty, EmptySeq
<1>2. ASSUME NEW t \in Seq(ReqFactEntries), NEW e \in ReqFactEntries, t \in Z PROVE Append(t, e) \in Z
  BY <1>2, FactsAppend, AddFactType, AppendProperties
<1> HIDE DEF Z
<1>3. s \in Z
  BY <1>1, <1>2, ClosedIsSeq
<1> QED
  BY <1>3 DEF Z

(* What no request needs to know leaves the facts as they are.                    *)
ReqSilentEntries == {e \in ReqFactEntries : e.kind \notin FactKinds}

LEMMA FactsSilent ==
    ASSUME NEW s \in Seq(ReqFactEntries), NEW t \in Seq(ReqSilentEntries)
    PROVE  Facts(s \o t) = Facts(s) /\ s \o t \in Seq(ReqFactEntries)
<1> DEFINE Z == {u \in Seq(ReqSilentEntries) : Facts(s \o u) = Facts(s) /\ s \o u \in Seq(ReqFactEntries)}
<1>1. <<>> \in Z
  BY EmptySeq, ConcatEmptySeq
<1>2. ASSUME NEW u \in Seq(ReqSilentEntries), NEW e \in ReqSilentEntries, u \in Z PROVE Append(u, e) \in Z
  <2>1. e \in ReqFactEntries /\ e.kind \notin FactKinds /\ u \in Seq(ReqFactEntries)
    BY SeqMonotonic DEF ReqSilentEntries
  <2>2. s \o Append(u, e) = Append(s \o u, e)
    BY <2>1, ConcatAppend
  <2>3. Facts(Append(s \o u, e)) = AddFact(Facts(s \o u), e) /\ Append(s \o u, e) \in Seq(ReqFactEntries)
    BY <1>2, <2>1, FactsAppend, AppendProperties
  <2>4. Facts(s \o Append(u, e)) = Facts(s)
    BY <1>2, <2>1, <2>2, <2>3 DEF AddFact
  <2>5. Append(u, e) \in Seq(ReqSilentEntries)
    BY AppendProperties
  <2> QED
    BY <2>2, <2>3, <2>4, <2>5
<1> HIDE DEF Z
<1>3. t \in Z
  BY <1>1, <1>2, ClosedIsSeq
<1> QED
  BY <1>3 DEF Z

LEMMA FactsSilentOne ==
    ASSUME NEW s \in Seq(ReqFactEntries), NEW e \in ReqSilentEntries
    PROVE  Facts(Append(s, e)) = Facts(s)
<1>1. e \in ReqFactEntries /\ e.kind \notin FactKinds
  BY DEF ReqSilentEntries
<1> QED
  BY <1>1, FactsAppend DEF AddFact

(* A result in the log or in a conversation is a fact more.                       *)
LEMMA FactsResult ==
    ASSUME NEW s \in Seq(ReqFactEntries), NEW id \in Nat, NEW e \in {Logged("end", id), Logged("result", id)}
    PROVE  Facts(Append(s, e)) = Append(Facts(s), Logged("result", id))
<1>1. e \in ReqFactEntries /\ e.kind \in {"end", "result"} /\ e.call = id
      /\ (e.kind = "result" => e = Logged("result", id))
  BY DEF ReqFactEntries, Logged
<1>2. AddFact(Facts(s), e) = AddInput(Facts(s), Logged("result", id))
  BY <1>1 DEF AddFact, FactKinds
<1>3. AddInput(Facts(s), Logged("result", id)) = Append(Facts(s), Logged("result", id))
  BY DEF AddInput, Logged
<1> QED
  BY <1>1, <1>2, <1>3, FactsAppend

(* Text and reasoning go into a settled conversation and into the log alike.      *)
ReqPlain == {Logged("text", 0), Logged("reasoning", 0)}
ReqSettled(conv) == conv \in Seq(ReqPlain) /\ Facts(conv) = conv

LEMMA ReqPlainEntries == ReqPlain \subseteq ReqFactEntries
  BY DEF ReqPlain, ReqFactEntries, ReqQuietKinds, Logged

LEMMA ReqSettledMore ==
    ASSUME NEW conv, ReqSettled(conv), NEW input \in ReqPlain,
           NEW log \in Seq(ReqFactEntries), Facts(log) = conv
    PROVE  ReqSettled(AddInput(conv, input)) /\ Facts(Append(log, input)) = AddInput(conv, input)
<1>1. input \in ReqFactEntries /\ \A facts : AddFact(facts, input) = AddInput(facts, input)
  BY DEF ReqPlain, ReqFactEntries, ReqQuietKinds, Logged, AddFact, FactKinds
<1>2. conv \in Seq(ReqPlain) /\ conv \in Seq(ReqFactEntries) /\ Facts(conv) = conv
  BY ReqPlainEntries, SeqMonotonic DEF ReqSettled
<1>3. Facts(Append(log, input)) = AddInput(conv, input)
  BY <1>1, FactsAppend
<1>4. CASE AddInput(conv, input) = conv
  BY <1>3, <1>4
<1>5. CASE AddInput(conv, input) = Append(conv, input)
  <2>1. Facts(Append(conv, input)) = AddInput(conv, input)
    BY <1>1, <1>2, FactsAppend
  <2>2. Append(conv, input) \in Seq(ReqPlain)
    BY <1>2, AppendProperties
  <2> QED
    BY <1>3, <1>5, <2>1, <2>2 DEF ReqSettled
<1>6. AddInput(conv, input) = conv \/ AddInput(conv, input) = Append(conv, input)
  BY DEF AddInput
<1> QED
  BY <1>4, <1>5, <1>6

LEMMA ReqCallIds ==
    ASSUME NEW calls \in Seq(ReqCalls)
    PROVE  Len(calls) \in Nat /\ \A i \in 1 .. Len(calls) : calls[i].id \in Nat
<1>1. \A i \in 1 .. Len(calls) : calls[i] \in ReqCalls
  BY ElementOfSeq
<1>2. \A call \in ReqCalls : call.id \in Nat
  BY ReqConstants DEF ReqCalls
<1> QED
  BY <1>1, <1>2, LenProperties

(* The results of the first calls of a batch.                                     *)
ReqResults(calls, n) == [i \in 1 .. n |-> Logged("result", calls[i].id)]

LEMMA ReqResultsMore ==
    ASSUME NEW calls \in Seq(ReqCalls), NEW n \in Nat, n + 1 <= Len(calls)
    PROVE  /\ calls[n + 1].id \in Nat
           /\ ReqResults(calls, n + 1) = Append(ReqResults(calls, n), Logged("result", calls[n + 1].id))
<1>1. Len(calls) \in Nat /\ \A i \in 1 .. Len(calls) : calls[i].id \in Nat
  BY ReqCallIds
<1> DEFINE r == ReqResults(calls, n)
           e == Logged("result", calls[n + 1].id)
<1>2. r \in Seq({Logged("result", id) : id \in Nat}) /\ Len(r) = n /\ DOMAIN r = 1 .. n
  BY <1>1 DEF ReqResults
<1>3. e \in {Logged("result", id) : id \in Nat}
  BY <1>1
<1> HIDE DEF r, e
<1> DEFINE R == {Logged("result", id) : id \in Nat}
           t == ReqResults(calls, n + 1)
<1>4. Append(r, e) \in Seq(R) /\ Len(Append(r, e)) = n + 1
      /\ \A i \in 1 .. (n + 1) : Append(r, e)[i] = IF i = n + 1 THEN e ELSE r[i]
  <2> HIDE DEF R
  <2> QED
    BY <1>2, <1>3, AppendProperties DEF R
<1>5. t \in Seq(R) /\ Len(t) = n + 1
  BY <1>1 DEF ReqResults
<1>6. \A i \in 1 .. (n + 1) : t[i] = IF i = n + 1 THEN e ELSE r[i]
  BY DEF ReqResults, r, e
<1> HIDE DEF t, R
<1>7. Append(r, e) = t
  BY <1>4, <1>5, <1>6, SeqEqual
<1> QED
  BY <1>1, <1>7 DEF r, e, t

LEMMA ReqResultsType ==
    ASSUME NEW calls \in Seq(ReqCalls), NEW n \in Nat, n <= Len(calls)
    PROVE  ReqResults(calls, n) \in Seq(ReqFactEntries) /\ ReqResults(calls, 0) = <<>>
<1>1. Len(calls) \in Nat /\ \A i \in 1 .. Len(calls) : calls[i].id \in Nat
  BY ReqCallIds
<1>2. \A i \in 1 .. n : Logged("result", calls[i].id) \in ReqFactEntries
  BY <1>1 DEF Logged, ReqFactEntries
<1>3. [i \in 1 .. n |-> Logged("result", calls[i].id)] \in Seq(ReqFactEntries)
  BY <1>2, IsASeq
<1> QED
  BY <1>3 DEF ReqResults

(* A conversation goes on with results.                                           *)
LEMMA ReqConvMore ==
    ASSUME NEW conv \in Seq(ReqFactEntries), NEW calls \in Seq(ReqCalls), NEW n \in Nat, n + 1 <= Len(calls)
    PROVE  Append(conv \o ReqResults(calls, n), Logged("result", calls[n + 1].id))
               = conv \o ReqResults(calls, n + 1)
<1>1. ReqResults(calls, n) \in Seq(ReqFactEntries)
  <2>1. n <= Len(calls)
    BY LenProperties
  <2> QED
    BY <2>1, ReqResultsType
<1> DEFINE e == Logged("result", calls[n + 1].id)
<1>2. e \in ReqFactEntries
  BY ReqResultsMore DEF Logged, ReqFactEntries
<1>3. ReqResults(calls, n + 1) = Append(ReqResults(calls, n), e)
  BY ReqResultsMore
<1> HIDE DEF e
<1>4. conv \o Append(ReqResults(calls, n), e) = Append(conv \o ReqResults(calls, n), e)
  BY <1>1, <1>2, ConcatAppend, SMTT(60)
<1> QED
  BY <1>3, <1>4 DEF e

LEMMA FactsResults ==
    ASSUME NEW s \in Seq(ReqFactEntries), NEW calls \in Seq(ReqCalls), NEW n \in Nat, n <= Len(calls)
    PROVE  Facts(s \o ReqResults(calls, n)) = Facts(s) \o ReqResults(calls, n)
<1> DEFINE Z == {k \in Nat : k <= Len(calls) =>
                     Facts(s \o ReqResults(calls, k)) = Facts(s) \o ReqResults(calls, k)}
<1>0. Len(calls) \in Nat /\ Facts(s) \in Seq(ReqFactEntries)
  BY LenProperties, FactsType
<1>1. 0 \in Z
  <2>1. ReqResults(calls, 0) = <<>>
    BY ReqResultsType
  <2> QED
    BY <1>0, <2>1, ConcatEmptySeq
<1>2. ASSUME NEW k \in Nat, k \in Z PROVE k + 1 \in Z
  <2> SUFFICES ASSUME k + 1 <= Len(calls)
               PROVE  Facts(s \o ReqResults(calls, k + 1)) = Facts(s) \o ReqResults(calls, k + 1)
    OBVIOUS
  <2> DEFINE e == Logged("result", calls[k + 1].id)
  <2>1. k <= Len(calls) /\ Facts(s \o ReqResults(calls, k)) = Facts(s) \o ReqResults(calls, k)
    BY <1>0, <1>2
  <2>2. s \o ReqResults(calls, k) \in Seq(ReqFactEntries)
    BY <2>1, ReqResultsType, ConcatProperties
  <2>3. calls[k + 1].id \in Nat
    BY ReqResultsMore
  <2>4. Facts(Append(s \o ReqResults(calls, k), e)) = Append(Facts(s \o ReqResults(calls, k)), e)
    BY <2>2, <2>3, FactsResult
  <2> HIDE DEF e
  <2>5. Append(s \o ReqResults(calls, k), e) = s \o ReqResults(calls, k + 1)
        /\ Append(Facts(s) \o ReqResults(calls, k), e) = Facts(s) \o ReqResults(calls, k + 1)
    BY <1>0, ReqConvMore DEF e
  <2> QED
    BY <2>1, <2>4, <2>5
<1> HIDE DEF Z
<1>3. n \in Z
  BY <1>1, <1>2, ClosedIsNat
<1> QED
  BY <1>3 DEF Z

(* A conversation that got the calls of a batch with their results.               *)
ReqIdsOf(calls) == {calls[i].id : i \in DOMAIN calls}
ReqEntriesOf(kind, calls) == {Logged(kind, id) : id \in ReqIdsOf(calls)}
ReqAllDone(outcomes, n) == \A i \in 1 .. n : outcomes[i] = "done"
ReqAdded(conv, calls, n, more) ==
    /\ more \in Seq(ReqFactEntries) /\ Facts(more) = Facts(conv) \o ReqResults(calls, n)
    /\ Len(conv) <= Len(more) /\ \A i \in 1 .. Len(conv) : more[i] = conv[i]
    /\ IF n = 0 THEN Len(more) = Len(conv)
       ELSE Len(conv) < Len(more) /\ more[Len(conv) + 1] = Logged("call", calls[1].id)
    /\ Select(more, ReqEntriesOf("result", calls)) = ReqResults(calls, n)

LEMMA ReqAddsNone ==
    ASSUME NEW conv \in Seq(ReqPlain), NEW calls \in Seq(ReqCalls)
    PROVE  ReqAdded(conv, calls, 0, conv)
<1>1. conv \in Seq(ReqFactEntries) /\ ReqResults(calls, 0) = <<>> /\ Len(conv) \in Nat
  <2>1. 0 <= Len(calls)
    BY LenProperties
  <2> QED
    BY <2>1, ReqPlainEntries, SeqMonotonic, ReqResultsType, LenProperties
<1>2. Facts(conv) = Facts(conv) \o <<>>
  BY <1>1, FactsType, ConcatEmptySeq
<1>3. Select(conv, ReqEntriesOf("result", calls)) = <<>>
  <2> DEFINE S == ReqEntriesOf("result", calls)
  <2>1. ReqPlain \cap S = {}
    BY DEF ReqPlain, ReqEntriesOf, Logged
  <2> HIDE DEF S
  <2>2. Select(conv, S) \in Seq(ReqPlain \cap S)
    BY SelectType
  <2> QED
    BY <2>1, <2>2 DEF S
<1>4. Len(conv) <= Len(conv)
  BY <1>1
<1> QED
  BY <1>1, <1>2, <1>3, <1>4, Zenon DEF ReqAdded

LEMMA ReqAddsOne ==
    ASSUME NEW conv \in Seq(ReqPlain), NEW calls \in Seq(ReqCalls), NEW n \in Nat, n + 1 <= Len(calls),
           NEW more, ReqAdded(conv, calls, n, more)
    PROVE  ReqAdded(conv, calls, n + 1, AddCall(more, calls[n + 1], TRUE))
<1> DEFINE id == calls[n + 1].id
           c == Logged("call", id)
           r == Logged("result", id)
           S == ReqEntriesOf("result", calls)
           asked == Append(more, c)
           all == Append(asked, r)
<1>1. /\ id \in Nat /\ n + 1 \in 1 .. Len(calls) /\ id \in ReqIdsOf(calls)
      /\ ReqResults(calls, n + 1) = Append(ReqResults(calls, n), r)
  <2>1. id \in Nat /\ n + 1 \in 1 .. Len(calls)
    BY ReqCallIds
  <2>2. DOMAIN calls = 1 .. Len(calls)
    BY LenProperties
  <2> QED
    BY <2>1, <2>2, ReqResultsMore DEF ReqIdsOf
<1>2. c \in ReqSilentEntries /\ c \in ReqFactEntries /\ r \in ReqFactEntries /\ c \notin S /\ r \in S
  BY <1>1 DEF ReqSilentEntries, ReqFactEntries, FactKinds, Logged, ReqEntriesOf
<1>3. more \in Seq(ReqFactEntries) /\ Len(more) \in Nat /\ Len(conv) \in Nat /\ Len(conv) <= Len(more)
  BY LenProperties DEF ReqAdded
<1>4. AddCall(more, calls[n + 1], TRUE) = all
  <2>1. AddCall(more, calls[n + 1], TRUE) = more \o <<c>> \o <<r>>
    BY DEF AddCall
  <2> HIDE DEF c, r
  <2>2. more \o <<c>> = asked /\ asked \in Seq(ReqFactEntries)
    BY <1>2, <1>3, AppendIsConcat, AppendProperties
  <2>3. asked \o <<r>> = all
    BY <1>2, <2>2, AppendIsConcat
  <2> QED
    BY <2>1, <2>2, <2>3
<1> HIDE DEF c, S
<1>5. /\ asked \in Seq(ReqFactEntries) /\ Len(asked) = Len(more) + 1 /\ asked[Len(more) + 1] = c
      /\ \A i \in 1 .. Len(more) : asked[i] = more[i]
  BY <1>2, <1>3, AppendProperties
<1>6. Facts(asked) = Facts(more) /\ Select(asked, S) = Select(more, S)
  BY <1>2, <1>3, FactsSilentOne, SelectAppend
<1> HIDE DEF asked
<1>7. Facts(all) = Append(Facts(asked), r)
  BY <1>1, <1>5, FactsResult
<1> HIDE DEF r
<1>8. /\ all \in Seq(ReqFactEntries) /\ Len(all) = Len(asked) + 1
      /\ \A i \in 1 .. Len(asked) : all[i] = asked[i]
      /\ Select(all, S) = Append(Select(asked, S), r)
  BY <1>2, <1>5, AppendProperties, SelectAppend
<1> HIDE DEF all
<1>9. Facts(all) = Facts(conv) \o ReqResults(calls, n + 1)
  <2>1. Facts(all) = Append(Facts(conv) \o ReqResults(calls, n), r)
    BY <1>6, <1>7 DEF ReqAdded
  <2>2. Facts(conv) \in Seq(ReqFactEntries)
    BY ReqPlainEntries, SeqMonotonic, FactsType
  <2> QED
    BY <2>1, <2>2, ReqConvMore DEF r
<1>10. Select(all, S) = ReqResults(calls, n + 1)
  BY <1>1, <1>6, <1>8 DEF ReqAdded, S
<1>11. Len(conv) < Len(all) /\ \A i \in 1 .. Len(conv) : all[i] = conv[i]
  <2>1. \A i \in 1 .. Len(conv) : i \in 1 .. Len(more) /\ i \in 1 .. Len(asked) /\ more[i] = conv[i]
    BY <1>3, <1>5, SMTT(60) DEF ReqAdded
  <2>2. \A i \in 1 .. Len(conv) : all[i] = conv[i]
    <3>1. ASSUME NEW i \in 1 .. Len(conv) PROVE all[i] = conv[i]
      <4>1. i \in 1 .. Len(more) /\ i \in 1 .. Len(asked) /\ more[i] = conv[i]
        BY <2>1
      <4>2. all[i] = asked[i] /\ asked[i] = more[i]
        BY <1>5, <1>8, <4>1
      <4> QED
        BY <4>1, <4>2
    <3> QED
      BY <3>1
  <2>3. Len(conv) < Len(all)
    BY <1>3, <1>5, <1>8
  <2> QED
    BY <2>2, <2>3
<1>12. all[Len(conv) + 1] = Logged("call", calls[1].id)
  <2>1. CASE n = 0
    <3>1. Len(more) = Len(conv) /\ Len(conv) + 1 \in 1 .. Len(asked)
      BY <1>3, <1>5, <2>1 DEF ReqAdded
    <3> QED
      BY <1>5, <1>8, <2>1, <3>1, SMTT(60) DEF c
  <2>2. CASE n # 0
    <3>1. Len(conv) < Len(more) /\ more[Len(conv) + 1] = Logged("call", calls[1].id)
      BY <2>2 DEF ReqAdded
    <3>2. Len(conv) + 1 \in 1 .. Len(more) /\ Len(conv) + 1 \in 1 .. Len(asked)
      BY <1>3, <1>5, <3>1
    <3> QED
      BY <1>5, <1>8, <3>1, <3>2
  <2> QED
    BY <2>1, <2>2
<1>13. Len(conv) <= Len(all) /\ n + 1 # 0
  BY <1>3, <1>5, <1>8
<1>14. ReqAdded(conv, calls, n + 1, all)
  BY <1>8, <1>9, <1>10, <1>11, <1>12, <1>13, Zenon DEF ReqAdded, S
<1> QED
  BY <1>4, <1>14

(* All results of a run that was not stopped go into the conversation.            *)
ReqParts(conv, calls, results, f) ==
    f = [i \in 0 .. Len(results) |->
            IF i = 0 THEN conv
            ELSE IF results[i] = "turnfail" THEN f[i - 1]
            ELSE AddCall(f[i - 1], calls[i], results[i] = "done")]

LEMMA ReqPartsExist ==
    ASSUME NEW conv \in Seq(ReqPlain), NEW calls \in Seq(ReqCalls), NEW results,
           Len(results) \in Nat, Len(results) <= Len(calls), ReqAllDone(results, Len(results))
    PROVE  \E f : ReqParts(conv, calls, results, f)
<1> DEFINE n == Len(results)
           E == Seq(ReqFactEntries)
           More(p) == IF p[1] < n THEN AddCall(p[2], calls[p[1] + 1], TRUE) ELSE p[2]
           g == [p \in Nat \X E |-> More(p)]
<1>1. conv \in E
  BY ReqPlainEntries, SeqMonotonic
<1>2. ASSUME NEW k \in Nat, NEW c \in E, k < n PROVE AddCall(c, calls[k + 1], TRUE) \in E
  <2>1. calls[k + 1].id \in Nat
    <3>1. k + 1 \in 1 .. Len(calls)
      BY <1>2, ReqCallIds
    <3> QED
      BY <3>1, ReqCallIds
  <2>2. \A kind \in {"call", "result"} : Logged(kind, calls[k + 1].id) \in ReqFactEntries
    BY <2>1 DEF Logged, ReqFactEntries
  <2> QED
    BY <2>2 DEF AddCall
<1>3. g \in [Nat \X E -> E]
  <2>1. ASSUME NEW p \in Nat \X E PROVE More(p) \in E
    <3>1. p[1] \in Nat /\ p[2] \in E
      OBVIOUS
    <3> HIDE DEF E
    <3> QED
      BY <1>2, <3>1
  <2> HIDE DEF More
  <2> QED
    BY <2>1
<1>4. PICK r : IsRecursion(r, E, conv, g)
  <2> HIDE DEF E, g
  <2> QED
    BY <1>1, <1>3, Recursion
<1> DEFINE f == [i \in 0 .. n |-> r[i]]
<1>5. ASSUME NEW i \in 0 .. n
      PROVE  f[i] = IF i = 0 THEN conv
                    ELSE IF results[i] = "turnfail" THEN f[i - 1]
                    ELSE AddCall(f[i - 1], calls[i], results[i] = "done")
  <2>1. CASE i = 0
    BY <1>4, <2>1 DEF IsRecursion
  <2>2. CASE i # 0
    <3>1. PICK k \in Nat : i = k + 1 /\ k < n
      <4>1. i - 1 \in Nat /\ i = (i - 1) + 1 /\ i - 1 < n
        BY <2>2
      <4> QED
        BY <4>1
    <3>2. r[k + 1] = g[<<k, r[k]>>] /\ r[k] \in E
      <4> HIDE DEF E, g
      <4> QED
        BY <1>4 DEF IsRecursion
    <3>3. g[<<k, r[k]>>] = AddCall(r[k], calls[k + 1], TRUE)
      <4> HIDE DEF E
      <4> QED
        BY <3>1, <3>2
    <3>4. results[i] = "done"
      BY <2>2 DEF ReqAllDone
    <3>5. f[i] = r[k + 1] /\ f[i - 1] = r[k]
      BY <3>1
    <3>6. (results[i] = "done") = TRUE
      BY <3>4
    <3>7. AddCall(f[i - 1], calls[i], results[i] = "done") = AddCall(r[k], calls[k + 1], TRUE)
      BY <3>1, <3>5, <3>6
    <3> HIDE DEF f, g
    <3> QED
      BY <2>2, <3>2, <3>3, <3>4, <3>5, <3>7
  <2> QED
    BY <2>1, <2>2
<1>6. ReqParts(conv, calls, results, f)
  <2>1. f = [i \in 0 .. n |-> f[i]]
    OBVIOUS
  <2> HIDE DEF f
  <2> QED
    BY <1>5, <2>1 DEF ReqParts
<1> QED
  BY <1>6

LEMMA ReqPartsAt ==
    ASSUME NEW conv, NEW calls, NEW results, NEW f, ReqParts(conv, calls, results, f),
           NEW i \in 0 .. Len(results)
    PROVE  f[i] = IF i = 0 THEN conv
                  ELSE IF results[i] = "turnfail" THEN f[i - 1]
                  ELSE AddCall(f[i - 1], calls[i], results[i] = "done")
<1> DEFINE h == [k \in 0 .. Len(results) |->
                   IF k = 0 THEN conv
                   ELSE IF results[k] = "turnfail" THEN f[k - 1]
                   ELSE AddCall(f[k - 1], calls[k], results[k] = "done")]
<1>1. f = h
  BY Zenon DEF ReqParts
<1>2. f[i] = h[i]
  BY <1>1, Zenon
<1> QED
  BY <1>2

LEMMA ReqAddsAll ==
    ASSUME NEW conv \in Seq(ReqPlain), NEW calls \in Seq(ReqCalls), NEW results,
           Len(results) \in Nat, Len(results) <= Len(calls), ReqAllDone(results, Len(results))
    PROVE  ReqAdded(conv, calls, Len(results), AddResults(conv, calls, results))
<1> DEFINE n == Len(results)
           f == CHOOSE f : ReqParts(conv, calls, results, f)
<1>1. ReqParts(conv, calls, results, f)
  BY ReqPartsExist
<1>2. AddResults(conv, calls, results) = f[n]
  BY DEF AddResults, ReqParts
<1> HIDE DEF f
<1> DEFINE Z == {k \in Nat : k <= n => ReqAdded(conv, calls, k, f[k])}
<1>3. 0 \in Z
  <2>1. f[0] = conv
    BY <1>1, ReqPartsAt
  <2> QED
    BY <2>1, ReqAddsNone
<1>4. ASSUME NEW k \in Nat, k \in Z PROVE k + 1 \in Z
  <2> SUFFICES ASSUME k + 1 <= n PROVE ReqAdded(conv, calls, k + 1, f[k + 1])
    OBVIOUS
  <2>1. ReqAdded(conv, calls, k, f[k]) /\ k + 1 <= Len(calls) /\ k + 1 \in 1 .. n
    BY <1>4, ReqCallIds
  <2>2. results[k + 1] = "done"
    BY <2>1 DEF ReqAllDone
  <2>3. f[k + 1] = AddCall(f[k], calls[k + 1], TRUE)
    <3>1. k + 1 \in 0 .. n /\ (k + 1) - 1 = k /\ k + 1 # 0
      BY <2>1
    <3>2. f[k + 1] = AddCall(f[(k + 1) - 1], calls[k + 1], results[k + 1] = "done")
      BY <1>1, <2>2, <3>1, ReqPartsAt
    <3>3. (results[k + 1] = "done") = TRUE
      BY <2>2
    <3> QED
      BY <3>1, <3>2, <3>3
  <2> QED
    BY <2>1, <2>3, ReqAddsOne
<1> HIDE DEF Z
<1>5. n \in Z
  BY <1>3, <1>4, ClosedIsNat
<1>6. ReqAdded(conv, calls, n, f[n])
  BY <1>5 DEF Z
<1> QED
  BY <1>2, <1>6

(* Putting the calls of a batch before their results keeps the facts.             *)
LEMMA ReqNormalized ==
    ASSUME NEW conv \in Seq(ReqPlain), NEW calls \in Seq(ReqCalls), NEW n \in Nat, n <= Len(calls),
           NEW more, ReqAdded(conv, calls, n, more)
    PROVE  Facts(NormalizeToolCallBatch(more, calls)) = Facts(conv) \o ReqResults(calls, n)
<1> DEFINE own == {calls[i].id : i \in DOMAIN calls}
           OfBatch(e) == e.kind \in {"call", "result"} /\ e.call \in own
           first == {i \in DOMAIN more : OfBatch(more[i])}
           least == CHOOSE i \in first : \A j \in first : i <= j
           P == Select(more, ReqEntriesOf("call", calls))
           R == Select(more, ReqEntriesOf("result", calls))
<1>1. NormalizeToolCallBatch(more, calls) =
          IF Len(calls) < 2 \/ first = {} THEN more ELSE SubSeq(more, 1, least - 1) \o P \o R
  BY DEF NormalizeToolCallBatch, ReqEntriesOf, ReqIdsOf
<1>2. /\ more \in Seq(ReqFactEntries) /\ Facts(more) = Facts(conv) \o ReqResults(calls, n)
      /\ DOMAIN more = 1 .. Len(more) /\ Len(more) \in Nat /\ Len(conv) \in Nat
      /\ R = ReqResults(calls, n)
  BY LenProperties DEF ReqAdded
<1>3. CASE Len(calls) < 2 \/ first = {}
  <2>1. NormalizeToolCallBatch(more, calls) = more
    <3> HIDE DEF first, least
    <3> QED
      BY <1>1, <1>3
  <2> QED
    BY <1>2, <2>1
<1>4. CASE ~(Len(calls) < 2 \/ first = {})
  <2>1. \A i \in 1 .. Len(conv) : i \notin first
    <3>1. \A i \in 1 .. Len(conv) : conv[i] \in ReqPlain /\ more[i] = conv[i]
      BY ElementOfSeq DEF ReqAdded
    <3>2. \A e \in ReqPlain : ~OfBatch(e)
      BY DEF ReqPlain, Logged
    <3> QED
      BY <3>1, <3>2
  <2>2. n # 0
    <3> SUFFICES ASSUME n = 0 PROVE FALSE
      OBVIOUS
    <3>1. Len(more) = Len(conv)
      BY DEF ReqAdded
    <3> QED
      BY <1>2, <1>4, <2>1, <3>1
  <2>3. Len(conv) < Len(more) /\ more[Len(conv) + 1] = Logged("call", calls[1].id)
    BY <2>2 DEF ReqAdded
  <2>4. calls[1].id \in own
    <3>1. 1 \in DOMAIN calls
      BY <2>2, LenProperties
    <3> QED
      BY <3>1
  <2>5. Len(conv) + 1 \in first
    BY <1>2, <2>3, <2>4 DEF Logged
  <2>6. \A j \in first : Len(conv) + 1 <= j
    <3>1. \A j \in first : j \in 1 .. Len(more) /\ j \notin 1 .. Len(conv)
      BY <1>2, <2>1
    <3> HIDE DEF first
    <3> QED
      BY <1>2, <3>1
  <2>7. least = Len(conv) + 1
    <3>a. \A j \in first : j \in Nat
      BY <1>2
    <3> HIDE DEF first
    <3>1. least \in first /\ \A j \in first : least <= j
      BY <2>5, <2>6
    <3> HIDE DEF least
    <3> QED
      BY <1>2, <2>5, <2>6, <3>a, <3>1
  <2>8. SubSeq(more, 1, Len(conv)) = conv
    <3>1. /\ SubSeq(more, 1, Len(conv)) \in Seq(ReqFactEntries)
          /\ Len(SubSeq(more, 1, Len(conv))) = Len(conv)
          /\ \A i \in 1 .. Len(conv) : SubSeq(more, 1, Len(conv))[i] = more[i]
      BY <1>2, <2>3
    <3>2. conv \in Seq(ReqFactEntries) /\ \A i \in 1 .. Len(conv) : more[i] = conv[i]
      BY ReqPlainEntries, SeqMonotonic DEF ReqAdded
    <3> QED
      BY <3>1, <3>2, SeqEqual
  <2>9. P \in Seq(ReqSilentEntries)
    <3>1. P \in Seq(ReqEntriesOf("call", calls))
      BY <1>2, SelectType
    <3>2. ReqEntriesOf("call", calls) \subseteq ReqSilentEntries
      <4>1. ReqIdsOf(calls) \subseteq Nat
        BY ReqCallIds, LenProperties DEF ReqIdsOf
      <4> QED
        BY <4>1 DEF ReqEntriesOf, ReqSilentEntries, ReqFactEntries, FactKinds, Logged
    <3> QED
      BY <3>1, <3>2, SeqMonotonic
  <2>10. Facts(conv \o P) = Facts(conv) /\ conv \o P \in Seq(ReqFactEntries)
    <3>1. conv \in Seq(ReqFactEntries)
      BY ReqPlainEntries, SeqMonotonic
    <3> HIDE DEF P
    <3> QED
      BY <2>9, <3>1, FactsSilent
  <2>11. NormalizeToolCallBatch(more, calls) = conv \o P \o ReqResults(calls, n)
    <3> HIDE DEF least, first, P, R
    <3>1. least - 1 = Len(conv)
      BY <1>2, <2>7
    <3> QED
      BY <1>1, <1>2, <1>4, <2>8, <3>1
  <2> HIDE DEF P
  <2> QED
    BY <2>10, <2>11, FactsResults
<1> QED
  BY <1>3, <1>4

(* While a batch runs, the log is ahead of the conversation by the results.       *)
ReqRanSoFar(n) == Facts(reqLog) = reqConv.now \o ReqResults(reqRun.calls, n)
ReqAsLogged(conv) == ReqSettled(conv) /\ Facts(reqLog) = conv

(* What an attempt leaves in the log it counts as durable.                        *)
ReqOpenLog == reqPc = "open" => ReqAsLogged(reqConv.initial)
ReqStreamLog ==
    reqPc = "stream" =>
        /\ ReqAsLogged(reqConv.now) /\ reqConv.committed = reqConv.now
        /\ (~reqTry.durable => reqConv.initial = reqConv.now)
        /\ reqTry.started /\ (reqTry.batch # <<>> => reqTry.toolCalls)

(* A run that was not stopped by an error, a question or a failure has the log of *)
(* all that it has the results of.                                                *)
ReqRunLog ==
    reqPc = "run" =>
        /\ ReqAllDone(reqRun.results, Len(reqRun.results)) /\ ReqRanSoFar(Len(reqRun.results))
        /\ reqRun.committed = 0
        /\ RunsInParallel(reqRun.calls) =>
              /\ reqRun.results = <<>>
              /\ \A i \in 1 .. Len(reqRun.calls) : reqRun.buffered[i] \in {"none"} \cup Outcomes("query")
ReqCommitLog ==
    reqPc = "commit" =>
        /\ reqRun.committed \in 0 .. Len(reqRun.calls)
        /\ \A i \in 1 .. Len(reqRun.calls) : reqRun.buffered[i] \in Outcomes("query")
        /\ ReqAllDone(reqRun.buffered, reqRun.committed) => ReqRanSoFar(reqRun.committed)
ReqUnstopped(results) == \A i \in 1 .. Len(results) : ~Stops(results[i])
ReqApplyLog ==
    reqPc = "apply" /\ reqRun.buffered # <<"err">> /\ ReqUnstopped(reqRun.results) =>
        ReqAllDone(reqRun.results, Len(reqRun.results)) /\ ReqRanSoFar(Len(reqRun.results))
ReqBatchLog ==
    reqPc \in {"run", "commit", "apply"} =>
        ReqSettled(reqConv.now) /\ reqTry.started /\ reqTry.toolCalls

ReqMightRetry(try) == try.started => ~try.durable /\ ~try.toolCalls
ReqDecideLog ==
    reqPc = "decide" =>
        /\ ReqMightRetry(reqTry) => ReqAsLogged(reqConv.initial)
        /\ reqEnd.outcome = "assistant_done" => ReqAsLogged(reqConv.now) /\ reqConv.committed = reqConv.now
        /\ reqEnd.outcome = "tool_result" =>
              Facts(reqConv.now) = Facts(reqLog) /\ reqConv.committed = reqConv.now
ReqReturnedLog ==
    reqPc = "returned" /\ reqEnd.outcome \in {"tool_result", "assistant_done"} =>
        Facts(reqConv.now) = Facts(reqLog)

ReqIsConv(conv) == conv = [now |-> conv.now, committed |-> conv.committed, initial |-> conv.initial]
ReqIsEnd(end) == end = [outcome |-> end.outcome, err |-> end.err]
ReqRecords == ReqIsConv(reqConv) /\ ReqIsEnd(reqEnd)

ReqLogInv ==
    /\ ReqRecords /\ ReqOpenLog /\ ReqStreamLog /\ ReqRunLog /\ ReqCommitLog /\ ReqApplyLog
    /\ ReqBatchLog /\ ReqDecideLog /\ ReqReturnedLog

LEMMA ReqAtOpen ==
    ASSUME ReqRecords', reqPc' = "open", ReqAsLogged(reqConv.initial)'
    PROVE  ReqLogInv'
  BY DEF ReqLogInv, ReqOpenLog, ReqStreamLog, ReqRunLog, ReqCommitLog, ReqApplyLog, ReqBatchLog,
         ReqDecideLog, ReqReturnedLog
LEMMA ReqAtStream ==
    ASSUME ReqRecords', reqPc' = "stream", ReqStreamLog'
    PROVE  ReqLogInv'
  BY DEF ReqLogInv, ReqOpenLog, ReqStreamLog, ReqRunLog, ReqCommitLog, ReqApplyLog, ReqBatchLog,
         ReqDecideLog, ReqReturnedLog
LEMMA ReqAtBatch ==
    ASSUME ReqRecords', reqPc' \in {"run", "commit", "apply"}, ReqRunLog', ReqCommitLog', ReqApplyLog', ReqBatchLog'
    PROVE  ReqLogInv'
  BY DEF ReqLogInv, ReqOpenLog, ReqStreamLog, ReqDecideLog, ReqReturnedLog
LEMMA ReqAtDecide ==
    ASSUME ReqRecords', reqPc' = "decide", ReqDecideLog'
    PROVE  ReqLogInv'
  BY DEF ReqLogInv, ReqOpenLog, ReqStreamLog, ReqRunLog, ReqCommitLog, ReqApplyLog, ReqBatchLog,
         ReqReturnedLog
LEMMA ReqAtReturn ==
    ASSUME ReqRecords', reqPc' = "returned", ReqReturnedLog'
    PROVE  ReqLogInv'
  BY DEF ReqLogInv, ReqOpenLog, ReqStreamLog, ReqRunLog, ReqCommitLog, ReqApplyLog, ReqBatchLog,
         ReqDecideLog

LEMMA ReqLogIs == ASSUME ReqInv PROVE reqLog \in Seq(ReqFactEntries)
<1>1. ReqEntries \subseteq ReqFactEntries
  BY DEF ReqEntries, ReqFactEntries
<1> QED
  BY <1>1, ReqNow, SeqMonotonic

LEMMA ReqSilentIs ==
    /\ \A kind \in {"thought", "worklog", "failed", "retry_scheduled"} : Logged(kind, 0) \in ReqSilentEntries
    /\ \A id \in Nat : Logged("declared", id) \in ReqSilentEntries /\ Logged("asked", id) \in ReqSilentEntries
  BY DEF ReqSilentEntries, ReqFactEntries, ReqQuietKinds, FactKinds, Logged

(* What a step that says nothing appends.                                         *)
LEMMA ReqNothingSaid ==
    ASSUME ReqInv,
           \/ reqLog' = reqLog
           \/ \E kind \in {"thought", "worklog", "failed", "retry_scheduled"} :
                 reqLog' = Append(reqLog, Logged(kind, 0))
    PROVE  Facts(reqLog') = Facts(reqLog)
<1>1. CASE reqLog' = reqLog
  BY <1>1
<1>2. ASSUME NEW kind \in {"thought", "worklog", "failed", "retry_scheduled"},
             reqLog' = Append(reqLog, Logged(kind, 0))
      PROVE  Facts(reqLog') = Facts(reqLog)
  BY <1>2, ReqLogIs, ReqSilentIs, FactsSilentOne
<1> QED
  BY <1>1, <1>2

LEMMA ReqWorklogSaid ==
    ASSUME ReqInv, NEW log, log \in {reqLog, reqLog \o WorklogOf(reqTry)}
    PROVE  Facts(log) = Facts(reqLog) /\ log \in Seq(ReqFactEntries)
<1>1. WorklogOf(reqTry) \in Seq(ReqSilentEntries)
  <2>1. <<>> \in Seq(ReqSilentEntries) /\ <<Logged("worklog", 0)>> \in Seq(ReqSilentEntries)
    BY ReqSilentIs, EmptySeq
  <2> QED
    BY <2>1 DEF WorklogOf
<1> QED
  BY <1>1, ReqLogIs, FactsSilent

(* A conversation keeps its shape.                                                *)
LEMMA ReqConvIs ==
    ASSUME ReqIsConv(reqConv), NEW a, NEW b
    PROVE  /\ ReqIsConv([reqConv EXCEPT !.now = a, !.committed = b])
           /\ [reqConv EXCEPT !.now = a, !.committed = b].now = a
           /\ [reqConv EXCEPT !.now = a, !.committed = b].committed = b
           /\ [reqConv EXCEPT !.now = a, !.committed = b].initial = reqConv.initial
<1>1. PICK n, c, i : reqConv = [now |-> n, committed |-> c, initial |-> i]
  BY DEF ReqIsConv
<1>a. [[now |-> n, committed |-> c, initial |-> i] EXCEPT !.now = a, !.committed = b]
          = [now |-> a, committed |-> b, initial |-> i]
  <2>1. [[now |-> n, committed |-> c, initial |-> i] EXCEPT !.now = a] = [now |-> a, committed |-> c, initial |-> i]
    OBVIOUS
  <2>2. [[now |-> a, committed |-> c, initial |-> i] EXCEPT !.committed = b]
            = [now |-> a, committed |-> b, initial |-> i]
    OBVIOUS
  <2> QED
    BY <2>1, <2>2
<1>2. [reqConv EXCEPT !.now = a, !.committed = b] = [now |-> a, committed |-> b, initial |-> i]
  BY <1>1, <1>a, Zenon
<1> QED
  BY <1>1, <1>2 DEF ReqIsConv

LEMMA ReqLogInvInit == ReqInit => ReqLogInv
<1> SUFFICES ASSUME ReqInit PROVE ReqLogInv
  OBVIOUS
<1>1. reqConv = [now |-> <<>>, committed |-> <<>>, initial |-> <<>>] /\ reqEnd = NoEnd
      /\ reqLog = <<>> /\ reqPc = "open"
  BY DEF ReqInit
<1>2. ReqRecords /\ reqConv.initial = <<>>
  BY <1>1 DEF ReqRecords, ReqIsConv, ReqIsEnd, NoEnd
<1>3. ReqAsLogged(<<>>)
  BY <1>1, FactsEmpty, EmptySeq DEF ReqAsLogged, ReqSettled
<1> QED
  BY <1>1, <1>2, <1>3 DEF ReqLogInv, ReqOpenLog, ReqStreamLog, ReqRunLog, ReqCommitLog, ReqApplyLog,
     ReqBatchLog, ReqDecideLog, ReqReturnedLog

(* The stream of an attempt.                                                      *)
LEMMA ReqOpenLogs == ReqInv /\ ReqLogInv /\ OpenStream => ReqLogInv'
<1> SUFFICES ASSUME ReqInv, ReqLogInv, OpenStream PROVE ReqLogInv'
  OBVIOUS
<1>1. ReqAsLogged(reqConv.initial) /\ ReqRecords
  BY DEF OpenStream, ReqLogInv, ReqOpenLog
<1>2. /\ reqConv' = [reqConv EXCEPT !.now = reqConv.initial, !.committed = reqConv.initial]
      /\ reqLog' = reqLog
  BY DEF OpenStream
<1>3. /\ ReqIsConv(reqConv') /\ reqConv'.now = reqConv.initial
      /\ reqConv'.committed = reqConv.initial /\ reqConv'.initial = reqConv.initial
  BY <1>1, <1>2, ReqConvIs DEF ReqRecords
<1>4. ReqAsLogged(reqConv.initial)'
  BY <1>1, <1>2, <1>3 DEF ReqAsLogged
<1>5. ReqAsLogged(reqConv.now)'
  BY <1>1, <1>2, <1>3 DEF ReqAsLogged
<1>6. CASE reqPc' = "stream" /\ reqTry' = NewTry /\ UNCHANGED reqEnd
  <2>1. ReqRecords'
    BY <1>1, <1>3, <1>6 DEF ReqRecords
  <2>2. reqTry'.started /\ reqTry'.batch = <<>>
    BY <1>6 DEF NewTry
  <2>3. ReqStreamLog'
    BY <1>3, <1>5, <2>2 DEF ReqStreamLog
  <2> QED
    BY <1>6, <2>1, <2>3, ReqAtStream
<1>7. ASSUME NEW err \in {"retryable", "fatal"}, EndAttempt("none", err) PROVE ReqLogInv'
  <2>1. reqPc' = "decide" /\ reqEnd' = [outcome |-> "none", err |-> err]
    BY <1>7 DEF EndAttempt
  <2>2. ReqRecords' /\ reqEnd'.outcome = "none"
    BY <1>3, <2>1 DEF ReqRecords, ReqIsEnd
  <2>3. ReqDecideLog'
    BY <1>4, <2>2 DEF ReqDecideLog
  <2> QED
    BY <2>1, <2>2, <2>3, ReqAtDecide
<1> QED
  BY <1>6, <1>7 DEF OpenStream

LEMMA ReqDeltaLogs ==
    ReqInv /\ ReqLogInv /\ (AssistantDelta \/ ReasoningDelta \/ ReasoningCommitted \/ ToolCallDelta)
        => ReqLogInv'
<1> SUFFICES ASSUME ReqInv, ReqLogInv, Delta, ReqStreamLog, ReqRecords, Streaming,
                    AssistantDelta \/ ReasoningDelta \/ ReasoningCommitted \/ ToolCallDelta
             PROVE  ReqLogInv'
  BY DEF AssistantDelta, ReasoningDelta, ReasoningCommitted, ToolCallDelta, Delta, Streaming, ReqLogInv
<1>1. /\ reqPc' = "stream" /\ reqPc = "stream" /\ reqEnd' = reqEnd
      /\ ReqAsLogged(reqConv.now) /\ reqConv.committed = reqConv.now
      /\ (~reqTry.durable => reqConv.initial = reqConv.now)
      /\ reqTry.started /\ (reqTry.batch # <<>> => reqTry.toolCalls)
  BY DEF Delta, Streaming, ReqStreamLog
<1>2. reqTry \in ReqTries
  BY ReqNow
<1>3. ASSUME reqConv' = reqConv, Facts(reqLog') = Facts(reqLog), reqTry'.started = reqTry.started,
             reqTry'.batch = reqTry.batch, reqTry.toolCalls => reqTry'.toolCalls,
             reqTry.durable => reqTry'.durable
      PROVE  ReqLogInv'
  <2>1. ReqRecords'
    BY <1>1, <1>3 DEF ReqRecords
  <2>2. ReqAsLogged(reqConv.now)'
    BY <1>1, <1>3 DEF ReqAsLogged
  <2>3. ReqStreamLog'
    BY <1>1, <1>3, <2>2 DEF ReqStreamLog
  <2> QED
    BY <1>1, <2>1, <2>3, ReqAtStream
<1>4. CASE AssistantDelta
  <2>1. /\ reqTry'.started = reqTry.started /\ reqTry'.batch = reqTry.batch
        /\ reqTry'.toolCalls = reqTry.toolCalls /\ reqTry'.durable = reqTry.durable
    BY <1>2, <1>4 DEF AssistantDelta, ReqTries
  <2>2. Facts(reqLog') = Facts(reqLog) /\ reqConv' = reqConv
    BY <1>4 DEF AssistantDelta
  <2> QED
    BY <1>3, <2>1, <2>2
<1>5. CASE ReasoningDelta
  <2>1. /\ reqTry'.started = reqTry.started /\ reqTry'.batch = reqTry.batch
        /\ reqTry'.toolCalls = reqTry.toolCalls /\ (reqTry.durable => reqTry'.durable)
    BY <1>2, <1>5 DEF ReasoningDelta, ReqTries
  <2>2. Facts(reqLog') = Facts(reqLog) /\ reqConv' = reqConv
    BY <1>5, ReqNothingSaid DEF ReasoningDelta
  <2> QED
    BY <1>3, <2>1, <2>2
<1>6. CASE ReasoningCommitted
  <2> DEFINE conv == AddInput(reqConv.now, Logged("reasoning", 0))
  <2>1. /\ reqLog' = Append(reqLog, Logged("reasoning", 0))
        /\ reqConv' = [reqConv EXCEPT !.now = conv, !.committed = conv]
        /\ reqTry' = [reqTry EXCEPT !.durable = TRUE]
    BY <1>6 DEF ReasoningCommitted
  <2>2. Logged("reasoning", 0) \in ReqPlain
    BY DEF ReqPlain
  <2>3. ReqSettled(conv) /\ Facts(reqLog') = conv
    BY <1>1, <2>1, <2>2, ReqLogIs, ReqSettledMore DEF ReqAsLogged
  <2> HIDE DEF conv
  <2>4. ReqIsConv(reqConv') /\ reqConv'.now = conv /\ reqConv'.committed = conv
    BY <2>1, ReqConvIs DEF ReqRecords
  <2>5. ReqRecords'
    BY <1>1, <2>4 DEF ReqRecords
  <2>6. ReqAsLogged(reqConv.now)'
    BY <2>3, <2>4 DEF ReqAsLogged
  <2>7. reqTry'.started = reqTry.started /\ reqTry'.batch = reqTry.batch /\ reqTry'.durable
        /\ reqTry'.toolCalls = reqTry.toolCalls
    BY <1>2, <2>1 DEF ReqTries
  <2>8. ReqStreamLog'
    BY <1>1, <2>4, <2>6, <2>7 DEF ReqStreamLog
  <2> QED
    BY <1>1, <2>5, <2>8, ReqAtStream
<1>7. CASE ToolCallDelta
  <2>1. PICK kind \in ReqKinds :
           /\ reqTry' = StartToolStep(reqTry, kind)
           /\ reqLog' = IF reqTry'.segment = reqTry.segment THEN reqLog ELSE reqLog \o WorklogOf(reqTry)
    BY <1>7 DEF ToolCallDelta
  <2>2. /\ reqTry'.started = reqTry.started /\ reqTry'.batch = reqTry.batch
        /\ reqTry'.toolCalls /\ (reqTry.durable => reqTry'.durable)
    BY <1>2, <2>1 DEF StartToolStep, ReqTries
  <2>3. reqLog' \in {reqLog, reqLog \o WorklogOf(reqTry)} /\ reqConv' = reqConv
    BY <1>7, <2>1 DEF ToolCallDelta
  <2>4. Facts(reqLog') = Facts(reqLog)
    BY <2>3, ReqWorklogSaid
  <2> QED
    BY <1>3, <2>2, <2>3, <2>4
<1> QED
  BY <1>4, <1>5, <1>6, <1>7

(* Declaring the calls of a batch says nothing yet.                               *)
LEMMA ReqRunLogs ==
    ASSUME ReqInv, ReqLogInv, Streaming, NEW batch \in Seq(ReqCalls), NEW log, NEW try, NEW err,
           RunBatch(batch, log, try, err), try.started, try.toolCalls,
           Facts(log) = Facts(reqLog), log \in Seq(ReqFactEntries)
    PROVE  ReqLogInv'
<1> DEFINE calls == Scheduled(batch)
           declared == [i \in DOMAIN calls |-> Logged("declared", calls[i].id)]
           none == [i \in DOMAIN calls |-> "none"]
<1>1. calls \in Seq(ReqCalls) /\ DOMAIN calls = 1 .. Len(calls) /\ Len(calls) \in Nat
  BY ReqScheduled, LenProperties
<1>2. /\ reqPc' = "run" /\ reqTry' = try /\ reqLog' = log \o declared /\ reqEnd' = reqEnd
      /\ reqRun' = [NoRun EXCEPT !.calls = calls, !.err = err, !.buffered = none]
      /\ reqConv' = [reqConv EXCEPT !.committed = reqConv.now]
  BY DEF RunBatch
<1> HIDE DEF calls
<1>3. declared \in Seq(ReqSilentEntries)
  <2>1. \A i \in 1 .. Len(calls) : Logged("declared", calls[i].id) \in ReqSilentEntries
    BY <1>1, ReqCallIds, ReqSilentIs
  <2> QED
    BY <1>1, <2>1
<1> HIDE DEF declared
<1>4. Facts(reqLog') = Facts(reqLog)
  BY <1>2, <1>3, FactsSilent
<1>5. reqRun' = [calls |-> calls, results |-> <<>>, buffered |-> none, committed |-> 0, err |-> err]
  <2> HIDE DEF none
  <2> QED
    BY <1>2 DEF NoRun
<1>6. reqRun'.calls = calls /\ reqRun'.results = <<>> /\ reqRun'.committed = 0 /\ reqRun'.buffered = none
  <2> HIDE DEF none
  <2> QED
    BY <1>5
<1>7. ReqAsLogged(reqConv.now) /\ ReqRecords
  BY DEF Streaming, ReqLogInv, ReqStreamLog
<1>8. ReqIsConv(reqConv') /\ reqConv'.now = reqConv.now
  <2>1. PICK n, c, i : reqConv = [now |-> n, committed |-> c, initial |-> i]
    BY <1>7 DEF ReqRecords, ReqIsConv
  <2>2. [[now |-> n, committed |-> c, initial |-> i] EXCEPT !.committed = n]
            = [now |-> n, committed |-> n, initial |-> i]
    OBVIOUS
  <2>3. reqConv.now = n
    BY <2>1
  <2>4. reqConv' = [now |-> n, committed |-> n, initial |-> i]
    BY <1>2, <2>1, <2>2, <2>3, Zenon
  <2> QED
    BY <2>3, <2>4 DEF ReqIsConv
<1>9. ReqRecords' /\ ReqBatchLog'
  BY <1>2, <1>7, <1>8 DEF ReqRecords, ReqBatchLog, ReqAsLogged
<1>10. ReqRunLog'
  <2>1. Len(<<>>) = 0 /\ 1 .. 0 = {}
    OBVIOUS
  <2>2. ReqAllDone(reqRun.results, Len(reqRun.results))'
    BY <1>6, <2>1 DEF ReqAllDone
  <2>3. ReqRanSoFar(Len(reqRun.results))'
    <3>1. Facts(reqLog') = reqConv'.now /\ reqConv'.now \in Seq(ReqPlain)
      BY <1>4, <1>7, <1>8 DEF ReqAsLogged, ReqSettled
    <3>2. ReqResults(calls, 0) = <<>>
      BY <1>1, ReqResultsType
    <3>3. reqConv'.now \o <<>> = reqConv'.now
      BY <3>1, ConcatEmptySeq
    <3> QED
      BY <1>6, <2>1, <3>1, <3>2, <3>3 DEF ReqRanSoFar
  <2>4. \A i \in 1 .. Len(calls) : none[i] = "none"
    BY <1>1
  <2> HIDE DEF none
  <2> QED
    BY <1>6, <2>2, <2>3, <2>4 DEF ReqRunLog
<1> QED
  BY <1>2, <1>9, <1>10, ReqAtBatch DEF ReqCommitLog, ReqApplyLog

LEMMA ReqCallDoneLogs == ReqInv /\ ReqLogInv /\ ToolCallDone => ReqLogInv'
<1> SUFFICES ASSUME ReqInv, ReqLogInv, ToolCallDone PROVE ReqLogInv'
  OBVIOUS
<1>1. /\ Streaming /\ reqPc = "stream" /\ ReqRecords
      /\ ReqAsLogged(reqConv.now) /\ reqConv.committed = reqConv.now
      /\ (~reqTry.durable => reqConv.initial = reqConv.now) /\ reqTry.started
  BY SMTT(60) DEF ToolCallDone, Streaming, ReqLogInv, ReqStreamLog
<1> PICK kind \in ReqKinds, repeated \in BOOLEAN :
          LET stepped == StartToolStep(reqTry, kind)
              try == [stepped EXCEPT !.segment = @ /\ kind # "question",
                                     !.durable = @ \/ (stepped.segment /\ kind = "question")]
              log == IF try.segment = reqTry.segment THEN reqLog ELSE reqLog \o WorklogOf(reqTry)
              id == IF repeated THEN Last(reqTry.batch).id ELSE reqCount'.calls
              accepted == CanJoinPrefix(reqTry.batch) /\ \A i \in DOMAIN reqTry.batch : reqTry.batch[i].id # id
          IN /\ repeated => reqTry.batch # <<>>
             /\ IF accepted
                THEN /\ reqTry' = [try EXCEPT !.batch = Append(@, [id |-> id, kind |-> kind]),
                                              !.tokens = TRUE]
                     /\ reqLog' = log
                     /\ UNCHANGED <<reqPc, reqRun, reqConv, reqEnd>>
                ELSE RunBatch(reqTry.batch, log, try, "none")
  BY DEF ToolCallDone
<1> DEFINE stepped == StartToolStep(reqTry, kind)
<1> DEFINE try == [stepped EXCEPT !.segment = @ /\ kind # "question",
                                  !.durable = @ \/ (stepped.segment /\ kind = "question")]
<1> DEFINE log == IF try.segment = reqTry.segment THEN reqLog ELSE reqLog \o WorklogOf(reqTry)
<1> DEFINE id == IF repeated THEN Last(reqTry.batch).id ELSE reqCount'.calls
<1> DEFINE accepted == CanJoinPrefix(reqTry.batch) /\ \A i \in DOMAIN reqTry.batch : reqTry.batch[i].id # id
<1> DEFINE longer == Append(try.batch, [id |-> id, kind |-> kind])
<1>2. \/ /\ reqTry' = [try EXCEPT !.batch = longer, !.tokens = TRUE]
         /\ reqLog' = log
         /\ UNCHANGED <<reqPc, reqRun, reqConv, reqEnd>>
      \/ RunBatch(reqTry.batch, log, try, "none")
  OBVIOUS
<1>3. /\ try \in ReqTries /\ try.started = reqTry.started /\ try.toolCalls
      /\ (reqTry.durable => try.durable)
  <2>1. /\ stepped \in ReqTries /\ stepped.started = reqTry.started /\ stepped.toolCalls
        /\ (reqTry.durable => stepped.durable)
    BY ReqNow, ZenonT(60) DEF StartToolStep, ReqTries
  <2> HIDE DEF stepped
  <2> QED
    BY <2>1, ZenonT(60) DEF ReqTries
<1> HIDE DEF try
<1>4. log \in {reqLog, reqLog \o WorklogOf(reqTry)}
  OBVIOUS
<1> HIDE DEF log, longer, id, accepted
<1>5. Facts(log) = Facts(reqLog) /\ log \in Seq(ReqFactEntries)
  BY <1>4, ReqWorklogSaid
<1>6. CASE /\ reqTry' = [try EXCEPT !.batch = longer, !.tokens = TRUE]
           /\ reqLog' = log
           /\ UNCHANGED <<reqPc, reqRun, reqConv, reqEnd>>
  <2>1. reqTry'.started /\ reqTry'.toolCalls /\ (reqTry.durable => reqTry'.durable)
    BY <1>1, <1>3, <1>6 DEF ReqTries
  <2>2. ReqAsLogged(reqConv.now)' /\ ReqRecords'
    BY <1>1, <1>5, <1>6 DEF ReqAsLogged, ReqRecords
  <2>3. ReqStreamLog'
    BY <1>1, <1>6, <2>1, <2>2 DEF ReqStreamLog
  <2> QED
    BY <1>1, <1>6, <2>2, <2>3, ReqAtStream
<1>7. CASE RunBatch(reqTry.batch, log, try, "none")
  BY <1>1, <1>3, <1>5, <1>7, ReqNow, ReqRunLogs
<1> QED
  BY <1>2, <1>6, <1>7

(* The answer becomes a fact in the log and in the conversation.                  *)
LEMMA ReqCommitted ==
    ASSUME ReqInv, ReqLogInv, Streaming, CommitAssistant
    PROVE  /\ ReqIsConv(reqConv') /\ ReqAsLogged(reqConv.now)' /\ reqConv'.committed = reqConv'.now
           /\ reqTry'.started
           /\ ~reqTry'.durable => ReqAsLogged(reqConv.initial)'
<1>1. /\ ReqIsConv(reqConv) /\ ReqAsLogged(reqConv.now) /\ reqConv.committed = reqConv.now
      /\ (~reqTry.durable => reqConv.initial = reqConv.now) /\ reqTry.started
  BY DEF Streaming, ReqLogInv, ReqStreamLog, ReqRecords
<1>2. CASE reqTry.segment
  <2> DEFINE conv == AddInput(reqConv.now, Logged("text", 0))
  <2>1. /\ reqLog' = Append(reqLog, Logged("text", 0))
        /\ reqConv' = [reqConv EXCEPT !.now = conv, !.committed = conv]
        /\ reqTry' = [reqTry EXCEPT !.segment = FALSE, !.durable = TRUE]
    BY <1>2 DEF CommitAssistant
  <2>2. Logged("text", 0) \in ReqPlain
    BY DEF ReqPlain
  <2>3. ReqSettled(conv) /\ Facts(reqLog') = conv
    BY <1>1, <2>1, <2>2, ReqLogIs, ReqSettledMore DEF ReqAsLogged
  <2> HIDE DEF conv
  <2>4. ReqIsConv(reqConv') /\ reqConv'.now = conv /\ reqConv'.committed = conv
    BY <1>1, <2>1, ReqConvIs, ZenonT(60)
  <2>5. ReqAsLogged(reqConv.now)'
    BY <2>3, <2>4 DEF ReqAsLogged
  <2>6. reqTry'.started = reqTry.started /\ reqTry'.durable
    BY <2>1, ReqNow DEF ReqTries
  <2> QED
    BY <1>1, <2>4, <2>5, <2>6
<1>3. CASE ~reqTry.segment
  <2>1. UNCHANGED <<reqLog, reqConv, reqTry>>
    BY <1>3 DEF CommitAssistant
  <2>2. ReqAsLogged(reqConv.now)'
    BY <1>1, <2>1 DEF ReqAsLogged
  <2>3. ~reqTry.durable => ReqAsLogged(reqConv.initial)'
    BY <1>1, <2>1 DEF ReqAsLogged
  <2> QED
    BY <1>1, <2>1, <2>2, <2>3
<1> QED
  BY <1>2, <1>3

LEMMA ReqEofLogs == ReqInv /\ ReqLogInv /\ StreamEof => ReqLogInv'
<1> SUFFICES ASSUME ReqInv, ReqLogInv, StreamEof PROVE ReqLogInv'
  OBVIOUS
<1>1. Streaming /\ reqTry.started /\ (reqTry.batch # <<>> => reqTry.toolCalls)
  BY DEF StreamEof, Streaming, ReqLogInv, ReqStreamLog
<1>2. CASE reqTry.batch # <<>> /\ RunBatch(reqTry.batch, reqLog, reqTry, "none")
  BY <1>1, <1>2, ReqLogIs, ReqNow, ReqRunLogs
<1>3. CASE CommitAssistant /\ EndAttempt("assistant_done", "none")
  <2>1. reqPc' = "decide" /\ reqEnd' = [outcome |-> "assistant_done", err |-> "none"]
    BY <1>3 DEF EndAttempt
  <2>2. reqEnd'.outcome = "assistant_done" /\ ReqIsEnd(reqEnd')
    BY <2>1 DEF ReqIsEnd
  <2>3. ReqRecords' /\ ReqDecideLog'
    BY <1>1, <1>3, <2>2, ReqCommitted DEF ReqRecords, ReqDecideLog, ReqMightRetry
  <2> QED
    BY <2>1, <2>3, ReqAtDecide
<1> QED
  BY <1>2, <1>3 DEF StreamEof

LEMMA ReqBreakLogs == ReqInv /\ ReqLogInv /\ StreamBreaks => ReqLogInv'
<1> SUFFICES ASSUME ReqInv, ReqLogInv, StreamBreaks PROVE ReqLogInv'
  OBVIOUS
<1>1. /\ Streaming /\ reqTry.started /\ (reqTry.batch # <<>> => reqTry.toolCalls) /\ ReqRecords
      /\ ReqAsLogged(reqConv.now) /\ (~reqTry.durable => reqConv.initial = reqConv.now)
  BY DEF StreamBreaks, Streaming, ReqLogInv, ReqStreamLog
<1> DEFINE safe == InterruptedSafe(reqTry.batch)
<1> DEFINE try == [reqTry EXCEPT !.broken = TRUE]
<1>2. PICK err \in {"retryable", "fatal", "input_limit"} :
         IF safe # << >>
         THEN RunBatch(safe, reqLog, try, err)
         ELSE EndAttempt("none", err) /\ reqTry' = try /\ UNCHANGED <<reqRun, reqConv, reqLog>>
  BY DEF StreamBreaks
<1>3. try.started = reqTry.started /\ try.toolCalls = reqTry.toolCalls /\ try.durable = reqTry.durable
  BY ReqNow DEF ReqTries
<1>4. safe \in Seq(ReqCalls) /\ (safe # <<>> => reqTry.batch # <<>>)
  <2>1. safe \in Seq(ReqCalls) /\ Len(safe) <= Len(reqTry.batch)
    BY ReqNow, ReqInterrupted DEF ReqIsPrefix
  <2> HIDE DEF safe
  <2>2. ASSUME reqTry.batch = <<>> PROVE safe = <<>>
    <3>1. Len(safe) = 0
      BY <2>1, <2>2, LenProperties
    <3> QED
      BY <2>1, <3>1, EmptySeq
  <2> QED
    BY <2>1, <2>2
<1> HIDE DEF safe, try
<1>5. CASE safe # <<>>
  BY <1>1, <1>2, <1>3, <1>4, <1>5, ReqLogIs, ReqRunLogs
<1>6. CASE EndAttempt("none", err) /\ reqTry' = try /\ UNCHANGED <<reqRun, reqConv, reqLog>>
  <2>1. reqPc' = "decide" /\ reqEnd' = [outcome |-> "none", err |-> err]
    BY <1>6 DEF EndAttempt
  <2>2. reqEnd'.outcome = "none" /\ ReqIsEnd(reqEnd')
    BY <2>1 DEF ReqIsEnd
  <2>3. ReqMightRetry(reqTry)' => ReqAsLogged(reqConv.initial)'
    BY <1>1, <1>3, <1>6 DEF ReqMightRetry, ReqAsLogged
  <2>4. ReqRecords' /\ ReqDecideLog'
    BY <1>1, <1>6, <2>2, <2>3 DEF ReqRecords, ReqDecideLog
  <2> QED
    BY <2>1, <2>4, ReqAtDecide
<1> QED
  BY <1>2, <1>5, <1>6

(* Running a batch leaves the attempt and its conversation alone.                 *)
LEMMA ReqBatchStays ==
    ASSUME ReqLogInv, reqPc \in {"run", "commit", "apply"}, UNCHANGED <<reqTry, reqConv, reqEnd>>
    PROVE  ReqRecords' /\ ReqBatchLog' /\ ReqSettled(reqConv.now)
BY DEF ReqLogInv, ReqRecords, ReqBatchLog

LEMMA ReqRanOneMore ==
    ASSUME ReqInv, NEW n \in Nat, n + 1 <= Len(reqRun.calls), ReqSettled(reqConv.now), ReqRanSoFar(n),
           UNCHANGED reqConv, reqRun'.calls = reqRun.calls,
           reqLog' = reqLog \o ExecEvents(reqRun.calls[n + 1], "done")
    PROVE  Facts(reqLog') = reqConv'.now \o ReqResults(reqRun'.calls, n + 1)
<1> PICK calls \in Seq(ReqCalls) : calls = reqRun.calls
  BY ReqNow
<1> PICK now : now = reqConv.now
  OBVIOUS
<1> PICK log \in Seq(ReqFactEntries) : log = reqLog
  BY ReqLogIs
<1> DEFINE id == calls[n + 1].id
<1>1. id \in Nat
  BY ReqResultsMore
<1>2. ExecEvents(calls[n + 1], "done") = <<Logged("end", id)>>
  BY DEF ExecEvents
<1>3. reqLog' = Append(log, Logged("end", id))
  <2>1. Logged("end", id) \in ReqFactEntries
    BY <1>1 DEF Logged, ReqFactEntries
  <2> HIDE DEF id
  <2> QED
    BY <1>2, <2>1, AppendIsConcat
<1> HIDE DEF id
<1>4. Facts(reqLog') = Append(Facts(log), Logged("result", id))
  BY <1>1, <1>3, FactsResult
<1>5. Facts(log) = now \o ReqResults(calls, n) /\ now \in Seq(ReqFactEntries)
  BY ReqPlainEntries, SeqMonotonic DEF ReqRanSoFar, ReqSettled
<1>6. Append(now \o ReqResults(calls, n), Logged("result", id)) = now \o ReqResults(calls, n + 1)
  BY <1>5, ReqConvMore, ZenonT(60) DEF id
<1> QED
  BY <1>4, <1>5, <1>6

LEMMA ReqNextCallLogs == ReqInv /\ ReqLogInv /\ RunNextCall => ReqLogInv'
<1> SUFFICES ASSUME ReqInv, ReqLogInv, RunNextCall PROVE ReqLogInv'
  OBVIOUS
<1>1. /\ reqPc = "run" /\ ~RunsInParallel(reqRun.calls) /\ Len(reqRun.results) < Len(reqRun.calls)
      /\ UNCHANGED <<reqTry, reqConv, reqEnd>>
  BY DEF RunNextCall
<1> PICK n \in Nat : n = Len(reqRun.results) /\ n + 1 <= Len(reqRun.calls)
  BY <1>1, ReqNow, LenProperties, SMTT(60)
<1>2. PICK outcome \in Outcomes(reqRun.calls[n + 1].kind) :
         /\ reqLog' = reqLog \o ExecEvents(reqRun.calls[n + 1], outcome)
         /\ IF IsError(outcome)
            THEN reqPc' = "apply" /\ reqRun' = [reqRun EXCEPT !.err = outcome, !.buffered = <<"err">>]
            ELSE /\ reqRun' = [reqRun EXCEPT !.results = Append(@, outcome)]
                 /\ reqPc' = IF Stops(outcome) \/ n + 1 = Len(reqRun.calls) THEN "apply" ELSE "run"
  BY DEF RunNextCall
<1>3. ReqRecords' /\ ReqBatchLog' /\ ReqSettled(reqConv.now)
  BY <1>1, ReqBatchStays
<1>4. ReqAllDone(reqRun.results, n) /\ ReqRanSoFar(n) /\ reqRun.committed = 0
  BY <1>1 DEF ReqLogInv, ReqRunLog
<1>5. CASE IsError(outcome)
  <2>1. reqPc' = "apply" /\ reqRun'.buffered = <<"err">>
    BY <1>2, <1>5, ReqNow DEF ReqRuns
  <2> QED
    BY <1>3, <2>1, ReqAtBatch DEF ReqRunLog, ReqCommitLog, ReqApplyLog
<1>6. ASSUME ~IsError(outcome)
      PROVE  /\ reqPc' = IF Stops(outcome) \/ n + 1 = Len(reqRun.calls) THEN "apply" ELSE "run"
             /\ reqRun'.results = Append(reqRun.results, outcome) /\ reqRun'.calls = reqRun.calls
             /\ reqRun'.committed = reqRun.committed /\ Len(reqRun'.results) = n + 1
             /\ reqRun'.results[n + 1] = outcome
             /\ \A i \in 1 .. n : reqRun'.results[i] = reqRun.results[i]
  <2>1. outcome \in ReqOutcomes
    BY ReqOutcomesAre
  <2>2. /\ Len(Append(reqRun.results, outcome)) = n + 1
        /\ Append(reqRun.results, outcome)[n + 1] = outcome
        /\ \A i \in 1 .. n : Append(reqRun.results, outcome)[i] = reqRun.results[i]
    BY <2>1, ReqNow, AppendProperties
  <2>3. /\ reqRun'.results = Append(reqRun.results, outcome) /\ reqRun'.calls = reqRun.calls
        /\ reqRun'.committed = reqRun.committed
    BY <1>2, <1>6, ReqNow DEF ReqRuns
  <2> QED
    BY <1>2, <1>6, <2>2, <2>3
<1>7. CASE ~IsError(outcome) /\ Stops(outcome)
  <2>1. ~ReqUnstopped(reqRun.results)'
    BY <1>6, <1>7, SMTT(60) DEF ReqUnstopped
  <2>2. reqPc' = "apply"
    BY <1>6, <1>7
  <2> QED
    BY <1>3, <2>1, <2>2, ReqAtBatch DEF ReqRunLog, ReqCommitLog, ReqApplyLog
<1>8. CASE ~IsError(outcome) /\ ~Stops(outcome)
  <2>1. outcome = "done"
    BY <1>8, SMTT(60) DEF IsError, Stops, Outcomes
  <2>2. Facts(reqLog') = reqConv'.now \o ReqResults(reqRun'.calls, n + 1)
    BY <1>1, <1>2, <1>3, <1>4, <1>6, <1>8, <2>1, ReqRanOneMore
  <2>3. ReqRanSoFar(Len(reqRun.results))'
    BY <1>6, <1>8, <2>2 DEF ReqRanSoFar
  <2>4. ReqAllDone(reqRun.results, Len(reqRun.results))'
    <3>1. \A i \in 1 .. (n + 1) : reqRun'.results[i] = "done"
      <4>1. ASSUME NEW i \in 1 .. (n + 1) PROVE reqRun'.results[i] = "done"
        <5>1. i \in 1 .. n \/ i = n + 1
          OBVIOUS
        <5> QED
          BY <1>4, <1>6, <1>8, <2>1, <5>1 DEF ReqAllDone
      <4> QED
        BY <4>1
    <3> QED
      BY <1>6, <1>8, <3>1 DEF ReqAllDone
  <2>5. reqPc' \in {"run", "apply"} /\ ~RunsInParallel(reqRun'.calls) /\ reqRun'.committed = 0
    BY <1>1, <1>4, <1>6, <1>8
  <2>6. ReqRunLog' /\ ReqApplyLog' /\ ReqCommitLog'
    BY <2>3, <2>4, <2>5 DEF ReqRunLog, ReqApplyLog, ReqCommitLog
  <2> QED
    BY <1>3, <2>5, <2>6, ReqAtBatch
<1> QED
  BY <1>5, <1>7, <1>8

(* Parallel calls are queries, and nothing of theirs is in the log yet.           *)
LEMMA ReqParallelLogs ==
    ASSUME ReqInv, ReqLogInv, NEW i \in DOMAIN reqRun.calls, RunParallelCall(i)
    PROVE  ReqLogInv'
<1>1. PICK outcome \in Outcomes(reqRun.calls[i].kind) : reqRun' = [reqRun EXCEPT !.buffered[i] = outcome]
  BY DEF RunParallelCall
<1>2. /\ reqPc = "run" /\ RunsInParallel(reqRun.calls) /\ UNCHANGED <<reqTry, reqConv, reqEnd, reqLog>>
      /\ reqPc' = IF \A j \in DOMAIN reqRun.calls : reqRun'.buffered[j] # "none" THEN "commit" ELSE "run"
  BY DEF RunParallelCall
<1>3. ReqRecords' /\ ReqBatchLog' /\ ReqSettled(reqConv.now)
  BY <1>2, ReqBatchStays
<1>4. /\ Len(reqRun.buffered) = Len(reqRun.calls) /\ reqRun \in ReqRuns
      /\ DOMAIN reqRun.calls = 1 .. Len(reqRun.calls) /\ DOMAIN reqRun.buffered = 1 .. Len(reqRun.calls)
      /\ Len(reqRun.calls) \in Nat
  BY <1>2, ReqNow, LenProperties DEF ReqInv, ReqRunIsBatch
<1>5. /\ ReqAllDone(reqRun.results, Len(reqRun.results)) /\ ReqRanSoFar(Len(reqRun.results))
      /\ reqRun.committed = 0 /\ reqRun.results = <<>>
      /\ \A j \in 1 .. Len(reqRun.calls) : reqRun.buffered[j] \in {"none"} \cup Outcomes("query")
  BY <1>2 DEF ReqLogInv, ReqRunLog
<1>6. outcome \in Outcomes("query")
  BY <1>2 DEF RunsInParallel
<1> DEFINE buffered == [reqRun.buffered EXCEPT ![i] = outcome]
<1>7. reqRun' = [reqRun EXCEPT !.buffered = buffered]
  BY <1>1
<1>8. \A j \in 1 .. Len(reqRun.calls) : buffered[j] \in {"none"} \cup Outcomes("query")
  BY <1>4, <1>5, <1>6
<1> HIDE DEF buffered
<1>9. /\ reqRun'.calls = reqRun.calls /\ reqRun'.results = reqRun.results
      /\ reqRun'.committed = reqRun.committed /\ reqRun'.buffered = buffered
  BY <1>4, <1>7 DEF ReqRuns
<1>10. /\ (ReqAllDone(reqRun.results, Len(reqRun.results)) /\ ReqRanSoFar(Len(reqRun.results)))'
       /\ Len(<<>>) = 0
  BY <1>2, <1>5, <1>9 DEF ReqAllDone, ReqRanSoFar
<1>11. CASE reqPc' = "run"
  <2>1. ReqRunLog'
    BY <1>5, <1>8, <1>9, <1>10 DEF ReqRunLog
  <2> QED
    BY <1>3, <1>11, <2>1, ReqAtBatch DEF ReqCommitLog, ReqApplyLog
<1>12. CASE reqPc' = "commit" /\ \A j \in DOMAIN reqRun.calls : reqRun'.buffered[j] # "none"
  <2>1. \A j \in 1 .. Len(reqRun'.calls) : reqRun'.buffered[j] \in Outcomes("query")
    BY <1>4, <1>8, <1>9, <1>12, SMTT(60)
  <2>2. ReqRanSoFar(reqRun.committed)' /\ reqRun'.committed \in 0 .. Len(reqRun'.calls)
    BY <1>4, <1>5, <1>9, <1>10, SMTT(60)
  <2>3. ReqCommitLog'
    BY <2>1, <2>2, SMTT(60) DEF ReqCommitLog
  <2> QED
    BY <1>3, <1>12, <2>3, ReqAtBatch DEF ReqRunLog, ReqApplyLog
<1> QED
  BY <1>2, <1>11, <1>12

LEMMA ReqCommitLogs == ReqInv /\ ReqLogInv /\ CommitBuffered => ReqLogInv'
<1> SUFFICES ASSUME ReqInv, ReqLogInv, CommitBuffered PROVE ReqLogInv'
  OBVIOUS
<1>1. /\ reqPc = "commit" /\ reqRun.committed + 1 \in DOMAIN reqRun.calls
      /\ UNCHANGED <<reqTry, reqConv, reqEnd>> /\ reqRun \in ReqRuns
  BY ReqNow DEF CommitBuffered
<1> PICK n \in Nat : n = reqRun.committed /\ n + 1 <= Len(reqRun.calls)
  BY <1>1, ReqNow, LenProperties DEF ReqRuns
<1>2. ReqRecords' /\ ReqBatchLog' /\ ReqSettled(reqConv.now)
  BY <1>1, ReqBatchStays
<1>3. /\ \A i \in 1 .. Len(reqRun.calls) : reqRun.buffered[i] \in Outcomes("query")
      /\ ReqAllDone(reqRun.buffered, n) => ReqRanSoFar(n)
  BY <1>1 DEF ReqLogInv, ReqCommitLog
<1>4. CASE /\ reqLog' = reqLog \o ExecEvents(reqRun.calls[n + 1], reqRun.buffered[n + 1])
           /\ reqRun' = [reqRun EXCEPT !.committed = n + 1]
           /\ UNCHANGED reqPc
  <2>1. /\ reqRun'.calls = reqRun.calls /\ reqRun'.buffered = reqRun.buffered
        /\ reqRun'.committed = n + 1
    BY <1>1, <1>4, SMTT(60) DEF ReqRuns
  <2>2. ASSUME ReqAllDone(reqRun'.buffered, n + 1)
        PROVE  Facts(reqLog') = reqConv'.now \o ReqResults(reqRun'.calls, n + 1)
    <3>1. reqRun.buffered[n + 1] = "done" /\ ReqAllDone(reqRun.buffered, n)
      BY <2>1, <2>2 DEF ReqAllDone
    <3> QED
      BY <1>1, <1>2, <1>3, <1>4, <2>1, <3>1, ReqRanOneMore
  <2>3. ReqAllDone(reqRun.buffered, reqRun.committed)' => ReqRanSoFar(reqRun.committed)'
    BY <2>1, <2>2 DEF ReqRanSoFar
  <2>4. reqRun'.committed \in 0 .. Len(reqRun'.calls)
    BY <2>1, ReqNow, LenProperties
  <2>5. ReqCommitLog'
    BY <1>3, <2>1, <2>3, <2>4 DEF ReqCommitLog
  <2> QED
    BY <1>1, <1>2, <1>4, <2>5, ReqAtBatch DEF ReqRunLog, ReqApplyLog
<1>5. CASE reqRun' = [reqRun EXCEPT !.err = "fatal", !.buffered = <<"err">>] /\ reqPc' = "apply"
  <2>1. reqRun'.buffered = <<"err">>
    BY <1>1, <1>5 DEF ReqRuns
  <2> QED
    BY <1>2, <1>5, <2>1, ReqAtBatch DEF ReqRunLog, ReqCommitLog, ReqApplyLog
<1> QED
  BY <1>4, <1>5 DEF CommitBuffered

LEMMA ReqCollectLogs == ReqInv /\ ReqLogInv /\ CollectResults => ReqLogInv'
<1> SUFFICES ASSUME ReqInv, ReqLogInv, CollectResults PROVE ReqLogInv'
  OBVIOUS
<1> DEFINE n == Len(reqRun.calls)
<1> DEFINE errors == {i \in 1 .. n : IsError(reqRun.buffered[i])}
<1> DEFINE first == CHOOSE i \in errors : \A j \in errors : i <= j
<1> DEFINE good == IF errors = {} THEN n ELSE first - 1
<1>1. /\ reqPc = "commit" /\ reqPc' = "apply" /\ UNCHANGED <<reqTry, reqConv, reqEnd, reqLog>>
      /\ reqRun' = [reqRun EXCEPT !.results = SubSeq(reqRun.buffered, 1, good),
                                  !.err = IF good < n THEN reqRun.buffered[good + 1] ELSE @,
                                  !.buffered = IF good < n THEN <<"err">> ELSE <<>>]
      /\ reqRun.committed = n
  BY DEF CollectResults
<1>2. /\ Len(reqRun.buffered) = n /\ reqRun \in ReqRuns /\ n \in Nat
      /\ reqRun.buffered \in Seq(ReqOutcomes)
  BY <1>1, ReqNow DEF ReqInv, ReqRunIsBatch
<1>3. ReqRecords' /\ ReqBatchLog' /\ ReqSettled(reqConv.now)
  BY <1>1, ReqBatchStays
<1>4. /\ \A i \in 1 .. n : reqRun.buffered[i] \in Outcomes("query")
      /\ ReqAllDone(reqRun.buffered, n) => ReqRanSoFar(n)
  BY <1>1 DEF ReqLogInv, ReqCommitLog
<1>5. CASE errors # {}
  <2>1. errors \in SUBSET Nat /\ errors \subseteq 1 .. n
    BY <1>2
  <2>2. first \in 1 .. n
    <3>1. first \in errors
      BY <1>5, <2>1, ReqLeastExists
    <3> QED
      BY <2>1, <3>1
  <2>3. good < n
    <3> HIDE DEF first, errors, n
    <3> QED
      BY <1>2, <1>5, <2>2
  <2> HIDE DEF good
  <2>4. reqRun'.buffered = <<"err">>
    BY <1>1, <1>2, <2>3 DEF ReqRuns
  <2> QED
    BY <1>1, <1>3, <2>4, ReqAtBatch DEF ReqRunLog, ReqCommitLog, ReqApplyLog
<1>6. CASE errors = {}
  <2>1. good = n /\ ~(good < n)
    BY <1>2, <1>6
  <2>2. ReqAllDone(reqRun.buffered, n)
    <3>1. ASSUME NEW i \in 1 .. n PROVE reqRun.buffered[i] = "done"
      BY <1>4, <1>6 DEF Outcomes, IsError
    <3> QED
      BY <3>1 DEF ReqAllDone
  <2>3. SubSeq(reqRun.buffered, 1, n) = reqRun.buffered
    BY <1>2
  <2> HIDE DEF good, errors, first
  <2>4. reqRun'.results = reqRun.buffered /\ reqRun'.calls = reqRun.calls
    BY <1>1, <1>2, <2>1, <2>3 DEF ReqRuns
  <2>5. ReqAllDone(reqRun.results, Len(reqRun.results))'
    BY <1>2, <2>2, <2>4 DEF ReqAllDone
  <2>6. ReqRanSoFar(Len(reqRun.results))'
    BY <1>1, <1>2, <1>4, <2>2, <2>4 DEF ReqRanSoFar
  <2> QED
    BY <1>1, <1>3, <2>5, <2>6, ReqAtBatch DEF ReqRunLog, ReqCommitLog, ReqApplyLog
<1> QED
  BY <1>5, <1>6

(* Applying the results of a run that was not stopped: the conversation catches   *)
(* up with the log.                                                               *)
LEMMA ReqApplyLogs == ReqInv /\ ReqLogInv /\ ApplyResults => ReqLogInv'
<1> SUFFICES ASSUME ReqInv, ReqLogInv, ApplyResults PROVE ReqLogInv'
  OBVIOUS
<1> DEFINE calls == reqRun.calls
           results == reqRun.results
           stop == {i \in DOMAIN results : Stops(results[i])}
           all == AddResults(reqConv.now, calls, results)
           conv == IF stop = {} THEN NormalizeToolCallBatch(all, calls) ELSE all
           failed == reqRun.buffered = <<"err">>
           ran == IF stop = {} /\ ~failed THEN Len(results) ELSE 0
           outcome == CASE failed -> "none"
                        [] ~failed /\ stop = {} -> "tool_result"
                        [] OTHER -> IF Last(results) = "pending" THEN "pending" ELSE "failed"
<1>1. /\ reqPc = "apply" /\ reqPc' = "decide" /\ reqEnd' = [outcome |-> outcome, err |-> reqRun.err]
      /\ reqConv' = [reqConv EXCEPT !.now = conv, !.committed = conv]
      /\ reqTry' = [reqTry EXCEPT !.durable = @ \/ results # <<>>, !.executed = ran]
      /\ reqLog' = IF stop # {} /\ Last(results) = "turnfail"
                   THEN Append(reqLog, Logged("failed", 0)) ELSE reqLog
  BY DEF ApplyResults, EndAttempt
<1>2. /\ ReqRecords /\ ReqSettled(reqConv.now) /\ reqTry.started /\ reqTry.toolCalls
      /\ ~failed /\ ReqUnstopped(results) => ReqAllDone(results, Len(results)) /\ ReqRanSoFar(Len(results))
  BY <1>1 DEF ReqLogInv, ReqBatchLog, ReqApplyLog
<1>3. outcome # "assistant_done" /\ (outcome = "tool_result" => ~failed /\ stop = {})
  <2> HIDE DEF stop, failed
  <2> QED
    OBVIOUS
<1>4. ASSUME ~failed, stop = {}
      PROVE  Facts(conv) = Facts(reqLog)
  <2>1. DOMAIN results = 1 .. Len(results) /\ Len(results) \in Nat /\ Len(results) <= Len(calls)
    BY ReqNow, LenProperties
  <2>2. ReqUnstopped(results)
    BY <1>4, <2>1 DEF ReqUnstopped
  <2>3. ReqAllDone(results, Len(results)) /\ ReqRanSoFar(Len(results))
    BY <1>2, <1>4, <2>2
  <2>4. calls \in Seq(ReqCalls) /\ reqConv.now \in Seq(ReqPlain) /\ Facts(reqConv.now) = reqConv.now
    BY <1>2, ReqNow DEF ReqSettled
  <2>5. ReqAdded(reqConv.now, calls, Len(results), all)
    BY <2>1, <2>3, <2>4, ReqAddsAll
  <2>6. conv = NormalizeToolCallBatch(all, calls)
    BY <1>4
  <2> HIDE DEF all, conv
  <2>7. Facts(conv) = Facts(reqConv.now) \o ReqResults(calls, Len(results))
    BY <2>1, <2>4, <2>5, <2>6, ReqNormalized
  <2> QED
    BY <2>3, <2>4, <2>7 DEF ReqRanSoFar
<1>5. stop = {} => reqLog' = reqLog
  BY <1>1
<1> HIDE DEF conv, ran, outcome, failed, stop
<1>6. /\ ReqIsConv(reqConv') /\ reqConv'.now = conv /\ reqConv'.committed = conv
  BY <1>1, <1>2, ReqConvIs DEF ReqRecords
<1>7. reqTry'.started /\ reqTry'.toolCalls
  <2> HIDE DEF results
  <2> QED
    BY <1>1, <1>2, ReqNow DEF ReqTries
<1>8. reqEnd'.outcome = outcome /\ ReqIsEnd(reqEnd')
  BY <1>1 DEF ReqIsEnd
<1>9. ReqRecords'
  BY <1>6, <1>8 DEF ReqRecords
<1>10. ReqDecideLog'
  BY <1>3, <1>4, <1>5, <1>6, <1>7, <1>8 DEF ReqDecideLog, ReqMightRetry
<1> QED
  BY <1>1, <1>9, <1>10, ReqAtDecide

------------------------------------------------------------------------------
(* After an attempt.                                                              *)

LEMMA ReqEndIs ==
    ASSUME ReqIsEnd(reqEnd), NEW outcome, Return(outcome)
    PROVE  ReqIsEnd(reqEnd') /\ reqEnd'.outcome = outcome /\ reqPc' = "returned"
<1>1. PICK o, e : reqEnd = [outcome |-> o, err |-> e]
  BY DEF ReqIsEnd
<1>2. [[outcome |-> o, err |-> e] EXCEPT !.outcome = outcome] = [outcome |-> outcome, err |-> e]
  OBVIOUS
<1>3. reqEnd' = [outcome |-> outcome, err |-> e] /\ reqPc' = "returned"
  BY <1>1, <1>2, Zenon DEF Return
<1> QED
  BY <1>3 DEF ReqIsEnd

LEMMA ReqConvPuts ==
    ASSUME ReqIsConv(reqConv), NEW a
    PROVE  /\ ReqIsConv([reqConv EXCEPT !.now = a]) /\ [reqConv EXCEPT !.now = a].now = a
           /\ ReqIsConv([reqConv EXCEPT !.initial = a]) /\ [reqConv EXCEPT !.initial = a].initial = a
<1>1. PICK n, c, i : reqConv = [now |-> n, committed |-> c, initial |-> i]
  BY DEF ReqIsConv
<1>2. /\ [[now |-> n, committed |-> c, initial |-> i] EXCEPT !.now = a]
            = [now |-> a, committed |-> c, initial |-> i]
      /\ [[now |-> n, committed |-> c, initial |-> i] EXCEPT !.initial = a]
            = [now |-> n, committed |-> c, initial |-> a]
  OBVIOUS
<1>3. /\ [reqConv EXCEPT !.now = a] = [now |-> a, committed |-> c, initial |-> i]
      /\ [reqConv EXCEPT !.initial = a] = [now |-> n, committed |-> c, initial |-> a]
  BY <1>1, <1>2, Zenon
<1> QED
  BY <1>3 DEF ReqIsConv

LEMMA ReqReturnLogs == ReqInv /\ ReqLogInv /\ ReturnStep => ReqLogInv'
<1> SUFFICES ASSUME ReqInv, ReqLogInv, ReturnStep PROVE ReqLogInv'
  OBVIOUS
<1>1. /\ reqPc = "decide" /\ UNCHANGED reqLog /\ ReqRecords
      /\ reqEnd.outcome = "assistant_done" => ReqAsLogged(reqConv.now) /\ reqConv.committed = reqConv.now
      /\ reqEnd.outcome = "tool_result" => Facts(reqConv.now) = Facts(reqLog)
  BY DEF ReturnStep, ReqLogInv, ReqDecideLog
<1>2. CASE Return(reqEnd.outcome) /\ UNCHANGED reqConv
  <2>1. ReqIsEnd(reqEnd') /\ reqEnd'.outcome = reqEnd.outcome /\ reqPc' = "returned"
    BY <1>1, <1>2, ReqEndIs DEF ReqRecords
  <2>2. ReqRecords'
    BY <1>1, <1>2, <2>1 DEF ReqRecords
  <2>3. ReqReturnedLog'
    BY <1>1, <1>2, <2>1 DEF ReqReturnedLog, ReqAsLogged, ReqSettled
  <2> QED
    BY <2>1, <2>2, <2>3, ReqAtReturn
<1>3. CASE /\ Again /\ reqConv' = [reqConv EXCEPT !.initial = reqConv.committed]
           /\ reqEnd.outcome = "assistant_done"
  <2>1. ReqIsConv(reqConv') /\ reqConv'.initial = reqConv.committed
    BY <1>1, <1>3, ReqConvPuts DEF ReqRecords
  <2>2. ReqAsLogged(reqConv.initial)'
    BY <1>1, <1>3, <2>1 DEF ReqAsLogged
  <2>3. ReqRecords' /\ reqPc' = "open"
    BY <1>3, <2>1 DEF ReqRecords, ReqIsEnd, Again, NoEnd
  <2> QED
    BY <2>2, <2>3, ReqAtOpen
<1> QED
  BY <1>2, <1>3 DEF ReturnStep, ShouldContinueOutput

LEMMA ReqErrorLogs == ReqInv /\ ReqLogInv /\ HandleError => ReqLogInv'
<1> SUFFICES ASSUME ReqInv, ReqLogInv, HandleError PROVE ReqLogInv'
  OBVIOUS
<1>1. /\ reqPc = "decide" /\ ReqRecords
      /\ ReqMightRetry(reqTry) => ReqAsLogged(reqConv.initial)
      /\ reqEnd.outcome = "assistant_done" => ReqAsLogged(reqConv.now) /\ reqConv.committed = reqConv.now
      /\ reqEnd.outcome = "tool_result" =>
            Facts(reqConv.now) = Facts(reqLog) /\ reqConv.committed = reqConv.now
  BY DEF HandleError, ReqLogInv, ReqDecideLog
<1>2. ASSUME NEW outcome \in {"rollover", "failed"}, Return(outcome),
             reqConv' = [reqConv EXCEPT !.now = reqConv.committed]
      PROVE  ReqLogInv'
  <2>1. ReqIsEnd(reqEnd') /\ reqEnd'.outcome = outcome /\ reqPc' = "returned"
    BY <1>1, <1>2, ReqEndIs DEF ReqRecords
  <2>2. ReqRecords'
    BY <1>1, <1>2, <2>1, ReqConvPuts DEF ReqRecords
  <2> QED
    BY <2>1, <2>2, ReqAtReturn DEF ReqReturnedLog
<1>3. CASE /\ Return(reqEnd.outcome) /\ reqLog' = Append(reqLog, Logged("retry_scheduled", 0))
           /\ reqConv' = [reqConv EXCEPT !.now = reqConv.committed]
  <2>1. ReqIsEnd(reqEnd') /\ reqEnd'.outcome = reqEnd.outcome /\ reqPc' = "returned"
    BY <1>1, <1>3, ReqEndIs DEF ReqRecords
  <2>2. ReqIsConv(reqConv') /\ reqConv'.now = reqConv.committed
    BY <1>1, <1>3, ReqConvPuts DEF ReqRecords
  <2>3. Facts(reqLog') = Facts(reqLog)
    BY <1>3, ReqNothingSaid
  <2>4. ReqReturnedLog'
    BY <1>1, <2>1, <2>2, <2>3 DEF ReqReturnedLog, ReqAsLogged, ReqSettled
  <2> QED
    BY <2>1, <2>2, <2>4, ReqAtReturn DEF ReqRecords
<1>4. CASE /\ MayRetry /\ Again /\ UNCHANGED reqConv
           /\ reqLog' = Append(reqLog, Logged("retry_scheduled", 0))
  <2>1. ReqMightRetry(reqTry)
    BY <1>4 DEF MayRetry, ReqMightRetry
  <2>2. Facts(reqLog') = Facts(reqLog)
    BY <1>4, ReqNothingSaid
  <2>3. ReqAsLogged(reqConv.initial)'
    BY <1>1, <1>4, <2>1, <2>2 DEF ReqAsLogged
  <2>4. ReqRecords' /\ reqPc' = "open"
    BY <1>1, <1>4 DEF ReqRecords, ReqIsEnd, Again, NoEnd
  <2> QED
    BY <2>3, <2>4, ReqAtOpen
<1> QED
  BY <1>2, <1>3, <1>4 DEF HandleError

LEMMA ReqLogInvStep == ReqInv /\ ReqLogInv /\ [ReqNext]_reqVars => ReqLogInv'
<1> SUFFICES ASSUME ReqInv, ReqLogInv, [ReqNext]_reqVars PROVE ReqLogInv'
  OBVIOUS
<1>1. CASE OpenStream
  BY <1>1, ReqOpenLogs
<1>2. CASE AssistantDelta \/ ReasoningDelta \/ ReasoningCommitted \/ ToolCallDelta
  BY <1>2, ReqDeltaLogs
<1>3. CASE ToolCallDone
  BY <1>3, ReqCallDoneLogs
<1>4. CASE StreamEof
  BY <1>4, ReqEofLogs
<1>5. CASE StreamBreaks
  BY <1>5, ReqBreakLogs
<1>6. CASE RunNextCall
  BY <1>6, ReqNextCallLogs
<1>7. CASE \E i \in 1 .. ReqMaxCalls : i \in DOMAIN reqRun.calls /\ RunParallelCall(i)
  BY <1>7, ReqParallelLogs
<1>8. CASE CommitBuffered
  BY <1>8, ReqCommitLogs
<1>9. CASE CollectResults
  BY <1>9, ReqCollectLogs
<1>10. CASE ApplyResults
  BY <1>10, ReqApplyLogs
<1>11. CASE ReturnStep
  BY <1>11, ReqReturnLogs
<1>12. CASE HandleError
  BY <1>12, ReqErrorLogs
<1>13. CASE UNCHANGED reqVars
  BY <1>13, ZenonT(60) DEF reqVars, ReqLogInv, ReqRecords, ReqOpenLog, ReqStreamLog, ReqRunLog, ReqCommitLog,
     ReqApplyLog, ReqBatchLog, ReqDecideLog, ReqReturnedLog, ReqAsLogged, ReqRanSoFar
<1> QED
  BY <1>1, <1>2, <1>3, <1>4, <1>5, <1>6, <1>7, <1>8, <1>9, <1>10, <1>11, <1>12, <1>13 DEF ReqNext

(* Whenever another request is built from the conversation in memory, in the next *)
(* attempt or by the turn's next step, it says what the log would rebuild: the    *)
(* reasoning, the answers and the tool results, in the log's order, whatever the  *)
(* calls, the errors, the retries and the continuations were                      *)
(* (turn_runner_step*.go, providerRetryDecision).                                 *)
THEOREM ReqConversationIsTheLog == ReqSpec => []ReqConversationIsLog
<1>1. ReqLogInv => ReqConversationIsLog
  BY DEF ReqLogInv, ReqOpenLog, ReqReturnedLog, ReqConversationIsLog, ReqAsLogged, ReqSettled
<1>2. ReqInit => ReqInv /\ ReqLogInv
  BY ReqInvInit, ReqLogInvInit
<1>3. ReqInv /\ ReqLogInv /\ [ReqNext]_reqVars => (ReqInv /\ ReqLogInv)'
  BY ReqInvStep, ReqLogInvStep
<1> QED
  BY <1>1, <1>2, <1>3, PTL DEF ReqSpec

(******************************************************************************)
(* Sums over finite sets, as MapThenSumSet computes them: they exist, their   *)
(* order does not matter, and a cost that changes moves one by its change.    *)
(******************************************************************************)

(* What holds of a finite set when it holds of the set without any one element    *)
(* holds of every finite set.                                                     *)
BgtInductive(S, Z) == \A T \in SUBSET S : (\A x \in T : T \ {x} \in Z) => T \in Z

LEMMA BgtFiniteSets ==
    ASSUME NEW S, IsFiniteSet(S), NEW Z, BgtInductive(S, Z)
    PROVE  S \in Z
<1> SUFFICES ASSUME S \notin Z PROVE FALSE
  OBVIOUS
<1>1. \A T \in SUBSET S : IsFiniteSet(T) /\ Cardinality(T) \in Nat
  BY FS_Subset, FS_CardinalityType
<1> DEFINE sizes == {n \in Nat : \E T \in SUBSET S : T \notin Z /\ Cardinality(T) = n}
<1>2. sizes \in SUBSET Nat /\ sizes # {}
  BY <1>1
<1>3. PICK n \in sizes : \A m \in sizes : n <= m
  <2> HIDE DEF sizes
  <2> QED
    BY <1>2, ReqLeastExists
<1>4. PICK T \in SUBSET S : T \notin Z /\ Cardinality(T) = n
  OBVIOUS
<1>5. PICK x \in T : T \ {x} \notin Z
  BY <1>4 DEF BgtInductive
<1>6. Cardinality(T \ {x}) = n - 1 /\ Cardinality(T \ {x}) \in Nat
  BY <1>1, <1>4, FS_RemoveElement
<1>7. n - 1 \in sizes
  BY <1>5, <1>6
<1> QED
  BY <1>3, <1>7

(* What MapThenSumSet computes with: the sum over each subset of S.               *)
BgtChosen(T) == CHOOSE x \in T : TRUE
BgtSums(cost, S, f) ==
    f = [T \in SUBSET S |-> IF T = {} THEN 0
                            ELSE cost[BgtChosen(T)] + f[T \ {BgtChosen(T)}]]
BgtCosts(cost, S) == MapThenSumSet(LAMBDA s : cost[s], S)

LEMMA BgtCostsAreSums ==
    ASSUME NEW cost, NEW S
    PROVE  BgtCosts(cost, S) = (CHOOSE f : BgtSums(cost, S, f))[S]
  BY DEF BgtCosts, BgtSums, BgtChosen, MapThenSumSet, MapThenFoldSet

BgtSumAt(cost, f, T) ==
    /\ T = {} => f[T] = 0
    /\ T # {} => /\ BgtChosen(T) \in T
                 /\ f[T] = cost[BgtChosen(T)] + f[T \ {BgtChosen(T)}]

LEMMA BgtSumsAt ==
    ASSUME NEW cost, NEW S, NEW f, BgtSums(cost, S, f), NEW T \in SUBSET S
    PROVE  BgtSumAt(cost, f, T)
<1>1. T # {} => BgtChosen(T) \in T
  BY DEF BgtChosen
<1> DEFINE g == [R \in SUBSET S |-> IF R = {} THEN 0
                                    ELSE cost[BgtChosen(R)] + f[R \ {BgtChosen(R)}]]
<1>2. f = g
  BY Zenon DEF BgtSums
<1>3. g[T] = IF T = {} THEN 0 ELSE cost[BgtChosen(T)] + f[T \ {BgtChosen(T)}]
  OBVIOUS
<1>4. f[T] = g[T]
  BY <1>2, Zenon
<1> HIDE DEF g
<1> QED
  BY <1>1, <1>3, <1>4 DEF BgtSumAt

(* Two such functions agree where both are defined, and costs that agree give     *)
(* the same sums.                                                                 *)
BgtSame(cost, other, U) == \A s \in U : cost[s] = other[s]

LEMMA BgtSumsAgree ==
    ASSUME NEW cost, NEW other, NEW S, NEW S2, NEW f, NEW g, NEW U, IsFiniteSet(U),
           BgtSums(cost, S, f), BgtSums(other, S2, g), U \subseteq S, U \subseteq S2,
           BgtSame(cost, other, U)
    PROVE  f[U] = g[U]
<1> DEFINE Z == {T \in SUBSET U : f[T] = g[T]}
<1>1. ASSUME NEW T \in SUBSET U, \A x \in T : T \ {x} \in Z PROVE T \in Z
  <2>a. BgtSumAt(cost, f, T) /\ BgtSumAt(other, g, T)
    <3>1. T \in SUBSET S /\ T \in SUBSET S2
      OBVIOUS
    <3> QED
      BY <3>1, BgtSumsAt
  <2>1. CASE T = {}
    BY <2>a, <2>1 DEF BgtSumAt
  <2>2. CASE T # {}
    <3> DEFINE x == BgtChosen(T)
    <3>2. x \in T /\ f[T] = cost[x] + f[T \ {x}]
      BY <2>a, <2>2 DEF BgtSumAt
    <3>3. g[T] = other[x] + g[T \ {x}]
      BY <2>a, <2>2 DEF BgtSumAt
    <3>4. f[T \ {x}] = g[T \ {x}] /\ cost[x] = other[x]
      BY <1>1, <3>2 DEF BgtSame
    <3> HIDE DEF x
    <3> QED
      BY <3>2, <3>3, <3>4
  <2> QED
    BY <2>1, <2>2
<1>2. BgtInductive(U, Z)
  BY <1>1 DEF BgtInductive
<1> HIDE DEF Z
<1>3. U \in Z
  BY <1>2, BgtFiniteSets
<1> QED
  BY <1>3 DEF Z

(* There is such a function for every finite set.                                 *)
LEMMA BgtSumsExist ==
    ASSUME NEW cost, NEW S, IsFiniteSet(S)
    PROVE  \E f : BgtSums(cost, S, f)
<1> DEFINE Z == {T \in SUBSET S : \E f : BgtSums(cost, T, f)}
<1>1. ASSUME NEW T \in SUBSET S, \A x \in T : T \ {x} \in Z PROVE T \in Z
  <2> DEFINE F == [x \in T |-> CHOOSE f : BgtSums(cost, T \ {x}, f)]
  <2>1. \A x \in T : BgtSums(cost, T \ {x}, F[x])
    BY <1>1
  <2> DEFINE part == [R \in SUBSET T |-> IF R = T THEN 0
                                         ELSE F[CHOOSE x \in T : x \notin R][R]]
  <2> DEFINE x0 == BgtChosen(T)
             h == [R \in SUBSET T |-> IF R = T THEN IF T = {} THEN 0 ELSE cost[x0] + part[T \ {x0}]
                                      ELSE part[R]]
  <2>2. ASSUME NEW R \in SUBSET T, R # T, NEW x \in T, x \notin R
        PROVE  part[R] = F[x][R]
    <3> DEFINE y == CHOOSE y \in T : y \notin R
    <3>1. y \in T /\ y \notin R
      BY <2>2
    <3>2. part[R] = F[y][R]
      BY <2>2
    <3> HIDE DEF y, F, part
    <3>3. R \subseteq T \ {x} /\ R \subseteq T \ {y} /\ IsFiniteSet(R) /\ BgtSame(cost, cost, R)
      BY <2>2, <3>1, FS_Subset DEF BgtSame
    <3>4. BgtSums(cost, T \ {x}, F[x]) /\ BgtSums(cost, T \ {y}, F[y])
      BY <2>1, <3>1
    <3>5. F[y][R] = F[x][R]
      BY <3>3, <3>4, BgtSumsAgree
    <3> QED
      BY <3>2, <3>5
  <2>3. ASSUME NEW R \in SUBSET T
        PROVE  h[R] = IF R = {} THEN 0 ELSE cost[BgtChosen(R)] + h[R \ {BgtChosen(R)}]
    <3>1. CASE R = {}
      <4>1. CASE R = T
        BY <3>1, <4>1
      <4>2. CASE R # T
        <5>1. PICK x \in T : x \notin R
          BY <4>2
        <5>2. h[R] = F[x][R]
          <6>1. h[R] = part[R]
            BY <4>2
          <6> HIDE DEF h, part, F
          <6> QED
            BY <2>2, <4>2, <5>1, <6>1
        <5> HIDE DEF h, part, F
        <5>3. R \in SUBSET (T \ {x}) /\ BgtSums(cost, T \ {x}, F[x])
          BY <2>1, <5>1
        <5> QED
          BY <3>1, <5>2, <5>3, BgtSumsAt DEF BgtSumAt
      <4> QED
        BY <4>1, <4>2
    <3>2. CASE R # {}
      <4> DEFINE z == BgtChosen(R)
      <4>1. z \in R
        BY <3>2 DEF BgtChosen
      <4>2. R \ {z} \in SUBSET T /\ R \ {z} # T
        BY <4>1
      <4>3. h[R \ {z}] = part[R \ {z}]
        <5> HIDE DEF part, z
        <5> QED
          BY <4>2
      <4>4. CASE R = T
        <5>1. h[R] = cost[z] + part[R \ {z}]
          <6> HIDE DEF part
          <6> QED
            BY <3>2, <4>4
        <5> HIDE DEF h, part, F, z
        <5>2. h[R] = cost[z] + h[R \ {z}]
          BY <4>3, <5>1
        <5> QED
          BY <3>2, <5>2 DEF z
      <4>5. CASE R # T
        <5>1. PICK x \in T : x \notin R
          BY <4>5
        <5>2. h[R] = part[R]
          <6> HIDE DEF part
          <6> QED
            BY <4>5
        <5> HIDE DEF h, part, F, z
        <5>3. h[R] = F[x][R]
          BY <2>2, <4>5, <5>1, <5>2
        <5>4. part[R \ {z}] = F[x][R \ {z}]
          BY <2>2, <4>2, <5>1
        <5>5. R \in SUBSET (T \ {x}) /\ BgtSums(cost, T \ {x}, F[x])
          BY <2>1, <5>1
        <5>6. F[x][R] = cost[z] + F[x][R \ {z}]
          BY <3>2, <5>5, BgtSumsAt DEF z, BgtSumAt
        <5>7. h[R] = cost[z] + h[R \ {z}]
          BY <4>3, <5>3, <5>4, <5>6
        <5> QED
          BY <3>2, <5>7 DEF z
      <4> QED
        BY <4>4, <4>5
    <3> QED
      BY <3>1, <3>2
  <2>4. BgtSums(cost, T, h)
    <3>1. h = [R \in SUBSET T |-> h[R]]
      OBVIOUS
    <3> HIDE DEF h
    <3> QED
      BY <2>3, <3>1 DEF BgtSums
  <2> QED
    BY <2>4
<1>2. BgtInductive(S, Z)
  BY <1>1 DEF BgtInductive
<1> HIDE DEF Z
<1>3. S \in Z
  BY <1>2, BgtFiniteSets
<1> QED
  BY <1>3 DEF Z

LEMMA BgtCostsOf ==
    ASSUME NEW cost, NEW S, IsFiniteSet(S), NEW f, BgtSums(cost, S, f), NEW T \in SUBSET S
    PROVE  BgtCosts(cost, T) = f[T]
<1>1. IsFiniteSet(T) /\ T \subseteq T /\ BgtSame(cost, cost, T)
  BY FS_Subset DEF BgtSame
<1> DEFINE g == CHOOSE g : BgtSums(cost, T, g)
<1>2. BgtSums(cost, T, g)
  BY <1>1, BgtSumsExist
<1>3. BgtCosts(cost, T) = g[T]
  BY BgtCostsAreSums
<1> HIDE DEF g
<1>4. g[T] = f[T]
  BY <1>1, <1>2, BgtSumsAgree
<1> QED
  BY <1>3, <1>4

LEMMA BgtCostsChosen ==
    ASSUME NEW cost, NEW S, IsFiniteSet(S)
    PROVE  /\ S = {} => BgtCosts(cost, S) = 0
           /\ S # {} => /\ BgtChosen(S) \in S
                        /\ BgtCosts(cost, S) =
                               cost[BgtChosen(S)] + BgtCosts(cost, S \ {BgtChosen(S)})
<1>1. PICK f : BgtSums(cost, S, f)
  BY BgtSumsExist
<1>2. \A T \in SUBSET S : BgtCosts(cost, T) = f[T]
  BY <1>1, BgtCostsOf
<1>3. S \in SUBSET S /\ S \ {BgtChosen(S)} \in SUBSET S
  OBVIOUS
<1> QED
  BY <1>1, <1>2, <1>3, BgtSumsAt DEF BgtSumAt

LEMMA BgtCostsAgree ==
    ASSUME NEW cost, NEW other, NEW S, IsFiniteSet(S), \A s \in S : cost[s] = other[s]
    PROVE  BgtCosts(cost, S) = BgtCosts(other, S)
<1>1. PICK f : BgtSums(cost, S, f)
  BY BgtSumsExist
<1>2. PICK g : BgtSums(other, S, g)
  BY BgtSumsExist
<1>a. BgtSame(cost, other, S) /\ S \subseteq S /\ S \in SUBSET S
  BY DEF BgtSame
<1>3. f[S] = g[S]
  BY <1>1, <1>2, <1>a, BgtSumsAgree
<1> QED
  BY <1>1, <1>2, <1>3, <1>a, BgtCostsOf

LEMMA BgtCostsAreInts ==
    ASSUME NEW cost, NEW S, IsFiniteSet(S), \A s \in S : cost[s] \in Int
    PROVE  BgtCosts(cost, S) \in Int
<1> DEFINE Z == {T \in SUBSET S : BgtCosts(cost, T) \in Int}
<1>1. ASSUME NEW T \in SUBSET S, \A x \in T : T \ {x} \in Z PROVE T \in Z
  <2>1. IsFiniteSet(T)
    BY FS_Subset
  <2>2. CASE T = {}
    <3>1. BgtCosts(cost, T) = 0
      BY <2>1, <2>2, BgtCostsChosen
    <3> QED
      BY <3>1
  <2>3. CASE T # {}
    <3> DEFINE x == BgtChosen(T)
    <3>1. x \in T /\ BgtCosts(cost, T) = cost[x] + BgtCosts(cost, T \ {x})
      BY <2>1, <2>3, BgtCostsChosen
    <3> HIDE DEF x
    <3>2. BgtCosts(cost, T \ {x}) \in Int /\ cost[x] \in Int
      BY <1>1, <3>1
    <3> QED
      BY <3>1, <3>2
  <2> QED
    BY <2>2, <2>3
<1>2. BgtInductive(S, Z)
  BY <1>1 DEF BgtInductive
<1> HIDE DEF Z
<1>3. S \in Z
  BY <1>2, BgtFiniteSets
<1> QED
  BY <1>3 DEF Z

(* The order in which the sum is taken does not matter.                           *)
LEMMA BgtCostsWithout ==
    ASSUME NEW cost, NEW S, IsFiniteSet(S), \A s \in S : cost[s] \in Int, NEW y \in S
    PROVE  BgtCosts(cost, S) = cost[y] + BgtCosts(cost, S \ {y})
<1> DEFINE Z == {T \in SUBSET S : \A x \in T : BgtCosts(cost, T) = cost[x] + BgtCosts(cost, T \ {x})}
<1>1. ASSUME NEW T \in SUBSET S, \A x \in T : T \ {x} \in Z PROVE T \in Z
  <2> SUFFICES ASSUME NEW x \in T PROVE BgtCosts(cost, T) = cost[x] + BgtCosts(cost, T \ {x})
    OBVIOUS
  <2> DEFINE z == BgtChosen(T)
  <2>1. IsFiniteSet(T) /\ IsFiniteSet(T \ {x}) /\ T # {}
    BY FS_Subset
  <2>2. z \in T /\ BgtCosts(cost, T) = cost[z] + BgtCosts(cost, T \ {z})
    BY <2>1, BgtCostsChosen
  <2>3. CASE x = z
    BY <2>2, <2>3
  <2>4. CASE x # z
    <3> HIDE DEF z
    <3>1. BgtCosts(cost, T \ {z}) = cost[x] + BgtCosts(cost, (T \ {z}) \ {x})
      BY <1>1, <2>2, <2>4
    <3>2. BgtCosts(cost, T \ {x}) = cost[z] + BgtCosts(cost, (T \ {x}) \ {z})
      BY <1>1, <2>2, <2>4
    <3>3. (T \ {z}) \ {x} = (T \ {x}) \ {z}
      OBVIOUS
    <3> DEFINE rest == BgtCosts(cost, (T \ {x}) \ {z})
    <3>4. IsFiniteSet((T \ {x}) \ {z}) /\ \A s \in (T \ {x}) \ {z} : cost[s] \in Int
      BY FS_Subset
    <3>5. rest \in Int /\ cost[x] \in Int /\ cost[z] \in Int
      BY <2>2, <3>4, BgtCostsAreInts
    <3>6. BgtCosts(cost, T) = cost[z] + (cost[x] + rest) /\ BgtCosts(cost, T \ {x}) = cost[z] + rest
      BY <2>2, <3>1, <3>2, <3>3
    <3> HIDE DEF rest
    <3> QED
      BY <3>5, <3>6
  <2> QED
    BY <2>3, <2>4
<1>2. BgtInductive(S, Z)
  BY <1>1 DEF BgtInductive
<1> HIDE DEF Z
<1>3. S \in Z
  BY <1>2, BgtFiniteSets
<1> QED
  BY <1>3 DEF Z

(* One cost that changes moves the sum by what it changes.                        *)
LEMMA BgtCostsMoved ==
    ASSUME NEW S, IsFiniteSet(S), NEW cost \in [S -> Int], NEW s \in S, NEW moved \in [S -> Int],
           \A x \in S \ {s} : moved[x] = cost[x]
    PROVE  BgtCosts(moved, S) = BgtCosts(cost, S) - cost[s] + moved[s]
<1>2. IsFiniteSet(S \ {s})
  BY FS_Subset
<1>3. BgtCosts(moved, S) = moved[s] + BgtCosts(moved, S \ {s})
  BY BgtCostsWithout
<1>4. BgtCosts(cost, S) = cost[s] + BgtCosts(cost, S \ {s})
  BY BgtCostsWithout
<1>5. BgtCosts(moved, S \ {s}) = BgtCosts(cost, S \ {s})
  BY <1>2, BgtCostsAgree
<1>6. BgtCosts(cost, S \ {s}) \in Int /\ cost[s] \in Int /\ moved[s] \in Int
  BY <1>2, BgtCostsAreInts
<1> QED
  BY <1>3, <1>4, <1>5, <1>6

(******************************************************************************)
(* Budget: a warm cost summary is its session's cost, whichever of a check, a *)
(* replay and an append made it, for any number of sessions and turns.        *)
(******************************************************************************)

BgtTurnRecords ==
    [pc : {"check", "total", "sum", "replayed", "request", "report", "refused"},
     todo : SUBSET BgtSessions, sum : Int, session : BgtSessions \cup {""}, read : Int,
     disturbed : BOOLEAN]

BgtCostShape == bgtCost \in [BgtSessions -> 0 .. BgtMaxCost]
BgtRuntimeShape ==
    bgtRuntime \in [BgtSessions -> [projector : BOOLEAN, warm : BOOLEAN, cost : Int]]
BgtTotalsShape == bgtTotals \in [cost : Int, warm : BOOLEAN]
BgtTurnShape == bgtTurn \in [BgtTurns -> BgtTurnRecords]
BgtShape == BgtCostShape /\ BgtRuntimeShape /\ BgtTotalsShape /\ BgtTurnShape

(* What is kept for a session is its cost.                                        *)
BgtSummaryIsCost == \A s \in BgtSessions : bgtRuntime[s].warm => bgtRuntime[s].cost = bgtCost[s]

(* A replay in progress has read the cost the session still has, or the session   *)
(* was loaded meanwhile, and then its summary or its projector is preferred.      *)
BgtReplayIsKnown ==
    \A t \in BgtTurns :
        bgtTurn[t].pc = "replayed" =>
            LET s == bgtTurn[t].session
            IN /\ s \in BgtSessions
               /\ bgtTurn[t].read = bgtCost[s] \/ bgtRuntime[s].projector

BgtInv == BgtShape /\ BgtSummaryIsCost /\ BgtReplayIsKnown

LEMMA BgtIdle == IdleBudgetTurn \in BgtTurnRecords /\ IdleBudgetTurn.pc = "check"
  BY SMT DEF IdleBudgetTurn, BgtTurnRecords

LEMMA BgtInvInit == BgtInit => BgtInv
<1> SUFFICES ASSUME BgtInit PROVE BgtInv
  OBVIOUS
<1> USE BgtAssumption DEF BgtInit
<1>1. BgtShape
  <2>1. BgtCostShape
    BY DEF BgtCostShape
  <2>2. BgtTurnShape
    BY BgtIdle DEF BgtTurnShape
  <2> QED
    BY <2>1, <2>2 DEF BgtShape, BgtRuntimeShape, BgtTotalsShape
<1>2. BgtSummaryIsCost
  BY DEF BgtSummaryIsCost
<1>3. BgtReplayIsKnown
  BY DEF BgtReplayIsKnown, IdleBudgetTurn
<1> QED
  BY <1>1, <1>2, <1>3 DEF BgtInv

LEMMA BgtHomes ==
    ASSUME NEW t \in BgtTurns
    PROVE  BgtHome[t] \in BgtSessions
  BY BgtAssumption

(* A step that moves one turn anywhere but into a replay.                         *)
LEMMA BgtTurnGoes ==
    ASSUME BgtTurnShape, NEW t \in BgtTurns, NEW turn \in BgtTurnRecords, turn.pc # "replayed",
           bgtTurn' = [bgtTurn EXCEPT ![t] = turn]
    PROVE  /\ BgtTurnShape'
           /\ \A u \in BgtTurns : bgtTurn'[u].pc = "replayed" =>
                  /\ bgtTurn[u].pc = "replayed"
                  /\ bgtTurn'[u].session = bgtTurn[u].session /\ bgtTurn'[u].read = bgtTurn[u].read
  BY DEF BgtTurnShape

LEMMA BgtGoes ==
    ASSUME BgtTurnShape, NEW t \in BgtTurns, NEW pc, BgtGo(t, pc),
           pc \in {"check", "total", "sum", "request", "report", "refused"}
    PROVE  /\ BgtTurnShape'
           /\ \A u \in BgtTurns : bgtTurn'[u].pc = "replayed" =>
                  /\ bgtTurn[u].pc = "replayed"
                  /\ bgtTurn'[u].session = bgtTurn[u].session /\ bgtTurn'[u].read = bgtTurn[u].read
<1> DEFINE turn == [bgtTurn[t] EXCEPT !.pc = pc]
<1>1. turn \in BgtTurnRecords /\ turn.pc # "replayed"
  BY ZenonT(60) DEF BgtTurnShape, BgtTurnRecords
<1>2. bgtTurn' = [bgtTurn EXCEPT ![t] = turn]
  BY DEF BgtGo, BgtTurnShape
<1> QED
  BY <1>1, <1>2, BgtTurnGoes

LEMMA BgtCounts ==
    ASSUME BgtTurnShape, NEW t \in BgtTurns, NEW s \in BgtSessions, NEW cost \in Int,
           Counted(t, s, cost)
    PROVE  /\ BgtTurnShape'
           /\ \A u \in BgtTurns : bgtTurn'[u].pc = "replayed" =>
                  /\ bgtTurn[u].pc = "replayed"
                  /\ bgtTurn'[u].session = bgtTurn[u].session /\ bgtTurn'[u].read = bgtTurn[u].read
<1> DEFINE todo == bgtTurn[t].todo \ {s}
           sum == bgtTurn[t].sum + cost
           disturbed == bgtTurn[t].disturbed
           turn == [pc |-> "sum", todo |-> todo, sum |-> sum, session |-> "", read |-> 0,
                    disturbed |-> disturbed]
<1>1. turn \in BgtTurnRecords /\ turn.pc # "replayed"
  <2>1. bgtTurn[t] \in BgtTurnRecords
    BY DEF BgtTurnShape
  <2>2. todo \in SUBSET BgtSessions
    BY <2>1 DEF BgtTurnRecords
  <2>3. sum \in Int
    <3>1. \A n, k \in Int : n + k \in Int
      OBVIOUS
    <3>2. bgtTurn[t].sum \in Int
      BY <2>1 DEF BgtTurnRecords
    <3> QED
      BY <3>1, <3>2, Zenon
  <2>4. disturbed \in BOOLEAN
    BY <2>1 DEF BgtTurnRecords
  <2>5. "" \in BgtSessions \cup {""}
    OBVIOUS
  <2> HIDE DEF todo, sum, disturbed
  <2>6. turn \in BgtTurnRecords
    BY <2>2, <2>3, <2>4, <2>5 DEF BgtTurnRecords
  <2>7. turn.pc # "replayed"
    OBVIOUS
  <2> QED
    BY <2>6, <2>7
<1>2. bgtTurn' = [bgtTurn EXCEPT ![t] = turn]
  BY DEF Counted
<1> HIDE DEF turn
<1> QED
  BY <1>1, <1>2, BgtTurnGoes

(* Turns that are told of a spend keep where they are and what they read.         *)
LEMMA BgtDisturbed ==
    ASSUME NEW turns \in [BgtTurns -> BgtTurnRecords]
    PROVE  /\ Disturbs(turns) \in [BgtTurns -> BgtTurnRecords]
           /\ \A u \in BgtTurns : /\ Disturbs(turns)[u].pc = turns[u].pc
                                  /\ Disturbs(turns)[u].session = turns[u].session
                                  /\ Disturbs(turns)[u].read = turns[u].read
<1>1. ASSUME NEW u \in BgtTurns
      PROVE  LET turn == [turns[u] EXCEPT !.disturbed = @ \/ turns[u].pc \in {"sum", "replayed"}]
             IN /\ turn \in BgtTurnRecords
                /\ turn.pc = turns[u].pc /\ turn.session = turns[u].session
                /\ turn.read = turns[u].read
  <2>1. PICK b \in BOOLEAN : b = (turns[u].disturbed \/ turns[u].pc \in {"sum", "replayed"})
    BY Zenon
  <2>2. turns[u] \in BgtTurnRecords
    OBVIOUS
  <2>3. /\ [turns[u] EXCEPT !.disturbed = b] \in BgtTurnRecords
        /\ [turns[u] EXCEPT !.disturbed = b].pc = turns[u].pc
        /\ [turns[u] EXCEPT !.disturbed = b].session = turns[u].session
        /\ [turns[u] EXCEPT !.disturbed = b].read = turns[u].read
    BY <2>2 DEF BgtTurnRecords
  <2> QED
    BY <2>1, <2>3, Zenon
<1> QED
  BY <1>1 DEF Disturbs

LEMMA BgtCheckInv ==
    ASSUME BgtInv, NEW t \in BgtTurns,
           CheckSession(t) \/ CheckTotal(t) \/ WarmTotal(t) \/ NextTurn(t)
    PROVE  BgtInv'
<1> USE DEF BgtInv, BgtShape
<1>1. BgtHome[t] \in BgtSessions
  BY BgtHomes
<1>2. CASE CheckSession(t)
  <2>1. PICK pc \in {"refused", "request", "total"} : BgtGo(t, pc)
    BY <1>2 DEF CheckSession
  <2>2. /\ BgtTurnShape'
        /\ \A u \in BgtTurns : bgtTurn'[u].pc = "replayed" =>
               /\ bgtTurn[u].pc = "replayed"
               /\ bgtTurn'[u].session = bgtTurn[u].session /\ bgtTurn'[u].read = bgtTurn[u].read
    BY <2>1, BgtGoes
  <2>3. /\ bgtCost' = bgtCost /\ bgtTotals' = bgtTotals
        /\ bgtRuntime' = [bgtRuntime EXCEPT ![BgtHome[t]].projector = TRUE]
    BY <1>2 DEF CheckSession
  <2>4. /\ BgtRuntimeShape'
        /\ \A s \in BgtSessions : /\ bgtRuntime'[s].warm = bgtRuntime[s].warm
                                  /\ bgtRuntime'[s].cost = bgtRuntime[s].cost
                                  /\ bgtRuntime[s].projector => bgtRuntime'[s].projector
    BY <2>3, ZenonT(60) DEF BgtRuntimeShape
  <2> QED
    BY <2>2, <2>3, <2>4 DEF BgtCostShape, BgtTotalsShape, BgtSummaryIsCost, BgtReplayIsKnown
<1>3. CASE CheckTotal(t) \/ WarmTotal(t) \/ NextTurn(t)
  <2>1. /\ BgtTurnShape'
        /\ \A u \in BgtTurns : bgtTurn'[u].pc = "replayed" =>
               /\ bgtTurn[u].pc = "replayed"
               /\ bgtTurn'[u].session = bgtTurn[u].session /\ bgtTurn'[u].read = bgtTurn[u].read
    <3>1. CASE CheckTotal(t) /\ bgtTotals.warm
      <4>1. PICK pc \in {"refused", "request"} : BgtGo(t, pc)
        BY <3>1 DEF CheckTotal, Decide
      <4> QED
        BY <4>1, BgtGoes
    <3>2. CASE CheckTotal(t) /\ ~bgtTotals.warm
      <4> DEFINE turn == [pc |-> "sum", todo |-> BgtSessions, sum |-> 0, session |-> "",
                          read |-> 0, disturbed |-> FALSE]
      <4>1. turn \in BgtTurnRecords /\ turn.pc # "replayed"
        BY DEF BgtTurnRecords
      <4>2. bgtTurn' = [bgtTurn EXCEPT ![t] = turn]
        BY <3>2 DEF CheckTotal
      <4> HIDE DEF turn
      <4> QED
        BY <4>1, <4>2, BgtTurnGoes
    <3>3. CASE WarmTotal(t)
      <4>1. PICK pc \in {"refused", "request"} : BgtGo(t, pc)
        BY <3>3 DEF WarmTotal, Decide
      <4> QED
        BY <4>1, BgtGoes
    <3>4. CASE NextTurn(t)
      BY <3>4, BgtIdle, BgtTurnGoes DEF NextTurn
    <3> QED
      BY <1>3, <3>1, <3>2, <3>3, <3>4
  <2>2. bgtCost' = bgtCost /\ bgtRuntime' = bgtRuntime
    BY <1>3 DEF CheckTotal, WarmTotal, NextTurn
  <2>3. BgtTotalsShape'
    <3>1. bgtTurn[t].sum \in Int
      BY DEF BgtTurnShape, BgtTurnRecords
    <3>2. CASE WarmTotal(t)
      BY <3>1, <3>2 DEF WarmTotal, BgtTotalsShape
    <3>3. CASE CheckTotal(t) \/ NextTurn(t)
      BY <3>3 DEF CheckTotal, NextTurn, BgtTotalsShape
    <3> QED
      BY <1>3, <3>2, <3>3
  <2> QED
    BY <2>1, <2>2, <2>3 DEF BgtCostShape, BgtRuntimeShape, BgtSummaryIsCost, BgtReplayIsKnown
<1> QED
  BY <1>2, <1>3

(* A summary taken under the lock: the cost it takes is the session's.            *)
LEMMA BgtSummarised ==
    ASSUME BgtInv, NEW s \in BgtSessions, NEW cost \in Int, cost = bgtCost[s],
           Summarised(s, cost), bgtCost' = bgtCost, bgtTotals' = bgtTotals, BgtTurnShape',
           \A u \in BgtTurns : bgtTurn'[u].pc = "replayed" =>
               /\ bgtTurn[u].pc = "replayed"
               /\ bgtTurn'[u].session = bgtTurn[u].session /\ bgtTurn'[u].read = bgtTurn[u].read
    PROVE  BgtInv'
<1> DEFINE runtime == [projector |-> bgtRuntime[s].projector, warm |-> TRUE, cost |-> cost]
<1>1. runtime \in [projector : BOOLEAN, warm : BOOLEAN, cost : Int]
  <2>1. bgtRuntime[s].projector \in BOOLEAN
    BY DEF BgtInv, BgtShape, BgtRuntimeShape
  <2> QED
    BY <2>1
<1>2. /\ runtime.projector = bgtRuntime[s].projector
      /\ runtime.cost = cost
  OBVIOUS
<1>3. bgtRuntime' = [bgtRuntime EXCEPT ![s] = runtime]
  BY DEF Summarised
<1> HIDE DEF runtime
<1>4. BgtRuntimeShape'
  BY <1>1, <1>3 DEF BgtInv, BgtShape, BgtRuntimeShape
<1>5. \A x \in BgtSessions : bgtRuntime'[x].projector = bgtRuntime[x].projector
  BY <1>2, <1>3 DEF BgtInv, BgtShape, BgtRuntimeShape
<1>6. BgtSummaryIsCost'
  BY <1>2, <1>3 DEF BgtInv, BgtShape, BgtRuntimeShape, BgtSummaryIsCost
<1>7. BgtReplayIsKnown'
  BY <1>5 DEF BgtInv, BgtReplayIsKnown
<1> QED
  BY <1>4, <1>6, <1>7 DEF BgtInv, BgtShape, BgtCostShape, BgtTotalsShape

LEMMA BgtReadInv ==
    ASSUME BgtInv, NEW t \in BgtTurns, NEW s \in BgtSessions, ReadSummary(t, s)
    PROVE  BgtInv'
<1>1. PICK cost \in Int : cost = bgtCost[s]
  BY BgtAssumption DEF BgtInv, BgtShape, BgtCostShape
<1>2. (IF bgtRuntime[s].warm THEN bgtRuntime[s].cost ELSE bgtCost[s]) = cost
  BY <1>1 DEF BgtInv, BgtSummaryIsCost
<1>3. Summarised(s, cost) /\ Counted(t, s, cost) /\ bgtCost' = bgtCost /\ bgtTotals' = bgtTotals
  BY <1>2 DEF ReadSummary
<1>4. /\ BgtTurnShape'
      /\ \A u \in BgtTurns : bgtTurn'[u].pc = "replayed" =>
             /\ bgtTurn[u].pc = "replayed"
             /\ bgtTurn'[u].session = bgtTurn[u].session /\ bgtTurn'[u].read = bgtTurn[u].read
  BY <1>3, BgtCounts DEF BgtInv, BgtShape
<1> QED
  BY <1>1, <1>3, <1>4, BgtSummarised

LEMMA BgtStoreInv ==
    ASSUME BgtInv, NEW t \in BgtTurns, StoreReplayed(t)
    PROVE  BgtInv'
<1>1. PICK s \in BgtSessions : s = bgtTurn[t].session
  BY DEF BgtInv, BgtReplayIsKnown, StoreReplayed, BgtAt
<1>2. PICK cost \in Int : cost = bgtCost[s]
  BY BgtAssumption, SMTT(60) DEF BgtInv, BgtShape, BgtCostShape
<1>3. ReplayedCost(t) = cost
  BY <1>1, <1>2 DEF BgtInv, BgtSummaryIsCost, BgtReplayIsKnown, StoreReplayed, BgtAt, ReplayedCost
<1>4. Summarised(s, cost) /\ Counted(t, s, cost) /\ bgtCost' = bgtCost /\ bgtTotals' = bgtTotals
  BY <1>1, <1>3 DEF StoreReplayed
<1>5. /\ BgtTurnShape'
      /\ \A u \in BgtTurns : bgtTurn'[u].pc = "replayed" =>
             /\ bgtTurn[u].pc = "replayed"
             /\ bgtTurn'[u].session = bgtTurn[u].session /\ bgtTurn'[u].read = bgtTurn[u].read
  BY <1>4, BgtCounts DEF BgtInv, BgtShape
<1> QED
  BY <1>2, <1>4, <1>5, BgtSummarised

(* A replay starts with the cost of a session nothing has loaded.                 *)
LEMMA BgtReplayInv ==
    ASSUME BgtInv, NEW t \in BgtTurns, NEW s \in BgtSessions, ReplaySummary(t, s)
    PROVE  BgtInv'
<1> DEFINE turn == [pc |-> "replayed", todo |-> bgtTurn[t].todo, sum |-> bgtTurn[t].sum,
                    session |-> s, read |-> bgtCost[s], disturbed |-> bgtTurn[t].disturbed]
<1>1. turn \in BgtTurnRecords
  <2>1. bgtTurn[t] \in BgtTurnRecords
    BY DEF BgtInv, BgtShape, BgtTurnShape
  <2>2. bgtTurn[t].todo \in SUBSET BgtSessions
    BY <2>1 DEF BgtTurnRecords
  <2>3. bgtTurn[t].sum \in Int
    BY <2>1 DEF BgtTurnRecords
  <2>4. bgtTurn[t].disturbed \in BOOLEAN
    BY <2>1 DEF BgtTurnRecords
  <2>5. bgtCost[s] \in Int
    BY BgtAssumption DEF BgtInv, BgtShape, BgtCostShape
  <2> QED
    BY <2>2, <2>3, <2>4, <2>5 DEF BgtTurnRecords
<1>2. turn.session = s /\ turn.read = bgtCost[s]
  OBVIOUS
<1>3. /\ bgtTurn' = [bgtTurn EXCEPT ![t] = turn]
      /\ bgtCost' = bgtCost /\ bgtRuntime' = bgtRuntime /\ bgtTotals' = bgtTotals
  BY DEF ReplaySummary
<1> HIDE DEF turn
<1>4. BgtTurnShape'
  BY <1>1, <1>3 DEF BgtInv, BgtShape, BgtTurnShape
<1>5. BgtReplayIsKnown'
  BY <1>2, <1>3 DEF BgtInv, BgtShape, BgtTurnShape, BgtReplayIsKnown
<1> QED
  BY <1>3, <1>4, <1>5 DEF BgtInv, BgtShape, BgtCostShape, BgtRuntimeShape, BgtTotalsShape,
                          BgtSummaryIsCost

(* An append leaves its session loaded and its summary what the session now cost. *)
LEMMA BgtAppendInv ==
    ASSUME BgtInv, NEW t \in BgtTurns, NEW cost \in 0 .. BgtMaxCost, AppendUsage(t, cost),
           NEW turn \in BgtTurnRecords, turn.pc # "replayed",
           bgtTurn' = Disturbs([bgtTurn EXCEPT ![t] = turn])
    PROVE  BgtInv'
<1> DEFINE s == BgtHome[t]
           turns == [bgtTurn EXCEPT ![t] = turn]
<1>1. s \in BgtSessions /\ cost \in Int
  BY BgtHomes, BgtAssumption
<1>2. turns \in [BgtTurns -> BgtTurnRecords]
  BY DEF BgtInv, BgtShape, BgtTurnShape
<1>3. /\ Disturbs(turns) \in [BgtTurns -> BgtTurnRecords]
      /\ \A u \in BgtTurns : /\ Disturbs(turns)[u].pc = turns[u].pc
                             /\ Disturbs(turns)[u].session = turns[u].session
                             /\ Disturbs(turns)[u].read = turns[u].read
  <2> HIDE DEF turns
  <2> QED
    BY <1>2, BgtDisturbed
<1>4. \A u \in BgtTurns : turns[u].pc = "replayed" => turns[u] = bgtTurn[u]
  BY DEF BgtInv, BgtShape, BgtTurnShape
<1> DEFINE runtime == [projector |-> TRUE, warm |-> TRUE, cost |-> cost]
<1>5. /\ runtime \in [projector : BOOLEAN, warm : BOOLEAN, cost : Int]
      /\ runtime.projector /\ runtime.cost = cost
  BY <1>1
<1>6. /\ bgtCost' = [bgtCost EXCEPT ![s] = cost] /\ bgtRuntime' = [bgtRuntime EXCEPT ![s] = runtime]
      /\ bgtTurn' = Disturbs(turns)
  BY DEF AppendUsage
<1>7. BgtTotalsShape'
  <2>1. Before(s) \in Int
    <3>1. bgtRuntime[s].cost \in Int
      BY <1>1 DEF BgtInv, BgtShape, BgtRuntimeShape
    <3>2. bgtCost[s] \in Int
      BY <1>1, BgtAssumption DEF BgtInv, BgtShape, BgtCostShape
    <3> QED
      BY <3>1, <3>2 DEF Before
  <2>2. CASE bgtTotals.warm
    <3>1. bgtTotals.cost + cost - Before(s) \in Int
      BY <1>1, <2>1 DEF BgtInv, BgtShape, BgtTotalsShape
    <3>2. bgtTotals' = [cost |-> bgtTotals.cost + cost - Before(s), warm |-> TRUE]
      BY <2>2 DEF AppendUsage
    <3> QED
      BY <3>1, <3>2 DEF BgtTotalsShape
  <2>3. CASE ~bgtTotals.warm
    BY <2>3 DEF AppendUsage, BgtInv, BgtShape, BgtTotalsShape
  <2> QED
    BY <2>2, <2>3
<1> HIDE DEF s, turns, runtime
<1>8. BgtCostShape' /\ BgtRuntimeShape' /\ BgtSummaryIsCost'
  BY <1>1, <1>5, <1>6 DEF BgtInv, BgtShape, BgtCostShape, BgtRuntimeShape, BgtSummaryIsCost
<1>9. BgtTurnShape'
  BY <1>3, <1>6 DEF BgtTurnShape
<1>10. BgtReplayIsKnown'
  <2> SUFFICES ASSUME NEW u \in BgtTurns, bgtTurn'[u].pc = "replayed"
               PROVE  /\ bgtTurn'[u].session \in BgtSessions
                      /\ \/ bgtTurn'[u].read = bgtCost'[bgtTurn'[u].session]
                         \/ bgtRuntime'[bgtTurn'[u].session].projector
    BY DEF BgtReplayIsKnown
  <2>1. /\ bgtTurn[u].pc = "replayed" /\ bgtTurn'[u].session = bgtTurn[u].session
        /\ bgtTurn'[u].read = bgtTurn[u].read
    BY <1>3, <1>4, <1>6
  <2> DEFINE x == bgtTurn[u].session
  <2>2. /\ x \in BgtSessions
        /\ bgtTurn[u].read = bgtCost[x] \/ bgtRuntime[x].projector
    BY <2>1 DEF BgtInv, BgtReplayIsKnown
  <2> HIDE DEF x
  <2>3. CASE x = s
    BY <1>1, <1>5, <1>6, <2>1, <2>2, <2>3 DEF BgtInv, BgtShape, BgtRuntimeShape, x
  <2>4. CASE x # s
    BY <1>1, <1>6, <2>1, <2>2, <2>4 DEF BgtInv, BgtShape, BgtCostShape, BgtRuntimeShape, x
  <2> QED
    BY <2>3, <2>4
<1> QED
  BY <1>7, <1>8, <1>9, <1>10 DEF BgtInv, BgtShape

LEMMA BgtReporting ==
    \A turn \in {IdleBudgetTurn, [IdleBudgetTurn EXCEPT !.pc = "report"]} :
        turn \in BgtTurnRecords /\ turn.pc # "replayed"
<1> SUFFICES ASSUME NEW turn \in {IdleBudgetTurn, [IdleBudgetTurn EXCEPT !.pc = "report"]}
             PROVE  turn \in BgtTurnRecords /\ turn.pc # "replayed"
  OBVIOUS
<1>1. ASSUME NEW r \in BgtTurnRecords
      PROVE  LET reporting == [r EXCEPT !.pc = "report"]
             IN reporting \in BgtTurnRecords /\ reporting.pc # "replayed"
  BY DEF BgtTurnRecords
<1>2. [IdleBudgetTurn EXCEPT !.pc = "report"] \in BgtTurnRecords
      /\ [IdleBudgetTurn EXCEPT !.pc = "report"].pc # "replayed"
  BY <1>1, BgtIdle, Zenon
<1>3. IdleBudgetTurn.pc # "replayed"
  BY BgtIdle
<1> QED
  BY <1>2, <1>3, BgtIdle, Zenon

(* Usage is recorded by a turn that then waits for the report or checks again.    *)
LEMMA BgtSpent ==
    ASSUME NEW t \in BgtTurns, RecordUsage(t) \/ ReportUsage(t)
    PROVE  \E turn \in {IdleBudgetTurn, [IdleBudgetTurn EXCEPT !.pc = "report"]} :
               bgtTurn' = Disturbs([bgtTurn EXCEPT ![t] = turn])
<1>1. CASE ReportUsage(t)
  BY <1>1 DEF ReportUsage
<1>2. CASE RecordUsage(t)
  <2>1. PICK reports \in BOOLEAN :
            bgtTurn' = Disturbs([bgtTurn EXCEPT ![t] =
                IF reports THEN [IdleBudgetTurn EXCEPT !.pc = "report"] ELSE IdleBudgetTurn])
    BY <1>2, Zenon DEF RecordUsage
  <2>2. CASE reports
    BY <2>1, <2>2, Zenon
  <2>3. CASE ~reports
    BY <2>1, <2>3, Zenon
  <2> QED
    BY <2>2, <2>3
<1> QED
  BY <1>1, <1>2

LEMMA BgtUsageInv ==
    ASSUME BgtInv, NEW t \in BgtTurns, RecordUsage(t) \/ ReportUsage(t)
    PROVE  BgtInv'
<1>1. bgtCost[BgtHome[t]] \in 0 .. BgtMaxCost
  BY BgtHomes DEF BgtInv, BgtShape, BgtCostShape
<1>2. PICK cost \in 0 .. BgtMaxCost : AppendUsage(t, cost)
  BY <1>1, BgtAssumption DEF RecordUsage, ReportUsage
<1>3. PICK turn \in {IdleBudgetTurn, [IdleBudgetTurn EXCEPT !.pc = "report"]} :
          bgtTurn' = Disturbs([bgtTurn EXCEPT ![t] = turn])
  BY BgtSpent
<1>4. turn \in BgtTurnRecords /\ turn.pc # "replayed"
  BY BgtReporting
<1> QED
  BY <1>2, <1>3, <1>4, BgtAppendInv

LEMMA BgtInvStep == BgtInv /\ [BgtNext]_bgtVars => BgtInv'
<1> SUFFICES ASSUME BgtInv, [BgtNext]_bgtVars PROVE BgtInv'
  OBVIOUS
<1>1. CASE UNCHANGED bgtVars
  BY <1>1 DEF bgtVars, BgtInv, BgtShape, BgtCostShape, BgtRuntimeShape, BgtTotalsShape, BgtTurnShape,
              BgtSummaryIsCost, BgtReplayIsKnown
<1>2. ASSUME NEW t \in BgtTurns,
             \/ CheckSession(t) \/ CheckTotal(t) \/ (\E s \in BgtSessions : ReadSummary(t, s))
             \/ (\E s \in BgtSessions : ReplaySummary(t, s)) \/ StoreReplayed(t) \/ WarmTotal(t)
             \/ RecordUsage(t) \/ ReportUsage(t) \/ NextTurn(t)
      PROVE  BgtInv'
  <2>1. CASE CheckSession(t) \/ CheckTotal(t) \/ WarmTotal(t) \/ NextTurn(t)
    BY <2>1, BgtCheckInv
  <2>2. CASE \E s \in BgtSessions : ReadSummary(t, s)
    BY <2>2, BgtReadInv
  <2>3. CASE \E s \in BgtSessions : ReplaySummary(t, s)
    BY <2>3, BgtReplayInv
  <2>4. CASE StoreReplayed(t)
    BY <2>4, BgtStoreInv
  <2>5. CASE RecordUsage(t) \/ ReportUsage(t)
    BY <2>5, BgtUsageInv
  <2> QED
    BY <1>2, <2>1, <2>2, <2>3, <2>4, <2>5
<1> QED
  BY <1>1, <1>2 DEF BgtNext

------------------------------------------------------------------------------
(* The costs have their types and what is kept as a session's cost is its cost,   *)
(* whether a check read it from the projector, a replay made it without the lock  *)
(* while an append went on, or an append moved it (budgetSummary, append).        *)
THEOREM BgtTypeCorrect == BgtSpec => []BgtTypeOK
<1>1. BgtInv => BgtTypeOK
  BY DEF BgtInv, BgtShape, BgtCostShape, BgtTotalsShape, BgtSummaryIsCost, BgtTypeOK
<1> QED
  BY <1>1, BgtInvInit, BgtInvStep, PTL DEF BgtSpec

------------------------------------------------------------------------------
(* The cost over all sessions.                                                    *)

(* A sum no append disturbed: what it counted and what it has yet to count are    *)
(* what the sessions cost.                                                        *)
BgtSumRight(turn, cost) ==
    turn.pc \in {"sum", "replayed"} /\ ~turn.disturbed =>
        /\ turn.sum + BgtCosts(cost, turn.todo) = BgtCosts(cost, BgtSessions)
        /\ turn.pc = "replayed" => turn.session \in turn.todo
BgtSumsRight == \A t \in BgtTurns : BgtSumRight(bgtTurn[t], bgtCost)

BgtTotalRight == bgtTotals.warm /\ bgtExact => bgtTotals.cost = BgtCosts(bgtCost, BgtSessions)

BgtTotalInv == BgtInv /\ BgtSumsRight /\ BgtTotalRight

LEMMA BgtCostsOfSome ==
    ASSUME BgtInv, NEW S \in SUBSET BgtSessions
    PROVE  IsFiniteSet(S) /\ BgtCosts(bgtCost, S) \in Int /\ \A s \in S : bgtCost[s] \in Int
<1>1. IsFiniteSet(S)
  BY BgtAssumption, FS_Subset
<1>2. \A s \in S : bgtCost[s] \in Int
  BY BgtAssumption DEF BgtInv, BgtShape, BgtCostShape
<1> QED
  BY <1>1, <1>2, BgtCostsAreInts

LEMMA BgtSumMoves ==
    ASSUME BgtInv, BgtSumsRight, NEW t \in BgtTurns, NEW turn, bgtTurn' = [bgtTurn EXCEPT ![t] = turn],
           bgtCost' = bgtCost, BgtSumRight(turn, bgtCost)
    PROVE  BgtSumsRight'
<1>1. \A u \in BgtTurns : bgtTurn'[u] = IF u = t THEN turn ELSE bgtTurn[u]
  BY DEF BgtInv, BgtShape, BgtTurnShape
<1>2. \A u \in BgtTurns : BgtSumRight(bgtTurn'[u], bgtCost')
  BY <1>1 DEF BgtSumsRight
<1> QED
  BY <1>2 DEF BgtSumsRight

LEMMA BgtSumGoes ==
    ASSUME BgtInv, BgtSumsRight, NEW t \in BgtTurns, NEW pc, BgtGo(t, pc), pc \notin {"sum", "replayed"},
           bgtCost' = bgtCost
    PROVE  BgtSumsRight'
<1> DEFINE turn == [bgtTurn[t] EXCEPT !.pc = pc]
<1>1. turn.pc = pc
  BY DEF BgtInv, BgtShape, BgtTurnShape, BgtTurnRecords
<1>2. bgtTurn' = [bgtTurn EXCEPT ![t] = turn]
  BY DEF BgtGo
<1> HIDE DEF turn
<1>3. BgtSumRight(turn, bgtCost)
  BY <1>1 DEF BgtSumRight
<1> QED
  BY <1>2, <1>3, BgtSumMoves

(* A session that is counted moves from what is to count to what was counted.     *)
LEMMA BgtSumCounts ==
    ASSUME BgtInv, BgtSumsRight, NEW t \in BgtTurns, NEW s \in BgtSessions, Counted(t, s, bgtCost[s]),
           bgtTurn[t].pc \in {"sum", "replayed"},
           bgtTurn[t].disturbed \/ s \in bgtTurn[t].todo, bgtCost' = bgtCost
    PROVE  BgtSumsRight'
<1> DEFINE todo == bgtTurn[t].todo
           sum == bgtTurn[t].sum
           turn == [pc |-> "sum", todo |-> todo \ {s}, sum |-> sum + bgtCost[s], session |-> "",
                    read |-> 0, disturbed |-> bgtTurn[t].disturbed]
<1>1. todo \in SUBSET BgtSessions /\ sum \in Int
  BY DEF BgtInv, BgtShape, BgtTurnShape, BgtTurnRecords
<1>2. bgtTurn' = [bgtTurn EXCEPT ![t] = turn]
  BY DEF Counted
<1>3. /\ turn.pc = "sum" /\ turn.todo = todo \ {s} /\ turn.sum = sum + bgtCost[s]
      /\ turn.disturbed = bgtTurn[t].disturbed
  OBVIOUS
<1>4. ASSUME ~bgtTurn[t].disturbed
      PROVE  (sum + bgtCost[s]) + BgtCosts(bgtCost, todo \ {s}) = BgtCosts(bgtCost, BgtSessions)
  <2>1. s \in todo /\ sum + BgtCosts(bgtCost, todo) = BgtCosts(bgtCost, BgtSessions)
    BY <1>4 DEF BgtSumsRight, BgtSumRight
  <2> HIDE DEF todo, sum
  <2>2. IsFiniteSet(todo) /\ \A x \in todo : bgtCost[x] \in Int
    BY <1>1, BgtCostsOfSome
  <2>3. BgtCosts(bgtCost, todo) = bgtCost[s] + BgtCosts(bgtCost, todo \ {s})
    BY <2>1, <2>2, BgtCostsWithout
  <2>4. BgtCosts(bgtCost, todo \ {s}) \in Int /\ bgtCost[s] \in Int
    BY <1>1, <2>1, <2>2, BgtCostsOfSome
  <2> QED
    BY <1>1, <2>1, <2>3, <2>4
<1> HIDE DEF turn, todo, sum
<1>5. BgtSumRight(turn, bgtCost)
  BY <1>3, <1>4 DEF BgtSumRight
<1> QED
  BY <1>2, <1>5, BgtSumMoves

LEMMA BgtTotalChecked ==
    ASSUME BgtTotalInv, NEW t \in BgtTurns,
           CheckSession(t) \/ CheckTotal(t) \/ WarmTotal(t) \/ NextTurn(t)
    PROVE  BgtSumsRight' /\ BgtTotalRight'
<1> USE DEF BgtTotalInv
<1>1. CASE CheckSession(t)
  <2>1. PICK pc \in {"refused", "request", "total"} : BgtGo(t, pc)
    BY <1>1 DEF CheckSession
  <2>2. bgtCost' = bgtCost /\ bgtTotals' = bgtTotals /\ bgtExact' = bgtExact
    BY <1>1 DEF CheckSession
  <2> QED
    BY <2>1, <2>2, BgtSumGoes DEF BgtTotalRight
<1>2. CASE CheckTotal(t)
  <2>1. bgtCost' = bgtCost /\ bgtTotals' = bgtTotals /\ bgtExact' = bgtExact
    BY <1>2 DEF CheckTotal
  <2>2. CASE bgtTotals.warm
    <3>1. PICK pc \in {"refused", "request"} : BgtGo(t, pc)
      BY <1>2, <2>2 DEF CheckTotal, Decide
    <3> QED
      BY <2>1, <3>1, BgtSumGoes DEF BgtTotalRight
  <2>3. CASE ~bgtTotals.warm
    <3> DEFINE turn == [pc |-> "sum", todo |-> BgtSessions, sum |-> 0, session |-> "", read |-> 0,
                        disturbed |-> FALSE]
    <3>1. bgtTurn' = [bgtTurn EXCEPT ![t] = turn]
      BY <1>2, <2>3 DEF CheckTotal
    <3>2. turn.pc = "sum" /\ turn.todo = BgtSessions /\ turn.sum = 0
      OBVIOUS
    <3> HIDE DEF turn
    <3>3. BgtCosts(bgtCost, BgtSessions) \in Int
      BY BgtCostsOfSome
    <3>4. BgtSumRight(turn, bgtCost)
      BY <3>2, <3>3 DEF BgtSumRight
    <3> QED
      BY <2>1, <2>3, <3>1, <3>4, BgtSumMoves DEF BgtTotalRight
  <2> QED
    BY <2>2, <2>3
<1>3. CASE WarmTotal(t)
  <2>1. PICK pc \in {"refused", "request"} : BgtGo(t, pc)
    BY <1>3 DEF WarmTotal, Decide
  <2>2. /\ bgtCost' = bgtCost /\ bgtTotals'.cost = bgtTurn[t].sum /\ bgtExact' = ~bgtTurn[t].disturbed
        /\ bgtTurn[t].pc = "sum" /\ bgtTurn[t].todo = {}
    BY <1>3, Zenon DEF WarmTotal, BgtAt
  <2>3. BgtSumsRight'
    BY <2>1, <2>2, BgtSumGoes
  <2>4. ASSUME ~bgtTurn[t].disturbed PROVE bgtTurn[t].sum = BgtCosts(bgtCost, BgtSessions)
    <3>1. bgtTurn[t].sum + BgtCosts(bgtCost, bgtTurn[t].todo) = BgtCosts(bgtCost, BgtSessions)
      BY <2>2, <2>4 DEF BgtSumsRight, BgtSumRight
    <3>2. BgtCosts(bgtCost, {}) = 0
      BY FS_EmptySet, BgtCostsChosen
    <3>3. bgtTurn[t].sum \in Int
      BY DEF BgtInv, BgtShape, BgtTurnShape, BgtTurnRecords
    <3> QED
      BY <2>2, <3>1, <3>2, <3>3
  <2>5. BgtTotalRight'
    BY <2>2, <2>4, Zenon DEF BgtTotalRight
  <2> QED
    BY <2>3, <2>5
<1>4. CASE NextTurn(t)
  <2>1. bgtCost' = bgtCost /\ bgtTotals' = bgtTotals /\ bgtExact' = bgtExact
    BY <1>4 DEF NextTurn
  <2>2. bgtTurn' = [bgtTurn EXCEPT ![t] = IdleBudgetTurn]
    BY <1>4 DEF NextTurn
  <2>3. BgtSumRight(IdleBudgetTurn, bgtCost)
    BY BgtIdle DEF BgtSumRight
  <2> QED
    BY <2>1, <2>2, <2>3, BgtSumMoves DEF BgtTotalRight
<1> QED
  BY <1>1, <1>2, <1>3, <1>4

LEMMA BgtTotalCounted ==
    ASSUME BgtTotalInv, NEW t \in BgtTurns,
           (\E s \in BgtSessions : ReadSummary(t, s) \/ ReplaySummary(t, s)) \/ StoreReplayed(t)
    PROVE  BgtSumsRight' /\ BgtTotalRight'
<1> USE DEF BgtTotalInv
<1>1. bgtCost' = bgtCost /\ bgtTotals' = bgtTotals /\ bgtExact' = bgtExact
  BY DEF ReadSummary, ReplaySummary, StoreReplayed
<1>2. BgtTotalRight'
  BY <1>1 DEF BgtTotalRight
<1>3. ASSUME NEW s \in BgtSessions, ReadSummary(t, s) PROVE BgtSumsRight'
  <2>1. (IF bgtRuntime[s].warm THEN bgtRuntime[s].cost ELSE bgtCost[s]) = bgtCost[s]
    BY DEF BgtInv, BgtSummaryIsCost
  <2>2. Counted(t, s, bgtCost[s]) /\ s \in bgtTurn[t].todo /\ bgtTurn[t].pc = "sum"
    BY <1>3, <2>1 DEF ReadSummary, BgtAt
  <2> QED
    BY <1>1, <2>2, BgtSumCounts
<1>4. ASSUME StoreReplayed(t) PROVE BgtSumsRight'
  <2>1. PICK s \in BgtSessions : s = bgtTurn[t].session
    BY <1>4, SMTT(60) DEF BgtInv, BgtReplayIsKnown, StoreReplayed, BgtAt
  <2>2. ReplayedCost(t) = bgtCost[s]
    BY <1>4, <2>1 DEF BgtInv, BgtSummaryIsCost, BgtReplayIsKnown, StoreReplayed, BgtAt, ReplayedCost
  <2>3. Counted(t, s, bgtCost[s]) /\ bgtTurn[t].pc = "replayed"
    BY <1>4, <2>1, <2>2 DEF StoreReplayed, BgtAt
  <2>4. bgtTurn[t].disturbed \/ s \in bgtTurn[t].todo
    BY <2>1, <2>3 DEF BgtSumsRight, BgtSumRight
  <2> QED
    BY <1>1, <2>3, <2>4, BgtSumCounts, SMTT(60)
<1>5. ASSUME NEW s \in BgtSessions, ReplaySummary(t, s) PROVE BgtSumsRight'
  <2> DEFINE turn == [pc |-> "replayed", todo |-> bgtTurn[t].todo, sum |-> bgtTurn[t].sum,
                      session |-> s, read |-> bgtCost[s], disturbed |-> bgtTurn[t].disturbed]
  <2>1. /\ bgtTurn' = [bgtTurn EXCEPT ![t] = turn]
        /\ bgtTurn[t].pc = "sum" /\ s \in bgtTurn[t].todo
    BY <1>5 DEF ReplaySummary, BgtAt
  <2>2. /\ turn.pc = "replayed" /\ turn.todo = bgtTurn[t].todo /\ turn.sum = bgtTurn[t].sum
        /\ turn.session = s /\ turn.disturbed = bgtTurn[t].disturbed
    OBVIOUS
  <2> HIDE DEF turn
  <2>3. BgtSumRight(turn, bgtCost)
    BY <2>1, <2>2 DEF BgtSumsRight, BgtSumRight
  <2> QED
    BY <1>1, <2>1, <2>3, BgtSumMoves
<1> QED
  BY <1>2, <1>3, <1>4, <1>5

(* An append disturbs every sum in progress and moves a total that is there.      *)
LEMMA BgtTotalAppended ==
    ASSUME BgtTotalInv, NEW t \in BgtTurns, NEW cost \in 0 .. BgtMaxCost, AppendUsage(t, cost),
           NEW turns \in [BgtTurns -> BgtTurnRecords], bgtTurn' = Disturbs(turns)
    PROVE  BgtSumsRight' /\ BgtTotalRight'
<1> USE DEF BgtTotalInv
<1>1. BgtSumsRight'
  <2> SUFFICES ASSUME NEW u \in BgtTurns PROVE BgtSumRight(bgtTurn'[u], bgtCost')
    BY DEF BgtSumsRight
  <2>1. Disturbs(turns)[u].pc = turns[u].pc
    BY BgtDisturbed
  <2>2. turns[u].pc \in {"sum", "replayed"} => bgtTurn'[u].disturbed
    <3> DEFINE turn == [turns[u] EXCEPT !.disturbed = @ \/ turns[u].pc \in {"sum", "replayed"}]
    <3>1. bgtTurn'[u] = turn
      BY DEF Disturbs
    <3>2. ASSUME turns[u].pc \in {"sum", "replayed"} PROVE turn.disturbed
      <4>1. turns[u] \in BgtTurnRecords
        OBVIOUS
      <4>2. turn = [turns[u] EXCEPT !.disturbed = TRUE]
        BY <3>2, Zenon
      <4>3. [turns[u] EXCEPT !.disturbed = TRUE].disturbed
        BY <4>1 DEF BgtTurnRecords
      <4> QED
        BY <4>2, <4>3, Zenon
    <3> HIDE DEF turn
    <3> QED
      BY <3>1, <3>2, Zenon
  <2> QED
    BY <2>1, <2>2 DEF BgtSumRight
<1>2. BgtTotalRight'
  <2> DEFINE s == BgtHome[t]
  <2>1. s \in BgtSessions /\ cost \in Int /\ bgtCost \in [BgtSessions -> Int] /\ IsFiniteSet(BgtSessions)
    BY BgtHomes, BgtAssumption DEF BgtInv, BgtShape, BgtCostShape
  <2>2. Before(s) = bgtCost[s]
    BY <2>1 DEF BgtInv, BgtSummaryIsCost, Before
  <2>3. bgtCost' = [bgtCost EXCEPT ![s] = cost] /\ bgtExact' = bgtExact
    BY DEF AppendUsage
  <2>4. BgtCosts(bgtCost', BgtSessions) = BgtCosts(bgtCost, BgtSessions) - bgtCost[s] + cost
    <3> HIDE DEF s
    <3>1. PICK moved : moved = [bgtCost EXCEPT ![s] = cost]
      OBVIOUS
    <3>2. moved \in [BgtSessions -> Int] /\ moved[s] = cost /\ \A x \in BgtSessions \ {s} : moved[x] = bgtCost[x]
      BY <2>1, <3>1
    <3>3. BgtCosts(moved, BgtSessions) = BgtCosts(bgtCost, BgtSessions) - bgtCost[s] + cost
      BY <2>1, <3>2, BgtCostsMoved
    <3> QED
      BY <2>3, <3>1, <3>3, Zenon
  <2>5. BgtCosts(bgtCost, BgtSessions) \in Int /\ bgtCost[s] \in Int
    BY <2>1, BgtCostsOfSome
  <2>6. CASE bgtTotals.warm
    <3>1. bgtTotals'.cost = bgtTotals.cost + cost - bgtCost[s]
      BY <2>2, <2>6 DEF AppendUsage
    <3> HIDE DEF s
    <3> QED
      BY <2>1, <2>3, <2>4, <2>5, <2>6, <3>1 DEF BgtTotalRight
  <2>7. CASE ~bgtTotals.warm
    BY <2>7 DEF AppendUsage, BgtTotalRight
  <2> QED
    BY <2>6, <2>7
<1> QED
  BY <1>1, <1>2

LEMMA BgtTotalStep == BgtTotalInv /\ [BgtNext]_bgtVars => BgtTotalInv'
<1> SUFFICES ASSUME BgtTotalInv, [BgtNext]_bgtVars PROVE BgtTotalInv'
  OBVIOUS
<1>1. BgtInv'
  BY BgtInvStep DEF BgtTotalInv
<1>2. CASE UNCHANGED bgtVars
  BY <1>1, <1>2 DEF bgtVars, BgtTotalInv, BgtSumsRight, BgtTotalRight
<1>3. ASSUME NEW t \in BgtTurns, RecordUsage(t) \/ ReportUsage(t)
      PROVE  BgtSumsRight' /\ BgtTotalRight'
  <2>1. bgtCost[BgtHome[t]] \in 0 .. BgtMaxCost
    BY BgtHomes DEF BgtTotalInv, BgtInv, BgtShape, BgtCostShape
  <2>2. PICK cost \in 0 .. BgtMaxCost : AppendUsage(t, cost)
    BY <1>3, <2>1, BgtAssumption DEF RecordUsage, ReportUsage
  <2>3. PICK turn \in {IdleBudgetTurn, [IdleBudgetTurn EXCEPT !.pc = "report"]} :
            bgtTurn' = Disturbs([bgtTurn EXCEPT ![t] = turn])
    BY <1>3, BgtSpent
  <2>4. [bgtTurn EXCEPT ![t] = turn] \in [BgtTurns -> BgtTurnRecords]
    BY BgtReporting DEF BgtTotalInv, BgtInv, BgtShape, BgtTurnShape
  <2> QED
    BY <2>2, <2>3, <2>4, BgtTotalAppended
<1>4. ASSUME NEW t \in BgtTurns,
             \/ CheckSession(t) \/ CheckTotal(t) \/ (\E s \in BgtSessions : ReadSummary(t, s))
             \/ (\E s \in BgtSessions : ReplaySummary(t, s)) \/ StoreReplayed(t) \/ WarmTotal(t)
             \/ RecordUsage(t) \/ ReportUsage(t) \/ NextTurn(t)
      PROVE  BgtSumsRight' /\ BgtTotalRight'
  BY <1>3, <1>4, BgtTotalChecked, BgtTotalCounted
<1> QED
  BY <1>1, <1>2, <1>4 DEF BgtNext, BgtTotalInv

------------------------------------------------------------------------------
(* BgtQuietTotalIsExact, for any number of sessions, turns, costs and limits: the *)
(* total that is kept (session_budget.go, session_runtime.go) is the sum of what  *)
(* the sessions cost, if no usage was appended while it was computed.             *)
THEOREM BgtTotalIsExact == BgtSpec => []BgtQuietTotalIsExact
<1>1. BgtInit => BgtTotalInv
  <2> SUFFICES ASSUME BgtInit PROVE BgtTotalInv
    OBVIOUS
  <2>1. ~bgtTotals.warm /\ \A t \in BgtTurns : bgtTurn[t] = IdleBudgetTurn
    BY DEF BgtInit
  <2> QED
    BY <2>1, BgtInvInit, BgtIdle DEF BgtTotalInv, BgtSumsRight, BgtSumRight, BgtTotalRight
<1>2. BgtTotalInv => BgtQuietTotalIsExact
  BY DEF BgtTotalInv, BgtTotalRight, BgtQuietTotalIsExact, BgtCosts
<1> QED
  BY <1>1, <1>2, BgtTotalStep, PTL DEF BgtSpec

(******************************************************************************)
(* Workflow: no turn runs in a phase, and no workflow is done, that the phases *)
(* before it did not earn, for any workflow and any calls that overlap.       *)
(******************************************************************************)

(* The shape of the state.                                                        *)

WfRouteTypes == {"skipped", "routed", "revised"}
WfMoveTypes == {"phase_started", "blocked", "completed", "resumed"}
WfTypesOfDraft == {"started", "evidence", "advanced"} \cup WfRouteTypes \cup WfMoveTypes
WfEvidences == {"output", "small", "approval", "pass", "fail"} \cup ResultEvents
WfDrafts ==
    {e \in [type : WfTypesOfDraft, phase : WfPhases, what : WfEvidences \cup {0} \cup WfPhases] :
        /\ e.type = "evidence" => e.what \in WfEvidences
        /\ e.type # "evidence" => e.what \in WfPhases \cup {0}
        /\ e.type \in WfRouteTypes => e.what \in WfPhases}
WfPcs ==
    {"idle", "prepare", "starting", "started", "resuming", "resumed", "run", "waiting", "check",
     "approval", "complete", "final", "finalize", "decide", "unblock", "revise", "advance", "recheck", "return", "rerun",
     "continue", "approve", "follow", "skip", "answer", "block"}
WfStatuses == {"none", "active", "blocked", "completed"}
WfCallRecords ==
    [pc : WfPcs, drafts : Seq(WfDrafts), phase : WfPhases \cup {0},
     outcome : {"completed", "canceled", "pending"} \cup FailureCodes \cup WfStatuses, again : Nat,
     recovery : BOOLEAN]

WfFacts == WfPhases \X {"output", "small", "approval", "pass"}
WfStateShape ==
    /\ wfState \in [status : WfStatuses, phase : WfPhases \cup {0}]
    /\ (wfState.phase = 0 <=> wfState.status = "none")
WfCountShape ==
    /\ wfFacts \subseteq WfFacts
    /\ wfFailed \in [WfPhases -> Nat] /\ wfStops \in [DOMAIN WfRetry -> Nat]
    /\ wfQuestions \in Nat
    /\ wfPassed \subseteq WfPhases

\* The drafts of a start are all that a call that starts has; nobody else starts.
WfStart == <<Moved("started", 1), Moved("phase_started", 1)>>
WfStartsWell(call) ==
    (\E i \in 1 .. Len(call.drafts) : call.drafts[i].type = "started")
        => call.pc = "started" /\ call.drafts = WfStart
WfBound == {"run", "waiting", "check", "approval", "skip", "answer", "resuming"}
WfFits(call) ==
    /\ call \in WfCallRecords /\ WfStartsWell(call)
    /\ call.pc \in WfBound => call.phase \in WfPhases
    /\ call.pc = "skip" => call.phase \in DOMAIN WfSkipTo

\* Before the first workflow starts.
WfUnstarted(call) ==
    /\ call.pc \in {"idle", "prepare", "starting", "started"}
    /\ IF call.pc = "started" THEN call.drafts = WfStart ELSE call.drafts = <<>>

(* What a call has decided, and the phase its turn is in, are earned: a decision  *)
(* counts the phases that it leads past itself.                                   *)
WfDecides(e) == e.type \notin {"started", "evidence"}
EarnedBy(e) == \A q \in WfPhases : q < e.phase => Complete(q) \/ q \in wfPassed \/ q \in PassedBy(e)
WfInPhase == {"run", "waiting", "check", "approval"}
WfCallEarned(call) ==
    /\ \A i \in 1 .. Len(call.drafts) : WfDecides(call.drafts[i]) => EarnedBy(call.drafts[i])
    /\ call.pc \in WfInPhase => Earned(call.phase)

WfGood(call) ==
    /\ WfFits(call)
    /\ wfState.status = "none" => WfUnstarted(call)
    /\ wfClean => WfCallEarned(call)
WfInv ==
    /\ WfStateShape /\ WfCountShape
    /\ wfState.status = "none" => wfQuestions = 0
    /\ wfClean => Earned(wfState.phase)
    /\ DOMAIN wfCall = WfCalls /\ wfCall = [c \in WfCalls |-> wfCall[c]]
    /\ \A c \in WfCalls : WfGood(wfCall[c])

------------------------------------------------------------------------------
(* What is earned.                                                                *)

LEMMA WfPhasesAre == WfPhases = 1 .. Len(WfTypes) /\ Len(WfTypes) \in Nat /\ 1 \in WfPhases
  BY WfAssumption DEF WfPhases

LEMMA WfEarnedFirst == Earned(1) /\ Earned(0)
  BY WfPhasesAre DEF Earned

(* Evidence is only added while a workflow lasts.                                 *)
LEMMA WfEarnedStays ==
    ASSUME wfFacts \subseteq wfFacts', \A p \in WfPhases : wfFailed[p] > 0 => wfFailed'[p] > 0,
           wfPassed \subseteq wfPassed'
    PROVE  (\A p : Earned(p) => Earned(p)') /\ (\A e : EarnedBy(e) => EarnedBy(e)')
<1>1. \A q \in WfPhases : Complete(q) => Complete(q)'
  BY DEF Complete
<1>2. ASSUME NEW p, Earned(p) PROVE Earned(p)'
  BY <1>1, <1>2 DEF Earned
<1>3. ASSUME NEW e, EarnedBy(e) PROVE EarnedBy(e)'
  BY <1>1, <1>3 DEF EarnedBy, PassedBy
<1> QED
  BY <1>2, <1>3

LEMMA WfEarnedSame ==
    ASSUME UNCHANGED <<wfFacts, wfFailed, wfPassed>>
    PROVE  (\A p : Earned(p)' = Earned(p)) /\ (\A e : EarnedBy(e)' = EarnedBy(e))
  BY DEF Earned, EarnedBy, Complete, PassedBy

------------------------------------------------------------------------------
(* Calls that go on.                                                              *)

WfMoves(c) == \E call : WfGood(call) /\ wfCall' = [wfCall EXCEPT ![c] = call]
WfKeeps ==
    /\ UNCHANGED <<wfState, wfFacts, wfFailed, wfStops, wfPassed, wfClean>>
    /\ wfQuestions' \in Nat /\ (wfState.status = "none" => wfQuestions' = 0)

LEMMA WfStays ==
    ASSUME WfInv, NEW c \in WfCalls, WfMoves(c), WfKeeps
    PROVE  WfInv'
<1>1. PICK call : WfGood(call) /\ wfCall' = [wfCall EXCEPT ![c] = call]
  BY DEF WfMoves
<1>2. ASSUME NEW x, WfGood(x) PROVE WfGood(x)'
  <2>1. (\A p : Earned(p)' = Earned(p)) /\ (\A e : EarnedBy(e)' = EarnedBy(e))
    BY WfEarnedSame DEF WfKeeps
  <2> QED
    BY <1>2, <2>1 DEF WfGood, WfFits, WfStartsWell, WfUnstarted, WfCallEarned, WfKeeps
<1>3. DOMAIN wfCall' = WfCalls /\ wfCall' = [d \in WfCalls |-> wfCall'[d]]
  BY <1>1 DEF WfInv
<1>4. \A d \in WfCalls : wfCall'[d] = IF d = c THEN call ELSE wfCall[d]
  BY <1>1 DEF WfInv
<1>5. \A d \in WfCalls : WfGood(wfCall'[d])
  BY <1>1, <1>4 DEF WfInv
<1>6. PICK calls : calls = wfCall'
  OBVIOUS
<1>7. \A d \in WfCalls : WfGood(calls[d])'
  BY <1>2, <1>5, <1>6
<1>8. WfStateShape' /\ WfCountShape'
  BY DEF WfInv, WfKeeps, WfStateShape, WfCountShape
<1>9. wfClean' => Earned(wfState.phase)'
  BY DEF WfInv, WfKeeps, Earned, Complete
<1> QED
  BY <1>3, <1>6, <1>7, <1>8, <1>9 DEF WfInv, WfKeeps

(* What a call may decide.                                                        *)
WfDraftGood(e) ==
    /\ e \in WfDrafts /\ e.type # "started"
    /\ wfClean /\ WfDecides(e) => EarnedBy(e)
WfDecided(drafts) == drafts \in Seq(WfDrafts) /\ \A i \in 1 .. Len(drafts) : WfDraftGood(drafts[i])

LEMMA WfDecidedLists ==
    /\ WfDecided(<<>>)
    /\ \A e : WfDraftGood(e) => WfDecided(<<e>>)
    /\ \A e, f : WfDraftGood(e) /\ WfDraftGood(f) => WfDecided(<<e, f>>)
<1>1. WfDecided(<<>>)
  BY DEF WfDecided
<1>2. ASSUME NEW e, WfDraftGood(e) PROVE WfDecided(<<e>>)
  BY <1>2 DEF WfDecided, WfDraftGood
<1>3. ASSUME NEW e, NEW f, WfDraftGood(e), WfDraftGood(f) PROVE WfDecided(<<e, f>>)
  <2>1. e \in WfDrafts /\ f \in WfDrafts
    BY <1>3 DEF WfDraftGood
  <2>2. <<e, f>> \in Seq(WfDrafts) /\ Len(<<e, f>>) = 2
    BY <2>1
  <2> QED
    BY <1>3, <2>2 DEF WfDecided
<1> QED
  BY <1>1, <1>2, <1>3

LEMMA WfEvidenceGood ==
    ASSUME NEW p \in WfPhases, NEW what \in WfEvidences
    PROVE  WfDraftGood(Evidence(p, what))
  BY DEF WfDraftGood, Evidence, Draft, WfDrafts, WfTypesOfDraft, WfRouteTypes, WfDecides

LEMMA WfMovedGood ==
    ASSUME NEW p \in WfPhases, NEW type \in WfMoveTypes, wfClean => Earned(p)
    PROVE  WfDraftGood(Moved(type, p))
<1>1. Moved(type, p).type = type /\ Moved(type, p).phase = p /\ Moved(type, p).what = 0
  BY DEF Moved, Draft
<1>2. Moved(type, p) \in WfDrafts
  BY DEF Moved, Draft, WfDrafts, WfTypesOfDraft, WfMoveTypes, WfRouteTypes
<1> QED
  BY <1>1, <1>2 DEF WfDraftGood, EarnedBy, Earned, WfMoveTypes

LEMMA WfAdvancedIs ==
    ASSUME NEW p \in WfPhases, NEW to \in WfPhases, NEW type \in WfRouteTypes \cup {"advanced"}
    PROVE  /\ Advanced(type, p, to) \in WfDrafts
           /\ Advanced(type, p, to).type = type /\ Advanced(type, p, to).phase = to
           /\ Advanced(type, p, to).what = p
  BY DEF Advanced, Draft, WfDrafts, WfTypesOfDraft, WfRouteTypes

(* A phase is left with its evidence, or by a transition that asks for none.      *)
LEMMA WfAdvancedGood ==
    ASSUME NEW p \in WfPhases, NEW to \in WfPhases, NEW type \in WfRouteTypes \cup {"advanced"},
           type = "advanced" => to = p + 1, type \in {"advanced", "skipped"} => Complete(p),
           wfClean => Earned(p)
    PROVE  WfDraftGood(Advanced(type, p, to))
<1> DEFINE e == Advanced(type, p, to)
<1>1. e \in WfDrafts /\ e.type = type /\ e.phase = to /\ e.what = p
  BY WfAdvancedIs
<1>2. p \in Nat /\ to \in Nat /\ WfPhases \subseteq Nat
  BY WfPhasesAre
<1> HIDE DEF e
<1>3. ASSUME wfClean, NEW q \in WfPhases, q < to PROVE Complete(q) \/ q \in wfPassed \/ q \in PassedBy(e)
  <2>1. CASE q < p
    BY <1>3, <2>1 DEF Earned
  <2>2. CASE q = p
    <3>1. type \in {"routed", "revised"} => PassedBy(e) = p .. to - 1
      BY <1>1 DEF PassedBy
    <3> QED
      BY <1>2, <1>3, <2>2, <3>1 DEF WfRouteTypes
  <2>3. CASE q > p
    <3>1. type # "advanced"
      BY <1>2, <1>3, <2>3
    <3>2. PassedBy(e) = p .. to - 1 \/ PassedBy(e) = p + 1 .. to - 1
      BY <1>1, <3>1 DEF PassedBy, WfRouteTypes
    <3> QED
      BY <1>2, <1>3, <2>3, <3>2
  <2> QED
    BY <1>2, <2>1, <2>2, <2>3
<1>4. wfClean => EarnedBy(e)
  BY <1>1, <1>3 DEF EarnedBy
<1>5. WfDraftGood(e)
  BY <1>1, <1>4 DEF WfDraftGood, WfRouteTypes
<1> QED
  BY <1>5 DEF e

LEMMA WfRevisedGood ==
    ASSUME NEW p \in DOMAIN WfRevision, wfClean => Earned(p)
    PROVE  WfDraftGood(RevisedTo(p))
<1>1. p \in WfPhases /\ WfRevision[p].to \in WfPhases
  BY WfAssumption
<1> QED
  BY <1>1, WfAdvancedGood DEF RevisedTo, WfRouteTypes

LEMMA WfNow ==
    ASSUME WfInv, wfState.status # "none"
    PROVE  wfState.phase \in WfPhases /\ (wfClean => Earned(wfState.phase))
  BY DEF WfInv, WfStateShape

LEMMA WfCallIs ==
    ASSUME WfInv, NEW c \in WfCalls
    PROVE  /\ wfCall[c] \in WfCallRecords
           /\ wfCall[c].pc \in WfBound => wfCall[c].phase \in WfPhases
           /\ wfCall[c].pc = "skip" => wfCall[c].phase \in DOMAIN WfSkipTo
           /\ wfClean /\ wfCall[c].pc \in WfInPhase => Earned(wfCall[c].phase)
           /\ wfCall[c].pc \notin {"idle", "prepare", "starting"} /\ wfCall[c].drafts = <<>>
                 => wfState.status # "none"
<1>1. WfStart # <<>>
  BY DEF WfStart
<1> QED
  BY <1>1 DEF WfInv, WfGood, WfFits, WfCallEarned, WfUnstarted

(* A call is good whose decisions are and that is in a phase it may run.          *)
LEMMA WfGoodCall ==
    ASSUME NEW call \in WfCallRecords, WfDecided(call.drafts),
           call.pc \in WfBound => call.phase \in WfPhases,
           call.pc = "skip" => call.phase \in DOMAIN WfSkipTo,
           wfClean /\ call.pc \in WfInPhase => Earned(call.phase),
           wfState.status = "none" => WfUnstarted(call)
    PROVE  WfGood(call)
<1>1. WfStartsWell(call)
  BY DEF WfStartsWell, WfDecided, WfDraftGood
<1>2. wfClean => WfCallEarned(call)
  BY DEF WfCallEarned, WfDecided, WfDraftGood
<1> QED
  BY <1>1, <1>2 DEF WfGood, WfFits

LEMMA WfIdle ==
    /\ IdleWfCall \in WfCallRecords /\ IdleWfCall.pc = "idle" /\ IdleWfCall.drafts = <<>>
    /\ WfGood(IdleWfCall)
<1>1. IdleWfCall \in WfCallRecords /\ IdleWfCall.pc = "idle" /\ IdleWfCall.drafts = <<>>
  <2>1. <<>> \in Seq(WfDrafts)
    OBVIOUS
  <2> QED
    BY <2>1 DEF IdleWfCall, WfCallRecords, WfPcs, WfStatuses
<1>2. WfUnstarted(IdleWfCall)
  BY <1>1 DEF WfUnstarted
<1>3. WfGood(IdleWfCall)
  BY <1>1, <1>2, WfDecidedLists, WfGoodCall DEF WfBound, WfInPhase
<1> QED
  BY <1>1, <1>3

LEMMA WfFails == ASSUME NEW c, Fails(c) PROVE WfMoves(c)
  BY WfIdle DEF Fails, WfMoves

LEMMA WfDrafted ==
    ASSUME WfInv, NEW c \in WfCalls, NEW pc \in WfPcs, NEW drafts, Drafted(c, pc, drafts), WfDecided(drafts),
           pc \in WfBound => wfCall[c].phase \in WfPhases,
           pc = "skip" => wfCall[c].phase \in DOMAIN WfSkipTo,
           wfClean /\ pc \in WfInPhase => Earned(wfCall[c].phase),
           wfState.status = "none" => pc \in {"idle", "prepare", "starting"} /\ drafts = <<>>
    PROVE  WfMoves(c)
<1> DEFINE call == [wfCall[c] EXCEPT !.pc = pc, !.drafts = drafts]
<1>1. wfCall[c] \in WfCallRecords
  BY WfCallIs
<1>2. drafts \in Seq(WfDrafts)
  BY DEF WfDecided
<1>3. call \in WfCallRecords /\ call.pc = pc /\ call.drafts = drafts /\ call.phase = wfCall[c].phase
  BY <1>1, <1>2 DEF WfCallRecords
<1>4. wfCall' = [wfCall EXCEPT ![c] = call]
  BY DEF Drafted
<1> HIDE DEF call
<1>5. WfGood(call)
  BY <1>3, WfGoodCall DEF WfUnstarted
<1> QED
  BY <1>4, <1>5 DEF WfMoves

(* A result goes back to the caller, or a second time into the decision.          *)
LEMMA WfBackGood ==
    ASSUME WfInv, wfState.status # "none", NEW call \in WfCallRecords, NEW drafts, WfDecided(drafts)
    PROVE  WfGood(BackWith(call, drafts))
<1>1. drafts \in Seq(WfDrafts)
  BY DEF WfDecided
<1>2. CASE call.again = 0
  <2> DEFINE new == [IdleWfCall EXCEPT !.drafts = drafts]
  <2>1. new \in WfCallRecords /\ new.pc = "idle" /\ new.drafts = drafts
    BY <1>1, WfIdle DEF WfCallRecords
  <2>2. BackWith(call, drafts) = new
    BY <1>2 DEF BackWith
  <2> HIDE DEF new
  <2>3. WfGood(new)
    BY <2>1, WfGoodCall DEF WfBound, WfInPhase
  <2> QED
    BY <2>2, <2>3
<1>3. CASE call.again # 0
  <2> DEFINE new == [call EXCEPT !.pc = "decide", !.drafts = drafts, !.again = @ - 1, !.recovery = FALSE]
  <2>1. call.again - 1 \in Nat
    BY <1>3 DEF WfCallRecords
  <2>2. new \in WfCallRecords /\ new.pc = "decide" /\ new.drafts = drafts
    BY <1>1, <2>1 DEF WfCallRecords, WfPcs
  <2>3. BackWith(call, drafts) = new
    BY <1>3 DEF BackWith
  <2> HIDE DEF new
  <2>4. WfGood(new)
    BY <2>2, WfGoodCall DEF WfBound, WfInPhase
  <2> QED
    BY <2>3, <2>4
<1> QED
  BY <1>2, <1>3

LEMMA WfBack ==
    ASSUME WfInv, NEW c \in WfCalls, wfState.status # "none", NEW drafts, WfDecided(drafts), Back(c, drafts)
    PROVE  WfMoves(c)
<1>1. WfGood(BackWith(wfCall[c], drafts))
  BY WfCallIs, WfBackGood
<1>2. wfCall' = [wfCall EXCEPT ![c] = BackWith(wfCall[c], drafts)]
  BY DEF Back
<1> QED
  BY <1>1, <1>2 DEF WfMoves

LEMMA WfGivesUp ==
    ASSUME wfState.status # "none", NEW c, NEW drafts, WfDecided(drafts), GivesUp(c, drafts)
    PROVE  WfMoves(c)
<1> DEFINE new == [IdleWfCall EXCEPT !.drafts = drafts]
<1>1. drafts \in Seq(WfDrafts)
  BY DEF WfDecided
<1>2. new \in WfCallRecords /\ new.pc = "idle" /\ new.drafts = drafts
  BY <1>1, WfIdle DEF WfCallRecords
<1>3. wfCall' = [wfCall EXCEPT ![c] = new]
  BY DEF GivesUp
<1> HIDE DEF new
<1>4. WfGood(new)
  BY <1>2, WfGoodCall DEF WfBound, WfInPhase
<1> QED
  BY <1>3, <1>4 DEF WfMoves

(* Its turn waits.                                                                *)
LEMMA WfWaits ==
    ASSUME WfInv, wfState.status # "none", NEW c \in WfCalls, wfCall[c].pc \in {"run", "check"},
           NEW drafts, WfDecided(drafts), WaitsWith(c, drafts)
    PROVE  WfMoves(c)
<1> DEFINE new == [wfCall[c] EXCEPT !.pc = "waiting", !.again = 0, !.drafts = drafts]
<1>1. drafts \in Seq(WfDrafts) /\ wfCall[c] \in WfCallRecords
  BY WfCallIs DEF WfDecided
<1>2. new \in WfCallRecords /\ new.pc = "waiting" /\ new.drafts = drafts /\ new.phase = wfCall[c].phase
  BY <1>1 DEF WfCallRecords, WfPcs
<1>3. wfCall' = [wfCall EXCEPT ![c] = new]
  BY DEF WaitsWith
<1>4. wfCall[c].phase \in WfPhases /\ (wfClean => Earned(wfCall[c].phase))
  BY WfCallIs DEF WfBound, WfInPhase
<1> HIDE DEF new
<1>5. WfGood(new)
  BY <1>2, <1>4, WfGoodCall
<1> QED
  BY <1>3, <1>5 DEF WfMoves

(* Another turn of the call.                                                      *)
LEMMA WfRunsNext ==
    ASSUME NEW c, NEW call \in WfCallRecords, RunsNext(c, call)
    PROVE  WfMoves(c)
<1> DEFINE new == [call EXCEPT !.pc = "prepare", !.drafts = <<>>]
<1>1. <<>> \in Seq(WfDrafts)
  OBVIOUS
<1>2. new \in WfCallRecords /\ new.pc = "prepare" /\ new.drafts = <<>>
  BY <1>1 DEF WfCallRecords, WfPcs
<1>3. wfCall' = [wfCall EXCEPT ![c] = new]
  BY DEF RunsNext
<1> HIDE DEF new
<1>4. WfGood(new)
  BY <1>2, WfDecidedLists, WfGoodCall DEF WfBound, WfInPhase, WfUnstarted
<1> QED
  BY <1>3, <1>4 DEF WfMoves

LEMMA WfBoundTo ==
    ASSUME WfInv, wfState.status # "none", NEW c \in WfCalls, NEW drafts, WfDecided(drafts), BoundTo(c, drafts)
    PROVE  WfMoves(c)
<1> DEFINE new == [wfCall[c] EXCEPT !.pc = PcOfType(TypeNow), !.drafts = drafts, !.phase = wfState.phase]
<1>1. drafts \in Seq(WfDrafts) /\ wfCall[c] \in WfCallRecords
  BY WfCallIs DEF WfDecided
<1>2. PcOfType(TypeNow) \in WfPcs /\ PcOfType(TypeNow) # "skip"
  BY DEF PcOfType, WfPcs
<1>3. wfState.phase \in WfPhases /\ (wfClean => Earned(wfState.phase))
  BY WfNow
<1>4. new \in WfCallRecords /\ new.drafts = drafts /\ new.phase = wfState.phase /\ new.pc # "skip"
  BY <1>1, <1>2, <1>3, ZenonT(60) DEF WfCallRecords
<1>5. wfCall' = [wfCall EXCEPT ![c] = new]
  BY DEF BoundTo
<1> HIDE DEF new
<1>6. WfGood(new)
  BY <1>3, <1>4, WfGoodCall
<1> QED
  BY <1>5, <1>6 DEF WfMoves

------------------------------------------------------------------------------
(* Every step.                                                                    *)

LEMMA WfKept ==
    ASSUME WfInv, UNCHANGED WfShared, UNCHANGED wfQuestions
    PROVE  WfKeeps
  BY DEF WfInv, WfKeeps, WfShared, WfCountShape

LEMMA WfTurnMoves ==
    ASSUME WfInv, NEW c \in WfCalls, WfTurn(c)
    PROVE  WfMoves(c) /\ WfKeeps
<1>1. WfKeeps
  BY WfKept DEF WfTurn, UserMessage, Prepare, StartWorkflow, Started, ResumeWorkflow, Resumed, ResumeCommand,
                RecordResult, EndPhaseTurn, CancelTurn, PendTurn, AnswerTurn, RunChecks
<1> SUFFICES WfMoves(c)
  BY <1>1
<1>2. /\ wfCall[c] \in WfCallRecords
      /\ wfCall[c].pc \in WfBound => wfCall[c].phase \in WfPhases
      /\ wfClean /\ wfCall[c].pc \in WfInPhase => Earned(wfCall[c].phase)
      /\ wfCall[c].pc \notin {"idle", "prepare", "starting"} /\ wfCall[c].drafts = <<>>
            => wfState.status # "none"
  BY WfCallIs
<1>3. wfState.status # "none" => wfState.phase \in WfPhases /\ (wfClean => Earned(wfState.phase))
  BY WfNow
<1>4. CASE UserMessage(c)
  BY <1>4, WfIdle, WfRunsNext DEF UserMessage
<1>5. wfState.status # "none" => WfDecided(PhaseStarted)
  BY <1>3, WfMovedGood, WfDecidedLists DEF PhaseStarted, WfMoveTypes
<1>6. ASSUME wfState.status # "none",
             wfCall' = [wfCall EXCEPT ![c] = [wfCall[c] EXCEPT !.pc = "resuming", !.phase = wfState.phase]],
             wfCall[c].drafts = <<>>
      PROVE  WfMoves(c)
  <2> DEFINE new == [wfCall[c] EXCEPT !.pc = "resuming", !.phase = wfState.phase]
  <2>1. new \in WfCallRecords /\ new.pc = "resuming" /\ new.phase = wfState.phase /\ new.drafts = <<>>
    BY <1>2, <1>3, <1>6 DEF WfCallRecords, WfPcs
  <2>2. wfCall' = [wfCall EXCEPT ![c] = new]
    BY <1>6
  <2> HIDE DEF new
  <2>3. WfGood(new)
    BY <1>3, <1>6, <2>1, WfDecidedLists, WfGoodCall
  <2> QED
    BY <2>2, <2>3 DEF WfMoves
<1>7. CASE Prepare(c)
  <2>1. CASE wfState.status = "active"
    BY <1>5, <1>7, <2>1, WfBoundTo DEF Prepare
  <2>2. CASE wfState.status = "blocked"
    BY <1>6, <1>7, <2>2 DEF Prepare, WfAt
  <2>3. CASE wfState.status \notin {"active", "blocked"}
    <3>1. GoOn(c, "starting")
      BY <1>7, <2>3 DEF Prepare
    <3> QED
      BY <3>1, WfDecidedLists, WfDrafted DEF GoOn, WfPcs, WfBound, WfInPhase
  <2> QED
    BY <2>1, <2>2, <2>3
<1>8. CASE StartWorkflow(c)
  <2>1. CASE Live
    BY <1>8, <2>1, WfFails DEF StartWorkflow
  <2>2. CASE ~Live
    <3> DEFINE new == [wfCall[c] EXCEPT !.pc = "started", !.drafts = WfStart]
    <3>1. WfStart \in Seq(WfDrafts)
      <4>1. Moved("started", 1) \in WfDrafts /\ Moved("phase_started", 1) \in WfDrafts
        BY WfPhasesAre DEF Moved, Draft, WfDrafts, WfTypesOfDraft, WfMoveTypes, WfRouteTypes
      <4> QED
        BY <4>1 DEF WfStart
    <3>2. new \in WfCallRecords /\ new.pc = "started" /\ new.drafts = WfStart
      BY <1>2, <3>1 DEF WfCallRecords, WfPcs
    <3>3. wfCall' = [wfCall EXCEPT ![c] = new]
      BY <1>8, <2>2 DEF StartWorkflow, Drafted, WfStart
    <3> HIDE DEF new
    <3>4. WfFits(new) /\ WfUnstarted(new)
      BY <3>2 DEF WfFits, WfStartsWell, WfUnstarted, WfBound, WfInPhase
    <3>5. WfCallEarned(new)
      <4>1. \A i \in 1 .. Len(WfStart) : WfStart[i].phase = 1
        BY DEF WfStart, Moved, Draft
      <4>2. \A q \in WfPhases : ~(q < 1)
        BY WfPhasesAre
      <4> QED
        BY <3>2, <4>1, <4>2 DEF WfCallEarned, EarnedBy, WfInPhase
    <3> QED
      BY <3>3, <3>4, <3>5 DEF WfGood, WfMoves
  <2> QED
    BY <2>1, <2>2
<1>9. CASE Started(c)
  <2>1. wfState.status # "none"
    BY <1>2, <1>9 DEF Started, WfAt
  <2>2. CASE wfState.status = "active"
    BY <1>9, <2>2, WfDecidedLists, WfBoundTo DEF Started
  <2>3. CASE wfState.status = "blocked"
    BY <1>6, <1>9, <2>3 DEF Started, WfAt
  <2>4. CASE wfState.status \notin {"active", "blocked"}
    BY <1>9, <2>4, WfFails DEF Started
  <2> QED
    BY <2>2, <2>3, <2>4
<1>10. wfState.status # "none" => WfDecided(<<Moved("resumed", wfState.phase)>>)
  BY <1>3, WfMovedGood, WfDecidedLists DEF WfMoveTypes
<1>11. CASE ResumeWorkflow(c)
  <2>1. CASE wfState.status = "blocked" /\ wfState.phase = wfCall[c].phase
    <3>1. Drafted(c, "resumed", <<Moved("resumed", wfState.phase)>>)
      BY <1>11, <2>1 DEF ResumeWorkflow
    <3> QED
      BY <1>10, <2>1, <3>1, WfDrafted DEF WfPcs, WfBound, WfInPhase
  <2>2. CASE ~(wfState.status = "blocked" /\ wfState.phase = wfCall[c].phase)
    BY <1>11, <2>2, WfFails DEF ResumeWorkflow
  <2> QED
    BY <2>1, <2>2
<1>12. CASE Resumed(c)
  BY <1>2, <1>5, <1>12, WfBoundTo DEF Resumed, WfAt
<1>13. CASE ResumeCommand(c)
  BY <1>10, <1>13, WfDrafted DEF ResumeCommand, WfPcs, WfBound, WfInPhase
<1>14. CASE RecordResult(c)
  <2>1. PICK results \in ResultsOf(wfState.phase) : Drafted(c, "run", results)
    BY <1>14 DEF RecordResult
  <2>2. wfState.status = "active" /\ wfCall[c].pc = "run"
    BY <1>14 DEF RecordResult, WfAt
  <2>3. PICK p \in WfPhases : p = wfState.phase /\ (wfClean => Earned(p))
    BY <1>3, <2>2
  <2>4. \A what \in {"output", "small", "pass", "fail"} : WfDraftGood(Evidence(p, what))
    BY WfEvidenceGood DEF WfEvidences
  <2>5. WfDraftGood(Moved("blocked", p))
    BY <2>3, WfMovedGood DEF WfMoveTypes
  <2>6. WfDecided(results)
    BY <2>1, <2>3, <2>4, <2>5, WfDecidedLists DEF ResultsOf
  <2> QED
    BY <1>2, <2>1, <2>2, <2>6, WfDrafted DEF WfPcs, WfBound, WfInPhase
<1>15. CASE EndPhaseTurn(c)
  <2>1. PICK outcome \in {"completed"} \cup WfFailures :
           wfCall' = [wfCall EXCEPT ![c] = [wfCall[c] EXCEPT !.pc = "finalize", !.outcome = outcome]]
    BY <1>15 DEF EndPhaseTurn
  <2> DEFINE new == [wfCall[c] EXCEPT !.pc = "finalize", !.outcome = outcome]
  <2>2. wfCall[c].pc = "run" /\ wfCall[c].drafts = <<>>
    BY <1>15 DEF EndPhaseTurn, WfAt
  <2>3. new \in WfCallRecords /\ new.pc = "finalize" /\ new.drafts = <<>>
    BY <1>2, <2>2, WfAssumption DEF WfCallRecords, WfPcs
  <2>4. wfCall' = [wfCall EXCEPT ![c] = new]
    BY <2>1
  <2> HIDE DEF new
  <2>5. WfGood(new)
    BY <1>2, <2>2, <2>3, WfDecidedLists, WfGoodCall DEF WfBound, WfInPhase
  <2> QED
    BY <2>4, <2>5 DEF WfMoves
<1>16. CASE CancelTurn(c)
  <2> DEFINE new == [wfCall[c] EXCEPT !.outcome = "canceled"]
  <2>1. new \in WfCallRecords
    BY <1>2 DEF WfCallRecords
  <2>2. wfCall' = [wfCall EXCEPT ![c] = BackWith(new, <<>>)]
    BY <1>16 DEF CancelTurn
  <2> HIDE DEF new
  <2>3. wfState.status # "none"
    BY <1>2, <1>16 DEF CancelTurn, WfAt
  <2> QED
    BY <2>1, <2>2, <2>3, WfDecidedLists, WfBackGood DEF WfMoves
<1>17. CASE PendTurn(c)
  BY <1>2, <1>17, WfDecidedLists, WfWaits DEF PendTurn, WfAt
<1>18. CASE AnswerTurn(c)
  <2>1. wfCall[c].pc = "waiting" /\ wfCall[c].drafts = <<>> /\ Drafted(c, "run", <<>>)
    BY <1>18, SMTT(60) DEF AnswerTurn, WfAt, GoOn
  <2> QED
    BY <1>2, <2>1, WfDecidedLists, WfDrafted, SMTT(60) DEF WfPcs, WfBound, WfInPhase
<1>19. CASE RunChecks(c)
  <2>1. wfCall[c].pc = "check" /\ wfCall[c].drafts = <<>> /\ wfState.status # "none"
    BY <1>2, <1>19 DEF RunChecks, WfAt
  <2>2. PICK p \in WfPhases : p = wfCall[c].phase /\ (wfClean => Earned(p))
    BY <1>2, <2>1 DEF WfBound, WfInPhase
  <2>3. ASSUME NEW pc \in {"advance", "recheck"}, NEW drafts, WfDecided(drafts),
               wfCall' = [wfCall EXCEPT ![c] = [wfCall[c] EXCEPT !.pc = pc, !.outcome = "completed",
                                                                 !.drafts = drafts]]
        PROVE  WfMoves(c)
    <3> DEFINE new == [wfCall[c] EXCEPT !.pc = pc, !.outcome = "completed", !.drafts = drafts]
    <3>1. new \in WfCallRecords /\ new.pc = pc /\ new.drafts = drafts
      BY <1>2, <2>3 DEF WfCallRecords, WfPcs, WfDecided
    <3>2. wfCall' = [wfCall EXCEPT ![c] = new]
      BY <2>3
    <3> HIDE DEF new
    <3>3. WfGood(new)
      BY <1>2, <2>1, <2>3, <3>1, WfGoodCall DEF WfBound, WfInPhase
    <3> QED
      BY <3>2, <3>3 DEF WfMoves
  <2>4. /\ WfDraftGood(Evidence(p, "pass")) /\ WfDraftGood(Evidence(p, "fail"))
        /\ WfDraftGood(Moved("blocked", p))
    BY <2>2, WfEvidenceGood, WfMovedGood DEF WfMoveTypes, WfEvidences
  <2>5. /\ WfDecided(<<>>) /\ WfDecided(<<Evidence(p, "pass")>>)
        /\ WfDecided(<<Evidence(p, "fail"), Moved("blocked", p)>>)
    BY <2>4, WfDecidedLists
  <2>6. ASSUME NEW passed \in {<<>>, <<Evidence(p, "pass")>>}
        PROVE  WfDecided(passed) /\ WfDecided(passed \o <<Evidence(p, "fail"), Moved("blocked", p)>>)
    <3> DEFINE failed == <<Evidence(p, "fail"), Moved("blocked", p)>>
    <3>1. passed \in Seq(WfDrafts) /\ failed \in Seq(WfDrafts)
      BY <2>5 DEF WfDecided
    <3>2. Len(failed) = 2
      OBVIOUS
    <3>3. \A i \in 1 .. Len(passed) : WfDraftGood(passed[i])
      BY <2>5 DEF WfDecided
    <3>4. \A i \in 1 .. Len(failed) : WfDraftGood(failed[i])
      BY <2>5 DEF WfDecided
    <3> HIDE DEF failed
    <3>5. /\ passed \o failed \in Seq(WfDrafts)
          /\ \A i \in 1 .. Len(passed \o failed) : WfDraftGood((passed \o failed)[i])
      BY <3>1, <3>3, <3>4
    <3>6. WfDecided(passed \o failed)
      BY <3>5 DEF WfDecided
    <3> QED
      BY <2>5, <3>6 DEF failed
  <2>7. ASSUME NEW drafts, WfDecided(drafts), WaitsWith(c, drafts) PROVE WfMoves(c)
    BY <2>1, <2>7, WfWaits
  <2>8. ASSUME NEW drafts, WfDecided(drafts), GivesUp(c, drafts) PROVE WfMoves(c)
    BY <2>1, <2>8, WfGivesUp
  <2> QED
    BY <1>19, <2>2, <2>3, <2>5, <2>6, <2>7, <2>8, WfFails DEF RunChecks
<1> QED
  BY <1>4, <1>7, <1>8, <1>9, <1>11, <1>12, <1>13, <1>14, <1>15, <1>16, <1>17, <1>18, <1>19, SMTT(60) DEF WfTurn

LEMMA WfOutcomeMoves ==
    ASSUME WfInv, NEW c \in WfCalls, WfOutcome(c)
    PROVE  WfMoves(c) /\ WfKeeps
<1>1. WfKeeps
  BY WfKept, SMTT(60) DEF WfOutcome, Finalize, ApplyTurnResult, DecideCompleted, RecoverOutput, Revise, EndRevision,
                AdvanceWorkflow, ContinueWorkflow, StopContinuing, CompleteWorkflow
<1> SUFFICES WfMoves(c)
  BY <1>1
<1>2. wfCall[c] \in WfCallRecords
  BY WfCallIs
<1>3. wfState.status # "none"
  <2>1. wfCall[c].pc \notin {"idle", "prepare", "starting"} /\ wfCall[c].drafts = <<>>
    BY DEF WfOutcome, Finalize, ApplyTurnResult, DecideCompleted, RecoverOutput, Revise, EndRevision,
           AdvanceWorkflow, ContinueWorkflow, StopContinuing, CompleteWorkflow, WfAt
  <2> QED
    BY <2>1, WfCallIs
<1>4. PICK p \in WfPhases : p = wfState.phase /\ (wfClean => Earned(p))
  BY <1>3, WfNow
<1>5. ASSUME NEW pc \in WfPcs \ WfBound, GoOn(c, pc) PROVE WfMoves(c)
  BY <1>3, <1>5, WfDecidedLists, WfDrafted DEF GoOn, WfBound, WfInPhase
<1>6. ASSUME NEW pc \in WfPcs \ WfBound, NEW e, WfDraftGood(e), Drafted(c, pc, <<e>>) PROVE WfMoves(c)
  BY <1>3, <1>6, WfDecidedLists, WfDrafted DEF WfBound, WfInPhase
<1>7. ASSUME Back(c, <<>>) PROVE WfMoves(c)
  BY <1>3, <1>7, WfDecidedLists, WfBack
<1>8. ASSUME NEW e, WfDraftGood(e), Back(c, <<e>>) PROVE WfMoves(c)
  BY <1>3, <1>8, WfDecidedLists, WfBack
<1>9. WfDraftGood(Moved("blocked", p)) /\ WfDraftGood(Moved("completed", p))
  BY <1>4, WfMovedGood DEF WfMoveTypes
<1>10. CASE Finalize(c)
  BY <1>5, <1>7, <1>10 DEF Finalize, WfPcs, WfBound, WfInPhase
<1>11. CASE ApplyTurnResult(c)
  <2>1. CASE Back(c, <<>>)
    BY <1>7, <2>1
  <2>2. CASE ~Back(c, <<>>)
    <3>1. PICK event \in Routes(p, wfCall[c].outcome) :
             \/ Back(c, <<Moved("blocked", p)>>)
             \/ Back(c, <<Evidence(p, event), Advanced("routed", p, WfRetry[<<p, event>>].to)>>)
             \/ Back(c, <<Advanced("routed", p, WfRetry[<<p, event>>].to)>>)
      BY <1>4, <1>11, <2>2 DEF ApplyTurnResult
    <3>2. PICK t \in DOMAIN WfRetry : t = <<p, event>>
      BY DEF Routes
    <3>3. event \in ResultEvents /\ WfRetry[t].to \in WfPhases
      BY <3>2, WfAssumption
    <3>4. WfDraftGood(Evidence(p, event)) /\ WfDraftGood(Advanced("routed", p, WfRetry[t].to))
      BY <1>4, <3>3, WfEvidenceGood, WfAdvancedGood DEF WfEvidences, WfRouteTypes
    <3>5. WfDecided(<<Evidence(p, event), Advanced("routed", p, WfRetry[t].to)>>)
      BY <3>4, WfDecidedLists
    <3> QED
      BY <1>3, <1>8, <1>9, <3>1, <3>2, <3>4, <3>5, WfBack
  <2> QED
    BY <2>1, <2>2
<1>12. CASE DecideCompleted(c)
  BY <1>5, <1>7, <1>12 DEF DecideCompleted, WfPcs, WfBound, WfInPhase
<1>13. CASE RecoverOutput(c)
  <2> DEFINE new == [wfCall[c] EXCEPT !.recovery = TRUE]
  <2>1. new \in WfCallRecords
    BY <1>2 DEF WfCallRecords
  <2>2. RunsNext(c, new)
    BY <1>13 DEF RecoverOutput
  <2> HIDE DEF new
  <2> QED
    BY <2>1, <2>2, WfRunsNext
<1>14. CASE Revise(c)
  <2>1. \/ Fails(c) \/ GoOn(c, "advance") \/ Back(c, <<>>)
        \/ Revises(p) /\ (Drafted(c, "return", <<RevisedTo(p)>>) \/ Drafted(c, "rerun", <<RevisedTo(p)>>))
    BY <1>4, <1>14 DEF Revise
  <2>2. Revises(p) => WfDraftGood(RevisedTo(p))
    BY <1>4, WfRevisedGood DEF Revises
  <2> QED
    BY <1>5, <1>6, <1>7, <2>1, <2>2, WfFails DEF WfPcs, WfBound, WfInPhase
<1>15. CASE EndRevision(c)
  BY <1>7, <1>15 DEF EndRevision
<1>16. CASE AdvanceWorkflow(c)
  <2>1. \/ Fails(c)
        \/ /\ p < Len(WfTypes) /\ MayLeave(p)
           /\ Drafted(c, "follow", <<Advanced("advanced", p, p + 1)>>)
              \/ Drafted(c, "continue", <<Advanced("advanced", p, p + 1)>>)
        \/ GivesUp(c, <<Moved("blocked", p)>>)
        \/ Back(c, <<Moved("blocked", p)>>)
    BY <1>4, <1>16 DEF AdvanceWorkflow
  <2>2. ASSUME p < Len(WfTypes), MayLeave(p) PROVE WfDraftGood(Advanced("advanced", p, p + 1))
    <3>1. p + 1 \in WfPhases
      BY <2>2, WfPhasesAre
    <3> QED
      BY <1>4, <2>2, <3>1, WfAdvancedGood DEF MayLeave
  <2> QED
    BY <1>3, <1>6, <1>8, <1>9, <2>1, <2>2, WfFails, WfGivesUp, WfDecidedLists DEF WfPcs, WfBound, WfInPhase
<1>17. CASE ContinueWorkflow(c)
  <2> DEFINE new == [wfCall[c] EXCEPT !.recovery = FALSE]
  <2>1. new \in WfCallRecords
    BY <1>2 DEF WfCallRecords
  <2>2. RunsNext(c, new)
    BY <1>17 DEF ContinueWorkflow
  <2> HIDE DEF new
  <2> QED
    BY <2>1, <2>2, WfRunsNext
<1>18. CASE StopContinuing(c)
  BY <1>5, <1>7, <1>18 DEF StopContinuing, WfPcs, WfBound, WfInPhase
<1>19. CASE CompleteWorkflow(c)
  <2> DEFINE new == [wfCall[c] EXCEPT !.outcome = "completed"]
  <2>1. new \in WfCallRecords
    BY <1>2 DEF WfCallRecords
  <2>2. \/ Fails(c) \/ Back(c, <<Moved("blocked", p)>>) \/ GivesUp(c, <<Moved("blocked", p)>>)
        \/ wfCall' = [wfCall EXCEPT ![c] = BackWith(new, <<Moved("completed", p)>>)]
    BY <1>4, <1>19 DEF CompleteWorkflow
  <2> HIDE DEF new
  <2>3. WfDecided(<<Moved("blocked", p)>>) /\ WfGood(BackWith(new, <<Moved("completed", p)>>))
    BY <1>3, <1>9, <2>1, WfDecidedLists, WfBackGood
  <2> QED
    BY <1>3, <1>8, <1>9, <2>2, <2>3, WfFails, WfGivesUp DEF WfMoves
<1> QED
  BY <1>10, <1>11, <1>12, <1>13, <1>14, <1>15, <1>16, <1>17, <1>18, <1>19 DEF WfOutcome

LEMMA WfApprovalMoves ==
    ASSUME WfInv, NEW c \in WfCalls, WfApproval(c)
    PROVE  WfMoves(c) /\ WfKeeps
<1>1. wfCall[c] \in WfCallRecords /\ (wfCall[c].pc \in WfBound => wfCall[c].phase \in WfPhases)
  BY WfCallIs
<1>2. wfState.status # "none"
  <2>1. CASE ReadAnswer(c)
    BY <2>1 DEF ReadAnswer, WfInv
  <2>2. CASE ~ReadAnswer(c)
    <3>1. wfCall[c].pc \notin {"idle", "prepare", "starting"} /\ wfCall[c].drafts = <<>>
      BY <2>2 DEF WfApproval, SkipApproval, AskPhase, AdvanceSkipped, FollowApproval, EndApproval,
                  AnswerQuestion, BlockWorkflow, WfAt
    <3> QED
      BY <3>1, WfCallIs
  <2> QED
    BY <2>1, <2>2
<1>3. PICK now \in WfPhases : now = wfState.phase /\ (wfClean => Earned(now))
  BY <1>2, WfNow
<1>4. WfKeeps
  <2>1. wfQuestions \in Nat
    BY DEF WfInv, WfCountShape
  <2> QED
    BY <1>2, <2>1 DEF WfApproval, SkipApproval, AskPhase, AdvanceSkipped, FollowApproval, EndApproval, ReadAnswer,
                      AnswerQuestion, BlockWorkflow, WfKeeps, WfShared
<1> SUFFICES WfMoves(c)
  BY <1>4
<1>5. ASSUME NEW pc \in WfPcs \ WfBound, NEW e, WfDraftGood(e), Drafted(c, pc, <<e>>) PROVE WfMoves(c)
  BY <1>2, <1>5, WfDecidedLists, WfDrafted DEF WfBound, WfInPhase
<1>6. WfDraftGood(Moved("blocked", now))
  BY <1>3, WfMovedGood DEF WfMoveTypes
<1>7. ASSUME GivesUp(c, <<Moved("blocked", now)>>) PROVE WfMoves(c)
  BY <1>2, <1>6, <1>7, WfDecidedLists, WfGivesUp
<1>8. ASSUME NEW outcome \in {"pending", "completed"},
             wfCall' = [wfCall EXCEPT ![c] = BackWith([wfCall[c] EXCEPT !.outcome = outcome], <<>>)]
      PROVE  WfMoves(c)
  <2> DEFINE new == [wfCall[c] EXCEPT !.outcome = outcome]
  <2>1. new \in WfCallRecords
    BY <1>1 DEF WfCallRecords
  <2>2. wfCall' = [wfCall EXCEPT ![c] = BackWith(new, <<>>)]
    BY <1>8
  <2> HIDE DEF new
  <2> QED
    BY <1>2, <2>1, <2>2, WfDecidedLists, WfBackGood DEF WfMoves
<1>9. CASE SkipApproval(c)
  <2>1. PICK p \in WfPhases : p = wfCall[c].phase
    BY <1>1, <1>9 DEF SkipApproval, WfAt, WfBound, WfInPhase
  <2>2. Drafted(c, "skip", <<Evidence(p, "approval")>>) /\ WfDecided(<<Evidence(p, "approval")>>)
    BY <1>9, <2>1, WfEvidenceGood, WfDecidedLists DEF SkipApproval, WfEvidences
  <2>3. p \in DOMAIN WfSkipTo
    BY <1>9, <2>1 DEF SkipApproval, MaySkip
  <2> QED
    BY <1>2, <2>1, <2>2, <2>3, WfDrafted DEF WfPcs, WfInPhase
<1>10. CASE AskPhase(c)
  BY <1>8, <1>10 DEF AskPhase
<1>11. CASE AdvanceSkipped(c)
  <2>1. wfCall[c].phase \in DOMAIN WfSkipTo
    BY <1>11, WfCallIs DEF AdvanceSkipped, WfAt
  <2>2. CASE ~Live \/ wfState.phase # wfCall[c].phase
    BY <1>11, <2>2, WfFails DEF AdvanceSkipped
  <2>3. CASE Live /\ wfState.phase = wfCall[c].phase
    <3>1. now = wfCall[c].phase /\ now \in DOMAIN WfSkipTo /\ WfSkipTo[now] \in WfPhases \cup {0}
      BY <1>3, <2>1, <2>3, WfAssumption
    <3>2. CASE WfSkipTo[now] = 0
      <4>1. GoOn(c, "approve")
        BY <1>11, <2>3, <3>1, <3>2 DEF AdvanceSkipped
      <4> QED
        BY <1>2, <4>1, WfDecidedLists, WfDrafted DEF GoOn, WfPcs, WfBound, WfInPhase
    <3>3. CASE WfSkipTo[now] # 0 /\ MayLeave(now)
      <4>1. Drafted(c, "follow", <<Advanced("skipped", now, WfSkipTo[now])>>)
        BY <1>11, <2>3, <3>1, <3>3 DEF AdvanceSkipped
      <4>2. WfSkipTo[now] \in WfPhases
        BY <3>1, <3>3
      <4>3. WfDraftGood(Advanced("skipped", now, WfSkipTo[now]))
        BY <1>3, <3>3, <4>2, WfAdvancedGood DEF MayLeave, WfRouteTypes
      <4> QED
        BY <1>5, <4>1, <4>3 DEF WfPcs, WfBound, WfInPhase
    <3>4. CASE WfSkipTo[now] # 0 /\ ~MayLeave(now)
      <4>1. GivesUp(c, <<Moved("blocked", now)>>)
        BY <1>11, <2>3, <3>1, <3>4 DEF AdvanceSkipped
      <4> QED
        BY <1>7, <4>1
    <3> QED
      BY <3>2, <3>3, <3>4
  <2> QED
    BY <2>2, <2>3
<1>12. CASE FollowApproval(c)
  <2> DEFINE new == [wfCall[c] EXCEPT !.again = @ + 1, !.recovery = FALSE]
  <2>1. new \in WfCallRecords
    <3>1. wfCall[c].again + 1 \in Nat
      BY <1>1 DEF WfCallRecords
    <3> QED
      BY <1>1, <3>1 DEF WfCallRecords
  <2>2. RunsNext(c, new)
    BY <1>12 DEF FollowApproval
  <2> HIDE DEF new
  <2> QED
    BY <2>1, <2>2, WfRunsNext
<1>13. CASE EndApproval(c)
  BY <1>8, <1>13 DEF EndApproval
<1>14. CASE ReadAnswer(c)
  <2> DEFINE new == [IdleWfCall EXCEPT !.pc = "answer", !.phase = wfState.phase, !.outcome = wfState.status]
  <2>1. wfState.status \in WfStatuses
    BY DEF WfInv, WfStateShape
  <2>2. new \in WfCallRecords /\ new.pc = "answer" /\ new.drafts = <<>> /\ new.phase = now
    BY <1>3, <2>1, WfIdle DEF WfCallRecords, WfPcs
  <2>3. wfCall' = [wfCall EXCEPT ![c] = new]
    BY <1>14 DEF ReadAnswer
  <2> HIDE DEF new
  <2>4. WfGood(new)
    BY <1>2, <2>2, WfDecidedLists, WfGoodCall DEF WfInPhase
  <2> QED
    BY <2>3, <2>4 DEF WfMoves
<1>15. CASE AnswerQuestion(c)
  <2>1. PICK p \in WfPhases : p = wfCall[c].phase
    BY <1>1, <1>15 DEF AnswerQuestion, WfAt, WfBound, WfInPhase
  <2>2. Fails(c) \/ Drafted(c, "approve", <<Evidence(p, "approval")>>) \/ GoOn(c, "block")
    BY <1>15, <2>1 DEF AnswerQuestion
  <2>3. WfDraftGood(Evidence(p, "approval"))
    BY WfEvidenceGood DEF WfEvidences
  <2>4. GoOn(c, "block") => WfMoves(c)
    BY <1>2, WfDecidedLists, WfDrafted DEF GoOn, WfPcs, WfBound, WfInPhase
  <2> QED
    BY <1>5, <2>2, <2>3, <2>4, WfFails DEF WfPcs, WfBound, WfInPhase
<1>16. CASE BlockWorkflow(c)
  BY <1>3, <1>7, <1>16, WfFails DEF BlockWorkflow
<1> QED
  BY <1>9, <1>10, <1>11, <1>12, <1>13, <1>14, <1>15, <1>16 DEF WfApproval

------------------------------------------------------------------------------
(* An event, as the projector applies it.                                         *)

LEMMA WfAfterDraft ==
    ASSUME WfInv, NEW c \in WfCalls, wfCall[c].drafts # <<>>,
           wfCall' = [wfCall EXCEPT ![c].drafts = Tail(@)]
    PROVE  /\ wfCall'[c] \in WfCallRecords /\ wfCall'[c].pc = wfCall[c].pc
           /\ wfCall'[c].phase = wfCall[c].phase /\ wfCall'[c].drafts = Tail(wfCall[c].drafts)
           /\ \A d \in WfCalls \ {c} : wfCall'[d] = wfCall[d]
           /\ DOMAIN wfCall' = WfCalls /\ wfCall' = [d \in WfCalls |-> wfCall'[d]]
<1>1. wfCall[c] \in WfCallRecords
  BY WfCallIs
<1> DEFINE new == [wfCall[c] EXCEPT !.drafts = Tail(wfCall[c].drafts)]
<1>2. Tail(wfCall[c].drafts) \in Seq(WfDrafts)
  BY <1>1 DEF WfCallRecords
<1>3. /\ new \in WfCallRecords /\ new.pc = wfCall[c].pc /\ new.phase = wfCall[c].phase
      /\ new.drafts = Tail(wfCall[c].drafts)
  BY <1>1, <1>2 DEF WfCallRecords
<1>4. wfCall' = [wfCall EXCEPT ![c] = new] /\ DOMAIN wfCall = WfCalls
  BY DEF WfInv
<1> HIDE DEF new
<1> QED
  BY <1>3, <1>4

(* The events of a call are those of its start, or decisions and evidence.        *)
LEMMA WfFirstDraft ==
    ASSUME WfInv, NEW c \in WfCalls, wfCall[c].drafts # <<>>
    PROVE  /\ Head(wfCall[c].drafts) \in WfDrafts
           /\ Head(wfCall[c].drafts).type = "started" =>
                 /\ wfCall[c].pc = "started" /\ Head(wfCall[c].drafts).phase = 1
                 /\ Tail(wfCall[c].drafts) = <<Moved("phase_started", 1)>>
           /\ Head(wfCall[c].drafts).type # "started" =>
                 \A i \in 1 .. Len(wfCall[c].drafts) : wfCall[c].drafts[i].type # "started"
           /\ wfState.status = "none" => Head(wfCall[c].drafts).type = "started"
           /\ wfClean => WfCallEarned(wfCall[c])
<1>1. PICK drafts : drafts = wfCall[c].drafts /\ drafts \in Seq(WfDrafts) /\ drafts # <<>>
  BY WfCallIs DEF WfCallRecords
<1>2. 1 \in 1 .. Len(drafts) /\ Head(drafts) = drafts[1] /\ Head(drafts) \in WfDrafts
  BY <1>1
<1>3. Head(WfStart).type = "started" /\ Head(WfStart).phase = 1 /\ Tail(WfStart) = <<Moved("phase_started", 1)>>
  BY DEF WfStart, Moved, Draft
<1>4. WfGood(wfCall[c]) /\ WfStartsWell(wfCall[c])
  BY DEF WfInv, WfGood, WfFits
<1> QED
  BY <1>1, <1>2, <1>3, <1>4 DEF WfGood, WfStartsWell, WfUnstarted

LEMMA WfDraftStep ==
    ASSUME WfInv, NEW c \in WfCalls, ApplyDraft(c)
    PROVE  WfInv'
<1> DEFINE e == Head(wfCall[c].drafts)
           rest == Tail(wfCall[c].drafts)
<1>1. wfCall[c].drafts # <<>> /\ wfCall' = [wfCall EXCEPT ![c].drafts = Tail(@)] /\ wfQuestions' = wfQuestions
  BY DEF ApplyDraft
<1>2. /\ wfCall'[c] \in WfCallRecords /\ wfCall'[c].pc = wfCall[c].pc
      /\ wfCall'[c].phase = wfCall[c].phase /\ wfCall'[c].drafts = rest
      /\ \A d \in WfCalls \ {c} : wfCall'[d] = wfCall[d]
      /\ DOMAIN wfCall' = WfCalls /\ wfCall' = [d \in WfCalls |-> wfCall'[d]]
  BY <1>1, WfAfterDraft
<1>3. /\ e \in WfDrafts
      /\ e.type = "started" => wfCall[c].pc = "started" /\ e.phase = 1 /\ rest = <<Moved("phase_started", 1)>>
      /\ e.type # "started" =>
            \A i \in 1 .. Len(wfCall[c].drafts) : wfCall[c].drafts[i].type # "started"
      /\ wfState.status = "none" => e.type = "started"
      /\ wfClean => WfCallEarned(wfCall[c])
  BY <1>1, WfFirstDraft
<1>4. /\ wfCall[c].drafts \in Seq(WfDrafts) /\ rest \in Seq(WfDrafts)
      /\ \A i \in 1 .. Len(rest) : i + 1 \in 1 .. Len(wfCall[c].drafts) /\ rest[i] = wfCall[c].drafts[i + 1]
      /\ e = wfCall[c].drafts[1] /\ 1 \in 1 .. Len(wfCall[c].drafts)
  <2>1. PICK drafts : drafts = wfCall[c].drafts /\ drafts \in Seq(WfDrafts) /\ drafts # <<>>
    BY <1>1, WfCallIs DEF WfCallRecords
  <2>2. /\ Tail(drafts) \in Seq(WfDrafts)
        /\ \A i \in 1 .. Len(Tail(drafts)) : i + 1 \in 1 .. Len(drafts) /\ Tail(drafts)[i] = drafts[i + 1]
        /\ Head(drafts) = drafts[1] /\ 1 \in 1 .. Len(drafts)
    BY <2>1
  <2> QED
    BY <2>1, <2>2
<1> HIDE DEF e, rest
<1>5. /\ wfFacts \subseteq WfFacts /\ wfFailed \in [WfPhases -> Nat] /\ wfStops \in [DOMAIN WfRetry -> Nat]
      /\ wfQuestions \in Nat /\ wfPassed \subseteq WfPhases
  BY DEF WfInv, WfCountShape
<1>6. CASE e.type = "started"
  <2>1. /\ wfState' = [status |-> "active", phase |-> 1] /\ wfFacts' = {}
        /\ wfFailed' = [p \in WfPhases |-> 0] /\ wfStops' = [t \in DOMAIN WfRetry |-> 0]
        /\ wfPassed' = {} /\ wfClean' = (wfClean /\ NoDecisionPending(c))
    BY <1>6 DEF ApplyDraft, WorkflowStarted, e
  <2>2. wfState'.status = "active" /\ wfState'.phase = 1
    BY <2>1
  <2>3. WfStateShape'
    BY <2>1, <2>2, WfPhasesAre DEF WfStateShape, WfStatuses
  <2>4. WfCountShape'
    BY <1>1, <1>5, <2>1 DEF WfCountShape
  <2>5. Earned(1)' /\ wfState'.phase = 1
    BY <2>2, WfPhasesAre DEF Earned
  <2>6. Moved("phase_started", 1) \in WfDrafts /\ Moved("phase_started", 1).type = "phase_started"
        /\ Moved("phase_started", 1).phase = 1
    BY WfPhasesAre DEF Moved, Draft, WfDrafts, WfTypesOfDraft, WfMoveTypes, WfRouteTypes
  <2>7. PICK mine : mine = wfCall'[c]
    OBVIOUS
  <2>8. WfGood(mine)'
    <3>1. mine \in WfCallRecords /\ mine.pc = "started" /\ mine.drafts = <<Moved("phase_started", 1)>>
      BY <1>2, <1>3, <1>6, <2>7
    <3>2. Len(mine.drafts) = 1 /\ mine.drafts[1] = Moved("phase_started", 1)
      BY <3>1
    <3>3. WfFits(mine)
      BY <2>6, <3>1, <3>2 DEF WfFits, WfStartsWell, WfBound
    <3>4. EarnedBy(mine.drafts[1])'
      BY <2>6, <3>2, WfPhasesAre DEF EarnedBy
    <3>5. WfCallEarned(mine)'
      BY <3>1, <3>2, <3>4 DEF WfCallEarned, WfInPhase
    <3> QED
      BY <2>2, <3>3, <3>5 DEF WfGood, WfFits, WfStartsWell
  <2>9. ASSUME NEW d \in WfCalls \ {c}, NEW yours, yours = wfCall[d] PROVE WfGood(yours)'
    <3>1. WfFits(yours)
      BY <2>9 DEF WfInv, WfGood
    <3>2. wfClean' => yours.pc \in {"idle", "prepare"} /\ yours.drafts = <<>>
      BY <2>1, <2>9 DEF NoDecisionPending
    <3>3. wfClean' => WfCallEarned(yours)'
      BY <3>2 DEF WfCallEarned, WfInPhase
    <3> QED
      BY <2>2, <3>1, <3>3 DEF WfGood, WfFits, WfStartsWell
  <2>10. PICK calls : calls = wfCall'
    OBVIOUS
  <2>11. \A d \in WfCalls : WfGood(calls[d])'
    BY <1>2, <2>7, <2>8, <2>9, <2>10
  <2> QED
    BY <1>1, <1>2, <2>2, <2>3, <2>4, <2>5, <2>10, <2>11 DEF WfInv
<1>7. ASSUME e.type # "started", WfStateShape', WfCountShape', wfState'.status # "none", wfClean' = wfClean,
             wfFacts \subseteq wfFacts', \A p \in WfPhases : wfFailed[p] > 0 => wfFailed'[p] > 0,
             wfPassed \subseteq wfPassed', wfClean => Earned(wfState.phase)'
      PROVE  WfInv'
  <2>1. (\A p : Earned(p) => Earned(p)') /\ (\A x : EarnedBy(x) => EarnedBy(x)')
    BY <1>7, WfEarnedStays
  <2>2. PICK mine, calls, state : mine = wfCall'[c] /\ calls = wfCall' /\ state = wfState'
    OBVIOUS
  <2>3. WfGood(wfCall[c])
    BY DEF WfInv
  <2>4. WfGood(mine)'
    <3>1. WfFits(mine)
      BY <1>2, <1>3, <1>4, <1>7, <2>2, <2>3, SMTT(60) DEF WfFits, WfStartsWell, WfGood
    <3>2. wfClean => WfCallEarned(mine)
      BY <1>2, <1>4, <2>2, <2>3 DEF WfCallEarned, WfGood
    <3>3. wfClean => WfCallEarned(mine)'
      BY <2>1, <3>2 DEF WfCallEarned
    <3> QED
      BY <1>7, <3>1, <3>3 DEF WfGood, WfFits, WfStartsWell
  <2>5. ASSUME NEW d \in WfCalls \ {c}, NEW yours, yours = wfCall[d] PROVE WfGood(yours)'
    <3>1. WfGood(yours)
      BY <2>5 DEF WfInv
    <3>2. wfClean => WfCallEarned(yours)'
      BY <2>1, <3>1 DEF WfGood, WfCallEarned
    <3> QED
      BY <1>7, <3>1, <3>2 DEF WfGood, WfFits, WfStartsWell
  <2>6. \A d \in WfCalls : WfGood(calls[d])'
    BY <1>2, <2>2, <2>4, <2>5
  <2>7. wfClean' => Earned(wfState.phase)'
    BY <1>7
  <2> QED
    BY <1>1, <1>2, <1>7, <2>2, <2>6, <2>7 DEF WfInv
<1>8. CASE e.type = "evidence"
  <2>1. EvidenceRecorded(e)
    BY <1>8 DEF ApplyDraft, e
  <2>2. e.phase \in WfPhases /\ e.what \in WfEvidences
    BY <1>3, <1>8 DEF WfDrafts
  <2>3. wfState' = wfState /\ wfClean' = wfClean /\ wfPassed' = wfPassed
    BY <2>1 DEF EvidenceRecorded
  <2>4. wfFacts \subseteq wfFacts' /\ WfCountShape' /\ \A p \in WfPhases : wfFailed[p] > 0 => wfFailed'[p] > 0
    <3>1. CASE e.what = "fail"
      <4>1. wfFailed' = [wfFailed EXCEPT ![e.phase] = @ + 1] /\ wfFacts' = wfFacts /\ wfStops' = wfStops
        BY <2>1, <3>1 DEF EvidenceRecorded, ResultEvents, FailureCodes
      <4> QED
        BY <1>1, <1>5, <2>2, <2>3, <4>1 DEF WfCountShape
    <3>2. CASE e.what # "fail" /\ e.what \in ResultEvents
      <4>1. wfStops' = [wfStops EXCEPT ![<<e.phase, e.what>>] = @ + 1] /\ wfFacts' = wfFacts /\ wfFailed' = wfFailed
        BY <2>1, <3>2 DEF EvidenceRecorded
      <4>2. wfStops' \in [DOMAIN WfRetry -> Nat]
        <5>1. PICK key : key = <<e.phase, e.what>>
          OBVIOUS
        <5>2. PICK keys : keys = DOMAIN WfRetry
          OBVIOUS
        <5>3. wfStops \in [keys -> Nat] /\ wfStops' = [wfStops EXCEPT ![key] = @ + 1]
          BY <1>5, <4>1, <5>1, <5>2
        <5>4. wfStops' = [k \in keys |-> IF k = key THEN wfStops[key] + 1 ELSE wfStops[k]]
          BY <5>3
        <5>5. \A k \in keys : (IF k = key THEN wfStops[key] + 1 ELSE wfStops[k]) \in Nat
          BY <5>3
        <5>6. wfStops' \in [keys -> Nat]
          BY <5>4, <5>5
        <5> QED
          BY <5>2, <5>6
      <4> QED
        BY <1>1, <1>5, <2>3, <4>1, <4>2 DEF WfCountShape
    <3>3. CASE e.what # "fail" /\ e.what \notin ResultEvents
      <4>1. wfFacts' = wfFacts \cup {<<e.phase, e.what>>} /\ wfStops' = wfStops /\ wfFailed' = wfFailed
        BY <2>1, <3>3 DEF EvidenceRecorded
      <4>2. <<e.phase, e.what>> \in WfFacts
        BY <2>2, <3>3 DEF WfFacts, WfEvidences
      <4> QED
        BY <1>1, <1>5, <2>3, <4>1, <4>2 DEF WfCountShape
    <3> QED
      BY <3>1, <3>2, <3>3
  <2>5. WfStateShape' /\ wfState'.status # "none"
    BY <1>3, <1>8, <2>3 DEF WfInv, WfStateShape
  <2>6. wfClean => Earned(wfState.phase)'
    <3>1. \A p : Earned(p) => Earned(p)'
      BY <2>3, <2>4, WfEarnedStays
    <3> QED
      BY <2>3, <3>1 DEF WfInv
  <2> QED
    BY <1>7, <1>8, <2>3, <2>4, <2>5, <2>6
<1>9. CASE e.type \notin {"started", "evidence"}
  <2>1. PhaseMoved(e)
    BY <1>9 DEF ApplyDraft, e
  <2>2. PICK status \in {"active", "blocked", "completed"} : wfState' = [status |-> status, phase |-> e.phase]
    BY <2>1 DEF PhaseMoved
  <2>3. wfFacts' = wfFacts /\ wfFailed' = wfFailed /\ wfStops' = wfStops /\ wfClean' = wfClean
    BY <2>1 DEF PhaseMoved
  <2>4. wfState'.status = status /\ wfState'.phase = e.phase /\ e.phase \in WfPhases
    BY <1>3, <2>2 DEF WfDrafts
  <2>5. WfStateShape'
    BY <2>2, <2>4, WfPhasesAre DEF WfStateShape, WfStatuses
  <2>6. wfPassed' = wfPassed \cup PassedBy(e) /\ PassedBy(e) \subseteq WfPhases
    <3>1. e.type \in WfRouteTypes => e.what \in WfPhases
      BY <1>3 DEF WfDrafts
    <3>2. \A m, n \in WfPhases : m .. n - 1 \subseteq WfPhases /\ m + 1 .. n - 1 \subseteq WfPhases
      BY WfPhasesAre
    <3>3. PassedBy(e) \subseteq WfPhases
      BY <2>4, <3>1, <3>2 DEF PassedBy, WfRouteTypes
    <3> QED
      BY <2>1, <3>3 DEF PhaseMoved
  <2>7. WfCountShape'
    BY <1>1, <1>5, <2>3, <2>6 DEF WfCountShape
  <2>8. wfClean => Earned(wfState.phase)'
    <3>1. wfClean => EarnedBy(e)
      BY <1>3, <1>4, <1>9 DEF WfCallEarned, WfDecides
    <3>2. \A q : Complete(q) => Complete(q)'
      BY <2>3 DEF Complete
    <3> QED
      BY <2>4, <2>6, <3>1, <3>2 DEF EarnedBy, Earned
  <2> QED
    BY <1>7, <1>9, <2>3, <2>4, <2>5, <2>6, <2>7, <2>8
<1> QED
  BY <1>6, <1>8, <1>9

------------------------------------------------------------------------------
LEMMA WfCrashStep ==
    ASSUME WfInv, CrashWorkflow
    PROVE  WfInv'
<1>1. /\ wfCall' = [c \in WfCalls |-> IF WfAt(c, "waiting") THEN wfCall[c] ELSE IdleWfCall]
      /\ UNCHANGED <<wfState, wfFacts, wfFailed, wfStops, wfQuestions, wfPassed, wfClean>>
  BY DEF CrashWorkflow
<1>2. ASSUME NEW x, WfGood(x) PROVE WfGood(x)'
  <2>1. (\A p : Earned(p)' = Earned(p)) /\ (\A e : EarnedBy(e)' = EarnedBy(e))
    BY <1>1, WfEarnedSame
  <2> QED
    BY <1>1, <1>2, <2>1 DEF WfGood, WfFits, WfStartsWell, WfUnstarted, WfCallEarned
<1>3. PICK calls : calls = wfCall'
  OBVIOUS
<1>4. \A c \in WfCalls : WfGood(calls[c])
  BY <1>1, <1>3, WfIdle DEF WfInv
<1>5. \A c \in WfCalls : WfGood(calls[c])'
  BY <1>2, <1>4
<1>6. WfStateShape' /\ WfCountShape' /\ (wfClean' => Earned(wfState.phase)')
  BY <1>1 DEF WfInv, WfStateShape, WfCountShape, Earned, Complete
<1> QED
  BY <1>1, <1>3, <1>5, <1>6 DEF WfInv

LEMMA WfInvInit == WfInit => WfInv
<1> SUFFICES ASSUME WfInit PROVE WfInv
  OBVIOUS
<1>1. WfStateShape /\ WfCountShape /\ wfState.status = "none" /\ wfState.phase = 0 /\ wfQuestions = 0
  BY WfPhasesAre DEF WfInit, WfStateShape, WfCountShape, WfStatuses
<1>2. wfCall = [c \in WfCalls |-> IdleWfCall]
  BY DEF WfInit
<1> QED
  BY <1>1, <1>2, WfIdle, WfEarnedFirst DEF WfInv

LEMMA WfInvStep == WfInv /\ [WfNext]_wfVars => WfInv'
<1> SUFFICES ASSUME WfInv, [WfNext]_wfVars PROVE WfInv'
  OBVIOUS
<1>1. ASSUME NEW c \in WfCalls, WfTurn(c) \/ WfOutcome(c) \/ WfApproval(c) PROVE WfInv'
  BY <1>1, WfTurnMoves, WfOutcomeMoves, WfApprovalMoves, WfStays
<1>2. CASE UNCHANGED wfVars
  <2>1. PICK calls : calls = wfCall
    OBVIOUS
  <2>2. (\A p : Earned(p)' = Earned(p)) /\ (\A e : EarnedBy(e)' = EarnedBy(e))
    BY <1>2, WfEarnedSame DEF wfVars
  <2>3. ASSUME NEW c \in WfCalls PROVE WfGood(calls[c])'
    <3>1. WfGood(calls[c])
      BY <2>1 DEF WfInv
    <3> QED
      BY <1>2, <2>2, <3>1 DEF wfVars, WfGood, WfFits, WfStartsWell, WfUnstarted, WfCallEarned
  <2>4. WfStateShape' /\ WfCountShape' /\ (wfClean' => Earned(wfState.phase)')
    BY <1>2 DEF wfVars, WfInv, WfStateShape, WfCountShape, Earned, Complete
  <2> QED
    BY <1>2, <2>1, <2>3, <2>4 DEF wfVars, WfInv
<1> QED
  BY <1>1, <1>2, WfDraftStep, WfCrashStep DEF WfNext

(* AdvanceWorkflow and what calls it (runtime_workflow_executor.go): for any      *)
(* workflow and any number of overlapping calls, no turn runs in a phase, and no  *)
(* phase is current, that the phases before it did not earn.                      *)
THEOREM WfPhasesAreEarned == WfSpec => []WfRunsAreEarned
<1>1. WfInv => WfRunsAreEarned
  BY DEF WfInv, WfGood, WfCallEarned, WfInPhase, WfRunsAreEarned
<1> QED
  BY <1>1, WfInvInit, WfInvStep, PTL DEF WfSpec

(* Status, phase, evidence and calls stay in their sets.                          *)
THEOREM WfTypeCorrect == WfSpec => []WfTypeOK
<1>1. WfInv => WfTypeOK
  <2> SUFFICES ASSUME WfInv PROVE WfTypeOK
    OBVIOUS
  <2>1. \A c \in WfCalls : wfCall[c] \in WfCallRecords
    BY WfCallIs
  <2>2. \A c \in WfCalls : wfCall[c].phase \in WfPhases \cup {0} /\ wfCall[c].again \in Nat
    BY <2>1 DEF WfCallRecords
  <2>3. (\A p \in WfPhases : wfFailed[p] \in Nat) /\ (\A t \in DOMAIN WfRetry : wfStops[t] \in Nat)
    BY DEF WfInv, WfCountShape
  <2> QED
    BY <2>2, <2>3 DEF WfInv, WfStateShape, WfCountShape, WfStatuses, WfFacts, WfTypeOK
<1> QED
  BY <1>1, WfInvInit, WfInvStep, PTL DEF WfSpec
====
