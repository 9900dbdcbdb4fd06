---- MODULE SessionHistory ----
(* What a turn is told of the turns before it: internal/app/session_history*.go,  *)
(* session_compaction_payload.go, turn_history_prepare.go, turn_runner_loop.go,   *)
(* turn_runner.go, runtime_compaction.go and runtime_local_shell.go.              *)
(*                                                                                *)
(* The history is folded from the log, on top of the newest checkpoint event. A   *)
(* turn folds it once, as a template; when it ends it writes a checkpoint made of *)
(* the template and what the log holds since the turn began. Older turns are      *)
(* summarised: a continuation names the newest turn it stands for, the frontier,  *)
(* and replaces all turns up to it. What a background process does after its turn *)
(* ended is a note on that turn, wherever the turn is by then.                    *)
(*                                                                                *)
(* The number of an event is its place in the log, and stands for its content; a  *)
(* summary stands for what it was made from. Whether a request is too large is    *)
(* left open.                                                                     *)
EXTENDS Integers, Sequences, FiniteSets, SequencesExt, EventSelection

CONSTANTS
    HistMaxTurns,     \* bound on the turns of the session
    HistMaxEntries,   \* bound on what one turn says
    HistMaxEvents,    \* bound on the log
    HistMaxNotes,     \* bound on the notes in the log
    HistMaxFaults,    \* bound on what goes wrong: see histFaults
    HistFrontier      \* the recent turns a semantic compaction leaves (code: 2)

ASSUME HistAssumption ==
    /\ HistMaxTurns \in Nat /\ HistMaxEntries \in Nat /\ HistMaxEvents \in Nat
    /\ HistMaxNotes \in Nat /\ HistMaxFaults \in Nat /\ HistFrontier \in Nat

VARIABLES
    histLog,      \* the session's events
    histRun,      \* the call that runs or compacts, with the template it loaded
    histFaults    \* how often a turn blocked, failed or was canceled, a summary
                  \* failed, or the process ended

histVars == <<histLog, histRun, histFaults>>

NoSummary == [frontier |-> 0, count |-> 0, covers |-> {}]
NoHistory == [order |-> <<>>, turns |-> <<>>, cont |-> NoSummary, through |-> -1]

(* The zero value a turn without a history holds in place of a template.          *)
ZeroTemplate == [NoHistory EXCEPT !.through = 0]

IdleRun == [pc |-> "idle", turn |-> 0, after |-> 0, template |-> NoHistory, cont |-> NoSummary,
            failed |-> FALSE]

HistInit == histLog = <<>> /\ histRun = IdleRun /\ histFaults = 0

------------------------------------------------------------------------------
(* Turns and the compacted prefix.                                                *)

HistEvent(kind, t) == [kind |-> kind, turn |-> t, cont |-> NoSummary, saved |-> NoHistory]

NewReplayedTurn == [entries |-> <<>>, notes |-> <<>>, terminal |-> FALSE, at |-> 0,
                    failed |-> FALSE]

(* How many turns of an order a continuation stands for: its count, when the      *)
(* frontier is there, else the place of the frontier.                             *)
PrefixCount(order, cont) ==
    IF cont.count \in DOMAIN order /\ order[cont.count] = cont.frontier THEN cont.count
    ELSE IF \E i \in DOMAIN order : order[i] = cont.frontier
         THEN CHOOSE i \in DOMAIN order : order[i] = cont.frontier
         ELSE 0

PrefixTurns(order, cont) == {order[i] : i \in 1 .. PrefixCount(order, cont)}
RawTurns(order, cont) == {order[i] : i \in PrefixCount(order, cont) + 1 .. Len(order)}

HasReplayContent(r) == r.entries # <<>> \/ r.notes # <<>> \/ r.failed

PostTerminalNotes(r) == IF r.terminal THEN {n \in ToSet(r.notes) : n > r.at} ELSE {}

EnsureTurn(h, t) ==
    IF t \in DOMAIN h.turns THEN h
    ELSE [h EXCEPT !.turns = [u \in DOMAIN h.turns \cup {t} |->
                                IF u = t THEN NewReplayedTurn ELSE h.turns[u]],
                   !.order = Append(@, t)]

(* The turns of the compacted prefix are not in a checkpoint: they get an empty,  *)
(* ended turn, so that notes about them find it.                                  *)
Placeholders(h) ==
    LET prefix == PrefixTurns(h.order, h.cont)
    IN [h EXCEPT !.turns = [u \in DOMAIN h.turns \cup prefix |->
            IF u \in prefix
            THEN [(IF u \in DOMAIN h.turns THEN h.turns[u] ELSE NewReplayedTurn)
                    EXCEPT !.terminal = TRUE]
            ELSE h.turns[u]]]

(* A note goes into the summary of a summarised turn, into what a turn says while *)
(* it runs, and waits beside a turn that has ended.                               *)
AppendNote(h, t, n) ==
    LET noted == [h EXCEPT !.turns[t].notes = Append(@, n)]
    IN IF t \in PrefixTurns(h.order, h.cont) THEN [noted EXCEPT !.cont.covers = @ \cup {n}]
       ELSE IF h.turns[t].terminal THEN noted
       ELSE [noted EXCEPT !.turns[t].entries = Append(@, n)]

(* One event of the log. The events of the current turn are not history yet,      *)
(* except for the continuation it records.                                        *)
ReplayEvent(h, e, n, current) ==
    LET seen == [h EXCEPT !.through = IF n > @ THEN n ELSE @]
        turn == EnsureTurn(seen, e.turn)
    IN CASE e.kind = "continuation" -> [seen EXCEPT !.cont = e.cont]
         [] e.kind = "started" -> seen
         [] e.kind \notin {"continuation", "started"} ->
            IF e.turn = current THEN seen
            ELSE CASE e.kind = "entry" -> [turn EXCEPT !.turns[e.turn].entries = Append(@, n)]
                   [] e.kind = "handoff" -> [turn EXCEPT !.turns[e.turn].entries = Append(@, n),
                                                         !.turns[e.turn].notes = Append(@, n)]
                   [] e.kind = "note"  -> AppendNote(turn, e.turn, n)
                   [] e.kind = "pruned" -> turn
                   [] OTHER -> [turn EXCEPT !.turns[e.turn].terminal = TRUE,
                                            !.turns[e.turn].at = n,
                                            !.turns[e.turn].failed = e.kind = "error"]

CompletedOrder(h) ==
    LET count == PrefixCount(h.order, h.cont)
        rest  == SubSeq(h.order, count + 1, Len(h.order))
    IN SubSeq(h.order, 1, count)
         \o Select(rest, {t \in DOMAIN h.turns : h.turns[t].terminal /\ HasReplayContent(h.turns[t])})

NormalizeSummary(order, cont) ==
    LET count == PrefixCount(order, cont)
    IN IF count = 0 THEN cont ELSE [cont EXCEPT !.count = count, !.frontier = order[count]]

(* Mutant: notes are added to a summary only when they are replayed.              *)
NotesAsReplayed(order, cont, turns) == cont

AppendSummaryNotes(order, cont, turns) ==
    IF cont = NoSummary THEN cont
    ELSE [cont EXCEPT !.covers = @ \cup
            UNION {PostTerminalNotes(turns[t]) : t \in PrefixTurns(order, cont)}]

(* The events after a place in the log, folded over a checkpoint or a template.   *)
BuildHistory(log, base, after, current) ==
    LET part[n \in 0 .. Len(log)] ==
            IF n = 0 THEN Placeholders(base)
            ELSE IF n > after /\ log[n].kind # "checkpoint"
                 THEN ReplayEvent(part[n - 1], log[n], n, current)
                 ELSE part[n - 1]
        folded == part[Len(log)]
        order  == CompletedOrder(folded)
        cont   == NormalizeSummary(order, folded.cont)
    IN [folded EXCEPT !.order = order, !.cont = AppendSummaryNotes(order, cont, folded.turns)]

(* The newest checkpoint, and what a turn that starts now would be given.         *)
LatestCheckpoint(log) ==
    LET all == {n \in DOMAIN log : log[n].kind = "checkpoint"}
    IN IF all = {} THEN NoHistory
       ELSE log[CHOOSE n \in all : \A k \in all : k <= n].saved

LoadHistory(log, current) ==
    LET latest == LatestCheckpoint(log) IN BuildHistory(log, latest, latest.through, current)

(* What a checkpoint keeps: the order, and the turns that are not summarised.     *)
CheckpointOf(h) ==
    [h EXCEPT !.turns = [t \in RawTurns(h.order, h.cont) \cap DOMAIN h.turns |->
        [h.turns[t] EXCEPT !.terminal = TRUE]]]

------------------------------------------------------------------------------
(* The turn that runs.                                                            *)

HistAt(pc) == histRun.pc = pc
SaysAll(es) ==
    /\ Len(histLog) + Len(es) <= HistMaxEvents
    /\ histLog' = histLog \o es
Says(e) == SaysAll(<<e>>)

Fault == histFaults < HistMaxFaults /\ histFaults' = histFaults + 1

EventsOf(t, kinds) == {n \in DOMAIN histLog : histLog[n].turn = t /\ histLog[n].kind \in kinds}
HistTurns == {histLog[n].turn : n \in DOMAIN histLog} \ {0}
EndKinds == {"done", "rolled", "canceled", "error"}
HasEnded(t) == EventsOf(t, EndKinds) # {}
NewTurn == Cardinality(HistTurns) + 1

(* The first event of a turn is its user message. A terminal UI starts one turn   *)
(* at a time.                                                                     *)
StartTurn(pc) ==
    /\ HistAt("idle") /\ NewTurn <= HistMaxTurns
    /\ Says(HistEvent("entry", NewTurn))
    /\ histRun' = [IdleRun EXCEPT !.pc = pc, !.turn = NewTurn, !.after = Len(histLog)]
    /\ UNCHANGED histFaults

(* A turn that continues another begins with the handoff, a summary of the work   *)
(* so far. The place in the log it begins at is read after that was appended.     *)
ContinueTurn ==
    /\ HistAt("idle") /\ NewTurn <= HistMaxTurns /\ NewTurn > 1
    /\ Says(HistEvent("handoff", NewTurn))
    /\ histRun' = [IdleRun EXCEPT !.pc = "load", !.turn = NewTurn, !.after = Len(histLog')]
    /\ UNCHANGED histFaults

(* The setup of a turn fails: it is recorded, and nothing is saved.               *)
RecordFailure ==
    /\ histRun.pc \in {"load", "loadReview"}
    /\ Says(HistEvent("error", histRun.turn))
    /\ histRun' = IdleRun
    /\ Fault

(* The continuation the turn has recorded so far.                                 *)
RecordedBy(t) ==
    LET all == EventsOf(t, {"continuation"})
    IN IF all = {} THEN NoSummary ELSE histLog[CHOOSE n \in all : \A k \in all : k <= n].cont

(* executeTurnLoop loads the template; a derived review turn has no history.      *)
LoadTemplate ==
    /\ histRun.pc \in {"load", "loadReview"}
    /\ histRun' = [histRun EXCEPT
          !.pc = IF HistAt("load") THEN "loop" ELSE "review",
          !.template = IF HistAt("load") THEN LoadHistory(histLog, histRun.turn)
                       ELSE ZeroTemplate,
          !.cont = RecordedBy(histRun.turn)]
    /\ UNCHANGED <<histLog, histFaults>>

(* The summary a step starts from: the turn's own, if it reaches further.         *)
EffectiveSummary ==
    LET order == histRun.template.order
    IN IF PrefixCount(order, histRun.cont) > PrefixCount(order, histRun.template.cont)
       THEN histRun.cont ELSE histRun.template.cont

(* A plan to summarise the first turns of an order. The new summary stands for    *)
(* the old one and for what the newly compacted turns say.                        *)
Summarise(h, cont, count) ==
    LET new == {h.order[i] : i \in PrefixCount(h.order, cont) + 1 .. count} \cap DOMAIN h.turns
    IN [frontier |-> h.order[count], count |-> count,
        covers |-> cont.covers \cup
            UNION {ToSet(h.turns[t].entries) \cup ToSet(h.turns[t].notes) : t \in new}]

(* Semantic compaction leaves the most recent turns, token pressure takes all.    *)
CompactionCounts(order, cont) ==
    {n \in {Len(order) - HistFrontier, Len(order)} : n > PrefixCount(order, cont)}

(* The request is too large and the older turns are summarised for it.            *)
CompactForRequest ==
    /\ HistAt("loop") /\ ~histRun.failed
    /\ \E n \in CompactionCounts(histRun.template.order, EffectiveSummary) :
          LET cont == Summarise(histRun.template, EffectiveSummary, n)
          IN /\ Says([HistEvent("continuation", histRun.turn) EXCEPT !.cont = cont])
             /\ histRun' = [histRun EXCEPT !.cont = cont]
    /\ UNCHANGED histFaults

(* No summary could be made: the turn goes on with the one it has.                *)
CompactionFails ==
    /\ HistAt("loop") /\ ~histRun.failed
    /\ CompactionCounts(histRun.template.order, EffectiveSummary) # {}
    /\ Says(HistEvent("pruned", histRun.turn))
    /\ histRun' = [histRun EXCEPT !.failed = TRUE]
    /\ Fault

(* The provider answers, and tools run: the turn says one thing more.             *)
Answer ==
    /\ histRun.pc \in {"loop", "review"}
    /\ Cardinality(EventsOf(histRun.turn, {"entry"})) < HistMaxEntries
    /\ Says(HistEvent("entry", histRun.turn))
    /\ UNCHANGED <<histRun, histFaults>>

(* A turn completes, or is rolled over because its own inputs reach the limit; a  *)
(* review that completes saves nothing.                                           *)
CompleteTurn ==
    /\ histRun.pc \in {"loop", "review"}
    /\ Says(HistEvent("done", histRun.turn))
    /\ histRun' = IF HistAt("loop") THEN [histRun EXCEPT !.pc = "save"] ELSE IdleRun
    /\ UNCHANGED histFaults

(* A review that reaches the input limit is rolled over like any turn, and saved  *)
(* on top of the template it never had.                                           *)
RollOverReview ==
    /\ HistAt("review")
    /\ Says(HistEvent("rolled", histRun.turn))
    /\ histRun' = [histRun EXCEPT !.pc = "save"]
    /\ UNCHANGED histFaults

(* Its prompt, provider or limits fail the turn: what is saved then is the        *)
(* history as a new turn would load it.                                           *)
FailTurn ==
    /\ histRun.pc \in {"load", "loadReview", "loop", "review"}
    /\ Says(HistEvent("error", histRun.turn))
    /\ histRun' = [histRun EXCEPT !.pc = "saveFresh"]
    /\ Fault

CancelTurnRun ==
    /\ histRun.pc \in {"load", "loop", "review", "blocked"}
    /\ Says(HistEvent("canceled", histRun.turn))
    /\ histRun' = IdleRun
    /\ Fault

(* The turn waits for the user; its call returns and its template is gone. What   *)
(* it loads when it is resumed may be newer than its first event.                 *)
BlockTurn ==
    /\ histRun.pc \in {"loop", "review"}
    /\ histRun' = [IdleRun EXCEPT !.pc = "blocked", !.turn = histRun.turn]
    /\ Fault /\ UNCHANGED histLog

FirstEvent(t) ==
    LET all == {n \in DOMAIN histLog : histLog[n].turn = t}
    IN CHOOSE n \in all : \A k \in all : n <= k

ResumeTurn ==
    /\ HistAt("blocked")
    /\ histRun' = [histRun EXCEPT !.pc = "load", !.after = FirstEvent(histRun.turn) - 1]
    /\ UNCHANGED <<histLog, histFaults>>

(* Mutant: the log is replayed from where the template ends.                      *)
SavedAfterTemplate ==
    IF HistAt("save")
    THEN BuildHistory(histLog, histRun.template, histRun.template.through, 0)
    ELSE LoadHistory(histLog, 0)

(* What appendSessionHistoryCheckpoint saves: the template and the log since the  *)
(* turn began, or the history as a new turn would load it.                        *)
HistoryToSave ==
    IF HistAt("save") THEN BuildHistory(histLog, histRun.template, histRun.after, 0)
    ELSE LoadHistory(histLog, 0)

SaveCheckpoint ==
    /\ histRun.pc \in {"save", "saveFresh"}
    /\ LET history == HistoryToSave
       IN IF history.through < 0 \/ history.through = LatestCheckpoint(histLog).through
          THEN UNCHANGED histLog
          ELSE Says([HistEvent("checkpoint", 0) EXCEPT !.saved = CheckpointOf(history)])
    /\ histRun' = IdleRun
    /\ UNCHANGED histFaults

------------------------------------------------------------------------------
(* Shell commands, /compact, background processes and the end of the process.     *)

(* A local shell turn neither loads a history nor saves one.                      *)
EndShell ==
    /\ HistAt("shell")
    /\ \/ /\ SaysAll(<<HistEvent("entry", histRun.turn), HistEvent("done", histRun.turn)>>)
          /\ UNCHANGED histFaults
       \/ \E kind \in {"error", "canceled"} : Says(HistEvent(kind, histRun.turn)) /\ Fault
    /\ histRun' = IdleRun

(* /compact is a turn of its own: it loads the history, and while the summary is  *)
(* made the log may grow.                                                         *)
StartCompact ==
    /\ HistAt("idle") /\ NewTurn <= HistMaxTurns
    /\ LET history == LoadHistory(histLog, NewTurn)
       IN /\ PrefixCount(history.order, history.cont) < Len(history.order)
          /\ Says(HistEvent("started", NewTurn))
          /\ histRun' = [IdleRun EXCEPT !.pc = "compact", !.turn = NewTurn, !.template = history]
    /\ UNCHANGED histFaults

EndCompact ==
    /\ HistAt("compact")
    /\ LET h    == histRun.template
           cont == Summarise(h, h.cont, Len(h.order))
       IN \/ /\ SaysAll(<<[HistEvent("continuation", histRun.turn) EXCEPT !.cont = cont],
                          HistEvent("pruned", histRun.turn), HistEvent("done", histRun.turn)>>)
             /\ histRun' = [histRun EXCEPT !.pc = "saveFresh"]
             /\ UNCHANGED histFaults
          \/ Says(HistEvent("error", histRun.turn)) /\ histRun' = IdleRun /\ Fault

(* A background process of a turn is ready, exits or is lost.                     *)
NoteBackground ==
    /\ Cardinality({n \in DOMAIN histLog : histLog[n].kind = "note"}) < HistMaxNotes
    /\ \E t \in HistTurns :
          /\ EventsOf(t, {"entry"}) # {}
          /\ Says(HistEvent("note", t))
    /\ UNCHANGED <<histRun, histFaults>>

(* The calls end with the process, or with an error nobody records; a turn that   *)
(* is blocked can still be answered.                                              *)
CrashHistory ==
    /\ histRun.pc \notin {"idle", "blocked"}
    /\ histRun' = IdleRun
    /\ Fault /\ UNCHANGED histLog

HistNext ==
    \/ StartTurn("load") \/ StartTurn("loadReview") \/ StartTurn("shell") \/ ContinueTurn
    \/ RecordFailure \/ LoadTemplate \/ CompactForRequest \/ CompactionFails \/ Answer
    \/ CompleteTurn \/ RollOverReview \/ FailTurn \/ CancelTurnRun
    \/ BlockTurn \/ ResumeTurn \/ SaveCheckpoint
    \/ EndShell \/ StartCompact \/ EndCompact \/ NoteBackground \/ CrashHistory

HistSpec == HistInit /\ [][HistNext]_histVars

------------------------------------------------------------------------------
(* Properties.                                                                    *)

(* Events are about turns of the session, and one call runs at a time.            *)
HistTypeOK ==
    /\ \A n \in DOMAIN histLog :
          /\ histLog[n].kind \in {"entry", "handoff", "note", "done", "rolled", "canceled", "error",
                                  "pruned", "started", "continuation", "checkpoint"}
          /\ histLog[n].turn \in 0 .. HistMaxTurns
    /\ histRun.pc \in {"idle", "load", "loadReview", "loop", "review", "blocked", "save",
                       "saveFresh", "shell", "compact"}
    /\ histRun.turn \in 0 .. HistMaxTurns
    /\ histFaults \in 0 .. HistMaxFaults

EndOf(t) == CHOOSE n \in EventsOf(t, EndKinds) : TRUE

(* A review that was rolled over after a turn began: see RollOverReview.          *)
ForgottenByReview(t) ==
    \E n \in DOMAIN histLog : histLog[n].kind = "rolled" /\ n > FirstEvent(t)
                                /\ histLog[n].turn # t

(* What a turn said, in order: its entries, and notes that came while it ran. The *)
(* handoff it began with is not counted, see ContinueTurn.                        *)
SaidBy(t) ==
    Select([n \in DOMAIN histLog |-> n], {n \in EventsOf(t, {"entry", "note"}) : n < EndOf(t)})

(* Whatever was checkpointed, summarised, blocked, failed, canceled or crashed in *)
(* between, the history a turn is given holds each ended turn exactly once: raw,  *)
(* with all it said in its order, or in the compacted prefix with all it said in  *)
(* the summary and none of it beside it (session_history_build.go,                *)
(* session_history_checkpoint.go, session_compaction_payload.go).                 *)
HistIsComplete ==
    LET h == LoadHistory(histLog, 0)
    IN \A t \in HistTurns : HasEnded(t) /\ SaidBy(t) # <<>> /\ ~ForgottenByReview(t) =>
          \/ /\ t \in RawTurns(h.order, h.cont)
             /\ Select(h.turns[t].entries, {n \in DOMAIN histLog : histLog[n].kind # "handoff"}) = SaidBy(t)
             /\ ToSet(SaidBy(t)) \cap h.cont.covers = {}
          \/ /\ t \in PrefixTurns(h.order, h.cont)
             /\ ToSet(SaidBy(t)) \subseteq h.cont.covers

(* What a background process did after its turn ended is in every later history,  *)
(* beside the turn or in the summary, also when it happens while the summary that *)
(* swallows its turn is being made (session_history_replay.go,                    *)
(* session_history_compaction.go).                                                *)
HistNotesReachModel ==
    LET h == LoadHistory(histLog, 0)
    IN \A t \in HistTurns : HasEnded(t) /\ ~ForgottenByReview(t) =>
          \A n \in EventsOf(t, {"note"}) : n > EndOf(t) =>
              \/ n \in h.cont.covers
              \/ t \in RawTurns(h.order, h.cont) /\ n \in ToSet(h.turns[t].notes)
====
