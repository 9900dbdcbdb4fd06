---- MODULE Budget ----
(* What sessions have cost and when a turn may ask the provider again:            *)
(* internal/app/session_budget.go, session_runtime.go, session_state.go (append), *)
(* turn_runner_loop.go (enforceBudgetLimit).                                      *)
(*                                                                                *)
(* A session's cost is a summary kept beside its projector under the session's    *)
(* lock. The cost of all sessions is computed once, session by session and        *)
(* without a lock, then kept and moved by what each append changes.               *)
EXTENDS Integers, FiniteSets, FiniteSetsExt

CONSTANTS
    BgtSessions,   \* the sessions in the store
    BgtTurns,      \* turns that may run at the same time
    BgtHome,       \* the session of a turn
    BgtMaxCost,    \* bound on the cost of a session
    BgtLimit,      \* the configured budget of a session
    BgtTotalLimit  \* the configured budget over all sessions; 0: none

ASSUME BgtAssumption ==
    /\ IsFiniteSet(BgtSessions)
    /\ BgtHome \in [BgtTurns -> BgtSessions]
    /\ BgtMaxCost \in Nat \ {0} /\ BgtLimit \in Nat /\ BgtTotalLimit \in Nat

VARIABLES
    bgtCost,     \* what the usage events in a session's log add up to
    bgtRuntime,  \* a session's projector and its cost summary
    bgtTotals,   \* the cost over all sessions, and whether it is warm
    bgtTurn,     \* where a turn is, and the sum it is computing
    bgtExact     \* history: no usage was appended while the warm total was computed

bgtVars == <<bgtCost, bgtRuntime, bgtTotals, bgtTurn, bgtExact>>

IdleBudgetTurn == [pc |-> "check", todo |-> {}, sum |-> 0, session |-> "", read |-> 0,
                   disturbed |-> FALSE]

BgtInit ==
    /\ bgtCost \in [BgtSessions -> 0 .. 1]
    /\ bgtRuntime = [s \in BgtSessions |-> [projector |-> FALSE, warm |-> FALSE, cost |-> 0]]
    /\ bgtTotals = [cost |-> 0, warm |-> FALSE]
    /\ bgtTurn = [t \in BgtTurns |-> IdleBudgetTurn]
    /\ bgtExact = TRUE

Exceeds(cost, limit) == limit > 0 /\ cost >= limit

BgtAt(t, pc) == bgtTurn[t].pc = pc
BgtGo(t, pc) == bgtTurn' = [bgtTurn EXCEPT ![t].pc = pc]

------------------------------------------------------------------------------
(* BudgetStatus.                                                                  *)

(* The session's own cost is read from its projector, which is loaded for it.     *)
CheckSession(t) ==
    LET s == BgtHome[t]
    IN /\ BgtAt(t, "check")
       /\ bgtRuntime' = [bgtRuntime EXCEPT ![s].projector = TRUE]
       /\ BgtGo(t, IF Exceeds(bgtCost[s], BgtLimit) THEN "refused"
                   ELSE IF BgtTotalLimit = 0 THEN "request" ELSE "total")
       /\ UNCHANGED <<bgtCost, bgtTotals, bgtExact>>

Decide(t, total) == IF Exceeds(total, BgtTotalLimit) THEN "refused" ELSE "request"

(* A warm total is the answer. Otherwise the sessions are listed.                 *)
CheckTotal(t) ==
    /\ BgtAt(t, "total")
    /\ IF bgtTotals.warm
       THEN BgtGo(t, Decide(t, bgtTotals.cost))
       ELSE bgtTurn' = [bgtTurn EXCEPT ![t] =
               [pc |-> "sum", todo |-> BgtSessions, sum |-> 0, session |-> "", read |-> 0,
                disturbed |-> FALSE]]
    /\ UNCHANGED <<bgtCost, bgtRuntime, bgtTotals, bgtExact>>

Counted(t, s, cost) ==
    bgtTurn' = [bgtTurn EXCEPT ![t] =
        [pc |-> "sum", todo |-> bgtTurn[t].todo \ {s}, sum |-> bgtTurn[t].sum + cost,
         session |-> "", read |-> 0, disturbed |-> bgtTurn[t].disturbed]]

Summarised(s, cost) ==
    bgtRuntime' = [bgtRuntime EXCEPT ![s] =
        [projector |-> bgtRuntime[s].projector, warm |-> TRUE, cost |-> cost]]

(* budgetSummary: a warm summary, or one made from the loaded projector.          *)
ReadSummary(t, s) ==
    /\ BgtAt(t, "sum") /\ s \in bgtTurn[t].todo
    /\ bgtRuntime[s].warm \/ bgtRuntime[s].projector
    /\ LET cost == IF bgtRuntime[s].warm THEN bgtRuntime[s].cost ELSE bgtCost[s]
       IN Summarised(s, cost) /\ Counted(t, s, cost)
    /\ UNCHANGED <<bgtCost, bgtTotals, bgtExact>>

(* A session nothing has loaded is replayed, without its lock.                    *)
ReplaySummary(t, s) ==
    /\ BgtAt(t, "sum") /\ s \in bgtTurn[t].todo
    /\ ~bgtRuntime[s].warm /\ ~bgtRuntime[s].projector
    /\ bgtTurn' = [bgtTurn EXCEPT ![t] =
           [pc |-> "replayed", todo |-> bgtTurn[t].todo, sum |-> bgtTurn[t].sum,
            session |-> s, read |-> bgtCost[s], disturbed |-> bgtTurn[t].disturbed]]
    /\ UNCHANGED <<bgtCost, bgtRuntime, bgtTotals, bgtExact>>

(* Mutant: what was replayed is stored over what was loaded meanwhile.            *)
ReplayedRegardless(t) == bgtTurn[t].read

(* Back under the lock, what another call loaded meanwhile is preferred.          *)
ReplayedCost(t) ==
    LET s == bgtTurn[t].session
    IN IF bgtRuntime[s].warm THEN bgtRuntime[s].cost
       ELSE IF bgtRuntime[s].projector THEN bgtCost[s] ELSE bgtTurn[t].read
StoreReplayed(t) ==
    LET s == bgtTurn[t].session
    IN /\ BgtAt(t, "replayed")
       /\ Summarised(s, ReplayedCost(t)) /\ Counted(t, s, ReplayedCost(t))
       /\ UNCHANGED <<bgtCost, bgtTotals, bgtExact>>

(* The sum is stored as it is, over whatever is there.                            *)
WarmTotal(t) ==
    /\ BgtAt(t, "sum") /\ bgtTurn[t].todo = {}
    /\ bgtTotals' = [cost |-> bgtTurn[t].sum, warm |-> TRUE]
    /\ bgtExact' = ~bgtTurn[t].disturbed
    /\ BgtGo(t, Decide(t, bgtTurn[t].sum))
    /\ UNCHANGED <<bgtCost, bgtRuntime>>

------------------------------------------------------------------------------
(* Usage events.                                                                  *)

(* The summary before an append: ensureBudgetSummaryLocked.                       *)
Before(s) == IF bgtRuntime[s].warm THEN bgtRuntime[s].cost ELSE bgtCost[s]

(* Under the session's lock: the log, the summary, and the change of the total    *)
(* if there is one. Sums in progress may have read the session already.           *)
AppendUsage(t, cost) ==
    LET s == BgtHome[t]
    IN /\ bgtCost' = [bgtCost EXCEPT ![s] = cost]
       /\ bgtRuntime' = [bgtRuntime EXCEPT ![s] = [projector |-> TRUE, warm |-> TRUE, cost |-> cost]]
       /\ bgtTotals' = IF bgtTotals.warm
                       THEN [cost |-> bgtTotals.cost + cost - Before(s), warm |-> TRUE] ELSE bgtTotals
       /\ UNCHANGED bgtExact

Disturbs(turns) ==
    [t \in BgtTurns |-> [turns[t] EXCEPT !.disturbed = @ \/ turns[t].pc \in {"sum", "replayed"}]]

(* The attempt's estimated cost, recorded when the provider answered.             *)
RecordUsage(t) ==
    /\ BgtAt(t, "request") /\ bgtCost[BgtHome[t]] < BgtMaxCost
    /\ \E cost \in bgtCost[BgtHome[t]] + 1 .. BgtMaxCost : AppendUsage(t, cost)
    /\ \E reports \in BOOLEAN :
          bgtTurn' = Disturbs([bgtTurn EXCEPT ![t] =
              IF reports THEN [IdleBudgetTurn EXCEPT !.pc = "report"] ELSE IdleBudgetTurn])

(* What the provider reports replaces the estimate; it may be less.               *)
ReportUsage(t) ==
    /\ BgtAt(t, "report")
    /\ \E cost \in {bgtCost[BgtHome[t]] - 1, bgtCost[BgtHome[t]]} : cost >= 0 /\ AppendUsage(t, cost)
    /\ bgtTurn' = Disturbs([bgtTurn EXCEPT ![t] = IdleBudgetTurn])

(* The user starts another turn after a refused one.                              *)
NextTurn(t) ==
    /\ BgtAt(t, "refused")
    /\ bgtTurn' = [bgtTurn EXCEPT ![t] = IdleBudgetTurn]
    /\ UNCHANGED <<bgtCost, bgtRuntime, bgtTotals, bgtExact>>

BgtNext ==
    \E t \in BgtTurns :
        \/ CheckSession(t) \/ CheckTotal(t) \/ (\E s \in BgtSessions : ReadSummary(t, s))
        \/ (\E s \in BgtSessions : ReplaySummary(t, s)) \/ StoreReplayed(t) \/ WarmTotal(t)
        \/ RecordUsage(t) \/ ReportUsage(t) \/ NextTurn(t)

BgtSpec == BgtInit /\ [][BgtNext]_bgtVars

------------------------------------------------------------------------------
(* Properties.                                                                    *)

(* The costs have their types; a summary that is warm is the session's cost,      *)
(* whichever of a check and an append made it.                                    *)
BgtTypeOK ==
    /\ bgtCost \in [BgtSessions -> 0 .. BgtMaxCost]
    /\ bgtTotals.cost \in Int /\ bgtTotals.warm \in BOOLEAN
    /\ \A s \in BgtSessions : bgtRuntime[s].warm => bgtRuntime[s].cost = bgtCost[s]

(* The total that refuses requests in every session is what the sessions cost, if *)
(* no usage was appended while it was computed: each later append, also one whose *)
(* reported cost is below the estimate, moves it by what it changes.              *)
BgtQuietTotalIsExact ==
    bgtTotals.warm /\ bgtExact => bgtTotals.cost = MapThenSumSet(LAMBDA s : bgtCost[s], BgtSessions)
====
