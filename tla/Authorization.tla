---- MODULE Authorization ----
(* Whether a tool call may run: internal/app/session_authorization*.go,           *)
(* execution_service_authorize.go, tool_executor_paths.go, tool_executor_network.go *)
(* and the approvals a resumed turn replays (turn_history.go).                    *)
(*                                                                                *)
(* A check reads a Snapshot, and a request or an answer is appended later; what   *)
(* other turns and users append comes in between. An approval counts once (for    *)
(* the turn) or for the session. Mode and policies allow or refuse without asking.*)
EXTENDS Naturals, Sequences, FiniteSets

CONSTANTS
    AuthTurns,       \* turns of one session
    AuthUsers,       \* ResolvePermission calls that may be in flight together
    AuthJobs,        \* what a tool call asks for
    AuthPolicies,    \* configured actions for a path, a target and a command
    AuthModes,       \* permission modes
    AuthMaxCalls,    \* bound on the tool calls of a turn
    AuthMaxAnswers   \* bound on the answers

(* A job's paths and workdir are those outside of the workspace. opaque: the      *)
(* command hides what it touches; server: it stays in the background.             *)
AuthJobFields == {"tool", "command", "paths", "workdir", "targets", "opaque", "server"}

ASSUME AuthAssumption ==
    /\ AuthTurns \subseteq Nat \ {0} /\ AuthMaxCalls \in Nat /\ AuthMaxAnswers \in Nat
    /\ \A job \in AuthJobs : DOMAIN job = AuthJobFields /\ job.tool \in {"read", "fetch", "bash"}
    /\ AuthModes \subseteq {"auto", "read_only", "full_access"}
    /\ \A policy \in AuthPolicies, subject \in {"path", "target", "bash"} :
          policy[subject] \in {"none", "allow", "ask", "deny"}
    \* Files and network targets, which the code keeps apart, have different names.
    /\ \A job, other \in AuthJobs : (job.paths \cup job.workdir) \cap other.targets = {}

VARIABLES
    authConfig,    \* mode, policy, and whether providers repeat a call id in another turn
    authRequests,  \* the requests in the log; a request's id is its position
    authAnswers,   \* the resolutions in the log, in order
    authState,     \* projected: pending ids, session grants, approved executions
    authTurn,      \* a turn's runner and the tool call it is at
    authUser       \* a ResolvePermission call

authVars == <<authConfig, authRequests, authAnswers, authState, authTurn, authUser>>

NoJob == [tool |-> "read", command |-> "", paths |-> {}, workdir |-> {}, targets |-> {},
          opaque |-> FALSE, server |-> FALSE]
NoGrants == [paths |-> {}, targets |-> {}, execs |-> {}]
IdleTurn ==
    [pc |-> "idle", calls |-> 0, job |-> NoJob, seen |-> NoGrants, known |-> 0,
     checked |-> {}, allowed |-> {}, once |-> {}, network |-> FALSE,
     ask |-> [kind |-> "none", subject |-> "", network |-> FALSE], wait |-> 0]
IdleUser == [pc |-> "idle", id |-> 0, decision |-> "deny"]

AuthInit ==
    /\ \E mode \in AuthModes, policy \in AuthPolicies, repeat \in BOOLEAN :
          authConfig = [mode |-> mode, policy |-> policy, repeat |-> repeat]
    /\ authRequests = <<>> /\ authAnswers = <<>>
    /\ authState = [pending |-> {}, grants |-> NoGrants, approved |-> {}]
    /\ authTurn = [t \in AuthTurns |-> IdleTurn]
    /\ authUser = [u \in AuthUsers |-> IdleUser]

------------------------------------------------------------------------------
(* What a check looks at.                                                         *)

FullAccess == authConfig.mode = "full_access"

(* permissionPolicyForState: under full access there is no policy.                *)
Policy(subject) == IF FullAccess THEN "none" ELSE authConfig.policy[subject]

(* executionID is made of the call id, which another turn's provider may repeat.  *)
CallIdAt(t, n) == <<IF authConfig.repeat THEN 0 ELSE t, n>>
CallId(t) == CallIdAt(t, authTurn[t].calls)

Subjects(grants) == {g.subject : g \in grants}

(* scopeFromState over the session grants of some Snapshot: with what the turn may *)
(* use and what a policy allowed this call.                                       *)
InScope(paths, t) == Subjects(paths) \cup authTurn[t].once \cup authTurn[t].allowed

(* findPendingPathPermission and findPendingNetworkPermission take any turn's     *)
(* request for the same thing; findPendingExecutionPermission goes by call id.    *)
PendingFor(kind, subject, t) ==
    {i \in authState.pending :
        LET r == authRequests[i] IN
        /\ r.kind = kind /\ r.job.tool = authTurn[t].job.tool
        /\ IF kind = "execution" THEN r.call = CallId(t) ELSE r.subject = subject}

(* exactExecutionApprovalAllowed: this very call was approved, with the policies  *)
(* it now has.                                                                    *)
ExactApprovalAnyTurn(t, turn) ==
    \E a \in authState.approved :
        a.call = CallIdAt(t, turn.calls) /\ a.job = turn.job /\ a.network = turn.network
ExactApproval(t, turn) ==
    \E a \in authState.approved :
        /\ a.call = CallIdAt(t, turn.calls) /\ a.turn = t
        /\ a.job = turn.job /\ a.network = turn.network

(* executionGrantAllowed                                                          *)
GrantAllowed(execs, job) ==
    \E g \in execs :
        /\ g.job.command = job.command
        /\ job.workdir \subseteq g.job.workdir /\ job.targets \subseteq g.job.targets

------------------------------------------------------------------------------
(* A turn's tool call.                                                            *)

Step(t, turn) ==
    /\ authTurn' = [authTurn EXCEPT ![t] = turn]
    /\ UNCHANGED <<authConfig, authRequests, authAnswers, authState, authUser>>

At(t, pc) == [authTurn[t] EXCEPT !.pc = pc]

(* The call is refused, fails or has returned; what the turn may use stays.       *)
Ended(t) == [IdleTurn EXCEPT !.calls = authTurn[t].calls, !.once = authTurn[t].once]

(* A request there is already is waited for; otherwise one is appended in a step  *)
(* of its own.                                                                    *)
AskUser(t, kind, subject, network) ==
    LET pending == PendingFor(kind, subject, t) IN
    IF pending = {} THEN [At(t, "ask") EXCEPT !.ask = [kind |-> kind, subject |-> subject,
                                                       network |-> network]]
    ELSE [At(t, "wait") EXCEPT !.wait = CHOOSE i \in pending : \A j \in pending : i <= j]

(* ToolExecutor.Execute takes its Snapshot: a command is judged by it to the end, *)
(* and a tool's scope is made from it.                                            *)
Execute(t, turn) ==
    Step(t, [turn EXCEPT
        !.pc = IF turn.job.tool = "bash" /\ (FullAccess \/ ExactApproval(t, turn))
               THEN "ran" ELSE "check",
        !.seen = authState.grants, !.known = Len(authAnswers), !.checked = {}, !.allowed = {}])

CallTool(t, job) ==
    /\ authTurn[t].pc = "idle" /\ authTurn[t].calls < AuthMaxCalls
    /\ Execute(t, [authTurn[t] EXCEPT !.job = job, !.calls = @ + 1, !.network = FALSE])

ExecuteAgain(t) == authTurn[t].pc = "execute" /\ Execute(t, authTurn[t])

(* AuthorizePath, with a Snapshot of its own.                                     *)
AuthorizePath(t, p) ==
    /\ authTurn[t].pc = "check" /\ p \in authTurn[t].job.paths \ authTurn[t].checked
    /\ Step(t, IF FullAccess \/ p \in InScope(authState.grants.paths, t)
               THEN [authTurn[t] EXCEPT !.checked = @ \cup {p}]
               ELSE IF Policy("path") = "allow"
               THEN [authTurn[t] EXCEPT !.checked = @ \cup {p}, !.allowed = @ \cup {p}]
               ELSE IF Policy("path") = "deny" THEN Ended(t)
               ELSE AskUser(t, "path", p, FALSE))

PathsChecked(t) == authTurn[t].pc = "check" /\ authTurn[t].job.paths \subseteq authTurn[t].checked

(* AuthorizeNetwork: a command's targets are judged below instead.                *)
AuthorizeNetwork(t, n) ==
    /\ PathsChecked(t) /\ authTurn[t].job.tool # "bash"
    /\ n \in authTurn[t].job.targets \ authTurn[t].checked
    /\ Step(t, IF FullAccess \/ n \in authTurn[t].once \cup Subjects(authState.grants.targets)
                    \/ Policy("target") = "allow"
               THEN [authTurn[t] EXCEPT !.checked = @ \cup {n}]
               ELSE IF Policy("target") = "deny" THEN Ended(t)
               ELSE AskUser(t, "network", n, FALSE))

(* A tool runs in the scope of the first Snapshot, which may be narrower than the *)
(* one that authorized it; it fails then.                                         *)
RunInScope(t) ==
    /\ PathsChecked(t) /\ authTurn[t].job.tool # "bash"
    /\ authTurn[t].job.targets \subseteq authTurn[t].checked
    /\ Step(t, IF FullAccess \/ authTurn[t].job.paths \subseteq InScope(authTurn[t].seen.paths, t)
               THEN At(t, "ran") ELSE Ended(t))

(* authorizeExecution after its paths: what still needs an approval.              *)
RunCommand(t) ==
    LET turn == authTurn[t]
        job == turn.job
        outside == job.workdir \ InScope(turn.seen.paths, t)
        unknown == job.targets \ Subjects(turn.seen.targets)
        scope == outside # {} /\ Policy("path") # "allow"
        network == unknown # {} /\ (Policy("target") = "ask"
                                    \/ (Policy("target") = "none" /\ ~turn.network))
        granted == GrantAllowed(turn.seen.execs, job)
        readOnly == /\ authConfig.mode = "read_only" /\ ~turn.network
                    /\ turn.once = {} /\ ~granted
        intent == authConfig.mode = "auto" /\ job.server
        waived == Policy("bash") = "allow"
    IN
    /\ PathsChecked(t) /\ job.tool = "bash"
    /\ Step(t, IF \/ outside # {} /\ Policy("path") = "deny"
                  \/ unknown # {} /\ Policy("target") = "deny" THEN Ended(t)
               ELSE IF granted /\ ~scope /\ ~network THEN At(t, "ran")
               ELSE IF Policy("bash") = "deny" THEN Ended(t)
               ELSE IF \/ scope \/ network \/ job.opaque \/ Policy("bash") = "ask"
                       \/ (readOnly \/ intent) /\ ~waived
               THEN [At(t, "approve") EXCEPT !.ask.network = network]
               ELSE At(t, "ran"))

(* AuthorizeExecution, with a Snapshot of its own.                                *)
AuthorizeExecution(t) ==
    /\ authTurn[t].pc = "approve"
    /\ Step(t, AskUser(t, "execution", "", authTurn[t].ask.network))

AppendRequest(t) ==
    LET turn == authTurn[t] IN
    /\ turn.pc = "ask"
    /\ authRequests' = Append(authRequests,
          [turn |-> t, call |-> CallId(t), kind |-> turn.ask.kind, subject |-> turn.ask.subject,
           network |-> turn.ask.network, job |-> turn.job, known |-> turn.known])
    /\ authState' = [authState EXCEPT !.pending = @ \cup {Len(authRequests')}]
    /\ authTurn' = [authTurn EXCEPT ![t] = [At(t, "wait") EXCEPT !.wait = Len(authRequests')]]
    /\ UNCHANGED <<authConfig, authAnswers, authUser>>

CallReturns(t) == authTurn[t].pc = "ran" /\ Step(t, Ended(t))

------------------------------------------------------------------------------
(* The user's answer and the turn's next attempt.                                 *)

(* ResolvePermission reads the request...                                         *)
ReadRequest(u, id, decision) ==
    /\ authUser[u].pc = "idle" /\ id \in authState.pending
    /\ Len(authAnswers) + Cardinality({v \in AuthUsers : authUser[v].pc = "append"}) < AuthMaxAnswers
    /\ authUser' = [authUser EXCEPT ![u] = [pc |-> "append", id |-> id, decision |-> decision]]
    /\ UNCHANGED <<authConfig, authRequests, authAnswers, authState, authTurn>>

Granted(old, subjects, id) == old \cup {[subject |-> s, from |-> id] : s \in subjects}

(* ...and what the projector makes of the answer: a permission is granted for the *)
(* session only while its request is pending, an execution in any case.           *)
PermissionResolved(id, decision, pending) ==
    LET r == authRequests[id]
        given == IF pending /\ decision = "session" THEN {r.subject} ELSE {}
    IN [authState EXCEPT
          !.grants.paths = Granted(@, IF r.kind = "path" THEN given ELSE {}, id),
          !.grants.targets = Granted(@, IF r.kind = "network" THEN given ELSE {}, id)]

ExecutionResolved(id, decision, pending) ==
    LET r == authRequests[id]
        session == decision = "session"
        others == {a \in authState.approved : a.call # r.call}
        approval == [call |-> r.call, turn |-> r.turn, job |-> r.job, network |-> r.network]
    IN [authState EXCEPT
          !.grants.paths = Granted(@, IF session THEN r.job.workdir ELSE {}, id),
          !.grants.targets = Granted(@, IF session THEN r.job.targets ELSE {}, id),
          !.grants.execs = @ \cup (IF session THEN {[job |-> r.job, from |-> id]} ELSE {}),
          !.approved = IF ~pending THEN @
                       ELSE IF decision = "deny" THEN others ELSE others \cup {approval}]

AppendAnswer(u) ==
    LET id == authUser[u].id
        decision == authUser[u].decision
        pending == id \in authState.pending
    IN
    /\ authUser[u].pc = "append"
    /\ authAnswers' = Append(authAnswers, [id |-> id, decision |-> decision])
    /\ authState' = [(IF authRequests[id].kind = "execution"
                      THEN ExecutionResolved(id, decision, pending)
                      ELSE PermissionResolved(id, decision, pending))
                     EXCEPT !.pending = @ \ {id}]
    /\ authUser' = [authUser EXCEPT ![u] = IdleUser]
    /\ UNCHANGED <<authConfig, authRequests, authTurn>>

(* buildTurnReplay: what was approved once in this turn.                          *)
ReplayedOnce(t) ==
    UNION {LET r == authRequests[authAnswers[k].id] IN
           IF authAnswers[k].decision # "once" \/ r.turn # t THEN {}
           ELSE IF r.kind = "execution" THEN r.job.workdir ELSE {r.subject}
           : k \in DOMAIN authAnswers}

(* resumePendingTool: the turn of the request is resumed, with the last answer; a *)
(* turn that waits for another turn's request is not. Only an answer about the    *)
(* command itself carries its network policy.                                     *)
ResumeWithoutPolicy(t) ==
    LET r == authRequests[authTurn[t].wait]
        answers == {k \in DOMAIN authAnswers : authAnswers[k].id = authTurn[t].wait}
        last == CHOOSE k \in answers : \A j \in answers : j <= k
    IN
    /\ authTurn[t].pc = "wait" /\ r.turn = t /\ answers # {}
    /\ Step(t, [(IF authAnswers[last].decision = "deny" THEN Ended(t) ELSE At(t, "execute"))
                EXCEPT !.once = ReplayedOnce(t), !.wait = 0])
Resume(t) ==
    LET r == authRequests[authTurn[t].wait]
        answers == {k \in DOMAIN authAnswers : authAnswers[k].id = authTurn[t].wait}
        last == CHOOSE k \in answers : \A j \in answers : j <= k
    IN
    /\ authTurn[t].pc = "wait" /\ r.turn = t /\ answers # {}
    /\ Step(t, [(IF authAnswers[last].decision = "deny" THEN Ended(t)
                 ELSE [At(t, "execute") EXCEPT !.network = r.network, !.wait = 0])
                EXCEPT !.once = ReplayedOnce(t)])

------------------------------------------------------------------------------

AuthDecisions == {"deny", "once", "session"}

AuthTurnStep(t) ==
    \/ \E job \in AuthJobs : CallTool(t, job)
    \/ ExecuteAgain(t) \/ RunInScope(t) \/ RunCommand(t) \/ AuthorizeExecution(t)
    \/ \E p \in authTurn[t].job.paths : AuthorizePath(t, p)
    \/ \E n \in authTurn[t].job.targets : AuthorizeNetwork(t, n)
    \/ AppendRequest(t) \/ CallReturns(t) \/ Resume(t)

AuthNext ==
    \/ \E t \in AuthTurns : AuthTurnStep(t)
    \/ \E u \in AuthUsers :
          \/ AppendAnswer(u)
          \/ \E id \in authState.pending, d \in AuthDecisions : ReadRequest(u, id, d)

AuthSpec == AuthInit /\ [][AuthNext]_authVars

------------------------------------------------------------------------------
(* What was approved, by the log alone.                                           *)

First(k) == \A j \in 1..(k - 1) : authAnswers[j].id # authAnswers[k].id

(* Answer k lets turn t do something.                                             *)
CountsFor(k, t) ==
    \/ authAnswers[k].decision = "session"
    \/ authAnswers[k].decision = "once" /\ authRequests[authAnswers[k].id].turn = t

ApprovesPath(k, t, p) ==
    LET r == authRequests[authAnswers[k].id] IN
    /\ CountsFor(k, t)
    /\ \/ r.kind = "path" /\ r.subject = p
       \/ r.kind = "execution" /\ p \in r.job.workdir
ApprovesTarget(k, t, n) ==
    LET r == authRequests[authAnswers[k].id] IN
    /\ CountsFor(k, t)
    /\ \/ r.kind = "network" /\ r.subject = n
       \/ r.kind = "execution" /\ authAnswers[k].decision = "session" /\ n \in r.job.targets
ApprovesCommand(k, t, call, job) ==
    LET r == authRequests[authAnswers[k].id] IN
    /\ r.kind = "execution" /\ CountsFor(k, t)
    /\ \/ r.turn = t /\ r.call = call /\ r.job = job
       \/ /\ authAnswers[k].decision = "session" /\ r.job.command = job.command
          /\ job.workdir \subseteq r.job.workdir /\ job.targets \subseteq r.job.targets

(* A command that nobody approved as such may run if nothing about it needs it.   *)
NeedsNoApproval(t, job) ==
    LET answers == DOMAIN authAnswers IN
    /\ ~job.opaque /\ Policy("bash") \notin {"ask", "deny"}
    /\ \A w \in job.workdir : Policy("path") = "allow" \/ \E k \in answers : ApprovesPath(k, t, w)
    /\ \A n \in job.targets :
          Policy("target") = "allow"
          \/ \E k \in answers : authAnswers[k].decision = "session" /\ ApprovesTarget(k, t, n)
    /\ \/ Policy("bash") = "allow"
       \/ /\ ~(authConfig.mode = "auto" /\ job.server)
          /\ authConfig.mode = "read_only" =>
                \E k \in answers : authAnswers[k].decision = "once" /\ CountsFor(k, t)

AuthTypeOK ==
    /\ authState.pending \subseteq DOMAIN authRequests
    /\ \A k \in DOMAIN authAnswers :
          /\ authAnswers[k].id \in DOMAIN authRequests \ authState.pending
          /\ authAnswers[k].decision \in AuthDecisions
    /\ \A t \in AuthTurns :
          /\ authTurn[t].pc \in {"idle", "execute", "check", "approve", "ask", "wait", "ran"}
          /\ authTurn[t].wait \in 0..Len(authRequests)
          /\ authTurn[t].job \in AuthJobs \cup {NoJob} /\ authTurn[t].calls <= AuthMaxCalls
    /\ \A u \in AuthUsers : authUser[u].id \in 0..Len(authRequests)

(* Whatever the turns and the users do at the same time, a tool call that runs    *)
(* touches only what full access, a policy or an answer in the log allows: an     *)
(* answer given once serves its own turn only, and one about a command serves     *)
(* that call, or the same command anywhere if it was for the session. Call ids    *)
(* may repeat in another turn.                                                    *)
AuthRunIsCovered ==
    \A t \in AuthTurns :
        LET job == authTurn[t].job
            answers == DOMAIN authAnswers
        IN authTurn[t].pc = "ran" /\ ~FullAccess =>
           /\ \A p \in job.paths :
                 Policy("path") = "allow" \/ \E k \in answers : ApprovesPath(k, t, p)
           /\ IF job.tool = "bash"
              THEN \/ NeedsNoApproval(t, job)
                   \/ \E k \in answers : ApprovesCommand(k, t, CallId(t), job)
              ELSE \A n \in job.targets :
                      Policy("target") = "allow" \/ \E k \in answers : ApprovesTarget(k, t, n)

(* Nobody is asked again for what was approved before the call was made or        *)
(* resumed: approving a call once is enough for it to get on. (An approval of the *)
(* very call may be forgotten when another turn has a call of the same id.)       *)
AuthAskedOnce ==
    \A i \in DOMAIN authRequests : \A k \in 1..authRequests[i].known :
        LET r == authRequests[i] IN
        First(k) =>
            CASE r.kind = "path" -> ~ApprovesPath(k, r.turn, r.subject)
              [] r.kind = "network" -> ~ApprovesTarget(k, r.turn, r.subject)
              [] OTHER -> authConfig.repeat \/ ~ApprovesCommand(k, r.turn, r.call, r.job)
====
