---- MODULE ToolProofs ----
(* What a tool call may do. It runs only with what allows it, and nobody is asked *)
(* twice, for any number of turns, users, jobs, policies, calls and answers. For  *)
(* any number of turns, files and patches: calls that take the locks of several   *)
(* files never wait for one another in a circle, a write replaces nothing that    *)
(* was not read, a restore brings back exactly what was there before its turn,    *)
(* and patches that are through are not mixed.                                    *)
EXTENDS Authorization, FileMutation, FiniteSetTheorems, WellFoundedInduction, TLAPS

------------------------------------------------------------------------------
(* The shape of the state.                                                        *)

AuthSubjects == {""} \cup UNION {job.paths \cup job.workdir \cup job.targets : job \in AuthJobs}
AuthCallIds == (AuthTurns \cup {0}) \X Nat
AuthKinds == {"path", "network", "execution"}
AuthRequestRecords ==
    [turn : AuthTurns, call : AuthCallIds, kind : AuthKinds, subject : AuthSubjects,
     network : BOOLEAN, job : AuthJobs, known : Nat]
AuthGrants == SUBSET [subject : AuthSubjects, from : Nat]
AuthGrantRecords ==
    [paths : AuthGrants, targets : AuthGrants, execs : SUBSET [job : AuthJobs, from : Nat]]
AuthApprovals == [call : AuthCallIds, turn : AuthTurns, job : AuthJobs, network : BOOLEAN]
AuthPcs == {"idle", "execute", "check", "approve", "ask", "wait", "ran"}
AuthTurnRecords ==
    [pc : AuthPcs, calls : Nat, job : AuthJobs \cup {NoJob}, seen : AuthGrantRecords,
     known : Nat, checked : SUBSET AuthSubjects, allowed : SUBSET AuthSubjects,
     once : SUBSET AuthSubjects, network : BOOLEAN,
     ask : [kind : AuthKinds \cup {"none"}, subject : AuthSubjects, network : BOOLEAN],
     wait : Nat]

AuthConfigShape ==
    authConfig \in [mode : AuthModes, policy : AuthPolicies, repeat : BOOLEAN]
AuthLogShape ==
    /\ authRequests \in Seq(AuthRequestRecords)
    /\ authAnswers \in Seq([id : Nat, decision : AuthDecisions])
    /\ \A k \in DOMAIN authAnswers : authAnswers[k].id \in DOMAIN authRequests
AuthStateShape ==
    /\ authState \in [pending : SUBSET Nat, grants : AuthGrantRecords,
                      approved : SUBSET AuthApprovals]
    /\ authState.pending \subseteq DOMAIN authRequests
AuthTurnShape == authTurn \in [AuthTurns -> AuthTurnRecords]
AuthUserShape ==
    /\ authUser \in [AuthUsers -> [pc : {"idle", "append"}, id : Nat, decision : AuthDecisions]]
    /\ \A u \in AuthUsers : authUser[u].pc = "append" => authUser[u].id \in DOMAIN authRequests
AuthShape ==
    AuthConfigShape /\ AuthLogShape /\ AuthStateShape /\ AuthTurnShape /\ AuthUserShape

------------------------------------------------------------------------------
(* What the log allows, of a turn's record.                                       *)

Asked(k) == authRequests[authAnswers[k].id]
MayPath(t, p) ==
    Policy("path") = "allow" \/ \E k \in DOMAIN authAnswers : ApprovesPath(k, t, p)
MayTarget(t, n) ==
    Policy("target") = "allow" \/ \E k \in DOMAIN authAnswers : ApprovesTarget(k, t, n)
MayRun(t, call, job) ==
    /\ \A p \in job.paths : MayPath(t, p)
    /\ IF job.tool = "bash"
       THEN \/ NeedsNoApproval(t, job)
            \/ \E k \in DOMAIN authAnswers : ApprovesCommand(k, t, call, job)
       ELSE \A n \in job.targets : MayTarget(t, n)

(* Answer k is for the session and about path p, target n or job.                 *)
SessionPath(k, p) ==
    /\ authAnswers[k].decision = "session"
    /\ \/ Asked(k).kind = "path" /\ Asked(k).subject = p
       \/ Asked(k).kind = "execution" /\ p \in Asked(k).job.workdir
SessionTarget(k, n) ==
    /\ authAnswers[k].decision = "session"
    /\ \/ Asked(k).kind = "network" /\ Asked(k).subject = n
       \/ Asked(k).kind = "execution" /\ n \in Asked(k).job.targets
SessionJob(k, job) ==
    authAnswers[k].decision = "session" /\ Asked(k).kind = "execution" /\ Asked(k).job = job

(* Answer k lets turn t use x until the turn ends.                                *)
OnceFor(k, t, x) ==
    /\ authAnswers[k].decision = "once" /\ Asked(k).turn = t
    /\ x \in IF Asked(k).kind = "execution" THEN Asked(k).job.workdir ELSE {Asked(k).subject}

(* Answer k approves this very call.                                              *)
ExactFor(k, t, call, job) ==
    /\ authAnswers[k].decision # "deny" /\ Asked(k).kind = "execution"
    /\ Asked(k).turn = t /\ Asked(k).call = call /\ Asked(k).job = job

GrantsAnswered(grants) ==
    /\ \A g \in grants.paths : \E k \in DOMAIN authAnswers : SessionPath(k, g.subject)
    /\ \A g \in grants.targets : \E k \in DOMAIN authAnswers : SessionTarget(k, g.subject)
    /\ \A g \in grants.execs : \E k \in DOMAIN authAnswers : SessionJob(k, g.job)

ApprovedAnswered ==
    \A a \in authState.approved :
        \E k \in DOMAIN authAnswers : ExactFor(k, a.turn, a.call, a.job)

(* A request is about what its call needs, and its call is one its turn made.     *)
RequestsAreOwn ==
    \A i \in DOMAIN authRequests :
        LET r == authRequests[i] IN
        /\ r.kind = "path" => r.subject \in r.job.paths
        /\ r.kind = "network" => r.subject \in r.job.targets
        /\ r.network => r.kind = "execution"
        /\ r.kind = "execution" => \A p \in r.job.paths : FullAccess \/ MayPath(r.turn, p)

OwnRequests(t, turn) ==
    \A i \in DOMAIN authRequests :
        LET r == authRequests[i] IN
        r.turn = t => /\ r.call[2] \in 1..turn.calls /\ r.call = CallIdAt(t, r.call[2])
                      /\ r.call[2] = turn.calls /\ turn.pc # "idle" => r.job = turn.job

TurnCovered(t, turn) ==
    /\ turn.pc # "idle" => turn.job \in AuthJobs /\ turn.calls \in Nat \ {0}
    /\ GrantsAnswered(turn.seen)
    /\ \A x \in turn.once : \E k \in DOMAIN authAnswers : OnceFor(k, t, x)
    /\ turn.allowed # {} => Policy("path") = "allow"
    /\ \A p \in turn.checked \cap turn.job.paths : FullAccess \/ MayPath(t, p)
    /\ \A n \in turn.checked \cap turn.job.targets : FullAccess \/ MayTarget(t, n)
    /\ turn.network => /\ turn.pc # "idle"
                       /\ \E k \in DOMAIN authAnswers :
                             ExactFor(k, t, CallIdAt(t, turn.calls), turn.job)
    /\ turn.pc = "ask" =>
          /\ turn.ask.kind \in AuthKinds
          /\ turn.ask.kind = "path" => turn.ask.subject \in turn.job.paths
          /\ turn.ask.kind = "network" => turn.ask.subject \in turn.job.targets
          /\ turn.ask.network => turn.ask.kind = "execution"
    /\ turn.pc = "approve" \/ (turn.pc = "ask" /\ turn.ask.kind = "execution") =>
          turn.job.paths \subseteq turn.checked
    /\ turn.pc = "wait" =>
          /\ turn.wait \in DOMAIN authRequests
          /\ authRequests[turn.wait].kind = "execution" =>
                authRequests[turn.wait].call = CallIdAt(t, turn.calls)
    /\ turn.pc = "ran" => FullAccess \/ MayRun(t, CallIdAt(t, turn.calls), turn.job)

(* Whatever is granted, allowed, checked or running goes back to an answer in the *)
(* log or to a policy.                                                            *)
AuthCovered ==
    /\ GrantsAnswered(authState.grants) /\ ApprovedAnswered /\ RequestsAreOwn
    /\ \A t \in AuthTurns : OwnRequests(t, authTurn[t]) /\ TurnCovered(t, authTurn[t])

AuthInv == AuthShape /\ AuthCovered

------------------------------------------------------------------------------
(* What the projected state and the turns know of the log.                        *)

Answers(i) == {k \in DOMAIN authAnswers : authAnswers[k].id = i}

PendingUnanswered == \A i \in DOMAIN authRequests : i \in authState.pending <=> Answers(i) = {}

(* The grants hold what the first n answers gave for the session.                 *)
KnowsSession(grants, n) ==
    \A k \in 1..n :
        First(k) =>
        /\ \A p \in AuthSubjects : SessionPath(k, p) => p \in Subjects(grants.paths)
        /\ \A x \in AuthSubjects : SessionTarget(k, x) => x \in Subjects(grants.targets)
        /\ \A job \in AuthJobs : SessionJob(k, job) => \E g \in grants.execs : g.job = job

(* An approval of a call stays, where call ids are not repeated.                  *)
KnowsApprovals ==
    \A k \in DOMAIN authAnswers :
        First(k) /\ authAnswers[k].decision # "deny" /\ Asked(k).kind = "execution" =>
        [call |-> Asked(k).call, turn |-> Asked(k).turn, job |-> Asked(k).job,
         network |-> Asked(k).network] \in authState.approved

AskIsNew(t, kind, subject, call, job, known) ==
    \A k \in 1..known :
        First(k) =>
            CASE kind = "path" -> ~ApprovesPath(k, t, subject)
              [] kind = "network" -> ~ApprovesTarget(k, t, subject)
              [] OTHER -> authConfig.repeat \/ ~ApprovesCommand(k, t, call, job)

TurnKnows(t, turn) ==
    /\ turn.known <= Len(authAnswers) /\ KnowsSession(turn.seen, turn.known)
    \* A turn waits for its own unanswered request.
    /\ \A i \in authState.pending :
          authRequests[i].turn = t => turn.pc = "wait" /\ turn.wait = i
    \* It may use what was approved once, when it knows of the answer.
    /\ \A k \in DOMAIN authAnswers, x \in AuthSubjects :
          First(k) /\ OnceFor(k, t, x) =>
          x \in turn.once \/ (turn.pc = "wait" /\ turn.wait = authAnswers[k].id)
    \* It does not check a call again that was approved as such.
    /\ ~authConfig.repeat /\ turn.pc \notin {"idle", "ran"} =>
          \A k \in DOMAIN authAnswers :
              First(k) /\ ExactFor(k, t, CallIdAt(t, turn.calls), turn.job) =>
              \/ turn.pc = "wait" /\ turn.wait = authAnswers[k].id
              \/ turn.pc = "execute" /\ turn.network = Asked(k).network
    /\ turn.pc = "approve" =>
          /\ turn.job.tool = "bash"
          /\ AskIsNew(t, "execution", "", CallIdAt(t, turn.calls), turn.job, turn.known)
    /\ turn.pc = "ask" /\ turn.ask.kind = "execution" => turn.job.tool = "bash"
    /\ turn.pc = "ask" =>
          AskIsNew(t, turn.ask.kind, turn.ask.subject, CallIdAt(t, turn.calls), turn.job, turn.known)

AuthLogKnown ==
    /\ PendingUnanswered /\ KnowsSession(authState.grants, Len(authAnswers))
    /\ ~authConfig.repeat => KnowsApprovals
    /\ \A i \in DOMAIN authRequests :
          /\ authRequests[i].known <= Len(authAnswers)
          /\ authRequests[i].kind = "execution" => authRequests[i].job.tool = "bash"
    /\ AuthAskedOnce

AuthKnown == AuthLogKnown /\ \A t \in AuthTurns : TurnKnows(t, authTurn[t])

------------------------------------------------------------------------------
(* The log, its entries and the request that is waited for.                       *)

LEMMA AuthEntries ==
    ASSUME NEW S, NEW seq \in Seq(S)
    PROVE  /\ Len(seq) \in Nat /\ DOMAIN seq = 1..Len(seq)
           /\ \A i \in DOMAIN seq : seq[i] \in S
  OBVIOUS

LEMMA AuthLog ==
    ASSUME AuthShape
    PROVE  /\ Len(authRequests) \in Nat /\ DOMAIN authRequests = 1..Len(authRequests)
           /\ Len(authAnswers) \in Nat /\ DOMAIN authAnswers = 1..Len(authAnswers)
           /\ \A i \in DOMAIN authRequests : authRequests[i] \in AuthRequestRecords
           /\ \A k \in DOMAIN authAnswers :
                 /\ authAnswers[k] \in [id : Nat, decision : AuthDecisions]
                 /\ authAnswers[k].id \in DOMAIN authRequests /\ Asked(k) \in AuthRequestRecords
<1>1. /\ authRequests \in Seq(AuthRequestRecords)
      /\ authAnswers \in Seq([id : Nat, decision : AuthDecisions])
      /\ \A k \in DOMAIN authAnswers : authAnswers[k].id \in DOMAIN authRequests
  BY DEF AuthShape, AuthLogShape
<1> QED
  BY <1>1, AuthEntries DEF Asked

LEMMA AuthLeastExists ==
    ASSUME NEW S \in SUBSET Nat, S # {}
    PROVE  \E m \in S : \A n \in S : m <= n
<1>1. IsWellFoundedOn(OpToRel(<, Nat), Nat)
  BY NatLessThanWellFounded
<1>2. PICK m \in S : \A n \in S : <<n, m>> \notin OpToRel(<, Nat)
  BY <1>1, WFMin
<1>3. ASSUME NEW n \in S PROVE m <= n
  <2>1. ~ (n < m)
    BY <1>2 DEF OpToRel
  <2> QED
    BY <2>1
<1> QED
  BY <1>3

(* What a call that asks waits for is a pending request for the same thing.       *)
LEMMA AuthFirstPending ==
    ASSUME AuthShape, NEW kind, NEW subject, NEW t, PendingFor(kind, subject, t) # {}
    PROVE  (CHOOSE i \in PendingFor(kind, subject, t) :
               \A j \in PendingFor(kind, subject, t) : i <= j) \in PendingFor(kind, subject, t)
<1>1. PendingFor(kind, subject, t) \in SUBSET Nat
  BY DEF PendingFor, AuthShape, AuthStateShape
<1>2. \E i \in PendingFor(kind, subject, t) : \A j \in PendingFor(kind, subject, t) : i <= j
  BY <1>1, AuthLeastExists
<1> QED
  BY <1>2

------------------------------------------------------------------------------
(* The log only grows, and what it allows stays allowed.                          *)

AuthLogGrows ==
    /\ authConfig' = authConfig
    /\ \A i \in DOMAIN authRequests :
          i \in DOMAIN authRequests' /\ authRequests'[i] = authRequests[i]
    /\ \A k \in DOMAIN authAnswers :
          k \in DOMAIN authAnswers' /\ authAnswers'[k] = authAnswers[k]

LEMMA AuthPoliciesStay ==
    ASSUME AuthLogGrows, NEW subject
    PROVE  Policy(subject)' = Policy(subject) /\ FullAccess' = FullAccess
  BY DEF AuthLogGrows, Policy, FullAccess

LEMMA AuthAnswersStay ==
    ASSUME AuthShape, AuthLogGrows, NEW k \in DOMAIN authAnswers
    PROVE  /\ k \in DOMAIN authAnswers' /\ authAnswers'[k] = authAnswers[k]
           /\ authRequests'[authAnswers'[k].id] = authRequests[authAnswers[k].id]
           /\ \A t, p : ApprovesPath(k, t, p)' = ApprovesPath(k, t, p)
           /\ \A t, n : ApprovesTarget(k, t, n)' = ApprovesTarget(k, t, n)
           /\ \A t, call, job : ApprovesCommand(k, t, call, job)' = ApprovesCommand(k, t, call, job)
           /\ \A t : CountsFor(k, t)' = CountsFor(k, t)
           /\ \A p : SessionPath(k, p)' = SessionPath(k, p)
           /\ \A n : SessionTarget(k, n)' = SessionTarget(k, n)
           /\ \A job : SessionJob(k, job)' = SessionJob(k, job)
           /\ \A t, x : OnceFor(k, t, x)' = OnceFor(k, t, x)
           /\ \A t, call, job : ExactFor(k, t, call, job)' = ExactFor(k, t, call, job)
<1>1. k \in DOMAIN authAnswers' /\ authAnswers'[k] = authAnswers[k]
  BY DEF AuthLogGrows
<1>2. authRequests'[authAnswers'[k].id] = authRequests[authAnswers[k].id]
  BY <1>1, AuthLog DEF AuthLogGrows
<1> QED
  BY <1>1, <1>2 DEF ApprovesPath, ApprovesTarget, ApprovesCommand, CountsFor, SessionPath,
     SessionTarget, SessionJob, OnceFor, ExactFor, Asked

LEMMA AuthMayStays ==
    ASSUME AuthShape, AuthLogGrows, NEW t
    PROVE  /\ \A p : MayPath(t, p) => MayPath(t, p)'
           /\ \A n : MayTarget(t, n) => MayTarget(t, n)'
           /\ \A job : NeedsNoApproval(t, job) => NeedsNoApproval(t, job)'
           /\ \A call, job : MayRun(t, call, job) => MayRun(t, call, job)'
<1>1. \A p : MayPath(t, p) => MayPath(t, p)'
  BY AuthPoliciesStay, AuthAnswersStay DEF MayPath
<1>2. \A n : MayTarget(t, n) => MayTarget(t, n)'
  BY AuthPoliciesStay, AuthAnswersStay DEF MayTarget
<1>3. \A job : NeedsNoApproval(t, job) => NeedsNoApproval(t, job)'
  BY AuthPoliciesStay, AuthAnswersStay DEF NeedsNoApproval, AuthLogGrows
<1>4. \A call, job : MayRun(t, call, job) => MayRun(t, call, job)'
  BY <1>1, <1>2, <1>3, AuthAnswersStay DEF MayRun
<1> QED
  BY <1>1, <1>2, <1>3, <1>4

LEMMA AuthGrantsStay ==
    ASSUME AuthShape, AuthLogGrows, NEW grants, GrantsAnswered(grants)
    PROVE  GrantsAnswered(grants)'
  BY AuthAnswersStay DEF GrantsAnswered

LEMMA AuthCoveredStays ==
    ASSUME AuthShape, AuthLogGrows, NEW t, NEW turn, TurnCovered(t, turn)
    PROVE  TurnCovered(t, turn)'
<1>1. GrantsAnswered(turn.seen)'
  BY AuthGrantsStay DEF TurnCovered
<1>2. \A x \in turn.once : \E k \in DOMAIN authAnswers' : OnceFor(k, t, x)'
  BY AuthAnswersStay DEF TurnCovered
<1>3. /\ FullAccess' = FullAccess
      /\ \A p \in turn.checked \cap turn.job.paths : FullAccess' \/ MayPath(t, p)'
      /\ \A n \in turn.checked \cap turn.job.targets : FullAccess' \/ MayTarget(t, n)'
  BY AuthMayStays, AuthPoliciesStay DEF TurnCovered
<1>4. turn.allowed # {} => Policy("path")' = "allow"
  BY AuthPoliciesStay DEF TurnCovered
<1>5. turn.network => /\ turn.pc # "idle"
                      /\ (\E k \in DOMAIN authAnswers :
                             ExactFor(k, t, CallIdAt(t, turn.calls), turn.job))'
  BY AuthAnswersStay DEF TurnCovered, CallIdAt, AuthLogGrows
<1>6. turn.pc = "ran" => (FullAccess \/ MayRun(t, CallIdAt(t, turn.calls), turn.job))'
  BY <1>3, AuthMayStays DEF TurnCovered, CallIdAt, AuthLogGrows
<1>7. turn.pc = "wait" =>
          /\ turn.wait \in DOMAIN authRequests'
          /\ authRequests'[turn.wait].kind = "execution" =>
                (authRequests[turn.wait].call = CallIdAt(t, turn.calls))'
  BY DEF TurnCovered, CallIdAt, AuthLogGrows
<1> QED
  BY <1>1, <1>2, <1>3, <1>4, <1>5, <1>6, <1>7 DEF TurnCovered

------------------------------------------------------------------------------
(* A turn's step changes its record and nothing else.                             *)

AuthFits(t, turn) == turn \in AuthTurnRecords /\ OwnRequests(t, turn) /\ TurnCovered(t, turn)

LEMMA AuthTurnMoves ==
    ASSUME AuthInv, NEW t \in AuthTurns, NEW turn, AuthFits(t, turn), Step(t, turn)
    PROVE  AuthInv'
<1> USE DEF Step
<1>1. AuthLogGrows
  BY DEF AuthLogGrows
<1>2. authTurn' = [authTurn EXCEPT ![t] = turn] /\ authTurn \in [AuthTurns -> AuthTurnRecords]
  BY DEF AuthInv, AuthShape, AuthTurnShape
<1>3. AuthShape'
  BY <1>2 DEF AuthInv, AuthFits, AuthShape, AuthConfigShape, AuthLogShape, AuthStateShape,
              AuthTurnShape, AuthUserShape
<1>4. AuthShape /\ GrantsAnswered(authState.grants) /\ ApprovedAnswered /\ RequestsAreOwn
  BY DEF AuthInv, AuthCovered
<1>5. GrantsAnswered(authState.grants)'
  BY <1>1, <1>4, AuthGrantsStay
<1>6. ApprovedAnswered'
  BY <1>1, <1>4, AuthAnswersStay DEF ApprovedAnswered
<1>7. RequestsAreOwn'
  BY <1>1, <1>4, AuthPoliciesStay, AuthMayStays DEF RequestsAreOwn
<1>8. ASSUME NEW u \in AuthTurns
      PROVE  OwnRequests(u, authTurn[u])' /\ TurnCovered(u, authTurn[u])'
  <2> DEFINE now == IF u = t THEN turn ELSE authTurn[u]
  <2>1. authTurn'[u] = now
    BY <1>2
  <2>2. OwnRequests(u, now) /\ TurnCovered(u, now)
    BY DEF AuthFits, AuthInv, AuthCovered
  <2> HIDE DEF now
  <2>3. TurnCovered(u, authTurn[u])'
    BY <1>1, <1>4, <2>1, <2>2, AuthCoveredStays
  <2>4. OwnRequests(u, authTurn[u])'
    BY <2>1, <2>2 DEF OwnRequests, CallIdAt
  <2> QED
    BY <2>3, <2>4
<1> QED
  BY <1>3, <1>5, <1>6, <1>7, <1>8 DEF AuthInv, AuthCovered

LEMMA AuthJobSubjects ==
    ASSUME NEW job \in AuthJobs
    PROVE  /\ job.paths \subseteq AuthSubjects /\ job.workdir \subseteq AuthSubjects
           /\ job.targets \subseteq AuthSubjects
<1>1. job.paths \cup job.workdir \cup job.targets
          \in {j.paths \cup j.workdir \cup j.targets : j \in AuthJobs}
  OBVIOUS
<1>2. job.paths \cup job.workdir \cup job.targets \subseteq AuthSubjects
  BY <1>1, Zenon DEF AuthSubjects
<1> QED
  BY <1>2

LEMMA AuthPolicyValues ==
    ASSUME AuthInv, NEW subject \in {"path", "target", "bash"}
    PROVE  Policy(subject) \in {"none", "allow", "ask", "deny"}
  BY AuthAssumption DEF AuthInv, AuthShape, AuthConfigShape, Policy

(* What AuthInv says of one turn.                                                 *)
LEMMA AuthTurnNow ==
    ASSUME AuthInv, NEW t \in AuthTurns
    PROVE  /\ AuthShape /\ AuthFits(t, authTurn[t])
           /\ authTurn[t].pc # "idle" => authTurn[t].job \in AuthJobs
           /\ authState.grants \in AuthGrantRecords /\ GrantsAnswered(authState.grants)
           /\ Len(authAnswers) \in Nat
<1>1. AuthShape /\ authTurn[t] \in AuthTurnRecords /\ authState.grants \in AuthGrantRecords
  BY DEF AuthInv, AuthShape, AuthTurnShape, AuthStateShape
<1>2. OwnRequests(t, authTurn[t]) /\ TurnCovered(t, authTurn[t]) /\ GrantsAnswered(authState.grants)
  BY DEF AuthInv, AuthCovered
<1> QED
  BY <1>1, <1>2, AuthLog DEF AuthFits, TurnCovered

(* A call that is refused or has returned.                                        *)
LEMMA AuthEndedFits ==
    ASSUME AuthInv, NEW t \in AuthTurns
    PROVE  AuthFits(t, Ended(t))
<1> DEFINE turn == Ended(t)
<1>1. authTurn[t] \in AuthTurnRecords /\ TurnCovered(t, authTurn[t]) /\ OwnRequests(t, authTurn[t])
  BY AuthTurnNow DEF AuthFits
<1>2. /\ turn \in AuthTurnRecords /\ turn.pc = "idle" /\ turn.calls = authTurn[t].calls
      /\ turn.seen = NoGrants /\ turn.once = authTurn[t].once /\ turn.allowed = {}
      /\ turn.checked = {} /\ turn.network = FALSE
  BY <1>1, ZenonT(60) DEF Ended, IdleTurn, AuthTurnRecords, NoGrants, AuthGrantRecords, AuthGrants, AuthSubjects,
              AuthPcs
<1> HIDE DEF turn
<1>3. OwnRequests(t, turn)
  BY <1>1, <1>2 DEF OwnRequests
<1>4. GrantsAnswered(turn.seen)
  BY <1>2 DEF GrantsAnswered, NoGrants
<1>5. TurnCovered(t, turn)
  BY <1>1, <1>2, <1>4 DEF TurnCovered
<1> QED
  BY <1>2, <1>3, <1>5 DEF AuthFits, turn

(* A call that needs an answer appends a request or waits for one there is.       *)
LEMMA AuthAskFits ==
    ASSUME AuthInv, NEW t \in AuthTurns, authTurn[t].pc # "idle",
           NEW kind \in AuthKinds, NEW subject \in AuthSubjects, NEW network \in BOOLEAN,
           kind = "path" => subject \in authTurn[t].job.paths,
           kind = "network" => subject \in authTurn[t].job.targets,
           network => kind = "execution",
           kind = "execution" => authTurn[t].job.paths \subseteq authTurn[t].checked
    PROVE  AuthFits(t, AskUser(t, kind, subject, network))
<1> DEFINE turn == AskUser(t, kind, subject, network)
<1>1. authTurn[t] \in AuthTurnRecords /\ TurnCovered(t, authTurn[t]) /\ OwnRequests(t, authTurn[t])
  BY AuthTurnNow DEF AuthFits
<1>2. CASE PendingFor(kind, subject, t) = {}
  <2> DEFINE ask == [kind |-> kind, subject |-> subject, network |-> network]
  <2>1. turn = [At(t, "ask") EXCEPT !.ask = ask]
    BY <1>2 DEF AskUser
  <2>a. /\ ask \in [kind : AuthKinds \cup {"none"}, subject : AuthSubjects, network : BOOLEAN]
        /\ ask.kind = kind /\ ask.subject = subject /\ ask.network = network
    OBVIOUS
  <2> HIDE DEF ask, turn
  <2>2. /\ turn \in AuthTurnRecords /\ turn.pc = "ask" /\ turn.calls = authTurn[t].calls
        /\ turn.job = authTurn[t].job
        /\ turn.seen = authTurn[t].seen /\ turn.once = authTurn[t].once
        /\ turn.allowed = authTurn[t].allowed /\ turn.checked = authTurn[t].checked
        /\ turn.network = authTurn[t].network
        /\ turn.ask = ask
    BY <1>1, <2>1, <2>a DEF At, AuthTurnRecords, AuthPcs
  <2>3. OwnRequests(t, turn)
    BY <1>1, <2>2 DEF OwnRequests
  <2>4. TurnCovered(t, turn)
    BY <1>1, <2>2, <2>a DEF TurnCovered
  <2> QED
    BY <2>2, <2>3, <2>4 DEF AuthFits, turn
<1>3. CASE PendingFor(kind, subject, t) # {}
  <2> DEFINE i == CHOOSE i \in PendingFor(kind, subject, t) :
                     \A j \in PendingFor(kind, subject, t) : i <= j
  <2>1. turn = [At(t, "wait") EXCEPT !.wait = i]
    BY <1>3 DEF AskUser
  <2>2. i \in PendingFor(kind, subject, t)
    BY <1>3, AuthFirstPending DEF AuthInv
  <2> HIDE DEF i
  <2>3. /\ i \in Nat /\ i \in DOMAIN authRequests /\ authRequests[i].kind = kind
        /\ kind = "execution" => authRequests[i].call = CallIdAt(t, authTurn[t].calls)
    BY <2>2 DEF PendingFor, AuthInv, AuthShape, AuthStateShape, CallId
  <2> HIDE DEF turn
  <2>4. /\ turn \in AuthTurnRecords /\ turn.pc = "wait" /\ turn.calls = authTurn[t].calls
        /\ turn.job = authTurn[t].job
        /\ turn.seen = authTurn[t].seen /\ turn.once = authTurn[t].once
        /\ turn.allowed = authTurn[t].allowed /\ turn.checked = authTurn[t].checked
        /\ turn.network = authTurn[t].network /\ turn.wait = i
    BY <1>1, <2>1, <2>3 DEF At, AuthTurnRecords, AuthPcs
  <2>5. OwnRequests(t, turn)
    BY <1>1, <2>4 DEF OwnRequests
  <2>6. TurnCovered(t, turn)
    BY <1>1, <2>3, <2>4 DEF TurnCovered
  <2> QED
    BY <2>4, <2>5, <2>6 DEF AuthFits, turn
<1> QED
  BY <1>2, <1>3

(* A call is made or resumed: it may run at once when it was approved as such, and *)
(* its paths were checked before anybody was asked about it.                      *)
LEMMA AuthExecuteFits ==
    ASSUME AuthInv, NEW t \in AuthTurns, NEW turn \in AuthTurnRecords,
           turn.job \in AuthJobs, turn.calls \in Nat \ {0}, OwnRequests(t, turn), turn.pc # "idle",
           \A x \in turn.once : \E k \in DOMAIN authAnswers : OnceFor(k, t, x),
           turn.network => \E k \in DOMAIN authAnswers :
                               ExactFor(k, t, CallIdAt(t, turn.calls), turn.job),
           Execute(t, turn)
    PROVE  AuthInv'
<1> DEFINE pc == IF turn.job.tool = "bash" /\ (FullAccess \/ ExactApproval(t, turn))
                 THEN "ran" ELSE "check"
           next == [turn EXCEPT !.pc = pc, !.seen = authState.grants, !.known = Len(authAnswers),
                                !.checked = {}, !.allowed = {}]
<1>1. Step(t, next)
  BY DEF Execute
<1>2. pc \in {"ran", "check"}
  OBVIOUS
<1> HIDE DEF pc
<1>3. /\ next \in AuthTurnRecords /\ next.pc = pc /\ next.calls = turn.calls /\ next.job = turn.job
      /\ next.seen = authState.grants /\ next.once = turn.once /\ next.allowed = {}
      /\ next.checked = {} /\ next.network = turn.network
  BY <1>2, AuthTurnNow DEF AuthTurnRecords, AuthPcs
<1> HIDE DEF next
<1>4. OwnRequests(t, next)
  BY <1>2, <1>3 DEF OwnRequests
<1>5. ASSUME pc = "ran" PROVE FullAccess \/ MayRun(t, CallIdAt(t, turn.calls), turn.job)
  <2>1. turn.job.tool = "bash" /\ (FullAccess \/ ExactApproval(t, turn))
    BY <1>5 DEF pc
  <2>2. SUFFICES ASSUME ~FullAccess PROVE MayRun(t, CallIdAt(t, turn.calls), turn.job)
    OBVIOUS
  <2>3. PICK a \in authState.approved :
          a.call = CallIdAt(t, turn.calls) /\ a.turn = t /\ a.job = turn.job
    BY <2>1, <2>2 DEF ExactApproval
  <2>4. PICK k \in DOMAIN authAnswers : ExactFor(k, t, CallIdAt(t, turn.calls), turn.job)
    BY <2>3 DEF AuthInv, AuthCovered, ApprovedAnswered
  <2>5. authAnswers[k].decision \in {"once", "session"} /\ authAnswers[k].id \in DOMAIN authRequests
    BY <2>4, AuthLog DEF AuthInv, ExactFor, AuthDecisions
  <2>6. ApprovesCommand(k, t, CallIdAt(t, turn.calls), turn.job)
    BY <2>4, <2>5 DEF ApprovesCommand, ExactFor, CountsFor, Asked
  <2>7. \A p \in turn.job.paths : MayPath(t, p)
    BY <2>2, <2>4, <2>5 DEF AuthInv, AuthCovered, RequestsAreOwn, ExactFor, Asked
  <2> QED
    BY <2>1, <2>6, <2>7 DEF MayRun
<1>6. GrantsAnswered(next.seen)
  BY <1>3, AuthTurnNow
<1>7. TurnCovered(t, next)
  BY <1>2, <1>3, <1>5, <1>6 DEF TurnCovered
<1> QED
  BY <1>1, <1>3, <1>4, <1>7, AuthTurnMoves DEF AuthFits

------------------------------------------------------------------------------
(* What a turn may use was approved.                                              *)

LEMMA AuthPathInScope ==
    ASSUME AuthInv, NEW t \in AuthTurns, NEW job \in AuthJobs, NEW p \in job.paths \cup job.workdir,
           NEW grants, GrantsAnswered(grants), p \in InScope(grants.paths, t)
    PROVE  MayPath(t, p)
<1>1. CASE p \in Subjects(grants.paths)
  <2>1. PICK k \in DOMAIN authAnswers : SessionPath(k, p)
    BY <1>1 DEF GrantsAnswered, Subjects
  <2>2. ApprovesPath(k, t, p)
    BY <2>1 DEF SessionPath, ApprovesPath, CountsFor, Asked
  <2> QED
    BY <2>2 DEF MayPath
<1>2. CASE p \in authTurn[t].once
  <2>1. PICK k \in DOMAIN authAnswers : OnceFor(k, t, p)
    BY <1>2 DEF AuthInv, AuthCovered, TurnCovered
  <2>2. authAnswers[k].id \in DOMAIN authRequests /\ Asked(k) \in AuthRequestRecords
    BY AuthLog DEF AuthInv
  <2>3. Asked(k).job \in AuthJobs /\ Asked(k).kind \in AuthKinds
    BY <2>2 DEF AuthRequestRecords
  <2>4. Asked(k).kind = "network" => Asked(k).subject \in Asked(k).job.targets
    BY <2>2 DEF AuthInv, AuthCovered, RequestsAreOwn, Asked
  <2>5. p \notin Asked(k).job.targets
    BY <2>3, AuthAssumption
  <2>6. ApprovesPath(k, t, p)
    BY <2>1, <2>3, <2>4, <2>5 DEF OnceFor, ApprovesPath, CountsFor, Asked, AuthKinds
  <2> QED
    BY <2>6 DEF MayPath
<1>3. CASE p \in authTurn[t].allowed
  BY <1>3 DEF AuthInv, AuthCovered, TurnCovered, MayPath
<1> QED
  BY <1>1, <1>2, <1>3 DEF InScope

LEMMA AuthTargetGranted ==
    ASSUME NEW t, NEW grants, GrantsAnswered(grants), NEW n \in Subjects(grants.targets)
    PROVE  \E k \in DOMAIN authAnswers :
              authAnswers[k].decision = "session" /\ ApprovesTarget(k, t, n)
<1>1. PICK k \in DOMAIN authAnswers : SessionTarget(k, n)
  BY DEF GrantsAnswered, Subjects
<1> QED
  BY <1>1 DEF SessionTarget, ApprovesTarget, CountsFor, Asked

LEMMA AuthTargetInScope ==
    ASSUME AuthInv, NEW t \in AuthTurns, NEW job \in AuthJobs, NEW n \in job.targets,
           n \in authTurn[t].once \cup Subjects(authState.grants.targets)
    PROVE  MayTarget(t, n)
<1>1. CASE n \in Subjects(authState.grants.targets)
  BY <1>1, AuthTargetGranted DEF AuthInv, AuthCovered, MayTarget
<1>2. CASE n \in authTurn[t].once
  <2>1. PICK k \in DOMAIN authAnswers : OnceFor(k, t, n)
    BY <1>2 DEF AuthInv, AuthCovered, TurnCovered
  <2>2. authAnswers[k].id \in DOMAIN authRequests /\ Asked(k) \in AuthRequestRecords
    BY AuthLog DEF AuthInv
  <2>3. Asked(k).job \in AuthJobs /\ Asked(k).kind \in AuthKinds
    BY <2>2 DEF AuthRequestRecords
  <2>4. Asked(k).kind = "path" => Asked(k).subject \in Asked(k).job.paths
    BY <2>2 DEF AuthInv, AuthCovered, RequestsAreOwn, Asked
  <2>5. n \notin Asked(k).job.paths /\ n \notin Asked(k).job.workdir
    BY <2>3, AuthAssumption
  <2>6. ApprovesTarget(k, t, n)
    BY <2>1, <2>3, <2>4, <2>5 DEF OnceFor, ApprovesTarget, CountsFor, Asked, AuthKinds
  <2> QED
    BY <2>6 DEF MayTarget
<1> QED
  BY <1>1, <1>2

(* Steps that only check one more thing, or change the place of a call.           *)
LEMMA AuthCheckedFits ==
    ASSUME AuthInv, NEW t \in AuthTurns, authTurn[t].pc = "check",
           NEW x \in AuthSubjects, NEW allowed \in SUBSET AuthSubjects,
           allowed # {} => Policy("path") = "allow",
           x \in authTurn[t].job.paths => FullAccess \/ MayPath(t, x),
           x \in authTurn[t].job.targets => FullAccess \/ MayTarget(t, x)
    PROVE  AuthFits(t, [authTurn[t] EXCEPT !.checked = @ \cup {x}, !.allowed = allowed])
<1> DEFINE turn == [authTurn[t] EXCEPT !.checked = @ \cup {x}, !.allowed = allowed]
<1>1. authTurn[t] \in AuthTurnRecords /\ TurnCovered(t, authTurn[t]) /\ OwnRequests(t, authTurn[t])
  BY AuthTurnNow DEF AuthFits
<1>2. /\ turn \in AuthTurnRecords /\ turn.pc = "check" /\ turn.calls = authTurn[t].calls
      /\ turn.job = authTurn[t].job /\ turn.seen = authTurn[t].seen
      /\ turn.once = authTurn[t].once /\ turn.allowed = allowed
      /\ turn.checked = authTurn[t].checked \cup {x} /\ turn.network = authTurn[t].network
  BY <1>1 DEF AuthTurnRecords
<1> HIDE DEF turn
<1>3. OwnRequests(t, turn)
  BY <1>1, <1>2 DEF OwnRequests
<1>4. TurnCovered(t, turn)
  BY <1>1, <1>2 DEF TurnCovered
<1> QED
  BY <1>2, <1>3, <1>4 DEF AuthFits, turn

LEMMA AuthRanFits ==
    ASSUME AuthInv, NEW t \in AuthTurns, authTurn[t].pc # "idle",
           FullAccess \/ MayRun(t, CallId(t), authTurn[t].job)
    PROVE  AuthFits(t, At(t, "ran"))
<1> DEFINE turn == At(t, "ran")
<1>1. authTurn[t] \in AuthTurnRecords /\ TurnCovered(t, authTurn[t]) /\ OwnRequests(t, authTurn[t])
  BY AuthTurnNow DEF AuthFits
<1>2. /\ turn \in AuthTurnRecords /\ turn.pc = "ran" /\ turn.calls = authTurn[t].calls
      /\ turn.job = authTurn[t].job /\ turn.seen = authTurn[t].seen
      /\ turn.once = authTurn[t].once /\ turn.allowed = authTurn[t].allowed
      /\ turn.checked = authTurn[t].checked /\ turn.network = authTurn[t].network
  BY <1>1 DEF At, AuthTurnRecords, AuthPcs
<1> HIDE DEF turn
<1>3. OwnRequests(t, turn)
  BY <1>1, <1>2 DEF OwnRequests
<1>4. TurnCovered(t, turn)
  BY <1>1, <1>2 DEF TurnCovered, CallId
<1> QED
  BY <1>2, <1>3, <1>4 DEF AuthFits, turn

------------------------------------------------------------------------------
(* The steps of a turn.                                                           *)

LEMMA AuthCallToolKeeps ==
    ASSUME AuthInv, NEW t \in AuthTurns, NEW job \in AuthJobs, CallTool(t, job)
    PROVE  AuthInv'
<1> DEFINE turn == [authTurn[t] EXCEPT !.job = job, !.calls = @ + 1, !.network = FALSE]
           made == [authTurn[t] EXCEPT !.pc = "check", !.job = job, !.calls = @ + 1,
                                       !.network = FALSE]
<1>1. authTurn[t] \in AuthTurnRecords /\ TurnCovered(t, authTurn[t]) /\ OwnRequests(t, authTurn[t])
  BY AuthTurnNow DEF AuthFits
<1>2. authTurn[t].pc = "idle" /\ Execute(t, turn)
  BY DEF CallTool
<1>3. /\ made \in AuthTurnRecords /\ made.job = job /\ made.calls = authTurn[t].calls + 1
      /\ made.once = authTurn[t].once /\ made.network = FALSE /\ made.pc = "check"
      /\ authTurn[t].calls \in Nat
  <2>1. authTurn[t].calls \in Nat /\ authTurn[t].calls + 1 \in Nat
    BY <1>1 DEF AuthTurnRecords
  <2> QED
    BY <1>1, <2>1 DEF AuthTurnRecords, AuthPcs
<1>4. Execute(t, made)
  BY <1>1, <1>2, ZenonT(60) DEF Execute, ExactApproval, AuthTurnRecords
<1> HIDE DEF made
<1>5. OwnRequests(t, made)
  <2> SUFFICES ASSUME NEW i \in DOMAIN authRequests, authRequests[i].turn = t
               PROVE  /\ authRequests[i].call[2] \in 1..made.calls
                      /\ authRequests[i].call = CallIdAt(t, authRequests[i].call[2])
                      /\ authRequests[i].call[2] = made.calls /\ made.pc # "idle" =>
                            authRequests[i].job = made.job
    BY DEF OwnRequests
  <2>1. /\ authRequests[i].call[2] \in 1..authTurn[t].calls
        /\ authRequests[i].call = CallIdAt(t, authRequests[i].call[2])
    BY <1>1 DEF OwnRequests
  <2> QED
    BY <1>3, <2>1
<1>6. made.calls \in Nat \ {0}
  BY <1>3
<1>7. \A x \in made.once : \E k \in DOMAIN authAnswers : OnceFor(k, t, x)
  BY <1>1, <1>3 DEF TurnCovered
<1> QED
  BY <1>3, <1>4, <1>5, <1>6, <1>7, AuthExecuteFits

LEMMA AuthExecuteAgainKeeps ==
    ASSUME AuthInv, NEW t \in AuthTurns, ExecuteAgain(t)
    PROVE  AuthInv'
<1>1. authTurn[t] \in AuthTurnRecords /\ TurnCovered(t, authTurn[t]) /\ OwnRequests(t, authTurn[t])
  BY AuthTurnNow DEF AuthFits
<1>2. authTurn[t].pc = "execute" /\ Execute(t, authTurn[t])
  BY DEF ExecuteAgain
<1>3. authTurn[t].job \in AuthJobs /\ authTurn[t].calls \in Nat \ {0}
  BY <1>1, <1>2 DEF TurnCovered
<1>4. /\ \A x \in authTurn[t].once : \E k \in DOMAIN authAnswers : OnceFor(k, t, x)
      /\ authTurn[t].network => \E k \in DOMAIN authAnswers :
             ExactFor(k, t, CallIdAt(t, authTurn[t].calls), authTurn[t].job)
  BY <1>1 DEF TurnCovered
<1> QED
  BY <1>1, <1>2, <1>3, <1>4, AuthExecuteFits

LEMMA AuthPathKeeps ==
    ASSUME AuthInv, NEW t \in AuthTurns, NEW p \in authTurn[t].job.paths, AuthorizePath(t, p)
    PROVE  AuthInv'
<1> DEFINE checked == [authTurn[t] EXCEPT !.checked = @ \cup {p}]
           allowed == [authTurn[t] EXCEPT !.checked = @ \cup {p}, !.allowed = @ \cup {p}]
<1>1. authTurn[t] \in AuthTurnRecords /\ TurnCovered(t, authTurn[t]) /\ authTurn[t].pc = "check"
  BY AuthTurnNow DEF AuthFits, AuthorizePath
<1>2. authTurn[t].job \in AuthJobs /\ p \in AuthSubjects
  BY <1>1, AuthTurnNow, AuthJobSubjects
<1>3. p \notin authTurn[t].job.targets
  BY <1>2, AuthAssumption
<1>4. /\ authTurn[t].allowed \in SUBSET AuthSubjects
      /\ authTurn[t].allowed # {} => Policy("path") = "allow"
  BY <1>1 DEF AuthTurnRecords, TurnCovered
<1>5. CASE FullAccess \/ p \in InScope(authState.grants.paths, t)
  <2>1. FullAccess \/ MayPath(t, p)
    BY <1>2, <1>5, AuthPathInScope, AuthTurnNow
  <2>2. checked = [authTurn[t] EXCEPT !.checked = @ \cup {p}, !.allowed = authTurn[t].allowed]
    BY <1>1 DEF AuthTurnRecords
  <2>3. AuthFits(t, checked)
    BY <1>1, <1>2, <1>3, <1>4, <2>1, <2>2, AuthCheckedFits, ZenonT(60)
  <2>4. Step(t, checked)
    BY <1>5 DEF AuthorizePath
  <2> QED
    BY <2>3, <2>4, AuthTurnMoves
<1>6. CASE ~(FullAccess \/ p \in InScope(authState.grants.paths, t)) /\ Policy("path") = "allow"
  <2>1. MayPath(t, p) /\ authTurn[t].allowed \cup {p} \in SUBSET AuthSubjects
    BY <1>2, <1>4, <1>6, SMTT(60) DEF MayPath
  <2>2. AuthFits(t, allowed)
    BY <1>1, <1>2, <1>3, <1>6, <2>1, AuthCheckedFits
  <2>3. Step(t, allowed)
    BY <1>6 DEF AuthorizePath
  <2> QED
    BY <2>2, <2>3, AuthTurnMoves
<1>7. CASE Step(t, Ended(t))
  BY <1>7, AuthEndedFits, AuthTurnMoves
<1>8. CASE Step(t, AskUser(t, "path", p, FALSE))
  <2>1. AuthFits(t, AskUser(t, "path", p, FALSE))
    BY <1>1, <1>2, AuthAskFits DEF AuthKinds
  <2> QED
    BY <1>8, <2>1, AuthTurnMoves
<1> QED
  BY <1>5, <1>6, <1>7, <1>8 DEF AuthorizePath

LEMMA AuthNetworkKeeps ==
    ASSUME AuthInv, NEW t \in AuthTurns, NEW n \in authTurn[t].job.targets, AuthorizeNetwork(t, n)
    PROVE  AuthInv'
<1> DEFINE checked == [authTurn[t] EXCEPT !.checked = @ \cup {n}]
           free == \/ FullAccess \/ n \in authTurn[t].once \cup Subjects(authState.grants.targets)
                   \/ Policy("target") = "allow"
<1>1. authTurn[t] \in AuthTurnRecords /\ TurnCovered(t, authTurn[t]) /\ authTurn[t].pc = "check"
  BY AuthTurnNow DEF AuthFits, AuthorizeNetwork, PathsChecked
<1>2. authTurn[t].job \in AuthJobs /\ n \in AuthSubjects
  BY <1>1, AuthTurnNow, AuthJobSubjects
<1>3. n \notin authTurn[t].job.paths
  BY <1>2, AuthAssumption
<1>4. /\ authTurn[t].allowed \in SUBSET AuthSubjects
      /\ authTurn[t].allowed # {} => Policy("path") = "allow"
  BY <1>1 DEF AuthTurnRecords, TurnCovered
<1>5. CASE free
  <2>1. FullAccess \/ MayTarget(t, n)
    BY <1>2, <1>5, AuthTargetInScope DEF MayTarget
  <2>2. checked = [authTurn[t] EXCEPT !.checked = @ \cup {n}, !.allowed = authTurn[t].allowed]
    BY <1>1 DEF AuthTurnRecords
  <2>3. AuthFits(t, checked)
    BY <1>1, <1>2, <1>3, <1>4, <2>1, <2>2, AuthCheckedFits, ZenonT(60)
  <2>4. Step(t, checked)
    BY <1>5 DEF AuthorizeNetwork
  <2> QED
    BY <2>3, <2>4, AuthTurnMoves
<1>6. CASE Step(t, Ended(t))
  BY <1>6, AuthEndedFits, AuthTurnMoves
<1>7. CASE Step(t, AskUser(t, "network", n, FALSE))
  <2>1. AuthFits(t, AskUser(t, "network", n, FALSE))
    BY <1>1, <1>2, AuthAskFits DEF AuthKinds
  <2> QED
    BY <1>7, <2>1, AuthTurnMoves
<1> QED
  BY <1>5, <1>6, <1>7 DEF AuthorizeNetwork

LEMMA AuthRunInScopeKeeps ==
    ASSUME AuthInv, NEW t \in AuthTurns, RunInScope(t)
    PROVE  AuthInv'
<1>1. authTurn[t] \in AuthTurnRecords /\ TurnCovered(t, authTurn[t]) /\ authTurn[t].pc = "check"
  BY AuthTurnNow DEF AuthFits, RunInScope, PathsChecked
<1>2. authTurn[t].job \in AuthJobs
  BY <1>1, AuthTurnNow
<1>3. CASE FullAccess \/ authTurn[t].job.paths \subseteq InScope(authTurn[t].seen.paths, t)
  <2>1. ASSUME ~FullAccess, NEW p \in authTurn[t].job.paths PROVE MayPath(t, p)
    <3>1. p \in InScope(authTurn[t].seen.paths, t)
      BY <1>3, <2>1
    <3>2. GrantsAnswered(authTurn[t].seen)
      BY <1>1 DEF TurnCovered
    <3> QED
      BY <1>2, <3>1, <3>2, AuthPathInScope
  <2>2. ASSUME ~FullAccess, NEW n \in authTurn[t].job.targets PROVE MayTarget(t, n)
    BY <1>1, <2>2 DEF RunInScope, TurnCovered
  <2>3. FullAccess \/ MayRun(t, CallId(t), authTurn[t].job)
    BY <2>1, <2>2 DEF MayRun, RunInScope
  <2>4. AuthFits(t, At(t, "ran"))
    BY <1>1, <2>3, AuthRanFits
  <2>5. Step(t, At(t, "ran"))
    BY <1>3 DEF RunInScope
  <2> QED
    BY <2>4, <2>5, AuthTurnMoves
<1>4. CASE ~(FullAccess \/ authTurn[t].job.paths \subseteq InScope(authTurn[t].seen.paths, t))
  <2>1. Step(t, Ended(t))
    BY <1>4 DEF RunInScope
  <2> QED
    BY <2>1, AuthEndedFits, AuthTurnMoves
<1> QED
  BY <1>3, <1>4

(* A command runs under a grant, under an approval of its network access, or when *)
(* nothing about it needs an approval.                                            *)
LEMMA AuthRunCommandKeeps ==
    ASSUME AuthInv, NEW t \in AuthTurns, RunCommand(t)
    PROVE  AuthInv'
<1> DEFINE turn == authTurn[t]
           job == turn.job
           outside == job.workdir \ InScope(turn.seen.paths, t)
           unknown == job.targets \ Subjects(turn.seen.targets)
           scope == outside # {} /\ Policy("path") # "allow"
           network == unknown # {} /\ (Policy("target") = "ask"
                                       \/ (Policy("target") = "none" /\ ~turn.network))
           granted == GrantAllowed(turn.seen.execs, job)
           readOnly == /\ authConfig.mode = "read_only" /\ ~turn.network
                       /\ turn.once = {} /\ ~granted
           intent == authConfig.mode = "auto" /\ job.server
           waived == Policy("bash") = "allow"
           denied == \/ outside # {} /\ Policy("path") = "deny"
                     \/ unknown # {} /\ Policy("target") = "deny"
           asks == \/ scope \/ network \/ job.opaque \/ Policy("bash") = "ask"
                   \/ (readOnly \/ intent) /\ ~waived
           asking == [At(t, "approve") EXCEPT !.ask.network = network]
<1>1. turn \in AuthTurnRecords /\ TurnCovered(t, turn) /\ OwnRequests(t, turn) /\ turn.pc = "check"
  BY AuthTurnNow DEF AuthFits, RunCommand, PathsChecked
<1>2. job \in AuthJobs /\ job.tool = "bash" /\ job.paths \subseteq turn.checked
  BY <1>1, AuthTurnNow, SMTT(60) DEF RunCommand, PathsChecked
<1>3. Step(t, IF denied THEN Ended(t)
              ELSE IF granted /\ ~scope /\ ~network THEN At(t, "ran")
              ELSE IF Policy("bash") = "deny" THEN Ended(t)
              ELSE IF asks THEN asking ELSE At(t, "ran"))
  BY DEF RunCommand
<1>4. GrantsAnswered(turn.seen) /\ \A p \in job.paths : FullAccess \/ MayPath(t, p)
  BY <1>1, <1>2 DEF TurnCovered
<1>5. granted => \E k \in DOMAIN authAnswers : ApprovesCommand(k, t, CallId(t), job)
  <2> SUFFICES ASSUME granted PROVE \E k \in DOMAIN authAnswers : ApprovesCommand(k, t, CallId(t), job)
    OBVIOUS
  <2>1. PICK g \in turn.seen.execs :
           /\ g.job.command = job.command
           /\ job.workdir \subseteq g.job.workdir /\ job.targets \subseteq g.job.targets
    BY DEF GrantAllowed
  <2>2. PICK k \in DOMAIN authAnswers : SessionJob(k, g.job)
    BY <1>4 DEF GrantsAnswered
  <2> QED
    BY <2>1, <2>2 DEF ApprovesCommand, CountsFor, SessionJob, Asked
<1>6. turn.network => \E k \in DOMAIN authAnswers : ApprovesCommand(k, t, CallId(t), job)
  <2> SUFFICES ASSUME turn.network
               PROVE  \E k \in DOMAIN authAnswers : ApprovesCommand(k, t, CallId(t), job)
    OBVIOUS
  <2>1. PICK k \in DOMAIN authAnswers : ExactFor(k, t, CallId(t), job)
    BY <1>1 DEF TurnCovered, CallId
  <2>2. authAnswers[k].decision \in {"once", "session"}
    BY <2>1, AuthLog DEF AuthInv, ExactFor, AuthDecisions
  <2> QED
    BY <2>1, <2>2 DEF ApprovesCommand, CountsFor, ExactFor, Asked
<1>7. ASSUME ~denied, ~granted, ~turn.network, ~asks, Policy("bash") # "deny", ~FullAccess
      PROVE  NeedsNoApproval(t, job)
  <2>1. ~scope /\ ~network /\ ~job.opaque /\ Policy("bash") \notin {"ask", "deny"}
    BY <1>7
  <2>2. ASSUME NEW w \in job.workdir
        PROVE  Policy("path") = "allow" \/ \E k \in DOMAIN authAnswers : ApprovesPath(k, t, w)
    <3>1. CASE w \in InScope(turn.seen.paths, t)
      BY <1>2, <1>4, <3>1, AuthPathInScope DEF MayPath
    <3>2. CASE w \notin InScope(turn.seen.paths, t)
      BY <2>1, <3>2
    <3> QED
      BY <3>1, <3>2
  <2>3. ASSUME NEW n \in job.targets
        PROVE  \/ Policy("target") = "allow"
               \/ \E k \in DOMAIN authAnswers :
                     authAnswers[k].decision = "session" /\ ApprovesTarget(k, t, n)
    <3>1. CASE n \in Subjects(turn.seen.targets)
      BY <1>4, <3>1, AuthTargetGranted
    <3>2. CASE n \notin Subjects(turn.seen.targets)
      <4>1. unknown # {}
        BY <3>2
      <4>2. Policy("target") # "ask" /\ Policy("target") # "none" /\ Policy("target") # "deny"
        BY <1>7, <2>1, <4>1
      <4> QED
        BY <4>2, AuthPolicyValues
    <3> QED
      BY <3>1, <3>2
  <2>4. \/ waived
        \/ /\ ~intent
           /\ authConfig.mode = "read_only" =>
                 \E k \in DOMAIN authAnswers : authAnswers[k].decision = "once" /\ CountsFor(k, t)
    <3>1. CASE waived
      BY <3>1
    <3>2. CASE ~waived
      <4>1. ~intent /\ ~readOnly
        BY <1>7, <3>2
      <4>2. ASSUME authConfig.mode = "read_only"
            PROVE  \E k \in DOMAIN authAnswers : authAnswers[k].decision = "once" /\ CountsFor(k, t)
        <5>1. PICK x \in turn.once : TRUE
          BY <1>7, <4>1, <4>2
        <5>2. PICK k \in DOMAIN authAnswers : OnceFor(k, t, x)
          BY <1>1 DEF TurnCovered
        <5> QED
          BY <5>2 DEF OnceFor, CountsFor, Asked
      <4> QED
        BY <4>1, <4>2
    <3> QED
      BY <3>1, <3>2
  <2> QED
    BY <2>1, <2>2, <2>3, <2>4 DEF NeedsNoApproval
<1>8. AuthFits(t, asking)
  <2>1. network \in BOOLEAN
    OBVIOUS
  <2>2. turn.ask \in [kind : AuthKinds \cup {"none"}, subject : AuthSubjects, network : BOOLEAN]
    BY <1>1 DEF AuthTurnRecords
  <2> HIDE DEF network
  <2> DEFINE ask == [turn.ask EXCEPT !.network = network]
  <2>3. /\ asking = [turn EXCEPT !.pc = "approve", !.ask = ask]
        /\ ask \in [kind : AuthKinds \cup {"none"}, subject : AuthSubjects, network : BOOLEAN]
    BY <1>1, <2>1, <2>2 DEF At, AuthTurnRecords
  <2> HIDE DEF ask, asking
  <2>4. /\ asking \in AuthTurnRecords /\ asking.pc = "approve" /\ asking.calls = turn.calls
        /\ asking.job = job /\ asking.seen = turn.seen /\ asking.once = turn.once
        /\ asking.allowed = turn.allowed /\ asking.checked = turn.checked
        /\ asking.network = turn.network
    BY <1>1, <2>3 DEF AuthTurnRecords, AuthPcs
  <2>5. OwnRequests(t, asking)
    BY <1>1, <2>4 DEF OwnRequests
  <2>6. TurnCovered(t, asking)
    BY <1>1, <1>2, <2>4 DEF TurnCovered
  <2> QED
    BY <2>4, <2>5, <2>6 DEF AuthFits
<1> HIDE DEF asking
<1>9. ASSUME \/ ~denied /\ granted /\ ~scope /\ ~network
             \/ ~denied /\ ~asks /\ Policy("bash") # "deny"
      PROVE  AuthFits(t, At(t, "ran"))
  <2>1. FullAccess \/ MayRun(t, CallId(t), job)
    BY <1>2, <1>4, <1>5, <1>6, <1>7, <1>9 DEF MayRun
  <2> QED
    BY <1>1, <2>1, AuthRanFits, SMTT(60)
<1> HIDE DEF denied, granted, scope, network, asks
<1> QED
  BY <1>3, <1>8, <1>9, AuthEndedFits, AuthTurnMoves

LEMMA AuthAuthorizeExecutionKeeps ==
    ASSUME AuthInv, NEW t \in AuthTurns, AuthorizeExecution(t)
    PROVE  AuthInv'
<1>1. authTurn[t] \in AuthTurnRecords /\ TurnCovered(t, authTurn[t]) /\ authTurn[t].pc = "approve"
  BY AuthTurnNow DEF AuthFits, AuthorizeExecution
<1>2. authTurn[t].job.paths \subseteq authTurn[t].checked
  BY <1>1 DEF TurnCovered
<1>3. authTurn[t].ask.network \in BOOLEAN /\ "" \in AuthSubjects /\ "execution" \in AuthKinds
  BY <1>1 DEF AuthTurnRecords, AuthSubjects, AuthKinds
<1>4. AuthFits(t, AskUser(t, "execution", "", authTurn[t].ask.network))
  BY <1>1, <1>2, <1>3, AuthAskFits
<1> QED
  BY <1>4, AuthTurnMoves DEF AuthorizeExecution

LEMMA AuthCallReturnsKeeps ==
    ASSUME AuthInv, NEW t \in AuthTurns, CallReturns(t)
    PROVE  AuthInv'
  BY AuthEndedFits, AuthTurnMoves DEF CallReturns

LEMMA AuthLastExists ==
    ASSUME NEW n \in Nat, NEW S \in SUBSET (1..n), S # {}
    PROVE  (CHOOSE k \in S : \A j \in S : j <= k) \in S
<1> DEFINE left == {n - k : k \in S}
<1>0. \A k \in S : k \in Nat /\ n - k \in Nat /\ k <= n
  OBVIOUS
<1>1. left \in SUBSET Nat /\ left # {}
  BY <1>0
<1>2. PICK m \in left : \A l \in left : m <= l
  BY <1>1, AuthLeastExists
<1>3. PICK k \in S : m = n - k
  BY <1>2
<1>4. ASSUME NEW j \in S PROVE j <= k
  <2>1. n - k <= n - j
    BY <1>2, <1>3
  <2>2. j \in Nat /\ k \in Nat
    BY <1>0
  <2> QED
    BY <1>0, <2>1, <2>2
<1> QED
  BY <1>4

LEMMA AuthReplayed ==
    ASSUME AuthShape, NEW t
    PROVE  /\ ReplayedOnce(t) \subseteq AuthSubjects
           /\ \A x \in ReplayedOnce(t) : \E k \in DOMAIN authAnswers : OnceFor(k, t, x)
<1> DEFINE Given(k) ==
        LET r == authRequests[authAnswers[k].id] IN
        IF authAnswers[k].decision # "once" \/ r.turn # t THEN {}
        ELSE IF r.kind = "execution" THEN r.job.workdir ELSE {r.subject}
<1>1. ReplayedOnce(t) = UNION {Given(k) : k \in DOMAIN authAnswers}
  BY DEF ReplayedOnce
<1>2. ASSUME NEW k \in DOMAIN authAnswers, NEW x \in Given(k)
      PROVE  x \in AuthSubjects /\ OnceFor(k, t, x)
  <2>1. OnceFor(k, t, x)
    BY <1>2 DEF OnceFor, Asked
  <2>2. Asked(k).job \in AuthJobs /\ Asked(k).subject \in AuthSubjects
    BY AuthLog DEF AuthRequestRecords
  <2> QED
    BY <2>1, <2>2, AuthJobSubjects DEF OnceFor
<1> HIDE DEF Given
<1>3. ASSUME NEW x \in ReplayedOnce(t)
      PROVE  x \in AuthSubjects /\ \E k \in DOMAIN authAnswers : OnceFor(k, t, x)
  <2>1. PICK k \in DOMAIN authAnswers : x \in Given(k)
    BY <1>1
  <2> QED
    BY <1>2, <2>1
<1> QED
  BY <1>3

LEMMA AuthResumeKeeps ==
    ASSUME AuthInv, NEW t \in AuthTurns, Resume(t)
    PROVE  AuthInv'
<1> DEFINE r == authRequests[authTurn[t].wait]
           answers == {k \in DOMAIN authAnswers : authAnswers[k].id = authTurn[t].wait}
           last == CHOOSE k \in answers : \A j \in answers : j <= k
           on == [At(t, "execute") EXCEPT !.network = r.network, !.wait = 0, !.once = ReplayedOnce(t)]
           off == [Ended(t) EXCEPT !.once = ReplayedOnce(t)]
<1>1. /\ authTurn[t] \in AuthTurnRecords /\ TurnCovered(t, authTurn[t])
      /\ OwnRequests(t, authTurn[t]) /\ authTurn[t].pc = "wait" /\ authTurn[t].job \in AuthJobs
  BY AuthTurnNow, SMTT(60) DEF AuthFits, Resume
<1>2. r.turn = t /\ answers # {}
  BY DEF Resume
<1>3. last \in answers
  BY <1>2, AuthLog, AuthLastExists, ZenonT(60) DEF AuthInv
<1>4. Step(t, IF authAnswers[last].decision = "deny" THEN off ELSE on)
  <2>1. Step(t, [(IF authAnswers[last].decision = "deny" THEN Ended(t)
                  ELSE [At(t, "execute") EXCEPT !.network = r.network, !.wait = 0])
                 EXCEPT !.once = ReplayedOnce(t)])
    BY DEF Resume
  <2> QED
    BY <2>1
<1>5. /\ authTurn[t].wait \in DOMAIN authRequests /\ r \in AuthRequestRecords
      /\ r.kind = "execution" => r.call = CallIdAt(t, authTurn[t].calls)
  BY <1>1, AuthLog DEF AuthInv, TurnCovered
<1>6. /\ ReplayedOnce(t) \subseteq AuthSubjects
      /\ \A x \in ReplayedOnce(t) : \E k \in DOMAIN authAnswers : OnceFor(k, t, x)
  BY AuthReplayed DEF AuthInv
<1> HIDE DEF last
<1>7. AuthFits(t, off)
  <2>1. Ended(t) \in AuthTurnRecords /\ TurnCovered(t, Ended(t)) /\ OwnRequests(t, Ended(t))
    BY AuthEndedFits DEF AuthFits
  <2>2. Ended(t).pc = "idle"
    BY DEF Ended, IdleTurn
  <2>3. /\ off \in AuthTurnRecords /\ off.pc = "idle" /\ off.calls = Ended(t).calls
        /\ off.job = Ended(t).job /\ off.seen = Ended(t).seen /\ off.once = ReplayedOnce(t)
        /\ off.allowed = Ended(t).allowed /\ off.checked = Ended(t).checked
        /\ off.network = Ended(t).network
    BY <1>6, <2>1, <2>2 DEF AuthTurnRecords
  <2> HIDE DEF off
  <2>4. OwnRequests(t, off)
    BY <2>1, <2>2, <2>3 DEF OwnRequests
  <2>5. TurnCovered(t, off)
    BY <1>6, <2>1, <2>2, <2>3 DEF TurnCovered
  <2> QED
    BY <2>3, <2>4, <2>5 DEF AuthFits
<1>8. ASSUME authAnswers[last].decision # "deny" PROVE AuthFits(t, on)
  <2>1. /\ on \in AuthTurnRecords /\ on.pc = "execute" /\ on.calls = authTurn[t].calls
        /\ on.job = authTurn[t].job /\ on.seen = authTurn[t].seen /\ on.once = ReplayedOnce(t)
        /\ on.allowed = authTurn[t].allowed /\ on.checked = authTurn[t].checked
        /\ on.network = r.network
    <3>1. r.network \in BOOLEAN
      BY <1>5 DEF AuthRequestRecords
    <3> HIDE DEF r
    <3> QED
      BY <1>1, <1>6, <3>1 DEF At, AuthTurnRecords, AuthPcs
  <2> HIDE DEF on
  <2>2. OwnRequests(t, on)
    BY <1>1, <2>1 DEF OwnRequests
  <2>3. ASSUME r.network PROVE ExactFor(last, t, CallIdAt(t, on.calls), on.job)
    <3>1. r.kind = "execution" /\ r.call = CallIdAt(t, on.calls)
      BY <1>5, <2>1, <2>3 DEF AuthInv, AuthCovered, RequestsAreOwn
    <3>2. r.call[2] = on.calls
      BY <3>1 DEF CallIdAt
    <3>3. r.job = on.job
      BY <1>2, <1>5, <2>1, <2>2, <3>2 DEF OwnRequests
    <3> QED
      BY <1>2, <1>3, <1>8, <3>1, <3>3 DEF ExactFor, Asked
  <2>4. TurnCovered(t, on)
    BY <1>1, <1>3, <1>6, <2>1, <2>3 DEF TurnCovered
  <2> QED
    BY <2>1, <2>2, <2>4 DEF AuthFits
<1> HIDE DEF on, off
<1> QED
  BY <1>4, <1>7, <1>8, AuthTurnMoves, SMTT(60)

LEMMA AuthAppendRequestKeeps ==
    ASSUME AuthInv, NEW t \in AuthTurns, AppendRequest(t)
    PROVE  AuthInv'
<1>0. PICK turn : turn = authTurn[t]
  OBVIOUS
<1> DEFINE r == [turn |-> t, call |-> CallId(t), kind |-> turn.ask.kind,
                 subject |-> turn.ask.subject, network |-> turn.ask.network, job |-> turn.job,
                 known |-> turn.known]
           n == Len(authRequests) + 1
           next == [At(t, "wait") EXCEPT !.wait = n]
<1>1. /\ turn \in AuthTurnRecords /\ TurnCovered(t, turn) /\ OwnRequests(t, turn)
      /\ turn.pc = "ask" /\ turn.job \in AuthJobs /\ AuthShape
  BY <1>0, AuthTurnNow DEF AuthFits, AppendRequest
<1>2. /\ turn.calls \in Nat \ {0} /\ turn.known \in Nat
      /\ turn.ask \in [kind : AuthKinds \cup {"none"}, subject : AuthSubjects, network : BOOLEAN]
      /\ turn.ask.kind \in AuthKinds
  BY <1>1 DEF AuthTurnRecords, TurnCovered
<1>3. CallId(t) \in AuthCallIds /\ CallId(t)[2] = turn.calls /\ CallId(t) = CallIdAt(t, turn.calls)
  BY <1>0, <1>2 DEF CallId, CallIdAt, AuthCallIds
<1>4. PICK req \in AuthRequestRecords :
         /\ req = r /\ req.turn = t /\ req.call = CallIdAt(t, turn.calls)
         /\ req.kind = turn.ask.kind /\ req.subject = turn.ask.subject
         /\ req.network = turn.ask.network /\ req.job = turn.job
  <2>1. turn.ask.subject \in AuthSubjects /\ turn.ask.network \in BOOLEAN
    BY <1>2
  <2>2. r \in AuthRequestRecords
    BY <1>1, <1>2, <1>3, <2>1 DEF AuthRequestRecords
  <2> QED
    BY <1>3, <2>2
<1>5. /\ authRequests \in Seq(AuthRequestRecords) /\ Len(authRequests) \in Nat
      /\ DOMAIN authRequests = 1..Len(authRequests)
  BY <1>1, AuthLog DEF AuthShape, AuthLogShape
<1>6. /\ authRequests' = Append(authRequests, req) /\ authRequests' \in Seq(AuthRequestRecords)
      /\ Len(authRequests') = n /\ DOMAIN authRequests' = 1..n /\ authRequests'[n] = req
      /\ \A i \in DOMAIN authRequests : i \in 1..n /\ authRequests'[i] = authRequests[i]
      /\ \A i \in 1..n : i \in DOMAIN authRequests \/ i = n
  <2>1. authRequests' = Append(authRequests, req)
    BY <1>0, <1>4 DEF AppendRequest
  <2> QED
    BY <1>4, <1>5, <2>1
<1>7. /\ authConfig' = authConfig /\ authAnswers' = authAnswers /\ authUser' = authUser
      /\ authState' = [authState EXCEPT !.pending = @ \cup {n}]
      /\ authTurn' = [authTurn EXCEPT ![t] = next]
  BY <1>6 DEF AppendRequest
<1>8. AuthLogGrows
  BY <1>6, <1>7 DEF AuthLogGrows
<1>9. n \in Nat /\ n \notin DOMAIN authRequests
  BY <1>5
<1> HIDE DEF n
<1>10. PICK waiting \in AuthTurnRecords :
       /\ waiting = next /\ waiting.pc = "wait" /\ waiting.calls = turn.calls
       /\ waiting.job = turn.job /\ waiting.seen = turn.seen /\ waiting.once = turn.once
       /\ waiting.allowed = turn.allowed /\ waiting.checked = turn.checked
       /\ waiting.network = turn.network /\ waiting.wait = n
  <2>1. next = [[turn EXCEPT !.pc = "wait"] EXCEPT !.wait = n]
    BY <1>0 DEF At
  <2> HIDE DEF next
  <2>2. /\ next \in AuthTurnRecords /\ next.pc = "wait" /\ next.calls = turn.calls
        /\ next.job = turn.job /\ next.seen = turn.seen /\ next.once = turn.once
        /\ next.allowed = turn.allowed /\ next.checked = turn.checked
        /\ next.network = turn.network /\ next.wait = n
    BY <1>1, <1>9, <2>1 DEF AuthTurnRecords, AuthPcs
  <2> QED
    BY <2>2
<1> HIDE DEF next, r
<1>11. /\ authState \in [pending : SUBSET Nat, grants : AuthGrantRecords,
                         approved : SUBSET AuthApprovals]
       /\ authState.pending \subseteq DOMAIN authRequests
  BY <1>1 DEF AuthShape, AuthStateShape
<1>12. /\ authState' \in [pending : SUBSET Nat, grants : AuthGrantRecords,
                          approved : SUBSET AuthApprovals]
       /\ authState'.pending = authState.pending \cup {n}
       /\ authState'.grants = authState.grants /\ authState'.approved = authState.approved
  BY <1>7, <1>9, <1>11
<1>13. AuthShape'
  <2>1. AuthConfigShape' /\ AuthLogShape'
    BY <1>1, <1>6, <1>7 DEF AuthShape, AuthConfigShape, AuthLogShape
  <2>2. AuthStateShape'
    BY <1>6, <1>9, <1>11, <1>12 DEF AuthStateShape
  <2>3. AuthTurnShape'
    BY <1>1, <1>7, <1>10 DEF AuthShape, AuthTurnShape
  <2>4. AuthUserShape'
    BY <1>1, <1>6, <1>7 DEF AuthShape, AuthUserShape
  <2> QED
    BY <2>1, <2>2, <2>3, <2>4 DEF AuthShape
<1>14. GrantsAnswered(authState.grants)'
  <2>1. GrantsAnswered(authState.grants)
    BY DEF AuthInv, AuthCovered
  <2> QED
    BY <1>1, <1>8, <1>12, <2>1, AuthGrantsStay
<1>15. ApprovedAnswered'
  BY <1>1, <1>8, <1>12, AuthAnswersStay DEF AuthInv, AuthCovered, ApprovedAnswered
<1>16. RequestsAreOwn'
  <2>1. ASSUME NEW i \in DOMAIN authRequests, NEW q, q = authRequests[i]
        PROVE  /\ q.kind = "path" => q.subject \in q.job.paths
               /\ q.kind = "network" => q.subject \in q.job.targets
               /\ q.network => q.kind = "execution"
               /\ q.kind = "execution" => \A p \in q.job.paths : (FullAccess \/ MayPath(q.turn, p))'
    <3>1. /\ q.kind = "path" => q.subject \in q.job.paths
          /\ q.kind = "network" => q.subject \in q.job.targets
          /\ q.network => q.kind = "execution"
          /\ q.kind = "execution" => \A p \in q.job.paths : FullAccess \/ MayPath(q.turn, p)
      BY <2>1 DEF AuthInv, AuthCovered, RequestsAreOwn
    <3>2. ASSUME NEW p, FullAccess \/ MayPath(q.turn, p)
          PROVE  (FullAccess \/ MayPath(q.turn, p))'
      BY <1>1, <1>8, <3>2, AuthPoliciesStay, AuthMayStays
    <3> QED
      BY <3>1, <3>2
  <2>2. /\ req.kind = "path" => req.subject \in req.job.paths
        /\ req.kind = "network" => req.subject \in req.job.targets
        /\ req.network => req.kind = "execution"
        /\ req.kind = "execution" => \A p \in req.job.paths : FullAccess \/ MayPath(t, p)
    BY <1>1, <1>4 DEF TurnCovered
  <2>3. ASSUME NEW p, FullAccess \/ MayPath(t, p)
        PROVE  (FullAccess \/ MayPath(t, p))'
    BY <1>1, <1>8, <2>3, AuthPoliciesStay, AuthMayStays
  <2>4. \A i \in DOMAIN authRequests' :
           i = n \/ (i \in DOMAIN authRequests /\ authRequests'[i] = authRequests[i])
    BY <1>6
  <2> QED
    BY <1>4, <1>6, <2>1, <2>2, <2>3, <2>4 DEF RequestsAreOwn
<1>17. ASSUME NEW u \in AuthTurns
       PROVE  OwnRequests(u, authTurn[u])' /\ TurnCovered(u, authTurn[u])'
  <2>1. CASE u = t
    <3>1. authTurn'[u] = waiting
      BY <1>1, <1>7, <1>10, <2>1 DEF AuthShape, AuthTurnShape
    <3>2. OwnRequests(t, waiting)'
      BY <1>1, <1>2, <1>4, <1>6, <1>7, <1>10, <1>3 DEF OwnRequests, CallIdAt
    <3>3. TurnCovered(t, turn)'
      BY <1>1, <1>8, AuthCoveredStays
    <3>4. waiting.wait \in DOMAIN authRequests' /\ authRequests'[waiting.wait].call = CallIdAt(t, turn.calls)
      BY <1>4, <1>6, <1>10, <1>5, <1>9
    <3>5. TurnCovered(t, waiting)'
      BY <1>7, <1>10, <1>1, <3>3, <3>4 DEF TurnCovered, CallIdAt
    <3> QED
      BY <2>1, <3>1, <3>2, <3>5
  <2>2. CASE u # t
    <3>1. authTurn'[u] = authTurn[u]
      BY <1>1, <1>7, <2>2 DEF AuthShape, AuthTurnShape
    <3>2. OwnRequests(u, authTurn[u]) /\ TurnCovered(u, authTurn[u])
      BY DEF AuthInv, AuthCovered
    <3>3. OwnRequests(u, authTurn[u])'
      BY <1>4, <1>6, <1>7, <2>2, <3>1, <3>2 DEF OwnRequests, CallIdAt
    <3>4. TurnCovered(u, authTurn[u])'
      BY <1>1, <1>8, <3>1, <3>2, AuthCoveredStays
    <3> QED
      BY <3>3, <3>4
  <2> QED
    BY <2>1, <2>2
<1> QED
  BY <1>13, <1>14, <1>15, <1>16, <1>17 DEF AuthInv, AuthCovered

------------------------------------------------------------------------------
(* The steps of a user.                                                           *)

(* What holds of every turn holds on when the log grows under them.               *)
LEMMA AuthTurnsStay ==
    ASSUME AuthInv, AuthLogGrows, authRequests' = authRequests, authTurn' = authTurn
    PROVE  \A t \in AuthTurns : OwnRequests(t, authTurn[t])' /\ TurnCovered(t, authTurn[t])'
<1> SUFFICES ASSUME NEW t \in AuthTurns
             PROVE  OwnRequests(t, authTurn[t])' /\ TurnCovered(t, authTurn[t])'
  OBVIOUS
<1>1. AuthShape /\ OwnRequests(t, authTurn[t]) /\ TurnCovered(t, authTurn[t])
  BY DEF AuthInv, AuthCovered
<1>2. OwnRequests(t, authTurn[t])'
  BY <1>1 DEF OwnRequests, CallIdAt, AuthLogGrows
<1>3. TurnCovered(t, authTurn[t])'
  BY <1>1, AuthCoveredStays
<1> QED
  BY <1>2, <1>3

LEMMA AuthRequestsStay ==
    ASSUME AuthInv, AuthLogGrows, authRequests' = authRequests
    PROVE  RequestsAreOwn'
  BY AuthPoliciesStay, AuthMayStays DEF AuthInv, AuthCovered, RequestsAreOwn

LEMMA AuthReadRequestKeeps ==
    ASSUME AuthInv, NEW u \in AuthUsers, NEW id \in authState.pending, NEW d \in AuthDecisions,
           ReadRequest(u, id, d)
    PROVE  AuthInv'
<1>1. AuthShape /\ GrantsAnswered(authState.grants) /\ ApprovedAnswered
  BY DEF AuthInv, AuthCovered
<1>2. /\ authConfig' = authConfig /\ authRequests' = authRequests /\ authAnswers' = authAnswers
      /\ authState' = authState /\ authTurn' = authTurn
      /\ authUser' = [authUser EXCEPT ![u] = [pc |-> "append", id |-> id, decision |-> d]]
  BY DEF ReadRequest
<1>3. AuthLogGrows
  BY <1>2 DEF AuthLogGrows
<1>4. id \in DOMAIN authRequests /\ id \in Nat
  BY <1>1 DEF AuthShape, AuthStateShape
<1>5. AuthUserShape'
  <2> DEFINE read == [pc |-> "append", id |-> id, decision |-> d]
  <2>1. /\ read \in [pc : {"idle", "append"}, id : Nat, decision : AuthDecisions]
        /\ read.id = id
    BY <1>4
  <2>2. authUser' = [authUser EXCEPT ![u] = read]
    BY <1>2
  <2> HIDE DEF read
  <2> QED
    BY <1>1, <1>2, <1>4, <2>1, <2>2 DEF AuthShape, AuthUserShape
<1>6. AuthShape'
  BY <1>1, <1>2, <1>5 DEF AuthShape, AuthConfigShape, AuthLogShape, AuthStateShape, AuthTurnShape
<1>7. GrantsAnswered(authState.grants)' /\ ApprovedAnswered'
  BY <1>1, <1>2, <1>3, AuthAnswersStay, AuthGrantsStay DEF ApprovedAnswered
<1> QED
  BY <1>2, <1>3, <1>6, <1>7, AuthTurnsStay, AuthRequestsStay DEF AuthInv, AuthCovered

(* What an answer grants and approves it gives as the log's new last entry.       *)
LEMMA AuthAppendAnswerKeeps ==
    ASSUME AuthInv, NEW u \in AuthUsers, AppendAnswer(u)
    PROVE  AuthInv'
<1>0. PICK id, decision, r, pending :
          /\ id = authUser[u].id /\ decision = authUser[u].decision
          /\ r = authRequests[id] /\ pending = (id \in authState.pending)
  OBVIOUS
<1> DEFINE n == Len(authAnswers) + 1
           entry == [id |-> id, decision |-> decision]
           session == decision = "session"
           given == IF pending /\ session THEN {r.subject} ELSE {}
<1>1. /\ AuthShape /\ GrantsAnswered(authState.grants) /\ ApprovedAnswered
      /\ Len(authAnswers) \in Nat /\ DOMAIN authAnswers = 1..Len(authAnswers)
      /\ authAnswers \in Seq([id : Nat, decision : AuthDecisions])
  BY AuthLog, SMTT(60) DEF AuthInv, AuthCovered, AuthShape, AuthLogShape
<1>2. authUser[u].pc = "append" /\ pending \in BOOLEAN
  BY <1>0 DEF AppendAnswer
<1>3. /\ id \in DOMAIN authRequests /\ id \in Nat /\ decision \in AuthDecisions
      /\ r \in AuthRequestRecords
  BY <1>0, <1>1, <1>2, AuthLog DEF AuthShape, AuthUserShape
<1>4. entry \in [id : Nat, decision : AuthDecisions] /\ entry.id = id /\ entry.decision = decision
  BY <1>3, SMTT(60)
<1>5. /\ authAnswers' = Append(authAnswers, entry) /\ authConfig' = authConfig
      /\ authRequests' = authRequests /\ authTurn' = authTurn
      /\ authUser' = [authUser EXCEPT ![u] = IdleUser]
      /\ authState' = [(IF r.kind = "execution"
                        THEN ExecutionResolved(id, decision, pending)
                        ELSE PermissionResolved(id, decision, pending))
                       EXCEPT !.pending = @ \ {id}]
  BY <1>0 DEF AppendAnswer
<1> HIDE DEF entry
<1>6. /\ authAnswers' \in Seq([id : Nat, decision : AuthDecisions])
      /\ DOMAIN authAnswers' = 1..n /\ n \in DOMAIN authAnswers' /\ authAnswers'[n] = entry
      /\ \A k \in DOMAIN authAnswers : k \in DOMAIN authAnswers' /\ authAnswers'[k] = authAnswers[k]
      /\ \A k \in 1..n : k \in DOMAIN authAnswers \/ k = n
  BY <1>1, <1>4, <1>5
<1>7. AuthLogGrows
  BY <1>5, <1>6, SMTT(60) DEF AuthLogGrows
<1>8. PICK m : m = n
  BY SMTT(60)
<1>9. Asked(m)' = r /\ m \in DOMAIN authAnswers' /\ authAnswers'[m] = entry
  BY <1>0, <1>4, <1>5, <1>6, <1>8 DEF Asked
<1> HIDE DEF n
<1>10. /\ r.job \in AuthJobs /\ r.subject \in AuthSubjects /\ r.turn \in AuthTurns
       /\ r.call \in AuthCallIds /\ r.network \in BOOLEAN
       /\ r.job.workdir \subseteq AuthSubjects /\ r.job.targets \subseteq AuthSubjects
  BY <1>3, AuthJobSubjects DEF AuthRequestRecords
<1>11. PICK grants, approved, paths, targets, execs :
          /\ grants = authState.grants /\ approved = authState.approved
          /\ paths = grants.paths /\ targets = grants.targets /\ execs = grants.execs
          /\ paths \in AuthGrants /\ targets \in AuthGrants
          /\ execs \in SUBSET [job : AuthJobs, from : Nat]
          /\ approved \in SUBSET AuthApprovals
          /\ authState \in [pending : SUBSET Nat, grants : AuthGrantRecords,
                            approved : SUBSET AuthApprovals]
  BY <1>1 DEF AuthShape, AuthStateShape, AuthGrantRecords
<1>12. PICK paths2, targets2, execs2, approved2 :
          /\ authState' = [pending |-> authState.pending \ {id}, approved |-> approved2,
                           grants |-> [paths |-> paths2, targets |-> targets2, execs |-> execs2]]
          /\ paths2 \in AuthGrants /\ targets2 \in AuthGrants
          /\ execs2 \in SUBSET [job : AuthJobs, from : Nat] /\ approved2 \in SUBSET AuthApprovals
          /\ \A g \in paths2 : g \in paths \/ SessionPath(m, g.subject)'
          /\ \A g \in targets2 : g \in targets \/ SessionTarget(m, g.subject)'
          /\ \A g \in execs2 : g \in execs \/ SessionJob(m, g.job)'
          /\ \A a \in approved2 : a \in approved \/ ExactFor(m, a.turn, a.call, a.job)'
  <2> DEFINE workdir == IF session THEN r.job.workdir ELSE {}
             hosts == IF session THEN r.job.targets ELSE {}
             file == IF r.kind = "path" THEN given ELSE {}
             host == IF r.kind = "network" THEN given ELSE {}
             whole == IF session THEN {[job |-> r.job, from |-> id]} ELSE {}
             others == {a \in approved : a.call # r.call}
             approval == [call |-> r.call, turn |-> r.turn, job |-> r.job, network |-> r.network]
             kept == IF ~pending THEN approved
                     ELSE IF decision = "deny" THEN others ELSE others \cup {approval}
  <2>1. /\ workdir \subseteq AuthSubjects /\ hosts \subseteq AuthSubjects
        /\ file \subseteq AuthSubjects /\ host \subseteq AuthSubjects
    BY <1>10
  <2>2. \A S \in SUBSET AuthSubjects, old \in AuthGrants :
           /\ Granted(old, S, id) \in AuthGrants
           /\ \A g \in Granted(old, S, id) : g \in old \/ g.subject \in S
    BY <1>3 DEF Granted, AuthGrants
  <2>3. CASE r.kind = "execution"
    <3>1. ExecutionResolved(id, decision, pending) =
            [authState EXCEPT
                !.grants.paths = Granted(@, workdir, id),
                !.grants.targets = Granted(@, hosts, id),
                !.grants.execs = @ \cup whole,
                !.approved = kept]
      BY <1>0, <1>11 DEF ExecutionResolved
    <3>2. whole \in SUBSET [job : AuthJobs, from : Nat] /\ kept \in SUBSET AuthApprovals
      <4>1. approval \in AuthApprovals
        BY <1>10 DEF AuthApprovals
      <4> HIDE DEF approval
      <4> QED
        BY <1>3, <1>10, <1>11, <4>1
    <3>3. \A g \in whole : SessionJob(m, g.job)'
      BY <1>4, <1>9, <2>3 DEF SessionJob
    <3>4. \A a \in kept : a \in approved \/ ExactFor(m, a.turn, a.call, a.job)'
      BY <1>4, <1>9, <2>3 DEF ExactFor
    <3>5. \A x \in workdir : SessionPath(m, x)'
      BY <1>4, <1>9, <2>3 DEF SessionPath
    <3>6. \A x \in hosts : SessionTarget(m, x)'
      BY <1>4, <1>9, <2>3 DEF SessionTarget
    <3> HIDE DEF workdir, hosts, whole, kept
    <3>7. authState' = [pending |-> authState.pending \ {id}, approved |-> kept,
                        grants |-> [paths |-> Granted(paths, workdir, id),
                                    targets |-> Granted(targets, hosts, id),
                                    execs |-> execs \cup whole]]
      BY <1>5, <1>11, <2>3, <3>1, ZenonT(60) DEF AuthGrantRecords
    <3> WITNESS Granted(paths, workdir, id), Granted(targets, hosts, id), execs \cup whole, kept
    <3> QED
      BY <1>11, <2>1, <2>2, <3>2, <3>3, <3>4, <3>5, <3>6, <3>7
  <2>4. CASE r.kind # "execution"
    <3>1. PermissionResolved(id, decision, pending) =
            [authState EXCEPT
                !.grants.paths = Granted(@, file, id),
                !.grants.targets = Granted(@, host, id)]
      BY <1>0, <1>11 DEF PermissionResolved
    <3>2. \A x \in file : SessionPath(m, x)'
      BY <1>4, <1>9, <2>4 DEF SessionPath
    <3>3. \A x \in host : SessionTarget(m, x)'
      BY <1>4, <1>9, <2>4 DEF SessionTarget
    <3> HIDE DEF file, host
    <3>4. authState' = [pending |-> authState.pending \ {id}, approved |-> approved,
                        grants |-> [paths |-> Granted(paths, file, id),
                                    targets |-> Granted(targets, host, id),
                                    execs |-> execs]]
      BY <1>5, <1>11, <2>4, <3>1, ZenonT(60) DEF AuthGrantRecords
    <3> WITNESS Granted(paths, file, id), Granted(targets, host, id), execs, approved
    <3> QED
      BY <1>11, <2>1, <2>2, <3>2, <3>3, <3>4
  <2> QED
    BY <2>3, <2>4
<1>13. AuthShape'
  <2>1. AuthConfigShape' /\ AuthLogShape' /\ AuthTurnShape'
    BY <1>1, <1>3, <1>4, <1>5, <1>6 DEF AuthShape, AuthConfigShape, AuthLogShape, AuthTurnShape
  <2>2. AuthStateShape'
    <3>1. authState.pending \in SUBSET Nat /\ authState.pending \subseteq DOMAIN authRequests
      BY <1>1 DEF AuthShape, AuthStateShape
    <3> QED
      BY <1>5, <1>12, <3>1 DEF AuthStateShape, AuthGrantRecords
  <2>3. AuthUserShape'
    BY <1>1, <1>5 DEF AuthShape, AuthUserShape, IdleUser, AuthDecisions
  <2> QED
    BY <2>1, <2>2, <2>3 DEF AuthShape
<1>14. GrantsAnswered(authState.grants)'
  <2>1. /\ authState'.grants.paths = paths2 /\ authState'.grants.targets = targets2
        /\ authState'.grants.execs = execs2
    BY <1>12
  <2>2. /\ \A g \in paths : \E k \in DOMAIN authAnswers : SessionPath(k, g.subject)
        /\ \A g \in targets : \E k \in DOMAIN authAnswers : SessionTarget(k, g.subject)
        /\ \A g \in execs : \E k \in DOMAIN authAnswers : SessionJob(k, g.job)
    BY <1>1, <1>11 DEF GrantsAnswered
  <2>3. ASSUME NEW g \in paths2 PROVE \E k \in DOMAIN authAnswers' : SessionPath(k, g.subject)'
    BY <1>1, <1>7, <1>9, <1>12, <2>2, AuthAnswersStay
  <2>4. ASSUME NEW g \in targets2 PROVE \E k \in DOMAIN authAnswers' : SessionTarget(k, g.subject)'
    BY <1>1, <1>7, <1>9, <1>12, <2>2, AuthAnswersStay
  <2>5. ASSUME NEW g \in execs2 PROVE \E k \in DOMAIN authAnswers' : SessionJob(k, g.job)'
    BY <1>1, <1>7, <1>9, <1>12, <2>2, AuthAnswersStay
  <2> QED
    BY <2>1, <2>3, <2>4, <2>5 DEF GrantsAnswered
<1>15. ApprovedAnswered'
  <2>1. authState'.approved = approved2
    BY <1>12
  <2>2. ASSUME NEW a \in approved2
        PROVE  \E k \in DOMAIN authAnswers' : ExactFor(k, a.turn, a.call, a.job)'
    BY <1>1, <1>7, <1>9, <1>11, <1>12, AuthAnswersStay DEF ApprovedAnswered
  <2> QED
    BY <2>1, <2>2 DEF ApprovedAnswered
<1> QED
  BY <1>5, <1>7, <1>13, <1>14, <1>15, AuthTurnsStay, AuthRequestsStay DEF AuthInv, AuthCovered

------------------------------------------------------------------------------
(* The invariant.                                                                 *)

LEMMA AuthInitInv == AuthInit => AuthInv
<1> SUFFICES ASSUME AuthInit PROVE AuthInv
  OBVIOUS
<1>1. /\ authRequests = <<>> /\ authAnswers = <<>>
      /\ authState = [pending |-> {}, grants |-> NoGrants, approved |-> {}]
      /\ authTurn = [t \in AuthTurns |-> IdleTurn] /\ authUser = [u \in AuthUsers |-> IdleUser]
  BY DEF AuthInit
<1>2. /\ DOMAIN authRequests = {} /\ DOMAIN authAnswers = {}
      /\ authRequests \in Seq(AuthRequestRecords)
      /\ authAnswers \in Seq([id : Nat, decision : AuthDecisions])
  BY <1>1
<1>3. AuthConfigShape
  BY DEF AuthInit, AuthConfigShape
<1>4. NoGrants \in AuthGrantRecords
  BY DEF NoGrants, AuthGrantRecords, AuthGrants
<1>5. IdleTurn \in AuthTurnRecords
  <2>1. [kind |-> "none", subject |-> "", network |-> FALSE]
           \in [kind : AuthKinds \cup {"none"}, subject : AuthSubjects, network : BOOLEAN]
    BY DEF AuthSubjects
  <2> QED
    BY <1>4, <2>1 DEF IdleTurn, AuthTurnRecords, AuthPcs
<1>6. AuthShape
  BY <1>1, <1>2, <1>3, <1>4, <1>5 DEF AuthShape, AuthLogShape, AuthStateShape, AuthTurnShape,
     AuthUserShape, IdleUser, AuthDecisions
<1>7. GrantsAnswered(NoGrants)
  BY DEF GrantsAnswered, NoGrants
<1>8. ASSUME NEW t \in AuthTurns PROVE OwnRequests(t, authTurn[t]) /\ TurnCovered(t, authTurn[t])
  <2>1. authTurn[t] = IdleTurn
    BY <1>1
  <2>2. OwnRequests(t, IdleTurn)
    BY <1>2 DEF OwnRequests
  <2>3. TurnCovered(t, IdleTurn)
    BY <1>7 DEF TurnCovered, IdleTurn
  <2> QED
    BY <2>1, <2>2, <2>3
<1> QED
  BY <1>1, <1>2, <1>6, <1>7, <1>8 DEF AuthInv, AuthCovered, ApprovedAnswered, RequestsAreOwn

LEMMA AuthNextInv == AuthInv /\ [AuthNext]_authVars => AuthInv'
<1> SUFFICES ASSUME AuthInv, [AuthNext]_authVars PROVE AuthInv'
  OBVIOUS
<1>1. ASSUME NEW t \in AuthTurns, AuthTurnStep(t) PROVE AuthInv'
  BY <1>1, AuthCallToolKeeps, AuthExecuteAgainKeeps, AuthRunInScopeKeeps, AuthRunCommandKeeps,
     AuthAuthorizeExecutionKeeps, AuthPathKeeps, AuthNetworkKeeps, AuthAppendRequestKeeps,
     AuthCallReturnsKeeps, AuthResumeKeeps DEF AuthTurnStep
<1>2. ASSUME NEW u \in AuthUsers, AppendAnswer(u) PROVE AuthInv'
  BY <1>2, AuthAppendAnswerKeeps
<1>3. ASSUME NEW u \in AuthUsers, NEW id \in authState.pending, NEW d \in AuthDecisions,
             ReadRequest(u, id, d)
      PROVE  AuthInv'
  BY <1>3, AuthReadRequestKeeps
<1>4. CASE UNCHANGED authVars
  <2> USE <1>4 DEF authVars
  <2>1. AuthLogGrows /\ AuthShape /\ GrantsAnswered(authState.grants)
    BY DEF AuthLogGrows, AuthInv, AuthCovered
  <2>2. AuthShape'
    BY <2>1 DEF AuthShape, AuthConfigShape, AuthLogShape, AuthStateShape, AuthTurnShape, AuthUserShape
  <2>3. GrantsAnswered(authState.grants)' /\ ApprovedAnswered'
    BY <2>1, AuthAnswersStay, AuthGrantsStay DEF AuthInv, AuthCovered, ApprovedAnswered
  <2> QED
    BY <2>1, <2>2, <2>3, AuthTurnsStay, AuthRequestsStay DEF AuthInv, AuthCovered
<1> QED
  BY <1>1, <1>2, <1>3, <1>4 DEF AuthNext

LEMMA AuthInvAlways == AuthSpec => []AuthInv
<1> QED
  BY AuthInitInv, AuthNextInv, PTL DEF AuthSpec

(* A tool call that runs touches only what full access, a policy or an answer in  *)
(* the log allows, whatever turns and users do at the same time: of the places a  *)
(* call gets to run (a tool in its scope, a command with a grant, with its        *)
(* approval or with none needed) each goes back to such an answer.                *)
THEOREM AuthRunsAreCovered == AuthSpec => []AuthRunIsCovered
<1>1. AuthInv => AuthRunIsCovered
  <2> SUFFICES ASSUME AuthInv, NEW t \in AuthTurns, authTurn[t].pc = "ran", ~FullAccess
               PROVE  LET job == authTurn[t].job
                          answers == DOMAIN authAnswers
                      IN  /\ \A p \in job.paths :
                                \/ Policy("path") = "allow"
                                \/ \E k \in answers : ApprovesPath(k, t, p)
                          /\ IF job.tool = "bash"
                             THEN \/ NeedsNoApproval(t, job)
                                  \/ \E k \in answers : ApprovesCommand(k, t, CallId(t), job)
                             ELSE \A n \in job.targets :
                                     \/ Policy("target") = "allow"
                                     \/ \E k \in answers : ApprovesTarget(k, t, n)
    BY DEF AuthRunIsCovered
  <2>1. MayRun(t, CallId(t), authTurn[t].job)
    BY DEF AuthInv, AuthCovered, TurnCovered, CallId
  <2> QED
    BY <2>1 DEF MayRun, MayPath, MayTarget
<1> QED
  BY <1>1, AuthInvAlways, PTL

------------------------------------------------------------------------------
(* What is known of a log that grows.                                             *)

LEMMA AuthFirstStays ==
    ASSUME AuthShape, AuthLogGrows, NEW k \in DOMAIN authAnswers
    PROVE  First(k)' = First(k)
<1>1. \A j \in 1..(k - 1) : j \in DOMAIN authAnswers
  BY AuthLog
<1>2. \A j \in 1..(k - 1) : authAnswers'[j] = authAnswers[j]
  BY <1>1 DEF AuthLogGrows
<1>3. authAnswers'[k] = authAnswers[k]
  BY DEF AuthLogGrows
<1> QED
  BY <1>2, <1>3 DEF First

LEMMA AuthKnowledgeStays ==
    ASSUME AuthShape, AuthLogGrows, NEW n \in Nat, n <= Len(authAnswers), NEW grants,
           NEW t, NEW kind, NEW subject, NEW call, NEW job
    PROVE  /\ KnowsSession(grants, n) => KnowsSession(grants, n)'
           /\ AskIsNew(t, kind, subject, call, job, n) => AskIsNew(t, kind, subject, call, job, n)'
<1>1. \A k \in 1..n : k \in DOMAIN authAnswers
  BY AuthLog
<1>2. KnowsSession(grants, n) => KnowsSession(grants, n)'
  <2> SUFFICES ASSUME KnowsSession(grants, n) PROVE KnowsSession(grants, n)'
    OBVIOUS
  <2>1. ASSUME NEW k \in 1..n, First(k)'
        PROVE  /\ \A p \in AuthSubjects : SessionPath(k, p)' => p \in Subjects(grants.paths)
               /\ \A x \in AuthSubjects : SessionTarget(k, x)' => x \in Subjects(grants.targets)
               /\ \A j \in AuthJobs : SessionJob(k, j)' => \E g \in grants.execs : g.job = j
    <3>1. First(k)
      BY <1>1, <2>1, AuthFirstStays
    <3> QED
      BY <1>1, <3>1, AuthAnswersStay DEF KnowsSession
  <2> QED
    BY <2>1 DEF KnowsSession, Subjects
<1>3. AskIsNew(t, kind, subject, call, job, n) => AskIsNew(t, kind, subject, call, job, n)'
  BY <1>1, AuthFirstStays, AuthAnswersStay DEF AskIsNew, AuthLogGrows
<1> QED
  BY <1>2, <1>3

(* What a turn knows stays when neither its requests nor the answers change.      *)
LEMMA AuthTurnKnowsStays ==
    ASSUME AuthShape, AuthLogGrows, authAnswers' = authAnswers, NEW t, NEW turn,
           turn.known \in Nat, TurnKnows(t, turn),
           \A i \in authState'.pending :
               authRequests'[i].turn = t => i \in authState.pending /\ authRequests[i].turn = t
    PROVE  TurnKnows(t, turn)'
<1>1. turn.known <= Len(authAnswers) /\ KnowsSession(turn.seen, turn.known)
  BY DEF TurnKnows
<1>2. KnowsSession(turn.seen, turn.known)'
  BY <1>1, AuthKnowledgeStays
<1>3. ASSUME NEW k \in DOMAIN authAnswers', NEW x \in AuthSubjects, First(k)', OnceFor(k, t, x)'
      PROVE  x \in turn.once \/ (turn.pc = "wait" /\ turn.wait = authAnswers'[k].id)
  <2>1. First(k) /\ OnceFor(k, t, x)
    BY <1>3, AuthFirstStays, AuthAnswersStay
  <2> QED
    BY <2>1 DEF TurnKnows
<1>4. ASSUME ~authConfig'.repeat, turn.pc \notin {"idle", "ran"}, NEW k \in DOMAIN authAnswers',
             First(k)', ExactFor(k, t, CallIdAt(t, turn.calls), turn.job)'
      PROVE  \/ turn.pc = "wait" /\ turn.wait = authAnswers'[k].id
             \/ turn.pc = "execute" /\ turn.network = Asked(k)'.network
  <2>1. First(k) /\ authConfig' = authConfig
    BY <1>4, AuthFirstStays DEF AuthLogGrows
  <2>2. ExactFor(k, t, CallIdAt(t, turn.calls), turn.job)
    BY <1>4, <2>1, AuthAnswersStay DEF ExactFor, Asked, CallIdAt
  <2>3. Asked(k)' = Asked(k)
    BY AuthAnswersStay DEF Asked
  <2> QED
    BY <1>4, <2>1, <2>2, <2>3 DEF TurnKnows
<1>5. turn.pc = "approve" =>
          AskIsNew(t, "execution", "", CallIdAt(t, turn.calls), turn.job, turn.known)'
  BY <1>1, AuthKnowledgeStays DEF TurnKnows, CallIdAt, AuthLogGrows
<1>6. turn.pc = "ask" =>
          AskIsNew(t, turn.ask.kind, turn.ask.subject, CallIdAt(t, turn.calls), turn.job, turn.known)'
  BY <1>1, AuthKnowledgeStays DEF TurnKnows, CallIdAt, AuthLogGrows
<1>7. \A i \in authState'.pending :
          authRequests'[i].turn = t => turn.pc = "wait" /\ turn.wait = i
  BY DEF TurnKnows
<1>8. /\ turn.pc = "approve" => turn.job.tool = "bash"
      /\ turn.pc = "ask" /\ turn.ask.kind = "execution" => turn.job.tool = "bash"
  BY DEF TurnKnows
<1> QED
  BY <1>1, <1>2, <1>3, <1>4, <1>5, <1>6, <1>7, <1>8 DEF TurnKnows

AuthLogUnchanged == UNCHANGED <<authConfig, authRequests, authAnswers, authState>>

LEMMA AuthLogKnownStays ==
    ASSUME AuthLogKnown, AuthLogUnchanged
    PROVE  AuthLogKnown'
<1> USE DEF AuthLogUnchanged
<1>1. PendingUnanswered'
  BY DEF AuthLogKnown, PendingUnanswered, Answers
<1>2. KnowsSession(authState.grants, Len(authAnswers))'
  BY DEF AuthLogKnown, KnowsSession, First, SessionPath, SessionTarget, SessionJob, Asked, Subjects
<1>3. (~authConfig.repeat => KnowsApprovals)'
  BY SMTT(60) DEF AuthLogKnown, KnowsApprovals, First, Asked
<1>4. AuthAskedOnce'
  BY DEF AuthLogKnown, AuthAskedOnce, First, ApprovesPath, ApprovesTarget, ApprovesCommand, CountsFor
<1> QED
  BY <1>1, <1>2, <1>3, <1>4 DEF AuthLogKnown

LEMMA AuthKnownMoves ==
    ASSUME AuthInv, AuthKnown, NEW t \in AuthTurns, NEW turn \in AuthTurnRecords,
           TurnKnows(t, turn), Step(t, turn)
    PROVE  AuthKnown'
<1>1. AuthLogUnchanged /\ authTurn' = [authTurn EXCEPT ![t] = turn] /\ AuthLogGrows
  BY DEF Step, AuthLogUnchanged, AuthLogGrows
<1>2. AuthLogKnown'
  BY <1>1, AuthLogKnownStays DEF AuthKnown
<1>3. ASSUME NEW u \in AuthTurns PROVE TurnKnows(u, authTurn[u])'
  <2> DEFINE now == IF u = t THEN turn ELSE authTurn[u]
  <2>1. authTurn'[u] = now
    BY <1>1 DEF AuthInv, AuthShape, AuthTurnShape
  <2>2. TurnKnows(u, now) /\ now.known \in Nat
    BY DEF AuthKnown, AuthInv, AuthShape, AuthTurnShape, AuthTurnRecords
  <2>3. AuthShape /\ authAnswers' = authAnswers /\ authState' = authState /\ authRequests' = authRequests
    BY <1>1 DEF AuthInv, AuthLogUnchanged
  <2> HIDE DEF now
  <2> QED
    BY <1>1, <2>1, <2>2, <2>3, AuthTurnKnowsStays
<1> QED
  BY <1>2, <1>3 DEF AuthKnown

------------------------------------------------------------------------------
(* What a turn knows after each of its steps.                                     *)

LEMMA AuthKnowsNow ==
    ASSUME AuthInv, AuthKnown, NEW t \in AuthTurns
    PROVE  /\ authTurn[t] \in AuthTurnRecords /\ TurnKnows(t, authTurn[t])
           /\ OwnRequests(t, authTurn[t]) /\ TurnCovered(t, authTurn[t]) /\ AuthShape
           /\ authTurn[t].known \in Nat /\ Len(authAnswers) \in Nat
           /\ \A k \in 1..authTurn[t].known : k \in DOMAIN authAnswers /\ k \in 1..Len(authAnswers)
           /\ DOMAIN authAnswers = 1..Len(authAnswers)
           /\ \A i \in DOMAIN authRequests : authRequests[i] \in AuthRequestRecords
           /\ \A k \in DOMAIN authAnswers :
                 authAnswers[k].id \in DOMAIN authRequests /\ Asked(k) \in AuthRequestRecords
<1>1. authTurn[t] \in AuthTurnRecords
  BY AuthTurnNow DEF AuthFits
<1>2. /\ Len(authAnswers) \in Nat /\ DOMAIN authAnswers = 1..Len(authAnswers)
      /\ authTurn[t].known \in Nat /\ authTurn[t].known <= Len(authAnswers)
  BY <1>1, AuthLog DEF AuthInv, AuthKnown, AuthTurnRecords, TurnKnows
<1>3. \A k \in 1..authTurn[t].known : k \in DOMAIN authAnswers /\ k \in 1..Len(authAnswers)
  BY <1>2
<1> QED
  BY <1>1, <1>2, <1>3, AuthLog DEF AuthInv, AuthCovered, AuthKnown

LEMMA AuthEndedKnows ==
    ASSUME AuthInv, AuthKnown, NEW t \in AuthTurns, authTurn[t].pc # "wait"
    PROVE  TurnKnows(t, Ended(t))
<1> DEFINE turn == Ended(t)
<1>1. /\ turn.pc = "idle" /\ turn.seen = NoGrants /\ turn.known = 0
      /\ turn.once = authTurn[t].once
  BY DEF Ended, IdleTurn
<1> HIDE DEF turn
<1>2. TurnKnows(t, authTurn[t]) /\ Len(authAnswers) \in Nat
  BY AuthKnowsNow
<1>3. KnowsSession(turn.seen, turn.known)
  BY <1>1 DEF KnowsSession
<1>4. /\ \A i \in authState.pending : authRequests[i].turn # t
      /\ \A k \in DOMAIN authAnswers, x \in AuthSubjects :
            First(k) /\ OnceFor(k, t, x) => x \in turn.once
  BY <1>1, <1>2 DEF TurnKnows
<1>5. turn.known <= Len(authAnswers)
  BY <1>1, <1>2
<1>6. turn.pc # "wait" /\ turn.pc # "approve" /\ turn.pc # "ask" /\ ~(turn.pc \notin {"idle", "ran"})
  BY <1>1
<1>7. TurnKnows(t, turn)
  BY <1>3, <1>4, <1>5, <1>6 DEF TurnKnows
<1> QED
  BY <1>7 DEF turn

(* A call that checks something more knows what it did.                           *)
LEMMA AuthCheckedKnows ==
    ASSUME AuthInv, AuthKnown, NEW t \in AuthTurns, authTurn[t].pc = "check",
           NEW turn, turn.pc = "check" \/ turn.pc = "ran",
           turn.known = authTurn[t].known, turn.seen = authTurn[t].seen,
           turn.once = authTurn[t].once, turn.calls = authTurn[t].calls, turn.job = authTurn[t].job
    PROVE  TurnKnows(t, turn)
<1>1. TurnKnows(t, authTurn[t])
  BY AuthKnowsNow
<1> QED
  BY <1>1 DEF TurnKnows

(* A question is new when nothing the turn knows of answers it.                   *)
LEMMA AuthAskKnows ==
    ASSUME AuthInv, AuthKnown, NEW t \in AuthTurns, authTurn[t].pc \in {"check", "approve"},
           NEW kind \in AuthKinds, NEW subject, NEW network,
           kind = "execution" => authTurn[t].job.tool = "bash",
           AskIsNew(t, kind, subject, CallId(t), authTurn[t].job, authTurn[t].known)
    PROVE  TurnKnows(t, AskUser(t, kind, subject, network))
<1> DEFINE turn == AskUser(t, kind, subject, network)
<1>1. TurnKnows(t, authTurn[t]) /\ authTurn[t] \in AuthTurnRecords
  BY AuthKnowsNow
<1>2. /\ turn.known = authTurn[t].known /\ turn.seen = authTurn[t].seen
      /\ turn.once = authTurn[t].once /\ turn.calls = authTurn[t].calls
      /\ turn.job = authTurn[t].job
      /\ \/ turn.pc = "ask" /\ turn.ask.kind = kind /\ turn.ask.subject = subject
         \/ turn.pc = "wait"
  <2>2. turn = [At(t, "ask") EXCEPT !.ask = [kind |-> kind, subject |-> subject, network |-> network]]
        \/ \E i : turn = [At(t, "wait") EXCEPT !.wait = i]
    BY DEF AskUser
  <2> HIDE DEF turn
  <2>3. ASSUME turn = [At(t, "ask") EXCEPT !.ask = [kind |-> kind, subject |-> subject,
                                                    network |-> network]]
        PROVE  /\ turn.known = authTurn[t].known /\ turn.seen = authTurn[t].seen
               /\ turn.once = authTurn[t].once /\ turn.calls = authTurn[t].calls
               /\ turn.job = authTurn[t].job /\ turn.pc = "ask"
               /\ turn.ask = [kind |-> kind, subject |-> subject, network |-> network]
    <3> DEFINE ask == [kind |-> kind, subject |-> subject, network |-> network]
    <3>1. turn = [At(t, "ask") EXCEPT !.ask = ask]
      BY <2>3
    <3> HIDE DEF ask
    <3>2. /\ turn.known = authTurn[t].known /\ turn.seen = authTurn[t].seen
          /\ turn.once = authTurn[t].once /\ turn.calls = authTurn[t].calls
          /\ turn.job = authTurn[t].job /\ turn.pc = "ask" /\ turn.ask = ask
      BY <1>1, <3>1 DEF At, AuthTurnRecords
    <3> QED
      BY <3>2 DEF ask
  <2>4. ASSUME NEW i, turn = [At(t, "wait") EXCEPT !.wait = i]
        PROVE  /\ turn.known = authTurn[t].known /\ turn.seen = authTurn[t].seen
               /\ turn.once = authTurn[t].once /\ turn.calls = authTurn[t].calls
               /\ turn.job = authTurn[t].job /\ turn.pc = "wait"
    BY <1>1, <2>4 DEF At, AuthTurnRecords
  <2> QED
    BY <2>2, <2>3, <2>4
<1> HIDE DEF turn
<1>3. /\ \A i \in authState.pending : authRequests[i].turn # t
      /\ \A k \in DOMAIN authAnswers, x \in AuthSubjects :
            First(k) /\ OnceFor(k, t, x) => x \in turn.once
      /\ ~authConfig.repeat =>
            \A k \in DOMAIN authAnswers :
                ~(First(k) /\ ExactFor(k, t, CallIdAt(t, turn.calls), turn.job))
  BY <1>1, <1>2 DEF TurnKnows
<1>4. turn.known <= Len(authAnswers) /\ KnowsSession(turn.seen, turn.known)
  BY <1>1, <1>2 DEF TurnKnows
<1>5. turn.pc = "ask" =>
        AskIsNew(t, turn.ask.kind, turn.ask.subject, CallIdAt(t, turn.calls), turn.job, turn.known)
  BY <1>2 DEF CallId
<1> QED
  BY <1>2, <1>3, <1>4, <1>5 DEF TurnKnows, turn

(* A call is made or resumed: it knows of every answer, and one that approves it  *)
(* lets it run at once.                                                           *)
LEMMA AuthExecuteKnows ==
    ASSUME AuthInv, AuthKnown, NEW t \in AuthTurns, NEW turn \in AuthTurnRecords,
           authTurn[t].pc # "wait", turn.once = authTurn[t].once,
           ~authConfig.repeat =>
               \A k \in DOMAIN authAnswers :
                   First(k) /\ ExactFor(k, t, CallIdAt(t, turn.calls), turn.job) =>
                   turn.network = Asked(k).network,
           Execute(t, turn)
    PROVE  AuthKnown'
<1> DEFINE pc == IF turn.job.tool = "bash" /\ (FullAccess \/ ExactApproval(t, turn))
                 THEN "ran" ELSE "check"
           next == [turn EXCEPT !.pc = pc, !.seen = authState.grants, !.known = Len(authAnswers),
                                !.checked = {}, !.allowed = {}]
<1>1. Step(t, next)
  BY DEF Execute
<1>2. pc \in {"ran", "check"}
  OBVIOUS
<1> HIDE DEF pc
<1>3. /\ next \in AuthTurnRecords /\ next.pc = pc /\ next.calls = turn.calls /\ next.job = turn.job
      /\ next.seen = authState.grants /\ next.known = Len(authAnswers) /\ next.once = turn.once
  BY <1>2, AuthTurnNow DEF AuthTurnRecords, AuthPcs
<1> HIDE DEF next
<1>4. TurnKnows(t, authTurn[t]) /\ Len(authAnswers) \in Nat
  BY AuthKnowsNow
<1>5. next.known <= Len(authAnswers) /\ KnowsSession(next.seen, next.known)
  BY <1>3, <1>4 DEF AuthKnown, AuthLogKnown
<1>6. /\ \A i \in authState.pending : authRequests[i].turn # t
      /\ \A k \in DOMAIN authAnswers, x \in AuthSubjects :
            First(k) /\ OnceFor(k, t, x) => x \in next.once
  BY <1>3, <1>4 DEF TurnKnows
<1>7. ASSUME ~authConfig.repeat, NEW k \in DOMAIN authAnswers, First(k),
             ExactFor(k, t, CallIdAt(t, turn.calls), turn.job)
      PROVE  pc = "ran"
  <2>1. Asked(k).kind = "execution" /\ authAnswers[k].decision # "deny" /\ Asked(k).turn = t
        /\ Asked(k).call = CallIdAt(t, turn.calls) /\ Asked(k).job = turn.job
    BY <1>7 DEF ExactFor
  <2>2. [call |-> Asked(k).call, turn |-> Asked(k).turn, job |-> Asked(k).job,
         network |-> Asked(k).network] \in authState.approved
    BY <1>7, <2>1 DEF AuthKnown, AuthLogKnown, KnowsApprovals
  <2>3. ExactApproval(t, turn)
    <3>1. \E a \in authState.approved :
              /\ a.call = CallIdAt(t, turn.calls) /\ a.turn = t
              /\ a.job = turn.job /\ a.network = turn.network
      BY <1>7, <2>1, <2>2
    <3> QED
      BY <3>1 DEF ExactApproval
  <2>4. turn.job.tool = "bash"
    BY <2>1, AuthKnowsNow DEF AuthKnown, AuthLogKnown, Asked
  <2> QED
    BY <2>3, <2>4 DEF pc
<1>8. TurnKnows(t, next)
  BY <1>2, <1>3, <1>5, <1>6, <1>7 DEF TurnKnows
<1> QED
  BY <1>1, <1>3, <1>8, AuthKnownMoves

LEMMA AuthCallToolKnows ==
    ASSUME AuthInv, AuthKnown, NEW t \in AuthTurns, NEW job \in AuthJobs, CallTool(t, job)
    PROVE  AuthKnown'
<1> DEFINE turn == [authTurn[t] EXCEPT !.job = job, !.calls = @ + 1, !.network = FALSE]
<1>1. authTurn[t] \in AuthTurnRecords /\ OwnRequests(t, authTurn[t])
  BY AuthKnowsNow
<1>2. authTurn[t].pc = "idle" /\ Execute(t, turn)
  BY DEF CallTool
<1>3. authTurn[t].calls \in Nat /\ authTurn[t].calls + 1 \in Nat
  BY <1>1 DEF AuthTurnRecords
<1>4. /\ turn \in AuthTurnRecords /\ turn.calls = authTurn[t].calls + 1
      /\ turn.once = authTurn[t].once
  BY <1>1, <1>3 DEF AuthTurnRecords
<1> HIDE DEF turn
<1>5. ASSUME NEW k \in DOMAIN authAnswers, ExactFor(k, t, CallIdAt(t, turn.calls), turn.job)
      PROVE  FALSE
  <2>1. Asked(k).turn = t /\ Asked(k).call[2] = turn.calls
    BY <1>5 DEF ExactFor, CallIdAt
  <2>2. Asked(k).call[2] \in 1..authTurn[t].calls
    BY <1>1, <2>1, AuthKnowsNow DEF OwnRequests, Asked
  <2> QED
    BY <1>3, <1>4, <2>1, <2>2
<1> QED
  BY <1>2, <1>4, <1>5, AuthExecuteKnows

LEMMA AuthExecuteAgainKnows ==
    ASSUME AuthInv, AuthKnown, NEW t \in AuthTurns, ExecuteAgain(t)
    PROVE  AuthKnown'
<1>1. authTurn[t].pc = "execute" /\ Execute(t, authTurn[t])
  BY DEF ExecuteAgain
<1>2. authTurn[t] \in AuthTurnRecords /\ TurnKnows(t, authTurn[t])
  BY AuthKnowsNow
<1>3. ~authConfig.repeat =>
          \A k \in DOMAIN authAnswers :
              First(k) /\ ExactFor(k, t, CallIdAt(t, authTurn[t].calls), authTurn[t].job) =>
              authTurn[t].network = Asked(k).network
  BY <1>1, <1>2 DEF TurnKnows
<1> QED
  BY <1>1, <1>2, <1>3, AuthExecuteKnows

LEMMA AuthPathKnows ==
    ASSUME AuthInv, AuthKnown, NEW t \in AuthTurns, NEW p \in authTurn[t].job.paths,
           AuthorizePath(t, p)
    PROVE  AuthKnown'
<1> DEFINE checked == [authTurn[t] EXCEPT !.checked = @ \cup {p}]
           allowed == [authTurn[t] EXCEPT !.checked = @ \cup {p}, !.allowed = @ \cup {p}]
<1>1. authTurn[t].pc = "check" /\ authTurn[t] \in AuthTurnRecords /\ TurnKnows(t, authTurn[t])
  BY AuthKnowsNow DEF AuthorizePath
<1>2. p \in AuthSubjects
  BY <1>1, AuthTurnNow, AuthJobSubjects
<1>3. /\ checked \in AuthTurnRecords /\ TurnKnows(t, checked)
      /\ allowed \in AuthTurnRecords /\ TurnKnows(t, allowed)
  <2>1. /\ checked \in AuthTurnRecords /\ checked.pc = "check"
        /\ checked.known = authTurn[t].known /\ checked.seen = authTurn[t].seen
        /\ checked.once = authTurn[t].once /\ checked.calls = authTurn[t].calls
        /\ checked.job = authTurn[t].job
    BY <1>1, <1>2 DEF AuthTurnRecords
  <2>2. /\ allowed \in AuthTurnRecords /\ allowed.pc = "check"
        /\ allowed.known = authTurn[t].known /\ allowed.seen = authTurn[t].seen
        /\ allowed.once = authTurn[t].once /\ allowed.calls = authTurn[t].calls
        /\ allowed.job = authTurn[t].job
    BY <1>1, <1>2 DEF AuthTurnRecords
  <2> HIDE DEF checked, allowed
  <2> QED
    BY <1>1, <2>1, <2>2, AuthCheckedKnows
<1>4. ASSUME p \notin InScope(authState.grants.paths, t)
      PROVE  AskIsNew(t, "path", p, CallId(t), authTurn[t].job, authTurn[t].known)
  <2> SUFFICES ASSUME NEW k \in 1..authTurn[t].known, First(k), ApprovesPath(k, t, p) PROVE FALSE
    BY DEF AskIsNew
  <2>1. k \in DOMAIN authAnswers /\ k \in 1..Len(authAnswers)
    BY AuthKnowsNow
  <2>2. CASE SessionPath(k, p)
    BY <1>2, <1>4, <2>1, <2>2 DEF InScope, AuthKnown, AuthLogKnown, KnowsSession
  <2>3. CASE OnceFor(k, t, p)
    BY <1>1, <1>2, <1>4, <2>1, <2>3 DEF InScope, TurnKnows
  <2> QED
    BY <2>2, <2>3 DEF ApprovesPath, CountsFor, SessionPath, OnceFor, Asked
<1>5. p \notin InScope(authState.grants.paths, t) => TurnKnows(t, AskUser(t, "path", p, FALSE))
  BY <1>1, <1>4, AuthAskKnows DEF AuthKinds
<1>6. AskUser(t, "path", p, FALSE) \in AuthTurnRecords /\ Ended(t) \in AuthTurnRecords
  BY <1>1, <1>2, AuthAskFits, AuthEndedFits DEF AuthFits, AuthKinds
<1>7. TurnKnows(t, Ended(t))
  BY <1>1, AuthEndedKnows
<1> HIDE DEF checked, allowed
<1> QED
  BY <1>3, <1>5, <1>6, <1>7, AuthKnownMoves DEF AuthorizePath, checked, allowed

LEMMA AuthNetworkKnows ==
    ASSUME AuthInv, AuthKnown, NEW t \in AuthTurns, NEW n \in authTurn[t].job.targets,
           AuthorizeNetwork(t, n)
    PROVE  AuthKnown'
<1> DEFINE checked == [authTurn[t] EXCEPT !.checked = @ \cup {n}]
           free == n \in authTurn[t].once \cup Subjects(authState.grants.targets)
<1>1. authTurn[t].pc = "check" /\ authTurn[t] \in AuthTurnRecords /\ TurnKnows(t, authTurn[t])
  BY AuthKnowsNow DEF AuthorizeNetwork, PathsChecked
<1>2. n \in AuthSubjects
  BY <1>1, AuthTurnNow, AuthJobSubjects
<1>3. checked \in AuthTurnRecords /\ TurnKnows(t, checked)
  <2>1. /\ checked \in AuthTurnRecords /\ checked.pc = "check"
        /\ checked.known = authTurn[t].known /\ checked.seen = authTurn[t].seen
        /\ checked.once = authTurn[t].once /\ checked.calls = authTurn[t].calls
        /\ checked.job = authTurn[t].job
    BY <1>1, <1>2 DEF AuthTurnRecords
  <2> HIDE DEF checked
  <2> QED
    BY <1>1, <2>1, AuthCheckedKnows
<1>4. ASSUME ~free
      PROVE  AskIsNew(t, "network", n, CallId(t), authTurn[t].job, authTurn[t].known)
  <2> SUFFICES ASSUME NEW k \in 1..authTurn[t].known, First(k), ApprovesTarget(k, t, n) PROVE FALSE
    BY DEF AskIsNew
  <2>1. k \in DOMAIN authAnswers /\ k \in 1..Len(authAnswers)
    BY AuthKnowsNow
  <2>2. CASE SessionTarget(k, n)
    BY <1>2, <1>4, <2>1, <2>2 DEF AuthKnown, AuthLogKnown, KnowsSession
  <2>3. CASE OnceFor(k, t, n)
    BY <1>1, <1>2, <1>4, <2>1, <2>3 DEF TurnKnows
  <2> QED
    BY <2>2, <2>3 DEF ApprovesTarget, CountsFor, SessionTarget, OnceFor, Asked
<1>5. ~free => TurnKnows(t, AskUser(t, "network", n, FALSE))
  BY <1>1, <1>4, AuthAskKnows DEF AuthKinds
<1>6. AskUser(t, "network", n, FALSE) \in AuthTurnRecords /\ Ended(t) \in AuthTurnRecords
  BY <1>1, <1>2, AuthAskFits, AuthEndedFits DEF AuthFits, AuthKinds
<1>7. TurnKnows(t, Ended(t))
  BY <1>1, AuthEndedKnows
<1> HIDE DEF checked
<1> QED
  BY <1>3, <1>5, <1>6, <1>7, AuthKnownMoves DEF AuthorizeNetwork, checked

LEMMA AuthRanKnows ==
    ASSUME AuthInv, AuthKnown, NEW t \in AuthTurns, authTurn[t].pc = "check"
    PROVE  At(t, "ran") \in AuthTurnRecords /\ TurnKnows(t, At(t, "ran"))
<1> DEFINE turn == At(t, "ran")
<1>1. /\ turn \in AuthTurnRecords /\ turn.pc = "ran"
      /\ turn.known = authTurn[t].known /\ turn.seen = authTurn[t].seen
      /\ turn.once = authTurn[t].once /\ turn.calls = authTurn[t].calls
      /\ turn.job = authTurn[t].job
  BY AuthKnowsNow DEF At, AuthTurnRecords, AuthPcs
<1> HIDE DEF turn
<1>2. TurnKnows(t, turn)
  BY <1>1, AuthCheckedKnows
<1> QED
  BY <1>1, <1>2 DEF turn

LEMMA AuthEndedRecord ==
    ASSUME AuthInv, NEW t \in AuthTurns
    PROVE  Ended(t) \in AuthTurnRecords
  BY AuthEndedFits DEF AuthFits

LEMMA AuthRunInScopeKnows ==
    ASSUME AuthInv, AuthKnown, NEW t \in AuthTurns, RunInScope(t)
    PROVE  AuthKnown'
<1>1. authTurn[t].pc = "check" /\ (Step(t, At(t, "ran")) \/ Step(t, Ended(t)))
  BY DEF RunInScope, PathsChecked
<1> QED
  BY <1>1, AuthRanKnows, AuthEndedRecord, AuthEndedKnows, AuthKnownMoves

(* A command is asked about when no answer it knows of is about it, or about a     *)
(* command that covers it: that one's grants would let it run.                    *)
LEMMA AuthRunCommandKnows ==
    ASSUME AuthInv, AuthKnown, NEW t \in AuthTurns, RunCommand(t)
    PROVE  AuthKnown'
<1> DEFINE turn == authTurn[t]
           job == turn.job
           outside == job.workdir \ InScope(turn.seen.paths, t)
           unknown == job.targets \ Subjects(turn.seen.targets)
           scope == outside # {} /\ Policy("path") # "allow"
           network == unknown # {} /\ (Policy("target") = "ask"
                                       \/ (Policy("target") = "none" /\ ~turn.network))
           granted == GrantAllowed(turn.seen.execs, job)
           asking == [At(t, "approve") EXCEPT !.ask.network = network]
           through == granted /\ ~scope /\ ~network
<1>1. turn.pc = "check" /\ job.tool = "bash" /\ job \in AuthJobs
  BY AuthTurnNow, SMTT(60) DEF RunCommand, PathsChecked
<1>2. turn \in AuthTurnRecords /\ TurnKnows(t, turn)
  BY AuthKnowsNow, SMTT(60)
<1>3. \/ Step(t, Ended(t)) \/ Step(t, At(t, "ran"))
      \/ ~through /\ Step(t, asking)
      \/ (outside # {} /\ Policy("path") = "deny") /\ Step(t, Ended(t))
  BY DEF RunCommand
<1>4. ASSUME ~through
      PROVE  AskIsNew(t, "execution", "", CallIdAt(t, turn.calls), job, turn.known)
  <2> SUFFICES ASSUME ~authConfig.repeat, NEW k \in 1..turn.known, First(k),
                      ApprovesCommand(k, t, CallIdAt(t, turn.calls), job)
               PROVE  FALSE
    BY DEF AskIsNew
  <2>1. /\ k \in DOMAIN authAnswers /\ k \in 1..Len(authAnswers)
        /\ Asked(k) \in AuthRequestRecords /\ authAnswers[k].id \in DOMAIN authRequests
    BY AuthKnowsNow, SMTT(60)
  <2>2. ~ExactFor(k, t, CallIdAt(t, turn.calls), job)
    BY <1>1, <1>2, <2>1, SMTT(60) DEF TurnKnows
  <2>3. /\ Asked(k).kind = "execution" /\ authAnswers[k].decision = "session"
        /\ Asked(k).job.command = job.command
        /\ job.workdir \subseteq Asked(k).job.workdir /\ job.targets \subseteq Asked(k).job.targets
    BY <2>2 DEF ApprovesCommand, ExactFor, CountsFor, Asked
  <2>4. Asked(k).job \in AuthJobs
    BY <2>1 DEF AuthRequestRecords
  <2>5. KnowsSession(turn.seen, turn.known)
    BY <1>2 DEF TurnKnows
  <2>6. granted
    <3>1. PICK g \in turn.seen.execs : g.job = Asked(k).job
      BY <2>3, <2>4, <2>5 DEF KnowsSession, SessionJob
    <3> QED
      BY <2>3, <3>1 DEF GrantAllowed
  <2>7. outside = {}
    <3>1. ASSUME NEW w \in job.workdir PROVE w \in Subjects(turn.seen.paths)
      <4>1. w \in AuthSubjects /\ SessionPath(k, w)
        BY <1>1, <2>3, AuthJobSubjects DEF SessionPath
      <4> QED
        BY <2>5, <4>1 DEF KnowsSession
    <3> QED
      BY <3>1 DEF InScope
  <2>8. unknown = {}
    <3>1. ASSUME NEW n \in job.targets PROVE n \in Subjects(turn.seen.targets)
      <4>1. n \in AuthSubjects /\ SessionTarget(k, n)
        BY <1>1, <2>3, AuthJobSubjects DEF SessionTarget
      <4> QED
        BY <2>5, <4>1 DEF KnowsSession
    <3> QED
      BY <3>1
  <2> QED
    BY <1>4, <2>6, <2>7, <2>8
<1>5. ASSUME ~through PROVE asking \in AuthTurnRecords /\ TurnKnows(t, asking)
  <2>1. network \in BOOLEAN
    OBVIOUS
  <2>2. turn.ask \in [kind : AuthKinds \cup {"none"}, subject : AuthSubjects, network : BOOLEAN]
    BY <1>2 DEF AuthTurnRecords
  <2> HIDE DEF network
  <2> DEFINE ask == [turn.ask EXCEPT !.network = network]
  <2>3. /\ asking = [turn EXCEPT !.pc = "approve", !.ask = ask]
        /\ ask \in [kind : AuthKinds \cup {"none"}, subject : AuthSubjects, network : BOOLEAN]
    BY <1>2, <2>1, <2>2 DEF At, AuthTurnRecords
  <2> HIDE DEF ask, asking
  <2>4. /\ asking \in AuthTurnRecords /\ asking.pc = "approve" /\ asking.calls = turn.calls
        /\ asking.job = job /\ asking.seen = turn.seen /\ asking.once = turn.once
        /\ asking.known = turn.known
    BY <1>2, <2>3 DEF AuthTurnRecords, AuthPcs
  <2>5. AskIsNew(t, "execution", "", CallIdAt(t, asking.calls), asking.job, asking.known)
    BY <1>4, <1>5, <2>4
  <2>6. TurnKnows(t, asking)
    BY <1>1, <1>2, <2>4, <2>5 DEF TurnKnows
  <2> QED
    BY <2>4, <2>6
<1> HIDE DEF asking, through
<1> QED
  BY <1>1, <1>3, <1>5, AuthRanKnows, AuthEndedRecord, AuthEndedKnows, AuthKnownMoves, SMTT(60)

LEMMA AuthAuthorizeExecutionKnows ==
    ASSUME AuthInv, AuthKnown, NEW t \in AuthTurns, AuthorizeExecution(t)
    PROVE  AuthKnown'
<1> DEFINE turn == AskUser(t, "execution", "", authTurn[t].ask.network)
<1>1. authTurn[t] \in AuthTurnRecords /\ TurnKnows(t, authTurn[t]) /\ authTurn[t].pc = "approve"
  BY AuthKnowsNow DEF AuthorizeExecution
<1>2. authTurn[t].job.tool = "bash"
      /\ AskIsNew(t, "execution", "", CallId(t), authTurn[t].job, authTurn[t].known)
  BY <1>1 DEF TurnKnows, CallId
<1>3. TurnKnows(t, turn)
  BY <1>1, <1>2, AuthAskKnows DEF AuthKinds
<1>4. turn \in AuthTurnRecords
  <2>1. authTurn[t].job.paths \subseteq authTurn[t].checked
    BY <1>1, AuthKnowsNow DEF TurnCovered
  <2>2. authTurn[t].ask.network \in BOOLEAN /\ "" \in AuthSubjects /\ "execution" \in AuthKinds
    BY <1>1 DEF AuthTurnRecords, AuthSubjects, AuthKinds
  <2> QED
    BY <1>1, <2>1, <2>2, AuthAskFits DEF AuthFits
<1> HIDE DEF turn
<1> QED
  BY <1>3, <1>4, AuthKnownMoves DEF AuthorizeExecution, turn

LEMMA AuthCallReturnsKnows ==
    ASSUME AuthInv, AuthKnown, NEW t \in AuthTurns, CallReturns(t)
    PROVE  AuthKnown'
  BY AuthEndedRecord, AuthEndedKnows, AuthKnownMoves DEF CallReturns

LEMMA AuthReplaysAll ==
    ASSUME NEW t, NEW k \in DOMAIN authAnswers, NEW x, OnceFor(k, t, x)
    PROVE  x \in ReplayedOnce(t)
<1> DEFINE Given(j) ==
        LET r == authRequests[authAnswers[j].id] IN
        IF authAnswers[j].decision # "once" \/ r.turn # t THEN {}
        ELSE IF r.kind = "execution" THEN r.job.workdir ELSE {r.subject}
<1>1. x \in Given(k)
  BY DEF OnceFor, Asked
<1>2. ReplayedOnce(t) = UNION {Given(j) : j \in DOMAIN authAnswers}
  BY SMTT(60) DEF ReplayedOnce
<1> HIDE DEF Given
<1> QED
  BY <1>1, <1>2

(* A resumed turn knows of every answer to its request, which is no longer        *)
(* pending.                                                                       *)
LEMMA AuthResumeKnows ==
    ASSUME AuthInv, AuthKnown, NEW t \in AuthTurns, Resume(t)
    PROVE  AuthKnown'
<1> DEFINE r == authRequests[authTurn[t].wait]
           answers == {k \in DOMAIN authAnswers : authAnswers[k].id = authTurn[t].wait}
           last == CHOOSE k \in answers : \A j \in answers : j <= k
           on == [At(t, "execute") EXCEPT !.network = r.network, !.wait = 0, !.once = ReplayedOnce(t)]
           off == [Ended(t) EXCEPT !.once = ReplayedOnce(t)]
<1>1. /\ authTurn[t] \in AuthTurnRecords /\ TurnKnows(t, authTurn[t]) /\ TurnCovered(t, authTurn[t])
      /\ authTurn[t].pc = "wait"
  BY AuthKnowsNow, SMTT(60) DEF Resume
<1>2. r.turn = t /\ answers # {}
  BY SMTT(60) DEF Resume
<1>3. Step(t, off) \/ Step(t, on)
  <2>1. Step(t, [(IF authAnswers[last].decision = "deny" THEN Ended(t)
                  ELSE [At(t, "execute") EXCEPT !.network = r.network, !.wait = 0])
                 EXCEPT !.once = ReplayedOnce(t)])
    BY DEF Resume
  <2> QED
    BY <2>1
<1>4. authTurn[t].wait \in DOMAIN authRequests /\ r \in AuthRequestRecords
  BY <1>1, AuthKnowsNow DEF TurnCovered
<1>5. r.network \in BOOLEAN /\ ReplayedOnce(t) \subseteq AuthSubjects
  BY <1>4, AuthReplayed DEF AuthRequestRecords, AuthInv
<1> HIDE DEF last
<1>6. /\ off \in AuthTurnRecords /\ off.pc = "idle" /\ off.seen = NoGrants /\ off.known = 0
      /\ off.once = ReplayedOnce(t)
  <2>1. /\ Ended(t) \in AuthTurnRecords /\ Ended(t).pc = "idle" /\ Ended(t).seen = NoGrants
        /\ Ended(t).known = 0
    BY AuthEndedRecord DEF Ended, IdleTurn
  <2> QED
    BY <1>5, <2>1 DEF AuthTurnRecords
<1>7. /\ on \in AuthTurnRecords /\ on.pc = "execute" /\ on.calls = authTurn[t].calls
      /\ on.job = authTurn[t].job /\ on.seen = authTurn[t].seen /\ on.once = ReplayedOnce(t)
      /\ on.known = authTurn[t].known /\ on.network = r.network
  <2> HIDE DEF r
  <2> QED
    BY <1>1, <1>5 DEF At, AuthTurnRecords, AuthPcs
<1> HIDE DEF on, off
<1>8. \A i \in authState.pending : authRequests[i].turn # t
  <2> SUFFICES ASSUME NEW i \in authState.pending, authRequests[i].turn = t PROVE FALSE
    OBVIOUS
  <2>1. authTurn[t].wait = i
    BY <1>1 DEF TurnKnows
  <2>2. Answers(i) = {}
    BY AuthKnowsNow DEF AuthKnown, AuthLogKnown, PendingUnanswered, AuthShape, AuthStateShape
  <2> QED
    BY <1>2, <2>1, <2>2 DEF Answers
<1>9. /\ 0 <= Len(authAnswers) /\ KnowsSession(NoGrants, 0)
      /\ authTurn[t].known <= Len(authAnswers) /\ KnowsSession(authTurn[t].seen, authTurn[t].known)
  <2>1. KnowsSession(NoGrants, 0)
    BY DEF KnowsSession
  <2>2. authTurn[t].known <= Len(authAnswers) /\ KnowsSession(authTurn[t].seen, authTurn[t].known)
    BY <1>1 DEF TurnKnows
  <2>3. Len(authAnswers) \in Nat
    BY AuthKnowsNow
  <2> QED
    BY <2>1, <2>2, <2>3
<1>10. \A k \in DOMAIN authAnswers, x \in AuthSubjects : OnceFor(k, t, x) => x \in ReplayedOnce(t)
  BY AuthReplaysAll
<1>11. TurnKnows(t, off)
  BY <1>6, <1>8, <1>9, <1>10 DEF TurnKnows
<1>12. ASSUME ~authConfig.repeat, NEW k \in DOMAIN authAnswers, First(k),
              ExactFor(k, t, CallIdAt(t, on.calls), on.job)
       PROVE  on.network = Asked(k).network
  <2>1. authTurn[t].wait = authAnswers[k].id
    BY <1>1, <1>7, <1>12 DEF TurnKnows
  <2> QED
    BY <1>7, <2>1 DEF Asked
<1>13. TurnKnows(t, on)
  BY <1>7, <1>8, <1>9, <1>10, <1>12 DEF TurnKnows
<1> QED
  BY <1>3, <1>6, <1>7, <1>11, <1>13, AuthKnownMoves, SMTT(60)

(* A request is appended with the answers its turn knows of, none of which is     *)
(* about it.                                                                      *)
LEMMA AuthAppendRequestKnows ==
    ASSUME AuthInv, AuthKnown, NEW t \in AuthTurns, AppendRequest(t)
    PROVE  AuthKnown'
<1>0. PICK turn : turn = authTurn[t]
  OBVIOUS
<1>1. /\ turn \in AuthTurnRecords /\ TurnKnows(t, turn) /\ TurnCovered(t, turn)
      /\ turn.pc = "ask" /\ AuthShape
  BY <1>0, AuthKnowsNow DEF AppendRequest
<1>2. PICK n, req, waiting :
         /\ n = Len(authRequests) + 1
         /\ req = [turn |-> t, call |-> CallIdAt(t, turn.calls), kind |-> turn.ask.kind,
                   subject |-> turn.ask.subject, network |-> turn.ask.network,
                   job |-> turn.job, known |-> turn.known]
         /\ waiting = [turn EXCEPT !.pc = "wait", !.wait = n]
  OBVIOUS
<1>3. /\ authRequests \in Seq(AuthRequestRecords) /\ Len(authRequests) \in Nat
      /\ DOMAIN authRequests = 1..Len(authRequests) /\ n \notin DOMAIN authRequests /\ n \in Nat
      /\ authState.pending \subseteq DOMAIN authRequests
      /\ \A k \in DOMAIN authAnswers : authAnswers[k].id \in DOMAIN authRequests
      /\ Len(authAnswers) \in Nat /\ DOMAIN authAnswers = 1..Len(authAnswers)
  BY <1>1, <1>2, AuthLog DEF AuthShape, AuthLogShape, AuthStateShape
<1>4. /\ authRequests' = Append(authRequests, req) /\ authAnswers' = authAnswers
      /\ authConfig' = authConfig
  BY <1>0, <1>2 DEF AppendRequest, CallId
<1>5. /\ authRequests'[n] = req /\ Len(authRequests') = n /\ n \in DOMAIN authRequests'
      /\ \A i \in DOMAIN authRequests : i \in DOMAIN authRequests' /\ authRequests'[i] = authRequests[i]
      /\ \A i \in DOMAIN authRequests' : i \in DOMAIN authRequests \/ i = n
  BY <1>2, <1>3, <1>4
<1>6. /\ authState' = [authState EXCEPT !.pending = @ \cup {n}]
      /\ authTurn' = [authTurn EXCEPT ![t] = waiting]
  BY <1>0, <1>1, <1>2, <1>5 DEF AppendRequest, At
<1>7. AuthLogGrows
  BY <1>4, <1>5 DEF AuthLogGrows
<1>8. /\ authState'.pending = authState.pending \cup {n} /\ authState'.grants = authState.grants
      /\ authState'.approved = authState.approved
  BY <1>1, <1>6 DEF AuthShape, AuthStateShape
<1>9. /\ waiting.pc = "wait" /\ waiting.wait = n /\ waiting.calls = turn.calls
      /\ waiting.job = turn.job /\ waiting.seen = turn.seen /\ waiting.once = turn.once
      /\ waiting.known = turn.known /\ turn.known \in Nat /\ turn.known <= Len(authAnswers)
  BY <1>1, <1>2 DEF AuthTurnRecords, TurnKnows
<1>10. /\ req.turn = t /\ req.call = CallIdAt(t, turn.calls) /\ req.kind = turn.ask.kind
       /\ req.subject = turn.ask.subject /\ req.job = turn.job /\ req.known = turn.known
  BY <1>2
<1>11. AuthLogKnown'
  <2>1. PendingUnanswered'
    <3>1. ASSUME NEW i \in DOMAIN authRequests PROVE (i \in authState.pending <=> Answers(i) = {})'
      BY <1>3, <1>4, <1>8 DEF AuthKnown, AuthLogKnown, PendingUnanswered, Answers
    <3>2. (n \in authState.pending <=> Answers(n) = {})'
      BY <1>3, <1>4, <1>8 DEF Answers
    <3> QED
      BY <1>5, <3>1, <3>2 DEF PendingUnanswered
  <2>2. KnowsSession(authState.grants, Len(authAnswers))'
    <3>1. PICK grants, m : grants = authState.grants /\ m = Len(authAnswers)
      OBVIOUS
    <3>2. KnowsSession(grants, m) /\ m \in Nat /\ m <= Len(authAnswers)
      BY <1>3, <3>1 DEF AuthKnown, AuthLogKnown
    <3>3. KnowsSession(grants, m)'
      BY <1>1, <1>7, <3>2, AuthKnowledgeStays
    <3> QED
      BY <1>4, <1>8, <3>1, <3>3
  <2>3. (~authConfig.repeat => KnowsApprovals)'
    <3> SUFFICES ASSUME ~authConfig'.repeat, NEW k \in DOMAIN authAnswers', First(k)',
                        authAnswers'[k].decision # "deny", Asked(k)'.kind = "execution"
                 PROVE  [call |-> Asked(k)'.call, turn |-> Asked(k)'.turn, job |-> Asked(k)'.job,
                         network |-> Asked(k)'.network] \in authState'.approved
      BY DEF KnowsApprovals
    <3>1. k \in DOMAIN authAnswers /\ Asked(k)' = Asked(k) /\ First(k)
      BY <1>1, <1>4, <1>7, AuthAnswersStay, AuthFirstStays DEF Asked
    <3> QED
      BY <1>4, <1>8, <3>1 DEF AuthKnown, AuthLogKnown, KnowsApprovals
  <2>4. \A i \in DOMAIN authRequests' :
          /\ authRequests'[i].known <= Len(authAnswers')
          /\ authRequests'[i].kind = "execution" => authRequests'[i].job.tool = "bash"
    <3>1. turn.ask.kind = "execution" => turn.job.tool = "bash"
      BY <1>1 DEF TurnKnows
    <3>2. \A i \in DOMAIN authRequests :
             /\ authRequests[i].known <= Len(authAnswers)
             /\ authRequests[i].kind = "execution" => authRequests[i].job.tool = "bash"
      BY DEF AuthKnown, AuthLogKnown
    <3> QED
      BY <1>4, <1>5, <1>9, <1>10, <3>1, <3>2
  <2>5. AuthAskedOnce'
    <3>1. ASSUME NEW i \in DOMAIN authRequests
          PROVE  AskIsNew(authRequests[i].turn, authRequests[i].kind, authRequests[i].subject,
                          authRequests[i].call, authRequests[i].job, authRequests[i].known)
      BY DEF AuthKnown, AuthLogKnown, AuthAskedOnce, AskIsNew
    <3>2. AskIsNew(req.turn, req.kind, req.subject, req.call, req.job, req.known)
      BY <1>1, <1>10 DEF TurnKnows
    <3>3. ASSUME NEW q, q.known \in Nat, q.known <= Len(authAnswers),
                 AskIsNew(q.turn, q.kind, q.subject, q.call, q.job, q.known)
          PROVE  AskIsNew(q.turn, q.kind, q.subject, q.call, q.job, q.known)'
      BY <1>1, <1>7, <3>3, AuthKnowledgeStays
    <3>4. ASSUME NEW i \in DOMAIN authRequests', NEW q, q = authRequests'[i]
          PROVE  AskIsNew(q.turn, q.kind, q.subject, q.call, q.job, q.known)'
      <4>1. CASE i = n
        BY <1>5, <1>9, <1>10, <3>2, <3>3, <3>4, <4>1
      <4>2. CASE i \in DOMAIN authRequests
        <5>1. q = authRequests[i] /\ q.known \in Nat /\ q.known <= Len(authAnswers)
          BY <1>1, <1>5, <3>4, <4>2, AuthLog DEF AuthRequestRecords, AuthKnown, AuthLogKnown
        <5> QED
          BY <3>1, <3>3, <4>2, <5>1
      <4> QED
        BY <1>5, <4>1, <4>2
    <3> QED
      BY <3>4 DEF AuthAskedOnce, AskIsNew
  <2> QED
    BY <2>1, <2>2, <2>3, <2>4, <2>5 DEF AuthLogKnown
<1>12. ASSUME NEW u \in AuthTurns PROVE TurnKnows(u, authTurn[u])'
  <2>1. CASE u = t
    <3>1. authTurn'[u] = waiting
      BY <1>1, <1>6, <2>1 DEF AuthShape, AuthTurnShape
    <3>2. /\ \A i \in authState.pending : authRequests[i].turn # t
          /\ \A k \in DOMAIN authAnswers, x \in AuthSubjects :
                First(k) /\ OnceFor(k, t, x) => x \in turn.once
          /\ ~authConfig.repeat =>
                \A k \in DOMAIN authAnswers :
                    ~(First(k) /\ ExactFor(k, t, CallIdAt(t, turn.calls), turn.job))
          /\ KnowsSession(turn.seen, turn.known)
      BY <1>1 DEF TurnKnows
    <3>3. \A i \in authState'.pending : authRequests'[i].turn = t => i = n
      BY <1>3, <1>5, <1>8, <3>2
    <3>4. \A k \in DOMAIN authAnswers', x \in AuthSubjects :
              First(k)' /\ OnceFor(k, t, x)' => x \in turn.once
      BY <1>1, <1>4, <1>7, <3>2, AuthFirstStays, AuthAnswersStay
    <3>5. ~authConfig'.repeat =>
              \A k \in DOMAIN authAnswers' :
                  ~(First(k)' /\ ExactFor(k, t, CallIdAt(t, turn.calls), turn.job)')
      BY <1>1, <1>4, <1>7, <3>2, AuthFirstStays, AuthAnswersStay DEF CallIdAt
    <3>6. KnowsSession(turn.seen, turn.known)'
      BY <1>1, <1>7, <1>9, <3>2, AuthKnowledgeStays
    <3>7. TurnKnows(t, waiting)'
      BY <1>4, <1>9, <3>3, <3>4, <3>5, <3>6 DEF TurnKnows
    <3> QED
      BY <2>1, <3>1, <3>7
  <2>2. CASE u # t
    <3>1. authTurn'[u] = authTurn[u]
      BY <1>1, <1>6, <2>2 DEF AuthShape, AuthTurnShape
    <3>2. TurnKnows(u, authTurn[u]) /\ authTurn[u].known \in Nat
      BY AuthKnowsNow
    <3>3. \A i \in authState'.pending :
              authRequests'[i].turn = u => i \in authState.pending /\ authRequests[i].turn = u
      BY <1>3, <1>5, <1>8, <1>10, <2>2
    <3> QED
      BY <1>1, <1>4, <1>7, <3>1, <3>2, <3>3, AuthTurnKnowsStays
  <2> QED
    BY <2>1, <2>2
<1> QED
  BY <1>11, <1>12 DEF AuthKnown

LEMMA AuthUnchangedKnows ==
    ASSUME AuthInv, AuthKnown, AuthLogUnchanged, authTurn' = authTurn
    PROVE  AuthKnown'
<1>1. AuthLogKnown'
  BY AuthLogKnownStays DEF AuthKnown
<1>2. AuthLogGrows /\ authAnswers' = authAnswers /\ authRequests' = authRequests /\ authState' = authState
  BY DEF AuthLogUnchanged, AuthLogGrows
<1>3. ASSUME NEW t \in AuthTurns PROVE TurnKnows(t, authTurn[t])'
  BY <1>2, AuthKnowsNow, AuthTurnKnowsStays
<1> QED
  BY <1>1, <1>3 DEF AuthKnown

(* What an answer adds to the projected state.                                    *)
LEMMA AuthAnswerAdds ==
    ASSUME AuthInv, NEW u \in AuthUsers, AppendAnswer(u)
    PROVE  LET id == authUser[u].id
               decision == authUser[u].decision
               pending == id \in authState.pending
               r == authRequests[id]
               after == authState'
           IN
           /\ id \in DOMAIN authRequests /\ decision \in AuthDecisions
           /\ after.pending = authState.pending \ {id}
           /\ Subjects(authState.grants.paths) \subseteq Subjects(after.grants.paths)
           /\ Subjects(authState.grants.targets) \subseteq Subjects(after.grants.targets)
           /\ authState.grants.execs \subseteq after.grants.execs
           /\ decision = "session" /\ pending =>
                 /\ r.kind = "path" => r.subject \in Subjects(after.grants.paths)
                 /\ r.kind = "network" => r.subject \in Subjects(after.grants.targets)
           /\ decision = "session" /\ r.kind = "execution" =>
                 /\ r.job.workdir \subseteq Subjects(after.grants.paths)
                 /\ r.job.targets \subseteq Subjects(after.grants.targets)
                 /\ \E g \in after.grants.execs : g.job = r.job
           /\ r.kind # "execution" \/ ~pending => after.approved = authState.approved
           /\ \A a \in authState.approved : a.call # r.call => a \in after.approved
           /\ r.kind = "execution" /\ pending /\ decision # "deny" =>
                 [call |-> r.call, turn |-> r.turn, job |-> r.job, network |-> r.network]
                     \in after.approved
<1>0. PICK id, decision, r, pending, after :
          /\ id = authUser[u].id /\ decision = authUser[u].decision
          /\ r = authRequests[id] /\ pending = (id \in authState.pending) /\ after = authState'
  BY SMTT(60)
<1> DEFINE session == decision = "session"
           given == IF pending /\ session THEN {r.subject} ELSE {}
           workdir == IF session THEN r.job.workdir ELSE {}
           hosts == IF session THEN r.job.targets ELSE {}
           file == IF r.kind = "path" THEN given ELSE {}
           host == IF r.kind = "network" THEN given ELSE {}
           whole == IF session THEN {[job |-> r.job, from |-> id]} ELSE {}
           others == {a \in authState.approved : a.call # r.call}
           approval == [call |-> r.call, turn |-> r.turn, job |-> r.job, network |-> r.network]
           kept == IF ~pending THEN authState.approved
                   ELSE IF decision = "deny" THEN others ELSE others \cup {approval}
<1>1. authState \in [pending : SUBSET Nat, grants : AuthGrantRecords, approved : SUBSET AuthApprovals]
  BY SMTT(60) DEF AuthInv, AuthShape, AuthStateShape
<1>2. /\ id \in DOMAIN authRequests /\ decision \in AuthDecisions /\ pending \in BOOLEAN
  BY <1>0, SMTT(60) DEF AuthInv, AuthShape, AuthUserShape, AppendAnswer
<1>3. after = [(IF r.kind = "execution"
                THEN ExecutionResolved(id, decision, pending)
                ELSE PermissionResolved(id, decision, pending))
               EXCEPT !.pending = @ \ {id}]
  BY <1>0 DEF AppendAnswer
<1>4. ASSUME NEW old, NEW S
      PROVE  Subjects(Granted(old, S, id)) = Subjects(old) \cup S
  <2>1. ASSUME NEW x \in S PROVE x \in Subjects(Granted(old, S, id))
    <3>1. [subject |-> x, from |-> id] \in Granted(old, S, id)
      BY DEF Granted
    <3> QED
      BY <3>1 DEF Subjects
  <2>2. Subjects(old) \subseteq Subjects(Granted(old, S, id))
    BY DEF Subjects, Granted
  <2>3. ASSUME NEW g \in Granted(old, S, id) PROVE g.subject \in Subjects(old) \cup S
    BY DEF Subjects, Granted
  <2>4. Subjects(Granted(old, S, id)) \subseteq Subjects(old) \cup S
    BY <2>3 DEF Subjects
  <2> QED
    BY <2>1, <2>2, <2>4
<1> DEFINE Goal ==
           /\ id \in DOMAIN authRequests /\ decision \in AuthDecisions
           /\ after.pending = authState.pending \ {id}
           /\ Subjects(authState.grants.paths) \subseteq Subjects(after.grants.paths)
           /\ Subjects(authState.grants.targets) \subseteq Subjects(after.grants.targets)
           /\ authState.grants.execs \subseteq after.grants.execs
           /\ decision = "session" /\ pending =>
                 /\ r.kind = "path" => r.subject \in Subjects(after.grants.paths)
                 /\ r.kind = "network" => r.subject \in Subjects(after.grants.targets)
           /\ decision = "session" /\ r.kind = "execution" =>
                 /\ r.job.workdir \subseteq Subjects(after.grants.paths)
                 /\ r.job.targets \subseteq Subjects(after.grants.targets)
                 /\ \E g \in after.grants.execs : g.job = r.job
           /\ r.kind # "execution" \/ ~pending => after.approved = authState.approved
           /\ \A a \in authState.approved : a.call # r.call => a \in after.approved
           /\ r.kind = "execution" /\ pending /\ decision # "deny" =>
                 [call |-> r.call, turn |-> r.turn, job |-> r.job, network |-> r.network]
                     \in after.approved
<1>5. ASSUME r.kind = "execution" PROVE Goal
  <2>1. ExecutionResolved(id, decision, pending) =
          [authState EXCEPT
              !.grants.paths = Granted(@, workdir, id),
              !.grants.targets = Granted(@, hosts, id),
              !.grants.execs = @ \cup whole,
              !.approved = kept]
    BY <1>0 DEF ExecutionResolved
  <2>2. session => \E g \in whole : g.job = r.job
    OBVIOUS
  <2>3. /\ \A a \in authState.approved : a.call # r.call => a \in kept
        /\ ~pending => kept = authState.approved
        /\ pending /\ decision # "deny" => approval \in kept
    OBVIOUS
  <2> HIDE DEF workdir, hosts, whole, kept, approval, session
  <2>10. after = [[authState EXCEPT
                      !.grants.paths = Granted(@, workdir, id),
                      !.grants.targets = Granted(@, hosts, id),
                      !.grants.execs = @ \cup whole,
                      !.approved = kept] EXCEPT !.pending = @ \ {id}]
    BY <1>3, <1>5, <2>1
  <2>4. /\ after.pending = authState.pending \ {id} /\ after.approved = kept
        /\ after.grants.paths = Granted(authState.grants.paths, workdir, id)
        /\ after.grants.targets = Granted(authState.grants.targets, hosts, id)
        /\ after.grants.execs = authState.grants.execs \cup whole
    BY <1>1, <2>10 DEF AuthGrantRecords
  <2>5. /\ Subjects(after.grants.paths) = Subjects(authState.grants.paths) \cup workdir
        /\ Subjects(after.grants.targets) = Subjects(authState.grants.targets) \cup hosts
    BY <1>4, <2>4
  <2>6. session => workdir = r.job.workdir /\ hosts = r.job.targets
    BY DEF workdir, hosts
  <2>7. approval = [call |-> r.call, turn |-> r.turn, job |-> r.job, network |-> r.network]
    BY DEF approval
  <2>8. decision = "session" =>
           /\ r.job.workdir \subseteq Subjects(after.grants.paths)
           /\ r.job.targets \subseteq Subjects(after.grants.targets)
           /\ \E g \in after.grants.execs : g.job = r.job
    BY <2>2, <2>4, <2>5, <2>6 DEF session
  <2>9. /\ ~pending => after.approved = authState.approved
        /\ \A a \in authState.approved : a.call # r.call => a \in after.approved
        /\ pending /\ decision # "deny" =>
              [call |-> r.call, turn |-> r.turn, job |-> r.job, network |-> r.network]
                  \in after.approved
    BY <2>3, <2>4, <2>7
  <2> QED
    BY <1>2, <1>5, <2>4, <2>5, <2>8, <2>9
<1>6. ASSUME r.kind # "execution" PROVE Goal
  <2>1. PermissionResolved(id, decision, pending) =
          [authState EXCEPT
              !.grants.paths = Granted(@, file, id),
              !.grants.targets = Granted(@, host, id)]
    BY <1>0 DEF PermissionResolved
  <2>4. pending /\ session => /\ r.kind = "path" => r.subject \in file
                              /\ r.kind = "network" => r.subject \in host
    OBVIOUS
  <2> HIDE DEF file, host, session
  <2>10. after = [[authState EXCEPT
                      !.grants.paths = Granted(@, file, id),
                      !.grants.targets = Granted(@, host, id)] EXCEPT !.pending = @ \ {id}]
    BY <1>3, <1>6, <2>1
  <2>2. /\ after.pending = authState.pending \ {id} /\ after.approved = authState.approved
        /\ after.grants.paths = Granted(authState.grants.paths, file, id)
        /\ after.grants.targets = Granted(authState.grants.targets, host, id)
        /\ after.grants.execs = authState.grants.execs
    BY <1>1, <2>10 DEF AuthGrantRecords
  <2>3. /\ Subjects(after.grants.paths) = Subjects(authState.grants.paths) \cup file
        /\ Subjects(after.grants.targets) = Subjects(authState.grants.targets) \cup host
    BY <1>4, <2>2
  <2>5. ASSUME decision = "session", pending
        PROVE  /\ r.kind = "path" => r.subject \in Subjects(after.grants.paths)
               /\ r.kind = "network" => r.subject \in Subjects(after.grants.targets)
    <3>1. session
      BY <2>5 DEF session
    <3>2. ASSUME r.kind = "path" PROVE r.subject \in Subjects(after.grants.paths)
      <4>1. r.subject \in file
        BY <2>4, <2>5, <3>1, <3>2
      <4> QED
        BY <2>3, <4>1
    <3>3. ASSUME r.kind = "network" PROVE r.subject \in Subjects(after.grants.targets)
      <4>1. r.subject \in host
        BY <2>4, <2>5, <3>1, <3>3
      <4> QED
        BY <2>3, <4>1
    <3> QED
      BY <3>2, <3>3
  <2> QED
    BY <1>2, <1>6, <2>2, <2>3, <2>5
<1>7. Goal
  BY <1>5, <1>6
<1> QED
  BY <1>0, <1>7, ZenonT(60)

LEMMA AuthReadRequestKnows ==
    ASSUME AuthInv, AuthKnown, NEW u \in AuthUsers, NEW id, NEW d, ReadRequest(u, id, d)
    PROVE  AuthKnown'
<1>1. AuthLogUnchanged /\ authTurn' = authTurn
  BY DEF ReadRequest, AuthLogUnchanged
<1> QED
  BY <1>1, AuthUnchangedKnows

(* The first answer to a request finds it pending, and the turn that made it waits. *)
LEMMA AuthAppendAnswerKnows ==
    ASSUME AuthInv, AuthKnown, NEW u \in AuthUsers, AppendAnswer(u)
    PROVE  AuthKnown'
<1>0. PICK id, decision, r, pending, after, m :
          /\ id = authUser[u].id /\ decision = authUser[u].decision
          /\ r = authRequests[id] /\ pending = (id \in authState.pending)
          /\ after = authState' /\ m = Len(authAnswers) + 1
  BY SMTT(60)
<1>1. /\ AuthShape /\ AuthLogKnown /\ Len(authAnswers) \in Nat
      /\ DOMAIN authAnswers = 1..Len(authAnswers)
      /\ authAnswers \in Seq([id : Nat, decision : AuthDecisions])
  BY AuthLog, SMTT(60) DEF AuthInv, AuthKnown, AuthShape, AuthLogShape
<1>2. /\ id \in DOMAIN authRequests /\ decision \in AuthDecisions
      /\ r \in AuthRequestRecords /\ pending \in BOOLEAN
  <2>1. id \in DOMAIN authRequests /\ decision \in AuthDecisions
    BY <1>0, AuthAnswerAdds
  <2>2. pending \in BOOLEAN
    BY <1>0, SMTT(60)
  <2> QED
    BY <1>0, <1>1, <2>1, <2>2, AuthLog, SMTT(60)
<1>3. PICK entry : entry = [id |-> id, decision |-> decision]
  OBVIOUS
<1>4. /\ authAnswers' = Append(authAnswers, entry) /\ authConfig' = authConfig
      /\ authRequests' = authRequests /\ authTurn' = authTurn
  BY <1>0, <1>3 DEF AppendAnswer
<1>5. /\ DOMAIN authAnswers' = 1..m /\ Len(authAnswers') = m /\ authAnswers'[m] = entry
      /\ m \in Nat /\ m \in DOMAIN authAnswers'
      /\ \A k \in DOMAIN authAnswers : k \in DOMAIN authAnswers' /\ authAnswers'[k] = authAnswers[k]
      /\ \A k \in 1..m : k \in DOMAIN authAnswers \/ k = m
      /\ \A k \in 1..(m - 1) : k \in DOMAIN authAnswers
      /\ DOMAIN authAnswers = 1..(m - 1)
  BY <1>0, <1>1, <1>4
<1>6. entry.id = id /\ entry.decision = decision /\ Asked(m)' = r
  BY <1>0, <1>3, <1>4, <1>5 DEF Asked
<1>7. AuthLogGrows
  BY <1>4, <1>5 DEF AuthLogGrows
<1>8. \A k \in DOMAIN authAnswers : First(k)' = First(k) /\ Asked(k)' = Asked(k)
  BY <1>1, <1>7, AuthFirstStays, AuthAnswersStay DEF Asked
<1>9. pending <=> Answers(id) = {}
  BY <1>0, <1>1, <1>2 DEF AuthLogKnown, PendingUnanswered
<1>10. First(m)' => pending
  <2> SUFFICES ASSUME First(m)' PROVE Answers(id) = {}
    BY <1>9
  <2>1. \A j \in 1..(m - 1) : authAnswers'[j].id # id
    BY <1>5, <1>6 DEF First
  <2>2. \A j \in DOMAIN authAnswers : authAnswers[j].id # id
    BY <1>5, <2>1, SMTT(60)
  <2> QED
    BY <2>2 DEF Answers
<1>11. /\ after.pending = authState.pending \ {id}
       /\ Subjects(authState.grants.paths) \subseteq Subjects(after.grants.paths)
       /\ Subjects(authState.grants.targets) \subseteq Subjects(after.grants.targets)
       /\ authState.grants.execs \subseteq after.grants.execs
       /\ decision = "session" /\ pending =>
             /\ r.kind = "path" => r.subject \in Subjects(after.grants.paths)
             /\ r.kind = "network" => r.subject \in Subjects(after.grants.targets)
       /\ decision = "session" /\ r.kind = "execution" =>
             /\ r.job.workdir \subseteq Subjects(after.grants.paths)
             /\ r.job.targets \subseteq Subjects(after.grants.targets)
             /\ \E g \in after.grants.execs : g.job = r.job
       /\ r.kind # "execution" \/ ~pending => after.approved = authState.approved
       /\ \A a \in authState.approved : a.call # r.call => a \in after.approved
       /\ r.kind = "execution" /\ pending /\ decision # "deny" =>
             [call |-> r.call, turn |-> r.turn, job |-> r.job, network |-> r.network]
                 \in after.approved
  BY <1>0, AuthAnswerAdds
<1>12. \A i \in DOMAIN authRequests : Answers(i)' = IF i = id THEN Answers(i) \cup {m} ELSE Answers(i)
  BY <1>5, <1>6 DEF Answers
<1>13. PendingUnanswered'
  <2>1. ASSUME NEW i \in DOMAIN authRequests PROVE i \in after.pending <=> Answers(i)' = {}
    BY <1>1, <1>11, <1>12 DEF AuthLogKnown, PendingUnanswered
  <2> QED
    BY <1>0, <1>4, <2>1 DEF PendingUnanswered
<1>14. KnowsSession(authState.grants, Len(authAnswers))'
  <2>1. KnowsSession(authState.grants, m - 1)
    BY <1>0, <1>1 DEF AuthLogKnown
  <2>2. ASSUME NEW k \in 1..m, First(k)'
        PROVE  /\ \A p \in AuthSubjects : SessionPath(k, p)' => p \in Subjects(after.grants.paths)
               /\ \A x \in AuthSubjects : SessionTarget(k, x)' => x \in Subjects(after.grants.targets)
               /\ \A job \in AuthJobs : SessionJob(k, job)' => \E g \in after.grants.execs : g.job = job
    <3>1. CASE k = m
      <4>1. \A p \in AuthSubjects : SessionPath(k, p)' => p \in Subjects(after.grants.paths)
        BY <1>5, <1>6, <1>10, <1>11, <2>2, <3>1 DEF SessionPath
      <4>2. \A x \in AuthSubjects : SessionTarget(k, x)' => x \in Subjects(after.grants.targets)
        BY <1>5, <1>6, <1>10, <1>11, <2>2, <3>1 DEF SessionTarget
      <4>3. \A job \in AuthJobs : SessionJob(k, job)' => \E g \in after.grants.execs : g.job = job
        BY <1>5, <1>6, <1>11, <3>1 DEF SessionJob
      <4> QED
        BY <4>1, <4>2, <4>3
    <3>2. CASE k # m
      <4>1. k \in DOMAIN authAnswers /\ k \in 1..(m - 1) /\ First(k)
        BY <1>5, <1>8, <2>2, <3>2
      <4> QED
        BY <1>1, <1>7, <1>11, <2>1, <4>1, AuthAnswersStay DEF KnowsSession
    <3> QED
      BY <3>1, <3>2
  <2> QED
    BY <1>0, <1>5, <2>2 DEF KnowsSession
<1>15. (~authConfig.repeat => KnowsApprovals)'
  <2> SUFFICES ASSUME ~authConfig.repeat, NEW k \in DOMAIN authAnswers', First(k)',
                      authAnswers'[k].decision # "deny", Asked(k)'.kind = "execution",
                      NEW a, a = [call |-> Asked(k)'.call, turn |-> Asked(k)'.turn,
                                  job |-> Asked(k)'.job, network |-> Asked(k)'.network]
               PROVE  a \in after.approved
    BY <1>0, <1>4 DEF KnowsApprovals
  <2>1. CASE k = m
    BY <1>5, <1>6, <1>10, <1>11, <2>1
  <2>2. CASE k # m
    <3>1. /\ k \in DOMAIN authAnswers /\ First(k) /\ Asked(k)' = Asked(k)
          /\ authAnswers[k].decision # "deny" /\ Asked(k).kind = "execution"
      BY <1>5, <1>8, <2>2
    <3>2. a \in authState.approved /\ a.call = Asked(k).call
      BY <1>1, <3>1 DEF AuthLogKnown, KnowsApprovals
    <3>3. CASE r.kind = "execution" /\ pending /\ a.call = r.call
      <4>1. PICK q, j, t, turn : /\ q = Asked(k) /\ j = authAnswers[k].id /\ t = r.turn
                                 /\ turn = authTurn[t]
        OBVIOUS
      <4>2. /\ q \in AuthRequestRecords /\ j \in DOMAIN authRequests /\ q = authRequests[j]
            /\ t \in AuthTurns
        BY <1>1, <1>2, <3>1, <4>1, AuthLog DEF Asked, AuthRequestRecords
      <4>3. /\ OwnRequests(t, turn) /\ TurnCovered(t, turn) /\ TurnKnows(t, turn)
            /\ OwnRequests(q.turn, authTurn[q.turn])
        BY <4>1, <4>2 DEF AuthInv, AuthCovered, AuthKnown, AuthRequestRecords
      <4>4. q.turn = t
        <5>1. q.call = CallIdAt(q.turn, q.call[2]) /\ r.call = CallIdAt(t, r.call[2])
          BY <1>0, <1>2, <4>1, <4>2, <4>3, SMTT(60) DEF OwnRequests
        <5>2. q.call = r.call
          BY <3>2, <3>3, <4>1
        <5> QED
          BY <5>1, <5>2, SMTT(60) DEF CallIdAt
      <4>5. turn.pc = "wait" /\ turn.wait = id
        BY <1>0, <3>3, <4>1, <4>3 DEF TurnKnows
      <4>6. r.call = CallIdAt(t, turn.calls)
        BY <1>0, <3>3, <4>3, <4>5 DEF TurnCovered
      <4>7. q.call = CallIdAt(t, turn.calls) /\ q.call[2] = turn.calls
        <5>1. q.call = CallIdAt(t, turn.calls)
          BY <3>2, <3>3, <4>1, <4>6
        <5> QED
          BY <5>1 DEF CallIdAt
      <4>8. q.job = turn.job
        BY <4>2, <4>3, <4>4, <4>5, <4>7 DEF OwnRequests
      <4>9. ExactFor(k, t, CallIdAt(t, turn.calls), turn.job)
        BY <3>1, <4>1, <4>4, <4>7, <4>8 DEF ExactFor
      <4>10. j = id
        BY <3>1, <4>1, <4>3, <4>5, <4>9 DEF TurnKnows
      <4> QED
        BY <1>9, <3>1, <3>3, <4>1, <4>10 DEF Answers
    <3> QED
      BY <1>2, <1>11, <3>2, <3>3
  <2> QED
    BY <2>1, <2>2
<1>16. \A i \in DOMAIN authRequests' :
          /\ authRequests'[i].known <= Len(authAnswers')
          /\ authRequests'[i].kind = "execution" => authRequests'[i].job.tool = "bash"
  <2>1. ASSUME NEW i \in DOMAIN authRequests
        PROVE  /\ authRequests[i].known <= Len(authAnswers) /\ authRequests[i].known \in Nat
               /\ authRequests[i].kind = "execution" => authRequests[i].job.tool = "bash"
    BY <1>1, AuthLog DEF AuthLogKnown, AuthRequestRecords
  <2> QED
    BY <1>0, <1>1, <1>4, <1>5, <2>1
<1>17. AuthAskedOnce'
  <2>1. ASSUME NEW i \in DOMAIN authRequests, NEW q, q = authRequests[i]
        PROVE  AskIsNew(q.turn, q.kind, q.subject, q.call, q.job, q.known)'
    <3>1. q.known \in Nat /\ q.known <= Len(authAnswers)
      BY <1>1, <2>1, AuthLog DEF AuthLogKnown, AuthRequestRecords
    <3>2. AskIsNew(q.turn, q.kind, q.subject, q.call, q.job, q.known)
      BY <1>1, <2>1 DEF AuthLogKnown, AuthAskedOnce, AskIsNew
    <3> QED
      BY <1>1, <1>7, <3>1, <3>2, AuthKnowledgeStays
  <2> QED
    BY <1>4, <2>1 DEF AuthAskedOnce, AskIsNew
<1>18. ASSUME NEW t \in AuthTurns, NEW turn, turn = authTurn[t] PROVE TurnKnows(t, turn)'
  <2>1. TurnKnows(t, turn) /\ turn.known \in Nat /\ turn.known <= Len(authAnswers)
    BY <1>18, AuthKnowsNow, ZenonT(60) DEF TurnKnows
  <2>2. turn.known <= Len(authAnswers') /\ KnowsSession(turn.seen, turn.known)'
    <3>1. KnowsSession(turn.seen, turn.known)
      BY <2>1 DEF TurnKnows
    <3>2. KnowsSession(turn.seen, turn.known)'
      BY <1>1, <1>7, <2>1, <3>1, AuthKnowledgeStays
    <3> QED
      BY <1>0, <1>1, <1>5, <2>1, <3>2
  <2>3. \A i \in authState'.pending :
            authRequests'[i].turn = t => turn.pc = "wait" /\ turn.wait = i
    BY <1>0, <1>4, <1>11, <2>1 DEF TurnKnows
  <2>4. First(m)' /\ r.turn = t => turn.pc = "wait" /\ turn.wait = authAnswers'[m].id
    BY <1>0, <1>5, <1>6, <1>10, <2>1 DEF TurnKnows
  <2>5. ASSUME NEW k \in DOMAIN authAnswers', NEW x \in AuthSubjects, First(k)', OnceFor(k, t, x)'
        PROVE  x \in turn.once \/ (turn.pc = "wait" /\ turn.wait = authAnswers'[k].id)
    <3>1. CASE k = m
      BY <1>6, <2>4, <2>5, <3>1 DEF OnceFor
    <3>2. CASE k # m
      <4>1. k \in DOMAIN authAnswers /\ First(k) /\ authAnswers'[k] = authAnswers[k]
        BY <1>5, <1>8, <2>5, <3>2
      <4> QED
        <5>1. OnceFor(k, t, x)
          BY <1>1, <1>7, <2>5, <4>1, AuthAnswersStay
        <5> QED
          BY <2>1, <4>1, <5>1 DEF TurnKnows
    <3> QED
      BY <3>1, <3>2
  <2>6. ASSUME ~authConfig'.repeat, turn.pc \notin {"idle", "ran"}, NEW k \in DOMAIN authAnswers',
               First(k)', ExactFor(k, t, CallIdAt(t, turn.calls), turn.job)'
        PROVE  \/ turn.pc = "wait" /\ turn.wait = authAnswers'[k].id
               \/ turn.pc = "execute" /\ turn.network = Asked(k)'.network
    <3>1. CASE k = m
      BY <1>6, <2>4, <2>6, <3>1 DEF ExactFor
    <3>2. CASE k # m
      <4>1. k \in DOMAIN authAnswers /\ First(k) /\ authAnswers'[k] = authAnswers[k] /\ Asked(k)' = Asked(k)
        BY <1>5, <1>8, <2>6, <3>2
      <4>2. ExactFor(k, t, CallIdAt(t, turn.calls), turn.job)
        BY <1>4, <2>6, <4>1 DEF ExactFor, CallIdAt
      <4> QED
        BY <1>4, <2>1, <2>6, <4>1, <4>2 DEF TurnKnows
    <3> QED
      BY <3>1, <3>2
  <2>7. turn.pc = "approve" =>
            AskIsNew(t, "execution", "", CallIdAt(t, turn.calls), turn.job, turn.known)'
    BY <1>1, <1>4, <1>7, <2>1, AuthKnowledgeStays DEF TurnKnows, CallIdAt
  <2>8. turn.pc = "ask" =>
            AskIsNew(t, turn.ask.kind, turn.ask.subject, CallIdAt(t, turn.calls), turn.job, turn.known)'
    BY <1>1, <1>4, <1>7, <2>1, AuthKnowledgeStays DEF TurnKnows, CallIdAt
  <2>9. /\ turn.pc = "approve" => turn.job.tool = "bash"
        /\ turn.pc = "ask" /\ turn.ask.kind = "execution" => turn.job.tool = "bash"
    BY <2>1 DEF TurnKnows
  <2> QED
    BY <2>2, <2>3, <2>5, <2>6, <2>7, <2>8, <2>9 DEF TurnKnows
<1>19. AuthLogKnown'
  BY <1>13, <1>14, <1>15, <1>16, <1>17 DEF AuthLogKnown
<1> QED
  BY <1>4, <1>18, <1>19 DEF AuthKnown

------------------------------------------------------------------------------
(* Nobody is asked twice.                                                         *)

LEMMA AuthInitKnown == AuthInit => AuthKnown
<1> SUFFICES ASSUME AuthInit PROVE AuthKnown
  OBVIOUS
<1>1. /\ authRequests = <<>> /\ authAnswers = <<>>
      /\ authState = [pending |-> {}, grants |-> NoGrants, approved |-> {}]
      /\ authTurn = [t \in AuthTurns |-> IdleTurn]
  BY DEF AuthInit
<1>2. /\ Len(authAnswers) = 0 /\ DOMAIN authAnswers = {} /\ DOMAIN authRequests = {}
      /\ authState.pending = {}
  BY <1>1
<1>3. \A grants : KnowsSession(grants, 0)
  BY DEF KnowsSession
<1>4. AuthLogKnown
  BY <1>2, <1>3 DEF AuthLogKnown, PendingUnanswered, KnowsApprovals, AuthAskedOnce
<1>5. ASSUME NEW t \in AuthTurns PROVE TurnKnows(t, authTurn[t])
  <2>1. authTurn[t] = IdleTurn
    BY <1>1
  <2>2. TurnKnows(t, IdleTurn)
    BY <1>2, <1>3 DEF TurnKnows, IdleTurn
  <2> QED
    BY <2>1, <2>2
<1> QED
  BY <1>4, <1>5 DEF AuthKnown

LEMMA AuthNextKnown == AuthInv /\ AuthKnown /\ [AuthNext]_authVars => AuthKnown'
<1> SUFFICES ASSUME AuthInv, AuthKnown, [AuthNext]_authVars PROVE AuthKnown'
  OBVIOUS
<1>1. ASSUME NEW t \in AuthTurns, AuthTurnStep(t) PROVE AuthKnown'
  BY <1>1, AuthCallToolKnows, AuthExecuteAgainKnows, AuthRunInScopeKnows, AuthRunCommandKnows,
     AuthAuthorizeExecutionKnows, AuthPathKnows, AuthNetworkKnows, AuthAppendRequestKnows,
     AuthCallReturnsKnows, AuthResumeKnows DEF AuthTurnStep
<1>2. ASSUME NEW u \in AuthUsers, AppendAnswer(u) PROVE AuthKnown'
  BY <1>2, AuthAppendAnswerKnows
<1>3. ASSUME NEW u \in AuthUsers, NEW id \in authState.pending, NEW d \in AuthDecisions,
             ReadRequest(u, id, d)
      PROVE  AuthKnown'
  BY <1>3, AuthReadRequestKnows
<1>4. CASE UNCHANGED authVars
  <2>1. AuthLogUnchanged /\ authTurn' = authTurn
    BY <1>4 DEF authVars, AuthLogUnchanged
  <2> QED
    BY <2>1, AuthUnchangedKnows
<1> QED
  BY <1>1, <1>2, <1>3, <1>4 DEF AuthNext

(* No request is about something that an answer, given before the call was made   *)
(* or resumed, approved for its turn: the projected grants and approvals, and     *)
(* what a resumed turn replays, hold all that the log's first answers gave.       *)
THEOREM AuthNobodyIsAskedTwice == AuthSpec => []AuthAskedOnce
<1>1. AuthKnown => AuthAskedOnce
  BY DEF AuthKnown, AuthLogKnown
<1> QED
  BY <1>1, AuthInitKnown, AuthNextKnown, AuthInvAlways, PTL DEF AuthSpec

------------------------------------------------------------------------------
(* Type correctness. What is not in the shape: a turn that waits, and a user that *)
(* answers, have a request of the log, and a turn's calls are bounded.            *)

AuthBounded ==
    /\ \A t \in AuthTurns : authTurn[t].wait <= Len(authRequests) /\ authTurn[t].calls <= AuthMaxCalls
    /\ \A u \in AuthUsers : authUser[u].id <= Len(authRequests)

(* What a step does to a turn: it waits for a request only where it says so, and  *)
(* counts a call only below the bound.                                            *)
AuthGoesTo(old, turn) ==
    /\ turn.pc = "wait" \/ turn.wait \in {0, old.wait}
    /\ turn.calls = old.calls \/ (old.calls < AuthMaxCalls /\ turn.calls = old.calls + 1)
AuthMoves(t) == AuthGoesTo(authTurn[t], authTurn'[t]) /\ \A s \in AuthTurns \ {t} : authTurn'[s] = authTurn[s]

LEMMA AuthStepMoves ==
    ASSUME NEW t \in AuthTurns, NEW turn, AuthShape, Step(t, turn), AuthGoesTo(authTurn[t], turn)
    PROVE  AuthMoves(t) /\ UNCHANGED <<authRequests, authUser>>
<1>1. authTurn' = [authTurn EXCEPT ![t] = turn] /\ authTurn \in [AuthTurns -> AuthTurnRecords]
  BY SMTT(60) DEF Step, AuthShape, AuthTurnShape
<1>2. authTurn'[t] = turn /\ \A s \in AuthTurns \ {t} : authTurn'[s] = authTurn[s]
  BY <1>1, SMTT(60)
<1> QED
  BY <1>2, SMTT(60) DEF Step, AuthMoves

LEMMA AuthRecordsMove ==
    ASSUME NEW old \in AuthTurnRecords, NEW calls, NEW once
    PROVE  /\ AuthGoesTo(old, [IdleTurn EXCEPT !.calls = old.calls, !.once = once])
           /\ \A pc : AuthGoesTo(old, [old EXCEPT !.pc = pc])
           /\ \A pc, ask : AuthGoesTo(old, [[old EXCEPT !.pc = pc] EXCEPT !.ask = ask])
           /\ \A checked : AuthGoesTo(old, [old EXCEPT !.checked = checked])
           /\ \A checked, allowed : AuthGoesTo(old, [old EXCEPT !.checked = checked, !.allowed = allowed])
<1>1. AuthGoesTo(old, [IdleTurn EXCEPT !.calls = old.calls, !.once = once])
  BY DEF AuthGoesTo, IdleTurn
<1>2. ASSUME NEW pc, NEW ask
      PROVE  AuthGoesTo(old, [old EXCEPT !.pc = pc]) /\ AuthGoesTo(old, [[old EXCEPT !.pc = pc] EXCEPT !.ask = ask])
  BY DEF AuthGoesTo, AuthTurnRecords
<1>3. ASSUME NEW checked, NEW allowed
      PROVE  /\ AuthGoesTo(old, [old EXCEPT !.checked = checked])
             /\ AuthGoesTo(old, [old EXCEPT !.checked = checked, !.allowed = allowed])
  BY SMTT(60) DEF AuthGoesTo, AuthTurnRecords
<1> QED
  BY <1>1, <1>2, <1>3

LEMMA AuthEndedMoves ==
    ASSUME AuthShape, NEW t \in AuthTurns
    PROVE  AuthGoesTo(authTurn[t], Ended(t))
  BY AuthRecordsMove DEF AuthShape, AuthTurnShape, Ended

LEMMA AuthAtMoves ==
    ASSUME AuthShape, NEW t \in AuthTurns, NEW pc
    PROVE  /\ AuthGoesTo(authTurn[t], At(t, pc))
           /\ \A ask : AuthGoesTo(authTurn[t], [At(t, pc) EXCEPT !.ask = ask])
           /\ \A network : AuthGoesTo(authTurn[t], [At(t, pc) EXCEPT !.ask.network = network])
<1> PICK old : old = authTurn[t]
  OBVIOUS
<1>1. old \in AuthTurnRecords
  BY DEF AuthShape, AuthTurnShape
<1> QED
  BY <1>1 DEF AuthGoesTo, AuthTurnRecords, At

LEMMA AuthAskMoves ==
    ASSUME AuthShape, NEW t \in AuthTurns, NEW kind, NEW subject, NEW network
    PROVE  AuthGoesTo(authTurn[t], AskUser(t, kind, subject, network))
<1> PICK old : old = authTurn[t]
  OBVIOUS
<1>1. old \in AuthTurnRecords
  BY DEF AuthShape, AuthTurnShape
<1>2. ASSUME NEW i PROVE AuthGoesTo(old, [At(t, "wait") EXCEPT !.wait = i])
  BY <1>1 DEF AuthGoesTo, AuthTurnRecords, At
<1>3. ASSUME NEW ask PROVE AuthGoesTo(old, [At(t, "ask") EXCEPT !.ask = ask])
  BY <1>1 DEF AuthGoesTo, AuthTurnRecords, At
<1> QED
  BY <1>2, <1>3 DEF AskUser

LEMMA AuthExecuteMoves ==
    ASSUME AuthShape, NEW t \in AuthTurns, NEW turn \in AuthTurnRecords,
           AuthGoesTo(authTurn[t], turn), turn.pc # "wait", Execute(t, turn)
    PROVE  AuthMoves(t) /\ UNCHANGED <<authRequests, authUser>>
<1>1. PICK pc, seen, known :
        Step(t, [turn EXCEPT !.pc = pc, !.seen = seen, !.known = known, !.checked = {}, !.allowed = {}])
  BY DEF Execute
<1>2. AuthGoesTo(authTurn[t], [turn EXCEPT !.pc = pc, !.seen = seen, !.known = known,
                                           !.checked = {}, !.allowed = {}])
  BY DEF AuthGoesTo, AuthTurnRecords
<1> QED
  BY <1>1, <1>2, AuthStepMoves

LEMMA AuthTurnStepMoves ==
    ASSUME AuthShape, NEW t \in AuthTurns, AuthTurnStep(t), ~AppendRequest(t)
    PROVE  AuthMoves(t) /\ UNCHANGED <<authRequests, authUser>>
<1>0. authTurn[t] \in AuthTurnRecords
  BY DEF AuthShape, AuthTurnShape
<1> PICK old : old = authTurn[t]
  OBVIOUS
<1>1. ASSUME NEW job \in AuthJobs, CallTool(t, job)
      PROVE  AuthMoves(t) /\ UNCHANGED <<authRequests, authUser>>
  <2> DEFINE turn == [old EXCEPT !.job = job, !.calls = @ + 1, !.network = FALSE]
  <2>0. old \in AuthTurnRecords /\ old.calls + 1 \in Nat
    BY <1>0 DEF AuthTurnRecords
  <2>1. turn \in AuthTurnRecords /\ turn.calls = old.calls + 1 /\ turn.wait = old.wait /\ turn.pc = old.pc
    <3>1. PICK n : n = old.calls + 1
      OBVIOUS
    <3>2. n \in Nat /\ turn = [old EXCEPT !.job = job, !.calls = n, !.network = FALSE]
      BY <2>0, <3>1
    <3> HIDE DEF turn
    <3> QED
      BY <2>0, <3>1, <3>2, ZenonT(60) DEF AuthTurnRecords
  <2>2. old.calls < AuthMaxCalls /\ old.pc = "idle" /\ Execute(t, turn)
    BY <1>1 DEF CallTool
  <2> HIDE DEF turn
  <2>3. AuthGoesTo(old, turn)
    BY <2>1, <2>2 DEF AuthGoesTo
  <2>4. turn.pc # "wait"
    BY <2>1, <2>2
  <2> QED
    BY <2>1, <2>2, <2>3, <2>4, AuthExecuteMoves
<1>2. CASE ExecuteAgain(t)
  <2>1. old.pc = "execute" /\ Execute(t, old) /\ AuthGoesTo(old, old)
    BY <1>2 DEF ExecuteAgain, AuthGoesTo
  <2>2. old.pc # "wait"
    BY <2>1
  <2> QED
    BY <1>0, <2>1, <2>2, AuthExecuteMoves
<1>3. CASE RunInScope(t)
  <2>1. Step(t, At(t, "ran")) \/ Step(t, Ended(t))
    BY <1>3 DEF RunInScope
  <2> QED
    BY <2>1, AuthStepMoves, AuthAtMoves, AuthEndedMoves, SMTT(60)
<1>4. CASE RunCommand(t)
  <2>1. \/ Step(t, Ended(t)) \/ Step(t, At(t, "ran"))
        \/ \E network : Step(t, [At(t, "approve") EXCEPT !.ask.network = network])
    BY <1>4, ZenonT(60) DEF RunCommand
  <2> QED
    BY <2>1, AuthStepMoves, AuthAtMoves, AuthEndedMoves
<1>5. CASE AuthorizeExecution(t)
  <2>1. Step(t, AskUser(t, "execution", "", old.ask.network))
    BY <1>5 DEF AuthorizeExecution
  <2> QED
    BY <2>1, AuthStepMoves, AuthAskMoves
<1>6. ASSUME NEW p, AuthorizePath(t, p)
      PROVE  AuthMoves(t) /\ UNCHANGED <<authRequests, authUser>>
  <2>1. \/ \E checked : Step(t, [old EXCEPT !.checked = checked])
        \/ \E checked, allowed : Step(t, [old EXCEPT !.checked = checked, !.allowed = allowed])
        \/ Step(t, Ended(t)) \/ Step(t, AskUser(t, "path", p, FALSE))
    BY <1>6, ZenonT(60) DEF AuthorizePath
  <2> QED
    BY <1>0, <2>1, AuthStepMoves, AuthRecordsMove, AuthEndedMoves, AuthAskMoves, ZenonT(60)
<1>7. ASSUME NEW n, AuthorizeNetwork(t, n)
      PROVE  AuthMoves(t) /\ UNCHANGED <<authRequests, authUser>>
  <2>1. \/ \E checked : Step(t, [old EXCEPT !.checked = checked])
        \/ Step(t, Ended(t)) \/ Step(t, AskUser(t, "network", n, FALSE))
    BY <1>7 DEF AuthorizeNetwork
  <2> QED
    BY <1>0, <2>1, AuthStepMoves, AuthRecordsMove, AuthEndedMoves, AuthAskMoves
<1>8. CASE CallReturns(t)
  BY <1>8, AuthStepMoves, AuthEndedMoves DEF CallReturns
<1>9. CASE Resume(t)
  <2>1. PICK network, once :
           \/ Step(t, [Ended(t) EXCEPT !.once = once])
           \/ Step(t, [[At(t, "execute") EXCEPT !.network = network, !.wait = 0] EXCEPT !.once = once])
    BY <1>9 DEF Resume
  <2>2. AuthGoesTo(old, [Ended(t) EXCEPT !.once = once])
    BY <1>0 DEF AuthGoesTo, AuthTurnRecords, Ended, IdleTurn
  <2>3. AuthGoesTo(old, [[At(t, "execute") EXCEPT !.network = network, !.wait = 0] EXCEPT !.once = once])
    BY <1>0 DEF AuthGoesTo, AuthTurnRecords, At
  <2> QED
    BY <2>1, <2>2, <2>3, AuthStepMoves, SMTT(60)
<1> QED
  BY <1>1, <1>2, <1>3, <1>4, <1>5, <1>6, <1>7, <1>8, <1>9 DEF AuthTurnStep

LEMMA AuthRequestMoves ==
    ASSUME AuthShape, NEW t \in AuthTurns, AppendRequest(t)
    PROVE  AuthMoves(t) /\ authUser' = authUser /\ Len(authRequests) <= Len(authRequests')
<1> PICK old, n : old = authTurn[t] /\ n = Len(authRequests')
  OBVIOUS
<1>1. old \in AuthTurnRecords /\ authTurn \in [AuthTurns -> AuthTurnRecords]
  BY DEF AuthShape, AuthTurnShape
<1>2. authTurn' = [authTurn EXCEPT ![t] = [At(t, "wait") EXCEPT !.wait = n]] /\ authUser' = authUser
  BY DEF AppendRequest
<1>3. AuthGoesTo(old, [At(t, "wait") EXCEPT !.wait = n])
  BY <1>1 DEF AuthGoesTo, AuthTurnRecords, At
<1>4. authTurn'[t] = [At(t, "wait") EXCEPT !.wait = n] /\ \A s \in AuthTurns \ {t} : authTurn'[s] = authTurn[s]
  BY <1>1, <1>2
<1>5. Len(authRequests) <= Len(authRequests')
  <2>1. authRequests \in Seq(AuthRequestRecords) /\ \E r : authRequests' = Append(authRequests, r)
    BY DEF AppendRequest, AuthShape, AuthLogShape
  <2>2. Len(authRequests) \in Nat /\ \A r : Len(Append(authRequests, r)) = Len(authRequests) + 1
    BY <2>1
  <2> QED
    BY <2>1, <2>2
<1> QED
  BY <1>2, <1>3, <1>4, <1>5 DEF AuthMoves

LEMMA AuthBoundedMoves ==
    ASSUME AuthInv, AuthInv', AuthBounded, NEW t \in AuthTurns, AuthMoves(t),
           authUser' = authUser, Len(authRequests) <= Len(authRequests')
    PROVE  AuthBounded'
<1> PICK m, n, old, turn : /\ m = Len(authRequests) /\ n = Len(authRequests')
                           /\ old = authTurn[t] /\ turn = authTurn'[t]
  OBVIOUS
<1>1. m \in Nat /\ n \in Nat /\ m <= n /\ old \in AuthTurnRecords
  <2>1. m \in Nat
    BY AuthLog DEF AuthInv
  <2>2. authRequests' \in Seq(AuthRequestRecords)
    BY DEF AuthInv, AuthShape, AuthLogShape
  <2> QED
    BY <2>1, <2>2 DEF AuthInv, AuthShape, AuthTurnShape
<1>2. turn.pc = "wait" => turn.wait <= n
  <2>1. turn.pc = "wait" => turn.wait \in DOMAIN authRequests'
    BY DEF AuthInv, AuthCovered, TurnCovered
  <2>2. DOMAIN authRequests' = 1 .. n
    BY DEF AuthInv, AuthShape, AuthLogShape
  <2> QED
    BY <1>1, <2>1, <2>2, SMTT(60)
<1>3. old.wait <= m /\ old.calls <= AuthMaxCalls /\ old.wait \in Nat /\ old.calls \in Nat
  BY <1>1 DEF AuthBounded, AuthTurnRecords
<1>4. turn.wait <= n /\ turn.calls <= AuthMaxCalls
  BY <1>1, <1>2, <1>3, AuthAssumption, SMTT(60) DEF AuthMoves, AuthGoesTo
<1>5. ASSUME NEW s \in AuthTurns PROVE authTurn'[s].wait <= n /\ authTurn'[s].calls <= AuthMaxCalls
  <2>1. CASE s = t
    BY <1>4, <2>1
  <2>2. CASE s # t
    <3>1. authTurn'[s] = authTurn[s]
      BY <2>2 DEF AuthMoves
    <3>2. authTurn[s].wait <= m /\ authTurn[s].calls <= AuthMaxCalls /\ authTurn[s].wait \in Nat
      BY DEF AuthBounded, AuthInv, AuthShape, AuthTurnShape, AuthTurnRecords
    <3> QED
      BY <1>1, <3>1, <3>2
  <2> QED
    BY <2>1, <2>2
<1>6. ASSUME NEW u \in AuthUsers PROVE authUser'[u].id <= n
  <2>1. authUser[u].id <= m /\ authUser[u].id \in Nat
    BY DEF AuthBounded, AuthInv, AuthShape, AuthUserShape
  <2> QED
    BY <1>1, <2>1
<1> QED
  BY <1>5, <1>6 DEF AuthBounded

LEMMA AuthBoundedUsers ==
    ASSUME AuthInv, AuthBounded, NEW u \in AuthUsers, UNCHANGED <<authTurn, authRequests>>,
           NEW user, authUser' = [authUser EXCEPT ![u] = user], user.id <= Len(authRequests)
    PROVE  AuthBounded'
<1>1. authUser' \in [AuthUsers -> {authUser'[v] : v \in AuthUsers}] /\ authUser'[u] = user
      /\ \A v \in AuthUsers \ {u} : authUser'[v] = authUser[v]
  BY DEF AuthInv, AuthShape, AuthUserShape
<1>2. ASSUME NEW v \in AuthUsers PROVE authUser'[v].id <= Len(authRequests)
  BY <1>1 DEF AuthBounded
<1>3. authTurn' = authTurn /\ authRequests' = authRequests
  OBVIOUS
<1> QED
  BY <1>2, <1>3 DEF AuthBounded

LEMMA AuthBoundedKept == AuthInv /\ AuthInv' /\ AuthBounded /\ [AuthNext]_authVars => AuthBounded'
<1> SUFFICES ASSUME AuthInv, AuthInv', AuthBounded, [AuthNext]_authVars PROVE AuthBounded'
  OBVIOUS
<1>0. AuthShape /\ Len(authRequests) \in Nat /\ DOMAIN authRequests = 1 .. Len(authRequests)
  BY AuthLog DEF AuthInv
<1>1. ASSUME NEW t \in AuthTurns, AuthTurnStep(t) PROVE AuthBounded'
  <2>1. CASE AppendRequest(t)
    BY <1>0, <2>1, AuthRequestMoves, AuthBoundedMoves
  <2>2. CASE ~AppendRequest(t)
    <3>1. AuthMoves(t) /\ authRequests' = authRequests /\ authUser' = authUser
      BY <1>0, <1>1, <2>2, AuthTurnStepMoves
    <3>2. Len(authRequests) <= Len(authRequests')
      BY <1>0, <3>1, SMTT(60)
    <3> QED
      BY <3>1, <3>2, AuthBoundedMoves
  <2> QED
    BY <2>1, <2>2
<1>2. ASSUME NEW u \in AuthUsers, AppendAnswer(u) PROVE AuthBounded'
  <2>1. authUser' = [authUser EXCEPT ![u] = IdleUser] /\ UNCHANGED <<authTurn, authRequests>>
    BY <1>2 DEF AppendAnswer
  <2>2. IdleUser.id <= Len(authRequests)
    BY <1>0 DEF IdleUser
  <2> QED
    BY <2>1, <2>2, AuthBoundedUsers
<1>3. ASSUME NEW u \in AuthUsers, NEW id \in authState.pending, NEW d \in AuthDecisions,
             ReadRequest(u, id, d)
      PROVE  AuthBounded'
  <2>1. PICK user : user = [pc |-> "append", id |-> id, decision |-> d]
    OBVIOUS
  <2>2. authUser' = [authUser EXCEPT ![u] = user] /\ UNCHANGED <<authTurn, authRequests>>
    BY <1>3, <2>1 DEF ReadRequest
  <2>3. id \in 1 .. Len(authRequests)
    BY <1>0 DEF AuthShape, AuthStateShape
  <2>4. user.id <= Len(authRequests)
    BY <1>0, <2>1, <2>3
  <2> QED
    BY <2>2, <2>4, AuthBoundedUsers
<1>4. CASE UNCHANGED authVars
  BY <1>4 DEF authVars, AuthBounded
<1> QED
  BY <1>1, <1>2, <1>3, <1>4 DEF AuthNext

LEMMA AuthBoundedStarts == AuthInit => AuthBounded
<1> SUFFICES ASSUME AuthInit PROVE AuthBounded
  OBVIOUS
<1>1. Len(authRequests) = 0
  BY DEF AuthInit
<1>2. \A t \in AuthTurns : authTurn[t].wait = 0 /\ authTurn[t].calls = 0
  BY DEF AuthInit, IdleTurn
<1>3. \A u \in AuthUsers : authUser[u].id = 0
  BY DEF AuthInit, IdleUser
<1> QED
  BY <1>1, <1>2, <1>3, AuthAssumption DEF AuthBounded

LEMMA AuthTypesHold == AuthInv /\ AuthKnown /\ AuthBounded => AuthTypeOK
<1> SUFFICES ASSUME AuthInv, AuthKnown, AuthBounded PROVE AuthTypeOK
  OBVIOUS
<1>1. AuthShape /\ Len(authRequests) \in Nat /\ DOMAIN authRequests = 1 .. Len(authRequests)
  BY AuthLog DEF AuthInv
<1>2. authState.pending \subseteq DOMAIN authRequests
  BY <1>1 DEF AuthShape, AuthStateShape
<1>3. ASSUME NEW k \in DOMAIN authAnswers
      PROVE  /\ authAnswers[k].id \in DOMAIN authRequests \ authState.pending
             /\ authAnswers[k].decision \in AuthDecisions
  <2>1. authAnswers[k].id \in DOMAIN authRequests /\ authAnswers[k].decision \in AuthDecisions
    BY <1>1, AuthLog
  <2>2. k \in Answers(authAnswers[k].id)
    BY DEF Answers
  <2> QED
    BY <2>1, <2>2 DEF AuthKnown, AuthLogKnown, PendingUnanswered
<1>4. ASSUME NEW t \in AuthTurns
      PROVE  /\ authTurn[t].pc \in AuthPcs /\ authTurn[t].wait \in 0 .. Len(authRequests)
             /\ authTurn[t].job \in AuthJobs \cup {NoJob} /\ authTurn[t].calls <= AuthMaxCalls
  <2>1. authTurn[t] \in AuthTurnRecords
    BY <1>1 DEF AuthShape, AuthTurnShape
  <2>2. authTurn[t].wait \in Nat /\ authTurn[t].pc \in AuthPcs /\ authTurn[t].job \in AuthJobs \cup {NoJob}
    BY <2>1 DEF AuthTurnRecords
  <2> QED
    BY <1>1, <2>2 DEF AuthBounded
<1>5. ASSUME NEW u \in AuthUsers PROVE authUser[u].id \in 0 .. Len(authRequests)
  <2>1. authUser[u].id \in Nat
    BY <1>1 DEF AuthShape, AuthUserShape
  <2> QED
    BY <1>1, <2>1 DEF AuthBounded
<1> QED
  BY <1>2, <1>3, <1>4, <1>5 DEF AuthTypeOK, AuthPcs

(* The log, the turns and the users are as Authorization says: a pending request  *)
(* has no answer, and who waits or answers has a request of the log.              *)
THEOREM AuthTypeCorrect == AuthSpec => []AuthTypeOK
<1>1. AuthInv /\ AuthKnown /\ AuthBounded => AuthTypeOK
  BY AuthTypesHold
<1>2. AuthInit => AuthKnown /\ AuthBounded
  BY AuthInitKnown, AuthBoundedStarts
<1>3. AuthInv /\ AuthInv' /\ (AuthKnown /\ AuthBounded) /\ [AuthNext]_authVars => (AuthKnown /\ AuthBounded)'
  BY AuthNextKnown, AuthBoundedKept
<1> QED
  BY <1>1, <1>2, <1>3, AuthInvAlways, PTL DEF AuthSpec

------------------------------------------------------------------------------
(* Least and largest elements.                                                    *)

LEMMA FmLeastExists ==
    ASSUME NEW S \in SUBSET Nat, S # {}
    PROVE  \E m \in S : \A n \in S : m <= n
<1>1. IsWellFoundedOn(OpToRel(<, Nat), Nat)
  BY NatLessThanWellFounded
<1>2. PICK m \in S : \A n \in S : <<n, m>> \notin OpToRel(<, Nat)
  BY <1>1, WFMin
<1>3. ASSUME NEW n \in S PROVE m <= n
  <2>1. ~ (n < m)
    BY <1>2 DEF OpToRel
  <2> QED
    BY <2>1
<1> QED
  BY <1>3

LEMMA FmLargestExists ==
    ASSUME NEW S \in SUBSET Nat, S # {}, IsFiniteSet(S)
    PROVE  \E m \in S : \A n \in S : n <= m
<1> DEFINE Above(p) == {q \in S : p < q}
<1> DEFINE Counts == {Cardinality(Above(p)) : p \in S}
<1>1. \A p \in S : Cardinality(Above(p)) \in Nat /\ IsFiniteSet(Above(p))
  BY FS_Subset, FS_CardinalityType
<1>2. PICK c \in Counts : \A d \in Counts : c <= d
  <2>1. Counts \in SUBSET Nat /\ Counts # {}
    BY <1>1
  <2> QED
    BY <2>1, FmLeastExists
<1>3. PICK m \in S : c = Cardinality(Above(m))
  BY <1>2
<1>4. ASSUME NEW n \in S, m < n PROVE FALSE
  <2>1. Above(n) \in SUBSET Above(m) /\ n \in Above(m) /\ n \notin Above(n)
    <3>1. m \in Nat /\ n \in Nat /\ S \subseteq Nat
      OBVIOUS
    <3>2. \A q \in Nat : n < q => m < q
      BY <3>1, <1>4
    <3>3. ~ (n < n)
      BY <3>1
    <3> QED
      BY <3>1, <3>2, <3>3, <1>4
  <2> HIDE DEF Above
  <2>2. Cardinality(Above(n)) <= Cardinality(Above(m)) /\ Cardinality(Above(n)) # Cardinality(Above(m))
    BY <2>1, <1>1, FS_Subset
  <2>3. Cardinality(Above(m)) <= Cardinality(Above(n))
    BY <1>2, <1>3
  <2> QED
    BY <1>1, <2>2, <2>3
<1> QED
  BY <1>4

------------------------------------------------------------------------------
(* The shape of the state.                                                        *)

FmCallRecords ==
    {call \in [pc : {"idle", "lock", "commit", "end"}, tool : {"none", "write", "patch"},
               paths : Seq(FmPaths), deleted : SUBSET FmPaths, existed : SUBSET FmPaths,
               todo : SUBSET FmPaths, before : FmContents, overtaken : BOOLEAN] :
        call.tool = "write" => call.paths # <<>>}
FmTurnRecords == [status : {"running", "ended"}, calls : Nat, call : FmCallRecords]

FmFileShape == fmFile \in [FmPaths -> FmContents]
FmSeenShape == fmSeen \in [FmPaths -> SUBSET AllLines]
FmLockShape == fmLock \in [FmPaths -> FmTurns \cup {0}]
FmTurnShape == fmTurn \in [FmTurns -> FmTurnRecords]
FmLogShape == fmLog \in [FmTurns -> Seq(FmMutations)]
FmRestoreShape ==
    fmRestore \in [turn : FmTurns \cup {0}, todo : Seq(FmMutations), undone : SUBSET FmPaths]
FmShape ==
    FmFileShape /\ FmSeenShape /\ FmLockShape /\ FmTurnShape /\ FmLogShape /\ FmRestoreShape

LEMMA FmNoFile == NoFile \in FmContents
  BY DEF NoFile, FmContents

LEMMA FmNoChange == NoChange \in FmCallRecords /\ NoChange.pc = "idle"
  BY FmNoFile, SMT DEF NoChange, FmCallRecords

LEMMA FmListed ==
    ASSUME NEW call, call.paths \in Seq(FmPaths)
    PROVE  ListedBy(call) \subseteq FmPaths
  BY DEF ListedBy

(* What somebody at work on a file is told of a change leaves its locks, its      *)
(* place and its paths alone.                                                     *)
LEMMA FmOvertaken ==
    ASSUME FmTurnShape, NEW p, NEW turns, NEW t \in FmTurns
    PROVE  /\ Overtaken(p, turns) \in [FmTurns -> FmTurnRecords]
           /\ Overtaken(p, turns)[t].call.pc = fmTurn[t].call.pc
           /\ Overtaken(p, turns)[t].call.paths = fmTurn[t].call.paths
<1>1. ASSUME NEW u \in FmTurns
      PROVE  /\ [fmTurn[u] EXCEPT !.call.overtaken = TRUE] \in FmTurnRecords
             /\ [fmTurn[u] EXCEPT !.call.overtaken = TRUE].call.pc = fmTurn[u].call.pc
             /\ [fmTurn[u] EXCEPT !.call.overtaken = TRUE].call.paths = fmTurn[u].call.paths
  BY ZenonT(60) DEF FmTurnShape, FmTurnRecords, FmCallRecords
<1> QED
  BY <1>1 DEF Overtaken, FmTurnShape

(* A step of one turn's call.                                                     *)
LEMMA FmGoes ==
    ASSUME FmTurnShape, NEW t \in FmTurns, NEW call \in FmCallRecords, FmGo(t, call)
    PROVE  /\ FmTurnShape'
           /\ CallOf(t)' = call
           /\ \A u \in FmTurns \ {t} : CallOf(u)' = CallOf(u)
  BY DEF FmGo, FmTurnShape, FmTurnRecords, CallOf

LEMMA FmContentOf ==
    ASSUME FmTurnShape, NEW t \in FmTurns
    PROVE  ContentOf(t) \in FmContents
<1>1. CallOf(t).paths \in Seq(FmPaths) /\ fmTurn[t].calls \in Nat
  BY DEF FmTurnShape, FmTurnRecords, FmCallRecords, CallOf
<1>2. PathsOf(t) \subseteq FmPaths
  BY <1>1, FmListed DEF PathsOf
<1> QED
  BY <1>1, <1>2 DEF ContentOf, FmContents

LEMMA FmChange ==
    ASSUME FmFileShape, FmSeenShape, NEW p, NEW content \in FmContents, Change(p, content)
    PROVE  FmFileShape' /\ FmSeenShape'
  BY DEF Change, FmFileShape, FmSeenShape, SeenAfterChange, AllLines

LEMMA FmShapeInit == FmInit => FmShape
<1> SUFFICES ASSUME FmInit PROVE FmShape
  OBVIOUS
<1> USE FmAssumption DEF FmInit
<1>1. FmFileShape
  <2>1. <<0, 0, {}>> \in FmContents
    BY DEF FmContents
  <2> QED
    BY <2>1, FmNoFile DEF FmFileShape
<1>2. FmSeenShape
  BY DEF FmSeenShape
<1>3. FmLockShape
  BY DEF FmLockShape
<1>4. FmTurnShape
  BY FmNoChange DEF FmTurnShape, FmTurnRecords
<1>5. FmLogShape
  BY DEF FmLogShape
<1>6. FmRestoreShape
  BY DEF FmRestoreShape, NoRestore
<1> QED
  BY <1>1, <1>2, <1>3, <1>4, <1>5, <1>6 DEF FmShape

LEMMA FmCallShape ==
    ASSUME FmShape, NEW t \in FmTurns, NEW call \in FmCallRecords, FmCall(t, call)
    PROVE  /\ FmShape'
           /\ CallOf(t)' = call
           /\ \A u \in FmTurns \ {t} : CallOf(u)' = CallOf(u)
<1>1. [status |-> "running", calls |-> fmTurn[t].calls + 1, call |-> call] \in FmTurnRecords
  BY DEF FmShape, FmTurnShape, FmTurnRecords
<1>2. /\ FmTurnShape'
      /\ CallOf(t)' = call
      /\ \A u \in FmTurns \ {t} : CallOf(u)' = CallOf(u)
  BY <1>1 DEF FmCall, FmShape, FmTurnShape, CallOf
<1> QED
  BY <1>2 DEF FmCall, FmShape, FmFileShape, FmSeenShape, FmLockShape, FmLogShape, FmRestoreShape

LEMMA FmStartWriteShape ==
    ASSUME FmShape, NEW t \in FmTurns, NEW p \in FmPaths, StartWrite(t, p)
    PROVE  /\ FmShape'
           /\ CallOf(t)'.pc = "lock"
           /\ \A u \in FmTurns \ {t} : CallOf(u)' = CallOf(u)
<1> DEFINE call == [NoChange EXCEPT !.pc = "lock", !.tool = "write", !.paths = <<p>>, !.todo = {p},
                                  !.before = fmFile[p]]
<1>1. call \in FmCallRecords /\ call.pc = "lock"
  <2>1. fmFile[p] \in FmContents
    BY DEF FmShape, FmFileShape
  <2>2. <<p>> \in Seq(FmPaths)
    OBVIOUS
  <2> QED
    BY <2>1, <2>2 DEF NoChange, FmCallRecords
<1>2. FmCall(t, call)
  BY SMTT(60) DEF StartWrite
<1> HIDE DEF call
<1> QED
  BY <1>1, <1>2, FmCallShape

LEMMA FmPlanPatchShape ==
    ASSUME FmShape, NEW t \in FmTurns, NEW patch \in FmPatches, PlanPatch(t, patch)
    PROVE  /\ FmShape'
           /\ CallOf(t)'.pc = "lock"
           /\ \A u \in FmTurns \ {t} : CallOf(u)' = CallOf(u)
<1> DEFINE call == [NoChange EXCEPT !.pc = "lock", !.tool = "patch", !.paths = patch.paths,
                                  !.deleted = patch.deleted,
                                  !.existed = {p \in patch.deleted : Exists(p)},
                                  !.todo = ListedBy(patch)]
<1>1. call \in FmCallRecords /\ call.pc = "lock"
  <2>1. patch.paths \in Seq(FmPaths)
    BY FmAssumption
  <2>2. ListedBy(patch) \subseteq FmPaths
    BY <2>1, FmListed
  <2>3. patch.deleted \subseteq ListedBy(patch)
    BY FmAssumption DEF ListedBy
  <2> QED
    BY <2>1, <2>2, <2>3, FmNoFile DEF NoChange, FmCallRecords
<1>2. FmCall(t, call)
  BY DEF PlanPatch
<1> HIDE DEF call
<1> QED
  BY <1>1, <1>2, FmCallShape

LEMMA FmReadFileShape ==
    ASSUME FmShape, NEW t \in FmTurns, NEW p \in FmPaths, NEW window \in FmWindows,
           ReadFile(t, p, window)
    PROVE  FmShape'
<1>1. window[1] .. window[2] \subseteq AllLines
  <2>1. window \in (1 .. FmLines) \X (1 .. FmLines) /\ FmLines \in Nat
    BY FmAssumption
  <2>2. window[1] \in 1 .. FmLines /\ window[2] \in 1 .. FmLines
    BY <2>1
  <2> QED
    BY <2>1, <2>2 DEF AllLines
<1>2. FmSeenShape'
  BY <1>1 DEF ReadFile, FmShape, FmSeenShape
<1> QED
  BY <1>2 DEF ReadFile, FmShape, FmFileShape, FmLockShape, FmTurnShape, FmLogShape, FmRestoreShape

LEMMA FmLockStepShape ==
    ASSUME FmShape, NEW t \in FmTurns, Lock(t)
    PROVE  FmShape'
  BY DEF Lock, FmShape, FmFileShape, FmSeenShape, FmLockShape, FmTurnShape, FmLogShape,
         FmRestoreShape

LEMMA FmCaptureShape ==
    ASSUME FmShape, NEW t \in FmTurns, CaptureBefore(t)
    PROVE  /\ FmShape'
           /\ CallOf(t)'.pc = "commit"
           /\ \A u \in FmTurns \ {t} : CallOf(u)' = CallOf(u)
<1> DEFINE call == [CallOf(t) EXCEPT !.pc = "commit", !.before = CapturedBefore(t)]
<1>1. CallOf(t) \in FmCallRecords
  BY DEF FmShape, FmTurnShape, FmTurnRecords, CallOf
<1>2. CapturedBefore(t) \in FmContents
  <2>1. CASE CallOf(t).tool = "write"
    <3>1. CallOf(t).paths[1] \in FmPaths
      BY <1>1, <2>1 DEF FmCallRecords
    <3> QED
      BY <2>1, <3>1 DEF CapturedBefore, FmShape, FmFileShape
  <2>2. CASE CallOf(t).tool # "write"
    BY <2>2, FmNoFile DEF CapturedBefore
  <2> QED
    BY <2>1, <2>2
<1>3. call \in FmCallRecords /\ call.pc = "commit"
  BY <1>1, <1>2 DEF FmCallRecords
<1>4. FmGo(t, call)
  BY DEF CaptureBefore
<1> HIDE DEF call
<1>5. /\ FmTurnShape'
      /\ CallOf(t)' = call
      /\ \A u \in FmTurns \ {t} : CallOf(u)' = CallOf(u)
  BY <1>3, <1>4, FmGoes DEF FmShape
<1> QED
  BY <1>3, <1>5 DEF CaptureBefore, FmShape, FmFileShape, FmSeenShape, FmLockShape, FmLogShape,
                    FmRestoreShape

LEMMA FmUnlocked ==
    ASSUME FmLockShape, NEW t \in FmTurns
    PROVE  /\ Unlocked(t) \in [FmPaths -> FmTurns \cup {0}]
           /\ \A p \in FmPaths : Unlocked(t)[p] # t
           /\ \A u \in FmTurns \ {t}, p \in FmPaths : Unlocked(t)[p] = u <=> fmLock[p] = u
  BY FmAssumption DEF Unlocked, FmLockShape

(* A commit either goes on with its locks or ends without any.                    *)
LEMMA FmCommitShape ==
    ASSUME FmShape, NEW t \in FmTurns, CommitFile(t)
    PROVE  /\ FmShape'
           /\ \/ CallOf(t)'.pc = "commit" /\ fmLock' = fmLock
              \/ CallOf(t)'.pc = "end" /\ fmLock' = Unlocked(t)
           /\ \A u \in FmTurns \ {t} : /\ CallOf(u)'.pc = CallOf(u).pc
                                       /\ CallOf(u)'.paths = CallOf(u).paths
<1> DEFINE call == CallOf(t)
<1> DEFINE p == CHOOSE p \in call.todo : \A q \in call.todo : p <= q
<1> DEFINE next == IF call.todo # {p} THEN [call EXCEPT !.todo = @ \ {p}]
                   ELSE IF call.tool = "patch" THEN [NoChange EXCEPT !.pc = "end"]
                   ELSE [call EXCEPT !.todo = {}, !.overtaken = FALSE, !.pc = "end"]
<1> DEFINE content == IF p \in call.deleted THEN NoFile ELSE ContentOf(t)
<1> DEFINE others == FmTurns \ {t}
<1>1. /\ call.pc = "commit"
      /\ Change(p, content)
      /\ fmTurn' = [Overtaken(p, others) EXCEPT ![t].call = next]
      /\ fmLock' = LocksAfter(t, p)
      /\ fmRestore' = [fmRestore EXCEPT !.undone = @ \ {p}]
      /\ fmLog' = fmLog
  BY DEF CommitFile
<1>2. call \in FmCallRecords
  BY DEF FmShape, FmTurnShape, FmTurnRecords, CallOf
<1>3. next \in FmCallRecords
  <2>1. [call EXCEPT !.todo = @ \ {p}] \in FmCallRecords
    BY <1>2 DEF FmCallRecords
  <2>2. [NoChange EXCEPT !.pc = "end"] \in FmCallRecords
    BY FmNoChange DEF FmCallRecords
  <2>3. [call EXCEPT !.todo = {}, !.overtaken = FALSE, !.pc = "end"] \in FmCallRecords
    BY <1>2 DEF FmCallRecords
  <2> QED
    BY <2>1, <2>2, <2>3
<1>4. next.pc = IF call.todo # {p} THEN "commit" ELSE "end"
  <2>1. [call EXCEPT !.todo = @ \ {p}].pc = "commit"
    BY <1>1, <1>2 DEF FmCallRecords
  <2>2. [NoChange EXCEPT !.pc = "end"].pc = "end"
    BY DEF NoChange
  <2>3. [call EXCEPT !.todo = {}, !.overtaken = FALSE, !.pc = "end"].pc = "end"
    BY <1>2 DEF FmCallRecords
  <2> QED
    BY <2>1, <2>2, <2>3
<1>5. content \in FmContents
  BY FmNoFile, FmContentOf DEF FmShape
<1>6. FmFileShape' /\ FmSeenShape'
  <2> HIDE DEF content, p
  <2> QED
    BY <1>1, <1>5, FmChange DEF FmShape
<1> HIDE DEF next, others, content
<1>7. /\ FmTurnShape'
      /\ CallOf(t)' = next
      /\ \A u \in FmTurns \ {t} : /\ CallOf(u)'.pc = CallOf(u).pc
                                  /\ CallOf(u)'.paths = CallOf(u).paths
  <2> HIDE DEF p, call
  <2>1. /\ Overtaken(p, others) \in [FmTurns -> FmTurnRecords]
        /\ \A u \in FmTurns : /\ Overtaken(p, others)[u].call.pc = fmTurn[u].call.pc
                              /\ Overtaken(p, others)[u].call.paths = fmTurn[u].call.paths
    BY FmOvertaken, ZenonT(60) DEF FmShape
  <2> QED
    BY <1>1, <1>3, <2>1 DEF FmTurnShape, FmTurnRecords, CallOf
<1>8. IF call.todo = {p} THEN fmLock' = Unlocked(t) ELSE fmLock' = fmLock
  BY <1>1 DEF LocksAfter
<1>9. FmLockShape'
  <2> HIDE DEF p, call
  <2> QED
    BY <1>8, FmUnlocked DEF FmShape, FmLockShape
<1>10. FmLogShape' /\ FmRestoreShape'
  <2> HIDE DEF p, call
  <2> QED
    BY <1>1 DEF FmShape, FmLogShape, FmRestoreShape
<1> HIDE DEF p, call
<1> QED
  BY <1>4, <1>6, <1>7, <1>8, <1>9, <1>10 DEF FmShape

(* A call that ends without another step at its files.                            *)
LEMMA FmCommitFailsShape ==
    ASSUME FmShape, NEW t \in FmTurns, CommitFails(t)
    PROVE  /\ FmShape'
           /\ CallOf(t)'.pc = "idle" /\ fmLock' = Unlocked(t)
           /\ \A u \in FmTurns \ {t} : CallOf(u)' = CallOf(u)
<1>1. /\ FmTurnShape'
      /\ CallOf(t)' = NoChange
      /\ \A u \in FmTurns \ {t} : CallOf(u)' = CallOf(u)
  BY FmNoChange, FmGoes DEF CommitFails, FmShape
<1>2. FmLockShape'
  BY FmUnlocked DEF CommitFails, FmShape, FmLockShape
<1> QED
  BY <1>1, <1>2, FmNoChange DEF CommitFails, FmShape, FmFileShape, FmSeenShape, FmLogShape, FmRestoreShape

LEMMA FmEndShape ==
    ASSUME FmShape, NEW t \in FmTurns, EndCall(t)
    PROVE  /\ FmShape'
           /\ CallOf(t)'.pc = "idle"
           /\ \A u \in FmTurns \ {t} : CallOf(u)' = CallOf(u)
<1> DEFINE p == CallOf(t).paths[1]
<1>1. CallOf(t) \in FmCallRecords
  BY DEF FmShape, FmTurnShape, FmTurnRecords, CallOf
<1>2. /\ FmTurnShape'
      /\ CallOf(t)' = NoChange
      /\ \A u \in FmTurns \ {t} : CallOf(u)' = CallOf(u)
  BY FmNoChange, FmGoes DEF EndCall, FmShape
<1>3. FmLogShape' /\ FmSeenShape'
  <2>1. CASE CallOf(t).tool # "write"
    BY <2>1 DEF EndCall, FmShape, FmLogShape, FmSeenShape
  <2>2. CASE CallOf(t).tool = "write"
    <3>1. p \in FmPaths
      BY <1>1, <2>2 DEF FmCallRecords
    <3>2. [path |-> p, before |-> CallOf(t).before, after |-> ContentOf(t)] \in FmMutations
      BY <1>1, <3>1, FmContentOf DEF FmShape, FmCallRecords, FmMutations
    <3>3. fmLog' = [fmLog EXCEPT ![t] = Append(@, [path |-> p, before |-> CallOf(t).before,
                                                   after |-> ContentOf(t)])]
      BY <2>2 DEF EndCall
    <3>4. fmSeen' = [fmSeen EXCEPT ![p] = IF Exists(p) THEN AllLines ELSE @]
      BY <2>2 DEF EndCall
    <3> HIDE DEF p
    <3>5. FmLogShape'
      BY <3>2, <3>3 DEF FmShape, FmLogShape
    <3>6. FmSeenShape'
      BY <3>1, <3>4 DEF FmShape, FmSeenShape
    <3> QED
      BY <3>5, <3>6
  <2> QED
    BY <2>1, <2>2
<1> QED
  BY <1>2, <1>3, FmNoChange DEF EndCall, FmShape, FmFileShape, FmLockShape, FmRestoreShape

LEMMA FmTurnEndsShape ==
    ASSUME FmShape, NEW t \in FmTurns, EndFails(t) \/ FinishTurn(t)
    PROVE  /\ FmShape'
           /\ CallOf(t)'.pc = "idle"
           /\ \A u \in FmTurns \ {t} : CallOf(u)' = CallOf(u)
<1>1. CASE EndFails(t)
  <2>1. /\ FmTurnShape'
        /\ CallOf(t)' = NoChange
        /\ \A u \in FmTurns \ {t} : CallOf(u)' = CallOf(u)
    BY <1>1, FmNoChange DEF EndFails, FmShape, FmTurnShape, FmTurnRecords, CallOf
  <2> QED
    BY <1>1, <2>1, FmNoChange
       DEF EndFails, FmShape, FmFileShape, FmSeenShape, FmLockShape, FmLogShape, FmRestoreShape
<1>2. CASE FinishTurn(t)
  <2>1. /\ FmTurnShape'
        /\ \A u \in FmTurns : CallOf(u)' = CallOf(u)
    BY <1>2 DEF FinishTurn, FmShape, FmTurnShape, FmTurnRecords, CallOf
  <2> QED
    BY <1>2, <2>1
       DEF FinishTurn, FmIdle, FmShape, FmFileShape, FmSeenShape, FmLockShape, FmLogShape,
           FmRestoreShape
<1> QED
  BY <1>1, <1>2

(* What happens without a call: no lock is asked for, and no call moves.          *)
LEMMA FmUnlockedShape ==
    ASSUME FmShape, NEW p \in FmPaths, NEW content \in FmContents, ChangeUnlocked(p, content)
    PROVE  /\ FmFileShape' /\ FmSeenShape' /\ FmTurnShape'
           /\ \A u \in FmTurns : /\ CallOf(u)'.pc = CallOf(u).pc
                                 /\ CallOf(u)'.paths = CallOf(u).paths
<1>1. FmFileShape' /\ FmSeenShape'
  BY FmChange DEF ChangeUnlocked, FmShape
<1>2. fmTurn' = Overtaken(p, FmTurns)
  BY DEF ChangeUnlocked
<1>3. /\ Overtaken(p, FmTurns) \in [FmTurns -> FmTurnRecords]
      /\ \A u \in FmTurns : /\ Overtaken(p, FmTurns)[u].call.pc = fmTurn[u].call.pc
                            /\ Overtaken(p, FmTurns)[u].call.paths = fmTurn[u].call.paths
  <2>1. Overtaken(p, FmTurns) \in [FmTurns -> FmTurnRecords]
    BY FmOvertaken, FmAssumption DEF FmShape, Overtaken, FmTurnShape
  <2> QED
    BY <2>1, FmOvertaken DEF FmShape
<1> QED
  BY <1>1, <1>2, <1>3 DEF FmTurnShape, CallOf

LEMMA FmRestoreStepsShape ==
    ASSUME FmLogShape, NEW t \in FmTurns
    PROVE  RestoreSteps(t) \in Seq(FmMutations)
<1> DEFINE log == fmLog[t]
<1>1. log \in Seq(FmMutations)
  BY DEF FmLogShape
<1>2. RestoreSteps(t) = [i \in 1 .. Len(log) |-> log[(Len(log) - i) + 1]]
  BY DEF RestoreSteps, Reverse
<1> HIDE DEF log
<1>3. \A i \in 1 .. Len(log) : log[(Len(log) - i) + 1] \in FmMutations
  <2>1. \A i \in 1 .. Len(log) : (Len(log) - i) + 1 \in 1 .. Len(log)
    BY <1>1
  <2> QED
    BY <1>1, <2>1
<1> QED
  BY <1>1, <1>2, <1>3

LEMMA FmRestoreShapeKept ==
    ASSUME FmShape, (\E t \in FmTurns : StartRestore(t)) \/ ApplyRestoreStep \/ EndRestore
                    \/ \E p \in FmOutside, content \in FmContents : External(p, content)
    PROVE  /\ FmShape' /\ fmLock' = fmLock
           /\ \A u \in FmTurns : /\ CallOf(u)'.pc = CallOf(u).pc
                                 /\ CallOf(u)'.paths = CallOf(u).paths
<1>1. ASSUME NEW t \in FmTurns, StartRestore(t) PROVE FmRestoreShape'
  BY <1>1, FmRestoreStepsShape DEF StartRestore, FmShape, FmRestoreShape
<1>2. CASE \E t \in FmTurns : StartRestore(t)
  BY <1>1, <1>2 DEF StartRestore, FmShape, FmFileShape, FmSeenShape, FmLockShape, FmTurnShape,
                    FmLogShape, CallOf
<1>3. CASE ApplyRestoreStep
  <2> DEFINE step == Head(fmRestore.todo)
  <2>1. fmRestore.todo \in Seq(FmMutations) /\ fmRestore.todo # <<>>
    BY <1>3 DEF ApplyRestoreStep, FmShape, FmRestoreShape
  <2>2. step \in FmMutations
    BY <2>1
  <2>3. step.path \in FmPaths /\ step.before \in FmContents
    BY <2>2 DEF FmMutations
  <2>4. ChangeUnlocked(step.path, step.before)
    BY <1>3 DEF ApplyRestoreStep
  <2>5. FmRestoreShape'
    <3>1. Tail(fmRestore.todo) \in Seq(FmMutations)
      BY <2>1
    <3>2. fmRestore' = [fmRestore EXCEPT !.todo = Tail(@), !.undone = @ \cup {step.path}]
      BY <1>3 DEF ApplyRestoreStep
    <3> HIDE DEF step
    <3> QED
      BY <2>3, <3>1, <3>2 DEF FmShape, FmRestoreShape
  <2> HIDE DEF step
  <2>6. /\ FmFileShape' /\ FmSeenShape' /\ FmTurnShape'
        /\ \A u \in FmTurns : /\ CallOf(u)'.pc = CallOf(u).pc
                              /\ CallOf(u)'.paths = CallOf(u).paths
    BY <2>3, <2>4, FmUnlockedShape
  <2> QED
    BY <1>3, <2>5, <2>6 DEF ApplyRestoreStep, FmShape, FmLockShape, FmLogShape
<1>4. CASE EndRestore
  <2>1. FmRestoreShape'
    BY <1>4 DEF EndRestore, FmRestoreShape, NoRestore
  <2> QED
    BY <1>4, <2>1 DEF EndRestore, FmShape, FmFileShape, FmSeenShape, FmLockShape, FmTurnShape,
                      FmLogShape, CallOf
<1>5. ASSUME NEW p \in FmOutside, NEW content \in FmContents, External(p, content)
      PROVE  /\ FmShape' /\ fmLock' = fmLock
             /\ \A u \in FmTurns : /\ CallOf(u)'.pc = CallOf(u).pc
                                   /\ CallOf(u)'.paths = CallOf(u).paths
  <2>1. p \in FmPaths
    BY FmAssumption
  <2>2. /\ FmFileShape' /\ FmSeenShape' /\ FmTurnShape'
        /\ \A u \in FmTurns : /\ CallOf(u)'.pc = CallOf(u).pc
                              /\ CallOf(u)'.paths = CallOf(u).paths
    BY <1>5, <2>1, FmUnlockedShape DEF External
  <2>3. FmRestoreShape'
    BY <1>5 DEF External, FmShape, FmRestoreShape
  <2> QED
    BY <1>5, <2>2, <2>3 DEF External, FmShape, FmLockShape, FmLogShape
<1> QED
  BY <1>2, <1>3, <1>4, <1>5

------------------------------------------------------------------------------
(* The order of the locks. A call that takes locks has the first of its paths, in *)
(* the order of the names; one that has none in progress has no lock.             *)

FmLocksOf(t) ==
    /\ CallOf(t).pc \in {"idle", "end"} => Held(t) = {}
    /\ CallOf(t).pc = "lock" =>
           /\ Held(t) \subseteq PathsOf(t)
           /\ \A p \in Held(t), q \in PathsOf(t) \ Held(t) : p < q
FmLocking == \A t \in FmTurns : FmLocksOf(t)
FmBoundShape == fmBound \in [calls : Nat, external : Nat, restores : Nat]
FmInv == FmShape /\ FmLocking

LEMMA FmLocksKept ==
    ASSUME NEW t \in FmTurns, FmLocksOf(t), CallOf(t)'.pc = CallOf(t).pc,
           CallOf(t)'.paths = CallOf(t).paths, Held(t)' = Held(t)
    PROVE  FmLocksOf(t)'
  BY DEF FmLocksOf, PathsOf, ListedBy

LEMMA FmNoLocks ==
    ASSUME NEW t \in FmTurns, Held(t)' = {}
    PROVE  FmLocksOf(t)'
  BY DEF FmLocksOf

LEMMA FmSameLocks == fmLock' = fmLock => \A t \in FmTurns : Held(t)' = Held(t)
  BY DEF Held

LEMMA FmPathsInPaths ==
    ASSUME FmTurnShape, NEW t \in FmTurns
    PROVE  PathsOf(t) \subseteq FmPaths
  BY FmListed DEF FmTurnShape, FmTurnRecords, FmCallRecords, CallOf, PathsOf

(* The next lock is the least of those that a waiting call has not got.           *)
LEMMA FmNextIsLeast ==
    ASSUME FmTurnShape, NEW t \in FmTurns, Waits(t)
    PROVE  /\ NextToLock(t) \in PathsOf(t) \ Held(t)
           /\ \A q \in PathsOf(t) \ Held(t) : NextToLock(t) <= q
<1> DEFINE missing == PathsOf(t) \ Held(t)
<1>1. missing \in SUBSET Nat /\ missing # {}
  BY FmPathsInPaths, FmAssumption DEF Waits
<1>2. NextToLock(t) = CHOOSE p \in missing : \A q \in missing : p <= q
  BY DEF NextToLock
<1> HIDE DEF missing
<1>3. \E p \in missing : \A q \in missing : p <= q
  BY <1>1, FmLeastExists
<1>4. NextToLock(t) \in missing /\ \A q \in missing : NextToLock(t) <= q
  BY <1>2, <1>3
<1> QED
  BY <1>4 DEF missing

LEMMA FmInvInit == FmInit => FmInv
<1> SUFFICES ASSUME FmInit PROVE FmInv
  OBVIOUS
<1>1. FmShape
  BY FmShapeInit
<1>2. ASSUME NEW t \in FmTurns PROVE FmLocksOf(t)
  <2>1. Held(t) = {}
    BY FmAssumption DEF FmInit, Held
  <2> QED
    BY <2>1 DEF FmLocksOf
<1> QED
  BY <1>1, <1>2 DEF FmInv, FmLocking

LEMMA FmLockKeepsOrder ==
    ASSUME FmInv, NEW t \in FmTurns, Lock(t)
    PROVE  FmLocking'
<1> DEFINE m == NextToLock(t)
<1>1. FmShape /\ FmLocking /\ FmTurnShape /\ FmLockShape
  BY DEF FmInv, FmShape
<1>2. /\ m \in PathsOf(t) \ Held(t)
      /\ \A q \in PathsOf(t) \ Held(t) : m <= q
  BY <1>1, FmNextIsLeast DEF Lock
<1>3. fmLock' = [fmLock EXCEPT ![m] = t] /\ fmLock[m] = 0 /\ fmTurn' = fmTurn
  BY DEF Lock
<1>4. m \in FmPaths /\ PathsOf(t) \subseteq Nat
  BY <1>1, <1>2, FmPathsInPaths, FmAssumption
<1> HIDE DEF m
<1>5. \A u \in FmTurns : CallOf(u)' = CallOf(u) /\ PathsOf(u)' = PathsOf(u)
  BY <1>3 DEF CallOf, PathsOf
<1>6. Held(t)' = Held(t) \cup {m}
  BY <1>1, <1>3, <1>4 DEF Held, FmLockShape
<1>7. \A u \in FmTurns \ {t} : Held(u)' = Held(u)
  BY <1>1, <1>3, <1>4, FmAssumption DEF Held, FmLockShape
<1>8. FmLocksOf(t)'
  <2>1. CallOf(t).pc = "lock"
    BY DEF Lock, Waits
  <2>2. FmLocksOf(t)
    BY <1>1 DEF FmLocking
  <2>3. \A q \in PathsOf(t) \ Held(t)' : m < q
    BY <1>2, <1>4, <1>6
  <2> QED
    BY <1>2, <1>5, <1>6, <2>1, <2>2, <2>3 DEF FmLocksOf
<1>9. ASSUME NEW u \in FmTurns \ {t} PROVE FmLocksOf(u)'
  BY <1>1, <1>5, <1>7, FmLocksKept DEF FmLocking
<1> QED
  BY <1>8, <1>9 DEF FmLocking

(* A step of one turn's call that asks for no lock and leaves the locks or gives  *)
(* all of its own back.                                                           *)
LEMMA FmTurnKeepsOrder ==
    ASSUME FmInv, NEW t \in FmTurns,
           \A u \in FmTurns \ {t} : /\ CallOf(u)'.pc = CallOf(u).pc
                                    /\ CallOf(u)'.paths = CallOf(u).paths,
           \/ fmLock' = fmLock /\ (Held(t) = {} \/ CallOf(t)'.pc = "commit")
           \/ fmLock' = Unlocked(t)
    PROVE  FmLocking'
<1>1. FmLocking /\ FmLockShape
  BY DEF FmInv, FmShape
<1>2. CASE fmLock' = fmLock /\ (Held(t) = {} \/ CallOf(t)'.pc = "commit")
  <2>1. \A u \in FmTurns : Held(u)' = Held(u)
    BY <1>2, FmSameLocks
  <2>2. FmLocksOf(t)'
    BY <1>2, <2>1 DEF FmLocksOf
  <2>3. ASSUME NEW u \in FmTurns \ {t} PROVE FmLocksOf(u)'
    BY <1>1, <2>1, FmLocksKept DEF FmLocking
  <2> QED
    BY <2>2, <2>3 DEF FmLocking
<1>3. CASE fmLock' = Unlocked(t)
  <2>1. Held(t)' = {}
    BY <1>1, <1>3, FmUnlocked DEF Held
  <2>2. \A u \in FmTurns \ {t} : Held(u)' = Held(u)
    BY <1>1, <1>3, FmUnlocked DEF Held
  <2>3. ASSUME NEW u \in FmTurns \ {t} PROVE FmLocksOf(u)'
    BY <1>1, <2>2, FmLocksKept DEF FmLocking
  <2> QED
    BY <2>1, <2>3, FmNoLocks DEF FmLocking
<1> QED
  BY <1>2, <1>3

LEMMA FmTurnStepInv ==
    ASSUME FmInv, NEW t \in FmTurns, FmTurnStep(t)
    PROVE  FmInv'
<1>1. FmShape /\ FmLocksOf(t)
  BY DEF FmInv, FmLocking
<1>2. CASE \E p \in FmPaths : StartWrite(t, p)
  <2>1. Held(t) = {} /\ fmLock' = fmLock
    BY <1>1, <1>2 DEF StartWrite, FmCall, FmIdle, FmLocksOf
  <2>2. FmShape' /\ \A u \in FmTurns \ {t} : CallOf(u)' = CallOf(u)
    BY <1>1, <1>2, FmStartWriteShape
  <2> QED
    BY <2>1, <2>2, FmTurnKeepsOrder DEF FmInv
<1>3. CASE \E p \in FmPaths, window \in FmWindows : ReadFile(t, p, window)
  <2>1. FmShape'
    BY <1>1, <1>3, FmReadFileShape
  <2>2. fmLock' = fmLock /\ fmTurn' = fmTurn
    BY <1>3 DEF ReadFile
  <2>3. \A u \in FmTurns : CallOf(u)' = CallOf(u) /\ Held(u)' = Held(u)
    BY <2>2 DEF CallOf, Held
  <2>4. FmLocking'
    BY <2>3, FmLocksKept DEF FmInv, FmLocking
  <2> QED
    BY <2>1, <2>4 DEF FmInv
<1>4. CASE \E patch \in FmPatches : PlanPatch(t, patch)
  <2>1. Held(t) = {} /\ fmLock' = fmLock
    BY <1>1, <1>4 DEF PlanPatch, FmCall, FmIdle, FmLocksOf
  <2>2. FmShape' /\ \A u \in FmTurns \ {t} : CallOf(u)' = CallOf(u)
    BY <1>1, <1>4, FmPlanPatchShape
  <2> QED
    BY <2>1, <2>2, FmTurnKeepsOrder DEF FmInv
<1>5. CASE Lock(t)
  BY <1>1, <1>5, FmLockStepShape, FmLockKeepsOrder DEF FmInv
<1>6. CASE CaptureBefore(t)
  <2>1. fmLock' = fmLock
    BY <1>6 DEF CaptureBefore
  <2>2. FmShape' /\ CallOf(t)'.pc = "commit" /\ \A u \in FmTurns \ {t} : CallOf(u)' = CallOf(u)
    BY <1>1, <1>6, FmCaptureShape
  <2> QED
    BY <2>1, <2>2, FmTurnKeepsOrder DEF FmInv
<1>7. CASE CommitFile(t)
  <2>1. /\ FmShape'
        /\ \/ CallOf(t)'.pc = "commit" /\ fmLock' = fmLock
           \/ fmLock' = Unlocked(t)
        /\ \A u \in FmTurns \ {t} : /\ CallOf(u)'.pc = CallOf(u).pc
                                    /\ CallOf(u)'.paths = CallOf(u).paths
    BY <1>1, <1>7, FmCommitShape
  <2> QED
    BY <2>1, FmTurnKeepsOrder DEF FmInv
<1>8. CASE CommitFails(t)
  <2>1. FmShape' /\ fmLock' = Unlocked(t) /\ \A u \in FmTurns \ {t} : CallOf(u)' = CallOf(u)
    BY <1>1, <1>8, FmCommitFailsShape
  <2> QED
    BY <2>1, FmTurnKeepsOrder DEF FmInv
<1>9. CASE EndCall(t)
  <2>1. Held(t) = {} /\ fmLock' = fmLock
    BY <1>1, <1>9 DEF EndCall, FmLocksOf
  <2>2. FmShape' /\ \A u \in FmTurns \ {t} : CallOf(u)' = CallOf(u)
    BY <1>1, <1>9, FmEndShape
  <2> QED
    BY <2>1, <2>2, FmTurnKeepsOrder DEF FmInv
<1>10. CASE EndFails(t) \/ FinishTurn(t)
  <2>1. Held(t) = {} /\ fmLock' = fmLock
    BY <1>1, <1>10 DEF EndFails, FinishTurn, FmIdle, FmLocksOf
  <2>2. FmShape' /\ \A u \in FmTurns \ {t} : CallOf(u)' = CallOf(u)
    BY <1>1, <1>10, FmTurnEndsShape
  <2> QED
    BY <2>1, <2>2, FmTurnKeepsOrder DEF FmInv
<1> QED
  BY <1>2, <1>3, <1>4, <1>5, <1>6, <1>7, <1>8, <1>9, <1>10 DEF FmTurnStep

LEMMA FmBoundStep == FmBoundShape /\ [FmNext]_fmVars => FmBoundShape'
<1> SUFFICES ASSUME FmBoundShape, [FmNext]_fmVars PROVE FmBoundShape'
  OBVIOUS
<1>1. ASSUME NEW t \in FmTurns, FmTurnStep(t) PROVE FmBoundShape'
  <2>1. ASSUME NEW call, FmCall(t, call) PROVE FmBoundShape'
    BY <2>1, SMTT(60) DEF FmCall, FmBoundShape
  <2>2. CASE (\E p \in FmPaths : StartWrite(t, p)) \/ \E patch \in FmPatches : PlanPatch(t, patch)
    BY <2>1, <2>2 DEF StartWrite, PlanPatch
  <2>3. CASE \E p \in FmPaths, window \in FmWindows : ReadFile(t, p, window)
    BY <2>3 DEF ReadFile, FmBoundShape
  <2>4. CASE Lock(t) \/ CaptureBefore(t) \/ CommitFails(t)
    BY <2>4, SMTT(60) DEF Lock, CaptureBefore, CommitFails, FmBoundShape
  <2>5. CASE CommitFile(t)
    BY <2>5 DEF CommitFile, FmBoundShape
  <2>6. CASE EndCall(t) \/ EndFails(t) \/ FinishTurn(t)
    BY <2>6 DEF EndCall, EndFails, FinishTurn, FmBoundShape
  <2> QED
    BY <1>1, <2>2, <2>3, <2>4, <2>5, <2>6 DEF FmTurnStep
<1>2. ASSUME NEW t \in FmTurns, StartRestore(t) PROVE FmBoundShape'
  BY <1>2 DEF StartRestore, FmBoundShape
<1>3. CASE ApplyRestoreStep \/ EndRestore \/ UNCHANGED fmVars
  BY <1>3 DEF ApplyRestoreStep, EndRestore, fmVars, FmBoundShape
<1>4. ASSUME NEW p, NEW content, External(p, content) PROVE FmBoundShape'
  BY <1>4 DEF External, FmBoundShape
<1> QED
  BY <1>1, <1>2, <1>3, <1>4 DEF FmNext

LEMMA FmInvStep == FmInv /\ FmBoundShape /\ [FmNext]_fmVars => FmInv'
<1> SUFFICES ASSUME FmInv, FmBoundShape, [FmNext]_fmVars PROVE FmInv'
  OBVIOUS
<1>1. CASE \E t \in FmTurns : FmTurnStep(t)
  BY <1>1, FmTurnStepInv
<1>2. CASE (\E t \in FmTurns : StartRestore(t)) \/ ApplyRestoreStep \/ EndRestore
           \/ \E p \in FmOutside, content \in FmContents : External(p, content)
  <2>1. /\ FmShape' /\ fmLock' = fmLock
        /\ \A u \in FmTurns : /\ CallOf(u)'.pc = CallOf(u).pc
                              /\ CallOf(u)'.paths = CallOf(u).paths
    BY <1>2, FmRestoreShapeKept DEF FmInv
  <2>2. FmLocking'
    BY <2>1, FmSameLocks, FmLocksKept DEF FmInv, FmLocking
  <2> QED
    BY <2>1, <2>2 DEF FmInv
<1>3. CASE UNCHANGED fmVars
  BY <1>3 DEF fmVars, FmInv, FmShape, FmFileShape, FmSeenShape, FmLockShape, FmTurnShape,
              FmLogShape, FmRestoreShape, FmLocking, FmLocksOf, Held, PathsOf, CallOf
<1>4. ASSUME NEW p \in FmOutside, NEW content \in {NoFile, <<0, fmBound.external + 1, {}>>},
             External(p, content)
      PROVE  content \in FmContents
  <2>1. fmBound.external + 1 \in Nat
    BY DEF FmBoundShape
  <2>2. <<0, fmBound.external + 1, {}>> \in FmContents
    BY <2>1 DEF FmContents
  <2> QED
    BY <2>2, FmNoFile
<1> QED
  BY <1>1, <1>2, <1>3, <1>4 DEF FmNext

(* In every reachable state a call that takes locks has the first of its paths,   *)
(* and one that has none in progress has no lock (filemutation.WithLock).         *)
THEOREM FmInductive == FmSpec => []FmInv
<1>1. FmInit => FmBoundShape
  BY DEF FmInit, FmBoundShape
<1> QED
  BY <1>1, FmInvInit, FmInvStep, FmBoundStep, PTL DEF FmSpec

------------------------------------------------------------------------------
(* The file that is waited for and last in the order is held by a call that       *)
(* waits, if it does, for one still later.                                        *)
LEMMA FmNoCircle == FmInv => FmNobodyDeadlocks
<1> SUFFICES ASSUME FmInv, NEW waiting \in SUBSET FmTurns, waiting # {},
                    \A t \in waiting : Waits(t) /\ fmLock[NextToLock(t)] \in waiting
             PROVE  FALSE
  BY DEF FmNobodyDeadlocks
<1> DEFINE wanted == {NextToLock(t) : t \in waiting}
<1>1. FmTurnShape /\ FmLocking
  BY DEF FmInv, FmShape
<1>2. \A t \in waiting : NextToLock(t) \in PathsOf(t) \ Held(t) /\ NextToLock(t) \in FmPaths
  BY <1>1, FmNextIsLeast, FmPathsInPaths
<1>3. wanted \in SUBSET FmPaths /\ wanted # {}
  BY <1>2
<1>4. wanted \in SUBSET Nat /\ IsFiniteSet(wanted)
  BY <1>3, FmAssumption, FS_Subset
<1>5. PICK last \in wanted : \A p \in wanted : p <= last
  BY <1>3, <1>4, FmLargestExists
<1>6. PICK t \in waiting : last = NextToLock(t)
  BY <1>5
<1> DEFINE holder == fmLock[last]
<1>7. holder \in waiting /\ last \in Held(holder)
  BY <1>2, <1>6 DEF Held
<1>8. CallOf(holder).pc = "lock" /\ FmLocksOf(holder)
  BY <1>1, <1>7 DEF Waits, FmLocking
<1>9. last < NextToLock(holder)
  BY <1>2, <1>7, <1>8 DEF FmLocksOf
<1>10. NextToLock(holder) \in wanted
  BY <1>7
<1> QED
  BY <1>4, <1>5, <1>9, <1>10

(* withApplyPatchLocks (apply_patch.go): however many turns patch and write       *)
(* however many files, in whatever order they list them, no calls wait for one    *)
(* another's locks forever.                                                       *)
THEOREM FmCallsDoNotDeadlock == FmSpec => []FmNobodyDeadlocks
  BY FmInductive, FmNoCircle, PTL

(* Files, observations, locks, calls, logs and the restore stay in their sets.    *)
THEOREM FmTypeCorrect == FmSpec => []FmTypeOK
<1>1. FmInv => FmTypeOK
  <2> SUFFICES ASSUME FmInv PROVE FmTypeOK
    OBVIOUS
  <2>1. FmShape
    BY DEF FmInv
  <2>2. ASSUME NEW t \in FmTurns
        PROVE  /\ fmTurn[t].status \in {"running", "ended"} /\ fmTurn[t].calls \in Nat
               /\ CallOf(t).pc \in {"idle", "lock", "commit", "end"}
               /\ CallOf(t).pc \in {"idle", "end"} => Held(t) = {}
               /\ fmLog[t] \in Seq(FmMutations)
    <3>1. fmTurn[t] \in FmTurnRecords /\ fmTurn[t].call \in FmCallRecords
      BY <2>1 DEF FmShape, FmTurnShape, FmTurnRecords
    <3>2. CallOf(t).pc \in {"idle", "end"} => Held(t) = {}
      BY DEF FmInv, FmLocking, FmLocksOf
    <3> QED
      BY <2>1, <3>1, <3>2 DEF FmShape, FmLogShape, FmTurnRecords, FmCallRecords, CallOf
  <2> QED
    BY <2>1, <2>2 DEF FmTypeOK, FmShape, FmFileShape, FmSeenShape, FmLockShape, FmRestoreShape
<1> QED
  BY <1>1, FmInductive, PTL

------------------------------------------------------------------------------
(* What a step does to the calls.                                                 *)

FmSame(t) ==
    /\ fmTurn'[t].status = fmTurn[t].status /\ fmTurn'[t].calls = fmTurn[t].calls
    /\ CallOf(t)'.pc = CallOf(t).pc /\ CallOf(t)'.tool = CallOf(t).tool
    /\ CallOf(t)'.paths = CallOf(t).paths /\ CallOf(t)'.deleted = CallOf(t).deleted
    /\ CallOf(t)'.todo = CallOf(t).todo /\ CallOf(t)'.before = CallOf(t).before
FmOthersSame(t) == \A u \in FmTurns \ {t} : FmSame(u) /\ CallOf(u)' = CallOf(u)

LEMMA FmSameMeans ==
    ASSUME NEW t \in FmTurns, FmSame(t)
    PROVE  PathsOf(t)' = PathsOf(t) /\ ContentOf(t)' = ContentOf(t)
<1>1. PathsOf(t)' = PathsOf(t)
  BY DEF FmSame, PathsOf, ListedBy
<1> QED
  BY <1>1 DEF FmSame, ContentOf

(* A write that somebody overtakes is told so; nothing else about it changes.     *)
LEMMA FmTold ==
    ASSUME FmTurnShape, NEW p, NEW turns, NEW t \in FmTurns, fmTurn' = Overtaken(p, turns)
    PROVE  /\ FmSame(t)
           /\ CallOf(t)'.overtaken =
                 (CallOf(t).overtaken \/ (t \in turns /\ CallOf(t).tool = "write"
                                         /\ CallOf(t).pc # "end" /\ p \in PathsOf(t)))
<1>1. fmTurn[t] \in FmTurnRecords /\ fmTurn[t].call \in FmCallRecords
  BY DEF FmTurnShape, FmTurnRecords
<1> DEFINE told == [fmTurn[t] EXCEPT !.call.overtaken = TRUE]
<1>2. /\ told.status = fmTurn[t].status /\ told.calls = fmTurn[t].calls
      /\ told.call.pc = fmTurn[t].call.pc /\ told.call.tool = fmTurn[t].call.tool
      /\ told.call.paths = fmTurn[t].call.paths /\ told.call.deleted = fmTurn[t].call.deleted
      /\ told.call.todo = fmTurn[t].call.todo /\ told.call.before = fmTurn[t].call.before
      /\ told.call.overtaken = TRUE /\ fmTurn[t].call.overtaken \in BOOLEAN
  BY <1>1 DEF FmTurnRecords, FmCallRecords
<1>3. fmTurn'[t] = IF t \in turns /\ CallOf(t).tool = "write" /\ CallOf(t).pc # "end" /\ p \in PathsOf(t)
                   THEN told ELSE fmTurn[t]
  BY DEF Overtaken
<1> HIDE DEF told
<1> QED
  BY <1>2, <1>3 DEF FmSame, CallOf

LEMMA FmGoesOn ==
    ASSUME FmTurnShape, NEW t \in FmTurns, NEW call, FmGo(t, call)
    PROVE  /\ CallOf(t)' = call /\ fmTurn'[t].status = fmTurn[t].status
           /\ fmTurn'[t].calls = fmTurn[t].calls /\ FmOthersSame(t)
<1>1. fmTurn[t] \in FmTurnRecords
  BY DEF FmTurnShape
<1> DEFINE turn == [fmTurn[t] EXCEPT !.call = call]
<1>2. turn.call = call /\ turn.status = fmTurn[t].status /\ turn.calls = fmTurn[t].calls
  BY <1>1 DEF FmTurnRecords
<1>3. fmTurn' = [fmTurn EXCEPT ![t] = turn]
  BY DEF FmGo
<1> HIDE DEF turn
<1> QED
  BY <1>2, <1>3 DEF FmOthersSame, FmSame, CallOf, FmTurnShape

LEMMA FmCalled ==
    ASSUME FmTurnShape, NEW t \in FmTurns, NEW call, FmCall(t, call)
    PROVE  /\ CallOf(t)' = call /\ fmTurn'[t].status = "running"
           /\ fmTurn'[t].calls = fmTurn[t].calls + 1 /\ FmOthersSame(t)
<1>1. PICK turn : turn = [status |-> "running", calls |-> fmTurn[t].calls + 1, call |-> call]
  OBVIOUS
<1>2. turn.call = call /\ turn.status = "running" /\ turn.calls = fmTurn[t].calls + 1
  BY <1>1
<1>3. fmTurn' = [fmTurn EXCEPT ![t] = turn]
  BY <1>1 DEF FmCall
<1> QED
  BY <1>2, <1>3 DEF FmOthersSame, FmSame, CallOf, FmTurnShape

LEMMA FmWrites ==
    ASSUME FmTurnShape, NEW t \in FmTurns, NEW p \in FmPaths, StartWrite(t, p)
    PROVE  /\ CallOf(t)'.pc = "lock" /\ CallOf(t)'.tool = "write" /\ CallOf(t)'.paths = <<p>>
           /\ CallOf(t)'.deleted = {} /\ CallOf(t)'.todo = {p} /\ CallOf(t)'.overtaken = FALSE
           /\ fmTurn'[t].status = "running" /\ fmTurn'[t].calls = fmTurn[t].calls + 1
           /\ FmOthersSame(t) /\ (Exists(p) => CoverWholeFile(p))
<1> DEFINE call == [NoChange EXCEPT !.pc = "lock", !.tool = "write", !.paths = <<p>>, !.todo = {p},
                                  !.before = fmFile[p]]
<1>1. /\ call.pc = "lock" /\ call.tool = "write" /\ call.paths = <<p>> /\ call.deleted = {}
      /\ call.todo = {p} /\ call.overtaken = FALSE
  BY DEF NoChange
<1>2. FmCall(t, call) /\ (Exists(p) => CoverWholeFile(p))
  BY DEF StartWrite
<1> HIDE DEF call
<1> QED
  BY <1>1, <1>2, FmCalled

LEMMA FmPlans ==
    ASSUME FmTurnShape, NEW t \in FmTurns, NEW patch \in FmPatches, PlanPatch(t, patch)
    PROVE  /\ CallOf(t)'.pc = "lock" /\ CallOf(t)'.tool = "patch" /\ CallOf(t)'.paths = patch.paths
           /\ CallOf(t)'.deleted = patch.deleted /\ CallOf(t)'.todo = ListedBy(patch)
           /\ fmTurn'[t].status = "running" /\ fmTurn'[t].calls = fmTurn[t].calls + 1
           /\ FmOthersSame(t)
<1> DEFINE call == [NoChange EXCEPT !.pc = "lock", !.tool = "patch", !.paths = patch.paths,
                                  !.deleted = patch.deleted,
                                  !.existed = {p \in patch.deleted : Exists(p)},
                                  !.todo = ListedBy(patch)]
<1>1. /\ call.pc = "lock" /\ call.tool = "patch" /\ call.paths = patch.paths
      /\ call.deleted = patch.deleted /\ call.todo = ListedBy(patch)
  BY DEF NoChange
<1>2. FmCall(t, call)
  BY DEF PlanPatch
<1> HIDE DEF call
<1> QED
  BY <1>1, <1>2, FmCalled

LEMMA FmCaptures ==
    ASSUME FmTurnShape, NEW t \in FmTurns, CaptureBefore(t)
    PROVE  /\ CallOf(t).pc = "lock" /\ CallOf(t)'.pc = "commit" /\ PathsOf(t) \subseteq Held(t)
           /\ CallOf(t)'.tool = CallOf(t).tool /\ CallOf(t)'.paths = CallOf(t).paths
           /\ CallOf(t)'.deleted = CallOf(t).deleted /\ CallOf(t)'.todo = CallOf(t).todo
           /\ CallOf(t)'.overtaken = CallOf(t).overtaken /\ CallOf(t)'.before = CapturedBefore(t)
           /\ fmTurn'[t].status = fmTurn[t].status /\ fmTurn'[t].calls = fmTurn[t].calls
           /\ FmOthersSame(t)
<1> DEFINE call == [CallOf(t) EXCEPT !.pc = "commit", !.before = CapturedBefore(t)]
<1>1. CallOf(t) \in FmCallRecords
  BY DEF FmTurnShape, FmTurnRecords, CallOf
<1>2. /\ call.pc = "commit" /\ call.tool = CallOf(t).tool /\ call.paths = CallOf(t).paths
      /\ call.deleted = CallOf(t).deleted /\ call.todo = CallOf(t).todo
      /\ call.overtaken = CallOf(t).overtaken /\ call.before = CapturedBefore(t)
  BY <1>1 DEF FmCallRecords
<1>3. FmGo(t, call) /\ CallOf(t).pc = "lock" /\ PathsOf(t) \subseteq Held(t)
  BY DEF CaptureBefore
<1> HIDE DEF call
<1> QED
  BY <1>2, <1>3, FmGoesOn

(* The end of a call, whatever ends it.                                           *)
LEMMA FmEnds ==
    ASSUME FmTurnShape, NEW t \in FmTurns, CommitFails(t) \/ EndCall(t) \/ EndFails(t)
    PROVE  /\ CallOf(t)'.pc = "idle" /\ CallOf(t)'.tool = "none"
           /\ fmTurn'[t].status \in {"ended", fmTurn[t].status}
           /\ fmTurn'[t].calls = fmTurn[t].calls /\ FmOthersSame(t)
<1>1. NoChange.pc = "idle" /\ NoChange.tool = "none"
  BY DEF NoChange
<1>2. CASE FmGo(t, NoChange)
  BY <1>1, <1>2, FmGoesOn
<1>3. CASE EndFails(t)
  <2>1. fmTurn[t] \in FmTurnRecords
    BY DEF FmTurnShape
  <2> DEFINE turn == [fmTurn[t] EXCEPT !.call = NoChange, !.status = "ended"]
  <2>2. turn.call = NoChange /\ turn.status = "ended" /\ turn.calls = fmTurn[t].calls
    BY <2>1 DEF FmTurnRecords
  <2>3. fmTurn' = [fmTurn EXCEPT ![t] = turn]
    BY <1>3 DEF EndFails
  <2> HIDE DEF turn
  <2> QED
    BY <1>1, <2>2, <2>3 DEF FmOthersSame, FmSame, CallOf, FmTurnShape
<1> QED
  BY <1>2, <1>3 DEF CommitFails, EndCall

LEMMA FmFinishes ==
    ASSUME FmTurnShape, NEW t \in FmTurns, FinishTurn(t)
    PROVE  /\ CallOf(t).pc = "idle" /\ CallOf(t)' = CallOf(t) /\ fmTurn'[t].status = "ended"
           /\ fmTurn'[t].calls = fmTurn[t].calls /\ FmOthersSame(t)
<1>1. fmTurn[t] \in FmTurnRecords
  BY DEF FmTurnShape
<1> DEFINE turn == [fmTurn[t] EXCEPT !.status = "ended"]
<1>2. turn.call = fmTurn[t].call /\ turn.status = "ended" /\ turn.calls = fmTurn[t].calls
  BY <1>1 DEF FmTurnRecords
<1>3. fmTurn' = [fmTurn EXCEPT ![t] = turn] /\ CallOf(t).pc = "idle"
  BY DEF FinishTurn, FmIdle
<1> HIDE DEF turn
<1> QED
  BY <1>2, <1>3 DEF FmOthersSame, FmSame, CallOf, FmTurnShape

FmHears(u, t, p) ==
    CallOf(u)'.overtaken =
        (CallOf(u).overtaken \/ (u # t /\ CallOf(u).tool = "write"
                                /\ CallOf(u).pc # "end" /\ p \in PathsOf(u)))

(* A commit changes the least of the files it has to do, goes on or is through.   *)
LEMMA FmCommits ==
    ASSUME FmShape, NEW t \in FmTurns, CommitFile(t),
           CallOf(t).todo # {}, CallOf(t).todo \subseteq PathsOf(t)
    PROVE  \E p \in CallOf(t).todo :
              /\ CallOf(t).pc = "commit"
              /\ Change(p, IF p \in CallOf(t).deleted THEN NoFile ELSE ContentOf(t))
              /\ \A u \in FmTurns \ {t} : FmSame(u) /\ FmHears(u, t, p)
              /\ fmTurn'[t].status = fmTurn[t].status /\ fmTurn'[t].calls = fmTurn[t].calls
              /\ CallOf(t).todo # {p} =>
                    /\ CallOf(t)'.pc = "commit" /\ CallOf(t)'.tool = CallOf(t).tool
                    /\ CallOf(t)'.paths = CallOf(t).paths /\ CallOf(t)'.deleted = CallOf(t).deleted
                    /\ CallOf(t)'.todo = CallOf(t).todo \ {p}
                    /\ CallOf(t)'.overtaken = CallOf(t).overtaken
                    /\ CallOf(t)'.before = CallOf(t).before
                    /\ fmLock' = fmLock
              /\ CallOf(t).todo = {p} =>
                    /\ CallOf(t)'.pc = "end" /\ fmLock' = Unlocked(t)
                    /\ IF CallOf(t).tool = "patch" THEN CallOf(t)'.tool = "none"
                       ELSE /\ CallOf(t)'.tool = CallOf(t).tool /\ CallOf(t)'.paths = CallOf(t).paths
                            /\ CallOf(t)'.deleted = CallOf(t).deleted
                            /\ CallOf(t)'.before = CallOf(t).before
              /\ fmBlind' = (fmBlind \/ /\ CallOf(t).tool = "write" /\ ~CallOf(t).overtaken
                                        /\ p \notin fmMistaken /\ Exists(p) /\ ~(AllLines \subseteq fmShown[p]))
              /\ fmOriginal' = IF CallOf(t).tool = "write"
                                  /\ ~\E i \in DOMAIN fmLog[t] : fmLog[t][i].path = p
                               THEN [fmOriginal EXCEPT ![t][p] = fmFile[p]] ELSE fmOriginal
              /\ fmRestore' = [fmRestore EXCEPT !.undone = @ \ {p}]
<1> DEFINE p == CHOOSE p \in CallOf(t).todo : \A q \in CallOf(t).todo : p <= q
<1>2. p \in CallOf(t).todo
  <2>1. CallOf(t).todo \in SUBSET Nat
    BY FmPathsInPaths, FmAssumption DEF FmShape
  <2> QED
    BY <2>1, FmLeastExists
<1> DEFINE call == CallOf(t)
           next == IF call.todo # {p} THEN [call EXCEPT !.todo = @ \ {p}]
                   ELSE IF call.tool = "patch" THEN [NoChange EXCEPT !.pc = "end"]
                   ELSE [call EXCEPT !.todo = {}, !.overtaken = FALSE, !.pc = "end"]
           others == FmTurns \ {t}
<1>3. /\ call.pc = "commit"
      /\ Change(p, IF p \in call.deleted THEN NoFile ELSE ContentOf(t))
      /\ fmTurn' = [Overtaken(p, others) EXCEPT ![t].call = next]
      /\ fmLock' = LocksAfter(t, p)
      /\ fmBlind' = (fmBlind \/ /\ call.tool = "write" /\ ~call.overtaken
                                /\ p \notin fmMistaken /\ Exists(p) /\ ~(AllLines \subseteq fmShown[p]))
      /\ fmOriginal' = IF call.tool = "write" /\ ~\E i \in DOMAIN fmLog[t] : fmLog[t][i].path = p
                       THEN [fmOriginal EXCEPT ![t][p] = fmFile[p]] ELSE fmOriginal
      /\ fmRestore' = [fmRestore EXCEPT !.undone = @ \ {p}]
  BY DEF CommitFile
<1> HIDE DEF p
<1>4. call \in FmCallRecords
  BY DEF FmShape, FmTurnShape, FmTurnRecords, CallOf
<1>5. /\ call.todo # {p} =>
            /\ next.pc = "commit" /\ next.tool = call.tool /\ next.paths = call.paths
            /\ next.deleted = call.deleted /\ next.todo = call.todo \ {p}
            /\ next.overtaken = call.overtaken /\ next.before = call.before
      /\ call.todo = {p} =>
            /\ next.pc = "end"
            /\ IF call.tool = "patch" THEN next.tool = "none"
               ELSE /\ next.tool = call.tool /\ next.paths = call.paths
                    /\ next.deleted = call.deleted /\ next.before = call.before
  <2>1. /\ [NoChange EXCEPT !.pc = "end"].pc = "end" /\ [NoChange EXCEPT !.pc = "end"].tool = "none"
    BY DEF NoChange
  <2>2. CASE call.todo # {p}
    BY <1>3, <1>4, <2>2 DEF FmCallRecords
  <2>3. CASE call.todo = {p} /\ call.tool = "patch"
    BY <2>1, <2>3
  <2>4. CASE call.todo = {p} /\ call.tool # "patch"
    BY <1>4, <2>4 DEF FmCallRecords
  <2> QED
    BY <2>2, <2>3, <2>4
<1>6. /\ fmTurn'[t].status = fmTurn[t].status /\ fmTurn'[t].calls = fmTurn[t].calls
      /\ CallOf(t)' = next
      /\ \A u \in others : fmTurn'[u] = Overtaken(p, others)[u]
  <2>1. Overtaken(p, others)[t] = fmTurn[t] /\ fmTurn[t] \in FmTurnRecords
    BY DEF Overtaken, FmShape, FmTurnShape
  <2>2. DOMAIN Overtaken(p, others) = FmTurns
    BY DEF Overtaken
  <2> HIDE DEF next, others, call
  <2>3. PICK turns : turns = Overtaken(p, others)
    OBVIOUS
  <2>4. fmTurn' = [turns EXCEPT ![t].call = next]
    BY <1>3, <2>3
  <2> QED
    BY <2>1, <2>2, <2>3, <2>4 DEF CallOf, FmTurnRecords, others
<1>7. \A u \in others : FmSame(u) /\ FmHears(u, t, p)
  <2> SUFFICES ASSUME NEW u \in others PROVE FmSame(u) /\ FmHears(u, t, p)
    OBVIOUS
  <2>1. fmTurn[u] \in FmTurnRecords /\ fmTurn[u].call \in FmCallRecords
    BY DEF FmShape, FmTurnShape, FmTurnRecords
  <2> DEFINE told == [fmTurn[u] EXCEPT !.call.overtaken = TRUE]
  <2>2. /\ told.status = fmTurn[u].status /\ told.calls = fmTurn[u].calls
        /\ told.call.pc = fmTurn[u].call.pc /\ told.call.tool = fmTurn[u].call.tool
        /\ told.call.paths = fmTurn[u].call.paths /\ told.call.deleted = fmTurn[u].call.deleted
        /\ told.call.todo = fmTurn[u].call.todo /\ told.call.before = fmTurn[u].call.before
        /\ told.call.overtaken = TRUE /\ fmTurn[u].call.overtaken \in BOOLEAN
    BY <2>1 DEF FmTurnRecords, FmCallRecords
  <2>3. fmTurn'[u] = IF CallOf(u).tool = "write" /\ CallOf(u).pc # "end" /\ p \in PathsOf(u)
                     THEN told ELSE fmTurn[u]
    BY <1>6 DEF Overtaken
  <2> HIDE DEF told
  <2> QED
    BY <2>2, <2>3 DEF FmSame, FmHears, CallOf
<1>8. IF call.todo = {p} THEN fmLock' = Unlocked(t) ELSE fmLock' = fmLock
  BY <1>3 DEF LocksAfter
<1> HIDE DEF next
<1> QED
  BY <1>2, <1>3, <1>5, <1>6, <1>7, <1>8

------------------------------------------------------------------------------
(* What a call has: its files, those it still has to do, and their locks from the *)
(* first commit on.                                                               *)

FmWorking(t) == CallOf(t).pc \in {"lock", "commit"}
FmCallHas(t) ==
    /\ FmWorking(t) => /\ CallOf(t).tool \in {"write", "patch"}
                       /\ CallOf(t).todo # {} /\ CallOf(t).todo \subseteq PathsOf(t)
    /\ CallOf(t).tool = "write" =>
          /\ PathsOf(t) = {CallOf(t).paths[1]} /\ CallOf(t).deleted = {}
          /\ FmWorking(t) => CallOf(t).todo = {CallOf(t).paths[1]}
    /\ CallOf(t).pc = "lock" => CallOf(t).todo = PathsOf(t)
    /\ CallOf(t).pc = "commit" => PathsOf(t) \subseteq Held(t)
    /\ fmTurn[t].status = "ended" => CallOf(t).pc = "idle"
FmCallsHave == \A t \in FmTurns : FmCallHas(t)

LEMMA FmHasKept ==
    ASSUME NEW t \in FmTurns, FmCallHas(t), FmSame(t), CallOf(t).pc = "commit" => Held(t) \subseteq Held(t)'
    PROVE  FmCallHas(t)'
<1>1. PathsOf(t)' = PathsOf(t)
  BY FmSameMeans
<1> QED
  BY <1>1 DEF FmCallHas, FmSame, FmWorking

LEMMA FmSameKept ==
    ASSUME FmTurnShape, fmTurn' = fmTurn
    PROVE  \A t \in FmTurns : FmSame(t) /\ CallOf(t)' = CallOf(t)
  BY DEF FmSame, CallOf

LEMMA FmTurnStepHas ==
    ASSUME FmInv, FmCallsHave, NEW t \in FmTurns, FmTurnStep(t)
    PROVE  FmCallsHave'
<1>1. FmShape /\ FmTurnShape /\ FmLockShape /\ FmCallHas(t)
  BY DEF FmInv, FmShape, FmCallsHave
<1>2. fmLock' = fmLock => \A u \in FmTurns : Held(u)' = Held(u)
  BY DEF Held
<1>3. fmLock' = Unlocked(t) => \A u \in FmTurns \ {t} : Held(u)' = Held(u)
  BY <1>1, FmUnlocked DEF Held
<1>4. ASSUME FmOthersSame(t), fmLock' = fmLock \/ fmLock' = Unlocked(t), FmCallHas(t)'
      PROVE  FmCallsHave'
  <2>1. ASSUME NEW u \in FmTurns \ {t} PROVE FmCallHas(u)'
    BY <1>2, <1>3, <1>4, FmHasKept DEF FmCallsHave, FmOthersSame
  <2> QED
    BY <1>4, <2>1 DEF FmCallsHave
<1>5. ASSUME NEW p \in FmPaths, StartWrite(t, p) PROVE FmCallsHave'
  <2>1. /\ CallOf(t)'.pc = "lock" /\ CallOf(t)'.tool = "write" /\ CallOf(t)'.paths = <<p>>
        /\ CallOf(t)'.deleted = {} /\ CallOf(t)'.todo = {p} /\ fmTurn'[t].status = "running"
        /\ FmOthersSame(t)
    BY <1>1, <1>5, FmWrites
  <2>2. PathsOf(t)' = {p}
    BY <2>1 DEF PathsOf, ListedBy
  <2>3. FmCallHas(t)'
    BY <2>1, <2>2 DEF FmCallHas, FmWorking
  <2> QED
    BY <1>4, <1>5, <2>1, <2>3 DEF StartWrite, FmCall
<1>6. ASSUME NEW patch \in FmPatches, PlanPatch(t, patch) PROVE FmCallsHave'
  <2>1. /\ CallOf(t)'.pc = "lock" /\ CallOf(t)'.tool = "patch" /\ CallOf(t)'.paths = patch.paths
        /\ CallOf(t)'.todo = ListedBy(patch) /\ fmTurn'[t].status = "running"
        /\ FmOthersSame(t)
    BY <1>1, <1>6, FmPlans
  <2>2. PathsOf(t)' = ListedBy(patch)
    BY <2>1 DEF PathsOf, ListedBy
  <2>3. ListedBy(patch) # {}
    <3>1. patch.paths \in Seq(FmPaths) /\ patch.paths # <<>>
      BY FmAssumption
    <3>2. 1 \in DOMAIN patch.paths
      BY <3>1
    <3> QED
      BY <3>2 DEF ListedBy
  <2>4. FmCallHas(t)'
    BY <2>1, <2>2, <2>3 DEF FmCallHas, FmWorking
  <2> QED
    BY <1>4, <1>6, <2>1, <2>4 DEF PlanPatch, FmCall
<1>7. ASSUME NEW p \in FmPaths, NEW window \in FmWindows, ReadFile(t, p, window) PROVE FmCallsHave'
  <2>1. fmTurn' = fmTurn /\ fmLock' = fmLock
    BY <1>7 DEF ReadFile
  <2>2. \A u \in FmTurns : FmSame(u) /\ Held(u)' = Held(u)
    BY <1>1, <1>2, <2>1, FmSameKept
  <2> QED
    BY <2>2, FmHasKept DEF FmCallsHave
<1>8. CASE Lock(t)
  <2> DEFINE m == NextToLock(t)
  <2>1. fmTurn' = fmTurn /\ fmLock' = [fmLock EXCEPT ![m] = t] /\ fmLock[m] = 0
    BY <1>8 DEF Lock
  <2> HIDE DEF m
  <2>2. \A u \in FmTurns : Held(u) \subseteq Held(u)'
    BY <1>1, <2>1, FmAssumption DEF Held, FmLockShape
  <2>3. \A u \in FmTurns : FmSame(u)
    BY <1>1, <2>1, FmSameKept
  <2> QED
    BY <2>2, <2>3, FmHasKept DEF FmCallsHave
<1>9. CASE CaptureBefore(t)
  <2>1. /\ CallOf(t).pc = "lock" /\ CallOf(t)'.pc = "commit" /\ PathsOf(t) \subseteq Held(t)
        /\ CallOf(t)'.tool = CallOf(t).tool /\ CallOf(t)'.paths = CallOf(t).paths
        /\ CallOf(t)'.deleted = CallOf(t).deleted /\ CallOf(t)'.todo = CallOf(t).todo
        /\ fmTurn'[t].status = fmTurn[t].status /\ FmOthersSame(t)
    BY <1>1, <1>9, FmCaptures
  <2>2. PathsOf(t)' = PathsOf(t) /\ fmLock' = fmLock
    BY <1>9, <2>1 DEF PathsOf, ListedBy, CaptureBefore
  <2>3. FmCallHas(t)'
    BY <1>1, <1>2, <2>1, <2>2 DEF FmCallHas, FmWorking
  <2> QED
    BY <1>4, <2>1, <2>2, <2>3
<1>10. CASE CommitFile(t)
  <2>1. CallOf(t).pc = "commit"
    BY <1>10 DEF CommitFile
  <2>2. PICK p \in CallOf(t).todo :
           /\ \A u \in FmTurns \ {t} : FmSame(u)
           /\ fmTurn'[t].status = fmTurn[t].status
           /\ CallOf(t).todo # {p} =>
                 /\ CallOf(t)'.pc = "commit" /\ CallOf(t)'.tool = CallOf(t).tool
                 /\ CallOf(t)'.paths = CallOf(t).paths /\ CallOf(t)'.deleted = CallOf(t).deleted
                 /\ CallOf(t)'.todo = CallOf(t).todo \ {p}
                 /\ fmLock' = fmLock
           /\ CallOf(t).todo = {p} =>
                 /\ CallOf(t)'.pc = "end" /\ fmLock' = Unlocked(t)
                 /\ IF CallOf(t).tool = "patch" THEN CallOf(t)'.tool = "none"
                    ELSE /\ CallOf(t)'.tool = CallOf(t).tool /\ CallOf(t)'.paths = CallOf(t).paths
                         /\ CallOf(t)'.deleted = CallOf(t).deleted
    BY <1>1, <1>10, <2>1, FmCommits DEF FmCallHas, FmWorking
  <2>3. ASSUME NEW u \in FmTurns \ {t} PROVE FmCallHas(u)'
    BY <1>2, <1>3, <2>2, FmHasKept DEF FmCallsHave
  <2>4. FmCallHas(t)'
    <3>1. CallOf(t)'.paths = CallOf(t).paths => PathsOf(t)' = PathsOf(t)
      BY DEF PathsOf, ListedBy
    <3>2. CASE CallOf(t).todo # {p}
      BY <1>1, <1>2, <2>1, <2>2, <3>1, <3>2 DEF FmCallHas, FmWorking
    <3>3. CASE CallOf(t).todo = {p}
      BY <1>1, <2>1, <2>2, <3>1, <3>3 DEF FmCallHas, FmWorking
    <3> QED
      BY <3>2, <3>3
  <2> QED
    BY <2>3, <2>4 DEF FmCallsHave
<1>11. CASE CommitFails(t) \/ EndCall(t) \/ EndFails(t)
  <2>1. CallOf(t)'.pc = "idle" /\ CallOf(t)'.tool = "none" /\ FmOthersSame(t)
    BY <1>1, <1>11, FmEnds
  <2>2. fmLock' = fmLock \/ fmLock' = Unlocked(t)
    BY <1>11 DEF CommitFails, EndCall, EndFails
  <2>3. FmCallHas(t)'
    BY <2>1 DEF FmCallHas, FmWorking
  <2> QED
    BY <1>4, <2>1, <2>2, <2>3
<1>12. CASE FinishTurn(t)
  <2>1. CallOf(t).pc = "idle" /\ CallOf(t)' = CallOf(t) /\ FmOthersSame(t)
    BY <1>1, <1>12, FmFinishes
  <2>2. PathsOf(t)' = PathsOf(t) /\ fmLock' = fmLock
    BY <1>12, <2>1 DEF PathsOf, FinishTurn
  <2>3. FmCallHas(t)'
    BY <1>1, <2>1, <2>2 DEF FmCallHas, FmWorking
  <2> QED
    BY <1>4, <2>1, <2>2, <2>3
<1> QED
  BY <1>5, <1>6, <1>7, <1>8, <1>9, <1>10, <1>11, <1>12 DEF FmTurnStep

(* What no call does; what comes from outside is no patch's content.              *)
FmOutsiders == {NoFile} \cup ({0} \X Nat \X {{}})
FmRest ==
    \/ \E t \in FmTurns : StartRestore(t)
    \/ ApplyRestoreStep \/ EndRestore \/ UNCHANGED fmVars
    \/ \E p \in FmOutside, content \in FmOutsiders : External(p, content)

LEMMA FmOutsidersFit == FmOutsiders \subseteq FmContents
  BY DEF FmOutsiders, FmContents

LEMMA FmNextSteps ==
    ASSUME FmBoundShape, [FmNext]_fmVars
    PROVE  (\E t \in FmTurns : FmTurnStep(t)) \/ FmRest
<1>1. ASSUME NEW p \in FmOutside, NEW content \in {NoFile, <<0, fmBound.external + 1, {}>>},
             External(p, content)
      PROVE  content \in FmOutsiders
  <2>1. fmBound.external + 1 \in Nat
    BY DEF FmBoundShape
  <2> QED
    BY <2>1 DEF FmOutsiders
<1> QED
  BY <1>1 DEF FmNext, FmRest

(* It keeps every call where it is, and changes a file only unlocked.             *)
LEMMA FmRestDoes ==
    ASSUME FmShape, FmRest
    PROVE  /\ fmLock' = fmLock /\ fmLog' = fmLog /\ fmOriginal' = fmOriginal /\ fmBlind' = fmBlind
           /\ \A t \in FmTurns : FmSame(t)
           /\ \/ /\ fmTurn' = fmTurn /\ fmFile' = fmFile /\ fmSeen' = fmSeen /\ fmShown' = fmShown
                 /\ fmMistaken' = fmMistaken /\ fmTouched' = fmTouched /\ fmTorn' = fmTorn
              \/ \E p \in FmPaths, content \in FmContents :
                    /\ ChangeUnlocked(p, content)
                    /\ \A t \in FmTurns : FmHears(t, 0, p)
                    /\ fmTorn' \/ (fmTorn' = fmTorn /\ content \in FmOutsiders)
<1>1. ASSUME NEW p \in FmPaths, NEW content \in FmContents, ChangeUnlocked(p, content)
      PROVE  \A t \in FmTurns : FmSame(t) /\ FmHears(t, 0, p)
  <2>1. fmTurn' = Overtaken(p, FmTurns)
    BY <1>1 DEF ChangeUnlocked
  <2>2. FmTurnShape /\ 0 \notin FmTurns
    BY FmAssumption DEF FmShape
  <2> QED
    BY <2>1, <2>2, FmTold DEF FmHears
<1>2. CASE (\E t \in FmTurns : StartRestore(t)) \/ EndRestore \/ UNCHANGED fmVars
  <2>1. /\ fmLock' = fmLock /\ fmLog' = fmLog /\ fmTurn' = fmTurn /\ fmFile' = fmFile
        /\ fmSeen' = fmSeen /\ fmHistory' = fmHistory
    BY <1>2 DEF StartRestore, EndRestore, fmVars
  <2> QED
    BY <2>1, FmSameKept DEF fmHistory, FmShape
<1>3. CASE ApplyRestoreStep
  <2> DEFINE step == Head(fmRestore.todo)
  <2>1. fmRestore.todo \in Seq(FmMutations) /\ fmRestore.todo # <<>>
    BY <1>3 DEF ApplyRestoreStep, FmShape, FmRestoreShape
  <2>2. step \in FmMutations
    BY <2>1
  <2>3. step.path \in FmPaths /\ step.before \in FmContents
    BY <2>2 DEF FmMutations
  <2>4. ChangeUnlocked(step.path, step.before) /\ fmTorn' /\ UNCHANGED <<fmLock, fmLog, fmOriginal, fmBlind>>
    BY <1>3 DEF ApplyRestoreStep
  <2> HIDE DEF step
  <2> QED
    BY <1>1, <2>3, <2>4
<1>4. ASSUME NEW p \in FmOutside, NEW content \in FmOutsiders, External(p, content)
      PROVE  /\ p \in FmPaths /\ ChangeUnlocked(p, content)
             /\ UNCHANGED <<fmLock, fmLog, fmOriginal, fmBlind, fmTorn>>
  BY <1>4, FmAssumption DEF External
<1> QED
  BY <1>1, <1>2, <1>3, <1>4, FmOutsidersFit DEF FmRest

LEMMA FmCallsHaveInit == FmInit => FmCallsHave
  BY DEF FmInit, FmCallsHave, FmCallHas, FmWorking, CallOf, NoChange

LEMMA FmCallsHaveStep == FmInv /\ FmBoundShape /\ FmCallsHave /\ [FmNext]_fmVars => FmCallsHave'
<1> SUFFICES ASSUME FmInv, FmBoundShape, FmCallsHave, [FmNext]_fmVars PROVE FmCallsHave'
  OBVIOUS
<1>1. CASE \E t \in FmTurns : FmTurnStep(t)
  BY <1>1, FmTurnStepHas
<1>2. CASE FmRest
  <2>1. fmLock' = fmLock /\ \A t \in FmTurns : FmSame(t)
    BY <1>2, FmRestDoes DEF FmInv
  <2> QED
    BY <2>1, FmSameLocks, FmHasKept DEF FmCallsHave
<1> QED
  BY <1>1, <1>2, FmNextSteps

------------------------------------------------------------------------------
(* A write at work that nobody overtook has all lines of its file before it.      *)

FmInformedCall(t) ==
    /\ CallOf(t).tool = "write" /\ FmWorking(t) /\ ~CallOf(t).overtaken
    /\ Exists(CallOf(t).paths[1])
    => AllLines \subseteq fmSeen[CallOf(t).paths[1]]
FmHonest(p) == p \notin fmMistaken => fmSeen[p] \subseteq fmShown[p]
FmInformed ==
    /\ fmShown = [p \in FmPaths |-> fmShown[p]] /\ \A p \in FmPaths : FmHonest(p)
    /\ \A t \in FmTurns : FmInformedCall(t)
    /\ ~fmBlind

LEMMA FmInformedKept ==
    ASSUME FmFileShape, NEW t \in FmTurns, FmInformedCall(t),
           FmSame(t), CallOf(t)'.overtaken = CallOf(t).overtaken,
           \A p \in FmPaths : Exists(p)' => Exists(p) /\ fmSeen[p] \subseteq fmSeen'[p],
           CallOf(t).paths[1] \in FmPaths
    PROVE  FmInformedCall(t)'
  BY DEF FmInformedCall, FmSame, FmWorking

LEMMA FmWritesOne ==
    ASSUME FmTurnShape, FmCallsHave, NEW t \in FmTurns, CallOf(t).tool = "write"
    PROVE  CallOf(t).paths[1] \in FmPaths /\ PathsOf(t) = {CallOf(t).paths[1]}
  BY FmPathsInPaths DEF FmCallsHave, FmCallHas

LEMMA FmInformedStep == FmInv /\ FmBoundShape /\ FmCallsHave /\ FmInformed /\ [FmNext]_fmVars => FmInformed'
<1> SUFFICES ASSUME FmInv, FmBoundShape, FmCallsHave, FmInformed, [FmNext]_fmVars PROVE FmInformed'
  OBVIOUS
<1>1. FmShape /\ FmTurnShape /\ FmFileShape /\ FmSeenShape
  BY DEF FmInv, FmShape
<1>2. ASSUME fmFile' = fmFile, fmSeen' = fmSeen, NEW t \in FmTurns,
             FmSame(t), CallOf(t)' = CallOf(t)
      PROVE  FmInformedCall(t)'
  BY <1>2 DEF FmInformed, FmInformedCall, FmWorking, Exists
<1>3. ASSUME NEW p \in FmPaths, NEW content, Change(p, content), NEW t \in FmTurns,
             FmSame(t), NEW s, t # s, FmHears(t, s, p)
      PROVE  FmInformedCall(t)'
  <2>1. PICK q : q = CallOf(t).paths[1]
    OBVIOUS
  <2> SUFFICES ASSUME CallOf(t).tool = "write", FmWorking(t), ~CallOf(t)'.overtaken, fmFile'[q] # NoFile
               PROVE  AllLines \subseteq fmSeen'[q]
    BY <1>3, <2>1 DEF FmInformedCall, FmSame, FmWorking, Exists
  <2>2. q \in FmPaths /\ PathsOf(t) = {q}
    BY <1>1, <2>1, FmWritesOne
  <2>3. ~CallOf(t).overtaken /\ p # q
    BY <1>3, <2>2 DEF FmHears, FmWorking
  <2>4. fmFile'[q] = fmFile[q] /\ fmSeen'[q] = fmSeen[q]
    BY <1>1, <1>3, <2>2, <2>3 DEF Change, FmFileShape, FmSeenShape
  <2> QED
    BY <2>1, <2>3, <2>4 DEF FmInformed, FmInformedCall, Exists
<1> DEFINE Honest == fmShown = [p \in FmPaths |-> fmShown[p]] /\ \A p \in FmPaths : FmHonest(p)
<1>4. ASSUME NEW p \in FmPaths, NEW content, Change(p, content) PROVE Honest'
  <2>1. /\ fmSeen' = [fmSeen EXCEPT ![p] = {}] /\ fmShown' = [fmShown EXCEPT ![p] = {}]
        /\ fmMistaken' = fmMistaken \ {p}
    BY <1>4 DEF Change, SeenAfterChange
  <2>2. fmShown = [q \in FmPaths |-> fmShown[q]] /\ \A q \in FmPaths : FmHonest(q)
    BY DEF FmInformed
  <2>3. fmShown' = [q \in FmPaths |-> fmShown'[q]]
    BY <2>1, <2>2
  <2>4. ASSUME NEW q \in FmPaths PROVE FmHonest(q)'
    BY <1>1, <2>1, <2>2 DEF FmHonest, FmSeenShape
  <2> QED
    BY <2>3, <2>4
<1>6. ASSUME fmSeen' = fmSeen, fmShown' = fmShown, fmMistaken' = fmMistaken PROVE Honest'
  BY <1>6 DEF FmInformed, FmHonest
<1>5. ASSUME NEW t \in FmTurns, FmTurnStep(t) PROVE FmInformed'
  <2>1. ASSUME FmOthersSame(t), fmFile' = fmFile, fmSeen' = fmSeen, fmShown' = fmShown,
               fmMistaken' = fmMistaken, fmBlind' = fmBlind, FmInformedCall(t)'
        PROVE  FmInformed'
    BY <1>2, <1>6, <2>1 DEF FmInformed, FmOthersSame
  <2>2. ASSUME NEW p \in FmPaths, StartWrite(t, p) PROVE FmInformed'
    <3>1. /\ CallOf(t)'.paths = <<p>> /\ FmOthersSame(t) /\ (Exists(p) => CoverWholeFile(p))
      BY <1>1, <2>2, FmWrites
    <3>2. fmFile' = fmFile /\ fmSeen' = fmSeen /\ fmShown' = fmShown /\ fmMistaken' = fmMistaken
          /\ fmBlind' = fmBlind
      BY <2>2 DEF StartWrite, FmCall, fmHistory
    <3>3. FmInformedCall(t)'
      BY <3>1, <3>2 DEF FmInformedCall, CoverWholeFile, Exists
    <3> QED
      BY <2>1, <3>1, <3>2, <3>3
  <2>3. ASSUME NEW patch \in FmPatches, PlanPatch(t, patch) PROVE FmInformed'
    <3>1. CallOf(t)'.tool = "patch" /\ FmOthersSame(t)
      BY <1>1, <2>3, FmPlans
    <3>2. fmFile' = fmFile /\ fmSeen' = fmSeen /\ fmShown' = fmShown /\ fmMistaken' = fmMistaken
          /\ fmBlind' = fmBlind
      BY <2>3 DEF PlanPatch, FmCall, fmHistory
    <3>3. FmInformedCall(t)'
      BY <3>1 DEF FmInformedCall
    <3> QED
      BY <2>1, <3>1, <3>2, <3>3
  <2>4. ASSUME NEW p \in FmPaths, NEW window \in FmWindows, ReadFile(t, p, window) PROVE FmInformed'
    <3>1. PICK lines : /\ fmSeen' = [fmSeen EXCEPT ![p] = @ \cup lines]
                       /\ fmShown' = [fmShown EXCEPT ![p] = @ \cup lines]
      BY <2>4 DEF ReadFile
    <3>2. fmTurn' = fmTurn /\ fmFile' = fmFile /\ fmMistaken' = fmMistaken /\ fmBlind' = fmBlind
      BY <2>4 DEF ReadFile
    <3>3. \A q \in FmPaths : fmSeen[q] \subseteq fmSeen'[q]
      BY <1>1, <3>1 DEF FmSeenShape
    <3>4. ASSUME NEW u \in FmTurns PROVE FmInformedCall(u)'
      <4>1. CallOf(u)' = CallOf(u) /\ FmSame(u)
        BY <1>1, <3>2, FmSameKept
      <4>2. \A q \in FmPaths : Exists(q)' => Exists(q)
        BY <3>2 DEF Exists
      <4>3. CASE CallOf(u).tool = "write"
        BY <1>1, <3>3, <4>1, <4>2, <4>3, FmWritesOne, FmInformedKept DEF FmInformed
      <4>4. CASE CallOf(u).tool # "write"
        BY <4>1, <4>4 DEF FmInformedCall
      <4> QED
        BY <4>3, <4>4
    <3>5. Honest'
      <4>1. fmShown = [q \in FmPaths |-> fmShown[q]] /\ \A q \in FmPaths : FmHonest(q)
        BY DEF FmInformed
      <4>2. fmShown' = [q \in FmPaths |-> fmShown'[q]]
        BY <3>1, <4>1
      <4>3. ASSUME NEW q \in FmPaths PROVE FmHonest(q)'
        BY <1>1, <3>1, <3>2, <4>1 DEF FmHonest, FmSeenShape
      <4> QED
        BY <4>2, <4>3
    <3> QED
      BY <3>2, <3>4, <3>5 DEF FmInformed
  <2>5. CASE Lock(t)
    <3>1. fmTurn' = fmTurn /\ fmFile' = fmFile /\ fmSeen' = fmSeen /\ fmShown' = fmShown /\ fmMistaken' = fmMistaken
          /\ fmBlind' = fmBlind
      BY <2>5 DEF Lock, fmHistory
    <3> QED
      BY <1>1, <1>2, <1>6, <3>1, FmSameKept DEF FmInformed
  <2>6. CASE CaptureBefore(t)
    <3>1. fmFile' = fmFile /\ fmSeen' = fmSeen /\ fmShown' = fmShown /\ fmMistaken' = fmMistaken
          /\ fmBlind' = fmBlind
      BY <2>6 DEF CaptureBefore, fmHistory
    <3>2. /\ CallOf(t).pc = "lock" /\ CallOf(t)'.tool = CallOf(t).tool
          /\ CallOf(t)'.paths = CallOf(t).paths /\ CallOf(t)'.overtaken = CallOf(t).overtaken
          /\ FmOthersSame(t)
      BY <1>1, <2>6, FmCaptures
    <3>3. FmInformedCall(t)'
      BY <3>1, <3>2 DEF FmInformed, FmInformedCall, FmWorking, Exists
    <3> QED
      BY <2>1, <3>1, <3>2, <3>3
  <2>7. CASE CommitFile(t)
    <3>1. CallOf(t).pc = "commit"
      BY <2>7 DEF CommitFile
    <3>2. PICK p \in CallOf(t).todo :
             /\ Change(p, IF p \in CallOf(t).deleted THEN NoFile ELSE ContentOf(t))
             /\ \A u \in FmTurns \ {t} : FmSame(u) /\ FmHears(u, t, p)
             /\ CallOf(t).todo # {p} => CallOf(t)'.tool = CallOf(t).tool
             /\ CallOf(t).todo = {p} => CallOf(t)'.pc = "end"
             /\ fmBlind' = (fmBlind \/ /\ CallOf(t).tool = "write" /\ ~CallOf(t).overtaken
                                       /\ p \notin fmMistaken /\ Exists(p) /\ ~(AllLines \subseteq fmShown[p]))
      BY <1>1, <2>7, <3>1, FmCommits DEF FmCallsHave, FmCallHas, FmWorking
    <3>3. p \in FmPaths /\ (CallOf(t).tool = "write" => CallOf(t).todo = {p} /\ CallOf(t).paths[1] = p)
      BY <1>1, <3>1, <3>2, FmPathsInPaths DEF FmCallsHave, FmCallHas, FmWorking
    <3>4. ASSUME NEW u \in FmTurns \ {t} PROVE FmInformedCall(u)'
      BY <1>3, <3>2, <3>3
    <3>5. FmInformedCall(t)'
      BY <3>2, <3>3 DEF FmInformedCall, FmWorking
    <3>6. ~fmBlind'
      BY <3>1, <3>2, <3>3 DEF FmInformed, FmInformedCall, FmHonest, FmWorking
    <3>7. Honest'
      BY <1>4, <3>2, <3>3
    <3> QED
      BY <3>4, <3>5, <3>6, <3>7 DEF FmInformed
  <2>8. CASE CommitFails(t) \/ EndFails(t)
    <3>1. fmFile' = fmFile /\ fmSeen' = fmSeen /\ fmShown' = fmShown /\ fmMistaken' = fmMistaken
          /\ fmBlind' = fmBlind
      BY <2>8 DEF CommitFails, EndFails, fmHistory
    <3>2. CallOf(t)'.tool = "none" /\ FmOthersSame(t)
      BY <1>1, <2>8, FmEnds
    <3>3. FmInformedCall(t)'
      BY <3>2 DEF FmInformedCall
    <3> QED
      BY <2>1, <3>1, <3>2, <3>3
  <2>9. CASE EndCall(t)
    <3>1. CallOf(t)'.tool = "none" /\ FmOthersSame(t)
      BY <1>1, <2>9, FmEnds
    <3>2. fmFile' = fmFile /\ fmBlind' = fmBlind
      BY <2>9 DEF EndCall
    <3>3. Honest' /\ \A q \in FmPaths : fmSeen[q] \subseteq fmSeen'[q]
      <4>1. CASE CallOf(t).tool # "write"
        BY <1>6, <2>9, <4>1 DEF EndCall
      <4>2. CASE CallOf(t).tool = "write"
        <5>1. PICK p \in FmPaths : p = CallOf(t).paths[1]
          BY <1>1, <4>2, FmWritesOne
        <5>2. PICK mine \in BOOLEAN : mine <=> fmFile[p] = ContentOf(t)
          OBVIOUS
        <5>3. /\ fmSeen' = [fmSeen EXCEPT ![p] = IF Exists(p) THEN AllLines ELSE @]
              /\ fmShown' = [fmShown EXCEPT ![p] = IF mine THEN AllLines ELSE @]
              /\ fmMistaken' = IF Exists(p) /\ ~mine THEN fmMistaken \cup {p} ELSE fmMistaken
          BY <2>9, <4>2, <5>1, <5>2 DEF EndCall
        <5>4. fmShown = [q \in FmPaths |-> fmShown[q]] /\ \A q \in FmPaths : FmHonest(q)
          BY DEF FmInformed
        <5>5. fmShown' = [q \in FmPaths |-> fmShown'[q]]
          BY <5>3, <5>4
        <5>6. ASSUME NEW q \in FmPaths PROVE FmHonest(q)' /\ fmSeen[q] \subseteq fmSeen'[q]
          BY <1>1, <5>3, <5>4 DEF FmHonest, FmSeenShape
        <5> QED
          BY <5>5, <5>6
      <4> QED
        BY <4>1, <4>2
    <3>4. ASSUME NEW u \in FmTurns \ {t} PROVE FmInformedCall(u)'
      <4>1. CallOf(u)' = CallOf(u) /\ FmSame(u)
        BY <3>1 DEF FmOthersSame
      <4>2. \A q \in FmPaths : Exists(q)' => Exists(q)
        BY <3>2 DEF Exists
      <4>3. CASE CallOf(u).tool = "write"
        BY <1>1, <3>3, <4>1, <4>2, <4>3, FmWritesOne, FmInformedKept DEF FmInformed
      <4>4. CASE CallOf(u).tool # "write"
        BY <4>1, <4>4 DEF FmInformedCall
      <4> QED
        BY <4>3, <4>4
    <3>5. FmInformedCall(t)'
      BY <3>1 DEF FmInformedCall
    <3> QED
      BY <3>2, <3>3, <3>4, <3>5 DEF FmInformed
  <2>10. CASE FinishTurn(t)
    <3>1. fmFile' = fmFile /\ fmSeen' = fmSeen /\ fmShown' = fmShown /\ fmMistaken' = fmMistaken
          /\ fmBlind' = fmBlind
      BY <2>10 DEF FinishTurn, fmHistory
    <3>2. CallOf(t).pc = "idle" /\ CallOf(t)' = CallOf(t) /\ FmOthersSame(t)
      BY <1>1, <2>10, FmFinishes
    <3>3. FmInformedCall(t)'
      BY <3>2 DEF FmInformedCall, FmWorking
    <3> QED
      BY <2>1, <3>1, <3>2, <3>3
  <2> QED
    BY <1>5, <2>2, <2>3, <2>4, <2>5, <2>6, <2>7, <2>8, <2>9, <2>10 DEF FmTurnStep
<1>7. CASE FmRest
  <2>1. fmBlind' = fmBlind /\ \A t \in FmTurns : FmSame(t)
    BY <1>1, <1>7, FmRestDoes
  <2>2. CASE /\ fmTurn' = fmTurn /\ fmFile' = fmFile /\ fmSeen' = fmSeen /\ fmShown' = fmShown
             /\ fmMistaken' = fmMistaken
    BY <1>1, <1>2, <1>6, <2>1, <2>2, FmSameKept DEF FmInformed
  <2>3. ASSUME NEW p \in FmPaths, NEW content, ChangeUnlocked(p, content),
               \A t \in FmTurns : FmHears(t, 0, p)
        PROVE  FmInformed'
    <3>1. Change(p, content)
      BY <2>3 DEF ChangeUnlocked
    <3>2. \A t \in FmTurns : FmInformedCall(t)'
      BY <1>3, <2>1, <2>3, <3>1, FmAssumption
    <3> QED
      BY <1>4, <2>1, <3>1, <3>2 DEF FmInformed
  <2> QED
    BY <1>1, <1>7, <2>2, <2>3, FmRestDoes
<1> QED
  BY <1>5, <1>7, FmNextSteps

(* requireCompleteFreshReadBeforeWrite (tool_executor_write_preflight.go): no     *)
(* write replaces a line of an existing file that the session has not seen as it  *)
(* is, but for changes while the write was at its check and its change, or an     *)
(* earlier one between its change and its observation.                            *)
THEOREM FmNoBlindWrite == FmSpec => []FmWritesAreInformed
<1>1. FmInit => FmBoundShape
  BY DEF FmInit, FmBoundShape
<1>2. FmInit => FmInformed
  BY DEF FmInit, FmInformed, FmHonest, FmInformedCall, FmWorking, CallOf, NoChange
<1>3. FmInformed => FmWritesAreInformed
  BY DEF FmInformed, FmWritesAreInformed
<1> QED
  BY <1>1, <1>2, <1>3, FmInvInit, FmInvStep, FmBoundStep, FmCallsHaveInit, FmCallsHaveStep,
     FmInformedStep, PTL DEF FmSpec

------------------------------------------------------------------------------
(* What a turn's first recorded write to a file replaced.                         *)

FmOriginalShape == fmOriginal \in [FmTurns -> [FmPaths -> FmContents]]
FmUnlogged(t, p) == \A i \in 1 .. Len(fmLog[t]) : fmLog[t][i].path # p
FmFirst(log, i) == \A j \in 1 .. i - 1 : log[j].path # log[i].path

\* The first entry of the log, the write that is at it, the write that was.
FmOriginalLogged(t) ==
    \A i \in 1 .. Len(fmLog[t]) :
        FmFirst(fmLog[t], i) => fmLog[t][i].before = fmOriginal[t][fmLog[t][i].path]
FmOriginalThere(t) ==
    CallOf(t).tool = "write" /\ CallOf(t).pc = "commit" => CallOf(t).before = fmFile[CallOf(t).paths[1]]
FmOriginalKept(t) ==
    CallOf(t).tool = "write" /\ CallOf(t).pc = "end" /\ FmUnlogged(t, CallOf(t).paths[1])
        => CallOf(t).before = fmOriginal[t][CallOf(t).paths[1]]
FmOriginalOf(t) == t \notin fmTouched => FmOriginalLogged(t) /\ FmOriginalThere(t) /\ FmOriginalKept(t)
FmOriginals == FmOriginalShape /\ \A t \in FmTurns : FmOriginalOf(t)

LEMMA FmOriginalStays ==
    ASSUME NEW t \in FmTurns, FmOriginalOf(t), FmSame(t), fmLog'[t] = fmLog[t],
           fmOriginal'[t] = fmOriginal[t], t \in fmTouched => t \in fmTouched',
           CallOf(t).tool = "write" /\ CallOf(t).pc = "commit" =>
               t \in fmTouched' \/ fmFile'[CallOf(t).paths[1]] = fmFile[CallOf(t).paths[1]]
    PROVE  FmOriginalOf(t)'
<1>1. FmOriginalLogged(t) => FmOriginalLogged(t)'
  BY DEF FmOriginalLogged
<1>2. FmOriginalThere(t) /\ t \notin fmTouched' => FmOriginalThere(t)'
  BY DEF FmOriginalThere, FmSame
<1>3. FmOriginalKept(t) => FmOriginalKept(t)'
  BY DEF FmOriginalKept, FmUnlogged, FmSame
<1> QED
  BY <1>1, <1>2, <1>3 DEF FmOriginalOf

(* A call that is not, or not yet, a write at its file.                           *)
LEMMA FmOriginalAway ==
    ASSUME NEW t \in FmTurns, FmOriginalOf(t), fmLog'[t] = fmLog[t], fmOriginal'[t] = fmOriginal[t],
           fmTouched' = fmTouched, CallOf(t)'.tool # "write" \/ CallOf(t)'.pc \in {"idle", "lock"}
    PROVE  FmOriginalOf(t)'
<1>1. FmOriginalLogged(t) => FmOriginalLogged(t)'
  BY DEF FmOriginalLogged
<1> QED
  BY <1>1 DEF FmOriginalOf, FmOriginalThere, FmOriginalKept

(* Whoever commits has the lock of the file.                                      *)
LEMMA FmCommitIsAlone ==
    ASSUME FmCallsHave, NEW t \in FmTurns, NEW u \in FmTurns \ {t}, NEW p \in PathsOf(t),
           CallOf(t).pc = "commit", CallOf(u).pc = "commit"
    PROVE  p \notin PathsOf(u)
  BY DEF FmCallsHave, FmCallHas, Held

LEMMA FmOriginalsStep ==
    FmInv /\ FmBoundShape /\ FmCallsHave /\ FmOriginals /\ [FmNext]_fmVars => FmOriginals'
<1> SUFFICES ASSUME FmInv, FmBoundShape, FmCallsHave, FmOriginals, [FmNext]_fmVars PROVE FmOriginals'
  OBVIOUS
<1>1. FmShape /\ FmTurnShape /\ FmFileShape /\ FmLogShape /\ FmOriginalShape
  BY DEF FmInv, FmShape, FmOriginals
<1>2. ASSUME fmOriginal' = fmOriginal PROVE FmOriginalShape'
  BY <1>1, <1>2 DEF FmOriginalShape
<1>3. ASSUME NEW t \in FmTurns, FmTurnStep(t) PROVE FmOriginals'
  <2>1. ASSUME FmOthersSame(t), \A u \in FmTurns \ {t} : fmLog'[u] = fmLog[u],
               fmOriginal' = fmOriginal, fmTouched' = fmTouched, fmFile' = fmFile, FmOriginalOf(t)'
        PROVE  FmOriginals'
    <3>1. ASSUME NEW u \in FmTurns \ {t} PROVE FmOriginalOf(u)'
      BY <2>1, FmOriginalStays DEF FmOthersSame, FmOriginals
    <3> QED
      BY <1>2, <2>1, <3>1 DEF FmOriginals
  <2>2. FmOriginalOf(t) /\ FmCallHas(t)
    BY DEF FmOriginals, FmCallsHave
  <2>3. CASE (\E p \in FmPaths : StartWrite(t, p)) \/ \E patch \in FmPatches : PlanPatch(t, patch)
    <3>1. CallOf(t)'.pc = "lock" /\ FmOthersSame(t)
      BY <1>1, <2>3, FmWrites, FmPlans
    <3>2. /\ fmLog' = fmLog /\ fmOriginal' = fmOriginal /\ fmTouched' = fmTouched /\ fmFile' = fmFile
      BY <2>3 DEF StartWrite, PlanPatch, FmCall, fmHistory
    <3>3. FmOriginalOf(t)'
      BY <2>2, <3>1, <3>2, FmOriginalAway
    <3> QED
      BY <2>1, <3>1, <3>2, <3>3
  <2>4. CASE (\E p \in FmPaths, window \in FmWindows : ReadFile(t, p, window)) \/ Lock(t)
    <3>1. /\ fmLog' = fmLog /\ fmOriginal' = fmOriginal /\ fmTouched' = fmTouched /\ fmFile' = fmFile
          /\ fmTurn' = fmTurn
      BY <2>4 DEF ReadFile, Lock, fmHistory
    <3>2. \A u \in FmTurns : FmSame(u) /\ CallOf(u)' = CallOf(u)
      BY <1>1, <3>1, FmSameKept
    <3>3. FmOriginalOf(t)' /\ FmOthersSame(t)
      BY <2>2, <3>1, <3>2, FmOriginalStays DEF FmOthersSame
    <3> QED
      BY <2>1, <3>1, <3>3
  <2>5. CASE CaptureBefore(t)
    <3>1. /\ fmLog' = fmLog /\ fmOriginal' = fmOriginal /\ fmTouched' = fmTouched /\ fmFile' = fmFile
      BY <2>5 DEF CaptureBefore, fmHistory
    <3>2. /\ CallOf(t)'.pc = "commit" /\ CallOf(t)'.tool = CallOf(t).tool
          /\ CallOf(t)'.paths = CallOf(t).paths /\ CallOf(t)'.before = CapturedBefore(t)
          /\ FmOthersSame(t)
      BY <1>1, <2>5, FmCaptures
    <3>3. FmOriginalOf(t)'
      <4>1. FmOriginalThere(t)' /\ FmOriginalKept(t)'
        BY <3>1, <3>2 DEF FmOriginalThere, FmOriginalKept, CapturedBefore
      <4>2. FmOriginalLogged(t) => FmOriginalLogged(t)'
        BY <3>1 DEF FmOriginalLogged
      <4> QED
        BY <2>2, <3>1, <4>1, <4>2 DEF FmOriginalOf
    <3> QED
      BY <2>1, <3>1, <3>2, <3>3
  <2>6. CASE CommitFile(t)
    <3>1. CallOf(t).pc = "commit" /\ fmLog' = fmLog /\ fmTouched' = fmTouched
      BY <2>6 DEF CommitFile
    <3>2. PICK p, content :
             /\ p \in CallOf(t).todo
             /\ Change(p, content)
             /\ \A u \in FmTurns \ {t} : FmSame(u)
             /\ CallOf(t).todo # {p} => CallOf(t)'.tool = CallOf(t).tool
             /\ CallOf(t).todo = {p} =>
                   /\ CallOf(t)'.pc = "end"
                   /\ IF CallOf(t).tool = "patch" THEN CallOf(t)'.tool = "none"
                      ELSE /\ CallOf(t)'.tool = CallOf(t).tool /\ CallOf(t)'.paths = CallOf(t).paths
                           /\ CallOf(t)'.before = CallOf(t).before
             /\ fmOriginal' = IF CallOf(t).tool = "write"
                                 /\ ~\E i \in DOMAIN fmLog[t] : fmLog[t][i].path = p
                              THEN [fmOriginal EXCEPT ![t][p] = fmFile[p]] ELSE fmOriginal
      BY <1>1, <2>2, <2>6, <3>1, FmCommits DEF FmCallHas, FmWorking
    <3>3. p \in FmPaths /\ p \in PathsOf(t) /\ fmFile[p] \in FmContents
      BY <1>1, <2>2, <3>1, <3>2, FmPathsInPaths DEF FmCallHas, FmWorking, FmFileShape
    <3>4. FmUnlogged(t, p) <=> ~\E i \in DOMAIN fmLog[t] : fmLog[t][i].path = p
      BY <1>1 DEF FmUnlogged, FmLogShape
    <3>5. /\ FmOriginalShape' /\ \A u \in FmTurns \ {t} : fmOriginal'[u] = fmOriginal[u]
          /\ \A q \in FmPaths : q # p \/ ~FmUnlogged(t, p) => fmOriginal'[t][q] = fmOriginal[t][q]
          /\ CallOf(t).tool = "write" /\ FmUnlogged(t, p) => fmOriginal'[t][p] = fmFile[p]
      BY <1>1, <3>2, <3>3, <3>4 DEF FmOriginalShape
    <3>6. ASSUME NEW u \in FmTurns \ {t} PROVE FmOriginalOf(u)'
      <4>1. ASSUME CallOf(u).tool = "write", CallOf(u).pc = "commit"
            PROVE  fmFile'[CallOf(u).paths[1]] = fmFile[CallOf(u).paths[1]]
        <5>1. CallOf(u).paths[1] \in FmPaths /\ CallOf(u).paths[1] \in PathsOf(u)
          BY <1>1, <4>1, FmWritesOne
        <5>2. p # CallOf(u).paths[1]
          BY <3>1, <3>3, <4>1, <5>1, FmCommitIsAlone
        <5> QED
          BY <1>1, <3>2, <5>1, <5>2 DEF Change, FmFileShape
      <4> QED
        BY <3>1, <3>2, <3>5, <4>1, FmOriginalStays DEF FmOriginals
    <3>7. FmOriginalOf(t)'
      <4>1. FmOriginalLogged(t) => FmOriginalLogged(t)'
        <5> SUFFICES ASSUME FmOriginalLogged(t), NEW i \in 1 .. Len(fmLog[t]), FmFirst(fmLog[t], i)
                     PROVE  fmLog[t][i].before = fmOriginal'[t][fmLog[t][i].path]
          BY <3>1 DEF FmOriginalLogged
        <5>1. fmLog[t][i].path \in FmPaths /\ (FmUnlogged(t, p) => fmLog[t][i].path # p)
          <6>1. fmLog[t] \in Seq(FmMutations)
            BY <1>1 DEF FmLogShape
          <6>2. fmLog[t][i] \in FmMutations
            BY <6>1
          <6> QED
            BY <6>2 DEF FmMutations, FmUnlogged
        <5> QED
          BY <3>5, <5>1 DEF FmOriginalLogged
      <4>2. CASE CallOf(t).tool = "write"
        <5>1. CallOf(t).todo = {p} /\ CallOf(t).paths[1] = p
          BY <2>2, <3>1, <3>2, <4>2 DEF FmCallHas, FmWorking
        <5>2. FmOriginalThere(t) => FmOriginalThere(t)' /\ FmOriginalKept(t)'
          BY <3>1, <3>2, <3>5, <4>2, <5>1 DEF FmOriginalThere, FmOriginalKept, FmUnlogged
        <5> QED
          BY <2>2, <3>1, <4>1, <5>2 DEF FmOriginalOf
      <4>3. CASE CallOf(t).tool # "write"
        <5>1. CallOf(t)'.tool # "write"
          BY <3>2, <4>3
        <5> QED
          BY <2>2, <3>1, <4>1, <5>1 DEF FmOriginalOf, FmOriginalThere, FmOriginalKept
      <4> QED
        BY <4>2, <4>3
    <3> QED
      BY <3>5, <3>6, <3>7 DEF FmOriginals
  <2>7. CASE CommitFails(t) \/ EndFails(t)
    <3>1. fmLog' = fmLog /\ fmOriginal' = fmOriginal /\ fmTouched' = fmTouched /\ fmFile' = fmFile
      BY <2>7 DEF CommitFails, EndFails, fmHistory
    <3>2. CallOf(t)'.tool = "none" /\ FmOthersSame(t)
      BY <1>1, <2>7, FmEnds
    <3>3. FmOriginalOf(t)'
      BY <2>2, <3>1, <3>2, FmOriginalAway
    <3> QED
      BY <2>1, <3>1, <3>2, <3>3
  <2>8. CASE EndCall(t)
    <3>1. fmOriginal' = fmOriginal /\ fmTouched' = fmTouched /\ fmFile' = fmFile
      BY <2>8 DEF EndCall
    <3>2. CallOf(t)'.tool = "none" /\ FmOthersSame(t)
      BY <1>1, <2>8, FmEnds
    <3>3. CASE CallOf(t).tool # "write"
      <4>1. fmLog' = fmLog
        BY <2>8, <3>3 DEF EndCall
      <4>2. FmOriginalOf(t)'
        BY <2>2, <3>1, <3>2, <4>1, FmOriginalAway
      <4> QED
        BY <2>1, <3>1, <3>2, <4>1, <4>2
    <3>4. CASE CallOf(t).tool = "write"
      <4>1. PICK entry : /\ entry.path = CallOf(t).paths[1] /\ entry.before = CallOf(t).before
                         /\ fmLog' = [fmLog EXCEPT ![t] = Append(@, entry)]
        <5> DEFINE entry == [path |-> CallOf(t).paths[1], before |-> CallOf(t).before,
                             after |-> ContentOf(t)]
        <5>1. entry.path = CallOf(t).paths[1] /\ entry.before = CallOf(t).before
          OBVIOUS
        <5>2. fmLog' = [fmLog EXCEPT ![t] = Append(@, entry)]
          BY <2>8, <3>4 DEF EndCall
        <5> HIDE DEF entry
        <5> QED
          BY <5>1, <5>2
      <4>2. PICK log : log = fmLog[t] /\ log \in Seq(FmMutations)
        BY <1>1 DEF FmLogShape
      <4>3. fmLog'[t] = Append(log, entry) /\ \A u \in FmTurns \ {t} : fmLog'[u] = fmLog[u]
        BY <1>1, <4>1, <4>2 DEF FmLogShape
      <4>4. /\ Len(fmLog'[t]) = Len(log) + 1 /\ fmLog'[t][Len(log) + 1] = entry
            /\ \A i \in 1 .. Len(log) : fmLog'[t][i] = log[i]
        BY <4>2, <4>3
      <4>5. FmOriginalOf(t)'
        <5> SUFFICES ASSUME t \notin fmTouched, NEW i \in 1 .. Len(log) + 1, FmFirst(fmLog'[t], i)
                     PROVE  fmLog'[t][i].before = fmOriginal[t][fmLog'[t][i].path]
          BY <3>1, <3>2, <4>4 DEF FmOriginalOf, FmOriginalLogged, FmOriginalThere, FmOriginalKept
        <5>1. FmOriginalLogged(t) /\ FmOriginalKept(t) /\ Len(log) \in Nat
          BY <2>2, <4>2 DEF FmOriginalOf
        <5>2. CASE i \in 1 .. Len(log)
          <6>1. FmFirst(log, i)
            <7>1. \A j \in 1 .. i - 1 : j \in 1 .. Len(log)
              BY <5>1, <5>2
            <7> QED
              BY <4>4, <5>2, <7>1 DEF FmFirst
          <6> QED
            BY <4>2, <4>4, <5>1, <5>2, <6>1 DEF FmOriginalLogged
        <5>3. CASE i = Len(log) + 1
          <6>1. FmUnlogged(t, CallOf(t).paths[1])
            BY <4>1, <4>2, <4>4, <5>1, <5>3 DEF FmFirst, FmUnlogged
          <6>2. CallOf(t).pc = "end"
            BY <2>8 DEF EndCall
          <6> QED
            BY <3>4, <4>1, <4>4, <5>1, <5>3, <6>1, <6>2 DEF FmOriginalKept
        <5> QED
          BY <5>1, <5>2, <5>3
      <4> QED
        BY <2>1, <3>1, <3>2, <4>3, <4>5
    <3> QED
      BY <3>3, <3>4
  <2>9. CASE FinishTurn(t)
    <3>1. fmLog' = fmLog /\ fmOriginal' = fmOriginal /\ fmTouched' = fmTouched /\ fmFile' = fmFile
      BY <2>9 DEF FinishTurn, fmHistory
    <3>2. CallOf(t)'.pc = "idle" /\ FmOthersSame(t)
      BY <1>1, <2>9, FmFinishes
    <3>3. FmOriginalOf(t)'
      BY <2>2, <3>1, <3>2, FmOriginalAway
    <3> QED
      BY <2>1, <3>1, <3>2, <3>3
  <2> QED
    BY <1>3, <2>3, <2>4, <2>5, <2>6, <2>7, <2>8, <2>9 DEF FmTurnStep
<1>4. CASE FmRest
  <2>1. fmLog' = fmLog /\ fmOriginal' = fmOriginal /\ \A t \in FmTurns : FmSame(t)
    BY <1>1, <1>4, FmRestDoes
  <2>2. CASE fmFile' = fmFile /\ fmTouched' = fmTouched
    BY <1>2, <2>1, <2>2, FmOriginalStays DEF FmOriginals
  <2>3. ASSUME NEW p \in FmPaths, NEW content \in FmContents, ChangeUnlocked(p, content)
        PROVE  FmOriginals'
    <3>1. /\ fmTouched' = fmTouched \cup {t \in FmTurns : fmLock[p] = t /\ CallOf(t).tool = "write"}
          /\ \A q \in FmPaths \ {p} : fmFile'[q] = fmFile[q]
      BY <1>1, <2>3 DEF ChangeUnlocked, Change, FmFileShape
    <3>2. ASSUME NEW t \in FmTurns PROVE FmOriginalOf(t)'
      <4>1. ASSUME CallOf(t).tool = "write", CallOf(t).pc = "commit", t \notin fmTouched'
            PROVE  fmFile'[CallOf(t).paths[1]] = fmFile[CallOf(t).paths[1]]
        <5>1. CallOf(t).paths[1] \in FmPaths /\ CallOf(t).paths[1] \in PathsOf(t)
          BY <1>1, <4>1, FmWritesOne
        <5>2. fmLock[CallOf(t).paths[1]] = t
          BY <4>1, <5>1 DEF FmCallsHave, FmCallHas, Held
        <5> QED
          BY <3>1, <4>1, <5>1, <5>2
      <4> QED
        BY <2>1, <3>1, <4>1, FmOriginalStays DEF FmOriginals
    <3> QED
      BY <1>2, <2>1, <3>2 DEF FmOriginals
  <2> QED
    BY <1>1, <1>4, <2>2, <2>3, FmRestDoes
<1> QED
  BY <1>3, <1>4, FmNextSteps

------------------------------------------------------------------------------
(* A restore in progress has taken back the turn's last writes, and has the       *)
(* others before it.                                                              *)

FmTakenBack(log, k, p) ==
    \E j \in k + 1 .. Len(log) :
        /\ log[j].path = p /\ log[j].before = fmFile[p]
        /\ \A m \in k + 1 .. j - 1 : log[m].path # p
FmRestoringOf(t) ==
    LET log == fmLog[t]
        k == Len(fmRestore.todo)
    IN /\ fmTurn[t].status = "ended"
       /\ k <= Len(log) /\ \A i \in 1 .. k : fmRestore.todo[i] = log[k - i + 1]
       /\ \A p \in fmRestore.undone : FmTakenBack(log, k, p)
FmRestoring == fmRestore.turn # 0 => FmRestoringOf(fmRestore.turn)

(* A turn that has ended makes no step.                                           *)
LEMMA FmEndedRests ==
    ASSUME FmCallsHave, NEW t \in FmTurns, FmTurnStep(t)
    PROVE  fmTurn[t].status # "ended"
<1>1. CallOf(t).pc # "idle" \/ fmTurn[t].status = "running"
  BY DEF FmTurnStep, StartWrite, PlanPatch, FmCall, ReadFile, FmIdle, Lock, Waits, CaptureBefore,
         CommitFile, CommitFails, EndCall, EndFails, FinishTurn
<1> QED
  BY <1>1, SMTT(60) DEF FmCallsHave, FmCallHas

(* Steps that leave the log of the turn and the files it has taken back.          *)
LEMMA FmRestoringStays ==
    ASSUME FmRestoring, FmShape, fmRestore'.turn = fmRestore.turn, fmRestore'.todo = fmRestore.todo,
           fmRestore'.undone \subseteq fmRestore.undone,
           fmRestore.turn # 0 => /\ fmLog'[fmRestore.turn] = fmLog[fmRestore.turn]
                                 /\ fmTurn'[fmRestore.turn].status = fmTurn[fmRestore.turn].status,
           \A p \in fmRestore'.undone : fmFile'[p] = fmFile[p]
    PROVE  FmRestoring'
<1> SUFFICES ASSUME fmRestore.turn # 0 PROVE FmRestoringOf(fmRestore.turn)'
  BY DEF FmRestoring
<1>1. PICK t : t = fmRestore.turn
  OBVIOUS
<1>2. /\ FmRestoringOf(t) /\ fmLog'[t] = fmLog[t] /\ fmTurn'[t].status = fmTurn[t].status
  BY <1>1 DEF FmRestoring
<1>3. \A p \in fmRestore'.undone :
         FmTakenBack(fmLog[t], Len(fmRestore.todo), p) => FmTakenBack(fmLog[t], Len(fmRestore.todo), p)'
  BY <1>2 DEF FmTakenBack
<1>4. FmRestoringOf(t)'
  BY <1>2, <1>3 DEF FmRestoringOf
<1> QED
  BY <1>1, <1>4

LEMMA FmRestoringStep ==
    FmInv /\ FmBoundShape /\ FmCallsHave /\ FmRestoring /\ [FmNext]_fmVars => FmRestoring'
<1> SUFFICES ASSUME FmInv, FmBoundShape, FmCallsHave, FmRestoring, [FmNext]_fmVars PROVE FmRestoring'
  OBVIOUS
<1>1. FmShape /\ FmTurnShape /\ FmFileShape /\ FmLogShape /\ FmRestoreShape
  BY DEF FmInv, FmShape
<1>2. ASSUME NEW t \in FmTurns, FmTurnStep(t) PROVE FmRestoring'
  <2>1. fmRestore.turn # t
    BY <1>2, FmEndedRests, FmAssumption DEF FmRestoring, FmRestoringOf
  <2>2. fmRestore.turn # 0 => fmRestore.turn \in FmTurns \ {t}
    BY <1>1, <2>1 DEF FmRestoreShape
  <2>3. ASSUME FmOthersSame(t), fmRestore' = fmRestore, fmFile' = fmFile,
               \A u \in FmTurns \ {t} : fmLog'[u] = fmLog[u]
        PROVE  FmRestoring'
    BY <1>1, <2>2, <2>3, FmRestoringStays DEF FmOthersSame, FmSame
  <2>4. CASE (\E p \in FmPaths : StartWrite(t, p)) \/ \E patch \in FmPatches : PlanPatch(t, patch)
    <3>1. FmOthersSame(t)
      BY <1>1, <2>4, FmWrites, FmPlans
    <3>2. fmRestore' = fmRestore /\ fmFile' = fmFile /\ fmLog' = fmLog
      BY <2>4 DEF StartWrite, PlanPatch, FmCall
    <3> QED
      BY <2>3, <3>1, <3>2
  <2>5. CASE (\E p \in FmPaths, window \in FmWindows : ReadFile(t, p, window)) \/ Lock(t)
    <3>1. fmRestore' = fmRestore /\ fmFile' = fmFile /\ fmLog' = fmLog /\ fmTurn' = fmTurn
      BY <2>5 DEF ReadFile, Lock
    <3>2. FmOthersSame(t)
      BY <1>1, <3>1, FmSameKept DEF FmOthersSame
    <3> QED
      BY <2>3, <3>1, <3>2
  <2>6. CASE CaptureBefore(t)
    <3>1. FmOthersSame(t)
      BY <1>1, <2>6, FmCaptures
    <3>2. fmRestore' = fmRestore /\ fmFile' = fmFile /\ fmLog' = fmLog
      BY <2>6 DEF CaptureBefore
    <3> QED
      BY <2>3, <3>1, <3>2
  <2>7. CASE CommitFile(t)
    <3>1. CallOf(t).pc = "commit" /\ fmLog' = fmLog
      BY <2>7 DEF CommitFile
    <3>2. PICK p, content :
             /\ p \in CallOf(t).todo
             /\ Change(p, content)
             /\ \A u \in FmTurns \ {t} : FmSame(u)
             /\ fmRestore' = [fmRestore EXCEPT !.undone = @ \ {p}]
      BY <1>1, <2>7, <3>1, FmCommits DEF FmCallsHave, FmCallHas, FmWorking
    <3>3. /\ fmRestore'.turn = fmRestore.turn /\ fmRestore'.todo = fmRestore.todo
          /\ fmRestore'.undone = fmRestore.undone \ {p} /\ fmRestore.undone \subseteq FmPaths
      BY <1>1, <3>2 DEF FmRestoreShape
    <3>4. \A q \in FmPaths \ {p} : fmFile'[q] = fmFile[q]
      BY <1>1, <3>2 DEF Change, FmFileShape
    <3> QED
      BY <1>1, <2>2, <3>1, <3>2, <3>3, <3>4, FmRestoringStays, SMTT(60) DEF FmSame
  <2>8. CASE CommitFails(t) \/ EndFails(t)
    <3>1. FmOthersSame(t)
      BY <1>1, <2>8, FmEnds
    <3>2. fmRestore' = fmRestore /\ fmFile' = fmFile /\ fmLog' = fmLog
      BY <2>8 DEF CommitFails, EndFails
    <3> QED
      BY <2>3, <3>1, <3>2
  <2>9. CASE EndCall(t)
    <3>1. FmOthersSame(t)
      BY <1>1, <2>9, FmEnds
    <3>2. fmRestore' = fmRestore /\ fmFile' = fmFile
      BY <2>9 DEF EndCall
    <3>3. \A u \in FmTurns \ {t} : fmLog'[u] = fmLog[u]
      <4>1. CASE CallOf(t).tool # "write"
        BY <2>9, <4>1 DEF EndCall
      <4>2. CASE CallOf(t).tool = "write"
        <5>1. PICK entry : fmLog' = [fmLog EXCEPT ![t] = Append(@, entry)]
          BY <2>9, <4>2 DEF EndCall
        <5> QED
          BY <1>1, <5>1 DEF FmLogShape
      <4> QED
        BY <4>1, <4>2
    <3> QED
      BY <2>3, <3>1, <3>2, <3>3
  <2>10. CASE FinishTurn(t)
    <3>1. FmOthersSame(t)
      BY <1>1, <2>10, FmFinishes
    <3>2. fmRestore' = fmRestore /\ fmFile' = fmFile /\ fmLog' = fmLog
      BY <2>10 DEF FinishTurn
    <3> QED
      BY <2>3, <3>1, <3>2
  <2> QED
    BY <1>2, <2>4, <2>5, <2>6, <2>7, <2>8, <2>9, <2>10 DEF FmTurnStep
<1>3. ASSUME NEW t \in FmTurns, StartRestore(t) PROVE FmRestoring'
  <2>1. PICK log : log = fmLog[t] /\ log \in Seq(FmMutations)
    BY <1>1 DEF FmLogShape
  <2>2. /\ fmRestore'.turn = t /\ fmRestore'.todo = Reverse(log) /\ fmRestore'.undone = {}
        /\ fmTurn' = fmTurn /\ fmLog' = fmLog /\ fmTurn[t].status = "ended"
    BY <1>3, <2>1 DEF StartRestore, RestoreSteps
  <2>3. Len(Reverse(log)) = Len(log) /\ \A i \in 1 .. Len(log) : Reverse(log)[i] = log[Len(log) - i + 1]
    BY <2>1 DEF Reverse
  <2>4. Len(log) \in Nat
    BY <2>1
  <2>5. FmRestoringOf(t)'
    BY <2>1, <2>2, <2>3, <2>4 DEF FmRestoringOf
  <2> QED
    BY <2>2, <2>5 DEF FmRestoring
<1>4. CASE ApplyRestoreStep
  <2> SUFFICES ASSUME fmRestore.turn # 0 PROVE FmRestoringOf(fmRestore.turn)'
    BY <1>1, <1>4 DEF ApplyRestoreStep, FmRestoreShape, FmRestoring
  <2>1. PICK t \in FmTurns : t = fmRestore.turn
    BY <1>1 DEF FmRestoreShape
  <2>2. PICK log : log = fmLog[t] /\ log \in Seq(FmMutations)
    BY <1>1 DEF FmLogShape
  <2>3. PICK todo : todo = fmRestore.todo /\ todo \in Seq(FmMutations) /\ todo # <<>>
    BY <1>1, <1>4 DEF ApplyRestoreStep, FmRestoreShape
  <2>4. PICK k \in Nat : k = Len(todo) /\ k > 0
    BY <2>3
  <2>5. /\ fmTurn[t].status = "ended" /\ k <= Len(log) /\ (\A i \in 1 .. k : todo[i] = log[k - i + 1])
        /\ \A p \in fmRestore.undone : FmTakenBack(log, k, p)
    BY <2>1, <2>2, <2>3, <2>4 DEF FmRestoring, FmRestoringOf
  <2>6. PICK p \in FmPaths, before \in FmContents : p = Head(todo).path /\ before = Head(todo).before
    <3>1. Head(todo) \in FmMutations
      BY <2>3
    <3> QED
      BY <3>1 DEF FmMutations
  <2>7. log[k].path = p /\ log[k].before = before
    BY <2>3, <2>4, <2>5, <2>6
  <2>8. /\ ChangeUnlocked(p, before) /\ fmRestore' = [fmRestore EXCEPT !.todo = Tail(todo), !.undone = @ \cup {p}]
        /\ fmLog' = fmLog
    BY <1>4, <2>3, <2>6 DEF ApplyRestoreStep
  <2>9. fmFile'[p] = before /\ \A q \in FmPaths \ {p} : fmFile'[q] = fmFile[q]
    BY <1>1, <2>8 DEF ChangeUnlocked, Change, FmFileShape
  <2>10. /\ fmRestore'.turn = t /\ fmRestore'.todo = Tail(todo) /\ fmRestore'.undone = fmRestore.undone \cup {p}
         /\ fmRestore.undone \subseteq FmPaths
    BY <1>1, <2>1, <2>8 DEF FmRestoreShape
  <2>11. Len(Tail(todo)) = k - 1 /\ \A i \in 1 .. k - 1 : Tail(todo)[i] = todo[i + 1]
    BY <2>3, <2>4
  <2>12. \A i \in 1 .. k - 1 : Tail(todo)[i] = log[(k - 1) - i + 1]
    <3> SUFFICES ASSUME NEW i \in 1 .. k - 1 PROVE Tail(todo)[i] = log[(k - 1) - i + 1]
      OBVIOUS
    <3>1. i + 1 \in 1 .. k /\ k - (i + 1) + 1 = (k - 1) - i + 1
      BY <2>4
    <3> QED
      BY <2>5, <2>11, <3>1
  <2>13. Len(log) \in Nat
    BY <2>2
  <2>14. ASSUME NEW q \in fmRestore.undone \cup {p}
         PROVE  \E j \in (k - 1) + 1 .. Len(log) :
                   /\ log[j].path = q /\ log[j].before = fmFile'[q]
                   /\ \A m \in (k - 1) + 1 .. j - 1 : log[m].path # q
    <3>1. CASE q = p
      <4>1. k \in (k - 1) + 1 .. Len(log) /\ (k - 1) + 1 .. k - 1 = {}
        BY <2>4, <2>5, <2>13
      <4> QED
        BY <2>7, <2>9, <3>1, <4>1
    <3>2. CASE q # p
      <4>1. PICK j \in k + 1 .. Len(log) :
               /\ log[j].path = q /\ log[j].before = fmFile[q]
               /\ \A m \in k + 1 .. j - 1 : log[m].path # q
        BY <2>5, <3>2 DEF FmTakenBack
      <4>2. j \in (k - 1) + 1 .. Len(log) /\ \A m \in (k - 1) + 1 .. j - 1 : m = k \/ m \in k + 1 .. j - 1
        BY <2>4, <2>13
      <4>3. fmFile'[q] = fmFile[q]
        BY <2>9, <2>10, <3>2
      <4> QED
        BY <2>7, <3>2, <4>1, <4>2, <4>3
    <3> QED
      BY <3>1, <3>2
  <2>15. fmTurn'[t].status = "ended"
    BY <1>1, <1>4, <2>5, FmRestDoes DEF FmRest, FmSame
  <2>16. \A q \in fmRestore'.undone : FmTakenBack(fmLog[t], Len(fmRestore.todo), q)'
    BY <2>2, <2>8, <2>10, <2>11, <2>14 DEF FmTakenBack
  <2>17. FmRestoringOf(t)'
    BY <2>2, <2>4, <2>5, <2>8, <2>10, <2>11, <2>12, <2>13, <2>15, <2>16 DEF FmRestoringOf
  <2> QED
    BY <2>10, <2>17
<1>5. CASE EndRestore
  BY <1>5 DEF EndRestore, NoRestore, FmRestoring
<1>6. ASSUME NEW p \in FmOutside, NEW content \in FmOutsiders, External(p, content) PROVE FmRestoring'
  <2>1. fmLog' = fmLog /\ \A t \in FmTurns : fmTurn'[t].status = fmTurn[t].status
    BY <1>1, <1>6, FmRestDoes DEF FmRest, FmSame
  <2>2. /\ fmRestore'.turn = fmRestore.turn /\ fmRestore'.todo = fmRestore.todo
        /\ fmRestore'.undone = fmRestore.undone \ {p} /\ fmRestore.undone \subseteq FmPaths
    BY <1>1, <1>6 DEF External, FmRestoreShape
  <2>3. \A q \in FmPaths \ {p} : fmFile'[q] = fmFile[q]
    BY <1>1, <1>6 DEF External, ChangeUnlocked, Change, FmFileShape
  <2>4. fmRestore.turn # 0 => fmRestore.turn \in FmTurns
    BY <1>1 DEF FmRestoreShape
  <2> QED
    BY <1>1, <2>1, <2>2, <2>3, <2>4, FmRestoringStays
<1>7. CASE UNCHANGED fmVars
  BY <1>1, <1>7, FmRestoringStays DEF fmVars
<1> QED
  BY <1>2, <1>3, <1>4, <1>5, <1>6, <1>7, FmNextSteps DEF FmRest

(* writeRestoreStep by step (runtime_write_restore.go): a restore that is through *)
(* leaves each file it brought back as it was before the turn's first recorded    *)
(* write to it, for any number of writes, files and other turns.                  *)
THEOREM FmRestoresExactly == FmSpec => []FmRestoreIsExact
<1>1. FmInit => FmBoundShape
  BY DEF FmInit, FmBoundShape
<1>2. FmInit => FmOriginals /\ FmRestoring
  <2> SUFFICES ASSUME FmInit PROVE FmOriginals /\ FmRestoring
    OBVIOUS
  <2>1. FmOriginalShape
    BY FmNoFile DEF FmInit, FmOriginalShape
  <2>2. ASSUME NEW t \in FmTurns PROVE FmOriginalOf(t)
    <3>1. CallOf(t).tool = "none" /\ fmLog[t] = <<>>
      BY DEF FmInit, CallOf, NoChange
    <3> QED
      BY <3>1 DEF FmOriginalOf, FmOriginalLogged, FmOriginalThere, FmOriginalKept
  <2>3. FmRestoring
    BY DEF FmInit, FmRestoring, NoRestore
  <2> QED
    BY <2>1, <2>2, <2>3 DEF FmOriginals
<1>3. FmShape /\ FmOriginals /\ FmRestoring => FmRestoreIsExact
  <2> SUFFICES ASSUME FmShape, FmOriginals, FmRestoring, fmRestore.turn # 0, fmRestore.todo = <<>>,
                      fmRestore.turn \notin fmTouched, NEW p \in fmRestore.undone
               PROVE  fmFile[p] = fmOriginal[fmRestore.turn][p]
    BY DEF FmRestoreIsExact
  <2>1. PICK t \in FmTurns : t = fmRestore.turn
    BY DEF FmShape, FmRestoreShape
  <2>2. FmTakenBack(fmLog[t], 0, p)
    BY <2>1 DEF FmRestoring, FmRestoringOf
  <2>3. PICK j \in 1 .. Len(fmLog[t]) : /\ fmLog[t][j].path = p /\ fmLog[t][j].before = fmFile[p]
                                        /\ \A m \in 1 .. j - 1 : fmLog[t][m].path # p
    BY <2>2 DEF FmTakenBack
  <2>4. FmOriginalLogged(t)
    BY <2>1 DEF FmOriginals, FmOriginalOf
  <2> QED
    BY <2>1, <2>3, <2>4 DEF FmOriginalLogged, FmFirst
<1>4. FmInv => FmShape
  BY DEF FmInv
<1> QED
  BY <1>1, <1>2, <1>3, <1>4, FmInvInit, FmInvStep, FmBoundStep, FmCallsHaveInit, FmCallsHaveStep,
     FmOriginalsStep, FmRestoringStep, PTL DEF FmSpec

------------------------------------------------------------------------------
(* A patch at its commit has given its content to the files it is done with, save *)
(* for what somebody outside changed; its content is new.                         *)

FmAfter(t) == PathsOf(t) \ (CallOf(t).deleted \cup CallOf(t).todo)
FmThrough(content) == \A t \in FmTurns : CallOf(t).pc = "commit" => ContentOf(t) # content

FmContentsAreOld ==
    \A p \in FmPaths, t \in FmTurns : Exists(p) /\ fmFile[p][1] = t => fmFile[p][2] <= fmTurn[t].calls
FmOwnContent(t) == \A p \in FmPaths : FmWorking(t) /\ fmFile[p] = ContentOf(t) => p \in FmAfter(t)
FmDoneFiles(t) ==
    CallOf(t).pc = "commit" /\ CallOf(t).tool = "patch" =>
        \A p \in FmAfter(t) : fmFile[p] = ContentOf(t) \/ ~Exists(p) \/ fmFile[p][3] = {}
FmPairs ==
    \A p, q \in FmPaths :
        /\ Exists(p) /\ Exists(q) /\ {p, q} \subseteq fmFile[p][3] \cap fmFile[q][3]
        /\ FmThrough(fmFile[p]) /\ FmThrough(fmFile[q])
        => fmFile[p] = fmFile[q]
FmWhole ==
    FmContentsAreOld /\ (\A t \in FmTurns : FmOwnContent(t) /\ FmDoneFiles(t)) /\ FmPairs

LEMMA FmContentParts ==
    ASSUME NEW t
    PROVE  /\ ContentOf(t)[1] = t /\ ContentOf(t)[2] = fmTurn[t].calls /\ ContentOf(t) # NoFile
           /\ ContentOf(t)[3] = IF CallOf(t).tool = "patch" THEN PathsOf(t) \ CallOf(t).deleted ELSE {}
<1>1. \A a, b, c : <<a, b, c>> # <<>>
  OBVIOUS
<1> QED
  BY <1>1 DEF ContentOf, NoFile

LEMMA FmAfterSame ==
    ASSUME NEW t \in FmTurns, FmSame(t)
    PROVE  FmAfter(t)' = FmAfter(t) /\ FmWorking(t)' = FmWorking(t)
  BY FmSameMeans DEF FmSame, FmAfter, FmWorking

LEMMA FmPartsStay ==
    ASSUME NEW t \in FmTurns, FmSame(t), fmFile' = fmFile
    PROVE  (FmOwnContent(t) => FmOwnContent(t)') /\ (FmDoneFiles(t) => FmDoneFiles(t)')
  BY FmSameMeans, FmAfterSame DEF FmOwnContent, FmDoneFiles, FmSame, FmWorking, Exists

LEMMA FmOldStays ==
    ASSUME FmContentsAreOld, FmFileShape, FmTurnShape, FmTurnShape', fmFile' = fmFile,
           \A t \in FmTurns : fmTurn[t].calls <= fmTurn'[t].calls
    PROVE  FmContentsAreOld'
<1> SUFFICES ASSUME NEW p \in FmPaths, NEW t \in FmTurns, Exists(p), fmFile[p][1] = t
             PROVE  fmFile[p][2] <= fmTurn'[t].calls
  BY DEF FmContentsAreOld, Exists
<1>1. fmFile[p][2] \in Nat
  BY DEF FmFileShape, FmContents, Exists
<1>2. fmTurn[t].calls \in Nat /\ fmTurn'[t].calls \in Nat
  BY DEF FmTurnShape, FmTurnRecords
<1>3. fmFile[p][2] <= fmTurn[t].calls /\ fmTurn[t].calls <= fmTurn'[t].calls
  BY DEF FmContentsAreOld
<1> QED
  BY <1>1, <1>2, <1>3

(* Nothing is through that was not before, or it is no content of any file.       *)
LEMMA FmPairsStay ==
    ASSUME FmPairs, fmFile' = fmFile,
           \A t \in FmTurns : CallOf(t).pc = "commit" =>
               \/ CallOf(t)'.pc = "commit" /\ ContentOf(t)' = ContentOf(t)
               \/ \A p \in FmPaths : fmFile[p] # ContentOf(t)
    PROVE  FmPairs'
<1>1. \A p \in FmPaths : FmThrough(fmFile[p])' => FmThrough(fmFile[p])
  BY DEF FmThrough
<1> QED
  BY <1>1 DEF FmPairs, Exists

(* Between calls and at their ends; the content of a new call is in no file yet.  *)
LEMMA FmNotCommitting ==
    ASSUME FmWhole, FmFileShape, FmTurnShape, FmTurnShape', NEW t \in FmTurns, FmOthersSame(t),
           fmFile' = fmFile, fmTurn[t].calls <= fmTurn'[t].calls, CallOf(t)'.pc # "commit",
           CallOf(t).pc = "commit" => \A p \in FmPaths : fmFile[p] # ContentOf(t),
           FmOwnContent(t)'
    PROVE  FmWhole'
<1>1. \A u \in FmTurns : fmTurn[u].calls <= fmTurn'[u].calls
  <2>1. \A u \in FmTurns : fmTurn[u].calls \in Nat
    BY DEF FmTurnShape, FmTurnRecords
  <2> QED
    BY <2>1 DEF FmOthersSame, FmSame
<1>2. FmContentsAreOld'
  BY <1>1, FmOldStays DEF FmWhole
<1>3. \A u \in FmTurns \ {t} : FmOwnContent(u)' /\ FmDoneFiles(u)'
  BY FmPartsStay DEF FmWhole, FmOthersSame
<1>4. FmDoneFiles(t)'
  BY DEF FmDoneFiles
<1>5. FmPairs'
  BY FmPairsStay, FmSameMeans DEF FmWhole, FmOthersSame, FmSame
<1> QED
  BY <1>2, <1>3, <1>4, <1>5 DEF FmWhole

LEMMA FmCommitKeepsWhole ==
    ASSUME FmShape, FmCallsHave, FmWhole, NEW t \in FmTurns, CommitFile(t)
    PROVE  FmWhole'
<1>1. /\ FmTurnShape /\ FmFileShape /\ FmContentsAreOld /\ FmPairs
      /\ \A u \in FmTurns : FmOwnContent(u) /\ FmDoneFiles(u)
  BY DEF FmShape, FmWhole
<1>2. CallOf(t).pc = "commit" /\ FmWorking(t) /\ CallOf(t).todo \subseteq PathsOf(t)
      /\ CallOf(t).tool \in {"write", "patch"}
  BY DEF CommitFile, FmWorking, FmCallsHave, FmCallHas
<1>3. PICK p \in CallOf(t).todo :
         /\ Change(p, IF p \in CallOf(t).deleted THEN NoFile ELSE ContentOf(t))
         /\ \A u \in FmTurns \ {t} : FmSame(u)
         /\ fmTurn'[t].calls = fmTurn[t].calls
         /\ CallOf(t).todo # {p} =>
               /\ CallOf(t)'.pc = "commit" /\ CallOf(t)'.tool = CallOf(t).tool
               /\ CallOf(t)'.paths = CallOf(t).paths /\ CallOf(t)'.deleted = CallOf(t).deleted
               /\ CallOf(t)'.todo = CallOf(t).todo \ {p}
         /\ CallOf(t).todo = {p} => CallOf(t)'.pc = "end"
  BY <1>2, FmCommits DEF FmCallsHave, FmCallHas
<1>4. PICK C, S, D, P : C = ContentOf(t) /\ S = CallOf(t).todo /\ D = CallOf(t).deleted /\ P = PathsOf(t)
  OBVIOUS
<1>5. /\ C[1] = t /\ C[2] = fmTurn[t].calls /\ C # NoFile
      /\ C[3] = IF CallOf(t).tool = "patch" THEN P \ D ELSE {}
  BY <1>4, FmContentParts
<1>6. p \in FmPaths /\ p \in S /\ p \in P /\ S \subseteq P /\ FmAfter(t) = P \ (D \cup S)
  BY <1>1, <1>2, <1>4, FmPathsInPaths DEF FmAfter
<1>7. /\ fmFile'[p] = IF p \in D THEN NoFile ELSE C
      /\ \A q \in FmPaths \ {p} : fmFile'[q] = fmFile[q]
  BY <1>1, <1>3, <1>4, <1>6 DEF Change, FmFileShape
<1>8. \A u \in FmTurns \ {t} : CallOf(u)'.pc = CallOf(u).pc /\ ContentOf(u)' = ContentOf(u)
  BY <1>3, FmSameMeans DEF FmSame
<1>9. S # {p} => /\ CallOf(t)'.pc = "commit" /\ ContentOf(t)' = C
                 /\ FmAfter(t)' = P \ (D \cup (S \ {p}))
  <2>1. S # {p} => PathsOf(t)' = P
    BY <1>3, <1>4 DEF PathsOf, ListedBy
  <2> QED
    BY <1>3, <1>4, <2>1 DEF ContentOf, FmAfter
<1>10. S = {p} => CallOf(t)'.pc = "end"
  BY <1>3, <1>4
<1>11. FmContentsAreOld'
  <2> SUFFICES ASSUME NEW q \in FmPaths, NEW u \in FmTurns, fmFile'[q] # NoFile, fmFile'[q][1] = u
               PROVE  fmFile'[q][2] <= fmTurn'[u].calls
    BY DEF FmContentsAreOld, Exists
  <2>1. fmTurn'[u].calls = fmTurn[u].calls /\ fmTurn[u].calls \in Nat
    BY <1>1, <1>3 DEF FmSame, FmTurnShape, FmTurnRecords
  <2>2. CASE q = p
    BY <1>5, <1>7, <2>1, <2>2
  <2>3. CASE q # p
    BY <1>1, <1>7, <2>1, <2>3 DEF FmContentsAreOld, Exists
  <2> QED
    BY <2>2, <2>3
<1>12. ASSUME NEW u \in FmTurns \ {t} PROVE FmOwnContent(u)' /\ FmDoneFiles(u)'
  <2>1. FmAfter(u)' = FmAfter(u) /\ FmWorking(u)' = FmWorking(u) /\ FmSame(u)
    BY <1>3, FmAfterSame
  <2>2. FmOwnContent(u) /\ FmDoneFiles(u)
    BY <1>1
  <2>3. ContentOf(u)[1] = u /\ ContentOf(u) # NoFile
    BY FmContentParts
  <2>4. FmOwnContent(u)'
    BY <1>5, <1>7, <1>8, <2>1, <2>2, <2>3 DEF FmOwnContent
  <2>5. CallOf(u).pc = "commit" => p \notin FmAfter(u)
    BY <1>2, <1>4, <1>6, FmCommitIsAlone DEF FmAfter
  <2>6. FmAfter(u) \subseteq FmPaths
    BY <1>1, FmPathsInPaths DEF FmAfter
  <2>7. FmDoneFiles(u)'
    BY <1>7, <1>8, <2>1, <2>2, <2>5, <2>6 DEF FmDoneFiles, FmSame, Exists
  <2> QED
    BY <2>4, <2>7
<1>13. FmOwnContent(t)'
  <2>1. CASE S = {p}
    BY <1>10, <2>1 DEF FmOwnContent, FmWorking
  <2>2. CASE S # {p}
    BY <1>1, <1>2, <1>4, <1>5, <1>6, <1>7, <1>9, <2>2 DEF FmOwnContent
  <2> QED
    BY <2>1, <2>2
<1>14. FmDoneFiles(t)'
  <2>1. CASE S = {p}
    BY <1>10, <2>1 DEF FmDoneFiles
  <2>2. CASE S # {p}
    <3> SUFFICES ASSUME CallOf(t).tool = "patch", NEW q \in P \ (D \cup (S \ {p}))
                 PROVE  fmFile'[q] = C \/ fmFile'[q] = NoFile \/ fmFile'[q][3] = {}
      BY <1>3, <1>4, <1>9, <2>2 DEF FmDoneFiles, Exists
    <3>1. CASE q = p
      BY <1>7, <3>1
    <3>2. CASE q # p
      <4>1. q \in FmAfter(t) /\ q \in FmPaths
        BY <1>1, <1>4, <1>6, <3>2, FmPathsInPaths
      <4> QED
        BY <1>1, <1>2, <1>4, <1>7, <3>2, <4>1 DEF FmDoneFiles, Exists
    <3> QED
      BY <3>1, <3>2
  <2> QED
    BY <2>1, <2>2
<1>15. FmPairs'
  <2> SUFFICES ASSUME NEW q \in FmPaths, NEW r \in FmPaths, fmFile'[q] # NoFile, fmFile'[r] # NoFile,
                      {q, r} \subseteq fmFile'[q][3] \cap fmFile'[r][3],
                      \A u \in FmTurns : CallOf(u)'.pc = "commit" =>
                          ContentOf(u)' # fmFile'[q] /\ ContentOf(u)' # fmFile'[r]
               PROVE  fmFile'[q] = fmFile'[r]
    BY DEF FmPairs, FmThrough, Exists
  <2>1. CASE fmFile'[q] # C /\ fmFile'[r] # C
    <3>1. q # p /\ r # p
      BY <1>7, <2>1
    <3>2. fmFile'[q] = fmFile[q] /\ fmFile'[r] = fmFile[r]
      BY <1>7, <3>1
    <3>3. \A u \in FmTurns : CallOf(u).pc = "commit" =>
                          ContentOf(u) # fmFile[q] /\ ContentOf(u) # fmFile[r]
      BY <1>4, <1>8, <2>1, <3>2
    <3> QED
      BY <1>1, <3>2, <3>3 DEF FmPairs, FmThrough, Exists
  <2>2. ASSUME NEW a \in FmPaths, NEW b \in FmPaths, fmFile'[a] = C, fmFile'[b] # C, fmFile'[b] # NoFile,
               {a, b} \subseteq fmFile'[a][3] \cap fmFile'[b][3],
               CallOf(t)'.pc = "commit" => ContentOf(t)' # C
        PROVE  FALSE
    <3>1. S = {p}
      BY <1>9, <2>2
    <3>2. CallOf(t).tool = "patch" /\ b \in P \ D
      BY <1>5, <2>2
    <3>3. b # p
      BY <1>7, <2>2, <3>2
    <3>4. b \in FmAfter(t) /\ fmFile'[b] = fmFile[b]
      BY <1>6, <1>7, <3>1, <3>2, <3>3
    <3>5. fmFile[b] = C \/ fmFile[b] = NoFile \/ fmFile[b][3] = {}
      BY <1>1, <1>2, <1>4, <3>2, <3>4 DEF FmDoneFiles, Exists
    <3> QED
      BY <2>2, <3>4, <3>5
  <2> QED
    BY <2>1, <2>2
<1> QED
  BY <1>11, <1>12, <1>13, <1>14, <1>15 DEF FmWhole

LEMMA FmRestKeepsWhole ==
    ASSUME FmShape, FmShape', FmWhole, FmRest, ~fmTorn'
    PROVE  FmWhole'
<1>1. /\ FmTurnShape /\ FmFileShape /\ FmTurnShape' /\ FmContentsAreOld /\ FmPairs
      /\ \A t \in FmTurns : FmOwnContent(t) /\ FmDoneFiles(t)
  BY DEF FmShape, FmWhole
<1>2. \A t \in FmTurns : /\ FmSame(t) /\ CallOf(t)'.pc = CallOf(t).pc /\ ContentOf(t)' = ContentOf(t)
                         /\ CallOf(t)'.tool = CallOf(t).tool
                         /\ FmAfter(t)' = FmAfter(t) /\ FmWorking(t)' = FmWorking(t)
                         /\ fmTurn'[t].calls = fmTurn[t].calls
  BY FmRestDoes, FmSameMeans, FmAfterSame DEF FmSame
<1>3. CASE fmFile' = fmFile
  <2>1. \A t \in FmTurns : fmTurn[t].calls <= fmTurn'[t].calls
    BY <1>1, <1>2 DEF FmTurnShape, FmTurnRecords
  <2>2. FmContentsAreOld'
    BY <1>1, <1>3, <2>1, FmOldStays
  <2>3. \A t \in FmTurns : FmOwnContent(t)' /\ FmDoneFiles(t)'
    BY <1>1, <1>2, <1>3, FmPartsStay
  <2>4. FmPairs'
    BY <1>1, <1>2, <1>3, FmPairsStay
  <2> QED
    BY <2>2, <2>3, <2>4 DEF FmWhole
<1>4. CASE fmFile' # fmFile
  <2>1. PICK p \in FmPaths, content \in FmOutsiders : Change(p, content)
    BY <1>4, FmRestDoes DEF ChangeUnlocked
  <2>2. fmFile'[p] = content /\ \A q \in FmPaths \ {p} : fmFile'[q] = fmFile[q]
    BY <1>1, <2>1 DEF Change, FmFileShape
  <2>3. content = NoFile \/ (content[1] = 0 /\ content[3] = {})
    BY DEF FmOutsiders
  <2>4. 0 \notin FmTurns
    BY FmAssumption
  <2>5. FmContentsAreOld'
    <3> SUFFICES ASSUME NEW q \in FmPaths, NEW u \in FmTurns, fmFile'[q] # NoFile, fmFile'[q][1] = u
                 PROVE  fmFile'[q][2] <= fmTurn'[u].calls
      BY DEF FmContentsAreOld, Exists
    <3>1. q # p
      BY <2>2, <2>3, <2>4
    <3> QED
      BY <1>1, <1>2, <2>2, <3>1 DEF FmContentsAreOld, Exists
  <2>6. ASSUME NEW t \in FmTurns PROVE FmOwnContent(t)' /\ FmDoneFiles(t)'
    <3>1. ContentOf(t)[1] = t /\ ContentOf(t) # NoFile
      BY FmContentParts
    <3>2. FmOwnContent(t) /\ FmDoneFiles(t)
      BY <1>1
    <3>3. FmOwnContent(t)'
      BY <1>2, <2>2, <2>3, <2>4, <3>1, <3>2 DEF FmOwnContent
    <3>4. FmAfter(t) \subseteq FmPaths
      BY <1>1, FmPathsInPaths DEF FmAfter
    <3>5. FmDoneFiles(t)'
      BY <1>2, <2>2, <2>3, <3>2, <3>4 DEF FmDoneFiles, Exists
    <3> QED
      BY <3>3, <3>5
  <2>7. FmPairs'
    <3> SUFFICES ASSUME NEW q \in FmPaths, NEW r \in FmPaths, fmFile'[q] # NoFile, fmFile'[r] # NoFile,
                        {q, r} \subseteq fmFile'[q][3] \cap fmFile'[r][3],
                        \A u \in FmTurns : CallOf(u)'.pc = "commit" =>
                            ContentOf(u)' # fmFile'[q] /\ ContentOf(u)' # fmFile'[r]
                 PROVE  fmFile'[q] = fmFile'[r]
      BY DEF FmPairs, FmThrough, Exists
    <3>1. q # p /\ r # p
      BY <2>2, <2>3
    <3>2. fmFile'[q] = fmFile[q] /\ fmFile'[r] = fmFile[r]
      BY <2>2, <3>1
    <3> QED
      BY <1>1, <1>2, <3>2 DEF FmPairs, FmThrough, Exists
  <2> QED
    BY <2>5, <2>6, <2>7 DEF FmWhole
<1> QED
  BY <1>3, <1>4

LEMMA FmTurnKeepsWhole ==
    ASSUME FmShape, FmShape', FmCallsHave, FmWhole, NEW t \in FmTurns, FmTurnStep(t), ~fmTorn'
    PROVE  FmWhole'
<1>1. /\ FmTurnShape /\ FmFileShape /\ FmTurnShape' /\ FmContentsAreOld /\ FmPairs
      /\ \A u \in FmTurns : FmOwnContent(u) /\ FmDoneFiles(u)
  BY DEF FmShape, FmWhole
<1>2. fmTurn[t].calls \in Nat /\ FmCallHas(t)
  BY <1>1 DEF FmTurnShape, FmTurnRecords, FmCallsHave
<1>3. CASE (\E p \in FmPaths : StartWrite(t, p)) \/ \E patch \in FmPatches : PlanPatch(t, patch)
  <2>1. CallOf(t)'.pc = "lock" /\ fmTurn'[t].calls = fmTurn[t].calls + 1 /\ FmOthersSame(t)
    BY <1>1, <1>3, FmWrites, FmPlans
  <2>2. fmFile' = fmFile /\ CallOf(t).pc = "idle"
    BY <1>3 DEF StartWrite, PlanPatch, FmCall, FmIdle
  <2>3. ASSUME NEW p \in FmPaths, fmFile[p] = ContentOf(t)' PROVE FALSE
    <3>1. ContentOf(t)'[1] = t /\ ContentOf(t)'[2] = fmTurn[t].calls + 1 /\ ContentOf(t)' # NoFile
      BY <2>1 DEF ContentOf, NoFile
    <3>2. fmTurn[t].calls + 1 <= fmTurn[t].calls
      BY <1>1, <2>3, <3>1 DEF FmContentsAreOld, Exists
    <3> QED
      BY <1>2, <3>2
  <2>4. FmOwnContent(t)'
    BY <2>2, <2>3 DEF FmOwnContent
  <2>5. fmTurn[t].calls <= fmTurn'[t].calls
    BY <1>2, <2>1
  <2> QED
    BY <1>1, <2>1, <2>2, <2>4, <2>5, FmNotCommitting
<1>4. CASE (\E p \in FmPaths, window \in FmWindows : ReadFile(t, p, window)) \/ Lock(t)
  <2>1. fmTurn' = fmTurn /\ fmFile' = fmFile
    BY <1>4 DEF ReadFile, Lock
  <2>2. \A u \in FmTurns : /\ FmSame(u) /\ CallOf(u)'.pc = CallOf(u).pc /\ ContentOf(u)' = ContentOf(u)
                           /\ fmTurn[u].calls <= fmTurn'[u].calls
    BY <1>1, <2>1, FmSameKept, FmSameMeans DEF FmSame, FmTurnShape, FmTurnRecords
  <2>3. FmContentsAreOld'
    BY <1>1, <2>1, <2>2, FmOldStays
  <2>4. \A u \in FmTurns : FmOwnContent(u)' /\ FmDoneFiles(u)'
    BY <1>1, <2>1, <2>2, FmPartsStay
  <2>5. FmPairs'
    BY <1>1, <2>1, <2>2, FmPairsStay
  <2> QED
    BY <2>3, <2>4, <2>5 DEF FmWhole
<1>5. CASE CaptureBefore(t)
  <2>1. /\ CallOf(t).pc = "lock" /\ CallOf(t)'.pc = "commit" /\ CallOf(t)'.tool = CallOf(t).tool
        /\ CallOf(t)'.paths = CallOf(t).paths /\ CallOf(t)'.deleted = CallOf(t).deleted
        /\ CallOf(t)'.todo = CallOf(t).todo /\ fmTurn'[t].calls = fmTurn[t].calls /\ FmOthersSame(t)
    BY <1>1, <1>5, FmCaptures
  <2>2. fmFile' = fmFile
    BY <1>5 DEF CaptureBefore
  <2>3. PathsOf(t)' = PathsOf(t)
    BY <2>1 DEF PathsOf, ListedBy
  <2>4. ContentOf(t)' = ContentOf(t) /\ FmAfter(t)' = FmAfter(t) /\ FmAfter(t) = {}
    BY <1>2, <2>1, <2>3 DEF ContentOf, FmAfter, FmCallHas
  <2>5. FmOwnContent(t)' /\ FmDoneFiles(t)'
    BY <1>1, <2>1, <2>2, <2>4 DEF FmOwnContent, FmDoneFiles, FmWorking
  <2>6. \A u \in FmTurns \ {t} : FmOwnContent(u)' /\ FmDoneFiles(u)'
    BY <1>1, <2>1, <2>2, FmPartsStay DEF FmOthersSame
  <2>7. \A u \in FmTurns : fmTurn[u].calls <= fmTurn'[u].calls
    BY <1>1, <2>1 DEF FmOthersSame, FmSame, FmTurnShape, FmTurnRecords
  <2>8. FmContentsAreOld'
    BY <1>1, <2>2, <2>7, FmOldStays
  <2>9. \A u \in FmTurns : CallOf(u).pc = "commit" => CallOf(u)'.pc = "commit" /\ ContentOf(u)' = ContentOf(u)
    BY <2>1, FmSameMeans DEF FmOthersSame, FmSame
  <2>10. FmPairs'
    BY <1>1, <2>2, <2>9, FmPairsStay
  <2> QED
    BY <2>5, <2>6, <2>8, <2>10 DEF FmWhole
<1>6. CASE CommitFile(t)
  BY <1>6, FmCommitKeepsWhole
<1>7. CASE CommitFails(t) \/ EndCall(t) \/ EndFails(t)
  <2>1. CallOf(t)'.pc = "idle" /\ fmTurn'[t].calls = fmTurn[t].calls /\ FmOthersSame(t)
    BY <1>1, <1>7, FmEnds
  <2>2. fmFile' = fmFile
    BY <1>7 DEF CommitFails, EndCall, EndFails
  <2>3. ASSUME CallOf(t).pc = "commit", NEW p \in FmPaths, fmFile[p] = ContentOf(t) PROVE FALSE
    <3>1. CommitFails(t)
      BY <1>7, <2>3 DEF EndCall, EndFails
    <3>2. CallOf(t).todo = PathsOf(t)
      BY <3>1 DEF CommitFails
    <3>3. FmWorking(t) /\ FmOwnContent(t)
      BY <1>1, <2>3 DEF FmWorking
    <3>4. p \in FmAfter(t)
      BY <2>3, <3>3 DEF FmOwnContent
    <3> QED
      BY <3>2, <3>4 DEF FmAfter
  <2>4. FmOwnContent(t)'
    BY <2>1 DEF FmOwnContent, FmWorking
  <2>5. fmTurn[t].calls <= fmTurn'[t].calls
    BY <1>2, <2>1
  <2> QED
    BY <1>1, <2>1, <2>2, <2>3, <2>4, <2>5, FmNotCommitting
<1>8. CASE FinishTurn(t)
  <2>1. /\ CallOf(t).pc = "idle" /\ CallOf(t)'.pc = "idle" /\ fmTurn'[t].calls = fmTurn[t].calls
        /\ FmOthersSame(t) /\ fmFile' = fmFile
    BY <1>1, <1>8, FmFinishes DEF FinishTurn
  <2>2. FmOwnContent(t)'
    BY <2>1 DEF FmOwnContent, FmWorking
  <2>3. fmTurn[t].calls <= fmTurn'[t].calls
    BY <1>2, <2>1
  <2> QED
    BY <1>1, <2>1, <2>2, <2>3, FmNotCommitting
<1> QED
  BY <1>3, <1>4, <1>5, <1>6, <1>7, <1>8 DEF FmTurnStep

LEMMA FmWholeStep ==
    FmInv /\ FmInv' /\ FmBoundShape /\ FmCallsHave /\ (fmTorn \/ FmWhole) /\ [FmNext]_fmVars
        => (fmTorn \/ FmWhole)'
<1> SUFFICES ASSUME FmInv, FmInv', FmBoundShape, FmCallsHave, fmTorn \/ FmWhole, [FmNext]_fmVars, ~fmTorn'
             PROVE  FmWhole'
  OBVIOUS
<1>1. FmShape /\ FmShape'
  BY SMTT(60) DEF FmInv
<1>2. ASSUME NEW t \in FmTurns, FmTurnStep(t) PROVE FmWhole'
  <2>1. ~fmTorn
    BY <1>2 DEF FmTurnStep, StartWrite, PlanPatch, FmCall, fmHistory, ReadFile, Lock, CaptureBefore,
                CommitFile, CommitFails, EndCall, EndFails, FinishTurn
  <2> QED
    BY <1>1, <1>2, <2>1, FmTurnKeepsWhole, SMTT(60)
<1>3. CASE FmRest
  <2>1. ~fmTorn
    BY <1>1, <1>3, FmRestDoes
  <2> QED
    BY <1>1, <1>3, <2>1, FmRestKeepsWhole
<1> QED
  BY <1>2, <1>3, FmNextSteps

(* commitApplyPatchPlan and withApplyPatchLocks (apply_patch.go): of the patches  *)
(* that are through, any two that touch the same files leave them as one of them  *)
(* made them, for any number of turns, patches and files.                         *)
THEOREM FmPatchesAreWhole == FmSpec => []FmPatchesStayWhole
<1>1. FmInit => FmBoundShape
  BY DEF FmInit, FmBoundShape
<1>2. FmInit => FmWhole
  <2> SUFFICES ASSUME FmInit PROVE FmWhole
    OBVIOUS
  <2>1. \A t \in FmTurns : CallOf(t).pc = "idle"
    BY DEF FmInit, CallOf, NoChange
  <2>2. \A p \in FmPaths : fmFile[p] = <<0, 0, {}>> \/ fmFile[p] = NoFile
    BY DEF FmInit
  <2>3. 0 \notin FmTurns
    BY FmAssumption
  <2>4. FmContentsAreOld
    BY <2>2, <2>3 DEF FmContentsAreOld, Exists
  <2>5. \A t \in FmTurns : FmOwnContent(t) /\ FmDoneFiles(t)
    BY <2>1 DEF FmOwnContent, FmDoneFiles, FmWorking
  <2>6. FmPairs
    BY <2>2 DEF FmPairs, Exists
  <2> QED
    BY <2>4, <2>5, <2>6 DEF FmWhole
<1>3. fmTorn \/ FmWhole => FmPatchesStayWhole
  BY DEF FmWhole, FmPairs, FmThrough, FmPatchesStayWhole
<1>4. FmInit => fmTorn \/ FmWhole
  BY <1>2
<1> QED
  BY <1>1, <1>3, <1>4, FmInvInit, FmInvStep, FmBoundStep, FmCallsHaveInit, FmCallsHaveStep,
     FmWholeStep, PTL DEF FmSpec
====
