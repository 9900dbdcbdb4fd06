---- MODULE MCSessionParts ----
(* Parts of a session that share no state with one another, for TLC in one run:   *)
(* the event stream of a terminal UI, the requests of a turn to its provider, the *)
(* authorization of its tool calls, its budget, the workflow it moves, the files  *)
(* its turns change and the history they are given. focus says which of them the  *)
(* behaviour is about; the others stand still.                                    *)
EXTENDS TuiSession, ProviderRequest, Authorization, Budget, Workflow, FileMutation,
        SessionHistory, TLC

CONSTANTS p1, c1, c2

VARIABLE focus

Job(tool, cmd, paths, workdir, targets, opaque) ==
    [tool |-> tool, command |-> cmd, paths |-> paths, workdir |-> workdir, targets |-> targets,
     opaque |-> opaque, server |-> FALSE]
MCJobs == {Job("read", "", {"p"}, {}, {}, FALSE),
           Job("bash", "k", {"p"}, {}, {"n"}, FALSE), Job("bash", "k", {}, {"p"}, {}, TRUE)}
MCPolicies == {[path |-> "none", target |-> "none", bash |-> "none"],
               [path |-> "allow", target |-> "ask", bash |-> "allow"]}
MCConfig == [mode |-> "auto", policy |-> CHOOSE p \in MCPolicies : p.path = "none", repeat |-> FALSE]

MCHome == "t1" :> "s1" @@ "t2" :> "s2"

MCTypes == <<"agent", "approval", "check", "review", "final">>
MCRevision == 3 :> [to |-> 1, max |-> 1] @@ 4 :> [to |-> 3, max |-> 1]
\* Where the end of a turn leads: back, past the check, and to the summary.
MCRetry == <<4, "turn_failed">> :> [to |-> 1, max |-> 1] @@ <<4, "canceled">> :> [to |-> 5, max |-> 1]
           @@ <<1, "budget_exceeded">> :> [to |-> 5, max |-> 1]
MCSkipTo == 2 :> 4

MCWindows == {<<1, 1>>, <<1, 2>>}
\* A move and an edit of two files.
MCPatches == {[paths |-> <<1, 2>>, deleted |-> {1}, added |-> {2}],
              [paths |-> <<2, 1>>, deleted |-> {}, added |-> {}]}

partVars == <<focus, allVars, reqVars, authVars, bgtVars, wfVars, fmVars, histVars>>

(* The components out of focus start in one state.                                *)
PartInit ==
    /\ focus \in {"tui", "request", "authorization", "budget", "workflow", "files", "history"}
    /\ TuiInit /\ ReqInit /\ WfInit /\ FmInit /\ HistInit
    /\ AuthInit /\ (focus # "authorization" => authConfig = MCConfig)
    /\ BgtInit /\ (focus # "budget" => \A s \in BgtSessions : bgtCost[s] = 0)

PartNext ==
    \/ focus = "tui" /\ TuiNext
       /\ UNCHANGED <<focus, reqVars, authVars, bgtVars, wfVars, fmVars, histVars>>
    \/ focus = "request" /\ ReqNext
       /\ UNCHANGED <<focus, allVars, authVars, bgtVars, wfVars, fmVars, histVars>>
    \/ focus = "authorization" /\ AuthNext
       /\ UNCHANGED <<focus, allVars, reqVars, bgtVars, wfVars, fmVars, histVars>>
    \/ focus = "budget" /\ BgtNext
       /\ UNCHANGED <<focus, allVars, reqVars, authVars, wfVars, fmVars, histVars>>
    \/ focus = "workflow" /\ WfNext
       /\ UNCHANGED <<focus, allVars, reqVars, authVars, bgtVars, fmVars, histVars>>
    \/ focus = "files" /\ FmNext
       /\ UNCHANGED <<focus, allVars, reqVars, authVars, bgtVars, wfVars, histVars>>
    \/ focus = "history" /\ HistNext
       /\ UNCHANGED <<focus, allVars, reqVars, authVars, bgtVars, wfVars, fmVars>>

PartSpec == PartInit /\ [][PartNext]_partVars

(* The variables of the part in focus stay in the sets its module gives.          *)
PartsTypeOK ==
    /\ focus = "tui" => TuiTypeOK
    /\ focus = "request" => ReqTypeOK
    /\ focus = "authorization" => AuthTypeOK
    /\ focus = "budget" => BgtTypeOK
    /\ focus = "workflow" => WfTypeOK
    /\ focus = "files" => FmTypeOK
    /\ focus = "history" => HistTypeOK
====
