---- MODULE MCGoroutines ----
(* The program's long-lived goroutines, and the processes they serve, for TLC, in *)
(* one run: focus says which component the behaviour is about; the others, which  *)
(* share no state with it, stand still.                                           *)
EXTENDS SessionWatcher, BackgroundExecution, LanguageServer, TLC

CONSTANTS e1, e2

VARIABLE focus

\* A watch opened on a fresh session, and one that starts with a replay.
MCReplayed == {<<>>, <<e1>>, <<e1, e2>>}

goVars == <<focus, vars, bgVars, lspVars>>

(* The component out of focus starts in one state.                                *)
GoInit ==
    /\ focus \in {"watcher", "background", "server"}
    /\ Init /\ (focus # "watcher" => queue = <<>>)
    /\ BgInit /\ (focus # "background" => bgOutput.readyAt = 0 /\ ~bgOutput.patterns)
    /\ LspInit

GoNext ==
    \/ focus = "watcher" /\ Next /\ UNCHANGED <<focus, bgVars, lspVars>>
    \/ focus = "background" /\ BgNext /\ UNCHANGED <<focus, vars, lspVars>>
    \/ focus = "server" /\ LspNext /\ UNCHANGED <<focus, vars, bgVars>>

(* The Go scheduler runs what can run: a publisher finishes its push, a watcher,  *)
(* a pump, a monitor and the calls that supervise a process go on.                *)
GoSpec ==
    /\ GoInit /\ [][GoNext]_goVars
    /\ WF_vars(focus = "watcher" /\ PushNotify) /\ WF_vars(focus = "watcher" /\ Goroutine)
    /\ WF_bgVars(focus = "background" /\ BgCallStep)
    /\ WF_bgVars(focus = "background" /\ BgMonitorStep)
    /\ WF_bgVars(focus = "background" /\ SendExited)
    /\ \A p \in BgPumps : WF_bgVars(focus = "background" /\ BgPumpStep(p))
    /\ \A r \in BgResumers : WF_bgVars(focus = "background" /\ BgResumeStep(r))

(* The variables of the component in focus stay in the sets its module gives.     *)
GoTypeOK ==
    /\ focus = "watcher" => TypeOK
    /\ focus = "background" => BgTypeOK
    /\ focus = "server" => LspTypeOK
====
