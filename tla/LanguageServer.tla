---- MODULE LanguageServer ----
(* One language server of a workspace, its document and its diagnostics:          *)
(* internal/lsp/manager.go, server.go, server_document.go, server_queries.go.     *)
(*                                                                                *)
(* Tool calls of any turn share the manager. The first that needs the server      *)
(* starts it while the others wait in the same sync.Once; a server that died or   *)
(* whose failure is old gets a new Once. A call then brings the server's copy of  *)
(* its file up to date, without a lock over the steps: stat, compare with what    *)
(* was sent last, read, send, record. Diagnostics come by themselves or on        *)
(* request and are kept per document.                                             *)
EXTENDS Integers, Sequences

CONSTANTS
    LspCallers,    \* tool calls that may run at the same time
    LspVersioned,  \* does the server put a version on the diagnostics it publishes?
    LspMaxCalls,   \* bound on the calls made
    LspMaxTexts,   \* bound on the texts the file has had
    LspMaxStarts   \* bound on the servers started

ASSUME LspAssumption ==
    /\ LspVersioned \subseteq BOOLEAN
    /\ LspMaxCalls \in Nat /\ LspMaxTexts \in Nat \ {0} /\ LspMaxStarts \in Nat

VARIABLES
    lspFile,     \* the file; its text is numbered by the changes made, and so is its stat
    lspManager,  \* servers, failed and starting of the name
    lspOnce,     \* the Once of each start
    lspServer,   \* the server of each start
    lspCall,     \* where each call is
    lspCalls,    \* how many calls were made
    lspStale,    \* history: a call returned diagnostics of an older text than it began with
    lspAlone     \* history: no two calls worked on one document, and none was opened again

lspVars == <<lspFile, lspManager, lspOnce, lspServer, lspCall, lspCalls, lspStale, lspAlone>>

LspStarts == 1 .. LspMaxStarts
NoDocument == [version |-> 0, stat |-> 0]
NoReport == [version |-> 0, text |-> 0]

(* proc: the process. document: openFiles. sent: the document's notifications in  *)
(* the server's pipe, version 0 for didClose. published: the last one the server  *)
(* spoke of. report: diagnostics.                                                 *)
LspNoServer == [proc |-> "none", document |-> NoDocument, sent |-> <<>>, published |-> 0,
                report |-> NoReport, pull |-> TRUE]
LspIdle == [pc |-> "idle", op |-> "", since |-> 0, at |-> 0, stat |-> 0, known |-> NoDocument,
            text |-> 0, version |-> 0, news |-> FALSE]

LspInit ==
    /\ lspFile = [text |-> 1, exists |-> TRUE]
    /\ lspManager = [server |-> 0, failed |-> "no", once |-> 0]
    /\ lspOnce = [i \in LspStarts |-> "unused"]
    /\ lspServer = [i \in LspStarts |-> LspNoServer]
    /\ lspCall = [c \in LspCallers |-> LspIdle]
    /\ lspCalls = 0
    /\ lspStale = FALSE
    /\ lspAlone = TRUE

LspAt(c, pc) == lspCall[c].pc = pc
LspGo(c, pc) == lspCall' = [lspCall EXCEPT ![c].pc = pc]
LspEnds(c) == lspCall' = [lspCall EXCEPT ![c] = LspIdle]
LspUp(i) == lspServer[i].proc = "up"

------------------------------------------------------------------------------
(* Around the program: the user edits the file, the server dies, 30 s pass.       *)

LspEdit ==
    /\ lspFile.text < LspMaxTexts
    /\ lspFile' = [text |-> lspFile.text + 1, exists |-> TRUE]
    /\ UNCHANGED <<lspManager, lspOnce, lspServer, lspCall, lspCalls, lspStale, lspAlone>>

LspServerDies(i) ==
    /\ LspUp(i)
    /\ lspServer' = [lspServer EXCEPT ![i].proc = "down", ![i].sent = <<>>, ![i].published = 0]
    /\ UNCHANGED <<lspFile, lspManager, lspOnce, lspCall, lspCalls, lspStale, lspAlone>>

LspCooldownEnds ==
    /\ lspManager.failed = "cooling"
    /\ lspManager' = [lspManager EXCEPT !.failed = "over"]
    /\ UNCHANGED <<lspFile, lspOnce, lspServer, lspCall, lspCalls, lspStale, lspAlone>>

------------------------------------------------------------------------------
(* A tool call: a query about the file, a write that has changed it or a patch    *)
(* that has deleted it (SyncMutation).                                            *)

LspAsk(c, op) ==
    /\ LspAt(c, "idle") /\ lspCalls < LspMaxCalls
    /\ op = "changed" => lspFile.text < LspMaxTexts
    /\ lspFile' = CASE op = "changed" -> [text |-> lspFile.text + 1, exists |-> TRUE]
                    [] op = "deleted" -> [lspFile EXCEPT !.exists = FALSE]
                    [] OTHER -> lspFile
    /\ lspCall' = [lspCall EXCEPT ![c] = [LspIdle EXCEPT !.op = op,
                       !.pc = IF op = "deleted" THEN "find" ELSE "lookup",
                       !.since = IF op = "query" THEN lspFile.text ELSE 0]]
    /\ lspCalls' = lspCalls + 1
    /\ UNCHANGED <<lspManager, lspOnce, lspServer, lspStale, lspAlone>>

(* With the Once kept when an old failure is forgotten.                           *)
ForgottenHalf(m) ==
    IF m.failed = "over" \/ m.server # 0
    THEN [server |-> 0, failed |-> "no", once |-> m.once] ELSE m

(* Before a call takes the Once, a dead server and an old failure are forgotten   *)
(* with the Once that started them.                                               *)
Forgotten(m) ==
    IF m.failed = "over" \/ m.server # 0
    THEN [server |-> 0, failed |-> "no", once |-> 0] ELSE m

(* serverByName, up to the Once.                                                  *)
LspLookup(c) ==
    /\ LspAt(c, "lookup")
    /\ LET m == lspManager
           kept == Forgotten(m)
       IN IF m.server # 0 /\ LspUp(m.server)
          THEN /\ lspCall' = [lspCall EXCEPT ![c].pc = "stat", ![c].at = m.server]
               /\ UNCHANGED <<lspManager, lspOnce>>
          ELSE IF m.failed = "cooling"
          THEN LspEnds(c) /\ UNCHANGED <<lspManager, lspOnce>>
          ELSE \E i \in LspStarts :
               /\ IF kept.once # 0 THEN i = kept.once /\ UNCHANGED lspOnce
                  ELSE /\ lspOnce[i] = "unused" /\ \A j \in 1 .. (i - 1) : lspOnce[j] # "unused"
                       /\ lspOnce' = [lspOnce EXCEPT ![i] = "fresh"]
               /\ lspManager' = [kept EXCEPT !.once = i]
               /\ lspCall' = [lspCall EXCEPT ![c].pc = "once", ![c].at = i]
    /\ UNCHANGED <<lspFile, lspServer, lspCalls, lspStale, lspAlone>>

(* once.Do: the first caller runs, the others wait for it.                        *)
LspOnceRuns(c) ==
    /\ LspAt(c, "once") /\ lspOnce[lspCall[c].at] = "fresh"
    /\ lspOnce' = [lspOnce EXCEPT ![lspCall[c].at] = "running"]
    /\ LspGo(c, "start")
    /\ UNCHANGED <<lspFile, lspManager, lspServer, lspCalls, lspStale, lspAlone>>

LspOnceDone(c) ==
    /\ LspAt(c, "once") /\ lspOnce[lspCall[c].at] = "done"
    /\ LspGo(c, "pick")
    /\ UNCHANGED <<lspFile, lspManager, lspOnce, lspServer, lspCalls, lspStale, lspAlone>>

(* Start: the process, then the initialize handshake.                             *)
LspSpawns(c) ==
    /\ LspAt(c, "start")
    /\ lspServer' = [lspServer EXCEPT ![lspCall[c].at].proc = "up"]
    /\ LspGo(c, "initialize")
    /\ UNCHANGED <<lspFile, lspManager, lspOnce, lspCalls, lspStale, lspAlone>>

(* The command is missing, the server refuses or dies, or the caller is           *)
(* cancelled: a process is closed, the failure is kept.                           *)
LspStartFails(c) ==
    /\ lspCall[c].pc \in {"start", "initialize"}
    /\ LspAt(c, "initialize") =>
           lspServer' = [lspServer EXCEPT ![lspCall[c].at].proc = "down"]
    /\ LspAt(c, "start") => UNCHANGED lspServer
    /\ lspManager' = [lspManager EXCEPT !.failed = "cooling"]
    /\ lspOnce' = [lspOnce EXCEPT ![lspCall[c].at] = "done"]
    /\ LspEnds(c)
    /\ UNCHANGED <<lspFile, lspCalls, lspStale, lspAlone>>

LspRegisters(c) ==
    /\ LspAt(c, "initialize") /\ LspUp(lspCall[c].at)
    /\ lspManager' = [lspManager EXCEPT !.server = lspCall[c].at]
    /\ lspOnce' = [lspOnce EXCEPT ![lspCall[c].at] = "done"]
    /\ LspGo(c, "pick")
    /\ UNCHANGED <<lspFile, lspServer, lspCalls, lspStale, lspAlone>>

(* What the map holds now is the answer, whoever started it.                      *)
LspPick(c) ==
    /\ LspAt(c, "pick")
    /\ IF lspManager.server = 0 THEN LspEnds(c)
       ELSE lspCall' = [lspCall EXCEPT ![c].pc = "stat", ![c].at = lspManager.server]
    /\ UNCHANGED <<lspFile, lspManager, lspOnce, lspServer, lspCalls, lspStale, lspAlone>>

------------------------------------------------------------------------------
(* syncDocument.                                                                  *)

LspWorking == {"check", "read", "send_open", "record_open", "record_change", "send_change",
               "clear", "close", "forget"}
LspAloneAt(c, i) ==
    lspAlone' = (lspAlone /\ \A d \in LspCallers \ {c} :
                                lspCall[d].at = i => lspCall[d].pc \notin LspWorking)

(* RefreshDiagnostics reads the publish count first, then the file is stat'ed.    *)
LspStat(c) ==
    /\ LspAt(c, "stat")
    /\ lspCall' = [lspCall EXCEPT ![c].pc = "check", ![c].news = FALSE,
                       ![c].stat = IF lspFile.exists THEN lspFile.text ELSE 0]
    /\ LspAloneAt(c, lspCall[c].at)
    /\ UNCHANGED <<lspFile, lspManager, lspOnce, lspServer, lspCalls, lspStale>>

(* What was sent last is enough when the file's stat has not moved.               *)
StillCurrent(call, document) ==
    document.version # 0 /\ call.op # "changed" /\ call.stat # 0 /\ document.stat = call.stat

LspCheck(c) ==
    LET call == lspCall[c]
        document == lspServer[call.at].document
    IN /\ call.pc = "check"
       /\ IF StillCurrent(call, document)
          THEN IF call.op = "query"
               THEN lspCall' = [lspCall EXCEPT ![c].pc = "diagnose", ![c].stat = 0,
                                               ![c].version = document.version]
               ELSE LspEnds(c)
          ELSE IF call.stat = 0 THEN LspEnds(c)
          ELSE lspCall' = [lspCall EXCEPT ![c].pc = "read", ![c].known = document]
       /\ UNCHANGED <<lspFile, lspManager, lspOnce, lspServer, lspCalls, lspStale, lspAlone>>

LspRead(c) ==
    /\ LspAt(c, "read")
    /\ IF ~lspFile.exists THEN LspEnds(c)
       ELSE lspCall' = [lspCall EXCEPT ![c].text = lspFile.text, ![c].known = NoDocument,
                ![c].version = lspCall[c].known.version + 1,
                ![c].pc = IF lspCall[c].known.version = 0 THEN "send_open" ELSE "record_change"]
    /\ UNCHANGED <<lspFile, lspManager, lspOnce, lspServer, lspCalls, lspStale, lspAlone>>

LspSynced(c) == lspCall' = [lspCall EXCEPT ![c].pc = "clear", ![c].stat = 0, ![c].text = 0]

(* didOpen is recorded after it was sent, didChange before.                       *)
LspSend(c) ==
    LET call == lspCall[c]
    IN /\ call.pc \in {"send_open", "send_change"}
       /\ IF LspUp(call.at)
          THEN /\ lspServer' = [lspServer EXCEPT ![call.at].sent =
                                   Append(@, [version |-> call.version, text |-> call.text])]
               /\ IF call.pc = "send_open" THEN LspGo(c, "record_open") ELSE LspSynced(c)
          ELSE LspEnds(c) /\ UNCHANGED lspServer
       /\ UNCHANGED <<lspFile, lspManager, lspOnce, lspCalls, lspStale, lspAlone>>

(* With the stat taken after the text was read.                                   *)
StatAfterRead(call) == lspFile.text
StatOnRecord(call) == call.stat

LspRecord(c) ==
    LET call == lspCall[c]
    IN /\ call.pc \in {"record_open", "record_change"}
       /\ lspServer' = [lspServer EXCEPT ![call.at].document =
                           [version |-> call.version, stat |-> StatOnRecord(call)]]
       /\ IF call.pc = "record_open" THEN LspSynced(c) ELSE LspGo(c, "send_change")
       /\ UNCHANGED <<lspFile, lspManager, lspOnce, lspCalls, lspStale, lspAlone>>

LspClear(c) ==
    /\ LspAt(c, "clear")
    /\ lspServer' = [lspServer EXCEPT ![lspCall[c].at].report = NoReport]
    /\ IF lspCall[c].op = "query" THEN LspGo(c, "diagnose") ELSE LspEnds(c)
    /\ UNCHANGED <<lspFile, lspManager, lspOnce, lspCalls, lspStale, lspAlone>>

------------------------------------------------------------------------------
(* CloseDocument, for a file that was deleted; no server is started for it.       *)

LspFind(c) ==
    /\ LspAt(c, "find")
    /\ LET i == lspManager.server
       IN IF i # 0 /\ LspUp(i) /\ lspServer[i].document.version # 0
          THEN /\ lspCall' = [lspCall EXCEPT ![c].pc = "close", ![c].at = i]
               /\ lspAlone' = FALSE
          ELSE LspEnds(c) /\ UNCHANGED lspAlone
    /\ UNCHANGED <<lspFile, lspManager, lspOnce, lspServer, lspCalls, lspStale>>

LspClose(c) ==
    /\ LspAt(c, "close")
    /\ IF LspUp(lspCall[c].at)
       THEN /\ lspServer' = [lspServer EXCEPT ![lspCall[c].at].sent =
                                Append(@, [version |-> 0, text |-> 0])]
            /\ LspGo(c, "forget")
       ELSE LspEnds(c) /\ UNCHANGED lspServer
    /\ UNCHANGED <<lspFile, lspManager, lspOnce, lspCalls, lspStale, lspAlone>>

LspForget(c) ==
    /\ LspAt(c, "forget")
    /\ lspServer' = [lspServer EXCEPT ![lspCall[c].at].document = NoDocument]
    /\ LspGo(c, "clear")
    /\ UNCHANGED <<lspFile, lspManager, lspOnce, lspCalls, lspStale, lspAlone>>

------------------------------------------------------------------------------
(* A query: for definitions, references and edits the document in sync is enough; *)
(* diagnostics are taken as they are, pulled or waited for.                       *)

LspAnswered(c) ==
    /\ LspAt(c, "diagnose")
    /\ LspEnds(c)
    /\ UNCHANGED <<lspFile, lspManager, lspOnce, lspServer, lspCalls, lspStale, lspAlone>>

(* PublishSeq against the count a call read before: only a report without a        *)
(* version is judged by it, and that one is the latest that came.                  *)
Heard(i) ==
    lspCall' = [c \in LspCallers |->
        [lspCall[c] EXCEPT !.news = @ \/ (lspCall[c].at = i /\ lspCall[c].op = "query")]]

(* The server publishes diagnostics of a text it was sent, never of one older     *)
(* than it spoke of before; handlePublishedDiagnostics.                           *)
LspPublish(i, versioned) ==
    LET server == lspServer[i]
    IN \E k \in server.published .. Len(server.sent) :
       /\ server.proc = "up" /\ k > 0 /\ server.sent[k].version # 0
       /\ lspServer' = [lspServer EXCEPT ![i].published = k,
              ![i].report = [text |-> server.sent[k].text,
                             version |-> IF versioned THEN server.sent[k].version ELSE 0]]
       /\ IF versioned THEN UNCHANGED lspCall ELSE Heard(i)
       /\ UNCHANGED <<lspFile, lspManager, lspOnce, lspCalls, lspStale, lspAlone>>

(* With whatever is stored taken for fresh.                                       *)
FreshIfAny(call, report) == report.text # 0

(* A report of the version that was sent, or one without a version that is news.  *)
Fresh(call, report) ==
    IF report.version # 0 THEN report.version = call.version ELSE report.text # 0 /\ call.news

LspReport(c) ==
    LET call == lspCall[c]
        report == lspServer[call.at].report
    IN /\ call.pc \in {"diagnose", "wait"} /\ Fresh(call, report)
       /\ lspStale' = (lspStale \/ report.text < call.since)
       /\ LspEnds(c)
       /\ UNCHANGED <<lspFile, lspManager, lspOnce, lspServer, lspCalls, lspAlone>>

(* pullDiagnostics: the server answers for the text it has when it is asked...    *)
LspPull(c) ==
    LET call == lspCall[c]
        server == lspServer[call.at]
    IN /\ call.pc = "diagnose" /\ ~Fresh(call, server.report)
       /\ server.pull /\ server.proc = "up"
       /\ server.sent # <<>> /\ server.sent[Len(server.sent)].version # 0
       /\ lspCall' = [lspCall EXCEPT ![c].pc = "store",
                                     ![c].text = server.sent[Len(server.sent)].text]
       /\ UNCHANGED <<lspFile, lspManager, lspOnce, lspServer, lspCalls, lspStale, lspAlone>>

(* ... does not know the method or takes too long, or is lost.                    *)
LspNoPull(c) ==
    LET call == lspCall[c]
        server == lspServer[call.at]
    IN /\ call.pc = "diagnose" /\ ~Fresh(call, server.report)
       /\ IF server.proc = "up" \/ ~server.pull
          THEN /\ lspServer' = [lspServer EXCEPT ![call.at].pull = FALSE]
               /\ LspGo(c, "wait")
          ELSE LspEnds(c) /\ UNCHANGED lspServer
       /\ UNCHANGED <<lspFile, lspManager, lspOnce, lspCalls, lspStale, lspAlone>>

(* The answer is stored under the version the call sent.                          *)
LspStore(c) ==
    LET call == lspCall[c]
    IN /\ call.pc = "store"
       /\ lspServer' = [lspServer EXCEPT ![call.at].report =
                           [version |-> call.version, text |-> call.text]]
       /\ lspStale' = (lspStale \/ call.text < call.since)
       /\ LspEnds(c)
       /\ UNCHANGED <<lspFile, lspManager, lspOnce, lspCalls, lspAlone>>

(* Nothing fresh within the settle window: the call reports no diagnostics.       *)
LspSettles(c) ==
    /\ LspAt(c, "wait")
    /\ LspEnds(c)
    /\ UNCHANGED <<lspFile, lspManager, lspOnce, lspServer, lspCalls, lspStale, lspAlone>>

------------------------------------------------------------------------------
LspGetServer(c) ==
    \/ LspLookup(c) \/ LspOnceRuns(c) \/ LspOnceDone(c)
    \/ LspSpawns(c) \/ LspStartFails(c) \/ LspRegisters(c) \/ LspPick(c)
LspSync(c) ==
    \/ LspStat(c) \/ LspCheck(c) \/ LspRead(c) \/ LspSend(c) \/ LspRecord(c) \/ LspClear(c)
    \/ LspFind(c) \/ LspClose(c) \/ LspForget(c)
LspDiagnose(c) ==
    \/ LspAnswered(c) \/ LspReport(c) \/ LspPull(c) \/ LspNoPull(c) \/ LspStore(c) \/ LspSettles(c)

LspNext ==
    \/ LspEdit \/ LspCooldownEnds
    \/ \E i \in LspStarts : LspServerDies(i) \/ \E v \in LspVersioned : LspPublish(i, v)
    \/ \E c \in LspCallers :
          \/ \E op \in {"query", "changed", "deleted"} : LspAsk(c, op)
          \/ LspGetServer(c) \/ LspSync(c) \/ LspDiagnose(c)

LspSpec == LspInit /\ [][LspNext]_lspVars

------------------------------------------------------------------------------
(* Files, servers, calls and what the manager keeps are in their sets.            *)
LspTypeOK ==
    /\ lspFile \in [text : 1 .. LspMaxTexts, exists : BOOLEAN]
    /\ lspManager \in [server : 0 .. LspMaxStarts, failed : {"no", "cooling", "over"},
                       once : 0 .. LspMaxStarts]
    /\ lspOnce \in [LspStarts -> {"unused", "fresh", "running", "done"}]
    /\ \A i \in LspStarts :
          /\ lspServer[i].proc \in {"none", "up", "down"}
          /\ lspServer[i].document \in [version : Nat, stat : 0 .. LspMaxTexts]
          /\ lspServer[i].published <= Len(lspServer[i].sent)
    /\ \A c \in LspCallers : lspCall[c].at \in 0 .. LspMaxStarts
    /\ lspCalls \in 0 .. LspMaxCalls /\ lspAlone \in BOOLEAN

(* serverByName (manager.go): however calls, deaths and failed starts interleave, *)
(* at most one server runs, and a Once that is used up is kept only with its      *)
(* server or its failure, or no call would ever start a server again.             *)
LspOneServer ==
    /\ \A i, j \in LspStarts : LspUp(i) /\ LspUp(j) => i = j
    /\ lspManager.once # 0 /\ lspOnce[lspManager.once] = "done"
          => lspManager.server # 0 \/ lspManager.failed # "no"

(* syncDocument (server_document.go) takes the stat before it reads: while the    *)
(* file still has the stat on record, the server has its text, whatever the user  *)
(* changes between the steps. Calls that overlap on one document are excluded.    *)
LspDocumentIsCurrent ==
    \A i \in LspStarts :
        LET server == lspServer[i]
        IN /\ lspAlone /\ server.document.version # 0 /\ server.document.stat = lspFile.text
           /\ server.proc = "up" /\ ~\E c \in LspCallers : lspCall[c].pc = "send_change"
           => server.sent # <<>> /\ server.sent[Len(server.sent)].text = lspFile.text

(* RefreshDiagnostics (server_queries.go): the diagnostics a call returns are of  *)
(* a text the file had when the call began or later, though the server may still  *)
(* publish for texts it was sent before. Same exclusion.                          *)
LspDiagnosticsAreCurrent == lspAlone => ~lspStale
====
