---- MODULE BackgroundExecution ----
(* One background process (a server or a watcher) and who supervises it:          *)
(* internal/app/execution_service_background.go, execution_background*.go,        *)
(* execution_service_background_resume.go, background_log_store_sqlite.go.        *)
(*                                                                                *)
(* The process writes output; two pumps (stdout, stderr) pass every chunk to the  *)
(* session's observers, to the ready detector and to a buffered log. The session  *)
(* log records that it started, how much output was seen, that it is ready, and   *)
(* that it exited or was lost. A monitor goroutine watches it; after a restart a  *)
(* resumed monitor takes over from what was recorded. Output counts chunks.       *)
EXTENDS Naturals, FiniteSets

CONSTANTS
    BgPumps,          \* the goroutines that copy stdout and stderr
    BgResumers,       \* ResumeBackgroundExecutions calls in flight
    BgMaxChunks,      \* bound on the output of the process
    BgMaxCrashes,     \* bound on crashes of the runtime
    BgMaxResumes      \* bound on ResumeBackgroundExecutions calls

ASSUME BgAssumption ==
    /\ BgMaxChunks \in Nat /\ BgMaxCrashes \in Nat /\ BgMaxResumes \in Nat
    /\ IsFiniteSet(BgPumps) /\ BgPumps \cap BgResumers = {}

VARIABLES
    bgProc,      \* the process, and whether its PID belongs to another one now
    bgOutput,    \* written: chunks read from the pipes; readyAt: the chunk with the
                 \*   ready line (0: none); patterns: whether one is looked for
    bgRecord,    \* what the session log says of the execution
    bgLive,      \* output count in the runtime's projected state, ephemeral chunks included
    bgLog,       \* the background log: chunks stored, and chunks buffered in memory
    bgObserver,  \* the first supervisor's observer
    bgTracked,   \* backgroundRuns holds the execution
    bgChannels,  \* what waits in the Ready and Exited channels
    bgCall,      \* executeBackgroundIntent
    bgMonitor,   \* monitorBackgroundExecution
    bgPump,
    bgResume,    \* resumed supervision, one per call
    bgBound      \* crashes and resumes so far; opened: this runtime supervised or resumed

bgVars == <<bgProc, bgOutput, bgRecord, bgLive, bgLog, bgObserver, bgTracked, bgChannels,
            bgCall, bgMonitor, bgPump, bgResume, bgBound>>

BgNoObserver == [bytes |-> 0, synced |-> 0, dirty |-> FALSE]
BgIdlePump == [pc |-> "read", bytes |-> 0, ready |-> FALSE]
BgIdleResume ==
    [pc |-> "idle", monitored |-> FALSE, ready |-> FALSE, detector |-> FALSE, seed |-> 0,
     offset |-> 0, observer |-> BgNoObserver, due |-> FALSE]

BgInit ==
    /\ bgProc = [state |-> "none", reused |-> FALSE]
    /\ \E n \in 0..BgMaxChunks, patterns \in BOOLEAN :
          /\ n > 0 => patterns
          /\ bgOutput = [written |-> 0, readyAt |-> n, patterns |-> patterns]
    /\ bgRecord = [started |-> FALSE, status |-> "none", ready |-> FALSE, exited |-> FALSE,
                   bytes |-> 0]
    /\ bgLive = 0
    /\ bgLog = [stored |-> 0, buffered |-> 0]
    /\ bgObserver = BgNoObserver
    /\ bgTracked = FALSE
    /\ bgChannels = [ready |-> FALSE, exit |-> "open"]
    /\ bgCall = "spawn"
    /\ bgMonitor = "none"
    /\ bgPump = [p \in BgPumps |-> BgIdlePump]
    /\ bgResume = [r \in BgResumers |-> BgIdleResume]
    /\ bgBound = [crashes |-> 0, resumes |-> 0, opened |-> TRUE]

------------------------------------------------------------------------------
(* What the projector makes of the events.                                        *)

Recorded(record, bytes, ready, status) ==
    [record EXCEPT !.bytes = bytes, !.ready = @ \/ ready, !.status = status,
                   !.exited = @ \/ status = "exited"]

(* Flush: the observer's count is recorded if it is ahead.                        *)
FlushedBytes(observer, record) ==
    IF observer.dirty /\ observer.bytes > 0 THEN observer.bytes ELSE record.bytes
FlushedLive(observer) ==
    IF observer.dirty /\ observer.bytes > 0 THEN observer.bytes ELSE bgLive
Flushed(observer) ==
    IF observer.dirty /\ observer.bytes > 0
    THEN [observer EXCEPT !.dirty = FALSE, !.synced = IF @ > observer.bytes THEN @ ELSE observer.bytes]
    ELSE observer

(* Ready, Exited or Lost, after a flush.                                          *)
AppendAfterFlush(observer, ready, status) ==
    /\ bgRecord' = Recorded(bgRecord, FlushedBytes(observer, bgRecord), ready, status)
    /\ bgLive' = FlushedLive(observer)

------------------------------------------------------------------------------
(* The call that starts the process.                                              *)

(* ExecutionStarted is in the log. The command may not start; the call ends.      *)
SpawnFails ==
    /\ bgCall = "spawn"
    /\ bgCall' = "done"
    /\ UNCHANGED <<bgProc, bgOutput, bgRecord, bgLive, bgLog, bgObserver, bgTracked, bgChannels,
                   bgMonitor, bgPump, bgResume, bgBound>>

Spawn ==
    /\ bgCall = "spawn"
    /\ bgCall' = "record"
    /\ bgProc' = [bgProc EXCEPT !.state = "running"]
    /\ UNCHANGED <<bgOutput, bgRecord, bgLive, bgLog, bgObserver, bgTracked, bgChannels,
                   bgMonitor, bgPump, bgResume, bgBound>>

(* ExecutionBackgroundStarted. The pumps run already.                             *)
AppendStarted ==
    /\ bgCall = "record"
    /\ bgCall' = "track"
    /\ bgRecord' = [bgRecord EXCEPT !.started = TRUE,
                                    !.status = IF bgOutput.patterns THEN "starting" ELSE "running"]
    /\ UNCHANGED <<bgProc, bgOutput, bgLive, bgLog, bgObserver, bgTracked, bgChannels,
                   bgMonitor, bgPump, bgResume, bgBound>>

(* startBackgroundRun: an execution has one supervisor; a call that comes second  *)
(* fails and leaves the process to the first.                                     *)
Track ==
    /\ bgCall = "track"
    /\ bgTracked' = TRUE
    /\ IF bgTracked THEN bgCall' = "done" /\ UNCHANGED bgMonitor
       ELSE IF bgOutput.patterns THEN bgCall' = "wait" /\ UNCHANGED bgMonitor
       ELSE bgCall' = "done" /\ bgMonitor' = "watch"
    /\ UNCHANGED <<bgProc, bgOutput, bgRecord, bgLive, bgLog, bgObserver, bgChannels,
                   bgPump, bgResume, bgBound>>

(* The first of the ready line, the exit and the startup timeout.                 *)
WaitReady ==
    /\ bgCall = "wait" /\ bgChannels.ready
    /\ bgChannels' = [bgChannels EXCEPT !.ready = FALSE]
    /\ AppendAfterFlush(bgObserver, TRUE, "ready")
    /\ bgObserver' = Flushed(bgObserver)
    /\ bgCall' = "done"
    /\ bgMonitor' = "watch_exit"
    /\ UNCHANGED <<bgProc, bgOutput, bgLog, bgTracked, bgPump, bgResume, bgBound>>

(* Exited is received: the execution is no longer tracked, and then recorded.     *)
WaitExited ==
    /\ bgCall = "wait" /\ bgChannels.exit = "sent"
    /\ bgChannels' = [bgChannels EXCEPT !.exit = "closed"]
    /\ bgTracked' = FALSE
    /\ bgCall' = "exited"
    /\ UNCHANGED <<bgProc, bgOutput, bgRecord, bgLive, bgLog, bgObserver, bgMonitor,
                   bgPump, bgResume, bgBound>>

AppendExited ==
    /\ bgCall = "exited"
    /\ AppendAfterFlush(bgObserver, FALSE, "exited")
    /\ bgObserver' = Flushed(bgObserver)
    /\ bgCall' = "done"
    /\ UNCHANGED <<bgProc, bgOutput, bgLog, bgTracked, bgChannels, bgMonitor, bgPump,
                   bgResume, bgBound>>

WaitTimeout ==
    /\ bgCall = "wait"
    /\ bgCall' = "done"
    /\ bgMonitor' = "watch"
    /\ UNCHANGED <<bgProc, bgOutput, bgRecord, bgLive, bgLog, bgObserver, bgTracked,
                   bgChannels, bgPump, bgResume, bgBound>>

------------------------------------------------------------------------------
(* The monitor.                                                                   *)

MonitorReady ==
    /\ bgMonitor = "watch" /\ bgOutput.patterns /\ bgChannels.ready
    /\ bgChannels' = [bgChannels EXCEPT !.ready = FALSE]
    /\ AppendAfterFlush(bgObserver, TRUE, "ready")
    /\ bgObserver' = Flushed(bgObserver)
    /\ bgMonitor' = "watch_exit"
    /\ UNCHANGED <<bgProc, bgOutput, bgLog, bgTracked, bgCall, bgPump, bgResume, bgBound>>

(* The exit may be taken before the ready line, which is then not recorded.       *)
MonitorExited ==
    /\ bgMonitor \in {"watch", "watch_exit"} /\ bgChannels.exit = "sent"
    /\ bgChannels' = [bgChannels EXCEPT !.exit = "closed"]
    /\ AppendAfterFlush(bgObserver, FALSE, "exited")
    /\ bgObserver' = Flushed(bgObserver)
    /\ bgMonitor' = "finish"
    /\ UNCHANGED <<bgProc, bgOutput, bgLog, bgTracked, bgCall, bgPump, bgResume, bgBound>>

MonitorFinish ==
    /\ bgMonitor = "finish"
    /\ bgMonitor' = "none"
    /\ bgTracked' = FALSE
    /\ UNCHANGED <<bgProc, bgOutput, bgRecord, bgLive, bgLog, bgObserver, bgChannels,
                   bgCall, bgPump, bgResume, bgBound>>

------------------------------------------------------------------------------
(* The process and its pumps.                                                     *)

(* A pump reads a chunk: the ephemeral event, which counts once the state has the *)
(* background execution, and the observer's count.                                *)
PumpRead(p) ==
    /\ bgProc.state # "none" /\ bgChannels.exit = "open" /\ bgPump[p].pc = "read"
    /\ bgOutput.written < BgMaxChunks
    /\ bgOutput' = [bgOutput EXCEPT !.written = @ + 1]
    /\ bgLive' = IF bgRecord.status = "none" THEN bgLive ELSE bgLive + 1
    /\ bgObserver' = [bgObserver EXCEPT !.bytes = @ + 1, !.dirty = TRUE]
    /\ \E sync \in BOOLEAN :
          /\ bgObserver.synced = 0 => sync
          /\ bgPump' = [bgPump EXCEPT ![p] =
                [pc |-> IF sync THEN "sync" ELSE "detect", bytes |-> bgObserver.bytes + 1,
                 ready |-> bgOutput.written + 1 = bgOutput.readyAt]]
    /\ UNCHANGED <<bgProc, bgRecord, bgLog, bgTracked, bgChannels, bgCall, bgMonitor,
                   bgResume, bgBound>>

(* appendObserved and markSynced: the two pumps may append in either order.       *)
PumpSync(p) ==
    LET n == bgPump[p].bytes
    IN /\ bgPump[p].pc = "sync"
       /\ bgRecord' = [bgRecord EXCEPT !.bytes = n, !.status = IF @ = "none" THEN "running" ELSE @]
       /\ bgLive' = n
       /\ bgObserver' = IF n < bgObserver.synced THEN bgObserver
                        ELSE [bgObserver EXCEPT !.synced = n,
                                                !.dirty = IF bgObserver.bytes = n THEN FALSE ELSE @]
       /\ bgPump' = [bgPump EXCEPT ![p].pc = "detect"]
       /\ UNCHANGED <<bgProc, bgOutput, bgLog, bgTracked, bgChannels, bgCall, bgMonitor,
                      bgResume, bgBound>>

(* The detector's channel takes one line, and the chunk goes to the log's buffer. *)
PumpDetect(p) ==
    /\ bgPump[p].pc = "detect"
    /\ bgChannels' = [bgChannels EXCEPT !.ready = @ \/ (bgOutput.patterns /\ bgPump[p].ready)]
    /\ bgLog' = [bgLog EXCEPT !.buffered = @ + 1]
    /\ bgPump' = [bgPump EXCEPT ![p] = BgIdlePump]
    /\ UNCHANGED <<bgProc, bgOutput, bgRecord, bgLive, bgObserver, bgTracked, bgCall,
                   bgMonitor, bgResume, bgBound>>

(* The writer's ticker, or a full buffer.                                         *)
FlushLog ==
    /\ bgLog.buffered > 0
    /\ bgLog' = [stored |-> bgLog.stored + bgLog.buffered, buffered |-> 0]
    /\ UNCHANGED <<bgProc, bgOutput, bgRecord, bgLive, bgObserver, bgTracked, bgChannels,
                   bgCall, bgMonitor, bgPump, bgResume, bgBound>>

ProcessExits ==
    /\ bgProc.state = "running"
    /\ bgProc' = [bgProc EXCEPT !.state = "dead"]
    /\ UNCHANGED <<bgOutput, bgRecord, bgLive, bgLog, bgObserver, bgTracked, bgChannels,
                   bgCall, bgMonitor, bgPump, bgResume, bgBound>>

PidReused ==
    /\ bgProc.state = "dead" /\ ~bgProc.reused
    /\ bgBound.crashes > 0
    /\ bgProc' = [bgProc EXCEPT !.reused = TRUE]
    /\ UNCHANGED <<bgOutput, bgRecord, bgLive, bgLog, bgObserver, bgTracked, bgChannels,
                   bgCall, bgMonitor, bgPump, bgResume, bgBound>>

(* The goroutine in cmd.Wait: the pumps end, the log is closed, the exit is sent. *)
SendExited ==
    /\ bgProc.state = "dead" /\ bgChannels.exit = "open"
    /\ \A p \in BgPumps : bgPump[p].pc = "read"
    /\ bgLog' = [stored |-> bgLog.stored + bgLog.buffered, buffered |-> 0]
    /\ bgChannels' = [bgChannels EXCEPT !.exit = "sent"]
    /\ UNCHANGED <<bgProc, bgOutput, bgRecord, bgLive, bgObserver, bgTracked, bgCall,
                   bgMonitor, bgPump, bgResume, bgBound>>

------------------------------------------------------------------------------
(* Resumed supervision.                                                           *)

ResumeAt(r, pc) == bgResume' = [bgResume EXCEPT ![r].pc = pc]
ResumeEnds(r) == bgResume' = [bgResume EXCEPT ![r] = BgIdleResume]

(* resumableBackgroundExecutionsFromState.                                        *)
Resumable ==
    bgRecord.started /\ bgRecord.status \notin {"exited", "lost"} /\ ~bgRecord.exited

(* Mutant: the log is read from its beginning.                                    *)
CandidateFromStart ==
    [pc |-> "track", monitored |-> FALSE, ready |-> bgRecord.ready,
     detector |-> bgOutput.patterns /\ ~bgRecord.ready, seed |-> bgLive, offset |-> 0,
     observer |-> [bytes |-> bgLive, synced |-> bgLive, dirty |-> FALSE], due |-> FALSE]

(* What a candidate's Snapshot said (ready, seed); the observer counts on from     *)
(* there, and so does the reading of the log.                                     *)
Candidate ==
    [pc |-> "track", monitored |-> FALSE, ready |-> bgRecord.ready,
     detector |-> bgOutput.patterns /\ ~bgRecord.ready, seed |-> bgLive, offset |-> bgLive,
     observer |-> [bytes |-> bgLive, synced |-> bgLive, dirty |-> FALSE], due |-> FALSE]

(* A session is opened or a turn starts: the candidates come from a Snapshot.     *)
ResumeSnapshot(r) ==
    /\ bgResume[r].pc = "idle"
    /\ bgBound.resumes < BgMaxResumes
    /\ bgBound' = [bgBound EXCEPT !.resumes = @ + 1, !.opened = TRUE]
    /\ bgResume' = [bgResume EXCEPT ![r] = IF Resumable THEN Candidate ELSE BgIdleResume]
    /\ UNCHANGED <<bgProc, bgOutput, bgRecord, bgLive, bgLog, bgObserver, bgTracked,
                   bgChannels, bgCall, bgMonitor, bgPump>>

(* Mutant: a second supervisor is let in.                                         *)
ResumeTrackAlways(r) ==
    /\ bgResume[r].pc = "track"
    /\ bgTracked' = TRUE
    /\ ResumeAt(r, "inspect")
    /\ UNCHANGED <<bgProc, bgOutput, bgRecord, bgLive, bgLog, bgObserver, bgChannels, bgCall,
                   bgMonitor, bgPump, bgBound>>

ResumeTrack(r) ==
    /\ bgResume[r].pc = "track"
    /\ bgTracked' = TRUE
    /\ IF bgTracked THEN ResumeEnds(r) ELSE ResumeAt(r, "inspect")
    /\ UNCHANGED <<bgProc, bgOutput, bgRecord, bgLive, bgLog, bgObserver, bgChannels, bgCall,
                   bgMonitor, bgPump, bgBound>>

(* Mutant: a process that has the recorded PID is the recorded process.           *)
InspectionByPid ==
    {"lost"} \cup (IF bgProc.state = "running" \/ bgProc.reused THEN {"scan"} ELSE {"exited"})

(* Mutant: a process that cannot be looked up has exited.                         *)
InspectionErrorIsExit ==
    {"exited"} \cup (IF bgProc.state = "running" THEN {"scan"} ELSE {"exited"})

(* The process table: unreadable, not running, another process, or the same one.  *)
Inspection ==
    {"lost"} \cup (IF bgProc.state = "running" THEN {"scan"}
                   ELSE IF bgProc.reused THEN {} ELSE {"exited"})

(* What is not taken over is untracked before it is recorded.                     *)
ResumeInspect(r) ==
    /\ bgResume[r].pc = "inspect"
    /\ \E found \in Inspection :
          /\ bgResume' = [bgResume EXCEPT ![r].pc = found, ![r].monitored = (found = "scan")]
          /\ bgTracked' = (found = "scan")
    /\ UNCHANGED <<bgProc, bgOutput, bgRecord, bgLive, bgLog, bgObserver, bgChannels, bgCall,
                   bgMonitor, bgPump, bgBound>>

(* The resumed monitor waits for nothing but an append it owes.                    *)
At(r, pc) == bgResume[r].pc = pc /\ ~bgResume[r].due

(* scanHistoricalBackgroundReady: the stored log is read from its beginning.      *)
ReadyInLog == bgOutput.readyAt \in 1..bgLog.stored

ResumeScan(r) ==
    LET me == bgResume[r]
    IN /\ At(r, "scan")
       /\ IF me.detector /\ ReadyInLog
          THEN /\ AppendAfterFlush(me.observer, TRUE, "ready")
               /\ bgResume' = [bgResume EXCEPT ![r].pc = "sync", ![r].detector = FALSE,
                                               ![r].observer = Flushed(me.observer)]
          ELSE ResumeAt(r, "sync") /\ UNCHANGED <<bgRecord, bgLive>>
       /\ UNCHANGED <<bgProc, bgOutput, bgLog, bgObserver, bgTracked, bgChannels, bgCall,
                      bgMonitor, bgPump, bgBound>>

(* Once the process is gone the log is scanned again if the candidate was not     *)
(* ready, and read again from where the candidate was, by the same observer.      *)
ResumeScanExited(r) ==
    LET me == bgResume[r]
    IN /\ At(r, "exited")
       /\ IF bgOutput.patterns /\ ~me.ready /\ ReadyInLog
          THEN /\ AppendAfterFlush(me.observer, TRUE, "ready")
               /\ bgResume' = [bgResume EXCEPT ![r].pc = "final", ![r].offset = me.seed,
                                               ![r].observer = Flushed(me.observer)]
          ELSE /\ bgResume' = [bgResume EXCEPT ![r].pc = "final", ![r].offset = me.seed]
               /\ UNCHANGED <<bgRecord, bgLive>>
       /\ UNCHANGED <<bgProc, bgOutput, bgLog, bgObserver, bgTracked, bgChannels, bgCall,
                      bgMonitor, bgPump, bgBound>>

Synced(pc) == IF pc = "final" THEN "exit" ELSE "detect"

(* syncResumedBackgroundLog: a chunk the log holds beyond the offset is emitted,  *)
(* which publishes and counts it; the observer's first count is recorded at once. *)
ResumeEmit(r) ==
    LET me == bgResume[r]
    IN /\ At(r, "sync") \/ At(r, "final")
       /\ me.offset < bgLog.stored
       /\ bgLive' = bgLive + 1
       /\ \E sync \in BOOLEAN :
             /\ me.observer.synced = 0 \/ me.observer.bytes = me.seed => sync
             /\ bgResume' = [bgResume EXCEPT ![r] =
                   [me EXCEPT !.pc = IF me.offset + 1 = bgLog.stored THEN Synced(@) ELSE @,
                              !.offset = @ + 1, !.due = sync,
                              !.observer = [me.observer EXCEPT !.bytes = @ + 1, !.dirty = TRUE]]]
       /\ UNCHANGED <<bgProc, bgOutput, bgRecord, bgLog, bgObserver, bgTracked, bgChannels,
                      bgCall, bgMonitor, bgPump, bgBound>>

(* appendObserved and markSynced.                                                 *)
ResumeObserved(r) ==
    LET n == bgResume[r].observer.bytes
    IN /\ bgResume[r].due
       /\ bgRecord' = [bgRecord EXCEPT !.bytes = n]
       /\ bgLive' = n
       /\ bgResume' = [bgResume EXCEPT ![r].due = FALSE,
                           ![r].observer = [bytes |-> n, synced |-> n, dirty |-> FALSE]]
       /\ UNCHANGED <<bgProc, bgOutput, bgLog, bgObserver, bgTracked, bgChannels, bgCall,
                      bgMonitor, bgPump, bgBound>>

ResumeSynced(r) ==
    /\ At(r, "sync") \/ At(r, "final")
    /\ bgResume[r].offset = bgLog.stored
    /\ ResumeAt(r, Synced(bgResume[r].pc))
    /\ UNCHANGED <<bgProc, bgOutput, bgRecord, bgLive, bgLog, bgObserver, bgTracked,
                   bgChannels, bgCall, bgMonitor, bgPump, bgBound>>

(* A log that cannot be read, or is shorter than what was recorded, ends the       *)
(* supervision.                                                                   *)
ResumeLogFails(r) ==
    /\ \E pc \in {"scan", "exited", "sync", "final"} : At(r, pc)
    /\ ResumeAt(r, "lost")
    /\ UNCHANGED <<bgProc, bgOutput, bgRecord, bgLive, bgLog, bgObserver, bgTracked,
                   bgChannels, bgCall, bgMonitor, bgPump, bgBound>>

(* The detector has seen the ready line in what was emitted.                      *)
ResumeDetect(r) ==
    LET me == bgResume[r]
    IN /\ At(r, "detect")
       /\ IF me.detector /\ bgOutput.readyAt \in (me.seed + 1)..me.offset
          THEN /\ AppendAfterFlush(me.observer, TRUE, "ready")
               /\ bgResume' = [bgResume EXCEPT ![r].pc = "poll", ![r].detector = FALSE,
                                               ![r].observer = Flushed(me.observer)]
          ELSE ResumeAt(r, "poll") /\ UNCHANGED <<bgRecord, bgLive>>
       /\ UNCHANGED <<bgProc, bgOutput, bgLog, bgObserver, bgTracked, bgChannels, bgCall,
                      bgMonitor, bgPump, bgBound>>

(* The next tick: catch up again, then look at the process.                       *)
ResumePoll(r) ==
    /\ bgResume[r].pc = "poll"
    /\ \E found \in Inspection :
          ResumeAt(r, IF found = "scan" THEN "sync" ELSE found)
    /\ UNCHANGED <<bgProc, bgOutput, bgRecord, bgLive, bgLog, bgObserver, bgTracked, bgChannels,
                   bgCall, bgMonitor, bgPump, bgBound>>

(* The terminal event.                                                            *)
ResumeTerminal(r) ==
    LET me == bgResume[r]
    IN /\ At(r, "exit") \/ At(r, "lost")
       /\ AppendAfterFlush(me.observer, FALSE, IF me.pc = "exit" THEN "exited" ELSE "lost")
       /\ IF me.monitored THEN ResumeAt(r, "finish") ELSE ResumeEnds(r)
       /\ UNCHANGED <<bgProc, bgOutput, bgLog, bgObserver, bgTracked, bgChannels, bgCall,
                      bgMonitor, bgPump, bgBound>>

(* The deferred finishBackgroundRun of a resumed monitor.                         *)
ResumeFinish(r) ==
    /\ bgResume[r].pc = "finish"
    /\ bgTracked' = FALSE
    /\ ResumeEnds(r)
    /\ UNCHANGED <<bgProc, bgOutput, bgRecord, bgLive, bgLog, bgObserver, bgChannels, bgCall,
                   bgMonitor, bgPump, bgBound>>

------------------------------------------------------------------------------
(* A crash of the runtime: what is in memory is gone, the buffered output too.    *)
(* The process may live on; nobody reads its pipes.                               *)
BgCrash ==
    /\ bgBound.crashes < BgMaxCrashes
    /\ bgBound' = [bgBound EXCEPT !.crashes = @ + 1, !.opened = FALSE]
    /\ bgLive' = bgRecord.bytes
    /\ bgLog' = [bgLog EXCEPT !.buffered = 0]
    /\ bgObserver' = BgNoObserver
    /\ bgTracked' = FALSE
    /\ bgChannels' = [ready |-> FALSE, exit |-> "closed"]
    /\ bgCall' = "done"
    /\ bgMonitor' = "none"
    /\ bgPump' = [p \in BgPumps |-> BgIdlePump]
    /\ bgResume' = [r \in BgResumers |-> BgIdleResume]
    /\ UNCHANGED <<bgProc, bgOutput, bgRecord>>

BgCallStep ==
    \/ SpawnFails \/ Spawn \/ AppendStarted \/ Track
    \/ WaitReady \/ WaitExited \/ AppendExited \/ WaitTimeout

BgMonitorStep == MonitorReady \/ MonitorExited \/ MonitorFinish

BgPumpStep(p) == PumpSync(p) \/ PumpDetect(p)

BgResumeStep(r) ==
    \/ ResumeTrack(r) \/ ResumeInspect(r) \/ ResumeScan(r) \/ ResumeScanExited(r)
    \/ ResumeEmit(r) \/ ResumeObserved(r) \/ ResumeSynced(r) \/ ResumeLogFails(r)
    \/ ResumeDetect(r) \/ ResumePoll(r) \/ ResumeTerminal(r) \/ ResumeFinish(r)

BgNext ==
    \/ BgCallStep \/ BgMonitorStep
    \/ \E p \in BgPumps : PumpRead(p) \/ BgPumpStep(p)
    \/ FlushLog \/ ProcessExits \/ PidReused \/ SendExited
    \/ \E r \in BgResumers : ResumeSnapshot(r) \/ BgResumeStep(r)
    \/ BgCrash

BgSpec == BgInit /\ [][BgNext]_bgVars

------------------------------------------------------------------------------
(* Properties.                                                                    *)

BgStatuses == {"none", "starting", "running", "ready", "exited", "lost"}
BgObservers == [bytes : Nat, synced : Nat, dirty : BOOLEAN]

(* The shape of the state.                                                        *)
BgTypeOK ==
    /\ bgProc \in [state : {"none", "running", "dead"}, reused : BOOLEAN]
    /\ bgOutput \in [written : 0..BgMaxChunks, readyAt : 0..BgMaxChunks, patterns : BOOLEAN]
    /\ bgRecord \in [started : BOOLEAN, status : BgStatuses, ready : BOOLEAN,
                     exited : BOOLEAN, bytes : Nat]
    /\ bgLive \in Nat
    /\ bgLog \in [stored : 0..BgMaxChunks, buffered : 0..BgMaxChunks]
    /\ bgObserver \in BgObservers
    /\ bgTracked \in BOOLEAN
    /\ bgChannels \in [ready : BOOLEAN, exit : {"open", "sent", "closed"}]
    /\ bgCall \in {"spawn", "record", "track", "wait", "exited", "done"}
    /\ bgMonitor \in {"none", "watch", "watch_exit", "finish"}
    /\ bgPump \in [BgPumps -> [pc : {"read", "sync", "detect"}, bytes : Nat, ready : BOOLEAN]]
    /\ bgResume \in [BgResumers ->
           [pc : {"idle", "track", "inspect", "scan", "exited", "sync", "final", "detect",
                  "poll", "exit", "lost", "finish"},
            monitored : BOOLEAN, ready : BOOLEAN, detector : BOOLEAN, seed : Nat, offset : Nat,
            observer : BgObservers, due : BOOLEAN]]
    /\ bgBound \in [crashes : 0..BgMaxCrashes, resumes : 0..BgMaxResumes, opened : BOOLEAN]

BgCallSupervises == bgCall = "wait"
BgMonitorSupervises == bgMonitor # "none"
BgResumed == {r \in BgResumers : bgResume[r].pc = "inspect" \/ bgResume[r].monitored}

(* startBackgroundRun lets one supervisor in: the call that waits for readiness,  *)
(* the monitor and the resumed monitors exclude one another, and an execution is  *)
(* tracked exactly while one of them has it, however opening a session, starting  *)
(* a turn and starting the process interleave.                                    *)
BgOneSupervisor ==
    /\ ~(BgCallSupervises /\ BgMonitorSupervises)
    /\ BgCallSupervises \/ BgMonitorSupervises => BgResumed = {}
    /\ \A r, q \in BgResumed : r = q
    /\ bgTracked <=> (BgCallSupervises \/ BgMonitorSupervises \/ BgResumed # {})

(* The log says a process exited only when it did: a process table that cannot be *)
(* read, a PID that belongs to another process or a log that shrank make it lost. *)
BgExitIsReal == bgRecord.exited => bgProc.state = "dead"

(* Whoever counts it - pumps, monitor, resumed monitors - a chunk is counted once *)
(* in the record as long as the process runs, or nobody resumed its supervision.  *)
(* A resumed monitor that sees the process end reads again what it has read, so   *)
(* that the last count may be up to twice the output.                             *)
BgOutputCountedOnce ==
    /\ bgProc.state # "dead" \/ bgBound.resumes = 0 => bgRecord.bytes <= bgOutput.written
    /\ bgRecord.bytes <= 2 * bgOutput.written
    /\ bgLog.stored + bgLog.buffered <= bgOutput.written

BgSettled == bgRecord.status \in {"exited", "lost"} \/ bgRecord.exited
(* The exit of a recorded process is recorded, as exited or as lost, by the       *)
(* runtime that has its session, unless that runtime crashes first.               *)
BgExitIsRecorded ==
    (bgRecord.started /\ bgProc.state = "dead" /\ bgBound.opened)
        ~> (BgSettled \/ ~bgBound.opened)
====
