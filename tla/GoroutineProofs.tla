-------------------------- MODULE GoroutineProofs ---------------------------
(***************************************************************************)
(* Theorems about the program's long-lived goroutines and the processes    *)
(* they serve: the watcher of a session's events, for any set of events,   *)
(* any replay and any number of pushes; the supervision of a background    *)
(* execution, for any number of pumps, resumes, crashes and chunks; and    *)
(* the manager of a language server, its document and its diagnostics, for *)
(* any number of calls, callers, texts and starts.  The three              *)
(* specifications share no variable.                                       *)
(***************************************************************************)
EXTENDS MCGoroutines, SequenceTheorems, FiniteSetTheorems, TLAPS

-----------------------------------------------------------------------------
(* The watcher hands over every event once and in order, and never sleeps   *)
(* while one waits.                                                         *)

(* Whatever is scheduled, the watcher's state is well typed.               *)
LEMMA WatcherTypes == Init /\ [][Next]_vars => []TypeOK
<1>1. Init => TypeOK
  <2> SUFFICES ASSUME Init PROVE TypeOK
    OBVIOUS
  <2>1. queue \in Seq(Items) /\ pushes \in 0..MaxPushes
    BY WatcherAssumption DEF Init
  <2>2. delivered \in Seq(Items)
    BY EmptySeq DEF Init
  <2>3. inHand \in Items \cup {None}
    BY DEF Init
  <2> QED
    BY <2>1, <2>2, <2>3, Zenon DEF Init, TypeOK
<1>2. TypeOK /\ [Next]_vars => TypeOK'
  <2> SUFFICES ASSUME TypeOK, [Next]_vars PROVE TypeOK'
    OBVIOUS
  <2> USE WatcherAssumption DEF TypeOK
  <2>1. CASE Pop
    <3>1. CASE queue = <<>>
      BY <2>1, <3>1 DEF Pop
    <3>2. CASE queue # <<>>
      <4>1. Head(queue) \in Items /\ Tail(queue) \in Seq(Items)
        BY <3>2, HeadTailProperties
      <4> QED
        BY <2>1, <3>2, <4>1 DEF Pop
    <3> QED
      BY <3>1, <3>2
  <2>2. CASE Send
    BY <2>2 DEF Send
  <2>3. CASE Wake
    BY <2>3 DEF Wake
  <2>4. CASE Stop
    BY <2>4 DEF Stop
  <2>5. CASE CloseOut
    BY <2>5 DEF CloseOut
  <2>6. CASE PushNotify
    BY <2>6 DEF PushNotify
  <2>7. CASE Cancel
    BY <2>7 DEF Cancel
  <2>8. ASSUME NEW i \in Items, PushEnqueue(i) PROVE TypeOK'
    <3>1. pushes' \in 0..MaxPushes
      BY <2>8 DEF PushEnqueue
    <3>2. Append(queue, i) \in Seq(Items)
      BY AppendProperties
    <3>3. queue' \in Seq(Items) /\ pushing' \in BOOLEAN
      BY <2>8, <3>2 DEF PushEnqueue
    <3> QED
      BY <2>8, <3>1, <3>3 DEF PushEnqueue
  <2>9. CASE UNCHANGED vars
    BY <2>9 DEF vars
  <2> QED
    BY <2>1, <2>2, <2>3, <2>4, <2>5, <2>6, <2>7, <2>8, <2>9 DEF Next, Goroutine
<1> QED
  BY <1>1, <1>2, PTL

(* Type correctness of the watcher, the basis of the theorem below.        *)
THEOREM WatcherTypeCorrect == Spec => []TypeOK
BY WatcherTypes, PTL DEF Spec

(* No wake-up is ever lost between push and run (session_watch.go push and *)
(* run): a goroutine blocked on notify with events queued has a token      *)
(* waiting or coming.  NoLostWakeup is inductive by itself.                *)
THEOREM WatcherNoLostWakeup == Spec => []NoLostWakeup
<1>1. Init => NoLostWakeup
  BY DEF Init, NoLostWakeup
<1>2. TypeOK /\ NoLostWakeup /\ [Next]_vars => NoLostWakeup'
  BY DEF TypeOK, NoLostWakeup, Next, Goroutine, Pop, Send, Wake, Stop, CloseOut,
         PushEnqueue, PushNotify, Cancel, vars
<1> QED
  BY <1>1, <1>2, WatcherTypeCorrect, PTL DEF Spec

-----------------------------------------------------------------------------
(* The watcher is a FIFO stream.                                            *)

(* An event is in hand only while it is being sent.                         *)
HandIsSending == run # "send" => inHand = None

(* The stream's view of the queue.                                          *)
LEMMA OneInHand ==
  ASSUME NEW q \in Seq(Items), NEW x \in Items
  PROVE  /\ <<x>> \o q \in Seq(Items) /\ <<x>> \o q # <<>>
         /\ Head(<<x>> \o q) = x /\ Tail(<<x>> \o q) = q
         /\ \A i \in Items : Append(<<x>> \o q, i) = <<x>> \o Append(q, i)
<1>1. <<x>> \in Seq(Items) /\ Len(<<x>>) = 1 /\ <<x>>[1] = x
  OBVIOUS
<1>2. /\ <<x>> \o q \in Seq(Items) /\ Len(<<x>> \o q) = 1 + Len(q) /\ Len(q) \in Nat
      /\ \A i \in 1..Len(<<x>> \o q) : (<<x>> \o q)[i] = IF i <= 1 THEN x ELSE q[i - 1]
  BY <1>1, ConcatProperties, LenProperties
<1>3. <<x>> \o q # <<>> /\ Head(<<x>> \o q) = x
  BY <1>2, HeadTailProperties
<1>4. Tail(<<x>> \o q) = q
  <2>1. /\ Tail(<<x>> \o q) \in Seq(Items) /\ Len(Tail(<<x>> \o q)) = Len(q)
        /\ \A i \in 1..Len(q) : Tail(<<x>> \o q)[i] = (<<x>> \o q)[i + 1]
    BY <1>2, <1>3, HeadTailProperties
  <2>2. \A i \in 1..Len(q) : Tail(<<x>> \o q)[i] = q[i]
    BY <1>2, <2>1
  <2> QED
    BY <2>1, <2>2, SeqEqual
<1>5. ASSUME NEW i \in Items PROVE Append(<<x>> \o q, i) = <<x>> \o Append(q, i)
  <2>1. <<i>> \in Seq(Items)
    OBVIOUS
  <2>2. Append(<<x>> \o q, i) = (<<x>> \o q) \o <<i>> /\ Append(q, i) = q \o <<i>>
    BY <1>2, AppendIsConcat
  <2> QED
    BY <1>1, <2>1, <2>2, ConcatAssociative
<1> QED
  BY <1>2, <1>3, <1>4, <1>5

(* Every step of push, pop and run is a step of the stream or none: what is   *)
(* published is received in order, none twice and none skipped, until the    *)
(* watch ends.                                                              *)
LEMMA StepIsStreamStep ==
  ASSUME TypeOK, HandIsSending, [Next]_vars
  PROVE  [Stream!Next]_(Stream!streamVars)
<1> USE DEF Stream!streamVars, Stopped
<1>1. CASE Pop
  <2>1. CASE queue = <<>>
    BY <1>1, <2>1 DEF Pop
  <2>2. CASE queue # <<>>
    <3>1. Head(queue) \in Items /\ Head(queue) # None /\ <<Head(queue)>> \o Tail(queue) = queue
      BY <2>2, WatcherAssumption, HeadTailProperties, ConcatSimplifications DEF TypeOK
    <3>2. /\ inHand = None /\ run = "pop" /\ run' = "send" /\ inHand' = Head(queue)
          /\ queue' = Tail(queue) /\ delivered' = delivered
      BY <1>1, <2>2 DEF Pop, HandIsSending
    <3> QED
      BY <3>1, <3>2
  <2> QED
    BY <2>1, <2>2
<1>2. CASE Send
  <2>1. /\ run = "send" /\ inHand \in Items /\ inHand # None /\ queue \in Seq(Items)
        /\ run' = "pop" /\ inHand' = None /\ queue' = queue
        /\ delivered' = Append(delivered, inHand)
    BY <1>2 DEF Send, TypeOK
  <2>2. /\ <<inHand>> \o queue # <<>> /\ Head(<<inHand>> \o queue) = inHand
        /\ Tail(<<inHand>> \o queue) = queue
    BY <2>1, OneInHand
  <2>3. Stream!Receive
    BY <2>1, <2>2 DEF Stream!Receive
  <2> QED
    BY <2>3 DEF Stream!Next
<1>3. CASE Wake \/ CloseOut \/ PushNotify \/ Cancel \/ UNCHANGED vars
  BY <1>3 DEF Wake, CloseOut, PushNotify, Cancel, vars
<1>4. CASE Stop
  <2>1. Stream!Close
    BY <1>4 DEF Stop, Stream!Close
  <2> QED
    BY <2>1 DEF Stream!Next
<1>5. ASSUME NEW i \in Items, PushEnqueue(i) PROVE [Stream!Next]_(Stream!streamVars)
  <2>1. CASE Stopped
    BY <1>5, <2>1 DEF PushEnqueue
  <2>2. CASE ~Stopped
    <3>1. queue' = queue \/ queue' = Append(queue, i)
      BY <1>5 DEF PushEnqueue
    <3>2. CASE queue' = queue
      BY <1>5, <3>2 DEF PushEnqueue
    <3>3. CASE queue' = Append(queue, i)
      <4>1. inHand # None => Append(<<inHand>> \o queue, i) = <<inHand>> \o Append(queue, i)
        BY OneInHand, SMTT(60) DEF TypeOK
      <4>2. Stream!Publish(i)
        BY <1>5, <2>2, <3>3, <4>1 DEF PushEnqueue, Stream!Publish
      <4> QED
        BY <4>2 DEF Stream!Next
    <3> QED
      BY <3>1, <3>2, <3>3
  <2> QED
    BY <2>1, <2>2
<1> QED
  BY <1>1, <1>2, <1>3, <1>4, <1>5 DEF Next, Goroutine

(* The watcher implements the safety part of the stream it promises.         *)
THEOREM WatcherIsAStream == Spec => Stream!Init /\ [][Stream!Next]_(Stream!streamVars)
<1>1. Init => HandIsSending /\ Stream!Init
  BY WatcherAssumption DEF Init, HandIsSending, Stream!Init, Stopped
<1>2. HandIsSending /\ [Next]_vars => HandIsSending'
  BY DEF HandIsSending, Next, Goroutine, Pop, Send, Wake, Stop, CloseOut, PushEnqueue, PushNotify,
         Cancel, vars
<1>3. TypeOK /\ HandIsSending /\ [Next]_vars => [Stream!Next]_(Stream!streamVars)
  BY StepIsStreamStep
<1> QED
  BY <1>1, <1>2, <1>3, WatcherTypeCorrect, PTL DEF Spec

-----------------------------------------------------------------------------
(* A background execution has one supervisor, its recorded exit is real and *)
(* its output is counted once.                                              *)

------------------------------------------------------------------------------
(* The shape of the state, before any of its counts is bounded.                   *)

BgCounters == [bytes : Nat, synced : Nat, dirty : BOOLEAN]
BgProcShape == bgProc \in [state : {"none", "running", "dead"}, reused : BOOLEAN]
BgOutputShape == bgOutput \in [written : Nat, readyAt : 0..BgMaxChunks, patterns : BOOLEAN]
BgRecordShape == bgRecord \in 
    [started : BOOLEAN, status : BgStatuses, ready : BOOLEAN, exited : BOOLEAN, bytes : Nat]
BgLiveShape == bgLive \in Nat
BgLogShape == bgLog \in [stored : Nat, buffered : Nat]
BgObserverShape == bgObserver \in BgCounters
BgTrackedShape == bgTracked \in BOOLEAN
BgChannelsShape == bgChannels \in [ready : BOOLEAN, exit : {"open", "sent", "closed"}]
BgCallShape == bgCall \in {"spawn", "record", "track", "wait", "exited", "done"}
BgMonitorShape == bgMonitor \in {"none", "watch", "watch_exit", "finish"}
BgPumpShape == bgPump \in 
    [BgPumps -> [pc : {"read", "sync", "detect"}, bytes : Nat, ready : BOOLEAN]]
BgResumePcs == {"idle", "track", "inspect", "scan", "exited", "sync", "final", "detect", "poll",
                "exit", "lost", "finish"}
BgResumeRecords ==
    [pc : BgResumePcs,
     monitored : BOOLEAN, ready : BOOLEAN, detector : BOOLEAN, seed : Nat, offset : Nat,
     observer : BgCounters, due : BOOLEAN]
BgResumeShape == bgResume \in [BgResumers -> BgResumeRecords]
BgBoundShape == bgBound \in 
    [crashes : 0..BgMaxCrashes, resumes : 0..BgMaxResumes, opened : BOOLEAN]
BgShape ==
    /\ BgProcShape /\ BgOutputShape /\ BgRecordShape /\ BgLiveShape
    /\ BgLogShape /\ BgObserverShape /\ BgTrackedShape /\ BgChannelsShape
    /\ BgCallShape /\ BgMonitorShape /\ BgPumpShape /\ BgResumeShape /\ BgBoundShape

LEMMA BgResumePut ==
    ASSUME BgResumeShape, NEW r \in BgResumers, NEW me \in BgResumeRecords,
           bgResume' = [bgResume EXCEPT ![r] = me]
    PROVE  BgResumeShape'
BY DEF BgResumeShape

LEMMA BgResumeMoves ==
    ASSUME BgResumeShape, NEW r \in BgResumers,
           NEW pc \in BgResumePcs, ResumeAt(r, pc)
    PROVE  BgResumeShape'
<1>1. bgResume' = [bgResume EXCEPT ![r] = [bgResume[r] EXCEPT !.pc = pc]]
  BY DEF ResumeAt
<1>2. [bgResume[r] EXCEPT !.pc = pc] \in BgResumeRecords
  BY DEF BgResumeShape, BgResumeRecords
<1> QED
  BY <1>1, <1>2, BgResumePut

LEMMA BgResumeStops ==
    ASSUME BgResumeShape, NEW r \in BgResumers, ResumeEnds(r)
    PROVE  BgResumeShape'
<1>1. BgIdleResume \in BgResumeRecords
  BY DEF BgIdleResume, BgNoObserver, BgResumeRecords, BgResumePcs, BgCounters
<1> QED
  BY <1>1, BgResumePut DEF ResumeEnds

LEMMA BgFlushes ==
    ASSUME NEW observer \in BgCounters
    PROVE  /\ Flushed(observer) \in BgCounters
           /\ Flushed(observer).bytes = observer.bytes
           /\ observer.bytes > 0 => ~Flushed(observer).dirty
           /\ Flushed(observer).dirty => observer.dirty
BY DEF Flushed, BgCounters

LEMMA BgAppends ==
    ASSUME BgRecordShape, BgLiveShape, NEW observer \in BgCounters, NEW ready \in BOOLEAN,
           NEW status \in BgStatuses, AppendAfterFlush(observer, ready, status)
    PROVE  BgRecordShape' /\ BgLiveShape'
<1>1. FlushedBytes(observer, bgRecord) \in Nat
  BY DEF FlushedBytes, BgRecordShape, BgCounters
<1>2. PICK bytes \in Nat : bgRecord' = Recorded(bgRecord, bytes, ready, status)
  BY <1>1 DEF AppendAfterFlush
<1>3. BgRecordShape'
  BY <1>2, ZenonT(60) DEF Recorded, BgRecordShape
<1>4. BgLiveShape'
  BY DEF AppendAfterFlush, FlushedLive, BgLiveShape, BgCounters
<1> QED
  BY <1>3, <1>4

(* A step of a resumed monitor that may append Ready.                             *)
BgScans(me, rec) ==
    /\ rec.seed = me.seed /\ rec.due = me.due /\ rec.monitored = me.monitored
    /\ rec.observer \in {me.observer, Flushed(me.observer)}
    /\ \/ me.pc = "scan" /\ rec.pc = "sync" /\ rec.offset = me.offset
       \/ me.pc = "detect" /\ rec.pc = "poll" /\ rec.offset = me.offset
       \/ me.pc = "exited" /\ rec.pc = "final" /\ rec.offset = me.seed

BgRead(me, pc, detector, offset, observer) ==
    [me EXCEPT !.pc = pc, !.detector = detector, !.offset = offset, !.observer = observer]

LEMMA BgReadyChange ==
    ASSUME NEW me \in BgResumeRecords, NEW pc \in BgResumePcs, NEW detector \in BOOLEAN,
           NEW offset \in Nat, NEW observer \in BgCounters
    PROVE  LET rec == BgRead(me, pc, detector, offset, observer)
           IN /\ rec \in BgResumeRecords
              /\ rec.pc = pc /\ rec.offset = offset /\ rec.observer = observer
              /\ rec.seed = me.seed /\ rec.due = me.due /\ rec.monitored = me.monitored
<1> DEFINE rec == BgRead(me, pc, detector, offset, observer)
<1>1. rec \in BgResumeRecords
  BY ZenonT(60) DEF BgResumeRecords, BgRead
<1>2. /\ rec.pc = pc /\ rec.offset = offset /\ rec.observer = observer
      /\ rec.seed = me.seed /\ rec.due = me.due /\ rec.monitored = me.monitored
  BY SMTT(60) DEF BgResumeRecords, BgRead
<1> QED
  BY <1>1, <1>2

LEMMA BgScanStep ==
    ASSUME BgResumeShape, NEW r \in BgResumers,
           ResumeScan(r) \/ ResumeScanExited(r) \/ ResumeDetect(r)
    PROVE  \E rec \in BgResumeRecords :
              bgResume' = [bgResume EXCEPT ![r] = rec] /\ BgScans(bgResume[r], rec)
<1> DEFINE me == bgResume[r]
<1>1. me \in BgResumeRecords
  BY DEF BgResumeShape
<1>2. /\ me.observer \in BgCounters /\ me.seed \in Nat /\ me.offset \in Nat
      /\ me.detector \in BOOLEAN
  BY <1>1 DEF BgResumeRecords
<1>3. Flushed(me.observer) \in BgCounters
  BY <1>2, BgFlushes
<1>4. /\ "sync" \in BgResumePcs /\ "poll" \in BgResumePcs /\ "final" \in BgResumePcs
  BY DEF BgResumePcs
<1>5. ASSUME NEW pc, NEW detector, NEW offset, NEW observer,
             \/ (me.pc = "scan" /\ pc = "sync" /\ offset = me.offset)
             \/ (me.pc = "detect" /\ pc = "poll" /\ offset = me.offset)
             \/ (me.pc = "exited" /\ pc = "final" /\ offset = me.seed),
             detector \in BOOLEAN, observer \in {me.observer, Flushed(me.observer)},
             bgResume' = [bgResume EXCEPT ![r] = BgRead(me, pc, detector, offset, observer)]
      PROVE  \E rec \in BgResumeRecords :
                bgResume' = [bgResume EXCEPT ![r] = rec] /\ BgScans(me, rec)
  <2> DEFINE rec == BgRead(me, pc, detector, offset, observer)
  <2>1. /\ rec \in BgResumeRecords
        /\ rec.pc = pc /\ rec.offset = offset /\ rec.observer = observer
        /\ rec.seed = me.seed /\ rec.due = me.due /\ rec.monitored = me.monitored
    <3>1. pc \in BgResumePcs /\ offset \in Nat /\ observer \in BgCounters
      BY <1>2, <1>3, <1>4, <1>5
    <3> QED
      BY <1>1, <1>5, <3>1, BgReadyChange
  <2> HIDE DEF rec
  <2>2. BgScans(me, rec)
    BY <2>1, <1>5 DEF BgScans
  <2> QED
    BY <1>5, <2>1, <2>2 DEF rec
<1>6. CASE ResumeScan(r)
  <2>1. me.pc = "scan"
    BY <1>6 DEF ResumeScan, At
  <2>2. PICK detector \in BOOLEAN, observer \in {me.observer, Flushed(me.observer)} :
          bgResume' = [bgResume EXCEPT ![r] = BgRead(me, "sync", detector, me.offset, observer)]
    <3>1. CASE me.detector /\ ReadyInLog
      <4>1. bgResume' = [bgResume EXCEPT ![r] =
                            [me EXCEPT !.pc = "sync", !.detector = FALSE,
                                       !.observer = Flushed(me.observer)]]
        BY <1>6, <3>1 DEF ResumeScan
      <4>2. [me EXCEPT !.pc = "sync", !.detector = FALSE, !.observer = Flushed(me.observer)]
            = BgRead(me, "sync", FALSE, me.offset, Flushed(me.observer))
        BY <1>1 DEF BgResumeRecords, BgRead
      <4> QED
        BY <4>1, <4>2
    <3>2. CASE ~(me.detector /\ ReadyInLog)
      <4>1. bgResume' = [bgResume EXCEPT ![r] = [me EXCEPT !.pc = "sync"]]
        BY <1>6, <3>2 DEF ResumeScan, ResumeAt
      <4>2. [me EXCEPT !.pc = "sync"]
            = BgRead(me, "sync", me.detector, me.offset, me.observer)
        BY <1>1 DEF BgResumeRecords, BgRead
      <4> QED
        BY <1>2, <4>1, <4>2
    <3> QED
      BY <3>1, <3>2
  <2> QED
    BY <1>5, <2>1, <2>2
<1>7. CASE ResumeScanExited(r)
  <2>1. me.pc = "exited"
    BY <1>7 DEF ResumeScanExited, At
  <2>2. PICK observer \in {me.observer, Flushed(me.observer)} :
          bgResume' = [bgResume EXCEPT ![r] = BgRead(me, "final", me.detector, me.seed, observer)]
    <3>1. CASE bgOutput.patterns /\ ~me.ready /\ ReadyInLog
      <4>1. bgResume' = [bgResume EXCEPT ![r] =
                            [me EXCEPT !.pc = "final", !.offset = me.seed,
                                       !.observer = Flushed(me.observer)]]
        BY <1>7, <3>1 DEF ResumeScanExited
      <4>2. [me EXCEPT !.pc = "final", !.offset = me.seed, !.observer = Flushed(me.observer)]
            = BgRead(me, "final", me.detector, me.seed, Flushed(me.observer))
        BY <1>1 DEF BgResumeRecords, BgRead
      <4> QED
        BY <4>1, <4>2
    <3>2. CASE ~(bgOutput.patterns /\ ~me.ready /\ ReadyInLog)
      <4>1. bgResume' = [bgResume EXCEPT ![r] = [me EXCEPT !.pc = "final", !.offset = me.seed]]
        BY <1>7, <3>2 DEF ResumeScanExited
      <4>2. [me EXCEPT !.pc = "final", !.offset = me.seed]
            = BgRead(me, "final", me.detector, me.seed, me.observer)
        BY <1>1 DEF BgResumeRecords, BgRead
      <4> QED
        BY <4>1, <4>2
    <3> QED
      BY <3>1, <3>2
  <2> QED
    BY <1>2, <1>5, <2>1, <2>2
<1>8. CASE ResumeDetect(r)
  <2>1. me.pc = "detect"
    BY <1>8 DEF ResumeDetect, At
  <2>2. PICK detector \in BOOLEAN, observer \in {me.observer, Flushed(me.observer)} :
          bgResume' = [bgResume EXCEPT ![r] = BgRead(me, "poll", detector, me.offset, observer)]
    <3> DEFINE seen == me.detector /\ bgOutput.readyAt \in (me.seed + 1)..me.offset
    <3>1. CASE seen
      <4>1. bgResume' = [bgResume EXCEPT ![r] =
                            [me EXCEPT !.pc = "poll", !.detector = FALSE,
                                       !.observer = Flushed(me.observer)]]
        BY <1>8, <3>1 DEF ResumeDetect
      <4>2. [me EXCEPT !.pc = "poll", !.detector = FALSE, !.observer = Flushed(me.observer)]
            = BgRead(me, "poll", FALSE, me.offset, Flushed(me.observer))
        BY <1>1 DEF BgResumeRecords, BgRead
      <4> QED
        BY <4>1, <4>2
    <3>2. CASE ~seen
      <4>1. bgResume' = [bgResume EXCEPT ![r] = [me EXCEPT !.pc = "poll"]]
        BY <1>8, <3>2 DEF ResumeDetect, ResumeAt
      <4>2. [me EXCEPT !.pc = "poll"]
            = BgRead(me, "poll", me.detector, me.offset, me.observer)
        BY <1>1 DEF BgResumeRecords, BgRead
      <4> QED
        BY <1>2, <4>1, <4>2
    <3> QED
      BY <3>1, <3>2
  <2> QED
    BY <1>5, <2>1, <2>2
<1> QED
  BY <1>6, <1>7, <1>8

(* A step of a resumed monitor that emits a chunk.                                *)
BgEmits(me, rec) ==
    /\ rec.seed = me.seed /\ rec.monitored = me.monitored
    /\ rec.offset = me.offset + 1 /\ rec.observer.bytes = me.observer.bytes + 1
    /\ \/ me.pc = "sync" /\ rec.pc \in {"sync", "detect"}
       \/ me.pc = "final" /\ rec.pc \in {"final", "exit"}

BgEmitted(me, pc, offset, due, observer) ==
    [me EXCEPT !.pc = pc, !.offset = offset, !.due = due, !.observer = observer]

LEMMA BgEmitChange ==
    ASSUME NEW me \in BgResumeRecords, NEW pc \in BgResumePcs, NEW offset \in Nat,
           NEW due \in BOOLEAN, NEW observer \in BgCounters
    PROVE  LET rec == BgEmitted(me, pc, offset, due, observer)
           IN /\ rec \in BgResumeRecords
              /\ rec.pc = pc /\ rec.offset = offset /\ rec.observer = observer
              /\ rec.seed = me.seed /\ rec.monitored = me.monitored
<1> DEFINE rec == BgEmitted(me, pc, offset, due, observer)
<1>1. rec \in BgResumeRecords
  BY ZenonT(60) DEF BgResumeRecords, BgEmitted
<1>2. /\ rec.pc = pc /\ rec.offset = offset /\ rec.observer = observer
      /\ rec.seed = me.seed /\ rec.monitored = me.monitored
  BY SMTT(60) DEF BgResumeRecords, BgEmitted
<1> QED
  BY <1>1, <1>2

LEMMA BgEmitStep ==
    ASSUME BgResumeShape, NEW r \in BgResumers, ResumeEmit(r)
    PROVE  \E rec \in BgResumeRecords :
              bgResume' = [bgResume EXCEPT ![r] = rec] /\ BgEmits(bgResume[r], rec)
<1> DEFINE me == bgResume[r]
           pc == IF me.offset + 1 = bgLog.stored THEN Synced(me.pc) ELSE me.pc
           observer == [me.observer EXCEPT !.bytes = me.observer.bytes + 1, !.dirty = TRUE]
<1>1. me \in BgResumeRecords
  BY DEF BgResumeShape
<1>2. me.observer \in BgCounters /\ me.offset \in Nat
  BY <1>1 DEF BgResumeRecords
<1>3. observer \in BgCounters /\ observer.bytes = me.observer.bytes + 1
  <2>1. PICK o \in BgCounters : o = me.observer
    BY <1>2
  <2>2. PICK n \in Nat : n = o.bytes + 1
    BY DEF BgCounters
  <2>3. /\ [o EXCEPT !.bytes = n, !.dirty = TRUE] \in BgCounters
        /\ [o EXCEPT !.bytes = n, !.dirty = TRUE].bytes = n
    BY ZenonT(60) DEF BgCounters
  <2> QED
    BY <2>1, <2>2, <2>3
<1>4. \/ me.pc = "sync" /\ pc \in {"sync", "detect"}
      \/ me.pc = "final" /\ pc \in {"final", "exit"}
  BY DEF ResumeEmit, At, Synced
<1>5. pc \in BgResumePcs
  BY <1>4 DEF BgResumePcs
<1>6. PICK due \in BOOLEAN :
        bgResume' = [bgResume EXCEPT ![r] = BgEmitted(me, pc, me.offset + 1, due, observer)]
  BY DEF ResumeEmit, BgEmitted
<1> DEFINE rec == BgEmitted(me, pc, me.offset + 1, due, observer)
<1>7. me.offset + 1 \in Nat
  BY <1>2
<1> HIDE DEF pc, observer
<1>8. /\ rec \in BgResumeRecords
      /\ rec.pc = pc /\ rec.offset = me.offset + 1 /\ rec.observer = observer
      /\ rec.seed = me.seed /\ rec.monitored = me.monitored
  BY <1>1, <1>3, <1>5, <1>7, BgEmitChange
<1> HIDE DEF rec
<1>9. BgEmits(me, rec)
  BY <1>3, <1>4, <1>8 DEF BgEmits
<1> QED
  BY <1>6, <1>8, <1>9 DEF rec

LEMMA BgShapeInit == BgInit => BgShape
<1> SUFFICES ASSUME BgInit PROVE BgShape
  OBVIOUS
<1> USE BgAssumption
   DEF BgInit, BgNoObserver, BgIdlePump, BgIdleResume, BgShape, BgProcShape,
       BgOutputShape, BgRecordShape, BgLiveShape, BgLogShape, BgObserverShape,
       BgTrackedShape, BgChannelsShape, BgCallShape, BgMonitorShape, BgPumpShape,
       BgResumeShape, BgResumeRecords, BgResumePcs, BgBoundShape, BgCounters, BgStatuses
<1>1. BgProcShape
  OBVIOUS
<1>2. BgOutputShape
  OBVIOUS
<1>3. BgRecordShape
  OBVIOUS
<1>4. BgLiveShape
  OBVIOUS
<1>5. BgLogShape
  OBVIOUS
<1>6. BgObserverShape
  OBVIOUS
<1>7. BgTrackedShape
  OBVIOUS
<1>8. BgChannelsShape
  OBVIOUS
<1>9. BgCallShape
  OBVIOUS
<1>10. BgMonitorShape
  OBVIOUS
<1>11. BgPumpShape
  OBVIOUS
<1>12. BgResumeShape
  OBVIOUS
<1>13. BgBoundShape
  BY SMTT(60)
<1> QED
  BY <1>1, <1>2, <1>3, <1>4, <1>5, <1>6, <1>7, <1>8, <1>9, <1>10, <1>11, <1>12,
     <1>13

LEMMA BgShapeStep == BgShape /\ [BgNext]_bgVars => BgShape'
<1> SUFFICES ASSUME BgShape, [BgNext]_bgVars PROVE BgShape'
  OBVIOUS
<1> USE BgAssumption
   DEF BgShape, BgProcShape, BgOutputShape, BgRecordShape, BgLiveShape, BgLogShape,
       BgObserverShape, BgTrackedShape, BgChannelsShape, BgCallShape,
       BgMonitorShape, BgPumpShape, BgResumeShape, BgBoundShape, BgCounters,
       BgStatuses
<1>1. CASE SpawnFails
  <2>1. BgCallShape'
    BY <1>1 DEF SpawnFails
  <2> QED
    BY <1>1, <2>1 DEF SpawnFails
<1>2. CASE Spawn
  <2>1. BgCallShape'
    BY <1>2 DEF Spawn
  <2>2. BgProcShape'
    BY <1>2 DEF Spawn
  <2> QED
    BY <1>2, <2>1, <2>2 DEF Spawn
<1>3. CASE AppendStarted
  <2>1. BgCallShape'
    BY <1>3 DEF AppendStarted
  <2>2. BgRecordShape'
    BY <1>3 DEF AppendStarted
  <2> QED
    BY <1>3, <2>1, <2>2 DEF AppendStarted
<1>4. CASE Track
  <2>1. BgTrackedShape'
    BY <1>4 DEF Track
  <2>2. BgCallShape'
    BY <1>4 DEF Track
  <2>3. BgMonitorShape'
    BY <1>4 DEF Track
  <2> QED
    BY <1>4, <2>1, <2>2, <2>3 DEF Track
<1>5. CASE WaitReady
  <2>1. BgChannelsShape'
    BY <1>5
       DEF WaitReady, AppendAfterFlush, Recorded, FlushedBytes, FlushedLive,
           Flushed
  <2>2. BgRecordShape'
    BY <1>5, ZenonT(60)
       DEF WaitReady, AppendAfterFlush, Recorded, FlushedBytes, FlushedLive,
           Flushed
  <2>3. BgLiveShape'
    BY <1>5
       DEF WaitReady, AppendAfterFlush, Recorded, FlushedBytes, FlushedLive,
           Flushed
  <2>4. BgObserverShape'
    BY <1>5
       DEF WaitReady, AppendAfterFlush, Recorded, FlushedBytes, FlushedLive,
           Flushed
  <2>5. BgCallShape'
    BY <1>5
       DEF WaitReady, AppendAfterFlush, Recorded, FlushedBytes, FlushedLive,
           Flushed
  <2>6. BgMonitorShape'
    BY <1>5
       DEF WaitReady, AppendAfterFlush, Recorded, FlushedBytes, FlushedLive,
           Flushed
  <2> QED
    BY <1>5, <2>1, <2>2, <2>3, <2>4, <2>5, <2>6 DEF WaitReady
<1>6. CASE WaitExited
  <2>1. BgChannelsShape'
    BY <1>6 DEF WaitExited
  <2>2. BgTrackedShape'
    BY <1>6 DEF WaitExited
  <2>3. BgCallShape'
    BY <1>6 DEF WaitExited
  <2> QED
    BY <1>6, <2>1, <2>2, <2>3 DEF WaitExited
<1>7. CASE AppendExited
  <2>1. BgRecordShape'
    BY <1>7, ZenonT(60)
       DEF AppendExited, AppendAfterFlush, Recorded, FlushedBytes, FlushedLive,
           Flushed
  <2>2. BgLiveShape'
    BY <1>7
       DEF AppendExited, AppendAfterFlush, Recorded, FlushedBytes, FlushedLive,
           Flushed
  <2>3. BgObserverShape'
    BY <1>7
       DEF AppendExited, AppendAfterFlush, Recorded, FlushedBytes, FlushedLive,
           Flushed
  <2>4. BgCallShape'
    BY <1>7
       DEF AppendExited, AppendAfterFlush, Recorded, FlushedBytes, FlushedLive,
           Flushed
  <2> QED
    BY <1>7, <2>1, <2>2, <2>3, <2>4 DEF AppendExited
<1>8. CASE WaitTimeout
  <2>1. BgCallShape'
    BY <1>8 DEF WaitTimeout
  <2>2. BgMonitorShape'
    BY <1>8 DEF WaitTimeout
  <2> QED
    BY <1>8, <2>1, <2>2 DEF WaitTimeout
<1>9. CASE MonitorReady
  <2>1. BgChannelsShape'
    BY <1>9
       DEF MonitorReady, AppendAfterFlush, Recorded, FlushedBytes, FlushedLive,
           Flushed
  <2>2. BgRecordShape'
    BY <1>9, ZenonT(60)
       DEF MonitorReady, AppendAfterFlush, Recorded, FlushedBytes, FlushedLive,
           Flushed
  <2>3. BgLiveShape'
    BY <1>9
       DEF MonitorReady, AppendAfterFlush, Recorded, FlushedBytes, FlushedLive,
           Flushed
  <2>4. BgObserverShape'
    BY <1>9
       DEF MonitorReady, AppendAfterFlush, Recorded, FlushedBytes, FlushedLive,
           Flushed
  <2>5. BgMonitorShape'
    BY <1>9
       DEF MonitorReady, AppendAfterFlush, Recorded, FlushedBytes, FlushedLive,
           Flushed
  <2> QED
    BY <1>9, <2>1, <2>2, <2>3, <2>4, <2>5 DEF MonitorReady
<1>10. CASE MonitorExited
  <2>1. BgChannelsShape'
    BY <1>10
       DEF MonitorExited, AppendAfterFlush, Recorded, FlushedBytes, FlushedLive,
           Flushed
  <2>2. BgRecordShape'
    BY <1>10, ZenonT(60)
       DEF MonitorExited, AppendAfterFlush, Recorded, FlushedBytes, FlushedLive,
           Flushed
  <2>3. BgLiveShape'
    BY <1>10
       DEF MonitorExited, AppendAfterFlush, Recorded, FlushedBytes, FlushedLive,
           Flushed
  <2>4. BgObserverShape'
    BY <1>10
       DEF MonitorExited, AppendAfterFlush, Recorded, FlushedBytes, FlushedLive,
           Flushed
  <2>5. BgMonitorShape'
    BY <1>10
       DEF MonitorExited, AppendAfterFlush, Recorded, FlushedBytes, FlushedLive,
           Flushed
  <2> QED
    BY <1>10, <2>1, <2>2, <2>3, <2>4, <2>5 DEF MonitorExited
<1>11. CASE MonitorFinish
  <2>1. BgMonitorShape'
    BY <1>11 DEF MonitorFinish
  <2>2. BgTrackedShape'
    BY <1>11 DEF MonitorFinish
  <2> QED
    BY <1>11, <2>1, <2>2 DEF MonitorFinish
<1>12. ASSUME NEW p \in BgPumps, PumpRead(p) PROVE BgShape'
  <2>1. BgOutputShape'
    BY <1>12 DEF PumpRead
  <2>2. BgLiveShape'
    BY <1>12 DEF PumpRead
  <2>3. BgObserverShape'
    <3>1. bgObserver' = [bytes |-> bgObserver.bytes + 1, synced |-> bgObserver.synced, dirty |-> TRUE]
      BY <1>12 DEF PumpRead
    <3> QED
      BY <3>1
  <2>4. BgPumpShape'
    BY <1>12 DEF PumpRead
  <2> QED
    BY <1>12, <2>1, <2>2, <2>3, <2>4 DEF PumpRead
<1>13. ASSUME NEW p \in BgPumps, PumpSync(p) PROVE BgShape'
  <2>1. BgRecordShape'
    BY <1>13 DEF PumpSync
  <2>2. BgLiveShape'
    BY <1>13 DEF PumpSync
  <2>3. BgObserverShape'
    BY <1>13 DEF PumpSync
  <2>4. BgPumpShape'
    BY <1>13 DEF PumpSync
  <2> QED
    BY <1>13, <2>1, <2>2, <2>3, <2>4 DEF PumpSync
<1>14. ASSUME NEW p \in BgPumps, PumpDetect(p) PROVE BgShape'
  <2>1. BgChannelsShape'
    BY <1>14 DEF PumpDetect, BgIdlePump
  <2>2. BgLogShape'
    BY <1>14 DEF PumpDetect, BgIdlePump
  <2>3. BgPumpShape'
    BY <1>14 DEF PumpDetect, BgIdlePump
  <2> QED
    BY <1>14, <2>1, <2>2, <2>3 DEF PumpDetect
<1>15. CASE FlushLog
  <2>1. BgLogShape'
    BY <1>15 DEF FlushLog
  <2> QED
    BY <1>15, <2>1 DEF FlushLog
<1>16. CASE ProcessExits
  <2>1. BgProcShape'
    BY <1>16 DEF ProcessExits
  <2> QED
    BY <1>16, <2>1 DEF ProcessExits
<1>17. CASE PidReused
  <2>1. BgProcShape'
    BY <1>17 DEF PidReused
  <2> QED
    BY <1>17, <2>1 DEF PidReused
<1>18. CASE SendExited
  <2>1. BgLogShape'
    BY <1>18 DEF SendExited
  <2>2. BgChannelsShape'
    BY <1>18 DEF SendExited
  <2> QED
    BY <1>18, <2>1, <2>2 DEF SendExited
<1>19. ASSUME NEW r \in BgResumers, ResumeSnapshot(r) PROVE BgShape'
  <2>1. BgBoundShape'
    <3>1. bgBound' = [crashes |-> bgBound.crashes, resumes |-> bgBound.resumes + 1, opened |-> TRUE]
      BY <1>19 DEF ResumeSnapshot
    <3>2. bgBound.crashes \in 0..BgMaxCrashes /\ bgBound.resumes + 1 \in 0..BgMaxResumes
      BY <1>19 DEF ResumeSnapshot
    <3> QED
      BY <3>1, <3>2
  <2>2. BgResumeShape'
    <3>1. Candidate \in BgResumeRecords /\ BgIdleResume \in BgResumeRecords
      BY DEF Candidate, BgIdleResume, BgNoObserver, BgResumeRecords, BgResumePcs
    <3>2. PICK me \in BgResumeRecords : bgResume' = [bgResume EXCEPT ![r] = me]
      BY <1>19, <3>1 DEF ResumeSnapshot
    <3> QED
      BY <3>2, BgResumePut
  <2> QED
    BY <1>19, <2>1, <2>2 DEF ResumeSnapshot
<1>20. ASSUME NEW r \in BgResumers, ResumeTrack(r) PROVE BgShape'
  <2>1. BgTrackedShape'
    BY <1>20 DEF ResumeTrack
  <2>2. BgResumeShape'
    <3>1. ResumeEnds(r) \/ ResumeAt(r, "inspect")
      BY <1>20 DEF ResumeTrack
    <3> QED
      BY <3>1, BgResumeStops, BgResumeMoves DEF BgResumePcs
  <2> QED
    BY <1>20, <2>1, <2>2 DEF ResumeTrack
<1>21. ASSUME NEW r \in BgResumers, ResumeInspect(r) PROVE BgShape'
  <2>1. BgResumeShape'
    <3>1. PICK found \in {"lost", "scan", "exited"} :
            bgResume' = [bgResume EXCEPT ![r].pc = found, ![r].monitored = (found = "scan")]
      BY <1>21, ZenonT(60) DEF ResumeInspect, Inspection
    <3>2. PICK monitored \in BOOLEAN :
            bgResume' = [bgResume EXCEPT ![r].pc = found, ![r].monitored = monitored]
      BY <3>1, Zenon
    <3>3. bgResume' = [bgResume EXCEPT ![r] = [[@ EXCEPT !.pc = found] EXCEPT !.monitored = monitored]]
      BY <3>2
    <3>4. bgResume[r] \in BgResumeRecords /\ found \in BgResumePcs
      BY DEF BgResumePcs
    <3> HIDE DEF BgShape, BgResumeShape, BgCounters
    <3>5. [[bgResume[r] EXCEPT !.pc = found] EXCEPT !.monitored = monitored] \in BgResumeRecords
      BY <3>4, ZenonT(60) DEF BgResumeRecords
    <3> QED
      BY <3>3, <3>5, BgResumePut DEF BgShape
  <2>2. BgTrackedShape'
    BY <1>21 DEF ResumeInspect, Inspection
  <2> QED
    BY <1>21, <2>1, <2>2 DEF ResumeInspect
<1>22. ASSUME NEW r \in BgResumers, ResumeScan(r) \/ ResumeScanExited(r) \/ ResumeDetect(r)
       PROVE  BgShape'
  <2> DEFINE me == bgResume[r]
  <2>1. me \in BgResumeRecords /\ me.observer \in BgCounters
    BY DEF BgResumeRecords
  <2>2. \/ UNCHANGED <<bgRecord, bgLive>>
        \/ AppendAfterFlush(me.observer, TRUE, "ready")
    BY <1>22 DEF ResumeScan, ResumeScanExited, ResumeDetect
  <2>3. BgRecordShape' /\ BgLiveShape'
    BY <2>1, <2>2, BgAppends, ZenonT(60)
  <2>4. BgResumeShape'
    <3>1. PICK rec \in BgResumeRecords : bgResume' = [bgResume EXCEPT ![r] = rec]
      BY <1>22, BgScanStep
    <3> QED
      BY <3>1, BgResumePut
  <2>5. UNCHANGED <<bgProc, bgOutput, bgLog, bgObserver, bgTracked, bgChannels, bgCall, bgMonitor,
                    bgPump, bgBound>>
    BY <1>22 DEF ResumeScan, ResumeScanExited, ResumeDetect
  <2> QED
    BY <2>3, <2>4, <2>5
<1>23. ASSUME NEW r \in BgResumers, ResumeEmit(r) PROVE BgShape'
  <2>1. PICK rec \in BgResumeRecords : bgResume' = [bgResume EXCEPT ![r] = rec]
    BY <1>23, BgEmitStep
  <2>2. BgResumeShape'
    BY <2>1, BgResumePut
  <2>3. BgLiveShape'
    BY <1>23 DEF ResumeEmit
  <2> QED
    BY <1>23, <2>2, <2>3 DEF ResumeEmit
<1>24. ASSUME NEW r \in BgResumers, ResumeObserved(r) PROVE BgShape'
  <2> DEFINE me == bgResume[r]
             n == me.observer.bytes
             observer == [bytes |-> n, synced |-> n, dirty |-> FALSE]
             rec == [me EXCEPT !.due = FALSE, !.observer = observer]
  <2>1. n \in Nat
    BY DEF BgResumeRecords
  <2>2. rec \in BgResumeRecords
    <3>1. observer \in BgCounters /\ me \in BgResumeRecords
      BY <2>1
    <3> HIDE DEF observer, BgShape, BgResumeShape, BgCounters
    <3> QED
      BY <3>1, ZenonT(60) DEF BgResumeRecords
  <2>3. bgResume' = [bgResume EXCEPT ![r] = rec]
    BY <1>24, ZenonT(60) DEF ResumeObserved
  <2>4. BgResumeShape'
    BY <2>2, <2>3, BgResumePut
  <2>5. BgRecordShape' /\ BgLiveShape'
    BY <1>24, <2>1 DEF ResumeObserved
  <2> QED
    BY <1>24, <2>4, <2>5 DEF ResumeObserved
<1>25. ASSUME NEW r \in BgResumers, ResumeSynced(r) \/ ResumeLogFails(r) \/ ResumePoll(r)
       PROVE  BgShape'
  <2>1. PICK pc \in BgResumePcs : ResumeAt(r, pc)
    BY <1>25, SMTT(30) DEF ResumeSynced, Synced, ResumeLogFails, ResumePoll, Inspection, BgResumePcs
  <2>2. BgResumeShape'
    BY <2>1, BgResumeMoves
  <2> QED
    BY <1>25, <2>2 DEF ResumeSynced, ResumeLogFails, ResumePoll
<1>26. ASSUME NEW r \in BgResumers, ResumeTerminal(r) \/ ResumeFinish(r) PROVE BgShape'
  <2>1. bgResume[r].observer \in BgCounters
    BY DEF BgResumeRecords
  <2>2. BgRecordShape' /\ BgLiveShape'
    <3>1. CASE ResumeTerminal(r)
      <4>1. PICK status \in {"exited", "lost"} :
              AppendAfterFlush(bgResume[r].observer, FALSE, status)
        BY <3>1 DEF ResumeTerminal
      <4>2. status \in BgStatuses /\ FALSE \in BOOLEAN
        OBVIOUS
      <4> HIDE DEF BgShape, BgRecordShape, BgLiveShape, BgCounters, BgStatuses
      <4> QED
        BY <2>1, <4>1, <4>2, BgAppends DEF BgShape
    <3>2. CASE ResumeFinish(r)
      BY <3>2 DEF ResumeFinish
    <3> QED
      BY <1>26, <3>1, <3>2
  <2>3. ResumeAt(r, "finish") \/ ResumeEnds(r)
    BY <1>26 DEF ResumeTerminal, ResumeFinish
  <2>4. BgResumeShape'
    BY <2>3, BgResumeMoves, BgResumeStops DEF BgResumePcs
  <2>5. BgTrackedShape'
    BY <1>26 DEF ResumeTerminal, ResumeFinish
  <2>6. UNCHANGED <<bgProc, bgOutput, bgLog, bgObserver, bgChannels, bgCall, bgMonitor, bgPump,
                    bgBound>>
    BY <1>26 DEF ResumeTerminal, ResumeFinish
  <2> QED
    BY <2>2, <2>4, <2>5, <2>6
<1>27. CASE BgCrash
  <2>1. BgBoundShape'
    <3>1. bgBound' = [crashes |-> bgBound.crashes + 1, resumes |-> bgBound.resumes, opened |-> FALSE]
      BY <1>27 DEF BgCrash
    <3>2. bgBound.crashes + 1 \in 0..BgMaxCrashes /\ bgBound.resumes \in 0..BgMaxResumes
      BY <1>27 DEF BgCrash
    <3> QED
      BY <3>1, <3>2
  <2>2. BgLiveShape'
    BY <1>27 DEF BgCrash, BgNoObserver, BgIdlePump, BgIdleResume
  <2>3. BgLogShape'
    BY <1>27 DEF BgCrash, BgNoObserver, BgIdlePump, BgIdleResume
  <2>4. BgObserverShape'
    BY <1>27 DEF BgCrash, BgNoObserver, BgIdlePump, BgIdleResume
  <2>5. BgTrackedShape'
    BY <1>27 DEF BgCrash, BgNoObserver, BgIdlePump, BgIdleResume
  <2>6. BgChannelsShape'
    BY <1>27 DEF BgCrash, BgNoObserver, BgIdlePump, BgIdleResume
  <2>7. BgCallShape'
    BY <1>27 DEF BgCrash, BgNoObserver, BgIdlePump, BgIdleResume
  <2>8. BgMonitorShape'
    BY <1>27 DEF BgCrash, BgNoObserver, BgIdlePump, BgIdleResume
  <2>9. BgPumpShape'
    BY <1>27 DEF BgCrash, BgNoObserver, BgIdlePump, BgIdleResume
  <2>10. BgResumeShape'
    BY <1>27 DEF BgCrash, BgNoObserver, BgIdlePump, BgIdleResume, BgResumeRecords, BgResumePcs
  <2> QED
    BY <1>27, <2>1, <2>2, <2>3, <2>4, <2>5, <2>6, <2>7, <2>8, <2>9, <2>10
       DEF BgCrash
<1>28. CASE UNCHANGED bgVars
  BY <1>28 DEF bgVars
<1> QED
  BY <1>1, <1>2, <1>3, <1>4, <1>5, <1>6, <1>7, <1>8, <1>9, <1>10, <1>11, <1>12,
     <1>13, <1>14, <1>15, <1>16, <1>17, <1>18, <1>19, <1>20, <1>21, <1>22, <1>23,
     <1>24, <1>25, <1>26, <1>27, <1>28
     DEF BgNext, BgCallStep, BgMonitorStep, BgPumpStep, BgResumeStep

LEMMA BgShapeCorrect == BgSpec => []BgShape
BY BgShapeInit, BgShapeStep, PTL DEF BgSpec
------------------------------------------------------------------------------
(* One supervisor.                                                                *)

(* A resumed supervision that was not let in yet is not a monitor; one that ends  *)
(* as a monitor is one.                                                           *)
BgLetIn ==
    \A r \in BgResumers :
        /\ bgResume[r].pc \in {"idle", "track"} => ~bgResume[r].monitored
        /\ bgResume[r].pc = "finish" => bgResume[r].monitored
BgSupervision == BgLetIn /\ BgOneSupervisor

(* What reading the log leaves alone: who supervises, and, up to the terminal     *)
(* event, what is known of the process.                                           *)
BgGoesOn(r) ==
    /\ bgTracked' = bgTracked /\ bgCall' = bgCall /\ bgMonitor' = bgMonitor
    /\ bgProc' = bgProc /\ bgChannels' = bgChannels /\ bgBound' = bgBound
    /\ bgRecord'.started = bgRecord.started /\ bgRecord'.exited = bgRecord.exited
    /\ bgResume[r].pc \notin {"idle", "track", "inspect"} \/ bgResume'[r].pc = bgResume[r].pc
    /\ bgResume'[r].pc \notin {"idle", "track", "inspect", "finish"}
          \/ bgResume'[r].pc = bgResume[r].pc
    /\ bgResume'[r].pc \in {"exited", "final", "exit"} => bgResume[r].pc \in {"exited", "final", "exit"}
    /\ bgResume'[r].monitored = bgResume[r].monitored
    /\ \A q \in BgResumers \ {r} : bgResume'[q] = bgResume[q]

LEMMA BgReadyFlushed ==
    ASSUME NEW observer, AppendAfterFlush(observer, TRUE, "ready"), BgRecordShape
    PROVE  bgRecord'.started = bgRecord.started /\ bgRecord'.exited = bgRecord.exited
BY DEF AppendAfterFlush, Recorded, BgRecordShape

LEMMA BgReads ==
    ASSUME BgShape, NEW r \in BgResumers,
           \/ ResumeScan(r) \/ ResumeScanExited(r) \/ ResumeEmit(r) \/ ResumeObserved(r)
           \/ ResumeSynced(r) \/ ResumeLogFails(r) \/ ResumeDetect(r)
    PROVE  BgGoesOn(r)
<1>0. CASE ResumeScan(r) \/ ResumeScanExited(r) \/ ResumeDetect(r)
  <2>1. PICK rec \in BgResumeRecords :
          bgResume' = [bgResume EXCEPT ![r] = rec] /\ BgScans(bgResume[r], rec)
    BY <1>0, BgScanStep DEF BgShape
  <2>2. UNCHANGED <<bgProc, bgTracked, bgChannels, bgCall, bgMonitor, bgBound>>
    BY <1>0 DEF ResumeScan, ResumeScanExited, ResumeDetect
  <2>3. bgRecord' = bgRecord \/ AppendAfterFlush(bgResume[r].observer, TRUE, "ready")
    BY <1>0 DEF ResumeScan, ResumeScanExited, ResumeDetect
  <2>4. bgRecord'.started = bgRecord.started /\ bgRecord'.exited = bgRecord.exited
    BY <2>3, BgReadyFlushed DEF BgShape
  <2>5. bgResume'[r] = rec /\ \A q \in BgResumers \ {r} : bgResume'[q] = bgResume[q]
    BY <2>1 DEF BgShape, BgResumeShape
  <2> QED
    BY <2>1, <2>2, <2>4, <2>5 DEF BgGoesOn, BgScans
<1>3. CASE ResumeEmit(r)
  <2>1. PICK rec \in BgResumeRecords :
          bgResume' = [bgResume EXCEPT ![r] = rec] /\ BgEmits(bgResume[r], rec)
    BY <1>3, BgEmitStep DEF BgShape
  <2>2. UNCHANGED <<bgProc, bgRecord, bgTracked, bgChannels, bgCall, bgMonitor, bgBound>>
    BY <1>3 DEF ResumeEmit
  <2>3. bgResume'[r] = rec /\ \A q \in BgResumers \ {r} : bgResume'[q] = bgResume[q]
    BY <2>1 DEF BgShape, BgResumeShape
  <2> QED
    BY <2>1, <2>2, <2>3 DEF BgGoesOn, BgEmits
<1> USE DEF BgShape, BgResumeShape, BgResumeRecords, BgRecordShape, BgGoesOn
<1>4. CASE ResumeObserved(r)
  BY <1>4, SMTT(60) DEF ResumeObserved
<1>5. CASE ResumeSynced(r)
  BY <1>5, SMTT(60) DEF ResumeSynced, At, ResumeAt, Synced
<1>6. CASE ResumeLogFails(r)
  BY <1>6, SMTT(60) DEF ResumeLogFails, At, ResumeAt
<1> QED
  BY <1>0, <1>3, <1>4, <1>5, <1>6

LEMMA BgSupervisionStep == BgShape /\ BgSupervision /\ [BgNext]_bgVars => BgSupervision'
<1> SUFFICES ASSUME BgShape, BgSupervision, [BgNext]_bgVars PROVE BgSupervision'
  OBVIOUS
<1>1. CASE SpawnFails
  BY <1>1
     DEF SpawnFails, BgShape, BgCallShape, BgSupervision, BgLetIn, BgOneSupervisor,
         BgCallSupervises, BgMonitorSupervises, BgResumed
<1>2. CASE Spawn
  BY <1>2
     DEF Spawn, BgShape, BgCallShape, BgSupervision, BgLetIn, BgOneSupervisor,
         BgCallSupervises, BgMonitorSupervises, BgResumed
<1>3. CASE AppendStarted
  BY <1>3
     DEF AppendStarted, BgShape, BgCallShape, BgSupervision, BgLetIn,
         BgOneSupervisor, BgCallSupervises, BgMonitorSupervises, BgResumed
<1>4. CASE Track
  BY <1>4
     DEF Track, BgShape, BgTrackedShape, BgCallShape, BgMonitorShape,
         BgSupervision, BgLetIn, BgOneSupervisor, BgCallSupervises,
         BgMonitorSupervises, BgResumed
<1>5. CASE WaitReady
  BY <1>5
     DEF WaitReady, AppendAfterFlush, Recorded, FlushedBytes, FlushedLive, Flushed,
         BgShape, BgCallShape, BgMonitorShape, BgSupervision, BgLetIn,
         BgOneSupervisor, BgCallSupervises, BgMonitorSupervises, BgResumed
<1>6. CASE WaitExited
  BY <1>6
     DEF WaitExited, BgShape, BgTrackedShape, BgCallShape, BgSupervision, BgLetIn,
         BgOneSupervisor, BgCallSupervises, BgMonitorSupervises, BgResumed
<1>7. CASE AppendExited
  BY <1>7
     DEF AppendExited, AppendAfterFlush, Recorded, FlushedBytes, FlushedLive,
         Flushed, BgShape, BgCallShape, BgSupervision, BgLetIn, BgOneSupervisor,
         BgCallSupervises, BgMonitorSupervises, BgResumed
<1>8. CASE WaitTimeout
  BY <1>8
     DEF WaitTimeout, BgShape, BgCallShape, BgMonitorShape, BgSupervision, BgLetIn,
         BgOneSupervisor, BgCallSupervises, BgMonitorSupervises, BgResumed
<1>9. CASE MonitorReady
  BY <1>9
     DEF MonitorReady, AppendAfterFlush, Recorded, FlushedBytes, FlushedLive,
         Flushed, BgShape, BgMonitorShape, BgSupervision, BgLetIn, BgOneSupervisor,
         BgCallSupervises, BgMonitorSupervises, BgResumed
<1>10. CASE MonitorExited
  BY <1>10
     DEF MonitorExited, AppendAfterFlush, Recorded, FlushedBytes, FlushedLive,
         Flushed, BgShape, BgMonitorShape, BgSupervision, BgLetIn, BgOneSupervisor,
         BgCallSupervises, BgMonitorSupervises, BgResumed
<1>11. CASE MonitorFinish
  BY <1>11
     DEF MonitorFinish, BgShape, BgTrackedShape, BgMonitorShape, BgSupervision,
         BgLetIn, BgOneSupervisor, BgCallSupervises, BgMonitorSupervises, BgResumed
<1>12. ASSUME NEW p \in BgPumps, PumpRead(p) PROVE BgSupervision'
  BY <1>12
     DEF PumpRead, BgSupervision, BgLetIn, BgOneSupervisor, BgCallSupervises,
         BgMonitorSupervises, BgResumed
<1>13. ASSUME NEW p \in BgPumps, PumpSync(p) PROVE BgSupervision'
  BY <1>13
     DEF PumpSync, BgSupervision, BgLetIn, BgOneSupervisor, BgCallSupervises,
         BgMonitorSupervises, BgResumed
<1>14. ASSUME NEW p \in BgPumps, PumpDetect(p) PROVE BgSupervision'
  BY <1>14
     DEF PumpDetect, BgSupervision, BgLetIn, BgOneSupervisor, BgCallSupervises,
         BgMonitorSupervises, BgResumed
<1>15. CASE FlushLog
  BY <1>15
     DEF FlushLog, BgSupervision, BgLetIn, BgOneSupervisor, BgCallSupervises,
         BgMonitorSupervises, BgResumed
<1>16. CASE ProcessExits
  BY <1>16
     DEF ProcessExits, BgSupervision, BgLetIn, BgOneSupervisor, BgCallSupervises,
         BgMonitorSupervises, BgResumed
<1>17. CASE PidReused
  BY <1>17
     DEF PidReused, BgSupervision, BgLetIn, BgOneSupervisor, BgCallSupervises,
         BgMonitorSupervises, BgResumed
<1>18. CASE SendExited
  BY <1>18
     DEF SendExited, BgSupervision, BgLetIn, BgOneSupervisor, BgCallSupervises,
         BgMonitorSupervises, BgResumed
<1>19. ASSUME NEW r \in BgResumers, ResumeSnapshot(r) PROVE BgSupervision'
  BY <1>19
     DEF ResumeSnapshot, Candidate, BgIdleResume, BgNoObserver, Resumable, BgShape,
         BgResumeShape, BgResumeRecords, BgSupervision, BgLetIn, BgOneSupervisor, BgCallSupervises,
         BgMonitorSupervises, BgResumed
<1>20. ASSUME NEW r \in BgResumers, ResumeTrack(r) PROVE BgSupervision'
  BY <1>20, SMTT(60)
     DEF ResumeTrack, ResumeAt, ResumeEnds, BgIdleResume, BgNoObserver, BgShape,
         BgTrackedShape, BgResumeShape, BgResumeRecords, BgSupervision, BgLetIn, BgOneSupervisor,
         BgCallSupervises, BgMonitorSupervises, BgResumed
<1>21. ASSUME NEW r \in BgResumers, ResumeInspect(r) PROVE BgSupervision'
  BY <1>21
     DEF ResumeInspect, Inspection, BgShape, BgTrackedShape, BgResumeShape, BgResumeRecords,
         BgSupervision, BgLetIn, BgOneSupervisor, BgCallSupervises,
         BgMonitorSupervises, BgResumed
<1>22. ASSUME NEW r \in BgResumers,
              \/ ResumeScan(r) \/ ResumeScanExited(r) \/ ResumeEmit(r) \/ ResumeObserved(r)
              \/ ResumeSynced(r) \/ ResumeLogFails(r) \/ ResumeDetect(r)
       PROVE  BgSupervision'
  <2>1. BgGoesOn(r)
    BY <1>22, BgReads
  <2> QED
    BY <2>1
       DEF BgGoesOn, BgShape, BgResumeShape, BgResumeRecords, BgSupervision, BgLetIn,
           BgOneSupervisor, BgCallSupervises, BgMonitorSupervises, BgResumed
<1>24. ASSUME NEW r \in BgResumers, ResumePoll(r) PROVE BgSupervision'
  BY <1>24
     DEF ResumePoll, ResumeAt, Inspection, BgShape, BgResumeShape, BgResumeRecords,
         BgSupervision, BgLetIn, BgOneSupervisor, BgCallSupervises, BgMonitorSupervises,
         BgResumed
<1>25. ASSUME NEW r \in BgResumers, ResumeTerminal(r) PROVE BgSupervision'
  <2>1. /\ bgTracked' = bgTracked /\ bgCall' = bgCall /\ bgMonitor' = bgMonitor
        /\ bgResume[r].pc \in {"exit", "lost"}
        /\ IF bgResume[r].monitored THEN ResumeAt(r, "finish") ELSE ResumeEnds(r)
    BY <1>25 DEF ResumeTerminal, At
  <2>2. CASE bgResume[r].monitored
    BY <2>1, <2>2
       DEF ResumeAt, BgShape, BgResumeShape, BgResumeRecords, BgSupervision, BgLetIn,
           BgOneSupervisor, BgCallSupervises, BgMonitorSupervises, BgResumed
  <2>3. CASE ~bgResume[r].monitored
    BY <2>1, <2>3
       DEF ResumeEnds, BgIdleResume, BgShape, BgResumeShape, BgResumeRecords, BgSupervision,
           BgLetIn, BgOneSupervisor, BgCallSupervises, BgMonitorSupervises, BgResumed
  <2> QED
    BY <2>2, <2>3
<1>26. ASSUME NEW r \in BgResumers, ResumeFinish(r) PROVE BgSupervision'
  BY <1>26
     DEF ResumeFinish, ResumeEnds, BgIdleResume, BgNoObserver, BgShape,
         BgTrackedShape, BgResumeShape, BgResumeRecords, BgSupervision, BgLetIn, BgOneSupervisor,
         BgCallSupervises, BgMonitorSupervises, BgResumed
<1>27. CASE BgCrash
  BY <1>27
     DEF BgCrash, BgNoObserver, BgIdlePump, BgIdleResume, BgShape, BgTrackedShape,
         BgCallShape, BgMonitorShape, BgResumeShape, BgResumeRecords, BgSupervision, BgLetIn,
         BgOneSupervisor, BgCallSupervises, BgMonitorSupervises, BgResumed
<1>28. CASE UNCHANGED bgVars
  BY <1>28
     DEF bgVars, BgSupervision, BgLetIn, BgOneSupervisor, BgCallSupervises,
         BgMonitorSupervises, BgResumed
<1> QED
  BY <1>1, <1>2, <1>3, <1>4, <1>5, <1>6, <1>7, <1>8, <1>9, <1>10, <1>11, <1>12,
     <1>13, <1>14, <1>15, <1>16, <1>17, <1>18, <1>19, <1>20, <1>21, <1>22,
     <1>24, <1>25, <1>26, <1>27, <1>28
     DEF BgNext, BgCallStep, BgMonitorStep, BgPumpStep, BgResumeStep

(* startBackgroundRun (execution_service_background.go:307) lets one supervisor   *)
(* in: the call, the monitor and any number of resumed monitors exclude one       *)
(* another, and the execution is tracked exactly while one of them has it.        *)
THEOREM BgHasOneSupervisor == BgSpec => []BgOneSupervisor
<1>1. BgInit => BgSupervision
  BY DEF BgInit, BgSupervision, BgLetIn, BgOneSupervisor, BgCallSupervises,
         BgMonitorSupervises, BgResumed, BgIdleResume
<1>2. BgSupervision => BgOneSupervisor
  BY DEF BgSupervision
<1> QED
  BY <1>1, <1>2, BgSupervisionStep, BgShapeCorrect, PTL DEF BgSpec

------------------------------------------------------------------------------
(* A recorded exit is real.                                                       *)

(* Who is past the start of the process, or resumed it, knows that it was started.*)
BgSpawned ==
    /\ bgCall = "spawn" => bgProc.state = "none"
    /\ bgCall \in {"record", "track", "wait", "exited"} \/ bgRecord.started => bgProc.state # "none"
    /\ \A r \in BgResumers : bgResume[r].pc # "idle" => bgRecord.started
(* Who is about to record the exit has seen it.                                   *)
BgExitSeen ==
    /\ bgChannels.exit = "sent" \/ bgCall = "exited" => bgProc.state = "dead"
    /\ \A r \in BgResumers : bgResume[r].pc \in {"exited", "final", "exit"} => bgProc.state = "dead"
BgExitKnown == BgSpawned /\ BgExitSeen /\ BgExitIsReal

LEMMA BgExitKnownStep == BgShape /\ BgExitKnown /\ [BgNext]_bgVars => BgExitKnown'
<1> SUFFICES ASSUME BgShape, BgExitKnown, [BgNext]_bgVars PROVE BgExitKnown'
  OBVIOUS
<1>1. CASE SpawnFails
  BY <1>1
     DEF SpawnFails, BgShape, BgCallShape, BgExitKnown, BgSpawned, BgExitSeen,
         BgExitIsReal
<1>2. CASE Spawn
  BY <1>2
     DEF Spawn, BgShape, BgProcShape, BgCallShape, BgExitKnown, BgSpawned,
         BgExitSeen, BgExitIsReal
<1>3. CASE AppendStarted
  BY <1>3
     DEF AppendStarted, BgShape, BgRecordShape, BgCallShape, BgStatuses,
         BgExitKnown, BgSpawned, BgExitSeen, BgExitIsReal
<1>4. CASE Track
  BY <1>4
     DEF Track, BgShape, BgCallShape, BgExitKnown, BgSpawned, BgExitSeen,
         BgExitIsReal
<1>5. CASE WaitReady
  BY <1>5
     DEF WaitReady, AppendAfterFlush, Recorded, FlushedBytes, FlushedLive, Flushed,
         BgShape, BgRecordShape, BgChannelsShape, BgCallShape, BgStatuses,
         BgExitKnown, BgSpawned, BgExitSeen, BgExitIsReal
<1>6. CASE WaitExited
  BY <1>6
     DEF WaitExited, BgShape, BgChannelsShape, BgCallShape, BgExitKnown, BgSpawned,
         BgExitSeen, BgExitIsReal
<1>7. CASE AppendExited
  BY <1>7
     DEF AppendExited, AppendAfterFlush, Recorded, FlushedBytes, FlushedLive,
         Flushed, BgShape, BgRecordShape, BgCallShape, BgStatuses, BgExitKnown,
         BgSpawned, BgExitSeen, BgExitIsReal
<1>8. CASE WaitTimeout
  BY <1>8
     DEF WaitTimeout, BgShape, BgCallShape, BgExitKnown, BgSpawned, BgExitSeen,
         BgExitIsReal
<1>9. CASE MonitorReady
  BY <1>9
     DEF MonitorReady, AppendAfterFlush, Recorded, FlushedBytes, FlushedLive,
         Flushed, BgShape, BgRecordShape, BgChannelsShape, BgStatuses, BgExitKnown,
         BgSpawned, BgExitSeen, BgExitIsReal
<1>10. CASE MonitorExited
  BY <1>10
     DEF MonitorExited, AppendAfterFlush, Recorded, FlushedBytes, FlushedLive,
         Flushed, BgShape, BgRecordShape, BgChannelsShape, BgStatuses, BgExitKnown,
         BgSpawned, BgExitSeen, BgExitIsReal
<1>11. CASE MonitorFinish
  BY <1>11 DEF MonitorFinish, BgExitKnown, BgSpawned, BgExitSeen, BgExitIsReal
<1>12. ASSUME NEW p \in BgPumps, PumpRead(p) PROVE BgExitKnown'
  BY <1>12 DEF PumpRead, BgExitKnown, BgSpawned, BgExitSeen, BgExitIsReal
<1>13. ASSUME NEW p \in BgPumps, PumpSync(p) PROVE BgExitKnown'
  BY <1>13
     DEF PumpSync, BgShape, BgRecordShape, BgStatuses, BgExitKnown, BgSpawned,
         BgExitSeen, BgExitIsReal
<1>14. ASSUME NEW p \in BgPumps, PumpDetect(p) PROVE BgExitKnown'
  BY <1>14
     DEF PumpDetect, BgIdlePump, BgShape, BgChannelsShape, BgExitKnown, BgSpawned,
         BgExitSeen, BgExitIsReal
<1>15. CASE FlushLog
  BY <1>15 DEF FlushLog, BgExitKnown, BgSpawned, BgExitSeen, BgExitIsReal
<1>16. CASE ProcessExits
  BY <1>16
     DEF ProcessExits, BgShape, BgProcShape, BgExitKnown, BgSpawned, BgExitSeen,
         BgExitIsReal
<1>17. CASE PidReused
  BY <1>17
     DEF PidReused, BgShape, BgProcShape, BgExitKnown, BgSpawned, BgExitSeen,
         BgExitIsReal
<1>18. CASE SendExited
  BY <1>18
     DEF SendExited, BgShape, BgChannelsShape, BgExitKnown, BgSpawned, BgExitSeen,
         BgExitIsReal
<1>19. ASSUME NEW r \in BgResumers, ResumeSnapshot(r) PROVE BgExitKnown'
  BY <1>19
     DEF ResumeSnapshot, Candidate, BgIdleResume, BgNoObserver, Resumable, BgShape,
         BgResumeShape, BgResumeRecords, BgExitKnown, BgSpawned, BgExitSeen, BgExitIsReal
<1>20. ASSUME NEW r \in BgResumers, ResumeTrack(r) PROVE BgExitKnown'
  BY <1>20
     DEF ResumeTrack, ResumeAt, ResumeEnds, BgIdleResume, BgNoObserver, BgShape,
         BgResumeShape, BgResumeRecords, BgExitKnown, BgSpawned, BgExitSeen, BgExitIsReal
<1>21. ASSUME NEW r \in BgResumers, ResumeInspect(r) PROVE BgExitKnown'
  <2>1. PICK found \in {"lost", "scan", "exited"} :
          /\ found = "exited" => bgProc.state # "running"
          /\ bgResume'[r].pc = found
          /\ \A q \in BgResumers \ {r} : bgResume'[q].pc = bgResume[q].pc
    BY <1>21 DEF ResumeInspect, ResumeAt, Inspection, BgShape, BgResumeShape, BgResumeRecords
  <2>2. bgProc.state # "none" /\ bgRecord.started /\ (found = "exited" => bgProc.state = "dead")
    BY <1>21, <2>1 DEF ResumeInspect, BgShape, BgProcShape, BgExitKnown, BgSpawned
  <2> QED
    BY <1>21, <2>1, <2>2
       DEF ResumeInspect, BgExitKnown, BgSpawned, BgExitSeen, BgExitIsReal
<1>22. ASSUME NEW r \in BgResumers,
              \/ ResumeScan(r) \/ ResumeScanExited(r) \/ ResumeEmit(r) \/ ResumeObserved(r)
              \/ ResumeSynced(r) \/ ResumeLogFails(r) \/ ResumeDetect(r)
       PROVE  BgExitKnown'
  <2>1. BgGoesOn(r)
    BY <1>22, BgReads
  <2> QED
    BY <2>1
       DEF BgGoesOn, BgExitKnown, BgSpawned, BgExitSeen, BgExitIsReal
<1>24. ASSUME NEW r \in BgResumers, ResumePoll(r) PROVE BgExitKnown'
  <2>1. PICK found \in {"lost", "scan", "exited"} :
          /\ found = "exited" => bgProc.state # "running"
          /\ bgResume'[r].pc = (IF found = "scan" THEN "sync" ELSE found)
          /\ \A q \in BgResumers \ {r} : bgResume'[q].pc = bgResume[q].pc
    BY <1>24 DEF ResumePoll, ResumeAt, Inspection, BgShape, BgResumeShape, BgResumeRecords
  <2>2. bgProc.state # "none" /\ bgRecord.started /\ (found = "exited" => bgProc.state = "dead")
    BY <1>24, <2>1 DEF ResumePoll, BgShape, BgProcShape, BgExitKnown, BgSpawned
  <2> QED
    BY <1>24, <2>1, <2>2
       DEF ResumePoll, BgExitKnown, BgSpawned, BgExitSeen, BgExitIsReal
<1>25. ASSUME NEW r \in BgResumers, ResumeTerminal(r) PROVE BgExitKnown'
  <2>1. /\ bgProc' = bgProc /\ bgChannels' = bgChannels /\ bgCall' = bgCall
        /\ bgRecord'.started = bgRecord.started
        /\ bgRecord'.exited => bgRecord.exited \/ bgResume[r].pc = "exit"
    BY <1>25
       DEF ResumeTerminal, At, AppendAfterFlush, Recorded, BgShape, BgRecordShape
  <2>2. /\ bgResume'[r].pc \in {"finish", "idle"} /\ bgResume[r].pc # "idle"
        /\ \A q \in BgResumers \ {r} : bgResume'[q] = bgResume[q]
    BY <1>25
       DEF ResumeTerminal, At, ResumeAt, ResumeEnds, BgIdleResume, BgShape, BgResumeShape, BgResumeRecords
  <2> QED
    BY <2>1, <2>2 DEF BgExitKnown, BgSpawned, BgExitSeen, BgExitIsReal
<1>26. ASSUME NEW r \in BgResumers, ResumeFinish(r) PROVE BgExitKnown'
  BY <1>26
     DEF ResumeFinish, ResumeEnds, BgIdleResume, BgNoObserver, BgShape,
         BgResumeShape, BgResumeRecords, BgExitKnown, BgSpawned, BgExitSeen, BgExitIsReal
<1>27. CASE BgCrash
  BY <1>27
     DEF BgCrash, BgNoObserver, BgIdlePump, BgIdleResume, BgShape, BgChannelsShape,
         BgCallShape, BgResumeShape, BgResumeRecords, BgExitKnown, BgSpawned, BgExitSeen,
         BgExitIsReal
<1>28. CASE UNCHANGED bgVars
  BY <1>28 DEF bgVars, BgExitKnown, BgSpawned, BgExitSeen, BgExitIsReal
<1> QED
  BY <1>1, <1>2, <1>3, <1>4, <1>5, <1>6, <1>7, <1>8, <1>9, <1>10, <1>11, <1>12,
     <1>13, <1>14, <1>15, <1>16, <1>17, <1>18, <1>19, <1>20, <1>21, <1>22,
     <1>24, <1>25, <1>26, <1>27, <1>28
     DEF BgNext, BgCallStep, BgMonitorStep, BgPumpStep, BgResumeStep

(* The log says that a process exited only when it did: a process table that      *)
(* cannot be read, a PID given to another process or a log that shrank make the   *)
(* execution lost (execution_service_background_resume.go).                       *)
THEOREM BgRecordedExitIsReal == BgSpec => []BgExitIsReal
<1>1. BgInit => BgExitKnown
  BY DEF BgInit, BgExitKnown, BgSpawned, BgExitSeen, BgExitIsReal, BgIdleResume
<1>2. BgExitKnown => BgExitIsReal
  BY DEF BgExitKnown
<1> QED
  BY <1>1, <1>2, BgExitKnownStep, BgShapeCorrect, PTL DEF BgSpec

------------------------------------------------------------------------------
(* What is recorded of the output.                                                *)

BgBusy == {p \in BgPumps : bgPump[p].pc # "read"}
BgMaxCount == bgOutput.written <= BgMaxChunks
BgRecordCount ==
    /\ bgProc.state # "dead" \/ bgBound.resumes = 0 => bgRecord.bytes <= bgOutput.written
    /\ bgRecord.bytes <= 2 * bgOutput.written
BgObserverCount == bgObserver.bytes <= bgOutput.written
BgPumpCount == \A p \in BgPumps : bgPump[p].bytes <= bgOutput.written
BgLogCount == bgLog.stored + bgLog.buffered + Cardinality(BgBusy) <= bgOutput.written

(* A resumed monitor that has emitted nothing counts what its candidate did, which*)
(* may be anything. Once it has, its count is the part of the log it has read; and*)
(* when it reads again, after the exit, it has counted what lies behind the       *)
(* candidate's place twice at most.                                               *)
BgRereads == {"final", "exit", "lost", "finish"}
BgFits(me, stored, dead) ==
    /\ \/ /\ me.observer.bytes = me.seed /\ me.offset = me.seed
          /\ ~me.observer.dirty /\ ~me.due
       \/ /\ me.seed <= me.offset /\ me.offset <= stored
          /\ me.observer.bytes + me.seed <= stored + me.offset
    /\ me.pc \notin BgRereads \/ ~dead => me.observer.bytes = me.offset
BgResumeCount ==
    \A r \in BgResumers :
        /\ BgFits(bgResume[r], bgLog.stored, bgProc.state = "dead")
        /\ bgResume[r].pc # "idle" \/ bgResume[r].due => bgBound.resumes > 0

(* A chunk that a pump has read and not yet passed to the log is still to come.   *)
BgCounts ==
    /\ BgMaxCount /\ BgRecordCount /\ BgObserverCount
    /\ BgPumpCount /\ BgResumeCount /\ BgLogCount

LEMMA BgBusyFinite == IsFiniteSet(BgBusy) /\ Cardinality(BgBusy) \in Nat
BY BgAssumption, FS_Subset, FS_CardinalityType DEF BgBusy

LEMMA BgIdleFits == \A stored \in Nat, dead \in BOOLEAN : BgFits(BgIdleResume, stored, dead)
BY DEF BgFits, BgIdleResume, BgNoObserver

LEMMA BgFitsLater ==
    ASSUME NEW me \in BgResumeRecords, NEW stored \in Nat, NEW more \in Nat,
           NEW dead \in BOOLEAN, NEW now \in BOOLEAN,
           BgFits(me, stored, dead), stored <= more, dead => now
    PROVE  BgFits(me, more, now)
BY DEF BgFits, BgResumeRecords, BgCounters

(* What a resumed monitor would record.                                           *)
LEMMA BgCountOf ==
    ASSUME NEW me \in BgResumeRecords, NEW stored \in Nat, NEW written \in Nat,
           NEW dead \in BOOLEAN, BgFits(me, stored, dead), stored <= written,
           me.observer.dirty \/ me.due
    PROVE  me.observer.bytes <= 2 * written /\ (~dead => me.observer.bytes <= written)
<1>1. me.observer.bytes \in Nat /\ me.seed \in Nat /\ me.offset \in Nat
  BY DEF BgResumeRecords, BgCounters
<1>2. me.offset <= stored /\ me.observer.bytes + me.seed <= stored + me.offset
  BY DEF BgFits
<1>3. ~dead => me.observer.bytes = me.offset
  BY DEF BgFits
<1> QED
  BY <1>1, <1>2, <1>3

LEMMA BgResumeKept ==
    ASSUME BgShape, BgShape', BgResumeCount, NEW r \in BgResumers,
           bgLog.stored <= bgLog'.stored, bgBound.resumes <= bgBound'.resumes,
           bgProc.state = "dead" => bgProc'.state = "dead",
           \A q \in BgResumers \ {r} : bgResume'[q] = bgResume[q],
           BgFits(bgResume'[r], bgLog'.stored, bgProc'.state = "dead"),
           bgResume'[r].pc # "idle" \/ bgResume'[r].due => bgBound'.resumes > 0
    PROVE  BgResumeCount'
<1>1. /\ bgLog.stored \in Nat /\ bgLog'.stored \in Nat
      /\ bgBound.resumes \in Nat /\ bgBound'.resumes \in Nat
      /\ \A q \in BgResumers : bgResume[q] \in BgResumeRecords
  BY BgAssumption DEF BgShape, BgLogShape, BgBoundShape, BgResumeShape
<1>2. ASSUME NEW q \in BgResumers \ {r}
      PROVE  /\ BgFits(bgResume'[q], bgLog'.stored, bgProc'.state = "dead")
             /\ bgResume'[q].pc # "idle" \/ bgResume'[q].due => bgBound'.resumes > 0
  <2>1. PICK dead \in BOOLEAN : dead <=> bgProc.state = "dead"
    OBVIOUS
  <2>2. PICK now \in BOOLEAN : now <=> bgProc'.state = "dead"
    OBVIOUS
  <2>3. BgFits(bgResume[q], bgLog.stored, dead)
    BY <2>1 DEF BgResumeCount, BgFits
  <2>4. BgFits(bgResume[q], bgLog'.stored, now)
    BY <1>1, <2>1, <2>2, <2>3, BgFitsLater
  <2>5. BgFits(bgResume'[q], bgLog'.stored, bgProc'.state = "dead")
    BY <2>2, <2>4 DEF BgFits
  <2>6. bgResume'[q].pc # "idle" \/ bgResume'[q].due => bgBound.resumes > 0
    BY DEF BgResumeCount
  <2> QED
    BY <1>1, <2>5, <2>6
<1> QED
  BY <1>2 DEF BgResumeCount

LEMMA BgResumeSame ==
    ASSUME BgShape, BgShape', BgResumeCount, bgResume' = bgResume,
           bgLog.stored <= bgLog'.stored, bgBound.resumes <= bgBound'.resumes,
           bgProc.state = "dead" => bgProc'.state = "dead"
    PROVE  BgResumeCount'
<1>1. ASSUME NEW r \in BgResumers
      PROVE  /\ BgFits(bgResume'[r], bgLog'.stored, bgProc'.state = "dead")
             /\ bgResume'[r].pc # "idle" \/ bgResume'[r].due => bgBound'.resumes > 0
  <2>1. /\ bgLog.stored \in Nat /\ bgLog'.stored \in Nat
        /\ bgBound.resumes \in Nat /\ bgBound'.resumes \in Nat
        /\ bgResume[r] \in BgResumeRecords
    BY BgAssumption DEF BgShape, BgLogShape, BgBoundShape, BgResumeShape
  <2>2. PICK dead \in BOOLEAN : dead <=> bgProc.state = "dead"
    OBVIOUS
  <2>3. PICK now \in BOOLEAN : now <=> bgProc'.state = "dead"
    OBVIOUS
  <2>4. BgFits(bgResume[r], bgLog.stored, dead)
    BY <2>2 DEF BgResumeCount, BgFits
  <2>5. BgFits(bgResume[r], bgLog'.stored, now)
    BY <2>1, <2>2, <2>3, <2>4, BgFitsLater
  <2>6. BgFits(bgResume'[r], bgLog'.stored, bgProc'.state = "dead")
    BY <2>3, <2>5 DEF BgFits
  <2>7. bgResume'[r].pc # "idle" \/ bgResume'[r].due => bgBound.resumes > 0
    BY DEF BgResumeCount
  <2> QED
    BY <2>1, <2>6, <2>7
<1> QED
  BY <1>1 DEF BgResumeCount

LEMMA BgCountsInit == BgInit => BgCounts
<1> SUFFICES ASSUME BgInit PROVE BgCounts
  OBVIOUS
<1>1. BgBusy = {}
  BY DEF BgInit, BgBusy, BgIdlePump
<1>2. BgMaxCount /\ BgRecordCount /\ BgObserverCount
  BY BgAssumption
     DEF BgInit, BgMaxCount, BgRecordCount, BgObserverCount, BgNoObserver
<1>3. BgPumpCount
  BY DEF BgInit, BgPumpCount, BgIdlePump
<1>4. BgResumeCount
  BY DEF BgInit, BgResumeCount, BgFits, BgIdleResume, BgNoObserver
<1>5. BgLogCount
  BY <1>1, FS_EmptySet DEF BgInit, BgLogCount
<1> QED
  BY <1>2, <1>3, <1>4, <1>5 DEF BgCounts

LEMMA BgFlushCounts ==
    ASSUME BgShape, BgRecordCount, NEW observer \in BgCounters, NEW ready, NEW status,
           AppendAfterFlush(observer, ready, status),
           bgOutput' = bgOutput, bgProc' = bgProc, bgBound' = bgBound,
           observer.dirty => observer.bytes <= 2 * bgOutput.written,
           observer.dirty /\ (bgProc.state # "dead" \/ bgBound.resumes = 0) =>
               observer.bytes <= bgOutput.written
    PROVE  BgRecordCount'
<1>1. bgRecord'.bytes = FlushedBytes(observer, bgRecord)
  BY DEF AppendAfterFlush, Recorded, BgShape, BgRecordShape
<1> QED
  BY <1>1 DEF FlushedBytes, BgRecordCount

(* The same of the first supervisor's observer, which counts what the pumps read. *)
LEMMA BgPumpFlush ==
    ASSUME BgShape, BgRecordCount, BgObserverCount, NEW ready, NEW status,
           AppendAfterFlush(bgObserver, ready, status),
           bgOutput' = bgOutput, bgProc' = bgProc, bgBound' = bgBound
    PROVE  BgRecordCount'
<1>1. bgObserver \in BgCounters /\ bgObserver.bytes \in Nat /\ bgOutput.written \in Nat
  BY DEF BgShape, BgObserverShape, BgOutputShape, BgCounters
<1>2. bgObserver.bytes <= bgOutput.written /\ bgObserver.bytes <= 2 * bgOutput.written
  BY <1>1 DEF BgObserverCount
<1> QED
  BY <1>1, <1>2, BgFlushCounts

(* And of a resumed monitor's.                                                    *)
LEMMA BgResumeFlush ==
    ASSUME BgShape, BgCounts, NEW r \in BgResumers, bgResume[r].pc # "idle",
           NEW ready, NEW status, AppendAfterFlush(bgResume[r].observer, ready, status),
           bgOutput' = bgOutput, bgProc' = bgProc, bgBound' = bgBound
    PROVE  BgRecordCount'
<1>1. /\ bgResume[r] \in BgResumeRecords /\ bgResume[r].observer \in BgCounters
      /\ bgLog.stored \in Nat /\ bgOutput.written \in Nat /\ bgLog.buffered \in Nat
  BY DEF BgShape, BgResumeShape, BgResumeRecords, BgLogShape, BgOutputShape
<1>2. bgLog.stored <= bgOutput.written
  BY <1>1, BgBusyFinite DEF BgCounts, BgLogCount
<1>3. PICK dead \in BOOLEAN : dead <=> bgProc.state = "dead"
  OBVIOUS
<1>4. BgFits(bgResume[r], bgLog.stored, dead) /\ bgBound.resumes > 0
  BY <1>3 DEF BgCounts, BgResumeCount, BgFits
<1>5. bgResume[r].observer.dirty =>
        /\ bgResume[r].observer.bytes <= 2 * bgOutput.written
        /\ ~dead => bgResume[r].observer.bytes <= bgOutput.written
  BY <1>1, <1>2, <1>4, BgCountOf
<1>6. BgRecordCount /\ bgBound.resumes # 0
  BY <1>4, BgAssumption DEF BgCounts, BgShape, BgBoundShape
<1> QED
  BY <1>1, <1>3, <1>5, <1>6, BgFlushCounts

LEMMA BgCountsStep ==
    BgShape /\ BgShape' /\ BgExitKnown /\ BgCounts /\ [BgNext]_bgVars => BgCounts'
<1> SUFFICES ASSUME BgShape, BgShape', BgExitKnown, BgCounts, [BgNext]_bgVars PROVE BgCounts'
  OBVIOUS
<1> USE BgAssumption
<1>1. CASE SpawnFails
  BY <1>1
     DEF SpawnFails, BgCounts, BgBusy, BgMaxCount, BgRecordCount, BgObserverCount,
         BgPumpCount, BgResumeCount, BgLogCount
<1>2. CASE Spawn
  <2>1. /\ bgLog' = bgLog /\ bgBound' = bgBound /\ bgResume' = bgResume
        /\ bgProc.state = "dead" => bgProc'.state = "dead"
    BY <1>2 DEF Spawn, BgShape, BgProcShape, BgExitKnown, BgSpawned
  <2>2. BgResumeCount'
    BY <2>1, BgResumeSame DEF BgCounts, BgShape, BgLogShape, BgBoundShape
  <2>3. BgRecordCount'
    BY <1>2, <2>1 DEF Spawn, BgShape, BgProcShape, BgCounts, BgRecordCount, BgExitKnown, BgSpawned
  <2> QED
    BY <1>2, <2>2, <2>3
       DEF Spawn, BgCounts, BgBusy, BgMaxCount, BgObserverCount, BgPumpCount, BgLogCount
<1>3. CASE AppendStarted
  <2>1. BgRecordCount'
    BY <1>3
       DEF AppendStarted, BgShape, BgOutputShape, BgRecordShape, BgLiveShape,
           BgCounts, BgRecordCount
  <2> QED
    BY <1>3, <2>1
       DEF AppendStarted, BgCounts, BgBusy, BgMaxCount, BgObserverCount,
           BgPumpCount, BgResumeCount, BgLogCount
<1>4. CASE Track
  BY <1>4
     DEF Track, BgCounts, BgBusy, BgMaxCount, BgRecordCount, BgObserverCount,
         BgPumpCount, BgResumeCount, BgLogCount
<1>5. CASE WaitReady
  <2>1. BgRecordCount'
    BY <1>5, BgPumpFlush DEF WaitReady, BgCounts
  <2>2. BgObserverCount'
    BY <1>5, BgFlushes DEF WaitReady, BgShape, BgObserverShape, BgCounts, BgObserverCount
  <2>3. BgResumeCount'
    BY <1>5 DEF WaitReady, BgCounts, BgResumeCount
  <2> QED
    BY <1>5, <2>1, <2>2, <2>3
       DEF WaitReady, BgCounts, BgBusy, BgMaxCount, BgPumpCount, BgLogCount
<1>6. CASE WaitExited
  BY <1>6
     DEF WaitExited, BgCounts, BgBusy, BgMaxCount, BgRecordCount, BgObserverCount,
         BgPumpCount, BgResumeCount, BgLogCount
<1>7. CASE AppendExited
  <2>1. BgRecordCount'
    BY <1>7, BgPumpFlush DEF AppendExited, BgCounts
  <2>2. BgObserverCount'
    BY <1>7, BgFlushes DEF AppendExited, BgShape, BgObserverShape, BgCounts, BgObserverCount
  <2>3. BgResumeCount'
    BY <1>7 DEF AppendExited, BgCounts, BgResumeCount
  <2> QED
    BY <1>7, <2>1, <2>2, <2>3
       DEF AppendExited, BgCounts, BgBusy, BgMaxCount, BgPumpCount, BgLogCount
<1>8. CASE WaitTimeout
  BY <1>8
     DEF WaitTimeout, BgCounts, BgBusy, BgMaxCount, BgRecordCount, BgObserverCount,
         BgPumpCount, BgResumeCount, BgLogCount
<1>9. CASE MonitorReady
  <2>1. BgRecordCount'
    BY <1>9, BgPumpFlush DEF MonitorReady, BgCounts
  <2>2. BgObserverCount'
    BY <1>9, BgFlushes DEF MonitorReady, BgShape, BgObserverShape, BgCounts, BgObserverCount
  <2>3. BgResumeCount'
    BY <1>9 DEF MonitorReady, BgCounts, BgResumeCount
  <2> QED
    BY <1>9, <2>1, <2>2, <2>3
       DEF MonitorReady, BgCounts, BgBusy, BgMaxCount, BgPumpCount, BgLogCount
<1>10. CASE MonitorExited
  <2>1. BgRecordCount'
    BY <1>10, BgPumpFlush DEF MonitorExited, BgCounts
  <2>2. BgObserverCount'
    BY <1>10, BgFlushes DEF MonitorExited, BgShape, BgObserverShape, BgCounts, BgObserverCount
  <2>3. BgResumeCount'
    BY <1>10 DEF MonitorExited, BgCounts, BgResumeCount
  <2> QED
    BY <1>10, <2>1, <2>2, <2>3
       DEF MonitorExited, BgCounts, BgBusy, BgMaxCount, BgPumpCount, BgLogCount
<1>11. CASE MonitorFinish
  BY <1>11
     DEF MonitorFinish, BgCounts, BgBusy, BgMaxCount, BgRecordCount,
         BgObserverCount, BgPumpCount, BgResumeCount, BgLogCount
<1>12. ASSUME NEW p \in BgPumps, PumpRead(p) PROVE BgCounts'
  <2>1. BgMaxCount'
    BY <1>12
       DEF PumpRead, BgShape, BgOutputShape, BgObserverShape, BgCounters, BgCounts,
           BgMaxCount, BgObserverCount
  <2>2. BgRecordCount'
    <3>1. bgOutput'.written = bgOutput.written + 1 /\ bgOutput.written \in Nat
      BY <1>12 DEF PumpRead, BgShape, BgOutputShape
    <3>2. bgRecord' = bgRecord /\ bgProc' = bgProc /\ bgBound' = bgBound /\ bgRecord.bytes \in Nat
      BY <1>12 DEF PumpRead, BgShape, BgRecordShape
    <3> QED
      BY <3>1, <3>2 DEF BgCounts, BgRecordCount
  <2>3. BgObserverCount'
    BY <1>12
       DEF PumpRead, BgShape, BgOutputShape, BgObserverShape, BgCounters, BgCounts,
           BgObserverCount
  <2>4. BgPumpCount'
    BY <1>12
       DEF PumpRead, BgShape, BgOutputShape, BgObserverShape, BgPumpShape,
           BgCounters, BgCounts, BgObserverCount, BgPumpCount
  <2>5. BgResumeCount'
    BY <1>12 DEF PumpRead, BgCounts, BgResumeCount
  <2>6. BgLogCount'
    <3>1. p \notin BgBusy /\ BgBusy' = BgBusy \cup {p}
      BY <1>12 DEF PumpRead, BgBusy, BgShape, BgPumpShape
    <3>2. Cardinality(BgBusy') = Cardinality(BgBusy) + 1
      BY <3>1, BgBusyFinite, FS_AddElement
    <3>3. bgOutput'.written = bgOutput.written + 1 /\ bgLog' = bgLog
      BY <1>12 DEF PumpRead, BgShape, BgOutputShape
    <3> QED
      BY <3>2, <3>3, BgBusyFinite
         DEF BgShape, BgOutputShape, BgLogShape, BgCounts, BgLogCount
  <2> QED
    BY <2>1, <2>2, <2>3, <2>4, <2>5, <2>6 DEF BgCounts
<1>13. ASSUME NEW p \in BgPumps, PumpSync(p) PROVE BgCounts'
  <2>1. BgRecordCount'
    <3>1. bgPump[p].bytes \in Nat /\ bgPump[p].bytes <= bgOutput.written /\ bgOutput.written \in Nat
      BY DEF BgShape, BgPumpShape, BgOutputShape, BgCounts, BgPumpCount
    <3>2. bgRecord'.bytes = bgPump[p].bytes /\ bgOutput' = bgOutput
      BY <1>13 DEF PumpSync, BgShape, BgRecordShape
    <3> QED
      BY <3>1, <3>2 DEF BgRecordCount
  <2>2. BgObserverCount'
    BY <1>13
       DEF PumpSync, BgShape, BgOutputShape, BgObserverShape, BgPumpShape,
           BgCounters, BgCounts, BgObserverCount, BgPumpCount
  <2>3. BgPumpCount'
    BY <1>13
       DEF PumpSync, BgShape, BgOutputShape, BgPumpShape, BgCounts, BgPumpCount
  <2>4. BgLogCount'
    <3>1. BgBusy' = BgBusy
      BY <1>13 DEF PumpSync, BgBusy, BgShape, BgPumpShape
    <3> QED
      BY <1>13, <3>1 DEF PumpSync, BgCounts, BgLogCount
  <2> QED
    BY <1>13, <2>1, <2>2, <2>3, <2>4
       DEF PumpSync, BgCounts, BgMaxCount, BgResumeCount
<1>14. ASSUME NEW p \in BgPumps, PumpDetect(p) PROVE BgCounts'
  <2>1. BgPumpCount'
    BY <1>14
       DEF PumpDetect, BgIdlePump, BgShape, BgOutputShape, BgPumpShape, BgCounts,
           BgPumpCount
  <2>2. BgLogCount'
    <3>1. p \in BgBusy /\ BgBusy' = BgBusy \ {p}
      BY <1>14 DEF PumpDetect, BgIdlePump, BgBusy, BgShape, BgPumpShape
    <3>2. Cardinality(BgBusy') = Cardinality(BgBusy) - 1
      BY <3>1, BgBusyFinite, FS_RemoveElement
    <3>3. bgLog'.stored = bgLog.stored /\ bgLog'.buffered = bgLog.buffered + 1 /\ bgOutput' = bgOutput
      BY <1>14 DEF PumpDetect, BgShape, BgLogShape
    <3> QED
      BY <3>2, <3>3, BgBusyFinite
         DEF BgShape, BgOutputShape, BgLogShape, BgCounts, BgLogCount
  <2> QED
    BY <1>14, <2>1, <2>2
       DEF PumpDetect, BgCounts, BgMaxCount, BgRecordCount, BgObserverCount,
           BgResumeCount
<1>15. CASE FlushLog
  <2>1. BgLogCount'
    <3>1. BgBusy' = BgBusy
      BY <1>15 DEF FlushLog, BgBusy
    <3> QED
      BY <1>15, BgBusyFinite, <3>1
         DEF FlushLog, BgShape, BgOutputShape, BgLogShape, BgPumpShape, BgCounts,
             BgLogCount
  <2>2. BgResumeCount'
    <3>1. bgLog.stored <= bgLog'.stored
      BY <1>15 DEF FlushLog, BgShape, BgLogShape
    <3> QED
      BY <1>15, <3>1, BgResumeSame DEF FlushLog, BgCounts, BgShape, BgBoundShape
  <2> QED
    BY <1>15, <2>1, <2>2
       DEF FlushLog, BgCounts, BgMaxCount, BgRecordCount, BgObserverCount, BgPumpCount
<1>16. CASE ProcessExits
  <2>1. /\ bgLog' = bgLog /\ bgBound' = bgBound /\ bgResume' = bgResume
        /\ bgProc.state = "dead" => bgProc'.state = "dead"
    BY <1>16 DEF ProcessExits, BgShape, BgProcShape
  <2>2. BgResumeCount'
    BY <2>1, BgResumeSame DEF BgCounts, BgShape, BgLogShape, BgBoundShape
  <2>3. BgRecordCount'
    BY <1>16, <2>1 DEF ProcessExits, BgShape, BgProcShape, BgCounts, BgRecordCount
  <2> QED
    BY <1>16, <2>2, <2>3
       DEF ProcessExits, BgCounts, BgBusy, BgMaxCount, BgObserverCount, BgPumpCount, BgLogCount
<1>17. CASE PidReused
  <2>1. /\ bgLog' = bgLog /\ bgBound' = bgBound /\ bgResume' = bgResume
        /\ bgProc'.state = bgProc.state
    BY <1>17 DEF PidReused, BgShape, BgProcShape
  <2>2. BgResumeCount' /\ BgRecordCount'
    BY <1>17, <2>1 DEF PidReused, BgCounts, BgResumeCount, BgRecordCount
  <2> QED
    BY <1>17, <2>2
       DEF PidReused, BgCounts, BgBusy, BgMaxCount, BgObserverCount, BgPumpCount, BgLogCount
<1>18. CASE SendExited
  <2>1. BgLogCount'
    <3>1. BgBusy' = BgBusy
      BY <1>18 DEF SendExited, BgBusy
    <3> QED
      BY <1>18, BgBusyFinite, <3>1
         DEF SendExited, BgShape, BgOutputShape, BgLogShape, BgPumpShape, BgCounts,
             BgLogCount
  <2>2. BgResumeCount'
    <3>1. bgLog.stored <= bgLog'.stored
      BY <1>18 DEF SendExited, BgShape, BgLogShape
    <3> QED
      BY <1>18, <3>1, BgResumeSame DEF SendExited, BgCounts, BgShape, BgBoundShape
  <2> QED
    BY <1>18, <2>1, <2>2
       DEF SendExited, BgCounts, BgMaxCount, BgRecordCount, BgObserverCount, BgPumpCount
<1>19. ASSUME NEW r \in BgResumers, ResumeSnapshot(r) PROVE BgCounts'
  <2>1. /\ bgBound.resumes <= bgBound'.resumes /\ bgBound'.resumes > 0
        /\ bgLog' = bgLog /\ bgProc' = bgProc /\ bgLog.stored \in Nat /\ bgLive \in Nat
    BY <1>19 DEF ResumeSnapshot, BgShape, BgBoundShape, BgLogShape, BgLiveShape
  <2>2. \A q \in BgResumers \ {r} : bgResume'[q] = bgResume[q]
    BY <1>19 DEF ResumeSnapshot, BgShape, BgResumeShape
  <2>3. BgFits(bgResume'[r], bgLog'.stored, bgProc'.state = "dead")
    <3>1. bgResume'[r] = Candidate \/ bgResume'[r] = BgIdleResume
      BY <1>19 DEF ResumeSnapshot, BgShape, BgResumeShape
    <3>2. BgFits(Candidate, bgLog.stored, bgProc.state = "dead")
      BY <2>1 DEF BgFits, Candidate
    <3>3. BgFits(BgIdleResume, bgLog.stored, bgProc.state = "dead")
      BY <2>1 DEF BgFits, BgIdleResume, BgNoObserver
    <3> QED
      BY <2>1, <3>1, <3>2, <3>3
  <2>4. BgResumeCount'
    BY <2>1, <2>2, <2>3, BgResumeKept DEF BgCounts
  <2>5. BgRecordCount'
    BY <1>19, <2>1
       DEF ResumeSnapshot, BgCounts, BgRecordCount, BgShape, BgBoundShape
  <2> QED
    BY <1>19, <2>4, <2>5
       DEF ResumeSnapshot, BgCounts, BgBusy, BgMaxCount, BgObserverCount, BgPumpCount,
           BgLogCount
<1>20. ASSUME NEW r \in BgResumers,
              \/ ResumeTrack(r) \/ ResumeInspect(r) \/ ResumePoll(r) \/ ResumeSynced(r)
              \/ ResumeLogFails(r) \/ ResumeFinish(r)
       PROVE  BgCounts'
  <2>1. UNCHANGED <<bgProc, bgOutput, bgRecord, bgLog, bgObserver, bgPump, bgBound>>
    BY <1>20
       DEF ResumeTrack, ResumeInspect, ResumePoll, ResumeSynced, ResumeLogFails, ResumeFinish
  <2>2. /\ bgLog.stored \in Nat /\ bgBound.resumes \in Nat
        /\ bgResume[r] \in BgResumeRecords /\ bgResume'[r] \in BgResumeRecords
    BY BgAssumption DEF BgShape, BgLogShape, BgBoundShape, BgResumeShape
  <2>3. /\ \A q \in BgResumers \ {r} : bgResume'[q] = bgResume[q]
        /\ \/ bgResume'[r] = BgIdleResume
           \/ /\ bgResume'[r].seed = bgResume[r].seed /\ bgResume'[r].offset = bgResume[r].offset
              /\ bgResume'[r].observer = bgResume[r].observer /\ bgResume'[r].due = bgResume[r].due
              /\ bgResume[r].pc \in BgRereads => bgResume'[r].pc \in BgRereads
              /\ bgResume[r].pc # "idle"
    <3> USE DEF BgShape, BgResumeShape, BgResumeRecords, BgRereads
    <3>1. CASE ResumeTrack(r)
      BY <3>1 DEF ResumeTrack, ResumeAt, ResumeEnds
    <3>2. CASE ResumeInspect(r)
      BY <3>2 DEF ResumeInspect, Inspection
    <3>3. CASE ResumePoll(r)
      BY <3>3 DEF ResumePoll, ResumeAt
    <3>4. CASE ResumeSynced(r)
      BY <3>4 DEF ResumeSynced, ResumeAt, At, Synced
    <3>5. CASE ResumeLogFails(r)
      BY <3>5 DEF ResumeLogFails, ResumeAt, At
    <3>6. CASE ResumeFinish(r)
      BY <3>6 DEF ResumeFinish, ResumeEnds
    <3> QED
      BY <1>20, <3>1, <3>2, <3>3, <3>4, <3>5, <3>6
  <2>4. /\ BgFits(bgResume'[r], bgLog.stored, bgProc.state = "dead")
        /\ bgResume'[r].pc # "idle" \/ bgResume'[r].due => bgBound.resumes > 0
    <3>1. CASE bgResume'[r] = BgIdleResume
      BY <2>2, <3>1 DEF BgFits, BgIdleResume, BgNoObserver
    <3>2. CASE bgResume'[r] # BgIdleResume
      BY <2>3, <3>2 DEF BgFits, BgCounts, BgResumeCount
    <3> QED
      BY <3>1, <3>2
  <2>5. BgResumeCount'
    BY <2>1, <2>2, <2>3, <2>4, BgResumeKept DEF BgCounts
  <2> QED
    BY <2>1, <2>5
       DEF BgCounts, BgBusy, BgMaxCount, BgRecordCount, BgObserverCount, BgPumpCount, BgLogCount
<1>21. ASSUME NEW r \in BgResumers,
              ResumeScan(r) \/ ResumeScanExited(r) \/ ResumeDetect(r) \/ ResumeTerminal(r)
       PROVE  BgCounts'
  <2> DEFINE me == bgResume[r]
  <2>1. UNCHANGED <<bgProc, bgOutput, bgLog, bgObserver, bgPump, bgBound>>
    BY <1>21 DEF ResumeScan, ResumeScanExited, ResumeDetect, ResumeTerminal
  <2>2. /\ bgLog.stored \in Nat /\ bgBound.resumes \in Nat
        /\ me \in BgResumeRecords /\ bgResume'[r] \in BgResumeRecords
        /\ me.observer \in BgCounters /\ me.seed \in Nat /\ me.offset \in Nat
        /\ me.observer.bytes \in Nat
    BY BgAssumption
       DEF BgShape, BgLogShape, BgBoundShape, BgResumeShape, BgResumeRecords, BgCounters
  <2>3. me.pc \in {"scan", "exited", "detect", "exit", "lost"}
    BY <1>21 DEF ResumeScan, ResumeScanExited, ResumeDetect, ResumeTerminal, At
  <2>4. BgRecordCount'
    <3>1. \/ bgRecord' = bgRecord
          \/ \E ready, status : AppendAfterFlush(me.observer, ready, status)
      BY <1>21 DEF ResumeScan, ResumeScanExited, ResumeDetect, ResumeTerminal
    <3>2. CASE bgRecord' = bgRecord
      BY <2>1, <3>2 DEF BgCounts, BgRecordCount
    <3>3. ASSUME NEW ready, NEW status, AppendAfterFlush(me.observer, ready, status)
          PROVE  BgRecordCount'
      BY <2>1, <2>3, <3>3, BgResumeFlush
    <3> QED
      BY <3>1, <3>2, <3>3
  <2>5. /\ Flushed(me.observer).bytes = me.observer.bytes
        /\ Flushed(me.observer).dirty => me.observer.dirty
    BY <2>2, BgFlushes
  <2>6. /\ \A q \in BgResumers \ {r} : bgResume'[q] = bgResume[q]
        /\ \/ bgResume'[r] = BgIdleResume
           \/ /\ bgResume'[r].seed = me.seed /\ bgResume'[r].due = me.due
              /\ bgResume'[r].observer \in {me.observer, Flushed(me.observer)}
              /\ \/ /\ bgResume'[r].offset = me.offset
                    /\ me.pc \in BgRereads => bgResume'[r].pc \in BgRereads
                 \/ me.pc = "exited" /\ bgResume'[r].pc = "final" /\ bgResume'[r].offset = me.seed
    <3>1. CASE ResumeScan(r) \/ ResumeScanExited(r) \/ ResumeDetect(r)
      <4>1. PICK rec \in BgResumeRecords :
              bgResume' = [bgResume EXCEPT ![r] = rec] /\ BgScans(me, rec)
        BY <3>1, BgScanStep DEF BgShape
      <4>2. bgResume'[r] = rec /\ \A q \in BgResumers \ {r} : bgResume'[q] = bgResume[q]
        BY <4>1 DEF BgShape, BgResumeShape
      <4> QED
        BY <4>1, <4>2 DEF BgScans, BgRereads
    <3>2. CASE ResumeTerminal(r)
      BY <3>2
         DEF ResumeTerminal, ResumeAt, ResumeEnds, At, BgShape, BgResumeShape, BgResumeRecords,
             BgRereads
    <3> QED
      BY <1>21, <3>1, <3>2
  <2>7. BgFits(me, bgLog.stored, bgProc.state = "dead") /\ bgBound.resumes > 0
    BY <2>3 DEF BgCounts, BgResumeCount
  <2>8. BgFits(bgResume'[r], bgLog.stored, bgProc.state = "dead")
    <3>1. CASE bgResume'[r] = BgIdleResume
      BY <2>2, <3>1 DEF BgFits, BgIdleResume, BgNoObserver
    <3>2. CASE bgResume'[r] # BgIdleResume /\ bgResume'[r].offset = me.offset
                 /\ (me.pc \in BgRereads => bgResume'[r].pc \in BgRereads)
      BY <2>5, <2>6, <2>7, <3>2 DEF BgFits
    <3>3. CASE /\ bgResume'[r] # BgIdleResume
               /\ me.pc = "exited" /\ bgResume'[r].pc = "final" /\ bgResume'[r].offset = me.seed
      <4>1. bgProc.state = "dead" /\ me.observer.bytes = me.offset
        BY <2>7, <3>3 DEF BgFits, BgRereads, BgExitKnown, BgExitSeen
      <4> QED
        BY <2>2, <2>5, <2>6, <2>7, <3>3, <4>1 DEF BgFits, BgRereads
    <3> QED
      BY <2>6, <3>1, <3>2, <3>3
  <2>9. BgResumeCount'
    BY <2>1, <2>2, <2>6, <2>7, <2>8, BgResumeKept DEF BgCounts
  <2> QED
    BY <2>1, <2>4, <2>9
       DEF BgCounts, BgBusy, BgMaxCount, BgObserverCount, BgPumpCount, BgLogCount
<1>22. ASSUME NEW r \in BgResumers, ResumeEmit(r) PROVE BgCounts'
  <2> DEFINE me == bgResume[r]
  <2>0. PICK rec \in BgResumeRecords :
          bgResume' = [bgResume EXCEPT ![r] = rec] /\ BgEmits(me, rec)
    BY <1>22, BgEmitStep DEF BgShape
  <2>1. UNCHANGED <<bgProc, bgOutput, bgRecord, bgLog, bgObserver, bgPump, bgBound>>
    BY <1>22 DEF ResumeEmit
  <2>2. /\ bgLog.stored \in Nat /\ bgBound.resumes \in Nat
        /\ me.seed \in Nat /\ me.offset \in Nat /\ me.observer.bytes \in Nat
    BY BgAssumption
       DEF BgShape, BgLogShape, BgBoundShape, BgResumeShape, BgResumeRecords, BgCounters
  <2>3. /\ \A q \in BgResumers \ {r} : bgResume'[q] = bgResume[q]
        /\ bgResume'[r].seed = me.seed /\ bgResume'[r].offset = me.offset + 1
        /\ bgResume'[r].observer.bytes = me.observer.bytes + 1
    BY <2>0 DEF BgEmits, BgShape, BgResumeShape
  <2>4. /\ me.pc \in {"sync", "final"} /\ me.offset < bgLog.stored
        /\ me.pc = "final" => bgResume'[r].pc \in {"final", "exit"}
    BY <1>22, <2>0 DEF ResumeEmit, BgEmits, BgShape, BgResumeShape
  <2>5. BgFits(me, bgLog.stored, bgProc.state = "dead") /\ bgBound.resumes > 0
    BY <2>4 DEF BgCounts, BgResumeCount
  <2>6. /\ me.seed <= me.offset
        /\ me.observer.bytes + me.seed <= bgLog.stored + me.offset
    BY <2>2, <2>4, <2>5 DEF BgFits
  <2>7. me.pc = "sync" \/ bgProc.state # "dead" => me.observer.bytes = me.offset
    BY <2>5 DEF BgFits, BgRereads
  <2>8. BgFits(bgResume'[r], bgLog.stored, bgProc.state = "dead")
    BY <2>2, <2>3, <2>4, <2>6, <2>7 DEF BgFits, BgRereads
  <2>9. BgResumeCount'
    BY <2>1, <2>2, <2>3, <2>5, <2>8, BgResumeKept DEF BgCounts
  <2> QED
    BY <2>1, <2>9
       DEF BgCounts, BgBusy, BgMaxCount, BgRecordCount, BgObserverCount, BgPumpCount, BgLogCount
<1>23. ASSUME NEW r \in BgResumers, ResumeObserved(r) PROVE BgCounts'
  <2> DEFINE me == bgResume[r]
  <2>1. UNCHANGED <<bgProc, bgOutput, bgLog, bgObserver, bgPump, bgBound>>
    BY <1>23 DEF ResumeObserved
  <2>2. /\ bgLog.stored \in Nat /\ bgBound.resumes \in Nat /\ bgOutput.written \in Nat
        /\ bgLog.buffered \in Nat /\ me \in BgResumeRecords /\ me.due
    BY <1>23, BgAssumption
       DEF ResumeObserved, BgShape, BgLogShape, BgOutputShape, BgBoundShape, BgResumeShape
  <2>3. /\ \A q \in BgResumers \ {r} : bgResume'[q] = bgResume[q]
        /\ bgResume'[r].seed = me.seed /\ bgResume'[r].offset = me.offset
        /\ bgResume'[r].pc = me.pc /\ bgResume'[r].observer.bytes = me.observer.bytes
        /\ bgResume'[r].observer.dirty = FALSE /\ bgResume'[r].due = FALSE
    BY <1>23 DEF ResumeObserved, BgShape, BgResumeShape, BgResumeRecords
  <2>4. BgFits(me, bgLog.stored, bgProc.state = "dead")
    BY DEF BgCounts, BgResumeCount
  <2>5. bgBound.resumes > 0
    BY <2>2 DEF BgCounts, BgResumeCount
  <2>6. BgFits(bgResume'[r], bgLog.stored, bgProc.state = "dead")
    BY <2>3, <2>4 DEF BgFits
  <2>7. BgResumeCount'
    BY <2>1, <2>2, <2>3, <2>5, <2>6, BgResumeKept DEF BgCounts
  <2>8. BgRecordCount'
    <3>1. PICK dead \in BOOLEAN : dead <=> bgProc.state = "dead"
      OBVIOUS
    <3>2. BgFits(me, bgLog.stored, dead)
      BY <2>4, <3>1 DEF BgFits
    <3>3. bgLog.stored <= bgOutput.written
      BY <2>2, BgBusyFinite DEF BgCounts, BgLogCount
    <3>4. /\ me.observer.bytes <= 2 * bgOutput.written
          /\ ~dead => me.observer.bytes <= bgOutput.written
      BY <2>2, <3>2, <3>3, BgCountOf
    <3>5. bgRecord'.bytes = me.observer.bytes
      BY <1>23 DEF ResumeObserved, BgShape, BgRecordShape
    <3> QED
      BY <2>1, <2>2, <3>1, <2>5, <3>4, <3>5 DEF BgRecordCount
  <2> QED
    BY <2>1, <2>7, <2>8
       DEF BgCounts, BgBusy, BgMaxCount, BgObserverCount, BgPumpCount, BgLogCount
<1>27. CASE BgCrash
  <2>1. BgRecordCount'
    BY <1>27 DEF BgCrash, BgShape, BgBoundShape, BgCounts, BgRecordCount
  <2>2. BgObserverCount'
    BY <1>27 DEF BgCrash, BgNoObserver, BgShape, BgOutputShape, BgObserverCount
  <2>3. BgPumpCount'
    BY <1>27 DEF BgCrash, BgIdlePump, BgShape, BgOutputShape, BgPumpCount
  <2>4. BgResumeCount'
    BY <1>27
       DEF BgCrash, BgNoObserver, BgIdleResume, BgShape, BgLogShape, BgResumeCount, BgFits
  <2>5. BgLogCount'
    <3>1. BgBusy' = {}
      BY <1>27 DEF BgCrash, BgIdlePump, BgBusy
    <3>2. Cardinality(BgBusy') = 0
      BY <3>1, FS_EmptySet
    <3>3. bgLog'.stored = bgLog.stored /\ bgLog'.buffered = 0 /\ bgOutput' = bgOutput
      BY <1>27 DEF BgCrash, BgShape, BgLogShape
    <3> QED
      BY <3>2, <3>3, BgBusyFinite
         DEF BgShape, BgOutputShape, BgLogShape, BgCounts, BgLogCount
  <2> QED
    BY <1>27, <2>1, <2>2, <2>3, <2>4, <2>5 DEF BgCrash, BgCounts, BgMaxCount
<1>28. CASE UNCHANGED bgVars
  BY <1>28
     DEF bgVars, BgCounts, BgBusy, BgMaxCount, BgRecordCount, BgObserverCount,
         BgPumpCount, BgResumeCount, BgLogCount
<1> QED
  BY <1>1, <1>2, <1>3, <1>4, <1>5, <1>6, <1>7, <1>8, <1>9, <1>10, <1>11, <1>12,
     <1>13, <1>14, <1>15, <1>16, <1>17, <1>18, <1>19, <1>20, <1>21, <1>22, <1>23,
     <1>27, <1>28
     DEF BgNext, BgCallStep, BgMonitorStep, BgPumpStep, BgResumeStep

LEMMA BgExitsKnown == BgSpec => []BgExitKnown
<1>1. BgInit => BgExitKnown
  BY DEF BgInit, BgExitKnown, BgSpawned, BgExitSeen, BgExitIsReal, BgIdleResume
<1> QED
  BY <1>1, BgExitKnownStep, BgShapeCorrect, PTL DEF BgSpec

LEMMA BgCountsCorrect == BgSpec => []BgCounts
BY BgCountsInit, BgCountsStep, BgShapeCorrect, BgExitsKnown, PTL DEF BgSpec

LEMMA BgShapeInBounds == BgShape /\ BgCounts => BgTypeOK
<1> SUFFICES ASSUME BgShape, BgCounts PROVE BgTypeOK
  OBVIOUS
<1>1. bgOutput.written \in 0..BgMaxChunks
  BY BgAssumption DEF BgShape, BgOutputShape, BgCounts, BgMaxCount
<1>2. bgOutput \in [written : 0..BgMaxChunks, readyAt : 0..BgMaxChunks, patterns : BOOLEAN]
  BY <1>1 DEF BgShape, BgOutputShape
<1>3. bgLog.stored \in 0..BgMaxChunks /\ bgLog.buffered \in 0..BgMaxChunks
  BY <1>1, BgAssumption, BgBusyFinite
     DEF BgShape, BgOutputShape, BgLogShape, BgCounts, BgLogCount
<1>4. bgLog \in [stored : 0..BgMaxChunks, buffered : 0..BgMaxChunks]
  BY <1>3 DEF BgShape, BgLogShape
<1> QED
  BY <1>2, <1>4
     DEF BgShape, BgTypeOK, BgProcShape, BgRecordShape, BgLiveShape, BgObserverShape,
         BgTrackedShape, BgChannelsShape, BgCallShape, BgMonitorShape, BgPumpShape,
         BgResumeShape, BgResumeRecords, BgResumePcs, BgBoundShape, BgObservers, BgCounters

(* The background execution's state keeps its type, and its output and its log    *)
(* their bounds, whatever is started, stopped, resumed or lost.                   *)
THEOREM BgTypeCorrect == BgSpec => []BgTypeOK
BY BgShapeCorrect, BgCountsCorrect, BgShapeInBounds, PTL

(* The record counts the output once (execution_background_observer.go and        *)
(* syncResumedBackgroundLog) while the process runs, or when no monitor was       *)
(* resumed, through any number of crashes and overlapping monitors; the reading   *)
(* after an exit (resumeExitedBackgroundExecution) counts at most once more.      *)
THEOREM BgOutputIsCountedOnce == BgSpec => []BgOutputCountedOnce
<1>1. BgShape /\ BgCounts => BgOutputCountedOnce
  BY BgBusyFinite
     DEF BgShape, BgOutputShape, BgLogShape, BgCounts, BgRecordCount, BgLogCount,
         BgOutputCountedOnce
<1> QED
  BY <1>1, BgShapeCorrect, BgCountsCorrect, PTL

-----------------------------------------------------------------------------
(* The manager runs one language server.                                    *)

------------------------------------------------------------------------------
(* The shape of the state.                                                        *)

LspDocuments == [version : Nat, stat : Nat]
LspReports == [version : Nat, text : Nat]
LspServers == [proc : {"none", "up", "down"}, document : LspDocuments, sent : Seq(LspReports),
               published : Nat, report : LspReports, pull : BOOLEAN]
LspPcs == {"idle", "lookup", "once", "start", "initialize", "pick", "diagnose", "wait", "store",
           "stat", "find"} \cup LspWorking
LspCallRecords ==
    [pc : LspPcs, op : {"", "query", "changed", "deleted"}, since : Nat, at : 0 .. LspMaxStarts,
     stat : Nat, known : LspDocuments, text : Nat, version : Nat, news : BOOLEAN]

LspPlaced == {"once", "start", "initialize", "stat", "diagnose", "wait", "store"} \cup LspWorking
LspCallFits(call) == call \in LspCallRecords /\ (call.pc \in LspPlaced => call.at \in LspStarts)

LspFileShape == lspFile \in [text : 1 .. LspMaxTexts, exists : BOOLEAN]
LspManagerShape ==
    lspManager \in [server : 0 .. LspMaxStarts, failed : {"no", "cooling", "over"},
                    once : 0 .. LspMaxStarts]
LspOnceShape == lspOnce \in [LspStarts -> {"unused", "fresh", "running", "done"}]
LspServerShape == lspServer \in [LspStarts -> LspServers]
LspCallShape ==
    /\ lspCall \in [LspCallers -> LspCallRecords]
    /\ \A c \in LspCallers : LspCallFits(lspCall[c])
LspShape == LspFileShape /\ LspManagerShape /\ LspOnceShape /\ LspServerShape /\ LspCallShape

(* Who is starting the server of Once i.                                          *)
LspStarting(c, i) == lspCall[c].pc \in {"start", "initialize"} /\ lspCall[c].at = i

(* A Once that is not used up is the manager's, which has no server and no failure *)
(* then; it has one starter, and a server that is up is registered or being started. *)
LspOnceInv ==
    /\ \A i \in LspStarts :
          lspOnce[i] \in {"fresh", "running"} =>
             lspManager.once = i /\ lspManager.server = 0 /\ lspManager.failed = "no"
    /\ \A c \in LspCallers, i \in LspStarts : LspStarting(c, i) => lspOnce[i] = "running"
    /\ \A c, d \in LspCallers, i \in LspStarts : LspStarting(c, i) /\ LspStarting(d, i) => c = d
    /\ \A i \in LspStarts : LspUp(i) => lspManager.server = i \/ lspOnce[i] = "running"
    /\ \A i \in LspStarts : lspManager.once = i /\ lspOnce[i] = "done"
          => lspManager.server # 0 \/ lspManager.failed # "no"
    /\ \A i \in LspStarts : lspManager.once = i => lspOnce[i] # "unused"
    /\ \A c \in LspCallers, i \in LspStarts : LspStarting(c, i) /\ LspAt(c, "start") => ~LspUp(i)

------------------------------------------------------------------------------

(* A call that moves on, and a server that changes, keep their shape.             *)
LEMMA LspCallNow ==
    ASSUME LspShape, NEW c \in LspCallers
    PROVE  /\ lspCall[c] \in LspCallRecords
           /\ lspCall[c].pc \in LspPlaced => lspCall[c].at \in LspStarts
  BY DEF LspShape, LspCallShape, LspCallFits

LEMMA LspCallMoves ==
    ASSUME LspShape, NEW c \in LspCallers, NEW call, LspCallFits(call),
           lspCall' = [lspCall EXCEPT ![c] = call]
    PROVE  LspCallShape' /\ lspCall'[c] = call /\ \A d \in LspCallers \ {c} : lspCall'[d] = lspCall[d]
  BY DEF LspShape, LspCallShape, LspCallFits

LEMMA LspCallGoes ==
    ASSUME LspShape, NEW c \in LspCallers, NEW pc \in LspPcs, LspGo(c, pc),
           pc \in LspPlaced => lspCall[c].at \in LspStarts
    PROVE  /\ LspCallShape' /\ lspCall'[c] = [lspCall[c] EXCEPT !.pc = pc]
           /\ \A d \in LspCallers \ {c} : lspCall'[d] = lspCall[d]
<1> DEFINE call == [lspCall[c] EXCEPT !.pc = pc]
<1>1. LspCallFits(call)
  <2>1. lspCall[c] \in LspCallRecords
    BY LspCallNow
  <2>2. call \in LspCallRecords /\ call.pc = pc /\ call.at = lspCall[c].at
    BY <2>1 DEF LspCallRecords
  <2> QED
    BY <2>2 DEF LspCallFits
<1>2. lspCall' = [lspCall EXCEPT ![c] = call]
  BY DEF LspGo
<1> HIDE DEF call
<1>3. LspCallShape' /\ lspCall'[c] = call /\ \A d \in LspCallers \ {c} : lspCall'[d] = lspCall[d]
  BY <1>1, <1>2, LspCallMoves
<1> QED
  BY <1>3 DEF call

LEMMA LspIdleFits == LspCallFits(LspIdle) /\ LspIdle \in LspCallRecords
  BY LspAssumption DEF LspCallFits, LspIdle, LspCallRecords, LspPcs, LspPlaced, LspDocuments,
     NoDocument, LspWorking

LEMMA LspCallEnds ==
    ASSUME LspShape, NEW c \in LspCallers, LspEnds(c)
    PROVE  /\ LspCallShape' /\ lspCall'[c] = LspIdle
           /\ \A d \in LspCallers \ {c} : lspCall'[d] = lspCall[d]
  BY LspIdleFits, LspCallMoves DEF LspEnds

LEMMA LspServerChanges ==
    ASSUME LspShape, NEW i \in LspStarts, NEW server \in LspServers,
           lspServer' = [lspServer EXCEPT ![i] = server]
    PROVE  LspServerShape' /\ lspServer'[i] = server /\ \A j \in LspStarts \ {i} : lspServer'[j] = lspServer[j]
  BY DEF LspShape, LspServerShape

(* What each step does to its call and its server, which keep their shape.        *)
LspOthers(c) == \A d \in LspCallers \ {c} : lspCall'[d] = lspCall[d]
LspOtherServers(i) == \A j \in LspStarts \ {i} : lspServer'[j] = lspServer[j]

LEMMA LspQuietShape ==
    ASSUME LspShape, LspCallShape'
    PROVE  /\ lspFile' = lspFile => LspFileShape'
           /\ lspManager' = lspManager => LspManagerShape'
           /\ lspOnce' = lspOnce => LspOnceShape'
           /\ lspServer' = lspServer => LspServerShape'
<1>1. lspFile' = lspFile => LspFileShape'
  BY DEF LspShape, LspFileShape
<1>2. lspManager' = lspManager => LspManagerShape'
  BY DEF LspShape, LspManagerShape
<1>3. lspOnce' = lspOnce => LspOnceShape'
  BY DEF LspShape, LspOnceShape
<1>4. lspServer' = lspServer => LspServerShape'
  BY DEF LspShape, LspServerShape
<1> QED
  BY <1>1, <1>2, <1>3, <1>4

LEMMA LspServerFits ==
    ASSUME NEW server \in LspServers
    PROVE  /\ \A x \in {"none", "up", "down"} : [server EXCEPT !.proc = x] \in LspServers
           /\ \A x \in LspDocuments : [server EXCEPT !.document = x] \in LspServers
           /\ \A x \in LspReports : [server EXCEPT !.report = x] \in LspServers
           /\ \A x \in LspReports : [server EXCEPT !.sent = Append(@, x)] \in LspServers
           /\ [server EXCEPT !.pull = FALSE] \in LspServers
<1>1. \A x \in LspReports : Append(server.sent, x) \in Seq(LspReports)
  BY DEF LspServers
<1>2. \A x \in LspReports : [server EXCEPT !.sent = Append(@, x)] \in LspServers
  <2> SUFFICES ASSUME NEW x \in LspReports PROVE [server EXCEPT !.sent = Append(@, x)] \in LspServers
    OBVIOUS
  <2> DEFINE sent == Append(server.sent, x)
  <2>1. sent \in Seq(LspReports)
    BY <1>1
  <2> HIDE DEF sent
  <2>2. [server EXCEPT !.sent = sent] \in LspServers
    BY <2>1 DEF LspServers
  <2> QED
    BY <2>2 DEF sent
<1>3. \A x \in {"none", "up", "down"} : [server EXCEPT !.proc = x] \in LspServers
  BY DEF LspServers
<1>4. \A x \in LspDocuments : [server EXCEPT !.document = x] \in LspServers
  BY DEF LspServers
<1>5. \A x \in LspReports : [server EXCEPT !.report = x] \in LspServers
  BY DEF LspServers
<1>6. [server EXCEPT !.pull = FALSE] \in LspServers
  BY DEF LspServers
<1> QED
  BY <1>2, <1>3, <1>4, <1>5, <1>6

LEMMA LspShapeKept == LspShape /\ [LspNext]_lspVars => LspShape'
<1> SUFFICES ASSUME LspShape, [LspNext]_lspVars PROVE LspShape'
  OBVIOUS
<1> USE DEF LspShape
<1>0. \A c \in LspCallers :
         /\ lspCall[c] \in LspCallRecords
         /\ lspCall[c].pc \in LspPlaced => lspCall[c].at \in LspStarts /\ lspServer[lspCall[c].at] \in LspServers
  BY LspCallNow DEF LspServerShape
<1>1. ASSUME NEW c \in LspCallers, LspOnceDone(c) PROVE LspShape'
  <2>1. LspCallShape'
    BY <1>0, <1>1, LspCallGoes, LspCallEnds DEF LspOnceDone, LspAt, LspPlaced, LspPcs, LspWorking
  <2> QED
    BY <1>1, <2>1, LspQuietShape DEF LspOnceDone
<1>2. ASSUME NEW c \in LspCallers, LspAnswered(c) PROVE LspShape'
  <2>1. LspCallShape'
    BY <1>0, <1>2, LspCallGoes, LspCallEnds DEF LspAnswered, LspAt, LspPlaced, LspPcs, LspWorking
  <2> QED
    BY <1>2, <2>1, LspQuietShape DEF LspAnswered
<1>3. ASSUME NEW c \in LspCallers, LspReport(c) PROVE LspShape'
  <2>1. LspCallShape'
    BY <1>0, <1>3, LspCallGoes, LspCallEnds DEF LspReport, LspAt, LspPlaced, LspPcs, LspWorking
  <2> QED
    BY <1>3, <2>1, LspQuietShape, SMTT(60) DEF LspReport
<1>4. ASSUME NEW c \in LspCallers, LspSettles(c) PROVE LspShape'
  <2>1. LspCallShape'
    BY <1>0, <1>4, LspCallGoes, LspCallEnds DEF LspSettles, LspAt, LspPlaced, LspPcs, LspWorking
  <2> QED
    BY <1>4, <2>1, LspQuietShape DEF LspSettles
<1>5. ASSUME NEW c \in LspCallers, LspOnceRuns(c) PROVE LspShape'
  <2>1. LspCallShape'
    BY <1>0, <1>5, LspCallGoes, LspCallEnds DEF LspOnceRuns, LspAt, LspPlaced, LspPcs, LspWorking
  <2>2. LspOnceShape'
    BY <1>0, <1>5 DEF LspOnceShape, LspOnceRuns, LspAt, LspPlaced
  <2> QED
    BY <1>5, <2>1, <2>2, LspQuietShape DEF LspOnceRuns
<1>6. ASSUME NEW c \in LspCallers, LspSpawns(c) PROVE LspShape'
  <2>1. LspCallShape'
    BY <1>0, <1>6, LspCallGoes, LspCallEnds DEF LspSpawns, LspAt, LspPlaced, LspPcs, LspWorking
  <2>2. LspServerShape'
    <3> DEFINE at == lspCall[c].at
               server == [lspServer[at] EXCEPT !.proc = "up"]
    <3>1. at \in LspStarts /\ lspServer[at] \in LspServers
      BY <1>0, <1>6 DEF LspSpawns, LspAt, LspPlaced, LspPcs, LspWorking
    <3>2. server \in LspServers
      BY <1>0, <1>6, <3>1, LspServerFits
    <3>3. lspServer' = [lspServer EXCEPT ![at] = server] \/ lspServer' = lspServer
      BY <1>6 DEF LspSpawns, LspAt
    <3> HIDE DEF at, server
    <3> QED
      BY <3>1, <3>2, <3>3, LspServerChanges DEF LspServerShape
  <2> QED
    BY <1>6, <2>1, <2>2, LspQuietShape DEF LspSpawns
<1>7. ASSUME NEW c \in LspCallers, LspStartFails(c) PROVE LspShape'
  <2>1. LspCallShape'
    BY <1>0, <1>7, LspCallGoes, LspCallEnds DEF LspStartFails, LspAt, LspPlaced, LspPcs, LspWorking
  <2>2. LspServerShape'
    <3> DEFINE at == lspCall[c].at
               server == [lspServer[at] EXCEPT !.proc = "down"]
    <3>1. at \in LspStarts /\ lspServer[at] \in LspServers
      BY <1>0, <1>7 DEF LspStartFails, LspAt, LspPlaced, LspPcs, LspWorking
    <3>2. server \in LspServers
      BY <1>0, <1>7, <3>1, LspServerFits
    <3>3. lspServer' = [lspServer EXCEPT ![at] = server] \/ lspServer' = lspServer
      BY <1>7 DEF LspStartFails, LspAt
    <3> HIDE DEF at, server
    <3> QED
      BY <3>1, <3>2, <3>3, LspServerChanges DEF LspServerShape
  <2>3. LspManagerShape'
    BY <1>0, <1>7, LspAssumption DEF LspManagerShape, LspStartFails, LspAt, LspPlaced, LspStarts
  <2>4. LspOnceShape'
    BY <1>0, <1>7 DEF LspOnceShape, LspStartFails, LspAt, LspPlaced
  <2> QED
    BY <1>7, <2>1, <2>2, <2>3, <2>4, LspQuietShape DEF LspStartFails
<1>8. ASSUME NEW c \in LspCallers, LspRegisters(c) PROVE LspShape'
  <2>1. LspCallShape'
    BY <1>0, <1>8, LspCallGoes, LspCallEnds DEF LspRegisters, LspAt, LspPlaced, LspPcs, LspWorking
  <2>2. LspManagerShape'
    BY <1>0, <1>8, LspAssumption DEF LspManagerShape, LspRegisters, LspAt, LspPlaced, LspStarts
  <2>3. LspOnceShape'
    BY <1>0, <1>8 DEF LspOnceShape, LspRegisters, LspAt, LspPlaced
  <2> QED
    BY <1>8, <2>1, <2>2, <2>3, LspQuietShape DEF LspRegisters
<1>9. ASSUME NEW c \in LspCallers, LspClear(c) PROVE LspShape'
  <2>1. LspCallShape'
    BY <1>0, <1>9, LspCallGoes, LspCallEnds DEF LspClear, LspAt, LspPlaced, LspPcs, LspWorking
  <2>2. LspServerShape'
    <3> DEFINE at == lspCall[c].at
               server == [lspServer[at] EXCEPT !.report = NoReport]
    <3>1. at \in LspStarts /\ lspServer[at] \in LspServers
      BY <1>0, <1>9 DEF LspClear, LspAt, LspPlaced, LspPcs, LspWorking
    <3>2. server \in LspServers
      BY <1>0, <1>9, <3>1, LspServerFits DEF NoReport, LspReports
    <3>3. lspServer' = [lspServer EXCEPT ![at] = server] \/ lspServer' = lspServer
      BY <1>9 DEF LspClear, LspAt
    <3> HIDE DEF at, server
    <3> QED
      BY <3>1, <3>2, <3>3, LspServerChanges DEF LspServerShape
  <2> QED
    BY <1>9, <2>1, <2>2, LspQuietShape DEF LspClear
<1>10. ASSUME NEW c \in LspCallers, LspForget(c) PROVE LspShape'
  <2>1. LspCallShape'
    BY <1>0, <1>10, LspCallGoes, LspCallEnds DEF LspForget, LspAt, LspPlaced, LspPcs, LspWorking
  <2>2. LspServerShape'
    <3> DEFINE at == lspCall[c].at
               server == [lspServer[at] EXCEPT !.document = NoDocument]
    <3>1. at \in LspStarts /\ lspServer[at] \in LspServers
      BY <1>0, <1>10 DEF LspForget, LspAt, LspPlaced, LspPcs, LspWorking
    <3>2. server \in LspServers
      BY <1>0, <1>10, <3>1, LspServerFits DEF NoDocument, LspDocuments
    <3>3. lspServer' = [lspServer EXCEPT ![at] = server] \/ lspServer' = lspServer
      BY <1>10 DEF LspForget, LspAt
    <3> HIDE DEF at, server
    <3> QED
      BY <3>1, <3>2, <3>3, LspServerChanges DEF LspServerShape
  <2> QED
    BY <1>10, <2>1, <2>2, LspQuietShape DEF LspForget
<1>11. ASSUME NEW c \in LspCallers, LspClose(c) PROVE LspShape'
  <2>1. LspCallShape'
    BY <1>0, <1>11, LspCallGoes, LspCallEnds DEF LspClose, LspAt, LspPlaced, LspPcs, LspWorking
  <2>2. LspServerShape'
    <3> DEFINE at == lspCall[c].at
               server == [lspServer[at] EXCEPT !.sent = Append(@, [version |-> 0, text |-> 0])]
    <3>1. at \in LspStarts /\ lspServer[at] \in LspServers
      BY <1>0, <1>11 DEF LspClose, LspAt, LspPlaced, LspPcs, LspWorking
    <3>2. server \in LspServers
      BY <1>0, <1>11, <3>1, LspServerFits DEF LspReports
    <3>3. lspServer' = [lspServer EXCEPT ![at] = server] \/ lspServer' = lspServer
      BY <1>11 DEF LspClose, LspAt
    <3> HIDE DEF at, server
    <3> QED
      BY <3>1, <3>2, <3>3, LspServerChanges DEF LspServerShape
  <2> QED
    BY <1>11, <2>1, <2>2, LspQuietShape DEF LspClose
<1>12. ASSUME NEW c \in LspCallers, LspNoPull(c) PROVE LspShape'
  <2>1. LspCallShape'
    BY <1>0, <1>12, LspCallGoes, LspCallEnds DEF LspNoPull, LspAt, LspPlaced, LspPcs, LspWorking
  <2>2. LspServerShape'
    <3> DEFINE at == lspCall[c].at
               server == [lspServer[at] EXCEPT !.pull = FALSE]
    <3>1. at \in LspStarts /\ lspServer[at] \in LspServers
      BY <1>0, <1>12 DEF LspNoPull, LspAt, LspPlaced, LspPcs, LspWorking
    <3>2. server \in LspServers
      BY <1>0, <1>12, <3>1, LspServerFits
    <3>3. lspServer' = [lspServer EXCEPT ![at] = server] \/ lspServer' = lspServer
      BY <1>12 DEF LspNoPull, LspAt
    <3> HIDE DEF at, server
    <3> QED
      BY <3>1, <3>2, <3>3, LspServerChanges DEF LspServerShape
  <2> QED
    BY <1>12, <2>1, <2>2, LspQuietShape, SMTT(60) DEF LspNoPull
<1>13. ASSUME NEW c \in LspCallers, LspStore(c) PROVE LspShape'
  <2>1. LspCallShape'
    BY <1>0, <1>13, LspCallGoes, LspCallEnds DEF LspStore, LspAt, LspPlaced, LspPcs, LspWorking
  <2>2. LspServerShape'
    <3> DEFINE at == lspCall[c].at
               server == [lspServer[at] EXCEPT !.report = [version |-> lspCall[c].version, text |-> lspCall[c].text]]
    <3>1. at \in LspStarts /\ lspServer[at] \in LspServers
      BY <1>0, <1>13 DEF LspStore, LspAt, LspPlaced, LspPcs, LspWorking
    <3>2. server \in LspServers
      BY <1>0, <1>13, <3>1, LspServerFits DEF LspReports, LspCallRecords
    <3>3. lspServer' = [lspServer EXCEPT ![at] = server] \/ lspServer' = lspServer
      BY <1>13 DEF LspStore, LspAt
    <3> HIDE DEF at, server
    <3> QED
      BY <3>1, <3>2, <3>3, LspServerChanges DEF LspServerShape
  <2> QED
    BY <1>13, <2>1, <2>2, LspQuietShape DEF LspStore
<1>14. ASSUME NEW c \in LspCallers, LspPick(c) PROVE LspShape'
  <2>1. LspCallShape'
    <3> DEFINE call == [lspCall[c] EXCEPT !.pc = "stat", !.at = lspManager.server]
    <3>1. lspManager.server # 0 => lspManager.server \in LspStarts /\ lspManager.server \in 0 .. LspMaxStarts
      BY <1>0, <1>14, LspAssumption DEF LspPick, LspAt, LspPlaced, LspWorking, LspManagerShape, LspStarts
    <3>2. lspCall[c] \in LspCallRecords
      BY <1>0
    <3>3. lspManager.server # 0 => LspCallFits(call)
      BY <3>1, <3>2 DEF LspCallFits, LspCallRecords, LspPlaced, LspPcs, LspWorking
    <3>4. (lspManager.server # 0 /\ lspCall' = [lspCall EXCEPT ![c] = call]) \/ LspEnds(c)
      BY <1>14 DEF LspPick
    <3> HIDE DEF call
    <3> QED
      BY <3>3, <3>4, LspCallMoves, LspCallEnds
  <2> QED
    BY <1>14, <2>1, LspQuietShape DEF LspPick
<1>15. ASSUME NEW c \in LspCallers, LspStat(c) PROVE LspShape'
  <2>1. LspCallShape'
    <3> DEFINE call == [lspCall[c] EXCEPT !.pc = "check", !.news = FALSE,
                                         !.stat = IF lspFile.exists THEN lspFile.text ELSE 0]
    <3>1. (IF lspFile.exists THEN lspFile.text ELSE 0) \in Nat /\ lspCall[c].at \in LspStarts
      BY <1>0, <1>15, LspAssumption DEF LspStat, LspAt, LspPlaced, LspWorking, LspFileShape
    <3>2. lspCall[c] \in LspCallRecords
      BY <1>0
    <3>3. LspCallFits(call)
      BY <3>1, <3>2 DEF LspCallFits, LspCallRecords, LspPlaced, LspPcs, LspWorking
    <3>4. (lspCall' = [lspCall EXCEPT ![c] = call]) \/ LspEnds(c)
      BY <1>15 DEF LspStat
    <3> HIDE DEF call
    <3> QED
      BY <3>3, <3>4, LspCallMoves, LspCallEnds
  <2> QED
    BY <1>15, <2>1, LspQuietShape DEF LspStat
<1>16. ASSUME NEW c \in LspCallers, LspFind(c) PROVE LspShape'
  <2>1. LspCallShape'
    <3> DEFINE call == [lspCall[c] EXCEPT !.pc = "close", !.at = lspManager.server]
    <3>1. lspManager.server # 0 => lspManager.server \in LspStarts /\ lspManager.server \in 0 .. LspMaxStarts
      BY <1>0, <1>16, LspAssumption DEF LspFind, LspAt, LspPlaced, LspWorking, LspManagerShape, LspStarts
    <3>2. lspCall[c] \in LspCallRecords
      BY <1>0
    <3>3. lspManager.server # 0 => LspCallFits(call)
      BY <3>1, <3>2 DEF LspCallFits, LspCallRecords, LspPlaced, LspPcs, LspWorking
    <3>4. (lspManager.server # 0 /\ lspCall' = [lspCall EXCEPT ![c] = call]) \/ LspEnds(c)
      BY <1>16 DEF LspFind
    <3> HIDE DEF call
    <3> QED
      BY <3>3, <3>4, LspCallMoves, LspCallEnds
  <2> QED
    BY <1>16, <2>1, LspQuietShape DEF LspFind
<1>17. ASSUME NEW c \in LspCallers, LspPull(c) PROVE LspShape'
  <2>1. LspCallShape'
    <3> DEFINE call == [lspCall[c] EXCEPT !.pc = "store",
                                         !.text = lspServer[lspCall[c].at].sent[Len(lspServer[lspCall[c].at].sent)].text]
    <3>1. lspServer[lspCall[c].at].sent[Len(lspServer[lspCall[c].at].sent)].text \in Nat /\ lspCall[c].at \in LspStarts
      <4>1. lspCall[c].at \in LspStarts /\ lspServer[lspCall[c].at].sent \in Seq(LspReports)
        BY <1>0, <1>17 DEF LspPull, LspPlaced, LspWorking, LspServers
      <4>2. PICK sent : sent = lspServer[lspCall[c].at].sent
        BY SMTT(60)
      <4>3. sent \in Seq(LspReports) /\ sent # <<>>
        BY <1>17, <4>1, <4>2 DEF LspPull
      <4>4. sent[Len(sent)] \in LspReports
        BY <4>3, SMTT(60)
      <4> QED
        BY <4>1, <4>2, <4>4, SMTT(60) DEF LspReports
    <3>2. lspCall[c] \in LspCallRecords
      BY <1>0
    <3>3. LspCallFits(call)
      BY <3>1, <3>2, ZenonT(60) DEF LspCallFits, LspCallRecords, LspPlaced, LspPcs, LspWorking
    <3>4. (lspCall' = [lspCall EXCEPT ![c] = call]) \/ LspEnds(c)
      BY <1>17 DEF LspPull
    <3> HIDE DEF call
    <3> QED
      BY <3>3, <3>4, LspCallMoves, LspCallEnds
  <2> QED
    BY <1>17, <2>1, LspQuietShape DEF LspPull
<1>18. ASSUME NEW c \in LspCallers, LspCheck(c) PROVE LspShape'
  <2>1. LspCallShape'
    <3>1. lspCall[c].at \in LspStarts /\ lspServer[lspCall[c].at].document \in LspDocuments
      BY <1>0, <1>18 DEF LspCheck, LspPlaced, LspWorking, LspServers
    <3>2. CASE LspEnds(c)
      BY <3>2, LspCallEnds
    <3>3. CASE lspCall' = [lspCall EXCEPT ![c].pc = "read", ![c].known = lspServer[lspCall[c].at].document]
      <4> DEFINE call == [lspCall[c] EXCEPT !.pc = "read", !.known = lspServer[lspCall[c].at].document]
      <4>1. lspCall' = [lspCall EXCEPT ![c] = call]
        BY <3>3
      <4>2. LspCallFits(call)
        BY <1>0, <3>1, ZenonT(60) DEF LspCallFits, LspCallRecords, LspPlaced, LspPcs, LspWorking
      <4> HIDE DEF call
      <4> QED
        BY <4>1, <4>2, LspCallMoves
    <3>4. CASE lspCall' = [lspCall EXCEPT ![c].pc = "diagnose", ![c].stat = 0,
                               ![c].version = lspServer[lspCall[c].at].document.version]
      <4> DEFINE call == [lspCall[c] EXCEPT !.pc = "diagnose", !.stat = 0,
                              !.version = lspServer[lspCall[c].at].document.version]
      <4>1. lspCall' = [lspCall EXCEPT ![c] = call]
        BY <3>4
      <4>2. lspServer[lspCall[c].at].document.version \in Nat
        BY <3>1 DEF LspDocuments
      <4>3. LspCallFits(call)
        BY <1>0, <3>1, <4>2, ZenonT(60) DEF LspCallFits, LspCallRecords, LspPlaced, LspPcs, LspWorking
      <4> HIDE DEF call
      <4> QED
        BY <4>1, <4>3, LspCallMoves
    <3> QED
      BY <1>18, <3>2, <3>3, <3>4 DEF LspCheck
  <2> QED
    BY <1>18, <2>1, LspQuietShape DEF LspCheck
<1>19. ASSUME NEW c \in LspCallers, LspRead(c) PROVE LspShape'
  <2>1. LspCallShape'
    <3>1. lspCall[c].at \in LspStarts /\ lspFile.text \in Nat /\ lspCall[c].known.version + 1 \in Nat
      <4>1. lspCall[c].known \in LspDocuments
        BY <1>0 DEF LspCallRecords
      <4>2. lspCall[c].known.version \in Nat
        BY <4>1 DEF LspDocuments
      <4> QED
        BY <1>0, <1>19, <4>2, LspAssumption DEF LspRead, LspAt, LspPlaced, LspWorking, LspFileShape
    <3>2. CASE LspEnds(c)
      BY <3>2, LspCallEnds
    <3>3. CASE ~LspEnds(c)
      <4>1. PICK pc \in {"send_open", "record_change"} : lspCall' =
               [lspCall EXCEPT ![c].text = lspFile.text, ![c].known = NoDocument,
                   ![c].version = lspCall[c].known.version + 1, ![c].pc = pc]
        BY <1>19, <3>3 DEF LspRead
      <4> DEFINE call == [lspCall[c] EXCEPT !.text = lspFile.text, !.known = NoDocument,
                              !.version = lspCall[c].known.version + 1, !.pc = pc]
      <4>2. lspCall' = [lspCall EXCEPT ![c] = call]
        BY <4>1
      <4>3. NoDocument \in LspDocuments
        BY DEF NoDocument, LspDocuments
      <4>4. LspCallFits(call)
        BY <1>0, <3>1, <4>3, ZenonT(60) DEF LspCallFits, LspCallRecords, LspPlaced, LspPcs, LspWorking
      <4> HIDE DEF call
      <4> QED
        BY <4>2, <4>4, LspCallMoves
    <3> QED
      BY <3>2, <3>3
  <2> QED
    BY <1>19, <2>1, LspQuietShape DEF LspRead
<1>20. ASSUME NEW c \in LspCallers, LspSend(c) PROVE LspShape'
  <2>1. LspCallShape'
    <3>1. CASE LspSynced(c)
      <4> DEFINE call == [lspCall[c] EXCEPT !.pc = "clear", !.stat = 0, !.text = 0]
      <4>1. LspCallFits(call)
        BY <1>0, <1>20, ZenonT(60) DEF LspSend, LspCallFits, LspCallRecords, LspPlaced, LspPcs, LspWorking
      <4>2. lspCall' = [lspCall EXCEPT ![c] = call]
        BY <3>1 DEF LspSynced
      <4> HIDE DEF call
      <4> QED
        BY <4>1, <4>2, LspCallMoves
    <3>2. CASE ~LspSynced(c)
      BY <1>0, <3>2, <1>20, LspCallGoes, LspCallEnds DEF LspSend, LspAt, LspPlaced, LspPcs, LspWorking
    <3> QED
      BY <3>1, <3>2
  <2>2. LspServerShape'
    <3> DEFINE at == lspCall[c].at
               server == [lspServer[at] EXCEPT !.sent = Append(@, [version |-> lspCall[c].version, text |-> lspCall[c].text])]
    <3>1. at \in LspStarts /\ lspServer[at] \in LspServers
      BY <1>0, <1>20 DEF LspSend, LspAt, LspPlaced, LspPcs, LspWorking
    <3>2. server \in LspServers
      BY <1>0, <1>20, <3>1, LspServerFits DEF LspReports, LspCallRecords
    <3>3. lspServer' = [lspServer EXCEPT ![at] = server] \/ lspServer' = lspServer
      BY <1>20 DEF LspSend, LspAt
    <3> HIDE DEF at, server
    <3> QED
      BY <3>1, <3>2, <3>3, LspServerChanges DEF LspServerShape
  <2> QED
    BY <1>20, <2>1, <2>2, LspQuietShape DEF LspSend
<1>21. ASSUME NEW c \in LspCallers, LspRecord(c) PROVE LspShape'
  <2>1. LspCallShape'
    <3>1. CASE LspSynced(c)
      <4> DEFINE call == [lspCall[c] EXCEPT !.pc = "clear", !.stat = 0, !.text = 0]
      <4>1. LspCallFits(call)
        BY <1>0, <1>21, ZenonT(60) DEF LspRecord, LspCallFits, LspCallRecords, LspPlaced, LspPcs, LspWorking
      <4>2. lspCall' = [lspCall EXCEPT ![c] = call]
        BY <3>1 DEF LspSynced
      <4> HIDE DEF call
      <4> QED
        BY <4>1, <4>2, LspCallMoves
    <3>2. CASE ~LspSynced(c)
      BY <1>0, <3>2, <1>21, LspCallGoes, LspCallEnds DEF LspRecord, LspAt, LspPlaced, LspPcs, LspWorking
    <3> QED
      BY <3>1, <3>2
  <2>2. LspServerShape'
    <3> DEFINE at == lspCall[c].at
               server == [lspServer[at] EXCEPT !.document = [version |-> lspCall[c].version, stat |-> lspCall[c].stat]]
    <3>1. at \in LspStarts /\ lspServer[at] \in LspServers
      BY <1>0, <1>21 DEF LspRecord, LspAt, LspPlaced, LspPcs, LspWorking
    <3>2. server \in LspServers
      BY <1>0, <1>21, <3>1, LspServerFits DEF LspDocuments, LspCallRecords
    <3>3. lspServer' = [lspServer EXCEPT ![at] = server] \/ lspServer' = lspServer
      BY <1>21 DEF LspRecord, LspAt, StatOnRecord
    <3> HIDE DEF at, server
    <3> QED
      BY <3>1, <3>2, <3>3, LspServerChanges DEF LspServerShape
  <2> QED
    BY <1>21, <2>1, <2>2, LspQuietShape DEF LspRecord
<1>22. ASSUME NEW c \in LspCallers, LspLookup(c) PROVE LspShape'
  <2>1. lspManager.server \in 0 .. LspMaxStarts /\ (lspManager.server # 0 => lspManager.server \in LspStarts)
    BY LspAssumption DEF LspManagerShape, LspStarts
  <2>2. CASE LspEnds(c) /\ UNCHANGED <<lspManager, lspOnce>>
    BY <1>22, <2>2, LspCallEnds, LspQuietShape DEF LspLookup
  <2>3. CASE /\ lspManager.server # 0 /\ UNCHANGED <<lspManager, lspOnce>>
             /\ lspCall' = [lspCall EXCEPT ![c].pc = "stat", ![c].at = lspManager.server]
    <3> DEFINE call == [lspCall[c] EXCEPT !.pc = "stat", !.at = lspManager.server]
    <3>1. LspCallFits(call)
      BY <1>0, <2>1, <2>3, ZenonT(60) DEF LspCallFits, LspCallRecords, LspPcs
    <3>2. lspCall' = [lspCall EXCEPT ![c] = call]
      BY <2>3
    <3> HIDE DEF call
    <3> QED
      BY <1>22, <2>3, <3>1, <3>2, LspCallMoves, LspQuietShape DEF LspLookup
  <2>4. ASSUME NEW i \in LspStarts, NEW kept, kept = Forgotten(lspManager),
               \/ UNCHANGED lspOnce
               \/ lspOnce' = [lspOnce EXCEPT ![i] = "fresh"],
               lspManager' = [kept EXCEPT !.once = i],
               lspCall' = [lspCall EXCEPT ![c].pc = "once", ![c].at = i]
        PROVE  LspShape'
    <3> DEFINE call == [lspCall[c] EXCEPT !.pc = "once", !.at = i]
    <3>1. i \in 0 .. LspMaxStarts
      BY LspAssumption DEF LspStarts
    <3>2. LspCallFits(call)
      BY <1>0, <3>1, ZenonT(60) DEF LspCallFits, LspCallRecords, LspPcs
    <3>3. lspCall' = [lspCall EXCEPT ![c] = call]
      BY <2>4
    <3> HIDE DEF call
    <3>4. LspCallShape'
      BY <3>2, <3>3, LspCallMoves
    <3>5. LspOnceShape'
      BY <2>4 DEF LspOnceShape
    <3>6. kept \in [server : 0 .. LspMaxStarts, failed : {"no", "cooling", "over"},
                    once : 0 .. LspMaxStarts]
      BY <2>4, LspAssumption DEF LspManagerShape, Forgotten
    <3>7. LspManagerShape'
      BY <2>4, <3>1, <3>6 DEF LspManagerShape
    <3> QED
      BY <1>22, <3>4, <3>5, <3>7, LspQuietShape DEF LspLookup
  <2> QED
    BY <1>22, <2>2, <2>3, <2>4 DEF LspLookup
<1>23. ASSUME NEW c \in LspCallers, NEW op \in {"query", "changed", "deleted"}, LspAsk(c, op)
       PROVE  LspShape'
  <2>1. PICK pc \in {"find", "lookup"}, since \in {0, lspFile.text} :
           lspCall' = [lspCall EXCEPT ![c] = [LspIdle EXCEPT !.op = op, !.pc = pc, !.since = since]]
    BY <1>23 DEF LspAsk
  <2> DEFINE call == [LspIdle EXCEPT !.op = op, !.pc = pc, !.since = since]
  <2>2. lspFile.text \in 1 .. LspMaxTexts /\ lspFile.text \in Nat
    BY LspAssumption DEF LspFileShape
  <2>3. LspCallFits(call)
    <3>1. LspIdle \in LspCallRecords
      BY LspIdleFits
    <3> QED
      <4>1. since \in Nat /\ pc \in LspPcs /\ pc \notin LspPlaced
        BY <2>2 DEF LspPcs, LspPlaced, LspWorking
      <4>2. call \in LspCallRecords /\ call.pc = pc
        BY <3>1, <4>1 DEF LspCallRecords
      <4> QED
        BY <4>1, <4>2 DEF LspCallFits
  <2>4. LspCallShape'
    <3> HIDE DEF call
    <3> QED
      BY <2>1, <2>3, LspCallMoves DEF call
  <2>5. LspFileShape'
    <3>1. \/ op = "changed" /\ lspFile.text < LspMaxTexts /\ lspFile' = [text |-> lspFile.text + 1, exists |-> TRUE]
          \/ lspFile' = [lspFile EXCEPT !.exists = FALSE]
          \/ lspFile' = lspFile
      BY <1>23 DEF LspAsk
    <3>2. lspFile.text < LspMaxTexts => lspFile.text + 1 \in 1 .. LspMaxTexts
      BY <2>2, LspAssumption
    <3> QED
      <4>1. lspFile \in [text : 1 .. LspMaxTexts, exists : BOOLEAN]
        BY DEF LspFileShape
      <4>2. lspFile' \in [text : 1 .. LspMaxTexts, exists : BOOLEAN]
        <5> DEFINE Texts == 1 .. LspMaxTexts
        <5>1. lspFile.text < LspMaxTexts => lspFile.text + 1 \in Texts
          BY <3>2
        <5>2. lspFile \in [text : Texts, exists : BOOLEAN]
          BY <4>1
        <5> HIDE DEF Texts
        <5>3. ASSUME lspFile' = [lspFile EXCEPT !.exists = FALSE]
              PROVE  lspFile' \in [text : Texts, exists : BOOLEAN]
          BY <5>2, <5>3
        <5>4. ASSUME lspFile.text < LspMaxTexts, lspFile' = [text |-> lspFile.text + 1, exists |-> TRUE]
              PROVE  lspFile' \in [text : Texts, exists : BOOLEAN]
          BY <5>1, <5>4
        <5>5. lspFile' \in [text : Texts, exists : BOOLEAN]
          BY <3>1, <5>2, <5>3, <5>4
        <5> QED
          BY <5>5 DEF Texts
      <4> QED
        BY <4>2 DEF LspFileShape
  <2> QED
    BY <1>23, <2>4, <2>5, LspQuietShape DEF LspAsk
<1>24. ASSUME NEW i \in LspStarts, LspServerDies(i) PROVE LspShape'
  <2> DEFINE server == [lspServer[i] EXCEPT !.proc = "down", !.sent = <<>>, !.published = 0]
  <2>1. lspServer[i] \in LspServers
    BY DEF LspServerShape
  <2>2. server \in LspServers
    <3>1. PICK sent : sent = <<>> /\ sent \in Seq(LspReports)
      BY EmptySeq
    <3>2. [lspServer[i] EXCEPT !.proc = "down", !.sent = sent, !.published = 0] \in LspServers
      BY <2>1, <3>1 DEF LspServers
    <3> QED
      BY <3>1, <3>2
  <2>3. lspServer' = [lspServer EXCEPT ![i] = server]
    BY <1>24 DEF LspServerDies
  <2> HIDE DEF server
  <2>4. LspServerShape' /\ LspCallShape'
    BY <1>24, <2>2, <2>3, LspServerChanges DEF LspServerDies, LspCallShape, LspCallFits
  <2> QED
    BY <1>24, <2>4, LspQuietShape DEF LspServerDies
<1>25. ASSUME NEW i \in LspStarts, NEW v \in BOOLEAN, LspPublish(i, v) PROVE LspShape'
  <2>1. lspServer[i] \in LspServers
    BY DEF LspServerShape
  <2>2. PICK sent : sent = lspServer[i].sent
    OBVIOUS
  <2>3. PICK k \in lspServer[i].published .. Len(sent) :
           /\ k > 0
           /\ lspServer' = [lspServer EXCEPT ![i].published = k,
                  ![i].report = [text |-> sent[k].text, version |-> IF v THEN sent[k].version ELSE 0]]
    BY <1>25, <2>2 DEF LspPublish
  <2>4. sent \in Seq(LspReports) /\ lspServer[i].published \in Nat
    BY <2>1, <2>2 DEF LspServers
  <2>5. k \in Nat /\ sent[k] \in LspReports
    BY <2>3, <2>4
  <2> DEFINE report == [text |-> sent[k].text, version |-> IF v THEN sent[k].version ELSE 0]
             server == [lspServer[i] EXCEPT !.published = k, !.report = report]
  <2>6. report \in LspReports
    BY <2>5 DEF LspReports
  <2>7. lspServer' = [lspServer EXCEPT ![i] = server]
    BY <2>3
  <2> HIDE DEF report
  <2>8. server \in LspServers
    BY <2>1, <2>5, <2>6 DEF LspServers
  <2> HIDE DEF server
  <2>9. LspServerShape'
    BY <2>7, <2>8, LspServerChanges
  <2>10. LspCallShape'
    <3>1. CASE Heard(i)
      <4> DEFINE call(c) == [lspCall[c] EXCEPT !.news = @ \/ (lspCall[c].at = i /\ lspCall[c].op = "query")]
      <4>1. ASSUME NEW c \in LspCallers PROVE LspCallFits(call(c))
        <5>1. (lspCall[c].news \/ (lspCall[c].at = i /\ lspCall[c].op = "query")) \in BOOLEAN
          OBVIOUS
        <5>2. call(c) \in LspCallRecords /\ call(c).pc = lspCall[c].pc /\ call(c).at = lspCall[c].at
          BY <1>0, <5>1, ZenonT(60) DEF LspCallRecords
        <5> QED
          BY <1>0, <5>2 DEF LspCallFits
      <4>2. lspCall' = [c \in LspCallers |-> call(c)]
        BY <3>1 DEF Heard
      <4> HIDE DEF call
      <4> QED
        BY <4>1, <4>2 DEF LspCallShape, LspCallFits
    <3>2. CASE lspCall' = lspCall
      BY <3>2 DEF LspCallShape, LspCallFits
    <3> QED
      BY <1>25, <3>1, <3>2 DEF LspPublish
  <2> QED
    BY <1>25, <2>9, <2>10, LspQuietShape DEF LspPublish
<1>26. CASE LspEdit
  BY <1>26, LspQuietShape, LspAssumption DEF LspEdit, LspCallShape, LspCallFits, LspFileShape
<1>27. CASE LspCooldownEnds
  <2>1. LspManagerShape' /\ LspCallShape'
    BY <1>27 DEF LspCooldownEnds, LspCallShape, LspCallFits, LspManagerShape
  <2> QED
    BY <1>27, <2>1, LspQuietShape DEF LspCooldownEnds
<1>28. CASE UNCHANGED lspVars
  <2>1. LspCallShape'
    BY <1>28 DEF lspVars, LspCallShape, LspCallFits
  <2> QED
    BY <1>28, <2>1, LspQuietShape DEF lspVars
<1> QED
  BY LspAssumption, <1>1, <1>2, <1>3, <1>4, <1>5, <1>6, <1>7, <1>8, <1>9, <1>10, <1>11, <1>12, <1>13, <1>14, <1>15, <1>16, <1>17, <1>18, <1>19, <1>20, <1>21, <1>22, <1>23, <1>24, <1>25, <1>26, <1>27, <1>28 DEF LspNext, LspGetServer, LspSync, LspDiagnose

------------------------------------------------------------------------------
(* One server.                                                                    *)

(* A step that starts nothing.                                                    *)
LspQuiet ==
    /\ lspManager' = lspManager /\ lspOnce' = lspOnce
    /\ \A i \in LspStarts : lspServer'[i].proc = "up" => lspServer[i].proc = "up"
    /\ \A c \in LspCallers : lspCall'[c].pc \in {"start", "initialize"} =>
          lspCall'[c].pc = lspCall[c].pc /\ lspCall'[c].at = lspCall[c].at

LEMMA LspQuietKeeps ==
    ASSUME LspOnceInv, LspQuiet
    PROVE  LspOnceInv'
  BY DEF LspOnceInv, LspQuiet, LspStarting, LspUp, LspAt

(* A call that starts nothing.                                                    *)
LspQuietCall(c) ==
    /\ lspCall'[c].pc \notin {"start", "initialize"}
    /\ \A d \in LspCallers \ {c} : lspCall'[d] = lspCall[d]

LEMMA LspTurns ==
    ASSUME LspCallShape, NEW c \in LspCallers, NEW call, call.pc \notin {"start", "initialize"},
           lspCall' = [lspCall EXCEPT ![c] = call]
    PROVE  LspQuietCall(c)
  BY DEF LspCallShape, LspQuietCall

LEMMA LspEnded ==
    ASSUME LspCallShape, NEW c \in LspCallers
    PROVE  LspEnds(c) => LspQuietCall(c)
<1> SUFFICES ASSUME LspEnds(c) PROVE LspQuietCall(c)
  OBVIOUS
<1>1. LspIdle.pc = "idle"
  BY DEF LspIdle
<1>2. lspCall' = [lspCall EXCEPT ![c] = LspIdle]
  BY DEF LspEnds
<1> QED
  BY <1>1, <1>2, LspTurns

LEMMA LspWent ==
    ASSUME LspCallShape, NEW c \in LspCallers, NEW pc \in LspPcs \ {"start", "initialize"}
    PROVE  LspGo(c, pc) => LspQuietCall(c)
<1> SUFFICES ASSUME LspGo(c, pc) PROVE LspQuietCall(c)
  OBVIOUS
<1> DEFINE call == [lspCall[c] EXCEPT !.pc = pc]
<1>1. call.pc = pc
  BY DEF LspCallShape, LspCallRecords
<1>2. lspCall' = [lspCall EXCEPT ![c] = call]
  BY DEF LspGo
<1> HIDE DEF call
<1> QED
  BY <1>1, <1>2, LspTurns

LEMMA LspOnceKept == LspShape /\ LspOnceInv /\ [LspNext]_lspVars => LspOnceInv'
<1> SUFFICES ASSUME LspShape, LspOnceInv, [LspNext]_lspVars PROVE LspOnceInv'
  OBVIOUS
<1>a. LspCallShape
  BY DEF LspShape
<1>b. \A c \in LspCallers : lspCall[c] \in LspCallRecords
  BY <1>a DEF LspCallShape
<1>c. lspServer \in [LspStarts -> LspServers]
  BY DEF LspShape, LspServerShape
<1>d. \A c \in LspCallers : lspCall[c].pc \in LspPlaced => lspCall[c].at \in LspStarts
  BY <1>a DEF LspCallShape, LspCallFits
<1>1. ASSUME NEW c \in LspCallers, LspOnceDone(c) PROVE LspQuiet
  <2>1. LspQuietCall(c)
    BY <1>a, <1>1, LspEnded, LspWent DEF LspOnceDone, LspPcs, LspWorking
  <2>2. lspServer' = lspServer /\ lspManager' = lspManager /\ lspOnce' = lspOnce
    BY <1>1 DEF LspOnceDone
  <2> QED
    BY <2>1, <2>2 DEF LspQuiet, LspQuietCall
<1>2. ASSUME NEW c \in LspCallers, LspAnswered(c) PROVE LspQuiet
  <2>1. LspQuietCall(c)
    BY <1>a, <1>2, LspEnded, LspWent DEF LspAnswered, LspPcs, LspWorking
  <2>2. lspServer' = lspServer /\ lspManager' = lspManager /\ lspOnce' = lspOnce
    BY <1>2 DEF LspAnswered
  <2> QED
    BY <2>1, <2>2 DEF LspQuiet, LspQuietCall
<1>3. ASSUME NEW c \in LspCallers, LspReport(c) PROVE LspQuiet
  <2>1. LspQuietCall(c)
    BY <1>a, <1>3, LspEnded, LspWent DEF LspReport, LspPcs, LspWorking
  <2>2. lspServer' = lspServer /\ lspManager' = lspManager /\ lspOnce' = lspOnce
    BY <1>3 DEF LspReport
  <2> QED
    BY <2>1, <2>2 DEF LspQuiet, LspQuietCall
<1>4. ASSUME NEW c \in LspCallers, LspSettles(c) PROVE LspQuiet
  <2>1. LspQuietCall(c)
    BY <1>a, <1>4, LspEnded, LspWent DEF LspSettles, LspPcs, LspWorking
  <2>2. lspServer' = lspServer /\ lspManager' = lspManager /\ lspOnce' = lspOnce
    BY <1>4 DEF LspSettles
  <2> QED
    BY <2>1, <2>2 DEF LspQuiet, LspQuietCall
<1>5. ASSUME NEW c \in LspCallers, LspPick(c) PROVE LspQuiet
  <2>1. LspQuietCall(c)
    <3> DEFINE call1 == [lspCall[c] EXCEPT !.pc = "stat", !.at = lspManager.server]
    <3>1. call1.pc = "stat"
      BY <1>b DEF LspCallRecords
    <3>2. \/ LspEnds(c)
          \/ lspCall' = [lspCall EXCEPT ![c] = call1]
      BY <1>5 DEF LspPick, LspAt
    <3> HIDE DEF call1
    <3> QED
      BY <1>a, <3>1, <3>2, LspEnded, LspWent, LspTurns DEF LspPcs, LspWorking
  <2>2. lspServer' = lspServer /\ lspManager' = lspManager /\ lspOnce' = lspOnce
    BY <1>5 DEF LspPick
  <2> QED
    BY <2>1, <2>2 DEF LspQuiet, LspQuietCall
<1>6. ASSUME NEW c \in LspCallers, LspStat(c) PROVE LspQuiet
  <2>1. LspQuietCall(c)
    <3> DEFINE call1 == [lspCall[c] EXCEPT !.pc = "check", !.news = FALSE, !.stat = IF lspFile.exists THEN lspFile.text ELSE 0]
    <3>1. call1.pc = "check"
      BY <1>b DEF LspCallRecords
    <3>2. \/ lspCall' = [lspCall EXCEPT ![c] = call1]
      BY <1>6 DEF LspStat, LspAt
    <3> HIDE DEF call1
    <3> QED
      BY <1>a, <3>1, <3>2, LspEnded, LspWent, LspTurns DEF LspPcs, LspWorking
  <2>2. lspServer' = lspServer /\ lspManager' = lspManager /\ lspOnce' = lspOnce
    BY <1>6 DEF LspStat
  <2> QED
    BY <2>1, <2>2 DEF LspQuiet, LspQuietCall
<1>7. ASSUME NEW c \in LspCallers, LspCheck(c) PROVE LspQuiet
  <2>1. LspQuietCall(c)
    <3> DEFINE call1 == [lspCall[c] EXCEPT !.pc = "diagnose", !.stat = 0, !.version = lspServer[lspCall[c].at].document.version]
               call2 == [lspCall[c] EXCEPT !.pc = "read", !.known = lspServer[lspCall[c].at].document]
    <3>1. call1.pc = "diagnose" /\ call2.pc = "read"
      BY <1>b DEF LspCallRecords
    <3>2. \/ LspEnds(c)
          \/ lspCall' = [lspCall EXCEPT ![c] = call1]
          \/ lspCall' = [lspCall EXCEPT ![c] = call2]
      BY <1>7 DEF LspCheck, LspAt
    <3> HIDE DEF call1, call2
    <3> QED
      BY <1>a, <3>1, <3>2, LspEnded, LspWent, LspTurns DEF LspPcs, LspWorking
  <2>2. lspServer' = lspServer /\ lspManager' = lspManager /\ lspOnce' = lspOnce
    BY <1>7 DEF LspCheck
  <2> QED
    BY <2>1, <2>2 DEF LspQuiet, LspQuietCall
<1>8. ASSUME NEW c \in LspCallers, LspRead(c) PROVE LspQuiet
  <2>1. LspQuietCall(c)
    <3> DEFINE pc == IF lspCall[c].known.version = 0 THEN "send_open" ELSE "record_change"
               call1 == [lspCall[c] EXCEPT !.text = lspFile.text, !.known = NoDocument, !.version = lspCall[c].known.version + 1, !.pc = pc]
    <3>1. call1.pc = pc
      BY <1>b DEF LspCallRecords
    <3>2. \/ LspEnds(c)
          \/ lspCall' = [lspCall EXCEPT ![c] = call1]
      BY <1>8 DEF LspRead, LspAt
    <3> HIDE DEF call1
    <3> QED
      BY <1>a, <3>1, <3>2, LspEnded, LspWent, LspTurns DEF LspPcs, LspWorking
  <2>2. lspServer' = lspServer /\ lspManager' = lspManager /\ lspOnce' = lspOnce
    BY <1>8 DEF LspRead
  <2> QED
    BY <2>1, <2>2 DEF LspQuiet, LspQuietCall
<1>9. ASSUME NEW c \in LspCallers, LspSend(c) PROVE LspQuiet
  <2>1. LspQuietCall(c)
    <3> DEFINE call1 == [lspCall[c] EXCEPT !.pc = "clear", !.stat = 0, !.text = 0]
    <3>1. call1.pc = "clear"
      BY <1>b DEF LspCallRecords
    <3>2. \/ LspEnds(c)
          \/ LspGo(c, "record_open")
          \/ lspCall' = [lspCall EXCEPT ![c] = call1]
      BY <1>9 DEF LspSend, LspSynced, LspAt
    <3> HIDE DEF call1
    <3> QED
      BY <1>a, <3>1, <3>2, LspEnded, LspWent, LspTurns DEF LspPcs, LspWorking
  <2>2. lspManager' = lspManager /\ lspOnce' = lspOnce
    BY <1>9 DEF LspSend
  <2>3. \A i \in LspStarts : lspServer'[i].proc = "up" => lspServer[i].proc = "up"
    <3> DEFINE at == lspCall[c].at
               server == [lspServer[at] EXCEPT !.sent = Append(@, [version |-> lspCall[c].version, text |-> lspCall[c].text])]
    <3>1. at \in LspStarts
      BY <1>d, <1>9 DEF LspSend, LspAt, LspPlaced, LspWorking
    <3>2. server.proc = lspServer[at].proc
      BY <1>c, <3>1 DEF LspServers
    <3>3. lspServer' = [lspServer EXCEPT ![at] = server] \/ lspServer' = lspServer
      BY <1>9 DEF LspSend, LspAt
    <3> HIDE DEF at, server
    <3> QED
      BY <1>c, <3>1, <3>2, <3>3
  <2> QED
    BY <2>1, <2>2, <2>3 DEF LspQuiet, LspQuietCall
<1>10. ASSUME NEW c \in LspCallers, LspRecord(c) PROVE LspQuiet
  <2>1. LspQuietCall(c)
    <3> DEFINE call1 == [lspCall[c] EXCEPT !.pc = "clear", !.stat = 0, !.text = 0]
    <3>1. call1.pc = "clear"
      BY <1>b DEF LspCallRecords
    <3>2. \/ LspGo(c, "send_change")
          \/ lspCall' = [lspCall EXCEPT ![c] = call1]
      BY <1>10 DEF LspRecord, LspSynced, LspAt
    <3> HIDE DEF call1
    <3> QED
      BY <1>a, <3>1, <3>2, LspEnded, LspWent, LspTurns DEF LspPcs, LspWorking
  <2>2. lspManager' = lspManager /\ lspOnce' = lspOnce
    BY <1>10 DEF LspRecord
  <2>3. \A i \in LspStarts : lspServer'[i].proc = "up" => lspServer[i].proc = "up"
    <3> DEFINE at == lspCall[c].at
               server == [lspServer[at] EXCEPT !.document = [version |-> lspCall[c].version, stat |-> StatOnRecord(lspCall[c])]]
    <3>1. at \in LspStarts
      BY <1>d, <1>10 DEF LspRecord, LspAt, LspPlaced, LspWorking
    <3>2. server.proc = lspServer[at].proc
      BY <1>c, <3>1 DEF LspServers
    <3>3. lspServer' = [lspServer EXCEPT ![at] = server] \/ lspServer' = lspServer
      BY <1>10 DEF LspRecord, LspAt
    <3> HIDE DEF at, server
    <3> QED
      BY <1>c, <3>1, <3>2, <3>3
  <2> QED
    BY <2>1, <2>2, <2>3 DEF LspQuiet, LspQuietCall
<1>11. ASSUME NEW c \in LspCallers, LspClear(c) PROVE LspQuiet
  <2>1. LspQuietCall(c)
    BY <1>a, <1>11, LspEnded, LspWent DEF LspClear, LspPcs, LspWorking
  <2>2. lspManager' = lspManager /\ lspOnce' = lspOnce
    BY <1>11 DEF LspClear
  <2>3. \A i \in LspStarts : lspServer'[i].proc = "up" => lspServer[i].proc = "up"
    <3> DEFINE at == lspCall[c].at
               server == [lspServer[at] EXCEPT !.report = NoReport]
    <3>1. at \in LspStarts
      BY <1>d, <1>11 DEF LspClear, LspAt, LspPlaced, LspWorking
    <3>2. server.proc = lspServer[at].proc
      BY <1>c, <3>1 DEF LspServers
    <3>3. lspServer' = [lspServer EXCEPT ![at] = server] \/ lspServer' = lspServer
      BY <1>11 DEF LspClear, LspAt
    <3> HIDE DEF at, server
    <3> QED
      BY <1>c, <3>1, <3>2, <3>3
  <2> QED
    BY <2>1, <2>2, <2>3 DEF LspQuiet, LspQuietCall
<1>12. ASSUME NEW c \in LspCallers, LspFind(c) PROVE LspQuiet
  <2>1. LspQuietCall(c)
    <3> DEFINE call1 == [lspCall[c] EXCEPT !.pc = "close", !.at = lspManager.server]
    <3>1. call1.pc = "close"
      BY <1>b DEF LspCallRecords
    <3>2. \/ LspEnds(c)
          \/ lspCall' = [lspCall EXCEPT ![c] = call1]
      BY <1>12 DEF LspFind, LspAt
    <3> HIDE DEF call1
    <3> QED
      BY <1>a, <3>1, <3>2, LspEnded, LspWent, LspTurns DEF LspPcs, LspWorking
  <2>2. lspServer' = lspServer /\ lspManager' = lspManager /\ lspOnce' = lspOnce
    BY <1>12 DEF LspFind
  <2> QED
    BY <2>1, <2>2 DEF LspQuiet, LspQuietCall
<1>13. ASSUME NEW c \in LspCallers, LspClose(c) PROVE LspQuiet
  <2>1. LspQuietCall(c)
    BY <1>a, <1>13, LspEnded, LspWent DEF LspClose, LspPcs, LspWorking
  <2>2. lspManager' = lspManager /\ lspOnce' = lspOnce
    BY <1>13 DEF LspClose
  <2>3. \A i \in LspStarts : lspServer'[i].proc = "up" => lspServer[i].proc = "up"
    <3> DEFINE at == lspCall[c].at
               server == [lspServer[at] EXCEPT !.sent = Append(@, [version |-> 0, text |-> 0])]
    <3>1. at \in LspStarts
      BY <1>d, <1>13 DEF LspClose, LspAt, LspPlaced, LspWorking
    <3>2. server.proc = lspServer[at].proc
      BY <1>c, <3>1 DEF LspServers
    <3>3. lspServer' = [lspServer EXCEPT ![at] = server] \/ lspServer' = lspServer
      BY <1>13 DEF LspClose, LspAt
    <3> HIDE DEF at, server
    <3> QED
      BY <1>c, <3>1, <3>2, <3>3
  <2> QED
    BY <2>1, <2>2, <2>3 DEF LspQuiet, LspQuietCall
<1>14. ASSUME NEW c \in LspCallers, LspForget(c) PROVE LspQuiet
  <2>1. LspQuietCall(c)
    BY <1>a, <1>14, LspEnded, LspWent DEF LspForget, LspPcs, LspWorking
  <2>2. lspManager' = lspManager /\ lspOnce' = lspOnce
    BY <1>14 DEF LspForget
  <2>3. \A i \in LspStarts : lspServer'[i].proc = "up" => lspServer[i].proc = "up"
    <3> DEFINE at == lspCall[c].at
               server == [lspServer[at] EXCEPT !.document = NoDocument]
    <3>1. at \in LspStarts
      BY <1>d, <1>14 DEF LspForget, LspAt, LspPlaced, LspWorking
    <3>2. server.proc = lspServer[at].proc
      BY <1>c, <3>1 DEF LspServers
    <3>3. lspServer' = [lspServer EXCEPT ![at] = server] \/ lspServer' = lspServer
      BY <1>14 DEF LspForget, LspAt
    <3> HIDE DEF at, server
    <3> QED
      BY <1>c, <3>1, <3>2, <3>3
  <2> QED
    BY <2>1, <2>2, <2>3 DEF LspQuiet, LspQuietCall
<1>15. ASSUME NEW c \in LspCallers, LspPull(c) PROVE LspQuiet
  <2>1. LspQuietCall(c)
    <3> DEFINE call1 == [lspCall[c] EXCEPT !.pc = "store", !.text = lspServer[lspCall[c].at].sent[Len(lspServer[lspCall[c].at].sent)].text]
    <3>1. call1.pc = "store"
      BY <1>b, ZenonT(60) DEF LspCallRecords
    <3>2. \/ lspCall' = [lspCall EXCEPT ![c] = call1]
      BY <1>15 DEF LspPull, LspAt
    <3> HIDE DEF call1
    <3> QED
      BY <1>a, <3>1, <3>2, LspEnded, LspWent, LspTurns DEF LspPcs, LspWorking
  <2>2. lspServer' = lspServer /\ lspManager' = lspManager /\ lspOnce' = lspOnce
    BY <1>15 DEF LspPull
  <2> QED
    BY <2>1, <2>2 DEF LspQuiet, LspQuietCall
<1>16. ASSUME NEW c \in LspCallers, LspNoPull(c) PROVE LspQuiet
  <2>1. LspQuietCall(c)
    BY <1>a, <1>16, LspEnded, LspWent DEF LspNoPull, LspPcs, LspWorking
  <2>2. lspManager' = lspManager /\ lspOnce' = lspOnce
    BY <1>16 DEF LspNoPull
  <2>3. \A i \in LspStarts : lspServer'[i].proc = "up" => lspServer[i].proc = "up"
    <3> DEFINE at == lspCall[c].at
               server == [lspServer[at] EXCEPT !.pull = FALSE]
    <3>1. at \in LspStarts
      BY <1>d, <1>16 DEF LspNoPull, LspAt, LspPlaced, LspWorking
    <3>2. server.proc = lspServer[at].proc
      BY <1>c, <3>1 DEF LspServers
    <3>3. lspServer' = [lspServer EXCEPT ![at] = server] \/ lspServer' = lspServer
      BY <1>16 DEF LspNoPull, LspAt
    <3> HIDE DEF at, server
    <3> QED
      BY <1>c, <3>1, <3>2, <3>3
  <2> QED
    BY <2>1, <2>2, <2>3 DEF LspQuiet, LspQuietCall
<1>17. ASSUME NEW c \in LspCallers, LspStore(c) PROVE LspQuiet
  <2>1. LspQuietCall(c)
    BY <1>a, <1>17, LspEnded, LspWent DEF LspStore, LspPcs, LspWorking
  <2>2. lspManager' = lspManager /\ lspOnce' = lspOnce
    BY <1>17 DEF LspStore
  <2>3. \A i \in LspStarts : lspServer'[i].proc = "up" => lspServer[i].proc = "up"
    <3> DEFINE at == lspCall[c].at
               server == [lspServer[at] EXCEPT !.report = [version |-> lspCall[c].version, text |-> lspCall[c].text]]
    <3>1. at \in LspStarts
      BY <1>d, <1>17 DEF LspStore, LspAt, LspPlaced, LspWorking
    <3>2. server.proc = lspServer[at].proc
      BY <1>c, <3>1 DEF LspServers
    <3>3. lspServer' = [lspServer EXCEPT ![at] = server] \/ lspServer' = lspServer
      BY <1>17 DEF LspStore, LspAt
    <3> HIDE DEF at, server
    <3> QED
      BY <1>c, <3>1, <3>2, <3>3
  <2> QED
    BY <2>1, <2>2, <2>3 DEF LspQuiet, LspQuietCall
<1>18. ASSUME NEW c \in LspCallers, NEW op \in {"query", "changed", "deleted"}, LspAsk(c, op)
       PROVE  LspQuiet
  <2> DEFINE pc == IF op = "deleted" THEN "find" ELSE "lookup"
             since == IF op = "query" THEN lspFile.text ELSE 0
             call == [LspIdle EXCEPT !.op = op, !.pc = pc, !.since = since]
  <2>1. call.pc = pc
    BY DEF LspIdle
  <2>2. lspCall' = [lspCall EXCEPT ![c] = call]
    BY <1>18 DEF LspAsk
  <2> HIDE DEF call
  <2>3. LspQuietCall(c)
    BY <1>a, <2>1, <2>2, LspTurns
  <2>4. lspServer' = lspServer /\ lspManager' = lspManager /\ lspOnce' = lspOnce
    BY <1>18 DEF LspAsk
  <2> QED
    BY <2>3, <2>4 DEF LspQuiet, LspQuietCall
<1>19. ASSUME NEW i \in LspStarts, LspServerDies(i) PROVE LspQuiet
  <2>1. lspServer'[i].proc = "down" /\ \A j \in LspStarts \ {i} : lspServer'[j] = lspServer[j]
    BY <1>c, <1>19 DEF LspServerDies, LspServers
  <2>2. lspCall' = lspCall /\ lspManager' = lspManager /\ lspOnce' = lspOnce
    BY <1>19 DEF LspServerDies
  <2> QED
    BY <2>1, <2>2 DEF LspQuiet
<1>20. ASSUME NEW i \in LspStarts, NEW v \in BOOLEAN, LspPublish(i, v) PROVE LspQuiet
  <2>1. PICK k, report : lspServer' = [lspServer EXCEPT ![i].published = k, ![i].report = report]
    BY <1>20, ZenonT(60) DEF LspPublish
  <2>2. \A j \in LspStarts : lspServer'[j].proc = lspServer[j].proc
    BY <1>c, <2>1 DEF LspServers
  <2>3. lspManager' = lspManager /\ lspOnce' = lspOnce
    BY <1>20 DEF LspPublish
  <2>4. \A c \in LspCallers : lspCall'[c].pc = lspCall[c].pc /\ lspCall'[c].at = lspCall[c].at
    <3>1. CASE Heard(i)
      BY <1>b, <3>1 DEF Heard, LspCallRecords
    <3> QED
      BY <1>20, <3>1 DEF LspPublish
  <2> QED
    BY <2>2, <2>3, <2>4 DEF LspQuiet
<1>21. CASE LspEdit
  <2>1. lspCall' = lspCall /\ lspServer' = lspServer /\ lspManager' = lspManager /\ lspOnce' = lspOnce
    BY <1>21 DEF LspEdit
  <2> QED
    BY <2>1, LspQuietKeeps DEF LspQuiet
<1>22. CASE UNCHANGED lspVars
  <2>1. lspCall' = lspCall /\ lspServer' = lspServer /\ lspManager' = lspManager /\ lspOnce' = lspOnce
    BY <1>22 DEF lspVars
  <2> QED
    BY <2>1, LspQuietKeeps DEF LspQuiet
<1>e. /\ lspManager \in [server : 0 .. LspMaxStarts, failed : {"no", "cooling", "over"},
                          once : 0 .. LspMaxStarts]
      /\ lspOnce \in [LspStarts -> {"unused", "fresh", "running", "done"}]
      /\ 0 \notin LspStarts
  BY LspAssumption DEF LspShape, LspManagerShape, LspOnceShape, LspStarts
<1>23. CASE LspCooldownEnds
  <2>1. lspCall' = lspCall /\ lspServer' = lspServer /\ lspOnce' = lspOnce
    BY <1>23 DEF LspCooldownEnds
  <2>2. /\ lspManager.failed = "cooling" /\ lspManager'.failed = "over"
        /\ lspManager'.server = lspManager.server /\ lspManager'.once = lspManager.once
    BY <1>e, <1>23 DEF LspCooldownEnds
  <2> QED
    BY <2>1, <2>2 DEF LspOnceInv, LspStarting, LspUp, LspAt
<1>24. ASSUME NEW c \in LspCallers, LspOnceRuns(c) PROVE LspOnceInv'
  <2>1. PICK at \in LspStarts : at = lspCall[c].at
    BY <1>d, <1>24 DEF LspOnceRuns, LspAt, LspPlaced
  <2>2. lspServer' = lspServer /\ lspManager' = lspManager
    BY <1>24 DEF LspOnceRuns
  <2>3. /\ lspOnce[at] = "fresh" /\ lspOnce'[at] = "running"
        /\ \A i \in LspStarts \ {at} : lspOnce'[i] = lspOnce[i]
    BY <1>e, <1>24, <2>1 DEF LspOnceRuns
  <2>4. /\ lspCall'[c].pc = "start" /\ lspCall'[c].at = at
        /\ \A d \in LspCallers \ {c} : lspCall'[d] = lspCall[d]
    BY <1>a, <1>24, <2>1 DEF LspOnceRuns, LspGo, LspCallShape, LspCallRecords
  <2>5. ~LspUp(at) /\ \A d \in LspCallers : ~LspStarting(d, at)
    BY <1>e, <2>3 DEF LspOnceInv
  <2>6. \A d \in LspCallers, i \in LspStarts :
           LspStarting(d, i)' => IF d = c THEN i = at ELSE LspStarting(d, i) /\ i # at
    BY <2>4, <2>5 DEF LspStarting
  <2>7. \A d \in LspCallers, i \in LspStarts :
           LspStarting(d, i)' /\ LspAt(d, "start")' /\ d # c => LspAt(d, "start")
    BY <2>4 DEF LspAt
  <2>8. \A i \in LspStarts : LspUp(i)' <=> LspUp(i)
    BY <2>2 DEF LspUp
  <2> QED
    BY <2>2, <2>3, <2>5, <2>6, <2>7, <2>8 DEF LspOnceInv
<1>25. ASSUME NEW c \in LspCallers, LspSpawns(c) PROVE LspOnceInv'
  <2>1. PICK at \in LspStarts : at = lspCall[c].at
    BY <1>d, <1>25 DEF LspSpawns, LspAt, LspPlaced
  <2>2. lspOnce' = lspOnce /\ lspManager' = lspManager /\ LspStarting(c, at)
    BY <1>25, <2>1 DEF LspSpawns, LspStarting, LspAt
  <2>3. \A i \in LspStarts \ {at} : lspServer'[i] = lspServer[i]
    BY <1>c, <1>25, <2>1 DEF LspSpawns
  <2>4. /\ lspCall'[c].pc = "initialize" /\ lspCall'[c].at = at
        /\ \A d \in LspCallers \ {c} : lspCall'[d] = lspCall[d]
    BY <1>a, <1>25, <2>1 DEF LspSpawns, LspGo, LspCallShape, LspCallRecords
  <2>5. lspOnce[at] = "running" /\ \A d \in LspCallers \ {c} : ~LspStarting(d, at)
    BY <2>2 DEF LspOnceInv
  <2>6. \A d \in LspCallers, i \in LspStarts : LspStarting(d, i)' <=> LspStarting(d, i)
    BY <2>2, <2>4 DEF LspStarting
  <2>7. \A d \in LspCallers, i \in LspStarts :
           LspStarting(d, i)' /\ LspAt(d, "start")' => d # c /\ LspStarting(d, i) /\ LspAt(d, "start")
    BY <2>4 DEF LspStarting, LspAt
  <2>8. \A d \in LspCallers, i \in LspStarts :
           LspStarting(d, i)' /\ LspAt(d, "start")' => ~LspUp(i)'
    BY <2>3, <2>5, <2>7 DEF LspOnceInv, LspUp
  <2>9. \A i \in LspStarts : LspUp(i)' => LspUp(i) \/ i = at
    BY <2>3 DEF LspUp
  <2> QED
    BY <2>2, <2>5, <2>6, <2>8, <2>9 DEF LspOnceInv
<1>26. ASSUME NEW c \in LspCallers, LspStartFails(c) PROVE LspOnceInv'
  <2>1. PICK at \in LspStarts : at = lspCall[c].at
    BY <1>d, <1>26 DEF LspStartFails, LspAt, LspPlaced
  <2>2. LspStarting(c, at)
    BY <1>26, <2>1 DEF LspStartFails, LspStarting
  <2>3. /\ lspOnce'[at] = "done"
        /\ \A i \in LspStarts \ {at} : lspOnce'[i] = lspOnce[i]
    BY <1>e, <1>26, <2>1 DEF LspStartFails
  <2>4. /\ lspManager'.server = lspManager.server /\ lspManager'.failed = "cooling"
        /\ lspManager'.once = lspManager.once
    BY <1>e, <1>26 DEF LspStartFails
  <2>5. LspQuietCall(c)
    BY <1>a, <1>26, LspEnded DEF LspStartFails
  <2>6. /\ \A i \in LspStarts \ {at} : lspServer'[i] = lspServer[i]
        /\ lspServer'[at].proc # "up"
    <3>1. CASE LspAt(c, "start")
      BY <1>26, <2>1, <2>2, <3>1 DEF LspStartFails, LspAt, LspOnceInv, LspUp
    <3>2. CASE LspAt(c, "initialize")
      BY <1>c, <1>26, <2>1, <3>2 DEF LspStartFails, LspServers
    <3> QED
      BY <1>26, <3>1, <3>2 DEF LspStartFails, LspAt
  <2> QED
    BY <2>2, <2>3, <2>4, <2>5, <2>6 DEF LspOnceInv, LspStarting, LspUp, LspAt, LspQuietCall
<1>27. ASSUME NEW c \in LspCallers, LspRegisters(c) PROVE LspOnceInv'
  <2>1. PICK at \in LspStarts : at = lspCall[c].at
    BY <1>d, <1>27 DEF LspRegisters, LspAt, LspPlaced
  <2>2. LspStarting(c, at) /\ lspServer' = lspServer
    BY <1>27, <2>1 DEF LspRegisters, LspStarting, LspAt
  <2>3. /\ lspOnce'[at] = "done"
        /\ \A i \in LspStarts \ {at} : lspOnce'[i] = lspOnce[i]
    BY <1>e, <1>27, <2>1 DEF LspRegisters
  <2>4. /\ lspManager'.server = at /\ lspManager'.failed = lspManager.failed
        /\ lspManager'.once = lspManager.once
    BY <1>e, <1>27, <2>1 DEF LspRegisters
  <2>5. LspQuietCall(c)
    BY <1>a, <1>27, LspWent DEF LspRegisters, LspPcs
  <2> QED
    BY <1>e, <2>2, <2>3, <2>4, <2>5 DEF LspOnceInv, LspStarting, LspUp, LspAt, LspQuietCall
<1>28. ASSUME NEW c \in LspCallers, LspLookup(c) PROVE LspOnceInv'
  <2> DEFINE m == lspManager
             kept == Forgotten(lspManager)
             call == [lspCall[c] EXCEPT !.pc = "stat", !.at = m.server]
  <2>1. lspServer' = lspServer
    BY <1>28 DEF LspLookup
  <2>2. CASE lspManager.server # 0 /\ LspUp(lspManager.server)
    <3>1. lspManager' = lspManager /\ lspOnce' = lspOnce /\ lspCall' = [lspCall EXCEPT ![c] = call]
      BY <1>28, <2>2 DEF LspLookup
    <3>2. call.pc = "stat"
      BY <1>b DEF LspCallRecords
    <3> HIDE DEF call
    <3> QED
      BY <1>a, <2>1, <3>1, <3>2, LspTurns, LspQuietKeeps DEF LspQuiet, LspQuietCall
  <2>3. CASE ~(lspManager.server # 0 /\ LspUp(lspManager.server)) /\ lspManager.failed = "cooling"
    <3>1. lspManager' = lspManager /\ lspOnce' = lspOnce /\ LspEnds(c)
      BY <1>28, <2>3 DEF LspLookup
    <3> QED
      BY <1>a, <2>1, <3>1, LspEnded, LspQuietKeeps DEF LspQuiet, LspQuietCall
  <2>4. CASE ~(lspManager.server # 0 /\ LspUp(lspManager.server)) /\ lspManager.failed # "cooling"
    <3>1. PICK i \in LspStarts :
             /\ \/ kept.once # 0 /\ i = kept.once /\ lspOnce' = lspOnce
                \/ kept.once = 0 /\ lspOnce[i] = "unused" /\ lspOnce' = [lspOnce EXCEPT ![i] = "fresh"]
             /\ lspManager' = [kept EXCEPT !.once = i]
             /\ lspCall' = [lspCall EXCEPT ![c].pc = "once", ![c].at = i]
      BY <1>28, <2>4 DEF LspLookup
    <3>2. LspQuietCall(c)
      <4> DEFINE new == [lspCall[c] EXCEPT !.pc = "once", !.at = i]
      <4>1. new.pc = "once"
        BY <1>b DEF LspCallRecords
      <4>2. lspCall' = [lspCall EXCEPT ![c] = new]
        BY <3>1
      <4> HIDE DEF new
      <4> QED
        BY <1>a, <4>1, <4>2, LspTurns
    <3>3. CASE kept.once # 0
      <4>1. kept = lspManager
        BY <1>e, <3>3 DEF Forgotten
      <4>2. lspManager' = lspManager /\ lspOnce' = lspOnce
        BY <1>e, <3>1, <3>3, <4>1
      <4> QED
        BY <2>1, <3>2, <4>2, LspQuietKeeps DEF LspQuiet, LspQuietCall
    <3>4. CASE kept.once = 0
      <4>1. lspManager'.server = 0 /\ lspManager'.failed = "no" /\ lspManager'.once = i
        BY <1>e, <2>4, <3>1 DEF Forgotten
      <4>2. /\ lspOnce'[i] = "fresh" /\ lspOnce[i] = "unused"
            /\ \A j \in LspStarts \ {i} : lspOnce'[j] = lspOnce[j]
        BY <1>e, <3>1, <3>4
      <4>3. \A j \in LspStarts : lspOnce[j] \notin {"fresh", "running"}
        <5> SUFFICES ASSUME NEW j \in LspStarts, lspOnce[j] \in {"fresh", "running"} PROVE FALSE
          OBVIOUS
        <5>1. lspManager.once = j /\ lspManager.server = 0 /\ lspManager.failed = "no"
          BY DEF LspOnceInv
        <5> QED
          BY <1>e, <3>4, <5>1 DEF Forgotten
      <4>4. \A j \in LspStarts : ~LspUp(j)
        BY <1>e, <2>4, <4>3 DEF LspOnceInv
      <4> QED
        BY <2>1, <3>2, <4>1, <4>2, <4>3, <4>4 DEF LspOnceInv, LspStarting, LspUp, LspAt, LspQuietCall
    <3> QED
      BY <3>3, <3>4
  <2> QED
    BY <2>2, <2>3, <2>4
<1> QED
  BY LspQuietKeeps, LspAssumption, <1>1, <1>2, <1>3, <1>4, <1>5, <1>6, <1>7, <1>8, <1>9, <1>10,
     <1>11, <1>12, <1>13, <1>14, <1>15, <1>16, <1>17, <1>18, <1>19, <1>20, <1>21, <1>22, <1>23,
     <1>24, <1>25, <1>26, <1>27, <1>28 DEF LspNext, LspGetServer, LspSync, LspDiagnose

LEMMA LspStartsEmpty == LspInit => LspShape /\ LspOnceInv
<1> SUFFICES ASSUME LspInit PROVE LspShape /\ LspOnceInv
  OBVIOUS
<1>1. LspNoServer \in LspServers
  BY EmptySeq DEF LspNoServer, LspServers, LspDocuments, LspReports, NoDocument, NoReport
<1>2. LspServerShape /\ LspOnceShape
  BY <1>1 DEF LspInit, LspServerShape, LspOnceShape
<1>3. LspCallShape
  BY LspIdleFits DEF LspInit, LspCallShape
<1>4. LspFileShape /\ LspManagerShape
  BY LspAssumption DEF LspInit, LspFileShape, LspManagerShape
<1>5. LspOnceInv
  <2>1. \A i \in LspStarts : lspOnce[i] = "unused" /\ ~LspUp(i)
    BY DEF LspInit, LspUp, LspNoServer
  <2>2. \A c \in LspCallers, i \in LspStarts : ~LspStarting(c, i)
    BY DEF LspInit, LspStarting, LspIdle
  <2>3. \A i \in LspStarts : lspManager.once # i
    BY DEF LspInit, LspStarts
  <2> QED
    BY <2>1, <2>2, <2>3 DEF LspOnceInv
<1> QED
  BY <1>2, <1>3, <1>4, <1>5 DEF LspShape

(* LspOneServer, for every number of callers, calls and starts: at most one       *)
(* language server runs (serverByName), and no used-up Once is left behind.       *)
THEOREM LspRunsOneServer == LspSpec => []LspOneServer
<1>1. LspShape /\ LspOnceInv => LspOneServer
  <2> SUFFICES ASSUME LspShape, LspOnceInv PROVE LspOneServer
    OBVIOUS
  <2>1. lspManager.once \in 0 .. LspMaxStarts
    BY DEF LspShape, LspManagerShape
  <2>2. lspManager.once # 0 => lspManager.once \in LspStarts
    BY <2>1, LspAssumption DEF LspStarts
  <2>3. \A i \in LspStarts : lspOnce[i] = "running" => lspManager.server = 0 /\ lspManager.once = i
    BY DEF LspOnceInv
  <2>4. 0 \notin LspStarts
    BY DEF LspStarts
  <2> QED
    BY <2>2, <2>3, <2>4 DEF LspOnceInv, LspOneServer
<1>2. LspShape /\ LspOnceInv /\ [LspNext]_lspVars => LspShape' /\ LspOnceInv'
  BY LspShapeKept, LspOnceKept
<1> QED
  BY <1>1, <1>2, LspStartsEmpty, PTL DEF LspSpec

------------------------------------------------------------------------------
(* The document of a language server, and the diagnostics of calls.               *)
(*                                                                                *)
(* The invariant is about a text under a version: a text is held when it is one   *)
(* that the version may stand for, that is no older than any call of that version *)
(* and, for the document's own version, than the stat on record. What is in the   *)
(* pipe, in the report and in the hands of a call is held; the last text in the   *)
(* pipe reaches the document's stat and what each waiting call began with. One    *)
(* call at a time works on a document while lspAlone holds, so that it knows what *)
(* is recorded; LspGood says so as an operator of calls and servers, and each     *)
(* kind of step is a lemma about it.                                              *)

(* Calls whose document is in sync, and those that have a stat and have not yet   *)
(* sent what they read.                                                           *)
LspPast == {"diagnose", "wait", "store"}
LspSending == {"send_open", "record_open", "record_change", "send_change"}
LspBefore == {"check", "read"} \cup LspSending
LspIs(calls, c, i, pcs) == calls[c].at = i /\ calls[c].pc \in pcs

(* What a call alone at its document knows of it.                                 *)
LspStepFits(calls, servers, c) ==
    LET call == calls[c]
        document == servers[call.at].document
    IN /\ call.pc \notin {"close", "forget"}
       /\ call.pc \in LspBefore /\ call.stat # 0 => call.since <= call.stat
       /\ call.pc \in LspBefore \ {"check"} => call.stat # 0
       /\ call.pc \in LspSending => call.stat <= call.text
       /\ call.pc = "read" => call.known = document
       /\ call.pc \in {"send_open", "record_open"} => document.version = 0 /\ call.version = 1
       /\ call.pc = "record_change" => document.version # 0 /\ call.version = document.version + 1
       /\ call.pc = "send_change" =>
              document.version # 0 /\ document.version = call.version /\ document.stat = call.stat
       /\ call.pc = "clear" =>
              document.version # 0 /\ document.version = call.version /\ call.since <= document.stat
       /\ call.pc \in LspPast => 0 < call.version /\ call.version <= document.version

(* One call works on a document at a time, with a stat taken after the others,    *)
(* and sends a later version than they know.                                      *)
LspPairFits(calls, c, d) ==
    c # d /\ calls[c].at = calls[d].at /\ calls[c].pc \in LspWorking =>
        /\ calls[d].pc \notin LspWorking
        /\ calls[d].pc \in LspPast =>
              /\ calls[c].pc \in LspBefore /\ calls[c].stat # 0 => calls[d].since <= calls[c].stat
              /\ calls[c].pc = "send_change" => calls[d].version < calls[c].version

(* A text under a version: the document's is no older than its stat, and what a   *)
(* call would take for fresh is no older than when the call began.                *)
LspHeld(calls, servers, i, version, text) ==
    version # 0 =>
        /\ \/ version < servers[i].document.version
           \/ version = servers[i].document.version /\ servers[i].document.stat <= text
           \/ \E c \in LspCallers : /\ LspIs(calls, c, i, {"record_open"})
                                    /\ version = 1 /\ calls[c].stat <= text
        /\ \A d \in LspCallers :
              LspIs(calls, d, i, LspPast) /\ calls[d].version = version => calls[d].since <= text

(* The server's latest text is no older than that.                                *)
LspReaches(server, text) ==
    server.sent # <<>> /\ text <= server.sent[Len(server.sent)].text

LspKept(calls, servers, i) ==
    /\ LspHeld(calls, servers, i, servers[i].report.version, servers[i].report.text)
    /\ \A k \in 1 .. Len(servers[i].sent) :
          /\ servers[i].sent[k].version # 0
          /\ LspHeld(calls, servers, i, servers[i].sent[k].version, servers[i].sent[k].text)
    /\ \A d \in LspCallers :
          LspIs(calls, d, i, {"store"}) => LspHeld(calls, servers, i, calls[d].version, calls[d].text)
LspLatest(calls, servers, i) ==
    servers[i].proc = "up" =>
        /\ servers[i].document.version # 0 /\ ~(\E c \in LspCallers : LspIs(calls, c, i, {"send_change"}))
              => LspReaches(servers[i], servers[i].document.stat)
        /\ \A d \in LspCallers : LspIs(calls, d, i, LspPast) => LspReaches(servers[i], calls[d].since)
        /\ \A c \in LspCallers :
              LspIs(calls, c, i, {"record_open"}) => LspReaches(servers[i], calls[c].stat)

LspGood(calls, servers) ==
    /\ \A c \in LspCallers : LspStepFits(calls, servers, c)
    /\ \A c, d \in LspCallers : LspPairFits(calls, c, d)
    /\ \A i \in LspStarts : LspKept(calls, servers, i) /\ LspLatest(calls, servers, i)

(* Nothing is newer than the file.                                                *)
LspNoneNewer(calls, servers, text) ==
    /\ \A c \in LspCallers : calls[c].since <= text /\ calls[c].text <= text /\ calls[c].stat <= text
    /\ \A i \in LspStarts : /\ servers[i].document.stat <= text
                            /\ \A k \in 1 .. Len(servers[i].sent) : servers[i].sent[k].text <= text

(* A server that was not started has no document and no calls.                    *)
LspUnstarted ==
    /\ \A i \in LspStarts : lspServer[i].proc = "none" =>
          /\ lspServer[i].document.version = 0 /\ lspManager.server # i
          /\ \A c \in LspCallers : ~LspIs(lspCall, c, i, {"stat"} \cup LspWorking \cup LspPast)
    /\ \A i \in LspStarts : lspOnce[i] \in {"unused", "fresh"} => lspServer[i].proc = "none"
    /\ \A c \in LspCallers, i \in LspStarts :
          LspStarting(c, i) /\ LspAt(c, "start") => lspServer[i].proc = "none"

LspDocInv ==
    /\ LspNoneNewer(lspCall, lspServer, lspFile.text)
    /\ LspUnstarted
    /\ lspAlone => LspGood(lspCall, lspServer)
LspUsed == LspWorking \cup LspPast

(* One call moved; one server changed.                                            *)
LspSound(calls) == \A c \in LspCallers : calls[c].pc \in LspUsed => calls[c].at \in LspStarts
LspMoved(calls, calls2, c) == \A d \in LspCallers : d # c => calls2[d] = calls[d]
LspChanged(servers, servers2, i) == \A j \in LspStarts : j # i => servers2[j] = servers[j]

(* A call that is done with its document.                                         *)
LEMMA LspLeaves ==
    ASSUME NEW calls, NEW calls2, NEW servers, NEW c \in LspCallers, LspGood(calls, servers),
           LspMoved(calls, calls2, c), calls2[c].pc \notin LspUsed, calls[c].pc # "record_open",
           calls[c].pc = "send_change" => servers[calls[c].at].proc # "up"
    PROVE  LspGood(calls2, servers)
<1> USE DEF LspMoved, LspUsed, LspPast
<1>1. ASSUME NEW d \in LspCallers PROVE LspStepFits(calls2, servers, d)
  <2>1. CASE d = c
    BY <2>1, SMTT(60) DEF LspStepFits, LspBefore, LspSending, LspWorking
  <2>2. CASE d # c
    BY <2>2 DEF LspStepFits, LspGood
  <2> QED
    BY <2>1, <2>2
<1>2. ASSUME NEW d \in LspCallers, NEW e \in LspCallers PROVE LspPairFits(calls2, d, e)
  <2>1. CASE d = c \/ e = c
    BY <2>1 DEF LspPairFits
  <2>2. CASE d # c /\ e # c
    BY <2>2 DEF LspPairFits, LspGood
  <2> QED
    BY <2>1, <2>2
<1>3. \A d \in LspCallers : \A i : LspIs(calls2, d, i, LspPast) => LspIs(calls, d, i, LspPast) /\ calls2[d] = calls[d]
  BY DEF LspIs
<1>4. \A d \in LspCallers : \A i : LspIs(calls2, d, i, {"store"}) => LspIs(calls, d, i, {"store"}) /\ calls2[d] = calls[d]
  BY DEF LspIs
<1>5. \A d \in LspCallers : \A i :
          LspIs(calls2, d, i, {"record_open"}) <=> LspIs(calls, d, i, {"record_open"}) /\ calls2[d] = calls[d]
  BY DEF LspIs, LspWorking
<1>6. \A i, v, t : LspHeld(calls, servers, i, v, t) => LspHeld(calls2, servers, i, v, t)
  BY <1>3, <1>5 DEF LspHeld, LspIs
<1>7. ASSUME NEW i \in LspStarts PROVE LspKept(calls2, servers, i)
  <2>1. LspKept(calls, servers, i)
    BY DEF LspGood
  <2> QED
    BY <1>4, <1>6, <2>1 DEF LspKept
<1>8. ASSUME NEW i \in LspStarts PROVE LspLatest(calls2, servers, i)
  <2>1. LspLatest(calls, servers, i)
    BY DEF LspGood
  <2>2. servers[i].proc = "up" => \A d \in LspCallers :
            LspIs(calls, d, i, {"send_change"}) => LspIs(calls2, d, i, {"send_change"})
    BY DEF LspIs
  <2> QED
    BY <1>3, <1>5, <2>1, <2>2 DEF LspLatest
<1> QED
  BY <1>1, <1>2, <1>7, <1>8 DEF LspGood

(* What calls know depends on the documents of the servers alone.                 *)
LEMMA LspSameDocuments ==
    ASSUME NEW calls, NEW servers, NEW servers2, LspSound(calls),
           \A i \in LspStarts : servers2[i].document = servers[i].document
    PROVE  /\ \A c \in LspCallers : LspStepFits(calls, servers, c) => LspStepFits(calls, servers2, c)
           /\ \A i \in LspStarts : \A v, t : LspHeld(calls, servers, i, v, t) => LspHeld(calls, servers2, i, v, t)
<1>1. ASSUME NEW c \in LspCallers, LspStepFits(calls, servers, c) PROVE LspStepFits(calls, servers2, c)
  <2>1. CASE calls[c].pc \in LspUsed
    <3>1. servers2[calls[c].at].document = servers[calls[c].at].document
      BY <2>1 DEF LspSound
    <3> QED
      BY <1>1, <3>1 DEF LspStepFits
  <2>2. CASE calls[c].pc \notin LspUsed
    BY <2>2 DEF LspStepFits, LspBefore, LspSending, LspWorking, LspUsed, LspPast
  <2> QED
    BY <2>1, <2>2, SMTT(60)
<1> QED
  BY <1>1 DEF LspHeld

(* Diagnostics that are kept for a document.                                      *)
LEMMA LspReported ==
    ASSUME NEW calls, NEW servers, NEW servers2, NEW i \in LspStarts, LspGood(calls, servers),
           LspSound(calls), LspChanged(servers, servers2, i), servers2[i].proc = servers[i].proc,
           servers2[i].document = servers[i].document, servers2[i].sent = servers[i].sent,
           LspHeld(calls, servers, i, servers2[i].report.version, servers2[i].report.text)
    PROVE  LspGood(calls, servers2)
<1>1. \A j \in LspStarts : /\ servers2[j].document = servers[j].document
                         /\ servers2[j].sent = servers[j].sent /\ servers2[j].proc = servers[j].proc
  BY DEF LspChanged
<1>2. /\ \A c \in LspCallers : LspStepFits(calls, servers, c) => LspStepFits(calls, servers2, c)
      /\ \A j \in LspStarts : \A v, t : LspHeld(calls, servers, j, v, t) => LspHeld(calls, servers2, j, v, t)
  BY <1>1, LspSameDocuments
<1>3. ASSUME NEW j \in LspStarts PROVE LspKept(calls, servers2, j)
  <2>1. LspKept(calls, servers, j)
    BY DEF LspGood
  <2>2. LspHeld(calls, servers, j, servers2[j].report.version, servers2[j].report.text)
    BY <2>1 DEF LspKept, LspChanged
  <2> QED
    BY <1>1, <1>2, <2>1, <2>2 DEF LspKept
<1>4. ASSUME NEW j \in LspStarts PROVE LspLatest(calls, servers2, j)
  <2>1. LspLatest(calls, servers, j)
    BY DEF LspGood
  <2> QED
    BY <1>1, <2>1 DEF LspLatest, LspReaches
<1> QED
  BY <1>2, <1>3, <1>4 DEF LspGood

(* A server that is gone: nothing is in its pipe.                                 *)
LEMMA LspGone ==
    ASSUME NEW calls, NEW servers, NEW servers2, NEW i \in LspStarts, LspGood(calls, servers),
           LspSound(calls), LspChanged(servers, servers2, i), servers2[i].proc = "down",
           servers2[i].document = servers[i].document, servers2[i].report = servers[i].report,
           servers2[i].sent = <<>> \/ servers2[i].sent = servers[i].sent
    PROVE  LspGood(calls, servers2)
<1>1. \A j \in LspStarts : /\ servers2[j].document = servers[j].document
                         /\ servers2[j].report = servers[j].report
  BY DEF LspChanged
<1>2. /\ \A c \in LspCallers : LspStepFits(calls, servers, c) => LspStepFits(calls, servers2, c)
      /\ \A j \in LspStarts : \A v, t : LspHeld(calls, servers, j, v, t) => LspHeld(calls, servers2, j, v, t)
  BY <1>1, LspSameDocuments
<1>3. ASSUME NEW j \in LspStarts PROVE LspKept(calls, servers2, j)
  <2>1. LspKept(calls, servers, j)
    BY DEF LspGood
  <2>2. servers2[j].sent = <<>> \/ servers2[j].sent = servers[j].sent
    BY DEF LspChanged
  <2>3. servers2[j].sent = <<>> => 1 .. Len(servers2[j].sent) = {}
    OBVIOUS
  <2> QED
    BY <1>1, <1>2, <2>1, <2>2, <2>3 DEF LspKept
<1>4. ASSUME NEW j \in LspStarts PROVE LspLatest(calls, servers2, j)
  <2>1. LspLatest(calls, servers, j)
    BY DEF LspGood
  <2>2. CASE j = i
    BY <2>2 DEF LspLatest
  <2>3. CASE j # i
    BY <2>1, <2>3 DEF LspLatest, LspChanged
  <2> QED
    BY <2>2, <2>3
<1> QED
  BY <1>2, <1>3, <1>4 DEF LspGood

(* A server that starts has no document and no calls at it.                       *)
LEMMA LspStarted ==
    ASSUME NEW calls, NEW servers, NEW servers2, NEW i \in LspStarts, LspGood(calls, servers),
           LspSound(calls), LspChanged(servers, servers2, i), servers[i].document.version = 0,
           \A c \in LspCallers : ~LspIs(calls, c, i, LspUsed),
           servers2[i].document = servers[i].document, servers2[i].report = servers[i].report,
           servers2[i].sent = servers[i].sent
    PROVE  LspGood(calls, servers2)
<1>1. \A j \in LspStarts : /\ servers2[j].document = servers[j].document
                         /\ servers2[j].report = servers[j].report
                         /\ servers2[j].sent = servers[j].sent
  BY DEF LspChanged
<1>2. /\ \A c \in LspCallers : LspStepFits(calls, servers, c) => LspStepFits(calls, servers2, c)
      /\ \A j \in LspStarts : \A v, t : LspHeld(calls, servers, j, v, t) => LspHeld(calls, servers2, j, v, t)
  BY <1>1, LspSameDocuments
<1>3. ASSUME NEW j \in LspStarts PROVE LspKept(calls, servers2, j)
  <2>1. LspKept(calls, servers, j)
    BY DEF LspGood
  <2> QED
    BY <1>1, <1>2, <2>1, SMTT(60) DEF LspKept
<1>4. ASSUME NEW j \in LspStarts PROVE LspLatest(calls, servers2, j)
  <2>1. LspLatest(calls, servers, j)
    BY DEF LspGood
  <2>2. CASE j = i
    BY <2>2 DEF LspLatest, LspIs, LspUsed, LspPast, LspWorking
  <2>3. CASE j # i
    BY <2>1, <2>3 DEF LspLatest, LspChanged
  <2> QED
    BY <2>2, <2>3
<1> QED
  BY <1>2, <1>3, <1>4 DEF LspGood

(* The texts and versions of a server are numbers.                                *)
LEMMA LspTexts ==
    ASSUME NEW servers \in [LspStarts -> LspServers], NEW i \in LspStarts
    PROVE  /\ servers[i].document.version \in Nat /\ servers[i].document.stat \in Nat
           /\ servers[i].report.version \in Nat /\ servers[i].report.text \in Nat
           /\ \A k \in 1 .. Len(servers[i].sent) :
                 servers[i].sent[k].version \in Nat /\ servers[i].sent[k].text \in Nat
           /\ servers[i].sent # <<>> => servers[i].sent[Len(servers[i].sent)].text \in Nat
           /\ servers[i].sent \in Seq(LspReports)
<1>1. servers[i] \in LspServers
  OBVIOUS
<1>2. /\ servers[i].sent \in Seq(LspReports) /\ servers[i].document \in LspDocuments
      /\ servers[i].report \in LspReports
  BY <1>1 DEF LspServers
<1>3. \A k \in 1 .. Len(servers[i].sent) : servers[i].sent[k] \in LspReports
  BY <1>2
<1>4. servers[i].sent # <<>> => Len(servers[i].sent) \in 1 .. Len(servers[i].sent)
  BY <1>2
<1> QED
  BY <1>2, <1>3, <1>4 DEF LspDocuments, LspReports

(* A call takes the stat of its file, with no other at its document.              *)
LEMMA LspStats ==
    ASSUME NEW calls, NEW calls2, NEW servers, NEW c \in LspCallers, LspGood(calls, servers),
           LspMoved(calls, calls2, c), calls[c].pc \notin LspUsed, calls2[c].pc = "check",
           calls2[c].stat # 0 => calls2[c].since <= calls2[c].stat,
           \A d \in LspCallers : d # c /\ calls[d].at = calls2[c].at =>
               /\ calls[d].pc \notin LspWorking
               /\ calls[d].pc \in LspPast /\ calls2[c].stat # 0 => calls[d].since <= calls2[c].stat
    PROVE  LspGood(calls2, servers)
<1>0. calls[c].pc \notin LspWorking /\ calls[c].pc \notin LspPast
  BY DEF LspUsed
<1> USE DEF LspMoved
<1>1. ASSUME NEW d \in LspCallers PROVE LspStepFits(calls2, servers, d)
  <2>1. CASE d = c
    BY <2>1, SMTT(60) DEF LspStepFits, LspBefore, LspSending, LspPast
  <2>2. CASE d # c
    BY <2>2 DEF LspStepFits, LspGood
  <2> QED
    BY <2>1, <2>2
<1>2. ASSUME NEW d \in LspCallers, NEW e \in LspCallers PROVE LspPairFits(calls2, d, e)
  <2>1. CASE d = c
    BY <2>1 DEF LspPairFits
  <2>2. CASE d # c /\ e = c
    BY <2>2 DEF LspPairFits, LspPast
  <2>3. CASE d # c /\ e # c
    BY <2>3 DEF LspPairFits, LspGood
  <2> QED
    BY <2>1, <2>2, <2>3
<1>3. \A d \in LspCallers : \A i :
          /\ LspIs(calls2, d, i, LspPast) => LspIs(calls, d, i, LspPast) /\ calls2[d] = calls[d]
          /\ LspIs(calls2, d, i, {"store"}) => LspIs(calls, d, i, {"store"}) /\ calls2[d] = calls[d]
          /\ LspIs(calls2, d, i, {"record_open"}) => LspIs(calls, d, i, {"record_open"}) /\ calls2[d] = calls[d]
          /\ LspIs(calls, d, i, {"record_open"}) => LspIs(calls2, d, i, {"record_open"}) /\ calls2[d] = calls[d]
          /\ LspIs(calls, d, i, {"send_change"}) => LspIs(calls2, d, i, {"send_change"})
  BY <1>0 DEF LspIs, LspPast, LspWorking
<1>4. \A i, v, t : LspHeld(calls, servers, i, v, t) => LspHeld(calls2, servers, i, v, t)
  BY <1>3 DEF LspHeld
<1>5. ASSUME NEW i \in LspStarts PROVE LspKept(calls2, servers, i)
  BY <1>3, <1>4 DEF LspKept, LspGood
<1>6. ASSUME NEW i \in LspStarts PROVE LspLatest(calls2, servers, i)
  BY <1>3 DEF LspLatest, LspGood
<1> QED
  BY <1>1, <1>2, <1>5, <1>6 DEF LspGood

(* The document is in sync: it is the call's version, with a stat that is not     *)
(* older than the call.                                                           *)
LEMMA LspPasses ==
    ASSUME NEW calls, NEW calls2, NEW servers \in [LspStarts -> LspServers], NEW c \in LspCallers,
           LspGood(calls, servers), NEW i \in LspStarts, calls[c].at = i, calls2[c].at = i,
           calls2[c].since \in Nat,
           LspMoved(calls, calls2, c), calls[c].pc \in {"check", "clear"}, calls2[c].pc = "diagnose",
           servers[i].document.version # 0, calls2[c].version = servers[i].document.version,
           calls2[c].since <= servers[i].document.stat,
           \A d \in LspCallers : calls[d].pc = "store" => calls[d].text \in Nat
    PROVE  LspGood(calls2, servers)
<1>0. calls[c].pc \in LspWorking /\ calls[c].pc \notin LspPast
  BY DEF LspWorking, LspPast
<1>a. servers[i].document.version \in Nat /\ servers[i].document.stat \in Nat
  BY LspTexts
<1>b. \A d \in LspCallers : d # c /\ calls[d].at = i => calls[d].pc \notin LspWorking
  BY <1>0 DEF LspGood, LspPairFits
<1> USE DEF LspMoved
<1>1. ASSUME NEW d \in LspCallers PROVE LspStepFits(calls2, servers, d)
  <2>1. CASE d = c
    BY <1>a, <2>1, SMTT(60) DEF LspStepFits, LspBefore, LspSending, LspPast
  <2>2. CASE d # c
    BY <2>2 DEF LspStepFits, LspGood
  <2> QED
    BY <2>1, <2>2, SMTT(60)
<1>2. ASSUME NEW d \in LspCallers, NEW e \in LspCallers PROVE LspPairFits(calls2, d, e)
  <2>1. CASE d = c
    BY <2>1 DEF LspPairFits, LspWorking
  <2>2. CASE d # c /\ e = c
    BY <1>b, <2>2 DEF LspPairFits
  <2>3. CASE d # c /\ e # c
    BY <2>3 DEF LspPairFits, LspGood
  <2> QED
    BY <2>1, <2>2, <2>3
<1>3. \A d \in LspCallers : \A j :
          /\ LspIs(calls2, d, j, {"store"}) => LspIs(calls, d, j, {"store"}) /\ calls2[d] = calls[d]
          /\ LspIs(calls2, d, j, {"record_open"}) => LspIs(calls, d, j, {"record_open"}) /\ calls2[d] = calls[d]
          /\ LspIs(calls, d, j, {"record_open"}) => LspIs(calls2, d, j, {"record_open"}) /\ calls2[d] = calls[d]
          /\ LspIs(calls, d, j, {"send_change"}) => LspIs(calls2, d, j, {"send_change"})
  BY DEF LspIs
<1>4. \A d \in LspCallers : \A j : LspIs(calls2, d, j, LspPast) <=>
          IF d = c THEN j = i ELSE LspIs(calls, d, j, LspPast)
  BY DEF LspIs, LspPast
<1>5. ASSUME NEW j, NEW v, NEW t \in Nat, LspHeld(calls, servers, j, v, t)
      PROVE  LspHeld(calls2, servers, j, v, t)
  <2>1. CASE j = i
    <3>1. \A d \in LspCallers : ~LspIs(calls, d, i, {"record_open"})
      BY <1>b DEF LspIs, LspWorking
    <3>2. v = servers[i].document.version => calls2[c].since <= t
      BY <1>a, <1>5, <2>1, <3>1 DEF LspHeld
    <3> QED
      BY <1>3, <1>4, <1>5, <2>1, <3>1, <3>2 DEF LspHeld
  <2>2. CASE j # i
    <3>1. \A d \in LspCallers : LspIs(calls2, d, j, LspPast) => LspIs(calls, d, j, LspPast) /\ calls2[d] = calls[d]
      BY <1>4, <2>2
    <3> QED
      BY <1>3, <1>5, <3>1 DEF LspHeld
  <2> QED
    BY <2>1, <2>2
<1>6. ASSUME NEW j \in LspStarts PROVE LspKept(calls2, servers, j)
  <2>1. LspKept(calls, servers, j)
    BY DEF LspGood
  <2>2. /\ servers[j].report.text \in Nat
        /\ \A k \in 1 .. Len(servers[j].sent) : servers[j].sent[k].text \in Nat
    BY LspTexts
  <2> QED
    BY <1>3, <1>5, <2>1, <2>2 DEF LspKept, LspIs
<1>7. ASSUME NEW j \in LspStarts PROVE LspLatest(calls2, servers, j)
  <2>1. LspLatest(calls, servers, j)
    BY DEF LspGood
  <2>2. CASE j = i
    <3>1. \A d \in LspCallers : ~LspIs(calls, d, i, {"send_change"}) /\ ~LspIs(calls, d, i, {"record_open"})
      BY <1>b DEF LspIs, LspWorking
    <3>2. servers[i].proc = "up" => LspReaches(servers[i], servers[i].document.stat)
      BY <2>1, <2>2, <3>1 DEF LspLatest
    <3>3. servers[i].proc = "up" => LspReaches(servers[i], calls2[c].since)
      <4> SUFFICES ASSUME servers[i].proc = "up" PROVE LspReaches(servers[i], calls2[c].since)
        OBVIOUS
      <4>1. servers[i].sent # <<>> => servers[i].sent[Len(servers[i].sent)].text \in Nat
        BY LspTexts
      <4> QED
        BY <1>a, <3>2, <4>1 DEF LspReaches
    <3> QED
      BY <1>3, <1>4, <2>1, <2>2, <3>1, <3>2, <3>3 DEF LspLatest
  <2>3. CASE j # i
    <3>1. \A d \in LspCallers : LspIs(calls2, d, j, LspPast) => LspIs(calls, d, j, LspPast) /\ calls2[d] = calls[d]
      BY <1>4, <2>3
    <3> QED
      BY <1>3, <2>1, <3>1 DEF LspLatest
  <2> QED
    BY <2>2, <2>3
<1> QED
  BY <1>1, <1>2, <1>6, <1>7 DEF LspGood

(* A call whose document is in sync goes on asking for diagnostics.               *)
LEMMA LspWaits ==
    ASSUME NEW calls, NEW calls2, NEW servers, NEW c \in LspCallers, LspGood(calls, servers),
           LspMoved(calls, calls2, c), calls[c].pc \in LspPast, calls2[c].pc \in LspPast,
           calls2[c].at = calls[c].at, calls2[c].since = calls[c].since,
           calls2[c].version = calls[c].version,
           calls2[c].pc = "store" =>
               LspHeld(calls, servers, calls[c].at, calls[c].version, calls2[c].text)
    PROVE  LspGood(calls2, servers)
<1> USE DEF LspMoved
<1>0. calls[c].pc \notin LspWorking /\ calls2[c].pc \notin LspWorking
  BY DEF LspPast, LspWorking
<1>1. ASSUME NEW d \in LspCallers PROVE LspStepFits(calls2, servers, d)
  <2>1. CASE d = c
    BY <1>0, <2>1, SMTT(60) DEF LspStepFits, LspBefore, LspSending, LspPast, LspGood
  <2>2. CASE d # c
    BY <2>2 DEF LspStepFits, LspGood
  <2> QED
    BY <2>1, <2>2, SMTT(60)
<1>2. ASSUME NEW d \in LspCallers, NEW e \in LspCallers PROVE LspPairFits(calls2, d, e)
  <2>1. CASE d = c
    BY <1>0, <2>1 DEF LspPairFits
  <2>2. CASE d # c /\ e = c
    BY <1>0, <2>2 DEF LspPairFits, LspGood
  <2>3. CASE d # c /\ e # c
    BY <2>3 DEF LspPairFits, LspGood
  <2> QED
    BY <2>1, <2>2, <2>3
<1>3. \A d \in LspCallers : \A i :
          /\ LspIs(calls2, d, i, LspPast) => /\ LspIs(calls, d, i, LspPast)
                                             /\ calls2[d].since = calls[d].since
                                             /\ calls2[d].version = calls[d].version
          /\ LspIs(calls2, d, i, {"store"}) => \/ LspIs(calls, d, i, {"store"}) /\ calls2[d] = calls[d]
                                               \/ d = c /\ i = calls[c].at /\ calls2[c].pc = "store"
          /\ LspIs(calls2, d, i, {"record_open"}) => LspIs(calls, d, i, {"record_open"}) /\ calls2[d] = calls[d]
          /\ LspIs(calls, d, i, {"record_open"}) => LspIs(calls2, d, i, {"record_open"}) /\ calls2[d] = calls[d]
          /\ LspIs(calls, d, i, {"send_change"}) => LspIs(calls2, d, i, {"send_change"})
  BY <1>0 DEF LspIs, LspPast, LspWorking
<1>4. \A i, v, t : LspHeld(calls, servers, i, v, t) => LspHeld(calls2, servers, i, v, t)
  BY <1>3 DEF LspHeld
<1>5. ASSUME NEW i \in LspStarts PROVE LspKept(calls2, servers, i)
  <2>1. LspKept(calls, servers, i)
    BY DEF LspGood
  <2>2. ASSUME NEW d \in LspCallers, LspIs(calls2, d, i, {"store"})
        PROVE  LspHeld(calls2, servers, i, calls2[d].version, calls2[d].text)
    BY <1>3, <1>4, <2>1, <2>2 DEF LspKept
  <2> QED
    BY <1>4, <2>1, <2>2 DEF LspKept
<1>6. ASSUME NEW i \in LspStarts PROVE LspLatest(calls2, servers, i)
  <2>1. LspLatest(calls, servers, i)
    BY DEF LspGood
  <2> QED
    BY <1>3, <2>1 DEF LspLatest
<1> QED
  BY <1>1, <1>2, <1>5, <1>6 DEF LspGood

(* Calls that hear of a report.                                                   *)
LEMMA LspHears ==
    ASSUME NEW calls, NEW calls2, NEW servers, LspGood(calls, servers),
           \A d \in LspCallers :
               /\ calls2[d].pc = calls[d].pc /\ calls2[d].at = calls[d].at
               /\ calls2[d].since = calls[d].since /\ calls2[d].stat = calls[d].stat
               /\ calls2[d].known = calls[d].known /\ calls2[d].text = calls[d].text
               /\ calls2[d].version = calls[d].version
    PROVE  LspGood(calls2, servers)
<1>1. ASSUME NEW d \in LspCallers PROVE LspStepFits(calls2, servers, d)
  BY DEF LspStepFits, LspGood
<1>2. ASSUME NEW d \in LspCallers, NEW e \in LspCallers PROVE LspPairFits(calls2, d, e)
  BY DEF LspPairFits, LspGood
<1>3. \A d \in LspCallers : \A i, pcs : LspIs(calls2, d, i, pcs) <=> LspIs(calls, d, i, pcs)
  BY DEF LspIs
<1>4. \A i, v, t : LspHeld(calls, servers, i, v, t) => LspHeld(calls2, servers, i, v, t)
  BY <1>3 DEF LspHeld
<1>5. ASSUME NEW i \in LspStarts PROVE LspKept(calls2, servers, i)
  <2>1. LspKept(calls, servers, i)
    BY DEF LspGood
  <2> QED
    BY <1>3, <1>4, <2>1 DEF LspKept
<1>6. ASSUME NEW i \in LspStarts PROVE LspLatest(calls2, servers, i)
  <2>1. LspLatest(calls, servers, i)
    BY DEF LspGood
  <2> QED
    BY <1>3, <2>1 DEF LspLatest
<1> QED
  BY <1>1, <1>2, <1>5, <1>6, SMTT(60) DEF LspGood

(* A call that compares and reads goes on with its stat.                          *)
LEMMA LspGoesOn ==
    ASSUME NEW calls, NEW calls2, NEW servers, NEW c \in LspCallers, LspGood(calls, servers),
           LspMoved(calls, calls2, c), calls[c].pc \in {"check", "read"},
           calls2[c].pc \in {"read", "send_open", "record_change"},
           calls2[c].at = calls[c].at, calls2[c].since = calls[c].since, calls2[c].stat = calls[c].stat,
           LspStepFits(calls2, servers, c)
    PROVE  LspGood(calls2, servers)
<1> USE DEF LspMoved
<1>1. ASSUME NEW d \in LspCallers PROVE LspStepFits(calls2, servers, d)
  <2>1. CASE d # c
    BY <2>1 DEF LspStepFits, LspGood
  <2> QED
    BY <2>1, SMTT(60)
<1>0. /\ calls[c].pc \in LspWorking /\ calls2[c].pc \in LspWorking
      /\ calls[c].pc \in LspBefore /\ calls2[c].pc # "send_change" /\ calls2[c].pc \notin LspPast
  BY DEF LspWorking, LspBefore, LspSending, LspPast
<1>2. ASSUME NEW d \in LspCallers, NEW e \in LspCallers PROVE LspPairFits(calls2, d, e)
  <2>a. LspPairFits(calls, d, e)
    BY DEF LspGood
  <2>1. CASE d = c
    BY <1>0, <2>a, <2>1 DEF LspPairFits
  <2>2. CASE d # c /\ e = c
    BY <1>0, <2>a, <2>2 DEF LspPairFits
  <2>3. CASE d # c /\ e # c
    BY <2>a, <2>3 DEF LspPairFits
  <2> QED
    BY <2>1, <2>2, <2>3
<1>3. \A d \in LspCallers : \A i :
          /\ LspIs(calls2, d, i, LspPast) => LspIs(calls, d, i, LspPast) /\ calls2[d] = calls[d]
          /\ LspIs(calls2, d, i, {"store"}) => LspIs(calls, d, i, {"store"}) /\ calls2[d] = calls[d]
          /\ LspIs(calls2, d, i, {"record_open"}) => LspIs(calls, d, i, {"record_open"}) /\ calls2[d] = calls[d]
          /\ LspIs(calls, d, i, {"record_open"}) => LspIs(calls2, d, i, {"record_open"}) /\ calls2[d] = calls[d]
          /\ LspIs(calls, d, i, {"send_change"}) => LspIs(calls2, d, i, {"send_change"})
  BY <1>0 DEF LspIs, LspPast
<1>4. \A i, v, t : LspHeld(calls, servers, i, v, t) => LspHeld(calls2, servers, i, v, t)
  BY <1>3 DEF LspHeld
<1>5. ASSUME NEW i \in LspStarts PROVE LspKept(calls2, servers, i)
  <2>1. LspKept(calls, servers, i)
    BY DEF LspGood
  <2> QED
    BY <1>3, <1>4, <2>1 DEF LspKept
<1>6. ASSUME NEW i \in LspStarts PROVE LspLatest(calls2, servers, i)
  <2>1. LspLatest(calls, servers, i)
    BY DEF LspGood
  <2> QED
    BY <1>3, <2>1 DEF LspLatest
<1> QED
  BY <1>1, <1>2, <1>5, <1>6 DEF LspGood

(* A call that sends or records: what it leaves alone.                            *)
LspActs(calls, calls2, servers, servers2, c, i) ==
    /\ LspGood(calls, servers) /\ LspSound(calls)
    /\ LspMoved(calls, calls2, c) /\ LspChanged(servers, servers2, i)
    /\ calls[c].at = i /\ calls2[c].at = i
    /\ calls[c].pc \in LspWorking /\ calls2[c].pc \in LspWorking
    /\ servers[i].document.version <= servers2[i].document.version

LspRest(calls, calls2, servers2, c, i) ==
    /\ \A j \in LspStarts : j # i => LspKept(calls2, servers2, j) /\ LspLatest(calls2, servers2, j)
    /\ \A d \in LspCallers : d # c => LspStepFits(calls2, servers2, d)
    /\ \A d \in LspCallers : d # c /\ calls[d].at = i => calls[d].pc \notin LspWorking
LspNumbered(calls) ==
    \A d \in LspCallers : /\ calls[d].version \in Nat /\ calls[d].text \in Nat
                          /\ calls[d].since \in Nat /\ calls[d].stat \in Nat

LEMMA LspElsewhere ==
    ASSUME NEW calls, NEW calls2, NEW servers \in [LspStarts -> LspServers],
           NEW servers2 \in [LspStarts -> LspServers], NEW c \in LspCallers, NEW i \in LspStarts,
           LspActs(calls, calls2, servers, servers2, c, i),
           LspNumbered(calls)
    PROVE  LspRest(calls, calls2, servers2, c, i)
<1> USE DEF LspActs, LspMoved, LspChanged, LspNumbered
<1>1. ASSUME NEW d \in LspCallers, d # c, calls[d].at = i PROVE calls[d].pc \notin LspWorking
  BY <1>1 DEF LspGood, LspPairFits
<1>2. ASSUME NEW d \in LspCallers, d # c PROVE LspStepFits(calls2, servers2, d)
  <2>a. LspStepFits(calls, servers, d) /\ calls2[d] = calls[d]
    BY <1>2, SMTT(60) DEF LspGood
  <2>1. CASE calls[d].pc \notin LspUsed
    BY <2>a, <2>1, SMTT(60) DEF LspStepFits, LspUsed, LspPast, LspWorking, LspBefore, LspSending
  <2>2. CASE calls[d].pc \in LspUsed /\ calls[d].at # i
    <3>1. servers2[calls[d].at] = servers[calls[d].at]
      BY <2>2 DEF LspSound
    <3> QED
      BY <2>a, <3>1 DEF LspStepFits
  <2>3. CASE calls[d].pc \in LspUsed /\ calls[d].at = i
    <3>1. calls[d].pc \in LspPast
      BY <1>1, <1>2, <2>3 DEF LspUsed
    <3>2. calls[d].version <= servers[i].document.version /\ 0 < calls[d].version
      BY <2>a, <2>3, <3>1 DEF LspStepFits
    <3>3. servers[i].document.version \in Nat /\ servers2[i].document.version \in Nat
      BY LspTexts
    <3>4. calls[d].version <= servers2[i].document.version
      BY <3>2, <3>3
    <3> QED
      BY <2>a, <2>3, <3>1, <3>2, <3>4 DEF LspStepFits, LspPast, LspBefore, LspSending
  <2> QED
    BY <2>1, <2>2, <2>3
<1>3. ASSUME NEW j \in LspStarts, j # i PROVE LspKept(calls2, servers2, j) /\ LspLatest(calls2, servers2, j)
  <2>1. LspKept(calls, servers, j) /\ LspLatest(calls, servers, j) /\ servers2[j] = servers[j]
    BY <1>3 DEF LspGood
  <2>2. \A d \in LspCallers :
          /\ LspIs(calls2, d, j, LspPast) => LspIs(calls, d, j, LspPast) /\ calls2[d] = calls[d]
          /\ LspIs(calls2, d, j, {"store"}) => LspIs(calls, d, j, {"store"}) /\ calls2[d] = calls[d]
          /\ LspIs(calls2, d, j, {"record_open"}) => LspIs(calls, d, j, {"record_open"}) /\ calls2[d] = calls[d]
          /\ LspIs(calls, d, j, {"record_open"}) => LspIs(calls2, d, j, {"record_open"}) /\ calls2[d] = calls[d]
          /\ LspIs(calls, d, j, {"send_change"}) => LspIs(calls2, d, j, {"send_change"})
    BY <1>3 DEF LspIs
  <2>3. \A v, t : LspHeld(calls, servers, j, v, t) => LspHeld(calls2, servers2, j, v, t)
    BY <2>1, <2>2 DEF LspHeld
  <2>4. LspKept(calls2, servers2, j)
    BY <2>1, <2>2, <2>3 DEF LspKept
  <2>5. LspLatest(calls2, servers2, j)
    BY <2>1, <2>2 DEF LspLatest
  <2> QED
    BY <2>4, <2>5
<1> QED
  BY <1>1, <1>2, <1>3 DEF LspRest

(* didOpen is sent.                                                               *)
LEMMA LspSendsOpen ==
    ASSUME NEW calls, NEW calls2, NEW servers \in [LspStarts -> LspServers],
           NEW servers2 \in [LspStarts -> LspServers], NEW c \in LspCallers, NEW i \in LspStarts,
           LspActs(calls, calls2, servers, servers2, c, i),
           LspNumbered(calls),
           calls[c].pc = "send_open", calls2[c].pc = "record_open",
           calls2[c].since = calls[c].since, calls2[c].stat = calls[c].stat,
           calls2[c].text = calls[c].text, calls2[c].version = calls[c].version,
           servers2[i].document = servers[i].document, servers2[i].report = servers[i].report,
           servers2[i].sent = Append(servers[i].sent, [version |-> calls[c].version, text |-> calls[c].text])
    PROVE  LspGood(calls2, servers2)
<1>0. LspRest(calls, calls2, servers2, c, i)
  BY LspElsewhere
<1> USE DEF LspNumbered
<1>a. /\ \A j \in LspStarts : j # i => LspKept(calls2, servers2, j) /\ LspLatest(calls2, servers2, j)
      /\ \A d \in LspCallers : d # c => LspStepFits(calls2, servers2, d)
      /\ \A d \in LspCallers : d # c /\ calls[d].at = i => calls[d].pc \notin LspWorking
  BY <1>0, SMTT(60) DEF LspRest
<1>1. /\ servers[i].document.version = 0 /\ calls[c].version = 1 /\ calls[c].stat # 0
      /\ calls[c].stat <= calls[c].text /\ calls[c].since <= calls[c].stat
  BY DEF LspActs, LspGood, LspStepFits, LspBefore, LspSending
<1>2. \A d \in LspCallers : d # c /\ calls[d].at = i => calls[d].pc \notin LspWorking /\ calls[d].pc \notin LspPast
  <2> SUFFICES ASSUME NEW d \in LspCallers, d # c, calls[d].at = i, calls[d].pc \in LspPast PROVE FALSE
    BY <1>a, SMTT(60)
  <2>1. 0 < calls[d].version /\ calls[d].version <= 0
    BY <1>1 DEF LspActs, LspGood, LspStepFits
  <2> QED
    BY <2>1
<1>3. ASSUME NEW d \in LspCallers PROVE LspStepFits(calls2, servers2, d)
  <2>1. CASE d = c
    BY <1>1, <2>1 DEF LspActs, LspStepFits, LspBefore, LspSending, LspPast
  <2> QED
    BY <1>a, <2>1, SMTT(60)
<1>4. ASSUME NEW d \in LspCallers, NEW e \in LspCallers PROVE LspPairFits(calls2, d, e)
  BY <1>2, SMTT(60) DEF LspActs, LspMoved, LspPairFits, LspGood
<1>5. \A d \in LspCallers :
          /\ ~LspIs(calls2, d, i, LspPast) /\ ~LspIs(calls, d, i, {"record_open"})
          /\ LspIs(calls2, d, i, {"record_open"}) => d = c
  BY <1>2 DEF LspIs, LspActs, LspMoved, LspPast, LspWorking
<1>6. \A d \in LspCallers : ~LspIs(calls2, d, i, {"store"})
  BY <1>5 DEF LspIs, LspPast
<1>7. \A v, t : LspHeld(calls, servers, i, v, t) => LspHeld(calls2, servers2, i, v, t)
  BY <1>5 DEF LspHeld
<1>8. LspHeld(calls2, servers2, i, 1, calls[c].text)
  <2>1. LspIs(calls2, c, i, {"record_open"}) /\ calls2[c].stat <= calls[c].text
    BY <1>1, SMTT(60) DEF LspIs, LspActs
  <2> QED
    BY <1>5, <2>1 DEF LspHeld
<1>9. LspKept(calls2, servers2, i)
  <2> DEFINE new == [version |-> calls[c].version, text |-> calls[c].text]
  <2>1. LspKept(calls, servers, i)
    BY DEF LspActs, LspGood
  <2>2. new \in LspReports /\ servers[i].sent \in Seq(LspReports)
    BY LspTexts DEF LspReports
  <2>3. new.version = 1 /\ new.text = calls[c].text
    BY <1>1
  <2> HIDE DEF new
  <2>4. ASSUME NEW k \in 1 .. Len(servers2[i].sent)
        PROVE  \/ k \in 1 .. Len(servers[i].sent) /\ servers2[i].sent[k] = servers[i].sent[k]
               \/ servers2[i].sent[k] = new
    BY <2>2, SMTT(60) DEF new
  <2>5. ASSUME NEW k \in 1 .. Len(servers2[i].sent)
        PROVE  /\ servers2[i].sent[k].version # 0
               /\ LspHeld(calls2, servers2, i, servers2[i].sent[k].version, servers2[i].sent[k].text)
    BY <1>7, <1>8, <2>1, <2>3, <2>4, SMTT(60) DEF LspKept
  <2>6. LspHeld(calls2, servers2, i, servers2[i].report.version, servers2[i].report.text)
    BY <1>7, <2>1 DEF LspKept
  <2> QED
    BY <1>6, <2>5, <2>6, SMTT(60) DEF LspKept
<1>10. LspLatest(calls2, servers2, i)
  <2>1. LspReaches(servers2[i], calls[c].stat)
    <3> DEFINE new == [version |-> calls[c].version, text |-> calls[c].text]
    <3>1. new \in LspReports /\ servers[i].sent \in Seq(LspReports) /\ new.text = calls[c].text
      BY LspTexts DEF LspReports
    <3>2. servers2[i].sent = Append(servers[i].sent, new)
      OBVIOUS
    <3> HIDE DEF new
    <3>3. servers2[i].sent # <<>> /\ servers2[i].sent[Len(servers2[i].sent)] = new
      BY <3>1, <3>2, SMTT(60)
    <3> QED
      BY <1>1, <3>1, <3>3 DEF LspReaches
  <2> QED
    BY <1>1, <1>5, <2>1 DEF LspLatest
<1> QED
  BY <1>3, <1>4, <1>9, <1>10, <1>a DEF LspGood

(* didOpen is on record.                                                          *)
LEMMA LspRecordsOpen ==
    ASSUME NEW calls, NEW calls2, NEW servers \in [LspStarts -> LspServers],
           NEW servers2 \in [LspStarts -> LspServers], NEW c \in LspCallers, NEW i \in LspStarts,
           LspActs(calls, calls2, servers, servers2, c, i),
           LspNumbered(calls),
           calls[c].pc = "record_open", calls2[c].pc = "clear",
           calls2[c].since = calls[c].since, calls2[c].version = calls[c].version,
           servers2[i].document.version = calls[c].version,
           servers2[i].document.stat = calls[c].stat, servers2[i].proc = servers[i].proc,
           servers2[i].report = servers[i].report, servers2[i].sent = servers[i].sent
    PROVE  LspGood(calls2, servers2)
<1>0. LspRest(calls, calls2, servers2, c, i)
  BY LspElsewhere
<1> USE DEF LspNumbered
<1>a. /\ \A j \in LspStarts : j # i => LspKept(calls2, servers2, j) /\ LspLatest(calls2, servers2, j)
      /\ \A d \in LspCallers : d # c => LspStepFits(calls2, servers2, d)
      /\ \A d \in LspCallers : d # c /\ calls[d].at = i => calls[d].pc \notin LspWorking
  BY <1>0 DEF LspRest
<1>b. LspKept(calls, servers, i) /\ LspLatest(calls, servers, i)
  BY DEF LspActs, LspGood
<1>1. /\ servers[i].document.version = 0 /\ calls[c].version = 1
      /\ calls[c].since <= calls[c].stat
  BY DEF LspActs, LspGood, LspStepFits, LspBefore, LspSending
<1>2. \A d \in LspCallers : d # c /\ calls[d].at = i => calls[d].pc \notin LspWorking /\ calls[d].pc \notin LspPast
  <2> SUFFICES ASSUME NEW d \in LspCallers, d # c, calls[d].at = i, calls[d].pc \in LspPast PROVE FALSE
    BY <1>a, SMTT(60)
  <2>1. 0 < calls[d].version /\ calls[d].version <= 0
    BY <1>1 DEF LspActs, LspGood, LspStepFits
  <2> QED
    BY <2>1
<1>3. ASSUME NEW d \in LspCallers PROVE LspStepFits(calls2, servers2, d)
  <2>1. CASE d = c
    BY <1>1, <2>1 DEF LspActs, LspStepFits, LspBefore, LspSending, LspPast
  <2> QED
    BY <1>a, <2>1, SMTT(60)
<1>4. ASSUME NEW d \in LspCallers, NEW e \in LspCallers PROVE LspPairFits(calls2, d, e)
  BY <1>2 DEF LspActs, LspMoved, LspPairFits, LspGood
<1>5. \A d \in LspCallers :
          /\ ~LspIs(calls2, d, i, LspPast) /\ ~LspIs(calls2, d, i, {"record_open"})
          /\ LspIs(calls, d, i, {"record_open"}) => d = c
          /\ ~LspIs(calls, d, i, {"send_change"})
  BY <1>2 DEF LspIs, LspActs, LspMoved, LspPast, LspWorking
<1>6. \A d \in LspCallers : ~LspIs(calls2, d, i, {"store"})
  BY <1>5 DEF LspIs, LspPast
<1>7. \A v \in Nat : \A t : LspHeld(calls, servers, i, v, t) => LspHeld(calls2, servers2, i, v, t)
  BY <1>1, <1>5 DEF LspHeld
<1>8. LspKept(calls2, servers2, i)
  <2>1. servers[i].report.version \in Nat /\ \A k \in 1 .. Len(servers[i].sent) : servers[i].sent[k].version \in Nat
    BY LspTexts
  <2> QED
    BY <1>b, <1>6, <1>7, <2>1 DEF LspKept
<1>9. LspLatest(calls2, servers2, i)
  <2>1. servers[i].proc = "up" => LspReaches(servers[i], calls[c].stat)
    <3>1. LspIs(calls, c, i, {"record_open"})
      BY DEF LspIs, LspActs
    <3> QED
      BY <1>b, <3>1 DEF LspLatest
  <2>2. servers2[i].proc = "up" => LspReaches(servers2[i], servers2[i].document.stat)
    BY <2>1 DEF LspReaches
  <2> QED
    BY <1>5, <2>2 DEF LspLatest
<1> QED
  BY <1>3, <1>4, <1>8, <1>9, <1>a DEF LspGood

(* didChange is on record before it is sent.                                      *)
LEMMA LspRecordsChange ==
    ASSUME NEW calls, NEW calls2, NEW servers \in [LspStarts -> LspServers],
           NEW servers2 \in [LspStarts -> LspServers], NEW c \in LspCallers, NEW i \in LspStarts,
           LspActs(calls, calls2, servers, servers2, c, i),
           LspNumbered(calls),
           calls[c].pc = "record_change", calls2[c].pc = "send_change",
           calls2[c].since = calls[c].since, calls2[c].version = calls[c].version,
           calls2[c].stat = calls[c].stat, calls2[c].text = calls[c].text,
           servers2[i].document.version = calls[c].version,
           servers2[i].document.stat = calls[c].stat, servers2[i].proc = servers[i].proc,
           servers2[i].report = servers[i].report, servers2[i].sent = servers[i].sent
    PROVE  LspGood(calls2, servers2)
<1>0. LspRest(calls, calls2, servers2, c, i)
  BY LspElsewhere
<1> USE DEF LspNumbered
<1>a. /\ \A j \in LspStarts : j # i => LspKept(calls2, servers2, j) /\ LspLatest(calls2, servers2, j)
      /\ \A d \in LspCallers : d # c => LspStepFits(calls2, servers2, d)
      /\ \A d \in LspCallers : d # c /\ calls[d].at = i => calls[d].pc \notin LspWorking
  BY <1>0 DEF LspRest
<1>b. LspKept(calls, servers, i) /\ LspLatest(calls, servers, i)
  BY SMTT(60) DEF LspActs, LspGood
<1>1. /\ servers[i].document.version # 0 /\ calls[c].version = servers[i].document.version + 1
      /\ servers[i].document.version \in Nat
      /\ calls[c].since <= calls[c].stat /\ calls[c].stat # 0 /\ calls[c].stat <= calls[c].text
  BY LspTexts DEF LspActs, LspGood, LspStepFits, LspBefore, LspSending
<1>2. \A d \in LspCallers : LspIs(calls, d, i, LspPast) => calls[d].version < calls[c].version
  <2> SUFFICES ASSUME NEW d \in LspCallers, LspIs(calls, d, i, LspPast)
               PROVE  calls[d].version < calls[c].version
    BY SMTT(60)
  <2>1. calls[d].version <= servers[i].document.version
    BY DEF LspActs, LspGood, LspStepFits, LspIs
  <2> QED
    BY <1>1, <2>1
<1>3. ASSUME NEW d \in LspCallers PROVE LspStepFits(calls2, servers2, d)
  <2>1. CASE d = c
    BY <1>1, <2>1 DEF LspActs, LspStepFits, LspBefore, LspSending, LspPast
  <2> QED
    BY <1>a, <2>1, SMTT(60)
<1>4. ASSUME NEW d \in LspCallers, NEW e \in LspCallers PROVE LspPairFits(calls2, d, e)
  <2>a. LspPairFits(calls, d, e)
    BY SMTT(60) DEF LspActs, LspGood
  <2>1. CASE d = c /\ e # c
    <3>1. calls[c].pc \in LspBefore /\ calls2[c].pc \in LspBefore /\ calls[c].pc \in LspWorking
      BY DEF LspBefore, LspSending, LspWorking
    <3> QED
      BY <1>1, <1>2, <2>a, <2>1, <3>1 DEF LspActs, LspMoved, LspPairFits, LspIs
  <2>2. CASE d # c /\ e = c
    BY <1>a, <2>2 DEF LspActs, LspMoved, LspPairFits
  <2>3. CASE d # c /\ e # c
    BY <2>a, <2>3 DEF LspActs, LspMoved, LspPairFits
  <2>4. CASE d = e
    BY <2>4 DEF LspPairFits
  <2> QED
    BY <2>1, <2>2, <2>3, <2>4
<1>5. \A d \in LspCallers :
          /\ LspIs(calls2, d, i, LspPast) => LspIs(calls, d, i, LspPast) /\ calls2[d] = calls[d]
          /\ LspIs(calls2, d, i, {"store"}) => LspIs(calls, d, i, {"store"}) /\ calls2[d] = calls[d]
          /\ ~LspIs(calls2, d, i, {"record_open"}) /\ ~LspIs(calls, d, i, {"record_open"})
  BY <1>a DEF LspIs, LspActs, LspMoved, LspPast, LspWorking
<1>6. \A v \in Nat : \A t : LspHeld(calls, servers, i, v, t) => LspHeld(calls2, servers2, i, v, t)
  <2> SUFFICES ASSUME NEW v \in Nat, NEW t, LspHeld(calls, servers, i, v, t), v # 0
               PROVE  LspHeld(calls2, servers2, i, v, t)
    BY DEF LspHeld
  <2>1. v <= servers[i].document.version
    BY <1>1, <1>5 DEF LspHeld
  <2>2. v < servers2[i].document.version
    BY <1>1, <2>1
  <2> QED
    BY <1>5, <2>2 DEF LspHeld
<1>7. LspKept(calls2, servers2, i)
  <2>1. servers[i].report.version \in Nat /\ \A k \in 1 .. Len(servers[i].sent) : servers[i].sent[k].version \in Nat
    BY LspTexts
  <2>2. ASSUME NEW d \in LspCallers, LspIs(calls2, d, i, {"store"})
        PROVE  LspHeld(calls2, servers2, i, calls2[d].version, calls2[d].text)
    BY <1>b, <1>5, <1>6, <2>2 DEF LspKept
  <2> QED
    BY <1>b, <1>6, <2>1, <2>2 DEF LspKept
<1>8. LspLatest(calls2, servers2, i)
  <2>1. LspIs(calls2, c, i, {"send_change"})
    BY DEF LspIs, LspActs
  <2>2. ASSUME servers2[i].proc = "up", NEW d \in LspCallers, LspIs(calls2, d, i, LspPast)
        PROVE  LspReaches(servers2[i], calls2[d].since)
    BY <1>b, <1>5, <2>2 DEF LspLatest, LspReaches
  <2> QED
    BY <1>5, <2>1, <2>2 DEF LspLatest
<1> QED
  BY <1>3, <1>4, <1>7, <1>8, <1>a DEF LspGood

(* didChange is sent.                                                             *)
LEMMA LspSendsChange ==
    ASSUME NEW calls, NEW calls2, NEW servers \in [LspStarts -> LspServers],
           NEW servers2 \in [LspStarts -> LspServers], NEW c \in LspCallers, NEW i \in LspStarts,
           LspActs(calls, calls2, servers, servers2, c, i),
           LspNumbered(calls),
           calls[c].pc = "send_change", calls2[c].pc = "clear",
           calls2[c].since = calls[c].since, calls2[c].version = calls[c].version,
           servers2[i].document = servers[i].document, servers2[i].report = servers[i].report,
           servers2[i].sent = Append(servers[i].sent, [version |-> calls[c].version, text |-> calls[c].text])
    PROVE  LspGood(calls2, servers2)
<1>0. LspRest(calls, calls2, servers2, c, i)
  BY LspElsewhere
<1> USE DEF LspNumbered
<1>a. /\ \A j \in LspStarts : j # i => LspKept(calls2, servers2, j) /\ LspLatest(calls2, servers2, j)
      /\ \A d \in LspCallers : d # c => LspStepFits(calls2, servers2, d)
      /\ \A d \in LspCallers : d # c /\ calls[d].at = i => calls[d].pc \notin LspWorking
  BY <1>0 DEF LspRest
<1>b. LspKept(calls, servers, i)
  BY SMTT(60) DEF LspActs, LspGood
<1>1. /\ servers[i].document.version = calls[c].version /\ calls[c].version # 0
      /\ servers[i].document.stat = calls[c].stat /\ calls[c].stat # 0
      /\ calls[c].stat <= calls[c].text /\ calls[c].since <= calls[c].stat
  BY DEF LspActs, LspGood, LspStepFits, LspBefore, LspSending
<1>2. \A d \in LspCallers : LspIs(calls, d, i, LspPast) =>
          calls[d].version < calls[c].version /\ calls[d].since <= calls[c].stat
  <2> SUFFICES ASSUME NEW d \in LspCallers, LspIs(calls, d, i, LspPast)
               PROVE  calls[d].version < calls[c].version /\ calls[d].since <= calls[c].stat
    OBVIOUS
  <2>1. d # c /\ calls[c].pc \in LspWorking /\ calls[c].pc \in LspBefore
    BY DEF LspIs, LspPast, LspWorking, LspBefore, LspSending
  <2> QED
    BY <1>1, <2>1 DEF LspActs, LspGood, LspPairFits, LspIs
<1>3. ASSUME NEW d \in LspCallers PROVE LspStepFits(calls2, servers2, d)
  <2>1. CASE d = c
    BY <1>1, <2>1 DEF LspActs, LspStepFits, LspBefore, LspSending, LspPast
  <2> QED
    BY <1>a, <2>1, SMTT(60)
<1>4. ASSUME NEW d \in LspCallers, NEW e \in LspCallers PROVE LspPairFits(calls2, d, e)
  <2>a. LspPairFits(calls, d, e)
    BY SMTT(60) DEF LspActs, LspGood
  <2>1. CASE d = c /\ e # c
    <3>1. calls2[c].pc \notin LspBefore
      BY DEF LspBefore, LspSending
    <3> QED
      BY <1>a, <2>1, <3>1 DEF LspActs, LspMoved, LspPairFits
  <2>2. CASE d # c /\ e = c
    BY <1>a, <2>2 DEF LspActs, LspMoved, LspPairFits
  <2>3. CASE d # c /\ e # c
    BY <2>a, <2>3 DEF LspActs, LspMoved, LspPairFits
  <2>4. CASE d = e
    BY <2>4 DEF LspPairFits
  <2> QED
    BY <2>1, <2>2, <2>3, <2>4
<1>5. \A d \in LspCallers :
          /\ LspIs(calls2, d, i, LspPast) => LspIs(calls, d, i, LspPast) /\ calls2[d] = calls[d]
          /\ LspIs(calls2, d, i, {"store"}) => LspIs(calls, d, i, {"store"}) /\ calls2[d] = calls[d]
          /\ ~LspIs(calls2, d, i, {"record_open"}) /\ ~LspIs(calls, d, i, {"record_open"})
  BY <1>a DEF LspIs, LspActs, LspMoved, LspPast, LspWorking
<1>6. \A v, t : LspHeld(calls, servers, i, v, t) => LspHeld(calls2, servers2, i, v, t)
  BY <1>5 DEF LspHeld
<1> DEFINE new == [version |-> calls[c].version, text |-> calls[c].text]
<1>7. new \in LspReports /\ servers[i].sent \in Seq(LspReports)
  BY LspTexts DEF LspReports
<1>8. new.version = calls[c].version /\ new.text = calls[c].text /\ servers2[i].sent = Append(servers[i].sent, new)
  OBVIOUS
<1> HIDE DEF new
<1>9. LspHeld(calls2, servers2, i, new.version, new.text)
  <2>1. \A d \in LspCallers : LspIs(calls2, d, i, LspPast) => calls2[d].version # calls[c].version
    BY <1>2, <1>5, SMTT(60)
  <2> QED
    BY <1>1, <1>8, <2>1 DEF LspHeld
<1>10. LspKept(calls2, servers2, i)
  <2>1. ASSUME NEW k \in 1 .. Len(servers2[i].sent)
        PROVE  \/ k \in 1 .. Len(servers[i].sent) /\ servers2[i].sent[k] = servers[i].sent[k]
               \/ servers2[i].sent[k] = new
    BY <1>7, <1>8, SMTT(60)
  <2>2. ASSUME NEW k \in 1 .. Len(servers2[i].sent)
        PROVE  /\ servers2[i].sent[k].version # 0
               /\ LspHeld(calls2, servers2, i, servers2[i].sent[k].version, servers2[i].sent[k].text)
    BY <1>b, <1>1, <1>6, <1>8, <1>9, <2>1 DEF LspKept
  <2>3. LspHeld(calls2, servers2, i, servers2[i].report.version, servers2[i].report.text)
    BY <1>b, <1>6 DEF LspKept
  <2>4. ASSUME NEW d \in LspCallers, LspIs(calls2, d, i, {"store"})
        PROVE  LspHeld(calls2, servers2, i, calls2[d].version, calls2[d].text)
    BY <1>b, <1>5, <1>6, <2>4 DEF LspKept
  <2> QED
    BY <2>2, <2>3, <2>4 DEF LspKept
<1>11. LspLatest(calls2, servers2, i)
  <2>1. servers2[i].sent # <<>> /\ servers2[i].sent[Len(servers2[i].sent)] = new
    BY <1>7, <1>8, SMTT(60)
  <2>2. LspReaches(servers2[i], servers2[i].document.stat)
    BY <1>1, <1>8, <2>1 DEF LspReaches
  <2>3. ASSUME NEW d \in LspCallers, LspIs(calls2, d, i, LspPast)
        PROVE  LspReaches(servers2[i], calls2[d].since)
    <3>1. calls2[d].since = calls[d].since /\ calls[d].since <= calls[c].stat
      BY <1>2, <1>5, <2>3
    <3> QED
      BY <1>1, <1>8, <2>1, <3>1, SMTT(60) DEF LspReaches
  <2> QED
    BY <1>5, <2>2, <2>3 DEF LspLatest
<1> QED
  BY <1>3, <1>4, <1>10, <1>11, <1>a DEF LspGood

(* A call that has or uses a document's server.                                   *)
LspServed == {"stat"} \cup LspWorking \cup LspPast
LspDocHere == LspShape /\ LspShape' /\ LspOnceInv /\ LspDocInv

(* Calls that are well formed know where they are, and count in numbers.          *)
LEMMA LspWellFormed ==
    ASSUME NEW calls \in [LspCallers -> LspCallRecords],
           \A c \in LspCallers : LspCallFits(calls[c])
    PROVE  LspSound(calls) /\ LspNumbered(calls)
<1>1. LspUsed \subseteq LspPlaced
  BY DEF LspUsed, LspPast, LspPlaced, LspWorking
<1>2. LspSound(calls)
  BY <1>1 DEF LspSound, LspCallFits
<1>3. LspNumbered(calls)
  <2>1. \A c \in LspCallers : calls[c] \in LspCallRecords
    OBVIOUS
  <2> QED
    BY <2>1 DEF LspNumbered, LspCallRecords
<1> QED
  BY <1>2, <1>3

(* What the steps start from.                                                     *)
LEMMA LspNowHere ==
    ASSUME LspDocHere
    PROVE  /\ lspCall \in [LspCallers -> LspCallRecords] /\ lspCall' \in [LspCallers -> LspCallRecords]
           /\ lspServer \in [LspStarts -> LspServers] /\ lspServer' \in [LspStarts -> LspServers]
           /\ LspSound(lspCall) /\ LspNumbered(lspCall) /\ LspSound(lspCall') /\ LspNumbered(lspCall')
           /\ lspFile.text \in Nat /\ lspFile'.text \in Nat
           /\ LspNoneNewer(lspCall, lspServer, lspFile.text) /\ LspUnstarted
           /\ lspAlone => LspGood(lspCall, lspServer)
<1>1. /\ lspCall \in [LspCallers -> LspCallRecords] /\ \A c \in LspCallers : LspCallFits(lspCall[c])
      /\ lspCall' \in [LspCallers -> LspCallRecords] /\ \A c \in LspCallers : LspCallFits(lspCall'[c])
  BY DEF LspDocHere, LspShape, LspCallShape
<1>2. LspSound(lspCall) /\ LspNumbered(lspCall)
  BY <1>1, LspWellFormed
<1>3. LspSound(lspCall') /\ LspNumbered(lspCall')
  BY <1>1, LspWellFormed
<1>4. lspFile.text \in Nat /\ lspFile'.text \in Nat
  BY LspAssumption DEF LspDocHere, LspShape, LspFileShape
<1>5. lspServer \in [LspStarts -> LspServers] /\ lspServer' \in [LspStarts -> LspServers]
  BY DEF LspDocHere, LspShape, LspServerShape
<1> QED
  BY <1>1, <1>2, <1>3, <1>4, <1>5 DEF LspDocHere, LspDocInv

(* A call that works on its server's document, and leaves or goes on.             *)
LspServes(c, i) ==
    /\ lspCall[c].at = i /\ lspCall[c].pc \in LspServed
    /\ LspMoved(lspCall, lspCall', c) /\ LspChanged(lspServer, lspServer', i)
    /\ lspCall'[c].pc \in LspServed \cup {"idle"}
    /\ lspCall'[c].pc \in LspServed => lspCall'[c].at = i
    /\ lspServer[i].proc # "none" => lspServer'[i].proc # "none"
    /\ UNCHANGED <<lspFile, lspManager, lspOnce>>

LEMMA LspUnstartedServes ==
    ASSUME LspDocHere, NEW c \in LspCallers, NEW i \in LspStarts, LspServes(c, i)
    PROVE  LspUnstarted'
<1>0. LspUnstarted
  BY LspNowHere
<1>1. lspServer[i].proc # "none"
  BY <1>0 DEF LspUnstarted, LspServes, LspServed, LspIs
<1>2. \A j \in LspStarts : lspServer'[j].proc = "none" => j # i /\ lspServer'[j] = lspServer[j]
  BY <1>1 DEF LspServes, LspChanged
<1>3. \A d \in LspCallers : d # c => lspCall'[d] = lspCall[d]
  BY DEF LspServes, LspMoved
<1>4. ASSUME NEW j \in LspStarts, lspServer'[j].proc = "none"
      PROVE  /\ lspServer'[j].document.version = 0 /\ lspManager'.server # j
             /\ \A d \in LspCallers : ~LspIs(lspCall', d, j, LspServed)
  <2>1. \A d \in LspCallers : LspIs(lspCall', d, j, LspServed) => LspIs(lspCall, d, j, LspServed)
    BY <1>2, <1>3, <1>4 DEF LspServes, LspIs
  <2> QED
    BY <1>0, <1>2, <1>4, <2>1 DEF LspUnstarted, LspServes, LspServed
<1>5. ASSUME NEW j \in LspStarts, lspOnce'[j] \in {"unused", "fresh"} PROVE lspServer'[j].proc = "none"
  BY <1>0, <1>1, <1>5 DEF LspUnstarted, LspServes, LspChanged
<1>6. ASSUME NEW d \in LspCallers, NEW j \in LspStarts, lspCall'[d].pc = "start", lspCall'[d].at = j
      PROVE  lspServer'[j].proc = "none"
  <2>1. d # c
    BY <1>6 DEF LspServes, LspServed, LspWorking, LspPast
  <2>2. lspCall[d].pc = "start" /\ lspCall[d].at = j
    BY <1>3, <1>6, <2>1
  <2>3. lspServer[j].proc = "none"
    BY <1>0, <2>2 DEF LspUnstarted, LspStarting, LspAt
  <2> QED
    BY <1>1, <2>3 DEF LspServes, LspChanged
<1> QED
  BY <1>4, <1>5, <1>6 DEF LspUnstarted, LspStarting, LspAt, LspServed

(* Nothing becomes newer than the file.                                           *)
LspCallIsOld(call, text) == call.since <= text /\ call.text <= text /\ call.stat <= text
LspServerIsOld(server, text) ==
    server.document.stat <= text /\ \A k \in 1 .. Len(server.sent) : server.sent[k].text <= text

LEMMA LspNewest ==
    ASSUME NEW calls, NEW calls2, NEW servers, NEW servers2, NEW text \in Nat,
           NEW c \in LspCallers, NEW i, LspNoneNewer(calls, servers, text),
           LspMoved(calls, calls2, c), LspChanged(servers, servers2, i),
           LspCallIsOld(calls2[c], text), i \in LspStarts => LspServerIsOld(servers2[i], text)
    PROVE  LspNoneNewer(calls2, servers2, text)
<1>1. ASSUME NEW d \in LspCallers PROVE LspCallIsOld(calls2[d], text)
  BY DEF LspNoneNewer, LspMoved, LspCallIsOld
<1>2. ASSUME NEW j \in LspStarts PROVE LspServerIsOld(servers2[j], text)
  BY DEF LspNoneNewer, LspChanged, LspServerIsOld
<1> QED
  BY <1>1, <1>2 DEF LspNoneNewer, LspCallIsOld, LspServerIsOld

LEMMA LspOlder ==
    ASSUME NEW calls, NEW servers, NEW text, LspNoneNewer(calls, servers, text)
    PROVE  /\ \A c \in LspCallers : LspCallIsOld(calls[c], text)
           /\ \A i \in LspStarts : LspServerIsOld(servers[i], text)
  BY DEF LspNoneNewer, LspCallIsOld, LspServerIsOld

LEMMA LspIdleIsOld == \A text \in Nat : LspCallIsOld(LspIdle, text)
  BY DEF LspCallIsOld, LspIdle
------------------------------------------------------------------------------
(* Step by step: the calls that end, wait or read.                                *)
LEMMA LspCallOlds ==
    ASSUME LspDocHere, NEW c \in LspCallers
    PROVE  /\ LspCallIsOld(lspCall[c], lspFile.text) /\ lspCall[c] \in LspCallRecords
           /\ lspCall[c].since \in Nat /\ lspCall[c].stat \in Nat
           /\ lspCall[c].text \in Nat /\ lspCall[c].version \in Nat
           /\ lspCall[c].at \in LspStarts => LspServerIsOld(lspServer[lspCall[c].at], lspFile.text)
<1>1. LspNoneNewer(lspCall, lspServer, lspFile.text) /\ LspNumbered(lspCall)
  BY LspNowHere
<1>2. lspCall[c] \in LspCallRecords
  BY LspNowHere
<1> QED
  BY <1>1, <1>2, LspOlder DEF LspNumbered

(* A call that ends, or goes on to where it knows nothing of a document.          *)
LEMMA LspDocEnds ==
    ASSUME LspDocHere, NEW c \in LspCallers, LspEnds(c), lspCall[c].pc \in LspUsed,
           lspCall[c].pc # "record_open",
           lspCall[c].pc = "send_change" => lspServer[lspCall[c].at].proc # "up",
           lspServer' = lspServer, lspAlone' => lspAlone,
           UNCHANGED <<lspFile, lspManager, lspOnce>>
    PROVE  LspDocInv'
<1>1. lspCall'[c] = LspIdle /\ LspMoved(lspCall, lspCall', c)
  BY LspCallEnds DEF LspDocHere, LspMoved
<1>2. lspCall[c].at \in LspStarts /\ LspSound(lspCall)
  BY LspNowHere DEF LspSound
<1>3. lspCall'[c].pc = "idle" /\ "idle" \notin LspUsed
  <2>1. LspIdle.pc = "idle"
    BY DEF LspIdle
  <2>2. "idle" \notin LspUsed
    BY DEF LspUsed, LspPast, LspWorking
  <2> QED
    BY <1>1, <2>1, <2>2
<1>4. LspUnstarted'
  <2>1. LspServes(c, lspCall[c].at)
    BY <1>1, <1>3 DEF LspServes, LspServed, LspUsed, LspChanged
  <2> QED
    BY <1>2, <2>1, LspUnstartedServes
<1>5. LspNoneNewer(lspCall', lspServer', lspFile'.text)
  <2>1. LspNoneNewer(lspCall, lspServer, lspFile.text) /\ lspFile.text \in Nat /\ lspFile' = lspFile
    BY LspNowHere
  <2>2. LspCallIsOld(lspCall'[c], lspFile.text)
    BY <1>1, <2>1, LspIdleIsOld
  <2>3. LspServerIsOld(lspServer'[lspCall[c].at], lspFile.text)
    BY <1>2, LspCallOlds
  <2>4. LspChanged(lspServer, lspServer', lspCall[c].at)
    BY DEF LspChanged
  <2> QED
    BY <1>1, <2>1, <2>2, <2>3, <2>4, LspNewest
<1>6. lspAlone' => LspGood(lspCall', lspServer')
  <2> SUFFICES ASSUME lspAlone' PROVE LspGood(lspCall', lspServer')
    OBVIOUS
  <2>1. LspGood(lspCall, lspServer)
    BY LspNowHere
  <2>2. LspGood(lspCall', lspServer)
    BY <1>1, <1>3, <2>1, LspLeaves
  <2> QED
    BY <2>2
<1> QED
  BY <1>4, <1>5, <1>6 DEF LspDocInv

LEMMA LspDocAnswered == ASSUME LspDocHere, NEW c \in LspCallers, LspAnswered(c) PROVE LspDocInv'
  BY LspDocEnds DEF LspAnswered, LspAt, LspUsed, LspPast

LEMMA LspDocReport == ASSUME LspDocHere, NEW c \in LspCallers, LspReport(c) PROVE LspDocInv'
  BY LspDocEnds DEF LspReport, LspUsed, LspPast

LEMMA LspDocSettles == ASSUME LspDocHere, NEW c \in LspCallers, LspSettles(c) PROVE LspDocInv'
  BY LspDocEnds DEF LspSettles, LspAt, LspUsed, LspPast

(* A call that works or waits, at a server that may change.                       *)
LEMMA LspDocWorks ==
    ASSUME LspDocHere, NEW c \in LspCallers, NEW i \in LspStarts, LspServes(c, i),
           LspCallIsOld(lspCall'[c], lspFile.text), LspServerIsOld(lspServer'[i], lspFile.text),
           lspAlone' => lspAlone,
           lspAlone' /\ LspGood(lspCall, lspServer) => LspGood(lspCall', lspServer')
    PROVE  LspDocInv'
<1>1. LspUnstarted'
  BY LspUnstartedServes
<1>2. LspNoneNewer(lspCall', lspServer', lspFile'.text)
  <2>1. LspNoneNewer(lspCall, lspServer, lspFile.text) /\ lspFile.text \in Nat
    BY LspNowHere
  <2> QED
    BY <2>1, LspNewest DEF LspServes
<1>3. lspAlone' => LspGood(lspCall', lspServer')
  BY LspNowHere
<1> QED
  BY <1>1, <1>2, <1>3 DEF LspDocInv

LEMMA LspDocStat == ASSUME LspDocHere, NEW c \in LspCallers, LspStat(c) PROVE LspDocInv'
<1>0. lspCall[c].pc = "stat" /\ lspCall[c].at \in LspStarts
  BY LspCallNow DEF LspStat, LspAt, LspDocHere, LspPlaced
<1>1. PICK i \in LspStarts : i = lspCall[c].at
  BY <1>0
<1>2. PICK stat : stat = IF lspFile.exists THEN lspFile.text ELSE 0
  OBVIOUS
<1>3. stat \in Nat /\ stat <= lspFile.text /\ (stat # 0 => stat = lspFile.text)
  BY <1>2, LspNowHere
<1>4. lspCall' = [lspCall EXCEPT ![c].pc = "check", ![c].news = FALSE, ![c].stat = stat]
  BY <1>2 DEF LspStat
<1>5. /\ lspCall'[c].pc = "check" /\ lspCall'[c].at = i /\ lspCall'[c].since = lspCall[c].since
      /\ lspCall'[c].stat = stat /\ lspCall'[c].text = lspCall[c].text
      /\ LspMoved(lspCall, lspCall', c)
  BY <1>1, <1>4, LspNowHere DEF LspCallRecords, LspMoved
<1>6. lspServer' = lspServer /\ UNCHANGED <<lspFile, lspManager, lspOnce>> /\ (lspAlone' => lspAlone)
  BY DEF LspStat, LspAloneAt
<1>7. LspServes(c, i)
  BY <1>0, <1>1, <1>5, <1>6 DEF LspServes, LspServed, LspWorking, LspChanged
<1>8. LspCallIsOld(lspCall'[c], lspFile.text) /\ LspServerIsOld(lspServer'[i], lspFile.text)
  BY <1>1, <1>3, <1>5, <1>6, LspCallOlds DEF LspCallIsOld
<1>9. ASSUME lspAlone', LspGood(lspCall, lspServer) PROVE LspGood(lspCall', lspServer')
  <2>1. \A d \in LspCallers : d # c /\ lspCall[d].at = i => lspCall[d].pc \notin LspWorking
    BY <1>1, <1>9 DEF LspStat, LspAloneAt
  <2>2. lspCall'[c].stat # 0 => \A d \in LspCallers : lspCall[d].since <= lspCall'[c].stat
    BY <1>3, <1>5, LspCallOlds DEF LspCallIsOld
  <2>3. "stat" \notin LspUsed
    BY DEF LspUsed, LspPast, LspWorking
  <2>4. LspGood(lspCall', lspServer)
    BY <1>0, <1>5, <1>9, <2>1, <2>2, <2>3, LspStats
  <2> QED
    BY <1>6, <2>4
<1> QED
  BY <1>6, <1>7, <1>8, <1>9, LspDocWorks DEF LspStat, LspAloneAt
(* The document is in sync, or the call reads the file for it.                    *)
LEMMA LspDocCheck == ASSUME LspDocHere, NEW c \in LspCallers, LspCheck(c) PROVE LspDocInv'
<1>0. lspCall[c].pc = "check" /\ lspCall[c].at \in LspStarts
  BY LspCallNow DEF LspCheck, LspDocHere, LspPlaced, LspWorking
<1>1. PICK i \in LspStarts : i = lspCall[c].at
  BY <1>0
<1>2. /\ lspServer' = lspServer /\ UNCHANGED <<lspFile, lspManager, lspOnce>> /\ lspAlone' = lspAlone
      /\ LspServerIsOld(lspServer'[i], lspFile.text)
  BY <1>1, LspCallOlds DEF LspCheck
<1>a. lspCall[c] \in LspCallRecords
  BY LspCallOlds
<1>3. CASE LspEnds(c)
  BY <1>0, <1>2, <1>3, LspDocEnds DEF LspUsed, LspWorking
<1>4. CASE /\ StillCurrent(lspCall[c], lspServer[i].document)
           /\ lspCall' = [lspCall EXCEPT ![c].pc = "diagnose", ![c].stat = 0,
                                         ![c].version = lspServer[i].document.version]
  <2>1. /\ lspCall'[c].pc = "diagnose" /\ lspCall'[c].at = i /\ lspCall'[c].since = lspCall[c].since
        /\ lspCall'[c].stat = 0 /\ lspCall'[c].text = lspCall[c].text
        /\ lspCall'[c].version = lspServer[i].document.version
        /\ LspMoved(lspCall, lspCall', c)
    BY <1>1, <1>4, <1>a, LspNowHere, ZenonT(60) DEF LspCallRecords, LspMoved
  <2>2. LspServes(c, i)
    BY <1>0, <1>1, <1>2, <2>1 DEF LspServes, LspServed, LspWorking, LspPast, LspChanged
  <2>3. LspCallIsOld(lspCall'[c], lspFile.text)
    BY <2>1, LspCallOlds, LspNowHere DEF LspCallIsOld
  <2>4. ASSUME LspGood(lspCall, lspServer) PROVE LspGood(lspCall', lspServer')
    <3>1. LspStepFits(lspCall, lspServer, c)
      BY <2>4 DEF LspGood
    <3>2. lspCall[c].since <= lspServer[i].document.stat
      BY <1>0, <1>1, <1>4, <3>1 DEF LspStepFits, LspBefore, StillCurrent
    <3>3. lspServer[i].document.version # 0
      BY <1>4 DEF StillCurrent
    <3>4. lspServer \in [LspStarts -> LspServers] /\ \A d \in LspCallers : lspCall[d].text \in Nat
      BY LspNowHere, LspCallOlds
    <3>5. lspCall'[c].since \in Nat /\ lspCall'[c].since <= lspServer[i].document.stat
      BY <2>1, <3>2, LspCallOlds
    <3>6. LspGood(lspCall', lspServer)
      BY <1>0, <1>1, <2>1, <2>4, <3>3, <3>4, <3>5, LspPasses, SMTT(60)
    <3> QED
      BY <1>2, <3>6
  <2> QED
    BY <1>2, <2>2, <2>3, <2>4, LspDocWorks, SMTT(60)
<1>5. CASE /\ lspCall[c].stat # 0
           /\ lspCall' = [lspCall EXCEPT ![c].pc = "read", ![c].known = lspServer[i].document]
  <2>1. /\ lspCall'[c].pc = "read" /\ lspCall'[c].at = i /\ lspCall'[c].since = lspCall[c].since
        /\ lspCall'[c].stat = lspCall[c].stat /\ lspCall'[c].text = lspCall[c].text
        /\ lspCall'[c].known = lspServer[i].document
        /\ LspMoved(lspCall, lspCall', c)
    BY <1>1, <1>5, <1>a, LspNowHere, ZenonT(60) DEF LspCallRecords, LspMoved
  <2>2. LspServes(c, i)
    BY <1>0, <1>1, <1>2, <2>1 DEF LspServes, LspServed, LspWorking, LspPast, LspChanged
  <2>3. LspCallIsOld(lspCall'[c], lspFile.text)
    BY <2>1, LspCallOlds DEF LspCallIsOld
  <2>4. ASSUME LspGood(lspCall, lspServer) PROVE LspGood(lspCall', lspServer')
    <3>1. LspStepFits(lspCall, lspServer, c)
      BY <2>4 DEF LspGood
    <3>2. lspCall[c].since <= lspCall[c].stat
      BY <1>0, <1>5, <3>1, SMTT(60) DEF LspStepFits, LspBefore
    <3>3. LspStepFits(lspCall', lspServer, c)
      BY <1>5, <2>1, <3>2 DEF LspStepFits, LspBefore, LspSending, LspPast
    <3>4. LspGood(lspCall', lspServer)
      BY <1>0, <1>1, <2>1, <2>4, <3>3, LspGoesOn
    <3> QED
      BY <1>2, <3>4
  <2> QED
    BY <1>2, <2>2, <2>3, <2>4, LspDocWorks
<1> QED
  BY <1>1, <1>3, <1>4, <1>5 DEF LspCheck

LEMMA LspDocRead == ASSUME LspDocHere, NEW c \in LspCallers, LspRead(c) PROVE LspDocInv'
<1>0. lspCall[c].pc = "read" /\ lspCall[c].at \in LspStarts
  BY LspCallNow DEF LspRead, LspAt, LspDocHere, LspPlaced, LspWorking
<1>1. PICK i \in LspStarts : i = lspCall[c].at
  BY <1>0
<1>2. /\ lspServer' = lspServer /\ UNCHANGED <<lspFile, lspManager, lspOnce>> /\ lspAlone' = lspAlone
      /\ LspServerIsOld(lspServer'[i], lspFile.text)
  BY <1>1, LspCallOlds DEF LspRead
<1>a. lspCall[c] \in LspCallRecords
  BY LspCallOlds
<1>3. CASE LspEnds(c)
  BY <1>0, <1>2, <1>3, LspDocEnds DEF LspUsed, LspWorking
<1>4. CASE ~LspEnds(c)
  <2>0. PICK pc : /\ pc = IF lspCall[c].known.version = 0 THEN "send_open" ELSE "record_change"
                  /\ lspCall' = [lspCall EXCEPT ![c].text = lspFile.text, ![c].known = NoDocument,
                                     ![c].version = lspCall[c].known.version + 1, ![c].pc = pc]
    BY <1>4, SMTT(60) DEF LspRead
  <2>1. /\ lspCall'[c].pc = pc /\ lspCall'[c].at = i /\ lspCall'[c].since = lspCall[c].since
        /\ lspCall'[c].stat = lspCall[c].stat /\ lspCall'[c].text = lspFile.text
        /\ lspCall'[c].version = lspCall[c].known.version + 1
        /\ LspMoved(lspCall, lspCall', c)
    BY <1>1, <1>a, <2>0, LspNowHere, ZenonT(60) DEF LspCallRecords, LspMoved
  <2>2. LspServes(c, i)
    BY <1>0, <1>1, <1>2, <2>0, <2>1 DEF LspServes, LspServed, LspWorking, LspPast, LspChanged
  <2>3. LspCallIsOld(lspCall'[c], lspFile.text)
    BY <2>1, LspCallOlds, LspNowHere DEF LspCallIsOld
  <2>4. ASSUME LspGood(lspCall, lspServer) PROVE LspGood(lspCall', lspServer')
    <3>1. LspStepFits(lspCall, lspServer, c)
      BY <2>4 DEF LspGood
    <3>2. /\ lspCall[c].stat # 0 /\ lspCall[c].since <= lspCall[c].stat
          /\ lspCall[c].known = lspServer[i].document
      BY <1>0, <1>1, <3>1 DEF LspStepFits, LspBefore
    <3>3. LspStepFits(lspCall', lspServer, c)
      <4>1. lspCall'[c].stat <= lspCall'[c].text /\ lspCall'[c].stat # 0
        BY <2>1, <3>2, LspCallOlds DEF LspCallIsOld
      <4>2. CASE lspCall[c].known.version = 0
        <5>1. lspCall'[c].pc = "send_open" /\ lspServer[i].document.version = 0 /\ lspCall'[c].version = 1
          BY <2>0, <2>1, <3>2, <4>2
        <5> QED
          BY <2>1, <3>2, <4>1, <5>1 DEF LspStepFits, LspBefore, LspSending, LspPast
      <4>3. CASE lspCall[c].known.version # 0
        <5>1. /\ lspCall'[c].pc = "record_change" /\ lspServer[i].document.version # 0
              /\ lspCall'[c].version = lspServer[i].document.version + 1
          BY <2>0, <2>1, <3>2, <4>3, SMTT(60)
        <5> QED
          BY <2>1, <3>2, <4>1, <5>1, SMTT(60) DEF LspStepFits, LspBefore, LspSending, LspPast
      <4> QED
        BY <4>2, <4>3
    <3>4. LspGood(lspCall', lspServer)
      BY <1>0, <1>1, <2>0, <2>1, <2>4, <3>3, LspGoesOn
    <3> QED
      BY <1>2, <3>4
  <2> QED
    BY <1>2, <2>2, <2>3, <2>4, LspDocWorks
<1> QED
  BY <1>3, <1>4
(* The text is sent, before or after it is recorded.                              *)
LEMMA LspServerFields ==
    ASSUME LspDocHere, NEW i \in LspStarts
    PROVE  /\ lspServer[i] \in LspServers /\ lspServer[i].sent \in Seq(LspReports)
           /\ lspServer[i].document.version \in Nat /\ lspServer[i].document.stat \in Nat
           /\ lspServer[i].report.version \in Nat /\ lspServer[i].report.text \in Nat
           /\ LspServerIsOld(lspServer[i], lspFile.text)
<1>1. lspServer \in [LspStarts -> LspServers]
  BY LspNowHere
<1>2. LspNoneNewer(lspCall, lspServer, lspFile.text)
  BY LspNowHere
<1> QED
  BY <1>1, <1>2, LspTexts, LspOlder

(* The pipe after one more text.                                                  *)
LEMMA LspOneMore ==
    ASSUME NEW sent \in Seq(LspReports), NEW version, NEW more \in Nat, NEW text \in Nat, more <= text,
           \A k \in 1 .. Len(sent) : sent[k].text <= text
    PROVE  LET sent2 == Append(sent, [version |-> version, text |-> more])
           IN  \A k \in 1 .. Len(sent2) : sent2[k].text <= text
  OBVIOUS

(* What moves with a call that goes on.                                           *)
LEMMA LspGoDoes ==
    ASSUME LspDocHere, NEW c \in LspCallers, NEW pc, LspGo(c, pc)
    PROVE  /\ lspCall'[c].pc = pc /\ lspCall'[c].at = lspCall[c].at
           /\ lspCall'[c].since = lspCall[c].since /\ lspCall'[c].stat = lspCall[c].stat
           /\ lspCall'[c].text = lspCall[c].text /\ lspCall'[c].version = lspCall[c].version
           /\ lspCall'[c].news = lspCall[c].news
           /\ LspMoved(lspCall, lspCall', c)
<1>1. lspCall[c] \in LspCallRecords
  BY LspCallOlds
<1> QED
  BY <1>1, LspNowHere DEF LspCallRecords, LspMoved, LspGo

LEMMA LspSyncedDoes ==
    ASSUME LspDocHere, NEW c \in LspCallers, LspSynced(c)
    PROVE  /\ lspCall'[c].pc = "clear" /\ lspCall'[c].at = lspCall[c].at
           /\ lspCall'[c].since = lspCall[c].since /\ lspCall'[c].stat = 0
           /\ lspCall'[c].text = 0 /\ lspCall'[c].version = lspCall[c].version
           /\ lspCall'[c].news = lspCall[c].news
           /\ LspMoved(lspCall, lspCall', c)
<1>1. lspCall[c] \in LspCallRecords
  BY LspCallOlds
<1> QED
  BY <1>1, LspNowHere, ZenonT(60) DEF LspCallRecords, LspMoved, LspSynced

LEMMA LspEndsDoes ==
    ASSUME LspDocHere, NEW c \in LspCallers, LspEnds(c)
    PROVE  /\ lspCall'[c].pc = "idle" /\ LspMoved(lspCall, lspCall', c)
           /\ LspCallIsOld(lspCall'[c], lspFile.text) /\ "idle" \notin LspUsed \cup LspServed
<1>1. LspIdle.pc = "idle"
  BY DEF LspIdle
<1>2. lspCall'[c] = LspIdle /\ LspMoved(lspCall, lspCall', c)
  BY LspCallEnds DEF LspMoved, LspDocHere
<1>3. LspCallIsOld(LspIdle, lspFile.text)
  BY LspIdleIsOld, LspNowHere
<1>4. "idle" \notin LspUsed \cup LspServed
  BY DEF LspUsed, LspServed, LspPast, LspWorking
<1> QED
  BY <1>1, <1>2, <1>3, <1>4

LEMMA LspDocSend == ASSUME LspDocHere, NEW c \in LspCallers, LspSend(c) PROVE LspDocInv'
<1>0. lspCall[c].pc \in {"send_open", "send_change"} /\ lspCall[c].at \in LspStarts
  BY LspCallNow DEF LspSend, LspDocHere, LspPlaced, LspWorking
<1>1. PICK i \in LspStarts : i = lspCall[c].at
  BY <1>0
<1>2. UNCHANGED <<lspFile, lspManager, lspOnce>> /\ lspAlone' = lspAlone
  BY DEF LspSend
<1>3. CASE ~LspUp(i)
  <2>1. lspCall[c].pc \in LspUsed /\ lspCall[c].pc # "record_open" /\ lspServer[lspCall[c].at].proc # "up"
    BY <1>0, <1>1, <1>3 DEF LspUp, LspUsed, LspWorking
  <2>2. LspEnds(c) /\ lspServer' = lspServer
    BY <1>1, <1>3 DEF LspSend
  <2> QED
    BY <1>2, <2>1, <2>2, LspDocEnds
<1>4. CASE LspUp(i)
  <2>0. /\ lspServer' = [lspServer EXCEPT ![i].sent =
                   Append(@, [version |-> lspCall[c].version, text |-> lspCall[c].text])]
        /\ IF lspCall[c].pc = "send_open" THEN LspGo(c, "record_open") ELSE LspSynced(c)
    BY <1>1, <1>4 DEF LspSend
  <2>1. /\ lspServer'[i].document = lspServer[i].document /\ lspServer'[i].report = lspServer[i].report
        /\ lspServer'[i].sent = Append(lspServer[i].sent,
               [version |-> lspCall[c].version, text |-> lspCall[c].text])
        /\ lspServer'[i].proc = lspServer[i].proc
        /\ LspChanged(lspServer, lspServer', i)
    BY <2>0, LspServerFields, LspNowHere DEF LspServers, LspChanged
  <2>2. /\ lspCall'[c].at = i /\ lspCall'[c].since = lspCall[c].since
        /\ lspCall'[c].version = lspCall[c].version
        /\ LspMoved(lspCall, lspCall', c)
    BY <1>1, <2>0, LspGoDoes, LspSyncedDoes
  <2>3. lspCall[c].pc = "send_open" =>
           /\ lspCall'[c].pc = "record_open" /\ lspCall'[c].stat = lspCall[c].stat
           /\ lspCall'[c].text = lspCall[c].text
    BY <2>0, LspGoDoes
  <2>4. lspCall[c].pc = "send_change" =>
           lspCall'[c].pc = "clear" /\ lspCall'[c].stat = 0 /\ lspCall'[c].text = 0
    BY <1>0, <2>0, LspSyncedDoes, SMTT(60)
  <2>5. LspServes(c, i)
    BY <1>0, <1>1, <1>2, <2>1, <2>2, <2>3, <2>4 DEF LspServes, LspServed, LspWorking
  <2>6. LspCallIsOld(lspCall'[c], lspFile.text)
    BY <1>0, <2>2, <2>3, <2>4, LspCallOlds, LspNowHere, SMTT(60) DEF LspCallIsOld
  <2>7. LspServerIsOld(lspServer'[i], lspFile.text)
    BY <2>1, LspServerFields, LspCallOlds, LspNowHere, LspOneMore, SMTT(60) DEF LspServerIsOld, LspCallIsOld
  <2>8. ASSUME LspGood(lspCall, lspServer) PROVE LspGood(lspCall', lspServer')
    <3>1. /\ lspServer \in [LspStarts -> LspServers] /\ lspServer' \in [LspStarts -> LspServers]
          /\ LspNumbered(lspCall) /\ LspSound(lspCall)
      BY LspNowHere
    <3>2. LspActs(lspCall, lspCall', lspServer, lspServer', c, i)
      BY <1>0, <1>1, <2>1, <2>2, <2>3, <2>4, <2>8, <3>1, LspServerFields, SMTT(60) DEF LspActs, LspWorking
    <3>3. CASE lspCall[c].pc = "send_open"
      BY <2>1, <2>2, <2>3, <3>1, <3>2, <3>3, LspSendsOpen
    <3>4. CASE lspCall[c].pc = "send_change"
      BY <2>1, <2>2, <2>4, <3>1, <3>2, <3>4, LspSendsChange
    <3> QED
      BY <1>0, <3>3, <3>4
  <2> QED
    BY <1>2, <2>5, <2>6, <2>7, <2>8, LspDocWorks
<1> QED
  BY <1>3, <1>4

LEMMA LspDocRecord == ASSUME LspDocHere, NEW c \in LspCallers, LspRecord(c) PROVE LspDocInv'
<1>0. lspCall[c].pc \in {"record_open", "record_change"} /\ lspCall[c].at \in LspStarts
  BY LspCallNow DEF LspRecord, LspDocHere, LspPlaced, LspWorking
<1>1. PICK i \in LspStarts : i = lspCall[c].at
  BY <1>0
<1>2. UNCHANGED <<lspFile, lspManager, lspOnce>> /\ lspAlone' = lspAlone
  BY DEF LspRecord
<1>b. /\ lspServer' = [lspServer EXCEPT ![i].document =
                           [version |-> lspCall[c].version, stat |-> lspCall[c].stat]]
      /\ IF lspCall[c].pc = "record_open" THEN LspSynced(c) ELSE LspGo(c, "send_change")
  BY <1>1 DEF LspRecord, StatOnRecord
<1>3. /\ lspServer'[i].document.version = lspCall[c].version
      /\ lspServer'[i].document.stat = lspCall[c].stat
      /\ lspServer'[i].report = lspServer[i].report
      /\ lspServer'[i].sent = lspServer[i].sent
      /\ lspServer'[i].proc = lspServer[i].proc
      /\ LspChanged(lspServer, lspServer', i)
  BY <1>b, LspServerFields, LspNowHere DEF LspServers, LspChanged
<1>4. /\ lspCall'[c].at = i /\ lspCall'[c].since = lspCall[c].since
      /\ lspCall'[c].version = lspCall[c].version
      /\ LspMoved(lspCall, lspCall', c)
  BY <1>1, <1>b, LspGoDoes, LspSyncedDoes
<1>5. lspCall[c].pc = "record_change" =>
         /\ lspCall'[c].pc = "send_change" /\ lspCall'[c].stat = lspCall[c].stat
         /\ lspCall'[c].text = lspCall[c].text
  BY <1>b, LspGoDoes
<1>6. lspCall[c].pc = "record_open" =>
         lspCall'[c].pc = "clear" /\ lspCall'[c].stat = 0 /\ lspCall'[c].text = 0
  BY <1>b, LspSyncedDoes
<1>7. LspServes(c, i)
  BY <1>0, <1>1, <1>2, <1>3, <1>4, <1>5, <1>6 DEF LspServes, LspServed, LspWorking
<1>8. LspCallIsOld(lspCall'[c], lspFile.text)
  BY <1>0, <1>4, <1>5, <1>6, LspCallOlds, LspNowHere DEF LspCallIsOld
<1>9. LspServerIsOld(lspServer'[i], lspFile.text)
  BY <1>3, LspServerFields, LspCallOlds DEF LspServerIsOld, LspCallIsOld
<1>10. ASSUME LspGood(lspCall, lspServer) PROVE LspGood(lspCall', lspServer')
  <2>1. /\ lspServer \in [LspStarts -> LspServers] /\ lspServer' \in [LspStarts -> LspServers]
        /\ LspNumbered(lspCall) /\ LspSound(lspCall)
    BY LspNowHere
  <2>a. LspStepFits(lspCall, lspServer, c)
    BY <1>10 DEF LspGood
  <2>b. /\ lspServer[i].document.version <= lspServer'[i].document.version
    BY <1>0, <1>1, <1>3, <2>a, LspServerFields, LspCallOlds DEF LspStepFits
  <2>2. LspActs(lspCall, lspCall', lspServer, lspServer', c, i)
    BY <1>0, <1>1, <1>3, <1>4, <1>5, <1>6, <1>10, <2>1, <2>b DEF LspActs, LspWorking
  <2>3. CASE lspCall[c].pc = "record_open"
    BY <1>3, <1>4, <1>6, <2>1, <2>2, <2>3, LspRecordsOpen
  <2>4. CASE lspCall[c].pc = "record_change"
    BY <1>3, <1>4, <1>5, <2>1, <2>2, <2>4, LspRecordsChange
  <2> QED
    BY <1>0, <2>3, <2>4, SMTT(60)
<1> QED
  BY <1>2, <1>7, <1>8, <1>9, <1>10, LspDocWorks
(* The diagnostics: cleared, pulled, waited for and stored.                       *)
LEMMA LspHeldVoid == \A calls, servers, i, text : LspHeld(calls, servers, i, 0, text)
  BY DEF LspHeld

LEMMA LspDocClear == ASSUME LspDocHere, NEW c \in LspCallers, LspClear(c) PROVE LspDocInv'
<1>0. lspCall[c].pc = "clear" /\ lspCall[c].at \in LspStarts
  BY LspCallNow DEF LspClear, LspAt, LspDocHere, LspPlaced, LspWorking
<1>1. PICK i \in LspStarts : i = lspCall[c].at
  BY <1>0
<1>2. UNCHANGED <<lspFile, lspManager, lspOnce>> /\ lspAlone' = lspAlone
  BY DEF LspClear
<1>3. lspServer' = [lspServer EXCEPT ![i].report = NoReport]
  BY <1>1 DEF LspClear
<1>4. /\ lspServer'[i].document = lspServer[i].document
      /\ lspServer'[i].report.version = 0
      /\ lspServer'[i].sent = lspServer[i].sent
      /\ lspServer'[i].proc = lspServer[i].proc
      /\ LspChanged(lspServer, lspServer', i)
  <2>1. lspServer'[i] = [lspServer[i] EXCEPT !.report = NoReport]
    BY <1>3, LspNowHere
  <2>2. LspChanged(lspServer, lspServer', i)
    BY <1>3, LspNowHere DEF LspChanged
  <2> QED
    BY <2>1, <2>2, LspServerFields DEF LspServers, NoReport
<1>5. LspMoved(lspCall, lspCall', c) /\ lspCall'[c].pc \in {"diagnose", "idle"}
      /\ LspCallIsOld(lspCall'[c], lspFile.text)
  <2>1. CASE LspGo(c, "diagnose")
    BY <2>1, LspGoDoes, LspCallOlds DEF LspCallIsOld
  <2>2. CASE LspEnds(c)
    BY <2>2, LspEndsDoes
  <2> QED
    BY <2>1, <2>2 DEF LspClear
<1>6. lspCall'[c].pc = "diagnose" =>
         /\ lspCall'[c].at = i /\ lspCall'[c].since = lspCall[c].since
         /\ lspCall'[c].version = lspCall[c].version
  <2>1. CASE LspGo(c, "diagnose")
    BY <1>1, <2>1, LspGoDoes
  <2>2. CASE LspEnds(c)
    BY <2>2, LspEndsDoes
  <2> QED
    BY <2>1, <2>2 DEF LspClear
<1>7. LspServes(c, i)
  BY <1>0, <1>1, <1>2, <1>4, <1>5, <1>6 DEF LspServes, LspServed, LspWorking, LspPast
<1>8. LspServerIsOld(lspServer'[i], lspFile.text)
  BY <1>4, LspServerFields DEF LspServerIsOld
<1>9. ASSUME LspGood(lspCall, lspServer) PROVE LspGood(lspCall', lspServer')
  <2>1. /\ lspServer \in [LspStarts -> LspServers] /\ lspServer' \in [LspStarts -> LspServers]
        /\ LspNumbered(lspCall) /\ LspSound(lspCall)
    BY LspNowHere
  <2>2. LspHeld(lspCall, lspServer, i, lspServer'[i].report.version, lspServer'[i].report.text)
    BY <1>4, LspHeldVoid
  <2>3. LspGood(lspCall, lspServer')
    BY <1>4, <1>9, <2>1, <2>2, LspReported
  <2>4. CASE lspCall'[c].pc = "diagnose"
    <3>1. LspStepFits(lspCall, lspServer, c)
      BY <1>9 DEF LspGood
    <3>2. /\ lspServer'[i].document.version # 0 /\ lspServer'[i].document.version = lspCall[c].version
          /\ lspCall[c].since <= lspServer'[i].document.stat
      BY <1>0, <1>1, <1>4, <3>1 DEF LspStepFits
    <3>3. /\ lspCall'[c].since \in Nat /\ lspCall'[c].since <= lspServer'[i].document.stat
          /\ lspCall'[c].version = lspServer'[i].document.version
      BY <1>6, <2>4, <3>2, LspCallOlds
    <3>4. \A d \in LspCallers : lspCall[d].text \in Nat
      BY LspCallOlds
    <3> QED
      BY <1>0, <1>1, <1>5, <1>6, <2>1, <2>3, <2>4, <3>2, <3>3, <3>4, LspPasses, SMTT(60)
  <2>5. CASE lspCall'[c].pc = "idle"
    <3>1. "idle" \notin LspUsed
      BY DEF LspUsed, LspPast, LspWorking
    <3> QED
      BY <1>0, <1>5, <2>3, <2>5, <3>1, LspLeaves
  <2> QED
    BY <1>5, <2>4, <2>5
<1> QED
  BY <1>2, <1>5, <1>7, <1>8, <1>9, LspDocWorks

LEMMA LspDocStore == ASSUME LspDocHere, NEW c \in LspCallers, LspStore(c) PROVE LspDocInv'
<1>0. lspCall[c].pc = "store" /\ lspCall[c].at \in LspStarts
  BY LspCallNow DEF LspStore, LspDocHere, LspPlaced
<1>1. PICK i \in LspStarts : i = lspCall[c].at
  BY <1>0
<1>2. UNCHANGED <<lspFile, lspManager, lspOnce>> /\ lspAlone' = lspAlone
  BY DEF LspStore
<1>3. lspServer' = [lspServer EXCEPT ![i].report =
                       [version |-> lspCall[c].version, text |-> lspCall[c].text]]
  BY <1>1 DEF LspStore
<1>4. /\ lspServer'[i].document = lspServer[i].document
      /\ lspServer'[i].report.version = lspCall[c].version
      /\ lspServer'[i].report.text = lspCall[c].text
      /\ lspServer'[i].sent = lspServer[i].sent
      /\ lspServer'[i].proc = lspServer[i].proc
      /\ LspChanged(lspServer, lspServer', i)
  BY <1>3, LspServerFields, LspNowHere DEF LspServers, LspChanged
<1>5. /\ lspCall'[c].pc = "idle" /\ LspMoved(lspCall, lspCall', c)
      /\ LspCallIsOld(lspCall'[c], lspFile.text)
  BY LspEndsDoes DEF LspStore
<1>7. LspServes(c, i)
  BY <1>0, <1>1, <1>2, <1>4, <1>5 DEF LspServes, LspServed, LspWorking, LspPast
<1>8. LspServerIsOld(lspServer'[i], lspFile.text)
  BY <1>4, LspServerFields DEF LspServerIsOld
<1>9. ASSUME LspGood(lspCall, lspServer) PROVE LspGood(lspCall', lspServer')
  <2>1. LspSound(lspCall)
    BY LspNowHere
  <2>2. LspKept(lspCall, lspServer, i)
    BY <1>9, SMTT(60) DEF LspGood
  <2>3. LspHeld(lspCall, lspServer, i, lspServer'[i].report.version, lspServer'[i].report.text)
    BY <1>0, <1>1, <1>4, <2>2 DEF LspKept, LspIs
  <2>4. LspGood(lspCall, lspServer')
    BY <1>4, <1>9, <2>1, <2>3, LspReported
  <2>5. "idle" \notin LspUsed
    BY DEF LspUsed, LspPast, LspWorking
  <2> QED
    BY <1>0, <1>5, <2>4, <2>5, LspLeaves
<1> QED
  BY <1>2, <1>5, <1>7, <1>8, <1>9, LspDocWorks

LEMMA LspDocNoPull == ASSUME LspDocHere, NEW c \in LspCallers, LspNoPull(c) PROVE LspDocInv'
<1>0. lspCall[c].pc = "diagnose" /\ lspCall[c].at \in LspStarts
  BY LspCallNow DEF LspNoPull, LspDocHere, LspPlaced
<1>1. PICK i \in LspStarts : i = lspCall[c].at
  BY <1>0
<1>2. UNCHANGED <<lspFile, lspManager, lspOnce>> /\ lspAlone' = lspAlone
  BY DEF LspNoPull
<1>3. CASE LspEnds(c) /\ lspServer' = lspServer
  BY <1>0, <1>2, <1>3, LspDocEnds DEF LspUsed, LspPast
<1>4. CASE lspServer' = [lspServer EXCEPT ![i].pull = FALSE] /\ LspGo(c, "wait")
  <2>1. /\ lspServer'[i].document = lspServer[i].document
        /\ lspServer'[i].report = lspServer[i].report
        /\ lspServer'[i].sent = lspServer[i].sent
        /\ lspServer'[i].proc = lspServer[i].proc
        /\ LspChanged(lspServer, lspServer', i)
    BY <1>4, LspServerFields, LspNowHere DEF LspServers, LspChanged
  <2>2. /\ lspCall'[c].pc = "wait" /\ lspCall'[c].at = i /\ lspCall'[c].since = lspCall[c].since
        /\ lspCall'[c].version = lspCall[c].version /\ LspMoved(lspCall, lspCall', c)
        /\ LspCallIsOld(lspCall'[c], lspFile.text)
    BY <1>1, <1>4, LspGoDoes, LspCallOlds DEF LspCallIsOld
  <2>3. LspServes(c, i)
    BY <1>0, <1>1, <1>2, <2>1, <2>2 DEF LspServes, LspServed, LspWorking, LspPast
  <2>4. LspServerIsOld(lspServer'[i], lspFile.text)
    BY <2>1, LspServerFields DEF LspServerIsOld
  <2>5. ASSUME LspGood(lspCall, lspServer) PROVE LspGood(lspCall', lspServer')
    <3>1. LspSound(lspCall)
      BY LspNowHere
    <3>2. LspKept(lspCall, lspServer, i)
      BY <2>5 DEF LspGood
    <3>3. LspHeld(lspCall, lspServer, i, lspServer'[i].report.version, lspServer'[i].report.text)
      BY <2>1, <3>2 DEF LspKept
    <3>4. LspGood(lspCall, lspServer')
      BY <2>1, <2>5, <3>1, <3>3, LspReported
    <3>5. "diagnose" \in LspPast /\ "wait" \in LspPast
      BY DEF LspPast
    <3> QED
      BY <1>0, <1>1, <2>2, <3>4, <3>5, LspWaits
  <2> QED
    BY <1>2, <2>2, <2>3, <2>4, <2>5, LspDocWorks
<1> QED
  BY <1>1, <1>3, <1>4 DEF LspNoPull

(* What the server answers a call with is fresh for that call.                    *)
LEMMA LspPullIsHeld ==
    ASSUME LspDocHere, NEW c \in LspCallers, NEW i \in LspStarts, LspGood(lspCall, lspServer),
           lspCall[c].pc = "diagnose", lspCall[c].at = i,
           lspServer[i].proc = "up", lspServer[i].sent # <<>>
    PROVE  LspHeld(lspCall, lspServer, i, lspCall[c].version,
                   lspServer[i].sent[Len(lspServer[i].sent)].text)
<1>1. PICK text : text = lspServer[i].sent[Len(lspServer[i].sent)].text
  OBVIOUS
<1>2. /\ text \in Nat /\ lspServer[i].document.version \in Nat /\ lspServer[i].document.stat \in Nat
  BY <1>1, LspNowHere, LspTexts
<1>3. LspStepFits(lspCall, lspServer, c) /\ LspLatest(lspCall, lspServer, i)
  BY DEF LspGood
<1>4. LspIs(lspCall, c, i, LspPast) /\ 0 < lspCall[c].version
      /\ lspCall[c].version <= lspServer[i].document.version
  BY <1>3 DEF LspIs, LspPast, LspStepFits
<1>5. \A d \in LspCallers : LspIs(lspCall, d, i, LspPast) => lspCall[d].since <= text
  BY <1>1, <1>3 DEF LspLatest, LspReaches
<1>6. lspCall[c].version = lspServer[i].document.version => lspServer[i].document.stat <= text
  <2> SUFFICES ASSUME lspCall[c].version = lspServer[i].document.version
               PROVE  lspServer[i].document.stat <= text
    OBVIOUS
  <2>1. ASSUME NEW d \in LspCallers, LspIs(lspCall, d, i, {"send_change"}) PROVE FALSE
    <3>1. LspPairFits(lspCall, d, c) /\ LspStepFits(lspCall, lspServer, d)
      BY DEF LspGood
    <3>2. lspCall[d].version = lspServer[i].document.version
      BY <2>1, <3>1 DEF LspIs, LspStepFits
    <3>3. lspCall[c].version < lspCall[d].version
      BY <2>1, <3>1 DEF LspIs, LspPairFits, LspWorking, LspPast
    <3> QED
      BY <1>2, <3>2, <3>3
  <2>2. lspServer[i].document.version # 0
    BY <1>2, <1>4
  <2> QED
    BY <1>1, <1>3, <2>1, <2>2 DEF LspLatest, LspReaches
<1>7. LspHeld(lspCall, lspServer, i, lspCall[c].version, text)
  <2>1. lspCall[c].version \in Nat
    BY LspCallOlds
  <2>2. \/ lspCall[c].version < lspServer[i].document.version
        \/ lspCall[c].version = lspServer[i].document.version /\ lspServer[i].document.stat <= text
    BY <1>2, <1>4, <1>6, <2>1
  <2> QED
    BY <1>5, <2>2 DEF LspHeld
<1> QED
  BY <1>1, <1>7

LEMMA LspDocPull == ASSUME LspDocHere, NEW c \in LspCallers, LspPull(c) PROVE LspDocInv'
<1>0. lspCall[c].pc = "diagnose" /\ lspCall[c].at \in LspStarts
  BY LspCallNow, SMTT(60) DEF LspPull, LspDocHere, LspPlaced
<1>1. PICK i \in LspStarts : i = lspCall[c].at
  BY <1>0
<1>2. /\ UNCHANGED <<lspFile, lspManager, lspOnce>> /\ lspAlone' = lspAlone
      /\ lspServer' = lspServer
  BY DEF LspPull
<1>3. PICK last : last = Len(lspServer[i].sent)
  OBVIOUS
<1>4. /\ lspServer[i].sent # <<>> /\ lspServer[i].proc = "up"
      /\ lspServer[i].sent[last].version # 0
      /\ lspCall' = [lspCall EXCEPT ![c].pc = "store", ![c].text = lspServer[i].sent[last].text]
  BY <1>1, <1>3 DEF LspPull
<1>5. last \in 1 .. Len(lspServer[i].sent)
  BY <1>3, <1>4, LspServerFields, SMTT(60)
<1>6. lspCall[c] \in LspCallRecords
  BY LspCallOlds
<1>7. /\ lspCall'[c].pc = "store" /\ lspCall'[c].at = i /\ lspCall'[c].since = lspCall[c].since
      /\ lspCall'[c].version = lspCall[c].version /\ lspCall'[c].stat = lspCall[c].stat
      /\ lspCall'[c].text = lspServer[i].sent[last].text
      /\ LspMoved(lspCall, lspCall', c)
  BY <1>1, <1>4, <1>6, LspNowHere, ZenonT(60) DEF LspCallRecords, LspMoved
<1>8. LspServes(c, i)
  BY <1>0, <1>1, <1>2, <1>7 DEF LspServes, LspServed, LspWorking, LspPast, LspChanged
<1>9. LspServerIsOld(lspServer'[i], lspFile.text) /\ LspCallIsOld(lspCall'[c], lspFile.text)
  BY <1>2, <1>5, <1>7, LspServerFields, LspCallOlds, SMTT(60) DEF LspServerIsOld, LspCallIsOld
<1>10. ASSUME LspGood(lspCall, lspServer) PROVE LspGood(lspCall', lspServer')
  <2>1. LspHeld(lspCall, lspServer, i, lspCall[c].version, lspServer[i].sent[last].text)
    BY <1>0, <1>1, <1>3, <1>4, <1>10, LspPullIsHeld
  <2>2. "diagnose" \in LspPast /\ "store" \in LspPast
    BY SMTT(60) DEF LspPast
  <2>3. LspGood(lspCall', lspServer)
    BY <1>0, <1>1, <1>7, <1>10, <2>1, <2>2, LspWaits
  <2> QED
    BY <1>2, <2>3
<1> QED
  BY <1>2, <1>8, <1>9, <1>10, LspDocWorks, SMTT(60)
------------------------------------------------------------------------------
(* Steps of calls that are not at a document: they get a server.                  *)
LEMMA LspNewestLater ==
    ASSUME NEW calls, NEW servers \in [LspStarts -> LspServers], NEW text \in Nat, NEW later \in Nat,
           LspNumbered(calls), LspNoneNewer(calls, servers, text), text <= later
    PROVE  LspNoneNewer(calls, servers, later)
<1>1. \A i \in LspStarts : /\ servers[i].document.stat \in Nat
                           /\ \A k \in 1 .. Len(servers[i].sent) : servers[i].sent[k].text \in Nat
  BY LspTexts
<1> QED
  BY <1>1, SMTT(60) DEF LspNumbered, LspNoneNewer

LspArrives(c) ==
    /\ lspServer' = lspServer /\ lspFile.text <= lspFile'.text /\ (lspAlone' => lspAlone)
    /\ LspMoved(lspCall, lspCall', c) /\ LspCallIsOld(lspCall'[c], lspFile'.text)
    /\ lspCall[c].pc \notin LspUsed
    /\ lspCall'[c].pc \in LspUsed => ~lspAlone' /\ lspServer[lspCall'[c].at].proc # "none"
    /\ lspCall'[c].pc = "stat" => lspServer[lspCall'[c].at].proc # "none"
    /\ lspCall'[c].pc = "start" => lspServer[lspCall'[c].at].proc = "none"
    /\ \A i \in LspStarts : lspServer[i].proc = "none" => lspManager'.server # i
    /\ \A i \in LspStarts : lspOnce'[i] \in {"unused", "fresh"} => lspServer[i].proc = "none"

LEMMA LspDocArrives == ASSUME LspDocHere, NEW c \in LspCallers, LspArrives(c) PROVE LspDocInv'
<1>0. LspUnstarted /\ LspNoneNewer(lspCall, lspServer, lspFile.text) /\ lspServer' = lspServer
  BY LspNowHere DEF LspArrives
<1>a. \A d \in LspCallers : d # c => lspCall'[d] = lspCall[d]
  BY DEF LspArrives, LspMoved
<1>1. ASSUME NEW j \in LspStarts, lspServer'[j].proc = "none"
      PROVE  /\ lspServer'[j].document.version = 0 /\ lspManager'.server # j
             /\ \A d \in LspCallers : ~LspIs(lspCall', d, j, LspServed)
  <2>1. \A d \in LspCallers : d # c => ~LspIs(lspCall', d, j, LspServed)
    BY <1>0, <1>1, <1>a DEF LspUnstarted, LspServed, LspIs
  <2>2. ~LspIs(lspCall', c, j, LspServed)
    BY <1>0, <1>1 DEF LspArrives, LspIs, LspServed, LspUsed
  <2> QED
    BY <1>0, <1>1, <2>1, <2>2 DEF LspUnstarted, LspArrives
<1>2. ASSUME NEW d \in LspCallers, NEW j \in LspStarts, lspCall'[d].pc = "start", lspCall'[d].at = j
      PROVE  lspServer'[j].proc = "none"
  <2>1. CASE d = c
    BY <1>0, <1>2, <2>1 DEF LspArrives
  <2>2. CASE d # c
    BY <1>0, <1>2, <1>a, <2>2 DEF LspUnstarted, LspStarting, LspAt
  <2> QED
    BY <2>1, <2>2
<1>3. LspUnstarted'
  BY <1>0, <1>1, <1>2, ZenonT(60) DEF LspUnstarted, LspStarting, LspAt, LspServed, LspArrives
<1>4. LspNoneNewer(lspCall', lspServer', lspFile'.text)
  <2>1. LspNoneNewer(lspCall, lspServer, lspFile'.text)
    BY <1>0, LspNowHere, LspNewestLater DEF LspArrives
  <2>2. LspChanged(lspServer, lspServer', 0) /\ 0 \notin LspStarts
    BY <1>0 DEF LspChanged, LspStarts
  <2> QED
    BY <2>1, <2>2, LspNowHere, LspNewest DEF LspArrives
<1>5. ASSUME lspAlone' PROVE LspGood(lspCall', lspServer')
  <2>1. LspGood(lspCall, lspServer)
    BY <1>5, LspNowHere DEF LspArrives
  <2>2. lspCall[c].pc # "record_open" /\ lspCall[c].pc # "send_change"
    BY DEF LspArrives, LspUsed, LspWorking
  <2>3. LspGood(lspCall', lspServer)
    BY <1>5, <2>1, <2>2, LspLeaves DEF LspArrives
  <2> QED
    BY <1>0, <2>3
<1> QED
  BY <1>3, <1>4, <1>5 DEF LspDocInv

(* What was not started stays so when manager and Onces do not change.            *)
LEMMA LspStillUnstarted ==
    ASSUME LspDocHere
    PROVE  /\ \A i \in LspStarts : lspServer[i].proc = "none" => lspManager.server # i
           /\ \A i \in LspStarts : lspOnce[i] \in {"unused", "fresh"} => lspServer[i].proc = "none"
           /\ lspManager.server # 0 => lspManager.server \in LspStarts
           /\ lspManager.server # 0 => lspServer[lspManager.server].proc # "none"
<1>1. LspUnstarted
  BY LspNowHere
<1>2. lspManager.server # 0 => lspManager.server \in LspStarts
  BY LspAssumption DEF LspDocHere, LspShape, LspManagerShape, LspStarts
<1> QED
  BY <1>1, <1>2 DEF LspUnstarted

LEMMA LspNotUsed ==
    /\ "idle" \notin LspUsed /\ "lookup" \notin LspUsed /\ "once" \notin LspUsed
    /\ "start" \notin LspUsed /\ "initialize" \notin LspUsed /\ "pick" \notin LspUsed
    /\ "stat" \notin LspUsed /\ "find" \notin LspUsed
  BY DEF LspUsed, LspPast, LspWorking

LEMMA LspDocAsk ==
    ASSUME LspDocHere, NEW c \in LspCallers, NEW op \in {"query", "changed", "deleted"}, LspAsk(c, op)
    PROVE  LspDocInv'
<1>1. lspFile.text <= lspFile'.text /\ lspFile'.text \in Nat /\ lspFile.text \in Nat
  <2>1. lspFile \in [text : 1 .. LspMaxTexts, exists : BOOLEAN]
    BY DEF LspDocHere, LspShape, LspFileShape
  <2>2. CASE op = "changed"
    BY <2>2, LspNowHere DEF LspAsk
  <2>3. CASE op = "deleted"
    BY <2>1, <2>3, LspNowHere DEF LspAsk
  <2>4. CASE op = "query"
    BY <2>4, LspNowHere DEF LspAsk
  <2> QED
    BY <2>2, <2>3, <2>4
<1>2. PICK since : since = IF op = "query" THEN lspFile.text ELSE 0
  OBVIOUS
<1>3. PICK pc : pc = IF op = "deleted" THEN "find" ELSE "lookup"
  OBVIOUS
<1>4. lspCall' = [lspCall EXCEPT ![c] = [LspIdle EXCEPT !.op = op, !.pc = pc, !.since = since]]
  BY <1>2, <1>3 DEF LspAsk
<1>5. /\ lspCall'[c].pc = pc /\ lspCall'[c].since = since /\ lspCall'[c].stat = 0
      /\ lspCall'[c].text = 0 /\ LspMoved(lspCall, lspCall', c)
  BY <1>4, LspNowHere DEF LspMoved, LspIdle
<1>6. LspCallIsOld(lspCall'[c], lspFile'.text)
  BY <1>1, <1>2, <1>5 DEF LspCallIsOld
<1>7. LspArrives(c)
  BY <1>1, <1>3, <1>5, <1>6, LspNotUsed, LspStillUnstarted DEF LspArrives, LspAsk, LspAt
<1> QED
  BY <1>7, LspDocArrives

LEMMA LspDocLookup == ASSUME LspDocHere, NEW c \in LspCallers, LspLookup(c) PROVE LspDocInv'
<1>0. /\ lspFile' = lspFile /\ lspServer' = lspServer /\ lspAlone' = lspAlone /\ lspCall[c].pc = "lookup"
      /\ lspFile.text \in Nat
  BY LspNowHere DEF LspLookup, LspAt
<1>a. lspCall[c] \in LspCallRecords /\ LspCallIsOld(lspCall[c], lspFile.text)
  BY LspCallOlds
<1>1. CASE /\ lspManager.server # 0 /\ UNCHANGED <<lspManager, lspOnce>>
           /\ lspCall' = [lspCall EXCEPT ![c].pc = "stat", ![c].at = lspManager.server]
  <2>1. /\ lspCall'[c].pc = "stat" /\ lspCall'[c].at = lspManager.server
        /\ LspCallIsOld(lspCall'[c], lspFile.text) /\ LspMoved(lspCall, lspCall', c)
    BY <1>1, <1>a, LspNowHere, ZenonT(60) DEF LspCallRecords, LspMoved, LspCallIsOld
  <2>2. LspArrives(c)
    BY <1>0, <1>1, <2>1, LspNotUsed, LspStillUnstarted DEF LspArrives
  <2> QED
    BY <2>2, LspDocArrives
<1>2. CASE LspEnds(c) /\ UNCHANGED <<lspManager, lspOnce>>
  <2>1. LspArrives(c)
    BY <1>0, <1>2, LspEndsDoes, LspNotUsed, LspStillUnstarted DEF LspArrives
  <2> QED
    BY <2>1, LspDocArrives
<1>3. ASSUME NEW i \in LspStarts,
             lspOnce' = lspOnce \/ (lspOnce[i] = "unused" /\ lspOnce' = [lspOnce EXCEPT ![i] = "fresh"]),
             lspManager' = [Forgotten(lspManager) EXCEPT !.once = i],
             lspCall' = [lspCall EXCEPT ![c].pc = "once", ![c].at = i]
      PROVE  LspDocInv'
  <2>1. /\ lspCall'[c].pc = "once"
        /\ LspCallIsOld(lspCall'[c], lspFile.text) /\ LspMoved(lspCall, lspCall', c)
    BY <1>3, <1>a, LspNowHere, ZenonT(60) DEF LspCallRecords, LspMoved, LspCallIsOld
  <2>2. lspManager'.server \in {0, lspManager.server}
    BY <1>3 DEF Forgotten, LspDocHere, LspShape, LspManagerShape
  <2>3. \A j \in LspStarts : lspServer[j].proc = "none" => lspManager'.server # j
    BY <2>2, LspStillUnstarted DEF LspStarts
  <2>4. \A j \in LspStarts : lspOnce'[j] \in {"unused", "fresh"} => lspServer[j].proc = "none"
    BY <1>3, LspStillUnstarted DEF LspDocHere, LspShape, LspOnceShape
  <2>5. LspArrives(c)
    BY <1>0, <2>1, <2>3, <2>4, LspNotUsed DEF LspArrives
  <2> QED
    BY <2>5, LspDocArrives
<1>4. \/ /\ lspManager.server # 0 /\ UNCHANGED <<lspManager, lspOnce>>
         /\ lspCall' = [lspCall EXCEPT ![c].pc = "stat", ![c].at = lspManager.server]
      \/ LspEnds(c) /\ UNCHANGED <<lspManager, lspOnce>>
      \/ \E i \in LspStarts :
             /\ lspOnce' = lspOnce \/ (lspOnce[i] = "unused" /\ lspOnce' = [lspOnce EXCEPT ![i] = "fresh"])
             /\ lspManager' = [Forgotten(lspManager) EXCEPT !.once = i]
             /\ lspCall' = [lspCall EXCEPT ![c].pc = "once", ![c].at = i]
  BY DEF LspLookup
<1> QED
  BY <1>1, <1>2, <1>3, <1>4

LEMMA LspDocOnceRuns == ASSUME LspDocHere, NEW c \in LspCallers, LspOnceRuns(c) PROVE LspDocInv'
<1>0. lspCall[c].pc = "once" /\ lspCall[c].at \in LspStarts
  BY LspCallNow DEF LspOnceRuns, LspAt, LspDocHere, LspPlaced
<1>1. /\ lspCall'[c].pc = "start" /\ lspCall'[c].at = lspCall[c].at
      /\ LspMoved(lspCall, lspCall', c) /\ LspCallIsOld(lspCall'[c], lspFile.text)
  BY LspGoDoes, LspCallOlds DEF LspOnceRuns, LspCallIsOld
<1>2. lspServer[lspCall[c].at].proc = "none"
  BY <1>0, LspStillUnstarted DEF LspOnceRuns
<1>3. \A j \in LspStarts : lspOnce'[j] \in {"unused", "fresh"} => lspServer[j].proc = "none"
  BY <1>0, LspStillUnstarted DEF LspOnceRuns, LspDocHere, LspShape, LspOnceShape
<1>4. LspArrives(c)
  BY <1>0, <1>1, <1>2, <1>3, LspNotUsed, LspStillUnstarted, LspNowHere DEF LspArrives, LspOnceRuns
<1> QED
  BY <1>4, LspDocArrives

LEMMA LspDocOnceDone == ASSUME LspDocHere, NEW c \in LspCallers, LspOnceDone(c) PROVE LspDocInv'
<1>1. /\ lspCall'[c].pc = "pick" /\ LspMoved(lspCall, lspCall', c)
      /\ LspCallIsOld(lspCall'[c], lspFile.text)
  BY LspGoDoes, LspCallOlds DEF LspOnceDone, LspCallIsOld
<1>2. LspArrives(c)
  BY <1>1, LspNotUsed, LspStillUnstarted, LspNowHere DEF LspArrives, LspOnceDone, LspAt
<1> QED
  BY <1>2, LspDocArrives

LEMMA LspDocRegisters == ASSUME LspDocHere, NEW c \in LspCallers, LspRegisters(c) PROVE LspDocInv'
<1>0. lspCall[c].pc = "initialize" /\ lspCall[c].at \in LspStarts /\ lspServer[lspCall[c].at].proc = "up"
  BY LspCallNow DEF LspRegisters, LspAt, LspUp, LspDocHere, LspPlaced
<1>1. /\ lspCall'[c].pc = "pick" /\ LspMoved(lspCall, lspCall', c)
      /\ LspCallIsOld(lspCall'[c], lspFile.text)
  BY LspGoDoes, LspCallOlds DEF LspRegisters, LspCallIsOld
<1>2. lspManager'.server = lspCall[c].at
  BY DEF LspRegisters, LspDocHere, LspShape, LspManagerShape
<1>3. \A j \in LspStarts : lspOnce'[j] \in {"unused", "fresh"} => lspServer[j].proc = "none"
  BY <1>0, LspStillUnstarted DEF LspRegisters, LspDocHere, LspShape, LspOnceShape
<1>4. LspArrives(c)
  BY <1>0, <1>1, <1>2, <1>3, LspNotUsed, LspNowHere DEF LspArrives, LspRegisters
<1> QED
  BY <1>4, LspDocArrives

LEMMA LspDocPick == ASSUME LspDocHere, NEW c \in LspCallers, LspPick(c) PROVE LspDocInv'
<1>0. /\ lspFile' = lspFile /\ lspServer' = lspServer /\ lspAlone' = lspAlone /\ lspCall[c].pc = "pick"
      /\ lspManager' = lspManager /\ lspOnce' = lspOnce /\ lspFile.text \in Nat
  BY LspNowHere DEF LspPick, LspAt
<1>1. CASE lspManager.server # 0
  <2>0. lspCall' = [lspCall EXCEPT ![c].pc = "stat", ![c].at = lspManager.server]
    BY <1>1 DEF LspPick
  <2>1. lspCall[c] \in LspCallRecords /\ LspCallIsOld(lspCall[c], lspFile.text)
    BY LspCallOlds
  <2>2. /\ lspCall'[c].pc = "stat" /\ lspCall'[c].at = lspManager.server
        /\ LspCallIsOld(lspCall'[c], lspFile.text) /\ LspMoved(lspCall, lspCall', c)
    BY <2>0, <2>1, LspNowHere DEF LspCallRecords, LspMoved, LspCallIsOld
  <2>3. LspArrives(c)
    BY <1>0, <1>1, <2>2, LspNotUsed, LspStillUnstarted DEF LspArrives
  <2> QED
    BY <2>3, LspDocArrives
<1>2. CASE lspManager.server = 0
  <2>1. LspEnds(c)
    BY <1>2 DEF LspPick
  <2>2. LspArrives(c)
    BY <1>0, <2>1, LspEndsDoes, LspNotUsed, LspStillUnstarted DEF LspArrives
  <2> QED
    BY <2>2, LspDocArrives
<1> QED
  BY <1>1, <1>2
(* CloseDocument; a document that is closed has had company.                      *)
LEMMA LspDocFind == ASSUME LspDocHere, NEW c \in LspCallers, LspFind(c) PROVE LspDocInv'
<1>0. /\ lspFile' = lspFile /\ lspServer' = lspServer /\ lspCall[c].pc = "find"
      /\ lspManager' = lspManager /\ lspOnce' = lspOnce /\ lspFile.text \in Nat
  BY LspNowHere DEF LspFind, LspAt
<1>1. CASE LspEnds(c) /\ lspAlone' = lspAlone
  <2>1. LspArrives(c)
    BY <1>0, <1>1, LspEndsDoes, LspNotUsed, LspStillUnstarted DEF LspArrives
  <2> QED
    BY <2>1, LspDocArrives
<1>2. CASE /\ lspManager.server # 0 /\ ~lspAlone'
           /\ lspCall' = [lspCall EXCEPT ![c].pc = "close", ![c].at = lspManager.server]
  <2>1. lspCall[c] \in LspCallRecords /\ LspCallIsOld(lspCall[c], lspFile.text)
    BY LspCallOlds
  <2>2. /\ lspCall'[c].pc = "close" /\ lspCall'[c].at = lspManager.server
        /\ LspCallIsOld(lspCall'[c], lspFile.text) /\ LspMoved(lspCall, lspCall', c)
    BY <1>2, <2>1, LspNowHere, ZenonT(60) DEF LspCallRecords, LspMoved, LspCallIsOld
  <2>3. LspArrives(c)
    BY <1>0, <1>2, <2>2, LspNotUsed, LspStillUnstarted DEF LspArrives
  <2> QED
    BY <2>3, LspDocArrives
<1> QED
  BY <1>1, <1>2 DEF LspFind

LEMMA LspDocClose == ASSUME LspDocHere, NEW c \in LspCallers, LspClose(c) PROVE LspDocInv'
<1>0. lspCall[c].pc = "close" /\ lspCall[c].at \in LspStarts
  BY LspCallNow DEF LspClose, LspAt, LspDocHere, LspPlaced, LspWorking
<1>1. PICK i \in LspStarts : i = lspCall[c].at
  BY <1>0
<1>2. UNCHANGED <<lspFile, lspManager, lspOnce>> /\ lspAlone' = lspAlone
  BY DEF LspClose
<1>3. CASE LspEnds(c) /\ lspServer' = lspServer
  BY <1>0, <1>2, <1>3, LspDocEnds DEF LspUsed, LspWorking
<1>4. CASE /\ lspServer' = [lspServer EXCEPT ![i].sent = Append(@, [version |-> 0, text |-> 0])]
           /\ LspGo(c, "forget")
  <2>1. /\ lspServer'[i].document = lspServer[i].document
        /\ lspServer'[i].sent = Append(lspServer[i].sent, [version |-> 0, text |-> 0])
        /\ lspServer'[i].proc = lspServer[i].proc
        /\ LspChanged(lspServer, lspServer', i)
    BY <1>4, LspServerFields, LspNowHere DEF LspServers, LspChanged
  <2>2. /\ lspCall'[c].pc = "forget" /\ lspCall'[c].at = i
        /\ LspMoved(lspCall, lspCall', c) /\ LspCallIsOld(lspCall'[c], lspFile.text)
    BY <1>1, <1>4, LspGoDoes, LspCallOlds, SMTT(60) DEF LspCallIsOld
  <2>3. LspServes(c, i)
    BY <1>0, <1>1, <1>2, <2>1, <2>2 DEF LspServes, LspServed, LspWorking
  <2>4. LspServerIsOld(lspServer'[i], lspFile.text)
    <3>1. 0 <= lspFile.text /\ 0 \in Nat /\ lspFile.text \in Nat
      BY LspNowHere
    <3> QED
      BY <2>1, <3>1, LspServerFields, LspOneMore, SMTT(60) DEF LspServerIsOld
  <2>5. LspGood(lspCall, lspServer) => FALSE
    BY <1>0 DEF LspGood, LspStepFits
  <2> QED
    BY <1>2, <2>2, <2>3, <2>4, <2>5, LspDocWorks
<1> QED
  BY <1>1, <1>3, <1>4 DEF LspClose

LEMMA LspDocForget == ASSUME LspDocHere, NEW c \in LspCallers, LspForget(c) PROVE LspDocInv'
<1>0. lspCall[c].pc = "forget" /\ lspCall[c].at \in LspStarts
  BY LspCallNow DEF LspForget, LspAt, LspDocHere, LspPlaced, LspWorking
<1>1. PICK i \in LspStarts : i = lspCall[c].at
  BY <1>0
<1>2. /\ UNCHANGED <<lspFile, lspManager, lspOnce>> /\ lspAlone' = lspAlone
      /\ lspServer' = [lspServer EXCEPT ![i].document = NoDocument] /\ LspGo(c, "clear")
  BY <1>1 DEF LspForget
<1>3. /\ lspServer'[i].document.stat = 0
      /\ lspServer'[i].sent = lspServer[i].sent
      /\ lspServer'[i].proc = lspServer[i].proc
      /\ LspChanged(lspServer, lspServer', i)
  <2>1. NoDocument.stat = 0
    BY DEF NoDocument
  <2> QED
    BY <1>2, <2>1, LspServerFields, LspNowHere DEF LspServers, LspChanged
<1>4. /\ lspCall'[c].pc = "clear" /\ lspCall'[c].at = i
      /\ LspMoved(lspCall, lspCall', c) /\ LspCallIsOld(lspCall'[c], lspFile.text)
  BY <1>1, <1>2, LspGoDoes, LspCallOlds DEF LspCallIsOld
<1>5. LspServes(c, i)
  BY <1>0, <1>1, <1>2, <1>3, <1>4 DEF LspServes, LspServed, LspWorking
<1>6. LspServerIsOld(lspServer'[i], lspFile.text)
  BY <1>3, LspServerFields, LspNowHere, SMTT(60) DEF LspServerIsOld
<1>7. LspGood(lspCall, lspServer) => FALSE
  BY <1>0 DEF LspGood, LspStepFits
<1> QED
  BY <1>2, <1>4, <1>5, <1>6, <1>7, LspDocWorks

(* A server is started, or is not.                                                *)
LEMMA LspDocSpawns == ASSUME LspDocHere, NEW c \in LspCallers, LspSpawns(c) PROVE LspDocInv'
<1>0. lspCall[c].pc = "start" /\ lspCall[c].at \in LspStarts
  BY LspCallNow DEF LspSpawns, LspAt, LspDocHere, LspPlaced
<1>1. PICK i \in LspStarts : i = lspCall[c].at
  BY <1>0
<1>2. /\ UNCHANGED <<lspFile, lspManager, lspOnce>> /\ lspAlone' = lspAlone
      /\ lspServer' = [lspServer EXCEPT ![i].proc = "up"] /\ LspGo(c, "initialize")
  BY <1>1 DEF LspSpawns
<1>3. /\ lspServer'[i].document = lspServer[i].document
      /\ lspServer'[i].report = lspServer[i].report
      /\ lspServer'[i].sent = lspServer[i].sent
      /\ lspServer'[i].proc = "up"
      /\ LspChanged(lspServer, lspServer', i)
  BY <1>2, LspServerFields, LspNowHere DEF LspServers, LspChanged
<1>4. /\ lspCall'[c].pc = "initialize"
      /\ LspMoved(lspCall, lspCall', c) /\ LspCallIsOld(lspCall'[c], lspFile.text)
  BY <1>1, <1>2, LspGoDoes, LspCallOlds DEF LspCallIsOld
<1>5. LspUnstarted /\ LspStarting(c, i) /\ lspServer[i].proc = "none"
  BY <1>0, <1>1, LspNowHere DEF LspUnstarted, LspStarting, LspAt
<1>6. lspOnce[i] = "running" /\ \A d \in LspCallers : LspStarting(d, i) => d = c
  BY <1>5 DEF LspDocHere, LspOnceInv
<1>a. \A d \in LspCallers : d # c => lspCall'[d] = lspCall[d]
  BY <1>4 DEF LspMoved
<1>7. LspUnstarted'
  <2>1. ASSUME NEW j \in LspStarts, lspServer'[j].proc = "none"
        PROVE  /\ lspServer'[j].document.version = 0 /\ lspManager'.server # j
               /\ \A d \in LspCallers : ~LspIs(lspCall', d, j, LspServed)
    <3>1. lspServer'[j] = lspServer[j]
      BY <1>3, <2>1 DEF LspChanged
    <3>2. \A d \in LspCallers : d # c => ~LspIs(lspCall', d, j, LspServed)
      BY <1>5, <2>1, <3>1, <1>a DEF LspUnstarted, LspServed, LspIs
    <3>3. ~LspIs(lspCall', c, j, LspServed)
      BY <1>4 DEF LspIs, LspServed, LspWorking, LspPast
    <3> QED
      BY <1>2, <1>5, <2>1, <3>1, <3>2, <3>3 DEF LspUnstarted
  <2>2. ASSUME NEW d \in LspCallers, NEW j \in LspStarts, lspCall'[d].pc = "start", lspCall'[d].at = j
        PROVE  lspServer'[j].proc = "none"
    <3>1. d # c /\ lspCall'[d] = lspCall[d]
      BY <1>4, <2>2, <1>a
    <3>2. LspStarting(d, j) /\ LspAt(d, "start")
      BY <2>2, <3>1 DEF LspStarting, LspAt
    <3>3. j # i
      BY <1>6, <3>1, <3>2
    <3>4. lspServer[j].proc = "none"
      BY <1>5, <3>2 DEF LspUnstarted
    <3> QED
      BY <1>3, <3>3, <3>4 DEF LspChanged
  <2>3. ASSUME NEW j \in LspStarts, lspOnce'[j] \in {"unused", "fresh"} PROVE lspServer'[j].proc = "none"
    <3>1. j # i
      BY <1>2, <1>6, <2>3
    <3> QED
      BY <1>2, <1>3, <1>5, <2>3, <3>1 DEF LspUnstarted, LspChanged
  <2> QED
    BY <2>1, <2>2, <2>3 DEF LspUnstarted, LspStarting, LspAt, LspServed
<1>8. LspNoneNewer(lspCall', lspServer', lspFile'.text)
  <2>1. LspServerIsOld(lspServer'[i], lspFile.text)
    BY <1>3, LspServerFields DEF LspServerIsOld
  <2> QED
    BY <1>2, <1>3, <1>4, <2>1, LspNowHere, LspNewest, ZenonT(60)
<1>9. ASSUME lspAlone' PROVE LspGood(lspCall', lspServer')
  <2>1. LspGood(lspCall, lspServer) /\ LspSound(lspCall)
    BY <1>2, <1>9, LspNowHere
  <2>2. lspServer[i].document.version = 0 /\ \A d \in LspCallers : ~LspIs(lspCall, d, i, LspUsed)
    BY <1>5 DEF LspUnstarted, LspIs, LspUsed
  <2>3. LspGood(lspCall, lspServer')
    BY <1>3, <2>1, <2>2, LspStarted
  <2> QED
    BY <1>0, <1>4, <2>3, LspNotUsed, LspLeaves
<1> QED
  BY <1>7, <1>8, <1>9 DEF LspDocInv

(* A server that goes down is still one that was started.                         *)
LEMMA LspDocDown ==
    ASSUME LspDocHere, NEW i \in LspStarts, LspChanged(lspServer, lspServer', i),
           lspServer'[i].proc = "down", lspServer'[i].document = lspServer[i].document,
           lspServer'[i].report = lspServer[i].report,
           lspServer'[i].sent = <<>> \/ lspServer'[i].sent = lspServer[i].sent
    PROVE  /\ LspServerIsOld(lspServer'[i], lspFile.text)
           /\ lspAlone => LspGood(lspCall, lspServer')
<1>1. lspServer'[i].sent = <<>> => 1 .. Len(lspServer'[i].sent) = {}
  OBVIOUS
<1>2. LspServerIsOld(lspServer'[i], lspFile.text)
  BY <1>1, LspServerFields DEF LspServerIsOld
<1>3. ASSUME lspAlone PROVE LspGood(lspCall, lspServer')
  <2>1. LspGood(lspCall, lspServer) /\ LspSound(lspCall)
    BY <1>3, LspNowHere
  <2> QED
    BY <2>1, LspGone
<1> QED
  BY <1>2, <1>3
LEMMA LspDocStartFails == ASSUME LspDocHere, NEW c \in LspCallers, LspStartFails(c) PROVE LspDocInv'
<1>0. lspCall[c].pc \in {"start", "initialize"} /\ lspCall[c].at \in LspStarts
  BY LspCallNow DEF LspStartFails, LspDocHere, LspPlaced
<1>1. PICK i \in LspStarts : i = lspCall[c].at
  BY <1>0
<1>2. /\ lspFile' = lspFile /\ lspAlone' = lspAlone /\ lspManager'.server = lspManager.server
      /\ lspOnce' = [lspOnce EXCEPT ![i] = "done"] /\ LspEnds(c)
  BY <1>1 DEF LspStartFails, LspDocHere, LspShape, LspManagerShape
<1>3. /\ lspCall'[c].pc = "idle" /\ LspMoved(lspCall, lspCall', c)
      /\ LspCallIsOld(lspCall'[c], lspFile.text)
  BY <1>2, LspEndsDoes
<1>4. \A j \in LspStarts : lspOnce'[j] \in {"unused", "fresh"} => j # i /\ lspOnce'[j] = lspOnce[j]
  BY <1>2 DEF LspDocHere, LspShape, LspOnceShape
<1>5. CASE lspServer' = lspServer
  <2>1. LspArrives(c)
    BY <1>0, <1>2, <1>3, <1>4, <1>5, LspNotUsed, LspStillUnstarted, LspNowHere DEF LspArrives
  <2> QED
    BY <2>1, LspDocArrives
<1>6. CASE lspServer' = [lspServer EXCEPT ![i].proc = "down"]
  <2>1. /\ lspServer'[i].document = lspServer[i].document
        /\ lspServer'[i].report = lspServer[i].report
        /\ lspServer'[i].sent = lspServer[i].sent
        /\ lspServer'[i].proc = "down"
        /\ LspChanged(lspServer, lspServer', i)
    BY <1>6, LspServerFields, LspNowHere DEF LspServers, LspChanged
  <2>2. /\ LspServerIsOld(lspServer'[i], lspFile.text)
        /\ lspAlone => LspGood(lspCall, lspServer')
    BY <2>1, LspDocDown
  <2>3. LspUnstarted
    BY LspNowHere
  <2>4. ASSUME NEW j \in LspStarts, lspServer'[j].proc = "none"
        PROVE  /\ lspServer'[j].document.version = 0 /\ lspManager'.server # j
               /\ \A d \in LspCallers : ~LspIs(lspCall', d, j, LspServed)
    <3>1. lspServer'[j] = lspServer[j]
      BY <2>1, <2>4 DEF LspChanged
    <3>2. \A d \in LspCallers : LspIs(lspCall', d, j, LspServed) => LspIs(lspCall, d, j, LspServed)
      BY <1>3 DEF LspIs, LspServed, LspWorking, LspPast, LspMoved
    <3> QED
      BY <1>2, <2>3, <2>4, <3>1, <3>2 DEF LspUnstarted, LspServed
  <2>5. ASSUME NEW d \in LspCallers, NEW j \in LspStarts, lspCall'[d].pc = "start", lspCall'[d].at = j
        PROVE  lspServer'[j].proc = "none"
    <3>1. d # c /\ lspCall'[d] = lspCall[d]
      BY <1>3, <2>5 DEF LspMoved
    <3>2. LspStarting(d, j) /\ LspAt(d, "start") /\ LspStarting(c, i)
      BY <1>0, <1>1, <2>5, <3>1 DEF LspStarting, LspAt
    <3>3. j # i
      BY <3>1, <3>2 DEF LspDocHere, LspOnceInv
    <3> QED
      BY <2>1, <2>3, <3>2, <3>3 DEF LspUnstarted, LspChanged
  <2>6. ASSUME NEW j \in LspStarts, lspOnce'[j] \in {"unused", "fresh"} PROVE lspServer'[j].proc = "none"
    BY <1>4, <2>1, <2>3, <2>6 DEF LspUnstarted, LspChanged
  <2>7. LspUnstarted'
    BY <2>4, <2>5, <2>6 DEF LspUnstarted, LspStarting, LspAt, LspServed
  <2>8. LspNoneNewer(lspCall', lspServer', lspFile'.text)
    BY <1>2, <1>3, <2>1, <2>2, LspNowHere, LspNewest
  <2>9. lspAlone' => LspGood(lspCall', lspServer')
    BY <1>0, <1>2, <1>3, <2>2, LspNotUsed, LspLeaves
  <2> QED
    BY <2>7, <2>8, <2>9 DEF LspDocInv
<1> QED
  BY <1>0, <1>1, <1>5, <1>6 DEF LspStartFails, LspAt

(* Steps of the servers and of the user.                                          *)
LEMMA LspUnstartedAround ==
    ASSUME LspDocHere, UNCHANGED <<lspManager, lspOnce>>,
           \A d \in LspCallers : lspCall'[d].pc = lspCall[d].pc /\ lspCall'[d].at = lspCall[d].at,
           NEW i, LspChanged(lspServer, lspServer', i),
           i \in LspStarts => lspServer[i].proc # "none" /\ lspServer'[i].proc # "none"
    PROVE  LspUnstarted'
<1>0. LspUnstarted
  BY LspNowHere
<1>1. ASSUME NEW j \in LspStarts, lspServer'[j].proc = "none"
      PROVE  /\ lspServer'[j].document.version = 0 /\ lspManager'.server # j
             /\ \A d \in LspCallers : ~LspIs(lspCall', d, j, LspServed)
  <2>1. lspServer'[j] = lspServer[j]
    BY <1>1 DEF LspChanged
  <2> QED
    BY <1>0, <1>1, <2>1 DEF LspUnstarted, LspServed, LspIs
<1>2. \A j \in LspStarts : lspServer[j].proc = "none" => lspServer'[j].proc = "none"
  BY DEF LspChanged
<1> QED
  BY <1>0, <1>1, <1>2, ZenonT(60) DEF LspUnstarted, LspStarting, LspAt, LspServed

LEMMA LspDocServerDies ==
    ASSUME LspDocHere, NEW i \in LspStarts, LspServerDies(i) PROVE LspDocInv'
<1>1. /\ UNCHANGED <<lspFile, lspManager, lspOnce, lspCall>> /\ lspAlone' = lspAlone
      /\ lspServer' = [lspServer EXCEPT ![i].proc = "down", ![i].sent = <<>>, ![i].published = 0]
      /\ lspServer[i].proc = "up"
  BY DEF LspServerDies, LspUp
<1>2. /\ lspServer'[i].document = lspServer[i].document
      /\ lspServer'[i].report = lspServer[i].report
      /\ lspServer'[i].sent = <<>>
      /\ lspServer'[i].proc = "down"
      /\ LspChanged(lspServer, lspServer', i)
  BY <1>1, LspServerFields, LspNowHere DEF LspServers, LspChanged
<1>3. /\ LspServerIsOld(lspServer'[i], lspFile.text)
      /\ lspAlone => LspGood(lspCall, lspServer')
  BY <1>2, LspDocDown
<1>4. LspUnstarted'
  BY <1>1, <1>2, LspUnstartedAround
<1>5. LspNoneNewer(lspCall', lspServer', lspFile'.text)
  <2>1. LspNoneNewer(lspCall, lspServer, lspFile.text)
    BY LspNowHere
  <2> QED
    BY <1>1, <1>2, <1>3, <2>1, ZenonT(60) DEF LspNoneNewer, LspChanged, LspServerIsOld
<1> QED
  BY <1>1, <1>3, <1>4, <1>5 DEF LspDocInv

LEMMA LspDocPublish ==
    ASSUME LspDocHere, NEW i \in LspStarts, NEW v, LspPublish(i, v) PROVE LspDocInv'
<1>1. PICK k \in lspServer[i].published .. Len(lspServer[i].sent) :
         /\ lspServer[i].proc = "up" /\ k > 0 /\ lspServer[i].sent[k].version # 0
         /\ lspServer' = [lspServer EXCEPT ![i].published = k,
                ![i].report = [text |-> lspServer[i].sent[k].text,
                               version |-> IF v THEN lspServer[i].sent[k].version ELSE 0]]
         /\ IF v THEN UNCHANGED lspCall ELSE Heard(i)
         /\ UNCHANGED <<lspFile, lspManager, lspOnce, lspCalls, lspStale, lspAlone>>
  BY DEF LspPublish
<1>2. k \in 1 .. Len(lspServer[i].sent)
  <2>1. lspServer[i].published \in Nat /\ Len(lspServer[i].sent) \in Nat
    BY LspServerFields DEF LspServers
  <2> QED
    BY <1>1, <2>1
<1>3. PICK version : version = IF v THEN lspServer[i].sent[k].version ELSE 0
  OBVIOUS
<1>a. lspServer' = [lspServer EXCEPT ![i].published = k,
                ![i].report = [text |-> lspServer[i].sent[k].text, version |-> version]]
  BY <1>1, <1>3
<1>4. /\ lspServer'[i].document = lspServer[i].document
      /\ lspServer'[i].report.version = version
      /\ lspServer'[i].report.text = lspServer[i].sent[k].text
      /\ lspServer'[i].sent = lspServer[i].sent
      /\ lspServer'[i].proc = lspServer[i].proc
      /\ LspChanged(lspServer, lspServer', i)
  BY <1>a, LspServerFields, LspNowHere DEF LspServers, LspChanged
<1>5. \A d \in LspCallers :
          /\ lspCall'[d].pc = lspCall[d].pc /\ lspCall'[d].at = lspCall[d].at
          /\ lspCall'[d].since = lspCall[d].since /\ lspCall'[d].stat = lspCall[d].stat
          /\ lspCall'[d].known = lspCall[d].known /\ lspCall'[d].text = lspCall[d].text
          /\ lspCall'[d].version = lspCall[d].version
  <2>1. CASE v
    BY <1>1, <2>1
  <2>2. CASE ~v
    <3>1. Heard(i)
      BY <1>1, <2>2
    <3>2. \A d \in LspCallers : lspCall[d] \in LspCallRecords
      BY LspNowHere
    <3> QED
      BY <3>1, <3>2, ZenonT(60) DEF Heard, LspCallRecords
  <2> QED
    BY <2>1, <2>2
<1>6. LspUnstarted'
  BY <1>1, <1>4, <1>5, LspUnstartedAround
<1>7. LspNoneNewer(lspCall', lspServer', lspFile'.text)
  <2>1. LspNoneNewer(lspCall, lspServer, lspFile.text)
    BY LspNowHere
  <2>2. \A d \in LspCallers : LspCallIsOld(lspCall'[d], lspFile.text)
    BY <1>5, <2>1 DEF LspNoneNewer, LspCallIsOld
  <2>3. \A j \in LspStarts : LspServerIsOld(lspServer'[j], lspFile.text)
    BY <1>4, <2>1 DEF LspNoneNewer, LspChanged, LspServerIsOld
  <2> QED
    BY <1>1, <2>2, <2>3 DEF LspNoneNewer, LspCallIsOld, LspServerIsOld
<1>8. ASSUME lspAlone' PROVE LspGood(lspCall', lspServer')
  <2>1. LspGood(lspCall, lspServer) /\ LspSound(lspCall)
    BY <1>1, <1>8, LspNowHere
  <2>2. LspHeld(lspCall, lspServer, i, lspServer'[i].report.version, lspServer'[i].report.text)
    <3>1. LspKept(lspCall, lspServer, i)
      BY <2>1 DEF LspGood
    <3>2. LspHeld(lspCall, lspServer, i, lspServer[i].sent[k].version, lspServer[i].sent[k].text)
      BY <1>2, <3>1 DEF LspKept
    <3>3. version = lspServer[i].sent[k].version \/ version = 0
      BY <1>3
    <3> QED
      BY <1>4, <3>2, <3>3, LspHeldVoid
  <2>3. LspGood(lspCall, lspServer')
    BY <1>4, <2>1, <2>2, LspReported
  <2> QED
    BY <1>5, <2>3, LspHears
<1> QED
  BY <1>6, <1>7, <1>8, SMTT(60) DEF LspDocInv

LEMMA LspDocAround ==
    ASSUME LspDocHere, UNCHANGED <<lspOnce, lspServer, lspCall, lspAlone>>,
           lspFile.text <= lspFile'.text, lspManager'.server = lspManager.server
    PROVE  LspDocInv'
<1>1. LspNoneNewer(lspCall', lspServer', lspFile'.text)
  <2>1. /\ LspNoneNewer(lspCall, lspServer, lspFile.text) /\ LspNumbered(lspCall)
        /\ lspServer \in [LspStarts -> LspServers] /\ lspFile.text \in Nat /\ lspFile'.text \in Nat
    BY LspNowHere
  <2>2. LspNoneNewer(lspCall, lspServer, lspFile'.text)
    BY <2>1, LspNewestLater
  <2> QED
    BY <2>2
<1>2. LspUnstarted'
  <2>1. LspUnstarted
    BY LspNowHere
  <2> QED
    BY <2>1 DEF LspUnstarted, LspStarting, LspAt, LspIs
<1>3. lspAlone' => LspGood(lspCall', lspServer')
  BY LspNowHere
<1> QED
  BY <1>1, <1>2, <1>3 DEF LspDocInv

LEMMA LspDocKept ==
    ASSUME LspShape, LspOnceInv, LspDocInv, [LspNext]_lspVars PROVE LspDocInv'
<1>0. LspDocHere
  BY LspShapeKept DEF LspDocHere
<1>a. lspFile.text \in Nat
  BY <1>0, LspNowHere
<1>1. CASE LspEdit
  BY <1>0, <1>1, <1>a, LspDocAround DEF LspEdit
<1>2. CASE LspCooldownEnds
  <2>1. lspManager'.server = lspManager.server
    BY <1>2 DEF LspCooldownEnds, LspShape, LspManagerShape
  <2> QED
    BY <1>0, <1>2, <1>a, <2>1, LspDocAround DEF LspCooldownEnds
<1>3. CASE UNCHANGED lspVars
  BY <1>0, <1>3, <1>a, LspDocAround DEF lspVars
<1>4. ASSUME NEW i \in LspStarts, LspServerDies(i) \/ \E v \in LspVersioned : LspPublish(i, v)
      PROVE  LspDocInv'
  BY <1>0, <1>4, LspDocServerDies, LspDocPublish
<1>5. ASSUME NEW c \in LspCallers, LspGetServer(c) PROVE LspDocInv'
  BY <1>0, <1>5, LspDocLookup, LspDocOnceRuns, LspDocOnceDone, LspDocSpawns, LspDocStartFails,
     LspDocRegisters, LspDocPick DEF LspGetServer
<1>6. ASSUME NEW c \in LspCallers, LspSync(c) PROVE LspDocInv'
  BY <1>0, <1>6, LspDocStat, LspDocCheck, LspDocRead, LspDocSend, LspDocRecord, LspDocClear,
     LspDocFind, LspDocClose, LspDocForget DEF LspSync
<1>7. ASSUME NEW c \in LspCallers, LspDiagnose(c) PROVE LspDocInv'
  BY <1>0, <1>7, LspDocAnswered, LspDocReport, LspDocPull, LspDocNoPull, LspDocStore,
     LspDocSettles DEF LspDiagnose
<1>8. ASSUME NEW c \in LspCallers, NEW op \in {"query", "changed", "deleted"}, LspAsk(c, op)
      PROVE  LspDocInv'
  BY <1>0, <1>8, LspDocAsk
<1> QED
  BY <1>1, <1>2, <1>3, <1>4, <1>5, <1>6, <1>7, <1>8 DEF LspNext

LEMMA LspDocStarts == LspInit => LspDocInv
<1> SUFFICES ASSUME LspInit PROVE LspDocInv
  OBVIOUS
<1>1. \A c \in LspCallers : lspCall[c] = LspIdle
  BY DEF LspInit
<1>2. \A i \in LspStarts : lspServer[i] = LspNoServer
  BY DEF LspInit
<1>3. /\ LspNoServer.proc = "none" /\ LspNoServer.document = NoDocument /\ LspNoServer.sent = <<>>
      /\ LspNoServer.report = NoReport /\ NoDocument.version = 0 /\ NoDocument.stat = 0
      /\ NoReport.version = 0 /\ lspFile.text = 1
      /\ LspIdle.pc = "idle" /\ LspIdle.since = 0 /\ LspIdle.text = 0 /\ LspIdle.stat = 0
  BY DEF LspNoServer, LspIdle, NoDocument, NoReport, LspInit
<1>4. \A k \in 1 .. Len(LspNoServer.sent) : FALSE
  BY <1>3
<1>5. LspNoneNewer(lspCall, lspServer, lspFile.text)
  BY <1>1, <1>2, <1>3, <1>4 DEF LspNoneNewer
<1>6. LspUnstarted
  <2>1. lspManager.server = 0 /\ 0 \notin LspStarts
    BY DEF LspInit, LspStarts
  <2> QED
    BY <1>1, <1>2, <1>3, <2>1 DEF LspUnstarted, LspIs, LspAt, LspWorking, LspPast
<1>7. LspGood(lspCall, lspServer)
  <2>1. \A c \in LspCallers : LspStepFits(lspCall, lspServer, c)
    BY <1>1, <1>3 DEF LspStepFits, LspBefore, LspSending, LspPast
  <2>2. \A c, d \in LspCallers : LspPairFits(lspCall, c, d)
    BY <1>1, <1>3 DEF LspPairFits, LspWorking
  <2>3. \A i \in LspStarts : LspKept(lspCall, lspServer, i) /\ LspLatest(lspCall, lspServer, i)
    BY <1>1, <1>2, <1>3, <1>4 DEF LspKept, LspHeld, LspLatest, LspIs
  <2> QED
    BY <2>1, <2>2, <2>3, SMTT(60) DEF LspGood
<1> QED
  BY <1>5, <1>6, <1>7 DEF LspDocInv

(* LspDocumentIsCurrent, for every number of callers, calls, texts and starts:    *)
(* while the file has the stat on record the server has its text (syncDocument).  *)
THEOREM LspDocumentStaysCurrent == LspSpec => []LspDocumentIsCurrent
<1>1. LspShape /\ LspDocInv => LspDocumentIsCurrent
  <2> SUFFICES ASSUME LspShape, LspDocInv, NEW i \in LspStarts, lspAlone,
                      lspServer[i].document.version # 0, lspServer[i].document.stat = lspFile.text,
                      lspServer[i].proc = "up", ~(\E c \in LspCallers : lspCall[c].pc = "send_change")
               PROVE  /\ lspServer[i].sent # <<>>
                      /\ lspServer[i].sent[Len(lspServer[i].sent)].text = lspFile.text
    BY DEF LspDocumentIsCurrent
  <2>1. LspLatest(lspCall, lspServer, i)
    BY DEF LspDocInv, LspGood
  <2>2. LspReaches(lspServer[i], lspFile.text)
    BY <2>1 DEF LspLatest, LspIs
  <2>3. PICK last : last = Len(lspServer[i].sent)
    OBVIOUS
  <2>4. /\ lspServer[i].sent # <<>> /\ lspServer[i].sent \in Seq(LspReports)
        /\ lspServer[i].sent[last].text \in Nat
    BY <2>2, <2>3, LspTexts DEF LspReaches, LspShape, LspServerShape
  <2>5. last \in 1 .. Len(lspServer[i].sent)
    BY <2>3, <2>4
  <2>6. lspServer[i].sent[last].text <= lspFile.text
    BY <2>5 DEF LspDocInv, LspNoneNewer
  <2>7. lspFile.text \in Nat
    BY LspAssumption DEF LspShape, LspFileShape
  <2> QED
    BY <2>2, <2>3, <2>4, <2>6, <2>7 DEF LspReaches
<1>2. LspShape /\ LspOnceInv /\ LspDocInv /\ [LspNext]_lspVars
          => LspShape' /\ LspOnceInv' /\ LspDocInv'
  BY LspShapeKept, LspOnceKept, LspDocKept
<1>3. LspInit => LspShape /\ LspOnceInv /\ LspDocInv
  BY LspStartsEmpty, LspDocStarts
<1> QED
  BY <1>1, <1>2, <1>3, PTL DEF LspSpec
------------------------------------------------------------------------------
(* The diagnostics of servers that put a version on them: what is kept for a      *)
(* document has one, so that no call takes it for fresh but by its version.       *)
LspFreshInv ==
    LspVersioned \subseteq {TRUE} /\ lspAlone =>
        /\ ~lspStale
        /\ \A i \in LspStarts : lspServer[i].report.version = 0 => lspServer[i].report.text = 0

LspReportsStay ==
    /\ lspStale' = lspStale /\ (lspAlone' => lspAlone)
    /\ \A i \in LspStarts : \/ lspServer'[i].report = lspServer[i].report
                            \/ lspServer'[i].report.text = 0

LEMMA LspFreshStays == LspFreshInv /\ LspReportsStay => LspFreshInv'
<1> SUFFICES ASSUME LspFreshInv, LspReportsStay, LspVersioned \subseteq {TRUE}, lspAlone'
             PROVE  ~lspStale' /\ \A i \in LspStarts : lspServer'[i].report.version = 0 => lspServer'[i].report.text = 0
  BY DEF LspFreshInv
<1>1. lspAlone /\ lspStale' = lspStale
  BY DEF LspReportsStay
<1>2. ~lspStale /\ \A i \in LspStarts : lspServer[i].report.version = 0 => lspServer[i].report.text = 0
  BY <1>1 DEF LspFreshInv
<1>3. \A i \in LspStarts : lspServer'[i].report.version = 0 => lspServer'[i].report.text = 0
  BY <1>2 DEF LspReportsStay
<1> QED
  BY <1>1, <1>2, <1>3

LEMMA LspQuietReports ==
    ASSUME lspServer' = lspServer, lspStale' = lspStale, lspAlone' => lspAlone
    PROVE  LspReportsStay
  BY DEF LspReportsStay

LEMMA LspReportsOfCalls ==
    ASSUME LspDocHere, NEW c \in LspCallers, LspGetServer(c) \/ LspSync(c)
    PROVE  LspReportsStay
<1>1. CASE LspLookup(c) \/ LspOnceRuns(c) \/ LspOnceDone(c) \/ LspRegisters(c) \/ LspPick(c)
  BY <1>1, LspQuietReports, SMTT(60) DEF LspLookup, LspOnceRuns, LspOnceDone, LspRegisters, LspPick
<1>2. CASE LspStat(c) \/ LspCheck(c) \/ LspRead(c) \/ LspFind(c)
  BY <1>2, LspQuietReports DEF LspStat, LspCheck, LspRead, LspFind, LspAloneAt
<1>a. lspServer \in [LspStarts -> LspServers] /\ \A i \in LspStarts : lspServer[i] \in LspServers
  BY LspNowHere
<1>3. CASE LspSpawns(c)
  BY <1>3, <1>a DEF LspReportsStay, LspSpawns, LspServers
<1>4. CASE LspStartFails(c)
  <2>1. CASE lspServer' = lspServer
    BY <1>4, <2>1, LspQuietReports DEF LspStartFails
  <2>2. CASE lspServer' = [lspServer EXCEPT ![lspCall[c].at].proc = "down"]
    BY <1>4, <1>a, <2>2 DEF LspReportsStay, LspStartFails, LspServers
  <2> QED
    BY <1>4, <2>1, <2>2 DEF LspStartFails, LspAt
<1>5. CASE LspSend(c)
  <2>1. CASE lspServer' = lspServer
    BY <1>5, <2>1, LspQuietReports DEF LspSend
  <2>2. CASE lspServer' = [lspServer EXCEPT ![lspCall[c].at].sent = Append(@, [version |-> lspCall[c].version, text |-> lspCall[c].text])]
    BY <1>5, <1>a, <2>2 DEF LspReportsStay, LspSend, LspServers
  <2> QED
    BY <1>5, <2>1, <2>2 DEF LspSend
<1>6. CASE LspRecord(c)
  BY <1>6, <1>a DEF LspReportsStay, LspRecord, LspServers
<1>7. CASE LspClear(c)
  <2>1. NoReport.text = 0
    BY DEF NoReport
  <2> QED
    BY <1>7, <1>a, <2>1 DEF LspReportsStay, LspClear, LspServers
<1>8. CASE LspClose(c)
  <2>1. CASE lspServer' = lspServer
    BY <1>8, <2>1, LspQuietReports DEF LspClose
  <2>2. CASE lspServer' = [lspServer EXCEPT ![lspCall[c].at].sent = Append(@, [version |-> 0, text |-> 0])]
    BY <1>8, <1>a, <2>2 DEF LspReportsStay, LspClose, LspServers
  <2> QED
    BY <1>8, <2>1, <2>2 DEF LspClose
<1>9. CASE LspForget(c)
  BY <1>9, <1>a DEF LspReportsStay, LspForget, LspServers
<1> QED
  BY <1>1, <1>2, <1>3, <1>4, <1>5, <1>6, <1>7, <1>8, <1>9 DEF LspGetServer, LspSync

(* A versioned report that a call takes for fresh is of a text it may show.       *)
LEMMA LspFreshReport ==
    ASSUME LspDocHere, LspFreshInv, NEW c \in LspCallers, LspReport(c) PROVE LspFreshInv'
<1> SUFFICES ASSUME LspVersioned \subseteq {TRUE}, lspAlone'
             PROVE  ~lspStale' /\ \A i \in LspStarts : lspServer'[i].report.version = 0 => lspServer'[i].report.text = 0
  BY DEF LspFreshInv
<1>1. /\ lspServer' = lspServer /\ lspAlone /\ Fresh(lspCall[c], lspServer[lspCall[c].at].report)
      /\ lspStale' = (lspStale \/ lspServer[lspCall[c].at].report.text < lspCall[c].since)
      /\ lspCall[c].pc \in {"diagnose", "wait"}
  BY DEF LspReport
<1>2. lspCall[c].at \in LspStarts
  BY <1>1, LspCallNow DEF LspDocHere, LspPlaced
<1>3. PICK i \in LspStarts : i = lspCall[c].at
  BY <1>2
<1>4. lspServer[i].report.version # 0 /\ lspServer[i].report.version = lspCall[c].version
  BY <1>1, <1>3 DEF LspFreshInv, Fresh
<1>5. LspKept(lspCall, lspServer, i)
  BY <1>1, LspNowHere DEF LspGood
<1>6. lspCall[c].since <= lspServer[i].report.text
  BY <1>1, <1>3, <1>4, <1>5 DEF LspKept, LspHeld, LspIs, LspPast
<1>7. lspCall[c].since \in Nat /\ lspServer[i].report.text \in Nat
  BY LspCallOlds, LspServerFields
<1>8. ~(lspServer[i].report.text < lspCall[c].since)
  BY <1>6, <1>7
<1>9. ~lspStale /\ \A j \in LspStarts : lspServer[j].report.version = 0 => lspServer[j].report.text = 0
  BY <1>1 DEF LspFreshInv
<1> QED
  BY <1>1, <1>3, <1>8, <1>9

(* What a call stores has the version it sent, and a text it may show.            *)
LEMMA LspFreshStore ==
    ASSUME LspDocHere, LspFreshInv, NEW c \in LspCallers, LspStore(c) PROVE LspFreshInv'
<1> SUFFICES ASSUME LspVersioned \subseteq {TRUE}, lspAlone'
             PROVE  ~lspStale' /\ \A i \in LspStarts : lspServer'[i].report.version = 0 => lspServer'[i].report.text = 0
  BY DEF LspFreshInv
<1>1. /\ lspAlone /\ lspCall[c].pc = "store"
      /\ lspStale' = (lspStale \/ lspCall[c].text < lspCall[c].since)
  BY DEF LspStore
<1>2. lspCall[c].at \in LspStarts
  BY <1>1, LspCallNow DEF LspDocHere, LspPlaced
<1>3. PICK i \in LspStarts : i = lspCall[c].at
  BY <1>2
<1>4. LspKept(lspCall, lspServer, i) /\ LspStepFits(lspCall, lspServer, c)
  BY <1>1, LspNowHere DEF LspGood
<1>5. lspCall[c].version # 0
  BY <1>1, <1>4, SMTT(60) DEF LspStepFits, LspPast
<1>6. lspCall[c].since <= lspCall[c].text
  BY <1>1, <1>3, <1>4, <1>5 DEF LspKept, LspHeld, LspIs, LspPast
<1>7. ~(lspCall[c].text < lspCall[c].since)
  BY <1>6, LspCallOlds
<1>8. lspServer' = [lspServer EXCEPT ![i].report = [version |-> lspCall[c].version, text |-> lspCall[c].text]]
  BY <1>3 DEF LspStore
<1>9. lspServer'[i].report.version = lspCall[c].version /\ \A j \in LspStarts : j # i => lspServer'[j] = lspServer[j]
  BY <1>8, LspServerFields, LspNowHere DEF LspServers
<1>10. ~lspStale /\ \A j \in LspStarts : lspServer[j].report.version = 0 => lspServer[j].report.text = 0
  BY <1>1 DEF LspFreshInv
<1> QED
  BY <1>1, <1>5, <1>7, <1>9, <1>10

LEMMA LspFreshPublish ==
    ASSUME LspDocHere, LspFreshInv, NEW i \in LspStarts, NEW v \in LspVersioned, LspPublish(i, v)
    PROVE  LspFreshInv'
<1> SUFFICES ASSUME LspVersioned \subseteq {TRUE}, lspAlone'
             PROVE  ~lspStale' /\ \A j \in LspStarts : lspServer'[j].report.version = 0 => lspServer'[j].report.text = 0
  BY DEF LspFreshInv
<1>0. v = TRUE
  OBVIOUS
<1>a. PICK k : /\ lspServer[i].sent[k].version # 0 /\ lspStale' = lspStale /\ lspAlone' = lspAlone
               /\ lspServer' = [lspServer EXCEPT ![i].published = k,
                       ![i].report = [text |-> lspServer[i].sent[k].text,
                                      version |-> IF v THEN lspServer[i].sent[k].version ELSE 0]]
  BY DEF LspPublish
<1>b. PICK text, version : text = lspServer[i].sent[k].text /\ version = lspServer[i].sent[k].version
  OBVIOUS
<1>1. /\ lspServer' = [lspServer EXCEPT ![i].published = k,
                           ![i].report = [text |-> text, version |-> version]]
      /\ version # 0 /\ lspStale' = lspStale /\ lspAlone
  BY <1>0, <1>a, <1>b
<1>2. lspServer'[i].report.version = version /\ \A j \in LspStarts : j # i => lspServer'[j] = lspServer[j]
  BY <1>1, LspServerFields, LspNowHere DEF LspServers
<1>3. ~lspStale /\ \A j \in LspStarts : lspServer[j].report.version = 0 => lspServer[j].report.text = 0
  BY <1>1 DEF LspFreshInv
<1> QED
  BY <1>1, <1>2, <1>3

LEMMA LspFreshKept ==
    ASSUME LspShape, LspOnceInv, LspDocInv, LspFreshInv, [LspNext]_lspVars PROVE LspFreshInv'
<1>0. LspDocHere
  BY LspShapeKept DEF LspDocHere
<1>1. CASE LspEdit \/ LspCooldownEnds \/ UNCHANGED lspVars
  BY <1>1, LspQuietReports, LspFreshStays DEF LspEdit, LspCooldownEnds, lspVars
<1>2. ASSUME NEW i \in LspStarts, LspServerDies(i) PROVE LspFreshInv'
  <2>1. \A j \in LspStarts : lspServer[j] \in LspServers
    BY <1>0, LspNowHere
  <2>2. LspReportsStay
    BY <1>0, <1>2, <2>1, LspNowHere DEF LspReportsStay, LspServerDies, LspServers
  <2> QED
    BY <2>2, LspFreshStays
<1>3. ASSUME NEW i \in LspStarts, NEW v \in LspVersioned, LspPublish(i, v) PROVE LspFreshInv'
  BY <1>0, <1>3, LspFreshPublish
<1>4. ASSUME NEW c \in LspCallers, LspGetServer(c) \/ LspSync(c) PROVE LspFreshInv'
  BY <1>0, <1>4, LspReportsOfCalls, LspFreshStays
<1>5. ASSUME NEW c \in LspCallers, LspDiagnose(c) PROVE LspFreshInv'
  <2>1. CASE LspReport(c)
    BY <1>0, <2>1, LspFreshReport
  <2>2. CASE LspStore(c)
    BY <1>0, <2>2, LspFreshStore
  <2>3. CASE LspNoPull(c)
    <3>1. lspServer \in [LspStarts -> LspServers] /\ \A j \in LspStarts : lspServer[j] \in LspServers
      BY <1>0, LspNowHere
    <3>2. lspStale' = lspStale /\ lspAlone' = lspAlone
      BY <2>3 DEF LspNoPull
    <3>3. CASE lspServer' = lspServer
      BY <3>2, <3>3, LspQuietReports, LspFreshStays
    <3>4. CASE lspServer' = [lspServer EXCEPT ![lspCall[c].at].pull = FALSE]
      <4>1. LspReportsStay
        BY <3>1, <3>2, <3>4, SMTT(60) DEF LspReportsStay, LspServers
      <4> QED
        BY <4>1, LspFreshStays
    <3> QED
      BY <2>3, <3>3, <3>4 DEF LspNoPull
  <2>4. CASE LspAnswered(c) \/ LspPull(c) \/ LspSettles(c)
    BY <2>4, LspQuietReports, LspFreshStays DEF LspAnswered, LspPull, LspSettles
  <2> QED
    BY <1>5, <2>1, <2>2, <2>3, <2>4 DEF LspDiagnose
<1>6. ASSUME NEW c \in LspCallers, NEW op \in {"query", "changed", "deleted"}, LspAsk(c, op)
      PROVE  LspFreshInv'
  BY <1>6, LspQuietReports, LspFreshStays DEF LspAsk
<1> QED
  BY <1>1, <1>2, <1>3, <1>4, <1>5, <1>6 DEF LspNext

(* LspDiagnosticsAreCurrent, for every number of callers, calls, texts and        *)
(* starts, when the server puts a version on what it publishes: the diagnostics a *)
(* call returns are of a text the file had when it began or later                 *)
(* (RefreshDiagnostics). A report without a version is judged by a count alone.   *)
THEOREM LspDiagnosticsStayCurrent ==
    LspSpec => [](LspVersioned \subseteq {TRUE} => LspDiagnosticsAreCurrent)
<1>1. LspFreshInv => (LspVersioned \subseteq {TRUE} => LspDiagnosticsAreCurrent)
  BY DEF LspFreshInv, LspDiagnosticsAreCurrent
<1>2. LspShape /\ LspOnceInv /\ LspDocInv /\ LspFreshInv /\ [LspNext]_lspVars
          => LspShape' /\ LspOnceInv' /\ LspDocInv' /\ LspFreshInv'
  BY LspShapeKept, LspOnceKept, LspDocKept, LspFreshKept
<1>3. LspInit => LspShape /\ LspOnceInv /\ LspDocInv /\ LspFreshInv
  <2>1. LspInit => LspFreshInv
    BY DEF LspInit, LspFreshInv, LspNoServer, NoReport
  <2> QED
    BY <2>1, LspStartsEmpty, LspDocStarts
<1> QED
  BY <1>1, <1>2, <1>3, PTL DEF LspSpec

------------------------------------------------------------------------------
(* Type correctness of a language server. What is not in the shape: how far a     *)
(* server can have spoken, and the count of the calls.                            *)
LspSpoken(servers) == \A i \in LspStarts : servers[i].published <= Len(servers[i].sent)
LspCounts == lspCalls \in 0 .. LspMaxCalls /\ lspAlone \in BOOLEAN

LEMMA LspSpokenPut ==
    ASSUME LspShape, LspSpoken(lspServer), NEW i, NEW server,
           lspServer' = [lspServer EXCEPT ![i] = server],
           i \in LspStarts => server.published <= Len(server.sent)
    PROVE  LspSpoken(lspServer')
<1>1. lspServer \in [LspStarts -> LspServers]
  BY DEF LspShape, LspServerShape
<1>2. ASSUME NEW j \in LspStarts PROVE lspServer'[j] = lspServer[j] \/ (j = i /\ lspServer'[j] = server)
  BY <1>1
<1>3. ASSUME NEW j \in LspStarts PROVE lspServer'[j].published <= Len(lspServer'[j].sent)
  BY <1>2 DEF LspSpoken
<1> QED
  BY <1>3 DEF LspSpoken

(* What a step does to a server: neither field, one notification more, or a loss. *)
LEMMA LspSpokenFields ==
    ASSUME LspShape, LspSpoken(lspServer), NEW i \in LspStarts
    PROVE  /\ \A proc : LET s == [lspServer[i] EXCEPT !.proc = proc] IN s.published <= Len(s.sent)
           /\ \A document : LET s == [lspServer[i] EXCEPT !.document = document] IN s.published <= Len(s.sent)
           /\ \A report : LET s == [lspServer[i] EXCEPT !.report = report] IN s.published <= Len(s.sent)
           /\ \A pull : LET s == [lspServer[i] EXCEPT !.pull = pull] IN s.published <= Len(s.sent)
           /\ \A proc : LET s == [lspServer[i] EXCEPT !.proc = proc, !.sent = <<>>, !.published = 0]
                        IN s.published <= Len(s.sent)
           /\ \A one : LET s == [lspServer[i] EXCEPT !.sent = Append(@, one)] IN s.published <= Len(s.sent)
           /\ \A k, report : k <= Len(lspServer[i].sent) =>
                 LET s == [lspServer[i] EXCEPT !.published = k, !.report = report] IN s.published <= Len(s.sent)
<1> PICK old : old = lspServer[i]
  OBVIOUS
<1>1. old \in LspServers /\ old.published <= Len(old.sent)
  BY DEF LspShape, LspServerShape, LspSpoken
<1>2. old.published \in Nat /\ old.sent \in Seq(LspReports)
  BY <1>1 DEF LspServers
<1>3. Len(old.sent) \in Nat /\ \A one : Len(Append(old.sent, one)) = Len(old.sent) + 1
  BY <1>2
<1>4. \A one : old.published <= Len(Append(old.sent, one))
  BY <1>1, <1>2, <1>3
<1>5. ASSUME NEW proc
      PROVE  LET s == [old EXCEPT !.proc = proc, !.sent = <<>>, !.published = 0] IN s.published <= Len(s.sent)
  <2>1. [old EXCEPT !.proc = proc, !.sent = <<>>, !.published = 0].published = 0
    BY <1>1 DEF LspServers
  <2>2. [old EXCEPT !.proc = proc, !.sent = <<>>, !.published = 0].sent = <<>>
    BY <1>1 DEF LspServers
  <2>3. 0 <= Len(<<>>)
    OBVIOUS
  <2> QED
    BY <2>1, <2>2, <2>3
<1>6. ASSUME NEW one
      PROVE  LET s == [old EXCEPT !.sent = Append(@, one)] IN s.published <= Len(s.sent)
  BY <1>1, <1>4 DEF LspServers
<1>7. ASSUME NEW k, NEW report, k <= Len(old.sent)
      PROVE  LET s == [old EXCEPT !.published = k, !.report = report] IN s.published <= Len(s.sent)
  BY <1>1, <1>7 DEF LspServers
<1>8. ASSUME NEW new
      PROVE  /\ LET s == [old EXCEPT !.proc = new] IN s.published <= Len(s.sent)
             /\ LET s == [old EXCEPT !.document = new] IN s.published <= Len(s.sent)
             /\ LET s == [old EXCEPT !.report = new] IN s.published <= Len(s.sent)
             /\ LET s == [old EXCEPT !.pull = new] IN s.published <= Len(s.sent)
  BY <1>1 DEF LspServers
<1> QED
  BY <1>5, <1>6, <1>7, <1>8

LEMMA LspSpokenKept ==
    ASSUME LspShape, LspSpoken(lspServer), [LspNext]_lspVars PROVE LspSpoken(lspServer')
<1>0. lspServer' = lspServer => LspSpoken(lspServer')
  OBVIOUS
<1>1. ASSUME NEW i \in LspStarts, LspServerDies(i) PROVE LspSpoken(lspServer')
  <2>1. PICK s : s = [lspServer[i] EXCEPT !.proc = "down", !.sent = <<>>, !.published = 0]
    OBVIOUS
  <2>2. lspServer' = [lspServer EXCEPT ![i] = s]
    BY <1>1, <2>1 DEF LspServerDies, LspShape, LspServerShape
  <2>3. s.published <= Len(s.sent)
    BY <2>1, LspSpokenFields
  <2> QED
    BY <2>2, <2>3, LspSpokenPut
<1>2. ASSUME NEW i \in LspStarts, NEW v \in LspVersioned, LspPublish(i, v) PROVE LspSpoken(lspServer')
  <2>1. PICK k, report :
           /\ k <= Len(lspServer[i].sent)
           /\ lspServer' = [lspServer EXCEPT ![i].published = k, ![i].report = report]
    <3>1. Len(lspServer[i].sent) \in Int /\ lspServer[i].published \in Int
      BY DEF LspShape, LspServerShape, LspServers
    <3>2. \A k \in lspServer[i].published .. Len(lspServer[i].sent) : k <= Len(lspServer[i].sent)
      BY <3>1
    <3> QED
      BY <1>2, <3>2, ZenonT(60) DEF LspPublish
  <2>2. PICK s : s = [lspServer[i] EXCEPT !.published = k, !.report = report]
    OBVIOUS
  <2>3. lspServer' = [lspServer EXCEPT ![i] = s]
    BY <2>1, <2>2 DEF LspShape, LspServerShape
  <2>4. s.published <= Len(s.sent)
    BY <2>1, <2>2, LspSpokenFields
  <2> QED
    BY <2>3, <2>4, LspSpokenPut
<1>3. ASSUME NEW i, NEW s, lspServer' = [lspServer EXCEPT ![i] = s],
             \/ \E new : \/ s = [lspServer[i] EXCEPT !.proc = new]
                         \/ s = [lspServer[i] EXCEPT !.document = new]
                         \/ s = [lspServer[i] EXCEPT !.report = new]
                         \/ s = [lspServer[i] EXCEPT !.pull = new]
             \/ \E one : s = [lspServer[i] EXCEPT !.sent = Append(@, one)]
      PROVE  LspSpoken(lspServer')
  <2>1. i \in LspStarts => s.published <= Len(s.sent)
    BY <1>3, LspSpokenFields
  <2> QED
    BY <1>3, <2>1, LspSpokenPut
<1>4. ASSUME NEW c \in LspCallers, LspGetServer(c) \/ LspSync(c) \/ LspDiagnose(c)
      PROVE  LspSpoken(lspServer')
  <2> PICK i : i = lspCall[c].at
    BY SMTT(60)
  <2>1. \/ lspServer' = lspServer
        \/ \E new : \/ lspServer' = [lspServer EXCEPT ![i].proc = new]
                    \/ lspServer' = [lspServer EXCEPT ![i].document = new]
                    \/ lspServer' = [lspServer EXCEPT ![i].report = new]
                    \/ lspServer' = [lspServer EXCEPT ![i].pull = new]
        \/ \E one : lspServer' = [lspServer EXCEPT ![i].sent = Append(@, one)]
    <3>1. CASE LspGetServer(c)
      <4>1. LspSpawns(c) => lspServer' = [lspServer EXCEPT ![i].proc = "up"]
        BY DEF LspSpawns
      <4>2. LspStartFails(c) => lspServer' = lspServer \/ lspServer' = [lspServer EXCEPT ![i].proc = "down"]
        BY DEF LspStartFails, LspAt
      <4>3. LspLookup(c) \/ LspOnceRuns(c) \/ LspOnceDone(c) \/ LspRegisters(c) \/ LspPick(c)
            => lspServer' = lspServer
        BY SMTT(60) DEF LspLookup, LspOnceRuns, LspOnceDone, LspRegisters, LspPick
      <4> QED
        BY <3>1, <4>1, <4>2, <4>3 DEF LspGetServer
    <3>2. CASE LspSync(c)
      <4>1. LspSend(c) => \/ lspServer' = lspServer
                          \/ \E one : lspServer' = [lspServer EXCEPT ![i].sent = Append(@, one)]
        BY DEF LspSend
      <4>2. LspRecord(c) => \E new : lspServer' = [lspServer EXCEPT ![i].document = new]
        BY DEF LspRecord
      <4>3. LspClear(c) => lspServer' = [lspServer EXCEPT ![i].report = NoReport]
        BY DEF LspClear
      <4>4. LspClose(c) => \/ lspServer' = lspServer
                           \/ \E one : lspServer' = [lspServer EXCEPT ![i].sent = Append(@, one)]
        BY DEF LspClose
      <4>5. LspForget(c) => lspServer' = [lspServer EXCEPT ![i].document = NoDocument]
        BY DEF LspForget
      <4>6. LspStat(c) \/ LspCheck(c) \/ LspRead(c) \/ LspFind(c) => lspServer' = lspServer
        BY DEF LspStat, LspCheck, LspRead, LspFind
      <4> QED
        BY <3>2, <4>1, <4>2, <4>3, <4>4, <4>5, <4>6 DEF LspSync
    <3>3. CASE LspDiagnose(c)
      <4>1. LspNoPull(c) => lspServer' = lspServer \/ lspServer' = [lspServer EXCEPT ![i].pull = FALSE]
        BY DEF LspNoPull
      <4>2. LspStore(c) => \E new : lspServer' = [lspServer EXCEPT ![i].report = new]
        BY DEF LspStore
      <4>3. LspAnswered(c) \/ LspReport(c) \/ LspPull(c) \/ LspSettles(c) => lspServer' = lspServer
        BY DEF LspAnswered, LspReport, LspPull, LspSettles
      <4> QED
        BY <3>3, <4>1, <4>2, <4>3 DEF LspDiagnose
    <3> QED
      BY <1>4, <3>1, <3>2, <3>3
  <2>2. CASE lspServer' = lspServer
    BY <1>0, <2>2
  <2>3. ASSUME NEW new, \/ lspServer' = [lspServer EXCEPT ![i].proc = new]
                        \/ lspServer' = [lspServer EXCEPT ![i].document = new]
                        \/ lspServer' = [lspServer EXCEPT ![i].report = new]
                        \/ lspServer' = [lspServer EXCEPT ![i].pull = new]
        PROVE  LspSpoken(lspServer')
    <3>1. CASE lspServer' = [lspServer EXCEPT ![i].proc = new]
      <4>1. PICK s : s = [lspServer[i] EXCEPT !.proc = new]
        OBVIOUS
      <4> QED
        BY <1>3, <3>1, <4>1
    <3>2. CASE lspServer' = [lspServer EXCEPT ![i].document = new]
      <4>1. PICK s : s = [lspServer[i] EXCEPT !.document = new]
        OBVIOUS
      <4> QED
        BY <1>3, <3>2, <4>1
    <3>3. CASE lspServer' = [lspServer EXCEPT ![i].report = new]
      <4>1. PICK s : s = [lspServer[i] EXCEPT !.report = new]
        OBVIOUS
      <4> QED
        BY <1>3, <3>3, <4>1
    <3>4. CASE lspServer' = [lspServer EXCEPT ![i].pull = new]
      <4>1. PICK s : s = [lspServer[i] EXCEPT !.pull = new]
        OBVIOUS
      <4> QED
        BY <1>3, <3>4, <4>1
    <3> QED
      BY <2>3, <3>1, <3>2, <3>3, <3>4, SMTT(60)
  <2>4. ASSUME NEW one, lspServer' = [lspServer EXCEPT ![i].sent = Append(@, one)]
        PROVE  LspSpoken(lspServer')
    <3>1. PICK s : s = [lspServer[i] EXCEPT !.sent = Append(@, one)]
      OBVIOUS
    <3> QED
      BY <1>3, <2>4, <3>1
  <2> QED
    BY <2>1, <2>2, <2>3, <2>4
<1>5. ASSUME NEW c \in LspCallers, NEW op \in {"query", "changed", "deleted"}, LspAsk(c, op)
      PROVE  LspSpoken(lspServer')
  BY <1>0, <1>5 DEF LspAsk
<1>6. CASE LspEdit \/ LspCooldownEnds \/ UNCHANGED lspVars
  BY <1>0, <1>6 DEF LspEdit, LspCooldownEnds, lspVars
<1> QED
  BY <1>1, <1>2, <1>4, <1>5, <1>6 DEF LspNext

LEMMA LspCountsKept == LspCounts /\ [LspNext]_lspVars => LspCounts'
<1> SUFFICES ASSUME LspCounts, [LspNext]_lspVars PROVE LspCounts'
  OBVIOUS
<1>1. ASSUME NEW c \in LspCallers, NEW op, LspAsk(c, op) PROVE LspCounts'
  BY <1>1, LspAssumption DEF LspAsk, LspCounts
<1>2. ASSUME NEW c \in LspCallers, LspStat(c) PROVE lspCalls' = lspCalls /\ lspAlone' \in BOOLEAN
  BY <1>2 DEF LspStat, LspAloneAt
<1>3. ASSUME NEW c \in LspCallers, LspFind(c) PROVE lspCalls' = lspCalls /\ lspAlone' \in {lspAlone, FALSE}
  BY <1>3 DEF LspFind
<1>4. ASSUME NEW c \in LspCallers,
             \/ LspGetServer(c) \/ LspDiagnose(c) \/ LspCheck(c) \/ LspRead(c) \/ LspSend(c)
             \/ LspRecord(c) \/ LspClear(c) \/ LspClose(c) \/ LspForget(c)
      PROVE  lspCalls' = lspCalls /\ lspAlone' = lspAlone
  <2>1. LspGetServer(c) => lspCalls' = lspCalls /\ lspAlone' = lspAlone
    BY DEF LspGetServer, LspLookup, LspOnceRuns, LspOnceDone, LspSpawns, LspStartFails, LspRegisters, LspPick
  <2>a. LspAnswered(c) \/ LspReport(c) \/ LspStore(c) => lspCalls' = lspCalls /\ lspAlone' = lspAlone
    BY SMTT(60) DEF LspAnswered, LspReport, LspStore
  <2>b. LspPull(c) \/ LspNoPull(c) \/ LspSettles(c) => lspCalls' = lspCalls /\ lspAlone' = lspAlone
    BY DEF LspPull, LspNoPull, LspSettles
  <2>2. LspDiagnose(c) => lspCalls' = lspCalls /\ lspAlone' = lspAlone
    BY <2>a, <2>b, SMTT(60) DEF LspDiagnose
  <2>3. LspCheck(c) \/ LspRead(c) \/ LspSend(c) \/ LspRecord(c) \/ LspClear(c) \/ LspClose(c) \/ LspForget(c)
        => lspCalls' = lspCalls /\ lspAlone' = lspAlone
    BY ZenonT(60) DEF LspCheck, LspRead, LspSend, LspRecord, LspClear, LspClose, LspForget
  <2> QED
    BY <1>4, <2>1, <2>2, <2>3
<1>5. ASSUME NEW i \in LspStarts, LspServerDies(i) \/ \E v \in LspVersioned : LspPublish(i, v)
      PROVE  lspCalls' = lspCalls /\ lspAlone' = lspAlone
  BY <1>5 DEF LspServerDies, LspPublish
<1>6. CASE LspEdit \/ LspCooldownEnds \/ UNCHANGED lspVars
  <2>1. lspCalls' = lspCalls /\ lspAlone' = lspAlone
    BY <1>6 DEF LspEdit, LspCooldownEnds, lspVars
  <2> QED
    BY <2>1 DEF LspCounts
<1>7. lspCalls' = lspCalls /\ lspAlone' \in {lspAlone, FALSE} => LspCounts'
  BY DEF LspCounts
<1>8. lspCalls' = lspCalls /\ lspAlone' \in BOOLEAN => LspCounts'
  BY DEF LspCounts
<1> QED
  BY <1>1, <1>2, <1>3, <1>4, <1>5, <1>6, <1>7, <1>8 DEF LspNext, LspSync

LEMMA LspTypesHold == LspShape /\ LspDocInv /\ LspSpoken(lspServer) /\ LspCounts => LspTypeOK
<1> SUFFICES ASSUME LspShape, LspDocInv, LspSpoken(lspServer), LspCounts PROVE LspTypeOK
  OBVIOUS
<1>1. LspFileShape /\ LspManagerShape /\ LspOnceShape /\ LspServerShape /\ LspCallShape
  BY DEF LspShape
<1>2. ASSUME NEW i \in LspStarts
      PROVE  /\ lspServer[i].proc \in {"none", "up", "down"}
             /\ lspServer[i].document \in [version : Nat, stat : 0 .. LspMaxTexts]
             /\ lspServer[i].published <= Len(lspServer[i].sent)
  <2>1. lspServer[i] \in LspServers
    BY <1>1 DEF LspServerShape
  <2>2. PICK d : d = lspServer[i].document
    OBVIOUS
  <2>3. d \in LspDocuments
    BY <2>1, <2>2 DEF LspServers
  <2>4. d.stat \in Nat /\ d.stat <= lspFile.text
    BY <2>2, <2>3 DEF LspDocuments, LspDocInv, LspNoneNewer
  <2>5. lspFile.text \in 1 .. LspMaxTexts
    BY <1>1 DEF LspFileShape
  <2>6. d.stat \in 0 .. LspMaxTexts
    BY <2>4, <2>5, LspAssumption
  <2>7. d \in [version : Nat, stat : 0 .. LspMaxTexts]
    BY <2>3, <2>6 DEF LspDocuments
  <2> QED
    BY <2>1, <2>2, <2>7 DEF LspServers, LspSpoken
<1>3. \A c \in LspCallers : lspCall[c].at \in 0 .. LspMaxStarts
  BY <1>1 DEF LspCallShape, LspCallRecords
<1> QED
  BY <1>1, <1>2, <1>3 DEF LspTypeOK, LspFileShape, LspManagerShape, LspOnceShape, LspCounts

(* Files, servers, calls and what the manager keeps are in their sets: a document *)
(* has a stat the file had, and a server has spoken of what it was sent.          *)
THEOREM LspTypeCorrect == LspSpec => []LspTypeOK
<1>1. LspInit => LspSpoken(lspServer) /\ LspCounts
  <2> SUFFICES ASSUME LspInit PROVE LspSpoken(lspServer) /\ LspCounts
    OBVIOUS
  <2>1. \A i \in LspStarts : lspServer[i] = LspNoServer
    BY DEF LspInit
  <2>2. LspNoServer.published = 0 /\ Len(LspNoServer.sent) = 0
    BY DEF LspNoServer
  <2>3. LspCounts
    BY LspAssumption DEF LspInit, LspCounts
  <2> QED
    BY <2>1, <2>2, <2>3 DEF LspSpoken
<1>2. LspInit => LspShape /\ LspOnceInv /\ LspDocInv
  BY LspStartsEmpty, LspDocStarts
<1>3. (LspShape /\ LspOnceInv /\ LspDocInv /\ LspSpoken(lspServer) /\ LspCounts) /\ [LspNext]_lspVars
      => (LspShape /\ LspOnceInv /\ LspDocInv /\ LspSpoken(lspServer) /\ LspCounts)'
  BY LspShapeKept, LspOnceKept, LspDocKept, LspSpokenKept, LspCountsKept
<1>4. LspShape /\ LspDocInv /\ LspSpoken(lspServer) /\ LspCounts => LspTypeOK
  BY LspTypesHold
<1> QED
  BY <1>1, <1>2, <1>3, <1>4, PTL DEF LspSpec

------------------------------------------------------------------------------
(* The three together, as they are checked.                                       *)

(* A behaviour of the goroutines together is one of each of them that may stop at *)
(* any time.                                                                      *)
THEOREM GoroutinesAreTheComponents ==
    GoSpec => Init /\ [][Next]_vars /\ BgSpec /\ LspSpec
<1>1. GoInit => Init /\ BgInit /\ LspInit
  BY DEF GoInit
<1>2. [GoNext]_goVars => [Next]_vars /\ [BgNext]_bgVars /\ [LspNext]_lspVars
  BY DEF GoNext, goVars
<1> QED
  BY <1>1, <1>2, PTL DEF GoSpec, BgSpec, LspSpec

(* Whichever goroutine a behaviour is about, its state is well typed.             *)
THEOREM GoroutinesTypeCorrect == GoSpec => []GoTypeOK
<1>1. TypeOK /\ BgTypeOK /\ LspTypeOK => GoTypeOK
  BY DEF GoTypeOK
<1> QED
  BY <1>1, GoroutinesAreTheComponents, WatcherTypes, BgTypeCorrect, LspTypeCorrect, PTL
====
