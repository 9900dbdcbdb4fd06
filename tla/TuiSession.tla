----------------------------- MODULE TuiSession -----------------------------
(***************************************************************************)
(* The terminal UI following a session (internal/tui), composed with the   *)
(* services it runs on.  The UI lives in the same process as the services. *)
(* It fetches a Snapshot, opens a watch after that snapshot's sequence and *)
(* from then on folds the watched events into a projector of its own.      *)
(* Bubble Tea runs commands in goroutines and queues their results, so     *)
(* between a command reading the service and Update handling its message   *)
(* anything may happen: fetched and refresh hold such messages in flight.  *)
(***************************************************************************)
EXTENDS SessionService

CONSTANTS MaxRefreshes,  \* bound: snapshot refreshes requested
          NoView         \* the UI shows no session

ASSUME TuiAssumption == MaxRefreshes \in Nat

VARIABLES view,      \* view[c]: Model.projector of the UI c
          fetched,   \* openSessionCmd has its Snapshot and not yet its watch
          refresh,   \* sessionSnapshotRefreshedMsg in flight
          failed,    \* failed[c]: Projector.Apply refused an event (Model.err)
          refreshes  \* number of refreshes requested

tuiVars == <<view, fetched, refresh, failed, refreshes>>
allVars == <<vars, tuiVars>>

TuiInit ==
  /\ Init
  /\ view = [c \in Clients |-> NoView]
  /\ fetched = [c \in Clients |-> NoView]
  /\ refresh = [c \in Clients |-> NoView]
  /\ failed = [c \in Clients |-> FALSE]
  /\ refreshes = 0

\* SessionService.Snapshot, as the commands call it.
SnapshotOf(p) == Cloned(projector[p])

\* openSessionCmd, first half.
FetchSnapshot(p, c) ==
  /\ Free(p) /\ IsLoaded(p)
  /\ watching[c] = Nobody /\ fetched[c] = NoView
  /\ fetched' = [fetched EXCEPT ![c] = SnapshotOf(p)]
  /\ UNCHANGED <<vars, view, refresh, failed, refreshes>>

\* Mutant: the watch starts at the newest event, not at the snapshot fetched.
OpenViewAtLatest(p, c) ==
  /\ fetched[c] # NoView
  /\ Watch(p, c, lastDurable[p])
  /\ view' = [view EXCEPT ![c] = fetched[c]]
  /\ fetched' = [fetched EXCEPT ![c] = NoView]
  /\ failed' = [failed EXCEPT ![c] = FALSE]
  /\ UNCHANGED <<refresh, refreshes>>

\* openSessionCmd, second half, and sessionOpenedMsg: applyView.
OpenView(p, c) ==
  /\ fetched[c] # NoView
  /\ Watch(p, c, fetched[c].last)
  /\ view' = [view EXCEPT ![c] = fetched[c]]
  /\ fetched' = [fetched EXCEPT ![c] = NoView]
  /\ failed' = [failed EXCEPT ![c] = FALSE]
  /\ UNCHANGED <<refresh, refreshes>>

\* Mutant: a durable event with the cursor's own sequence passes.
AlreadySeenStrict(state, e) == e.seq < state.last

\* applyWatchEventBatch skips what the view already holds.
AlreadySeen(state, e) ==
  e.seq < state.last \/ (e.kind # "live" /\ e.seq = state.last)

\* applyWatchEventBatch for one event.  An ephemeral event changes only
\* transient text; a refused event ends the watch.
ReceiveEvent(c) ==
  /\ view[c] # NoView /\ ~failed[c]
  /\ Deliver(c)
  /\ LET e == Head(queue[c]) IN
       IF AlreadySeen(view[c], e) \/ e.kind = "live"
       THEN UNCHANGED <<view, failed>>
       ELSE IF OutOfOrder(view[c], e.seq)
       THEN failed' = [failed EXCEPT ![c] = TRUE] /\ UNCHANGED view
       ELSE view' = [view EXCEPT ![c] = Applied(@, e)] /\ UNCHANGED failed
  /\ UNCHANGED <<fetched, refresh, refreshes>>

\* refreshSessionSnapshotCmd: requested when a tool call looks stale or a
\* cancel finds no running turn.
RequestRefresh(p, c) ==
  /\ refreshes < MaxRefreshes
  /\ Free(p) /\ IsLoaded(p)
  /\ watching[c] = p /\ refresh[c] = NoView
  /\ refreshes' = refreshes + 1
  /\ refresh' = [refresh EXCEPT ![c] = SnapshotOf(p)]
  /\ UNCHANGED <<vars, view, fetched, failed>>

\* handleSessionSnapshotRefreshedMsg replaces the projector.  A message for a
\* session the UI has left is dropped.
ApplyRefresh(c) ==
  /\ refresh[c] # NoView
  /\ view' = IF view[c] = NoView THEN view ELSE [view EXCEPT ![c] = refresh[c]]
  /\ refresh' = [refresh EXCEPT ![c] = NoView]
  /\ UNCHANGED <<vars, fetched, failed, refreshes>>

\* The UI switches to another session.
LeaveView(c) ==
  /\ view[c] # NoView
  /\ Unwatch(c)
  /\ view' = [view EXCEPT ![c] = NoView]
  /\ UNCHANGED <<fetched, refresh, failed, refreshes>>

\* The process takes its UI down with it.
CrashAll(p) ==
  /\ Crash(p)
  /\ view' = [c \in Clients |-> NoView]
  /\ fetched' = [c \in Clients |-> NoView]
  /\ refresh' = [c \in Clients |-> NoView]
  /\ failed' = [c \in Clients |-> FALSE]
  /\ UNCHANGED refreshes

ServiceStep(p) ==
  /\ \/ Open(p)
     \/ \E kind \in DurableKinds : AppendEvent(p, kind)
     \/ SnapshotOnRead(p) \/ SaveSnapshot(p) \/ SnapshotAppendFails(p)
     \/ PublishLive(p)
  /\ UNCHANGED tuiVars

TuiStep(c) ==
  \/ \E p \in Procs : FetchSnapshot(p, c) \/ OpenView(p, c) \/ RequestRefresh(p, c)
  \/ ReceiveEvent(c) \/ ApplyRefresh(c) \/ LeaveView(c)

TuiNext == \/ \E p \in Procs : ServiceStep(p) \/ CrashAll(p)
           \/ \E c \in Clients : TuiStep(c)

TuiSpec == TuiInit /\ [][TuiNext]_allVars

-----------------------------------------------------------------------------
TuiTypeOK ==
  /\ TypeOK
  /\ view \in [Clients -> States \cup {NoView}]
  /\ fetched \in [Clients -> States \cup {NoView}]
  /\ refresh \in [Clients -> States \cup {NoView}]
  /\ failed \in [Clients -> BOOLEAN]
  /\ refreshes \in 0..MaxRefreshes

(* Once the UI has handled every message, it shows the session as it is:    *)
(* no event committed between the Snapshot, the Watch and the stream, or    *)
(* during a refresh, is missing from its view.                              *)
QuiescentViewIsCurrent == \A c \in Clients :
  (view[c] # NoView /\ queue[c] = <<>> /\ refresh[c] = NoView /\ ~failed[c])
    => view[c].applied = EventSeqs(log)

(* The UI's own projector never refuses a watched event: the queue may hold *)
(* events a refreshed snapshot already covers, and they are recognised.     *)
StreamNeverFails == \A c \in Clients : ~failed[c]

(* What the UI has not folded yet is still coming: an event missing from    *)
(* the view is newer than its cursor and queued.                            *)
MissingIsQueued == \A c \in Clients :
  view[c] # NoView =>
    \A s \in EventSeqs(log) \ view[c].applied :
      s > view[c].last /\ s \in SeqsOf(queue[c])

(* Reading a Snapshot and then opening a Watch loses nothing: until a        *)
(* refresh interferes, the view is current or what it lacks is on its way.  *)
OpeningLeavesNoGap == refreshes = 0 => QuiescentViewIsCurrent /\ MissingIsQueued

-----------------------------------------------------------------------------
(* The inductive invariant behind the theorems, for one process.            *)

DurableSeqs(q) == {q[i].seq : i \in {j \in DOMAIN q : q[j].kind # "live"}}

\* The durable events of the queue q are in S, in increasing order.
InOrder(q, S) ==
  /\ DurableSeqs(q) \subseteq S
  /\ \A i, j \in DOMAIN q :
       i < j /\ q[i].kind # "live" /\ q[j].kind # "live" => q[i].seq < q[j].seq

\* The state is the fold of the log l up to its own cursor.
FoldUpTo(state, l) ==
  /\ state.last \in -1..(Len(l) - 1)
  /\ state.applied = {s \in EventSeqs(l) : s <= state.last}

\* What the state lacks of the log l is newer than its cursor and queued in q.
LacksOnlyQueued(state, l, q) ==
  /\ state.last \in -1..(Len(l) - 1) /\ state.applied \subseteq EventSeqs(l)
  /\ \A s \in EventSeqs(l) \ state.applied : s > state.last /\ s \in DurableSeqs(q)

QueueInOrder == \A c \in Clients : InOrder(queue[c], EventSeqs(log))
FetchedIsFold == \A c \in Clients : fetched[c] # NoView => FoldUpTo(fetched[c], log)

\* Until a refresh is requested.
ViewFollows == \A c \in Clients :
  /\ refresh[c] = NoView
  /\ view[c] # NoView => watching[c] # Nobody /\ LacksOnlyQueued(view[c], log, queue[c])

ViewInv == /\ StreamNeverFails /\ QueueInOrder /\ FetchedIsFold
           /\ refreshes = 0 => ViewFollows
=============================================================================
