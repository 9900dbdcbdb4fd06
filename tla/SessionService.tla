--------------------------- MODULE SessionService ---------------------------
(***************************************************************************)
(* The event log of one session and the services that keep and read it:    *)
(* events.SQLiteStore (the durable table session_events), app's            *)
(* SessionService with its per-session sessionRuntime, and the watchers it *)
(* feeds.                                                                  *)
(*                                                                         *)
(* Procs are operating-system processes over one database file.  Inside a  *)
(* process every operation on a session holds sessionRuntime.mu, so an     *)
(* operation is one step, except that an append which also persists a      *)
(* state snapshot makes two commits: due[p] is set between them, while p   *)
(* still holds the mutex.  Another process may commit, and p may crash,    *)
(* in that gap.                                                            *)
(*                                                                         *)
(* The payload of an event is abstracted to its kind: "mcp" stands for     *)
(* session_mcp_catalog_updated, "event" for every other durable type.  A   *)
(* projected SessionState is the set of events it was folded from, which   *)
(* is all the fold depends on since events are folded in sequence order;   *)
(* the MCP field is kept apart because a snapshot does not carry it.       *)
(***************************************************************************)
EXTENDS Integers, EventSelection

CONSTANTS
  Procs,             \* processes that have the database open
  Clients,           \* readers that may watch the session
  DurableKinds,      \* kinds of events appended, see below
  SnapshotInterval,  \* sessionStateSnapshotIntervalEvents
  Nobody,            \* no process and no list of events: the client has no watch
  MaxEvents,         \* bound: an event is appended only to a shorter log
  MaxLive,           \* bound: ephemeral events published
  MaxCrashes         \* bound: process crashes

ASSUME ServiceAssumption ==
  /\ SnapshotInterval \in Nat \ {0}
  /\ DurableKinds \subseteq {"event", "mcp"}
  /\ Nobody \notin Procs /\ Nobody \notin Seq([seq : Nat, kind : DurableKinds])
  /\ MaxEvents \in Nat /\ MaxLive \in Nat /\ MaxCrashes \in Nat

VARIABLES
  log,              \* session_events of the session, ordered by sequence
  projector,        \* projector[p]: sessionRuntime.projector, NotLoaded for nil
  snapshotSequence, \* sessionRuntime.snapshotSequence
  lastDurable,      \* sessionRuntime.lastDurable
  due,              \* base sequence of the snapshot being appended, or NotDue
  watching,         \* watching[c]: process whose runtime.watchers holds c
  after,            \* AfterSequence of c's watch
  queue,            \* events pushed to c's watcher and not received
  received,         \* events c received on its current watch
  live,             \* number of ephemeral events so far
  crashes           \* number of crashes so far

memory == <<projector, snapshotSequence, lastDurable, due>>
streams == <<watching, after, queue, received>>
vars == <<log, memory, streams, live, crashes>>

-----------------------------------------------------------------------------
(* Events and projected states.                                             *)

NotDue == -2
NotLoaded == [applied |-> {}, mcp |-> -1, last |-> -2]

Event(seq, kind) == [seq |-> seq, kind |-> kind]
SnapshotEvent(seq, base, state) ==
  [seq |-> seq, kind |-> "snapshot", base |-> base, state |-> state]

IsSnapshot(e) == e.kind = "snapshot"

\* Mutant: numbering by COUNT of the events a replay shows.
NextSequenceByCount(l) == Len(SelectSeq(l, LAMBDA e : ~IsSnapshot(e)))

\* MAX(sequence)+1, with 0 for an empty session.
NextSequence(l) == Len(l)

\* Replay with ExcludeTypes session_state_snapshot.
Replay(l, afterSequence) ==
  Select(l, {e \in Members(l) : ~IsSnapshot(e) /\ e.seq > afterSequence})

SeqsOf(s) == {s[i].seq : i \in DOMAIN s}
EventSeqs(l) == {l[i].seq : i \in {j \in DOMAIN l : ~IsSnapshot(l[j])}}
SnapshotSeqs(l) == {l[i].seq : i \in {j \in DOMAIN l : IsSnapshot(l[j])}}
CatalogSeqs(l) == {l[i].seq : i \in {j \in DOMAIN l : l[j].kind = "mcp"}}
EventsAfter(l, afterSequence) == {s \in EventSeqs(l) : s > afterSequence}

\* The largest element of a set of sequences, -1 when it is empty.
Latest(S) == IF S = {} THEN -1 ELSE CHOOSE s \in S : \A t \in S : t <= s

NewProjector == [applied |-> {}, mcp |-> -1, last |-> -1]

\* Projector.Apply refuses an event that is not newer than the last one.
OutOfOrder(state, seq) == seq <= state.last

\* Projector.Apply of a durable event; a snapshot event only moves the cursor.
Applied(state, e) ==
  [applied |-> IF IsSnapshot(e) THEN state.applied ELSE state.applied \cup {e.seq},
   mcp     |-> IF e.kind = "mcp" THEN e.seq ELSE state.mcp,
   last    |-> e.seq]

\* cloneSessionState: every field but MCP.  Both the state handed to callers of
\* Snapshot and the one persisted in a snapshot event are such clones.
Cloned(state) == [state EXCEPT !.mcp = -1]

-----------------------------------------------------------------------------
(* loadProjector: the newest snapshot, then every later event.  The cursor  *)
(* of the restored projector is the sequence of the snapshot event, but the *)
(* replay starts after the snapshot's base.                                 *)

Newest(l) == Latest(SnapshotSeqs(l))

\* Mutant: NewProjectorFromSnapshot in place of NewProjectorFromSnapshotAt.
RestoredAtBase(l) == IF Newest(l) = -1 THEN NewProjector ELSE l[Newest(l) + 1].state

Restored(l) == IF Newest(l) = -1 THEN NewProjector
               ELSE [l[Newest(l) + 1].state EXCEPT !.last = Newest(l)]
ReplayAfter(l) == IF Newest(l) = -1 THEN -1 ELSE l[Newest(l) + 1].base
ReplayedSeqs(l) == EventsAfter(l, ReplayAfter(l))

\* Some replayed event is not newer than the restored cursor: Apply fails and
\* the session cannot be loaded.
LoadFails(l) == \E s \in ReplayedSeqs(l) : OutOfOrder(Restored(l), s)

Loaded(l) ==
  [applied |-> Restored(l).applied \cup ReplayedSeqs(l),
   mcp     |-> Latest({Restored(l).mcp} \cup (CatalogSeqs(l) \cap ReplayedSeqs(l))),
   last    |-> Latest({Restored(l).last} \cup ReplayedSeqs(l))]

-----------------------------------------------------------------------------
Init ==
  /\ log = <<>>
  /\ projector = [p \in Procs |-> NotLoaded]
  /\ snapshotSequence = [p \in Procs |-> -1]
  /\ lastDurable = [p \in Procs |-> -1]
  /\ due = [p \in Procs |-> NotDue]
  /\ watching = [c \in Clients |-> Nobody]
  /\ after = [c \in Clients |-> -1]
  /\ queue = [c \in Clients |-> <<>>]
  /\ received = [c \in Clients |-> <<>>]
  /\ live = 0
  /\ crashes = 0

\* Mutant: the watcher's queue holds one event and a full queue drops.
PushToIdle(p, e) ==
  queue' = [c \in Clients |-> IF watching[c] = p /\ queue[c] = <<>>
                              THEN <<e>> ELSE queue[c]]

\* pushLocked: to every watcher of this process.
Push(p, e) ==
  queue' = [c \in Clients |-> IF watching[c] = p THEN Append(queue[c], e) ELSE queue[c]]

IsLoaded(p) == projector[p] # NotLoaded
Free(p) == due[p] = NotDue            \* runtime.mu is free between steps

\* ensureProjectorLocked, on the first operation of a process on the session.
\* When the load fails the operation returns the error and nothing changes.
Open(p) ==
  /\ Free(p) /\ ~IsLoaded(p)
  /\ ~LoadFails(log)
  /\ projector' = [projector EXCEPT ![p] = Loaded(log)]
  /\ lastDurable' = [lastDurable EXCEPT ![p] = Loaded(log).last]
  /\ snapshotSequence' = [snapshotSequence EXCEPT ![p] = Newest(log)]
  /\ UNCHANGED <<log, due, streams, live, crashes>>

\* The two early returns of appendSessionSnapshotLocked.
SnapshotIsDue(p, latestSequence) ==
  /\ latestSequence >= 0
  /\ IF snapshotSequence[p] >= 0
     THEN latestSequence - snapshotSequence[p] >= SnapshotInterval
     ELSE latestSequence + 1 >= SnapshotInterval

\* Mutant: the sequence of an appended event is not noted.
AppendEventUnnoted(p, kind) ==
  /\ Free(p) /\ IsLoaded(p)
  /\ Len(log) < MaxEvents
  /\ LET e == Event(NextSequence(log), kind)
     IN /\ log' = Append(log, e)
        /\ projector' = [projector EXCEPT ![p] = Applied(@, e)]
        /\ Push(p, e)
        /\ due' = [due EXCEPT ![p] = IF SnapshotIsDue(p, e.seq) THEN e.seq ELSE NotDue]
  /\ UNCHANGED <<lastDurable, snapshotSequence, watching, after, received, live, crashes>>

\* SessionService.append: commit the event, fold it, push it to the watchers,
\* then decide whether a snapshot follows.  (The fold cannot fail: the sequence
\* is larger than any this process has seen.)
AppendEvent(p, kind) ==
  /\ Free(p) /\ IsLoaded(p)
  /\ Len(log) < MaxEvents
  /\ LET e == Event(NextSequence(log), kind)
     IN /\ log' = Append(log, e)
        /\ lastDurable' = [lastDurable EXCEPT ![p] = e.seq]
        /\ projector' = [projector EXCEPT ![p] = Applied(@, e)]
        /\ Push(p, e)
        /\ due' = [due EXCEPT ![p] = IF SnapshotIsDue(p, e.seq) THEN e.seq ELSE NotDue]
  /\ UNCHANGED <<snapshotSequence, watching, after, received, live, crashes>>

\* Snapshot and Inspect persist a first snapshot when none is known although
\* the session is long enough (earlier attempts failed).
SnapshotOnRead(p) ==
  /\ Free(p) /\ IsLoaded(p)
  /\ snapshotSequence[p] < 0
  /\ SnapshotIsDue(p, projector[p].last)
  /\ due' = [due EXCEPT ![p] = projector[p].last]
  /\ UNCHANGED <<log, projector, snapshotSequence, lastDurable, streams, live, crashes>>

\* Mutant: the state is cloned before the event that made it due is folded.
SaveSnapshotBeforeFold(p) ==
  /\ ~Free(p)
  /\ LET old == [projector[p] EXCEPT !.applied = @ \ {due[p]}]
         e == SnapshotEvent(NextSequence(log), due[p], Cloned(old))
     IN /\ log' = Append(log, e)
        /\ lastDurable' = [lastDurable EXCEPT ![p] = e.seq]
        /\ snapshotSequence' = [snapshotSequence EXCEPT ![p] = e.seq]
        /\ projector' = [projector EXCEPT ![p] = Applied(@, e)]
  /\ due' = [due EXCEPT ![p] = NotDue]
  /\ UNCHANGED <<streams, live, crashes>>

\* appendSessionSnapshotLocked, its commit.  Watchers are not told.
SaveSnapshot(p) ==
  /\ ~Free(p)
  /\ LET e == SnapshotEvent(NextSequence(log), due[p], Cloned(projector[p]))
     IN /\ log' = Append(log, e)
        /\ lastDurable' = [lastDurable EXCEPT ![p] = e.seq]
        /\ snapshotSequence' = [snapshotSequence EXCEPT ![p] = e.seq]
        /\ projector' = [projector EXCEPT ![p] = Applied(@, e)]
  /\ due' = [due EXCEPT ![p] = NotDue]
  /\ UNCHANGED <<streams, live, crashes>>

\* The snapshot's store.Append fails (canceled context, busy database): the
\* error is ignored and the next append tries again.
SnapshotAppendFails(p) ==
  /\ ~Free(p)
  /\ due' = [due EXCEPT ![p] = NotDue]
  /\ UNCHANGED <<log, projector, snapshotSequence, lastDurable, streams, live, crashes>>

\* publishEphemeral: tagged with lastDurable, pushed, neither stored nor folded.
\* Only a running turn streams, so the log is not empty.
PublishLive(p) ==
  /\ Free(p) /\ IsLoaded(p)
  /\ lastDurable[p] >= 0
  /\ live < MaxLive
  /\ live' = live + 1
  /\ Push(p, Event(lastDurable[p], "live"))
  /\ UNCHANGED <<log, memory, watching, after, received, crashes>>

\* Mutant: the replay lost its ExcludeTypes.
WatchWithSnapshots(p, c, afterSequence) ==
  /\ Free(p)
  /\ watching[c] = Nobody
  /\ queue' = [queue EXCEPT ![c] = SelectSeq(log, LAMBDA e : e.seq > afterSequence)]
  /\ lastDurable' = [lastDurable EXCEPT ![p] = Latest({@} \cup EventsAfter(log, afterSequence))]
  /\ watching' = [watching EXCEPT ![c] = p]
  /\ after' = [after EXCEPT ![c] = afterSequence]
  /\ received' = [received EXCEPT ![c] = <<>>]
  /\ UNCHANGED <<log, projector, snapshotSequence, due, live, crashes>>

\* Watch: replay and registration under one hold of runtime.mu.
Watch(p, c, afterSequence) ==
  /\ Free(p)
  /\ watching[c] = Nobody
  /\ queue' = [queue EXCEPT ![c] = Replay(log, afterSequence)]
  /\ lastDurable' = [lastDurable EXCEPT ![p] = Latest({@} \cup EventsAfter(log, afterSequence))]
  /\ watching' = [watching EXCEPT ![c] = p]
  /\ after' = [after EXCEPT ![c] = afterSequence]
  /\ received' = [received EXCEPT ![c] = <<>>]
  /\ UNCHANGED <<log, projector, snapshotSequence, due, live, crashes>>

\* The watcher's goroutine hands one event over (SessionWatcher has the detail).
Deliver(c) ==
  /\ watching[c] # Nobody
  /\ queue[c] # <<>>
  /\ received' = [received EXCEPT ![c] = Append(@, Head(queue[c]))]
  /\ queue' = [queue EXCEPT ![c] = Tail(@)]
  /\ UNCHANGED <<log, memory, watching, after, live, crashes>>

\* The client cancels its watch; what is queued is dropped.
Unwatch(c) ==
  /\ watching[c] # Nobody
  /\ watching' = [watching EXCEPT ![c] = Nobody]
  /\ queue' = [queue EXCEPT ![c] = <<>>]
  /\ UNCHANGED <<log, memory, after, received, live, crashes>>

\* The process dies: its memory and its watches are gone, the log stays.
Crash(p) ==
  /\ crashes < MaxCrashes
  /\ crashes' = crashes + 1
  /\ projector' = [projector EXCEPT ![p] = NotLoaded]
  /\ snapshotSequence' = [snapshotSequence EXCEPT ![p] = -1]
  /\ lastDurable' = [lastDurable EXCEPT ![p] = -1]
  /\ due' = [due EXCEPT ![p] = NotDue]
  /\ watching' = [c \in Clients |-> IF watching[c] = p THEN Nobody ELSE watching[c]]
  /\ queue' = [c \in Clients |-> IF watching[c] = p THEN <<>> ELSE queue[c]]
  /\ UNCHANGED <<log, after, received, live>>

Service(p) ==
  \/ Open(p)
  \/ \E kind \in DurableKinds : AppendEvent(p, kind)
  \/ SnapshotOnRead(p)
  \/ SaveSnapshot(p)
  \/ SnapshotAppendFails(p)
  \/ PublishLive(p)
  \/ Crash(p)

Reader(c) ==
  \/ \E p \in Procs, a \in -1..(Len(log) - 1) : Watch(p, c, a)
  \/ Deliver(c)
  \/ Unwatch(c)

Next == (\E p \in Procs : Service(p)) \/ (\E c \in Clients : Reader(c))

Spec == Init /\ [][Next]_vars

\* The goroutine of a watcher runs whenever it can send.
FairSpec == Spec /\ \A c \in Clients : WF_vars(Deliver(c))

-----------------------------------------------------------------------------
States == [applied : SUBSET Nat, mcp : Int, last : Int]
LogEvents == [seq : Nat, kind : DurableKinds]
               \cup [seq : Nat, kind : {"snapshot"}, base : Int, state : States]
StreamEvents == [seq : Nat, kind : DurableKinds \cup {"live"}]

StoreTypeOK ==
  /\ log \in Seq(LogEvents)
  /\ \A i \in DOMAIN log : log[i].seq = i - 1
  /\ projector \in [Procs -> States]
  /\ snapshotSequence \in [Procs -> Int]
  /\ lastDurable \in [Procs -> Int]
  /\ due \in [Procs -> Int]

TypeOK ==
  /\ StoreTypeOK
  /\ watching \in [Clients -> Procs \cup {Nobody}]
  /\ after \in [Clients -> Int]
  /\ queue \in [Clients -> Seq(StreamEvents)]
  /\ received \in [Clients -> Seq(StreamEvents)]
  /\ live \in Nat /\ crashes \in Nat

(* A session can always be reopened, and reopening it loses nothing: what   *)
(* loadProjector would rebuild at this very moment, from the newest         *)
(* snapshot and the events after its base, is the fold of every event ever  *)
(* committed.  This must hold in the middle of an append that also          *)
(* snapshots, where a crash may strike.                                     *)
ReloadIsComplete == ~LoadFails(log) /\ Loaded(log).applied = EventSeqs(log)

(* loadProjector never meets an event it must refuse, so the session can be *)
(* resumed.                                                                 *)
Resumable == ~LoadFails(log)

(* The state a process holds in memory is the fold of the whole log: live   *)
(* state and replay agree, whatever mix of snapshots, failed snapshots,     *)
(* crashes and reloads led here.                                            *)
LiveStateIsFold == \A p \in Procs :
  IsLoaded(p) => /\ projector[p].applied = EventSeqs(log)
                 /\ projector[p].last = Len(log) - 1

(* The MCP catalog a process holds is the one the newest                    *)
(* session_mcp_catalog_updated event recorded, reloads included.            *)
CatalogIsFold == \A p \in Procs :
  IsLoaded(p) => projector[p].mcp = Latest(CatalogSeqs(log))

Stream(c) == received[c] \o queue[c]
DurablePart(s) == Select(s, {e \in Members(s) : e.kind # "live"})

(* What an open watch has delivered and still has queued is exactly the     *)
(* log after the requested sequence, without the snapshots: nothing is      *)
(* lost, repeated or reordered between the replay and the live events.      *)
WatchIsExact == \A c \in Clients :
  watching[c] # Nobody => DurablePart(Stream(c)) = Replay(log, after[c])

\* Of two events of a stream of which one is ephemeral.
InPlace(s) ==
  \A i, j \in DOMAIN s :
    i < j => /\ s[i].kind = "live" /\ s[j].kind # "live" => s[i].seq < s[j].seq
             /\ s[i].kind # "live" /\ s[j].kind = "live" => s[i].seq <= s[j].seq

(* An ephemeral event stands right after the durable events it was          *)
(* published after: none of a larger sequence is before it in the stream,   *)
(* and none of a smaller or equal sequence follows it.  A reader does not   *)
(* take it for older than what it has, and one that stops on it and watches *)
(* again from its sequence misses nothing.                                  *)
LiveEventsInPlace == \A c \in Clients : InPlace(Stream(c))

(* Snapshots are at least an interval apart, crashes and reloads included,  *)
(* so they stay a bounded share of the log.                                 *)
SnapshotsAreSparse == \A s, t \in SnapshotSeqs(log) :
  s < t => t - s > SnapshotInterval

(* The log is append-only: no step, crash included, changes or removes a    *)
(* committed event.                                                         *)
LogGrows == [][\E n \in 0..1 : /\ Len(log') = Len(log) + n
                               /\ SubSeq(log', 1, Len(log)) = log]_log

(* Every committed event reaches every reader that keeps watching.          *)
EventsReachWatchers == \A c \in Clients : \A s \in 0..MaxEvents :
  (watching[c] # Nobody /\ s > after[c] /\ s \in EventSeqs(log))
    ~> (watching[c] = Nobody \/ s \in SeqsOf(received[c]))

-----------------------------------------------------------------------------
(* The inductive invariant behind the theorems, for one process.            *)

SingleProcess == \A p, q \in Procs : p = q

\* A set of sequences that is empty or has a largest element.
HasLatest(S) == S = {} \/ \E s \in S : \A t \in S : t <= s

\* A snapshot directly follows its base and holds every event before it.
SnapshotsAreWhole == \A i \in DOMAIN log :
  IsSnapshot(log[i]) => /\ log[i].base = i - 2
                        /\ log[i].state.applied = {s \in EventSeqs(log) : s < i - 1}

\* The caches of a loaded process agree with the log.
CachesAgree == \A p \in Procs :
  /\ lastDurable[p] <= Len(log) - 1
  /\ IsLoaded(p) => /\ projector[p].applied = EventSeqs(log)
                    /\ projector[p].last = Len(log) - 1
                    /\ lastDurable[p] = Len(log) - 1
                    /\ snapshotSequence[p] = Newest(log)

\* A snapshot about to be appended covers the whole log and is due.
DueIsCurrent == \A p \in Procs :
  ~Free(p) => /\ IsLoaded(p)
              /\ due[p] = Len(log) - 1
              /\ SnapshotIsDue(p, due[p])

IndInv ==
  /\ StoreTypeOK
  /\ HasLatest(SnapshotSeqs(log)) /\ HasLatest(CatalogSeqs(log)) /\ HasLatest(EventSeqs(log))
  /\ SnapshotsAreWhole
  /\ SnapshotsAreSparse
  /\ CachesAgree
  /\ DueIsCurrent

\* s is a stream that started after sequence a of the log l: its live
\* events are in place and, as long as the watch is open, its durable part is the
\* replay.
StreamFollows(l, a, open, s) ==
  /\ a \in -1..(Len(l) - 1)
  /\ \A i \in DOMAIN s : s[i].seq < Len(l)
  /\ InPlace(s)
  /\ open => DurablePart(s) = Replay(l, a)

StreamInv == \A c \in Clients : StreamFollows(log, after[c], watching[c] # Nobody, Stream(c))

-----------------------------------------------------------------------------
(* Refinement of the journal, for one process: snapshots, ephemeral events  *)
(* and a client's choice of AfterSequence disappear.                        *)

Committed == Replay(log, -1)
Folded == [p \in Procs |-> IF ~IsLoaded(p) THEN Nobody
                           ELSE Select(log, {e \in Members(log) : e.seq \in projector[p].applied})]
Skipped == [c \in Clients |-> Len(Committed) - Len(Replay(log, after[c]))]
Got == [c \in Clients |-> IF watching[c] = Nobody THEN Nobody ELSE DurablePart(received[c])]

Journal == INSTANCE SessionJournal
  WITH Entries <- [seq : 0..MaxEvents, kind : DurableKinds], Closed <- Nobody,
       journal <- Committed, state <- Folded, from <- Skipped, got <- Got

(* The services implement the journal: state is a fold of the journal at    *)
(* every open, a subscriber reads every event once and in order.            *)
ImplementsJournal == Journal!Spec
=============================================================================
