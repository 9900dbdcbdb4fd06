--------------------------- MODULE SessionWatcher ---------------------------
(***************************************************************************)
(* One sessionWatcher (internal/app/session_watch.go): the goroutine that  *)
(* hands the events of a session to one reader.                            *)
(*                                                                         *)
(* push (called by the publisher, which holds sessionRuntime.mu) appends   *)
(* to the queue under w.mu and then, after releasing w.mu, leaves a token  *)
(* in notify, a channel of capacity 1, unless one is already there.  run   *)
(* pops under w.mu, blocks sending on the unbuffered out, and when the     *)
(* queue is empty blocks on notify.  The gap between the two halves of     *)
(* push, and the gap between finding the queue empty and blocking, are     *)
(* separate steps here: a wake-up lost in either would leave an event in   *)
(* the queue for ever.                                                     *)
(***************************************************************************)
EXTENDS Naturals, Sequences

CONSTANTS Items,      \* the events a publisher may push
          MaxPushes,  \* bound: pushes in one behaviour
          Replayed,   \* the queues a watcher may start with
          None        \* no event

ASSUME WatcherAssumption == /\ None \notin Items
                            /\ MaxPushes \in Nat
                            /\ Replayed \subseteq Seq(Items)

VARIABLES
  queue,      \* w.queue
  notify,     \* w.notify holds a token
  closed,     \* w.closed
  run,        \* where run is: "pop", "send", "wait", "exit", "closed"
  inHand,     \* the event popped and not yet sent, or None
  pushing,    \* push has released w.mu and not yet done its select
  canceled,   \* ctx.Done() is closed
  delivered,  \* what the reader has received from out
  pushes      \* number of pushes so far

vars == <<queue, notify, closed, run, inHand, pushing, canceled, delivered, pushes>>

Init == /\ queue \in Replayed
        /\ notify = FALSE
        /\ closed = FALSE
        /\ run = "pop"
        /\ inHand = None
        /\ pushing = FALSE
        /\ canceled = FALSE
        /\ delivered = <<>>
        /\ pushes = 0

-----------------------------------------------------------------------------
(* The publisher.  A closed watcher takes no more events; sessionRuntime.mu *)
(* lets one push run at a time.                                             *)

PushEnqueue(i) ==
  /\ ~pushing
  /\ pushes < MaxPushes
  /\ pushes' = pushes + 1
  /\ IF closed
     THEN UNCHANGED <<queue, pushing>>
     ELSE /\ queue' = Append(queue, i)
          /\ pushing' = TRUE
  /\ UNCHANGED <<notify, closed, run, inHand, canceled, delivered>>

\* Mutant: notify unbuffered, so that a token reaches only a run that already
\* blocks on it and not one that is about to.
PushNotifyUnbuffered ==
  /\ pushing
  /\ notify' \in IF run = "wait" THEN BOOLEAN ELSE {FALSE}
  /\ pushing' = FALSE
  /\ UNCHANGED <<queue, closed, run, inHand, canceled, delivered, pushes>>

PushNotify ==
  /\ pushing
  /\ notify' = TRUE       \* select with default: a full notify drops the token
  /\ pushing' = FALSE
  /\ UNCHANGED <<queue, closed, run, inHand, canceled, delivered, pushes>>

-----------------------------------------------------------------------------
(* The goroutine.                                                           *)

\* Mutant: pop keeps nothing of the queue but the event it returns.
PopDropsRest ==
  /\ run = "pop"
  /\ IF queue = <<>>
     THEN run' = "wait" /\ UNCHANGED <<queue, inHand>>
     ELSE run' = "send" /\ inHand' = Head(queue) /\ queue' = <<>>
  /\ UNCHANGED <<notify, closed, pushing, canceled, delivered, pushes>>

\* Mutant: pop reports success with a zero event.
PopForgetsEvent ==
  /\ run = "pop"
  /\ IF queue = <<>>
     THEN run' = "wait" /\ UNCHANGED <<queue, inHand>>
     ELSE run' = "send" /\ inHand' = None /\ queue' = Tail(queue)
  /\ UNCHANGED <<notify, closed, pushing, canceled, delivered, pushes>>

Pop ==
  /\ run = "pop"
  /\ IF queue = <<>>
     THEN /\ run' = "wait"
          /\ UNCHANGED <<queue, inHand>>
     ELSE /\ run' = "send"
          /\ inHand' = Head(queue)
          /\ queue' = Tail(queue)
  /\ UNCHANGED <<notify, closed, pushing, canceled, delivered, pushes>>

\* select of the send: the reader is always willing to receive.
Send ==
  /\ run = "send"
  /\ delivered' = Append(delivered, inHand)
  /\ inHand' = None
  /\ run' = "pop"
  /\ UNCHANGED <<queue, notify, closed, pushing, canceled, pushes>>

Wake ==
  /\ run = "wait"
  /\ notify
  /\ notify' = FALSE
  /\ run' = "pop"
  /\ UNCHANGED <<queue, closed, inHand, pushing, canceled, delivered, pushes>>

\* Mutant: the select on notify lost its ctx.Done() case.
StopOnlySending ==
  /\ canceled
  /\ run = "send"
  /\ run' = "exit"
  /\ inHand' = None
  /\ UNCHANGED <<queue, notify, closed, pushing, canceled, delivered, pushes>>

\* Both selects also watch ctx.Done(); a ready send or token may win instead.
Stop ==
  /\ canceled
  /\ run \in {"send", "wait"}
  /\ run' = "exit"
  /\ inHand' = None
  /\ UNCHANGED <<queue, notify, closed, pushing, canceled, delivered, pushes>>

\* The deferred function: mark closed under w.mu, then close(out).
CloseOut ==
  /\ run = "exit"
  /\ closed' = TRUE
  /\ run' = "closed"
  /\ UNCHANGED <<queue, notify, inHand, pushing, canceled, delivered, pushes>>

\* The reader gives up.
Cancel ==
  /\ ~canceled
  /\ canceled' = TRUE
  /\ UNCHANGED <<queue, notify, closed, run, inHand, pushing, delivered, pushes>>

Goroutine == Pop \/ Send \/ Wake \/ Stop \/ CloseOut

Next == Goroutine \/ PushNotify \/ Cancel \/ \E i \in Items : PushEnqueue(i)

\* The Go scheduler runs every goroutine that can run: the publisher finishes
\* the push it started, and run continues whenever one of its cases is ready.
\* Nothing makes a publisher publish or a reader cancel.
Spec == /\ Init
        /\ [][Next]_vars
        /\ WF_vars(PushNotify)
        /\ WF_vars(Goroutine)

-----------------------------------------------------------------------------
TypeOK ==
  /\ queue \in Seq(Items)
  /\ notify \in BOOLEAN
  /\ closed \in BOOLEAN
  /\ run \in {"pop", "send", "wait", "exit", "closed"}
  /\ inHand \in Items \cup {None}
  /\ run = "send" => inHand # None
  /\ pushing \in BOOLEAN
  /\ canceled \in BOOLEAN
  /\ delivered \in Seq(Items)
  /\ pushes \in 0..MaxPushes

(* A goroutine blocked on notify has an empty queue, or a wake-up is on its *)
(* way: a token is in the channel, or the push that made the queue          *)
(* non-empty has not yet done its select.  This is the argument that no     *)
(* event can be stranded between push and run.                              *)
NoLostWakeup == run = "wait" /\ queue # <<>> => notify \/ pushing

(* The goroutine of a canceled watch ends, which is what lets               *)
(* SessionService.Watch remove the watcher from its session.                *)
CanceledStops == canceled ~> run = "closed"

-----------------------------------------------------------------------------
(* Refinement: seen from outside the watcher is a FIFO stream.  The stream  *)
(* ends when run leaves its loop; later pushes are dropped.                 *)

Stopped == run \in {"exit", "closed"}

Stream == INSTANCE EventStream
            WITH pending  <- IF Stopped THEN <<>>
                             ELSE IF inHand = None THEN queue
                             ELSE <<inHand>> \o queue,
                 received <- delivered,
                 live     <- ~Stopped

(* The watcher implements the stream: order, no loss, no duplicate, and     *)
(* delivery of everything published to a reader that stays.                 *)
ImplementsStream == Stream!Spec
=============================================================================
