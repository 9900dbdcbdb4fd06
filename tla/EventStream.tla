---------------------------- MODULE EventStream ----------------------------
(***************************************************************************)
(* What a watch of a session promises its reader: a FIFO channel of        *)
(* unbounded length.  The publisher never blocks, the reader receives the  *)
(* items in the order they were published, none twice and none skipped,    *)
(* until the stream is closed.  SessionWatcher is shown to implement it.   *)
(***************************************************************************)
EXTENDS Naturals, Sequences

CONSTANT Items        \* what can be published

VARIABLES pending,    \* published and not yet received, oldest first
          received,   \* everything the reader got, oldest first
          live        \* FALSE once the stream is closed

streamVars == <<pending, received, live>>

Init == /\ pending \in Seq(Items)
        /\ received = <<>>
        /\ live = TRUE

Publish(i) == /\ live
              /\ pending' = Append(pending, i)
              /\ UNCHANGED <<received, live>>

Receive == /\ live
           /\ pending # <<>>
           /\ received' = Append(received, Head(pending))
           /\ pending' = Tail(pending)
           /\ UNCHANGED live

\* Closing drops whatever was not received.
Close == /\ live
         /\ live' = FALSE
         /\ pending' = <<>>
         /\ UNCHANGED received

Next == Close \/ Receive \/ \E i \in Items : Publish(i)

Spec == /\ Init
        /\ [][Next]_streamVars
        /\ WF_streamVars(Receive)
=============================================================================
