--------------------------- MODULE SessionJournal ---------------------------
(***************************************************************************)
(* What the session services promise, without snapshots, sequence numbers  *)
(* or caches: one append-only journal; a process that has the session open *)
(* holds the fold of the whole journal, so it is represented by the        *)
(* journal prefix it has folded; a subscriber reads the journal in order   *)
(* from the place it asked for.  SessionService is shown to implement it.  *)
(***************************************************************************)
EXTENDS Naturals, Sequences

CONSTANTS Procs, Clients, Entries, Closed

VARIABLES journal,  \* the committed events
          state,    \* state[p]: the events folded into p's state, or Closed
          from,     \* from[c]: how many events c asked to skip
          got       \* got[c]: events received, or Closed without subscription

journalVars == <<journal, state, from, got>>

Init == /\ journal = <<>>
        /\ state = [p \in Procs |-> Closed]
        /\ from = [c \in Clients |-> 0]
        /\ got = [c \in Clients |-> Closed]

OpenSession(p) == /\ state[p] = Closed
                  /\ state' = [state EXCEPT ![p] = journal]
                  /\ UNCHANGED <<journal, from, got>>

Commit(p) == /\ state[p] # Closed
             /\ \E e \in Entries : journal' = Append(journal, e)
             /\ state' = [state EXCEPT ![p] = journal']
             /\ UNCHANGED <<from, got>>

Subscribe(c) == /\ got[c] = Closed
                /\ \E n \in 0..Len(journal) : from' = [from EXCEPT ![c] = n]
                /\ got' = [got EXCEPT ![c] = <<>>]
                /\ UNCHANGED <<journal, state>>

Read(c) == /\ got[c] # Closed
           /\ from[c] + Len(got[c]) < Len(journal)
           /\ got' = [got EXCEPT ![c] = Append(@, journal[from[c] + Len(@) + 1])]
           /\ UNCHANGED <<journal, state, from>>

Unsubscribe(c) == /\ got' = [got EXCEPT ![c] = Closed]
                  /\ UNCHANGED <<journal, state, from>>

\* A process stops: it forgets its state and its subscribers are gone.
Stop(p) == /\ state' = [state EXCEPT ![p] = Closed]
           /\ got' \in [Clients -> {Closed} \cup {got[c] : c \in Clients}]
           /\ \A c \in Clients : got'[c] \in {Closed, got[c]}
           /\ UNCHANGED <<journal, from>>

Next == \/ \E p \in Procs : OpenSession(p) \/ Commit(p) \/ Stop(p)
        \/ \E c \in Clients : Subscribe(c) \/ Read(c) \/ Unsubscribe(c)

Spec == Init /\ [][Next]_journalVars
=============================================================================
