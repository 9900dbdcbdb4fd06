------------------------ MODULE SessionServiceProofs ------------------------
(***************************************************************************)
(* Theorems about SessionService for every number of events, clients,      *)
(* crashes and every snapshot interval, and about the terminal UI that     *)
(* follows a session (TuiSession) for every number of refreshes and any    *)
(* UIs, when one process has the database open.  (With two the properties  *)
(* fail: see the README.)                                                  *)
(***************************************************************************)
EXTENDS TuiSession, EventSelectionProofs

-----------------------------------------------------------------------------
(* Largest elements.                                                        *)

(* An element that bounds its set is what Latest returns.                   *)
LEMMA LatestIs ==
  ASSUME NEW S \in SUBSET Int, NEW m \in S, \A t \in S : t <= m
  PROVE  Latest(S) = m
<1> DEFINE x == CHOOSE s \in S : \A t \in S : t <= s
<1>1. x \in S /\ \A t \in S : t <= x
  OBVIOUS
<1>2. Latest(S) = x
  BY DEF Latest
<1> HIDE DEF x
<1>3. x <= m /\ m <= x /\ x \in Int /\ m \in Int
  BY <1>1
<1> QED
  BY <1>2, <1>3

(* Latest of a set with a largest element is that element, -1 if empty.     *)
LEMMA LatestProperties ==
  ASSUME NEW S \in SUBSET Int, HasLatest(S)
  PROVE  /\ Latest(S) \in Int
         /\ S = {} => Latest(S) = -1
         /\ S # {} => Latest(S) \in S /\ \A t \in S : t <= Latest(S)
<1>1. CASE S = {}
  BY <1>1 DEF Latest
<1>2. CASE S # {}
  <2>1. PICK m \in S : \A t \in S : t <= m
    BY <1>2 DEF HasLatest
  <2>2. Latest(S) = m
    BY <2>1, LatestIs
  <2> QED
    BY <1>2, <2>1, <2>2
<1> QED
  BY <1>1, <1>2

-----------------------------------------------------------------------------
(* The log.                                                                 *)

LogOK(l) == /\ l \in Seq(LogEvents)
            /\ \A i \in DOMAIN l : l[i].seq = i - 1

(* Sequences are positions: the sets of sequences in closed form.           *)
LEMMA SequencesArePositions ==
  ASSUME NEW l, LogOK(l)
  PROVE  /\ Len(l) \in Nat
         /\ EventSeqs(l) = {s \in 0..(Len(l) - 1) : ~IsSnapshot(l[s + 1])}
         /\ SnapshotSeqs(l) = {s \in 0..(Len(l) - 1) : IsSnapshot(l[s + 1])}
         /\ CatalogSeqs(l) = {s \in 0..(Len(l) - 1) : l[s + 1].kind = "mcp"}
         /\ CatalogSeqs(l) \subseteq EventSeqs(l)
<1>1. Len(l) \in Nat /\ DOMAIN l = 1..Len(l)
  BY LenProperties DEF LogOK
<1>2. \A i \in 1..Len(l) : l[i].seq = i - 1
  BY <1>1 DEF LogOK
<1>3. EventSeqs(l) = {s \in 0..(Len(l) - 1) : ~IsSnapshot(l[s + 1])}
  BY <1>1, <1>2 DEF EventSeqs
<1>4. SnapshotSeqs(l) = {s \in 0..(Len(l) - 1) : IsSnapshot(l[s + 1])}
  BY <1>1, <1>2 DEF SnapshotSeqs
<1>5. CatalogSeqs(l) = {s \in 0..(Len(l) - 1) : l[s + 1].kind = "mcp"}
  BY <1>1, <1>2 DEF CatalogSeqs
<1> QED
  BY <1>1, <1>3, <1>4, <1>5 DEF IsSnapshot

(* A snapshot entry carries a base and a state.                             *)
LEMMA SnapshotFields ==
  ASSUME NEW l, LogOK(l), NEW i \in 1..Len(l), IsSnapshot(l[i])
  PROVE  l[i].base \in Int /\ l[i].state \in States
<1>1. l[i] \in LogEvents
  BY LenProperties, ElementOfSeq DEF LogOK
<1> QED
  BY <1>1, ServiceAssumption DEF LogEvents, IsSnapshot

(* Appending an event with the next sequence.                               *)
LEMMA AppendToLog ==
  ASSUME NEW l, LogOK(l), NEW e \in LogEvents, e.seq = Len(l)
  PROVE  /\ LogOK(Append(l, e))
         /\ Len(Append(l, e)) = Len(l) + 1
         /\ \A i \in 1..Len(l) : Append(l, e)[i] = l[i]
         /\ Append(l, e)[Len(l) + 1] = e
         /\ EventSeqs(Append(l, e)) =
              EventSeqs(l) \cup (IF IsSnapshot(e) THEN {} ELSE {e.seq})
         /\ SnapshotSeqs(Append(l, e)) =
              SnapshotSeqs(l) \cup (IF IsSnapshot(e) THEN {e.seq} ELSE {})
         /\ CatalogSeqs(Append(l, e)) =
              CatalogSeqs(l) \cup (IF e.kind = "mcp" THEN {e.seq} ELSE {})
<1> DEFINE m == Append(l, e)
<1>1. /\ m \in Seq(LogEvents) /\ Len(m) = Len(l) + 1
      /\ \A i \in 1..Len(l) : m[i] = l[i]
      /\ m[Len(l) + 1] = e
      /\ Len(l) \in Nat
  BY AppendProperties, LenProperties DEF LogOK
<1>2. LogOK(m)
  <2>1. DOMAIN m = 1..(Len(l) + 1) /\ DOMAIN l = 1..Len(l)
    BY <1>1, LenProperties DEF LogOK
  <2> HIDE DEF m
  <2>2. ASSUME NEW i \in DOMAIN m PROVE m[i].seq = i - 1
    BY <1>1, <2>1, <2>2 DEF LogOK
  <2> QED
    BY <1>1, <2>2 DEF LogOK
<1>3. \A s \in 0..Len(l) : m[s + 1] = IF s = Len(l) THEN e ELSE l[s + 1]
  <2> HIDE DEF m
  <2> QED BY <1>1
<1>4. /\ EventSeqs(m) = {s \in 0..Len(l) : ~IsSnapshot(m[s + 1])}
      /\ SnapshotSeqs(m) = {s \in 0..Len(l) : IsSnapshot(m[s + 1])}
      /\ CatalogSeqs(m) = {s \in 0..Len(l) : m[s + 1].kind = "mcp"}
  <2> HIDE DEF m
  <2>1. Len(m) - 1 = Len(l)
    BY <1>1
  <2>2. /\ EventSeqs(m) = {s \in 0..(Len(m) - 1) : ~IsSnapshot(m[s + 1])}
        /\ SnapshotSeqs(m) = {s \in 0..(Len(m) - 1) : IsSnapshot(m[s + 1])}
        /\ CatalogSeqs(m) = {s \in 0..(Len(m) - 1) : m[s + 1].kind = "mcp"}
    BY <1>2, SequencesArePositions
  <2> QED BY <2>1, <2>2
<1>5. /\ EventSeqs(l) = {s \in 0..(Len(l) - 1) : ~IsSnapshot(l[s + 1])}
      /\ SnapshotSeqs(l) = {s \in 0..(Len(l) - 1) : IsSnapshot(l[s + 1])}
      /\ CatalogSeqs(l) = {s \in 0..(Len(l) - 1) : l[s + 1].kind = "mcp"}
  BY SequencesArePositions
<1> HIDE DEF m
<1>6. EventSeqs(m) = EventSeqs(l) \cup (IF IsSnapshot(e) THEN {} ELSE {e.seq})
  BY <1>1, <1>3, <1>4, <1>5
<1>7. SnapshotSeqs(m) = SnapshotSeqs(l) \cup (IF IsSnapshot(e) THEN {e.seq} ELSE {})
  BY <1>1, <1>3, <1>4, <1>5
<1>8. CatalogSeqs(m) = CatalogSeqs(l) \cup (IF e.kind = "mcp" THEN {e.seq} ELSE {})
  BY <1>1, <1>3, <1>4, <1>5
<1> QED
  BY <1>1, <1>2, <1>6, <1>7, <1>8 DEF m

-----------------------------------------------------------------------------
(* What a replay and a stream contain.                                      *)

(* A replay of the log and one event more.                                  *)
LEMMA ReplayAppend ==
  ASSUME NEW l \in Seq(LogEvents), NEW e \in LogEvents, NEW a
  PROVE  Replay(Append(l, e), a) = IF ~IsSnapshot(e) /\ e.seq > a THEN Append(Replay(l, a), e)
                                   ELSE Replay(l, a)
<1> DEFINE m == Append(l, e)
           S == {x \in Members(m) : ~IsSnapshot(x) /\ x.seq > a}
           R == {x \in Members(l) : ~IsSnapshot(x) /\ x.seq > a}
<1>1. /\ m \in Seq(LogEvents) /\ Len(m) = Len(l) + 1 /\ m[Len(l) + 1] = e
      /\ \A i \in 1..Len(l) : m[i] = l[i]
      /\ Len(l) \in Nat
      /\ DOMAIN m = 1..(Len(l) + 1) /\ DOMAIN l = 1..Len(l)
  BY AppendProperties, LenProperties
<1>2. Select(m, S) = IF e \in S THEN Append(Select(l, S), e) ELSE Select(l, S)
  BY SelectAppend
<1> HIDE DEF m
<1>3. \A i \in 1..Len(l) : l[i] \in Members(l) /\ l[i] \in Members(m)
  BY <1>1 DEF Members
<1>4. e \in Members(m)
  BY <1>1 DEF Members
<1>5. \A i \in 1..Len(l) : l[i] \in S <=> l[i] \in R
  BY <1>3
<1>6. Select(l, S) = Select(l, R)
  <2> HIDE DEF S, R
  <2> QED
    BY <1>5, SelectSame
<1>7. e \in S <=> ~IsSnapshot(e) /\ e.seq > a
  BY <1>4
<1> QED
  BY <1>2, <1>6, <1>7 DEF Replay, m

(* The durable part of a stream and one event more.                         *)
LEMMA DurableAppend ==
  ASSUME NEW T, NEW s \in Seq(T), NEW e \in T
  PROVE  DurablePart(Append(s, e)) = IF e.kind # "live" THEN Append(DurablePart(s), e)
                                     ELSE DurablePart(s)
<1> DEFINE m == Append(s, e)
           S == {x \in Members(m) : x.kind # "live"}
           R == {x \in Members(s) : x.kind # "live"}
<1>1. /\ m \in Seq(T) /\ Len(m) = Len(s) + 1 /\ m[Len(s) + 1] = e
      /\ \A i \in 1..Len(s) : m[i] = s[i]
      /\ Len(s) \in Nat
      /\ DOMAIN m = 1..(Len(s) + 1) /\ DOMAIN s = 1..Len(s)
  BY AppendProperties, LenProperties
<1>2. Select(m, S) = IF e \in S THEN Append(Select(s, S), e) ELSE Select(s, S)
  BY SelectAppend
<1> HIDE DEF m
<1>3. \A i \in 1..Len(s) : s[i] \in Members(s) /\ s[i] \in Members(m)
  BY <1>1 DEF Members
<1>4. e \in Members(m)
  BY <1>1 DEF Members
<1>5. \A i \in 1..Len(s) : s[i] \in S <=> s[i] \in R
  BY <1>3
<1>6. Select(s, S) = Select(s, R)
  <2> HIDE DEF S, R
  <2> QED
    BY <1>5, SelectSame
<1>7. e \in S <=> e.kind # "live"
  BY <1>4
<1> QED
  BY <1>2, <1>6, <1>7 DEF DurablePart, m

(* The durable part of a concatenation.                                     *)
LEMMA DurableConcat ==
  ASSUME NEW T, NEW s \in Seq(T), NEW t \in Seq(T)
  PROVE  DurablePart(s \o t) = DurablePart(s) \o DurablePart(t)
<1> DEFINE Z == {u \in Seq(T) : DurablePart(s \o u) = DurablePart(s) \o DurablePart(u)}
<1>0. \A u \in Seq(T) : DurablePart(u) \in Seq(T)
  BY SelectType DEF DurablePart
<1>1. <<>> \in Z
  <2>1. s \o <<>> = s /\ DurablePart(s) \o <<>> = DurablePart(s)
    BY <1>0, ConcatEmptySeq
  <2>2. DurablePart(<<>>) = <<>>
    BY SelectEmpty DEF DurablePart
  <2> QED
    BY <2>1, <2>2, EmptySeq
<1>2. ASSUME NEW u \in Seq(T), NEW e \in T, u \in Z PROVE Append(u, e) \in Z
  <2>1. Append(u, e) \in Seq(T) /\ s \o u \in Seq(T)
    BY AppendProperties, ConcatProperties
  <2>2. s \o Append(u, e) = Append(s \o u, e)
    BY ConcatAppend
  <2>3. DurablePart(s) \o Append(DurablePart(u), e) = Append(DurablePart(s) \o DurablePart(u), e)
    BY <1>0, ConcatAppend, SMTT(60)
  <2>4. /\ DurablePart(Append(s \o u, e)) =
             IF e.kind # "live" THEN Append(DurablePart(s \o u), e) ELSE DurablePart(s \o u)
        /\ DurablePart(Append(u, e)) =
             IF e.kind # "live" THEN Append(DurablePart(u), e) ELSE DurablePart(u)
    BY <2>1, DurableAppend
  <2> QED
    BY <1>2, <2>1, <2>2, <2>3, <2>4
<1> HIDE DEF Z
<1>3. Seq(T) \subseteq Z
  BY <1>1, <1>2, ClosedIsSeq
<1> QED
  BY <1>3 DEF Z

DurableEvents == [seq : Nat, kind : DurableKinds]

(* A replay holds durable events later than its start and nothing else.     *)
LEMMA ReplayType ==
  ASSUME NEW l \in Seq(LogEvents), NEW a \in Int
  PROVE  /\ Replay(l, a) \in Seq(DurableEvents)
         /\ Replay(l, a) \in Seq(StreamEvents)
         /\ \A i \in 1..Len(Replay(l, a)) :
              /\ Replay(l, a)[i].kind # "live" /\ Replay(l, a)[i].seq > a
              /\ Replay(l, a)[i] \in Members(l)
         /\ DurablePart(Replay(l, a)) = Replay(l, a)
<1> DEFINE S == {x \in Members(l) : ~IsSnapshot(x) /\ x.seq > a}
           D == {x \in DurableEvents : x.seq > a /\ x \in Members(l)}
<1>1. Replay(l, a) \in Seq(LogEvents \cap S)
  BY SelectType DEF Replay
<1>2. LogEvents \cap S \subseteq D
  BY DEF LogEvents, IsSnapshot, DurableEvents
<1> HIDE DEF S
<1>3. Replay(l, a) \in Seq(D)
  BY <1>1, <1>2, SeqMonotonic
<1>4. D \subseteq DurableEvents /\ DurableEvents \subseteq StreamEvents
  BY DEF DurableEvents, StreamEvents
<1>5. \A x \in D : x.kind # "live" /\ x.seq > a /\ x \in Members(l)
  BY ServiceAssumption DEF DurableEvents
<1>6. \A i \in 1..Len(Replay(l, a)) : Replay(l, a)[i] \in D
  BY <1>3, ElementOfSeq
<1> HIDE DEF D
<1>7. Replay(l, a) \in Seq(DurableEvents) /\ Replay(l, a) \in Seq(StreamEvents)
  BY <1>3, <1>4, SeqMonotonic
<1>8. DurablePart(Replay(l, a)) = Replay(l, a)
  <2> DEFINE r == Replay(l, a)
             R == {x \in Members(r) : x.kind # "live"}
  <2>1. DOMAIN r = 1..Len(r)
    BY <1>3, LenProperties
  <2>2. Members(r) \subseteq R
    BY <1>5, <1>6, <2>1 DEF Members
  <2>3. r \in Seq(Members(r))
    <3>1. Len(r) \in Nat /\ r = [i \in 1..Len(r) |-> r[i]]
      BY <1>3, LenProperties
    <3>2. r \in [1..Len(r) -> Members(r)]
      BY <2>1, <3>1 DEF Members
    <3> QED
      BY <3>1, <3>2, SeqDef
  <2> HIDE DEF r, R
  <2>4. Select(r, R) = r
    BY <2>2, <2>3, SelectAll
  <2> QED
    BY <2>4 DEF DurablePart, r, R
<1> QED
  BY <1>5, <1>6, <1>7, <1>8

(* A replay is the end of every longer one.                                 *)
LEMMA ReplaySuffix ==
  ASSUME NEW l, LogOK(l), NEW a \in Int, a >= -1
  PROVE  \E u \in Seq(DurableEvents) : Replay(l, -1) = u \o Replay(l, a)
<1> DEFINE Ordered(s) == \A i \in 1..Len(s) : s[i].seq = i - 1
           Splits(s) == \E u \in Seq(DurableEvents) : Replay(s, -1) = u \o Replay(s, a)
           Early(s) == Len(s) <= a + 1 => Replay(s, a) = <<>>
           Z == {s \in Seq(LogEvents) : Ordered(s) => Splits(s) /\ Early(s)}
<1>0. /\ \A s \in Seq(LogEvents) : Replay(s, -1) \in Seq(DurableEvents) /\ Replay(s, a) \in Seq(DurableEvents)
      /\ <<>> \in Seq(DurableEvents)
  BY ReplayType
<1>1. <<>> \in Z
  <2>1. \A b : Replay(<<>>, b) = <<>>
    BY SelectEmpty DEF Replay
  <2>2. <<>> \o <<>> = <<>>
    BY <1>0, ConcatEmptySeq
  <2>3. <<>> \in Seq(LogEvents)
    OBVIOUS
  <2>4. Splits(<<>>) /\ Early(<<>>)
    BY <1>0, <2>1, <2>2
  <2> QED
    BY <2>3, <2>4
<1>2. ASSUME NEW s \in Seq(LogEvents), NEW e \in LogEvents, s \in Z PROVE Append(s, e) \in Z
  <2>1. /\ Append(s, e) \in Seq(LogEvents) /\ Len(Append(s, e)) = Len(s) + 1
        /\ Append(s, e)[Len(s) + 1] = e
        /\ \A i \in 1..Len(s) : Append(s, e)[i] = s[i]
        /\ Len(s) \in Nat
    BY AppendProperties, LenProperties
  <2> SUFFICES ASSUME Ordered(Append(s, e)) PROVE Splits(Append(s, e)) /\ Early(Append(s, e))
    BY <2>1
  <2>2. Ordered(s) /\ e.seq = Len(s)
    <3>1. \A i \in 1..Len(s) : s[i].seq = i - 1
      BY <2>1
    <3>2. e.seq = (Len(s) + 1) - 1
      BY <2>1
    <3> QED
      BY <2>1, <3>1, <3>2
  <2>3. Splits(s) /\ Early(s)
    BY <1>2, <2>2
  <2>4. /\ Replay(Append(s, e), -1) = IF ~IsSnapshot(e) /\ e.seq > -1 THEN Append(Replay(s, -1), e)
                                      ELSE Replay(s, -1)
        /\ Replay(Append(s, e), a) = IF ~IsSnapshot(e) /\ e.seq > a THEN Append(Replay(s, a), e)
                                     ELSE Replay(s, a)
    BY ReplayAppend
  <2>5. Early(Append(s, e))
    BY <2>1, <2>2, <2>3, <2>4
  <2>6. CASE IsSnapshot(e)
    BY <2>3, <2>4, <2>5, <2>6
  <2>7. CASE ~IsSnapshot(e) /\ e.seq > a
    <3>1. e \in DurableEvents
      BY <2>7 DEF LogEvents, IsSnapshot, DurableEvents
    <3>2. PICK u \in Seq(DurableEvents) : Replay(s, -1) = u \o Replay(s, a)
      BY <2>3
    <3>3. Append(Replay(s, -1), e) = u \o Append(Replay(s, a), e)
      <4>1. Replay(s, a) \in Seq(DurableEvents)
        BY <1>0
      <4>2. u \o Append(Replay(s, a), e) = Append(u \o Replay(s, a), e)
        BY <3>1, <4>1, ConcatAppend, SMTT(60)
      <4> QED
        BY <3>2, <4>2
    <3>4. e.seq > -1
      BY <2>1, <2>2
    <3>5. Replay(Append(s, e), -1) = u \o Replay(Append(s, e), a)
      BY <2>4, <2>7, <3>3, <3>4
    <3> QED
      BY <2>5, <3>5
  <2>8. CASE ~IsSnapshot(e) /\ ~(e.seq > a)
    <3>1. Replay(Append(s, e), a) = <<>>
      BY <2>1, <2>2, <2>3, <2>4, <2>8
    <3>2. Replay(Append(s, e), -1) \in Seq(DurableEvents)
      BY <1>0, <2>1
    <3>3. Replay(Append(s, e), -1) = Replay(Append(s, e), -1) \o <<>>
      BY <3>2, ConcatEmptySeq
    <3> QED
      BY <2>5, <3>1, <3>2, <3>3
  <2> QED
    BY <2>6, <2>7, <2>8
<1>3. l \in Z
  <2> HIDE DEF Z
  <2> QED
    BY <1>1, <1>2, ClosedIsSeq DEF LogOK
<1>4. DOMAIN l = 1..Len(l)
  BY LenProperties DEF LogOK
<1> QED
  BY <1>3, <1>4 DEF LogOK

(* A committed event is pushed to the end of a stream.                      *)
LEMMA FollowsEvent ==
  ASSUME NEW l, LogOK(l), NEW e \in DurableEvents, e.seq = Len(l),
         NEW a, NEW s \in Seq(StreamEvents), NEW open, StreamFollows(l, a, open, s)
  PROVE  StreamFollows(Append(l, e), a, open, Append(s, e))
<1>1. e \in LogEvents /\ e \in StreamEvents /\ ~IsSnapshot(e) /\ e.kind # "live"
  BY ServiceAssumption DEF DurableEvents, LogEvents, StreamEvents, IsSnapshot
<1>2. /\ Append(s, e) \in Seq(StreamEvents) /\ Len(Append(s, e)) = Len(s) + 1
      /\ \A i \in 1..Len(s) : Append(s, e)[i] = s[i]
      /\ Append(s, e)[Len(s) + 1] = e
      /\ Len(s) \in Nat /\ DOMAIN s = 1..Len(s)
  BY <1>1, AppendProperties, LenProperties
<1>3. DOMAIN Append(s, e) = 1..(Len(s) + 1)
  BY <1>2, LenProperties
<1>4. l \in Seq(LogEvents) /\ Len(l) \in Nat /\ Len(Append(l, e)) = Len(l) + 1
  BY <1>1, AppendProperties, LenProperties DEF LogOK
<1>5. a \in -1..(Len(l) - 1) /\ \A i \in 1..Len(s) : s[i].seq < Len(l)
  BY <1>2 DEF StreamFollows
<1>6. open => DurablePart(Append(s, e)) = Replay(Append(l, e), a)
  <2>1. DurablePart(Append(s, e)) = Append(DurablePart(s), e)
    BY <1>1, DurableAppend
  <2>2. e.seq > a
    BY <1>4, <1>5
  <2>3. Replay(Append(l, e), a) = Append(Replay(l, a), e)
    BY <1>1, <1>4, <2>2, ReplayAppend
  <2> QED
    BY <2>1, <2>3 DEF StreamFollows
<1> DEFINE t == Append(s, e)
<1>7. \A i \in 1..(Len(s) + 1) : t[i] = IF i = Len(s) + 1 THEN e ELSE s[i]
  <2> HIDE DEF t
  <2> QED
    BY <1>2 DEF t
<1>8. \A i \in 1..(Len(s) + 1) : t[i].seq < Len(l) + 1 /\ t[i].seq \in Nat
  <2>1. e.seq \in Nat /\ \A i \in 1..Len(s) : s[i].seq \in Nat
    <3>1. \A i \in 1..Len(s) : s[i] \in StreamEvents
      BY ElementOfSeq
    <3> QED
      BY <1>1, <3>1 DEF StreamEvents
  <2> HIDE DEF t
  <2> TAKE i \in 1..(Len(s) + 1)
  <2>2. CASE i = Len(s) + 1
    BY <1>2, <1>4, <1>7, <2>1, <2>2
  <2>3. CASE i # Len(s) + 1
    <3>1. i \in 1..Len(s) /\ t[i] = s[i]
      BY <1>2, <1>7, <2>3
    <3>2. s[i].seq \in Nat /\ s[i].seq < Len(l)
      BY <1>5, <2>1, <3>1
    <3> QED
      BY <1>4, <3>1, <3>2
  <2> QED
    BY <2>2, <2>3
<1>9. ASSUME NEW i \in 1..(Len(s) + 1), NEW j \in 1..(Len(s) + 1), i < j
      PROVE  /\ t[i].kind = "live" /\ t[j].kind # "live" => t[i].seq < t[j].seq
             /\ t[i].kind # "live" /\ t[j].kind = "live" => t[i].seq <= t[j].seq
  <2> HIDE DEF t
  <2>1. i \in 1..Len(s) /\ t[i] = s[i]
    BY <1>2, <1>7, <1>9
  <2>2. CASE j = Len(s) + 1
    BY <1>1, <1>2, <1>5, <1>7, <2>1, <2>2
  <2>3. CASE j # Len(s) + 1
    <3>1. j \in 1..Len(s) /\ t[j] = s[j]
      BY <1>2, <1>7, <2>3
    <3> QED
      BY <1>2, <1>9, <2>1, <3>1 DEF StreamFollows, InPlace
  <2> QED
    BY <2>2, <2>3
<1> HIDE DEF t
<1>10. DOMAIN t = 1..(Len(s) + 1) /\ a \in -1..((Len(l) + 1) - 1)
  BY <1>3, <1>4, <1>5 DEF t
<1> QED
  BY <1>4, <1>6, <1>8, <1>9, <1>10 DEF StreamFollows, InPlace, t

(* A stream that is not pushed to keeps its place when the log grows.        *)
LEMMA FollowsQuietly ==
  ASSUME NEW l, LogOK(l), NEW e \in LogEvents, e.seq = Len(l),
         NEW a, NEW s \in Seq(StreamEvents), NEW open, StreamFollows(l, a, open, s),
         open => IsSnapshot(e)
  PROVE  StreamFollows(Append(l, e), a, open, s)
<1>1. l \in Seq(LogEvents) /\ Len(l) \in Nat /\ Len(Append(l, e)) = Len(l) + 1
  BY AppendProperties, LenProperties DEF LogOK
<1>2. open => Replay(Append(l, e), a) = Replay(l, a)
  BY <1>1, ReplayAppend
<1>3. a \in -1..((Len(l) + 1) - 1)
  BY <1>1 DEF StreamFollows
<1>4. \A i \in DOMAIN s : s[i].seq < Len(l) + 1
  <2>1. \A i \in DOMAIN s : s[i].seq \in Nat
    <3>1. \A i \in DOMAIN s : s[i] \in StreamEvents
      BY LenProperties, ElementOfSeq
    <3> QED
      BY <3>1 DEF StreamEvents
  <2> QED
    BY <1>1, <2>1 DEF StreamFollows
<1> QED
  BY <1>1, <1>2, <1>3, <1>4 DEF StreamFollows

(* An ephemeral event of the last sequence may be pushed.                    *)
LEMMA FollowsLive ==
  ASSUME NEW l, Len(l) \in Nat, NEW e \in StreamEvents, e.kind = "live", e.seq = Len(l) - 1,
         NEW a, NEW s \in Seq(StreamEvents), NEW open, StreamFollows(l, a, open, s)
  PROVE  StreamFollows(l, a, open, Append(s, e))
<1> DEFINE t == Append(s, e)
<1>1. /\ t \in Seq(StreamEvents) /\ Len(t) = Len(s) + 1
      /\ \A i \in 1..Len(s) : t[i] = s[i]
      /\ t[Len(s) + 1] = e
      /\ Len(s) \in Nat /\ DOMAIN s = 1..Len(s)
  BY AppendProperties, LenProperties
<1>2. DurablePart(t) = DurablePart(s)
  BY DurableAppend
<1> HIDE DEF t
<1>3. DOMAIN t = 1..(Len(s) + 1)
  BY <1>1, LenProperties
<1>4. \A i \in DOMAIN t : t[i].seq < Len(l)
  BY <1>1, <1>3 DEF StreamFollows
<1>5. ASSUME NEW i \in DOMAIN t, NEW j \in DOMAIN t, i < j
      PROVE  /\ t[i].kind = "live" /\ t[j].kind # "live" => t[i].seq < t[j].seq
             /\ t[i].kind # "live" /\ t[j].kind = "live" => t[i].seq <= t[j].seq
  <2>1. i \in 1..Len(s) /\ t[i] = s[i]
    BY <1>1, <1>3, <1>5
  <2>2. CASE j = Len(s) + 1
    <3>1. s[i].seq \in Nat /\ s[i].seq < Len(l)
      <4>1. s[i] \in StreamEvents
        BY <2>1, ElementOfSeq
      <4> QED
        BY <1>1, <2>1, <4>1 DEF StreamEvents, StreamFollows
    <3> QED
      BY <1>1, <2>1, <2>2, <3>1
  <2>3. CASE j # Len(s) + 1
    <3>1. j \in 1..Len(s) /\ t[j] = s[j]
      BY <1>1, <1>3, <2>3
    <3> QED
      BY <1>1, <1>5, <2>1, <3>1 DEF StreamFollows, InPlace
  <2> QED
    BY <2>2, <2>3
<1> QED
  BY <1>2, <1>4, <1>5 DEF StreamFollows, InPlace, t

(* What a cancelled watch had received is still in order.                    *)
LEMMA FollowsPrefix ==
  ASSUME NEW l, NEW a, NEW r \in Seq(StreamEvents), NEW q \in Seq(StreamEvents), NEW open,
         StreamFollows(l, a, open, r \o q)
  PROVE  StreamFollows(l, a, FALSE, r)
<1>1. /\ DOMAIN r = 1..Len(r) /\ Len(r) \in Nat /\ Len(q) \in Nat
      /\ DOMAIN (r \o q) = 1..(Len(r) + Len(q))
      /\ \A i \in 1..Len(r) : (r \o q)[i] = r[i]
  <2>1. /\ r \o q \in Seq(StreamEvents) /\ Len(r \o q) = Len(r) + Len(q)
        /\ \A i \in 1..Len(r) + Len(q) : (r \o q)[i] = IF i <= Len(r) THEN r[i] ELSE q[i - Len(r)]
    BY ConcatProperties
  <2>2. Len(r) \in Nat /\ Len(q) \in Nat /\ DOMAIN r = 1..Len(r)
    BY LenProperties
  <2>3. DOMAIN (r \o q) = 1..Len(r \o q)
    BY <2>1, LenProperties
  <2> QED
    BY <2>1, <2>2, <2>3
<1> DEFINE t == r \o q
<1>2. \A i \in DOMAIN r : i \in DOMAIN t /\ t[i] = r[i]
  BY <1>1
<1> HIDE DEF t
<1>3. StreamFollows(l, a, open, t)
  BY DEF t
<1> QED
  BY <1>2, <1>3 DEF StreamFollows, InPlace

(* A new watch starts with the replay.                                       *)
LEMMA FollowsReplay ==
  ASSUME NEW l, LogOK(l), NEW a \in -1..(Len(l) - 1)
  PROVE  StreamFollows(l, a, TRUE, Replay(l, a))
<1>1. /\ l \in Seq(LogEvents) /\ Len(l) \in Nat /\ DOMAIN l = 1..Len(l)
      /\ \A i \in 1..Len(l) : l[i].seq = i - 1
  BY LenProperties DEF LogOK
<1>2. a \in Int
  BY <1>1
<1> DEFINE r == Replay(l, a)
<1>3. /\ r \in Seq(StreamEvents) /\ DurablePart(r) = r
      /\ \A i \in 1..Len(r) : r[i].kind # "live" /\ r[i] \in Members(l)
  BY <1>1, <1>2, ReplayType
<1> HIDE DEF r
<1>4. DOMAIN r = 1..Len(r)
  BY <1>3, LenProperties
<1>5. \A i \in DOMAIN r : r[i].seq < Len(l)
  <2> TAKE i \in DOMAIN r
  <2>1. PICK k \in 1..Len(l) : r[i] = l[k]
    BY <1>1, <1>3, <1>4 DEF Members
  <2> QED
    BY <1>1, <2>1
<1> QED
  BY <1>3, <1>4, <1>5 DEF StreamFollows, InPlace, r

-----------------------------------------------------------------------------
(* Loading a session.                                                       *)

LogInv == /\ LogOK(log)
          /\ HasLatest(SnapshotSeqs(log))
          /\ HasLatest(CatalogSeqs(log))
          /\ HasLatest(EventSeqs(log))
          /\ SnapshotsAreWhole

(* The newest snapshot is -1 or the position of a snapshot after which      *)
(* there is none.                                                           *)
LEMMA NewestIsLast ==
  ASSUME LogInv
  PROVE  /\ Newest(log) \in -1..(Len(log) - 1)
         /\ Newest(log) # -1 => Newest(log) \in SnapshotSeqs(log)
         /\ \A s \in 0..(Len(log) - 1) : s > Newest(log) => s \in EventSeqs(log)
<1>1. /\ Len(log) \in Nat
      /\ SnapshotSeqs(log) = {s \in 0..(Len(log) - 1) : IsSnapshot(log[s + 1])}
      /\ EventSeqs(log) = {s \in 0..(Len(log) - 1) : ~IsSnapshot(log[s + 1])}
  BY SequencesArePositions DEF LogInv
<1>2. SnapshotSeqs(log) \in SUBSET Int
  BY <1>1
<1>3. /\ Newest(log) \in Int
      /\ SnapshotSeqs(log) = {} => Newest(log) = -1
      /\ SnapshotSeqs(log) # {} =>
           /\ Newest(log) \in SnapshotSeqs(log)
           /\ \A t \in SnapshotSeqs(log) : t <= Newest(log)
  BY <1>2, LatestProperties DEF LogInv, Newest
<1>4. CASE SnapshotSeqs(log) = {}
  <2>1. Newest(log) = -1 /\ \A s \in 0..(Len(log) - 1) : s \in EventSeqs(log)
    BY <1>1, <1>3, <1>4
  <2> QED
    BY <1>1, <2>1
<1>5. CASE SnapshotSeqs(log) # {}
  <2>1. Newest(log) \in SnapshotSeqs(log) /\ Newest(log) \in 0..(Len(log) - 1)
    BY <1>1, <1>3, <1>5
  <2>2. ASSUME NEW s \in 0..(Len(log) - 1), s > Newest(log)
        PROVE  s \in EventSeqs(log)
    <3>1. s \notin SnapshotSeqs(log)
      <4>1. s \in Int /\ Newest(log) \in Int /\ ~(s <= Newest(log))
        BY <1>3, <2>2
      <4> QED BY <1>3, <1>5, <4>1
    <3> QED BY <1>1, <3>1
  <2> QED
    BY <1>1, <2>1, <2>2
<1> QED
  BY <1>4, <1>5

(* What a load replays is everything that follows the newest snapshot, and  *)
(* what it restores is everything before.                                   *)
LEMMA RestoreAndReplay ==
  ASSUME LogInv
  PROVE  /\ ReplayedSeqs(log) = (Newest(log) + 1)..(Len(log) - 1)
         /\ Restored(log).applied = {s \in EventSeqs(log) : s < Newest(log)}
         /\ Restored(log).last = Newest(log)
         /\ Restored(log).mcp \in Int
<1> DEFINE n == Newest(log)
<1>1. /\ n \in -1..(Len(log) - 1)
      /\ n # -1 => n \in SnapshotSeqs(log)
      /\ \A s \in 0..(Len(log) - 1) : s > n => s \in EventSeqs(log)
  BY NewestIsLast
<1>2. /\ Len(log) \in Nat
      /\ DOMAIN log = 1..Len(log)
      /\ EventSeqs(log) = {s \in 0..(Len(log) - 1) : ~IsSnapshot(log[s + 1])}
      /\ SnapshotSeqs(log) = {s \in 0..(Len(log) - 1) : IsSnapshot(log[s + 1])}
  BY SequencesArePositions, LenProperties DEF LogInv, LogOK
<1>3. CASE n = -1
  <2>1. Restored(log) = NewProjector /\ ReplayAfter(log) = -1
    BY <1>3 DEF Restored, ReplayAfter
  <2> QED
    BY <1>1, <1>2, <1>3, <2>1 DEF NewProjector, ReplayedSeqs, EventsAfter
<1>4. CASE n # -1
  <2>1. n + 1 \in 1..Len(log) /\ IsSnapshot(log[n + 1]) /\ n \notin EventSeqs(log)
    BY <1>1, <1>2, <1>4
  <2>2. log[n + 1].base = n - 1 /\ log[n + 1].state.applied = {s \in EventSeqs(log) : s < n}
    <3>1. n + 1 \in DOMAIN log /\ (n + 1) - 2 = n - 1 /\ (n + 1) - 1 = n
      BY <1>1, <1>2, <2>1
    <3>2. /\ log[n + 1].base = (n + 1) - 2
          /\ log[n + 1].state.applied = {s \in EventSeqs(log) : s < (n + 1) - 1}
      BY <2>1, <3>1 DEF LogInv, SnapshotsAreWhole
    <3> QED BY <3>1, <3>2
  <2>3. log[n + 1].state \in States
    BY <2>1, SnapshotFields DEF LogInv
  <2>4. Restored(log) = [log[n + 1].state EXCEPT !.last = n] /\ ReplayAfter(log) = n - 1
    BY <1>4, <2>2 DEF Restored, ReplayAfter
  <2>5. /\ Restored(log).applied = {s \in EventSeqs(log) : s < n}
        /\ Restored(log).last = n
        /\ Restored(log).mcp \in Int
    BY <2>2, <2>3, <2>4 DEF States
  <2>6. ReplayedSeqs(log) = {s \in EventSeqs(log) : s > n - 1}
    BY <2>4 DEF ReplayedSeqs, EventsAfter
  <2>7. ReplayedSeqs(log) = (n + 1)..(Len(log) - 1)
    <3> HIDE DEF n
    <3> QED BY <1>1, <1>2, <2>1, <2>6
  <2> QED
    BY <2>5, <2>7
<1> QED
  BY <1>3, <1>4

(* loadProjector succeeds and rebuilds the fold of the whole log.           *)
LEMMA LoadIsComplete ==
  ASSUME LogInv
  PROVE  /\ ~LoadFails(log)
         /\ Loaded(log).applied = EventSeqs(log)
         /\ Loaded(log).last = Len(log) - 1
         /\ Loaded(log) \in States
<1> DEFINE n == Newest(log)
<1>1. /\ n \in -1..(Len(log) - 1)
      /\ n # -1 => n \in SnapshotSeqs(log)
      /\ \A s \in 0..(Len(log) - 1) : s > n => s \in EventSeqs(log)
  BY NewestIsLast
<1>2. /\ Len(log) \in Nat
      /\ EventSeqs(log) = {s \in 0..(Len(log) - 1) : ~IsSnapshot(log[s + 1])}
      /\ SnapshotSeqs(log) = {s \in 0..(Len(log) - 1) : IsSnapshot(log[s + 1])}
      /\ CatalogSeqs(log) \subseteq EventSeqs(log)
  BY SequencesArePositions DEF LogInv
<1>3. /\ ReplayedSeqs(log) = (n + 1)..(Len(log) - 1)
      /\ Restored(log).applied = {s \in EventSeqs(log) : s < n}
      /\ Restored(log).last = n
      /\ Restored(log).mcp \in Int
  BY RestoreAndReplay
<1>4. /\ Loaded(log).applied = Restored(log).applied \cup ReplayedSeqs(log)
      /\ Loaded(log).last = Latest({n} \cup ReplayedSeqs(log))
      /\ Loaded(log) = [applied |-> Loaded(log).applied, mcp |-> Loaded(log).mcp,
                        last |-> Loaded(log).last]
      /\ Loaded(log).mcp =
           Latest({Restored(log).mcp} \cup (CatalogSeqs(log) \cap ReplayedSeqs(log)))
  BY <1>3 DEF Loaded
<1> HIDE DEF n
<1>5. ~LoadFails(log)
  BY <1>1, <1>2, <1>3 DEF LoadFails, OutOfOrder
<1>6. Loaded(log).applied = EventSeqs(log)
  BY <1>1, <1>2, <1>3, <1>4
<1>7. Loaded(log).last = Len(log) - 1
  <2> DEFINE S == {n} \cup ReplayedSeqs(log)
  <2>1. /\ S \in SUBSET Int
        /\ Len(log) - 1 \in S
        /\ \A t \in S : t <= Len(log) - 1
    BY <1>1, <1>2, <1>3
  <2> HIDE DEF S
  <2>2. Latest(S) = Len(log) - 1
    BY <2>1, LatestIs
  <2> QED BY <1>4, <2>2 DEF S
<1>8. Loaded(log).mcp \in Int
  <2> DEFINE C == CatalogSeqs(log) \cap ReplayedSeqs(log)
             x == Restored(log).mcp
             S == {x} \cup C
  <2>1. C = {s \in CatalogSeqs(log) : s > n} /\ C \subseteq Int /\ x \in Int
    BY <1>1, <1>2, <1>3
  <2>2. HasLatest(CatalogSeqs(log))
    BY DEF LogInv
  <2>3. HasLatest(C)
    <3> SUFFICES ASSUME C # {} PROVE \E s \in C : \A t \in C : t <= s
      BY DEF HasLatest
    <3>1. PICK c \in CatalogSeqs(log) : c > n
      BY <2>1
    <3>2. PICK m \in CatalogSeqs(log) : \A t \in CatalogSeqs(log) : t <= m
      BY <2>2, <3>1 DEF HasLatest
    <3>3. CatalogSeqs(log) \subseteq Int
      BY <1>2
    <3>4. m > n
      BY <1>1, <3>1, <3>2, <3>3
    <3>5. m \in C /\ \A t \in C : t <= m
      BY <2>1, <3>2, <3>4
    <3> QED BY <3>5
  <2> HIDE DEF C, x
  <2>4. HasLatest(S)
    <3>1. CASE C = {}
      BY <2>1, <3>1 DEF HasLatest
    <3>2. CASE C # {}
      <4>1. PICK m \in C : \A t \in C : t <= m
        BY <2>3, <3>2 DEF HasLatest
      <4>2. CASE m <= x
        BY <2>1, <4>1, <4>2 DEF HasLatest
      <4>3. CASE x <= m
        BY <2>1, <4>1, <4>3 DEF HasLatest
      <4> QED BY <2>1, <4>1, <4>2, <4>3
    <3> QED BY <3>1, <3>2
  <2>5. S \in SUBSET Int
    BY <2>1
  <2> HIDE DEF S
  <2>6. Latest(S) \in Int
    BY <2>4, <2>5, LatestProperties
  <2> QED BY <1>4, <2>6 DEF S, C, x
<1>9. EventSeqs(log) \subseteq Nat
  BY <1>2
<1> QED
  BY <1>2, <1>4, <1>5, <1>6, <1>7, <1>8, <1>9 DEF States

-----------------------------------------------------------------------------
(* The two commits.                                                         *)

(* Committing an event keeps the log invariant and adds one event.          *)
LEMMA CommitEvent ==
  ASSUME LogInv, SnapshotsAreSparse,
         NEW kind \in DurableKinds, log' = Append(log, Event(NextSequence(log), kind))
  PROVE  /\ LogInv' /\ SnapshotsAreSparse'
         /\ Len(log') = Len(log) + 1
         /\ EventSeqs(log') = EventSeqs(log) \cup {Len(log)}
         /\ Newest(log') = Newest(log)
<1> DEFINE e == Event(NextSequence(log), kind)
<1>1. /\ Len(log) \in Nat
      /\ EventSeqs(log) = {s \in 0..(Len(log) - 1) : ~IsSnapshot(log[s + 1])}
      /\ CatalogSeqs(log) \subseteq EventSeqs(log)
  BY SequencesArePositions DEF LogInv
<1>2. e \in LogEvents /\ e.seq = Len(log) /\ e.kind = kind /\ ~IsSnapshot(e)
  BY <1>1, ServiceAssumption DEF Event, NextSequence, LogEvents, IsSnapshot
<1>3. log' = Append(log, e)
  OBVIOUS
<1> HIDE DEF e
<1>4. /\ LogOK(log')
      /\ Len(log') = Len(log) + 1
      /\ \A i \in 1..Len(log) : log'[i] = log[i]
      /\ log'[Len(log) + 1] = e
      /\ EventSeqs(log') = EventSeqs(log) \cup {Len(log)}
      /\ SnapshotSeqs(log') = SnapshotSeqs(log)
      /\ CatalogSeqs(log') = CatalogSeqs(log) \cup (IF kind = "mcp" THEN {Len(log)} ELSE {})
  <2>1. LogOK(log) /\ e \in LogEvents /\ e.seq = Len(log)
    BY <1>2 DEF LogInv
  <2>2. /\ LogOK(Append(log, e))
        /\ Len(Append(log, e)) = Len(log) + 1
        /\ \A i \in 1..Len(log) : Append(log, e)[i] = log[i]
        /\ Append(log, e)[Len(log) + 1] = e
        /\ EventSeqs(Append(log, e)) =
             EventSeqs(log) \cup (IF IsSnapshot(e) THEN {} ELSE {e.seq})
        /\ SnapshotSeqs(Append(log, e)) =
             SnapshotSeqs(log) \cup (IF IsSnapshot(e) THEN {e.seq} ELSE {})
        /\ CatalogSeqs(Append(log, e)) =
             CatalogSeqs(log) \cup (IF e.kind = "mcp" THEN {e.seq} ELSE {})
    BY <2>1, AppendToLog
  <2> QED
    BY <1>2, <1>3, <2>2
<1>5. HasLatest(EventSeqs(log'))
  BY <1>1, <1>4 DEF HasLatest
<1>6. HasLatest(CatalogSeqs(log'))
  BY <1>1, <1>4 DEF HasLatest, LogInv
<1>7. SnapshotsAreWhole'
  <2>0. DOMAIN log' = 1..(Len(log) + 1)
    BY <1>4, LenProperties DEF LogOK
  <2> SUFFICES ASSUME NEW i \in 1..(Len(log) + 1), IsSnapshot(log'[i])
               PROVE  /\ log'[i].base = i - 2
                      /\ log'[i].state.applied = {s \in EventSeqs(log') : s < i - 1}
    BY <2>0 DEF SnapshotsAreWhole
  <2>1. i \in 1..Len(log) /\ log'[i] = log[i]
    BY <1>1, <1>2, <1>4
  <2>2. i \in DOMAIN log
    BY <2>1, LenProperties DEF LogInv, LogOK
  <2>3. /\ log[i].base = i - 2
        /\ log[i].state.applied = {s \in EventSeqs(log) : s < i - 1}
    BY <2>1, <2>2 DEF LogInv, SnapshotsAreWhole
  <2>4. {s \in EventSeqs(log') : s < i - 1} = {s \in EventSeqs(log) : s < i - 1}
    BY <1>1, <1>4, <2>1
  <2> QED
    BY <2>1, <2>3, <2>4
<1>8. LogInv'
  BY <1>4, <1>5, <1>6, <1>7 DEF LogInv
<1>9. SnapshotsAreSparse'
  BY <1>4 DEF SnapshotsAreSparse
<1> QED
  BY <1>4, <1>8, <1>9 DEF Newest

(* Committing a snapshot of the whole log, at least an interval after the   *)
(* newest one, keeps the log invariant and adds no event.                   *)
LEMMA CommitSnapshot ==
  ASSUME LogInv, SnapshotsAreSparse, NEW st \in States,
         st.applied = EventSeqs(log), Len(log) > 0,
         \A s \in SnapshotSeqs(log) : Len(log) - s > SnapshotInterval,
         log' = Append(log, SnapshotEvent(NextSequence(log), Len(log) - 1, st))
  PROVE  /\ LogInv' /\ SnapshotsAreSparse'
         /\ Len(log') = Len(log) + 1
         /\ EventSeqs(log') = EventSeqs(log)
         /\ Newest(log') = Len(log)
<1> DEFINE e == SnapshotEvent(NextSequence(log), Len(log) - 1, st)
<1>1. /\ Len(log) \in Nat
      /\ EventSeqs(log) = {s \in 0..(Len(log) - 1) : ~IsSnapshot(log[s + 1])}
      /\ SnapshotSeqs(log) = {s \in 0..(Len(log) - 1) : IsSnapshot(log[s + 1])}
  BY SequencesArePositions DEF LogInv
<1>2. /\ e \in LogEvents /\ e.seq = Len(log) /\ e.kind # "mcp" /\ IsSnapshot(e)
      /\ e.base = Len(log) - 1 /\ e.state = st
  BY <1>1 DEF SnapshotEvent, NextSequence, LogEvents, IsSnapshot
<1>3. log' = Append(log, e)
  OBVIOUS
<1> HIDE DEF e
<1>4. /\ LogOK(log')
      /\ Len(log') = Len(log) + 1
      /\ \A i \in 1..Len(log) : log'[i] = log[i]
      /\ log'[Len(log) + 1] = e
      /\ EventSeqs(log') = EventSeqs(log)
      /\ SnapshotSeqs(log') = SnapshotSeqs(log) \cup {Len(log)}
      /\ CatalogSeqs(log') = CatalogSeqs(log)
  <2>1. LogOK(log) /\ e \in LogEvents /\ e.seq = Len(log)
    BY <1>2 DEF LogInv
  <2>2. /\ LogOK(Append(log, e))
        /\ Len(Append(log, e)) = Len(log) + 1
        /\ \A i \in 1..Len(log) : Append(log, e)[i] = log[i]
        /\ Append(log, e)[Len(log) + 1] = e
        /\ EventSeqs(Append(log, e)) =
             EventSeqs(log) \cup (IF IsSnapshot(e) THEN {} ELSE {e.seq})
        /\ SnapshotSeqs(Append(log, e)) =
             SnapshotSeqs(log) \cup (IF IsSnapshot(e) THEN {e.seq} ELSE {})
        /\ CatalogSeqs(Append(log, e)) =
             CatalogSeqs(log) \cup (IF e.kind = "mcp" THEN {e.seq} ELSE {})
    BY <2>1, AppendToLog
  <2> QED
    BY <1>2, <1>3, <2>2
<1>5. /\ Len(log) \in SnapshotSeqs(log')
      /\ \A t \in SnapshotSeqs(log') : t <= Len(log)
      /\ SnapshotSeqs(log') \in SUBSET Int
  BY <1>1, <1>4, SMTT(60)
<1>6. SnapshotsAreWhole'
  <2> SUFFICES ASSUME NEW i \in 1..(Len(log) + 1), IsSnapshot(log'[i])
               PROVE  /\ log'[i].base = i - 2
                      /\ log'[i].state.applied = {s \in EventSeqs(log') : s < i - 1}
    BY <1>4, LenProperties, SMTT(60) DEF SnapshotsAreWhole, LogOK
  <2>1. CASE i = Len(log) + 1
    <3>1. i - 2 = Len(log) - 1 /\ i - 1 = Len(log) /\ log'[i] = e
      BY <1>1, <1>4, <2>1
    <3>2. EventSeqs(log) = {s \in EventSeqs(log) : s < Len(log)}
      BY <1>1
    <3> QED
      BY <1>2, <1>4, <3>1, <3>2
  <2>2. CASE i # Len(log) + 1
    <3>1. i \in 1..Len(log) /\ log'[i] = log[i]
      BY <1>1, <1>4, <2>2
    <3>2. i \in DOMAIN log
      BY <3>1, LenProperties DEF LogInv, LogOK
    <3> QED
      BY <1>4, <3>1, <3>2 DEF LogInv, SnapshotsAreWhole
  <2> QED
    BY <2>1, <2>2
<1>7. LogInv'
  BY <1>4, <1>5, <1>6 DEF LogInv, HasLatest
<1>8. SnapshotsAreSparse'
  <2> SUFFICES ASSUME NEW s \in SnapshotSeqs(log'), NEW t \in SnapshotSeqs(log'), s < t
               PROVE  t - s > SnapshotInterval
    BY DEF SnapshotsAreSparse
  <2>1. s \in SnapshotSeqs(log)
    BY <1>1, <1>4
  <2>2. CASE t = Len(log)
    BY <2>1, <2>2
  <2>3. CASE t \in SnapshotSeqs(log)
    BY <2>1, <2>3 DEF SnapshotsAreSparse
  <2> QED
    BY <1>4, <2>2, <2>3
<1>9. Newest(log') = Len(log)
  BY <1>5, LatestIs DEF Newest
<1> QED
  BY <1>4, <1>7, <1>8, <1>9

-----------------------------------------------------------------------------
(* The inductive invariant, split into what the log and what the process    *)
(* contributes.                                                             *)

MemoryTypes == /\ projector \in [Procs -> States]
               /\ snapshotSequence \in [Procs -> Int]
               /\ lastDurable \in [Procs -> Int]
               /\ due \in [Procs -> Int]

(* IndInv, regrouped.                                                       *)
LEMMA IndInvParts ==
  /\ IndInv <=> /\ LogInv /\ SnapshotsAreSparse
                /\ MemoryTypes /\ CachesAgree /\ DueIsCurrent
  /\ IndInv' <=> /\ LogInv' /\ SnapshotsAreSparse'
                 /\ MemoryTypes' /\ CachesAgree' /\ DueIsCurrent'
BY DEF IndInv, LogInv, LogOK, StoreTypeOK, MemoryTypes

(* Init establishes it.                                                     *)
LEMMA InitIndInv == Init => IndInv
<1> SUFFICES ASSUME Init PROVE IndInv
  OBVIOUS
<1>1. log = <<>> /\ Len(log) = 0 /\ DOMAIN log = {} /\ log \in Seq(LogEvents)
  BY EmptySeq DEF Init
<1>2. LogOK(log) /\ SnapshotsAreWhole
  BY <1>1 DEF LogOK, SnapshotsAreWhole
<1>3. SnapshotSeqs(log) = {} /\ CatalogSeqs(log) = {} /\ EventSeqs(log) = {}
  BY <1>1 DEF SnapshotSeqs, CatalogSeqs, EventSeqs
<1>4. LogInv /\ SnapshotsAreSparse
  BY <1>2, <1>3 DEF LogInv, HasLatest, SnapshotsAreSparse
<1>5. MemoryTypes
  BY DEF Init, MemoryTypes, States, NotLoaded, NotDue
<1>6. CachesAgree /\ DueIsCurrent
  BY <1>1 DEF Init, CachesAgree, DueIsCurrent, IsLoaded, Free
<1> QED
  BY <1>4, <1>5, <1>6, IndInvParts

(* Opening a session loads the fold of the log.                             *)
LEMMA OpenKeeps ==
  ASSUME IndInv, NEW p \in Procs, Open(p)
  PROVE  IndInv'
<1>1. LogInv /\ SnapshotsAreSparse /\ MemoryTypes /\ CachesAgree /\ DueIsCurrent
  BY IndInvParts
<1>2. Len(log) \in Nat
  BY <1>1, SequencesArePositions DEF LogInv
<1>3. /\ Loaded(log).applied = EventSeqs(log)
      /\ Loaded(log).last = Len(log) - 1
      /\ Loaded(log) \in States
      /\ Newest(log) \in Int
  BY <1>1, <1>2, LoadIsComplete, NewestIsLast
<1>4. log' = log /\ due' = due
  BY DEF Open
<1>5. LogInv' /\ SnapshotsAreSparse'
  BY <1>1, <1>4 DEF LogInv, SnapshotsAreWhole, SnapshotsAreSparse
<1>6. MemoryTypes'
  BY <1>1, <1>2, <1>3 DEF Open, MemoryTypes
<1>7. /\ projector' = [projector EXCEPT ![p] = Loaded(log)]
      /\ lastDurable' = [lastDurable EXCEPT ![p] = Len(log) - 1]
      /\ snapshotSequence' = [snapshotSequence EXCEPT ![p] = Newest(log)]
      /\ due[p] = NotDue
  BY <1>3 DEF Open, Free
<1>8. CachesAgree'
  <2> SUFFICES ASSUME NEW q \in Procs
               PROVE  /\ lastDurable'[q] <= Len(log) - 1
                      /\ (projector'[q] # NotLoaded) =>
                            /\ projector'[q].applied = EventSeqs(log)
                            /\ projector'[q].last = Len(log) - 1
                            /\ lastDurable'[q] = Len(log) - 1
                            /\ snapshotSequence'[q] = Newest(log)
    BY <1>4 DEF CachesAgree, IsLoaded
  <2>1. CASE q = p
    BY <1>1, <1>2, <1>3, <1>7, <2>1 DEF MemoryTypes
  <2>2. CASE q # p
    BY <1>1, <1>7, <2>2 DEF MemoryTypes, CachesAgree, IsLoaded
  <2> QED BY <2>1, <2>2
<1>9. DueIsCurrent'
  <2> SUFFICES ASSUME NEW q \in Procs, due[q] # NotDue
               PROVE  /\ projector'[q] # NotLoaded
                      /\ due[q] = Len(log) - 1
                      /\ SnapshotIsDue(q, due[q])'
    BY <1>4 DEF DueIsCurrent, IsLoaded, Free
  <2>1. q # p
    BY <1>7
  <2> QED
    BY <1>1, <1>4, <1>7, <2>1 DEF MemoryTypes, DueIsCurrent, IsLoaded, Free, SnapshotIsDue
<1> QED
  BY <1>5, <1>6, <1>8, <1>9, IndInvParts

(* An append keeps the only process's caches in step with the log.          *)
LEMMA AppendEventKeeps ==
  ASSUME SingleProcess, IndInv, NEW p \in Procs, NEW kind \in DurableKinds, AppendEvent(p, kind)
  PROVE  IndInv'
<1> DEFINE e == Event(NextSequence(log), kind)
<1>1. LogInv /\ SnapshotsAreSparse /\ MemoryTypes /\ CachesAgree /\ DueIsCurrent
  BY IndInvParts
<1>2. Len(log) \in Nat /\ e.seq = Len(log) /\ ~IsSnapshot(e)
  BY <1>1, SequencesArePositions, ServiceAssumption
  DEF LogInv, Event, NextSequence, IsSnapshot
<1>3. Procs = {p}
  BY DEF SingleProcess
<1>4. /\ log' = Append(log, e)
      /\ lastDurable' = [lastDurable EXCEPT ![p] = Len(log)]
      /\ projector' = [projector EXCEPT ![p] = Applied(projector[p], e)]
      /\ due' = [due EXCEPT ![p] = IF SnapshotIsDue(p, Len(log)) THEN Len(log) ELSE NotDue]
      /\ snapshotSequence' = snapshotSequence
  BY <1>2 DEF AppendEvent
<1>5. /\ LogInv' /\ SnapshotsAreSparse'
      /\ Len(log') = Len(log) + 1
      /\ EventSeqs(log') = EventSeqs(log) \cup {Len(log)}
      /\ Newest(log') = Newest(log)
  BY <1>1, <1>4, CommitEvent
<1>6. /\ projector[p].applied = EventSeqs(log)
      /\ snapshotSequence[p] = Newest(log)
      /\ projector[p] \in States
  BY <1>1 DEF AppendEvent, CachesAgree, MemoryTypes
<1>7. /\ projector'[p] \in States
      /\ projector'[p].applied = EventSeqs(log')
      /\ projector'[p].last = Len(log)
  BY <1>1, <1>2, <1>4, <1>5, <1>6 DEF Applied, States, MemoryTypes
<1>8. MemoryTypes'
  <2>1. projector' \in [Procs -> States]
    BY <1>1, <1>3, <1>4, <1>7 DEF MemoryTypes
  <2>2. lastDurable' \in [Procs -> Int] /\ due' \in [Procs -> Int]
    BY <1>1, <1>2, <1>4 DEF MemoryTypes, NotDue
  <2> QED
    BY <1>1, <1>4, <2>1, <2>2 DEF MemoryTypes
<1>9. CachesAgree'
  BY <1>1, <1>2, <1>3, <1>4, <1>5, <1>6, <1>7 DEF CachesAgree, MemoryTypes
<1>10. DueIsCurrent'
  <2> SUFFICES ASSUME due'[p] # NotDue
               PROVE  /\ projector'[p] # NotLoaded
                      /\ due'[p] = Len(log)
                      /\ SnapshotIsDue(p, Len(log))
    BY <1>2, <1>3, <1>4, <1>5 DEF DueIsCurrent, IsLoaded, Free, SnapshotIsDue
  <2>1. due'[p] = IF SnapshotIsDue(p, Len(log)) THEN Len(log) ELSE NotDue
    BY <1>1, <1>4 DEF MemoryTypes
  <2> QED
    BY <1>2, <1>7, <2>1 DEF NotLoaded
<1> QED
  BY <1>5, <1>8, <1>9, <1>10, IndInvParts

(* Appending the snapshot that is due records the fold of the whole log.    *)
LEMMA SaveSnapshotKeeps ==
  ASSUME SingleProcess, IndInv, NEW p \in Procs, SaveSnapshot(p)
  PROVE  IndInv'
<1> DEFINE st == Cloned(projector[p])
           e == SnapshotEvent(NextSequence(log), due[p], st)
<1>1. LogInv /\ SnapshotsAreSparse /\ MemoryTypes /\ CachesAgree /\ DueIsCurrent
  BY IndInvParts
<1>2. /\ Len(log) \in Nat
      /\ SnapshotSeqs(log) = {s \in 0..(Len(log) - 1) : IsSnapshot(log[s + 1])}
  BY <1>1, SequencesArePositions DEF LogInv
<1>3. Procs = {p}
  BY DEF SingleProcess
<1>4. /\ due[p] = Len(log) - 1
      /\ IsLoaded(p)
      /\ SnapshotIsDue(p, Len(log) - 1)
      /\ projector[p] \in States
      /\ projector[p].applied = EventSeqs(log)
      /\ snapshotSequence[p] = Newest(log)
  BY <1>1 DEF SaveSnapshot, DueIsCurrent, CachesAgree, MemoryTypes
<1>5. st \in States /\ st.applied = EventSeqs(log)
  BY <1>4 DEF Cloned, States
<1>6. /\ log' = Append(log, SnapshotEvent(NextSequence(log), Len(log) - 1, st))
      /\ e.seq = Len(log) /\ IsSnapshot(e)
      /\ lastDurable' = [lastDurable EXCEPT ![p] = Len(log)]
      /\ snapshotSequence' = [snapshotSequence EXCEPT ![p] = Len(log)]
      /\ projector' = [projector EXCEPT ![p] = Applied(projector[p], e)]
      /\ due' = [due EXCEPT ![p] = NotDue]
  BY <1>4 DEF SaveSnapshot, SnapshotEvent, NextSequence, IsSnapshot
<1> HIDE DEF st
<1>7. Len(log) > 0
  BY <1>2, <1>4 DEF SnapshotIsDue
<1>8. \A s \in SnapshotSeqs(log) : Len(log) - s > SnapshotInterval
  <2> SUFFICES ASSUME NEW s \in SnapshotSeqs(log)
               PROVE  Len(log) - s > SnapshotInterval
    OBVIOUS
  <2>1. s \in 0..(Len(log) - 1)
    BY <1>2
  <2>2. s \notin EventSeqs(log)
    BY <1>1, <2>1, SequencesArePositions DEF LogInv
  <2>3. Newest(log) \in Int /\ s <= Newest(log)
    BY <1>1, <1>2, <2>1, <2>2, NewestIsLast
  <2>4. Len(log) - 1 - Newest(log) >= SnapshotInterval
    BY <1>4, <2>1, <2>3 DEF SnapshotIsDue
  <2> QED
    BY <1>2, <2>1, <2>3, <2>4, ServiceAssumption
<1>9. /\ LogInv' /\ SnapshotsAreSparse'
      /\ Len(log') = Len(log) + 1
      /\ EventSeqs(log') = EventSeqs(log)
      /\ Newest(log') = Len(log)
  BY <1>1, <1>5, <1>6, <1>7, <1>8, CommitSnapshot
<1>10. /\ projector'[p] \in States
       /\ projector'[p].applied = EventSeqs(log')
       /\ projector'[p].last = Len(log)
  <2>1. projector'[p] = Applied(projector[p], e)
    BY <1>1, <1>6 DEF MemoryTypes
  <2>2. projector'[p].applied = projector[p].applied /\ projector'[p].last = Len(log)
    BY <1>6, <2>1 DEF Applied
  <2>3. projector'[p] \in States
    BY <1>2, <1>4, <1>6, <2>1 DEF Applied, States
  <2> QED BY <1>4, <1>9, <2>2, <2>3
<1> HIDE DEF e
<1>11. MemoryTypes'
  <2>1. projector' \in [Procs -> States]
    BY <1>1, <1>3, <1>6, <1>10 DEF MemoryTypes
  <2>2. /\ lastDurable' \in [Procs -> Int]
        /\ snapshotSequence' \in [Procs -> Int]
        /\ due' \in [Procs -> Int]
    BY <1>1, <1>2, <1>6 DEF MemoryTypes, NotDue
  <2> QED BY <2>1, <2>2 DEF MemoryTypes
<1>12. CachesAgree'
  BY <1>1, <1>2, <1>3, <1>6, <1>9, <1>10 DEF CachesAgree, MemoryTypes
<1>13. DueIsCurrent'
  BY <1>1, <1>3, <1>6 DEF DueIsCurrent, Free, MemoryTypes
<1> QED
  BY <1>9, <1>11, <1>12, <1>13, IndInvParts

(* The steps that leave the log and the projector alone.                    *)
LEMMA OtherStepsKeep ==
  ASSUME IndInv, log' = log, projector' = projector, snapshotSequence' = snapshotSequence,
         \/ UNCHANGED <<lastDurable, due>>
         \/ \E p \in Procs : SnapshotOnRead(p)
         \/ \E p \in Procs : SnapshotAppendFails(p)
         \/ \E p \in Procs, c \in Clients, a \in Int : Watch(p, c, a)
  PROVE  IndInv'
<1>1. LogInv /\ SnapshotsAreSparse /\ MemoryTypes /\ CachesAgree /\ DueIsCurrent
  BY IndInvParts
<1>2. Len(log) \in Nat /\ EventSeqs(log) \subseteq 0..(Len(log) - 1)
  BY <1>1, SequencesArePositions DEF LogInv
<1>3. LogInv' /\ SnapshotsAreSparse'
  BY <1>1 DEF LogInv, SnapshotsAreWhole, SnapshotsAreSparse
<1>4. CASE UNCHANGED <<lastDurable, due>>
  <2>1. MemoryTypes' /\ CachesAgree' /\ DueIsCurrent'
    BY <1>1, <1>4 DEF MemoryTypes, CachesAgree, DueIsCurrent, IsLoaded, Free, SnapshotIsDue
  <2> QED BY <1>3, <2>1, IndInvParts
<1>5. ASSUME NEW p \in Procs, SnapshotOnRead(p) PROVE IndInv'
  <2>1. /\ lastDurable' = lastDurable
        /\ due' = [due EXCEPT ![p] = Len(log) - 1]
        /\ IsLoaded(p) /\ SnapshotIsDue(p, Len(log) - 1)
    BY <1>1, <1>5 DEF SnapshotOnRead, CachesAgree
  <2>2. MemoryTypes' /\ CachesAgree'
    BY <1>1, <1>2, <2>1 DEF MemoryTypes, CachesAgree, IsLoaded
  <2>3. DueIsCurrent'
    BY <1>1, <2>1 DEF MemoryTypes, DueIsCurrent, IsLoaded, Free, SnapshotIsDue
  <2> QED BY <1>3, <2>2, <2>3, IndInvParts
<1>6. ASSUME NEW p \in Procs, SnapshotAppendFails(p) PROVE IndInv'
  <2>1. lastDurable' = lastDurable /\ due' = [due EXCEPT ![p] = NotDue]
    BY <1>6 DEF SnapshotAppendFails
  <2>2. MemoryTypes' /\ CachesAgree'
    BY <1>1, <2>1 DEF MemoryTypes, CachesAgree, IsLoaded, NotDue
  <2>3. DueIsCurrent'
    BY <1>1, <2>1 DEF MemoryTypes, DueIsCurrent, IsLoaded, Free, SnapshotIsDue
  <2> QED BY <1>3, <2>2, <2>3, IndInvParts
<1>7. ASSUME NEW p \in Procs, NEW c \in Clients, NEW a \in Int, Watch(p, c, a) PROVE IndInv'
  <2> DEFINE S == {lastDurable[p]} \cup EventsAfter(log, a)
  <2>1. lastDurable' = [lastDurable EXCEPT ![p] = Latest(S)] /\ due' = due
    BY <1>7 DEF Watch
  <2>2. /\ lastDurable[p] \in Int
        /\ lastDurable[p] <= Len(log) - 1
        /\ IsLoaded(p) => lastDurable[p] = Len(log) - 1
    BY <1>1 DEF CachesAgree, MemoryTypes
  <2>3. EventsAfter(log, a) = {s \in EventSeqs(log) : s > a}
    BY DEF EventsAfter
  <2>4. S \in SUBSET Int /\ S # {} /\ \A s \in S : s <= Len(log) - 1
    BY <1>2, <2>2, <2>3
  <2>5. HasLatest(S)
    <3>1. HasLatest(EventSeqs(log))
      BY <1>1 DEF LogInv
    <3>2. CASE \E s \in EventSeqs(log) : s > a /\ s >= lastDurable[p]
      <4>1. PICK x \in EventSeqs(log) : x > a /\ x >= lastDurable[p]
        BY <3>2
      <4>2. PICK m \in EventSeqs(log) : \A t \in EventSeqs(log) : t <= m
        BY <3>1, <4>1 DEF HasLatest
      <4>3. m \in Int /\ x \in Int /\ x <= m /\ m > a /\ m >= lastDurable[p]
        BY <1>2, <2>2, <4>1, <4>2
      <4>4. m \in S /\ \A t \in S : t <= m
        BY <2>3, <4>2, <4>3
      <4> QED BY <4>4 DEF HasLatest
    <3>3. CASE ~\E s \in EventSeqs(log) : s > a /\ s >= lastDurable[p]
      <4>1. \A t \in S : t <= lastDurable[p]
        BY <1>2, <2>2, <2>3, <3>3
      <4> QED BY <4>1 DEF HasLatest
    <3> QED BY <3>2, <3>3
  <2>6. /\ Latest(S) \in Int
        /\ Latest(S) <= Len(log) - 1
        /\ lastDurable[p] <= Latest(S)
    BY <2>4, <2>5, LatestProperties
  <2> HIDE DEF S
  <2>7. MemoryTypes'
    BY <1>1, <2>1, <2>6 DEF MemoryTypes
  <2>8. CachesAgree'
    BY <1>1, <1>2, <2>1, <2>2, <2>6, SMTT(60) DEF MemoryTypes, CachesAgree, IsLoaded
  <2>9. DueIsCurrent'
    BY <1>1, <2>1 DEF DueIsCurrent, IsLoaded, Free, SnapshotIsDue
  <2> QED BY <1>3, <2>7, <2>8, <2>9, IndInvParts
<1> QED
  BY <1>4, <1>5, <1>6, <1>7

(* A crash forgets everything but the log.                                  *)
LEMMA CrashKeeps ==
  ASSUME IndInv, NEW p \in Procs, Crash(p)
  PROVE  IndInv'
<1>1. LogInv /\ SnapshotsAreSparse /\ MemoryTypes /\ CachesAgree /\ DueIsCurrent
  BY IndInvParts
<1>2. Len(log) \in Nat
  BY <1>1, SequencesArePositions DEF LogInv
<1>3. /\ log' = log
      /\ projector' = [projector EXCEPT ![p] = NotLoaded]
      /\ snapshotSequence' = [snapshotSequence EXCEPT ![p] = -1]
      /\ lastDurable' = [lastDurable EXCEPT ![p] = -1]
      /\ due' = [due EXCEPT ![p] = NotDue]
  BY DEF Crash
<1>4. LogInv' /\ SnapshotsAreSparse'
  BY <1>1, <1>3 DEF LogInv, SnapshotsAreWhole, SnapshotsAreSparse
<1>5. MemoryTypes'
  BY <1>1, <1>3 DEF MemoryTypes, NotDue, NotLoaded, States
<1>6. CachesAgree'
  BY <1>1, <1>2, <1>3 DEF MemoryTypes, CachesAgree, IsLoaded
<1>7. DueIsCurrent'
  BY <1>1, <1>3 DEF MemoryTypes, DueIsCurrent, IsLoaded, Free, SnapshotIsDue
<1> QED
  BY <1>4, <1>5, <1>6, <1>7, IndInvParts

-----------------------------------------------------------------------------
(* Every step of the only process, and of its readers, keeps the invariant. *)
LEMMA NextKeeps ==
  ASSUME SingleProcess, IndInv, [Next]_vars
  PROVE  IndInv'
<1>1. CASE UNCHANGED vars
  BY <1>1, OtherStepsKeep DEF vars, memory
<1>2. ASSUME NEW p \in Procs, Service(p) PROVE IndInv'
  <2>1. CASE Open(p)
    BY <2>1, OpenKeeps
  <2>2. ASSUME NEW kind \in DurableKinds, AppendEvent(p, kind) PROVE IndInv'
    BY <2>2, AppendEventKeeps
  <2>3. CASE SnapshotOnRead(p)
    BY <2>3, OtherStepsKeep DEF SnapshotOnRead
  <2>4. CASE SaveSnapshot(p)
    BY <2>4, SaveSnapshotKeeps
  <2>5. CASE SnapshotAppendFails(p)
    BY <2>5, OtherStepsKeep DEF SnapshotAppendFails
  <2>6. CASE PublishLive(p)
    BY <2>6, OtherStepsKeep DEF PublishLive, memory
  <2>7. CASE Crash(p)
    BY <2>7, CrashKeeps
  <2> QED
    BY <1>2, <2>1, <2>2, <2>3, <2>4, <2>5, <2>6, <2>7 DEF Service
<1>3. ASSUME NEW c \in Clients, Reader(c) PROVE IndInv'
  <2>1. ASSUME NEW p \in Procs, NEW a \in -1..(Len(log) - 1), Watch(p, c, a) PROVE IndInv'
    <3>1. Len(log) \in Nat
      BY IndInvParts, SequencesArePositions DEF LogInv
    <3>2. a \in Int
      BY <3>1
    <3> QED
      BY <2>1, <3>2, OtherStepsKeep DEF Watch
  <2>2. CASE Deliver(c)
    BY <2>2, OtherStepsKeep DEF Deliver, memory
  <2>3. CASE Unwatch(c)
    BY <2>3, OtherStepsKeep DEF Unwatch, memory
  <2> QED
    BY <1>3, <2>1, <2>2, <2>3 DEF Reader
<1> QED
  BY <1>1, <1>2, <1>3 DEF Next

(* For one process the strengthened invariant always holds: snapshots are   *)
(* whole, the caches of a loaded session agree with the log, and a snapshot *)
(* about to be written covers it.                                           *)
THEOREM ServiceInductive == SingleProcess => (Spec => []IndInv)
<1> SUFFICES ASSUME SingleProcess PROVE Spec => []IndInv
  OBVIOUS
<1>1. Init => IndInv
  BY InitIndInv
<1>2. IndInv /\ [Next]_vars => IndInv'
  BY NextKeeps
<1> QED
  BY <1>1, <1>2, PTL DEF Spec

(* Reopening the session at any moment, in the middle of an append included,*)
(* succeeds and rebuilds the fold of every committed event.                 *)
THEOREM ServiceReloadIsComplete == SingleProcess => (Spec => []ReloadIsComplete)
<1> SUFFICES ASSUME SingleProcess PROVE Spec => []ReloadIsComplete
  OBVIOUS
<1>1. IndInv => ReloadIsComplete
  BY IndInvParts, LoadIsComplete DEF ReloadIsComplete
<1> QED
  BY <1>1, ServiceInductive, PTL

(* The state held in memory is the fold of the whole log after any history  *)
(* of snapshots, failed snapshots, crashes and reloads.                     *)
THEOREM ServiceLiveStateIsFold == SingleProcess => (Spec => []LiveStateIsFold)
<1> SUFFICES ASSUME SingleProcess PROVE Spec => []LiveStateIsFold
  OBVIOUS
<1>1. IndInv => LiveStateIsFold
  BY DEF IndInv, CachesAgree, LiveStateIsFold
<1> QED
  BY <1>1, ServiceInductive, PTL

(* Snapshots stay at least an interval apart.                               *)
THEOREM ServiceSnapshotsAreSparse == SingleProcess => (Spec => []SnapshotsAreSparse)
<1> SUFFICES ASSUME SingleProcess PROVE Spec => []SnapshotsAreSparse
  OBVIOUS
<1>1. IndInv => SnapshotsAreSparse
  BY DEF IndInv
<1> QED
  BY <1>1, ServiceInductive, PTL

(* No step, a crash included, changes or removes a committed event.         *)
THEOREM ServiceLogGrows == SingleProcess => (Spec => LogGrows)
<1> DEFINE Grows == \E n \in 0..1 : /\ Len(log') = Len(log) + n
                                    /\ SubSeq(log', 1, Len(log)) = log
<1> SUFFICES ASSUME SingleProcess PROVE Spec => LogGrows
  OBVIOUS
<1>1. IndInv /\ [Next]_vars => [Grows]_log
  <2> SUFFICES ASSUME IndInv, Next, log' # log PROVE Grows
    BY DEF vars
  <2>1. log \in Seq(LogEvents) /\ Len(log) \in Nat
    BY LenProperties, SMTT(60) DEF IndInv, StoreTypeOK
  <2>2. ASSUME NEW e, log' = Append(log, e), log' \in Seq(LogEvents) PROVE Grows
    <3> DEFINE S == LogEvents \cup {e}
    <3>1. log \in Seq(S) /\ e \in S
      BY <2>1
    <3>2. /\ Append(log, e) \in Seq(S)
          /\ Len(Append(log, e)) = Len(log) + 1
          /\ \A i \in 1..Len(log) : Append(log, e)[i] = log[i]
      BY <3>1, AppendProperties
    <3> HIDE DEF S
    <3> DEFINE t == SubSeq(log', 1, Len(log))
    <3>3. \A i \in 1..Len(log) : log'[i] \in S /\ log'[i] = log[i]
      BY <2>2, <3>1, <3>2, ElementOfSeq
    <3>4. /\ t \in Seq(S)
          /\ Len(t) = IF 1 <= Len(log) THEN Len(log) - 1 + 1 ELSE 0
          /\ \A i \in 1..(Len(log) - 1 + 1) : t[i] = log'[1 + i - 1]
      BY <2>1, <3>3, SubSeqProperties
    <3>5. Len(t) = Len(log) /\ \A i \in 1..Len(log) : t[i] = log[i]
      BY <2>1, <3>3, <3>4
    <3>6. t = log
      <4> HIDE DEF t
      <4> QED BY <3>1, <3>4, <3>5, SeqEqual
    <3>7. Len(log') = Len(log) + 1
      BY <2>2, <3>2
    <3> HIDE DEF t
    <3>8. 1 \in 0..1 /\ SubSeq(log', 1, Len(log)) = log
      BY <3>6 DEF t
    <3> QED
      BY <3>7, <3>8
  <2>3. IndInv'
    BY NextKeeps
  <2>4. \E e : log' = Append(log, e)
    BY ZenonT(60) DEF Next, Service, Reader, Open, AppendEvent, SnapshotOnRead, SaveSnapshot,
           SnapshotAppendFails, PublishLive, Crash, Watch, Deliver, Unwatch
  <2> QED
    BY <2>2, <2>3, <2>4 DEF IndInv, StoreTypeOK
<1>2. Spec => []IndInv
  BY ServiceInductive
<1> QED
  BY <1>1, <1>2, PTL DEF Spec, LogGrows

-----------------------------------------------------------------------------
(* Every open watch follows the log.                                        *)

StreamTypes == /\ watching \in [Clients -> Procs \cup {Nobody}]
               /\ after \in [Clients -> Int]
               /\ queue \in [Clients -> Seq(StreamEvents)]
               /\ received \in [Clients -> Seq(StreamEvents)]
               /\ live \in Nat /\ crashes \in Nat

(* Init establishes both.                                                   *)
LEMMA InitStreams == Init => StreamTypes /\ StreamInv
<1> SUFFICES ASSUME Init PROVE StreamTypes /\ StreamInv
  OBVIOUS
<1>1. <<>> \in Seq(StreamEvents) /\ <<>> \o <<>> = <<>> /\ Len(<<>>) = 0 /\ DOMAIN <<>> = {}
  BY EmptySeq, ConcatEmptySeq
<1>2. StreamTypes
  BY <1>1 DEF Init, StreamTypes
<1>3. ASSUME NEW c \in Clients
      PROVE  StreamFollows(log, after[c], watching[c] # Nobody, Stream(c))
  <2>1. Stream(c) = <<>> /\ after[c] = -1 /\ watching[c] = Nobody /\ Len(log) = 0
    BY <1>1 DEF Init, Stream
  <2> QED
    BY <1>1, <2>1 DEF StreamFollows, InPlace
<1> QED
  BY <1>2, <1>3 DEF StreamInv

(* Handing an event over leaves the stream as it is.                        *)
LEMMA HandOver ==
  ASSUME NEW T, NEW r \in Seq(T), NEW q \in Seq(T), q # <<>>
  PROVE  /\ Tail(q) \in Seq(T) /\ Append(r, Head(q)) \in Seq(T)
         /\ Append(r, Head(q)) \o Tail(q) = r \o q
<1>1. /\ Head(q) \in T /\ Tail(q) \in Seq(T) /\ Len(Tail(q)) = Len(q) - 1 /\ Len(q) \in Nat \ {0}
      /\ \A i \in 1..Len(Tail(q)) : Tail(q)[i] = q[i + 1]
  BY HeadTailProperties, EmptySeq
<1>2. /\ <<Head(q)>> \in Seq(T) /\ Append(r, Head(q)) \in Seq(T)
      /\ Append(r, Head(q)) = r \o <<Head(q)>>
      /\ Len(<<Head(q)>>) = 1 /\ <<Head(q)>>[1] = Head(q)
  BY <1>1, AppendProperties, AppendIsConcat
<1>3. q = <<Head(q)>> \o Tail(q)
  <2> DEFINE u == <<Head(q)>> \o Tail(q)
  <2>1. /\ u \in Seq(T) /\ Len(u) = 1 + Len(Tail(q))
        /\ \A i \in 1..(1 + Len(Tail(q))) : u[i] = IF i <= 1 THEN <<Head(q)>>[i] ELSE Tail(q)[i - 1]
    BY <1>1, <1>2, ConcatProperties
  <2>2. Head(q) = q[1]
    OBVIOUS
  <2> HIDE DEF u
  <2>3. ASSUME NEW i \in 1..Len(q) PROVE q[i] = u[i]
    <3>1. CASE i = 1
      BY <1>1, <1>2, <2>1, <2>2, <3>1
    <3>2. CASE i # 1
      <4>1. i - 1 \in 1..Len(Tail(q)) /\ (i - 1) + 1 = i /\ i \in 1..(1 + Len(Tail(q)))
        BY <1>1, <3>2
      <4>2. u[i] = Tail(q)[i - 1] /\ Tail(q)[i - 1] = q[i]
        BY <1>1, <2>1, <3>2, <4>1
      <4> QED
        BY <4>2
    <3> QED
      BY <3>1, <3>2
  <2>4. Len(q) = Len(u)
    BY <1>1, <2>1
  <2> QED
    BY <2>1, <2>3, <2>4, SeqEqual DEF u
<1>4. Append(r, Head(q)) \o Tail(q) = r \o (<<Head(q)>> \o Tail(q))
  BY <1>1, <1>2, ConcatAssociative, SMTT(60)
<1> QED
  BY <1>1, <1>2, <1>3, <1>4

(* A commit and its push.                                                   *)
LEMMA AppendEventStreams ==
  ASSUME SingleProcess, IndInv, StreamTypes, StreamInv,
         NEW p \in Procs, NEW kind \in DurableKinds, AppendEvent(p, kind)
  PROVE  StreamTypes' /\ StreamInv'
<1> DEFINE e == Event(NextSequence(log), kind)
<1>1. LogOK(log) /\ Len(log) \in Nat
  BY IndInvParts, SequencesArePositions DEF LogInv
<1>2. e \in DurableEvents /\ e.seq = Len(log) /\ e.kind = kind
  BY <1>1 DEF DurableEvents, Event, NextSequence
<1>3. /\ log' = Append(log, e) /\ watching' = watching /\ after' = after /\ received' = received
      /\ live' = live /\ crashes' = crashes
      /\ queue' = [c \in Clients |-> IF watching[c] = p THEN Append(queue[c], e) ELSE queue[c]]
  BY DEF AppendEvent, Push
<1> HIDE DEF e
<1>4. e \in StreamEvents /\ e \in LogEvents
  BY <1>2 DEF DurableEvents, StreamEvents, LogEvents
<1>5. StreamTypes'
  <2>1. \A c \in Clients : queue'[c] \in Seq(StreamEvents)
    BY <1>3, <1>4, AppendProperties DEF StreamTypes
  <2> QED
    BY <1>3, <2>1 DEF StreamTypes
<1>6. ASSUME NEW c \in Clients
      PROVE  StreamFollows(log', after'[c], watching'[c] # Nobody, received'[c] \o queue'[c])
  <2>1. /\ received[c] \in Seq(StreamEvents) /\ queue[c] \in Seq(StreamEvents)
        /\ Stream(c) = received[c] \o queue[c] /\ Stream(c) \in Seq(StreamEvents)
        /\ watching[c] \in Procs \cup {Nobody}
    BY ConcatProperties DEF StreamTypes, Stream
  <2>2. PICK open : open = (watching[c] # Nobody)
    OBVIOUS
  <2>3. StreamFollows(log, after[c], open, Stream(c))
    BY <2>2 DEF StreamInv
  <2>4. CASE watching[c] = Nobody
    <3>1. queue'[c] = queue[c] /\ ~open
      BY <1>3, <2>2, <2>4, ServiceAssumption
    <3>2. StreamFollows(Append(log, e), after[c], open, Stream(c))
      BY <1>1, <1>2, <1>4, <2>1, <2>3, <3>1, FollowsQuietly
    <3> QED
      BY <1>3, <2>1, <2>2, <3>1, <3>2
  <2>5. CASE watching[c] # Nobody
    <3>1. watching[c] = p
      BY <2>1, <2>5 DEF SingleProcess
    <3>2. received[c] \o Append(queue[c], e) = Append(received[c] \o queue[c], e)
      <4>1. \A r, q \in Seq(StreamEvents) : r \o Append(q, e) = Append(r \o q, e)
        BY <1>4, ConcatAppend
      <4> QED
        BY <2>1, <4>1
    <3>3. received'[c] \o queue'[c] = Append(Stream(c), e)
      BY <1>3, <2>1, <3>1, <3>2
    <3>4. StreamFollows(Append(log, e), after[c], open, Append(Stream(c), e))
      BY <1>1, <1>2, <2>1, <2>3, FollowsEvent
    <3> QED
      BY <1>3, <2>2, <3>3, <3>4
  <2> QED
    BY <2>4, <2>5
<1> QED
  BY <1>5, <1>6 DEF StreamInv, Stream

(* The commit of a snapshot, which no watcher sees.                         *)
LEMMA SaveSnapshotStreams ==
  ASSUME SingleProcess, IndInv, StreamTypes, StreamInv, NEW p \in Procs, SaveSnapshot(p)
  PROVE  StreamTypes' /\ StreamInv'
<1> DEFINE e == SnapshotEvent(NextSequence(log), due[p], Cloned(projector[p]))
<1>1. LogOK(log) /\ Len(log) \in Nat /\ projector[p] \in States /\ due[p] \in Int
  BY IndInvParts, SequencesArePositions DEF LogInv, MemoryTypes
<1>2. e \in LogEvents /\ e.seq = Len(log) /\ IsSnapshot(e)
  <2>1. Cloned(projector[p]) \in States
    BY <1>1 DEF Cloned, States
  <2> QED
    BY <1>1, <2>1 DEF SnapshotEvent, NextSequence, LogEvents, IsSnapshot
<1>3. /\ log' = Append(log, e) /\ watching' = watching /\ after' = after /\ received' = received
      /\ queue' = queue /\ live' = live /\ crashes' = crashes
  BY DEF SaveSnapshot, streams
<1> HIDE DEF e
<1>4. StreamTypes'
  BY <1>3 DEF StreamTypes
<1>5. ASSUME NEW c \in Clients
      PROVE  StreamFollows(log', after'[c], watching'[c] # Nobody, received'[c] \o queue'[c])
  <2>1. Stream(c) = received[c] \o queue[c] /\ Stream(c) \in Seq(StreamEvents)
    BY ConcatProperties DEF StreamTypes, Stream
  <2>2. StreamFollows(log, after[c], watching[c] # Nobody, Stream(c))
    BY DEF StreamInv
  <2>3. PICK open : open = (watching[c] # Nobody)
    OBVIOUS
  <2>4. StreamFollows(Append(log, e), after[c], open, Stream(c))
    BY <1>1, <1>2, <2>1, <2>2, <2>3, FollowsQuietly
  <2> QED
    BY <1>3, <2>1, <2>3, <2>4
<1> QED
  BY <1>4, <1>5 DEF StreamInv, Stream

(* An ephemeral event carries a committed sequence.                         *)
LEMMA PublishLiveStreams ==
  ASSUME IndInv, StreamTypes, StreamInv, NEW p \in Procs, PublishLive(p)
  PROVE  StreamTypes' /\ StreamInv'
<1> DEFINE e == Event(lastDurable[p], "live")
<1>1. /\ Len(log) \in Nat /\ lastDurable[p] \in Int /\ lastDurable[p] = Len(log) - 1
      /\ lastDurable[p] >= 0
  BY IndInvParts, SequencesArePositions DEF LogInv, MemoryTypes, CachesAgree, PublishLive
<1>2. e \in StreamEvents /\ e.kind = "live" /\ e.seq = Len(log) - 1
  BY <1>1 DEF Event, StreamEvents
<1>3. /\ log' = log /\ watching' = watching /\ after' = after /\ received' = received
      /\ live' = live + 1 /\ crashes' = crashes
      /\ queue' = [c \in Clients |-> IF watching[c] = p THEN Append(queue[c], e) ELSE queue[c]]
  BY DEF PublishLive, Push
<1> HIDE DEF e
<1>4. StreamTypes'
  <2>1. \A c \in Clients : queue'[c] \in Seq(StreamEvents)
    BY <1>2, <1>3, AppendProperties DEF StreamTypes
  <2> QED
    BY <1>3, <2>1 DEF StreamTypes
<1>5. ASSUME NEW c \in Clients
      PROVE  StreamFollows(log', after'[c], watching'[c] # Nobody, received'[c] \o queue'[c])
  <2>1. /\ received[c] \in Seq(StreamEvents) /\ queue[c] \in Seq(StreamEvents)
        /\ Stream(c) = received[c] \o queue[c] /\ Stream(c) \in Seq(StreamEvents)
    BY ConcatProperties DEF StreamTypes, Stream
  <2>2. StreamFollows(log, after[c], watching[c] # Nobody, Stream(c))
    BY DEF StreamInv
  <2>3. CASE watching[c] = p
    <3>1. received[c] \o Append(queue[c], e) = Append(received[c] \o queue[c], e)
      <4>1. \A r, q \in Seq(StreamEvents) : r \o Append(q, e) = Append(r \o q, e)
        BY <1>2, ConcatAppend
      <4> QED
        BY <2>1, <4>1
    <3>2. received'[c] \o queue'[c] = Append(Stream(c), e)
      BY <1>3, <2>1, <2>3, <3>1
    <3>3. PICK open : open = (watching[c] # Nobody)
      OBVIOUS
    <3>4. StreamFollows(log, after[c], open, Append(Stream(c), e))
      BY <1>1, <1>2, <2>1, <2>2, <3>3, FollowsLive
    <3> QED
      BY <1>3, <3>2, <3>3, <3>4
  <2>4. CASE watching[c] # p
    BY <1>3, <2>1, <2>2, <2>4
  <2> QED
    BY <2>3, <2>4
<1> QED
  BY <1>4, <1>5 DEF StreamInv, Stream

(* A watch opens with the replay.                                           *)
LEMMA WatchStreams ==
  ASSUME IndInv, StreamTypes, StreamInv,
         NEW p \in Procs, NEW c \in Clients, NEW a \in -1..(Len(log) - 1), Watch(p, c, a)
  PROVE  StreamTypes' /\ StreamInv'
<1>1. LogOK(log) /\ Len(log) \in Nat /\ log \in Seq(LogEvents) /\ a \in Int
  <2>1. LogOK(log) /\ Len(log) \in Nat
    BY IndInvParts, SequencesArePositions DEF LogInv
  <2> QED
    BY <2>1 DEF LogOK
<1>2. Replay(log, a) \in Seq(StreamEvents) /\ <<>> \in Seq(StreamEvents)
  BY <1>1, ReplayType
<1>3. /\ log' = log /\ live' = live /\ crashes' = crashes
      /\ watching' = [watching EXCEPT ![c] = p]
      /\ after' = [after EXCEPT ![c] = a]
      /\ queue' = [queue EXCEPT ![c] = Replay(log, a)]
      /\ received' = [received EXCEPT ![c] = <<>>]
  BY DEF Watch
<1>4. StreamTypes'
  BY <1>1, <1>2, <1>3 DEF StreamTypes
<1>5. ASSUME NEW d \in Clients
      PROVE  StreamFollows(log', after'[d], watching'[d] # Nobody, received'[d] \o queue'[d])
  <2>1. CASE d = c
    <3>1. /\ after'[d] = a /\ watching'[d] = p /\ p # Nobody
          /\ received'[d] = <<>> /\ queue'[d] = Replay(log, a)
      BY <1>3, <2>1, ServiceAssumption DEF StreamTypes
    <3>2. <<>> \o Replay(log, a) = Replay(log, a)
      BY <1>2, ConcatEmptySeq
    <3>3. StreamFollows(log, a, TRUE, Replay(log, a))
      BY <1>1, FollowsReplay
    <3> QED
      BY <1>3, <3>1, <3>2, <3>3, ZenonT(60) DEF StreamFollows
  <2>2. CASE d # c
    <3>1. /\ after'[d] = after[d] /\ watching'[d] = watching[d]
          /\ received'[d] = received[d] /\ queue'[d] = queue[d]
      BY <1>3, <2>2 DEF StreamTypes
    <3> QED
      BY <1>3, <3>1 DEF StreamInv, Stream
  <2> QED
    BY <2>1, <2>2
<1> QED
  BY <1>4, <1>5 DEF StreamInv, Stream

(* Events move from the queue to the reader.                                *)
LEMMA DeliverStreams ==
  ASSUME StreamTypes, StreamInv, NEW c \in Clients, Deliver(c)
  PROVE  StreamTypes' /\ StreamInv'
<1>1. received[c] \in Seq(StreamEvents) /\ queue[c] \in Seq(StreamEvents) /\ queue[c] # <<>>
  BY DEF StreamTypes, Deliver
<1>2. /\ Tail(queue[c]) \in Seq(StreamEvents)
      /\ Append(received[c], Head(queue[c])) \in Seq(StreamEvents)
      /\ Append(received[c], Head(queue[c])) \o Tail(queue[c]) = received[c] \o queue[c]
  <2>1. \A r, q \in Seq(StreamEvents) :
           q # <<>> => /\ Tail(q) \in Seq(StreamEvents) /\ Append(r, Head(q)) \in Seq(StreamEvents)
                       /\ Append(r, Head(q)) \o Tail(q) = r \o q
    BY HandOver
  <2> QED
    BY <1>1, <2>1
<1>3. /\ log' = log /\ live' = live /\ crashes' = crashes /\ watching' = watching /\ after' = after
      /\ queue' = [queue EXCEPT ![c] = Tail(queue[c])]
      /\ received' = [received EXCEPT ![c] = Append(received[c], Head(queue[c]))]
  BY DEF Deliver
<1>4. StreamTypes'
  BY <1>2, <1>3 DEF StreamTypes
<1>5. ASSUME NEW d \in Clients PROVE received'[d] \o queue'[d] = received[d] \o queue[d]
  BY <1>2, <1>3 DEF StreamTypes
<1> QED
  BY <1>3, <1>4, <1>5 DEF StreamInv, Stream

(* A watch ends, by its reader or with its process.                         *)
LEMMA EndOfWatchStreams ==
  ASSUME StreamTypes, StreamInv, log' = log, after' = after, received' = received,
         live' \in Nat, crashes' \in Nat, NEW Ended,
         watching' = [c \in Clients |-> IF c \in Ended THEN Nobody ELSE watching[c]],
         queue' = [c \in Clients |-> IF c \in Ended THEN <<>> ELSE queue[c]]
  PROVE  StreamTypes' /\ StreamInv'
<1>1. StreamTypes'
  <2>1. <<>> \in Seq(StreamEvents)
    OBVIOUS
  <2> QED
    BY <2>1 DEF StreamTypes
<1>2. ASSUME NEW c \in Clients
      PROVE  StreamFollows(log', after'[c], watching'[c] # Nobody, received'[c] \o queue'[c])
  <2>1. /\ received[c] \in Seq(StreamEvents) /\ queue[c] \in Seq(StreamEvents)
        /\ Stream(c) = received[c] \o queue[c]
    BY DEF StreamTypes, Stream
  <2>2. StreamFollows(log, after[c], watching[c] # Nobody, received[c] \o queue[c])
    BY <2>1 DEF StreamInv
  <2>3. CASE c \in Ended
    <3>1. received'[c] \o queue'[c] = received[c]
      BY <2>1, <2>3, ConcatEmptySeq
    <3>2. PICK open : open = (watching[c] # Nobody)
      OBVIOUS
    <3>3. StreamFollows(log, after[c], FALSE, received[c])
      BY <2>1, <2>2, <3>2, FollowsPrefix
    <3> QED
      BY <2>3, <3>1, <3>3, SMTT(60) DEF StreamFollows
  <2>4. CASE c \notin Ended
    BY <2>2, <2>4
  <2> QED
    BY <2>3, <2>4
<1> QED
  BY <1>1, <1>2 DEF StreamInv, Stream

(* Every step of the only process, and of its readers, keeps the streams.   *)
LEMMA NextStreams ==
  ASSUME SingleProcess, IndInv, StreamTypes, StreamInv, [Next]_vars
  PROVE  StreamTypes' /\ StreamInv'
<1>1. CASE UNCHANGED <<log, watching, after, queue, received, live, crashes>>
  BY <1>1 DEF StreamTypes, StreamInv, Stream
<1>2. ASSUME NEW p \in Procs, Service(p) PROVE StreamTypes' /\ StreamInv'
  <2>1. CASE Open(p) \/ SnapshotOnRead(p) \/ SnapshotAppendFails(p)
    BY <1>1, <2>1 DEF Open, SnapshotOnRead, SnapshotAppendFails, streams
  <2>2. ASSUME NEW kind \in DurableKinds, AppendEvent(p, kind) PROVE StreamTypes' /\ StreamInv'
    BY <2>2, AppendEventStreams
  <2>3. CASE SaveSnapshot(p)
    BY <2>3, SaveSnapshotStreams
  <2>4. CASE PublishLive(p)
    BY <2>4, PublishLiveStreams
  <2>5. CASE Crash(p)
    <3> DEFINE Ended == {c \in Clients : watching[c] = p}
    <3>1. /\ log' = log /\ after' = after /\ received' = received /\ live' = live
          /\ crashes' = crashes + 1
          /\ watching' = [c \in Clients |-> IF c \in Ended THEN Nobody ELSE watching[c]]
          /\ queue' = [c \in Clients |-> IF c \in Ended THEN <<>> ELSE queue[c]]
      BY <2>5 DEF Crash
    <3>2. live' \in Nat /\ crashes' \in Nat
      BY <3>1 DEF StreamTypes
    <3> HIDE DEF Ended
    <3> QED
      BY <3>1, <3>2, EndOfWatchStreams
  <2> QED
    BY <1>2, <2>1, <2>2, <2>3, <2>4, <2>5 DEF Service
<1>3. ASSUME NEW c \in Clients, Reader(c) PROVE StreamTypes' /\ StreamInv'
  <2>1. ASSUME NEW p \in Procs, NEW a \in -1..(Len(log) - 1), Watch(p, c, a)
        PROVE  StreamTypes' /\ StreamInv'
    BY <2>1, WatchStreams
  <2>2. CASE Deliver(c)
    BY <2>2, DeliverStreams
  <2>3. CASE Unwatch(c)
    <3> DEFINE Ended == {c}
    <3>1. /\ log' = log /\ after' = after /\ received' = received /\ live' = live /\ crashes' = crashes
          /\ watching' = [d \in Clients |-> IF d \in Ended THEN Nobody ELSE watching[d]]
          /\ queue' = [d \in Clients |-> IF d \in Ended THEN <<>> ELSE queue[d]]
      BY <2>3 DEF Unwatch, StreamTypes
    <3>2. live' \in Nat /\ crashes' \in Nat
      BY <3>1 DEF StreamTypes
    <3> HIDE DEF Ended
    <3> QED
      BY <3>1, <3>2, EndOfWatchStreams
  <2> QED
    BY <1>3, <2>1, <2>2, <2>3 DEF Reader
<1> QED
  BY <1>1, <1>2, <1>3 DEF Next, vars, streams

(* For one process every stream follows the log.                            *)
LEMMA StreamsFollow == SingleProcess => (Spec => [](StreamTypes /\ StreamInv))
<1> SUFFICES ASSUME SingleProcess PROVE Spec => [](StreamTypes /\ StreamInv)
  OBVIOUS
<1>1. Init => StreamTypes /\ StreamInv
  BY InitStreams
<1>2. IndInv /\ StreamTypes /\ StreamInv /\ [Next]_vars => StreamTypes' /\ StreamInv'
  BY NextStreams
<1> QED
  BY <1>1, <1>2, ServiceInductive, PTL DEF Spec

(* The log, the caches of a process and the streams of its readers are well  *)
(* typed.                                                                   *)
THEOREM ServiceTypeCorrect == SingleProcess => (Spec => []TypeOK)
<1> SUFFICES ASSUME SingleProcess PROVE Spec => []TypeOK
  OBVIOUS
<1>1. IndInv /\ StreamTypes => TypeOK
  BY DEF IndInv, StreamTypes, TypeOK
<1> QED
  BY <1>1, ServiceInductive, StreamsFollow, PTL

(* What an open watch has delivered and still has queued is exactly the log   *)
(* after the requested sequence.                                            *)
THEOREM ServiceWatchIsExact == SingleProcess => (Spec => []WatchIsExact)
<1> SUFFICES ASSUME SingleProcess PROVE Spec => []WatchIsExact
  OBVIOUS
<1>1. StreamInv => WatchIsExact
  BY DEF StreamInv, StreamFollows, WatchIsExact
<1> QED
  BY <1>1, StreamsFollow, PTL

(* No durable event follows an ephemeral one that was published after it, and *)
(* none that was committed later is before it.                                *)
THEOREM ServiceLiveEventsInPlace == SingleProcess => (Spec => []LiveEventsInPlace)
<1> SUFFICES ASSUME SingleProcess PROVE Spec => []LiveEventsInPlace
  OBVIOUS
<1>1. StreamInv => LiveEventsInPlace
  BY DEF StreamInv, StreamFollows, LiveEventsInPlace
<1> QED
  BY <1>1, StreamsFollow, PTL

-----------------------------------------------------------------------------
(* The services implement the journal.                                      *)

(* The fold of every event is the replay from the beginning.                *)
LEMMA FoldIsReplay ==
  ASSUME NEW l, LogOK(l)
  PROVE  Select(l, {e \in Members(l) : e.seq \in EventSeqs(l)}) = Replay(l, -1)
<1> DEFINE S == {e \in Members(l) : e.seq \in EventSeqs(l)}
           R == {e \in Members(l) : ~IsSnapshot(e) /\ e.seq > -1}
<1>1. /\ l \in Seq(LogEvents) /\ Len(l) \in Nat /\ DOMAIN l = 1..Len(l)
      /\ \A i \in 1..Len(l) : l[i].seq = i - 1
      /\ EventSeqs(l) = {s \in 0..(Len(l) - 1) : ~IsSnapshot(l[s + 1])}
  BY LenProperties, SequencesArePositions DEF LogOK
<1>2. ASSUME NEW i \in 1..Len(l) PROVE l[i] \in S <=> l[i] \in R
  <2>1. l[i] \in Members(l) /\ l[i].seq = i - 1 /\ i - 1 \in 0..(Len(l) - 1) /\ (i - 1) + 1 = i
    BY <1>1 DEF Members
  <2>2. l[i].seq \in EventSeqs(l) <=> ~IsSnapshot(l[i])
    BY <1>1, <2>1
  <2>3. l[i].seq > -1
    BY <2>1
  <2> QED
    BY <2>1, <2>2, <2>3
<1> HIDE DEF S, R
<1>3. Select(l, S) = Select(l, R)
  BY <1>1, <1>2, SelectSame
<1> QED
  BY <1>3 DEF Replay, S, R

(* What the journal's variables are, before and after a step.               *)
LEMMA JournalView ==
  /\ IndInv => /\ Committed \in Seq(DurableEvents) /\ Committed # Nobody
               /\ Folded = [p \in Procs |-> IF IsLoaded(p) THEN Committed ELSE Nobody]
  /\ IndInv' => /\ Committed' \in Seq(DurableEvents) /\ Committed' # Nobody
                /\ Folded' = [p \in Procs |-> IF IsLoaded(p)' THEN Committed' ELSE Nobody]
<1>1. ASSUME NEW l, LogOK(l) PROVE Replay(l, -1) \in Seq(DurableEvents) /\ Replay(l, -1) # Nobody
  <2>1. Replay(l, -1) \in Seq(DurableEvents)
    BY <1>1, ReplayType DEF LogOK
  <2> QED
    BY <2>1, ServiceAssumption DEF DurableEvents
<1>2. ASSUME IndInv
      PROVE  /\ Committed \in Seq(DurableEvents) /\ Committed # Nobody
             /\ Folded = [p \in Procs |-> IF IsLoaded(p) THEN Committed ELSE Nobody]
  <2>1. LogOK(log) /\ CachesAgree
    BY <1>2, IndInvParts DEF LogInv
  <2>2. Select(log, {e \in Members(log) : e.seq \in EventSeqs(log)}) = Committed
    BY <2>1, FoldIsReplay DEF Committed
  <2>3. \A p \in Procs : IsLoaded(p) => projector[p].applied = EventSeqs(log)
    BY <2>1 DEF CachesAgree
  <2>4. \A p \in Procs : (IF ~IsLoaded(p) THEN Nobody
                          ELSE Select(log, {e \in Members(log) : e.seq \in projector[p].applied}))
                       = IF IsLoaded(p) THEN Committed ELSE Nobody
    BY <2>2, <2>3
  <2> QED
    BY <1>1, <2>1, <2>4 DEF Committed, Folded
<1>3. ASSUME IndInv'
      PROVE  /\ Committed' \in Seq(DurableEvents) /\ Committed' # Nobody
             /\ Folded' = [p \in Procs |-> IF IsLoaded(p)' THEN Committed' ELSE Nobody]
  <2>1. LogOK(log') /\ CachesAgree'
    BY <1>3, IndInvParts DEF LogInv
  <2>2. Select(log', {e \in Members(log') : e.seq \in EventSeqs(log')}) = Committed'
    BY <2>1, FoldIsReplay DEF Committed
  <2>3. \A p \in Procs : IsLoaded(p)' => projector'[p].applied = EventSeqs(log')
    BY <2>1 DEF CachesAgree
  <2>4. \A p \in Procs : (IF ~IsLoaded(p)' THEN Nobody
                          ELSE Select(log', {e \in Members(log') : e.seq \in projector'[p].applied}))
                       = IF IsLoaded(p)' THEN Committed' ELSE Nobody
    BY <2>2, <2>3
  <2> QED
    BY <1>1, <2>1, <2>4 DEF Committed, Folded
<1> QED
  BY <1>2, <1>3

(* An append is a commit: every later replay grows by the same event.       *)
LEMMA AppendEventIsCommit ==
  ASSUME SingleProcess, IndInv, IndInv', StreamTypes, StreamInv,
         NEW p \in Procs, NEW kind \in DurableKinds, AppendEvent(p, kind)
  PROVE  Journal!Commit(p)
<1> DEFINE e == Event(NextSequence(log), kind)
<1>1. LogOK(log) /\ Len(log) \in Nat /\ log \in Seq(LogEvents) /\ projector[p] \in States
  BY IndInvParts, SequencesArePositions DEF LogInv, LogOK, MemoryTypes
<1>2. /\ e \in LogEvents /\ ~IsSnapshot(e) /\ e.seq = Len(log)
      /\ e \in [seq : 0..MaxEvents, kind : DurableKinds]
  BY <1>1, ServiceAssumption DEF AppendEvent, Event, NextSequence, LogEvents, IsSnapshot
<1>3. /\ log' = Append(log, e) /\ watching' = watching /\ after' = after /\ received' = received
      /\ IsLoaded(p) /\ projector' = [projector EXCEPT ![p] = Applied(projector[p], e)]
  BY DEF AppendEvent
<1> HIDE DEF e
<1>4. \A a \in Int : a < Len(log) => Replay(log', a) = Append(Replay(log, a), e)
  <2> SUFFICES ASSUME NEW a \in Int, a < Len(log) PROVE Replay(log', a) = Append(Replay(log, a), e)
    OBVIOUS
  <2>1. e.seq > a
    BY <1>1, <1>2
  <2> QED
    BY <1>1, <1>2, <1>3, <2>1, ReplayAppend
<1>5. \A a \in Int : a < Len(log) => Len(Replay(log', a)) = Len(Replay(log, a)) + 1 /\ Len(Replay(log, a)) \in Nat
  <2> SUFFICES ASSUME NEW a \in Int, a < Len(log)
               PROVE  Len(Replay(log', a)) = Len(Replay(log, a)) + 1 /\ Len(Replay(log, a)) \in Nat
    OBVIOUS
  <2>1. Replay(log, a) \in Seq(StreamEvents) /\ e \in StreamEvents
    BY <1>1, <1>2, ReplayType DEF StreamEvents
  <2> QED
    BY <1>4, <2>1, AppendProperties, LenProperties
<1>6. Committed' = Append(Committed, e)
  BY <1>1, <1>4 DEF Committed
<1>7. Skipped' = Skipped
  <2> SUFFICES ASSUME NEW c \in Clients
               PROVE  Len(Replay(log', -1)) - Len(Replay(log', after[c]))
                        = Len(Replay(log, -1)) - Len(Replay(log, after[c]))
    BY <1>3 DEF Skipped, Committed
  <2>1. after[c] \in -1..(Len(log) - 1)
    BY DEF StreamInv, StreamFollows
  <2>2. after[c] \in Int /\ after[c] < Len(log) /\ -1 < Len(log)
    BY <1>1, <2>1
  <2>3. /\ Len(Replay(log', after[c])) = Len(Replay(log, after[c])) + 1
        /\ Len(Replay(log, after[c])) \in Nat
    BY <1>5, <2>2
  <2>4. Len(Replay(log', -1)) = Len(Replay(log, -1)) + 1 /\ Len(Replay(log, -1)) \in Nat
    <3>1. -1 \in Int
      OBVIOUS
    <3> QED
      BY <1>5, <2>2, <3>1
  <2> QED
    BY <2>3, <2>4
<1>8. Got' = Got
  BY <1>3 DEF Got
<1>9. Folded[p] # Nobody /\ Folded' = [Folded EXCEPT ![p] = Committed']
  <2>1. IsLoaded(p)'
    <3>1. projector'[p].last = Len(log)
      BY <1>1, <1>2, <1>3, IndInvParts DEF Applied, MemoryTypes
    <3> QED
      BY <1>1, <3>1 DEF IsLoaded, NotLoaded
  <2>2. Procs = {p}
    BY DEF SingleProcess
  <2>3. Folded[p] = Committed /\ Committed # Nobody
    BY <1>3, JournalView
  <2>4. Folded' = [q \in Procs |-> Committed']
    BY <2>1, <2>2, JournalView
  <2>5. DOMAIN Folded = Procs
    BY DEF Folded
  <2> QED
    BY <2>2, <2>3, <2>4, <2>5, JournalView
<1> QED
  BY <1>2, <1>6, <1>7, <1>8, <1>9 DEF Journal!Commit

(* A snapshot commit is invisible.                                          *)
LEMMA SaveSnapshotIsInvisible ==
  ASSUME SingleProcess, IndInv, IndInv', StreamTypes, StreamInv, NEW p \in Procs, SaveSnapshot(p)
  PROVE  UNCHANGED <<Committed, Folded, Skipped, Got>>
<1> DEFINE e == SnapshotEvent(NextSequence(log), due[p], Cloned(projector[p]))
<1>1. LogOK(log) /\ Len(log) \in Nat /\ log \in Seq(LogEvents) /\ projector[p] \in States /\ due[p] \in Int
  BY IndInvParts, SequencesArePositions DEF LogInv, LogOK, MemoryTypes
<1>2. e \in LogEvents /\ e.seq = Len(log) /\ IsSnapshot(e)
  <2>1. Cloned(projector[p]) \in States
    BY <1>1 DEF Cloned, States
  <2> QED
    BY <1>1, <2>1 DEF SnapshotEvent, NextSequence, LogEvents, IsSnapshot
<1>3. /\ log' = Append(log, e) /\ watching' = watching /\ after' = after /\ received' = received
      /\ projector' = [projector EXCEPT ![p] = Applied(projector[p], e)]
  BY DEF SaveSnapshot, streams
<1> HIDE DEF e
<1>4. \A a : Replay(log', a) = Replay(log, a)
  BY <1>1, <1>2, <1>3, ReplayAppend
<1>5. Committed' = Committed /\ Skipped' = Skipped /\ Got' = Got
  BY <1>3, <1>4 DEF Committed, Skipped, Got
<1>6. IsLoaded(p) /\ IsLoaded(p)'
  <2>1. projector'[p].last = Len(log)
    BY <1>1, <1>2, <1>3, IndInvParts DEF Applied, MemoryTypes
  <2>2. IsLoaded(p)
    BY IndInvParts DEF DueIsCurrent, SaveSnapshot
  <2> QED
    BY <1>1, <2>1, <2>2 DEF IsLoaded, NotLoaded
<1>7. Procs = {p}
  BY DEF SingleProcess
<1> QED
  BY <1>5, <1>6, <1>7, JournalView

(* Opening a session folds the journal.                                     *)
LEMMA OpenIsOpenSession ==
  ASSUME SingleProcess, IndInv, IndInv', NEW p \in Procs, Open(p)
  PROVE  Journal!OpenSession(p)
<1>1. /\ log' = log /\ watching' = watching /\ after' = after /\ received' = received
      /\ ~IsLoaded(p) /\ projector' = [projector EXCEPT ![p] = Loaded(log)]
  BY DEF Open, streams
<1>2. Committed' = Committed /\ Skipped' = Skipped /\ Got' = Got
  BY <1>1 DEF Committed, Skipped, Got
<1>3. IsLoaded(p)'
  <2>1. Loaded(log).last = Len(log) - 1 /\ Len(log) \in Nat
    BY IndInvParts, LoadIsComplete, SequencesArePositions DEF LogInv
  <2>2. projector'[p] = Loaded(log)
    BY <1>1, IndInvParts DEF MemoryTypes
  <2> QED
    BY <2>1, <2>2 DEF IsLoaded, NotLoaded
<1>4. Procs = {p}
  BY DEF SingleProcess
<1>5. Folded[p] = Nobody /\ DOMAIN Folded = Procs /\ Folded' = [q \in Procs |-> Committed]
  BY <1>1, <1>2, <1>3, <1>4, JournalView
<1>6. Folded' = [Folded EXCEPT ![p] = Committed]
  BY <1>4, <1>5, JournalView
<1> QED
  BY <1>2, <1>5, <1>6 DEF Journal!OpenSession

(* A crash closes the session and its subscriptions.                        *)
LEMMA CrashIsStop ==
  ASSUME SingleProcess, IndInv, IndInv', NEW p \in Procs, Crash(p)
  PROVE  Journal!Stop(p)
<1>1. /\ log' = log /\ after' = after /\ received' = received
      /\ projector' = [projector EXCEPT ![p] = NotLoaded]
      /\ watching' = [c \in Clients |-> IF watching[c] = p THEN Nobody ELSE watching[c]]
  BY DEF Crash
<1>2. Committed' = Committed /\ Skipped' = Skipped
  BY <1>1 DEF Committed, Skipped
<1>3. Procs = {p}
  BY DEF SingleProcess
<1>4. ~IsLoaded(p)'
  BY <1>1, IndInvParts DEF IsLoaded, MemoryTypes
<1>5. Folded' = [Folded EXCEPT ![p] = Nobody]
  <2>1. Folded' = [q \in Procs |-> Nobody] /\ DOMAIN Folded = Procs
    BY <1>3, <1>4, JournalView
  <2> QED
    BY <1>3, <2>1, JournalView
<1>6. \A c \in Clients : Got'[c] = Nobody \/ Got'[c] = Got[c]
  BY <1>1 DEF Got
<1>7. Got' \in [Clients -> {Nobody} \cup {Got[c] : c \in Clients}]
  <2>1. Got' = [c \in Clients |-> Got'[c]]
    BY DEF Got
  <2>2. \A c \in Clients : Got'[c] \in {Nobody} \cup {Got[d] : d \in Clients}
    BY <1>6
  <2> QED
    BY <2>1, <2>2
<1> QED
  BY <1>2, <1>5, <1>6, <1>7 DEF Journal!Stop

(* A watch subscribes after some prefix of the journal.                     *)
LEMMA WatchIsSubscribe ==
  ASSUME IndInv, IndInv', StreamTypes, StreamInv,
         NEW p \in Procs, NEW c \in Clients, NEW a \in -1..(Len(log) - 1), Watch(p, c, a)
  PROVE  Journal!Subscribe(c)
<1>1. LogOK(log) /\ Len(log) \in Nat /\ log \in Seq(LogEvents)
  BY IndInvParts, SequencesArePositions DEF LogInv, LogOK
<1>2. /\ log' = log /\ projector' = projector /\ watching[c] = Nobody
      /\ watching' = [watching EXCEPT ![c] = p]
      /\ after' = [after EXCEPT ![c] = a]
      /\ received' = [received EXCEPT ![c] = <<>>]
  BY DEF Watch
<1>3. Committed' = Committed /\ Folded' = Folded
  BY <1>2 DEF Committed, Folded, IsLoaded
<1> DEFINE n == Len(Committed) - Len(Replay(log, a))
<1>4. n \in 0..Len(Committed)
  <2>1. a \in Int /\ a >= -1
    BY <1>1
  <2>2. PICK u \in Seq(DurableEvents) : Replay(log, -1) = u \o Replay(log, a)
    BY <1>1, <2>1, ReplaySuffix
  <2>3. Replay(log, a) \in Seq(DurableEvents)
    BY <1>1, <2>1, ReplayType
  <2>4. Len(Committed) = Len(u) + Len(Replay(log, a)) /\ Len(u) \in Nat /\ Len(Replay(log, a)) \in Nat
    BY <2>2, <2>3, ConcatProperties, LenProperties DEF Committed
  <2> QED
    BY <2>4
<1>5. Skipped' = [Skipped EXCEPT ![c] = n]
  <2>1. \A d \in Clients : after'[d] = IF d = c THEN a ELSE after[d]
    BY <1>2 DEF StreamTypes
  <2> HIDE DEF n
  <2>2. \A d \in Clients : Len(Committed) - Len(Replay(log, after'[d]))
                             = IF d = c THEN n ELSE Len(Committed) - Len(Replay(log, after[d]))
    BY <2>1 DEF n
  <2> QED
    BY <1>2, <1>3, <2>2 DEF Skipped
<1>6. Got' = [Got EXCEPT ![c] = <<>>] /\ Got[c] = Nobody
  <2>1. DurablePart(<<>>) = <<>>
    BY SelectEmpty DEF DurablePart
  <2>2. \A d \in Clients : /\ watching'[d] = IF d = c THEN p ELSE watching[d]
                           /\ received'[d] = IF d = c THEN <<>> ELSE received[d]
    BY <1>2 DEF StreamTypes
  <2>3. p # Nobody
    BY ServiceAssumption
  <2>4. \A d \in Clients : (IF watching'[d] = Nobody THEN Nobody ELSE DurablePart(received'[d]))
                         = IF d = c THEN <<>>
                           ELSE IF watching[d] = Nobody THEN Nobody ELSE DurablePart(received[d])
    BY <2>1, <2>2, <2>3
  <2>5. Got[c] = Nobody
    BY <1>2 DEF Got
  <2> QED
    BY <2>4, <2>5 DEF Got
<1> HIDE DEF n
<1> QED
  BY <1>3, <1>4, <1>5, <1>6 DEF Journal!Subscribe

(* A durable event handed over is the next one of the journal.              *)
LEMMA DeliverIsRead ==
  ASSUME IndInv, StreamTypes, StreamInv, NEW c \in Clients, Deliver(c)
  PROVE  Journal!Read(c) \/ UNCHANGED <<Committed, Folded, Skipped, Got>>
<1> DEFINE h == Head(queue[c])
           t == Tail(queue[c])
           done == DurablePart(received[c])
<1>1. /\ LogOK(log) /\ Len(log) \in Nat /\ log \in Seq(LogEvents)
      /\ received[c] \in Seq(StreamEvents) /\ queue[c] \in Seq(StreamEvents) /\ queue[c] # <<>>
      /\ watching[c] # Nobody
  BY IndInvParts, SequencesArePositions DEF LogInv, LogOK, StreamTypes, Deliver
<1>2. h \in StreamEvents /\ t \in Seq(StreamEvents)
      /\ Append(received[c], h) \o t = received[c] \o queue[c]
      /\ Append(received[c], h) \in Seq(StreamEvents)
  <2>1. \A r, q \in Seq(StreamEvents) :
           q # <<>> => /\ Tail(q) \in Seq(StreamEvents) /\ Append(r, Head(q)) \in Seq(StreamEvents)
                       /\ Append(r, Head(q)) \o Tail(q) = r \o q
    BY HandOver
  <2>2. h \in StreamEvents
    BY <1>1, HeadTailProperties
  <2> QED
    BY <1>1, <2>1, <2>2
<1>3. /\ log' = log /\ projector' = projector /\ watching' = watching /\ after' = after
      /\ received' = [received EXCEPT ![c] = Append(received[c], h)]
  BY DEF Deliver, memory
<1> HIDE DEF h, t
<1>4. Committed' = Committed /\ Folded' = Folded /\ Skipped' = Skipped
  BY <1>3 DEF Committed, Folded, IsLoaded, Skipped
<1>5. DurablePart(Append(received[c], h)) = IF h.kind # "live" THEN Append(done, h) ELSE done
  BY <1>1, <1>2, DurableAppend
<1>6. Got[c] = done /\ Got' = [Got EXCEPT ![c] = DurablePart(Append(received[c], h))]
  <2>1. \A d \in Clients : received'[d] = IF d = c THEN Append(received[c], h) ELSE received[d]
    BY <1>3 DEF StreamTypes
  <2> HIDE DEF done
  <2>2. Got[c] = done
    BY <1>1 DEF Got, done
  <2>3. \A d \in Clients : (IF watching'[d] = Nobody THEN Nobody ELSE DurablePart(received'[d]))
                         = IF d = c THEN DurablePart(Append(received[c], h))
                           ELSE IF watching[d] = Nobody THEN Nobody ELSE DurablePart(received[d])
    BY <1>1, <1>3, <2>1
  <2> QED
    BY <2>2, <2>3 DEF Got
<1>7. CASE h.kind = "live"
  <2>1. Got' = [Got EXCEPT ![c] = Got[c]]
    BY <1>5, <1>6, <1>7
  <2>2. Got' = Got
    BY <2>1 DEF Got
  <2> QED
    BY <1>4, <2>2
<1>8. CASE h.kind # "live"
  <2> DEFINE r == Replay(log, after[c])
  <2>1. /\ done \in Seq(StreamEvents) /\ DurablePart(t) \in Seq(StreamEvents)
        /\ after[c] \in -1..(Len(log) - 1) /\ after[c] \in Int /\ after[c] >= -1
        /\ r \in Seq(DurableEvents)
    <3>1. done \in Seq(StreamEvents) /\ DurablePart(t) \in Seq(StreamEvents)
      BY <1>1, <1>2, SelectType DEF DurablePart
    <3>2. after[c] \in -1..(Len(log) - 1)
      BY DEF StreamInv, StreamFollows
    <3>3. after[c] \in Int /\ after[c] >= -1
      BY <1>1, <3>2
    <3> QED
      BY <1>1, <3>1, <3>2, <3>3, ReplayType
  <2>2. r = Append(done, h) \o DurablePart(t)
    <3>1. DurablePart(Stream(c)) = r
      BY <1>1 DEF StreamInv, StreamFollows
    <3>2. Stream(c) = Append(received[c], h) \o t
      BY <1>2 DEF Stream
    <3>3. DurablePart(Append(received[c], h) \o t)
            = DurablePart(Append(received[c], h)) \o DurablePart(t)
      BY <1>2, DurableConcat
    <3> QED
      BY <1>5, <1>8, <3>1, <3>2, <3>3
  <2> HIDE DEF r, done
  <2>3. /\ Len(done) \in Nat /\ Len(done) < Len(r) /\ r[Len(done) + 1] = h
    <3> DEFINE v == Append(done, h)
               w == DurablePart(t)
    <3>1. v \in Seq(StreamEvents) /\ Len(v) = Len(done) + 1 /\ v[Len(done) + 1] = h /\ Len(done) \in Nat
      BY <1>2, <2>1, AppendProperties, LenProperties
    <3>2. w \in Seq(StreamEvents) /\ Len(w) \in Nat
      BY <2>1, LenProperties
    <3> HIDE DEF v, w
    <3>3. /\ Len(v \o w) = Len(v) + Len(w)
          /\ \A i \in 1..(Len(v) + Len(w)) : (v \o w)[i] = IF i <= Len(v) THEN v[i] ELSE w[i - Len(v)]
      BY <3>1, <3>2, ConcatProperties
    <3>4. (v \o w)[Len(done) + 1] = h /\ Len(done) < Len(v \o w)
      <4>1. Len(done) + 1 \in 1..(Len(v) + Len(w)) /\ Len(done) + 1 <= Len(v)
        BY <3>1, <3>2
      <4> QED
        BY <3>1, <3>2, <3>3, <4>1
    <3> QED
      BY <2>2, <3>1, <3>4 DEF v, w
  <2>4. PICK u \in Seq(DurableEvents) : Committed = u \o r
    BY <1>1, <2>1, ReplaySuffix DEF Committed, r
  <2>5. /\ Len(Committed) = Len(u) + Len(r) /\ Len(u) \in Nat /\ Len(r) \in Nat
        /\ \A i \in 1..(Len(u) + Len(r)) : Committed[i] = IF i <= Len(u) THEN u[i] ELSE r[i - Len(u)]
    BY <2>1, <2>4, ConcatProperties, LenProperties
  <2>6. Skipped[c] = Len(u)
    BY <2>5 DEF Skipped, r
  <2>7. Skipped[c] + Len(done) < Len(Committed) /\ Committed[Skipped[c] + Len(done) + 1] = h
    <3>1. /\ Len(u) + Len(done) + 1 \in 1..(Len(u) + Len(r))
          /\ ~(Len(u) + Len(done) + 1 <= Len(u))
          /\ (Len(u) + Len(done) + 1) - Len(u) = Len(done) + 1
      BY <2>3, <2>5
    <3>2. Committed[Len(u) + Len(done) + 1] = r[Len(done) + 1]
      BY <2>5, <3>1
    <3> QED
      BY <2>3, <2>5, <2>6, <3>2
  <2>8. done # Nobody
    <3>1. done \in Seq(DurableEvents)
      <4> DEFINE S == {e \in Members(received[c]) : e.kind # "live"}
      <4>1. Select(received[c], S) \in Seq(StreamEvents \cap S)
        BY <1>1, SelectType
      <4>2. StreamEvents \cap S \subseteq DurableEvents
        BY DEF StreamEvents, DurableEvents
      <4> HIDE DEF S
      <4>3. Select(received[c], S) \in Seq(DurableEvents)
        BY <4>1, <4>2, SeqMonotonic
      <4> QED
        BY <4>3 DEF DurablePart, done, S
    <3> QED
      BY <3>1, ServiceAssumption DEF DurableEvents
  <2>9. Got' = [Got EXCEPT ![c] = Append(done, h)]
    BY <1>5, <1>6, <1>8 DEF done
  <2>10. Got[c] = done
    BY <1>6 DEF done
  <2> QED
    BY <1>4, <2>7, <2>8, <2>9, <2>10 DEF Journal!Read
<1> QED
  BY <1>7, <1>8

(* Every step is a step of the journal or none.                             *)
LEMMA NextIsJournalNext ==
  ASSUME SingleProcess, IndInv, IndInv', StreamTypes, StreamInv, [Next]_vars
  PROVE  [Journal!Next]_(Journal!journalVars)
<1> USE DEF Journal!journalVars
<1>1. CASE UNCHANGED <<log, projector, watching, after, received>>
  BY <1>1 DEF Committed, Folded, Skipped, Got, IsLoaded
<1>2. ASSUME NEW p \in Procs, Service(p) PROVE [Journal!Next]_(Journal!journalVars)
  <2>1. CASE Open(p)
    BY <2>1, OpenIsOpenSession DEF Journal!Next
  <2>2. ASSUME NEW kind \in DurableKinds, AppendEvent(p, kind)
        PROVE  [Journal!Next]_(Journal!journalVars)
    BY <2>2, AppendEventIsCommit DEF Journal!Next
  <2>3. CASE SaveSnapshot(p)
    BY <2>3, SaveSnapshotIsInvisible
  <2>4. CASE SnapshotOnRead(p) \/ SnapshotAppendFails(p) \/ PublishLive(p)
    BY <1>1, <2>4 DEF SnapshotOnRead, SnapshotAppendFails, PublishLive, streams, memory
  <2>5. CASE Crash(p)
    BY <2>5, CrashIsStop DEF Journal!Next
  <2> QED
    BY <1>2, <2>1, <2>2, <2>3, <2>4, <2>5 DEF Service
<1>3. ASSUME NEW c \in Clients, Reader(c) PROVE [Journal!Next]_(Journal!journalVars)
  <2>1. ASSUME NEW p \in Procs, NEW a \in -1..(Len(log) - 1), Watch(p, c, a)
        PROVE  [Journal!Next]_(Journal!journalVars)
    BY <2>1, WatchIsSubscribe DEF Journal!Next
  <2>2. CASE Deliver(c)
    BY <2>2, DeliverIsRead DEF Journal!Next
  <2>3. CASE Unwatch(c)
    <3>1. /\ log' = log /\ projector' = projector /\ after' = after /\ received' = received
          /\ watching' = [watching EXCEPT ![c] = Nobody]
      BY <2>3 DEF Unwatch, memory
    <3>2. Committed' = Committed /\ Folded' = Folded /\ Skipped' = Skipped
      BY <3>1 DEF Committed, Folded, Skipped, IsLoaded
    <3>3. Got' = [Got EXCEPT ![c] = Nobody]
      BY <3>1 DEF Got, StreamTypes
    <3>4. Journal!Unsubscribe(c)
      BY <3>2, <3>3 DEF Journal!Unsubscribe
    <3> QED
      BY <3>4 DEF Journal!Next
  <2> QED
    BY <1>3, <2>1, <2>2, <2>3 DEF Reader
<1> QED
  BY <1>1, <1>2, <1>3 DEF Next, vars, memory, streams

(* One process's services implement the journal: its state is a fold of the  *)
(* journal at every open, and a subscriber reads every event once and in     *)
(* order, whatever is snapshotted, published live or lost in a crash.        *)
THEOREM ServiceImplementsJournal == SingleProcess => (Spec => ImplementsJournal)
<1> SUFFICES ASSUME SingleProcess PROVE Spec => ImplementsJournal
  OBVIOUS
<1>1. Init => Journal!Init
  <2> SUFFICES ASSUME Init PROVE Journal!Init
    OBVIOUS
  <2>1. log = <<>> /\ \A a : Replay(<<>>, a) = <<>>
    BY SelectEmpty DEF Init, Replay
  <2>2. Committed = <<>> /\ Len(<<>>) = 0
    BY <2>1, EmptySeq DEF Committed
  <2>3. Folded = [p \in Procs |-> Nobody] /\ Got = [c \in Clients |-> Nobody]
    BY DEF Init, Folded, Got, IsLoaded
  <2>4. Skipped = [c \in Clients |-> 0]
    BY <2>1, <2>2 DEF Skipped
  <2> QED
    BY <2>2, <2>3, <2>4 DEF Journal!Init
<1>2. IndInv /\ IndInv' /\ StreamTypes /\ StreamInv /\ [Next]_vars => [Journal!Next]_(Journal!journalVars)
  BY NextIsJournalNext
<1> QED
  BY <1>1, <1>2, ServiceInductive, StreamsFollow, PTL DEF Spec, ImplementsJournal, Journal!Spec

-----------------------------------------------------------------------------
(* The terminal UI.                                                         *)

(* The domain of a queue.                                                   *)
LEMMA QueueShape ==
  ASSUME NEW q \in Seq(StreamEvents)
  PROVE  /\ Len(q) \in Nat /\ DOMAIN q = 1..Len(q)
         /\ \A i \in 1..Len(q) : q[i] \in StreamEvents /\ q[i].seq \in Nat
<1>1. Len(q) \in Nat /\ DOMAIN q = 1..Len(q) /\ \A i \in 1..Len(q) : q[i] \in StreamEvents
  BY LenProperties, ElementOfSeq
<1> QED
  BY <1>1 DEF StreamEvents

(* What an event adds at the end of a queue.                                *)
LEMMA QueueAppend ==
  ASSUME NEW q \in Seq(StreamEvents), NEW e \in StreamEvents
  PROVE  /\ DurableSeqs(Append(q, e)) =
              DurableSeqs(q) \cup (IF e.kind # "live" THEN {e.seq} ELSE {})
         /\ \A S : InOrder(q, S) /\ (e.kind # "live" => \A s \in S : s < e.seq) =>
              InOrder(Append(q, e), S \cup (IF e.kind # "live" THEN {e.seq} ELSE {}))
<1> DEFINE t == Append(q, e)
           New == IF e.kind # "live" THEN {e.seq} ELSE {}
<1>1. /\ Len(q) \in Nat /\ DOMAIN q = 1..Len(q)
      /\ \A i \in 1..Len(q) : q[i] \in StreamEvents /\ q[i].seq \in Nat
  BY QueueShape
<1>2. /\ Len(t) = Len(q) + 1 /\ DOMAIN t = 1..(Len(q) + 1)
      /\ \A i \in 1..Len(q) : t[i] = q[i]
      /\ t[Len(q) + 1] = e
  BY AppendProperties, LenProperties
<1> HIDE DEF t
<1>3. DurableSeqs(t) = DurableSeqs(q) \cup New
  <2>1. DurableSeqs(t) \subseteq DurableSeqs(q) \cup New
    <3> SUFFICES ASSUME NEW i \in 1..(Len(q) + 1), t[i].kind # "live"
                 PROVE  t[i].seq \in DurableSeqs(q) \cup New
      BY <1>2 DEF DurableSeqs
    <3>1. CASE i \in 1..Len(q)
      BY <1>1, <1>2, <3>1 DEF DurableSeqs
    <3>2. CASE i = Len(q) + 1
      BY <1>2, <3>2
    <3> QED
      BY <1>1, <3>1, <3>2
  <2>2. DurableSeqs(q) \subseteq DurableSeqs(t)
    BY <1>1, <1>2 DEF DurableSeqs
  <2>3. New \subseteq DurableSeqs(t)
    BY <1>1, <1>2 DEF DurableSeqs
  <2> QED
    BY <2>1, <2>2, <2>3
<1>4. ASSUME NEW S, InOrder(q, S), e.kind # "live" => \A s \in S : s < e.seq
      PROVE  InOrder(t, S \cup New)
  <2>1. DurableSeqs(t) \subseteq S \cup New
    BY <1>3, <1>4 DEF InOrder
  <2>2. ASSUME NEW i \in 1..(Len(q) + 1), NEW j \in 1..(Len(q) + 1),
               i < j, t[i].kind # "live", t[j].kind # "live"
        PROVE  t[i].seq < t[j].seq
    <3>1. i \in 1..Len(q)
      BY <1>1, <2>2
    <3>2. CASE j \in 1..Len(q)
      BY <1>1, <1>2, <1>4, <2>2, <3>1, <3>2 DEF InOrder
    <3>3. CASE j = Len(q) + 1
      <4>1. t[i].seq \in S
        BY <1>1, <1>2, <1>4, <2>2, <3>1 DEF InOrder, DurableSeqs
      <4> QED
        BY <1>2, <1>4, <2>2, <3>3, <4>1
    <3> QED
      BY <1>1, <3>2, <3>3
  <2> QED
    BY <1>2, <2>1, <2>2 DEF InOrder
<1> QED
  BY <1>3, <1>4 DEF t

(* What the first event takes from a queue.                                 *)
LEMMA QueueTail ==
  ASSUME NEW q \in Seq(StreamEvents), q # <<>>, NEW S, InOrder(q, S)
  PROVE  /\ Head(q) \in StreamEvents /\ InOrder(Tail(q), S)
         /\ Head(q).kind = "live" => DurableSeqs(q) = DurableSeqs(Tail(q))
         /\ Head(q).kind # "live" =>
              /\ Head(q).seq \in S
              /\ DurableSeqs(q) = DurableSeqs(Tail(q)) \cup {Head(q).seq}
              /\ \A s \in DurableSeqs(Tail(q)) : s > Head(q).seq
<1>1. /\ Len(q) \in Nat /\ DOMAIN q = 1..Len(q)
      /\ \A i \in 1..Len(q) : q[i] \in StreamEvents /\ q[i].seq \in Nat
  BY QueueShape
<1>2. /\ Len(q) \in Nat \ {0} /\ Head(q) = q[1] /\ Tail(q) \in Seq(StreamEvents)
      /\ Len(Tail(q)) = Len(q) - 1
      /\ \A i \in 1..Len(Tail(q)) : Tail(q)[i] = q[i + 1]
  BY HeadTailProperties, EmptySeq
<1> DEFINE t == Tail(q)
<1>3. DOMAIN t = 1..(Len(q) - 1) /\ \A i \in 1..(Len(q) - 1) : t[i] = q[i + 1]
  BY <1>2, LenProperties
<1> HIDE DEF t
<1>4. DurableSeqs(t) \subseteq DurableSeqs(q)
  <2> SUFFICES ASSUME NEW i \in 1..(Len(q) - 1), t[i].kind # "live" PROVE t[i].seq \in DurableSeqs(q)
    BY <1>3 DEF DurableSeqs
  <2>1. i + 1 \in 1..Len(q)
    BY <1>1
  <2> QED
    BY <1>1, <1>3, <2>1 DEF DurableSeqs
<1>5. ASSUME NEW i \in 1..Len(q), q[i].kind # "live", i # 1 PROVE q[i].seq \in DurableSeqs(t)
  <2>1. i - 1 \in 1..(Len(q) - 1) /\ (i - 1) + 1 = i
    BY <1>1, <1>5
  <2>2. t[i - 1] = q[i]
    BY <1>3, <2>1
  <2> QED
    BY <1>3, <1>5, <2>1, <2>2 DEF DurableSeqs
<1>6. ASSUME q[1].kind # "live"
      PROVE  q[1].seq \in S /\ \A s \in DurableSeqs(t) : s > q[1].seq
  <2>1. q[1].seq \in S
    BY <1>1, <1>2, <1>6 DEF InOrder, DurableSeqs
  <2>2. ASSUME NEW i \in 1..(Len(q) - 1), t[i].kind # "live" PROVE t[i].seq > q[1].seq
    <3>1. i + 1 \in 1..Len(q) /\ 1 < i + 1 /\ 1 \in 1..Len(q) /\ t[i] = q[i + 1]
      BY <1>1, <1>2, <1>3
    <3>2. q[1].seq < q[i + 1].seq
      BY <1>1, <1>6, <2>2, <3>1 DEF InOrder
    <3> QED
      BY <1>1, <3>1, <3>2
  <2> QED
    BY <1>3, <2>1, <2>2 DEF DurableSeqs
<1>7. DurableSeqs(q) = DurableSeqs(t) \cup (IF q[1].kind = "live" THEN {} ELSE {q[1].seq})
  <2>1. DurableSeqs(q) \subseteq DurableSeqs(t) \cup (IF q[1].kind = "live" THEN {} ELSE {q[1].seq})
    <3> SUFFICES ASSUME NEW i \in 1..Len(q), q[i].kind # "live"
                 PROVE  q[i].seq \in DurableSeqs(t) \cup (IF q[1].kind = "live" THEN {} ELSE {q[1].seq})
      BY <1>1 DEF DurableSeqs
    <3> QED
      BY <1>5
  <2>2. q[1].kind # "live" => q[1].seq \in DurableSeqs(q)
    BY <1>1, <1>2 DEF DurableSeqs
  <2> QED
    BY <1>4, <2>1, <2>2
<1>8. InOrder(t, S)
  <2>1. DurableSeqs(t) \subseteq S
    BY <1>4 DEF InOrder
  <2>2. ASSUME NEW i \in 1..(Len(q) - 1), NEW j \in 1..(Len(q) - 1),
               i < j, t[i].kind # "live", t[j].kind # "live"
        PROVE  t[i].seq < t[j].seq
    <3>1. i + 1 \in 1..Len(q) /\ j + 1 \in 1..Len(q) /\ i + 1 < j + 1
      BY <1>1, <2>2
    <3>2. t[i] = q[i + 1] /\ t[j] = q[j + 1]
      BY <1>3
    <3> QED
      BY <1>1, <2>2, <3>1, <3>2 DEF InOrder
  <2> QED
    BY <1>3, <2>1, <2>2 DEF InOrder
<1>9. Head(q) \in StreamEvents
  BY <1>1, <1>2
<1> QED
  BY <1>2, <1>6, <1>7, <1>8, <1>9 DEF t

(* A replay holds, in order, every event after its start.                   *)
LEMMA ReplayInOrder ==
  ASSUME NEW l, LogOK(l), NEW a \in Int
  PROVE  /\ InOrder(Replay(l, a), EventSeqs(l))
         /\ EventsAfter(l, a) \subseteq DurableSeqs(Replay(l, a))
<1> DEFINE Holds(s) == /\ InOrder(Replay(s, a), EventSeqs(s))
                       /\ EventsAfter(s, a) \subseteq DurableSeqs(Replay(s, a))
           Z == {s \in Seq(LogEvents) : LogOK(s) => Holds(s)}
<1>1. <<>> \in Z
  <2>1. <<>> \in Seq(LogEvents) /\ DOMAIN <<>> = {} /\ Len(<<>>) = 0
    BY EmptySeq
  <2>2. Replay(<<>>, a) = <<>>
    BY SelectEmpty DEF Replay
  <2>3. EventSeqs(<<>>) = {} /\ EventsAfter(<<>>, a) = {} /\ DurableSeqs(<<>>) = {}
    BY <2>1 DEF EventSeqs, EventsAfter, DurableSeqs
  <2>4. Holds(<<>>)
    BY <2>1, <2>2, <2>3 DEF InOrder
  <2> QED
    BY <2>1, <2>4
<1>2. ASSUME NEW s \in Seq(LogEvents), NEW e \in LogEvents, s \in Z PROVE Append(s, e) \in Z
  <2>1. Append(s, e) \in Seq(LogEvents)
    BY AppendProperties
  <2> SUFFICES ASSUME LogOK(Append(s, e)) PROVE Holds(Append(s, e))
    BY <2>1
  <2>2. /\ Len(s) \in Nat /\ DOMAIN s = 1..Len(s) /\ Len(Append(s, e)) = Len(s) + 1
        /\ DOMAIN Append(s, e) = 1..(Len(s) + 1)
        /\ \A i \in 1..Len(s) : Append(s, e)[i] = s[i]
        /\ Append(s, e)[Len(s) + 1] = e
    BY <2>1, AppendProperties, LenProperties
  <2>3. LogOK(s) /\ e.seq = Len(s)
    BY <2>2, SMTT(60) DEF LogOK
  <2>4. Holds(s)
    BY <1>2, <2>3
  <2>5. /\ EventSeqs(Append(s, e)) = EventSeqs(s) \cup (IF IsSnapshot(e) THEN {} ELSE {e.seq})
        /\ EventSeqs(s) = {x \in 0..(Len(s) - 1) : ~IsSnapshot(s[x + 1])}
    BY <2>3, AppendToLog, SequencesArePositions
  <2>6. Replay(Append(s, e), a) = IF ~IsSnapshot(e) /\ e.seq > a THEN Append(Replay(s, a), e)
                                  ELSE Replay(s, a)
    BY ReplayAppend
  <2>7. CASE ~IsSnapshot(e) /\ e.seq > a
    <3>1. e \in StreamEvents /\ e.kind # "live"
      BY <2>7, ServiceAssumption DEF LogEvents, StreamEvents, IsSnapshot
    <3>2. Replay(s, a) \in Seq(StreamEvents)
      BY ReplayType
    <3>3. \A x \in EventSeqs(s) : x < e.seq
      BY <2>2, <2>3, <2>5
    <3> DEFINE r == Replay(s, a)
               S == EventSeqs(s)
    <3> HIDE DEF r, S
    <3>4. InOrder(Append(r, e), S \cup {e.seq}) /\ DurableSeqs(Append(r, e)) = DurableSeqs(r) \cup {e.seq}
      BY <2>4, <3>1, <3>2, <3>3, QueueAppend DEF r, S
    <3>5. EventSeqs(Append(s, e)) = S \cup {e.seq} /\ Replay(Append(s, e), a) = Append(r, e)
      BY <2>5, <2>6, <2>7 DEF r, S
    <3>6. EventsAfter(Append(s, e), a) \subseteq DurableSeqs(Append(r, e))
      BY <2>4, <3>4, <3>5 DEF EventsAfter, r, S
    <3> QED
      BY <3>4, <3>5, <3>6
  <2>8. CASE IsSnapshot(e) \/ ~(e.seq > a)
    <3>1. Replay(Append(s, e), a) = Replay(s, a) /\ EventSeqs(s) \subseteq EventSeqs(Append(s, e))
      BY <2>5, <2>6, <2>8
    <3>2. EventsAfter(Append(s, e), a) = EventsAfter(s, a)
      BY <2>5, <2>8 DEF EventsAfter
    <3> QED
      BY <2>4, <3>1, <3>2 DEF InOrder
  <2> QED
    BY <2>7, <2>8
<1> HIDE DEF Z
<1>3. Seq(LogEvents) \subseteq Z
  BY <1>1, <1>2, ClosedIsSeq
<1> QED
  BY <1>3 DEF Z, LogOK

-----------------------------------------------------------------------------
(* The states the UI holds, as the log and its queue move on.               *)

(* A fold up to a cursor stays one.                                         *)
LEMMA FoldStays ==
  ASSUME NEW l, LogOK(l), NEW e \in LogEvents, e.seq = Len(l), NEW st, FoldUpTo(st, l)
  PROVE  FoldUpTo(st, Append(l, e))
<1>1. /\ Len(l) \in Nat /\ Len(Append(l, e)) = Len(l) + 1
      /\ EventSeqs(Append(l, e)) = EventSeqs(l) \cup (IF IsSnapshot(e) THEN {} ELSE {Len(l)})
  BY AppendToLog, SequencesArePositions
<1>2. st.last < Len(l) /\ st.last \in -1..(Len(l) + 1 - 1)
  BY <1>1 DEF FoldUpTo
<1>3. {s \in EventSeqs(Append(l, e)) : s <= st.last} = {s \in EventSeqs(l) : s <= st.last}
  BY <1>1, <1>2 DEF FoldUpTo
<1> QED
  BY <1>1, <1>2, <1>3 DEF FoldUpTo

(* An event that is committed and queued.                                   *)
LEMMA LacksEvent ==
  ASSUME NEW l, LogOK(l), NEW e \in LogEvents, e \in StreamEvents, e.seq = Len(l), e.kind # "live",
         NEW q \in Seq(StreamEvents), NEW st, LacksOnlyQueued(st, l, q)
  PROVE  LacksOnlyQueued(st, Append(l, e), Append(q, e))
<1>1. ~IsSnapshot(e)
  BY ServiceAssumption DEF StreamEvents, IsSnapshot
<1>2. /\ Len(l) \in Nat /\ Len(Append(l, e)) = Len(l) + 1
      /\ EventSeqs(Append(l, e)) = EventSeqs(l) \cup {Len(l)}
  BY <1>1, AppendToLog, SequencesArePositions
<1>3. DurableSeqs(Append(q, e)) = DurableSeqs(q) \cup {Len(l)}
  BY QueueAppend
<1>4. st.last < Len(l) /\ st.last \in -1..(Len(l) + 1 - 1)
  BY <1>2 DEF LacksOnlyQueued
<1> QED
  BY <1>2, <1>3, <1>4 DEF LacksOnlyQueued

(* A snapshot that is committed, which no queue is told.                    *)
LEMMA LacksQuietly ==
  ASSUME NEW l, LogOK(l), NEW e \in LogEvents, IsSnapshot(e), e.seq = Len(l),
         NEW q, NEW st, LacksOnlyQueued(st, l, q)
  PROVE  LacksOnlyQueued(st, Append(l, e), q)
<1>1. /\ Len(l) \in Nat /\ Len(Append(l, e)) = Len(l) + 1
      /\ EventSeqs(Append(l, e)) = EventSeqs(l)
  <2>1. /\ Len(Append(l, e)) = Len(l) + 1
        /\ EventSeqs(Append(l, e)) = EventSeqs(l) \cup (IF IsSnapshot(e) THEN {} ELSE {e.seq})
    BY AppendToLog
  <2> QED
    BY <2>1, SequencesArePositions
<1>2. st.last \in -1..(Len(l) + 1 - 1)
  BY <1>1 DEF LacksOnlyQueued
<1> QED
  BY <1>1, <1>2 DEF LacksOnlyQueued

(* An ephemeral event that is queued.                                       *)
LEMMA LacksLive ==
  ASSUME NEW l, NEW e \in StreamEvents, e.kind = "live",
         NEW q \in Seq(StreamEvents), NEW st, LacksOnlyQueued(st, l, q)
  PROVE  LacksOnlyQueued(st, l, Append(q, e))
<1>1. DurableSeqs(Append(q, e)) = DurableSeqs(q)
  BY QueueAppend
<1> QED
  BY <1>1 DEF LacksOnlyQueued

(* An event that is received: folded, or known already.                     *)
LEMMA LacksReceived ==
  ASSUME NEW l, LogOK(l), NEW q \in Seq(StreamEvents), q # <<>>, InOrder(q, EventSeqs(l)),
         NEW st, LacksOnlyQueued(st, l, q)
  PROVE  IF AlreadySeen(st, Head(q)) \/ Head(q).kind = "live"
         THEN LacksOnlyQueued(st, l, Tail(q))
         ELSE LacksOnlyQueued(Applied(st, Head(q)), l, Tail(q))
<1> DEFINE e == Head(q)
<1>1. /\ Len(l) \in Nat /\ EventSeqs(l) \subseteq 0..(Len(l) - 1)
      /\ st.last \in -1..(Len(l) - 1) /\ st.applied \subseteq EventSeqs(l)
      /\ \A s \in EventSeqs(l) \ st.applied : s > st.last /\ s \in DurableSeqs(q)
  BY SequencesArePositions DEF LacksOnlyQueued
<1>2. /\ e \in StreamEvents
      /\ e.kind = "live" => DurableSeqs(q) = DurableSeqs(Tail(q))
      /\ e.kind # "live" => /\ e.seq \in EventSeqs(l)
                            /\ DurableSeqs(q) = DurableSeqs(Tail(q)) \cup {e.seq}
                            /\ \A s \in DurableSeqs(Tail(q)) : s > e.seq
  BY QueueTail
<1> HIDE DEF e
<1>3. CASE e.kind = "live"
  BY <1>1, <1>2, <1>3 DEF LacksOnlyQueued, e
<1>4. CASE e.kind # "live" /\ AlreadySeen(st, e)
  <2>1. e.seq <= st.last
    BY <1>1, <1>2, <1>4 DEF AlreadySeen
  <2>2. \A s \in EventSeqs(l) \ st.applied : s > st.last /\ s \in DurableSeqs(Tail(q))
    BY <1>1, <1>2, <1>4, <2>1
  <2>3. LacksOnlyQueued(st, l, Tail(q))
    BY <1>1, <2>2 DEF LacksOnlyQueued
  <2> QED
    BY <1>4, <2>3 DEF e
<1>5. CASE e.kind # "live" /\ ~AlreadySeen(st, e)
  <2>1. ~IsSnapshot(e)
    BY <1>2, ServiceAssumption DEF StreamEvents, IsSnapshot
  <2>2. Applied(st, e).applied = st.applied \cup {e.seq} /\ Applied(st, e).last = e.seq
    BY <2>1 DEF Applied
  <2>3. \A s \in EventSeqs(l) \ (st.applied \cup {e.seq}) : s > e.seq /\ s \in DurableSeqs(Tail(q))
    BY <1>1, <1>2, <1>5
  <2>4. e.seq \in -1..(Len(l) - 1) /\ st.applied \cup {e.seq} \subseteq EventSeqs(l)
    BY <1>1, <1>2, <1>5
  <2>5. LacksOnlyQueued(Applied(st, e), l, Tail(q))
    BY <2>2, <2>3, <2>4 DEF LacksOnlyQueued
  <2> QED
    BY <1>5, <2>5 DEF e
<1> QED
  BY <1>3, <1>4, <1>5

(* A watch opened at the cursor of a fold.                                  *)
LEMMA LacksReplay ==
  ASSUME NEW l, LogOK(l), NEW st, FoldUpTo(st, l)
  PROVE  LacksOnlyQueued(st, l, Replay(l, st.last))
<1>1. Len(l) \in Nat /\ EventSeqs(l) \subseteq 0..(Len(l) - 1)
  BY SequencesArePositions
<1>2. /\ st.last \in Int /\ st.last \in -1..(Len(l) - 1)
      /\ st.applied = {s \in EventSeqs(l) : s <= st.last}
  BY <1>1 DEF FoldUpTo
<1>3. EventsAfter(l, st.last) \subseteq DurableSeqs(Replay(l, st.last))
  BY <1>2, ReplayInOrder
<1>4. \A s \in EventSeqs(l) \ st.applied : s > st.last /\ s \in DurableSeqs(Replay(l, st.last))
  BY <1>1, <1>2, <1>3 DEF EventsAfter
<1> QED
  BY <1>2, <1>4 DEF LacksOnlyQueued

-----------------------------------------------------------------------------
(* The types of what the UI adds.                                           *)

ViewTypes == /\ view \in [Clients -> States \cup {NoView}]
             /\ fetched \in [Clients -> States \cup {NoView}]
             /\ refresh \in [Clients -> States \cup {NoView}]
             /\ failed \in [Clients -> BOOLEAN]
             /\ refreshes \in 0..MaxRefreshes

(* An open UI is the reader whose watch starts where the snapshot fetched   *)
(* ends, so every step of the UI is a step of its services or none.         *)
LEMMA TuiStepsAreSteps ==
  ASSUME FetchedIsFold, [TuiNext]_allVars
  PROVE  [Next]_vars
<1>1. CASE UNCHANGED allVars
  BY <1>1 DEF allVars
<1>2. ASSUME NEW p \in Procs, ServiceStep(p) \/ CrashAll(p) PROVE [Next]_vars
  BY <1>2 DEF ServiceStep, CrashAll, Next, Service
<1>3. ASSUME NEW c \in Clients, TuiStep(c) PROVE [Next]_vars
  <2>1. ASSUME NEW p \in Procs, OpenView(p, c) PROVE [Next]_vars
    <3>1. fetched[c].last \in -1..(Len(log) - 1) /\ Watch(p, c, fetched[c].last)
      BY <2>1 DEF OpenView, FetchedIsFold, FoldUpTo
    <3> QED
      BY <3>1 DEF Next, Reader
  <2>2. ASSUME NEW p \in Procs, FetchSnapshot(p, c) \/ RequestRefresh(p, c) PROVE [Next]_vars
    BY <2>2 DEF FetchSnapshot, RequestRefresh
  <2>3. CASE ReceiveEvent(c) \/ LeaveView(c) \/ ApplyRefresh(c)
    BY <2>3 DEF ReceiveEvent, LeaveView, ApplyRefresh, Next, Reader
  <2> QED
    BY <1>3, <2>1, <2>2, <2>3 DEF TuiStep
<1> QED
  BY <1>1, <1>2, <1>3 DEF TuiNext

-----------------------------------------------------------------------------
(* Every step keeps the view.                                               *)

(* Initially there is nothing to show.                                      *)
LEMMA InitView == TuiInit => ViewTypes /\ ViewInv
<1> SUFFICES ASSUME TuiInit PROVE ViewTypes /\ ViewInv
  OBVIOUS
<1>1. ViewTypes
  BY TuiAssumption DEF TuiInit, ViewTypes
<1>2. DOMAIN <<>> = {}
  BY EmptySeq
<1>3. InOrder(<<>>, {}) /\ {} \subseteq EventSeqs(log)
  BY <1>2 DEF InOrder, DurableSeqs
<1>4. QueueInOrder
  BY <1>3 DEF TuiInit, Init, QueueInOrder, InOrder
<1>5. StreamNeverFails /\ FetchedIsFold /\ ViewFollows
  BY DEF TuiInit, StreamNeverFails, FetchedIsFold, ViewFollows
<1> QED
  BY <1>1, <1>4, <1>5 DEF ViewInv

(* The UI's own variables stay.                                             *)
ViewSame == UNCHANGED <<view, fetched, refresh, failed, refreshes>>

(* Nothing the view depends on moves.                                       *)
LEMMA QuietView ==
  ASSUME ViewTypes, ViewInv, ViewSame, UNCHANGED <<log, queue, watching>>
  PROVE  ViewTypes' /\ ViewInv'
BY DEF ViewTypes, ViewInv, ViewSame, StreamNeverFails, QueueInOrder, FetchedIsFold, ViewFollows

(* An event is committed, and pushed to every watcher.                      *)
LEMMA AppendEventView ==
  ASSUME SingleProcess, IndInv, StreamTypes, ViewTypes, ViewInv, ViewSame,
         NEW p \in Procs, NEW kind \in DurableKinds, AppendEvent(p, kind)
  PROVE  ViewTypes' /\ ViewInv'
<1> DEFINE e == Event(NextSequence(log), kind)
<1>1. LogOK(log) /\ Len(log) \in Nat
  BY IndInvParts, SequencesArePositions DEF LogInv
<1>2. e \in DurableEvents /\ e.seq = Len(log) /\ e.kind = kind
  BY <1>1 DEF DurableEvents, Event, NextSequence
<1>3. /\ log' = Append(log, e) /\ watching' = watching
      /\ queue' = [c \in Clients |-> IF watching[c] = p THEN Append(queue[c], e) ELSE queue[c]]
  BY DEF AppendEvent, Push
<1> HIDE DEF e
<1>4. e \in StreamEvents /\ e \in LogEvents /\ e.kind # "live" /\ ~IsSnapshot(e)
  BY <1>2, ServiceAssumption DEF DurableEvents, StreamEvents, LogEvents, IsSnapshot
<1>5. /\ EventSeqs(Append(log, e)) = EventSeqs(log) \cup {e.seq}
      /\ \A s \in EventSeqs(log) : s < e.seq
  BY <1>1, <1>2, <1>4, AppendToLog, SequencesArePositions
<1>6. ViewTypes'
  BY DEF ViewTypes, ViewSame
<1>7. ASSUME NEW c \in Clients PROVE InOrder(queue'[c], EventSeqs(log'))
  <2>1. queue[c] \in Seq(StreamEvents) /\ InOrder(queue[c], EventSeqs(log))
    BY DEF StreamTypes, ViewInv, QueueInOrder
  <2>2. CASE watching[c] = p
    BY <1>3, <1>4, <1>5, <2>1, <2>2, QueueAppend, SMTT(60)
  <2>3. CASE watching[c] # p
    BY <1>3, <1>5, <2>1, <2>3 DEF InOrder
  <2> QED
    BY <2>2, <2>3
<1>8. ASSUME NEW c \in Clients, fetched'[c] # NoView PROVE FoldUpTo(fetched'[c], log')
  BY <1>1, <1>2, <1>3, <1>4, <1>8, FoldStays DEF ViewInv, FetchedIsFold, ViewSame
<1>9. ASSUME NEW c \in Clients, refreshes' = 0, view'[c] # NoView
      PROVE  watching'[c] # Nobody /\ LacksOnlyQueued(view'[c], log', queue'[c])
  <2>1. watching[c] # Nobody /\ LacksOnlyQueued(view[c], log, queue[c])
    BY <1>9 DEF ViewInv, ViewFollows, ViewSame
  <2>2. watching[c] = p /\ queue[c] \in Seq(StreamEvents)
    BY <2>1 DEF StreamTypes, SingleProcess
  <2>3. queue'[c] = Append(queue[c], e)
    BY <1>3, <2>2
  <2>4. LacksOnlyQueued(view[c], Append(log, e), Append(queue[c], e))
    BY <1>1, <1>2, <1>4, <2>1, <2>2, LacksEvent
  <2> QED
    BY <1>3, <2>1, <2>3, <2>4 DEF ViewSame
<1>10. StreamNeverFails' /\ (refreshes' = 0 => \A c \in Clients : refresh'[c] = NoView)
  BY DEF ViewInv, ViewFollows, ViewSame, StreamNeverFails
<1> QED
  BY <1>6, <1>7, <1>8, <1>9, <1>10 DEF ViewInv, QueueInOrder, FetchedIsFold, ViewFollows

(* A snapshot is committed, and no watcher is told.                         *)
LEMMA SaveSnapshotView ==
  ASSUME SingleProcess, IndInv, StreamTypes, ViewTypes, ViewInv, ViewSame,
         NEW p \in Procs, SaveSnapshot(p)
  PROVE  ViewTypes' /\ ViewInv'
<1> DEFINE e == SnapshotEvent(NextSequence(log), due[p], Cloned(projector[p]))
<1>1. LogOK(log) /\ Len(log) \in Nat /\ projector[p] \in States /\ due[p] \in Int
  BY IndInvParts, SequencesArePositions DEF LogInv, MemoryTypes
<1>2. e \in LogEvents /\ e.seq = Len(log) /\ IsSnapshot(e)
  <2>1. Cloned(projector[p]) \in States
    BY <1>1 DEF Cloned, States
  <2> QED
    BY <1>1, <2>1 DEF SnapshotEvent, NextSequence, LogEvents, IsSnapshot
<1>3. log' = Append(log, e) /\ watching' = watching /\ queue' = queue
  BY DEF SaveSnapshot, streams
<1> HIDE DEF e
<1>4. EventSeqs(log') = EventSeqs(log)
  <2>1. EventSeqs(Append(log, e)) = EventSeqs(log) \cup (IF IsSnapshot(e) THEN {} ELSE {e.seq})
    BY <1>1, <1>2, AppendToLog
  <2> QED
    BY <1>2, <1>3, <2>1
<1>5. ViewTypes' /\ StreamNeverFails'
  BY DEF ViewTypes, ViewInv, ViewSame, StreamNeverFails
<1>6. QueueInOrder'
  BY <1>3, <1>4 DEF ViewInv, QueueInOrder
<1>7. ASSUME NEW c \in Clients, fetched'[c] # NoView PROVE FoldUpTo(fetched'[c], log')
  BY <1>1, <1>2, <1>3, <1>7, FoldStays DEF ViewInv, FetchedIsFold, ViewSame
<1>8. ASSUME NEW c \in Clients, refreshes' = 0
      PROVE  /\ refresh'[c] = NoView
             /\ view'[c] # NoView =>
                  watching'[c] # Nobody /\ LacksOnlyQueued(view'[c], log', queue'[c])
  BY <1>1, <1>2, <1>3, <1>8, LacksQuietly DEF ViewInv, ViewFollows, ViewSame
<1> QED
  BY <1>5, <1>6, <1>7, <1>8 DEF ViewInv, FetchedIsFold, ViewFollows

(* An ephemeral event is pushed to every watcher.                           *)
LEMMA PublishLiveView ==
  ASSUME IndInv, StreamTypes, ViewTypes, ViewInv, ViewSame, NEW p \in Procs, PublishLive(p)
  PROVE  ViewTypes' /\ ViewInv'
<1> DEFINE e == Event(lastDurable[p], "live")
<1>1. e \in StreamEvents /\ e.kind = "live"
  BY IndInvParts DEF MemoryTypes, PublishLive, Event, StreamEvents
<1>2. /\ log' = log /\ watching' = watching
      /\ queue' = [c \in Clients |-> IF watching[c] = p THEN Append(queue[c], e) ELSE queue[c]]
  BY DEF PublishLive, Push
<1> HIDE DEF e
<1>3. ViewTypes' /\ StreamNeverFails' /\ FetchedIsFold'
  BY <1>2 DEF ViewTypes, ViewInv, ViewSame, StreamNeverFails, FetchedIsFold
<1>4. ASSUME NEW c \in Clients PROVE InOrder(queue'[c], EventSeqs(log'))
  <2>1. queue[c] \in Seq(StreamEvents) /\ InOrder(queue[c], EventSeqs(log))
    BY DEF StreamTypes, ViewInv, QueueInOrder
  <2>2. InOrder(Append(queue[c], e), EventSeqs(log) \cup (IF e.kind # "live" THEN {e.seq} ELSE {}))
    BY <1>1, <2>1, QueueAppend
  <2>3. InOrder(Append(queue[c], e), EventSeqs(log))
    BY <1>1, <2>2
  <2> QED
    BY <1>2, <2>1, <2>3
<1>5. ASSUME NEW c \in Clients, refreshes' = 0
      PROVE  /\ refresh'[c] = NoView
             /\ view'[c] # NoView =>
                  watching'[c] # Nobody /\ LacksOnlyQueued(view'[c], log', queue'[c])
  <2>1. /\ refresh[c] = NoView
        /\ view[c] # NoView => watching[c] # Nobody /\ LacksOnlyQueued(view[c], log, queue[c])
    BY <1>5 DEF ViewInv, ViewFollows, ViewSame
  <2>2. queue[c] \in Seq(StreamEvents)
    BY DEF StreamTypes
  <2>3. view[c] # NoView => LacksOnlyQueued(view[c], log, Append(queue[c], e))
    BY <1>1, <2>1, <2>2, LacksLive
  <2> QED
    BY <1>2, <2>1, <2>3 DEF ViewSame
<1> QED
  BY <1>3, <1>4, <1>5 DEF ViewInv, QueueInOrder, ViewFollows

(* The UI fetches a snapshot: the whole log, folded.                        *)
LEMMA FetchSnapshotView ==
  ASSUME IndInv, ViewTypes, ViewInv, NEW p \in Procs, NEW c \in Clients, FetchSnapshot(p, c)
  PROVE  ViewTypes' /\ ViewInv'
<1> DEFINE st == SnapshotOf(p)
<1>1. Len(log) \in Nat /\ projector[p] \in States /\ EventSeqs(log) \subseteq 0..(Len(log) - 1)
  BY IndInvParts, SequencesArePositions DEF LogInv, MemoryTypes
<1>2. projector[p].applied = EventSeqs(log) /\ projector[p].last = Len(log) - 1
  BY IndInvParts DEF CachesAgree, FetchSnapshot
<1>3. st \in States /\ st.applied = projector[p].applied /\ st.last = projector[p].last
  BY <1>1 DEF SnapshotOf, Cloned, States
<1>4. FoldUpTo(st, log)
  BY <1>1, <1>2, <1>3 DEF FoldUpTo
<1>5. /\ log' = log /\ queue' = queue /\ watching' = watching
      /\ fetched' = [fetched EXCEPT ![c] = st]
      /\ view' = view /\ refresh' = refresh /\ failed' = failed /\ refreshes' = refreshes
  BY DEF FetchSnapshot, vars, streams
<1> HIDE DEF st
<1>6. ViewTypes'
  BY <1>3, <1>5 DEF ViewTypes
<1>7. FetchedIsFold'
  BY <1>4, <1>5 DEF ViewInv, FetchedIsFold, ViewTypes
<1>8. StreamNeverFails' /\ QueueInOrder' /\ (refreshes' = 0 => ViewFollows')
  BY <1>5 DEF ViewInv, StreamNeverFails, QueueInOrder, ViewFollows
<1> QED
  BY <1>6, <1>7, <1>8 DEF ViewInv

(* The UI opens its watch at the snapshot's cursor.                         *)
LEMMA OpenViewView ==
  ASSUME IndInv, StreamTypes, ViewTypes, ViewInv,
         NEW p \in Procs, NEW c \in Clients, OpenView(p, c)
  PROVE  ViewTypes' /\ ViewInv'
<1> DEFINE st == fetched[c]
           r == Replay(log, st.last)
<1>1. LogOK(log)
  BY IndInvParts DEF LogInv
<1>2. st \in States \cup {NoView} /\ FoldUpTo(st, log) /\ st \in States
  BY DEF OpenView, ViewTypes, ViewInv, FetchedIsFold
<1>3. /\ log' = log /\ queue' = [queue EXCEPT ![c] = r] /\ watching' = [watching EXCEPT ![c] = p]
      /\ view' = [view EXCEPT ![c] = st] /\ fetched' = [fetched EXCEPT ![c] = NoView]
      /\ failed' = [failed EXCEPT ![c] = FALSE]
      /\ refresh' = refresh /\ refreshes' = refreshes
  BY DEF OpenView, Watch
<1>4. InOrder(r, EventSeqs(log)) /\ LacksOnlyQueued(st, log, r)
  <2>1. st.last \in Int
    BY <1>2 DEF States
  <2> QED
    BY <1>1, <1>2, <2>1, ReplayInOrder, LacksReplay
<1>5. p # Nobody
  BY ServiceAssumption
<1> HIDE DEF st, r
<1>6. ViewTypes'
  BY <1>2, <1>3 DEF ViewTypes
<1>7. StreamNeverFails' /\ FetchedIsFold'
  BY <1>3 DEF ViewInv, StreamNeverFails, FetchedIsFold, ViewTypes
<1>8. QueueInOrder'
  BY <1>3, <1>4 DEF ViewInv, QueueInOrder, StreamTypes
<1>9. ASSUME NEW d \in Clients, refreshes' = 0
      PROVE  /\ refresh'[d] = NoView
             /\ view'[d] # NoView =>
                  watching'[d] # Nobody /\ LacksOnlyQueued(view'[d], log', queue'[d])
  <2>1. /\ refresh[d] = NoView
        /\ view[d] # NoView => watching[d] # Nobody /\ LacksOnlyQueued(view[d], log, queue[d])
    BY <1>3, <1>9 DEF ViewInv, ViewFollows
  <2>2. CASE d = c
    BY <1>3, <1>4, <1>5, <2>1, <2>2 DEF StreamTypes, ViewTypes
  <2>3. CASE d # c
    BY <1>3, <2>1, <2>3 DEF StreamTypes, ViewTypes
  <2> QED
    BY <2>2, <2>3
<1> QED
  BY <1>6, <1>7, <1>8, <1>9 DEF ViewInv, ViewFollows

(* The UI receives an event, which its projector never refuses.             *)
LEMMA ReceiveEventView ==
  ASSUME IndInv, StreamTypes, ViewTypes, ViewInv, NEW c \in Clients, ReceiveEvent(c)
  PROVE  ViewTypes' /\ ViewInv'
<1> DEFINE e == Head(queue[c])
           Known == AlreadySeen(view[c], e) \/ e.kind = "live"
<1>1. LogOK(log)
  BY IndInvParts DEF LogInv
<1>2. /\ queue[c] \in Seq(StreamEvents) /\ queue[c] # <<>> /\ InOrder(queue[c], EventSeqs(log))
      /\ view[c] # NoView /\ view[c] \in States
  BY DEF ReceiveEvent, Deliver, StreamTypes, ViewTypes, ViewInv, QueueInOrder
<1>3. e \in StreamEvents /\ InOrder(Tail(queue[c]), EventSeqs(log))
  BY <1>2, QueueTail
<1>4. Known \/ ~OutOfOrder(view[c], e.seq)
  BY <1>2, <1>3 DEF AlreadySeen, OutOfOrder, StreamEvents, States
<1>5. /\ log' = log /\ watching' = watching /\ queue' = [queue EXCEPT ![c] = Tail(queue[c])]
      /\ fetched' = fetched /\ refresh' = refresh /\ refreshes' = refreshes
  BY DEF ReceiveEvent, Deliver
<1>6. /\ failed' = failed
      /\ view' = IF Known THEN view ELSE [view EXCEPT ![c] = Applied(view[c], e)]
  BY <1>4 DEF ReceiveEvent
<1>7. Applied(view[c], e) \in States
  BY <1>2, <1>3 DEF Applied, States, StreamEvents
<1>8. IF Known THEN LacksOnlyQueued(view[c], log, queue[c]) => LacksOnlyQueued(view[c], log, Tail(queue[c]))
      ELSE LacksOnlyQueued(view[c], log, queue[c]) =>
             LacksOnlyQueued(Applied(view[c], e), log, Tail(queue[c]))
  BY <1>1, <1>2, LacksReceived
<1> HIDE DEF e, Known
<1>9. ViewTypes'
  BY <1>5, <1>6, <1>7 DEF ViewTypes
<1>10. StreamNeverFails' /\ FetchedIsFold'
  BY <1>5, <1>6 DEF ViewInv, StreamNeverFails, FetchedIsFold
<1>11. QueueInOrder'
  BY <1>3, <1>5 DEF ViewInv, QueueInOrder, StreamTypes
<1>12. ASSUME NEW d \in Clients, refreshes' = 0
      PROVE  /\ refresh'[d] = NoView
             /\ view'[d] # NoView =>
                  watching'[d] # Nobody /\ LacksOnlyQueued(view'[d], log', queue'[d])
  <2>1. /\ refresh[d] = NoView
        /\ view[d] # NoView => watching[d] # Nobody /\ LacksOnlyQueued(view[d], log, queue[d])
    BY <1>5, <1>12 DEF ViewInv, ViewFollows
  <2>2. CASE d = c
    <3>1. /\ watching[c] # Nobody /\ LacksOnlyQueued(view[c], log, queue[c])
          /\ queue'[c] = Tail(queue[c])
      BY <1>2, <1>5, <2>1, <2>2 DEF StreamTypes
    <3>2. view'[c] = IF Known THEN view[c] ELSE Applied(view[c], e)
      BY <1>6 DEF ViewTypes
    <3>3. LacksOnlyQueued(view'[c], log, Tail(queue[c]))
      <4>1. CASE Known
        BY <1>8, <3>1, <3>2, <4>1
      <4>2. CASE ~Known
        BY <1>8, <3>1, <3>2, <4>2
      <4> QED
        BY <4>1, <4>2
    <3> QED
      BY <1>5, <2>1, <2>2, <3>1, <3>3
  <2>3. CASE d # c
    BY <1>5, <1>6, <2>1, <2>3 DEF StreamTypes, ViewTypes
  <2> QED
    BY <2>2, <2>3
<1> QED
  BY <1>9, <1>10, <1>11, <1>12 DEF ViewInv, ViewFollows

(* A refresh is requested, or its answer arrives: from then on the view may *)
(* jump, but its projector still refuses nothing.                           *)
LEMMA RefreshView ==
  ASSUME IndInv, ViewTypes, ViewInv, NEW c \in Clients,
         ApplyRefresh(c) \/ \E p \in Procs : RequestRefresh(p, c)
  PROVE  ViewTypes' /\ ViewInv'
<1>1. /\ log' = log /\ queue' = queue /\ fetched' = fetched /\ failed' = failed
  BY DEF ApplyRefresh, RequestRefresh, vars, streams
<1>2. StreamNeverFails' /\ QueueInOrder' /\ FetchedIsFold'
  BY <1>1 DEF ViewInv, StreamNeverFails, QueueInOrder, FetchedIsFold
<1>3. refreshes' # 0
  <2>1. CASE ApplyRefresh(c)
    BY <2>1 DEF ApplyRefresh, ViewInv, ViewFollows
  <2>2. ASSUME NEW p \in Procs, RequestRefresh(p, c) PROVE refreshes' # 0
    BY <2>2, TuiAssumption DEF RequestRefresh, ViewTypes
  <2> QED
    BY <2>1, <2>2
<1>4. ViewTypes'
  <2>1. CASE ApplyRefresh(c)
    <3>1. /\ refresh' = [refresh EXCEPT ![c] = NoView] /\ refreshes' = refreshes
          /\ view' = IF view[c] = NoView THEN view ELSE [view EXCEPT ![c] = refresh[c]]
      BY <2>1 DEF ApplyRefresh
    <3> QED
      BY <1>1, <3>1 DEF ViewTypes
  <2>2. ASSUME NEW p \in Procs, RequestRefresh(p, c) PROVE ViewTypes'
    <3>1. SnapshotOf(p) \in States
      BY IndInvParts DEF SnapshotOf, Cloned, States, MemoryTypes
    <3>2. /\ refresh' = [refresh EXCEPT ![c] = SnapshotOf(p)] /\ view' = view
          /\ refreshes < MaxRefreshes /\ refreshes' = refreshes + 1
      BY <2>2 DEF RequestRefresh
    <3>3. refreshes' \in 0..MaxRefreshes
      BY <3>2, TuiAssumption DEF ViewTypes
    <3> QED
      BY <1>1, <3>1, <3>2, <3>3 DEF ViewTypes
  <2> QED
    BY <2>1, <2>2
<1> QED
  BY <1>2, <1>3, <1>4 DEF ViewInv

(* A UI leaves the session, or dies with its process.                       *)
LEMMA EndOfView ==
  ASSUME StreamTypes, ViewTypes, ViewInv, NEW Gone \in SUBSET Clients,
         log' = log, refreshes' = refreshes,
         \A c \in Clients : queue'[c] = queue[c] \/ queue'[c] = <<>>,
         \A c \in Clients \ Gone : watching'[c] = watching[c] /\ queue'[c] = queue[c],
         view' = [c \in Clients |-> IF c \in Gone THEN NoView ELSE view[c]],
         fetched' = fetched \/ fetched' = [c \in Clients |-> NoView],
         refresh' = refresh \/ refresh' = [c \in Clients |-> NoView],
         failed' = failed \/ failed' = [c \in Clients |-> FALSE]
  PROVE  ViewTypes' /\ ViewInv'
<1>1. ViewTypes'
  BY DEF ViewTypes
<1>2. StreamNeverFails' /\ FetchedIsFold'
  BY DEF ViewInv, StreamNeverFails, FetchedIsFold
<1>3. ASSUME NEW c \in Clients PROVE InOrder(queue'[c], EventSeqs(log'))
  <2>1. InOrder(queue[c], EventSeqs(log))
    BY DEF ViewInv, QueueInOrder
  <2>2. DOMAIN <<>> = {}
    BY EmptySeq
  <2>3. InOrder(<<>>, EventSeqs(log))
    BY <2>2 DEF InOrder, DurableSeqs
  <2> QED
    BY <2>1, <2>3
<1>4. ASSUME NEW c \in Clients, refreshes' = 0
      PROVE  /\ refresh'[c] = NoView
             /\ view'[c] # NoView =>
                  watching'[c] # Nobody /\ LacksOnlyQueued(view'[c], log', queue'[c])
  <2>1. /\ refresh[c] = NoView
        /\ view[c] # NoView => watching[c] # Nobody /\ LacksOnlyQueued(view[c], log, queue[c])
    BY <1>4 DEF ViewInv, ViewFollows
  <2> QED
    BY <2>1
<1> QED
  BY <1>1, <1>2, <1>3, <1>4 DEF ViewInv, QueueInOrder, ViewFollows

(* Every step of a UI and of its services keeps the view.                   *)
LEMMA NextView ==
  ASSUME SingleProcess, IndInv, StreamTypes, ViewTypes, ViewInv, [TuiNext]_allVars
  PROVE  ViewTypes' /\ ViewInv'
<1>1. CASE UNCHANGED allVars
  BY <1>1, QuietView DEF allVars, vars, streams, tuiVars, ViewSame
<1>2. ASSUME NEW p \in Procs, ServiceStep(p) PROVE ViewTypes' /\ ViewInv'
  <2>1. ViewSame
    BY <1>2 DEF ServiceStep, tuiVars, ViewSame
  <2>2. CASE Open(p) \/ SnapshotOnRead(p) \/ SnapshotAppendFails(p)
    <3>1. UNCHANGED <<log, queue, watching>>
      BY <2>2 DEF Open, SnapshotOnRead, SnapshotAppendFails, streams
    <3> QED
      BY <2>1, <3>1, QuietView
  <2>3. ASSUME NEW kind \in DurableKinds, AppendEvent(p, kind) PROVE ViewTypes' /\ ViewInv'
    BY <2>1, <2>3, AppendEventView
  <2>4. CASE SaveSnapshot(p)
    BY <2>1, <2>4, SaveSnapshotView
  <2>5. CASE PublishLive(p)
    BY <2>1, <2>5, PublishLiveView
  <2> QED
    BY <1>2, <2>2, <2>3, <2>4, <2>5 DEF ServiceStep
<1>3. ASSUME NEW p \in Procs, CrashAll(p) PROVE ViewTypes' /\ ViewInv'
  <2> DEFINE Gone == Clients
  <2>1. /\ log' = log /\ refreshes' = refreshes
        /\ queue' = [c \in Clients |-> IF watching[c] = p THEN <<>> ELSE queue[c]]
        /\ view' = [c \in Clients |-> NoView] /\ fetched' = [c \in Clients |-> NoView]
        /\ refresh' = [c \in Clients |-> NoView] /\ failed' = [c \in Clients |-> FALSE]
    BY <1>3 DEF CrashAll, Crash
  <2>2. /\ \A c \in Clients : queue'[c] = queue[c] \/ queue'[c] = <<>>
        /\ \A c \in Clients \ Gone : watching'[c] = watching[c] /\ queue'[c] = queue[c]
        /\ view' = [c \in Clients |-> IF c \in Gone THEN NoView ELSE view[c]]
    BY <2>1
  <2>3. Gone \in SUBSET Clients
    OBVIOUS
  <2> HIDE DEF Gone
  <2> QED
    BY <2>1, <2>2, <2>3, EndOfView
<1>4. ASSUME NEW c \in Clients, TuiStep(c) PROVE ViewTypes' /\ ViewInv'
  <2>1. ASSUME NEW p \in Procs, FetchSnapshot(p, c) PROVE ViewTypes' /\ ViewInv'
    BY <2>1, FetchSnapshotView
  <2>2. ASSUME NEW p \in Procs, OpenView(p, c) PROVE ViewTypes' /\ ViewInv'
    BY <2>2, OpenViewView
  <2>3. ASSUME NEW p \in Procs, RequestRefresh(p, c) PROVE ViewTypes' /\ ViewInv'
    BY <2>3, RefreshView
  <2>4. CASE ReceiveEvent(c)
    BY <2>4, ReceiveEventView
  <2>5. CASE ApplyRefresh(c)
    BY <2>5, RefreshView
  <2>6. CASE LeaveView(c)
    <3> DEFINE Gone == {c}
    <3>1. /\ log' = log /\ refreshes' = refreshes
          /\ watching' = [watching EXCEPT ![c] = Nobody] /\ queue' = [queue EXCEPT ![c] = <<>>]
          /\ view' = [view EXCEPT ![c] = NoView]
          /\ fetched' = fetched /\ refresh' = refresh /\ failed' = failed
      BY <2>6 DEF LeaveView, Unwatch
    <3>2. /\ \A d \in Clients : queue'[d] = queue[d] \/ queue'[d] = <<>>
          /\ \A d \in Clients \ Gone : watching'[d] = watching[d] /\ queue'[d] = queue[d]
          /\ view' = [d \in Clients |-> IF d \in Gone THEN NoView ELSE view[d]]
      BY <3>1 DEF StreamTypes, ViewTypes
    <3>3. Gone \in SUBSET Clients
      OBVIOUS
    <3> HIDE DEF Gone
    <3> QED
      BY <3>1, <3>2, <3>3, EndOfView
  <2> QED
    BY <1>4, <2>1, <2>2, <2>3, <2>4, <2>5, <2>6 DEF TuiStep
<1> QED
  BY <1>1, <1>2, <1>3, <1>4 DEF TuiNext

-----------------------------------------------------------------------------
(* What the services promise they still promise under a UI.                 *)
TuiIndInv == IndInv /\ StreamTypes /\ StreamInv /\ ViewTypes /\ ViewInv

(* The view and everything it stands on is inductive.                       *)
LEMMA ViewInductive == SingleProcess => (TuiSpec => []TuiIndInv)
<1> SUFFICES ASSUME SingleProcess PROVE TuiSpec => []TuiIndInv
  OBVIOUS
<1>1. TuiInit => TuiIndInv
  <2>1. TuiInit => Init
    BY DEF TuiInit
  <2> QED
    BY <2>1, InitIndInv, InitStreams, InitView DEF TuiIndInv
<1>2. TuiIndInv /\ [TuiNext]_allVars => TuiIndInv'
  <2> SUFFICES ASSUME IndInv, StreamTypes, StreamInv, ViewTypes, ViewInv, [TuiNext]_allVars
               PROVE  IndInv' /\ StreamTypes' /\ StreamInv' /\ ViewTypes' /\ ViewInv'
    BY DEF TuiIndInv
  <2>1. [Next]_vars
    BY TuiStepsAreSteps DEF ViewInv
  <2> QED
    BY <2>1, NextKeeps, NextStreams, NextView
<1> QED
  BY <1>1, <1>2, PTL DEF TuiSpec

(* Type correctness of the UI and its services.                             *)
THEOREM TuiTypeCorrect == SingleProcess => (TuiSpec => []TuiTypeOK)
<1> SUFFICES ASSUME SingleProcess PROVE TuiSpec => []TuiTypeOK
  OBVIOUS
<1>1. TuiIndInv => TuiTypeOK
  BY DEF TuiIndInv, IndInv, StreamTypes, ViewTypes, TypeOK, TuiTypeOK
<1> QED
  BY <1>1, ViewInductive, PTL

(* The projector of a UI never refuses an event it watches, refreshes or    *)
(* not (applyWatchEventBatch, handleSessionSnapshotRefreshedMsg).           *)
THEOREM TuiStreamNeverFails == SingleProcess => (TuiSpec => []StreamNeverFails)
<1> SUFFICES ASSUME SingleProcess PROVE TuiSpec => []StreamNeverFails
  OBVIOUS
<1>1. TuiIndInv => StreamNeverFails
  BY DEF TuiIndInv, ViewInv
<1> QED
  BY <1>1, ViewInductive, PTL

(* Between the Snapshot and the Watch of openSessionCmd, and on the stream  *)
(* that follows, no event is lost: as long as no refresh was requested, the *)
(* view shows the log or what it lacks is queued for it.                    *)
THEOREM TuiOpeningLeavesNoGap == SingleProcess => (TuiSpec => []OpeningLeavesNoGap)
<1> SUFFICES ASSUME SingleProcess PROVE TuiSpec => []OpeningLeavesNoGap
  OBVIOUS
<1>1. TuiIndInv => OpeningLeavesNoGap
  <2> SUFFICES ASSUME TuiIndInv, refreshes = 0 PROVE QuiescentViewIsCurrent /\ MissingIsQueued
    BY DEF OpeningLeavesNoGap
  <2>1. ASSUME NEW c \in Clients, view[c] # NoView
        PROVE  LacksOnlyQueued(view[c], log, queue[c]) /\ DurableSeqs(queue[c]) \subseteq SeqsOf(queue[c])
    BY <2>1 DEF TuiIndInv, ViewInv, ViewFollows, DurableSeqs, SeqsOf
  <2>2. MissingIsQueued
    BY <2>1 DEF MissingIsQueued, LacksOnlyQueued
  <2>3. ASSUME NEW c \in Clients, view[c] # NoView, queue[c] = <<>>
        PROVE  view[c].applied = EventSeqs(log)
    <3>1. DurableSeqs(queue[c]) = {}
      BY <2>3, EmptySeq DEF DurableSeqs
    <3> QED
      BY <2>1, <2>3, <3>1 DEF LacksOnlyQueued
  <2>4. QuiescentViewIsCurrent
    BY <2>3 DEF QuiescentViewIsCurrent
  <2> QED
    BY <2>2, <2>4
<1> QED
  BY <1>1, ViewInductive, PTL
=============================================================================
