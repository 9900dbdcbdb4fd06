----------------------- MODULE SessionHistoryProofs -----------------------
(* Theorems about SessionHistory, for any bounds on turns, entries, events, notes *)
(* and faults, and any frontier of a semantic compaction.                         *)
(*                                                                                *)
(* HistInv says that a log is well formed: turns are numbered as they began, each *)
(* ends once, and after its end there are only notes on it. HistKept says what    *)
(* the newest checkpoint, the template of the turn that runs and each recorded    *)
(* summary know of the log. The fold of BuildHistory carries it event by event:   *)
(* HistFolded is its loop invariant.                                              *)
EXTENDS SessionHistory, EventSelectionProofs, FiniteSetTheorems

------------------------------------------------------------------------------
HistKinds == {"entry", "handoff", "note", "done", "rolled", "canceled", "error",
              "pruned", "started", "continuation", "checkpoint"}
HistPcs == {"idle", "load", "loadReview", "loop", "review", "blocked", "save",
            "saveFresh", "shell", "compact"}

(* The turns of a log are numbered as they began; what a turn does itself it does *)
(* after all that came before, and it ends once: only notes follow.               *)
HistEnded(log, t) == \E i \in 1 .. Len(log) : log[i].turn = t /\ log[i].kind \in EndKinds
HistOwn(e) == e.kind \notin {"note", "checkpoint"}
HistLogTyped(log) ==
    /\ \E S : log \in Seq(S)
    /\ \A i \in 1 .. Len(log) : log[i].kind \in HistKinds /\ (log[i].turn = 0 <=> log[i].kind = "checkpoint")
HistNumbered(log, k) == {log[i].turn : i \in 1 .. Len(log)} \ {0} = 1 .. k
HistOrdered(log) ==
    \A i, j \in 1 .. Len(log) : i < j /\ HistOwn(log[j]) => log[i].turn <= log[j].turn
HistEndsOnce(log) ==
    \A i, j \in 1 .. Len(log) :
        i < j /\ log[i].kind \in EndKinds /\ log[j].turn = log[i].turn => log[j].kind = "note"
HistWell(log, k) == HistLogTyped(log) /\ HistNumbered(log, k) /\ HistOrdered(log) /\ HistEndsOnce(log)

HistIsRun(run) ==
    run = [pc |-> run.pc, turn |-> run.turn, after |-> run.after, template |-> run.template,
           cont |-> run.cont, failed |-> run.failed]
HistRuns(k) ==
    /\ HistIsRun(histRun) /\ histRun.pc \in HistPcs
    /\ histRun.turn = IF HistAt("idle") THEN 0 ELSE k
    /\ ~HistAt("idle") => k # 0
    /\ histRun.pc \notin {"idle", "save", "saveFresh"} => ~HistEnded(histLog, k)
    /\ histRun.pc \in {"save", "saveFresh"} => HistEnded(histLog, k)
HistInv ==
    /\ histFaults \in 0 .. HistMaxFaults
    /\ \E k \in 0 .. HistMaxTurns : HistWell(histLog, k) /\ HistRuns(k)

------------------------------------------------------------------------------
(* What a log says of a turn: where it ends, what it said until then, and the     *)
(* notes on it that came later.                                                   *)
HistEndsAt(log, t, n) == n \in 1 .. Len(log) /\ log[n].turn = t /\ log[n].kind \in EndKinds
HistSpeaks(log, t) ==
    {n \in 1 .. Len(log) : log[n].turn = t /\ log[n].kind \in {"entry", "note"}
                              /\ \A j \in 1 .. n : ~HistEndsAt(log, t, j)}
HistLate(log, t) ==
    {n \in 1 .. Len(log) : log[n].turn = t /\ log[n].kind = "note"
                              /\ \E j \in 1 .. n : HistEndsAt(log, t, j)}
HistPlain(log) == {n \in 1 .. Len(log) : log[n].kind # "handoff"}
HistPlaces(m) == [i \in 1 .. m |-> i]
HistSaid(log, t, m) == Select(HistPlaces(m), HistSpeaks(log, t))

(* The ended turns that are not forgotten, of which those that said something     *)
(* are told.                                                                      *)
HistDone(log, b, t) == b <= t /\ HistEnded(log, t)
HistTold(log, b, t) == HistDone(log, b, t) /\ HistSpeaks(log, t) # {}

HistInOrder(order, t) == \E i \in 1 .. Len(order) : order[i] = t

(* A summary of the told turns up to its frontier, which is one of the first k    *)
(* turns; it knows the late notes among the places in N.                          *)
HistSumsUp(log, b, cont, k, N) ==
    \/ cont = NoSummary
    \/ /\ HistDone(log, b, cont.frontier) /\ cont.frontier \in 1 .. k
       /\ \A n \in cont.covers :
             /\ n \in 1 .. Len(log) /\ log[n].turn \in 1 .. k
             /\ HistDone(log, b, log[n].turn) => log[n].turn <= cont.frontier
       /\ \A t \in 1 .. cont.frontier : HistTold(log, b, t) =>
             HistSpeaks(log, t) \subseteq cont.covers /\ HistLate(log, t) \cap N \subseteq cont.covers

(* A history of the first k turns that knows the late notes up to place a.        *)
HistOrders(log, b, h, k) ==
    /\ \A i \in 1 .. Len(h.order) : h.order[i] \in 1 .. k
    /\ \A i, j \in 1 .. Len(h.order) : h.order[i] = h.order[j] => i = j
    /\ \A i, j \in 1 .. Len(h.order) :
          i < j /\ HistDone(log, b, h.order[i]) /\ HistDone(log, b, h.order[j]) => h.order[i] < h.order[j]
    /\ \A t \in 1 .. k : HistTold(log, b, t) => HistInOrder(h.order, t)
HistSummed(log, b, h, k, a) ==
    /\ HistSumsUp(log, b, h.cont, k, 1 .. a)
    /\ h.cont # NoSummary => HistInOrder(h.order, h.cont.frontier)
HistRawTurn(log, b, h, t, a) ==
    /\ HistDone(log, b, t) /\ t \in DOMAIN h.turns
    /\ h.turns[t].terminal /\ HistEndsAt(log, t, h.turns[t].at)
    /\ HistTold(log, b, t) =>
          /\ Select(h.turns[t].entries, HistPlain(log)) = HistSaid(log, t, Len(log))
          /\ \A n \in HistLate(log, t) : n <= a => n \in ToSet(h.turns[t].notes)
HistTurnsOf(log, b, h, k) ==
    \A t \in DOMAIN h.turns :
       /\ t \in 1 .. k
       /\ \A n \in ToSet(h.turns[t].entries) \cup ToSet(h.turns[t].notes) :
             n \in 1 .. Len(log) /\ log[n].turn = t
       /\ HistTold(log, b, t) => \A e \in 1 .. Len(log) : HistEndsAt(log, t, e) => h.turns[t].at <= e
HistKnows(log, b, h, k, a) ==
    /\ HistOrders(log, b, h, k)
    /\ HistSummed(log, b, h, k, a)
    /\ \A i \in PrefixCount(h.order, h.cont) + 1 .. Len(h.order) : HistRawTurn(log, b, h, h.order[i], a)
    /\ HistTurnsOf(log, b, h, k)
    /\ h.through <= Len(log)

(* The first k turns did what they did up to place a, the others after it, but    *)
(* for the handoff of the first of those.                                         *)
HistParts(log, k, a) ==
    \A n \in 1 .. Len(log) : HistOwn(log[n]) =>
       IF log[n].turn <= k THEN n <= a ELSE n > a \/ (n = a /\ log[n].kind = "handoff")

(* A turn has said something when it is noted.                                    *)
HistNoted(log) ==
    \A n \in 1 .. Len(log) : log[n].kind = "note" =>
       \E j \in 1 .. n : j # n /\ log[j].kind = "entry" /\ log[j].turn = log[n].turn

HistBefore(log, t) == {n \in 1 .. Len(log) : \A j \in 1 .. Len(log) : log[j].turn = t => n < j}

(* The summaries recorded after place a sum up what came before the turns that    *)
(* recorded them.                                                                 *)
HistSummaries(log, b, a) ==
    \A n \in 1 .. Len(log) : n > a /\ log[n].kind = "continuation" =>
       HistSumsUp(log, b, log[n].cont, log[n].turn - 1, HistBefore(log, log[n].turn)) /\ log[n].cont # NoSummary
(* The newest of them reaches as far as what it replaces.                         *)
HistNewest(log, n) ==
    log[n].kind = "continuation" /\ \A j \in n + 1 .. Len(log) : log[j].kind # "continuation"
HistReaches(h, k, cont) ==
    h.cont.frontier <= cont.frontier /\ (cont.frontier > k \/ HistInOrder(h.order, cont.frontier))
HistGrows(log, h, k, a) ==
    \A n \in 1 .. Len(log) : n > a /\ HistNewest(log, n) => HistReaches(h, k, log[n].cont)

HistCanReplay(log, b, h, k, a) ==
    /\ HistKnows(log, b, h, k, a) /\ HistParts(log, k, a)
    /\ HistSummaries(log, b, a) /\ HistGrows(log, h, k, a)

------------------------------------------------------------------------------
(* The invariant.                                                                 *)
(* Turns are forgotten up to a review that was rolled over.                       *)
HistForgot(log, b) == b = 1 \/ \E n \in 1 .. Len(log) : log[n].turn = b /\ log[n].kind = "rolled"

HistRecords(log, t, n) == n \in 1 .. Len(log) /\ log[n].turn = t /\ log[n].kind = "continuation"
HistSilent(log, t) == \A n \in 1 .. Len(log) : ~HistRecords(log, t, n)

(* The turn t began right after place a, or there, with its handoff.              *)
HistBegan(log, t, a) ==
    a \in 0 .. Len(log) /\ HistParts(log, t - 1, a) /\ \E n \in 1 .. Len(log) : n <= a + 1 /\ log[n].turn = t

(* The template h of the turn t, loaded on top of the checkpoint base of the      *)
(* first k turns.                                                                 *)
HistReady(log, h, t, a, base, b, k) ==
    /\ HistBegan(log, t, a)
    /\ HistCanReplay(log, b, h, t - 1, a)
    /\ \A i \in 1 .. Len(h.order) :
          HistDone(log, b, h.order[i]) => h.order[i] > k \/ HistInOrder(base.order, h.order[i])
    /\ base.cont.frontier <= h.cont.frontier

(* The newest summary a turn recorded.                                            *)
HistRecorded(log, t, cont) ==
    \/ HistSilent(log, t) /\ cont = NoSummary
    \/ \E n : HistRecords(log, t, n) /\ (\A m : HistRecords(log, t, m) => m <= n) /\ cont = log[n].cont

HistCall(log, run, base, b, k, last) ==
    /\ run.pc # "idle" => run.turn = last /\ k < last
    /\ run.pc \in {"load", "loadReview", "loop", "review", "save"} => HistBegan(log, last, run.after)
    /\ run.pc \in {"loadReview", "review", "compact"} => HistSilent(log, last)
    /\ run.pc = "review" => run.template = ZeroTemplate
    /\ run.pc = "loop" => HistReady(log, run.template, last, run.after, base, b, k) /\ HistRecorded(log, last, run.cont)
    /\ run.pc = "compact" => /\ \E a \in 0 .. Len(log) : HistReady(log, run.template, last, a, base, b, k)
                             /\ PrefixCount(run.template.order, run.template.cont) < Len(run.template.order)
    /\ run.pc = "save" =>
          \/ HistReady(log, run.template, last, run.after, base, b, k)
          \/ /\ run.template = ZeroTemplate /\ HistSilent(log, last)
             /\ \E n \in 1 .. Len(log) : log[n].turn = last /\ log[n].kind = "rolled"

(* The newest checkpoint is a history of the first k turns.                       *)
HistBased(log, b, k, last) ==
    /\ b \in 1 .. last + 1 /\ k \in 0 .. last /\ b <= k + 1 /\ HistForgot(log, b)
    /\ HistCanReplay(log, b, LatestCheckpoint(log), k, LatestCheckpoint(log).through)

HistPast(log, run, last) ==
    /\ HistNoted(log)
    /\ \E b, k : HistBased(log, b, k, last) /\ HistCall(log, run, LatestCheckpoint(log), b, k, last)
LEMMA HistKindsAre ==
    /\ EndKinds \subseteq HistKinds /\ "note" \notin EndKinds /\ "checkpoint" \notin EndKinds
    /\ \A e : e.kind \in EndKinds => HistOwn(e)
BY DEF EndKinds, HistKinds, HistOwn

LEMMA HistAppended ==
    ASSUME NEW log, HistLogTyped(log), NEW e
    PROVE  /\ \E S : Append(log, e) \in Seq(S)
           /\ Len(log) \in Nat /\ Len(Append(log, e)) = Len(log) + 1
           /\ Append(log, e)[Len(log) + 1] = e
           /\ \A i \in 1 .. Len(log) : Append(log, e)[i] = log[i]
           /\ \A i \in 1 .. Len(log) + 1 : i = Len(log) + 1 \/ i \in 1 .. Len(log)
<1>1. PICK S : log \in Seq(S)
  BY DEF HistLogTyped
<1> DEFINE T == S \cup {e}
<1>2. log \in Seq(T) /\ e \in T
  BY <1>1, SeqMonotonic
<1> HIDE DEF T
<1> QED
  BY <1>2, AppendProperties, LenProperties

(* One event more, of the last turn that has not ended, or the first of another,  *)
(* or a note on any turn.                                                         *)
HistAdds(log, k, e) ==
    /\ e.kind \in HistKinds
    /\ \/ e.kind = "checkpoint" /\ e.turn = 0
       \/ e.kind = "note" /\ e.turn \in 1 .. k
       \/ e.kind \notin {"checkpoint", "note"} /\ e.turn = k /\ k # 0 /\ ~HistEnded(log, k)
       \/ e.kind \notin {"checkpoint", "note"} /\ e.turn = k + 1

LEMMA HistOneMore ==
    ASSUME NEW log, NEW k \in Nat, HistWell(log, k), NEW e, HistAdds(log, k, e)
    PROVE  /\ HistWell(Append(log, e), IF e.turn = k + 1 THEN k + 1 ELSE k)
           /\ \A t : HistEnded(Append(log, e), t) <=>
                        HistEnded(log, t) \/ (e.turn = t /\ e.kind \in EndKinds)
<1> DEFINE n == Len(log)
           more == Append(log, e)
           next == IF e.turn = k + 1 THEN k + 1 ELSE k
<1>0. HistLogTyped(log)
  BY DEF HistWell
<1>1. /\ \E S : more \in Seq(S)
      /\ n \in Nat /\ Len(more) = n + 1 /\ more[n + 1] = e
      /\ \A i \in 1 .. n : more[i] = log[i]
      /\ \A i \in 1 .. n + 1 : i = n + 1 \/ i \in 1 .. n
  <2>1. /\ \E S : Append(log, e) \in Seq(S)
        /\ Len(log) \in Nat /\ Len(Append(log, e)) = Len(log) + 1
        /\ Append(log, e)[Len(log) + 1] = e
        /\ \A i \in 1 .. Len(log) : Append(log, e)[i] = log[i]
        /\ \A i \in 1 .. Len(log) + 1 : i = Len(log) + 1 \/ i \in 1 .. Len(log)
    BY <1>0, HistAppended
  <2> QED
    BY <2>1
<1>2. \A i \in 1 .. n : i \in 1 .. n + 1 /\ ~(n + 1 < i)
  BY <1>1
<1>3. n + 1 \in 1 .. n + 1
  BY <1>1
<1> HIDE DEF more, n
<1>4. \A i \in 1 .. n : log[i].turn \in 0 .. k
  <2>1. \A i \in 1 .. n : log[i].turn = 0 \/ log[i].turn \in 1 .. k
    BY DEF HistWell, HistNumbered, n
  <2> QED
    BY <2>1
<1>5. e.turn \in 0 .. k + 1 /\ (e.turn = 0 <=> e.kind = "checkpoint") /\ e.kind \in HistKinds
  BY DEF HistAdds, HistKinds
<1>6. HistLogTyped(more)
  BY <1>1, <1>5 DEF HistWell, HistLogTyped, n
<1>7. HistNumbered(more, next)
  <2>1. {more[i].turn : i \in 1 .. n + 1} = {log[i].turn : i \in 1 .. n} \cup {e.turn}
    BY <1>1, <1>2, <1>3
  <2>2. {log[i].turn : i \in 1 .. n} \ {0} = 1 .. k
    BY DEF HistWell, HistNumbered, n
  <2>3. ({log[i].turn : i \in 1 .. n} \cup {e.turn}) \ {0} = 1 .. next
    <3>1. CASE e.turn = k + 1
      <4>1. 1 .. k + 1 = (1 .. k) \cup {k + 1} /\ k + 1 # 0
        OBVIOUS
      <4> QED
        BY <2>2, <3>1, <4>1
    <3>2. CASE e.turn # k + 1
      <4>1. e.turn \in (1 .. k) \cup {0}
        BY <1>5, <3>2
      <4> QED
        BY <2>2, <3>2, <4>1
    <3> QED
      BY <3>1, <3>2
  <2> HIDE DEF next
  <2> QED
    BY <1>1, <2>1, <2>3 DEF HistNumbered
<1>8. HistOrdered(more)
  <2> SUFFICES ASSUME NEW i \in 1 .. n + 1, NEW j \in 1 .. n + 1, i < j, HistOwn(more[j])
               PROVE  more[i].turn <= more[j].turn
    BY <1>1 DEF HistOrdered
  <2>1. CASE j \in 1 .. n
    <3>1. i \in 1 .. n
      BY <1>1, <2>1
    <3> QED
      BY <1>1, <2>1, <3>1 DEF HistWell, HistOrdered, n
  <2>2. CASE j = n + 1
    <3>1. i \in 1 .. n
      BY <1>1, <2>2
    <3>2. log[i].turn \in 0 .. k /\ e.turn \in {k, k + 1}
      BY <1>1, <1>4, <2>2, <3>1 DEF HistOwn, HistAdds
    <3>3. log[i].turn <= e.turn
      BY <3>2
    <3> QED
      BY <1>1, <2>2, <3>1, <3>3
  <2> QED
    BY <1>1, <2>1, <2>2
<1>9. HistEndsOnce(more)
  <2> SUFFICES ASSUME NEW i \in 1 .. n + 1, NEW j \in 1 .. n + 1, i < j,
                      more[i].kind \in EndKinds, more[j].turn = more[i].turn
               PROVE  more[j].kind = "note"
    BY <1>1 DEF HistEndsOnce
  <2>1. i \in 1 .. n
    BY <1>1
  <2>2. CASE j \in 1 .. n
    BY <1>1, <2>1, <2>2 DEF HistWell, HistEndsOnce, n
  <2>3. CASE j = n + 1
    <3>1. log[i].kind \in EndKinds /\ e.turn = log[i].turn /\ log[i].turn \in 0 .. k
      BY <1>1, <1>4, <2>1, <2>3
    <3>2. log[i].turn # 0
      BY <2>1, <3>1, HistKindsAre DEF HistWell, HistLogTyped, n
    <3>3. HistEnded(log, log[i].turn)
      BY <2>1, <3>1 DEF HistEnded, n
    <3>4. e.turn # k + 1 /\ e.turn # 0
      BY <3>1, <3>2
    <3>5. e.kind = "note"
      BY <3>1, <3>3, <3>4 DEF HistAdds
    <3> QED
      BY <1>1, <2>3, <3>5
  <2> QED
    BY <1>1, <2>2, <2>3
<1>10. ASSUME NEW t
       PROVE  HistEnded(more, t) <=> HistEnded(log, t) \/ (e.turn = t /\ e.kind \in EndKinds)
  BY <1>1, <1>2, <1>3 DEF HistEnded, n
<1> QED
  BY <1>6, <1>7, <1>8, <1>9, <1>10 DEF HistWell, more, next

------------------------------------------------------------------------------
(* Types.                                                                         *)
HistTurnRecs == [entries : Seq(Nat), notes : Seq(Nat), terminal : BOOLEAN, at : Nat, failed : BOOLEAN]
HistConts == [frontier : Nat, count : Nat, covers : SUBSET Nat]
HistMaps == UNION {[D -> HistTurnRecs] : D \in SUBSET Nat}
Hists == [order : Seq(Nat), turns : HistMaps, cont : HistConts, through : Int]
HistEvents == [kind : HistKinds, turn : Nat, cont : HistConts, saved : Hists]

HistTurnRec(e, ns, te, a, f) == [entries |-> e, notes |-> ns, terminal |-> te, at |-> a, failed |-> f]
HistOf(o, m, c, x) == [order |-> o, turns |-> m, cont |-> c, through |-> x]
HistSet(m, t, r) == [u \in DOMAIN m \cup {t} |-> IF u = t THEN r ELSE m[u]]

LEMMA HistMapsAre ==
    ASSUME NEW m
    PROVE  m \in HistMaps <=> /\ m = [u \in DOMAIN m |-> m[u]] /\ DOMAIN m \subseteq Nat
                              /\ \A u \in DOMAIN m : m[u] \in HistTurnRecs
<1>1. ASSUME m \in HistMaps
      PROVE  /\ m = [u \in DOMAIN m |-> m[u]] /\ DOMAIN m \subseteq Nat
             /\ \A u \in DOMAIN m : m[u] \in HistTurnRecs
  <2>1. PICK D \in SUBSET Nat : m \in [D -> HistTurnRecs]
    BY <1>1 DEF HistMaps
  <2> QED
    BY <2>1
<1>2. ASSUME m = [u \in DOMAIN m |-> m[u]], DOMAIN m \subseteq Nat, \A u \in DOMAIN m : m[u] \in HistTurnRecs
      PROVE  m \in HistMaps
  <2>1. m \in [DOMAIN m -> HistTurnRecs] /\ DOMAIN m \in SUBSET Nat
    BY <1>2
  <2> QED
    BY <2>1 DEF HistMaps
<1> QED
  BY <1>1, <1>2

LEMMA HistSets ==
    ASSUME NEW m \in HistMaps, NEW t \in Nat, NEW r \in HistTurnRecs
    PROVE  /\ HistSet(m, t, r) \in HistMaps /\ DOMAIN HistSet(m, t, r) = DOMAIN m \cup {t}
           /\ HistSet(m, t, r)[t] = r /\ \A u \in DOMAIN m \ {t} : HistSet(m, t, r)[u] = m[u]
<1> DEFINE s == HistSet(m, t, r)
<1>1. DOMAIN s = DOMAIN m \cup {t} /\ s = [u \in DOMAIN s |-> s[u]]
  BY DEF HistSet
<1>2. s[t] = r /\ \A u \in DOMAIN m \ {t} : s[u] = m[u]
  BY DEF HistSet
<1>3. DOMAIN m \subseteq Nat /\ \A u \in DOMAIN m : m[u] \in HistTurnRecs
  BY HistMapsAre
<1>4. \A u \in DOMAIN s : s[u] \in HistTurnRecs
  BY <1>1, <1>2, <1>3
<1>5. DOMAIN s \subseteq Nat
  BY <1>1, <1>3
<1> HIDE DEF s
<1>6. s \in HistMaps
  BY <1>1, <1>4, <1>5, HistMapsAre
<1> QED
  BY <1>1, <1>2, <1>6 DEF s

(* A record changed in one field.                                                 *)
LEMMA HistTurnRecIs ==
    ASSUME NEW e, NEW ns, NEW te, NEW a, NEW f, NEW x
    PROVE  LET r == HistTurnRec(e, ns, te, a, f) IN
           /\ r.entries = e /\ r.notes = ns /\ r.terminal = te /\ r.at = a /\ r.failed = f
           /\ [r EXCEPT !.entries = x] = HistTurnRec(x, ns, te, a, f)
           /\ [r EXCEPT !.notes = x] = HistTurnRec(e, x, te, a, f)
           /\ [r EXCEPT !.terminal = x] = HistTurnRec(e, ns, x, a, f)
           /\ [r EXCEPT !.at = x] = HistTurnRec(e, ns, te, x, f)
           /\ [r EXCEPT !.failed = x] = HistTurnRec(e, ns, te, a, x)
BY DEF HistTurnRec

LEMMA HistTurnRecTyped ==
    /\ \A e \in Seq(Nat), ns \in Seq(Nat), te \in BOOLEAN, a \in Nat, f \in BOOLEAN :
          HistTurnRec(e, ns, te, a, f) \in HistTurnRecs
    /\ \A r \in HistTurnRecs :
          /\ r = HistTurnRec(r.entries, r.notes, r.terminal, r.at, r.failed)
          /\ r.entries \in Seq(Nat) /\ r.notes \in Seq(Nat) /\ r.terminal \in BOOLEAN /\ r.at \in Nat
          /\ r.failed \in BOOLEAN
BY DEF HistTurnRec, HistTurnRecs

LEMMA HistOfIs ==
    ASSUME NEW o, NEW m, NEW c, NEW x, NEW y
    PROVE  LET h == HistOf(o, m, c, x) IN
           /\ h.order = o /\ h.turns = m /\ h.cont = c /\ h.through = x
           /\ [h EXCEPT !.order = y] = HistOf(y, m, c, x)
           /\ [h EXCEPT !.turns = y] = HistOf(o, y, c, x)
           /\ [h EXCEPT !.cont = y] = HistOf(o, m, y, x)
           /\ [h EXCEPT !.through = y] = HistOf(o, m, c, y)
BY DEF HistOf

LEMMA HistOfTwo ==
    ASSUME NEW h \in Hists, NEW y, NEW z
    PROVE  [h EXCEPT !.turns = y, !.order = z] = HistOf(z, y, h.cont, h.through)
<1>1. [h EXCEPT !.turns = y] = HistOf(h.order, y, h.cont, h.through)
  BY DEF HistOf, Hists
<1>2. [HistOf(h.order, y, h.cont, h.through) EXCEPT !.order = z] = HistOf(z, y, h.cont, h.through)
  BY DEF HistOf
<1> QED
  BY <1>1, <1>2

LEMMA HistsAre ==
    /\ \A o \in Seq(Nat), m \in HistMaps, c \in HistConts, x \in Int : HistOf(o, m, c, x) \in Hists
    /\ \A h \in Hists : /\ h = HistOf(h.order, h.turns, h.cont, h.through)
                        /\ h.order \in Seq(Nat) /\ h.turns \in HistMaps /\ h.cont \in HistConts
                        /\ h.through \in Int
BY DEF HistOf, Hists

LEMMA HistContsAre ==
    ASSUME NEW c \in HistConts, NEW n \in Nat, NEW v \in SUBSET Nat
    PROVE  /\ [c EXCEPT !.covers = v] \in HistConts /\ [c EXCEPT !.covers = v].covers = v
           /\ [c EXCEPT !.covers = v].frontier = c.frontier /\ [c EXCEPT !.covers = v].count = c.count
           /\ c.covers \in SUBSET Nat /\ c.frontier \in Nat /\ c.count \in Nat
BY DEF HistConts

HistOld(h, t) == IF t \in DOMAIN h.turns THEN h.turns[t] ELSE NewReplayedTurn
HistOrderWith(h, t) == IF t \in DOMAIN h.turns THEN h.order ELSE Append(h.order, t)

LEMMA HistNewTurnIs ==
    /\ NewReplayedTurn = HistTurnRec(<<>>, <<>>, FALSE, 0, FALSE) /\ NewReplayedTurn \in HistTurnRecs
    /\ NewReplayedTurn.entries = <<>> /\ NewReplayedTurn.notes = <<>>
    /\ NewReplayedTurn.terminal = FALSE /\ NewReplayedTurn.at = 0
<1>1. NewReplayedTurn = HistTurnRec(<<>>, <<>>, FALSE, 0, FALSE)
  BY DEF NewReplayedTurn, HistTurnRec
<1>2. <<>> \in Seq(Nat)
  OBVIOUS
<1>3. NewReplayedTurn \in HistTurnRecs
  BY <1>1, <1>2, HistTurnRecTyped
<1>4. /\ NewReplayedTurn.entries = <<>> /\ NewReplayedTurn.notes = <<>>
      /\ NewReplayedTurn.terminal = FALSE /\ NewReplayedTurn.at = 0
  BY DEF NewReplayedTurn
<1> QED
  BY <1>1, <1>3, <1>4

LEMMA HistEnsures ==
    ASSUME NEW h \in Hists, NEW t \in Nat
    PROVE  /\ EnsureTurn(h, t) = HistOf(HistOrderWith(h, t), HistSet(h.turns, t, HistOld(h, t)), h.cont, h.through)
           /\ HistOld(h, t) \in HistTurnRecs /\ HistOrderWith(h, t) \in Seq(Nat)
           /\ HistSet(h.turns, t, HistOld(h, t)) \in HistMaps
<1>1. h = HistOf(h.order, h.turns, h.cont, h.through) /\ h.order \in Seq(Nat) /\ h.turns \in HistMaps
  BY HistsAre
<1>2. HistOld(h, t) \in HistTurnRecs
  BY <1>1, HistMapsAre, HistNewTurnIs DEF HistOld
<1>3. HistOrderWith(h, t) \in Seq(Nat)
  BY <1>1, AppendProperties DEF HistOrderWith
<1>4. CASE t \in DOMAIN h.turns
  <2>1. HistSet(h.turns, t, HistOld(h, t)) = h.turns
    <3>1. h.turns = [u \in DOMAIN h.turns |-> h.turns[u]]
      BY <1>1, HistMapsAre
    <3>2. DOMAIN h.turns \cup {t} = DOMAIN h.turns
      BY <1>4
    <3> QED
      BY <1>4, <3>1, <3>2 DEF HistSet, HistOld
  <2> QED
    BY <1>1, <1>2, <1>3, <1>4, <2>1, HistSets DEF EnsureTurn, HistOrderWith
<1>5. CASE t \notin DOMAIN h.turns
  <2>1. EnsureTurn(h, t) = [h EXCEPT !.turns = HistSet(h.turns, t, NewReplayedTurn), !.order = Append(@, t)]
    BY <1>5 DEF EnsureTurn, HistSet
  <2>5. EnsureTurn(h, t) = HistOf(Append(h.order, t), HistSet(h.turns, t, NewReplayedTurn), h.cont, h.through)
    <3> DEFINE m == HistSet(h.turns, t, NewReplayedTurn)
               o == Append(h.order, t)
    <3>1. EnsureTurn(h, t) = [h EXCEPT !.turns = m, !.order = o]
      BY <2>1
    <3> HIDE DEF m, o
    <3>2. EnsureTurn(h, t) = HistOf(o, m, h.cont, h.through)
      BY <3>1, HistOfTwo
    <3> QED
      BY <3>2 DEF m, o
  <2>6. HistOld(h, t) = NewReplayedTurn /\ HistOrderWith(h, t) = Append(h.order, t)
    BY <1>5 DEF HistOld, HistOrderWith
  <2> QED
    BY <1>1, <1>2, <1>3, <2>5, <2>6, HistSets
<1> QED
  BY <1>4, <1>5

(* A turn of a history changed in some of its fields.                             *)
LEMMA HistSetAgain ==
    ASSUME NEW m, NEW t, NEW r, NEW q
    PROVE  [HistSet(m, t, r) EXCEPT ![t] = q] = HistSet(m, t, q)
BY DEF HistSet

HistPutEntries(h, t, y) == [h EXCEPT !.turns[t].entries = y]
HistPutNotes(h, t, y) == [h EXCEPT !.turns[t].notes = y]
HistPutTerminal(h, t, y) == [h EXCEPT !.turns[t].terminal = y]
HistPutAt(h, t, y) == [h EXCEPT !.turns[t].at = y]
HistPutFailed(h, t, y) == [h EXCEPT !.turns[t].failed = y]

(* A history of which the turn t is known.                                        *)
HistHas(h, o, m, t, e, ns, te, a, f, c, x) == h = HistOf(o, HistSet(m, t, HistTurnRec(e, ns, te, a, f)), c, x)

LEMMA HistTurnChanges ==
    ASSUME NEW o, NEW m, NEW t, NEW e, NEW ns, NEW te, NEW a, NEW f, NEW c, NEW x, NEW y,
           NEW h, HistHas(h, o, m, t, e, ns, te, a, f, c, x)
    PROVE  /\ HistHas(HistPutEntries(h, t, y), o, m, t, y, ns, te, a, f, c, x)
           /\ HistHas(HistPutNotes(h, t, y), o, m, t, e, y, te, a, f, c, x)
           /\ HistHas(HistPutTerminal(h, t, y), o, m, t, e, ns, y, a, f, c, x)
           /\ HistHas(HistPutAt(h, t, y), o, m, t, e, ns, te, y, f, c, x)
           /\ HistHas(HistPutFailed(h, t, y), o, m, t, e, ns, te, a, y, c, x)
<1> DEFINE r == HistTurnRec(e, ns, te, a, f)
           s == HistSet(m, t, r)
<1>1. s[t] = r /\ \A q : [s EXCEPT ![t] = q] = HistSet(m, t, q)
  BY HistSetAgain DEF HistSet
<1>2. /\ [r EXCEPT !.entries = y] = HistTurnRec(y, ns, te, a, f)
      /\ [r EXCEPT !.notes = y] = HistTurnRec(e, y, te, a, f)
      /\ [r EXCEPT !.terminal = y] = HistTurnRec(e, ns, y, a, f)
      /\ [r EXCEPT !.at = y] = HistTurnRec(e, ns, te, y, f)
      /\ [r EXCEPT !.failed = y] = HistTurnRec(e, ns, te, a, y)
  BY DEF HistTurnRec
<1> HIDE DEF s, r
<1>3. h = HistOf(o, s, c, x)
  BY DEF s, r, HistHas
<1>4. \A z : [h EXCEPT !.turns = z] = HistOf(o, z, c, x)
  BY <1>3 DEF HistOf
<1>5. h.turns = s /\ h.order = o /\ h.cont = c
  BY <1>3 DEF HistOf
<1>6. HistPutEntries(h, t, y) = HistOf(o, HistSet(m, t, HistTurnRec(y, ns, te, a, f)), c, x)
  <2>1. HistPutEntries(h, t, y) = [h EXCEPT !.turns = [s EXCEPT ![t] = [r EXCEPT !.entries = y]]]
    BY <1>1, <1>5 DEF HistPutEntries
  <2> QED
    BY <1>1, <1>2, <1>4, <2>1
<1>7. HistPutNotes(h, t, y) = HistOf(o, HistSet(m, t, HistTurnRec(e, y, te, a, f)), c, x)
  <2>1. HistPutNotes(h, t, y) = [h EXCEPT !.turns = [s EXCEPT ![t] = [r EXCEPT !.notes = y]]]
    BY <1>1, <1>5 DEF HistPutNotes
  <2> QED
    BY <1>1, <1>2, <1>4, <2>1
<1>8. HistPutTerminal(h, t, y) = HistOf(o, HistSet(m, t, HistTurnRec(e, ns, y, a, f)), c, x)
  <2>1. HistPutTerminal(h, t, y) = [h EXCEPT !.turns = [s EXCEPT ![t] = [r EXCEPT !.terminal = y]]]
    BY <1>1, <1>5 DEF HistPutTerminal
  <2> QED
    BY <1>1, <1>2, <1>4, <2>1
<1>9. HistPutAt(h, t, y) = HistOf(o, HistSet(m, t, HistTurnRec(e, ns, te, y, f)), c, x)
  <2>1. HistPutAt(h, t, y) = [h EXCEPT !.turns = [s EXCEPT ![t] = [r EXCEPT !.at = y]]]
    BY <1>1, <1>5 DEF HistPutAt
  <2> QED
    BY <1>1, <1>2, <1>4, <2>1
<1>10. HistPutFailed(h, t, y) = HistOf(o, HistSet(m, t, HistTurnRec(e, ns, te, a, y)), c, x)
  <2>1. HistPutFailed(h, t, y) = [h EXCEPT !.turns = [s EXCEPT ![t] = [r EXCEPT !.failed = y]]]
    BY <1>1, <1>5 DEF HistPutFailed
  <2> QED
    BY <1>1, <1>2, <1>4, <2>1
<1> QED
  BY <1>6, <1>7, <1>8, <1>9, <1>10 DEF HistHas

LEMMA HistTurnIs ==
    ASSUME NEW o, NEW m, NEW t, NEW e, NEW ns, NEW te, NEW a, NEW f, NEW c, NEW x,
           NEW h, HistHas(h, o, m, t, e, ns, te, a, f, c, x)
    PROVE  /\ h.order = o /\ h.cont = c
           /\ h.turns[t].entries = e /\ h.turns[t].notes = ns /\ h.turns[t].terminal = te
BY DEF HistHas, HistOf, HistSet, HistTurnRec

(* What replaying an event does.                                                  *)
HistReads(e, current) == e.kind \notin {"continuation", "started"} /\ e.turn # current
HistSwallows(h, t) == t \in PrefixTurns(HistOrderWith(h, t), h.cont)
HistTurnAfter(h, e, n) ==
    LET o == HistOld(h, e.turn) IN
    IF e.kind = "entry" THEN HistTurnRec(Append(o.entries, n), o.notes, o.terminal, o.at, o.failed)
    ELSE IF e.kind = "handoff"
    THEN HistTurnRec(Append(o.entries, n), Append(o.notes, n), o.terminal, o.at, o.failed)
    ELSE IF e.kind = "note" /\ (HistSwallows(h, e.turn) \/ o.terminal)
    THEN HistTurnRec(o.entries, Append(o.notes, n), o.terminal, o.at, o.failed)
    ELSE IF e.kind = "note"
    THEN HistTurnRec(Append(o.entries, n), Append(o.notes, n), o.terminal, o.at, o.failed)
    ELSE IF e.kind = "pruned" THEN o
    ELSE HistTurnRec(o.entries, o.notes, TRUE, n, e.kind = "error")
HistContAfter(h, e, n) ==
    IF e.kind = "note" /\ HistSwallows(h, e.turn) THEN [h.cont EXCEPT !.covers = @ \cup {n}] ELSE h.cont
HistSeen(h, n) == IF n > h.through THEN n ELSE h.through

HistNoteIn(noted, h, t, n) ==
    IF t \in PrefixTurns(h.order, h.cont) THEN [noted EXCEPT !.cont.covers = @ \cup {n}]
    ELSE IF h.turns[t].terminal THEN noted
    ELSE [noted EXCEPT !.turns[t].entries = Append(@, n)]

LEMMA HistNotes ==
    ASSUME NEW h \in Hists, NEW t \in Nat, NEW n \in Nat, NEW e, e.kind = "note", e.turn = t
    PROVE  AppendNote(EnsureTurn(h, t), t, n)
             = HistOf(HistOrderWith(h, t), HistSet(h.turns, t, HistTurnAfter(h, e, n)),
                      HistContAfter(h, e, n), h.through)
<1> DEFINE g == EnsureTurn(h, t)
           old == HistOld(h, t)
           o == HistOrderWith(h, t)
           m == h.turns
           c == h.cont
           x == h.through
<1>1. g = HistOf(o, HistSet(m, t, old), c, x)
  BY HistEnsures
<1>2. PICK en, ns, te, a, f : old = HistTurnRec(en, ns, te, a, f)
  BY HistEnsures, HistTurnRecTyped
<1>3. old.entries = en /\ old.notes = ns /\ old.terminal = te /\ old.at = a /\ old.failed = f
  BY <1>2, HistTurnRecIs
<1> DEFINE swallowed == t \in PrefixTurns(o, c)
<1>4. HistSwallows(h, t) <=> swallowed
  BY DEF HistSwallows
<1>5. HistTurnAfter(h, e, n) = IF swallowed \/ te THEN HistTurnRec(en, Append(ns, n), te, a, f)
                               ELSE HistTurnRec(Append(en, n), Append(ns, n), te, a, f)
  BY <1>3, <1>4 DEF HistTurnAfter
<1>6. HistContAfter(h, e, n) = IF swallowed THEN [c EXCEPT !.covers = @ \cup {n}] ELSE c
  BY <1>4 DEF HistContAfter
<1> HIDE DEF old, o, m, c, x, g
<1>7. HistHas(g, o, m, t, en, ns, te, a, f, c, x)
  BY <1>1, <1>2 DEF HistHas
<1>8. g.order = o /\ g.cont = c /\ g.turns[t].notes = ns /\ g.turns[t].terminal = te
  BY <1>7, HistTurnIs
<1> DEFINE noted == HistPutNotes(g, t, Append(ns, n))
<1>9. HistHas(noted, o, m, t, en, Append(ns, n), te, a, f, c, x)
  BY <1>7, HistTurnChanges
<1> HIDE DEF noted
<1>10. noted.turns[t].entries = en /\ noted.cont = c
  BY <1>9, HistTurnIs
<1> DEFINE said == HistPutEntries(noted, t, Append(en, n))
           summed == [noted EXCEPT !.cont.covers = @ \cup {n}]
<1>11. AppendNote(g, t, n) = IF swallowed THEN summed ELSE IF te THEN noted ELSE said
  <2>1. [g EXCEPT !.turns[t].notes = Append(@, n)] = noted
    BY <1>8 DEF noted, HistPutNotes
  <2>2. [noted EXCEPT !.turns[t].entries = Append(@, n)] = said
    BY <1>10 DEF HistPutEntries
  <2>3. AppendNote(g, t, n) = HistNoteIn([g EXCEPT !.turns[t].notes = Append(@, n)], g, t, n)
    BY DEF AppendNote, HistNoteIn
  <2>4. AppendNote(g, t, n) = HistNoteIn(noted, g, t, n)
    BY <2>1, <2>3
  <2> QED
    BY <1>8, <2>2, <2>4 DEF HistNoteIn
<1>12. HistHas(said, o, m, t, Append(en, n), Append(ns, n), te, a, f, c, x)
  BY <1>9, HistTurnChanges
<1>14. summed = HistOf(o, HistSet(m, t, HistTurnRec(en, Append(ns, n), te, a, f)), [c EXCEPT !.covers = @ \cup {n}], x)
  <2> DEFINE q == HistSet(m, t, HistTurnRec(en, Append(ns, n), te, a, f))
  <2> HIDE DEF q
  <2>1. summed = [noted EXCEPT !.cont = [c EXCEPT !.covers = @ \cup {n}]]
    BY <1>10
  <2>2. noted = HistOf(o, q, c, x)
    BY <1>9 DEF q, HistHas
  <2>3. \A y : [noted EXCEPT !.cont = y] = HistOf(o, q, y, x)
    BY <2>2 DEF HistOf
  <2> QED
    BY <2>1, <2>3 DEF q
<1> HIDE DEF said, summed
<1> HIDE DEF noted, swallowed
<1>13. AppendNote(g, t, n) = HistOf(o, HistSet(m, t, HistTurnAfter(h, e, n)), HistContAfter(h, e, n), x)
  <2>1. CASE swallowed
    BY <1>5, <1>6, <1>11, <1>14, <2>1
  <2>2. CASE ~swallowed /\ te
    BY <1>5, <1>6, <1>9, <1>11, <2>2 DEF HistHas
  <2>3. CASE ~swallowed /\ ~te
    BY <1>5, <1>6, <1>11, <1>12, <2>3 DEF HistHas
  <2> QED
    BY <2>1, <2>2, <2>3
<1> QED
  BY <1>13 DEF g, o, m, c, x

LEMMA HistReplays ==
    ASSUME NEW h \in Hists, NEW e \in HistEvents, e.kind # "checkpoint", NEW n \in Nat, NEW current
    PROVE  /\ HistReads(e, current) =>
                ReplayEvent(h, e, n, current)
                  = HistOf(HistOrderWith(h, e.turn), HistSet(h.turns, e.turn, HistTurnAfter(h, e, n)),
                           HistContAfter(h, e, n), HistSeen(h, n))
           /\ ~HistReads(e, current) =>
                ReplayEvent(h, e, n, current)
                  = HistOf(h.order, h.turns, IF e.kind = "continuation" THEN e.cont ELSE h.cont, HistSeen(h, n))
<1> DEFINE seen == [h EXCEPT !.through = IF n > @ THEN n ELSE @]
           t == e.turn
           x == HistSeen(h, n)
<1>1. x \in Int /\ e.kind \in HistKinds /\ t \in Nat
  BY HistsAre DEF HistSeen, HistEvents
<1>2. seen = HistOf(h.order, h.turns, h.cont, x)
  BY HistsAre DEF HistSeen, HistOf, Hists
<1> HIDE DEF seen, x
<1>3. seen \in Hists /\ seen.order = h.order /\ seen.turns = h.turns /\ seen.cont = h.cont /\ seen.through = x
  BY <1>1, <1>2, HistsAre, HistOfIs
<1>4. HistOld(seen, t) = HistOld(h, t) /\ HistOrderWith(seen, t) = HistOrderWith(h, t)
  BY <1>3 DEF HistOld, HistOrderWith
<1>5. HistTurnAfter(seen, e, n) = HistTurnAfter(h, e, n) /\ HistContAfter(seen, e, n) = HistContAfter(h, e, n)
  BY <1>3, <1>4 DEF HistTurnAfter, HistContAfter, HistSwallows
<1> DEFINE turn == EnsureTurn(seen, t)
           old == HistOld(h, t)
           o == HistOrderWith(h, t)
           m == h.turns
           c == h.cont
<1>6. turn = HistOf(o, HistSet(m, t, old), c, x) /\ old \in HistTurnRecs
  BY <1>1, <1>3, <1>4, HistEnsures
<1>7. PICK en, ns, te, a, f : old = HistTurnRec(en, ns, te, a, f)
  BY <1>6, HistTurnRecTyped
<1>8. old.entries = en /\ old.notes = ns /\ old.terminal = te /\ old.at = a /\ old.failed = f
  BY <1>7, HistTurnRecIs
<1>9. ASSUME ~HistReads(e, current)
      PROVE  ReplayEvent(h, e, n, current)
                = HistOf(h.order, h.turns, IF e.kind = "continuation" THEN e.cont ELSE h.cont, x)
  <2>1. CASE e.kind = "continuation"
    <3>1. ReplayEvent(h, e, n, current) = [seen EXCEPT !.cont = e.cont]
      BY <2>1 DEF ReplayEvent, seen
    <3> QED
      BY <1>2, <2>1, <3>1, HistOfIs
  <2>2. CASE e.kind # "continuation"
    <3>1. ReplayEvent(h, e, n, current) = seen
      BY <1>9, <2>2 DEF ReplayEvent, HistReads, seen
    <3> QED
      BY <1>2, <2>2, <3>1, SMTT(60)
  <2> QED
    BY <2>1, <2>2
<1>10. ASSUME HistReads(e, current)
       PROVE  ReplayEvent(h, e, n, current)
                = HistOf(o, HistSet(m, t, HistTurnAfter(h, e, n)), HistContAfter(h, e, n), x)
  <2>1. ReplayEvent(h, e, n, current) =
          CASE e.kind = "entry" -> [turn EXCEPT !.turns[e.turn].entries = Append(@, n)]
            [] e.kind = "handoff" -> [turn EXCEPT !.turns[e.turn].entries = Append(@, n),
                                                  !.turns[e.turn].notes = Append(@, n)]
            [] e.kind = "note"  -> AppendNote(turn, e.turn, n)
            [] e.kind = "pruned" -> turn
            [] OTHER -> [turn EXCEPT !.turns[e.turn].terminal = TRUE,
                                     !.turns[e.turn].at = n,
                                     !.turns[e.turn].failed = e.kind = "error"]
    BY <1>10 DEF ReplayEvent, HistReads, seen
  <2>2. CASE e.kind = "note"
    <3>1. ReplayEvent(h, e, n, current) = AppendNote(turn, t, n)
      BY <2>1, <2>2
    <3> HIDE DEF turn
    <3>2. AppendNote(EnsureTurn(seen, t), t, n)
            = HistOf(HistOrderWith(seen, t), HistSet(seen.turns, t, HistTurnAfter(seen, e, n)), HistContAfter(seen, e, n), seen.through)
      BY <1>1, <1>3, <2>2, HistNotes
    <3> QED
      BY <1>3, <1>4, <1>5, <3>1, <3>2 DEF turn
  <2>3. CASE e.kind # "note"
    <3>1. HistContAfter(h, e, n) = c
      BY <2>3 DEF HistContAfter
    <3>2. HistHas(turn, o, m, t, en, ns, te, a, f, c, x)
      BY <1>6, <1>7 DEF HistHas
    <3>7. turn.turns[t].entries = en /\ turn.turns[t].notes = ns
      <4> HIDE DEF turn, o, m, c
      <4> QED
        BY <3>2, HistTurnIs
    <3> DEFINE q == HistTurnAfter(h, e, n)
    <3>3. CASE e.kind = "entry"
      <4>1. q = HistTurnRec(Append(en, n), ns, te, a, f)
        BY <1>8, <3>3 DEF HistTurnAfter
      <4>2. ReplayEvent(h, e, n, current) = HistPutEntries(turn, t, Append(en, n))
        BY <2>1, <3>3, <3>7 DEF HistPutEntries
      <4> HIDE DEF turn, q, old, o, m, c
      <4>4. HistHas(ReplayEvent(h, e, n, current), o, m, t, Append(en, n), ns, te, a, f, c, x)
        BY <3>2, <4>2, HistTurnChanges
      <4>3. ReplayEvent(h, e, n, current) = HistOf(o, HistSet(m, t, q), c, x)
        BY <4>1, <4>4 DEF HistHas
      <4> QED
        BY <3>1, <4>3 DEF q, o, m, c
    <3>4. CASE e.kind = "handoff"
      <4>1. q = HistTurnRec(Append(en, n), Append(ns, n), te, a, f)
        BY <1>8, <3>4 DEF HistTurnAfter
      <4> DEFINE g == HistPutEntries(turn, t, Append(en, n))
      <4>2. HistHas(g, o, m, t, Append(en, n), ns, te, a, f, c, x)
        <5> HIDE DEF turn, o, m, c
        <5> QED
          BY <3>2, HistTurnChanges
      <4>4. ReplayEvent(h, e, n, current) = HistPutNotes(g, t, Append(ns, n))
        BY <2>1, <3>4, <3>7 DEF HistPutEntries, HistPutNotes
      <4> HIDE DEF turn, q, old, o, m, c, g
      <4>6. HistHas(ReplayEvent(h, e, n, current), o, m, t, Append(en, n), Append(ns, n), te, a, f, c, x)
        BY <4>2, <4>4, HistTurnChanges
      <4>5. ReplayEvent(h, e, n, current) = HistOf(o, HistSet(m, t, q), c, x)
        BY <4>1, <4>6 DEF HistHas
      <4> QED
        BY <3>1, <4>5 DEF q, o, m, c
    <3>5. CASE e.kind = "pruned"
      BY <1>6, <2>1, <3>1, <3>5 DEF HistTurnAfter
    <3>6. CASE e.kind \notin {"entry", "handoff", "pruned"}
      <4>1. q = HistTurnRec(en, ns, TRUE, n, e.kind = "error")
        BY <1>8, <2>3, <3>6 DEF HistTurnAfter
      <4> DEFINE g1 == HistPutTerminal(turn, t, TRUE)
                 g2 == HistPutAt(g1, t, n)
                 failed == e.kind = "error"
      <4>2. ReplayEvent(h, e, n, current) = HistPutFailed(g2, t, failed)
        BY <2>1, <2>3, <3>6 DEF HistPutTerminal, HistPutAt, HistPutFailed
      <4> HIDE DEF turn, q, old, o, m, c, failed
      <4>3. HistHas(g1, o, m, t, en, ns, TRUE, a, f, c, x)
        BY <3>2, HistTurnChanges
      <4> HIDE DEF g1
      <4>4. HistHas(g2, o, m, t, en, ns, TRUE, n, f, c, x)
        BY <4>3, HistTurnChanges
      <4> HIDE DEF g2
      <4>5. q = HistTurnRec(en, ns, TRUE, n, failed)
        BY <4>1 DEF failed
      <4>7. HistHas(ReplayEvent(h, e, n, current), o, m, t, en, ns, TRUE, n, failed, c, x)
        BY <4>2, <4>4, HistTurnChanges
      <4>6. ReplayEvent(h, e, n, current) = HistOf(o, HistSet(m, t, q), c, x)
        BY <4>5, <4>7 DEF HistHas
      <4> QED
        BY <3>1, <4>6 DEF q, o, m, c
    <3> QED
      BY <3>3, <3>4, <3>5, <3>6
  <2> QED
    BY <2>2, <2>3
<1> QED
  BY <1>9, <1>10 DEF x

LEMMA HistReplayIs ==
    ASSUME NEW h \in Hists, NEW e \in HistEvents, e.kind # "checkpoint", NEW n \in Nat, NEW current
    PROVE  LET r == ReplayEvent(h, e, n, current)  t == e.turn IN
           /\ r \in Hists /\ r.through = HistSeen(h, n)
           /\ HistReads(e, current) =>
                 /\ r.order = HistOrderWith(h, t) /\ r.cont = HistContAfter(h, e, n)
                 /\ DOMAIN r.turns = DOMAIN h.turns \cup {t} /\ r.turns[t] = HistTurnAfter(h, e, n)
                 /\ \A u \in DOMAIN h.turns \ {t} : r.turns[u] = h.turns[u]
           /\ ~HistReads(e, current) =>
                 /\ r.order = h.order /\ r.turns = h.turns
                 /\ r.cont = IF e.kind = "continuation" THEN e.cont ELSE h.cont
<1> DEFINE r == ReplayEvent(h, e, n, current)
           t == e.turn
<1>1. e.kind \in HistKinds /\ t \in Nat /\ e.cont \in HistConts
  BY DEF HistEvents
<1>2. h.order \in Seq(Nat) /\ h.turns \in HistMaps /\ h.cont \in HistConts /\ HistSeen(h, n) \in Int
  BY HistsAre DEF HistSeen
<1>3. CASE HistReads(e, current)
  <2>1. r = HistOf(HistOrderWith(h, t), HistSet(h.turns, t, HistTurnAfter(h, e, n)), HistContAfter(h, e, n), HistSeen(h, n))
    BY <1>3, HistReplays
  <2>2. HistTurnAfter(h, e, n) \in HistTurnRecs
    <3>1. HistOld(h, t) \in HistTurnRecs
      BY <1>1, HistEnsures
    <3> DEFINE o == HistOld(h, t)
    <3>2. o.entries \in Seq(Nat) /\ o.notes \in Seq(Nat) /\ o.terminal \in BOOLEAN /\ o.at \in Nat /\ o.failed \in BOOLEAN
      BY <3>1, HistTurnRecTyped
    <3>3. Append(o.entries, n) \in Seq(Nat) /\ Append(o.notes, n) \in Seq(Nat) /\ (e.kind = "error") \in BOOLEAN
      BY <3>2, AppendProperties
    <3> QED
      BY <3>1, <3>2, <3>3, HistTurnRecTyped DEF HistTurnAfter
  <2>3. HistContAfter(h, e, n) \in HistConts
    <3>1. h.cont.covers \cup {n} \in SUBSET Nat
      BY <1>2, HistContsAre
    <3> QED
      BY <1>2, <3>1, HistContsAre DEF HistContAfter
  <2>4. HistOrderWith(h, t) \in Seq(Nat)
    BY <1>1, HistEnsures
  <2> DEFINE q == HistTurnAfter(h, e, n)
             s == HistSet(h.turns, t, q)
             o == HistOrderWith(h, t)
             c == HistContAfter(h, e, n)
             x == HistSeen(h, n)
  <2>5. /\ s \in HistMaps /\ DOMAIN s = DOMAIN h.turns \cup {t} /\ s[t] = q
        /\ \A u \in DOMAIN h.turns \ {t} : s[u] = h.turns[u]
    <3>1. q \in HistTurnRecs
      BY <2>2
    <3>2. \A p \in HistTurnRecs :
            /\ HistSet(h.turns, t, p) \in HistMaps /\ DOMAIN HistSet(h.turns, t, p) = DOMAIN h.turns \cup {t}
            /\ HistSet(h.turns, t, p)[t] = p
            /\ \A u \in DOMAIN h.turns \ {t} : HistSet(h.turns, t, p)[u] = h.turns[u]
      BY <1>1, <1>2, HistSets, ZenonT(60)
    <3> HIDE DEF q
    <3> QED
      BY <3>1, <3>2
  <2>6. r \in Hists /\ r.order = o /\ r.cont = c /\ r.turns = s /\ r.through = x
    <3>1. r = HistOf(o, s, c, x) /\ o \in Seq(Nat) /\ c \in HistConts /\ x \in Int
      BY <1>2, <2>1, <2>3, <2>4
    <3> HIDE DEF r, o, s, c, x
    <3> QED
      BY <2>5, <3>1, HistOfIs, HistsAre, SMTT(60)
  <2> HIDE DEF r, s, q
  <2>7. /\ DOMAIN r.turns = DOMAIN h.turns \cup {t} /\ r.turns[t] = q
        /\ \A u \in DOMAIN h.turns \ {t} : r.turns[u] = h.turns[u]
    BY <2>5, <2>6
  <2> QED
    BY <1>3, <2>6, <2>7 DEF r, q
<1>4. CASE ~HistReads(e, current)
  <2>1. r = HistOf(h.order, h.turns, IF e.kind = "continuation" THEN e.cont ELSE h.cont, HistSeen(h, n))
    BY <1>4, HistReplays
  <2>2. (IF e.kind = "continuation" THEN e.cont ELSE h.cont) \in HistConts
    BY <1>1, <1>2
  <2>3. /\ r \in Hists /\ r.order = h.order /\ r.turns = h.turns /\ r.through = HistSeen(h, n)
        /\ r.cont = IF e.kind = "continuation" THEN e.cont ELSE h.cont
    BY <1>2, <2>1, <2>2, HistOfIs, HistsAre
  <2> QED
    BY <1>4, <2>3
<1> QED
  BY <1>3, <1>4

------------------------------------------------------------------------------
(* The compacted prefix.                                                          *)
LEMMA HistPrefix ==
    ASSUME NEW order \in Seq(Nat), NEW c \in HistConts
    PROVE  /\ PrefixCount(order, c) \in 0 .. Len(order) /\ Len(order) \in Nat /\ DOMAIN order = 1 .. Len(order)
           /\ \A i \in 1 .. Len(order) : order[i] \in Nat
           /\ IF HistInOrder(order, c.frontier)
              THEN PrefixCount(order, c) \in 1 .. Len(order) /\ order[PrefixCount(order, c)] = c.frontier
              ELSE PrefixCount(order, c) = 0
           /\ \A t : t \in PrefixTurns(order, c) <=> \E i \in 1 .. PrefixCount(order, c) : order[i] = t
           /\ \A t : t \in RawTurns(order, c) <=> \E i \in PrefixCount(order, c) + 1 .. Len(order) : order[i] = t
           /\ PrefixTurns(order, c) \subseteq Nat
<1>1. Len(order) \in Nat /\ DOMAIN order = 1 .. Len(order) /\ \A i \in 1 .. Len(order) : order[i] \in Nat
  BY LenProperties, ElementOfSeq
<1>2. IF HistInOrder(order, c.frontier)
      THEN PrefixCount(order, c) \in 1 .. Len(order) /\ order[PrefixCount(order, c)] = c.frontier
      ELSE PrefixCount(order, c) = 0
  <2>1. CASE c.count \in 1 .. Len(order) /\ order[c.count] = c.frontier
    BY <1>1, <2>1 DEF PrefixCount, HistInOrder
  <2>2. CASE ~(c.count \in 1 .. Len(order) /\ order[c.count] = c.frontier)
    <3>1. CASE HistInOrder(order, c.frontier)
      <4>1. PICK i \in 1 .. Len(order) : order[i] = c.frontier
        BY <3>1 DEF HistInOrder
      <4> DEFINE p == CHOOSE j \in 1 .. Len(order) : order[j] = c.frontier
      <4>2. p \in 1 .. Len(order) /\ order[p] = c.frontier
        BY <4>1
      <4>3. PrefixCount(order, c) = p
        BY <1>1, <2>2, <4>1 DEF PrefixCount
      <4> HIDE DEF p
      <4> QED
        BY <3>1, <4>2, <4>3
    <3>2. CASE ~HistInOrder(order, c.frontier)
      BY <1>1, <2>2, <3>2 DEF PrefixCount, HistInOrder
    <3> QED
      BY <3>1, <3>2
  <2> QED
    BY <2>1, <2>2
<1>3. PrefixCount(order, c) \in 0 .. Len(order)
  BY <1>1, <1>2
<1> QED
  BY <1>1, <1>2, <1>3, SMTT(60) DEF PrefixTurns, RawTurns

LEMMA HistPlaceholders ==
    ASSUME NEW h \in Hists
    PROVE  LET p == Placeholders(h) IN
           /\ p \in Hists /\ p.order = h.order /\ p.cont = h.cont /\ p.through = h.through
           /\ DOMAIN p.turns = DOMAIN h.turns \cup PrefixTurns(h.order, h.cont)
           /\ \A u \in PrefixTurns(h.order, h.cont) :
                 /\ p.turns[u].terminal /\ p.turns[u].entries = HistOld(h, u).entries
                 /\ p.turns[u].notes = HistOld(h, u).notes /\ p.turns[u].at = HistOld(h, u).at
           /\ \A u \in DOMAIN h.turns \ PrefixTurns(h.order, h.cont) : p.turns[u] = h.turns[u]
<1>1. h = HistOf(h.order, h.turns, h.cont, h.through) /\ h.order \in Seq(Nat) /\ h.turns \in HistMaps
      /\ h.cont \in HistConts /\ h.through \in Int
  BY HistsAre
<1> DEFINE prefix == PrefixTurns(h.order, h.cont)
           After(u) == [HistOld(h, u) EXCEPT !.terminal = TRUE]
           m == [u \in DOMAIN h.turns \cup prefix |-> IF u \in prefix THEN After(u) ELSE h.turns[u]]
<1>2. prefix \subseteq Nat /\ DOMAIN h.turns \subseteq Nat /\ \A u \in DOMAIN h.turns : h.turns[u] \in HistTurnRecs
  BY <1>1, HistPrefix, HistMapsAre
<1>3. Placeholders(h) = [h EXCEPT !.turns = m]
  BY DEF Placeholders, HistOld
<1>4. ASSUME NEW u \in prefix
      PROVE  /\ After(u) \in HistTurnRecs /\ After(u).terminal = TRUE /\ After(u).entries = HistOld(h, u).entries
             /\ After(u).notes = HistOld(h, u).notes /\ After(u).at = HistOld(h, u).at
  <2>1. HistOld(h, u) \in HistTurnRecs
    BY <1>2, HistNewTurnIs DEF HistOld
  <2> PICK o \in HistTurnRecs : o = HistOld(h, u)
    BY <2>1
  <2>2. /\ [o EXCEPT !.terminal = TRUE] \in HistTurnRecs /\ [o EXCEPT !.terminal = TRUE].terminal = TRUE
        /\ [o EXCEPT !.terminal = TRUE].entries = o.entries
        /\ [o EXCEPT !.terminal = TRUE].notes = o.notes /\ [o EXCEPT !.terminal = TRUE].at = o.at
    BY DEF HistTurnRecs
  <2> QED
    BY <2>2
<1>5. /\ DOMAIN m = DOMAIN h.turns \cup prefix /\ m = [u \in DOMAIN m |-> m[u]]
      /\ \A u \in prefix : m[u] = After(u)
      /\ \A u \in DOMAIN h.turns \ prefix : m[u] = h.turns[u]
  <2> HIDE DEF After, prefix
  <2> QED
    OBVIOUS
<1> HIDE DEF m, After, prefix
<1>6. \A u \in DOMAIN m : m[u] \in HistTurnRecs
  BY <1>2, <1>4, <1>5
<1>7. m \in HistMaps
  BY <1>2, <1>5, <1>6, HistMapsAre
<1>8. [h EXCEPT !.turns = m] = HistOf(h.order, m, h.cont, h.through)
  BY DEF HistOf, Hists
<1>9. /\ Placeholders(h) \in Hists /\ Placeholders(h).order = h.order /\ Placeholders(h).cont = h.cont
      /\ Placeholders(h).through = h.through /\ Placeholders(h).turns = m
  BY <1>1, <1>3, <1>7, <1>8, HistsAre, HistOfIs
<1>10. \A u \in prefix : /\ m[u].terminal /\ m[u].entries = HistOld(h, u).entries
                         /\ m[u].notes = HistOld(h, u).notes /\ m[u].at = HistOld(h, u).at
  BY <1>4, <1>5
<1> QED
  BY <1>5, <1>9, <1>10 DEF prefix

(* The steps of a replay.                                                         *)
HistStep(log, h, n, after, current) ==
    IF n > after /\ log[n].kind # "checkpoint" THEN ReplayEvent(h, log[n], n, current) ELSE h
HistComplete(folded) ==
    LET order  == CompletedOrder(folded)
        cont   == NormalizeSummary(order, folded.cont)
    IN [folded EXCEPT !.order = order, !.cont = AppendSummaryNotes(order, cont, folded.turns)]
HistPart(log, base, after, current, part) ==
    part = [n \in 0 .. Len(log) |-> IF n = 0 THEN Placeholders(base)
                                    ELSE IF n > after /\ log[n].kind # "checkpoint"
                                         THEN ReplayEvent(part[n - 1], log[n], n, current)
                                         ELSE part[n - 1]]

LEMMA HistBuilds ==
    ASSUME NEW log \in Seq(HistEvents), NEW base \in Hists, NEW after, NEW current
    PROVE  \E part : /\ part[0] = Placeholders(base) /\ part[0] \in Hists
                     /\ \A n \in 1 .. Len(log) : part[n] = HistStep(log, part[n - 1], n, after, current)
                     /\ BuildHistory(log, base, after, current) = HistComplete(part[Len(log)])
<1>1. Len(log) \in Nat /\ \A n \in 1 .. Len(log) : log[n] \in HistEvents
  BY LenProperties, ElementOfSeq
<1> DEFINE Next(n, h) == IF n + 1 <= Len(log) THEN HistStep(log, h, n + 1, after, current) ELSE h
<1>2. PICK g : g = [p \in Nat \X Hists |-> Next(p[1], p[2])]
  OBVIOUS
<1>3. PICK b : b = Placeholders(base)
  OBVIOUS
<1>4. b \in Hists
  BY <1>3, HistPlaceholders
<1>5. ASSUME NEW n \in Nat, NEW h \in Hists PROVE Next(n, h) \in Hists
  <2>1. CASE n + 1 <= Len(log) /\ n + 1 > after /\ log[n + 1].kind # "checkpoint"
    <3>1. log[n + 1] \in HistEvents /\ n + 1 \in Nat
      BY <1>1, <2>1
    <3>2. ReplayEvent(h, log[n + 1], n + 1, current) \in Hists
      BY <2>1, <3>1, HistReplayIs
    <3> QED
      BY <2>1, <3>2 DEF HistStep
  <2> QED
    BY <2>1 DEF HistStep
<1>6. g \in [Nat \X Hists -> Hists]
  <2> HIDE DEF Next
  <2> QED
    BY <1>2, <1>5
<1>7. PICK r : IsRecursion(r, Hists, b, g)
  <2> HIDE DEF Next
  <2> QED
    BY <1>4, <1>6, Recursion
<1>8. PICK f : f = [n \in 0 .. Len(log) |-> r[n]]
  OBVIOUS
<1>9. ASSUME NEW n \in 1 .. Len(log)
      PROVE  f[n] = HistStep(log, f[n - 1], n, after, current)
  <2>1. n - 1 \in Nat /\ (n - 1) + 1 = n /\ n - 1 \in 0 .. Len(log) /\ n <= Len(log) /\ n \in 0 .. Len(log)
    BY <1>1
  <2>2. r[n] = g[<<n - 1, r[n - 1]>>] /\ r[n - 1] \in Hists
    BY <1>7, <2>1 DEF IsRecursion
  <2>3. g[<<n - 1, r[n - 1]>>] = Next(n - 1, r[n - 1])
    <3> HIDE DEF Next
    <3> QED
      BY <1>2, <2>1, <2>2
  <2>4. Next(n - 1, r[n - 1]) = HistStep(log, r[n - 1], n, after, current)
    BY <2>1
  <2> HIDE DEF Next
  <2> QED
    BY <1>8, <2>1, <2>2, <2>3, <2>4
<1>10. f[0] = b
  BY <1>1, <1>7, <1>8 DEF IsRecursion
<1>11. HistPart(log, base, after, current, f)
  <2>1. f = [n \in 0 .. Len(log) |-> f[n]]
    BY <1>8
  <2>2. \A n \in 0 .. Len(log) : n = 0 \/ n \in 1 .. Len(log)
    BY <1>1
  <2> QED
    BY <1>3, <1>9, <1>10, <2>1, <2>2 DEF HistPart, HistStep
<1> DEFINE part == CHOOSE p : HistPart(log, base, after, current, p)
<1>12. HistPart(log, base, after, current, part)
  BY <1>11
<1>13. BuildHistory(log, base, after, current) = HistComplete(part[Len(log)])
  BY DEF BuildHistory, HistComplete, HistPart
<1> HIDE DEF part
<1>14. part[0] = Placeholders(base)
  BY <1>1, <1>12 DEF HistPart
<1>15. ASSUME NEW n \in 1 .. Len(log) PROVE part[n] = HistStep(log, part[n - 1], n, after, current)
  <2>1. n \in 0 .. Len(log) /\ n # 0
    BY <1>1
  <2> QED
    BY <1>12, <2>1 DEF HistPart, HistStep
<1> QED
  BY <1>3, <1>4, <1>13, <1>14, <1>15

------------------------------------------------------------------------------
(* What a log says.                                                               *)
HistLogWell(log) ==
    /\ log \in Seq(HistEvents) /\ HistLogTyped(log) /\ HistOrdered(log) /\ HistEndsOnce(log)
    /\ HistNoted(log)

LEMMA HistLogIs ==
    ASSUME NEW log, HistLogWell(log)
    PROVE  /\ Len(log) \in Nat /\ DOMAIN log = 1 .. Len(log)
           /\ \A n \in 1 .. Len(log) : /\ log[n] \in HistEvents /\ log[n].turn \in Nat
                                       /\ log[n].kind \in HistKinds
                                       /\ log[n].turn = 0 <=> log[n].kind = "checkpoint"
<1>1. Len(log) \in Nat /\ DOMAIN log = 1 .. Len(log) /\ \A n \in 1 .. Len(log) : log[n] \in HistEvents
  BY LenProperties, ElementOfSeq DEF HistLogWell
<1>2. \A e \in HistEvents : e.turn \in Nat
  BY DEF HistEvents
<1> QED
  BY <1>1, <1>2 DEF HistLogWell, HistLogTyped

(* A turn ends once; what it does itself it does before.                          *)
LEMMA HistEndIs ==
    ASSUME NEW log, HistLogWell(log), NEW t, NEW e, HistEndsAt(log, t, e)
    PROVE  /\ e \in 1 .. Len(log) /\ HistEnded(log, t) /\ HistOwn(log[e]) /\ t # 0
           /\ log[e].kind \notin {"entry", "handoff", "note", "pruned", "started", "continuation", "checkpoint"}
           /\ \A d : HistEndsAt(log, t, d) => d = e
           /\ \A n \in 1 .. Len(log) : log[n].turn = t /\ HistOwn(log[n]) => n <= e
<1>1. e \in 1 .. Len(log) /\ log[e].turn = t /\ log[e].kind \in EndKinds /\ Len(log) \in Nat
  BY HistLogIs DEF HistEndsAt
<1>2. HistEnded(log, t) /\ HistOwn(log[e]) /\ log[e].kind # "checkpoint"
      /\ log[e].kind \notin {"entry", "handoff", "note", "pruned", "started", "continuation", "checkpoint"}
  BY <1>1 DEF HistEnded, HistOwn, EndKinds
<1>3. t # 0
  BY <1>1, <1>2, HistLogIs
<1>4. \A n \in 1 .. Len(log) : log[n].turn = t /\ HistOwn(log[n]) => n <= e
  <2> SUFFICES ASSUME NEW n \in 1 .. Len(log), log[n].turn = t, HistOwn(log[n]), ~(n <= e) PROVE FALSE
    OBVIOUS
  <2>1. e < n
    BY <1>1
  <2>2. log[n].kind = "note"
    BY <1>1, <2>1 DEF HistLogWell, HistEndsOnce
  <2> QED
    BY <2>2 DEF HistOwn
<1>5. \A d : HistEndsAt(log, t, d) => d = e
  <2> SUFFICES ASSUME NEW d, HistEndsAt(log, t, d) PROVE d = e
    OBVIOUS
  <2>1. d \in 1 .. Len(log) /\ log[d].turn = t /\ log[d].kind \in EndKinds /\ log[d].kind # "note"
    BY HistKindsAre DEF HistEndsAt
  <2>2. log[e].kind # "note"
    BY <1>2
  <2>3. ~(e < d) /\ ~(d < e)
    BY <1>1, <2>1, <2>2 DEF HistLogWell, HistEndsOnce
  <2> QED
    BY <1>1, <2>1, <2>3
<1> QED
  BY <1>1, <1>2, <1>3, <1>4, <1>5

LEMMA HistEndedAt ==
    ASSUME NEW log, NEW t
    PROVE  HistEnded(log, t) <=> \E e : HistEndsAt(log, t, e)
BY DEF HistEnded, HistEndsAt

(* An earlier turn that ended ended before a later one did anything.              *)
LEMMA HistEndsFirst ==
    ASSUME NEW log, HistLogWell(log), NEW t, NEW e, HistEndsAt(log, t, e),
           NEW n \in 1 .. Len(log), HistOwn(log[n]), t < log[n].turn
    PROVE  e < n
<1>1. e \in 1 .. Len(log) /\ HistOwn(log[e]) /\ log[e].turn = t
  BY HistEndIs DEF HistEndsAt
<1>2. Len(log) \in Nat /\ log[n].turn \in Nat /\ log[e].turn \in Nat
  BY <1>1, HistLogIs
<1>3. ~(n < e)
  BY <1>1, <1>2 DEF HistLogWell, HistOrdered
<1>4. n # e
  BY <1>1, <1>2
<1> QED
  BY <1>1, <1>2, <1>3, <1>4

(* What a turn says while it runs.                                                *)
LEMMA HistSpeaksIs ==
    ASSUME NEW log, HistLogWell(log), NEW t, NEW n \in 1 .. Len(log)
    PROVE  /\ n \in HistSpeaks(log, t) => log[n].turn = t /\ log[n].kind \in {"entry", "note"}
           /\ n \in HistLate(log, t) => log[n].turn = t /\ log[n].kind = "note"
           /\ log[n].turn = t /\ log[n].kind = "entry" => n \in HistSpeaks(log, t)
           /\ log[n].turn = t /\ log[n].kind = "note" =>
                 (n \in HistLate(log, t) <=> n \notin HistSpeaks(log, t))
           /\ \A e : HistEndsAt(log, t, e) /\ log[n].turn = t /\ log[n].kind \in {"entry", "note"} =>
                 (n \in HistSpeaks(log, t) <=> n < e)
<1>1. Len(log) \in Nat
  BY HistLogIs
<1>2. ASSUME log[n].turn = t, log[n].kind = "entry", NEW e \in 1 .. n, HistEndsAt(log, t, e) PROVE FALSE
  <2>1. n <= e /\ log[e].kind # "entry"
    BY <1>2, HistEndIs DEF HistOwn
  <2> QED
    BY <1>2, <2>1
<1>3. ASSUME NEW e, HistEndsAt(log, t, e), log[n].turn = t, log[n].kind \in {"entry", "note"}
      PROVE  n \in HistSpeaks(log, t) <=> n < e
  <2>1. e \in 1 .. Len(log) /\ e # n /\ \A d : HistEndsAt(log, t, d) => d = e
    BY <1>3, HistEndIs
  <2>2. CASE n < e
    <3>1. \A j \in 1 .. n : ~HistEndsAt(log, t, j)
      BY <2>1, <2>2
    <3> QED
      BY <1>3, <2>2, <3>1 DEF HistSpeaks
  <2>3. CASE ~(n < e)
    <3>1. e \in 1 .. n
      BY <1>1, <2>1, <2>3
    <3> QED
      BY <1>3, <2>3, <3>1 DEF HistSpeaks
  <2> QED
    BY <2>2, <2>3
<1> QED
  BY <1>2, <1>3 DEF HistSpeaks, HistLate

(* A turn that has been noted has said something, and is told when it has ended.  *)
LEMMA HistNotedIsTold ==
    ASSUME NEW log, HistLogWell(log), NEW n \in 1 .. Len(log), log[n].kind = "note", NEW b
    PROVE  /\ \E j \in 1 .. n : j # n /\ log[j].kind = "entry" /\ log[j].turn = log[n].turn /\ HistOwn(log[j])
           /\ HistDone(log, b, log[n].turn) => HistTold(log, b, log[n].turn)
<1>1. PICK j \in 1 .. n : j # n /\ log[j].kind = "entry" /\ log[j].turn = log[n].turn
  BY DEF HistLogWell, HistNoted
<1>2. j \in 1 .. Len(log)
  BY HistLogIs
<1>3. j \in HistSpeaks(log, log[n].turn)
  BY <1>1, <1>2, HistSpeaksIs
<1> QED
  BY <1>1, <1>3 DEF HistTold, HistOwn

LEMMA HistPlacesAre ==
    ASSUME NEW n \in Nat
    PROVE  /\ HistPlaces(n) \in Seq(Nat) /\ Len(HistPlaces(n)) = n /\ HistPlaces(0) = <<>>
           /\ HistPlaces(n + 1) = Append(HistPlaces(n), n + 1)
           /\ \A i \in 1 .. n : HistPlaces(n)[i] = i
<1>1. \A m \in Nat : HistPlaces(m) \in Seq(Nat) /\ Len(HistPlaces(m)) = m /\ \A i \in 1 .. m : HistPlaces(m)[i] = i
  <2> TAKE m \in Nat
  <2>1. HistPlaces(m) \in [1 .. m -> Nat]
    BY DEF HistPlaces
  <2>2. HistPlaces(m) \in Seq(Nat)
    BY <2>1, SeqDef
  <2>3. DOMAIN HistPlaces(m) = 1 .. m
    BY <2>1
  <2> QED
    BY <2>1, <2>2, <2>3, LenProperties DEF HistPlaces
<1>2. HistPlaces(0) = <<>>
  BY <1>1, EmptySeq
<1>3. HistPlaces(n + 1) = Append(HistPlaces(n), n + 1)
  <2> DEFINE s == HistPlaces(n)
             r == HistPlaces(n + 1)
             q == Append(s, n + 1)
  <2>1. s \in Seq(Nat) /\ r \in Seq(Nat) /\ n + 1 \in Nat /\ Len(s) = n /\ Len(r) = n + 1
        /\ (\A i \in 1 .. n : s[i] = i) /\ (\A i \in 1 .. n + 1 : r[i] = i)
    BY <1>1
  <2> HIDE DEF s, r
  <2>2. q \in Seq(Nat) /\ Len(q) = n + 1 /\ q[n + 1] = n + 1 /\ \A i \in 1 .. n : q[i] = s[i]
    BY <2>1, AppendProperties
  <2> HIDE DEF q
  <2>3. \A i \in 1 .. n + 1 : r[i] = q[i]
    BY <2>1, <2>2
  <2>4. r = q
    BY <2>1, <2>2, <2>3, SeqEqual
  <2> QED
    BY <2>4 DEF r, q, s
<1> QED
  BY <1>1, <1>2, <1>3

LEMMA HistSaidNext ==
    ASSUME NEW log, NEW t, NEW n \in Nat
    PROVE  /\ HistSaid(log, t, n) \in Seq(Nat) /\ HistSaid(log, t, 0) = <<>>
           /\ HistSaid(log, t, n + 1) = IF n + 1 \in HistSpeaks(log, t)
                                        THEN Append(HistSaid(log, t, n), n + 1) ELSE HistSaid(log, t, n)
<1>0. n + 1 \in Nat
  OBVIOUS
<1>1. HistPlaces(n) \in Seq(Nat) /\ HistPlaces(n + 1) = Append(HistPlaces(n), n + 1) /\ HistPlaces(0) = <<>>
      /\ n + 1 \in Nat
  BY <1>0, HistPlacesAre, Zenon
<1>2. Select(HistPlaces(n), HistSpeaks(log, t)) \in Seq(Nat)
  BY <1>1, SelectType
<1>3. Select(Append(HistPlaces(n), n + 1), HistSpeaks(log, t))
        = IF n + 1 \in HistSpeaks(log, t)
          THEN Append(Select(HistPlaces(n), HistSpeaks(log, t)), n + 1) ELSE Select(HistPlaces(n), HistSpeaks(log, t))
  <2>1. PICK p, m, S : p = HistPlaces(n) /\ m = n + 1 /\ S = HistSpeaks(log, t)
    OBVIOUS
  <2>2. p \in Seq(Nat) /\ m \in Nat
    BY <1>1, <2>1
  <2>3. Select(Append(p, m), S) = IF m \in S THEN Append(Select(p, S), m) ELSE Select(p, S)
    BY <2>2, SelectAppend, Zenon
  <2> QED
    BY <2>1, <2>3, Zenon
<1> QED
  BY <1>1, <1>2, <1>3, SelectEmpty DEF HistSaid

------------------------------------------------------------------------------
(* A replay of the log after place a, over a base that knows the first k turns,   *)
(* for a history of the turns up to last. The events of a turn that comes after   *)
(* those, the current one, may be in the log.                                     *)
HistOver(log, b, base, k, a, last, current) ==
    /\ HistLogWell(log) /\ base \in Hists /\ HistCanReplay(log, b, base, k, a)
    /\ b \in Nat /\ k \in Nat /\ last \in Nat /\ a \in Int /\ 1 <= b /\ b <= k + 1 /\ k <= last
    /\ \A n \in 1 .. Len(log) : log[n].turn \in 0 .. last \/ log[n].turn = current
    /\ current = 0 \/ current = last + 1

(* The parts of what a replay up to place n has made.                             *)
HistFoldOrder(log, b, base, k, last, h, n) ==
    /\ Len(base.order) <= Len(h.order) /\ \A i \in 1 .. Len(base.order) : h.order[i] = base.order[i]
    /\ \A i \in 1 .. Len(h.order) : h.order[i] \in 1 .. last /\ h.order[i] \in DOMAIN h.turns
    /\ \A i, j \in 1 .. Len(h.order) : h.order[i] = h.order[j] => i = j
    /\ \A i, j \in 1 .. Len(h.order) :
          i < j /\ HistDone(log, b, h.order[i]) /\ HistDone(log, b, h.order[j]) => h.order[i] < h.order[j]
    /\ \A i \in Len(base.order) + 1 .. Len(h.order) :
          IF h.order[i] <= k THEN ~HistDone(log, b, h.order[i]) /\ ~h.turns[h.order[i]].terminal
          ELSE \E j \in 1 .. n : log[j].turn = h.order[i] /\ HistOwn(log[j])
HistFoldNewTurn(log, b, a, h, n, t) ==
    /\ t \in DOMAIN h.turns => HistInOrder(h.order, t)
    /\ \A j \in 1 .. n : j > a /\ log[j].turn = t /\ log[j].kind \notin {"continuation", "started"} => t \in DOMAIN h.turns
    /\ HistOld(h, t).terminal <=> \E e \in 1 .. n : HistEndsAt(log, t, e)
    /\ \A e \in 1 .. n : HistEndsAt(log, t, e) => HistOld(h, t).at = e
    /\ HistDone(log, b, t) => Select(HistOld(h, t).entries, HistPlain(log)) = HistSaid(log, t, n)
    /\ \A m \in HistLate(log, t) : m <= n => m \in ToSet(HistOld(h, t).notes)
HistFoldNew(log, b, k, a, last, h, n) == \A t \in k + 1 .. last : HistFoldNewTurn(log, b, a, h, n, t)
HistFoldOldTurn(log, b, base, a, h, n, i) ==
    LET t == base.order[i] IN
    /\ h.turns[t].terminal
    /\ HistTold(log, b, t) => \A m \in HistLate(log, t) : a < m /\ m <= n => m \in ToSet(h.turns[t].notes)
    /\ i > PrefixCount(base.order, base.cont) =>
          /\ h.turns[t].entries = base.turns[t].entries /\ h.turns[t].at = base.turns[t].at
          /\ ToSet(base.turns[t].notes) \subseteq ToSet(h.turns[t].notes)
HistFoldOld(log, b, base, a, h, n) == \A i \in 1 .. Len(base.order) : HistFoldOldTurn(log, b, base, a, h, n, i)
HistFoldCont(log, b, base, k, a, last, h, n) ==
    /\ HistSumsUp(log, b, h.cont, last, 1 .. a)
    /\ h.cont.frontier > k => \E e \in 1 .. n : HistEndsAt(log, h.cont.frontier, e)
    /\ (\A m \in 1 .. n : m > a => log[m].kind # "continuation") => h.cont.frontier = base.cont.frontier
    /\ \A m \in 1 .. n : m > a /\ log[m].kind = "continuation" /\ (\A j \in m + 1 .. n : log[j].kind # "continuation")
          => h.cont.frontier = log[m].cont.frontier
HistFoldSeen(log, base, a, h, n) ==
    /\ base.through <= h.through /\ h.through <= Len(log)
    /\ \A j \in 1 .. n : j > a /\ log[j].kind # "checkpoint" => j <= h.through
HistFolded(log, b, base, k, a, last, h, n) ==
    /\ h \in Hists
    /\ HistFoldOrder(log, b, base, k, last, h, n) /\ HistTurnsOf(log, b, h, last)
    /\ HistFoldNew(log, b, k, a, last, h, n) /\ HistFoldOld(log, b, base, a, h, n)
    /\ HistFoldCont(log, b, base, k, a, last, h, n) /\ HistFoldSeen(log, base, a, h, n)

LEMMA HistOverIs ==
    ASSUME NEW log, NEW b, NEW base, NEW k, NEW a, NEW last, NEW current,
           HistOver(log, b, base, k, a, last, current)
    PROVE  /\ HistLogWell(log) /\ Len(log) \in Nat /\ base \in Hists
           /\ HistKnows(log, b, base, k, a) /\ HistParts(log, k, a)
           /\ HistSummaries(log, b, a) /\ HistGrows(log, base, k, a)
           /\ b \in Nat /\ k \in Nat /\ last \in Nat /\ a \in Int /\ 1 <= b /\ b <= k + 1 /\ k <= last
           /\ \A n \in 1 .. Len(log) : log[n].kind # "checkpoint" /\ log[n].turn # current => log[n].turn \in 1 .. last
           /\ \A n \in 1 .. Len(log) : log[n].turn \in 0 .. last + 1
           /\ current \notin 1 .. last
<1>1. HistLogWell(log) /\ Len(log) \in Nat /\ last \in Nat
  BY HistLogIs DEF HistOver
<1>2. ASSUME NEW n \in 1 .. Len(log), log[n].kind # "checkpoint", log[n].turn # current PROVE log[n].turn \in 1 .. last
  <2>1. log[n].turn # 0 /\ log[n].turn \in 0 .. last
    BY <1>1, <1>2, HistLogIs DEF HistOver
  <2> QED
    BY <1>1, <2>1
<1>3. ASSUME NEW n \in 1 .. Len(log) PROVE log[n].turn \in 0 .. last + 1
  <2>1. log[n].turn \in 0 .. last \/ log[n].turn = 0 \/ log[n].turn = last + 1
    BY DEF HistOver
  <2> QED
    BY <1>1, <2>1
<1>4. current \notin 1 .. last
  BY <1>1 DEF HistOver
<1>5. /\ base \in Hists /\ HistCanReplay(log, b, base, k, a)
      /\ b \in Nat /\ k \in Nat /\ a \in Int /\ 1 <= b /\ b <= k + 1 /\ k <= last
  BY DEF HistOver
<1> QED
  BY <1>1, <1>2, <1>3, <1>4, <1>5 DEF HistCanReplay

(* What the events after place a are about.                                       *)
LEMMA HistIsNew ==
    ASSUME NEW log, HistLogWell(log), NEW k \in Nat, NEW a \in Int, HistParts(log, k, a),
           NEW n \in 1 .. Len(log), log[n].turn > k, log[n].kind \notin {"handoff", "checkpoint"}
    PROVE  n > a
<1>1. Len(log) \in Nat /\ \A j \in 1 .. Len(log) : log[j].turn \in Nat
  BY HistLogIs
<1>2. CASE HistOwn(log[n])
  BY <1>1, <1>2 DEF HistParts
<1>3. CASE ~HistOwn(log[n])
  <2>1. log[n].kind = "note"
    BY <1>3 DEF HistOwn
  <2>2. PICK j \in 1 .. n : j # n /\ log[j].kind = "entry" /\ log[j].turn = log[n].turn /\ HistOwn(log[j])
    BY <2>1, HistNotedIsTold
  <2>3. j \in 1 .. Len(log) /\ j < n
    BY <1>1, <2>2
  <2>4. j > a
    BY <1>1, <2>2, <2>3 DEF HistParts
  <2> QED
    BY <1>1, <2>3, <2>4
<1> QED
  BY <1>2, <1>3

LEMMA HistIsOld ==
    ASSUME NEW log, HistLogWell(log), NEW k \in Nat, NEW a \in Int, HistParts(log, k, a),
           NEW n \in 1 .. Len(log), n > a, log[n].turn \in 1 .. k
    PROVE  log[n].kind = "note"
<1>1. Len(log) \in Nat /\ log[n].kind # "checkpoint"
  BY HistLogIs
<1>2. ~HistOwn(log[n])
  BY <1>1 DEF HistParts
<1> QED
  BY <1>1, <1>2 DEF HistOwn

(* The order and the turns when nothing is read.                                  *)
LEMMA HistFoldsBy ==
    ASSUME NEW log, NEW b, NEW base, NEW k, NEW a, NEW last, NEW current,
           HistOver(log, b, base, k, a, last, current),
           NEW n \in 1 .. Len(log), ~(n > a /\ log[n].kind # "checkpoint" /\ HistReads(log[n], current)),
           NEW h, HistFolded(log, b, base, k, a, last, h, n - 1),
           NEW r, r.order = h.order, r.turns = h.turns
    PROVE  /\ HistFoldOrder(log, b, base, k, last, r, n) /\ HistTurnsOf(log, b, r, last)
           /\ HistFoldNew(log, b, k, a, last, r, n) /\ HistFoldOld(log, b, base, a, r, n)
<1>1. /\ HistLogWell(log) /\ Len(log) \in Nat /\ k \in Nat /\ last \in Nat /\ a \in Int /\ k <= last
      /\ HistParts(log, k, a) /\ current \notin 1 .. last
  BY HistOverIs
<1>2. /\ \A j \in 1 .. n - 1 : j \in 1 .. n /\ j \in 1 .. Len(log)
      /\ \A j \in 1 .. n : j = n \/ j \in 1 .. n - 1
      /\ n - 1 \in Nat /\ (n - 1) + 1 = n
      /\ \A m \in Nat : m <= n => m = n \/ m <= n - 1
  BY <1>1
<1>3. \A t : HistOld(r, t) = HistOld(h, t)
  BY DEF HistOld
<1>4. HistFoldOrder(log, b, base, k, last, r, n)
  <2>1. HistFoldOrder(log, b, base, k, last, h, n - 1)
    BY DEF HistFolded
  <2> QED
    BY <1>2, <2>1 DEF HistFoldOrder
<1>5. HistTurnsOf(log, b, r, last)
  BY DEF HistFolded, HistTurnsOf
(* The event says nothing of the turns that are read.                             *)
<1>6. ASSUME NEW t \in 1 .. last, log[n].turn = t
      PROVE  n <= a \/ log[n].kind \in {"continuation", "started"}
  <2>1. log[n].kind # "checkpoint"
    BY <1>1, <1>6, HistLogIs
  <2>2. n <= a \/ ~HistReads(log[n], current)
    BY <1>1, <2>1
  <2> QED
    BY <1>1, <1>6, <2>2 DEF HistReads
<1>7. ASSUME NEW t \in k + 1 .. last, log[n].turn = t
      PROVE  log[n].kind \in {"continuation", "started", "handoff"}
  <2>1. t \in 1 .. last /\ log[n].turn > k /\ log[n].kind # "checkpoint"
    BY <1>1, <1>7, HistLogIs
  <2>2. CASE n <= a
    BY <1>1, <2>1, <2>2, HistIsNew
  <2> QED
    BY <1>6, <1>7, <2>1, <2>2
<1>8. ASSUME NEW t \in k + 1 .. last PROVE HistFoldNewTurn(log, b, a, r, n, t)
  <2>1. HistFoldNewTurn(log, b, a, h, n - 1, t)
    BY <1>8 DEF HistFolded, HistFoldNew
  <2>2. ~HistEndsAt(log, t, n)
    BY <1>7, <1>8 DEF HistEndsAt, EndKinds
  <2>3. n \notin HistSpeaks(log, t) /\ n \notin HistLate(log, t)
    BY <1>1, <1>7, <1>8, HistSpeaksIs, SMTT(60)
  <2>4. HistSaid(log, t, n) = HistSaid(log, t, n - 1)
    BY <1>2, <2>3, HistSaidNext
  <2>5. /\ (\E e \in 1 .. n : HistEndsAt(log, t, e)) <=> \E e \in 1 .. n - 1 : HistEndsAt(log, t, e)
        /\ (\A e \in 1 .. n : HistEndsAt(log, t, e) => HistOld(r, t).at = e)
    BY <1>2, <1>3, <2>1, <2>2 DEF HistFoldNewTurn
  <2>6. \A m \in HistLate(log, t) : m <= n => m <= n - 1
    <3>1. \A m \in HistLate(log, t) : m \in Nat /\ m # n
      BY <2>3 DEF HistLate
    <3> QED
      BY <1>2, <3>1
  <2>7. \A j \in 1 .. n : j > a /\ log[j].turn = t /\ log[j].kind \notin {"continuation", "started"} => t \in DOMAIN r.turns
    <3> SUFFICES ASSUME NEW j \in 1 .. n, j > a, log[j].turn = t, log[j].kind \notin {"continuation", "started"}
                 PROVE  t \in DOMAIN r.turns
      OBVIOUS
    <3>1. t \in 1 .. last
      BY <1>1, <1>8
    <3>2. j # n
      BY <1>1, <1>6, <3>1
    <3>3. j \in 1 .. n - 1
      BY <1>2, <3>2
    <3> QED
      BY <2>1, <3>3 DEF HistFoldNewTurn
  <2> QED
    BY <1>3, <2>1, <2>4, <2>5, <2>6, <2>7 DEF HistFoldNewTurn
<1>9. ASSUME NEW i \in 1 .. Len(base.order) PROVE HistFoldOldTurn(log, b, base, a, r, n, i)
  <2>1. HistFoldOldTurn(log, b, base, a, h, n - 1, i)
    BY <1>9 DEF HistFolded, HistFoldOld
  <2> DEFINE t == base.order[i]
  <2>2. t \in 1 .. last
    <3>1. t \in 1 .. k
      BY <1>9, HistOverIs DEF HistKnows, HistOrders
    <3> QED
      BY <1>1, <3>1, SMTT(60)
  <2> HIDE DEF t
  <2>3. ASSUME NEW m \in HistLate(log, t), a < m, m <= n PROVE m <= n - 1
    <3>1. m \in 1 .. Len(log) /\ log[m].turn = t /\ log[m].kind = "note" /\ m \in Nat
      BY DEF HistLate
    <3>2. m # n
      BY <1>1, <1>6, <2>2, <2>3, <3>1, SMTT(60)
    <3> QED
      BY <1>2, <2>3, <3>1, <3>2
  <2> QED
    BY <2>1, <2>3 DEF HistFoldOldTurn, t
<1> QED
  BY <1>4, <1>5, <1>8, <1>9 DEF HistFoldNew, HistFoldOld

(* A summary of fewer turns, of which less is known.                              *)
LEMMA HistSumsUpLess ==
    ASSUME NEW log, NEW b, NEW cont, NEW j \in Int, NEW N, HistSumsUp(log, b, cont, j, N), NEW k \in Int, j <= k,
           NEW M, \A t \in 1 .. j : HistLate(log, t) \cap M \subseteq N
    PROVE  HistSumsUp(log, b, cont, k, M)
<1> SUFFICES ASSUME cont # NoSummary PROVE HistSumsUp(log, b, cont, k, M)
  BY DEF HistSumsUp
<1>1. /\ HistDone(log, b, cont.frontier) /\ cont.frontier \in 1 .. j
      /\ \A n \in cont.covers : n \in 1 .. Len(log) /\ log[n].turn \in 1 .. j
                                /\ HistDone(log, b, log[n].turn) => log[n].turn <= cont.frontier
      /\ \A t \in 1 .. cont.frontier : HistTold(log, b, t) =>
            HistSpeaks(log, t) \subseteq cont.covers /\ HistLate(log, t) \cap N \subseteq cont.covers
  BY DEF HistSumsUp
<1>2. 1 .. j \subseteq 1 .. k /\ \A t \in 1 .. cont.frontier : t \in 1 .. j
  BY <1>1
<1>3. \A t \in 1 .. cont.frontier : HistTold(log, b, t) => HistLate(log, t) \cap M \subseteq cont.covers
  BY <1>1, <1>2
<1> QED
  BY <1>1, <1>2, <1>3 DEF HistSumsUp

LEMMA HistContBy ==
    ASSUME NEW log, NEW b, NEW base, NEW k, NEW a, NEW last, NEW current,
           HistOver(log, b, base, k, a, last, current),
           NEW n \in 1 .. Len(log), ~(n > a /\ log[n].kind = "continuation"),
           NEW h, HistFoldCont(log, b, base, k, a, last, h, n - 1), NEW r, r.cont = h.cont
    PROVE  HistFoldCont(log, b, base, k, a, last, r, n)
<1>1. Len(log) \in Nat /\ a \in Int
  BY HistOverIs
<1>2. /\ \A j \in 1 .. n - 1 : j \in 1 .. n
      /\ \A j \in 1 .. n : j = n \/ j \in 1 .. n - 1
      /\ \A m \in 1 .. n - 1 : \A j \in m + 1 .. n - 1 : j \in m + 1 .. n
  BY <1>1
<1> QED
  BY <1>2 DEF HistFoldCont

(* What came before a turn that began after place a.                              *)
LEMMA HistBeforeIs ==
    ASSUME NEW log, HistLogWell(log), NEW k \in Nat, NEW a \in Int, HistParts(log, k, a),
           NEW ct \in Nat, ct > k, NEW m \in 1 .. Len(log), m <= a, log[m].kind = "note"
    PROVE  log[m].turn # ct => m \in HistBefore(log, ct)
<1> SUFFICES ASSUME log[m].turn # ct, NEW j \in 1 .. Len(log), log[j].turn = ct PROVE m < j
  BY DEF HistBefore
<1>1. Len(log) \in Nat /\ ct # 0
  BY HistLogIs
<1>2. CASE log[j].kind = "handoff"
  <2>1. j >= a /\ j # m
    BY <1>1, <1>2 DEF HistParts, HistOwn
  <2> QED
    BY <1>1, <2>1
<1>3. CASE log[j].kind # "handoff"
  <2>1. log[j].kind # "checkpoint"
    BY <1>1, HistLogIs
  <2>2. j > a
    BY <1>3, <2>1, HistIsNew
  <2> QED
    BY <1>1, <2>2
<1> QED
  BY <1>2, <1>3

LEMMA HistContNext ==
    ASSUME NEW log, NEW b, NEW base, NEW k, NEW a, NEW last, NEW current,
           HistOver(log, b, base, k, a, last, current),
           NEW n \in 1 .. Len(log), n > a, log[n].kind = "continuation",
           NEW r, r.cont = log[n].cont
    PROVE  HistFoldCont(log, b, base, k, a, last, r, n)
<1>1. /\ HistLogWell(log) /\ Len(log) \in Nat /\ k \in Nat /\ last \in Nat /\ a \in Int /\ k <= last
      /\ HistParts(log, k, a) /\ HistSummaries(log, b, a) /\ log[n].turn \in 0 .. last + 1
  BY HistOverIs
<1> DEFINE ct == log[n].turn
           c == log[n].cont
<1>2. HistOwn(log[n]) /\ ct > k /\ ct \in Nat
  <2>1. HistOwn(log[n])
    BY DEF HistOwn
  <2>2. ~(ct <= k)
    BY <1>1, <2>1 DEF HistParts
  <2> QED
    BY <1>1, <2>1, <2>2
<1>3. HistSumsUp(log, b, c, ct - 1, HistBefore(log, ct)) /\ c # NoSummary
  BY <1>1 DEF HistSummaries
<1>4. HistSumsUp(log, b, c, last, 1 .. a)
  <2>1. ASSUME NEW t \in 1 .. ct - 1 PROVE HistLate(log, t) \cap (1 .. a) \subseteq HistBefore(log, ct)
    <3> SUFFICES ASSUME NEW m \in HistLate(log, t), m <= a PROVE m \in HistBefore(log, ct)
      OBVIOUS
    <3>1. m \in 1 .. Len(log) /\ log[m].turn = t /\ log[m].kind = "note"
      BY DEF HistLate
    <3>2. t # ct
      BY <1>2
    <3> QED
      BY <1>1, <1>2, <3>1, <3>2, HistBeforeIs
  <2>2. ct - 1 \in Int /\ ct - 1 <= last
    BY <1>1
  <2> HIDE DEF ct, c
  <2> QED
    BY <1>1, <1>3, <2>1, <2>2, HistSumsUpLess, SMTT(60)
<1>5. \E e \in 1 .. n : HistEndsAt(log, c.frontier, e)
  <2>1. HistDone(log, b, c.frontier) /\ c.frontier \in 1 .. ct - 1
    BY <1>3 DEF HistSumsUp
  <2>2. PICK e : HistEndsAt(log, c.frontier, e)
    BY <2>1, HistEndedAt DEF HistDone
  <2>3. c.frontier < ct
    BY <1>2, <2>1
  <2>4. e < n /\ e \in 1 .. Len(log)
    BY <1>1, <1>2, <2>2, <2>3, HistEndsFirst, HistEndIs
  <2> QED
    BY <1>1, <2>2, <2>4
<1>6. \A m \in 1 .. n : m = n \/ n \in m + 1 .. n
  BY <1>1
<1>7. n \in 1 .. n
  BY <1>1
<1> QED
  BY <1>4, <1>5, <1>6, <1>7 DEF HistFoldCont

(* The turns of the prefix are no later than its frontier, if they ended.         *)
LEMMA HistPrefixIs ==
    ASSUME NEW log, NEW b, NEW order \in Seq(Nat), NEW c \in HistConts,
           \A i, j \in 1 .. Len(order) :
               i < j /\ HistDone(log, b, order[i]) /\ HistDone(log, b, order[j]) => order[i] < order[j],
           c = NoSummary \/ HistDone(log, b, c.frontier), \A i \in 1 .. Len(order) : order[i] # 0
    PROVE  /\ \A t \in PrefixTurns(order, c) : HistDone(log, b, t) => t <= c.frontier
           /\ PrefixTurns(order, c) # {} => HistInOrder(order, c.frontier) /\ c # NoSummary
           /\ HistInOrder(order, c.frontier) => c # NoSummary /\
                 \A t \in Nat : HistInOrder(order, t) /\ HistDone(log, b, t) =>
                    (t \in PrefixTurns(order, c) <=> t <= c.frontier)
<1> DEFINE p == PrefixCount(order, c)
<1>1. /\ p \in 0 .. Len(order) /\ Len(order) \in Nat
      /\ \A i \in 1 .. Len(order) : order[i] \in Nat
      /\ IF HistInOrder(order, c.frontier) THEN p \in 1 .. Len(order) /\ order[p] = c.frontier ELSE p = 0
      /\ \A t : t \in PrefixTurns(order, c) <=> \E i \in 1 .. p : order[i] = t
  BY HistPrefix
<1> HIDE DEF p
<1>2. HistInOrder(order, c.frontier) => c # NoSummary /\ HistDone(log, b, c.frontier)
  <2>1. c = NoSummary => c.frontier = 0
    BY DEF NoSummary
  <2> QED
    BY <2>1 DEF HistInOrder
<1>3. PrefixTurns(order, c) # {} => HistInOrder(order, c.frontier)
  <2> SUFFICES ASSUME NEW t \in PrefixTurns(order, c), ~HistInOrder(order, c.frontier) PROVE FALSE
    OBVIOUS
  <2>1. p = 0 /\ \E i \in 1 .. p : TRUE
    BY <1>1
  <2> QED
    BY <2>1
<1>4. ASSUME HistInOrder(order, c.frontier), NEW i \in 1 .. Len(order), HistDone(log, b, order[i])
      PROVE  IF i <= p THEN order[i] <= c.frontier ELSE c.frontier < order[i]
  <2>1. p \in 1 .. Len(order) /\ order[p] = c.frontier /\ HistDone(log, b, order[p])
    BY <1>1, <1>2, <1>4
  <2>2. i < p => order[i] < order[p]
    BY <1>4, <2>1
  <2>3. p < i => order[p] < order[i]
    BY <1>4, <2>1
  <2>4. order[i] \in Nat /\ order[p] \in Nat
    BY <1>1, <2>1
  <2> QED
    BY <1>1, <2>1, <2>2, <2>3, <2>4
<1>5. \A t \in PrefixTurns(order, c) : HistDone(log, b, t) => t <= c.frontier
  <2> SUFFICES ASSUME NEW t \in PrefixTurns(order, c), HistDone(log, b, t) PROVE t <= c.frontier
    OBVIOUS
  <2>1. PICK i \in 1 .. p : order[i] = t
    BY <1>1
  <2>2. i \in 1 .. Len(order) /\ i <= p
    BY <1>1
  <2> QED
    BY <1>3, <1>4, <2>1, <2>2
<1>6. ASSUME HistInOrder(order, c.frontier), NEW t \in Nat, HistInOrder(order, t), HistDone(log, b, t), t <= c.frontier
      PROVE  t \in PrefixTurns(order, c)
  <2>1. PICK i \in 1 .. Len(order) : order[i] = t
    BY <1>6 DEF HistInOrder
  <2>2. p \in 1 .. Len(order) /\ c.frontier \in Nat
    BY <1>1, <1>6 DEF HistConts
  <2>3. i <= p
    BY <1>4, <1>6, <2>1, <2>2, SMTT(60)
  <2>4. i \in 1 .. p
    BY <1>1, <2>3
  <2> QED
    BY <1>1, <2>1, <2>4
<1> QED
  BY <1>2, <1>3, <1>5, <1>6

(* What an event that is read makes of its turn.                                  *)
HistAfterSays(e, n, o, q, swallowed) ==
    /\ o.entries \in Seq(Nat) /\ o.notes \in Seq(Nat)
    /\ q.terminal <=> o.terminal \/ e.kind \in EndKinds
    /\ q.at = IF e.kind \in EndKinds THEN n ELSE o.at
    /\ q.entries = IF e.kind \in {"entry", "handoff"} \/ (e.kind = "note" /\ ~swallowed /\ ~o.terminal)
                   THEN Append(o.entries, n) ELSE o.entries
    /\ q.notes = IF e.kind \in {"handoff", "note"} THEN Append(o.notes, n) ELSE o.notes
    /\ ToSet(q.notes) = IF e.kind \in {"handoff", "note"} THEN ToSet(o.notes) \cup {n} ELSE ToSet(o.notes)
    /\ ToSet(q.entries) \subseteq ToSet(o.entries) \cup {n}

LEMMA HistAfterIs ==
    ASSUME NEW h \in Hists, NEW e \in HistEvents, e.kind \notin {"checkpoint", "continuation", "started"}, NEW n \in Nat
    PROVE  HistAfterSays(e, n, HistOld(h, e.turn), HistTurnAfter(h, e, n), HistSwallows(h, e.turn))
<1> DEFINE o == HistOld(h, e.turn)
           q == HistTurnAfter(h, e, n)
<1>1. e.kind \in HistKinds /\ e.turn \in Nat
  BY DEF HistEvents
<1>2. o \in HistTurnRecs
  BY <1>1, HistEnsures
<1>3. PICK en \in Seq(Nat), ns \in Seq(Nat), te \in BOOLEAN, at \in Nat, f \in BOOLEAN : o = HistTurnRec(en, ns, te, at, f)
  <2> HIDE DEF o
  <2>1. /\ o = HistTurnRec(o.entries, o.notes, o.terminal, o.at, o.failed)
        /\ o.entries \in Seq(Nat) /\ o.notes \in Seq(Nat) /\ o.terminal \in BOOLEAN /\ o.at \in Nat
        /\ o.failed \in BOOLEAN
    BY <1>2, HistTurnRecTyped
  <2> QED
    BY <2>1, Zenon
<1>4. o.entries = en /\ o.notes = ns /\ o.terminal = te /\ o.at = at /\ o.failed = f
  BY <1>3, HistTurnRecIs
<1> DEFINE Adds == e.kind \in {"entry", "handoff"} \/ (e.kind = "note" /\ ~HistSwallows(h, e.turn) /\ ~te)
           Ends == e.kind \in EndKinds
           en2 == IF Adds THEN Append(en, n) ELSE en
           ns2 == IF e.kind \in {"handoff", "note"} THEN Append(ns, n) ELSE ns
           at2 == IF Ends THEN n ELSE at
           te2 == IF Ends THEN TRUE ELSE te
           f2 == IF Ends THEN e.kind = "error" ELSE f
<1>5. q = HistTurnRec(en2, ns2, te2, at2, f2)
  <2>1. Ends <=> e.kind \notin {"entry", "handoff", "note", "pruned"}
    BY <1>1 DEF EndKinds, HistKinds
  <2>2. CASE e.kind = "entry"
    <3>1. en2 = Append(en, n) /\ ns2 = ns /\ te2 = te /\ at2 = at /\ f2 = f
      BY <2>1, <2>2
    <3>2. q = HistTurnRec(Append(en, n), ns, te, at, f)
      BY <1>4, <2>2 DEF HistTurnAfter
    <3> QED
      BY <3>1, <3>2, Zenon
  <2>3. CASE e.kind = "handoff"
    <3>1. en2 = Append(en, n) /\ ns2 = Append(ns, n) /\ te2 = te /\ at2 = at /\ f2 = f
      BY <2>1, <2>3
    <3>2. q = HistTurnRec(Append(en, n), Append(ns, n), te, at, f)
      BY <1>4, <2>3 DEF HistTurnAfter
    <3> QED
      BY <3>1, <3>2, Zenon
  <2>4. CASE e.kind = "note" /\ (HistSwallows(h, e.turn) \/ te)
    <3>1. en2 = en /\ ns2 = Append(ns, n) /\ te2 = te /\ at2 = at /\ f2 = f
      BY <2>1, <2>4
    <3>2. q = HistTurnRec(en, Append(ns, n), te, at, f)
      BY <1>4, <2>4 DEF HistTurnAfter
    <3> QED
      BY <3>1, <3>2, Zenon
  <2>5. CASE e.kind = "note" /\ ~(HistSwallows(h, e.turn) \/ te)
    <3>1. en2 = Append(en, n) /\ ns2 = Append(ns, n) /\ te2 = te /\ at2 = at /\ f2 = f
      BY <2>1, <2>5
    <3>2. q = HistTurnRec(Append(en, n), Append(ns, n), te, at, f)
      BY <1>4, <2>5 DEF HistTurnAfter
    <3> QED
      BY <3>1, <3>2, Zenon
  <2>6. CASE e.kind = "pruned"
    <3>1. en2 = en /\ ns2 = ns /\ te2 = te /\ at2 = at /\ f2 = f
      BY <2>1, <2>6
    <3>2. q = HistTurnRec(en, ns, te, at, f)
      BY <1>3, <2>6 DEF HistTurnAfter
    <3> QED
      BY <3>1, <3>2, Zenon
  <2>7. CASE Ends
    <3>1. en2 = en /\ ns2 = ns /\ te2 = TRUE /\ at2 = n /\ f2 = (e.kind = "error")
      BY <2>1, <2>7
    <3>2. q = HistTurnRec(en, ns, TRUE, n, e.kind = "error")
      BY <1>4, <2>1, <2>7 DEF HistTurnAfter
    <3> QED
      BY <3>1, <3>2, Zenon
  <2> QED
    BY <2>1, <2>2, <2>3, <2>4, <2>5, <2>6, <2>7
<1>6. q.entries = en2 /\ q.notes = ns2 /\ q.terminal = te2 /\ q.at = at2
  <2> HIDE DEF q, en2, ns2, te2, at2, f2
  <2> QED
    BY <1>5, HistTurnRecIs
<1>7. \A s \in Seq(Nat) : ToSet(Append(s, n)) = ToSet(s) \cup {n}
  <2> SUFFICES ASSUME NEW s \in Seq(Nat) PROVE ToSet(Append(s, n)) = ToSet(s) \cup {n}
    OBVIOUS
  <2>1. /\ Len(s) \in Nat /\ DOMAIN s = 1 .. Len(s) /\ DOMAIN Append(s, n) = 1 .. Len(s) + 1
        /\ (\A i \in 1 .. Len(s) : Append(s, n)[i] = s[i]) /\ Append(s, n)[Len(s) + 1] = n
    BY AppendProperties, LenProperties
  <2>2. \A i : i \in 1 .. Len(s) + 1 <=> i \in 1 .. Len(s) \/ i = Len(s) + 1
    BY <2>1
  <2> QED
    BY <2>1, <2>2 DEF ToSet
<1>8. ToSet(ns2) = IF e.kind \in {"handoff", "note"} THEN ToSet(ns) \cup {n} ELSE ToSet(ns)
  BY <1>7
<1>9. ToSet(en2) \subseteq ToSet(en) \cup {n}
  BY <1>7
<1> HIDE DEF o, q
<1>10. (q.terminal <=> o.terminal \/ e.kind \in EndKinds) /\ q.at = IF e.kind \in EndKinds THEN n ELSE o.at
  BY <1>4, <1>6
<1>11. q.entries = IF e.kind \in {"entry", "handoff"} \/ (e.kind = "note" /\ ~HistSwallows(h, e.turn) /\ ~o.terminal)
                   THEN Append(o.entries, n) ELSE o.entries
  BY <1>4, <1>6
<1>12. q.notes = IF e.kind \in {"handoff", "note"} THEN Append(o.notes, n) ELSE o.notes
  BY <1>4, <1>6
<1>13. ToSet(q.notes) = IF e.kind \in {"handoff", "note"} THEN ToSet(o.notes) \cup {n} ELSE ToSet(o.notes)
  BY <1>4, <1>6, <1>8
<1>14. ToSet(q.entries) \subseteq ToSet(o.entries) \cup {n}
  BY <1>4, <1>6, <1>9
<1> QED
  BY <1>4, <1>10, <1>11, <1>12, <1>13, <1>14 DEF o, q, HistAfterSays

(* An event is read.                                                              *)
HistReadsAt(log, b, base, k, a, last, current, n, h) ==
    /\ HistOver(log, b, base, k, a, last, current) /\ n \in 1 .. Len(log)
    /\ n > a /\ log[n].kind # "checkpoint" /\ HistReads(log[n], current)
    /\ HistFolded(log, b, base, k, a, last, h, n - 1)

HistReadSays(log, base, k, a, last, n, h, t, r) ==
    /\ HistLogWell(log) /\ Len(log) \in Nat /\ k \in Nat /\ last \in Nat /\ a \in Int /\ k <= last
    /\ HistParts(log, k, a) /\ n \in 1 .. Len(log) /\ n \in Nat /\ n > a /\ h \in Hists /\ base \in Hists
    /\ t \in 1 .. last /\ (t <= k => log[n].kind = "note")
    /\ log[n] \in HistEvents /\ log[n].kind \notin {"checkpoint", "continuation", "started"}
    /\ r \in Hists /\ r.through = HistSeen(h, n) /\ r.order = HistOrderWith(h, t) /\ r.cont = HistContAfter(h, log[n], n)
    /\ DOMAIN r.turns = DOMAIN h.turns \cup {t} /\ r.turns[t] = HistTurnAfter(h, log[n], n)
    /\ \A u \in DOMAIN h.turns \ {t} : r.turns[u] = h.turns[u]

LEMMA HistReadIs ==
    ASSUME NEW log, NEW b, NEW base, NEW k, NEW a, NEW last, NEW current, NEW n, NEW h,
           HistReadsAt(log, b, base, k, a, last, current, n, h)
    PROVE  HistReadSays(log, base, k, a, last, n, h, log[n].turn, ReplayEvent(h, log[n], n, current))
<1>1. /\ HistLogWell(log) /\ Len(log) \in Nat /\ k \in Nat /\ last \in Nat /\ a \in Int /\ k <= last
      /\ HistParts(log, k, a) /\ n \in 1 .. Len(log) /\ n > a /\ h \in Hists /\ base \in Hists
  BY HistOverIs DEF HistReadsAt, HistFolded
<1>2. /\ log[n] \in HistEvents /\ log[n].kind \notin {"checkpoint", "continuation", "started"}
  BY <1>1, HistLogIs DEF HistReadsAt, HistReads
<1>3. log[n].turn \in 1 .. last
  BY HistOverIs DEF HistReadsAt, HistReads
<1>4. log[n].turn <= k => log[n].kind = "note"
  <2>1. log[n].turn <= k => log[n].turn \in 1 .. k
    BY <1>1, <1>3
  <2> QED
    BY <1>1, <2>1, HistIsOld
<1>5. n \in Nat
  BY <1>1
<1>6. HistReads(log[n], current)
  BY DEF HistReadsAt
<1> PICK e : e = log[n]
  OBVIOUS
<1> DEFINE r == ReplayEvent(h, e, n, current)
<1>7. /\ r \in Hists /\ r.through = HistSeen(h, n) /\ r.order = HistOrderWith(h, e.turn) /\ r.cont = HistContAfter(h, e, n)
      /\ DOMAIN r.turns = DOMAIN h.turns \cup {e.turn} /\ r.turns[e.turn] = HistTurnAfter(h, e, n)
      /\ \A u \in DOMAIN h.turns \ {e.turn} : r.turns[u] = h.turns[u]
  <2>1. e \in HistEvents /\ e.kind # "checkpoint" /\ HistReads(e, current) /\ h \in Hists /\ n \in Nat
    BY <1>1, <1>2, <1>5, <1>6
  <2> QED
    BY <2>1, HistReplayIs
<1> HIDE DEF r
<1>8. r = ReplayEvent(h, log[n], n, current)
  BY DEF r
<1> QED
  BY <1>1, <1>2, <1>3, <1>4, <1>5, <1>7, <1>8 DEF HistReadSays

(* A turn that an event is not about.                                             *)
LEMMA HistFoldNewSame ==
    ASSUME NEW log, NEW b, NEW a, NEW n \in 1 .. Len(log), NEW t, NEW h, NEW r, Len(log) \in Nat,
           HistFoldNewTurn(log, b, a, h, n - 1, t), log[n].turn # t,
           HistOld(r, t) = HistOld(h, t), t \in DOMAIN r.turns <=> t \in DOMAIN h.turns,
           HistInOrder(h.order, t) => HistInOrder(r.order, t)
    PROVE  HistFoldNewTurn(log, b, a, r, n, t)
<1>1. /\ \A j \in 1 .. n - 1 : j \in 1 .. n
      /\ \A j \in 1 .. n : j = n \/ j \in 1 .. n - 1
      /\ n - 1 \in Nat /\ (n - 1) + 1 = n
  OBVIOUS
<1>2. ~HistEndsAt(log, t, n) /\ n \notin HistSpeaks(log, t)
  BY DEF HistEndsAt, HistSpeaks
<1>3. HistSaid(log, t, n) = HistSaid(log, t, n - 1)
  BY <1>1, <1>2, HistSaidNext
<1>4. \A m \in HistLate(log, t) : m <= n => m <= n - 1
  <2>1. \A m \in HistLate(log, t) : m \in Nat /\ m # n
    BY DEF HistLate
  <2> QED
    BY <2>1
<1>5. /\ (\E e \in 1 .. n : HistEndsAt(log, t, e)) <=> \E e \in 1 .. n - 1 : HistEndsAt(log, t, e)
      /\ (\A e \in 1 .. n : HistEndsAt(log, t, e) => HistOld(r, t).at = e)
  BY <1>1, <1>2 DEF HistFoldNewTurn
<1>6. \A j \in 1 .. n : j > a /\ log[j].turn = t /\ log[j].kind \notin {"continuation", "started"} => t \in DOMAIN r.turns
  BY <1>1 DEF HistFoldNewTurn
<1> QED
  BY <1>3, <1>4, <1>5, <1>6 DEF HistFoldNewTurn

(* The turns that are in the order of the base are in every order.                *)
LEMMA HistReadOrder ==
    ASSUME NEW log, NEW b, NEW base, NEW k, NEW a, NEW last, NEW current, NEW n, NEW h,
           HistReadsAt(log, b, base, k, a, last, current, n, h)
    PROVE  HistFoldOrder(log, b, base, k, last, ReplayEvent(h, log[n], n, current), n)
<1> DEFINE t == log[n].turn
           r == ReplayEvent(h, log[n], n, current)
<1>1. /\ HistLogWell(log) /\ Len(log) \in Nat /\ k \in Nat /\ last \in Nat /\ a \in Int /\ k <= last
      /\ HistParts(log, k, a) /\ n \in 1 .. Len(log) /\ n \in Nat /\ n > a /\ h \in Hists /\ base \in Hists
      /\ t \in 1 .. last /\ (t <= k => log[n].kind = "note")
      /\ log[n] \in HistEvents /\ log[n].kind \notin {"checkpoint", "continuation", "started"}
      /\ r.order = HistOrderWith(h, t)
      /\ DOMAIN r.turns = DOMAIN h.turns \cup {t} /\ r.turns[t] = HistTurnAfter(h, log[n], n)
      /\ \A u \in DOMAIN h.turns \ {t} : r.turns[u] = h.turns[u]
  BY HistReadIs DEF HistReadSays
<1>2. HistFoldOrder(log, b, base, k, last, h, n - 1) /\ HistFoldNew(log, b, k, a, last, h, n - 1)
  BY DEF HistReadsAt, HistFolded
<1>3. t <= k => r.turns[t].terminal = HistOld(h, t).terminal
  <2> PICK e : e = log[n]
    OBVIOUS
  <2>4. e \in HistEvents /\ e.kind \notin {"checkpoint", "continuation", "started"} /\ h \in Hists /\ n \in Nat
        /\ t = e.turn /\ t \in Nat /\ r.turns[t] = HistTurnAfter(h, e, n)
    BY <1>1
  <2> HIDE DEF r, t
  <2>5. HistTurnAfter(h, e, n).terminal <=> HistOld(h, e.turn).terminal \/ e.kind \in EndKinds
    BY <2>4, HistAfterIs DEF HistAfterSays
  <2>1. r.turns[t].terminal <=> HistOld(h, t).terminal \/ log[n].kind \in EndKinds
    BY <2>4, <2>5
  <2>2. HistOld(h, t).terminal \in BOOLEAN /\ r.turns[t].terminal \in BOOLEAN
    <3>1. HistOld(h, t) \in HistTurnRecs
      BY <2>4, HistEnsures
    <3>2. r \in Hists
      BY HistReadIs DEF HistReadSays, r
    <3>3. r.turns[t] \in HistTurnRecs
      BY <1>1, <3>2, HistsAre, HistMapsAre
    <3> QED
      BY <3>1, <3>3, HistTurnRecTyped
  <2>3. t <= k => log[n].kind \notin EndKinds
    BY <1>1 DEF EndKinds
  <2> QED
    BY <2>1, <2>2, <2>3
<1> SUFFICES HistFoldOrder(log, b, base, k, last, r, n)
  OBVIOUS
<1> HIDE DEF r, t
<1>4. /\ h.order \in Seq(Nat) /\ Len(h.order) \in Nat /\ t \in Nat /\ Len(base.order) \in Nat
      /\ Len(base.order) <= Len(h.order)
  BY <1>1, <1>2, HistsAre, LenProperties DEF HistFoldOrder
<1>5. \A j \in 1 .. n - 1 : j \in 1 .. n /\ j \in 1 .. Len(log)
  BY <1>1
<1>6. CASE t \in DOMAIN h.turns
  <2>1. r.order = h.order
    BY <1>1, <1>6 DEF HistOrderWith
  <2>2. HistOld(h, t) = h.turns[t]
    BY <1>6 DEF HistOld
  <2>3. ASSUME NEW i \in Len(base.order) + 1 .. Len(h.order)
        PROVE  IF h.order[i] <= k THEN ~HistDone(log, b, h.order[i]) /\ ~r.turns[h.order[i]].terminal
               ELSE \E j \in 1 .. n : log[j].turn = h.order[i] /\ HistOwn(log[j])
    <3>1. i \in 1 .. Len(h.order)
      BY <1>4
    <3>2. h.order[i] \in DOMAIN h.turns
      BY <1>2, <3>1 DEF HistFoldOrder
    <3>3. h.order[i] <= k => r.turns[h.order[i]].terminal = h.turns[h.order[i]].terminal
      BY <1>1, <1>3, <2>2, <3>2
    <3> QED
      BY <1>2, <1>5, <3>3 DEF HistFoldOrder
  <2>4. \A i \in 1 .. Len(h.order) : h.order[i] \in 1 .. last /\ h.order[i] \in DOMAIN r.turns
    BY <1>1, <1>2 DEF HistFoldOrder
  <2>5. /\ Len(base.order) <= Len(r.order) /\ \A i \in 1 .. Len(base.order) : r.order[i] = base.order[i]
        /\ \A i, j \in 1 .. Len(r.order) : r.order[i] = r.order[j] => i = j
    BY <1>2, <2>1 DEF HistFoldOrder
  <2>6. \A i, j \in 1 .. Len(r.order) :
           i < j /\ HistDone(log, b, r.order[i]) /\ HistDone(log, b, r.order[j]) => r.order[i] < r.order[j]
    BY <1>2, <2>1 DEF HistFoldOrder
  <2>7. \A i \in 1 .. Len(r.order) : r.order[i] \in 1 .. last /\ r.order[i] \in DOMAIN r.turns
    BY <2>1, <2>4
  <2>8. \A i \in Len(base.order) + 1 .. Len(r.order) :
           IF r.order[i] <= k THEN ~HistDone(log, b, r.order[i]) /\ ~r.turns[r.order[i]].terminal
           ELSE \E j \in 1 .. n : log[j].turn = r.order[i] /\ HistOwn(log[j])
    <3>1. \A o : o = h.order => \A i \in Len(base.order) + 1 .. Len(o) :
             IF o[i] <= k THEN ~HistDone(log, b, o[i]) /\ ~r.turns[o[i]].terminal
             ELSE \E j \in 1 .. n : log[j].turn = o[i] /\ HistOwn(log[j])
      BY <2>3
    <3> QED
      BY <2>1, <3>1
  <2> QED
    BY <2>5, <2>6, <2>7, <2>8, Zenon DEF HistFoldOrder
<1>7. CASE t \notin DOMAIN h.turns
  <2> DEFINE m == Len(h.order) + 1
  <2>1. /\ r.order = Append(h.order, t) /\ Len(r.order) = m /\ r.order[m] = t
        /\ \A i \in 1 .. Len(h.order) : r.order[i] = h.order[i]
    <3>1. r.order = Append(h.order, t)
      BY <1>1, <1>7 DEF HistOrderWith
    <3> QED
      BY <1>4, <3>1, AppendProperties
  <2> HIDE DEF m
  <2>2. \A i \in 1 .. m : i = m \/ (i \in 1 .. Len(h.order) /\ i < m)
    BY <1>4 DEF m
  <2>3. \A i \in 1 .. Len(h.order) : h.order[i] \in DOMAIN h.turns /\ h.order[i] # t /\ h.order[i] \in 1 .. last
    BY <1>2, <1>7 DEF HistFoldOrder
  <2>4. t <= k => ~HistDone(log, b, t)
    <3> SUFFICES ASSUME t <= k, HistDone(log, b, t) PROVE FALSE
      OBVIOUS
    <3>1. log[n].kind = "note" /\ t \in 1 .. k
      BY <1>1
    <3>2. HistTold(log, b, t)
      BY <1>1, <3>1, HistNotedIsTold DEF t
    <3>3. HistOver(log, b, base, k, a, last, current)
      BY DEF HistReadsAt
    <3>4. HistInOrder(base.order, t)
      BY <3>1, <3>2, <3>3, HistOverIs DEF HistKnows, HistOrders
    <3>5. PICK i \in 1 .. Len(base.order) : base.order[i] = t
      BY <3>4 DEF HistInOrder
    <3>6. i \in 1 .. Len(h.order) /\ h.order[i] = t
      BY <1>2, <1>4, <3>5, SMTT(60) DEF HistFoldOrder
    <3> QED
      BY <2>3, <3>6
  <2>5. t > k => HistOwn(log[n])
    <3> SUFFICES ASSUME t > k, ~HistOwn(log[n]) PROVE FALSE
      OBVIOUS
    <3>1. log[n].kind = "note"
      BY <1>1 DEF HistOwn
    <3>2. PICK j \in 1 .. n : j # n /\ log[j].kind = "entry" /\ log[j].turn = t
      BY <1>1, <3>1, HistNotedIsTold DEF t
    <3>3. j \in 1 .. n - 1 /\ j \in 1 .. Len(log)
      BY <1>1, <3>2
    <3>4. j > a
      BY <1>1, <3>2, <3>3, HistIsNew
    <3>5. t \in k + 1 .. last
      BY <1>1
    <3>6. HistFoldNewTurn(log, b, a, h, n - 1, t)
      BY <1>2, <3>5 DEF HistFoldNew
    <3>7. t \in DOMAIN h.turns
      BY <3>2, <3>3, <3>4, <3>6 DEF HistFoldNewTurn
    <3> QED
      BY <1>7, <3>7
  <2>6. ASSUME NEW i \in 1 .. Len(h.order), HistDone(log, b, h.order[i]), HistDone(log, b, t) PROVE h.order[i] < t
    <3>1. t > k
      BY <1>1, <2>4, <2>6
    <3>2. CASE h.order[i] <= k
      BY <1>1, <2>3, <3>1, <3>2, SMTT(60)
    <3>3. CASE ~(h.order[i] <= k)
      <4>1. i \in Len(base.order) + 1 .. Len(h.order)
        <5> SUFFICES ASSUME i \in 1 .. Len(base.order) PROVE FALSE
          BY <1>4
        <5>1. h.order[i] = base.order[i]
          BY <1>2 DEF HistFoldOrder
        <5>2. base.order[i] \in 1 .. k
          BY HistOverIs DEF HistKnows, HistOrders, HistReadsAt
        <5> QED
          BY <3>3, <5>1, <5>2
      <4>2. PICK j \in 1 .. n - 1 : log[j].turn = h.order[i] /\ HistOwn(log[j])
        BY <1>2, <3>3, <4>1 DEF HistFoldOrder
      <4>3. j < n /\ j \in 1 .. Len(log)
        BY <1>1
      <4>4. HistOrdered(log)
        BY <1>1 DEF HistLogWell
      <4>5. log[j].turn <= log[n].turn
        BY <1>1, <2>5, <3>1, <4>3, <4>4 DEF HistOrdered
      <4>6. h.order[i] <= t
        BY <4>2, <4>5 DEF t
      <4> QED
        BY <1>4, <2>3, <4>6
    <3> QED
      BY <3>2, <3>3
  <2>7. ASSUME NEW i \in Len(base.order) + 1 .. m
        PROVE  IF r.order[i] <= k THEN ~HistDone(log, b, r.order[i]) /\ ~r.turns[r.order[i]].terminal
               ELSE \E j \in 1 .. n : log[j].turn = r.order[i] /\ HistOwn(log[j])
    <3>1. CASE i = m
      <4>1. n \in 1 .. n /\ log[n].turn = t
        BY <1>1 DEF t
      <4>2. HistOld(h, t).terminal = FALSE
        BY <1>7, HistNewTurnIs DEF HistOld
      <4> QED
        BY <1>1, <1>3, <2>1, <2>4, <2>5, <3>1, <4>1, <4>2, SMTT(60)
    <3>2. CASE i # m
      <4>1. i \in 1 .. Len(h.order) /\ i \in Len(base.order) + 1 .. Len(h.order)
        BY <1>4, <3>2, SMTT(60) DEF m
      <4>2. r.order[i] = h.order[i] /\ r.turns[h.order[i]] = h.turns[h.order[i]]
        BY <1>1, <2>1, <2>3, <4>1
      <4> QED
        BY <1>2, <1>5, <4>1, <4>2 DEF HistFoldOrder
    <3> QED
      BY <3>1, <3>2
  <2>8. Len(base.order) <= m /\ \A i \in 1 .. Len(base.order) : r.order[i] = base.order[i]
    <3>1. \A i \in 1 .. Len(base.order) : i \in 1 .. Len(h.order)
      BY <1>4
    <3> QED
      BY <1>2, <1>4, <2>1, <3>1 DEF HistFoldOrder, m
  <2>9. \A i \in 1 .. m : r.order[i] \in 1 .. last /\ r.order[i] \in DOMAIN r.turns
    BY <1>1, <2>1, <2>2, <2>3
  <2>10. \A i, j \in 1 .. m : r.order[i] = r.order[j] => i = j
    <3>1. \A i, j \in 1 .. Len(h.order) : h.order[i] = h.order[j] => i = j
      BY <1>2 DEF HistFoldOrder
    <3> QED
      BY <2>1, <2>2, <2>3, <3>1
  <2>11. \A i, j \in 1 .. m : i < j /\ HistDone(log, b, r.order[i]) /\ HistDone(log, b, r.order[j]) => r.order[i] < r.order[j]
    <3> SUFFICES ASSUME NEW i \in 1 .. m, NEW j \in 1 .. m, i < j, HistDone(log, b, r.order[i]), HistDone(log, b, r.order[j])
                 PROVE  r.order[i] < r.order[j]
      OBVIOUS
    <3>1. i \in 1 .. Len(h.order) /\ r.order[i] = h.order[i]
      <4>1. i # m
        BY <1>4 DEF m
      <4> QED
        BY <2>1, <2>2, <4>1
    <3>2. CASE j = m
      BY <2>1, <2>6, <3>1, <3>2
    <3>3. CASE j # m
      <4>1. j \in 1 .. Len(h.order) /\ r.order[j] = h.order[j]
        BY <2>1, <2>2, <3>3
      <4> QED
        BY <1>2, <3>1, <4>1 DEF HistFoldOrder
    <3> QED
      BY <3>2, <3>3
  <2> QED
    BY <2>1, <2>7, <2>8, <2>9, <2>10, <2>11, Zenon DEF HistFoldOrder
<1> QED
  BY <1>6, <1>7

HistReadMakes(e, n, h, t, r, o) ==
    /\ t \in Nat /\ t \in DOMAIN r.turns /\ HistOld(r, t) = r.turns[t]
    /\ HistAfterSays(e, n, o, r.turns[t], HistSwallows(h, t))
    /\ \A u : u # t => HistOld(r, u) = HistOld(h, u) /\ (u \in DOMAIN r.turns <=> u \in DOMAIN h.turns)

LEMMA HistReadTurns ==
    ASSUME NEW log, NEW b, NEW base, NEW k, NEW a, NEW last, NEW current, NEW n, NEW h,
           HistReadsAt(log, b, base, k, a, last, current, n, h)
    PROVE  HistReadMakes(log[n], n, h, log[n].turn, ReplayEvent(h, log[n], n, current), HistOld(h, log[n].turn))
<1> DEFINE t == log[n].turn
           r == ReplayEvent(h, log[n], n, current)
<1>1. HistReadSays(log, base, k, a, last, n, h, t, r)
  BY HistReadIs
<1>2. HistAfterSays(log[n], n, HistOld(h, t), HistTurnAfter(h, log[n], n), HistSwallows(h, t))
  <2> PICK e : e = log[n]
    OBVIOUS
  <2>1. e \in HistEvents /\ e.kind \notin {"checkpoint", "continuation", "started"} /\ h \in Hists /\ n \in Nat
    BY <1>1 DEF HistReadSays
  <2>2. HistAfterSays(e, n, HistOld(h, e.turn), HistTurnAfter(h, e, n), HistSwallows(h, e.turn))
    BY <2>1, HistAfterIs
  <2> QED
    BY <2>2
<1> SUFFICES HistReadMakes(log[n], n, h, t, r, HistOld(h, t))
  OBVIOUS
<1> HIDE DEF r, t
<1>3. t \in 1 .. last /\ last \in Nat /\ r.turns[t] = HistTurnAfter(h, log[n], n)
      /\ DOMAIN r.turns = DOMAIN h.turns \cup {t} /\ \A u \in DOMAIN h.turns \ {t} : r.turns[u] = h.turns[u]
  BY <1>1 DEF HistReadSays
<1>4. t \in Nat /\ t \in DOMAIN r.turns
  BY <1>3
<1>5. HistOld(r, t) = r.turns[t]
  BY <1>4 DEF HistOld
<1>6. \A u : u # t => HistOld(r, u) = HistOld(h, u) /\ (u \in DOMAIN r.turns <=> u \in DOMAIN h.turns)
  BY <1>3 DEF HistOld
<1> QED
  BY <1>2, <1>3, <1>4, <1>5, <1>6 DEF HistReadMakes

LEMMA HistReadOf ==
    ASSUME NEW log, NEW b, NEW base, NEW k, NEW a, NEW last, NEW current, NEW n, NEW h,
           HistReadsAt(log, b, base, k, a, last, current, n, h)
    PROVE  HistTurnsOf(log, b, ReplayEvent(h, log[n], n, current), last)
<1> DEFINE t == log[n].turn
           r == ReplayEvent(h, log[n], n, current)
           o == HistOld(h, t)
<1>1. /\ HistLogWell(log) /\ Len(log) \in Nat /\ n \in 1 .. Len(log) /\ t \in 1 .. last
      /\ DOMAIN r.turns = DOMAIN h.turns \cup {t}
      /\ \A u \in DOMAIN h.turns \ {t} : r.turns[u] = h.turns[u]
  <2>1. HistReadSays(log, base, k, a, last, n, h, t, r)
    BY HistReadIs
  <2> HIDE DEF r, o, t
  <2> QED
    BY <2>1 DEF HistReadSays
<1>2. /\ ToSet(r.turns[t].notes) \subseteq ToSet(o.notes) \cup {n}
      /\ ToSet(r.turns[t].entries) \subseteq ToSet(o.entries) \cup {n}
      /\ r.turns[t].at = IF log[n].kind \in EndKinds THEN n ELSE o.at
  <2>1. /\ r.turns[t].at = IF log[n].kind \in EndKinds THEN n ELSE o.at
        /\ ToSet(r.turns[t].notes) = IF log[n].kind \in {"handoff", "note"} THEN ToSet(o.notes) \cup {n} ELSE ToSet(o.notes)
        /\ ToSet(r.turns[t].entries) \subseteq ToSet(o.entries) \cup {n}
    <3>1. HistReadMakes(log[n], n, h, t, r, o)
      BY HistReadTurns
    <3> HIDE DEF r, o, t
    <3>2. HistAfterSays(log[n], n, o, r.turns[t], HistSwallows(h, t))
      BY <3>1 DEF HistReadMakes
    <3> QED
      BY <3>2 DEF HistAfterSays
  <2> HIDE DEF r, o
  <2> QED
    BY <2>1
<1>3. HistTurnsOf(log, b, h, last)
  BY DEF HistReadsAt, HistFolded
<1> SUFFICES HistTurnsOf(log, b, r, last)
  OBVIOUS
<1> HIDE DEF r
<1>4. /\ \A m \in ToSet(o.entries) \cup ToSet(o.notes) : m \in 1 .. Len(log) /\ log[m].turn = t
      /\ HistTold(log, b, t) => \A e \in 1 .. Len(log) : HistEndsAt(log, t, e) => o.at <= e
  <2>1. CASE t \in DOMAIN h.turns
    BY <1>3, <2>1 DEF HistTurnsOf, HistOld
  <2>2. CASE t \notin DOMAIN h.turns
    <3>1. o.entries = <<>> /\ o.notes = <<>> /\ o.at = 0
      BY <2>2, HistNewTurnIs DEF HistOld
    <3>2. ToSet(<<>>) = {}
      BY DEF ToSet
    <3> QED
      BY <1>1, <3>1, <3>2
  <2> QED
    BY <2>1, <2>2
<1>5. ASSUME NEW u \in DOMAIN r.turns
      PROVE  /\ u \in 1 .. last
             /\ \A m \in ToSet(r.turns[u].entries) \cup ToSet(r.turns[u].notes) : m \in 1 .. Len(log) /\ log[m].turn = u
             /\ HistTold(log, b, u) => \A e \in 1 .. Len(log) : HistEndsAt(log, u, e) => r.turns[u].at <= e
  <2>1. CASE u = t
    <3>1. \A e \in 1 .. Len(log) : HistEndsAt(log, t, e) /\ log[n].kind \in EndKinds => n <= e
      <4> SUFFICES ASSUME NEW e \in 1 .. Len(log), HistEndsAt(log, t, e), log[n].kind \in EndKinds PROVE n <= e
        OBVIOUS
      <4>1. HistEndsAt(log, t, n)
        BY <1>1 DEF HistEndsAt
      <4>2. n = e
        BY <1>1, <4>1, HistEndIs
      <4> QED
        BY <1>1, <4>2
    <3>2. \A m \in ToSet(r.turns[t].entries) \cup ToSet(r.turns[t].notes) : m \in 1 .. Len(log) /\ log[m].turn = t
      BY <1>1, <1>2, <1>4
    <3>3. HistTold(log, b, t) => \A e \in 1 .. Len(log) : HistEndsAt(log, t, e) => r.turns[t].at <= e
      BY <1>2, <1>4, <3>1
    <3> QED
      BY <1>1, <2>1, <3>2, <3>3
  <2>2. CASE u # t
    <3>1. u \in DOMAIN h.turns /\ r.turns[u] = h.turns[u]
      BY <1>1, <1>5, <2>2
    <3> QED
      BY <1>3, <3>1 DEF HistTurnsOf
  <2> QED
    BY <2>1, <2>2
<1> QED
  BY <1>5 DEF HistTurnsOf

(* A turn that runs is not in the prefix, when it ends and is told.               *)
LEMMA HistNotSwallowed ==
    ASSUME NEW log, NEW b, NEW base, NEW k, NEW a, NEW last, NEW current, NEW n, NEW h,
           HistReadsAt(log, b, base, k, a, last, current, n, h),
           log[n].turn > k, HistDone(log, b, log[n].turn), ~HistOld(h, log[n].turn).terminal
    PROVE  ~HistSwallows(h, log[n].turn)
<1> DEFINE t == log[n].turn
           r == ReplayEvent(h, log[n], n, current)
           c == h.cont
<1>1. /\ HistLogWell(log) /\ Len(log) \in Nat /\ k \in Nat /\ last \in Nat /\ n \in 1 .. Len(log) /\ t \in 1 .. last
      /\ r \in Hists /\ h \in Hists /\ r.order = HistOrderWith(h, t)
  BY HistReadIs DEF HistReadSays
<1>2. /\ HistFoldOrder(log, b, base, k, last, r, n)
      /\ HistFoldNew(log, b, k, a, last, h, n - 1) /\ HistFoldCont(log, b, base, k, a, last, h, n - 1)
  BY HistReadOrder DEF HistReadsAt, HistFolded
<1> HIDE DEF r, c
<1> SUFFICES ASSUME t \in PrefixTurns(r.order, c) PROVE FALSE
  BY <1>1 DEF HistSwallows, c
<1>3. r.order \in Seq(Nat) /\ c \in HistConts /\ c.frontier \in Nat
  <2>1. r.order \in Seq(Nat) /\ c \in HistConts
    BY <1>1, HistsAre DEF c
  <2> QED
    BY <2>1 DEF HistConts
<1>4. c = NoSummary \/ HistDone(log, b, c.frontier)
  BY <1>2 DEF HistFoldCont, HistSumsUp, c
<1>5. \A i \in 1 .. Len(r.order) : r.order[i] # 0
  <2>1. \A i \in 1 .. Len(r.order) : r.order[i] \in 1 .. last
    BY <1>2 DEF HistFoldOrder
  <2> QED
    BY <1>1, <2>1
<1>6. \A i, j \in 1 .. Len(r.order) :
         i < j /\ HistDone(log, b, r.order[i]) /\ HistDone(log, b, r.order[j]) => r.order[i] < r.order[j]
  BY <1>2 DEF HistFoldOrder
<1>7. t <= c.frontier /\ c # NoSummary
  BY <1>3, <1>4, <1>5, <1>6, HistPrefixIs
<1>8. c.frontier > k
  BY <1>1, <1>3, <1>7
<1>9. PICK e \in 1 .. n - 1 : HistEndsAt(log, c.frontier, e)
  BY <1>2, <1>8 DEF HistFoldCont, c
<1>10. PICK d : HistEndsAt(log, t, d)
  BY HistEndedAt DEF HistDone
<1>11. d \in 1 .. n - 1
  <2>1. CASE t = c.frontier
    BY <1>1, <1>9, <1>10, <2>1, HistEndIs
  <2>2. CASE t # c.frontier
    <3>1. e \in 1 .. Len(log) /\ HistOwn(log[e]) /\ log[e].turn = c.frontier
      BY <1>1, <1>9, HistEndIs DEF HistEndsAt
    <3>2. t < c.frontier
      BY <1>1, <1>3, <1>7, <2>2, SMTT(60)
    <3>3. d < e /\ d \in 1 .. Len(log)
      BY <1>1, <1>10, <3>1, <3>2, HistEndsFirst DEF HistEndsAt
    <3> QED
      BY <1>1, <3>3
  <2> QED
    BY <2>1, <2>2
<1>12. t \in k + 1 .. last
  BY <1>1
<1>13. HistOld(h, t).terminal
  BY <1>2, <1>10, <1>11, <1>12 DEF HistFoldNew, HistFoldNewTurn
<1> QED
  BY <1>13

LEMMA HistOrderHas ==
    ASSUME NEW h \in Hists, NEW t \in Nat
    PROVE  /\ \A u : HistInOrder(h.order, u) => HistInOrder(HistOrderWith(h, t), u)
           /\ (t \in DOMAIN h.turns => HistInOrder(h.order, t)) => HistInOrder(HistOrderWith(h, t), t)
           /\ HistOrderWith(h, t) \in Seq(Nat)
<1> DEFINE s == h.order
           w == HistOrderWith(h, t)
<1>1. s \in Seq(Nat)
  BY HistsAre
<1>2. w = IF t \in DOMAIN h.turns THEN s ELSE Append(s, t)
  BY DEF HistOrderWith
<1>3. /\ Append(s, t) \in Seq(Nat) /\ Len(Append(s, t)) = Len(s) + 1 /\ Append(s, t)[Len(s) + 1] = t
      /\ \A i \in 1 .. Len(s) : Append(s, t)[i] = s[i]
      /\ Len(s) \in Nat
  BY <1>1
<1> HIDE DEF s, w
<1>4. HistInOrder(Append(s, t), t) /\ \A u : HistInOrder(s, u) => HistInOrder(Append(s, t), u)
  BY <1>3 DEF HistInOrder
<1> QED
  BY <1>1, <1>2, <1>3, <1>4 DEF s, w

(* What the turn of the event says then.                                          *)
LEMMA HistReadSaid ==
    ASSUME NEW log, NEW b, NEW base, NEW k, NEW a, NEW last, NEW current, NEW n, NEW h,
           HistReadsAt(log, b, base, k, a, last, current, n, h), log[n].turn > k, HistDone(log, b, log[n].turn)
    PROVE  Select(HistOld(ReplayEvent(h, log[n], n, current), log[n].turn).entries, HistPlain(log))
             = HistSaid(log, log[n].turn, n)
<1> DEFINE t == log[n].turn
           r == ReplayEvent(h, log[n], n, current)
           o == HistOld(h, t)
           q == HistOld(r, t)
           P == HistPlain(log)
<1>1. /\ HistLogWell(log) /\ Len(log) \in Nat /\ n \in 1 .. Len(log) /\ t \in 1 .. last /\ k \in Nat /\ last \in Nat
      /\ log[n].kind \notin {"checkpoint", "continuation", "started"} /\ log[n] \in HistEvents
  <2>1. HistReadSays(log, base, k, a, last, n, h, t, r)
    BY HistReadIs
  <2> HIDE DEF r, t
  <2> QED
    BY <2>1 DEF HistReadSays
<1>2. HistAfterSays(log[n], n, o, q, HistSwallows(h, t))
  <2>1. HistReadMakes(log[n], n, h, t, r, o)
    BY HistReadTurns
  <2> HIDE DEF r, o, t
  <2> QED
    BY <2>1 DEF HistReadMakes, q
<1>3. ~o.terminal => ~HistSwallows(h, t)
  BY HistNotSwallowed
<1>4. HistFoldNewTurn(log, b, a, h, n - 1, t)
  <2>1. HistFoldNew(log, b, k, a, last, h, n - 1)
    BY DEF HistReadsAt, HistFolded
  <2>2. t \in k + 1 .. last
    BY <1>1
  <2> QED
    BY <2>1, <2>2 DEF HistFoldNew
<1>5. HistSaid(log, t, n) = IF n \in HistSpeaks(log, t) THEN Append(HistSaid(log, t, n - 1), n) ELSE HistSaid(log, t, n - 1)
  <2>1. n - 1 \in Nat /\ n - 1 + 1 = n
    BY <1>1
  <2> QED
    BY <2>1, HistSaidNext, ZenonT(60)
<1>6. Select(o.entries, P) = HistSaid(log, t, n - 1)
  BY <1>4 DEF HistFoldNewTurn
<1>7. o.entries \in Seq(Nat) /\ n \in Nat
  BY <1>1, <1>2 DEF HistAfterSays
<1>8. Select(Append(o.entries, n), P) = IF n \in P THEN Append(Select(o.entries, P), n) ELSE Select(o.entries, P)
  BY <1>7, SelectAppend, ZenonT(60)
<1>9. n \in P <=> log[n].kind # "handoff"
  BY <1>1 DEF HistPlain
<1>10. PICK d : HistEndsAt(log, t, d)
  BY HistEndedAt DEF HistDone
<1>11. o.terminal <=> \E e \in 1 .. n - 1 : HistEndsAt(log, t, e)
  BY <1>4 DEF HistFoldNewTurn
<1>12. d \in 1 .. Len(log) /\ log[d].kind # "note" /\ \A e : HistEndsAt(log, t, e) => e = d
  BY <1>1, <1>10, HistEndIs
<1>13. o.terminal <=> d < n
  BY <1>1, <1>10, <1>11, <1>12
<1>14. /\ log[n].kind \in {"entry", "note"} => (n \in HistSpeaks(log, t) <=> n < d)
       /\ log[n].kind = "entry" => n \in HistSpeaks(log, t)
       /\ n \in HistSpeaks(log, t) => log[n].kind \in {"entry", "note"}
  BY <1>1, <1>10, HistSpeaksIs
<1> SUFFICES Select(q.entries, P) = HistSaid(log, t, n)
  OBVIOUS
<1> HIDE DEF t, r, o, q, P
<1>15. q.entries = IF log[n].kind \in {"entry", "handoff"} \/ (log[n].kind = "note" /\ ~HistSwallows(h, t) /\ ~o.terminal)
                   THEN Append(o.entries, n) ELSE o.entries
  BY <1>2 DEF HistAfterSays
<1>16. CASE log[n].kind = "entry"
  BY <1>5, <1>6, <1>8, <1>9, <1>14, <1>15, <1>16
<1>17. CASE log[n].kind = "handoff"
  BY <1>5, <1>6, <1>8, <1>9, <1>14, <1>15, <1>17
<1>18. CASE log[n].kind = "note"
  <2>1. CASE o.terminal
    <3>1. n \notin HistSpeaks(log, t)
      BY <1>1, <1>12, <1>13, <1>14, <1>18, <2>1
    <3> QED
      BY <1>5, <1>6, <1>15, <1>18, <2>1, <3>1
  <2>2. CASE ~o.terminal
    <3>1. n # d
      BY <1>12, <1>18
    <3>2. n \in HistSpeaks(log, t)
      BY <1>1, <1>12, <1>13, <1>14, <1>18, <2>2, <3>1
    <3> QED
      BY <1>3, <1>5, <1>6, <1>8, <1>9, <1>15, <1>18, <2>2, <3>2
  <2> QED
    BY <2>1, <2>2
<1>19. CASE log[n].kind \notin {"entry", "handoff", "note"}
  BY <1>5, <1>6, <1>14, <1>15, <1>19
<1> QED
  BY <1>16, <1>17, <1>18, <1>19

LEMMA HistReadNew ==
    ASSUME NEW log, NEW b, NEW base, NEW k, NEW a, NEW last, NEW current, NEW n, NEW h,
           HistReadsAt(log, b, base, k, a, last, current, n, h)
    PROVE  HistFoldNew(log, b, k, a, last, ReplayEvent(h, log[n], n, current), n)
<1> DEFINE t == log[n].turn
           r == ReplayEvent(h, log[n], n, current)
           o == HistOld(h, t)
           q == HistOld(r, t)
<1>1. /\ HistLogWell(log) /\ Len(log) \in Nat /\ n \in 1 .. Len(log) /\ t \in 1 .. last /\ k \in Nat /\ last \in Nat
      /\ log[n].kind \notin {"checkpoint", "continuation", "started"} /\ h \in Hists
      /\ r.order = HistOrderWith(h, t)
  <2>1. HistReadSays(log, base, k, a, last, n, h, t, r)
    BY HistReadIs
  <2> HIDE DEF r, t
  <2> QED
    BY <2>1 DEF HistReadSays
<1>2. /\ t \in Nat /\ t \in DOMAIN r.turns /\ HistAfterSays(log[n], n, o, q, HistSwallows(h, t))
      /\ \A u : u # t => HistOld(r, u) = HistOld(h, u) /\ (u \in DOMAIN r.turns <=> u \in DOMAIN h.turns)
  <2>1. HistReadMakes(log[n], n, h, t, r, o)
    BY HistReadTurns
  <2> HIDE DEF r, o, t
  <2> QED
    BY <2>1 DEF HistReadMakes, q
<1>3. \A u \in k + 1 .. last : HistFoldNewTurn(log, b, a, h, n - 1, u)
  <2>1. HistFoldNew(log, b, k, a, last, h, n - 1)
    BY DEF HistReadsAt, HistFolded
  <2> QED
    BY <2>1 DEF HistFoldNew
<1>4. \A u : HistInOrder(h.order, u) => HistInOrder(r.order, u)
  BY <1>1, <1>2, HistOrderHas
<1>5. t > k /\ HistDone(log, b, t) => Select(q.entries, HistPlain(log)) = HistSaid(log, t, n)
  BY HistReadSaid
<1>6. (t \in DOMAIN h.turns => HistInOrder(h.order, t)) => HistInOrder(r.order, t)
  BY <1>1, <1>2, HistOrderHas
<1>7. HistEndsAt(log, t, n) <=> log[n].kind \in EndKinds
  BY <1>1 DEF HistEndsAt
<1>8. \A e : HistEndsAt(log, t, e) => \A d : HistEndsAt(log, t, d) => d = e
  BY <1>1, HistEndIs
<1>9. n \in HistLate(log, t) => log[n].kind = "note"
  BY <1>1, HistSpeaksIs
<1> SUFFICES ASSUME NEW u \in k + 1 .. last PROVE HistFoldNewTurn(log, b, a, r, n, u)
  BY DEF HistFoldNew
<1>10. HistFoldNewTurn(log, b, a, h, n - 1, u)
  BY <1>3
<1>11. CASE u # t
  BY <1>1, <1>2, <1>4, <1>10, <1>11, HistFoldNewSame
<1>12. CASE u = t
  <2> HIDE DEF r, o, q, t
  <2>1. t > k
    BY <1>1, <1>12
  <2>2. HistFoldNewTurn(log, b, a, h, n - 1, t)
    BY <1>10, <1>12
  <2>3. HistInOrder(r.order, t)
    BY <1>6, <2>2 DEF HistFoldNewTurn
  <2>4. \A e \in 1 .. n : e \in 1 .. n - 1 \/ e = n
    BY <1>1
  <2>41. 1 .. n - 1 \subseteq 1 .. n /\ n \in 1 .. n
    BY <1>1
  <2>5. q.terminal <=> \E e \in 1 .. n : HistEndsAt(log, t, e)
    <3>1. q.terminal <=> o.terminal \/ log[n].kind \in EndKinds
      BY <1>2 DEF HistAfterSays
    <3>2. o.terminal <=> \E e \in 1 .. n - 1 : HistEndsAt(log, t, e)
      BY <2>2 DEF HistFoldNewTurn, o
    <3> QED
      BY <1>7, <2>4, <2>41, <3>1, <3>2
  <2>6. \A e \in 1 .. n : HistEndsAt(log, t, e) => q.at = e
    <3>1. q.at = IF log[n].kind \in EndKinds THEN n ELSE o.at
      BY <1>2 DEF HistAfterSays
    <3>2. \A e \in 1 .. n - 1 : HistEndsAt(log, t, e) => o.at = e
      BY <2>2 DEF HistFoldNewTurn, o
    <3> QED
      BY <1>7, <1>8, <2>4, <3>1, <3>2
  <2>7. \A m \in HistLate(log, t) : m <= n => m \in ToSet(q.notes)
    <3>1. ToSet(q.notes) = IF log[n].kind \in {"handoff", "note"} THEN ToSet(o.notes) \cup {n} ELSE ToSet(o.notes)
      BY <1>2 DEF HistAfterSays
    <3>2. \A m \in HistLate(log, t) : m <= n - 1 => m \in ToSet(o.notes)
      BY <2>2 DEF HistFoldNewTurn, o
    <3> SUFFICES ASSUME NEW m \in HistLate(log, t), m <= n PROVE m \in ToSet(q.notes)
      OBVIOUS
    <3>3. m \in Nat
      BY <1>1 DEF HistLate
    <3>4. m <= n - 1 \/ m = n
      BY <1>1, <3>3
    <3> QED
      BY <1>9, <3>1, <3>2, <3>4
  <2>8. HistDone(log, b, t) => Select(q.entries, HistPlain(log)) = HistSaid(log, t, n)
    BY <1>5, <2>1
  <2>9. HistFoldNewTurn(log, b, a, r, n, t)
    BY <1>2, <2>3, <2>5, <2>6, <2>7, <2>8, SMTT(60) DEF HistFoldNewTurn, q
  <2> QED
    BY <1>12, <2>9
<1> QED
  BY <1>11, <1>12

LEMMA HistReadOld ==
    ASSUME NEW log, NEW b, NEW base, NEW k, NEW a, NEW last, NEW current, NEW n, NEW h,
           HistReadsAt(log, b, base, k, a, last, current, n, h)
    PROVE  HistFoldOld(log, b, base, a, ReplayEvent(h, log[n], n, current), n)
<1> DEFINE t == log[n].turn
           r == ReplayEvent(h, log[n], n, current)
<1>1. /\ HistLogWell(log) /\ Len(log) \in Nat /\ n \in 1 .. Len(log) /\ t \in 1 .. last /\ k \in Nat /\ last \in Nat
      /\ h \in Hists /\ base \in Hists /\ (t <= k => log[n].kind = "note") /\ a \in Int
  <2>1. HistReadSays(log, base, k, a, last, n, h, t, r)
    BY HistReadIs
  <2> HIDE DEF r, t
  <2> QED
    BY <2>1 DEF HistReadSays
<1>2. /\ t \in DOMAIN r.turns /\ HistAfterSays(log[n], n, HistOld(h, t), r.turns[t], HistSwallows(h, t))
      /\ \A u : u # t => HistOld(r, u) = HistOld(h, u) /\ (u \in DOMAIN r.turns <=> u \in DOMAIN h.turns)
  <2>1. HistReadMakes(log[n], n, h, t, r, HistOld(h, t))
    BY HistReadTurns
  <2> HIDE DEF r, t
  <2> QED
    BY <2>1 DEF HistReadMakes
<1>3. HistFoldOld(log, b, base, a, h, n - 1) /\ HistFoldOrder(log, b, base, k, last, h, n - 1)
  BY DEF HistReadsAt, HistFolded
<1>4. \A i \in 1 .. Len(base.order) : base.order[i] \in DOMAIN h.turns /\ base.order[i] \in 1 .. k
  <2>1. base.order \in Seq(Nat) /\ h.order \in Seq(Nat)
    BY <1>1, HistsAre
  <2>2. Len(base.order) \in Nat /\ Len(h.order) \in Nat
    BY <2>1
  <2>3. \A i \in 1 .. Len(base.order) : base.order[i] \in 1 .. k
    BY HistOverIs DEF HistReadsAt, HistKnows, HistOrders
  <2>4. /\ Len(base.order) <= Len(h.order) /\ \A i \in 1 .. Len(base.order) : h.order[i] = base.order[i]
        /\ \A i \in 1 .. Len(h.order) : h.order[i] \in DOMAIN h.turns
    BY <1>3 DEF HistFoldOrder
  <2>5. \A i \in 1 .. Len(base.order) : i \in 1 .. Len(h.order)
    BY <2>2, <2>4
  <2> QED
    BY <2>3, <2>4, <2>5
<1> SUFFICES ASSUME NEW i \in 1 .. Len(base.order) PROVE HistFoldOldTurn(log, b, base, a, r, n, i)
  BY DEF HistFoldOld
<1> DEFINE u == base.order[i]
           q == r.turns[u]
           o == h.turns[u]
<1>5. HistFoldOldTurn(log, b, base, a, h, n - 1, i)
  BY <1>3 DEF HistFoldOld
<1>6. u \in DOMAIN h.turns /\ u \in 1 .. k
  BY <1>4
<1>7. /\ o.terminal
      /\ HistTold(log, b, u) => \A m \in HistLate(log, u) : a < m /\ m <= n - 1 => m \in ToSet(o.notes)
      /\ i > PrefixCount(base.order, base.cont) =>
            /\ o.entries = base.turns[u].entries /\ o.at = base.turns[u].at
            /\ ToSet(base.turns[u].notes) \subseteq ToSet(o.notes)
  BY <1>5 DEF HistFoldOldTurn
<1>8. n \in HistLate(log, u) => u = t
  BY <1>1 DEF HistLate
<1>9. \A m \in HistLate(log, u) : m <= n => m <= n - 1 \/ m = n
  BY <1>1, SMTT(60) DEF HistLate
<1>10. /\ q.terminal /\ q.entries = o.entries /\ q.at = o.at /\ ToSet(o.notes) \subseteq ToSet(q.notes)
       /\ u = t => n \in ToSet(q.notes)
  <2>1. CASE u = t
    <3>1. t <= k /\ log[n].kind = "note" /\ log[n].kind \notin EndKinds
      BY <1>1, <1>6, <2>1, HistKindsAre
    <3>2. HistOld(h, t) = o
      BY <1>6, <2>1 DEF HistOld
    <3>3. HistAfterSays(log[n], n, o, q, HistSwallows(h, t))
      BY <1>2, <2>1, <3>2
    <3> HIDE DEF q, o, u, t, r
    <3> QED
      BY <1>7, <2>1, <3>1, <3>3 DEF HistAfterSays
  <2>2. CASE u # t
    <3>1. q = o
      <4>1. u \in DOMAIN r.turns /\ HistOld(r, u) = HistOld(h, u)
        BY <1>2, <1>6, <2>2
      <4> QED
        BY <1>6, <4>1 DEF HistOld
    <3> QED
      BY <1>7, <2>2, <3>1
  <2> QED
    BY <2>1, <2>2
<1>11. HistTold(log, b, u) => \A m \in HistLate(log, u) : a < m /\ m <= n => m \in ToSet(q.notes)
  <2> HIDE DEF q, o, u, t, r
  <2> QED
    BY <1>7, <1>8, <1>9, <1>10
<1>12. i > PrefixCount(base.order, base.cont) =>
            /\ q.entries = base.turns[u].entries /\ q.at = base.turns[u].at
            /\ ToSet(base.turns[u].notes) \subseteq ToSet(q.notes)
  <2> HIDE DEF q, o, u, t, r
  <2> QED
    BY <1>7, <1>10
<1> QED
  BY <1>10, <1>11, <1>12 DEF HistFoldOldTurn

LEMMA HistSeenNext ==
    ASSUME NEW log, Len(log) \in Nat, NEW base, NEW a \in Int, NEW n \in 1 .. Len(log), NEW h, NEW r,
           base.through \in Int, h.through \in Int, HistFoldSeen(log, base, a, h, n - 1),
           IF n > a /\ log[n].kind # "checkpoint" THEN r.through = HistSeen(h, n) ELSE r.through = h.through
    PROVE  HistFoldSeen(log, base, a, r, n)
<1>1. \A j \in 1 .. n : j \in 1 .. n - 1 \/ j = n
  OBVIOUS
<1>2. h.through <= r.through /\ (n > a /\ log[n].kind # "checkpoint" => n <= r.through) /\ r.through \in Int
  BY DEF HistSeen
<1>3. r.through <= Len(log)
  BY DEF HistSeen, HistFoldSeen
<1>4. base.through <= h.through /\ \A j \in 1 .. n - 1 : j > a /\ log[j].kind # "checkpoint" => j <= h.through
  BY DEF HistFoldSeen
<1>5. base.through <= r.through
  BY <1>2, <1>4
<1>6. \A j \in 1 .. n : j > a /\ log[j].kind # "checkpoint" => j <= r.through
  BY <1>1, <1>2, <1>4, SMTT(60)
<1> QED
  BY <1>3, <1>5, <1>6 DEF HistFoldSeen

LEMMA HistReadCont ==
    ASSUME NEW log, NEW b, NEW base, NEW k, NEW a, NEW last, NEW current, NEW n, NEW h,
           HistReadsAt(log, b, base, k, a, last, current, n, h)
    PROVE  HistFoldCont(log, b, base, k, a, last, ReplayEvent(h, log[n], n, current), n)
<1> DEFINE t == log[n].turn
           r == ReplayEvent(h, log[n], n, current)
           c == h.cont
<1>1. /\ HistLogWell(log) /\ Len(log) \in Nat /\ n \in 1 .. Len(log) /\ t \in 1 .. last /\ k \in Nat /\ last \in Nat
      /\ h \in Hists /\ r \in Hists /\ log[n].kind \notin {"checkpoint", "continuation", "started"}
      /\ r.order = HistOrderWith(h, t) /\ r.cont = HistContAfter(h, log[n], n)
  <2>1. HistReadSays(log, base, k, a, last, n, h, t, r)
    BY HistReadIs
  <2> HIDE DEF r, t
  <2> QED
    BY <2>1 DEF HistReadSays
<1>2. HistFoldCont(log, b, base, k, a, last, h, n - 1) /\ HistOver(log, b, base, k, a, last, current)
  BY DEF HistReadsAt, HistFolded
<1>3. HistFoldOrder(log, b, base, k, last, r, n)
  BY HistReadOrder
<1> SUFFICES HistFoldCont(log, b, base, k, a, last, r, n)
  OBVIOUS
<1> HIDE DEF r
<1>4. CASE r.cont = h.cont
  BY <1>1, <1>2, <1>4, HistContBy
<1>5. CASE r.cont # h.cont
  <2>1. HistFoldCont(log, b, base, k, a, last, h, n)
    BY <1>1, <1>2, HistContBy
  <2>2. r.cont = [c EXCEPT !.covers = @ \cup {n}] /\ t \in PrefixTurns(r.order, c)
    BY <1>1, <1>5 DEF HistContAfter, HistSwallows
  <2>3. r.order \in Seq(Nat) /\ c \in HistConts
    BY <1>1, HistsAre
  <2>4. r.cont.frontier = c.frontier /\ r.cont.covers = c.covers \cup {n} /\ c.frontier \in Nat
    <3>1. c.covers \in SUBSET Nat
      BY <2>3 DEF HistConts
    <3>2. c.covers \cup {n} \in SUBSET Nat
      BY <1>1, <3>1
    <3> DEFINE v == c.covers \cup {n}
    <3>3. v \in SUBSET Nat /\ c \in HistConts /\ 0 \in Nat
      BY <2>3, <3>2
    <3> HIDE DEF v, c
    <3>4. [c EXCEPT !.covers = v].covers = v /\ [c EXCEPT !.covers = v].frontier = c.frontier /\ c.frontier \in Nat
      BY <3>3, HistContsAre
    <3>5. r.cont = [c EXCEPT !.covers = v]
      BY <2>2 DEF v
    <3> QED
      BY <3>4, <3>5 DEF v
  <2>5. \A i \in 1 .. Len(r.order) : r.order[i] # 0
    <3>1. \A i \in 1 .. Len(r.order) : r.order[i] \in 1 .. last
      BY <1>3 DEF HistFoldOrder
    <3> QED
      BY <1>1, <3>1
  <2>6. \A i, j \in 1 .. Len(r.order) :
           i < j /\ HistDone(log, b, r.order[i]) /\ HistDone(log, b, r.order[j]) => r.order[i] < r.order[j]
    BY <1>3 DEF HistFoldOrder
  <2>7. HistSumsUp(log, b, c, last, 1 .. a)
    BY <2>1 DEF HistFoldCont
  <2>8. c = NoSummary \/ HistDone(log, b, c.frontier)
    BY <2>7 DEF HistSumsUp
  <2>9. c # NoSummary /\ (HistDone(log, b, t) => t <= c.frontier)
    <3> HIDE DEF c, t
    <3>1. \A v \in PrefixTurns(r.order, c) : HistDone(log, b, v) => v <= c.frontier
      BY <2>3, <2>5, <2>6, <2>8, HistPrefixIs
    <3>2. PrefixTurns(r.order, c) # {} => c # NoSummary
      BY <2>3, <2>5, <2>6, <2>8, HistPrefixIs
    <3> QED
      BY <2>2, <3>1, <3>2
  <2>10. HistSumsUp(log, b, r.cont, last, 1 .. a)
    <3> HIDE DEF c
    <3>1. HistDone(log, b, r.cont.frontier) /\ r.cont.frontier \in 1 .. last
      BY <2>4, <2>7, <2>9 DEF HistSumsUp
    <3>2. \A m \in r.cont.covers :
             /\ m \in 1 .. Len(log) /\ log[m].turn \in 1 .. last
             /\ HistDone(log, b, log[m].turn) => log[m].turn <= r.cont.frontier
      BY <1>1, <2>4, <2>7, <2>9 DEF HistSumsUp
    <3>3. \A v \in 1 .. r.cont.frontier : HistTold(log, b, v) =>
             HistSpeaks(log, v) \subseteq r.cont.covers /\ HistLate(log, v) \cap (1 .. a) \subseteq r.cont.covers
      <4>1. \A v \in 1 .. c.frontier : HistTold(log, b, v) =>
             HistSpeaks(log, v) \subseteq c.covers /\ HistLate(log, v) \cap (1 .. a) \subseteq c.covers
        BY <2>7, <2>9 DEF HistSumsUp
      <4> QED
        BY <2>4, <4>1
    <3> QED
      BY <3>1, <3>2, <3>3 DEF HistSumsUp
  <2> QED
    BY <2>1, <2>4, <2>10 DEF HistFoldCont
<1> QED
  BY <1>4, <1>5

LEMMA HistStepFolds ==
    ASSUME NEW log, NEW b, NEW base, NEW k, NEW a, NEW last, NEW current,
           HistOver(log, b, base, k, a, last, current),
           NEW n \in 1 .. Len(log), NEW h, HistFolded(log, b, base, k, a, last, h, n - 1)
    PROVE  HistFolded(log, b, base, k, a, last, HistStep(log, h, n, a, current), n)
<1> PICK e : e = log[n]
  OBVIOUS
<1> DEFINE r == HistStep(log, h, n, a, current)
<1>1. /\ HistLogWell(log) /\ Len(log) \in Nat /\ base \in Hists /\ h \in Hists /\ a \in Int
      /\ base.through \in Int /\ h.through \in Int /\ n \in Nat /\ e \in HistEvents
  BY HistOverIs, HistsAre, HistLogIs DEF HistFolded
<1>2. /\ HistFoldCont(log, b, base, k, a, last, h, n - 1) /\ HistFoldSeen(log, base, a, h, n - 1)
  BY DEF HistFolded
<1>3. CASE n > a /\ log[n].kind # "checkpoint" /\ HistReads(log[n], current)
  <2>1. HistReadsAt(log, b, base, k, a, last, current, n, h)
    BY <1>3 DEF HistReadsAt
  <2>2. r = ReplayEvent(h, log[n], n, current)
    BY <1>3 DEF HistStep
  <2>3. HistReadSays(log, base, k, a, last, n, h, log[n].turn, r)
    BY <2>1, <2>2, HistReadIs
  <2>4. /\ HistFoldOrder(log, b, base, k, last, r, n) /\ HistTurnsOf(log, b, r, last)
        /\ HistFoldNew(log, b, k, a, last, r, n) /\ HistFoldOld(log, b, base, a, r, n)
        /\ HistFoldCont(log, b, base, k, a, last, r, n)
    BY <2>1, <2>2, HistReadOrder, HistReadOf, HistReadNew, HistReadOld, HistReadCont
  <2> HIDE DEF r
  <2>5. r \in Hists /\ r.through = HistSeen(h, n)
    BY <2>3 DEF HistReadSays
  <2>6. HistFoldSeen(log, base, a, r, n)
    BY <1>1, <1>2, <1>3, <2>5, HistSeenNext
  <2>7. HistFolded(log, b, base, k, a, last, r, n)
    BY <2>4, <2>5, <2>6 DEF HistFolded
  <2> QED
    BY <2>7 DEF r
<1>4. CASE n > a /\ log[n].kind # "checkpoint" /\ ~HistReads(log[n], current)
  <2>1. r = ReplayEvent(h, e, n, current)
    BY <1>4 DEF HistStep
  <2>2. e.kind # "checkpoint" /\ ~HistReads(e, current)
    BY <1>4
  <2> HIDE DEF r
  <2>3. /\ r \in Hists /\ r.through = HistSeen(h, n) /\ r.order = h.order /\ r.turns = h.turns
        /\ r.cont = IF e.kind = "continuation" THEN e.cont ELSE h.cont
    <3> DEFINE q == ReplayEvent(h, e, n, current)
    <3>1. e \in HistEvents /\ e.kind # "checkpoint" /\ ~HistReads(e, current) /\ h \in Hists /\ n \in Nat
      BY <1>1, <2>2
    <3>2. /\ q \in Hists /\ q.through = HistSeen(h, n) /\ q.order = h.order /\ q.turns = h.turns
          /\ q.cont = IF e.kind = "continuation" THEN e.cont ELSE h.cont
      BY <3>1, HistReplayIs, SMTT(60)
    <3> QED
      BY <2>1, <3>2
  <2>4. /\ HistFoldOrder(log, b, base, k, last, r, n) /\ HistTurnsOf(log, b, r, last)
        /\ HistFoldNew(log, b, k, a, last, r, n) /\ HistFoldOld(log, b, base, a, r, n)
    BY <1>4, <2>3, HistFoldsBy
  <2>5. HistFoldCont(log, b, base, k, a, last, r, n)
    <3>1. CASE e.kind = "continuation"
      BY <1>4, <2>3, <3>1, HistContNext
    <3>2. CASE e.kind # "continuation"
      BY <1>2, <2>3, <3>2, HistContBy
    <3> QED
      BY <3>1, <3>2
  <2>6. HistFoldSeen(log, base, a, r, n)
    BY <1>1, <1>2, <1>4, <2>3, HistSeenNext
  <2>7. HistFolded(log, b, base, k, a, last, r, n)
    BY <2>3, <2>4, <2>5, <2>6 DEF HistFolded
  <2> QED
    BY <2>7 DEF r
<1>5. CASE ~(n > a /\ log[n].kind # "checkpoint")
  <2>1. r = h
    BY <1>5 DEF HistStep
  <2>2. /\ HistFoldOrder(log, b, base, k, last, h, n) /\ HistTurnsOf(log, b, h, last)
        /\ HistFoldNew(log, b, k, a, last, h, n) /\ HistFoldOld(log, b, base, a, h, n)
    BY <1>5, HistFoldsBy
  <2>3. HistFoldCont(log, b, base, k, a, last, h, n)
    BY <1>2, <1>5, HistContBy
  <2>4. HistFoldSeen(log, base, a, h, n)
    BY <1>1, <1>2, <1>5, HistSeenNext
  <2> QED
    BY <1>1, <2>1, <2>2, <2>3, <2>4 DEF HistFolded
<1> QED
  BY <1>3, <1>4, <1>5

LEMMA HistFoldsFrom ==
    ASSUME NEW log, NEW b, NEW base, NEW k, NEW a, NEW last, NEW current,
           HistOver(log, b, base, k, a, last, current)
    PROVE  HistFolded(log, b, base, k, a, last, Placeholders(base), 0)
<1> DEFINE h == Placeholders(base)
           P == PrefixTurns(base.order, base.cont)
           p == PrefixCount(base.order, base.cont)
<1>1. /\ HistLogWell(log) /\ Len(log) \in Nat /\ base \in Hists /\ HistKnows(log, b, base, k, a)
      /\ b \in Nat /\ k \in Nat /\ last \in Nat /\ a \in Int /\ k <= last
  BY HistOverIs
<1>2. /\ h \in Hists /\ h.order = base.order /\ h.cont = base.cont /\ h.through = base.through
      /\ DOMAIN h.turns = DOMAIN base.turns \cup P
      /\ \A u \in P : /\ h.turns[u].terminal /\ h.turns[u].entries = HistOld(base, u).entries
                      /\ h.turns[u].notes = HistOld(base, u).notes /\ h.turns[u].at = HistOld(base, u).at
      /\ \A u \in DOMAIN base.turns \ P : h.turns[u] = base.turns[u]
  BY <1>1, HistPlaceholders
<1>3. base.order \in Seq(Nat) /\ base.cont \in HistConts /\ base.through \in Int
  BY <1>1, HistsAre
<1>4. /\ p \in 0 .. Len(base.order) /\ Len(base.order) \in Nat
      /\ \A t : t \in P <=> \E i \in 1 .. p : base.order[i] = t
  BY <1>3, HistPrefix
<1>5. /\ HistOrders(log, b, base, k) /\ HistSummed(log, b, base, k, a) /\ HistTurnsOf(log, b, base, k)
      /\ \A i \in p + 1 .. Len(base.order) : HistRawTurn(log, b, base, base.order[i], a)
      /\ base.through <= Len(log)
  BY <1>1 DEF HistKnows
<1>6. \A i \in 1 .. Len(base.order) : base.order[i] \in 1 .. k
  BY <1>5 DEF HistOrders
<1>7. P \subseteq 1 .. k /\ DOMAIN base.turns \subseteq 1 .. k
  <2>1. \A i \in 1 .. p : i \in 1 .. Len(base.order)
    BY <1>4
  <2> QED
    BY <1>4, <1>5, <1>6, <2>1 DEF HistTurnsOf
<1>8. \A i \in 1 .. Len(base.order) : base.order[i] \in P \/ HistRawTurn(log, b, base, base.order[i], a)
  <2>1. \A i \in 1 .. Len(base.order) : i \in 1 .. p \/ i \in p + 1 .. Len(base.order)
    BY <1>4
  <2> QED
    BY <1>4, <1>5, <2>1
<1>9. \A i \in 1 .. Len(base.order) : base.order[i] \in DOMAIN h.turns /\ h.turns[base.order[i]].terminal
  BY <1>2, <1>8 DEF HistRawTurn
<1>10. 1 .. k \subseteq 1 .. last /\ 1 .. 0 = {}
  BY <1>1
<1> SUFFICES HistFolded(log, b, base, k, a, last, h, 0)
  OBVIOUS
<1>11. HistFoldOrder(log, b, base, k, last, h, 0)
  <2> HIDE DEF h, P, p
  <2>1. /\ \A i, j \in 1 .. Len(h.order) : h.order[i] = h.order[j] => i = j
        /\ \A i, j \in 1 .. Len(h.order) :
              i < j /\ HistDone(log, b, h.order[i]) /\ HistDone(log, b, h.order[j]) => h.order[i] < h.order[j]
    BY <1>2, <1>5 DEF HistOrders
  <2>2. \A i \in 1 .. Len(h.order) : h.order[i] \in 1 .. last /\ h.order[i] \in DOMAIN h.turns
    BY <1>2, <1>6, <1>9, <1>10
  <2>3. Len(base.order) <= Len(h.order) /\ Len(base.order) + 1 .. Len(h.order) = {}
    BY <1>2, <1>4
  <2>4. \A i \in 1 .. Len(base.order) : h.order[i] = base.order[i]
    BY <1>2
  <2> QED
    BY <2>1, <2>2, <2>3, <2>4 DEF HistFoldOrder
<1>12. ASSUME NEW t \in DOMAIN h.turns
       PROVE  /\ t \in DOMAIN base.turns => /\ h.turns[t].entries = base.turns[t].entries
                                            /\ h.turns[t].notes = base.turns[t].notes
                                            /\ h.turns[t].at = base.turns[t].at
              /\ t \notin DOMAIN base.turns => h.turns[t].entries = <<>> /\ h.turns[t].notes = <<>> /\ h.turns[t].at = 0
  <2>1. CASE t \in P /\ t \in DOMAIN base.turns
    BY <1>2, <2>1 DEF HistOld
  <2>2. CASE t \in P /\ t \notin DOMAIN base.turns
    <3>1. HistOld(base, t) = NewReplayedTurn
      BY <2>2 DEF HistOld
    <3> HIDE DEF h, P
    <3> QED
      BY <1>2, <2>2, <3>1, HistNewTurnIs
  <2>3. CASE t \notin P
    BY <1>2, <1>12, <2>3
  <2> QED
    BY <2>1, <2>2, <2>3
<1>13. HistTurnsOf(log, b, h, last)
  <2> HIDE DEF h, P, p
  <2> SUFFICES ASSUME NEW t \in DOMAIN h.turns
               PROVE  /\ t \in 1 .. last
                      /\ \A n \in ToSet(h.turns[t].entries) \cup ToSet(h.turns[t].notes) :
                            n \in 1 .. Len(log) /\ log[n].turn = t
                      /\ HistTold(log, b, t) => \A e \in 1 .. Len(log) : HistEndsAt(log, t, e) => h.turns[t].at <= e
    BY DEF HistTurnsOf
  <2>1. t \in 1 .. last
    BY <1>2, <1>7, <1>10
  <2>2. CASE t \in DOMAIN base.turns
    BY <1>5, <1>12, <2>1, <2>2 DEF HistTurnsOf
  <2>3. CASE t \notin DOMAIN base.turns
    <3>1. ToSet(<<>>) = {}
      BY DEF ToSet
    <3>2. \A e \in 1 .. Len(log) : 0 <= e
      OBVIOUS
    <3> QED
      BY <1>12, <2>1, <2>3, <3>1, <3>2
  <2> QED
    BY <2>2, <2>3
<1>14. HistFoldNew(log, b, k, a, last, h, 0)
  <2> HIDE DEF h, P, p
  <2> SUFFICES ASSUME NEW t \in k + 1 .. last PROVE HistFoldNewTurn(log, b, a, h, 0, t)
    BY DEF HistFoldNew
  <2>1. t \notin DOMAIN h.turns
    BY <1>1, <1>2, <1>7
  <2>2. HistOld(h, t) = NewReplayedTurn
    BY <2>1 DEF HistOld
  <2>3. \A m \in HistLate(log, t) : ~(m <= 0)
    BY DEF HistLate
  <2>4. Select(<<>>, HistPlain(log)) = <<>> /\ HistSaid(log, t, 0) = <<>>
    BY SelectEmpty, HistSaidNext
  <2> QED
    BY <1>10, <2>1, <2>2, <2>3, <2>4, HistNewTurnIs DEF HistFoldNewTurn
<1>15. HistFoldOld(log, b, base, a, h, 0)
  <2> HIDE DEF h, P
  <2> SUFFICES ASSUME NEW i \in 1 .. Len(base.order) PROVE HistFoldOldTurn(log, b, base, a, h, 0, i)
    BY DEF HistFoldOld
  <2>1. \A m \in HistLate(log, base.order[i]) : ~(m <= 0)
    BY DEF HistLate
  <2>2. i > p => base.order[i] \in DOMAIN base.turns
    <3>1. i > p => i \in p + 1 .. Len(base.order)
      BY <1>4
    <3> QED
      BY <1>5, <3>1 DEF HistRawTurn
  <2>3. h.turns[base.order[i]].terminal /\ base.order[i] \in DOMAIN h.turns
    BY <1>9
  <2>4. i > p => /\ h.turns[base.order[i]].entries = base.turns[base.order[i]].entries
                 /\ h.turns[base.order[i]].at = base.turns[base.order[i]].at
                 /\ ToSet(base.turns[base.order[i]].notes) \subseteq ToSet(h.turns[base.order[i]].notes)
    BY <1>12, <2>2, <2>3
  <2> QED
    BY <2>1, <2>3, <2>4 DEF HistFoldOldTurn
<1>16. HistFoldCont(log, b, base, k, a, last, h, 0)
  <2> HIDE DEF h, P, p
  <2>1. HistSumsUp(log, b, base.cont, k, 1 .. a)
    BY <1>5 DEF HistSummed
  <2>2. HistSumsUp(log, b, base.cont, last, 1 .. a)
    <3>1. \A t \in 1 .. k : HistLate(log, t) \cap (1 .. a) \subseteq 1 .. a
      OBVIOUS
    <3>2. k \in Int /\ last \in Int
      BY <1>1
    <3> HIDE <1>1, <1>2, <1>3, <1>4, <1>5
    <3> QED
      BY <1>1, <2>1, <3>1, <3>2, HistSumsUpLess
  <2>3. ~(base.cont.frontier > k)
    <3>1. base.cont = NoSummary \/ base.cont.frontier \in 1 .. k
      BY <2>1 DEF HistSumsUp
    <3>2. NoSummary.frontier = 0
      BY DEF NoSummary
    <3> QED
      BY <1>1, <3>1, <3>2
  <2> QED
    BY <1>2, <1>10, <2>2, <2>3 DEF HistFoldCont
<1>17. HistFoldSeen(log, base, a, h, 0)
  <2> HIDE DEF h, P, p
  <2> QED
    BY <1>2, <1>3, <1>5, <1>10 DEF HistFoldSeen
<1> QED
  BY <1>2, <1>11, <1>13, <1>14, <1>15, <1>16, <1>17 DEF HistFolded

LEMMA HistFolds ==
    ASSUME NEW log, NEW b, NEW base, NEW k, NEW a, NEW last, NEW current,
           HistOver(log, b, base, k, a, last, current)
    PROVE  \E h : /\ HistFolded(log, b, base, k, a, last, h, Len(log))
                  /\ BuildHistory(log, base, a, current) = HistComplete(h)
<1>1. log \in Seq(HistEvents) /\ base \in Hists /\ Len(log) \in Nat
  BY HistOverIs DEF HistLogWell
<1>2. PICK part : /\ part[0] = Placeholders(base)
                  /\ \A n \in 1 .. Len(log) : part[n] = HistStep(log, part[n - 1], n, a, current)
                  /\ BuildHistory(log, base, a, current) = HistComplete(part[Len(log)])
  BY <1>1, HistBuilds, SMTT(60)
<1> DEFINE T == {n \in Nat : n <= Len(log) => HistFolded(log, b, base, k, a, last, part[n], n)}
<1>3. 0 \in T
  BY <1>2, HistFoldsFrom
<1>4. ASSUME NEW n \in Nat, n \in T PROVE n + 1 \in T
  <2> SUFFICES ASSUME n + 1 <= Len(log) PROVE HistFolded(log, b, base, k, a, last, part[n + 1], n + 1)
    OBVIOUS
  <2>1. n + 1 \in 1 .. Len(log) /\ n + 1 - 1 = n /\ n <= Len(log)
    BY <1>1
  <2>2. HistFolded(log, b, base, k, a, last, part[n], n + 1 - 1)
    BY <1>4, <2>1
  <2>3. part[n + 1] = HistStep(log, part[n], n + 1, a, current)
    BY <1>2, <2>1
  <2> QED
    BY <2>1, <2>2, <2>3, HistStepFolds
<1> HIDE DEF T
<1>5. Nat \subseteq T
  BY <1>3, <1>4, ClosedIsNat
<1>6. HistFolded(log, b, base, k, a, last, part[Len(log)], Len(log))
  BY <1>1, <1>5 DEF T
<1> QED
  BY <1>2, <1>6

(* What is selected of a sequence, and in which order.                            *)
HistPicked(s, S, q) ==
    /\ q \in Seq(Nat)
    /\ \A i \in 1 .. Len(q) : q[i] \in S /\ \E x \in 1 .. Len(s) : s[x] = q[i]
    /\ \A i, j \in 1 .. Len(q) : i < j => \E x, y \in 1 .. Len(s) : x < y /\ s[x] = q[i] /\ s[y] = q[j]
    /\ \A x \in 1 .. Len(s) : s[x] \in S => \E i \in 1 .. Len(q) : q[i] = s[x]

LEMMA HistPickedNext ==
    ASSUME NEW S, NEW s \in Seq(Nat), NEW q, HistPicked(s, S, q), NEW e \in Nat
    PROVE  HistPicked(Append(s, e), S, IF e \in S THEN Append(q, e) ELSE q)
<1> DEFINE z == Append(s, e)
           w == Append(q, e)
<1>1. /\ z \in Seq(Nat) /\ Len(s) \in Nat /\ Len(z) = Len(s) + 1 /\ z[Len(s) + 1] = e
      /\ \A i \in 1 .. Len(s) : z[i] = s[i]
  OBVIOUS
<1>2. q \in Seq(Nat)
  BY DEF HistPicked
<1>3. /\ w \in Seq(Nat) /\ Len(q) \in Nat /\ Len(w) = Len(q) + 1 /\ w[Len(q) + 1] = e
      /\ \A i \in 1 .. Len(q) : w[i] = q[i]
  BY <1>2
<1>4. /\ \A i \in 1 .. Len(z) : i \in 1 .. Len(s) \/ i = Len(s) + 1
      /\ \A i \in 1 .. Len(w) : i \in 1 .. Len(q) \/ i = Len(q) + 1
      /\ 1 .. Len(s) \subseteq 1 .. Len(z) /\ Len(s) + 1 \in 1 .. Len(z)
      /\ 1 .. Len(q) \subseteq 1 .. Len(w) /\ Len(q) + 1 \in 1 .. Len(w)
  <2> HIDE DEF z, w
  <2> QED
    BY <1>1, <1>3, SMTT(60)
<1> SUFFICES HistPicked(z, S, IF e \in S THEN w ELSE q)
  OBVIOUS
<1> HIDE DEF z, w
<1>5. \A i \in 1 .. Len(q) : q[i] \in S /\ \E x \in 1 .. Len(z) : z[x] = q[i]
  BY <1>1, <1>4 DEF HistPicked
<1>6. ASSUME NEW i \in 1 .. Len(q), NEW j \in 1 .. Len(q), i < j
      PROVE  \E x, y \in 1 .. Len(z) : x < y /\ z[x] = q[i] /\ z[y] = q[j]
  <2>1. PICK x \in 1 .. Len(s), y \in 1 .. Len(s) : x < y /\ s[x] = q[i] /\ s[y] = q[j]
    BY <1>6 DEF HistPicked
  <2>2. x \in 1 .. Len(z) /\ y \in 1 .. Len(z) /\ z[x] = q[i] /\ z[y] = q[j]
    BY <1>1, <1>4, <2>1
  <2> QED
    BY <2>1, <2>2
<1>7. CASE e \in S
  <2>1. \A i \in 1 .. Len(w) : w[i] \in S /\ \E x \in 1 .. Len(z) : z[x] = w[i]
    BY <1>1, <1>3, <1>4, <1>5, <1>7
  <2>2. ASSUME NEW i \in 1 .. Len(w), NEW j \in 1 .. Len(w), i < j
        PROVE  \E x, y \in 1 .. Len(z) : x < y /\ z[x] = w[i] /\ z[y] = w[j]
    <3>1. i \in 1 .. Len(q)
      BY <1>3, <2>2
    <3>2. CASE j \in 1 .. Len(q)
      <4>1. w[i] = q[i] /\ w[j] = q[j]
        BY <1>3, <3>1, <3>2
      <4> QED
        BY <1>6, <2>2, <3>1, <3>2, <4>1
    <3>3. CASE j = Len(q) + 1
      <4>1. PICK x \in 1 .. Len(s) : s[x] = q[i]
        BY <3>1 DEF HistPicked
      <4>2. x < Len(s) + 1 /\ x \in 1 .. Len(z) /\ Len(s) + 1 \in 1 .. Len(z) /\ z[x] = w[i] /\ z[Len(s) + 1] = w[j]
        BY <1>1, <1>3, <1>4, <3>1, <3>3, <4>1
      <4> QED
        BY <4>2
    <3> QED
      BY <1>4, <3>2, <3>3
  <2>3. \A x \in 1 .. Len(z) : z[x] \in S => \E i \in 1 .. Len(w) : w[i] = z[x]
    <3>1. \A x \in 1 .. Len(s) : s[x] \in S => \E i \in 1 .. Len(q) : q[i] = s[x]
      BY DEF HistPicked
    <3> QED
      BY <1>1, <1>3, <1>4, <3>1
  <2>4. HistPicked(z, S, w)
    BY <1>3, <2>1, <2>2, <2>3 DEF HistPicked
  <2> QED
    BY <1>7, <2>4
<1>8. CASE e \notin S
  <2>1. \A x \in 1 .. Len(z) : z[x] \in S => \E i \in 1 .. Len(q) : q[i] = z[x]
    <3>1. \A x \in 1 .. Len(s) : s[x] \in S => \E i \in 1 .. Len(q) : q[i] = s[x]
      BY DEF HistPicked
    <3> QED
      BY <1>1, <1>4, <1>8, <3>1
  <2>2. HistPicked(z, S, q)
    BY <1>2, <1>5, <1>6, <2>1 DEF HistPicked
  <2> QED
    BY <1>8, <2>2
<1> QED
  BY <1>7, <1>8

LEMMA HistPicks ==
    ASSUME NEW s \in Seq(Nat), NEW S
    PROVE  HistPicked(s, S, Select(s, S))
<1> DEFINE T == {q \in Seq(Nat) : HistPicked(q, S, Select(q, S))}
<1>1. <<>> \in T
  <2>1. Select(<<>>, S) = <<>> /\ <<>> \in Seq(Nat) /\ Len(<<>>) = 0 /\ 1 .. 0 = {}
    BY SelectEmpty
  <2>2. HistPicked(<<>>, S, <<>>)
    BY <2>1 DEF HistPicked
  <2> QED
    BY <2>1, <2>2
<1>2. ASSUME NEW q \in Seq(Nat), NEW e \in Nat, q \in T PROVE Append(q, e) \in T
  <2>1. Select(Append(q, e), S) = IF e \in S THEN Append(Select(q, S), e) ELSE Select(q, S)
    BY SelectAppend
  <2>2. HistPicked(q, S, Select(q, S))
    BY <1>2
  <2>3. HistPicked(Append(q, e), S, IF e \in S THEN Append(Select(q, S), e) ELSE Select(q, S))
    BY <2>2, HistPickedNext
  <2>4. Append(q, e) \in Seq(Nat)
    BY <1>2
  <2>5. HistPicked(Append(q, e), S, Select(Append(q, e), S))
    BY <2>1, <2>3
  <2> QED
    BY <2>4, <2>5
<1> HIDE DEF T
<1>3. Seq(Nat) \subseteq T
  BY <1>1, <1>2, ClosedIsSeq
<1> QED
  BY <1>3 DEF T

LEMMA HistSaidAre ==
    ASSUME NEW log, NEW t, NEW m \in Nat
    PROVE  /\ ToSet(HistSaid(log, t, m)) = HistSpeaks(log, t) \cap (1 .. m)
           /\ HistSaid(log, t, m) \in Seq(Nat)
           /\ HistSaid(log, t, m) = <<>> <=> HistSpeaks(log, t) \cap (1 .. m) = {}
<1> DEFINE s == HistPlaces(m)
           S == HistSpeaks(log, t)
           q == HistSaid(log, t, m)
<1>1. s \in Seq(Nat) /\ Len(s) = m /\ \A i \in 1 .. m : s[i] = i
  BY HistPlacesAre
<1>2. HistPicked(s, S, q)
  BY <1>1, HistPicks DEF HistSaid
<1> HIDE DEF s, S, q
<1>3. q \in Seq(Nat)
  BY <1>2 DEF HistPicked
<1>4. ToSet(q) = {q[i] : i \in 1 .. Len(q)}
  BY <1>3 DEF ToSet
<1>5. \A i \in 1 .. Len(q) : q[i] \in S \cap (1 .. m)
  BY <1>1, <1>2 DEF HistPicked
<1>6. \A x \in S \cap (1 .. m) : \E i \in 1 .. Len(q) : q[i] = x
  BY <1>1, <1>2, SMTT(60) DEF HistPicked
<1>7. ToSet(q) = S \cap (1 .. m)
  BY <1>4, <1>5, <1>6
<1>8. q = <<>> <=> ToSet(q) = {}
  <2>1. q = <<>> => Len(q) = 0
    OBVIOUS
  <2>2. q # <<>> => 1 \in 1 .. Len(q)
    BY <1>3
  <2> QED
    BY <1>4, <2>1, <2>2
<1> QED
  BY <1>3, <1>7, <1>8 DEF S, q

(* A sequence whose first p elements stay, and of the others those in S.          *)
HistThinned(o, p, S, w) ==
    /\ w \in Seq(Nat) /\ p <= Len(w) /\ \A i \in 1 .. p : w[i] = o[i]
    /\ \A i \in p + 1 .. Len(w) : w[i] \in S /\ \E x \in p + 1 .. Len(o) : o[x] = w[i]
    /\ \A i, j \in 1 .. Len(w) : i < j => \E x, y \in 1 .. Len(o) : x < y /\ o[x] = w[i] /\ o[y] = w[j]
    /\ \A x \in 1 .. Len(o) : x <= p \/ o[x] \in S => \E i \in 1 .. Len(w) : w[i] = o[x]

LEMMA HistThins ==
    ASSUME NEW o \in Seq(Nat), NEW p \in 0 .. Len(o), NEW S
    PROVE  HistThinned(o, p, S, SubSeq(o, 1, p) \o Select(SubSeq(o, p + 1, Len(o)), S))
<1> DEFINE d == SubSeq(o, 1, p)
           s == SubSeq(o, p + 1, Len(o))
           q == Select(s, S)
           w == d \o q
<1>1. Len(o) \in Nat /\ p \in Nat /\ p <= Len(o)
  OBVIOUS
<1>2. d \in Seq(Nat) /\ Len(d) = p /\ \A i \in 1 .. p : d[i] = o[i]
  BY <1>1
<1>3. s \in Seq(Nat) /\ Len(s) = Len(o) - p /\ \A i \in 1 .. Len(o) - p : s[i] = o[i + p]
  BY <1>1
<1>4. HistPicked(s, S, q)
  BY <1>3, HistPicks
<1>5. q \in Seq(Nat)
  BY <1>4 DEF HistPicked
<1> HIDE DEF d, s, q
<1>6. /\ w \in Seq(Nat) /\ Len(q) \in Nat /\ Len(w) = p + Len(q) /\ \A i \in 1 .. p : w[i] = d[i]
      /\ \A i \in p + 1 .. Len(w) : w[i] = q[i - p]
  <2>1. Len(q) \in Nat /\ Len(d) = p /\ d \in Seq(Nat)
    BY <1>2, <1>5
  <2>2. /\ w \in Seq(Nat) /\ Len(w) = Len(d) + Len(q)
        /\ \A i \in 1 .. Len(d) + Len(q) : w[i] = IF i <= Len(d) THEN d[i] ELSE q[i - Len(d)]
    BY <2>1, <1>5, ConcatProperties
  <2> HIDE DEF w
  <2> QED
    BY <1>1, <2>1, <2>2, SMTT(60)
<1> SUFFICES HistThinned(o, p, S, w)
  BY DEF d, q, s
<1> HIDE DEF w
<1>7. \A i \in p + 1 .. Len(w) : i - p \in 1 .. Len(q)
  BY <1>1, <1>6
<1>8. \A x \in 1 .. Len(s) : x + p \in p + 1 .. Len(o) /\ x + p \in 1 .. Len(o) /\ s[x] = o[x + p]
  BY <1>1, <1>3
<1>9. \A i \in p + 1 .. Len(w) : w[i] \in S /\ \E x \in p + 1 .. Len(o) : o[x] = w[i]
  <2> SUFFICES ASSUME NEW i \in p + 1 .. Len(w) PROVE w[i] \in S /\ \E x \in p + 1 .. Len(o) : o[x] = w[i]
    OBVIOUS
  <2>1. i - p \in 1 .. Len(q) /\ w[i] = q[i - p]
    BY <1>6, <1>7
  <2>2. q[i - p] \in S /\ \E x \in 1 .. Len(s) : s[x] = q[i - p]
    BY <1>4, <2>1 DEF HistPicked
  <2> QED
    BY <1>8, <2>1, <2>2
<1>10. ASSUME NEW i \in 1 .. Len(w), NEW j \in 1 .. Len(w), i < j
       PROVE  \E x, y \in 1 .. Len(o) : x < y /\ o[x] = w[i] /\ o[y] = w[j]
  <2>1. CASE j <= p
    <3>1. i \in 1 .. p /\ j \in 1 .. p /\ i \in 1 .. Len(o) /\ j \in 1 .. Len(o)
      BY <1>1, <1>10, <2>1
    <3> QED
      BY <1>2, <1>6, <1>10, <3>1, ZenonT(60)
  <2>2. CASE i <= p /\ j > p
    <3>1. i \in 1 .. p /\ i \in 1 .. Len(o) /\ j \in p + 1 .. Len(w)
      BY <1>1, <2>2
    <3>2. PICK x \in p + 1 .. Len(o) : o[x] = w[j]
      BY <1>9, <3>1
    <3>3. i < x /\ x \in 1 .. Len(o)
      BY <1>1, <2>2, <3>2
    <3>4. o[i] = w[i]
      BY <1>2, <1>6, <3>1
    <3> QED
      BY <3>1, <3>2, <3>3, <3>4
  <2>3. CASE i > p
    <3>1. i \in p + 1 .. Len(w) /\ j \in p + 1 .. Len(w) /\ i - p < j - p
      BY <1>1, <1>6, <1>10, <2>3
    <3>2. PICK x \in 1 .. Len(s), y \in 1 .. Len(s) : x < y /\ s[x] = q[i - p] /\ s[y] = q[j - p]
      BY <1>4, <1>7, <3>1, ZenonT(60) DEF HistPicked
    <3>3. x + p < y + p
      BY <1>1, <1>3, <3>2
    <3> QED
      BY <1>6, <1>8, <3>1, <3>2, <3>3, ZenonT(60)
  <2> QED
    <3>1. i \in Nat /\ j \in Nat
      OBVIOUS
    <3>2. j <= p \/ (i <= p /\ j > p) \/ i > p
      BY <1>1, <3>1
    <3> QED
      BY <2>1, <2>2, <2>3, <3>2
<1>11. ASSUME NEW x \in 1 .. Len(o), x <= p \/ o[x] \in S
       PROVE  \E i \in 1 .. Len(w) : w[i] = o[x]
  <2>1. CASE x <= p
    <3>1. x \in 1 .. p /\ x \in 1 .. Len(w)
      BY <1>1, <1>6, <2>1
    <3> QED
      BY <1>2, <1>6, <3>1
  <2>2. CASE x > p
    <3>1. x - p \in 1 .. Len(s) /\ s[x - p] = o[x] /\ x - p \in 1 .. Len(o) - p /\ x - p + p = x
      BY <1>1, <1>3, <2>2
    <3>a. s[x - p] \in S /\ x - p \in 1 .. Len(s)
      <4>1. ~(x <= p)
        BY <1>1, <2>2
      <4> QED
        BY <1>11, <3>1, <4>1
    <3>b. \A k \in 1 .. Len(s) : s[k] \in S => \E i \in 1 .. Len(q) : q[i] = s[k]
      BY <1>4 DEF HistPicked
    <3>2. PICK i \in 1 .. Len(q) : q[i] = o[x]
      BY <3>1, <3>a, <3>b
    <3>3. i + p \in p + 1 .. Len(w) /\ i + p \in 1 .. Len(w) /\ i + p - p = i
      BY <1>1, <1>6
    <3>4. w[i + p] = q[i]
      <4> PICK z : z = i + p
        OBVIOUS
      <4>1. z \in p + 1 .. Len(w) /\ z - p = i
        BY <3>3
      <4>2. w[z] = q[z - p]
        BY <1>6, <4>1
      <4> QED
        BY <4>1, <4>2
    <3> QED
      BY <3>2, <3>3, <3>4
  <2> QED
    BY <1>1, <2>1, <2>2
<1> QED
  BY <1>1, <1>2, <1>6, <1>9, <1>10, <1>11, SMTT(60) DEF HistThinned

(* What completing a folded history does.                                         *)
HistSaying(h) == {t \in DOMAIN h.turns : h.turns[t].terminal /\ HasReplayContent(h.turns[t])}
HistAdded(h) == UNION {PostTerminalNotes(h.turns[t]) : t \in PrefixTurns(h.order, h.cont)}
HistCompleteSays(h, r) ==
    /\ r \in Hists /\ r.turns = h.turns /\ r.through = h.through
    /\ HistThinned(h.order, PrefixCount(h.order, h.cont), HistSaying(h), r.order)
    /\ \A i, j \in 1 .. Len(r.order) : r.order[i] = r.order[j] => i = j
    /\ PrefixCount(r.order, r.cont) = PrefixCount(h.order, h.cont)
    /\ r.cont.frontier = h.cont.frontier
    /\ h.cont = NoSummary => r.cont = NoSummary
    /\ h.cont # NoSummary => r.cont.covers = h.cont.covers \cup HistAdded(h)

LEMMA HistPrefixAt ==
    ASSUME NEW w \in Seq(Nat), NEW c \in HistConts, NEW p \in 1 .. Len(w), w[p] = c.frontier,
           \A i, j \in 1 .. Len(w) : w[i] = w[j] => i = j
    PROVE  PrefixCount(w, c) = p
<1>1. HistInOrder(w, c.frontier)
  BY DEF HistInOrder
<1>2. PrefixCount(w, c) \in 1 .. Len(w) /\ w[PrefixCount(w, c)] = c.frontier
  BY <1>1, HistPrefix
<1> QED
  BY <1>2

(* Every turn of a sequence appears once.                                     *)
HistApart(s) == \A i, j \in 1 .. Len(s) : s[i] = s[j] => i = j

LEMMA HistThinnedOnce ==
    ASSUME NEW o \in Seq(Nat), NEW p, NEW S, NEW w, HistThinned(o, p, S, w),
           HistApart(o)
    PROVE  HistApart(w)
<1>0. \A i, j \in 1 .. Len(o) : o[i] = o[j] => i = j
  BY DEF HistApart
<1> SUFFICES \A i, j \in 1 .. Len(w) : w[i] = w[j] => i = j
  BY DEF HistApart
<1>1. ASSUME NEW i \in 1 .. Len(w), NEW j \in 1 .. Len(w), i < j PROVE w[i] # w[j]
  <2>1. PICK x \in 1 .. Len(o), y \in 1 .. Len(o) : x < y /\ o[x] = w[i] /\ o[y] = w[j]
    BY <1>1 DEF HistThinned
  <2>2. x \in Int /\ y \in Int /\ x # y
    BY <2>1
  <2> QED
    BY <1>0, <2>1, <2>2
<1> SUFFICES ASSUME NEW i \in 1 .. Len(w), NEW j \in 1 .. Len(w), i # j PROVE w[i] # w[j]
  OBVIOUS
<1>2. i < j \/ j < i
  OBVIOUS
<1> QED
  BY <1>1, <1>2

HistPutCount(c, p, f) == [c EXCEPT !.count = p, !.frontier = f]
HistPutOrder(h, y, z) == [h EXCEPT !.order = y, !.cont = z]

LEMMA HistContPut ==
    ASSUME NEW c \in HistConts, NEW p \in Nat, NEW f \in Nat
    PROVE  /\ HistPutCount(c, p, f) \in HistConts /\ HistPutCount(c, p, f).frontier = f
           /\ HistPutCount(c, p, f).count = p /\ HistPutCount(c, p, f).covers = c.covers
  BY DEF HistConts, HistPutCount

LEMMA HistOrderPut ==
    ASSUME NEW o, NEW m, NEW c, NEW x, NEW y, NEW z
    PROVE  HistPutOrder(HistOf(o, m, c, x), y, z) = HistOf(y, m, z, x)
<1>1. [HistOf(o, m, c, x) EXCEPT !.order = y] = HistOf(y, m, c, x)
  BY DEF HistOf
<1>2. [HistOf(y, m, c, x) EXCEPT !.cont = z] = HistOf(y, m, z, x)
  BY DEF HistOf
<1> QED
  BY <1>1, <1>2 DEF HistPutOrder

LEMMA HistAddedIs ==
    ASSUME NEW h \in Hists, PrefixTurns(h.order, h.cont) \subseteq DOMAIN h.turns
    PROVE  HistAdded(h) \in SUBSET Nat
<1>1. \A t \in DOMAIN h.turns : h.turns[t] \in HistTurnRecs
  BY HistsAre, HistMapsAre
<1>2. ASSUME NEW t \in DOMAIN h.turns PROVE PostTerminalNotes(h.turns[t]) \subseteq Nat
  <2>1. h.turns[t].notes \in Seq(Nat)
    BY <1>1, HistTurnRecTyped
  <2>2. ToSet(h.turns[t].notes) \subseteq Nat
    BY <2>1 DEF ToSet
  <2> QED
    BY <2>2 DEF PostTerminalNotes
<1> QED
  BY <1>2 DEF HistAdded

LEMMA HistCompleteIs ==
    ASSUME NEW h \in Hists, PrefixTurns(h.order, h.cont) \subseteq DOMAIN h.turns,
           \A i \in 1 .. Len(h.order) : h.order[i] # 0,
           \A i, j \in 1 .. Len(h.order) : h.order[i] = h.order[j] => i = j,
           h.cont = NoSummary \/ (HistInOrder(h.order, h.cont.frontier) /\ h.cont.frontier # 0)
    PROVE  HistCompleteSays(h, HistComplete(h))
<1>0. \A i, j \in 1 .. Len(h.order) : h.order[i] = h.order[j] => i = j
  OBVIOUS
<1> PICK o, c, w, p : o = h.order /\ c = h.cont /\ w = CompletedOrder(h) /\ p = PrefixCount(h.order, h.cont)
  OBVIOUS
<1>1. o \in Seq(Nat) /\ c \in HistConts /\ h.turns \in HistMaps /\ h.through \in Int
      /\ h = HistOf(o, h.turns, c, h.through)
  BY HistsAre
<1>2. p \in 0 .. Len(o) /\ Len(o) \in Nat
  BY <1>1, HistPrefix
<1>3. HistThinned(o, p, HistSaying(h), w)
  <2>1. w = SubSeq(o, 1, p) \o Select(SubSeq(o, p + 1, Len(o)), HistSaying(h))
    BY DEF CompletedOrder, HistSaying
  <2> QED
    BY <1>1, <1>2, <2>1, HistThins, SMTT(60)
<1>4. w \in Seq(Nat) /\ p <= Len(w) /\ Len(w) \in Nat /\ \A i \in 1 .. p : w[i] = o[i]
  BY <1>3 DEF HistThinned
<1>5. \A i, j \in 1 .. Len(w) : w[i] = w[j] => i = j
  <2>1. HistApart(o)
    BY <1>0, Zenon DEF HistApart
  <2>2. o \in Seq(Nat)
    BY <1>1
  <2>3. HistApart(w)
    BY <1>3, <2>1, <2>2, HistThinnedOnce
  <2> QED
    BY <2>3 DEF HistApart
<1> DEFINE n == NormalizeSummary(w, c)
           d == AppendSummaryNotes(w, n, h.turns)
           r == HistComplete(h)
<1>6. r = [h EXCEPT !.order = w, !.cont = d]
  BY DEF HistComplete
<1>7. r = HistOf(w, h.turns, d, h.through)
  <2> HIDE DEF r, d
  <2>1. HistPutOrder(HistOf(o, h.turns, c, h.through), w, d) = HistOf(w, h.turns, d, h.through)
    BY HistOrderPut
  <2>2. r = HistPutOrder(h, w, d)
    BY <1>6 DEF HistPutOrder
  <2> QED
    BY <1>1, <2>1, <2>2
<1>8. r.order = w /\ r.turns = h.turns /\ r.cont = d /\ r.through = h.through
  BY <1>7, HistOfIs
<1>9. ASSUME d \in HistConts, PrefixCount(w, d) = p, d.frontier = c.frontier, c = NoSummary => d = NoSummary,
             c # NoSummary => d.covers = c.covers \cup HistAdded(h)
      PROVE  HistCompleteSays(h, r)
  <2> HIDE DEF r, d
  <2>1. r \in Hists
    BY <1>1, <1>4, <1>7, <1>9, HistsAre
  <2> QED
    BY <1>3, <1>5, <1>8, <1>9, <2>1 DEF HistCompleteSays
<1> HIDE DEF r
<1> SUFFICES /\ d \in HistConts /\ PrefixCount(w, d) = p /\ d.frontier = c.frontier /\ (c = NoSummary => d = NoSummary)
             /\ c # NoSummary => d.covers = c.covers \cup HistAdded(h)
  BY <1>9 DEF r
<1>10. CASE c = NoSummary
  <2>1. c.frontier = 0
    BY <1>10 DEF NoSummary
  <2>2. \A i \in 1 .. Len(w) : w[i] # 0
    <3>1. ASSUME NEW i \in 1 .. Len(w) PROVE \E x \in 1 .. Len(o) : o[x] = w[i]
      <4>1. CASE i \in 1 .. p
        BY <1>2, <1>4, <4>1
      <4>2. CASE i \notin 1 .. p
        <5>1. i \in p + 1 .. Len(w)
          BY <1>2, <4>2
        <5>2. PICK x \in p + 1 .. Len(o) : o[x] = w[i]
          BY <1>3, <5>1 DEF HistThinned
        <5>3. x \in 1 .. Len(o)
          BY <1>2
        <5> QED
          BY <5>2, <5>3
      <4> QED
        BY <4>1, <4>2
    <3> QED
      BY <3>1
  <2>3. PrefixCount(w, c) = 0
    BY <1>1, <1>4, <2>1, <2>2, HistPrefix DEF HistInOrder
  <2>4. p = 0
    BY <1>1, <2>1, HistPrefix, SMTT(60) DEF HistInOrder
  <2>5. n = c
    BY <2>3 DEF NormalizeSummary
  <2> HIDE DEF n
  <2>6. d = c
    BY <1>10, <2>5 DEF AppendSummaryNotes
  <2> HIDE DEF d
  <2> QED
    BY <1>1, <1>10, <2>3, <2>4, <2>6
<1>11. CASE c # NoSummary
  <2>1. HistInOrder(o, c.frontier) /\ c.frontier # 0 /\ c.frontier \in Nat
    BY <1>1, <1>11, HistContsAre
  <2>2. p \in 1 .. Len(o) /\ o[p] = c.frontier
    BY <1>1, <2>1, HistPrefix
  <2>3. p \in 1 .. Len(w) /\ w[p] = c.frontier /\ p \in 1 .. p /\ p # 0 /\ p \in Nat
    BY <1>2, <1>4, <2>2
  <2>4. PrefixCount(w, c) = p
    BY <1>1, <1>4, <1>5, <2>3, HistPrefixAt
  <2>5. n = [c EXCEPT !.count = p, !.frontier = w[p]]
    BY <2>3, <2>4 DEF NormalizeSummary
  <2>6. n = [c EXCEPT !.count = p, !.frontier = c.frontier]
    BY <2>3, <2>5
  <2> HIDE DEF n
  <2>7. n \in HistConts /\ n.frontier = c.frontier /\ n.covers = c.covers
    <3> PICK f : f = c.frontier
      OBVIOUS
    <3>1. /\ HistPutCount(c, p, f) \in HistConts /\ HistPutCount(c, p, f).frontier = f
          /\ HistPutCount(c, p, f).covers = c.covers
      <4>1. c \in HistConts /\ p \in Nat /\ f \in Nat
        BY <1>1, <2>1, <2>3
      <4> HIDE DEF d
      <4>2. HistPutCount(c, p, f) \in HistConts
        BY <4>1, HistContPut
      <4>3. HistPutCount(c, p, f).frontier = f
        BY <4>1 DEF HistPutCount, HistConts
      <4>4. HistPutCount(c, p, f).covers = c.covers
        BY <4>1 DEF HistPutCount, HistConts
      <4> QED
        BY <4>2, <4>3, <4>4
    <3>2. n = HistPutCount(c, p, f)
      BY <2>6 DEF HistPutCount
    <3> QED
      BY <3>1, <3>2
  <2>8. n # NoSummary
    BY <2>1, <2>7 DEF NoSummary
  <2>9. PrefixCount(w, n) = p
    <3> PICK e : e = n
      OBVIOUS
    <3>1. e \in HistConts /\ w[p] = e.frontier
      BY <2>3, <2>7
    <3>2. PrefixCount(w, e) = p
      BY <1>4, <1>5, <2>3, <3>1, HistPrefixAt, ZenonT(60)
    <3> QED
      BY <3>2
  <2>10. PrefixTurns(w, n) = PrefixTurns(o, c)
    BY <1>4, <2>9 DEF PrefixTurns
  <2> DEFINE v == c.covers \cup HistAdded(h)
  <2>11. d = [n EXCEPT !.covers = v]
    BY <2>7, <2>8, <2>10 DEF AppendSummaryNotes, HistAdded
  <2>12. v \in SUBSET Nat
    BY <1>1, HistAddedIs, HistContsAre
  <2> HIDE DEF d, v
  <2>13. d \in HistConts /\ d.covers = v /\ d.frontier = c.frontier
    BY <2>7, <2>11, <2>12, HistContsAre, ZenonT(60)
  <2>14. PrefixCount(w, d) = p
    BY <1>4, <1>5, <2>3, <2>13, HistPrefixAt, SMTT(60)
  <2> QED
    BY <1>11, <2>13, <2>14 DEF v
<1> QED
  BY <1>10, <1>11

LEMMA HistNewestIs ==
    ASSUME NEW log, Len(log) \in Nat, NEW m \in 1 .. Len(log), log[m].kind = "continuation"
    PROVE  \E n \in 1 .. Len(log) : m <= n /\ HistNewest(log, n)
<1> DEFINE T == {x \in Nat : \E n \in 1 .. Len(log) : x = Len(log) - n /\ log[n].kind = "continuation"}
<1>1. Len(log) - m \in T
  OBVIOUS
<1>2. PICK x \in T : \A y \in T : x <= y
  <2>1. T \in SUBSET Nat /\ T # {}
    BY <1>1
  <2> HIDE DEF T
  <2> QED
    BY <2>1, LeastOf
<1>3. PICK n \in 1 .. Len(log) : x = Len(log) - n /\ log[n].kind = "continuation"
  OBVIOUS
<1>4. m <= n
  <2>1. x <= Len(log) - m
    BY <1>1, <1>2
  <2> QED
    BY <1>3, <2>1
<1>5. ASSUME NEW j \in n + 1 .. Len(log), log[j].kind = "continuation" PROVE FALSE
  <2>1. Len(log) - j \in T
    BY <1>5
  <2>2. x <= Len(log) - j
    BY <1>2, <2>1
  <2> QED
    BY <1>3, <2>2, SMTT(60)
<1> QED
  BY <1>3, <1>4, <1>5 DEF HistNewest

(* Where a fold ends: its summary reaches at least as far as that of its base.    *)
HistFoldEnds(log, b, base, k, a, last, h) ==
    /\ h.order \in Seq(Nat) /\ h.cont \in HistConts /\ Len(h.order) \in Nat /\ Len(base.order) \in Nat
    /\ base.cont.frontier <= h.cont.frontier
    /\ h.cont = NoSummary \/ (HistDone(log, b, h.cont.frontier) /\ h.cont.frontier \in 1 .. last)
    /\ h.cont # NoSummary => HistInOrder(h.order, h.cont.frontier)
    /\ PrefixCount(base.order, base.cont) <= PrefixCount(h.order, h.cont)
    /\ PrefixTurns(h.order, h.cont) \subseteq DOMAIN h.turns \cap 1 .. last
    /\ \A t \in PrefixTurns(h.order, h.cont) : HistDone(log, b, t) => t <= h.cont.frontier
    /\ h.cont # NoSummary => \A t \in Nat : HistInOrder(h.order, t) /\ HistDone(log, b, t) =>
                                (t \in PrefixTurns(h.order, h.cont) <=> t <= h.cont.frontier)

LEMMA HistFrontierIs ==
    ASSUME NEW log, NEW b, NEW base, NEW k, NEW a, NEW last, NEW current, NEW h,
           HistOver(log, b, base, k, a, last, current), HistFolded(log, b, base, k, a, last, h, Len(log))
    PROVE  /\ base.cont.frontier <= h.cont.frontier
           /\ h.cont # NoSummary => HistInOrder(h.order, h.cont.frontier)
<1> PICK c, d, N : c = h.cont /\ d = base.cont /\ N = Len(log)
  OBVIOUS
<1>1. /\ HistLogWell(log) /\ N \in Nat /\ base \in Hists /\ h \in Hists /\ k \in Nat /\ last \in Nat /\ a \in Int
      /\ HistKnows(log, b, base, k, a) /\ HistParts(log, k, a) /\ HistGrows(log, base, k, a)
  BY HistOverIs DEF HistFolded
<1>2. c \in HistConts /\ d \in HistConts /\ h.order \in Seq(Nat) /\ base.order \in Seq(Nat)
  BY <1>1, HistsAre
<1>3. c.frontier \in Nat /\ d.frontier \in Nat
  BY <1>2, HistContsAre
<1>4. /\ HistSumsUp(log, b, c, last, 1 .. a)
      /\ c.frontier > k => \E e \in 1 .. N : HistEndsAt(log, c.frontier, e)
      /\ (\A m \in 1 .. N : m > a => log[m].kind # "continuation") => c.frontier = d.frontier
      /\ \A m \in 1 .. N : m > a /\ HistNewest(log, m) => c.frontier = log[m].cont.frontier
  BY DEF HistFolded, HistFoldCont, HistNewest
<1>5. /\ HistSumsUp(log, b, d, k, 1 .. a) /\ (d # NoSummary => HistInOrder(base.order, d.frontier))
  BY <1>1 DEF HistKnows, HistSummed
<1>6. c # NoSummary => c.frontier \in 1 .. last
  BY <1>4 DEF HistSumsUp
<1>7. NoSummary.frontier = 0
  BY DEF NoSummary
<1>8. \A t : HistInOrder(base.order, t) => HistInOrder(h.order, t)
  <2>1. Len(base.order) <= Len(h.order) /\ \A i \in 1 .. Len(base.order) : h.order[i] = base.order[i]
    BY DEF HistFolded, HistFoldOrder
  <2>2. Len(base.order) \in Nat /\ Len(h.order) \in Nat
    BY <1>2
  <2>3. \A i \in 1 .. Len(base.order) : i \in 1 .. Len(h.order)
    BY <2>1, <2>2
  <2> QED
    BY <2>1, <2>3 DEF HistInOrder
<1>9. d.frontier <= c.frontier /\ (c.frontier > k \/ c = NoSummary \/ HistInOrder(h.order, c.frontier))
  <2>1. CASE \A m \in 1 .. N : m > a => log[m].kind # "continuation"
    <3>1. c.frontier = d.frontier
      BY <1>4, <2>1
    <3>2. c # NoSummary => d # NoSummary
      BY <1>6, <1>7, <3>1
    <3> QED
      BY <1>3, <1>5, <1>8, <3>1, <3>2
  <2>2. CASE \E m \in 1 .. N : m > a /\ log[m].kind = "continuation"
    <3>1. PICK m \in 1 .. N : m > a /\ log[m].kind = "continuation"
      BY <2>2
    <3>2. PICK n \in 1 .. N : m <= n /\ HistNewest(log, n)
      BY <1>1, <3>1, HistNewestIs
    <3>3. n > a
      BY <1>1, <3>1, <3>2
    <3>4. c.frontier = log[n].cont.frontier
      BY <1>4, <3>2, <3>3
    <3>5. HistReaches(base, k, log[n].cont)
      BY <1>1, <3>2, <3>3 DEF HistGrows
    <3> QED
      BY <1>8, <3>4, <3>5 DEF HistReaches
  <2> QED
    BY <2>1, <2>2
<1>10. ASSUME c.frontier > k, c # NoSummary PROVE HistInOrder(h.order, c.frontier)
  <2> PICK t : t = c.frontier
    OBVIOUS
  <2>1. t \in k + 1 .. last
    BY <1>1, <1>3, <1>6, <1>10
  <2>2. PICK e \in 1 .. N : HistEndsAt(log, t, e)
    BY <1>4, <1>10
  <2>3. log[e].turn = t /\ log[e].kind \notin {"handoff", "checkpoint", "continuation", "started"}
    BY <1>1, <2>2, HistEndIs DEF HistEndsAt
  <2>4. t > k
    BY <1>1, <2>1
  <2>5. e > a
    BY <1>1, <2>3, <2>4, HistIsNew
  <2>6. HistFoldNewTurn(log, b, a, h, N, t)
    BY <2>1 DEF HistFolded, HistFoldNew
  <2>7. t \in DOMAIN h.turns
    BY <2>3, <2>5, <2>6 DEF HistFoldNewTurn
  <2> QED
    BY <2>6, <2>7 DEF HistFoldNewTurn
<1> QED
  BY <1>9, <1>10

LEMMA HistFoldEndsIs ==
    ASSUME NEW log, NEW b, NEW base, NEW k, NEW a, NEW last, NEW current, NEW h,
           HistOver(log, b, base, k, a, last, current), HistFolded(log, b, base, k, a, last, h, Len(log))
    PROVE  HistFoldEnds(log, b, base, k, a, last, h)
<1> PICK c, d, o, s : c = h.cont /\ d = base.cont /\ o = h.order /\ s = base.order
  OBVIOUS
<1>1. /\ base \in Hists /\ h \in Hists /\ k \in Nat /\ last \in Nat /\ a \in Int /\ HistKnows(log, b, base, k, a)
  BY HistOverIs DEF HistFolded
<1>2. c \in HistConts /\ d \in HistConts /\ o \in Seq(Nat) /\ s \in Seq(Nat)
  BY <1>1, HistsAre
<1>3. c.frontier \in Nat /\ d.frontier \in Nat /\ Len(o) \in Nat /\ Len(s) \in Nat
  <2>1. Len(o) \in Nat /\ Len(s) \in Nat
    BY <1>2, LenProperties
  <2> QED
    BY <1>2, <2>1, HistContsAre
<1>4. c = NoSummary \/ (HistDone(log, b, c.frontier) /\ c.frontier \in 1 .. last)
  BY DEF HistFolded, HistFoldCont, HistSumsUp
<1>5. d = NoSummary \/ (HistDone(log, b, d.frontier) /\ d.frontier \in 1 .. k)
  BY <1>1 DEF HistKnows, HistSummed, HistSumsUp
<1>6. d.frontier <= c.frontier /\ (c # NoSummary => HistInOrder(o, c.frontier))
  BY HistFrontierIs
<1>7. /\ Len(s) <= Len(o) /\ \A i \in 1 .. Len(s) : o[i] = s[i]
      /\ \A i \in 1 .. Len(o) : o[i] \in 1 .. last /\ o[i] \in DOMAIN h.turns
      /\ \A i, j \in 1 .. Len(o) : o[i] = o[j] => i = j
      /\ \A i, j \in 1 .. Len(o) : i < j /\ HistDone(log, b, o[i]) /\ HistDone(log, b, o[j]) => o[i] < o[j]
  BY DEF HistFolded, HistFoldOrder
<1>8. \A i \in 1 .. Len(o) : o[i] # 0
  BY <1>1, <1>7
<1>9. /\ \A t \in PrefixTurns(o, c) : HistDone(log, b, t) => t <= c.frontier
      /\ HistInOrder(o, c.frontier) => c # NoSummary /\
                 \A t \in Nat : HistInOrder(o, t) /\ HistDone(log, b, t) =>
                    (t \in PrefixTurns(o, c) <=> t <= c.frontier)
  <2>1. \A i, j \in 1 .. Len(o) : i < j /\ HistDone(log, b, o[i]) /\ HistDone(log, b, o[j]) => o[i] < o[j]
    BY <1>7
  <2>2. c = NoSummary \/ HistDone(log, b, c.frontier)
    BY <1>4
  <2>3. \A t \in PrefixTurns(o, c) : HistDone(log, b, t) => t <= c.frontier
    BY <1>2, <1>8, <2>1, <2>2, HistPrefixIs
  <2>4. HistInOrder(o, c.frontier) => c # NoSummary /\
                 \A t \in Nat : HistInOrder(o, t) /\ HistDone(log, b, t) =>
                    (t \in PrefixTurns(o, c) <=> t <= c.frontier)
    BY <1>2, <1>8, <2>1, <2>2, HistPrefixIs
  <2> QED
    BY <2>3, <2>4
<1>10. PrefixTurns(o, c) \subseteq DOMAIN h.turns \cap 1 .. last
  <2>1. PrefixCount(o, c) \in 0 .. Len(o) /\ \A t : t \in PrefixTurns(o, c) <=> \E i \in 1 .. PrefixCount(o, c) : o[i] = t
    BY <1>2, HistPrefix, SMTT(60)
  <2>2. \A i \in 1 .. PrefixCount(o, c) : i \in 1 .. Len(o)
    BY <1>3, <2>1
  <2> QED
    BY <1>7, <2>1, <2>2
<1>11. PrefixCount(s, d) <= PrefixCount(o, c)
  <2>1. PrefixCount(o, c) \in 0 .. Len(o) /\ PrefixCount(s, d) \in 0 .. Len(s)
    BY <1>2, HistPrefix
  <2>2. CASE PrefixCount(s, d) = 0
    BY <2>1, <2>2
  <2>3. CASE PrefixCount(s, d) # 0
    <3> PICK x, y : x = PrefixCount(s, d) /\ y = PrefixCount(o, c)
      OBVIOUS
    <3>1. x \in 1 .. Len(s) /\ s[x] = d.frontier
      BY <1>2, <2>3, HistPrefix
    <3>2. x \in 1 .. Len(o) /\ o[x] = d.frontier /\ d.frontier # 0
      <4>1. x \in 1 .. Len(o)
        BY <1>3, <1>7, <3>1
      <4> QED
        BY <1>7, <1>8, <3>1, <4>1
    <3>3. d # NoSummary /\ c # NoSummary /\ c.frontier # 0
      <4>1. NoSummary.frontier = 0
        BY DEF NoSummary
      <4> QED
        BY <1>3, <1>6, <3>2, <4>1
    <3>4. HistDone(log, b, d.frontier) /\ HistDone(log, b, c.frontier) /\ HistInOrder(o, c.frontier)
      BY <1>4, <1>5, <1>6, <3>3
    <3>5. y \in 1 .. Len(o) /\ o[y] = c.frontier
      BY <1>2, <3>4, HistPrefix
    <3>6. y < x => o[y] < o[x]
      BY <1>7, <3>2, <3>4, <3>5
    <3>7. ~(y < x)
      BY <1>3, <1>6, <3>2, <3>5, <3>6
    <3> QED
      BY <3>1, <3>5, <3>7
  <2> QED
    BY <2>2, <2>3
<1> QED
  BY <1>2, <1>3, <1>4, <1>6, <1>9, <1>10, <1>11 DEF HistFoldEnds

LEMMA HistToldIsFolded ==
    ASSUME NEW log, NEW b, NEW base, NEW k, NEW a, NEW last, NEW current, NEW h,
           HistOver(log, b, base, k, a, last, current), HistFolded(log, b, base, k, a, last, h, Len(log)),
           NEW t \in 1 .. last, HistTold(log, b, t)
    PROVE  /\ HistInOrder(h.order, t) /\ t \in DOMAIN h.turns /\ h.turns[t].terminal
           /\ \A m \in HistLate(log, t) : m > a => m \in ToSet(h.turns[t].notes)
<1> PICK N : N = Len(log)
  OBVIOUS
<1>1. /\ HistLogWell(log) /\ N \in Nat /\ base \in Hists /\ h \in Hists /\ k \in Nat /\ last \in Nat /\ a \in Int
      /\ HistKnows(log, b, base, k, a) /\ HistParts(log, k, a)
  BY HistOverIs DEF HistFolded
<1>2. \A m \in HistLate(log, t) : m <= N
  BY <1>1 DEF HistLate
<1>3. /\ \A i \in 1 .. Len(h.order) : h.order[i] \in DOMAIN h.turns
      /\ Len(base.order) <= Len(h.order) /\ \A i \in 1 .. Len(base.order) : h.order[i] = base.order[i]
  BY DEF HistFolded, HistFoldOrder
<1>4. \A i \in 1 .. Len(base.order) : i \in 1 .. Len(h.order)
  <2>1. base.order \in Seq(Nat) /\ h.order \in Seq(Nat)
    BY <1>1, HistsAre
  <2>2. Len(base.order) \in Nat /\ Len(h.order) \in Nat
    BY <2>1, LenProperties
  <2> QED
    BY <1>3, <2>2
<1>5. CASE t <= k
  <2>1. t \in 1 .. k
    BY <1>1, <1>5
  <2>2. PICK i \in 1 .. Len(base.order) : base.order[i] = t
    BY <1>1, <2>1 DEF HistKnows, HistOrders, HistInOrder
  <2>3. HistFoldOldTurn(log, b, base, a, h, N, i)
    BY DEF HistFolded, HistFoldOld
  <2>4. h.turns[t].terminal /\ \A m \in HistLate(log, t) : a < m /\ m <= N => m \in ToSet(h.turns[t].notes)
    BY <2>2, <2>3 DEF HistFoldOldTurn
  <2>5. \A m \in HistLate(log, t) : m > a => a < m
    BY <1>1 DEF HistLate
  <2> QED
    BY <1>2, <1>3, <1>4, <2>2, <2>4, <2>5 DEF HistInOrder
<1>6. CASE t > k
  <2>1. t \in k + 1 .. last
    BY <1>1, <1>6
  <2>2. HistFoldNewTurn(log, b, a, h, N, t)
    BY <2>1 DEF HistFolded, HistFoldNew
  <2>3. PICK e : HistEndsAt(log, t, e)
    BY HistEndedAt DEF HistTold, HistDone
  <2>4. e \in 1 .. N /\ log[e].turn = t /\ log[e].kind \notin {"handoff", "checkpoint", "continuation", "started"}
    BY <1>1, <2>3, HistEndIs DEF HistEndsAt
  <2>5. e > a
    BY <1>1, <1>6, <2>4, HistIsNew
  <2>6. t \in DOMAIN h.turns
    BY <2>2, <2>4, <2>5 DEF HistFoldNewTurn
  <2>7. HistOld(h, t) = h.turns[t]
    BY <2>6 DEF HistOld
  <2> QED
    BY <1>2, <2>2, <2>3, <2>4, <2>6, <2>7 DEF HistFoldNewTurn
<1> QED
  BY <1>1, <1>5, <1>6

LEMMA HistRawIsFolded ==
    ASSUME NEW log, NEW b, NEW base, NEW k, NEW a, NEW last, NEW current, NEW h,
           HistOver(log, b, base, k, a, last, current), HistFolded(log, b, base, k, a, last, h, Len(log)),
           NEW i \in 1 .. Len(h.order), i > PrefixCount(h.order, h.cont), h.turns[h.order[i]].terminal
    PROVE  HistRawTurn(log, b, h, h.order[i], Len(log))
<1> PICK N, t : N = Len(log) /\ t = h.order[i]
  OBVIOUS
<1>1. /\ HistLogWell(log) /\ N \in Nat /\ base \in Hists /\ h \in Hists /\ k \in Nat /\ last \in Nat /\ a \in Int
      /\ HistKnows(log, b, base, k, a) /\ HistParts(log, k, a) /\ b \in Nat /\ 1 <= b /\ b <= k + 1
  BY HistOverIs DEF HistFolded
<1>2. \A m \in HistLate(log, t) : m \in Nat /\ m <= N
  BY <1>1 DEF HistLate
<1>3. /\ \A j \in 1 .. Len(base.order) : h.order[j] = base.order[j]
      /\ \A j \in Len(base.order) + 1 .. Len(h.order) : h.order[j] <= k => ~h.turns[h.order[j]].terminal
      /\ t \in DOMAIN h.turns /\ t \in 1 .. last
  BY DEF HistFolded, HistFoldOrder
<1>4. /\ Len(base.order) \in Nat /\ PrefixCount(base.order, base.cont) <= PrefixCount(h.order, h.cont)
      /\ PrefixCount(base.order, base.cont) \in Nat /\ PrefixCount(h.order, h.cont) \in Nat
  <2>1. base.order \in Seq(Nat) /\ h.order \in Seq(Nat) /\ base.cont \in HistConts /\ h.cont \in HistConts
    BY <1>1, HistsAre
  <2>2. PrefixCount(base.order, base.cont) \in 0 .. Len(base.order) /\ PrefixCount(h.order, h.cont) \in 0 .. Len(h.order)
    BY <2>1, HistPrefix
  <2> QED
    BY <2>1, <2>2, HistFoldEndsIs DEF HistFoldEnds
<1>5. CASE i <= Len(base.order)
  <2>1. i \in PrefixCount(base.order, base.cont) + 1 .. Len(base.order) /\ i \in 1 .. Len(base.order)
    BY <1>4, <1>5
  <2>2. base.order[i] = t
    BY <1>3, <2>1
  <2>3. HistRawTurn(log, b, base, t, a)
    BY <1>1, <2>1, <2>2 DEF HistKnows
  <2>4. HistFoldOldTurn(log, b, base, a, h, N, i)
    BY <2>1 DEF HistFolded, HistFoldOld
  <2>5. i > PrefixCount(base.order, base.cont)
    BY <1>4, <2>1, SMTT(60)
  <2>6. /\ h.turns[t].terminal
        /\ HistTold(log, b, t) => \A m \in HistLate(log, t) : a < m /\ m <= N => m \in ToSet(h.turns[t].notes)
        /\ h.turns[t].entries = base.turns[t].entries /\ h.turns[t].at = base.turns[t].at
        /\ ToSet(base.turns[t].notes) \subseteq ToSet(h.turns[t].notes)
    BY <2>2, <2>4, <2>5, SMTT(60) DEF HistFoldOldTurn
  <2>7. HistTold(log, b, t) => \A m \in HistLate(log, t) : m <= a => m \in ToSet(h.turns[t].notes)
    BY <2>3, <2>6 DEF HistRawTurn
  <2>8. \A m \in HistLate(log, t) : m <= a \/ (a < m /\ m <= N)
    BY <1>1, <1>2, SMTT(60)
  <2>9. HistTold(log, b, t) => \A m \in HistLate(log, t) : m <= N => m \in ToSet(h.turns[t].notes)
    BY <2>6, <2>7, <2>8
  <2> QED
    BY <1>3, <2>3, <2>6, <2>9 DEF HistRawTurn
<1>6. CASE i > Len(base.order)
  <2>1. i \in Len(base.order) + 1 .. Len(h.order)
    BY <1>4, <1>6
  <2>2. t > k
    BY <1>1, <1>3, <2>1
  <2>3. t \in k + 1 .. last
    BY <1>1, <1>3, <2>2
  <2>4. HistFoldNewTurn(log, b, a, h, N, t)
    BY <2>3 DEF HistFolded, HistFoldNew
  <2>5. HistOld(h, t) = h.turns[t]
    BY <1>3 DEF HistOld
  <2>6. PICK e \in 1 .. N : HistEndsAt(log, t, e)
    BY <2>4, <2>5 DEF HistFoldNewTurn
  <2>7. HistDone(log, b, t)
    <3>1. HistEnded(log, t)
      BY <2>6, HistEndedAt
    <3>2. b <= t
      BY <1>1, <1>3, <2>2, SMTT(60)
    <3> QED
      BY <3>1, <3>2 DEF HistDone
  <2>8. /\ h.turns[t].at = e
        /\ Select(h.turns[t].entries, HistPlain(log)) = HistSaid(log, t, N)
        /\ \A m \in HistLate(log, t) : m <= N => m \in ToSet(h.turns[t].notes)
    BY <2>4, <2>5, <2>6, <2>7 DEF HistFoldNewTurn
  <2>9. HistEndsAt(log, t, h.turns[t].at)
    BY <2>6, <2>8
  <2> QED
    BY <1>3, <2>7, <2>8, <2>9 DEF HistRawTurn
<1> QED
  BY <1>4, <1>5, <1>6

(* What is told is in the completed order.                                        *)
LEMMA HistToldIsKept ==
    ASSUME NEW log, NEW b, NEW base, NEW k, NEW a, NEW last, NEW current, NEW h, NEW r,
           HistOver(log, b, base, k, a, last, current), HistFolded(log, b, base, k, a, last, h, Len(log)),
           HistCompleteSays(h, r), NEW t \in 1 .. last, HistTold(log, b, t)
    PROVE  HistInOrder(r.order, t)
<1>1. /\ HistInOrder(h.order, t) /\ t \in DOMAIN h.turns /\ h.turns[t].terminal
  BY HistToldIsFolded
<1>2. PICK i \in 1 .. Len(h.order) : h.order[i] = t
  BY <1>1 DEF HistInOrder
<1>3. i <= PrefixCount(h.order, h.cont) \/ i > PrefixCount(h.order, h.cont)
  <2>1. h.order \in Seq(Nat) /\ h.cont \in HistConts
    BY HistsAre DEF HistFolded
  <2>2. PrefixCount(h.order, h.cont) \in 0 .. Len(h.order)
    BY <2>1, HistPrefix
  <2> QED
    BY <2>2
<1>4. i > PrefixCount(h.order, h.cont) => t \in HistSaying(h)
  <2> SUFFICES ASSUME i > PrefixCount(h.order, h.cont) PROVE t \in HistSaying(h)
    OBVIOUS
  <2>1. HistRawTurn(log, b, h, t, Len(log))
    BY <1>1, <1>2, HistRawIsFolded
  <2>2. Select(h.turns[t].entries, HistPlain(log)) = HistSaid(log, t, Len(log))
    BY <2>1 DEF HistRawTurn
  <2>3. HistSaid(log, t, Len(log)) # <<>>
    <3>1. Len(log) \in Nat
      BY HistOverIs
    <3>2. HistSpeaks(log, t) # {} /\ HistSpeaks(log, t) \subseteq 1 .. Len(log)
      BY DEF HistTold, HistSpeaks
    <3>3. HistSpeaks(log, t) \cap (1 .. Len(log)) # {}
      BY <3>2
    <3> QED
      BY <3>1, <3>3, HistSaidAre
  <2>4. h.turns[t].entries # <<>>
    BY <2>2, <2>3, SelectEmpty
  <2> QED
    BY <1>1, <2>4 DEF HistSaying, HasReplayContent
<1>5. \E j \in 1 .. Len(r.order) : r.order[j] = t
  BY <1>2, <1>3, <1>4, ZenonT(60) DEF HistCompleteSays, HistThinned
<1> QED
  BY <1>5 DEF HistInOrder

LEMMA HistOrderIsKept ==
    ASSUME NEW log, NEW b, NEW base, NEW k, NEW a, NEW last, NEW current, NEW h, NEW r,
           HistOver(log, b, base, k, a, last, current), HistFolded(log, b, base, k, a, last, h, Len(log)),
           HistCompleteSays(h, r)
    PROVE  /\ HistOrders(log, b, r, last)
           /\ \A i \in 1 .. Len(r.order) : HistInOrder(h.order, r.order[i])
<1> PICK o, w : o = h.order /\ w = r.order
  OBVIOUS
<1>1. /\ \A i \in 1 .. Len(o) : o[i] \in 1 .. last
      /\ \A i, j \in 1 .. Len(o) : i < j /\ HistDone(log, b, o[i]) /\ HistDone(log, b, o[j]) => o[i] < o[j]
  BY DEF HistFolded, HistFoldOrder
<1>2. \A i, j \in 1 .. Len(w) : i < j => \E x, y \in 1 .. Len(o) : x < y /\ o[x] = w[i] /\ o[y] = w[j]
  BY DEF HistCompleteSays, HistThinned
<1>3. PICK p : p = PrefixCount(o, h.cont)
  OBVIOUS
<1>4. p \in 0 .. Len(o) /\ p <= Len(w) /\ Len(w) \in Nat /\ Len(o) \in Nat
  <2>1. h.order \in Seq(Nat) /\ h.cont \in HistConts
    BY HistsAre DEF HistFolded
  <2>2. w \in Seq(Nat) /\ p <= Len(w)
    BY <1>3 DEF HistCompleteSays, HistThinned
  <2>3. p \in 0 .. Len(o) /\ Len(o) \in Nat
    BY <1>3, <2>1, HistPrefix
  <2> QED
    BY <2>2, <2>3, LenProperties
<1>5. ASSUME NEW i \in 1 .. Len(w) PROVE HistInOrder(o, w[i])
  <2>1. CASE i \in 1 .. p
    <3>1. w[i] = o[i]
      BY <1>3, <2>1 DEF HistCompleteSays, HistThinned
    <3>2. i \in 1 .. Len(o)
      BY <1>4, <2>1
    <3> QED
      BY <3>1, <3>2 DEF HistInOrder
  <2>2. CASE i \in p + 1 .. Len(w)
    <3>1. PICK x \in p + 1 .. Len(o) : o[x] = w[i]
      BY <1>3, <2>2 DEF HistCompleteSays, HistThinned
    <3>2. x \in 1 .. Len(o)
      BY <1>4
    <3> QED
      BY <3>1, <3>2 DEF HistInOrder
  <2> QED
    BY <1>4, <2>1, <2>2
<1>6. \A i \in 1 .. Len(w) : w[i] \in 1 .. last
  BY <1>1, <1>5 DEF HistInOrder
<1>7. ASSUME NEW i \in 1 .. Len(w), NEW j \in 1 .. Len(w), i < j, HistDone(log, b, w[i]), HistDone(log, b, w[j])
      PROVE  w[i] < w[j]
  <2>1. PICK x \in 1 .. Len(o), y \in 1 .. Len(o) : x < y /\ o[x] = w[i] /\ o[y] = w[j]
    BY <1>2, <1>7, ZenonT(60)
  <2> QED
    BY <1>1, <1>7, <2>1
<1>8. \A t \in 1 .. last : HistTold(log, b, t) => HistInOrder(r.order, t)
  BY HistToldIsKept
<1>9. \A i, j \in 1 .. Len(w) : w[i] = w[j] => i = j
  BY DEF HistCompleteSays
<1> QED
  BY <1>5, <1>6, <1>7, <1>8, <1>9 DEF HistOrders

LEMMA HistSummaryIsKept ==
    ASSUME NEW log, NEW b, NEW base, NEW k, NEW a, NEW last, NEW current, NEW h, NEW r,
           HistOver(log, b, base, k, a, last, current), HistFolded(log, b, base, k, a, last, h, Len(log)),
           HistCompleteSays(h, r)
    PROVE  HistSummed(log, b, r, last, Len(log))
<1> PICK c, f, N : c = h.cont /\ f = h.cont.frontier /\ N = Len(log)
  OBVIOUS
<1>1. /\ HistLogWell(log) /\ N \in Nat /\ h \in Hists /\ last \in Nat /\ a \in Int
  BY HistOverIs DEF HistFolded
<1>2. HistFoldEnds(log, b, base, k, a, last, h)
  BY HistFoldEndsIs
<1>3. HistSumsUp(log, b, c, last, 1 .. a)
  BY DEF HistFolded, HistFoldCont
<1>4. CASE c = NoSummary
  <2>1. r.cont = NoSummary
    BY <1>4 DEF HistCompleteSays
  <2> QED
    BY <2>1 DEF HistSummed, HistSumsUp
<1>5. CASE c # NoSummary
  <2> PICK P : P = PrefixTurns(h.order, h.cont)
    OBVIOUS
  <2>1. /\ r.cont.frontier = f /\ r.cont.covers = c.covers \cup HistAdded(h)
    BY <1>5 DEF HistCompleteSays
  <2>2. /\ HistDone(log, b, f) /\ f \in 1 .. last /\ HistInOrder(h.order, f) /\ P \subseteq DOMAIN h.turns \cap 1 .. last
        /\ \A t \in P : HistDone(log, b, t) => t <= f
        /\ \A t \in Nat : HistInOrder(h.order, t) /\ HistDone(log, b, t) => (t \in P <=> t <= f)
    BY <1>2, <1>5 DEF HistFoldEnds
  <2>3. HistTurnsOf(log, b, h, last)
    BY DEF HistFolded
  <2>4. ASSUME NEW n \in HistAdded(h)
        PROVE  n \in 1 .. N /\ log[n].turn \in 1 .. last /\ (HistDone(log, b, log[n].turn) => log[n].turn <= f)
    <3>1. PICK t \in P : n \in PostTerminalNotes(h.turns[t])
      BY <2>4 DEF HistAdded
    <3>2. n \in ToSet(h.turns[t].notes)
      BY <3>1 DEF PostTerminalNotes
    <3>3. n \in 1 .. N /\ log[n].turn = t
      BY <2>2, <2>3, <3>2 DEF HistTurnsOf
    <3> QED
      BY <2>2, <3>3
  <2>5. \A n \in r.cont.covers : /\ n \in 1 .. N /\ log[n].turn \in 1 .. last
                                 /\ HistDone(log, b, log[n].turn) => log[n].turn <= f
    BY <1>3, <1>5, <2>1, <2>4 DEF HistSumsUp
  <2>6. ASSUME NEW t \in 1 .. f, HistTold(log, b, t)
        PROVE  /\ HistSpeaks(log, t) \subseteq c.covers
               /\ \A m \in HistLate(log, t) : m \in c.covers \/ m \in HistAdded(h)
    <3>1. HistSpeaks(log, t) \subseteq c.covers /\ HistLate(log, t) \cap (1 .. a) \subseteq c.covers
      BY <1>3, <1>5, <2>6 DEF HistSumsUp
    <3>2. t \in 1 .. last /\ t \in Nat /\ t <= f
      BY <1>1, <2>2
    <3>3. /\ HistInOrder(h.order, t) /\ t \in DOMAIN h.turns /\ h.turns[t].terminal
          /\ \A m \in HistLate(log, t) : m > a => m \in ToSet(h.turns[t].notes)
      BY <2>6, <3>2, HistToldIsFolded
    <3>4. t \in P
      BY <2>2, <2>6, <3>2, <3>3 DEF HistTold
    <3>5. ASSUME NEW m \in HistLate(log, t), m > a PROVE m \in HistAdded(h)
      <4>1. PICK j \in 1 .. m : HistEndsAt(log, t, j)
        BY DEF HistLate
      <4>2. m \in 1 .. N /\ log[m].kind = "note"
        BY DEF HistLate
      <4>3. log[j].kind # "note" /\ j \in 1 .. N
        BY <1>1, <4>1, HistEndIs
      <4>4. j < m
        BY <4>1, <4>2, <4>3
      <4>5. h.turns[t].at <= j
        BY <2>3, <2>6, <3>3, <4>1, <4>3 DEF HistTurnsOf
      <4>6. h.turns[t].at \in Nat
        <5>1. h.turns[t] \in HistTurnRecs
          BY <1>1, <3>3, HistsAre, HistMapsAre
        <5> QED
          BY <5>1, HistTurnRecTyped
      <4>7. m > h.turns[t].at
        BY <4>2, <4>3, <4>4, <4>5, <4>6
      <4>8. m \in PostTerminalNotes(h.turns[t])
        BY <3>3, <3>5, <4>7 DEF PostTerminalNotes
      <4> QED
        BY <3>4, <4>8 DEF HistAdded
    <3>6. \A m \in HistLate(log, t) : m > a \/ m \in 1 .. a
      BY <1>1 DEF HistLate
    <3> QED
      BY <3>1, <3>5, <3>6
  <2>7. HistSumsUp(log, b, r.cont, last, 1 .. N)
    <3>1. \A t \in 1 .. f : HistTold(log, b, t) =>
             HistSpeaks(log, t) \subseteq r.cont.covers /\ HistLate(log, t) \cap (1 .. N) \subseteq r.cont.covers
      BY <2>1, <2>6
    <3> QED
      BY <2>1, <2>2, <2>5, <3>1 DEF HistSumsUp
  <2>8. HistInOrder(r.order, f)
    <3>1. PrefixCount(h.order, c) \in 1 .. Len(h.order) /\ h.order[PrefixCount(h.order, c)] = f
      BY <1>2, <2>2, HistPrefix DEF HistFoldEnds
    <3> PICK x : x = PrefixCount(h.order, c)
      OBVIOUS
    <3>2. x <= x /\ x \in 1 .. Len(h.order)
      BY <3>1
    <3>3. \E i \in 1 .. Len(r.order) : r.order[i] = h.order[x]
      BY <3>2 DEF HistCompleteSays, HistThinned
    <3> QED
      BY <3>1, <3>3 DEF HistInOrder
  <2> QED
    BY <2>1, <2>7, <2>8 DEF HistSummed
<1> QED
  BY <1>4, <1>5

LEMMA HistRawsAreKept ==
    ASSUME NEW log, NEW b, NEW base, NEW k, NEW a, NEW last, NEW current, NEW h, NEW r,
           HistOver(log, b, base, k, a, last, current), HistFolded(log, b, base, k, a, last, h, Len(log)),
           HistCompleteSays(h, r), NEW i \in PrefixCount(r.order, r.cont) + 1 .. Len(r.order)
    PROVE  HistRawTurn(log, b, r, r.order[i], Len(log))
<1> PICK o, p, t : o = h.order /\ p = PrefixCount(h.order, h.cont) /\ t = r.order[i]
  OBVIOUS
<1>1. r.turns = h.turns /\ i \in p + 1 .. Len(r.order)
  BY DEF HistCompleteSays
<1>2. t \in HistSaying(h) /\ \E x \in p + 1 .. Len(o) : o[x] = t
  BY <1>1 DEF HistCompleteSays, HistThinned
<1>3. PICK x \in p + 1 .. Len(o) : o[x] = t
  BY <1>2
<1>4. p \in Nat /\ Len(o) \in Nat
  <2>1. h.order \in Seq(Nat) /\ h.cont \in HistConts
    BY HistsAre DEF HistFolded
  <2>2. p \in 0 .. Len(o) /\ Len(o) \in Nat
    BY <2>1, HistPrefix
  <2> QED
    BY <2>2
<1>5. x \in 1 .. Len(o) /\ x > p
  BY <1>4
<1>6. h.turns[t].terminal
  BY <1>2 DEF HistSaying
<1>7. HistRawTurn(log, b, h, t, Len(log))
  BY <1>3, <1>5, <1>6, HistRawIsFolded
<1> QED
  BY <1>1, <1>7 DEF HistRawTurn

(* What is built of a log that can be replayed over its base.                     *)
HistBuilt(log, b, base, k, a, last, r) ==
    /\ r \in Hists /\ HistKnows(log, b, r, last, Len(log))
    /\ base.through <= r.through
    /\ \A j \in 1 .. Len(log) : j > a /\ log[j].kind # "checkpoint" => j <= r.through
    /\ base.cont.frontier <= r.cont.frontier
    /\ \A n \in 1 .. Len(log) : n > a /\ HistNewest(log, n) => r.cont.frontier = log[n].cont.frontier
    /\ \A i \in 1 .. Len(r.order) : HistDone(log, b, r.order[i]) => r.order[i] > k \/ HistInOrder(base.order, r.order[i])

LEMMA HistBuildIs ==
    ASSUME NEW log, NEW b, NEW base, NEW k, NEW a, NEW last, NEW current,
           HistOver(log, b, base, k, a, last, current)
    PROVE  HistBuilt(log, b, base, k, a, last, BuildHistory(log, base, a, current))
<1>1. PICK h : /\ HistFolded(log, b, base, k, a, last, h, Len(log))
               /\ BuildHistory(log, base, a, current) = HistComplete(h)
  BY HistFolds
<1>2. /\ h \in Hists /\ HistFoldOrder(log, b, base, k, last, h, Len(log)) /\ HistTurnsOf(log, b, h, last)
      /\ HistFoldCont(log, b, base, k, a, last, h, Len(log)) /\ HistFoldSeen(log, base, a, h, Len(log))
  BY <1>1 DEF HistFolded
<1>3. HistFoldEnds(log, b, base, k, a, last, h)
  BY <1>1, HistFoldEndsIs
<1>31. last \in Nat /\ k \in Nat
  BY HistOverIs
<1>4. HistCompleteSays(h, HistComplete(h))
  <2>1. PrefixTurns(h.order, h.cont) \subseteq DOMAIN h.turns
    BY <1>3 DEF HistFoldEnds
  <2>2. \A i \in 1 .. Len(h.order) : h.order[i] # 0
    <3>1. \A i \in 1 .. Len(h.order) : h.order[i] \in 1 .. last
      BY <1>2 DEF HistFoldOrder
    <3> QED
      BY <1>31, <3>1
  <2>3. \A i, j \in 1 .. Len(h.order) : h.order[i] = h.order[j] => i = j
    BY <1>2 DEF HistFoldOrder
  <2>4. h.cont = NoSummary \/ (HistInOrder(h.order, h.cont.frontier) /\ h.cont.frontier # 0)
    <3>1. \A f \in 1 .. last : f # 0
      BY <1>31
    <3> QED
      BY <1>3, <3>1 DEF HistFoldEnds
  <2> QED
    BY <1>2, <2>1, <2>2, <2>3, <2>4, HistCompleteIs
<1> PICK r : r = HistComplete(h)
  OBVIOUS
<1>5. HistCompleteSays(h, r)
  BY <1>4
<1>6. /\ HistOrders(log, b, r, last) /\ \A i \in 1 .. Len(r.order) : HistInOrder(h.order, r.order[i])
  BY <1>1, <1>5, HistOrderIsKept
<1>7. HistSummed(log, b, r, last, Len(log))
  BY <1>1, <1>5, HistSummaryIsKept
<1>8. \A i \in PrefixCount(r.order, r.cont) + 1 .. Len(r.order) : HistRawTurn(log, b, r, r.order[i], Len(log))
  BY <1>1, <1>5, HistRawsAreKept
<1>9. r \in Hists /\ r.turns = h.turns /\ r.through = h.through /\ r.cont.frontier = h.cont.frontier
  BY <1>5 DEF HistCompleteSays
<1>10. HistTurnsOf(log, b, r, last)
  BY <1>2, <1>9 DEF HistTurnsOf
<1>11. base.through <= r.through /\ r.through <= Len(log)
       /\ \A j \in 1 .. Len(log) : j > a /\ log[j].kind # "checkpoint" => j <= r.through
  BY <1>2, <1>9 DEF HistFoldSeen
<1>12. HistKnows(log, b, r, last, Len(log))
  BY <1>6, <1>7, <1>8, <1>10, <1>11 DEF HistKnows
<1>13. base.cont.frontier <= r.cont.frontier
  BY <1>3, <1>9 DEF HistFoldEnds
<1>14. \A n \in 1 .. Len(log) : n > a /\ HistNewest(log, n) => r.cont.frontier = log[n].cont.frontier
  BY <1>2, <1>9 DEF HistFoldCont, HistNewest
<1>15. ASSUME NEW i \in 1 .. Len(r.order), HistDone(log, b, r.order[i])
       PROVE  r.order[i] > k \/ HistInOrder(base.order, r.order[i])
  <2>1. PICK x \in 1 .. Len(h.order) : h.order[x] = r.order[i]
    BY <1>6 DEF HistInOrder
  <2>2. Len(base.order) \in Nat /\ Len(h.order) \in Nat
    BY <1>3 DEF HistFoldEnds
  <2>3. CASE x \in 1 .. Len(base.order)
    <3>1. base.order[x] = r.order[i]
      BY <1>2, <2>1, <2>3 DEF HistFoldOrder
    <3> QED
      BY <2>3, <3>1 DEF HistInOrder
  <2>4. CASE x \in Len(base.order) + 1 .. Len(h.order)
    <3>1. ~(h.order[x] <= k)
      BY <1>2, <1>15, <2>1, <2>4 DEF HistFoldOrder
    <3>2. h.order[x] \in 1 .. last
      BY <1>2 DEF HistFoldOrder
    <3> QED
      BY <1>31, <2>1, <3>1, <3>2
  <2> QED
    BY <2>2, <2>3, <2>4
<1>16. HistBuilt(log, b, base, k, a, last, r)
  BY <1>9, <1>11, <1>12, <1>13, <1>14, <1>15 DEF HistBuilt
<1> QED
  BY <1>1, <1>16

------------------------------------------------------------------------------
(* A log with one event more, which the first j turns did not do themselves.      *)
HistExtends(log, log2, j) ==
    /\ Len(log) \in Nat /\ Len(log2) = Len(log) + 1 /\ j \in Int
    /\ \A n \in 1 .. Len(log) : log2[n] = log[n]
    /\ log2[Len(log) + 1].turn \in Nat
    /\ log2[Len(log) + 1].turn <= j => log2[Len(log) + 1].kind \in {"note", "checkpoint"}

LEMMA HistExtendsLess ==
    ASSUME NEW log, NEW log2, NEW j, HistExtends(log, log2, j), NEW i \in Int, i <= j
    PROVE  HistExtends(log, log2, i)
<1> PICK t, e : t = log2[Len(log) + 1].turn /\ e = log2[Len(log) + 1].kind
  OBVIOUS
<1>1. t \in Nat /\ j \in Int /\ (t <= j => e \in {"note", "checkpoint"})
  BY DEF HistExtends
<1>2. t <= i => e \in {"note", "checkpoint"}
  BY <1>1
<1> QED
  BY <1>2 DEF HistExtends

LEMMA HistExtendsPlaces ==
    ASSUME NEW log, NEW log2, NEW j, HistExtends(log, log2, j)
    PROVE  /\ \A n \in 1 .. Len(log2) : n \in 1 .. Len(log) \/ n = Len(log) + 1
           /\ 1 .. Len(log) \subseteq 1 .. Len(log2) /\ Len(log) + 1 \in 1 .. Len(log2)
           /\ Len(log) + 1 \notin 1 .. Len(log)
<1>1. Len(log) \in Nat /\ Len(log2) = Len(log) + 1
  BY DEF HistExtends
<1> QED
  BY <1>1

LEMMA HistEndsStay ==
    ASSUME NEW log, NEW log2, NEW j, HistExtends(log, log2, j), NEW t \in Int, t <= j
    PROVE  /\ \A n : HistEndsAt(log2, t, n) <=> HistEndsAt(log, t, n)
           /\ HistEnded(log2, t) <=> HistEnded(log, t)
           /\ \A b : HistDone(log2, b, t) <=> HistDone(log, b, t)
<1>1. ~HistEndsAt(log2, t, Len(log) + 1)
  <2>1. HistEndsAt(log2, t, Len(log) + 1) => log2[Len(log) + 1].kind \in {"note", "checkpoint"}
    BY DEF HistEndsAt, HistExtends
  <2>2. "note" \notin EndKinds /\ "checkpoint" \notin EndKinds
    BY HistKindsAre
  <2> QED
    BY <2>1, <2>2 DEF HistEndsAt
<1>2. \A n : HistEndsAt(log2, t, n) <=> HistEndsAt(log, t, n)
  <2> TAKE n
  <2>1. CASE n \in 1 .. Len(log)
    BY <2>1, HistExtendsPlaces DEF HistEndsAt, HistExtends
  <2>2. CASE n \notin 1 .. Len(log)
    BY <1>1, <2>2, HistExtendsPlaces DEF HistEndsAt
  <2> QED
    BY <2>1, <2>2
<1>3. HistEnded(log2, t) <=> HistEnded(log, t)
  BY <1>2, HistEndedAt
<1> QED
  BY <1>2, <1>3 DEF HistDone

LEMMA HistSpeaksStay ==
    ASSUME NEW log, NEW log2, NEW j, HistExtends(log, log2, j), NEW t \in Int, t <= j, HistEnded(log, t)
    PROVE  HistSpeaks(log2, t) = HistSpeaks(log, t)
<1>1. PICK e : HistEndsAt(log, t, e)
  BY HistEndedAt
<1>2. e \in 1 .. Len(log) /\ HistEndsAt(log2, t, e)
  BY <1>1, HistEndsStay DEF HistEndsAt
<1>3. \A n : HistEndsAt(log2, t, n) <=> HistEndsAt(log, t, n)
  BY HistEndsStay
<1>4. Len(log) \in Nat /\ \A n \in 1 .. Len(log) : log2[n] = log[n]
  BY DEF HistExtends
<1>5. Len(log) + 1 \notin HistSpeaks(log2, t)
  <2>1. e \in 1 .. Len(log) + 1
    BY <1>2, <1>4
  <2> QED
    BY <1>2, <2>1 DEF HistSpeaks
<1>6. ASSUME NEW n \in 1 .. Len(log) PROVE n \in HistSpeaks(log2, t) <=> n \in HistSpeaks(log, t)
  BY <1>3, <1>4, HistExtendsPlaces DEF HistSpeaks
<1>7. HistSpeaks(log2, t) \subseteq 1 .. Len(log2) /\ HistSpeaks(log, t) \subseteq 1 .. Len(log)
  BY DEF HistSpeaks
<1>8. \A n : n \in HistSpeaks(log2, t) <=> n \in HistSpeaks(log, t)
  BY <1>5, <1>6, <1>7, HistExtendsPlaces
<1> QED
  BY <1>8

LEMMA HistLateStay ==
    ASSUME NEW log, NEW log2, NEW j, HistExtends(log, log2, j), NEW t \in Int, t <= j
    PROVE  \A n \in 1 .. Len(log) : n \in HistLate(log2, t) <=> n \in HistLate(log, t)
<1>1. \A n : HistEndsAt(log2, t, n) <=> HistEndsAt(log, t, n)
  BY HistEndsStay
<1>2. \A n \in 1 .. Len(log) : log2[n] = log[n]
  BY DEF HistExtends
<1> QED
  BY <1>1, <1>2, HistExtendsPlaces DEF HistLate

LEMMA HistToldStays ==
    ASSUME NEW log, NEW log2, NEW j, HistExtends(log, log2, j), NEW t \in Int, t <= j, NEW b
    PROVE  HistTold(log2, b, t) <=> HistTold(log, b, t)
<1>1. HistDone(log2, b, t) <=> HistDone(log, b, t)
  BY HistEndsStay
<1>2. HistDone(log, b, t) => HistSpeaks(log2, t) = HistSpeaks(log, t)
  BY HistSpeaksStay DEF HistDone
<1> QED
  BY <1>1, <1>2 DEF HistTold

LEMMA HistSaidStays ==
    ASSUME NEW log, NEW log2, NEW j, HistExtends(log, log2, j), NEW t \in Int, t <= j, HistEnded(log, t)
    PROVE  HistSaid(log2, t, Len(log2)) = HistSaid(log, t, Len(log))
<1>1. Len(log) \in Nat /\ Len(log2) = Len(log) + 1
  BY DEF HistExtends
<1>2. HistSpeaks(log2, t) = HistSpeaks(log, t)
  BY HistSpeaksStay
<1>3. Len(log) + 1 \notin HistSpeaks(log, t)
  BY HistExtendsPlaces DEF HistSpeaks
<1>4. HistSaid(log, t, Len(log) + 1) = HistSaid(log, t, Len(log))
  BY <1>1, <1>3, HistSaidNext
<1>5. HistSaid(log2, t, Len(log) + 1) = HistSaid(log, t, Len(log) + 1)
  BY <1>2 DEF HistSaid
<1> QED
  BY <1>1, <1>4, <1>5

LEMMA HistSumsUpStays ==
    ASSUME NEW log, NEW log2, NEW j, HistExtends(log, log2, j), NEW b, NEW cont, NEW N, N \subseteq 1 .. Len(log),
           HistSumsUp(log, b, cont, j, N)
    PROVE  HistSumsUp(log2, b, cont, j, N)
<1>1. CASE cont = NoSummary
  BY <1>1 DEF HistSumsUp
<1>2. CASE cont # NoSummary
  <2> PICK f : f = cont.frontier
    OBVIOUS
  <2>1. /\ HistDone(log, b, f) /\ f \in 1 .. j
        /\ \A n \in cont.covers :
              /\ n \in 1 .. Len(log) /\ log[n].turn \in 1 .. j
              /\ HistDone(log, b, log[n].turn) => log[n].turn <= f
        /\ \A t \in 1 .. f : HistTold(log, b, t) =>
              HistSpeaks(log, t) \subseteq cont.covers /\ HistLate(log, t) \cap N \subseteq cont.covers
    BY <1>2 DEF HistSumsUp
  <2>2. j \in Int /\ \A t \in 1 .. j : t \in Int /\ t <= j
    BY DEF HistExtends
  <2>3. \A t \in 1 .. f : t \in Int /\ t <= j
    BY <2>1, <2>2
  <2>4. HistDone(log2, b, f)
    BY <2>1, <2>2, HistEndsStay
  <2>5. ASSUME NEW n \in cont.covers
        PROVE  /\ n \in 1 .. Len(log2) /\ log2[n].turn \in 1 .. j
               /\ HistDone(log2, b, log2[n].turn) => log2[n].turn <= f
    <3> PICK t : t = log[n].turn
      OBVIOUS
    <3>1. n \in 1 .. Len(log) /\ t \in 1 .. j /\ (HistDone(log, b, t) => t <= f)
      BY <2>1
    <3>2. log2[n] = log[n]
      BY <3>1 DEF HistExtends
    <3>3. HistDone(log2, b, t) <=> HistDone(log, b, t)
      BY <2>2, <3>1, HistEndsStay
    <3> QED
      BY <3>1, <3>2, <3>3, HistExtendsPlaces
  <2>6. ASSUME NEW t \in 1 .. f, HistTold(log2, b, t)
        PROVE  HistSpeaks(log2, t) \subseteq cont.covers /\ HistLate(log2, t) \cap N \subseteq cont.covers
    <3>1. HistTold(log, b, t)
      BY <2>3, <2>6, HistToldStays
    <3>2. HistSpeaks(log2, t) = HistSpeaks(log, t)
      BY <2>3, <3>1, HistSpeaksStay DEF HistTold, HistDone
    <3>3. \A n \in N : n \in HistLate(log2, t) => n \in HistLate(log, t)
      BY <2>3, HistLateStay
    <3> QED
      BY <2>1, <3>1, <3>2, <3>3
  <2> QED
    BY <2>1, <2>4, <2>5, <2>6 DEF HistSumsUp
<1> QED
  BY <1>1, <1>2

LEMMA HistRawStays ==
    ASSUME NEW log, NEW log2, NEW k, HistExtends(log, log2, k), NEW b, NEW h \in Hists,
           HistTurnsOf(log, b, h, k), NEW a \in Int, a <= Len(log), NEW t, HistRawTurn(log, b, h, t, a)
    PROVE  HistRawTurn(log2, b, h, t, a)
<1>1. /\ HistDone(log, b, t) /\ t \in DOMAIN h.turns
      /\ h.turns[t].terminal /\ HistEndsAt(log, t, h.turns[t].at)
      /\ HistTold(log, b, t) =>
            /\ Select(h.turns[t].entries, HistPlain(log)) = HistSaid(log, t, Len(log))
            /\ \A n \in HistLate(log, t) : n <= a => n \in ToSet(h.turns[t].notes)
  BY DEF HistRawTurn
<1>2. /\ t \in 1 .. k /\ \A n \in ToSet(h.turns[t].entries) : n \in 1 .. Len(log)
  BY <1>1 DEF HistTurnsOf
<1>3. t \in Int /\ t <= k /\ k \in Int /\ Len(log) \in Nat
  BY <1>2 DEF HistExtends
<1>4. HistDone(log2, b, t) /\ HistEndsAt(log2, t, h.turns[t].at)
  BY <1>1, <1>3, HistEndsStay
<1>5. ASSUME HistTold(log2, b, t)
      PROVE  /\ Select(h.turns[t].entries, HistPlain(log2)) = HistSaid(log2, t, Len(log2))
             /\ \A n \in HistLate(log2, t) : n <= a => n \in ToSet(h.turns[t].notes)
  <2>1. HistTold(log, b, t) /\ HistEnded(log, t)
    BY <1>1, <1>3, <1>5, HistToldStays DEF HistDone
  <2>2. HistSaid(log2, t, Len(log2)) = HistSaid(log, t, Len(log))
    BY <1>3, <2>1, HistSaidStays
  <2> PICK s : s = h.turns[t].entries
    OBVIOUS
  <2>3. s \in Seq(Nat)
    <3>1. h.turns[t] \in HistTurnRecs
      BY <1>1, HistsAre, HistMapsAre
    <3> QED
      BY <3>1, HistTurnRecTyped
  <2>4. \A i \in 1 .. Len(s) : s[i] \in 1 .. Len(log)
    <3>1. ToSet(s) = {s[i] : i \in 1 .. Len(s)}
      BY <2>3, LenProperties DEF ToSet
    <3> QED
      BY <1>2, <3>1
  <2>5. \A n \in 1 .. Len(log) : n \in HistPlain(log2) <=> n \in HistPlain(log)
    <3>1. \A n \in 1 .. Len(log) : log2[n] = log[n]
      BY DEF HistExtends
    <3> QED
      BY <3>1, HistExtendsPlaces DEF HistPlain
  <2>6. Select(s, HistPlain(log2)) = Select(s, HistPlain(log))
    <3>1. \A i \in 1 .. Len(s) : s[i] \in HistPlain(log2) <=> s[i] \in HistPlain(log)
      BY <2>4, <2>5
    <3> QED
      BY <2>3, <3>1, SelectSame
  <2>7. ASSUME NEW n \in HistLate(log2, t), n <= a PROVE n \in ToSet(h.turns[t].notes)
    <3>1. n \in 1 .. Len(log2)
      BY DEF HistLate
    <3>2. n \in 1 .. Len(log)
      BY <1>3, <2>7, <3>1
    <3>3. n \in HistLate(log, t)
      BY <1>3, <2>7, <3>2, HistLateStay
    <3> QED
      BY <1>1, <2>1, <2>7, <3>3
  <2> QED
    BY <1>1, <2>1, <2>2, <2>6, <2>7
<1> QED
  BY <1>1, <1>4, <1>5 DEF HistRawTurn

LEMMA HistKnowsStays ==
    ASSUME NEW log, NEW log2, NEW k, HistExtends(log, log2, k), NEW b, NEW h \in Hists,
           NEW a \in Int, a <= Len(log), HistKnows(log, b, h, k, a)
    PROVE  HistKnows(log2, b, h, k, a)
<1>1. /\ HistOrders(log, b, h, k) /\ HistSummed(log, b, h, k, a) /\ HistTurnsOf(log, b, h, k)
      /\ \A i \in PrefixCount(h.order, h.cont) + 1 .. Len(h.order) : HistRawTurn(log, b, h, h.order[i], a)
      /\ h.through <= Len(log)
  BY DEF HistKnows
<1>2. k \in Int /\ Len(log) \in Nat /\ Len(log2) = Len(log) + 1 /\ \A t \in 1 .. k : t \in Int /\ t <= k
  BY DEF HistExtends
<1>3. \A t \in 1 .. k : /\ HistDone(log2, b, t) <=> HistDone(log, b, t)
                        /\ HistTold(log2, b, t) <=> HistTold(log, b, t)
  BY <1>2, HistEndsStay, HistToldStays
<1>4. HistOrders(log2, b, h, k)
  BY <1>1, <1>3 DEF HistOrders
<1>5. HistSummed(log2, b, h, k, a)
  <2>1. 1 .. a \subseteq 1 .. Len(log)
    BY <1>2
  <2>2. HistSumsUp(log2, b, h.cont, k, 1 .. a)
    BY <1>1, <2>1, HistSumsUpStays DEF HistSummed
  <2> QED
    BY <1>1, <2>2 DEF HistSummed
<1>6. \A i \in PrefixCount(h.order, h.cont) + 1 .. Len(h.order) : HistRawTurn(log2, b, h, h.order[i], a)
  BY <1>1, HistRawStays
<1>7. HistTurnsOf(log2, b, h, k)
  <2> SUFFICES ASSUME NEW t \in DOMAIN h.turns
               PROVE  /\ t \in 1 .. k
                      /\ \A n \in ToSet(h.turns[t].entries) \cup ToSet(h.turns[t].notes) :
                            n \in 1 .. Len(log2) /\ log2[n].turn = t
                      /\ HistTold(log2, b, t) => \A e \in 1 .. Len(log2) : HistEndsAt(log2, t, e) => h.turns[t].at <= e
    BY DEF HistTurnsOf
  <2>1. /\ t \in 1 .. k
        /\ \A n \in ToSet(h.turns[t].entries) \cup ToSet(h.turns[t].notes) : n \in 1 .. Len(log) /\ log[n].turn = t
        /\ HistTold(log, b, t) => \A e \in 1 .. Len(log) : HistEndsAt(log, t, e) => h.turns[t].at <= e
    BY <1>1 DEF HistTurnsOf
  <2>2. \A n \in 1 .. Len(log) : log2[n] = log[n] /\ n \in 1 .. Len(log2)
    BY HistExtendsPlaces DEF HistExtends
  <2>3. \A e : HistEndsAt(log2, t, e) => HistEndsAt(log, t, e) /\ e \in 1 .. Len(log)
    <3>1. \A e : HistEndsAt(log2, t, e) => HistEndsAt(log, t, e)
      BY <1>2, <2>1, HistEndsStay
    <3> QED
      BY <3>1 DEF HistEndsAt
  <2> QED
    BY <1>3, <2>1, <2>2, <2>3
<1>8. h.through <= Len(log2)
  <2>1. h.through \in Int
    BY HistsAre
  <2> QED
    BY <1>1, <1>2, <2>1
<1> QED
  BY <1>4, <1>5, <1>6, <1>7, <1>8 DEF HistKnows

LEMMA HistPartsStay ==
    ASSUME NEW log, NEW log2, NEW k, HistExtends(log, log2, k), NEW a \in Int, a <= Len(log), HistParts(log, k, a)
    PROVE  HistParts(log2, k, a)
<1>1. k \in Int /\ Len(log) \in Nat /\ log2[Len(log) + 1].turn \in Nat
  BY DEF HistExtends
<1>2. ASSUME NEW n \in 1 .. Len(log2), HistOwn(log2[n])
      PROVE  IF log2[n].turn <= k THEN n <= a ELSE n > a \/ (n = a /\ log2[n].kind = "handoff")
  <2>1. CASE n \in 1 .. Len(log)
    BY <1>2, <2>1 DEF HistExtends, HistParts
  <2>2. CASE n = Len(log) + 1
    <3>1. n > a
      BY <1>1, <2>2
    <3>2. ~(log2[n].turn <= k)
      BY <1>2, <2>2 DEF HistOwn, HistExtends
    <3> QED
      BY <3>1, <3>2
  <2> QED
    BY <2>1, <2>2, HistExtendsPlaces
<1> QED
  BY <1>2 DEF HistParts

LEMMA HistBeforeLess ==
    ASSUME NEW log, NEW log2, NEW k, HistExtends(log, log2, k), NEW t, NEW m \in 1 .. Len(log), log[m].turn = t
    PROVE  HistBefore(log2, t) \subseteq HistBefore(log, t) /\ HistBefore(log, t) \subseteq 1 .. Len(log)
<1>1. Len(log) \in Nat /\ Len(log2) = Len(log) + 1 /\ \A n \in 1 .. Len(log) : log2[n] = log[n]
  BY DEF HistExtends
<1>2. ASSUME NEW n \in HistBefore(log2, t) PROVE n \in HistBefore(log, t)
  <2>1. n \in 1 .. Len(log2) /\ \A j \in 1 .. Len(log2) : log2[j].turn = t => n < j
    BY DEF HistBefore
  <2>2. n < m
    BY <1>1, <2>1, HistExtendsPlaces
  <2>3. n \in 1 .. Len(log)
    BY <1>1, <2>1, <2>2
  <2>4. \A j \in 1 .. Len(log) : log[j].turn = t => n < j
    BY <1>1, <2>1, HistExtendsPlaces
  <2> QED
    BY <2>3, <2>4 DEF HistBefore
<1>3. HistBefore(log, t) \subseteq 1 .. Len(log)
  BY DEF HistBefore
<1> QED
  BY <1>2, <1>3

(* A continuation may be appended if it sums up what came before its turn.        *)
HistMaySum(log, b, last, e) ==
    /\ e.kind = "continuation" => /\ e.turn = last /\ \E n \in 1 .. Len(log) : log[n].turn = last
                                  /\ HistSumsUp(log, b, e.cont, last - 1, HistBefore(log, last))
                                  /\ e.cont # NoSummary

LEMMA HistSummariesStay ==
    ASSUME NEW log, NEW log2, NEW last \in Nat, HistExtends(log, log2, last - 1), NEW b, NEW a,
           \A n \in 1 .. Len(log) : log[n].turn \in 0 .. last, HistSummaries(log, b, a),
           HistMaySum(log, b, last, log2[Len(log) + 1])
    PROVE  HistSummaries(log2, b, a)
<1>1. ASSUME NEW t \in 0 .. last, NEW m \in 1 .. Len(log), log[m].turn = t, NEW cont,
             HistSumsUp(log, b, cont, t - 1, HistBefore(log, t))
      PROVE  HistSumsUp(log2, b, cont, t - 1, HistBefore(log2, t))
  <2>1. t - 1 \in Int /\ t - 1 <= last - 1
    OBVIOUS
  <2>2. HistExtends(log, log2, t - 1)
    BY <2>1, HistExtendsLess
  <2>3. HistBefore(log2, t) \subseteq HistBefore(log, t) /\ HistBefore(log, t) \subseteq 1 .. Len(log)
    BY <1>1, <2>2, HistBeforeLess
  <2>4. HistSumsUp(log2, b, cont, t - 1, HistBefore(log, t))
    BY <1>1, <2>2, <2>3, HistSumsUpStays
  <2>5. \A u \in 1 .. t - 1 : HistLate(log2, u) \cap HistBefore(log2, t) \subseteq HistBefore(log, t)
    BY <2>3
  <2>6. t - 1 <= t - 1
    BY <2>1
  <2> QED
    BY <2>1, <2>4, <2>5, <2>6, HistSumsUpLess
<1>2. ASSUME NEW n \in 1 .. Len(log2), n > a, log2[n].kind = "continuation"
      PROVE  HistSumsUp(log2, b, log2[n].cont, log2[n].turn - 1, HistBefore(log2, log2[n].turn)) /\ log2[n].cont # NoSummary
  <2>1. CASE n \in 1 .. Len(log)
    <3>1. log2[n] = log[n]
      BY <2>1 DEF HistExtends
    <3>2. HistSumsUp(log, b, log[n].cont, log[n].turn - 1, HistBefore(log, log[n].turn)) /\ log[n].cont # NoSummary
      BY <1>2, <2>1, <3>1 DEF HistSummaries
    <3> QED
      BY <1>1, <2>1, <3>1, <3>2
  <2>2. CASE n = Len(log) + 1
    <3>1. /\ log2[n].turn = last /\ \E m \in 1 .. Len(log) : log[m].turn = last
          /\ HistSumsUp(log, b, log2[n].cont, last - 1, HistBefore(log, last)) /\ log2[n].cont # NoSummary
      BY <1>2, <2>2 DEF HistMaySum
    <3>2. last \in 0 .. last
      OBVIOUS
    <3> QED
      BY <1>1, <3>1, <3>2
  <2> QED
    BY <2>1, <2>2, HistExtendsPlaces
<1> QED
  BY <1>2 DEF HistSummaries

LEMMA HistGrowsStays ==
    ASSUME NEW log, NEW log2, NEW j, HistExtends(log, log2, j), NEW h, NEW k, NEW a, HistGrows(log, h, k, a),
           log2[Len(log) + 1].kind = "continuation" => HistReaches(h, k, log2[Len(log) + 1].cont)
    PROVE  HistGrows(log2, h, k, a)
<1>1. Len(log) \in Nat /\ Len(log2) = Len(log) + 1 /\ \A n \in 1 .. Len(log) : log2[n] = log[n]
  BY DEF HistExtends
<1> SUFFICES ASSUME NEW n \in 1 .. Len(log2), n > a, HistNewest(log2, n) PROVE HistReaches(h, k, log2[n].cont)
  BY DEF HistGrows
<1>2. CASE n = Len(log) + 1
  BY <1>2 DEF HistNewest
<1>3. CASE n \in 1 .. Len(log)
  <2>1. log[n].kind = "continuation" /\ \A i \in n + 1 .. Len(log2) : log2[i].kind # "continuation"
    BY <1>1, <1>3 DEF HistNewest
  <2>2. \A i \in n + 1 .. Len(log) : i \in 1 .. Len(log) /\ i \in n + 1 .. Len(log2)
    BY <1>1, <1>3
  <2>3. HistNewest(log, n)
    BY <1>1, <2>1, <2>2 DEF HistNewest
  <2> QED
    BY <1>1, <1>3, <2>3 DEF HistGrows
<1> QED
  BY <1>2, <1>3, HistExtendsPlaces

LEMMA HistReplayStays ==
    ASSUME NEW log, NEW log2, NEW last \in Nat, HistExtends(log, log2, last - 1),
           NEW k, HistExtends(log, log2, k), NEW b, NEW h \in Hists, NEW a \in Int, a <= Len(log),
           \A n \in 1 .. Len(log) : log[n].turn \in 0 .. last,
           HistCanReplay(log, b, h, k, a), HistMaySum(log, b, last, log2[Len(log) + 1]),
           log2[Len(log) + 1].kind = "continuation" => HistReaches(h, k, log2[Len(log) + 1].cont)
    PROVE  HistCanReplay(log2, b, h, k, a)
<1>1. HistKnows(log, b, h, k, a) /\ HistParts(log, k, a) /\ HistSummaries(log, b, a) /\ HistGrows(log, h, k, a)
  BY DEF HistCanReplay
<1>2. HistKnows(log2, b, h, k, a)
  BY <1>1, HistKnowsStays
<1>3. HistParts(log2, k, a)
  BY <1>1, HistPartsStay
<1>4. HistSummaries(log2, b, a)
  BY <1>1, HistSummariesStay
<1>5. HistGrows(log2, h, k, a)
  BY <1>1, HistGrowsStays
<1> QED
  BY <1>2, <1>3, <1>4, <1>5 DEF HistCanReplay

------------------------------------------------------------------------------
(* One event more, in each part of the invariant.                                 *)
HistMarks(log) == {n \in 1 .. Len(log) : log[n].kind = "checkpoint"}

LEMMA HistNewestMark ==
    ASSUME NEW log, Len(log) \in Nat, HistMarks(log) # {}
    PROVE  \E n \in HistMarks(log) : \A m \in HistMarks(log) : m <= n
<1> DEFINE T == {x \in Nat : \E n \in HistMarks(log) : x = Len(log) - n}
<1>1. \A n \in HistMarks(log) : Len(log) - n \in T /\ n \in 1 .. Len(log)
  BY DEF HistMarks
<1>2. T \in SUBSET Nat /\ T # {}
  BY <1>1
<1>3. PICK x \in T : \A y \in T : x <= y
  <2> HIDE DEF T
  <2> QED
    BY <1>2, LeastOf
<1>4. PICK n \in HistMarks(log) : x = Len(log) - n
  OBVIOUS
<1>5. ASSUME NEW m \in HistMarks(log) PROVE m <= n
  <2>1. x <= Len(log) - m
    BY <1>1, <1>3
  <2> QED
    BY <1>1, <1>4, <2>1, SMTT(60)
<1> QED
  BY <1>5

LEMMA HistLatestIs ==
    ASSUME NEW log \in Seq(HistEvents)
    PROVE  /\ HistMarks(log) = {} => LatestCheckpoint(log) = NoHistory
           /\ \A n \in HistMarks(log) : (\A m \in HistMarks(log) : m <= n) => LatestCheckpoint(log) = log[n].saved
           /\ LatestCheckpoint(log) \in Hists
<1> DEFINE c == CHOOSE n \in HistMarks(log) : \A m \in HistMarks(log) : m <= n
<1>1. Len(log) \in Nat /\ DOMAIN log = 1 .. Len(log) /\ \A n \in 1 .. Len(log) : log[n] \in HistEvents
  BY LenProperties, ElementOfSeq
<1>2. LatestCheckpoint(log) = IF HistMarks(log) = {} THEN NoHistory ELSE log[c].saved
  BY <1>1 DEF LatestCheckpoint, HistMarks
<1>3. HistMarks(log) # {} => c \in HistMarks(log) /\ \A m \in HistMarks(log) : m <= c
  BY <1>1, HistNewestMark
<1>4. HistMarks(log) \subseteq 1 .. Len(log)
  BY DEF HistMarks
<1> HIDE DEF c
<1>5. ASSUME NEW n \in HistMarks(log), \A m \in HistMarks(log) : m <= n PROVE n = c
  <2>1. n <= c /\ c <= n /\ n \in 1 .. Len(log) /\ c \in 1 .. Len(log)
    BY <1>3, <1>4, <1>5
  <2> QED
    BY <2>1
<1>6. NoHistory \in Hists
  <2>1. NoSummary \in HistConts
    BY DEF NoSummary, HistConts
  <2>2. <<>> \in HistMaps
    <3>1. DOMAIN <<>> = {} /\ <<>> = [u \in {} |-> <<>>[u]]
      OBVIOUS
    <3> QED
      BY <3>1, HistMapsAre
  <2>3. NoHistory = HistOf(<<>>, <<>>, NoSummary, -1)
    BY DEF NoHistory, HistOf
  <2>4. <<>> \in Seq(Nat) /\ -1 \in Int
    OBVIOUS
  <2> QED
    BY <2>1, <2>2, <2>3, <2>4, HistsAre
<1>7. HistMarks(log) # {} => log[c].saved \in Hists
  <2> SUFFICES ASSUME HistMarks(log) # {} PROVE log[c].saved \in Hists
    OBVIOUS
  <2>1. log[c] \in HistEvents
    BY <1>1, <1>3, <1>4
  <2> QED
    BY <2>1 DEF HistEvents
<1> QED
  BY <1>2, <1>5, <1>6, <1>7

LEMMA HistLatestStays ==
    ASSUME NEW log \in Seq(HistEvents), NEW log2 \in Seq(HistEvents), NEW j, HistExtends(log, log2, j)
    PROVE  LatestCheckpoint(log2) = IF log2[Len(log) + 1].kind = "checkpoint" THEN log2[Len(log) + 1].saved
                                    ELSE LatestCheckpoint(log)
<1>1. Len(log) \in Nat /\ \A n \in 1 .. Len(log) : log2[n] = log[n]
  BY DEF HistExtends
<1>2. CASE log2[Len(log) + 1].kind = "checkpoint"
  <2>1. Len(log) + 1 \in HistMarks(log2)
    BY <1>2, HistExtendsPlaces DEF HistMarks
  <2>2. \A m \in HistMarks(log2) : m <= Len(log) + 1
    BY <1>1, HistExtendsPlaces DEF HistMarks
  <2> QED
    BY <1>2, <2>1, <2>2, HistLatestIs
<1>3. CASE log2[Len(log) + 1].kind # "checkpoint"
  <2>1. \A n : n \in HistMarks(log2) <=> n \in HistMarks(log)
    BY <1>1, <1>3, HistExtendsPlaces DEF HistMarks
  <2>2. HistMarks(log2) = HistMarks(log)
    BY <2>1
  <2>3. CASE HistMarks(log) = {}
    BY <1>3, <2>2, <2>3, HistLatestIs
  <2>4. CASE HistMarks(log) # {}
    <3>1. PICK n \in HistMarks(log) : \A m \in HistMarks(log) : m <= n
      BY <1>1, <2>4, HistNewestMark
    <3>2. LatestCheckpoint(log) = log[n].saved /\ LatestCheckpoint(log2) = log2[n].saved
      BY <2>2, <3>1, HistLatestIs
    <3>3. log2[n] = log[n]
      BY <1>1 DEF HistMarks
    <3> QED
      BY <1>3, <3>2, <3>3
  <2> QED
    BY <2>3, <2>4
<1> QED
  BY <1>2, <1>3

LEMMA HistForgotStays ==
    ASSUME NEW log, NEW log2, NEW j, HistExtends(log, log2, j), NEW b, HistForgot(log, b)
    PROVE  HistForgot(log2, b)
  BY HistExtendsPlaces DEF HistForgot, HistExtends

LEMMA HistNotedStays ==
    ASSUME NEW log, NEW log2, NEW j, HistExtends(log, log2, j), HistNoted(log),
           log2[Len(log) + 1].kind = "note" =>
              \E i \in 1 .. Len(log) : log[i].kind = "entry" /\ log[i].turn = log2[Len(log) + 1].turn
    PROVE  HistNoted(log2)
<1>1. Len(log) \in Nat /\ \A n \in 1 .. Len(log) : log2[n] = log[n]
  BY DEF HistExtends
<1> SUFFICES ASSUME NEW n \in 1 .. Len(log2), log2[n].kind = "note"
             PROVE  \E i \in 1 .. n : i # n /\ log2[i].kind = "entry" /\ log2[i].turn = log2[n].turn
  BY DEF HistNoted
<1>2. CASE n \in 1 .. Len(log)
  <2>1. PICK i \in 1 .. n : i # n /\ log[i].kind = "entry" /\ log[i].turn = log[n].turn
    BY <1>1, <1>2 DEF HistNoted
  <2>2. i \in 1 .. Len(log)
    BY <1>1, <1>2
  <2> QED
    BY <1>1, <1>2, <2>1, <2>2
<1>3. CASE n = Len(log) + 1
  <2>1. PICK i \in 1 .. Len(log) : log[i].kind = "entry" /\ log[i].turn = log2[n].turn
    BY <1>3
  <2>2. i \in 1 .. n /\ i # n
    BY <1>1, <1>3
  <2> QED
    BY <1>1, <2>1, <2>2
<1> QED
  BY <1>2, <1>3, HistExtendsPlaces

LEMMA HistBeganStays ==
    ASSUME NEW log, NEW log2, NEW t, HistExtends(log, log2, t - 1), NEW a, HistBegan(log, t, a)
    PROVE  HistBegan(log2, t, a)
<1>1. a \in 0 .. Len(log) /\ HistParts(log, t - 1, a) /\ \E n \in 1 .. Len(log) : n <= a + 1 /\ log[n].turn = t
  BY DEF HistBegan
<1>2. Len(log) \in Nat /\ Len(log2) = Len(log) + 1 /\ \A n \in 1 .. Len(log) : log2[n] = log[n]
  BY DEF HistExtends
<1>3. a \in 0 .. Len(log2) /\ a \in Int /\ a <= Len(log)
  BY <1>1, <1>2
<1>4. HistParts(log2, t - 1, a)
  BY <1>1, <1>3, HistPartsStay
<1> QED
  BY <1>1, <1>2, <1>3, <1>4, HistExtendsPlaces DEF HistBegan

LEMMA HistReadyStays ==
    ASSUME NEW log, NEW log2, NEW last \in Nat, HistExtends(log, log2, last - 1),
           \A n \in 1 .. Len(log) : log[n].turn \in 0 .. last,
           NEW h \in Hists, NEW a, NEW base, NEW b, NEW k, HistReady(log, h, last, a, base, b, k),
           HistMaySum(log, b, last, log2[Len(log) + 1]),
           log2[Len(log) + 1].kind = "continuation" => HistReaches(h, last - 1, log2[Len(log) + 1].cont)
    PROVE  HistReady(log2, h, last, a, base, b, k)
<1>1. /\ HistBegan(log, last, a) /\ HistCanReplay(log, b, h, last - 1, a)
      /\ \A i \in 1 .. Len(h.order) :
            HistDone(log, b, h.order[i]) => h.order[i] > k \/ HistInOrder(base.order, h.order[i])
      /\ base.cont.frontier <= h.cont.frontier
  BY DEF HistReady
<1>2. a \in Int /\ a <= Len(log)
  <2>1. Len(log) \in Nat /\ a \in 0 .. Len(log)
    BY <1>1 DEF HistBegan, HistExtends
  <2> QED
    BY <2>1
<1>3. HistBegan(log2, last, a)
  BY <1>1, HistBeganStays
<1>4. HistCanReplay(log2, b, h, last - 1, a)
  BY <1>1, <1>2, HistReplayStays
<1>5. \A i \in 1 .. Len(h.order) : HistDone(log2, b, h.order[i]) => HistDone(log, b, h.order[i])
  <2>1. \A i \in 1 .. Len(h.order) : h.order[i] \in 1 .. last - 1
    BY <1>1 DEF HistCanReplay, HistKnows, HistOrders
  <2>2. \A t \in 1 .. last - 1 : HistDone(log2, b, t) <=> HistDone(log, b, t)
    <3>1. \A t \in 1 .. last - 1 : t \in Int /\ t <= last - 1
      OBVIOUS
    <3> QED
      BY <3>1, HistEndsStay
  <2> QED
    BY <2>1, <2>2
<1> QED
  BY <1>1, <1>3, <1>4, <1>5 DEF HistReady

LEMMA HistSilentStays ==
    ASSUME NEW log, NEW log2, NEW j, HistExtends(log, log2, j), NEW t, log2[Len(log) + 1].kind # "continuation"
    PROVE  /\ \A n : HistRecords(log2, t, n) <=> HistRecords(log, t, n)
           /\ HistSilent(log2, t) <=> HistSilent(log, t)
           /\ \A cont : HistRecorded(log, t, cont) => HistRecorded(log2, t, cont)
<1>1. Len(log) \in Nat /\ \A n \in 1 .. Len(log) : log2[n] = log[n]
  BY DEF HistExtends
<1>2. \A n : HistRecords(log2, t, n) <=> HistRecords(log, t, n)
  <2> TAKE n
  <2>1. CASE n \in 1 .. Len(log)
    BY <1>1, <2>1, HistExtendsPlaces DEF HistRecords
  <2>2. CASE n \notin 1 .. Len(log)
    BY <2>2, HistExtendsPlaces DEF HistRecords
  <2> QED
    BY <2>1, <2>2
<1>3. HistSilent(log2, t) <=> HistSilent(log, t)
  <2>1. \A l : HistSilent(l, t) <=> \A n : ~HistRecords(l, t, n)
    BY DEF HistSilent, HistRecords
  <2> QED
    BY <1>2, <2>1
<1>4. \A n : HistRecords(log, t, n) => log2[n] = log[n]
  BY <1>1 DEF HistRecords
<1>5. \A cont : HistRecorded(log, t, cont) => HistRecorded(log2, t, cont)
  BY <1>2, <1>3, <1>4 DEF HistRecorded
<1> QED
  BY <1>2, <1>3, <1>5

------------------------------------------------------------------------------
(* What is known of the call that runs stays known.                               *)
LEMMA HistCallStays ==
    ASSUME NEW log, NEW log2, NEW last \in Nat, HistExtends(log, log2, last - 1),
           \A n \in 1 .. Len(log) : log[n].turn \in 0 .. last, log2[Len(log) + 1].kind # "continuation",
           NEW run, run.template \in Hists, NEW base, NEW b, NEW k, HistCall(log, run, base, b, k, last)
    PROVE  HistCall(log2, run, base, b, k, last)
<1>1. \A a : HistReady(log, run.template, last, a, base, b, k) => HistReady(log2, run.template, last, a, base, b, k)
  <2>1. HistMaySum(log, b, last, log2[Len(log) + 1])
    BY DEF HistMaySum
  <2> QED
    BY <2>1, HistReadyStays
<1>2. \A a : HistBegan(log, last, a) => HistBegan(log2, last, a)
  BY HistBeganStays
<1>3. /\ HistSilent(log, last) => HistSilent(log2, last)
      /\ HistRecorded(log, last, run.cont) => HistRecorded(log2, last, run.cont)
  BY HistSilentStays
<1>4. \A a \in 0 .. Len(log) : a \in 0 .. Len(log2)
  <2>1. Len(log) \in Nat /\ Len(log2) = Len(log) + 1
    BY DEF HistExtends
  <2> QED
    BY <2>1
<1>5. (\E n \in 1 .. Len(log) : log[n].turn = last /\ log[n].kind = "rolled")
        => \E n \in 1 .. Len(log2) : log2[n].turn = last /\ log2[n].kind = "rolled"
  <2>1. \A n \in 1 .. Len(log) : n \in 1 .. Len(log2) /\ log2[n] = log[n]
    BY HistExtendsPlaces DEF HistExtends
  <2> QED
    BY <2>1
<1> QED
  BY <1>1, <1>2, <1>3, <1>4, <1>5 DEF HistCall

(* The checkpoint stays a history of the first turns, unless a newer one follows. *)
LEMMA HistBasedIs ==
    ASSUME NEW log \in Seq(HistEvents), NEW b, NEW k, NEW last \in Nat, HistBased(log, b, k, last)
    PROVE  /\ b \in Nat /\ k \in Nat /\ 1 <= b /\ b <= k + 1 /\ k <= last
           /\ LatestCheckpoint(log) \in Hists /\ LatestCheckpoint(log).through \in Int
           /\ LatestCheckpoint(log).through <= Len(log)
<1>1. b \in Nat /\ k \in Nat /\ 1 <= b /\ b <= k + 1 /\ k <= last
  BY DEF HistBased
<1>2. LatestCheckpoint(log) \in Hists
  BY HistLatestIs
<1>3. LatestCheckpoint(log).through \in Int
  BY <1>2, HistsAre
<1>4. LatestCheckpoint(log).through <= Len(log)
  BY DEF HistBased, HistCanReplay, HistKnows
<1> QED
  BY <1>1, <1>2, <1>3, <1>4

LEMMA HistBaseStays ==
    ASSUME NEW log \in Seq(HistEvents), NEW log2 \in Seq(HistEvents), NEW last \in Nat,
           HistExtends(log, log2, last - 1), \A n \in 1 .. Len(log) : log[n].turn \in 0 .. last,
           log2[Len(log) + 1].kind # "checkpoint",
           NEW b, NEW k, HistExtends(log, log2, k), HistBased(log, b, k, last),
           HistMaySum(log, b, last, log2[Len(log) + 1]),
           log2[Len(log) + 1].kind = "continuation" =>
              HistReaches(LatestCheckpoint(log), k, log2[Len(log) + 1].cont),
           NEW next \in Nat, last <= next
    PROVE  HistBased(log2, b, k, next) /\ LatestCheckpoint(log2) = LatestCheckpoint(log)
<1>1. /\ b \in Nat /\ k \in Nat /\ 1 <= b /\ b <= k + 1 /\ k <= last
      /\ LatestCheckpoint(log) \in Hists /\ LatestCheckpoint(log).through \in Int
      /\ LatestCheckpoint(log).through <= Len(log)
  BY HistBasedIs
<1>2. LatestCheckpoint(log2) = LatestCheckpoint(log)
  BY HistLatestStays
<1>3. HistForgot(log2, b)
  <2>1. HistForgot(log, b)
    BY DEF HistBased
  <2> QED
    BY <2>1, HistForgotStays
<1>4. HistCanReplay(log2, b, LatestCheckpoint(log), k, LatestCheckpoint(log).through)
  <2>1. HistCanReplay(log, b, LatestCheckpoint(log), k, LatestCheckpoint(log).through)
    BY DEF HistBased
  <2> QED
    BY <1>1, <2>1, HistReplayStays
<1>5. b \in 1 .. next + 1 /\ k \in 0 .. next
  BY <1>1
<1> QED
  BY <1>1, <1>2, <1>3, <1>4, <1>5 DEF HistBased

(* An event that is neither a summary nor a checkpoint.                           *)
HistSaysMore(log, log2, last, run) ==
    /\ log \in Seq(HistEvents) /\ log2 \in Seq(HistEvents) /\ last \in Nat /\ run.template \in Hists
    /\ HistExtends(log, log2, last - 1) /\ \A n \in 1 .. Len(log) : log[n].turn \in 0 .. last
    /\ log2[Len(log) + 1].kind \notin {"continuation", "checkpoint"}
    /\ run.pc # "idle" \/ log2[Len(log) + 1].kind = "note"
    /\ log2[Len(log) + 1].kind = "note" =>
          \E i \in 1 .. Len(log) : log[i].kind = "entry" /\ log[i].turn = log2[Len(log) + 1].turn
LEMMA HistPastStays ==
    ASSUME NEW log, NEW log2, NEW last, NEW run, HistSaysMore(log, log2, last, run), HistPast(log, run, last)
    PROVE  HistPast(log2, run, last)
<1>1. /\ log \in Seq(HistEvents) /\ log2 \in Seq(HistEvents) /\ last \in Nat /\ run.template \in Hists
      /\ HistExtends(log, log2, last - 1) /\ \A n \in 1 .. Len(log) : log[n].turn \in 0 .. last
      /\ log2[Len(log) + 1].kind \notin {"continuation", "checkpoint"}
  BY DEF HistSaysMore
<1>2. HistNoted(log2)
  <2>1. HistNoted(log)
    BY DEF HistPast
  <2>2. log2[Len(log) + 1].kind = "note" =>
          \E i \in 1 .. Len(log) : log[i].kind = "entry" /\ log[i].turn = log2[Len(log) + 1].turn
    BY DEF HistSaysMore
  <2> QED
    BY <1>1, <2>1, <2>2, HistNotedStays
<1>3. PICK b, k : HistBased(log, b, k, last) /\ HistCall(log, run, LatestCheckpoint(log), b, k, last)
  BY DEF HistPast
<1>4. b \in Nat /\ k \in Nat /\ k <= last
  BY <1>1, <1>3, HistBasedIs
<1>5. HistExtends(log, log2, k)
  <2>1. CASE run.pc # "idle"
    <3>1. k < last
      BY <1>3, <2>1 DEF HistCall
    <3>2. k <= last - 1
      BY <1>1, <1>4, <3>1
    <3> QED
      BY <1>1, <1>4, <3>2, HistExtendsLess
  <2>2. CASE log2[Len(log) + 1].kind = "note"
    BY <1>1, <1>4, <2>2 DEF HistExtends
  <2> QED
    BY <2>1, <2>2 DEF HistSaysMore
<1>6. HistBased(log2, b, k, last) /\ LatestCheckpoint(log2) = LatestCheckpoint(log)
  <2>1. HistMaySum(log, b, last, log2[Len(log) + 1])
    BY <1>1 DEF HistMaySum
  <2>2. last <= last
    BY <1>1
  <2> QED
    BY <1>1, <1>3, <1>5, <2>1, <2>2, HistBaseStays
<1>7. HistCall(log2, run, LatestCheckpoint(log2), b, k, last)
  BY <1>1, <1>3, <1>6, HistCallStays
<1> QED
  BY <1>2, <1>6, <1>7 DEF HistPast

------------------------------------------------------------------------------
(* The history a turn loads.                                                      *)
LEMMA HistLoadIs ==
    ASSUME NEW log, HistLogWell(log), NEW last \in Nat, NEW b, NEW k, HistBased(log, b, k, last),
           NEW m \in Nat, k <= m, NEW current, current = 0 \/ current = m + 1,
           \A n \in 1 .. Len(log) : log[n].turn \in 0 .. m \/ log[n].turn = current
    PROVE  HistBuilt(log, b, LatestCheckpoint(log), k, LatestCheckpoint(log).through, m, LoadHistory(log, current))
<1>1. log \in Seq(HistEvents)
  BY DEF HistLogWell
<1>2. PICK base, a : base = LatestCheckpoint(log) /\ a = LatestCheckpoint(log).through
  OBVIOUS
<1>3. b \in Nat /\ k \in Nat /\ 1 <= b /\ b <= k + 1 /\ base \in Hists /\ a \in Int
  BY <1>1, <1>2, HistBasedIs
<1>4. HistCanReplay(log, b, base, k, a)
  BY <1>2 DEF HistBased
<1>5. HistOver(log, b, base, k, a, m, current)
  BY <1>3, <1>4 DEF HistOver
<1>6. HistBuilt(log, b, base, k, a, m, BuildHistory(log, base, a, current))
  BY <1>5, HistBuildIs
<1>7. BuildHistory(log, base, a, current) = LoadHistory(log, current)
  BY <1>2 DEF LoadHistory
<1> QED
  BY <1>2, <1>6, <1>7

(* A turn begins.                                                                 *)
HistBeginsWith(log, log2, last, e) ==
    /\ log \in Seq(HistEvents) /\ log2 \in Seq(HistEvents) /\ last \in Nat
    /\ log2 = Append(log, e) /\ e.turn = last + 1
    /\ e.kind \in {"entry", "handoff", "started"}
    /\ \A n \in 1 .. Len(log) : log[n].turn \in 0 .. last
LEMMA HistBeginsIs ==
    ASSUME NEW log, NEW log2, NEW last, NEW e, HistBeginsWith(log, log2, last, e)
    PROVE  /\ HistExtends(log, log2, last) /\ Len(log) \in Nat /\ Len(log2) = Len(log) + 1
           /\ log2[Len(log) + 1] = e /\ HistSilent(log2, last + 1)
           /\ \A n \in 1 .. Len(log) : log2[n] = log[n]
<1>1. log \in Seq(HistEvents) /\ log2 = Append(log, e) /\ last \in Nat /\ e.turn = last + 1
  BY DEF HistBeginsWith
<1>2. /\ Len(log) \in Nat /\ Len(log2) = Len(log) + 1 /\ log2[Len(log) + 1] = e
      /\ \A n \in 1 .. Len(log) : log2[n] = log[n]
  <2>1. log2 \in Seq(HistEvents)
    BY DEF HistBeginsWith
  <2>2. e \in HistEvents
    <3>1. Len(log2) = Len(log) + 1 /\ Len(log) \in Nat /\ log2[Len(log) + 1] = e
      BY <1>1
    <3> QED
      BY <2>1, <3>1, ElementOfSeq
  <2> QED
    BY <1>1, <2>2, AppendProperties
<1>3. HistExtends(log, log2, last)
  BY <1>1, <1>2 DEF HistExtends
<1>4. HistSilent(log2, last + 1)
  <2> SUFFICES ASSUME NEW n \in 1 .. Len(log2), log2[n].turn = last + 1
               PROVE  log2[n].kind # "continuation"
    BY DEF HistSilent, HistRecords
  <2>1. CASE n \in 1 .. Len(log)
    <3>1. log[n].turn \in 0 .. last
      BY <2>1 DEF HistBeginsWith
    <3> QED
      BY <1>1, <1>2, <2>1, <3>1
  <2>2. CASE n = Len(log) + 1
    BY <1>2, <2>2 DEF HistBeginsWith
  <2> QED
    BY <1>3, <2>1, <2>2, HistExtendsPlaces
<1> QED
  BY <1>2, <1>3, <1>4

LEMMA HistBegunIs ==
    ASSUME NEW log, NEW log2, NEW last, NEW e, HistBeginsWith(log, log2, last, e),
           NEW a, a = Len(log) \/ (a = Len(log) + 1 /\ e.kind = "handoff")
    PROVE  HistBegan(log2, last + 1, a)
<1>1. /\ HistExtends(log, log2, last) /\ Len(log) \in Nat /\ Len(log2) = Len(log) + 1
      /\ log2[Len(log) + 1] = e /\ \A n \in 1 .. Len(log) : log2[n] = log[n]
  BY HistBeginsIs
<1>2. last \in Nat /\ e.turn = last + 1 /\ \A n \in 1 .. Len(log) : log[n].turn \in 0 .. last
  BY DEF HistBeginsWith
<1>3. a \in 0 .. Len(log2) /\ Len(log) <= a /\ a \in Nat
  BY <1>1
<1>4. HistParts(log2, last, a)
  <2> SUFFICES ASSUME NEW n \in 1 .. Len(log2)
               PROVE  IF log2[n].turn <= last THEN n <= a ELSE n > a \/ (n = a /\ log2[n].kind = "handoff")
    BY DEF HistParts
  <2>1. CASE n \in 1 .. Len(log)
    BY <1>1, <1>2, <1>3, <2>1
  <2>2. CASE n = Len(log) + 1
    <3>1. ~(log2[n].turn <= last)
      BY <1>1, <1>2, <2>2
    <3>2. n > a \/ (n = a /\ log2[n].kind = "handoff")
      BY <1>1, <2>2
    <3> QED
      BY <3>1, <3>2
  <2> QED
    BY <1>1, <2>1, <2>2, HistExtendsPlaces
<1>5. Len(log) + 1 \in 1 .. Len(log2) /\ Len(log) + 1 <= a + 1 /\ log2[Len(log) + 1].turn = last + 1
  BY <1>1, <1>2, <1>3
<1>6. PICK t : t = last + 1
  OBVIOUS
<1>7. t - 1 = last
  BY <1>2, <1>6
<1>8. HistBegan(log2, t, a)
  BY <1>3, <1>4, <1>5, <1>6, <1>7 DEF HistBegan
<1> QED
  BY <1>6, <1>8

LEMMA HistBeginsOn ==
    ASSUME NEW log, NEW log2, NEW last, NEW e, HistBeginsWith(log, log2, last, e), HistNoted(log),
           NEW b, NEW k, HistBased(log, b, k, last)
    PROVE  /\ HistNoted(log2) /\ HistBased(log2, b, k, last + 1) /\ LatestCheckpoint(log2) = LatestCheckpoint(log)
           /\ k < last + 1
<1>1. HistExtends(log, log2, last) /\ log2[Len(log) + 1] = e
  BY HistBeginsIs
<1>2. /\ log \in Seq(HistEvents) /\ log2 \in Seq(HistEvents) /\ last \in Nat
      /\ e.kind \in {"entry", "handoff", "started"} /\ \A n \in 1 .. Len(log) : log[n].turn \in 0 .. last
  BY DEF HistBeginsWith
<1>3. k \in Nat /\ k <= last
  BY <1>2, HistBasedIs
<1>4. HistExtends(log, log2, k) /\ HistExtends(log, log2, last - 1)
  <2>1. last - 1 \in Int /\ last - 1 <= last
    BY <1>2
  <2> QED
    BY <1>1, <1>2, <1>3, <2>1, HistExtendsLess
<1>5. HistNoted(log2)
  BY <1>1, <1>2, HistNotedStays
<1>6. HistMaySum(log, b, last, log2[Len(log) + 1])
  BY <1>1, <1>2 DEF HistMaySum
<1>7. last + 1 \in Nat /\ last <= last + 1 /\ k < last + 1
  BY <1>2, <1>3
<1>8. HistBased(log2, b, k, last + 1) /\ LatestCheckpoint(log2) = LatestCheckpoint(log)
  BY <1>1, <1>2, <1>4, <1>6, <1>7, HistBaseStays
<1> QED
  BY <1>5, <1>7, <1>8

LEMMA HistPastBegins ==
    ASSUME NEW log, NEW log2, NEW last, NEW e, HistBeginsWith(log, log2, last, e),
           NEW before, HistPast(log, before, last),
           NEW run, run.pc \in {"load", "loadReview", "shell"}, run.turn = last + 1,
           run.after = Len(log) \/ (run.after = Len(log) + 1 /\ e.kind = "handoff")
    PROVE  HistPast(log2, run, last + 1)
<1>1. PICK b, k : HistBased(log, b, k, last)
  BY DEF HistPast
<1>2. /\ HistNoted(log2) /\ HistBased(log2, b, k, last + 1) /\ LatestCheckpoint(log2) = LatestCheckpoint(log)
      /\ k < last + 1
  <2>1. HistNoted(log)
    BY DEF HistPast
  <2> QED
    BY <1>1, <2>1, HistBeginsOn
<1>3. HistBegan(log2, last + 1, run.after)
  BY HistBegunIs
<1>4. HistSilent(log2, last + 1)
  BY HistBeginsIs
<1>5. HistCall(log2, run, LatestCheckpoint(log2), b, k, last + 1)
  BY <1>2, <1>3, <1>4 DEF HistCall
<1> QED
  BY <1>2, <1>5 DEF HistPast

(* A compaction begins with the history it loads.                                 *)
LEMMA HistCompactBegins ==
    ASSUME NEW log, NEW log2, NEW last, NEW e, HistBeginsWith(log, log2, last, e), HistLogWell(log),
           NEW before, HistPast(log, before, last), e.kind = "started",
           NEW run, run.pc = "compact", run.turn = last + 1, run.template = LoadHistory(log, last + 1),
           PrefixCount(run.template.order, run.template.cont) < Len(run.template.order)
    PROVE  HistPast(log2, run, last + 1) /\ LoadHistory(log, last + 1) \in Hists
<1>1. PICK b, k : HistBased(log, b, k, last)
  BY DEF HistPast
<1>2. /\ HistNoted(log2) /\ HistBased(log2, b, k, last + 1) /\ LatestCheckpoint(log2) = LatestCheckpoint(log)
      /\ k < last + 1
  <2>1. HistNoted(log)
    BY DEF HistPast
  <2> QED
    BY <1>1, <2>1, HistBeginsOn
<1>3. /\ HistExtends(log, log2, last) /\ Len(log) \in Nat /\ log2[Len(log) + 1] = e
      /\ HistSilent(log2, last + 1) /\ Len(log2) = Len(log) + 1
  BY HistBeginsIs
<1>4. /\ log \in Seq(HistEvents) /\ log2 \in Seq(HistEvents) /\ last \in Nat
      /\ \A n \in 1 .. Len(log) : log[n].turn \in 0 .. last
  BY DEF HistBeginsWith
<1>5. PICK r, base : r = LoadHistory(log, last + 1) /\ base = LatestCheckpoint(log)
  OBVIOUS
<1>6. HistBuilt(log, b, base, k, base.through, last, r)
  <2>1. k \in Nat /\ k <= last
    BY <1>1, <1>4, HistBasedIs
  <2> QED
    BY <1>1, <1>4, <1>5, <2>1, HistLoadIs
<1>7. r \in Hists /\ HistKnows(log, b, r, last, Len(log)) /\ base.cont.frontier <= r.cont.frontier
  BY <1>6 DEF HistBuilt
<1>8. \A i \in 1 .. Len(r.order) :
         HistDone(log, b, r.order[i]) => r.order[i] > k \/ HistInOrder(base.order, r.order[i])
  BY <1>6 DEF HistBuilt
<1>9. HistCanReplay(log, b, r, last, Len(log))
  <2>1. HistParts(log, last, Len(log))
    BY <1>4 DEF HistParts
  <2>2. \A n \in 1 .. Len(log) : ~(n > Len(log))
    BY <1>3
  <2>3. HistSummaries(log, b, Len(log)) /\ HistGrows(log, r, last, Len(log))
    BY <2>2 DEF HistSummaries, HistGrows
  <2> QED
    BY <1>7, <2>1, <2>3 DEF HistCanReplay
<1>10. HistCanReplay(log2, b, r, last, Len(log))
  <2>1. HistMaySum(log, b, last, log2[Len(log) + 1]) /\ HistExtends(log, log2, last - 1)
    <3>1. last - 1 \in Int /\ last - 1 <= last
      BY <1>4
    <3> QED
      BY <1>3, <3>1, HistExtendsLess DEF HistMaySum
  <2>2. Len(log) \in Int /\ Len(log) <= Len(log)
    BY <1>3
  <2> QED
    BY <1>3, <1>4, <1>7, <1>9, <2>1, <2>2, HistReplayStays
<1>11. HistReady(log2, r, last + 1, Len(log), base, b, k)
  <2>1. HistBegan(log2, last + 1, Len(log))
    BY HistBegunIs
  <2>2. \A i \in 1 .. Len(r.order) : HistDone(log2, b, r.order[i]) => HistDone(log, b, r.order[i])
    <3>1. \A i \in 1 .. Len(r.order) : r.order[i] \in 1 .. last
      BY <1>7 DEF HistKnows, HistOrders
    <3>2. \A t \in 1 .. last : HistDone(log2, b, t) <=> HistDone(log, b, t)
      <4>1. \A t \in 1 .. last : t \in Int /\ t <= last
        OBVIOUS
      <4> QED
        BY <1>3, <4>1, HistEndsStay
    <3> QED
      BY <3>1, <3>2
  <2>3. PICK t : t = last + 1
    OBVIOUS
  <2>4. t - 1 = last
    BY <1>4, <2>3
  <2>5. HistReady(log2, r, t, Len(log), base, b, k)
    BY <1>7, <1>8, <1>10, <2>1, <2>2, <2>3, <2>4 DEF HistReady
  <2> QED
    BY <2>3, <2>5
<1>12. HistCall(log2, run, LatestCheckpoint(log2), b, k, last + 1)
  <2>1. Len(log) \in 0 .. Len(log2)
    BY <1>3
  <2>2. HistReady(log2, run.template, last + 1, Len(log), LatestCheckpoint(log2), b, k)
    BY <1>2, <1>5, <1>11
  <2> QED
    BY <1>2, <1>3, <2>1, <2>2 DEF HistCall
<1> QED
  BY <1>2, <1>5, <1>7, <1>12 DEF HistPast

------------------------------------------------------------------------------
(* A turn loads its template.                                                     *)
LEMMA HistKnowsLess ==
    ASSUME NEW log, NEW b, NEW h, NEW k \in Int, NEW c \in Int, NEW a \in Int, a <= c, HistKnows(log, b, h, k, c)
    PROVE  HistKnows(log, b, h, k, a)
<1>1. HistSummed(log, b, h, k, c)
  BY DEF HistKnows
<1>2. HistSumsUp(log, b, h.cont, k, 1 .. a)
  <2>1. HistSumsUp(log, b, h.cont, k, 1 .. c)
    BY <1>1 DEF HistSummed
  <2>2. \A t \in 1 .. k : HistLate(log, t) \cap (1 .. a) \subseteq 1 .. c
    OBVIOUS
  <2>3. k <= k
    OBVIOUS
  <2> QED
    BY <2>1, <2>2, <2>3, HistSumsUpLess
<1>3. HistSummed(log, b, h, k, a)
  BY <1>1, <1>2 DEF HistSummed
<1>4. \A t : HistRawTurn(log, b, h, t, c) => HistRawTurn(log, b, h, t, a)
  <2>1. \A t : \A n \in HistLate(log, t) : n <= a => n <= c
    <3>1. \A t : \A n \in HistLate(log, t) : n \in Int
      BY DEF HistLate
    <3> QED
      BY <3>1
  <2> QED
    BY <2>1 DEF HistRawTurn
<1> QED
  BY <1>3, <1>4 DEF HistKnows

LEMMA HistTemplateIs ==
    ASSUME NEW log, HistLogWell(log), NEW last \in Nat, \A n \in 1 .. Len(log) : log[n].turn \in 0 .. last,
           NEW b, NEW k, HistBased(log, b, k, last), k < last,
           NEW a, HistBegan(log, last, a), NEW base, base = LatestCheckpoint(log), NEW r, r = LoadHistory(log, last)
    PROVE  HistReady(log, r, last, a, base, b, k) /\ r \in Hists
<1>1. log \in Seq(HistEvents) /\ Len(log) \in Nat
  BY HistLogIs DEF HistLogWell
<1>2. /\ b \in Nat /\ k \in Nat /\ base.through \in Int /\ base.through <= Len(log) /\ k <= last - 1
      /\ last - 1 \in Nat /\ last = last - 1 + 1
  <2>1. b \in Nat /\ k \in Nat /\ base.through \in Int /\ base.through <= Len(log)
    BY <1>1, HistBasedIs
  <2> QED
    BY <2>1
<1>3. HistBuilt(log, b, base, k, base.through, last - 1, r)
  <2>1. \A n \in 1 .. Len(log) : log[n].turn \in 0 .. last - 1 \/ log[n].turn = last
    BY <1>2
  <2>2. PICK m : m = last - 1
    OBVIOUS
  <2>3. HistBuilt(log, b, base, k, base.through, m, r)
    BY <1>2, <2>1, <2>2, HistLoadIs
  <2> QED
    BY <2>2, <2>3
<1>4. a \in 0 .. Len(log) /\ HistParts(log, last - 1, a)
  BY DEF HistBegan
<1>5. a \in Int /\ a <= Len(log) /\ last - 1 \in Int
  BY <1>1, <1>2, <1>4
<1>6. r \in Hists /\ HistKnows(log, b, r, last - 1, Len(log)) /\ base.cont.frontier <= r.cont.frontier
  BY <1>3 DEF HistBuilt
<1>7. HistKnows(log, b, r, last - 1, a)
  BY <1>1, <1>5, <1>6, HistKnowsLess
<1>8. HistCanReplay(log, b, base, k, base.through)
  BY DEF HistBased
<1>9. ASSUME NEW n \in 1 .. Len(log), n > a, log[n].kind = "continuation" PROVE n > base.through
  <2>1. log[n].turn > last - 1
    <3>1. HistOwn(log[n])
      BY <1>9 DEF HistOwn
    <3>2. log[n].turn <= last - 1 => n <= a
      BY <1>4, <3>1 DEF HistParts
    <3> QED
      BY <1>2, <1>5, <1>9, <3>2
  <2>2. log[n].turn > k
    BY <1>2, <2>1
  <2>3. HistParts(log, k, base.through)
    BY <1>8 DEF HistCanReplay
  <2> QED
    BY <1>2, <1>9, <2>2, <2>3, HistIsNew
<1>10. HistSummaries(log, b, base.through)
  BY <1>8 DEF HistCanReplay
<1>11. HistSummaries(log, b, a)
  BY <1>9, <1>10 DEF HistSummaries
<1>12. HistGrows(log, r, last - 1, a)
  <2> SUFFICES ASSUME NEW n \in 1 .. Len(log), n > a, HistNewest(log, n)
               PROVE  HistReaches(r, last - 1, log[n].cont)
    BY DEF HistGrows
  <2>1. log[n].kind = "continuation"
    BY DEF HistNewest
  <2>2. n > base.through
    BY <1>9, <2>1
  <2>3. r.cont.frontier = log[n].cont.frontier
    BY <1>3, <2>2 DEF HistBuilt
  <2>4. log[n].cont.frontier \in 1 .. log[n].turn - 1
    <3>1. /\ HistSumsUp(log, b, log[n].cont, log[n].turn - 1, HistBefore(log, log[n].turn))
          /\ log[n].cont # NoSummary
      BY <1>10, <2>1, <2>2 DEF HistSummaries
    <3> QED
      BY <3>1 DEF HistSumsUp
  <2>5. r.cont # NoSummary /\ r.cont.frontier <= log[n].cont.frontier
    <3>1. NoSummary.frontier = 0
      BY DEF NoSummary
    <3>2. r.cont.frontier \in Nat /\ r.cont.frontier # 0
      BY <2>3, <2>4
    <3> QED
      BY <2>3, <3>1, <3>2
  <2>6. HistInOrder(r.order, r.cont.frontier)
    BY <1>6, <2>5 DEF HistKnows, HistSummed
  <2> QED
    BY <2>3, <2>5, <2>6 DEF HistReaches
<1>13. HistCanReplay(log, b, r, last - 1, a)
  BY <1>4, <1>7, <1>11, <1>12 DEF HistCanReplay
<1>14. \A i \in 1 .. Len(r.order) :
          HistDone(log, b, r.order[i]) => r.order[i] > k \/ HistInOrder(base.order, r.order[i])
  BY <1>3 DEF HistBuilt
<1> QED
  BY <1>6, <1>13, <1>14 DEF HistReady

HistLoads(log, last, run) ==
    /\ HistLogWell(log) /\ last \in Nat /\ \A n \in 1 .. Len(log) : log[n].turn \in 0 .. last
    /\ HistPast(log, run, last)
LEMMA HistPastLoads ==
    ASSUME NEW log, NEW last, NEW run, HistLoads(log, last, run), run.pc = "load",
           NEW run2, run2.pc = "loop", run2.turn = run.turn, run2.after = run.after,
           run2.template = LoadHistory(log, last), HistRecorded(log, last, run2.cont)
    PROVE  HistPast(log, run2, last) /\ LoadHistory(log, last) \in Hists
<1>1. HistLogWell(log) /\ last \in Nat /\ \A n \in 1 .. Len(log) : log[n].turn \in 0 .. last
  BY DEF HistLoads
<1>2. PICK b, k : HistBased(log, b, k, last) /\ HistCall(log, run, LatestCheckpoint(log), b, k, last)
  BY DEF HistLoads, HistPast
<1>3. run.turn = last /\ k < last /\ HistBegan(log, last, run.after)
  BY <1>2 DEF HistCall
<1>4. /\ HistReady(log, run2.template, last, run.after, LatestCheckpoint(log), b, k)
      /\ LoadHistory(log, last) \in Hists
  BY <1>1, <1>2, <1>3, HistTemplateIs
<1>5. HistCall(log, run2, LatestCheckpoint(log), b, k, last)
  BY <1>3, <1>4 DEF HistCall
<1>6. HistNoted(log)
  BY DEF HistLoads, HistPast
<1> QED
  BY <1>2, <1>4, <1>5, <1>6 DEF HistPast

(* A review loads none, and is saved on top of none.                              *)
LEMMA HistPastReviews ==
    ASSUME NEW log, NEW last, NEW run, HistPast(log, run, last), run.pc = "loadReview",
           NEW run2, run2.pc = "review", run2.turn = run.turn, run2.after = run.after, run2.template = ZeroTemplate
    PROVE  HistPast(log, run2, last)
<1>1. PICK b, k : HistBased(log, b, k, last) /\ HistCall(log, run, LatestCheckpoint(log), b, k, last)
  BY DEF HistPast
<1>2. HistCall(log, run2, LatestCheckpoint(log), b, k, last)
  BY <1>1 DEF HistCall
<1>3. HistNoted(log)
  BY DEF HistPast
<1> QED
  BY <1>1, <1>2, <1>3 DEF HistPast

(* A call that ends, waits, or forgets its template.                              *)
LEMMA HistPastLeaves ==
    ASSUME NEW log, NEW last, NEW run, HistPast(log, run, last),
           NEW run2, run2.pc = "idle" \/ (run2.pc \in {"blocked", "saveFresh"} /\ run.pc # "idle" /\ run2.turn = run.turn)
    PROVE  HistPast(log, run2, last)
<1>1. PICK b, k : HistBased(log, b, k, last) /\ HistCall(log, run, LatestCheckpoint(log), b, k, last)
  BY DEF HistPast
<1>2. HistCall(log, run2, LatestCheckpoint(log), b, k, last)
  BY <1>1 DEF HistCall
<1>3. HistNoted(log)
  BY DEF HistPast
<1> QED
  BY <1>1, <1>2, <1>3 DEF HistPast

LEMMA HistPastSaves ==
    ASSUME NEW log, NEW last, NEW run, HistPast(log, run, last), run.pc \in {"loop", "review"},
           run.pc = "review" => \E n \in 1 .. Len(log) : log[n].turn = last /\ log[n].kind = "rolled",
           NEW run2, run2.pc = "save", run2.turn = run.turn, run2.after = run.after, run2.template = run.template
    PROVE  HistPast(log, run2, last)
<1>1. PICK b, k : HistBased(log, b, k, last) /\ HistCall(log, run, LatestCheckpoint(log), b, k, last)
  BY DEF HistPast
<1>2. HistCall(log, run2, LatestCheckpoint(log), b, k, last)
  BY <1>1 DEF HistCall
<1>3. HistNoted(log)
  BY DEF HistPast
<1> QED
  BY <1>1, <1>2, <1>3 DEF HistPast

------------------------------------------------------------------------------
(* A turn that waited is taken up again, with what it recorded.                   *)
LEMMA HistGreatest ==
    ASSUME NEW m \in Nat, NEW S \in SUBSET (1 .. m), S # {}
    PROVE  \E n \in S : \A j \in S : j <= n
<1> DEFINE T == {x \in Nat : \E n \in S : x = m - n}
<1>1. \A n \in S : m - n \in T /\ n \in 1 .. m
  OBVIOUS
<1>2. T \in SUBSET Nat /\ T # {}
  BY <1>1
<1>3. PICK x \in T : \A y \in T : x <= y
  <2> HIDE DEF T
  <2> QED
    BY <1>2, LeastOf
<1>4. PICK n \in S : x = m - n
  OBVIOUS
<1>5. ASSUME NEW j \in S PROVE j <= n
  <2>1. x <= m - j
    BY <1>1, <1>3
  <2> QED
    BY <1>1, <1>4, <2>1
<1> QED
  BY <1>5

LEMMA HistResumesAt ==
    ASSUME NEW log, HistLogWell(log), NEW last \in Nat, last # 0, \A n \in 1 .. Len(log) : log[n].turn \in 0 .. last,
           NEW f \in 1 .. Len(log), log[f].turn = last, \A n \in 1 .. Len(log) : log[n].turn = last => f <= n
    PROVE  HistBegan(log, last, f - 1)
<1>1. Len(log) \in Nat /\ \A n \in 1 .. Len(log) : log[n].turn = 0 <=> log[n].kind = "checkpoint"
  BY HistLogIs
<1>2. HistOwn(log[f])
  <2>1. log[f].kind # "checkpoint"
    BY <1>1
  <2>2. ASSUME log[f].kind = "note" PROVE FALSE
    <3>1. PICK j \in 1 .. f : j # f /\ log[j].turn = log[f].turn
      BY <2>2 DEF HistLogWell, HistNoted
    <3>2. j \in 1 .. Len(log) /\ j < f
      BY <1>1, <3>1
    <3> QED
      BY <3>1, <3>2
  <2> QED
    BY <2>1, <2>2 DEF HistOwn
<1>3. HistParts(log, last - 1, f - 1)
  <2> SUFFICES ASSUME NEW n \in 1 .. Len(log), HistOwn(log[n])
               PROVE  IF log[n].turn <= last - 1 THEN n <= f - 1 ELSE n > f - 1 \/ (n = f - 1 /\ log[n].kind = "handoff")
    BY DEF HistParts
  <2>1. CASE log[n].turn <= last - 1
    <3>1. f < n => last <= log[n].turn
      BY DEF HistLogWell, HistOrdered
    <3>2. ~(last <= log[n].turn)
      BY <2>1
    <3>3. n # f
      BY <2>1
    <3> QED
      BY <1>1, <2>1, <3>1, <3>2, <3>3
  <2>2. CASE ~(log[n].turn <= last - 1)
    <3>1. log[n].turn = last
      BY <2>2
    <3> QED
      BY <1>1, <2>2, <3>1
  <2> QED
    BY <2>1, <2>2
<1>4. f - 1 \in 0 .. Len(log) /\ f <= f - 1 + 1
  BY <1>1
<1> QED
  BY <1>3, <1>4 DEF HistBegan

LEMMA HistPastResumes ==
    ASSUME NEW log, NEW last, NEW run, HistLoads(log, last, run), run.pc = "blocked",
           NEW f \in 1 .. Len(log), log[f].turn = last, \A n \in 1 .. Len(log) : log[n].turn = last => f <= n,
           NEW run2, run2.pc = "load", run2.turn = run.turn, run2.after = f - 1
    PROVE  HistPast(log, run2, last)
<1>1. HistLogWell(log) /\ last \in Nat /\ \A n \in 1 .. Len(log) : log[n].turn \in 0 .. last
  BY DEF HistLoads
<1>2. PICK b, k : HistBased(log, b, k, last) /\ HistCall(log, run, LatestCheckpoint(log), b, k, last)
  BY DEF HistLoads, HistPast
<1>3. run.turn = last /\ k < last /\ last # 0
  <2>1. run.turn = last /\ k < last
    BY <1>2 DEF HistCall
  <2>2. k \in Nat
    BY <1>1, <1>2, HistBasedIs DEF HistLogWell
  <2> QED
    BY <1>1, <2>1, <2>2
<1>4. HistBegan(log, last, run2.after)
  BY <1>1, <1>3, HistResumesAt
<1>5. HistCall(log, run2, LatestCheckpoint(log), b, k, last)
  BY <1>3, <1>4 DEF HistCall
<1>6. HistNoted(log)
  BY DEF HistLoads, HistPast
<1> QED
  BY <1>2, <1>5, <1>6 DEF HistPast

(* What the state functions of the specification read in the log.                 *)
LEMMA HistRecordedIs ==
    ASSUME histLog \in Seq(HistEvents), NEW t
    PROVE  HistRecorded(histLog, t, RecordedBy(t)) /\ RecordedBy(t) \in HistConts
<1> DEFINE all == EventsOf(t, {"continuation"})
           c == CHOOSE n \in all : \A k \in all : k <= n
<1>1. Len(histLog) \in Nat /\ DOMAIN histLog = 1 .. Len(histLog) /\ \A n \in 1 .. Len(histLog) : histLog[n] \in HistEvents
  BY LenProperties, ElementOfSeq
<1>2. \A n : n \in all <=> HistRecords(histLog, t, n)
  BY <1>1 DEF EventsOf, HistRecords
<1>3. RecordedBy(t) = IF all = {} THEN NoSummary ELSE histLog[c].cont
  BY DEF RecordedBy
<1>4. all \subseteq 1 .. Len(histLog)
  BY <1>2 DEF HistRecords
<1>5. all # {} => c \in all /\ \A k \in all : k <= c
  <2>1. all # {} => \E n \in all : \A k \in all : k <= n
    BY <1>1, <1>4, HistGreatest
  <2> QED
    BY <2>1
<1> HIDE DEF all, c
<1>6. CASE all = {}
  <2>1. HistSilent(histLog, t)
    BY <1>2, <1>6 DEF HistSilent
  <2>2. NoSummary \in HistConts
    BY DEF NoSummary, HistConts
  <2> QED
    BY <1>3, <1>6, <2>1, <2>2 DEF HistRecorded
<1>7. CASE all # {}
  <2>1. HistRecords(histLog, t, c) /\ \A m : HistRecords(histLog, t, m) => m <= c
    BY <1>2, <1>5, <1>7
  <2>2. histLog[c] \in HistEvents
    BY <1>1, <1>4, <1>5, <1>7
  <2>3. histLog[c].cont \in HistConts
    BY <2>2 DEF HistEvents
  <2> QED
    BY <1>3, <1>7, <2>1, <2>3 DEF HistRecorded
<1> QED
  BY <1>6, <1>7

LEMMA HistFirstIs ==
    ASSUME histLog \in Seq(HistEvents), NEW t, \E n \in 1 .. Len(histLog) : histLog[n].turn = t
    PROVE  /\ FirstEvent(t) \in 1 .. Len(histLog) /\ histLog[FirstEvent(t)].turn = t
           /\ \A n \in 1 .. Len(histLog) : histLog[n].turn = t => FirstEvent(t) <= n
<1> DEFINE all == {n \in DOMAIN histLog : histLog[n].turn = t}
<1>1. Len(histLog) \in Nat /\ DOMAIN histLog = 1 .. Len(histLog)
  BY LenProperties
<1>2. FirstEvent(t) = CHOOSE n \in all : \A k \in all : n <= k
  BY DEF FirstEvent
<1>3. \E n \in all : \A k \in all : n <= k
  <2>1. all \in SUBSET Nat /\ all # {}
    BY <1>1
  <2> HIDE DEF all
  <2> QED
    BY <2>1, LeastOf
<1>4. FirstEvent(t) \in all /\ \A k \in all : FirstEvent(t) <= k
  BY <1>2, <1>3
<1> QED
  BY <1>1, <1>4

------------------------------------------------------------------------------
(* A turn summarises what its template holds.                                     *)
HistSummarisable(log, last, h, a, base, b, k, eff, n) ==
    /\ HistLogWell(log) /\ last \in Nat /\ h \in Hists /\ base \in Hists /\ eff \in HistConts
    /\ HistReady(log, h, last, a, base, b, k)
    /\ HistSumsUp(log, b, eff, last - 1, HistBefore(log, last))
    /\ eff = NoSummary \/ HistInOrder(h.order, eff.frontier)
    /\ PrefixCount(h.order, h.cont) <= PrefixCount(h.order, eff)
    /\ n \in Nat /\ PrefixCount(h.order, eff) < n /\ n <= Len(h.order)

(* The places of the template's turns, of its summary and of the new one.         *)
HistPlaced(log, last, h, a, b, eff, n, q, p, f) ==
    /\ q \in 0 .. Len(h.order) /\ p \in 0 .. Len(h.order) /\ n \in 1 .. Len(h.order) /\ q <= p /\ p < n
    /\ Len(h.order) \in Nat /\ last \in Nat /\ a \in Nat
    /\ f \in 1 .. last - 1 /\ f \in Nat /\ f = h.order[n] /\ HistDone(log, b, f)
    /\ \A i \in 1 .. Len(h.order) : h.order[i] \in 1 .. last - 1
    /\ \A i, j \in 1 .. Len(h.order) :
          i < j /\ HistDone(log, b, h.order[i]) /\ HistDone(log, b, h.order[j]) => h.order[i] < h.order[j]
    /\ \A i \in q + 1 .. Len(h.order) : HistRawTurn(log, b, h, h.order[i], a)
    /\ p # 0 => eff # NoSummary /\ h.order[p] = eff.frontier
    /\ eff = NoSummary \/ (p # 0 /\ HistDone(log, b, eff.frontier))
    /\ h.cont = NoSummary \/ (q # 0 /\ h.order[q] = h.cont.frontier /\ HistDone(log, b, h.cont.frontier))
    /\ HistBefore(log, last) \subseteq 1 .. a
LEMMA HistPlacedIs ==
    ASSUME NEW log, NEW last, NEW h, NEW a, NEW base, NEW b, NEW k, NEW eff, NEW n,
           HistSummarisable(log, last, h, a, base, b, k, eff, n)
    PROVE  HistPlaced(log, last, h, a, b, eff, n, PrefixCount(h.order, h.cont), PrefixCount(h.order, eff), h.order[n])
<1>1. PICK q, p, f : q = PrefixCount(h.order, h.cont) /\ p = PrefixCount(h.order, eff) /\ f = h.order[n]
  OBVIOUS
<1>2. /\ HistLogWell(log) /\ last \in Nat /\ h \in Hists /\ base \in Hists /\ eff \in HistConts
      /\ HistReady(log, h, last, a, base, b, k) /\ HistSumsUp(log, b, eff, last - 1, HistBefore(log, last))
      /\ eff = NoSummary \/ HistInOrder(h.order, eff.frontier)
      /\ q <= p /\ n \in Nat /\ p < n /\ n <= Len(h.order)
  BY <1>1 DEF HistSummarisable
<1>3. h.order \in Seq(Nat) /\ h.cont \in HistConts
  BY <1>2, HistsAre
<1>4. /\ q \in 0 .. Len(h.order) /\ p \in 0 .. Len(h.order) /\ Len(h.order) \in Nat
      /\ (HistInOrder(h.order, h.cont.frontier) => q # 0 /\ h.order[q] = h.cont.frontier)
      /\ (IF HistInOrder(h.order, eff.frontier) THEN p # 0 /\ h.order[p] = eff.frontier ELSE p = 0)
  <2>1. /\ q \in 0 .. Len(h.order) /\ Len(h.order) \in Nat
        /\ IF HistInOrder(h.order, h.cont.frontier) THEN q \in 1 .. Len(h.order) /\ h.order[q] = h.cont.frontier ELSE q = 0
    BY <1>1, <1>3, HistPrefix
  <2>2. /\ p \in 0 .. Len(h.order)
        /\ IF HistInOrder(h.order, eff.frontier) THEN p \in 1 .. Len(h.order) /\ h.order[p] = eff.frontier ELSE p = 0
    BY <1>1, <1>2, <1>3, HistPrefix
  <2>3. \A x \in 1 .. Len(h.order) : x # 0
    BY <2>1
  <2> QED
    BY <2>1, <2>2, <2>3
<1>5. n \in 1 .. Len(h.order) /\ n \in q + 1 .. Len(h.order)
  BY <1>2, <1>4
<1>6. HistBegan(log, last, a) /\ HistKnows(log, b, h, last - 1, a)
  BY <1>2 DEF HistReady, HistCanReplay
<1>7. /\ \A i \in 1 .. Len(h.order) : h.order[i] \in 1 .. last - 1
      /\ \A i, j \in 1 .. Len(h.order) :
            i < j /\ HistDone(log, b, h.order[i]) /\ HistDone(log, b, h.order[j]) => h.order[i] < h.order[j]
  BY <1>6 DEF HistKnows, HistOrders
<1>8. \A i \in q + 1 .. Len(h.order) : HistRawTurn(log, b, h, h.order[i], a)
  BY <1>1, <1>6 DEF HistKnows
<1>9. f \in 1 .. last - 1 /\ f \in Nat /\ HistDone(log, b, f)
  <2>1. HistDone(log, b, f)
    BY <1>1, <1>5, <1>8 DEF HistRawTurn
  <2> QED
    BY <1>1, <1>5, <1>7, <2>1
<1>10. p # 0 => eff # NoSummary /\ h.order[p] = eff.frontier
  <2> SUFFICES ASSUME p # 0 PROVE eff # NoSummary /\ h.order[p] = eff.frontier
    OBVIOUS
  <2>1. h.order[p] = eff.frontier /\ p \in 1 .. Len(h.order)
    BY <1>4
  <2>2. eff.frontier # 0
    BY <1>7, <2>1
  <2> QED
    BY <2>1, <2>2 DEF NoSummary
<1>11. eff = NoSummary \/ (p # 0 /\ HistDone(log, b, eff.frontier))
  BY <1>2, <1>4 DEF HistSumsUp
<1>12. h.cont = NoSummary \/ (q # 0 /\ h.order[q] = h.cont.frontier /\ HistDone(log, b, h.cont.frontier))
  BY <1>4, <1>6 DEF HistKnows, HistSummed, HistSumsUp
<1>13. HistBefore(log, last) \subseteq 1 .. a /\ a \in Nat
  <2>1. Len(log) \in Nat
    BY <1>2, HistLogIs
  <2>2. PICK m \in 1 .. Len(log) : m <= a + 1 /\ log[m].turn = last
    BY <1>6 DEF HistBegan
  <2>3. a \in Nat
    BY <1>6, <2>1 DEF HistBegan
  <2>4. \A x \in HistBefore(log, last) : x \in 1 .. Len(log) /\ x < m
    BY <2>2 DEF HistBefore
  <2> QED
    BY <2>1, <2>2, <2>3, <2>4
<1>14. HistPlaced(log, last, h, a, b, eff, n, q, p, f)
  BY <1>1, <1>2, <1>4, <1>5, <1>7, <1>8, <1>9, <1>10, <1>11, <1>12, <1>13 DEF HistPlaced
<1> QED
  BY <1>1, <1>14

HistNewly(h, eff, n) == {h.order[i] : i \in PrefixCount(h.order, eff) + 1 .. n} \cap DOMAIN h.turns
HistTaken(h, eff, n) == UNION {ToSet(h.turns[t].entries) \cup ToSet(h.turns[t].notes) : t \in HistNewly(h, eff, n)}
LEMMA HistSummariseIs ==
    ASSUME NEW h, NEW eff, NEW n
    PROVE  /\ Summarise(h, eff, n).frontier = h.order[n] /\ Summarise(h, eff, n).count = n
           /\ Summarise(h, eff, n).covers = eff.covers \cup HistTaken(h, eff, n)
           /\ Summarise(h, eff, n) = [frontier |-> h.order[n], count |-> n, covers |-> eff.covers \cup HistTaken(h, eff, n)]
<1>1. Summarise(h, eff, n) = [frontier |-> h.order[n], count |-> n, covers |-> eff.covers \cup HistTaken(h, eff, n)]
  BY DEF Summarise, HistTaken, HistNewly
<1> QED
  BY <1>1

(* Each event taken is of one of the turns newly summarised.                      *)
LEMMA HistTakenIs ==
    ASSUME NEW log, NEW last, NEW h, NEW a, NEW base, NEW b, NEW k, NEW eff, NEW n,
           HistSummarisable(log, last, h, a, base, b, k, eff, n)
    PROVE  \A c \in HistTaken(h, eff, n) :
              /\ c \in 1 .. Len(log) /\ log[c].turn \in 1 .. last - 1
              /\ HistDone(log, b, log[c].turn) => log[c].turn <= h.order[n]
<1> SUFFICES ASSUME NEW c \in HistTaken(h, eff, n)
             PROVE  /\ c \in 1 .. Len(log) /\ log[c].turn \in 1 .. last - 1
                    /\ HistDone(log, b, log[c].turn) => log[c].turn <= h.order[n]
  OBVIOUS
<1>1. PICK q, p, f : /\ HistPlaced(log, last, h, a, b, eff, n, q, p, f) /\ p = PrefixCount(h.order, eff)
                     /\ f = h.order[n]
  BY HistPlacedIs
<1>2. PICK t \in HistNewly(h, eff, n) : c \in ToSet(h.turns[t].entries) \cup ToSet(h.turns[t].notes)
  BY DEF HistTaken
<1>3. PICK i \in p + 1 .. n : h.order[i] = t
  BY <1>1, <1>2 DEF HistNewly
<1>4. t \in DOMAIN h.turns
  BY <1>2 DEF HistNewly
<1>5. HistTurnsOf(log, b, h, last - 1)
  BY DEF HistSummarisable, HistReady, HistCanReplay, HistKnows
<1>6. c \in 1 .. Len(log) /\ log[c].turn = t /\ t \in 1 .. last - 1
  BY <1>2, <1>4, <1>5 DEF HistTurnsOf
<1>7. /\ p \in 0 .. Len(h.order) /\ n \in 1 .. Len(h.order) /\ Len(h.order) \in Nat
      /\ f \in Nat /\ HistDone(log, b, f)
      /\ \A x, y \in 1 .. Len(h.order) :
            x < y /\ HistDone(log, b, h.order[x]) /\ HistDone(log, b, h.order[y]) => h.order[x] < h.order[y]
  BY <1>1 DEF HistPlaced
<1>8. HistDone(log, b, t) => t <= f
  <2>1. CASE i = n
    BY <1>1, <1>3, <1>7, <2>1
  <2>2. CASE i < n
    <3>1. i \in 1 .. Len(h.order)
      BY <1>3, <1>7
    <3>2. HistDone(log, b, t) => t < f
      BY <1>1, <1>3, <1>7, <2>2, <3>1
    <3>3. t \in Nat
      BY <1>6
    <3> QED
      BY <1>7, <3>2, <3>3
  <2>3. i = n \/ i < n
    BY <1>3, <1>7
  <2> QED
    BY <2>1, <2>2, <2>3
<1> QED
  BY <1>1, <1>6, <1>8

LEMMA HistTakesAll ==
    ASSUME NEW log, NEW last, NEW h, NEW a, NEW base, NEW b, NEW k, NEW eff, NEW n,
           HistSummarisable(log, last, h, a, base, b, k, eff, n),
           NEW t \in 1 .. h.order[n], HistTold(log, b, t)
    PROVE  /\ HistSpeaks(log, t) \subseteq eff.covers \cup HistTaken(h, eff, n)
           /\ HistLate(log, t) \cap HistBefore(log, last) \subseteq eff.covers \cup HistTaken(h, eff, n)
<1>1. PICK q, p, f : /\ HistPlaced(log, last, h, a, b, eff, n, q, p, f) /\ p = PrefixCount(h.order, eff)
                     /\ f = h.order[n]
  BY HistPlacedIs
<1>2. /\ q \in 0 .. Len(h.order) /\ p \in 0 .. Len(h.order) /\ n \in 1 .. Len(h.order) /\ q <= p /\ p < n
      /\ Len(h.order) \in Nat /\ last \in Nat /\ a \in Nat /\ f \in 1 .. last - 1
      /\ HistDone(log, b, f)
      /\ \A x, y \in 1 .. Len(h.order) :
            x < y /\ HistDone(log, b, h.order[x]) /\ HistDone(log, b, h.order[y]) => h.order[x] < h.order[y]
  BY <1>1 DEF HistPlaced
<1>3. t \in 1 .. last - 1 /\ t \in Nat /\ t <= f
  BY <1>1, <1>2, SMTT(60)
<1>4. PICK i \in 1 .. Len(h.order) : h.order[i] = t
  <2>1. HistOrders(log, b, h, last - 1)
    BY DEF HistSummarisable, HistReady, HistCanReplay, HistKnows
  <2> QED
    BY <1>3, <2>1 DEF HistOrders, HistInOrder
<1>5. HistDone(log, b, t)
  BY DEF HistTold
<1>6. i <= n
  <2> SUFFICES ASSUME n < i PROVE FALSE
    BY <1>2
  <2>1. f < t
    BY <1>1, <1>2, <1>4, <1>5
  <2> QED
    BY <1>2, <1>3, <2>1
<1>7. CASE i <= p
  <2>1. p # 0 /\ p \in 1 .. Len(h.order)
    BY <1>2, <1>4, <1>7
  <2>2. eff # NoSummary /\ h.order[p] = eff.frontier /\ HistDone(log, b, eff.frontier)
    BY <1>1, <2>1 DEF HistPlaced
  <2>3. t <= eff.frontier
    <3>1. CASE i = p
      BY <1>3, <1>4, <2>2, <3>1
    <3>2. CASE i < p
      <4>1. t < eff.frontier
        BY <1>2, <1>4, <1>5, <2>1, <2>2, <3>2
      <4>2. eff.frontier \in Nat
        BY HistContsAre DEF HistSummarisable
      <4> QED
        BY <1>3, <4>1, <4>2
    <3> QED
      BY <1>2, <1>4, <1>7, <3>1, <3>2
  <2>4. HistSumsUp(log, b, eff, last - 1, HistBefore(log, last))
    BY DEF HistSummarisable
  <2>5. t \in 1 .. eff.frontier
    <3>1. eff.frontier \in Nat
      BY HistContsAre DEF HistSummarisable
    <3> QED
      BY <1>3, <2>3, <3>1
  <2> QED
    BY <2>2, <2>4, <2>5 DEF HistSumsUp
<1>8. CASE p < i
  <2>1. HistRawTurn(log, b, h, t, a)
    <3>1. i \in q + 1 .. Len(h.order)
      BY <1>2, <1>4, <1>8
    <3> QED
      BY <1>1, <1>4, <3>1 DEF HistPlaced
  <2>2. /\ t \in DOMAIN h.turns /\ Select(h.turns[t].entries, HistPlain(log)) = HistSaid(log, t, Len(log))
        /\ \A m \in HistLate(log, t) : m <= a => m \in ToSet(h.turns[t].notes)
    BY <2>1 DEF HistRawTurn
  <2>3. t \in HistNewly(h, eff, n)
    <3>1. i \in p + 1 .. n
      BY <1>2, <1>4, <1>6, <1>8
    <3> QED
      BY <1>1, <1>4, <2>2, <3>1 DEF HistNewly
  <2>4. ToSet(h.turns[t].entries) \cup ToSet(h.turns[t].notes) \subseteq HistTaken(h, eff, n)
    BY <2>3 DEF HistTaken
  <2>5. HistSpeaks(log, t) \subseteq ToSet(h.turns[t].entries)
    <3>1. Len(log) \in Nat
      BY HistLogIs DEF HistSummarisable
    <3>2. HistSpeaks(log, t) \subseteq ToSet(HistSaid(log, t, Len(log)))
      <4>1. ToSet(HistSaid(log, t, Len(log))) = HistSpeaks(log, t) \cap (1 .. Len(log))
        BY <3>1, HistSaidAre
      <4> QED
        BY <4>1 DEF HistSpeaks
    <3>3. PICK es : es = h.turns[t].entries
      OBVIOUS
    <3>4. es \in Seq(Nat)
      <4>1. h.turns \in HistMaps
        BY HistsAre DEF HistSummarisable
      <4>2. h.turns[t] \in HistTurnRecs
        BY <2>2, <4>1, HistMapsAre
      <4> QED
        BY <3>3, <4>2, HistTurnRecTyped
    <3>5. HistPicked(es, HistPlain(log), Select(es, HistPlain(log)))
      BY <3>4, HistPicks
    <3>6. PICK said : said = Select(es, HistPlain(log)) /\ said = HistSaid(log, t, Len(log))
      BY <2>2, <3>3
    <3>7. ToSet(said) \subseteq ToSet(es)
      <4>1. said \in Seq(Nat) /\ \A x \in 1 .. Len(said) : \E y \in 1 .. Len(es) : es[y] = said[x]
        BY <3>5, <3>6 DEF HistPicked
      <4>2. DOMAIN said = 1 .. Len(said) /\ DOMAIN es = 1 .. Len(es)
        BY <3>4, <4>1, LenProperties
      <4> QED
        BY <4>1, <4>2 DEF ToSet
    <3> QED
      BY <3>2, <3>3, <3>6, <3>7
  <2>6. HistLate(log, t) \cap HistBefore(log, last) \subseteq ToSet(h.turns[t].notes)
    <3>1. \A m \in HistBefore(log, last) : m <= a
      BY <1>1 DEF HistPlaced
    <3> QED
      BY <2>2, <3>1
  <2> QED
    BY <2>4, <2>5, <2>6
<1> QED
  BY <1>2, <1>4, <1>7, <1>8

(* The new summary sums up what came before the turn, and reaches further than    *)
(* those of the template and of the checkpoint.                                   *)
HistSummarised(log, last, h, base, b, k, cont) ==
    /\ cont \in HistConts /\ cont # NoSummary
    /\ HistSumsUp(log, b, cont, last - 1, HistBefore(log, last))
    /\ HistReaches(h, last - 1, cont) /\ HistReaches(base, k, cont)
    /\ HistInOrder(h.order, cont.frontier)
LEMMA HistSummarises ==
    ASSUME NEW log, NEW last, NEW h, NEW a, NEW base, NEW b, NEW k, NEW eff, NEW n,
           HistSummarisable(log, last, h, a, base, b, k, eff, n), k \in Nat
    PROVE  HistSummarised(log, last, h, base, b, k, Summarise(h, eff, n))
<1>1. PICK q, p, f : /\ HistPlaced(log, last, h, a, b, eff, n, q, p, f) /\ p = PrefixCount(h.order, eff)
                     /\ f = h.order[n]
  BY HistPlacedIs
<1>2. PICK cont : cont = Summarise(h, eff, n)
  OBVIOUS
<1>3. cont.frontier = f /\ cont.count = n /\ cont.covers = eff.covers \cup HistTaken(h, eff, n)
  BY <1>1, <1>2, HistSummariseIs
<1>4. /\ q \in 0 .. Len(h.order) /\ p \in 0 .. Len(h.order) /\ n \in 1 .. Len(h.order) /\ q <= p /\ p < n
      /\ Len(h.order) \in Nat /\ last \in Nat /\ a \in Nat /\ f \in 1 .. last - 1 /\ f \in Nat
      /\ HistDone(log, b, f)
      /\ \A x, y \in 1 .. Len(h.order) :
            x < y /\ HistDone(log, b, h.order[x]) /\ HistDone(log, b, h.order[y]) => h.order[x] < h.order[y]
      /\ p # 0 => eff # NoSummary /\ h.order[p] = eff.frontier
      /\ eff = NoSummary \/ (p # 0 /\ HistDone(log, b, eff.frontier))
      /\ h.cont = NoSummary \/ (q # 0 /\ h.order[q] = h.cont.frontier /\ HistDone(log, b, h.cont.frontier))
  BY <1>1 DEF HistPlaced
<1>5. /\ HistLogWell(log) /\ h \in Hists /\ base \in Hists /\ eff \in HistConts
      /\ HistReady(log, h, last, a, base, b, k) /\ HistSumsUp(log, b, eff, last - 1, HistBefore(log, last))
  BY DEF HistSummarisable
<1>6. Len(log) \in Nat
  BY <1>5, HistLogIs
<1>7. \A c \in HistTaken(h, eff, n) :
         /\ c \in 1 .. Len(log) /\ log[c].turn \in 1 .. last - 1
         /\ HistDone(log, b, log[c].turn) => log[c].turn <= f
  BY <1>1, HistTakenIs
<1>8. cont \in HistConts
  <2>1. eff.covers \cup HistTaken(h, eff, n) \in SUBSET Nat
    <3>1. eff.covers \in SUBSET Nat
      BY <1>5, HistContsAre
    <3> QED
      BY <1>6, <1>7, <3>1
  <2> QED
    BY <1>1, <1>2, <1>4, <2>1, HistSummariseIs, SMTT(60) DEF HistConts
<1>9. cont # NoSummary
  BY <1>3, <1>4 DEF NoSummary
<1>10. \A c \in eff.covers :
          /\ c \in 1 .. Len(log) /\ log[c].turn \in 1 .. last - 1
          /\ HistDone(log, b, log[c].turn) => log[c].turn <= f
  <2>1. CASE eff = NoSummary
    BY <2>1 DEF NoSummary
  <2>2. CASE eff # NoSummary
    <3>1. p \in 1 .. Len(h.order) /\ h.order[p] = eff.frontier /\ HistDone(log, b, eff.frontier)
      BY <1>4, <2>2
    <3>2. eff.frontier < f
      BY <1>1, <1>4, <3>1
    <3>3. eff.frontier \in Nat
      BY <1>5, HistContsAre
    <3>4. \A c \in eff.covers :
             /\ c \in 1 .. Len(log) /\ log[c].turn \in 1 .. last - 1
             /\ HistDone(log, b, log[c].turn) => log[c].turn <= eff.frontier
      BY <1>5, <2>2 DEF HistSumsUp
    <3>5. \A c \in eff.covers : log[c].turn <= eff.frontier => log[c].turn <= f
      <4>1. \A c \in eff.covers : log[c].turn \in Nat
        BY <3>4
      <4> QED
        BY <1>4, <3>2, <3>3, <4>1, SMTT(60)
    <3> QED
      BY <3>4, <3>5
  <2> QED
    BY <2>1, <2>2
<1>11. HistSumsUp(log, b, cont, last - 1, HistBefore(log, last))
  <2>1. \A c \in cont.covers :
           /\ c \in 1 .. Len(log) /\ log[c].turn \in 1 .. last - 1
           /\ HistDone(log, b, log[c].turn) => log[c].turn <= cont.frontier
    BY <1>3, <1>7, <1>10
  <2>2. \A t \in 1 .. cont.frontier : HistTold(log, b, t) =>
           HistSpeaks(log, t) \subseteq cont.covers /\ HistLate(log, t) \cap HistBefore(log, last) \subseteq cont.covers
    <3>1. \A t \in 1 .. h.order[n] : HistTold(log, b, t) =>
             HistSpeaks(log, t) \subseteq cont.covers /\ HistLate(log, t) \cap HistBefore(log, last) \subseteq cont.covers
      BY <1>3, HistTakesAll
    <3> QED
      BY <1>1, <1>3, <3>1
  <2>3. HistDone(log, b, cont.frontier) /\ cont.frontier \in 1 .. last - 1
    BY <1>3, <1>4
  <2> QED
    BY <2>1, <2>2, <2>3 DEF HistSumsUp
<1>12. h.cont.frontier <= f /\ h.cont.frontier \in Nat
  <2>1. h.cont.frontier \in Nat
    <3>1. h.cont \in HistConts
      BY <1>5, HistsAre
    <3> QED
      BY <3>1, HistContsAre
  <2>2. CASE h.cont = NoSummary
    BY <1>4, <2>1, <2>2 DEF NoSummary
  <2>3. CASE h.cont # NoSummary
    <3>1. q \in 1 .. Len(h.order) /\ h.order[q] = h.cont.frontier /\ HistDone(log, b, h.cont.frontier)
      BY <1>4, <2>3
    <3>2. q < n
      BY <1>4
    <3>3. h.cont.frontier < f
      BY <1>1, <1>4, <3>1, <3>2
    <3> QED
      BY <1>4, <2>1, <3>3
  <2> QED
    BY <2>2, <2>3
<1>13. HistInOrder(h.order, f)
  BY <1>1, <1>4 DEF HistInOrder
<1>14. base.cont.frontier <= f
  <2>1. base.cont.frontier <= h.cont.frontier
    BY <1>5 DEF HistReady
  <2>2. base.cont.frontier \in Nat
    <3>1. base.cont \in HistConts
      BY <1>5, HistsAre
    <3> QED
      BY <3>1, HistContsAre
  <2> QED
    BY <1>4, <1>12, <2>1, <2>2, SMTT(60)
<1>15. f > k \/ HistInOrder(base.order, f)
  BY <1>1, <1>4, <1>5 DEF HistReady
<1>16. HistSummarised(log, last, h, base, b, k, cont)
  BY <1>3, <1>8, <1>9, <1>11, <1>12, <1>13, <1>14, <1>15 DEF HistSummarised, HistReaches
<1> QED
  BY <1>2, <1>16

------------------------------------------------------------------------------
(* A turn records the summary it made.                                            *)
HistContinuation(t, cont) == [HistEvent("continuation", t) EXCEPT !.cont = cont]
HistCheckpoint(saved) == [HistEvent("checkpoint", 0) EXCEPT !.saved = saved]
LEMMA HistEventTyped ==
    ASSUME NEW kind \in HistKinds, NEW t \in Nat, NEW cont \in HistConts, NEW saved \in Hists
    PROVE  /\ HistEvent(kind, t) \in HistEvents /\ HistEvent(kind, t).kind = kind /\ HistEvent(kind, t).turn = t
           /\ HistContinuation(t, cont) \in HistEvents /\ HistContinuation(t, cont).kind = "continuation"
           /\ HistContinuation(t, cont).turn = t /\ HistContinuation(t, cont).cont = cont
           /\ HistCheckpoint(saved) \in HistEvents /\ HistCheckpoint(saved).kind = "checkpoint"
           /\ HistCheckpoint(saved).turn = 0 /\ HistCheckpoint(saved).saved = saved
<1>1. NoHistory \in Hists /\ NoSummary \in HistConts
  <2>1. LatestCheckpoint(<<>>) = NoHistory /\ LatestCheckpoint(<<>>) \in Hists
    <3>1. <<>> \in Seq(HistEvents) /\ Len(<<>>) = 0
      OBVIOUS
    <3>2. HistMarks(<<>>) = {}
      BY <3>1 DEF HistMarks
    <3> QED
      BY <3>1, <3>2, HistLatestIs
  <2> QED
    BY <2>1 DEF NoSummary, HistConts
<1>2. "continuation" \in HistKinds /\ "checkpoint" \in HistKinds /\ 0 \in Nat
  BY DEF HistKinds
<1>3. HistEvent(kind, t) = [kind |-> kind, turn |-> t, cont |-> NoSummary, saved |-> NoHistory]
  BY DEF HistEvent
<1>4. HistContinuation(t, cont) = [kind |-> "continuation", turn |-> t, cont |-> cont, saved |-> NoHistory]
  BY DEF HistEvent, HistContinuation
<1>5. HistCheckpoint(saved) = [kind |-> "checkpoint", turn |-> 0, cont |-> NoSummary, saved |-> saved]
  BY DEF HistEvent, HistCheckpoint
<1>6. HistEvent(kind, t) \in HistEvents
  BY <1>1, <1>3 DEF HistEvents
<1>7. HistContinuation(t, cont) \in HistEvents
  BY <1>1, <1>2, <1>4 DEF HistEvents
<1>8. HistCheckpoint(saved) \in HistEvents
  BY <1>1, <1>2, <1>5 DEF HistEvents
<1> QED
  BY <1>3, <1>4, <1>5, <1>6, <1>7, <1>8

LEMMA HistAppendIs ==
    ASSUME NEW log \in Seq(HistEvents), NEW e \in HistEvents, NEW log2, log2 = Append(log, e), NEW last \in Nat,
           e.turn = last \/ e.kind \in {"note", "checkpoint"}
    PROVE  /\ log2 \in Seq(HistEvents) /\ Len(log) \in Nat /\ Len(log2) = Len(log) + 1 /\ log2[Len(log) + 1] = e
           /\ \A n \in 1 .. Len(log) : log2[n] = log[n]
           /\ HistExtends(log, log2, last - 1)
<1>1. /\ log2 \in Seq(HistEvents) /\ Len(log) \in Nat /\ Len(log2) = Len(log) + 1 /\ log2[Len(log) + 1] = e
      /\ \A n \in 1 .. Len(log) : log2[n] = log[n]
  BY AppendProperties
<1>2. e.turn \in Nat
  BY DEF HistEvents
<1>3. HistExtends(log, log2, last - 1)
  <2>1. last - 1 \in Int /\ (e.turn <= last - 1 => e.kind \in {"note", "checkpoint"})
    BY <1>2
  <2> QED
    BY <1>1, <1>2, <2>1 DEF HistExtends
<1> QED
  BY <1>1, <1>3

(* The summary a step starts from.                                                *)
HistEffective(h, cont) == IF PrefixCount(h.order, cont) > PrefixCount(h.order, h.cont) THEN cont ELSE h.cont

LEMMA HistEffectiveIs ==
    ASSUME NEW log, HistLogWell(log), NEW last \in Nat, NEW h \in Hists, NEW base \in Hists, NEW cont \in HistConts,
           NEW a, NEW b, NEW k, HistReady(log, h, last, a, base, b, k), HistRecorded(log, last, cont),
           NEW eff, eff = HistEffective(h, cont) \/ eff = h.cont,
           NEW n \in Nat, PrefixCount(h.order, eff) < n, n <= Len(h.order)
    PROVE  HistSummarisable(log, last, h, a, base, b, k, eff, n)
<1>1. h.order \in Seq(Nat) /\ h.cont \in HistConts
  BY HistsAre
<1>2. HistBegan(log, last, a) /\ HistKnows(log, b, h, last - 1, a) /\ HistSummaries(log, b, a)
  BY DEF HistReady, HistCanReplay
<1>3. Len(log) \in Nat /\ a \in Nat
  <2>1. Len(log) \in Nat
    BY HistLogIs
  <2> QED
    BY <1>2, <2>1 DEF HistBegan
<1>4. CASE eff = h.cont
  <2>1. HistBefore(log, last) \subseteq 1 .. a
    <3>1. PICK m \in 1 .. Len(log) : m <= a + 1 /\ log[m].turn = last
      BY <1>2 DEF HistBegan
    <3>2. \A x \in HistBefore(log, last) : x \in 1 .. Len(log) /\ x < m
      BY <3>1 DEF HistBefore
    <3> QED
      BY <1>3, <3>1, <3>2
  <2>2. HistSumsUp(log, b, eff, last - 1, HistBefore(log, last))
    <3>1. HistSumsUp(log, b, eff, last - 1, 1 .. a)
      BY <1>2, <1>4 DEF HistKnows, HistSummed
    <3>2. last - 1 \in Int /\ last - 1 <= last - 1
      OBVIOUS
    <3>3. \A t \in 1 .. last - 1 : HistLate(log, t) \cap HistBefore(log, last) \subseteq 1 .. a
      BY <2>1
    <3> QED
      BY <3>1, <3>2, <3>3, HistSumsUpLess
  <2>3. eff = NoSummary \/ HistInOrder(h.order, eff.frontier)
    BY <1>2, <1>4 DEF HistKnows, HistSummed
  <2>4. PrefixCount(h.order, h.cont) <= PrefixCount(h.order, eff)
    <3>1. PrefixCount(h.order, h.cont) \in 0 .. Len(h.order) /\ Len(h.order) \in Nat
      BY <1>1, HistPrefix
    <3> QED
      BY <1>4, <3>1
  <2> QED
    BY <1>1, <1>4, <2>2, <2>3, <2>4 DEF HistSummarisable
<1>5. CASE eff # h.cont
  <2>1. eff = cont /\ PrefixCount(h.order, cont) > PrefixCount(h.order, h.cont)
    BY <1>5 DEF HistEffective
  <2>2. /\ PrefixCount(h.order, h.cont) \in Nat /\ PrefixCount(h.order, cont) \in Nat
        /\ (~HistInOrder(h.order, cont.frontier) => PrefixCount(h.order, cont) = 0)
    <3>1. PrefixCount(h.order, h.cont) \in 0 .. Len(h.order) /\ Len(h.order) \in Nat
      BY <1>1, HistPrefix
    <3>2. PrefixCount(h.order, cont) \in 0 .. Len(h.order)
          /\ (~HistInOrder(h.order, cont.frontier) => PrefixCount(h.order, cont) = 0)
      BY <1>1, HistPrefix
    <3> QED
      BY <3>1, <3>2
  <2>3. HistInOrder(h.order, eff.frontier)
    BY <2>1, <2>2
  <2>4. eff # NoSummary
    <3>1. \A i \in 1 .. Len(h.order) : h.order[i] \in 1 .. last - 1
      BY <1>2 DEF HistKnows, HistOrders
    <3>2. eff.frontier # 0
      BY <2>3, <3>1 DEF HistInOrder
    <3> QED
      BY <3>2 DEF NoSummary
  <2>5. PICK m : HistRecords(log, last, m) /\ eff = log[m].cont
    BY <2>1, <2>4 DEF HistRecorded
  <2>6. m \in 1 .. Len(log) /\ log[m].turn = last /\ log[m].kind = "continuation"
    BY <2>5 DEF HistRecords
  <2>7. m > a
    <3>1. HistParts(log, last - 1, a)
      BY <1>2 DEF HistBegan
    <3>2. HistOwn(log[m])
      BY <2>6 DEF HistOwn
    <3>3. ~(log[m].turn <= last - 1)
      BY <2>6
    <3> QED
      BY <2>6, <3>1, <3>2, <3>3 DEF HistParts
  <2>8. HistSumsUp(log, b, eff, last - 1, HistBefore(log, last))
    BY <1>2, <2>5, <2>6, <2>7 DEF HistSummaries
  <2>9. PrefixCount(h.order, h.cont) <= PrefixCount(h.order, eff)
    BY <2>1, <2>2
  <2> QED
    BY <2>1, <2>3, <2>8, <2>9 DEF HistSummarisable
<1> QED
  BY <1>4, <1>5

HistFollowed(log2, last, h, a, base, b, k, cont) ==
    /\ log2 \in Seq(HistEvents) /\ HistNoted(log2) /\ HistBased(log2, b, k, last) /\ LatestCheckpoint(log2) = base
    /\ HistReady(log2, h, last, a, base, b, k) /\ HistRecorded(log2, last, cont)
LEMMA HistSummaryFollows ==
    ASSUME NEW log, HistLogWell(log), NEW last \in Nat, \A n \in 1 .. Len(log) : log[n].turn \in 0 .. last,
           NEW h \in Hists, NEW a, NEW base, base = LatestCheckpoint(log),
           NEW b, NEW k, HistBased(log, b, k, last), k < last, HistReady(log, h, last, a, base, b, k),
           NEW cont, HistSummarised(log, last, h, base, b, k, cont),
           NEW log2, log2 = Append(log, HistContinuation(last, cont))
    PROVE  HistFollowed(log2, last, h, a, base, b, k, cont)
<1>1. log \in Seq(HistEvents) /\ HistNoted(log)
  BY DEF HistLogWell
<1>2. /\ cont \in HistConts /\ cont # NoSummary /\ HistSumsUp(log, b, cont, last - 1, HistBefore(log, last))
      /\ HistReaches(h, last - 1, cont) /\ HistReaches(base, k, cont)
  BY DEF HistSummarised
<1>3. PICK e : e = HistContinuation(last, cont)
  OBVIOUS
<1>4. e \in HistEvents /\ e.kind = "continuation" /\ e.turn = last /\ e.cont = cont
  <2>1. base \in Hists /\ "continuation" \in HistKinds
    BY <1>1, HistLatestIs DEF HistKinds
  <2> QED
    BY <1>2, <1>3, <2>1, HistEventTyped
<1>5. /\ log2 \in Seq(HistEvents) /\ Len(log) \in Nat /\ Len(log2) = Len(log) + 1 /\ log2[Len(log) + 1] = e
      /\ \A n \in 1 .. Len(log) : log2[n] = log[n]
      /\ HistExtends(log, log2, last - 1)
  <2>1. log2 = Append(log, e) /\ log \in Seq(HistEvents) /\ last \in Nat
    BY <1>1, <1>3
  <2>2. e \in HistEvents /\ (e.turn = last \/ e.kind \in {"note", "checkpoint"})
    BY <1>4
  <2> HIDE <1>3
  <2> QED
    BY <2>1, <2>2, HistAppendIs
<1>6. HistMaySum(log, b, last, log2[Len(log) + 1])
  <2>1. \E n \in 1 .. Len(log) : log[n].turn = last
    BY DEF HistReady, HistBegan
  <2> QED
    BY <1>2, <1>4, <1>5, <2>1 DEF HistMaySum
<1>7. HistExtends(log, log2, k)
  <2>1. k \in Nat
    BY <1>1, HistBasedIs
  <2>2. k \in Int /\ k <= last - 1
    BY <2>1
  <2> QED
    BY <1>5, <2>2, HistExtendsLess
<1>8. HistBased(log2, b, k, last) /\ LatestCheckpoint(log2) = base
  <2>1. last <= last /\ log2[Len(log) + 1].kind # "checkpoint"
    BY <1>4, <1>5
  <2>2. HistReaches(LatestCheckpoint(log), k, log2[Len(log) + 1].cont)
    BY <1>2, <1>4, <1>5
  <2> QED
    BY <1>1, <1>5, <1>6, <1>7, <2>1, <2>2, HistBaseStays
<1>9. HistReady(log2, h, last, a, base, b, k)
  <2>1. HistReaches(h, last - 1, log2[Len(log) + 1].cont)
    BY <1>2, <1>4, <1>5
  <2> QED
    BY <1>5, <1>6, <2>1, HistReadyStays
<1>10. HistRecorded(log2, last, cont)
  <2>1. HistRecords(log2, last, Len(log) + 1)
    BY <1>4, <1>5 DEF HistRecords
  <2>2. \A m : HistRecords(log2, last, m) => m <= Len(log) + 1
    BY <1>5 DEF HistRecords
  <2>3. cont = log2[Len(log) + 1].cont
    BY <1>4, <1>5
  <2>4. PICK x : x = Len(log) + 1
    OBVIOUS
  <2> QED
    BY <2>1, <2>2, <2>3, <2>4 DEF HistRecorded
<1>11. HistNoted(log2)
  BY <1>1, <1>4, <1>5, HistNotedStays
<1> QED
  BY <1>5, <1>8, <1>9, <1>10, <1>11 DEF HistFollowed

LEMMA HistPastSummarises ==
    ASSUME NEW log, NEW last, NEW run, HistLoads(log, last, run), run.pc = "loop",
           run.template \in Hists, run.cont \in HistConts,
           NEW eff, eff = HistEffective(run.template, run.cont),
           NEW n \in Nat, PrefixCount(run.template.order, eff) < n, n <= Len(run.template.order),
           NEW cont, cont = Summarise(run.template, eff, n),
           NEW log2, log2 = Append(log, HistContinuation(last, cont)),
           NEW run2, run2.pc = "loop", run2.turn = run.turn, run2.after = run.after,
           run2.template = run.template, run2.cont = cont
    PROVE  HistPast(log2, run2, last) /\ log2 \in Seq(HistEvents) /\ cont \in HistConts
<1>1. HistLogWell(log) /\ last \in Nat /\ \A m \in 1 .. Len(log) : log[m].turn \in 0 .. last
  BY DEF HistLoads
<1>2. PICK b, k, base : /\ HistBased(log, b, k, last) /\ HistCall(log, run, base, b, k, last)
                        /\ base = LatestCheckpoint(log)
  BY DEF HistLoads, HistPast
<1>3. PICK h, a : h = run.template /\ a = run.after
  OBVIOUS
<1>4. /\ run.turn = last /\ k < last /\ HistBegan(log, last, a)
      /\ HistReady(log, h, last, a, base, b, k) /\ HistRecorded(log, last, run.cont)
  BY <1>2, <1>3 DEF HistCall
<1>5. k \in Nat /\ base \in Hists
  BY <1>1, <1>2, HistBasedIs DEF HistLogWell
<1>6. HistSummarisable(log, last, h, a, base, b, k, eff, n)
  BY <1>1, <1>3, <1>4, <1>5, HistEffectiveIs
<1>7. HistSummarised(log, last, h, base, b, k, cont)
  BY <1>3, <1>5, <1>6, HistSummarises
<1>8. HistFollowed(log2, last, h, a, base, b, k, cont)
  BY <1>1, <1>2, <1>3, <1>4, <1>7, HistSummaryFollows
<1>9. HistExtends(log, log2, last - 1)
  <2>1. PICK e : e = HistContinuation(last, cont)
    OBVIOUS
  <2>2. e \in HistEvents /\ e.turn = last
    <3>1. "continuation" \in HistKinds /\ cont \in HistConts
      BY <1>7 DEF HistKinds, HistSummarised
    <3> QED
      BY <1>1, <1>5, <2>1, <3>1, HistEventTyped
  <2> QED
    BY <1>1, <2>1, <2>2, HistAppendIs DEF HistLogWell
<1>10. HistBegan(log2, last, a)
  BY <1>4, <1>9, HistBeganStays
<1>11. HistCall(log2, run2, base, b, k, last)
  BY <1>3, <1>4, <1>8, <1>10, SMTT(60) DEF HistCall, HistFollowed
<1> QED
  BY <1>7, <1>8, <1>11 DEF HistPast, HistFollowed, HistSummarised

(* The compaction records its summary; what follows does not need its template.   *)
LEMMA HistPastCompacts ==
    ASSUME NEW log, NEW last, NEW run, HistLoads(log, last, run), run.pc = "compact", run.template \in Hists,
           NEW cont, cont = Summarise(run.template, run.template.cont, Len(run.template.order)),
           NEW log2, log2 = Append(log, HistContinuation(last, cont)),
           NEW run2, run2.pc = "saveFresh", run2.turn = run.turn
    PROVE  HistPast(log2, run2, last) /\ log2 \in Seq(HistEvents) /\ cont \in HistConts
<1>1. HistLogWell(log) /\ last \in Nat /\ \A m \in 1 .. Len(log) : log[m].turn \in 0 .. last
  BY DEF HistLoads
<1>2. PICK b, k, base : /\ HistBased(log, b, k, last) /\ HistCall(log, run, base, b, k, last)
                        /\ base = LatestCheckpoint(log)
  BY DEF HistLoads, HistPast
<1>3. PICK h : h = run.template
  OBVIOUS
<1>4. /\ run.turn = last /\ k < last /\ HistSilent(log, last)
      /\ \E a : HistReady(log, h, last, a, base, b, k)
      /\ PrefixCount(h.order, h.cont) < Len(h.order)
  BY <1>2, <1>3 DEF HistCall
<1>5. PICK a : HistReady(log, h, last, a, base, b, k)
  BY <1>4
<1>6. k \in Nat /\ base \in Hists /\ h \in Hists
  BY <1>1, <1>2, <1>3, HistBasedIs DEF HistLogWell
<1>7. PICK n, eff : n = Len(h.order) /\ eff = h.cont
  OBVIOUS
<1>8. HistSummarisable(log, last, h, a, base, b, k, eff, n)
  <2>1. NoSummary \in HistConts /\ HistRecorded(log, last, NoSummary)
    BY <1>4 DEF HistRecorded, NoSummary, HistConts
  <2>2. n \in Nat /\ n <= Len(h.order) /\ PrefixCount(h.order, eff) < n
    <3>1. h.order \in Seq(Nat)
      BY <1>6, HistsAre
    <3>2. Len(h.order) \in Nat
      BY <3>1, LenProperties
    <3> QED
      BY <1>4, <1>7, <3>2
  <2> QED
    BY <1>1, <1>5, <1>6, <1>7, <2>1, <2>2, HistEffectiveIs
<1>9. cont = Summarise(h, eff, n)
  BY <1>3, <1>7
<1>10. HistSummarised(log, last, h, base, b, k, cont)
  BY <1>6, <1>8, <1>9, HistSummarises
<1>11. HistFollowed(log2, last, h, a, base, b, k, cont)
  BY <1>1, <1>2, <1>4, <1>5, <1>6, <1>10, HistSummaryFollows
<1>12. HistCall(log2, run2, base, b, k, last)
  BY <1>4 DEF HistCall
<1> QED
  BY <1>10, <1>11, <1>12 DEF HistPast, HistFollowed, HistSummarised

------------------------------------------------------------------------------
(* A history is saved.                                                            *)
HistEndedOf(m, D) == [t \in D |-> [m[t] EXCEPT !.terminal = TRUE]]
LEMMA HistEndedOfIs ==
    ASSUME NEW m \in HistMaps, NEW D, D \subseteq DOMAIN m
    PROVE  /\ HistEndedOf(m, D) \in HistMaps /\ DOMAIN HistEndedOf(m, D) = D
           /\ \A t \in D : /\ HistEndedOf(m, D)[t].entries = m[t].entries /\ HistEndedOf(m, D)[t].notes = m[t].notes
                           /\ HistEndedOf(m, D)[t].at = m[t].at /\ HistEndedOf(m, D)[t].terminal
<1>1. DOMAIN m \subseteq Nat /\ \A t \in DOMAIN m : m[t] \in HistTurnRecs
  BY HistMapsAre
<1>2. DOMAIN HistEndedOf(m, D) = D /\ HistEndedOf(m, D) = [t \in D |-> HistEndedOf(m, D)[t]]
  BY DEF HistEndedOf
<1>3. ASSUME NEW t \in D
      PROVE  /\ HistEndedOf(m, D)[t] \in HistTurnRecs
             /\ HistEndedOf(m, D)[t].entries = m[t].entries /\ HistEndedOf(m, D)[t].notes = m[t].notes
             /\ HistEndedOf(m, D)[t].at = m[t].at /\ HistEndedOf(m, D)[t].terminal
  <2>1. PICK q : q = m[t]
    OBVIOUS
  <2>2. q \in HistTurnRecs
    BY <1>1, <1>3, <2>1
  <2>3. HistEndedOf(m, D)[t] = [q EXCEPT !.terminal = TRUE]
    BY <1>3, <2>1 DEF HistEndedOf
  <2>4. PICK r : r = [q EXCEPT !.terminal = TRUE]
    OBVIOUS
  <2>5. r \in HistTurnRecs /\ r.entries = q.entries /\ r.notes = q.notes /\ r.at = q.at /\ r.terminal
    BY <2>2, <2>4 DEF HistTurnRecs
  <2> QED
    BY <2>1, <2>3, <2>4, <2>5
<1>4. HistEndedOf(m, D) \in HistMaps
  <2>1. PICK w : w = HistEndedOf(m, D)
    OBVIOUS
  <2>2. w = [t \in DOMAIN w |-> w[t]] /\ DOMAIN w \subseteq Nat /\ \A t \in DOMAIN w : w[t] \in HistTurnRecs
    BY <1>1, <1>2, <1>3, <2>1
  <2>3. w \in HistMaps
    BY <2>2, HistMapsAre
  <2> QED
    BY <2>1, <2>3
<1> QED
  BY <1>2, <1>3, <1>4

HistSavedSays(r, c) ==
    /\ c \in Hists /\ c.order = r.order /\ c.cont = r.cont /\ c.through = r.through
    /\ DOMAIN c.turns = RawTurns(r.order, r.cont) \cap DOMAIN r.turns
    /\ \A t \in DOMAIN c.turns : /\ c.turns[t].entries = r.turns[t].entries /\ c.turns[t].notes = r.turns[t].notes
                                 /\ c.turns[t].at = r.turns[t].at /\ c.turns[t].terminal
LEMMA HistSavedSaysIs ==
    ASSUME NEW r \in Hists
    PROVE  HistSavedSays(r, CheckpointOf(r))
<1>1. PICK o, m, c, x : o = r.order /\ m = r.turns /\ c = r.cont /\ x = r.through
  OBVIOUS
<1>2. r = HistOf(o, m, c, x) /\ o \in Seq(Nat) /\ m \in HistMaps /\ c \in HistConts /\ x \in Int
  BY <1>1, HistsAre
<1>3. PICK D : D = RawTurns(o, c) \cap DOMAIN m
  OBVIOUS
<1>4. PICK w : w = HistEndedOf(m, D)
  OBVIOUS
<1>5. /\ w \in HistMaps /\ DOMAIN w = D
      /\ \A t \in D : /\ w[t].entries = m[t].entries /\ w[t].notes = m[t].notes
                      /\ w[t].at = m[t].at /\ w[t].terminal
  BY <1>2, <1>3, <1>4, HistEndedOfIs
<1>6. CheckpointOf(r) = [r EXCEPT !.turns = w]
  BY <1>1, <1>3, <1>4 DEF CheckpointOf, HistEndedOf
<1>7. CheckpointOf(r) = HistOf(o, w, c, x)
  <2>1. [HistOf(o, m, c, x) EXCEPT !.turns = w] = HistOf(o, w, c, x)
    BY HistOfIs
  <2> QED
    BY <1>2, <1>6, <2>1
<1>8. PICK s : s = CheckpointOf(r)
  OBVIOUS
<1>9. s \in Hists /\ s.order = o /\ s.turns = w /\ s.cont = c /\ s.through = x
  <2>1. s = HistOf(o, w, c, x)
    BY <1>7, <1>8
  <2>2. s \in Hists
    BY <1>2, <1>5, <2>1, HistsAre
  <2>3. s.order = o /\ s.turns = w /\ s.cont = c /\ s.through = x
    BY <2>1, HistOfIs
  <2> QED
    BY <2>2, <2>3
<1>10. HistSavedSays(r, s)
  BY <1>1, <1>3, <1>5, <1>9 DEF HistSavedSays
<1> QED
  BY <1>8, <1>10

LEMMA HistSavedKnows ==
    ASSUME NEW log, NEW b, NEW r \in Hists, NEW k \in Int, NEW a \in Int, HistKnows(log, b, r, k, a),
           NEW c, HistSavedSays(r, c)
    PROVE  HistKnows(log, b, c, k, a)
<1>1. /\ c \in Hists /\ c.order = r.order /\ c.cont = r.cont /\ c.through = r.through
      /\ DOMAIN c.turns = RawTurns(r.order, r.cont) \cap DOMAIN r.turns
      /\ \A t \in DOMAIN c.turns : /\ c.turns[t].entries = r.turns[t].entries /\ c.turns[t].notes = r.turns[t].notes
                                   /\ c.turns[t].at = r.turns[t].at /\ c.turns[t].terminal
  BY DEF HistSavedSays
<1>2. HistOrders(log, b, c, k)
  BY <1>1, ZenonT(60) DEF HistKnows, HistOrders
<1>3. HistSummed(log, b, c, k, a)
  BY <1>1 DEF HistKnows, HistSummed
<1>4. ASSUME NEW i \in PrefixCount(c.order, c.cont) + 1 .. Len(c.order)
      PROVE  HistRawTurn(log, b, c, c.order[i], a)
  <2>1. PICK t : t = r.order[i]
    OBVIOUS
  <2>2. HistRawTurn(log, b, r, t, a)
    BY <1>1, <1>4, <2>1 DEF HistKnows
  <2>3. t \in RawTurns(r.order, r.cont)
    BY <1>1, <1>4, <2>1 DEF RawTurns
  <2>4. t \in DOMAIN c.turns
    BY <1>1, <2>2, <2>3 DEF HistRawTurn
  <2>5. HistRawTurn(log, b, c, t, a)
    BY <1>1, <2>2, <2>4 DEF HistRawTurn
  <2> QED
    BY <1>1, <2>1, <2>5
<1>5. HistTurnsOf(log, b, c, k)
  <2>1. HistTurnsOf(log, b, r, k)
    BY DEF HistKnows
  <2>2. \A t \in DOMAIN c.turns : t \in DOMAIN r.turns
    BY <1>1
  <2> QED
    BY <1>1, <2>1, <2>2 DEF HistTurnsOf
<1>6. c.through <= Len(log)
  BY <1>1 DEF HistKnows
<1> QED
  BY <1>2, <1>3, <1>4, <1>5, <1>6 DEF HistKnows

LEMMA HistSavedIs ==
    ASSUME NEW log, HistLogWell(log), NEW last \in Nat, \A n \in 1 .. Len(log) : log[n].turn \in 0 .. last,
           NEW b, NEW base, NEW k, NEW a \in Int, NEW r, HistBuilt(log, b, base, k, a, last, r), a <= r.through,
           NEW c, c = CheckpointOf(r)
    PROVE  HistCanReplay(log, b, c, last, c.through) /\ c \in Hists
<1>1. Len(log) \in Nat
  BY HistLogIs
<1>2. /\ r \in Hists /\ HistKnows(log, b, r, last, Len(log))
      /\ \A j \in 1 .. Len(log) : j > a /\ log[j].kind # "checkpoint" => j <= r.through
  BY DEF HistBuilt
<1>3. HistSavedSays(r, c)
  BY <1>2, HistSavedSaysIs
<1>4. c \in Hists /\ c.through = r.through
  BY <1>3 DEF HistSavedSays
<1>5. r.through \in Int /\ r.through <= Len(log)
  <2>1. r.through \in Int
    BY <1>2, HistsAre
  <2> QED
    BY <1>2, <2>1 DEF HistKnows
<1>6. HistKnows(log, b, r, last, r.through)
  BY <1>1, <1>2, <1>5, HistKnowsLess
<1>7. HistKnows(log, b, c, last, r.through)
  BY <1>2, <1>3, <1>5, <1>6, HistSavedKnows
<1>8. \A n \in 1 .. Len(log) : log[n].kind # "checkpoint" => n <= r.through
  <2>1. \A n \in 1 .. Len(log) : n > a \/ n <= r.through
    BY <1>5
  <2> QED
    BY <1>2, <2>1
<1>9. HistParts(log, last, r.through)
  <2>1. \A n \in 1 .. Len(log) : log[n].turn <= last
    BY <1>1
  <2>2. \A n \in 1 .. Len(log) : HistOwn(log[n]) => log[n].kind # "checkpoint"
    BY DEF HistOwn
  <2> QED
    BY <1>8, <2>1, <2>2 DEF HistParts
<1>10. \A n \in 1 .. Len(log) : log[n].kind = "continuation" => ~(n > r.through)
  <2>1. \A n \in 1 .. Len(log) : log[n].kind = "continuation" => n <= r.through
    BY <1>8
  <2> QED
    BY <1>5, <2>1
<1>11. HistSummaries(log, b, r.through)
  BY <1>10 DEF HistSummaries
<1>12. HistGrows(log, c, last, r.through)
  BY <1>10 DEF HistGrows, HistNewest
<1> QED
  BY <1>4, <1>7, <1>9, <1>11, <1>12 DEF HistCanReplay

LEMMA HistSavedFollows ==
    ASSUME NEW log, HistLogWell(log), NEW last \in Nat, \A n \in 1 .. Len(log) : log[n].turn \in 0 .. last,
           NEW b \in 1 .. last + 1, HistForgot(log, b),
           NEW c \in Hists, HistCanReplay(log, b, c, last, c.through),
           NEW log2, log2 = Append(log, HistCheckpoint(c)), NEW run2, run2.pc = "idle"
    PROVE  HistPast(log2, run2, last) /\ log2 \in Seq(HistEvents)
<1>1. log \in Seq(HistEvents) /\ HistNoted(log)
  BY DEF HistLogWell
<1>2. PICK e : e = HistCheckpoint(c)
  OBVIOUS
<1>3. e \in HistEvents /\ e.kind = "checkpoint" /\ e.turn = 0 /\ e.saved = c
  <2>1. "checkpoint" \in HistKinds /\ NoSummary \in HistConts /\ 0 \in Nat
    BY DEF HistKinds, NoSummary, HistConts
  <2> QED
    BY <1>2, <2>1, HistEventTyped
<1>4. /\ log2 \in Seq(HistEvents) /\ Len(log) \in Nat /\ Len(log2) = Len(log) + 1 /\ log2[Len(log) + 1] = e
      /\ \A n \in 1 .. Len(log) : log2[n] = log[n]
      /\ HistExtends(log, log2, last - 1)
  <2>1. log2 = Append(log, e) /\ (e.turn = last \/ e.kind \in {"note", "checkpoint"})
    BY <1>2, <1>3
  <2> HIDE <1>2
  <2> QED
    BY <1>1, <1>3, <2>1, HistAppendIs
<1>5. HistExtends(log, log2, last)
  BY <1>3, <1>4 DEF HistExtends
<1>6. c.through \in Int /\ c.through <= Len(log)
  <2>1. c.through \in Int
    BY HistsAre
  <2>2. c.through <= Len(log)
    BY DEF HistCanReplay, HistKnows
  <2> QED
    BY <2>1, <2>2
<1>7. HistMaySum(log, b, last, log2[Len(log) + 1]) /\ log2[Len(log) + 1].kind # "continuation"
  BY <1>3, <1>4 DEF HistMaySum
<1>8. HistCanReplay(log2, b, c, last, c.through)
  BY <1>4, <1>5, <1>6, <1>7, HistReplayStays
<1>9. LatestCheckpoint(log2) = c
  BY <1>1, <1>3, <1>4, HistLatestStays, ZenonT(60)
<1>10. HistForgot(log2, b)
  BY <1>4, HistForgotStays
<1>11. HistBased(log2, b, last, last)
  <2>1. last \in 0 .. last /\ b <= last + 1
    OBVIOUS
  <2> QED
    BY <1>8, <1>9, <1>10, <2>1 DEF HistBased
<1>12. HistNoted(log2)
  <2>1. log2[Len(log) + 1].kind # "note"
    BY <1>3, <1>4
  <2> QED
    BY <1>1, <1>4, <2>1, HistNotedStays
<1>13. HistCall(log2, run2, LatestCheckpoint(log2), b, last, last)
  BY DEF HistCall
<1> QED
  BY <1>4, <1>11, <1>12, <1>13 DEF HistPast

(* A turn that ended ended after the place where it began.                        *)
LEMMA HistEndsAfter ==
    ASSUME NEW log, HistLogWell(log), NEW last \in Nat, last # 0, NEW a, HistBegan(log, last, a),
           NEW n \in 1 .. Len(log), log[n].turn = last, log[n].kind \notin {"handoff", "note", "checkpoint"}
    PROVE  n > a /\ a \in Nat
<1>1. Len(log) \in Nat
  BY HistLogIs
<1>2. a \in Nat /\ HistParts(log, last - 1, a)
  BY <1>1 DEF HistBegan
<1>3. HistOwn(log[n]) /\ ~(log[n].turn <= last - 1)
  BY DEF HistOwn
<1> QED
  BY <1>2, <1>3 DEF HistParts

(* A review that is rolled over is saved on top of nothing.                       *)
LEMMA HistZeroIs ==
    ASSUME NEW log, HistLogWell(log), NEW last \in Nat, last # 0, NEW a, HistBegan(log, last, a), HistSilent(log, last),
           \A n \in 1 .. Len(log) : log[n].turn \in 0 .. last
    PROVE  HistOver(log, last, ZeroTemplate, last - 1, a, last, 0)
<1>1. Len(log) \in Nat
  BY HistLogIs
<1>2. a \in Nat /\ HistParts(log, last - 1, a)
  BY <1>1 DEF HistBegan
<1>3. PICK z : z = ZeroTemplate
  OBVIOUS
<1>4. z.order = <<>> /\ z.turns = <<>> /\ z.cont = NoSummary /\ z.through = 0
  BY <1>3 DEF ZeroTemplate, NoHistory
<1>5. z \in Hists
  <2>1. NoSummary \in HistConts
    BY DEF NoSummary, HistConts
  <2>2. <<>> \in HistMaps
    <3>1. DOMAIN <<>> = {} /\ <<>> = [u \in {} |-> <<>>[u]]
      OBVIOUS
    <3> QED
      BY <3>1, HistMapsAre
  <2>3. z = HistOf(<<>>, <<>>, NoSummary, 0)
    BY <1>3 DEF ZeroTemplate, NoHistory, HistOf
  <2>4. <<>> \in Seq(Nat) /\ 0 \in Int
    OBVIOUS
  <2> QED
    BY <2>1, <2>2, <2>3, <2>4, HistsAre
<1>6. HistKnows(log, last, z, last - 1, a)
  <2>1. Len(z.order) = 0 /\ z.order \in Seq(Nat) /\ z.cont \in HistConts
    BY <1>4, <1>5, HistsAre
  <2>2. PrefixCount(z.order, z.cont) \in 0 .. Len(z.order)
    BY <2>1, HistPrefix
  <2>3. \A t \in 1 .. last - 1 : ~HistTold(log, last, t)
    BY DEF HistTold, HistDone
  <2>4. HistOrders(log, last, z, last - 1)
    BY <2>1, <2>3 DEF HistOrders
  <2>5. HistSummed(log, last, z, last - 1, a)
    BY <1>4 DEF HistSummed, HistSumsUp
  <2>6. \A i \in PrefixCount(z.order, z.cont) + 1 .. Len(z.order) : FALSE
    BY <2>1, <2>2
  <2>7. HistTurnsOf(log, last, z, last - 1)
    <3>1. DOMAIN z.turns = {}
      BY <1>4
    <3> QED
      BY <3>1 DEF HistTurnsOf
  <2>8. z.through <= Len(log)
    BY <1>1, <1>4
  <2> QED
    BY <2>4, <2>5, <2>6, <2>7, <2>8 DEF HistKnows
<1>7. ASSUME NEW n \in 1 .. Len(log), n > a, log[n].kind = "continuation" PROVE FALSE
  <2>1. log[n].turn = last
    <3>1. HistOwn(log[n])
      BY <1>7 DEF HistOwn
    <3>2. ~(log[n].turn <= last - 1)
      BY <1>2, <1>7, <3>1 DEF HistParts
    <3> QED
      BY <3>2
  <2> QED
    BY <1>7, <2>1 DEF HistSilent, HistRecords
<1>8. HistSummaries(log, last, a)
  BY <1>7 DEF HistSummaries
<1>9. HistGrows(log, z, last - 1, a)
  BY <1>7 DEF HistGrows, HistNewest
<1>10. HistCanReplay(log, last, z, last - 1, a)
  BY <1>2, <1>6, <1>8, <1>9 DEF HistCanReplay
<1>11. last \in Nat /\ last - 1 \in Nat /\ a \in Int /\ 1 <= last /\ last <= last - 1 + 1 /\ last - 1 <= last
  BY <1>2
<1>12. HistOver(log, last, z, last - 1, a, last, 0)
  BY <1>5, <1>10, <1>11 DEF HistOver
<1> QED
  BY <1>3, <1>12

LEMMA HistPastSaved ==
    ASSUME NEW log, NEW last, NEW run, HistLoads(log, last, run), run.template \in Hists,
           run.pc \in {"save", "saveFresh"}, HistEnded(log, last),
           NEW r, r = IF run.pc = "save" THEN BuildHistory(log, run.template, run.after, 0) ELSE LoadHistory(log, 0),
           NEW c, c = CheckpointOf(r), NEW log2, log2 = Append(log, HistCheckpoint(c)),
           NEW run2, run2.pc = "idle"
    PROVE  HistPast(log2, run2, last) /\ log2 \in Seq(HistEvents) /\ c \in Hists
<1>1. HistLogWell(log) /\ last \in Nat /\ \A n \in 1 .. Len(log) : log[n].turn \in 0 .. last
  BY DEF HistLoads
<1>2. PICK b, k, base : /\ HistBased(log, b, k, last) /\ HistCall(log, run, base, b, k, last)
                        /\ base = LatestCheckpoint(log)
  BY DEF HistLoads, HistPast
<1>3. /\ b \in Nat /\ k \in Nat /\ 1 <= b /\ b <= k + 1 /\ k <= last /\ base \in Hists /\ base.through \in Int
      /\ HistForgot(log, b) /\ b \in 1 .. last + 1
  BY <1>1, <1>2, HistBasedIs DEF HistLogWell, HistBased
<1>4. run.turn = last /\ k < last /\ last # 0
  <2>1. run.turn = last /\ k < last
    BY <1>2 DEF HistCall
  <2> QED
    BY <1>1, <1>3, <2>1
<1>5. ASSUME NEW d \in 1 .. last + 1, HistForgot(log, d), NEW s, NEW j, NEW a \in Int,
             HistBuilt(log, d, s, j, a, last, r), a <= r.through
      PROVE  HistPast(log2, run2, last) /\ log2 \in Seq(HistEvents) /\ c \in Hists
  <2>1. HistCanReplay(log, d, c, last, c.through) /\ c \in Hists
    BY <1>1, <1>5, HistSavedIs
  <2> QED
    BY <1>1, <1>5, <2>1, HistSavedFollows
<1>6. CASE run.pc = "saveFresh"
  <2>1. r = LoadHistory(log, 0)
    BY <1>6
  <2>2. HistBuilt(log, b, base, k, base.through, last, r)
    <3>1. \A n \in 1 .. Len(log) : log[n].turn \in 0 .. last \/ log[n].turn = 0
      BY <1>1
    <3> QED
      BY <1>1, <1>2, <1>3, <2>1, <3>1, HistLoadIs
  <2>3. base.through <= r.through
    BY <2>2 DEF HistBuilt
  <2> QED
    BY <1>3, <1>5, <2>2, <2>3
<1>7. CASE run.pc = "save"
  <2>1. PICK h, a : h = run.template /\ a = run.after
    OBVIOUS
  <2>2. r = BuildHistory(log, h, a, 0) /\ h \in Hists
    BY <1>7, <2>1
  <2>3. HistBegan(log, last, a)
    BY <1>2, <1>7, <2>1 DEF HistCall
  <2>4. PICK e \in 1 .. Len(log) : log[e].turn = last /\ log[e].kind \in EndKinds
    BY DEF HistEnded
  <2>5. e > a /\ a \in Nat /\ log[e].kind # "checkpoint"
    <3>1. log[e].kind \notin {"handoff", "note", "checkpoint"}
      BY <2>4 DEF EndKinds
    <3> QED
      BY <1>1, <1>4, <2>3, <2>4, <3>1, HistEndsAfter
  <2>6. \A d, s, j : HistBuilt(log, d, s, j, a, last, r) => a <= r.through
    <3> SUFFICES ASSUME NEW d, NEW s, NEW j, HistBuilt(log, d, s, j, a, last, r) PROVE a <= r.through
      OBVIOUS
    <3>1. e <= r.through
      BY <2>4, <2>5 DEF HistBuilt
    <3>2. r.through \in Int
      <4>1. r \in Hists
        BY DEF HistBuilt
      <4> QED
        BY <4>1, HistsAre
    <3>3. e \in Int
      OBVIOUS
    <3> QED
      BY <2>5, <3>1, <3>2, <3>3
  <2>7. CASE HistReady(log, h, last, a, base, b, k)
    <3>1. HistCanReplay(log, b, h, last - 1, a)
      BY <2>7 DEF HistReady
    <3>2. /\ b \in Nat /\ last - 1 \in Nat /\ a \in Int /\ b <= last - 1 + 1 /\ last - 1 <= last
          /\ \A n \in 1 .. Len(log) : log[n].turn \in 0 .. last
      BY <1>1, <1>3, <1>4, <2>5
    <3>3. HistOver(log, b, h, last - 1, a, last, 0)
      BY <1>1, <1>3, <2>2, <3>1, <3>2 DEF HistOver
    <3>4. HistBuilt(log, b, h, last - 1, a, last, r)
      BY <2>2, <3>3, HistBuildIs
    <3> QED
      BY <1>3, <1>5, <2>6, <3>2, <3>4
  <2>8. CASE /\ h = ZeroTemplate /\ HistSilent(log, last)
             /\ \E n \in 1 .. Len(log) : log[n].turn = last /\ log[n].kind = "rolled"
    <3>1. HistOver(log, last, h, last - 1, a, last, 0)
      BY <1>1, <1>4, <2>3, <2>8, HistZeroIs
    <3>2. HistBuilt(log, last, h, last - 1, a, last, r)
      BY <2>2, <3>1, HistBuildIs
    <3>3. last \in 1 .. last + 1 /\ HistForgot(log, last) /\ a \in Int
      BY <1>1, <1>4, <2>5, <2>8 DEF HistForgot
    <3> QED
      BY <1>5, <2>6, <3>2, <3>3
  <2>9. \/ HistReady(log, h, last, a, base, b, k)
        \/ /\ h = ZeroTemplate /\ HistSilent(log, last)
           /\ \E n \in 1 .. Len(log) : log[n].turn = last /\ log[n].kind = "rolled"
    BY <1>2, <1>7, <2>1 DEF HistCall
  <2> QED
    BY <2>7, <2>8, <2>9
<1> QED
  BY <1>6, <1>7

------------------------------------------------------------------------------
(* The invariant, of a log and of the call that runs: its last turn is known.     *)
HistFine(log, run) ==
    /\ log \in Seq(HistEvents) /\ run.template \in Hists /\ run.cont \in HistConts
    /\ \A last \in Nat : HistNumbered(log, last) => HistPast(log, run, last)
HistGiven(log, run, last) == HistFine(log, run) /\ last \in Nat /\ HistWell(log, last)

LEMMA HistGivenIs ==
    ASSUME NEW log, NEW run, NEW last, HistGiven(log, run, last)
    PROVE  /\ HistLoads(log, last, run) /\ HistPast(log, run, last) /\ HistLogWell(log) /\ HistNoted(log)
           /\ log \in Seq(HistEvents) /\ last \in Nat /\ HistNumbered(log, last)
           /\ run.template \in Hists /\ run.cont \in HistConts
           /\ \A n \in 1 .. Len(log) : log[n].turn \in 0 .. last
<1>1. /\ log \in Seq(HistEvents) /\ run.template \in Hists /\ run.cont \in HistConts /\ last \in Nat
      /\ HistNumbered(log, last) /\ HistLogTyped(log) /\ HistOrdered(log) /\ HistEndsOnce(log)
  BY DEF HistGiven, HistFine, HistWell
<1>2. HistPast(log, run, last)
  BY <1>1 DEF HistGiven, HistFine
<1>3. HistNoted(log)
  BY <1>2 DEF HistPast
<1>4. HistLogWell(log)
  BY <1>1, <1>3 DEF HistLogWell
<1>5. \A n \in 1 .. Len(log) : log[n].turn \in 0 .. last
  <2> SUFFICES ASSUME NEW n \in 1 .. Len(log), log[n].turn # 0 PROVE log[n].turn \in 1 .. last
    BY <1>1
  <2> QED
    BY <1>1 DEF HistNumbered
<1> QED
  BY <1>1, <1>2, <1>3, <1>4, <1>5 DEF HistLoads

LEMMA HistFineAt ==
    ASSUME NEW log \in Seq(HistEvents), NEW run, run.template \in Hists, run.cont \in HistConts,
           NEW m \in Nat, HistNumbered(log, m), HistPast(log, run, m)
    PROVE  HistFine(log, run)
<1> SUFFICES ASSUME NEW last \in Nat, HistNumbered(log, last) PROVE last = m
  BY DEF HistFine
<1>1. 1 .. last = 1 .. m
  BY DEF HistNumbered
<1>2. ASSUME last < m PROVE FALSE
  <2>1. m \in 1 .. m /\ m \notin 1 .. last
    BY <1>2
  <2> QED
    BY <1>1, <2>1
<1>3. ASSUME m < last PROVE FALSE
  <2>1. last \in 1 .. last /\ last \notin 1 .. m
    BY <1>3
  <2> QED
    BY <1>1, <2>1
<1> QED
  BY <1>2, <1>3

(* The call that runs goes on.                                                    *)
LEMMA HistFineRuns ==
    ASSUME NEW log, NEW run, NEW last, HistGiven(log, run, last),
           NEW run2, run2.template \in Hists, run2.cont \in HistConts, HistPast(log, run2, last)
    PROVE  HistGiven(log, run2, last)
<1>1. log \in Seq(HistEvents) /\ HistNumbered(log, last) /\ last \in Nat
  BY HistGivenIs
<1>2. HistFine(log, run2)
  BY <1>1, HistFineAt
<1> QED
  BY <1>2 DEF HistGiven

LEMMA HistFineLeaves ==
    ASSUME NEW log, NEW run, NEW last, HistGiven(log, run, last),
           NEW run2, run2.template \in Hists, run2.cont \in HistConts,
           run2.pc = "idle" \/ (run2.pc \in {"blocked", "saveFresh"} /\ run.pc # "idle" /\ run2.turn = run.turn)
    PROVE  HistGiven(log, run2, last)
<1>1. HistPast(log, run, last)
  BY HistGivenIs
<1>2. HistPast(log, run2, last)
  BY <1>1, HistPastLeaves
<1> QED
  BY <1>2, HistFineRuns

LEMMA HistFineSaves ==
    ASSUME NEW log, NEW run, NEW last, HistGiven(log, run, last), run.pc \in {"loop", "review"},
           run.pc = "review" => \E n \in 1 .. Len(log) : log[n].turn = last /\ log[n].kind = "rolled",
           NEW run2, run2.pc = "save", run2.turn = run.turn, run2.after = run.after,
           run2.template = run.template, run2.cont = run.cont
    PROVE  HistGiven(log, run2, last)
<1>1. HistPast(log, run, last) /\ run.template \in Hists /\ run.cont \in HistConts
  BY HistGivenIs
<1>2. HistPast(log, run2, last)
  BY <1>1, HistPastSaves
<1> QED
  BY <1>1, <1>2, HistFineRuns

(* An event more.                                                                 *)
HistGoesOn(log, log2, e, last) ==
    /\ log2 \in Seq(HistEvents) /\ Len(log) \in Nat /\ Len(log2) = Len(log) + 1 /\ log2[Len(log) + 1] = e
    /\ \A n \in 1 .. Len(log) : log2[n] = log[n]
    /\ HistExtends(log, log2, last - 1)
LEMMA HistAppendGoesOn ==
    ASSUME NEW log \in Seq(HistEvents), NEW e \in HistEvents, NEW last \in Nat,
           e.turn = last \/ e.kind \in {"note", "checkpoint"}
    PROVE  HistGoesOn(log, Append(log, e), e, last)
<1>1. PICK log2 : log2 = Append(log, e)
  OBVIOUS
<1>2. /\ log2 \in Seq(HistEvents) /\ Len(log) \in Nat /\ Len(log2) = Len(log) + 1 /\ log2[Len(log) + 1] = e
      /\ \A n \in 1 .. Len(log) : log2[n] = log[n]
  BY <1>1, AppendProperties
<1>3. e.turn \in Nat
  BY DEF HistEvents
<1>4. HistExtends(log, log2, last - 1)
  <2>1. last - 1 \in Int /\ (e.turn <= last - 1 => e.kind \in {"note", "checkpoint"})
    BY <1>3
  <2> QED
    BY <1>2, <1>3, <2>1 DEF HistExtends
<1> QED
  BY <1>1, <1>2, <1>4 DEF HistGoesOn

LEMMA HistFineSays ==
    ASSUME NEW log, NEW run, NEW last, HistGiven(log, run, last),
           NEW e \in HistEvents, HistAdds(log, last, e), e.turn # last + 1,
           e.kind \notin {"continuation", "checkpoint"}, run.pc # "idle" \/ e.kind = "note",
           e.kind = "note" => \E i \in 1 .. Len(log) : log[i].kind = "entry" /\ log[i].turn = e.turn,
           NEW log2, log2 = Append(log, e)
    PROVE  HistGiven(log2, run, last)
<1>1. /\ HistPast(log, run, last) /\ log \in Seq(HistEvents) /\ last \in Nat
      /\ run.template \in Hists /\ run.cont \in HistConts
      /\ \A n \in 1 .. Len(log) : log[n].turn \in 0 .. last
  BY HistGivenIs
<1>2. HistWell(log2, last)
  <2>1. HistWell(log, last)
    BY DEF HistGiven
  <2>2. HistWell(Append(log, e), IF e.turn = last + 1 THEN last + 1 ELSE last)
    BY <1>1, <2>1, HistOneMore
  <2> QED
    BY <2>2
<1>3. e.turn = last \/ e.kind \in {"note", "checkpoint"}
  BY DEF HistAdds
<1>4. HistGoesOn(log, log2, e, last)
  <2>1. HistGoesOn(log, Append(log, e), e, last)
    BY <1>1, <1>3, HistAppendGoesOn
  <2> QED
    BY <2>1
<1>5. HistSaysMore(log, log2, last, run)
  BY <1>1, <1>4 DEF HistSaysMore, HistGoesOn
<1>6. HistPast(log2, run, last)
  BY <1>1, <1>5, HistPastStays
<1>7. HistNumbered(log2, last)
  BY <1>2 DEF HistWell
<1>8. HistFine(log2, run)
  BY <1>1, <1>4, <1>6, <1>7, HistFineAt DEF HistGoesOn
<1> QED
  BY <1>1, <1>2, <1>8 DEF HistGiven

(* A turn begins.                                                                 *)
LEMMA HistFineBegun ==
    ASSUME NEW log, NEW run, NEW last, HistGiven(log, run, last),
           NEW e \in HistEvents, e.turn = last + 1, e.kind \in {"entry", "handoff", "started"},
           NEW log2, log2 = Append(log, e)
    PROVE  HistBeginsWith(log, log2, last, e) /\ HistWell(log2, last + 1) /\ last + 1 \in Nat
<1>1. log \in Seq(HistEvents) /\ last \in Nat /\ \A n \in 1 .. Len(log) : log[n].turn \in 0 .. last
  BY HistGivenIs
<1>2. log2 \in Seq(HistEvents)
  BY <1>1, AppendProperties
<1>3. HistAdds(log, last, e)
  BY DEF HistAdds, HistKinds
<1>4. HistWell(log2, last + 1)
  <2>1. HistWell(log, last)
    BY DEF HistGiven
  <2>2. HistWell(Append(log, e), IF e.turn = last + 1 THEN last + 1 ELSE last)
    BY <1>1, <1>3, <2>1, HistOneMore
  <2> QED
    BY <2>2
<1> QED
  BY <1>1, <1>2, <1>4 DEF HistBeginsWith

LEMMA HistFineCompactStarts ==
    ASSUME NEW log, NEW run, NEW last, HistGiven(log, run, last),
           NEW e \in HistEvents, e.turn = last + 1, e.kind = "started",
           NEW log2, log2 = Append(log, e),
           NEW h, h = LoadHistory(log, last + 1), PrefixCount(h.order, h.cont) < Len(h.order),
           NEW run2, run2.pc = "compact", run2.turn = last + 1, run2.template = h, run2.cont \in HistConts
    PROVE  HistGiven(log2, run2, last + 1)
<1>1. HistBeginsWith(log, log2, last, e) /\ HistWell(log2, last + 1) /\ last + 1 \in Nat
  BY HistFineBegun
<1>2. HistPast(log, run, last) /\ HistLogWell(log)
  BY HistGivenIs
<1>3. HistPast(log2, run2, last + 1) /\ LoadHistory(log, last + 1) \in Hists
  BY <1>1, <1>2, HistCompactBegins
<1>4. log2 \in Seq(HistEvents) /\ HistNumbered(log2, last + 1) /\ run2.template \in Hists
  BY <1>1, <1>3 DEF HistBeginsWith, HistWell
<1>5. HistFine(log2, run2)
  BY <1>1, <1>3, <1>4, HistFineAt
<1> QED
  BY <1>1, <1>5 DEF HistGiven

(* A turn loads its history, or loads it again.                                   *)
LEMMA HistFineLoads ==
    ASSUME NEW log, NEW run, NEW last, HistGiven(log, run, last), run.pc = "load",
           NEW run2, run2.pc = "loop", run2.turn = run.turn, run2.after = run.after,
           run2.template = LoadHistory(log, last), HistRecorded(log, last, run2.cont), run2.cont \in HistConts
    PROVE  HistGiven(log, run2, last)
<1>1. HistLoads(log, last, run)
  BY HistGivenIs
<1>2. HistPast(log, run2, last) /\ LoadHistory(log, last) \in Hists
  BY <1>1, HistPastLoads
<1> QED
  BY <1>2, HistFineRuns

LEMMA HistFineReviews ==
    ASSUME NEW log, NEW run, NEW last, HistGiven(log, run, last), run.pc = "loadReview",
           NEW run2, run2.pc = "review", run2.turn = run.turn, run2.after = run.after, run2.template = ZeroTemplate,
           run2.cont \in HistConts
    PROVE  HistGiven(log, run2, last)
<1>1. HistPast(log, run, last)
  BY HistGivenIs
<1>2. HistPast(log, run2, last)
  BY <1>1, HistPastReviews
<1>3. ZeroTemplate \in Hists
  <2>1. NoHistory \in Hists /\ 0 \in Int
    <3>1. LatestCheckpoint(<<>>) = NoHistory /\ LatestCheckpoint(<<>>) \in Hists
      <4>1. <<>> \in Seq(HistEvents) /\ Len(<<>>) = 0
        OBVIOUS
      <4>2. HistMarks(<<>>) = {}
        BY <4>1 DEF HistMarks
      <4> QED
        BY <4>1, <4>2, HistLatestIs
    <3> QED
      BY <3>1
  <2>2. PICK z : z = NoHistory
    OBVIOUS
  <2>3. z \in Hists /\ ZeroTemplate = [z EXCEPT !.through = 0]
    BY <2>1, <2>2 DEF ZeroTemplate
  <2> QED
    BY <2>3 DEF Hists
<1> QED
  BY <1>2, <1>3, HistFineRuns

LEMMA HistFineResumes ==
    ASSUME NEW log, NEW run, NEW last, HistGiven(log, run, last), run.pc = "blocked",
           NEW f \in 1 .. Len(log), log[f].turn = last, \A n \in 1 .. Len(log) : log[n].turn = last => f <= n,
           NEW run2, run2.pc = "load", run2.turn = run.turn, run2.after = f - 1,
           run2.template \in Hists, run2.cont \in HistConts
    PROVE  HistGiven(log, run2, last)
<1>1. HistLoads(log, last, run)
  BY HistGivenIs
<1>2. HistPast(log, run2, last)
  BY <1>1, HistPastResumes
<1> QED
  BY <1>2, HistFineRuns

(* A summary is recorded, a history is saved.                                     *)
HistMayAppend(log, last, e) ==
    \/ e.kind = "checkpoint" /\ e.turn = 0
    \/ e.kind = "continuation" /\ e.turn = last /\ last # 0 /\ ~HistEnded(log, last)
LEMMA HistFineAppends ==
    ASSUME NEW log, NEW run, NEW last, HistGiven(log, run, last), NEW e \in HistEvents, HistMayAppend(log, last, e),
           NEW log2, log2 = Append(log, e), log2 \in Seq(HistEvents),
           NEW run2, run2.template \in Hists, run2.cont \in HistConts, HistPast(log2, run2, last)
    PROVE  HistGiven(log2, run2, last) /\ (HistEnded(log2, last) <=> HistEnded(log, last))
<1>1. last \in Nat /\ HistWell(log, last)
  BY DEF HistGiven
<1>2. HistAdds(log, last, e)
  BY DEF HistAdds, HistKinds, HistMayAppend
<1>3. /\ HistWell(Append(log, e), IF e.turn = last + 1 THEN last + 1 ELSE last)
      /\ \A t : HistEnded(Append(log, e), t) <=> HistEnded(log, t) \/ (e.turn = t /\ e.kind \in EndKinds)
  BY <1>1, <1>2, HistOneMore
<1>4. HistWell(log2, last)
  BY <1>1, <1>3 DEF HistMayAppend
<1>5. HistEnded(log2, last) <=> HistEnded(log, last)
  BY <1>3 DEF EndKinds, HistMayAppend
<1>6. HistFine(log2, run2)
  BY <1>1, <1>4, HistFineAt DEF HistWell
<1> QED
  BY <1>1, <1>4, <1>5, <1>6 DEF HistGiven

LEMMA HistFineCompacts ==
    ASSUME NEW log, NEW run, NEW last, HistGiven(log, run, last), run.pc = "compact", last # 0, ~HistEnded(log, last),
           NEW cont, cont = Summarise(run.template, run.template.cont, Len(run.template.order)),
           NEW log2, log2 = Append(log, HistContinuation(last, cont)),
           NEW run2, run2.pc = "saveFresh", run2.turn = run.turn, run2.template \in Hists, run2.cont \in HistConts
    PROVE  HistGiven(log2, run2, last) /\ ~HistEnded(log2, last)
<1>1. HistLoads(log, last, run) /\ run.template \in Hists /\ last \in Nat
  BY HistGivenIs
<1>2. HistPast(log2, run2, last) /\ log2 \in Seq(HistEvents) /\ cont \in HistConts
  BY <1>1, HistPastCompacts
<1>3. PICK e : e = HistContinuation(last, cont)
  OBVIOUS
<1>4. e \in HistEvents /\ HistMayAppend(log, last, e)
  <2>1. "continuation" \in HistKinds
    BY DEF HistKinds
  <2> QED
    BY <1>1, <1>2, <1>3, <2>1, HistEventTyped DEF HistMayAppend
<1>5. log2 = Append(log, e)
  BY <1>3
<1> HIDE <1>3
<1>6. HistGiven(log2, run2, last) /\ (HistEnded(log2, last) <=> HistEnded(log, last))
  BY <1>1, <1>2, <1>4, <1>5, HistFineAppends
<1> QED
  BY <1>6

LEMMA HistFineSaved ==
    ASSUME NEW log, NEW run, NEW last, HistGiven(log, run, last),
           run.pc \in {"save", "saveFresh"}, HistEnded(log, last),
           NEW r, r = IF run.pc = "save" THEN BuildHistory(log, run.template, run.after, 0) ELSE LoadHistory(log, 0),
           NEW c, c = CheckpointOf(r), NEW log2, log2 = Append(log, HistCheckpoint(c)),
           NEW run2, run2.pc = "idle", run2.template \in Hists, run2.cont \in HistConts
    PROVE  HistGiven(log2, run2, last)
<1>1. HistLoads(log, last, run) /\ run.template \in Hists /\ last \in Nat
  BY HistGivenIs
<1>2. HistPast(log2, run2, last) /\ log2 \in Seq(HistEvents) /\ c \in Hists
  BY <1>1, HistPastSaved
<1>3. PICK e : e = HistCheckpoint(c)
  OBVIOUS
<1>4. e \in HistEvents /\ HistMayAppend(log, last, e)
  <2>1. "checkpoint" \in HistKinds
    BY DEF HistKinds
  <2> QED
    BY <1>1, <1>2, <1>3, <2>1, HistEventTyped DEF HistMayAppend
<1>5. log2 = Append(log, e)
  BY <1>3
<1>6. /\ HistPast(log2, run2, last) /\ log2 \in Seq(HistEvents) /\ HistGiven(log, run, last)
      /\ run2.template \in Hists /\ run2.cont \in HistConts
  BY <1>2
<1> HIDE <1>3
<1>7. HistGiven(log2, run2, last) /\ (HistEnded(log2, last) <=> HistEnded(log, last))
  BY ONLY <1>4, <1>5, <1>6, HistFineAppends
<1> QED
  BY <1>7

(* The records of a call.                                                         *)
HistCallAfter(pc, turn, after) == [IdleRun EXCEPT !.pc = pc, !.turn = turn, !.after = after]
HistCallWith(pc, turn, template) == [IdleRun EXCEPT !.pc = pc, !.turn = turn, !.template = template]
HistCallOf(pc, turn) == [IdleRun EXCEPT !.pc = pc, !.turn = turn]
HistLoaded(pc, template, cont) == [histRun EXCEPT !.pc = pc, !.template = template, !.cont = cont]
HistBackAt(pc, after) == [histRun EXCEPT !.pc = pc, !.after = after]
HistMoved(pc) == [histRun EXCEPT !.pc = pc]
HistSumming(cont) == [histRun EXCEPT !.cont = cont]
HistFailing(failed) == [histRun EXCEPT !.failed = failed]
HistIsCall(run, pc, turn) == HistIsRun(run) /\ run.pc = pc /\ run.turn = turn

LEMMA HistIdleIs ==
    ASSUME NEW pc, NEW turn, NEW after, NEW template
    PROVE  /\ HistIsCall(IdleRun, "idle", 0)
           /\ HistIsCall(HistCallAfter(pc, turn, after), pc, turn)
           /\ HistIsCall(HistCallWith(pc, turn, template), pc, turn)
           /\ HistIsCall(HistCallOf(pc, turn), pc, turn)
<1> DEFINE R(p, t, f, m, s, x) == [pc |-> p, turn |-> t, after |-> f, template |-> m, cont |-> s, failed |-> x]
<1>1. PICK m, s, x : IdleRun = R("idle", 0, 0, m, s, x)
  BY DEF IdleRun
<1>2. ASSUME NEW p1, NEW t1, NEW f1, NEW m1
      PROVE  HistIsCall(R(p1, t1, f1, m1, s, x), p1, t1)
  BY DEF HistIsRun, HistIsCall
<1>3. ASSUME NEW p, NEW t, NEW f
      PROVE  /\ [R(p, t, f, m, s, x) EXCEPT !.pc = pc, !.turn = turn, !.after = after] = R(pc, turn, after, m, s, x)
             /\ [R(p, t, f, m, s, x) EXCEPT !.pc = pc, !.turn = turn, !.template = template] = R(pc, turn, f, template, s, x)
             /\ [R(p, t, f, m, s, x) EXCEPT !.pc = pc, !.turn = turn] = R(pc, turn, f, m, s, x)
  <2>1. /\ [R(p, t, f, m, s, x) EXCEPT !.pc = pc] = R(pc, t, f, m, s, x)
        /\ [R(pc, t, f, m, s, x) EXCEPT !.turn = turn] = R(pc, turn, f, m, s, x)
        /\ [R(pc, turn, f, m, s, x) EXCEPT !.after = after] = R(pc, turn, after, m, s, x)
        /\ [R(pc, turn, f, m, s, x) EXCEPT !.template = template] = R(pc, turn, f, template, s, x)
    OBVIOUS
  <2> HIDE DEF R
  <2> QED
    BY <2>1
<1> HIDE DEF R
<1>4. /\ HistCallAfter(pc, turn, after) = R(pc, turn, after, m, s, x)
      /\ HistCallWith(pc, turn, template) = R(pc, turn, 0, template, s, x)
      /\ HistCallOf(pc, turn) = R(pc, turn, 0, m, s, x)
  <2>1. HistCallAfter(pc, turn, after) = R(pc, turn, after, m, s, x)
    BY <1>1, <1>3, ZenonT(60) DEF HistCallAfter
  <2>2. HistCallWith(pc, turn, template) = R(pc, turn, 0, template, s, x)
    BY <1>1, <1>3, ZenonT(60) DEF HistCallWith
  <2>3. HistCallOf(pc, turn) = R(pc, turn, 0, m, s, x)
    BY <1>1, <1>3, ZenonT(60) DEF HistCallOf
  <2> QED
    BY <2>1, <2>2, <2>3, SMTT(60)
<1> QED
  BY <1>1, <1>2, <1>4

LEMMA HistRunIs ==
    ASSUME HistIsRun(histRun), NEW a, NEW b, NEW c
    PROVE  /\ HistIsCall(HistLoaded(a, b, c), a, histRun.turn)
           /\ HistIsCall(HistBackAt(a, b), a, histRun.turn)
           /\ HistIsCall(HistMoved(a), a, histRun.turn)
           /\ HistIsCall(HistSumming(a), histRun.pc, histRun.turn)
           /\ HistIsCall(HistFailing(a), histRun.pc, histRun.turn)
<1> DEFINE R(p, t, f, m, s, x) == [pc |-> p, turn |-> t, after |-> f, template |-> m, cont |-> s, failed |-> x]
<1>1. PICK p, t, f, m, s, x : histRun = R(p, t, f, m, s, x)
  BY DEF HistIsRun
<1>2. ASSUME NEW p1, NEW f1, NEW m1, NEW s1, NEW x1
      PROVE  HistIsCall(R(p1, t, f1, m1, s1, x1), p1, t)
  BY DEF HistIsRun, HistIsCall
<1>3. /\ [R(p, t, f, m, s, x) EXCEPT !.pc = a, !.template = b, !.cont = c] = R(a, t, f, b, c, x)
      /\ [R(p, t, f, m, s, x) EXCEPT !.pc = a, !.after = b] = R(a, t, b, m, s, x)
      /\ [R(p, t, f, m, s, x) EXCEPT !.pc = a] = R(a, t, f, m, s, x)
      /\ [R(p, t, f, m, s, x) EXCEPT !.cont = a] = R(p, t, f, m, a, x)
      /\ [R(p, t, f, m, s, x) EXCEPT !.failed = a] = R(p, t, f, m, s, a)
  <2>1. /\ [R(p, t, f, m, s, x) EXCEPT !.pc = a] = R(a, t, f, m, s, x)
        /\ [R(a, t, f, m, s, x) EXCEPT !.template = b] = R(a, t, f, b, s, x)
        /\ [R(a, t, f, b, s, x) EXCEPT !.cont = c] = R(a, t, f, b, c, x)
        /\ [R(a, t, f, m, s, x) EXCEPT !.after = b] = R(a, t, b, m, s, x)
        /\ [R(p, t, f, m, s, x) EXCEPT !.cont = a] = R(p, t, f, m, a, x)
        /\ [R(p, t, f, m, s, x) EXCEPT !.failed = a] = R(p, t, f, m, s, a)
    OBVIOUS
  <2> HIDE DEF R
  <2> QED
    BY <2>1
<1>4. histRun.pc = p /\ histRun.turn = t
  BY <1>1
<1> HIDE DEF R
<1>5. /\ HistLoaded(a, b, c) = R(a, t, f, b, c, x)
      /\ HistBackAt(a, b) = R(a, t, b, m, s, x)
      /\ HistMoved(a) = R(a, t, f, m, s, x)
      /\ HistSumming(a) = R(p, t, f, m, a, x)
      /\ HistFailing(a) = R(p, t, f, m, s, a)
  BY <1>1, <1>3 DEF HistLoaded, HistBackAt, HistMoved, HistSumming, HistFailing
<1> QED
  BY <1>2, <1>4, <1>5

LEMMA HistNow ==
    ASSUME NEW k \in 0 .. HistMaxTurns, HistWell(histLog, k)
    PROVE  /\ HistMaxTurns \in Nat /\ k \in Nat /\ NewTurn = k + 1 /\ HistTurns = 1 .. k
           /\ DOMAIN histLog = 1 .. Len(histLog) /\ Len(histLog) \in Nat
           /\ ~HistEnded(histLog, k + 1)
           /\ \A t : HasEnded(t) <=> HistEnded(histLog, t)
<1>1. HistMaxTurns \in Nat /\ k \in Nat
  BY HistAssumption
<1>2. DOMAIN histLog = 1 .. Len(histLog) /\ Len(histLog) \in Nat
  BY LenProperties DEF HistWell, HistLogTyped
<1>3. HistTurns = 1 .. k
  BY <1>2 DEF HistWell, HistNumbered, HistTurns
<1>4. Cardinality(1 .. k) = k
  BY <1>1, FS_Interval
<1>5. ~HistEnded(histLog, k + 1)
  <2>1. ASSUME NEW i \in 1 .. Len(histLog), histLog[i].turn = k + 1 PROVE FALSE
    <3>1. k + 1 \in HistTurns
      BY <1>1, <1>2, <2>1 DEF HistTurns
    <3> QED
      BY <1>1, <1>3, <3>1
  <2> QED
    BY <2>1 DEF HistEnded
<1>6. ASSUME NEW t PROVE HasEnded(t) <=> HistEnded(histLog, t)
  BY <1>2 DEF HasEnded, EventsOf, HistEnded
<1> QED
  BY <1>1, <1>2, <1>3, <1>4, <1>5, <1>6 DEF NewTurn

LEMMA HistFollows ==
    ASSUME NEW t \in 0 .. HistMaxTurns, HistWell(histLog, t)', histFaults' \in 0 .. HistMaxFaults,
           HistIsRun(histRun)', histRun'.pc \in HistPcs,
           histRun'.turn = IF histRun'.pc = "idle" THEN 0 ELSE t,
           histRun'.pc # "idle" => t # 0 /\ (HistEnded(histLog, t)' <=> histRun'.pc \in {"save", "saveFresh"})
    PROVE  HistInv'
BY DEF HistInv, HistRuns, HistAt

LEMMA HistSaysOne ==
    ASSUME NEW k \in 0 .. HistMaxTurns, HistWell(histLog, k), NEW e, Says(e), HistAdds(histLog, k, e)
    PROVE  /\ HistWell(histLog, IF e.turn = k + 1 THEN k + 1 ELSE k)'
           /\ \A t : HistEnded(histLog, t)' <=> HistEnded(histLog, t) \/ (e.turn = t /\ e.kind \in EndKinds)
<1>1. histLog' = Append(histLog, e)
  <2>1. histLog' = histLog \o <<e>>
    BY DEF Says, SaysAll
  <2>2. PICK S : histLog \in Seq(S)
    BY DEF HistWell, HistLogTyped
  <2>3. histLog \in Seq(S \cup {e}) /\ e \in S \cup {e}
    BY <2>2, SeqMonotonic
  <2> QED
    BY <2>1, <2>3, AppendIsConcat
<1> PICK log : log = histLog
  OBVIOUS
<1>2. HistWell(log, k) /\ HistAdds(log, k, e) /\ k \in Nat
  BY HistNow
<1> DEFINE more == Append(log, e)
<1>3. /\ HistWell(more, IF e.turn = k + 1 THEN k + 1 ELSE k)
      /\ \A t : HistEnded(more, t) <=> HistEnded(log, t) \/ (e.turn = t /\ e.kind \in EndKinds)
  BY <1>2, HistOneMore
<1>4. histLog' = more
  BY <1>1
<1> HIDE DEF more
<1> QED
  BY <1>3, <1>4

LEMMA HistEventIs ==
    ASSUME NEW kind, NEW t, NEW x
    PROVE  /\ HistEvent(kind, t).kind = kind /\ HistEvent(kind, t).turn = t
           /\ [HistEvent(kind, t) EXCEPT !.cont = x].kind = kind
           /\ [HistEvent(kind, t) EXCEPT !.cont = x].turn = t
           /\ [HistEvent(kind, t) EXCEPT !.saved = x].kind = kind
           /\ [HistEvent(kind, t) EXCEPT !.saved = x].turn = t
BY DEF HistEvent

LEMMA HistFaultsStay ==
    ASSUME histFaults \in 0 .. HistMaxFaults, Fault \/ UNCHANGED histFaults
    PROVE  histFaults' \in 0 .. HistMaxFaults
BY HistAssumption DEF Fault

(* What the call says of its own turn, which has not ended.                       *)
LEMMA HistActs ==
    ASSUME NEW k \in 0 .. HistMaxTurns, HistWell(histLog, k), HistRuns(k),
           histRun.pc \notin {"idle", "save", "saveFresh"},
           NEW e, Says(e), e.kind \in HistKinds \ {"checkpoint", "note"}, e.turn = histRun.turn,
           histFaults' \in 0 .. HistMaxFaults,
           NEW pc \in HistPcs, HistIsCall(histRun', pc, IF pc = "idle" THEN 0 ELSE histRun.turn),
           pc # "idle" => (e.kind \in EndKinds <=> pc \in {"save", "saveFresh"})
    PROVE  HistInv'
<1>1. k # 0 /\ histRun.turn = k /\ ~HistEnded(histLog, k) /\ k \in Nat
  BY HistNow DEF HistRuns, HistAt
<1>2. HistAdds(histLog, k, e) /\ e.turn # k + 1
  BY <1>1 DEF HistAdds
<1>3. /\ HistWell(histLog, k)'
      /\ HistEnded(histLog, k)' <=> e.kind \in EndKinds
  BY <1>1, <1>2, HistSaysOne
<1> QED
  BY <1>1, <1>3, HistFollows DEF HistIsCall

(* A turn begins.                                                                 *)
LEMMA HistBegins ==
    ASSUME NEW k \in 0 .. HistMaxTurns, HistWell(histLog, k), HistRuns(k), NewTurn <= HistMaxTurns,
           NEW e, Says(e), e.kind \in HistKinds \ ({"checkpoint", "note"} \cup EndKinds), e.turn = NewTurn,
           histFaults' \in 0 .. HistMaxFaults,
           NEW pc \in HistPcs \ {"idle", "save", "saveFresh"}, HistIsCall(histRun', pc, NewTurn)
    PROVE  HistInv'
<1>1. k \in Nat /\ NewTurn = k + 1 /\ ~HistEnded(histLog, k + 1) /\ HistMaxTurns \in Nat
  BY HistNow
<1>2. k + 1 \in 0 .. HistMaxTurns /\ k + 1 # 0
  BY <1>1
<1>3. HistAdds(histLog, k, e)
  BY <1>1 DEF HistAdds
<1>4. /\ HistWell(histLog, k + 1)'
      /\ ~HistEnded(histLog, k + 1)'
  BY <1>1, <1>3, HistSaysOne
<1> QED
  BY <1>1, <1>2, <1>4, HistFollows DEF HistIsCall

(* Nothing is said.                                                               *)
LEMMA HistWaits ==
    ASSUME NEW k \in 0 .. HistMaxTurns, HistWell(histLog, k), HistRuns(k), UNCHANGED histLog,
           histFaults' \in 0 .. HistMaxFaults,
           NEW pc \in HistPcs, HistIsCall(histRun', pc, IF pc = "idle" THEN 0 ELSE histRun.turn),
           pc # "idle" => histRun.pc # "idle" /\ (pc \in {"save", "saveFresh"}
                                                            <=> histRun.pc \in {"save", "saveFresh"})
    PROVE  HistInv'
<1>1. histRun.pc # "idle" => /\ k # 0 /\ histRun.turn = k
                             /\ HistEnded(histLog, k) <=> histRun.pc \in {"save", "saveFresh"}
  BY DEF HistRuns, HistAt
<1>2. HistWell(histLog, k)' /\ (HistEnded(histLog, k)' <=> HistEnded(histLog, k))
  <2> PICK log : log = histLog
    OBVIOUS
  <2>1. HistWell(log, k)
    OBVIOUS
  <2>2. histLog' = log
    OBVIOUS
  <2> QED
    BY <2>1, <2>2
<1> QED
  BY <1>1, <1>2, HistFollows DEF HistIsCall

LEMMA HistStartTurn ==
    ASSUME HistInv, NEW pc \in {"load", "loadReview", "shell"}, StartTurn(pc)
    PROVE  HistInv'
<1>1. PICK k \in 0 .. HistMaxTurns : HistWell(histLog, k) /\ HistRuns(k)
  BY DEF HistInv
<1>2. histFaults' \in 0 .. HistMaxFaults
  BY DEF HistInv, StartTurn
<1>3. HistIsCall(histRun', pc, NewTurn)
  <2>1. PICK x : histRun' = HistCallAfter(pc, NewTurn, x)
    BY DEF StartTurn, HistCallAfter
  <2> QED
    BY <2>1, HistIdleIs
<1>4. /\ HistEvent("entry", NewTurn).kind = "entry" /\ HistEvent("entry", NewTurn).turn = NewTurn
      /\ Says(HistEvent("entry", NewTurn)) /\ NewTurn <= HistMaxTurns
  BY HistEventIs DEF StartTurn
<1>5. pc \in HistPcs \ {"idle", "save", "saveFresh"}
      /\ "entry" \in HistKinds \ ({"checkpoint", "note"} \cup EndKinds)
  BY DEF HistPcs, HistKinds, EndKinds
<1> QED
  BY <1>1, <1>2, <1>3, <1>4, <1>5, HistBegins

LEMMA HistContinueTurn ==
    ASSUME HistInv, ContinueTurn
    PROVE  HistInv'
<1>1. PICK k \in 0 .. HistMaxTurns : HistWell(histLog, k) /\ HistRuns(k)
  BY DEF HistInv
<1>2. histFaults' \in 0 .. HistMaxFaults
  BY DEF HistInv, ContinueTurn
<1>3. HistIsCall(histRun', "load", NewTurn)
  <2>1. PICK x : histRun' = HistCallAfter("load", NewTurn, x)
    BY DEF ContinueTurn, HistCallAfter
  <2> QED
    BY <2>1, HistIdleIs
<1>4. /\ HistEvent("handoff", NewTurn).kind = "handoff" /\ HistEvent("handoff", NewTurn).turn = NewTurn
      /\ Says(HistEvent("handoff", NewTurn)) /\ NewTurn <= HistMaxTurns
  BY HistEventIs DEF ContinueTurn
<1>5. "load" \in HistPcs \ {"idle", "save", "saveFresh"}
      /\ "handoff" \in HistKinds \ ({"checkpoint", "note"} \cup EndKinds)
  BY DEF HistPcs, HistKinds, EndKinds
<1> QED
  BY <1>1, <1>2, <1>3, <1>4, <1>5, HistBegins

LEMMA HistStartCompact ==
    ASSUME HistInv, StartCompact
    PROVE  HistInv'
<1>1. PICK k \in 0 .. HistMaxTurns : HistWell(histLog, k) /\ HistRuns(k)
  BY DEF HistInv
<1>2. histFaults' \in 0 .. HistMaxFaults
  BY DEF HistInv, StartCompact
<1>3. HistIsCall(histRun', "compact", NewTurn)
  <2>1. PICK x : histRun' = HistCallWith("compact", NewTurn, x)
    BY DEF StartCompact, HistCallWith
  <2> QED
    BY <2>1, HistIdleIs
<1>4. /\ HistEvent("started", NewTurn).kind = "started" /\ HistEvent("started", NewTurn).turn = NewTurn
      /\ Says(HistEvent("started", NewTurn)) /\ NewTurn <= HistMaxTurns
  BY HistEventIs DEF StartCompact
<1>5. "compact" \in HistPcs \ {"idle", "save", "saveFresh"}
      /\ "started" \in HistKinds \ ({"checkpoint", "note"} \cup EndKinds)
  BY DEF HistPcs, HistKinds, EndKinds
<1> QED
  BY <1>1, <1>2, <1>3, <1>4, <1>5, HistBegins

LEMMA HistRecordFailure ==
    ASSUME HistInv, RecordFailure
    PROVE  HistInv'
<1>1. PICK k \in 0 .. HistMaxTurns : HistWell(histLog, k) /\ HistRuns(k)
  BY DEF HistInv
<1>2. histFaults' \in 0 .. HistMaxFaults
  BY HistFaultsStay DEF HistInv, RecordFailure
<1>3. histRun.pc \notin {"idle", "save", "saveFresh"} /\ histRun.pc \in HistPcs /\ HistIsRun(histRun)
  BY <1>1 DEF RecordFailure, HistAt, HistRuns
<1>4. /\ HistEvent("error", histRun.turn).kind = "error"
      /\ HistEvent("error", histRun.turn).turn = histRun.turn
      /\ Says(HistEvent("error", histRun.turn))
  BY HistEventIs DEF RecordFailure
<1>5. "error" \in HistKinds \ {"checkpoint", "note"} /\ "idle" \in HistPcs /\ {"save", "saveFresh"} \subseteq HistPcs
      /\ "error" \in EndKinds
  BY DEF HistPcs, HistKinds, EndKinds
<1>6. HistIsCall(histRun', "idle", 0)
  BY HistIdleIs DEF RecordFailure
<1> QED
  BY <1>1, <1>2, <1>3, <1>4, <1>5, <1>6, HistActs

LEMMA HistCancelTurnRun ==
    ASSUME HistInv, CancelTurnRun
    PROVE  HistInv'
<1>1. PICK k \in 0 .. HistMaxTurns : HistWell(histLog, k) /\ HistRuns(k)
  BY DEF HistInv
<1>2. histFaults' \in 0 .. HistMaxFaults
  BY HistFaultsStay DEF HistInv, CancelTurnRun
<1>3. histRun.pc \notin {"idle", "save", "saveFresh"} /\ histRun.pc \in HistPcs /\ HistIsRun(histRun)
  BY <1>1 DEF CancelTurnRun, HistAt, HistRuns
<1>4. /\ HistEvent("canceled", histRun.turn).kind = "canceled"
      /\ HistEvent("canceled", histRun.turn).turn = histRun.turn
      /\ Says(HistEvent("canceled", histRun.turn))
  BY HistEventIs DEF CancelTurnRun
<1>5. "canceled" \in HistKinds \ {"checkpoint", "note"} /\ "idle" \in HistPcs /\ {"save", "saveFresh"} \subseteq HistPcs
      /\ "canceled" \in EndKinds
  BY DEF HistPcs, HistKinds, EndKinds
<1>6. HistIsCall(histRun', "idle", 0)
  BY HistIdleIs DEF CancelTurnRun
<1> QED
  BY <1>1, <1>2, <1>3, <1>4, <1>5, <1>6, HistActs

LEMMA HistRollOverReview ==
    ASSUME HistInv, RollOverReview
    PROVE  HistInv'
<1>1. PICK k \in 0 .. HistMaxTurns : HistWell(histLog, k) /\ HistRuns(k)
  BY DEF HistInv
<1>2. histFaults' \in 0 .. HistMaxFaults
  BY HistFaultsStay DEF HistInv, RollOverReview
<1>3. histRun.pc \notin {"idle", "save", "saveFresh"} /\ histRun.pc \in HistPcs /\ HistIsRun(histRun)
  BY <1>1 DEF RollOverReview, HistAt, HistRuns
<1>4. /\ HistEvent("rolled", histRun.turn).kind = "rolled"
      /\ HistEvent("rolled", histRun.turn).turn = histRun.turn
      /\ Says(HistEvent("rolled", histRun.turn))
  BY HistEventIs DEF RollOverReview
<1>5. "rolled" \in HistKinds \ {"checkpoint", "note"} /\ "idle" \in HistPcs /\ {"save", "saveFresh"} \subseteq HistPcs
      /\ "rolled" \in EndKinds
  BY DEF HistPcs, HistKinds, EndKinds
<1>6. HistIsCall(histRun', "save", histRun.turn)
  <2>1. histRun' = HistMoved("save")
    BY DEF RollOverReview, HistMoved
  <2> QED
    BY <1>3, <2>1, HistRunIs
<1> QED
  BY <1>1, <1>2, <1>3, <1>4, <1>5, <1>6, HistActs

LEMMA HistFailTurn ==
    ASSUME HistInv, FailTurn
    PROVE  HistInv'
<1>1. PICK k \in 0 .. HistMaxTurns : HistWell(histLog, k) /\ HistRuns(k)
  BY DEF HistInv
<1>2. histFaults' \in 0 .. HistMaxFaults
  BY HistFaultsStay DEF HistInv, FailTurn
<1>3. histRun.pc \notin {"idle", "save", "saveFresh"} /\ histRun.pc \in HistPcs /\ HistIsRun(histRun)
  BY <1>1 DEF FailTurn, HistAt, HistRuns
<1>4. /\ HistEvent("error", histRun.turn).kind = "error"
      /\ HistEvent("error", histRun.turn).turn = histRun.turn
      /\ Says(HistEvent("error", histRun.turn))
  BY HistEventIs DEF FailTurn
<1>5. "error" \in HistKinds \ {"checkpoint", "note"} /\ "idle" \in HistPcs /\ {"save", "saveFresh"} \subseteq HistPcs
      /\ "error" \in EndKinds
  BY DEF HistPcs, HistKinds, EndKinds
<1>6. HistIsCall(histRun', "saveFresh", histRun.turn)
  <2>1. histRun' = HistMoved("saveFresh")
    BY DEF FailTurn, HistMoved
  <2> QED
    BY <1>3, <2>1, HistRunIs
<1> QED
  BY <1>1, <1>2, <1>3, <1>4, <1>5, <1>6, HistActs

LEMMA HistCompleteTurn ==
    ASSUME HistInv, CompleteTurn
    PROVE  HistInv'
<1>1. PICK k \in 0 .. HistMaxTurns : HistWell(histLog, k) /\ HistRuns(k)
  BY DEF HistInv
<1>2. histFaults' \in 0 .. HistMaxFaults
  BY HistFaultsStay DEF HistInv, CompleteTurn
<1>3. histRun.pc \notin {"idle", "save", "saveFresh"} /\ histRun.pc \in HistPcs /\ HistIsRun(histRun)
  BY <1>1 DEF CompleteTurn, HistAt, HistRuns
<1>4. /\ HistEvent("done", histRun.turn).kind = "done"
      /\ HistEvent("done", histRun.turn).turn = histRun.turn
      /\ Says(HistEvent("done", histRun.turn))
  BY HistEventIs DEF CompleteTurn
<1>5. "done" \in HistKinds \ {"checkpoint", "note"} /\ "idle" \in HistPcs /\ {"save", "saveFresh"} \subseteq HistPcs
      /\ "done" \in EndKinds
  BY DEF HistPcs, HistKinds, EndKinds
<1>6. CASE HistAt("loop")
  <2>1. histRun' = HistMoved("save")
    BY <1>6 DEF CompleteTurn, HistMoved
  <2>2. HistIsCall(histRun', "save", histRun.turn)
    BY <1>3, <2>1, HistRunIs
  <2> QED
    BY <1>1, <1>2, <1>3, <1>4, <1>5, <2>2, HistActs
<1>7. CASE ~HistAt("loop")
  <2>1. HistIsCall(histRun', "idle", 0)
    BY <1>7, HistIdleIs DEF CompleteTurn
  <2> QED
    BY <1>1, <1>2, <1>3, <1>4, <1>5, <2>1, HistActs
<1> QED
  BY <1>6, <1>7

LEMMA HistAnswer ==
    ASSUME HistInv, Answer
    PROVE  HistInv'
<1>1. PICK k \in 0 .. HistMaxTurns : HistWell(histLog, k) /\ HistRuns(k)
  BY DEF HistInv
<1>2. histFaults' \in 0 .. HistMaxFaults
  BY HistFaultsStay DEF HistInv, Answer
<1>3. histRun.pc \notin {"idle", "save", "saveFresh"} /\ histRun.pc \in HistPcs /\ HistIsRun(histRun)
  BY <1>1 DEF Answer, HistAt, HistRuns
<1>4. /\ HistEvent("entry", histRun.turn).kind = "entry"
      /\ HistEvent("entry", histRun.turn).turn = histRun.turn
      /\ Says(HistEvent("entry", histRun.turn))
  BY HistEventIs DEF Answer
<1>5. "entry" \in HistKinds \ {"checkpoint", "note"} /\ "idle" \in HistPcs /\ {"save", "saveFresh"} \subseteq HistPcs
      /\ "entry" \notin EndKinds
  BY DEF HistPcs, HistKinds, EndKinds
<1>6. HistIsCall(histRun', histRun.pc, histRun.turn)
  BY <1>3 DEF Answer, HistIsCall
<1> QED
  BY <1>1, <1>2, <1>3, <1>4, <1>5, <1>6, HistActs

LEMMA HistCompactionFails ==
    ASSUME HistInv, CompactionFails
    PROVE  HistInv'
<1>1. PICK k \in 0 .. HistMaxTurns : HistWell(histLog, k) /\ HistRuns(k)
  BY DEF HistInv
<1>2. histFaults' \in 0 .. HistMaxFaults
  BY HistFaultsStay DEF HistInv, CompactionFails
<1>3. histRun.pc \notin {"idle", "save", "saveFresh"} /\ histRun.pc \in HistPcs /\ HistIsRun(histRun)
  BY <1>1 DEF CompactionFails, HistAt, HistRuns
<1>4. /\ HistEvent("pruned", histRun.turn).kind = "pruned"
      /\ HistEvent("pruned", histRun.turn).turn = histRun.turn
      /\ Says(HistEvent("pruned", histRun.turn))
  BY HistEventIs DEF CompactionFails
<1>5. "pruned" \in HistKinds \ {"checkpoint", "note"} /\ "idle" \in HistPcs /\ {"save", "saveFresh"} \subseteq HistPcs
      /\ "pruned" \notin EndKinds
  BY DEF HistPcs, HistKinds, EndKinds
<1>6. HistIsCall(histRun', histRun.pc, histRun.turn)
  <2>1. histRun' = HistFailing(TRUE)
    BY DEF CompactionFails, HistFailing
  <2> QED
    BY <1>3, <2>1, HistRunIs
<1> QED
  BY <1>1, <1>2, <1>3, <1>4, <1>5, <1>6, HistActs

LEMMA HistCompactForRequest ==
    ASSUME HistInv, CompactForRequest
    PROVE  HistInv'
<1>1. PICK k \in 0 .. HistMaxTurns : HistWell(histLog, k) /\ HistRuns(k)
  BY DEF HistInv
<1>2. histFaults' \in 0 .. HistMaxFaults
  BY HistFaultsStay DEF HistInv, CompactForRequest
<1>3. histRun.pc \notin {"idle", "save", "saveFresh"} /\ histRun.pc \in HistPcs /\ HistIsRun(histRun)
  BY <1>1 DEF CompactForRequest, HistAt, HistRuns
<1>4. PICK cont : Says([HistEvent("continuation", histRun.turn) EXCEPT !.cont = cont]) /\ histRun' = HistSumming(cont)
  BY DEF CompactForRequest, HistSumming
<1> PICK e : e = [HistEvent("continuation", histRun.turn) EXCEPT !.cont = cont]
  OBVIOUS
<1>5. Says(e) /\ e.kind = "continuation" /\ e.turn = histRun.turn
  BY <1>4, HistEventIs
<1>6. "continuation" \in HistKinds \ {"checkpoint", "note"} /\ "continuation" \notin EndKinds
  BY DEF HistKinds, EndKinds
<1>7. HistIsCall(histRun', histRun.pc, histRun.turn)
  BY <1>3, <1>4, HistRunIs
<1> QED
  BY <1>1, <1>2, <1>3, <1>5, <1>6, <1>7, HistActs

LEMMA HistLoadTemplate ==
    ASSUME HistInv, LoadTemplate
    PROVE  HistInv'
<1>1. PICK k \in 0 .. HistMaxTurns : HistWell(histLog, k) /\ HistRuns(k)
  BY DEF HistInv
<1>2. histFaults' \in 0 .. HistMaxFaults /\ UNCHANGED histLog
  BY HistFaultsStay DEF HistInv, LoadTemplate
<1>3. histRun.pc \notin {"idle"} /\ HistIsRun(histRun)
  BY <1>1 DEF LoadTemplate, HistAt, HistRuns
<1>4. {"idle", "load", "loop", "review", "blocked"} \subseteq HistPcs
  BY DEF HistPcs
<1>5. PICK pc \in {"loop", "review"} : \E m, c : histRun' = HistLoaded(pc, m, c)
  BY DEF LoadTemplate, HistLoaded
<1>6. HistIsCall(histRun', pc, histRun.turn)
  <2>1. PICK m, c : histRun' = HistLoaded(pc, m, c)
    BY <1>5
  <2> QED
    BY <1>3, <2>1, HistRunIs
<1>7. histRun.pc \notin {"save", "saveFresh"}
  BY DEF LoadTemplate
<1> QED
  BY <1>1, <1>2, <1>3, <1>4, <1>6, <1>7, HistWaits

LEMMA HistBlockTurn ==
    ASSUME HistInv, BlockTurn
    PROVE  HistInv'
<1>1. PICK k \in 0 .. HistMaxTurns : HistWell(histLog, k) /\ HistRuns(k)
  BY DEF HistInv
<1>2. histFaults' \in 0 .. HistMaxFaults /\ UNCHANGED histLog
  BY HistFaultsStay DEF HistInv, BlockTurn
<1>3. histRun.pc \notin {"idle"} /\ HistIsRun(histRun)
  BY <1>1 DEF BlockTurn, HistAt, HistRuns
<1>4. {"idle", "load", "loop", "review", "blocked"} \subseteq HistPcs
  BY DEF HistPcs
<1>5. histRun' = HistCallOf("blocked", histRun.turn)
  BY DEF BlockTurn, HistCallOf
<1>6. HistIsCall(histRun', "blocked", histRun.turn)
  BY <1>5, HistIdleIs
<1>7. histRun.pc \notin {"save", "saveFresh"}
  BY DEF BlockTurn
<1> QED
  BY <1>1, <1>2, <1>3, <1>4, <1>6, <1>7, HistWaits

LEMMA HistResumeTurn ==
    ASSUME HistInv, ResumeTurn
    PROVE  HistInv'
<1>1. PICK k \in 0 .. HistMaxTurns : HistWell(histLog, k) /\ HistRuns(k)
  BY DEF HistInv
<1>2. histFaults' \in 0 .. HistMaxFaults /\ UNCHANGED histLog
  BY HistFaultsStay DEF HistInv, ResumeTurn
<1>3. histRun.pc \notin {"idle"} /\ HistIsRun(histRun)
  BY <1>1 DEF ResumeTurn, HistAt, HistRuns
<1>4. {"idle", "load", "loop", "review", "blocked"} \subseteq HistPcs
  BY DEF HistPcs
<1>5. PICK n : histRun' = HistBackAt("load", n)
  BY DEF ResumeTurn, HistBackAt
<1>6. HistIsCall(histRun', "load", histRun.turn)
  BY <1>3, <1>5, HistRunIs
<1>7. histRun.pc \notin {"save", "saveFresh"}
  BY DEF ResumeTurn, HistAt
<1> QED
  BY <1>1, <1>2, <1>3, <1>4, <1>6, <1>7, HistWaits

LEMMA HistCrashHistory ==
    ASSUME HistInv, CrashHistory
    PROVE  HistInv'
<1>1. PICK k \in 0 .. HistMaxTurns : HistWell(histLog, k) /\ HistRuns(k)
  BY DEF HistInv
<1>2. histFaults' \in 0 .. HistMaxFaults /\ UNCHANGED histLog
  BY HistFaultsStay DEF HistInv, CrashHistory
<1>3. histRun.pc \notin {"idle"} /\ HistIsRun(histRun)
  BY <1>1 DEF CrashHistory, HistAt, HistRuns
<1>4. {"idle", "load", "loop", "review", "blocked"} \subseteq HistPcs
  BY DEF HistPcs
<1>5. HistIsCall(histRun', "idle", 0)
  BY HistIdleIs DEF CrashHistory
<1> QED
  BY <1>1, <1>2, <1>3, <1>4, <1>5, HistWaits

LEMMA HistSaveCheckpoint ==
    ASSUME HistInv, SaveCheckpoint
    PROVE  HistInv'
<1>1. PICK k \in 0 .. HistMaxTurns : HistWell(histLog, k) /\ HistRuns(k)
  BY DEF HistInv
<1>2. histFaults' \in 0 .. HistMaxFaults
  BY DEF HistInv, SaveCheckpoint
<1>3. HistIsCall(histRun', "idle", 0) /\ "idle" \in HistPcs
  BY HistIdleIs DEF SaveCheckpoint, HistPcs
<1>4. CASE UNCHANGED histLog
  BY <1>1, <1>2, <1>3, <1>4, HistWaits
<1>5. CASE ~UNCHANGED histLog
  <2>1. PICK saved : Says([HistEvent("checkpoint", 0) EXCEPT !.saved = saved])
    BY <1>5 DEF SaveCheckpoint
  <2> PICK e : e = [HistEvent("checkpoint", 0) EXCEPT !.saved = saved]
    OBVIOUS
  <2>2. Says(e) /\ e.kind = "checkpoint" /\ e.turn = 0
    BY <2>1, HistEventIs
  <2>3. HistAdds(histLog, k, e) /\ 0 # k + 1
    BY <2>2, HistNow DEF HistAdds, HistKinds
  <2>4. HistWell(histLog, k)'
    BY <2>2, <2>3, <1>1, HistSaysOne
  <2> QED
    BY <1>2, <1>3, <2>4, HistFollows DEF HistIsCall
<1> QED
  BY <1>4, <1>5

LEMMA HistNoteBackground ==
    ASSUME HistInv, NoteBackground
    PROVE  HistInv'
<1>1. PICK k \in 0 .. HistMaxTurns : HistWell(histLog, k) /\ HistRuns(k)
  BY DEF HistInv
<1>2. histFaults' \in 0 .. HistMaxFaults /\ histRun' = histRun
  BY DEF HistInv, NoteBackground
<1>3. PICK t \in HistTurns : Says(HistEvent("note", t))
  BY DEF NoteBackground
<1> PICK e : e = HistEvent("note", t)
  OBVIOUS
<1>4. Says(e) /\ e.kind = "note" /\ e.turn = t
  BY <1>3, HistEventIs
<1>5. t \in 1 .. k /\ k \in Nat
  BY <1>1, HistNow
<1>6. HistAdds(histLog, k, e) /\ e.turn # k + 1
  BY <1>4, <1>5 DEF HistAdds, HistKinds
<1>7. HistWell(histLog, k)' /\ (HistEnded(histLog, k)' <=> HistEnded(histLog, k))
  BY <1>1, <1>4, <1>6, HistSaysOne, HistKindsAre
<1>8. histRun.pc # "idle" => k # 0 /\ (HistEnded(histLog, k) <=> histRun.pc \in {"save", "saveFresh"})
  BY <1>1 DEF HistRuns, HistAt
<1>9. histRun.pc \in HistPcs /\ HistIsRun(histRun) /\ histRun.turn = IF histRun.pc = "idle" THEN 0 ELSE k
  BY <1>1 DEF HistRuns, HistAt
<1> QED
  BY <1>2, <1>7, <1>8, <1>9, HistFollows

(* Several events at once, of which the last may end the turn.                    *)
LEMMA HistMore ==
    ASSUME NEW log, NEW k \in Nat \ {0}, HistWell(log, k), ~HistEnded(log, k),
           NEW e, e.kind \in HistKinds \ {"checkpoint", "note"}, e.turn = k
    PROVE  HistWell(Append(log, e), k) /\ (HistEnded(Append(log, e), k) <=> e.kind \in EndKinds)
<1>1. HistAdds(log, k, e) /\ e.turn # k + 1
  BY DEF HistAdds
<1> QED
  BY <1>1, HistOneMore

LEMMA HistAppendedAll ==
    ASSUME NEW log, NEW S, log \in Seq(S), NEW d, NEW e, NEW f
    PROVE  /\ log \o <<d, e>> = Append(Append(log, d), e)
           /\ log \o <<d, e, f>> = Append(Append(Append(log, d), e), f)
<1> DEFINE T == S \cup {d, e, f}
<1>1. log \in Seq(T) /\ d \in T /\ e \in T /\ f \in T
  BY SeqMonotonic
<1> HIDE DEF T
<1>2. /\ Append(log, d) \in Seq(T) /\ Append(Append(log, d), e) \in Seq(T)
      /\ Append(Append(Append(log, d), e), f) \in Seq(T)
  BY <1>1, AppendProperties
<1>3. <<d, e>> \in Seq(T) /\ <<d, e, f>> \in Seq(T)
  BY <1>1
<1>4. log \o <<d, e>> \in Seq(T) /\ log \o <<d, e, f>> \in Seq(T)
  BY <1>1, <1>3, ConcatProperties
<1>5. log \o <<d, e>> = Append(Append(log, d), e)
  BY <1>1, <1>2, <1>3, <1>4
<1>6. log \o <<d, e, f>> = Append(Append(Append(log, d), e), f)
  BY <1>1, <1>2, <1>3, <1>4
<1> QED
  BY <1>5, <1>6

LEMMA HistEndShell ==
    ASSUME HistInv, EndShell
    PROVE  HistInv'
<1>1. PICK k \in 0 .. HistMaxTurns : HistWell(histLog, k) /\ HistRuns(k)
  BY DEF HistInv
<1>2. histFaults' \in 0 .. HistMaxFaults
  BY HistFaultsStay DEF HistInv, EndShell
<1>3. histRun.pc \notin {"idle", "save", "saveFresh"} /\ histRun.turn = k /\ k # 0 /\ k \in Nat
      /\ ~HistEnded(histLog, k)
  BY <1>1, HistNow DEF EndShell, HistAt, HistRuns
<1>4. HistIsCall(histRun', "idle", 0) /\ "idle" \in HistPcs
  BY HistIdleIs DEF EndShell, HistPcs
<1>5. ASSUME NEW kind \in {"error", "canceled"}, Says(HistEvent(kind, histRun.turn))
      PROVE  HistInv'
  <2> PICK e : e = HistEvent(kind, histRun.turn)
    OBVIOUS
  <2>1. Says(e) /\ e.kind = kind /\ e.turn = histRun.turn
    BY <1>5, HistEventIs
  <2>2. kind \in HistKinds \ {"checkpoint", "note"}
    BY DEF HistKinds
  <2> QED
    BY <1>1, <1>2, <1>3, <1>4, <2>1, <2>2, HistActs
<1>6. ASSUME SaysAll(<<HistEvent("entry", histRun.turn), HistEvent("done", histRun.turn)>>)
      PROVE  HistInv'
  <2> PICK d : d = HistEvent("entry", histRun.turn)
    OBVIOUS
  <2> PICK e : e = HistEvent("done", histRun.turn)
    OBVIOUS
  <2>1. d.kind = "entry" /\ d.turn = k /\ e.kind = "done" /\ e.turn = k
    BY <1>3, HistEventIs
  <2>2. {d.kind, e.kind} \subseteq HistKinds \ {"checkpoint", "note"} /\ d.kind \notin EndKinds
    BY <2>1 DEF HistKinds, EndKinds
  <2>3. PICK log : log = histLog
    OBVIOUS
  <2>4. histLog' = Append(Append(log, d), e)
    <3>1. histLog' = log \o <<d, e>>
      BY <1>6, <2>3 DEF SaysAll
    <3>2. PICK S : log \in Seq(S)
      BY <1>1, <2>3 DEF HistWell, HistLogTyped
    <3> QED
      BY <3>1, <3>2, HistAppendedAll
  <2>5. HistWell(log, k) /\ ~HistEnded(log, k)
    BY <1>1, <1>3, <2>3
  <2>6. HistWell(Append(log, d), k) /\ ~HistEnded(Append(log, d), k)
    BY <1>3, <2>1, <2>2, <2>5, HistMore
  <2>7. HistWell(Append(Append(log, d), e), k)
    BY <1>3, <2>1, <2>2, <2>6, HistMore
  <2>8. HistWell(histLog, k)'
    BY <2>4, <2>7
  <2> QED
    BY <1>2, <1>4, <2>8, HistFollows DEF HistIsCall
<1> QED
  BY <1>5, <1>6 DEF EndShell

LEMMA HistEndCompact ==
    ASSUME HistInv, EndCompact
    PROVE  HistInv'
<1>1. PICK k \in 0 .. HistMaxTurns : HistWell(histLog, k) /\ HistRuns(k)
  BY DEF HistInv
<1>2. histFaults' \in 0 .. HistMaxFaults
  BY HistFaultsStay DEF HistInv, EndCompact
<1>3. histRun.pc \notin {"idle", "save", "saveFresh"} /\ histRun.turn = k /\ k # 0 /\ k \in Nat
      /\ ~HistEnded(histLog, k) /\ HistIsRun(histRun)
  BY <1>1, HistNow DEF EndCompact, HistAt, HistRuns
<1>4. ASSUME Says(HistEvent("error", histRun.turn)), histRun' = IdleRun
      PROVE  HistInv'
  <2>1. HistIsCall(histRun', "idle", 0) /\ "idle" \in HistPcs
    BY <1>4, HistIdleIs DEF HistPcs
  <2> PICK e : e = HistEvent("error", histRun.turn)
    OBVIOUS
  <2>2. Says(e) /\ e.kind = "error" /\ e.turn = histRun.turn
    BY <1>4, HistEventIs
  <2>3. "error" \in HistKinds \ {"checkpoint", "note"}
    BY DEF HistKinds
  <2> QED
    BY <1>1, <1>2, <1>3, <2>1, <2>2, <2>3, HistActs
<1>5. ASSUME NEW cont,
             SaysAll(<<[HistEvent("continuation", histRun.turn) EXCEPT !.cont = cont],
                       HistEvent("pruned", histRun.turn), HistEvent("done", histRun.turn)>>),
             histRun' = [histRun EXCEPT !.pc = "saveFresh"]
      PROVE  HistInv'
  <2> PICK d : d = [HistEvent("continuation", histRun.turn) EXCEPT !.cont = cont]
    OBVIOUS
  <2> PICK e : e = HistEvent("pruned", histRun.turn)
    OBVIOUS
  <2> PICK f : f = HistEvent("done", histRun.turn)
    OBVIOUS
  <2>1. /\ d.kind = "continuation" /\ d.turn = k /\ e.kind = "pruned" /\ e.turn = k
        /\ f.kind = "done" /\ f.turn = k
    BY <1>3, HistEventIs
  <2>2. /\ {d.kind, e.kind, f.kind} \subseteq HistKinds \ {"checkpoint", "note"}
        /\ d.kind \notin EndKinds /\ e.kind \notin EndKinds /\ f.kind \in EndKinds
    BY <2>1 DEF HistKinds, EndKinds
  <2>3. PICK log : log = histLog
    OBVIOUS
  <2>4. histLog' = Append(Append(Append(log, d), e), f)
    <3>1. histLog' = log \o <<d, e, f>>
      BY <1>5, <2>3 DEF SaysAll
    <3>2. PICK S : log \in Seq(S)
      BY <1>1, <2>3 DEF HistWell, HistLogTyped
    <3> QED
      BY <3>1, <3>2, HistAppendedAll, SMTT(60)
  <2>5. HistWell(log, k) /\ ~HistEnded(log, k)
    BY <1>1, <1>3, <2>3
  <2>6. HistWell(Append(log, d), k) /\ ~HistEnded(Append(log, d), k)
    BY <1>3, <2>1, <2>2, <2>5, HistMore
  <2>7. HistWell(Append(Append(log, d), e), k) /\ ~HistEnded(Append(Append(log, d), e), k)
    BY <1>3, <2>1, <2>2, <2>6, HistMore
  <2>8. /\ HistWell(Append(Append(Append(log, d), e), f), k)
        /\ HistEnded(Append(Append(Append(log, d), e), f), k)
    BY <1>3, <2>1, <2>2, <2>7, HistMore
  <2>9. HistWell(histLog, k)' /\ HistEnded(histLog, k)'
    BY <2>4, <2>8
  <2>10. HistIsCall(histRun', "saveFresh", k) /\ "saveFresh" \in HistPcs
    <3>1. histRun' = HistMoved("saveFresh")
      BY <1>5 DEF HistMoved
    <3> QED
      BY <1>3, <3>1, HistRunIs DEF HistPcs
  <2> QED
    BY <1>2, <1>3, <2>9, <2>10, HistFollows DEF HistIsCall
<1> QED
  BY <1>4, <1>5 DEF EndCompact

LEMMA HistInvInit == HistInit => HistInv
<1> SUFFICES ASSUME HistInit PROVE HistInv
  OBVIOUS
<1>1. 0 \in 0 .. HistMaxTurns /\ 0 \in 0 .. HistMaxFaults /\ 1 .. 0 = {} /\ histLog = <<>>
  BY HistAssumption DEF HistInit
<1>2. HistWell(<<>>, 0)
  <2>1. <<>> \in Seq({}) /\ Len(<<>>) = 0 /\ 1 .. 0 = {}
    OBVIOUS
  <2> QED
    BY <2>1 DEF HistWell, HistLogTyped, HistNumbered, HistOrdered, HistEndsOnce
<1>3. HistRuns(0)
  BY HistIdleIs DEF HistInit, HistRuns, HistAt, HistIsCall, HistPcs
<1> QED
  BY <1>1, <1>2, <1>3 DEF HistInv, HistInit

LEMMA HistInvStep == HistInv /\ [HistNext]_histVars => HistInv'
<1> SUFFICES ASSUME HistInv, [HistNext]_histVars PROVE HistInv'
  OBVIOUS
<1>1. CASE UNCHANGED histVars
  BY <1>1 DEF histVars, HistInv, HistRuns, HistAt
<1>2. CASE HistNext
  BY <1>2, HistStartTurn, HistContinueTurn, HistRecordFailure, HistLoadTemplate,
     HistCompactForRequest, HistCompactionFails, HistAnswer, HistCompleteTurn, HistRollOverReview,
     HistFailTurn, HistCancelTurnRun, HistBlockTurn, HistResumeTurn, HistSaveCheckpoint,
     HistEndShell, HistStartCompact, HistEndCompact, HistNoteBackground, HistCrashHistory
     DEF HistNext
<1> QED
  BY <1>1, <1>2

LEMMA HistIsTyped == HistInv => HistTypeOK
<1> SUFFICES ASSUME HistInv PROVE HistTypeOK
  OBVIOUS
<1>1. PICK k \in 0 .. HistMaxTurns : HistWell(histLog, k) /\ HistRuns(k)
  BY DEF HistInv
<1>2. /\ DOMAIN histLog = 1 .. Len(histLog) /\ HistTurns = 1 .. k
      /\ k \in Nat /\ HistMaxTurns \in Nat
  BY <1>1, HistNow
<1>3. ASSUME NEW n \in DOMAIN histLog
      PROVE  histLog[n].kind \in HistKinds /\ histLog[n].turn \in 0 .. HistMaxTurns
  <2>1. histLog[n].kind \in HistKinds
    BY <1>1, <1>2 DEF HistWell, HistLogTyped
  <2>2. histLog[n].turn = 0 \/ histLog[n].turn \in 1 .. k
    BY <1>2 DEF HistTurns
  <2> QED
    BY <1>2, <2>1, <2>2
<1>4. histRun.turn \in 0 .. HistMaxTurns
  BY <1>1, <1>2 DEF HistRuns
<1> QED
  BY <1>1, <1>3, <1>4 DEF HistTypeOK, HistKinds, HistPcs, HistRuns, HistInv

THEOREM HistTypeCorrect == HistSpec => []HistTypeOK
<1>1. HistInit => HistInv
  BY HistInvInit
<1>2. HistInv /\ [HistNext]_histVars => HistInv'
  BY HistInvStep
<1>3. HistInv => HistTypeOK
  BY HistIsTyped
<1> QED
  BY <1>1, <1>2, <1>3, PTL DEF HistSpec

------------------------------------------------------------------------------
(* The invariant of the specification.                                            *)
HistKept == HistFine(histLog, histRun)

HistSame(r, q) == r.turn = q.turn /\ r.after = q.after /\ r.template = q.template /\ r.cont = q.cont
HistMoveTo(q, a) == [q EXCEPT !.pc = a]
HistMarkFailed(q) == [q EXCEPT !.failed = TRUE]
HistPutLoaded(q, a, b, c) == [q EXCEPT !.pc = a, !.template = b, !.cont = c]
HistPutBack(q, a, b) == [q EXCEPT !.pc = a, !.after = b]
HistPutSummary(q, a) == [q EXCEPT !.cont = a]
HistIsAt(r, q, a) == HistSame(r, q) /\ r.pc = a
HistIsLoaded(r, q, a, b, c) == r.pc = a /\ r.turn = q.turn /\ r.after = q.after /\ r.template = b /\ r.cont = c
HistIsBack(r, q, a, b) == r.pc = a /\ r.turn = q.turn /\ r.after = b /\ r.template = q.template /\ r.cont = q.cont
HistIsSumming(r, q, a) ==
    r.pc = q.pc /\ r.turn = q.turn /\ r.after = q.after /\ r.template = q.template /\ r.cont = a
LEMMA HistMoveToIs ==
    ASSUME NEW q, HistIsRun(q), NEW a
    PROVE  HistIsAt(HistMoveTo(q, a), q, a)
<1>1. PICK p, t, f, m, s, x :
         q = [pc |-> p, turn |-> t, after |-> f, template |-> m, cont |-> s, failed |-> x]
  BY DEF HistIsRun
<1> QED
  BY <1>1 DEF HistSame, HistIsAt, HistMoveTo
LEMMA HistMarkFailedIs ==
    ASSUME NEW q, HistIsRun(q)
    PROVE  HistIsAt(HistMarkFailed(q), q, q.pc)
<1>1. PICK p, t, f, m, s, x :
         q = [pc |-> p, turn |-> t, after |-> f, template |-> m, cont |-> s, failed |-> x]
  BY DEF HistIsRun
<1> QED
  BY <1>1 DEF HistSame, HistIsAt, HistMarkFailed
LEMMA HistPutLoadedIs ==
    ASSUME NEW q, HistIsRun(q), NEW a, NEW b, NEW c
    PROVE  HistIsLoaded(HistPutLoaded(q, a, b, c), q, a, b, c)
<1>1. PICK p, t, f, m, s, x :
         q = [pc |-> p, turn |-> t, after |-> f, template |-> m, cont |-> s, failed |-> x]
  BY DEF HistIsRun
<1> QED
  BY <1>1 DEF HistIsLoaded, HistPutLoaded
LEMMA HistPutBackIs ==
    ASSUME NEW q, HistIsRun(q), NEW a, NEW b
    PROVE  HistIsBack(HistPutBack(q, a, b), q, a, b)
<1>1. PICK p, t, f, m, s, x :
         q = [pc |-> p, turn |-> t, after |-> f, template |-> m, cont |-> s, failed |-> x]
  BY DEF HistIsRun
<1> QED
  BY <1>1 DEF HistIsBack, HistPutBack
LEMMA HistPutSummaryIs ==
    ASSUME NEW q, HistIsRun(q), NEW a
    PROVE  HistIsSumming(HistPutSummary(q, a), q, a)
<1>1. PICK p, t, f, m, s, x :
         q = [pc |-> p, turn |-> t, after |-> f, template |-> m, cont |-> s, failed |-> x]
  BY DEF HistIsRun
<1> QED
  BY <1>1 DEF HistIsSumming, HistPutSummary

HistIsFresh(r, a, b, c) ==
    r.pc = a /\ r.turn = b /\ r.after = c /\ r.template \in Hists /\ r.cont \in HistConts
LEMMA HistNothing == NoHistory \in Hists /\ NoSummary \in HistConts
<1>1. LatestCheckpoint(<<>>) = NoHistory /\ LatestCheckpoint(<<>>) \in Hists
  <2>1. <<>> \in Seq(HistEvents) /\ Len(<<>>) = 0
    OBVIOUS
  <2>2. HistMarks(<<>>) = {}
    BY <2>1 DEF HistMarks
  <2> QED
    BY <2>1, <2>2, HistLatestIs
<1> QED
  BY <1>1 DEF NoSummary, HistConts
LEMMA HistFreshIs ==
    ASSUME NEW a, NEW b, NEW c, NEW h
    PROVE  /\ HistIsFresh(HistCallAfter(a, b, c), a, b, c)
           /\ HistIsFresh(HistCallOf(a, b), a, b, 0)
           /\ HistIsLoaded(HistCallWith(a, b, h), HistCallOf(a, b), a, h, NoSummary)
<1>1. IdleRun = [pc |-> "idle", turn |-> 0, after |-> 0, template |-> NoHistory, cont |-> NoSummary, failed |-> FALSE]
  BY DEF IdleRun
<1>2. PICK m, s : m = NoHistory /\ s = NoSummary /\ m \in Hists /\ s \in HistConts
  BY HistNothing
<1>3. HistIsFresh(HistCallAfter(a, b, c), a, b, c)
  BY <1>1, <1>2 DEF HistIsFresh, HistCallAfter
<1>4. HistIsFresh(HistCallOf(a, b), a, b, 0)
  BY <1>1, <1>2 DEF HistIsFresh, HistCallOf
<1>6. HistIsLoaded(HistCallWith(a, b, h), HistCallOf(a, b), a, h, NoSummary)
  BY <1>1 DEF HistIsLoaded, HistCallWith, HistCallOf
<1> QED
  BY <1>3, <1>4, <1>6
LEMMA HistIdleFresh == HistIsFresh(IdleRun, "idle", 0, 0)
<1>1. IdleRun = [pc |-> "idle", turn |-> 0, after |-> 0, template |-> NoHistory, cont |-> NoSummary, failed |-> FALSE]
  BY DEF IdleRun
<1>2. PICK m, s : m = NoHistory /\ s = NoSummary /\ m \in Hists /\ s \in HistConts
  BY HistNothing
<1> QED
  BY <1>1, <1>2 DEF HistIsFresh

(* Where a step starts.                                                           *)
HistStands(k) ==
    /\ k \in 0 .. HistMaxTurns /\ k \in Nat /\ HistRuns(k) /\ HistGiven(histLog, histRun, k)
    /\ HistIsRun(histRun) /\ histLog \in Seq(HistEvents) /\ histRun.template \in Hists /\ histRun.cont \in HistConts
    /\ NewTurn = k + 1 /\ DOMAIN histLog = 1 .. Len(histLog) /\ Len(histLog) \in Nat
    /\ histRun.pc # "idle" => histRun.turn = k /\ k # 0
    /\ histRun.pc \notin {"idle", "save", "saveFresh"} => ~HistEnded(histLog, k)
    /\ histRun.pc \in {"save", "saveFresh"} => HistEnded(histLog, k)
LEMMA HistStandsAt ==
    ASSUME HistInv, HistKept
    PROVE  \E k : HistStands(k)
<1>1. PICK k \in 0 .. HistMaxTurns : HistWell(histLog, k) /\ HistRuns(k)
  BY DEF HistInv
<1>2. k \in Nat /\ NewTurn = k + 1 /\ DOMAIN histLog = 1 .. Len(histLog) /\ Len(histLog) \in Nat
  BY <1>1, HistNow
<1>3. HistGiven(histLog, histRun, k)
  BY <1>1, <1>2 DEF HistKept, HistGiven
<1>4. histLog \in Seq(HistEvents) /\ histRun.template \in Hists /\ histRun.cont \in HistConts
  BY DEF HistKept, HistFine
<1>5. /\ HistIsRun(histRun) /\ (histRun.pc # "idle" => histRun.turn = k /\ k # 0)
      /\ (histRun.pc \notin {"idle", "save", "saveFresh"} => ~HistEnded(histLog, k))
      /\ (histRun.pc \in {"save", "saveFresh"} => HistEnded(histLog, k))
  BY <1>1 DEF HistRuns, HistAt
<1> QED
  BY <1>1, <1>2, <1>3, <1>4, <1>5 DEF HistStands

LEMMA HistKeeps ==
    ASSUME NEW log, log = histLog', NEW run, run = histRun', NEW k, HistGiven(log, run, k)
    PROVE  HistKept'
<1>1. HistFine(log, run)
  BY DEF HistGiven
<1> QED
  BY <1>1 DEF HistKept

LEMMA HistSaysIs ==
    ASSUME NEW log \in Seq(HistEvents), NEW e
    PROVE  log \o <<e>> = Append(log, e)
<1>1. log \in Seq(HistEvents \cup {e}) /\ e \in HistEvents \cup {e}
  BY SeqMonotonic
<1> QED
  BY <1>1, AppendIsConcat

------------------------------------------------------------------------------
(* The steps of the turn that runs.                                               *)
LEMMA HistFineSame ==
    ASSUME NEW log, NEW run, NEW last, HistGiven(log, run, last), NEW run2, HistSame(run2, run), run2.pc = run.pc
    PROVE  HistGiven(log, run2, last)
<1>1. HistPast(log, run, last) /\ run.template \in Hists /\ run.cont \in HistConts
  BY HistGivenIs
<1>2. PICK b, k : HistBased(log, b, k, last) /\ HistCall(log, run, LatestCheckpoint(log), b, k, last)
  BY <1>1 DEF HistPast
<1>3. HistCall(log, run2, LatestCheckpoint(log), b, k, last)
  BY <1>2 DEF HistCall, HistSame
<1>4. HistPast(log, run2, last)
  BY <1>1, <1>2, <1>3 DEF HistPast
<1> QED
  BY <1>1, <1>4, HistFineRuns DEF HistSame

LEMMA HistPlainEvent ==
    ASSUME NEW kind \in HistKinds, NEW t \in Nat
    PROVE  HistEvent(kind, t) \in HistEvents /\ HistEvent(kind, t).kind = kind /\ HistEvent(kind, t).turn = t
BY HistNothing, HistEventTyped

HistDoes(log, run, last, kind) ==
    /\ HistGiven(log, run, last) /\ (HistEnded(log, last) <=> kind \in EndKinds)
    /\ \E n \in 1 .. Len(log) : log[n].turn = last /\ log[n].kind = kind
LEMMA HistDoesSo ==
    ASSUME NEW log, NEW run, NEW last, HistGiven(log, run, last), run.pc # "idle", last # 0, ~HistEnded(log, last),
           NEW kind \in {"entry", "done", "rolled", "canceled", "error", "pruned"}
    PROVE  HistDoes(Append(log, HistEvent(kind, last)), run, last, kind)
<1>0. PICK log2 : log2 = Append(log, HistEvent(kind, last))
  OBVIOUS
<1>1. log \in Seq(HistEvents) /\ last \in Nat
  BY HistGivenIs
<1>2. PICK e : e = HistEvent(kind, last)
  OBVIOUS
<1>3. e \in HistEvents /\ e.kind = kind /\ e.turn = last
  <2>1. kind \in HistKinds /\ NoSummary \in HistConts
    BY DEF HistKinds, NoSummary, HistConts
  <2>2. LatestCheckpoint(log) \in Hists
    BY <1>1, HistLatestIs
  <2> QED
    BY <1>1, <1>2, <2>1, <2>2, HistEventTyped
<1>4. HistAdds(log, last, e)
  BY <1>3 DEF HistAdds, HistKinds
<1>5. log2 = Append(log, e) /\ e.turn # last + 1
  BY <1>0, <1>1, <1>2, <1>3
<1> HIDE <1>2
<1>6. HistGiven(log2, run, last)
  BY <1>3, <1>4, <1>5, HistFineSays
<1>7. HistEnded(log2, last) <=> kind \in EndKinds
  <2>1. HistWell(log, last)
    BY DEF HistGiven
  <2>2. \A t : HistEnded(Append(log, e), t) <=> HistEnded(log, t) \/ (e.turn = t /\ e.kind \in EndKinds)
    BY <1>1, <1>4, <2>1, HistOneMore
  <2> QED
    BY <1>3, <1>5, <2>2
<1>8. Len(log2) = Len(log) + 1 /\ Len(log) \in Nat /\ log2[Len(log) + 1] = e
  BY <1>1, <1>3, <1>5, AppendProperties
<1>9. \E n \in 1 .. Len(log2) : log2[n].turn = last /\ log2[n].kind = kind
  <2>1. Len(log) + 1 \in 1 .. Len(log2)
    BY <1>8
  <2> QED
    BY <1>3, <1>8, <2>1
<1> HIDE <1>0
<1>10. HistDoes(log2, run, last, kind)
  BY <1>6, <1>7, <1>9 DEF HistDoes
<1> QED
  BY <1>0, <1>10

LEMMA HistActed ==
    ASSUME NEW k, HistStands(k), histRun.pc \notin {"idle", "save", "saveFresh"},
           NEW kind \in {"entry", "done", "rolled", "canceled", "error", "pruned"},
           Says(HistEvent(kind, histRun.turn)), NEW log, log = histLog'
    PROVE  HistGiven(log, histRun, k) /\ \E n \in 1 .. Len(log) : log[n].turn = k /\ log[n].kind = kind
<1>1. PICK old, run : old = histLog /\ run = histRun
  OBVIOUS
<1>2. /\ HistGiven(old, run, k) /\ run.pc # "idle" /\ run.turn = k /\ k # 0 /\ ~HistEnded(old, k)
      /\ old \in Seq(HistEvents)
  BY <1>1 DEF HistStands
<1>3. log = Append(old, HistEvent(kind, k))
  <2>1. log = old \o <<HistEvent(kind, k)>>
    BY <1>1, <1>2 DEF Says, SaysAll
  <2> QED
    BY <1>2, <2>1, HistSaysIs
<1>4. HistDoes(log, run, k, kind)
  <2>1. HistDoes(Append(old, HistEvent(kind, k)), run, k, kind)
    BY <1>2, HistDoesSo
  <2> QED
    BY <1>3, <2>1
<1>5. /\ HistGiven(log, run, k)
      /\ \E n \in 1 .. Len(log) : log[n].turn = k /\ log[n].kind = kind
  BY <1>4 DEF HistDoes
<1> QED
  BY <1>1, <1>5

LEMMA HistLeft ==
    ASSUME NEW k, NEW q, q = histRun, NEW log, log = histLog', HistGiven(log, q, k),
           NEW run, run = histRun', run.template \in Hists, run.cont \in HistConts,
           run.pc = "idle" \/ (run.pc \in {"blocked", "saveFresh"} /\ q.pc # "idle" /\ run.turn = q.turn)
    PROVE  HistKept'
<1>1. HistGiven(log, run, k)
  BY HistFineLeaves
<1> QED
  BY <1>1, HistKeeps

LEMMA HistKeepsRecordFailure ==
    ASSUME HistInv, HistKept, RecordFailure \/ CancelTurnRun
    PROVE  HistKept'
<1>1. PICK k : HistStands(k)
  BY HistStandsAt
<1>2. PICK q, log, run : q = histRun /\ log = histLog' /\ run = histRun'
  OBVIOUS
<1>3. PICK kind \in {"error", "canceled"} : Says(HistEvent(kind, histRun.turn))
  BY DEF RecordFailure, CancelTurnRun
<1>4. histRun.pc \notin {"idle", "save", "saveFresh"} /\ run = IdleRun
  BY <1>2 DEF RecordFailure, CancelTurnRun
<1>5. HistGiven(log, q, k)
  BY <1>1, <1>2, <1>3, <1>4, HistActed
<1>6. HistIsFresh(run, "idle", 0, 0)
  BY <1>4, HistIdleFresh
<1> QED
  BY <1>2, <1>5, <1>6, HistLeft DEF HistIsFresh

LEMMA HistKeepsFailTurn ==
    ASSUME HistInv, HistKept, FailTurn
    PROVE  HistKept'
<1>1. PICK k : HistStands(k)
  BY HistStandsAt
<1>2. PICK q, log, run : q = histRun /\ log = histLog' /\ run = histRun'
  OBVIOUS
<1>3. Says(HistEvent("error", histRun.turn)) /\ run = HistMoveTo(q, "saveFresh")
  BY <1>2 DEF FailTurn, HistMoveTo
<1>4. histRun.pc \notin {"idle", "save", "saveFresh"}
  BY DEF FailTurn
<1>5. HistGiven(log, q, k)
  BY <1>1, <1>2, <1>3, <1>4, HistActed
<1>6. HistSame(run, q) /\ run.pc = "saveFresh"
  BY <1>1, <1>2, <1>3, HistMoveToIs DEF HistStands, HistIsAt
<1>7. run.template \in Hists /\ run.cont \in HistConts /\ q.pc # "idle" /\ run.turn = q.turn
  BY <1>1, <1>2, <1>4, <1>6 DEF HistStands, HistSame
<1> QED
  BY <1>2, <1>5, <1>6, <1>7, HistLeft

LEMMA HistKeepsCompleteTurn ==
    ASSUME HistInv, HistKept, CompleteTurn \/ RollOverReview
    PROVE  HistKept'
<1>1. PICK k : HistStands(k)
  BY HistStandsAt
<1>2. PICK q, log, run : q = histRun /\ log = histLog' /\ run = histRun'
  OBVIOUS
<1>3. PICK kind \in {"done", "rolled"} :
         /\ Says(HistEvent(kind, histRun.turn)) /\ (kind = "rolled" <=> RollOverReview)
  <2>1. CASE RollOverReview
    BY <2>1 DEF RollOverReview
  <2>2. CASE ~RollOverReview
    BY <2>2 DEF CompleteTurn
  <2> QED
    BY <2>1, <2>2
<1>4. histRun.pc \in {"loop", "review"}
  BY DEF CompleteTurn, RollOverReview, HistAt
<1>5. HistGiven(log, q, k) /\ \E n \in 1 .. Len(log) : log[n].turn = k /\ log[n].kind = kind
  BY <1>1, <1>2, <1>3, <1>4, HistActed
<1>6. CASE run = IdleRun
  <2>1. HistIsFresh(run, "idle", 0, 0)
    BY <1>6, HistIdleFresh
  <2> QED
    BY <1>2, <1>5, <2>1, HistLeft DEF HistIsFresh
<1>7. CASE run # IdleRun
  <2>1. run = HistMoveTo(q, "save") /\ (q.pc = "review" => kind = "rolled")
    BY <1>2, <1>3, <1>7 DEF CompleteTurn, RollOverReview, HistAt, HistMoveTo
  <2>2. HistSame(run, q) /\ run.pc = "save"
    BY <1>1, <1>2, <2>1, HistMoveToIs DEF HistStands, HistIsAt
  <2>3. q.pc \in {"loop", "review"} /\ (q.pc = "review" => \E n \in 1 .. Len(log) : log[n].turn = k /\ log[n].kind = "rolled")
    BY <1>2, <1>4, <1>5, <2>1
  <2>4. HistGiven(log, run, k)
    BY <1>5, <2>2, <2>3, HistFineSaves DEF HistSame
  <2> QED
    BY <1>2, <2>4, HistKeeps
<1> QED
  BY <1>6, <1>7

LEMMA HistKeepsAnswer ==
    ASSUME HistInv, HistKept, Answer \/ CompactionFails
    PROVE  HistKept'
<1>1. PICK k : HistStands(k)
  BY HistStandsAt
<1>2. PICK q, log, run : q = histRun /\ log = histLog' /\ run = histRun'
  OBVIOUS
<1>3. PICK kind \in {"entry", "pruned"} : Says(HistEvent(kind, histRun.turn))
  BY DEF Answer, CompactionFails
<1>4. histRun.pc \in {"loop", "review"}
  BY DEF Answer, CompactionFails, HistAt
<1>5. HistGiven(log, q, k)
  BY <1>1, <1>2, <1>3, <1>4, HistActed
<1>6. run = q \/ run = HistMarkFailed(q)
  BY <1>2 DEF Answer, CompactionFails, HistMarkFailed
<1>7. HistSame(run, q) /\ run.pc = q.pc
  <2>1. CASE run = q
    BY <2>1 DEF HistSame
  <2>2. CASE run = HistMarkFailed(q)
    BY <1>1, <1>2, <2>2, HistMarkFailedIs DEF HistStands, HistIsAt
  <2> QED
    BY <1>6, <2>1, <2>2
<1>8. HistGiven(log, run, k)
  BY <1>5, <1>7, HistFineSame
<1> QED
  BY <1>2, <1>8, HistKeeps

------------------------------------------------------------------------------
(* The steps that begin, load and leave a turn.                                   *)
HistStarts(run, e, last, m) ==
    /\ e.turn = last + 1 /\ e.kind \in {"entry", "handoff"}
    /\ run.pc \in {"load", "loadReview", "shell"} /\ run.turn = last + 1
    /\ run.after = m \/ (run.after = m + 1 /\ e.kind = "handoff")
    /\ run.template \in Hists /\ run.cont \in HistConts
LEMMA HistStartsSo ==
    ASSUME NEW log, NEW run, NEW last, HistGiven(log, run, last), NEW e \in HistEvents,
           NEW run2, HistStarts(run2, e, last, Len(log))
    PROVE  HistGiven(Append(log, e), run2, last + 1)
<1>1. PICK log2 : log2 = Append(log, e)
  OBVIOUS
<1>2. /\ e.turn = last + 1 /\ e.kind \in {"entry", "handoff"}
      /\ run2.pc \in {"load", "loadReview", "shell"} /\ run2.turn = last + 1
      /\ run2.after = Len(log) \/ (run2.after = Len(log) + 1 /\ e.kind = "handoff")
      /\ run2.template \in Hists /\ run2.cont \in HistConts
  BY DEF HistStarts
<1>3. HistBeginsWith(log, log2, last, e) /\ HistWell(log2, last + 1) /\ last + 1 \in Nat
  BY <1>1, <1>2, HistFineBegun
<1> HIDE <1>1
<1>4. HistPast(log, run, last)
  BY HistGivenIs
<1>5. HistPast(log2, run2, last + 1)
  BY <1>2, <1>3, <1>4, HistPastBegins
<1>6. log2 \in Seq(HistEvents) /\ HistNumbered(log2, last + 1)
  BY <1>3 DEF HistBeginsWith, HistWell
<1>7. HistFine(log2, run2)
  BY <1>2, <1>3, <1>5, <1>6, HistFineAt
<1>8. HistGiven(log2, run2, last + 1)
  BY <1>3, <1>7 DEF HistGiven
<1> QED
  BY <1>1, <1>8

LEMMA HistKeepsStart ==
    ASSUME HistInv, HistKept, NEW pc \in {"load", "loadReview", "shell"}, StartTurn(pc) \/ ContinueTurn
    PROVE  HistKept'
<1>1. PICK k : HistStands(k)
  BY HistStandsAt
<1>2. PICK old, q, log, run : old = histLog /\ q = histRun /\ log = histLog' /\ run = histRun'
  OBVIOUS
<1>3. HistGiven(old, q, k) /\ old \in Seq(HistEvents) /\ k \in Nat /\ NewTurn = k + 1 /\ Len(old) \in Nat
  BY <1>1, <1>2 DEF HistStands
<1>4. PICK p, kind, a :
         /\ p \in {"load", "loadReview", "shell"} /\ kind \in {"entry", "handoff"}
         /\ log = old \o <<HistEvent(kind, k + 1)>> /\ run = HistCallAfter(p, k + 1, a)
         /\ a = Len(old) \/ (a = Len(log) /\ kind = "handoff")
  <2>1. CASE StartTurn(pc)
    <3>1. log = old \o <<HistEvent("entry", k + 1)>> /\ run = HistCallAfter(pc, k + 1, Len(old))
      BY <1>2, <1>3, <2>1 DEF StartTurn, Says, SaysAll, HistCallAfter
    <3> QED
      BY <3>1
  <2>2. CASE ContinueTurn
    <3>1. log = old \o <<HistEvent("handoff", k + 1)>> /\ run = HistCallAfter("load", k + 1, Len(log))
      BY <1>2, <1>3, <2>2 DEF ContinueTurn, Says, SaysAll, HistCallAfter
    <3> QED
      BY <3>1
  <2> QED
    BY <2>1, <2>2
<1>5. PICK e : e = HistEvent(kind, k + 1)
  OBVIOUS
<1>6. e \in HistEvents /\ e.kind = kind /\ e.turn = k + 1
  <2>1. kind \in HistKinds /\ k + 1 \in Nat
    BY <1>3, <1>4 DEF HistKinds
  <2> QED
    BY <1>5, <2>1, HistPlainEvent
<1>7. log = Append(old, e)
  BY <1>3, <1>4, <1>5, HistSaysIs
<1>8. Len(log) = Len(old) + 1
  BY <1>3, <1>6, <1>7, AppendProperties
<1>9. HistIsFresh(run, p, k + 1, a)
  BY <1>4, HistFreshIs
<1>10. HistStarts(run, e, k, Len(old))
  BY <1>4, <1>6, <1>8, <1>9 DEF HistStarts, HistIsFresh
<1>11. HistGiven(log, run, k + 1)
  <2>1. HistGiven(Append(old, e), run, k + 1)
    BY <1>3, <1>6, <1>10, HistStartsSo
  <2> QED
    BY <1>7, <2>1
<1>12. PICK m : m = k + 1
  OBVIOUS
<1>13. HistGiven(log, run, m)
  BY <1>11, <1>12
<1> QED
  BY <1>2, <1>13, HistKeeps

LEMMA HistKeepsLoad ==
    ASSUME HistInv, HistKept, LoadTemplate
    PROVE  HistKept'
<1>1. PICK k : HistStands(k)
  BY HistStandsAt
<1>2. PICK q, log, run, c : q = histRun /\ log = histLog /\ run = histRun' /\ c = RecordedBy(q.turn)
  OBVIOUS
<1>3. HistGiven(log, q, k) /\ log = histLog' /\ HistIsRun(q) /\ q.turn = k
  BY <1>1, <1>2 DEF HistStands, LoadTemplate
<1>4. HistRecorded(log, k, c) /\ c \in HistConts
  BY <1>1, <1>2, <1>3, HistRecordedIs DEF HistStands
<1>5. CASE q.pc = "load"
  <2>1. run = HistPutLoaded(q, "loop", LoadHistory(log, k), c)
    BY <1>2, <1>3, <1>5 DEF LoadTemplate, HistAt, HistPutLoaded
  <2>2. HistIsLoaded(run, q, "loop", LoadHistory(log, k), c)
    BY <1>3, <2>1, HistPutLoadedIs
  <2>3. HistGiven(log, run, k)
    BY <1>3, <1>4, <1>5, <2>2, HistFineLoads DEF HistIsLoaded
  <2> QED
    BY <1>2, <1>3, <2>3, HistKeeps
<1>6. CASE q.pc # "load"
  <2>1. run = HistPutLoaded(q, "review", ZeroTemplate, c) /\ q.pc = "loadReview"
    BY <1>2, <1>3, <1>6 DEF LoadTemplate, HistAt, HistPutLoaded
  <2>2. HistIsLoaded(run, q, "review", ZeroTemplate, c)
    BY <1>3, <2>1, HistPutLoadedIs
  <2>3. HistGiven(log, run, k)
    BY <1>3, <1>4, <2>1, <2>2, HistFineReviews DEF HistIsLoaded
  <2> QED
    BY <1>2, <1>3, <2>3, HistKeeps
<1> QED
  BY <1>5, <1>6

LEMMA HistKeepsLeave ==
    ASSUME HistInv, HistKept, BlockTurn \/ CrashHistory
    PROVE  HistKept'
<1>1. PICK k : HistStands(k)
  BY HistStandsAt
<1>2. PICK q, log, run : q = histRun /\ log = histLog' /\ run = histRun'
  OBVIOUS
<1>3. HistGiven(log, q, k) /\ q.pc # "idle"
  BY <1>1, <1>2 DEF HistStands, BlockTurn, CrashHistory
<1>4. run = IdleRun \/ run = HistCallOf("blocked", q.turn)
  BY <1>2 DEF BlockTurn, CrashHistory, HistCallOf
<1>5. HistIsFresh(run, "idle", 0, 0) \/ HistIsFresh(run, "blocked", q.turn, 0)
  <2>1. CASE run = IdleRun
    BY <2>1, HistIdleFresh
  <2>2. CASE run = HistCallOf("blocked", q.turn)
    BY <2>2, HistFreshIs
  <2> QED
    BY <1>4, <2>1, <2>2
<1> QED
  BY <1>2, <1>3, <1>5, HistLeft DEF HistIsFresh

LEMMA HistTurnSpoke ==
    ASSUME NEW log, NEW k \in Nat, HistNumbered(log, k), k # 0
    PROVE  \E n \in 1 .. Len(log) : log[n].turn = k
<1>1. k \in 1 .. k
  OBVIOUS
<1>2. k \in {log[i].turn : i \in 1 .. Len(log)}
  BY <1>1 DEF HistNumbered
<1> QED
  BY <1>2

LEMMA HistKeepsResume ==
    ASSUME HistInv, HistKept, ResumeTurn
    PROVE  HistKept'
<1>1. PICK k : HistStands(k)
  BY HistStandsAt
<1>2. PICK q, log, run, f : q = histRun /\ log = histLog /\ run = histRun' /\ f = FirstEvent(q.turn)
  OBVIOUS
<1>3. /\ HistGiven(log, q, k) /\ log = histLog' /\ HistIsRun(q) /\ q.turn = k /\ q.pc = "blocked" /\ k # 0
      /\ q.template \in Hists /\ q.cont \in HistConts
  BY <1>1, <1>2 DEF HistStands, ResumeTurn, HistAt
<1>4. f \in 1 .. Len(log) /\ log[f].turn = k /\ \A n \in 1 .. Len(log) : log[n].turn = k => f <= n
  <2>1. \E n \in 1 .. Len(log) : log[n].turn = k
    BY <1>3, HistGivenIs, HistTurnSpoke
  <2> QED
    BY <1>1, <1>2, <1>3, <2>1, HistFirstIs DEF HistStands
<1>5. run = HistPutBack(q, "load", f - 1)
  BY <1>2 DEF ResumeTurn, HistPutBack
<1>6. HistIsBack(run, q, "load", f - 1)
  BY <1>3, <1>5, HistPutBackIs
<1>7. HistGiven(log, run, k)
  BY <1>3, <1>4, <1>6, HistFineResumes DEF HistIsBack
<1> QED
  BY <1>2, <1>3, <1>7, HistKeeps

------------------------------------------------------------------------------
(* The steps that summarise and save, as one fact each.                           *)
HistSummarisesTo(log, run, last, log2, run2) ==
    \E n, cont :
       /\ n \in Nat /\ PrefixCount(run.template.order, HistEffective(run.template, run.cont)) < n /\ n <= Len(run.template.order)
       /\ cont = Summarise(run.template, HistEffective(run.template, run.cont), n)
       /\ log2 = Append(log, HistContinuation(last, cont)) /\ HistIsSumming(run2, run, cont)
LEMMA HistSummarisesSo ==
    ASSUME NEW log, NEW run, NEW last, HistGiven(log, run, last), run.pc = "loop", last # 0, ~HistEnded(log, last),
           NEW log2, NEW run2, HistSummarisesTo(log, run, last, log2, run2)
    PROVE  HistGiven(log2, run2, last)
<1>1. PICK eff : eff = HistEffective(run.template, run.cont)
  OBVIOUS
<1>2. PICK n, cont :
       /\ n \in Nat /\ PrefixCount(run.template.order, eff) < n /\ n <= Len(run.template.order)
       /\ cont = Summarise(run.template, eff, n)
       /\ log2 = Append(log, HistContinuation(last, cont)) /\ HistIsSumming(run2, run, cont)
  BY <1>1 DEF HistSummarisesTo
<1>3. /\ run2.pc = "loop" /\ run2.turn = run.turn /\ run2.after = run.after
      /\ run2.template = run.template /\ run2.cont = cont
  BY <1>2 DEF HistIsSumming
<1>4. HistLoads(log, last, run) /\ run.template \in Hists /\ run.cont \in HistConts /\ last \in Nat
  BY HistGivenIs
<1>5. HistPast(log2, run2, last) /\ log2 \in Seq(HistEvents) /\ cont \in HistConts
  BY <1>1, <1>2, <1>3, <1>4, HistPastSummarises, ZenonT(60)
<1>6. PICK e : e = HistContinuation(last, cont)
  OBVIOUS
<1>7. e \in HistEvents /\ HistMayAppend(log, last, e)
  <2>1. "continuation" \in HistKinds
    BY DEF HistKinds
  <2> QED
    BY <1>4, <1>5, <1>6, <2>1, HistEventTyped DEF HistMayAppend
<1>8. log2 = Append(log, e) /\ run2.template \in Hists /\ run2.cont \in HistConts
  BY <1>2, <1>3, <1>4, <1>5, <1>6
<1> HIDE <1>6
<1>9. HistGiven(log2, run2, last) /\ (HistEnded(log2, last) <=> HistEnded(log, last))
  BY <1>5, <1>7, <1>8, HistFineAppends
<1> QED
  BY <1>9

HistCompactsTo(log, run, last, log2, run2) ==
    /\ log2 = Append(log, HistContinuation(last, Summarise(run.template, run.template.cont, Len(run.template.order))))
    /\ run2.pc = "saveFresh" /\ run2.turn = run.turn /\ run2.template \in Hists /\ run2.cont \in HistConts
LEMMA HistCompactsSo ==
    ASSUME NEW log, NEW run, NEW last, HistGiven(log, run, last), run.pc = "compact", last # 0, ~HistEnded(log, last),
           NEW log2, NEW run2, HistCompactsTo(log, run, last, log2, run2)
    PROVE  HistGiven(log2, run2, last) /\ ~HistEnded(log2, last)
<1>1. PICK cont : cont = Summarise(run.template, run.template.cont, Len(run.template.order))
  OBVIOUS
<1>2. log2 = Append(log, HistContinuation(last, cont))
  BY <1>1 DEF HistCompactsTo
<1>3. run2.pc = "saveFresh" /\ run2.turn = run.turn /\ run2.template \in Hists /\ run2.cont \in HistConts
  BY DEF HistCompactsTo
<1> QED
  BY <1>1, <1>2, <1>3, HistFineCompacts

HistSaved(log, run) ==
    CheckpointOf(IF run.pc = "save" THEN BuildHistory(log, run.template, run.after, 0) ELSE LoadHistory(log, 0))
HistSavesTo(log, run, log2, run2) ==
    /\ log2 = Append(log, HistCheckpoint(HistSaved(log, run)))
    /\ run2.pc = "idle" /\ run2.template \in Hists /\ run2.cont \in HistConts
LEMMA HistSavesSo ==
    ASSUME NEW log, NEW run, NEW last, HistGiven(log, run, last),
           run.pc \in {"save", "saveFresh"}, HistEnded(log, last),
           NEW log2, NEW run2, HistSavesTo(log, run, log2, run2)
    PROVE  HistGiven(log2, run2, last)
<1>1. PICK r : r = IF run.pc = "save" THEN BuildHistory(log, run.template, run.after, 0) ELSE LoadHistory(log, 0)
  OBVIOUS
<1>2. PICK c : c = CheckpointOf(r)
  OBVIOUS
<1>3. log2 = Append(log, HistCheckpoint(c))
  BY <1>1, <1>2 DEF HistSavesTo, HistSaved
<1>4. run2.pc = "idle" /\ run2.template \in Hists /\ run2.cont \in HistConts
  BY DEF HistSavesTo
<1> QED
  BY <1>1, <1>2, <1>3, <1>4, HistFineSaved

HistCompactStartsTo(log, last, log2, run2) ==
    /\ log2 = Append(log, HistEvent("started", last + 1))
    /\ PrefixCount(LoadHistory(log, last + 1).order, LoadHistory(log, last + 1).cont)
         < Len(LoadHistory(log, last + 1).order)
    /\ run2.pc = "compact" /\ run2.turn = last + 1 /\ run2.template = LoadHistory(log, last + 1)
    /\ run2.cont \in HistConts
LEMMA HistCompactStartsSo ==
    ASSUME NEW log, NEW run, NEW last, HistGiven(log, run, last), NEW log2, NEW run2,
           HistCompactStartsTo(log, last, log2, run2)
    PROVE  HistGiven(log2, run2, last + 1)
<1>1. PICK h, e : h = LoadHistory(log, last + 1) /\ e = HistEvent("started", last + 1)
  OBVIOUS
<1>2. /\ log2 = Append(log, e) /\ PrefixCount(h.order, h.cont) < Len(h.order)
      /\ run2.pc = "compact" /\ run2.turn = last + 1 /\ run2.template = h /\ run2.cont \in HistConts
  BY <1>1 DEF HistCompactStartsTo
<1>3. e \in HistEvents /\ e.turn = last + 1 /\ e.kind = "started"
  <2>1. "started" \in HistKinds /\ last + 1 \in Nat
    BY HistGivenIs DEF HistKinds
  <2> QED
    BY <1>1, <2>1, HistPlainEvent
<1>4. h = LoadHistory(log, last + 1)
  BY <1>1
<1> HIDE <1>1
<1> QED
  BY <1>2, <1>3, <1>4, HistFineCompactStarts

HistNotesTo(log, t, log2) ==
    /\ log2 = Append(log, HistEvent("note", t))
    /\ \E i \in 1 .. Len(log) : log[i].kind = "entry" /\ log[i].turn = t
LEMMA HistNotesSo ==
    ASSUME NEW log, NEW run, NEW last, HistGiven(log, run, last), NEW t \in 1 .. last,
           NEW log2, HistNotesTo(log, t, log2)
    PROVE  HistGiven(log2, run, last)
<1>1. PICK e : e = HistEvent("note", t)
  OBVIOUS
<1>2. last \in Nat
  BY HistGivenIs
<1>3. e \in HistEvents /\ e.kind = "note" /\ e.turn = t
  <2>1. "note" \in HistKinds /\ t \in Nat
    BY <1>2 DEF HistKinds
  <2> QED
    BY <1>1, <2>1, HistPlainEvent
<1>4. log2 = Append(log, e) /\ \E i \in 1 .. Len(log) : log[i].kind = "entry" /\ log[i].turn = e.turn
  BY <1>1, <1>3 DEF HistNotesTo
<1> HIDE <1>1
<1>5. HistAdds(log, last, e) /\ e.turn # last + 1
  BY <1>2, <1>3 DEF HistAdds, HistKinds
<1> QED
  BY <1>3, <1>4, <1>5, HistFineSays

LEMMA HistKeepsSummarise ==
    ASSUME HistInv, HistKept, CompactForRequest
    PROVE  HistKept'
<1>1. PICK k : HistStands(k)
  BY HistStandsAt
<1>2. PICK q, old, log, run : q = histRun /\ old = histLog /\ log = histLog' /\ run = histRun'
  OBVIOUS
<1>3. /\ HistGiven(old, q, k) /\ HistIsRun(q) /\ q.turn = k /\ q.pc = "loop" /\ k # 0 /\ ~HistEnded(old, k)
      /\ q.template \in Hists /\ q.cont \in HistConts /\ old \in Seq(HistEvents)
  BY <1>1, <1>2 DEF HistStands, CompactForRequest, HistAt
<1>4. EffectiveSummary = HistEffective(q.template, q.cont)
  BY <1>2 DEF EffectiveSummary, HistEffective
<1>5. PICK n, cont :
         /\ n \in CompactionCounts(q.template.order, HistEffective(q.template, q.cont))
         /\ cont = Summarise(q.template, HistEffective(q.template, q.cont), n)
         /\ Says(HistContinuation(k, cont)) /\ run = HistPutSummary(q, cont)
  BY <1>2, <1>3, <1>4, ZenonT(60) DEF CompactForRequest, HistContinuation, HistPutSummary
<1>6. n \in Nat /\ PrefixCount(q.template.order, HistEffective(q.template, q.cont)) < n /\ n <= Len(q.template.order)
  <2>1. q.template.order \in Seq(Nat) /\ HistEffective(q.template, q.cont) \in HistConts
    BY <1>3, HistsAre DEF HistEffective
  <2>2. PICK p : p = PrefixCount(q.template.order, HistEffective(q.template, q.cont))
    OBVIOUS
  <2>3. p \in Nat /\ Len(q.template.order) \in Nat /\ HistFrontier \in Nat
    BY <2>1, <2>2, HistPrefix, HistAssumption
  <2>4. n \in {Len(q.template.order) - HistFrontier, Len(q.template.order)} /\ n > p
    BY <1>5, <2>2 DEF CompactionCounts
  <2>5. n \in Nat /\ p < n /\ n <= Len(q.template.order)
    BY <2>3, <2>4
  <2> QED
    BY <2>2, <2>5
<1>7. HistIsSumming(run, q, cont)
  BY <1>3, <1>5, HistPutSummaryIs
<1>8. log = Append(old, HistContinuation(k, cont))
  <2>1. log = old \o <<HistContinuation(k, cont)>>
    BY <1>2, <1>5 DEF Says, SaysAll
  <2> QED
    BY <1>3, <2>1, HistSaysIs
<1>9. HistSummarisesTo(old, q, k, log, run)
  BY <1>5, <1>6, <1>7, <1>8 DEF HistSummarisesTo
<1>10. HistGiven(log, run, k)
  BY <1>3, <1>9, HistSummarisesSo
<1> QED
  BY <1>2, <1>10, HistKeeps

LEMMA HistKeepsSave ==
    ASSUME HistInv, HistKept, SaveCheckpoint
    PROVE  HistKept'
<1>1. PICK k : HistStands(k)
  BY HistStandsAt
<1>2. PICK q, old, log, run : q = histRun /\ old = histLog /\ log = histLog' /\ run = histRun'
  OBVIOUS
<1>3. /\ HistGiven(old, q, k) /\ q.pc \in {"save", "saveFresh"} /\ HistEnded(old, k) /\ old \in Seq(HistEvents)
      /\ run = IdleRun
  BY <1>1, <1>2 DEF HistStands, SaveCheckpoint
<1>4. HistIsFresh(run, "idle", 0, 0)
  BY <1>3, HistIdleFresh
<1>5. CASE log = old
  BY <1>2, <1>3, <1>4, <1>5, HistLeft DEF HistIsFresh
<1>6. CASE log # old
  <2>1. CheckpointOf(HistoryToSave) = HistSaved(old, q)
    BY <1>2 DEF HistoryToSave, HistSaved, HistAt
  <2>2. Says(HistCheckpoint(HistSaved(old, q)))
    BY <1>2, <1>6, <2>1 DEF SaveCheckpoint, HistCheckpoint
  <2>3. log = Append(old, HistCheckpoint(HistSaved(old, q)))
    <3>1. log = old \o <<HistCheckpoint(HistSaved(old, q))>>
      BY <1>2, <2>2 DEF Says, SaysAll
    <3> QED
      BY <1>3, <3>1, HistSaysIs
  <2>4. HistSavesTo(old, q, log, run)
    BY <1>4, <2>3 DEF HistSavesTo, HistIsFresh
  <2>5. HistGiven(log, run, k)
    BY <1>3, <2>4, HistSavesSo
  <2> QED
    BY <1>2, <2>5, HistKeeps
<1> QED
  BY <1>5, <1>6

LEMMA HistKeepsNote ==
    ASSUME HistInv, HistKept, NoteBackground
    PROVE  HistKept'
<1>1. PICK k : HistStands(k)
  BY HistStandsAt
<1>2. PICK q, old, log, run : q = histRun /\ old = histLog /\ log = histLog' /\ run = histRun'
  OBVIOUS
<1>3. HistGiven(old, q, k) /\ old \in Seq(HistEvents) /\ run = q /\ k \in 0 .. HistMaxTurns
  BY <1>1, <1>2 DEF HistStands, NoteBackground
<1>4. PICK t \in HistTurns : EventsOf(t, {"entry"}) # {} /\ Says(HistEvent("note", t))
  BY DEF NoteBackground
<1>5. HistTurns = 1 .. k /\ DOMAIN old = 1 .. Len(old)
  <2>1. HistWell(histLog, k)
    BY <1>2, <1>3 DEF HistGiven
  <2> QED
    BY <1>2, <1>3, <2>1, HistNow
<1>6. \E i \in 1 .. Len(old) : old[i].kind = "entry" /\ old[i].turn = t
  BY <1>2, <1>4, <1>5 DEF EventsOf
<1>7. log = Append(old, HistEvent("note", t))
  <2>1. log = old \o <<HistEvent("note", t)>>
    BY <1>2, <1>4 DEF Says, SaysAll
  <2> QED
    BY <1>3, <2>1, HistSaysIs
<1>8. HistNotesTo(old, t, log) /\ t \in 1 .. k
  BY <1>4, <1>5, <1>6, <1>7 DEF HistNotesTo
<1>9. HistGiven(log, run, k)
  BY <1>3, <1>8, HistNotesSo
<1> QED
  BY <1>2, <1>9, HistKeeps

LEMMA HistKeepsStartCompact ==
    ASSUME HistInv, HistKept, StartCompact
    PROVE  HistKept'
<1>1. PICK k : HistStands(k)
  BY HistStandsAt
<1>2. PICK q, old, log, run : q = histRun /\ old = histLog /\ log = histLog' /\ run = histRun'
  OBVIOUS
<1>3. HistGiven(old, q, k) /\ old \in Seq(HistEvents) /\ NewTurn = k + 1
  BY <1>1, <1>2 DEF HistStands
<1>4. PICK h : h = LoadHistory(old, k + 1)
  OBVIOUS
<1>5. /\ PrefixCount(h.order, h.cont) < Len(h.order) /\ Says(HistEvent("started", k + 1))
      /\ run = HistCallWith("compact", k + 1, h)
  BY <1>2, <1>3, <1>4 DEF StartCompact, HistCallWith
<1>6. log = Append(old, HistEvent("started", k + 1))
  <2>1. log = old \o <<HistEvent("started", k + 1)>>
    BY <1>2, <1>5 DEF Says, SaysAll
  <2> QED
    BY <1>3, <2>1, HistSaysIs
<1>7. run.pc = "compact" /\ run.turn = k + 1 /\ run.template = h /\ run.cont \in HistConts
  <2>1. HistIsLoaded(run, HistCallOf("compact", k + 1), "compact", h, NoSummary)
    BY <1>5, HistFreshIs
  <2>2. HistIsFresh(HistCallOf("compact", k + 1), "compact", k + 1, 0)
    BY HistFreshIs
  <2> QED
    BY <2>1, <2>2, HistNothing DEF HistIsLoaded, HistIsFresh
<1>8. HistCompactStartsTo(old, k, log, run)
  BY <1>4, <1>5, <1>6, <1>7 DEF HistCompactStartsTo
<1>9. HistGiven(log, run, k + 1)
  BY <1>3, <1>8, HistCompactStartsSo
<1>10. PICK m : m = k + 1
  OBVIOUS
<1>11. HistGiven(log, run, m)
  BY <1>9, <1>10
<1> QED
  BY <1>2, <1>11, HistKeeps

LEMMA HistKeepsShell ==
    ASSUME HistInv, HistKept, EndShell
    PROVE  HistKept'
<1>1. PICK k : HistStands(k)
  BY HistStandsAt
<1>2. PICK q, old, log, run : q = histRun /\ old = histLog /\ log = histLog' /\ run = histRun'
  OBVIOUS
<1>3. /\ HistGiven(old, q, k) /\ old \in Seq(HistEvents) /\ q.pc = "shell" /\ q.turn = k /\ k # 0
      /\ ~HistEnded(old, k) /\ run = IdleRun
  BY <1>1, <1>2 DEF HistStands, EndShell, HistAt
<1>4. HistIsFresh(run, "idle", 0, 0)
  BY <1>3, HistIdleFresh
<1>5. HistGiven(log, q, k)
  <2>1. CASE \E kind \in {"error", "canceled"} : Says(HistEvent(kind, histRun.turn))
    <3>1. PICK kind \in {"error", "canceled"} : Says(HistEvent(kind, histRun.turn))
      BY <2>1
    <3> QED
      BY <1>1, <1>2, <1>3, <3>1, HistActed
  <2>2. CASE SaysAll(<<HistEvent("entry", k), HistEvent("done", k)>>)
    <3>1. PICK d, e, first : d = HistEvent("entry", k) /\ e = HistEvent("done", k) /\ first = Append(old, d)
      OBVIOUS
    <3>2. log = Append(first, e)
      <4>1. log = old \o <<d, e>>
        BY <1>2, <2>2, <3>1 DEF SaysAll
      <4> QED
        BY <1>3, <3>1, <4>1, HistAppendedAll
    <3>3. HistDoes(first, q, k, "entry")
      <4>1. HistDoes(Append(old, HistEvent("entry", k)), q, k, "entry")
        BY <1>3, HistDoesSo
      <4> QED
        BY <3>1, <4>1
    <3>4. HistGiven(first, q, k) /\ ~HistEnded(first, k)
      BY <3>3 DEF HistDoes, EndKinds
    <3>5. HistDoes(log, q, k, "done")
      <4>1. HistDoes(Append(first, HistEvent("done", k)), q, k, "done")
        BY <1>3, <3>4, HistDoesSo
      <4> QED
        BY <3>1, <3>2, <4>1
    <3> QED
      BY <3>5 DEF HistDoes
  <2> QED
    BY <1>2, <1>3, <2>1, <2>2 DEF EndShell
<1> QED
  BY <1>2, <1>4, <1>5, HistLeft DEF HistIsFresh

LEMMA HistKeepsEndCompact ==
    ASSUME HistInv, HistKept, EndCompact
    PROVE  HistKept'
<1>1. PICK k : HistStands(k)
  BY HistStandsAt
<1>2. PICK q, old, log, run : q = histRun /\ old = histLog /\ log = histLog' /\ run = histRun'
  OBVIOUS
<1>3. /\ HistGiven(old, q, k) /\ old \in Seq(HistEvents) /\ q.pc = "compact" /\ q.turn = k /\ k # 0
      /\ ~HistEnded(old, k) /\ HistIsRun(q) /\ q.template \in Hists /\ q.cont \in HistConts
  BY <1>1, <1>2 DEF HistStands, EndCompact, HistAt
<1>4. CASE run = IdleRun /\ Says(HistEvent("error", histRun.turn))
  <2>1. HistGiven(log, q, k)
    BY <1>1, <1>2, <1>3, <1>4, HistActed
  <2>2. HistIsFresh(run, "idle", 0, 0)
    BY <1>4, HistIdleFresh
  <2> QED
    BY <1>2, <2>1, <2>2, HistLeft DEF HistIsFresh
<1>5. CASE ~(run = IdleRun /\ Says(HistEvent("error", histRun.turn)))
  <2>1. PICK cont : cont = Summarise(q.template, q.template.cont, Len(q.template.order))
    OBVIOUS
  <2>2. PICK d, e, f, one, two :
           /\ d = HistContinuation(k, cont) /\ e = HistEvent("pruned", k) /\ f = HistEvent("done", k)
           /\ one = Append(old, d) /\ two = Append(one, e)
    OBVIOUS
  <2>3. SaysAll(<<d, e, f>>) /\ run = HistMoveTo(q, "saveFresh")
    BY <1>2, <1>3, <1>5, <2>1, <2>2 DEF EndCompact, HistContinuation, HistMoveTo
  <2>4. log = Append(two, f)
    <3>1. log = old \o <<d, e, f>>
      BY <1>2, <2>3 DEF SaysAll
    <3> QED
      BY <1>3, <2>2, <3>1, HistAppendedAll
  <2>5. run.pc = "saveFresh" /\ run.turn = q.turn /\ run.template \in Hists /\ run.cont \in HistConts
    <3>1. HistIsAt(run, q, "saveFresh")
      BY <1>3, <2>3, HistMoveToIs
    <3> QED
      BY <1>3, <3>1 DEF HistIsAt, HistSame
  <2>6. HistGiven(one, run, k) /\ ~HistEnded(one, k)
    <3>1. HistCompactsTo(old, q, k, one, run)
      BY <2>1, <2>2, <2>5 DEF HistCompactsTo
    <3> QED
      BY <1>3, <3>1, HistCompactsSo
  <2>7. HistDoes(two, run, k, "pruned")
    <3>1. HistDoes(Append(one, HistEvent("pruned", k)), run, k, "pruned")
      BY <1>3, <2>5, <2>6, HistDoesSo
    <3> QED
      BY <2>2, <3>1
  <2>8. HistGiven(two, run, k) /\ ~HistEnded(two, k)
    BY <2>7 DEF HistDoes, EndKinds
  <2>9. HistDoes(log, run, k, "done")
    <3>1. HistDoes(Append(two, HistEvent("done", k)), run, k, "done")
      BY <1>3, <2>5, <2>8, HistDoesSo
    <3> QED
      BY <2>2, <2>4, <3>1
  <2>10. HistGiven(log, run, k)
    BY <2>9 DEF HistDoes
  <2> QED
    BY <1>2, <2>10, HistKeeps
<1> QED
  BY <1>4, <1>5

------------------------------------------------------------------------------
(* The invariant holds.                                                           *)
LEMMA HistKeptInit == HistInit => HistKept
<1> SUFFICES ASSUME HistInit PROVE HistKept
  OBVIOUS
<1>1. PICK log, run, h : log = <<>> /\ run = IdleRun /\ h = NoHistory
  OBVIOUS
<1>2. histLog = log /\ histRun = run
  BY <1>1 DEF HistInit
<1>3. log \in Seq(HistEvents) /\ Len(log) = 0
  BY <1>1
<1>4. LatestCheckpoint(log) = h /\ h \in Hists
  <2>1. HistMarks(log) = {}
    BY <1>3 DEF HistMarks
  <2> QED
    BY <1>1, <1>3, <2>1, HistLatestIs
<1>5. HistIsFresh(run, "idle", 0, 0)
  BY <1>1, HistIdleFresh
<1>6. h.order = <<>> /\ h.turns = <<>> /\ h.cont = NoSummary /\ h.through = -1
  BY <1>1 DEF NoHistory
<1>7. Len(h.order) = 0 /\ DOMAIN h.turns = {} /\ PrefixCount(h.order, h.cont) = 0
  <2>1. h.order \in Seq(Nat) /\ h.cont \in HistConts /\ Len(h.order) = 0
    BY <1>4, <1>6, HistsAre
  <2>2. PrefixCount(h.order, h.cont) \in 0 .. 0
    BY <2>1, HistPrefix
  <2> QED
    BY <1>6, <2>1, <2>2
<1>8. HistKnows(log, 1, h, 0, -1)
  <2>1. HistOrders(log, 1, h, 0)
    BY <1>7 DEF HistOrders
  <2>2. HistSummed(log, 1, h, 0, -1)
    BY <1>6 DEF HistSummed, HistSumsUp
  <2>3. \A i \in PrefixCount(h.order, h.cont) + 1 .. Len(h.order) : HistRawTurn(log, 1, h, h.order[i], -1)
    BY <1>7
  <2>4. HistTurnsOf(log, 1, h, 0) /\ h.through <= Len(log)
    BY <1>3, <1>6, <1>7 DEF HistTurnsOf
  <2> QED
    BY <2>1, <2>2, <2>3, <2>4 DEF HistKnows
<1>9. HistCanReplay(log, 1, h, 0, -1)
  BY <1>3, <1>8 DEF HistCanReplay, HistParts, HistSummaries, HistGrows
<1>10. HistBased(log, 1, 0, 0)
  BY <1>4, <1>6, <1>9 DEF HistBased, HistForgot
<1>11. HistCall(log, run, LatestCheckpoint(log), 1, 0, 0)
  BY <1>5 DEF HistCall, HistIsFresh
<1>12. HistPast(log, run, 0)
  BY <1>3, <1>10, <1>11 DEF HistPast, HistNoted
<1>13. HistNumbered(log, 0)
  BY <1>3 DEF HistNumbered
<1>14. HistFine(log, run)
  BY <1>3, <1>5, <1>12, <1>13, HistFineAt DEF HistIsFresh
<1> QED
  BY <1>2, <1>14 DEF HistKept

LEMMA HistKeptStep == HistInv /\ HistKept /\ [HistNext]_histVars => HistKept'
<1> SUFFICES ASSUME HistInv, HistKept, [HistNext]_histVars PROVE HistKept'
  OBVIOUS
<1>1. CASE StartTurn("load") \/ StartTurn("loadReview") \/ StartTurn("shell") \/ ContinueTurn
  BY <1>1, HistKeepsStart
<1>2. CASE RecordFailure \/ CancelTurnRun
  BY <1>2, HistKeepsRecordFailure
<1>3. CASE LoadTemplate
  BY <1>3, HistKeepsLoad
<1>4. CASE CompactForRequest
  BY <1>4, HistKeepsSummarise
<1>5. CASE Answer \/ CompactionFails
  BY <1>5, HistKeepsAnswer
<1>6. CASE CompleteTurn \/ RollOverReview
  BY <1>6, HistKeepsCompleteTurn
<1>7. CASE FailTurn
  BY <1>7, HistKeepsFailTurn
<1>8. CASE BlockTurn \/ CrashHistory
  BY <1>8, HistKeepsLeave
<1>9. CASE ResumeTurn
  BY <1>9, HistKeepsResume
<1>10. CASE SaveCheckpoint
  BY <1>10, HistKeepsSave
<1>11. CASE EndShell
  BY <1>11, HistKeepsShell
<1>12. CASE StartCompact
  BY <1>12, HistKeepsStartCompact
<1>13. CASE EndCompact
  BY <1>13, HistKeepsEndCompact
<1>14. CASE NoteBackground
  BY <1>14, HistKeepsNote
<1>15. CASE UNCHANGED histVars
  BY <1>15 DEF histVars, HistKept
<1> QED
  BY <1>1, <1>2, <1>3, <1>4, <1>5, <1>6, <1>7, <1>8, <1>9, <1>10, <1>11, <1>12, <1>13, <1>14, <1>15
  DEF HistNext

------------------------------------------------------------------------------
(* What the invariant says of a history that is loaded now.                       *)
HistTelling(log, b, h, last) ==
    /\ HistLogWell(log) /\ h \in Hists /\ last \in Nat /\ b \in Nat /\ HistKnows(log, b, h, last, Len(log))
HistTells(log, h, t) ==
    \/ /\ t \in RawTurns(h.order, h.cont)
       /\ Select(h.turns[t].entries, HistPlain(log)) = HistSaid(log, t, Len(log))
       /\ HistSpeaks(log, t) \cap h.cont.covers = {}
       /\ HistLate(log, t) \subseteq ToSet(h.turns[t].notes)
    \/ /\ t \in PrefixTurns(h.order, h.cont)
       /\ HistSpeaks(log, t) \cup HistLate(log, t) \subseteq h.cont.covers

LEMMA HistToldIsTold ==
    ASSUME NEW log, NEW b, NEW h, NEW last, HistTelling(log, b, h, last), NEW t \in 1 .. last, HistTold(log, b, t)
    PROVE  HistTells(log, h, t)
<1>1. /\ HistLogWell(log) /\ h \in Hists /\ last \in Nat /\ HistOrders(log, b, h, last)
      /\ HistSummed(log, b, h, last, Len(log)) /\ t \in Nat /\ HistDone(log, b, t)
      /\ \A i \in PrefixCount(h.order, h.cont) + 1 .. Len(h.order) : HistRawTurn(log, b, h, h.order[i], Len(log))
  BY DEF HistTelling, HistKnows, HistTold
<1>2. Len(log) \in Nat /\ HistLate(log, t) \subseteq 1 .. Len(log) /\ HistSpeaks(log, t) \subseteq 1 .. Len(log)
  BY <1>1, HistLogIs DEF HistLate, HistSpeaks
<1>3. PICK order, c, p : order = h.order /\ c = h.cont /\ p = PrefixCount(order, c)
  OBVIOUS
<1>4. order \in Seq(Nat) /\ c \in HistConts
  BY <1>1, <1>3, HistsAre
<1>5. /\ p \in 0 .. Len(order) /\ Len(order) \in Nat
      /\ t \in PrefixTurns(order, c) <=> \E i \in 1 .. p : order[i] = t
      /\ t \in RawTurns(order, c) <=> \E i \in p + 1 .. Len(order) : order[i] = t
  <2>1. /\ PrefixCount(order, c) \in 0 .. Len(order) /\ Len(order) \in Nat
        /\ \A u : u \in PrefixTurns(order, c) <=> \E i \in 1 .. PrefixCount(order, c) : order[i] = u
        /\ \A u : u \in RawTurns(order, c) <=> \E i \in PrefixCount(order, c) + 1 .. Len(order) : order[i] = u
    BY <1>4, HistPrefix
  <2>2. p = PrefixCount(order, c)
    BY <1>3
  <2> HIDE <1>3
  <2> QED
    BY <2>1, <2>2
<1>6. /\ \A i \in 1 .. Len(order) : order[i] \in 1 .. last
      /\ \A i, j \in 1 .. Len(order) : order[i] = order[j] => i = j
      /\ \A i, j \in 1 .. Len(order) :
            i < j /\ HistDone(log, b, order[i]) /\ HistDone(log, b, order[j]) => order[i] < order[j]
      /\ HistInOrder(order, t)
  BY <1>1, <1>3 DEF HistOrders
<1>7. HistSumsUp(log, b, c, last, 1 .. Len(log)) /\ (c # NoSummary => HistInOrder(order, c.frontier))
  BY <1>1, <1>3 DEF HistSummed
<1>8. c = NoSummary \/ HistDone(log, b, c.frontier)
  BY <1>7 DEF HistSumsUp
<1>9. /\ t \in PrefixTurns(order, c) => t <= c.frontier /\ c # NoSummary
      /\ c # NoSummary => (t \in PrefixTurns(order, c) <=> t <= c.frontier)
  <2>1. \A i \in 1 .. Len(order) : order[i] # 0
    BY <1>1, <1>6
  <2>2. /\ \A u \in PrefixTurns(order, c) : HistDone(log, b, u) => u <= c.frontier
        /\ PrefixTurns(order, c) # {} => HistInOrder(order, c.frontier) /\ c # NoSummary
        /\ HistInOrder(order, c.frontier) => c # NoSummary /\
              \A u \in Nat : HistInOrder(order, u) /\ HistDone(log, b, u) =>
                 (u \in PrefixTurns(order, c) <=> u <= c.frontier)
    BY <1>4, <1>6, <1>8, <2>1, HistPrefixIs
  <2> QED
    BY <1>1, <1>6, <1>7, <2>2
<1>10. CASE t \in PrefixTurns(order, c)
  <2>1. c.frontier \in Nat /\ t \in 1 .. c.frontier
    BY <1>4, <1>9, <1>10 DEF HistConts
  <2>2. HistSpeaks(log, t) \subseteq c.covers /\ HistLate(log, t) \cap (1 .. Len(log)) \subseteq c.covers
    BY <1>7, <1>9, <1>10, <2>1 DEF HistSumsUp
  <2> QED
    BY <1>2, <1>3, <1>10, <2>2 DEF HistTells
<1>11. CASE t \notin PrefixTurns(order, c)
  <2>1. PICK i \in 1 .. Len(order) : order[i] = t
    BY <1>6 DEF HistInOrder
  <2>2. i \in p + 1 .. Len(order)
    BY <1>5, <1>11, <2>1
  <2>3. HistRawTurn(log, b, h, t, Len(log))
    BY <1>1, <1>3, <2>1, <2>2
  <2>4. /\ Select(h.turns[t].entries, HistPlain(log)) = HistSaid(log, t, Len(log))
        /\ HistLate(log, t) \subseteq ToSet(h.turns[t].notes)
    BY <1>2, <2>3 DEF HistRawTurn
  <2>5. HistSpeaks(log, t) \cap c.covers = {}
    <3>1. CASE c = NoSummary
      BY <3>1 DEF NoSummary
    <3>2. CASE c # NoSummary
      <4>1. ASSUME NEW n \in HistSpeaks(log, t), n \in c.covers
            PROVE  FALSE
        <5>1. log[n].turn = t
          BY DEF HistSpeaks
        <5>2. t <= c.frontier
          BY <1>1, <1>7, <3>2, <4>1, <5>1 DEF HistSumsUp
        <5> QED
          BY <1>9, <1>11, <3>2, <5>2
      <4> QED
        BY <4>1
    <3> QED
      BY <3>1, <3>2
  <2>6. t \in RawTurns(order, c)
    BY <1>5, <2>1, <2>2
  <2> QED
    BY <1>3, <2>4, <2>5, <2>6 DEF HistTells
<1> QED
  BY <1>10, <1>11

LEMMA HistLoadTells ==
    ASSUME HistInv, HistKept, NEW log, log = histLog, NEW h, h = LoadHistory(log, 0)
    PROVE  \E k, b : /\ HistTurns = 1 .. k /\ HistWell(log, k) /\ k \in 0 .. HistMaxTurns
                     /\ HistTelling(log, b, h, k) /\ HistForgot(log, b)
<1>1. PICK k : HistStands(k)
  BY HistStandsAt
<1>2. PICK run : run = histRun
  OBVIOUS
<1>3. HistGiven(log, run, k) /\ k \in 0 .. HistMaxTurns
  BY <1>1, <1>2 DEF HistStands
<1>4. /\ HistPast(log, run, k) /\ HistLogWell(log) /\ k \in Nat
      /\ \A n \in 1 .. Len(log) : log[n].turn \in 0 .. k
  BY <1>3, HistGivenIs
<1>5. PICK b, j : HistBased(log, b, j, k)
  BY <1>4 DEF HistPast
<1>6. j <= k /\ b \in Nat /\ HistForgot(log, b)
  BY <1>4, <1>5 DEF HistBased
<1>7. HistBuilt(log, b, LatestCheckpoint(log), j, LatestCheckpoint(log).through, k, LoadHistory(log, 0))
  BY <1>4, <1>5, <1>6, HistLoadIs
<1>8. HistTelling(log, b, h, k)
  BY <1>4, <1>6, <1>7 DEF HistBuilt, HistTelling
<1>9. HistWell(log, k)
  BY <1>3 DEF HistGiven
<1>10. HistTurns = 1 .. k
  BY <1>3, <1>9, HistNow
<1> QED
  BY <1>3, <1>6, <1>8, <1>9, <1>10

LEMMA HistNotForgotten ==
    ASSUME NEW log, log = histLog, HistLogWell(log), NEW t \in Nat, t # 0, \E n \in 1 .. Len(log) : log[n].turn = t,
           NEW b \in Nat, HistForgot(log, b), ~ForgottenByReview(t)
    PROVE  b <= t
<1>1. PICK f : f = FirstEvent(t)
  OBVIOUS
<1>2. /\ Len(log) \in Nat /\ DOMAIN log = 1 .. Len(log) /\ HistOrdered(log) /\ HistNoted(log)
      /\ log \in Seq(HistEvents)
      /\ \A n \in 1 .. Len(log) : log[n].turn \in Nat /\ log[n].kind \in HistKinds
                                   /\ (log[n].turn = 0 <=> log[n].kind = "checkpoint")
  BY HistLogIs DEF HistLogWell
<1>3. f \in 1 .. Len(log) /\ log[f].turn = t /\ \A n \in 1 .. Len(log) : log[n].turn = t => f <= n
  BY <1>1, <1>2, HistFirstIs
<1>4. HistOwn(log[f])
  <2>1. log[f].kind # "checkpoint"
    BY <1>2, <1>3
  <2>2. log[f].kind # "note"
    <3> SUFFICES ASSUME log[f].kind = "note" PROVE FALSE
      OBVIOUS
    <3>1. PICK j \in 1 .. f : j # f /\ log[j].turn = t
      BY <1>2, <1>3 DEF HistNoted
    <3> QED
      BY <1>2, <1>3, <3>1
  <2> QED
    BY <2>1, <2>2 DEF HistOwn
<1> SUFFICES ASSUME ~(b <= t) PROVE FALSE
  OBVIOUS
<1>5. b # 1 /\ t < b
  OBVIOUS
<1>6. PICK n \in 1 .. Len(log) : log[n].turn = b /\ log[n].kind = "rolled"
  BY <1>5 DEF HistForgot
<1>7. ~(n < f)
  BY <1>2, <1>3, <1>4, <1>5, <1>6 DEF HistOrdered
<1>8. n > f /\ log[n].turn # t
  BY <1>2, <1>3, <1>5, <1>6, <1>7
<1>9. ForgottenByReview(t)
  BY <1>1, <1>2, <1>6, <1>8 DEF ForgottenByReview
<1> QED
  BY <1>9

LEMMA HistSaidSet ==
    ASSUME NEW log, Len(log) \in Nat, NEW t
    PROVE  /\ ToSet(HistSaid(log, t, Len(log))) \subseteq HistSpeaks(log, t)
           /\ HistSaid(log, t, Len(log)) # <<>> => HistSpeaks(log, t) # {}
<1>1. PICK S : S = HistSpeaks(log, t)
  OBVIOUS
<1>2. HistPlaces(Len(log)) \in Seq(Nat)
  BY SeqDef DEF HistPlaces
<1>3. PICK s : s = HistSaid(log, t, Len(log)) /\ s \in Seq(S)
  BY <1>1, <1>2, SelectType DEF HistSaid
<1>4. Len(s) \in Nat /\ DOMAIN s = 1 .. Len(s) /\ \A i \in 1 .. Len(s) : s[i] \in S
  BY <1>3, LenProperties, ElementOfSeq
<1>5. ToSet(s) \subseteq S
  BY <1>4 DEF ToSet
<1>6. s # <<>> => S # {}
  BY <1>3, <1>4, EmptySeq
<1> QED
  BY <1>1, <1>3, <1>5, <1>6

HistEndAt(log, t, e) == HistEndsAt(log, t, e) /\ e \in Nat
LEMMA HistEndOfIs ==
    ASSUME NEW log, log = histLog, HistLogWell(log), NEW t, HasEnded(t)
    PROVE  /\ HistEndAt(log, t, EndOf(t)) /\ HistEnded(log, t)
           /\ SaidBy(t) = HistSaid(log, t, Len(log))
<1>1. Len(log) \in Nat /\ DOMAIN log = 1 .. Len(log)
  BY HistLogIs
<1>2. PICK e : e = EndOf(t)
  OBVIOUS
<1>3. e \in EventsOf(t, EndKinds)
  BY <1>2 DEF EndOf, HasEnded
<1>4. HistEndAt(log, t, e) /\ HistEndsAt(log, t, e)
  BY <1>1, <1>3 DEF EventsOf, HistEndsAt, HistEndAt
<1>5. HistEnded(log, t)
  BY <1>4 DEF HistEnded, HistEndsAt
<1>6. {n \in EventsOf(t, {"entry", "note"}) : n < e} = HistSpeaks(log, t)
  <2>1. \A n \in 1 .. Len(log) :
           /\ n \in HistSpeaks(log, t) => log[n].turn = t /\ log[n].kind \in {"entry", "note"}
           /\ log[n].turn = t /\ log[n].kind \in {"entry", "note"} => (n \in HistSpeaks(log, t) <=> n < e)
    BY <1>4, HistSpeaksIs
  <2>2. HistSpeaks(log, t) \subseteq 1 .. Len(log)
    BY DEF HistSpeaks
  <2> QED
    BY <1>1, <2>1, <2>2 DEF EventsOf
<1>7. [n \in DOMAIN histLog |-> n] = HistPlaces(Len(log))
  BY <1>1 DEF HistPlaces
<1>8. SaidBy(t) = HistSaid(log, t, Len(log))
  BY <1>2, <1>6, <1>7 DEF SaidBy, HistSaid
<1> QED
  BY <1>2, <1>4, <1>5, <1>8

LEMMA HistTurnTells ==
    ASSUME HistInv, HistKept, NEW log, log = histLog, NEW h, h = LoadHistory(log, 0),
           NEW t \in HistTurns, HasEnded(t), ~ForgottenByReview(t),
           SaidBy(t) # <<>> \/ EventsOf(t, {"note"}) # {}
    PROVE  HistTells(log, h, t) /\ HistLogWell(log)
<1>1. PICK k, b : /\ HistTurns = 1 .. k /\ HistWell(log, k) /\ k \in 0 .. HistMaxTurns
                  /\ HistTelling(log, b, h, k) /\ HistForgot(log, b)
  BY HistLoadTells
<1>2. HistLogWell(log) /\ k \in Nat /\ b \in Nat
  BY <1>1 DEF HistTelling
<1>3. Len(log) \in Nat /\ DOMAIN log = 1 .. Len(log)
  BY <1>2, HistLogIs
<1>4. t \in 1 .. k /\ t \in Nat /\ t # 0 /\ \E n \in 1 .. Len(log) : log[n].turn = t
  <2>1. t \in 1 .. k /\ t \in Nat /\ t # 0
    BY <1>1, <1>2
  <2>2. t \in {log[n].turn : n \in 1 .. Len(log)}
    BY <1>3 DEF HistTurns
  <2> QED
    BY <2>1, <2>2
<1>5. b <= t
  BY <1>1, <1>2, <1>4, HistNotForgotten
<1>6. HistEnded(log, t) /\ SaidBy(t) = HistSaid(log, t, Len(log))
  BY <1>2, HistEndOfIs
<1>7. HistDone(log, b, t)
  BY <1>5, <1>6 DEF HistDone
<1>8. HistTold(log, b, t)
  <2>1. CASE SaidBy(t) # <<>>
    BY <1>3, <1>6, <1>7, <2>1, HistSaidSet DEF HistTold
  <2>2. CASE EventsOf(t, {"note"}) # {}
    <3>1. PICK n \in 1 .. Len(log) : log[n].turn = t /\ log[n].kind = "note"
      BY <1>3, <2>2 DEF EventsOf
    <3>2. HistDone(log, b, log[n].turn) => HistTold(log, b, log[n].turn)
      BY <1>2, <3>1, HistNotedIsTold
    <3> QED
      BY <1>7, <3>1, <3>2
  <2> QED
    BY <2>1, <2>2
<1> QED
  BY <1>1, <1>2, <1>4, <1>8, HistToldIsTold

LEMMA HistCompleteHolds == HistInv /\ HistKept => HistIsComplete
<1> SUFFICES ASSUME HistInv, HistKept PROVE HistIsComplete
  OBVIOUS
<1>1. PICK log, h : log = histLog /\ h = LoadHistory(log, 0)
  OBVIOUS
<1>2. ASSUME NEW t \in HistTurns, HasEnded(t), SaidBy(t) # <<>>, ~ForgottenByReview(t)
      PROVE  \/ /\ t \in RawTurns(h.order, h.cont)
                /\ Select(h.turns[t].entries, {n \in DOMAIN histLog : histLog[n].kind # "handoff"}) = SaidBy(t)
                /\ ToSet(SaidBy(t)) \cap h.cont.covers = {}
             \/ /\ t \in PrefixTurns(h.order, h.cont)
                /\ ToSet(SaidBy(t)) \subseteq h.cont.covers
  <2>1. HistTells(log, h, t) /\ HistLogWell(log)
    BY <1>1, <1>2, HistTurnTells
  <2>2. SaidBy(t) = HistSaid(log, t, Len(log))
    BY <1>1, <1>2, <2>1, HistEndOfIs
  <2>3. Len(log) \in Nat /\ DOMAIN log = 1 .. Len(log)
    BY <2>1, HistLogIs
  <2>4. ToSet(SaidBy(t)) \subseteq HistSpeaks(log, t)
    BY <2>2, <2>3, HistSaidSet
  <2>5. {n \in DOMAIN histLog : histLog[n].kind # "handoff"} = HistPlain(log)
    BY <1>1, <2>3 DEF HistPlain
  <2> QED
    BY <2>1, <2>2, <2>4, <2>5 DEF HistTells
<1> QED
  BY <1>1, <1>2 DEF HistIsComplete

LEMMA HistNotesHold == HistInv /\ HistKept => HistNotesReachModel
<1> SUFFICES ASSUME HistInv, HistKept PROVE HistNotesReachModel
  OBVIOUS
<1>1. PICK log, h : log = histLog /\ h = LoadHistory(log, 0)
  OBVIOUS
<1>2. ASSUME NEW t \in HistTurns, HasEnded(t), ~ForgottenByReview(t),
             NEW n \in EventsOf(t, {"note"}), n > EndOf(t)
      PROVE  n \in h.cont.covers \/ (t \in RawTurns(h.order, h.cont) /\ n \in ToSet(h.turns[t].notes))
  <2>1. HistTells(log, h, t) /\ HistLogWell(log)
    BY <1>1, <1>2, HistTurnTells
  <2>2. PICK e : e = EndOf(t)
    OBVIOUS
  <2>3. HistEndsAt(log, t, e) /\ e \in Nat
    BY <1>1, <1>2, <2>1, <2>2, HistEndOfIs DEF HistEndAt
  <2>4. n \in 1 .. Len(log) /\ Len(log) \in Nat /\ log[n].turn = t /\ log[n].kind = "note"
    BY <1>1, <1>2, <2>1, HistLogIs DEF EventsOf
  <2>5. n \notin HistSpeaks(log, t)
    <3>1. n \in HistSpeaks(log, t) <=> n < e
      BY <2>1, <2>3, <2>4, HistSpeaksIs
    <3> QED
      BY <1>2, <2>2, <2>3, <2>4, <3>1
  <2>6. n \in HistLate(log, t)
    BY <2>1, <2>4, <2>5, HistSpeaksIs
  <2> QED
    BY <2>1, <2>6 DEF HistTells
<1> QED
  BY <1>1, <1>2 DEF HistNotesReachModel

(* Whatever was checkpointed, summarised, blocked, failed, canceled or crashed in *)
(* between, each ended turn is in the history exactly once, with all it said:     *)
(* the inductive invariant HistKept says it of the newest checkpoint, of the      *)
(* template of the running turn and of every summary recorded since.              *)
THEOREM HistHistoryIsComplete == HistSpec => []HistIsComplete
<1>1. HistInit => HistInv /\ HistKept
  BY HistInvInit, HistKeptInit
<1>2. (HistInv /\ HistKept) /\ [HistNext]_histVars => (HistInv /\ HistKept)'
  BY HistInvStep, HistKeptStep
<1>3. HistInv /\ HistKept => HistIsComplete
  BY HistCompleteHolds
<1> QED
  BY <1>1, <1>2, <1>3, PTL DEF HistSpec

(* What a background process did after its turn ended is in every later history,  *)
(* beside the turn or in the summary that swallowed it.                           *)
THEOREM HistNotesAreKept == HistSpec => []HistNotesReachModel
<1>1. HistInit => HistInv /\ HistKept
  BY HistInvInit, HistKeptInit
<1>2. (HistInv /\ HistKept) /\ [HistNext]_histVars => (HistInv /\ HistKept)'
  BY HistInvStep, HistKeptStep
<1>3. HistInv /\ HistKept => HistNotesReachModel
  BY HistNotesHold
<1> QED
  BY <1>1, <1>2, <1>3, PTL DEF HistSpec

====
