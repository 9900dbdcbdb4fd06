---- MODULE FileMutation ----
(* Files that the tools of a session's turns change, and /restore, which brings   *)
(* back the writes of a turn: internal/tool/{read,write,apply_patch}.go,          *)
(* internal/filemutation and internal/app/{tool_executor_write_*.go,              *)
(* read_coverage_ledger.go, runtime_write_restore.go}.                            *)
(*                                                                                *)
(* A write is checked against what was read before it takes the file's lock; a    *)
(* patch is planned from files it reads without locks. /restore takes no lock,    *)
(* and neither does anybody outside of the program. A crash leaves files and log  *)
(* as a refused commit, a lost end or a refused restore step does.                *)
EXTENDS Naturals, SequencesExt

CONSTANTS
    FmPaths,         \* numbers: the order of the names
    FmTurns,         \* turns of the session, none of them 0; each runs one tool call at a time
    FmOutside,       \* paths that are also edited from outside
    FmStart,         \* the sets of paths that may exist at first
    FmLines,         \* how many lines a file has
    FmWindows,       \* first and last line of a read
    FmPatches,       \* the paths a patch lists, those it deletes and those it adds
    FmMaxCalls,      \* bound on the changes tried
    FmMaxExternal,   \* bound on the edits from outside
    FmMaxRestores    \* bound on the restores

ASSUME FmAssumption ==
    /\ FmPaths \subseteq Nat /\ IsFiniteSet(FmPaths) /\ FmOutside \subseteq FmPaths
    /\ 0 \notin FmTurns /\ FmLines \in Nat \ {0}
    /\ FmStart \subseteq SUBSET FmPaths /\ FmWindows \subseteq (1 .. FmLines) \X (1 .. FmLines)
    /\ \A patch \in FmPatches :
          /\ patch.paths \in Seq(FmPaths) \ {<<>>} /\ patch.deleted \cap patch.added = {}
          /\ patch.deleted \cup patch.added \subseteq {patch.paths[i] : i \in DOMAIN patch.paths}
    /\ FmMaxCalls \in Nat /\ FmMaxExternal \in Nat /\ FmMaxRestores \in Nat

VARIABLES
    fmFile,       \* what a path holds
    fmSeen,       \* the lines of a path that were observed in the state it is in
    fmLock,       \* the turn that holds a path's lock, or 0
    fmTurn,       \* status, number of changes tried, and the call it is at
    fmLog,        \* the write mutations of a turn's successful calls, in order
    fmRestore,    \* the steps a restore still has to apply
    fmBound,      \* how often the bounded things happened
    fmOriginal,   \* history: what a turn's first recorded write to a path replaced
    fmShown,      \* history: the lines of a path's content that the session has seen
    fmMistaken,   \* history: paths whose content was observed for that of another write
    fmBlind,      \* history: a write replaced lines that nobody had seen
    fmTouched,    \* history: turns with a file changed under a write, from outside its lock
    fmTorn        \* history: a patch was left half applied, or a restore took files back

fmHistory == <<fmOriginal, fmShown, fmMistaken, fmBlind, fmTouched, fmTorn>>
fmVars == <<fmFile, fmSeen, fmLock, fmTurn, fmLog, fmRestore, fmBound, fmHistory>>

\* A content is named for who made it, a turn and its call or 0 and a number, and
\* for the paths that a patch gives its content to.
NoFile == <<>>
NoChange == [pc |-> "idle", tool |-> "none", paths |-> <<>>, deleted |-> {}, existed |-> {},
           todo |-> {}, before |-> NoFile, overtaken |-> FALSE]
NoRestore == [turn |-> 0, todo |-> <<>>, undone |-> {}]

FmInit ==
    /\ \E there \in FmStart :
          fmFile = [p \in FmPaths |-> IF p \in there THEN <<0, 0, {}>> ELSE NoFile]
    /\ fmSeen = [p \in FmPaths |-> {}]
    /\ fmLock = [p \in FmPaths |-> 0]
    /\ fmTurn = [t \in FmTurns |-> [status |-> "running", calls |-> 0, call |-> NoChange]]
    /\ fmLog = [t \in FmTurns |-> <<>>]
    /\ fmRestore = NoRestore
    /\ fmBound = [calls |-> 0, external |-> 0, restores |-> 0]
    /\ fmOriginal = [t \in FmTurns |-> [p \in FmPaths |-> NoFile]]
    /\ fmShown = [p \in FmPaths |-> {}]
    /\ fmMistaken = {} /\ fmBlind = FALSE /\ fmTouched = {} /\ fmTorn = FALSE

Exists(p) == fmFile[p] # NoFile
CallOf(t) == fmTurn[t].call
ListedBy(call) == {call.paths[i] : i \in DOMAIN call.paths}
PathsOf(t) == ListedBy(CallOf(t))
ContentOf(t) == <<t, fmTurn[t].calls,
                  IF CallOf(t).tool = "patch" THEN PathsOf(t) \ CallOf(t).deleted ELSE {}>>
Held(t) == {p \in FmPaths : fmLock[p] = t}
AllLines == 1 .. FmLines

FmGo(t, call) == fmTurn' = [fmTurn EXCEPT ![t].call = call]
FmIdle(t) == fmTurn[t].status = "running" /\ CallOf(t).pc = "idle"

(* observedFileReadMatchesCurrent: an observation counts while the file is in the *)
(* state it was taken in, so it is forgotten with the change that ends the state. *)
StillSeen(p) == fmSeen[p]
SeenAfterChange(p) == {}

(* A file changes. A write that somebody is at was checked against what it held.  *)
Change(p, content) ==
    /\ fmFile' = [fmFile EXCEPT ![p] = content]
    /\ fmSeen' = [fmSeen EXCEPT ![p] = SeenAfterChange(p)]
    /\ fmShown' = [fmShown EXCEPT ![p] = {}]
    /\ fmMistaken' = fmMistaken \ {p}

Overtaken(p, turns) ==
    [t \in FmTurns |->
        IF t \in turns /\ CallOf(t).tool = "write" /\ CallOf(t).pc # "end" /\ p \in PathsOf(t)
        THEN [fmTurn[t] EXCEPT !.call.overtaken = TRUE] ELSE fmTurn[t]]

(* A change that asks for no lock may fall between a write's look at a file,      *)
(* under its lock, and its own change.                                            *)
ChangeUnlocked(p, content) ==
    /\ Change(p, content)
    /\ fmTurn' = Overtaken(p, FmTurns)
    /\ fmTouched' = fmTouched \cup {t \in FmTurns : fmLock[p] = t /\ CallOf(t).tool = "write"}

------------------------------------------------------------------------------
(* What the model has seen.                                                       *)

(* observedFileReadsCoverWholeFile over the observations that match.              *)
CoverWholeFile(p) == AllLines \subseteq fmSeen[p]

(* A read shows a window of lines; its result carries the state of the file that  *)
(* was read.                                                                      *)
ReadFile(t, p, window) ==
    /\ FmIdle(t) /\ Exists(p)
    /\ fmSeen' = [fmSeen EXCEPT ![p] = @ \cup window[1] .. window[2]]
    /\ fmShown' = [fmShown EXCEPT ![p] = @ \cup window[1] .. window[2]]
    /\ UNCHANGED <<fmFile, fmLock, fmTurn, fmLog, fmRestore, fmBound, fmOriginal, fmMistaken,
                   fmBlind, fmTouched, fmTorn>>

------------------------------------------------------------------------------
(* write and apply_patch.                                                         *)

FmCall(t, call) ==
    /\ FmIdle(t) /\ fmBound.calls < FmMaxCalls
    /\ fmBound' = [fmBound EXCEPT !.calls = @ + 1]
    /\ fmTurn' = [fmTurn EXCEPT ![t] =
           [status |-> "running", calls |-> fmTurn[t].calls + 1, call |-> call]]
    /\ UNCHANGED <<fmFile, fmSeen, fmLock, fmLog, fmRestore, fmHistory>>

(* requireCompleteFreshReadBeforeWrite: a write that is refused changes nothing.  *)
StartWrite(t, p) ==
    /\ Exists(p) => CoverWholeFile(p)
    /\ FmCall(t, [NoChange EXCEPT !.pc = "lock", !.tool = "write", !.paths = <<p>>, !.todo = {p},
                                !.before = fmFile[p]])

(* planApplyPatch: what is updated or deleted must be there; what is added may.   *)
PlanPatch(t, patch) ==
    LET touched == ListedBy(patch) IN
    /\ \A p \in touched \ patch.added : Exists(p)
    /\ FmCall(t, [NoChange EXCEPT !.pc = "lock", !.tool = "patch", !.paths = patch.paths,
                                !.deleted = patch.deleted,
                                !.existed = {p \in patch.deleted : Exists(p)},
                                !.todo = touched])

(* Locks are taken one by one, in the order of the names.                         *)
NextAsListed(t) ==
    LET i == CHOOSE i \in DOMAIN CallOf(t).paths :
                 /\ CallOf(t).paths[i] \notin Held(t)
                 /\ \A j \in 1 .. i - 1 : CallOf(t).paths[j] \in Held(t)
    IN CallOf(t).paths[i]
NextToLock(t) ==
    LET missing == PathsOf(t) \ Held(t) IN CHOOSE p \in missing : \A q \in missing : p <= q

Waits(t) == CallOf(t).pc = "lock" /\ PathsOf(t) \ Held(t) # {}

Lock(t) ==
    /\ Waits(t) /\ fmLock[NextToLock(t)] = 0
    /\ fmLock' = [fmLock EXCEPT ![NextToLock(t)] = t]
    /\ UNCHANGED <<fmFile, fmSeen, fmTurn, fmLog, fmRestore, fmBound, fmHistory>>

(* captureTextMutationBefore, through BeforeMutation: only a write keeps what it  *)
(* finds.                                                                         *)
CapturedAtCheck(t) == CallOf(t).before
CapturedBefore(t) == IF CallOf(t).tool = "write" THEN fmFile[CallOf(t).paths[1]] ELSE NoFile

CaptureBefore(t) ==
    /\ CallOf(t).pc = "lock" /\ PathsOf(t) \subseteq Held(t)
    /\ FmGo(t, [CallOf(t) EXCEPT !.pc = "commit", !.before = CapturedBefore(t)])
    /\ UNCHANGED <<fmFile, fmSeen, fmLock, fmLog, fmRestore, fmBound, fmHistory>>

Unlocked(t) == [p \in FmPaths |-> IF fmLock[p] = t THEN 0 ELSE fmLock[p]]

(* The locks are held until every file is written.                                *)
UnlockedAtFirst(t, p) == Unlocked(t)
LocksAfter(t, p) == IF CallOf(t).todo = {p} THEN Unlocked(t) ELSE fmLock

(* WriteFileAtomically and os.Remove, file by file in the order of the names. A   *)
(* file that is to be deleted and was there must still be.                        *)
CommitFile(t) ==
    LET call == CallOf(t)
        p == CHOOSE p \in call.todo : \A q \in call.todo : p <= q
        next == IF call.todo # {p} THEN [call EXCEPT !.todo = @ \ {p}]
                ELSE IF call.tool = "patch" THEN [NoChange EXCEPT !.pc = "end"]
                ELSE [call EXCEPT !.todo = {}, !.overtaken = FALSE, !.pc = "end"]
    IN /\ call.pc = "commit" /\ ~(p \in call.existed /\ ~Exists(p))
       /\ Change(p, IF p \in call.deleted THEN NoFile ELSE ContentOf(t))
       /\ fmTurn' = [Overtaken(p, FmTurns \ {t}) EXCEPT ![t].call = next]
       /\ fmLock' = LocksAfter(t, p)
       /\ fmBlind' = (fmBlind \/ /\ call.tool = "write" /\ ~call.overtaken /\ p \notin fmMistaken
                                 /\ Exists(p) /\ ~(AllLines \subseteq fmShown[p]))
       /\ fmOriginal' = IF call.tool = "write" /\ ~\E i \in DOMAIN fmLog[t] : fmLog[t][i].path = p
                        THEN [fmOriginal EXCEPT ![t][p] = fmFile[p]] ELSE fmOriginal
       /\ fmRestore' = [fmRestore EXCEPT !.undone = @ \ {p}]
       /\ UNCHANGED <<fmLog, fmBound, fmTouched, fmTorn>>

(* The operating system refuses, or a file to delete is gone: what was written    *)
(* stays, and the call's end records an error and no mutation.                    *)
CommitFails(t) ==
    /\ CallOf(t).pc = "commit"
    /\ FmGo(t, NoChange)
    /\ fmLock' = Unlocked(t)
    /\ fmTorn' = (fmTorn \/ CallOf(t).todo # PathsOf(t))
    /\ UNCHANGED <<fmFile, fmSeen, fmLog, fmRestore, fmBound, fmOriginal, fmShown, fmMistaken,
                   fmBlind, fmTouched>>

(* finalizeTextMutation, augmentTextMutationObservedResources and the append of   *)
(* the call's end. A write counts as an observation of the whole file, in the     *)
(* state it is in now: the lock is gone, and diagnostics were waited for, so it   *)
(* may be a state that somebody else left. The session has seen what it wrote.    *)
EndCall(t) ==
    LET p == CallOf(t).paths[1]
        mine == fmFile[p] = ContentOf(t)
    IN /\ CallOf(t).pc = "end"
       /\ FmGo(t, NoChange)
       /\ IF CallOf(t).tool # "write" THEN UNCHANGED <<fmLog, fmSeen, fmShown, fmMistaken>>
          ELSE /\ fmLog' = [fmLog EXCEPT ![t] = Append(@, [path |-> p, before |-> CallOf(t).before,
                                                           after |-> ContentOf(t)])]
               /\ fmSeen' = [fmSeen EXCEPT ![p] = IF Exists(p) THEN AllLines ELSE @]
               /\ fmShown' = [fmShown EXCEPT ![p] = IF mine THEN AllLines ELSE @]
               /\ fmMistaken' = IF Exists(p) /\ ~mine THEN fmMistaken \cup {p} ELSE fmMistaken
       /\ UNCHANGED <<fmFile, fmLock, fmRestore, fmBound, fmOriginal, fmBlind, fmTouched, fmTorn>>

(* The end cannot be stored, and the turn fails: the file has changed, and        *)
(* nothing says so.                                                               *)
EndFails(t) ==
    /\ CallOf(t).pc = "end"
    /\ fmTurn' = [fmTurn EXCEPT ![t].call = NoChange, ![t].status = "ended"]
    /\ UNCHANGED <<fmFile, fmSeen, fmLock, fmLog, fmRestore, fmBound, fmHistory>>

FinishTurn(t) ==
    /\ FmIdle(t)
    /\ fmTurn' = [fmTurn EXCEPT ![t].status = "ended"]
    /\ UNCHANGED <<fmFile, fmSeen, fmLock, fmLog, fmRestore, fmBound, fmHistory>>

------------------------------------------------------------------------------
(* /restore.                                                                      *)

(* buildWriteRestoreSteps: the turn's writes, last one first.                     *)
RestoreSteps(t) == Reverse(fmLog[t])

(* validateWriteRestoreSteps: before each step its path must hold what the call   *)
(* wrote, if the steps before it are taken as done.                               *)
Valid(steps) ==
    \A i \in DOMAIN steps :
        LET earlier == {j \in 1 .. i - 1 : steps[j].path = steps[i].path}
        IN steps[i].after = IF earlier = {} THEN fmFile[steps[i].path]
                            ELSE steps[Max(earlier)].before

StartRestore(t) ==
    /\ fmRestore.turn = 0 /\ fmBound.restores < FmMaxRestores
    /\ fmTurn[t].status = "ended" /\ fmLog[t] # <<>> /\ Valid(RestoreSteps(t))
    /\ fmRestore' = [turn |-> t, todo |-> RestoreSteps(t), undone |-> {}]
    /\ fmBound' = [fmBound EXCEPT !.restores = @ + 1]
    /\ UNCHANGED <<fmFile, fmSeen, fmLock, fmTurn, fmLog, fmHistory>>

(* applyWriteRestoreStep: the content before the call is put back, whatever is    *)
(* there now, or the file is removed.                                             *)
ApplyRestoreStep ==
    LET step == Head(fmRestore.todo) IN
    /\ fmRestore.todo # <<>>
    /\ ChangeUnlocked(step.path, step.before)
    /\ fmRestore' = [fmRestore EXCEPT !.todo = Tail(@), !.undone = @ \cup {step.path}]
    /\ fmTorn' = TRUE
    /\ UNCHANGED <<fmLock, fmLog, fmBound, fmOriginal, fmBlind>>

(* A step the operating system refuses ends the restore half done; the last step  *)
(* is followed by its event.                                                      *)
EndRestore ==
    /\ fmRestore.turn # 0
    /\ fmRestore' = NoRestore
    /\ UNCHANGED <<fmFile, fmSeen, fmLock, fmTurn, fmLog, fmBound, fmHistory>>

------------------------------------------------------------------------------
(* The rest of the world.                                                         *)

External(p, content) ==
    /\ fmBound.external < FmMaxExternal /\ content # fmFile[p]
    /\ ChangeUnlocked(p, content)
    /\ fmBound' = [fmBound EXCEPT !.external = @ + 1]
    /\ fmRestore' = [fmRestore EXCEPT !.undone = @ \ {p}]
    /\ UNCHANGED <<fmLock, fmLog, fmOriginal, fmBlind, fmTorn>>

FmTurnStep(t) ==
    \/ \E p \in FmPaths : StartWrite(t, p) \/ \E window \in FmWindows : ReadFile(t, p, window)
    \/ \E patch \in FmPatches : PlanPatch(t, patch)
    \/ Lock(t) \/ CaptureBefore(t) \/ CommitFile(t) \/ CommitFails(t)
    \/ EndCall(t) \/ EndFails(t) \/ FinishTurn(t)

FmNext ==
    \/ \E t \in FmTurns : FmTurnStep(t) \/ StartRestore(t)
    \/ ApplyRestoreStep \/ EndRestore
    \/ \E p \in FmOutside : \E content \in {NoFile, <<0, fmBound.external + 1, {}>>} : External(p, content)

FmSpec == FmInit /\ [][FmNext]_fmVars

------------------------------------------------------------------------------
(* Properties.                                                                    *)

FmContents == {NoFile} \cup ({0} \cup FmTurns) \X Nat \X SUBSET FmPaths
FmMutations == [path : FmPaths, before : FmContents, after : FmContents]

(* Files, locks, calls, logs and the restore stay in their sets.                  *)
FmTypeOK ==
    /\ fmFile \in [FmPaths -> FmContents]
    /\ fmSeen \in [FmPaths -> SUBSET AllLines]
    /\ fmLock \in [FmPaths -> FmTurns \cup {0}]
    /\ \A t \in FmTurns :
          /\ fmTurn[t].status \in {"running", "ended"} /\ fmTurn[t].calls \in Nat
          /\ CallOf(t).pc \in {"idle", "lock", "commit", "end"}
          /\ CallOf(t).pc \in {"idle", "end"} => Held(t) = {}
          /\ fmLog[t] \in Seq(FmMutations)
    /\ fmRestore.todo \in Seq(FmMutations)

(* Calls that wait for one another's locks would wait forever.                    *)
FmNobodyDeadlocks ==
    \A waiting \in SUBSET FmTurns :
        ~ /\ waiting # {}
          /\ \A t \in waiting : Waits(t) /\ fmLock[NextToLock(t)] \in waiting

(* Of two patches that are through and touch the same files the later one has     *)
(* them all: no order of their steps mixes them. Left out are patches that failed *)
(* halfway, and what a restore brings back.                                       *)
FmPatchesStayWhole ==
    LET through(content) == \A t \in FmTurns : CallOf(t).pc = "commit" => ContentOf(t) # content
    IN fmTorn \/ \A p, q \in FmPaths :
          /\ Exists(p) /\ Exists(q) /\ {p, q} \subseteq fmFile[p][3] \cap fmFile[q][3]
          /\ through(fmFile[p]) /\ through(fmFile[q])
          => fmFile[p] = fmFile[q]

(* A restore brings back what the turn's first recorded write to each file        *)
(* replaced, also when another call wrote the file just before it. Left out are   *)
(* files that somebody changed without the lock while the call was at it.         *)
FmRestoreIsExact ==
    fmRestore.turn # 0 /\ fmRestore.todo = <<>> /\ fmRestore.turn \notin fmTouched =>
        \A p \in fmRestore.undone : fmFile[p] = fmOriginal[fmRestore.turn][p]

(* A write replaces no line of an existing file that the session has not seen as  *)
(* it is. Left out are files changed while the write was at its check and its     *)
(* change, and those changed while an earlier write was between its change and    *)
(* its observation, which takes what it finds for its own.                        *)
FmWritesAreInformed == ~fmBlind
====
