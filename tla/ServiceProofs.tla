--------------------------- MODULE ServiceProofs ---------------------------
(***************************************************************************)
(* Three services:                                                         *)
(*   - the paired submission implements at-most-once sending, for any      *)
(*     number of tasks, crashes and session changes;                       *)
(*   - duress mode never opens on a Cube that was to be wiped, and wipes   *)
(*     no other, for any set of Cubes and any number of activations;       *)
(*   - no derivation index is handed out twice, for any number of requests *)
(*     and any look-ahead and last index.                                  *)
(***************************************************************************)
EXTENDS PairedClaim, DuressMode, DerivationIndex, TLAPS

(***************************************************************************)
(* The paired submission                                                   *)
(***************************************************************************)

(* The file system is never behind what survives a power loss; a gate is   *)
(* made after its attempt is on disk for good; the fork's attempt is made  *)
(* after the Bitcoin transaction left and was six blocks deep.             *)
JournalInv ==
    /\ synced <= disk
    /\ \A s \in ClaimSides : gate[s] # "none" => synced >= After(s)
    /\ disk >= ForkAttempt => wire["bitcoin"] > 0 /\ wasDeep

(* A task that is under way holds the lock, so there is one; from the      *)
(* review on its side is settled.                                          *)
TaskInv ==
    \A t \in Tasks :
        /\ pc[t] # "idle" => lock = t /\ answer[t] = "none"
        /\ pc[t] \notin {"idle", "open"} /\ side[t] = "fork" =>
             wire["bitcoin"] > 0 /\ wasDeep
        /\ pc[t] = "spawn" => gate[side[t]] = "pending" /\ worker[side[t]] = "none"
        /\ pc[t] = "waiting" => gate[side[t]] # "none"

(* A gate is entered once, and everything that leaves does so behind it.   *)
SendInv ==
    \A s \in ClaimSides :
        /\ worker[s] # "none" => gate[s] # "none"
        /\ worker[s] = "queued" => gate[s] # "started"
        /\ worker[s] = "sending" => gate[s] = "started" /\ wire[s] = 0
        /\ worker[s] = "accepted" => wire[s] = 1
        /\ wire[s] > 0 => wire[s] = 1 /\ gate[s] = "started"

(* A worker that may still enter its gate has a task that waits for it.    *)
WaitInv ==
    \A s \in ClaimSides :
        worker[s] = "queued" /\ gate[s] = "pending" =>
            \E t \in Tasks : pc[t] = "waiting" /\ side[t] = s

AnswerInv ==
    \A t \in Tasks : answer[t] = "accepted" => wire[side[t]] = 1

NetInv ==
    /\ bitcoin # "absent" => wire["bitcoin"] > 0
    /\ bitcoin = "deep" => wasDeep

ClaimInv ==
    ClaimTypeOK /\ JournalInv /\ TaskInv /\ SendInv /\ WaitInv /\ AnswerInv /\ NetInv

(* The names of stages and sides, and the groups of variables, are expanded *)
(* throughout.                                                             *)
USE DEF NoIntent, Unsigned, Signed, BitcoinAttempt, ForkAttempt, Stages, ClaimSides,
        Before, After, journalVars, taskVars, sendVars, netVars

(* A task that ends leaves the variables it writes well typed.             *)
LEMMA ReturnTypes ==
    ASSUME NEW t \in Tasks, NEW result \in {"error", "uncertain", "accepted"},
           ClaimTypeOK, Return(t, result)
    PROVE  /\ pc' \in [Tasks -> {"idle", "open", "review", "preflight", "record",
                                 "spawn", "waiting"}]
           /\ answer' \in [Tasks -> {"none", "error", "uncertain", "accepted"}]
           /\ lock' \in Tasks \union {NoTask}
           /\ fresh' \in [Tasks -> BOOLEAN]
BY DEF ClaimTypeOK, Return

(* The intent and the signed pair are recorded while no task is under      *)
(* way.                                                                    *)
LEMMA RecordKeeps ==
    ASSUME NEW from \in {NoIntent, Unsigned}, ClaimInv, Record(from) PROVE ClaimInv'
<1>1. ClaimTypeOK'
  BY DEF ClaimInv, ClaimTypeOK, Record
<1>2. JournalInv' /\ SendInv' /\ NetInv'
  BY DEF ClaimInv, ClaimTypeOK, JournalInv, SendInv, NetInv, Record
<1>3. TaskInv'
  BY DEF ClaimInv, ClaimTypeOK, TaskInv, Record
<1>4. WaitInv' /\ AnswerInv'
  BY DEF ClaimInv, ClaimTypeOK, WaitInv, AnswerInv, Record
<1> QED BY <1>1, <1>2, <1>3, <1>4 DEF ClaimInv, ClaimTypeOK

(* Reopen takes the lock, which nobody held, and starts with no answer.    *)
LEMMA ReopenKeeps ==
    ASSUME NEW t \in Tasks, ClaimInv, Reopen(t) PROVE ClaimInv'
<1>1. ClaimTypeOK'
  BY DEF ClaimInv, ClaimTypeOK, Reopen
<1>2. JournalInv' /\ SendInv' /\ NetInv'
  BY DEF ClaimInv, ClaimTypeOK, JournalInv, SendInv, NetInv, Reopen
<1>3. TaskInv'
  BY ClaimAssumption DEF ClaimInv, ClaimTypeOK, TaskInv, Reopen
<1>4. WaitInv' /\ AnswerInv'
  BY DEF ClaimInv, ClaimTypeOK, WaitInv, AnswerInv, Reopen
<1> QED BY <1>1, <1>2, <1>3, <1>4 DEF ClaimInv, ClaimTypeOK

(* A first-send review is about the Bitcoin side.                          *)
LEMMA PrepareInitialReviewKeeps ==
    ASSUME NEW t \in Tasks, ClaimInv, PrepareInitialReview(t) PROVE ClaimInv'
<1>1. ClaimTypeOK'
  BY DEF ClaimInv, ClaimTypeOK, PrepareInitialReview
<1>2. JournalInv' /\ SendInv' /\ NetInv'
  BY DEF ClaimInv, ClaimTypeOK, JournalInv, SendInv, NetInv, PrepareInitialReview
<1>3. TaskInv'
  BY DEF ClaimInv, ClaimTypeOK, TaskInv, PrepareInitialReview
<1>4. WaitInv' /\ AnswerInv'
  BY DEF ClaimInv, ClaimTypeOK, TaskInv, WaitInv, AnswerInv, PrepareInitialReview
<1> QED BY <1>1, <1>2, <1>3, <1>4 DEF ClaimInv, ClaimTypeOK

(* A second-send review sees the Bitcoin transaction deep, so it left      *)
(* before.                                                                 *)
LEMMA PreparePostBitcoinReviewKeeps ==
    ASSUME NEW t \in Tasks, ClaimInv, PreparePostBitcoinReview(t) PROVE ClaimInv'
<1>1. ClaimTypeOK'
  BY DEF ClaimInv, ClaimTypeOK, PreparePostBitcoinReview
<1>2. JournalInv' /\ SendInv' /\ NetInv'
  BY DEF ClaimInv, ClaimTypeOK, JournalInv, SendInv, NetInv,
     PreparePostBitcoinReview
<1>3. TaskInv'
  BY DEF ClaimInv, ClaimTypeOK, TaskInv, NetInv, PreparePostBitcoinReview
<1>4. WaitInv' /\ AnswerInv'
  BY DEF ClaimInv, ClaimTypeOK, TaskInv, WaitInv, AnswerInv,
     PreparePostBitcoinReview
<1> QED BY <1>1, <1>2, <1>3, <1>4 DEF ClaimInv, ClaimTypeOK

(* No review: the task ends.                                               *)
LEMMA PrepareFailsKeeps ==
    ASSUME NEW t \in Tasks, ClaimInv, PrepareFails(t) PROVE ClaimInv'
<1>1. ClaimTypeOK'
  BY ReturnTypes DEF ClaimInv, ClaimTypeOK, PrepareFails
<1>2. JournalInv' /\ SendInv' /\ NetInv'
  BY DEF ClaimInv, ClaimTypeOK, JournalInv, SendInv, NetInv, PrepareFails
<1>3. TaskInv'
  BY DEF ClaimInv, ClaimTypeOK, TaskInv, PrepareFails, Return
<1>4. WaitInv' /\ AnswerInv'
  BY DEF ClaimInv, ClaimTypeOK, WaitInv, AnswerInv, PrepareFails, Return
<1> QED BY <1>1, <1>2, <1>3, <1>4 DEF ClaimInv, ClaimTypeOK

(* The passing of time changes no more than the freshness.                 *)
LEMMA AgeKeeps ==
    ASSUME NEW t \in Tasks, ClaimInv, Age(t) PROVE ClaimInv'
<1>1. ClaimTypeOK'
  BY DEF ClaimInv, ClaimTypeOK, Age
<1>2. JournalInv' /\ SendInv' /\ NetInv'
  BY DEF ClaimInv, ClaimTypeOK, JournalInv, SendInv, NetInv, Age
<1>3. TaskInv'
  BY DEF ClaimInv, ClaimTypeOK, TaskInv, Age
<1>4. WaitInv' /\ AnswerInv'
  BY DEF ClaimInv, ClaimTypeOK, WaitInv, AnswerInv, Age
<1> QED BY <1>1, <1>2, <1>3, <1>4 DEF ClaimInv, ClaimTypeOK

(* A stale review ends the task.                                           *)
LEMMA ConfirmKeeps ==
    ASSUME NEW t \in Tasks, ClaimInv, Confirm(t) PROVE ClaimInv'
<1>1. ClaimTypeOK'
  BY ReturnTypes DEF ClaimInv, ClaimTypeOK, Confirm
<1>2. JournalInv' /\ SendInv' /\ NetInv'
  BY DEF ClaimInv, ClaimTypeOK, JournalInv, SendInv, NetInv, Confirm
<1>3. TaskInv'
  BY DEF ClaimInv, ClaimTypeOK, TaskInv, Confirm, Return
<1>4. WaitInv' /\ AnswerInv'
  BY DEF ClaimInv, ClaimTypeOK, WaitInv, AnswerInv, Confirm, Return
<1> QED BY <1>1, <1>2, <1>3, <1>4 DEF ClaimInv, ClaimTypeOK

(* The policy read lets the task go on or ends it.                         *)
LEMMA PreflightKeeps ==
    ASSUME NEW t \in Tasks, ClaimInv, Preflight(t) PROVE ClaimInv'
<1>1. ClaimTypeOK'
  BY ReturnTypes DEF ClaimInv, ClaimTypeOK, Preflight
<1>2. JournalInv' /\ SendInv' /\ NetInv'
  BY DEF ClaimInv, ClaimTypeOK, JournalInv, SendInv, NetInv, Preflight
<1>3. TaskInv'
  BY DEF ClaimInv, ClaimTypeOK, TaskInv, Preflight, Return
<1>4. WaitInv' /\ AnswerInv'
  BY DEF ClaimInv, ClaimTypeOK, JournalInv, WaitInv, AnswerInv, Preflight, Return
<1> QED BY <1>1, <1>2, <1>3, <1>4 DEF ClaimInv, ClaimTypeOK

(* The attempt of a side is recorded at most once, since the journal       *)
(* still has the stage before it, so its gate is new; a failed store       *)
(* makes no gate.                                                          *)
LEMMA RecordAttemptKeeps ==
    ASSUME NEW t \in Tasks, ClaimInv, RecordAttempt(t) PROVE ClaimInv'
<1>1. ClaimTypeOK'
  BY ReturnTypes, ClaimAssumption DEF ClaimInv, ClaimTypeOK, RecordAttempt, Store,
     StoreUnsynced
<1>2. JournalInv' /\ SendInv' /\ NetInv'
  BY DEF ClaimInv, ClaimTypeOK, JournalInv, TaskInv, SendInv, NetInv, RecordAttempt,
     MayRecord, Store, StoreUnsynced
<1>3. TaskInv'
  BY ClaimAssumption DEF ClaimInv, ClaimTypeOK, JournalInv, TaskInv, SendInv,
     RecordAttempt, Return, MayRecord, Store
<1>4. WaitInv' /\ AnswerInv'
  BY DEF ClaimInv, ClaimTypeOK, JournalInv, SendInv, WaitInv, AnswerInv, RecordAttempt,
     Return, MayRecord, Store
<1> QED BY <1>1, <1>2, <1>3, <1>4 DEF ClaimInv, ClaimTypeOK

(* The worker of a gate is queued while its task begins to wait.           *)
LEMMA SpawnKeeps ==
    ASSUME NEW t \in Tasks, ClaimInv, Spawn(t) PROVE ClaimInv'
<1>1. ClaimTypeOK'
  BY ReturnTypes, ClaimAssumption DEF ClaimInv, ClaimTypeOK, Spawn
<1>2. JournalInv' /\ SendInv' /\ NetInv'
  BY DEF ClaimInv, ClaimTypeOK, JournalInv, TaskInv, SendInv, NetInv, Spawn
<1>3. TaskInv'
  BY ClaimAssumption DEF ClaimInv, ClaimTypeOK, TaskInv, Spawn, Return
<1>4. WaitInv' /\ AnswerInv'
  BY DEF ClaimInv, ClaimTypeOK, JournalInv, WaitInv, AnswerInv, Spawn, Return
<1> QED BY <1>1, <1>2, <1>3, <1>4 DEF ClaimInv, ClaimTypeOK

(* The answer revokes a gate nobody entered; an accepted one has left.     *)
LEMMA AnswerKeeps ==
    ASSUME NEW t \in Tasks, ClaimInv, Answer(t) PROVE ClaimInv'
<1>1. ClaimTypeOK'
  BY ReturnTypes DEF ClaimInv, ClaimTypeOK, Answer, Revoke
<1>2. JournalInv' /\ SendInv' /\ NetInv'
  BY DEF ClaimInv, ClaimTypeOK, JournalInv, SendInv, NetInv, Answer, Revoke
<1>3. TaskInv'
  BY ClaimAssumption DEF ClaimInv, ClaimTypeOK, TaskInv, SendInv, Answer, Return
<1>4. WaitInv' /\ AnswerInv'
  BY DEF ClaimInv, ClaimTypeOK, JournalInv, SendInv, WaitInv, AnswerInv, Answer, Return,
     Revoke
<1> QED BY <1>1, <1>2, <1>3, <1>4 DEF ClaimInv, ClaimTypeOK

(* The gate is entered from pending, once.                                 *)
LEMMA EnterKeeps ==
    ASSUME NEW s \in ClaimSides, ClaimInv, Enter(s) PROVE ClaimInv'
<1>1. ClaimTypeOK'
  BY ClaimAssumption DEF ClaimInv, ClaimTypeOK, Enter
<1>2. JournalInv' /\ SendInv' /\ NetInv'
  BY DEF ClaimInv, ClaimTypeOK, JournalInv, SendInv, NetInv, Enter
<1>3. TaskInv'
  BY ClaimAssumption DEF ClaimInv, ClaimTypeOK, TaskInv, Enter
<1>4. WaitInv' /\ AnswerInv'
  BY DEF ClaimInv, ClaimTypeOK, JournalInv, SendInv, WaitInv, AnswerInv, Enter
<1> QED BY <1>1, <1>2, <1>3, <1>4 DEF ClaimInv, ClaimTypeOK

(* The request of a worker inside its gate is the first.                   *)
LEMMA SendRequestKeeps ==
    ASSUME NEW s \in ClaimSides, ClaimInv, SendRequest(s) PROVE ClaimInv'
<1>1. ClaimTypeOK'
  BY ClaimAssumption DEF ClaimInv, ClaimTypeOK, SendRequest
<1>2. JournalInv' /\ SendInv' /\ NetInv'
  BY DEF ClaimInv, ClaimTypeOK, JournalInv, SendInv, NetInv, SendRequest
<1>3. TaskInv'
  BY ClaimAssumption DEF ClaimInv, ClaimTypeOK, TaskInv, SendRequest
<1>4. WaitInv' /\ AnswerInv'
  BY DEF ClaimInv, ClaimTypeOK, JournalInv, SendInv, WaitInv, AnswerInv, SendRequest
<1> QED BY <1>1, <1>2, <1>3, <1>4 DEF ClaimInv, ClaimTypeOK

(* The network has the Bitcoin transaction only after it left.             *)
LEMMA NetworkKeeps ==
    ASSUME ClaimInv, Network PROVE ClaimInv'
<1>1. ClaimTypeOK'
  BY DEF ClaimInv, ClaimTypeOK, Network
<1>2. JournalInv' /\ SendInv' /\ NetInv'
  BY Zenon DEF ClaimInv, ClaimTypeOK, JournalInv, SendInv, NetInv, Network
<1>3. TaskInv'
  BY ClaimAssumption DEF ClaimInv, ClaimTypeOK, TaskInv, Network
<1>4. WaitInv' /\ AnswerInv'
  BY DEF ClaimInv, ClaimTypeOK, JournalInv, TaskInv, SendInv, WaitInv, AnswerInv,
     Network
<1> QED BY <1>1, <1>2, <1>3, <1>4 DEF ClaimInv, ClaimTypeOK

(* A session change touches nothing else.                                  *)
LEMMA ChangeSessionKeeps ==
    ASSUME ClaimInv, ChangeSession PROVE ClaimInv'
<1>1. ClaimTypeOK'
  BY DEF ClaimInv, ClaimTypeOK, ChangeSession
<1>2. JournalInv' /\ SendInv' /\ NetInv'
  BY DEF ClaimInv, ClaimTypeOK, JournalInv, SendInv, NetInv, ChangeSession
<1>3. TaskInv'
  BY DEF ClaimInv, ClaimTypeOK, TaskInv, ChangeSession
<1>4. WaitInv' /\ AnswerInv'
  BY DEF ClaimInv, ClaimTypeOK, JournalInv, SendInv, WaitInv, AnswerInv, ChangeSession
<1> QED BY <1>1, <1>2, <1>3, <1>4 DEF ClaimInv, ClaimTypeOK

(* The file system catches up.                                             *)
LEMMA WriteBackKeeps ==
    ASSUME ClaimInv, WriteBack PROVE ClaimInv'
<1>1. ClaimTypeOK'
  BY DEF ClaimInv, ClaimTypeOK, WriteBack
<1>2. JournalInv' /\ SendInv' /\ NetInv'
  BY DEF ClaimInv, ClaimTypeOK, JournalInv, SendInv, NetInv, WriteBack
<1>3. TaskInv'
  BY DEF ClaimInv, ClaimTypeOK, TaskInv, WriteBack
<1>4. WaitInv' /\ AnswerInv'
  BY DEF ClaimInv, ClaimTypeOK, JournalInv, SendInv, WaitInv, AnswerInv, WriteBack
<1> QED BY <1>1, <1>2, <1>3, <1>4 DEF ClaimInv, ClaimTypeOK

(* A crash ends tasks and workers; the disk falls back to no less than     *)
(* what was synced.                                                        *)
LEMMA CrashKeeps ==
    ASSUME ClaimInv, Crash PROVE ClaimInv'
<1>1. ClaimTypeOK'
  BY DEF ClaimInv, ClaimTypeOK, Crash
<1>2. JournalInv' /\ SendInv' /\ NetInv'
  BY DEF ClaimInv, ClaimTypeOK, JournalInv, SendInv, NetInv, Crash
<1>3. TaskInv'
  BY DEF TaskInv, Crash
<1>4. WaitInv' /\ AnswerInv'
  BY DEF ClaimInv, ClaimTypeOK, WaitInv, AnswerInv, Crash
<1> QED BY <1>1, <1>2, <1>3, <1>4 DEF ClaimInv, ClaimTypeOK

(* A step of something else.                                               *)
LEMMA StutterKeeps ==
    ASSUME ClaimInv, UNCHANGED claimVars PROVE ClaimInv'
<1>1. ClaimTypeOK'
  BY DEF ClaimInv, ClaimTypeOK, claimVars
<1>2. JournalInv' /\ SendInv' /\ NetInv'
  BY DEF ClaimInv, ClaimTypeOK, JournalInv, SendInv, NetInv, claimVars
<1>3. TaskInv'
  BY DEF ClaimInv, ClaimTypeOK, TaskInv, claimVars
<1>4. WaitInv' /\ AnswerInv'
  BY DEF ClaimInv, ClaimTypeOK, JournalInv, TaskInv, SendInv, WaitInv, AnswerInv,
     claimVars
<1> QED BY <1>1, <1>2, <1>3, <1>4 DEF ClaimInv, ClaimTypeOK
-----------------------------------------------------------------------------
USE DEF AttemptsOf

(* A claim satisfies the invariant before its intent is created.           *)
LEMMA InitClaim == ASSUME ClaimInit PROVE ClaimInv
<1>1. ClaimTypeOK
  <2>1. fresh \in [Tasks -> BOOLEAN] /\ wasDeep \in BOOLEAN
    BY Zenon DEF ClaimInit
  <2> QED BY <2>1 DEF ClaimInit, ClaimTypeOK
<1>2. JournalInv /\ SendInv /\ NetInv
  BY DEF ClaimInit, JournalInv, SendInv, NetInv
<1>3. TaskInv /\ WaitInv /\ AnswerInv
  BY DEF ClaimInit, TaskInv, WaitInv, AnswerInv
<1> QED BY <1>1, <1>2, <1>3 DEF ClaimInv, ClaimTypeOK

(* Every step of a claim keeps the invariant.                              *)
LEMMA StepClaim == ASSUME ClaimInv, [ClaimNext]_claimVars PROVE ClaimInv'
<1>1. ASSUME CreateIntent \/ RecordSignedPair PROVE ClaimInv'
  BY <1>1, RecordKeeps DEF CreateIntent, RecordSignedPair
<1>2. ASSUME NEW t \in Tasks, TaskStep(t) PROVE ClaimInv'
  BY <1>2, ReopenKeeps, PrepareInitialReviewKeeps, PreparePostBitcoinReviewKeeps,
     PrepareFailsKeeps, AgeKeeps, ConfirmKeeps, PreflightKeeps, RecordAttemptKeeps,
     SpawnKeeps, AnswerKeeps DEF TaskStep
<1>3. ASSUME NEW s \in ClaimSides, Enter(s) \/ SendRequest(s) PROVE ClaimInv'
  BY <1>3, EnterKeeps, SendRequestKeeps
<1>4. ASSUME Network \/ ChangeSession \/ WriteBack \/ Crash PROVE ClaimInv'
  BY <1>4, NetworkKeeps, ChangeSessionKeeps, WriteBackKeeps, CrashKeeps
<1>5. ASSUME UNCHANGED claimVars PROVE ClaimInv'
  BY <1>5, StutterKeeps
<1> QED BY <1>1, <1>2, <1>3, <1>4, <1>5 DEF ClaimNext

(* The invariant holds of every claim, whatever order tasks, workers, the  *)
(* network, session changes and crashes take.                              *)
LEMMA ClaimInvariant == ClaimSpec => []ClaimInv
<1>1. ClaimInit => ClaimInv
  BY InitClaim
<1>2. ClaimInv /\ [ClaimNext]_claimVars => ClaimInv'
  BY StepClaim
<1> QED BY <1>1, <1>2, PTL DEF ClaimSpec

(* The fork's transaction leaves only after the Bitcoin transaction had    *)
(* six confirmations: its gate is behind a durable fork attempt, which is  *)
(* recorded by a task whose review saw them.                               *)
THEOREM ForkWaitsForBitcoin == ClaimSpec => []ForkAfterSixConfirmations
<1>1. ClaimInv => ForkAfterSixConfirmations
  BY DEF ClaimInv, ClaimTypeOK, JournalInv, SendInv, ForkAfterSixConfirmations
<1> QED BY <1>1, ClaimInvariant, PTL

(* confirm_and_submit reports acceptance only of a transaction that left.  *)
THEOREM AcceptedMeansSent == ClaimSpec => []AnswersAreTrue
<1>1. ClaimInv => AnswersAreTrue
  BY DEF ClaimInv, ClaimTypeOK, AnswerInv, AnswersAreTrue
<1> QED BY <1>1, ClaimInvariant, PTL

(* A worker enters its gate only while the task that spawned it waits.     *)
THEOREM AnswerClosesTheGate == ClaimSpec => NoSendStartsAfterAnswer
<1> DEFINE Waited == \A s \in ClaimSides :
             gate[s] = "pending" /\ gate'[s] = "started" =>
                 \E t \in Tasks : pc[t] = "waiting" /\ side[t] = s
<1>1. ClaimInv /\ [ClaimNext]_claimVars => [Waited]_claimVars
  <2> SUFFICES ASSUME ClaimInv, ClaimNext PROVE Waited
    OBVIOUS
  <2>1. ASSUME NEW s \in ClaimSides, Enter(s) PROVE Waited
    <3>1. worker[s] = "queued" /\ \A x \in ClaimSides \ {s} : gate'[x] = gate[x]
      BY <2>1 DEF ClaimInv, ClaimTypeOK, Enter
    <3>2. gate[s] = "pending" => \E t \in Tasks : pc[t] = "waiting" /\ side[t] = s
      <4>1. WaitInv
        BY Zenon DEF ClaimInv
      <4> QED BY <3>1, <4>1, Zenon DEF WaitInv
    <3>3. QED
      BY <3>1, <3>2, Zenon
  <2>2. ASSUME NEW t \in Tasks, TaskStep(t) PROVE Waited
    BY <2>2, Zenon DEF ClaimInv, ClaimTypeOK, TaskStep, Reopen, PrepareInitialReview,
       PreparePostBitcoinReview, PrepareFails, Age, Confirm, Preflight, RecordAttempt,
       Spawn, Answer, Revoke
  <2>3. ASSUME UNCHANGED gate PROVE Waited
    BY <2>3
  <2> QED BY <2>1, <2>2, <2>3 DEF ClaimNext, CreateIntent, RecordSignedPair, Record,
          SendRequest, Network, ChangeSession, WriteBack, Crash
<1> QED BY <1>1, ClaimInvariant, PTL DEF ClaimSpec, NoSendStartsAfterAnswer
-----------------------------------------------------------------------------
(* What becomes durable in one step is at most one attempt, the fork's     *)
(* after the Bitcoin transaction left.                                     *)
LEMMA DurableStep ==
    ASSUME ClaimInv, synced' \in Stages, synced' >= synced, synced' <= disk',
           UNCHANGED wire,
           disk' >= ForkAttempt => wire["bitcoin"] > 0
    PROVE  [Once!Next]_<<AttemptsOf(synced), wire>>
<1>1. CASE AttemptsOf(synced') = AttemptsOf(synced)
  BY <1>1
<1>2. CASE synced < BitcoinAttempt /\ synced' = BitcoinAttempt
  <2>1. AttemptsOf(synced) = {} /\ AttemptsOf(synced') = {"bitcoin"}
    BY <1>2 DEF ClaimInv, ClaimTypeOK
  <2>2. Once!Attempt("bitcoin")
    BY <2>1 DEF Once!Attempt
  <2> QED BY <2>2 DEF Once!Next, Once!Sides
<1>3. CASE synced = BitcoinAttempt /\ synced' = ForkAttempt
  <2>1. AttemptsOf(synced) = {"bitcoin"} /\ AttemptsOf(synced') = {"bitcoin", "fork"}
    BY <1>3
  <2>2. Once!Attempt("fork")
    BY <1>3, <2>1 DEF Once!Attempt
  <2> QED BY <2>2 DEF Once!Next, Once!Sides
<1>4. CASE synced < BitcoinAttempt /\ synced' = ForkAttempt
  BY <1>4 DEF ClaimInv, ClaimTypeOK, JournalInv, SendInv
<1> QED BY <1>1, <1>2, <1>3, <1>4 DEF ClaimInv, ClaimTypeOK

(* The submission implements the promise of PairOnce: a step makes one     *)
(* attempt durable, sends one side, or changes neither.                    *)
THEOREM SubmissionImplementsOnce == ClaimSpec => SubmitsAtMostOnce
<1>1. ClaimInit => Once!Init
  BY DEF ClaimInit, Once!Init, Once!Sides
<1>2. ClaimInv /\ ClaimInv' /\ [ClaimNext]_claimVars
        => [Once!Next]_<<AttemptsOf(synced), wire>>
  <2> SUFFICES ASSUME ClaimInv, ClaimInv', [ClaimNext]_claimVars
               PROVE  [Once!Next]_<<AttemptsOf(synced), wire>>
    OBVIOUS
  <2>1. ASSUME NEW s \in ClaimSides, SendRequest(s)
        PROVE  [Once!Next]_<<AttemptsOf(synced), wire>>
    <3>1. CASE UNCHANGED wire
      BY <2>1, <3>1 DEF SendRequest
    <3>2. CASE wire' = [wire EXCEPT ![s] = @ + 1]
      <4>1. s \in AttemptsOf(synced) /\ wire[s] = 0
        BY <2>1 DEF SendRequest, ClaimInv, ClaimTypeOK, JournalInv, SendInv
      <4>2. wire' = [wire EXCEPT ![s] = 1] /\ UNCHANGED synced
        <5>1. UNCHANGED synced
          BY <2>1, Zenon DEF SendRequest
        <5>2. wire[s] + 1 = 1
          BY <4>1
        <5> QED BY <3>2, <5>1, <5>2, Zenon
      <4>3. Once!Send(s)
        BY <4>1, <4>2 DEF Once!Send
      <4> QED BY <4>3 DEF Once!Next, Once!Sides
    <3> QED BY <2>1, <3>1, <3>2 DEF SendRequest
  <2>2. ASSUME UNCHANGED wire, synced' >= synced
        PROVE  [Once!Next]_<<AttemptsOf(synced), wire>>
    <3>1. /\ synced' \in Stages /\ synced' <= disk'
          /\ disk' >= ForkAttempt => wire["bitcoin"] > 0
      BY <2>2 DEF ClaimInv, ClaimTypeOK, JournalInv
    <3> QED BY <2>2, <3>1, DurableStep
  <2>3. ASSUME CreateIntent \/ RecordSignedPair \/ WriteBack
        PROVE  UNCHANGED wire /\ synced' >= synced
    <3>1. synced \in Stages /\ disk \in Stages /\ synced <= disk
      BY Zenon DEF ClaimInv, ClaimTypeOK, JournalInv
    <3>2. UNCHANGED wire /\ synced' \in {synced, disk, disk + 1}
      <4>1. ASSUME NEW from, Record(from)
            PROVE  UNCHANGED wire /\ synced' \in {synced, disk, disk + 1}
        BY <4>1 DEF Record
      <4>2. ASSUME WriteBack PROVE UNCHANGED wire /\ synced' = disk
        BY <4>2, Zenon DEF WriteBack
      <4> QED BY <2>3, <4>1, <4>2 DEF CreateIntent, RecordSignedPair
    <3> QED BY <3>1, <3>2
  <2>4. ASSUME NEW t \in Tasks, TaskStep(t)
        PROVE  UNCHANGED wire /\ synced' >= synced
    <3>1. CASE RecordAttempt(t)
      <4>1. synced \in Stages /\ disk \in Stages /\ synced <= disk
        BY Zenon DEF ClaimInv, ClaimTypeOK, JournalInv
      <4>2. /\ UNCHANGED wire
            /\ \/ synced' = synced
               \/ \E s \in ClaimSides : disk = Before(s) /\ synced' = After(s)
        <5>1. side[t] \in ClaimSides
          BY Zenon DEF ClaimInv, ClaimTypeOK
        <5>2. UNCHANGED wire
          BY <3>1, Zenon DEF RecordAttempt
        <5>3. \/ synced' = synced
              \/ disk = snap[t] /\ snap[t] = Before(side[t]) /\ synced' = After(side[t])
          BY <3>1, Zenon DEF RecordAttempt, MayRecord, Store, StoreUnsynced
        <5> QED BY <5>1, <5>2, <5>3, Zenon
      <4> QED BY <4>1, <4>2
    <3>2. CASE UNCHANGED <<wire, synced>>
      BY <3>2 DEF ClaimInv, ClaimTypeOK
    <3> QED BY <2>4, <3>1, <3>2 DEF TaskStep, Reopen, PrepareInitialReview,
            PreparePostBitcoinReview, PrepareFails, Age, Confirm, Preflight, Spawn,
            Answer
  <2>5. ASSUME \/ \E s \in ClaimSides : Enter(s)
               \/ Network \/ ChangeSession \/ Crash \/ UNCHANGED claimVars
        PROVE  UNCHANGED wire /\ synced' >= synced
    <3>1. UNCHANGED <<wire, synced>>
      BY <2>5 DEF Enter, Network, ChangeSession, Crash, claimVars
    <3> QED BY <3>1 DEF ClaimInv, ClaimTypeOK
  <2> QED BY <2>1, <2>2, <2>3, <2>4, <2>5 DEF ClaimNext
<1> QED BY <1>1, <1>2, ClaimInvariant, PTL DEF ClaimSpec, SubmitsAtMostOnce, Once!Spec

HIDE DEF NoIntent, Unsigned, Signed, BitcoinAttempt, ForkAttempt, Stages, ClaimSides,
         Before, After, journalVars, taskVars, sendVars, netVars, AttemptsOf

(***************************************************************************)
(* Duress mode                                                             *)
(***************************************************************************)

(* A local activation runs on its own screen; the normal flow shows over a *)
(* marker only if that was read as absent.                                 *)
ScreenInv ==
    /\ step # "none" => screen = "activating"
    /\ screen = "home" /\ marker => misread

(* A marker not read as absent, or a wipe under way, is of an activation   *)
(* that found every Cube there is; a Cube it found, and had a marker and a *)
(* list of targets for, is gone or still has the marker.                   *)
WipeInv ==
    /\ marker /\ ~misread => cubes \subseteq due
    /\ step = "wipe" => cubes \subseteq due /\ ~misread
    /\ ~excused /\ cubes \intersect due # {} => marker
    /\ ~excused /\ step = "wipe" => cubes \subseteq plan

DuressInv == DuressTypeOK /\ ScreenInv /\ WipeInv
-----------------------------------------------------------------------------
(* What a pending wipe that is taken up does to the Cubes and the marker.  *)
LEMMA PendingWipe ==
    ASSUME DuressTypeOK, CompletePendingWipe
    PROVE  /\ cubes' \subseteq cubes
           /\ marker' \in BOOLEAN /\ excused' \in BOOLEAN
           /\ marker' => marker
           /\ cubes' # cubes => marker
           /\ excused => excused'
           /\ marker /\ ~marker' /\ ~excused' => cubes' = {}
<1>1. marker \in BOOLEAN /\ excused \in BOOLEAN
  BY Zenon DEF DuressTypeOK
<1>2. CASE ~marker /\ UNCHANGED <<cubes, marker, excused>>
  BY <1>1, <1>2, Zenon
<1>3. CASE marker /\ cubes' \in SUBSET cubes /\ UNCHANGED <<marker, excused>>
  BY <1>1, <1>3, Zenon
<1>4. CASE marker /\ cubes' = {} /\ marker' = FALSE /\ UNCHANGED excused
  <2>1. ~marker' /\ marker' \in BOOLEAN
    BY <1>4, Zenon
  <2> QED BY <1>1, <1>4, <2>1, Zenon
<1>5. CASE /\ marker /\ marker' = FALSE /\ UNCHANGED cubes
           /\ excused' = (excused \/ cubes # {})
  <2>1. ~marker' /\ marker' \in BOOLEAN
    BY <1>5, Zenon
  <2>2. excused' \in BOOLEAN /\ (excused' <=> (excused \/ cubes # {}))
    <3>1. CASE excused \/ cubes # {}
      BY <1>5, <3>1, Zenon
    <3>2. CASE ~(excused \/ cubes # {})
      <4>1. (excused \/ cubes # {}) = FALSE
        BY <3>2, Zenon
      <4>2. excused' = FALSE
        BY <1>5, <4>1, Zenon
      <4> QED BY <3>2, <4>2, Zenon
    <3> QED BY <3>1, <3>2, Zenon
  <2> QED BY <1>1, <1>5, <2>1, <2>2, Zenon
<1> QED BY <1>2, <1>3, <1>4, <1>5, Zenon DEF CompletePendingWipe

(* The two steps that reconcile: the pending wipe is taken up or let be;   *)
(* the normal flow opens without a marker, or over one read as absent.     *)
Reconciled ==
    /\ CompletePendingWipe \/ UNCHANGED <<cubes, marker, excused>>
    /\ \/ screen' = "home" /\ (misread' <=> marker')
       \/ screen' # "home" /\ (misread' <=> misread /\ marker')
       \/ UNCHANGED <<screen, cubes, marker, misread, excused>>

(* Launch and StateChecked are such steps, and leave the activation alone. *)
LEMMA ReconcileSteps ==
    ASSUME DuressTypeOK, ScreenInv, Launch \/ StateChecked
    PROVE  /\ Reconciled
           /\ step # "none" => screen' = screen
           /\ UNCHANGED <<step, plan, due>>
<1>1. CASE Launch
  BY <1>1, Zenon DEF DuressTypeOK, ScreenInv, Reconciled, Launch, LaunchLocked, IsPending
<1>2. CASE StateChecked
  <2>1. UNCHANGED <<step, plan, due>>
    BY <1>2, Zenon DEF StateChecked
  <2>2. CASE ~(screen = "locked" /\ check = "clear")
    BY <1>2, <2>1, <2>2, Zenon DEF Reconciled, StateChecked
  <2>3. CASE screen = "locked" /\ check = "clear"
    <3>1. step = "none"
      BY <2>3, Zenon DEF ScreenInv
    <3>2. CompletePendingWipe \/ UNCHANGED <<cubes, marker, excused>>
      BY <1>2, <2>3, Zenon DEF StateChecked
    <3>3. CASE screen' = "home" /\ misread' = marker'
      BY <2>1, <3>1, <3>2, <3>3, Zenon DEF Reconciled
    <3>4. CASE marker' /\ UNCHANGED <<screen, misread>>
      <4>1. screen' # "home" /\ (misread' <=> misread /\ marker')
        BY <2>3, <3>4
      <4> QED BY <2>1, <3>1, <3>2, <4>1, Zenon DEF Reconciled
    <3>5. ASSUME NEW still \in IsPending(marker'), still PROVE marker'
      BY <3>5, Zenon DEF IsPending
    <3> QED BY <1>2, <2>3, <3>3, <3>4, <3>5, Zenon DEF StateChecked
  <2> QED BY <2>2, <2>3, Zenon
<1> QED BY <1>1, <1>2, Zenon

(* Every step keeps the types.                                             *)
LEMMA DuressTypes ==
    ASSUME DuressTypeOK, DuressNext PROVE DuressTypeOK'
<1>1. triggers' \in 0..MaxTriggers
  <2>1. CASE DuressDetected
    <3>1. triggers \in 0..MaxTriggers /\ triggers < MaxTriggers /\ triggers' = triggers + 1
      BY <2>1, Zenon DEF DuressTypeOK, DuressDetected
    <3> QED BY <3>1, DuressAssumption
  <2>2. CASE UNCHANGED triggers
    BY <2>2, Zenon DEF DuressTypeOK
  <2> QED BY <2>1, <2>2, Zenon DEF DuressNext, MarkPending, Obliterate, WipeEnds,
          PersistActive, Launch, SignInPressed, ServerAnswers, StateChecked, RemoteActivated,
          RemoteCleared, ServerChanges, NewCube, DuressCrash
<1>2. /\ screen' \in {"off", "home", "activating", "locked"}
      /\ step' \in {"none", "journal", "wipe", "persist"}
      /\ check' \in {"none", "asked", "active", "clear"}
  BY Zenon DEF DuressTypeOK, DuressNext, DuressDetected, MarkPending, Obliterate, WipeEnds,
     PersistActive, Launch, SignInPressed, ServerAnswers, StateChecked, RemoteActivated,
     RemoteCleared, ServerChanges, NewCube, DuressCrash, LaunchLocked
<1>3. plan' \subseteq Targets /\ active' \in BOOLEAN /\ server' \in BOOLEAN
  BY Zenon DEF DuressTypeOK, DuressNext, DuressDetected, MarkPending, Obliterate, WipeEnds,
     PersistActive, Launch, SignInPressed, ServerAnswers, StateChecked, RemoteActivated,
     RemoteCleared, ServerChanges, NewCube, DuressCrash
<1>4. CASE Launch \/ StateChecked
  <2>1. /\ cubes' \subseteq Targets /\ marker' \in BOOLEAN /\ excused' \in BOOLEAN
        /\ due' \subseteq Targets
    BY <1>4, PendingWipe, Zenon DEF DuressTypeOK, Launch, LaunchLocked, StateChecked
  <2>2. misread' \in BOOLEAN
    BY <1>4, <2>1, Zenon DEF DuressTypeOK, Launch, LaunchLocked, StateChecked
  <2> QED BY <1>1, <1>2, <1>3, <2>1, <2>2, Zenon DEF DuressTypeOK
<1>5. CASE ~(Launch \/ StateChecked)
  <2>1. cubes' \subseteq Targets /\ due' \subseteq Targets
    BY <1>5, Zenon DEF DuressTypeOK, DuressNext, DuressDetected, MarkPending, Obliterate,
       WipeEnds, PersistActive, SignInPressed, ServerAnswers, RemoteActivated,
       RemoteCleared, ServerChanges, NewCube, DuressCrash
  <2>2. marker' \in BOOLEAN /\ excused' \in BOOLEAN /\ misread' \in BOOLEAN
    BY <1>5, Zenon DEF DuressTypeOK, DuressNext, DuressDetected, MarkPending, Obliterate,
       WipeEnds, PersistActive, SignInPressed, ServerAnswers, RemoteActivated,
       RemoteCleared, ServerChanges, NewCube, DuressCrash
  <2> QED BY <1>1, <1>2, <1>3, <2>1, <2>2, Zenon DEF DuressTypeOK
<1> QED BY <1>4, <1>5, Zenon

(* The activation: its marker and its list of targets make a wipe due that *)
(* it excuses when it could not have one of them.                          *)
LEMMA ActivationKeeps ==
    ASSUME DuressInv,
           DuressDetected \/ MarkPending \/ Obliterate \/ WipeEnds \/ PersistActive
    PROVE  ScreenInv' /\ WipeInv'
<1>1. CASE DuressDetected
  BY <1>1, Zenon DEF DuressInv, ScreenInv, WipeInv, DuressDetected
<1>2. CASE MarkPending
  BY <1>2, Zenon DEF DuressInv, DuressTypeOK, ScreenInv, WipeInv, MarkPending
<1>3. CASE Obliterate
  <2>1. cubes' \subseteq cubes
    BY <1>3, Zenon DEF Obliterate
  <2> QED BY <1>3, <2>1, Zenon DEF DuressInv, ScreenInv, WipeInv, Obliterate
<1>4. CASE WipeEnds
  BY <1>4, Zenon DEF DuressInv, ScreenInv, WipeInv, WipeEnds
<1>5. CASE PersistActive
  BY <1>5, Zenon DEF DuressInv, ScreenInv, WipeInv, PersistActive
<1> QED BY <1>1, <1>2, <1>3, <1>4, <1>5, Zenon

(* The launch and the locked screen complete a pending wipe before they    *)
(* open the normal flow, or stay locked, or read the marker as absent.     *)
LEMMA ReconcileKeeps ==
    ASSUME DuressInv, Launch \/ StateChecked PROVE ScreenInv' /\ WipeInv'
<1>1. /\ Reconciled
      /\ step # "none" => screen' = screen
      /\ UNCHANGED <<step, plan, due>>
  BY ReconcileSteps, Zenon DEF DuressInv
<1>2. /\ cubes' \subseteq cubes
      /\ marker' => marker
      /\ excused => excused'
      /\ marker /\ ~marker' /\ ~excused' => cubes' = {}
  <2>1. CASE CompletePendingWipe
    BY <2>1, PendingWipe, Zenon DEF DuressInv
  <2>2. CASE UNCHANGED <<cubes, marker, excused>>
    BY <2>2, Zenon
  <2> QED BY <1>1, <2>1, <2>2, Zenon DEF Reconciled
<1>3. /\ ~excused' /\ cubes' \intersect due # {} => marker'
      /\ ~excused' /\ step = "wipe" => cubes' \subseteq plan
      /\ step = "wipe" => cubes' \subseteq due /\ ~misread
      /\ marker' /\ ~misread => cubes' \subseteq due
  BY <1>2, Zenon DEF DuressInv, WipeInv
<1>4. CASE screen' = "home" /\ (misread' <=> marker')
  <2>1. step = "none"
    BY <1>1, <1>4, Zenon DEF DuressInv, ScreenInv
  <2> QED BY <1>1, <1>3, <1>4, <2>1, Zenon DEF ScreenInv, WipeInv
<1>5. CASE screen' # "home" /\ (misread' <=> misread /\ marker')
  <2>1. step # "none" => screen' = "activating"
    BY <1>1, Zenon DEF DuressInv, ScreenInv
  <2>2. ScreenInv'
    BY <1>1, <1>5, <2>1, Zenon DEF ScreenInv
  <2> QED BY <1>1, <1>3, <1>5, <2>2, Zenon DEF WipeInv
<1>6. CASE UNCHANGED <<screen, cubes, marker, misread, excused>>
  <2>1. ScreenInv'
    BY <1>1, <1>6, Zenon DEF DuressInv, ScreenInv
  <2>2. WipeInv'
    <3>1. UNCHANGED <<step, plan, due, cubes, marker, misread, excused>>
      BY <1>1, <1>6
    <3> QED BY <3>1 DEF DuressInv, WipeInv
  <2> QED BY <2>1, <2>2, Zenon
<1> QED BY <1>1, <1>4, <1>5, <1>6, Zenon DEF Reconciled

(* The other steps touch no Cube but a new one, and no marker.             *)
LEMMA OthersKeep ==
    ASSUME DuressInv,
           \/ SignInPressed \/ ServerAnswers \/ RemoteActivated \/ RemoteCleared
           \/ ServerChanges \/ NewCube \/ DuressCrash \/ UNCHANGED duressVars
    PROVE  ScreenInv' /\ WipeInv'
<1>1. CASE NewCube
  BY <1>1, Zenon DEF DuressInv, ScreenInv, WipeInv, NewCube
<1>2. CASE DuressCrash
  BY <1>2, Zenon DEF DuressInv, ScreenInv, WipeInv, DuressCrash
<1>3. CASE RemoteActivated
  BY <1>3, Zenon DEF DuressInv, ScreenInv, WipeInv, RemoteActivated
<1>4. CASE UNCHANGED <<screen, step, plan, cubes, marker, due, excused, misread>>
  BY <1>4, Zenon DEF DuressInv, ScreenInv, WipeInv
<1> QED BY <1>1, <1>2, <1>3, <1>4, Zenon DEF SignInPressed, ServerAnswers, RemoteCleared,
        ServerChanges, duressVars

(* A fresh desktop satisfies the invariant.                                *)
LEMMA InitDuress == ASSUME DuressInit PROVE DuressInv
<1>1. triggers \in 0..MaxTriggers
  BY DuressAssumption DEF DuressInit
<1>2. DuressTypeOK
  BY <1>1, Zenon DEF DuressInit, DuressTypeOK
<1>3. ScreenInv /\ WipeInv
  BY Zenon DEF DuressInit, ScreenInv, WipeInv
<1> QED BY <1>2, <1>3 DEF DuressInv

(* Every step of duress mode keeps the invariant.                          *)
LEMMA StepDuress == ASSUME DuressInv, [DuressNext]_duressVars PROVE DuressInv'
<1>1. DuressTypeOK'
  BY DuressTypes, Zenon DEF DuressInv, DuressTypeOK, duressVars
<1>2. ScreenInv' /\ WipeInv'
  BY ActivationKeeps, ReconcileKeeps, OthersKeep, Zenon DEF DuressNext
<1> QED BY <1>1, <1>2 DEF DuressInv

(* The invariant, for every interleaving of the user, the server, failing  *)
(* file operations and crashes.                                            *)
LEMMA DuressInvariant == DuressSpec => []DuressInv
<1>1. DuressInit => DuressInv
  BY InitDuress
<1>2. DuressInv /\ [DuressNext]_duressVars => DuressInv'
  BY StepDuress
<1> QED BY <1>1, <1>2, PTL DEF DuressSpec

(* After a local activation the normal flow shows no Cube it was to wipe:  *)
(* such a Cube still has its marker, and a marker keeps the screen locked, *)
(* unless the marker could not be written, was cleared because the targets *)
(* could not be listed, or was read as absent and is still there.          *)
THEOREM DuressNeverShowsACube == DuressSpec => []NoCubeAfterActivation
<1>1. DuressInv => NoCubeAfterActivation
  BY Zenon DEF DuressInv, ScreenInv, WipeInv, NoCubeAfterActivation
<1> QED BY <1>1, DuressInvariant, PTL

(* A Cube is wiped by the activation that found it, or under the marker    *)
(* that activation left; a Cube set up later only if it was set up over a  *)
(* marker read as absent.                                                  *)
THEOREM DuressWipesOnlyWhatIsDue == DuressSpec => WipesOnlyWhatIsDue
<1>1. DuressInv /\ [DuressNext]_duressVars
        => [misread \/ cubes \ cubes' \subseteq due]_duressVars
  <2> SUFFICES ASSUME DuressInv, DuressNext, ~misread PROVE cubes \ cubes' \subseteq due
    OBVIOUS
  <2>1. CASE Obliterate
    BY <2>1, Zenon DEF DuressInv, WipeInv, Obliterate
  <2>2. CASE Launch \/ StateChecked
    <3>1. CompletePendingWipe \/ UNCHANGED cubes
      BY <2>2, ReconcileSteps, Zenon DEF DuressInv, Reconciled
    <3>2. cubes' = cubes \/ marker
      BY <3>1, PendingWipe, Zenon DEF DuressInv
    <3> QED BY <3>2, Zenon DEF DuressInv, WipeInv
  <2>3. CASE NewCube
    BY <2>3, Zenon DEF NewCube
  <2>4. CASE UNCHANGED cubes
    BY <2>4, Zenon
  <2> QED BY <2>1, <2>2, <2>3, <2>4, Zenon DEF DuressNext, DuressDetected, MarkPending,
          WipeEnds, PersistActive, SignInPressed, ServerAnswers, RemoteActivated,
          RemoteCleared, ServerChanges, DuressCrash
<1> QED BY <1>1, DuressInvariant, PTL DEF DuressSpec, WipesOnlyWhatIsDue

(***************************************************************************)
(* Derivation indexes                                                      *)
(***************************************************************************)

(* What a request carries at each place.                                   *)
PlaceOK(x) ==
  /\ x.at \in {"idle", "conflict", "peeked", "built", "update_receive", "update_change"}
       => x.branch = "change"
  /\ x.at \in {"idle", "update_receive", "update_change"} => x.got = Null
  /\ x.at = "peeked" => x.got \in Nat
  /\ x.at = "read" => kind = "vault" /\ x.branch = "receive" /\ x.got \in Nat
Places == \A p \in Calls : PlaceOK(call[p])

(* The inductive invariant.  An index handed out is not above its counter  *)
(* (LookAheadMapped says so too), so the next index is a new one; only the *)
(* receive indexes of a vault are handed out without that.                 *)
IInv ==
  /\ TypeOK /\ Places /\ LookAheadMapped
  /\ ChangeNeverReused /\ ImportedReceiveNeverReused

(* The counters stay where their look-ahead is made of normal indexes.     *)
LEMMA HighestBounds ==
  ASSUME TypeOK, LookAheadMapped
  PROVE  /\ Highest \in Nat
         /\ Highest + LookAhead - 1 <= MaxIndex
         /\ \A b \in Branch : index[b] \in Nat /\ index[b] <= Highest
<1>1. /\ index["receive"] \in 0..MaxIndex /\ index["change"] \in 0..MaxIndex
      /\ MaxIndex \in Nat /\ LookAhead \in Nat \ {0}
  BY IndexAssumption DEF TypeOK, Branch
<1>2. Highest \in Nat /\ \A b \in Branch : index[b] \in Nat /\ index[b] <= Highest
  BY <1>1 DEF Highest, Branch
<1>3. Highest + LookAhead - 1 \in addresses
  BY <1>1, <1>2 DEF LookAheadMapped
<1>4. QED
  BY <1>1, <1>2, <1>3 DEF TypeOK

(* What Set and Allocate leave behind: the table without a hole.           *)
LEMMA RaiseKeepsTable ==
  ASSUME TypeOK, LookAheadMapped, NEW b \in Branch, NEW i \in Nat, i > index[b], Fits(i),
         index' = [index EXCEPT ![b] = i],
         addresses' = addresses \cup NewRows(i)
  PROVE  /\ index' \in [Branch -> 0..MaxIndex]
         /\ addresses' \in SUBSET (0..MaxIndex)
         /\ addresses' = 0..(Highest' + LookAhead - 1)
         /\ \A a \in Branch : index[a] <= index'[a]
<1>1. /\ Highest \in Nat /\ Highest + LookAhead - 1 <= MaxIndex
      /\ \A a \in Branch : index[a] \in Nat /\ index[a] <= Highest
  BY HighestBounds
<1>2. LookAhead \in Nat \ {0} /\ MaxIndex \in Nat
  BY IndexAssumption
<1>3. i + LookAhead - 1 <= MaxIndex
  BY <1>1, <1>2 DEF Fits
<1>4. index' \in [Branch -> 0..MaxIndex]
  BY <1>2, <1>3 DEF TypeOK
<1>5. \A a \in Branch : index[a] <= index'[a]
  BY <1>1 DEF TypeOK
<1>6. Highest' = IF i > Highest THEN i ELSE Highest
  BY <1>1, <1>4 DEF Highest, Branch, TypeOK
<1>7. addresses' = 0..(Highest' + LookAhead - 1)
  BY <1>1, <1>2, <1>6 DEF LookAheadMapped, NewRows
<1>8. addresses' \in SUBSET (0..MaxIndex)
  BY <1>1, <1>2, <1>3, <1>6, <1>7
<1>9. QED
  BY <1>4, <1>5, <1>7, <1>8

(* How the counters and the indexes handed out compare.                    *)
LEMMA IntOrder ==
  /\ \A x, y, z \in Int : (x <= y /\ y <= z => x <= z) /\ (x <= y /\ y < z => x # z /\ z # x)
  /\ \A x, y \in Nat : x <= x /\ (x > y => y < x)
OBVIOUS

(* An allocation raises one counter by one and keeps the table whole.      *)
LEMMA AllocateRaises ==
  ASSUME TypeOK, LookAheadMapped, NEW b \in Branch, ~Exhausted(b), Allocate(b)
  PROVE  /\ NextIndex(b) <= index'[b] /\ index[b] < NextIndex(b)
         /\ \A a \in Branch : index[a] <= index'[a]
         /\ index' \in [Branch -> 0..MaxIndex]
         /\ addresses' \in SUBSET (0..MaxIndex)
         /\ addresses' = 0..(Highest' + LookAhead - 1)
<1>1. /\ Highest \in Nat /\ \A a \in Branch : index[a] \in Nat /\ index[a] <= Highest
      /\ LookAhead \in Nat \ {0}
  BY HighestBounds, IndexAssumption
<1>2. NextIndex(b) \in Nat /\ NextIndex(b) > index[b] /\ NextIndex(b) <= Highest + 1
  BY <1>1 DEF NextIndex
<1>3. (IF NextIndex(b) > Highest THEN {NextIndex(b) + LookAhead - 1} ELSE {}) = NewRows(NextIndex(b))
  <2>1. CASE NextIndex(b) > Highest
    <3>1. NextIndex(b) = Highest + 1
      BY <1>1, <1>2, <2>1
    <3>2. NewRows(NextIndex(b)) = (Highest + LookAhead)..(Highest + LookAhead)
      BY <1>1, <3>1 DEF NewRows
    <3>3. QED
      BY <1>1, <2>1, <3>1, <3>2
  <2>2. CASE ~(NextIndex(b) > Highest)
    BY <1>1, <1>2, <2>2 DEF NewRows
  <2>3. QED
    BY <2>1, <2>2
<1>4. /\ Fits(NextIndex(b))
      /\ index' = [index EXCEPT ![b] = NextIndex(b)]
      /\ addresses' = addresses \cup NewRows(NextIndex(b))
  BY <1>3 DEF Allocate, Exhausted
<1>5. index'[b] = NextIndex(b)
  BY <1>4, Zenon DEF TypeOK
<1>6. NextIndex(b) <= index'[b] /\ index[b] < NextIndex(b)
  BY <1>1, <1>2, <1>5, IntOrder, Zenon
<1>7. NextIndex(b) \in Nat /\ NextIndex(b) > index[b]
  BY <1>2, Zenon
<1>8. QED
  BY <1>4, <1>6, <1>7, RaiseKeepsTable, Zenon

(* set_derivation_index never lowers a counter and keeps the table whole.  *)
LEMMA SetIndexRaises ==
  ASSUME TypeOK, LookAheadMapped, NEW b \in Branch, NEW i \in Nat, Fits(i), SetIndex(b, i)
  PROVE  /\ \A a \in Branch : index[a] <= index'[a]
         /\ i <= index'[b]
         /\ index' \in [Branch -> 0..MaxIndex]
         /\ addresses' \in SUBSET (0..MaxIndex)
         /\ addresses' = 0..(Highest' + LookAhead - 1)
<1>1. \A a \in Branch : index[a] \in Nat
  BY HighestBounds
<1>2. CASE i <= index[b] /\ UNCHANGED <<index, addresses>>
  BY <1>1, <1>2 DEF TypeOK, LookAheadMapped, Highest
<1>3. CASE i > index[b] /\ Set(b, i)
  <2>1. index'[b] = i
    BY <1>3 DEF Set, TypeOK
  <2>2. index' = [index EXCEPT ![b] = i] /\ addresses' = addresses \cup NewRows(i) /\ i > index[b]
    BY <1>3 DEF Set
  <2>3. /\ index' \in [Branch -> 0..MaxIndex]
        /\ addresses' \in SUBSET (0..MaxIndex)
        /\ addresses' = 0..(Highest' + LookAhead - 1)
        /\ \A a \in Branch : index[a] <= index'[a]
    BY <2>2, RaiseKeepsTable, Zenon
  <2>4. QED
    BY <2>1, <2>3
<1>4. QED
  BY <1>2, <1>3 DEF SetIndex

(***************************************************************************)
(* The steps that hand out no index, and the ones that hand one out        *)
(***************************************************************************)

(* The request holds no index that it did not hold before the step.        *)
Keeps(q) ==
  \A b \in Branch : HandedOut(q, b)' => HandedOut(q, b) /\ call'[q].got = call[q].got

(* The index of a request is an integer, handed out or not.                *)
LEMMA GotIsInt == ASSUME NEW x \in Call PROVE x.got \in Int
BY DEF Call, Null

(* A step that hands out nothing and lowers no counter preserves IInv.     *)
LEMMA NoneHandedOut ==
  ASSUME IInv, TypeOK', Places', kind' = kind,
         addresses' = 0..(Highest' + LookAhead - 1),
         \A a \in Branch : index[a] <= index'[a],
         \A q \in Calls : Keeps(q)
  PROVE  IInv'
<1>1. \A q \in Calls : \A b \in Branch : HandedOut(q, b)' => call'[q].got <= index'[b]
  <2>2. SUFFICES ASSUME NEW q \in Calls, NEW b \in Branch, HandedOut(q, b)'
                 PROVE  call'[q].got <= index'[b]
    BY Zenon
  <2>3. call'[q].got = call[q].got /\ call[q].got <= index[b]
    BY <2>2, Zenon DEF Keeps, IInv, LookAheadMapped
  <2>4. call[q] \in Call /\ index[b] \in Int /\ index'[b] \in Int
    BY DEF IInv, TypeOK
  <2>5. call[q].got \in Int
    BY <2>4, GotIsInt
  <2>6. QED
    BY <2>3, <2>4, <2>5, IntOrder, Zenon
<1>2. LookAheadMapped'
  BY <1>1, Zenon DEF LookAheadMapped
<1>3. ASSUME NEW b \in Branch, NeverReused(b)
      PROVE  NeverReused(b)'
  BY <1>3, Zenon DEF NeverReused, Keeps
<1>4. ChangeNeverReused' /\ ImportedReceiveNeverReused'
  BY <1>3 DEF IInv, ChangeNeverReused, ImportedReceiveNeverReused, Branch
<1>5. QED
  BY <1>2, <1>4, Zenon DEF IInv

(* So does a step that hands out one index above the counter it was.       *)
LEMMA OneHandedOut ==
  ASSUME IInv, TypeOK', Places', kind' = kind,
         addresses' = 0..(Highest' + LookAhead - 1),
         \A a \in Branch : index[a] <= index'[a],
         NEW p \in Calls, NEW b \in Branch,
         \A q \in Calls \ {p} : Keeps(q),
         call'[p].branch = b, call'[p].got <= index'[b],
         index[b] < call'[p].got \/ (b = "receive" /\ kind = "vault")
  PROVE  IInv'
<1>1. \A q \in Calls : \A a \in Branch : HandedOut(q, a)' => call'[q].got <= index'[a]
  <2>2. SUFFICES ASSUME NEW q \in Calls, NEW a \in Branch, HandedOut(q, a)'
                 PROVE  call'[q].got <= index'[a]
    BY Zenon
  <2>3. index[a] \in Int /\ index'[a] \in Int /\ call[q].got \in Int
    <3>1. index \in [Branch -> 0..MaxIndex] /\ index' \in [Branch -> 0..MaxIndex] /\ MaxIndex \in Nat
      BY IndexAssumption DEF IInv, TypeOK
    <3>2. call[q] \in Call
      BY Zenon DEF IInv, TypeOK
    <3>3. QED
      BY <3>1, <3>2, GotIsInt
  <2>4. CASE q = p
    BY <2>2, <2>3, <2>4, Zenon DEF HandedOut
  <2>5. CASE q # p
    <3>1. call'[q].got = call[q].got /\ call[q].got <= index[a] /\ index[a] <= index'[a]
      BY <2>2, <2>5, Zenon DEF Keeps, IInv, LookAheadMapped
    <3> QED BY <2>3, <3>1, IntOrder, Zenon
  <2>6. QED
    BY <2>4, <2>5, Zenon
<1>2. LookAheadMapped'
  BY <1>1, Zenon DEF LookAheadMapped
<1>3. ASSUME NEW a \in Branch, NeverReused(a), a # b \/ index[b] < call'[p].got
      PROVE  NeverReused(a)'
  <2>1. SUFFICES ASSUME NEW q \in Calls, NEW r \in Calls, q # r, HandedOut(q, a)', HandedOut(r, a)'
                 PROVE  call'[q].got # call'[r].got
    BY Zenon DEF NeverReused
  <2>2. index[b] \in Int /\ call[q].got \in Int /\ call[r].got \in Int /\ call'[p].got \in Int
    <3>1. index \in [Branch -> 0..MaxIndex] /\ MaxIndex \in Nat
      BY IndexAssumption DEF IInv, TypeOK
    <3>2. call[q] \in Call /\ call[r] \in Call /\ call'[p] \in Call
      BY Zenon DEF IInv, TypeOK
    <3>3. QED
      BY <3>1, <3>2, GotIsInt
  <2>3. CASE q # p /\ r # p
    BY <1>3, <2>1, <2>3, Zenon DEF NeverReused, Keeps
  <2>4. CASE q = p
    <3>1. a = b /\ r # p
      BY <2>1, <2>4, Zenon DEF HandedOut
    <3>2. call'[r].got <= index[b]
      BY <2>1, <3>1, Zenon DEF Keeps, IInv, LookAheadMapped
    <3>3. QED
      BY <1>3, <2>2, <2>4, <3>1, <3>2, IntOrder, Zenon
  <2>5. CASE r = p
    <3>1. a = b /\ q # p
      BY <2>1, <2>5, Zenon DEF HandedOut
    <3>2. call'[q].got <= index[b]
      BY <2>1, <3>1, Zenon DEF Keeps, IInv, LookAheadMapped
    <3>3. QED
      BY <1>3, <2>2, <2>5, <3>1, <3>2, IntOrder, Zenon
  <2>6. QED
    BY <2>3, <2>4, <2>5, Zenon
<1>4. ChangeNeverReused' /\ ImportedReceiveNeverReused'
  BY <1>3 DEF IInv, ChangeNeverReused, ImportedReceiveNeverReused, Branch
<1>5. QED
  BY <1>2, <1>4, Zenon DEF IInv

(* A step of one request, which leaves the others as they are.             *)
LEMMA CallUpdate ==
  ASSUME TypeOK, Places, kind' = kind, NEW p \in Calls, NEW x \in Call, PlaceOK(x),
         call' = [call EXCEPT ![p] = x]
  PROVE  /\ call' \in [Calls -> Call] /\ Places' /\ call'[p] = x
         /\ \A q \in Calls \ {p} : Keeps(q)
         /\ x.at \notin {"built", "done"} \/ x.got = Null => Keeps(p)
<1>1. call' \in [Calls -> Call] /\ call'[p] = x /\ \A q \in Calls \ {p} : call'[q] = call[q]
  BY DEF TypeOK
<1>2. Places'
  BY <1>1 DEF Places, PlaceOK
<1>3. \A q \in Calls \ {p} : Keeps(q)
  BY <1>1 DEF Keeps, HandedOut
<1>4. x.at \notin {"built", "done"} \/ x.got = Null => Keeps(p)
  BY <1>1 DEF Keeps, HandedOut
<1>5. QED
  BY <1>1, <1>2, <1>3, <1>4

(* A step that moves one request, hands out nothing and writes nothing.    *)
LEMMA QuietStep ==
  ASSUME IInv, kind' = kind, UNCHANGED <<index, addresses>>, NEW p \in Calls, NEW x \in Call,
         PlaceOK(x), x.at \notin {"built", "done"} \/ x.got = Null, call' = [call EXCEPT ![p] = x]
  PROVE  IInv'
<1>1. TypeOK /\ Places /\ LookAheadMapped
  BY Zenon DEF IInv
<1>2. call' \in [Calls -> Call] /\ Places' /\ \A q \in Calls : Keeps(q)
  BY <1>1, CallUpdate, Zenon
<1>3. TypeOK'
  BY <1>1, <1>2, Zenon DEF TypeOK
<1>4. addresses' = 0..(Highest' + LookAhead - 1) /\ \A a \in Branch : index[a] <= index'[a]
  BY <1>1, HighestBounds DEF LookAheadMapped, Highest
<1>5. QED
  BY <1>2, <1>3, <1>4, NoneHandedOut

(* A step that raises an index for one request and hands out nothing.      *)
LEMMA RaisingStep ==
  ASSUME IInv, kind' = kind, NEW b \in Branch, NEW i \in Nat, Fits(i), SetIndex(b, i),
         call' \in [Calls -> Call], Places', \A q \in Calls : Keeps(q)
  PROVE  IInv'
<1>1. TypeOK /\ LookAheadMapped
  BY Zenon DEF IInv
<1>2. /\ \A a \in Branch : index[a] <= index'[a]
      /\ index' \in [Branch -> 0..MaxIndex] /\ addresses' \in SUBSET (0..MaxIndex)
      /\ addresses' = 0..(Highest' + LookAhead - 1)
  BY <1>1, SetIndexRaises
<1>3. TypeOK'
  BY <1>1, <1>2, Zenon DEF TypeOK
<1>4. QED
  BY <1>2, <1>3, NoneHandedOut

(* A step that allocates an index and hands it out.                        *)
LEMMA AllocatingStep ==
  ASSUME IInv, kind' = kind, NEW b \in Branch, ~Exhausted(b), Allocate(b),
         NEW p \in Calls, NEW x \in Call, PlaceOK(x), x.branch = b, x.got = NextIndex(b),
         call' = [call EXCEPT ![p] = x]
  PROVE  IInv'
<1>1. TypeOK /\ Places /\ LookAheadMapped
  BY Zenon DEF IInv
<1>2. /\ NextIndex(b) <= index'[b] /\ index[b] < NextIndex(b)
      /\ \A a \in Branch : index[a] <= index'[a]
      /\ index' \in [Branch -> 0..MaxIndex] /\ addresses' \in SUBSET (0..MaxIndex)
      /\ addresses' = 0..(Highest' + LookAhead - 1)
  BY <1>1, AllocateRaises, Zenon
<1>3. /\ call' \in [Calls -> Call] /\ Places' /\ call'[p] = x
      /\ \A q \in Calls \ {p} : Keeps(q)
  BY <1>1, CallUpdate, Zenon
<1>4. TypeOK'
  BY <1>1, <1>2, <1>3, Zenon DEF TypeOK
<1>5. call'[p].branch = b /\ call'[p].got <= index'[b] /\ index[b] < call'[p].got
  BY <1>2, <1>3, Zenon
<1>6. QED
  BY <1>2, <1>3, <1>4, <1>5, OneHandedOut, Zenon

(* The inductive step, action by action.                                   *)
LEMMA StepPreserves ==
  ASSUME IInv, NEW p \in Calls, Step(p)
  PROVE  IInv'
<1> DEFINE c == call[p]
<1>1. /\ c \in Call /\ PlaceOK(c) /\ TypeOK /\ Places /\ LookAheadMapped
  BY DEF IInv, TypeOK, Places
<1>2. \A b \in Branch : NextIndex(b) \in Nat /\ index[b] \in Nat
  BY <1>1, HighestBounds DEF NextIndex
<1>3. kind' = kind
  BY Zenon DEF Step, ReserveChange, PeekChange, GivenChange, NoChange, CommitChange, RaiseOutput,
         ReturnSpend, ReserveReceive, ReadReceive, SetReceive, ReadIndexes, UpdateReceive,
         UpdateChange, UpdateIndex
<1>4. ASSUME NEW x \in Call, x.at = "failed", UNCHANGED <<index, addresses>>,
             call' = [call EXCEPT ![p] = x]
      PROVE  IInv'
  <2>1. PlaceOK(x)
    BY <1>4 DEF PlaceOK
  <2>2. QED
    BY <1>3, <1>4, <2>1, QuietStep, Zenon
<1>5. [c EXCEPT !.at = "failed"] \in Call /\ [c EXCEPT !.at = "failed", !.got = Null] \in Call
  BY <1>1, Zenon DEF Call, Place
<1>6. [c EXCEPT !.at = "failed"].at = "failed" /\ [c EXCEPT !.at = "failed", !.got = Null].at = "failed"
  BY <1>1 DEF Call
<1>7. CASE ReserveChange(p)
  <2>1. CASE ~Exhausted("change") /\ Allocate("change")
             /\ call' = [call EXCEPT ![p] = [c EXCEPT !.at = "done", !.got = NextIndex("change")]]
    <3> DEFINE x == [c EXCEPT !.at = "done", !.got = NextIndex("change")]
    <3>1. x \in Call /\ PlaceOK(x) /\ x.branch = "change" /\ x.got = NextIndex("change")
      BY <1>1, <1>2, <1>7, Zenon DEF ReserveChange, Call, Place, PlaceOK, Branch
    <3>2. QED
      BY <1>3, <2>1, <3>1, AllocatingStep, Zenon DEF Branch
  <2>2. CASE call' = [call EXCEPT ![p].at = "failed"] /\ UNCHANGED <<index, addresses>>
    BY <1>4, <1>5, <1>6, <2>2, Zenon
  <2>3. QED
    BY <1>7, <2>1, <2>2 DEF ReserveChange
<1>8. CASE PeekChange(p)
  <2>1. CASE call' = [call EXCEPT ![p] = [c EXCEPT !.at = "failed"]]
    BY <1>4, <1>5, <1>6, <1>8, <2>1, Zenon DEF PeekChange
  <2>2. CASE call' = [call EXCEPT ![p] = [c EXCEPT !.at = "peeked", !.got = NextIndex("change")]]
    <3> DEFINE x == [c EXCEPT !.at = "peeked", !.got = NextIndex("change")]
    <3>1. x \in Call /\ PlaceOK(x) /\ x.at = "peeked"
      BY <1>1, <1>2, <1>8, Zenon DEF PeekChange, Call, Place, PlaceOK, Branch
    <3>2. QED
      BY <1>3, <1>8, <2>2, <3>1, QuietStep, Zenon DEF PeekChange
  <2>3. QED
    BY <1>8, <2>1, <2>2, Zenon DEF PeekChange
<1>9. CASE GivenChange(p)
  <2> DEFINE x == [c EXCEPT !.at = "built"]
  <2>1. x \in Call /\ PlaceOK(x) /\ x.got = Null
    BY <1>1, <1>9 DEF GivenChange, Call, Place, PlaceOK
  <2>2. call' = [call EXCEPT ![p] = x] /\ UNCHANGED <<index, addresses>>
    BY <1>9 DEF GivenChange
  <2>3. QED
    BY <1>3, <2>1, <2>2, QuietStep, Zenon
<1>10. CASE NoChange(p)
  <2>1. PICK at \in {"built", "failed"} :
          call' = [call EXCEPT ![p] = [c EXCEPT !.at = at, !.got = Null]]
    BY <1>10, Zenon DEF NoChange
  <2> DEFINE x == [c EXCEPT !.at = at, !.got = Null]
  <2>2. x \in Call /\ PlaceOK(x) /\ x.got = Null
    BY <1>1, <1>10, Zenon DEF NoChange, Call, Place, PlaceOK
  <2>3. QED
    BY <1>3, <1>10, <2>1, <2>2, QuietStep, Zenon DEF NoChange
<1>11. CASE CommitChange(p)
  <2>1. CASE ~Exhausted("change") /\ StillNext(p) /\ Allocate("change")
             /\ call' = [call EXCEPT ![p].at = "built"]
    <3> DEFINE x == [c EXCEPT !.at = "built"]
    <3>1. x \in Call /\ PlaceOK(x) /\ x.branch = "change" /\ x.got = NextIndex("change")
      BY <1>1, <1>11, <2>1 DEF CommitChange, StillNext, Call, Place, PlaceOK
    <3>2. QED
      BY <1>3, <2>1, <3>1, AllocatingStep, Zenon DEF Branch
  <2> DEFINE end == IF c.conflicts + 1 >= ConflictLimit THEN "failed" ELSE "conflict"
             x   == [c EXCEPT !.conflicts = c.conflicts + 1, !.got = Null, !.at = end]
  <2>2. CASE UNCHANGED <<index, addresses>> /\ call' = [call EXCEPT ![p] = x]
    <3>1. end \in {"failed", "conflict"} /\ c.conflicts + 1 \in Nat /\ c.branch = "change"
      BY <1>1, <1>11 DEF CommitChange, Call, PlaceOK
    <3> HIDE DEF end
    <3>2. x \in Call /\ x.got = Null /\ x.branch = "change" /\ x.at = end
      BY <1>1, <3>1, Zenon DEF Call, Place
    <3>3. PlaceOK(x)
      BY <3>1, <3>2 DEF PlaceOK
    <3>4. QED
      BY <1>3, <2>2, <3>2, <3>3, QuietStep, Zenon
  <2>3. CASE call' = [call EXCEPT ![p] = [c EXCEPT !.at = "failed", !.got = Null]]
             /\ UNCHANGED <<index, addresses>>
    BY <1>4, <1>5, <1>6, <2>3, Zenon
  <2>4. QED
    BY <1>11, <2>1, <2>2, <2>3 DEF CommitChange
<1>12. CASE RaiseOutput(p)
  <2>1. PICK b \in Branch, i \in addresses :
          \/ Fits(i) /\ SetIndex(b, i) /\ UNCHANGED call
          \/ /\ ~Fits(i)
             /\ call' = [call EXCEPT ![p] = [c EXCEPT !.at = "failed", !.got = Null]]
             /\ UNCHANGED <<index, addresses>>
    BY <1>12 DEF RaiseOutput
  <2>2. i \in Nat
    BY <1>1, IndexAssumption DEF TypeOK
  <2>3. CASE Fits(i) /\ SetIndex(b, i) /\ UNCHANGED call
    <3>1. call' \in [Calls -> Call] /\ Places' /\ \A q \in Calls : Keeps(q)
      BY <1>1, <1>3, <2>3 DEF TypeOK, Places, PlaceOK, Keeps, HandedOut
    <3>2. QED
      BY <1>3, <2>2, <2>3, <3>1, RaisingStep
  <2>4. CASE call' = [call EXCEPT ![p] = [c EXCEPT !.at = "failed", !.got = Null]]
             /\ UNCHANGED <<index, addresses>>
    BY <1>4, <1>5, <1>6, <2>4, Zenon
  <2>5. QED
    BY <2>1, <2>3, <2>4
<1>13. CASE ReturnSpend(p)
  <2> DEFINE x == [c EXCEPT !.at = "done"]
  <2>1. x \in Call /\ PlaceOK(x) /\ x.got = c.got /\ x.branch = c.branch /\ x.at = "done"
    BY <1>1 DEF Call, Place, PlaceOK
  <2>2. /\ call' = [call EXCEPT ![p] = x] /\ UNCHANGED <<index, addresses>> /\ c.at = "built"
    BY <1>13 DEF ReturnSpend
  <2>3. call' \in [Calls -> Call] /\ Places' /\ call'[p] = x /\ \A q \in Calls \ {p} : Keeps(q)
    BY <1>1, <1>3, <2>1, <2>2, CallUpdate, Zenon
  <2>4. Keeps(p)
    BY <2>1, <2>2, <2>3 DEF Keeps, HandedOut
  <2>5. TypeOK' /\ addresses' = 0..(Highest' + LookAhead - 1) /\ \A a \in Branch : index[a] <= index'[a]
    BY <1>1, <1>2, <1>3, <2>2, <2>3 DEF TypeOK, LookAheadMapped, Highest
  <2>6. QED
    BY <1>3, <2>3, <2>4, <2>5, NoneHandedOut
<1>14. CASE ReserveReceive(p)
  <2>1. CASE ~Exhausted("receive") /\ Allocate("receive")
             /\ call' = [call EXCEPT ![p] =
                  [c EXCEPT !.at = "done", !.branch = "receive", !.got = NextIndex("receive")]]
    <3> DEFINE x == [c EXCEPT !.at = "done", !.branch = "receive", !.got = NextIndex("receive")]
    <3>1. x \in Call /\ PlaceOK(x) /\ x.branch = "receive" /\ x.got = NextIndex("receive")
      BY <1>1, <1>2, Zenon DEF Call, Place, PlaceOK, Branch
    <3>2. QED
      BY <1>3, <2>1, <3>1, AllocatingStep, Zenon DEF Branch
  <2>2. CASE call' = [call EXCEPT ![p].at = "failed"] /\ UNCHANGED <<index, addresses>>
    BY <1>4, <1>5, <1>6, <2>2, Zenon
  <2>3. QED
    BY <1>14, <2>1, <2>2 DEF ReserveReceive
<1>15. CASE ReadReceive(p)
  <2>1. CASE call' = [call EXCEPT ![p] = [c EXCEPT !.at = "failed"]]
    BY <1>4, <1>5, <1>6, <1>15, <2>1, Zenon DEF ReadReceive
  <2>2. CASE call' = [call EXCEPT ![p] =
               [c EXCEPT !.at = "read", !.branch = "receive", !.got = NextIndex("receive")]]
    <3> DEFINE x == [c EXCEPT !.at = "read", !.branch = "receive", !.got = NextIndex("receive")]
    <3>1. x \in Call /\ PlaceOK(x) /\ x.at = "read"
      BY <1>1, <1>2, <1>15, Zenon DEF ReadReceive, Call, Place, PlaceOK, Branch
    <3>2. QED
      BY <1>3, <1>15, <2>2, <3>1, QuietStep, Zenon DEF ReadReceive
  <2>3. QED
    BY <1>15, <2>1, <2>2, Zenon DEF ReadReceive
<1>16. CASE SetReceive(p)
  <2>1. CASE Fits(c.got) /\ SetIndex("receive", c.got) /\ call' = [call EXCEPT ![p].at = "done"]
    <3> DEFINE x == [c EXCEPT !.at = "done"]
    <3>1. c.got \in Nat /\ c.branch = "receive" /\ kind = "vault"
      BY <1>1, <1>16 DEF SetReceive, PlaceOK
    <3>2. x \in Call /\ PlaceOK(x) /\ x.branch = "receive" /\ x.got = c.got
      BY <1>1, <3>1 DEF Call, Place, PlaceOK
    <3>3. call' \in [Calls -> Call] /\ Places' /\ call'[p] = x /\ \A q \in Calls \ {p} : Keeps(q)
      BY <1>1, <1>3, <2>1, <3>2, CallUpdate, Zenon
    <3>4. /\ \A a \in Branch : index[a] <= index'[a]
          /\ c.got <= index'["receive"]
          /\ index' \in [Branch -> 0..MaxIndex] /\ addresses' \in SUBSET (0..MaxIndex)
          /\ addresses' = 0..(Highest' + LookAhead - 1)
      BY <1>1, <2>1, <3>1, SetIndexRaises DEF Branch
    <3>5. TypeOK'
      BY <1>1, <1>3, <3>3, <3>4 DEF TypeOK
    <3>6. QED
      BY <1>3, <3>1, <3>2, <3>3, <3>4, <3>5, OneHandedOut, Zenon DEF Branch
  <2>2. CASE call' = [call EXCEPT ![p] = [c EXCEPT !.at = "failed", !.got = Null]]
             /\ UNCHANGED <<index, addresses>>
    BY <1>4, <1>5, <1>6, <2>2, Zenon
  <2>3. QED
    BY <1>16, <2>1, <2>2 DEF SetReceive
<1>17. CASE ReadIndexes(p)
  <2> DEFINE x == [c EXCEPT !.at = "update_receive", !.base = index]
  <2>1. index \in [Branch -> Nat]
    BY <1>1, IndexAssumption DEF TypeOK
  <2>2. x \in Call /\ PlaceOK(x) /\ x.at = "update_receive"
    BY <1>1, <1>17, <2>1, Zenon DEF ReadIndexes, Call, Place, PlaceOK
  <2>3. QED
    BY <1>3, <1>17, <2>2, QuietStep, Zenon DEF ReadIndexes
<1>18. ASSUME NEW b \in Branch, NEW at, NEW next \in Place, UpdateIndex(p, b, at, next),
              PlaceOK([c EXCEPT !.at = next]), c.got = Null
       PROVE  IInv'
  <2> DEFINE x == [c EXCEPT !.at = next]
  <2>1. x \in Call /\ x.got = Null /\ c.base[b] \in Nat
    BY <1>1, <1>18 DEF Call
  <2>2. PICK i \in 0..(MaxIndex + 1) :
          LET wanted == IF i > c.base[b] + MaxGap THEN c.base[b] + MaxGap ELSE i
          IN \/ /\ i > MaxIndex \/ (i > c.base[b] /\ ~Fits(wanted))
                /\ call' = [call EXCEPT ![p].at = "failed"]
                /\ UNCHANGED <<index, addresses>>
             \/ /\ i <= MaxIndex
                /\ \/ i <= c.base[b] /\ UNCHANGED <<index, addresses>>
                   \/ i > c.base[b] /\ Fits(wanted) /\ SetIndex(b, wanted)
                /\ call' = [call EXCEPT ![p].at = next]
    BY <1>18 DEF UpdateIndex
  <2> DEFINE wanted == IF i > c.base[b] + MaxGap THEN c.base[b] + MaxGap ELSE i
  <2>3. wanted \in Nat
    BY <2>1, IndexAssumption
  <2>4. CASE call' = [call EXCEPT ![p].at = "failed"] /\ UNCHANGED <<index, addresses>>
    BY <1>4, <1>5, <1>6, <2>4, Zenon
  <2>5. CASE UNCHANGED <<index, addresses>> /\ call' = [call EXCEPT ![p] = x]
    BY <1>3, <1>18, <2>1, <2>5, QuietStep, Zenon
  <2>6. CASE Fits(wanted) /\ SetIndex(b, wanted) /\ call' = [call EXCEPT ![p] = x]
    <3>1. call' \in [Calls -> Call] /\ Places' /\ \A q \in Calls : Keeps(q)
      BY <1>1, <1>3, <1>18, <2>1, <2>6, CallUpdate, Zenon
    <3>2. QED
      BY <1>3, <2>3, <2>6, <3>1, RaisingStep
  <2>7. QED
    BY <2>2, <2>4, <2>5, <2>6
<1>19. CASE UpdateReceive(p)
  <2>1. c.at = "update_receive" /\ UpdateIndex(p, "receive", "update_receive", "update_change")
    BY <1>19 DEF UpdateReceive, UpdateIndex
  <2>2. PlaceOK([c EXCEPT !.at = "update_change"]) /\ c.got = Null
    BY <1>1, <2>1 DEF PlaceOK, Call
  <2>3. QED
    BY <1>18, <2>1, <2>2 DEF Branch, Place
<1>20. CASE UpdateChange(p)
  <2>1. c.at = "update_change" /\ UpdateIndex(p, "change", "update_change", "done")
    BY <1>20 DEF UpdateChange, UpdateIndex
  <2>2. PlaceOK([c EXCEPT !.at = "done"]) /\ c.got = Null
    BY <1>1, <2>1 DEF PlaceOK, Call
  <2>3. QED
    BY <1>18, <2>1, <2>2 DEF Branch, Place
<1>21. QED
  BY <1>7, <1>8, <1>9, <1>10, <1>11, <1>12, <1>13, <1>14, <1>15, <1>16, <1>17, <1>19, <1>20 DEF Step

(* The poller raising a counter preserves the invariant.                   *)
LEMMA PollerPreserves ==
  ASSUME IInv, NEW b \in Branch, NEW i \in 0..MaxIndex, PollerRaises(b, i)
  PROVE  IInv'
<1>1. i \in Nat /\ Fits(i) /\ SetIndex(b, i) /\ UNCHANGED <<kind, call>>
  BY IndexAssumption DEF PollerRaises
<1>2. call' \in [Calls -> Call] /\ Places' /\ \A q \in Calls : Keeps(q)
  BY <1>1 DEF IInv, TypeOK, Places, PlaceOK, Keeps, HandedOut
<1>3. QED
  BY <1>1, <1>2, RaisingStep

(***************************************************************************)
(* The theorems                                                            *)
(***************************************************************************)

(* The invariant holds initially and every step keeps it.                  *)
THEOREM Invariance == Spec => []IInv
<1>1. Init => IInv
  <2>1. SUFFICES ASSUME Init PROVE IInv
    OBVIOUS
  <2>2. NewCall \in Call /\ NewCall.at = "idle" /\ NewCall.branch = "change" /\ NewCall.got = Null
    BY DEF NewCall, Call, Place, Branch, Null
  <2>3. \A p \in Calls : call[p] = NewCall
    BY <2>1 DEF Init
  <2>4. TypeOK
    BY <2>1, <2>2, IndexAssumption DEF Init, TypeOK
  <2>5. Places
    BY <2>2, <2>3 DEF Places, PlaceOK
  <2>6. \A p \in Calls : \A b \in Branch : ~HandedOut(p, b)
    BY <2>2, <2>3 DEF HandedOut
  <2>7. Highest = 0
    BY <2>1 DEF Init, Highest, Branch
  <2>8. LookAheadMapped
    BY <2>1, <2>6, <2>7, IndexAssumption DEF Init, LookAheadMapped
  <2>9. QED
    BY <2>4, <2>5, <2>6, <2>8
       DEF IInv, ChangeNeverReused, ImportedReceiveNeverReused, NeverReused, Branch
<1>2. IInv /\ [Next]_vars => IInv'
  <2>1. SUFFICES ASSUME IInv, [Next]_vars PROVE IInv'
    OBVIOUS
  <2>2. CASE UNCHANGED vars
    <3>1. UNCHANGED <<kind, index, addresses, call>>
      BY <2>2 DEF vars
    <3>2. TypeOK' /\ Places'
      BY <2>1, <3>1 DEF IInv, TypeOK, Places, PlaceOK
    <3>3. \A p \in Calls : \A b \in Branch : HandedOut(p, b)' <=> HandedOut(p, b)
      BY <3>1 DEF HandedOut
    <3>4. LookAheadMapped'
      BY <2>1, <3>1, <3>3 DEF IInv, LookAheadMapped, Highest
    <3>5. ChangeNeverReused' /\ ImportedReceiveNeverReused'
      BY <2>1, <3>1, <3>3 DEF IInv, ChangeNeverReused, ImportedReceiveNeverReused, NeverReused, Branch
    <3>6. QED
      BY <3>2, <3>4, <3>5 DEF IInv
  <2>3. QED
    BY <2>1, <2>2, StepPreserves, PollerPreserves DEF Next
<1>3. QED
  BY <1>1, <1>2, PTL DEF Spec

(* The types, among them that the indexes and the table never reach past   *)
(* the last normal index.                                                  *)
THEOREM TypeCorrect == Spec => []TypeOK
<1>1. IInv => TypeOK
  BY DEF IInv
<1>2. QED
  BY <1>1, Invariance, PTL

(* No two requests get the same change index, for any number of requests.  *)
THEOREM ChangeIndexesAreFresh == Spec => []ChangeNeverReused
<1>1. IInv => ChangeNeverReused
  BY DEF IInv
<1>2. QED
  BY <1>1, Invariance, PTL

(* The same of the receive indexes of an imported wallet.                  *)
THEOREM ImportedReceiveIndexesAreFresh == Spec => []ImportedReceiveNeverReused
<1>1. IInv => ImportedReceiveNeverReused
  BY DEF IInv
<1>2. QED
  BY <1>1, Invariance, PTL

(* The addresses table has no hole below its gap limit, nothing above it,  *)
(* and every index handed out.                                             *)
THEOREM TableHasNoHole == Spec => []LookAheadMapped
<1>1. IInv => LookAheadMapped
  BY DEF IInv
<1>2. QED
  BY <1>1, Invariance, PTL
=============================================================================
