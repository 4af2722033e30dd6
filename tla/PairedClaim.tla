---------------------------- MODULE PairedClaim ----------------------------
(***************************************************************************)
(* The submission of a claim's two signed transactions: the journal on     *)
(* disk, the tasks that open it under its lock and submit one side each,   *)
(* the one-use gate between a task and its blocking transport worker, the  *)
(* Connect session, the network, and crashes of the process or machine.    *)
(*                                                                         *)
(* The journal's content is a stage: the intent only ever grows by the     *)
(* signed pair, the possible Bitcoin attempt and the possible fork attempt,*)
(* in this order.                                                          *)
(***************************************************************************)
EXTENDS Naturals

CONSTANTS Tasks,        \* concurrent user actions (tabs, repeated clicks)
          MaxSessions,  \* bound: changes of the Connect session
          MaxCrashes,   \* bound: crashes of the process or the machine
          NoTask

ASSUME ClaimAssumption ==
    MaxSessions \in Nat /\ MaxCrashes \in Nat /\ NoTask \notin Tasks

VARIABLES
    disk,     \* stage in intent.json as the file system shows it
    synced,   \* stage that survives a power loss
    lock,     \* the task holding claim.lock
    pc,       \* where each task is
    side,     \* the side a task is submitting
    snap,     \* the stage a task's controller works from
    fresh,    \* its proof, review and confirmation are under 30 s old
    gen,      \* the session version it captured
    answer,   \* what its last confirm told the user
    session,  \* the Connect session's version
    gate,     \* the state of the gate of each side's durable attempt
    worker,   \* the blocking transport worker of each side
    wire,     \* how often each side's transaction left for the network
    bitcoin,  \* where the network has the Bitcoin transaction
    wasDeep,  \* history: it was once six blocks deep
    crashes

journalVars == <<disk, synced, lock>>
taskVars == <<pc, side, snap, fresh, gen, answer>>
sendVars == <<gate, worker, wire>>
netVars == <<bitcoin, wasDeep>>
claimVars == <<journalVars, taskVars, session, sendVars, netVars, crashes>>

ClaimSides == {"bitcoin", "fork"}
NoIntent == 0
Unsigned == 1
Signed == 2
BitcoinAttempt == 3
ForkAttempt == 4
Stages == NoIntent..ForkAttempt

(* The stage before and after recording the attempt of a side.             *)
Before(s) == IF s = "bitcoin" THEN Signed ELSE BitcoinAttempt
After(s) == Before(s) + 1

ClaimTypeOK ==
    /\ disk \in Stages /\ synced \in Stages
    /\ lock \in Tasks \union {NoTask}
    /\ pc \in [Tasks -> {"idle", "open", "review", "preflight", "record",
                         "spawn", "waiting"}]
    /\ side \in [Tasks -> ClaimSides]
    /\ snap \in [Tasks -> Stages]
    /\ fresh \in [Tasks -> BOOLEAN]
    /\ gen \in [Tasks -> Nat]
    /\ answer \in [Tasks -> {"none", "error", "uncertain", "accepted"}]
    /\ session \in Nat
    /\ gate \in [ClaimSides -> {"none", "pending", "revoked", "started", "expired"}]
    /\ worker \in [ClaimSides -> {"none", "queued", "sending", "accepted", "failed"}]
    /\ wire \in [ClaimSides -> Nat]
    /\ bitcoin \in {"absent", "mempool", "mined", "deep"}
    /\ wasDeep \in BOOLEAN
    /\ crashes \in Nat

ClaimInit ==
    /\ disk = NoIntent /\ synced = NoIntent
    /\ lock = NoTask
    /\ pc = [t \in Tasks |-> "idle"]
    /\ side = [t \in Tasks |-> "bitcoin"]
    /\ snap = [t \in Tasks |-> NoIntent]
    /\ fresh = [t \in Tasks |-> FALSE]
    /\ gen = [t \in Tasks |-> 0]
    /\ answer = [t \in Tasks |-> "none"]
    /\ session = 0
    /\ gate = [s \in ClaimSides |-> "none"]
    /\ worker = [s \in ClaimSides |-> "none"]
    /\ wire = [s \in ClaimSides |-> 0]
    /\ bitcoin = "absent" /\ wasDeep = FALSE
    /\ crashes = 0
-----------------------------------------------------------------------------
(* Mutant: the directory is not synced.                                    *)
StoreNoSync(t, stage) ==
    /\ disk = snap[t]
    /\ disk' = stage
    /\ UNCHANGED synced

(* Journal::store. The file must still be the one the controller read; the *)
(* new file is synced and renamed over it, then the directory is synced.   *)
Store(t, stage) ==
    /\ disk = snap[t]
    /\ disk' = stage
    /\ synced' = stage

(* A store that fails after the rename: the file shows the new stage, and  *)
(* whether a power loss keeps it is open.                                  *)
StoreUnsynced(t, stage) ==
    /\ disk = snap[t]
    /\ disk' = stage
    /\ UNCHANGED synced

SessionCurrent(t) == gen[t] = session

(* The task ends with an answer; its controller is dropped with the lock.  *)
Return(t, result) ==
    /\ pc' = [pc EXCEPT ![t] = "idle"]
    /\ answer' = [answer EXCEPT ![t] = result]
    /\ lock' = NoTask
    /\ fresh' = [fresh EXCEPT ![t] = FALSE]

(* Recording the intent and then the signed pair: each opens the journal,  *)
(* checks the stage it extends, stores and lets go of the lock.            *)
Record(from) ==
    /\ lock = NoTask
    /\ disk = from
    /\ \/ disk' = from + 1 /\ synced' = from + 1
       \/ disk' = from + 1 /\ UNCHANGED synced
    /\ UNCHANGED <<lock, taskVars, session, sendVars, netVars, crashes>>

CreateIntent == Record(NoIntent)

RecordSignedPair == Record(Unsigned)

(* A confirmed broadcast reopens the journal. A task that finds the lock   *)
(* held gives up as Busy, which changes nothing.                           *)
Reopen(t) ==
    /\ pc[t] = "idle"
    /\ lock = NoTask
    /\ disk >= Signed
    /\ lock' = t
    /\ snap' = [snap EXCEPT ![t] = disk]
    /\ gen' = [gen EXCEPT ![t] = session]
    /\ answer' = [answer EXCEPT ![t] = "none"]
    /\ pc' = [pc EXCEPT ![t] = "open"]
    /\ UNCHANGED <<disk, synced, side, fresh, session, sendVars, netVars, crashes>>

(* The first-send review: no attempt of either side is on record.          *)
PrepareInitialReview(t) ==
    /\ pc[t] = "open"
    /\ snap[t] = Signed
    /\ side' = [side EXCEPT ![t] = "bitcoin"]
    /\ fresh' = [fresh EXCEPT ![t] = TRUE]
    /\ pc' = [pc EXCEPT ![t] = "review"]
    /\ UNCHANGED <<journalVars, snap, gen, answer, session, sendVars, netVars, crashes>>

(* Mutant: any confirmation will do.                                       *)
PrepareOnConfirmation(t) ==
    /\ pc[t] = "open"
    /\ snap[t] = BitcoinAttempt
    /\ bitcoin \in {"mined", "deep"}
    /\ SessionCurrent(t)
    /\ side' = [side EXCEPT ![t] = "fork"]
    /\ fresh' = [fresh EXCEPT ![t] = TRUE]
    /\ pc' = [pc EXCEPT ![t] = "review"]
    /\ UNCHANGED <<journalVars, snap, gen, answer, session, sendVars, netVars, crashes>>

(* The second-send review: the Bitcoin attempt is on record, the fork's is *)
(* not, and reconciliation under an unchanged session saw this Bitcoin     *)
(* transaction with six canonical confirmations.                           *)
PreparePostBitcoinReview(t) ==
    /\ pc[t] = "open"
    /\ snap[t] = BitcoinAttempt
    /\ bitcoin = "deep"
    /\ SessionCurrent(t)
    /\ side' = [side EXCEPT ![t] = "fork"]
    /\ fresh' = [fresh EXCEPT ![t] = TRUE]
    /\ pc' = [pc EXCEPT ![t] = "review"]
    /\ UNCHANGED <<journalVars, snap, gen, answer, session, sendVars, netVars, crashes>>

(* No review can be prepared: an attempt is on record, the confirmation is *)
(* missing, a read failed or the session changed.                          *)
PrepareFails(t) ==
    /\ pc[t] = "open"
    /\ Return(t, "error")
    /\ UNCHANGED <<disk, synced, side, snap, gen, session, sendVars, netVars, crashes>>

(* Thirty seconds pass for a task's proof, review or confirmation.         *)
Age(t) ==
    /\ fresh[t]
    /\ fresh' = [fresh EXCEPT ![t] = FALSE]
    /\ UNCHANGED <<journalVars, pc, side, snap, gen, answer, session, sendVars,
                   netVars, crashes>>

(* confirm_and_submit up to its first await, the policy read.              *)
Confirm(t) ==
    /\ pc[t] = "review"
    /\ IF fresh[t]
       THEN /\ pc' = [pc EXCEPT ![t] = "preflight"]
            /\ UNCHANGED <<lock, fresh, answer>>
       ELSE Return(t, "error")
    /\ UNCHANGED <<disk, synced, side, snap, gen, session, sendVars, netVars, crashes>>

(* The policy read answers. It is refused when the session changed, the    *)
(* node rejects a transaction or the request fails.                        *)
Preflight(t) ==
    /\ pc[t] = "preflight"
    /\ \/ /\ SessionCurrent(t)
          /\ pc' = [pc EXCEPT ![t] = "record"]
          /\ UNCHANGED <<lock, fresh, answer>>
       \/ Return(t, "error")
    /\ UNCHANGED <<disk, synced, side, snap, gen, session, sendVars, netVars, crashes>>

(* The guard of record_possible_ancestry_attempt: nothing is stale and the *)
(* journal has the stage before this side's attempt.                       *)
MayRecord(t) == fresh[t] /\ snap[t] = Before(side[t])

(* record_possible_ancestry_attempt: the attempt is on disk for good before*)
(* its gate exists. A refusal or a failed store is an error and no gate.   *)
RecordAttempt(t) ==
    /\ pc[t] = "record"
    /\ \/ /\ MayRecord(t)
          /\ Store(t, After(side[t]))
          /\ snap' = [snap EXCEPT ![t] = After(side[t])]
          /\ gate' = [gate EXCEPT ![side[t]] = "pending"]
          /\ pc' = [pc EXCEPT ![t] = "spawn"]
          /\ UNCHANGED <<lock, fresh, answer>>
       \/ /\ \/ UNCHANGED <<disk, synced>>
             \/ MayRecord(t) /\ StoreUnsynced(t, After(side[t]))
          /\ Return(t, "error")
          /\ UNCHANGED <<snap, gate>>
    /\ UNCHANGED <<side, gen, session, worker, wire, netVars, crashes>>

(* After the record: the blocking worker is spawned. If no gate can be     *)
(* built, or the session changed, which revokes it, nobody will enter it.  *)
Spawn(t) ==
    /\ pc[t] = "spawn"
    /\ \/ /\ SessionCurrent(t)
          /\ worker' = [worker EXCEPT ![side[t]] = "queued"]
          /\ pc' = [pc EXCEPT ![t] = "waiting"]
          /\ UNCHANGED <<gate, lock, fresh, answer>>
       \/ /\ gate' = [gate EXCEPT ![side[t]] = "revoked"]
          /\ Return(t, "uncertain")
          /\ UNCHANGED worker
    /\ UNCHANGED <<disk, synced, side, snap, gen, session, wire, netVars, crashes>>

(* Mutant: the gate is left as it is.                                      *)
RevokeNothing(s) == UNCHANGED gate

(* SubmissionRevoker::revoke wins only against a gate nobody entered.      *)
Revoke(s) ==
    gate' = [gate EXCEPT ![s] = IF @ = "pending" THEN "revoked" ELSE @]

(* Mutant: the end of the worker counts as acceptance.                     *)
AnswerWhenDone(t) ==
    /\ pc[t] = "waiting"
    /\ Revoke(side[t])
    /\ \/ Return(t, "uncertain")
       \/ /\ SessionCurrent(t)
          /\ worker[side[t]] \in {"accepted", "failed"}
          /\ Return(t, "accepted")
    /\ UNCHANGED <<disk, synced, side, snap, gen, session, worker, wire, netVars, crashes>>

(* The select of the session's change, the 30 s timeout and the worker's   *)
(* answer, then the revocation and the last session check.                 *)
Answer(t) ==
    /\ pc[t] = "waiting"
    /\ Revoke(side[t])
    /\ \/ Return(t, "uncertain")
       \/ /\ SessionCurrent(t)
          /\ worker[side[t]] = "accepted"
          /\ Return(t, "accepted")
    /\ UNCHANGED <<disk, synced, side, snap, gen, session, worker, wire, netVars, crashes>>
-----------------------------------------------------------------------------
(* The worker enters the gate: one compare-and-swap from pending, to       *)
(* expired when its ten seconds are over. Preparing the request may fail   *)
(* before.                                                                 *)
Enter(s) ==
    /\ worker[s] = "queued"
    /\ \/ /\ gate[s] = "pending"
          /\ gate' = [gate EXCEPT ![s] = "started"]
          /\ worker' = [worker EXCEPT ![s] = "sending"]
       \/ /\ gate' = [gate EXCEPT ![s] = IF @ = "pending" THEN "expired" ELSE @]
          /\ worker' = [worker EXCEPT ![s] = "failed"]
       \/ /\ worker' = [worker EXCEPT ![s] = "failed"]
          /\ UNCHANGED gate
    /\ UNCHANGED <<journalVars, taskVars, session, wire, netVars, crashes>>

(* The one request: it may be lost, and its answer may be lost.            *)
SendRequest(s) ==
    /\ worker[s] = "sending"
    /\ \/ /\ wire' = [wire EXCEPT ![s] = @ + 1]
          /\ worker' \in {[worker EXCEPT ![s] = "accepted"],
                          [worker EXCEPT ![s] = "failed"]}
          /\ bitcoin' = IF s = "bitcoin" /\ bitcoin = "absent"
                        THEN "mempool" ELSE bitcoin
       \/ /\ worker' = [worker EXCEPT ![s] = "failed"]
          /\ UNCHANGED <<wire, bitcoin>>
    /\ UNCHANGED <<journalVars, taskVars, session, gate, wasDeep, crashes>>

(* The Bitcoin network: the transaction is dropped, mined, buried six deep *)
(* or reorganised out again.                                               *)
Network ==
    /\ \/ bitcoin = "mempool" /\ bitcoin' \in {"absent", "mined"}
       \/ bitcoin = "mined" /\ bitcoin' \in {"mempool", "deep"}
       \/ bitcoin = "deep" /\ bitcoin' = "mined"
    /\ wasDeep' = (wasDeep \/ bitcoin' = "deep")
    /\ UNCHANGED <<journalVars, taskVars, session, sendVars, crashes>>

(* Connect signs out, in or refreshes: every notification ends the session *)
(* a task captured.                                                        *)
ChangeSession ==
    /\ session < MaxSessions
    /\ session' = session + 1
    /\ UNCHANGED <<journalVars, taskVars, sendVars, netVars, crashes>>

(* The file system writes a renamed file's directory back on its own.      *)
WriteBack ==
    /\ synced # disk
    /\ synced' = disk
    /\ UNCHANGED <<disk, lock, taskVars, session, sendVars, netVars, crashes>>

(* The process dies, and with it tasks, workers and the lock; a power loss *)
(* also takes what was not synced. A worker inside its request dies with   *)
(* it sent (see SendRequest) or not.                                       *)
Crash ==
    /\ crashes < MaxCrashes
    /\ crashes' = crashes + 1
    /\ disk' \in {disk, synced}
    /\ lock' = NoTask
    /\ pc' = [t \in Tasks |-> "idle"]
    /\ fresh' = [t \in Tasks |-> FALSE]
    /\ worker' = [s \in ClaimSides |-> "none"]
    /\ UNCHANGED <<synced, side, snap, gen, answer, session, gate, wire, netVars>>

TaskStep(t) ==
    \/ Reopen(t) \/ PrepareInitialReview(t) \/ PreparePostBitcoinReview(t)
    \/ PrepareFails(t) \/ Age(t) \/ Confirm(t) \/ Preflight(t)
    \/ RecordAttempt(t) \/ Spawn(t) \/ Answer(t)

ClaimNext ==
    \/ CreateIntent \/ RecordSignedPair
    \/ \E t \in Tasks : TaskStep(t)
    \/ \E s \in ClaimSides : Enter(s) \/ SendRequest(s)
    \/ Network \/ ChangeSession \/ WriteBack \/ Crash

ClaimSpec == ClaimInit /\ [][ClaimNext]_claimVars
-----------------------------------------------------------------------------
(* What is on disk for good of the two attempts.                           *)
AttemptsOf(stage) == {s \in ClaimSides : stage >= After(s)}

Once == INSTANCE PairOnce WITH attempted <- AttemptsOf(synced), sends <- wire

(* The submission implements the at-most-once promise: whatever crashes,   *)
(* lost answers, timeouts and repeated confirmations happen, a side leaves *)
(* at most once, after its attempt is on disk for good, the fork after the *)
(* Bitcoin side.                                                           *)
SubmitsAtMostOnce == Once!Spec

(* The fork's transaction leaves only after this claim's Bitcoin           *)
(* transaction had six confirmations, although the confirmation is read    *)
(* before the policy read and the record, and by another task than the one *)
(* that sent it.                                                           *)
ForkAfterSixConfirmations == wire["fork"] > 0 => wasDeep

(* Once a confirm has answered, no transport starts for it: the revocation *)
(* closes a gate the worker has not entered, so only a request already     *)
(* under way can still arrive.                                             *)
NoSendStartsAfterAnswer ==
    [][\A s \in ClaimSides :
         gate[s] = "pending" /\ gate'[s] = "started" =>
             \E t \in Tasks : pc[t] = "waiting" /\ side[t] = s]_claimVars

(* An accepted answer is about a transaction that did leave: a late, lost  *)
(* or refused request is never reported as accepted.                       *)
AnswersAreTrue ==
    \A t \in Tasks : answer[t] = "accepted" => wire[side[t]] = 1
=============================================================================
