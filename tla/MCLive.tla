------------------------------- MODULE MCLive -------------------------------
(***************************************************************************)
(* What must eventually happen in the daemon, in two parts that are run    *)
(* apart: the polls of a small wallet, and the loop around them with its   *)
(* clients.                                                                *)
(***************************************************************************)
EXTENDS MCPoller, PollLoop

VARIABLE part

liveVars == <<vars, loopVars, part>>

PollerPart(A) == part = "poller" /\ A /\ UNCHANGED <<loopVars, part>>
LoopPart(A)   == part = "loop" /\ A /\ UNCHANGED <<vars, part>>

LiveInit == Init /\ LoopInit /\ part \in {"poller", "loop"}
LiveNext == PollerPart(Next) \/ LoopPart(LoopNext)

(* For the polls, the fairness of Poller's FairSpec.  For the loop: its    *)
(* thread goes on, the chain is some time synced when it looks, and so do  *)
(* the threads around it: the commands, the stop, a rewind of the node     *)
(* that drops its guard.  The steps of these are bounded, so fairness to   *)
(* them together is fairness to each; and a behaviour has one part, so one *)
(* condition may speak of both.                                            *)
LiveSpec ==
  /\ LiveInit /\ [][LiveNext]_liveVars
  /\ WF_liveVars(PollerPart(PollStep) \/ LoopPart(LoopStep))
  /\ SF_liveVars(PollerPart(EnvStep /\ RescanFinished) \/ LoopPart(StartPoll))
  /\ WF_liveVars(\/ PollerPart(\E w \in Rpcs : StartRescan(w) \/ SetRescan(w))
                 \/ LoopPart(\/ \E c \in Clients : ClientStep(c)
                             \/ SendShutdown \/ Join \/ DropGuard))

(* The stored tip catches up with the node's (see Poller).                 *)
PollerCatchesUp == part = "poller" => CatchesUp
=============================================================================
