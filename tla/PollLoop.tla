------------------------------ MODULE PollLoop ------------------------------
(***************************************************************************)
(* The poller's thread and those who talk to it: the channel of one        *)
(* message, commands that wake it (request_sync, the end of a broadcast,   *)
(* replay_wallet_records), the eager flag, the tickets of replays, the     *)
(* maintenance of the managed node and the stop of the daemon.  What a     *)
(* poll does to the wallet is Poller; here it succeeds or fails.           *)
(***************************************************************************)
EXTENDS Naturals, Sequences

CONSTANTS Clients,         \* threads that issue commands
          NoClient,
          MaxCalls,        \* bound: commands issued
          MaxTickets,      \* bound: those that are replays
          MaxMaintenance   \* bound: maintenances of the node

ASSUME LoopAssumption ==
  /\ MaxCalls \in Nat /\ MaxTickets \in Nat /\ MaxMaintenance \in Nat
  /\ NoClient \notin Clients /\ "sync" \notin Clients /\ "shutdown" \notin Clients

VARIABLES
  channel,      \* the sync_channel(1): a client is its PollNow
  loop,         \* where poll_forever is
  serving,      \* the client of the PollNow it serves
  chain_synced, \* it has seen the chain fully synced
  begun_with,   \* replay_ticket of its poll
  eager,        \* the flag of the HistorySyncCache
  req, ack,     \* WalletRecordReplay
  client,       \* where each client is; "replayed" is idle after an Ok
  own_ticket,   \* the ticket of its replay
  stopper,      \* the thread that stops the daemon
  maintenance,  \* MANAGED_NODE_MAINTENANCE
  calls, maintained,
  asked,        \* history: an eager request that no poll has begun with
  before,       \* history: clients whose replay was requested when the poll began
  covered       \* history: those for whom such a poll has succeeded

loopState  == <<loop, serving, chain_synced, begun_with>>
clientVars == <<client, own_ticket, calls>>
outerVars  == <<stopper, maintenance, maintained>>
histVars   == <<asked, before, covered>>
loopVars   == <<channel, loopState, eager, req, ack, clientVars, outerVars, histVars>>

LoopTypeOK ==
  /\ channel \in Seq(Clients \cup {"sync", "shutdown"}) /\ Len(channel) <= 1
  /\ loop \in {"wait", "woken", "polling", "reply", "leaving", "exited"}
  /\ serving \in Clients \cup {NoClient}
  /\ chain_synced \in BOOLEAN
  /\ begun_with \in Nat
  /\ eager \in BOOLEAN
  /\ req \in Nat /\ ack \in Nat
  /\ client \in [Clients -> {"idle", "flagged", "sending", "ticketed", "awaiting", "replaying",
                             "answered", "replayed"}]
  /\ own_ticket \in [Clients -> Nat]
  /\ stopper \in {"none", "sending", "joining", "stopped"}
  /\ maintenance \in BOOLEAN
  /\ calls \in Nat /\ maintained \in Nat
  /\ asked \in BOOLEAN /\ before \subseteq Clients /\ covered \subseteq Clients

LoopInit ==
  /\ channel = << >>
  /\ loop = "wait" /\ serving = NoClient /\ chain_synced = FALSE /\ begun_with = 0
  /\ eager = FALSE
  /\ req = 1 /\ ack = 0
  /\ client = [c \in Clients |-> "idle"]
  /\ own_ticket = [c \in Clients |-> 0]
  /\ stopper = "none" /\ maintenance = FALSE
  /\ calls = 0 /\ maintained = 0
  /\ asked = FALSE /\ before = {} /\ covered = {}

(* The channel's receiver is gone with the poller.                         *)
Connected == loop # "exited"
Full      == channel # << >>
Go(c, at) == client' = [client EXCEPT ![c] = at]
NoTicket(c) == own_ticket' = [own_ticket EXCEPT ![c] = 0]
(* The replay of c ends without an Ok.                                     *)
GiveUp(c) == Go(c, "idle") /\ NoTicket(c) /\ covered' = covered \ {c}

(***************************************************************************)
(* poll_forever                                                            *)
(***************************************************************************)

(* Mutant: a PollNow is taken for the wake-up that nobody waits for.       *)
ReceiveUnanswered ==
  /\ loop = "wait" /\ Full
  /\ Head(channel) # "shutdown"
  /\ channel' = << >>
  /\ loop' = "woken"
  /\ UNCHANGED <<serving, chain_synced, begun_with, eager, req, ack, clientVars, outerVars,
                 histVars>>

(* recv_timeout gives a message that is there before it times out.         *)
Receive ==
  /\ loop = "wait" /\ Full
  /\ Head(channel) # "shutdown"
  /\ channel' = << >>
  /\ serving' = IF Head(channel) \in Clients THEN Head(channel) ELSE NoClient
  /\ loop' = "woken"
  /\ UNCHANGED <<chain_synced, begun_with, eager, req, ack, clientVars, outerVars, histVars>>

Tick ==
  /\ loop = "wait" /\ ~Full
  /\ loop' = "woken"
  /\ UNCHANGED <<channel, serving, chain_synced, begun_with, eager, req, ack, clientVars, outerVars,
                 histVars>>

ReceiveShutdown ==
  /\ loop = "wait" /\ Full
  /\ Head(channel) = "shutdown"
  /\ loop' = "leaving"
  /\ channel' = << >>
  /\ UNCHANGED <<serving, chain_synced, begun_with, eager, req, ack, clientVars, outerVars,
                 histVars>>

(* Mutant: the receiver outlives the loop.                                 *)
KeepReceiver ==
  /\ loop = "leaving"
  /\ loop' = "exited"
  /\ UNCHANGED <<channel, serving, chain_synced, begun_with, eager, req, ack, clientVars,
                 outerVars, histVars>>

(* The receiver goes away with the thread, and with it a message that came *)
(* after the shutdown.                                                     *)
DropReceiver ==
  /\ loop = "leaving"
  /\ loop' = "exited"
  /\ channel' = << >>
  /\ UNCHANGED <<serving, chain_synced, begun_with, eager, req, ack, clientVars, outerVars, histVars>>

(* No poll under maintenance, nor when the chain is not synced or its      *)
(* progress cannot be read; a PollNow is answered all the same.            *)
SkipPoll ==
  /\ loop = "woken"
  /\ maintenance \/ ~chain_synced
  /\ loop' = "reply"
  /\ UNCHANGED <<channel, serving, chain_synced, begun_with, eager, req, ack, clientVars, outerVars,
                 histVars>>

(* The eager request is handed to the backend and the replay's ticket read *)
(* before anything is read from the node.                                  *)
TakeEager == eager' = FALSE
StartPoll ==
  /\ loop = "woken"
  /\ ~maintenance
  /\ chain_synced' = TRUE
  /\ TakeEager
  /\ asked' = (asked /\ ~eager)
  /\ begun_with' = IF req > ack THEN req ELSE 0
  /\ before' = {c \in Clients : client[c] \in {"ticketed", "replaying", "answered"}}
  /\ loop' = "polling"
  /\ UNCHANGED <<channel, serving, req, ack, clientVars, outerVars, covered>>

(* A poll that succeeds acknowledges the ticket it began with.             *)
(* Mutant: the latest ticket, whenever it was taken.                       *)
AckLatest(t) == ack' = req
AckTicket(t) == ack' = IF t > ack THEN t ELSE ack
EndPoll == loop' = "reply" /\ begun_with' = 0 /\ before' = {}
PollSucceeds ==
  /\ loop = "polling"
  /\ AckTicket(begun_with)
  /\ covered' = covered \cup before
  /\ EndPoll
  /\ UNCHANGED <<channel, serving, chain_synced, eager, req, clientVars, outerVars, asked>>

PollFails ==
  /\ loop = "polling"
  /\ EndPoll
  /\ UNCHANGED <<channel, serving, chain_synced, eager, req, ack, clientVars, outerVars, asked,
                 covered>>

(* The completion signal meets its client; when the client no longer       *)
(* listens it fails, and the loop goes on.                                 *)
Reply ==
  /\ loop = "reply"
  /\ client' = [c \in Clients |->
                  IF c # serving THEN client[c]
                  ELSE CASE client[c] = "awaiting"  -> "idle"
                         [] client[c] = "replaying" -> "answered"
                         [] OTHER -> client[c]]
  /\ serving' = NoClient
  /\ loop' = "wait"
  /\ UNCHANGED <<channel, chain_synced, begun_with, eager, req, ack, own_ticket, calls, outerVars,
                 histVars>>

(***************************************************************************)
(* The commands                                                            *)
(***************************************************************************)

Issue(c) ==
  /\ client[c] \in {"idle", "replayed"}
  /\ calls < MaxCalls
  /\ calls' = calls + 1

(* request_sync raises the flag, then tries to wake the poller.            *)
RaiseEager(c) ==
  /\ Issue(c)
  /\ eager' = TRUE
  /\ asked' = TRUE
  /\ Go(c, "flagged")
  /\ UNCHANGED <<channel, loopState, req, ack, own_ticket, outerVars, before, covered>>

TryWake(c) ==
  /\ client[c] = "flagged"
  /\ channel' = IF Connected /\ ~Full THEN <<"sync">> ELSE channel
  /\ Go(c, "idle")
  /\ UNCHANGED <<loopState, eager, req, ack, own_ticket, calls, outerVars, histVars>>

(* A broadcast is done but for the update: it sends PollNow, waiting for   *)
(* room, and waits for the completion signal.                              *)
FinishBroadcast(c) ==
  /\ Issue(c)
  /\ Go(c, "sending")
  /\ UNCHANGED <<channel, loopState, eager, req, ack, own_ticket, outerVars, histVars>>

SendPollNow(c) ==
  /\ client[c] = "sending"
  /\ \/ /\ Connected /\ ~Full
        /\ channel' = <<c>>
        /\ Go(c, "awaiting")
     \/ /\ ~Connected
        /\ Go(c, "idle")
        /\ UNCHANGED channel
  /\ UNCHANGED <<loopState, eager, req, ack, own_ticket, calls, outerVars, histVars>>

(* The completion signal can no longer come: its sender went away with the *)
(* poller.                                                                 *)
SignalLost(c) ==
  /\ client[c] \in {"awaiting", "replaying"}
  /\ ~Connected /\ channel # <<c>>
  /\ GiveUp(c)
  /\ UNCHANGED <<channel, loopState, eager, req, ack, calls, outerVars, asked, before>>

(* replay_wallet_records takes a ticket, wakes the poller or gives up,     *)
(* waits two minutes at most, and looks whether its ticket is acknowledged. *)
RequestTicket(c) ==
  /\ Issue(c)
  /\ req <= MaxTickets
  /\ req' = req + 1
  /\ own_ticket' = [own_ticket EXCEPT ![c] = req']
  /\ covered' = covered \ {c} /\ before' = before \ {c}
  /\ Go(c, "ticketed")
  /\ UNCHANGED <<channel, loopState, eager, ack, outerVars, asked>>

TryReplay(c) ==
  /\ client[c] = "ticketed"
  /\ IF Connected /\ ~Full
     THEN channel' = <<c>> /\ Go(c, "replaying") /\ UNCHANGED <<own_ticket, covered>>
     ELSE GiveUp(c) /\ UNCHANGED channel
  /\ UNCHANGED <<loopState, eager, req, ack, calls, outerVars, asked, before>>

(* Its receiver is gone: the PollNow, waiting or served, becomes one that  *)
(* nobody listens to, and a later call of the client has its own.          *)
HangUp(c) ==
  /\ channel' = IF channel = <<c>> THEN <<"sync">> ELSE channel
  /\ serving' = IF serving = c THEN NoClient ELSE serving

ReplayTimesOut(c) ==
  /\ client[c] = "replaying"
  /\ GiveUp(c)
  /\ HangUp(c)
  /\ UNCHANGED <<loop, chain_synced, begun_with, eager, req, ack, calls, outerVars, asked, before>>

ReplayReturns(c) ==
  /\ client[c] = "answered"
  /\ IF req > ack /\ req >= own_ticket[c]
     THEN GiveUp(c)
     ELSE Go(c, "replayed") /\ NoTicket(c) /\ UNCHANGED covered
  /\ UNCHANGED <<channel, loopState, eager, req, ack, calls, outerVars, asked, before>>

(***************************************************************************)
(* The daemon's owner and the managed node                                 *)
(***************************************************************************)

(* DaemonHandle::stop sends the shutdown, waiting for room, and joins.     *)
Stop ==
  /\ stopper = "none"
  /\ stopper' = "sending"
  /\ UNCHANGED <<channel, loopState, eager, req, ack, clientVars, maintenance, maintained, histVars>>

SendShutdown ==
  /\ stopper = "sending"
  /\ Connected /\ ~Full
  /\ channel' = <<"shutdown">>
  /\ stopper' = "joining"
  /\ UNCHANGED <<loopState, eager, req, ack, clientVars, maintenance, maintained, histVars>>

Join ==
  /\ stopper = "joining" /\ ~Connected
  /\ stopper' = "stopped"
  /\ UNCHANGED <<channel, loopState, eager, req, ack, clientVars, maintenance, maintained, histVars>>

(* MaintenanceGuard: held by one rewind at a time, dropped on every path.  *)
TryAcquire ==
  /\ Connected
  /\ ~maintenance /\ maintained < MaxMaintenance
  /\ maintenance' = TRUE /\ maintained' = maintained + 1
  /\ UNCHANGED <<channel, loopState, eager, req, ack, clientVars, stopper, histVars>>

DropGuard ==
  /\ maintenance
  /\ maintenance' = FALSE
  /\ UNCHANGED <<channel, loopState, eager, req, ack, clientVars, stopper, maintained, histVars>>

(***************************************************************************)
(* The specification                                                       *)
(***************************************************************************)

LoopStep ==
  \/ Receive \/ Tick \/ ReceiveShutdown \/ DropReceiver \/ SkipPoll \/ StartPoll
  \/ PollSucceeds \/ PollFails \/ Reply

ClientStep(c) ==
  \/ TryWake(c) \/ SendPollNow(c) \/ SignalLost(c) \/ TryReplay(c) \/ ReplayTimesOut(c)
  \/ ReplayReturns(c)

LoopNext ==
  \/ LoopStep
  \/ \E c \in Clients : RaiseEager(c) \/ FinishBroadcast(c) \/ RequestTicket(c) \/ ClientStep(c)
  \/ Stop \/ SendShutdown \/ Join \/ TryAcquire \/ DropGuard

LoopSpec == LoopInit /\ [][LoopNext]_loopVars

(***************************************************************************)
(* Properties                                                              *)
(***************************************************************************)

(* replay_wallet_records returns Ok only after a poll that began after its *)
(* request has succeeded: an older poll that ends in between, a poll that  *)
(* was skipped or failed, or the answer to another command do not count    *)
(* ("Tickets prevent an older successful poll from acknowledging a newer   *)
(* request", bitcoin/mod.rs:537).                                          *)
ReplayOkIsFresh == \A c \in Clients : client[c] = "replayed" => c \in covered

(* Whoever waits for the poller is owed an answer, and is owed one only    *)
(* while waiting: the PollNow of a broadcast or a replay that waits is in  *)
(* the channel or is being served, unless the poller is gone and dropped   *)
(* it; the poller never stands at a rendezvous with a client that has left *)
(* or waits for a later call's signal; and the shutdown of a stop that     *)
(* joins the thread is in the channel until the loop takes it, as clients  *)
(* that find the channel full do not push it out.                          *)
Owed(c) == channel = <<c>> \/ serving = c
WaitsAreOwed ==
  /\ \A c \in Clients :
       IF client[c] \in {"awaiting", "replaying"} THEN Owed(c) \/ ~Connected ELSE ~Owed(c)
  /\ stopper = "joining" => channel = <<"shutdown">> \/ loop \in {"leaving", "exited"}

(* Nobody waits for the poller for ever: a broadcast or a replay comes     *)
(* back, also when its poll is skipped or the daemon stops under it, as    *)
(* the signal it waits for comes or its sender is dropped; an eager        *)
(* request whose wake-up found the channel full is begun with by some      *)
(* poll, unless the daemon stops; and the stop itself ends, however full   *)
(* the channel is and whoever has given up on the signal.                  *)
Settled ==
  /\ \A c \in Clients : client[c] \in {"idle", "replayed"}
  /\ asked => ~Connected
  /\ stopper \in {"none", "stopped"}
NobodyWaitsForever == []<>Settled
=============================================================================
