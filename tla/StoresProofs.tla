---------------------------- MODULE StoresProofs ----------------------------
(***************************************************************************)
(* The components that are run together in MCStores:                       *)
(*   - the binary search for the block of a rescan is right for a chain of *)
(*     any length and any times of its blocks;                             *)
(*   - a replay that returns Ok was covered by a poll that began after it, *)
(*     and whoever waits for the poller is owed an answer, for any number  *)
(*     of clients, commands and tickets;                                   *)
(*   - every variable of these, of the claim, the pairing and duress mode  *)
(*     keeps its type.                                                     *)
(***************************************************************************)
EXTENDS MCStores, ServiceProofs

(***************************************************************************)
(* block_before_date                                                       *)
(***************************************************************************)

(* What holds between low and high throughout: everything the search has   *)
(* excluded on the left ends with a block before the date, everything on   *)
(* the right begins with one that is not.                                  *)
Bracketed ==
  search # "none" =>
    /\ InRange(times, target)
    /\ low <= high
    /\ low = 0 \/ times[low] < target
    /\ high < TipHeight => target <= times[high + 1]
    /\ search = "found" => low = high

SearchInv == SearchTypeOK /\ Bracketed

(* The middle lies between the ends and leaves room for the block after it. *)
LEMMA MiddleInRange ==
  ASSUME SearchTypeOK, low < high
  PROVE  Middle \in Heights /\ Middle + 1 \in Heights /\ low <= Middle /\ Middle < high
BY SearchAssumption DEF SearchTypeOK, Heights, Middle

(* The search starts with the bracket of the whole chain.                  *)
LEMMA InitSearch == ASSUME SearchInit PROVE SearchInv
BY SearchAssumption DEF SearchInit, SearchInv, SearchTypeOK, Bracketed, Heights, InRange

(* Each request to the node keeps the bracket.                             *)
LEMMA StepSearch == ASSUME SearchInv, [SearchNext]_searchVars PROVE SearchInv'
<1>1. CASE Halve
  <2>1. Middle \in Heights /\ Middle + 1 \in Heights /\ low <= Middle /\ Middle < high
    BY <1>1, MiddleInRange DEF Halve, SearchInv
  <2>2. SearchTypeOK'
    BY <1>1, <2>1 DEF Halve, SearchInv, SearchTypeOK
  <2>3. Bracketed'
    <3>1. CASE IsBefore(Middle + 1)
      BY <1>1, <2>1, <3>1, SearchAssumption
      DEF Halve, SearchInv, SearchTypeOK, Bracketed, InRange, IsBefore, Heights
    <3>2. CASE ~IsBefore(Middle + 1)
      BY <1>1, <2>1, <3>2, SearchAssumption
      DEF Halve, SearchInv, SearchTypeOK, Bracketed, InRange, IsBefore, Heights
    <3> QED BY <3>1, <3>2
  <2> QED BY <2>2, <2>3 DEF SearchInv
<1>2. CASE Found
  BY <1>2, SearchAssumption DEF Found, SearchInv, SearchTypeOK, Bracketed, InRange, Heights
<1>3. CASE Missing
  BY <1>3 DEF Missing, SearchInv, SearchTypeOK, Bracketed
<1>4. CASE UNCHANGED searchVars
  BY <1>4 DEF searchVars, SearchInv, SearchTypeOK, Bracketed, InRange
<1> QED BY <1>1, <1>2, <1>3, <1>4 DEF SearchNext

(* The search keeps its bracket, for every chain and date.                 *)
LEMMA SearchInvariant == SearchSpec => []SearchInv
<1>1. SearchInit => SearchInv
  BY InitSearch
<1>2. SearchInv /\ [SearchNext]_searchVars => SearchInv'
  BY StepSearch
<1> QED BY <1>1, <1>2, PTL DEF SearchSpec

(* However the times are ordered, block_before_date returns a block below  *)
(* the tip that is before the date and whose successor is not: the tip is  *)
(* excluded since the date is before it.                                   *)
THEOREM SearchFindsACrossing == SearchSpec => []SearchCrosses
<1>1. SearchInv => SearchCrosses
  BY SearchAssumption
  DEF SearchInv, SearchTypeOK, Bracketed, InRange, SearchCrosses, Heights
<1> QED BY <1>1, SearchInvariant, PTL

(* On a chain whose times grow, the blocks up to the one returned are      *)
(* exactly those before the date, and the genesis block.                   *)
THEOREM SearchIsExact == SearchSpec => []SearchExact
<1>1. SearchInv => SearchExact
  <2> SUFFICES ASSUME SearchInv, search = "found", Ordered
               PROVE  0..low = {0} \cup {h \in Heights : times[h] < target}
    BY DEF SearchExact
  <2>1. SearchCrosses
    BY SearchAssumption
    DEF SearchInv, SearchTypeOK, Bracketed, InRange, SearchCrosses, Heights
  <2>2. ASSUME NEW h \in Heights, h <= low PROVE h = 0 \/ times[h] < target
    BY <2>1, <2>2, SearchAssumption
    DEF SearchInv, SearchTypeOK, SearchCrosses, Ordered, Heights
  <2>3. ASSUME NEW h \in Heights, low < h PROVE ~(times[h] < target)
    BY <2>1, <2>3, SearchAssumption
    DEF SearchInv, SearchTypeOK, SearchCrosses, Ordered, Heights
  <2>4. low \in Heights
    BY DEF SearchInv, SearchTypeOK
  <2> QED BY <2>2, <2>3, <2>4, SearchAssumption DEF Heights
<1> QED BY <1>1, SearchInvariant, PTL

(***************************************************************************)
(* The tickets of replays                                                  *)
(***************************************************************************)

(* The clients whose replay holds a ticket.                                *)
Holds(c) == client[c] \in {"ticketed", "replaying", "answered"}

TicketTypeOK ==
  /\ req \in Nat /\ ack \in Nat /\ begun_with \in Nat
  /\ client \in [Clients -> {"idle", "flagged", "sending", "ticketed", "awaiting", "replaying",
                             "answered", "replayed"}]
  /\ own_ticket \in [Clients -> Nat]

(* Tickets are handed out once and in order; a ticket the running poll     *)
(* began with, or one that is acknowledged, is of a client the poll, or an *)
(* earlier one, began after.                                               *)
TicketInv ==
  /\ begun_with <= req /\ ack <= req
  /\ \A c \in Clients : Holds(c) =>
       /\ own_ticket[c] > 0 /\ own_ticket[c] <= req
       /\ own_ticket[c] <= begun_with => c \in before
       /\ own_ticket[c] <= ack => c \in covered

ReplayInv == TicketTypeOK /\ TicketInv /\ ReplayOkIsFresh

USE DEF Holds, Go, NoTicket, GiveUp, Issue, loopState, clientVars, outerVars, histVars

(* A poll begins with the latest ticket, after all that hold one.          *)
LEMMA StartPollKeeps ==
  ASSUME ReplayInv, StartPoll PROVE ReplayInv'
<1>1. TicketTypeOK'
  BY DEF ReplayInv, TicketTypeOK, StartPoll
<1>2. TicketInv' /\ ReplayOkIsFresh'
  BY DEF ReplayInv, TicketTypeOK, TicketInv, ReplayOkIsFresh, StartPoll
<1> QED BY <1>1, <1>2 DEF ReplayInv

(* A successful poll acknowledges no ticket later than the one it began    *)
(* with, and covers all it began after.                                    *)
LEMMA PollSucceedsKeeps ==
  ASSUME ReplayInv, PollSucceeds PROVE ReplayInv'
<1>1. TicketTypeOK'
  BY DEF ReplayInv, TicketTypeOK, PollSucceeds, AckTicket, EndPoll
<1>2. TicketInv' /\ ReplayOkIsFresh'
  BY DEF ReplayInv, TicketTypeOK, TicketInv, ReplayOkIsFresh, PollSucceeds, AckTicket, EndPoll
<1> QED BY <1>1, <1>2 DEF ReplayInv

(* The other steps of the loop leave tickets alone.                        *)
LEMMA LoopStepKeeps ==
  ASSUME ReplayInv, LoopStep PROVE ReplayInv'
<1>1. CASE PollFails
  BY <1>1 DEF ReplayInv, TicketTypeOK, TicketInv, ReplayOkIsFresh, PollFails, EndPoll
<1>2. CASE Reply
  BY <1>2 DEF ReplayInv, TicketTypeOK, TicketInv, ReplayOkIsFresh, Reply
<1>3. CASE UNCHANGED <<req, ack, begun_with, client, own_ticket, before, covered>>
  BY <1>3 DEF ReplayInv, TicketTypeOK, TicketInv, ReplayOkIsFresh
<1> QED BY <1>1, <1>2, <1>3, StartPollKeeps, PollSucceedsKeeps
        DEF LoopStep, Receive, Tick, ReceiveShutdown, DropReceiver, SkipPoll

(* A new ticket is later than those the running poll began with and those  *)
(* that are acknowledged.                                                  *)
LEMMA RequestTicketKeeps ==
  ASSUME NEW c \in Clients, ReplayInv, RequestTicket(c) PROVE ReplayInv'
<1>1. TicketTypeOK'
  BY DEF ReplayInv, TicketTypeOK, RequestTicket
<1>2. TicketInv' /\ ReplayOkIsFresh'
  BY DEF ReplayInv, TicketTypeOK, TicketInv, ReplayOkIsFresh, RequestTicket
<1> QED BY <1>1, <1>2 DEF ReplayInv

(* The replay whose ticket is acknowledged is the one that returns Ok.     *)
LEMMA ReplayReturnsKeeps ==
  ASSUME NEW c \in Clients, ReplayInv, ReplayReturns(c) PROVE ReplayInv'
<1>1. TicketTypeOK'
  BY DEF ReplayInv, TicketTypeOK, ReplayReturns
<1>2. TicketInv' /\ ReplayOkIsFresh'
  BY DEF ReplayInv, TicketTypeOK, TicketInv, ReplayOkIsFresh, ReplayReturns
<1> QED BY <1>1, <1>2 DEF ReplayInv

(* The other steps of a client take no ticket and return no Ok.            *)
LEMMA ClientKeeps ==
  ASSUME NEW c \in Clients, ReplayInv,
         \/ RaiseEager(c) \/ FinishBroadcast(c) \/ TryWake(c) \/ SendPollNow(c)
         \/ SignalLost(c) \/ TryReplay(c) \/ ReplayTimesOut(c)
  PROVE  ReplayInv'
<1>1. CASE RaiseEager(c) \/ FinishBroadcast(c) \/ TryWake(c) \/ SendPollNow(c)
  <2>1. /\ UNCHANGED <<req, ack, begun_with, own_ticket, before, covered>>
        /\ \E at \in {"flagged", "idle", "sending", "awaiting"} : Go(c, at)
    BY <1>1, Zenon DEF RaiseEager, FinishBroadcast, TryWake, SendPollNow
  <2>2. QED
    BY <2>1 DEF ReplayInv, TicketTypeOK, TicketInv, ReplayOkIsFresh
<1>2. CASE SignalLost(c) \/ ReplayTimesOut(c)
  <2>1. UNCHANGED <<req, ack, begun_with, before>> /\ GiveUp(c)
    BY <1>2, Zenon DEF SignalLost, ReplayTimesOut
  <2>2. QED
    BY <2>1 DEF ReplayInv, TicketTypeOK, TicketInv, ReplayOkIsFresh
<1>3. CASE TryReplay(c)
  BY <1>3 DEF ReplayInv, TicketTypeOK, TicketInv, ReplayOkIsFresh, TryReplay
<1> QED BY <1>1, <1>2, <1>3

(* The tickets are in order from the start on.                             *)
LEMMA InitTickets == ASSUME LoopInit PROVE ReplayInv
<1>1. TicketTypeOK
  BY DEF LoopInit, TicketTypeOK
<1>2. TicketInv /\ ReplayOkIsFresh
  BY DEF LoopInit, TicketInv, ReplayOkIsFresh
<1> QED BY <1>1, <1>2, Zenon DEF ReplayInv

(* Every step keeps the tickets in order.                                  *)
LEMMA StepTickets == ASSUME ReplayInv, [LoopNext]_loopVars PROVE ReplayInv'
<1>1. CASE LoopStep
  BY <1>1, LoopStepKeeps
<1>2. ASSUME NEW c \in Clients, RaiseEager(c) \/ FinishBroadcast(c) \/ RequestTicket(c)
                                \/ ClientStep(c)
      PROVE  ReplayInv'
  BY <1>2, ClientKeeps, RequestTicketKeeps, ReplayReturnsKeeps DEF ClientStep
<1>3. CASE UNCHANGED <<req, ack, begun_with, client, own_ticket, before, covered>>
  BY <1>3 DEF ReplayInv, TicketTypeOK, TicketInv, ReplayOkIsFresh
<1> QED BY <1>1, <1>2, <1>3 DEF LoopNext, loopVars, Stop, SendShutdown, Join, TryAcquire,
        DropGuard

(* replay_wallet_records returns Ok only after the success of a poll that  *)
(* began after its request.                                                *)
THEOREM ReplayWaitsForItsPoll == LoopSpec => []ReplayOkIsFresh
<1>1. LoopInit => ReplayInv
  BY InitTickets
<1>2. ReplayInv /\ [LoopNext]_loopVars => ReplayInv'
  BY StepTickets
<1>3. ReplayInv => ReplayOkIsFresh
  BY DEF ReplayInv
<1> QED BY <1>1, <1>2, <1>3, PTL DEF LoopSpec

(***************************************************************************)
(* The channel and the rest of the loop's state                            *)
(***************************************************************************)

Messages == Clients \cup {"sync", "shutdown"}

(* A channel with one message or none fits.                                *)
LEMMA ShortChannels ==
  /\ << >> \in Seq(Messages) /\ Len(<< >>) <= 1
  /\ \A m \in Messages : <<m>> \in Seq(Messages) /\ Len(<<m>>) <= 1
OBVIOUS

(* Whoever sends finds the channel empty, and the loop takes all of it.    *)
LEMMA OneMessage ==
  ASSUME LoopNext
  PROVE  channel' = channel \/ channel' = << >> \/ \E m \in Messages : channel' = <<m>>
<1>1. CASE LoopStep
  BY <1>1, Zenon DEF LoopStep, Receive, Tick, ReceiveShutdown, DropReceiver, SkipPoll, StartPoll,
     PollSucceeds, PollFails, Reply
<1>2. ASSUME NEW c \in Clients, RaiseEager(c) \/ FinishBroadcast(c) \/ RequestTicket(c)
      PROVE  channel' = channel
  BY <1>2, Zenon DEF RaiseEager, FinishBroadcast, RequestTicket
<1>3. ASSUME NEW c \in Clients, ClientStep(c)
      PROVE  channel' = channel \/ \E m \in Messages : channel' = <<m>>
  BY <1>3, Zenon DEF ClientStep, TryWake, SendPollNow, SignalLost, TryReplay, ReplayTimesOut,
     HangUp, ReplayReturns, Messages
<1>4. CASE Stop \/ SendShutdown \/ Join \/ TryAcquire \/ DropGuard
  BY <1>4, Zenon DEF Stop, SendShutdown, Join, TryAcquire, DropGuard, Messages
<1> QED BY <1>1, <1>2, <1>3, <1>4, Zenon DEF LoopNext

(* The steps of the loop.                                                  *)
LEMMA LoopStepTypes ==
  ASSUME LoopTypeOK, LoopStep
  PROVE  /\ loop' \in {"wait", "woken", "polling", "reply", "leaving", "exited"}
         /\ serving' \in Clients \cup {NoClient} /\ chain_synced' \in BOOLEAN
         /\ eager' \in BOOLEAN /\ asked' \in BOOLEAN
         /\ before' \subseteq Clients /\ covered' \subseteq Clients
         /\ UNCHANGED <<calls, stopper, maintenance, maintained>>
<1>1. CASE Receive \/ Tick \/ ReceiveShutdown \/ DropReceiver \/ SkipPoll
  BY <1>1, Zenon DEF LoopTypeOK, Receive, Tick, ReceiveShutdown, DropReceiver, SkipPoll
<1>2. CASE StartPoll
  BY <1>2, Zenon DEF LoopTypeOK, StartPoll, TakeEager
<1>3. CASE PollSucceeds \/ PollFails \/ Reply
  BY <1>3, Zenon DEF LoopTypeOK, PollSucceeds, PollFails, Reply, EndPoll
<1> QED BY <1>1, <1>2, <1>3, Zenon DEF LoopStep

(* The steps of the clients.                                               *)
LEMMA ClientTypes ==
  ASSUME LoopTypeOK, NEW c \in Clients,
         RaiseEager(c) \/ FinishBroadcast(c) \/ RequestTicket(c) \/ ClientStep(c)
  PROVE  /\ UNCHANGED <<loop, chain_synced, stopper, maintenance, maintained>>
         /\ serving' \in Clients \cup {NoClient}
         /\ eager' \in BOOLEAN /\ asked' \in BOOLEAN
         /\ before' \subseteq Clients /\ covered' \subseteq Clients
         /\ calls' \in Nat
<1>1. /\ UNCHANGED <<loop, chain_synced, stopper, maintenance, maintained>>
      /\ serving' \in Clients \cup {NoClient}
  BY Zenon DEF LoopTypeOK, RaiseEager, FinishBroadcast, RequestTicket, ClientStep, TryWake,
     SendPollNow, SignalLost, TryReplay, ReplayTimesOut, HangUp, ReplayReturns
<1>2. eager' \in BOOLEAN /\ asked' \in BOOLEAN
  BY Zenon DEF LoopTypeOK, RaiseEager, FinishBroadcast, RequestTicket, ClientStep, TryWake,
     SendPollNow, SignalLost, TryReplay, ReplayTimesOut, ReplayReturns
<1>3. (before' = before \/ before' = before \ {c}) /\ (covered' = covered \/ covered' = covered \ {c})
  BY Zenon DEF RaiseEager, FinishBroadcast, RequestTicket, ClientStep, TryWake,
     SendPollNow, SignalLost, TryReplay, ReplayTimesOut, ReplayReturns
<1>4. calls' = calls \/ calls' = calls + 1
  BY Zenon DEF RaiseEager, FinishBroadcast, RequestTicket, ClientStep, TryWake,
     SendPollNow, SignalLost, TryReplay, ReplayTimesOut, ReplayReturns
<1>5. calls' \in Nat
  BY <1>4 DEF LoopTypeOK
<1> QED BY <1>1, <1>2, <1>3, <1>5, Zenon DEF LoopTypeOK

LoopInv == LoopTypeOK /\ ReplayInv

(* The loop starts with an empty channel and no ticket out.                *)
LEMMA InitLoopTypes == ASSUME LoopInit PROVE LoopInv
<1>1. channel \in Seq(Clients \cup {"sync", "shutdown"}) /\ Len(channel) <= 1
  BY DEF LoopInit
<1>2. QED
  BY <1>1, InitTickets, Zenon DEF LoopInv, LoopInit, LoopTypeOK, ReplayInv, TicketTypeOK

(* Every step of the loop and of those around it keeps the types.          *)
LEMMA StepLoopTypes == ASSUME LoopInv, [LoopNext]_loopVars PROVE LoopInv'
<1> USE DEF LoopInv
<1>1. CASE LoopNext
  <2>1. channel' \in Seq(Clients \cup {"sync", "shutdown"}) /\ Len(channel') <= 1
    <3>1. channel' = channel \/ channel' = << >> \/ \E m \in Messages : channel' = <<m>>
      BY <1>1, OneMessage
    <3>2. QED
      BY <3>1, ShortChannels, Zenon DEF LoopTypeOK, Messages
  <2>2. ReplayInv'
    BY StepTickets
  <2>3. CASE LoopStep
    BY <2>1, <2>2, <2>3, LoopStepTypes, Zenon DEF LoopTypeOK, ReplayInv, TicketTypeOK
  <2>4. ASSUME NEW c \in Clients, RaiseEager(c) \/ FinishBroadcast(c) \/ RequestTicket(c)
                                  \/ ClientStep(c)
        PROVE  LoopTypeOK'
    BY <2>1, <2>2, <2>4, ClientTypes, Zenon DEF LoopTypeOK, ReplayInv, TicketTypeOK
  <2>5. CASE Stop \/ SendShutdown \/ Join \/ TryAcquire \/ DropGuard
    <3>1. UNCHANGED <<loop, serving, chain_synced, begun_with, eager, req, ack, client, own_ticket,
                      calls, asked, before, covered>>
      BY <2>5, Zenon DEF Stop, SendShutdown, Join, TryAcquire, DropGuard
    <3>2. stopper' \in {"none", "sending", "joining", "stopped"} /\ maintenance' \in BOOLEAN
      BY <2>5, Zenon DEF LoopTypeOK, Stop, SendShutdown, Join, TryAcquire, DropGuard
    <3>3. maintained' = maintained \/ maintained' = maintained + 1
      BY <2>5, Zenon DEF Stop, SendShutdown, Join, TryAcquire, DropGuard
    <3>4. maintained' \in Nat
      BY <3>3 DEF LoopTypeOK
    <3>5. QED
      BY <2>1, <2>2, <3>1, <3>2, <3>4, Zenon DEF LoopTypeOK
  <2> QED BY <1>1, <2>2, <2>3, <2>4, <2>5 DEF LoopNext
<1>2. CASE UNCHANGED loopVars
  <2>1. ReplayInv'
    BY StepTickets
  <2>2. LoopTypeOK'
    <3>1. UNCHANGED <<channel, loop, serving, chain_synced, begun_with, eager, req, ack, client,
                      own_ticket, calls, stopper, maintenance, maintained, asked, before, covered>>
      BY <1>2, Zenon DEF loopVars
    <3> QED BY <3>1, Zenon DEF LoopTypeOK
  <2> QED BY <2>1, <2>2
<1> QED BY <1>1, <1>2

(* Every variable of the poller's loop keeps its type; in particular the   *)
(* channel never holds more than the one message it has room for, whoever  *)
(* sends and however (sync_channel(1), send and try_send).                 *)
THEOREM LoopTypesAreCorrect == LoopSpec => []LoopTypeOK
<1>1. LoopInit => LoopInv
  BY InitLoopTypes
<1>2. LoopInv /\ [LoopNext]_loopVars => LoopInv'
  BY StepLoopTypes
<1>3. LoopInv => LoopTypeOK
  BY DEF LoopInv
<1> QED BY <1>1, <1>2, <1>3, PTL DEF LoopSpec

HIDE DEF Holds

(***************************************************************************)
(* The waits for the poller                                                *)
(***************************************************************************)

Waits(c) == client[c] \in {"awaiting", "replaying"}

(* The channel holds a message or none; a client's PollNow is waiting or   *)
(* being served but not both, as the client sends no other meanwhile; and  *)
(* the loop serves nobody while it waits or once it is told to stop.       *)
MailInv ==
  /\ client \in [Clients -> {"idle", "flagged", "sending", "ticketed", "awaiting", "replaying",
                             "answered", "replayed"}]
  /\ channel = << >> \/ \E m \in Messages : channel = <<m>>
  /\ \A c \in Clients : channel = <<c>> => serving # c
  /\ serving # NoClient => loop \in {"woken", "polling", "reply"}

OwedInv == MailInv /\ WaitsAreOwed

(* What there is to know of a channel with one message.                    *)
LEMMA Singletons ==
  /\ \A m : <<m>> # << >> /\ Head(<<m>>) = m
  /\ \A m, n : <<m>> = <<n>> => m = n
OBVIOUS

(* The loop takes a message out, and from then on serves its client.       *)
LEMMA ReceiveOwes ==
  ASSUME OwedInv, Receive PROVE OwedInv'
<1>1. PICK m \in Messages : channel = <<m>>
  BY Zenon DEF OwedInv, MailInv, Receive, Full
<1>2. m # "shutdown" /\ serving' = (IF m \in Clients THEN m ELSE NoClient)
  BY <1>1, Singletons DEF Receive
<1>3. serving = NoClient /\ channel' = << >> /\ loop = "wait" /\ loop' = "woken"
      /\ UNCHANGED <<client, stopper>>
  BY DEF OwedInv, MailInv, Receive
<1>4. \A c \in Clients : Owed(c)' <=> Owed(c)
  BY <1>1, <1>2, <1>3, Singletons, LoopAssumption, Zenon DEF Owed
<1>5. channel # <<"shutdown">>
  BY <1>1, <1>2, Singletons, Zenon
<1>6. MailInv'
  BY <1>3, Singletons, Zenon DEF OwedInv, MailInv
<1>7. WaitsAreOwed'
  BY <1>3, <1>4, <1>5, Zenon DEF OwedInv, WaitsAreOwed, Connected
<1> QED BY <1>6, <1>7 DEF OwedInv

(* The loop leaves: what is in the channel is lost, and whoever waits for  *)
(* it sees that the poller is gone.                                        *)
LEMMA LeavingOwes ==
  ASSUME OwedInv, ReceiveShutdown \/ DropReceiver PROVE OwedInv'
<1>1. channel' = << >> /\ loop' \in {"leaving", "exited"} /\ UNCHANGED <<client, serving, stopper>>
      /\ serving = NoClient
  BY DEF OwedInv, MailInv, ReceiveShutdown, DropReceiver
<1>2. MailInv'
  BY <1>1, Singletons, Zenon DEF OwedInv, MailInv
<1>3. CASE DropReceiver
  <2>1. loop' = "exited" /\ \A c \in Clients : ~Owed(c)'
    BY <1>1, <1>3, Singletons, LoopAssumption, Zenon DEF DropReceiver, Owed
  <2> QED BY <1>1, <1>2, <2>1, Zenon DEF OwedInv, WaitsAreOwed, Connected
<1>4. CASE ReceiveShutdown
  <2>1. PICK m \in Messages : channel = <<m>>
    BY <1>4, Zenon DEF OwedInv, MailInv, ReceiveShutdown, Full
  <2>2. m = "shutdown"
    BY <1>4, <2>1, Singletons, Zenon DEF ReceiveShutdown
  <2>3. \A c \in Clients : ~Owed(c) /\ ~Owed(c)'
    BY <1>1, <2>1, <2>2, Singletons, LoopAssumption, Zenon DEF Owed
  <2>4. loop = "wait"
    BY <1>4, Zenon DEF ReceiveShutdown
  <2>5. \A c \in Clients : ~Waits(c)
    BY <2>3, <2>4 DEF OwedInv, WaitsAreOwed, Connected, Waits
  <2>6. WaitsAreOwed'
    BY <1>1, <2>3, <2>5, Zenon DEF WaitsAreOwed, Waits
  <2> QED BY <1>2, <2>6 DEF OwedInv
<1> QED BY <1>3, <1>4

(* The steps between a message and the answer.                             *)
LEMMA PollOwes ==
  ASSUME OwedInv, Tick \/ SkipPoll \/ StartPoll \/ PollSucceeds \/ PollFails
  PROVE  OwedInv'
<1>1. /\ UNCHANGED <<channel, client, serving, stopper>>
      /\ loop \in {"wait", "woken", "polling"} /\ loop' \in {"woken", "polling", "reply"}
  BY Zenon DEF Tick, SkipPoll, StartPoll, PollSucceeds, PollFails, EndPoll
<1>2. Connected /\ Connected' /\ ~(loop \in {"leaving", "exited"})
  BY <1>1 DEF Connected
<1>3. MailInv'
  BY <1>1, Zenon DEF OwedInv, MailInv
<1>4. WaitsAreOwed'
  BY <1>1, <1>2, Zenon DEF OwedInv, WaitsAreOwed, Owed
<1> QED BY <1>3, <1>4 DEF OwedInv

(* The client that is served waits, so the signal meets it, and it has no  *)
(* other message under way.                                                *)
LEMMA ReplyOwes ==
  ASSUME OwedInv, Reply PROVE OwedInv'
<1>1. /\ UNCHANGED <<channel, stopper>> /\ serving' = NoClient
      /\ loop = "reply" /\ loop' = "wait"
  BY DEF Reply
<1>2. \A c \in Clients : c # serving => client'[c] = client[c]
  BY Zenon DEF Reply
<1>3. ASSUME NEW c \in Clients, c = serving PROVE client'[c] \in {"idle", "answered"}
  <2>1. client[c] \in {"awaiting", "replaying"}
    BY <1>3, Zenon DEF OwedInv, WaitsAreOwed, Owed
  <2> QED BY <1>3, <2>1 DEF Reply
<1>4. MailInv'
  <2>1. client' \in [Clients -> {"idle", "flagged", "sending", "ticketed", "awaiting", "replaying",
                                 "answered", "replayed"}]
    BY DEF OwedInv, MailInv, Reply
  <2> QED BY <1>1, <2>1, LoopAssumption, Zenon DEF OwedInv, MailInv
<1>5. ASSUME NEW c \in Clients
      PROVE  IF client'[c] \in {"awaiting", "replaying"} THEN Owed(c)' ELSE ~Owed(c)'
  <2>1. Owed(c)' <=> channel = <<c>>
    BY <1>1, LoopAssumption, Zenon DEF Owed
  <2>2. CASE c = serving
    BY <1>3, <2>1, <2>2 DEF OwedInv, MailInv
  <2>3. CASE c # serving
    <3>1. Owed(c) <=> channel = <<c>>
      BY <2>3, Zenon DEF Owed
    <3>2. Connected
      BY <1>1 DEF Connected
    <3> QED BY <1>2, <2>1, <2>3, <3>1, <3>2, Zenon DEF OwedInv, WaitsAreOwed
  <2> QED BY <2>2, <2>3
<1>6. WaitsAreOwed'
  BY <1>1, <1>5 DEF OwedInv, WaitsAreOwed
<1> QED BY <1>4, <1>6 DEF OwedInv

(* A client goes on, neither from a wait nor into one.                     *)
LEMMA ElsewhereOwes ==
  ASSUME OwedInv, NEW c \in Clients,
         NEW at \in {"idle", "flagged", "sending", "ticketed", "answered", "replayed"},
         ~Waits(c), Go(c, at), UNCHANGED <<loop, serving, stopper>>,
         channel' = channel \/ (Connected /\ ~Full /\ channel' = <<"sync">>)
  PROVE  OwedInv'
<1>1. \A d \in Clients : Owed(d)' <=> Owed(d)
  BY Singletons, LoopAssumption, Zenon DEF Owed, Full
<1>2. \A d \in Clients : client'[d] = IF d = c THEN at ELSE client[d]
  BY DEF OwedInv, MailInv
<1>3. MailInv'
  <2>1. client' \in [Clients -> {"idle", "flagged", "sending", "ticketed", "awaiting", "replaying",
                                 "answered", "replayed"}]
    BY DEF OwedInv, MailInv
  <2>2. channel' = << >> \/ \E m \in Messages : channel' = <<m>>
    BY Zenon DEF OwedInv, MailInv, Messages
  <2>3. \A d \in Clients : channel' = <<d>> => serving' # d
    BY Singletons, LoopAssumption, Zenon DEF OwedInv, MailInv
  <2> QED BY <2>1, <2>2, <2>3, Zenon DEF OwedInv, MailInv
<1>4. stopper' = "joining" => channel' = <<"shutdown">> \/ loop' \in {"leaving", "exited"}
  BY Singletons, Zenon DEF OwedInv, WaitsAreOwed, Full
<1>5. \A d \in Clients : Waits(d)' <=> Waits(d)
  BY <1>2 DEF Waits
<1>6. WaitsAreOwed'
  BY <1>1, <1>4, <1>5, Zenon DEF OwedInv, WaitsAreOwed, Connected, Waits
<1> QED BY <1>3, <1>6 DEF OwedInv

(* A client that sends its PollNow finds the channel empty, and no earlier *)
(* message of its own is being served.                                     *)
LEMMA SendingOwes ==
  ASSUME OwedInv, NEW c \in Clients, NEW at \in {"awaiting", "replaying"},
         ~Waits(c), Go(c, at), Connected, ~Full, channel' = <<c>>,
         UNCHANGED <<loop, serving, stopper>>
  PROVE  OwedInv'
<1>1. serving # c
  BY Zenon DEF OwedInv, WaitsAreOwed, Owed, Waits
<1>2. \A d \in Clients : Owed(d)' <=> (d = c \/ Owed(d))
  BY Singletons, Zenon DEF Owed, Full
<1>3. \A d \in Clients : client'[d] = IF d = c THEN at ELSE client[d]
  BY DEF OwedInv, MailInv
<1>4. MailInv'
  <2>1. client' \in [Clients -> {"idle", "flagged", "sending", "ticketed", "awaiting", "replaying",
                                 "answered", "replayed"}]
    BY DEF OwedInv, MailInv
  <2>2. \E m \in Messages : channel' = <<m>>
    BY Zenon DEF Messages
  <2>3. \A d \in Clients : channel' = <<d>> => serving' # d
    BY <1>1, Singletons, Zenon
  <2> QED BY <2>1, <2>2, <2>3, Zenon DEF OwedInv, MailInv
<1>5. stopper' = "joining" => loop' \in {"leaving", "exited"}
  BY Singletons, Zenon DEF OwedInv, WaitsAreOwed, Full
<1>6. \A d \in Clients : Waits(d)' <=> (d = c \/ Waits(d))
  BY <1>3 DEF Waits
<1>7. WaitsAreOwed'
  BY <1>2, <1>5, <1>6, Zenon DEF OwedInv, WaitsAreOwed, Connected, Waits
<1> QED BY <1>4, <1>7 DEF OwedInv

(* A client that gives up the wait leaves nothing behind that is owed to   *)
(* it: the sender was dropped, or its receiver is.                         *)
LEMMA LeftOwes ==
  ASSUME OwedInv, NEW c \in Clients, Go(c, "idle"), UNCHANGED <<loop, stopper>>,
         \/ ~Connected /\ channel # <<c>> /\ UNCHANGED <<channel, serving>>
         \/ HangUp(c)
  PROVE  OwedInv'
<1>1. ~Owed(c)' /\ \A d \in Clients \ {c} : Owed(d)' <=> Owed(d)
  <2>1. CASE ~Connected /\ channel # <<c>> /\ UNCHANGED <<channel, serving>>
    <3>1. serving = NoClient
      BY <2>1 DEF OwedInv, MailInv, Connected
    <3> QED BY <2>1, <3>1, LoopAssumption, Zenon DEF Owed
  <2>2. CASE HangUp(c)
    <3>1. \A d \in Clients : channel' = <<d>> <=> (d # c /\ channel = <<d>>)
      BY <2>2, Singletons, LoopAssumption, Zenon DEF HangUp
    <3>2. \A d \in Clients : serving' = d <=> (d # c /\ serving = d)
      BY <2>2, LoopAssumption, Zenon DEF HangUp
    <3> QED BY <3>1, <3>2, Zenon DEF Owed
  <2> QED BY <2>1, <2>2
<1>2. \A d \in Clients : client'[d] = IF d = c THEN "idle" ELSE client[d]
  BY DEF OwedInv, MailInv
<1>3. /\ channel' = channel \/ (channel = <<c>> /\ channel' = <<"sync">>)
      /\ serving' \in {serving, NoClient}
  BY Zenon DEF HangUp
<1>4. MailInv'
  <2>1. client' \in [Clients -> {"idle", "flagged", "sending", "ticketed", "awaiting", "replaying",
                                 "answered", "replayed"}]
    BY DEF OwedInv, MailInv
  <2>2. channel' = << >> \/ \E m \in Messages : channel' = <<m>>
    BY <1>3, Zenon DEF OwedInv, MailInv, Messages
  <2>3. \A d \in Clients : channel' = <<d>> => serving' # d
    BY <1>3, Singletons, LoopAssumption, Zenon DEF OwedInv, MailInv
  <2> QED BY <1>3, <2>1, <2>2, <2>3, Zenon DEF OwedInv, MailInv
<1>5. stopper' = "joining" => channel' = <<"shutdown">> \/ loop' \in {"leaving", "exited"}
  BY <1>3, Singletons, LoopAssumption, Zenon DEF OwedInv, WaitsAreOwed
<1>6. \A d \in Clients : Waits(d)' <=> (d # c /\ Waits(d))
  BY <1>2 DEF Waits
<1>7. WaitsAreOwed'
  BY <1>1, <1>5, <1>6, Zenon DEF OwedInv, WaitsAreOwed, Connected, Waits
<1> QED BY <1>4, <1>7 DEF OwedInv

(* The steps of the clients.                                               *)
LEMMA ClientOwes ==
  ASSUME OwedInv, NEW c \in Clients,
         RaiseEager(c) \/ FinishBroadcast(c) \/ RequestTicket(c) \/ ClientStep(c)
  PROVE  OwedInv'
<1>1. CASE RaiseEager(c) \/ FinishBroadcast(c) \/ RequestTicket(c)
  <2>1. /\ ~Waits(c) /\ UNCHANGED <<channel, loop, serving, stopper>>
        /\ \E at \in {"flagged", "sending", "ticketed"} : Go(c, at)
    BY <1>1 DEF RaiseEager, FinishBroadcast, RequestTicket, Waits
  <2>2. PICK at \in {"flagged", "sending", "ticketed"} : Go(c, at)
    BY <2>1, Zenon
  <2>3. at \in {"idle", "flagged", "sending", "ticketed", "answered", "replayed"}
    BY <2>2, Zenon
  <2> HIDE DEF Go
  <2> QED BY <2>1, <2>2, <2>3, ElsewhereOwes, Zenon
<1>2. CASE TryWake(c)
  <2>1. /\ ~Waits(c) /\ UNCHANGED <<loop, serving, stopper>> /\ Go(c, "idle")
        /\ channel' = channel \/ (Connected /\ ~Full /\ channel' = <<"sync">>)
    BY <1>2 DEF TryWake, Waits
  <2> QED BY <2>1, ElsewhereOwes, Zenon
<1>3. CASE SendPollNow(c)
  <2>1. /\ ~Waits(c) /\ UNCHANGED <<loop, serving, stopper>>
        /\ \/ Connected /\ ~Full /\ channel' = <<c>> /\ Go(c, "awaiting")
           \/ channel' = channel /\ Go(c, "idle")
    BY <1>3 DEF SendPollNow, Waits
  <2> QED BY <2>1, ElsewhereOwes, SendingOwes, Zenon
<1>4. CASE TryReplay(c)
  <2>1. /\ ~Waits(c) /\ UNCHANGED <<loop, serving, stopper>>
        /\ \/ Connected /\ ~Full /\ channel' = <<c>> /\ Go(c, "replaying")
           \/ channel' = channel /\ Go(c, "idle")
    BY <1>4 DEF TryReplay, Waits
  <2> QED BY <2>1, ElsewhereOwes, SendingOwes, Zenon
<1>5. CASE SignalLost(c) \/ ReplayTimesOut(c)
  <2>1. /\ UNCHANGED <<loop, stopper>> /\ Go(c, "idle")
        /\ \/ ~Connected /\ channel # <<c>> /\ UNCHANGED <<channel, serving>>
           \/ HangUp(c)
    BY <1>5, Zenon DEF SignalLost, ReplayTimesOut
  <2> QED BY <2>1, LeftOwes, Zenon
<1>6. CASE ReplayReturns(c)
  <2>1. /\ ~Waits(c) /\ UNCHANGED <<channel, loop, serving, stopper>>
        /\ \E at \in {"idle", "replayed"} : Go(c, at)
    BY <1>6 DEF ReplayReturns, Waits
  <2> QED BY <2>1, ElsewhereOwes, Zenon
<1> QED BY <1>1, <1>2, <1>3, <1>4, <1>5, <1>6 DEF ClientStep

(* Nobody waits, and nothing is owed, at the start.                        *)
LEMMA InitOwes == ASSUME LoopInit PROVE OwedInv
<1>1. \A c \in Clients : ~Owed(c) /\ ~Waits(c)
  BY Singletons, LoopAssumption DEF LoopInit, Owed, Waits
<1>2. MailInv
  BY Singletons DEF LoopInit, MailInv
<1>3. WaitsAreOwed
  BY <1>1 DEF LoopInit, WaitsAreOwed, Waits
<1> QED BY <1>2, <1>3 DEF OwedInv

(* Every step keeps what is owed to those who wait.                        *)
LEMMA StepOwes == ASSUME OwedInv, [LoopNext]_loopVars PROVE OwedInv'
<1>1. CASE LoopStep
  BY <1>1, ReceiveOwes, LeavingOwes, PollOwes, ReplyOwes, Zenon DEF LoopStep
<1>2. ASSUME NEW c \in Clients, RaiseEager(c) \/ FinishBroadcast(c) \/ RequestTicket(c)
                                \/ ClientStep(c)
      PROVE  OwedInv'
  BY <1>2, ClientOwes
<1>3. CASE UNCHANGED <<channel, loop, serving, client>> /\ (stopper' = stopper \/ stopper' # "joining")
  BY <1>3, Zenon DEF OwedInv, MailInv, WaitsAreOwed, Owed, Connected
<1>4. CASE SendShutdown
  <2>1. /\ channel = << >> /\ channel' = <<"shutdown">> /\ Connected
        /\ UNCHANGED <<loop, serving, client>>
    BY <1>4, Zenon DEF SendShutdown, Full
  <2>2. \A c \in Clients : Owed(c)' <=> Owed(c)
    BY <2>1, Singletons, LoopAssumption, Zenon DEF Owed
  <2>3. MailInv'
    BY <2>1, Singletons, LoopAssumption, Zenon DEF OwedInv, MailInv, Messages
  <2>4. WaitsAreOwed'
    BY <2>1, <2>2, Zenon DEF OwedInv, WaitsAreOwed, Connected
  <2> QED BY <2>3, <2>4 DEF OwedInv
<1>5. CASE Stop \/ Join \/ TryAcquire \/ DropGuard \/ UNCHANGED loopVars
  <2>1. UNCHANGED <<channel, loop, serving, client>> /\ (stopper' = stopper \/ stopper' # "joining")
    BY <1>5 DEF Stop, Join, TryAcquire, DropGuard, loopVars
  <2> QED BY <1>3, <2>1, Zenon
<1> QED BY <1>1, <1>2, <1>4, <1>5, Zenon DEF LoopNext

(* A broadcast or a replay that waits for the poller has its message in    *)
(* the channel or is being served, or the poller is gone; nothing is owed  *)
(* to a client that does not wait, so the loop's rendezvous never blocks;  *)
(* and the shutdown stays in the channel until the loop takes it.          *)
THEOREM EveryWaitIsOwed == LoopSpec => []WaitsAreOwed
<1>1. LoopInit => OwedInv
  BY InitOwes
<1>2. OwedInv /\ [LoopNext]_loopVars => OwedInv'
  BY StepOwes
<1>3. OwedInv => WaitsAreOwed
  BY DEF OwedInv
<1> QED BY <1>1, <1>2, <1>3, PTL DEF LoopSpec

HIDE DEF Go, NoTicket, GiveUp, Issue, loopState, clientVars, outerVars, histVars

(***************************************************************************)
(* The types of the pairing                                                *)
(***************************************************************************)

(* What the two files may hold.                                            *)
Contents == [rows : [Phones -> MaybeRow], notices : [Phones -> 0..MaxActs],
             entries : [Phones -> {NoEntry} \union Entry]]

(* A row, a notice or an entry that is written is one of those.            *)
LEMMA RowWritten ==
    ASSUME NEW s \in Contents, NEW p, NEW row, p \in Phones => row \in MaybeRow
    PROVE  [s EXCEPT !.rows[p] = row] \in Contents
BY DEF Contents

LEMMA NoticeWritten ==
    ASSUME NEW s \in Contents, NEW p \in Phones, NEW n \in 0..MaxActs
    PROVE  [s EXCEPT !.notices[p] = n] \in Contents
BY DEF Contents

LEMMA NoticesWritten ==
    ASSUME NEW s \in Contents, NEW n \in [Phones -> 0..MaxActs]
    PROVE  [s EXCEPT !.notices = n] \in Contents
BY DEF Contents

LEMMA EntryWritten ==
    ASSUME NEW s \in Contents, NEW p, NEW e, p \in Phones => e \in {NoEntry} \union Entry
    PROVE  [s EXCEPT !.entries[p] = e] \in Contents
BY DEF Contents

LEMMA NoActs == 0 \in 0..MaxActs
BY PairingAssumption

LEMMA NoticesCleared ==
    ASSUME store.notices \in [Phones -> 0..MaxActs]
    PROVE  [p \in Phones |-> IF p \in sync.done /\ store.notices[p] = sync.notices[p]
                             THEN 0 ELSE store.notices[p]] \in [Phones -> 0..MaxActs]
BY NoActs, Zenon

(* The files and the phones at the start, whoever is paired.               *)
LEMMA FilesAtStart ==
    ASSUME NEW rows \in [Phones -> {NoRow, [bind |-> OldBinding, name |-> DefaultName]}]
    PROVE  /\ [rows |-> rows, notices |-> [p \in Phones |-> 0],
               entries |-> [p \in Phones |-> NoEntry]] \in Contents
           /\ [p \in Phones |-> IF rows[p] = NoRow THEN NoRow ELSE OldBinding]
                \in [Phones -> PhoneBindings \union {NoRow}]
<1>1. rows \in [Phones -> MaybeRow]
  BY DEF MaybeRow, PairedPhone, PhoneBindings, Names
<1>2. OldBinding \in PhoneBindings
  BY DEF PhoneBindings
<1> QED BY <1>1, <1>2, NoActs DEF Contents

(* Readers see a row or none for each phone.                               *)
LEMMA RowsShown ==
    ASSUME NEW s \in Contents PROVE Visible(s) \in [Phones -> MaybeRow]
<1>1. ASSUME NEW p \in Phones, Staged(s, p) PROVE s.entries[p].previous \in MaybeRow
  BY <1>1 DEF Contents, Staged, Entry
<1>2. s.rows \in [Phones -> MaybeRow]
  BY DEF Contents
<1> QED BY <1>1, <1>2 DEF Visible

(* Wherever an operation stops, the files hold what it wrote last.         *)
LEMMA FilesAfter ==
    ASSUME store \in Contents, NEW writes \in Seq(Contents),
           Completes(writes) \/ Stops(writes)
    PROVE  store' \in Contents
<1>1. Result(writes) \in Contents
  BY DEF Result
<1>2. Range(writes) \subseteq Contents
  BY DEF Range
<1> QED BY <1>1, <1>2 DEF Completes, Stops

(* No write, two, and one more.                                            *)
LEMMA WriteNone == << >> \in Seq(Contents)
OBVIOUS

LEMMA WriteTwo ==
    ASSUME NEW a \in Contents, NEW b \in Contents PROVE <<a, b>> \in Seq(Contents)
OBVIOUS

LEMMA WriteMore ==
    ASSUME NEW w \in Seq(Contents), NEW a \in Contents PROVE Append(w, a) \in Seq(Contents)
OBVIOUS

(* The writes of each operation.                                           *)
LEMMA RevokeTypes ==
    ASSUME store \in Contents, NEW p \in Phones
    PROVE  RevokeWrites(p) \in Seq(Contents) /\ Result(RevokeWrites(p)) \in Contents
<1>1. RevokeWrites(p) \in Seq(Contents)
  <2> DEFINE a == [store EXCEPT !.rows[p] = Visible(store)[p]]
             b == [a EXCEPT !.entries[p] = NoEntry]
  <2>1. Visible(store)[p] \in MaybeRow
    BY RowsShown
  <2>2. a \in Contents
    BY <2>1, RowWritten, Zenon
  <2> HIDE DEF a
  <2>3. b \in Contents
    BY <2>2, EntryWritten, Zenon
  <2>4. RevokeWrites(p) \in {<< >>, <<a, b>>}
    BY DEF RevokeWrites, a
  <2> HIDE DEF b
  <2> QED BY <2>2, <2>3, <2>4, WriteNone, WriteTwo, Zenon
<1>2. Result(RevokeWrites(p)) \in Contents
  BY <1>1 DEF Result
<1> QED BY <1>1, <1>2

LEMMA PrepareTypes ==
    ASSUME store \in Contents, NEW r \in Runs, NEW p \in Phones
    PROVE  PrepareWrites(r, p) \in Seq(Contents)
<1> DEFINE previous == Visible(store)[p]
           name == IF previous = NoRow THEN DefaultName ELSE previous.name
           entry == [id |-> r, previous |-> previous,
                     candidate |-> [bind |-> r, name |-> name], state |-> "provisional"]
           a == [store EXCEPT !.rows[p] = previous, !.notices[p] = 0]
           b == [a EXCEPT !.entries[p] = entry]
<1>1. previous \in MaybeRow
  BY RowsShown
<1>2. name \in Names
  BY <1>1 DEF MaybeRow, PairedPhone, Names
<1>3. PrepareWrites(r, p) = <<a, b>>
  BY DEF PrepareWrites
<1> HIDE DEF previous, name
<1>4. entry \in Entry
  BY <1>1, <1>2 DEF Entry, PairedPhone, PhoneBindings
<1>5. 0 \in 0..MaxActs
  BY PairingAssumption
<1>6. a \in Contents
  BY <1>1, <1>5, Zenon DEF Contents
<1> HIDE DEF entry, a
<1>7. b \in Contents
  BY <1>4, <1>6, EntryWritten, Zenon
<1> HIDE DEF b
<1> QED BY <1>3, <1>6, <1>7, WriteTwo, Zenon

LEMMA RollbackTypes ==
    ASSUME store \in Contents, NEW r \in Runs
    PROVE  RollbackWrites(r) \in Seq(Contents)
<1> DEFINE p == run[r].phone
           a == [store EXCEPT !.rows[p] = store.entries[p].previous]
           b == [a EXCEPT !.entries[p] = NoEntry]
<1>1. CASE Owns(r, "provisional")
  <2>1. p \in Phones => store.entries[p].previous \in MaybeRow
    BY <1>1 DEF Owns, Contents, Entry
  <2>2. RollbackWrites(r) = <<a, b>>
    BY <1>1 DEF RollbackWrites
  <2> HIDE DEF p
  <2>3. a \in Contents
    BY <2>1, RowWritten, Zenon
  <2> HIDE DEF a
  <2>4. b \in Contents
    BY <2>3, EntryWritten, Zenon
  <2> HIDE DEF b
  <2> QED BY <2>2, <2>3, <2>4, WriteTwo, Zenon
<1>2. CASE ~Owns(r, "provisional")
  BY <1>2, WriteNone, Zenon DEF RollbackWrites
<1> QED BY <1>1, <1>2

LEMMA EditTypes ==
    ASSUME store \in Contents, NEW p \in Phones, NEW n \in NewNames
    PROVE  EditWrites(p, n) \in Seq(Contents)
<1> DEFINE w == RevokeWrites(p)
           c == Result(w)
           rows == Visible(c)
           a == [c EXCEPT !.rows = [rows EXCEPT ![p].name = n]]
<1>1. w \in Seq(Contents) /\ c \in Contents
  BY RevokeTypes, Zenon
<1>2. EditWrites(p, n) = IF rows[p] = NoRow THEN w ELSE Append(w, a)
  BY Zenon DEF EditWrites
<1> HIDE DEF w, c
<1>3. rows \in [Phones -> MaybeRow]
  BY <1>1, RowsShown, Zenon
<1> HIDE DEF rows
<1>4. ASSUME rows[p] # NoRow PROVE a \in Contents
  <2>1. [rows[p] EXCEPT !.name = n] \in MaybeRow
    BY <1>3, <1>4 DEF MaybeRow, PairedPhone, Names
  <2>2. [rows EXCEPT ![p].name = n] \in [Phones -> MaybeRow]
    BY <1>3, <2>1
  <2> QED BY <1>1, <2>2, Zenon DEF Contents
<1> HIDE DEF a
<1> QED BY <1>1, <1>2, <1>4, WriteMore, Zenon

LEMMA UnpairTypes ==
    ASSUME store \in Contents, NEW p \in Phones, acts + 1 \in 0..MaxActs
    PROVE  UnpairWrites(p) \in Seq(Contents)
<1> DEFINE w == RevokeWrites(p)
           c == Result(w)
           a == [c EXCEPT !.rows[p] = NoRow, !.notices[p] = acts + 1]
<1>1. w \in Seq(Contents) /\ c \in Contents
  BY RevokeTypes, Zenon
<1>2. UnpairWrites(p) = IF c.rows[p] = NoRow THEN w ELSE Append(w, a)
  BY Zenon DEF UnpairWrites
<1> HIDE DEF w, c
<1>3. a \in Contents
  BY <1>1, Zenon DEF Contents, MaybeRow
<1> HIDE DEF a
<1> QED BY <1>1, <1>2, <1>3, WriteMore, Zenon

LEMMA PeerTypes ==
    ASSUME store \in Contents, NEW p \in Phones
    PROVE  PeerWrites(p) \in Seq(Contents)
<1> DEFINE w == RevokeWrites(p)
           c == Result(w)
           a == [c EXCEPT !.rows[p] = NoRow, !.notices[p] = 0]
<1>1. w \in Seq(Contents) /\ c \in Contents
  BY RevokeTypes, Zenon
<1>2. PeerWrites(p) = Append(w, a)
  BY Zenon DEF PeerWrites
<1> HIDE DEF w, c
<1>3. 0 \in 0..MaxActs
  BY PairingAssumption
<1>4. a \in Contents
  BY <1>1, <1>3, Zenon DEF Contents, MaybeRow
<1> HIDE DEF a
<1> QED BY <1>1, <1>2, <1>4, WriteMore, Zenon

RunSet == [pc : {"idle", "accept", "commit", "finish", "ok", "failed"},
           phone : Phones \union {NoPhone}, state : {"running", "cancelled", "decided"}]
SyncSet == [rows : [Phones -> MaybeRow], notices : [Phones -> 0..MaxActs],
            done : SUBSET Phones, unpaired : SUBSET Phones,
            pc : {"deliver", "probe", "remove"}]

USE DEF Fails, Act

(* A phone whose row was looked at leaves the pass, which goes on.         *)
LEMMA PhoneRemoved ==
    ASSUME NEW s \in SyncSet, NEW p
    PROVE  [s EXCEPT !.unpaired = @ \ {p}, !.pc = "remove"] \in SyncSet
BY Zenon DEF SyncSet

(* The steps of a pairing run, but for its writes.                         *)
LEMMA RunTypes ==
    ASSUME PairingTypeOK, NEW r \in Runs, RunStep(r)
    PROVE  /\ run' \in [Runs -> RunSet]
           /\ replied' \in [Runs -> {"none", "prepared", "committed", "finished"}]
           /\ held' \in [Phones -> PhoneBindings \union {NoRow}]
           /\ UNCHANGED <<sync, acts>>
<1>1. run \in [Runs -> RunSet]
  BY Zenon DEF PairingTypeOK, RunSet
<1>2. run' \in [Runs -> RunSet]
  <2>1. \/ run' = run
        \/ \E at \in {"accept", "commit", "finish", "ok", "failed"} :
             run' = [run EXCEPT ![r].pc = at]
        \/ \E p \in Phones : run' = [run EXCEPT ![r].pc = "accept", ![r].phone = p]
        \/ run' = [run EXCEPT ![r].pc = "finish", ![r].state = "decided"]
        \/ run' = [run EXCEPT ![r].state = "cancelled"]
    BY Zenon DEF RunStep, Prepare, WriteCandidate, Decide, Finish, Abort, Cancel, PhoneReplies
  <2> QED BY <1>1, <2>1 DEF RunSet
<1>3. replied' \in [Runs -> {"none", "prepared", "committed", "finished"}]
  <2>1. \/ replied' = replied
        \/ \E a \in {"prepared", "committed", "finished"} : replied' = [replied EXCEPT ![r] = a]
    BY Zenon DEF RunStep, Prepare, WriteCandidate, Decide, Finish, Abort, Cancel, PhoneReplies
  <2> QED BY <2>1 DEF PairingTypeOK
<1>4. held' \in [Phones -> PhoneBindings \union {NoRow}]
  <2>1. held' = held \/ held' = [held EXCEPT ![run[r].phone] = r]
    BY Zenon DEF RunStep, Prepare, WriteCandidate, Decide, Finish, Abort, Cancel, PhoneReplies
  <2> QED BY <2>1 DEF PairingTypeOK, PhoneBindings
<1>5. UNCHANGED <<sync, acts>>
  BY Zenon DEF RunStep, Prepare, WriteCandidate, Decide, Finish, Abort, Cancel, PhoneReplies
<1> QED BY <1>2, <1>3, <1>4, <1>5

(* What a run writes.                                                      *)
LEMMA RunWrites ==
    ASSUME store \in Contents, NEW r \in Runs, RunStep(r) PROVE store' \in Contents
<1>1. ASSUME NEW p \in Phones, Prepare(r, p) PROVE store' \in Contents
  BY <1>1, PrepareTypes, FilesAfter, Zenon DEF Prepare
<1>2. CASE Abort(r)
  BY <1>2, RollbackTypes, FilesAfter, Zenon DEF Abort
<1>3. CASE WriteCandidate(r)
  <2> DEFINE p == run[r].phone
  <2>1. p \in Phones => store.entries[p].candidate \in MaybeRow
    BY <1>3 DEF WriteCandidate, Owns, Contents, Entry, MaybeRow
  <2>2. store' = [store EXCEPT !.rows[p] = store.entries[p].candidate]
    BY <1>3, Zenon DEF WriteCandidate
  <2> HIDE DEF p
  <2> QED BY <2>1, <2>2, RowWritten, Zenon
<1>4. ASSUME NEW from, NEW to \in {"decided", "completed"}, Transition(r, from, to)
      PROVE  store' \in Contents
  <2> DEFINE p == run[r].phone
             e == [store.entries[p] EXCEPT !.state = to]
  <2>1. p \in Phones => e \in Entry
    BY <1>4 DEF Transition, Owns, Contents, Entry
  <2>2. store' = [store EXCEPT !.entries[p] = e]
    BY <1>4 DEF Transition
  <2> HIDE DEF p, e
  <2> QED BY <2>1, <2>2, EntryWritten, Zenon
<1>5. CASE Decide(r) \/ Finish(r)
  BY <1>4, <1>5, Zenon DEF Decide, Finish
<1>6. CASE Cancel(r) \/ PhoneReplies(r)
  BY <1>6, Zenon DEF Cancel, PhoneReplies
<1> QED BY <1>1, <1>2, <1>3, <1>5, <1>6, Zenon DEF RunStep

(* The user's edits and removals.                                          *)
LEMMA UserTypes ==
    ASSUME PairingTypeOK, NEW p \in Phones,
           (\E n \in NewNames : UpdateUserFields(p, n)) \/ Unpair(p)
    PROVE  /\ store' \in Contents /\ run' \in [Runs -> RunSet] /\ acts' \in 0..MaxActs
           /\ UNCHANGED <<replied, held, sync>>
<1>1. store \in Contents /\ run \in [Runs -> RunSet]
  BY Zenon DEF PairingTypeOK, Contents, RunSet
<1>2. acts' = acts + 1 /\ acts + 1 \in 0..MaxActs
  BY PairingAssumption DEF PairingTypeOK, UpdateUserFields, Unpair
<1>3. store' \in Contents
  <2>1. ASSUME NEW n \in NewNames, UpdateUserFields(p, n) PROVE store' \in Contents
    BY <1>1, <2>1, EditTypes, FilesAfter, Zenon DEF UpdateUserFields
  <2>2. CASE Unpair(p)
    BY <1>1, <1>2, <2>2, UnpairTypes, FilesAfter, Zenon DEF Unpair
  <2> QED BY <2>1, <2>2
<1>4. run' \in [Runs -> RunSet]
  <2>1. CASE UNCHANGED run
    BY <1>1, <2>1, Zenon
  <2>2. CASE Unpair(p)
    <3>1. ASSUME NEW r \in Runs, run' = [run EXCEPT ![r].state = "cancelled"]
          PROVE  run' \in [Runs -> RunSet]
      BY <1>1, <3>1 DEF RunSet
    <3> QED BY <2>1, <2>2, <3>1, Zenon DEF Unpair
  <2> QED BY <2>1, <2>2, Zenon DEF UpdateUserFields
<1>5. UNCHANGED <<replied, held, sync>>
  BY Zenon DEF UpdateUserFields, Unpair
<1> QED BY <1>2, <1>3, <1>4, <1>5, Zenon

(* The sync pass and what the phones do by themselves.                     *)
LEMMA SyncTypes ==
    ASSUME PairingTypeOK,
           \/ \E p \in Phones : Notify(p) \/ Probe(p) \/ RemoveUnpairedByPeer(p) \/ PhoneRemoves(p)
           \/ SyncStart \/ ClearNotices \/ SyncEnd
    PROVE  /\ store' \in Contents /\ held' \in [Phones -> PhoneBindings \union {NoRow}]
           /\ sync' \in {NoSync} \union SyncSet /\ acts' \in 0..MaxActs
           /\ UNCHANGED <<run, replied>>
<1>1. store \in Contents /\ sync \in {NoSync} \union SyncSet
  BY Zenon DEF PairingTypeOK, Contents, SyncSet
<1>2. acts' \in 0..MaxActs
  <2>1. acts' = acts \/ (acts < MaxActs /\ acts' = acts + 1)
    BY Zenon DEF Notify, Probe, RemoveUnpairedByPeer, PhoneRemoves, SyncStart, ClearNotices, SyncEnd
  <2> QED BY <2>1, PairingAssumption DEF PairingTypeOK
<1>3. held' \in [Phones -> PhoneBindings \union {NoRow}]
  <2>1. held' = held \/ \E p \in Phones : held' = [held EXCEPT ![p] = NoRow]
    BY Zenon DEF Notify, Probe, RemoveUnpairedByPeer, PhoneRemoves, SyncStart, ClearNotices, SyncEnd
  <2> QED BY <2>1 DEF PairingTypeOK
<1>4. store' \in Contents
  <2>1. ASSUME NEW p \in Phones, RemoveUnpairedByPeer(p) PROVE store' \in Contents
    BY <1>1, <2>1, PeerTypes, FilesAfter, Zenon DEF RemoveUnpairedByPeer
  <2>2. CASE ClearNotices
    <3> DEFINE cleared == [p \in Phones |->
                  IF p \in sync.done /\ store.notices[p] = sync.notices[p]
                  THEN 0 ELSE store.notices[p]]
    <3>1. cleared \in [Phones -> 0..MaxActs]
      <4>1. store.notices \in [Phones -> 0..MaxActs]
        BY <1>1, Zenon DEF Contents
      <4> QED BY <4>1, NoticesCleared, Zenon
    <3>2. store' = store \/ store' = [store EXCEPT !.notices = cleared]
      BY <2>2, Zenon DEF ClearNotices
    <3> HIDE DEF cleared
    <3> QED BY <1>1, <3>1, <3>2, NoticesWritten, Zenon
  <2>3. CASE UNCHANGED store
    BY <1>1, <2>3, Zenon
  <2> QED BY <2>1, <2>2, <2>3, Zenon DEF Notify, Probe, PhoneRemoves, SyncStart, SyncEnd
<1>5. sync' \in {NoSync} \union SyncSet
  <2>1. ASSUME NEW p \in Phones, Notify(p) \/ Probe(p) \/ RemoveUnpairedByPeer(p)
        PROVE  sync' \in SyncSet
    <3>1. sync \in SyncSet
      BY <1>1, <2>1, Zenon DEF Notify, Probe, RemoveUnpairedByPeer
    <3>2. \/ sync' = [sync EXCEPT !.done = @ \union {p}]
          \/ sync' = [sync EXCEPT !.unpaired = @ \union {p}]
          \/ sync' = [sync EXCEPT !.unpaired = @ \ {p}, !.pc = "remove"]
      BY <2>1, Zenon DEF Notify, Probe, RemoveUnpairedByPeer
    <3>3. [sync EXCEPT !.done = @ \union {p}] \in SyncSet
      BY <3>1 DEF SyncSet
    <3>4. [sync EXCEPT !.unpaired = @ \union {p}] \in SyncSet
      BY <3>1 DEF SyncSet
    <3>5. [sync EXCEPT !.unpaired = @ \ {p}, !.pc = "remove"] \in SyncSet
      BY <3>1, PhoneRemoved, Zenon
    <3> QED BY <3>2, <3>3, <3>4, <3>5, Zenon
  <2>2. CASE SyncStart
    <3>1. Visible(store) \in [Phones -> MaybeRow] /\ store.notices \in [Phones -> 0..MaxActs]
      BY <1>1, RowsShown DEF Contents
    <3>2. sync' = [rows |-> Visible(store), notices |-> store.notices,
                   done |-> {}, unpaired |-> {}, pc |-> "deliver"]
      BY <2>2, Zenon DEF SyncStart
    <3> QED BY <3>1, <3>2, Zenon DEF SyncSet
  <2>3. CASE ClearNotices
    <3>1. sync \in SyncSet /\ sync' = [sync EXCEPT !.pc = "probe"]
      BY <1>1, <2>3, Zenon DEF ClearNotices
    <3> QED BY <3>1 DEF SyncSet
  <2>4. CASE UNCHANGED sync \/ sync' = NoSync
    BY <1>1, <2>4, Zenon
  <2> QED BY <2>1, <2>2, <2>3, <2>4, Zenon DEF PhoneRemoves, SyncEnd
<1>6. UNCHANGED <<run, replied>>
  BY Zenon DEF Notify, Probe, RemoveUnpairedByPeer, PhoneRemoves, SyncStart, ClearNotices, SyncEnd
<1> QED BY <1>2, <1>3, <1>4, <1>5, <1>6, Zenon

(* The runs that are noted are runs.                                       *)
LEMMA NotedTypes ==
    ASSUME PairingTypeOK, PairingNext PROVE overwritten' \subseteq Runs
<1>1. NoteOverwritten \/ UNCHANGED overwritten
  BY Zenon DEF PairingNext, RunStep, Prepare, WriteCandidate, Decide, Finish, Abort, Cancel,
     PhoneReplies, UpdateUserFields, Unpair, Notify, Probe, RemoveUnpairedByPeer, PhoneRemoves,
     SyncStart, ClearNotices, SyncEnd, PairingCrash
<1> QED BY <1>1, Zenon DEF PairingTypeOK, NoteOverwritten

(* Every step of the pairing keeps the types.                              *)
LEMMA StepPairing == ASSUME PairingTypeOK, [PairingNext]_pairingVars PROVE PairingTypeOK'
<1>1. CASE UNCHANGED pairingVars
  BY <1>1, Zenon DEF pairingVars, PairingTypeOK
<1>2. CASE PairingNext
  <2>1. overwritten' \subseteq Runs
    BY <1>2, NotedTypes
  <2>2. ASSUME NEW r \in Runs, RunStep(r) PROVE PairingTypeOK'
    <3>1. store \in Contents
      BY Zenon DEF PairingTypeOK, Contents
    <3>2. store' \in Contents
      BY <2>2, <3>1, RunWrites, Zenon
    <3> QED BY <2>1, <2>2, <3>2, RunTypes, Zenon DEF PairingTypeOK, Contents, RunSet
  <2>3. ASSUME NEW p \in Phones, (\E n \in NewNames : UpdateUserFields(p, n)) \/ Unpair(p)
        PROVE  PairingTypeOK'
    BY <2>1, <2>3, UserTypes, Zenon DEF PairingTypeOK, Contents, RunSet
  <2>4. CASE \/ \E p \in Phones : Notify(p) \/ Probe(p) \/ RemoveUnpairedByPeer(p)
                                  \/ PhoneRemoves(p)
             \/ SyncStart \/ ClearNotices \/ SyncEnd
    BY <2>1, <2>4, SyncTypes, Zenon DEF PairingTypeOK, Contents, SyncSet
  <2>5. CASE PairingCrash
    <3>1. \A r \in Runs : [run[r] EXCEPT !.pc = "failed"] \in RunSet /\ run[r] \in RunSet
      BY DEF PairingTypeOK, RunSet
    <3>2. run' \in [Runs -> RunSet]
      BY <2>5, <3>1, Zenon DEF PairingCrash
    <3> QED BY <2>1, <2>5, <3>2, Zenon DEF PairingCrash, PairingTypeOK, RunSet
  <2> QED BY <1>2, <2>2, <2>3, <2>4, <2>5, Zenon DEF PairingNext
<1> QED BY <1>1, <1>2

(* A desktop starts with rows of old pairings, no notice and no entry.     *)
LEMMA InitPairing == ASSUME PairingInit PROVE PairingTypeOK
<1>1. store \in Contents /\ held \in [Phones -> PhoneBindings \union {NoRow}]
  BY FilesAtStart, Zenon DEF PairingInit
<1>2. run \in [Runs -> RunSet]
  BY DEF PairingInit, RunSet
<1>3. /\ replied \in [Runs -> {"none", "prepared", "committed", "finished"}]
      /\ sync = NoSync /\ overwritten \subseteq Runs
  BY DEF PairingInit
<1>4. acts \in 0..MaxActs
  BY NoActs, Zenon DEF PairingInit
<1> QED BY <1>1, <1>2, <1>3, <1>4, Zenon DEF PairingTypeOK, Contents, RunSet

HIDE DEF Fails, Act

(***************************************************************************)
(* All of them                                                             *)
(***************************************************************************)

StoresInv == ClaimInv /\ PairingTypeOK /\ DuressInv /\ SearchInv /\ LoopInv

(* Every variable keeps its type, in every step of every component: the    *)
(* rows, notices and journal entries on disk, the claim's journal, the     *)
(* duress marker and lock, the bounds of the search, the poller's channel. *)
THEOREM StoresTypesAreCorrect == StoresSpec => []StoresTypeOK
<1>1. StoresInit => StoresInv
  BY InitClaim, InitPairing, InitDuress, InitSearch, InitLoopTypes, Zenon
  DEF StoresInit, StoresInv
<1>2. StoresInv /\ [StoresNext]_storesVars => StoresInv'
  <2> SUFFICES ASSUME StoresInv, [StoresNext]_storesVars PROVE StoresInv'
    OBVIOUS
  <2>1. /\ [ClaimNext]_claimVars /\ [PairingNext]_pairingVars /\ [DuressNext]_duressVars
        /\ [SearchNext]_searchVars /\ [LoopNext]_loopVars
    BY Zenon DEF StoresNext, storesVars
  <2> QED BY <2>1, StepClaim, StepPairing, StepDuress, StepSearch, StepLoopTypes, Zenon
          DEF StoresInv
<1>3. StoresInv => StoresTypeOK
  BY Zenon DEF StoresInv, StoresTypeOK, ClaimInv, DuressInv, SearchInv, LoopInv
<1> QED BY <1>1, <1>2, <1>3, PTL DEF StoresSpec
=============================================================================
