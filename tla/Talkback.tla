------------------------------ MODULE Talkback ------------------------------
(***************************************************************************)
(* The conversation between a delegate and its orchestrator over the       *)
(* message log of one delegation (internal/delegation/messages.go and      *)
(* internal/server/{delegationmessage,wait,followup}.go):                  *)
(*                                                                         *)
(*   the delegate posts notes and asks and long-polls for an answer        *)
(*   (`tcm tell`, `tcm ask`); the orchestrator long-polls for messages     *)
(*   (`tcm wait`), answers an ask by its id (`tcm answer`), or sends a     *)
(*   follow-up that the server routes to the one answerable ask, if any    *)
(*   (`tcm followup`).                                                     *)
(*                                                                         *)
(* Each request is handled by a goroutine of its own.  messageMu orders    *)
(* what they read and write; the answer waiters are counted under a lock   *)
(* of their own, so a poll may come or go while a follow-up is being       *)
(* routed.  The log is written by a rename, so a restart of the server     *)
(* loses the requests in progress and the waiters, never part of a write.  *)
(*                                                                         *)
(* Abstracted: texts, times and the order of the log (every reader takes   *)
(* all that is pending, or a message by its id), malformed requests, and   *)
(* the agent's status, which may end a wait at any look.                   *)
(***************************************************************************)
EXTENDS Integers, FiniteSets

CONSTANTS
  Msg,       \* message ids
  Request,   \* handler goroutines
  NoMsg, NoEntry, Nobody

ASSUME SentinelAssumption ==
  /\ NoMsg \notin Msg
  /\ Nobody \notin Request
  /\ IsFiniteSet(Request)

(* validateMessage: only an answer replies to a message.                   *)
Entry == [kind : {"note", "ask"}, replyTo : {NoMsg}, delivered : BOOLEAN]
           \cup [kind : {"answer"}, replyTo : Msg, delivered : {FALSE}]

ASSUME EntryAssumption == NoEntry \notin Entry

(* Where a handler is: answering, sifting and marking hold messageMu;      *)
(* polling, answered, timedOut and leaving are registered as waiters.      *)
Locked     == {"answering", "sifting", "marking"}
Registered == {"polling", "answered", "timedOut", "leaving"}
Place      == {"idle", "waiting", "resolving", "expired", "replying"} \cup Locked \cup Registered

VARIABLES
  recorded,   \* the delegation's record exists
  log,        \* message id -> its entry in the log, NoEntry when absent
  messageMu,  \* the handler that holds the lock, or Nobody
  pc,         \* handler -> where it is
  about,      \* handler -> the ask it answers or polls
  batch,      \* handler -> messages taken; asks found answerable
  todo,       \* handler -> asks a follow-up has still to sift
  client,     \* handler -> its client is still there
  waiters,    \* ask -> answerWaiters, the polls registered for it
  surfaced,   \* messages a `tcm wait` has printed (history)
  routed,     \* asks answered by a follow-up (history)
  got         \* asks whose answer reached the delegate (history)

handlers == <<pc, about, batch, todo, client>>
history  == <<surfaced, routed, got>>
vars     == <<recorded, log, messageMu, handlers, waiters, history>>

Init ==
  /\ recorded = FALSE
  /\ log = [m \in Msg |-> NoEntry]
  /\ messageMu = Nobody
  /\ pc = [r \in Request |-> "idle"]
  /\ about = [r \in Request |-> NoMsg]
  /\ batch = [r \in Request |-> {}]
  /\ todo = [r \in Request |-> {}]
  /\ client = [r \in Request |-> FALSE]
  /\ waiters = [m \in Msg |-> 0]
  /\ surfaced = {} /\ routed = {} /\ got = {}

-----------------------------------------------------------------------------
(* The store's queries                                                     *)

Posted == {m \in Msg : log[m] # NoEntry}

Asks == {m \in Posted : log[m].kind = "ask"}

Answered(a) == \E m \in Posted : log[m].kind = "answer" /\ log[m].replyTo = a

UnansweredAsks == {a \in Asks : ~Answered(a)}

(* Bound: message ids are never used up in the code.                       *)
FreshId == \E m \in Msg : log[m] = NoEntry

UndeliveredFromDelegate == {m \in Posted : log[m].kind # "answer" /\ ~log[m].delivered}

Delivered == {m \in Posted : log[m].kind # "answer" /\ log[m].delivered}

-----------------------------------------------------------------------------
(* A handler starts, goes on, and ends                                     *)

Goes(r, place) == pc' = [pc EXCEPT ![r] = place]

(* Its locals go out of scope when a handler returns.                      *)
Ends(r) ==
  /\ pc' = [pc EXCEPT ![r] = "idle"]
  /\ about' = [about EXCEPT ![r] = NoMsg]
  /\ batch' = [batch EXCEPT ![r] = {}]
  /\ todo' = [todo EXCEPT ![r] = {}]
  /\ client' = [client EXCEPT ![r] = FALSE]

LockedBy(r) == messageMu = r

Lock(r) == messageMu = Nobody /\ messageMu' = r

Unlock == messageMu' = Nobody

-----------------------------------------------------------------------------
(* The record, and the delegate's messages                                 *)

(* handleSpawnAgent: the record is written after the agent was started; a  *)
(* message posted before is refused.                                       *)
CreateWithID ==
  /\ ~recorded
  /\ log = [m \in Msg |-> NoEntry]
  /\ recorded' = TRUE
  /\ UNCHANGED <<log, messageMu, handlers, waiters, history>>

(* `tcm tell` and `tcm ask`: appended under the lock.                      *)
PostMessage(m, kind) ==
  /\ recorded /\ messageMu = Nobody
  /\ log[m] = NoEntry
  /\ log' = [log EXCEPT ![m] = [kind |-> kind, replyTo |-> NoMsg, delivered |-> FALSE]]
  /\ UNCHANGED <<recorded, messageMu, handlers, waiters, history>>

-----------------------------------------------------------------------------
(* Answers                                                                 *)

(* Mutant: the answer is stored without the ask it replies to.             *)
AppendUnaddressed(m, a) ==
  /\ log[m] = NoEntry
  /\ log' = [log EXCEPT ![m] = [kind |-> "answer", replyTo |-> NoMsg, delivered |-> FALSE]]

AppendAnswer(m, a) ==
  /\ log[m] = NoEntry
  /\ log' = [log EXCEPT ![m] = [kind |-> "answer", replyTo |-> a, delivered |-> FALSE]]

(* Mutant: the check is made without waiting for the lock.                 *)
StartAnswerUnlocked(r, a) ==
  /\ recorded /\ FreshId /\ pc[r] = "idle"
  /\ a \in UnansweredAsks
  /\ messageMu' = r
  /\ Goes(r, "answering")
  /\ about' = [about EXCEPT ![r] = a]
  /\ UNCHANGED <<recorded, log, batch, todo, client, waiters, history>>

(* `tcm answer`: the ask must exist and be unanswered.                     *)
StartAnswer(r, a) ==
  /\ recorded /\ FreshId /\ pc[r] = "idle"
  /\ Lock(r)
  /\ a \in UnansweredAsks
  /\ Goes(r, "answering")
  /\ about' = [about EXCEPT ![r] = a]
  /\ UNCHANGED <<recorded, log, batch, todo, client, waiters, history>>

FinishAnswer(r) ==
  /\ pc[r] = "answering"
  /\ \E m \in Msg : AppendAnswer(m, about[r])
  /\ Unlock
  /\ Ends(r)
  /\ UNCHANGED <<recorded, waiters, history>>

-----------------------------------------------------------------------------
(* Follow-ups: routeFollowupToAsk                                          *)

StartFollowup(r) ==
  /\ recorded /\ FreshId /\ pc[r] = "idle"
  /\ Lock(r)
  /\ UnansweredAsks # {}
  /\ Goes(r, "sifting")
  /\ todo' = [todo EXCEPT ![r] = UnansweredAsks]
  /\ UNCHANGED <<recorded, log, about, batch, client, waiters, history>>

(* Mutant: an ask the orchestrator was never handed is answerable too.     *)
AnswerableUnseen(a) == waiters[a] > 0

Answerable(a) == log[a].delivered /\ waiters[a] > 0

SiftAsk(r, a) ==
  /\ pc[r] = "sifting"
  /\ a \in todo[r]
  /\ todo' = [todo EXCEPT ![r] = @ \ {a}]
  /\ batch' = [batch EXCEPT ![r] = IF Answerable(a) THEN @ \cup {a} ELSE @]
  /\ UNCHANGED <<recorded, log, messageMu, pc, about, client, waiters, history>>

(* Exactly one answerable ask takes the reply.                             *)
RouteToAsk(r, a) ==
  /\ pc[r] = "sifting" /\ todo[r] = {}
  /\ batch[r] = {a} /\ ~Answered(a)
  /\ \E m \in Msg : AppendAnswer(m, a)
  /\ routed' = routed \cup {a}
  /\ Unlock
  /\ Ends(r)
  /\ UNCHANGED <<recorded, waiters, surfaced, got>>

(* None: the follow-up goes on to resume the delegate's pane.  Several:    *)
(* it is refused as ambiguous.                                             *)
NotRouted(r) ==
  /\ pc[r] = "sifting" /\ todo[r] = {}
  /\ Cardinality(batch[r]) # 1
  /\ Unlock
  /\ Ends(r)
  /\ UNCHANGED <<recorded, log, waiters, history>>

-----------------------------------------------------------------------------
(* The orchestrator's long-poll: handleDelegationWait                      *)

StartWait(r) ==
  /\ recorded /\ pc[r] = "idle"
  /\ Goes(r, "waiting")
  /\ client' = [client EXCEPT ![r] = TRUE]
  /\ UNCHANGED <<recorded, log, messageMu, about, batch, todo, waiters, history>>

(* Mutant: the pending messages are listed without waiting for the lock.   *)
TakeUnlocked(r) ==
  /\ pc[r] \in {"waiting", "expired"}
  /\ messageMu' = r
  /\ UndeliveredFromDelegate # {}
  /\ batch' = [batch EXCEPT ![r] = UndeliveredFromDelegate]
  /\ Goes(r, "marking")
  /\ UNCHANGED <<recorded, log, about, todo, client, waiters, history>>

(* takeUndeliveredDelegateMessages: list what is pending, then mark it;    *)
(* with nothing pending the lock is released at once.                      *)
Take(r) ==
  /\ pc[r] \in {"waiting", "expired"}
  /\ Lock(r)
  /\ UndeliveredFromDelegate # {}
  /\ batch' = [batch EXCEPT ![r] = UndeliveredFromDelegate]
  /\ Goes(r, "marking")
  /\ UNCHANGED <<recorded, log, about, todo, client, waiters, history>>

(* Mutant: only the first message of the batch is marked.                  *)
MarkFirst(r) ==
  /\ pc[r] = "marking"
  /\ \E m \in batch[r] : log' = [log EXCEPT ![m].delivered = TRUE]
  /\ Unlock
  /\ Goes(r, "replying")
  /\ UNCHANGED <<recorded, about, batch, todo, client, waiters, history>>

MarkDelivered(r) ==
  /\ pc[r] = "marking"
  /\ log' = [m \in Msg |-> IF m \in batch[r] THEN [log[m] EXCEPT !.delivered = TRUE] ELSE log[m]]
  /\ Unlock
  /\ Goes(r, "replying")
  /\ UNCHANGED <<recorded, about, batch, todo, client, waiters, history>>

(* The response is written to whoever is still there.                      *)
Reply(r) ==
  /\ pc[r] = "replying"
  /\ surfaced' = IF client[r] THEN surfaced \cup batch[r] ELSE surfaced
  /\ Ends(r)
  /\ UNCHANGED <<recorded, log, messageMu, waiters, routed, got>>

(* Nothing is pending: the wait goes on to look at the agent's status, or  *)
(* ends, when its deadline has passed.                                     *)
TakeNothing(r) ==
  /\ messageMu = Nobody
  /\ UndeliveredFromDelegate = {}
  /\ \/ pc[r] = "waiting" /\ Goes(r, "resolving") /\ UNCHANGED <<about, batch, todo, client>>
     \/ pc[r] = "expired" /\ Ends(r)
  /\ UNCHANGED <<recorded, log, messageMu, waiters, history>>

(* The agent's status ends the wait (a message may have arrived since), or *)
(* the client is seen to have left, which is only noticed by chance when   *)
(* the ticker is ready too.                                                *)
EndWait(r) ==
  /\ pc[r] = "resolving"
  /\ Ends(r)
  /\ UNCHANGED <<recorded, log, messageMu, waiters, history>>

TickWait(r) ==
  /\ pc[r] = "resolving"
  /\ Goes(r, "waiting")
  /\ UNCHANGED <<recorded, log, messageMu, about, batch, todo, client, waiters, history>>

(* The deadline passes: the messages are looked at once more.              *)
ExpireWait(r) ==
  /\ pc[r] = "resolving"
  /\ Goes(r, "expired")
  /\ UNCHANGED <<recorded, log, messageMu, about, batch, todo, client, waiters, history>>

-----------------------------------------------------------------------------
(* The delegate's long-poll: handleDelegationAnswer                        *)

StartPoll(r, a) ==
  /\ recorded /\ pc[r] = "idle"
  /\ a \in Asks
  /\ Goes(r, "polling")
  /\ about' = [about EXCEPT ![r] = a]
  /\ client' = [client EXCEPT ![r] = TRUE]
  /\ waiters' = [waiters EXCEPT ![a] = @ + 1]
  /\ UNCHANGED <<recorded, log, messageMu, batch, todo, history>>

Look(r) ==
  /\ pc[r] = "polling" /\ Answered(about[r])
  /\ Goes(r, "answered")
  /\ UNCHANGED <<recorded, log, messageMu, about, batch, todo, client, waiters, history>>

(* Mutant: the deadline answers without looking again.                     *)
ExpireBlindly(r) ==
  /\ pc[r] = "polling"
  /\ Goes(r, "timedOut")
  /\ UNCHANGED <<recorded, log, messageMu, about, batch, todo, client, waiters, history>>

ExpirePoll(r) ==
  /\ pc[r] = "polling"
  /\ Goes(r, IF Answered(about[r]) THEN "answered" ELSE "timedOut")
  /\ UNCHANGED <<recorded, log, messageMu, about, batch, todo, client, waiters, history>>

NoticeHangup(r) ==
  /\ pc[r] = "polling" /\ ~client[r]
  /\ Goes(r, "leaving")
  /\ UNCHANGED <<recorded, log, messageMu, about, batch, todo, client, waiters, history>>

(* The response is written; the waiter is still registered.                *)
ReplyToPoll(r) ==
  /\ pc[r] \in {"answered", "timedOut"}
  /\ got' = IF pc[r] = "answered" /\ client[r] THEN got \cup {about[r]} ELSE got
  /\ client' = [client EXCEPT ![r] = FALSE]
  /\ Goes(r, "leaving")
  /\ UNCHANGED <<recorded, log, messageMu, about, batch, todo, waiters, surfaced, routed>>

(* Mutant: the last two waiters leave together.                            *)
UnregisterAll(r) ==
  /\ pc[r] = "leaving"
  /\ waiters' = [waiters EXCEPT ![about[r]] = IF @ <= 2 THEN 0 ELSE @ - 1]
  /\ Ends(r)
  /\ UNCHANGED <<recorded, log, messageMu, history>>

Unregister(r) ==
  /\ pc[r] = "leaving"
  /\ waiters' = [waiters EXCEPT ![about[r]] = IF @ <= 1 THEN 0 ELSE @ - 1]
  /\ Ends(r)
  /\ UNCHANGED <<recorded, log, messageMu, history>>

-----------------------------------------------------------------------------
(* Clients and the server come and go                                      *)

Hangup(r) ==
  /\ client[r]
  /\ client' = [client EXCEPT ![r] = FALSE]
  /\ UNCHANGED <<recorded, log, messageMu, pc, about, batch, todo, waiters, history>>

(* A restarted server has the log and no requests; it may sweep the record *)
(* of an old delegation, and keeps its messages.                           *)
Restart ==
  /\ recorded' \in {recorded, FALSE}
  /\ messageMu' = Nobody
  /\ pc' = [r \in Request |-> "idle"]
  /\ about' = [r \in Request |-> NoMsg]
  /\ batch' = [r \in Request |-> {}]
  /\ todo' = [r \in Request |-> {}]
  /\ client' = [r \in Request |-> FALSE]
  /\ waiters' = [m \in Msg |-> 0]
  /\ UNCHANGED <<log, history>>

Clients ==
  \/ CreateWithID \/ Restart
  \/ \E m \in Msg, kind \in {"note", "ask"} : PostMessage(m, kind)
  \/ \E r \in Request, a \in Msg : StartAnswer(r, a) \/ StartPoll(r, a)
  \/ \E r \in Request : StartFollowup(r) \/ StartWait(r) \/ Hangup(r)

(* What a handler does on its own.                                         *)
Handle(r) ==
  \/ FinishAnswer(r) \/ NotRouted(r)
  \/ \E a \in Msg : SiftAsk(r, a) \/ RouteToAsk(r, a)
  \/ Take(r) \/ MarkDelivered(r) \/ Reply(r)
  \/ TakeNothing(r) \/ EndWait(r) \/ TickWait(r) \/ ExpireWait(r)
  \/ Look(r) \/ ExpirePoll(r) \/ NoticeHangup(r) \/ ReplyToPoll(r) \/ Unregister(r)

Next == Clients \/ \E r \in Request : Handle(r)

Spec == Init /\ [][Next]_vars

-----------------------------------------------------------------------------
(* Properties                                                              *)

(* Type invariant of the message log and the requests about it.            *)
TypeOK ==
  /\ recorded \in BOOLEAN
  /\ log \in [Msg -> Entry \cup {NoEntry}]
  /\ messageMu \in Request \cup {Nobody}
  /\ pc \in [Request -> Place]
  /\ about \in [Request -> Msg \cup {NoMsg}]
  /\ batch \in [Request -> SUBSET Msg]
  /\ todo \in [Request -> SUBSET Msg]
  /\ client \in [Request -> BOOLEAN]
  /\ waiters \in [Msg -> Nat]
  /\ surfaced \subseteq Msg /\ routed \subseteq Msg /\ got \subseteq Msg

(* An ask has at most one answer, though `tcm answer` and follow-ups race  *)
(* for it, and a restart may fall between any two steps                    *)
(* (appendDelegationAnswer under messageMu).                               *)
OneAnswerPerAsk ==
  \A m, n \in Posted :
    log[m].kind = "answer" /\ log[n].kind = "answer" /\ log[m].replyTo = log[n].replyTo => m = n

(* No two `tcm wait` runs are handed the same message                      *)
(* (takeUndeliveredDelegateMessages under messageMu).                      *)
Handing(r) == IF pc[r] \in {"marking", "replying"} THEN batch[r] ELSE {}

HandedOnce ==
  \A r \in Request :
    /\ Handing(r) \cap surfaced = {}
    /\ \A q \in Request \ {r} : Handing(q) \cap Handing(r) = {}

(* The reference counts of registerAnswerWaiter are the polls in progress, *)
(* however polls of one ask overlap, time out, hang up or are answered.    *)
Pollers(a) == {r \in Request : pc[r] \in Registered /\ about[r] = a}

WaitersCounted == \A a \in Msg : waiters[a] = Cardinality(Pollers(a))

(* A follow-up answers only an ask that a wait has taken, and the answer   *)
(* stays in the log (routeFollowupToAsk, through restarts).                *)
RoutedWasDelivered == \A a \in routed : a \in Asks \cap Delivered /\ Answered(a)

(* A poll whose ask is answered before its deadline does not time out.     *)
AnswerBeatsDeadline ==
  [][\A r \in Request : pc[r] = "polling" /\ Answered(about[r]) => pc'[r] # "timedOut"]_vars

(* The log is a mailbox.                                                   *)
Box == [m \in Msg |-> IF m \in Delivered THEN "handed"
                      ELSE IF m \in UndeliveredFromDelegate THEN "posted" ELSE "absent"]

Answers == {<<log[m].replyTo, m>> : m \in {n \in Posted : log[n].kind = "answer"}}

MB == INSTANCE Mailbox WITH box <- Box, answers <- Answers

ImplementsMailbox == MB!Spec
=============================================================================
