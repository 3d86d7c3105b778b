--------------------------- MODULE TalkbackProofs ---------------------------
(***************************************************************************)
(* Theorems about the message log of a delegation, for any set of messages *)
(* and any finite set of handlers: an ask has at most one answer, no       *)
(* message is handed over twice, the waiters are counted right, and the    *)
(* log implements the abstract mailbox.                                    *)
(*                                                                         *)
(* All rest on one inductive invariant: what a handler has read under      *)
(* messageMu is still true when it writes.                                 *)
(***************************************************************************)
EXTENDS Talkback, FiniteSetTheorems, TLAPS

USE SentinelAssumption, EntryAssumption

-----------------------------------------------------------------------------
(* The inductive invariant                                                 *)

(* messageMu is held by the one handler that answers, sifts or marks.      *)
LockInv == \A r \in Request : pc[r] \in Locked <=> messageMu = r

(* Nothing can answer the ask under an answering handler.                  *)
AskInv ==
  \A r \in Request :
    /\ pc[r] = "answering" => about[r] \in UnansweredAsks
    /\ pc[r] \in Registered => about[r] \in Asks

(* Nor can anything answer the asks under a sifting one.                   *)
SiftInv ==
  \A r \in Request :
    /\ pc[r] = "idle" => batch[r] = {}
    /\ pc[r] = "sifting" =>
         /\ todo[r] \subseteq UnansweredAsks
         /\ batch[r] \subseteq UnansweredAsks \cap Delivered

(* A marking handler's batch is all that is pending.                       *)
BatchInv ==
  \A r \in Request :
    /\ pc[r] = "marking" => batch[r] = UndeliveredFromDelegate
    /\ pc[r] = "replying" => batch[r] \subseteq Delivered

(* What has been printed or is being written was marked, and only once.    *)
HandInv ==
  /\ surfaced \subseteq Delivered
  /\ \A r \in Request : pc[r] = "replying" => batch[r] \cap surfaced = {}
  /\ \A q, r \in Request :
       q # r /\ pc[q] = "replying" /\ pc[r] = "replying" => batch[q] \cap batch[r] = {}

IInv ==
  /\ TypeOK /\ LockInv /\ AskInv /\ SiftInv /\ BatchInv
  /\ HandInv /\ RoutedWasDelivered /\ OneAnswerPerAsk

-----------------------------------------------------------------------------
(* What the four kinds of step do to the log's queries                     *)

LEMMA SameLog ==
  ASSUME log' = log
  PROVE  /\ Posted' = Posted /\ Asks' = Asks /\ UnansweredAsks' = UnansweredAsks
         /\ UndeliveredFromDelegate' = UndeliveredFromDelegate /\ Delivered' = Delivered
         /\ \A a : Answered(a)' <=> Answered(a)
BY DEF Posted, Asks, Answered, UnansweredAsks, UndeliveredFromDelegate, Delivered

LEMMA Disjoint == UndeliveredFromDelegate \cap Delivered = {}
BY DEF UndeliveredFromDelegate, Delivered

LEMMA QueriesTyped ==
  /\ UnansweredAsks \subseteq Asks /\ Asks \subseteq Posted /\ Posted \subseteq Msg
  /\ UndeliveredFromDelegate \subseteq Posted /\ Delivered \subseteq Posted
BY DEF Posted, Asks, UnansweredAsks, UndeliveredFromDelegate, Delivered

LEMMA Posting ==
  ASSUME TypeOK, NEW m \in Msg, NEW kind \in {"note", "ask"}, PostMessage(m, kind)
  PROVE  /\ log' \in [Msg -> Entry \cup {NoEntry}]
         /\ Asks \subseteq Asks' /\ UnansweredAsks \subseteq UnansweredAsks'
         /\ Delivered' = Delivered
         /\ \A a : Answered(a)' <=> Answered(a)
         /\ \A n \in Posted' : log'[n].kind = "answer" => n \in Posted /\ log'[n] = log[n]
<1>1. log' = [log EXCEPT ![m] = [kind |-> kind, replyTo |-> NoMsg, delivered |-> FALSE]]
      /\ log[m] = NoEntry /\ log \in [Msg -> Entry \cup {NoEntry}]
  BY DEF PostMessage, TypeOK
<1>2. [kind |-> kind, replyTo |-> NoMsg, delivered |-> FALSE] \in Entry
  BY DEF Entry
<1>. QED
  BY <1>1, <1>2 DEF Posted, Asks, Answered, UnansweredAsks, Delivered

LEMMA Appending ==
  ASSUME TypeOK, NEW m \in Msg, NEW a \in Msg, AppendAnswer(m, a)
  PROVE  /\ log' \in [Msg -> Entry \cup {NoEntry}]
         /\ Asks' = Asks /\ UnansweredAsks' = UnansweredAsks \ {a}
         /\ UndeliveredFromDelegate' = UndeliveredFromDelegate
         /\ Delivered' = Delivered
         /\ \A b : Answered(b)' <=> Answered(b) \/ b = a
         /\ Posted' = Posted \cup {m} /\ m \notin Posted
         /\ log'[m].kind = "answer" /\ log'[m].replyTo = a
         /\ \A n \in Posted : log'[n] = log[n]
<1>1. log' = [log EXCEPT ![m] = [kind |-> "answer", replyTo |-> a, delivered |-> FALSE]]
      /\ log[m] = NoEntry /\ log \in [Msg -> Entry \cup {NoEntry}]
  BY DEF AppendAnswer, TypeOK
<1>2. [kind |-> "answer", replyTo |-> a, delivered |-> FALSE] \in Entry
  BY DEF Entry
<1>3. /\ Posted' = Posted \cup {m} /\ m \notin Posted
      /\ log'[m].kind = "answer" /\ log'[m].replyTo = a
      /\ \A n \in Posted : log'[n] = log[n]
  BY <1>1, <1>2 DEF Posted
<1>4. \A b : Answered(b)' <=> Answered(b) \/ b = a
  BY <1>3 DEF Answered
<1>5. Asks' = Asks
  BY <1>3 DEF Asks
<1>6. UnansweredAsks' = UnansweredAsks \ {a}
  BY <1>4, <1>5 DEF UnansweredAsks
<1>7. UndeliveredFromDelegate' = UndeliveredFromDelegate /\ Delivered' = Delivered
  BY <1>3 DEF UndeliveredFromDelegate, Delivered
<1>. QED
  BY <1>1, <1>2, <1>3, <1>4, <1>5, <1>6, <1>7

LEMMA Marking ==
  ASSUME TypeOK, BatchInv, NEW r \in Request, MarkDelivered(r)
  PROVE  /\ log' \in [Msg -> Entry \cup {NoEntry}]
         /\ Posted' = Posted
         /\ \A m \in Posted : log'[m].kind = log[m].kind /\ log'[m].replyTo = log[m].replyTo
         /\ Asks' = Asks /\ UnansweredAsks' = UnansweredAsks
         /\ \A a : Answered(a)' <=> Answered(a)
         /\ batch[r] = UndeliveredFromDelegate
         /\ Delivered' = Delivered \cup batch[r]
<1>1. batch[r] = UndeliveredFromDelegate
  BY DEF BatchInv, MarkDelivered
<1>2. ASSUME NEW m \in Msg
      PROVE  /\ log'[m] \in Entry \cup {NoEntry}
             /\ log'[m] = NoEntry <=> log[m] = NoEntry
             /\ log[m] # NoEntry =>
                  /\ log'[m].kind = log[m].kind /\ log'[m].replyTo = log[m].replyTo
                  /\ log'[m].delivered <=> (log[m].delivered \/ m \in batch[r])
  <2>1. log[m] \in Entry \cup {NoEntry}
    BY DEF TypeOK
  <2>2. CASE m \in batch[r]
    BY <1>1, <2>1, <2>2 DEF MarkDelivered, UndeliveredFromDelegate, Posted, Entry
  <2>3. CASE m \notin batch[r]
    BY <2>1, <2>3 DEF MarkDelivered
  <2>. QED
    BY <2>2, <2>3
<1>3. log' \in [Msg -> Entry \cup {NoEntry}]
  BY <1>2 DEF MarkDelivered
<1>4. /\ Posted' = Posted
      /\ \A m \in Posted : log'[m].kind = log[m].kind /\ log'[m].replyTo = log[m].replyTo
      /\ \A m \in Posted : log'[m].delivered <=> (log[m].delivered \/ m \in batch[r])
  BY <1>2 DEF Posted
<1>5. \A a : Answered(a)' <=> Answered(a)
  BY <1>4 DEF Answered
<1>6. Asks' = Asks
  BY <1>4 DEF Asks
<1>7. UnansweredAsks' = UnansweredAsks
  BY <1>5, <1>6 DEF UnansweredAsks
<1>8. Delivered' = Delivered \cup batch[r]
  BY <1>1, <1>4 DEF Delivered, UndeliveredFromDelegate
<1>. QED
  BY <1>1, <1>3, <1>4, <1>5, <1>6, <1>7, <1>8

-----------------------------------------------------------------------------
(* The steps, by what they are part of                                     *)

WaitStep(r) == \/ StartWait(r) \/ Take(r) \/ Reply(r)
               \/ TakeNothing(r) \/ EndWait(r) \/ TickWait(r) \/ ExpireWait(r)

PollStep(r) == \/ \E a \in Msg : StartPoll(r, a)
               \/ Look(r) \/ ExpirePoll(r) \/ NoticeHangup(r) \/ ReplyToPoll(r) \/ Unregister(r)

LEMMA Kinds ==
  ASSUME [Next]_vars
  PROVE  \/ UNCHANGED vars
         \/ CreateWithID \/ Restart
         \/ \E m \in Msg, kind \in {"note", "ask"} : PostMessage(m, kind)
         \/ \E r \in Request :
              \/ Hangup(r) \/ FinishAnswer(r) \/ StartFollowup(r) \/ NotRouted(r)
              \/ WaitStep(r) \/ MarkDelivered(r) \/ PollStep(r)
              \/ \E a \in Msg : StartAnswer(r, a) \/ SiftAsk(r, a) \/ RouteToAsk(r, a)
BY DEF Next, Clients, Handle, WaitStep, PollStep

LEMMA TypeStep == TypeOK /\ LockInv /\ AskInv /\ BatchInv /\ [Next]_vars => TypeOK'
<1> SUFFICES ASSUME TypeOK, LockInv, AskInv, BatchInv, [Next]_vars PROVE TypeOK'
  OBVIOUS
<1> USE DEF Goes, Ends, Lock, Unlock, Locked, Registered, handlers, history, TypeOK
<1>1. CASE UNCHANGED vars
  BY <1>1, SameLog DEF vars
<1>2. CASE CreateWithID \/ Restart
  <2>1. CASE CreateWithID
    BY <2>1 DEF CreateWithID
  <2>2. CASE Restart
    BY <2>2 DEF Restart, Place
  <2>. QED
    BY <1>2, <2>1, <2>2
<1>3. ASSUME NEW m \in Msg, NEW kind \in {"note", "ask"}, PostMessage(m, kind) PROVE TypeOK'
  BY <1>3, Posting DEF PostMessage, Place
<1>4. ASSUME NEW r \in Request, Hangup(r) PROVE TypeOK'
  BY <1>4, SameLog DEF Hangup
<1>5. ASSUME NEW r \in Request, NEW a \in Msg, StartAnswer(r, a) PROVE TypeOK'
  BY <1>5, SameLog DEF StartAnswer, Place
<1>6. ASSUME NEW r \in Request, FinishAnswer(r) PROVE TypeOK'
  <2>1. about[r] \in Msg
    BY <1>6, QueriesTyped DEF FinishAnswer, AskInv
  <2>. QED
    BY <1>6, <2>1, Appending DEF FinishAnswer, Place
<1>7. ASSUME NEW r \in Request, StartFollowup(r) PROVE TypeOK'
  BY <1>7, QueriesTyped DEF StartFollowup, Place
<1>8. ASSUME NEW r \in Request, NEW a \in Msg, SiftAsk(r, a) PROVE TypeOK'
  BY <1>8, SameLog DEF SiftAsk
<1>9. ASSUME NEW r \in Request, NEW a \in Msg, RouteToAsk(r, a) PROVE TypeOK'
  BY <1>9, Appending DEF RouteToAsk, Place
<1>10. ASSUME NEW r \in Request, NotRouted(r) PROVE TypeOK'
  BY <1>10, SameLog DEF NotRouted, Place
<1>11. ASSUME NEW r \in Request, WaitStep(r) PROVE TypeOK'
  <2>1. CASE StartWait(r) \/ EndWait(r) \/ TickWait(r) \/ ExpireWait(r)
    BY <2>1 DEF StartWait, EndWait, TickWait, ExpireWait, Place
  <2>2. CASE Take(r)
    BY <2>2, QueriesTyped DEF Take, Place
  <2>3. CASE Reply(r)
    BY <2>3 DEF Reply, Place
  <2>4. CASE TakeNothing(r)
    BY <2>4 DEF TakeNothing, Place
  <2>. QED
    BY ONLY <1>11, <2>1, <2>2, <2>3, <2>4 DEF WaitStep
<1>12. ASSUME NEW r \in Request, MarkDelivered(r) PROVE TypeOK'
  BY <1>12, Marking DEF MarkDelivered, Place
<1>13. ASSUME NEW r \in Request, PollStep(r) PROVE TypeOK'
  <2>1. pc[r] \in Registered => about[r] \in Msg
    BY QueriesTyped DEF AskInv
  <2>2. ASSUME NEW a \in Msg, StartPoll(r, a) PROVE TypeOK'
    BY <2>2 DEF StartPoll, Place
  <2>3. CASE Look(r) \/ ExpirePoll(r) \/ NoticeHangup(r)
    BY <2>3 DEF Look, ExpirePoll, NoticeHangup, Place
  <2>4. CASE ReplyToPoll(r)
    BY <2>1, <2>4 DEF ReplyToPoll, Place
  <2>5. CASE Unregister(r)
    BY <2>1, <2>5 DEF Unregister, Place
  <2>. QED
    BY ONLY <1>13, <2>2, <2>3, <2>4, <2>5 DEF PollStep
<1>. QED
  BY ONLY Kinds, [Next]_vars, <1>1, <1>2, <1>3, <1>4, <1>5, <1>6, <1>7, <1>8, <1>9,
     <1>10, <1>11, <1>12, <1>13

LEMMA LockStep == TypeOK /\ LockInv /\ AskInv /\ BatchInv /\ [Next]_vars => LockInv'
<1> SUFFICES ASSUME TypeOK, LockInv, AskInv, BatchInv, [Next]_vars PROVE LockInv'
  OBVIOUS
<1> USE DEF Goes, Ends, Lock, Unlock, Locked, Registered, handlers, history, TypeOK,
   LockInv
<1>1. CASE UNCHANGED vars
  BY <1>1, SameLog DEF vars
<1>2. CASE CreateWithID \/ Restart
  BY <1>2, SameLog DEF CreateWithID, Restart
<1>3. ASSUME NEW m \in Msg, NEW kind \in {"note", "ask"}, PostMessage(m, kind) PROVE LockInv'
  BY <1>3, Posting DEF PostMessage
<1>4. ASSUME NEW r \in Request, Hangup(r) PROVE LockInv'
  BY <1>4, SameLog DEF Hangup
<1>5. ASSUME NEW r \in Request, NEW a \in Msg, StartAnswer(r, a) PROVE LockInv'
  BY <1>5, SameLog DEF StartAnswer
<1>6. ASSUME NEW r \in Request, FinishAnswer(r) PROVE LockInv'
  BY <1>6, Appending DEF FinishAnswer
<1>7. ASSUME NEW r \in Request, StartFollowup(r) PROVE LockInv'
  BY <1>7, SameLog DEF StartFollowup
<1>8. ASSUME NEW r \in Request, NEW a \in Msg, SiftAsk(r, a) PROVE LockInv'
  BY <1>8, SameLog DEF SiftAsk
<1>9. ASSUME NEW r \in Request, NEW a \in Msg, RouteToAsk(r, a) PROVE LockInv'
  BY <1>9, Appending DEF RouteToAsk
<1>10. ASSUME NEW r \in Request, NotRouted(r) PROVE LockInv'
  BY <1>10, SameLog DEF NotRouted
<1>11. ASSUME NEW r \in Request, WaitStep(r) PROVE LockInv'
  BY <1>11, SameLog DEF WaitStep, StartWait, Take, Reply, TakeNothing, EndWait,
     TickWait, ExpireWait
<1>12. ASSUME NEW r \in Request, MarkDelivered(r) PROVE LockInv'
  BY <1>12, Marking DEF MarkDelivered
<1>13. ASSUME NEW r \in Request, PollStep(r) PROVE LockInv'
  BY <1>13, SameLog DEF PollStep, StartPoll, Look, ExpirePoll, NoticeHangup,
     ReplyToPoll, Unregister
<1>. QED
  BY ONLY Kinds, [Next]_vars, <1>1, <1>2, <1>3, <1>4, <1>5, <1>6, <1>7, <1>8, <1>9,
     <1>10, <1>11, <1>12, <1>13

LEMMA AskStep == TypeOK /\ LockInv /\ BatchInv /\ AskInv /\ [Next]_vars => AskInv'
<1> SUFFICES ASSUME TypeOK, LockInv, BatchInv, AskInv, [Next]_vars PROVE AskInv'
  OBVIOUS
<1> USE DEF Goes, Ends, Lock, Unlock, Locked, Registered, handlers, history, TypeOK,
   LockInv, AskInv
<1>1. CASE UNCHANGED vars
  BY <1>1, SameLog DEF vars
<1>2. CASE CreateWithID \/ Restart
  BY <1>2, SameLog DEF CreateWithID, Restart
<1>3. ASSUME NEW m \in Msg, NEW kind \in {"note", "ask"}, PostMessage(m, kind) PROVE AskInv'
  BY <1>3, Posting DEF PostMessage
<1>4. ASSUME NEW r \in Request, Hangup(r) PROVE AskInv'
  BY <1>4, SameLog DEF Hangup
<1>5. ASSUME NEW r \in Request, NEW a \in Msg, StartAnswer(r, a) PROVE AskInv'
  BY <1>5, SameLog DEF StartAnswer
<1>6. ASSUME NEW r \in Request, FinishAnswer(r) PROVE AskInv'
  BY <1>6, Appending, QueriesTyped DEF FinishAnswer
<1>7. ASSUME NEW r \in Request, StartFollowup(r) PROVE AskInv'
  BY <1>7, SameLog DEF StartFollowup
<1>8. ASSUME NEW r \in Request, NEW a \in Msg, SiftAsk(r, a) PROVE AskInv'
  BY <1>8, SameLog DEF SiftAsk
<1>9. ASSUME NEW r \in Request, NEW a \in Msg, RouteToAsk(r, a) PROVE AskInv'
  BY <1>9, Appending DEF RouteToAsk
<1>10. ASSUME NEW r \in Request, NotRouted(r) PROVE AskInv'
  BY <1>10, SameLog DEF NotRouted
<1>11. ASSUME NEW r \in Request, WaitStep(r) PROVE AskInv'
  BY <1>11, SameLog DEF WaitStep, StartWait, Take, Reply, TakeNothing, EndWait,
     TickWait, ExpireWait
<1>12. ASSUME NEW r \in Request, MarkDelivered(r) PROVE AskInv'
  BY <1>12, Marking DEF MarkDelivered
<1>13. ASSUME NEW r \in Request, PollStep(r) PROVE AskInv'
  BY <1>13, SameLog DEF PollStep, StartPoll, Look, ExpirePoll, NoticeHangup,
     ReplyToPoll, Unregister
<1>. QED
  BY ONLY Kinds, [Next]_vars, <1>1, <1>2, <1>3, <1>4, <1>5, <1>6, <1>7, <1>8, <1>9,
     <1>10, <1>11, <1>12, <1>13

LEMMA SiftStep == TypeOK /\ LockInv /\ AskInv /\ BatchInv /\ SiftInv /\ [Next]_vars =>
   SiftInv'
<1> SUFFICES ASSUME TypeOK, LockInv, AskInv, BatchInv, SiftInv, [Next]_vars PROVE
   SiftInv'
  OBVIOUS
<1> USE DEF Goes, Ends, Lock, Unlock, Locked, Registered, handlers, history, TypeOK,
   LockInv, SiftInv
<1>1. CASE UNCHANGED vars
  BY <1>1, SameLog DEF vars
<1>2. CASE CreateWithID \/ Restart
  BY <1>2, SameLog DEF CreateWithID, Restart
<1>3. ASSUME NEW m \in Msg, NEW kind \in {"note", "ask"}, PostMessage(m, kind) PROVE SiftInv'
  BY <1>3, Posting DEF PostMessage
<1>4. ASSUME NEW r \in Request, Hangup(r) PROVE SiftInv'
  BY <1>4, SameLog DEF Hangup
<1>5. ASSUME NEW r \in Request, NEW a \in Msg, StartAnswer(r, a) PROVE SiftInv'
  BY <1>5, SameLog DEF StartAnswer
<1>6. ASSUME NEW r \in Request, FinishAnswer(r) PROVE SiftInv'
  BY <1>6, Appending, QueriesTyped DEF FinishAnswer, AskInv
<1>7. ASSUME NEW r \in Request, StartFollowup(r) PROVE SiftInv'
  BY <1>7, SameLog DEF StartFollowup
<1>8. ASSUME NEW r \in Request, NEW a \in Msg, SiftAsk(r, a) PROVE SiftInv'
  BY <1>8, SameLog DEF SiftAsk, Answerable, UnansweredAsks, Asks, Delivered
<1>9. ASSUME NEW r \in Request, NEW a \in Msg, RouteToAsk(r, a) PROVE SiftInv'
  BY <1>9, Appending DEF RouteToAsk
<1>10. ASSUME NEW r \in Request, NotRouted(r) PROVE SiftInv'
  BY <1>10, SameLog DEF NotRouted
<1>11. ASSUME NEW r \in Request, WaitStep(r) PROVE SiftInv'
  BY <1>11, SameLog DEF WaitStep, StartWait, Take, Reply, TakeNothing, EndWait,
     TickWait, ExpireWait
<1>12. ASSUME NEW r \in Request, MarkDelivered(r) PROVE SiftInv'
  BY <1>12, Marking DEF MarkDelivered
<1>13. ASSUME NEW r \in Request, PollStep(r) PROVE SiftInv'
  BY <1>13, SameLog DEF PollStep, StartPoll, Look, ExpirePoll, NoticeHangup,
     ReplyToPoll, Unregister
<1>. QED
  BY ONLY Kinds, [Next]_vars, <1>1, <1>2, <1>3, <1>4, <1>5, <1>6, <1>7, <1>8, <1>9,
     <1>10, <1>11, <1>12, <1>13

LEMMA BatchStep == TypeOK /\ LockInv /\ AskInv /\ BatchInv /\ [Next]_vars => BatchInv'
<1> SUFFICES ASSUME TypeOK, LockInv, AskInv, BatchInv, [Next]_vars PROVE BatchInv'
  OBVIOUS
<1> USE DEF Goes, Ends, Lock, Unlock, Locked, Registered, handlers, history, TypeOK,
   LockInv, BatchInv
<1>1. CASE UNCHANGED vars
  BY <1>1, SameLog DEF vars
<1>2. CASE CreateWithID \/ Restart
  BY <1>2, SameLog DEF CreateWithID, Restart
<1>3. ASSUME NEW m \in Msg, NEW kind \in {"note", "ask"}, PostMessage(m, kind) PROVE BatchInv'
  BY <1>3, Posting DEF PostMessage
<1>4. ASSUME NEW r \in Request, Hangup(r) PROVE BatchInv'
  BY <1>4, SameLog DEF Hangup
<1>5. ASSUME NEW r \in Request, NEW a \in Msg, StartAnswer(r, a) PROVE BatchInv'
  BY <1>5, SameLog DEF StartAnswer
<1>6. ASSUME NEW r \in Request, FinishAnswer(r) PROVE BatchInv'
  BY <1>6, Appending, QueriesTyped DEF FinishAnswer, AskInv
<1>7. ASSUME NEW r \in Request, StartFollowup(r) PROVE BatchInv'
  BY <1>7, SameLog DEF StartFollowup
<1>8. ASSUME NEW r \in Request, NEW a \in Msg, SiftAsk(r, a) PROVE BatchInv'
  BY <1>8, SameLog DEF SiftAsk
<1>9. ASSUME NEW r \in Request, NEW a \in Msg, RouteToAsk(r, a) PROVE BatchInv'
  BY <1>9, Appending DEF RouteToAsk
<1>10. ASSUME NEW r \in Request, NotRouted(r) PROVE BatchInv'
  BY <1>10, SameLog DEF NotRouted
<1>11. ASSUME NEW r \in Request, WaitStep(r) PROVE BatchInv'
  BY <1>11, SameLog DEF WaitStep, StartWait, Take, Reply, TakeNothing, EndWait,
     TickWait, ExpireWait
<1>12. ASSUME NEW r \in Request, MarkDelivered(r) PROVE BatchInv'
  BY <1>12, Marking DEF MarkDelivered
<1>13. ASSUME NEW r \in Request, PollStep(r) PROVE BatchInv'
  BY <1>13, SameLog DEF PollStep, StartPoll, Look, ExpirePoll, NoticeHangup,
     ReplyToPoll, Unregister
<1>. QED
  BY ONLY Kinds, [Next]_vars, <1>1, <1>2, <1>3, <1>4, <1>5, <1>6, <1>7, <1>8, <1>9,
     <1>10, <1>11, <1>12, <1>13

LEMMA HandStep == TypeOK /\ LockInv /\ AskInv /\ BatchInv /\ HandInv /\ [Next]_vars =>
   HandInv'
<1> SUFFICES ASSUME TypeOK, LockInv, AskInv, BatchInv, HandInv, [Next]_vars PROVE
   HandInv'
  OBVIOUS
<1> USE DEF Goes, Ends, Lock, Unlock, Locked, Registered, handlers, history, TypeOK,
   LockInv, BatchInv, HandInv
<1>1. CASE UNCHANGED vars
  BY <1>1, SameLog DEF vars
<1>2. CASE CreateWithID \/ Restart
  BY <1>2, SameLog DEF CreateWithID, Restart
<1>3. ASSUME NEW m \in Msg, NEW kind \in {"note", "ask"}, PostMessage(m, kind) PROVE HandInv'
  BY <1>3, Posting DEF PostMessage
<1>4. ASSUME NEW r \in Request, Hangup(r) PROVE HandInv'
  BY <1>4, SameLog DEF Hangup
<1>5. ASSUME NEW r \in Request, NEW a \in Msg, StartAnswer(r, a) PROVE HandInv'
  BY <1>5, SameLog DEF StartAnswer
<1>6. ASSUME NEW r \in Request, FinishAnswer(r) PROVE HandInv'
  BY <1>6, Appending, QueriesTyped DEF FinishAnswer, AskInv
<1>7. ASSUME NEW r \in Request, StartFollowup(r) PROVE HandInv'
  BY <1>7, SameLog DEF StartFollowup
<1>8. ASSUME NEW r \in Request, NEW a \in Msg, SiftAsk(r, a) PROVE HandInv'
  BY <1>8, SameLog DEF SiftAsk
<1>9. ASSUME NEW r \in Request, NEW a \in Msg, RouteToAsk(r, a) PROVE HandInv'
  BY <1>9, Appending DEF RouteToAsk
<1>10. ASSUME NEW r \in Request, NotRouted(r) PROVE HandInv'
  BY <1>10, SameLog DEF NotRouted
<1>11. ASSUME NEW r \in Request, WaitStep(r) PROVE HandInv'
  BY <1>11, SameLog DEF WaitStep, StartWait, Take, Reply, TakeNothing, EndWait,
     TickWait, ExpireWait
<1>12. ASSUME NEW r \in Request, MarkDelivered(r) PROVE HandInv'
  <2>1. batch[r] \cap Delivered = {} /\ Delivered \subseteq Delivered'
    BY <1>12, Marking, Disjoint
  <2>2. UNCHANGED <<batch, surfaced>> /\ \A q \in Request \ {r} : pc'[q] = pc[q]
    BY <1>12 DEF MarkDelivered
  <2>3. \A q \in Request : pc'[q] = "replying" => q = r \/ pc[q] = "replying"
    BY <2>2
  <2>4. \A q \in Request \ {r} : pc[q] = "replying" => batch[q] \cap batch[r] = {}
    BY <2>1
  <2>. QED
    BY ONLY HandInv, <2>1, <2>2, <2>3, <2>4 DEF HandInv
<1>13. ASSUME NEW r \in Request, PollStep(r) PROVE HandInv'
  BY <1>13, SameLog DEF PollStep, StartPoll, Look, ExpirePoll, NoticeHangup,
     ReplyToPoll, Unregister
<1>. QED
  BY ONLY Kinds, [Next]_vars, <1>1, <1>2, <1>3, <1>4, <1>5, <1>6, <1>7, <1>8, <1>9,
     <1>10, <1>11, <1>12, <1>13

LEMMA RouteStep == TypeOK /\ LockInv /\ AskInv /\ SiftInv /\ BatchInv /\ RoutedWasDelivered /\
   [Next]_vars => RoutedWasDelivered'
<1> SUFFICES ASSUME TypeOK, LockInv, AskInv, SiftInv, BatchInv, RoutedWasDelivered, [Next]_vars
   PROVE RoutedWasDelivered'
  OBVIOUS
<1> USE DEF handlers, history, RoutedWasDelivered
<1>1. CASE UNCHANGED vars
  BY <1>1, SameLog DEF vars
<1>2. CASE CreateWithID \/ Restart
  BY <1>2, SameLog DEF CreateWithID, Restart
<1>3. ASSUME NEW m \in Msg, NEW kind \in {"note", "ask"}, PostMessage(m, kind) PROVE RoutedWasDelivered'
  BY <1>3, Posting DEF PostMessage
<1>4. ASSUME NEW r \in Request, Hangup(r) PROVE RoutedWasDelivered'
  BY <1>4, SameLog DEF Hangup
<1>5. ASSUME NEW r \in Request, NEW a \in Msg, StartAnswer(r, a) PROVE RoutedWasDelivered'
  BY <1>5, SameLog DEF StartAnswer
<1>6. ASSUME NEW r \in Request, FinishAnswer(r) PROVE RoutedWasDelivered'
  BY <1>6, Appending, QueriesTyped DEF FinishAnswer, AskInv
<1>7. ASSUME NEW r \in Request, StartFollowup(r) PROVE RoutedWasDelivered'
  BY <1>7, SameLog DEF StartFollowup
<1>8. ASSUME NEW r \in Request, NEW a \in Msg, SiftAsk(r, a) PROVE RoutedWasDelivered'
  BY <1>8, SameLog DEF SiftAsk
<1>9. ASSUME NEW r \in Request, NEW a \in Msg, RouteToAsk(r, a) PROVE RoutedWasDelivered'
  BY <1>9, Appending, QueriesTyped DEF RouteToAsk, SiftInv
<1>10. ASSUME NEW r \in Request, NotRouted(r) PROVE RoutedWasDelivered'
  BY <1>10, SameLog DEF NotRouted
<1>11. ASSUME NEW r \in Request, WaitStep(r) PROVE RoutedWasDelivered'
  BY <1>11, SameLog DEF WaitStep, StartWait, Take, Reply, TakeNothing, EndWait,
     TickWait, ExpireWait
<1>12. ASSUME NEW r \in Request, MarkDelivered(r) PROVE RoutedWasDelivered'
  BY <1>12, Marking DEF MarkDelivered
<1>13. ASSUME NEW r \in Request, PollStep(r) PROVE RoutedWasDelivered'
  BY <1>13, SameLog DEF PollStep, StartPoll, Look, ExpirePoll, NoticeHangup,
     ReplyToPoll, Unregister
<1>. QED
  BY ONLY Kinds, [Next]_vars, <1>1, <1>2, <1>3, <1>4, <1>5, <1>6, <1>7, <1>8, <1>9,
     <1>10, <1>11, <1>12, <1>13

LEMMA OneStep == TypeOK /\ LockInv /\ AskInv /\ SiftInv /\ BatchInv /\ OneAnswerPerAsk
   /\ [Next]_vars => OneAnswerPerAsk'
<1> SUFFICES ASSUME TypeOK, LockInv, AskInv, SiftInv, BatchInv, OneAnswerPerAsk,
   [Next]_vars PROVE OneAnswerPerAsk'
  OBVIOUS
<1> USE DEF handlers, history, OneAnswerPerAsk
<1>1. CASE UNCHANGED vars
  BY <1>1, SameLog DEF vars
<1>2. CASE CreateWithID \/ Restart
  BY <1>2, SameLog DEF CreateWithID, Restart
<1>3. ASSUME NEW m \in Msg, NEW kind \in {"note", "ask"}, PostMessage(m, kind) PROVE OneAnswerPerAsk'
  BY <1>3, Posting DEF PostMessage
<1>4. ASSUME NEW r \in Request, Hangup(r) PROVE OneAnswerPerAsk'
  BY <1>4, SameLog DEF Hangup
<1>5. ASSUME NEW r \in Request, NEW a \in Msg, StartAnswer(r, a) PROVE OneAnswerPerAsk'
  BY <1>5, SameLog DEF StartAnswer
<1>6. ASSUME NEW r \in Request, FinishAnswer(r) PROVE OneAnswerPerAsk'
  <2>1. about[r] \in Msg /\ ~Answered(about[r])
    BY <1>6, QueriesTyped DEF FinishAnswer, AskInv, UnansweredAsks
  <2>. QED
    BY <1>6, <2>1, Appending DEF FinishAnswer, Answered
<1>7. ASSUME NEW r \in Request, StartFollowup(r) PROVE OneAnswerPerAsk'
  BY <1>7, SameLog DEF StartFollowup
<1>8. ASSUME NEW r \in Request, NEW a \in Msg, SiftAsk(r, a) PROVE OneAnswerPerAsk'
  BY <1>8, SameLog DEF SiftAsk
<1>9. ASSUME NEW r \in Request, NEW a \in Msg, RouteToAsk(r, a) PROVE OneAnswerPerAsk'
  BY <1>9, Appending DEF RouteToAsk, Answered
<1>10. ASSUME NEW r \in Request, NotRouted(r) PROVE OneAnswerPerAsk'
  BY <1>10, SameLog DEF NotRouted
<1>11. ASSUME NEW r \in Request, WaitStep(r) PROVE OneAnswerPerAsk'
  BY <1>11, SameLog DEF WaitStep, StartWait, Take, Reply, TakeNothing, EndWait,
     TickWait, ExpireWait
<1>12. ASSUME NEW r \in Request, MarkDelivered(r) PROVE OneAnswerPerAsk'
  BY <1>12, Marking DEF MarkDelivered
<1>13. ASSUME NEW r \in Request, PollStep(r) PROVE OneAnswerPerAsk'
  BY <1>13, SameLog DEF PollStep, StartPoll, Look, ExpirePoll, NoticeHangup,
     ReplyToPoll, Unregister
<1>. QED
  BY ONLY Kinds, [Next]_vars, <1>1, <1>2, <1>3, <1>4, <1>5, <1>6, <1>7, <1>8, <1>9,
     <1>10, <1>11, <1>12, <1>13

-----------------------------------------------------------------------------
(* The theorems                                                            *)

LEMMA InvInit == Init => IInv
<1> SUFFICES ASSUME Init PROVE IInv
  OBVIOUS
<1>1. Posted = {}
  BY DEF Init, Posted
<1>2. /\ recorded \in BOOLEAN
      /\ log \in [Msg -> Entry \cup {NoEntry}]
      /\ messageMu \in Request \cup {Nobody}
  BY DEF Init
<1>3. pc \in [Request -> Place] /\ \A r \in Request : pc[r] = "idle" /\ batch[r] = {}
  BY DEF Init, Place
<1>4. /\ about \in [Request -> Msg \cup {NoMsg}]
      /\ batch \in [Request -> SUBSET Msg]
      /\ todo \in [Request -> SUBSET Msg]
      /\ client \in [Request -> BOOLEAN]
      /\ waiters \in [Msg -> Nat]
  BY DEF Init
<1>5. TypeOK
  BY <1>2, <1>3, <1>4 DEF Init, TypeOK
<1>6. LockInv
  BY <1>3 DEF Init, LockInv, Locked
<1>7. AskInv /\ SiftInv /\ BatchInv /\ HandInv
  BY <1>3 DEF Init, AskInv, SiftInv, BatchInv, HandInv, Registered
<1>8. RoutedWasDelivered /\ OneAnswerPerAsk
  BY <1>1 DEF Init, RoutedWasDelivered, OneAnswerPerAsk
<1>. QED
  BY <1>5, <1>6, <1>7, <1>8 DEF IInv

LEMMA InvStep == IInv /\ [Next]_vars => IInv'
BY TypeStep, LockStep, AskStep, SiftStep, BatchStep, HandStep, RouteStep, OneStep DEF IInv

LEMMA Invariance == Spec => []IInv
<1>. QED
  BY InvInit, InvStep, PTL DEF Spec

(* The state of handlers, log and waiters is well typed.                   *)
THEOREM TypeCorrect == Spec => []TypeOK
<1>1. IInv => TypeOK
  BY DEF IInv
<1>. QED
  BY <1>1, Invariance, PTL

(* However answers and follow-ups race, an ask gets at most one answer.    *)
THEOREM OneAnswerCorrect == Spec => []OneAnswerPerAsk
<1>1. IInv => OneAnswerPerAsk
  BY DEF IInv
<1>. QED
  BY <1>1, Invariance, PTL

(* A follow-up answers only asks that a wait has taken.                    *)
THEOREM RoutingCorrect == Spec => []RoutedWasDelivered
<1>1. IInv => RoutedWasDelivered
  BY DEF IInv
<1>. QED
  BY <1>1, Invariance, PTL

(* No message is handed to two waits.                                      *)
THEOREM HandedOnceCorrect == Spec => []HandedOnce
<1>1. ASSUME IInv, NEW r \in Request
      PROVE  /\ Handing(r) \cap surfaced = {}
             /\ \A q \in Request \ {r} : Handing(q) \cap Handing(r) = {}
  <2>1. \A q \in Request : pc[q] = "marking" => Handing(q) \cap Delivered = {}
    BY <1>1, Disjoint DEF IInv, BatchInv, Handing
  <2>2. \A q \in Request : pc[q] # "marking" => Handing(q) \subseteq Delivered
    BY <1>1 DEF IInv, BatchInv, Handing
  <2>3. \A q \in Request : pc[q] = "marking" /\ pc[r] = "marking" => q = r
    BY <1>1 DEF IInv, LockInv, Locked
  <2>4. \A q \in Request \ {r} :
          pc[q] # "marking" /\ pc[r] # "marking" => Handing(q) \cap Handing(r) = {}
    BY <1>1 DEF IInv, HandInv, Handing
  <2>5. Handing(r) \cap surfaced = {}
    BY <1>1, <2>1 DEF IInv, HandInv, Handing
  <2>. QED
    BY <2>1, <2>2, <2>3, <2>4, <2>5
<1>2. IInv => HandedOnce
  BY <1>1 DEF HandedOnce
<1>. QED
  BY <1>2, Invariance, PTL

-----------------------------------------------------------------------------
(* The reference counts                                                    *)

LEMMA PollersFinite == \A a : IsFiniteSet(Pollers(a)) /\ Cardinality(Pollers(a)) \in Nat
BY FS_Subset, FS_CardinalityType DEF Pollers

(* Only the start and the end of a poll change who is registered.          *)
LEMMA PollersStep ==
  ASSUME TypeOK, [Next]_vars
  PROVE  \/ waiters' = waiters /\ \A a \in Msg : Pollers(a)' = Pollers(a)
         \/ Restart
         \/ \E r \in Request : Unregister(r) \/ \E a \in Msg : StartPoll(r, a)
<1> USE DEF Goes, Ends, handlers, history, Pollers, Registered, TypeOK
<1>1. CASE UNCHANGED vars
  BY <1>1 DEF vars
<1>2. CASE CreateWithID
  BY <1>2 DEF CreateWithID
<1>3. ASSUME NEW m \in Msg, NEW kind \in {"note", "ask"}, PostMessage(m, kind)
      PROVE  waiters' = waiters /\ \A a \in Msg : Pollers(a)' = Pollers(a)
  BY <1>3 DEF PostMessage
<1>4. ASSUME NEW r \in Request, NEW a \in Msg, StartAnswer(r, a) \/ SiftAsk(r, a) \/ RouteToAsk(r, a)
      PROVE  waiters' = waiters /\ \A b \in Msg : Pollers(b)' = Pollers(b)
  BY <1>4 DEF StartAnswer, SiftAsk, RouteToAsk
<1>5. ASSUME NEW r \in Request, Hangup(r) \/ FinishAnswer(r) \/ StartFollowup(r) \/ NotRouted(r)
      PROVE  waiters' = waiters /\ \A b \in Msg : Pollers(b)' = Pollers(b)
  BY <1>5 DEF Hangup, FinishAnswer, StartFollowup, NotRouted
<1>6. ASSUME NEW r \in Request, WaitStep(r) \/ MarkDelivered(r)
      PROVE  waiters' = waiters /\ \A b \in Msg : Pollers(b)' = Pollers(b)
  BY <1>6 DEF WaitStep, MarkDelivered, StartWait, Take, Reply, TakeNothing, EndWait, TickWait, ExpireWait
<1>7. ASSUME NEW r \in Request, Look(r) \/ ExpirePoll(r) \/ NoticeHangup(r) \/ ReplyToPoll(r)
      PROVE  waiters' = waiters /\ \A b \in Msg : Pollers(b)' = Pollers(b)
  BY <1>7 DEF Look, ExpirePoll, NoticeHangup, ReplyToPoll
<1>. QED
  BY ONLY Kinds, [Next]_vars, <1>1, <1>2, <1>3, <1>4, <1>5, <1>6, <1>7 DEF PollStep

(* The waiters of an ask are the polls registered for it.                  *)
THEOREM WaitersCorrect == Spec => []WaitersCounted
<1>1. Init => WaitersCounted
  BY FS_EmptySet DEF Init, WaitersCounted, Pollers, Registered
<1>2. ASSUME IInv, WaitersCounted, [Next]_vars PROVE WaitersCounted'
  <2>1. TypeOK /\ AskInv
    BY <1>2 DEF IInv
  <2>2. CASE waiters' = waiters /\ \A a \in Msg : Pollers(a)' = Pollers(a)
    BY <1>2, <2>2 DEF WaitersCounted
  <2>3. CASE Restart
    <3>1. \A a \in Msg : waiters'[a] = 0 /\ Pollers(a)' = {}
      BY <2>3 DEF Restart, Pollers, Registered
    <3>. QED
      BY <3>1, FS_EmptySet DEF WaitersCounted
  <2>4. ASSUME NEW r \in Request, NEW a \in Msg, StartPoll(r, a) PROVE WaitersCounted'
    <3>1. /\ r \notin Pollers(a) /\ Pollers(a)' = Pollers(a) \cup {r}
          /\ \A b \in Msg \ {a} : Pollers(b)' = Pollers(b)
      BY <2>1, <2>4 DEF StartPoll, Goes, Pollers, Registered, TypeOK
    <3>2. waiters' = [waiters EXCEPT ![a] = @ + 1]
      BY <2>4 DEF StartPoll
    <3>3. Cardinality(Pollers(a)') = Cardinality(Pollers(a)) + 1
      BY <3>1, PollersFinite, FS_AddElement
    <3>. QED
      BY <1>2, <2>1, <3>1, <3>2, <3>3 DEF WaitersCounted, TypeOK
  <2>5. ASSUME NEW r \in Request, Unregister(r) PROVE WaitersCounted'
    <3>1. PICK a \in Msg : about[r] = a /\ r \in Pollers(a)
      BY <2>1, <2>5, QueriesTyped DEF Unregister, AskInv, Registered, Pollers
    <3>2. /\ Pollers(a)' = Pollers(a) \ {r}
          /\ \A b \in Msg \ {a} : Pollers(b)' = Pollers(b)
      <4>1. pc[r] \in Registered /\ pc'[r] = "idle"
        BY <2>1, <2>5 DEF Unregister, Ends, Registered, TypeOK
      <4>2. \A q \in Request \ {r} : pc'[q] = pc[q] /\ about'[q] = about[q]
        BY <2>1, <2>5 DEF Unregister, Ends, TypeOK
      <4>3. "idle" \notin Registered
        BY DEF Registered
      <4>4. Pollers(a)' = Pollers(a) \ {r}
        BY <4>1, <4>2, <4>3 DEF Pollers
      <4>5. \A b \in Msg \ {a} : Pollers(b)' = Pollers(b)
        BY <3>1, <4>1, <4>2, <4>3 DEF Pollers
      <4>. QED
        BY <4>4, <4>5
    <3>3. waiters' = [waiters EXCEPT ![a] = IF @ <= 1 THEN 0 ELSE @ - 1]
      BY <2>5, <3>1 DEF Unregister
    <3>4. Cardinality(Pollers(a)') = Cardinality(Pollers(a)) - 1
      BY <3>1, <3>2, PollersFinite, FS_RemoveElement
    <3>5. Cardinality(Pollers(a)') \in Nat
      BY <3>2, PollersFinite, FS_RemoveElement, FS_CardinalityType
    <3>6. \A b \in Msg \ {a} : waiters'[b] = Cardinality(Pollers(b)')
      BY <1>2, <2>1, <3>2, <3>3 DEF WaitersCounted, TypeOK
    <3>7. waiters'[a] = Cardinality(Pollers(a)')
      BY <1>2, <2>1, <3>3, <3>4, <3>5, PollersFinite DEF WaitersCounted, TypeOK
    <3>. QED
      BY <3>6, <3>7 DEF WaitersCounted
  <2>. QED
    BY ONLY <1>2, <2>1, <2>2, <2>3, <2>4, <2>5, PollersStep
<1>. QED
  BY <1>1, <1>2, Invariance, PTL DEF Spec

-----------------------------------------------------------------------------
(* The deadline of a poll                                                  *)

(* A poll times out only by its own deadline, which looks at the log once  *)
(* more (handleDelegationAnswer).                                          *)
LEMMA DeadlineStep ==
  ASSUME TypeOK, [Next]_vars, NEW r \in Request, pc[r] = "polling", pc'[r] = "timedOut"
  PROVE  ~Answered(about[r])
<1> USE DEF Goes, Ends, TypeOK
<1>1. CASE UNCHANGED vars \/ CreateWithID \/ Restart
  BY <1>1 DEF vars, handlers, CreateWithID, Restart
<1>2. ASSUME NEW m \in Msg, NEW kind \in {"note", "ask"}, PostMessage(m, kind)
      PROVE  ~Answered(about[r])
  BY <1>2 DEF PostMessage, handlers
<1>3. ASSUME NEW q \in Request, NEW a \in Msg, StartAnswer(q, a) \/ SiftAsk(q, a) \/ RouteToAsk(q, a)
      PROVE  ~Answered(about[r])
  BY <1>3 DEF StartAnswer, SiftAsk, RouteToAsk
<1>4. ASSUME NEW q \in Request, Hangup(q) \/ FinishAnswer(q) \/ StartFollowup(q) \/ NotRouted(q)
      PROVE  ~Answered(about[r])
  BY <1>4 DEF Hangup, FinishAnswer, StartFollowup, NotRouted
<1>5. ASSUME NEW q \in Request, WaitStep(q) \/ MarkDelivered(q)
      PROVE  ~Answered(about[r])
  BY <1>5 DEF WaitStep, MarkDelivered, StartWait, Take, Reply, TakeNothing, EndWait, TickWait, ExpireWait
<1>6. ASSUME NEW q \in Request, PollStep(q) PROVE ~Answered(about[r])
  <2>1. CASE ExpirePoll(q)
    <3>1. pc' = [pc EXCEPT ![q] = IF Answered(about[q]) THEN "answered" ELSE "timedOut"]
      BY <2>1 DEF ExpirePoll
    <3>2. q = r
      BY <3>1
    <3>. QED
      BY <3>1, <3>2
  <2>2. ASSUME NEW a \in Msg, StartPoll(q, a) PROVE FALSE
    BY <2>2 DEF StartPoll
  <2>3. CASE Look(q) \/ NoticeHangup(q) \/ ReplyToPoll(q) \/ Unregister(q)
    BY <2>3 DEF Look, NoticeHangup, ReplyToPoll, Unregister
  <2>. QED
    BY ONLY <1>6, <2>1, <2>2, <2>3 DEF PollStep
<1>. QED
  BY ONLY Kinds, [Next]_vars, <1>1, <1>2, <1>3, <1>4, <1>5, <1>6

(* An answer that is in the log before the deadline of a poll is what the  *)
(* poll returns (handleDelegationAnswer).                                  *)
THEOREM DeadlineCorrect == Spec => AnswerBeatsDeadline
<1>1. TypeOK /\ [Next]_vars =>
        [\A r \in Request : pc[r] = "polling" /\ Answered(about[r]) => pc'[r] # "timedOut"]_vars
  BY DeadlineStep
<1>. QED
  BY <1>1, TypeCorrect, PTL DEF Spec, AnswerBeatsDeadline

-----------------------------------------------------------------------------
(* The log implements the mailbox                                          *)

LEMMA SameMail == log' = log => Box' = Box /\ Answers' = Answers
BY SameLog DEF Box, Answers

LEMMA MailInit == Init => MB!Init
BY DEF Init, MB!Init, Box, Answers, Posted, Delivered, UndeliveredFromDelegate

LEMMA PostMail ==
  ASSUME TypeOK, NEW m \in Msg, NEW kind \in {"note", "ask"}, PostMessage(m, kind)
  PROVE  MB!Post(m)
<1>1. /\ m \notin Posted /\ Posted' = Posted \cup {m}
      /\ log'[m].kind # "answer" /\ ~log'[m].delivered
      /\ \A n \in Posted : log'[n] = log[n]
  <2>1. log' = [log EXCEPT ![m] = [kind |-> kind, replyTo |-> NoMsg, delivered |-> FALSE]]
    BY DEF PostMessage
  <2>2. [kind |-> kind, replyTo |-> NoMsg, delivered |-> FALSE] \in Entry
    BY DEF Entry
  <2>3. [kind |-> kind, replyTo |-> NoMsg, delivered |-> FALSE] # NoEntry
    BY <2>2, EntryAssumption
  <2>4. /\ log[m] = NoEntry /\ log'[m] = [kind |-> kind, replyTo |-> NoMsg, delivered |-> FALSE]
        /\ \A n \in Msg \ {m} : log'[n] = log[n]
    BY <2>1 DEF PostMessage, TypeOK
  <2>. QED
    BY <2>3, <2>4 DEF Posted
<1>2. /\ Delivered' = Delivered
      /\ UndeliveredFromDelegate' = UndeliveredFromDelegate \cup {m}
  BY <1>1 DEF Delivered, UndeliveredFromDelegate
<1>3. Answers' = Answers
  BY <1>1 DEF Answers
<1>. QED
  BY <1>1, <1>2, <1>3, QueriesTyped DEF MB!Post, Box

LEMMA AnswerMail ==
  ASSUME TypeOK, NEW m \in Msg, NEW a \in UnansweredAsks, AppendAnswer(m, a)
  PROVE  MB!Answer(a, m)
<1>1. a \in Msg
  BY QueriesTyped
<1>2. /\ Posted' = Posted \cup {m} /\ m \notin Posted
      /\ log'[m].kind = "answer" /\ log'[m].replyTo = a
      /\ \A n \in Posted : log'[n] = log[n]
      /\ UndeliveredFromDelegate' = UndeliveredFromDelegate /\ Delivered' = Delivered
  BY <1>1, Appending
<1>3. Answers' = Answers \cup {<<a, m>>}
  BY <1>2 DEF Answers
<1>4. a \in Delivered \cup UndeliveredFromDelegate
  BY DEF UnansweredAsks, Asks, Delivered, UndeliveredFromDelegate
<1>5. \A p \in Answers : p[1] # a
  BY DEF Answers, UnansweredAsks, Answered
<1>. QED
  BY <1>1, <1>2, <1>3, <1>4, <1>5 DEF MB!Answer, Box

LEMMA MarkMail ==
  ASSUME TypeOK, BatchInv, NEW r \in Request, MarkDelivered(r)
  PROVE  MB!HandOver
<1>1. /\ Posted' = Posted
      /\ \A m \in Posted : log'[m].kind = log[m].kind /\ log'[m].replyTo = log[m].replyTo
      /\ Delivered' = Delivered \cup UndeliveredFromDelegate
  BY Marking
<1>2. UndeliveredFromDelegate' = {}
  BY <1>1 DEF Delivered, UndeliveredFromDelegate
<1>3. Answers' = Answers
  BY <1>1 DEF Answers
<1>. QED
  BY <1>1, <1>2, <1>3, Disjoint DEF MB!HandOver, Box

(* Every behaviour of the handlers is one of the abstract mailbox.         *)
THEOREM MailboxCorrect == Spec => ImplementsMailbox
<1>1. ASSUME IInv, [Next]_vars PROVE [MB!Next]_<<Box, Answers>>
  <2>1. CASE log' = log
    BY <2>1, SameMail
  <2>2. ASSUME NEW m \in Msg, NEW kind \in {"note", "ask"}, PostMessage(m, kind) PROVE MB!Next
    BY <1>1, <2>2, PostMail DEF IInv, MB!Next
  <2>3. ASSUME NEW r \in Request, FinishAnswer(r) PROVE MB!Next
    <3>1. about[r] \in UnansweredAsks /\ about[r] \in Msg
      BY <1>1, <2>3, QueriesTyped DEF IInv, AskInv, FinishAnswer
    <3>2. PICK m \in Msg : AppendAnswer(m, about[r])
      BY <2>3 DEF FinishAnswer
    <3>. QED
      BY <1>1, <3>1, <3>2, AnswerMail DEF IInv, MB!Next
  <2>4. ASSUME NEW r \in Request, NEW a \in Msg, RouteToAsk(r, a) PROVE MB!Next
    <3>1. a \in UnansweredAsks
      BY <1>1, <2>4 DEF IInv, SiftInv, RouteToAsk
    <3>2. PICK m \in Msg : AppendAnswer(m, a)
      BY <2>4 DEF RouteToAsk
    <3>. QED
      BY <1>1, <3>1, <3>2, AnswerMail DEF IInv, MB!Next
  <2>5. ASSUME NEW r \in Request, MarkDelivered(r) PROVE MB!Next
    BY <1>1, <2>5, MarkMail DEF IInv, MB!Next
  <2>6. \/ log' = log
        \/ \E m \in Msg, kind \in {"note", "ask"} : PostMessage(m, kind)
        \/ \E r \in Request :
             FinishAnswer(r) \/ MarkDelivered(r) \/ \E a \in Msg : RouteToAsk(r, a)
    <3>1. ASSUME NEW r \in Request,
                 Hangup(r) \/ StartFollowup(r) \/ NotRouted(r) \/ WaitStep(r) \/ PollStep(r)
          PROVE  log' = log
      BY <3>1 DEF Hangup, StartFollowup, NotRouted, WaitStep, StartWait, Take, Reply,
                  TakeNothing, EndWait, TickWait, ExpireWait, PollStep, StartPoll, Look,
                  ExpirePoll, NoticeHangup, ReplyToPoll, Unregister
    <3>2. ASSUME NEW r \in Request, NEW a \in Msg, StartAnswer(r, a) \/ SiftAsk(r, a)
          PROVE  log' = log
      BY <3>2 DEF StartAnswer, SiftAsk
    <3>3. UNCHANGED vars \/ CreateWithID \/ Restart => log' = log
      BY DEF vars, CreateWithID, Restart
    <3>. QED
      BY ONLY <1>1, <3>1, <3>2, <3>3, Kinds
  <2>. QED
    BY ONLY <2>1, <2>2, <2>3, <2>4, <2>5, <2>6
<1>. QED
  BY <1>1, MailInit, Invariance, PTL DEF Spec, ImplementsMailbox, MB!Spec
=============================================================================
