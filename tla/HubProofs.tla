------------------------------ MODULE HubProofs ------------------------------
(***************************************************************************)
(* For any sidebars, pollers and states: the type of the hub's state, and  *)
(* that a sidebar which reads shows the last broadcast or its greeting.    *)
(*                                                                         *)
(* AgreeOrGreeted says nothing of a client outside the map, and such a     *)
(* client may enter it; the strengthening is that a connection which has   *)
(* no handler shows nothing yet, and that a client without a connection    *)
(* has no handler.                                                         *)
(***************************************************************************)
EXTENDS Hub, TLAPS

(* No connection, no handler; no handler, nothing shown.                   *)
NothingLeft ==
  \A c \in Client : /\ conn[c] = "none" => loop[c] = "none"
                    /\ loop[c] = "none" => view[c] = NoState

IInv == TypeOK /\ NothingLeft /\ AgreeOrGreeted

-----------------------------------------------------------------------------
(* What the steps share                                                    *)

(* A refused write is one of the writes that were tried.                   *)
LEMMA RefusalsTried ==
  ASSUME NEW C \in SUBSET Client, NEW F \in Refusals(C)
  PROVE  F \subseteq C
  BY DEF Refusals

(* What the world becomes is a state, and the bound on changes holds.      *)
LEMMA ChangesType ==
  ASSUME TypeOK, Changes \/ UNCHANGED <<world, changes>>
  PROVE  world' \in State /\ changes' \in 0 .. MaxChanges
  BY AgeAssumption DEF TypeOK, Changes

(* An encoded snapshot is one of the world, and new.                       *)
LEMMA EncodeType ==
  ASSUME world' \in State, Encode
  PROVE  snapshot' \in [state : State \cup {NoState}, age : 0 .. MaxAge]
  BY AgeAssumption DEF Encode

(* The sockets after a broadcast: whoever is left in the map and reads has *)
(* received what was sent, and nobody outside it has received anything.    *)
LEMMA BroadcastSockets ==
  ASSUME IInv, world' \in State, Broadcast
  PROVE  /\ lastState' \in State \cup {NoState}
         /\ snapshot' \in [state : State \cup {NoState}, age : 0 .. MaxAge]
         /\ clients' \subseteq {c \in Client : loop'[c] # "none"}
         /\ conn' \in [Client -> {"none", "open", "closed"}]
         /\ peer' \in [Client -> {"reading", "away"}]
         /\ loop' \in [Client -> {"none", "greeting", "reading"}]
         /\ greeting' \in [Client -> State \cup {NoState}]
         /\ view' \in [Client -> State \cup {NoState}]
         /\ NothingLeft' /\ AgreeOrGreeted'
<1>1. PICK F \in Refusals(clients) :
        Close(F) /\ clients' = clients \ F /\ Receive(clients \ F, world')
  BY DEF Broadcast, SendAll
<1>2. lastState' = world' /\ UNCHANGED <<peer, loop, greeting>>
  BY DEF Broadcast, SendAll
<1>3. snapshot' \in [state : State \cup {NoState}, age : 0 .. MaxAge]
  BY EncodeType DEF Broadcast
<1>4. clients \subseteq Client
  BY DEF IInv, TypeOK
<1>5. F \subseteq clients
  BY <1>1, <1>4, RefusalsTried
<1>6. clients' \subseteq {c \in Client : loop'[c] # "none"}
  BY <1>1, <1>2 DEF IInv, TypeOK
<1>7. conn' \in [Client -> {"none", "open", "closed"}]
  BY <1>1 DEF Close, IInv, TypeOK
<1>8. view' \in [Client -> State \cup {NoState}]
  BY <1>1 DEF Receive, IInv, TypeOK
<1>9. NothingLeft'
  <2> SUFFICES ASSUME NEW c \in Client
               PROVE  /\ conn'[c] = "none" => loop'[c] = "none"
                      /\ loop'[c] = "none" => view'[c] = NoState
    BY DEF NothingLeft
  <2>1. conn'[c] = "none" => conn[c] = "none"
    BY <1>1 DEF Close
  <2>2. loop[c] = "none" => view'[c] = view[c]
    BY <1>1 DEF Receive, IInv, TypeOK
  <2> QED
    BY <1>2, <2>1, <2>2 DEF IInv, NothingLeft
<1>10. AgreeOrGreeted'
  <2> SUFFICES ASSUME NEW c \in clients', peer'[c] = "reading"
               PROVE  view'[c] = lastState'
    BY DEF AgreeOrGreeted
  <2> QED
    BY <1>1, <1>2, <1>4 DEF Receive
<1> QED
  BY <1>2, <1>3, <1>6, <1>7, <1>8, <1>9, <1>10 DEF IInv, TypeOK

(* A step that broadcasts, when the world it encodes is a state.           *)
LEMMA BroadcastKeeps ==
  ASSUME IInv, Broadcast, Changes \/ UNCHANGED <<world, changes>>,
         timer' \in BOOLEAN, UNCHANGED poll
  PROVE  IInv'
<1>1. world' \in State /\ changes' \in 0 .. MaxChanges
  BY ChangesType DEF IInv
<1>2. TypeOK'
  BY <1>1, BroadcastSockets DEF IInv, TypeOK
<1> QED
  BY <1>1, <1>2, BroadcastSockets DEF IInv

(* A frame without a state closes connections and does nothing else.       *)
LEMMA WriteOtherKeeps ==
  ASSUME IInv, NEW C \in SUBSET Client, WriteOther(C),
         UNCHANGED <<world, changes, server, poll>>
  PROVE  IInv'
<1>1. PICK F \in Refusals(C) : Close(F)
  BY DEF WriteOther
<1>2. UNCHANGED <<clients, peer, loop, greeting, view>>
  BY DEF WriteOther
<1>3. TypeOK'
  BY <1>1, <1>2 DEF Close, IInv, TypeOK, server
<1>4. NothingLeft'
  BY <1>1, <1>2 DEF Close, IInv, NothingLeft
<1>5. AgreeOrGreeted'
  BY <1>2 DEF IInv, AgreeOrGreeted, server
<1> QED
  BY <1>3, <1>4, <1>5 DEF IInv

(* A step that leaves the sockets and the last broadcast alone.            *)
LEMMA SocketsUntouched ==
  ASSUME IInv, UNCHANGED <<sockets, lastState>>,
         world' \in State, changes' \in 0 .. MaxChanges,
         snapshot' \in [state : State \cup {NoState}, age : 0 .. MaxAge],
         timer' \in BOOLEAN, poll' \in [Poller -> {"idle", "queued", "cancelled"}]
  PROVE  IInv'
<1>1. UNCHANGED <<clients, conn, peer, loop, greeting, view, lastState>>
  BY DEF sockets
<1>2. TypeOK'
  BY <1>1 DEF IInv, TypeOK
<1>3. NothingLeft' /\ AgreeOrGreeted'
  BY <1>1 DEF IInv, NothingLeft, AgreeOrGreeted
<1> QED
  BY <1>2, <1>3 DEF IInv
-----------------------------------------------------------------------------

LEMMA InitEstablishes == Init => IInv
<1> SUFFICES ASSUME Init PROVE IInv
  OBVIOUS
<1>1. changes \in 0 .. MaxChanges /\ snapshot \in [state : State \cup {NoState}, age : 0 .. MaxAge]
  BY AgeAssumption DEF Init
<1>2. TypeOK
  BY <1>1 DEF Init, TypeOK
<1>3. NothingLeft /\ AgreeOrGreeted
  BY DEF Init, NothingLeft, AgreeOrGreeted
<1> QED
  BY <1>2, <1>3 DEF IInv

(* A new connection: its client is in no map yet and has been shown        *)
(* nothing.                                                                *)
LEMMA ConnectKeeps ==
  ASSUME IInv, NEW c \in Client, Connect(c)
  PROVE  IInv'
<1>1. /\ conn[c] = "none" /\ conn' = [conn EXCEPT ![c] = "open"]
      /\ clients' = clients \cup {c}
      /\ greeting' = [greeting EXCEPT ![c] = world]
      /\ loop' = [loop EXCEPT ![c] = "greeting"]
      /\ UNCHANGED <<world, changes, lastState, timer, peer, view, poll>>
  BY DEF Connect, Upgrade, Greet
<1>2. snapshot' \in [state : State \cup {NoState}, age : 0 .. MaxAge]
  BY <1>1, EncodeType DEF Connect, Greet, IInv, TypeOK
<1>3. view[c] = NoState
  BY <1>1 DEF IInv, NothingLeft
<1>4. TypeOK'
  BY <1>1, <1>2 DEF IInv, TypeOK
<1>5. NothingLeft'
  BY <1>1 DEF IInv, TypeOK, NothingLeft
<1>6. AgreeOrGreeted'
  BY <1>1, <1>3 DEF IInv, TypeOK, AgreeOrGreeted
<1> QED
  BY <1>4, <1>5, <1>6 DEF IInv

(* The initial state reaches its client, or the connection is closed.      *)
LEMMA WriteInitialKeeps ==
  ASSUME IInv, NEW c \in Client, WriteInitial(c)
  PROVE  IInv'
<1>1. PICK F \in Refusals({c}) : Close(F) /\ Receive({c} \ F, greeting[c])
  BY DEF WriteInitial
<1>2. /\ loop[c] = "greeting" /\ loop' = [loop EXCEPT ![c] = "reading"]
      /\ UNCHANGED <<world, changes, lastState, snapshot, timer, clients, peer, greeting, poll>>
  BY DEF WriteInitial, server
<1>3. conn[c] # "none"
  BY <1>2 DEF IInv, NothingLeft
<1>4. TypeOK'
  BY <1>1, <1>2 DEF Close, Receive, IInv, TypeOK
<1>5. NothingLeft'
  <2> SUFFICES ASSUME NEW d \in Client
               PROVE  /\ conn'[d] = "none" => loop'[d] = "none"
                      /\ loop'[d] = "none" => view'[d] = NoState
    BY DEF NothingLeft
  <2>1. conn'[d] = "none" => conn[d] = "none" /\ d # c
    BY <1>1, <1>3 DEF Close
  <2>2. loop'[d] = "none" => loop[d] = "none" /\ d # c
    BY <1>2 DEF IInv, TypeOK
  <2>3. d # c => loop'[d] = loop[d] /\ view'[d] = view[d]
    BY <1>1, <1>2 DEF Receive, IInv, TypeOK
  <2> QED
    BY <2>1, <2>2, <2>3 DEF IInv, NothingLeft
<1>6. AgreeOrGreeted'
  <2> SUFFICES ASSUME NEW d \in clients, peer[d] = "reading"
               PROVE  view'[d] \in {NoState, lastState, greeting[d]}
    BY <1>2 DEF AgreeOrGreeted
  <2>1. d \in Client
    BY DEF IInv, TypeOK
  <2>2. view'[d] \in {view[d], greeting[d]}
    BY <1>1, <2>1 DEF Receive
  <2> QED
    BY <2>2 DEF IInv, AgreeOrGreeted
<1> QED
  BY <1>4, <1>5, <1>6 DEF IInv

(* A sidebar that hangs is no longer spoken of.                            *)
LEMMA HangKeeps ==
  ASSUME IInv, NEW c \in Client, Hang(c)
  PROVE  IInv'
<1>1. /\ peer' = [peer EXCEPT ![c] = "away"]
      /\ UNCHANGED <<world, changes, lastState, snapshot, timer, clients, conn, loop, greeting, view, poll>>
  BY DEF Hang, server
<1>2. TypeOK'
  BY <1>1 DEF IInv, TypeOK
<1>3. NothingLeft'
  BY <1>1 DEF IInv, NothingLeft
<1>4. AgreeOrGreeted'
  BY <1>1 DEF IInv, TypeOK, AgreeOrGreeted
<1> QED
  BY <1>2, <1>3, <1>4 DEF IInv

(* A read loop that ends takes its client out of the map with everything   *)
(* that was its own.                                                       *)
LEMMA ReadFailsKeeps ==
  ASSUME IInv, NEW c \in Client, ReadFails(c)
  PROVE  IInv'
<1>1. /\ clients' = clients \ {c}
      /\ conn' = [conn EXCEPT ![c] = "none"]
      /\ peer' = [peer EXCEPT ![c] = "reading"]
      /\ loop' = [loop EXCEPT ![c] = "none"]
      /\ greeting' = [greeting EXCEPT ![c] = NoState]
      /\ view' = [view EXCEPT ![c] = NoState]
      /\ UNCHANGED <<world, changes, lastState, snapshot, timer, poll>>
  BY DEF ReadFails, LeaveMap, server
<1>2. TypeOK'
  BY <1>1 DEF IInv, TypeOK
<1>3. NothingLeft'
  BY <1>1 DEF IInv, TypeOK, NothingLeft
<1>4. AgreeOrGreeted'
  BY <1>1 DEF IInv, TypeOK, AgreeOrGreeted
<1> QED
  BY <1>2, <1>3, <1>4 DEF IInv

(* A tick broadcasts what differs from the last state sent; or it encodes, *)
(* and nobody hears of it.                                                 *)
LEMMA TickKeeps ==
  ASSUME IInv, Tick
  PROVE  IInv'
<1>1. CASE ChangedSinceSent
  <2>1. Broadcast /\ UNCHANGED <<world, changes, timer, poll>>
    BY <1>1 DEF Tick
  <2> QED
    BY <2>1, BroadcastKeeps DEF IInv, TypeOK
<1>2. CASE ~ChangedSinceSent
  <2>1. Encode /\ UNCHANGED <<world, changes, lastState, sockets, timer, poll>>
    BY <1>2 DEF Tick
  <2>2. world' \in State /\ changes' \in 0 .. MaxChanges
    BY <2>1 DEF IInv, TypeOK
  <2> QED
    BY <2>1, <2>2, EncodeType, SocketsUntouched DEF IInv, TypeOK
<1> QED
  BY <1>1, <1>2

(* The steps of a poller: the snapshot and its own place in the queue.     *)
LEMMA PollKeeps ==
  ASSUME IInv, NEW p \in Poller, QueuePoll(p) \/ CancelPoll(p) \/ ServePoll(p)
  PROVE  IInv'
<1>1. UNCHANGED <<world, changes, lastState, timer, sockets>>
  BY DEF QueuePoll, CancelPoll, ServePoll, server
<1>2. poll' \in [Poller -> {"idle", "queued", "cancelled"}]
  BY DEF QueuePoll, CancelPoll, ServePoll, IInv, TypeOK
<1>3. Encode \/ UNCHANGED snapshot
  BY DEF QueuePoll, CancelPoll, ServePoll, server
<1>4. snapshot' \in [state : State \cup {NoState}, age : 0 .. MaxAge]
  BY <1>1, <1>3, EncodeType DEF IInv, TypeOK
<1> QED
  BY <1>1, <1>2, <1>4, SocketsUntouched DEF IInv, TypeOK

LEMMA StepKeeps == IInv /\ [Next]_vars => IInv'
<1> SUFFICES ASSUME IInv, [Next]_vars PROVE IInv'
  OBVIOUS
<1>1. CASE ExternalChange
  <2>1. world' \in State /\ changes' \in 0 .. MaxChanges
    BY <1>1, ChangesType DEF ExternalChange, IInv
  <2> QED
    BY <1>1, <2>1, SocketsUntouched DEF ExternalChange, server, IInv, TypeOK
<1>2. CASE WatcherEvent
  <2>1. world' \in State /\ changes' \in 0 .. MaxChanges
    BY <1>2, ChangesType DEF WatcherEvent, IInv
  <2> QED
    BY <1>2, <2>1, SocketsUntouched DEF WatcherEvent, IInv, TypeOK
<1>3. CASE TimerFires
  BY <1>3, BroadcastKeeps DEF TimerFires
<1>4. CASE MutateMetadata
  BY <1>4, BroadcastKeeps DEF MutateMetadata, IInv, TypeOK
<1>5. CASE Refresh
  BY <1>5, BroadcastKeeps DEF Refresh, IInv, TypeOK
<1>6. CASE Tick
  BY <1>6, TickKeeps
<1>7. CASE PaneFocus
  <2>1. clients \in SUBSET Client
    BY DEF IInv, TypeOK
  <2> QED
    BY <1>7, <2>1, WriteOtherKeeps DEF PaneFocus
<1>8. CASE Age
  <2>1. snapshot' \in [state : State \cup {NoState}, age : 0 .. MaxAge]
    BY <1>8, AgeAssumption DEF Age, IInv, TypeOK
  <2> QED
    BY <1>8, <2>1, SocketsUntouched DEF Age, IInv, TypeOK
<1>9. ASSUME NEW c \in Client, Command(c) PROVE IInv'
  BY <1>9, BroadcastKeeps DEF Command, IInv, TypeOK
<1>10. ASSUME NEW c \in Client, Reply(c) PROVE IInv'
  BY <1>10, WriteOtherKeeps DEF Reply
<1>11. CASE UNCHANGED vars
  BY <1>11, SocketsUntouched DEF vars, server, IInv, TypeOK
<1> QED
  BY <1>1, <1>2, <1>3, <1>4, <1>5, <1>6, <1>7, <1>8, <1>9, <1>10, <1>11, ConnectKeeps,
     WriteInitialKeeps, HangKeeps, ReadFailsKeeps, PollKeeps DEF Next

-----------------------------------------------------------------------------
(* The world, the snapshots, the connections, the map and the requests     *)
(* keep their types, and only a client with a handler is in the map        *)
(* (handleWS, readLoop).                                                   *)
THEOREM TypeCorrect == Spec => []TypeOK
<1>1. IInv => TypeOK
  BY DEF IInv
<1> QED
  BY <1>1, InitEstablishes, StepKeeps, PTL DEF Spec

(* A sidebar that reads shows what was last sent to all, or what it was    *)
(* greeted with, however many sidebars connect, hang and are dropped       *)
(* (handleWS, sendAllLocked, broadcastIfChanged).                          *)
THEOREM SidebarsAgree == Spec => []AgreeOrGreeted
<1>1. IInv => AgreeOrGreeted
  BY DEF IInv
<1> QED
  BY <1>1, InitEstablishes, StepKeeps, PTL DEF Spec
=============================================================================
