--------------------------------- MODULE Hub ---------------------------------
(***************************************************************************)
(* The websocket hub (internal/server/server.go, internal/ws/ws.go): the   *)
(* state the server encodes is sent to every connected sidebar and served  *)
(* to pollers of GET /state.                                               *)
(*                                                                         *)
(* Every handler encodes and sends while it holds s.mu, so a broadcast is  *)
(* one step.  Three things are not: the initial state of a new client is   *)
(* encoded under the lock and written after it; a poller reads the cached  *)
(* snapshot, waits for the lock and looks again; and the read loop of a    *)
(* client takes it out of the map some time after its connection closed.   *)
(*                                                                         *)
(* Abstracted: what a state contains (module Desk builds it; here `world`  *)
(* is what a build would produce now), frames and their encoding, and the  *)
(* buffers of the sockets: a write to a peer that does not read may        *)
(* succeed or fail.                                                        *)
(***************************************************************************)
EXTENDS Integers, FiniteSets

CONSTANTS
  Client,      \* sidebar TUIs
  Poller,      \* requests of GET /state
  State,       \* encoded server states, their timestamps zeroed
  NoState,
  MaxAge,      \* defaultStateMaxAge: how old a served snapshot may be
  MaxChanges   \* bound: changes of the world

ASSUME StateAssumption == NoState \notin State

ASSUME AgeAssumption == MaxAge \in Nat /\ MaxChanges \in Nat

VARIABLES
  world,       \* what a build would produce now
  changes,     \* changes of the world so far (bound)
  lastState,   \* the state last sent to all clients
  snapshot,    \* the state last encoded, and its age
  timer,       \* broadcastTimer is set
  clients,     \* s.clients
  conn,        \* client -> "none", "open" or "closed"
  peer,        \* client -> its sidebar is "reading", or "away": hung or gone
  loop,        \* client -> its handler: "none", "greeting" or "reading"
  greeting,    \* client -> the initial state encoded for it
  view,        \* client -> the state its sidebar shows
  poll         \* poller -> "idle", "queued" for the lock, or "cancelled"

server   == <<lastState, snapshot, timer>>
sockets  == <<clients, conn, peer, loop, greeting, view>>
vars     == <<world, changes, server, sockets, poll>>

Init ==
  /\ world \in State
  /\ changes = 0
  /\ lastState = NoState
  /\ snapshot = [state |-> NoState, age |-> MaxAge]
  /\ timer = FALSE
  /\ clients = {}
  /\ conn = [c \in Client |-> "none"]
  /\ peer = [c \in Client |-> "reading"]
  /\ loop = [c \in Client |-> "none"]
  /\ greeting = [c \in Client |-> NoState]
  /\ view = [c \in Client |-> NoState]
  /\ poll = [p \in Poller |-> "idle"]

-----------------------------------------------------------------------------
(* Encoding and sending                                                    *)

(* encodeState: every result becomes the snapshot GET /state serves.       *)
Encode == snapshot' = [state |-> world', age |-> 0]

Recent == snapshot.age < MaxAge

(* writeFrame: a closed connection refuses, a peer that reads receives,    *)
(* and any other may use up the deadline, which closes the connection.     *)
MustFail(c) == conn[c] = "closed"
MayFail(c)  == MustFail(c) \/ peer[c] # "reading"

Refusals(C) ==
  {F \in SUBSET {c \in C : MayFail(c)} : \A c \in C : MustFail(c) => c \in F}

Close(C) == conn' = [c \in Client |-> IF c \in C THEN "closed" ELSE conn[c]]

Receive(C, s) ==
  view' = [c \in Client |-> IF c \in C /\ peer[c] = "reading" THEN s ELSE view[c]]

(* sendAllLocked: a client that cannot be written to is dropped.           *)
SendAll ==
  /\ lastState' = world'
  /\ \E F \in Refusals(clients) :
       /\ Close(F)
       /\ clients' = clients \ F
       /\ Receive(clients \ F, world')

(* broadcastLocked                                                         *)
Broadcast ==
  /\ Encode
  /\ SendAll
  /\ UNCHANGED <<peer, loop, greeting>>

(* A frame that carries no state: its error is ignored, the connection is  *)
(* closed all the same.                                                    *)
WriteOther(C) ==
  /\ \E F \in Refusals(C) : Close(F)
  /\ UNCHANGED <<clients, peer, loop, greeting, view>>

-----------------------------------------------------------------------------
(* The world changes, silently or by a handler that broadcasts             *)

Changes == world' \in State \ {world} /\ changes < MaxChanges /\ changes' = changes + 1

(* tmux, git and the configuration files: the next build sees them.        *)
ExternalChange ==
  /\ Changes
  /\ UNCHANGED <<server, sockets, poll>>

(* A watcher event: the tracker's rows change, and the broadcast is        *)
(* batched.                                                                *)
WatcherEvent ==
  /\ Changes
  /\ timer' = TRUE
  /\ UNCHANGED <<lastState, snapshot, sockets, poll>>

TimerFires ==
  /\ timer
  /\ timer' = FALSE
  /\ UNCHANGED <<world, changes>>
  /\ Broadcast
  /\ UNCHANGED poll

(* handleCommand: switch, focus, order, theme, kill, mark-seen, dismiss... *)
(* broadcast what they changed; refresh broadcasts whatever there is.      *)
Command(c) ==
  /\ loop[c] = "reading" /\ conn[c] = "open" /\ peer[c] = "reading"
  /\ Changes \/ UNCHANGED <<world, changes>>
  /\ Broadcast
  /\ UNCHANGED <<timer, poll>>

(* The metadata API and /focus: the same, without a client.                *)
MutateMetadata ==
  /\ Changes
  /\ Broadcast
  /\ UNCHANGED <<timer, poll>>

(* POST /refresh, and the tick that finds the theme file rewritten.        *)
Refresh ==
  /\ UNCHANGED <<world, changes>>
  /\ Broadcast
  /\ UNCHANGED <<timer, poll>>

(* broadcastIfChanged, on the refresh tick: the server sleeps without      *)
(* clients, and sends only what differs from the last state sent.          *)
(* Mutant: the comparison is made with the state last encoded.             *)
ChangedSinceSnapshot == world # snapshot.state

ChangedSinceSent == world # lastState

Tick ==
  /\ clients # {}
  /\ UNCHANGED <<world, changes>>
  /\ \/ ChangedSinceSent /\ Broadcast
     \/ ~ChangedSinceSent /\ Encode /\ UNCHANGED <<lastState, sockets>>
  /\ UNCHANGED <<timer, poll>>

-----------------------------------------------------------------------------
(* Connections                                                             *)

(* Mutant: the state encoded for one new client counts as sent to all.     *)
GreetAndRecord(c) ==
  /\ Encode
  /\ greeting' = [greeting EXCEPT ![c] = world]
  /\ lastState' = world

Greet(c) ==
  /\ Encode
  /\ greeting' = [greeting EXCEPT ![c] = world]
  /\ UNCHANGED lastState

(* Upgrade: a connection of its own for every client.                      *)
Upgrade(c) ==
  /\ conn[c] = "none"
  /\ conn' = [conn EXCEPT ![c] = "open"]

(* handleWS, under the lock: the client is in the map before its initial   *)
(* state is written, so a broadcast may reach it first.                    *)
Connect(c) ==
  /\ Upgrade(c)
  /\ UNCHANGED <<world, changes>>
  /\ clients' = clients \cup {c}
  /\ Greet(c)
  /\ loop' = [loop EXCEPT ![c] = "greeting"]
  /\ UNCHANGED <<timer, peer, view, poll>>

(* handleWS, after the lock.                                               *)
WriteInitial(c) ==
  /\ loop[c] = "greeting"
  /\ \E F \in Refusals({c}) : Close(F) /\ Receive({c} \ F, greeting[c])
  /\ loop' = [loop EXCEPT ![c] = "reading"]
  /\ UNCHANGED <<world, changes, server, clients, peer, greeting, poll>>

(* ReadText answers a ping; identify-pane answers with the session's name. *)
Reply(c) ==
  /\ loop[c] = "reading" /\ conn[c] = "open"
  /\ WriteOther({c})
  /\ UNCHANGED <<world, changes, server, poll>>

(* handlePaneFocus: relayed to every client; the map is left alone.        *)
PaneFocus ==
  /\ WriteOther(clients)
  /\ UNCHANGED <<world, changes, server, poll>>

(* The sidebar hangs, or closes its end.                                   *)
Hang(c) ==
  /\ conn[c] = "open" /\ peer[c] = "reading"
  /\ peer' = [peer EXCEPT ![c] = "away"]
  /\ UNCHANGED <<world, changes, server, clients, conn, loop, greeting, view, poll>>

(* Mutant: the loop ends and leaves the client in the map.                 *)
KeepInMap(c) == UNCHANGED clients

LeaveMap(c) == clients' = clients \ {c}

(* readFrame: no more frames, for the peer has closed its end or a failed  *)
(* write has closed the connection.                                        *)
EndOfStream(c) == conn[c] = "closed" \/ peer[c] = "away"

(* readLoop ends; what is left of the client goes with its value.          *)
ReadFails(c) ==
  /\ loop[c] = "reading" /\ EndOfStream(c)
  /\ LeaveMap(c)
  /\ conn' = [conn EXCEPT ![c] = "none"]
  /\ peer' = [peer EXCEPT ![c] = "reading"]
  /\ loop' = [loop EXCEPT ![c] = "none"]
  /\ greeting' = [greeting EXCEPT ![c] = NoState]
  /\ view' = [view EXCEPT ![c] = NoState]
  /\ UNCHANGED <<world, changes, server, poll>>

-----------------------------------------------------------------------------
(* GET /state                                                              *)

Age ==
  /\ snapshot.age < MaxAge
  /\ snapshot' = [snapshot EXCEPT !.age = @ + 1]
  /\ UNCHANGED <<world, changes, lastState, timer, sockets, poll>>

(* freshSnapshot: a recent one is served at once (and nothing changes); a  *)
(* stale one sends the request to the lock.                                *)
QueuePoll(p) ==
  /\ poll[p] = "idle" /\ ~Recent
  /\ poll' = [poll EXCEPT ![p] = "queued"]
  /\ UNCHANGED <<world, changes, server, sockets>>

CancelPoll(p) ==
  /\ poll[p] = "queued"
  /\ poll' = [poll EXCEPT ![p] = "cancelled"]
  /\ UNCHANGED <<world, changes, server, sockets>>

NeedsBuild(p) == poll[p] = "queued" /\ ~Recent

(* Under the lock: requests queued behind a build reuse its result, and    *)
(* one whose caller has gone builds nothing.                               *)
ServePoll(p) ==
  /\ poll[p] # "idle"
  /\ poll' = [poll EXCEPT ![p] = "idle"]
  /\ UNCHANGED <<world, changes>>
  /\ IF NeedsBuild(p) THEN Encode ELSE UNCHANGED snapshot
  /\ UNCHANGED <<lastState, timer, sockets>>

-----------------------------------------------------------------------------
Next ==
  \/ ExternalChange \/ WatcherEvent \/ TimerFires \/ MutateMetadata \/ Refresh \/ Tick \/ PaneFocus \/ Age
  \/ \E c \in Client : \/ Command(c) \/ Connect(c) \/ WriteInitial(c) \/ Reply(c)
                       \/ Hang(c) \/ ReadFails(c)
  \/ \E p \in Poller : QueuePoll(p) \/ CancelPoll(p) \/ ServePoll(p)

(* The refresh loop ticks, timers fire, and handlers run on.  Nobody       *)
(* promises that the end of a peer that hangs is ever noticed.             *)
Fairness ==
  /\ WF_vars(Tick) /\ WF_vars(TimerFires)
  /\ \A c \in Client : /\ WF_vars(WriteInitial(c))
                       /\ WF_vars(conn[c] = "closed" /\ ReadFails(c))

Spec == Init /\ [][Next]_vars /\ Fairness

-----------------------------------------------------------------------------
(* Properties                                                              *)

(* Type invariant of the states, the connections and the pollers.          *)
TypeOK ==
  /\ world \in State /\ changes \in 0 .. MaxChanges
  /\ lastState \in State \cup {NoState}
  /\ snapshot \in [state : State \cup {NoState}, age : 0 .. MaxAge]
  /\ timer \in BOOLEAN
  /\ clients \subseteq {c \in Client : loop[c] # "none"}
  /\ conn \in [Client -> {"none", "open", "closed"}]
  /\ peer \in [Client -> {"reading", "away"}]
  /\ loop \in [Client -> {"none", "greeting", "reading"}]
  /\ greeting \in [Client -> State \cup {NoState}]
  /\ view \in [Client -> State \cup {NoState}]
  /\ poll \in [Poller -> {"idle", "queued", "cancelled"}]

(* However connections, broadcasts and slow writes interleave, a sidebar   *)
(* that reads shows the state last sent to all, or the one it was greeted  *)
(* with: only the initial state, written without the lock, can overtake a  *)
(* newer broadcast (handleWS, sendAllLocked, broadcastIfChanged).          *)
AgreeOrGreeted ==
  \A c \in clients :
    peer[c] = "reading" => view[c] \in {NoState, lastState, greeting[c]}

(* A change nobody broadcast (a git branch, a session tmux has closed) is  *)
(* not lost between the encodings for new clients and pollers and the      *)
(* comparison of the refresh tick: a connected sidebar comes to show the   *)
(* world, or at worst keeps what it was greeted with.                      *)
SidebarsCatchUp ==
  \A c \in Client :
    []<>(c \in clients /\ peer[c] = "reading" => view[c] \in {world, greeting[c]})

(* A connection closed by any failed write, a broadcast's, a relay's, a    *)
(* reply's or the greeting's, does not stay in the client map: the refresh *)
(* would go on for nobody.                                                 *)
ClosedClientsLeave ==
  \A c \in Client : (c \in clients /\ conn[c] = "closed") ~> (c \notin clients)
=============================================================================
