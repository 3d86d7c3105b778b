------------------------------- MODULE Errand -------------------------------
(***************************************************************************)
(* The commands an orchestrator runs about one delegate (cmd/tcm) and the  *)
(* handlers that serve them (internal/server/{wait,followup,result}.go):   *)
(*                                                                         *)
(*   `tcm wait -delegation` and `tcm wait -session -pane` poll until the   *)
(*   delegate's turn is over, it waits for approval, or it is gone;        *)
(*   `tcm followup` has the delegate's pane respawned with a message, then *)
(*   looks for a receipt in the rollout and sends again once;              *)
(*   `tcm tidy` closes the window of a delegate whose result is terminal.  *)
(*                                                                         *)
(* What the server says of the delegate is its tracker's row, which lags   *)
(* behind, else, once a record is bound to a conversation, the rollout.    *)
(* Commands, the delegate, a user at its pane and a server that crashes    *)
(* take steps in any order.                                                *)
(*                                                                         *)
(* Abstracted: the delegate's messages, which end a wait and may take a    *)
(* follow-up as their answer (module Talkback); how rows and bindings come *)
(* about (module Delegation); malformed requests.                          *)
(***************************************************************************)
EXTENDS Integers, FiniteSets

CONSTANTS
  Waiter,     \* runs of tcm wait -delegation
  Watcher,    \* runs of tcm wait -session -pane
  Follower,   \* runs of tcm followup
  Tidier,     \* runs of tcm tidy
  Nobody,
  MaxTurns,   \* bound: turns of the delegate
  MaxPolls,   \* bound: polls within the budget of a wait
  MaxCommands \* bound: follow-ups and sweeps ever started

ASSUME ErrandAssumption ==
  /\ Nobody \notin Follower /\ Waiter \cap Watcher = {}
  /\ MaxTurns \in Nat /\ MaxPolls \in Nat /\ MaxCommands \in Nat

Status == {"none", "idle", "running", "waiting", "done", "error"}

VARIABLES
  agent,    \* the delegate's process: what it does, its prompt's file, its turns
  disk,     \* its rollout: the files it was told to read, and the status
  row,      \* the tracker's row of it
  bound,    \* the record has a conversation
  shown,    \* the last turn the row showed under way (history)
  up,       \* the server runs
  mu,       \* followupMu
  wait,     \* waits by delegation or by pane
  follow,   \* follow-ups
  tidy,     \* sweeps
  given,    \* files each follow-up respawned the pane with (history)
  cut       \* a turn that had been shown was cut off (history)

vars     == <<agent, disk, row, bound, shown, up, mu, wait, follow, tidy, given, cut>>
delegate == <<agent, disk>>
server   == <<row, bound, shown, up>>

Wait == Waiter \cup Watcher

Working == {"working", "approval"}

(* A follow-up's message file is its own; its retry writes another one.     *)
File   == Follower \X BOOLEAN
NoFile == <<>>

NewWait == [at |-> "idle", confirm |-> FALSE, last |-> FALSE, first |-> TRUE, status |-> "none",
            timed |-> FALSE, left |-> MaxPolls, seen |-> FALSE, quiet |-> 0, unreadable |-> 0,
            outcome |-> "none"]

NewFollowup == [at |-> "idle", again |-> FALSE, file |-> NoFile,
                code |-> 0, seen |-> 0, outcome |-> "none"]

Init ==
  /\ agent = [at |-> "booting", file |-> NoFile, turn |-> 0]
  /\ disk = [read |-> {}, status |-> "none"]
  /\ row = "none" /\ bound = FALSE /\ shown = 0
  /\ up = TRUE /\ mu = Nobody
  /\ wait = [w \in Wait |-> NewWait] /\ follow = [f \in Follower |-> NewFollowup]
  /\ tidy = [t \in Tidier |-> [at |-> "idle", seen |-> 0, outcome |-> "none"]]
  /\ given = [f \in Follower |-> {}] /\ cut = FALSE

(* A wait changes nothing that another command reads, and what the others  *)
(* do to the delegate, UserPrompts, UserResumes and AgentDies do too: waits *)
(* are explored one by one, the other commands up to MaxCommands of them.  *)
Started(cs, C) == {c \in C : cs[c].at # "idle"}

Orders == Started(follow, Follower) \cup Started(tidy, Tidier)

MayWait  == Started(wait, Wait) = {} /\ Orders = {}
MayOrder == Started(wait, Wait) = {} /\ Cardinality(Orders) < MaxCommands

-----------------------------------------------------------------------------
(* The delegate and its user                                               *)

Others == <<wait, follow, tidy, given, cut, mu>>

(* A prompt is taken from the command line: a receipt in the rollout.      *)
ReadsPrompt ==
  /\ agent.at = "booting" /\ agent.turn < MaxTurns
  /\ agent' = [agent EXCEPT !.at = "working", !.turn = @ + 1]
  /\ disk' = [read |-> disk.read \cup {agent.file}, status |-> "running"]
  /\ UNCHANGED <<server, Others>>

(* The user types into the pane.                                           *)
UserPrompts ==
  /\ agent.at = "idle" /\ agent.turn < MaxTurns
  /\ agent' = [agent EXCEPT !.at = "working", !.turn = @ + 1]
  /\ disk' = [disk EXCEPT !.status = "running"]
  /\ UNCHANGED <<server, Others>>

(* The user restarts the conversation in the pane, at its prompt.          *)
UserResumes ==
  /\ agent.at = "idle"
  /\ agent' = [agent EXCEPT !.at = "booting", !.file = NoFile]
  /\ UNCHANGED <<disk, server, Others>>

Approval ==
  /\ agent.at \in Working
  /\ agent' = [agent EXCEPT !.at = IF @ = "working" THEN "approval" ELSE "working"]
  /\ UNCHANGED <<disk, server, Others>>

TurnEnds ==
  /\ agent.at = "working"
  /\ agent' = [agent EXCEPT !.at = "idle"]
  /\ disk' \in {[disk EXCEPT !.status = s] : s \in {"done", "error"}}
  /\ UNCHANGED <<server, Others>>

(* The process ends and its pane with it; the rollout stays as it is.      *)
AgentDies ==
  /\ agent.at # "gone"
  /\ agent' = [agent EXCEPT !.at = "gone"]
  /\ UNCHANGED <<disk, server, Others>>

(* What hooks and scans would tell now.                                    *)
Truth ==
  CASE agent.at = "gone"     -> "none"
    [] agent.at = "booting"  -> "idle"
    [] agent.at = "working"  -> "running"
    [] agent.at = "approval" -> "waiting"
    [] OTHER                 -> disk.status

(* The row catches up, and the record is bound.                            *)
Observe ==
  /\ up /\ row # Truth
  /\ row' = Truth
  /\ bound' = (bound \/ agent.turn > 0)
  /\ shown' = IF agent.at \in Working THEN agent.turn ELSE shown
  /\ UNCHANGED <<delegate, up, Others>>

-----------------------------------------------------------------------------
(* GET /wait                                                               *)

Set(w, r) == wait' = [wait EXCEPT ![w] = r]

Ended(w, outcome) == [NewWait EXCEPT !.at = "ended", !.outcome = outcome]

(* The handler's answer, and what a client makes of it.                    *)
Answer(w, status, timed) ==
  [wait[w] EXCEPT !.at = "answered", !.status = status, !.timed = timed]

Terminal == {"done", "error"}

(* One look: terminal and waiting delegates are answered at once; at the   *)
(* deadline any status is, and one that is unknown as gone.                *)
Verdict(w, status, mustKnow) ==
  IF wait[w].last
    THEN Answer(w, IF status = "none" THEN "gone" ELSE status, TRUE)
  ELSE IF mustKnow /\ status = "none"
    THEN Answer(w, "gone", FALSE)
  ELSE IF status \in Terminal \cup {"waiting"}
    THEN Answer(w, status, FALSE)
  ELSE [wait[w] EXCEPT !.at = "look", !.first = FALSE]

(* handleDelegationWait: the record and the row; the rollout if it has no  *)
(* row but a conversation.                                                 *)
LooksAtRow(w) ==
  /\ wait[w].at = "look"
  /\ IF row = "none" /\ bound
       THEN Set(w, [wait[w] EXCEPT !.at = "disk"])
       ELSE Set(w, Verdict(w, row, FALSE))
  /\ UNCHANGED <<delegate, server, mu, follow, tidy, given, cut>>

LooksAtDisk(w) ==
  /\ wait[w].at = "disk"
  /\ Set(w, Verdict(w, disk.status, TRUE))
  /\ UNCHANGED <<delegate, server, mu, follow, tidy, given, cut>>

(* handleWait: a pane with no row is not found at first, gone later.       *)
FindsPane(v) ==
  /\ wait[v].at = "arrive"
  /\ Set(v, [wait[v] EXCEPT !.at = IF row = "none" THEN "failed" ELSE "look"])
  /\ UNCHANGED <<delegate, server, mu, follow, tidy, given, cut>>

LooksAtPane(v) ==
  /\ wait[v].at = "look"
  /\ Set(v, Verdict(v, row, TRUE))
  /\ UNCHANGED <<delegate, server, mu, follow, tidy, given, cut>>

(* The timer's channel is taken between two looks; one more look follows.  *)
DeadlineFires(w) ==
  /\ wait[w].at = "look" /\ ~wait[w].first /\ ~wait[w].last
  /\ Set(w, [wait[w] EXCEPT !.last = TRUE])
  /\ UNCHANGED <<delegate, server, mu, follow, tidy, given, cut>>

-----------------------------------------------------------------------------
(* tcm wait                                                                *)

StartWait(w) ==
  /\ wait[w].at = "idle" /\ MayWait
  /\ Set(w, [wait[w] EXCEPT !.at = "ready"])
  /\ UNCHANGED <<delegate, server, mu, follow, tidy, given, cut>>

(* A poll is sent, or cannot be.                                           *)
Sent(w, confirm) ==
  [wait[w] EXCEPT !.at = IF ~up THEN "failed" ELSE IF w \in Watcher THEN "arrive" ELSE "look",
                  !.confirm = confirm, !.last = FALSE, !.first = TRUE]

(* Mutant: the last second of the budget is polled too.                    *)
SpentLater(w) == wait[w].left < 0

Spent(w) == wait[w].left = 0

(* The top of the loop: the budget, the pane for a wait by pane, the poll. *)
PollWait(w) ==
  /\ wait[w].at = "ready"
  /\ Set(w, IF Spent(w) THEN Ended(w, "timeout")
            ELSE IF w \in Watcher /\ agent.at = "gone" THEN Ended(w, "session-dead")
            ELSE [Sent(w, FALSE) EXCEPT !.left = @ - 1])
  /\ UNCHANGED <<delegate, server, mu, follow, tidy, given, cut>>

ConfirmWait(w) ==
  /\ wait[w].at = "pause"
  /\ Set(w, Sent(w, TRUE))
  /\ UNCHANGED <<delegate, server, mu, follow, tidy, given, cut>>

Ready(w) == [NewWait EXCEPT !.at = "ready", !.left = wait[w].left,
                            !.seen = wait[w].seen, !.quiet = wait[w].quiet,
                            !.unreadable = wait[w].unreadable]

(* Mutant: a delegate the server did not know in time is taken for dead.   *)
OutcomeWithoutTimedOut(w) ==
  LET r == wait[w] IN
  CASE r.status = "done"    -> Ended(w, "finished")
    [] r.status = "error"   -> Ended(w, "error")
    [] r.status = "gone"    -> Ended(w, "session-dead")
    [] r.status = "waiting" -> [Ready(w) EXCEPT !.at = "pause"]
    [] OTHER                -> Ready(w)

(* The switch on the status of a poll's answer.                            *)
Outcome(w) ==
  LET r == wait[w] IN
  CASE r.status = "done"    -> Ended(w, "finished")
    [] r.status = "error"   -> Ended(w, "error")
    [] r.status = "gone"    -> IF r.timed /\ w \in Waiter THEN Ready(w) ELSE Ended(w, "session-dead")
    [] r.status = "waiting" -> IF r.timed THEN Ready(w) ELSE [Ready(w) EXCEPT !.at = "pause"]
    [] OTHER                -> Ready(w)

(* A prompt that still waits after five seconds is reported.               *)
Confirmed(w) ==
  IF wait[w].status = "waiting" THEN Ended(w, "waiting") ELSE Ready(w)

ReceiveWait(w) ==
  /\ wait[w].at = "answered"
  /\ Set(w, IF wait[w].confirm THEN Confirmed(w) ELSE Outcome(w))
  /\ UNCHANGED <<delegate, server, mu, follow, tidy, given, cut>>

(* A failed poll is followed by a pause, a failed confirmation by none.    *)
Backoff(w) ==
  /\ wait[w].at = "failed"
  /\ Set(w, Ready(w))
  /\ UNCHANGED <<delegate, server, mu, follow, tidy, given, cut>>

(* What the pane shows: the screen of the last look, another, or nothing.  *)
Screens(v) ==
  IF agent.at = "gone" THEN {"blank"}
  ELSE {"other"} \cup (IF wait[v].seen THEN {"same"} ELSE {})
                 \cup (IF agent.at = "booting" THEN {"blank"} ELSE {})

Unreadable(v) ==
  IF wait[v].unreadable = 2 THEN Ended(v, "timeout")
                            ELSE [Ready(v) EXCEPT !.unreadable = @ + 1]

Quiet(v) ==
  IF wait[v].quiet = 2 THEN Ended(v, IF agent.at = "approval" THEN "waiting" ELSE "finished")
                       ELSE [Ready(v) EXCEPT !.unreadable = 0, !.quiet = @ + 1]

(* pollStateFallback: three looks at a screen that shows nothing, or that  *)
(* stands still while the row is not known to be running.                  *)
Fallback(v, screen) ==
  LET status == IF up THEN row ELSE "none"
  IN /\ wait[v].at = "failed"
     /\ Set(v,
          IF wait[v].confirm             THEN Ready(v)
          ELSE IF status = "error"       THEN Ended(v, "error")
          ELSE IF status = "running"     THEN [Ready(v) EXCEPT !.quiet = 0]
          ELSE IF screen = "blank"       THEN Unreadable(v)
          ELSE IF screen = "other"       THEN [Ready(v) EXCEPT !.seen = TRUE, !.unreadable = 0, !.quiet = 0]
          ELSE Quiet(v))
     /\ UNCHANGED <<delegate, server, mu, follow, tidy, given, cut>>

-----------------------------------------------------------------------------
(* POST /followup and tcm followup                                         *)

(* resolveFollowupTarget's status: the row's, else the rollout's.          *)
Target == IF row # "none" THEN row ELSE IF bound THEN disk.status ELSE "none"

(* The refusals of a look, in the handler's order; 0 to go on.             *)
Refusal ==
  IF Target = "none"                        THEN IF bound THEN 409 ELSE 404
  ELSE IF Target \in {"running", "waiting"} THEN 409
  ELSE IF agent.at = "gone"                 THEN IF bound THEN 409 ELSE 500
  ELSE IF disk.status = "none"              THEN 404
  ELSE 0

SetF(f, r) == follow' = [follow EXCEPT ![f] = r]

(* tcm followup posts; the second time with ask routing off.               *)
PostFollowup(f) ==
  /\ \/ follow[f].at = "idle" /\ MayOrder
     \/ follow[f].at = "retry"
  /\ SetF(f, [follow[f] EXCEPT !.at = IF up THEN "sent" ELSE "failed"])
  /\ UNCHANGED <<delegate, server, mu, wait, tidy, given, cut>>

FollowupLocks(f) ==
  /\ follow[f].at = "sent"
  /\ mu = Nobody /\ mu' = f
  /\ SetF(f, [follow[f] EXCEPT !.at = "first look"])
  /\ UNCHANGED <<delegate, server, wait, tidy, given, cut>>

Replied(f, code) == [follow[f] EXCEPT !.at = "replied", !.code = code, !.seen = 0]

(* Mutant: an early return keeps the lock.                                 *)
RefusesLocked(f, code) == SetF(f, Replied(f, code)) /\ UNCHANGED mu

(* The deferred unlock follows every reply.                                *)
Refuses(f, code) == SetF(f, Replied(f, code)) /\ mu' = Nobody

FirstLook(f) ==
  /\ follow[f].at = "first look"
  /\ IF Refusal # 0
       THEN Refuses(f, Refusal)
       ELSE SetF(f, [follow[f] EXCEPT !.at = "write"]) /\ UNCHANGED mu
  /\ UNCHANGED <<delegate, server, wait, tidy, given, cut>>

WriteMessage(f) ==
  /\ follow[f].at = "write"
  /\ SetF(f, [follow[f] EXCEPT !.at = "second look"])
  /\ UNCHANGED <<delegate, server, mu, wait, tidy, given, cut>>

FileOf(f) == <<f, follow[f].again>>

(* Mutant: the delegate is looked at once, before the message is written.  *)
NoSecondRefusal == 0

(* The second look's refusals: a pane that has gone meanwhile has changed. *)
SecondRefusal == IF Refusal = 500 THEN 409 ELSE Refusal

SecondLook(f) ==
  /\ follow[f].at = "second look"
  /\ IF SecondRefusal # 0
       THEN Refuses(f, SecondRefusal)
       ELSE /\ SetF(f, [follow[f] EXCEPT !.at = "respawn", !.seen = shown])
            /\ UNCHANGED mu
  /\ UNCHANGED <<delegate, server, wait, tidy, given, cut>>

(* Ending the pane's process cuts a turn that was shown before the look.   *)
Cuts(seen) == cut' = (cut \/ (agent.at \in Working /\ agent.turn <= seen))

RespawnPane(f) ==
  /\ follow[f].at = "respawn"
  /\ mu' = Nobody
  /\ IF agent.at = "gone"
       THEN SetF(f, Replied(f, 500)) /\ UNCHANGED <<agent, given, cut>>
       ELSE /\ SetF(f, Replied(f, 200))
            /\ agent' = [agent EXCEPT !.at = "booting", !.file = FileOf(f)]
            /\ given' = [given EXCEPT ![f] = @ \cup {FileOf(f)}]
            /\ Cuts(follow[f].seen)
  /\ UNCHANGED <<disk, server, wait, tidy>>

EndedF(f, outcome) == [NewFollowup EXCEPT !.at = "ended", !.outcome = outcome]

(* The client goes on to look for the receipt of a file.                   *)
Greps(f, at, file) == [NewFollowup EXCEPT !.at = at, !.again = follow[f].again, !.file = file]

(* Mutant: a retry that is refused is reported as a refusal.               *)
ReceivedAlike(f) ==
  LET r == follow[f] IN
  CASE r.code = 409 -> EndedF(f, "refused-409")
    [] r.code = 200 -> Greps(f, IF r.again THEN "last grep" ELSE "grep", FileOf(f))
    [] OTHER        -> EndedF(f, "error")

(* The first answer may refuse or fail; the second only names another      *)
(* file, since the first may have respawned the pane.                      *)
Received(f) ==
  LET r == follow[f] IN
  IF r.again THEN Greps(f, "last grep", IF r.code = 200 THEN FileOf(f) ELSE r.file)
  ELSE CASE r.code = 409 -> EndedF(f, "refused-409")
         [] r.code = 200 -> Greps(f, "grep", FileOf(f))
         [] OTHER        -> EndedF(f, "error")

ReceiveFollowup(f) ==
  /\ follow[f].at = "replied"
  /\ SetF(f, Received(f))
  /\ UNCHANGED <<delegate, server, mu, wait, tidy, given, cut>>

(* A transport failure: the request may have been carried out.             *)
FollowupFails(f) ==
  /\ follow[f].at = "failed"
  /\ SetF(f, IF follow[f].again THEN [follow[f] EXCEPT !.at = "last grep"] ELSE EndedF(f, "error"))
  /\ UNCHANGED <<delegate, server, mu, wait, tidy, given, cut>>

(* countReceipts, twice, then the retry, and a last time.                  *)
Grep(f) ==
  /\ follow[f].at \in {"grep", "grep again", "last grep"}
  /\ SetF(f, IF follow[f].file \in disk.read THEN EndedF(f, "delivered")
             ELSE CASE follow[f].at = "grep"       -> [follow[f] EXCEPT !.at = "grep again"]
                    [] follow[f].at = "grep again" -> [follow[f] EXCEPT !.at = "retry", !.again = TRUE]
                    [] OTHER                       -> EndedF(f, "delivery-unverified"))
  /\ UNCHANGED <<delegate, server, mu, wait, tidy, given, cut>>

-----------------------------------------------------------------------------
(* tcm tidy                                                                *)

SetT(t, r) == tidy' = [tidy EXCEPT ![t] = r]

(* The window is listed, by its pane's start command.                      *)
StartTidy(t) ==
  /\ tidy[t].at = "idle" /\ MayOrder
  /\ SetT(t, IF agent.at = "gone" THEN [tidy[t] EXCEPT !.at = "ended"] ELSE [tidy[t] EXCEPT !.at = "result"])
  /\ UNCHANGED <<delegate, server, mu, wait, follow, given, cut>>

(* Mutant: a window is closed unless its delegate is known to work.        *)
ClosesUnlessBusy(status) == status \notin {"running", "waiting"}

Closeable(status) == status \in Terminal

(* classifyDelegation: GET /result, the status of the row or the rollout.  *)
Classify(t) ==
  /\ tidy[t].at = "result"
  /\ SetT(t, IF up /\ Closeable(Target)
               THEN [tidy[t] EXCEPT !.at = "kill", !.seen = shown]
               ELSE [tidy[t] EXCEPT !.at = "ended", !.outcome = "skip"])
  /\ UNCHANGED <<delegate, server, mu, wait, follow, given, cut>>

KillWindow(t) ==
  /\ tidy[t].at = "kill"
  /\ SetT(t, [tidy[t] EXCEPT !.at = "ended", !.seen = 0, !.outcome = IF agent.at = "gone" THEN "gone" ELSE "closed"])
  /\ agent' = [agent EXCEPT !.at = "gone"]
  /\ Cuts(tidy[t].seen)
  /\ UNCHANGED <<disk, server, mu, wait, follow, given>>

-----------------------------------------------------------------------------
(* The server ends, with its rows and its handlers; it may come back.      *)
InServer(at) == at \in {"arrive", "look", "disk", "answered"}

Crash ==
  /\ up /\ up' = FALSE
  /\ row' = "none" /\ mu' = Nobody
  /\ wait' = [w \in Wait |-> IF InServer(wait[w].at) THEN [wait[w] EXCEPT !.at = "failed"] ELSE wait[w]]
  /\ follow' = [f \in Follower |->
       IF follow[f].at \in {"sent", "first look", "write", "second look", "respawn", "replied"}
         THEN [follow[f] EXCEPT !.at = "failed", !.code = 0, !.seen = 0] ELSE follow[f]]
  /\ UNCHANGED <<delegate, bound, shown, tidy, given, cut>>

Restart ==
  /\ ~up /\ up' = TRUE
  /\ UNCHANGED <<delegate, row, bound, shown, Others>>

-----------------------------------------------------------------------------
Serves(w) ==
  \/ w \in Waiter /\ (LooksAtRow(w) \/ LooksAtDisk(w))
  \/ w \in Watcher /\ (FindsPane(w) \/ LooksAtPane(w))
  \/ DeadlineFires(w)

Waits(w) ==
  \/ PollWait(w) \/ ConfirmWait(w) \/ ReceiveWait(w)
  \/ w \in Waiter /\ Backoff(w)
  \/ w \in Watcher /\ \E screen \in Screens(w) : Fallback(w, screen)

Follows(f) ==
  \/ PostFollowup(f) \/ FollowupLocks(f) \/ FirstLook(f)
  \/ WriteMessage(f)
  \/ SecondLook(f) \/ RespawnPane(f)
  \/ ReceiveFollowup(f) \/ FollowupFails(f) \/ Grep(f)

Tidies(t) == StartTidy(t) \/ Classify(t) \/ KillWindow(t)

Next ==
  \/ ReadsPrompt \/ UserPrompts \/ UserResumes \/ Approval \/ TurnEnds \/ AgentDies \/ Observe
  \/ Crash \/ Restart
  \/ \E w \in Wait : StartWait(w) \/ Serves(w) \/ Waits(w)
  \/ \E f \in Follower : Follows(f)
  \/ \E t \in Tidier : Tidies(t)

(* Commands and handlers go on whatever the delegate, its user and the     *)
(* server's operator do; a timer that fired stays in its channel, and the  *)
(* select of a long poll, reached again and again, takes it.               *)
Spec ==
  /\ Init /\ [][Next]_vars
  /\ \A w \in Wait : WF_vars(Waits(w)) /\ WF_vars(Serves(w)) /\ SF_vars(DeadlineFires(w))
  /\ \A f \in Follower : WF_vars(follow[f].at # "idle" /\ Follows(f))
  /\ \A t \in Tidier : WF_vars(tidy[t].at # "idle" /\ Tidies(t))

-----------------------------------------------------------------------------
(* What the commands keep.                                                 *)
WaitStage == {"idle", "ready", "arrive", "look", "disk", "answered", "pause", "failed", "ended"}

WaitOutcome == {"none", "finished", "error", "waiting", "session-dead", "timeout"}

WaitState ==
  [at : WaitStage, confirm : BOOLEAN, last : BOOLEAN, first : BOOLEAN,
   status : Status \cup {"gone"}, timed : BOOLEAN, left : 0 .. MaxPolls,
   seen : BOOLEAN, quiet : 0 .. 2, unreadable : 0 .. 2, outcome : WaitOutcome]

FollowupStage == {"idle", "sent", "first look", "write", "second look", "respawn",
                  "replied", "failed", "grep", "grep again", "retry", "last grep", "ended"}

FollowupOutcome == {"none", "refused-409", "error", "delivered", "delivery-unverified"}

HTTPCode == {0, 200, 404, 409, 500}

FollowupState ==
  [at : FollowupStage, again : BOOLEAN, file : File \cup {NoFile}, code : HTTPCode,
   seen : 0 .. MaxTurns, outcome : FollowupOutcome]

SweepState ==
  [at : {"idle", "result", "kill", "ended"}, seen : 0 .. MaxTurns, outcome : {"none", "skip", "gone", "closed"}]

(* Type invariant of the delegate, the server and the commands.            *)
TypeOK ==
  /\ agent \in [at : {"booting", "working", "approval", "idle", "gone"},
                file : File \cup {NoFile}, turn : 0 .. MaxTurns]
  /\ disk \in [read : SUBSET (File \cup {NoFile}), status : Status]
  /\ row \in Status /\ bound \in BOOLEAN /\ shown \in 0 .. MaxTurns
  /\ up \in BOOLEAN /\ mu \in Follower \cup {Nobody}
  /\ wait \in [Wait -> WaitState] /\ follow \in [Follower -> FollowupState]
  /\ tidy \in [Tidier -> SweepState]
  /\ given \in [Follower -> SUBSET File] /\ cut \in BOOLEAN

(* A wait by delegation never reports a delegate dead that has not begun   *)
(* its conversation: the server's answer at the deadline is gone, and the  *)
(* client goes on (handleDelegationWait, watchDelegationToTerminal).       *)
UnboundNeverDead ==
  \A w \in Waiter : wait[w].outcome = "session-dead" => bound

(* A follow-up reported as refused has not touched the pane: a refusal of  *)
(* the retry may mean that the first respawn took (deliverFollowup).       *)
RefusedLeftThePane ==
  \A f \in Follower : follow[f].outcome = "refused-409" => given[f] = {}

(* Neither a follow-up nor a sweep ends a turn that the server had shown   *)
(* under way before the command's last look at the delegate; a turn that   *)
(* begins after that look, or that the row does not show yet, may be cut.  *)
NoShownTurnCut == ~cut

(* Every command ends with an outcome, whatever the delegate and the       *)
(* server do, and although a refused or lost poll is repeated.             *)
EveryCommandEnds == []<>
  /\ \A w \in Wait : wait[w].at \in {"idle", "ended"}
  /\ \A f \in Follower : follow[f].at \in {"idle", "ended"}
  /\ \A t \in Tidier : tidy[t].at \in {"idle", "ended"}
=============================================================================
