------------------------------ MODULE Delegation ------------------------------
(***************************************************************************)
(* Codex delegates and the records that name them.  A delegate is a Codex  *)
(* process in a tmux window of its own; the server spawns it, records the  *)
(* delegation (internal/delegation/store.go), and binds the record, once,  *)
(* to the conversation the process turns out to be in.  The binding comes  *)
(* from two sides: the hooks the process posts, which carry the id of the  *)
(* delegation, and the pane scan, which finds the rollout (transcript) the *)
(* process keeps open.  The same two sources tell the delegate's status:   *)
(* hooks through internal/codexwatch, which drops what a process says of a *)
(* conversation it does not hold open, and the scan through the rollout.   *)
(* A follow-up replaces the idle process of a delegate by one that resumes *)
(* its conversation.                                                       *)
(*                                                                         *)
(* Every delegation has a pane of its own and tmux does not reuse pane     *)
(* ids, so a delegation is known here by its pane.  The window closes when *)
(* its process ends.  The server lock is held while a scan is folded       *)
(* (Unlocked is its negation); the steps of others that need no lock are   *)
(* not interleaved with a fold, which reads nothing they change but the    *)
(* answers of kill -0.                                                     *)
(*                                                                         *)
(* Abstracted: tool calls, texts, aborted and failed turns, subagents of a *)
(* process, hooks whose process snapshot was cut short.  The delegates     *)
(* share one directory.                                                    *)
(***************************************************************************)
EXTENDS Tracker

CONSTANTS
  Home,      \* the session whose windows the delegates are given
  Codex,     \* the delegates' agent
  NoProc, NoRoute, NoScan, NoFollowup,
  MaxHooks,  \* bound: hooks in flight
  MaxMoves   \* bound: turns, prompts, /new, exits, follow-ups, restarts

(* A record not yet bound to a thread: its window does not exist, exists   *)
(* but the record is not written, or never will be; or it is written.      *)
Unwritten == {"none", "spawned", "forgotten"}

ASSUME DelegationAssumption ==
  /\ Home \in Session /\ Codex \in Agent
  /\ Unwritten \cap Thread = {} /\ NoThread \notin Unwritten
  /\ {"idle", "running", "waiting", "done"} \subseteq EventStatus
  /\ MaxHooks \in Nat /\ MaxMoves \in Nat

(* boot: before the conversation begins (start-up, or the directory trust  *)
(* prompt); settling: the turn is over, its end not yet in the rollout.    *)
Proc == [pane   : Pane,
         thread : Thread \cup {NoThread},
         open   : BOOLEAN,    \* it holds the thread's rollout open
         doing  : {"boot", "idle", "turn", "asking", "settling"},
         named  : BOOLEAN]    \* its environment names the delegation

ASSUME ProcAssumption == NoProc \notin Proc

(* The hooks that matter to a status: SessionStart, UserPromptSubmit,      *)
(* PermissionRequest, PostToolUse and Stop.                                *)
HookEvent == {"start", "prompt", "ask", "tool", "stop"}

Hook == [pid : Pid, thread : Thread, event : HookEvent,
         names : Pane \cup {NoPane},   \* the delegation it names
         bound : BOOLEAN]              \* handleHook has been through Bind

(* threadState of internal/codexwatch.                                     *)
Route == [pid     : Pid \cup {NoPid},   \* routingPID
          owned   : BOOLEAN,            \* pid # 0
          checked : BOOLEAN,            \* ownershipChecked
          recheck : BOOLEAN,            \* recheckOwnership
          naming  : BOOLEAN,            \* nameLookupInFlight
          status  : Status]

ASSUME RouteAssumption == NoRoute \notin Route

Reading == [agent : {Codex}, pane : Pane, pid : Pid, thread : Thread \cup {NoThread},
            verdict : {"working", "done", "nosignal"}]

Scan == [seen    : SUBSET Reading,   \* what the scan saw, outside the lock
         todo    : SUBSET Reading,   \* status readings not yet folded
         stage   : {"seen", "bound", "locked", "panes"},
         changed : BOOLEAN]

ASSUME ScanAssumption == NoScan \notin Scan

(* A follow-up between its two looks at the delegate and the respawn.      *)
Followup == [pane   : Pane,
             thread : Thread \cup {NoThread},   \* the conversation it saw
             resume : Thread,                   \* the conversation it will resume
             stage  : {"checked", "rechecked"}]

ASSUME FollowupAssumption == NoFollowup \notin Followup

VARIABLES
  record,   \* pane -> its delegation's thread, NoThread or unwritten
  proc,     \* pid -> the Codex process, or NoProc
  born,     \* the pids ever used: no pid is reused here
  rollout,  \* thread -> what the rollout on disk says
  hooks,    \* hooks being posted and handled
  route,    \* the Codex watcher's cache
  scan,     \* the pane scan under way, or NoScan
  followup, \* the one follow-up under way (followupMu), or NoFollowup
  ran,      \* <<thread, pane>>: conversations begun in a pane (history)
  finished, \* threads in which a turn has been completed (history)
  moves

tracker == <<instances, unseen, active, paneMisses, endedPanes, alive, fold>>
world   == <<proc, born, rollout, ran, finished, moves>>
delegationVars == <<tracker, record, world, hooks, route, scan, followup>>

(* The user looks at every session, as in AgentSystem.                     *)
DelegationInit ==
  /\ Init
  /\ active = Session
  /\ record = [n \in Pane |-> "none"]
  /\ proc = [p \in Pid |-> NoProc]
  /\ born = {}
  /\ rollout = [t \in Thread |-> "absent"]
  /\ hooks = {}
  /\ route = [t \in Thread |-> NoRoute]
  /\ scan = NoScan
  /\ followup = NoFollowup
  /\ ran = {}
  /\ finished = {}
  /\ moves = 0

Live == {p \in Pid : proc[p] # NoProc}

Unlocked == fold = NoFold /\ (scan # NoScan => scan.stage \in {"seen", "bound"})

Move == moves < MaxMoves /\ moves' = moves + 1

NextPid(p) == Pid \ born # {} /\ p = CHOOSE q \in Pid : q \notin born

-----------------------------------------------------------------------------
(* A Codex process                                                         *)

(* handleSpawnAgent, first half: tmux opens the window.                    *)
SpawnAgent(n, p) ==
  /\ Unlocked
  /\ record[n] = "none" /\ NextPid(p)
  /\ ProcessStarts(p)
  /\ born' = born \cup {p}
  /\ proc' = [proc EXCEPT ![p] = [pane |-> n, thread |-> NoThread, open |-> FALSE,
                                  doing |-> "boot", named |-> TRUE]]
  /\ record' = [record EXCEPT ![n] = "spawned"]
  /\ UNCHANGED <<rollout, ran, finished, moves, hooks, route, scan, followup>>

(* Second half: the record is written, whatever happened meanwhile.        *)
CreateWithID(n) ==
  /\ Unlocked
  /\ record[n] = "spawned"
  /\ record' = [record EXCEPT ![n] = NoThread]
  /\ UNCHANGED <<tracker, world, hooks, route, scan, followup>>

(* hook.sh posts once and gives up after two seconds: a hook may be lost,  *)
(* and one that is slow to be handled can be overtaken.                    *)
Post(p, t, event) ==
  \/ UNCHANGED hooks
  \/ /\ Cardinality(hooks) < MaxHooks
     /\ hooks' = hooks \cup {[pid |-> p, thread |-> t, event |-> event, bound |-> FALSE,
                              names |-> IF proc[p].named THEN proc[p].pane ELSE NoPane]}

Begun(t) == \E n \in Pane : <<t, n>> \in ran

(* The conversation begins: a new one, or the one `codex resume` was given.*)
Begin(p, t) ==
  /\ Unlocked
  /\ p \in Live /\ proc[p].doing = "boot"
  /\ IF proc[p].thread = NoThread THEN ~Begun(t) ELSE t = proc[p].thread
  /\ proc' = [proc EXCEPT ![p].thread = t, ![p].doing = "idle"]
  /\ ran' = ran \cup {<<t, proc[p].pane>>}
  /\ Post(p, t, "start")
  /\ UNCHANGED <<tracker, record, born, rollout, finished, moves, route, scan, followup>>

(* The user's /new: another conversation of the same process.              *)
NewConversation(p, t) ==
  /\ Unlocked /\ Move
  /\ p \in Live /\ proc[p].doing = "idle" /\ ~Begun(t)
  /\ proc' = [proc EXCEPT ![p].thread = t, ![p].open = FALSE]
  /\ ran' = ran \cup {<<t, proc[p].pane>>}
  /\ Post(p, t, "start")
  /\ UNCHANGED <<tracker, record, born, rollout, finished, route, scan, followup>>

InTurn(p) == proc[p].doing \in {"turn", "asking"}

OpenRollout(p) ==
  /\ Unlocked
  /\ p \in Live /\ proc[p].doing # "boot" /\ ~proc[p].open
  /\ proc' = [proc EXCEPT ![p].open = TRUE]
  /\ rollout' = [rollout EXCEPT ![proc[p].thread] =
                   IF InTurn(p) THEN "running" ELSE IF @ = "absent" THEN "idle" ELSE @]
  /\ UNCHANGED <<tracker, record, born, ran, finished, moves, hooks, route, scan, followup>>

Goes(p, from, to, event) ==
  /\ Unlocked
  /\ p \in Live /\ proc[p].doing = from
  /\ proc' = [proc EXCEPT ![p].doing = to]
  /\ Post(p, proc[p].thread, event)
  /\ UNCHANGED <<tracker, record, born, ran, finished, route, scan, followup>>

StartTurn(p) ==
  /\ Move
  /\ Goes(p, "idle", "turn", "prompt")
  /\ rollout' = IF proc[p].open THEN [rollout EXCEPT ![proc[p].thread] = "running"] ELSE rollout

AskPermission(p) == Move /\ Goes(p, "turn", "asking", "ask") /\ UNCHANGED rollout

Permit(p) == Goes(p, "asking", "turn", "tool") /\ UNCHANGED <<rollout, moves>>

StopTurn(p) == Move /\ Goes(p, "turn", "settling", "stop") /\ proc[p].open /\ UNCHANGED rollout

(* task_complete reaches the rollout.                                      *)
Settle(p) ==
  /\ Unlocked
  /\ p \in Live /\ proc[p].doing = "settling"
  /\ proc' = [proc EXCEPT ![p].doing = "idle"]
  /\ rollout' = [rollout EXCEPT ![proc[p].thread] = "done"]
  /\ finished' = finished \cup {proc[p].thread}
  /\ UNCHANGED <<tracker, record, born, ran, moves, hooks, route, scan, followup>>

Exit(p) ==
  /\ Unlocked /\ Move
  /\ ProcessExits(p)
  /\ proc' = [proc EXCEPT ![p] = NoProc]
  /\ UNCHANGED <<record, born, rollout, ran, finished, hooks, route, scan, followup>>

-----------------------------------------------------------------------------
(* Binding                                                                 *)

(* Mutant: a later conversation takes the record over.                     *)
Rebound(thread, t) == IF thread = NoThread \/ thread \in Thread THEN t ELSE thread

(* Bind: a written record takes the first thread it is given, for good.    *)
Bound(thread, t) == IF thread = NoThread THEN t ELSE thread

(* handleHook, before it takes the lock.                                   *)
BindFromHook(h) ==
  /\ Unlocked
  /\ h \in hooks /\ ~h.bound
  /\ hooks' = (hooks \ {h}) \cup {[h EXCEPT !.bound = TRUE]}
  /\ record' = IF h.names \in Pane
               THEN [record EXCEPT ![h.names] = Bound(@, h.thread)] ELSE record
  /\ UNCHANGED <<tracker, world, route, scan, followup>>

(* Mutants: any conversation of the session; none.                         *)
SeenInSession(n) == {r.thread : r \in scan.seen} \ {NoThread}
SeenNowhere(n)   == {}

(* FindUnboundByPane for the panes of the scan.                            *)
SeenIn(n) == {r.thread : r \in {q \in scan.seen : q.pane = n}} \ {NoThread}

BindFromScan ==
  /\ Unlocked
  /\ scan # NoScan /\ scan.stage = "seen"
  /\ scan' = [scan EXCEPT !.stage = "bound"]
  /\ \E found \in [Pane -> Thread \cup {NoThread}] :
       /\ \A n \in Pane : IF SeenIn(n) = {} THEN found[n] = NoThread ELSE found[n] \in SeenIn(n)
       /\ record' = [n \in Pane |-> IF found[n] = NoThread THEN record[n]
                                    ELSE Bound(record[n], found[n])]
  /\ UNCHANGED <<tracker, world, hooks, route, followup>>

-----------------------------------------------------------------------------
(* The Codex watcher: HandleHook                                           *)

Unknown == [pid |-> NoPid, owned |-> FALSE, checked |-> FALSE, recheck |-> FALSE,
            naming |-> FALSE, status |-> "idle"]

Cached(t) == IF route[t] = NoRoute THEN Unknown ELSE route[t]

(* rolloutPathForPID: lsof finds the thread's rollout among the files the  *)
(* process holds open.                                                     *)
Owns(p, t) == p \in Live /\ proc[p].thread = t /\ proc[p].open

(* Another process speaks for the thread: the hook goes to its pane.       *)
Rerouted(r, p) == IF r.pid = p THEN r ELSE [r EXCEPT !.pid = p, !.owned = FALSE, !.checked = FALSE]

(* Ownership is looked up once per process, and once more after a Stop     *)
(* that was dropped.                                                       *)
Checked(r, h) ==
  IF ~r.checked \/ (r.recheck /\ h.event \in {"start", "prompt"})
  THEN [r EXCEPT !.checked = TRUE, !.recheck = FALSE, !.owned = @ \/ Owns(h.pid, h.thread)]
  ELSE r

(* The first hook of a thread and every Stop look its name up.             *)
RouteOf(h) ==
  Checked(Rerouted([Cached(h.thread) EXCEPT
                      !.naming = @ \/ route[h.thread] = NoRoute \/ h.event = "stop"], h.pid), h)

(* Mutant: a Stop is a completed turn.                                     *)
StatusOnStop(h) ==
  CASE h.event = "start"              -> "idle"
    [] h.event \in {"prompt", "tool"} -> "running"
    [] h.event = "ask"                -> "waiting"
    [] h.event = "stop"               -> "done"

(* ClaimForHookEvent and Reconcile: a Stop is a completed turn when the    *)
(* rollout says so.                                                        *)
StatusOf(h) ==
  CASE h.event = "start"              -> "idle"
    [] h.event \in {"prompt", "tool"} -> "running"
    [] h.event = "ask"                -> "waiting"
    [] h.event = "stop"               -> IF rollout[h.thread] = "done" THEN "done" ELSE "idle"

DropHook(h, r) ==
  /\ ~r.owned
  /\ route' = [route EXCEPT ![h.thread] = [r EXCEPT !.recheck = @ \/ h.event = "stop"]]
  /\ UNCHANGED tracker

(* The process has left its pane, or the status is no news.                *)
SkipHook(h, r) ==
  /\ r.owned
  /\ h.pid \notin Live \/ (route[h.thread] # NoRoute /\ r.status = StatusOf(h))
  /\ route' = [route EXCEPT ![h.thread] = r]
  /\ UNCHANGED tracker

EventOf(t, p, status) ==
  [session |-> Home, agent |-> Codex, thread |-> t, status |-> status, pid |-> p]

(* A status that is no news goes out with a change of the tool's text,     *)
(* which PostToolUse leaves as it is.                                      *)
EmitHook(h, r) ==
  /\ r.owned /\ h.pid \in Live
  /\ route[h.thread] = NoRoute \/ r.status # StatusOf(h) \/ h.event # "tool"
  /\ route' = [route EXCEPT ![h.thread] = [r EXCEPT !.status = StatusOf(h)]]
  /\ ApplyEvent(EventOf(h.thread, h.pid, StatusOf(h)), FALSE, 0)

HandleHook(h) ==
  /\ Unlocked
  /\ h \in hooks /\ h.bound
  /\ hooks' = hooks \ {h}
  /\ DropHook(h, RouteOf(h)) \/ SkipHook(h, RouteOf(h)) \/ EmitHook(h, RouteOf(h))
  /\ UNCHANGED <<record, world, scan, followup>>

(* resolveThreadNameAsync, when its lookup returns: a new name is sent     *)
(* with the status the cache has by then.                                  *)
ResolveName(t) ==
  /\ Unlocked
  /\ route[t] # NoRoute /\ route[t].naming
  /\ route' = [route EXCEPT ![t].naming = FALSE]
  /\ \/ UNCHANGED tracker
     \/ /\ route[t].pid \in Live \cup {NoPid}
        /\ ApplyEvent(EventOf(t, IF route[t].owned THEN route[t].pid ELSE NoPid, route[t].status),
                      FALSE, 0)
  /\ UNCHANGED <<record, world, hooks, scan, followup>>

-----------------------------------------------------------------------------
(* prepareState: reconcile stale rows with the rollout, then prune         *)

ProbeLiveStatus(k) ==
  CASE rollout[k.id] = "running" -> "working"
    [] rollout[k.id] = "done"    -> "ended"
    [] OTHER                     -> "nosignal"

PrepareState(rows) ==
  LET asked == [s \in Session |-> [k \in Key |->
                 IF IsStale(rows[s][k]) /\ k.id \in Thread
                 THEN Reconciled(rows[s][k], ProbeLiveStatus(k)) ELSE rows[s][k]]]
      dead  == [s \in Session |-> {k \in Key : IsStuck(asked[s][k]) \/ IsExited(asked[s][k])}]
  IN
  /\ instances' = [s \in Session |-> Without(asked[s], dead[s])]
  /\ unseen' = {f \in unseen : f[2] \notin dead[f[1]]}
  /\ paneMisses' = [s \in Session |-> [k \in Key |-> IF k \in dead[s] THEN 0 ELSE paneMisses[s][k]]]
  /\ UNCHANGED <<active, endedPanes, alive, fold>>

Refresh ==
  /\ Unlocked
  /\ PrepareState(instances)
  /\ UNCHANGED <<record, world, hooks, route, scan, followup>>

CheckLiveness ==
  /\ Unlocked
  /\ LET swept == [s \in Session |-> [k \in Key |-> Swept(instances[s][k])]] IN
     swept # instances /\ PrepareState(swept)
  /\ UNCHANGED <<record, world, hooks, route, scan, followup>>

Age ==
  /\ Unlocked
  /\ Tick
  /\ UNCHANGED <<record, world, hooks, route, scan, followup>>

-----------------------------------------------------------------------------
(* paneScanLoop                                                            *)

VerdictOf(p) ==
  CASE proc[p].open /\ rollout[proc[p].thread] = "running" -> "working"
    [] proc[p].open /\ rollout[proc[p].thread] = "done"    -> "done"
    [] OTHER                                               -> "nosignal"

ReadingOf(p) ==
  [agent |-> Codex, pane |-> proc[p].pane, pid |-> p, verdict |-> VerdictOf(p),
   thread |-> IF proc[p].open THEN proc[p].thread ELSE NoThread]

TakeScan ==
  /\ scan = NoScan
  /\ LET seen == {ReadingOf(p) : p \in Live} IN
     scan' = [seen |-> seen, todo |-> {r \in seen : r.verdict # "nosignal"},
              stage |-> "seen", changed |-> FALSE]
  /\ UNCHANGED <<tracker, record, world, hooks, route, followup>>

(* Mutants: only a running row takes the rollout's word; the verdict is    *)
(* stored as the row's status.                                             *)
ScanEventOverRunning(row, verdict) ==
  IF row = NoRow \/ row.status # "running" THEN {}
  ELSE {IF verdict = "done" THEN "done" ELSE "running"}

(* scanEventOver: a prompt leaves no trace in the rollout, so a waiting    *)
(* row is left alone; any other row takes the rollout's word.              *)
ScanEventOver(row, verdict) ==
  IF row # NoRow /\ row.status = "waiting" THEN {}
  ELSE {IF verdict = "done" THEN "done" ELSE "running"}

FoldReading(r) ==
  LET row == instances[Home][ThreadKey(Codex, r.thread)]
      word == ScanEventOver(row, r.verdict)
  IN
  /\ scan # NoScan /\ scan.stage \in {"bound", "locked"}
  /\ r \in scan.todo
  /\ scan' = [scan EXCEPT !.todo = @ \ {r}, !.stage = "locked",
                          !.changed = @ \/ \E status \in word : row = NoRow \/ row.status # status]
  /\ \/ \E status \in word : ApplyEvent(EventOf(r.thread, r.pid, status), FALSE, 0)
     \/ word = {} /\ UNCHANGED tracker
  /\ UNCHANGED <<record, world, hooks, route, followup>>

Present == {[agent |-> r.agent, pane |-> r.pane, pid |-> r.pid, thread |-> r.thread] : r \in scan.seen}

FoldPanes ==
  /\ scan # NoScan /\ scan.stage \in {"bound", "locked"} /\ scan.todo = {}
  /\ BeginPresence(Home, Present)
  /\ scan' = [scan EXCEPT !.stage = "panes"]
  /\ UNCHANGED <<record, world, hooks, route, followup>>

FoldPane ==
  /\ BindPane
  /\ UNCHANGED <<record, world, hooks, route, scan, followup>>

FoldGhosts ==
  /\ scan # NoScan /\ scan.stage = "panes"
  /\ EndPresence
  /\ scan' = [scan EXCEPT !.changed =
                @ \/ fold.changed \/ Ghosts(fold.session, fold.claimed) # {}]
  /\ UNCHANGED <<record, world, hooks, route, followup>>

(* Broadcast what changed and release the lock.                            *)
FinishScan ==
  /\ scan # NoScan /\ scan.stage = "panes" /\ fold = NoFold
  /\ scan' = NoScan
  /\ IF scan.changed THEN PrepareState(instances) ELSE UNCHANGED tracker
  /\ UNCHANGED <<record, world, hooks, route, followup>>

ScanLoop ==
  \/ TakeScan \/ BindFromScan
  \/ scan # NoScan /\ \E r \in scan.todo : FoldReading(r)
  \/ FoldPanes \/ FoldPane \/ FoldGhosts \/ FinishScan

-----------------------------------------------------------------------------
(* Waiting for a delegate and following up                                 *)

Written(n) == record[n] \in Thread \cup {NoThread}

(* The delegate as resolveDelegationWait and resolveFollowupTarget see it: *)
(* a bound record by its conversation's row, else by the rollout; an       *)
(* unbound one by a row of its pane.  A scanner's row has no thread.       *)
SeenAt(n) ==
  IF record[n] \in Thread
  THEN LET row == instances[Home][ThreadKey(Codex, record[n])] IN
       {[thread |-> record[n], status |-> IF row # NoRow THEN row.status ELSE rollout[record[n]]]}
  ELSE {[thread |-> IF Synthetic(k) THEN NoThread ELSE k.id, status |-> instances[Home][k].status] :
          k \in {j \in Keys(Home) : instances[Home][j].pane = n}}

PaneOf(n) == {p \in Live : proc[p].pane = n}

(* followupStatusConflict, and a delegate whose status nothing tells.      *)
Resumable(n, seen) == seen.status \notin {"running", "waiting", "absent"} /\ PaneOf(n) # {}

OnDisk == {t \in Thread : rollout[t] # "absent"}

(* RolloutForFollowup: the thread's rollout, or, without a thread, the     *)
(* newest of the directory (any, here).                                    *)
Resumed(t) == IF t = NoThread THEN OnDisk ELSE {t} \cap OnDisk

(* handleFollowup up to the message file; a refusal changes nothing.       *)
CheckFollowup(n) ==
  /\ Unlocked /\ Move
  /\ followup = NoFollowup
  /\ Written(n)
  /\ \E seen \in SeenAt(n) : \E t \in Resumed(seen.thread) :
       /\ Resumable(n, seen)
       /\ followup' = [pane |-> n, thread |-> seen.thread, resume |-> t, stage |-> "checked"]
  /\ UNCHANGED <<tracker, record, proc, born, rollout, ran, finished, hooks, route, scan>>

(* The second look, after the message file is written.                     *)
RecheckFollowup ==
  /\ Unlocked
  /\ followup # NoFollowup /\ followup.stage = "checked"
  /\ LET n == followup.pane
         Same(seen) == seen.thread = followup.thread /\ Resumable(n, seen)
     IN
     \/ /\ \E seen \in SeenAt(n) : Same(seen)
        /\ followup' = [followup EXCEPT !.stage = "rechecked"]
     \/ /\ SeenAt(n) = {} \/ \E seen \in SeenAt(n) : ~Same(seen)
        /\ followup' = NoFollowup
  /\ UNCHANGED <<tracker, record, world, hooks, route, scan>>

(* respawn-pane -k: whatever runs in the pane makes way for a process that *)
(* resumes the conversation, without the delegation in its environment.    *)
Respawn(p) ==
  /\ Unlocked
  /\ followup # NoFollowup /\ followup.stage = "rechecked"
  /\ followup' = NoFollowup
  /\ LET n == followup.pane IN
     IF PaneOf(n) = {}
     THEN UNCHANGED <<tracker, world>>
     ELSE /\ NextPid(p)
          /\ born' = born \cup {p}
          /\ proc' = [q \in Pid |->
               IF q = p THEN [pane |-> n, thread |-> followup.resume, open |-> FALSE,
                              doing |-> "boot", named |-> FALSE]
               ELSE IF q \in PaneOf(n) THEN NoProc ELSE proc[q]]
          /\ alive' = (alive \ PaneOf(n)) \cup {p}
          /\ UNCHANGED <<instances, unseen, active, paneMisses, endedPanes, fold,
                         rollout, ran, finished, moves>>
  /\ UNCHANGED <<record, hooks, route, scan>>

-----------------------------------------------------------------------------
(* restartInPlace: the records stay; rows, routes and requests do not.     *)
(* The Codex watcher seeds a running row for recent rollouts in a turn.    *)
Restart ==
  /\ Unlocked /\ Move
  /\ record' = [n \in Pane |-> IF record[n] = "spawned" THEN "forgotten" ELSE record[n]]
  /\ \E seeded \in SUBSET {t \in Thread : rollout[t] = "running"} :
       /\ instances' = [s \in Session |-> [k \in Key |->
            IF s = Home /\ k \in {ThreadKey(Codex, t) : t \in seeded}
            THEN [status |-> "running", live |-> "unset", pane |-> NoPane, pid |-> NoPid, age |-> 0]
            ELSE NoRow]]
       /\ route' = [t \in Thread |-> IF t \in seeded THEN [Unknown EXCEPT !.status = "running"]
                                     ELSE NoRoute]
  /\ unseen' = {} /\ endedPanes' = {}
  /\ paneMisses' = [s \in Session |-> [k \in Key |-> 0]]
  /\ hooks' = {} /\ scan' = NoScan /\ followup' = NoFollowup
  /\ UNCHANGED <<active, alive, fold, proc, born, rollout, ran, finished>>

-----------------------------------------------------------------------------
Delegates ==
  \/ \E p \in Pid, n \in Pane : SpawnAgent(n, p)
  \/ \E p \in Pid, t \in Thread : NewConversation(p, t)
  \/ \E n \in Pane : CheckFollowup(n)
  \/ \E p \in Pid : StartTurn(p) \/ AskPermission(p) \/ Permit(p) \/ StopTurn(p) \/ Exit(p)

FollowThrough ==
  \/ \E n \in Pane : CreateWithID(n)
  \/ \E p \in Pid : (\E t \in Thread : Begin(p, t)) \/ OpenRollout(p) \/ Settle(p)
  \/ RecheckFollowup
  \/ \E p \in Pid : Respawn(p)

HandleHooks ==
  \/ \E h \in hooks : BindFromHook(h) \/ HandleHook(h)
  \/ \E t \in Thread : ResolveName(t)

DelegationNext ==
  \/ Delegates \/ FollowThrough \/ HandleHooks
  \/ ScanLoop \/ Refresh \/ CheckLiveness \/ Age
  \/ Restart

(* As in AgentSystem: the loops run while a sidebar is connected, the lock *)
(* is fair, a hook that arrived is handled.  A spawn writes its record, a  *)
(* process begins its conversation, opens the rollout and completes what   *)
(* it has ended; none of these waits for the lock, so the folds of scans,  *)
(* which this model does not interleave with them, cannot keep them out.   *)
Fairness ==
  /\ SF_delegationVars(FollowThrough)
  /\ WF_delegationVars(ScanLoop)
  /\ SF_delegationVars(HandleHooks)
  /\ SF_delegationVars(Refresh) /\ SF_delegationVars(CheckLiveness) /\ SF_delegationVars(Age)

DelegationSafety == DelegationInit /\ [][DelegationNext]_delegationVars
DelegationSpec   == DelegationSafety /\ Fairness

-----------------------------------------------------------------------------
(* Properties                                                              *)

(* The durable handle: a record bound to a conversation keeps it, whatever *)
(* hooks, scans and restarts follow (Bind).                                *)
BoundForGood == [][\A n \in Pane : record[n] \in Thread => record'[n] = record[n]]_delegationVars

(* A record is bound to a conversation that was begun in its own pane: a   *)
(* hook or a scan that is late, or of a neighbour, binds no other          *)
(* (handleHook, FindUnboundByPane).                                        *)
BoundWhereItRan == \A n \in Pane : record[n] \in Thread => <<record[n], n>> \in ran

(* Once the world is quiet, every written record whose process is in a     *)
(* conversation is bound, though all its hooks were lost or came before    *)
(* the record was written (bindDelegationsFromPaneScan).                   *)
EventuallyBound ==
  <>[](\A p \in Live : proc[p].open => record[proc[p].pane] \in Thread \cup {"forgotten"})

RowStatus(p) ==
  {instances[Home][k].status : k \in {j \in SameAgent(Home, Codex) :
     j.id = proc[p].thread /\ instances[Home][j].live = "alive"}}

(* Once the world is quiet, the row of a live process tells what its       *)
(* rollout tells, whatever hooks were lost, late or dropped; only a        *)
(* permission prompt the scan cannot see answered may linger, and a        *)
(* conversation with no turn yet may have no row, while the process is     *)
(* shown in an earlier one (HandleHook, scanEventOver; ResolveName does    *)
(* not ask who owns the thread).                                           *)
RowTellsRollout ==
  <>[](\A p \in Live : proc[p].open =>
         \/ RowStatus(p) \in {{rollout[proc[p].thread]}, {"waiting"}}
         \/ rollout[proc[p].thread] = "idle" /\ RowStatus(p) = {})

(* No wait reports `finished` before a turn has been completed in the      *)
(* conversation it is told of, though the row it reads is built from       *)
(* hooks, scans and restarts (resolveDelegationWait, HandleHook's evidence *)
(* for a Stop); and a bound record is told of a conversation that was      *)
(* begun in its own pane.                                                  *)
FinishedMeansFinished ==
  \A n \in Pane : Written(n) =>
    \A seen \in SeenAt(n) : seen.status = "done" =>
      /\ seen.thread \in finished
      /\ record[n] \in Thread => <<seen.thread, n>> \in ran
=============================================================================
