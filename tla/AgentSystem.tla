----------------------------- MODULE AgentSystem -----------------------------
(***************************************************************************)
(* The tracker in its surroundings: agent processes that start, take       *)
(* turns, switch conversation and die in tmux panes; the lifecycle hooks   *)
(* they post to /hook, which may be lost or handled late; the Claude       *)
(* adapter that turns hooks into events (internal/ccwatch/ccwatch.go); and *)
(* the server's loops that scan the panes, sweep dead processes and prune  *)
(* rows on every state build (internal/server/watch.go, server.go).        *)
(*                                                                         *)
(* A pane scan looks at the panes outside the server lock and folds what   *)
(* it saw under the lock, so anything may happen between the two.  The     *)
(* lock is held while `scan` is being folded (Free is its negation).       *)
(*                                                                         *)
(* Abstracted: permission dialogs and tool calls, sparklines, names and    *)
(* logs.  Thread ids are conversations of the agents in Watched; the other *)
(* agents have no adapter, and the scan learns no thread for them.         *)
(***************************************************************************)
EXTENDS Tracker

CONSTANTS
  Watched,     \* agents with a hook adapter and a sessions/<pid>.json file
  SessionOf,   \* the tmux session of a pane
  NoProc, NoScan, NoStatus,
  MaxHooks,    \* bound: hooks in flight
  MaxMoves     \* bound: things that users and agents do

ASSUME SystemAssumption ==
  /\ Watched \subseteq Agent
  /\ SessionOf \in [Pane -> Session]
  /\ MaxHooks \in Nat /\ MaxMoves \in Nat

Proc == [agent   : Agent,
         pane    : Pane,
         thread  : Thread \cup {NoThread},   \* the conversation it is in
         file    : Thread \cup {NoThread},   \* the one its session file names
         busy    : BOOLEAN,                  \* in the middle of a turn
         leaving : BOOLEAN]                  \* said goodbye, not gone yet

HookKind == {"start", "prompt", "stop", "end"}

Hook == [kind : HookKind, agent : Watched, pid : Pid, thread : Thread]

Scan == [seen    : SUBSET Presence,   \* what the scan saw, outside the lock
         left    : SUBSET Session,    \* the sessions still to be folded
         changed : BOOLEAN]

VARIABLES
  proc,      \* pid -> the agent process, or NoProc
  born,      \* the pids ever used: no pid is reused here
  hooks,     \* hooks on their way to the server
  threads,   \* the adapter's cached status of each thread
  scan,      \* the pane scan under way, or NoScan
  moves      \* how many moves the world has made

world   == <<proc, born, moves>>
tracker == <<instances, unseen, active, paneMisses, endedPanes, alive, fold>>
allVars == <<tracker, proc, born, hooks, threads, scan, moves>>

(* The user looks at every session: the unseen policy is the tracker's own *)
(* business and is checked there.                                          *)
SystemInit ==
  /\ Init
  /\ active = Session
  /\ proc = [p \in Pid |-> NoProc]
  /\ born = {}
  /\ hooks = {}
  /\ threads = [t \in Thread |-> NoStatus]
  /\ scan = NoScan
  /\ moves = 0

(* The server lock is free unless a scan is between its folds.             *)
Free == fold = NoFold /\ (scan # NoScan => scan.left = Session)

-----------------------------------------------------------------------------
(* The world                                                               *)

Live == {p \in Pid : proc[p] # NoProc}

Move == moves < MaxMoves /\ moves' = moves + 1

(* hook.sh gives up after two seconds and never retries: any of the hooks  *)
(* an agent fires may be lost, and one the server is slow to take can be   *)
(* overtaken by a later one.                                               *)
Send(fired) ==
  \E sent \in SUBSET fired :
    /\ Cardinality(hooks \cup sent) <= MaxHooks
    /\ hooks' = hooks \cup sent

HookOf(kind, p, t) == [kind |-> kind, agent |-> proc[p].agent, pid |-> p, thread |-> t]

(* An agent starts in a free pane; a conversation is new or resumed, and   *)
(* open in one process at a time.  Which unused pid it gets is immaterial. *)
Launch(p, a, n, t) ==
  /\ Pid \ born # {} /\ p = CHOOSE q \in Pid : q \notin born
  /\ \A q \in Live : proc[q].pane # n
  /\ IF a \in Watched THEN t \in Thread /\ \A q \in Live : proc[q].thread # t
                      ELSE t = NoThread
  /\ Move
  /\ ProcessStarts(p)
  /\ born' = born \cup {p}
  /\ proc' = [proc EXCEPT ![p] = [agent |-> a, pane |-> n, thread |-> t, file |-> NoThread,
                                  busy |-> FALSE, leaving |-> FALSE]]
  /\ IF a \in Watched
     THEN Send({[kind |-> "start", agent |-> a, pid |-> p, thread |-> t]})
     ELSE UNCHANGED hooks
  /\ UNCHANGED <<threads, scan>>

(* The agent writes its conversation to sessions/<pid>.json.               *)
WriteFile(p) ==
  /\ p \in Live
  /\ ~proc[p].leaving /\ proc[p].file # proc[p].thread
  /\ proc' = [proc EXCEPT ![p].file = proc[p].thread]
  /\ UNCHANGED <<tracker, born, hooks, threads, scan, moves>>

Chatting(p) == p \in Live /\ proc[p].agent \in Watched /\ ~proc[p].leaving

Turn(p, busy, kind) ==
  /\ Chatting(p)
  /\ proc[p].busy # busy
  /\ Move
  /\ proc' = [proc EXCEPT ![p].busy = busy]
  /\ Send({HookOf(kind, p, proc[p].thread)})
  /\ UNCHANGED <<tracker, born, threads, scan>>

Prompt(p) == Turn(p, TRUE, "prompt")
Stop(p)   == Turn(p, FALSE, "stop")

(* /clear and /resume: another conversation in the same process.           *)
Switch(p, t) ==
  /\ Chatting(p) /\ ~proc[p].busy
  /\ \A q \in Live : proc[q].thread # t
  /\ Move
  /\ proc' = [proc EXCEPT ![p].thread = t]
  /\ Send({HookOf("end", p, proc[p].thread), HookOf("start", p, t)})
  /\ UNCHANGED <<tracker, born, threads, scan>>

Quit(p) ==
  /\ Chatting(p)
  /\ Move
  /\ proc' = [proc EXCEPT ![p].leaving = TRUE, ![p].busy = FALSE, ![p].file = NoThread]
  /\ Send({HookOf("end", p, proc[p].thread)})
  /\ UNCHANGED <<tracker, born, threads, scan>>

Leave(p) ==
  /\ ProcessExits(p)
  /\ proc' = [proc EXCEPT ![p] = NoProc]
  /\ UNCHANGED <<born, hooks, threads, scan>>

Exit(p)  == p \in Live /\ proc[p].leaving /\ Leave(p) /\ UNCHANGED moves
Crash(p) == p \in Live /\ ~proc[p].leaving /\ Move /\ Leave(p)

-----------------------------------------------------------------------------
(* The adapter: HandleHook                                                 *)

StatusOf(kind) ==
  CASE kind = "start"  -> "idle"
    [] kind = "prompt" -> "running"
    [] kind = "stop"   -> "done"
    [] kind = "end"    -> "done"

(* refreshFromRegistry: a session file that names another conversation     *)
(* disowns the pid; a missing one does not.                                *)
EventPid(h) ==
  IF proc[h.pid].file \in {NoThread, h.thread} THEN h.pid ELSE NoPid

(* Only the start of a turn always reaches the row: any other hook that    *)
(* repeats the cached status of a known thread is dropped.                 *)
Duplicate(h) == threads[h.thread] = StatusOf(h.kind) /\ h.kind # "prompt"

HookSession(h) == SessionOf[proc[h.pid].pane]

(* No pane owns the process any more: the hook only leaves a cache entry.  *)
DropHook(h) ==
  /\ h.pid \notin Live
  /\ threads' = [threads EXCEPT ![h.thread] = IF @ = NoStatus THEN "idle" ELSE @]
  /\ UNCHANGED tracker

HandleEnd(h) ==
  /\ h.pid \in Live /\ h.kind = "end"
  /\ threads' = [threads EXCEPT ![h.thread] = NoStatus]
  /\ IF ThreadKey(h.agent, h.thread) \in Keys(HookSession(h))
     THEN ApplyEnded(HookSession(h), h.agent, h.thread)
     ELSE UNCHANGED tracker

HandleStatus(h) ==
  /\ h.pid \in Live /\ h.kind # "end"
  /\ threads' = [threads EXCEPT ![h.thread] = StatusOf(h.kind)]
  /\ IF Duplicate(h)
     THEN UNCHANGED tracker
     ELSE ApplyEvent([session |-> HookSession(h), agent |-> h.agent, thread |-> h.thread,
                      status |-> StatusOf(h.kind), pid |-> EventPid(h)], FALSE, 0)

HandleHook(h) ==
  /\ Free
  /\ h \in hooks
  /\ hooks' = hooks \ {h}
  /\ DropHook(h) \/ HandleEnd(h) \/ HandleStatus(h)
  /\ UNCHANGED <<world, scan>>

-----------------------------------------------------------------------------
(* prepareState: reconcile stale rows, then prune                          *)

(* ProbeLiveStatus for a row: the file decides when it is there, else the  *)
(* pane title may; a file that a crash left behind says anything.          *)
ProbeAnswers(k, row) ==
  CASE k.agent \notin Watched -> {"nosignal"}
    [] k.agent \in Watched /\ row.pid \notin Live -> Verdict
    [] k.agent \in Watched /\ row.pid \in Live ->
         IF proc[row.pid].file = NoThread
         THEN {"nosignal", IF proc[row.pid].busy THEN "working" ELSE "ended"}
         ELSE IF proc[row.pid].file = k.id /\ proc[row.pid].busy THEN {"working"}
         ELSE {"ended"}

Stale(rows) == {f \in Session \X Key : IsStale(rows[f[1]][f[2]])}

(* Build the state from the tracker's maps: reconcile, prune the stuck,    *)
(* prune the exited.  An ended verdict also forgets the adapter's cache entry.       *)
PrepareState(rows, flags, misses) ==
  \E verdict \in [Stale(rows) -> Verdict] :
    LET asked == [s \in Session |-> [k \in Key |->
                   IF IsStale(rows[s][k]) THEN Reconciled(rows[s][k], verdict[<<s, k>>])
                   ELSE rows[s][k]]]
        dead  == [s \in Session |-> {k \in Key : IsStuck(asked[s][k]) \/ IsExited(asked[s][k])}]
    IN
    /\ \A f \in Stale(rows) : verdict[f] \in ProbeAnswers(f[2], rows[f[1]][f[2]])
    /\ instances' = [s \in Session |-> Without(asked[s], dead[s])]
    /\ unseen' = {f \in flags : f[2] \notin dead[f[1]]}
    /\ paneMisses' = [s \in Session |-> [k \in Key |->
                        IF k \in dead[s] THEN 0 ELSE misses[s][k]]]
    /\ threads' = [t \in Thread |->
                     IF \E f \in Stale(rows) : f[2].id = t /\ verdict[f] = "ended"
                     THEN NoStatus ELSE threads[t]]
    /\ UNCHANGED <<active, endedPanes, alive, fold>>

(* The 2 s refresh tick, and every debounced broadcast.                    *)
Refresh ==
  /\ Free
  /\ PrepareState(instances, unseen, paneMisses)
  /\ UNCHANGED <<world, hooks, scan>>

(* livenessLoop: a sweep that marks a row broadcasts at once.              *)
CheckLiveness ==
  /\ Free
  /\ LET swept == [s \in Session |-> [k \in Key |-> Swept(instances[s][k])]] IN
     swept # instances /\ PrepareState(swept, unseen, paneMisses)
  /\ UNCHANGED <<world, hooks, scan>>

-----------------------------------------------------------------------------
(* paneScanLoop                                                            *)

PresenceOf(p) ==
  [agent |-> proc[p].agent, pane |-> proc[p].pane, pid |-> p, thread |-> proc[p].file]

(* Mutant: the scan only looks for the agents that have an adapter.        *)
TakeScanWatched ==
  /\ scan = NoScan
  /\ scan' = [seen |-> {PresenceOf(p) : p \in {q \in Live : proc[q].agent \in Watched}},
              left |-> Session, changed |-> FALSE]
  /\ UNCHANGED <<tracker, world, hooks, threads>>

TakeScan ==
  /\ scan = NoScan
  /\ scan' = [seen |-> {PresenceOf(p) : p \in Live}, left |-> Session, changed |-> FALSE]
  /\ UNCHANGED <<tracker, world, hooks, threads>>

FoldSession(s) ==
  /\ scan # NoScan
  /\ s \in scan.left
  /\ BeginPresence(s, {pa \in scan.seen : SessionOf[pa.pane] = s})
  /\ scan' = [scan EXCEPT !.left = @ \ {s}]
  /\ UNCHANGED <<world, hooks, threads>>

FoldPane ==
  /\ BindPane
  /\ UNCHANGED <<world, hooks, threads, scan>>

FoldGhosts ==
  /\ EndPresence
  /\ scan' = [scan EXCEPT !.changed =
                @ \/ fold.changed \/ Ghosts(fold.session, fold.claimed) # {}]
  /\ UNCHANGED <<world, hooks, threads>>

(* Broadcast what changed and release the lock.                            *)
FinishScan ==
  /\ scan # NoScan /\ scan.left = {} /\ fold = NoFold
  /\ scan' = NoScan
  /\ IF scan.changed THEN PrepareState(instances, unseen, paneMisses) ELSE UNCHANGED <<tracker, threads>>
  /\ UNCHANGED <<world, hooks>>

-----------------------------------------------------------------------------
(* A user dismisses a row; time passes.                                    *)

DismissRow ==
  /\ Free /\ Move
  /\ \E s \in Session : \E k \in Keys(s) :
       PrepareState([instances EXCEPT ![s] = Without(@, {k})],
                    UnseenWithout(s, {k}), MissesWithout(s, {k}))
  /\ UNCHANGED <<proc, born, hooks, scan>>

Age ==
  /\ Free
  /\ Tick
  /\ UNCHANGED <<world, hooks, threads, scan>>

EndSuppression ==
  /\ Free
  /\ SuppressionExpires
  /\ UNCHANGED <<world, hooks, threads, scan>>

World ==
  \/ \E p \in Pid, a \in Agent, n \in Pane, t \in Thread \cup {NoThread} : Launch(p, a, n, t)
  \/ \E p \in Pid : Prompt(p) \/ Stop(p) \/ Quit(p) \/ Crash(p)
  \/ \E p \in Pid, t \in Thread : Switch(p, t)
  \/ DismissRow

FollowThrough == \E p \in Pid : WriteFile(p) \/ Exit(p)

HandleHooks == \E h \in hooks : HandleHook(h)

ScanLoop == TakeScan \/ (\E s \in Session : FoldSession(s)) \/ FoldPane \/ FoldGhosts \/ FinishScan

SystemNext ==
  \/ World \/ FollowThrough
  \/ HandleHooks \/ ScanLoop \/ Refresh \/ CheckLiveness
  \/ Age \/ EndSuppression

(* The loops run for as long as a sidebar is connected, the server lock is *)
(* fair (a Go mutex hands over to a waiter), a posted hook is handled, an  *)
(* agent writes its session file and a leaving process goes.               *)
Fairness ==
  /\ WF_allVars(FollowThrough)
  /\ WF_allVars(ScanLoop)
  /\ SF_allVars(HandleHooks)
  /\ SF_allVars(Refresh) /\ SF_allVars(CheckLiveness)
  /\ SF_allVars(Age) /\ SF_allVars(EndSuppression)

SystemSpec == SystemInit /\ [][SystemNext]_allVars /\ Fairness

-----------------------------------------------------------------------------
(* Properties                                                              *)

RowsOf(p) ==
  {k \in SameAgent(SessionOf[proc[p].pane], proc[p].agent) :
     LET row == instances[SessionOf[proc[p].pane]][k] IN
     row.live = "alive" /\ row.pane = proc[p].pane}

(* Once the world is quiet, every live agent has exactly one live row at   *)
(* its pane, whatever hooks were lost or late and whatever a stale scan    *)
(* folded (ApplyPanePresence mints, claims and retires).                   *)
EveryAgentShown == <>[](\A p \in Live : Cardinality(RowsOf(p)) = 1)

(* Once the world is quiet, a running row is the current conversation of   *)
(* an agent in the middle of a turn: no lost Stop, crash or in-place       *)
(* switch leaves a row spinning (reconcile pass, liveness sweep, prunes).  *)
RunningMeansBusy ==
  <>[](\A s \in Session : \A k \in Keys(s) : instances[s][k].status = "running" =>
         \E p \in Live : k \in RowsOf(p) /\ proc[p].busy /\ proc[p].thread = k.id)

AgentIn(a, n) == \E p \in Live : proc[p].agent = a /\ proc[p].pane = n

(* Once the world is quiet, no row outlives its agent, except a row that   *)
(* turned terminal and whose pane another agent took over: the scan finds  *)
(* the pane occupied and the sweep exempts terminal rows.                  *)
RowsLeaveWithTheirAgents ==
  <>[](\A s \in Session : \A k \in Keys(s) :
         LET row == instances[s][k] IN
         \/ AgentIn(k.agent, row.pane)
         \/ row.status \in Terminal /\ \E b \in Agent \ {k.agent} : AgentIn(b, row.pane))

(* The contract without the exception: a row whose process has exited is   *)
(* pruned.                                                                 *)
NoRowWithoutAgent ==
  <>[](\A s \in Session : \A k \in Keys(s) : AgentIn(k.agent, instances[s][k].pane))
=============================================================================
