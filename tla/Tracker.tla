------------------------------- MODULE Tracker -------------------------------
(***************************************************************************)
(* The agent-instance tracker (internal/tracker/tracker.go): the rows of   *)
(* agents the sidebar shows, folded from two independent sources, watcher  *)
(* events and pane scans, and retired by the prune tiers.                  *)
(*                                                                         *)
(* The server serialises every call under one lock, so each method is one  *)
(* action.  ApplyPanePresence loops over the panes of a scan; it is three  *)
(* kinds of step (misses, one step per pane, ghosts) joined by `fold`: no  *)
(* other action is enabled while a fold is open, exactly as no other       *)
(* caller runs while the lock is held.  Go's randomised map order is the   *)
(* \E over the rows a loop may meet first.                                 *)
(*                                                                         *)
(* Abstracted: window and pane indexes, titles, names and tool             *)
(* descriptions; timestamps are kept as the age of a running row, the only *)
(* rows whose age the tracker reads, saturating above the last threshold.  *)
(***************************************************************************)
EXTENDS Integers, FiniteSets

CONSTANTS
  Session,        \* tmux session names
  Agent,          \* agent names (claude-code, codex, amp, opencode)
  Thread,         \* agent thread (conversation) ids
  Pane,           \* tmux pane ids
  Pid,            \* process ids of agents
  EventStatus,    \* the statuses watcher events carry
  NoThread, NoPane, NoPid, NoRow, NoFold,
  MissThreshold,  \* consecutive missed scans before a row is retired
  StaleAge,       \* reconcileStaleMS: age beyond which the probe is asked
  StuckAge,       \* stuckRunningTimeoutMS: age beyond which a row is stuck
  CeilingAge      \* AlivePruneCeilingMS: the ceiling for an alive row

Terminal == {"done", "error", "interrupted"}
Status   == {"idle", "running", "waiting"} \cup Terminal
Liveness == {"unset", "alive", "exited"}
MaxAge   == CeilingAge + 1

ASSUME SentinelAssumption ==
  /\ NoThread \notin Thread
  /\ Thread \cap Pane = {}
  /\ NoPane \notin Pane
  /\ NoPid \notin Pid

ASSUME BoundAssumption ==
  /\ EventStatus \subseteq Status
  /\ MissThreshold \in Nat \ {0}
  /\ StaleAge \in Nat /\ StuckAge \in Nat /\ CeilingAge \in Nat

(* InstanceKey and syntheticKey: a row is keyed by agent and thread, or,   *)
(* when the scan cannot tell the thread, by agent and pane.  (Every hook    *)
(* has a session id, so no event is keyed by the agent alone.)             *)
Key == [agent : Agent, id : Thread \cup Pane]
ThreadKey(a, t)    == [agent |-> a, id |-> t]
SyntheticKey(a, p) == [agent |-> a, id |-> p]
Synthetic(k) == k.id \in Pane

Row == [status : Status, live : Liveness, pane : Pane \cup {NoPane},
        pid : Pid \cup {NoPid}, age : 0 .. MaxAge]

ASSUME RowAssumption == NoRow \notin Row

Event == [session : Session, agent : Agent, thread : Thread,
          status : EventStatus, pid : Pid \cup {NoPid}]

(* PanePresence: Scan always resolves the pid, not always the thread.      *)
Presence == [agent : Agent, pane : Pane, pid : Pid,
             thread : Thread \cup {NoThread}]

(* One scan of one session: a pane hosts at most one agent and a process   *)
(* is the agent of at most one pane.                                       *)
PaneScan == {P \in SUBSET Presence :
               \A x, y \in P : x # y => x.pane # y.pane /\ x.pid # y.pid}

Fold == [session : Session,
         panes   : SUBSET Presence,   \* the scan being folded
         todo    : SUBSET Presence,   \* the part of it not yet bound
         claimed : SUBSET Key,
         detached : BOOLEAN,          \* step 1 deleted the session's map
         changed : BOOLEAN]

ASSUME FoldAssumption == NoFold \notin Fold

VARIABLES
  instances,   \* session -> key -> row, NoRow when absent
  unseen,      \* <<session, key>> flags
  active,      \* sessions the user is looking at
  paneMisses,  \* session -> key -> consecutive missed scans
  endedPanes,  \* <<session, agent, pane>> suppressed after a SessionEnd
  alive,       \* the processes the signal-0 probe finds (environment)
  fold         \* the pane presence being folded, or NoFold

vars == <<instances, unseen, active, paneMisses, endedPanes, alive, fold>>

Init ==
  /\ instances = [s \in Session |-> [k \in Key |-> NoRow]]
  /\ unseen = {}
  /\ active \in SUBSET Session
  /\ paneMisses = [s \in Session |-> [k \in Key |-> 0]]
  /\ endedPanes = {}
  /\ alive = {}
  /\ fold = NoFold

-----------------------------------------------------------------------------
(* Helpers                                                                 *)

Keys(s) == {k \in Key : instances[s][k] # NoRow}

SameAgent(s, a) == {k \in Keys(s) : k.agent = a}

(* deleteInstance: a deleted row takes its unseen flag and its miss count  *)
(* with it.                                                                *)
Without(rows, D)       == [k \in Key |-> IF k \in D THEN NoRow ELSE rows[k]]
UnseenWithout(s, D)    == {f \in unseen : ~(f[1] = s /\ f[2] \in D)}
MissesWithout(s, D)    == [paneMisses EXCEPT ![s] =
                             [k \in Key |-> IF k \in D THEN 0 ELSE @[k]]]

(* Mutant: deleteInstance forgets the unseen flag.                         *)
DeleteRowsKeepingFlags(s, D) ==
  /\ instances' = [instances EXCEPT ![s] = Without(@, D)]
  /\ paneMisses' = MissesWithout(s, D)
  /\ UNCHANGED unseen

DeleteRows(s, D) ==
  /\ instances' = [instances EXCEPT ![s] = Without(@, D)]
  /\ unseen' = UnseenWithout(s, D)
  /\ paneMisses' = MissesWithout(s, D)

AgeOf(status, age) == IF status = "running" THEN age ELSE 0

-----------------------------------------------------------------------------
(* ApplyEvent                                                              *)

(* The row an event stores before it looks at the session's other rows:    *)
(* watcher events carry no pane and no liveness, a row with a pane hands   *)
(* both on, and the pid survives an event that has none.                   *)
Inherited(e, prev, age) ==
  LET had == prev # NoRow IN
  [status |-> e.status,
   live   |-> IF had /\ prev.pane # NoPane THEN prev.live ELSE "unset",
   pane   |-> IF had THEN prev.pane ELSE NoPane,
   pid    |-> IF had /\ e.pid = NoPid THEN prev.pid ELSE e.pid,
   age    |-> AgeOf(e.status, age)]

AdoptPane(row, from) ==
  [row EXCEPT !.pane = IF @ = NoPane THEN from.pane ELSE @,
              !.live = IF @ = "unset" THEN from.live ELSE @]

(* Mutant: only synthetics are superseded, so an id swap leaves two rows.  *)
SupersededSynthetics(e, key, row) ==
  {k \in SameAgent(e.session, e.agent) \ {key} :
     Synthetic(k) /\ row.pid # NoPid /\ instances[e.session][k].pid = row.pid}

(* Other rows of the process: synthetics awaiting graduation and thread    *)
(* keys left behind by an in-place session swap.                           *)
SupersededBy(e, key, row) ==
  {k \in SameAgent(e.session, e.agent) \ {key} :
     /\ row.pid # NoPid
     /\ instances[e.session][k].pid = row.pid}

(* Synthetic rows an event without a pane may take the pane of.            *)
Adoptable(e, key, row) ==
  {k \in SameAgent(e.session, e.agent) \ {key} :
     LET other == instances[e.session][k] IN
     /\ Synthetic(k)
     /\ row.pane = NoPane
     /\ other.pane # NoPane
     /\ row.pid = NoPid \/ other.pid = NoPid \/ other.pid = row.pid}

(* Synthetic rows of the pane the event's row is already bound to.         *)
SamePane(e, key, row) ==
  {k \in SameAgent(e.session, e.agent) \ {key} :
     /\ Synthetic(k)
     /\ row.pane # NoPane
     /\ instances[e.session][k].pane = row.pane}

UnseenUnlessActive(e, key, seed, D) ==
  IF e.status \in Terminal \cup {"waiting"} /\ (seed \/ e.session \notin active)
  THEN UnseenWithout(e.session, D) \cup {<<e.session, key>>}
  ELSE UnseenWithout(e.session, D) \ {<<e.session, key>>}

(* The unseen policy: an event that wants attention flags its row unless   *)
(* the user is looking at the session; any other status clears the flag.   *)
UnseenAfter(e, key, seed, D) ==
  LET flag == <<e.session, key>> IN
  IF e.status \in Terminal \cup {"waiting"}
  THEN UnseenWithout(e.session, D)
         \cup (IF seed \/ e.session \notin active THEN {flag} ELSE {})
  ELSE UnseenWithout(e.session, D) \ {flag}

StoreEvent(e, key, row, D, seed) ==
  /\ instances' = [instances EXCEPT ![e.session] =
                     [Without(@, D) EXCEPT ![key] = row]]
  /\ unseen' = UnseenAfter(e, key, seed, D)
  /\ paneMisses' = MissesWithout(e.session, D)
  /\ UNCHANGED <<active, endedPanes, alive, fold>>

(* A seeded event carries a transcript's mtime, so its row may be old.     *)
ApplyEvent(e, seed, age) ==
  LET key  == ThreadKey(e.agent, e.thread)
      row  == Inherited(e, instances[e.session][key], age)
      gone == SupersededBy(e, key, row)
  IN
  /\ fold = NoFold
  /\ seed \/ age = 0
  /\ \/ \E k \in gone :
          StoreEvent(e, key, AdoptPane(row, instances[e.session][k]), gone, seed)
     \/ /\ gone = {}
        /\ \E k \in Adoptable(e, key, row) :
             StoreEvent(e, key,
                        [row EXCEPT !.pane = instances[e.session][k].pane,
                                    !.live = instances[e.session][k].live],
                        {k}, seed)
     \/ /\ gone = {}
        /\ \E k \in SamePane(e, key, row) : StoreEvent(e, key, row, {k}, seed)
     \/ /\ gone \cup Adoptable(e, key, row) \cup SamePane(e, key, row) = {}
        /\ StoreEvent(e, key, row, {}, seed)

(* ApplyEvent with Ended: remove the row now and keep the scanner from     *)
(* minting a ghost while the exiting process still shows in its pane.      *)
ApplyEnded(s, a, t) ==
  LET key == ThreadKey(a, t) IN
  /\ fold = NoFold
  /\ key \in Keys(s)
  /\ endedPanes' = endedPanes \cup
       {<<s, a, p>> : p \in {instances[s][key].pane} \ {NoPane}}
  /\ DeleteRows(s, {key})
  /\ UNCHANGED <<active, alive, fold>>

-----------------------------------------------------------------------------
(* ApplyPanePresence                                                       *)

ActivePanes(P) == {pa.pane : pa \in P}

BoundPanes(s, P) ==
  {instances[s][k].pane : k \in {j \in Keys(s) :
     instances[s][j].live = "alive" /\ instances[s][j].pane \in ActivePanes(P)}}

SparePanes(s, P, a) ==
  Cardinality({pa \in P : pa.agent = a /\ pa.pane \notin BoundPanes(s, P)})

Missing(s, P) ==
  {k \in Keys(s) : /\ instances[s][k].live = "alive"
                   /\ instances[s][k].pane \notin ActivePanes(P) \cup {NoPane}}

(* The rows the spare panes of their agent exempt from a miss: as many as  *)
(* there are spare panes, whichever the loop meets first.                  *)
Exempt(s, P) ==
  {X \in SUBSET Missing(s, P) : \A a \in Agent :
     LET missing == {k \in Missing(s, P) : k.agent = a}
         spared  == Cardinality({k \in X : k.agent = a})
     IN IF SparePanes(s, P, a) < Cardinality(missing)
        THEN spared = SparePanes(s, P, a)
        ELSE spared = Cardinality(missing)}

(* The missing rows whose grace this scan exhausts.                        *)
Lost(s, P, exempt) ==
  {k \in Missing(s, P) \ exempt : paneMisses[s][k] + 1 >= MissThreshold}

MissesAfter(m, exempt, missing, lost) ==
  [k \in Key |-> IF k \in exempt \cup lost THEN 0
                 ELSE IF k \in missing THEN m[k] + 1 ELSE m[k]]

(* A row whose process is gone: exited and unbound from its pane.          *)
Retired(row) == [row EXCEPT !.live = "exited", !.pane = NoPane]

CountMisses(s, P, exempt, lost) ==
  /\ instances' = [instances EXCEPT ![s] =
       [k \in Key |-> IF k \notin lost THEN @[k]
                      ELSE IF Synthetic(k) THEN NoRow ELSE Retired(@[k])]]
  /\ paneMisses' = [paneMisses EXCEPT ![s] = MissesAfter(@, exempt, Missing(s, P), lost)]
  /\ unseen' = UnseenWithout(s, {k \in lost : Synthetic(k)})
  /\ fold' = [session  |-> s, panes |-> P, todo |-> P, claimed |-> {},
              detached |-> lost # {} /\ Keys(s) = {k \in lost : Synthetic(k)},
              changed  |-> lost # {}]

(* Step 1: rows whose pane disappeared take a miss; at the threshold a     *)
(* synthetic is deleted and a thread row marked exited.  Deleting the last *)
(* row deletes the session's map while the fold still holds it.            *)
BeginPresence(s, P) ==
  /\ fold = NoFold
  /\ \E exempt \in Exempt(s, P) : CountMisses(s, P, exempt, Lost(s, P, exempt))
  /\ UNCHANGED <<active, endedPanes, alive>>

(* The rows a pane may claim, by thread, else by pid, else, for rows that  *)
(* have no pid yet, any (the one already bound to the pane first).         *)
Unclaimed(pa) ==
  {k \in SameAgent(fold.session, pa.agent) \ fold.claimed :
     ~Synthetic(k) /\ instances[fold.session][k].live # "exited"}

ByThread(pa) == {k \in Unclaimed(pa) : k.id = pa.thread}

ByPid(pa) ==
  {k \in Unclaimed(pa) : instances[fold.session][k].pid = pa.pid /\ pa.thread = NoThread}

PidLess(pa)  == {k \in Unclaimed(pa) : instances[fold.session][k].pid = NoPid}
BoundHere(pa) == {k \in PidLess(pa) : instances[fold.session][k].pane = pa.pane}

Claimable(pa) ==
  CASE ByThread(pa) # {}  -> ByThread(pa)
    [] ByThread(pa) = {} /\ ByPid(pa) # {} -> ByPid(pa)
    [] ByThread(pa) = {} /\ ByPid(pa) = {} /\ BoundHere(pa) # {} -> BoundHere(pa)
    [] OTHER -> PidLess(pa)

(* retireSupersededPidRows: other rows holding the scanned pid.            *)
PidRows(pa, keep) ==
  {k \in SameAgent(fold.session, pa.agent) \ {keep} :
     instances[fold.session][k].pid = pa.pid}

(* retireDisplacedPaneRows: previous occupants of the pane whose process   *)
(* is gone.                                                                *)
DisplacedRows(pa, keep) ==
  {k \in SameAgent(fold.session, pa.agent) \ {keep} :
     LET other == instances[fold.session][k] IN
     /\ other.pane = pa.pane /\ other.live = "alive"
     /\ other.pid # pa.pid
     /\ other.pid \notin alive}

(* What the fold reports as a visible change; the mutant forgets that       *)
(* displacing another row is one.                                          *)
RestampOnly(key, row, gone, displaced) ==
  gone # {} \/ row # instances[fold.session][key]

VisibleChange(key, row, gone, displaced) ==
  gone # {} \/ displaced # {} \/ row # instances[fold.session][key]

Bind(pa, key, row, claims) ==
  LET s         == fold.session
      gone      == PidRows(pa, key)
      displaced == DisplacedRows(pa, key)
  IN
  /\ instances' = [instances EXCEPT ![s] =
       [k \in Key |-> IF k = key THEN row
                      ELSE IF k \in gone THEN NoRow
                      ELSE IF k \in displaced THEN Retired(@[k])
                      ELSE @[k]]]
  /\ unseen' = UnseenWithout(s, gone)
  /\ paneMisses' = MissesWithout(s, gone \cup displaced \cup {key})
  /\ fold' = [fold EXCEPT !.todo = @ \ {pa}, !.claimed = @ \cup claims,
                          !.changed = @ \/ VisibleChange(key, row, gone, displaced)]
  /\ UNCHANGED <<active, endedPanes, alive>>

(* Step 2, a row to claim: stamp the pane on it (the pid is not touched).  *)
ClaimRow(pa) ==
  /\ ~fold.detached
  /\ \E k \in Claimable(pa) :
       Bind(pa, k, [instances[fold.session][k] EXCEPT !.pane = pa.pane, !.live = "alive"],
            {k})

Suppressed(pa) == <<fold.session, pa.agent, pa.pane>> \in endedPanes

(* The key a new row is minted under: the thread's, unless a live process  *)
(* other than the scanned one holds it.                                    *)
MintKey(pa) ==
  LET held == instances[fold.session][ThreadKey(pa.agent, pa.thread)] IN
  IF /\ pa.thread # NoThread
     /\ held = NoRow \/ held.pid \in {NoPid, pa.pid} \/ held.live # "alive"
  THEN ThreadKey(pa.agent, pa.thread)
  ELSE SyntheticKey(pa.agent, pa.pane)

Minted(pa, existing) ==
  IF existing = NoRow
  THEN [status |-> "idle", live |-> "alive", pane |-> pa.pane, pid |-> pa.pid, age |-> 0]
  ELSE [existing EXCEPT !.pane = pa.pane, !.live = "alive", !.pid = pa.pid]

(* Step 2, nothing to claim: mint a row or restamp the one under its key.  *)
MintRow(pa) ==
  /\ ~fold.detached
  /\ Claimable(pa) = {}
  /\ ~Suppressed(pa)
  /\ Bind(pa, MintKey(pa), Minted(pa, instances[fold.session][MintKey(pa)]), {})

SkipSuppressed(pa) ==
  /\ ~fold.detached
  /\ Claimable(pa) = {}
  /\ Suppressed(pa)
  /\ fold' = [fold EXCEPT !.todo = @ \ {pa}]
  /\ UNCHANGED <<instances, unseen, active, paneMisses, endedPanes, alive>>

(* Step 2 on a detached map: the rows land in a map the tracker no longer  *)
(* holds, and the fold still reports a change.                             *)
BindDetached(pa) ==
  /\ fold.detached
  /\ fold' = [fold EXCEPT !.todo = @ \ {pa}]
  /\ UNCHANGED <<instances, unseen, active, paneMisses, endedPanes, alive>>

BindPane == fold # NoFold /\ \E pa \in fold.todo :
  ClaimRow(pa) \/ MintRow(pa) \/ SkipSuppressed(pa) \/ BindDetached(pa)

Exited(row) == [row EXCEPT !.live = "exited"]

(* Step 3: unclaimed thread rows no scan has ever confirmed are dead.      *)
Ghosts(s, claimed) ==
  {k \in Keys(s) \ claimed :
     /\ ~Synthetic(k)
     /\ instances[s][k].live = "unset"
     /\ instances[s][k].status # "running"}

EndPresence ==
  /\ fold # NoFold
  /\ fold.todo = {}
  /\ instances' = [instances EXCEPT ![fold.session] =
       [k \in Key |-> IF k \in Ghosts(fold.session, fold.claimed)
                      THEN Exited(@[k]) ELSE @[k]]]
  /\ fold' = NoFold
  /\ UNCHANGED <<unseen, active, paneMisses, endedPanes, alive>>

-----------------------------------------------------------------------------
(* The prune tiers                                                         *)

(* ReconcileStaleRunning asks the watcher's probe about a stale row: an    *)
(* ended verdict turns it to done, a working one restarts its clock, no    *)
(* signal leaves it.                                                       *)
IsStale(row) ==
  /\ row # NoRow
  /\ row.status = "running" /\ row.live = "alive" /\ row.pid # NoPid
  /\ row.age > StaleAge

Verdict == {"ended", "working", "nosignal"}

(* Mutant: the probe's verdict is stored as the row's status.              *)
VerdictAsStatus(row, verdict) ==
  IF verdict = "nosignal" THEN row ELSE [row EXCEPT !.status = verdict, !.age = 0]

Reconciled(row, verdict) ==
  CASE verdict = "ended"    -> [row EXCEPT !.status = "done", !.age = 0]
    [] verdict = "working"  -> [row EXCEPT !.age = 0]
    [] verdict = "nosignal" -> row

StaleRows == {f \in Session \X Key : IsStale(instances[f[1]][f[2]])}

(* The probe answers for a process and thread, so for a row.               *)
ReconcileStaleRunning ==
  /\ fold = NoFold
  /\ \E verdict \in [StaleRows -> Verdict] :
       instances' = [s \in Session |-> [k \in Key |->
         IF <<s, k>> \in StaleRows
         THEN Reconciled(instances[s][k], verdict[<<s, k>>])
         ELSE instances[s][k]]]
  /\ UNCHANGED <<unseen, active, paneMisses, endedPanes, alive, fold>>

(* PruneStuck and PruneTerminal: what each tier removes.                   *)
(* Mutant: a running row whose process exited is not stuck.                *)
IsStuckAlive(row) ==
  row # NoRow /\ row.status = "running" /\ row.live = "alive" /\ row.age > CeilingAge

IsStuck(row) ==
  /\ row # NoRow
  /\ row.status = "running"
  /\ row.age > StuckAge
  /\ row.live = "alive" => row.age > CeilingAge

(* Mutant: only terminal rows are pruned when their process exits.          *)
IsExitedTerminal(row) == row # NoRow /\ row.live = "exited" /\ row.status \in Terminal

IsExited(row) == row # NoRow /\ row.live = "exited" /\ row.status # "running"

Stuck  == [s \in Session |-> {k \in Key : IsStuck(instances[s][k])}]
Terminated == [s \in Session |-> {k \in Key : IsExited(instances[s][k])}]

PruneRows(dead) ==
  /\ fold = NoFold
  /\ \E s \in Session : dead[s] # {}
  /\ instances' = [s \in Session |-> Without(instances[s], dead[s])]
  /\ unseen' = {f \in unseen : f[2] \notin dead[f[1]]}
  /\ paneMisses' = [s \in Session |-> [k \in Key |->
                      IF k \in dead[s] THEN 0 ELSE paneMisses[s][k]]]
  /\ UNCHANGED <<active, endedPanes, alive, fold>>

PruneStuck    == PruneRows(Stuck)
PruneTerminal == PruneRows(Terminated)

(* RunLivenessSweepOnce: a dead pid marks its row exited, terminal rows    *)
(* excepted; the pane stays on the row.                                    *)
IsDead(row) ==
  /\ row # NoRow
  /\ row.pid # NoPid /\ row.pid \notin alive
  /\ row.live # "exited" /\ row.status \notin Terminal

Swept(row) == IF IsDead(row) THEN Exited(row) ELSE row

RunLivenessSweepOnce ==
  /\ fold = NoFold
  /\ instances' = [s \in Session |-> [k \in Key |-> Swept(instances[s][k])]]
  /\ UNCHANGED <<unseen, active, paneMisses, endedPanes, alive, fold>>

-----------------------------------------------------------------------------
(* The user                                                                *)

MarkSeen(s) ==
  /\ fold = NoFold
  /\ \E k \in Keys(s) : <<s, k>> \in unseen
  /\ unseen' = {f \in unseen : ~(f[1] = s /\ f[2] \in Keys(s))}
  /\ UNCHANGED <<instances, active, paneMisses, endedPanes, alive, fold>>

HandleFocus(s) ==
  /\ fold = NoFold
  /\ active' = {s}
  /\ unseen' = {f \in unseen : ~(f[1] = s /\ f[2] \in Keys(s))}
  /\ UNCHANGED <<instances, paneMisses, endedPanes, alive, fold>>

(* Dismiss removes the first row that matches every identifier the client  *)
(* supplied; which one is first is the map's choice.                       *)
Dismiss(s, k) ==
  /\ fold = NoFold
  /\ k \in Keys(s)
  /\ DeleteRows(s, {k})
  /\ UNCHANGED <<active, endedPanes, alive, fold>>

-----------------------------------------------------------------------------
(* The environment: time passes, a suppression window runs out, processes  *)
(* start and exit (also while a fold is open: the lock does not stop them). *)

Older(row) ==
  IF row # NoRow /\ row.status = "running" /\ row.age < MaxAge
  THEN [row EXCEPT !.age = @ + 1] ELSE row

Tick ==
  /\ fold = NoFold
  /\ instances' = [s \in Session |-> [k \in Key |-> Older(instances[s][k])]]
  /\ UNCHANGED <<unseen, active, paneMisses, endedPanes, alive, fold>>

SuppressionExpires ==
  /\ fold = NoFold
  /\ \E e \in endedPanes : endedPanes' = endedPanes \ {e}
  /\ UNCHANGED <<instances, unseen, active, paneMisses, alive, fold>>

ProcessStarts(p) ==
  /\ p \notin alive
  /\ alive' = alive \cup {p}
  /\ UNCHANGED <<instances, unseen, active, paneMisses, endedPanes, fold>>

ProcessExits(p) ==
  /\ p \in alive
  /\ alive' = alive \ {p}
  /\ UNCHANGED <<instances, unseen, active, paneMisses, endedPanes, fold>>

-----------------------------------------------------------------------------
Watcher ==
  \/ \E e \in Event, seed \in BOOLEAN, age \in 0 .. MaxAge : ApplyEvent(e, seed, age)
  \/ \E s \in Session, a \in Agent, t \in Thread : ApplyEnded(s, a, t)

Scanner ==
  \/ \E s \in Session, P \in PaneScan : BeginPresence(s, P)
  \/ BindPane
  \/ EndPresence

Maintenance ==
  \/ ReconcileStaleRunning
  \/ PruneStuck
  \/ PruneTerminal
  \/ RunLivenessSweepOnce

User ==
  \/ \E s \in Session : MarkSeen(s) \/ HandleFocus(s)
  \/ \E s \in Session, k \in Key : Dismiss(s, k)

Environment ==
  \/ Tick
  \/ SuppressionExpires
  \/ \E p \in Pid : ProcessStarts(p) \/ ProcessExits(p)

Next == Watcher \/ Scanner \/ Maintenance \/ User \/ Environment

Spec == Init /\ [][Next]_vars
-----------------------------------------------------------------------------
(* Properties                                                              *)

(* Type correctness of the tracker's maps and of the open fold.            *)
TypeOK ==
  /\ instances \in [Session -> [Key -> Row \cup {NoRow}]]
  /\ unseen \subseteq Session \X Key
  /\ active \subseteq Session
  /\ paneMisses \in [Session -> [Key -> Nat]]
  /\ endedPanes \subseteq Session \X Agent \X Pane
  /\ alive \subseteq Pid
  /\ fold \in Fold \cup {NoFold}

(* The side maps never outlive the row they describe (deleteInstance): a   *)
(* leftover unseen flag or miss count would be inherited by the next row   *)
(* minted under the same key.                                              *)
FlagsBelongToRows ==
  /\ \A f \in unseen : instances[f[1]][f[2]] # NoRow
  /\ \A s \in Session, k \in Key : paneMisses[s][k] > 0 => instances[s][k] # NoRow

(* "One live process hosts one thread row" (ApplyEvent) and                *)
(* "one-process-one-row" (retireSupersededPidRows): within a session no    *)
(* two rows of an agent hold the same pid, whatever mix of events, scans,  *)
(* id swaps and pid reuse built them.                                      *)
OneRowPerProcess ==
  \A s \in Session : \A j, k \in Keys(s) :
    /\ j.agent = k.agent
    /\ instances[s][j].pid = instances[s][k].pid
    /\ instances[s][j].pid # NoPid
    => j = k

(* A fold that has reported no change has changed no row: the pane scan    *)
(* loop broadcasts only on a reported change, so an unreported one would   *)
(* leave every sidebar pointing at the old pane.                           *)
UnreportedFoldChangesNothing ==
  [][fold' # NoFold /\ ~fold'.changed => UNCHANGED instances]_vars

(* An unseen flag on a surviving row goes only when the user looks at the  *)
(* whole session or the agent moves on.                                    *)
AttentionSurvives ==
  [][\A f \in unseen \ unseen' :
       \/ instances'[f[1]][f[2]] = NoRow
       \/ instances'[f[1]][f[2]].status \notin Terminal \cup {"waiting"}
       \/ \A g \in unseen' : g[1] # f[1]]_vars
=============================================================================
