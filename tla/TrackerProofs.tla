---------------------------- MODULE TrackerProofs ----------------------------
(***************************************************************************)
(* Theorems about Tracker for every number of sessions, agents, threads,   *)
(* panes and processes and every threshold: type correctness, that no two  *)
(* rows of an agent in a session hold one process, and that unseen flags   *)
(* and miss counts never outlive their row.                                *)
(***************************************************************************)
EXTENDS Tracker, TLAPS

USE SentinelAssumption, BoundAssumption, RowAssumption, FoldAssumption

-----------------------------------------------------------------------------
(* Rows                                                                    *)

(* The sentinels lie outside the sets they complete.                       *)
LEMMA Constants ==
  /\ CeilingAge \in Nat /\ MaxAge \in Nat /\ 0 \in 0 .. MaxAge
  /\ NoRow \notin Row /\ NoFold \notin Fold
BY DEF MaxAge

LEMMA InheritedRow ==
  ASSUME NEW e \in Event, NEW prev \in Row \cup {NoRow}, NEW age \in 0 .. MaxAge
  PROVE  /\ Inherited(e, prev, age) \in Row
         /\ Inherited(e, prev, age).status = e.status
BY Constants DEF Inherited, Event, Row, Status, Liveness, AgeOf

LEMMA AdoptedRow ==
  ASSUME NEW row \in Row, NEW from \in Row
  PROVE  /\ AdoptPane(row, from) \in Row
         /\ AdoptPane(row, from).pid = row.pid
         /\ AdoptPane(row, from).status = row.status
BY DEF AdoptPane, Row

LEMMA MintedRow ==
  ASSUME NEW pa \in Presence, NEW existing \in Row \cup {NoRow}
  PROVE  /\ Minted(pa, existing) \in Row
         /\ Minted(pa, existing).pid = pa.pid
         /\ Minted(pa, existing).pane = pa.pane
         /\ Minted(pa, existing).live = "alive"
         /\ existing # NoRow => Minted(pa, existing).status = existing.status
         /\ existing = NoRow => Minted(pa, existing).status = "idle"
BY Constants DEF Minted, Presence, Row, Status, Liveness

LEMMA ReconciledRow ==
  ASSUME NEW row \in Row, NEW verdict \in Verdict
  PROVE  /\ Reconciled(row, verdict) \in Row
         /\ Reconciled(row, verdict).pid = row.pid
         /\ Reconciled(row, verdict).pane = row.pane
         /\ Reconciled(row, verdict).live = row.live
BY Constants DEF Reconciled, Verdict, Row, Status, Terminal

LEMMA RetiredRow ==
  ASSUME NEW row \in Row
  PROVE  /\ Retired(row) \in Row
         /\ Retired(row).pid = row.pid
         /\ Retired(row).status = row.status
         /\ Retired(row).live = "exited"
BY DEF Retired, Row, Liveness

LEMMA ExitedRow ==
  ASSUME NEW row \in Row
  PROVE  /\ Exited(row) \in Row
         /\ Exited(row).pid = row.pid
         /\ Exited(row).pane = row.pane
         /\ Exited(row).status = row.status
         /\ Exited(row).live = "exited"
BY DEF Exited, Row, Liveness

LEMMA SweptRow ==
  ASSUME NEW row \in Row \cup {NoRow}
  PROVE  /\ Swept(row) = NoRow <=> row = NoRow
         /\ row \in Row => /\ Swept(row) \in Row
                           /\ Swept(row).pid = row.pid
                           /\ Swept(row).pane = row.pane
                           /\ Swept(row).status = row.status
                           /\ Swept(row).live \in {row.live, "exited"}
BY Constants, ExitedRow DEF Swept, IsDead

LEMMA OlderRow ==
  ASSUME NEW row \in Row \cup {NoRow}
  PROVE  /\ Older(row) = NoRow <=> row = NoRow
         /\ row \in Row => /\ Older(row) \in Row
                           /\ Older(row).pid = row.pid
                           /\ Older(row).pane = row.pane
                           /\ Older(row).status = row.status
                           /\ Older(row).live = row.live
<1>1. ASSUME row \in Row, row.status = "running", row.age < MaxAge
      PROVE  [row EXCEPT !.age = @ + 1] \in Row
  BY <1>1, Constants DEF Row
<1>. QED BY <1>1, Constants DEF Older, Row

-----------------------------------------------------------------------------
(* Type correctness                                                        *)

LEMMA RowsTyped ==
  ASSUME TypeOK, NEW s \in Session, NEW k \in Key
  PROVE  /\ instances[s][k] \in Row \cup {NoRow}
         /\ k \in Keys(s) <=> instances[s][k] # NoRow
         /\ k \in Keys(s) => instances[s][k] \in Row
BY DEF TypeOK, Keys

(* The two maps a deletion writes, key by key.                             *)
LEMMA MapsTyped ==
  ASSUME TypeOK, NEW s \in Session, NEW D \in SUBSET Key
  PROVE  /\ Without(instances[s], D) \in [Key -> Row \cup {NoRow}]
         /\ MissesWithout(s, D) \in [Session -> [Key -> Nat]]
         /\ UnseenWithout(s, D) \subseteq unseen
         /\ [instances EXCEPT ![s] = Without(@, D)]
              \in [Session -> [Key -> Row \cup {NoRow}]]
BY DEF TypeOK, Without, MissesWithout, UnseenWithout

LEMMA StoreEventTyped ==
  ASSUME TypeOK, NEW e \in Event, NEW key \in Key, NEW row \in Row,
         NEW D \in SUBSET Key, NEW seed \in BOOLEAN,
         StoreEvent(e, key, row, D, seed)
  PROVE  TypeOK'
<1>1. e.session \in Session
  BY DEF Event
<1>2. instances' \in [Session -> [Key -> Row \cup {NoRow}]]
  BY <1>1, MapsTyped DEF StoreEvent, TypeOK
<1>3. unseen' \subseteq Session \X Key
  BY <1>1 DEF StoreEvent, TypeOK, UnseenAfter, UnseenWithout
<1>4. paneMisses' \in [Session -> [Key -> Nat]]
  BY <1>1, MapsTyped DEF StoreEvent
<1>. QED BY <1>2, <1>3, <1>4 DEF StoreEvent, TypeOK

(* What every branch of ApplyEvent does: it stores a row of the event's    *)
(* status and deletes the other rows that hold the row's pid.              *)
Stored(e, seed, row, D) ==
  /\ StoreEvent(e, ThreadKey(e.agent, e.thread), row, D, seed)
  /\ ThreadKey(e.agent, e.thread) \notin D
  /\ row.status = e.status
  /\ \A k \in SameAgent(e.session, e.agent) \ {ThreadKey(e.agent, e.thread)} :
       row.pid # NoPid /\ instances[e.session][k].pid = row.pid => k \in D

LEMMA ApplyEventStores ==
  ASSUME TypeOK, NEW e \in Event, NEW seed \in BOOLEAN, NEW age \in 0 .. MaxAge,
         ApplyEvent(e, seed, age)
  PROVE  \E row \in Row, D \in SUBSET Key : Stored(e, seed, row, D)
<1>. DEFINE key  == ThreadKey(e.agent, e.thread)
            prev == instances[e.session][key]
            row  == Inherited(e, prev, age)
            gone == SupersededBy(e, key, row)
            others == SameAgent(e.session, e.agent) \ {key}
<1>1. /\ e.session \in Session
      /\ key \in Key
      /\ ~Synthetic(key)
  BY DEF Event, ThreadKey, Key, Synthetic
<1>2. prev \in Row \cup {NoRow}
  BY <1>1, RowsTyped
<1>3. row \in Row /\ row.status = e.status
  BY <1>2, InheritedRow
<1>4. others \subseteq Key /\ key \notin others
      /\ \A k \in others : instances[e.session][k] \in Row
  BY <1>1, RowsTyped DEF SameAgent, Keys
<1>5. gone = {k \in others : row.pid # NoPid /\ instances[e.session][k].pid = row.pid}
  BY DEF SupersededBy
<1>. HIDE DEF key, prev, row, gone, others
<1>6. CASE \E k \in gone :
             StoreEvent(e, key, AdoptPane(row, instances[e.session][k]), gone, seed)
  <2>1. PICK k \in gone :
          StoreEvent(e, key, AdoptPane(row, instances[e.session][k]), gone, seed)
    BY <1>6
  <2>2. instances[e.session][k] \in Row
    BY <1>4, <1>5
  <2>3. /\ AdoptPane(row, instances[e.session][k]) \in Row
        /\ AdoptPane(row, instances[e.session][k]).pid = row.pid
        /\ AdoptPane(row, instances[e.session][k]).status = row.status
    BY <1>3, <2>2, AdoptedRow
  <2>. QED BY <1>1, <1>3, <1>4, <1>5, <2>1, <2>3 DEF Stored, key, others
<1>7. CASE gone = {} /\ \E k \in Adoptable(e, key, row) :
             StoreEvent(e, key, [row EXCEPT !.pane = instances[e.session][k].pane,
                                            !.live = instances[e.session][k].live],
                        {k}, seed)
  <2>1. PICK k \in Adoptable(e, key, row) :
          StoreEvent(e, key, [row EXCEPT !.pane = instances[e.session][k].pane,
                                         !.live = instances[e.session][k].live],
                     {k}, seed)
    BY <1>7
  <2>. DEFINE adopted == [row EXCEPT !.pane = instances[e.session][k].pane,
                                     !.live = instances[e.session][k].live]
  <2>2. k \in others
    BY DEF Adoptable, others
  <2>3. adopted \in Row /\ adopted.pid = row.pid /\ adopted.status = row.status
    BY <1>3, <1>4, <2>2 DEF Row
  <2>4. StoreEvent(e, key, adopted, {k}, seed)
    BY <2>1
  <2>. HIDE DEF adopted
  <2>5. Stored(e, seed, adopted, {k})
    BY <1>3, <1>4, <1>5, <1>7, <2>2, <2>3, <2>4 DEF Stored, key, others
  <2>. QED BY <1>4, <2>2, <2>3, <2>5
<1>8. CASE gone = {} /\ \E k \in SamePane(e, key, row) : StoreEvent(e, key, row, {k}, seed)
  <2>1. PICK k \in SamePane(e, key, row) : StoreEvent(e, key, row, {k}, seed)
    BY <1>8
  <2>2. k \in others
    BY DEF SamePane, others
  <2>. QED BY <1>1, <1>3, <1>4, <1>5, <1>8, <2>1, <2>2 DEF Stored, key, others
<1>9. CASE gone = {} /\ StoreEvent(e, key, row, {}, seed)
  BY <1>1, <1>3, <1>4, <1>5, <1>9 DEF Stored, key, others
<1>. QED BY <1>6, <1>7, <1>8, <1>9 DEF ApplyEvent, key, prev, row, gone, others

-----------------------------------------------------------------------------
(* Most actions only delete rows or rewrite rows without touching the pid: *)
(* each is shown type-correct and pid-preserving at once.                  *)

KeepsPids ==
  \A s \in Session : \A k \in Key :
    instances'[s][k] # NoRow =>
      instances[s][k] # NoRow /\ instances'[s][k].pid = instances[s][k].pid

LEMMA DeleteRowsTyped ==
  ASSUME TypeOK, NEW s \in Session, NEW D \in SUBSET Key, DeleteRows(s, D)
  PROVE  /\ instances' \in [Session -> [Key -> Row \cup {NoRow}]]
         /\ unseen' \subseteq Session \X Key
         /\ paneMisses' \in [Session -> [Key -> Nat]]
         /\ KeepsPids
<1>1. /\ instances' \in [Session -> [Key -> Row \cup {NoRow}]]
      /\ unseen' \subseteq Session \X Key
      /\ paneMisses' \in [Session -> [Key -> Nat]]
  BY MapsTyped DEF DeleteRows, TypeOK
<1>2. KeepsPids
  BY DEF DeleteRows, TypeOK, Without, KeepsPids
<1>. QED BY <1>1, <1>2

LEMMA BeginPresenceTyped ==
  ASSUME TypeOK, NEW s \in Session, NEW P \in SUBSET Presence, BeginPresence(s, P)
  PROVE  TypeOK' /\ KeepsPids
<1>1. PICK exempt \in Exempt(s, P) : CountMisses(s, P, exempt, Lost(s, P, exempt))
  BY DEF BeginPresence
<1>. DEFINE lost == Lost(s, P, exempt)
<1>2. \A k \in lost : k \in Key /\ instances[s][k] \in Row
  BY RowsTyped DEF Lost, Missing, Keys
<1>3. \A k \in lost : /\ Retired(instances[s][k]) \in Row
                      /\ Retired(instances[s][k]).pid = instances[s][k].pid
  BY <1>2, RetiredRow
<1>. HIDE DEF lost
<1>4. CountMisses(s, P, exempt, lost)
  BY <1>1 DEF lost
<1>5. instances' \in [Session -> [Key -> Row \cup {NoRow}]] /\ KeepsPids
  <2>. DEFINE after == [k \in Key |-> IF k \notin lost THEN instances[s][k]
                                     ELSE IF Synthetic(k) THEN NoRow
                                     ELSE Retired(instances[s][k])]
  <2>1. instances' = [instances EXCEPT ![s] = after]
    BY <1>4 DEF CountMisses
  <2>2. after \in [Key -> Row \cup {NoRow}]
    BY <1>3 DEF TypeOK
  <2>3. \A k \in Key : after[k] # NoRow =>
          instances[s][k] # NoRow /\ after[k].pid = instances[s][k].pid
    BY <1>2, <1>3, Constants
  <2>. HIDE DEF after
  <2>. QED BY <2>1, <2>2, <2>3 DEF TypeOK, KeepsPids
<1>6. unseen' \subseteq Session \X Key
  BY <1>4 DEF CountMisses, TypeOK, UnseenWithout
<1>7. MissesAfter(paneMisses[s], exempt, Missing(s, P), lost) \in [Key -> Nat]
  BY DEF MissesAfter, TypeOK
<1>8. paneMisses' \in [Session -> [Key -> Nat]]
  BY <1>4, <1>7 DEF CountMisses, TypeOK
<1>9. fold' \in Fold
  BY <1>4 DEF CountMisses, Fold
<1>10. active' \subseteq Session /\ endedPanes' \subseteq Session \X Agent \X Pane /\ alive' \subseteq Pid
  BY DEF BeginPresence, TypeOK
<1>. QED BY <1>5, <1>6, <1>8, <1>9, <1>10 DEF TypeOK

LEMMA EndPresenceTyped ==
  ASSUME TypeOK, EndPresence
  PROVE  TypeOK' /\ KeepsPids
<1>1. fold \in Fold /\ fold.session \in Session
  BY DEF EndPresence, TypeOK, Fold
<1>. DEFINE s == fold.session
            after == [k \in Key |-> IF k \in Ghosts(s, fold.claimed)
                                   THEN Exited(instances[s][k]) ELSE instances[s][k]]
<1>2. instances' = [instances EXCEPT ![s] = after]
  BY DEF EndPresence
<1>3. after \in [Key -> Row \cup {NoRow}]
  BY <1>1, RowsTyped, ExitedRow DEF Ghosts
<1>4. \A k \in Key : after[k] # NoRow =>
        instances[s][k] # NoRow /\ after[k].pid = instances[s][k].pid
  BY <1>1, RowsTyped, ExitedRow, Constants DEF Ghosts
<1>. HIDE DEF after
<1>5. instances' \in [Session -> [Key -> Row \cup {NoRow}]] /\ KeepsPids
  BY <1>1, <1>2, <1>3, <1>4 DEF TypeOK, KeepsPids
<1>. QED BY <1>5 DEF EndPresence, TypeOK

LEMMA PruneRowsTyped ==
  ASSUME TypeOK, NEW dead \in [Session -> SUBSET Key], PruneRows(dead)
  PROVE  TypeOK' /\ KeepsPids
<1>1. instances' \in [Session -> [Key -> Row \cup {NoRow}]] /\ KeepsPids
  BY DEF PruneRows, Without, TypeOK, KeepsPids
<1>2. unseen' \subseteq Session \X Key /\ paneMisses' \in [Session -> [Key -> Nat]]
  BY DEF PruneRows, TypeOK
<1>. QED BY <1>1, <1>2 DEF PruneRows, TypeOK

(* The passes that rewrite every row in place.                             *)
LEMMA RewriteTyped ==
  ASSUME TypeOK,
         ReconcileStaleRunning \/ RunLivenessSweepOnce \/ Tick
  PROVE  TypeOK' /\ KeepsPids
<1>1. CASE ReconcileStaleRunning
  <2>1. PICK verdict \in [StaleRows -> Verdict] :
          instances' = [s \in Session |-> [k \in Key |->
            IF <<s, k>> \in StaleRows
            THEN Reconciled(instances[s][k], verdict[<<s, k>>])
            ELSE instances[s][k]]]
    BY <1>1 DEF ReconcileStaleRunning
  <2>2. ASSUME NEW s \in Session, NEW k \in Key, <<s, k>> \in StaleRows
        PROVE  /\ instances[s][k] \in Row
               /\ Reconciled(instances[s][k], verdict[<<s, k>>]) \in Row
               /\ Reconciled(instances[s][k], verdict[<<s, k>>]).pid = instances[s][k].pid
    BY <2>2, RowsTyped, ReconciledRow DEF StaleRows, IsStale
  <2>3. instances' \in [Session -> [Key -> Row \cup {NoRow}]]
    BY <2>1, <2>2, RowsTyped
  <2>4. KeepsPids
    BY <2>1, <2>2, Constants DEF KeepsPids
  <2>. QED BY <1>1, <2>3, <2>4 DEF ReconcileStaleRunning, TypeOK
<1>2. CASE RunLivenessSweepOnce
  <2>1. instances' \in [Session -> [Key -> Row \cup {NoRow}]]
    BY <1>2, RowsTyped, SweptRow DEF RunLivenessSweepOnce
  <2>2. KeepsPids
    BY <1>2, RowsTyped, SweptRow DEF RunLivenessSweepOnce, KeepsPids
  <2>. QED BY <1>2, <2>1, <2>2 DEF RunLivenessSweepOnce, TypeOK
<1>3. CASE Tick
  <2>1. instances' \in [Session -> [Key -> Row \cup {NoRow}]]
    BY <1>3, RowsTyped, OlderRow DEF Tick
  <2>2. KeepsPids
    BY <1>3, RowsTyped, OlderRow DEF Tick, KeepsPids
  <2>. QED BY <1>3, <2>1, <2>2 DEF Tick, TypeOK
<1>. QED BY <1>1, <1>2, <1>3

-----------------------------------------------------------------------------
(* The binding of one pane                                                 *)

(* What Bind leaves of the session's rows: the bound row, no other row of  *)
(* the scanned process, and every other row with its pid.                  *)
LEMMA BindRows ==
  ASSUME TypeOK, fold # NoFold, NEW pa \in fold.todo, NEW key \in Key, NEW row \in Row,
         NEW claims \in SUBSET Key, Bind(pa, key, row, claims)
  PROVE  /\ TypeOK'
         /\ instances'[fold.session][key] = row
         /\ \A s \in Session : \A k \in Key :
              /\ ~(s = fold.session /\ k = key)
              /\ instances'[s][k] # NoRow
              =>
                /\ instances[s][k] # NoRow
                /\ instances'[s][k].pid = instances[s][k].pid
                /\ s = fold.session => k \notin PidRows(pa, key)
<1>. DEFINE s         == fold.session
            gone      == PidRows(pa, key)
            displaced == DisplacedRows(pa, key)
            after     == [k \in Key |-> IF k = key THEN row
                                        ELSE IF k \in gone THEN NoRow
                                        ELSE IF k \in displaced THEN Retired(instances[s][k])
                                        ELSE instances[s][k]]
<1>1. fold \in Fold /\ s \in Session /\ pa \in Presence
  BY DEF TypeOK, Fold
<1>2. instances' = [instances EXCEPT ![s] = after]
  BY DEF Bind
<1>3. \A k \in displaced : instances[s][k] \in Row
  BY <1>1, RowsTyped DEF DisplacedRows, SameAgent, Keys
<1>4. after \in [Key -> Row \cup {NoRow}]
  BY <1>1, <1>3, RowsTyped, RetiredRow
<1>5. \A k \in Key : k # key /\ after[k] # NoRow =>
        instances[s][k] # NoRow /\ after[k].pid = instances[s][k].pid /\ k \notin gone
  BY <1>1, <1>3, RowsTyped, RetiredRow, Constants
<1>6. after[key] = row
  OBVIOUS
<1>. HIDE DEF after
<1>7. instances' \in [Session -> [Key -> Row \cup {NoRow}]]
  BY <1>1, <1>2, <1>4 DEF TypeOK
<1>8. unseen' \subseteq Session \X Key /\ paneMisses' \in [Session -> [Key -> Nat]]
  <2>1. gone \cup displaced \cup {key} \in SUBSET Key
    BY DEF PidRows, DisplacedRows, SameAgent, Keys
  <2>. HIDE DEF gone, displaced
  <2>2. unseen' = UnseenWithout(s, gone)
        /\ paneMisses' = MissesWithout(s, gone \cup displaced \cup {key})
    BY DEF Bind, gone, displaced
  <2>. QED BY <1>1, <2>1, <2>2, MapsTyped DEF TypeOK, UnseenWithout
<1>9. fold' \in Fold
  <2>1. VisibleChange(key, row, gone, displaced) \in BOOLEAN
    BY DEF VisibleChange
  <2>2. fold' = [fold EXCEPT !.todo = @ \ {pa}, !.claimed = @ \cup claims,
                             !.changed = @ \/ VisibleChange(key, row, gone, displaced)]
    BY DEF Bind
  <2>. HIDE DEF gone, displaced
  <2>. QED BY <1>1, <2>1, <2>2 DEF Fold
<1>10. TypeOK'
  BY <1>7, <1>8, <1>9 DEF Bind, TypeOK
<1>. QED BY <1>1, <1>2, <1>5, <1>6, <1>10 DEF TypeOK

(* Claiming stamps an existing row without touching its pid; minting       *)
(* writes the scanned pid; the two other outcomes change no row.           *)
LEMMA BindPaneRows ==
  ASSUME TypeOK, BindPane
  PROVE  \/ UNCHANGED instances /\ UNCHANGED <<unseen, paneMisses>> /\ TypeOK'
         \/ \E pa \in fold.todo, key \in Key, row \in Row, claims \in SUBSET Key :
              /\ fold # NoFold /\ pa \in Presence
              /\ Bind(pa, key, row, claims)
              /\ key.agent = pa.agent
              /\ \/ /\ instances[fold.session][key] # NoRow
                    /\ row.pid = instances[fold.session][key].pid
                    /\ row.status = instances[fold.session][key].status
                    /\ ~Synthetic(key)
                 \/ /\ row = Minted(pa, instances[fold.session][key])
                    /\ key = MintKey(pa)
<1>1. fold # NoFold /\ fold \in Fold /\ fold.session \in Session
  BY DEF BindPane, TypeOK, Fold
<1>2. PICK pa \in fold.todo :
        ClaimRow(pa) \/ MintRow(pa) \/ SkipSuppressed(pa) \/ BindDetached(pa)
  BY DEF BindPane
<1>3. pa \in Presence
  BY <1>1 DEF Fold
<1>4. CASE ClaimRow(pa)
  <2>1. PICK k \in Claimable(pa) :
          Bind(pa, k, [instances[fold.session][k] EXCEPT !.pane = pa.pane, !.live = "alive"],
               {k})
    BY <1>4 DEF ClaimRow
  <2>2. k \in Unclaimed(pa)
    BY DEF Claimable, ByThread, ByPid, PidLess, BoundHere
  <2>3. k \in Key /\ k.agent = pa.agent /\ ~Synthetic(k) /\ instances[fold.session][k] \in Row
    BY <1>1, <2>2, RowsTyped DEF Unclaimed, SameAgent, Keys
  <2>. DEFINE row == [instances[fold.session][k] EXCEPT !.pane = pa.pane, !.live = "alive"]
  <2>4. row \in Row /\ row.pid = instances[fold.session][k].pid
                    /\ row.status = instances[fold.session][k].status
    BY <1>3, <2>3 DEF Row, Liveness, Presence
  <2>5. Bind(pa, k, row, {k})
    BY <2>1
  <2>. HIDE DEF row
  <2>. QED BY <1>1, <1>3, <2>3, <2>4, <2>5, Constants
<1>5. CASE MintRow(pa)
  <2>. DEFINE key == MintKey(pa)
              row == Minted(pa, instances[fold.session][key])
  <2>1. key \in Key /\ key.agent = pa.agent
    BY <1>3 DEF MintKey, ThreadKey, SyntheticKey, Key, Presence
  <2>2. row \in Row
    BY <1>1, <1>3, <2>1, RowsTyped, MintedRow
  <2>3. Bind(pa, key, row, {})
    BY <1>5 DEF MintRow
  <2>. HIDE DEF key, row
  <2>4. row = Minted(pa, instances[fold.session][key]) /\ key = MintKey(pa)
    BY DEF key, row
  <2>. QED BY <1>1, <1>3, <2>1, <2>2, <2>3, <2>4
<1>6. CASE SkipSuppressed(pa) \/ BindDetached(pa)
  <2>1. fold' = [fold EXCEPT !.todo = @ \ {pa}]
        /\ UNCHANGED <<instances, unseen, active, paneMisses, endedPanes, alive>>
    BY <1>6 DEF SkipSuppressed, BindDetached
  <2>2. fold' \in Fold
    BY <1>1, <2>1 DEF Fold
  <2>. QED BY <2>1, <2>2 DEF TypeOK
<1>. QED BY <1>2, <1>4, <1>5, <1>6

-----------------------------------------------------------------------------
(* The steps that change no row, and the deletions outside the prune tiers *)

LEMMA QuietTyped ==
  ASSUME TypeOK,
         \/ \E s \in Session : MarkSeen(s) \/ HandleFocus(s)
         \/ SuppressionExpires
         \/ \E p \in Pid : ProcessStarts(p) \/ ProcessExits(p)
         \/ UNCHANGED vars
  PROVE  /\ TypeOK' /\ UNCHANGED <<instances, paneMisses>>
         /\ unseen' \subseteq unseen
BY DEF TypeOK, MarkSeen, HandleFocus, SuppressionExpires, ProcessStarts, ProcessExits, vars

LEMMA DeletionTyped ==
  ASSUME TypeOK, NEW s \in Session,
         \/ \E a \in Agent, t \in Thread : ApplyEnded(s, a, t)
         \/ \E k \in Key : Dismiss(s, k)
  PROVE  /\ TypeOK' /\ KeepsPids
         /\ \E D \in SUBSET Key : DeleteRows(s, D)
<1>1. CASE \E a \in Agent, t \in Thread : ApplyEnded(s, a, t)
  <2>1. PICK a \in Agent, t \in Thread : ApplyEnded(s, a, t)
    BY <1>1
  <2>. DEFINE key == ThreadKey(a, t)
  <2>2. key \in Key /\ key \in Keys(s)
    BY <2>1 DEF ApplyEnded, Keys
  <2>3. DeleteRows(s, {key}) /\ UNCHANGED <<active, alive, fold>>
    BY <2>1 DEF ApplyEnded
  <2>4. endedPanes' \subseteq Session \X Agent \X Pane
    <3>1. instances[s][key].pane \in Pane \cup {NoPane}
      BY <2>2, RowsTyped DEF Row
    <3>2. endedPanes' = endedPanes \cup {<<s, a, p>> : p \in {instances[s][key].pane} \ {NoPane}}
      BY <2>1 DEF ApplyEnded
    <3>. QED BY <3>1, <3>2 DEF TypeOK
  <2>. HIDE DEF key
  <2>. QED BY <2>2, <2>3, <2>4, DeleteRowsTyped DEF TypeOK
<1>2. CASE \E k \in Key : Dismiss(s, k)
  <2>1. PICK k \in Key : Dismiss(s, k)
    BY <1>2
  <2>2. DeleteRows(s, {k}) /\ UNCHANGED <<active, endedPanes, alive, fold>>
    BY <2>1 DEF Dismiss
  <2>. QED BY <2>2, DeleteRowsTyped DEF TypeOK
<1>. QED BY <1>1, <1>2

LEMMA PrunesTyped ==
  ASSUME TypeOK, PruneStuck \/ PruneTerminal
  PROVE  TypeOK' /\ KeepsPids
BY PruneRowsTyped DEF PruneStuck, PruneTerminal, Stuck, Terminated

-----------------------------------------------------------------------------
(* Type correctness of the tracker's maps and of the fold in progress: no  *)
(* sequence of events, scans, prunes and user commands leaves a malformed  *)
(* row, a stray flag or a negative counter behind.                         *)
THEOREM TypeCorrect == Spec => []TypeOK
<1>1. Init => TypeOK
  BY DEF Init, TypeOK
<1>2. ASSUME TypeOK, [Next]_vars PROVE TypeOK'
  <2>1. ASSUME NEW e \in Event, NEW seed \in BOOLEAN, NEW age \in 0 .. MaxAge,
               ApplyEvent(e, seed, age)
        PROVE  TypeOK'
    <3>1. PICK row \in Row, D \in SUBSET Key : Stored(e, seed, row, D)
      BY <1>2, <2>1, ApplyEventStores
    <3>2. ThreadKey(e.agent, e.thread) \in Key
      BY DEF ThreadKey, Key, Event
    <3>. QED BY <1>2, <3>1, <3>2, StoreEventTyped DEF Stored
  <2>2. CASE \E s \in Session, a \in Agent, t \in Thread : ApplyEnded(s, a, t)
    BY <1>2, <2>2, DeletionTyped
  <2>3. CASE \E s \in Session, P \in PaneScan : BeginPresence(s, P)
    BY <1>2, <2>3, BeginPresenceTyped DEF PaneScan
  <2>4. CASE BindPane
    BY <1>2, <2>4, BindPaneRows, BindRows
  <2>5. CASE EndPresence
    BY <1>2, <2>5, EndPresenceTyped
  <2>6. CASE ReconcileStaleRunning \/ RunLivenessSweepOnce \/ Tick
    BY <1>2, <2>6, RewriteTyped
  <2>7. CASE PruneStuck \/ PruneTerminal
    BY <1>2, <2>7, PrunesTyped
  <2>8. CASE \E s \in Session, k \in Key : Dismiss(s, k)
    BY <1>2, <2>8, DeletionTyped
  <2>9. CASE \/ \E s \in Session : MarkSeen(s) \/ HandleFocus(s)
             \/ SuppressionExpires
             \/ \E p \in Pid : ProcessStarts(p) \/ ProcessExits(p)
             \/ UNCHANGED vars
    BY <1>2, <2>9, QuietTyped
  <2>. QED BY <1>2, <2>1, <2>2, <2>3, <2>4, <2>5, <2>6, <2>7, <2>8, <2>9
           DEF Next, Watcher, Scanner, Maintenance, User, Environment
<1>. QED BY <1>1, <1>2, PTL DEF Spec

-----------------------------------------------------------------------------
(* One process, one row                                                    *)

(* An action that invents no row and moves no pid cannot give a process a  *)
(* second row.                                                             *)
LEMMA KeepsPidsKeepsOneRow ==
  ASSUME TypeOK, TypeOK', OneRowPerProcess, KeepsPids
  PROVE  OneRowPerProcess'
BY DEF OneRowPerProcess, KeepsPids, Keys

LEMMA StoreEventKeepsOneRow ==
  ASSUME TypeOK, OneRowPerProcess, NEW e \in Event, NEW seed \in BOOLEAN,
         NEW row \in Row, NEW D \in SUBSET Key, Stored(e, seed, row, D)
  PROVE  OneRowPerProcess'
<1>. DEFINE key == ThreadKey(e.agent, e.thread)
<1>1. key \in Key /\ e.session \in Session /\ key.agent = e.agent
  BY DEF ThreadKey, Key, Event
<1>2. instances' = [instances EXCEPT ![e.session] = [Without(@, D) EXCEPT ![key] = row]]
  BY DEF Stored, StoreEvent
<1>3. \A s \in Session : \A k \in Key :
        instances'[s][k] = IF s = e.session /\ k = key THEN row
                           ELSE IF s = e.session /\ k \in D THEN NoRow
                           ELSE instances[s][k]
  BY <1>1, <1>2 DEF Without, TypeOK
<1>4. \A k \in Keys(e.session) \ {key} :
        k.agent = e.agent /\ row.pid # NoPid /\ instances[e.session][k].pid = row.pid => k \in D
  BY DEF Stored, SameAgent
<1>. HIDE DEF key
<1>. SUFFICES ASSUME NEW s \in Session, NEW j \in Keys(s)', NEW k \in Keys(s)',
                     j.agent = k.agent, j # k,
                     instances'[s][j].pid = instances'[s][k].pid,
                     instances'[s][j].pid # NoPid
              PROVE  FALSE
  BY DEF OneRowPerProcess
<1>5. j \in Key /\ k \in Key /\ instances'[s][j] # NoRow /\ instances'[s][k] # NoRow
  BY DEF Keys
<1>6. CASE s # e.session \/ (j # key /\ k # key)
  BY <1>3, <1>5, <1>6 DEF OneRowPerProcess, Keys
<1>7. CASE s = e.session /\ j = key
  BY <1>1, <1>3, <1>4, <1>5, <1>7 DEF Keys
<1>8. CASE s = e.session /\ k = key
  BY <1>1, <1>3, <1>4, <1>5, <1>8 DEF Keys
<1>. QED BY <1>6, <1>7, <1>8

LEMMA BindPaneKeepsOneRow ==
  ASSUME TypeOK, OneRowPerProcess, BindPane
  PROVE  OneRowPerProcess'
<1>1. CASE UNCHANGED instances
  BY <1>1 DEF OneRowPerProcess, Keys
<1>2. CASE \E pa \in fold.todo, key \in Key, row \in Row, claims \in SUBSET Key :
             /\ fold # NoFold /\ pa \in Presence
             /\ Bind(pa, key, row, claims)
             /\ key.agent = pa.agent
             /\ \/ /\ instances[fold.session][key] # NoRow
                   /\ row.pid = instances[fold.session][key].pid
                \/ row = Minted(pa, instances[fold.session][key])
  <2>1. PICK pa \in fold.todo, key \in Key, row \in Row, claims \in SUBSET Key :
             /\ fold # NoFold /\ pa \in Presence
             /\ Bind(pa, key, row, claims)
             /\ key.agent = pa.agent
             /\ \/ /\ instances[fold.session][key] # NoRow
                   /\ row.pid = instances[fold.session][key].pid
                \/ row = Minted(pa, instances[fold.session][key])
    BY <1>2
  <2>. DEFINE s0 == fold.session
  <2>2. s0 \in Session
    BY <2>1 DEF TypeOK, Fold
  <2>3. /\ instances'[s0][key] = row
        /\ \A s \in Session : \A k \in Key :
             /\ ~(s = s0 /\ k = key)
             /\ instances'[s][k] # NoRow
             =>
               /\ instances[s][k] # NoRow
               /\ instances'[s][k].pid = instances[s][k].pid
               /\ s = s0 => k \notin PidRows(pa, key)
    BY <2>1, BindRows
  <2>4. \A k \in Key \ {key} : instances[s0][k] # NoRow /\ k.agent = pa.agent
          /\ k \notin PidRows(pa, key) => instances[s0][k].pid # pa.pid
    BY <2>1 DEF PidRows, SameAgent, Keys
  <2>5. row.pid = pa.pid \/ (instances[s0][key] # NoRow /\ row.pid = instances[s0][key].pid)
    BY <2>1, <2>2, RowsTyped, MintedRow
  <2>. SUFFICES ASSUME NEW s \in Session, NEW j \in Keys(s)', NEW k \in Keys(s)',
                       j.agent = k.agent, j # k,
                       instances'[s][j].pid = instances'[s][k].pid,
                       instances'[s][j].pid # NoPid
                PROVE  FALSE
    BY DEF OneRowPerProcess
  <2>6. j \in Key /\ k \in Key /\ instances'[s][j] # NoRow /\ instances'[s][k] # NoRow
    BY DEF Keys
  <2>. HIDE DEF s0
  <2>7. CASE s # s0 \/ (j # key /\ k # key)
    BY <2>3, <2>6, <2>7 DEF OneRowPerProcess, Keys
  <2>8. CASE s = s0 /\ j = key
    BY <2>1, <2>3, <2>4, <2>5, <2>6, <2>8 DEF OneRowPerProcess, Keys
  <2>9. CASE s = s0 /\ k = key
    BY <2>1, <2>3, <2>4, <2>5, <2>6, <2>9 DEF OneRowPerProcess, Keys
  <2>. QED BY <2>7, <2>8, <2>9
<1>. QED BY <1>1, <1>2, BindPaneRows

(* Whatever mix of watcher events, in-place session swaps, pid reuse and   *)
(* pane scans built them, no two rows of an agent in a session hold the    *)
(* same process.                                                           *)
THEOREM OneRowCorrect == Spec => []OneRowPerProcess
<1>1. Init => OneRowPerProcess
  BY DEF Init, OneRowPerProcess, Keys
<1>2. ASSUME TypeOK, TypeOK', OneRowPerProcess, [Next]_vars PROVE OneRowPerProcess'
  <2>1. ASSUME NEW e \in Event, NEW seed \in BOOLEAN, NEW age \in 0 .. MaxAge,
               ApplyEvent(e, seed, age)
        PROVE  OneRowPerProcess'
    BY <1>2, <2>1, ApplyEventStores, StoreEventKeepsOneRow
  <2>2. CASE \E s \in Session, a \in Agent, t \in Thread : ApplyEnded(s, a, t)
    BY <1>2, <2>2, DeletionTyped, KeepsPidsKeepsOneRow
  <2>3. CASE \E s \in Session, P \in PaneScan : BeginPresence(s, P)
    BY <1>2, <2>3, BeginPresenceTyped, KeepsPidsKeepsOneRow DEF PaneScan
  <2>4. CASE BindPane
    BY <1>2, <2>4, BindPaneKeepsOneRow
  <2>5. CASE EndPresence
    BY <1>2, <2>5, EndPresenceTyped, KeepsPidsKeepsOneRow
  <2>6. CASE ReconcileStaleRunning \/ RunLivenessSweepOnce \/ Tick
    BY <1>2, <2>6, RewriteTyped, KeepsPidsKeepsOneRow
  <2>7. CASE PruneStuck \/ PruneTerminal
    BY <1>2, <2>7, PrunesTyped, KeepsPidsKeepsOneRow
  <2>8. CASE \E s \in Session, k \in Key : Dismiss(s, k)
    BY <1>2, <2>8, DeletionTyped, KeepsPidsKeepsOneRow
  <2>9. CASE \/ \E s \in Session : MarkSeen(s) \/ HandleFocus(s)
             \/ SuppressionExpires
             \/ \E p \in Pid : ProcessStarts(p) \/ ProcessExits(p)
             \/ UNCHANGED vars
    BY <1>2, <2>9, QuietTyped DEF OneRowPerProcess, Keys
  <2>. QED BY <1>2, <2>1, <2>2, <2>3, <2>4, <2>5, <2>6, <2>7, <2>8, <2>9
           DEF Next, Watcher, Scanner, Maintenance, User, Environment
<1>. QED BY <1>1, <1>2, TypeCorrect, PTL DEF Spec
-----------------------------------------------------------------------------
(* Flags and miss counts leave with their row                              *)

(* A step that leaves no row under a key leaves no flag and no miss there  *)
(* unless they were there, with no row, before it.                         *)
ClearsWithRows ==
  \A s \in Session : \A k \in Key : instances'[s][k] = NoRow =>
    /\ <<s, k>> \in unseen' => <<s, k>> \in unseen /\ instances[s][k] = NoRow
    /\ paneMisses'[s][k] > 0 => paneMisses[s][k] > 0 /\ instances[s][k] = NoRow

LEMMA ClearsWithRowsKeepsFlags ==
  ASSUME TypeOK, TypeOK', FlagsBelongToRows, ClearsWithRows
  PROVE  FlagsBelongToRows'
<1>1. ASSUME NEW f \in unseen' PROVE instances'[f[1]][f[2]] # NoRow
  <2>1. f[1] \in Session /\ f[2] \in Key /\ f = <<f[1], f[2]>>
    BY <1>1 DEF TypeOK
  <2>. QED BY <1>1, <2>1 DEF ClearsWithRows, FlagsBelongToRows
<1>2. ASSUME NEW s \in Session, NEW k \in Key, paneMisses'[s][k] > 0
      PROVE  instances'[s][k] # NoRow
  BY <1>2 DEF ClearsWithRows, FlagsBelongToRows
<1>. QED BY <1>1, <1>2 DEF FlagsBelongToRows

(* deleteInstance and its uses: the rows that go are the rows whose flags  *)
(* and counts go.                                                          *)
LEMMA DeleteRowsClears ==
  ASSUME TypeOK, NEW s \in Session, NEW D \in SUBSET Key, DeleteRows(s, D)
  PROVE  ClearsWithRows
BY DEF DeleteRows, Without, UnseenWithout, MissesWithout, TypeOK, ClearsWithRows

LEMMA StoreEventClears ==
  ASSUME TypeOK, NEW e \in Event, NEW seed \in BOOLEAN,
         NEW row \in Row, NEW D \in SUBSET Key, Stored(e, seed, row, D)
  PROVE  ClearsWithRows
<1>. DEFINE key == ThreadKey(e.agent, e.thread)
<1>1. key \in Key /\ e.session \in Session
  BY DEF ThreadKey, Key, Event
<1>2. StoreEvent(e, key, row, D, seed)
  BY DEF Stored
<1>. HIDE DEF key
<1>3. \A s \in Session : \A k \in Key :
        instances'[s][k] = IF s = e.session /\ k = key THEN row
                           ELSE IF s = e.session /\ k \in D THEN NoRow
                           ELSE instances[s][k]
  BY <1>1, <1>2 DEF StoreEvent, Without, TypeOK
<1>4. \A f \in unseen' : f = <<e.session, key>>
                          \/ (f \in unseen /\ ~(f[1] = e.session /\ f[2] \in D))
  BY <1>2 DEF StoreEvent, UnseenAfter, UnseenWithout
<1>5. \A s \in Session : \A k \in Key :
        paneMisses'[s][k] = IF s = e.session /\ k \in D THEN 0 ELSE paneMisses[s][k]
  BY <1>1, <1>2 DEF StoreEvent, MissesWithout, TypeOK
<1>. SUFFICES ASSUME NEW s \in Session, NEW k \in Key, instances'[s][k] = NoRow
              PROVE  /\ <<s, k>> \in unseen' => <<s, k>> \in unseen /\ instances[s][k] = NoRow
                     /\ paneMisses'[s][k] > 0 => paneMisses[s][k] > 0 /\ instances[s][k] = NoRow
  BY DEF ClearsWithRows
<1>6. ~(s = e.session /\ k = key)
  BY <1>3, Constants
<1>7. CASE s = e.session /\ k \in D
  BY <1>4, <1>5, <1>6, <1>7
<1>8. CASE ~(s = e.session /\ k \in D)
  BY <1>3, <1>4, <1>5, <1>6, <1>8
<1>. QED BY <1>7, <1>8

LEMMA BeginPresenceClears ==
  ASSUME TypeOK, NEW s0 \in Session, NEW P \in SUBSET Presence, BeginPresence(s0, P)
  PROVE  ClearsWithRows
<1>1. PICK exempt \in Exempt(s0, P) : CountMisses(s0, P, exempt, Lost(s0, P, exempt))
  BY DEF BeginPresence
<1>. DEFINE lost == Lost(s0, P, exempt)
            missing == Missing(s0, P)
<1>2. missing \subseteq Keys(s0) /\ lost \subseteq Keys(s0)
  BY DEF Lost, Missing
<1>3. \A k \in lost : Retired(instances[s0][k]) # NoRow
  BY <1>2, RowsTyped, RetiredRow, Constants DEF Keys
<1>4. \A s \in Session : \A k \in Key : instances'[s][k] =
        IF s = s0 /\ k \in lost
        THEN IF Synthetic(k) THEN NoRow ELSE Retired(instances[s][k])
        ELSE instances[s][k]
  BY <1>1 DEF CountMisses, TypeOK
<1>5. \A s \in Session : \A k \in Key : paneMisses'[s][k] =
        IF s # s0 THEN paneMisses[s][k]
        ELSE IF k \in exempt \cup lost THEN 0
        ELSE IF k \in missing THEN paneMisses[s][k] + 1 ELSE paneMisses[s][k]
  BY <1>1 DEF CountMisses, MissesAfter, TypeOK
<1>6. unseen' = UnseenWithout(s0, {k \in lost : Synthetic(k)})
  BY <1>1 DEF CountMisses
<1>. HIDE DEF lost, missing
<1>. SUFFICES ASSUME NEW s \in Session, NEW k \in Key, instances'[s][k] = NoRow
              PROVE  /\ <<s, k>> \in unseen' => <<s, k>> \in unseen /\ instances[s][k] = NoRow
                     /\ paneMisses'[s][k] > 0 => paneMisses[s][k] > 0 /\ instances[s][k] = NoRow
  BY DEF ClearsWithRows
<1>7. CASE s = s0 /\ k \in lost
  BY <1>3, <1>4, <1>5, <1>6, <1>7 DEF UnseenWithout
<1>8. CASE ~(s = s0 /\ k \in lost)
  <2>1. instances[s][k] = NoRow
    BY <1>4, <1>8
  <2>2. s = s0 => k \notin missing
    BY <1>2, <2>1 DEF Keys
  <2>. QED BY <1>5, <1>6, <2>1, <2>2 DEF UnseenWithout
<1>. QED BY <1>7, <1>8

LEMMA BindPaneClears ==
  ASSUME TypeOK, BindPane
  PROVE  ClearsWithRows
<1>1. CASE UNCHANGED <<instances, unseen, paneMisses>>
  BY <1>1 DEF ClearsWithRows
<1>2. ASSUME fold # NoFold, NEW pa \in fold.todo, NEW key \in Key, NEW row \in Row,
             NEW claims \in SUBSET Key, Bind(pa, key, row, claims)
      PROVE  ClearsWithRows
  <2>. DEFINE s0 == fold.session
              gone == PidRows(pa, key)
              displaced == DisplacedRows(pa, key)
  <2>1. s0 \in Session
    BY <1>2 DEF TypeOK, Fold
  <2>2. \A k \in displaced : Retired(instances[s0][k]) # NoRow
    BY <2>1, RowsTyped, RetiredRow, Constants DEF DisplacedRows, SameAgent, Keys
  <2>3. \A s \in Session : \A k \in Key : instances'[s][k] =
          IF s # s0 THEN instances[s][k]
          ELSE IF k = key THEN row
          ELSE IF k \in gone THEN NoRow
          ELSE IF k \in displaced THEN Retired(instances[s][k])
          ELSE instances[s][k]
    BY <1>2, <2>1 DEF Bind, TypeOK
  <2>4. unseen' = UnseenWithout(s0, gone)
    BY <1>2 DEF Bind
  <2>5. paneMisses' = MissesWithout(s0, gone \cup displaced \cup {key})
    BY <1>2 DEF Bind
  <2>. HIDE DEF s0, gone, displaced
  <2>6. \A s \in Session : \A k \in Key : paneMisses'[s][k] =
          IF s = s0 /\ k \in gone \cup displaced \cup {key} THEN 0 ELSE paneMisses[s][k]
    BY <2>1, <2>5 DEF MissesWithout, TypeOK
  <2>7. \A s \in Session : \A k \in Key : instances'[s][k] = NoRow =>
          (s = s0 /\ k \in gone) \/ instances[s][k] = NoRow
    BY <2>2, <2>3, Constants
  <2>. QED BY <2>4, <2>6, <2>7 DEF ClearsWithRows, UnseenWithout
<1>. QED BY <1>1, <1>2, BindPaneRows

LEMMA PruneRowsClears ==
  ASSUME TypeOK, PruneStuck \/ PruneTerminal
  PROVE  ClearsWithRows
<1>1. ASSUME NEW dead \in [Session -> SUBSET Key], PruneRows(dead)
      PROVE  ClearsWithRows
  BY <1>1 DEF PruneRows, Without, TypeOK, ClearsWithRows
<1>. QED BY <1>1 DEF PruneStuck, PruneTerminal, Stuck, Terminated

(* The passes that rewrite rows in place delete none.                      *)
LEMMA RewriteClears ==
  ASSUME TypeOK,
         EndPresence \/ ReconcileStaleRunning \/ RunLivenessSweepOnce \/ Tick
  PROVE  ClearsWithRows
<1>1. UNCHANGED <<unseen, paneMisses>>
  BY DEF EndPresence, ReconcileStaleRunning, RunLivenessSweepOnce, Tick
<1>2. ASSUME NEW s \in Session, NEW k \in Key, instances'[s][k] = NoRow
      PROVE  instances[s][k] = NoRow
  <2>1. CASE EndPresence
    <3>1. fold \in Fold /\ fold.session \in Session
      BY <2>1 DEF EndPresence, TypeOK, Fold
    <3>2. instances'[s][k] = IF s = fold.session /\ k \in Ghosts(fold.session, fold.claimed)
                             THEN Exited(instances[s][k]) ELSE instances[s][k]
      BY <2>1, <3>1 DEF EndPresence, TypeOK
    <3>3. instances[s][k] # NoRow => Exited(instances[s][k]) # NoRow
      BY RowsTyped, ExitedRow, Constants
    <3>. QED BY <1>2, <3>2, <3>3
  <2>2. CASE ReconcileStaleRunning
    <3>1. PICK verdict \in [StaleRows -> Verdict] :
            instances' = [t \in Session |-> [j \in Key |->
              IF <<t, j>> \in StaleRows
              THEN Reconciled(instances[t][j], verdict[<<t, j>>])
              ELSE instances[t][j]]]
      BY <2>2 DEF ReconcileStaleRunning
    <3>2. ASSUME <<s, k>> \in StaleRows
          PROVE  Reconciled(instances[s][k], verdict[<<s, k>>]) # NoRow
      BY <3>2, RowsTyped, ReconciledRow, Constants DEF StaleRows, IsStale
    <3>. QED BY <1>2, <3>1, <3>2
  <2>3. CASE RunLivenessSweepOnce
    BY <1>2, <2>3, RowsTyped, SweptRow DEF RunLivenessSweepOnce
  <2>4. CASE Tick
    BY <1>2, <2>4, RowsTyped, OlderRow DEF Tick
  <2>. QED BY <2>1, <2>2, <2>3, <2>4
<1>. QED BY <1>1, <1>2 DEF ClearsWithRows

(* Whatever deletes a row, an ended session, a dismissal, a prune tier, a  *)
(* session swap or a scan, takes the row's unseen flag and miss count with *)
(* it: the next row under the key starts with neither.                     *)
THEOREM FlagsCorrect == Spec => []FlagsBelongToRows
<1>1. Init => FlagsBelongToRows
  BY DEF Init, FlagsBelongToRows
<1>2. ASSUME TypeOK, TypeOK', FlagsBelongToRows, [Next]_vars PROVE FlagsBelongToRows'
  <2>. SUFFICES ClearsWithRows
    BY <1>2, ClearsWithRowsKeepsFlags
  <2>1. ASSUME NEW e \in Event, NEW seed \in BOOLEAN, NEW age \in 0 .. MaxAge,
               ApplyEvent(e, seed, age)
        PROVE  ClearsWithRows
    BY <1>2, <2>1, ApplyEventStores, StoreEventClears
  <2>2. CASE \E s \in Session, a \in Agent, t \in Thread : ApplyEnded(s, a, t)
    BY <1>2, <2>2, DeletionTyped, DeleteRowsClears
  <2>3. CASE \E s \in Session, P \in PaneScan : BeginPresence(s, P)
    BY <1>2, <2>3, BeginPresenceClears DEF PaneScan
  <2>4. CASE BindPane
    BY <1>2, <2>4, BindPaneClears
  <2>5. CASE EndPresence \/ ReconcileStaleRunning \/ RunLivenessSweepOnce \/ Tick
    BY <1>2, <2>5, RewriteClears
  <2>6. CASE PruneStuck \/ PruneTerminal
    BY <1>2, <2>6, PruneRowsClears
  <2>7. CASE \E s \in Session, k \in Key : Dismiss(s, k)
    BY <1>2, <2>7, DeletionTyped, DeleteRowsClears
  <2>8. CASE \/ \E s \in Session : MarkSeen(s) \/ HandleFocus(s)
             \/ SuppressionExpires
             \/ \E p \in Pid : ProcessStarts(p) \/ ProcessExits(p)
             \/ UNCHANGED vars
    BY <1>2, <2>8, QuietTyped DEF ClearsWithRows
  <2>. QED
    BY <1>2, <2>1, <2>2, <2>3, <2>4, <2>5, <2>6, <2>7, <2>8
       DEF Next, Watcher, Scanner, Maintenance, User, Environment
<1>. QED BY <1>1, <1>2, TypeCorrect, PTL DEF Spec
-----------------------------------------------------------------------------
(* Attention survives                                                      *)

(* Most steps that drop a flag drop its row as well.                       *)
FlagsLeaveWithRows ==
  \A f \in unseen \ unseen' : instances'[f[1]][f[2]] = NoRow

AttentionKept ==
  \A f \in unseen \ unseen' :
    \/ instances'[f[1]][f[2]] = NoRow
    \/ instances'[f[1]][f[2]].status \notin Terminal \cup {"waiting"}
    \/ \A g \in unseen' : g[1] # f[1]

LEMMA DeleteRowsFlags ==
  ASSUME TypeOK, NEW s \in Session, NEW D \in SUBSET Key, DeleteRows(s, D)
  PROVE  FlagsLeaveWithRows
BY DEF DeleteRows, UnseenWithout, Without, TypeOK, FlagsLeaveWithRows

LEMMA PruneRowsFlags ==
  ASSUME TypeOK, PruneStuck \/ PruneTerminal
  PROVE  FlagsLeaveWithRows
<1>1. ASSUME NEW dead \in [Session -> SUBSET Key], PruneRows(dead)
      PROVE  FlagsLeaveWithRows
  BY <1>1 DEF PruneRows, Without, TypeOK, FlagsLeaveWithRows
<1>. QED BY <1>1 DEF PruneStuck, PruneTerminal, Stuck, Terminated

LEMMA BeginPresenceFlags ==
  ASSUME TypeOK, NEW s \in Session, NEW P \in PaneScan, BeginPresence(s, P)
  PROVE  FlagsLeaveWithRows
<1>1. PICK exempt \in Exempt(s, P) : CountMisses(s, P, exempt, Lost(s, P, exempt))
  BY DEF BeginPresence
<1>. DEFINE lost == Lost(s, P, exempt)
<1>. HIDE DEF lost
<1>2. CountMisses(s, P, exempt, lost)
  BY <1>1 DEF lost
<1>3. \A k \in Key : k \in lost /\ Synthetic(k) => instances'[s][k] = NoRow
  BY <1>2 DEF CountMisses, TypeOK
<1>. QED BY <1>2, <1>3 DEF CountMisses, UnseenWithout, TypeOK, FlagsLeaveWithRows

LEMMA BindPaneFlags ==
  ASSUME TypeOK, BindPane
  PROVE  FlagsLeaveWithRows
<1>1. CASE UNCHANGED unseen
  BY <1>1 DEF FlagsLeaveWithRows
<1>2. ASSUME fold # NoFold, NEW pa \in fold.todo, NEW key \in Key, NEW row \in Row,
             NEW claims \in SUBSET Key, Bind(pa, key, row, claims)
      PROVE  FlagsLeaveWithRows
  <2>1. fold.session \in Session
    BY <1>2 DEF TypeOK, Fold
  <2>2. unseen' = UnseenWithout(fold.session, PidRows(pa, key))
    BY <1>2 DEF Bind
  <2>3. \A k \in PidRows(pa, key) \cap Key : instances'[fold.session][k] = NoRow
    <3>1. key \notin PidRows(pa, key)
      BY DEF PidRows
    <3>. QED BY <1>2, <2>1, <3>1 DEF Bind, TypeOK
  <2>. QED BY <2>2, <2>3 DEF UnseenWithout, TypeOK, FlagsLeaveWithRows
<1>. QED BY <1>1, <1>2, BindPaneRows

(* A watcher event drops the flags of the rows it deletes, and its own     *)
(* row's when its status asks for no attention.                            *)
LEMMA StoreEventAttention ==
  ASSUME TypeOK, NEW e \in Event, NEW seed \in BOOLEAN,
         NEW row \in Row, NEW D \in SUBSET Key, Stored(e, seed, row, D)
  PROVE  AttentionKept
<1>. DEFINE key == ThreadKey(e.agent, e.thread)
<1>1. key \in Key /\ e.session \in Session
  BY DEF ThreadKey, Key, Event
<1>2. StoreEvent(e, key, row, D, seed) /\ key \notin D /\ row.status = e.status
  BY DEF Stored
<1>. HIDE DEF key
<1>3. /\ instances'[e.session][key] = row
      /\ \A k \in D : instances'[e.session][k] = NoRow
  BY <1>1, <1>2 DEF StoreEvent, Without, TypeOK
<1>4. ASSUME NEW f \in unseen \ unseen'
      PROVE  \/ f[1] = e.session /\ f[2] \in D
             \/ f = <<e.session, key>> /\ e.status \notin Terminal \cup {"waiting"}
  BY <1>2 DEF StoreEvent, UnseenAfter, UnseenWithout
<1>5. ASSUME NEW f \in unseen \ unseen', f[1] = e.session, f[2] \in D
      PROVE  instances'[f[1]][f[2]] = NoRow
  BY <1>3, <1>5
<1>6. ASSUME NEW f \in unseen \ unseen', f = <<e.session, key>>,
             e.status \notin Terminal \cup {"waiting"}
      PROVE  instances'[f[1]][f[2]].status \notin Terminal \cup {"waiting"}
  BY <1>2, <1>3, <1>6
<1>. QED BY <1>4, <1>5, <1>6 DEF AttentionKept

(* The user's look clears the session's flags, all of them: each is a      *)
(* row's.                                                                  *)
LEMMA LookAttention ==
  ASSUME TypeOK, FlagsBelongToRows, NEW s \in Session, MarkSeen(s) \/ HandleFocus(s)
  PROVE  AttentionKept
<1>1. unseen' = {f \in unseen : ~(f[1] = s /\ f[2] \in Keys(s))}
  BY DEF MarkSeen, HandleFocus
<1>2. \A f \in unseen : f[2] \in Keys(f[1])
  BY DEF TypeOK, FlagsBelongToRows, Keys
<1>. QED BY <1>1, <1>2 DEF AttentionKept

(* Nothing but the user, the agent moving on, or the row's own end takes   *)
(* an unseen flag away: no scan, prune tier, session swap or foreign event *)
(* silences a row that stays.                                              *)
THEOREM AttentionCorrect == Spec => AttentionSurvives
<1>1. ASSUME TypeOK, FlagsBelongToRows, [Next]_vars PROVE AttentionKept
  <2>1. ASSUME NEW e \in Event, NEW seed \in BOOLEAN, NEW age \in 0 .. MaxAge,
               ApplyEvent(e, seed, age)
        PROVE  AttentionKept
    BY <1>1, <2>1, ApplyEventStores, StoreEventAttention
  <2>2. CASE \/ \E s \in Session, a \in Agent, t \in Thread : ApplyEnded(s, a, t)
             \/ \E s \in Session, k \in Key : Dismiss(s, k)
    BY <1>1, <2>2, DeletionTyped, DeleteRowsFlags DEF FlagsLeaveWithRows, AttentionKept
  <2>3. CASE \E s \in Session, P \in PaneScan : BeginPresence(s, P)
    BY <1>1, <2>3, BeginPresenceFlags DEF FlagsLeaveWithRows, AttentionKept
  <2>4. CASE BindPane
    BY <1>1, <2>4, BindPaneFlags DEF FlagsLeaveWithRows, AttentionKept
  <2>5. CASE PruneStuck \/ PruneTerminal
    BY <1>1, <2>5, PruneRowsFlags DEF FlagsLeaveWithRows, AttentionKept
  <2>6. CASE \E s \in Session : MarkSeen(s) \/ HandleFocus(s)
    BY <1>1, <2>6, LookAttention
  <2>7. CASE \/ EndPresence \/ ReconcileStaleRunning \/ RunLivenessSweepOnce \/ Tick
             \/ SuppressionExpires
             \/ \E p \in Pid : ProcessStarts(p) \/ ProcessExits(p)
             \/ UNCHANGED vars
    BY <2>7 DEF AttentionKept, EndPresence, ReconcileStaleRunning, RunLivenessSweepOnce,
                Tick, SuppressionExpires, ProcessStarts, ProcessExits, vars
  <2>. QED BY <1>1, <2>1, <2>2, <2>3, <2>4, <2>5, <2>6, <2>7
           DEF Next, Watcher, Scanner, Maintenance, User, Environment
<1>. QED BY <1>1, TypeCorrect, FlagsCorrect, PTL DEF Spec, AttentionSurvives, AttentionKept

-----------------------------------------------------------------------------
(* A fold reports what it changes                                          *)

LEMMA BeginPresenceReports ==
  ASSUME TypeOK, NEW s \in Session, NEW P \in PaneScan, BeginPresence(s, P), ~fold'.changed
  PROVE  UNCHANGED instances
<1>1. PICK exempt \in Exempt(s, P) : CountMisses(s, P, exempt, Lost(s, P, exempt))
  BY DEF BeginPresence
<1>2. Lost(s, P, exempt) = {}
  BY <1>1 DEF CountMisses
<1>. QED BY <1>1, <1>2 DEF CountMisses, TypeOK

LEMMA BindReports ==
  ASSUME TypeOK, fold # NoFold, NEW pa \in fold.todo, NEW key \in Key, NEW row \in Row,
         NEW claims \in SUBSET Key, Bind(pa, key, row, claims), ~fold'.changed
  PROVE  UNCHANGED instances
<1>1. fold \in Fold /\ fold.session \in Session
  BY DEF TypeOK, Fold
<1>2. ~VisibleChange(key, row, PidRows(pa, key), DisplacedRows(pa, key))
  BY <1>1 DEF Bind, Fold
<1>3. PidRows(pa, key) = {} /\ DisplacedRows(pa, key) = {}
      /\ row = instances[fold.session][key]
  BY <1>2 DEF VisibleChange
<1>. QED BY <1>1, <1>3 DEF Bind, TypeOK

(* A pane fold that has reported no change has changed no row, by a lost   *)
(* pane, a claim, a mint, a superseded process or a displaced row: the     *)
(* pane scan loop, which broadcasts only what is reported, keeps no change *)
(* from the sidebars.                                                      *)
THEOREM FoldReportsCorrect == Spec => UnreportedFoldChangesNothing
<1>1. ASSUME TypeOK, [Next]_vars, fold' # NoFold, ~fold'.changed
      PROVE  UNCHANGED instances
  <2>1. CASE \E s \in Session, P \in PaneScan : BeginPresence(s, P)
    BY <1>1, <2>1, BeginPresenceReports
  <2>2. CASE BindPane
    BY <1>1, <2>2, BindPaneRows, BindReports
  <2>3. CASE \/ \E p \in Pid : ProcessStarts(p) \/ ProcessExits(p)
             \/ UNCHANGED vars
    BY <2>3 DEF ProcessStarts, ProcessExits, vars
  <2>4. ASSUME NEW e \in Event, NEW seed \in BOOLEAN, NEW age \in 0 .. MaxAge,
               ApplyEvent(e, seed, age)
        PROVE  FALSE
    BY <1>1, <2>4, ApplyEventStores DEF ApplyEvent, Stored, StoreEvent
  <2>5. CASE \/ \E s \in Session, a \in Agent, t \in Thread : ApplyEnded(s, a, t)
             \/ EndPresence \/ Maintenance \/ User \/ Tick \/ SuppressionExpires
    BY <1>1, <2>5
       DEF ApplyEnded, EndPresence, Maintenance, ReconcileStaleRunning, PruneStuck,
           PruneTerminal, PruneRows, RunLivenessSweepOnce, User, MarkSeen, HandleFocus,
           Dismiss, Tick, SuppressionExpires
  <2>. QED BY <1>1, <2>1, <2>2, <2>3, <2>4, <2>5 DEF Next, Watcher, Scanner, Environment
<1>. QED BY <1>1, TypeCorrect, PTL DEF Spec, UnreportedFoldChangesNothing
=============================================================================
