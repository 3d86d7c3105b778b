-------------------------- MODULE DelegationProofs --------------------------
(***************************************************************************)
(* Theorems about Delegation for any number of delegates, conversations    *)
(* and hooks, any spawns, follow-ups and restarts: a record bound to a     *)
(* conversation keeps it, that conversation was begun in its own pane, and *)
(* a wait reports `finished` only of a conversation with a completed turn. *)
(*                                                                         *)
(* None but the first is inductive.  What a record is given comes from a   *)
(* hook in flight or from a scan taken earlier, so BindInv says of every   *)
(* hook, every reading of a scan and every process that the conversation   *)
(* it speaks of was begun in the pane it names.  What a row tells comes    *)
(* from the watcher's cache, from scans and from restarts, so TellInv says *)
(* of rollouts, of cached statuses, of readings and of rows that `done`    *)
(* means a completed turn in the conversation they are about.              *)
(*                                                                         *)
(* The last theorem carries what Tracker promises over to the system: each *)
(* step of a loop is on the tracker one of a few operations, none of which *)
(* breaks a promise.                                                       *)
(***************************************************************************)
EXTENDS Delegation, TrackerProofs

USE SentinelAssumption, DelegationAssumption, ProcAssumption, ScanAssumption, FollowupAssumption

Shapes ==
  /\ record \in [Pane -> Unwritten \cup Thread \cup {NoThread}]
  /\ proc \in [Pid -> Proc \cup {NoProc}]
  /\ hooks \subseteq Hook
  /\ scan \in Scan \cup {NoScan}
  /\ followup \in Followup \cup {NoFollowup}
  /\ ran \subseteq Thread \X Pane

ProcsRan ==
  \A p \in Live : /\ proc[p].open => proc[p].doing # "boot"
                  /\ proc[p].doing # "boot" => <<proc[p].thread, proc[p].pane>> \in ran

HooksRan == \A h \in hooks : h.names \in Pane => <<h.thread, h.names>> \in ran

ScanRan ==
  scan # NoScan => \A r \in scan.seen : r.thread # NoThread => <<r.thread, r.pane>> \in ran

BindInv == Shapes /\ ProcsRan /\ HooksRan /\ ScanRan /\ BoundWhereItRan

-----------------------------------------------------------------------------
(* What the steps give to a record, a hook and a scan                      *)

(* Bind either keeps what the record has or gives it the thread, and never *)
(* takes a thread away.                                                    *)
LEMMA BoundFacts ==
  ASSUME NEW thread \in Unwritten \cup Thread \cup {NoThread}, NEW t \in Thread
  PROVE  /\ Bound(thread, t) \in {thread, t}
         /\ thread # NoThread => Bound(thread, t) = thread
BY DEF Bound

(* A hook a process posts of the conversation it is in tells the truth.    *)
LEMMA PostTells ==
  ASSUME Shapes, HooksRan, NEW p \in Live, NEW t \in Thread, NEW event \in HookEvent,
         <<t, proc[p].pane>> \in ran', ran \subseteq ran',
         Post(p, t, event)
  PROVE  /\ hooks' \subseteq Hook
         /\ HooksRan'
<1> DEFINE h == [pid |-> p, thread |-> t, event |-> event, bound |-> FALSE,
                 names |-> IF proc[p].named THEN proc[p].pane ELSE NoPane]
<1>1. proc[p] \in Proc /\ p \in Pid
  BY DEF Shapes, Live
<1>2. h \in Hook
  BY <1>1 DEF Hook, Proc
<1>3. h.thread = t /\ (h.names \in Pane => h.names = proc[p].pane)
  BY <1>1 DEF Proc
<1> HIDE DEF h
<1>4. hooks' = hooks \/ hooks' = hooks \cup {h}
  BY DEF Post, h
<1> QED
  BY <1>2, <1>3, <1>4 DEF Shapes, HooksRan

(* A reading of a scan tells where its process is.                         *)
LEMMA ReadingTells ==
  ASSUME Shapes, ProcsRan, NEW p \in Live
  PROVE  /\ ReadingOf(p) \in Reading
         /\ ReadingOf(p).thread # NoThread => <<ReadingOf(p).thread, ReadingOf(p).pane>> \in ran
<1>1. proc[p] \in Proc /\ p \in Pid
  BY DEF Shapes, Live
<1>2. VerdictOf(p) \in {"working", "done", "nosignal"}
  BY DEF VerdictOf
<1>3. proc[p].open => <<proc[p].thread, proc[p].pane>> \in ran
  BY DEF ProcsRan
<1> QED
  BY <1>1, <1>2, <1>3 DEF ReadingOf, Reading, Proc

-----------------------------------------------------------------------------
(* Steps of the processes                                                  *)

(* A process that goes from one activity to another, in its pane, without  *)
(* changing its conversation or in a conversation it has just begun.       *)
LEMMA ProcGoes ==
  ASSUME Shapes, ProcsRan, NEW p \in Live, NEW q \in Proc,
         proc' = [proc EXCEPT ![p] = q], ran \subseteq ran',
         q.open => q.doing # "boot",
         q.doing # "boot" => <<q.thread, q.pane>> \in ran'
  PROVE  proc' \in [Pid -> Proc \cup {NoProc}] /\ ProcsRan'
<1>1. p \in Pid
  BY DEF Live
<1>2. proc' \in [Pid -> Proc \cup {NoProc}]
  BY <1>1 DEF Shapes
<1>3. proc'[p] = q /\ \A o \in Pid \ {p} : proc'[o] = proc[o]
  BY <1>1 DEF Shapes
<1>4. \A o \in Live' \ {p} : o \in Live /\ proc'[o] = proc[o]
  BY <1>3 DEF Live
<1> QED
  BY <1>2, <1>3, <1>4 DEF ProcsRan

LEMMA BeginKeeps ==
  ASSUME BindInv, NEW p \in Pid, NEW t \in Thread,
         Begin(p, t) \/ NewConversation(p, t)
  PROVE  BindInv'
<1>1. p \in Live /\ proc[p] \in Proc
  BY DEF Begin, NewConversation, BindInv, Shapes, Live
<1> DEFINE q == IF Begin(p, t) THEN [proc[p] EXCEPT !.thread = t, !.doing = "idle"]
                ELSE [proc[p] EXCEPT !.thread = t, !.open = FALSE]
<1>2. q \in Proc /\ q.thread = t /\ q.pane = proc[p].pane /\ q.doing # "boot"
  BY <1>1 DEF Proc, Begin, NewConversation
<1>3. proc' = [proc EXCEPT ![p] = q]
  BY DEF Begin, NewConversation
<1> HIDE DEF q
<1>4. ran' = ran \cup {<<t, proc[p].pane>>} /\ Post(p, t, "start")
  BY DEF Begin, NewConversation
<1>5. UNCHANGED <<record, scan, followup>>
  BY DEF Begin, NewConversation
<1>6. proc' \in [Pid -> Proc \cup {NoProc}] /\ ProcsRan'
  BY <1>1, <1>2, <1>3, <1>4, ProcGoes DEF BindInv
<1>7. hooks' \subseteq Hook /\ HooksRan'
  BY <1>1, <1>4, PostTells DEF BindInv, HookEvent
<1>8. ran' \subseteq Thread \X Pane
  BY <1>1, <1>4 DEF BindInv, Shapes, Proc
<1> QED
  BY <1>4, <1>5, <1>6, <1>7, <1>8 DEF BindInv, Shapes, ScanRan, BoundWhereItRan

LEMMA GoesKeeps ==
  ASSUME BindInv, NEW p \in Pid,
         NEW from \in {"idle", "turn", "asking"}, NEW to \in {"turn", "asking", "settling"},
         NEW event \in HookEvent, Goes(p, from, to, event)
  PROVE  BindInv'
<1>1. p \in Live /\ proc[p] \in Proc /\ proc[p].doing = from
  BY DEF Goes, BindInv, Shapes, Live
<1>2. <<proc[p].thread, proc[p].pane>> \in ran
  BY <1>1 DEF BindInv, ProcsRan
<1>3. proc' = [proc EXCEPT ![p] = [proc[p] EXCEPT !.doing = to]]
  BY DEF Goes
<1>4. [proc[p] EXCEPT !.doing = to] \in Proc
  BY <1>1 DEF Proc
<1>5. UNCHANGED <<record, ran, scan, followup>> /\ Post(p, proc[p].thread, event)
  BY DEF Goes
<1>6. proc' \in [Pid -> Proc \cup {NoProc}] /\ ProcsRan'
  BY <1>1, <1>2, <1>3, <1>4, <1>5, ProcGoes DEF BindInv, Proc
<1>7. proc[p].thread \in Thread
  BY <1>1, <1>2 DEF BindInv, Shapes
<1>8. hooks' \subseteq Hook /\ HooksRan'
  BY <1>1, <1>2, <1>5, <1>7, PostTells DEF BindInv
<1> QED
  BY <1>5, <1>6, <1>8 DEF BindInv, Shapes, ScanRan, BoundWhereItRan

(* The rollout is opened, or the end of the turn reaches it.               *)
LEMMA QuietStepKeeps ==
  ASSUME BindInv, NEW p \in Pid, OpenRollout(p) \/ Settle(p)
  PROVE  BindInv'
<1>1. p \in Live /\ proc[p] \in Proc /\ proc[p].doing # "boot"
  BY DEF OpenRollout, Settle, BindInv, Shapes, Live
<1>2. <<proc[p].thread, proc[p].pane>> \in ran
  BY <1>1 DEF BindInv, ProcsRan
<1> DEFINE q == IF OpenRollout(p) THEN [proc[p] EXCEPT !.open = TRUE]
                ELSE [proc[p] EXCEPT !.doing = "idle"]
<1>3. /\ q \in Proc /\ q.doing # "boot"
      /\ q.thread = proc[p].thread /\ q.pane = proc[p].pane
  BY <1>1 DEF Proc
<1>4. proc' = [proc EXCEPT ![p] = q]
  BY DEF OpenRollout, Settle
<1> HIDE DEF q
<1>5. UNCHANGED <<record, ran, hooks, scan, followup>>
  BY DEF OpenRollout, Settle
<1>6. proc' \in [Pid -> Proc \cup {NoProc}] /\ ProcsRan'
  BY <1>1, <1>2, <1>3, <1>4, <1>5, ProcGoes DEF BindInv
<1> QED
  BY <1>5, <1>6 DEF BindInv, Shapes, HooksRan, ScanRan, BoundWhereItRan

(* Processes that start in boot or end say nothing of a conversation.      *)
LEMMA SpawnKeeps ==
  ASSUME BindInv, NEW n \in Pane, NEW p \in Pid, SpawnAgent(n, p)
  PROVE  BindInv'
<1> DEFINE q == [pane |-> n, thread |-> NoThread, open |-> FALSE, doing |-> "boot", named |-> TRUE]
<1>1. q \in Proc /\ q.doing = "boot" /\ ~q.open
  BY DEF Proc
<1>2. proc' = [proc EXCEPT ![p] = q]
  BY DEF SpawnAgent
<1> HIDE DEF q
<1>3. /\ proc' \in [Pid -> Proc \cup {NoProc}] /\ proc'[p] = q
      /\ \A o \in Live' \ {p} : o \in Live /\ proc'[o] = proc[o]
  BY <1>1, <1>2 DEF BindInv, Shapes, Live
<1>4. UNCHANGED <<ran, hooks, scan, followup>>
  BY DEF SpawnAgent
<1>5. ProcsRan'
  BY <1>1, <1>3, <1>4 DEF BindInv, ProcsRan
<1>6. /\ record' \in [Pane -> Unwritten \cup Thread \cup {NoThread}]
      /\ \A m \in Pane : record'[m] \in Thread => record'[m] = record[m]
  BY DEF SpawnAgent, BindInv, Shapes, Unwritten
<1> QED
  BY <1>3, <1>4, <1>5, <1>6 DEF BindInv, Shapes, HooksRan, ScanRan, BoundWhereItRan

LEMMA ExitKeeps ==
  ASSUME BindInv, NEW p \in Pid, Exit(p)
  PROVE  BindInv'
<1>1. /\ proc' \in [Pid -> Proc \cup {NoProc}]
      /\ \A o \in Live' : o \in Live /\ proc'[o] = proc[o]
  BY DEF Exit, BindInv, Shapes, Live
<1>2. UNCHANGED <<record, ran, hooks, scan, followup>>
  BY DEF Exit
<1> QED
  BY <1>1, <1>2 DEF BindInv, Shapes, ProcsRan, HooksRan, ScanRan, BoundWhereItRan

LEMMA RespawnKeeps ==
  ASSUME BindInv, NEW p \in Pid, Respawn(p)
  PROVE  BindInv'
<1>1. followup \in Followup
  BY DEF Respawn, BindInv, Shapes
<1> DEFINE q == [pane |-> followup.pane, thread |-> followup.resume, open |-> FALSE,
                 doing |-> "boot", named |-> FALSE]
<1>2. q \in Proc /\ q.doing = "boot" /\ ~q.open
  BY <1>1 DEF Proc, Followup
<1>3. UNCHANGED <<record, ran, hooks, scan>> /\ followup' = NoFollowup
  BY DEF Respawn, world
<1>4. \/ UNCHANGED proc
      \/ proc' = [o \in Pid |-> IF o = p THEN q
                                ELSE IF o \in PaneOf(followup.pane) THEN NoProc ELSE proc[o]]
  BY DEF Respawn, world
<1> HIDE DEF q
<1>5. /\ proc' \in [Pid -> Proc \cup {NoProc}]
      /\ \A o \in Live' : proc'[o] = q \/ (o \in Live /\ proc'[o] = proc[o])
  BY <1>2, <1>4 DEF BindInv, Shapes, Live
<1>6. ProcsRan'
  BY <1>2, <1>3, <1>5 DEF BindInv, ProcsRan
<1> QED
  BY <1>3, <1>5, <1>6 DEF BindInv, Shapes, HooksRan, ScanRan, BoundWhereItRan

-----------------------------------------------------------------------------
(* Steps of the server                                                     *)

LEMMA CreateKeeps ==
  ASSUME BindInv, NEW n \in Pane, CreateWithID(n)
  PROVE  BindInv'
<1>1. UNCHANGED <<proc, ran, hooks, scan, followup>>
  BY DEF CreateWithID, world
<1>2. /\ record' \in [Pane -> Unwritten \cup Thread \cup {NoThread}]
      /\ \A m \in Pane : record'[m] \in Thread => record'[m] = record[m]
  BY DEF CreateWithID, BindInv, Shapes
<1> QED
  BY <1>1, <1>2 DEF BindInv, Shapes, Live, ProcsRan, HooksRan, ScanRan, BoundWhereItRan

LEMMA BindFromHookKeeps ==
  ASSUME BindInv, NEW h \in hooks, BindFromHook(h)
  PROVE  BindInv'
<1>1. h \in Hook /\ h.thread \in Thread
  BY DEF BindInv, Shapes, Hook
<1>2. UNCHANGED <<proc, ran, scan, followup>>
  BY DEF BindFromHook, world
<1> DEFINE g == [h EXCEPT !.bound = TRUE]
<1>3. g \in Hook /\ g.thread = h.thread /\ g.names = h.names
  BY <1>1 DEF Hook
<1>4. hooks' = (hooks \ {h}) \cup {g}
  BY DEF BindFromHook
<1> HIDE DEF g
<1>5. hooks' \subseteq Hook /\ HooksRan'
  BY <1>2, <1>3, <1>4 DEF BindInv, Shapes, HooksRan
<1>6. /\ record' \in [Pane -> Unwritten \cup Thread \cup {NoThread}]
      /\ \A m \in Pane : record'[m] = record[m] \/ (m = h.names /\ record'[m] = h.thread)
  BY <1>1 DEF BindFromHook, BindInv, Shapes, Bound
<1>7. BoundWhereItRan'
  BY <1>2, <1>6 DEF BindInv, HooksRan, BoundWhereItRan
<1> QED
  BY <1>2, <1>5, <1>6, <1>7 DEF BindInv, Shapes, Live, ProcsRan, ScanRan

LEMMA BindFromScanKeeps ==
  ASSUME BindInv, BindFromScan
  PROVE  BindInv'
<1>1. UNCHANGED <<proc, ran, hooks, followup>>
  BY DEF BindFromScan, world
<1>2. scan \in Scan /\ scan' = [scan EXCEPT !.stage = "bound"]
  BY DEF BindFromScan, BindInv, Shapes
<1>3. scan' \in Scan /\ scan'.seen = scan.seen
  BY <1>2 DEF Scan
<1>4. PICK found \in [Pane -> Thread \cup {NoThread}] :
        /\ \A n \in Pane : IF SeenIn(n) = {} THEN found[n] = NoThread ELSE found[n] \in SeenIn(n)
        /\ record' = [n \in Pane |-> IF found[n] = NoThread THEN record[n]
                                     ELSE Bound(record[n], found[n])]
  BY DEF BindFromScan
<1>5. \A n \in Pane : found[n] # NoThread => found[n] \in Thread /\ <<found[n], n>> \in ran
  BY <1>2, <1>4 DEF SeenIn, BindInv, ScanRan
<1>6. /\ record' \in [Pane -> Unwritten \cup Thread \cup {NoThread}]
      /\ \A n \in Pane : record'[n] = record[n] \/ (found[n] # NoThread /\ record'[n] = found[n])
  BY <1>4, <1>5 DEF BindInv, Shapes, Bound
<1>7. BoundWhereItRan'
  BY <1>1, <1>5, <1>6 DEF BindInv, BoundWhereItRan
<1> QED
  BY <1>1, <1>2, <1>3, <1>6, <1>7 DEF BindInv, Shapes, Live, ProcsRan, HooksRan, ScanRan

LEMMA TakeScanKeeps ==
  ASSUME BindInv, TakeScan
  PROVE  BindInv'
<1>1. UNCHANGED <<record, proc, ran, hooks, followup>>
  BY DEF TakeScan, world
<1> DEFINE seen == {ReadingOf(p) : p \in Live}
<1>2. /\ seen \subseteq Reading
      /\ \A r \in seen : r.thread # NoThread => <<r.thread, r.pane>> \in ran
  BY ReadingTells DEF BindInv
<1>3. scan' = [seen |-> seen, todo |-> {r \in seen : r.verdict # "nosignal"},
               stage |-> "seen", changed |-> FALSE]
  BY DEF TakeScan
<1> HIDE DEF seen
<1>4. scan' \in Scan /\ scan'.seen = seen
  BY <1>2, <1>3 DEF Scan
<1> QED
  BY <1>1, <1>2, <1>4 DEF BindInv, Shapes, Live, ProcsRan, HooksRan, ScanRan, BoundWhereItRan

(* The fold of a scan keeps what the scan has seen.                        *)
LEMMA FoldKeeps ==
  ASSUME BindInv,
         \/ \E r \in scan.todo : FoldReading(r)
         \/ FoldPanes \/ FoldPane \/ FoldGhosts \/ FinishScan
  PROVE  BindInv'
<1>1. UNCHANGED <<record, proc, ran, hooks, followup>>
  BY DEF FoldReading, FoldPanes, FoldPane, FoldGhosts, FinishScan, world
<1>2. scan' = NoScan \/ (scan' \in Scan /\ scan # NoScan /\ scan'.seen = scan.seen)
  <2>1. ASSUME NEW r \in scan.todo, FoldReading(r) PROVE <1>2
    <3> DEFINE row  == instances[Home][ThreadKey(Codex, r.thread)]
               word == ScanEventOver(row, r.verdict)
               changed == scan.changed \/ \E status \in word : row = NoRow \/ row.status # status
    <3>1. scan \in Scan /\ scan # NoScan
      BY <2>1 DEF FoldReading, BindInv, Shapes
    <3>2. scan' = [scan EXCEPT !.todo = @ \ {r}, !.stage = "locked", !.changed = changed]
      BY <2>1 DEF FoldReading
    <3>3. changed \in BOOLEAN
      OBVIOUS
    <3> HIDE DEF changed
    <3> QED
      BY <3>1, <3>2, <3>3 DEF Scan
  <2>2. CASE FoldPanes
    BY <2>2 DEF FoldPanes, BindInv, Shapes, Scan
  <2>3. CASE FoldPane
    BY <2>3 DEF FoldPane, BindInv, Shapes
  <2>4. CASE FoldGhosts
    <3> DEFINE changed == scan.changed \/ fold.changed \/ Ghosts(fold.session, fold.claimed) # {}
    <3>1. scan \in Scan /\ scan # NoScan
      BY <2>4 DEF FoldGhosts, BindInv, Shapes
    <3>2. scan' = [scan EXCEPT !.changed = changed]
      BY <2>4 DEF FoldGhosts
    <3>3. changed \in BOOLEAN
      OBVIOUS
    <3> HIDE DEF changed
    <3> QED
      BY <3>1, <3>2, <3>3 DEF Scan
  <2>5. CASE FinishScan
    BY <2>5 DEF FinishScan
  <2> QED
    BY <2>1, <2>2, <2>3, <2>4, <2>5
<1> QED
  BY <1>1, <1>2 DEF BindInv, Shapes, Live, ProcsRan, HooksRan, ScanRan, BoundWhereItRan

(* A hook that has been handled is gone.                                   *)
LEMMA HandleHookKeeps ==
  ASSUME BindInv, NEW h \in hooks, HandleHook(h)
  PROVE  BindInv'
<1>1. UNCHANGED <<record, proc, ran, scan, followup>> /\ hooks' \subseteq hooks
  BY DEF HandleHook, world
<1> QED
  BY <1>1 DEF BindInv, Shapes, Live, ProcsRan, HooksRan, ScanRan, BoundWhereItRan

LEMMA HousekeepingKeeps ==
  ASSUME BindInv,
         Refresh \/ CheckLiveness \/ Age \/ \E t \in Thread : ResolveName(t)
  PROVE  BindInv'
<1>1. UNCHANGED <<record, proc, ran, hooks, scan, followup>>
  BY DEF Refresh, CheckLiveness, Age, ResolveName, world
<1> QED
  BY <1>1 DEF BindInv, Shapes, Live, ProcsRan, HooksRan, ScanRan, BoundWhereItRan

(* A follow-up sees a conversation or none.                                *)
LEMMA SeenAtFacts ==
  ASSUME Shapes, NEW n \in Pane, Written(n), NEW seen \in SeenAt(n)
  PROVE  seen.thread \in Thread \cup {NoThread}
<1>1. CASE record[n] \in Thread
  BY <1>1 DEF SeenAt
<1>2. CASE record[n] \notin Thread
  <2>1. PICK k \in Key : seen = [thread |-> IF Synthetic(k) THEN NoThread ELSE k.id,
                                 status |-> instances[Home][k].status]
    BY <1>2 DEF SeenAt, Keys
  <2> QED
    BY <2>1 DEF Key, Synthetic
<1> QED
  BY <1>1, <1>2

LEMMA FollowupKeeps ==
  ASSUME BindInv, RecheckFollowup \/ \E n \in Pane : CheckFollowup(n)
  PROVE  BindInv'
<1>1. UNCHANGED <<record, proc, ran, hooks, scan>>
  BY DEF RecheckFollowup, CheckFollowup, world
<1>2. followup' \in Followup \cup {NoFollowup}
  <2>1. CASE RecheckFollowup
    BY <2>1 DEF RecheckFollowup, BindInv, Shapes, Followup
  <2>2. ASSUME NEW n \in Pane, CheckFollowup(n) PROVE <1>2
    <3>1. PICK seen \in SeenAt(n) : \E t \in Resumed(seen.thread) :
            followup' = [pane |-> n, thread |-> seen.thread, resume |-> t, stage |-> "checked"]
      BY <2>2 DEF CheckFollowup
    <3>2. seen.thread \in Thread \cup {NoThread} /\ Resumed(seen.thread) \subseteq Thread
      BY <2>2, <3>1, SeenAtFacts DEF CheckFollowup, BindInv, Resumed, OnDisk
    <3> QED
      BY <3>1, <3>2 DEF Followup
  <2> QED
    BY <2>1, <2>2
<1> QED
  BY <1>1, <1>2 DEF BindInv, Shapes, Live, ProcsRan, HooksRan, ScanRan, BoundWhereItRan

(* A restart loses the hooks, the scan and the follow-up under way.        *)
LEMMA RestartKeeps ==
  ASSUME BindInv, Restart
  PROVE  BindInv'
<1>1. UNCHANGED <<proc, ran>> /\ hooks' = {} /\ scan' = NoScan /\ followup' = NoFollowup
  BY DEF Restart
<1>2. /\ record' \in [Pane -> Unwritten \cup Thread \cup {NoThread}]
      /\ \A n \in Pane : record'[n] \in Thread => record'[n] = record[n]
  BY DEF Restart, BindInv, Shapes, Unwritten
<1> QED
  BY <1>1, <1>2 DEF BindInv, Shapes, Live, ProcsRan, HooksRan, ScanRan, BoundWhereItRan

-----------------------------------------------------------------------------
(* The theorems                                                            *)

LEMMA BindInvInit == DelegationInit => BindInv
BY DEF DelegationInit, BindInv, Shapes, Live, ProcsRan, HooksRan, ScanRan, BoundWhereItRan, Unwritten

LEMMA BindInvStep == BindInv /\ [DelegationNext]_delegationVars => BindInv'
<1> SUFFICES ASSUME BindInv, [DelegationNext]_delegationVars PROVE BindInv'
  OBVIOUS
<1>1. CASE Delegates
  <2>1. ASSUME NEW p \in Pid, StartTurn(p) PROVE BindInv'
    BY <2>1, GoesKeeps DEF StartTurn, HookEvent
  <2>2. ASSUME NEW p \in Pid, AskPermission(p) PROVE BindInv'
    BY <2>2, GoesKeeps DEF AskPermission, HookEvent
  <2>3. ASSUME NEW p \in Pid, Permit(p) PROVE BindInv'
    BY <2>3, GoesKeeps DEF Permit, HookEvent
  <2>4. ASSUME NEW p \in Pid, StopTurn(p) PROVE BindInv'
    BY <2>4, GoesKeeps DEF StopTurn, HookEvent
  <2> QED
    BY <1>1, <2>1, <2>2, <2>3, <2>4, SpawnKeeps, BeginKeeps, FollowupKeeps, ExitKeeps DEF Delegates
<1>2. CASE FollowThrough
  BY <1>2, CreateKeeps, BeginKeeps, QuietStepKeeps, FollowupKeeps, RespawnKeeps DEF FollowThrough
<1>3. CASE HandleHooks
  BY <1>3, BindFromHookKeeps, HandleHookKeeps, HousekeepingKeeps DEF HandleHooks
<1>4. CASE ScanLoop
  BY <1>4, TakeScanKeeps, BindFromScanKeeps, FoldKeeps DEF ScanLoop
<1>5. CASE Refresh \/ CheckLiveness \/ Age
  BY <1>5, HousekeepingKeeps
<1>6. CASE Restart
  BY <1>6, RestartKeeps
<1>7. CASE UNCHANGED delegationVars
  BY <1>7 DEF delegationVars, world, BindInv, Shapes, Live, ProcsRan, HooksRan, ScanRan, BoundWhereItRan
<1> QED
  BY <1>1, <1>2, <1>3, <1>4, <1>5, <1>6, <1>7 DEF DelegationNext

LEMMA BindInvAlways == DelegationSafety => []BindInv
BY BindInvInit, BindInvStep, PTL DEF DelegationSafety

(* A record is bound to a conversation that was begun in its own pane:     *)
(* handleHook and the pane scan bind no other, however late, reordered or  *)
(* lost their hooks and however the windows come and go.                   *)
THEOREM BindingCorrect == DelegationSafety => []BoundWhereItRan
<1>1. BindInv => BoundWhereItRan
  BY DEF BindInv
<1> QED
  BY <1>1, BindInvAlways, PTL

(* Bind is for good: no step changes the conversation of a bound record,   *)
(* a later hook, a scan, a follow-up or a restart included.                *)
THEOREM BoundForGoodCorrect == DelegationSafety => BoundForGood
<1> DEFINE Kept == \A n \in Pane : record[n] \in Thread => record'[n] = record[n]
<1>1. ASSUME BindInv, [DelegationNext]_delegationVars PROVE Kept
  <2>1. record \in [Pane -> Unwritten \cup Thread \cup {NoThread}]
    BY <1>1 DEF BindInv, Shapes
  <2>2. ASSUME NEW h \in hooks, BindFromHook(h) PROVE Kept
    <3>1. h.thread \in Thread
      BY <1>1 DEF BindInv, Shapes, Hook
    <3> QED
      BY <2>1, <2>2, <3>1, BoundFacts DEF BindFromHook
  <2>3. CASE BindFromScan
    BY <2>1, <2>3 DEF BindFromScan, Bound
  <2>4. ASSUME NEW n \in Pane, NEW p \in Pid, SpawnAgent(n, p) PROVE Kept
    BY <2>1, <2>4 DEF SpawnAgent, Unwritten
  <2>5. ASSUME NEW n \in Pane, CreateWithID(n) PROVE Kept
    BY <2>1, <2>5 DEF CreateWithID, Unwritten
  <2>6. CASE Restart
    BY <2>1, <2>6 DEF Restart, Unwritten
  <2>7. \/ UNCHANGED record \/ BindFromScan \/ Restart
        \/ \E h \in hooks : BindFromHook(h)
        \/ \E n \in Pane : CreateWithID(n) \/ \E p \in Pid : SpawnAgent(n, p)
    <3>1. CASE Delegates
      BY <3>1 DEF Delegates, NewConversation, CheckFollowup, StartTurn, AskPermission,
                  Permit, StopTurn, Goes, Exit
    <3>2. CASE FollowThrough
      BY <3>2 DEF FollowThrough, Begin, OpenRollout, Settle, RecheckFollowup, Respawn
    <3>3. CASE HandleHooks
      BY <3>3 DEF HandleHooks, HandleHook, ResolveName
    <3>4. CASE ScanLoop
      BY <3>4 DEF ScanLoop, TakeScan, FoldReading, FoldPanes, FoldPane, FoldGhosts, FinishScan
    <3>5. CASE Refresh \/ CheckLiveness \/ Age \/ UNCHANGED delegationVars
      BY <3>5 DEF Refresh, CheckLiveness, Age, delegationVars
    <3> QED
      BY <1>1, <3>1, <3>2, <3>3, <3>4, <3>5 DEF DelegationNext
  <2> QED
    BY <2>2, <2>3, <2>4, <2>5, <2>6, <2>7
<1>2. BindInv /\ [DelegationNext]_delegationVars => [Kept]_delegationVars
  BY <1>1
<1> QED
  BY <1>2, BindInvAlways, PTL DEF DelegationSafety, BoundForGood
-----------------------------------------------------------------------------
(* What a wait is told                                                     *)

(* A done row, a done route and a done reading each speak of a             *)
(* conversation in which a turn was completed: a rollout says so first,    *)
(* and each of them has it from a rollout.                                 *)
RolloutsTell == \A t \in Thread : rollout[t] = "done" => t \in finished

RoutesTell == \A t \in Thread : route[t] # NoRoute /\ route[t].status = "done" => t \in finished

ReadingsTell ==
  scan # NoScan => \A r \in scan.todo : /\ r.thread \in Thread
                                        /\ r.verdict = "done" => r.thread \in finished

RowsTell ==
  \A s \in Session : \A k \in Key :
    instances[s][k] # NoRow /\ instances[s][k].status = "done" => k.id \in finished

Told == {"idle", "running", "waiting", "done"}

TurnShapes ==
  /\ rollout \in [Thread -> {"absent", "idle", "running", "done"}]
  /\ route \in [Thread -> Route \cup {NoRoute}]
  /\ \A t \in Thread : route[t] # NoRoute => route[t].status \in Told
  /\ finished \subseteq Thread

(* The inductive invariant of the waits.                                   *)
TellInv ==
  /\ BindInv /\ TypeOK /\ TurnShapes
  /\ RolloutsTell /\ RoutesTell /\ ReadingsTell /\ RowsTell

(* Most steps of the tracker make no row done.                             *)
NoNewDone ==
  \A s \in Session : \A k \in Key :
    instances'[s][k] # NoRow /\ instances'[s][k].status = "done" =>
      instances[s][k] # NoRow /\ instances[s][k].status = "done"

LEMMA NoNewDoneTells ==
  ASSUME RowsTell, NoNewDone, finished \subseteq finished'
  PROVE  RowsTell'
BY DEF RowsTell, NoNewDone

-----------------------------------------------------------------------------
(* The tracker's steps, as a delegate's hooks, scans and refreshes use     *)
(* them                                                                    *)

(* An event puts its own status on one row, of its thread.                 *)
LEMMA EventTells ==
  ASSUME TypeOK, RowsTell, NEW e \in Event, ApplyEvent(e, FALSE, 0),
         e.status = "done" => e.thread \in finished, finished \subseteq finished'
  PROVE  TypeOK' /\ RowsTell'
<1>. DEFINE key == ThreadKey(e.agent, e.thread)
<1>1. PICK row \in Row, D \in SUBSET Key : Stored(e, FALSE, row, D)
  BY Constants, ApplyEventStores
<1>2. key \in Key /\ key.id = e.thread /\ e.session \in Session
  BY DEF ThreadKey, Key, Event
<1>3. StoreEvent(e, key, row, D, FALSE) /\ row.status = e.status
  BY <1>1 DEF Stored
<1>. HIDE DEF key
<1>4. TypeOK'
  BY <1>2, <1>3, StoreEventTyped
<1>5. \A s \in Session : \A k \in Key :
        \/ s = e.session /\ k = key /\ instances'[s][k] = row
        \/ instances'[s][k] \in {instances[s][k], NoRow}
  BY <1>2, <1>3 DEF StoreEvent, Without, TypeOK
<1>6. RowsTell'
  BY <1>2, <1>3, <1>5 DEF RowsTell
<1>. QED BY <1>4, <1>6

(* A scan stamps, mints, retires and deletes; no row changes its status.   *)
LEMMA BeginPresenceTells ==
  ASSUME TypeOK, NEW s \in Session, NEW P \in SUBSET Presence, BeginPresence(s, P)
  PROVE  NoNewDone
<1>1. PICK exempt \in Exempt(s, P) : CountMisses(s, P, exempt, Lost(s, P, exempt))
  BY DEF BeginPresence
<1>. DEFINE lost == Lost(s, P, exempt)
<1>2. \A k \in lost : k \in Key /\ instances[s][k] \in Row
  BY RowsTyped DEF Lost, Missing, Keys
<1>3. \A k \in lost : Retired(instances[s][k]).status = instances[s][k].status
  BY <1>2, RetiredRow
<1>. HIDE DEF lost
<1>4. \A o \in Session : \A k \in Key : instances'[o][k] =
        IF o = s /\ k \in lost
        THEN IF Synthetic(k) THEN NoRow ELSE Retired(instances[o][k])
        ELSE instances[o][k]
  BY <1>1 DEF CountMisses, TypeOK, lost
<1>. QED BY <1>2, <1>3, <1>4, Constants DEF NoNewDone

LEMMA BindPaneTells ==
  ASSUME TypeOK, BindPane
  PROVE  NoNewDone
<1>1. CASE UNCHANGED instances
  BY <1>1 DEF NoNewDone
<1>2. ASSUME fold # NoFold, NEW pa \in fold.todo, NEW key \in Key, NEW row \in Row,
             NEW claims \in SUBSET Key, pa \in Presence, Bind(pa, key, row, claims),
             \/ /\ instances[fold.session][key] # NoRow
                /\ row.status = instances[fold.session][key].status
             \/ row = Minted(pa, instances[fold.session][key])
      PROVE  NoNewDone
  <2>. DEFINE s0 == fold.session
              gone == PidRows(pa, key)
              displaced == DisplacedRows(pa, key)
  <2>1. s0 \in Session
    BY <1>2 DEF TypeOK, Fold
  <2>2. row.status = "done" =>
          instances[s0][key] # NoRow /\ instances[s0][key].status = "done"
    BY <1>2, <2>1, RowsTyped, MintedRow
  <2>3. \A k \in displaced : /\ instances[s0][k] \in Row
                             /\ Retired(instances[s0][k]).status = instances[s0][k].status
    BY <2>1, RowsTyped, RetiredRow DEF DisplacedRows, SameAgent, Keys
  <2>4. \A s \in Session : \A k \in Key : instances'[s][k] =
          IF s # s0 THEN instances[s][k]
          ELSE IF k = key THEN row
          ELSE IF k \in gone THEN NoRow
          ELSE IF k \in displaced THEN Retired(instances[s][k])
          ELSE instances[s][k]
    BY <1>2, <2>1 DEF Bind, TypeOK
  <2>. HIDE DEF s0, gone, displaced
  <2>. QED BY <2>2, <2>3, <2>4, Constants DEF NoNewDone
<1>. QED BY <1>1, <1>2, BindPaneRows

LEMMA EndPresenceTells ==
  ASSUME TypeOK, EndPresence
  PROVE  NoNewDone
<1>1. fold.session \in Session
  BY DEF EndPresence, TypeOK, Fold
<1>2. \A s \in Session : \A k \in Key : instances'[s][k] =
        IF s = fold.session /\ k \in Ghosts(fold.session, fold.claimed)
        THEN Exited(instances[s][k]) ELSE instances[s][k]
  BY <1>1 DEF EndPresence, TypeOK
<1>3. \A k \in Ghosts(fold.session, fold.claimed) :
        /\ instances[fold.session][k] \in Row
        /\ Exited(instances[fold.session][k]).status = instances[fold.session][k].status
  BY <1>1, RowsTyped, ExitedRow DEF Ghosts, Keys
<1>. QED BY <1>2, <1>3, Constants DEF NoNewDone

LEMMA TickTells ==
  ASSUME TypeOK, Tick
  PROVE  NoNewDone
BY RowsTyped, OlderRow, Constants DEF Tick, NoNewDone

(* A refresh marks done the stale rows whose rollout says done.            *)
LEMMA PrepareStateTells ==
  ASSUME TypeOK, RolloutsTell, NEW rows \in [Session -> [Key -> Row \cup {NoRow}]],
         \A s \in Session : \A k \in Key :
           rows[s][k] # NoRow /\ rows[s][k].status = "done" => k.id \in finished,
         PrepareState(rows), finished \subseteq finished'
  PROVE  TypeOK' /\ RowsTell'
<1>. DEFINE asked == [s \in Session |-> [k \in Key |->
                       IF IsStale(rows[s][k]) /\ k.id \in Thread
                       THEN Reconciled(rows[s][k], ProbeLiveStatus(k)) ELSE rows[s][k]]]
            dead  == [s \in Session |-> {k \in Key : IsStuck(asked[s][k]) \/ IsExited(asked[s][k])}]
<1>1. ASSUME NEW s \in Session, NEW k \in Key
      PROVE  /\ asked[s][k] \in Row \cup {NoRow}
             /\ asked[s][k] # NoRow /\ asked[s][k].status = "done" => k.id \in finished
  <2>1. CASE IsStale(rows[s][k]) /\ k.id \in Thread
    <3>1. rows[s][k] \in Row /\ ProbeLiveStatus(k) \in Verdict
      BY <2>1 DEF IsStale, ProbeLiveStatus, Verdict
    <3>2. asked[s][k] = Reconciled(rows[s][k], ProbeLiveStatus(k))
      BY <2>1
    <3>3. asked[s][k] \in Row
      BY <3>1, <3>2, ReconciledRow
    <3>4. rows[s][k].status = "running"
      BY <2>1 DEF IsStale
    <3>5. asked[s][k].status = "done" => ProbeLiveStatus(k) = "ended"
      BY <3>1, <3>2, <3>4 DEF Reconciled, Verdict, Row
    <3>6. ProbeLiveStatus(k) = "ended" => rollout[k.id] = "done"
      BY DEF ProbeLiveStatus
    <3>. HIDE DEF asked
    <3>. QED BY <2>1, <3>3, <3>5, <3>6 DEF RolloutsTell
  <2>2. CASE ~(IsStale(rows[s][k]) /\ k.id \in Thread)
    BY <2>2
  <2>. QED BY <2>1, <2>2
<1>2. dead \in [Session -> SUBSET Key]
  OBVIOUS
<1>3. /\ instances' = [s \in Session |-> Without(asked[s], dead[s])]
      /\ unseen' = {f \in unseen : f[2] \notin dead[f[1]]}
      /\ paneMisses' = [s \in Session |-> [k \in Key |->
                          IF k \in dead[s] THEN 0 ELSE paneMisses[s][k]]]
      /\ UNCHANGED <<active, endedPanes, alive, fold>>
  BY DEF PrepareState
<1>. HIDE DEF asked, dead
<1>4. \A s \in Session : \A k \in Key :
        instances'[s][k] = IF k \in dead[s] THEN NoRow ELSE asked[s][k]
  BY <1>3 DEF Without
<1>5. instances' \in [Session -> [Key -> Row \cup {NoRow}]]
  BY <1>1, <1>3 DEF Without
<1>6. unseen' \subseteq Session \X Key /\ paneMisses' \in [Session -> [Key -> Nat]]
  BY <1>2, <1>3 DEF TypeOK
<1>7. TypeOK'
  BY <1>3, <1>5, <1>6 DEF TypeOK
<1>8. RowsTell'
  BY <1>1, <1>4 DEF RowsTell
<1>. QED BY <1>7, <1>8

(* A refresh, and the one of a liveness sweep: a dead process makes no row *)
(* done.                                                                   *)
LEMMA RefreshTells ==
  ASSUME TypeOK, RolloutsTell, RowsTell, finished \subseteq finished',
         \/ PrepareState(instances)
         \/ PrepareState([s \in Session |-> [k \in Key |-> Swept(instances[s][k])]])
  PROVE  TypeOK' /\ RowsTell'
<1>1. CASE PrepareState(instances)
  BY <1>1, PrepareStateTells DEF TypeOK, RowsTell
<1>2. CASE PrepareState([s \in Session |-> [k \in Key |-> Swept(instances[s][k])]])
  <2>. DEFINE swept == [s \in Session |-> [k \in Key |-> Swept(instances[s][k])]]
  <2>1. ASSUME NEW s \in Session, NEW k \in Key
        PROVE  /\ swept[s][k] \in Row \cup {NoRow}
               /\ swept[s][k] # NoRow /\ swept[s][k].status = "done" => k.id \in finished
    BY RowsTyped, SweptRow DEF RowsTell
  <2>2. swept \in [Session -> [Key -> Row \cup {NoRow}]]
    BY <2>1
  <2>3. PrepareState(swept)
    BY <1>2
  <2>. HIDE DEF swept
  <2>. QED BY <2>1, <2>2, <2>3, PrepareStateTells
<1>. QED BY <1>1, <1>2

-----------------------------------------------------------------------------
(* The processes and the rollouts                                          *)

(* Steps that leave the rows alone; processes may start and end.           *)
RowsStill ==
  /\ UNCHANGED <<instances, unseen, active, paneMisses, endedPanes, fold>>
  /\ alive' \subseteq Pid

LEMMA RowsStillTells ==
  ASSUME TypeOK, RowsTell, RowsStill, finished \subseteq finished'
  PROVE  TypeOK' /\ RowsTell'
BY DEF TypeOK, RowsTell, RowsStill

LEMMA ReadingsStay ==
  ASSUME ReadingsTell, finished \subseteq finished',
         scan' # NoScan => scan # NoScan /\ scan'.todo \subseteq scan.todo
  PROVE  ReadingsTell'
BY DEF ReadingsTell

(* Steps that change neither a rollout nor a route.                        *)
LEMMA WorldTells ==
  ASSUME TellInv, RowsStill, UNCHANGED <<rollout, route, finished>>,
         scan' # NoScan => scan # NoScan /\ scan'.todo \subseteq scan.todo
  PROVE  TypeOK' /\ TurnShapes' /\ RolloutsTell' /\ RoutesTell' /\ ReadingsTell' /\ RowsTell'
<1>1. TypeOK' /\ RowsTell'
  BY RowsStillTells DEF TellInv
<1>2. ReadingsTell'
  BY ReadingsStay DEF TellInv
<1>3. TurnShapes' /\ RolloutsTell' /\ RoutesTell'
  BY DEF TellInv, TurnShapes, RolloutsTell, RoutesTell
<1>. QED BY <1>1, <1>2, <1>3

TellRest == TypeOK /\ TurnShapes /\ RolloutsTell /\ RoutesTell /\ ReadingsTell /\ RowsTell

LEMMA ProcessTells ==
  ASSUME TellInv, NEW p \in Pid,
         \/ \E n \in Pane : SpawnAgent(n, p)
         \/ \E t \in Thread : Begin(p, t) \/ NewConversation(p, t)
         \/ AskPermission(p) \/ Permit(p) \/ StopTurn(p) \/ Exit(p) \/ Respawn(p)
  PROVE  TellRest'
<1>1. RowsStill
  <2>1. CASE \E n \in Pane : SpawnAgent(n, p)
    BY <2>1 DEF SpawnAgent, ProcessStarts, RowsStill, TellInv, TypeOK
  <2>2. CASE \E t \in Thread : Begin(p, t) \/ NewConversation(p, t)
    BY <2>2 DEF Begin, NewConversation, tracker, RowsStill, TellInv, TypeOK
  <2>3. CASE AskPermission(p) \/ Permit(p) \/ StopTurn(p)
    BY <2>3 DEF AskPermission, Permit, StopTurn, Goes, tracker, RowsStill, TellInv, TypeOK
  <2>4. CASE Exit(p)
    BY <2>4 DEF Exit, ProcessExits, RowsStill, TellInv, TypeOK
  <2>5. CASE Respawn(p)
    BY <2>5 DEF Respawn, tracker, world, RowsStill, TellInv, TypeOK
  <2>. QED BY <2>1, <2>2, <2>3, <2>4, <2>5
<1>2. UNCHANGED <<rollout, route, finished, scan>>
  BY DEF SpawnAgent, Begin, NewConversation, AskPermission, Permit, StopTurn, Goes, Exit,
         Respawn, world
<1>. QED BY <1>1, <1>2, WorldTells DEF TellRest

LEMMA ServerTells ==
  ASSUME TellInv,
         \/ \E n \in Pane : CreateWithID(n) \/ CheckFollowup(n)
         \/ RecheckFollowup \/ BindFromScan \/ \E h \in hooks : BindFromHook(h)
         \/ UNCHANGED delegationVars
  PROVE  TellRest'
<1>1. UNCHANGED <<tracker, rollout, route, finished>>
  BY DEF CreateWithID, CheckFollowup, RecheckFollowup, BindFromScan, BindFromHook, world,
         delegationVars
<1>2. RowsStill
  BY <1>1 DEF tracker, RowsStill, TellInv, TypeOK
<1>3. scan' # NoScan => scan # NoScan /\ scan'.todo \subseteq scan.todo
  <2>1. CASE BindFromScan
    BY <2>1 DEF BindFromScan, TellInv, BindInv, Shapes, Scan
  <2>2. CASE UNCHANGED scan
    BY <2>2
  <2>. QED BY <2>1, <2>2 DEF CreateWithID, CheckFollowup, RecheckFollowup, BindFromHook,
                             delegationVars
<1>. QED BY <1>1, <1>2, <1>3, WorldTells DEF TellRest

(* A rollout says done once the turn has been completed.                   *)
LEMMA RolloutTells ==
  ASSUME TellInv, NEW p \in Pid, StartTurn(p) \/ OpenRollout(p) \/ Settle(p)
  PROVE  TellRest'
<1>1. RowsStill /\ UNCHANGED <<route, scan>>
  BY DEF StartTurn, Goes, OpenRollout, Settle, tracker, RowsStill, TellInv, TypeOK
<1>2. p \in Live /\ proc[p].doing # "boot"
  BY DEF StartTurn, Goes, OpenRollout, Settle
<1>. DEFINE t == proc[p].thread
<1>3. t \in Thread
  BY <1>2 DEF TellInv, BindInv, ProcsRan, Shapes
<1>4. \/ UNCHANGED <<rollout, finished>>
      \/ /\ UNCHANGED finished
         /\ rollout' = [rollout EXCEPT ![t] = "running"]
      \/ /\ UNCHANGED finished
         /\ rollout' = [rollout EXCEPT ![t] = "idle"]
      \/ /\ finished' = finished \cup {t}
         /\ rollout' = [rollout EXCEPT ![t] = "done"]
  <2>1. CASE StartTurn(p)
    BY <2>1 DEF StartTurn, Goes
  <2>2. CASE OpenRollout(p)
    <3>1. rollout \in [Thread -> {"absent", "idle", "running", "done"}]
      BY DEF TellInv, TurnShapes
    <3>. QED BY <2>2, <3>1, <1>3 DEF OpenRollout
  <2>3. CASE Settle(p)
    BY <2>3 DEF Settle
  <2>. QED BY <2>1, <2>2, <2>3
<1>. HIDE DEF t
<1>5. finished \subseteq finished' /\ finished' \subseteq Thread
  BY <1>3, <1>4 DEF TellInv, TurnShapes
<1>6. RolloutsTell' /\ rollout' \in [Thread -> {"absent", "idle", "running", "done"}]
  BY <1>3, <1>4 DEF TellInv, TurnShapes, RolloutsTell
<1>7. RoutesTell' /\ TurnShapes'
  BY <1>1, <1>5, <1>6 DEF TellInv, TurnShapes, RoutesTell
<1>8. ReadingsTell'
  BY <1>1, <1>5, ReadingsStay DEF TellInv
<1>9. TypeOK' /\ RowsTell'
  BY <1>1, <1>5, RowsStillTells DEF TellInv
<1>. QED BY <1>6, <1>7, <1>8, <1>9 DEF TellRest

-----------------------------------------------------------------------------
(* The hooks                                                               *)

LEMMA EventOfFacts ==
  ASSUME NEW t \in Thread, NEW p \in Pid \cup {NoPid}, NEW status \in Told
  PROVE  /\ EventOf(t, p, status) \in Event
         /\ EventOf(t, p, status).thread = t
         /\ EventOf(t, p, status).status = status
BY DEF EventOf, Event, Told

(* What becomes of the route on the way: its status is not touched.        *)
LEMMA RouteFacts ==
  ASSUME TellInv, NEW h \in hooks
  PROVE  /\ h.thread \in Thread /\ h.pid \in Pid
         /\ RouteOf(h) \in Route
         /\ RouteOf(h).status \in Told
         /\ RouteOf(h).status = "done" => h.thread \in finished
<1>1. h \in Hook /\ h.thread \in Thread /\ h.pid \in Pid
  BY DEF TellInv, BindInv, Shapes, Hook
<1>. DEFINE r0 == Cached(h.thread)
            r1 == [r0 EXCEPT !.naming = @ \/ route[h.thread] = NoRoute \/ h.event = "stop"]
            r2 == Rerouted(r1, h.pid)
            r3 == Checked(r2, h)
<1>2. /\ r0 \in Route /\ r0.status \in Told
      /\ r0.status = "done" => h.thread \in finished
  <2>1. Unknown \in Route /\ Unknown.status = "idle"
    BY BoundAssumption DEF Unknown, Route
  <2>2. route[h.thread] \in Route \cup {NoRoute}
    BY <1>1 DEF TellInv, TurnShapes
  <2>. QED BY <1>1, <2>1, <2>2 DEF Cached, Told, TellInv, TurnShapes, RoutesTell
<1>. HIDE DEF r0
<1>3. r1 \in Route /\ r1.status = r0.status
  BY <1>2 DEF Route
<1>. HIDE DEF r1
<1>4. r2 \in Route /\ r2.status = r1.status
  BY <1>1, <1>3 DEF Route, Rerouted
<1>. HIDE DEF r2
<1>5. r3 \in Route /\ r3.status = r2.status
  <2>1. Owns(h.pid, h.thread) \in BOOLEAN
    <3>1. h.pid \in Live => proc[h.pid] \in Proc
      BY DEF TellInv, BindInv, Shapes, Live
    <3>. QED BY <3>1 DEF Owns, Proc
  <2>. QED BY <1>4, <2>1 DEF Route, Checked
<1>6. RouteOf(h) = r3
  BY DEF RouteOf, r0, r1, r2
<1>. HIDE DEF r3
<1>. QED BY <1>1, <1>2, <1>3, <1>4, <1>5, <1>6

(* A hook makes a row done when the rollout says so: a Stop alone does     *)
(* not.                                                                    *)
LEMMA StatusOfFacts ==
  ASSUME TellInv, NEW h \in hooks
  PROVE  /\ StatusOf(h) \in Told
         /\ StatusOf(h) = "done" => h.thread \in finished
<1>1. h \in Hook /\ h.thread \in Thread
  BY DEF TellInv, BindInv, Shapes, Hook
<1>2. h.event \in HookEvent
  BY <1>1 DEF Hook
<1>3. StatusOf(h) \in Told
  BY <1>2 DEF StatusOf, HookEvent, Told
<1>4. StatusOf(h) = "done" => rollout[h.thread] = "done"
  BY <1>2 DEF StatusOf, HookEvent
<1>. QED BY <1>1, <1>3, <1>4 DEF TellInv, RolloutsTell

LEMMA HookTells ==
  ASSUME TellInv, NEW h \in hooks, HandleHook(h)
  PROVE  TellRest'
<1>. DEFINE t == h.thread
            r == RouteOf(h)
<1>1. UNCHANGED <<rollout, finished, scan>>
  BY DEF HandleHook, world
<1>2. t \in Thread /\ h.pid \in Pid /\ r \in Route /\ r.status \in Told
      /\ (r.status = "done" => t \in finished)
  BY RouteFacts
<1>3. StatusOf(h) \in Told /\ (StatusOf(h) = "done" => t \in finished)
  BY StatusOfFacts
<1>. HIDE DEF r
<1>4. ASSUME NEW q \in Route, route' = [route EXCEPT ![t] = q], q.status \in Told,
             q.status = "done" => t \in finished
      PROVE  TurnShapes' /\ RoutesTell'
  <2>1. route' \in [Thread -> Route \cup {NoRoute}]
    BY <1>2, <1>4 DEF TellInv, TurnShapes
  <2>2. \A o \in Thread : route'[o] = IF o = t THEN q ELSE route[o]
    BY <1>2, <1>4 DEF TellInv, TurnShapes
  <2>3. RoutesTell' /\ (\A o \in Thread : route'[o] # NoRoute => route'[o].status \in Told)
    BY <1>1, <1>4, <2>2 DEF TellInv, TurnShapes, RoutesTell
  <2>. QED BY <1>1, <2>1, <2>3 DEF TellInv, TurnShapes
<1>5. CASE DropHook(h, r)
  <2>. DEFINE q == [r EXCEPT !.recheck = @ \/ h.event = "stop"]
  <2>1. q \in Route /\ q.status = r.status
    BY <1>2 DEF Route
  <2>2. route' = [route EXCEPT ![t] = q] /\ UNCHANGED tracker
    BY <1>5 DEF DropHook
  <2>. HIDE DEF q
  <2>3. TurnShapes' /\ RoutesTell'
    BY <1>2, <1>4, <2>1, <2>2
  <2>4. TypeOK' /\ RowsTell'
    BY <1>1, <2>2, RowsStillTells DEF tracker, RowsStill, TellInv, TypeOK
  <2>. QED BY <1>1, <2>3, <2>4, ReadingsStay DEF TellRest, TellInv, RolloutsTell
<1>6. CASE SkipHook(h, r)
  <2>1. route' = [route EXCEPT ![t] = r] /\ UNCHANGED tracker
    BY <1>6 DEF SkipHook
  <2>2. TurnShapes' /\ RoutesTell'
    BY <1>2, <1>4, <2>1
  <2>3. TypeOK' /\ RowsTell'
    BY <1>1, <2>1, RowsStillTells DEF tracker, RowsStill, TellInv, TypeOK
  <2>. QED BY <1>1, <2>2, <2>3, ReadingsStay DEF TellRest, TellInv, RolloutsTell
<1>7. CASE EmitHook(h, r)
  <2>. DEFINE q == [r EXCEPT !.status = StatusOf(h)]
              e == EventOf(t, h.pid, StatusOf(h))
  <2>1. q \in Route /\ q.status = StatusOf(h)
    BY <1>2, <1>3, DelegationAssumption, BoundAssumption DEF Route, Told
  <2>2. route' = [route EXCEPT ![t] = q] /\ ApplyEvent(e, FALSE, 0)
    BY <1>7 DEF EmitHook
  <2>3. e \in Event /\ e.thread = t /\ e.status = StatusOf(h)
    BY <1>2, <1>3, EventOfFacts
  <2>. HIDE DEF q, e
  <2>4. TurnShapes' /\ RoutesTell'
    BY <1>3, <1>4, <2>1, <2>2
  <2>5. TypeOK' /\ RowsTell'
    BY <1>1, <1>3, <2>2, <2>3, EventTells DEF TellInv
  <2>. QED BY <1>1, <2>4, <2>5, ReadingsStay DEF TellRest, TellInv, RolloutsTell
<1>. QED BY <1>5, <1>6, <1>7 DEF HandleHook, r

(* A name that is found is sent with the status of the route.              *)
LEMMA NameTells ==
  ASSUME TellInv, NEW t \in Thread, ResolveName(t)
  PROVE  TellRest'
<1>1. UNCHANGED <<rollout, finished, scan>>
  BY DEF ResolveName, world
<1>2. route[t] \in Route /\ route[t].status \in Told
      /\ (route[t].status = "done" => t \in finished)
  BY DEF ResolveName, TellInv, TurnShapes, RoutesTell
<1>. DEFINE q == [route[t] EXCEPT !.naming = FALSE]
<1>3. q \in Route /\ q.status = route[t].status
  BY <1>2 DEF Route
<1>4. route' = [route EXCEPT ![t] = q]
  BY DEF ResolveName
<1>. HIDE DEF q
<1>5. TurnShapes' /\ RoutesTell'
  <2>1. route' \in [Thread -> Route \cup {NoRoute}]
    BY <1>3, <1>4 DEF TellInv, TurnShapes
  <2>2. \A o \in Thread : route'[o] = IF o = t THEN q ELSE route[o]
    BY <1>4 DEF TellInv, TurnShapes
  <2>3. RoutesTell' /\ (\A o \in Thread : route'[o] # NoRoute => route'[o].status \in Told)
    BY <1>1, <1>2, <1>3, <2>2 DEF TellInv, TurnShapes, RoutesTell
  <2>. QED BY <1>1, <2>1, <2>3 DEF TellInv, TurnShapes
<1>6. TypeOK' /\ RowsTell'
  <2>1. CASE UNCHANGED tracker
    BY <1>1, <2>1, RowsStillTells DEF tracker, RowsStill, TellInv, TypeOK
  <2>2. ASSUME NEW p \in Pid \cup {NoPid}, ApplyEvent(EventOf(t, p, route[t].status), FALSE, 0)
        PROVE  TypeOK' /\ RowsTell'
    <3>. DEFINE e == EventOf(t, p, route[t].status)
    <3>1. e \in Event /\ e.thread = t /\ e.status = route[t].status
      BY <1>2, EventOfFacts
    <3>2. ApplyEvent(e, FALSE, 0)
      BY <2>2
    <3>. HIDE DEF e
    <3>. QED BY <1>1, <1>2, <3>1, <3>2, EventTells DEF TellInv
  <2>3. route[t].pid \in Pid \cup {NoPid}
    BY <1>2 DEF Route
  <2>. QED BY <2>1, <2>2, <2>3 DEF ResolveName
<1>. QED BY <1>1, <1>5, <1>6, ReadingsStay DEF TellRest, TellInv, RolloutsTell

-----------------------------------------------------------------------------
(* The scan and the loops                                                  *)

LEMMA TakeScanTells ==
  ASSUME TellInv, TakeScan
  PROVE  TellRest'
<1>1. RowsStill /\ UNCHANGED <<rollout, route, finished>>
  BY DEF TakeScan, tracker, world, RowsStill, TellInv, TypeOK
<1>2. ReadingsTell'
  <2>1. ASSUME NEW p \in Live, ReadingOf(p).verdict # "nosignal"
        PROVE  /\ ReadingOf(p).thread \in Thread
               /\ ReadingOf(p).verdict = "done" => ReadingOf(p).thread \in finished
    <3>1. VerdictOf(p) # "nosignal"
      BY <2>1 DEF ReadingOf
    <3>2. proc[p].open
      BY <3>1 DEF VerdictOf
    <3>3. ReadingOf(p).thread = proc[p].thread /\ proc[p].thread \in Thread
      BY <3>2 DEF ReadingOf, TellInv, BindInv, ProcsRan, Shapes
    <3>4. ReadingOf(p).verdict = "done" => rollout[proc[p].thread] = "done"
      BY DEF ReadingOf, VerdictOf
    <3>. QED BY <3>3, <3>4 DEF TellInv, RolloutsTell
  <2>2. scan' = [seen |-> {ReadingOf(p) : p \in Live},
                 todo |-> {r \in {ReadingOf(p) : p \in Live} : r.verdict # "nosignal"},
                 stage |-> "seen", changed |-> FALSE]
    BY DEF TakeScan
  <2>. QED BY <1>1, <2>1, <2>2 DEF ReadingsTell
<1>3. TypeOK' /\ RowsTell'
  BY <1>1, RowsStillTells DEF TellInv
<1>. QED BY <1>1, <1>2, <1>3 DEF TellRest, TellInv, TurnShapes, RolloutsTell, RoutesTell

LEMMA FoldReadingTells ==
  ASSUME TellInv, NEW r \in scan.todo, FoldReading(r)
  PROVE  TellRest'
<1>1. UNCHANGED <<rollout, route, finished>>
  BY DEF FoldReading, world
<1>2. scan \in Scan /\ scan # NoScan /\ r \in Reading
  BY DEF FoldReading, TellInv, BindInv, Shapes, Scan
<1>3. r.thread \in Thread /\ (r.verdict = "done" => r.thread \in finished)
  BY <1>2 DEF TellInv, ReadingsTell
<1>. DEFINE row == instances[Home][ThreadKey(Codex, r.thread)]
            word == ScanEventOver(row, r.verdict)
            changed == scan.changed \/ \E status \in word : row = NoRow \/ row.status # status
<1>4. \A status \in word : status \in Told /\ (status = "done" => r.verdict = "done")
  BY DEF ScanEventOver, Told
<1>5. TypeOK' /\ RowsTell'
  <2>1. CASE UNCHANGED tracker
    BY <1>1, <2>1, RowsStillTells DEF tracker, RowsStill, TellInv, TypeOK
  <2>2. ASSUME NEW status \in word, ApplyEvent(EventOf(r.thread, r.pid, status), FALSE, 0)
        PROVE  TypeOK' /\ RowsTell'
    <3>. DEFINE e == EventOf(r.thread, r.pid, status)
    <3>1. e \in Event /\ e.thread = r.thread /\ e.status = status
      BY <1>2, <1>3, <1>4, EventOfFacts DEF Reading
    <3>2. ApplyEvent(e, FALSE, 0)
      BY <2>2
    <3>. HIDE DEF e, word
    <3>. QED BY <1>1, <1>3, <1>4, <3>1, <3>2, EventTells DEF TellInv
  <2>. QED BY <2>1, <2>2 DEF FoldReading
<1>6. scan'.todo \subseteq scan.todo
  <2>1. scan' = [scan EXCEPT !.todo = @ \ {r}, !.stage = "locked", !.changed = changed]
    BY DEF FoldReading
  <2>. HIDE DEF changed
  <2>. QED BY <1>2, <2>1 DEF Scan
<1>7. ReadingsTell'
  BY <1>1, <1>2, <1>6, ReadingsStay DEF TellInv
<1>. QED BY <1>1, <1>5, <1>7 DEF TellRest, TellInv, TurnShapes, RolloutsTell, RoutesTell

(* The rest of the fold, which has no status of its own to give.           *)
LEMMA FoldTells ==
  ASSUME TellInv, FoldPanes \/ FoldPane \/ FoldGhosts \/ FinishScan
  PROVE  TellRest'
<1>1. UNCHANGED <<rollout, route, finished>>
  BY DEF FoldPanes, FoldPane, FoldGhosts, FinishScan, world
<1>2. scan' # NoScan => scan # NoScan /\ scan'.todo \subseteq scan.todo
  <2>1. CASE FoldPanes
    BY <2>1 DEF FoldPanes, TellInv, BindInv, Shapes, Scan
  <2>2. CASE FoldPane
    BY <2>2 DEF FoldPane
  <2>3. CASE FoldGhosts
    <3>. DEFINE changed == scan.changed \/ fold.changed \/ Ghosts(fold.session, fold.claimed) # {}
    <3>1. scan \in Scan /\ scan # NoScan
      BY <2>3 DEF FoldGhosts, TellInv, BindInv, Shapes
    <3>2. scan' = [scan EXCEPT !.changed = changed]
      BY <2>3 DEF FoldGhosts
    <3>. HIDE DEF changed
    <3>. QED BY <3>1, <3>2 DEF Scan
  <2>4. CASE FinishScan
    BY <2>4 DEF FinishScan
  <2>. QED BY <2>1, <2>2, <2>3, <2>4
<1>3. TypeOK' /\ RowsTell'
  <2>1. CASE FoldPanes
    <3>1. Present \in SUBSET Presence
      BY <2>1 DEF FoldPanes, Present, TellInv, BindInv, Shapes, Scan, Reading, Presence
    <3>2. BeginPresence(Home, Present)
      BY <2>1 DEF FoldPanes
    <3>. QED BY <1>1, <3>1, <3>2, BeginPresenceTyped, BeginPresenceTells, NoNewDoneTells
             DEF TellInv
  <2>2. CASE FoldPane
    <3>1. BindPane
      BY <2>2 DEF FoldPane
    <3>2. TypeOK'
      BY <3>1, BindPaneRows, BindRows DEF TellInv
    <3>. QED BY <1>1, <3>1, <3>2, BindPaneTells, NoNewDoneTells DEF TellInv
  <2>3. CASE FoldGhosts
    <3>1. EndPresence
      BY <2>3 DEF FoldGhosts
    <3>. QED BY <1>1, <3>1, EndPresenceTyped, EndPresenceTells, NoNewDoneTells DEF TellInv
  <2>4. CASE FinishScan /\ PrepareState(instances)
    BY <1>1, <2>4, RefreshTells DEF TellInv
  <2>5. CASE FinishScan /\ UNCHANGED tracker
    BY <1>1, <2>5, RowsStillTells DEF tracker, RowsStill, TellInv, TypeOK
  <2>. QED BY <2>1, <2>2, <2>3, <2>4, <2>5 DEF FinishScan
<1>4. ReadingsTell'
  BY <1>1, <1>2, ReadingsStay DEF TellInv
<1>. QED BY <1>1, <1>3, <1>4 DEF TellRest, TellInv, TurnShapes, RolloutsTell, RoutesTell

LEMMA LoopsTell ==
  ASSUME TellInv, Refresh \/ CheckLiveness \/ Age
  PROVE  TellRest'
<1>1. UNCHANGED <<rollout, route, finished, scan>>
  BY DEF Refresh, CheckLiveness, Age, world
<1>2. TypeOK' /\ RowsTell'
  <2>1. CASE Refresh \/ CheckLiveness
    BY <1>1, <2>1, RefreshTells DEF Refresh, CheckLiveness, TellInv
  <2>2. CASE Age
    BY <1>1, <2>2, RewriteTyped, TickTells, NoNewDoneTells DEF Age, TellInv
  <2>. QED BY <2>1, <2>2
<1>3. ReadingsTell'
  BY <1>1, ReadingsStay DEF TellInv
<1>. QED BY <1>1, <1>2, <1>3 DEF TellRest, TellInv, TurnShapes, RolloutsTell, RoutesTell

(* A restart seeds running rows only.                                      *)
LEMMA RestartTells ==
  ASSUME TellInv, Restart
  PROVE  TellRest'
<1>1. UNCHANGED <<rollout, finished, active, alive, fold>> /\ scan' = NoScan
      /\ unseen' = {} /\ endedPanes' = {}
      /\ paneMisses' = [s \in Session |-> [k \in Key |-> 0]]
  BY DEF Restart
<1>. DEFINE seed == [status |-> "running", live |-> "unset", pane |-> NoPane, pid |-> NoPid, age |-> 0]
            begun == [Unknown EXCEPT !.status = "running"]
<1>2. PICK seeded \in SUBSET Thread :
        /\ instances' = [s \in Session |-> [k \in Key |->
             IF s = Home /\ k \in {ThreadKey(Codex, t) : t \in seeded} THEN seed ELSE NoRow]]
        /\ route' = [t \in Thread |-> IF t \in seeded THEN begun ELSE NoRoute]
  BY DEF Restart
<1>3. seed \in Row /\ seed.status = "running"
  BY Constants, BoundAssumption DEF Row, Liveness
<1>4. begun \in Route /\ begun.status = "running"
  BY BoundAssumption DEF Unknown, Route
<1>. HIDE DEF seed, begun
<1>5. TypeOK' /\ RowsTell'
  BY <1>1, <1>2, <1>3 DEF TellInv, TypeOK, RowsTell
<1>6. TurnShapes' /\ RoutesTell'
  BY <1>1, <1>2, <1>4 DEF TellInv, TurnShapes, RoutesTell, Told
<1>7. ReadingsTell' /\ RolloutsTell'
  BY <1>1 DEF TellInv, ReadingsTell, RolloutsTell
<1>. QED BY <1>5, <1>6, <1>7 DEF TellRest

-----------------------------------------------------------------------------
(* The theorem                                                             *)

LEMMA TellInvInit == DelegationInit => TellInv
<1>. SUFFICES ASSUME DelegationInit PROVE TellInv
  OBVIOUS
<1>1. TypeOK /\ RowsTell
  BY DEF DelegationInit, Init, TypeOK, RowsTell
<1>. QED BY <1>1, BindInvInit
         DEF DelegationInit, TellInv, TurnShapes, RolloutsTell, RoutesTell, ReadingsTell

LEMMA TellInvStep == TellInv /\ [DelegationNext]_delegationVars => TellInv'
<1>. SUFFICES ASSUME TellInv, [DelegationNext]_delegationVars PROVE TellRest'
  BY BindInvStep DEF TellInv, TellRest
<1>1. CASE Delegates
  BY <1>1, ProcessTells, ServerTells, RolloutTells DEF Delegates
<1>2. CASE FollowThrough
  BY <1>2, ProcessTells, ServerTells, RolloutTells DEF FollowThrough
<1>3. CASE HandleHooks
  BY <1>3, ServerTells, HookTells, NameTells DEF HandleHooks
<1>4. CASE ScanLoop
  BY <1>4, ServerTells, TakeScanTells, FoldReadingTells, FoldTells DEF ScanLoop
<1>5. CASE Refresh \/ CheckLiveness \/ Age
  BY <1>5, LoopsTell
<1>6. CASE Restart
  BY <1>6, RestartTells
<1>7. CASE UNCHANGED delegationVars
  BY <1>7, ServerTells
<1>. QED BY <1>1, <1>2, <1>3, <1>4, <1>5, <1>6, <1>7 DEF DelegationNext

(* What a wait is told of a written record as done is a conversation in    *)
(* which a turn was completed, and of a bound one, a conversation of its   *)
(* own pane.                                                               *)
LEMMA ToldIsTrue ==
  ASSUME TellInv, NEW n \in Pane, Written(n), NEW seen \in SeenAt(n), seen.status = "done"
  PROVE  /\ seen.thread \in finished
         /\ record[n] \in Thread => <<seen.thread, n>> \in ran
<1>1. CASE record[n] \in Thread
  <2>. DEFINE key == ThreadKey(Codex, record[n])
              row == instances[Home][key]
  <2>1. key \in Key /\ key.id = record[n] /\ Home \in Session
    BY <1>1 DEF ThreadKey, Key
  <2>2. seen = [thread |-> record[n],
                status |-> IF row # NoRow THEN row.status ELSE rollout[record[n]]]
    BY <1>1 DEF SeenAt
  <2>. HIDE DEF key
  <2>3. record[n] \in finished
    BY <1>1, <2>1, <2>2 DEF TellInv, RowsTell, RolloutsTell
  <2>4. <<record[n], n>> \in ran
    BY <1>1 DEF TellInv, BindInv, BoundWhereItRan
  <2>. QED BY <2>2, <2>3, <2>4
<1>2. CASE record[n] \notin Thread
  <2>1. PICK k \in Keys(Home) :
          seen = [thread |-> IF Synthetic(k) THEN NoThread ELSE k.id,
                  status |-> instances[Home][k].status]
    BY <1>2 DEF SeenAt
  <2>2. k.id \in finished
    BY <2>1 DEF Keys, TellInv, RowsTell
  <2>3. ~Synthetic(k)
    BY <2>2 DEF Synthetic, TellInv, TurnShapes
  <2>. QED BY <1>2, <2>1, <2>2, <2>3
<1>. QED BY <1>1, <1>2

(* However hooks are lost, delayed and dropped, scans cross them, names    *)
(* are resolved late and the server restarts: no wait reports a delegate   *)
(* finished before a turn of the conversation it is told of was completed. *)
THEOREM FinishedCorrect == DelegationSafety => []FinishedMeansFinished
<1>1. TellInv => FinishedMeansFinished
  BY ToldIsTrue DEF FinishedMeansFinished
<1>. QED BY <1>1, TellInvInit, TellInvStep, PTL DEF DelegationSafety
-----------------------------------------------------------------------------
(* The promises of Tracker in the system                                   *)

(* Every step of the system is, on the tracker, an event, a step of the    *)
(* fold, the clock, a refresh, the wipe of a restart, or nothing.          *)
RowsAsked ==
  {instances, [s \in Session |-> [k \in Key |-> Swept(instances[s][k])]]}

Wiped ==
  /\ \A s \in Session : \A k \in Key : instances'[s][k] # NoRow => instances'[s][k].pid = NoPid
  /\ unseen' = {}
  /\ paneMisses' = [s \in Session |-> [k \in Key |-> 0]]

TrackerStep ==
  \/ UNCHANGED <<instances, unseen, paneMisses>>
  \/ \E e \in Event : ApplyEvent(e, FALSE, 0)
  \/ \E P \in SUBSET Presence : BeginPresence(Home, P)
  \/ BindPane \/ EndPresence \/ Tick
  \/ \E rows \in RowsAsked : PrepareState(rows)
  \/ Wiped

LEMMA HookIsTrackerStep ==
  ASSUME TellInv, NEW h \in hooks, HandleHook(h)
  PROVE  TrackerStep
<1>1. CASE EmitHook(h, RouteOf(h))
  <2>1. h.thread \in Thread /\ h.pid \in Pid /\ StatusOf(h) \in Told
    BY RouteFacts, StatusOfFacts, <1>1 DEF HandleHook
  <2>2. EventOf(h.thread, h.pid, StatusOf(h)) \in Event
    BY <2>1, EventOfFacts
  <2>. QED BY <1>1, <2>2 DEF EmitHook, TrackerStep
<1>2. CASE DropHook(h, RouteOf(h)) \/ SkipHook(h, RouteOf(h))
  BY <1>2 DEF DropHook, SkipHook, tracker, TrackerStep
<1>. QED BY <1>1, <1>2 DEF HandleHook

LEMMA NameIsTrackerStep ==
  ASSUME TellInv, NEW t \in Thread, ResolveName(t)
  PROVE  TrackerStep
<1>1. CASE UNCHANGED tracker
  BY <1>1 DEF tracker, TrackerStep
<1>2. ASSUME NEW p \in Pid \cup {NoPid}, ApplyEvent(EventOf(t, p, route[t].status), FALSE, 0)
      PROVE  TrackerStep
  <2>1. route[t].status \in Told
    BY DEF ResolveName, TellInv, TurnShapes
  <2>2. EventOf(t, p, route[t].status) \in Event
    BY <2>1, EventOfFacts
  <2>. QED BY <1>2, <2>2 DEF TrackerStep
<1>3. route[t].pid \in Pid \cup {NoPid}
  BY DEF ResolveName, TellInv, TurnShapes, Route
<1>. QED BY <1>1, <1>2, <1>3 DEF ResolveName

LEMMA ReadingIsTrackerStep ==
  ASSUME TellInv, scan # NoScan, NEW r \in scan.todo, FoldReading(r)
  PROVE  TrackerStep
<1>1. r.thread \in Thread /\ r.pid \in Pid
  BY DEF TellInv, ReadingsTell, BindInv, Shapes, Scan, Reading
<1>2. CASE UNCHANGED tracker
  BY <1>2 DEF tracker, TrackerStep
<1>3. ASSUME NEW status \in {"done", "running"}, ApplyEvent(EventOf(r.thread, r.pid, status), FALSE, 0)
      PROVE  TrackerStep
  <2>1. EventOf(r.thread, r.pid, status) \in Event
    BY <1>1, EventOfFacts DEF Told
  <2>. QED BY <1>3, <2>1 DEF TrackerStep
<1>4. \A row : ScanEventOver(row, r.verdict) \subseteq {"done", "running"}
  BY DEF ScanEventOver
<1>. QED BY <1>2, <1>3, <1>4 DEF FoldReading

LEMMA ScanIsTrackerStep ==
  ASSUME TellInv, ScanLoop
  PROVE  TrackerStep
<1>1. CASE TakeScan \/ BindFromScan
  BY <1>1 DEF TakeScan, BindFromScan, tracker, TrackerStep
<1>2. ASSUME scan # NoScan, NEW r \in scan.todo, FoldReading(r) PROVE TrackerStep
  BY <1>2, ReadingIsTrackerStep
<1>3. CASE FoldPanes
  <2>1. Present \in SUBSET Presence
    BY <1>3 DEF FoldPanes, Present, TellInv, BindInv, Shapes, Scan, Reading, Presence
  <2>. QED BY <1>3, <2>1 DEF FoldPanes, TrackerStep
<1>4. CASE FoldPane \/ FoldGhosts
  BY <1>4 DEF FoldPane, FoldGhosts, TrackerStep
<1>5. CASE FinishScan
  BY <1>5 DEF FinishScan, RowsAsked, tracker, TrackerStep
<1>. QED BY <1>1, <1>2, <1>3, <1>4, <1>5 DEF ScanLoop

LEMMA RestartIsTrackerStep == Restart => Wiped
<1>. SUFFICES ASSUME Restart PROVE Wiped
  OBVIOUS
<1>1. PICK seeded \in SUBSET {t \in Thread : rollout[t] = "running"} :
        instances' = [s \in Session |-> [k \in Key |->
          IF s = Home /\ k \in {ThreadKey(Codex, t) : t \in seeded}
          THEN [status |-> "running", live |-> "unset", pane |-> NoPane, pid |-> NoPid, age |-> 0]
          ELSE NoRow]]
  BY DEF Restart
<1>2. unseen' = {} /\ paneMisses' = [s \in Session |-> [k \in Key |-> 0]]
  BY DEF Restart
<1>. QED BY <1>1, <1>2 DEF Wiped

LEMMA EveryStepIsTrackerStep ==
  ASSUME TellInv, [DelegationNext]_delegationVars
  PROVE  TrackerStep
<1>1. CASE Delegates
  BY <1>1 DEF Delegates, SpawnAgent, ProcessStarts, NewConversation, CheckFollowup, StartTurn,
              AskPermission, Permit, StopTurn, Goes, Exit, ProcessExits, tracker, TrackerStep
<1>2. CASE FollowThrough
  BY <1>2 DEF FollowThrough, CreateWithID, Begin, OpenRollout, Settle, RecheckFollowup, Respawn,
              tracker, TrackerStep
<1>3. CASE HandleHooks
  <2>1. CASE \E h \in hooks : BindFromHook(h)
    BY <2>1 DEF BindFromHook, tracker, TrackerStep
  <2>. QED BY <1>3, <2>1, HookIsTrackerStep, NameIsTrackerStep DEF HandleHooks
<1>4. CASE ScanLoop
  BY <1>4, ScanIsTrackerStep
<1>5. CASE Refresh \/ CheckLiveness \/ Age
  BY <1>5 DEF Refresh, CheckLiveness, Age, RowsAsked, TrackerStep
<1>6. CASE Restart
  BY <1>6, RestartIsTrackerStep DEF TrackerStep
<1>7. CASE UNCHANGED delegationVars
  BY <1>7 DEF delegationVars, tracker, TrackerStep
<1>. QED BY <1>1, <1>2, <1>3, <1>4, <1>5, <1>6, <1>7 DEF DelegationNext

(* A refresh rewrites rows and deletes some, with their flags and misses.  *)
LEMMA PrepareStateKeeps ==
  ASSUME TypeOK, NEW rows \in RowsAsked, PrepareState(rows)
  PROVE  KeepsPids /\ ClearsWithRows
<1>. DEFINE asked == [s \in Session |-> [k \in Key |->
                       IF IsStale(rows[s][k]) /\ k.id \in Thread
                       THEN Reconciled(rows[s][k], ProbeLiveStatus(k)) ELSE rows[s][k]]]
            dead  == [s \in Session |-> {k \in Key : IsStuck(asked[s][k]) \/ IsExited(asked[s][k])}]
<1>1. ASSUME NEW s \in Session, NEW k \in Key
      PROVE  /\ rows[s][k] \in Row \cup {NoRow}
             /\ rows[s][k] = NoRow <=> instances[s][k] = NoRow
             /\ rows[s][k] # NoRow => rows[s][k].pid = instances[s][k].pid
  <2>1. instances[s][k] \in Row \cup {NoRow}
    BY RowsTyped
  <2>2. rows[s][k] \in {instances[s][k], Swept(instances[s][k])}
    BY DEF RowsAsked
  <2>. QED BY <2>1, <2>2, SweptRow
<1>2. ASSUME NEW s \in Session, NEW k \in Key
      PROVE  /\ asked[s][k] = NoRow <=> instances[s][k] = NoRow
             /\ asked[s][k] # NoRow => asked[s][k].pid = instances[s][k].pid
  <2>1. CASE IsStale(rows[s][k]) /\ k.id \in Thread
    <3>1. rows[s][k] \in Row /\ ProbeLiveStatus(k) \in Verdict
      BY <1>1, <2>1 DEF IsStale, ProbeLiveStatus, Verdict
    <3>2. asked[s][k] = Reconciled(rows[s][k], ProbeLiveStatus(k))
      BY <2>1
    <3>. HIDE DEF asked
    <3>. QED BY <1>1, <3>1, <3>2, ReconciledRow, Constants
  <2>2. CASE ~(IsStale(rows[s][k]) /\ k.id \in Thread)
    BY <1>1, <2>2
  <2>. QED BY <2>1, <2>2
<1>3. /\ instances' = [s \in Session |-> Without(asked[s], dead[s])]
      /\ unseen' = {f \in unseen : f[2] \notin dead[f[1]]}
      /\ paneMisses' = [s \in Session |-> [k \in Key |->
                          IF k \in dead[s] THEN 0 ELSE paneMisses[s][k]]]
  BY DEF PrepareState
<1>. HIDE DEF asked, dead
<1>4. \A s \in Session : \A k \in Key :
        instances'[s][k] = IF k \in dead[s] THEN NoRow ELSE asked[s][k]
  BY <1>3 DEF Without
<1>5. KeepsPids
  BY <1>2, <1>4 DEF KeepsPids
<1>6. ClearsWithRows
  BY <1>2, <1>3, <1>4 DEF ClearsWithRows
<1>. QED BY <1>5, <1>6

TrackerPromises == OneRowPerProcess /\ FlagsBelongToRows

LEMMA TrackerStepKeepsPromises ==
  ASSUME TypeOK, TypeOK', TrackerPromises, TrackerStep
  PROVE  TrackerPromises'
<1>. USE DEF TrackerPromises
<1>1. CASE UNCHANGED <<instances, unseen, paneMisses>>
  BY <1>1 DEF OneRowPerProcess, FlagsBelongToRows, Keys
<1>2. ASSUME NEW e \in Event, ApplyEvent(e, FALSE, 0) PROVE TrackerPromises'
  <2>1. PICK row \in Row, D \in SUBSET Key : Stored(e, FALSE, row, D)
    BY <1>2, ApplyEventStores, Constants
  <2>. QED BY <2>1, StoreEventKeepsOneRow, StoreEventClears, ClearsWithRowsKeepsFlags
<1>3. ASSUME NEW P \in SUBSET Presence, BeginPresence(Home, P) PROVE TrackerPromises'
  BY <1>3, BeginPresenceTyped, KeepsPidsKeepsOneRow, BeginPresenceClears, ClearsWithRowsKeepsFlags
<1>4. CASE BindPane
  BY <1>4, BindPaneKeepsOneRow, BindPaneClears, ClearsWithRowsKeepsFlags
<1>5. CASE EndPresence \/ Tick
  <2>1. KeepsPids
    BY <1>5, EndPresenceTyped, RewriteTyped
  <2>2. ClearsWithRows
    BY <1>5, RewriteClears
  <2>. QED BY <2>1, <2>2, KeepsPidsKeepsOneRow, ClearsWithRowsKeepsFlags
<1>6. ASSUME NEW rows \in RowsAsked, PrepareState(rows) PROVE TrackerPromises'
  BY <1>6, PrepareStateKeeps, KeepsPidsKeepsOneRow, ClearsWithRowsKeepsFlags
<1>7. CASE Wiped
  BY <1>7 DEF Wiped, OneRowPerProcess, FlagsBelongToRows, Keys
<1>. QED BY <1>1, <1>2, <1>3, <1>4, <1>5, <1>6, <1>7 DEF TrackerStep

(* What the tracker promises of its own steps it keeps under the server's  *)
(* loops, which fold scans late, refresh in several passes at once and     *)
(* restart: no two rows of an agent hold one process, and flags and miss   *)
(* counts go with their rows.                                              *)
THEOREM TrackerPromisesKept == DelegationSafety => [](OneRowPerProcess /\ FlagsBelongToRows)
<1>1. DelegationInit => TrackerPromises
  BY DEF DelegationInit, Init, TrackerPromises, OneRowPerProcess, FlagsBelongToRows, Keys
<1>2. TellInv => TypeOK
  BY DEF TellInv
<1>3. TellInv /\ TellInv' /\ TrackerPromises /\ [DelegationNext]_delegationVars => TrackerPromises'
  BY <1>2, EveryStepIsTrackerStep, TrackerStepKeepsPromises DEF TellInv
<1>4. DelegationSafety => []TrackerPromises
  BY <1>1, <1>3, TellInvInit, TellInvStep, PTL DEF DelegationSafety
<1>. QED BY <1>4, PTL DEF TrackerPromises
=============================================================================
