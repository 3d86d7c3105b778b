----------------------------- MODULE WidthProofs ----------------------------
(***************************************************************************)
(* For any panes, widths, contents and numbers of moves and timers: the    *)
(* type of the state, that no width of a reflow and none of a swept exit   *)
(* is saved, and that the sidebars agree at rest.                          *)
(*                                                                         *)
(* None of them is inductive.  A width is saved for a report that came     *)
(* long before, so the invariant says why each timer was armed and what    *)
(* is still on its way to stop it; and two sidebars that differ now will   *)
(* agree at rest, so it says what will make them: a hook, a timer, a job   *)
(* or a drag that is still to be told.                                     *)
(***************************************************************************)
EXTENDS Width, TLAPS

-----------------------------------------------------------------------------
(* The inductive invariant                                                 *)

(* What changed a width a program has yet to learn of, or reports.         *)
CausesKnown ==
  /\ \A r \in mail : r.cause # "none"
  /\ \A p \in Pane : panes[p].known # panes[p].width => panes[p].cause # "none"

TypeInv == TypeOK /\ CausesKnown

(* The two hooks of a session switch come in any order, and the timer of   *)
(* the second waits for the first.                                         *)
FocusEnsures == hooks["focus"] > 0 => hooks["ensure"] > 0 \/ ensuring

(* A job that has yet to list the panes has none to resize.                *)
ListingsFresh == \A j \in jobs : j.stage = "list" => j.todo = {}

(* The width that a closed pane left is told of before the hook is handled *)
(* and its timer fires, or is not told of any more.                        *)
SweepDue == hooks["exit"] > 0 \/ sweep.timer

ExitsExpected ==
  /\ \A r \in mail : r.cause = "exit" => SweepDue
  /\ \A p \in alive : panes[p].known # panes[p].width /\ panes[p].cause = "exit" => SweepDue

NoLateExit == SweptExitsNotSaved /\ \A c \in save.ticking \cup save.expired : c.why # "late exit"

(* At most one save timer is not done, and Stop would reach it.            *)
OneSave ==
  /\ save.ticking = {} \/ save.expired = {}
  /\ \A c, d \in save.ticking \cup save.expired : c = d
  /\ \A c \in save.ticking \cup save.expired : c.id = save.timer

(* The hooks that stop a save.                                             *)
EchoHook == hooks["focus"] > 0 \/ hooks["ensure"] > 0 \/ hooks["resize"] > 0

(* An echo's save ticks only while a hook that will stop it is on its way. *)
EarlySafe ==
  /\ OneSave
  /\ \A c \in save.ticking : c.why = "early reflow" => EchoHook
  /\ \A c \in save.expired : c.why # "early reflow"
  /\ saved.why # "early reflow"

EarlyInv == torn \/ EarlySafe

(* What will put every sidebar right, what will do so with one of them,    *)
(* and the drag of one that is still to be noticed or reported.            *)
AllDue == \/ hooks["ensure"] > 0 \/ hooks["resize"] > 0 \/ hooks["exit"] > 0
          \/ ensuring \/ sweep.timer \/ sweep.queued > 0 \/ sweep.stage = "confirming"
          \/ save.ticking \cup save.expired # {}

JobDue(p) == \E j \in jobs : (j.stage = "list" /\ p \notin j.skip) \/ p \in j.todo

DragDue(p) == \/ panes[p].known # panes[p].width /\ panes[p].cause = "drag"
              \/ \E r \in mail : r.from = p /\ r.cause = "drag" /\ r.width = panes[p].width

AgreeInv == \A p \in alive \ odd : panes[p].width = want \/ AllDue \/ JobDue(p) \/ DragDue(p)

IInv == TypeInv /\ FocusEnsures /\ ListingsFresh /\ ExitsExpected /\ NoLateExit /\ EarlyInv /\ AgreeInv

-----------------------------------------------------------------------------
(* Widths                                                                  *)

(* The larger of two numbers.                                              *)
LEMMA MaxPair == ASSUME NEW a \in Nat, NEW b \in Nat PROVE Max({a, b}) = IF a >= b THEN a ELSE b
 BY DEF Max
(* The smaller of two numbers.                                             *)
LEMMA MinPair == ASSUME NEW a \in Nat, NEW b \in Nat PROVE Min({a, b}) = IF a <= b THEN a ELSE b
 BY DEF Min

(* A width within the bounds is left alone.                                *)
LEMMA ClampTwice ==
  ASSUME NEW w \in Nat
  PROVE  Clamp(w, WindowWidth) \in Nat /\ Clamp(Clamp(w, WindowWidth), WindowWidth) = Clamp(w, WindowWidth)
<1> DEFINE least == IF AbsoluteMin >= w THEN AbsoluteMin ELSE w
           most  == (WindowWidth * 2) \div 5
<1>1. least \in Nat /\ most \in Nat /\ least >= AbsoluteMin /\ AbsoluteMin \in Nat /\ WindowWidth \in Nat
  BY WidthAssumption DEF AbsoluteMin
<1>2. Max({AbsoluteMin, w}) = least
  BY <1>1, MaxPair
<1>3. Max({AbsoluteMin, least}) = least
  BY <1>1, MaxPair
<1>4. CASE WindowWidth = 0
  BY <1>1, <1>2, <1>3, <1>4 DEF Clamp
<1>5. CASE WindowWidth # 0
  <2>1. Clamp(w, WindowWidth) = IF most <= least THEN most ELSE least
    <3>1. Clamp(w, WindowWidth) = Min({most, least})
      BY <1>2, <1>5 DEF Clamp
    <3> HIDE DEF least, most
    <3> QED BY <1>1, <3>1, MinPair
  <2>2. CASE most <= least
    <3>1. Max({AbsoluteMin, most}) = IF AbsoluteMin >= most THEN AbsoluteMin ELSE most
      BY <1>1, MaxPair
    <3>2. Clamp(most, WindowWidth) = Min({most, Max({AbsoluteMin, most})})
      BY <1>5 DEF Clamp
    <3> HIDE DEF least, most
    <3>3. Clamp(most, WindowWidth) = most
      BY <1>1, <3>1, <3>2, MinPair
    <3> QED BY <1>1, <2>1, <2>2, <3>3
  <2>3. CASE ~(most <= least)
    <3>1. Clamp(least, WindowWidth) = Min({most, least})
      BY <1>3, <1>5 DEF Clamp
    <3> HIDE DEF least, most
    <3>2. Clamp(least, WindowWidth) = least
      BY <1>1, <2>3, <3>1, MinPair
    <3> QED BY <1>1, <2>1, <2>3, <3>2
  <2> QED BY <2>2, <2>3
<1> QED BY <1>4, <1>5

(* A width that is clamped is again one of the widths.                     *)
LEMMA ClampWidths == \A w \in Widths : Clamp(w, WindowWidth) \in Widths
<1>1. ASSUME NEW w \in Asked PROVE w \in Nat
  <2>1. CASE w \in Size
    BY <2>1, WidthAssumption
  <2>2. CASE w = DefaultWidth
    BY <2>2 DEF DefaultWidth
  <2>3. CASE \E c \in Content : w = ComputeMin(c)
    BY <2>3, ContentAssumption
  <2> QED BY <2>1, <2>2, <2>3 DEF Asked
<1> QED BY <1>1, ClampTwice DEF Widths

-----------------------------------------------------------------------------
(* The fields of the records                                               *)

(* What tmux, the user and the content ask for are widths.                 *)
LEMMA WidthsAsked ==
  /\ Size \subseteq Widths /\ DefaultWidth \in Widths
  /\ \A c \in Content : ComputeMin(c) \in Widths
BY DEF Widths, Asked

(* What the steps write into a sidebar's record.                           *)
LEMMA SidebarFields ==
  \A b \in Sidebar, w \in Widths, c \in Cause :
    /\ [b EXCEPT !.width = w, !.cause = c] \in Sidebar
    /\ [b EXCEPT !.known = w, !.cause = c] \in Sidebar
BY DEF Sidebar

(* The fields of a sidebar's record.                                       *)
LEMMA SidebarParts ==
  \A b \in Sidebar : b.width \in Widths /\ b.known \in Widths /\ b.cause \in Cause
BY DEF Sidebar

(* A resized pane is a pane.                                               *)
LEMMA ResizedType ==
  ASSUME panes \in [Pane -> Sidebar], NEW p \in Pane, NEW w \in Widths, NEW c \in Cause
  PROVE  Resized(p, w, c) \in Sidebar
BY SidebarFields DEF Resized

(* What the steps write into the save timers.                              *)
LEMMA SaveFields ==
  \A t \in Save, i \in Id \cup {None}, C \in SUBSET Callback :
    /\ [t EXCEPT !.timer = i] \in Save
    /\ [t EXCEPT !.expired = C, !.timer = i] \in Save
    /\ [t EXCEPT !.ticking = C, !.timer = i] \in Save
    /\ [t EXCEPT !.timer = i, !.ticking = C] \in Save
    /\ \A D \in SUBSET Callback : [t EXCEPT !.ticking = C, !.expired = D] \in Save
    /\ t.timer \in Id \cup {None} /\ t.ticking \subseteq Callback /\ t.expired \subseteq Callback
BY DEF Save

(* What the steps write into the marker.                                   *)
LEMMA MarkerFields ==
  ASSUME NEW t \in Marker, NEW i \in Id \cup {None}, NEW I \in SUBSET Id, NEW J \in SUBSET Id,
         NEW b \in BOOLEAN
  PROVE  /\ [t EXCEPT !.on = b] \in Marker
         /\ [t EXCEPT !.ticking = I, !.expired = J] \in Marker
         /\ [t EXCEPT !.expired = I, !.on = b, !.timer = i] \in Marker
         /\ [on |-> b, timer |-> i, ticking |-> I, expired |-> J] \in Marker
         /\ t.timer \in Id \cup {None} /\ t.ticking \subseteq Id /\ t.expired \subseteq Id
<1>1. [t EXCEPT !.on = b] \in Marker
  BY DEF Marker
<1>2. [t EXCEPT !.ticking = I, !.expired = J] \in Marker
  BY DEF Marker
<1>3. [t EXCEPT !.expired = I, !.on = b, !.timer = i] \in Marker
  BY DEF Marker
<1>4. [on |-> b, timer |-> i, ticking |-> I, expired |-> J] \in Marker
  BY DEF Marker
<1>5. t.timer \in Id \cup {None} /\ t.ticking \subseteq Id /\ t.expired \subseteq Id
  BY DEF Marker
<1> QED BY <1>1, <1>2, <1>3, <1>4, <1>5

(* What the steps write into the sweep.                                    *)
LEMMA SweepFields ==
  ASSUME NEW s \in Sweep
  PROVE  /\ \A b \in BOOLEAN : [s EXCEPT !.timer = b] \in Sweep
         /\ \A b \in BOOLEAN, n \in Nat : [s EXCEPT !.timer = b, !.queued = n] \in Sweep
         /\ \A n \in Nat, P \in SUBSET Pane, g \in Stage :
              [s EXCEPT !.queued = n, !.suspects = P, !.stage = g] \in Sweep
         /\ \A g \in Stage, P \in SUBSET Pane : [s EXCEPT !.stage = g, !.suspects = P] \in Sweep
         /\ \A g \in Stage : [s EXCEPT !.stage = g] \in Sweep
BY DEF Sweep

(* The fields of the sweep.                                                *)
LEMMA SweepParts ==
  \A s \in Sweep : s.timer \in BOOLEAN /\ s.queued \in Nat /\ s.suspects \subseteq Pane
BY DEF Sweep

(* A new job is a job.                                                     *)
LEMMA JobFields ==
  \A P \in SUBSET Pane, b \in BOOLEAN : NewJob(P, b) \in Job
BY WidthsAsked DEF NewJob, Job

(* A job that has listed the panes, or resized one of them, is a job.      *)
LEMMA JobFieldsRead ==
  \A j \in Job, P \in SUBSET Pane, w \in Widths :
    /\ [j EXCEPT !.stage = "resize", !.want = w, !.todo = P] \in Job
    /\ [j EXCEPT !.todo = P] \in Job
BY DEF Job

(* The fields of a job.                                                    *)
LEMMA JobParts ==
  \A j \in Job : j.skip \subseteq Pane /\ j.todo \subseteq Pane /\ j.want \in Widths
BY DEF Job

(* Cancelling gives save timers.                                           *)
LEMMA CancelledType ==
  ASSUME NEW t \in Save PROVE Cancelled(t) \in Save
<1> {c \in t.ticking : c.id # t.timer} \subseteq Callback
  BY SaveFields
<1> QED BY SaveFields DEF Cancelled, None

(* A hook that arrives was sent.                                           *)
LEMMA HooksType ==
  ASSUME hooks \in [HookKind -> Nat], NEW k \in HookKind, Arrives(k)
  PROVE  hooks' \in [HookKind -> Nat]
<1>1. hooks[k] \in Nat /\ hooks[k] > 0
  BY DEF Arrives
<1> DEFINE n == hooks[k] - 1
<1>2. n \in Nat
  BY <1>1
<1>3. hooks' = [hooks EXCEPT ![k] = n]
  BY DEF Arrives
<1> HIDE DEF n
<1> QED BY <1>2, <1>3

(* The marker's timers are named by free ids.                              *)
LEMMA MarkedType ==
  ASSUME marker \in Marker, SetPendingEnforcement
  PROVE  marker' \in Marker
<1> DEFINE free == CHOOSE i \in Id : i \notin marker.ticking \cup marker.expired
<1>1. free \in Id
  BY DEF SetPendingEnforcement
<1>2. marker.ticking \subseteq Id /\ marker.expired \subseteq Id
  BY MarkerFields
<1>3. marker' = [on |-> TRUE, timer |-> free, ticking |-> (marker.ticking \ {marker.timer}) \cup {free},
                 expired |-> marker.expired]
  BY DEF SetPendingEnforcement, Marked
<1> HIDE DEF free
<1> QED BY <1>1, <1>2, <1>3, MarkerFields

(* A hook's handler gives timers.                                          *)
LEMMA PendingType ==
  ASSUME TypeOK, SetPendingEnforcement
  PROVE  save' \in Save /\ marker' \in Marker /\ torn' \in BOOLEAN
<1>1. save' = Cancelled(save) /\ torn' \in BOOLEAN
  BY DEF SetPendingEnforcement, HookCancels
<1>2. marker' \in Marker
  BY MarkedType DEF TypeOK
<1>3. Cancelled(save) \in Save
  BY CancelledType DEF TypeOK
<1> QED BY <1>1, <1>2, <1>3

-----------------------------------------------------------------------------
(* Types                                                                   *)

(* Starting a job gives jobs.                                              *)
LEMMA NewJobsType ==
  ASSUME jobs \subseteq Job, NEW P \in SUBSET Pane
  PROVE  Enforce(P) => jobs' \subseteq Job
BY JobFields DEF Enforce

(* The user and tmux keep the types.                                       *)
LEMMA TypeStepUser ==
  ASSUME TypeOK, User
  PROVE  TypeOK'
<1> USE DEF TypeOK
<1>0. moves < MaxMoves => moves + 1 \in Nat
  OBVIOUS
<1>1. ASSUME NEW p \in Pane, NEW w \in Size, Drag(p, w)
      PROVE  TypeOK'
  <2>1. Resized(p, w, "drag") \in Sidebar
    BY ResizedType, WidthsAsked DEF Cause
  <2>2. panes' \in [Pane -> Sidebar]
    BY <1>1, <2>1 DEF Drag
  <2> QED BY <1>1, <2>2 DEF Drag, Move, timers
<1>2. ASSUME NEW p \in Pane, NEW w \in Size, SwitchSession(p, w)
      PROVE  TypeOK'
  <2>1. Resized(p, w, "reflow") \in Sidebar
    BY ResizedType, WidthsAsked DEF Cause
  <2>2. panes' \in [Pane -> Sidebar]
    BY <1>2, <2>1 DEF SwitchSession
  <2>3. hooks' \in [HookKind -> Nat]
    BY <1>2 DEF SwitchSession, HookKind
  <2> QED BY <1>2, <2>2, <2>3 DEF SwitchSession, Move, timers
<1>3. ASSUME NEW p \in Pane, NEW w \in Size, ClosePane(p, w)
      PROVE  TypeOK'
  <2>1. Resized(p, w, "exit") \in Sidebar
    BY ResizedType, WidthsAsked DEF Cause
  <2>2. panes' \in [Pane -> Sidebar]
    BY <1>3, <2>1 DEF ClosePane
  <2>3. hooks' \in [HookKind -> Nat]
    BY <1>3 DEF ClosePane, HookKind
  <2> QED BY <1>3, <2>2, <2>3 DEF ClosePane, Move, timers
<1>4. ASSUME NEW w \in Size, ResizeTerminal(w)
      PROVE  TypeOK'
  <2>1. \A p \in Pane : Resized(p, w, "reflow") \in Sidebar
    BY ResizedType, WidthsAsked DEF Cause
  <2>2. panes' \in [Pane -> Sidebar]
    BY <1>4, <2>1 DEF ResizeTerminal
  <2>3. hooks' \in [HookKind -> Nat]
    BY <1>4 DEF ResizeTerminal, HookKind
  <2> QED BY <1>4, <2>2, <2>3 DEF ResizeTerminal, Move, timers
<1>5. CASE Learn
  BY <1>5 DEF Learn, timers
<1>6. CASE EqualizeWidth
  <2>1. save' \in Save
    BY <1>6, CancelledType DEF EqualizeWidth
  <2>2. want' \in Widths /\ saved' \in Saved
    BY <1>6, WidthsAsked DEF EqualizeWidth, Saved, Why
  <2>3. jobs' \subseteq Job
    BY <1>6, NewJobsType DEF EqualizeWidth
  <2>4. torn' \in BOOLEAN
    BY <1>6 DEF EqualizeWidth
  <2> QED BY <1>6, <2>1, <2>2, <2>3, <2>4 DEF EqualizeWidth, Move
<1>7. ASSUME NEW c \in Content, FloorWidthToContent(c)
      PROVE  TypeOK'
  <2>1. jobs' \subseteq Job
    BY <1>7, NewJobsType DEF FloorWidthToContent
  <2> QED BY <1>7, <2>1, WidthsAsked DEF FloorWidthToContent, Move, timers
<1> QED BY <1>1, <1>2, <1>3, <1>4, <1>5, <1>6, <1>7 DEF User

(* Adopting a report keeps the types: its cause is one a save may have,    *)
(* and its width within the bounds is a width.                             *)
LEMMA AdoptType ==
  ASSUME TypeInv, NEW r \in mail, Adopt(r)
  PROVE  save' \in Save /\ torn' \in BOOLEAN /\ odd' \subseteq Pane
<1> DEFINE w == Clamp(r.width, WindowWidth)
           t == Cancelled(save)
           i == CHOOSE j \in Id : j \notin Ids(t)
           c == [id |-> i, width |-> w, from |-> r.from, why |-> WhySaved(r)]
<1>1. r \in Report /\ r.from \in Pane /\ r.width \in Widths /\ r.cause \in Cause
  BY DEF TypeInv, TypeOK, Report
<1>2. w \in Widths
  BY <1>1, ClampWidths
<1>3. t \in Save
  BY CancelledType DEF TypeInv, TypeOK
<1>4. odd' \subseteq Pane
  BY <1>1 DEF TypeInv, TypeOK, Adopt
<1>5. WhySaved(r) \in Why
  <2>1. "late exit" \in Why /\ "early exit" \in Why /\ "early reflow" \in Why /\ "second echo" \in Why
    BY DEF Why
  <2>2. r.cause \in {"drag", "enforce", "reflow", "exit"}
    BY <1>1 DEF Cause, TypeInv, CausesKnown
  <2>3. CASE r.cause = "exit"
    BY <2>1, <2>3 DEF WhySaved
  <2>4. CASE r.cause = "reflow"
    BY <2>1, <2>4 DEF WhySaved
  <2>5. CASE r.cause \in {"drag", "enforce"}
    BY <2>5 DEF WhySaved, Why
  <2> QED BY <2>2, <2>3, <2>4, <2>5
<1>6. CASE w = want
  BY <1>4, <1>6 DEF TypeInv, TypeOK, Adopt
<1>7. CASE w # want
  <2>1. /\ Id \ Ids(t) # {}
        /\ save' = [t EXCEPT !.timer = i, !.ticking = @ \cup {c}]
        /\ torn' = (torn \/ save.expired # {})
    BY <1>7 DEF Adopt
  <2>2. i \in Id
    BY <2>1
  <2>3. c \in Callback
    BY <1>1, <1>2, <1>5, <2>2 DEF Callback
  <2>4. t.ticking \cup {c} \subseteq Callback
    BY <1>3, <2>3, SaveFields
  <2>5. save' = [t EXCEPT !.timer = i, !.ticking = t.ticking \cup {c}]
    BY <2>1
  <2>6. torn' \in BOOLEAN
    BY <2>1
  <2> HIDE DEF i, t, c
  <2>7. save' \in Save
    BY <1>3, <2>2, <2>4, <2>5, SaveFields
  <2> QED BY <1>4, <2>6, <2>7
<1> QED BY <1>6, <1>7

(* The programs and the server keep the types.                             *)
LEMMA TypeStepServer ==
  ASSUME TypeInv, Server
  PROVE  TypeOK'
<1> USE DEF TypeInv, TypeOK
<1>1. ASSUME NEW p \in Pane, Notice(p)
      PROVE  TypeOK'
  <2>1. panes[p].width \in Widths /\ panes[p].cause \in Cause
    BY SidebarParts
  <2>2. panes' \in [Pane -> Sidebar]
    <3>1. [panes[p] EXCEPT !.known = panes[p].width, !.cause = "none"] \in Sidebar
      BY <2>1, SidebarFields DEF Cause
    <3>2. panes' = [panes EXCEPT ![p] = [panes[p] EXCEPT !.known = panes[p].width, !.cause = "none"]]
      BY <1>1 DEF Notice
    <3> QED BY <3>1, <3>2
  <2>3. [from |-> p, width |-> panes[p].width, cause |-> panes[p].cause] \in Report
    BY <2>1 DEF Report
  <2>4. mail' \subseteq Report /\ odd' \subseteq Pane
    BY <1>1, <2>3 DEF Notice
  <2> QED BY <1>1, <2>2, <2>4 DEF Notice, timers
<1>2. ASSUME NEW r \in mail, ReportWidth(r)
      PROVE  TypeOK'
  <2>1. r.from \in Pane
    BY DEF Report
  <2>2. mail' \subseteq Report
    BY <1>2 DEF ReportWidth
  <2>3. /\ marker' \in Marker /\ jobs' \subseteq Job
        /\ save' \in Save /\ torn' \in BOOLEAN /\ odd' \subseteq Pane
    <3>1. CASE SweepUnderWay /\ UNCHANGED <<marker, save, jobs, torn>>
               /\ odd' = IF r.cause = "drag" THEN odd \cup {r.from} ELSE odd
      BY <2>1, <3>1
    <3>2. CASE Echo(r)
      <4>1. marker' \in Marker
        BY <3>2, MarkerFields DEF Echo
      <4>2. jobs' \subseteq Job
        BY <3>2, NewJobsType DEF Echo
      <4> QED BY <3>2, <4>1, <4>2 DEF Echo
    <3>3. CASE Adopt(r)
      BY <3>3, AdoptType DEF Adopt
    <3> QED BY <1>2, <3>1, <3>2, <3>3 DEF ReportWidth
  <2> QED BY <1>2, <2>2, <2>3 DEF ReportWidth, env
<1>3. CASE FocusHook
  <2>1. save' \in Save /\ marker' \in Marker /\ torn' \in BOOLEAN /\ hooks' \in [HookKind -> Nat]
    BY <1>3, PendingType, HooksType DEF FocusHook, HookKind
  <2> QED BY <1>3, <2>1 DEF FocusHook
<1>4. CASE EnsureHook
  <2>1. save' \in Save /\ marker' \in Marker /\ torn' \in BOOLEAN /\ hooks' \in [HookKind -> Nat]
    BY <1>4, PendingType, HooksType DEF EnsureHook, HookKind
  <2> QED BY <1>4, <2>1 DEF EnsureHook
<1>5. CASE ClientResized
  <2>1. save' \in Save /\ marker' \in Marker /\ torn' \in BOOLEAN /\ hooks' \in [HookKind -> Nat]
    BY <1>5, PendingType, HooksType DEF ClientResized, HookKind
  <2>2. jobs' \subseteq Job
    BY <1>5, NewJobsType DEF ClientResized
  <2> QED BY <1>5, <2>1, <2>2 DEF ClientResized
<1>6. CASE PaneExited
  <2>1. hooks' \in [HookKind -> Nat]
    BY <1>6, HooksType DEF PaneExited, HookKind
  <2>2. sweep' \in Sweep
    <3>1. [sweep EXCEPT !.timer = TRUE] \in Sweep
      BY SweepFields
    <3> QED BY <1>6, <3>1 DEF PaneExited
  <2>3. jobs' \subseteq Job
    BY <1>6, NewJobsType DEF PaneExited
  <2> QED BY <1>6, <2>1, <2>2, <2>3 DEF PaneExited
<1>7. CASE EnsureTimerFires
  <2>1. jobs' \subseteq Job
    BY <1>7, NewJobsType DEF EnsureTimerFires
  <2> QED BY <1>7, <2>1 DEF EnsureTimerFires, env
<1>8. CASE SweepTimerFires
  <2>1. sweep' \in Sweep
    <3> DEFINE n == sweep.queued + 1
    <3>1. n \in Nat
      BY SweepParts
    <3>2. sweep' = [sweep EXCEPT !.timer = FALSE, !.queued = n]
      BY <1>8 DEF SweepTimerFires
    <3> HIDE DEF n
    <3> QED BY <3>1, <3>2, SweepFields
  <2> QED BY <1>8, <2>1 DEF SweepTimerFires, env
<1>9. CASE SweepStarts
  <2>1. sweep' \in Sweep
    <3> DEFINE g == IF orphan \cap alive = {} THEN "enforcing" ELSE "confirming"
               n == sweep.queued - 1
    <3>1. n \in Nat
      BY <1>9, SweepParts DEF SweepStarts
    <3>2. g \in Stage
      BY DEF Stage
    <3>3. sweep' = [sweep EXCEPT !.queued = n, !.suspects = orphan \cap alive, !.stage = g]
      BY <1>9 DEF SweepStarts
    <3> HIDE DEF n, g
    <3> QED BY <3>1, <3>2, <3>3, SweepFields
  <2>2. jobs' \subseteq Job
    BY <1>9, JobFields DEF SweepStarts
  <2> QED BY <1>9, <2>1, <2>2 DEF SweepStarts, env
<1>10. CASE SweepKills
  <2>1. sweep' \in Sweep
    BY <1>10, SweepFields DEF SweepKills, Stage
  <2>2. jobs' \subseteq Job
    BY <1>10, JobFields DEF SweepKills
  <2>3. save' \in Save
    BY <1>10, CancelledType DEF SweepKills
  <2>4. torn' \in BOOLEAN
    BY <1>10 DEF SweepKills
  <2> QED BY <1>10, <2>1, <2>2, <2>3, <2>4 DEF SweepKills
<1>11. CASE SweepEnds
  <2>1. sweep' \in Sweep
    BY <1>11, SweepFields DEF SweepEnds, Stage
  <2> QED BY <1>11, <2>1 DEF SweepEnds, env
<1>12. ASSUME NEW c \in save.ticking, SaveExpires(c)
       PROVE  TypeOK'
  <2>1. save.ticking \ {c} \in SUBSET Callback /\ save.expired \cup {c} \in SUBSET Callback
    BY SaveFields
  <2>2. save' \in Save
    BY <1>12, <2>1, SaveFields DEF SaveExpires, None
  <2> QED BY <1>12, <2>2 DEF SaveExpires, env
<1>13. ASSUME NEW c \in save.expired, SaveRuns(c)
       PROVE  TypeOK'
  <2>1. c \in Callback
    BY SaveFields
  <2>2. c.width \in Widths /\ c.why \in Why /\ c.from \in Pane
    BY <2>1 DEF Callback
  <2>3. save.expired \ {c} \in SUBSET Callback
    BY SaveFields
  <2>4. save' \in Save
    BY <1>13, <2>3, SaveFields DEF SaveRuns, None
  <2>5. jobs' \subseteq Job
    BY <1>13, <2>2, NewJobsType DEF SaveRuns
  <2>6. want' \in Widths /\ saved' \in Saved
    BY <1>13, <2>2 DEF SaveRuns, Saved
  <2> QED BY <1>13, <2>2, <2>4, <2>5, <2>6 DEF SaveRuns, env
<1>14. ASSUME NEW i \in Id, MarkerExpires(i)
       PROVE  TypeOK'
  <2>1. marker.ticking \ {i} \in SUBSET Id /\ marker.expired \cup {i} \in SUBSET Id
    BY MarkerFields
  <2>2. marker' \in Marker
    BY <1>14, <2>1, MarkerFields DEF MarkerExpires, None
  <2> QED BY <1>14, <2>2 DEF MarkerExpires, env
<1>15. ASSUME NEW i \in Id, MarkerRuns(i)
       PROVE  TypeOK'
  <2>1. marker.expired \ {i} \in SUBSET Id
    BY MarkerFields
  <2>2. marker' \in Marker
    BY <1>15, <2>1, MarkerFields DEF MarkerRuns, None
  <2> QED BY <1>15, <2>2 DEF MarkerRuns, env
<1>16. ASSUME NEW j \in jobs, EnforceReads(j)
       PROVE  TypeOK'
  <2> DEFINE todo == {p \in alive \ j.skip : panes[p].width # want}
             read == [j EXCEPT !.stage = "resize", !.want = want, !.todo = todo]
  <2>1. todo \subseteq Pane
    OBVIOUS
  <2>2. jobs' \subseteq Job
    <3>1. jobs' = (jobs \ {j}) \cup IF todo = {} THEN {} ELSE {read}
      BY <1>16 DEF EnforceReads
    <3> HIDE DEF todo
    <3>2. read \in Job
      BY <2>1, JobFieldsRead
    <3> QED BY <3>1, <3>2
  <2> QED BY <1>16, <2>2 DEF EnforceReads, timers, env
<1>17. ASSUME NEW j \in jobs, NEW p \in j.todo, EnforceResizes(j, p)
       PROVE  TypeOK'
  <2>1. j \in Job /\ p \in Pane /\ j.want \in Widths /\ j.todo \ {p} \subseteq Pane
    BY JobParts
  <2>2. [j EXCEPT !.todo = @ \ {p}] \in Job
    BY <2>1, JobFieldsRead
  <2>3. jobs' \subseteq Job
    BY <1>17, <2>2 DEF EnforceResizes
  <2>4. Resized(p, j.want, "enforce") \in Sidebar
    BY <2>1, ResizedType DEF Cause
  <2>5. panes' \in [Pane -> Sidebar]
    BY <1>17, <2>1, <2>4 DEF EnforceResizes
  <2> QED BY <1>17, <2>1, <2>3, <2>5 DEF EnforceResizes, timers, env
<1> QED BY <1>1, <1>2, <1>3, <1>4, <1>5, <1>6, <1>7, <1>8, <1>9, <1>10, <1>11, <1>12, <1>13,
           <1>14, <1>15, <1>16, <1>17 DEF Server

(* The fields of a resized pane.                                           *)
LEMMA ResizedParts ==
  ASSUME panes \in [Pane -> Sidebar], NEW p \in Pane, NEW w, NEW c
  PROVE  /\ Resized(p, w, c).width = w
         /\ Resized(p, w, c).cause = c
         /\ Resized(p, w, c).known = panes[p].known
BY DEF Resized, Sidebar

(* Every change of a width has a cause.                                    *)
LEMMA CausesStep ==
  ASSUME TypeInv, Next
  PROVE  CausesKnown'
<1> USE DEF TypeInv, TypeOK, CausesKnown
<1>1. ASSUME NEW p \in Pane, NEW w \in Size, Drag(p, w)
      PROVE  CausesKnown'
  BY <1>1, ResizedParts DEF Drag
<1>2. ASSUME NEW p \in Pane, NEW w \in Size, SwitchSession(p, w)
      PROVE  CausesKnown'
  BY <1>2, ResizedParts DEF SwitchSession
<1>3. ASSUME NEW p \in Pane, NEW w \in Size, ClosePane(p, w)
      PROVE  CausesKnown'
  BY <1>3, ResizedParts DEF ClosePane
<1>4. ASSUME NEW w \in Size, ResizeTerminal(w)
      PROVE  CausesKnown'
  BY <1>4, ResizedParts DEF ResizeTerminal
<1>5. ASSUME NEW p \in Pane, Notice(p)
      PROVE  CausesKnown'
  BY <1>5 DEF Notice, Sidebar
<1>6. ASSUME NEW j \in jobs, NEW p \in j.todo, EnforceResizes(j, p)
      PROVE  CausesKnown'
  <2>1. p \in Pane
    BY JobParts
  <2> QED BY <1>6, <2>1, ResizedParts DEF EnforceResizes
<1>7. ASSUME NEW r \in mail, ReportWidth(r)
      PROVE  CausesKnown'
  BY <1>7 DEF ReportWidth
<1>8. CASE UNCHANGED <<panes, mail>>
  BY <1>8
<1> QED BY <1>1, <1>2, <1>3, <1>4, <1>5, <1>6, <1>7, <1>8
        DEF Next, User, Server, Learn, EqualizeWidth, FloorWidthToContent, FocusHook, EnsureHook,
            ClientResized, PaneExited, EnsureTimerFires, SweepTimerFires, SweepStarts, SweepKills,
            SweepEnds, SaveExpires, SaveRuns, MarkerExpires, MarkerRuns, EnforceReads

(* The types hold at first.                                                *)
LEMMA TypeInit == Init => TypeInv
<1> SUFFICES ASSUME Init PROVE TypeInv
  OBVIOUS
<1>1. panes \in [Pane -> Sidebar]
  BY WidthsAsked DEF Init, Sidebar, Cause
<1>2. hooks \in [HookKind -> Nat]
  BY DEF Init
<1>3. want \in Widths /\ saved \in Saved
  BY WidthsAsked DEF Init, Saved, Why
<1>4. marker \in Marker /\ save \in Save
  BY DEF Init, Marker, Save
<1>5. sweep \in Sweep
  BY DEF Init, Sweep, Stage
<1>6. TypeOK
  BY <1>1, <1>2, <1>3, <1>4, <1>5 DEF Init, TypeOK
<1>7. CausesKnown
  BY DEF Init, CausesKnown
<1> QED BY <1>6, <1>7 DEF TypeInv

(* Types and causes are invariant.                                         *)
LEMMA TypeInvCorrect == Spec => []TypeInv
<1>1. TypeInv /\ [Next]_vars => TypeInv'
  <2> SUFFICES ASSUME TypeInv, [Next]_vars PROVE TypeInv'
    OBVIOUS
  <2>1. CASE Next
    BY <2>1, TypeStepUser, TypeStepServer, CausesStep DEF Next, TypeInv
  <2>2. CASE UNCHANGED vars
    BY <2>2 DEF vars, timers, TypeInv, TypeOK, CausesKnown
  <2> QED BY <2>1, <2>2
<1> QED BY TypeInit, <1>1, PTL DEF Spec

(* Every reachable state of panes, timers, jobs and widths is well typed.  *)
THEOREM TypeCorrect == Spec => []TypeOK
BY TypeInvCorrect, PTL DEF TypeInv

-----------------------------------------------------------------------------
(* The save timers                                                         *)

(* Cancelling takes the ticking callback that the timer names, and no      *)
(* expired one.                                                            *)
LEMMA CancelledParts ==
  ASSUME NEW t \in Save
  PROVE  /\ Cancelled(t).ticking = {c \in t.ticking : c.id # t.timer}
         /\ Cancelled(t).expired = t.expired
BY DEF Cancelled, Save

(* Adopting another width than the configured one arms one more callback,  *)
(* and names it.                                                           *)
LEMMA AdoptParts ==
  ASSUME TypeInv, NEW r \in mail, Adopt(r), Clamp(r.width, WindowWidth) # want
  PROVE  \E c \in Callback :
            /\ c.why = WhySaved(r)
            /\ save'.timer = c.id
            /\ save'.ticking = Cancelled(save).ticking \cup {c}
            /\ save'.expired = save.expired
<1> DEFINE w == Clamp(r.width, WindowWidth)
           t == Cancelled(save)
           i == CHOOSE j \in Id : j \notin Ids(t)
           c == [id |-> i, width |-> w, from |-> r.from, why |-> WhySaved(r)]
<1>1. t \in Save /\ save \in Save
  BY CancelledType DEF TypeInv, TypeOK
<1>2. Id \ Ids(t) # {}
  BY DEF Adopt
<1>3. save' = [t EXCEPT !.timer = i, !.ticking = t.ticking \cup {c}]
  BY DEF Adopt
<1>4. t.expired = save.expired
  BY <1>1, CancelledParts
<1>5. c \in save'.ticking /\ c.id = i /\ c.why = WhySaved(r)
  <2> HIDE DEF t, i
  <2> QED BY <1>1, <1>3 DEF Save
<1>6. save' \in Save
  BY AdoptType
<1>7. c \in Callback
  BY <1>5, <1>6 DEF Save
<1> HIDE DEF t, c
<1>8. save'.timer = i /\ save'.ticking = t.ticking \cup {c} /\ save'.expired = t.expired
  BY <1>1, <1>3 DEF Save
<1> QED BY <1>4, <1>5, <1>7, <1>8 DEF t

(* The types of what the steps below change.                               *)
LEMMA SaveTypes ==
  ASSUME TypeInv
  PROVE  /\ save \in Save /\ saved \in Saved
         /\ hooks \in [HookKind -> Nat] /\ sweep \in Sweep /\ panes \in [Pane -> Sidebar]
         /\ jobs \subseteq Job /\ mail \subseteq Report /\ alive \subseteq Pane
BY DEF TypeInv, TypeOK

(* A hook that arrives changes no other kind.                              *)
LEMMA ArrivesParts ==
  ASSUME hooks \in [HookKind -> Nat], NEW k \in HookKind, Arrives(k)
  PROVE  /\ hooks[k] > 0
         /\ \A h \in HookKind \ {k} : hooks'[h] = hooks[h]
BY DEF Arrives

-----------------------------------------------------------------------------
(* Hooks, jobs and reports                                                 *)

(* The hooks of a switch.                                                  *)
LEMMA FocusEnsuresStep ==
  ASSUME TypeInv, FocusEnsures, Next
  PROVE  FocusEnsures'
<1> USE SaveTypes DEF FocusEnsures
<1>1. ASSUME NEW p \in Pane, NEW w \in Size, SwitchSession(p, w)
      PROVE  FocusEnsures'
  BY <1>1 DEF SwitchSession, HookKind, timers
<1>2. ASSUME NEW p \in Pane, NEW w \in Size, ClosePane(p, w)
      PROVE  FocusEnsures'
  BY <1>2 DEF ClosePane, HookKind, timers
<1>3. ASSUME NEW w \in Size, ResizeTerminal(w)
      PROVE  FocusEnsures'
  BY <1>3 DEF ResizeTerminal, HookKind, timers
<1>4. CASE FocusHook
  BY <1>4, ArrivesParts DEF FocusHook, HookKind
<1>5. CASE EnsureHook
  BY <1>5 DEF EnsureHook
<1>6. CASE ClientResized
  BY <1>6, ArrivesParts DEF ClientResized, HookKind
<1>7. CASE PaneExited
  BY <1>7, ArrivesParts DEF PaneExited, HookKind
<1>8. CASE EnsureTimerFires
  BY <1>8 DEF EnsureTimerFires, Prompt, HookKind, env
<1>9. CASE UNCHANGED <<hooks, ensuring>>
  BY <1>9
<1> QED BY <1>1, <1>2, <1>3, <1>4, <1>5, <1>6, <1>7, <1>8, <1>9
        DEF Next, User, Server, Drag, Learn, EqualizeWidth, FloorWidthToContent, Notice, ReportWidth,
            SweepTimerFires, SweepStarts, SweepKills, SweepEnds, SaveExpires, SaveRuns,
            MarkerExpires, MarkerRuns, EnforceReads, EnforceResizes, env, timers

(* Jobs start with nothing to resize, and have listed when they have.      *)
LEMMA ListingsStep ==
  ASSUME TypeInv, ListingsFresh, Next
  PROVE  ListingsFresh'
<1> USE SaveTypes DEF ListingsFresh
<1>1. \A P, b : NewJob(P, b).todo = {}
  BY DEF NewJob
<1>2. ASSUME NEW P, Enforce(P) PROVE ListingsFresh'
  BY <1>1, <1>2 DEF Enforce
<1>3. CASE SweepStarts
  BY <1>1, <1>3 DEF SweepStarts
<1>4. CASE SweepKills
  BY <1>1, <1>4 DEF SweepKills
<1>5. ASSUME NEW j \in jobs, EnforceReads(j)
      PROVE  ListingsFresh'
  BY <1>5 DEF EnforceReads, Job
<1>6. ASSUME NEW j \in jobs, NEW p \in j.todo, EnforceResizes(j, p)
      PROVE  ListingsFresh'
  BY <1>6 DEF EnforceResizes, Job
<1>7. CASE UNCHANGED jobs
  BY <1>7
<1>8. ASSUME NEW r \in mail, ReportWidth(r)
      PROVE  ListingsFresh'
  BY <1>2, <1>7, <1>8 DEF ReportWidth, Echo, Adopt
<1>9. CASE PaneExited
  BY <1>2, <1>7, <1>9 DEF PaneExited
<1> QED BY <1>2, <1>3, <1>4, <1>5, <1>6, <1>7, <1>8, <1>9
        DEF Next, User, Server, Drag, SwitchSession, ClosePane, ResizeTerminal, Learn, EqualizeWidth,
            FloorWidthToContent, Notice, FocusHook, EnsureHook, ClientResized, EnsureTimerFires,
            SweepTimerFires, SweepEnds, SaveExpires, SaveRuns, MarkerExpires, MarkerRuns, env, timers

(* A closed pane's width is reported before the sweep's timer fires.       *)
LEMMA ExitsStep ==
  ASSUME TypeInv, ExitsExpected, Next
  PROVE  ExitsExpected'
<1> USE SaveTypes DEF ExitsExpected, SweepDue
<1>1. ASSUME NEW p \in Pane, NEW w \in Size, Drag(p, w)
      PROVE  ExitsExpected'
  BY <1>1, ResizedParts DEF Drag, timers
<1>2. ASSUME NEW p \in Pane, NEW w \in Size, SwitchSession(p, w)
      PROVE  ExitsExpected'
  BY <1>2, ResizedParts DEF SwitchSession, HookKind, timers
<1>3. ASSUME NEW p \in Pane, NEW w \in Size, ClosePane(p, w)
      PROVE  ExitsExpected'
  BY <1>3 DEF ClosePane, HookKind
<1>4. ASSUME NEW w \in Size, ResizeTerminal(w)
      PROVE  ExitsExpected'
  BY <1>4, ResizedParts DEF ResizeTerminal, HookKind, timers
<1>5. ASSUME NEW p \in Pane, Notice(p)
      PROVE  ExitsExpected'
  BY <1>5 DEF Notice, Sidebar, timers
<1>6. ASSUME NEW j \in jobs, NEW p \in j.todo, EnforceResizes(j, p)
      PROVE  ExitsExpected'
  <2>1. p \in Pane
    BY JobParts
  <2> QED BY <1>6, <2>1, ResizedParts DEF EnforceResizes, timers, env
<1>7. ASSUME NEW r \in mail, ReportWidth(r)
      PROVE  ExitsExpected'
  BY <1>7 DEF ReportWidth, env
<1>8. CASE FocusHook
  BY <1>8, ArrivesParts DEF FocusHook, HookKind
<1>9. CASE EnsureHook
  BY <1>9, ArrivesParts DEF EnsureHook, HookKind
<1>10. CASE ClientResized
  BY <1>10, ArrivesParts DEF ClientResized, HookKind
<1>11. CASE PaneExited
  BY <1>11 DEF PaneExited, Sweep
<1>12. CASE SweepTimerFires
  BY <1>12 DEF SweepTimerFires, Prompt, env
<1>13. CASE SweepStarts
  BY <1>13 DEF SweepStarts, Sweep, env
<1>14. CASE SweepKills
  BY <1>14 DEF SweepKills, Sweep
<1>15. CASE SweepEnds
  BY <1>15 DEF SweepEnds, Sweep, env
<1>16. CASE UNCHANGED <<mail, panes, alive, hooks, sweep>>
  BY <1>16
<1> QED BY <1>1, <1>2, <1>3, <1>4, <1>5, <1>6, <1>7, <1>8, <1>9, <1>10, <1>11, <1>12, <1>13, <1>14,
           <1>15, <1>16
        DEF Next, User, Server, Learn, EqualizeWidth, FloorWidthToContent, EnsureTimerFires, SaveExpires,
            SaveRuns, MarkerExpires, MarkerRuns, EnforceReads, env, timers

(* The callbacks of the save timers after each step: none but a report's.  *)
LEMMA SavesStep ==
  ASSUME TypeInv, Next, NEW c \in save'.ticking \cup save'.expired
  PROVE  \/ c \in save.ticking \cup save.expired
         \/ \E r \in mail : ReportWidth(r) /\ Adopt(r) /\ ~SweepUnderWay /\ c.why = WhySaved(r)
<1> USE SaveTypes
<1> SUFFICES ASSUME c \notin save.ticking \cup save.expired
             PROVE  \E r \in mail : ReportWidth(r) /\ Adopt(r) /\ ~SweepUnderWay /\ c.why = WhySaved(r)
  OBVIOUS
<1>1. save' # Cancelled(save) /\ save' # save
  BY CancelledParts
<1>2. ASSUME NEW d \in save.ticking, SaveExpires(d)
      PROVE  FALSE
  BY <1>2 DEF SaveExpires, Save
<1>3. ASSUME NEW d \in save.expired, SaveRuns(d)
      PROVE  FALSE
  BY <1>3 DEF SaveRuns, Save
<1>4. ASSUME NEW r \in mail, ReportWidth(r)
      PROVE  \E s \in mail : ReportWidth(s) /\ Adopt(s) /\ ~SweepUnderWay /\ c.why = WhySaved(s)
  <2>1. Adopt(r) /\ ~SweepUnderWay
    BY <1>1, <1>4 DEF ReportWidth, Echo
  <2>2. Clamp(r.width, WindowWidth) # want
    BY <1>1, <2>1 DEF Adopt
  <2>3. c.why = WhySaved(r)
    BY <2>1, <2>2, AdoptParts, CancelledParts
  <2> QED BY <1>4, <2>1, <2>3
<1>5. ~ EqualizeWidth
  BY <1>1 DEF EqualizeWidth
<1>6. ~ FocusHook /\ ~ EnsureHook /\ ~ ClientResized
  BY <1>1 DEF FocusHook, EnsureHook, ClientResized, SetPendingEnforcement, HookCancels
<1>7. ~ SweepKills
  BY <1>1 DEF SweepKills
<1> QED BY <1>1, <1>2, <1>3, <1>4, <1>5, <1>6, <1>7
        DEF Next, User, Server, Drag, SwitchSession, ClosePane, ResizeTerminal, Learn, FloorWidthToContent,
            Notice, PaneExited, EnsureTimerFires, SweepTimerFires, SweepStarts, SweepEnds, MarkerExpires,
            MarkerRuns, EnforceReads, EnforceResizes, env, timers

(* The width is written for a callback that runs, or by the command.       *)
LEMMA SavedStep ==
  ASSUME TypeInv, Next, saved' # saved
  PROVE  saved'.why = "command" \/ \E c \in save.expired : SaveRuns(c) /\ saved'.why = c.why
<1>1. ASSUME NEW c \in save.expired, SaveRuns(c)
      PROVE  saved'.why = c.why
  BY <1>1 DEF SaveRuns
<1>2. EqualizeWidth => saved'.why = "command"
  BY DEF EqualizeWidth
<1>3. (\E c \in save.expired : SaveRuns(c)) \/ EqualizeWidth \/ UNCHANGED saved
  BY DEF Next, User, Server, Drag, SwitchSession, ClosePane, ResizeTerminal, Learn, FloorWidthToContent,
         Notice, PaneExited, EnsureTimerFires, SweepTimerFires, SweepStarts, SweepEnds, MarkerExpires,
         MarkerRuns, EnforceReads, EnforceResizes, env, timers, ReportWidth, FocusHook, EnsureHook,
         ClientResized, SweepKills, SaveExpires
<1> QED BY <1>1, <1>2, <1>3

(* No save is armed for a closed pane that the server knows of.            *)
LEMMA NoLateExitStep ==
  ASSUME TypeInv, ExitsExpected, NoLateExit, Next
  PROVE  NoLateExit'
<1>1. ASSUME NEW r \in mail, ~SweepUnderWay PROVE WhySaved(r) # "late exit"
  <2>1. r.cause \in {"drag", "reflow", "exit", "enforce"}
    BY SaveTypes DEF TypeInv, CausesKnown, Report, Cause
  <2>2. r.cause = "exit" => hooks["exit"] > 0
    BY <1>1 DEF ExitsExpected, SweepDue, SweepUnderWay
  <2>3. CASE r.cause = "exit"
    BY <2>2, <2>3 DEF WhySaved
  <2>4. CASE r.cause = "reflow"
    BY <2>4 DEF WhySaved
  <2>5. CASE r.cause \in {"drag", "enforce"}
    BY <2>5 DEF WhySaved
  <2> QED BY <2>1, <2>3, <2>4, <2>5
<1>2. \A c \in save'.ticking \cup save'.expired : c.why # "late exit"
  BY <1>1, SavesStep DEF NoLateExit
<1>3. saved'.why # "late exit"
  BY SavedStep DEF NoLateExit, SweptExitsNotSaved
<1> QED BY <1>2, <1>3 DEF NoLateExit, SweptExitsNotSaved

-----------------------------------------------------------------------------
(* Echoes                                                                  *)

(* Cancelling the only save leaves none ticking.                           *)
LEMMA OneSaveCancelled ==
  ASSUME TypeInv, OneSave
  PROVE  Cancelled(save).ticking = {}
BY SaveTypes, CancelledParts DEF OneSave

(* A step that cancels the save, and finds no callback awaiting the lock,  *)
(* leaves none at all.                                                     *)
LEMMA CancelKeepsEarly ==
  ASSUME TypeInv, EarlySafe, save.expired = {}, save' = Cancelled(save),
         saved' = saved \/ saved'.why = "command"
  PROVE  EarlySafe'
<1>1. save'.ticking = {} /\ save'.expired = {}
  BY SaveTypes, OneSaveCancelled, CancelledParts DEF EarlySafe
<1> QED BY <1>1 DEF EarlySafe, OneSave

(* A step that neither saves nor takes a hook.                             *)
LEMMA KeepsEarly ==
  ASSUME EarlySafe, UNCHANGED <<save, saved>>, EchoHook => EchoHook'
  PROVE  EarlySafe'
BY DEF EarlySafe, OneSave

(* No save of an echo outlives the hook of the echo, torn timers aside.    *)
LEMMA EarlyStep ==
  ASSUME TypeInv, EarlyInv, Next
  PROVE  EarlyInv'
<1> SUFFICES ASSUME EarlySafe, ~torn' PROVE EarlySafe'
  <2>1. torn => torn'
    BY DEF Next, User, Server, Drag, SwitchSession, ClosePane, ResizeTerminal, Learn, FloorWidthToContent,
           Notice, PaneExited, EnsureTimerFires, SweepTimerFires, SweepStarts, SweepEnds, MarkerExpires,
           MarkerRuns, EnforceReads, EnforceResizes, env, timers, ReportWidth, Echo, Adopt, FocusHook,
           EnsureHook, ClientResized, SetPendingEnforcement, EqualizeWidth, SweepKills, SaveExpires, SaveRuns
  <2> QED BY <2>1 DEF EarlyInv, EarlySafe
<1> USE SaveTypes
<1>1. ASSUME NEW p \in Pane, NEW w \in Size, SwitchSession(p, w)
      PROVE  EarlySafe'
  <2>1. EchoHook => EchoHook'
    BY <1>1 DEF SwitchSession, HookKind, EchoHook
  <2> QED BY <1>1, <2>1, KeepsEarly DEF SwitchSession, timers
<1>2. ASSUME NEW p \in Pane, NEW w \in Size, ClosePane(p, w)
      PROVE  EarlySafe'
  <2>1. EchoHook => EchoHook'
    BY <1>2 DEF ClosePane, HookKind, EchoHook
  <2> QED BY <1>2, <2>1, KeepsEarly DEF ClosePane, timers
<1>3. ASSUME NEW w \in Size, ResizeTerminal(w)
      PROVE  EarlySafe'
  <2>1. EchoHook => EchoHook'
    BY <1>3 DEF ResizeTerminal, HookKind, EchoHook
  <2> QED BY <1>3, <2>1, KeepsEarly DEF ResizeTerminal, timers
<1>4. CASE PaneExited
  <2>1. EchoHook => EchoHook'
    BY <1>4, ArrivesParts DEF PaneExited, HookKind, EchoHook
  <2> QED BY <1>4, <2>1, KeepsEarly DEF PaneExited
<1>5. CASE EqualizeWidth
  <2>1. save.expired = {} /\ save' = Cancelled(save) /\ saved'.why = "command"
    BY <1>5 DEF EqualizeWidth
  <2> QED BY <2>1, CancelKeepsEarly
<1>6. CASE FocusHook \/ EnsureHook \/ ClientResized
  <2>1. SetPendingEnforcement /\ saved' = saved
    BY <1>6 DEF FocusHook, EnsureHook, ClientResized
  <2>2. save.expired = {} /\ save' = Cancelled(save)
    BY <2>1 DEF SetPendingEnforcement, HookCancels
  <2> QED BY <2>1, <2>2, CancelKeepsEarly
<1>7. CASE SweepKills
  <2>1. saved' = saved /\ hooks' = hooks
    BY <1>7 DEF SweepKills
  <2>2. CASE alive' = alive
    <3>1. save' = save
      BY <1>7, <2>2 DEF SweepKills
    <3> QED BY <2>1, <3>1, KeepsEarly DEF EchoHook
  <2>3. CASE alive' # alive
    <3>1. save.expired = {} /\ save' = Cancelled(save)
      BY <1>7, <2>3 DEF SweepKills
    <3> QED BY <2>1, <3>1, CancelKeepsEarly
  <2> QED BY <2>2, <2>3
<1>8. ASSUME NEW c \in save.ticking, SaveExpires(c)
      PROVE  EarlySafe'
  <2>1. save'.ticking = save.ticking \ {c} /\ save'.expired = save.expired \cup {c}
        /\ save'.timer = save.timer /\ saved' = saved
    BY <1>8 DEF SaveExpires, Save
  <2>2. c.why # "early reflow"
    <3>1. ~EchoHook
      BY <1>8 DEF SaveExpires, Prompt, HookKind, EchoHook
    <3> QED BY <3>1 DEF EarlySafe
  <2>3. save'.ticking = {} /\ save'.expired = {c} /\ c.id = save'.timer
    <3>1. (\A d \in save.ticking : d = c) /\ save.expired = {} /\ c.id = save.timer
      BY DEF EarlySafe, OneSave
    <3> QED BY <2>1, <3>1
  <2> QED BY <2>1, <2>2, <2>3 DEF EarlySafe, OneSave
<1>9. ASSUME NEW c \in save.expired, SaveRuns(c)
      PROVE  EarlySafe'
  <2>1. save'.ticking = save.ticking /\ save'.expired = save.expired \ {c} /\ saved'.why = c.why
    BY <1>9 DEF SaveRuns, Save
  <2>2. save'.ticking = {} /\ save'.expired = {}
    BY <2>1 DEF EarlySafe, OneSave
  <2> QED BY <2>1, <2>2 DEF EarlySafe, OneSave
<1>10. ASSUME NEW r \in mail, ReportWidth(r)
       PROVE  EarlySafe'
  <2>1. hooks' = hooks /\ saved' = saved
    BY <1>10 DEF ReportWidth, env
  <2>2. CASE save' = save
    BY <2>1, <2>2, KeepsEarly DEF EchoHook
  <2>3. CASE save' # save
    <3>1. Adopt(r) /\ Clamp(r.width, WindowWidth) # want
      BY <1>10, <2>3 DEF ReportWidth, Echo, Adopt
    <3>2. save.expired = {}
      BY <3>1 DEF Adopt
    <3>3. PICK c \in Callback : /\ c.why = WhySaved(r)
                                /\ save'.timer = c.id
                                /\ save'.ticking = Cancelled(save).ticking \cup {c}
                                /\ save'.expired = save.expired
      BY <3>1, AdoptParts
    <3>4. save'.ticking = {c} /\ save'.expired = {}
      BY <3>2, <3>3, OneSaveCancelled DEF EarlySafe
    <3>5. c.why = "early reflow" => EchoHook
      <4>1. r.cause \in {"drag", "reflow", "exit", "enforce"}
        BY DEF TypeInv, CausesKnown, Report, Cause
      <4>2. CASE r.cause = "exit"
        BY <3>3, <4>2 DEF WhySaved
      <4>3. CASE r.cause = "reflow"
        BY <3>3, <4>3 DEF WhySaved, EchoHook, HookKind
      <4>4. CASE r.cause \in {"drag", "enforce"}
        BY <3>3, <4>4 DEF WhySaved
      <4> QED BY <4>1, <4>2, <4>3, <4>4
    <3> QED BY <2>1, <3>3, <3>4, <3>5 DEF EarlySafe, OneSave, EchoHook
  <2> QED BY <2>2, <2>3
<1>11. CASE UNCHANGED <<save, saved, hooks>>
  BY <1>11, KeepsEarly DEF EchoHook
<1> QED BY <1>1, <1>2, <1>3, <1>4, <1>5, <1>6, <1>7, <1>8, <1>9, <1>10, <1>11
        DEF Next, User, Server, Drag, Learn, FloorWidthToContent, Notice, EnsureTimerFires, SweepTimerFires,
            SweepStarts, SweepEnds, MarkerExpires, MarkerRuns, EnforceReads, EnforceResizes, env, timers

-----------------------------------------------------------------------------
(* Agreement                                                               *)

(* A new job lists every pane but those it skips,                          *)
LEMMA FreshJob ==
  ASSUME NEW P, NEW b, NEW p, p \notin P
  PROVE  NewJob(P, b).stage = "list" /\ p \notin NewJob(P, b).skip
BY DEF NewJob

(* Something that will put every sidebar right is enough,                  *)
LEMMA AllAgreed ==
  ASSUME AllDue'
  PROVE  AgreeInv'
BY DEF AgreeInv

(* and so is a new job that skips none.                                    *)
LEMMA FreshJobAgrees ==
  ASSUME NEW b, NewJob({}, b) \in jobs'
  PROVE  AgreeInv'
BY FreshJob DEF AgreeInv, JobDue

(* Starting one is enough.                                                 *)
LEMMA EnforceAgrees ==
  ASSUME Enforce({})
  PROVE  AgreeInv'
BY FreshJobAgrees DEF Enforce

(* What is due stays due while nothing of it is touched.                   *)
LEMMA AllDueStays ==
  ASSUME UNCHANGED <<hooks, ensuring, sweep, save>>
  PROVE  AllDue' <=> AllDue
BY DEF AllDue

(* A sidebar that differs has something under way that will put it right,  *)
(* or is known to be odd.                                                  *)
LEMMA AgreeStep ==
  ASSUME TypeInv, FocusEnsures, ListingsFresh, AgreeInv, Next
  PROVE  AgreeInv'
<1> USE SaveTypes
<1>1. ASSUME NEW p \in Pane, NEW w \in Size, Drag(p, w)
      PROVE  AgreeInv'
  <2>1. UNCHANGED <<alive, odd, want, mail, jobs, hooks, ensuring, sweep, save>>
    BY <1>1 DEF Drag, timers
  <2>2. panes'[p].known # panes'[p].width /\ panes'[p].cause = "drag"
    BY <1>1, ResizedParts DEF Drag
  <2>3. \A q \in Pane \ {p} : panes'[q] = panes[q]
    BY <1>1 DEF Drag
  <2> QED BY <2>1, <2>2, <2>3, AllDueStays DEF AgreeInv, JobDue, DragDue
<1>2. ASSUME NEW p \in Pane, NEW w \in Size, SwitchSession(p, w)
      PROVE  AgreeInv'
  <2>1. hooks'["ensure"] > 0
    BY <1>2 DEF SwitchSession, HookKind
  <2> QED BY <2>1, AllAgreed DEF AllDue
<1>3. ASSUME NEW p \in Pane, NEW w \in Size, ClosePane(p, w)
      PROVE  AgreeInv'
  <2>1. hooks'["exit"] > 0
    BY <1>3 DEF ClosePane, HookKind
  <2> QED BY <2>1, AllAgreed DEF AllDue
<1>4. ASSUME NEW w \in Size, ResizeTerminal(w)
      PROVE  AgreeInv'
  <2>1. hooks'["resize"] > 0
    BY <1>4 DEF ResizeTerminal, HookKind
  <2> QED BY <2>1, AllAgreed DEF AllDue
<1>5. ASSUME NEW p \in Pane, Notice(p)
      PROVE  AgreeInv'
  <2>1. /\ UNCHANGED <<alive, want, jobs, hooks, ensuring, sweep, save>>
        /\ panes' = [panes EXCEPT ![p].known = panes[p].width, ![p].cause = "none"]
        /\ odd \subseteq odd' /\ mail \subseteq mail'
    BY <1>5 DEF Notice, timers
  <2>2. \A q \in Pane : panes'[q].width = panes[q].width
    BY <2>1 DEF Sidebar
  <2>3. \A q \in Pane \ {p} : panes'[q] = panes[q]
    BY <2>1
  <2>4. p \notin odd' /\ panes[p].cause = "drag" =>
          [from |-> p, width |-> panes[p].width, cause |-> "drag"] \in mail'
    BY <1>5 DEF Notice
  <2>5. p \notin odd' /\ DragDue(p) => DragDue(p)'
    BY <2>1, <2>2, <2>4 DEF DragDue
  <2>6. ASSUME NEW q \in Pane \ {p}, DragDue(q) PROVE DragDue(q)'
    BY <2>1, <2>3, <2>6 DEF DragDue
  <2> QED BY <2>1, <2>2, <2>5, <2>6, AllDueStays DEF AgreeInv, JobDue
<1>6. CASE EqualizeWidth \/ (\E c \in Content : FloorWidthToContent(c)) \/ EnsureTimerFires \/ ClientResized
  BY <1>6, EnforceAgrees DEF EqualizeWidth, FloorWidthToContent, EnsureTimerFires, ClientResized
<1>7. ASSUME NEW r \in mail, ReportWidth(r)
      PROVE  AgreeInv'
  <2>1. UNCHANGED <<alive, want, panes, hooks, ensuring, sweep>> /\ mail' = mail \ {r}
    BY <1>7 DEF ReportWidth, env
  <2>2. \A q \in Pane : DragDue(q) => DragDue(q)' \/ (q = r.from /\ r.cause = "drag" /\ r.width = panes[q].width)
    BY <2>1 DEF DragDue
  <2>3. CASE /\ UNCHANGED <<save, jobs>>
             /\ odd' = IF r.cause = "drag" THEN odd \cup {r.from} ELSE odd
    BY <2>1, <2>2, <2>3, AllDueStays DEF AgreeInv, JobDue
  <2>4. CASE Echo(r)
    BY <2>4, EnforceAgrees DEF Echo
  <2>5. CASE Adopt(r) /\ Clamp(r.width, WindowWidth) = want
    <3>1. /\ UNCHANGED <<save, jobs>>
          /\ odd' = IF want = r.width THEN odd ELSE odd \cup {r.from}
      BY <2>5 DEF Adopt
    <3> QED BY <2>1, <2>2, <3>1, AllDueStays DEF AgreeInv, JobDue
  <2>6. CASE Adopt(r) /\ Clamp(r.width, WindowWidth) # want
    <3>1. save'.ticking # {}
      BY <2>6, AdoptParts
    <3> QED BY <3>1, AllAgreed DEF AllDue
  <2> QED BY <1>7, <2>3, <2>4, <2>5, <2>6 DEF ReportWidth
<1>8. CASE FocusHook
  <2>1. hooks["focus"] > 0 /\ ensuring' = ensuring /\ hooks'["ensure"] = hooks["ensure"]
    BY <1>8, ArrivesParts DEF FocusHook, HookKind
  <2> QED BY <2>1, AllAgreed DEF FocusEnsures, AllDue
<1>9. CASE EnsureHook
  BY <1>9, AllAgreed DEF EnsureHook, AllDue
<1>10. CASE PaneExited
  <2>1. sweep'.timer
    BY <1>10 DEF PaneExited, Sweep
  <2> QED BY <2>1, AllAgreed DEF AllDue
<1>11. CASE SweepTimerFires
  <2>1. sweep'.queued > 0
    BY <1>11 DEF SweepTimerFires, Sweep
  <2> QED BY <2>1, AllAgreed DEF AllDue
<1>12. CASE SweepStarts
  <2>1. CASE orphan \cap alive = {}
    <3>1. NewJob({}, TRUE) \in jobs'
      BY <1>12, <2>1 DEF SweepStarts
    <3> QED BY <3>1, FreshJobAgrees
  <2>2. CASE orphan \cap alive # {}
    <3>1. sweep'.stage = "confirming"
      BY <1>12, <2>2 DEF SweepStarts, Sweep
    <3> QED BY <3>1, AllAgreed DEF AllDue
  <2> QED BY <2>1, <2>2
<1>13. CASE SweepKills
  <2>1. NewJob({}, TRUE) \in jobs'
    BY <1>13 DEF SweepKills
  <2> QED BY <2>1, FreshJobAgrees
<1>14. CASE SweepEnds
  <2>1. UNCHANGED <<alive, odd, want, panes, mail, jobs, hooks, ensuring, save>>
    BY <1>14 DEF SweepEnds, env
  <2>2. sweep.stage # "confirming" /\ sweep'.timer = sweep.timer /\ sweep'.queued = sweep.queued
    BY <1>14 DEF SweepEnds, Sweep
  <2>3. AllDue => AllDue'
    BY <2>1, <2>2 DEF AllDue
  <2> QED BY <2>1, <2>3 DEF AgreeInv, JobDue, DragDue
<1>15. ASSUME NEW c \in save.ticking, SaveExpires(c)
       PROVE  AgreeInv'
  <2>1. c \in save'.expired
    BY <1>15 DEF SaveExpires, Save
  <2> QED BY <2>1, AllAgreed DEF AllDue
<1>16. ASSUME NEW c \in save.expired, SaveRuns(c)
       PROVE  AgreeInv'
  <2>1. /\ UNCHANGED <<alive, panes>>
        /\ want' = c.width /\ Enforce({c.from})
        /\ odd' = IF panes[c.from].width = c.width THEN odd ELSE odd \cup {c.from}
    BY <1>16 DEF SaveRuns, env
  <2>2. \A q : q # c.from => JobDue(q)'
    <3>1. NewJob({c.from}, FALSE) \in jobs'
      BY <2>1 DEF Enforce
    <3>2. NewJob({c.from}, FALSE).stage = "list" /\ NewJob({c.from}, FALSE).skip = {c.from}
      BY DEF NewJob
    <3> QED BY <3>1, <3>2 DEF JobDue
  <2> QED BY <2>1, <2>2 DEF AgreeInv
<1>17. ASSUME NEW j \in jobs, EnforceReads(j)
       PROVE  AgreeInv'
  <2> DEFINE todo == {p \in alive \ j.skip : panes[p].width # want}
             read == [j EXCEPT !.stage = "resize", !.want = want, !.todo = todo]
  <2>1. UNCHANGED <<alive, odd, want, panes, mail, hooks, ensuring, sweep, save>>
    BY <1>17 DEF EnforceReads, timers, env
  <2>2. j.todo = {} /\ jobs' = (jobs \ {j}) \cup IF todo = {} THEN {} ELSE {read}
    BY <1>17 DEF EnforceReads, ListingsFresh
  <2>3. read.todo = todo
    BY DEF Job
  <2>4. ASSUME NEW q \in alive, JobDue(q), panes[q].width # want
        PROVE  JobDue(q)'
    <3>1. PICK i \in jobs : (i.stage = "list" /\ q \notin i.skip) \/ q \in i.todo
      BY <2>4 DEF JobDue
    <3>2. CASE i = j
      <4>1. q \in todo
        BY <2>2, <2>4, <3>1, <3>2
      <4>2. read \in jobs'
        BY <2>2, <4>1
      <4> QED BY <2>3, <4>1, <4>2 DEF JobDue
    <3>3. CASE i # j
      BY <2>2, <3>1, <3>3 DEF JobDue
    <3> QED BY <3>2, <3>3
  <2> QED BY <2>1, <2>4, AllDueStays DEF AgreeInv, DragDue
<1>18. ASSUME NEW j \in jobs, NEW p \in j.todo, EnforceResizes(j, p)
       PROVE  AgreeInv'
  <2> DEFINE rest == [j EXCEPT !.todo = @ \ {p}]
  <2>1. p \in Pane /\ UNCHANGED <<alive, want, mail, hooks, ensuring, sweep, save>>
    BY <1>18, JobParts DEF EnforceResizes, timers, env
  <2>2. jobs' = (jobs \ {j}) \cup IF j.todo = {p} THEN {} ELSE {rest}
    BY <1>18 DEF EnforceResizes
  <2>3. j.stage # "list" /\ rest.todo = j.todo \ {p}
    BY DEF ListingsFresh, Job
  <2>4. \A q \in Pane \ {p} : panes'[q] = panes[q] /\ (q \in odd' <=> q \in odd)
    BY <1>18, <2>1 DEF EnforceResizes
  <2>5. ASSUME p \in alive PROVE p \in odd' \/ panes'[p].width = want
    <3>1. panes'[p].width = j.want
      BY <1>18, <2>1, <2>5, ResizedParts DEF EnforceResizes
    <3> QED BY <1>18, <3>1 DEF EnforceResizes
  <2>6. ASSUME NEW q \in Pane \ {p}, JobDue(q)
        PROVE  JobDue(q)'
    <3>1. PICK i \in jobs : (i.stage = "list" /\ q \notin i.skip) \/ q \in i.todo
      BY <2>6 DEF JobDue
    <3>2. CASE i = j
      <4>1. q \in rest.todo /\ rest \in jobs'
        BY <2>2, <2>3, <3>1, <3>2
      <4> QED BY <4>1 DEF JobDue
    <3>3. CASE i # j
      BY <2>2, <3>1, <3>3 DEF JobDue
    <3> QED BY <3>2, <3>3
  <2>7. ASSUME NEW q \in Pane \ {p}, DragDue(q)
        PROVE  DragDue(q)'
    BY <2>1, <2>4, <2>7 DEF DragDue
  <2> QED BY <2>1, <2>4, <2>5, <2>6, <2>7, AllDueStays DEF AgreeInv
<1>19. CASE UNCHANGED <<alive, odd, want, panes, mail, jobs, hooks, ensuring, sweep, save>>
  BY <1>19, AllDueStays DEF AgreeInv, JobDue, DragDue
<1> QED BY <1>1, <1>2, <1>3, <1>4, <1>5, <1>6, <1>7, <1>8, <1>9, <1>10, <1>11, <1>12, <1>13, <1>14,
           <1>15, <1>16, <1>17, <1>18, <1>19
        DEF Next, User, Server, Learn, MarkerExpires, MarkerRuns, env, timers

(* The inductive invariant holds in every reachable state.                 *)
LEMMA IInvCorrect == Spec => []IInv
<1>1. Init => IInv
  <2> SUFFICES ASSUME Init PROVE IInv
    OBVIOUS
  <2>1. hooks["focus"] = 0
    BY DEF Init, HookKind
  <2>2. FocusEnsures
    BY <2>1 DEF FocusEnsures
  <2>3. ListingsFresh /\ NoLateExit
    BY DEF Init, ListingsFresh, NoLateExit, SweptExitsNotSaved
  <2>4. ExitsExpected
    BY DEF Init, ExitsExpected
  <2>5. EarlyInv
    BY DEF Init, EarlyInv, EarlySafe, OneSave
  <2>6. AgreeInv
    BY DEF Init, AgreeInv
  <2> QED BY <2>2, <2>3, <2>4, <2>5, <2>6, TypeInit DEF IInv
<1>2. IInv /\ [Next]_vars => IInv'
  <2> SUFFICES ASSUME IInv, [Next]_vars PROVE IInv'
    OBVIOUS
  <2>1. CASE Next
    <3> USE <2>1 DEF IInv
    <3>1. TypeInv'
      BY TypeStepUser, TypeStepServer, CausesStep DEF Next, TypeInv
    <3> QED BY <3>1, FocusEnsuresStep, ListingsStep, ExitsStep, NoLateExitStep, EarlyStep, AgreeStep
  <2>2. CASE UNCHANGED vars
    <3> USE <2>2 DEF vars, timers
    <3>1. TypeInv'
      BY DEF IInv, TypeInv, TypeOK, CausesKnown
    <3>2. FocusEnsures' /\ ListingsFresh' /\ ExitsExpected'
      BY DEF IInv, FocusEnsures, ListingsFresh, ExitsExpected, SweepDue
    <3>3. NoLateExit' /\ EarlyInv'
      BY DEF IInv, NoLateExit, SweptExitsNotSaved, EarlyInv, EarlySafe, OneSave, EchoHook
    <3>4. AgreeInv'
      BY AllDueStays DEF IInv, AgreeInv, JobDue, DragDue
    <3> QED BY <3>1, <3>2, <3>3, <3>4 DEF IInv
  <2> QED BY <2>1, <2>2
<1> QED BY <1>1, <1>2, PTL DEF Spec

(* The width of a reflow reported before its hook is never saved, unless a *)
(* timer had expired before it was stopped (setPendingEnforcement).        *)
THEOREM EarlyEchoesCorrect == Spec => []EarlyEchoesNotSaved
<1>1. IInv => EarlyEchoesNotSaved
  BY DEF IInv, EarlyInv, EarlySafe, EarlyEchoesNotSaved
<1> QED BY <1>1, IInvCorrect, PTL

(* The width a closed pane left is never saved once its hook was handled   *)
(* (reportWidthLocked, handlePaneExited).                                  *)
THEOREM SweptExitsCorrect == Spec => []SweptExitsNotSaved
<1>1. IInv => SweptExitsNotSaved
  BY DEF IInv, NoLateExit
<1> QED BY <1>1, IInvCorrect, PTL

(* When nothing is under way every sidebar has the configured width, but   *)
(* for the known exceptions.                                               *)
THEOREM AgreementCorrect == Spec => []SidebarsAgreeAtRest
<1>1. IInv => SidebarsAgreeAtRest
  <2> SUFFICES ASSUME IInv, Rest, NEW p \in alive \ odd PROVE panes[p].width = want
    BY DEF SidebarsAgreeAtRest
  <2>1. Prompt /\ ~AllDue
    BY DEF Rest, Prompt, AllDue, HookKind
  <2>2. ~JobDue(p) /\ ~DragDue(p)
    BY <2>1 DEF Prompt, JobDue, DragDue
  <2> QED BY <2>1, <2>2 DEF IInv, AgreeInv
<1> QED BY <1>1, IInvCorrect, PTL
=============================================================================
