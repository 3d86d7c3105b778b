-------------------------------- MODULE Width -------------------------------
(***************************************************************************)
(* The width of the sidebars (internal/server/sidebar.go,                  *)
(* internal/widthsync): one configured width, imposed on every sidebar     *)
(* pane, which the user changes by dragging one of them.                   *)
(*                                                                         *)
(* The server cannot see a drag.  It sees reports: the sidebar's program   *)
(* says its new width, whatever changed it, and tmux changes widths too,   *)
(* when a session is switched to, a terminal is resized, or a pane closes. *)
(* Those come with a hook of tmux's, in no order with the report.  A hook  *)
(* marks the next report as an echo and stops the save an earlier report   *)
(* armed; a sweep after a closed pane ignores reports; every handler then  *)
(* starts a job that lists the panes, reads the width and resizes panes    *)
(* one by one, while other handlers run.                                   *)
(*                                                                         *)
(* Time is abstracted to one assumption, the one the code's delays make:   *)
(* reports, hooks and jobs take less than 150 ms, so a timer expires only  *)
(* when none is under way (Prompt).  A timer that has expired may still    *)
(* find s.mu taken, and then Stop no longer stops it.                      *)
(*                                                                         *)
(* Sidebars are shown throughout and each is in a session of its own       *)
(* (hiding, stashing and spawning: module Sidebar).  A program has one     *)
(* report on its way at a time.                                            *)
(***************************************************************************)
EXTENDS Integers, Sequences, FiniteSets, FiniteSetsExt

CONSTANTS
  Pane,         \* the sidebar panes
  Size,         \* widths tmux and the user give to panes
  WindowWidth,  \* of every window
  Content,      \* the session lists a build can return
  MaxMoves,     \* bound: drags, reflows, closed panes, commands
  MaxTimers     \* bound: timers of a kind not yet run to their end

ASSUME WidthAssumption ==
  /\ IsFiniteSet(Pane) /\ Pane # {}
  /\ Size \subseteq Nat /\ WindowWidth \in Nat
  /\ MaxMoves \in Nat /\ MaxTimers \in Nat \ {0}

-----------------------------------------------------------------------------
(* Width arithmetic                                                        *)

AbsoluteMin  == 15
DefaultWidth == 37

(* Clamp: the 40% of the window win over the absolute minimum.             *)
Clamp(w, window) ==
  IF window = 0 THEN Max({AbsoluteMin, w})
  ELSE Min({(window * 2) \div 5, Max({AbsoluteMin, w})})

(* agentBadgeWidth: a dot, and the number of agents from two on.           *)
AgentBadge(n) == IF n = 0 THEN 0 ELSE IF n = 1 THEN 2 ELSE IF n < 10 THEN 3 ELSE 4

(* A session is measured by the lengths of its texts.                      *)
Rows(s) ==
  {1 + Min({s.name, 18}) + AgentBadge(s.running) + (IF s.unseen THEN 2 ELSE 0) + 2 + 1}
    \cup (IF s.branch > 0 THEN {1 + 2 + Min({s.branch, 15}) + (IF s.elsewhere THEN 2 ELSE 0) + 1} ELSE {})
    \cup {6 + a.name + (IF a.thread THEN 6 ELSE 0) + (IF a.unseen THEN 2 ELSE 0) : a \in s.agents}

(* ComputeMin: the widest row of any card, and the border of the focused.  *)
ComputeMin(sessions) ==
  Max({AbsoluteMin} \cup {r + 2 : r \in UNION {Rows(s) : s \in sessions}})

(* The widths that tmux, the user or the content ask for, and the server's *)
(* bounds on them.                                                         *)
Asked  == Size \cup {DefaultWidth} \cup {ComputeMin(c) : c \in Content}
Widths == Asked \cup {Clamp(w, WindowWidth) : w \in Asked}

ASSUME ContentAssumption == \A c \in Content : ComputeMin(c) \in Nat

-----------------------------------------------------------------------------
VARIABLES
  panes,      \* of each sidebar: its width, the width its program knows, what changed it
  alive,      \* sidebars that exist
  orphan,     \* sidebars whose window holds no pane of the user
  current,    \* the session the client shows, by its sidebar
  sees,       \* the session the programs take for the current one
  mail,       \* reports on their way
  hooks,      \* hooks on their way, by kind
  want,       \* Builder.SidebarWidth
  saved,      \* the width in config.json and what it was reported for (history)
  marker,     \* pendingEnforcement and its timers
  save,       \* the save timers
  ensuring,   \* ensureSidebarTimer is armed
  sweep,      \* the pane-exit timer, sweeps to run and the running one
  jobs,       \* enforcement under way
  odd,        \* sidebars left at another width, for a known reason (history)
  torn,       \* a timer was stopped after it had expired (history)
  moves       \* (bound)

vars == <<panes, alive, orphan, current, sees, mail, hooks, want, saved, marker, save,
          ensuring, sweep, jobs, odd, torn, moves>>
env     == <<alive, orphan, current, sees, hooks, moves>>
timers  == <<marker, save, ensuring, sweep>>

HookKind == {"focus", "ensure", "resize", "exit"}
Cause    == {"none", "drag", "reflow", "exit", "enforce"}
Id       == 1 .. MaxTimers
None     == 0

Report == [from : Pane, width : Widths, cause : Cause]

(* What a save is armed for: a drag; a report that came before its hook;   *)
(* a second one for a hook; an outdated job.                               *)
Why == {"drag", "early reflow", "early exit", "late exit", "second echo", "enforce", "command"}

Callback == [id : Id, width : Widths, from : Pane, why : Why]
Job      == [stage : {"list", "resize"}, skip : SUBSET Pane, want : Widths,
             todo : SUBSET Pane, swept : BOOLEAN]
Sidebar  == [width : Widths, known : Widths, cause : Cause]
Saved    == [width : Widths, why : Why]
Marker   == [on : BOOLEAN, timer : Id \cup {None}, ticking : SUBSET Id, expired : SUBSET Id]
Save     == [timer : Id \cup {None}, ticking : SUBSET Callback, expired : SUBSET Callback]
Stage    == {"none", "confirming", "enforcing"}
Sweep    == [timer : BOOLEAN, queued : Nat, stage : Stage, suspects : SUBSET Pane]

Init ==
  /\ panes = [p \in Pane |-> [width |-> DefaultWidth, known |-> DefaultWidth, cause |-> "none"]]
  /\ alive = Pane /\ orphan = {}
  /\ current \in Pane /\ sees = current
  /\ mail = {} /\ hooks = [k \in HookKind |-> 0]
  /\ want = DefaultWidth
  /\ saved = [width |-> DefaultWidth, why |-> "command"]
  /\ marker = [on |-> FALSE, timer |-> None, ticking |-> {}, expired |-> {}]
  /\ save = [timer |-> None, ticking |-> {}, expired |-> {}]
  /\ ensuring = FALSE
  /\ sweep = [timer |-> FALSE, queued |-> 0, stage |-> "none", suspects |-> {}]
  /\ jobs = {} /\ odd = {} /\ torn = FALSE /\ moves = 0

NewJob(skip, swept) ==
  [stage |-> "list", skip |-> skip, want |-> DefaultWidth, todo |-> {}, swept |-> swept]

Enforce(skip) == jobs' = jobs \cup {NewJob(skip, FALSE)}

-----------------------------------------------------------------------------
(* The user and tmux                                                       *)

Move == moves < MaxMoves /\ moves' = moves + 1

Resized(p, w, cause) == [panes[p] EXCEPT !.width = w, !.cause = cause]

(* A hand is slower than the program it drags.                             *)
Drag(p, w) ==
  /\ Move
  /\ p \in alive /\ panes[p].width # w /\ panes[p].known = panes[p].width
  /\ panes' = [panes EXCEPT ![p] = Resized(p, w, "drag")]
  /\ UNCHANGED <<alive, orphan, current, sees, mail, hooks, want, saved, timers, jobs, odd, torn>>

(* The window shown is given the client's size; two hooks are sent.        *)
SwitchSession(p, w) ==
  /\ Move
  /\ p \in alive \ {current}
  /\ current' = p
  /\ panes' = [panes EXCEPT ![p] = IF @.width = w THEN @ ELSE Resized(p, w, "reflow")]
  /\ hooks' = [hooks EXCEPT !["focus"] = @ + 1, !["ensure"] = @ + 1]
  /\ UNCHANGED <<alive, orphan, sees, mail, want, saved, timers, jobs, odd, torn>>

(* The terminal changes size, and every window with it.                    *)
ResizeTerminal(w) ==
  /\ Move
  /\ panes' = [p \in Pane |-> IF p \in alive /\ panes[p].width # w
                                THEN Resized(p, w, "reflow") ELSE panes[p]]
  /\ hooks' = [hooks EXCEPT !["resize"] = @ + 1]
  /\ UNCHANGED <<alive, orphan, current, sees, mail, want, saved, timers, jobs, odd, torn>>

(* A pane beside the sidebar closes; the sidebar may take its space.       *)
ClosePane(p, w) ==
  /\ Move
  /\ p \in alive \ orphan
  /\ panes' = [panes EXCEPT ![p] = IF @.width = w THEN @ ELSE Resized(p, w, "exit")]
  /\ orphan' \in {orphan, orphan \cup {p}}
  /\ hooks' = [hooks EXCEPT !["exit"] = @ + 1]
  /\ UNCHANGED <<alive, current, sees, mail, want, saved, timers, jobs, odd, torn>>

(* The state message names another current session.                        *)
Learn ==
  /\ sees # current
  /\ sees' = current
  /\ UNCHANGED <<panes, alive, orphan, current, mail, hooks, want, saved, timers, jobs, odd, torn, moves>>

(* The program notices its width, and reports it when its session is the   *)
(* current one as far as it knows.                                         *)
Notice(p) ==
  /\ p \in alive
  /\ panes[p].known # panes[p].width
  /\ \A r \in mail : r.from # p
  /\ panes' = [panes EXCEPT ![p].known = panes[p].width, ![p].cause = "none"]
  /\ IF p = sees
       THEN /\ mail' = mail \cup {[from |-> p, width |-> panes[p].width, cause |-> panes[p].cause]}
            /\ UNCHANGED odd
       ELSE /\ odd' = IF panes[p].cause = "drag" THEN odd \cup {p} ELSE odd
            /\ UNCHANGED mail
  /\ UNCHANGED <<alive, orphan, current, sees, hooks, want, saved, timers, jobs, torn, moves>>

-----------------------------------------------------------------------------
(* Timers                                                                  *)

(* Nothing that takes less than the code's shortest delay is under way.    *)
Prompt ==
  /\ mail = {} /\ jobs = {}
  /\ \A k \in HookKind : hooks[k] = 0
  /\ \A p \in alive : panes[p].known = panes[p].width

Ids(t) == {c.id : c \in t.ticking \cup t.expired}

(* cancelPendingSaveLocked, on the timers t: Stop does nothing to a timer  *)
(* that has expired.                                                       *)
Cancelled(t) ==
  [t EXCEPT !.ticking = {c \in @ : c.id # t.timer}, !.timer = None]

(* Mutant: the save is left to run.                                        *)
Kept(t) == t

(* The save timers after a hook's setPendingEnforcement.                   *)
HookCancels(t) == Cancelled(t)

(* setPendingEnforcement's marker: set, and its timer restarted.           *)
Marked(t) ==
  LET free == CHOOSE i \in Id : i \notin t.ticking \cup t.expired
  IN [on |-> TRUE, timer |-> free, ticking |-> (t.ticking \ {t.timer}) \cup {free},
      expired |-> t.expired]

SetPendingEnforcement ==
  /\ Id \ ((marker.ticking \ {marker.timer}) \cup marker.expired) # {}
  /\ Id \ (marker.ticking \cup marker.expired) # {}
  /\ save' = HookCancels(save)
  /\ marker' = Marked(marker)
  /\ torn' = (torn \/ save.expired # {} \/ marker.expired # {})

SaveExpires(c) ==
  /\ Prompt
  /\ c \in save.ticking
  /\ save' = [save EXCEPT !.ticking = @ \ {c}, !.expired = @ \cup {c}]
  /\ UNCHANGED <<panes, env, mail, want, saved, marker, ensuring, sweep, jobs, odd, torn>>

(* The save timer's callback has the lock: the width is adopted, written   *)
(* and imposed, but on the session whose program reported it.              *)
SaveRuns(c) ==
  /\ c \in save.expired
  /\ save' = [save EXCEPT !.expired = @ \ {c}, !.timer = None]
  /\ want' = c.width
  /\ saved' = [width |-> c.width, why |-> c.why]
  /\ Enforce({c.from})
  /\ odd' = IF panes[c.from].width = c.width THEN odd ELSE odd \cup {c.from}
  /\ UNCHANGED <<panes, env, mail, marker, ensuring, sweep, torn>>

MarkerExpires(i) ==
  /\ Prompt
  /\ i \in marker.ticking
  /\ marker' = [marker EXCEPT !.ticking = @ \ {i}, !.expired = @ \cup {i}]
  /\ UNCHANGED <<panes, env, mail, want, saved, save, ensuring, sweep, jobs, odd, torn>>

MarkerRuns(i) ==
  /\ i \in marker.expired
  /\ marker' = [marker EXCEPT !.expired = @ \ {i}, !.on = FALSE, !.timer = None]
  /\ UNCHANGED <<panes, env, mail, want, saved, save, ensuring, sweep, jobs, odd, torn>>

-----------------------------------------------------------------------------
(* Reports and commands                                                    *)

WhySaved(r) ==
  CASE r.cause = "exit"   -> IF hooks["exit"] > 0 THEN "early exit" ELSE "late exit"
    [] r.cause = "reflow" -> IF \E k \in HookKind \ {"exit"} : hooks[k] > 0
                               THEN "early reflow" ELSE "second echo"
    [] OTHER -> r.cause

(* Mutant: reports are ignored from the start of the sweep only.           *)
SweepRunning == sweep.stage # "none"

(* reportWidthLocked's guard: a pane-exit sweep is awaited or running.     *)
SweepUnderWay == sweep.timer \/ sweep.stage # "none"

(* Mutant: the echo is dropped, and the pane left as it is.                *)
EchoDropped(r) ==
  /\ marker' = [marker EXCEPT !.on = FALSE]
  /\ UNCHANGED <<save, jobs, odd, torn>>

Echo(r) ==
  /\ marker' = [marker EXCEPT !.on = FALSE]
  /\ Enforce({})
  /\ UNCHANGED <<save, odd, torn>>

(* A report taken for a drag: the save is armed anew.  When the width is   *)
(* clamped to the configured one, nothing puts the pane right.             *)
Adopt(r) ==
  LET w == Clamp(r.width, WindowWidth)
      t == Cancelled(save)
  IN /\ odd' = IF w = r.width THEN odd ELSE odd \cup {r.from}
     /\ UNCHANGED <<marker, jobs>>
     /\ IF w = want
          THEN UNCHANGED <<save, torn>>
          ELSE /\ Id \ Ids(t) # {}
               /\ LET i == CHOOSE j \in Id : j \notin Ids(t)
                  IN save' = [t EXCEPT !.timer = i, !.ticking = @ \cup
                                {[id |-> i, width |-> w, from |-> r.from, why |-> WhySaved(r)]}]
               /\ torn' = (torn \/ save.expired # {})

ReportWidth(r) ==
  /\ r \in mail
  /\ mail' = mail \ {r}
  /\ \/ /\ SweepUnderWay
        /\ odd' = IF r.cause = "drag" THEN odd \cup {r.from} ELSE odd
        /\ UNCHANGED <<marker, save, jobs, torn>>
     \/ ~SweepUnderWay /\ marker.on /\ Echo(r)
     \/ ~SweepUnderWay /\ ~marker.on /\ Adopt(r)
  /\ UNCHANGED <<panes, env, want, saved, ensuring, sweep>>

EqualizeWidth ==
  /\ Move
  /\ save' = Cancelled(save)
  /\ torn' = (torn \/ save.expired # {})
  /\ want' = DefaultWidth
  /\ saved' = [width |-> DefaultWidth, why |-> "command"]
  /\ Enforce({})
  /\ UNCHANGED <<panes, alive, orphan, current, sees, mail, hooks, marker, ensuring, sweep, odd>>

(* floorWidthToContent: the width grows with the content, on no file.      *)
FloorWidthToContent(c) ==
  /\ Move
  /\ want < ComputeMin(c)
  /\ want' = ComputeMin(c)
  /\ Enforce({})
  /\ UNCHANGED <<panes, alive, orphan, current, sees, mail, hooks, saved, timers, odd, torn>>

-----------------------------------------------------------------------------
(* Hooks                                                                   *)

(* Mutant: a hook is handled that was not sent.                            *)
ArrivesTwice(k) == hooks' = [hooks EXCEPT ![k] = @ - 1]

Arrives(k) == hooks[k] > 0 /\ hooks' = [hooks EXCEPT ![k] = @ - 1]

FocusHook ==
  /\ Arrives("focus")
  /\ SetPendingEnforcement
  /\ UNCHANGED <<panes, alive, orphan, current, sees, mail, want, saved, ensuring, sweep, jobs, odd, moves>>

EnsureHook ==
  /\ Arrives("ensure")
  /\ SetPendingEnforcement
  /\ ensuring' = TRUE
  /\ UNCHANGED <<panes, alive, orphan, current, sees, mail, want, saved, sweep, jobs, odd, moves>>

EnsureTimerFires ==
  /\ Prompt
  /\ ensuring
  /\ ensuring' = FALSE
  /\ Enforce({})
  /\ UNCHANGED <<panes, env, mail, want, saved, marker, save, sweep, odd, torn>>

ClientResized ==
  /\ Arrives("resize")
  /\ SetPendingEnforcement
  /\ Enforce({})
  /\ UNCHANGED <<panes, alive, orphan, current, sees, mail, want, saved, ensuring, sweep, odd, moves>>

(* The first of several hooks arms the sweep and snaps the panes back.     *)
PaneExited ==
  /\ Arrives("exit")
  /\ IF sweep.timer
       THEN UNCHANGED <<sweep, jobs>>
       ELSE sweep' = [sweep EXCEPT !.timer = TRUE] /\ Enforce({})
  /\ UNCHANGED <<panes, alive, orphan, current, sees, mail, want, saved, marker, save, ensuring, odd, torn, moves>>

SweepTimerFires ==
  /\ Prompt
  /\ sweep.timer
  /\ sweep' = [sweep EXCEPT !.timer = FALSE, !.queued = @ + 1]
  /\ UNCHANGED <<panes, env, mail, want, saved, marker, save, ensuring, jobs, odd, torn>>

(* sweepOrphanedPanes: one at a time; suspects wait for a second look.     *)
SweepStarts ==
  /\ sweep.queued > 0 /\ sweep.stage = "none"
  /\ sweep' = [sweep EXCEPT !.queued = @ - 1, !.suspects = orphan \cap alive,
                            !.stage = IF orphan \cap alive = {} THEN "enforcing" ELSE "confirming"]
  /\ jobs' = IF orphan \cap alive = {} THEN jobs \cup {NewJob({}, TRUE)} ELSE jobs
  /\ UNCHANGED <<panes, env, mail, want, saved, marker, save, ensuring, odd, torn>>

(* The suspects still orphaned are killed, and the save is discarded.      *)
SweepKills ==
  /\ Prompt
  /\ sweep.stage = "confirming"
  /\ alive' = alive \ (sweep.suspects \cap orphan)
  /\ save' = IF alive' = alive THEN save ELSE Cancelled(save)
  /\ torn' = (torn \/ (alive' # alive /\ save.expired # {}))
  /\ sweep' = [sweep EXCEPT !.stage = "enforcing", !.suspects = {}]
  /\ jobs' = jobs \cup {NewJob({}, TRUE)}
  /\ UNCHANGED <<panes, orphan, current, sees, hooks, moves, mail, want, saved, marker, ensuring, odd>>

SweepEnds ==
  /\ sweep.stage = "enforcing"
  /\ \A j \in jobs : ~j.swept
  /\ sweep' = [sweep EXCEPT !.stage = "none"]
  /\ UNCHANGED <<panes, env, mail, want, saved, marker, save, ensuring, jobs, odd, torn>>

-----------------------------------------------------------------------------
(* Enforcement                                                             *)

(* enforceSidebarWidthIn: the listing, then the width, read under s.mu.    *)
EnforceReads(j) ==
  /\ j \in jobs /\ j.stage = "list"
  /\ LET todo == {p \in alive \ j.skip : panes[p].width # want}
         read == [j EXCEPT !.stage = "resize", !.want = want, !.todo = todo]
     IN jobs' = (jobs \ {j}) \cup IF todo = {} THEN {} ELSE {read}
  /\ UNCHANGED <<panes, env, mail, want, saved, timers, odd, torn>>

(* One resize-pane; the job ends with its last.                            *)
EnforceResizes(j, p) ==
  /\ j \in jobs /\ p \in j.todo
  /\ jobs' = (jobs \ {j}) \cup IF j.todo = {p} THEN {} ELSE {[j EXCEPT !.todo = @ \ {p}]}
  /\ panes' = IF p \in alive /\ panes[p].width # j.want
                THEN [panes EXCEPT ![p] = Resized(p, j.want, "enforce")] ELSE panes
  /\ odd' = IF j.want = want THEN odd \ {p} ELSE odd \cup {p}
  /\ UNCHANGED <<env, mail, want, saved, timers, torn>>

-----------------------------------------------------------------------------
User == \/ \E p \in Pane, w \in Size : Drag(p, w) \/ SwitchSession(p, w) \/ ClosePane(p, w)
        \/ \E w \in Size : ResizeTerminal(w)
        \/ Learn
        \/ EqualizeWidth
        \/ \E c \in Content : FloorWidthToContent(c)

Server == \/ \E p \in Pane : Notice(p)
          \/ \E r \in mail : ReportWidth(r)
          \/ FocusHook \/ EnsureHook \/ ClientResized \/ PaneExited
          \/ EnsureTimerFires \/ SweepTimerFires
          \/ SweepStarts \/ SweepKills \/ SweepEnds
          \/ \E c \in save.ticking : SaveExpires(c)
          \/ \E c \in save.expired : SaveRuns(c)
          \/ \E i \in Id : MarkerExpires(i) \/ MarkerRuns(i)
          \/ \E j \in jobs : EnforceReads(j) \/ \E p \in j.todo : EnforceResizes(j, p)

Next == User \/ Server

Spec == Init /\ [][Next]_vars

-----------------------------------------------------------------------------
(* Type invariant of the panes, the timers, the jobs and the width.        *)
TypeOK ==
  /\ panes \in [Pane -> Sidebar]
  /\ alive \subseteq Pane /\ orphan \subseteq Pane /\ {current, sees} \subseteq Pane
  /\ mail \subseteq Report
  /\ hooks \in [HookKind -> Nat]
  /\ want \in Widths /\ saved \in Saved
  /\ marker \in Marker /\ save \in Save /\ ensuring \in BOOLEAN /\ sweep \in Sweep
  /\ jobs \subseteq Job
  /\ odd \subseteq Pane /\ torn \in BOOLEAN /\ moves \in Nat

(* The width a reflow of tmux's gave a sidebar, reported before the hook   *)
(* that announces the reflow, is never written to the configuration: the   *)
(* hook stops the save in time, unless it finds a timer that has expired   *)
(* and waits for the lock (setPendingEnforcement, reportWidthLocked).      *)
EarlyEchoesNotSaved == torn \/ saved.why # "early reflow"

(* The width a sidebar takes from a closed pane is never written once the  *)
(* server knows of the closed pane: the sweep the hook arms ignores        *)
(* reports from the hook to its end.  (Before the hook it is: the reason   *)
(* sidebar.go gives for discarding saves covers a sweep that kills.)       *)
SweptExitsNotSaved == saved.why # "late exit"

Rest == /\ Prompt
        /\ save.ticking \cup save.expired = {}
        /\ ~ensuring /\ ~sweep.timer /\ sweep.queued = 0 /\ sweep.stage = "none"

(* When all is done, every sidebar has the configured width, but for a     *)
(* drag its program did not report or a sweep ignored, a drag clamped on   *)
(* its reporter, a resize by a job that had read an older width, and a     *)
(* reporter that was snapped back before its drag was adopted.             *)
SidebarsAgreeAtRest == Rest => \A p \in alive \ odd : panes[p].width = want
=============================================================================
