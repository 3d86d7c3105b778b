------------------------------ MODULE Sidebar ------------------------------
(***************************************************************************)
(* The panes tcm manages in tmux windows: the sidebar and the companion    *)
(* below it (internal/server/sidebar.go, internal/tmux/{sidebar,           *)
(* companion}.go).  Hiding parks them in a stash session, showing restores *)
(* them, a hook of tmux makes sure that the window just selected has a     *)
(* sidebar, and a window left with managed panes alone is swept.           *)
(*                                                                         *)
(* Every request and timer runs on a goroutine of its own (a job).  It     *)
(* lists the panes, then acts on the listing while the user, tmux and the  *)
(* other jobs go on; the server lock protects the flags, never the panes.  *)
(* A step is a listing, or the commands for one pane or one window.        *)
(*                                                                         *)
(* Abstracted: geometry (widths, heights, edges), how many panes of his    *)
(* own a user has in a window, sessions marked @tcm-ignore, and posts of   *)
(* one kind that are on their way together.                                *)
(***************************************************************************)
EXTENDS Naturals, FiniteSets

CONSTANTS
  Window, SessionOf,
  SidebarPane, CompanionPane, ShellPane,   \* pane ids, by what runs in them
  Companions,                              \* a companion command is configured
  Job,                                     \* goroutines
  MaxMoves,                                \* bound: what users, and crashes, do
  Stash, Gone, NoPane, NoWindow

Pane    == SidebarPane \cup CompanionPane \cup ShellPane
Managed == SidebarPane \cup CompanionPane
Place   == Window \cup {Stash, Gone}

ASSUME SidebarAssumption ==
  /\ SidebarPane \cap CompanionPane = {} /\ Managed \cap ShellPane = {}
  /\ Companions \in BOOLEAN /\ MaxMoves \in Nat
  /\ Stash \notin Window /\ Gone \notin Window /\ Stash # Gone
  /\ NoPane \notin Pane /\ NoWindow \notin Window
  /\ DOMAIN SessionOf = Window

Stage == {"idle", "ensuring", "showing", "visiting", "companion", "hiding", "stashing",
           "sweeping", "suspecting", "killing", "booting", "reloading", "quitting", "leaving"}

VARIABLES
  user,      \* windows with a pane of the user's own
  current,   \* the windows last selected in their sessions
  at,        \* managed or stash pane -> where it is
  posts,     \* hooks of tmux on their way: "exited", or a window to ensure
  up,        \* the server is running
  visible,   \* sidebarVisible
  ensure,    \* ensureSidebarWindowID while its timer is set, else NoWindow
  exited,    \* paneExitedTimer is set
  pc,        \* job -> where it is
  want,      \* job -> windows it has still to visit; its suspects
  saw,       \* job -> what it needs of its last listing
  target,    \* job -> the sidebar that may get a companion
  moves      \* how many moves there have been

tmux == <<user, current, at>>
jobs == <<pc, want, saw, target>>
vars == <<tmux, posts, up, visible, ensure, exited, jobs, moves>>

Nothing == [p \in Pane |-> Gone]

Init ==
  /\ user = Window
  /\ current \in SUBSET Window
  /\ \A w \in Window : Cardinality({v \in current : SessionOf[v] = SessionOf[w]}) = 1
  /\ at = Nothing
  /\ posts = {}
  /\ up = FALSE /\ visible = FALSE /\ ensure = NoWindow /\ exited = FALSE
  /\ pc = [j \in Job |-> "idle"]
  /\ want = [j \in Job |-> {}]
  /\ saw = [j \in Job |-> Nothing]
  /\ target = [j \in Job |-> NoPane]
  /\ moves = 0

-----------------------------------------------------------------------------
(* tmux                                                                    *)

In(S, w) == {p \in S : at[p] = w}

(* A window, and the stash session, lives as long as it has a pane.        *)
Open == {w \in Window : w \in user \/ In(Pane, w) # {}}

(* The windows in front of their sessions; tmux falls back to another when *)
(* the selected one has closed.                                            *)
Active == {w \in Open : w \in current \/
                        \A v \in Open : SessionOf[v] = SessionOf[w] => v \notin current}

(* A pane id that nothing refers to (bound: tmux never runs out of them; a *)
(* spawn without one fails, as a split may).                               *)
Unused(S) == {p \in S : at[p] = Gone /\ \A j \in Job : saw[j][p] = Gone /\ target[j] # p}

Fresh(S) == CHOOSE p \in Unused(S) : TRUE

Without(panes, S) == [p \in Pane |-> IF p \in S THEN Gone ELSE panes[p]]

(* after-kill-pane and pane-exited post /pane-exited.                      *)
Killed(S) == IF \E p \in S : at[p] # Gone THEN posts \cup {"exited"} ELSE posts

Kill(S) == at' = Without(at, S) /\ posts' = Killed(S)

(* orphanWindows: the windows whose panes are all managed.                 *)
Orphans == {w \in Window \ user : In(Managed, w) # {}}

Listing(S, ws) == [p \in Pane |-> IF p \in S /\ at[p] \in ws THEN at[p] ELSE Gone]

-----------------------------------------------------------------------------
(* The user                                                                *)

Move == moves < MaxMoves /\ moves' = moves + 1

OpenWindow(w) ==
  /\ Move
  /\ w \notin Open
  /\ user' = user \cup {w}
  /\ current' = {v \in current : SessionOf[v] # SessionOf[w]} \cup {w}
  /\ posts' = posts \cup {w}
  /\ UNCHANGED <<at, up, visible, ensure, exited, jobs>>

(* A pane split off the window's sidebar.                                  *)
OpenPane(w) ==
  /\ Move
  /\ w \in Open \ user
  /\ user' = user \cup {w}
  /\ UNCHANGED <<current, at, posts, up, visible, ensure, exited, jobs>>

(* One of the user's panes closes, the last of them or not.                *)
ClosePane(w) ==
  /\ Move
  /\ w \in user
  /\ user' \in {user, user \ {w}}
  /\ posts' = posts \cup {"exited"}
  /\ UNCHANGED <<current, at, up, visible, ensure, exited, jobs>>

SelectWindow(w) ==
  /\ Move
  /\ w \in Open
  /\ current' = {v \in current : SessionOf[v] # SessionOf[w]} \cup {w}
  /\ posts' = posts \cup {w}
  /\ UNCHANGED <<user, at, up, visible, ensure, exited, jobs>>

(* The program in a managed pane ends, or the user kills the pane.         *)
PaneDies(p) ==
  /\ Move
  /\ at[p] \in Window
  /\ Kill({p})
  /\ UNCHANGED <<user, current, up, visible, ensure, exited, jobs>>

-----------------------------------------------------------------------------
(* Jobs                                                                    *)

(* Which goroutine takes up a job is immaterial.                           *)
Free(j) == (\E i \in Job : pc[i] = "idle") /\ j = CHOOSE i \in Job : pc[i] = "idle"

Idle(j) == up /\ Free(j)

Goes(j, stage) == pc' = [pc EXCEPT ![j] = stage]

Wants(j, ws) == want' = [want EXCEPT ![j] = ws]

Sees(j, listing) == saw' = [saw EXCEPT ![j] = listing]

Ends(j) == Goes(j, "idle") /\ Wants(j, {}) /\ Sees(j, Nothing) /\ target' = [target EXCEPT ![j] = NoPane]

(* Go on to the next window, if any, remembering what was listed there.    *)
Visits(j, ws, listing) ==
  IF ws = {} THEN Ends(j)
  ELSE /\ Goes(j, "visiting") /\ Wants(j, ws)
       /\ Sees(j, [p \in Pane |-> IF listing[p] \in ws THEN listing[p] ELSE Gone])
       /\ target' = [target EXCEPT ![j] = NoPane]

-----------------------------------------------------------------------------
(* spawnInActiveWindows, ensureSidebarInWindow: list, then window by       *)
(* window a sidebar, then its companion                                    *)

Look(j) ==
  /\ \/ pc[j] = "showing" /\ Visits(j, Active, Listing(Managed, Active))
     \/ pc[j] = "ensuring" /\ Visits(j, want[j], Listing(Managed, want[j]))
  /\ UNCHANGED <<tmux, posts, up, visible, ensure, exited, moves>>

Listed(j, S, w) == {p \in S : saw[j][p] = w}

(* A stashed pane of the kind S is moved to a place; without one, or when  *)
(* the kind has none left there, a new pane is started.                    *)
(* Mutant: whatever is in the stash will do.                               *)
StashedAny(panes, S) == {p \in Pane : panes[p] = Stash}

Stashed(panes, S) == {p \in S : panes[p] = Stash}

(* Mutant: with nothing in the stash nothing is started.                   *)
Restored(panes, S) == Stashed(panes, S)

Placed(panes, S) ==
  IF Stashed(panes, S) # {} THEN Stashed(panes, S) ELSE IF Unused(S) # {} THEN {Fresh(S)} ELSE {}

(* SpawnSidebar: it lists again, and needs a pane of the window to split.  *)
OpenIn(panes, w) == w \in user \/ \E p \in Pane : panes[p] = w

(* The next window has a sidebar in the listing: it may lack a companion.  *)
FindSidebar(j, w) ==
  /\ pc[j] = "visiting" /\ w \in want[j]
  /\ Listed(j, SidebarPane, w) # {}
  /\ IF Companions /\ Listed(j, CompanionPane, w) = {}
     THEN /\ \E p \in Listed(j, SidebarPane, w) : target' = [target EXCEPT ![j] = p]
          /\ Goes(j, "companion") /\ Wants(j, want[j] \ {w})
          /\ UNCHANGED saw
     ELSE Visits(j, want[j] \ {w}, saw[j])
  /\ UNCHANGED <<tmux, posts, up, visible, ensure, exited, moves>>

(* It has none: kill stranded companions, then restore or start a sidebar. *)
SpawnSidebar(j, w) ==
  LET stranded == Listed(j, CompanionPane, w)
      left     == Without(at, stranded)
      choices  == IF OpenIn(left, w) THEN Placed(left, SidebarPane) ELSE {}
  IN
  /\ pc[j] = "visiting" /\ w \in want[j]
  /\ Listed(j, SidebarPane, w) = {}
  /\ posts' = Killed(stranded)
  /\ \/ /\ choices = {}
        /\ at' = left
        /\ Visits(j, want[j] \ {w}, saw[j])
     \/ \E p \in choices :
          /\ at' = [left EXCEPT ![p] = w]
          /\ IF Companions
             THEN /\ target' = [target EXCEPT ![j] = p]
                  /\ Goes(j, "companion") /\ Wants(j, want[j] \ {w})
                  /\ UNCHANGED saw
             ELSE Visits(j, want[j] \ {w}, saw[j])
  /\ UNCHANGED <<user, current, up, visible, ensure, exited, moves>>

(* SpawnCompanion: below the sidebar, wherever that is by now.             *)
SpawnCompanion(j) ==
  LET place   == at[target[j]]
      choices == IF place # Gone THEN Placed(at, CompanionPane) ELSE {}
  IN
  /\ pc[j] = "companion"
  /\ \/ choices = {} /\ UNCHANGED at
     \/ \E p \in choices : at' = [at EXCEPT ![p] = place]
  /\ Visits(j, want[j], saw[j])
  /\ UNCHANGED <<user, current, posts, up, visible, ensure, exited, moves>>

-----------------------------------------------------------------------------
(* /ensure-sidebar, debounced: the latest window wins                      *)

HandleEnsureSidebar(w) ==
  /\ up /\ w \in posts \cap Window
  /\ posts' = posts \ {w}
  /\ ensure' = w
  /\ UNCHANGED <<tmux, up, visible, exited, jobs, moves>>

FireEnsure(j) ==
  /\ Idle(j) /\ ensure # NoWindow
  /\ ensure' = NoWindow
  /\ IF visible THEN Goes(j, "ensuring") /\ Wants(j, {ensure}) /\ UNCHANGED <<saw, target>>
                ELSE UNCHANGED jobs
  /\ UNCHANGED <<tmux, posts, up, visible, exited, moves>>

-----------------------------------------------------------------------------
(* /toggle                                                                 *)

HandleToggle(j) ==
  /\ Move
  /\ Idle(j)
  /\ visible' = ~visible
  /\ Goes(j, IF visible THEN "hiding" ELSE "showing")
  /\ UNCHANGED <<tmux, posts, up, ensure, exited, want, saw, target>>

(* The listing that finds the panes to stash also names the shells of the  *)
(* stash session, which every StashPane kills.                             *)
ListToHide(j) ==
  /\ pc[j] = "hiding"
  /\ Goes(j, "stashing")
  /\ Sees(j, [p \in Pane |-> IF (p \in Managed /\ at[p] \in Window) \/ p \in ShellPane
                             THEN at[p] ELSE Gone])
  /\ UNCHANGED <<tmux, posts, up, visible, ensure, exited, want, target, moves>>

ToStash(j) == {p \in Managed : saw[j][p] # Gone}

Exists(panes) == \E p \in Pane : panes[p] = Stash

(* StashPane: ensureStash (a new session starts with a shell),             *)
(* PruneStashOrphans on the listing, then the join, which fails when the   *)
(* session or the pane is gone (and so when no session could be started).  *)
StashPane(j, p) ==
  LET shell   == IF Exists(at) \/ Unused(ShellPane) = {} THEN {} ELSE {Fresh(ShellPane)}
      ensured == [q \in Pane |-> IF q \in shell THEN Stash ELSE at[q]]
      pruned  == Without(ensured, Listed(j, ShellPane, Stash))
  IN
  /\ pc[j] = "stashing" /\ p \in ToStash(j)
  /\ at' = IF at[p] # Gone /\ Exists(pruned) THEN [pruned EXCEPT ![p] = Stash] ELSE pruned
  /\ posts' = Killed(Listed(j, ShellPane, Stash))
  /\ Sees(j, [saw[j] EXCEPT ![p] = Gone])
  /\ UNCHANGED <<user, current, up, visible, ensure, exited, pc, want, target, moves>>

Hidden(j) ==
  /\ pc[j] = "stashing" /\ ToStash(j) = {}
  /\ Ends(j)
  /\ UNCHANGED <<tmux, posts, up, visible, ensure, exited, moves>>

-----------------------------------------------------------------------------
(* /pane-exited, debounced: sweepOrphanedPanes                             *)

HandlePaneExited ==
  /\ up /\ "exited" \in posts
  /\ posts' = posts \ {"exited"}
  /\ exited' = (exited \/ visible)
  /\ UNCHANGED <<tmux, up, visible, ensure, jobs, moves>>

FireSweep(j) ==
  /\ Idle(j) /\ exited
  /\ exited' = FALSE
  /\ Goes(j, "sweeping")
  /\ UNCHANGED <<tmux, posts, up, visible, ensure, want, saw, target, moves>>

(* Mutant: a sweep that finds another one under way gives up.              *)
SuspectUnlessSwept(j) ==
  /\ pc[j] = "sweeping"
  /\ LET suspects == IF \E i \in Job : pc[i] \in {"suspecting", "killing"} THEN {} ELSE Orphans IN
     Wants(j, suspects) /\ Goes(j, IF suspects = {} THEN "idle" ELSE "suspecting")
  /\ UNCHANGED <<tmux, posts, up, visible, ensure, exited, saw, target, moves>>

(* orphanSweepMu is held from the first listing to the last kill.          *)
Suspect(j) ==
  /\ pc[j] = "sweeping"
  /\ \A i \in Job : pc[i] \notin {"suspecting", "killing"}
  /\ Wants(j, Orphans)
  /\ Goes(j, IF Orphans = {} THEN "idle" ELSE "suspecting")
  /\ UNCHANGED <<tmux, posts, up, visible, ensure, exited, saw, target, moves>>

(* Only what is an orphan in both listings is killed.                      *)
Confirm(j) ==
  /\ pc[j] = "suspecting"
  /\ Goes(j, "killing") /\ Wants(j, {})
  /\ Sees(j, Listing(Managed, want[j] \cap Orphans))
  /\ UNCHANGED <<tmux, posts, up, visible, ensure, exited, target, moves>>

KillOrphans(j) ==
  /\ pc[j] = "killing"
  /\ Kill({p \in Pane : saw[j][p] # Gone})
  /\ Ends(j)
  /\ UNCHANGED <<user, current, up, visible, ensure, exited, moves>>

-----------------------------------------------------------------------------
(* The server comes and goes                                               *)

(* A crash, or the exec of /restart.                                       *)
Down ==
  /\ up' = FALSE /\ visible' = FALSE /\ ensure' = NoWindow /\ exited' = FALSE
  /\ pc' = [j \in Job |-> "idle"]
  /\ want' = [j \in Job |-> {}]
  /\ saw' = [j \in Job |-> Nothing]
  /\ target' = [j \in Job |-> NoPane]

Stop == up /\ Move /\ Down /\ UNCHANGED <<tmux, posts>>

(* quitAll: managed panes in windows, then the stash session.              *)
HandleQuit(j) ==
  /\ Move
  /\ Idle(j)
  /\ Goes(j, "quitting")
  /\ UNCHANGED <<tmux, posts, up, visible, ensure, exited, want, saw, target>>

QuitAll(j) ==
  /\ pc[j] = "quitting"
  /\ Kill({p \in Managed : at[p] \in Window} \cup In(Pane, Stash))
  /\ Goes(j, "leaving")
  /\ UNCHANGED <<user, current, up, visible, ensure, exited, want, saw, target, moves>>

Leave(j) ==
  /\ pc[j] = "leaving"
  /\ Down
  /\ UNCHANGED <<tmux, posts, moves>>

(* Nobody hears a hook.                                                    *)
LosePost(h) ==
  /\ ~up /\ h \in posts
  /\ posts' = posts \ {h}
  /\ UNCHANGED <<tmux, up, visible, ensure, exited, jobs, moves>>

Start(j, reload) ==
  /\ ~up /\ Free(j)
  /\ up' = TRUE /\ visible' = TRUE
  /\ Goes(j, IF reload THEN "reloading" ELSE "booting")
  /\ UNCHANGED <<tmux, posts, ensure, exited, want, saw, target, moves>>

(* Adopt the sidebars there are and give them companions, or spawn.        *)
Boot(j) ==
  LET adopted == {w \in Window : In(SidebarPane, w) # {}} IN
  /\ pc[j] = "booting"
  /\ Kill(In(ShellPane, Stash))
  /\ \/ adopted = {} /\ Goes(j, "showing") /\ UNCHANGED <<want, saw, target>>
     \/ adopted # {} /\ ~Companions /\ Ends(j)
     \/ adopted # {} /\ Companions /\ Visits(j, adopted, Listing(Managed, adopted))
  /\ UNCHANGED <<user, current, up, visible, ensure, exited, moves>>

(* killForReload: sidebars and companions in windows, and the stash.       *)
Reload(j) ==
  /\ pc[j] = "reloading"
  /\ IF \E w \in Window : In(SidebarPane, w) # {}
     THEN Kill({p \in Managed : at[p] \in Window} \cup In(Pane, Stash))
     ELSE Kill(In(ShellPane, Stash))
  /\ Goes(j, "showing")
  /\ UNCHANGED <<user, current, up, visible, ensure, exited, want, saw, target, moves>>

-----------------------------------------------------------------------------
User ==
  \/ \E w \in Window : OpenWindow(w) \/ OpenPane(w) \/ ClosePane(w) \/ SelectWindow(w)
  \/ \E p \in Managed : PaneDies(p)
  \/ \E j \in Job : HandleToggle(j) \/ HandleQuit(j)

Server ==
  \/ Stop
  \/ \E h \in posts : LosePost(h)
  \/ \E j \in Job, reload \in BOOLEAN : Start(j, reload)

Hooks == HandlePaneExited \/ \E w \in Window : HandleEnsureSidebar(w)

Step(j) ==
  \/ Look(j) \/ SpawnCompanion(j) \/ \E w \in Window : FindSidebar(j, w) \/ SpawnSidebar(j, w)
  \/ ListToHide(j) \/ Hidden(j) \/ \E p \in Managed : StashPane(j, p)
  \/ Suspect(j) \/ Confirm(j) \/ KillOrphans(j)
  \/ Boot(j) \/ Reload(j) \/ QuitAll(j) \/ Leave(j)

Next ==
  \/ User \/ Server \/ Hooks
  \/ \E j \in Job : FireEnsure(j) \/ FireSweep(j) \/ Step(j)

Spec == Init /\ [][Next]_vars

(* A running server hears the hooks, its timers fire, and a goroutine goes *)
(* on, orphanSweepMu being handed to one that has waited.  Nothing is      *)
(* assumed of the user, nor that a stopped server is started again.        *)
FairSpec ==
  /\ Spec
  /\ WF_vars(HandlePaneExited)
  /\ SF_vars(\E j \in Job : FireSweep(j))
  /\ \A j \in Job : SF_vars(Step(j))

-----------------------------------------------------------------------------
(* Properties                                                              *)

(* Type invariant of the windows, the panes, the jobs and the timers.      *)
TypeOK ==
  /\ user \subseteq Window /\ current \subseteq Window
  /\ at \in [Pane -> Place]
  /\ \A p \in ShellPane : at[p] \in {Stash, Gone}
  /\ posts \subseteq {"exited"} \cup Window
  /\ up \in BOOLEAN /\ visible \in BOOLEAN /\ exited \in BOOLEAN
  /\ ensure \in Window \cup {NoWindow}
  /\ pc \in [Job -> Stage]
  /\ want \in [Job -> SUBSET Window]
  /\ saw \in [Job -> [Pane -> Place]]
  /\ target \in [Job -> SidebarPane \cup {NoPane}]
  /\ moves \in 0 .. MaxMoves

(* A window whose last pane of the user's has closed does not stay behind  *)
(* with managed panes alone: once the hook is on its way it is swept,      *)
(* unless the sidebar is hidden first (handlePaneExited,                   *)
(* sweepOrphanedPanes), however jobs that spawn, hide and sweep overlap.   *)
OrphansSwept ==
  \A w \in Window :
    w \in Orphans /\ visible /\ "exited" \in posts ~> w \notin Orphans \/ ~visible

(* A window about to be visited gets its sidebar, whatever is in the stash *)
(* and whoever takes it from there, unless the sidebar is hidden or the    *)
(* window closed or left first (spawnInActiveWindows,                      *)
(* ensureSidebarInWindow).                                                 *)
VisitDue(w) ==
  \E j \in Job : \/ pc[j] = "ensuring" /\ w \in want[j]
                 \/ pc[j] = "showing" /\ w \in Active

VisitedWindowsHaveSidebars ==
  \A w \in Window :
    VisitDue(w) /\ visible /\ w \in user
      ~> In(SidebarPane, w) # {} \/ ~visible \/ w \notin user \/ w \notin Active

(* "hide stashes every sidebar pane" (handleToggle): when nothing is going *)
(* on and the sidebar is hidden, no window has a managed pane.             *)
HiddenMeansHidden ==
  up /\ ~visible /\ (\A j \in Job : pc[j] = "idle") => \A w \in Window : In(Managed, w) = {}
=============================================================================
