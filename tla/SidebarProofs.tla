--------------------------- MODULE SidebarProofs ---------------------------
(***************************************************************************)
(* Type correctness of Sidebar.  The invariant says where a pane can be:   *)
(* a shell never leaves the stash session for a window, whatever is joined *)
(* from there, because what is taken from the stash is of the kind that    *)
(* was wanted.  It is inductive together with one fact: a job about to     *)
(* start a companion knows the sidebar to put it under.                    *)
(***************************************************************************)
EXTENDS Sidebar, TLAPS

PanesOK ==
  /\ user \subseteq Window /\ current \subseteq Window
  /\ at \in [Pane -> Place]
  /\ \A p \in ShellPane : at[p] \in {Stash, Gone}
  /\ posts \subseteq {"exited"} \cup Window

FlagsOK ==
  /\ up \in BOOLEAN /\ visible \in BOOLEAN /\ exited \in BOOLEAN
  /\ ensure \in Window \cup {NoWindow}
  /\ moves \in 0 .. MaxMoves

CompanionsHaveTheirSidebar == \A j \in Job : pc[j] = "companion" => target[j] \in SidebarPane

JobsOK ==
  /\ pc \in [Job -> Stage]
  /\ want \in [Job -> SUBSET Window]
  /\ saw \in [Job -> [Pane -> Place]]
  /\ target \in [Job -> SidebarPane \cup {NoPane}]
  /\ CompanionsHaveTheirSidebar

(* The inductive invariant.                                                *)
IInv == PanesOK /\ FlagsOK /\ JobsOK

LEMMA InvariantGivesTypes == IInv => TypeOK
BY DEF IInv, PanesOK, FlagsOK, JobsOK, TypeOK

-----------------------------------------------------------------------------
(* The panes                                                               *)

LEMMA KindsOfPanes ==
  /\ SidebarPane \subseteq Pane /\ CompanionPane \subseteq Pane /\ ShellPane \subseteq Pane
  /\ Managed \subseteq Pane
  /\ \A p \in Managed : p \notin ShellPane
  /\ SidebarPane \subseteq Managed /\ CompanionPane \subseteq Managed
BY SidebarAssumption DEF Pane, Managed

(* What a kind has in the stash, or what is started, is of that kind.      *)
LEMMA PlacedAreOfTheKind ==
  ASSUME NEW panes, NEW S
  PROVE  Placed(panes, S) \subseteq S
<1>1. Unused(S) # {} => Fresh(S) \in Unused(S)
  BY DEF Fresh
<1>2. Unused(S) \subseteq S /\ Stashed(panes, S) \subseteq S
  BY DEF Unused, Stashed
<1> QED
  BY <1>1, <1>2 DEF Placed

LEMMA NothingIsAListing == Nothing \in [Pane -> Place]
BY DEF Nothing, Place

LEMMA ListingTyped ==
  ASSUME PanesOK, NEW S, NEW ws
  PROVE  Listing(S, ws) \in [Pane -> Place]
BY DEF PanesOK, Listing, Place

LEMMA WindowsTyped == Open \subseteq Window /\ Active \subseteq Window /\ Orphans \subseteq Window
BY DEF Open, Active, Orphans

LEMMA WithoutTyped ==
  ASSUME NEW panes \in [Pane -> Place], \A p \in ShellPane : panes[p] \in {Stash, Gone}, NEW S
  PROVE  /\ Without(panes, S) \in [Pane -> Place]
         /\ \A p \in ShellPane : Without(panes, S)[p] \in {Stash, Gone}
BY KindsOfPanes DEF Without, Place

LEMMA KilledTyped ==
  ASSUME PanesOK, NEW S
  PROVE  Killed(S) \subseteq {"exited"} \cup Window
BY DEF PanesOK, Killed

(* Killing panes leaves the others where they are.                         *)
LEMMA KillKeepsPanes ==
  ASSUME PanesOK, NEW S, Kill(S), UNCHANGED <<user, current>>
  PROVE  PanesOK'
<1>1. at' = Without(at, S) /\ posts' = Killed(S) /\ user' = user /\ current' = current
  BY DEF Kill
<1>2. at' \in [Pane -> Place] /\ \A p \in ShellPane : at'[p] \in {Stash, Gone}
  BY <1>1, WithoutTyped DEF PanesOK
<1>3. posts' \subseteq {"exited"} \cup Window
  BY <1>1, KilledTyped
<1> QED
  BY <1>1, <1>2, <1>3 DEF PanesOK

(* A pane that is not a shell may be put anywhere.                         *)
LEMMA PlacingTyped ==
  ASSUME NEW panes \in [Pane -> Place], \A p \in ShellPane : panes[p] \in {Stash, Gone},
         NEW p \in Managed, NEW place \in Place
  PROVE  /\ [panes EXCEPT ![p] = place] \in [Pane -> Place]
         /\ \A q \in ShellPane : [panes EXCEPT ![p] = place][q] \in {Stash, Gone}
BY KindsOfPanes

-----------------------------------------------------------------------------
(* The jobs                                                                *)

LEMMA StagesAre ==
  {"idle", "ensuring", "showing", "visiting", "companion", "hiding", "stashing", "sweeping",
   "suspecting", "killing", "booting", "reloading", "quitting", "leaving"} \subseteq Stage
BY DEF Stage

LEMMA GoingKeepsJobs ==
  ASSUME JobsOK, NEW j \in Job, NEW stage \in Stage \ {"companion"}, Goes(j, stage),
         UNCHANGED target,
         want' \in [Job -> SUBSET Window], saw' \in [Job -> [Pane -> Place]]
  PROVE  JobsOK'
BY DEF JobsOK, Goes, CompanionsHaveTheirSidebar

LEMMA WantingTyped ==
  ASSUME JobsOK, NEW j \in Job, NEW ws \in SUBSET Window, Wants(j, ws)
  PROVE  want' \in [Job -> SUBSET Window]
BY DEF JobsOK, Wants

LEMMA SeeingTyped ==
  ASSUME JobsOK, NEW j \in Job, NEW listing \in [Pane -> Place], Sees(j, listing)
  PROVE  saw' \in [Job -> [Pane -> Place]]
BY DEF JobsOK, Sees

LEMMA EndingKeepsJobs ==
  ASSUME JobsOK, NEW j \in Job, Ends(j)
  PROVE  JobsOK'
<1>1. want' \in [Job -> SUBSET Window]
  BY WantingTyped DEF Ends
<1>2. saw' \in [Job -> [Pane -> Place]]
  BY SeeingTyped, NothingIsAListing DEF Ends
<1>3. /\ pc' = [pc EXCEPT ![j] = "idle"]
      /\ target' = [target EXCEPT ![j] = NoPane]
  BY DEF Ends, Goes
<1>4. pc' \in [Job -> Stage] /\ target' \in [Job -> SidebarPane \cup {NoPane}]
  BY <1>3, StagesAre DEF JobsOK
<1>5. \A i \in Job : pc'[i] = "companion" => target'[i] \in SidebarPane
  BY <1>3 DEF JobsOK, CompanionsHaveTheirSidebar
<1> QED
  BY <1>1, <1>2, <1>4, <1>5 DEF JobsOK, CompanionsHaveTheirSidebar

LEMMA VisitingKeepsJobs ==
  ASSUME JobsOK, NEW j \in Job, NEW ws \in SUBSET Window, NEW listing \in [Pane -> Place],
         Visits(j, ws, listing)
  PROVE  JobsOK'
<1>1. CASE ws = {}
  BY <1>1, EndingKeepsJobs DEF Visits
<1>2. CASE ws # {}
  <2> DEFINE seen == [p \in Pane |-> IF listing[p] \in ws THEN listing[p] ELSE Gone]
  <2>1. seen \in [Pane -> Place]
    BY DEF Place
  <2>2. Goes(j, "visiting") /\ Wants(j, ws) /\ Sees(j, seen) /\ target' = [target EXCEPT ![j] = NoPane]
    BY <1>2 DEF Visits
  <2> HIDE DEF seen
  <2>3. want' \in [Job -> SUBSET Window] /\ saw' \in [Job -> [Pane -> Place]]
    BY <2>1, <2>2, WantingTyped, SeeingTyped
  <2>4. pc' = [pc EXCEPT ![j] = "visiting"]
    BY <2>2 DEF Goes
  <2>5. pc' \in [Job -> Stage] /\ target' \in [Job -> SidebarPane \cup {NoPane}]
    BY <2>2, <2>4, StagesAre DEF JobsOK
  <2>6. \A i \in Job : pc'[i] = "companion" => target'[i] \in SidebarPane
    BY <2>2, <2>4 DEF JobsOK, CompanionsHaveTheirSidebar
  <2> QED
    BY <2>3, <2>5, <2>6 DEF JobsOK, CompanionsHaveTheirSidebar
<1> QED
  BY <1>1, <1>2

(* A job that has found, or spawned, the sidebar of a window and goes on   *)
(* to the companion.                                                       *)
LEMMA TargetingKeepsJobs ==
  ASSUME JobsOK, NEW j \in Job, NEW p \in SidebarPane, NEW ws \in SUBSET Window,
         Goes(j, "companion"), target' = [target EXCEPT ![j] = p], Wants(j, ws), UNCHANGED saw
  PROVE  JobsOK'
<1>1. want' \in [Job -> SUBSET Window]
  BY WantingTyped
<1>2. pc' = [pc EXCEPT ![j] = "companion"]
  BY DEF Goes
<1>3. pc' \in [Job -> Stage] /\ target' \in [Job -> SidebarPane \cup {NoPane}]
  BY <1>2, StagesAre DEF JobsOK
<1>4. \A i \in Job : pc'[i] = "companion" => target'[i] \in SidebarPane
  BY <1>2 DEF JobsOK, CompanionsHaveTheirSidebar
<1> QED
  BY <1>1, <1>3, <1>4 DEF JobsOK, CompanionsHaveTheirSidebar

LEMMA MovingTyped == FlagsOK /\ Move => moves' \in 0 .. MaxMoves
BY SidebarAssumption DEF FlagsOK, Move

LEMMA DownKeepsFlagsAndJobs ==
  ASSUME JobsOK, FlagsOK, Down, moves' \in 0 .. MaxMoves
  PROVE  JobsOK' /\ FlagsOK'
<1>1. FlagsOK'
  BY DEF FlagsOK, Down
<1>2. want' \in [Job -> SUBSET Window] /\ target' \in [Job -> SidebarPane \cup {NoPane}]
  BY DEF Down
<1>3. saw' \in [Job -> [Pane -> Place]]
  BY NothingIsAListing DEF Down
<1>4. pc' \in [Job -> Stage] /\ CompanionsHaveTheirSidebar'
  BY StagesAre DEF Down, CompanionsHaveTheirSidebar
<1> QED
  BY <1>1, <1>2, <1>3, <1>4 DEF JobsOK

LEMMA InitTyped == Init => IInv
<1> SUFFICES ASSUME Init PROVE IInv
  OBVIOUS
<1>1. PanesOK
  BY NothingIsAListing, KindsOfPanes DEF Init, PanesOK, Nothing
<1>2. FlagsOK
  <2>1. up \in BOOLEAN /\ visible \in BOOLEAN /\ exited \in BOOLEAN
    BY DEF Init
  <2>2. ensure \in Window \cup {NoWindow}
    BY DEF Init
  <2>3. moves \in 0 .. MaxMoves
    BY SidebarAssumption DEF Init
  <2> QED
    BY <2>1, <2>2, <2>3 DEF FlagsOK
<1>3. JobsOK
  BY NothingIsAListing, StagesAre DEF Init, JobsOK, CompanionsHaveTheirSidebar
<1> QED
  BY <1>1, <1>2, <1>3 DEF IInv
-----------------------------------------------------------------------------
(* What an action leaves alone                                             *)

LEMMA PanesUntouched == PanesOK /\ UNCHANGED <<tmux, posts>> => PanesOK'
BY DEF tmux, PanesOK

LEMMA FlagsUntouched ==
  FlagsOK /\ UNCHANGED <<up, visible, ensure, exited, moves>> => FlagsOK'
BY DEF FlagsOK

LEMMA FlagsAfterMove ==
  FlagsOK /\ Move /\ UNCHANGED <<up, visible, ensure, exited>> => FlagsOK'
BY MovingTyped DEF FlagsOK

LEMMA JobsUntouched == JobsOK /\ UNCHANGED jobs => JobsOK'
BY DEF jobs, JobsOK, CompanionsHaveTheirSidebar

(* A job goes on without a look at anything.                               *)
LEMMA GoingOnKeepsJobs ==
  ASSUME JobsOK, NEW j \in Job, NEW stage \in Stage \ {"companion"}, Goes(j, stage),
         UNCHANGED <<want, saw, target>>
  PROVE  JobsOK'
<1>1. want' \in [Job -> SUBSET Window] /\ saw' \in [Job -> [Pane -> Place]]
  BY DEF JobsOK
<1> QED
  BY <1>1, GoingKeepsJobs

-----------------------------------------------------------------------------
(* Spawning                                                                *)

LEMMA LookTyped ==
  ASSUME IInv, NEW j \in Job, Look(j)
  PROVE  IInv'
<1> USE DEF IInv
<1>1. PanesOK' /\ FlagsOK'
  BY PanesUntouched, FlagsUntouched DEF Look
<1>2. CASE Visits(j, Active, Listing(Managed, Active))
  BY <1>1, <1>2, WindowsTyped, ListingTyped, VisitingKeepsJobs
<1>3. CASE Visits(j, want[j], Listing(Managed, want[j]))
  <2>1. want[j] \in SUBSET Window
    BY DEF JobsOK
  <2> QED
    BY <1>1, <1>3, <2>1, ListingTyped, VisitingKeepsJobs
<1> QED
  BY <1>2, <1>3 DEF Look

LEMMA FindSidebarTyped ==
  ASSUME IInv, NEW j \in Job, NEW w \in Window, FindSidebar(j, w)
  PROVE  IInv'
<1> USE DEF IInv
<1>1. PanesOK' /\ FlagsOK'
  BY PanesUntouched, FlagsUntouched DEF FindSidebar
<1>2. want[j] \ {w} \in SUBSET Window /\ saw[j] \in [Pane -> Place]
  BY DEF JobsOK
<1>3. CASE Visits(j, want[j] \ {w}, saw[j])
  BY <1>1, <1>2, <1>3, VisitingKeepsJobs
<1>4. ASSUME ~ Visits(j, want[j] \ {w}, saw[j]) PROVE IInv'
  <2>1. PICK p \in Listed(j, SidebarPane, w) : target' = [target EXCEPT ![j] = p]
    BY <1>4 DEF FindSidebar
  <2>2. Goes(j, "companion") /\ Wants(j, want[j] \ {w}) /\ UNCHANGED saw
    BY <1>4 DEF FindSidebar
  <2>3. p \in SidebarPane
    BY DEF Listed
  <2> QED
    BY <1>1, <1>2, <2>1, <2>2, <2>3, TargetingKeepsJobs
<1> QED
  BY <1>3, <1>4

LEMMA SpawnSidebarTyped ==
  ASSUME IInv, NEW j \in Job, NEW w \in Window, SpawnSidebar(j, w)
  PROVE  IInv'
<1> USE DEF IInv
<1> DEFINE stranded == Listed(j, CompanionPane, w)
           left     == Without(at, stranded)
           choices  == IF OpenIn(left, w) THEN Placed(left, SidebarPane) ELSE {}
<1>1. FlagsOK'
  BY FlagsUntouched DEF SpawnSidebar
<1>2. want[j] \ {w} \in SUBSET Window /\ saw[j] \in [Pane -> Place]
  BY DEF JobsOK
<1>3. left \in [Pane -> Place] /\ \A p \in ShellPane : left[p] \in {Stash, Gone}
  BY WithoutTyped DEF PanesOK
<1>4. choices \subseteq SidebarPane
  BY PlacedAreOfTheKind
<1>5. /\ posts' \subseteq {"exited"} \cup Window
      /\ user' \subseteq Window /\ current' \subseteq Window
  <2>1. posts' = Killed(stranded) /\ user' = user /\ current' = current
    BY DEF SpawnSidebar
  <2> QED
    BY <2>1, KilledTyped DEF PanesOK
<1>6. \/ at' = left /\ Visits(j, want[j] \ {w}, saw[j])
      \/ \E p \in choices :
           /\ at' = [left EXCEPT ![p] = w]
           /\ IF Companions
              THEN /\ target' = [target EXCEPT ![j] = p]
                   /\ Goes(j, "companion") /\ Wants(j, want[j] \ {w})
                   /\ UNCHANGED saw
              ELSE Visits(j, want[j] \ {w}, saw[j])
  BY DEF SpawnSidebar
<1> HIDE DEF left, choices
<1>7. ASSUME at' = left, Visits(j, want[j] \ {w}, saw[j]) PROVE IInv'
  <2>1. PanesOK'
    BY <1>3, <1>5, <1>7 DEF PanesOK
  <2> QED
    BY <1>1, <1>2, <1>7, <2>1, VisitingKeepsJobs
<1>8. ASSUME NEW p \in choices, at' = [left EXCEPT ![p] = w],
             IF Companions
             THEN /\ target' = [target EXCEPT ![j] = p]
                  /\ Goes(j, "companion") /\ Wants(j, want[j] \ {w})
                  /\ UNCHANGED saw
             ELSE Visits(j, want[j] \ {w}, saw[j])
      PROVE  IInv'
  <2>1. p \in SidebarPane /\ p \in Managed /\ w \in Place
    BY <1>4, KindsOfPanes DEF Place
  <2>2. PanesOK'
    <3>1. at' \in [Pane -> Place] /\ \A q \in ShellPane : at'[q] \in {Stash, Gone}
      BY <1>3, <1>8, <2>1, PlacingTyped
    <3> QED
      BY <1>5, <3>1 DEF PanesOK
  <2>3. JobsOK'
    <3>1. CASE Companions
      BY <1>2, <1>8, <2>1, <3>1, TargetingKeepsJobs
    <3>2. CASE ~Companions
      BY <1>2, <1>8, <3>2, VisitingKeepsJobs
    <3> QED
      BY <3>1, <3>2
  <2> QED
    BY <1>1, <2>2, <2>3
<1> QED
  BY <1>6, <1>7, <1>8

(* Here the target is needed: the companion goes where the sidebar is,     *)
(* which is a place only if the target is a pane.                          *)
LEMMA SpawnCompanionTyped ==
  ASSUME IInv, NEW j \in Job, SpawnCompanion(j)
  PROVE  IInv'
<1> USE DEF IInv
<1>1. FlagsOK'
  BY FlagsUntouched DEF SpawnCompanion
<1>2. JobsOK'
  <2>1. want[j] \in SUBSET Window /\ saw[j] \in [Pane -> Place]
    BY DEF JobsOK
  <2> QED
    BY <2>1, VisitingKeepsJobs DEF SpawnCompanion
<1>3. at[target[j]] \in Place
  <2>1. target[j] \in Pane
    BY KindsOfPanes DEF SpawnCompanion, JobsOK, CompanionsHaveTheirSidebar
  <2> QED
    BY <2>1 DEF PanesOK
<1>4. /\ posts' \subseteq {"exited"} \cup Window
      /\ user' \subseteq Window /\ current' \subseteq Window
  BY DEF SpawnCompanion, PanesOK
<1>5. at' = at \/ \E p \in CompanionPane : at' = [at EXCEPT ![p] = at[target[j]]]
  BY PlacedAreOfTheKind DEF SpawnCompanion
<1>6. at' \in [Pane -> Place] /\ \A q \in ShellPane : at'[q] \in {Stash, Gone}
  <2>1. CASE at' = at
    BY <2>1 DEF PanesOK
  <2>2. ASSUME NEW p \in CompanionPane, at' = [at EXCEPT ![p] = at[target[j]]]
        PROVE  at' \in [Pane -> Place] /\ \A q \in ShellPane : at'[q] \in {Stash, Gone}
    <3>1. p \in Managed
      BY KindsOfPanes
    <3> QED
      BY <1>3, <2>2, <3>1, PlacingTyped DEF PanesOK
  <2> QED
    BY <1>5, <2>1, <2>2
<1> QED
  BY <1>1, <1>2, <1>4, <1>6 DEF PanesOK

-----------------------------------------------------------------------------
(* Hiding, sweeping, quitting                                              *)

LEMMA ListToHideTyped ==
  ASSUME IInv, NEW j \in Job, ListToHide(j)
  PROVE  IInv'
<1> USE DEF IInv
<1>1. PanesOK' /\ FlagsOK'
  BY PanesUntouched, FlagsUntouched DEF ListToHide
<1> DEFINE seen == [p \in Pane |-> IF (p \in Managed /\ at[p] \in Window) \/ p \in ShellPane
                                  THEN at[p] ELSE Gone]
<1>2. seen \in [Pane -> Place]
  BY DEF PanesOK, Place
<1>3. Goes(j, "stashing") /\ Sees(j, seen) /\ UNCHANGED <<want, target>>
  BY DEF ListToHide
<1> HIDE DEF seen
<1>4. want' \in [Job -> SUBSET Window] /\ saw' \in [Job -> [Pane -> Place]]
  BY <1>2, <1>3, SeeingTyped DEF JobsOK
<1> QED
  BY <1>1, <1>3, <1>4, StagesAre, GoingKeepsJobs

LEMMA StashPaneTyped ==
  ASSUME IInv, NEW j \in Job, NEW p \in Managed, StashPane(j, p)
  PROVE  IInv'
<1> USE DEF IInv
<1> DEFINE shell   == IF Exists(at) \/ Unused(ShellPane) = {} THEN {} ELSE {Fresh(ShellPane)}
           ensured == [q \in Pane |-> IF q \in shell THEN Stash ELSE at[q]]
           pruned  == Without(ensured, Listed(j, ShellPane, Stash))
<1>1. FlagsOK'
  BY FlagsUntouched DEF StashPane
<1>2. ensured \in [Pane -> Place] /\ \A q \in ShellPane : ensured[q] \in {Stash, Gone}
  BY KindsOfPanes DEF PanesOK, Place
<1>3. at' = (IF at[p] # Gone /\ Exists(pruned) THEN [pruned EXCEPT ![p] = Stash] ELSE pruned)
  BY DEF StashPane
<1> HIDE DEF ensured
<1>4. pruned \in [Pane -> Place] /\ \A q \in ShellPane : pruned[q] \in {Stash, Gone}
  BY <1>2, WithoutTyped
<1> HIDE DEF pruned
<1>5. at' \in [Pane -> Place] /\ \A q \in ShellPane : at'[q] \in {Stash, Gone}
  <2>1. Stash \in Place
    BY DEF Place
  <2> QED
    BY <1>3, <1>4, <2>1, PlacingTyped
<1>6. PanesOK'
  <2>1. posts' = Killed(Listed(j, ShellPane, Stash)) /\ user' = user /\ current' = current
    BY DEF StashPane
  <2>2. posts' \subseteq {"exited"} \cup Window
    BY <2>1, KilledTyped
  <2> QED
    BY <1>5, <2>1, <2>2 DEF PanesOK
<1>7. JobsOK'
  <2>1. Sees(j, [saw[j] EXCEPT ![p] = Gone]) /\ UNCHANGED <<pc, want, target>>
    BY DEF StashPane
  <2>2. [saw[j] EXCEPT ![p] = Gone] \in [Pane -> Place]
    BY KindsOfPanes DEF JobsOK, Place
  <2>3. saw' \in [Job -> [Pane -> Place]]
    BY <2>1, <2>2, SeeingTyped
  <2> QED
    BY <2>1, <2>3 DEF JobsOK, CompanionsHaveTheirSidebar
<1> QED
  BY <1>1, <1>6, <1>7

LEMMA HiddenTyped ==
  ASSUME IInv, NEW j \in Job, Hidden(j)
  PROVE  IInv'
BY PanesUntouched, FlagsUntouched, EndingKeepsJobs DEF IInv, Hidden

LEMMA SuspectTyped ==
  ASSUME IInv, NEW j \in Job, Suspect(j)
  PROVE  IInv'
<1> USE DEF IInv
<1>1. PanesOK' /\ FlagsOK'
  BY PanesUntouched, FlagsUntouched DEF Suspect
<1>2. want' \in [Job -> SUBSET Window] /\ saw' \in [Job -> [Pane -> Place]]
  <2>1. Wants(j, Orphans) /\ saw' = saw
    BY DEF Suspect
  <2> QED
    BY <2>1, WindowsTyped, WantingTyped DEF JobsOK
<1>3. PICK stage \in {"idle", "suspecting"} : Goes(j, stage)
  BY DEF Suspect
<1>4. stage \in Stage \ {"companion"} /\ target' = target
  BY StagesAre DEF Suspect
<1> QED
  BY <1>1, <1>2, <1>3, <1>4, GoingKeepsJobs

LEMMA ConfirmTyped ==
  ASSUME IInv, NEW j \in Job, Confirm(j)
  PROVE  IInv'
<1> USE DEF IInv
<1>1. PanesOK' /\ FlagsOK'
  BY PanesUntouched, FlagsUntouched DEF Confirm
<1>2. Goes(j, "killing") /\ Wants(j, {}) /\ target' = target
      /\ Sees(j, Listing(Managed, want[j] \cap Orphans))
  BY DEF Confirm
<1>3. want' \in [Job -> SUBSET Window] /\ saw' \in [Job -> [Pane -> Place]]
  BY <1>2, WantingTyped, SeeingTyped, ListingTyped
<1> QED
  BY <1>1, <1>2, <1>3, StagesAre, GoingKeepsJobs

LEMMA KillOrphansTyped ==
  ASSUME IInv, NEW j \in Job, KillOrphans(j)
  PROVE  IInv'
BY KillKeepsPanes, FlagsUntouched, EndingKeepsJobs DEF IInv, KillOrphans

LEMMA BootTyped ==
  ASSUME IInv, NEW j \in Job, Boot(j)
  PROVE  IInv'
<1> USE DEF IInv
<1> DEFINE adopted == {w \in Window : In(SidebarPane, w) # {}}
<1>1. PanesOK' /\ FlagsOK'
  BY KillKeepsPanes, FlagsUntouched DEF Boot
<1>2. \/ Goes(j, "showing") /\ UNCHANGED <<want, saw, target>>
      \/ Ends(j)
      \/ Visits(j, adopted, Listing(Managed, adopted))
  BY DEF Boot
<1>3. adopted \in SUBSET Window /\ Listing(Managed, adopted) \in [Pane -> Place]
  BY ListingTyped
<1> HIDE DEF adopted
<1>4. CASE Goes(j, "showing") /\ UNCHANGED <<want, saw, target>>
  BY <1>1, <1>4, StagesAre, GoingOnKeepsJobs
<1>5. CASE Ends(j)
  BY <1>1, <1>5, EndingKeepsJobs
<1>6. CASE Visits(j, adopted, Listing(Managed, adopted))
  BY <1>1, <1>3, <1>6, VisitingKeepsJobs
<1> QED
  BY <1>2, <1>4, <1>5, <1>6

LEMMA ReloadTyped ==
  ASSUME IInv, NEW j \in Job, Reload(j)
  PROVE  IInv'
<1> USE DEF IInv
<1>1. PanesOK'
  BY KillKeepsPanes DEF Reload
<1>2. FlagsOK'
  BY FlagsUntouched DEF Reload
<1>3. JobsOK'
  BY StagesAre, GoingOnKeepsJobs DEF Reload
<1> QED
  BY <1>1, <1>2, <1>3

LEMMA QuitAllTyped ==
  ASSUME IInv, NEW j \in Job, QuitAll(j)
  PROVE  IInv'
<1> USE DEF IInv
<1>1. PanesOK'
  BY KillKeepsPanes DEF QuitAll
<1>2. FlagsOK'
  BY FlagsUntouched DEF QuitAll
<1>3. JobsOK'
  BY StagesAre, GoingOnKeepsJobs DEF QuitAll
<1> QED
  BY <1>1, <1>2, <1>3

LEMMA LeaveTyped ==
  ASSUME IInv, NEW j \in Job, Leave(j)
  PROVE  IInv'
<1>1. moves' \in 0 .. MaxMoves
  BY DEF IInv, FlagsOK, Leave
<1> QED
  BY <1>1, PanesUntouched, DownKeepsFlagsAndJobs DEF IInv, Leave

LEMMA StepTyped ==
  ASSUME IInv, NEW j \in Job, Step(j)
  PROVE  IInv'
BY LookTyped, FindSidebarTyped, SpawnSidebarTyped, SpawnCompanionTyped, ListToHideTyped,
   StashPaneTyped, HiddenTyped, SuspectTyped, ConfirmTyped, KillOrphansTyped, BootTyped,
   ReloadTyped, QuitAllTyped, LeaveTyped DEF Step

-----------------------------------------------------------------------------
(* The user, the hooks and the server                                      *)

LEMMA UserTyped ==
  ASSUME IInv, User
  PROVE  IInv'
<1> USE DEF IInv
<1>1. ASSUME NEW w \in Window, OpenWindow(w) \/ OpenPane(w) \/ ClosePane(w) \/ SelectWindow(w)
      PROVE  IInv'
  <2>1. FlagsOK' /\ JobsOK'
    BY <1>1, FlagsAfterMove, JobsUntouched
       DEF OpenWindow, OpenPane, ClosePane, SelectWindow
  <2>2. at' = at
    BY <1>1 DEF OpenWindow, OpenPane, ClosePane, SelectWindow
  <2>3. user' \subseteq Window /\ current' \subseteq Window /\ posts' \subseteq {"exited"} \cup Window
    BY <1>1 DEF PanesOK, OpenWindow, OpenPane, ClosePane, SelectWindow
  <2> QED
    BY <2>1, <2>2, <2>3 DEF PanesOK
<1>2. ASSUME NEW p \in Managed, PaneDies(p) PROVE IInv'
  <2>1. FlagsOK' /\ JobsOK'
    BY <1>2, FlagsAfterMove, JobsUntouched DEF PaneDies
  <2>2. PanesOK'
    BY <1>2, KillKeepsPanes DEF PaneDies
  <2> QED
    BY <2>1, <2>2
<1>3. ASSUME NEW j \in Job, HandleToggle(j) PROVE IInv'
  <2>1. PanesOK'
    BY <1>3, PanesUntouched DEF HandleToggle
  <2>2. FlagsOK'
    BY <1>3, MovingTyped DEF HandleToggle, FlagsOK
  <2>3. PICK stage \in {"hiding", "showing"} : Goes(j, stage)
    BY <1>3 DEF HandleToggle
  <2>4. stage \in Stage \ {"companion"} /\ UNCHANGED <<want, saw, target>>
    BY <1>3, StagesAre DEF HandleToggle
  <2> QED
    BY <2>1, <2>2, <2>3, <2>4, GoingOnKeepsJobs
<1>4. ASSUME NEW j \in Job, HandleQuit(j) PROVE IInv'
  BY <1>4, PanesUntouched, FlagsAfterMove, StagesAre, GoingOnKeepsJobs DEF HandleQuit
<1> QED
  BY <1>1, <1>2, <1>3, <1>4 DEF User

LEMMA ServerTyped ==
  ASSUME IInv, Server
  PROVE  IInv'
<1> USE DEF IInv
<1>1. CASE Stop
  BY <1>1, MovingTyped, PanesUntouched, DownKeepsFlagsAndJobs DEF Stop
<1>2. ASSUME NEW h \in posts, LosePost(h) PROVE IInv'
  <2>1. FlagsOK' /\ JobsOK'
    BY <1>2, FlagsUntouched, JobsUntouched DEF LosePost
  <2>2. PanesOK'
    BY <1>2 DEF LosePost, PanesOK, tmux
  <2> QED
    BY <2>1, <2>2
<1>3. ASSUME NEW j \in Job, NEW reload \in BOOLEAN, Start(j, reload) PROVE IInv'
  <2>1. PanesOK'
    BY <1>3, PanesUntouched DEF Start
  <2>2. FlagsOK'
    BY <1>3 DEF Start, FlagsOK
  <2>3. PICK stage \in {"reloading", "booting"} : Goes(j, stage)
    BY <1>3 DEF Start
  <2>4. stage \in Stage \ {"companion"} /\ UNCHANGED <<want, saw, target>>
    BY <1>3, StagesAre DEF Start
  <2> QED
    BY <2>1, <2>2, <2>3, <2>4, GoingOnKeepsJobs
<1> QED
  BY <1>1, <1>2, <1>3 DEF Server

LEMMA HooksTyped ==
  ASSUME IInv, Hooks
  PROVE  IInv'
<1> USE DEF IInv
<1>1. CASE HandlePaneExited
  <2>1. JobsOK'
    BY <1>1, JobsUntouched DEF HandlePaneExited
  <2>2. PanesOK'
    BY <1>1 DEF HandlePaneExited, PanesOK, tmux
  <2>3. FlagsOK'
    BY <1>1 DEF HandlePaneExited, FlagsOK
  <2> QED
    BY <2>1, <2>2, <2>3
<1>2. ASSUME NEW w \in Window, HandleEnsureSidebar(w) PROVE IInv'
  <2>1. JobsOK'
    BY <1>2, JobsUntouched DEF HandleEnsureSidebar
  <2>2. PanesOK'
    BY <1>2 DEF HandleEnsureSidebar, PanesOK, tmux
  <2>3. FlagsOK'
    BY <1>2 DEF HandleEnsureSidebar, FlagsOK
  <2> QED
    BY <2>1, <2>2, <2>3
<1> QED
  BY <1>1, <1>2 DEF Hooks

LEMMA TimersTyped ==
  ASSUME IInv, NEW j \in Job, FireEnsure(j) \/ FireSweep(j)
  PROVE  IInv'
<1> USE DEF IInv
<1>1. CASE FireEnsure(j)
  <2>1. PanesOK'
    BY <1>1, PanesUntouched DEF FireEnsure
  <2>2. FlagsOK'
    BY <1>1 DEF FireEnsure, FlagsOK
  <2>3. CASE visible
    <3>1. Goes(j, "ensuring") /\ Wants(j, {ensure}) /\ UNCHANGED <<saw, target>>
      BY <1>1, <2>3 DEF FireEnsure
    <3>2. {ensure} \in SUBSET Window
      BY <1>1 DEF FireEnsure, FlagsOK
    <3>3. want' \in [Job -> SUBSET Window] /\ saw' \in [Job -> [Pane -> Place]]
      BY <3>1, <3>2, WantingTyped DEF JobsOK
    <3> QED
      BY <2>1, <2>2, <3>1, <3>3, StagesAre, GoingKeepsJobs
  <2>4. CASE ~visible
    BY <1>1, <2>1, <2>2, <2>4, JobsUntouched DEF FireEnsure
  <2> QED
    BY <2>3, <2>4
<1>2. CASE FireSweep(j)
  <2>1. PanesOK'
    BY <1>2, PanesUntouched DEF FireSweep
  <2>2. FlagsOK'
    BY <1>2 DEF FireSweep, FlagsOK
  <2> QED
    BY <1>2, <2>1, <2>2, StagesAre, GoingOnKeepsJobs DEF FireSweep
<1> QED
  BY <1>1, <1>2

LEMMA StepKeepsTypes == IInv /\ [Next]_vars => IInv'
<1> SUFFICES ASSUME IInv, [Next]_vars PROVE IInv'
  OBVIOUS
<1>1. CASE UNCHANGED vars
  BY <1>1, PanesUntouched, FlagsUntouched, JobsUntouched DEF IInv, vars
<1> QED
  BY <1>1, UserTyped, ServerTyped, HooksTyped, TimersTyped, StepTyped DEF Next

(* The windows, the panes, the jobs and the timers keep their types, and a *)
(* shell of the stash session is never in a window (StashPane,             *)
(* restoreFromStash, SpawnManagedPane).                                    *)
THEOREM TypeCorrect == Spec => []TypeOK
<1>1. Spec => []IInv
  BY InitTyped, StepKeepsTypes, PTL DEF Spec
<1> QED
  BY <1>1, InvariantGivesTypes, PTL
=============================================================================
