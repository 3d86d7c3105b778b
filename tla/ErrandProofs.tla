----------------------------- MODULE ErrandProofs -----------------------------
(***************************************************************************)
(* For any number of commands, turns and polls: the type of the state,     *)
(* that a wait by delegation reports no delegate dead that has not begun,  *)
(* that a refused follow-up left the pane alone, and that no command cuts  *)
(* a turn shown before its last look.                                      *)
(*                                                                         *)
(* None of the three is inductive.  What a command reports comes from an   *)
(* answer it was given and a look it took, so the strengthening says what  *)
(* each pending answer and each look still allows: WaitInv of the answers  *)
(* of a poll, FollowInv and SweepInv of the looks and replies, and TurnInv *)
(* that a row which has shown a turn shows it as long as it lasts, unless  *)
(* the server lost its rows, and then the rollout does.                    *)
(***************************************************************************)
EXTENDS Errand, TLAPS

(* A turn under way is in the rollout, and in the row once it was shown.   *)
TurnInv ==
  /\ shown <= agent.turn
  /\ agent.at \in Working =>
       /\ agent.turn > 0 /\ disk.status = "running"
       /\ agent.turn = shown => bound /\ row \in {"running", "waiting", "none"}

(* Only the rollout of a bound delegate can be missed.                     *)
WaitSound(w, r) ==
  w \in Waiter =>
    /\ r.at = "disk" => bound
    /\ r.at = "answered" /\ r.status = "gone" /\ ~r.timed => bound
    /\ r.outcome = "session-dead" => bound

WaitInv == \A w \in Wait : WaitSound(w, wait[w])

(* A turn that is under way began after the turns seen.                    *)
NotSeen(seen) == seen <= agent.turn /\ (agent.at \in Working => seen < agent.turn)

AtServer == {"idle", "sent", "first look", "write", "second look", "respawn"}

(* The first request has touched the pane only if its reply says so, or    *)
(* never came.                                                             *)
FollowSound(f, r) ==
  /\ ~r.again /\ (r.at \in AtServer \/ (r.at = "replied" /\ r.code # 200)) => given[f] = {}
  /\ r.at = "retry" => r.again
  /\ r.at # "ended" => r.outcome = "none"
  /\ r.outcome = "refused-409" => given[f] = {}
  /\ r.at = "respawn" => NotSeen(r.seen)

FollowInv == \A f \in Follower : FollowSound(f, follow[f])

SweepInv == \A t \in Tidier : tidy[t].at = "kill" => NotSeen(tidy[t].seen)

IInv == TypeOK /\ TurnInv /\ WaitInv /\ FollowInv /\ SweepInv /\ NoShownTurnCut

-----------------------------------------------------------------------------
(* The records of the commands, changed field by field                     *)

LEMMA WaitFields ==
  ASSUME NEW r \in WaitState
  PROVE  /\ \A at \in WaitStage : [r EXCEPT !.at = at] \in WaitState
         /\ \A n \in 0 .. MaxPolls : [r EXCEPT !.left = n] \in WaitState
         /\ \A n \in 0 .. 2 : [r EXCEPT !.quiet = n] \in WaitState
         /\ \A n \in 0 .. 2 : [r EXCEPT !.unreadable = n] \in WaitState
         /\ \A n, m \in 0 .. 2 : [r EXCEPT !.unreadable = n, !.quiet = m] \in WaitState
         /\ \A b \in BOOLEAN, n, m \in 0 .. 2 :
              [r EXCEPT !.seen = b, !.unreadable = n, !.quiet = m] \in WaitState
<1>1. \A at \in WaitStage : [r EXCEPT !.at = at] \in WaitState
  BY DEF WaitState
<1>2. \A n \in 0 .. MaxPolls : [r EXCEPT !.left = n] \in WaitState
  BY DEF WaitState
<1>3. \A n \in 0 .. 2 : [r EXCEPT !.quiet = n] \in WaitState
  BY DEF WaitState
<1>4. \A n \in 0 .. 2 : [r EXCEPT !.unreadable = n] \in WaitState
  BY DEF WaitState
<1>5. \A n, m \in 0 .. 2 : [r EXCEPT !.unreadable = n, !.quiet = m] \in WaitState
  BY DEF WaitState
<1>6. \A b \in BOOLEAN, n, m \in 0 .. 2 :
        [r EXCEPT !.seen = b, !.unreadable = n, !.quiet = m] \in WaitState
  BY DEF WaitState
<1> QED
  BY <1>1, <1>2, <1>3, <1>4, <1>5, <1>6

LEMMA FollowupFields ==
  ASSUME NEW r \in FollowupState
  PROVE  /\ \A at \in FollowupStage : [r EXCEPT !.at = at] \in FollowupState
         /\ \A at \in FollowupStage, b \in BOOLEAN :
              [r EXCEPT !.at = at, !.again = b] \in FollowupState
         /\ \A at \in FollowupStage, n \in 0 .. MaxTurns :
              [r EXCEPT !.at = at, !.seen = n] \in FollowupState
         /\ \A at \in FollowupStage, o \in FollowupOutcome :
              [r EXCEPT !.at = at, !.outcome = o] \in FollowupState
         /\ \A at \in FollowupStage, b \in BOOLEAN, file \in File \cup {NoFile} :
              [r EXCEPT !.at = at, !.again = b, !.file = file] \in FollowupState
         /\ \A at \in FollowupStage, c \in HTTPCode, n \in 0 .. MaxTurns :
              [r EXCEPT !.at = at, !.code = c, !.seen = n] \in FollowupState
<1>1. \A at \in FollowupStage : [r EXCEPT !.at = at] \in FollowupState
  BY DEF FollowupState
<1>2. \A at \in FollowupStage, b \in BOOLEAN :
        [r EXCEPT !.at = at, !.again = b] \in FollowupState
  BY DEF FollowupState
<1>3. \A at \in FollowupStage, n \in 0 .. MaxTurns :
        [r EXCEPT !.at = at, !.seen = n] \in FollowupState
  BY DEF FollowupState
<1>4. \A at \in FollowupStage, o \in FollowupOutcome :
        [r EXCEPT !.at = at, !.outcome = o] \in FollowupState
  BY DEF FollowupState
<1>5. \A at \in FollowupStage, b \in BOOLEAN, file \in File \cup {NoFile} :
        [r EXCEPT !.at = at, !.again = b, !.file = file] \in FollowupState
  BY DEF FollowupState
<1>6. \A at \in FollowupStage, c \in HTTPCode, n \in 0 .. MaxTurns :
        [r EXCEPT !.at = at, !.code = c, !.seen = n] \in FollowupState
  BY DEF FollowupState
<1> QED
  BY <1>1, <1>2, <1>3, <1>4, <1>5, <1>6

LEMMA NewRecords ==
  /\ NewWait \in WaitState /\ NewFollowup \in FollowupState
  /\ [at |-> "idle", seen |-> 0, outcome |-> "none"] \in SweepState
<1>1. NewWait \in WaitState
  BY ErrandAssumption DEF NewWait, WaitState, WaitStage, WaitOutcome, Status
<1>2. NewFollowup \in FollowupState
  BY ErrandAssumption DEF NewFollowup, FollowupState, FollowupStage, FollowupOutcome, HTTPCode
<1>3. [at |-> "idle", seen |-> 0, outcome |-> "none"] \in SweepState
  BY ErrandAssumption DEF SweepState
<1> QED
  BY <1>1, <1>2, <1>3

LEMMA InitEstablishes == Init => IInv
<1> SUFFICES ASSUME Init PROVE IInv
  OBVIOUS
<1>1. agent \in [at : {"booting", "working", "approval", "idle", "gone"},
                 file : File \cup {NoFile}, turn : 0 .. MaxTurns]
  BY ErrandAssumption DEF Init
<1>2. TypeOK
  BY <1>1, NewRecords, ErrandAssumption DEF Init, TypeOK, Status
<1>3. TurnInv /\ NoShownTurnCut
  BY DEF Init, TurnInv, NoShownTurnCut, Working
<1>4. WaitInv
  BY DEF Init, WaitInv, WaitSound, NewWait
<1>5. FollowInv
  BY DEF Init, FollowInv, FollowSound, NewFollowup
<1>6. SweepInv
  BY DEF Init, SweepInv
<1> QED
  BY <1>2, <1>3, <1>4, <1>5, <1>6 DEF IInv

-----------------------------------------------------------------------------
(* The delegate and its user                                               *)

(* What a step of the delegate must keep for the commands' sake: the turns *)
(* a command has seen stay over.                                           *)
LEMMA DelegateStepKeeps ==
  ASSUME IInv, UNCHANGED <<row, bound, shown, up, wait, follow, tidy, given, cut, mu>>,
         agent' \in [at : {"booting", "working", "approval", "idle", "gone"},
                     file : File \cup {NoFile}, turn : 0 .. MaxTurns],
         disk' \in [read : SUBSET (File \cup {NoFile}), status : Status],
         TurnInv',
         agent.turn <= agent'.turn,
         agent'.at \in Working => agent.at \in Working \/ agent.turn < agent'.turn
  PROVE  IInv'
<1>1. TypeOK'
  BY DEF IInv, TypeOK
<1>2. agent.turn \in Nat /\ agent'.turn \in Nat
  BY ErrandAssumption DEF IInv, TypeOK
<1>3. ASSUME NEW seen \in Nat, NotSeen(seen) PROVE NotSeen(seen)'
  BY <1>2, <1>3 DEF NotSeen
<1>4. WaitInv' /\ NoShownTurnCut'
  BY DEF IInv, WaitInv, WaitSound, NoShownTurnCut
<1>5. FollowInv'
  <2> SUFFICES ASSUME NEW f \in Follower PROVE FollowSound(f, follow[f])'
    BY DEF FollowInv
  <2>1. follow[f].seen \in Nat
    <3>1. follow[f] \in FollowupState
      BY DEF IInv, TypeOK
    <3>2. follow[f].seen \in 0 .. MaxTurns
      BY <3>1 DEF FollowupState
    <3> QED
      BY <3>2, ErrandAssumption
  <2>2. FollowSound(f, follow[f])
    BY DEF IInv, FollowInv
  <2>3. follow[f].at = "respawn" => NotSeen(follow[f].seen)'
    BY <1>3, <2>1, <2>2 DEF FollowSound
  <2>4. follow'[f] = follow[f] /\ given'[f] = given[f]
    OBVIOUS
  <2> QED
    BY <2>2, <2>3, <2>4 DEF FollowSound, NotSeen
<1>6. SweepInv'
  <2> SUFFICES ASSUME NEW t \in Tidier, tidy[t].at = "kill" PROVE NotSeen(tidy[t].seen)'
    BY DEF SweepInv
  <2>1. tidy[t].seen \in Nat
    <3>1. tidy[t] \in SweepState
      BY DEF IInv, TypeOK
    <3>2. tidy[t].seen \in 0 .. MaxTurns
      BY <3>1 DEF SweepState
    <3> QED
      BY <3>2, ErrandAssumption
  <2> QED
    BY <1>3, <2>1 DEF IInv, SweepInv
<1> QED
  BY <1>1, <1>4, <1>5, <1>6 DEF IInv

LEMMA DelegateKeeps ==
  ASSUME IInv,
         ReadsPrompt \/ UserPrompts \/ UserResumes \/ Approval \/ TurnEnds \/ AgentDies
  PROVE  IInv'
<1>1. UNCHANGED <<row, bound, shown, up, wait, follow, tidy, given, cut, mu>>
  BY DEF ReadsPrompt, UserPrompts, UserResumes, Approval, TurnEnds, AgentDies, server, Others
<1>2. /\ agent.at \in {"booting", "working", "approval", "idle", "gone"}
      /\ agent.file \in File \cup {NoFile} /\ agent.turn \in 0 .. MaxTurns
      /\ agent \in [at : {"booting", "working", "approval", "idle", "gone"},
                    file : File \cup {NoFile}, turn : 0 .. MaxTurns]
      /\ disk \in [read : SUBSET (File \cup {NoFile}), status : Status]
      /\ shown \in 0 .. MaxTurns
  BY DEF IInv, TypeOK
<1>3. TurnInv
  BY DEF IInv
<1>4. CASE ReadsPrompt
  <2>1. /\ agent' = [agent EXCEPT !.at = "working", !.turn = @ + 1]
        /\ disk' = [read |-> disk.read \cup {agent.file}, status |-> "running"]
        /\ agent.turn < MaxTurns
    BY <1>4 DEF ReadsPrompt
  <2>2. TurnInv'
    <3>1. agent'.at = "working" /\ agent'.turn = agent.turn + 1 /\ disk'.status = "running"
      BY <1>2, <2>1
    <3>2. agent.turn \in Nat /\ shown \in Nat /\ shown <= agent.turn /\ shown' = shown
      BY <1>1, <1>2, <1>3, ErrandAssumption DEF TurnInv
    <3> QED
      BY <3>1, <3>2 DEF TurnInv
  <2>3. agent' \in [at : {"booting", "working", "approval", "idle", "gone"},
                    file : File \cup {NoFile}, turn : 0 .. MaxTurns]
    <3>1. agent.turn + 1 \in 0 .. MaxTurns
      BY <1>2, <2>1, ErrandAssumption
    <3> QED
      BY <1>2, <2>1, <3>1
  <2>4. disk' \in [read : SUBSET (File \cup {NoFile}), status : Status]
    BY <1>2, <2>1 DEF Status
  <2>5. agent.turn < agent'.turn
    BY <1>2, <2>1, ErrandAssumption
  <2> QED
    BY <1>1, <1>2, <2>2, <2>3, <2>4, <2>5, DelegateStepKeeps, ErrandAssumption
<1>5. CASE UserPrompts
  <2>1. /\ agent' = [agent EXCEPT !.at = "working", !.turn = @ + 1]
        /\ disk' = [disk EXCEPT !.status = "running"]
        /\ agent.turn < MaxTurns
    BY <1>5 DEF UserPrompts
  <2>2. TurnInv'
    <3>1. agent'.at = "working" /\ agent'.turn = agent.turn + 1 /\ disk'.status = "running"
      BY <1>2, <2>1
    <3>2. agent.turn \in Nat /\ shown \in Nat /\ shown <= agent.turn /\ shown' = shown
      BY <1>1, <1>2, <1>3, ErrandAssumption DEF TurnInv
    <3> QED
      BY <3>1, <3>2 DEF TurnInv
  <2>3. agent' \in [at : {"booting", "working", "approval", "idle", "gone"},
                    file : File \cup {NoFile}, turn : 0 .. MaxTurns]
    <3>1. agent.turn + 1 \in 0 .. MaxTurns
      BY <1>2, <2>1, ErrandAssumption
    <3> QED
      BY <1>2, <2>1, <3>1
  <2>4. disk' \in [read : SUBSET (File \cup {NoFile}), status : Status]
    BY <1>2, <2>1 DEF Status
  <2>5. agent.turn < agent'.turn
    BY <1>2, <2>1, ErrandAssumption
  <2> QED
    BY <1>1, <1>2, <2>2, <2>3, <2>4, <2>5, DelegateStepKeeps, ErrandAssumption
<1>6. CASE UserResumes \/ AgentDies
  <2>1. /\ \/ agent' = [agent EXCEPT !.at = "booting", !.file = NoFile]
           \/ agent' = [agent EXCEPT !.at = "gone"]
        /\ disk' = disk
    BY <1>6 DEF UserResumes, AgentDies
  <2>2. agent'.at \notin Working /\ agent'.turn = agent.turn
    BY <1>2, <2>1 DEF Working
  <2>3. agent' \in [at : {"booting", "working", "approval", "idle", "gone"},
                    file : File \cup {NoFile}, turn : 0 .. MaxTurns]
    BY <1>2, <2>1
  <2>4. TurnInv'
    BY <1>1, <1>3, <2>2 DEF TurnInv
  <2> QED
    BY <1>1, <1>2, <2>1, <2>2, <2>3, <2>4, DelegateStepKeeps, ErrandAssumption
<1>7. CASE Approval
  <2>1. /\ agent.at \in Working /\ disk' = disk
        /\ agent' = [agent EXCEPT !.at = IF @ = "working" THEN "approval" ELSE "working"]
    BY <1>7 DEF Approval
  <2>2. agent'.at \in Working /\ agent'.turn = agent.turn
    BY <1>2, <2>1 DEF Working
  <2>3. agent' \in [at : {"booting", "working", "approval", "idle", "gone"},
                    file : File \cup {NoFile}, turn : 0 .. MaxTurns]
    BY <1>2, <2>1
  <2>4. TurnInv'
    BY <1>1, <1>3, <2>1, <2>2 DEF TurnInv
  <2> QED
    BY <1>1, <1>2, <2>1, <2>2, <2>3, <2>4, DelegateStepKeeps, ErrandAssumption
<1>8. CASE TurnEnds
  <2>1. /\ agent' = [agent EXCEPT !.at = "idle"]
        /\ disk' \in {[disk EXCEPT !.status = s] : s \in {"done", "error"}}
    BY <1>8 DEF TurnEnds
  <2>2. agent'.at \notin Working /\ agent'.turn = agent.turn
    BY <1>2, <2>1 DEF Working
  <2>3. agent' \in [at : {"booting", "working", "approval", "idle", "gone"},
                    file : File \cup {NoFile}, turn : 0 .. MaxTurns]
    BY <1>2, <2>1
  <2>4. disk' \in [read : SUBSET (File \cup {NoFile}), status : Status]
    BY <1>2, <2>1 DEF Status
  <2>5. TurnInv'
    BY <1>1, <1>3, <2>2 DEF TurnInv
  <2> QED
    BY <1>1, <1>2, <2>2, <2>3, <2>4, <2>5, DelegateStepKeeps, ErrandAssumption
<1> QED
  BY <1>4, <1>5, <1>6, <1>7, <1>8

(* The row catches up: a turn it shows is the last shown.                  *)
LEMMA ObserveKeeps ==
  ASSUME IInv, Observe
  PROVE  IInv'
<1>1. /\ row' = Truth /\ bound' = (bound \/ agent.turn > 0)
      /\ shown' = IF agent.at \in Working THEN agent.turn ELSE shown
      /\ UNCHANGED <<agent, disk, up, wait, follow, tidy, given, cut, mu>>
  BY DEF Observe, delegate, Others
<1>2. /\ agent.at \in {"booting", "working", "approval", "idle", "gone"}
      /\ agent.turn \in 0 .. MaxTurns /\ disk.status \in Status
  BY DEF IInv, TypeOK
<1>3. Truth \in Status /\ (agent.at \in Working => Truth \in {"running", "waiting"})
  BY <1>2 DEF Truth, Status, Working
<1>4. TypeOK'
  BY <1>1, <1>2, <1>3 DEF IInv, TypeOK
<1>5. TurnInv'
  <2>1. agent.at \in Working => agent.turn > 0 /\ disk.status = "running"
    BY DEF IInv, TurnInv
  <2>2. agent.at \in Working => bound'
    BY <1>1, <2>1
  <2>3. shown' <= agent.turn
    BY <1>1, <1>2, ErrandAssumption DEF IInv, TurnInv
  <2> QED
    BY <1>1, <1>3, <2>1, <2>2, <2>3 DEF TurnInv
<1>6. WaitInv'
  BY <1>1 DEF IInv, WaitInv, WaitSound
<1>7. FollowInv' /\ SweepInv' /\ NoShownTurnCut'
  BY <1>1 DEF IInv, FollowInv, FollowSound, NotSeen, SweepInv, NoShownTurnCut
<1> QED
  BY <1>4, <1>5, <1>6, <1>7 DEF IInv

-----------------------------------------------------------------------------

-----------------------------------------------------------------------------
(* Waits                                                                   *)

(* A wait that goes on with a record of the right kind.                    *)
LEMMA WaitStepKeeps ==
  ASSUME IInv, NEW w \in Wait, NEW r \in WaitState, WaitSound(w, r), Set(w, r),
         UNCHANGED <<delegate, server, mu, follow, tidy, given, cut>>
  PROVE  IInv'
<1>1. /\ wait' = [wait EXCEPT ![w] = r]
      /\ UNCHANGED <<agent, disk, row, bound, shown, up, mu, follow, tidy, given, cut>>
  BY DEF Set, delegate, server
<1>2. TypeOK'
  BY <1>1 DEF IInv, TypeOK
<1>3. TurnInv' /\ FollowInv' /\ SweepInv' /\ NoShownTurnCut'
  BY <1>1 DEF IInv, TurnInv, FollowInv, FollowSound, NotSeen, SweepInv, NoShownTurnCut
<1>4. WaitInv'
  <2> SUFFICES ASSUME NEW v \in Wait PROVE WaitSound(v, wait[v])'
    BY DEF WaitInv
  <2>1. wait'[v] = IF v = w THEN r ELSE wait[v]
    BY <1>1 DEF IInv, TypeOK
  <2>2. WaitSound(v, wait[v])
    BY DEF IInv, WaitInv
  <2> QED
    BY <1>1, <2>1, <2>2 DEF WaitSound
<1> QED
  BY <1>2, <1>3, <1>4 DEF IInv

(* The records a poll is begun with, or ended with.                        *)
LEMMA EndedSound ==
  ASSUME NEW w \in Wait,
         NEW o \in WaitOutcome,
         o = "session-dead" /\ w \in Waiter => bound
  PROVE  Ended(w, o) \in WaitState /\ WaitSound(w, Ended(w, o))
<1>1. "ended" \in WaitStage
  BY DEF WaitStage
<1>2. Ended(w, o) \in WaitState /\ Ended(w, o).at = "ended" /\ Ended(w, o).outcome = o
  BY <1>1, NewRecords DEF Ended, WaitState
<1> QED
  BY <1>2 DEF WaitSound

LEMMA ReadySound ==
  ASSUME IInv, NEW w \in Wait
  PROVE  /\ Ready(w) \in WaitState /\ WaitSound(w, Ready(w))
         /\ Ready(w).at = "ready" /\ Ready(w).outcome = "none" /\ Ready(w).status = "none"
<1>1. wait[w] \in WaitState
  BY DEF IInv, TypeOK
<1>2. Ready(w) \in WaitState
  BY <1>1, ErrandAssumption DEF Ready, NewWait, WaitState, WaitStage, WaitOutcome, Status
<1>3. Ready(w).at = "ready" /\ Ready(w).outcome = "none" /\ Ready(w).status = "none"
  BY DEF Ready, NewWait
<1> QED
  BY <1>2, <1>3 DEF WaitSound

(* A wait that is only sent, or only moved on, says nothing new.           *)
LEMMA SentSound ==
  ASSUME IInv, NEW w \in Wait, NEW b \in BOOLEAN
  PROVE  Sent(w, b) \in WaitState /\ WaitSound(w, Sent(w, b))
<1>1. wait[w] \in WaitState /\ WaitSound(w, wait[w])
  BY DEF IInv, TypeOK, WaitInv
<1>2. Sent(w, b) \in WaitState
  BY <1>1 DEF Sent, WaitState, WaitStage
<1>3. Sent(w, b).at \in {"failed", "arrive", "look"} /\ Sent(w, b).outcome = wait[w].outcome
  BY <1>1 DEF Sent, WaitState
<1> QED
  BY <1>1, <1>2, <1>3 DEF WaitSound

(* An answer says gone without the deadline only of what was looked for.   *)
LEMMA AnswerSound ==
  ASSUME IInv, NEW w \in Wait, NEW s \in Status \cup {"gone"}, NEW timed \in BOOLEAN,
         s = "gone" /\ ~timed /\ w \in Waiter => bound
  PROVE  Answer(w, s, timed) \in WaitState /\ WaitSound(w, Answer(w, s, timed))
<1>1. wait[w] \in WaitState /\ WaitSound(w, wait[w])
  BY DEF IInv, TypeOK, WaitInv
<1>2. Answer(w, s, timed) \in WaitState
  BY <1>1 DEF Answer, WaitState, WaitStage
<1>3. /\ Answer(w, s, timed).at = "answered" /\ Answer(w, s, timed).outcome = wait[w].outcome
      /\ Answer(w, s, timed).status = s /\ Answer(w, s, timed).timed = timed
  BY <1>1 DEF Answer, WaitState
<1> QED
  BY <1>1, <1>2, <1>3 DEF WaitSound

LEMMA VerdictSound ==
  ASSUME IInv, NEW w \in Wait, NEW s \in Status, NEW b \in BOOLEAN,
         b /\ w \in Waiter => bound
  PROVE  Verdict(w, s, b) \in WaitState /\ WaitSound(w, Verdict(w, s, b))
<1>1. wait[w] \in WaitState /\ WaitSound(w, wait[w])
  BY DEF IInv, TypeOK, WaitInv
<1>2. s # "gone" /\ "gone" \in Status \cup {"gone"} /\ s \in Status \cup {"gone"}
  BY DEF Status
<1>3. CASE wait[w].last
  <2>1. (IF s = "none" THEN "gone" ELSE s) \in Status \cup {"gone"}
    BY <1>2
  <2>2. Verdict(w, s, b) = Answer(w, IF s = "none" THEN "gone" ELSE s, TRUE)
    BY <1>3 DEF Verdict
  <2> QED
    BY <2>1, <2>2, AnswerSound
<1>4. CASE ~wait[w].last /\ b /\ s = "none"
  <2>1. Verdict(w, s, b) = Answer(w, "gone", FALSE)
    BY <1>4 DEF Verdict
  <2> QED
    BY <1>2, <1>4, <2>1, AnswerSound
<1>5. CASE ~wait[w].last /\ ~(b /\ s = "none") /\ s \in Terminal \cup {"waiting"}
  <2>1. Verdict(w, s, b) = Answer(w, s, FALSE)
    BY <1>5 DEF Verdict
  <2> QED
    BY <1>2, <2>1, AnswerSound
<1>6. CASE ~wait[w].last /\ ~(b /\ s = "none") /\ s \notin Terminal \cup {"waiting"}
  <2>1. Verdict(w, s, b) = [wait[w] EXCEPT !.at = "look", !.first = FALSE]
    BY <1>6 DEF Verdict
  <2>2. Verdict(w, s, b) \in WaitState
    BY <1>1, <2>1 DEF WaitState, WaitStage
  <2>3. Verdict(w, s, b).at = "look" /\ Verdict(w, s, b).outcome = wait[w].outcome
    BY <1>1, <2>1 DEF WaitState
  <2> QED
    BY <1>1, <2>2, <2>3 DEF WaitSound
<1> QED
  BY <1>3, <1>4, <1>5, <1>6

(* Any place but the rollout's and the answer's, everything else kept.     *)
LEMMA MovedSound ==
  ASSUME IInv, NEW w \in Wait, NEW at \in {"ready", "failed", "look"}
  PROVE  LET r == [wait[w] EXCEPT !.at = at] IN r \in WaitState /\ WaitSound(w, r)
<1> DEFINE r == [wait[w] EXCEPT !.at = at]
<1>1. wait[w] \in WaitState /\ WaitSound(w, wait[w])
  BY DEF IInv, TypeOK, WaitInv
<1>2. r \in WaitState
  BY <1>1, WaitFields DEF WaitStage
<1>3. r.at = at /\ r.outcome = wait[w].outcome
  BY <1>1 DEF WaitState
<1> QED
  BY <1>1, <1>2, <1>3 DEF WaitSound

LEMMA ServesKeeps ==
  ASSUME IInv, NEW w \in Wait, Serves(w)
  PROVE  IInv'
<1>1. wait[w] \in WaitState /\ WaitSound(w, wait[w]) /\ row \in Status /\ disk.status \in Status
  BY DEF IInv, TypeOK, WaitInv
<1>2. CASE w \in Waiter /\ LooksAtRow(w)
  <2>1. CASE row = "none" /\ bound
    <3> DEFINE r == [wait[w] EXCEPT !.at = "disk"]
    <3>1. r \in WaitState
      BY <1>1, WaitFields DEF WaitStage
    <3>2. WaitSound(w, r)
      BY <1>1, <2>1 DEF WaitSound, WaitState
    <3>3. Set(w, r) /\ UNCHANGED <<delegate, server, mu, follow, tidy, given, cut>>
      BY <1>2, <2>1 DEF LooksAtRow
    <3> HIDE DEF r
    <3> QED
      BY <3>1, <3>2, <3>3, WaitStepKeeps
  <2>2. CASE ~(row = "none" /\ bound)
    BY <1>1, <1>2, <2>2, VerdictSound, WaitStepKeeps DEF LooksAtRow
  <2> QED
    BY <2>1, <2>2
<1>3. CASE w \in Waiter /\ LooksAtDisk(w)
  <2>1. bound
    BY <1>1, <1>3 DEF LooksAtDisk, WaitSound
  <2> QED
    BY <1>1, <1>3, <2>1, VerdictSound, WaitStepKeeps DEF LooksAtDisk
<1>4. CASE w \in Watcher /\ FindsPane(w)
  BY <1>4, MovedSound, WaitStepKeeps DEF FindsPane
<1>5. CASE w \in Watcher /\ LooksAtPane(w)
  <2>1. w \notin Waiter
    BY <1>5, ErrandAssumption
  <2> QED
    BY <1>1, <1>5, <2>1, VerdictSound, WaitStepKeeps DEF LooksAtPane
<1>6. CASE DeadlineFires(w)
  <2> DEFINE r == [wait[w] EXCEPT !.last = TRUE]
  <2>1. r \in WaitState
    BY <1>1 DEF WaitState
  <2>2. WaitSound(w, r)
    BY <1>1, <1>6 DEF WaitSound, WaitState, DeadlineFires
  <2>3. Set(w, r) /\ UNCHANGED <<delegate, server, mu, follow, tidy, given, cut>>
    BY <1>6 DEF DeadlineFires
  <2> HIDE DEF r
  <2> QED
    BY <2>1, <2>2, <2>3, WaitStepKeeps
<1> QED
  BY <1>2, <1>3, <1>4, <1>5, <1>6 DEF Serves

(* What a client makes of an answer, and of the pane when none comes.      *)
LEMMA OutcomeSound ==
  ASSUME IInv, NEW w \in Wait, wait[w].at = "answered"
  PROVE  Outcome(w) \in WaitState /\ WaitSound(w, Outcome(w))
<1>1. wait[w] \in WaitState /\ WaitSound(w, wait[w])
  BY DEF IInv, TypeOK, WaitInv
<1>2. Ready(w) \in WaitState /\ WaitSound(w, Ready(w))
  BY ReadySound
<1> DEFINE pause == [Ready(w) EXCEPT !.at = "pause"]
<1>3. pause \in WaitState
  BY <1>2, WaitFields DEF WaitStage
<1>4. pause.at = "pause" /\ pause.outcome = "none"
  BY <1>2, ReadySound DEF WaitState
<1>5. WaitSound(w, pause)
  BY <1>4 DEF WaitSound
<1> {"finished", "error", "waiting", "session-dead", "timeout"} \subseteq WaitOutcome
  BY DEF WaitOutcome
<1>6. Ended(w, "finished") \in WaitState /\ WaitSound(w, Ended(w, "finished"))
  BY EndedSound
<1>7. Ended(w, "error") \in WaitState /\ WaitSound(w, Ended(w, "error"))
  BY EndedSound
<1>8. ASSUME wait[w].status = "gone", ~(wait[w].timed /\ w \in Waiter)
      PROVE  Ended(w, "session-dead") \in WaitState /\ WaitSound(w, Ended(w, "session-dead"))
  BY <1>1, <1>8, EndedSound DEF WaitSound
<1>9. \/ Outcome(w) = Ended(w, "finished")
      \/ Outcome(w) = Ended(w, "error")
      \/ Outcome(w) = Ready(w)
      \/ Outcome(w) = pause
      \/ /\ Outcome(w) = Ended(w, "session-dead")
         /\ wait[w].status = "gone" /\ ~(wait[w].timed /\ w \in Waiter)
  BY DEF Outcome
<1> HIDE DEF pause
<1> QED
  BY <1>2, <1>3, <1>5, <1>6, <1>7, <1>8, <1>9

LEMMA ConfirmedSound ==
  ASSUME IInv, NEW w \in Wait
  PROVE  Confirmed(w) \in WaitState /\ WaitSound(w, Confirmed(w))
  BY EndedSound, ReadySound DEF Confirmed, WaitOutcome

LEMMA FallbackSound ==
  ASSUME IInv, NEW v \in Watcher, NEW screen \in Screens(v), Fallback(v, screen)
  PROVE  IInv'
<1> v \in Wait /\ v \notin Waiter
  BY ErrandAssumption DEF Wait
<1>1. Ready(v) \in WaitState
  BY ReadySound
<1>2. wait[v] \in WaitState
  BY DEF IInv, TypeOK
<1>3. Ready(v).quiet = wait[v].quiet /\ Ready(v).unreadable = wait[v].unreadable
  BY DEF Ready, NewWait
<1>4. wait[v].quiet \in 0 .. 2 /\ wait[v].unreadable \in 0 .. 2
  BY <1>2 DEF WaitState
<1>5. \A o \in {"finished", "error", "waiting", "timeout"} : Ended(v, o) \in WaitState
  BY EndedSound DEF WaitOutcome
<1> 0 \in 0 .. 2
  OBVIOUS
<1>6. Unreadable(v) \in WaitState
  <2>1. CASE wait[v].unreadable = 2
    BY <1>5, <2>1 DEF Unreadable
  <2>2. CASE wait[v].unreadable # 2
    <3>1. wait[v].unreadable + 1 \in 0 .. 2
      BY <1>4, <2>2
    <3>2. [Ready(v) EXCEPT !.unreadable = wait[v].unreadable + 1] \in WaitState
      BY <1>1, <3>1, WaitFields
    <3> QED
      BY <1>1, <1>3, <2>2, <3>2 DEF Unreadable
  <2> QED
    BY <2>1, <2>2
<1>7. Quiet(v) \in WaitState
  <2>1. CASE wait[v].quiet = 2
    BY <1>5, <2>1 DEF Quiet
  <2>2. CASE wait[v].quiet # 2
    <3>1. wait[v].quiet + 1 \in 0 .. 2
      BY <1>4, <2>2
    <3>2. [Ready(v) EXCEPT !.unreadable = 0, !.quiet = wait[v].quiet + 1] \in WaitState
      BY <1>1, <3>1, WaitFields
    <3>3. Quiet(v) = [Ready(v) EXCEPT !.unreadable = 0, !.quiet = wait[v].quiet + 1]
      BY <1>3, <2>2 DEF Quiet
    <3> QED
      BY <3>2, <3>3
  <2> QED
    BY <2>1, <2>2
<1>8. [Ready(v) EXCEPT !.quiet = 0] \in WaitState
  BY <1>1, WaitFields
<1>9. [Ready(v) EXCEPT !.seen = TRUE, !.unreadable = 0, !.quiet = 0] \in WaitState
  BY <1>1, WaitFields
<1>10. PICK r \in WaitState : Set(v, r)
  BY <1>1, <1>5, <1>6, <1>7, <1>8, <1>9 DEF Fallback
<1>11. UNCHANGED <<delegate, server, mu, follow, tidy, given, cut>>
  BY DEF Fallback
<1>12. WaitSound(v, r)
  BY DEF WaitSound
<1> QED
  BY <1>10, <1>11, <1>12, WaitStepKeeps

LEMMA WaitsKeeps ==
  ASSUME IInv, NEW w \in Wait, Waits(w) \/ StartWait(w)
  PROVE  IInv'
<1>1. wait[w] \in WaitState /\ WaitSound(w, wait[w])
  BY DEF IInv, TypeOK, WaitInv
<1>2. CASE StartWait(w)
  BY <1>2, MovedSound, WaitStepKeeps DEF StartWait
<1>3. CASE PollWait(w)
  <2>1. CASE Spent(w)
    BY <1>3, <2>1, EndedSound, WaitStepKeeps DEF PollWait, WaitOutcome
  <2>2. CASE ~Spent(w) /\ w \in Watcher /\ agent.at = "gone"
    <3>1. w \notin Waiter
      BY <2>2, ErrandAssumption
    <3> QED
      BY <1>3, <2>2, <3>1, EndedSound, WaitStepKeeps DEF PollWait, WaitOutcome
  <2>3. CASE ~Spent(w) /\ ~(w \in Watcher /\ agent.at = "gone")
    <3> DEFINE r == [Sent(w, FALSE) EXCEPT !.left = @ - 1]
    <3>1. Sent(w, FALSE) \in WaitState /\ WaitSound(w, Sent(w, FALSE))
      BY SentSound
    <3>2. Sent(w, FALSE).left = wait[w].left /\ Sent(w, FALSE).at \in {"failed", "arrive", "look"}
      BY <1>1 DEF Sent, WaitState
    <3>3. wait[w].left - 1 \in 0 .. MaxPolls
      BY <1>1, <2>3, ErrandAssumption DEF WaitState, Spent
    <3>4. r \in WaitState
      BY <3>1, <3>2, <3>3, WaitFields
    <3>5. r.at \in {"failed", "arrive", "look"} /\ r.outcome = Sent(w, FALSE).outcome
      BY <3>1, <3>2 DEF WaitState
    <3>6. WaitSound(w, r)
      BY <3>1, <3>5 DEF WaitSound
    <3>7. Set(w, r) /\ UNCHANGED <<delegate, server, mu, follow, tidy, given, cut>>
      BY <1>3, <2>3 DEF PollWait
    <3> HIDE DEF r
    <3> QED
      BY <3>4, <3>6, <3>7, WaitStepKeeps
  <2> QED
    BY <2>1, <2>2, <2>3
<1>4. CASE ConfirmWait(w)
  BY <1>4, SentSound, WaitStepKeeps DEF ConfirmWait
<1>5. CASE ReceiveWait(w)
  BY <1>5, OutcomeSound, ConfirmedSound, WaitStepKeeps DEF ReceiveWait
<1>6. CASE Backoff(w)
  BY <1>6, ReadySound, WaitStepKeeps DEF Backoff
<1>7. CASE w \in Watcher /\ \E screen \in Screens(w) : Fallback(w, screen)
  BY <1>7, FallbackSound
<1> QED
  BY <1>2, <1>3, <1>4, <1>5, <1>6, <1>7 DEF Waits

-----------------------------------------------------------------------------
(* Follow-ups                                                              *)

LEMMA FollowStepKeeps ==
  ASSUME IInv, NEW f \in Follower, NEW r \in FollowupState, FollowSound(f, r), SetF(f, r),
         mu' \in Follower \cup {Nobody},
         UNCHANGED <<delegate, server, wait, tidy, given, cut>>
  PROVE  IInv'
<1>1. /\ follow' = [follow EXCEPT ![f] = r]
      /\ UNCHANGED <<agent, disk, row, bound, shown, up, wait, tidy, given, cut>>
  BY DEF SetF, delegate, server
<1>2. TypeOK'
  BY <1>1 DEF IInv, TypeOK
<1>3. TurnInv' /\ WaitInv' /\ SweepInv' /\ NoShownTurnCut'
  BY <1>1 DEF IInv, TurnInv, WaitInv, WaitSound, NotSeen, SweepInv, NoShownTurnCut
<1>4. FollowInv'
  <2> SUFFICES ASSUME NEW g \in Follower PROVE FollowSound(g, follow[g])'
    BY DEF FollowInv
  <2>1. follow'[g] = IF g = f THEN r ELSE follow[g]
    BY <1>1 DEF IInv, TypeOK
  <2>2. FollowSound(g, follow[g])
    BY DEF IInv, FollowInv
  <2> QED
    BY <1>1, <2>1, <2>2 DEF FollowSound, NotSeen
<1> QED
  BY <1>2, <1>3, <1>4 DEF IInv

(* What a handler answers, and where a client ends.                        *)
LEMMA RepliedType ==
  ASSUME IInv, NEW f \in Follower, NEW code \in HTTPCode
  PROVE  Replied(f, code) \in FollowupState
<1>1. follow[f] \in FollowupState
  BY DEF IInv, TypeOK
<1>2. PICK n \in 0 .. MaxTurns : n = 0
  BY ErrandAssumption
<1>3. "replied" \in FollowupStage
  BY DEF FollowupStage
<1>4. [follow[f] EXCEPT !.at = "replied", !.code = code, !.seen = n] \in FollowupState
  BY <1>1, <1>3, FollowupFields
<1> QED
  BY <1>2, <1>4 DEF Replied

LEMMA RepliedSound ==
  ASSUME IInv, NEW f \in Follower, NEW code \in {404, 409, 500},
         follow[f].at \in AtServer
  PROVE  Replied(f, code) \in FollowupState /\ FollowSound(f, Replied(f, code))
<1>1. follow[f] \in FollowupState /\ FollowSound(f, follow[f])
  BY DEF IInv, TypeOK, FollowInv
<1>2. Replied(f, code) \in FollowupState
  BY RepliedType DEF HTTPCode
<1>3. /\ Replied(f, code).at = "replied" /\ Replied(f, code).again = follow[f].again
      /\ Replied(f, code).outcome = follow[f].outcome
  BY <1>1 DEF Replied, FollowupState
<1> QED
  BY <1>1, <1>2, <1>3 DEF FollowSound, AtServer

LEMMA EndedFSound ==
  ASSUME NEW f \in Follower, NEW o \in {"refused-409", "error", "delivered", "delivery-unverified"},
         o = "refused-409" => given[f] = {}
  PROVE  EndedF(f, o) \in FollowupState /\ FollowSound(f, EndedF(f, o))
<1>1. EndedF(f, o) \in FollowupState
  BY NewRecords, FollowupFields DEF EndedF, FollowupStage, FollowupOutcome
<1>2. EndedF(f, o).at = "ended" /\ EndedF(f, o).outcome = o
  BY DEF EndedF, NewFollowup
<1> QED
  BY <1>1, <1>2 DEF FollowSound, AtServer

LEMMA GrepsSound ==
  ASSUME IInv, NEW f \in Follower, NEW at \in {"grep", "last grep"}, NEW file \in File \cup {NoFile}
  PROVE  Greps(f, at, file) \in FollowupState /\ FollowSound(f, Greps(f, at, file))
<1>1. follow[f].again \in BOOLEAN
  BY DEF FollowupState, IInv, TypeOK
<1>2. Greps(f, at, file) \in FollowupState
  BY <1>1, NewRecords, FollowupFields DEF Greps, FollowupStage
<1>3. Greps(f, at, file).at = at /\ Greps(f, at, file).outcome = "none"
  BY DEF Greps, NewFollowup
<1> QED
  BY <1>2, <1>3 DEF FollowSound, AtServer

(* A look that finds the delegate free: whatever the server has shown of   *)
(* it is over.                                                             *)
LEMMA FreeTarget ==
  ASSUME IInv, Target \notin {"none", "running", "waiting"}
  PROVE  shown \in 0 .. MaxTurns /\ NotSeen(shown)
<1>1. shown \in 0 .. MaxTurns /\ agent.turn \in 0 .. MaxTurns /\ TurnInv
  BY DEF IInv, TypeOK
<1>2. agent.at \in Working => agent.turn # shown
  BY <1>1 DEF TurnInv, Target
<1> QED
  BY <1>1, <1>2, ErrandAssumption DEF TurnInv, NotSeen

LEMMA RefusalCodes ==
  /\ Refusal \in {0, 404, 409, 500} /\ SecondRefusal \in {0, 404, 409}
  /\ SecondRefusal = 0 => Target \notin {"none", "running", "waiting"}
<1>1. Refusal \in {0, 404, 409, 500}
  BY DEF Refusal
<1>2. Refusal = 0 => Target \notin {"none", "running", "waiting"}
  BY DEF Refusal
<1> QED
  BY <1>1, <1>2 DEF SecondRefusal

(* The answer to a respawn that took.                                      *)
LEMMA RespawnKeeps ==
  ASSUME IInv, NEW f \in Follower, RespawnPane(f)
  PROVE  IInv'
<1>1. /\ follow[f] \in FollowupState /\ FollowSound(f, follow[f]) /\ follow[f].at = "respawn"
      /\ mu' = Nobody /\ UNCHANGED <<disk, row, bound, shown, up, wait, tidy>>
  BY DEF RespawnPane, IInv, TypeOK, FollowInv, server
<1>2. CASE agent.at = "gone"
  <2>1. SetF(f, Replied(f, 500)) /\ UNCHANGED <<delegate, server, wait, tidy, given, cut>>
    BY <1>2 DEF RespawnPane, delegate, server
  <2>2. follow[f].at \in AtServer
    BY <1>1 DEF AtServer
  <2>3. Replied(f, 500) \in FollowupState /\ FollowSound(f, Replied(f, 500))
    BY <2>2, RepliedSound
  <2> QED
    BY <1>1, <2>1, <2>3, FollowStepKeeps
<1>3. CASE agent.at # "gone"
  <2>1. /\ follow' = [follow EXCEPT ![f] = Replied(f, 200)]
        /\ agent' = [agent EXCEPT !.at = "booting", !.file = FileOf(f)]
        /\ given' = [given EXCEPT ![f] = @ \cup {FileOf(f)}]
        /\ Cuts(follow[f].seen)
    BY <1>3 DEF RespawnPane, SetF
  <2>2. /\ agent \in [at : {"booting", "working", "approval", "idle", "gone"},
                      file : File \cup {NoFile}, turn : 0 .. MaxTurns]
        /\ FileOf(f) \in File /\ given \in [Follower -> SUBSET File]
    BY <1>1 DEF IInv, TypeOK, FileOf, File, FollowupState
  <2>3. agent'.at = "booting" /\ agent'.turn = agent.turn
    BY <2>1, <2>2
  <2>4. cut' = cut
    <3>1. NotSeen(follow[f].seen)
      BY <1>1 DEF FollowSound
    <3>2. agent.turn \in 0 .. MaxTurns /\ follow[f].seen \in 0 .. MaxTurns
      BY <1>1, <2>2 DEF FollowupState
    <3>3. ~(agent.at \in Working /\ agent.turn <= follow[f].seen)
      BY <3>1, <3>2, ErrandAssumption DEF NotSeen
    <3> QED
      BY <2>1, <3>3 DEF Cuts, IInv, NoShownTurnCut, TypeOK
  <2>5. Replied(f, 200) \in FollowupState
    BY RepliedType DEF HTTPCode
  <2>6. TypeOK'
    <3>1. agent' \in [at : {"booting", "working", "approval", "idle", "gone"},
                      file : File \cup {NoFile}, turn : 0 .. MaxTurns]
      BY <2>1, <2>2
    <3>2. given' \in [Follower -> SUBSET File]
      BY <2>1, <2>2
    <3>3. follow' \in [Follower -> FollowupState]
      BY <2>1, <2>5 DEF IInv, TypeOK
    <3> QED
      BY <1>1, <2>4, <3>1, <3>2, <3>3 DEF IInv, TypeOK
  <2>7. agent'.at \notin Working
    BY <2>3 DEF Working
  <2>8. ASSUME NEW n, NotSeen(n) PROVE NotSeen(n)'
    BY <2>3, <2>7, <2>8 DEF NotSeen
  <2>9. TurnInv' /\ WaitInv' /\ NoShownTurnCut'
    BY <1>1, <2>3, <2>4, <2>7 DEF IInv, TurnInv, WaitInv, WaitSound, NoShownTurnCut
  <2>10. SweepInv'
    BY <1>1, <2>3, <2>7 DEF IInv, SweepInv, NotSeen
  <2>11. FollowInv'
    <3> SUFFICES ASSUME NEW g \in Follower PROVE FollowSound(g, follow[g])'
      BY DEF FollowInv
    <3>1. CASE g = f
      <4>1. follow'[g] = Replied(f, 200)
        BY <2>1, <3>1 DEF IInv, TypeOK
      <4>2. /\ Replied(f, 200).at = "replied" /\ Replied(f, 200).code = 200
            /\ Replied(f, 200).outcome = follow[f].outcome
        BY <1>1 DEF Replied, FollowupState
      <4>3. follow[f].outcome = "none"
        BY <1>1 DEF FollowSound
      <4> QED
        BY <4>1, <4>2, <4>3 DEF FollowSound, AtServer
    <3>2. CASE g # f
      <4>1. follow'[g] = follow[g] /\ given'[g] = given[g] /\ FollowSound(g, follow[g])
        BY <2>1, <3>2 DEF IInv, TypeOK, FollowInv
      <4> QED
        BY <2>3, <2>7, <4>1 DEF FollowSound, NotSeen
    <3> QED
      BY <3>1, <3>2
  <2> QED
    BY <2>6, <2>9, <2>10, <2>11 DEF IInv
<1> QED
  BY <1>2, <1>3

(* A follow-up goes from one stage to another, all else kept.              *)
LEMMA StageKeeps ==
  ASSUME IInv, NEW f \in Follower, NEW at \in FollowupStage \ {"replied", "ended", "respawn", "retry"},
         at \in AtServer => follow[f].at \in AtServer \/ follow[f].at = "retry",
         follow[f].at # "ended",
         SetF(f, [follow[f] EXCEPT !.at = at]), mu' \in Follower \cup {Nobody},
         UNCHANGED <<delegate, server, wait, tidy, given, cut>>
  PROVE  IInv'
<1> DEFINE r == [follow[f] EXCEPT !.at = at]
<1>1. follow[f] \in FollowupState /\ FollowSound(f, follow[f])
  BY DEF IInv, TypeOK, FollowInv
<1>2. r \in FollowupState
  BY <1>1, FollowupFields
<1>3. r.at = at /\ r.again = follow[f].again /\ r.outcome = follow[f].outcome
  BY <1>1 DEF FollowupState
<1>4. FollowSound(f, r)
  BY <1>1, <1>3 DEF FollowSound
<1> HIDE DEF r
<1>5. SetF(f, r)
  BY DEF r
<1> QED
  BY <1>2, <1>4, <1>5, FollowStepKeeps

LEMMA FollowsKeeps ==
  ASSUME IInv, NEW f \in Follower, Follows(f)
  PROVE  IInv'
<1>1. follow[f] \in FollowupState /\ FollowSound(f, follow[f]) /\ mu \in Follower \cup {Nobody}
  BY DEF IInv, TypeOK, FollowInv
<1>2. CASE PostFollowup(f)
  BY <1>1, <1>2, StageKeeps DEF PostFollowup, FollowupStage, AtServer
<1>3. CASE FollowupLocks(f)
  BY <1>3, StageKeeps DEF FollowupLocks, FollowupStage, AtServer
<1>4. CASE FirstLook(f)
  <2>1. CASE Refusal # 0
    <3>1. Refusal \in {404, 409, 500}
      BY <2>1, RefusalCodes
    <3>2. follow[f].at \in AtServer
      BY <1>4 DEF FirstLook, AtServer
    <3>3. Replied(f, Refusal) \in FollowupState /\ FollowSound(f, Replied(f, Refusal))
      BY <3>1, <3>2, RepliedSound
    <3>4. /\ SetF(f, Replied(f, Refusal)) /\ mu' = Nobody
          /\ UNCHANGED <<delegate, server, wait, tidy, given, cut>>
      BY <1>4, <2>1 DEF FirstLook, Refuses
    <3> QED
      BY <3>3, <3>4, FollowStepKeeps
  <2>2. CASE Refusal = 0
    BY <1>1, <1>4, <2>2, StageKeeps DEF FirstLook, FollowupStage, AtServer
  <2> QED
    BY <2>1, <2>2
<1>5. CASE WriteMessage(f)
  BY <1>1, <1>5, StageKeeps DEF WriteMessage, FollowupStage, AtServer
<1>6. CASE SecondLook(f)
  <2>1. CASE SecondRefusal # 0
    <3>1. SecondRefusal \in {404, 409, 500}
      BY <2>1, RefusalCodes
    <3>2. follow[f].at \in AtServer
      BY <1>6 DEF SecondLook, AtServer
    <3>3. Replied(f, SecondRefusal) \in FollowupState /\ FollowSound(f, Replied(f, SecondRefusal))
      BY <3>1, <3>2, RepliedSound
    <3>4. /\ SetF(f, Replied(f, SecondRefusal)) /\ mu' = Nobody
          /\ UNCHANGED <<delegate, server, wait, tidy, given, cut>>
      BY <1>6, <2>1 DEF SecondLook, Refuses
    <3> QED
      BY <3>3, <3>4, FollowStepKeeps
  <2>2. CASE SecondRefusal = 0
    <3> DEFINE r == [follow[f] EXCEPT !.at = "respawn", !.seen = shown]
    <3>1. shown \in 0 .. MaxTurns /\ NotSeen(shown)
      BY <2>2, RefusalCodes, FreeTarget
    <3>2. r \in FollowupState
      BY <1>1, <3>1, FollowupFields DEF FollowupStage
    <3>3. r.at = "respawn" /\ r.seen = shown /\ r.again = follow[f].again /\ r.outcome = follow[f].outcome
      BY <1>1 DEF FollowupState
    <3>4. FollowSound(f, r)
      BY <1>1, <1>6, <3>1, <3>3 DEF FollowSound, SecondLook, AtServer
    <3>5. SetF(f, r) /\ mu' = mu /\ UNCHANGED <<delegate, server, wait, tidy, given, cut>>
      BY <1>6, <2>2 DEF SecondLook
    <3> HIDE DEF r
    <3> QED
      BY <1>1, <3>2, <3>4, <3>5, FollowStepKeeps
  <2> QED
    BY <2>1, <2>2
<1>7. CASE RespawnPane(f)
  BY <1>7, RespawnKeeps
<1>8. CASE ReceiveFollowup(f)
  <2>1. Received(f) \in FollowupState /\ FollowSound(f, Received(f))
    <3>1. FileOf(f) \in File \cup {NoFile} /\ follow[f].file \in File \cup {NoFile}
      BY <1>1 DEF FileOf, File, FollowupState
    <3>2. CASE follow[f].again
      <4>1. (IF follow[f].code = 200 THEN FileOf(f) ELSE follow[f].file) \in File \cup {NoFile}
        BY <3>1
      <4>2. Received(f) = Greps(f, "last grep", IF follow[f].code = 200 THEN FileOf(f) ELSE follow[f].file)
        BY <3>2 DEF Received
      <4> QED
        BY <4>1, <4>2, GrepsSound
    <3>3. CASE ~follow[f].again /\ follow[f].code = 409
      <4>1. given[f] = {}
        BY <1>1, <1>8, <3>3 DEF FollowSound, ReceiveFollowup
      <4>2. Received(f) = EndedF(f, "refused-409")
        BY <3>3 DEF Received
      <4> QED
        BY <4>1, <4>2, EndedFSound
    <3>4. CASE ~follow[f].again /\ follow[f].code # 409 /\ follow[f].code # 200
      <4>1. Received(f) = EndedF(f, "error")
        BY <3>4 DEF Received
      <4> QED
        BY <4>1, EndedFSound
    <3>5. CASE ~follow[f].again /\ follow[f].code = 200
      <4>1. Received(f) = Greps(f, "grep", FileOf(f))
        BY <3>5 DEF Received
      <4> QED
        BY <3>1, <4>1, GrepsSound
    <3> QED
      BY <3>2, <3>3, <3>4, <3>5
  <2> QED
    BY <1>1, <1>8, <2>1, FollowStepKeeps DEF ReceiveFollowup
<1>9. CASE FollowupFails(f)
  <2>1. CASE follow[f].again
    BY <1>1, <1>9, <2>1, StageKeeps DEF FollowupFails, FollowupStage, AtServer
  <2>2. CASE ~follow[f].again
    BY <1>1, <1>9, <2>2, EndedFSound, FollowStepKeeps DEF FollowupFails
  <2> QED
    BY <2>1, <2>2
<1>10. CASE Grep(f)
  <2>1. CASE follow[f].file \in disk.read
    BY <1>1, <1>10, <2>1, EndedFSound, FollowStepKeeps DEF Grep
  <2>2. CASE follow[f].file \notin disk.read /\ follow[f].at = "grep"
    BY <1>1, <1>10, <2>2, StageKeeps DEF Grep, FollowupStage, AtServer
  <2>3. CASE follow[f].file \notin disk.read /\ follow[f].at = "grep again"
    <3> DEFINE r == [follow[f] EXCEPT !.at = "retry", !.again = TRUE]
    <3>1. r \in FollowupState
      BY <1>1, FollowupFields DEF FollowupStage
    <3>2. r.at = "retry" /\ r.again /\ r.outcome = follow[f].outcome
      BY <1>1 DEF FollowupState
    <3>3. FollowSound(f, r)
      BY <1>1, <2>3, <3>2 DEF FollowSound
    <3>4. SetF(f, r) /\ mu' = mu /\ UNCHANGED <<delegate, server, wait, tidy, given, cut>>
      BY <1>10, <2>3 DEF Grep
    <3> HIDE DEF r
    <3> QED
      BY <1>1, <3>1, <3>3, <3>4, FollowStepKeeps
  <2>4. CASE follow[f].file \notin disk.read /\ follow[f].at = "last grep"
    BY <1>1, <1>10, <2>4, EndedFSound, FollowStepKeeps DEF Grep
  <2> QED
    BY <1>10, <2>1, <2>2, <2>3, <2>4 DEF Grep
<1> QED
  BY <1>2, <1>3, <1>4, <1>5, <1>6, <1>7, <1>8, <1>9, <1>10 DEF Follows

-----------------------------------------------------------------------------
(* Sweeps, and the server                                                  *)

LEMMA SweepFields ==
  ASSUME NEW r \in SweepState
  PROVE  /\ \A n \in 0 .. MaxTurns : [r EXCEPT !.at = "kill", !.seen = n] \in SweepState
         /\ [r EXCEPT !.at = "kill", !.seen = shown].at = "kill"
         /\ [r EXCEPT !.at = "kill", !.seen = shown].seen = shown
         /\ \A at \in {"ended", "result"} :
              [r EXCEPT !.at = at] \in SweepState /\ [r EXCEPT !.at = at].at = at
         /\ [r EXCEPT !.at = "ended", !.outcome = "skip"] \in SweepState
         /\ [r EXCEPT !.at = "ended", !.outcome = "skip"].at = "ended"
<1>1. \A n \in 0 .. MaxTurns : [r EXCEPT !.at = "kill", !.seen = n] \in SweepState
  BY DEF SweepState
<1>2. \A at \in {"ended", "result"} : [r EXCEPT !.at = at] \in SweepState /\ [r EXCEPT !.at = at].at = at
  BY DEF SweepState
<1>3. /\ [r EXCEPT !.at = "ended", !.outcome = "skip"] \in SweepState
      /\ [r EXCEPT !.at = "ended", !.outcome = "skip"].at = "ended"
  BY DEF SweepState
<1>4. /\ [r EXCEPT !.at = "kill", !.seen = shown].at = "kill"
      /\ [r EXCEPT !.at = "kill", !.seen = shown].seen = shown
  BY DEF SweepState
<1> QED
  BY <1>1, <1>2, <1>3, <1>4

LEMMA SweepStepKeeps ==
  ASSUME IInv, NEW t \in Tidier, NEW r \in SweepState, r.at = "kill" => NotSeen(r.seen), SetT(t, r),
         UNCHANGED <<delegate, server, mu, wait, follow, given, cut>>
  PROVE  IInv'
<1>1. /\ tidy' = [tidy EXCEPT ![t] = r]
      /\ UNCHANGED <<agent, disk, row, bound, shown, up, mu, wait, follow, given, cut>>
  BY DEF SetT, delegate, server
<1>2. TypeOK'
  BY <1>1 DEF IInv, TypeOK
<1>3. TurnInv' /\ WaitInv' /\ FollowInv' /\ NoShownTurnCut'
  BY <1>1 DEF IInv, TurnInv, WaitInv, WaitSound, FollowInv, FollowSound, NotSeen, NoShownTurnCut
<1>4. SweepInv'
  <2> SUFFICES ASSUME NEW u \in Tidier, tidy'[u].at = "kill" PROVE NotSeen(tidy[u].seen)'
    BY DEF SweepInv
  <2>1. tidy'[u] = IF u = t THEN r ELSE tidy[u]
    BY <1>1 DEF IInv, TypeOK
  <2> QED
    BY <1>1, <2>1 DEF IInv, SweepInv, NotSeen
<1> QED
  BY <1>2, <1>3, <1>4 DEF IInv

LEMMA TidiesKeeps ==
  ASSUME IInv, NEW t \in Tidier, Tidies(t)
  PROVE  IInv'
<1>1. tidy[t] \in SweepState
  BY DEF IInv, TypeOK
<1>2. CASE StartTidy(t)
  <2>1. PICK at \in {"ended", "result"} : SetT(t, [tidy[t] EXCEPT !.at = at])
    BY <1>2 DEF StartTidy
  <2>2. UNCHANGED <<delegate, server, mu, wait, follow, given, cut>>
    BY <1>2 DEF StartTidy
  <2>3. [tidy[t] EXCEPT !.at = at] \in SweepState /\ [tidy[t] EXCEPT !.at = at].at = at
    BY <1>1, SweepFields
  <2> QED
    BY <2>1, <2>2, <2>3, SweepStepKeeps
<1>3. CASE Classify(t)
  <2>1. CASE up /\ Closeable(Target)
    <3>1. Target \notin {"none", "running", "waiting"}
      BY <2>1 DEF Closeable, Terminal
    <3>2. shown \in 0 .. MaxTurns /\ NotSeen(shown)
      BY <3>1, FreeTarget
    <3> DEFINE r == [tidy[t] EXCEPT !.at = "kill", !.seen = shown]
    <3>3. r \in SweepState /\ r.seen = shown
      BY <1>1, <3>2, SweepFields
    <3>4. SetT(t, r) /\ UNCHANGED <<delegate, server, mu, wait, follow, given, cut>>
      BY <1>3, <2>1 DEF Classify
    <3> HIDE DEF r
    <3> QED
      BY <3>2, <3>3, <3>4, SweepStepKeeps
  <2>2. CASE ~(up /\ Closeable(Target))
    <3> DEFINE r == [tidy[t] EXCEPT !.at = "ended", !.outcome = "skip"]
    <3>1. r \in SweepState /\ r.at = "ended"
      BY <1>1, SweepFields
    <3>2. SetT(t, r) /\ UNCHANGED <<delegate, server, mu, wait, follow, given, cut>>
      BY <1>3, <2>2 DEF Classify
    <3> HIDE DEF r
    <3> QED
      BY <3>1, <3>2, SweepStepKeeps
  <2> QED
    BY <2>1, <2>2
<1>4. CASE KillWindow(t)
  <2> DEFINE o == IF agent.at = "gone" THEN "gone" ELSE "closed"
             r == [tidy[t] EXCEPT !.at = "ended", !.seen = 0, !.outcome = o]
  <2>1. /\ tidy' = [tidy EXCEPT ![t] = r] /\ agent' = [agent EXCEPT !.at = "gone"]
        /\ tidy[t].at = "kill" /\ Cuts(tidy[t].seen)
        /\ UNCHANGED <<disk, row, bound, shown, up, mu, wait, follow, given>>
    BY <1>4 DEF KillWindow, SetT, server
  <2>2. /\ agent \in [at : {"booting", "working", "approval", "idle", "gone"},
                      file : File \cup {NoFile}, turn : 0 .. MaxTurns]
        /\ tidy[t].seen \in 0 .. MaxTurns /\ NotSeen(tidy[t].seen)
    BY <1>1, <2>1 DEF IInv, TypeOK, SweepInv, SweepState
  <2>3. agent'.at = "gone" /\ agent'.turn = agent.turn /\ agent'.at \notin Working
    BY <2>1, <2>2 DEF Working
  <2>4. cut' = cut
    <3>1. ~(agent.at \in Working /\ agent.turn <= tidy[t].seen)
      BY <2>2, ErrandAssumption DEF NotSeen
    <3> QED
      BY <2>1, <3>1 DEF Cuts, IInv, NoShownTurnCut, TypeOK
  <2>5. r \in SweepState /\ r.at = "ended"
    <3>1. PICK n \in 0 .. MaxTurns : n = 0
      BY ErrandAssumption
    <3>2. o \in {"none", "skip", "gone", "closed"}
      OBVIOUS
    <3> HIDE DEF o
    <3>3. [tidy[t] EXCEPT !.at = "ended", !.seen = n, !.outcome = o] \in SweepState
      BY <1>1, <3>2 DEF SweepState
    <3>4. r.at = "ended"
      BY <1>1 DEF SweepState
    <3> QED
      BY <3>1, <3>3, <3>4
  <2> HIDE DEF r
  <2>6. TypeOK'
    <3>1. agent' \in [at : {"booting", "working", "approval", "idle", "gone"},
                      file : File \cup {NoFile}, turn : 0 .. MaxTurns]
      BY <2>1, <2>2
    <3>2. tidy' \in [Tidier -> SweepState]
      BY <2>1, <2>5 DEF IInv, TypeOK
    <3> QED
      BY <2>1, <2>4, <3>1, <3>2 DEF IInv, TypeOK
  <2>7. TurnInv' /\ WaitInv' /\ NoShownTurnCut'
    BY <2>1, <2>3, <2>4 DEF IInv, TurnInv, WaitInv, WaitSound, NoShownTurnCut
  <2>8. FollowInv'
    BY <2>1, <2>3 DEF IInv, FollowInv, FollowSound, NotSeen
  <2>9. SweepInv'
    <3> SUFFICES ASSUME NEW u \in Tidier, tidy'[u].at = "kill" PROVE NotSeen(tidy[u].seen)'
      BY DEF SweepInv
    <3>1. tidy'[u] = tidy[u] /\ tidy[u].at = "kill"
      BY <2>1, <2>5 DEF IInv, TypeOK
    <3> QED
      BY <2>3, <3>1 DEF IInv, SweepInv, NotSeen
  <2> QED
    BY <2>6, <2>7, <2>8, <2>9 DEF IInv
<1> QED
  BY <1>2, <1>3, <1>4 DEF Tidies

(* With the server go its rows, and what its handlers had to say.          *)
LEMMA CrashKeeps ==
  ASSUME IInv, Crash
  PROVE  IInv'
<1>1. /\ up' = FALSE /\ row' = "none" /\ mu' = Nobody
      /\ UNCHANGED <<agent, disk, bound, shown, tidy, given, cut>>
  BY DEF Crash, delegate
<1>2. ASSUME NEW w \in Wait
      PROVE  wait'[w] \in WaitState /\ WaitSound(w, wait[w])'
  <2>1. wait[w] \in WaitState /\ WaitSound(w, wait[w])
    BY DEF IInv, TypeOK, WaitInv
  <2> DEFINE r == [wait[w] EXCEPT !.at = "failed"]
  <2>2. r \in WaitState /\ r.at = "failed" /\ r.outcome = wait[w].outcome
    <3>1. r \in WaitState
      BY <2>1, WaitFields DEF WaitStage
    <3> QED
      BY <2>1, <3>1 DEF WaitState
  <2>3. wait'[w] \in {r, wait[w]}
    BY DEF Crash
  <2> HIDE DEF r
  <2> QED
    BY <1>1, <2>1, <2>2, <2>3 DEF WaitSound
<1>3. ASSUME NEW f \in Follower
      PROVE  follow'[f] \in FollowupState /\ FollowSound(f, follow[f])'
  <2>1. follow[f] \in FollowupState /\ FollowSound(f, follow[f])
    BY DEF IInv, TypeOK, FollowInv
  <2> DEFINE r == [follow[f] EXCEPT !.at = "failed", !.code = 0, !.seen = 0]
  <2>2. r \in FollowupState
    <3>1. PICK n \in 0 .. MaxTurns : n = 0
      BY ErrandAssumption
    <3>2. PICK c \in HTTPCode : c = 0
      BY DEF HTTPCode
    <3>3. [follow[f] EXCEPT !.at = "failed", !.code = c, !.seen = n] \in FollowupState
      BY <2>1, FollowupFields DEF FollowupStage
    <3> QED
      BY <3>1, <3>2, <3>3
  <2>3. r.at = "failed" /\ r.outcome = follow[f].outcome
    BY <2>1 DEF FollowupState
  <2>4. \/ follow'[f] = follow[f]
        \/ follow'[f] = r /\ follow[f].at # "ended"
    BY DEF Crash
  <2> HIDE DEF r
  <2> QED
    BY <1>1, <2>1, <2>2, <2>3, <2>4 DEF FollowSound, AtServer, NotSeen
<1>4. /\ wait' = [w \in Wait |-> wait'[w]]
      /\ follow' = [f \in Follower |-> follow'[f]]
  BY DEF Crash
<1>5. TypeOK'
  <2>1. wait' \in [Wait -> WaitState] /\ follow' \in [Follower -> FollowupState]
    BY <1>2, <1>3, <1>4
  <2> QED
    BY <1>1, <2>1 DEF IInv, TypeOK, Status
<1>6. TurnInv' /\ SweepInv' /\ NoShownTurnCut'
  BY <1>1 DEF IInv, TurnInv, SweepInv, NotSeen, NoShownTurnCut
<1>7. WaitInv' /\ FollowInv'
  BY <1>2, <1>3 DEF WaitInv, FollowInv
<1> QED
  BY <1>5, <1>6, <1>7 DEF IInv

(* A server that starts, and a step of nobody.                             *)
LEMMA QuietKeeps ==
  ASSUME IInv, Restart \/ UNCHANGED vars
  PROVE  IInv'
<1>1. /\ up' \in BOOLEAN
      /\ UNCHANGED <<agent, disk, row, bound, shown, mu, wait, follow, tidy, given, cut>>
  BY DEF Restart, vars, delegate, Others, IInv, TypeOK
<1>2. TypeOK'
  BY <1>1 DEF IInv, TypeOK
<1>3. TurnInv' /\ WaitInv' /\ NoShownTurnCut'
  BY <1>1 DEF IInv, TurnInv, WaitInv, WaitSound, NoShownTurnCut
<1>4. FollowInv' /\ SweepInv'
  BY <1>1 DEF IInv, FollowInv, FollowSound, SweepInv, NotSeen
<1> QED
  BY <1>2, <1>3, <1>4 DEF IInv

LEMMA StepKeeps == IInv /\ [Next]_vars => IInv'
<1> SUFFICES ASSUME IInv, [Next]_vars PROVE IInv'
  OBVIOUS
<1>1. CASE ReadsPrompt \/ UserPrompts \/ UserResumes \/ Approval \/ TurnEnds \/ AgentDies
  BY <1>1, DelegateKeeps
<1>2. CASE Observe
  BY <1>2, ObserveKeeps
<1>3. CASE \E w \in Wait : StartWait(w) \/ Serves(w) \/ Waits(w)
  BY <1>3, ServesKeeps, WaitsKeeps
<1>4. CASE \E f \in Follower : Follows(f)
  BY <1>4, FollowsKeeps
<1>5. CASE \E t \in Tidier : Tidies(t)
  BY <1>5, TidiesKeeps
<1>6. CASE Crash
  BY <1>6, CrashKeeps
<1>7. CASE Restart \/ UNCHANGED vars
  BY <1>7, QuietKeeps
<1> QED
  BY <1>1, <1>2, <1>3, <1>4, <1>5, <1>6, <1>7 DEF Next

-----------------------------------------------------------------------------
(* The delegate, the server and every command keep their types, through    *)
(* crashes and retries (cmd/tcm; wait.go, followup.go, result.go).         *)
THEOREM TypeCorrect == Spec => []TypeOK
<1>1. IInv => TypeOK
  BY DEF IInv
<1> QED
  BY <1>1, InitEstablishes, StepKeeps, PTL DEF Spec

(* However a wait by delegation is answered, at once, at the deadline or   *)
(* by another server, it reports none dead that has not begun              *)
(* (handleDelegationWait, watchDelegationToTerminal).                      *)
THEOREM DeadMeansBound == Spec => []UnboundNeverDead
<1>1. IInv => UnboundNeverDead
  BY DEF IInv, WaitInv, WaitSound, UnboundNeverDead, Wait
<1> QED
  BY <1>1, InitEstablishes, StepKeeps, PTL DEF Spec

(* However many follow-ups run and are tried again, one reported as        *)
(* refused has left the pane alone (deliverFollowup).                      *)
THEOREM RefusedIsHarmless == Spec => []RefusedLeftThePane
<1>1. IInv => RefusedLeftThePane
  BY DEF IInv, FollowInv, FollowSound, RefusedLeftThePane
<1> QED
  BY <1>1, InitEstablishes, StepKeeps, PTL DEF Spec

(* No respawn and no sweep ends a turn the server had shown under way      *)
(* before its last look, a crash of the server in between included         *)
(* (handleFollowup, tidyClose).                                            *)
THEOREM ShownTurnsLast == Spec => []NoShownTurnCut
<1>1. IInv => NoShownTurnCut
  BY DEF IInv
<1> QED
  BY <1>1, InitEstablishes, StepKeeps, PTL DEF Spec
=============================================================================
