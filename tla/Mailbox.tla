------------------------------- MODULE Mailbox -------------------------------
(***************************************************************************)
(* What a delegation's message log promises: the orchestrator is handed    *)
(* every note and ask of its delegate, all that are pending at once and    *)
(* each at most once; and an ask gets at most one answer, for good.        *)
(***************************************************************************)
CONSTANT Msg   \* message ids

VARIABLES
  box,      \* the delegate's messages: "absent", "posted" or "handed"
  answers   \* <<ask, answer>> pairs

Init == box = [m \in Msg |-> "absent"] /\ answers = {}

Post(m) ==
  /\ box[m] = "absent"
  /\ box' = [box EXCEPT ![m] = "posted"]
  /\ UNCHANGED answers

HandOver ==
  /\ box' = [m \in Msg |-> IF box[m] = "posted" THEN "handed" ELSE box[m]]
  /\ UNCHANGED answers

Answer(ask, m) ==
  /\ box[ask] # "absent"
  /\ \A p \in answers : p[1] # ask
  /\ answers' = answers \cup {<<ask, m>>}
  /\ UNCHANGED box

Next ==
  \/ \E m \in Msg : Post(m)
  \/ HandOver
  \/ \E ask, m \in Msg : Answer(ask, m)

Spec == Init /\ [][Next]_<<box, answers>>
=============================================================================
