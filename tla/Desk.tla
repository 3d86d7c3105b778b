-------------------------------- MODULE Desk --------------------------------
(***************************************************************************)
(* The session list of the sidebar: the state builder                      *)
(* (internal/state/state.go), the custom order and the hidden sessions     *)
(* (internal/sessionorder), the metadata store (internal/metadata) and the *)
(* commands and routes that change them (internal/server/server.go,        *)
(* internal/server/api.go).                                                *)
(*                                                                         *)
(* Each command or route holds s.mu from its change to its broadcast, and  *)
(* every broadcast builds the state afresh from tmux's listing; a build    *)
(* itself changes what it reads: it reconciles the order with tmux, shows  *)
(* the attached session, moves the focus and prunes the metadata.  Between *)
(* two builds tmux's sessions come and go.  The order file is written by   *)
(* some of the changes only, and read back when the server restarts.       *)
(*                                                                         *)
(* Abstracted: git, panes, agents and themes, which are only displayed;    *)
(* texts, tones and times of metadata; creation times are taken to be      *)
(* distinct, so that tmux's sessions are a sequence.                       *)
(***************************************************************************)
EXTENDS Integers, Sequences, FiniteSets

CONSTANTS
  Session,     \* tmux session names the dashboard may list
  NoSession,
  Kind,        \* what metadata is made of: status, progress, log
  MaxMoves     \* bound: changes of the user, of scripts and of tmux

ASSUME SessionAssumption == NoSession \notin Session /\ MaxMoves \in Nat

VARIABLES
  live,        \* tmux's sessions, in creation order
  attached,    \* the session of the lone tmux client, NoSession otherwise
  desk,        \* order, hidden, focused and meta, and the file
  shown,       \* the state last built: its sessions, focus and current one
  reborn,      \* sessions that died since the file was written, or before (history)
  moves        \* (bound)

vars == <<live, attached, desk, shown, reborn, moves>>

In(q) == {q[i] : i \in DOMAIN q}

(* What q keeps of its elements: SelectSeq, by a set, as a recursive        *)
(* function.                                                               *)
Kept(q, S) ==
  LET kept[n \in 0 .. Len(q)] ==
        IF n = 0 THEN <<>>
        ELSE IF q[n] \in S THEN Append(kept[n - 1], q[n]) ELSE kept[n - 1]
  IN kept[Len(q)]

Distinct(q) == \A i, j \in DOMAIN q : q[i] = q[j] => i = j

Arrangement == [order : Seq(Session), hidden : SUBSET Session]

DeskState == [order : Seq(Session), hidden : SUBSET Session, focused : Session \cup {NoSession},
              meta : [Session -> SUBSET Kind], file : Arrangement]

Shown == [sessions : Seq(Session), focused : Session \cup {NoSession},
          current : Session \cup {NoSession}]

NewDesk == [order |-> <<>>, hidden |-> {}, focused |-> NoSession,
            meta |-> [s \in Session |-> {}],
            file |-> [order |-> <<>>, hidden |-> {}]]

NotBuilt == [sessions |-> <<>>, focused |-> NoSession, current |-> NoSession]

(* The server starts, for the first time, beside any sessions.             *)
Init ==
  /\ live \in {q \in UNION {[1 .. n -> Session] : n \in 0 .. Cardinality(Session)} : Distinct(q)}
  /\ attached \in In(live) \cup {NoSession}
  /\ desk = NewDesk
  /\ shown = NotBuilt
  /\ reborn = {}
  /\ moves = 0

-----------------------------------------------------------------------------
(* Session order                                                           *)

Save(d) == [d EXCEPT !.file = [order |-> d.order, hidden |-> d.hidden]]

(* Mutant: the order is tmux's, the custom one is forgotten.               *)
SyncFromTmux(d, names) ==
  [d EXCEPT !.order = names, !.hidden = @ \cap In(names)]

(* Mutant: dead sessions stay hidden.                                      *)
SyncKeepsHidden(d, names) ==
  [d EXCEPT !.order = Kept(@, In(names))
                        \o Kept(names, Session \ In(d.order))]

(* Sync: stale names drop, new names append at the end; nothing is saved.  *)
Sync(d, names) ==
  [d EXCEPT !.order  = Kept(@, In(names))
                         \o Kept(names, Session \ In(d.order)),
            !.hidden = @ \cap In(names)]

Apply(d, names) ==
  Kept(d.order, In(names) \ d.hidden)

(* Mutant: the swap is not written to the file.                            *)
ReorderUnsaved(d, s, delta) ==
  IF \E i \in DOMAIN d.order : d.order[i] = s /\ i + delta \in DOMAIN d.order
  THEN LET i == CHOOSE j \in DOMAIN d.order : d.order[j] = s
       IN [d EXCEPT !.order = [@ EXCEPT ![i] = d.order[i + delta], ![i + delta] = s]]
  ELSE d

(* Reorder: the neighbour it swaps with may be a hidden session.           *)
Reorder(d, s, delta) ==
  IF \E i \in DOMAIN d.order : d.order[i] = s /\ i + delta \in DOMAIN d.order
  THEN LET i == CHOOSE j \in DOMAIN d.order : d.order[j] = s
       IN Save([d EXCEPT !.order = [@ EXCEPT ![i] = d.order[i + delta], ![i + delta] = s]])
  ELSE d

Hide(d, s) ==
  IF s \in In(d.order) \ d.hidden THEN Save([d EXCEPT !.hidden = @ \cup {s}]) ELSE d

Show(d, s) ==
  IF s \in d.hidden THEN Save([d EXCEPT !.hidden = @ \ {s}]) ELSE d

ShowAll(d) ==
  IF d.hidden # {} THEN Save([d EXCEPT !.hidden = {}]) ELSE d

-----------------------------------------------------------------------------
(* Building the state                                                      *)

(* Build's focus: kept while its session is on the desk, else the current  *)
(* session, else the first.                                                *)
(* Mutant: a focus is kept whether or not its session is listed.           *)
RefocusedIfNone(d, visible, current) ==
  IF visible = <<>> THEN NoSession
  ELSE IF d.focused # NoSession THEN d.focused
  ELSE IF current \in In(visible) THEN current
  ELSE visible[1]

Refocused(d, visible, current) ==
  IF visible = <<>> THEN NoSession
  ELSE IF d.focused \in In(visible) THEN d.focused
  ELSE IF current \in In(visible) THEN current
  ELSE visible[1]

(* Build: reconcile, show the attached session, refocus.                   *)
Built(d, names, current) ==
  LET e == Show(Sync(d, names), current)
  IN [e EXCEPT !.focused = Refocused(e, Apply(e, names), current)]

(* Mutant: the sessions of the previous build are taken for the valid ones.*)
PrunedByLast(d, names) ==
  [d EXCEPT !.meta = [s \in Session |-> IF s \in In(shown.sessions) THEN @[s] ELSE {}]]

(* PruneSessions: the valid sessions are those of the state just built, so *)
(* a hidden session's metadata goes too.                                   *)
Pruned(d, names) ==
  [d EXCEPT !.meta = [s \in Session |-> IF s \in In(Apply(d, names)) THEN @[s] ELSE {}]]

(* The sessions that died since the file was written, or were written      *)
(* there when they were already dead.                                      *)
Reborn ==
  reborn' = (IF desk'.file = desk.file THEN reborn ELSE In(desk'.file.order) \ In(live'))
              \cup (In(live) \ In(live'))

(* encodeState: what it builds is the next state of the desk.              *)
Encode(d) ==
  LET b == Built(d, live', attached')
  IN /\ desk' = Pruned(b, live')
     /\ shown' = [sessions |-> Apply(b, live'), focused |-> b.focused, current |-> attached']
     /\ Reborn

-----------------------------------------------------------------------------
(* tmux and its user                                                       *)

Moves == moves < MaxMoves /\ moves' = moves + 1

Opens(s) == s \notin In(live) /\ live' = Append(live, s)

(* A client of a session that ends is detached or moved on; what it is     *)
(* attached to is reported by tmux at the next listing.                    *)
Closes(s) ==
  /\ s \in In(live)
  /\ live' = Kept(live, Session \ {s})
  /\ attached' \in {a \in In(live') \cup {NoSession} : attached # s => a = attached}

Open(s) == Moves /\ Opens(s) /\ UNCHANGED <<attached, desk, shown>> /\ Reborn

EndSession(s) == Moves /\ Closes(s) /\ UNCHANGED <<desk, shown>> /\ Reborn

(* The lone client switches, detaches, or is no longer the only one.       *)
Attach(s) ==
  /\ Moves
  /\ s \in In(live) \cup {NoSession} /\ s # attached
  /\ attached' = s
  /\ UNCHANGED <<live, desk, shown, reborn>>

-----------------------------------------------------------------------------
(* Commands of a sidebar and hooks of tmux                                 *)

(* The refresh tick, a new client, a poll, a watcher's broadcast.          *)
Refresh == UNCHANGED <<live, attached, moves>> /\ Encode(desk)

(* switch-session and switch-index: tmux refuses an unknown session, the   *)
(* focus is moved all the same.                                            *)
SwitchTo(d, s) ==
  /\ attached' \in {attached} \cup ({s} \cap In(live))
  /\ UNCHANGED live
  /\ Encode([d EXCEPT !.focused = s])

SwitchSession(s) == Moves /\ SwitchTo(desk, s)

SwitchIndex(i) ==
  LET b == Built(desk, live, attached)
      visible == Apply(b, live)
  IN /\ Moves
     /\ IF i \in DOMAIN visible THEN SwitchTo(b, visible[i])
                                ELSE UNCHANGED <<live, attached>> /\ Encode(b)

(* focus-session, and the focus hook of a session that is not ignored,     *)
(* which may be late.                                                      *)
FocusSession(s) ==
  /\ Moves
  /\ UNCHANGED <<live, attached>>
  /\ Encode([desk EXCEPT !.focused = s])

MoveFocus(delta) ==
  LET b == Built(desk, live, attached)
      visible == Apply(b, live)
      next == {visible[i + delta] : i \in {j \in DOMAIN visible :
                  visible[j] = b.focused /\ j + delta \in DOMAIN visible}}
  IN /\ Moves
     /\ UNCHANGED <<live, attached>>
     /\ IF next = {} THEN Encode(b)
                     ELSE \E s \in next : Encode([b EXCEPT !.focused = s])

NewSession(s) == Moves /\ Opens(s) /\ UNCHANGED attached /\ Encode(desk)

KillSession(s) == Moves /\ Closes(s) /\ Encode(desk)

Arrange(d) == Moves /\ UNCHANGED <<live, attached>> /\ Encode(d)

HideSession(s) == Arrange(Hide(desk, s))
ShowAllSessions == Arrange(ShowAll(desk))
ReorderSession(s, delta) == Arrange(Reorder(desk, s, delta))

-----------------------------------------------------------------------------
(* Metadata routes: set, append, clear; each broadcasts                    *)

Put(d, s, k) == [d EXCEPT !.meta[s] = @ \cup {k}]

Drop(d, s, k) == [d EXCEPT !.meta[s] = @ \ {k}]

SetMetadata(s, k) == Arrange(Put(desk, s, k))

ClearMetadata(s, k) == k \in desk.meta[s] /\ Arrange(Drop(desk, s, k))

-----------------------------------------------------------------------------
Load(file) ==
  [NewDesk EXCEPT !.order = file.order, !.hidden = file.hidden, !.file = file]

Restart ==
  /\ Moves
  /\ desk' = Load(desk.file)
  /\ shown' = NotBuilt
  /\ UNCHANGED <<live, attached, reborn>>

-----------------------------------------------------------------------------
Next ==
  \/ Refresh \/ ShowAllSessions \/ Restart
  \/ \E s \in Session :
       \/ Open(s) \/ EndSession(s) \/ NewSession(s) \/ KillSession(s)
       \/ SwitchSession(s) \/ FocusSession(s) \/ HideSession(s)
       \/ \E delta \in {-1, 1} : ReorderSession(s, delta)
       \/ \E k \in Kind : SetMetadata(s, k) \/ ClearMetadata(s, k)
  \/ \E s \in Session \cup {NoSession} : Attach(s)
  \/ \E i \in 1 .. Cardinality(Session) : SwitchIndex(i)
  \/ \E delta \in {-1, 1} : MoveFocus(delta)

Spec == Init /\ [][Next]_vars

-----------------------------------------------------------------------------
(* Properties                                                              *)

(* Type invariant; the order names no session twice, and only sessions of  *)
(* the order are hidden, for those are all that Show can bring back.       *)
TypeOK ==
  /\ live \in Seq(Session) /\ Distinct(live)
  /\ attached \in Session \cup {NoSession}
  /\ desk \in DeskState /\ Distinct(desk.order)
  /\ desk.hidden \subseteq In(desk.order)
  /\ shown \in Shown /\ Distinct(shown.sessions)
  /\ reborn \subseteq Session
  /\ moves \in 0 .. MaxMoves

(* Whatever is hidden, killed, reordered or focused late, a state that is  *)
(* built shows the session its user is in, and focuses one of the sessions *)
(* it shows, if there is one (Build).                                      *)
FocusOnDesk ==
  /\ shown.focused \in In(shown.sessions) \cup {NoSession}
  /\ shown.sessions # <<>> => shown.focused # NoSession
  /\ shown.current \notin desk.hidden

Before(q, a, b) == \E i, j \in DOMAIN q : i < j /\ q[i] = a /\ q[j] = b

(* Session ordering persisted across restarts: at any moment the file      *)
(* would give back the arrangement in memory, for all sessions but those   *)
(* that were dead when it was written or died since, although builds       *)
(* change the arrangement without writing it (Sync, save, Load).           *)
FileKeepsArrangement ==
  LET now   == Built(desk, live, attached)
      again == Built(Load(desk.file), live, attached)
  IN \A a, b \in In(live) \ reborn :
       /\ Before(now.order, a, b) => Before(again.order, a, b)
       /\ a \in now.hidden <=> a \in again.hidden

(* Sessions change places only when one of the two is moved by the user    *)
(* or dies: no build, focus, hiding or restart reshuffles the others       *)
(* (Sync, Apply).                                                          *)
OnlyUserReorders ==
  [][\A a, b \in Session :
       Before(desk.order, a, b) /\ Before(desk'.order, b, a)
         => \/ \E s \in {a, b}, delta \in {-1, 1} : ReorderSession(s, delta)
            \/ {a, b} \cap reborn # {}]_vars

(* What a script reported for a session stays until it is cleared or the   *)
(* server restarts, as long as the session is on the desk (PruneSessions). *)
MetadataKept ==
  [][\A s \in Session, k \in Kind :
       s \in In(shown'.sessions) /\ k \in desk.meta[s] /\ k \notin desk'.meta[s] => ClearMetadata(s, k) \/ Restart]_vars
=============================================================================
