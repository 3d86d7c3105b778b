----------------------------- MODULE DeskProofs -----------------------------
(***************************************************************************)
(* For any sessions, kinds of metadata and number of moves: the type of    *)
(* the desk, that the focus is on it, that its file would give it back,    *)
(* that only its user reorders it, and that its metadata is kept.          *)
(*                                                                         *)
(* That the file gives the arrangement back is not inductive: it speaks    *)
(* of two builds with the sessions tmux has now, and a session that opens  *)
(* next may be known to one of the two orders only.  The invariant says    *)
(* instead that the two orders, made complete by tmux's list, agree on     *)
(* every two sessions that did not die, and that whatever either order     *)
(* names lives or has died.                                                *)
(*                                                                         *)
(* Each step builds the state from some desk, restarts, or builds nothing. *)
(* EveryStep names that desk and what the steps have in common; the        *)
(* theorems follow from these three cases.                                 *)
(***************************************************************************)
EXTENDS Desk, WellFoundedInduction, TLAPS

-----------------------------------------------------------------------------
(* The inductive invariant                                                 *)

Arranged(d) == Distinct(d.order) /\ d.hidden \subseteq In(d.order)

(* That a would come before b, after the sessions L that q does not know   *)
(* are appended to it.                                                     *)
Comes(q, L, a, b) == \/ Before(q, a, b)
                     \/ a \in In(q) /\ b \notin In(q)
                     \/ a \notin In(q) /\ b \notin In(q) /\ Before(L, a, b)

(* The desk and its file agree on all of the sessions L but X.             *)
Linked(d, L, X) ==
  \A a, b \in In(L) \ X : /\ Comes(d.order, L, a, b) => Comes(d.file.order, L, a, b)
                          /\ a \in d.hidden <=> a \in d.file.hidden

KeepInv ==
  /\ Arranged(desk.file)
  /\ In(desk.order) \cup In(desk.file.order) \subseteq In(live) \cup reborn
  /\ Linked(desk, live, reborn)

IInv == TypeOK /\ FocusOnDesk /\ KeepInv

-----------------------------------------------------------------------------
(* What a step does                                                        *)

Good(d) == d \in DeskState /\ Arranged(d) /\ Arranged(d.file)

Whoever == Session \cup {NoSession}

Listing(L) == L \in Seq(Session) /\ Distinct(L)

(* The sessions that died until the next state, if no file is written.     *)
Gone == reborn \cup (In(live) \ In(live'))

(* A desk that may be encoded: a file it wrote gives all of it back.       *)
Fit(d, L, X) ==
  /\ Good(d)
  /\ Linked(d, L, X)
  /\ d.file # desk.file => Linked(d, L, {})

Follows(d) ==
  \A a, b \in In(desk.order) \cap In(live') : Comes(d.order, live', a, b) => Before(desk.order, a, b)

(* A step that builds the state from d.                                    *)
Effect(d) ==
  /\ Encode(d) /\ Fit(d, live', Gone) /\ Listing(live') /\ attached' \in Whoever
  /\ \A a, b \in Session : Before(desk.order, a, b) /\ Before(desk'.order, b, a)
        => \E s \in {a, b}, delta \in {-1, 1} : ReorderSession(s, delta)
  /\ \A s \in Session, k \in Kind : k \in desk.meta[s] /\ k \notin d.meta[s] => ClearMetadata(s, k)

(* A step that builds nothing.                                             *)
Quiet ==
  /\ UNCHANGED <<desk, shown>>
  /\ Listing(live') /\ attached' \in Whoever
  /\ reborn' = Gone /\ Linked(desk, live', Gone)

Steps == Quiet \/ Restart \/ \E d : Effect(d)

-----------------------------------------------------------------------------
(* Sequences: what Kept keeps, and what comes before what                  *)

(* A nonempty set of numbers has a least one.                              *)
LEMMA LeastNat ==
  ASSUME NEW S, S \subseteq Nat, S # {}
  PROVE  \E n \in S : \A m \in S : n <= m
<1>1. IsWellFoundedOn(OpToRel(<, Nat), Nat)
  BY NatLessThanWellFounded
<1>2. PICK n \in S : \A m \in S : ~ (<<m, n>> \in OpToRel(<, Nat))
  BY <1>1, WFMin
<1>3. ASSUME NEW m \in S PROVE n <= m
  <2>1. n \in Nat /\ m \in Nat
    OBVIOUS
  <2>2. ~(m < n)
    BY <1>2, <2>1 DEF OpToRel
  <2> QED BY <2>1, <2>2
<1> QED BY <1>3

(* Induction up to a length, on a set: it goes by the least number that is *)
(* missing.                                                                *)
LEMMA UpTo ==
  ASSUME NEW N \in Nat, NEW S, 0 \in S,
         \A n \in 1 .. N : n - 1 \in S => n \in S
  PROVE  0 .. N \subseteq S
<1> DEFINE left == (0 .. N) \ S
<1> SUFFICES ASSUME left # {} PROVE FALSE
  OBVIOUS
<1>1. left \subseteq Nat
  OBVIOUS
<1>2. PICK n \in left : \A m \in left : n <= m
  <2> HIDE DEF left
  <2> QED BY <1>1, LeastNat
<1>3. n \in 1 .. N /\ n - 1 \in 0 .. N /\ ~(n <= n - 1)
  BY <1>2
<1>4. n - 1 \in S
  BY <1>2, <1>3
<1> QED BY <1>2, <1>3, <1>4

(* The equations of the recursive function in Kept, up to N.               *)
Keeps(q, S, kept, N) ==
  kept = [n \in 0 .. N |-> IF n = 0 THEN <<>>
                           ELSE IF q[n] \in S THEN Append(kept[n - 1], q[n]) ELSE kept[n - 1]]

(* There is a function with these equations.                               *)
LEMMA KeepsExists ==
  ASSUME NEW q, NEW S, NEW N \in Nat
  PROVE  \E kept : Keeps(q, S, kept, N)
<1> DEFINE Held == {n \in 0 .. N : \E kept : Keeps(q, S, kept, n)}
<1>1. 0 \in Held
  <2>1. Keeps(q, S, [n \in 0 .. 0 |-> <<>>], 0)
    BY DEF Keeps
  <2> QED BY <2>1
<1>2. ASSUME NEW n \in 1 .. N, n - 1 \in Held
      PROVE  n \in Held
  <2>1. PICK g : Keeps(q, S, g, n - 1)
    BY <1>2
  <2> DEFINE last == IF q[n] \in S THEN Append(g[n - 1], q[n]) ELSE g[n - 1]
             h == [m \in 0 .. n |-> IF m = n THEN last ELSE g[m]]
  <2>2. \A m \in 0 .. n - 1 : h[m] = g[m]
    OBVIOUS
  <2>3. \A m \in 0 .. n - 1 : g[m] = IF m = 0 THEN <<>>
                 ELSE IF q[m] \in S THEN Append(g[m - 1], q[m]) ELSE g[m - 1]
    BY <2>1 DEF Keeps
  <2>4. ASSUME NEW m \in 0 .. n
        PROVE  h[m] = IF m = 0 THEN <<>>
                 ELSE IF q[m] \in S THEN Append(h[m - 1], q[m]) ELSE h[m - 1]
    <3>1. CASE m = n
      <4>1. h[m] = last /\ h[m - 1] = g[n - 1] /\ m # 0
        BY <3>1, <2>2
      <4> QED BY <3>1, <4>1
    <3>2. CASE m = 0
      BY <2>2, <2>3, <3>2
    <3>3. CASE m \in 1 .. n - 1
      <4>1. h[m] = g[m] /\ h[m - 1] = g[m - 1] /\ m # 0 /\ m \in 0 .. n - 1
        BY <2>2, <3>3
      <4> HIDE DEF h
      <4> QED BY <2>3, <4>1
    <3> QED BY <3>1, <3>2, <3>3
  <2>5. Keeps(q, S, h, n)
    <3>1. h = [m \in 0 .. n |-> h[m]]
      OBVIOUS
    <3> HIDE DEF h
    <3> QED BY <2>4, <3>1 DEF Keeps
  <2> QED BY <2>5
<1> HIDE DEF Held
<1>3. 0 .. N \subseteq Held
  BY <1>1, <1>2, UpTo
<1>4. N \in Held
  BY <1>3
<1> QED BY <1>4 DEF Held

(* So Kept is the last value of one.                                       *)
LEMMA KeptIs ==
  ASSUME NEW q, NEW S, Len(q) \in Nat
  PROVE  \E kept : Keeps(q, S, kept, Len(q)) /\ Kept(q, S) = kept[Len(q)]
<1> DEFINE kept == CHOOSE f : Keeps(q, S, f, Len(q))
<1>1. Keeps(q, S, kept, Len(q))
  BY KeepsExists
<1>2. Kept(q, S) = kept[Len(q)]
  BY DEF Kept, Keeps
<1> QED BY <1>1, <1>2

(* Of the first n elements of q it keeps those in S, in their order.       *)
LEMMA KeptUpTo ==
  ASSUME NEW T, NEW q \in Seq(T), NEW S, NEW kept, Keeps(q, S, kept, Len(q))
  PROVE  \A n \in 0 .. Len(q) :
           /\ kept[n] \in Seq(T)
           /\ In(kept[n]) = {q[i] : i \in 1 .. n} \cap S
           /\ \A a, b : Before(kept[n], a, b) <=>
                \E i, j \in 1 .. n : i < j /\ q[i] = a /\ q[j] = b /\ a \in S /\ b \in S
<1> DEFINE P(n) ==
      /\ kept[n] \in Seq(T)
      /\ In(kept[n]) = {q[i] : i \in 1 .. n} \cap S
      /\ \A a, b : Before(kept[n], a, b) <=>
           \E i, j \in 1 .. n : i < j /\ q[i] = a /\ q[j] = b /\ a \in S /\ b \in S
    Held == {n \in 0 .. Len(q) : P(n)}
<1>1. \A n \in 0 .. Len(q) : kept[n] = IF n = 0 THEN <<>>
                           ELSE IF q[n] \in S THEN Append(kept[n - 1], q[n]) ELSE kept[n - 1]
  BY DEF Keeps
<1>2. 0 \in Held
  <2>1. 0 \in 0 .. Len(q) /\ kept[0] = <<>>
    BY <1>1
  <2>2. kept[0] \in Seq(T) /\ DOMAIN kept[0] = {} /\ 1 .. 0 = {}
    BY <2>1
  <2>3. P(0)
    BY <2>2 DEF In, Before
  <2> QED BY <2>1, <2>3
<1>3. ASSUME NEW n \in 1 .. Len(q), n - 1 \in Held
      PROVE  n \in Held
  <2>0. n \in 0 .. Len(q) /\ n - 1 \in 0 .. Len(q) /\ n # 0 /\ q[n] \in T /\ n \in Nat
    OBVIOUS
  <2>1. P(n - 1)
    BY <1>3
  <2> DEFINE k == kept[n - 1]
  <2>2. {q[i] : i \in 1 .. n} = {q[i] : i \in 1 .. n - 1} \cup {q[n]}
    BY <2>0
  <2>3. CASE q[n] \notin S
    <3>1. kept[n] = k
      BY <1>1, <2>0, <2>3
    <3>2. In(kept[n]) = {q[i] : i \in 1 .. n} \cap S
      BY <2>1, <2>2, <2>3, <3>1
    <3>3. ASSUME NEW a, NEW b
          PROVE  Before(kept[n], a, b) <=>
                   \E i, j \in 1 .. n : i < j /\ q[i] = a /\ q[j] = b /\ a \in S /\ b \in S
      <4>1. ASSUME NEW i \in 1 .. n, NEW j \in 1 .. n, i < j, q[i] = a, q[j] = b, a \in S, b \in S
            PROVE  i \in 1 .. n - 1 /\ j \in 1 .. n - 1
        BY <2>3, <4>1
      <4>2. 1 .. n - 1 \subseteq 1 .. n
        BY <2>0
      <4> QED BY <2>1, <3>1, <4>1, <4>2
    <3> QED BY <2>0, <2>1, <3>1, <3>2, <3>3
  <2>4. CASE q[n] \in S
    <3>1. kept[n] = Append(k, q[n]) /\ k \in Seq(T)
      BY <1>1, <2>0, <2>1, <2>4
    <3>2. kept[n] \in Seq(T)
      BY <2>0, <3>1
    <3>3. In(kept[n]) = In(k) \cup {q[n]}
      <4> HIDE DEF k
      <4> QED BY <2>0, <3>1 DEF In
    <3>4. In(kept[n]) = {q[i] : i \in 1 .. n} \cap S
      BY <2>1, <2>2, <2>4, <3>3
    <3>5. ASSUME NEW a, NEW b
          PROVE  Before(kept[n], a, b) <=> Before(k, a, b) \/ (a \in In(k) /\ b = q[n])
      <4> DEFINE r == kept[n]
      <4> HIDE DEF k, r
      <4>1. /\ DOMAIN k = 1 .. Len(k) /\ DOMAIN r = 1 .. Len(k) + 1 /\ Len(k) \in Nat
            /\ \A i \in 1 .. Len(k) : r[i] = k[i]
            /\ r[Len(k) + 1] = q[n]
        BY <2>0, <3>1 DEF r
      <4>2. ASSUME Before(r, a, b) PROVE Before(k, a, b) \/ (a \in In(k) /\ b = q[n])
        <5>1. PICK i, j \in 1 .. Len(k) + 1 : i < j /\ r[i] = a /\ r[j] = b
          BY <4>1, <4>2 DEF Before
        <5>2. i \in 1 .. Len(k) /\ (j \in 1 .. Len(k) \/ j = Len(k) + 1)
          BY <4>1, <5>1
        <5> QED BY <4>1, <5>1, <5>2 DEF Before, In
      <4>3. ASSUME Before(k, a, b) PROVE Before(r, a, b)
        BY <4>1, <4>3 DEF Before
      <4>4. ASSUME a \in In(k), b = q[n] PROVE Before(r, a, b)
        <5>1. PICK i \in 1 .. Len(k) : k[i] = a
          BY <4>1, <4>4 DEF In
        <5>2. i \in 1 .. Len(k) + 1 /\ Len(k) + 1 \in 1 .. Len(k) + 1 /\ i < Len(k) + 1
          BY <4>1
        <5> QED BY <4>1, <4>4, <5>1, <5>2 DEF Before
      <4> QED BY <4>2, <4>3, <4>4 DEF r
    <3>6. ASSUME NEW a, NEW b
          PROVE  Before(kept[n], a, b) <=>
                   \E i, j \in 1 .. n : i < j /\ q[i] = a /\ q[j] = b /\ a \in S /\ b \in S
      <4>1. Before(k, a, b) <=>
              \E i, j \in 1 .. n - 1 : i < j /\ q[i] = a /\ q[j] = b /\ a \in S /\ b \in S
        BY <2>1
      <4>2. a \in In(k) <=> a \in S /\ \E i \in 1 .. n - 1 : q[i] = a
        BY <2>1
      <4> HIDE DEF k
      <4>3. ASSUME Before(kept[n], a, b)
            PROVE  \E i, j \in 1 .. n : i < j /\ q[i] = a /\ q[j] = b /\ a \in S /\ b \in S
        <5>1. CASE Before(k, a, b)
          BY <2>0, <4>1, <5>1
        <5>2. CASE a \in In(k) /\ b = q[n]
          BY <2>0, <2>4, <4>2, <5>2
        <5> QED BY <3>5, <4>3, <5>1, <5>2
      <4>4. ASSUME NEW i \in 1 .. n, NEW j \in 1 .. n, i < j, q[i] = a, q[j] = b, a \in S, b \in S
            PROVE  Before(kept[n], a, b)
        <5>1. CASE j = n
          <6>1. i \in 1 .. n - 1
            BY <4>4, <5>1
          <6> QED BY <3>5, <4>2, <4>4, <5>1, <6>1
        <5>2. CASE j # n
          <6>1. i \in 1 .. n - 1 /\ j \in 1 .. n - 1
            BY <4>4, <5>2
          <6> QED BY <3>5, <4>1, <4>4, <6>1
        <5> QED BY <5>1, <5>2
      <4> QED BY <4>3, <4>4
    <3> QED BY <2>0, <3>2, <3>4, <3>6
  <2> QED BY <2>3, <2>4
<1>4. Len(q) \in Nat
  OBVIOUS
<1>5. 0 .. Len(q) \subseteq Held
  <2> HIDE DEF Held
  <2> QED BY <1>2, <1>3, <1>4, UpTo
<1> QED BY <1>5

(* Kept keeps the elements of q that are in S, and their order.            *)
LEMMA KeptFacts ==
  ASSUME NEW T, NEW q \in Seq(T), NEW S
  PROVE  /\ Kept(q, S) \in Seq(T)
         /\ In(Kept(q, S)) = In(q) \cap S
         /\ \A a, b : Before(Kept(q, S), a, b) <=> Before(q, a, b) /\ a \in S /\ b \in S
<1>1. Len(q) \in Nat /\ DOMAIN q = 1 .. Len(q)
  OBVIOUS
<1>2. PICK kept : Keeps(q, S, kept, Len(q)) /\ Kept(q, S) = kept[Len(q)]
  BY <1>1, KeptIs
<1>3. /\ Kept(q, S) \in Seq(T)
      /\ In(Kept(q, S)) = {q[i] : i \in 1 .. Len(q)} \cap S
      /\ \A a, b : Before(Kept(q, S), a, b) <=>
           \E i, j \in 1 .. Len(q) : i < j /\ q[i] = a /\ q[j] = b /\ a \in S /\ b \in S
  <2>1. Len(q) \in 0 .. Len(q)
    BY <1>1
  <2>2. \A n \in 0 .. Len(q) :
           /\ kept[n] \in Seq(T)
           /\ In(kept[n]) = {q[i] : i \in 1 .. n} \cap S
           /\ \A a, b : Before(kept[n], a, b) <=>
                \E i, j \in 1 .. n : i < j /\ q[i] = a /\ q[j] = b /\ a \in S /\ b \in S
    BY <1>2, KeptUpTo
  <2> DEFINE N == Len(q)
  <2>3. Kept(q, S) = kept[N] /\ N \in 0 .. Len(q)
    BY <1>2, <2>1
  <2> HIDE DEF N
  <2>4. /\ kept[N] \in Seq(T)
        /\ In(kept[N]) = {q[i] : i \in 1 .. N} \cap S
        /\ \A a, b : Before(kept[N], a, b) <=>
             \E i, j \in 1 .. N : i < j /\ q[i] = a /\ q[j] = b /\ a \in S /\ b \in S
    BY <2>2, <2>3
  <2> QED BY <2>3, <2>4 DEF N
<1> HIDE <1>2
<1>4. In(Kept(q, S)) = In(q) \cap S
  BY <1>1, <1>3 DEF In
<1>5. ASSUME NEW a, NEW b
      PROVE  Before(Kept(q, S), a, b) <=> Before(q, a, b) /\ a \in S /\ b \in S
  <2>1. Before(q, a, b) <=> \E i, j \in 1 .. Len(q) : i < j /\ q[i] = a /\ q[j] = b
    BY <1>1 DEF Before
  <2> QED BY <1>3, <2>1
<1> QED BY <1>3, <1>4, <1>5

(* The second of two sequences comes after the first.                      *)
LEMMA JoinedFacts ==
  ASSUME NEW T, NEW p \in Seq(T), NEW q \in Seq(T)
  PROVE  /\ p \o q \in Seq(T)
         /\ In(p \o q) = In(p) \cup In(q)
         /\ \A a, b : Before(p \o q, a, b) <=>
                        Before(p, a, b) \/ Before(q, a, b) \/ (a \in In(p) /\ b \in In(q))
<1>1. p \o q \in Seq(T) /\ Len(p \o q) = Len(p) + Len(q)
  OBVIOUS
<1>2. \A i \in 1 .. Len(p) : i \in 1 .. Len(p \o q) /\ (p \o q)[i] = p[i]
  OBVIOUS
<1>3. \A i \in 1 .. Len(q) : Len(p) + i \in 1 .. Len(p \o q) /\ (p \o q)[Len(p) + i] = q[i]
  OBVIOUS
<1>4. \A i \in 1 .. Len(p \o q) : i \in 1 .. Len(p) \/ \E j \in 1 .. Len(q) : i = Len(p) + j
  <2>1. ASSUME NEW i \in 1 .. Len(p \o q), i \notin 1 .. Len(p)
        PROVE  i - Len(p) \in 1 .. Len(q) /\ i = Len(p) + (i - Len(p))
    BY <1>1, <2>1
  <2> QED BY <2>1
<1> DEFINE r == p \o q
<1>5. DOMAIN p = 1 .. Len(p) /\ DOMAIN q = 1 .. Len(q) /\ DOMAIN r = 1 .. Len(r)
  BY <1>1
<1>6. Len(p) \in Nat /\ Len(q) \in Nat
  OBVIOUS
<1> HIDE DEF r
<1>7. In(r) = In(p) \cup In(q)
  BY <1>2, <1>3, <1>4, <1>5 DEF In, r
<1>8. ASSUME NEW a, NEW b
      PROVE  Before(r, a, b) <=>
               Before(p, a, b) \/ Before(q, a, b) \/ (a \in In(p) /\ b \in In(q))
  <2>1. ASSUME Before(p, a, b) PROVE Before(r, a, b)
    BY <1>2, <1>5, <2>1 DEF Before, r
  <2>2. ASSUME Before(q, a, b) PROVE Before(r, a, b)
    <3>1. PICK i, j \in 1 .. Len(q) : i < j /\ q[i] = a /\ q[j] = b
      BY <1>5, <2>2 DEF Before
    <3>2. Len(p) + i < Len(p) + j
      BY <1>6, <3>1
    <3> QED BY <1>3, <1>5, <3>1, <3>2 DEF Before, r
  <2>3. ASSUME a \in In(p), b \in In(q) PROVE Before(r, a, b)
    <3>1. PICK i \in 1 .. Len(p), j \in 1 .. Len(q) : p[i] = a /\ q[j] = b
      BY <1>5, <2>3 DEF In
    <3>2. i < Len(p) + j
      BY <1>6
    <3> QED BY <1>2, <1>3, <1>5, <3>1, <3>2 DEF Before, r
  <2>4. ASSUME Before(r, a, b)
        PROVE  Before(p, a, b) \/ Before(q, a, b) \/ (a \in In(p) /\ b \in In(q))
    <3>1. PICK i, j \in 1 .. Len(r) : i < j /\ r[i] = a /\ r[j] = b
      BY <1>5, <2>4 DEF Before
    <3>2. CASE i \in 1 .. Len(p) /\ j \in 1 .. Len(p)
      BY <1>2, <1>5, <3>1, <3>2 DEF Before, r
    <3>3. ASSUME i \in 1 .. Len(p), NEW k \in 1 .. Len(q), j = Len(p) + k
          PROVE  a \in In(p) /\ b \in In(q)
      BY <1>2, <1>3, <1>5, <3>1, <3>3 DEF In, r
    <3>4. ASSUME NEW k \in 1 .. Len(q), i = Len(p) + k, j \in 1 .. Len(p)
          PROVE  FALSE
      BY <1>6, <3>1, <3>4
    <3>5. ASSUME NEW k \in 1 .. Len(q), i = Len(p) + k, NEW l \in 1 .. Len(q), j = Len(p) + l
          PROVE  Before(q, a, b)
      <4>1. k < l
        BY <1>6, <3>1, <3>5
      <4> QED BY <1>3, <1>5, <3>1, <3>5, <4>1 DEF Before, r
    <3> QED BY <1>4, <3>1, <3>2, <3>3, <3>4, <3>5 DEF r
  <2> QED BY <2>1, <2>2, <2>3, <2>4
<1> QED BY <1>1, <1>7, <1>8 DEF r

(* A sequence names nothing twice when nothing comes before itself.        *)
LEMMA DistinctIs ==
  ASSUME NEW T, NEW q \in Seq(T)
  PROVE  Distinct(q) <=> \A a : ~Before(q, a, a)
<1>1. DOMAIN q = 1 .. Len(q) /\ Len(q) \in Nat
  OBVIOUS
<1>2. ASSUME Distinct(q), NEW a PROVE ~Before(q, a, a)
  BY <1>1, <1>2 DEF Distinct, Before
<1>3. ASSUME \A a : ~Before(q, a, a), NEW i \in DOMAIN q, NEW j \in DOMAIN q, q[i] = q[j]
      PROVE  i = j
  <2>1. ~(i < j) /\ ~(j < i)
    BY <1>3 DEF Before
  <2> QED BY <1>1, <2>1
<1> QED BY <1>2, <1>3 DEF Distinct

(* In such a sequence, of two elements only one is before the other.       *)
LEMMA DistinctOrders ==
  ASSUME NEW T, NEW q \in Seq(T), Distinct(q), NEW a, NEW b, Before(q, a, b)
  PROVE  ~Before(q, b, a)
<1>1. DOMAIN q = 1 .. Len(q) /\ Len(q) \in Nat
  OBVIOUS
<1> QED BY <1>1 DEF Distinct, Before

(* What comes before something, and what it comes before, is in the        *)
(* sequence.                                                               *)
LEMMA BeforeIn ==
  ASSUME NEW q, NEW a, NEW b, Before(q, a, b)
  PROVE  a \in In(q) /\ b \in In(q)
BY DEF Before, In

(* The elements of a sequence are of its type.                             *)
LEMMA InType ==
  ASSUME NEW T, NEW q \in Seq(T)
  PROVE  In(q) \subseteq T
BY DEF In

-----------------------------------------------------------------------------
(* Fields and operations of the desk                                       *)

(* The fields of a desk.                                                   *)
LEMMA DeskParts ==
  ASSUME NEW d \in DeskState
  PROVE  /\ d.order \in Seq(Session) /\ d.hidden \subseteq Session
         /\ d.focused \in Session \cup {NoSession} /\ d.meta \in [Session -> SUBSET Kind]
         /\ d.file \in Arrangement
         /\ d.file.order \in Seq(Session) /\ d.file.hidden \subseteq Session
BY DEF DeskState, Arrangement

(* A desk whose focus or metadata change.                                  *)
LEMMA DeskFields ==
  ASSUME NEW d \in DeskState
  PROVE  /\ \A s \in Session \cup {NoSession} :
              /\ [d EXCEPT !.focused = s] \in DeskState
              /\ [d EXCEPT !.focused = s].order = d.order
              /\ [d EXCEPT !.focused = s].hidden = d.hidden
              /\ [d EXCEPT !.focused = s].focused = s
              /\ [d EXCEPT !.focused = s].meta = d.meta
              /\ [d EXCEPT !.focused = s].file = d.file
         /\ \A m \in [Session -> SUBSET Kind] :
              /\ [d EXCEPT !.meta = m] \in DeskState
              /\ [d EXCEPT !.meta = m].order = d.order
              /\ [d EXCEPT !.meta = m].hidden = d.hidden
              /\ [d EXCEPT !.meta = m].focused = d.focused
              /\ [d EXCEPT !.meta = m].meta = m
              /\ [d EXCEPT !.meta = m].file = d.file
BY DEF DeskState

(* What save writes is what the desk has.                                  *)
LEMMA SaveFacts ==
  ASSUME NEW d \in DeskState
  PROVE  /\ Save(d) \in DeskState
         /\ Save(d).order = d.order /\ Save(d).hidden = d.hidden
         /\ Save(d).focused = d.focused /\ Save(d).meta = d.meta
         /\ Save(d).file = [order |-> d.order, hidden |-> d.hidden]
         /\ Save(d).file.order = d.order /\ Save(d).file.hidden = d.hidden
BY DEF Save, DeskState, Arrangement

(* Sync lists tmux's sessions, no one twice, those it knew first and in    *)
(* their order, and hides no other (Sync).                                 *)
LEMMA SyncFacts ==
  ASSUME NEW d, Good(d), NEW L, Listing(L)
  PROVE  /\ Sync(d, L) \in DeskState
         /\ In(Sync(d, L).order) = In(L)
         /\ \A a, b : Before(Sync(d, L).order, a, b) <=>
                        a \in In(L) /\ b \in In(L) /\ Comes(d.order, L, a, b)
         /\ Sync(d, L).hidden = d.hidden \cap In(L)
         /\ Sync(d, L).meta = d.meta /\ Sync(d, L).focused = d.focused /\ Sync(d, L).file = d.file
         /\ Arranged(Sync(d, L))
<1> DEFINE O == d.order
           p == Kept(O, In(L))
           q == Kept(L, Session \ In(O))
           e == Sync(d, L)
<1>1. O \in Seq(Session) /\ L \in Seq(Session) /\ d \in DeskState /\ d.hidden \subseteq Session
  BY DeskParts DEF Good, Listing
<1>2. /\ p \in Seq(Session) /\ In(p) = In(O) \cap In(L)
      /\ \A a, b : Before(p, a, b) <=> Before(O, a, b) /\ a \in In(L) /\ b \in In(L)
  BY <1>1, KeptFacts
<1>3. /\ q \in Seq(Session) /\ In(q) = In(L) \cap (Session \ In(O))
      /\ \A a, b : Before(q, a, b) <=> Before(L, a, b) /\ a \in Session \ In(O) /\ b \in Session \ In(O)
  BY <1>1, KeptFacts
<1>5. e = [d EXCEPT !.order = p \o q, !.hidden = d.hidden \cap In(L)]
  BY DEF Sync
<1>6. d.hidden \cap In(L) \in SUBSET Session
  BY <1>1
<1> HIDE DEF O, p, q, e
<1>4. /\ p \o q \in Seq(Session) /\ In(p \o q) = In(p) \cup In(q)
      /\ \A a, b : Before(p \o q, a, b) <=>
                        Before(p, a, b) \/ Before(q, a, b) \/ (a \in In(p) /\ b \in In(q))
  BY <1>2, <1>3, JoinedFacts
<1>7. /\ e \in DeskState /\ e.order = p \o q /\ e.hidden = d.hidden \cap In(L)
      /\ e.focused = d.focused /\ e.meta = d.meta /\ e.file = d.file
  <2> DEFINE r == p \o q
             h == d.hidden \cap In(L)
  <2>1. r \in Seq(Session) /\ h \in SUBSET Session /\ d \in DeskState
    BY <1>1, <1>4, <1>6
  <2>2. e = [d EXCEPT !.order = r, !.hidden = h]
    BY <1>5
  <2> HIDE DEF r, h
  <2>3. /\ e \in DeskState /\ e.order = r /\ e.hidden = h
        /\ e.focused = d.focused /\ e.meta = d.meta /\ e.file = d.file
    BY <2>1, <2>2 DEF DeskState
  <2> QED BY <2>3 DEF r, h
<1>8. In(L) \subseteq Session
  BY <1>1, InType
<1>9. In(e.order) = In(L)
  BY <1>2, <1>3, <1>4, <1>7, <1>8
<1>10. ASSUME NEW a, NEW b
       PROVE  Before(e.order, a, b) <=> a \in In(L) /\ b \in In(L) /\ Comes(O, L, a, b)
  BY <1>2, <1>3, <1>4, <1>7, <1>8, BeforeIn DEF Comes
<1>11. Distinct(e.order)
  <2>1. \A a : ~Before(O, a, a) /\ ~Before(L, a, a)
    BY <1>1, DistinctIs DEF Good, Arranged, Listing, O
  <2>2. \A a : ~Before(e.order, a, a)
    BY <1>10, <2>1 DEF Comes
  <2> QED BY <1>4, <1>7, <2>2, DistinctIs
<1>12. Arranged(e)
  BY <1>7, <1>9, <1>11 DEF Arranged
<1> QED BY <1>7, <1>9, <1>10, <1>12 DEF O, e

(* Show writes the file when it changes anything (Show).                   *)
LEMMA ShowFacts ==
  ASSUME NEW d, Good(d), NEW c
  PROVE  /\ Show(d, c) \in DeskState
         /\ Show(d, c).order = d.order /\ Show(d, c).hidden = d.hidden \ {c}
         /\ Show(d, c).meta = d.meta /\ Show(d, c).focused = d.focused
         /\ c \notin d.hidden => Show(d, c).file = d.file
         /\ c \in d.hidden => /\ Show(d, c).file.order = d.order
                              /\ Show(d, c).file.hidden = d.hidden \ {c}
         /\ Good(Show(d, c))
<1> DEFINE h == [d EXCEPT !.hidden = @ \ {c}]
<1>1. d \in DeskState
  BY DEF Good
<1>2. /\ h \in DeskState /\ h.order = d.order /\ h.hidden = d.hidden \ {c}
      /\ h.meta = d.meta /\ h.focused = d.focused /\ h.file = d.file
  BY <1>1 DEF DeskState
<1>3. Show(d, c) = IF c \in d.hidden THEN Save(h) ELSE d
  BY DEF Show
<1> HIDE DEF h
<1>4. CASE c \in d.hidden
  <2>1. /\ Save(h) \in DeskState /\ Save(h).order = d.order /\ Save(h).hidden = d.hidden \ {c}
        /\ Save(h).meta = d.meta /\ Save(h).focused = d.focused
        /\ Save(h).file.order = d.order /\ Save(h).file.hidden = d.hidden \ {c}
    BY <1>2, SaveFacts
  <2>2. Good(Save(h))
    BY <2>1 DEF Good, Arranged
  <2> QED BY <1>3, <1>4, <2>1, <2>2
<1>5. CASE c \notin d.hidden
  BY <1>1, <1>3, <1>5
<1> QED BY <1>4, <1>5

(* A build lists tmux's sessions as Sync does, shows the attached one, and *)
(* focuses a session it shows, if there is one; the file is written when   *)
(* the attached session was hidden (Build).                                *)
LEMMA BuiltFacts ==
  ASSUME NEW d, Good(d), NEW L, Listing(L), NEW c \in Whoever
  PROVE  /\ Good(Built(d, L, c))
         /\ In(Built(d, L, c).order) = In(L)
         /\ \A a, b : Before(Built(d, L, c).order, a, b) <=>
                        a \in In(L) /\ b \in In(L) /\ Comes(d.order, L, a, b)
         /\ Built(d, L, c).hidden = (d.hidden \cap In(L)) \ {c}
         /\ Built(d, L, c).meta = d.meta
         /\ c \notin d.hidden \cap In(L) => Built(d, L, c).file = d.file
         /\ c \in d.hidden \cap In(L) => /\ Built(d, L, c).file.order = Built(d, L, c).order
                                         /\ Built(d, L, c).file.hidden = Built(d, L, c).hidden
         /\ LET visible == Apply(Built(d, L, c), L)
                focused == Built(d, L, c).focused
            IN /\ visible \in Seq(Session) /\ Distinct(visible)
               /\ focused \in In(visible) \cup {NoSession}
               /\ visible # <<>> => focused # NoSession
<1> DEFINE e == Sync(d, L)
           f == Show(e, c)
           v == Apply(f, L)
           b == Built(d, L, c)
           r == Refocused(f, v, c)
<1>1. /\ Good(e) /\ In(e.order) = In(L) /\ e.hidden = d.hidden \cap In(L)
      /\ e.meta = d.meta /\ e.file = d.file
      /\ \A x, y : Before(e.order, x, y) <=> x \in In(L) /\ y \in In(L) /\ Comes(d.order, L, x, y)
  BY SyncFacts DEF Good
<1>2. /\ Good(f) /\ f.order = e.order /\ f.hidden = e.hidden \ {c} /\ f.meta = e.meta
      /\ c \notin e.hidden => f.file = e.file
      /\ c \in e.hidden => f.file.order = e.order /\ f.file.hidden = e.hidden \ {c}
  BY <1>1, ShowFacts
<1>3. f \in DeskState /\ f.order \in Seq(Session) /\ Distinct(f.order)
  BY <1>2, DeskParts DEF Good, Arranged
<1>4. v \in Seq(Session) /\ Distinct(v) /\ In(v) \subseteq Session
  <2>1. v = Kept(f.order, In(L) \ f.hidden)
    BY DEF Apply
  <2> HIDE DEF v
  <2>2. v \in Seq(Session) /\ \A x : Before(v, x, x) => Before(f.order, x, x)
    BY <1>3, <2>1, KeptFacts
  <2> QED BY <1>3, <2>2, DistinctIs, InType
<1> HIDE DEF v
<1>5. /\ r \in In(v) \cup {NoSession}
      /\ v # <<>> => r # NoSession
  <2>1. CASE v = <<>>
    BY <2>1 DEF Refocused
  <2>2. CASE v # <<>>
    <3>1. v[1] \in In(v)
      BY <1>4, <2>2 DEF In
    <3>2. r \in In(v)
      BY <2>2, <3>1 DEF Refocused
    <3> QED BY <1>4, <3>2, SessionAssumption
  <2> QED BY <2>1, <2>2
<1>6. r \in Session \cup {NoSession}
  BY <1>4, <1>5
<1>7. b = [f EXCEPT !.focused = r]
  BY DEF Built, v
<1> HIDE DEF b, r, f, e
<1>8. /\ b \in DeskState /\ b.order = f.order /\ b.hidden = f.hidden /\ b.focused = r
      /\ b.meta = f.meta /\ b.file = f.file
  BY <1>3, <1>6, <1>7, DeskFields
<1>9. Apply(b, L) = v
  BY <1>8 DEF Apply, v
<1>10. Good(b)
  BY <1>2, <1>8 DEF Good, Arranged
<1> QED BY <1>1, <1>2, <1>4, <1>5, <1>8, <1>9, <1>10 DEF b

-----------------------------------------------------------------------------
(* The file and the arrangement                                            *)

(* What was just written gives itself back.                                *)
LEMMA LinkedSaved ==
  ASSUME NEW d, d.file.order = d.order, d.file.hidden = d.hidden, NEW L, NEW X
  PROVE  Linked(d, L, X)
BY DEF Linked

(* The more sessions are excused, the less is asked.                       *)
LEMMA LinkedMore ==
  ASSUME NEW d, NEW L, NEW X, NEW Y, X \subseteq Y, Linked(d, L, X)
  PROVE  Linked(d, L, Y)
BY DEF Linked

(* A build does not part the arrangement from its file (Sync, Show).       *)
LEMMA LinkedBuilt ==
  ASSUME NEW d, Good(d), NEW L, Listing(L), NEW c \in Whoever, NEW X, Linked(d, L, X)
  PROVE  Linked(Built(d, L, c), L, X)
<1> DEFINE e == Built(d, L, c)
<1>1. /\ In(e.order) = In(L)
      /\ \A x, y : Before(e.order, x, y) <=> x \in In(L) /\ y \in In(L) /\ Comes(d.order, L, x, y)
      /\ e.hidden = (d.hidden \cap In(L)) \ {c}
      /\ c \notin d.hidden \cap In(L) => e.file = d.file
      /\ c \in d.hidden \cap In(L) => e.file.order = e.order /\ e.file.hidden = e.hidden
  <2>1. /\ In(e.order) = In(L)
        /\ \A x, y : Before(e.order, x, y) <=> x \in In(L) /\ y \in In(L) /\ Comes(d.order, L, x, y)
    BY BuiltFacts
  <2>2. e.hidden = (d.hidden \cap In(L)) \ {c}
    BY BuiltFacts
  <2>3. c \notin d.hidden \cap In(L) => e.file = d.file
    BY BuiltFacts
  <2>4. c \in d.hidden \cap In(L) => e.file.order = e.order /\ e.file.hidden = e.hidden
    BY BuiltFacts
  <2> HIDE DEF e
  <2> QED BY <2>1, <2>2, <2>3, <2>4
<1> HIDE DEF e
<1>2. CASE c \in d.hidden \cap In(L)
  BY <1>1, <1>2, LinkedSaved DEF e
<1>3. CASE c \notin d.hidden \cap In(L)
  <2>1. e.file = d.file
    BY <1>1, <1>3
  <2>2. ASSUME NEW x \in In(L) \ X, NEW y \in In(L) \ X
        PROVE  /\ Comes(e.order, L, x, y) => Comes(e.file.order, L, x, y)
               /\ x \in e.hidden <=> x \in e.file.hidden
    <3>1. Comes(e.order, L, x, y) => Comes(d.order, L, x, y)
      <4>1. Comes(e.order, L, x, y) => Before(e.order, x, y)
        BY <1>1 DEF Comes
      <4> QED BY <1>1, <4>1
    <3>2. /\ Comes(d.order, L, x, y) => Comes(d.file.order, L, x, y)
          /\ x \in d.hidden <=> x \in d.file.hidden
      BY DEF Linked
    <3>3. x \in e.hidden <=> x \in d.hidden
      BY <1>1, <1>3
    <3> QED BY <2>1, <3>1, <3>2, <3>3
  <2> QED BY <2>2 DEF Linked, e
<1> QED BY <1>2, <1>3

(* Nor does it make a desk unfit to be encoded.                            *)
LEMMA FitBuilt ==
  ASSUME NEW d, NEW L, Listing(L), NEW c \in Whoever, NEW X, Fit(d, L, X)
  PROVE  Fit(Built(d, L, c), L, X)
<1> DEFINE e == Built(d, L, c)
<1>1. Good(d) /\ Linked(d, L, X) /\ (d.file # desk.file => Linked(d, L, {}))
  BY DEF Fit
<1>2. Good(e) /\ Linked(e, L, X) /\ (d.file # desk.file => Linked(e, L, {}))
  BY <1>1, BuiltFacts, LinkedBuilt
<1>3. \/ e.file = d.file
      \/ e.file.order = e.order /\ e.file.hidden = e.hidden
  BY <1>1, BuiltFacts
<1> HIDE DEF e
<1>4. e.file # d.file => Linked(e, L, {})
  BY <1>3, LinkedSaved
<1>5. Fit(e, L, X)
  BY <1>2, <1>4 DEF Fit
<1> QED BY <1>5 DEF e

(* Focus and metadata are not in the file.                                 *)
LEMMA FitSame ==
  ASSUME NEW d, NEW L, NEW X, Fit(d, L, X),
         NEW e \in DeskState, e.order = d.order, e.hidden = d.hidden, e.file = d.file
  PROVE  Fit(e, L, X)
BY DEF Fit, Good, Arranged, Linked

(* A desk that was just saved is fit.                                      *)
LEMMA FitSaved ==
  ASSUME NEW e \in DeskState, Arranged(e), e.file.order = e.order, e.file.hidden = e.hidden,
         NEW L, NEW X
  PROVE  Fit(e, L, X)
<1>1. Linked(e, L, X) /\ Linked(e, L, {})
  BY LinkedSaved
<1> QED BY <1>1 DEF Fit, Good, Arranged

(* A session that opens is the last of tmux's list.                        *)
LEMMA OpensFacts ==
  ASSUME NEW L, Listing(L), NEW s \in Session, s \notin In(L)
  PROVE  /\ Listing(Append(L, s))
         /\ In(Append(L, s)) = In(L) \cup {s}
         /\ \A a, b : Before(Append(L, s), a, b) <=> Before(L, a, b) \/ (a \in In(L) /\ b = s)
<1> DEFINE q == <<s>>
<1>1. L \in Seq(Session) /\ q \in Seq(Session) /\ Append(L, s) = L \o q
  BY DEF Listing
<1>2. In(q) = {s} /\ \A a, b : ~Before(q, a, b)
  BY DEF In, Before
<1> HIDE DEF q
<1> DEFINE r == L \o q
<1>3. /\ r \in Seq(Session) /\ In(r) = In(L) \cup {s}
      /\ \A a, b : Before(r, a, b) <=> Before(L, a, b) \/ (a \in In(L) /\ b = s)
  BY <1>1, <1>2, JoinedFacts
<1>4. r = Append(L, s)
  BY <1>1
<1> HIDE DEF r
<1>5. Distinct(r)
  <2>1. \A a : ~Before(L, a, a)
    BY <1>1, DistinctIs DEF Listing
  <2>2. \A a : ~Before(r, a, a)
    BY <1>3, <2>1
  <2> QED BY <1>3, <2>2, DistinctIs
<1> QED BY <1>3, <1>4, <1>5 DEF Listing

(* A session that closes leaves the order of the others.                   *)
LEMMA ClosesFacts ==
  ASSUME NEW L, Listing(L), NEW s \in Session
  PROVE  /\ Listing(Kept(L, Session \ {s}))
         /\ In(Kept(L, Session \ {s})) = In(L) \ {s}
         /\ \A a, b : Before(Kept(L, Session \ {s}), a, b)
                        <=> Before(L, a, b) /\ a \in Session \ {s} /\ b \in Session \ {s}
<1> DEFINE r == Kept(L, Session \ {s})
<1>1. L \in Seq(Session) /\ In(L) \subseteq Session
  BY InType DEF Listing
<1>2. /\ r \in Seq(Session) /\ In(r) = In(L) \cap (Session \ {s})
      /\ \A a, b : Before(r, a, b) <=> Before(L, a, b) /\ a \in Session \ {s} /\ b \in Session \ {s}
  BY <1>1, KeptFacts
<1> HIDE DEF r
<1>3. Distinct(r)
  <2>1. \A a : ~Before(L, a, a)
    BY <1>1, DistinctIs DEF Listing
  <2>2. \A a : ~Before(r, a, a)
    BY <1>2, <2>1
  <2> QED BY <1>2, <2>2, DistinctIs
<1>4. In(r) = In(L) \ {s}
  BY <1>1, <1>2
<1> QED BY <1>2, <1>3, <1>4 DEF Listing, r

-----------------------------------------------------------------------------
(* tmux's sessions come and go                                             *)

(* What the lemmas on operators ask of the variables.                      *)
LEMMA InvFacts ==
  ASSUME TypeOK, KeepInv
  PROVE  /\ Listing(live) /\ In(live) \subseteq Session
         /\ desk \in DeskState /\ Good(desk)
         /\ In(desk.order) \cup In(desk.file.order) \subseteq In(live) \cup reborn
         /\ Linked(desk, live, reborn)
         /\ attached \in Whoever
<1>1. Listing(live) /\ In(live) \subseteq Session
  BY InType DEF TypeOK, Listing
<1>2. desk \in DeskState /\ Good(desk)
  BY DEF TypeOK, KeepInv, Good, Arranged
<1> QED BY <1>1, <1>2 DEF TypeOK, KeepInv, Whoever

(* A session that opens is in neither order, or has died before.           *)
LEMMA GoneOpens ==
  ASSUME TypeOK, KeepInv, NEW s \in Session, Opens(s)
  PROVE  Listing(live') /\ Linked(desk, live', Gone)
<1>1. s \notin In(live) /\ live' = Append(live, s)
  BY DEF Opens
<1>2. /\ Listing(live') /\ In(live') = In(live) \cup {s}
      /\ \A a, b : Before(live', a, b) <=> Before(live, a, b) \/ (a \in In(live) /\ b = s)
  BY <1>1, InvFacts, OpensFacts
<1>3. Gone = reborn
  BY <1>2 DEF Gone
<1>4. ASSUME NEW a \in In(live') \ reborn, NEW b \in In(live') \ reborn
      PROVE  /\ Comes(desk.order, live', a, b) => Comes(desk.file.order, live', a, b)
             /\ a \in desk.hidden <=> a \in desk.file.hidden
  <2>1. ASSUME s \notin reborn
        PROVE  /\ s \notin In(desk.order) /\ s \notin In(desk.file.order)
               /\ s \notin desk.hidden /\ s \notin desk.file.hidden
    BY <1>1, <2>1, InvFacts DEF Good, Arranged
  <2>2. a \in desk.hidden <=> a \in desk.file.hidden
    <3>1. CASE a = s
      BY <2>1, <3>1
    <3>2. CASE a # s
      <4>1. a \in In(live) \ reborn
        BY <1>2, <3>2
      <4> QED BY <4>1, InvFacts DEF Linked
    <3> QED BY <3>1, <3>2
  <2>3. CASE a # s /\ b # s
    <3>1. a \in In(live) \ reborn /\ b \in In(live) \ reborn
      BY <1>2, <2>3
    <3>2. Comes(desk.order, live, a, b) => Comes(desk.file.order, live, a, b)
      BY <3>1, InvFacts DEF Linked
    <3>3. Before(live', a, b) <=> Before(live, a, b)
      BY <1>2, <2>3
    <3> QED BY <2>2, <3>2, <3>3 DEF Comes
  <2>4. CASE a = s
    <3>1. ~Before(live, s, b)
      BY <1>1, BeforeIn
    <3>2. ~Before(live', s, b)
      BY <1>1, <1>2, <3>1
    <3>3. ~Before(desk.order, s, b)
      BY <2>1, <2>4, BeforeIn
    <3>4. ~Comes(desk.order, live', s, b)
      BY <2>1, <2>4, <3>2, <3>3 DEF Comes
    <3> QED BY <2>2, <2>4, <3>4
  <2>5. CASE a # s /\ b = s
    <3>1. a \in In(live) /\ Before(live', a, s)
      BY <1>2, <2>5
    <3>2. Comes(desk.file.order, live', a, s)
      BY <2>1, <2>5, <3>1 DEF Comes
    <3> QED BY <2>2, <2>5, <3>2
  <2> QED BY <2>3, <2>4, <2>5
<1> QED BY <1>2, <1>3, <1>4 DEF Linked

(* A session that closes is not asked about any more.                      *)
LEMMA GoneCloses ==
  ASSUME TypeOK, KeepInv, NEW s \in Session, Closes(s)
  PROVE  Listing(live') /\ attached' \in Whoever /\ Linked(desk, live', Gone)
<1>1. live' = Kept(live, Session \ {s}) /\ attached' \in In(live') \cup {NoSession}
  BY DEF Closes
<1>2. /\ Listing(live') /\ In(live') = In(live) \ {s}
      /\ \A a, b : Before(live', a, b) <=> Before(live, a, b) /\ a \in Session \ {s} /\ b \in Session \ {s}
  BY <1>1, InvFacts, ClosesFacts
<1>3. ASSUME NEW a \in In(live') \ Gone, NEW b \in In(live') \ Gone
      PROVE  /\ Comes(desk.order, live', a, b) => Comes(desk.file.order, live', a, b)
             /\ a \in desk.hidden <=> a \in desk.file.hidden
  <2>1. a \in In(live) \ reborn /\ b \in In(live) \ reborn /\ a # s /\ b # s
    BY <1>2 DEF Gone
  <2>2. a \in Session /\ b \in Session
    BY <2>1, InvFacts
  <2>3. Before(live', a, b) <=> Before(live, a, b)
    BY <1>2, <2>1, <2>2
  <2>4. /\ Comes(desk.order, live, a, b) => Comes(desk.file.order, live, a, b)
        /\ a \in desk.hidden <=> a \in desk.file.hidden
    BY <2>1, InvFacts DEF Linked
  <2> QED BY <2>3, <2>4 DEF Comes
<1>4. attached' \in Whoever
  BY <1>1, <1>2, InvFacts DEF Whoever
<1> QED BY <1>2, <1>3, <1>4 DEF Linked

(* Nothing changes where tmux's list does not.                             *)
LEMMA GoneSame ==
  ASSUME TypeOK, KeepInv, UNCHANGED live
  PROVE  Listing(live') /\ Gone = reborn /\ Linked(desk, live', Gone)
<1>1. Gone = reborn
  BY DEF Gone
<1>2. Listing(live') /\ Linked(desk, live', reborn)
  BY InvFacts
<1> QED BY <1>1, <1>2

-----------------------------------------------------------------------------
(* What the commands do to the desk                                        *)

(* Two neighbours that are exchanged stay where they are for all others.   *)
LEMMA SwapFacts ==
  ASSUME NEW q \in Seq(Session), Distinct(q), NEW i \in DOMAIN q, NEW j \in DOMAIN q,
         j = i + 1 \/ j = i - 1
  PROVE  LET t == [q EXCEPT ![i] = q[j], ![j] = q[i]]
         IN /\ t \in Seq(Session) /\ Distinct(t) /\ In(t) = In(q)
            /\ \A a, b : a # q[i] /\ b # q[i] => (Before(t, a, b) => Before(q, a, b))
<1> DEFINE t == [q EXCEPT ![i] = q[j], ![j] = q[i]]
           N == Len(q)
<1>1. /\ N \in Nat /\ DOMAIN q = 1 .. N /\ q \in [1 .. N -> Session]
      /\ i \in 1 .. N /\ j \in 1 .. N /\ i # j
  OBVIOUS
<1>2. /\ t \in [1 .. N -> Session]
      /\ t[i] = q[j] /\ t[j] = q[i]
      /\ \A k \in 1 .. N : k # i /\ k # j => t[k] = q[k]
  BY <1>1
<1> HIDE DEF t, N
<1>3. t \in Seq(Session) /\ DOMAIN t = 1 .. N
  BY <1>1, <1>2
<1>4. \A k, l \in 1 .. N : q[k] = q[l] => k = l
  BY <1>1 DEF Distinct
<1>5. \A k, l \in 1 .. N : t[k] = t[l] => k = l
  BY <1>1, <1>2, <1>4
<1>6. In(t) = In(q)
  <2>1. \A k \in 1 .. N : t[k] \in In(q)
    BY <1>1, <1>2 DEF In
  <2>2. \A k \in 1 .. N : q[k] \in In(t)
    BY <1>1, <1>2, <1>3 DEF In
  <2> QED BY <1>1, <1>3, <2>1, <2>2 DEF In
<1>7. ASSUME NEW a, NEW b, a # q[i], b # q[i], Before(t, a, b)
      PROVE  Before(q, a, b)
  <2>1. PICK k \in 1 .. N, l \in 1 .. N : k < l /\ t[k] = a /\ t[l] = b
    BY <1>3, <1>7 DEF Before
  <2>2. k # j /\ l # j
    BY <1>2, <1>7, <2>1
  <2> DEFINE m == IF k = i THEN j ELSE k
             n == IF l = i THEN j ELSE l
  <2>3. m \in 1 .. N /\ n \in 1 .. N /\ m < n
    BY <1>1, <2>1, <2>2
  <2>4. q[m] = a /\ q[n] = b
    BY <1>1, <1>2, <2>1, <2>2
  <2> HIDE DEF m, n
  <2> QED BY <1>1, <2>3, <2>4 DEF Before
<1>8. Distinct(t)
  BY <1>3, <1>5 DEF Distinct
<1> QED BY <1>3, <1>6, <1>7, <1>8 DEF t

(* Reorder writes what it changes, and changes no two other sessions       *)
(* (Reorder).                                                              *)
LEMMA ReorderFacts ==
  ASSUME NEW d, Good(d), NEW s \in Session, NEW delta \in {-1, 1}
  PROVE  LET e == Reorder(d, s, delta)
         IN /\ e = d \/ (e.file.order = e.order /\ e.file.hidden = e.hidden)
            /\ e \in DeskState /\ Arranged(e) /\ e.meta = d.meta /\ In(e.order) = In(d.order)
            /\ \A a, b : a # s /\ b # s => (Before(e.order, a, b) => Before(d.order, a, b))
<1>1. d \in DeskState /\ Arranged(d) /\ d.order \in Seq(Session)
  BY DeskParts DEF Good
<1>2. CASE \E i \in DOMAIN d.order : d.order[i] = s /\ i + delta \in DOMAIN d.order
  <2> DEFINE i == CHOOSE j \in DOMAIN d.order : d.order[j] = s
             t == [d.order EXCEPT ![i] = d.order[i + delta], ![i + delta] = s]
             h == [d EXCEPT !.order = t]
  <2>1. PICK j \in DOMAIN d.order : d.order[j] = s /\ j + delta \in DOMAIN d.order
    BY <1>2
  <2>2. i \in DOMAIN d.order /\ d.order[i] = s
    BY <2>1
  <2>3. Reorder(d, s, delta) = Save(h)
    BY <1>2 DEF Reorder
  <2> HIDE DEF i
  <2>4. i + delta \in DOMAIN d.order
    BY <1>1, <2>1, <2>2 DEF Arranged, Distinct
  <2>5. i + delta = i + 1 \/ i + delta = i - 1
    BY <1>1, <2>2
  <2>6. t = [d.order EXCEPT ![i] = d.order[i + delta], ![i + delta] = d.order[i]]
    BY <2>2
  <2> DEFINE n == i + delta
             o == d.order
  <2>7. /\ o \in Seq(Session) /\ Distinct(o) /\ i \in DOMAIN o /\ n \in DOMAIN o
        /\ n = i + 1 \/ n = i - 1
        /\ t = [o EXCEPT ![i] = o[n], ![n] = o[i]] /\ o[i] = s
    BY <1>1, <2>2, <2>4, <2>5, <2>6 DEF Arranged
  <2> HIDE DEF t, n, o
  <2>8. /\ t \in Seq(Session) /\ Distinct(t) /\ In(t) = In(o)
        /\ \A a, b : a # s /\ b # s => (Before(t, a, b) => Before(o, a, b))
    BY <2>7, SwapFacts
  <2>9. /\ h \in DeskState /\ h.order = t /\ h.hidden = d.hidden /\ h.meta = d.meta
    BY <1>1, <2>8 DEF DeskState
  <2> HIDE DEF h
  <2> DEFINE e == Save(h)
  <2>10. /\ e \in DeskState /\ e.order = t /\ e.hidden = d.hidden /\ e.meta = d.meta
         /\ e.file.order = e.order /\ e.file.hidden = e.hidden
    BY <2>9, SaveFacts
  <2> HIDE DEF e
  <2>11. Arranged(e)
    BY <1>1, <2>8, <2>10 DEF Arranged, o
  <2>12. /\ In(e.order) = In(d.order)
         /\ \A a, b : a # s /\ b # s => (Before(e.order, a, b) => Before(d.order, a, b))
    BY <2>8, <2>10 DEF o
  <2>13. Reorder(d, s, delta) = e
    BY <2>3 DEF e
  <2> QED BY <2>10, <2>11, <2>12, <2>13
<1>3. CASE ~ \E i \in DOMAIN d.order : d.order[i] = s /\ i + delta \in DOMAIN d.order
  <2>1. Reorder(d, s, delta) = d
    BY <1>3 DEF Reorder
  <2> QED BY <1>1, <2>1
<1> QED BY <1>2, <1>3

-----------------------------------------------------------------------------
(* A build of the state                                                    *)

(* PruneSessions leaves the metadata of the sessions shown                 *)
(* (PruneSessions).                                                        *)
LEMMA PrunedFacts ==
  ASSUME NEW d \in DeskState, NEW L
  PROVE  LET e == Pruned(d, L)
         IN /\ e \in DeskState
            /\ e.order = d.order /\ e.hidden = d.hidden /\ e.focused = d.focused /\ e.file = d.file
            /\ \A s \in Session : s \in In(Apply(d, L)) => e.meta[s] = d.meta[s]
<1> DEFINE A == In(Apply(d, L))
           m == [s \in Session |-> IF s \in A THEN d.meta[s] ELSE {}]
           e == Pruned(d, L)
<1>1. e = [d EXCEPT !.meta = m]
  BY DEF Pruned
<1> HIDE DEF A
<1>2. m \in [Session -> SUBSET Kind]
  BY DeskParts
<1>3. \A s \in Session : s \in A => m[s] = d.meta[s]
  OBVIOUS
<1> HIDE DEF m, e
<1>4. /\ e \in DeskState /\ e.order = d.order /\ e.hidden = d.hidden
      /\ e.focused = d.focused /\ e.file = d.file /\ e.meta = m
  BY <1>1, <1>2 DEF DeskState
<1> QED BY <1>3, <1>4 DEF e, A

(* encodeState keeps the invariant, orders what the desk orders, and keeps *)
(* the metadata of what it shows.                                          *)
LEMMA EncodeFacts ==
  ASSUME TypeOK, KeepInv, NEW d, Encode(d), Fit(d, live', Gone),
         Listing(live'), attached' \in Whoever
  PROVE  /\ desk' \in DeskState /\ Arranged(desk') /\ shown' \in Shown
         /\ Distinct(shown'.sessions) /\ reborn' \subseteq Session
         /\ FocusOnDesk' /\ KeepInv'
         /\ \A a, b : Before(desk'.order, a, b) =>
                        a \in In(live') /\ b \in In(live') /\ Comes(d.order, live', a, b)
         /\ \A s \in Session : s \in In(shown'.sessions) => desk'.meta[s] = d.meta[s]
<1> DEFINE L == live'
           c == attached'
           b == Built(d, L, c)
           v == Apply(b, L)
           e == desk'
<1>1. Good(d) /\ Linked(d, L, Gone) /\ (d.file # desk.file => Linked(d, L, {}))
  BY DEF Fit
<1>2. /\ Good(b) /\ In(b.order) = In(L) /\ b.hidden = (d.hidden \cap In(L)) \ {c} /\ b.meta = d.meta
  BY <1>1, BuiltFacts
<1>3. \A x, y : Before(b.order, x, y) <=> x \in In(L) /\ y \in In(L) /\ Comes(d.order, L, x, y)
  BY <1>1, BuiltFacts
<1>4. /\ v \in Seq(Session) /\ Distinct(v) /\ b.focused \in In(v) \cup {NoSession}
      /\ v # <<>> => b.focused # NoSession
  BY <1>1, BuiltFacts
<1>5. Fit(b, L, Gone)
  BY FitBuilt
<1>6. /\ e = Pruned(b, L)
      /\ shown' = [sessions |-> v, focused |-> b.focused, current |-> c]
      /\ Reborn
  BY DEF Encode
<1>7. In(L) \subseteq Session /\ In(v) \subseteq Session
  BY <1>4, InType DEF Listing
<1> HIDE DEF b, L, c, e
<1>8. /\ e \in DeskState
      /\ e.order = b.order /\ e.hidden = b.hidden /\ e.focused = b.focused /\ e.file = b.file
      /\ \A s \in Session : s \in In(v) => e.meta[s] = b.meta[s]
  BY <1>2, <1>6, PrunedFacts DEF Good
<1> HIDE DEF v
<1>9. Fit(e, L, Gone)
  BY <1>5, <1>8, FitSame
<1>10. shown'.sessions = v /\ shown'.focused = b.focused /\ shown'.current = c
  BY <1>6
<1>11. c \in Session \cup {NoSession} /\ b.focused \in Session \cup {NoSession}
  BY <1>4, <1>7 DEF c, Whoever
<1>12. shown' \in Shown /\ Distinct(shown'.sessions)
  BY <1>4, <1>6, <1>10, <1>11 DEF Shown
<1>13. reborn' = (IF e.file = desk.file THEN reborn ELSE In(e.file.order) \ In(L))
                   \cup (In(live) \ In(L))
  BY <1>6 DEF Reborn, e, L
<1>14. Good(e) /\ Arranged(e) /\ Arranged(e.file) /\ In(e.file.order) \subseteq Session
  BY <1>8, <1>9, DeskParts, InType DEF Fit, Good
<1>15. reborn' \subseteq Session
  BY <1>13, <1>14, InvFacts DEF TypeOK
<1>16. FocusOnDesk'
  BY <1>2, <1>4, <1>8, <1>10 DEF FocusOnDesk, e
<1>17. Linked(e, L, reborn')
  <2>1. CASE e.file = desk.file
    BY <1>9, <1>13, <2>1 DEF Fit, Gone, L
  <2>2. CASE e.file # desk.file
    BY <1>9, <2>2, LinkedMore DEF Fit
  <2> QED BY <2>1, <2>2
<1>18. In(e.order) \cup In(e.file.order) \subseteq In(L) \cup reborn'
  <2>1. In(e.order) = In(L)
    BY <1>2, <1>8
  <2>2. CASE e.file = desk.file
    BY <1>13, <2>1, <2>2, InvFacts
  <2>3. CASE e.file # desk.file
    BY <1>13, <2>1, <2>3
  <2> QED BY <2>2, <2>3
<1>19. KeepInv'
  BY <1>14, <1>17, <1>18 DEF KeepInv, e, L
<1> QED BY <1>2, <1>3, <1>8, <1>10, <1>12, <1>14, <1>15, <1>16, <1>19 DEF e, L

(* Hide writes what it changes (Hide).                                     *)
LEMMA HideFacts ==
  ASSUME NEW d, Good(d), NEW s \in Session
  PROVE  LET e == Hide(d, s)
         IN /\ e = d \/ (e.file.order = e.order /\ e.file.hidden = e.hidden)
            /\ e \in DeskState /\ Arranged(e) /\ e.meta = d.meta /\ e.order = d.order
<1>1. d \in DeskState /\ Arranged(d) /\ d.hidden \subseteq Session
  BY DeskParts DEF Good
<1>2. CASE s \in In(d.order) \ d.hidden
  <2> DEFINE h == [d EXCEPT !.hidden = @ \cup {s}]
             e == Save(h)
  <2>1. /\ h \in DeskState /\ h.order = d.order /\ h.hidden = d.hidden \cup {s} /\ h.meta = d.meta
    BY <1>1 DEF DeskState
  <2>2. Hide(d, s) = e
    BY <1>2 DEF Hide
  <2> HIDE DEF h
  <2>3. /\ e \in DeskState /\ e.order = d.order /\ e.hidden = d.hidden \cup {s} /\ e.meta = d.meta
        /\ e.file.order = e.order /\ e.file.hidden = e.hidden
    BY <2>1, SaveFacts
  <2> HIDE DEF e
  <2> QED BY <1>1, <1>2, <2>2, <2>3 DEF Arranged
<1>3. CASE s \notin In(d.order) \ d.hidden
  BY <1>1, <1>3 DEF Hide
<1> QED BY <1>2, <1>3

(* ShowAll writes what it changes (ShowAll).                               *)
LEMMA ShowAllFacts ==
  ASSUME NEW d, Good(d)
  PROVE  LET e == ShowAll(d)
         IN /\ e = d \/ (e.file.order = e.order /\ e.file.hidden = e.hidden)
            /\ e \in DeskState /\ Arranged(e) /\ e.meta = d.meta /\ e.order = d.order
<1>1. d \in DeskState /\ Arranged(d)
  BY DEF Good
<1>2. CASE d.hidden # {}
  <2> DEFINE h == [d EXCEPT !.hidden = {}]
             e == Save(h)
  <2>1. /\ h \in DeskState /\ h.order = d.order /\ h.hidden = {} /\ h.meta = d.meta
    BY <1>1 DEF DeskState
  <2>2. ShowAll(d) = e
    BY <1>2 DEF ShowAll
  <2> HIDE DEF h
  <2>3. /\ e \in DeskState /\ e.order = d.order /\ e.hidden = {} /\ e.meta = d.meta
        /\ e.file.order = e.order /\ e.file.hidden = e.hidden
    BY <2>1, SaveFacts
  <2> HIDE DEF e
  <2> QED BY <1>1, <2>2, <2>3 DEF Arranged
<1>3. CASE d.hidden = {}
  BY <1>1, <1>3 DEF ShowAll
<1> QED BY <1>2, <1>3

(* What a command makes of the desk is fit to be encoded.                  *)
LEMMA FitChanged ==
  ASSUME TypeOK, KeepInv, UNCHANGED live, NEW e,
         e = desk \/ (e.file.order = e.order /\ e.file.hidden = e.hidden),
         e \in DeskState, Arranged(e)
  PROVE  Fit(e, live', Gone)
<1>1. CASE e = desk
  BY <1>1, GoneSame, InvFacts DEF Fit
<1>2. CASE e.file.order = e.order /\ e.file.hidden = e.hidden
  BY <1>2, FitSaved
<1> QED BY <1>1, <1>2

-----------------------------------------------------------------------------
(* The steps                                                               *)

(* The same order follows itself.                                          *)
LEMMA FollowsSame ==
  ASSUME NEW d, d.order = desk.order
  PROVE  Follows(d)
BY DEF Follows, Comes

(* A build follows the order (Sync).                                       *)
LEMMA FollowsBuilt ==
  ASSUME TypeOK, KeepInv, UNCHANGED live, NEW d, d.order = Built(desk, live, attached).order
  PROVE  Follows(d)
<1>1. /\ In(d.order) = In(live)
      /\ \A x, y : Before(d.order, x, y) <=>
                     x \in In(live) /\ y \in In(live) /\ Comes(desk.order, live, x, y)
  <2> DEFINE e == Built(desk, live, attached)
  <2>1. Good(desk) /\ Listing(live) /\ attached \in Whoever
    BY InvFacts
  <2>2. In(e.order) = In(live)
    BY <2>1, BuiltFacts
  <2>3. \A x, y : Before(e.order, x, y) <=>
                    x \in In(live) /\ y \in In(live) /\ Comes(desk.order, live, x, y)
    BY <2>1, BuiltFacts
  <2>4. d.order = e.order
    OBVIOUS
  <2> HIDE DEF e
  <2> QED BY <2>2, <2>3, <2>4
<1>2. live' = live
  OBVIOUS
<1>3. ASSUME NEW a \in In(desk.order) \cap In(live'), NEW b \in In(desk.order) \cap In(live'),
             Comes(d.order, live', a, b)
      PROVE  Before(desk.order, a, b)
  <2>1. Before(d.order, a, b)
    BY <1>1, <1>2, <1>3 DEF Comes
  <2> QED BY <1>1, <1>3, <2>1 DEF Comes
<1> QED BY <1>3 DEF Follows

(* To encode a fit desk that follows the order has the effects wanted.     *)
LEMMA EffectFollows ==
  ASSUME TypeOK, KeepInv, NEW d, Encode(d), Fit(d, live', Gone), Listing(live'),
         attached' \in Whoever, Follows(d),
         \A s \in Session, k \in Kind : k \in desk.meta[s] /\ k \notin d.meta[s] => ClearMetadata(s, k)
  PROVE  Effect(d)
<1>1. ASSUME NEW a \in Session, NEW b \in Session, Before(desk.order, a, b), Before(desk'.order, b, a)
      PROVE  FALSE
  <2>1. a \in In(live') /\ b \in In(live') /\ Comes(d.order, live', b, a)
    BY <1>1, EncodeFacts
  <2>2. a \in In(desk.order) /\ b \in In(desk.order)
    BY <1>1, BeforeIn
  <2>3. Before(desk.order, b, a)
    BY <2>1, <2>2 DEF Follows
  <2> QED BY <1>1, <2>3, InvFacts, DeskParts, DistinctOrders DEF Good, Arranged
<1> QED BY <1>1 DEF Effect

(* So it is for the desk itself.                                           *)
LEMMA EffectDesk ==
  ASSUME TypeOK, KeepInv, Encode(desk), Listing(live'), attached' \in Whoever,
         Linked(desk, live', Gone)
  PROVE  Effect(desk)
<1>1. Fit(desk, live', Gone)
  BY InvFacts DEF Fit
<1> QED BY <1>1, FollowsSame, EffectFollows

(* So it is when the focus is moved, now or on a desk that was built.      *)
LEMMA EffectSwitch ==
  ASSUME TypeOK, KeepInv, NEW d, Fit(d, live, reborn), Follows(d), d.meta = desk.meta,
         UNCHANGED live, attached' \in Whoever, NEW s \in Session, Encode([d EXCEPT !.focused = s])
  PROVE  Effect([d EXCEPT !.focused = s])
<1> DEFINE e == [d EXCEPT !.focused = s]
<1>1. d \in DeskState
  BY DEF Fit, Good
<1>2. /\ e \in DeskState /\ e.order = d.order /\ e.hidden = d.hidden /\ e.file = d.file
      /\ e.meta = d.meta
  BY <1>1 DEF DeskState
<1>3. Encode(e)
  OBVIOUS
<1> HIDE DEF e
<1>4. Listing(live') /\ Gone = reborn /\ live' = live
  BY GoneSame
<1>5. Fit(e, live', Gone)
  BY <1>2, <1>4, FitSame
<1>6. Follows(e)
  BY <1>2 DEF Follows
<1>7. Effect(e)
  BY <1>2, <1>3, <1>4, <1>5, <1>6, EffectFollows
<1> QED BY <1>7 DEF e

(* What the builds in switchToIndexLocked and move-focus give.             *)
LEMMA BuiltNow ==
  ASSUME TypeOK, KeepInv, UNCHANGED live
  PROVE  LET d == Built(desk, live, attached)
         IN /\ Fit(d, live, reborn) /\ Follows(d) /\ d.meta = desk.meta
            /\ Apply(d, live) \in Seq(Session)
<1>1. Fit(desk, live, reborn)
  BY InvFacts DEF Fit
<1>2. Fit(Built(desk, live, attached), live, reborn)
  BY <1>1, InvFacts, FitBuilt
<1>3. /\ Built(desk, live, attached).meta = desk.meta
      /\ Apply(Built(desk, live, attached), live) \in Seq(Session)
  BY InvFacts, BuiltFacts
<1> QED BY <1>2, <1>3, FollowsBuilt

(* To build twice has the effects of building once.                        *)
LEMMA EffectBuilt ==
  ASSUME TypeOK, KeepInv, UNCHANGED <<live, attached>>, Encode(Built(desk, live, attached))
  PROVE  Effect(Built(desk, live, attached))
<1> DEFINE d == Built(desk, live, attached)
<1>1. Fit(d, live, reborn) /\ Follows(d) /\ d.meta = desk.meta
  BY BuiltNow
<1>2. Listing(live') /\ Gone = reborn /\ live' = live /\ attached' \in Whoever
  BY GoneSame, InvFacts
<1>3. Encode(d)
  OBVIOUS
<1> HIDE DEF d
<1>4. Effect(d)
  BY <1>1, <1>2, <1>3, EffectFollows
<1> QED BY <1>4 DEF d

(* Reorder exchanges no two sessions but the one it is asked to move and   *)
(* its neighbour.                                                          *)
LEMMA EffectReorder ==
  ASSUME TypeOK, KeepInv, NEW s \in Session, NEW delta \in {-1, 1}, ReorderSession(s, delta)
  PROVE  Effect(Reorder(desk, s, delta))
<1> DEFINE d == Reorder(desk, s, delta)
<1>1. UNCHANGED <<live, attached>> /\ Encode(d)
  BY DEF ReorderSession, Arrange
<1>2. /\ d = desk \/ (d.file.order = d.order /\ d.file.hidden = d.hidden)
      /\ d \in DeskState /\ Arranged(d)
  BY InvFacts, ReorderFacts
<1>3. /\ d.meta = desk.meta /\ In(d.order) = In(desk.order)
      /\ \A a, b : a # s /\ b # s => (Before(d.order, a, b) => Before(desk.order, a, b))
  BY InvFacts, ReorderFacts
<1> HIDE DEF d
<1>4. Fit(d, live', Gone)
  BY <1>1, <1>2, FitChanged
<1>5. Listing(live') /\ attached' \in Whoever
  BY <1>1, GoneSame, InvFacts
<1>6. ASSUME NEW a \in Session, NEW b \in Session, Before(desk.order, a, b), Before(desk'.order, b, a)
      PROVE  s = a \/ s = b
  <2>1. Comes(d.order, live', b, a)
    BY <1>1, <1>4, <1>5, <1>6, EncodeFacts
  <2>2. a \in In(desk.order) /\ b \in In(desk.order)
    BY <1>6, BeforeIn
  <2>3. Before(d.order, b, a)
    BY <1>3, <2>1, <2>2 DEF Comes
  <2>4. s # a /\ s # b => Before(desk.order, b, a)
    BY <1>3, <2>3
  <2> QED BY <1>6, <2>4, InvFacts, DeskParts, DistinctOrders DEF Good, Arranged
<1>7. Effect(d)
  BY <1>1, <1>3, <1>4, <1>5, <1>6 DEF Effect
<1> QED BY <1>7 DEF d

(* To hide or show sessions does not reorder any.                          *)
LEMMA EffectHide ==
  ASSUME TypeOK, KeepInv, NEW e, UNCHANGED <<live, attached>>, Encode(e),
         e = desk \/ (e.file.order = e.order /\ e.file.hidden = e.hidden),
         e \in DeskState, Arranged(e), e.meta = desk.meta, e.order = desk.order
  PROVE  Effect(e)
<1>1. Fit(e, live', Gone)
  BY FitChanged
<1>2. Listing(live') /\ attached' \in Whoever
  BY GoneSame, InvFacts
<1>3. Follows(e)
  BY FollowsSame
<1> QED BY <1>1, <1>2, <1>3, EffectFollows

(* To set metadata removes none.                                           *)
LEMMA PutFacts ==
  ASSUME NEW d \in DeskState, NEW s \in Session, NEW k \in Kind
  PROVE  LET e == Put(d, s, k)
         IN /\ e \in DeskState /\ e.order = d.order /\ e.hidden = d.hidden /\ e.file = d.file
            /\ \A r \in Session, j \in Kind : j \in d.meta[r] => j \in e.meta[r]
<1> DEFINE m == [d.meta EXCEPT ![s] = @ \cup {k}]
           e == Put(d, s, k)
<1>1. d.meta \in [Session -> SUBSET Kind]
  BY DeskParts
<1>2. /\ m \in [Session -> SUBSET Kind]
      /\ \A r \in Session, j \in Kind : j \in d.meta[r] => j \in m[r]
  BY <1>1
<1>3. e = [d EXCEPT !.meta = m]
  BY DEF Put
<1> HIDE DEF m, e
<1>4. /\ e \in DeskState /\ e.order = d.order /\ e.hidden = d.hidden /\ e.file = d.file /\ e.meta = m
  BY <1>2, <1>3 DEF DeskState
<1> QED BY <1>2, <1>4 DEF e

(* To clear metadata of a kind and a session leaves the others.            *)
LEMMA DropFacts ==
  ASSUME NEW d \in DeskState, NEW s \in Session, NEW k \in Kind
  PROVE  LET e == Drop(d, s, k)
         IN /\ e \in DeskState /\ e.order = d.order /\ e.hidden = d.hidden /\ e.file = d.file
            /\ \A r \in Session, j \in Kind : j \in d.meta[r] => j \in e.meta[r] \/ (r = s /\ j = k)
<1> DEFINE m == [d.meta EXCEPT ![s] = @ \ {k}]
           e == Drop(d, s, k)
<1>1. d.meta \in [Session -> SUBSET Kind]
  BY DeskParts
<1>2. /\ m \in [Session -> SUBSET Kind]
      /\ \A r \in Session, j \in Kind : j \in d.meta[r] => j \in m[r] \/ (r = s /\ j = k)
  BY <1>1
<1>3. e = [d EXCEPT !.meta = m]
  BY DEF Drop
<1> HIDE DEF m, e
<1>4. /\ e \in DeskState /\ e.order = d.order /\ e.hidden = d.hidden /\ e.file = d.file /\ e.meta = m
  BY <1>2, <1>3 DEF DeskState
<1> QED BY <1>2, <1>4 DEF e

(* A change of the metadata has the effects wanted when it removes only    *)
(* what is cleared.                                                        *)
LEMMA EffectMeta ==
  ASSUME TypeOK, KeepInv, NEW e, Encode(e), UNCHANGED <<live, attached>>,
         e \in DeskState, e.order = desk.order, e.hidden = desk.hidden, e.file = desk.file,
         \A r \in Session, j \in Kind : j \in desk.meta[r] => j \in e.meta[r] \/ ClearMetadata(r, j)
  PROVE  Effect(e)
<1>1. Fit(desk, live', Gone) /\ Listing(live') /\ attached' \in Whoever
  BY GoneSame, InvFacts, FitChanged DEF Good
<1>2. Fit(e, live', Gone)
  BY <1>1, FitSame
<1>3. Follows(e)
  BY FollowsSame
<1> QED BY <1>1, <1>2, <1>3, EffectFollows

(* So it is for the routes that set it.                                    *)
LEMMA EffectSet ==
  ASSUME TypeOK, KeepInv, NEW s \in Session, NEW k \in Kind, SetMetadata(s, k)
  PROVE  Effect(Put(desk, s, k))
<1> DEFINE e == Put(desk, s, k)
<1>1. UNCHANGED <<live, attached>> /\ Encode(e)
  BY DEF SetMetadata, Arrange
<1>2. /\ e \in DeskState /\ e.order = desk.order /\ e.hidden = desk.hidden /\ e.file = desk.file
      /\ \A r \in Session, j \in Kind : j \in desk.meta[r] => j \in e.meta[r]
  BY InvFacts, PutFacts
<1> HIDE DEF e
<1>3. Effect(e)
  BY <1>1, <1>2, EffectMeta
<1> QED BY <1>3 DEF e

(* So it is for the route that clears it.                                  *)
LEMMA EffectClear ==
  ASSUME TypeOK, KeepInv, NEW s \in Session, NEW k \in Kind, ClearMetadata(s, k)
  PROVE  Effect(Drop(desk, s, k))
<1> DEFINE e == Drop(desk, s, k)
<1>1. UNCHANGED <<live, attached>> /\ Encode(e)
  BY DEF ClearMetadata, Arrange
<1>2. /\ e \in DeskState /\ e.order = desk.order /\ e.hidden = desk.hidden /\ e.file = desk.file
      /\ \A r \in Session, j \in Kind : j \in desk.meta[r] => j \in e.meta[r] \/ (r = s /\ j = k)
  BY InvFacts, DropFacts
<1>3. \A r \in Session, j \in Kind : r = s /\ j = k => ClearMetadata(r, j)
  OBVIOUS
<1> HIDE DEF e
<1>4. \A r \in Session, j \in Kind : j \in desk.meta[r] => j \in e.meta[r] \/ ClearMetadata(r, j)
  BY <1>2, <1>3
<1>5. Effect(e)
  BY <1>1, <1>2, <1>4, EffectMeta
<1> QED BY <1>5 DEF e

(* Sessions open and end, by tmux or by a command.                         *)
LEMMA TmuxSteps ==
  ASSUME TypeOK, KeepInv, NEW s \in Session
  PROVE  /\ Open(s) \/ EndSession(s) => Quiet
         /\ NewSession(s) \/ KillSession(s) => Effect(desk)
<1>1. ASSUME Reborn, desk' = desk PROVE reborn' = Gone
  BY <1>1 DEF Reborn, Gone
<1>2. ASSUME Open(s) PROVE Quiet
  <2>1. Opens(s) /\ UNCHANGED <<attached, desk, shown>> /\ Reborn
    BY <1>2 DEF Open
  <2>2. Listing(live') /\ Linked(desk, live', Gone)
    BY <2>1, GoneOpens
  <2>3. attached' \in Whoever /\ reborn' = Gone
    BY <1>1, <2>1, InvFacts
  <2> QED BY <2>1, <2>2, <2>3 DEF Quiet
<1>3. ASSUME EndSession(s) PROVE Quiet
  <2>1. Closes(s) /\ UNCHANGED <<desk, shown>> /\ Reborn
    BY <1>3 DEF EndSession
  <2>2. Listing(live') /\ Linked(desk, live', Gone) /\ attached' \in Whoever
    BY <2>1, GoneCloses
  <2>3. reborn' = Gone
    BY <1>1, <2>1
  <2> QED BY <2>1, <2>2, <2>3 DEF Quiet
<1>4. ASSUME NewSession(s) PROVE Effect(desk)
  <2>1. Opens(s) /\ UNCHANGED attached /\ Encode(desk)
    BY <1>4 DEF NewSession
  <2>2. Listing(live') /\ Linked(desk, live', Gone)
    BY <2>1, GoneOpens
  <2>3. attached' \in Whoever
    BY <2>1, InvFacts
  <2> QED BY <2>1, <2>2, <2>3, EffectDesk
<1>5. ASSUME KillSession(s) PROVE Effect(desk)
  <2>1. Closes(s) /\ Encode(desk)
    BY <1>5 DEF KillSession
  <2>2. Listing(live') /\ Linked(desk, live', Gone) /\ attached' \in Whoever
    BY <2>1, GoneCloses
  <2> QED BY <2>1, <2>2, EffectDesk
<1>6. Open(s) \/ EndSession(s) => Quiet
  BY <1>2, <1>3
<1>7. NewSession(s) \/ KillSession(s) => Effect(desk)
  BY <1>4, <1>5
<1> QED BY <1>6, <1>7

(* The client moves, or nothing does.                                      *)
LEMMA AttachSteps ==
  ASSUME TypeOK, KeepInv, (\E s \in Whoever : Attach(s)) \/ UNCHANGED vars
  PROVE  Quiet
<1>1. UNCHANGED <<live, desk, shown, reborn>> /\ attached' \in Whoever
  BY InvFacts DEF Attach, vars, Whoever
<1> QED BY <1>1, GoneSame DEF Quiet

(* switch-session, focus-session and the focus hook.                       *)
LEMMA FocusSteps ==
  ASSUME TypeOK, KeepInv, NEW s \in Session, SwitchSession(s) \/ FocusSession(s)
  PROVE  \E d : Effect(d)
<1>1. UNCHANGED live /\ attached' \in Whoever /\ Encode([desk EXCEPT !.focused = s])
  BY InvFacts DEF SwitchSession, SwitchTo, FocusSession, Whoever
<1>2. Fit(desk, live, reborn) /\ Follows(desk)
  BY InvFacts, FollowsSame DEF Fit
<1>3. Effect([desk EXCEPT !.focused = s])
  BY <1>1, <1>2, EffectSwitch
<1> QED BY <1>3

(* switch-index builds, looks a session up and moves the focus.            *)
LEMMA IndexSteps ==
  ASSUME TypeOK, KeepInv, NEW i, SwitchIndex(i)
  PROVE  \E d : Effect(d)
<1> DEFINE b == Built(desk, live, attached)
           v == Apply(b, live)
<1>1. \/ /\ i \in DOMAIN v /\ UNCHANGED live
         /\ attached' \in {attached} \cup ({v[i]} \cap In(live))
         /\ Encode([b EXCEPT !.focused = v[i]])
      \/ UNCHANGED <<live, attached>> /\ Encode(b)
  BY DEF SwitchIndex, SwitchTo
<1>2. CASE UNCHANGED <<live, attached>> /\ Encode(b)
  BY <1>2, EffectBuilt
<1>3. CASE /\ i \in DOMAIN v /\ UNCHANGED live
           /\ attached' \in {attached} \cup ({v[i]} \cap In(live))
           /\ Encode([b EXCEPT !.focused = v[i]])
  <2>1. Fit(b, live, reborn) /\ Follows(b) /\ b.meta = desk.meta /\ v \in Seq(Session)
    BY <1>3, BuiltNow
  <2> DEFINE s == v[i]
  <2>2. s \in Session /\ attached' \in {attached} \cup ({s} \cap In(live))
    BY <1>3, <2>1
  <2>3. attached' \in Whoever
    BY <2>2, InvFacts DEF Whoever
  <2>4. Encode([b EXCEPT !.focused = s]) /\ UNCHANGED live
    BY <1>3
  <2> HIDE DEF b, s
  <2>5. Effect([b EXCEPT !.focused = s])
    BY <2>1, <2>2, <2>3, <2>4, EffectSwitch
  <2> QED BY <2>5
<1> QED BY <1>1, <1>2, <1>3

(* move-focus builds, looks the neighbour up and moves the focus.          *)
LEMMA MoveSteps ==
  ASSUME TypeOK, KeepInv, NEW delta, MoveFocus(delta)
  PROVE  \E d : Effect(d)
<1> DEFINE b == Built(desk, live, attached)
           v == Apply(b, live)
<1>1. \/ \E i \in DOMAIN v : /\ UNCHANGED <<live, attached>>
                             /\ Encode([b EXCEPT !.focused = v[i]])
      \/ UNCHANGED <<live, attached>> /\ Encode(b)
  BY DEF MoveFocus
<1>2. CASE UNCHANGED <<live, attached>> /\ Encode(b)
  BY <1>2, EffectBuilt
<1>3. ASSUME NEW i \in DOMAIN v, UNCHANGED <<live, attached>>, Encode([b EXCEPT !.focused = v[i]])
      PROVE  \E d : Effect(d)
  <2>1. Fit(b, live, reborn) /\ Follows(b) /\ b.meta = desk.meta /\ v \in Seq(Session)
    BY <1>3, BuiltNow
  <2> DEFINE s == v[i]
  <2>2. s \in Session
    BY <2>1
  <2>3. attached' \in Whoever /\ UNCHANGED live
    BY <1>3, InvFacts
  <2>4. Encode([b EXCEPT !.focused = s])
    BY <1>3
  <2> HIDE DEF b, s
  <2>5. Effect([b EXCEPT !.focused = s])
    BY <2>1, <2>2, <2>3, <2>4, EffectSwitch
  <2> QED BY <2>5
<1> QED BY <1>1, <1>2, <1>3

(* A refresh, and the commands that hide and show.                         *)
LEMMA ArrangeSteps ==
  ASSUME TypeOK, KeepInv
  PROVE  /\ Refresh \/ ShowAllSessions => \E d : Effect(d)
         /\ \A s \in Session : HideSession(s) => \E d : Effect(d)
<1>1. ASSUME Refresh PROVE \E d : Effect(d)
  <2>1. UNCHANGED <<live, attached>> /\ Encode(desk)
    BY <1>1 DEF Refresh
  <2>2. Effect(desk)
    BY <2>1, GoneSame, InvFacts, EffectDesk
  <2> QED BY <2>2
<1>2. ASSUME ShowAllSessions PROVE \E d : Effect(d)
  <2> DEFINE e == ShowAll(desk)
  <2>1. UNCHANGED <<live, attached>> /\ Encode(e)
    BY <1>2 DEF ShowAllSessions, Arrange
  <2>2. /\ e = desk \/ (e.file.order = e.order /\ e.file.hidden = e.hidden)
        /\ e \in DeskState /\ Arranged(e) /\ e.meta = desk.meta /\ e.order = desk.order
    BY InvFacts, ShowAllFacts
  <2> HIDE DEF e
  <2>3. Effect(e)
    BY <2>1, <2>2, EffectHide
  <2> QED BY <2>3
<1>3. ASSUME NEW s \in Session, HideSession(s) PROVE \E d : Effect(d)
  <2> DEFINE e == Hide(desk, s)
  <2>1. UNCHANGED <<live, attached>> /\ Encode(e)
    BY <1>3 DEF HideSession, Arrange
  <2>2. /\ e = desk \/ (e.file.order = e.order /\ e.file.hidden = e.hidden)
        /\ e \in DeskState /\ Arranged(e) /\ e.meta = desk.meta /\ e.order = desk.order
    BY InvFacts, HideFacts
  <2> HIDE DEF e
  <2>3. Effect(e)
    BY <2>1, <2>2, EffectHide
  <2> QED BY <2>3
<1>4. Refresh \/ ShowAllSessions => \E d : Effect(d)
  BY <1>1, <1>2
<1> QED BY <1>3, <1>4

(* There is no other step.                                                 *)
LEMMA EveryStep ==
  ASSUME TypeOK, KeepInv, [Next]_vars
  PROVE  Steps
<1>1. CASE Refresh \/ ShowAllSessions
  BY <1>1, ArrangeSteps DEF Steps
<1>2. CASE Restart
  BY <1>2 DEF Steps
<1>3. ASSUME NEW s \in Session, Open(s) \/ EndSession(s) \/ NewSession(s) \/ KillSession(s)
      PROVE  Steps
  BY <1>3, TmuxSteps DEF Steps
<1>4. ASSUME NEW s \in Session, SwitchSession(s) \/ FocusSession(s)
      PROVE  Steps
  BY <1>4, FocusSteps DEF Steps
<1>5. ASSUME NEW s \in Session, HideSession(s)
      PROVE  Steps
  BY <1>5, ArrangeSteps DEF Steps
<1>6. ASSUME NEW s \in Session, NEW delta \in {-1, 1}, ReorderSession(s, delta)
      PROVE  Steps
  BY <1>6, EffectReorder DEF Steps
<1>7. ASSUME NEW s \in Session, NEW k \in Kind, SetMetadata(s, k) \/ ClearMetadata(s, k)
      PROVE  Steps
  BY <1>7, EffectSet, EffectClear DEF Steps
<1>8. CASE (\E s \in Session \cup {NoSession} : Attach(s)) \/ UNCHANGED vars
  BY <1>8, AttachSteps DEF Steps, Whoever
<1>9. ASSUME NEW i, SwitchIndex(i)
      PROVE  Steps
  BY <1>9, IndexSteps DEF Steps
<1>10. ASSUME NEW delta, MoveFocus(delta)
       PROVE  Steps
  BY <1>10, MoveSteps DEF Steps
<1> QED BY <1>1, <1>2, <1>3, <1>4, <1>5, <1>6, <1>7, <1>8, <1>9, <1>10 DEF Next

(* The number of moves stays within its bound.                             *)
LEMMA MovesBounded ==
  ASSUME TypeOK, [Next]_vars
  PROVE  moves' \in 0 .. MaxMoves
<1>1. moves \in 0 .. MaxMoves /\ MaxMoves \in Nat
  BY SessionAssumption DEF TypeOK
<1>2. UNCHANGED moves \/ Moves
  BY DEF Next, vars, Refresh, ShowAllSessions, Restart, Open, EndSession, NewSession, KillSession,
         SwitchSession, FocusSession, HideSession, ReorderSession, SetMetadata, ClearMetadata,
         Attach, SwitchIndex, MoveFocus, Arrange
<1> QED BY <1>1, <1>2 DEF Moves

-----------------------------------------------------------------------------
(* The invariant and the theorems                                          *)

(* The first state satisfies the invariant.                                *)
LEMMA InitKeeps ==
  ASSUME Init
  PROVE  IInv
<1>1. live \in Seq(Session) /\ Distinct(live) /\ attached \in Session \cup {NoSession}
  <2>1. PICK n \in 0 .. Cardinality(Session) : live \in [1 .. n -> Session]
    BY DEF Init
  <2>2. live \in Seq(Session)
    <3>1. CASE n = 0
      BY <2>1, <3>1
    <3>2. CASE n # 0
      BY <2>1, <3>2
    <3> QED BY <3>1, <3>2
  <2>3. In(live) \subseteq Session
    BY <2>2, InType
  <2> QED BY <2>2, <2>3 DEF Init
<1>2. /\ desk.order = <<>> /\ desk.hidden = {} /\ desk.file.order = <<>> /\ desk.file.hidden = {}
      /\ desk \in DeskState
  BY DEF Init, NewDesk, DeskState, Arrangement
<1>3. In(<<>>) = {} /\ Distinct(<<>>)
  BY DEF In, Distinct
<1>4. shown = NotBuilt /\ shown \in Shown /\ shown.sessions = <<>>
      /\ shown.focused = NoSession /\ shown.current = NoSession
  BY DEF Init, NotBuilt, Shown
<1>5. moves \in 0 .. MaxMoves /\ reborn = {}
  BY SessionAssumption DEF Init
<1>6. TypeOK
  BY <1>1, <1>2, <1>3, <1>4, <1>5 DEF TypeOK
<1>7. FocusOnDesk
  BY <1>2, <1>4 DEF FocusOnDesk
<1>8. KeepInv
  BY <1>2, <1>3, LinkedSaved DEF KeepInv, Arranged
<1> QED BY <1>6, <1>7, <1>8 DEF IInv

(* Where no state is built the invariant is kept.                          *)
LEMMA QuietKeeps ==
  ASSUME IInv, Quiet
  PROVE  /\ live' \in Seq(Session) /\ Distinct(live') /\ attached' \in Session \cup {NoSession}
         /\ reborn' \subseteq Session /\ FocusOnDesk' /\ KeepInv'
<1>1. /\ desk' = desk /\ shown' = shown /\ Listing(live') /\ attached' \in Whoever
      /\ reborn' = Gone /\ Linked(desk, live', Gone)
  BY DEF Quiet
<1>2. In(live) \subseteq Session /\ In(desk.order) \cup In(desk.file.order) \subseteq In(live) \cup reborn
  BY InvFacts DEF IInv
<1>3. In(live) \cup reborn \subseteq In(live') \cup reborn' /\ reborn' \subseteq Session
  BY <1>1, <1>2 DEF Gone, IInv, TypeOK
<1>4. KeepInv'
  <2>1. Arranged(desk'.file)
    BY <1>1 DEF IInv, KeepInv
  <2>2. Linked(desk', live', reborn')
    BY <1>1
  <2>3. In(desk'.order) \cup In(desk'.file.order) \subseteq In(live') \cup reborn'
    BY <1>1, <1>2, <1>3
  <2> QED BY <2>1, <2>2, <2>3 DEF KeepInv
<1>5. FocusOnDesk'
  BY <1>1 DEF IInv, FocusOnDesk
<1> QED BY <1>1, <1>3, <1>4, <1>5 DEF Listing, Whoever

(* Load gives the file back (Load).                                        *)
LEMMA LoadFacts ==
  ASSUME TypeOK, KeepInv
  PROVE  LET d == Load(desk.file)
         IN /\ Good(d) /\ d.order = desk.file.order /\ d.hidden = desk.file.hidden
            /\ d.file = desk.file
<1> DEFINE f == desk.file
           d == Load(f)
<1>1. Good(desk)
  BY InvFacts
<1>2. f \in Arrangement /\ f.order \in Seq(Session) /\ f.hidden \in SUBSET Session
  BY <1>1, DeskParts DEF Good
<1>3. Arranged(f)
  BY <1>1 DEF Good
<1> HIDE DEF f
<1>4. d \in DeskState /\ d.order = f.order /\ d.hidden = f.hidden /\ d.file = f
  BY <1>2 DEF Load, NewDesk, DeskState
<1> HIDE DEF d
<1>5. Good(d)
  BY <1>3, <1>4 DEF Good, Arranged
<1> QED BY <1>4, <1>5 DEF d, f

(* A restart keeps the invariant.                                          *)
LEMMA RestartKeeps ==
  ASSUME IInv, Restart
  PROVE  /\ UNCHANGED <<live, attached, reborn>>
         /\ desk' \in DeskState /\ Arranged(desk') /\ shown' = NotBuilt
         /\ FocusOnDesk' /\ KeepInv'
<1> DEFINE d == Load(desk.file)
<1>1. TypeOK /\ KeepInv
  BY DEF IInv
<1>2. /\ Good(d) /\ d.order = desk.file.order /\ d.hidden = desk.file.hidden /\ d.file = desk.file
  BY <1>1, LoadFacts
<1>3. desk' = d /\ shown' = NotBuilt /\ UNCHANGED <<live, attached, reborn>>
  BY DEF Restart
<1> HIDE DEF d
<1>4. KeepInv'
  <2>1. Arranged(d.file) /\ Linked(d, live, reborn)
    BY <1>2, LinkedSaved DEF Good
  <2>2. In(d.order) \cup In(d.file.order) \subseteq In(live) \cup reborn
    BY <1>1, <1>2 DEF KeepInv
  <2> QED BY <1>3, <2>1, <2>2 DEF KeepInv
<1>5. d.hidden \subseteq Session
  BY <1>2, DeskParts DEF Good
<1>6. FocusOnDesk'
  BY <1>3, <1>5, SessionAssumption DEF FocusOnDesk, NotBuilt
<1> QED BY <1>2, <1>3, <1>4, <1>6 DEF Good

(* Every step keeps it.                                                    *)
LEMMA NextKeeps ==
  ASSUME IInv, [Next]_vars
  PROVE  IInv'
<1>1. TypeOK /\ KeepInv /\ FocusOnDesk
  BY DEF IInv
<1>2. Steps /\ moves' \in 0 .. MaxMoves
  BY <1>1, EveryStep, MovesBounded
<1>3. CASE Quiet
  <2>1. desk' = desk /\ shown' = shown
    BY <1>3 DEF Quiet
  <2>2. /\ live' \in Seq(Session) /\ Distinct(live') /\ attached' \in Session \cup {NoSession}
        /\ reborn' \subseteq Session /\ FocusOnDesk' /\ KeepInv'
    BY <1>3, QuietKeeps
  <2>3. TypeOK'
    BY <1>1, <1>2, <2>1, <2>2 DEF TypeOK
  <2> QED BY <2>2, <2>3 DEF IInv
<1>4. CASE Restart
  <2>1. /\ UNCHANGED <<live, attached, reborn>>
        /\ desk' \in DeskState /\ Arranged(desk') /\ shown' = NotBuilt
        /\ FocusOnDesk' /\ KeepInv'
    BY <1>4, RestartKeeps
  <2>2. shown' \in Shown /\ Distinct(shown'.sessions)
    BY <2>1 DEF NotBuilt, Shown, Distinct
  <2>3. TypeOK'
    BY <1>1, <1>2, <2>1, <2>2 DEF TypeOK, Arranged
  <2> QED BY <2>1, <2>3 DEF IInv
<1>5. ASSUME NEW d, Effect(d) PROVE IInv'
  <2>1. Encode(d) /\ Fit(d, live', Gone) /\ Listing(live') /\ attached' \in Whoever
    BY <1>5 DEF Effect
  <2>2. /\ desk' \in DeskState /\ Arranged(desk') /\ shown' \in Shown
        /\ Distinct(shown'.sessions) /\ reborn' \subseteq Session
        /\ FocusOnDesk' /\ KeepInv'
    BY <1>1, <2>1, EncodeFacts
  <2>3. TypeOK'
    BY <1>2, <2>1, <2>2 DEF TypeOK, Arranged, Listing, Whoever
  <2> QED BY <2>2, <2>3 DEF IInv
<1> QED BY <1>2, <1>3, <1>4, <1>5 DEF Steps

(* The inductive invariant.                                                *)
THEOREM Invariance == Spec => []IInv
BY InitKeeps, NextKeeps, PTL DEF Spec

(* For any sessions and kinds of metadata, the order and what is shown     *)
(* name no session twice, and only sessions of the order are hidden (Sync, *)
(* Hide, Reorder, Apply).                                                  *)
THEOREM TypeCorrect == Spec => []TypeOK
<1>1. IInv => TypeOK
  BY DEF IInv
<1> QED BY <1>1, Invariance, PTL

(* The state that was built last focuses one of the sessions it shows, and *)
(* does not hide the one its user is in (Build).                           *)
THEOREM FocusCorrect == Spec => []FocusOnDesk
<1>1. IInv => FocusOnDesk
  BY DEF IInv
<1> QED BY <1>1, Invariance, PTL

(* The invariant says what the file would give back.                       *)
LEMMA FileKeeps ==
  ASSUME IInv
  PROVE  FileKeepsArrangement
<1> DEFINE f == Load(desk.file)
           now == Built(desk, live, attached)
           again == Built(f, live, attached)
<1>1. TypeOK /\ KeepInv
  BY DEF IInv
<1>2. Good(desk) /\ Listing(live) /\ attached \in Whoever /\ Linked(desk, live, reborn)
  BY <1>1, InvFacts
<1>3. Good(f) /\ f.order = desk.file.order /\ f.hidden = desk.file.hidden
  BY <1>1, LoadFacts
<1> HIDE DEF f
<1>4. /\ \A x, y : Before(now.order, x, y) <=>
                     x \in In(live) /\ y \in In(live) /\ Comes(desk.order, live, x, y)
      /\ now.hidden = (desk.hidden \cap In(live)) \ {attached}
  BY <1>2, BuiltFacts
<1>5. /\ \A x, y : Before(again.order, x, y) <=>
                     x \in In(live) /\ y \in In(live) /\ Comes(f.order, live, x, y)
      /\ again.hidden = (f.hidden \cap In(live)) \ {attached}
  BY <1>2, <1>3, BuiltFacts
<1> HIDE DEF now, again
<1>6. ASSUME NEW a \in In(live) \ reborn, NEW b \in In(live) \ reborn
      PROVE  /\ Before(now.order, a, b) => Before(again.order, a, b)
             /\ a \in now.hidden <=> a \in again.hidden
  <2>1. /\ Comes(desk.order, live, a, b) => Comes(desk.file.order, live, a, b)
        /\ a \in desk.hidden <=> a \in desk.file.hidden
    BY <1>2, <1>6 DEF Linked
  <2> QED BY <1>3, <1>4, <1>5, <2>1
<1> QED BY <1>6 DEF FileKeepsArrangement, now, again, f

(* However many sessions open and end between the builds, a restart gives  *)
(* back the order and the hidden sessions, of all sessions that did not    *)
(* die since the file was written (Sync, save, Load).                      *)
THEOREM ArrangementCorrect == Spec => []FileKeepsArrangement
BY Invariance, FileKeeps, PTL

(* One step changes the order of two sessions only at the user's wish.     *)
LEMMA OrderStep ==
  ASSUME IInv, [Next]_vars, NEW a \in Session, NEW b \in Session,
         Before(desk.order, a, b), Before(desk'.order, b, a)
  PROVE  \/ \E s \in {a, b}, delta \in {-1, 1} : ReorderSession(s, delta)
         \/ {a, b} \cap reborn # {}
<1>1. TypeOK /\ KeepInv
  BY DEF IInv
<1>2. Steps
  BY <1>1, EveryStep
<1>3. /\ Distinct(desk.order) /\ Distinct(desk.file.order)
      /\ desk.order \in Seq(Session) /\ desk.file.order \in Seq(Session)
  BY <1>1, InvFacts, DeskParts DEF Good, Arranged
<1>4. ~Before(desk.order, b, a)
  BY <1>3, DistinctOrders
<1>5. CASE Quiet
  BY <1>4, <1>5 DEF Quiet
<1>6. CASE Restart
  <2>1. Before(desk.file.order, b, a)
    <3>1. desk' = Load(desk.file)
      BY <1>6 DEF Restart
    <3> QED BY <1>1, <3>1, LoadFacts
  <2>2. ~Before(desk.file.order, a, b) /\ a \in In(desk.file.order) /\ b \in In(desk.file.order)
    BY <1>3, <2>1, DistinctOrders, BeforeIn
  <2>3. ~Comes(desk.file.order, live, a, b) /\ Comes(desk.order, live, a, b)
    BY <2>2 DEF Comes
  <2>4. a \in In(live) \cup reborn /\ b \in In(live) \cup reborn
    BY <1>1, InvFacts, BeforeIn
  <2>5. ~(a \in In(live) \ reborn /\ b \in In(live) \ reborn)
    BY <1>1, <2>3, InvFacts DEF Linked
  <2> QED BY <2>4, <2>5
<1>7. ASSUME NEW d, Effect(d)
      PROVE  \E s \in {a, b}, delta \in {-1, 1} : ReorderSession(s, delta)
  BY <1>7 DEF Effect
<1> QED BY <1>2, <1>5, <1>6, <1>7 DEF Steps

(* No build, focus, hiding or restart changes the order of two sessions:   *)
(* the user moves one of them, or one died and came back (Sync, Reorder).  *)
THEOREM OrderCorrect == Spec => OnlyUserReorders
<1>1. IInv /\ [Next]_vars =>
        [\A a, b \in Session :
           Before(desk.order, a, b) /\ Before(desk'.order, b, a)
             => \/ \E s \in {a, b}, delta \in {-1, 1} : ReorderSession(s, delta)
                \/ {a, b} \cap reborn # {}]_vars
  BY OrderStep
<1> QED BY <1>1, Invariance, PTL DEF Spec, OnlyUserReorders

(* One step removes metadata of a shown session only if it is cleared.     *)
LEMMA MetadataStep ==
  ASSUME IInv, [Next]_vars, NEW s \in Session, NEW k \in Kind,
         s \in In(shown'.sessions), k \in desk.meta[s], k \notin desk'.meta[s]
  PROVE  ClearMetadata(s, k) \/ Restart
<1>1. TypeOK /\ KeepInv
  BY DEF IInv
<1>2. Steps
  BY <1>1, EveryStep
<1>3. CASE Quiet
  BY <1>3 DEF Quiet
<1>4. ASSUME NEW d, Effect(d) PROVE ClearMetadata(s, k)
  <2>1. Encode(d) /\ Fit(d, live', Gone) /\ Listing(live') /\ attached' \in Whoever
    BY <1>4 DEF Effect
  <2>2. desk'.meta[s] = d.meta[s]
    BY <1>1, <2>1, EncodeFacts
  <2> QED BY <1>4, <2>2 DEF Effect
<1> QED BY <1>2, <1>3, <1>4 DEF Steps

(* What was reported of a session that is shown stays until it is cleared  *)
(* or the server restarts (PruneSessions).                                 *)
THEOREM MetadataCorrect == Spec => MetadataKept
<1>1. IInv /\ [Next]_vars =>
        [\A s \in Session, k \in Kind :
           s \in In(shown'.sessions) /\ k \in desk.meta[s] /\ k \notin desk'.meta[s]
             => ClearMetadata(s, k) \/ Restart]_vars
  BY MetadataStep
<1> QED BY <1>1, Invariance, PTL DEF Spec, MetadataKept
=============================================================================
