--------------------------- MODULE MonitorProofs ---------------------------
(***************************************************************************)
(* Proofs about Monitor, for any worlds, capacity and bounds: the state has *)
(* its type, the cursor stays on a world, keys mean what is drawn, and a    *)
(* deleted world comes back once at most.                                  *)
(***************************************************************************)
EXTENDS Monitor, FiniteSetTheorems, SequenceTheorems, TLAPS

(* The invariants that the proofs go by. *)

\* What makes CursorOnWorld and KeysMeanWhatIsDrawn provable: while the loop waits for a
\* key, the screen shows the state that the key will meet.
UiInv ==
  /\ CursorOnWorld
  /\ pc = "start" => app.selected = 0
  /\ pc = "poll" => screen = Drawn(app)

\* What is on its way to the main loop, and the snapshots in it that bring world w back:
\* those that have w after the TUI is told that it is deleted.
Coming == inbox \o wire

Stale(w, i) ==
  /\ Coming[i].kind = "StateSnapshot" /\ w \in Listed(Coming[i].worlds)
  /\ ghost[w] > 0 \/ \E j \in 1..(i - 1) : Coming[j] = WorldDeleted(w)

\* What makes ReturnsOnce inductive: only a world that is gone is told to be, and only one
\* snapshot was taken before that and comes after it, be it on its way or with the scan loop.
ReturnInv ==
  \A w \in Worlds :
    /\ fate[w] # "gone" =>
         ghost[w] = 0 /\ removing # w /\ \A i \in DOMAIN Coming : Coming[i] # WorldDeleted(w)
    /\ ghost[w] <= 2
    /\ \A i \in DOMAIN Coming : Stale(w, i) =>
         /\ ghost[w] < 2
         /\ w \notin Listed(scan.list)
         /\ \A k \in DOMAIN Coming : Stale(w, k) => k = i
    /\ ghost[w] = 2 => w \notin Listed(scan.list)

-----------------------------------------------------------------------------
(* Lemmas about lists of worlds and messages. *)

\* A list of worlds is a sequence (tui/mod.rs:42).
LEMMA ListsAreSequences ==
  /\ Lists \subseteq Seq(Worlds)
  /\ <<>> \in Lists
<1>1. IsFiniteSet(Worlds) /\ Cardinality(Worlds) \in Nat
  BY MonitorAssumption, FS_CardinalityType
<1>2. Lists \subseteq Seq(Worlds)
  BY <1>1 DEF Lists
<1>3. <<>> \in [1..0 -> Worlds] /\ DOMAIN <<>> = {}
  OBVIOUS
<1>4. 0 \in 0..Cardinality(Worlds)
  BY <1>1
<1> QED BY <1>2, <1>3, <1>4 DEF Lists

\* A sequence of worlds without repetition is a list.
LEMMA ListMade ==
  ASSUME NEW s \in Seq(Worlds), \A i, j \in 1..Len(s) : s[i] = s[j] => i = j
  PROVE  s \in Lists
<1>1. IsFiniteSet(Worlds) /\ Cardinality(Worlds) \in Nat
  BY MonitorAssumption, FS_CardinalityType
<1>2. s \in [1..Len(s) -> Worlds] /\ Len(s) \in Nat
  OBVIOUS
<1>3. s \in Injection(1..Len(s), Worlds)
  BY <1>2 DEF Injection, IsInjective
<1>4. Cardinality(1..Len(s)) = Len(s)
  <2>1. 1 \in Int /\ Len(s) \in Int
    BY <1>2
  <2>2. Cardinality(1..Len(s)) = IF 1 > Len(s) THEN 0 ELSE Len(s) - 1 + 1
    BY <2>1, FS_Interval
  <2> QED BY <1>2, <2>2
<1>5. Len(s) <= Cardinality(Worlds)
  BY <1>1, <1>3, <1>4, FS_Injection
<1> DEFINE L(n) == [1..n -> Worlds]
<1>6. Len(s) \in 0..Cardinality(Worlds) /\ s \in L(Len(s)) /\ DOMAIN s = 1..Len(s)
  BY <1>1, <1>2, <1>5
<1> HIDE DEF L
<1>7. s \in UNION {L(n) : n \in 0..Cardinality(Worlds)}
  BY <1>6
<1> USE DEF L
<1> QED BY <1>6, <1>7 DEF Lists

\* list_worlds names each world there is once (trunk.rs:160-182).
LEMMA ListingsAreLists ==
  ASSUME NEW list \in Listings
  PROVE  list \in Lists /\ Listed(list) = There
<1>1. There \subseteq Worlds /\ IsFiniteSet(There) /\ Cardinality(There) \in Nat
  BY MonitorAssumption, FS_Subset, FS_CardinalityType DEF There
<1>2. list \in [1..Cardinality(There) -> There] /\ Listed(list) = There
  BY DEF Listings
<1>3. list \in Surjection(1..Cardinality(There), There)
  BY <1>2 DEF Surjection, Listed
<1>4. IsFiniteSet(1..Cardinality(There)) /\ Cardinality(1..Cardinality(There)) = Cardinality(There)
  BY <1>1, FS_Interval
<1>5. list \in Injection(1..Cardinality(There), There)
  BY <1>3, <1>4, FS_Surjection
<1>6. list \in Seq(Worlds) /\ Len(list) = Cardinality(There)
  BY <1>1, <1>2
<1> QED BY <1>2, <1>5, <1>6, ListMade DEF Injection, IsInjective

\* retain leaves a list of the other worlds (tui/mod.rs:57).
LEMMA WithoutIsList ==
  ASSUME NEW list \in Lists, NEW w \in Worlds
  PROVE  Without(list, w) \in Lists /\ Listed(Without(list, w)) = Listed(list) \ {w}
<1>1. list \in Seq(Worlds) /\ Len(list) \in Nat /\ DOMAIN list = 1..Len(list)
  BY ListsAreSequences
<1>2. \A i, j \in DOMAIN list : list[i] = list[j] => i = j
  BY DEF Lists
<1>3. CASE w \notin Listed(list)
  BY <1>3 DEF Without
<1>4. CASE w \in Listed(list)
  <2> DEFINE i == CHOOSE k \in DOMAIN list : list[k] = w
             a == SubSeq(list, 1, i - 1)
             b == SubSeq(list, i + 1, Len(list))
  <2>1. i \in 1..Len(list) /\ list[i] = w
    BY <1>1, <1>4 DEF Listed
  <2>2. Without(list, w) = a \o b
    BY <1>4 DEF Without
  <2> HIDE DEF i
  <2>3. \A k \in 1..Len(list) : list[k] \in Worlds
    BY <1>1
  <2>4. a \in Seq(Worlds) /\ Len(a) = i - 1 /\ \A k \in 1..(i - 1) : a[k] = list[k]
    <3>1. \A k \in 1..(i - 1) : list[k] \in Worlds
      BY <1>1, <2>1, <2>3
    <3> QED BY <1>1, <2>1, <3>1, SubSeqProperties
  <2>5. b \in Seq(Worlds) /\ Len(b) = Len(list) - i
        /\ \A k \in 1..(Len(list) - i) : b[k] = list[k + i]
    <3>1. \A k \in (i + 1)..Len(list) : list[k] \in Worlds
      BY <1>1, <2>1, <2>3
    <3>2. i + 1 \in 1..(Len(list) + 1) /\ Len(list) - (i + 1) + 1 = Len(list) - i
      BY <1>1, <2>1
    <3>3. b \in Seq(Worlds) /\ Len(b) = Len(list) - i
      <4>1. i + 1 \in Int /\ Len(list) \in Int
        BY <1>1, <2>1
      <4>2. /\ b \in Seq(Worlds)
            /\ Len(b) = IF i + 1 <= Len(list) THEN Len(list) - (i + 1) + 1 ELSE 0
        BY <3>1, <4>1, SubSeqProperties
      <4>3. CASE i + 1 <= Len(list)
        BY <3>2, <4>2, <4>3
      <4>4. CASE i = Len(list)
        <5>1. ~(i + 1 <= Len(list)) /\ Len(list) - i = 0
          BY <1>1, <4>4
        <5> QED BY <4>2, <5>1
      <4>5. i \in Int /\ Len(list) \in Int /\ i <= Len(list)
        BY <1>1, <2>1
      <4>6. i + 1 <= Len(list) \/ i = Len(list)
        BY <4>5
      <4> QED BY <4>3, <4>4, <4>6
    <3>4. ASSUME NEW k \in 1..(Len(list) - i) PROVE b[k] = list[k + i]
      <4>1. i + 1 \in Int /\ Len(list) \in Int /\ k \in 1..(Len(list) - (i + 1) + 1)
        BY <1>1, <2>1, <3>2
      <4>2. b[k] = list[(i + 1) + k - 1]
        BY <3>1, <4>1, SubSeqProperties
      <4>3. (i + 1) + k - 1 = k + i
        BY <1>1, <2>1
      <4> QED BY <4>2, <4>3
    <3> QED BY <3>3, <3>4
  <2> HIDE DEF a, b
  <2>6. /\ a \o b \in Seq(Worlds) /\ Len(a \o b) = Len(list) - 1
        /\ \A k \in 1..(Len(list) - 1) : (a \o b)[k] = IF k <= i - 1 THEN a[k] ELSE b[k - (i - 1)]
    <3>1. Len(a) + Len(b) = Len(list) - 1 /\ Len(a) = i - 1
      BY <1>1, <2>1, <2>4, <2>5
    <3>2. /\ a \o b \in Seq(Worlds) /\ Len(a \o b) = Len(a) + Len(b)
          /\ \A k \in 1..(Len(a) + Len(b)) :
               (a \o b)[k] = IF k <= Len(a) THEN a[k] ELSE b[k - Len(a)]
      BY <2>4, <2>5, ConcatProperties
    <3> QED BY <3>1, <3>2
  <2> DEFINE c == a \o b
  <2>7. /\ c \in Seq(Worlds) /\ Len(c) = Len(list) - 1 /\ DOMAIN c = 1..(Len(list) - 1)
        /\ \A k \in 1..(Len(list) - 1) : c[k] = IF k < i THEN list[k] ELSE list[k + 1]
    <3>1. c \in Seq(Worlds) /\ Len(c) = Len(list) - 1
      BY <2>6
    <3>2. ASSUME NEW k \in 1..(Len(list) - 1)
          PROVE  c[k] = IF k < i THEN list[k] ELSE list[k + 1]
      <4>1. CASE k < i
        <5>1. k \in 1..(i - 1) /\ k <= i - 1
          BY <1>1, <2>1, <4>1
        <5>2. c[k] = a[k]
          BY <2>6, <5>1
        <5> QED BY <2>4, <4>1, <5>1, <5>2
      <4>2. CASE ~(k < i)
        <5>1. /\ ~(k <= i - 1) /\ k - (i - 1) \in 1..(Len(list) - i)
              /\ k - (i - 1) + i = k + 1
          BY <1>1, <2>1, <4>2
        <5>2. c[k] = b[k - (i - 1)]
          BY <2>6, <5>1
        <5>3. b[k - (i - 1)] = list[k - (i - 1) + i]
          BY <2>5, <5>1
        <5> QED BY <4>2, <5>1, <5>2, <5>3
      <4> QED BY <4>1, <4>2
    <3>3. DOMAIN c = 1..(Len(list) - 1)
      BY <3>1
    <3> HIDE DEF c
    <3> QED BY <3>1, <3>2, <3>3
  <2> HIDE DEF c
  <2>8. c \in Lists
    <3>1. \A j, k \in 1..Len(c) : c[j] = c[k] => j = k
      <4> DEFINE at(k) == IF k < i THEN k ELSE k + 1
      <4>1. \A k \in 1..Len(c) : at(k) \in DOMAIN list /\ c[k] = list[at(k)]
        BY <1>1, <2>1, <2>7
      <4>2. \A j, k \in 1..Len(c) : at(j) = at(k) => j = k
        BY <1>1, <2>1, <2>7
      <4> HIDE DEF at
      <4> QED BY <1>2, <4>1, <4>2
    <3> QED BY <2>7, <3>1, ListMade
  <2>9. Listed(c) = Listed(list) \ {w}
    <3>1. Listed(c) \subseteq Listed(list) \ {w}
      <4>1. ASSUME NEW k \in 1..(Len(list) - 1) PROVE c[k] \in Listed(list) /\ c[k] # w
        <5>1. CASE k < i
          <6>1. k \in DOMAIN list /\ k # i /\ i \in DOMAIN list /\ c[k] = list[k]
            BY <1>1, <2>1, <2>7, <5>1
          <6> QED BY <1>2, <2>1, <6>1 DEF Listed
        <5>2. CASE ~(k < i)
          <6>1. k + 1 \in DOMAIN list /\ k + 1 # i /\ i \in DOMAIN list /\ c[k] = list[k + 1]
            BY <1>1, <2>1, <2>7, <5>2
          <6> QED BY <1>2, <2>1, <6>1 DEF Listed
        <5> QED BY <5>1, <5>2
      <4> QED BY <2>7, <4>1 DEF Listed
    <3>2. ASSUME NEW k \in 1..Len(list), list[k] # w PROVE list[k] \in Listed(c)
      <4>1. CASE k < i
        <5>1. k \in DOMAIN c /\ c[k] = list[k]
          BY <1>1, <2>1, <2>7, <4>1
        <5> QED BY <5>1 DEF Listed
      <4>2. CASE k > i
        <5>1. k - 1 \in 1..(Len(list) - 1) /\ ~(k - 1 < i) /\ (k - 1) + 1 = k
          BY <1>1, <2>1, <4>2
        <5>2. k - 1 \in DOMAIN c /\ c[k - 1] = list[k]
          BY <2>7, <5>1
        <5> QED BY <5>2 DEF Listed
      <4>3. k # i
        BY <2>1, <3>2
      <4> QED BY <1>1, <2>1, <4>1, <4>2, <4>3
    <3> QED BY <1>1, <3>1, <3>2 DEF Listed
  <2>10. Without(list, w) = c
    BY <2>2 DEF c
  <2> QED BY <2>8, <2>9, <2>10
<1> QED BY <1>3, <1>4

-----------------------------------------------------------------------------
(* Lemmas about messages and the state of the TUI. *)

\* A message is a snapshot of a list of worlds, the end of one, or a notification (types.rs).
LEMMA MessageKinds ==
  ASSUME NEW m \in Messages
  PROVE  \/ m.kind = "StateSnapshot" /\ m.worlds \in Lists
         \/ /\ m.kind = "WorldDeleted" /\ m.world \in Worlds
            /\ \A w \in Worlds : m = WorldDeleted(w) <=> w = m.world
         \/ m.kind = "EventNotification"
  BY DEF Messages, Snapshot, WorldDeleted, EventNotification

\* What the daemon sends is a message (roots.rs:139, mod.rs:55, 73 and 106).
LEMMA MessagesMade ==
  /\ \A list \in Lists : Snapshot(list) \in Messages
  /\ \A w \in Worlds : WorldDeleted(w) \in Messages
  /\ \A e \in Events : EventNotification(e) \in Messages
  BY DEF Messages

\* What is drawn of the state of the TUI is a world or nothing (tui/mod.rs:232-240).
LEMMA DrawnIsWorld ==
  ASSUME NEW a \in AppState
  PROVE  /\ Cursor(a) \in Worlds \union {NoWorld}
         /\ Drawn(a) \in [cursor : Worlds \union {NoWorld}, confirm : Worlds \union {NoWorld}]
<1>1. a.worlds \in Seq(Worlds) /\ a.selected \in Nat /\ a.confirm \in Worlds \union {NoWorld}
  BY ListsAreSequences DEF AppState
<1>2. Cursor(a) \in Worlds \union {NoWorld}
  <2>1. CASE a.selected < Len(a.worlds)
    <3>1. a.selected + 1 \in 1..Len(a.worlds)
      BY <1>1, <2>1
    <3> QED BY <1>1, <2>1, <3>1 DEF Cursor
  <2> QED BY <2>1 DEF Cursor
<1> QED BY <1>1, <1>2 DEF Drawn

\* Clamping leaves the cursor on a world if there is one, and touches nothing else
\* (tui/mod.rs:46 and 59).
LEMMA ClampKeeps ==
  ASSUME NEW a \in AppState
  PROVE  /\ Clamp(a) \in AppState
         /\ Clamp(a).worlds = a.worlds /\ Clamp(a).confirm = a.confirm
         /\ Clamp(a).worlds # <<>> => Clamp(a).selected < Len(Clamp(a).worlds)
<1>1. a.worlds \in Seq(Worlds) /\ a.selected \in Nat
  BY ListsAreSequences DEF AppState
<1>2. CASE a.selected >= Len(a.worlds) /\ a.worlds # <<>>
  <2> DEFINE t == [a EXCEPT !.selected = Len(a.worlds) - 1]
  <2>1. Len(a.worlds) - 1 \in Nat /\ Len(a.worlds) - 1 < Len(a.worlds)
    BY <1>1, <1>2
  <2>2. /\ t \in AppState
        /\ t.worlds = a.worlds /\ t.confirm = a.confirm /\ t.selected = Len(a.worlds) - 1
    BY <2>1 DEF AppState
  <2>3. Clamp(a) = t
    BY <1>2 DEF Clamp
  <2> HIDE DEF t
  <2> QED BY <2>1, <2>2, <2>3
<1>3. CASE ~(a.selected >= Len(a.worlds) /\ a.worlds # <<>>)
  <2>1. Clamp(a) = a
    BY <1>3 DEF Clamp
  <2>2. a.worlds # <<>> => a.selected < Len(a.worlds)
    BY <1>1, <1>3
  <2> QED BY <2>1, <2>2
<1> QED BY <1>2, <1>3

\* What a message makes of the state of the TUI: a state with the list of the snapshot, or
\* without the deleted world, and the cursor on a world (tui/mod.rs:40-63).
LEMMA AppliedIsState ==
  ASSUME NEW a \in AppState, NEW m \in Messages
  PROVE  /\ Applied(a, m) \in AppState
         /\ (a.worlds # <<>> => a.selected < Len(a.worlds)) =>
              (Applied(a, m).worlds # <<>> => Applied(a, m).selected < Len(Applied(a, m).worlds))
         /\ m.kind = "StateSnapshot" => Listed(Applied(a, m).worlds) = Listed(m.worlds)
         /\ m.kind # "StateSnapshot" =>
              Listed(Applied(a, m).worlds) \subseteq Listed(a.worlds)
         /\ Applied(a, m).confirm \in {NoWorld, a.confirm}
<1>1. CASE m.kind = "StateSnapshot"
  <2> DEFINE t == [a EXCEPT !.worlds = m.worlds]
  <2>1. m.worlds \in Lists
    BY <1>1, MessageKinds
  <2>2. t \in AppState /\ t.worlds = m.worlds /\ t.confirm = a.confirm
    BY <2>1 DEF AppState
  <2>3. Applied(a, m) = Clamp(t)
    BY <1>1 DEF Applied
  <2> HIDE DEF t
  <2> QED BY <1>1, <2>2, <2>3, ClampKeeps
<1>2. CASE m.kind = "WorldDeleted"
  <2> DEFINE t == [a EXCEPT !.worlds = Without(@, m.world), !.confirm = NoWorld]
  <2>1. m.world \in Worlds /\ a.worlds \in Lists
    BY <1>2, MessageKinds DEF AppState
  <2>2. /\ Without(a.worlds, m.world) \in Lists
        /\ Listed(Without(a.worlds, m.world)) = Listed(a.worlds) \ {m.world}
    BY <2>1, WithoutIsList
  <2>3. t \in AppState /\ t.worlds = Without(a.worlds, m.world) /\ t.confirm = NoWorld
    BY <2>2 DEF AppState
  <2>4. Applied(a, m) = Clamp(t)
    BY <1>2 DEF Applied
  <2> HIDE DEF t
  <2> QED BY <1>2, <2>2, <2>3, <2>4, ClampKeeps
<1>3. CASE m.kind = "EventNotification"
  <2>1. Applied(a, m) = a
    BY <1>3 DEF Applied
  <2> QED BY <1>3, <2>1
<1> QED BY <1>1, <1>2, <1>3, MessageKinds

-----------------------------------------------------------------------------
(* Lemmas about the channel to the TUI. *)

\* A crowded channel gives up one message, the first or the one after it, and keeps the
\* order of the others (server.rs:27; its receiver may be in the middle of a line).
LEMMA CrowdedDrops ==
  ASSUME NEW W, wire \in Seq(W), Len(wire) >= 2, part \in {"none", "read", "lost"}
  PROVE  /\ Crowded \in Seq(W) /\ Len(Crowded) = Len(wire) - 1
         /\ \E d \in 1..2 : \A i \in 1..Len(Crowded) :
              Crowded[i] = IF i < d THEN wire[i] ELSE wire[i + 1]
<1>1. /\ wire # <<>> /\ Tail(wire) \in Seq(W) /\ Len(Tail(wire)) = Len(wire) - 1
      /\ \A i \in 1..(Len(wire) - 1) : Tail(wire)[i] = wire[i + 1]
  <2>1. wire # <<>>
    OBVIOUS
  <2> QED BY <2>1, HeadTailProperties
<1>2. CASE part = "none"
  <2>1. Crowded = Tail(wire)
    BY <1>2 DEF Crowded
  <2>2. \A i \in 1..Len(Crowded) : Crowded[i] = IF i < 1 THEN wire[i] ELSE wire[i + 1]
    BY <1>1, <2>1
  <2> QED BY <1>1, <2>1, <2>2
<1>3. CASE part # "none"
  <2> DEFINE r == Tail(wire)
             h == <<Head(wire)>>
             q == Tail(r)
  <2>1. /\ q \in Seq(W) /\ Len(q) = Len(wire) - 2
        /\ \A i \in 1..(Len(wire) - 2) : q[i] = wire[i + 2]
    <3> HIDE DEF r
    <3>1. r \in Seq(W) /\ Len(r) = Len(wire) - 1 /\ r # <<>>
          /\ \A i \in 1..(Len(wire) - 1) : r[i] = wire[i + 1]
      <4>1. r \in Seq(W) /\ Len(r) = Len(wire) - 1
            /\ \A i \in 1..(Len(wire) - 1) : r[i] = wire[i + 1]
        BY <1>1 DEF r
      <4> QED BY <4>1
    <3>2. /\ q \in Seq(W) /\ Len(q) = Len(r) - 1
          /\ \A i \in 1..(Len(r) - 1) : q[i] = r[i + 1]
      BY <3>1, HeadTailProperties
    <3> HIDE DEF q
    <3>3. ASSUME NEW i \in 1..(Len(wire) - 2) PROVE q[i] = wire[i + 2]
      <4>1. /\ i \in 1..(Len(r) - 1) /\ i + 1 \in 1..(Len(wire) - 1)
            /\ (i + 1) + 1 = i + 2
        BY <3>1
      <4> QED BY <3>1, <3>2, <4>1
    <3>4. Len(q) = Len(wire) - 2
      BY <3>1, <3>2
    <3> QED BY <3>2, <3>3, <3>4
  <2>2. h \in Seq(W) /\ Len(h) = 1 /\ h[1] = wire[1]
    <3>1. Head(wire) \in W /\ Head(wire) = wire[1]
      BY <1>1
    <3> QED BY <3>1
  <2>3. Crowded = h \o q
    BY <1>3 DEF Crowded
  <2> HIDE DEF h, q
  <2>4. /\ h \o q \in Seq(W) /\ Len(h \o q) = Len(h) + Len(q)
        /\ \A i \in 1..(Len(h) + Len(q)) :
             (h \o q)[i] = IF i <= Len(h) THEN h[i] ELSE q[i - Len(h)]
    BY <2>1, <2>2, ConcatProperties
  <2>5. Len(h) + Len(q) = Len(wire) - 1
    BY <2>1, <2>2
  <2>6. ASSUME NEW i \in 1..(Len(wire) - 1)
        PROVE  (h \o q)[i] = IF i < 2 THEN wire[i] ELSE wire[i + 1]
    <3>1. CASE i < 2
      <4>1. i = 1 /\ i <= Len(h)
        BY <2>2, <3>1
      <4>2. (h \o q)[i] = h[i]
        BY <2>4, <2>5, <4>1
      <4> QED BY <2>2, <3>1, <4>1, <4>2
    <3>2. CASE ~(i < 2)
      <4>1. ~(i <= Len(h)) /\ i - Len(h) = i - 1 /\ i - 1 \in 1..(Len(wire) - 2)
            /\ (i - 1) + 2 = i + 1
        BY <2>2, <3>2
      <4>2. (h \o q)[i] = q[i - 1]
        BY <2>4, <2>5, <4>1
      <4> QED BY <2>1, <3>2, <4>1, <4>2
    <3> QED BY <3>1, <3>2
  <2>7. Len(Crowded) = Len(wire) - 1 /\ Crowded \in Seq(W)
    BY <2>3, <2>4, <2>5
  <2>8. \A i \in 1..Len(Crowded) : Crowded[i] = IF i < 2 THEN wire[i] ELSE wire[i + 1]
    BY <2>3, <2>6, <2>7
  <2> QED BY <2>7, <2>8
<1> QED BY <1>2, <1>3

\* Broadcasting leaves the wire a bounded sequence of messages: what was on it, in order,
\* but for a message that the channel had no room for, and the new one (server.rs:27).
LEMMA BroadcastAdds ==
  ASSUME wire \in Seq(Messages), Len(wire) <= Capacity, part \in {"none", "read", "lost"},
         part # "none" => wire # <<>>,
         NEW m \in Messages, Broadcast(m)
  PROVE  /\ wire' \in Seq(Messages) /\ Len(wire') <= Capacity
         /\ part # "none" => wire' # <<>>
         /\ \/ wire' = wire
            \/ \E rest \in Seq(Messages) :
                 /\ wire' = Append(rest, m)
                 /\ \/ rest = wire
                    \/ /\ Len(rest) = Len(wire) - 1
                       /\ \E d \in 1..2 : \A i \in 1..Len(rest) :
                            rest[i] = IF i < d THEN wire[i] ELSE wire[i + 1]
<1>1. CASE ~Connected
  BY <1>1 DEF Broadcast
<1>2. CASE Connected
  <2>1. Capacity \in Nat /\ Capacity >= 2 /\ Len(wire) \in Nat
    BY MonitorAssumption
  <2>2. CASE Len(wire) < Capacity
    <3>1. wire' = Append(wire, m)
      BY <1>2, <2>2 DEF Broadcast
    <3>2. Len(wire') = Len(wire) + 1 /\ wire' \in Seq(Messages) /\ wire' # <<>>
      BY <3>1, AppendProperties
    <3> QED BY <2>1, <2>2, <3>1, <3>2
  <2>3. CASE ~(Len(wire) < Capacity)
    <3>1. wire' = Append(Crowded, m)
      BY <1>2, <2>3 DEF Broadcast
    <3>2. Len(wire) >= 2 /\ Len(wire) = Capacity
      BY <2>1, <2>3
    <3>3. /\ Crowded \in Seq(Messages) /\ Len(Crowded) = Len(wire) - 1
          /\ \E d \in 1..2 : \A i \in 1..Len(Crowded) :
               Crowded[i] = IF i < d THEN wire[i] ELSE wire[i + 1]
      BY <3>2, CrowdedDrops
    <3>4. wire' \in Seq(Messages) /\ Len(wire') = Len(Crowded) + 1 /\ wire' # <<>>
      BY <3>1, <3>3, AppendProperties
    <3>5. Len(wire') <= Capacity
      BY <2>1, <3>2, <3>3, <3>4
    <3> QED BY <3>1, <3>3, <3>4, <3>5
  <2> QED BY <2>2, <2>3
<1> QED BY <1>1, <1>2

-----------------------------------------------------------------------------
(* The type of the state. *)

\* What is read was waiting (tui/mod.rs:195-196).
LEMMA ReadType == ASSUME TypeOK, Read PROVE typed' \in 0..MaxTyped
  BY MonitorAssumption DEF TypeOK, Read

\* A key changes the state of the TUI only to another state (tui/mod.rs:214-247).
LEMMA KeyType ==
  ASSUME TypeOK, NEW next \in AppState, Key(next)
  PROVE  TypeOK'
<1> DEFINE t == [next EXCEPT !.status = FALSE]
<1>1. t \in AppState
  BY DEF AppState
<1>2. app' = t /\ pc' = "drain" /\ UNCHANGED <<screen, asked, ghost, linkVars, daemonVars>>
  BY DEF Key
<1>3. typed' \in 0..MaxTyped
  BY ReadType DEF Key
<1> HIDE DEF t
<1> QED BY <1>1, <1>2, <1>3 DEF TypeOK, linkVars, daemonVars

\* The actions of the daemon keep the type (roots.rs:120-139, mod.rs:92-114).
LEMMA DaemonType ==
  ASSUME TypeOK,
         \/ \E w \in Worlds : RunStarts(w) \/ RunEnds(w)
         \/ ScanList \/ ScanSend \/ Remove \/ Announce \/ StopDaemon
         \/ \E e \in Events : Notify(e)
  PROVE  TypeOK'
<1> USE DEF linkVars, uiVars
<1>1. ASSUME NEW w \in Worlds, RunStarts(w) PROVE TypeOK'
  BY <1>1 DEF TypeOK, RunStarts
<1>2. ASSUME NEW w \in Worlds, RunEnds(w) PROVE TypeOK'
  BY <1>2 DEF TypeOK, RunEnds
<1>3. CASE ScanList
  <2>1. PICK list \in Listings : scan' = [pc |-> "listed", list |-> list]
    BY <1>3 DEF ScanList
  <2>2. list \in Lists
    BY ListingsAreLists
  <2>3. scan' \in [pc : {"asleep", "listed"}, list : Lists]
    BY <2>1, <2>2
  <2> QED BY <1>3, <2>3 DEF TypeOK, ScanList
<1>4. CASE ScanSend
  <2>1. Snapshot(scan.list) \in Messages
    BY MessagesMade DEF TypeOK
  <2>2. /\ wire' \in Seq(Messages) /\ Len(wire') <= Capacity
        /\ part # "none" => wire' # <<>>
    BY <1>4, <2>1, BroadcastAdds DEF TypeOK, ScanSend
  <2>3. scan' \in [pc : {"asleep", "listed"}, list : Lists]
    BY <1>4, ListsAreSequences DEF ScanSend
  <2> QED BY <1>4, <2>2, <2>3 DEF TypeOK, ScanSend
<1>5. CASE Remove
  <2>1. Head(requests) \in Worlds /\ Tail(requests) \in Seq(Worlds)
    BY <1>5 DEF TypeOK, Remove
  <2> QED BY <1>5, <2>1, ZenonT(60) DEF TypeOK, Remove
<1>6. CASE Announce
  <2>1. WorldDeleted(removing) \in Messages
    BY <1>6, MessagesMade DEF TypeOK, Announce
  <2>2. /\ wire' \in Seq(Messages) /\ Len(wire') <= Capacity
        /\ part # "none" => wire' # <<>>
    BY <1>6, <2>1, BroadcastAdds DEF TypeOK, Announce
  <2> QED BY <1>6, <2>2 DEF TypeOK, Announce
<1>7. CASE StopDaemon
  <2>1. scan' \in [pc : {"asleep", "listed"}, list : Lists]
    BY <1>7, ListsAreSequences DEF StopDaemon
  <2> QED BY <1>7, <2>1 DEF TypeOK, StopDaemon
<1>8. ASSUME NEW e \in Events, Notify(e) PROVE TypeOK'
  <2>1. EventNotification(e) \in Messages
    BY MessagesMade
  <2>2. /\ wire' \in Seq(Messages) /\ Len(wire') <= Capacity
        /\ part # "none" => wire' # <<>>
    BY <1>8, <2>1, BroadcastAdds DEF TypeOK, Notify
  <2> QED BY <1>8, <2>2 DEF TypeOK, Notify, daemonVars
<1> QED BY <1>1, <1>2, <1>3, <1>4, <1>5, <1>6, <1>7, <1>8

\* A thread that ends leaves nothing behind (tui/mod.rs:73-76, 85, 96).
LEMMA EndsType ==
  ASSUME ThreadEnds
  PROVE  /\ thread' = "dead" /\ part' = "none"
         /\ wire' \in Seq(Messages) /\ Len(wire') <= Capacity /\ cmds' \in Seq(Worlds)
<1>1. Len(<<>>) <= Capacity
  BY MonitorAssumption
<1>2. <<>> \in Seq(Messages) /\ <<>> \in Seq(Worlds)
  OBVIOUS
<1> QED BY <1>1, <1>2 DEF ThreadEnds

\* The actions of the IPC thread keep the type (tui/mod.rs:68-105).
LEMMA ThreadType ==
  ASSUME TypeOK, ThreadStep \/ Timeout
  PROVE  TypeOK'
<1> USE DEF daemonVars, uiVars
<1>1. CASE Connect
  BY <1>1, EndsType DEF TypeOK, Connect
<1>2. CASE SendCommand
  <2>1. Head(cmds) \in Worlds /\ Tail(cmds) \in Seq(Worlds)
    BY <1>2 DEF TypeOK, SendCommand
  <2>2. Append(requests, Head(cmds)) \in Seq(Worlds)
    BY <2>1 DEF TypeOK
  <2> QED BY <1>2, <2>1, <2>2, EndsType DEF TypeOK, SendCommand
<1>3. CASE BeginReceive
  BY <1>3 DEF TypeOK, BeginReceive
<1>4. CASE ReceivePart
  BY <1>4 DEF TypeOK, ReceivePart
<1>5. CASE Receive
  <2>1. /\ Head(wire) \in Messages /\ Tail(wire) \in Seq(Messages)
        /\ Len(Tail(wire)) <= Capacity
    <3>1. wire \in Seq(Messages) /\ wire # <<>> /\ Len(wire) \in Nat /\ Len(wire) <= Capacity
      BY <1>5 DEF TypeOK, Receive
    <3>2. /\ Head(wire) \in Messages /\ Tail(wire) \in Seq(Messages)
          /\ Len(Tail(wire)) = Len(wire) - 1
      BY <3>1, HeadTailProperties
    <3> QED BY <3>1, <3>2, MonitorAssumption
  <2>2. Append(inbox, Head(wire)) \in Seq(Messages)
    BY <2>1 DEF TypeOK
  <2> QED BY <1>5, <2>1, <2>2 DEF TypeOK, Receive
<1>6. CASE ReceiveFails
  BY <1>6, EndsType DEF TypeOK, ReceiveFails
<1>7. CASE Timeout
  BY <1>7 DEF TypeOK, Timeout
<1> QED BY <1>1, <1>2, <1>3, <1>4, <1>5, <1>6, <1>7 DEF ThreadStep

\* The actions of the main loop keep the type (tui/mod.rs:189-247).
LEMMA LoopType ==
  ASSUME TypeOK, Start \/ Type \/ KeyStep \/ Quit \/ Quiet \/ Apply \/ Draw
  PROVE  TypeOK'
<1> USE DEF daemonVars, linkVars
<1>1. app \in AppState /\ Cursor(app) \in Worlds \union {NoWorld}
  BY DrawnIsWorld DEF TypeOK
<1>2. CASE Start
  <2>1. PICK list \in Listings : app' = [app EXCEPT !.worlds = list]
    BY <1>2 DEF Start
  <2>2. list \in Lists
    BY ListingsAreLists
  <2>3. app' \in AppState
    BY <1>1, <2>1, <2>2 DEF AppState
  <2>4. Drawn(app') \in [cursor : Worlds \union {NoWorld}, confirm : Worlds \union {NoWorld}]
    BY <2>3, DrawnIsWorld
  <2> QED BY <1>2, <2>3, <2>4 DEF TypeOK, Start
<1>3. CASE KeyUp
  <2>1. [app EXCEPT !.selected = @ - 1] \in AppState
    BY <1>1, <1>3 DEF AppState, KeyUp
  <2> QED BY <1>3, <2>1, KeyType DEF KeyUp
<1>4. CASE KeyDown
  <2>1. [app EXCEPT !.selected = @ + 1] \in AppState
    BY <1>1 DEF AppState
  <2> QED BY <1>4, <2>1, KeyType DEF KeyDown
<1>5. CASE KeyEnter
  <2>1. [app EXCEPT !.detail = TRUE] \in AppState
    BY <1>1 DEF AppState
  <2> QED BY <1>5, <2>1, KeyType DEF KeyEnter
<1>6. CASE KeyEsc
  <2>1. [app EXCEPT !.detail = FALSE] \in AppState
    BY <1>1 DEF AppState
  <2> QED BY <1>6, <2>1, KeyType DEF KeyEsc
<1>7. CASE KeyDelete
  <2>1. [app EXCEPT !.confirm = Cursor(app)] \in AppState
    BY <1>1 DEF AppState
  <2> QED BY <1>7, <2>1, KeyType DEF KeyDelete
<1>8. CASE OtherKey
  BY <1>1, <1>8, KeyType DEF OtherKey
<1>9. CASE Confirm
  <2>1. app' \in AppState
    BY <1>1, <1>9 DEF AppState, Confirm
  <2>2. Drawn(app') \in [cursor : Worlds \union {NoWorld}, confirm : Worlds \union {NoWorld}]
    BY <2>1, DrawnIsWorld
  <2>3. cmds' \in Seq(Worlds)
    <3>1. app.confirm \in Worlds
      BY <1>1, <1>9 DEF AppState, Confirm
    <3> QED BY <1>9, <3>1 DEF TypeOK, Confirm
  <2>4. asked' \in 0..MaxAsked
    BY <1>9, MonitorAssumption DEF TypeOK, Confirm
  <2>5. typed' \in 0..MaxTyped
    BY <1>9, ReadType DEF Confirm
  <2> QED BY <1>9, <2>1, <2>2, <2>3, <2>4, <2>5 DEF TypeOK, Confirm
<1>10. CASE OverlayKey
  <2>1. app' \in AppState
    BY <1>1, <1>10 DEF AppState, OverlayKey
  <2>2. Drawn(app') \in [cursor : Worlds \union {NoWorld}, confirm : Worlds \union {NoWorld}]
    BY <2>1, DrawnIsWorld
  <2>3. typed' \in 0..MaxTyped
    BY <1>10, ReadType DEF OverlayKey
  <2> QED BY <1>10, <2>1, <2>2, <2>3 DEF TypeOK, OverlayKey
<1>11. CASE Quit
  <2>1. <<>> \in Seq(Messages)
    OBVIOUS
  <2>2. typed' \in 0..MaxTyped
    BY <1>11, ReadType DEF Quit
  <2> QED BY <1>11, <2>1, <2>2, EndsType DEF TypeOK, Quit
<1>12. CASE Quiet
  BY <1>12 DEF TypeOK, Quiet
<1>13. CASE Apply
  <2>1. Head(inbox) \in Messages /\ Tail(inbox) \in Seq(Messages)
    BY <1>13 DEF TypeOK, Apply
  <2>2. app' \in AppState
    BY <1>1, <1>13, <2>1, AppliedIsState DEF Apply
  <2>3. ghost' \in [Worlds -> 0..3]
    BY <1>13 DEF TypeOK, Apply, Haunts
  <2> QED BY <1>13, <2>1, <2>2, <2>3 DEF TypeOK, Apply
<1>14. CASE Draw
  <2>1. Drawn(app) \in [cursor : Worlds \union {NoWorld}, confirm : Worlds \union {NoWorld}]
    BY <1>1, DrawnIsWorld
  <2> QED BY <1>14, <2>1 DEF TypeOK, Draw
<1>15. CASE Type
  BY <1>15, MonitorAssumption DEF TypeOK, Type
<1>16. CASE OtherEvent
  <2>1. typed' \in 0..MaxTyped
    BY <1>16, ReadType DEF OtherEvent
  <2> QED BY <1>16, <2>1 DEF TypeOK, OtherEvent
<1> QED BY <1>2, <1>3, <1>4, <1>5, <1>6, <1>7, <1>8, <1>9, <1>10, <1>11, <1>12, <1>13, <1>14,
           <1>15, <1>16 DEF KeyStep

\* The state starts out with its type.
LEMMA InitType == Init => TypeOK
<1> SUFFICES ASSUME Init PROVE TypeOK
  OBVIOUS
<1>1. app \in AppState
  BY ListsAreSequences DEF Init, AppState
<1>2. scan \in [pc : {"asleep", "listed"}, list : Lists]
  BY ListsAreSequences DEF Init
<1>3. Capacity \in Nat /\ MaxAsked \in Nat /\ MaxTyped \in Nat
  BY MonitorAssumption
<1> QED BY <1>1, <1>2, <1>3 DEF Init, TypeOK

\* A step keeps the type.
LEMMA TypeStep == TypeOK /\ [Next]_vars => TypeOK'
<1> SUFFICES ASSUME TypeOK, [Next]_vars PROVE TypeOK'
  OBVIOUS
<1>1. CASE UNCHANGED vars
  BY <1>1 DEF TypeOK, vars, daemonVars, linkVars, uiVars
<1>2. CASE Next
  BY <1>2, DaemonType, ThreadType, LoopType DEF Next
<1> QED BY <1>1, <1>2

\* The state of daemon, thread and main loop always has its type: no list names a world
\* twice, no message names a world that never was, and the channel keeps its capacity.
THEOREM MonitorTypeCorrect == Spec => []TypeOK
<1>1. Init => TypeOK
  BY InitType
<1>2. TypeOK /\ [Next]_vars => TypeOK'
  BY TypeStep
<1> QED BY <1>1, <1>2, PTL DEF Spec

-----------------------------------------------------------------------------
(* The cursor, the screen and the keys. *)

\* UiInv holds in the beginning: nothing is listed.
LEMMA InitUi == Init => UiInv
  BY DEF Init, UiInv, CursorOnWorld

\* A key that leaves the cursor on a world leaves UiInv (tui/mod.rs:189-247).
LEMMA KeyUi ==
  ASSUME NEW next \in AppState, Key(next),
         next.worlds # <<>> => next.selected < Len(next.worlds)
  PROVE  UiInv'
<1> DEFINE t == [next EXCEPT !.status = FALSE]
<1>1. t.worlds = next.worlds /\ t.selected = next.selected
  BY DEF AppState
<1>2. app' = t /\ pc' = "drain"
  BY DEF Key
<1> HIDE DEF t
<1> QED BY <1>1, <1>2 DEF UiInv, CursorOnWorld

\* The daemon and the thread touch neither the state of the TUI nor the screen.
LEMMA OthersLeaveUi ==
  ASSUME \/ \E w \in Worlds : RunStarts(w) \/ RunEnds(w)
         \/ ScanList \/ ScanSend \/ Remove \/ Announce \/ StopDaemon
         \/ \E e \in Events : Notify(e)
         \/ ThreadStep \/ Timeout
  PROVE  UNCHANGED uiVars
<1>1. ASSUME NEW w \in Worlds, RunStarts(w) \/ RunEnds(w) PROVE UNCHANGED uiVars
  BY <1>1 DEF RunStarts, RunEnds
<1>2. ASSUME ScanList \/ ScanSend \/ Remove \/ Announce \/ StopDaemon
      PROVE  UNCHANGED uiVars
  BY <1>2 DEF ScanList, ScanSend, Remove, Announce, StopDaemon
<1>3. ASSUME ThreadStep \/ Timeout PROVE UNCHANGED uiVars
  BY <1>3 DEF ThreadStep, Timeout, Connect, SendCommand, BeginReceive, ReceivePart, Receive,
              ReceiveFails
<1>4. ASSUME NEW e \in Events, Notify(e) PROVE UNCHANGED uiVars
  BY <1>4 DEF Notify
<1> QED BY <1>1, <1>2, <1>3, <1>4

\* A step keeps the cursor on a world and, while a key is waited for, the screen true.
LEMMA UiStep == TypeOK /\ UiInv /\ [Next]_vars => UiInv'
<1> SUFFICES ASSUME TypeOK, UiInv, [Next]_vars PROVE UiInv'
  OBVIOUS
<1>1. ASSUME UNCHANGED uiVars PROVE UiInv'
  BY <1>1 DEF UiInv, CursorOnWorld, Drawn, Cursor, uiVars
<1>2. /\ app \in AppState /\ app.worlds \in Seq(Worlds) /\ app.selected \in Nat
      /\ app.worlds # <<>> => app.selected < Len(app.worlds)
  BY ListsAreSequences DEF TypeOK, AppState, UiInv, CursorOnWorld
<1>3. CASE Start
  <2>1. PICK list \in Listings : app' = [app EXCEPT !.worlds = list]
    BY <1>3 DEF Start
  <2>2. list \in Seq(Worlds) /\ app'.worlds = list /\ app'.selected = 0
    BY <1>2, <1>3, <2>1, ListingsAreLists, ListsAreSequences DEF Start, UiInv, AppState
  <2>3. list # <<>> => 0 < Len(list)
    BY <2>2
  <2> QED BY <1>3, <2>2, <2>3 DEF Start, UiInv, CursorOnWorld
<1>4. CASE KeyUp
  <2> DEFINE t == [app EXCEPT !.selected = @ - 1]
  <2>1. t \in AppState /\ t.worlds = app.worlds /\ t.selected = app.selected - 1
    BY <1>2, <1>4 DEF AppState, KeyUp
  <2>2. Key(t)
    BY <1>4 DEF KeyUp
  <2>3. app.selected < Len(app.worlds) => app.selected - 1 < Len(app.worlds)
    BY <1>2
  <2> HIDE DEF t
  <2> QED BY <1>2, <2>1, <2>2, <2>3, KeyUi
<1>5. CASE KeyDown
  <2> DEFINE t == [app EXCEPT !.selected = @ + 1]
  <2>1. t \in AppState /\ t.worlds = app.worlds /\ t.selected = app.selected + 1
    BY <1>2 DEF AppState
  <2>2. Key(t) /\ app.selected + 1 < Len(app.worlds)
    BY <1>5 DEF KeyDown
  <2> HIDE DEF t
  <2> QED BY <2>1, <2>2, KeyUi
<1>6. CASE KeyEnter
  <2> DEFINE t == [app EXCEPT !.detail = TRUE]
  <2>1. t \in AppState /\ t.worlds = app.worlds /\ t.selected = app.selected
    BY <1>2 DEF AppState
  <2>2. Key(t)
    BY <1>6 DEF KeyEnter
  <2> HIDE DEF t
  <2> QED BY <1>2, <2>1, <2>2, KeyUi
<1>7. CASE KeyEsc
  <2> DEFINE t == [app EXCEPT !.detail = FALSE]
  <2>1. t \in AppState /\ t.worlds = app.worlds /\ t.selected = app.selected
    BY <1>2 DEF AppState
  <2>2. Key(t)
    BY <1>7 DEF KeyEsc
  <2> HIDE DEF t
  <2> QED BY <1>2, <2>1, <2>2, KeyUi
<1>8. CASE KeyDelete
  <2> DEFINE t == [app EXCEPT !.confirm = Cursor(app)]
  <2>1. t \in AppState /\ t.worlds = app.worlds /\ t.selected = app.selected
    BY <1>2, DrawnIsWorld DEF AppState
  <2>2. Key(t)
    BY <1>8 DEF KeyDelete
  <2> HIDE DEF t
  <2> QED BY <1>2, <2>1, <2>2, KeyUi
<1>9. CASE OtherKey
  BY <1>2, <1>9, KeyUi DEF OtherKey
<1>10. CASE Confirm
  <2>1. app'.worlds = app.worlds /\ app'.selected = app.selected
    BY <1>2, <1>10 DEF Confirm, AppState
  <2> QED BY <1>2, <1>10, <2>1 DEF Confirm, UiInv, CursorOnWorld
<1>11. CASE OverlayKey
  <2>1. app'.worlds = app.worlds /\ app'.selected = app.selected
    BY <1>2, <1>11 DEF OverlayKey, AppState
  <2> QED BY <1>2, <1>11, <2>1 DEF OverlayKey, UiInv, CursorOnWorld
<1>12. CASE Quit
  BY <1>12 DEF Quit, UiInv, CursorOnWorld
<1>13. CASE Quiet
  BY <1>13 DEF Quiet, UiInv, CursorOnWorld
<1>14. CASE Apply
  <2>1. Head(inbox) \in Messages
    BY <1>14 DEF TypeOK, Apply
  <2>2. CursorOnWorld'
    BY <1>2, <1>14, <2>1, AppliedIsState DEF Apply, CursorOnWorld
  <2>3. pc' = "drain"
    BY <1>14 DEF Apply, Applying
  <2> QED BY <2>2, <2>3 DEF UiInv
<1>15. CASE Draw
  BY <1>15 DEF Draw, UiInv, CursorOnWorld, Drawn, Cursor
<1>16. ASSUME UNCHANGED vars PROVE UNCHANGED uiVars
  BY <1>16 DEF vars
<1>17. CASE Type
  BY <1>17 DEF Type, UiInv, CursorOnWorld, Drawn, Cursor
<1>18. CASE OtherEvent
  BY <1>18 DEF OtherEvent, UiInv, CursorOnWorld
<1> QED BY <1>1, <1>3, <1>4, <1>5, <1>6, <1>7, <1>8, <1>9, <1>10, <1>11, <1>12, <1>13, <1>14,
           <1>15, <1>16, <1>17, <1>18, OthersLeaveUi DEF Next, KeyStep

\* The state always has its type and the screen is what the next key meets.
LEMMA UiHolds == Spec => [](TypeOK /\ UiInv)
<1>1. Init => TypeOK /\ UiInv
  BY InitType, InitUi
<1>2. (TypeOK /\ UiInv) /\ [Next]_vars => (TypeOK /\ UiInv)'
  BY TypeStep, UiStep
<1> QED BY <1>1, <1>2, PTL DEF Spec

\* While there are worlds the cursor is on one of them, whatever snapshots and deletions
\* did to the list since the key before (tui/mod.rs:46 and 59).
THEOREM CursorStays == Spec => []CursorOnWorld
<1>1. UiInv => CursorOnWorld
  BY DEF UiInv
<1> QED BY <1>1, UiHolds, PTL

\* No command is appended by a step that leaves the commands, takes the first or drops all.
LEMMA NotAppended ==
  ASSUME TypeOK, NEW w \in Worlds, cmds' = cmds \/ cmds' = <<>> \/ (cmds # <<>> /\ cmds' = Tail(cmds))
  PROVE  cmds' # Append(cmds, w)
<1>1. cmds \in Seq(Worlds) /\ Len(cmds) \in Nat
  BY DEF TypeOK
<1>2. Len(Append(cmds, w)) = Len(cmds) + 1 /\ Append(cmds, w) # <<>>
  BY <1>1, AppendProperties
<1>3. cmds # <<>> => Len(Tail(cmds)) = Len(cmds) - 1
  BY <1>1, HeadTailProperties
<1>4. Len(cmds) + 1 # Len(cmds) /\ Len(cmds) + 1 # Len(cmds) - 1
  BY <1>1
<1> QED BY <1>2, <1>3, <1>4

\* Only the confirmation of the overlay sends a deletion, that of the world it names.
LEMMA OnlyConfirmSends ==
  ASSUME TypeOK, Next, NEW w \in Worlds, cmds' = Append(cmds, w)
  PROVE  Confirm /\ w = app.confirm
<1>1. cmds' # cmds /\ cmds' # <<>> /\ ~(cmds # <<>> /\ cmds' = Tail(cmds))
  BY NotAppended
<1>2. ASSUME NEW v \in Worlds PROVE ~RunStarts(v) /\ ~RunEnds(v)
  BY <1>1 DEF RunStarts, RunEnds, linkVars
<1>3. ~ScanList /\ ~ScanSend /\ ~Remove /\ ~Announce /\ ~StopDaemon
  BY <1>1 DEF ScanList, ScanSend, Remove, Announce, StopDaemon, linkVars
<1>4. ~ThreadStep /\ ~Timeout
  BY <1>1 DEF ThreadStep, Timeout, Connect, SendCommand, BeginReceive, ReceivePart, Receive,
              ReceiveFails, ThreadEnds
<1>5. ~KeyUp /\ ~KeyDown /\ ~KeyEnter /\ ~KeyEsc /\ ~KeyDelete /\ ~OtherKey
  BY <1>1 DEF KeyUp, KeyDown, KeyEnter, KeyEsc, KeyDelete, OtherKey, Key, linkVars
<1>6. ~OverlayKey /\ ~OtherEvent /\ ~Start /\ ~Type /\ ~Quit /\ ~Quiet /\ ~Apply /\ ~Draw
  BY <1>1 DEF OverlayKey, OtherEvent, Start, Type, Quit, Quiet, Apply, Draw, ThreadEnds, linkVars
<1>7. ASSUME NEW e \in Events PROVE ~Notify(e)
  BY <1>1 DEF Notify
<1>8. Confirm
  BY <1>2, <1>3, <1>4, <1>5, <1>6, <1>7 DEF Next, KeyStep
<1>9. Append(cmds, app.confirm) = Append(cmds, w)
  BY <1>1, <1>8 DEF Confirm
<1>10. cmds \in Seq(Worlds) /\ app.confirm \in Worlds
  BY <1>8 DEF TypeOK, AppState, Confirm
<1>11. app.confirm = w
  BY <1>9, <1>10, AppendInjective
<1> QED BY <1>8, <1>11

\* The overlay opens only for the world that was drawn under the cursor.
LEMMA OverlayAsksWhatIsDrawn ==
  ASSUME TypeOK, UiInv, Next, app'.confirm \notin {NoWorld, app.confirm}
  PROVE  app'.confirm = screen.cursor
<1>1. app \in AppState
  BY DEF TypeOK
<1>2. app' # app
  OBVIOUS
<1>3. ~UNCHANGED uiVars
  BY <1>2 DEF uiVars
<1>4. ~Start
  BY <1>1 DEF Start, AppState
<1>5. ~KeyUp /\ ~KeyDown /\ ~KeyEnter /\ ~KeyEsc /\ ~OtherKey
  BY <1>1 DEF KeyUp, KeyDown, KeyEnter, KeyEsc, OtherKey, Key, AppState
<1>6. ~Confirm /\ ~OverlayKey
  BY <1>1 DEF Confirm, OverlayKey, AppState
<1>7. ~Type /\ ~OtherEvent /\ ~Quit /\ ~Quiet /\ ~Draw
  BY <1>2 DEF Type, OtherEvent, Quit, Quiet, Draw
<1>8. ~Apply
  BY <1>1, AppliedIsState DEF Apply, TypeOK
<1>9. KeyDelete
  BY <1>3, <1>4, <1>5, <1>6, <1>7, <1>8, OthersLeaveUi DEF Next, KeyStep
<1>10. screen = Drawn(app)
  BY <1>9 DEF KeyDelete, Key, Read, UiInv
<1>11. app'.confirm = Cursor(app)
  BY <1>1, <1>9 DEF KeyDelete, Key, AppState
<1> QED BY <1>10, <1>11 DEF Drawn

\* Keys mean what the screen shows when they are read: the overlay opens for the world
\* drawn under the cursor, and the world sent for deletion is the one the overlay was drawn
\* with (tui/mod.rs:189-247).
THEOREM KeysMeanDrawn == Spec => KeysMeanWhatIsDrawn
<1> DEFINE Opens == app'.confirm \notin {NoWorld, app.confirm} => app'.confirm = screen.cursor
           Sends == \A w \in Worlds : cmds' = Append(cmds, w) => screen.confirm = w
<1>1. TypeOK /\ UiInv /\ [Next]_vars => [Opens /\ Sends]_vars
  <2> SUFFICES ASSUME TypeOK, UiInv, Next PROVE Opens /\ Sends
    OBVIOUS
  <2>1. Opens
    BY OverlayAsksWhatIsDrawn
  <2>2. ASSUME NEW w \in Worlds, cmds' = Append(cmds, w) PROVE screen.confirm = w
    <3>1. Confirm /\ w = app.confirm
      BY <2>2, OnlyConfirmSends
    <3>2. screen = Drawn(app)
      BY <3>1 DEF Confirm, Read, UiInv
    <3> QED BY <3>1, <3>2 DEF Drawn
  <2> QED BY <2>1, <2>2
<1> QED BY <1>1, UiHolds, PTL DEF Spec, KeysMeanWhatIsDrawn

-----------------------------------------------------------------------------
(* Deleted worlds that come back. *)

\* What comes is a sequence of messages: first the inbox, then the wire.
LEMMA ComingIsSequence ==
  ASSUME TypeOK
  PROVE  /\ Coming \in Seq(Messages) /\ DOMAIN Coming = 1..Len(Coming) /\ Len(Coming) \in Nat
         /\ inbox \in Seq(Messages) /\ wire \in Seq(Messages)
         /\ Len(Coming) = Len(inbox) + Len(wire)
         /\ \A i \in 1..Len(Coming) :
              Coming[i] = IF i <= Len(inbox) THEN inbox[i] ELSE wire[i - Len(inbox)]
<1>1. inbox \in Seq(Messages) /\ wire \in Seq(Messages)
  BY DEF TypeOK
<1>2. /\ Coming \in Seq(Messages) /\ Len(Coming) = Len(inbox) + Len(wire)
      /\ \A i \in 1..(Len(inbox) + Len(wire)) :
           Coming[i] = IF i <= Len(inbox) THEN inbox[i] ELSE wire[i - Len(inbox)]
  BY <1>1, ConcatProperties DEF Coming
<1>3. DOMAIN Coming = 1..Len(Coming) /\ Len(Coming) \in Nat
  BY <1>2
<1> QED BY <1>1, <1>2, <1>3

\* The same after a step.
LEMMA NextComing ==
  ASSUME TypeOK'
  PROVE  /\ DOMAIN Coming' = 1..Len(Coming') /\ Len(Coming') \in Nat
         /\ Len(Coming') = Len(inbox') + Len(wire')
         /\ \A i \in 1..Len(Coming') :
              Coming'[i] = IF i <= Len(inbox') THEN inbox'[i] ELSE wire'[i - Len(inbox')]
<1>1. inbox' \in Seq(Messages) /\ wire' \in Seq(Messages) /\ Coming' = inbox' \o wire'
  BY DEF TypeOK, Coming
<1>2. /\ Coming' \in Seq(Messages) /\ Len(Coming') = Len(inbox') + Len(wire')
      /\ \A i \in 1..(Len(inbox') + Len(wire')) :
           Coming'[i] = IF i <= Len(inbox') THEN inbox'[i] ELSE wire'[i - Len(inbox')]
  BY <1>1, ConcatProperties
<1>3. DOMAIN Coming' = 1..Len(Coming') /\ Len(Coming') \in Nat
  BY <1>2
<1> QED BY <1>2, <1>3

\* A step that tells the TUI nothing of w and passes messages on in their order, at most
\* dropping some, makes no snapshot stale that was not.
LEMMA StaleCarried ==
  ASSUME TypeOK, ReturnInv,
         NEW n \in Nat, NEW f \in [1..n -> 1..Len(Coming)],
         \A i, j \in 1..n : i < j => f[i] < f[j],
         \A i \in 1..n : Coming'[i] = Coming[f[i]],
         NEW w \in Worlds, ghost'[w] = ghost[w]
  PROVE  /\ \A i \in 1..n : Stale(w, i)' =>
              /\ ghost[w] < 2 /\ w \notin Listed(scan.list)
              /\ \A k \in 1..n : Stale(w, k)' => k = i
         /\ (\A i \in DOMAIN Coming : Coming[i] # WorldDeleted(w))
              => \A i \in 1..n : Coming'[i] # WorldDeleted(w)
<1>1. DOMAIN Coming = 1..Len(Coming) /\ Len(Coming) \in Nat
  BY ComingIsSequence
<1>2. ASSUME NEW i \in 1..n, Stale(w, i)' PROVE Stale(w, f[i]) /\ f[i] \in DOMAIN Coming
  <2>1. f[i] \in DOMAIN Coming /\ Coming'[i] = Coming[f[i]]
    BY <1>1
  <2>2. /\ Coming'[i].kind = "StateSnapshot" /\ w \in Listed(Coming'[i].worlds)
        /\ ghost'[w] > 0 \/ \E j \in 1..(i - 1) : Coming'[j] = WorldDeleted(w)
    BY <1>2 DEF Stale
  <2>3. CASE ghost'[w] > 0
    BY <2>1, <2>2, <2>3 DEF Stale
  <2>4. CASE \E j \in 1..(i - 1) : Coming'[j] = WorldDeleted(w)
    <3>1. PICK j \in 1..(i - 1) : Coming'[j] = WorldDeleted(w)
      BY <2>4
    <3>2. j \in 1..n /\ j < i
      OBVIOUS
    <3>3. f[j] \in 1..Len(Coming) /\ f[j] < f[i] /\ Coming[f[j]] = WorldDeleted(w)
      BY <3>1, <3>2
    <3>4. f[j] \in 1..(f[i] - 1)
      BY <1>1, <2>1, <3>3
    <3> QED BY <2>1, <2>2, <3>3, <3>4 DEF Stale
  <2> QED BY <2>1, <2>2, <2>3, <2>4
<1>3. ASSUME NEW i \in 1..n, NEW k \in 1..n, f[k] = f[i] PROVE k = i
  <2>1. f[i] \in Int /\ f[k] \in Int /\ i \in Int /\ k \in Int
    BY <1>1
  <2>2. ~(i < k) /\ ~(k < i)
    BY <1>3, <2>1
  <2> QED BY <2>1, <2>2
<1>4. ASSUME NEW i \in 1..n, Stale(w, i)'
      PROVE  /\ ghost[w] < 2 /\ w \notin Listed(scan.list)
             /\ \A k \in 1..n : Stale(w, k)' => k = i
  <2>1. Stale(w, f[i]) /\ f[i] \in DOMAIN Coming
    BY <1>2, <1>4
  <2>2. /\ ghost[w] < 2 /\ w \notin Listed(scan.list)
        /\ \A k \in DOMAIN Coming : Stale(w, k) => k = f[i]
    BY <2>1 DEF ReturnInv
  <2>3. ASSUME NEW k \in 1..n, Stale(w, k)' PROVE k = i
    BY <1>2, <1>3, <2>2, <2>3
  <2> QED BY <2>2, <2>3
<1>5. ASSUME \A i \in DOMAIN Coming : Coming[i] # WorldDeleted(w), NEW i \in 1..n
      PROVE  Coming'[i] # WorldDeleted(w)
  BY <1>1, <1>5
<1> QED BY <1>4, <1>5

\* A step that tells the TUI nothing and lists nothing keeps ReturnInv, though messages at
\* the end be lost or worlds end.
LEMMA ReturnKept ==
  ASSUME TypeOK, TypeOK', ReturnInv, ghost' = ghost,
         \A w \in Worlds : fate'[w] # "gone" => fate[w] # "gone" /\ removing' # w,
         Listed(scan'.list) \subseteq Listed(scan.list),
         Len(Coming') <= Len(Coming),
         \A i \in 1..Len(Coming') : Coming'[i] = Coming[i]
  PROVE  ReturnInv'
<1> DEFINE n == Len(Coming')
           f == [i \in 1..n |-> i]
<1>1. n \in Nat /\ DOMAIN Coming' = 1..n /\ Len(Coming) \in Nat
  BY ComingIsSequence, NextComing
<1>2. /\ f \in [1..n -> 1..Len(Coming)]
      /\ \A i, j \in 1..n : i < j => f[i] < f[j]
      /\ \A i \in 1..n : Coming'[i] = Coming[f[i]]
  BY <1>1
<1>3. SUFFICES ASSUME NEW w \in Worlds
      PROVE  /\ fate'[w] # "gone" =>
                  /\ ghost'[w] = 0 /\ removing' # w
                  /\ \A i \in DOMAIN Coming' : Coming'[i] # WorldDeleted(w)
             /\ ghost'[w] <= 2
             /\ \A i \in DOMAIN Coming' : Stale(w, i)' =>
                  /\ ghost'[w] < 2
                  /\ w \notin Listed(scan'.list)
                  /\ \A k \in DOMAIN Coming' : Stale(w, k)' => k = i
             /\ ghost'[w] = 2 => w \notin Listed(scan'.list)
  BY DEF ReturnInv
<1> HIDE DEF n, f
<1>4. /\ \A i \in 1..n : Stale(w, i)' =>
           /\ ghost[w] < 2 /\ w \notin Listed(scan.list)
           /\ \A k \in 1..n : Stale(w, k)' => k = i
      /\ (\A i \in DOMAIN Coming : Coming[i] # WorldDeleted(w))
           => \A i \in 1..n : Coming'[i] # WorldDeleted(w)
  BY <1>1, <1>2, StaleCarried
<1> QED BY <1>1, <1>4 DEF ReturnInv

\* A message is broadcast behind all others; at most one of these is lost.
LEMMA BroadcastCarries ==
  ASSUME TypeOK, TypeOK', NEW m \in Messages, Broadcast(m), inbox' = inbox
  PROVE  \/ Coming' = Coming
         \/ \E n \in Nat : \E f \in [1..n -> 1..Len(Coming)] :
              /\ Len(Coming') = n + 1 /\ Coming'[n + 1] = m
              /\ \A i, j \in 1..n : i < j => f[i] < f[j]
              /\ \A i \in 1..n : Coming'[i] = Coming[f[i]]
<1>1. CASE wire' = wire
  BY <1>1 DEF Coming
<1>2. ASSUME NEW rest \in Seq(Messages), wire' = Append(rest, m), NEW d \in Nat,
             Len(rest) <= Len(wire), d >= 1,
             \A i \in 1..Len(rest) : /\ (IF i < d THEN i ELSE i + 1) \in 1..Len(wire)
                                     /\ rest[i] = wire[IF i < d THEN i ELSE i + 1]
      PROVE  \E n \in Nat : \E f \in [1..n -> 1..Len(Coming)] :
               /\ Len(Coming') = n + 1 /\ Coming'[n + 1] = m
               /\ \A i, j \in 1..n : i < j => f[i] < f[j]
               /\ \A i \in 1..n : Coming'[i] = Coming[f[i]]
  <2> DEFINE b == Len(inbox)
             n == b + Len(rest)
             f == [i \in 1..n |-> IF i < b + d THEN i ELSE i + 1]
  <2>1. /\ Len(Coming) \in Nat /\ Len(Coming) = b + Len(wire) /\ b \in Nat
        /\ wire \in Seq(Messages) /\ Len(wire) \in Nat
        /\ \A i \in 1..Len(Coming) : Coming[i] = IF i <= b THEN inbox[i] ELSE wire[i - b]
    <3>1. Len(inbox) \in Nat /\ Len(wire) \in Nat
      BY DEF TypeOK
    <3>2. /\ wire \in Seq(Messages)
          /\ Len(Coming) \in Nat /\ Len(Coming) = Len(inbox) + Len(wire)
          /\ \A i \in 1..Len(Coming) :
               Coming[i] = IF i <= Len(inbox) THEN inbox[i] ELSE wire[i - Len(inbox)]
      BY ComingIsSequence
    <3> HIDE DEF n, f
    <3> QED BY <3>1, <3>2
  <2>2. /\ Len(Coming') = b + Len(wire')
        /\ \A i \in 1..Len(Coming') : Coming'[i] = IF i <= b THEN inbox[i] ELSE wire'[i - b]
    <3> HIDE DEF n, f
    <3> QED BY NextComing
  <2>3. /\ Len(rest) \in Nat /\ Len(wire') = Len(rest) + 1
        /\ \A i \in 1..Len(rest) : wire'[i] = rest[i]
        /\ wire'[Len(rest) + 1] = m
    BY <1>2, AppendProperties
  <2> HIDE DEF b
  <2>4. n \in Nat /\ Len(Coming') = n + 1
    BY <2>1, <2>2, <2>3
  <2>5. Coming'[n + 1] = m
    <3>1. n + 1 \in 1..Len(Coming') /\ ~(n + 1 <= b) /\ (n + 1) - b = Len(rest) + 1
      BY <2>1, <2>3, <2>4
    <3> QED BY <2>2, <2>3, <3>1
  <2>6. ASSUME NEW i \in 1..n
        PROVE  f[i] \in 1..Len(Coming) /\ Coming'[i] = Coming[f[i]]
    <3>1. CASE i <= b
      <4>1. i < b + d /\ i \in 1..Len(Coming) /\ i \in 1..Len(Coming')
        BY <1>2, <2>1, <2>3, <2>4, <3>1
      <4> QED BY <2>1, <2>2, <3>1, <4>1
    <3>2. CASE ~(i <= b)
      <4> DEFINE k == i - b
                 g == IF k < d THEN k ELSE k + 1
      <4>1. k \in 1..Len(rest) /\ i \in 1..Len(Coming')
        BY <2>1, <2>3, <2>4, <3>2
      <4>2. Coming'[i] = rest[k]
        BY <2>2, <2>3, <3>2, <4>1
      <4>3. g \in 1..Len(wire) /\ rest[k] = wire[g]
        BY <1>2, <4>1
      <4>4. f[i] = b + g
        BY <1>2, <2>1, <3>2
      <4> HIDE DEF f, g, k
      <4>5. f[i] \in 1..Len(Coming) /\ ~(f[i] <= b) /\ f[i] - b = g
        BY <2>1, <4>3, <4>4
      <4> QED BY <2>1, <4>2, <4>3, <4>5
    <3> QED BY <3>1, <3>2
  <2>7. f \in [1..n -> 1..Len(Coming)]
    BY <2>6
  <2>8. \A i, j \in 1..n : i < j => f[i] < f[j]
    BY <2>1, <2>4
  <2> HIDE DEF n, f
  <2> QED BY <2>4, <2>5, <2>6, <2>7, <2>8
<1>3. CASE wire' # wire
  <2>1. PICK rest \in Seq(Messages) :
          /\ wire' = Append(rest, m)
          /\ \/ rest = wire
             \/ /\ Len(rest) = Len(wire) - 1
                /\ \E d \in 1..2 : \A i \in 1..Len(rest) :
                     rest[i] = IF i < d THEN wire[i] ELSE wire[i + 1]
    BY <1>3, BroadcastAdds DEF TypeOK
  <2>2. Len(wire) \in Nat /\ wire \in Seq(Messages) /\ Len(rest) \in Nat
    BY DEF TypeOK
  <2>3. CASE rest = wire
    <3> DEFINE d == Len(wire) + 1
    <3>1. /\ d \in Nat /\ d >= 1 /\ Len(rest) <= Len(wire)
          /\ \A i \in 1..Len(rest) : i < d
      BY <2>2, <2>3
    <3> HIDE DEF d
    <3>2. \A i \in 1..Len(rest) : /\ (IF i < d THEN i ELSE i + 1) \in 1..Len(wire)
                                  /\ rest[i] = wire[IF i < d THEN i ELSE i + 1]
      BY <2>2, <2>3, <3>1
    <3> QED BY <1>2, <2>1, <3>1, <3>2
  <2>4. CASE rest # wire
    <3>1. PICK d \in 1..2 : \A i \in 1..Len(rest) :
                     rest[i] = IF i < d THEN wire[i] ELSE wire[i + 1]
      BY <2>1, <2>4
    <3>2. d \in Nat /\ d >= 1 /\ Len(rest) <= Len(wire) /\ Len(rest) = Len(wire) - 1
      BY <2>1, <2>2, <2>4
    <3>3. \A i \in 1..Len(rest) : /\ (IF i < d THEN i ELSE i + 1) \in 1..Len(wire)
                                  /\ rest[i] = wire[IF i < d THEN i ELSE i + 1]
      BY <2>2, <3>1, <3>2
    <3> QED BY <1>2, <2>1, <3>2, <3>3
  <2> QED BY <2>3, <2>4
<1> QED BY <1>1, <1>3

\* What ReturnInv says of a world, after a step (a form in which the steps prove it).
LEMMA ReturnNext ==
  ASSUME \A w \in Worlds :
           /\ fate'[w] # "gone" =>
                /\ ghost'[w] = 0 /\ removing' # w
                /\ \A i \in DOMAIN Coming' : Coming'[i] # WorldDeleted(w)
           /\ ghost'[w] <= 2
           /\ \A i \in DOMAIN Coming' : Stale(w, i)' =>
                /\ ghost'[w] < 2
                /\ w \notin Listed(scan'.list)
                /\ \A k \in DOMAIN Coming' : Stale(w, k)' => k = i
           /\ ghost'[w] = 2 => w \notin Listed(scan'.list)
  PROVE  ReturnInv'
  BY DEF ReturnInv

\* The scan loop lists only worlds that there are, of which the TUI was told nothing, and
\* none that is being announced (roots.rs:126).
LEMMA ListReturns ==
  ASSUME TypeOK, TypeOK', ReturnInv, ScanList
  PROVE  ReturnInv'
<1>1. PICK list \in Listings : scan' = [pc |-> "listed", list |-> list]
  BY DEF ScanList
<1>2. Listed(scan'.list) = There
  BY <1>1, ListingsAreLists
<1>3. UNCHANGED <<fate, removing, inbox, wire, ghost>> /\ Coming' = Coming
  BY DEF ScanList, linkVars, uiVars, Coming
<1> SUFFICES ASSUME NEW w \in Worlds
    PROVE  /\ fate[w] # "gone" =>
                /\ ghost[w] = 0 /\ removing # w
                /\ \A i \in DOMAIN Coming : Coming[i] # WorldDeleted(w)
           /\ ghost[w] <= 2
           /\ \A i \in DOMAIN Coming : Stale(w, i) =>
                /\ ghost[w] < 2
                /\ w \notin There
                /\ \A k \in DOMAIN Coming : Stale(w, k) => k = i
           /\ ghost[w] = 2 => w \notin There
  <2>1. \A w, i : Stale(w, i)' <=> Stale(w, i)
    BY <1>3 DEF Stale
  <2> QED BY <1>2, <1>3, <2>1, ReturnNext
<1>4. w \in There => ghost[w] = 0 /\ \A i \in DOMAIN Coming : Coming[i] # WorldDeleted(w)
  BY DEF There, ReturnInv
<1>5. ASSUME w \in There, NEW i \in DOMAIN Coming PROVE ~Stale(w, i)
  <2>1. \A j \in 1..(i - 1) : j \in DOMAIN Coming
    BY ComingIsSequence
  <2> QED BY <1>4, <1>5, <2>1 DEF Stale
<1> QED BY <1>4, <1>5 DEF ReturnInv

\* A snapshot that is sent is the only stale one on its way, and the list that it was made
\* of is forgotten (roots.rs:126-139).
LEMMA SendReturns ==
  ASSUME TypeOK, TypeOK', ReturnInv, ScanSend
  PROVE  ReturnInv'
<1> DEFINE m == Snapshot(scan.list)
<1>1. m \in Messages /\ Broadcast(m)
  BY MessagesMade DEF ScanSend, TypeOK
<1>2. /\ UNCHANGED <<fate, removing, inbox, ghost>>
      /\ scan'.list = <<>>
  BY DEF ScanSend, uiVars
<1>3. Listed(scan'.list) = {}
  BY <1>2 DEF Listed
<1>4. CASE Coming' = Coming
  <2>1. DOMAIN Coming = 1..Len(Coming) /\ Len(Coming) \in Nat
    BY ComingIsSequence
  <2>2. \A w \in Worlds : fate'[w] # "gone" => fate[w] # "gone" /\ removing' # w
    BY <1>2 DEF ReturnInv
  <2> QED BY <1>2, <1>3, <1>4, <2>1, <2>2, ReturnKept
<1>5. CASE Coming' # Coming
  <2>1. PICK n \in Nat : \E f \in [1..n -> 1..Len(Coming)] :
              /\ Len(Coming') = n + 1 /\ Coming'[n + 1] = m
              /\ \A i, j \in 1..n : i < j => f[i] < f[j]
              /\ \A i \in 1..n : Coming'[i] = Coming[f[i]]
    <3> HIDE DEF m
    <3> QED BY <1>1, <1>2, <1>5, BroadcastCarries
  <2>2. PICK f \in [1..n -> 1..Len(Coming)] :
              /\ Len(Coming') = n + 1 /\ Coming'[n + 1] = m
              /\ \A i, j \in 1..n : i < j => f[i] < f[j]
              /\ \A i \in 1..n : Coming'[i] = Coming[f[i]]
    BY <2>1
  <2>3. DOMAIN Coming' = 1..(n + 1)
    BY <2>2, NextComing
  <2>4. SUFFICES ASSUME NEW w \in Worlds
        PROVE  /\ fate[w] # "gone" =>
                    /\ ghost[w] = 0 /\ removing # w
                    /\ \A i \in 1..(n + 1) : Coming'[i] # WorldDeleted(w)
               /\ ghost[w] <= 2
               /\ \A i \in 1..(n + 1) : Stale(w, i)' =>
                    /\ ghost[w] < 2
                    /\ \A k \in 1..(n + 1) : Stale(w, k)' => k = i
    BY <1>2, <1>3, <2>3, ReturnNext
  <2>5. /\ \A i \in 1..n : Stale(w, i)' =>
             /\ ghost[w] < 2 /\ w \notin Listed(scan.list)
             /\ \A k \in 1..n : Stale(w, k)' => k = i
        /\ (\A i \in DOMAIN Coming : Coming[i] # WorldDeleted(w))
             => \A i \in 1..n : Coming'[i] # WorldDeleted(w)
    <3>1. ghost'[w] = ghost[w]
      BY <1>2
    <3> HIDE DEF m
    <3> QED BY <2>2, <3>1, StaleCarried
  <2>6. /\ fate[w] # "gone" =>
             ghost[w] = 0 /\ removing # w /\ \A i \in DOMAIN Coming : Coming[i] # WorldDeleted(w)
        /\ ghost[w] <= 2 /\ ghost[w] \in Nat
        /\ ghost[w] = 2 => w \notin Listed(scan.list)
    BY DEF ReturnInv, TypeOK
  <2>7. Coming'[n + 1] # WorldDeleted(w)
    BY <2>2 DEF Snapshot, WorldDeleted
  <2>8. Stale(w, n + 1)' => w \in Listed(scan.list)
    BY <2>2 DEF Stale, Snapshot
  <2>9. \A i \in 1..(n + 1) : i \in 1..n \/ i = n + 1
    OBVIOUS
  <2>10. ghost[w] < 2 \/ ghost[w] = 2
    BY <2>6
  <2> HIDE DEF m
  <2>11. \A i \in 1..(n + 1) : Coming'[i] # WorldDeleted(w) \/ fate[w] = "gone"
    BY <2>5, <2>6, <2>7, <2>9
  <2>12. ASSUME NEW i \in 1..(n + 1), Stale(w, i)'
         PROVE  ghost[w] < 2 /\ \A k \in 1..(n + 1) : Stale(w, k)' => k = i
    <3>1. CASE i \in 1..n
      BY <2>5, <2>8, <2>9, <2>12, <3>1
    <3>2. CASE i = n + 1
      BY <2>5, <2>6, <2>8, <2>9, <2>10, <2>12, <3>2
    <3> QED BY <2>9, <3>1, <3>2
  <2> QED BY <2>6, <2>11, <2>12
<1> QED BY <1>4, <1>5

\* A message that is no snapshot, and of the deletion of a world only if that is gone, comes
\* behind all others and makes none of them stale (mod.rs:49-114).
LEMMA ToldReturns ==
  ASSUME TypeOK, TypeOK', ReturnInv,
         NEW m \in Messages, Broadcast(m), m.kind # "StateSnapshot",
         \A w \in Worlds : m = WorldDeleted(w) => removing = w,
         UNCHANGED <<fate, inbox, ghost, scan>>, removing' \in {removing, NoWorld}
  PROVE  ReturnInv'
<1>1. \A w \in Worlds : fate[w] # "gone" => removing' # w
  BY MonitorAssumption DEF ReturnInv
<1>2. CASE Coming' = Coming
  <2>1. DOMAIN Coming = 1..Len(Coming) /\ Len(Coming) \in Nat
    BY ComingIsSequence
  <2> QED BY <1>1, <1>2, <2>1, ReturnKept
<1>3. CASE Coming' # Coming
  <2>1. PICK n \in Nat : \E f \in [1..n -> 1..Len(Coming)] :
              /\ Len(Coming') = n + 1 /\ Coming'[n + 1] = m
              /\ \A i, j \in 1..n : i < j => f[i] < f[j]
              /\ \A i \in 1..n : Coming'[i] = Coming[f[i]]
    BY <1>3, BroadcastCarries
  <2>2. PICK f \in [1..n -> 1..Len(Coming)] :
              /\ Len(Coming') = n + 1 /\ Coming'[n + 1] = m
              /\ \A i, j \in 1..n : i < j => f[i] < f[j]
              /\ \A i \in 1..n : Coming'[i] = Coming[f[i]]
    BY <2>1
  <2>3. DOMAIN Coming' = 1..(n + 1)
    BY <2>2, NextComing
  <2>4. SUFFICES ASSUME NEW w \in Worlds
        PROVE  /\ fate[w] # "gone" =>
                    /\ ghost[w] = 0
                    /\ \A i \in 1..(n + 1) : Coming'[i] # WorldDeleted(w)
               /\ ghost[w] <= 2
               /\ \A i \in 1..(n + 1) : Stale(w, i)' =>
                    /\ ghost[w] < 2 /\ w \notin Listed(scan.list)
                    /\ \A k \in 1..(n + 1) : Stale(w, k)' => k = i
               /\ ghost[w] = 2 => w \notin Listed(scan.list)
    BY <1>1, <2>3, ReturnNext
  <2>5. /\ \A i \in 1..n : Stale(w, i)' =>
             /\ ghost[w] < 2 /\ w \notin Listed(scan.list)
             /\ \A k \in 1..n : Stale(w, k)' => k = i
        /\ (\A i \in DOMAIN Coming : Coming[i] # WorldDeleted(w))
             => \A i \in 1..n : Coming'[i] # WorldDeleted(w)
    <3>1. ghost'[w] = ghost[w]
      OBVIOUS
    <3> QED BY <2>2, <3>1, StaleCarried
  <2>6. /\ fate[w] # "gone" =>
             ghost[w] = 0 /\ removing # w /\ \A i \in DOMAIN Coming : Coming[i] # WorldDeleted(w)
        /\ ghost[w] <= 2
        /\ ghost[w] = 2 => w \notin Listed(scan.list)
    BY DEF ReturnInv
  <2>7. fate[w] # "gone" => Coming'[n + 1] # WorldDeleted(w)
    <3>1. Coming'[n + 1] = WorldDeleted(w) => removing = w
      BY <2>2
    <3> QED BY <2>6, <3>1
  <2>8. ~Stale(w, n + 1)'
    BY <2>2 DEF Stale
  <2>9. \A i \in 1..(n + 1) : i \in 1..n \/ i = n + 1
    OBVIOUS
  <2> QED BY <2>5, <2>6, <2>7, <2>8, <2>9
<1> QED BY <1>2, <1>3

\* Only a world that is gone is announced (mod.rs:92-114).
LEMMA AnnounceReturns ==
  ASSUME TypeOK, TypeOK', ReturnInv, Announce
  PROVE  ReturnInv'
<1> DEFINE m == WorldDeleted(removing)
<1>1. m \in Messages /\ Broadcast(m)
  BY MessagesMade DEF Announce, TypeOK
<1>2. m.kind # "StateSnapshot" /\ \A w \in Worlds : m = WorldDeleted(w) => removing = w
  BY DEF WorldDeleted
<1>3. UNCHANGED <<fate, inbox, ghost, scan>> /\ removing' = NoWorld
  BY DEF Announce, uiVars
<1> HIDE DEF m
<1> QED BY <1>1, <1>2, <1>3, ToldReturns

\* A notification says nothing of worlds (mod.rs:55 and 73).
LEMMA NotifyReturns ==
  ASSUME TypeOK, TypeOK', ReturnInv, NEW e \in Events, Notify(e)
  PROVE  ReturnInv'
<1> DEFINE m == EventNotification(e)
<1>1. m \in Messages /\ Broadcast(m)
  BY MessagesMade DEF Notify
<1>2. m.kind # "StateSnapshot" /\ \A w \in Worlds : m # WorldDeleted(w)
  BY DEF WorldDeleted, EventNotification
<1>3. UNCHANGED <<fate, inbox, ghost, scan, removing>>
  BY DEF Notify, uiVars, daemonVars
<1> HIDE DEF m
<1> QED BY <1>1, <1>2, <1>3, ToldReturns

\* Applying a message passes the others on, and brings a world back only with a stale
\* snapshot, after which no other of that world is on its way (tui/mod.rs:40-63).
LEMMA ApplyReturns ==
  ASSUME TypeOK, TypeOK', ReturnInv, Apply
  PROVE  ReturnInv'
<1> DEFINE m == Head(inbox)
<1>1. /\ inbox \in Seq(Messages) /\ inbox # <<>> /\ inbox' = Tail(inbox)
      /\ UNCHANGED <<fate, removing, scan, wire>> /\ app' = Applied(app, m) /\ Haunts(m)
  BY DEF Apply, TypeOK, daemonVars
<1>2. /\ m \in Messages /\ m = inbox[1] /\ Len(inbox) \in Nat /\ Len(inbox) >= 1
      /\ Len(inbox') = Len(inbox) - 1
      /\ \A i \in 1..(Len(inbox) - 1) : inbox'[i] = inbox[i + 1]
  <2>1. Len(inbox) \in Nat /\ Len(inbox) >= 1 /\ Head(inbox) = inbox[1]
    BY <1>1
  <2> QED BY <1>1, <2>1, HeadTailProperties
<1> HIDE DEF m
<1> DEFINE n == Len(Coming')
<1>3. /\ DOMAIN Coming = 1..Len(Coming) /\ Len(Coming) = n + 1 /\ n \in Nat
      /\ DOMAIN Coming' = 1..n
      /\ \A i \in 1..n : Coming'[i] = Coming[i + 1]
      /\ Coming[1] = m
  <2>1. /\ DOMAIN Coming = 1..Len(Coming) /\ Len(Coming) \in Nat
        /\ Len(Coming) = Len(inbox) + Len(wire) /\ Len(wire) \in Nat
        /\ \A i \in 1..Len(Coming) :
             Coming[i] = IF i <= Len(inbox) THEN inbox[i] ELSE wire[i - Len(inbox)]
    <3>1. Len(wire) \in Nat
      BY DEF TypeOK
    <3> QED BY <3>1, ComingIsSequence
  <2>2. /\ DOMAIN Coming' = 1..n /\ n \in Nat
        /\ n = Len(inbox') + Len(wire)
        /\ \A i \in 1..n : Coming'[i] = IF i <= Len(inbox') THEN inbox'[i] ELSE wire[i - Len(inbox')]
    BY <1>1, NextComing
  <2> HIDE DEF n
  <2>3. Len(Coming) = n + 1
    BY <1>2, <2>1, <2>2
  <2>4. ASSUME NEW i \in 1..n PROVE Coming'[i] = Coming[i + 1]
    <3>1. i + 1 \in 1..Len(Coming)
      BY <2>2, <2>3
    <3>2. CASE i <= Len(inbox')
      <4>1. i \in 1..(Len(inbox) - 1) /\ i + 1 <= Len(inbox)
        BY <1>2, <3>2
      <4> QED BY <1>2, <2>1, <2>2, <3>1, <3>2, <4>1
    <3>3. CASE ~(i <= Len(inbox'))
      <4>1. ~(i + 1 <= Len(inbox)) /\ (i + 1) - Len(inbox) = i - Len(inbox')
        BY <1>2, <3>3
      <4> QED BY <2>1, <2>2, <3>1, <3>3, <4>1
    <3> QED BY <3>2, <3>3
  <2>5. Coming[1] = m
    <3>1. 1 \in 1..Len(Coming) /\ 1 <= Len(inbox)
      BY <1>2, <2>1
    <3> QED BY <1>2, <2>1, <3>1
  <2> QED BY <2>1, <2>2, <2>3, <2>4, <2>5
<1> HIDE DEF n
<1>4. SUFFICES ASSUME NEW w \in Worlds
      PROVE  /\ fate[w] # "gone" =>
                  /\ ghost'[w] = 0 /\ removing # w
                  /\ \A i \in 1..n : Coming'[i] # WorldDeleted(w)
             /\ ghost'[w] <= 2
             /\ \A i \in 1..n : Stale(w, i)' =>
                  /\ ghost'[w] < 2
                  /\ w \notin Listed(scan.list)
                  /\ \A k \in 1..n : Stale(w, k)' => k = i
             /\ ghost'[w] = 2 => w \notin Listed(scan.list)
  BY <1>1, <1>3, ReturnNext
<1>5. /\ fate[w] # "gone" =>
           ghost[w] = 0 /\ removing # w /\ \A i \in 1..(n + 1) : Coming[i] # WorldDeleted(w)
      /\ ghost[w] <= 2 /\ ghost[w] \in Nat
      /\ \A i \in 1..(n + 1) : Stale(w, i) =>
           /\ ghost[w] < 2
           /\ w \notin Listed(scan.list)
           /\ \A k \in 1..(n + 1) : Stale(w, k) => k = i
      /\ ghost[w] = 2 => w \notin Listed(scan.list)
  <2>1. DOMAIN Coming = 1..(n + 1)
    BY <1>3
  <2>2. ghost[w] \in Nat
    <3>1. ghost[w] \in 0..3
      BY DEF TypeOK
    <3> QED BY <3>1
  <2> QED BY <2>1, <2>2 DEF ReturnInv
\* How often w was seen again: once more only with a stale snapshot.
<1>6. \/ ghost[w] = 0 /\ ghost'[w] = 0 /\ m # WorldDeleted(w)
      \/ ghost[w] = 0 /\ ghost'[w] = 1 /\ m = WorldDeleted(w)
      \/ ghost[w] > 0 /\ ghost'[w] = ghost[w]
      \/ ghost[w] > 0 /\ ghost'[w] = ghost[w] + 1 /\ Stale(w, 1)
  <2>1. ghost'[w] = IF ghost[w] = 0
                    THEN IF m = WorldDeleted(w) THEN 1 ELSE 0
                    ELSE IF w \notin Listed(app.worlds) /\ w \in Listed(app'.worlds) /\ ghost[w] < 3
                         THEN ghost[w] + 1 ELSE ghost[w]
    BY <1>1 DEF Haunts
  <2>2. w \notin Listed(app.worlds) /\ w \in Listed(app'.worlds)
          => m.kind = "StateSnapshot" /\ w \in Listed(m.worlds)
    <3>1. app \in AppState
      BY DEF TypeOK
    <3>2. /\ m.kind = "StateSnapshot" => Listed(app'.worlds) = Listed(m.worlds)
          /\ m.kind # "StateSnapshot" => Listed(app'.worlds) \subseteq Listed(app.worlds)
      BY <1>1, <1>2, <3>1, AppliedIsState
    <3> QED BY <3>2
  <2>3. ghost[w] > 0 /\ m.kind = "StateSnapshot" /\ w \in Listed(m.worlds) => Stale(w, 1)
    BY <1>3 DEF Stale
  <2>4. ghost[w] = 0 \/ ghost[w] > 0
    BY <1>5
  <2>5. ghost[w] # 0 => ghost[w] > 0
    BY <1>5
  <2> QED BY <2>1, <2>2, <2>3, <2>4, <2>5
<1>7. 1 \in 1..(n + 1) /\ \A i \in 1..n : i + 1 \in 1..(n + 1) /\ i + 1 # 1
  BY <1>3
<1>8. ASSUME NEW i \in 1..n, Stale(w, i)' PROVE Stale(w, i + 1)
  <2>1. /\ Coming'[i].kind = "StateSnapshot" /\ w \in Listed(Coming'[i].worlds)
        /\ ghost'[w] > 0 \/ \E j \in 1..(i - 1) : Coming'[j] = WorldDeleted(w)
    BY <1>8 DEF Stale
  <2>2. Coming[i + 1].kind = "StateSnapshot" /\ w \in Listed(Coming[i + 1].worlds)
    BY <1>3, <2>1
  <2>3. CASE ghost[w] > 0
    BY <2>2, <2>3 DEF Stale
  <2>4. CASE m = WorldDeleted(w)
    <3>1. 1 \in 1..((i + 1) - 1) /\ Coming[1] = WorldDeleted(w)
      BY <1>3, <2>4
    <3> QED BY <2>2, <3>1 DEF Stale
  <2>5. CASE \E j \in 1..(i - 1) : Coming'[j] = WorldDeleted(w)
    <3>1. PICK j \in 1..(i - 1) : Coming'[j] = WorldDeleted(w)
      BY <2>5
    <3>2. j + 1 \in 1..((i + 1) - 1) /\ j \in 1..n
      BY <1>3
    <3>3. Coming[j + 1] = WorldDeleted(w)
      BY <1>3, <3>1, <3>2
    <3> QED BY <2>2, <3>2, <3>3 DEF Stale
  <2>6. ghost'[w] > 0 => ghost[w] > 0 \/ m = WorldDeleted(w)
    BY <1>6
  <2> QED BY <2>1, <2>3, <2>4, <2>5, <2>6
<1>9. ASSUME fate[w] # "gone"
      PROVE  ghost'[w] = 0 /\ removing # w /\ \A i \in 1..n : Coming'[i] # WorldDeleted(w)
  <2>1. m # WorldDeleted(w) /\ ghost[w] = 0
    BY <1>3, <1>5, <1>7, <1>9
  <2> QED BY <1>3, <1>5, <1>6, <1>7, <1>9, <2>1
<1>10. ghost'[w] <= 2 /\ (ghost'[w] = 2 => w \notin Listed(scan.list))
  <2>1. CASE Stale(w, 1)
    <3>1. ghost[w] < 2 /\ w \notin Listed(scan.list)
      BY <1>5, <1>7, <2>1
    <3> QED BY <1>5, <1>6, <3>1
  <2>2. CASE ~Stale(w, 1)
    BY <1>5, <1>6, <2>2
  <2> QED BY <2>1, <2>2
<1>11. ASSUME NEW i \in 1..n, Stale(w, i)'
       PROVE  /\ ghost'[w] < 2 /\ w \notin Listed(scan.list)
              /\ \A k \in 1..n : Stale(w, k)' => k = i
  <2>1. Stale(w, i + 1)
    BY <1>8, <1>11
  <2>2. /\ ghost[w] < 2 /\ w \notin Listed(scan.list)
        /\ \A k \in 1..(n + 1) : Stale(w, k) => k = i + 1
    BY <1>5, <1>7, <2>1
  <2>3. ~Stale(w, 1)
    BY <1>7, <2>2
  <2>4. ghost'[w] < 2
    BY <1>5, <1>6, <2>2, <2>3
  <2>5. ASSUME NEW k \in 1..n, Stale(w, k)' PROVE k = i
    <3>1. k + 1 = i + 1
      BY <1>7, <1>8, <2>2, <2>5
    <3> QED BY <1>3, <3>1
  <2> QED BY <2>2, <2>4, <2>5
<1> QED BY <1>9, <1>10, <1>11

\* A step that lists, sends, announces and applies nothing keeps ReturnInv: messages stay in
\* their order and are only lost together with the connection.
LEMMA OthersReturn ==
  ASSUME TypeOK, TypeOK', ReturnInv,
         \/ \E w \in Worlds : RunStarts(w) \/ RunEnds(w)
         \/ Remove \/ StopDaemon \/ ThreadStep \/ Timeout
         \/ Start \/ Type \/ KeyStep \/ Quit \/ Quiet \/ Draw \/ UNCHANGED vars
  PROVE  ReturnInv'
<1> DEFINE Fates == \A w \in Worlds : fate'[w] # "gone" => fate[w] # "gone" /\ removing' # w
           Fewer == Len(Coming') <= Len(Coming) /\ \A i \in 1..Len(Coming') : Coming'[i] = Coming[i]
<1>1. /\ DOMAIN Coming = 1..Len(Coming) /\ Len(Coming) \in Nat
      /\ inbox \in Seq(Messages) /\ wire \in Seq(Messages)
      /\ Len(Coming) = Len(inbox) + Len(wire) /\ Len(inbox) \in Nat /\ Len(wire) \in Nat
      /\ \A i \in 1..Len(Coming) :
           Coming[i] = IF i <= Len(inbox) THEN inbox[i] ELSE wire[i - Len(inbox)]
  <2>1. Len(inbox) \in Nat /\ Len(wire) \in Nat
    BY DEF TypeOK
  <2> HIDE DEF Fates, Fewer
  <2> QED BY <2>1, ComingIsSequence
<1>2. /\ Len(Coming') \in Nat /\ Len(Coming') = Len(inbox') + Len(wire')
      /\ \A i \in 1..Len(Coming') :
           Coming'[i] = IF i <= Len(inbox') THEN inbox'[i] ELSE wire'[i - Len(inbox')]
  BY NextComing
<1>3. ASSUME UNCHANGED <<inbox, wire>> PROVE Fewer
  <2>1. Coming' = Coming
    BY <1>3 DEF Coming
  <2> QED BY <1>1, <2>1
<1>4. ASSUME inbox' \in {inbox, <<>>}, wire' = <<>> PROVE Fewer
  <2>1. Len(wire') = 0 /\ Len(inbox') \in {Len(inbox), 0}
    BY <1>4
  <2>2. Len(Coming') = Len(inbox') /\ Len(Coming') <= Len(Coming)
    BY <1>1, <1>2, <2>1
  <2>3. ASSUME NEW i \in 1..Len(Coming') PROVE Coming'[i] = Coming[i]
    <3>1. inbox' = inbox /\ i <= Len(inbox) /\ i \in 1..Len(Coming)
      BY <1>1, <1>4, <2>1, <2>2
    <3> QED BY <1>1, <1>2, <3>1
  <2> QED BY <2>2, <2>3
<1>5. ASSUME UNCHANGED <<fate, removing>> PROVE Fates
  BY <1>5 DEF ReturnInv
<1> HIDE DEF Fewer
<1>6. ASSUME Fates, Fewer, ghost' = ghost, scan' = scan \/ scan'.list = <<>> PROVE ReturnInv'
  <2>1. Listed(scan'.list) \subseteq Listed(scan.list)
    BY <1>6 DEF Listed
  <2> QED BY <1>6, <2>1, ReturnKept DEF Fewer
<1>7. ASSUME NEW w \in Worlds, RunStarts(w) \/ RunEnds(w) PROVE ReturnInv'
  <2>1. UNCHANGED <<inbox, wire, ghost, scan>>
    BY <1>7 DEF RunStarts, RunEnds, linkVars, uiVars
  <2>2. Fates
    BY <1>7 DEF RunStarts, RunEnds, ReturnInv, TypeOK
  <2> QED BY <1>3, <1>6, <2>1, <2>2
<1>8. CASE Remove
  <2>1. UNCHANGED <<inbox, wire, ghost, scan>>
    BY <1>8 DEF Remove, linkVars, uiVars
  <2>2. Fates
    <3>1. Head(requests) \in Worlds
      BY <1>8 DEF Remove, TypeOK
    <3> QED BY <1>8, <3>1 DEF Remove, ReturnInv, TypeOK
  <2> QED BY <1>3, <1>6, <2>1, <2>2
<1>9. CASE StopDaemon
  <2>1. UNCHANGED <<inbox, wire, ghost, fate>> /\ scan'.list = <<>> /\ removing' = NoWorld
    BY <1>9 DEF StopDaemon, linkVars, uiVars
  <2>2. Fates
    BY <2>1, MonitorAssumption
  <2> QED BY <1>3, <1>6, <2>1, <2>2
<1>10. ASSUME ThreadStep, ~Receive PROVE ReturnInv'
  <2>1. UNCHANGED <<fate, removing, ghost, scan, inbox>> /\ (wire' = wire \/ wire' = <<>>)
    BY <1>10 DEF ThreadStep, Connect, SendCommand, BeginReceive, ReceivePart, ReceiveFails,
                 ThreadEnds, daemonVars, uiVars
  <2> QED BY <1>3, <1>4, <1>5, <1>6, <2>1
<1>11. CASE Receive
  <2>1. /\ UNCHANGED <<fate, removing, ghost, scan>> /\ wire # <<>>
        /\ inbox' = Append(inbox, Head(wire)) /\ wire' = Tail(wire)
    BY <1>11 DEF Receive, daemonVars, uiVars
  <2>2. Head(wire) \in Messages /\ Head(wire) = wire[1] /\ Len(wire) >= 1
    BY <1>1, <2>1
  <2>3. /\ Len(inbox') = Len(inbox) + 1
        /\ \A i \in 1..Len(inbox) : inbox'[i] = inbox[i]
        /\ inbox'[Len(inbox) + 1] = wire[1]
    BY <1>1, <2>1, <2>2, AppendProperties
  <2>4. Len(wire') = Len(wire) - 1 /\ \A i \in 1..(Len(wire) - 1) : wire'[i] = wire[i + 1]
    BY <1>1, <2>1, HeadTailProperties
  <2>5. Len(Coming') = Len(Coming)
    BY <1>1, <1>2, <2>3, <2>4
  <2>6. ASSUME NEW i \in 1..Len(Coming') PROVE Coming'[i] = Coming[i]
    <3>1. CASE i <= Len(inbox)
      <4>1. i \in 1..Len(inbox) /\ i <= Len(inbox') /\ i \in 1..Len(Coming)
        BY <1>1, <2>3, <2>5, <3>1
      <4> QED BY <1>1, <1>2, <2>3, <3>1, <4>1
    <3>2. CASE i = Len(inbox) + 1
      <4>1. i <= Len(inbox') /\ ~(i <= Len(inbox)) /\ i - Len(inbox) = 1 /\ i \in 1..Len(Coming)
        BY <1>1, <2>3, <2>5, <3>2
      <4>2. Coming'[i] = wire[1]
        BY <1>2, <2>3, <3>2, <4>1
      <4>3. Coming[i] = wire[1]
        BY <1>1, <4>1
      <4> QED BY <4>2, <4>3
    <3>3. CASE i > Len(inbox) + 1
      <4>1. /\ ~(i <= Len(inbox')) /\ ~(i <= Len(inbox)) /\ i \in 1..Len(Coming)
            /\ i - Len(inbox') \in 1..(Len(wire) - 1)
            /\ (i - Len(inbox')) + 1 = i - Len(inbox)
        BY <1>1, <2>3, <2>5, <3>3
      <4>2. Coming'[i] = wire[(i - Len(inbox')) + 1]
        BY <1>2, <2>4, <4>1
      <4>3. Coming[i] = wire[i - Len(inbox)]
        BY <1>1, <4>1
      <4> QED BY <4>1, <4>2, <4>3
    <3> QED BY <1>1, <3>1, <3>2, <3>3
  <2>7. Fewer
    BY <1>1, <2>5, <2>6 DEF Fewer
  <2> QED BY <1>5, <1>6, <2>1, <2>7
<1>12. CASE Timeout
  BY <1>3, <1>5, <1>6, <1>12 DEF Timeout, daemonVars, uiVars
<1>13. CASE Start
  BY <1>3, <1>5, <1>6, <1>13 DEF Start, daemonVars
<1>14. CASE KeyStep
  <2>1. UNCHANGED <<fate, removing, ghost, scan, inbox, wire>>
    BY <1>14 DEF KeyStep, KeyUp, KeyDown, KeyEnter, KeyEsc, KeyDelete, OtherKey, Key, Confirm,
                 OverlayKey, OtherEvent, daemonVars, linkVars
  <2> QED BY <1>3, <1>5, <1>6, <2>1
<1>15. CASE Quit
  <2>1. UNCHANGED <<fate, removing, ghost, scan>> /\ inbox' = <<>> /\ wire' = <<>>
    BY <1>15 DEF Quit, ThreadEnds, daemonVars
  <2> QED BY <1>4, <1>5, <1>6, <2>1
<1>16. CASE Type \/ Quiet \/ Draw
  BY <1>3, <1>5, <1>6, <1>16 DEF Type, Quiet, Draw, daemonVars, linkVars
<1>17. CASE UNCHANGED vars
  BY <1>3, <1>5, <1>6, <1>17 DEF vars, daemonVars, linkVars, uiVars
<1> QED BY <1>7, <1>8, <1>9, <1>10, <1>11, <1>12, <1>13, <1>14, <1>15, <1>16, <1>17

\* In the beginning nobody was told anything.
LEMMA InitReturn == Init => ReturnInv
<1> SUFFICES ASSUME Init PROVE ReturnInv
  OBVIOUS
<1>1. TypeOK
  BY InitType
<1>2. Len(inbox) = 0 /\ Len(wire) = 0
  BY DEF Init
<1>3. DOMAIN Coming = {}
  BY <1>1, <1>2, ComingIsSequence
<1>4. \A w \in Worlds : ghost[w] = 0 /\ removing # w
  BY MonitorAssumption DEF Init
<1> QED BY <1>3, <1>4 DEF ReturnInv

\* A deleted world is in the list again once at most, whatever its deletion overtook between
\* roots.rs:126 and 139, whatever the channel lost, and however the loops are scheduled.
THEOREM ReturnsAtMostOnce == Spec => []ReturnsOnce
<1>1. Init => TypeOK /\ ReturnInv
  BY InitType, InitReturn
<1>2. (TypeOK /\ ReturnInv) /\ [Next]_vars => (TypeOK /\ ReturnInv)'
  <2> SUFFICES ASSUME TypeOK, ReturnInv, [Next]_vars PROVE TypeOK' /\ ReturnInv'
    OBVIOUS
  <2>1. TypeOK'
    BY TypeStep
  <2>2. ReturnInv'
    BY <2>1, ListReturns, SendReturns, AnnounceReturns, NotifyReturns, ApplyReturns,
       OthersReturn DEF Next
  <2> QED BY <2>1, <2>2
<1>3. ReturnInv => ReturnsOnce
  BY DEF ReturnInv, ReturnsOnce
<1> QED BY <1>1, <1>2, <1>3, PTL DEF Spec
=============================================================================
