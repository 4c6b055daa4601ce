----------------------------- MODULE SyncProofs -----------------------------
(***************************************************************************)
(* What the functions that `ygg sync` builds its report from guarantee for  *)
(* any worlds, any list of files, any number of lines and any number of     *)
(* hunks and commits, given the branches of the worlds. The program itself  *)
(* never gives them one (Sync, ListedBranch), and its report is empty.      *)
(*                                                                         *)
(* The report compares line numbers and the property is about lines, so     *)
(* the proofs need that a line of a version has one number: FilesInv.       *)
(***************************************************************************)
EXTENDS Sync, SequenceTheorems, TLAPS

\* Lines numbered up to n, each at one place only.
Numbered(s, n) ==
  /\ s \in Seq(1..n)
  /\ \A i, j \in 1..Len(s) : s[i] = s[j] => i = j

\* No version of a file has a line twice, and each line is one of the first Lines or came
\* with one of the commits so far.
LinesDiffer ==
  \A f \in Names :
    /\ Numbered(trunk[f], Lines + commits)
    /\ \A w \in Worlds : Numbered(base[w][f], Lines + commits)

\* The hunks of a file that has a line with its new name are filed under the file: that
\* line is the last one before them (diff_world, sync.rs:46-50).
LEMMA Filed ==
  ASSUME NEW w \in Worlds, NEW i \in DOMAIN Files, HasName(w, Files[i])
  PROVE  CurrentFile(w, i) = Files[i]
<1> DEFINE named == {j \in 1..i : HasName(w, Files[j])}
<1>1. i \in Nat \ {0}
  BY SyncAssumption, LenProperties
<1>2. i \in named /\ \A j \in named : j \in Nat /\ i >= j
  BY <1>1
<1>3. \A m \in named : (\A j \in named : m >= j) => m = i
  BY <1>1, <1>2
<1>4. Max(named) = i
  <2> HIDE DEF named
  <2> QED BY <1>2, <1>3 DEF Max
<1> QED BY <1>2, <1>4 DEF CurrentFile

\* Git's edit of a version: a new line takes the place of lines a+1..b-1, and still no
\* line is there twice (Commit).
LEMMA Inserted ==
  ASSUME NEW n \in Nat, NEW s, Numbered(s, n),
         NEW a \in 0..Len(s), NEW b \in (a + 1)..(Len(s) + 1)
  PROVE  Numbered(SubSeq(s, 1, a) \o <<n + 1>> \o SubSeq(s, b, Len(s)), n + 1)
<1> DEFINE S == 1..(n + 1)
           p == SubSeq(s, 1, a)
           m == <<n + 1>>
           q == SubSeq(s, b, Len(s))
           r == p \o m \o q
<1>1. Len(s) \in Nat /\ \A i \in 1..Len(s) : s[i] \in 1..n /\ s[i] \in S
  BY LenProperties, ElementOfSeq DEF Numbered
<1>2. p \in Seq(S) /\ Len(p) = a /\ \A i \in 1..a : p[i] = s[i]
  <2>1. \A i \in 1..a : s[i] \in S
    BY <1>1
  <2> HIDE DEF S
  <2>2. /\ SubSeq(s, 1, a) \in Seq(S)
        /\ Len(SubSeq(s, 1, a)) = IF 1 <= a THEN a - 1 + 1 ELSE 0
        /\ \A i \in 1..(a - 1 + 1) : SubSeq(s, 1, a)[i] = s[1 + i - 1]
    BY <1>1, <2>1, SubSeqProperties
  <2>3. \A i \in 1..a : 1 + i - 1 = i
    BY <1>1
  <2> QED BY <1>1, <2>2, <2>3
<1>3. m \in Seq(S) /\ Len(m) = 1 /\ m[1] = n + 1
  OBVIOUS
<1>4. /\ q \in Seq(S) /\ Len(q) = Len(s) - b + 1
      /\ \A i \in 1..(Len(s) - b + 1) : q[i] = s[b + i - 1]
  <2>1. \A i \in b..Len(s) : s[i] \in S
    BY <1>1
  <2> HIDE DEF S
  <2>2. /\ SubSeq(s, b, Len(s)) \in Seq(S)
        /\ Len(SubSeq(s, b, Len(s))) = IF b <= Len(s) THEN Len(s) - b + 1 ELSE 0
        /\ \A i \in 1..(Len(s) - b + 1) : SubSeq(s, b, Len(s))[i] = s[b + i - 1]
    BY <1>1, <2>1, SubSeqProperties
  <2> QED BY <1>1, <2>2
<1> HIDE DEF S, p, m, q
<1>5. /\ p \o m \in Seq(S) /\ Len(p \o m) = a + 1
      /\ \A i \in 1..(a + 1) : (p \o m)[i] = IF i <= a THEN p[i] ELSE m[i - a]
  <2>1. /\ p \o m \in Seq(S) /\ Len(p \o m) = Len(p) + Len(m)
        /\ \A i \in 1..(Len(p) + Len(m)) :
             (p \o m)[i] = IF i <= Len(p) THEN p[i] ELSE m[i - Len(p)]
    BY <1>2, <1>3, ConcatProperties
  <2> QED BY <1>1, <1>2, <1>3, <2>1
<1>6. /\ r \in Seq(S) /\ Len(r) = a + 1 + (Len(s) - b + 1)
      /\ \A i \in 1..(a + 1 + (Len(s) - b + 1)) :
           r[i] = IF i <= a + 1 THEN (p \o m)[i] ELSE q[i - (a + 1)]
  <2> DEFINE x == p \o m
  <2>1. x \in Seq(S)
    BY <1>5
  <2> HIDE DEF x
  <2>2. /\ x \o q \in Seq(S) /\ Len(x \o q) = Len(x) + Len(q)
        /\ \A i \in 1..(Len(x) + Len(q)) :
             (x \o q)[i] = IF i <= Len(x) THEN x[i] ELSE q[i - Len(x)]
    BY <1>4, <2>1, ConcatProperties
  <2>3. Len(x) = a + 1 /\ r = x \o q
    BY <1>5 DEF x
  <2>4. \A i : x[i] = (p \o m)[i]
    BY DEF x
  <2> QED BY <1>1, <1>4, <2>2, <2>3, <2>4
<1> HIDE DEF r
<1>7. \A i \in 1..Len(r) :
        \/ i <= a /\ r[i] = s[i]
        \/ i = a + 1 /\ r[i] = n + 1
        \/ i > a + 1 /\ b + (i - a - 1) - 1 \in b..Len(s) /\ r[i] = s[b + (i - a - 1) - 1]
  <2> TAKE i \in 1..Len(r)
  <2>1. CASE i <= a
    <3>1. i \in 1..a /\ i \in 1..(a + 1) /\ i \in 1..(a + 1 + (Len(s) - b + 1)) /\ i <= a + 1
      BY <1>1, <1>6, <2>1
    <3>2. r[i] = (p \o m)[i] /\ (p \o m)[i] = p[i]
      BY <1>5, <1>6, <2>1, <3>1
    <3> QED BY <1>2, <2>1, <3>1, <3>2
  <2>2. CASE i = a + 1
    <3>0. a \in Nat /\ a + 1 \in 1..(a + 1) /\ ~(a + 1 <= a) /\ (a + 1) - a = 1
      BY <1>1
    <3>1. (p \o m)[a + 1] = m[1]
      <4>1. (p \o m)[a + 1] = m[(a + 1) - a]
        BY <1>5, <3>0
      <4> QED BY <3>0, <4>1
    <3>2. r[a + 1] = (p \o m)[a + 1]
      <4>1. a + 1 \in 1..(a + 1 + (Len(s) - b + 1)) /\ a + 1 <= a + 1
        BY <1>1
      <4> QED BY <1>6, <4>1
    <3> QED BY <1>3, <2>2, <3>1, <3>2
  <2>3. CASE i > a + 1
    <3>1. i - (a + 1) \in 1..(Len(s) - b + 1) /\ r[i] = q[i - (a + 1)]
      BY <1>1, <1>6, <2>3
    <3>2. r[i] = s[b + (i - (a + 1)) - 1]
      BY <1>4, <3>1
    <3> QED BY <1>1, <2>3, <3>1, <3>2
  <2> QED BY <1>1, <1>6, <2>1, <2>2, <2>3
<1>8. ASSUME NEW i \in 1..Len(r), NEW j \in 1..Len(r), r[i] = r[j] PROVE i = j
  <2> DEFINE at(k) == IF k <= a THEN k ELSE b + (k - a - 1) - 1
  <2>0. \A k, l \in 1..Len(s) : s[k] = s[l] => k = l
    BY DEF Numbered
  <2>1. \A k \in 1..Len(r) : k # a + 1 =>
          at(k) \in 1..Len(s) /\ r[k] = s[at(k)] /\ r[k] # n + 1
    <3>1. Len(r) \in Nat
      BY <1>1, <1>6
    <3> TAKE k \in 1..Len(r)
    <3> HAVE k # a + 1
    <3>2. k \in Int /\ a \in Int /\ b \in Int /\ b >= a + 1 /\ k >= 1
      BY <1>1, <3>1
    <3>3. at(k) \in 1..Len(s) /\ r[k] = s[at(k)]
      BY <1>1, <1>7, <3>2
    <3> HIDE DEF at
    <3>4. s[at(k)] \in 1..n
      BY <1>1, <3>3
    <3> QED BY <3>3, <3>4
  <2>2. \A k, l \in 1..Len(r) : k # a + 1 /\ l # a + 1 /\ at(k) = at(l) => k = l
    <3>1. Len(r) \in Nat
      BY <1>1, <1>6
    <3> TAKE k, l \in 1..Len(r)
    <3>2. k \in Int /\ l \in Int /\ a \in Int /\ b \in Int /\ b >= a + 1
      BY <1>1, <3>1
    <3> QED BY <3>2
  <2>3. r[a + 1] = n + 1
    BY <1>1, <1>6, <1>7
  <2> HIDE DEF at
  <2>4. CASE i # a + 1 /\ j # a + 1
    BY <1>8, <2>0, <2>1, <2>2, <2>4
  <2>5. CASE ~(i # a + 1 /\ j # a + 1)
    BY <1>8, <2>1, <2>3, <2>5
  <2> QED BY <2>4, <2>5
<1>9. r \in Seq(1..(n + 1))
  BY <1>6 DEF S
<1>10. Numbered(r, n + 1)
  BY <1>8, <1>9 DEF Numbered
<1> QED BY <1>10 DEF r, p, m, q

-----------------------------------------------------------------------------
(* The files. *)

\* The invariant that both theorems go by: the types, that the hunks of a world fit the
\* version they belong to, and that the lines of a version differ.
FilesInv ==
  /\ commits \in 0..MaxCommits
  /\ trunk \in [Names -> Seq(1..Lines + MaxCommits)]
  /\ base \in [Worlds -> [Names -> Seq(1..Lines + MaxCommits)]]
  /\ LinesDiffer
  /\ hunks \in [Worlds -> [Names -> SUBSET [start : Nat, count : Nat]]]
  /\ \A w \in Worlds, f \in Names : hunks[w][f] \subseteq Hunks(Len(base[w][f]))
  /\ deleted \in [Worlds -> SUBSET Names]
  /\ answered \subseteq Worlds

\* The lines of an old version differ as well after another commit.
LEMMA MoreNumbers ==
  ASSUME NEW n \in Nat, NEW s, Numbered(s, n)
  PROVE  Numbered(s, n + 1)
<1>1. 1..n \subseteq 1..(n + 1)
  OBVIOUS
<1>2. s \in Seq(1..(n + 1))
  BY <1>1, SeqMonotonic DEF Numbered
<1> QED BY <1>2 DEF Numbered

\* The first version has the lines 1..Lines, and every world has that version.
LEMMA FilesInit == Init => FilesInv
<1> SUFFICES ASSUME Init PROVE FilesInv
  OBVIOUS
<1> USE DEF Init
<1> DEFINE s == [i \in 1..Lines |-> i]
<1>1. s \in Seq(1..Lines) /\ Len(s) = Lines /\ \A i \in 1..Lines : s[i] = i
  BY SyncAssumption
<1> HIDE DEF s
<1>2. Lines \in Nat /\ MaxCommits \in Nat /\ 1..Lines \subseteq 1..(Lines + MaxCommits)
  BY SyncAssumption
<1>3. s \in Seq(1..Lines + MaxCommits)
  BY <1>1, <1>2, SeqMonotonic
<1>4. Numbered(s, Lines)
  BY <1>1 DEF Numbered
<1>5. trunk = [f \in Names |-> s] /\ base = [w \in Worlds |-> trunk]
  BY DEF s
<1>6. LinesDiffer
  <2>1. Lines + commits = Lines
    BY <1>2
  <2> HIDE DEF Init
  <2>2. \A f \in Names : trunk[f] = s /\ \A w \in Worlds : base[w][f] = s
    BY <1>5
  <2> QED BY <1>4, <2>1, <2>2 DEF LinesDiffer
<1> QED BY <1>2, <1>3, <1>5, <1>6 DEF FilesInv

\* A commit inserts a line that no version had, a world takes the trunk's version when it
\* is made, and what a world does leaves the versions alone (the diff of a
\* world is against its merge base, sync.rs:38-42).
LEMMA FilesStep == FilesInv /\ [Next]_vars => FilesInv'
<1> SUFFICES ASSUME FilesInv, [Next]_vars PROVE FilesInv'
  OBVIOUS
<1> USE DEF FilesInv
<1>1. ASSUME NEW w \in Worlds, NEW f \in Names, NEW h \in Hunks(Len(base[w][f])), Change(w, f, h)
      PROVE  FilesInv'
  <2>1. Len(base[w][f]) \in Nat
    BY LenProperties
  <2>2. h \in [start : Nat, count : Nat]
    BY <2>1 DEF Hunks
  <2> QED BY <1>1, <2>2 DEF Change, LinesDiffer
<1>2. ASSUME NEW w \in Worlds, NEW f \in Names, Delete(w, f) PROVE FilesInv'
  BY <1>2 DEF Delete, LinesDiffer
<1>3. ASSUME NEW f \in Names, NEW h \in Hunks(Len(trunk[f])), Commit(f, h) PROVE FilesInv'
  \* The commit puts new in the place of the file's lines s: line a is the last before the
  \* hunk and line b the first behind it.
  <2> DEFINE s == trunk[f]
             a == h.start - (IF h.count = 0 THEN 0 ELSE 1)
             b == IF h.count = 0 THEN h.start + 1 ELSE h.start + h.count
             new == SubSeq(s, 1, a) \o <<Lines + commits + 1>> \o SubSeq(s, b, Len(s))
  <2>1. /\ Lines \in Nat /\ commits \in Nat /\ MaxCommits \in Nat
        /\ commits' = commits + 1 /\ commits' \in 0..MaxCommits
    BY <1>3, SyncAssumption DEF Commit
  <2>2. Len(s) \in Nat /\ Numbered(s, Lines + commits)
    BY LenProperties DEF LinesDiffer
  <2>3. a \in 0..Len(s) /\ b \in (a + 1)..(Len(s) + 1)
    BY <2>2 DEF Hunks
  <2>4. trunk' = [trunk EXCEPT ![f] = new]
    BY <1>3 DEF Commit
  <2> HIDE DEF a, b
  <2>5. Numbered(new, Lines + commits')
    <3>1. Lines + commits \in Nat /\ (Lines + commits) + 1 = Lines + commits'
      BY <2>1
    <3> HIDE DEF s
    <3>2. Numbered(new, (Lines + commits) + 1)
      BY <2>2, <2>3, <3>1, Inserted
    <3> QED BY <3>1, <3>2
  <2> HIDE DEF new, s
  <2>6. new \in Seq(1..Lines + MaxCommits)
    <3>1. 1..(Lines + commits') \subseteq 1..(Lines + MaxCommits)
      BY <2>1
    <3> QED BY <2>5, <3>1, SeqMonotonic DEF Numbered
  <2>7. LinesDiffer'
    <3>1. \A g \in Names : Numbered(trunk[g], Lines + commits')
                           /\ \A w \in Worlds : Numbered(base[w][g], Lines + commits')
      <4>1. Lines + commits \in Nat /\ (Lines + commits) + 1 = Lines + commits'
        BY <2>1
      <4> QED BY <4>1, MoreNumbers DEF LinesDiffer
    <3>2. \A g \in Names : Numbered(trunk'[g], Lines + commits')
      BY <2>4, <2>5, <3>1
    <3>3. base' = base
      BY <1>3 DEF Commit
    <3> QED BY <3>1, <3>2, <3>3 DEF LinesDiffer
  <2> QED BY <1>3, <2>1, <2>4, <2>6, <2>7 DEF Commit
<1>4. ASSUME NEW w \in Worlds, Fork(w) PROVE FilesInv'
  BY <1>4 DEF Fork, LinesDiffer
<1>5. ASSUME NEW w \in Worlds, Merge(w) PROVE FilesInv'
  BY <1>5 DEF Merge, LinesDiffer
<1>6. CASE UNCHANGED vars
  BY <1>6 DEF vars, LinesDiffer
<1> QED BY <1>1, <1>2, <1>3, <1>4, <1>5, <1>6 DEF Next

\* FilesInv holds of every state.
LEMMA FilesHold == Spec => []FilesInv
<1> QED BY FilesInit, FilesStep, PTL DEF Spec

-----------------------------------------------------------------------------
(* The report. *)

\* The old lines of a hunk: those it replaces, or the one before those it inserts.
Span(h) == h.start..(IF h.count = 0 THEN h.start ELSE h.start + h.count - 1)

\* A header stands for the lines of its hunk, and ranges overlap when they share one.
LEMMA HeaderSpan ==
  ASSUME NEW n \in Nat, NEW h \in Hunks(n)
  PROVE  /\ ParseHunkHeader(h)[1] \in 0..ParseHunkHeader(h)[2]
         /\ ParseHunkHeader(h)[2] \in 0..n
         /\ Span(h) = ParseHunkHeader(h)[1]..ParseHunkHeader(h)[2]
BY DEF Hunks, ParseHunkHeader, Span

\* ranges_overlap compares ends, and finds out whether two ranges share a line.
LEMMA OverlapIsShared ==
  ASSUME NEW a \in Nat \X Nat, NEW b \in Nat \X Nat, a[1] <= a[2], b[1] <= b[2]
  PROVE  RangesOverlap(a, b) <=> (a[1]..a[2]) \intersect (b[1]..b[2]) # {}
<1>1. ASSUME RangesOverlap(a, b) PROVE (a[1]..a[2]) \intersect (b[1]..b[2]) # {}
  <2>1. CASE a[1] <= b[1]
    <3>1. b[1] \in (a[1]..a[2]) \intersect (b[1]..b[2])
      BY <1>1, <2>1 DEF RangesOverlap
    <3> QED BY <3>1
  <2>2. CASE b[1] <= a[1]
    <3>1. a[1] \in (a[1]..a[2]) \intersect (b[1]..b[2])
      BY <1>1, <2>2 DEF RangesOverlap
    <3> QED BY <3>1
  <2> QED BY <2>1, <2>2
<1>2. ASSUME NEW i \in (a[1]..a[2]) \intersect (b[1]..b[2]) PROVE RangesOverlap(a, b)
  BY DEF RangesOverlap
<1> QED BY <1>1, <1>2

\* find_overlaps looks at each two worlds once, in the order of list_worlds; the other
\* order gives the same ranges (sync.rs:67-71).
LEMMA OverlapsMirror ==
  ASSUME NEW v \in Worlds, NEW w \in Worlds, NEW o \in FindOverlaps(v, w)
  PROVE  <<o[2], o[1]>> \in FindOverlaps(w, v)
BY DEF FindOverlaps, RangesOverlap

\* diff_world files under f the hunks of f, unless hunks of a deleted file are.
LEMMA RangesOfFile ==
  ASSUME FilesInv, NEW w \in Worlds, NEW f \in Names, f \notin deleted[w], ~Misfiled(w, f), NEW r
  PROVE  <<f, r>> \in DiffWorld(w) <=> \E h \in hunks[w][f] : r = ParseHunkHeader(h)
<1>1. ASSUME <<f, r>> \in DiffWorld(w) PROVE \E h \in hunks[w][f] : r = ParseHunkHeader(h)
  <2>1. PICK i \in DOMAIN Files : \E h \in HunkHeaders(w, Files[i]) :
                CurrentFile(w, i) = f /\ r = ParseHunkHeader(h)
    BY <1>1 DEF DiffWorld
  <2>2. Files[i] \notin deleted[w]
    BY <2>1 DEF Misfiled
  <2>3. HasName(w, Files[i])
    BY <2>1, <2>2 DEF HunkHeaders, HasName
  <2>4. Files[i] = f
    BY <2>1, <2>3, Filed
  <2> QED BY <2>1, <2>2, <2>4 DEF HunkHeaders
<1>2. ASSUME NEW h \in hunks[w][f], r = ParseHunkHeader(h) PROVE <<f, r>> \in DiffWorld(w)
  <2>1. PICK i \in DOMAIN Files : Files[i] = f
    BY DEF Names, Range
  <2>2. CurrentFile(w, i) = f
    BY <2>1, Filed DEF HasName
  <2>3. h \in HunkHeaders(w, Files[i])
    BY <2>1 DEF HunkHeaders
  <2> QED BY <1>2, <2>2, <2>3 DEF DiffWorld
<1> QED BY <1>1, <1>2

\* The ranges of a world that deleted nothing lie within its files (sync.rs:22-63).
LEMMA FilesAreTyped == FilesInv => TypeOK
<1> SUFFICES ASSUME FilesInv, NEW w \in Worlds, deleted[w] = {} PROVE RangesInFiles(w)
  BY DEF FilesInv, TypeOK
<1> SUFFICES ASSUME NEW r \in DiffWorld(w)
             PROVE  r[1] \in Names /\ r[2][1] \in 0..r[2][2] /\ r[2][2] <= Len(base[w][r[1]])
  BY DEF RangesInFiles
<1>1. PICK i \in DOMAIN Files : \E h \in HunkHeaders(w, Files[i]) :
              r = <<CurrentFile(w, i), ParseHunkHeader(h)>>
  BY DEF DiffWorld
<1>2. PICK h \in hunks[w][Files[i]] : r = <<CurrentFile(w, i), ParseHunkHeader(h)>>
  BY <1>1 DEF HunkHeaders
<1>3. Files[i] \in Names
  BY DEF Names, Range
<1>4. CurrentFile(w, i) = Files[i]
  BY <1>2, Filed DEF HasName
<1>5. Len(base[w][Files[i]]) \in Nat /\ h \in Hunks(Len(base[w][Files[i]]))
  BY <1>2, <1>3, LenProperties DEF FilesInv
<1>6. r[1] = Files[i] /\ r[2] = ParseHunkHeader(h)
  BY <1>2, <1>4
<1>7. /\ ParseHunkHeader(h)[1] \in 0..ParseHunkHeader(h)[2]
      /\ ParseHunkHeader(h)[2] <= Len(base[w][Files[i]])
  BY <1>5, HeaderSpan
<1> QED BY <1>3, <1>6, <1>7

\* Every state of the files is of its type, and the ranges that diff_world finds in the
\* branch of a world that deleted nothing are ranges of lines of the files they are filed
\* under (sync.rs:22-63).
THEOREM SyncTypeCorrect == Spec => []TypeOK
<1> QED BY FilesHold, FilesAreTyped, PTL

\* Two worlds touch the same line of a file exactly when spans of their hunks meet.
LEMMA TouchedIsShared ==
  ASSUME FilesInv, NEW v \in Worlds, NEW w \in Worlds, NEW f \in Names, base[v][f] = base[w][f]
  PROVE  Touched(v, f) \intersect Touched(w, f) # {} <=>
           \E g \in hunks[v][f], h \in hunks[w][f] : Span(g) \intersect Span(h) # {}
<1> DEFINE s == base[v][f]
           line(i) == IF i = 0 THEN Top ELSE s[i]
<1>1. Len(s) \in Nat /\ \A h \in hunks[v][f] \union hunks[w][f] : h \in Hunks(Len(s))
  BY LenProperties DEF FilesInv
<1>2. \A h \in hunks[v][f] \union hunks[w][f] : Span(h) \subseteq 0..Len(s)
  BY <1>1, HeaderSpan
<1>3. \A i, j \in 0..Len(s) : line(i) = line(j) => i = j
  <2>1. \A i \in 1..Len(s) : s[i] \in 1..(Lines + commits)
    BY ElementOfSeq DEF FilesInv, LinesDiffer, Numbered
  <2>2. \A i \in 1..Len(s) : s[i] # Top
    BY <2>1 DEF Top
  <2>3. \A i, j \in 1..Len(s) : s[i] = s[j] => i = j
    BY DEF FilesInv, LinesDiffer, Numbered
  <2> HIDE DEF s
  <2> QED BY <1>1, <2>2, <2>3
<1>4. \A t \in {v, w} : Touched(t, f) = UNION {{line(i) : i \in Span(h)} : h \in hunks[t][f]}
  BY DEF Touched, Span
<1> HIDE DEF s, line
<1>5. ASSUME Touched(v, f) \intersect Touched(w, f) # {}
      PROVE  \E g \in hunks[v][f], h \in hunks[w][f] : Span(g) \intersect Span(h) # {}
  <2>1. PICK x : x \in Touched(v, f) /\ x \in Touched(w, f)
    BY <1>5
  <2>2. PICK g \in hunks[v][f] : \E i \in Span(g) : x = line(i)
    BY <1>4, <2>1
  <2>3. PICK h \in hunks[w][f] : \E j \in Span(h) : x = line(j)
    BY <1>4, <2>1
  <2>4. PICK i \in Span(g), j \in Span(h) : line(i) = line(j)
    BY <2>2, <2>3
  <2>5. i \in Span(g) \intersect Span(h)
    BY <1>2, <1>3, <2>4
  <2> QED BY <2>5
<1>6. ASSUME NEW g \in hunks[v][f], NEW h \in hunks[w][f], NEW i \in Span(g) \intersect Span(h)
      PROVE  Touched(v, f) \intersect Touched(w, f) # {}
  <2>1. line(i) \in Touched(v, f) /\ line(i) \in Touched(w, f)
    BY <1>4
  <2> QED BY <2>1
<1> QED BY <1>5, <1>6

\* Given the branches of two worlds with the same version of a file, find_overlaps finds
\* them to overlap in it exactly when they changed a line in common, deletions aside
\* (sync.rs:65-91).
THEOREM OverlapsAreExact == Spec => []OverlapsExact
<1>1. FilesInv => OverlapsExact
  <2> SUFFICES ASSUME FilesInv, NEW v \in Worlds, NEW w \in Worlds, NEW f \in Names,
                      base[v][f] = base[w][f], f \notin deleted[v] \union deleted[w],
                      ~Misfiled(v, f), ~Misfiled(w, f)
               PROVE  (\E o \in FindOverlaps(v, w) : o[1][1] = f) <=>
                        Touched(v, f) \intersect Touched(w, f) # {}
    BY DEF OverlapsExact, Comparable
  <2> DEFINE Met(g, h) == RangesOverlap(ParseHunkHeader(g), ParseHunkHeader(h))
  <2>1. \A g \in hunks[v][f], h \in hunks[w][f] :
          Met(g, h) <=> Span(g) \intersect Span(h) # {}
    <3> TAKE g \in hunks[v][f], h \in hunks[w][f]
    <3>1. Len(base[v][f]) \in Nat /\ g \in Hunks(Len(base[v][f])) /\ h \in Hunks(Len(base[v][f]))
      BY LenProperties DEF FilesInv
    <3> DEFINE a == ParseHunkHeader(g)
               b == ParseHunkHeader(h)
    <3>2. a \in Nat \X Nat /\ b \in Nat \X Nat
      BY <3>1 DEF ParseHunkHeader, Hunks
    <3>3. a[1] <= a[2] /\ b[1] <= b[2] /\ Span(g) = a[1]..a[2] /\ Span(h) = b[1]..b[2]
      BY <3>1, HeaderSpan
    <3> HIDE DEF a, b
    <3>4. RangesOverlap(a, b) <=> Span(g) \intersect Span(h) # {}
      BY <3>2, <3>3, OverlapIsShared
    <3> QED BY <3>4 DEF a, b
  <2>2. ASSUME NEW o \in FindOverlaps(v, w), o[1][1] = f
        PROVE  \E g \in hunks[v][f], h \in hunks[w][f] : Met(g, h)
    <3>1. /\ o[1] \in DiffWorld(v) /\ o[2] \in DiffWorld(w) /\ o[2][1] = f
          /\ RangesOverlap(o[1][2], o[2][2])
      BY <2>2 DEF FindOverlaps
    <3>2. o[1] = <<f, o[1][2]>> /\ o[2] = <<f, o[2][2]>>
      BY <2>2, <3>1 DEF DiffWorld
    <3>3. <<f, o[1][2]>> \in DiffWorld(v) /\ <<f, o[2][2]>> \in DiffWorld(w)
      BY <3>1, <3>2
    <3>4. PICK g \in hunks[v][f] : o[1][2] = ParseHunkHeader(g)
      BY <3>3, RangesOfFile
    <3>5. PICK h \in hunks[w][f] : o[2][2] = ParseHunkHeader(h)
      BY <3>3, RangesOfFile
    <3> QED BY <3>1, <3>4, <3>5
  <2>3. ASSUME NEW g \in hunks[v][f], NEW h \in hunks[w][f], Met(g, h)
        PROVE  \E o \in FindOverlaps(v, w) : o[1][1] = f
    <3> DEFINE p == <<f, ParseHunkHeader(g)>>
               q == <<f, ParseHunkHeader(h)>>
    <3>1. p \in DiffWorld(v) /\ q \in DiffWorld(w)
      BY RangesOfFile
    <3>2. <<p, q>> \in FindOverlaps(v, w)
      BY <2>3, <3>1 DEF FindOverlaps
    <3> QED BY <3>2
  <2> HIDE DEF Met
  <2> QED BY <2>1, <2>2, <2>3, TouchedIsShared
<1> QED BY <1>1, FilesHold, PTL
=============================================================================
