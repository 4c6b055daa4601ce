-------------------------------- MODULE Sync --------------------------------
(***************************************************************************)
(* `ygg sync`: the report of which worlds changed the same lines of a file, *)
(* and the merge of a world that the user says yes to (src/cli/sync.rs).    *)
(*                                                                         *)
(* The report reads the header of each hunk of git diff -U0 HEAD...branch,  *)
(* so it compares line numbers, and those count the lines at the commit at  *)
(* which a branch left the trunk. Here a line has an identity as well: what *)
(* the report says is compared with the lines that the worlds really        *)
(* changed. Both the diff and the merge are asked of the branch that        *)
(* list_worlds gives, which is no branch of any world (ListedBranch).       *)
(* Left out: renamed and binary files.                                      *)
(***************************************************************************)
EXTENDS Integers, Sequences, FiniteSetsExt

CONSTANTS
  Worlds,     \* worlds, and the names of their branches
  Files,      \* the files, in the order in which git lists them
  Lines,      \* the lines each file has at first
  MaxHunks,   \* bound: hunks and deleted files of a world
  MaxCommits  \* bound: commits to the trunk

Names == Range(Files)

ASSUME SyncAssumption ==
  /\ Files \in Seq(Names)
  /\ Lines \in Nat /\ MaxHunks \in Nat /\ MaxCommits \in Nat
  /\ "unknown" \notin Worlds

NoFile == ""   \* stands for the file of hunks that follow no "+++ b/" line
Top == 0       \* stands above the first line

VARIABLES
  trunk,    \* of each file: its lines
  base,     \* of each world: the files at the merge base of its branch and the trunk
  hunks,    \* of each world and file: [start, count] of the lines of base replaced or,
            \* when count is 0, of the line after which new ones are inserted
  deleted,  \* of each world: the files it deleted
  commits,  \* commits to the trunk so far
  answered  \* history: the worlds that the user told `ygg sync` to merge

vars == <<trunk, base, hunks, deleted, commits, answered>>

Init ==
  /\ trunk = [f \in Names |-> [i \in 1..Lines |-> i]]
  /\ base = [w \in Worlds |-> trunk]
  /\ hunks = [w \in Worlds |-> [f \in Names |-> {}]]
  /\ deleted = [w \in Worlds |-> {}]
  /\ commits = 0
  /\ answered = {}

-----------------------------------------------------------------------------
(* What agents and git do to the worlds and the trunk. *)

\* The hunks a file of n lines can have.
Hunks(n) ==
  {h \in [start : 0..n, count : 0..n] :
     h.count > 0 => h.start > 0 /\ h.start + h.count - 1 <= n}

\* Two hunks of one diff have an unchanged line between them.
Apart(g, h) == g.start + g.count < h.start \/ h.start + h.count < g.start

Changes(w) ==
  Cardinality(UNION {hunks[w][g] \X {g} : g \in Names}) + Cardinality(deleted[w])

Change(w, f, h) ==
  /\ Changes(w) < MaxHunks
  /\ f \notin deleted[w]
  /\ h \in Hunks(Len(base[w][f]))
  /\ \A g \in hunks[w][f] : Apart(g, h)
  /\ hunks' = [hunks EXCEPT ![w][f] = @ \union {h}]
  /\ UNCHANGED <<trunk, base, deleted, commits, answered>>

Delete(w, f) ==
  /\ Changes(w) < MaxHunks
  /\ f \notin deleted[w] /\ hunks[w][f] = {}
  /\ deleted' = [deleted EXCEPT ![w] = @ \union {f}]
  /\ UNCHANGED <<trunk, base, hunks, commits, answered>>

\* Someone commits to the trunk: one line comes, and the lines of h go.
Commit(f, h) ==
  /\ commits < MaxCommits
  /\ h \in Hunks(Len(trunk[f]))
  /\ LET after == IF h.count = 0 THEN h.start + 1 ELSE h.start + h.count IN
       trunk' = [trunk EXCEPT ![f] =
         SubSeq(@, 1, h.start - (IF h.count = 0 THEN 0 ELSE 1))
           \o <<Lines + commits + 1>> \o SubSeq(@, after, Len(@))]
  /\ commits' = commits + 1
  /\ UNCHANGED <<base, hunks, deleted, answered>>

\* A world without changes is made anew from the trunk.
Fork(w) ==
  /\ deleted[w] = {} /\ \A f \in Names : hunks[w][f] = {}
  /\ base[w] # trunk
  /\ base' = [base EXCEPT ![w] = trunk]
  /\ UNCHANGED <<trunk, hunks, deleted, commits, answered>>

-----------------------------------------------------------------------------
(* The report. *)

\* list_worlds looks for a file HEAD in the directory of the world. A linked worktree
\* has none, so the branch of every world is listed as this, which is taken to be the
\* name of no branch.
ListedBranch(w) == "unknown"

\* git diff -U0 HEAD...branch: each changed file has a line with its new name, which is
\* /dev/null for a deleted file, and then the header of each hunk.
HasName(w, f) == f \notin deleted[w] /\ hunks[w][f] # {}

HunkHeaders(w, f) ==
  IF f \notin deleted[w] THEN hunks[w][f]
  ELSE IF base[w][f] = <<>> THEN {}
  ELSE {[start |-> 1, count |-> Len(base[w][f])]}

\* Mutant: the range ends behind its last line.
HeaderPastEnd(h) == <<h.start, h.start + h.count>>

\* parse_hunk_header, of the old lines: a range of no lines counts as one line.
ParseHunkHeader(h) ==
  <<h.start, h.start + (IF h.count = 0 THEN 0 ELSE h.count - 1)>>

\* current_file at the hunks of the ith file: the last "+++ b/" line up to there.
CurrentFile(w, i) ==
  LET named == {j \in 1..i : HasName(w, Files[j])} IN
  IF named = {} THEN NoFile ELSE Files[Max(named)]

\* diff_world: the ranges, each with the file it is filed under. What git prints of a
\* branch that does not exist, which is nothing, is parsed like any other diff.
DiffWorld(branch) ==
  UNION {{CurrentFile(branch, i)} \X
           {ParseHunkHeader(h) : h \in HunkHeaders(branch, Files[i])} :
         i \in {j \in DOMAIN Files : branch \in Worlds}}

RangesOverlap(a, b) == a[1] <= b[2] /\ b[1] <= a[2]

\* find_overlaps: the files, and the ranges, for which two branches are reported.
FindOverlaps(a, b) ==
  {o \in DiffWorld(a) \X DiffWorld(b) :
     o[1][1] = o[2][1] /\ RangesOverlap(o[1][2], o[2][2])}

\* The report says of two worlds that they overlap in file f.
Reported(v, w, f) ==
  \E o \in FindOverlaps(ListedBranch(v), ListedBranch(w)) : o[1][1] = f

\* The user says yes to a world with changes. git merge of a branch that does not exist
\* fails, and then nothing is logged and --prune removes nothing. Bound: one world.
Merge(w) ==
  /\ answered = {}
  /\ Changes(w) > 0
  /\ ListedBranch(w) \notin Worlds
  /\ answered' = {w}
  /\ UNCHANGED <<trunk, base, hunks, deleted, commits>>

-----------------------------------------------------------------------------
Next ==
  \/ \E w \in Worlds, f \in Names :
       \/ \E h \in Hunks(Len(base[w][f])) : Change(w, f, h)
       \/ Delete(w, f)
  \/ \E f \in Names : \E h \in Hunks(Len(trunk[f])) : Commit(f, h)
  \/ \E w \in Worlds : Fork(w) \/ Merge(w)

Spec == Init /\ [][Next]_vars

-----------------------------------------------------------------------------
\* The ranges that diff_world finds in the diff of a world's own branch are ranges of
\* lines that its files have.
RangesInFiles(w) ==
  \A r \in DiffWorld(w) :
    r[1] \in Names /\ r[2][1] \in 0..r[2][2] /\ r[2][2] <= Len(base[w][r[1]])

\* The type of the files, and that the ranges of the branch of a world that deleted
\* nothing lie within its files: parse_hunk_header makes no end before its start
\* (sync.rs:22-30).
TypeOK ==
  /\ trunk \in [Names -> Seq(1..Lines + MaxCommits)]
  /\ base \in [Worlds -> [Names -> Seq(1..Lines + MaxCommits)]]
  /\ hunks \in [Worlds -> [Names -> SUBSET [start : Nat, count : Nat]]]
  /\ \A w \in Worlds, f \in Names : hunks[w][f] \subseteq Hunks(Len(base[w][f]))
  /\ deleted \in [Worlds -> SUBSET Names]
  /\ commits \in 0..MaxCommits
  /\ answered \subseteq Worlds
  /\ \A w \in Worlds : deleted[w] = {} => RangesInFiles(w)

\* The lines of file f that world w changed. One inserts after the line before.
Touched(w, f) ==
  UNION {{IF i = 0 THEN Top ELSE base[w][f][i] :
            i \in h.start .. (IF h.count = 0 THEN h.start ELSE h.start + h.count - 1)} :
         h \in hunks[w][f]}

\* Hunks of a deleted file are filed under f.
Misfiled(w, f) ==
  \E i \in DOMAIN Files :
    Files[i] \in deleted[w] /\ HunkHeaders(w, Files[i]) # {} /\ CurrentFile(w, i) = f

\* Two worlds with the same version of a file, neither of which deleted it.
Comparable(v, w, f) ==
  v # w /\ base[v][f] = base[w][f] /\ f \notin deleted[v] \union deleted[w]

\* What diff_world and find_overlaps are for, given branches that exist: two of them are
\* found to overlap in a file exactly when they changed the same line of it, provided no
\* hunks of a deleted file are filed under it, and the trunk's commits between the points
\* where they left it, if any, are to other files: line numbers of different versions say
\* nothing (sync.rs:22-91). The program never asks this of a branch that exists.
OverlapsExact ==
  \A v, w \in Worlds, f \in Names :
    Comparable(v, w, f) /\ ~Misfiled(v, f) /\ ~Misfiled(w, f) =>
      ((\E o \in FindOverlaps(v, w) : o[1][1] = f) <=>
         Touched(v, f) \intersect Touched(w, f) # {})

\* The lines of file f that world w replaced or took out.
Replaced(w, f) ==
  UNION {{base[w][f][i] : i \in h.start .. h.start + h.count - 1} : h \in hunks[w][f]}

\* Does not hold (README, Observations). README.md:31: `ygg sync` "computes git diff -U0
\* line ranges across all worlds, shows an overlap report": two worlds that replaced the
\* same line of a file are reported for it (sync.rs:114-135).
OverlapsReported ==
  \A v, w \in Worlds, f \in Names :
    Comparable(v, w, f) /\ Replaced(v, f) \intersect Replaced(w, f) # {}
      => Reported(v, w, f)

\* Does not hold (README, Observations). README.md:191: `ygg sync` merges the branch of
\* a world that the user confirms (sync.rs:144-160).
MergedAsConfirmed ==
  [][\A w \in answered' \ answered : trunk' # trunk]_vars
=============================================================================
