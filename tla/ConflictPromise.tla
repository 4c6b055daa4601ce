-------------------------- MODULE ConflictPromise --------------------------
(***************************************************************************)
(* What conflict detection promises, without logs, windows or handlers:    *)
(* worlds edit files; a conflict is a file and at least two worlds that    *)
(* edited it; and every conflict is announced some day.                    *)
(***************************************************************************)
CONSTANTS Worlds, Files

VARIABLES
  edits,      \* the pairs <<world, file>> recorded so far
  announced   \* the conflicts announced so far

Real(c) ==
  /\ \E v, w \in c.worlds : v # w
  /\ c.worlds \X {c.file} \subseteq edits

Init == edits = {} /\ announced = {}

Edit ==
  /\ \E w \in Worlds, f \in Files : edits' = edits \union {<<w, f>>}
  /\ UNCHANGED announced

Announce ==
  /\ \E f \in Files, ws \in SUBSET Worlds :
       /\ Real([file |-> f, worlds |-> ws])
       /\ announced' = announced \union {[file |-> f, worlds |-> ws]}
  /\ UNCHANGED edits

Safety == Init /\ [][Edit \/ Announce]_<<edits, announced>>

\* What this amounts to: an announced conflict is one, at all times after.
AnnouncedReal == \A c \in announced : Real(c)

\* Some announced conflict tells that v and w both edited f.
Told(f, v, w) == \E c \in announced : c.file = f /\ {v, w} \subseteq c.worlds

Fulfilled ==
  \A f \in Files : \A v, w \in Worlds :
    v # w => (({<<v, f>>, <<w, f>>} \subseteq edits) ~> Told(f, v, w))

Spec == Safety /\ Fulfilled
=============================================================================
