-------------------------------- MODULE Laws --------------------------------
(***************************************************************************)
(* The files that tell an agent, and the hooks that report for it, in which *)
(* world it is (src/daemon/laws.rs, src/cli/init.rs), and how git carries   *)
(* them from one world to the next: `ygg init` writes some of them to the   *)
(* main worktree, inject_rules to a new world, and only .ygg/ is ignored.   *)
(* They travel with a branch: agents commit them, the user merges them to   *)
(* the trunk, and a world starts with what its branch holds.                *)
(*                                                                         *)
(* A file's content is abstracted to the world it names. Left out: extra    *)
(* rules, the stop hooks, which go the way of the hooks of the tools, other *)
(* merges than those to the trunk, and a main worktree that changes its     *)
(* branch.                                                                  *)
(***************************************************************************)
CONSTANTS
  Worlds,    \* ids of worlds, each used once, and the names of their own branches
  Branches,  \* the user's branches besides the one of the main worktree
  Trunk,     \* the branch of the main worktree
  NoName     \* what a file names that does not exist

\* Other contents: a CLAUDE.md of the user's, without the protocol text; the hook that
\* `ygg init` writes, which asks the CLAUDE.md of the directory it is run in; and the
\* settings of `ygg init`, which name that hook in the main worktree.
UsersText == "text of the user"
AsksClaude == "asks CLAUDE.md"
MainHook == "hook of the main worktree"

\* CLAUDE.md, .claude/hooks/ygg-post-tool.sh, .claude/settings.json, and both
\* .cursorrules and .aider.conf.yml.
Kinds == {"claude", "hook", "settings", "stubs"}

Refs == {Trunk} \union Branches \union Worlds

VARIABLES
  main,    \* of each kind: the file in the main worktree
  tip,     \* of each branch: the files that are committed to it
  world,   \* of each world: the files in its directory
  on,      \* of each world: the branch its worktree is on
  there,   \* the worlds that exist
  clean,   \* history: the worlds made from a branch on which no file named a world
  merged   \* history: branches whose merge brought a file naming a world to the trunk

vars == <<main, tip, world, on, there, clean, merged>>

Nothing == [k \in Kinds |-> NoName]

\* The user may have a CLAUDE.md.
Init ==
  /\ \E c \in {NoName, UsersText} : main = [Nothing EXCEPT !["claude"] = c]
  /\ tip = [b \in Refs |-> IF b \in Worlds THEN Nothing ELSE main]
  /\ world = [w \in Worlds |-> Nothing]
  /\ on = [w \in Worlds |-> NoName]
  /\ there = {}
  /\ clean = {}
  /\ merged = {}

\* Writes file k to a directory unless it is there. A CLAUDE.md without the protocol
\* keeps its text behind it.
Unless(files, k, name) == IF files[k] \in {NoName, UsersText} THEN name ELSE files[k]

\* The branches that exist: a world's own goes with it.
Existing == {Trunk} \union Branches \union {w \in there : on[w] = w}

-----------------------------------------------------------------------------
\* `ygg init`, as often as the user likes.
YggInit ==
  /\ main' = [main EXCEPT !["hook"] = Unless(main, "hook", AsksClaude),
                          !["settings"] = Unless(main, "settings", MainHook)]
  /\ main' # main
  /\ UNCHANGED <<tip, world, on, there, clean, merged>>

\* The user commits files of the main worktree.
CommitMain(S) ==
  /\ S # {} /\ S \subseteq {k \in Kinds : main[k] # tip[Trunk][k]}
  /\ tip' = [tip EXCEPT ![Trunk] = [k \in Kinds |-> IF k \in S THEN main[k] ELSE @[k]]]
  /\ UNCHANGED <<main, world, on, there, clean, merged>>

\* inject_rules, on what the worktree has from its branch.
InjectRules(w, files) == [k \in Kinds |-> Unless(files, k, w)]

\* A world is made on branch b of the user when nobody has it checked out, and else on a
\* branch of its own that starts where b is.
Create(w, b) ==
  LET taken == b = Trunk \/ \E v \in there : on[v] = b IN
    /\ on[w] = NoName
    /\ b \in Existing
    /\ there' = there \union {w}
    /\ on' = [on EXCEPT ![w] = IF taken THEN w ELSE b]
    /\ tip' = IF taken THEN [tip EXCEPT ![w] = tip[b]] ELSE tip
    /\ world' = [world EXCEPT ![w] = InjectRules(w, tip[b])]
    /\ clean' = clean \union (IF \A k \in Kinds : tip[b][k] \notin Worlds THEN {w} ELSE {})
    /\ UNCHANGED <<main, merged>>

\* The agent adds files of its world to a commit: git add -A takes all of them.
CommitWorld(w, S) ==
  /\ w \in there
  /\ S # {} /\ S \subseteq {k \in Kinds : world[w][k] # tip[on[w]][k]}
  /\ tip' = [tip EXCEPT ![on[w]] = [k \in Kinds |-> IF k \in S THEN world[w][k] ELSE @[k]]]
  /\ UNCHANGED <<main, world, on, there, clean, merged>>

\* The user merges a branch to the trunk. git refuses when both changed a file, and when
\* the main worktree has a file that is not committed and would be overwritten.
Merge(b) ==
  LET changed(r) == {k \in Kinds : tip[r][k] \notin {NoName, UsersText}}
      new == changed(b) \ changed(Trunk)
      files == [k \in Kinds |-> IF k \in new THEN tip[b][k] ELSE tip[Trunk][k]]
  IN
    /\ b \in Existing
    /\ new # {}
    /\ \A k \in changed(b) : files[k] = tip[b][k]
    /\ \A k \in new : main[k] = tip[Trunk][k]
    /\ main' = [k \in Kinds |-> IF k \in new THEN files[k] ELSE main[k]]
    /\ tip' = [tip EXCEPT ![Trunk] = files]
    /\ merged' = merged \union (IF \E k \in new : files[k] \in Worlds THEN {b} ELSE {})
    /\ UNCHANGED <<world, on, there, clean>>

\* delete_world: the worktree goes, and the branch that has the name of the world.
Remove(w) ==
  /\ w \in there
  /\ there' = there \ {w}
  /\ tip' = [tip EXCEPT ![w] = Nothing]
  /\ UNCHANGED <<main, world, on, clean, merged>>

Next ==
  \/ YggInit
  \/ \E S \in SUBSET Kinds : CommitMain(S)
  \/ \E b \in Refs : Merge(b)
  \/ \E w \in Worlds :
       \/ \E b \in Refs : Create(w, b)
       \/ \E S \in SUBSET Kinds : CommitWorld(w, S)
       \/ Remove(w)

Spec == Init /\ [][Next]_vars

-----------------------------------------------------------------------------
\* The hook that the settings of world w name, by its path: none when its world is gone.
HookOf(w) ==
  LET s == world[w]["settings"] IN
    CASE s = MainHook -> main["hook"]
      [] s \in there -> world[s]["hook"]
      [] OTHER -> NoName

\* The world that a tool's changes in world w are reported under.
ReportsAs(w) == IF HookOf(w) = AsksClaude THEN world[w]["claude"] ELSE HookOf(w)

\* What a file may hold besides the name of a world.
Other(k) ==
  {NoName} \union CASE k = "claude" -> {UsersText}
                    [] k = "hook" -> {AsksClaude}
                    [] k = "settings" -> {MainHook}
                    [] k = "stubs" -> {}

\* The files of a directory or a commit.
IsFiles(files) ==
  /\ files = [k \in Kinds |-> files[k]]
  /\ \A k \in Kinds : files[k] \in Worlds \union Other(k)

\* The type of the files, and that worlds are on branches.
TypeOK ==
  /\ IsFiles(main)
  /\ tip = [b \in Refs |-> tip[b]] /\ \A b \in Refs : IsFiles(tip[b])
  /\ world = [w \in Worlds |-> world[w]] /\ \A w \in Worlds : IsFiles(world[w])
  /\ on \in [Worlds -> Refs \union {NoName}]
  /\ there \union clean \subseteq {w \in Worlds : on[w] # NoName}
  /\ merged \subseteq Refs

\* Does not hold (README, Findings). README.md:247: "Every world gets this preamble",
\* with its own id (laws.rs:33-39).
NamesOwnWorld == \A w \in there : world[w]["claude"] = w

\* In a world that was made from a branch without the files of another world, every file
\* that names a world names this one, whatever the agents and the user commit and merge
\* later; and as long as no merge has brought the file of a world to the trunk, its
\* changes are reported under its own id, whichever of the files of `ygg init` the
\* branch holds (laws.rs:28-139, init.rs:16-30 and 105-140).
ReportsOwnWorld ==
  \A w \in there \intersect clean :
    /\ world[w]["claude"] = w /\ world[w]["stubs"] = w
    /\ merged = {} => ReportsAs(w) = w

\* What a world made from a clean branch has: each file from inject_rules, or from `ygg
\* init` by way of the branch.
CleanWorlds ==
  \A w \in there \intersect clean :
    /\ world[w]["claude"] = w /\ world[w]["stubs"] = w
    /\ world[w]["hook"] \in {w, AsksClaude}
    /\ world[w]["settings"] \in {w, MainHook}

\* While no merge has brought the file of a world to the trunk, the hook of the main
\* worktree is that of `ygg init`, and it is there wherever settings name it.
Unmerged ==
  merged = {} =>
    /\ main["hook"] \in {NoName, AsksClaude}
    /\ \/ main["hook"] = AsksClaude
       \/ /\ main["settings"] # MainHook
          /\ \A b \in Refs : tip[b]["settings"] # MainHook
          /\ \A w \in Worlds : world[w]["settings"] # MainHook

LawsInv == TypeOK /\ CleanWorlds /\ Unmerged

\* Ids of worlds, no name, and the other contents are different values.
NamesDiffer ==
  /\ Worlds \intersect ({NoName, UsersText, AsksClaude, MainHook} \union Branches) = {}
  /\ NoName \notin {UsersText, AsksClaude, MainHook} \union Refs
  /\ Trunk \notin Worlds \union Branches

=============================================================================
