------------------------------- MODULE Trunk -------------------------------
(***************************************************************************)
(* The life of worlds: `ygg run` makes one, runs an agent in it and removes *)
(* it again (src/cli/run.rs), the daemon removes one on request             *)
(* (src/daemon/mod.rs), and both use the git worktrees of                   *)
(* src/daemon/trunk.rs without a lock. A step here is one git command, one  *)
(* access to the file system, or some that fail together. `ygg sync --prune` *)
(* would remove worlds as well, but never gets that far (Sync).             *)
(*                                                                         *)
(* The id of a world holds the time at which it was made, so every run has  *)
(* an id of its own: a run, its world, and the branch of that name are one  *)
(* value.                                                                   *)
(***************************************************************************)
EXTENDS Integers, FiniteSets

CONSTANTS
  Runs,      \* the runs of `ygg run`, and the ids of their worlds
  Branches,  \* the branches of the user
  Main,      \* the branch checked out in the main worktree
  NoBranch

ASSUME TrunkAssumption ==
  /\ IsFiniteSet(Runs)
  /\ Main \in Branches
  /\ Runs \intersect Branches = {}
  /\ NoBranch \notin Runs \union Branches

VARIABLES
  refs,       \* the branches that exist
  kept,       \* of each branch: the runs whose commits it holds
  tree,       \* of each world: the branch its worktree has checked out
  dirs,       \* the directories in .ygg/worlds
  port,       \* PORT in the .env of each world, less 3000; 0 without .env
  run,        \* what each run of `ygg run` is doing
  del,        \* of each world: what each of those who may remove it is doing
  remade,     \* history: the worlds whose directory was made anew after its removal
  upset       \* history: "crowded" when two runs chose their ports at the same
              \* time, "removed" when a world's directory was removed

vars == <<refs, kept, tree, dirs, port, run, del, remade, upset>>

Names == Branches \union Runs

\* Those who call delete_world: the run when its agent has exited, and the daemon.
Deleters == {"run", "daemon"}

Init ==
  /\ refs = Branches
  /\ kept = [b \in Names |-> {}]
  /\ tree = [w \in Runs |-> NoBranch]
  /\ dirs = {}
  /\ port = [w \in Runs |-> 0]
  /\ run = [r \in Runs |-> [pc |-> "start", branch |-> NoBranch, target |-> NoBranch, port |-> 0]]
  /\ del = [w \in Runs |-> [d \in Deleters |-> "idle"]]
  /\ remade = {}
  /\ upset = {}

\* The branches that git takes to be checked out.
CheckedOut == {Main} \union {tree[w] : w \in Runs}

\* list_worlds looks for a file HEAD in the directory of the world. A linked worktree
\* has none, so the branch of every world is listed as "unknown".
ListedBranch(w) == "unknown"

-----------------------------------------------------------------------------
(* `ygg run`: make a world and run an agent in it. *)

\* The user picks a branch, and may give up when worlds are listed on it.
ChooseBranch(r, b) ==
  /\ run[r].pc = "start"
  /\ b \in refs
  /\ \E pc \in {"resolve"} \union (IF \E w \in dirs : ListedBranch(w) = b THEN {"left"} ELSE {}) :
       run' = [run EXCEPT ![r].pc = pc, ![r].branch = b]
  /\ UNCHANGED <<refs, kept, tree, dirs, port, del, remade, upset>>

\* git worktree list: a branch that is checked out gives way to one named as the world.
ResolveBranch(r) ==
  /\ run[r].pc = "resolve"
  /\ run' = [run EXCEPT ![r].pc = "ensure",
                        ![r].target = IF run[r].branch \in CheckedOut THEN r ELSE run[r].branch]
  /\ UNCHANGED <<refs, kept, tree, dirs, port, del, remade, upset>>

\* git rev-parse and git branch: the target is there, or is made from the chosen
\* branch (the world's own) or from HEAD. git branch fails without its start. One
\* step: only runs that picked the branch of a removed world could race here.
EnsureBranch(r) ==
  /\ run[r].pc = "ensure"
  /\ LET t == run[r].target
         start == IF t = r THEN run[r].branch ELSE Main IN
       IF t \in refs \/ start \in refs
       THEN /\ refs' = refs \union {t}
            /\ kept' = [kept EXCEPT ![t] = IF t \in refs THEN @ ELSE kept[start]]
            /\ run' = [run EXCEPT ![r].pc = "add"]
       ELSE /\ run' = [run EXCEPT ![r].pc = "failed"]
            /\ UNCHANGED <<refs, kept>>
  /\ UNCHANGED <<tree, dirs, port, del, remade, upset>>

\* Mutant: git worktree add --force.
AddWorktreeForced(r) ==
  /\ run[r].pc = "add"
  /\ tree' = [tree EXCEPT ![r] = run[r].target]
  /\ dirs' = dirs \union {r}
  /\ run' = [run EXCEPT ![r].pc = "count"]
  /\ UNCHANGED <<refs, kept, port, del, remade, upset>>

\* git worktree add looks again whether the branch is checked out; when it fails,
\* the run ends, and a branch made for it stays.
AddWorktree(r) ==
  /\ run[r].pc = "add"
  /\ IF run[r].target \in refs \ CheckedOut
     THEN /\ tree' = [tree EXCEPT ![r] = run[r].target]
          /\ dirs' = dirs \union {r}
          /\ run' = [run EXCEPT ![r].pc = "count"]
          /\ upset' = upset \union (IF \E q \in Runs : run[q].pc = "count" THEN {"crowded"} ELSE {})
     ELSE /\ run' = [run EXCEPT ![r].pc = "failed"]
          /\ UNCHANGED <<tree, dirs, upset>>
  /\ UNCHANGED <<refs, kept, port, del, remade>>

\* Mutant: only worlds that have their .env are counted.
CountWorldsWithEnv(r) ==
  /\ run[r].pc = "count"
  /\ run' = [run EXCEPT ![r].pc = "files",
                        ![r].port = 1 + Cardinality({w \in dirs : port[w] # 0})]
  /\ UNCHANGED <<refs, kept, tree, dirs, port, del, remade, upset>>

\* The port follows from the number of directories there are now, this one included.
CountWorlds(r) ==
  /\ run[r].pc = "count"
  /\ run' = [run EXCEPT ![r].pc = "files", ![r].port = Cardinality(dirs)]
  /\ UNCHANGED <<refs, kept, tree, dirs, port, del, remade, upset>>

\* .env is written, and by inject_rules the rules at the root of the world. Without the
\* directory this fails. The world of a run that fails, here or below, stays.
WriteFiles(r) ==
  /\ run[r].pc = "files"
  /\ IF r \in dirs
     THEN /\ port' = [port EXCEPT ![r] = run[r].port]
          /\ run' = [run EXCEPT ![r].pc = "hooks"]
     ELSE /\ run' = [run EXCEPT ![r].pc = "failed"]
          /\ UNCHANGED port
  /\ UNCHANGED <<refs, kept, tree, dirs, del, remade, upset>>

\* The directory of w is made, perhaps once more.
MakeDir(w) ==
  /\ dirs' = dirs \union {w}
  /\ remade' = remade \union ({w} \ dirs)

\* create_dir_all of .claude/hooks makes the world's directory too when it was removed.
MakeHooksDir(r) ==
  /\ run[r].pc = "hooks"
  /\ MakeDir(r)
  /\ run' = [run EXCEPT ![r].pc = "launch"]
  /\ UNCHANGED <<refs, kept, tree, port, del, upset>>

\* The hooks are written, and the agent starts in the directory; both need it, and the
\* agent may not be installed.
Launch(r) ==
  /\ run[r].pc = "launch"
  /\ \E pc \in {"failed"} \union (IF r \in dirs THEN {"agent"} ELSE {}) :
       run' = [run EXCEPT ![r].pc = pc]
  /\ UNCHANGED <<refs, kept, tree, dirs, port, del, remade, upset>>

\* The agent commits to the branch of its worktree. In a directory that is no worktree
\* any more git finds the repository around it, and its main worktree.
Commit(r) ==
  /\ run[r].pc = "agent"
  /\ r \in dirs
  /\ LET b == IF tree[r] # NoBranch THEN tree[r] ELSE Main IN
       kept' = [kept EXCEPT ![b] = @ \union {r}]
  /\ UNCHANGED <<refs, tree, dirs, port, run, del, remade, upset>>

\* The agent exits, by itself or killed, and the run removes the world.
AgentExits(r) ==
  /\ run[r].pc = "agent"
  /\ run' = [run EXCEPT ![r].pc = "left"]
  /\ del' = [del EXCEPT ![r]["run"] = "remove"]
  /\ UNCHANGED <<refs, kept, tree, dirs, port, remade, upset>>

-----------------------------------------------------------------------------
(* delete_world, by the run or by the daemon. *)

\* A DeleteWorld request for a world that is listed. The agent found in the world is
\* told to terminate, which it does sooner or later. Bound: one request per world.
RequestDelete(w) ==
  /\ del[w]["daemon"] = "idle"
  /\ w \in dirs
  /\ del' = [del EXCEPT ![w]["daemon"] = "remove"]
  /\ UNCHANGED <<refs, kept, tree, dirs, port, run, remade, upset>>

\* The directory of w goes, or stays when somebody writes into it meanwhile: the run
\* that still sets it up, its agent, or another agent that was started there.
DirRemoved(w) ==
  /\ dirs' \in {dirs, dirs \ {w}}
  /\ port' = IF w \in dirs' THEN port ELSE [port EXCEPT ![w] = 0]
  /\ upset' = upset \union (IF dirs' = dirs THEN {} ELSE {"removed"})

\* Mutant: no fallback when git worktree remove fails.
GitRemoveOnly(w, d) ==
  /\ del[w][d] = "remove"
  /\ tree' = [tree EXCEPT ![w] = NoBranch]
  /\ IF tree[w] # NoBranch THEN DirRemoved(w) ELSE UNCHANGED <<dirs, port, upset>>
  /\ del' = [del EXCEPT ![w][d] = "branch"]
  /\ UNCHANGED <<refs, kept, run, remade>>

\* git worktree remove --force, git worktree prune when that fails, and a look
\* whether the directory is still there. git forgets the worktree in any case.
GitRemove(w, d) ==
  /\ del[w][d] = "remove"
  /\ tree' = [tree EXCEPT ![w] = NoBranch]
  /\ IF tree[w] # NoBranch THEN DirRemoved(w) ELSE UNCHANGED <<dirs, port, upset>>
  /\ del' = [del EXCEPT ![w][d] = IF w \in dirs' THEN "dir" ELSE "branch"]
  /\ UNCHANGED <<refs, kept, run, remade>>

\* remove_dir_all, which fails when the directory is filled again and when it is gone.
RemoveDir(w, d) ==
  /\ del[w][d] = "dir"
  /\ DirRemoved(w)
  /\ del' = [del EXCEPT ![w][d] = IF dirs' # dirs THEN "branch" ELSE "failed"]
  /\ UNCHANGED <<refs, kept, tree, run, remade>>

\* Mutant: git update-ref -d, which does not care for worktrees.
DeleteRef(w, d) ==
  /\ del[w][d] = "branch"
  /\ refs' = refs \ {w}
  /\ kept' = [b \in Names |-> IF b \in refs' THEN kept[b] ELSE {}]
  /\ del' = [del EXCEPT ![w][d] = "ok"]
  /\ UNCHANGED <<tree, dirs, port, run, remade, upset>>

\* Mutant: the branch that the world was made on is deleted.
DeleteTarget(w, d) ==
  /\ del[w][d] = "branch"
  /\ refs' = refs \ ({run[w].target} \ CheckedOut)
  /\ kept' = [b \in Names |-> IF b \in refs' THEN kept[b] ELSE {}]
  /\ del' = [del EXCEPT ![w][d] = "ok"]
  /\ UNCHANGED <<tree, dirs, port, run, remade, upset>>

\* git branch -D of the branch named as the world, which git refuses for a branch
\* that is checked out. delete_world succeeds either way.
DeleteBranch(w, d) ==
  /\ del[w][d] = "branch"
  /\ refs' = refs \ ({w} \ CheckedOut)
  /\ kept' = [b \in Names |-> IF b \in refs' THEN kept[b] ELSE {}]
  /\ del' = [del EXCEPT ![w][d] = "ok"]
  /\ UNCHANGED <<tree, dirs, port, run, remade, upset>>

\* An agent that works in the world and was not told to terminate writes a file by its
\* full path, and makes the directories above it.
Refill(w) ==
  /\ w \notin dirs
  /\ \E d \in Deleters : del[w][d] # "idle"
  /\ MakeDir(w)
  /\ UNCHANGED <<refs, kept, tree, port, run, del, upset>>

RunStep(r) ==
  \/ \E b \in Names : ChooseBranch(r, b)
  \/ ResolveBranch(r)
  \/ EnsureBranch(r)
  \/ AddWorktree(r)
  \/ CountWorlds(r)
  \/ WriteFiles(r)
  \/ MakeHooksDir(r)
  \/ Launch(r)
  \/ Commit(r)
  \/ AgentExits(r)

DeleteStep(w, d) == GitRemove(w, d) \/ RemoveDir(w, d) \/ DeleteBranch(w, d)

Next ==
  \E w \in Runs :
    \/ RunStep(w)
    \/ RequestDelete(w)
    \/ \E d \in Deleters : DeleteStep(w, d)
    \/ Refill(w)

Spec == Init /\ [][Next]_vars

-----------------------------------------------------------------------------
(* What the worlds can rely on. *)

RunType == [pc : {"start", "resolve", "ensure", "add", "count", "files", "hooks",
                  "launch", "agent", "left", "failed"},
            branch : Names \union {NoBranch}, target : Names \union {NoBranch}, port : Nat]

\* The types of the git repository, the worlds and those who work on them
\* (trunk.rs, run.rs); a worktree has its directory, and the branch it has
\* checked out exists (trunk.rs:19-36 and 205-208).
TypeOK ==
  /\ refs \subseteq Names
  /\ kept \in [Names -> SUBSET Runs]
  /\ tree \in [Runs -> Names \union {NoBranch}]
  /\ dirs \subseteq Runs
  /\ port \in [Runs -> Nat]
  /\ run \in [Runs -> RunType]
  /\ del \in [Runs -> [Deleters -> {"idle", "remove", "dir", "branch", "ok", "failed"}]]
  /\ remade \subseteq Runs
  /\ upset \subseteq {"crowded", "removed"}
  /\ \A w \in Runs : tree[w] # NoBranch => tree[w] \in refs /\ w \in dirs

\* An agent that nobody asked to stop has its world to itself: the directory with its
\* .env is there, and no other worktree, the main one included, is on its branch
\* (trunk.rs:16-36) - although that was decided from a listing taken before.
AgentsIsolated ==
  \A r \in Runs :
    run[r].pc = "agent" /\ del[r]["daemon"] = "idle" =>
      /\ r \in dirs
      /\ port[r] # 0
      /\ tree[r] = run[r].target
      /\ tree[r] \notin {Main} \union {tree[q] : q \in Runs \ {r}}

\* When delete_world has succeeded, by the run or the daemon or by both at once, git
\* has forgotten the worktree, and the world's own branch is gone, unless another run
\* has picked it (trunk.rs:184-211). The directory is gone too, unless somebody whom
\* delete_world does not wait for has made it anew: the run that was still setting the
\* world up (laws.rs:69), or an agent that goes on writing. It is then no worktree.
DeletedIsGone ==
  \A w \in Runs : \A d \in Deleters :
    del[w][d] = "ok" =>
      /\ w \in dirs => w \in remade
      /\ tree[w] = NoBranch
      /\ w \in refs => \E q \in Runs \ {w} : run[q].target = w

\* No step takes a branch of the user away, or commits from it (trunk.rs:205-208).
UserBranchesKept ==
  [][\A b \in Branches : b \in refs' /\ kept[b] \subseteq kept'[b]]_vars

PortsDistinct ==
  \A v, w \in Runs : v # w /\ port[v] # 0 => port[v] # port[w]

\* As long as no world was removed and no two runs chose their ports at the same time,
\* worlds have different ports (trunk.rs:40-49).
PortsGrow == upset = {} => PortsDistinct

\* Does not hold (README, Observations). README.md:119 ("unique per world index"), with
\* the exception that README.md:364 makes for simultaneous runs.
PortsUnique == "crowded" \notin upset => PortsDistinct
=============================================================================
