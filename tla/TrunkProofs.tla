---------------------------- MODULE TrunkProofs ----------------------------
(***************************************************************************)
(* Proofs about Trunk, for any number of runs and any branches: the state  *)
(* has its type, agents are isolated, what was deleted is gone, ports      *)
(* differ until a world is removed, and the branches of the user are kept. *)
(***************************************************************************)
EXTENDS Trunk, FiniteSetTheorems, TLAPS

(* The invariants that the proofs go by. *)

\* Before its worktree is added a run has no world.
Early(r) == run[r].pc \in {"start", "resolve", "ensure", "add"}

\* What makes AgentsIsolated and DeletedIsGone inductive.
Targets ==
  \A r \in Runs :
    /\ run[r].pc \in {"start", "resolve"} => run[r].target = NoBranch
    /\ run[r].pc = "resolve" => run[r].branch # NoBranch
    /\ run[r].pc \in {"ensure", "add"} => run[r].target # NoBranch
    /\ tree[r] # NoBranch => tree[r] = run[r].target

Removals ==
  \A w \in Runs :
    /\ w \in dirs \/ del[w]["daemon"] # "idle" => ~Early(w)
    /\ del[w]["run"] # "idle" => run[w].pc = "left"
    /\ \A d \in Deleters :
         /\ del[w][d] \in {"dir", "branch", "ok"} => tree[w] = NoBranch
         /\ del[w][d] \in {"branch", "ok"} => w \notin dirs \/ w \in remade
         /\ del[w][d] = "ok" /\ w \in refs => \E q \in Runs \ {w} : run[q].target = w

Separate ==
  \A r \in Runs :
    tree[r] # NoBranch => tree[r] \notin {Main} \union {tree[q] : q \in Runs \ {r}}

Settled ==
  \A r \in Runs :
    del[r]["daemon"] = "idle" =>
      /\ run[r].pc \in {"count", "files", "hooks", "launch", "agent"} =>
           r \in dirs /\ tree[r] = run[r].target /\ tree[r] # NoBranch
      /\ run[r].pc = "files" => run[r].port # 0
      /\ run[r].pc \in {"hooks", "launch", "agent"} => port[r] # 0

TrunkInv == TypeOK /\ Targets /\ Removals /\ Separate /\ Settled

\* What makes PortsGrow inductive: until then at most one run is about to count the
\* directories, and what the others counted is less than what it will find.
PortInv ==
  upset = {} =>
    \A r \in Runs :
      /\ port[r] \in {0, run[r].port}
      /\ run[r].port <= Cardinality(dirs)
      /\ Early(r) => run[r].port = 0
      /\ run[r].pc = "count" => r \in dirs /\ run[r].port = 0
      /\ \A q \in Runs \ {r} :
           /\ run[q].port # 0 => run[q].port # run[r].port
           /\ run[q].pc = "count" => run[r].pc # "count" /\ run[r].port < Cardinality(dirs)

\* A run that has made its world and neither failed nor removed it.
Alive(r) == run[r].pc \in {"count", "files", "hooks", "launch", "agent"}

\* A world that lost its directory lost it by a removal, which upset tells.
RemovalNoted ==
  \A r \in Runs :
    r \notin dirs /\ (Alive(r) \/ \E d \in Deleters : del[r][d] # "idle") => upset # {}

-----------------------------------------------------------------------------
\* The number of world directories is a number, and not 0 when there is one
\* (trunk.rs:40-41).
LEMMA WorldCount ==
  ASSUME TypeOK
  PROVE  /\ Cardinality(dirs) \in Nat
         /\ \A r \in dirs : Cardinality(dirs) # 0
<1>1. IsFiniteSet(dirs)
  BY TrunkAssumption, FS_Subset DEF TypeOK
<1>. QED
  BY <1>1, FS_CardinalityType, FS_EmptySet

\* Removing a directory takes at most that one, and its port with it (trunk.rs:187-202).
LEMMA DirRemovedEffect ==
  ASSUME TypeOK, NEW w \in Runs, DirRemoved(w)
  PROVE  /\ dirs' = dirs \/ dirs' = dirs \ {w}
         /\ port' \in [Runs -> Nat]
         /\ \A v \in Runs \ {w} : port'[v] = port[v]
         /\ upset' \subseteq {"crowded", "removed"}
  BY DEF TypeOK, DirRemoved

\* Every step keeps the types; a directory that is removed has no worktree any more
\* (trunk.rs:184-202).
LEMMA TypeStep ==
  ASSUME TypeOK, Targets, Removals, [Next]_vars
  PROVE  TypeOK'
<1>1. ASSUME NEW r \in Runs, NEW b \in Names, ChooseBranch(r, b)
      PROVE  TypeOK'
  <2>0. PICK pc \in {"resolve", "left"} : run' = [run EXCEPT ![r].pc = pc, ![r].branch = b]
    BY <1>1 DEF ChooseBranch
  <2>. DEFINE t == [run[r] EXCEPT !.pc = pc, !.branch = b]
  <2>2. run' = [run EXCEPT ![r] = t]
    BY <2>0
  <2>4. run[r] \in RunType /\ b \in Names \union {NoBranch}
    BY DEF TypeOK
  <2>3. t \in RunType
    BY <2>4 DEF RunType
  <2>1. run' \in [Runs -> RunType]
    BY <2>2, <2>3 DEF TypeOK
  <2>. QED
    BY <1>1, <2>1 DEF TypeOK, ChooseBranch
<1>2. ASSUME NEW r \in Runs, ResolveBranch(r)
      PROVE  TypeOK'
  <2>0. PICK b \in {r, run[r].branch} : run' = [run EXCEPT ![r].pc = "ensure", ![r].target = b]
    BY <1>2 DEF ResolveBranch
  <2>. DEFINE t == [run[r] EXCEPT !.pc = "ensure", !.target = b]
  <2>2. run' = [run EXCEPT ![r] = t]
    BY <2>0
  <2>5. run[r] \in RunType
    BY DEF TypeOK
  <2>4. b \in Names \union {NoBranch}
    BY <2>5 DEF RunType, Names
  <2>3. t \in RunType
    BY <2>4, <2>5 DEF RunType
  <2>1. run' \in [Runs -> RunType]
    BY <2>2, <2>3 DEF TypeOK
  <2>. QED
    BY <1>2, <2>1 DEF TypeOK, ResolveBranch
<1>3. ASSUME NEW r \in Runs, EnsureBranch(r)
      PROVE  TypeOK'
  <2>0. PICK pc \in {"add", "failed"} : run' = [run EXCEPT ![r].pc = pc]
    BY <1>3 DEF EnsureBranch
  <2>. DEFINE t == [run[r] EXCEPT !.pc = pc]
  <2>2. run' = [run EXCEPT ![r] = t]
    BY <2>0
  <2>6. run[r] \in RunType
    BY DEF TypeOK
  <2>3. t \in RunType
    BY <2>6 DEF RunType
  <2>1. run' \in [Runs -> RunType]
    BY <2>2, <2>3 DEF TypeOK
  <2>4. run[r].target \in Names
    BY <1>3 DEF TypeOK, RunType, Targets, EnsureBranch
  <2>5. refs \subseteq refs' /\ refs' \subseteq Names /\ kept' \in [Names -> SUBSET Runs]
    BY <1>3, <2>4, TrunkAssumption DEF TypeOK, EnsureBranch, Names
  <2>. QED
    BY <1>3, <2>1, <2>5 DEF TypeOK, EnsureBranch
<1>4. ASSUME NEW r \in Runs, AddWorktree(r)
      PROVE  TypeOK'
  <2>0. PICK pc \in {"count", "failed"} : run' = [run EXCEPT ![r].pc = pc]
    BY <1>4 DEF AddWorktree
  <2>. DEFINE t == [run[r] EXCEPT !.pc = pc]
  <2>2. run' = [run EXCEPT ![r] = t]
    BY <2>0
  <2>6. run[r] \in RunType
    BY DEF TypeOK
  <2>3. t \in RunType
    BY <2>6 DEF RunType
  <2>1. run' \in [Runs -> RunType]
    BY <2>2, <2>3 DEF TypeOK
  <2>. QED
    BY <1>4, <2>1, TrunkAssumption DEF TypeOK, AddWorktree, CheckedOut, Names
<1>5. ASSUME NEW r \in Runs, CountWorlds(r)
      PROVE  TypeOK'
  <2>. DEFINE t == [run[r] EXCEPT !.pc = "files", !.port = Cardinality(dirs)]
  <2>2. run' = [run EXCEPT ![r] = t]
    BY <1>5 DEF CountWorlds
  <2>3. t \in RunType
    BY <1>5, WorldCount DEF TypeOK, RunType, Names, CountWorlds
  <2>1. run' \in [Runs -> RunType]
    BY <2>2, <2>3 DEF TypeOK
  <2>. QED
    BY <1>5, <2>1 DEF TypeOK, CountWorlds
<1>6. ASSUME NEW r \in Runs, WriteFiles(r)
      PROVE  TypeOK'
  <2>0. PICK pc \in {"hooks", "failed"} : run' = [run EXCEPT ![r].pc = pc]
    BY <1>6 DEF WriteFiles
  <2>. DEFINE t == [run[r] EXCEPT !.pc = pc]
  <2>2. run' = [run EXCEPT ![r] = t]
    BY <2>0
  <2>6. run[r] \in RunType
    BY DEF TypeOK
  <2>3. t \in RunType
    BY <2>6 DEF RunType
  <2>1. run' \in [Runs -> RunType]
    BY <2>2, <2>3 DEF TypeOK
  <2>. QED
    BY <1>6, <2>1 DEF TypeOK, WriteFiles, RunType
<1>7. ASSUME NEW r \in Runs, Launch(r)
      PROVE  TypeOK'
  <2>0. PICK pc \in {"agent", "failed"} : run' = [run EXCEPT ![r].pc = pc]
    BY <1>7 DEF Launch
  <2>. DEFINE t == [run[r] EXCEPT !.pc = pc]
  <2>2. run' = [run EXCEPT ![r] = t]
    BY <2>0
  <2>6. run[r] \in RunType
    BY DEF TypeOK
  <2>3. t \in RunType
    BY <2>6 DEF RunType
  <2>1. run' \in [Runs -> RunType]
    BY <2>2, <2>3 DEF TypeOK
  <2>. QED
    BY <1>7, <2>1 DEF TypeOK, Launch
<1>8. ASSUME NEW r \in Runs, Commit(r)
      PROVE  TypeOK'
  BY <1>8 DEF TypeOK, Names, Deleters, CheckedOut, Commit
<1>9. ASSUME NEW r \in Runs, AgentExits(r)
      PROVE  TypeOK'
  <2>. DEFINE t == [run[r] EXCEPT !.pc = "left"]
  <2>2. run' = [run EXCEPT ![r] = t]
    BY <1>9 DEF AgentExits
  <2>6. run[r] \in RunType
    BY DEF TypeOK
  <2>3. t \in RunType
    BY <2>6 DEF RunType
  <2>1. run' \in [Runs -> RunType]
    BY <2>2, <2>3 DEF TypeOK
  <2>. QED
    BY <1>9, <2>1 DEF TypeOK, AgentExits, Deleters
<1>10. ASSUME NEW w \in Runs, RequestDelete(w)
      PROVE  TypeOK'
  BY <1>10 DEF TypeOK, Deleters, RequestDelete
<1>11. ASSUME NEW w \in Runs, NEW d \in Deleters, GitRemove(w, d)
      PROVE  TypeOK'
  <2>1. /\ port' \in [Runs -> Nat] /\ upset' \subseteq {"crowded", "removed"}
        /\ dirs' = dirs \/ dirs' = dirs \ {w}
    <3>1. CASE tree[w] # NoBranch
      BY <1>11, <3>1, DirRemovedEffect DEF GitRemove
    <3>2. CASE tree[w] = NoBranch
      BY <1>11, <3>2 DEF GitRemove, TypeOK
    <3>. QED
      BY <3>1, <3>2
  <2>2. \A v \in Runs \ {w} : v \in dirs => v \in dirs'
    BY <2>1
  <2>. QED
    BY <1>11, <2>1, <2>2 DEF TypeOK, GitRemove
<1>12. ASSUME NEW w \in Runs, NEW d \in Deleters, RemoveDir(w, d)
      PROVE  TypeOK'
  <2>1. /\ port' \in [Runs -> Nat] /\ upset' \subseteq {"crowded", "removed"}
        /\ dirs' = dirs \/ dirs' = dirs \ {w}
    BY <1>12, DirRemovedEffect DEF RemoveDir
  <2>2. del' \in [Runs -> [Deleters -> {"idle", "remove", "dir", "branch", "ok", "failed"}]]
    BY <1>12 DEF TypeOK, RemoveDir
  <2>3. \A v \in Runs : tree[v] # NoBranch => v \in dirs'
    BY <1>12, <2>1 DEF RemoveDir, Removals, TypeOK
  <2>. QED
    BY <1>12, <2>1, <2>2, <2>3 DEF TypeOK, RemoveDir
<1>13. ASSUME NEW w \in Runs, NEW d \in Deleters, DeleteBranch(w, d)
      PROVE  TypeOK'
  BY <1>13 DEF TypeOK, Names, Deleters, CheckedOut, DeleteBranch
<1>14. ASSUME NEW r \in Runs, MakeHooksDir(r)
      PROVE  TypeOK'
  <2>. DEFINE t == [run[r] EXCEPT !.pc = "launch"]
  <2>2. run' = [run EXCEPT ![r] = t]
    BY <1>14 DEF MakeHooksDir
  <2>6. run[r] \in RunType
    BY DEF TypeOK
  <2>3. t \in RunType
    BY <2>6 DEF RunType
  <2>1. run' \in [Runs -> RunType]
    BY <2>2, <2>3 DEF TypeOK
  <2>. QED
    BY <1>14, <2>1 DEF TypeOK, MakeHooksDir, MakeDir
<1>16. ASSUME NEW w \in Runs, Refill(w)
      PROVE  TypeOK'
  BY <1>16 DEF TypeOK, Refill, MakeDir
<1>15. CASE UNCHANGED vars
  BY <1>15 DEF TypeOK, vars
<1>. QED
  BY <1>1, <1>2, <1>3, <1>4, <1>5, <1>6, <1>7, <1>8,
     <1>9, <1>10, <1>11, <1>12, <1>13, <1>14, <1>15, <1>16
  DEF Next, RunStep, DeleteStep

\* The invariant that the properties below follow from: targets are chosen once,
\* removals go through their steps in order, worktrees are on branches of their own
\* (trunk.rs:67-125 and 184-211, run.rs:102-113).
THEOREM TrunkInductive == Spec => []TrunkInv
<1>1. Init => TrunkInv
  <2> SUFFICES ASSUME Init PROVE TrunkInv
    OBVIOUS
  <2>1. TypeOK
    BY DEF Init, TypeOK, RunType, Names, Deleters
  <2>2. Targets /\ Removals /\ Separate /\ Settled
    BY DEF Init, Targets, Removals, Separate, Settled, Early, Deleters
  <2>. QED
    BY <2>1, <2>2 DEF TrunkInv
<1>2. TypeOK /\ TypeOK' /\ Targets /\ Removals /\ Separate /\ Settled /\ [Next]_vars
        => Targets' /\ Removals' /\ Separate' /\ Settled'
  <2> SUFFICES ASSUME TypeOK, TypeOK', Targets, Removals, Separate, Settled, [Next]_vars
               PROVE  Targets' /\ Removals' /\ Separate' /\ Settled'
    OBVIOUS
  <2>1. ASSUME NEW r \in Runs, NEW b \in Names, ChooseBranch(r, b)
        PROVE  Targets' /\ Removals' /\ Separate' /\ Settled'
    <3>0. /\ \A q \in Runs \ {r} : run'[q] = run[q]
          /\ run[r].pc = "start" /\ run'[r].pc \in {"resolve", "left"}
          /\ run'[r].target = run[r].target /\ run'[r].branch = b /\ b # NoBranch
          /\ UNCHANGED tree
      BY <2>1, TrunkAssumption DEF TypeOK, RunType, Names, ChooseBranch
    <3>1. Targets'
      BY <3>0 DEF Targets
    <3>2. Removals'
      BY <2>1 DEF TypeOK, Removals, Early, Targets, Deleters, ChooseBranch
    <3>3. Separate'
      BY <2>1 DEF TypeOK, Separate, ChooseBranch
    <3>4. Settled'
      BY <2>1 DEF TypeOK, Settled, Removals, ChooseBranch
    <3>. QED
      BY <3>1, <3>2, <3>3, <3>4
  <2>2. ASSUME NEW r \in Runs, ResolveBranch(r)
        PROVE  Targets' /\ Removals' /\ Separate' /\ Settled'
    <3>0. /\ \A q \in Runs \ {r} : run'[q] = run[q]
          /\ run[r].pc = "resolve" /\ run'[r].pc = "ensure" /\ run'[r].port = run[r].port
          /\ run'[r].target \in {r, run[r].branch}
          /\ UNCHANGED <<refs, tree, dirs, port, del, remade>>
      BY <2>2 DEF TypeOK, RunType, ResolveBranch
    <3>5. Early(r) /\ tree[r] = NoBranch
      BY <3>0, TrunkAssumption DEF Early, Removals, Targets, TypeOK
    <3>6. /\ run[r].target = NoBranch /\ NoBranch \notin Runs
          /\ run'[r].target # NoBranch
      BY <3>0, TrunkAssumption DEF Targets
    <3>7. \A q \in Runs : run[q].target \in Runs => run'[q].target = run[q].target
      BY <3>0, <3>6
    <3>1. Targets'
      BY <3>0, <3>5, <3>6 DEF Targets
    <3>2. Removals'
      BY <3>0, <3>5, <3>7 DEF Removals, Early
    <3>3. Separate'
      BY <3>0 DEF Separate
    <3>4. Settled'
      BY <3>0, <3>5 DEF Settled, Removals
    <3>. QED
      BY <3>1, <3>2, <3>3, <3>4
  <2>3. ASSUME NEW r \in Runs, EnsureBranch(r)
        PROVE  Targets' /\ Removals' /\ Separate' /\ Settled'
    <3>0. /\ \A q \in Runs \ {r} : run'[q] = run[q]
          /\ run'[r].pc \in {"add", "failed"}
          /\ run'[r].target = run[r].target /\ run'[r].port = run[r].port
          /\ run[r].pc = "ensure"
          /\ refs' = refs \/ refs' = refs \union {run[r].target}
          /\ UNCHANGED <<tree, dirs, port, del, remade>>
      BY <2>3 DEF TypeOK, RunType, EnsureBranch
    <3>5. \A q \in Runs : run'[q].target = run[q].target
      BY <3>0
    <3>6. /\ r \notin dirs /\ tree[r] = NoBranch
          /\ \A d \in Deleters : del[r][d] = "idle"
      BY <3>0 DEF Early, Removals, Deleters, TypeOK
    <3>1. Targets'
      BY <3>0, <3>5 DEF Targets
    <3>2. Removals'
      BY <3>0, <3>5, <3>6 DEF Removals, Early
    <3>3. Separate'
      BY <3>0 DEF Separate
    <3>4. Settled'
      BY <3>0 DEF Settled
    <3>. QED
      BY <3>1, <3>2, <3>3, <3>4
  <2>4. ASSUME NEW r \in Runs, AddWorktree(r)
        PROVE  Targets' /\ Removals' /\ Separate' /\ Settled'
    <3>0. /\ \A q \in Runs \ {r} : run'[q] = run[q]
          /\ run'[r].pc \in {"count", "failed"}
          /\ run'[r].target = run[r].target /\ run'[r].port = run[r].port
          /\ run[r].pc = "add"
          /\ \/ /\ run[r].target \in refs \ CheckedOut
                /\ tree' = [tree EXCEPT ![r] = run[r].target]
                /\ dirs' = dirs \union {r}
             \/ run'[r].pc = "failed" /\ UNCHANGED <<tree, dirs>>
          /\ UNCHANGED <<refs, port, del, remade>>
      BY <2>4 DEF TypeOK, RunType, AddWorktree
    <3>5. \A q \in Runs : run'[q].target = run[q].target
      BY <3>0
    <3>6. \A d \in Deleters : del[r][d] = "idle"
      BY <3>0 DEF Early, Removals, Deleters, TypeOK
    <3>7. NoBranch \notin refs
      BY TrunkAssumption DEF TypeOK, Names
    <3>8. /\ \A q \in Runs \ {r} : tree'[q] = tree[q] /\ (q \in dirs' <=> q \in dirs)
          /\ tree'[r] = tree[r] \/ tree'[r] = run[r].target
      BY <3>0 DEF TypeOK
    <3>1. Targets'
      BY <3>0, <3>5, <3>8 DEF Targets
    <3>2. Removals'
      BY <3>0, <3>5, <3>6, <3>8 DEF Removals, Early
    <3>3. Separate'
      BY <3>0, <3>8 DEF Separate, CheckedOut, TypeOK
    <3>4. Settled'
      BY <3>0, <3>7, <3>8 DEF Settled, TypeOK
    <3>. QED
      BY <3>1, <3>2, <3>3, <3>4
  <2>5. ASSUME NEW r \in Runs, CountWorlds(r)
        PROVE  Targets' /\ Removals' /\ Separate' /\ Settled'
    <3>0. /\ \A q \in Runs \ {r} : run'[q] = run[q]
          /\ run'[r].pc = "files" /\ run'[r].target = run[r].target
          /\ UNCHANGED tree
      BY <2>5 DEF TypeOK, RunType, CountWorlds
    <3>1. Targets'
      BY <3>0 DEF Targets
    <3>2. Removals'
      <4>1. run[r].pc = "count" /\ UNCHANGED <<refs, tree, dirs, del, remade>>
        BY <2>5 DEF CountWorlds
      <4>2. \A q \in Runs : run'[q].target = run[q].target
        BY <3>0
      <4>. QED
        BY <3>0, <4>1, <4>2 DEF Removals, Early
    <3>3. Separate'
      BY <2>5 DEF TypeOK, Separate, CountWorlds
    <3>4. Settled'
      BY <2>5, WorldCount DEF TypeOK, Settled, Removals, CountWorlds
    <3>. QED
      BY <3>1, <3>2, <3>3, <3>4
  <2>6. ASSUME NEW r \in Runs, WriteFiles(r)
        PROVE  Targets' /\ Removals' /\ Separate' /\ Settled'
    <3>0. /\ \A q \in Runs \ {r} : run'[q] = run[q]
          /\ run'[r].pc \in {"hooks", "failed"}
          /\ run'[r].target = run[r].target /\ run'[r].port = run[r].port
          /\ run[r].pc = "files"
          /\ \/ port' = [port EXCEPT ![r] = run[r].port]
             \/ run'[r].pc = "failed" /\ UNCHANGED port
          /\ UNCHANGED <<refs, tree, dirs, del, remade>>
      BY <2>6 DEF TypeOK, RunType, WriteFiles
    <3>5. \A q \in Runs : run'[q].target = run[q].target
      BY <3>0
    <3>1. Targets'
      BY <3>0, <3>5 DEF Targets
    <3>2. Removals'
      BY <3>0, <3>5 DEF Removals, Early
    <3>3. Separate'
      BY <3>0 DEF Separate
    <3>4. Settled'
      BY <3>0 DEF Settled, TypeOK
    <3>. QED
      BY <3>1, <3>2, <3>3, <3>4
  <2>7. ASSUME NEW r \in Runs, Launch(r)
        PROVE  Targets' /\ Removals' /\ Separate' /\ Settled'
    <3>1. Targets'
      BY <2>7 DEF TypeOK, Targets, Launch
    <3>2. Removals'
      BY <2>7 DEF TypeOK, Removals, Early, Targets, Deleters, Launch
    <3>3. Separate'
      BY <2>7 DEF TypeOK, Separate, Launch
    <3>4. Settled'
      BY <2>7 DEF TypeOK, Settled, Removals, Launch
    <3>. QED
      BY <3>1, <3>2, <3>3, <3>4
  <2>8. ASSUME NEW r \in Runs, Commit(r)
        PROVE  Targets' /\ Removals' /\ Separate' /\ Settled'
    <3>1. Targets'
      BY <2>8 DEF TypeOK, Targets, Commit
    <3>2. Removals'
      BY <2>8 DEF TypeOK, Removals, Early, Targets, Deleters, Commit
    <3>3. Separate'
      BY <2>8 DEF TypeOK, Separate, Commit
    <3>4. Settled'
      BY <2>8 DEF TypeOK, Settled, Removals, Commit
    <3>. QED
      BY <3>1, <3>2, <3>3, <3>4
  <2>9. ASSUME NEW r \in Runs, AgentExits(r)
        PROVE  Targets' /\ Removals' /\ Separate' /\ Settled'
    <3>1. Targets'
      BY <2>9 DEF TypeOK, Targets, AgentExits
    <3>2. Removals'
      BY <2>9 DEF TypeOK, Removals, Early, Targets, Deleters, AgentExits
    <3>3. Separate'
      BY <2>9 DEF TypeOK, Separate, AgentExits
    <3>4. Settled'
      BY <2>9 DEF TypeOK, Settled, Removals, AgentExits
    <3>. QED
      BY <3>1, <3>2, <3>3, <3>4
  <2>10. ASSUME NEW w \in Runs, RequestDelete(w)
        PROVE  Targets' /\ Removals' /\ Separate' /\ Settled'
    <3>1. Targets'
      BY <2>10 DEF TypeOK, Targets, RequestDelete
    <3>2. Removals'
      BY <2>10 DEF TypeOK, Removals, Early, Targets, Deleters, RequestDelete
    <3>3. Separate'
      BY <2>10 DEF TypeOK, Separate, RequestDelete
    <3>4. Settled'
      BY <2>10 DEF TypeOK, Settled, Removals, RequestDelete
    <3>. QED
      BY <3>1, <3>2, <3>3, <3>4
  <2>11. ASSUME NEW w \in Runs, NEW d \in Deleters, GitRemove(w, d)
        PROVE  Targets' /\ Removals' /\ Separate' /\ Settled'
    <3>1. Targets'
      BY <2>11 DEF TypeOK, Targets, GitRemove, DirRemoved
    <3>2. Removals'
      BY <2>11 DEF TypeOK, Removals, Early, Targets, Deleters, GitRemove, DirRemoved
    <3>3. Separate'
      BY <2>11 DEF TypeOK, Separate, GitRemove, DirRemoved
    <3>4. Settled'
      <4>1. /\ del[w]["daemon"] # "idle" \/ run[w].pc = "left"
            /\ \A v \in Runs : del'[v]["daemon"] = "idle" => del[v]["daemon"] = "idle"
        BY <2>11 DEF GitRemove, Removals, Deleters, TypeOK
      <4>2. \A v \in Runs \ {w} : /\ del'[v] = del[v] /\ tree'[v] = tree[v] /\ port'[v] = port[v]
                                   /\ v \in dirs' <=> v \in dirs
        BY <2>11, DirRemovedEffect DEF GitRemove, TypeOK
      <4>3. UNCHANGED run
        BY <2>11 DEF GitRemove
      <4>4. del'[w]["daemon"] = "idle" => run[w].pc = "left"
        BY <4>1
      <4>. QED
        BY <4>1, <4>2, <4>3, <4>4 DEF Settled
    <3>. QED
      BY <3>1, <3>2, <3>3, <3>4
  <2>12. ASSUME NEW w \in Runs, NEW d \in Deleters, RemoveDir(w, d)
        PROVE  Targets' /\ Removals' /\ Separate' /\ Settled'
    <3>1. Targets'
      BY <2>12 DEF TypeOK, Targets, RemoveDir, DirRemoved
    <3>2. Removals'
      BY <2>12 DEF TypeOK, Removals, Early, Targets, Deleters, RemoveDir, DirRemoved
    <3>3. Separate'
      BY <2>12 DEF TypeOK, Separate, RemoveDir, DirRemoved
    <3>4. Settled'
      BY <2>12 DEF TypeOK, Settled, Removals, RemoveDir, DirRemoved
    <3>. QED
      BY <3>1, <3>2, <3>3, <3>4
  <2>13. ASSUME NEW w \in Runs, NEW d \in Deleters, DeleteBranch(w, d)
        PROVE  Targets' /\ Removals' /\ Separate' /\ Settled'
    <3>1. Targets'
      BY <2>13 DEF TypeOK, Targets, DeleteBranch
    <3>2. Removals'
      <4>1. /\ \A v \in Runs, e \in Deleters : v # w \/ e # d => del'[v][e] = del[v][e]
            /\ del[w][d] = "branch" /\ del'[w][d] = "ok" /\ refs' \subseteq refs
            /\ UNCHANGED <<tree, dirs, run, remade>>
        BY <2>13 DEF TypeOK, DeleteBranch
      <4>2. (w \notin dirs \/ w \in remade) /\ tree[w] = NoBranch
        BY <4>1 DEF Removals
      <4>3. ASSUME w \in refs' PROVE \E q \in Runs \ {w} : run[q].target = w
        <5>1. w # Main /\ w # NoBranch
          BY TrunkAssumption
        <5>2. PICK q \in Runs : tree[q] = w
          BY <2>13, <4>3, <5>1 DEF DeleteBranch, CheckedOut
        <5>. QED
          BY <4>2, <5>1, <5>2 DEF Targets
      <4>4. /\ "daemon" \in Deleters /\ "run" \in Deleters
            /\ \A v \in Runs : /\ del[v]["daemon"] = "idle" => del'[v]["daemon"] = "idle"
                              /\ del[v]["run"] = "idle" => del'[v]["run"] = "idle"
        BY <4>1 DEF Deleters
      <4>. QED
        BY <4>1, <4>2, <4>3, <4>4 DEF Removals, Early
    <3>3. Separate'
      BY <2>13 DEF TypeOK, Separate, DeleteBranch
    <3>4. Settled'
      BY <2>13 DEF TypeOK, Settled, DeleteBranch
    <3>. QED
      BY <3>1, <3>2, <3>3, <3>4
  <2>14. ASSUME NEW r \in Runs, MakeHooksDir(r)
        PROVE  Targets' /\ Removals' /\ Separate' /\ Settled'
    <3>0. /\ \A q \in Runs \ {r} : run'[q] = run[q] /\ (q \in dirs' <=> q \in dirs)
          /\ run[r].pc = "hooks" /\ run'[r].pc = "launch"
          /\ run'[r].target = run[r].target /\ run'[r].port = run[r].port
          /\ r \in dirs' /\ (r \in dirs \/ r \in remade') /\ remade \subseteq remade'
          /\ UNCHANGED <<refs, tree, port, del>>
      BY <2>14 DEF TypeOK, RunType, MakeHooksDir, MakeDir
    <3>5. \A q \in Runs : run'[q].target = run[q].target
      BY <3>0
    <3>1. Targets'
      BY <3>0, <3>5 DEF Targets
    <3>2. Removals'
      BY <3>0, <3>5 DEF Removals, Early
    <3>3. Separate'
      BY <3>0 DEF Separate
    <3>4. Settled'
      BY <3>0, <3>5 DEF Settled
    <3>. QED
      BY <3>1, <3>2, <3>3, <3>4
  <2>16. ASSUME NEW w \in Runs, Refill(w)
        PROVE  Targets' /\ Removals' /\ Separate' /\ Settled'
    <3>0. /\ \A q \in Runs \ {w} : q \in dirs' <=> q \in dirs
          /\ w \in dirs' /\ w \in remade' /\ remade \subseteq remade'
          /\ del[w]["run"] # "idle" \/ del[w]["daemon"] # "idle"
          /\ UNCHANGED <<refs, tree, port, run, del>>
      BY <2>16 DEF Refill, MakeDir, Deleters
    <3>5. ~Early(w)
      BY <3>0 DEF Removals, Early
    <3>1. Targets'
      BY <3>0 DEF Targets
    <3>2. Removals'
      BY <3>0, <3>5 DEF Removals, Early
    <3>3. Separate'
      BY <3>0 DEF Separate
    <3>4. Settled'
      BY <3>0 DEF Settled
    <3>. QED
      BY <3>1, <3>2, <3>3, <3>4
  <2>15. CASE UNCHANGED vars
    BY <2>15 DEF Targets, Removals, Separate, Settled, Early, vars
  <2>. QED
    BY <2>1, <2>2, <2>3, <2>4, <2>5, <2>6, <2>7, <2>8,
       <2>9, <2>10, <2>11, <2>12, <2>13, <2>14, <2>15, <2>16
    DEF Next, RunStep, DeleteStep
<1>3. TrunkInv /\ [Next]_vars => TrunkInv'
  BY <1>2, TypeStep DEF TrunkInv
<1>. QED
  BY <1>1, <1>3, PTL DEF Spec

\* The state of the repository, the worlds and the processes is always of its type,
\* and each worktree has its directory and an existing branch (trunk.rs, run.rs).
THEOREM TrunkTypeCorrect == Spec => []TypeOK
<1>1. TrunkInv => TypeOK
  BY DEF TrunkInv
<1>. QED
  BY <1>1, TrunkInductive, PTL

\* An agent that nobody asked to stop has its world to itself (trunk.rs:16-36).
THEOREM IsolationHolds == Spec => []AgentsIsolated
<1>1. TrunkInv => AgentsIsolated
  BY DEF TrunkInv, Settled, Separate, AgentsIsolated
<1>. QED
  BY <1>1, TrunkInductive, PTL

\* When delete_world has succeeded, the worktree is gone, and so is the directory unless
\* somebody made it anew (trunk.rs:184-211, laws.rs:69).
THEOREM DeletionHolds == Spec => []DeletedIsGone
<1>1. TrunkInv => DeletedIsGone
  BY DEF TrunkInv, Removals, DeletedIsGone
<1>. QED
  BY <1>1, TrunkInductive, PTL

\* The branches of the user exist.
UserBranchesExist == Branches \subseteq refs

\* The branches of the user exist at all times (trunk.rs:205-208).
LEMMA UserBranchesStay == Spec => []UserBranchesExist
<1>1. Init => UserBranchesExist
  BY DEF Init, UserBranchesExist
<1>2. UserBranchesExist /\ [Next]_vars => UserBranchesExist'
  <2> SUFFICES ASSUME Branches \subseteq refs, [Next]_vars PROVE Branches \subseteq refs'
    BY DEF UserBranchesExist
  <2>1. ASSUME NEW r \in Runs, EnsureBranch(r) PROVE Branches \subseteq refs'
    BY <2>1 DEF EnsureBranch
  <2>2. ASSUME NEW w \in Runs, NEW d \in Deleters, DeleteBranch(w, d)
        PROVE  Branches \subseteq refs'
    BY <2>2, TrunkAssumption DEF DeleteBranch
  <2>3. CASE UNCHANGED refs
    BY <2>3
  <2>. QED
    BY <2>1, <2>2, <2>3
    DEF Next, RunStep, DeleteStep, vars, ChooseBranch, ResolveBranch, AddWorktree, CountWorlds,
        WriteFiles, Launch, Commit, AgentExits, RequestDelete, GitRemove, RemoveDir,
        MakeHooksDir, Refill
<1>. QED
  BY <1>1, <1>2, PTL DEF Spec

\* No step takes a branch of the user away or commits from it (trunk.rs:205-208).
THEOREM UserWorkIsKept == Spec => UserBranchesKept
<1>1. TypeOK /\ UserBranchesExist /\ UserBranchesExist' /\ [Next]_vars
        => [\A b \in Branches : b \in refs' /\ kept[b] \subseteq kept'[b]]_vars
  <2> SUFFICES ASSUME TypeOK, Branches \subseteq refs, Branches \subseteq refs', Next,
                      NEW b \in Branches
               PROVE  kept[b] \subseteq kept'[b]
    BY DEF UserBranchesExist
  <2>1. b \in Names /\ b \notin Runs
    BY TrunkAssumption DEF Names
  <2>2. ASSUME NEW r \in Runs, EnsureBranch(r) PROVE kept[b] \subseteq kept'[b]
    BY <2>1, <2>2 DEF TypeOK, EnsureBranch
  <2>3. ASSUME NEW r \in Runs, Commit(r) PROVE kept[b] \subseteq kept'[b]
    BY <2>1, <2>3 DEF TypeOK, Commit
  <2>4. ASSUME NEW w \in Runs, NEW d \in Deleters, DeleteBranch(w, d)
        PROVE  kept[b] \subseteq kept'[b]
    BY <2>1, <2>4 DEF TypeOK, DeleteBranch
  <2>6. CASE UNCHANGED kept
    BY <2>6
  <2>. QED
    BY <2>2, <2>3, <2>4, <2>6
    DEF Next, RunStep, DeleteStep, ChooseBranch, ResolveBranch, AddWorktree, CountWorlds,
        WriteFiles, MakeHooksDir, Launch, AgentExits, RequestDelete, GitRemove, RemoveDir, Refill
<1>. QED
  BY <1>1, TrunkTypeCorrect, UserBranchesStay, PTL DEF Spec, UserBranchesKept
\* A step that chooses no port and makes or removes no directory keeps what is known of
\* the ports (trunk.rs:16-49).
LEMMA PortsAlone ==
  ASSUME PortInv, dirs' = dirs, upset' = upset,
         \A r \in Runs : port'[r] \in {0, run[r].port} \/ port'[r] = port[r],
         \A r \in Runs :
           /\ run'[r].port = run[r].port
           /\ Early(r)' => Early(r)
           /\ run'[r].pc = "count" => run[r].pc = "count"
  PROVE  PortInv'
BY DEF PortInv

\* A directory is only taken away by a removal (trunk.rs:187-202), and a run that has not
\* made it yet is not asked to remove it.
LEMMA NotedStep ==
  ASSUME TrunkInv, RemovalNoted, [Next]_vars
  PROVE  RemovalNoted'
<1>t. TypeOK /\ Removals
  BY DEF TrunkInv
<1>r. \A r \in Runs : run[r] \in RunType
  BY <1>t DEF TypeOK
<1>1. ASSUME NEW r \in Runs, NEW b \in Names, ChooseBranch(r, b)
      PROVE  RemovalNoted'
  BY <1>1, <1>t DEF TypeOK, RemovalNoted, Alive, ChooseBranch
<1>2. ASSUME NEW r \in Runs, ResolveBranch(r) PROVE RemovalNoted'
  BY <1>2, <1>t DEF TypeOK, RemovalNoted, Alive, ResolveBranch
<1>3. ASSUME NEW r \in Runs, EnsureBranch(r) PROVE RemovalNoted'
  <2>1. /\ UNCHANGED <<dirs, del, upset>>
        /\ \A q \in Runs : Alive(q)' => Alive(q)
    BY <1>3, <1>t, <1>r DEF TypeOK, RunType, Alive, EnsureBranch
  <2>. QED BY <2>1 DEF RemovalNoted
<1>4. ASSUME NEW r \in Runs, AddWorktree(r) PROVE RemovalNoted'
  <2>1. /\ UNCHANGED del
        /\ dirs \subseteq dirs' /\ upset \subseteq upset'
        /\ \A q \in Runs \ dirs' : Alive(q)' => Alive(q)
    BY <1>4, <1>t, <1>r DEF TypeOK, RunType, Alive, AddWorktree
  <2>2. \A q \in Runs \ dirs' : q \notin dirs
    BY <2>1
  <2>. QED BY <2>1, <2>2 DEF RemovalNoted
<1>5. ASSUME NEW r \in Runs, CountWorlds(r) PROVE RemovalNoted'
  BY <1>5, <1>t DEF TypeOK, RemovalNoted, Alive, CountWorlds
<1>6. ASSUME NEW r \in Runs, WriteFiles(r) PROVE RemovalNoted'
  BY <1>6, <1>t DEF TypeOK, RemovalNoted, Alive, WriteFiles
<1>7. ASSUME NEW r \in Runs, MakeHooksDir(r) PROVE RemovalNoted'
  BY <1>7, <1>t DEF TypeOK, RemovalNoted, Alive, MakeHooksDir, MakeDir
<1>8. ASSUME NEW r \in Runs, Launch(r) \/ Commit(r) PROVE RemovalNoted'
  BY <1>8, <1>t DEF TypeOK, RemovalNoted, Alive, Launch, Commit
<1>9. ASSUME NEW r \in Runs, AgentExits(r) PROVE RemovalNoted'
  BY <1>9, <1>t DEF TypeOK, RemovalNoted, Alive, AgentExits
<1>10. ASSUME NEW w \in Runs, RequestDelete(w) PROVE RemovalNoted'
  BY <1>10, <1>t DEF TypeOK, RemovalNoted, Alive, RequestDelete
<1>11. ASSUME NEW w \in Runs, NEW d \in Deleters, GitRemove(w, d) \/ RemoveDir(w, d)
       PROVE  RemovalNoted'
  <2>1. \/ UNCHANGED <<dirs, upset>>
        \/ "removed" \in upset'
    BY <1>11 DEF GitRemove, RemoveDir, DirRemoved
  <2>2. /\ run' = run
        /\ \A v \in Runs : (\E e \in Deleters : del'[v][e] # "idle")
                             => \E e \in Deleters : del[v][e] # "idle"
    BY <1>11, <1>t DEF GitRemove, RemoveDir, TypeOK
  <2>. QED BY <2>1, <2>2 DEF RemovalNoted, Alive
<1>12. ASSUME NEW w \in Runs, NEW d \in Deleters, DeleteBranch(w, d) PROVE RemovalNoted'
  BY <1>12, <1>t DEF TypeOK, RemovalNoted, Alive, DeleteBranch
<1>13. ASSUME NEW w \in Runs, Refill(w) PROVE RemovalNoted'
  BY <1>13, <1>t DEF TypeOK, RemovalNoted, Alive, Refill, MakeDir
<1>14. CASE UNCHANGED vars
  BY <1>14 DEF RemovalNoted, Alive, vars
<1>. QED
  BY <1>1, <1>2, <1>3, <1>4, <1>5, <1>6, <1>7, <1>8, <1>9, <1>10, <1>11, <1>12, <1>13, <1>14
  DEF Next, RunStep, DeleteStep

\* Each step of the runs and of removals keeps what is known of the ports
\* (trunk.rs:16-49, 184-211).
LEMMA PortStep ==
  ASSUME TrunkInv, RemovalNoted, PortInv, [Next]_vars
  PROVE  PortInv'
<1>t. TypeOK
  BY DEF TrunkInv
<1>r. \A r \in Runs : run[r] \in RunType
  BY <1>t DEF TypeOK
<1>c. /\ IsFiniteSet(dirs) /\ Cardinality(dirs) \in Nat
      /\ \A r \in dirs : Cardinality(dirs) # 0
  BY <1>t, WorldCount, TrunkAssumption, FS_Subset DEF TypeOK
<1>p. \A r \in Runs : run[r].port \in Nat
  BY <1>r DEF RunType
<1>1. ASSUME NEW r \in Runs, NEW b \in Names, ChooseBranch(r, b) PROVE PortInv'
  <2>1. PICK pc \in {"resolve", "left"} : run' = [run EXCEPT ![r].pc = pc, ![r].branch = b]
    BY <1>1 DEF ChooseBranch
  <2>. QED BY <1>1, <1>t, <1>r, <2>1, PortsAlone DEF ChooseBranch, TypeOK, RunType, Early
<1>2. ASSUME NEW r \in Runs,
             ResolveBranch(r) \/ EnsureBranch(r) \/ Launch(r) \/ Commit(r) \/ AgentExits(r)
      PROVE  PortInv'
  <2>1. /\ \A q \in Runs : /\ run'[q].port = run[q].port
                           /\ Early(q)' => Early(q)
                           /\ run'[q].pc = "count" => run[q].pc = "count"
    <3>1. CASE ResolveBranch(r)
      BY <3>1, <1>t, <1>r DEF ResolveBranch, TypeOK, RunType, Early
    <3>2. CASE EnsureBranch(r)
      BY <3>2, <1>t, <1>r DEF EnsureBranch, TypeOK, RunType, Early
    <3>3. CASE Launch(r)
      BY <3>3, <1>t, <1>r DEF Launch, TypeOK, RunType, Early
    <3>4. CASE Commit(r)
      BY <3>4 DEF Commit, Early
    <3>5. CASE AgentExits(r)
      BY <3>5, <1>t, <1>r DEF AgentExits, TypeOK, RunType, Early
    <3>. QED BY <1>2, <3>1, <3>2, <3>3, <3>4, <3>5
  <2>2. UNCHANGED <<dirs, upset, port>>
    BY <1>2 DEF ResolveBranch, EnsureBranch, Launch, Commit, AgentExits
  <2>. QED BY <2>1, <2>2, PortsAlone
<1>3. ASSUME NEW r \in Runs, WriteFiles(r) PROVE PortInv'
  <2>1. \A q \in Runs : /\ run'[q].port = run[q].port
                        /\ Early(q)' => Early(q)
                        /\ run'[q].pc = "count" => run[q].pc = "count"
    BY <1>3, <1>t, <1>r DEF WriteFiles, TypeOK, RunType, Early
  <2>2. \A q \in Runs : port'[q] \in {0, run[q].port} \/ port'[q] = port[q]
    BY <1>3, <1>t DEF WriteFiles, TypeOK
  <2>. QED BY <1>3, <2>1, <2>2, PortsAlone DEF WriteFiles
<1>4. ASSUME NEW r \in Runs, AddWorktree(r) PROVE PortInv'
  <2>1. CASE UNCHANGED <<dirs, upset>> /\ run' = [run EXCEPT ![r].pc = "failed"]
    <3>1. \A q \in Runs : /\ run'[q].port = run[q].port
                          /\ Early(q)' => Early(q)
                          /\ run'[q].pc = "count" => run[q].pc = "count"
      BY <1>t, <1>r, <2>1 DEF TypeOK, RunType, Early
    <3>. QED BY <1>4, <2>1, <3>1, PortsAlone DEF AddWorktree
  <2>2. CASE /\ dirs' = dirs \union {r} /\ run' = [run EXCEPT ![r].pc = "count"]
             /\ upset' = upset \union (IF \E q \in Runs : run[q].pc = "count" THEN {"crowded"} ELSE {})
    <3>1. r \notin dirs /\ Early(r)
      BY <1>4 DEF AddWorktree, TrunkInv, Removals, Early
    <3>2. Cardinality(dirs') = Cardinality(dirs) + 1
      BY <1>c, <2>2, <3>1, FS_AddElement
    <3>3. /\ run'[r].pc = "count" /\ run'[r].port = run[r].port
          /\ \A q \in Runs \ {r} : run'[q] = run[q]
      BY <1>t, <1>r, <2>2 DEF TypeOK, RunType
    <3>4. port' = port
      BY <1>4 DEF AddWorktree
    <3> SUFFICES ASSUME upset' = {}
                 PROVE  PortInv'
      BY DEF PortInv
    <3>5. upset = {} /\ \A q \in Runs : run[q].pc # "count"
      BY <2>2
    <3>6. r \in dirs'
      BY <2>2
    <3>. QED BY <1>c, <1>p, <3>1, <3>2, <3>3, <3>4, <3>5, <3>6 DEF PortInv, Early
  <2>. QED BY <1>4, <2>1, <2>2 DEF AddWorktree
<1>5. ASSUME NEW r \in Runs, CountWorlds(r) PROVE PortInv'
  <2>1. /\ run[r].pc = "count" /\ UNCHANGED <<dirs, port, upset>>
        /\ run'[r].pc = "files" /\ run'[r].port = Cardinality(dirs)
        /\ \A q \in Runs \ {r} : run'[q] = run[q]
    BY <1>5, <1>t, <1>r DEF CountWorlds, TypeOK, RunType
  <2>. QED BY <1>c, <1>p, <2>1 DEF PortInv, Early
<1>6. ASSUME NEW w \in Runs, NEW d \in Deleters, GitRemove(w, d) \/ RemoveDir(w, d)
      PROVE  PortInv'
  <2>1. run' = run
    BY <1>6 DEF GitRemove, RemoveDir
  <2>2. CASE UNCHANGED <<dirs, port, upset>>
    BY <2>1, <2>2, PortsAlone DEF Early
  <2>3. CASE DirRemoved(w)
    <3>1. CASE dirs' = dirs
      <4>1. upset' = upset
        BY <2>3, <3>1 DEF DirRemoved
      <4>2. \A q \in Runs : port'[q] \in {0, run[q].port} \/ port'[q] = port[q]
        BY <1>t, <2>3 DEF DirRemoved, TypeOK
      <4>. QED BY <2>1, <3>1, <4>1, <4>2, PortsAlone DEF Early
    <3>2. CASE dirs' # dirs
      BY <2>3, <3>2 DEF DirRemoved, PortInv
    <3>. QED BY <3>1, <3>2
  <2>. QED BY <1>6, <2>2, <2>3 DEF GitRemove, RemoveDir
<1>8. ASSUME NEW w \in Runs, MakeHooksDir(w) \/ Refill(w) PROVE PortInv'
  <2>1. CASE w \in dirs
    <3>1. UNCHANGED <<dirs, port, upset>>
      BY <1>8, <2>1 DEF MakeHooksDir, Refill, MakeDir
    <3>2. MakeHooksDir(w)
      BY <1>8, <2>1 DEF Refill
    <3>3. \A q \in Runs : /\ run'[q].port = run[q].port
                          /\ Early(q)' => Early(q)
                          /\ run'[q].pc = "count" => run[q].pc = "count"
      BY <1>t, <1>r, <3>2 DEF MakeHooksDir, TypeOK, RunType, Early
    <3>. QED BY <3>1, <3>3, PortsAlone
  <2>2. CASE w \notin dirs
    <3>1. upset # {}
      BY <1>8, <2>2 DEF MakeHooksDir, Refill, RemovalNoted, Alive
    <3>. QED BY <1>8, <3>1 DEF MakeHooksDir, Refill, PortInv
  <2>. QED BY <2>1, <2>2
<1>7. CASE UNCHANGED <<dirs, port, upset, run>>
  BY <1>7, PortsAlone DEF Early
<1>. QED
  BY <1>1, <1>2, <1>3, <1>4, <1>5, <1>6, <1>7, <1>8
  DEF Next, RunStep, DeleteStep, vars, RequestDelete, DeleteBranch

\* For any number of runs: until a world is removed or two runs choose their ports at the
\* same time, no two worlds have one port (trunk.rs:40-49).
THEOREM PortsStayDistinct == Spec => []PortsGrow
<1>1. Init => PortInv /\ RemovalNoted
  <2> SUFFICES ASSUME Init PROVE PortInv /\ RemovalNoted
    OBVIOUS
  <2>1. Cardinality(dirs) = 0
    BY FS_EmptySet DEF Init
  <2>2. RemovalNoted
    BY DEF Init, RemovalNoted, Alive
  <2>. QED BY <2>1, <2>2 DEF Init, PortInv
<1>2. PortInv => PortsGrow
  BY DEF PortInv, PortsGrow, PortsDistinct
<1>. QED
  BY <1>1, <1>2, NotedStep, PortStep, TrunkInductive, PTL DEF Spec
=============================================================================
