----------------------------- MODULE ScanProofs -----------------------------
(* What Scan guarantees for any daemons, pids and directories.              *)
EXTENDS Scan, TLAPS

\* A process table without processes.
LEMMA NobodyType == Nobody \in [Pids -> Entries] /\ \A p \in Pids : Nobody[p] = None
BY DEF Nobody, Entries

\* The variables of a scan loop, without the processes of the last scan between two scans.
Loop == [pc : {"dead", "look", "find", "handle"}, known : SUBSET Pids,
         looked : [Pids -> Entries], found : [Pids -> Entries]]

\* A scan loop between two scans holds no snapshot (roots.rs:70-74).
LEMMA RestType ==
  ASSUME NEW known \in SUBSET Pids
  PROVE  /\ Rest(known) \in Loop
         /\ Rest(known) = [pc |-> "look", known |-> known, looked |-> Nobody, found |-> Nobody]
BY NobodyType DEF Rest, Loop

\* A daemon that is not there has no scan loop, and so knows nothing (roots.rs:59).
LEMMA DeadType ==
  Dead \in Loop /\ Dead = [pc |-> "dead", known |-> {}, looked |-> Nobody, found |-> Nobody]
BY NobodyType DEF Rest, Dead, Loop

\* What a step of the loop makes of it is of the type, if what it sets is.
LEMMA LoopStep ==
  ASSUME TypeOK, NEW d \in Daemons, NEW l \in Loop, l.pc # "dead",
         scan' = [scan EXCEPT ![d] = l]
  PROVE  /\ scan' \in [Daemons -> Loop]
         /\ \A e \in Daemons : scan'[e].pc = "dead" => scan'[e] = Dead
BY DEF TypeOK, Loop, Entries

\* A directory a world can be for, which is none for an agent in a world or elsewhere.
LEMMA DirsApart ==
  /\ Managed \notin Dirs /\ Elsewhere \notin Dirs /\ None \notin Dirs
  /\ None \notin {Managed, Elsewhere}
BY ScanAssumption DEF Dirs, Managed, Elsewhere, None, Root

\* Every state of the process table and of the scan loops is of its type: an agent that
\* the first snapshot lacks is given the root (roots.rs:84-90).
LEMMA TypeStep == ASSUME TypeOK, [Next]_vars PROVE TypeOK'
<1>0. /\ scan \in [Daemons -> Loop] /\ dir \in [Pids -> Entries]
      /\ Found \in [Pids -> Entries] /\ agents \subseteq {p \in Pids : dir[p] # None}
      /\ \A e \in Daemons : scan[e].pc = "dead" => scan[e] = Dead
  BY DEF TypeOK, Loop, Entries, Found
<1>a. ASSUME /\ scan' \in [Daemons -> Loop]
             /\ \A e \in Daemons : scan'[e].pc = "dead" => scan'[e] = Dead
             /\ dir' \in [Pids -> Entries] /\ agents' \subseteq {p \in Pids : dir'[p] # None}
             /\ worlds' \subseteq Entries \ {None} /\ changes' \in 0..MaxChanges
             /\ trouble' \subseteq {"reuse", "moved", "failed", "deleted"}
      PROVE  TypeOK'
  BY <1>a DEF TypeOK, Loop, Entries
<1>1. ASSUME NEW d \in Daemons, StartDaemon(d) PROVE TypeOK'
  <2>1. Rest({}) \in Loop /\ Rest({}).pc = "look"
    BY RestType
  <2>2. scan' = [scan EXCEPT ![d] = Rest({})]
    BY <1>1 DEF StartDaemon
  <2> QED BY <1>0, <1>a, <1>1, <2>1, <2>2, LoopStep, ScanAssumption DEF StartDaemon, Change, TypeOK
<1>2. ASSUME NEW d \in Daemons, EndDaemon(d) PROVE TypeOK'
  BY <1>0, <1>a, <1>2, DeadType DEF EndDaemon, TypeOK
<1>3. ASSUME NEW d \in Daemons, Look(d) PROVE TypeOK'
  <2> DEFINE l == [scan[d] EXCEPT !.looked = dir, !.pc = "find"]
  <2>1. l \in Loop /\ l.pc # "dead"
    BY <1>0 DEF Loop
  <2>2. scan' = [scan EXCEPT ![d] = l]
    BY <1>3 DEF Look
  <2> HIDE DEF l
  <2> QED BY <1>0, <1>a, <1>3, <2>1, <2>2, LoopStep DEF Look, TypeOK
<1>4. ASSUME NEW d \in Daemons, Find(d) PROVE TypeOK'
  <2> DEFINE l == [scan[d] EXCEPT !.found = Found, !.pc = "handle"]
  <2>1. l \in Loop /\ l.pc # "dead"
    BY <1>0 DEF Loop
  <2>2. scan' = [scan EXCEPT ![d] = l]
    BY <1>4 DEF Find
  <2> HIDE DEF l
  <2> QED BY <1>0, <1>a, <1>4, <2>1, <2>2, LoopStep DEF Find, TypeOK
<1>5. ASSUME NEW d \in Daemons, Retain(d) PROVE TypeOK'
  <2> DEFINE l == Rest({p \in scan[d].known : scan[d].looked[p] # None})
  <2>1. l \in Loop /\ l.pc # "dead"
    <3>1. {p \in scan[d].known : scan[d].looked[p] # None} \in SUBSET Pids
      BY <1>0 DEF Loop
    <3> QED BY <3>1, RestType
  <2>2. scan' = [scan EXCEPT ![d] = l]
    BY <1>5 DEF Retain
  <2> HIDE DEF l
  <2> QED BY <1>0, <1>a, <1>5, <2>1, <2>2, LoopStep DEF Retain, TypeOK
<1>6. ASSUME NEW d \in Daemons, NEW p \in Pids, Handle(d, p) PROVE TypeOK'
  <2> DEFINE l == [scan[d] EXCEPT !.known = @ \union {p}]
  <2>1. l \in Loop /\ l.pc # "dead"
    BY <1>0, <1>6 DEF Loop, Handle, At
  <2>2. scan' = [scan EXCEPT ![d] = l]
    BY <1>6 DEF Handle
  <2>3. DirOf(d, p) \in Entries \ {None}
    BY <1>0, DirsApart DEF DirOf, Dirs, Loop, Entries
  <2> HIDE DEF l
  <2>4. /\ scan' \in [Daemons -> Loop]
        /\ \A e \in Daemons : scan'[e].pc = "dead" => scan'[e] = Dead
    BY <2>1, <2>2, LoopStep
  <2>5. /\ UNCHANGED <<dir, agents, changes>> /\ worlds' \subseteq Entries \ {None}
        /\ trouble' \subseteq {"reuse", "moved", "failed", "deleted"}
    BY <1>6, <2>3 DEF Handle, TypeOK
  <2> QED BY <1>0, <1>a, <2>4, <2>5 DEF TypeOK
<1>7. ASSUME NEW p \in Pids, NEW at \in Dirs \union {Managed, Elsewhere}, StartProcess(p, at)
      PROVE  TypeOK'
  <2>1. at # None
    BY DirsApart
  <2>2. dir' \in [Pids -> Entries] /\ agents' \subseteq {q \in Pids : dir'[q] # None}
    BY <1>0, <1>7, <2>1 DEF StartProcess, Entries
  <2> QED BY <1>0, <1>a, <1>7, <2>2, ScanAssumption DEF StartProcess, Change, TypeOK
<1>8. ASSUME NEW p \in Pids, NEW at \in Dirs \union {Managed, Elsewhere}, RunAgent(p, at)
      PROVE  TypeOK'
  <2>1. at # None
    BY DirsApart
  <2>2. dir' \in [Pids -> Entries] /\ agents' \subseteq {q \in Pids : dir'[q] # None}
    BY <1>0, <1>8, <2>1 DEF RunAgent, Entries
  <2> QED BY <1>0, <1>a, <1>8, <2>2 DEF RunAgent, TypeOK
<1>9. ASSUME NEW p \in Pids, ExitProcess(p) PROVE TypeOK'
  <2>1. dir' \in [Pids -> Entries] /\ agents' \subseteq {q \in Pids : dir'[q] # None}
    BY <1>0, <1>9 DEF ExitProcess, Entries
  <2> QED BY <1>0, <1>a, <1>9, <2>1 DEF ExitProcess, TypeOK
<1>11. ASSUME NEW at \in Dirs, DeleteWorld(at) PROVE TypeOK'
  BY <1>0, <1>a, <1>11, ScanAssumption DEF DeleteWorld, Change, TypeOK
<1>10. CASE UNCHANGED vars
  BY <1>10 DEF vars, TypeOK
<1> QED
  BY <1>1, <1>2, <1>3, <1>4, <1>5, <1>6, <1>7, <1>8, <1>9, <1>10, <1>11 DEF Next, ScanStep

\* Every state of the processes, the worlds and the scan loops is of its type (roots.rs).
THEOREM ScanTypeCorrect == Spec => []TypeOK
<1>1. Init => TypeOK
  BY NobodyType, DeadType, ScanAssumption DEF Init, TypeOK, Loop
<1> QED BY <1>1, TypeStep, PTL DEF Spec

\* What a scan loop may rely on between two of its steps while nothing went wrong: a
\* process of its snapshots is still what it was there or has exited, and so has one that
\* it knows as an agent; and a pid that it knows and does not forget at the end of this
\* scan has a world. That an agent is still in the first snapshot's directory is where
\* it matters that no process moved.
Remembered ==
  trouble = {} => \A d \in Daemons, p \in Pids :
    /\ scan[d].looked[p] # None => dir[p] \in {scan[d].looked[p], None}
    /\ scan[d].found[p] # None => dir[p] \in {scan[d].found[p], None}
    /\ p \in scan[d].known \/ scan[d].found[p] # None => p \in agents \/ dir[p] = None
    /\ /\ p \in scan[d].known
       /\ scan[d].pc \in {"find", "handle"} => scan[d].looked[p] # None
       /\ Unmanaged(p)
       => dir[p] \in worlds

\* No step of the processes, the daemons or their scans makes a snapshot untrue other than
\* by an exit, or lets a scan keep a pid without a world (roots.rs:61-123).
LEMMA RememberedStep == ASSUME TypeOK, Remembered, [Next]_vars PROVE Remembered'
<1> USE NobodyType, RestType, DeadType, DirsApart DEF Remembered, Unmanaged
<1>1. ASSUME NEW d \in Daemons, StartDaemon(d) PROVE Remembered'
  <2>1. /\ scan'[d] = Rest({}) /\ \A e \in Daemons : e # d => scan'[e] = scan[e]
        /\ UNCHANGED <<dir, agents, worlds, trouble>>
    BY <1>1 DEF TypeOK, StartDaemon
  <2>2. Rest({}).known = {} /\ Rest({}).looked = Nobody /\ Rest({}).found = Nobody
    OBVIOUS
  <2> QED BY <2>1, <2>2
<1>2. ASSUME NEW d \in Daemons, EndDaemon(d) PROVE Remembered'
  BY <1>2 DEF TypeOK, EndDaemon
<1>3. ASSUME NEW d \in Daemons, Look(d) PROVE Remembered'
  BY <1>3 DEF TypeOK, Look, At
<1>4. ASSUME NEW d \in Daemons, Find(d) PROVE Remembered'
  BY <1>4 DEF TypeOK, Find, Found, At
<1>5. ASSUME NEW d \in Daemons, Retain(d) PROVE Remembered'
  <2> DEFINE kept == {p \in scan[d].known : scan[d].looked[p] # None}
  <2>1. kept \in SUBSET Pids
    BY DEF TypeOK
  <2>2. scan' = [scan EXCEPT ![d] = Rest(kept)] /\ At(d, "handle")
        /\ UNCHANGED <<dir, agents, worlds, trouble>>
    BY <1>5 DEF Retain, TypeOK
  <2>3. Rest(kept).known = kept /\ Rest(kept).looked = Nobody /\ Rest(kept).found = Nobody
    BY <2>1
  <2> QED BY <2>2, <2>3 DEF TypeOK, At
<1>6. ASSUME NEW d \in Daemons, NEW p \in Pids, Handle(d, p) PROVE Remembered'
  <2> SUFFICES ASSUME trouble' = {} PROVE Remembered'
    OBVIOUS
  <2>1. /\ scan' = [scan EXCEPT ![d].known = @ \union {p}]
        /\ UNCHANGED <<dir, agents>> /\ trouble = {}
        /\ scan[d].found[p] # None /\ scan[d].pc = "handle"
        /\ worlds \subseteq worlds'
        /\ scan[d].found[p] = Managed \/ DirOf(d, p) \in worlds'
    BY <1>6 DEF Handle, New, At
  <2>2. Unmanaged(p) /\ scan[d].looked[p] # None => dir[p] \in worlds'
    BY <2>1 DEF DirOf
  <2>3. \A e \in Daemons :
          /\ scan'[e].looked = scan[e].looked /\ scan'[e].found = scan[e].found
          /\ scan'[e].pc = scan[e].pc
          /\ scan'[e].known = scan[e].known \union (IF e = d THEN {p} ELSE {})
    BY <2>1 DEF TypeOK
  <2> QED BY <2>1, <2>2, <2>3
<1>7. ASSUME NEW p \in Pids, NEW at \in Dirs \union {Managed, Elsewhere}, StartProcess(p, at)
      PROVE  Remembered'
  BY <1>7 DEF TypeOK, StartProcess, Seen
<1>8. ASSUME NEW p \in Pids, NEW at \in Dirs \union {Managed, Elsewhere}, RunAgent(p, at)
      PROVE  Remembered'
  <2> SUFFICES ASSUME trouble' = {}, NEW d \in Daemons, NEW q \in Pids
               PROVE  /\ scan[d].looked[q] # None => dir'[q] \in {scan[d].looked[q], None}
                      /\ scan[d].found[q] # None => dir'[q] \in {scan[d].found[q], None}
                      /\ p \notin scan[d].known /\ scan[d].found[p] = None
                      /\ q # p => dir'[q] = dir[q] /\ (q \in agents' <=> q \in agents)
    BY <1>8 DEF RunAgent
  <2>1. /\ trouble = {} /\ dir[p] # None /\ p \notin agents
        /\ scan[d].looked[p] \in {None, at}
        /\ dir'[p] = at /\ \A r \in Pids : r # p => dir'[r] = dir[r]
        /\ agents' = agents \union {p}
    BY <1>8 DEF TypeOK, RunAgent
  <2>2. p \notin scan[d].known /\ scan[d].found[p] = None
    BY <2>1
  <2> QED BY <2>1, <2>2
<1>9. ASSUME NEW p \in Pids, ExitProcess(p) PROVE Remembered'
  BY <1>9 DEF TypeOK, ExitProcess
<1>11. ASSUME NEW at \in Dirs, DeleteWorld(at) PROVE Remembered'
  BY <1>11 DEF DeleteWorld
<1>10. CASE UNCHANGED vars
  BY <1>10 DEF vars
<1> QED
  BY <1>1, <1>2, <1>3, <1>4, <1>5, <1>6, <1>7, <1>8, <1>9, <1>10, <1>11 DEF Next, ScanStep

\* For any number of daemons and processes: between two scans an agent that a daemon knows
\* has a world for its directory, unless a pid was used again, its process moved between
\* the two snapshots, or its world failed or was deleted (roots.rs:61-123).
THEOREM KnownAgentsHaveWorlds == Spec => []KnownHasWorld
<1>1. Init => Remembered
  BY NobodyType, DeadType DEF Init, Remembered
<1>2. TypeOK /\ Remembered => KnownHasWorld
  BY DEF Remembered, KnownHasWorld, Unmanaged, At
<1>3. TypeOK /\ Remembered /\ [Next]_vars => Remembered'
  BY RememberedStep
<1> QED BY <1>1, <1>2, <1>3, ScanTypeCorrect, PTL DEF Spec

-----------------------------------------------------------------------------
(* The commands that start and stop the daemons, see Daemons: what OneDaemon says, *)
(* for any number of commands and daemons.                                         *)
=============================================================================
