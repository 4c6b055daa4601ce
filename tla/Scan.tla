-------------------------------- MODULE Scan --------------------------------
(***************************************************************************)
(* The scan of the daemons for agents that were started without ygg         *)
(* (src/daemon/roots.rs). Such an agent gets an "unmanaged" world, named by *)
(* the hash of its working directory.                                       *)
(*                                                                         *)
(* Every daemon scans the processes every 30 s. The processes come and go   *)
(* between any two of its steps, and so do the daemons (see Daemons), which *)
(* remember nothing. Of a world only its directory matters here: how it is  *)
(* made is in Trunk, and the snapshot that ends the scan in Monitor.        *)
(***************************************************************************)
EXTENDS Integers, FiniteSets

CONSTANTS
  Daemons,     \* daemons, any number of which may scan at a time
  Pids,        \* pids
  Subdirs,     \* directories of the repository below its root
  MaxChanges   \* bound: processes and daemons started, worlds deleted

Root == "root"            \* the repository's root as a working directory
Managed == "managed"      \* a working directory under .ygg/worlds
Elsewhere == "elsewhere"  \* one outside the repository
None == "none"            \* no process, or none that a snapshot has
Dirs == Subdirs \union {Root}

ASSUME ScanAssumption ==
  Subdirs \intersect {Root, Managed, Elsewhere, None} = {} /\ MaxChanges \in Nat

VARIABLES
  dir,       \* of each pid: the working directory of the process that has it, or None
  agents,    \* the pids whose process runs an agent
  worlds,    \* the directories whose unmanaged world exists
  scan,      \* of each daemon: [pc, known, looked, found], its scan loop
  changes,   \* processes and daemons started and worlds deleted so far
  trouble    \* what went wrong so far: see KnownHasWorld

vars == <<dir, agents, worlds, scan, changes, trouble>>

Nobody == [p \in Pids |-> None]

\* A scan loop between two scans, and no scan loop.
Rest(known) == [pc |-> "look", known |-> known, looked |-> Nobody, found |-> Nobody]
Dead == [Rest({}) EXCEPT !.pc = "dead"]

Init ==
  /\ dir = Nobody
  /\ agents = {}
  /\ worlds = {}
  /\ scan = [d \in Daemons |-> Dead]
  /\ changes = 0
  /\ trouble = {}

At(d, pc) == scan[d].pc = pc
Change == changes < MaxChanges /\ changes' = changes + 1

-----------------------------------------------------------------------------
(* Daemons, processes, and what others do to the worlds of these. *)

StartDaemon(d) ==
  /\ Change
  /\ At(d, "dead")
  /\ scan' = [scan EXCEPT ![d] = Rest({})]
  /\ UNCHANGED <<dir, agents, worlds, trouble>>

EndDaemon(d) ==
  /\ ~At(d, "dead")
  /\ scan' = [scan EXCEPT ![d] = Dead]
  /\ UNCHANGED <<dir, agents, worlds, changes, trouble>>

\* A daemon that has seen a process with this pid did not see that one exit.
Seen(p) == \E d \in Daemons :
  p \in scan[d].known \/ scan[d].looked[p] # None \/ scan[d].found[p] # None

\* A process begins as a copy of a shell, a script or an editor.
StartProcess(p, at) ==
  /\ Change
  /\ dir[p] = None
  /\ dir' = [dir EXCEPT ![p] = at]
  /\ trouble' = trouble \union (IF Seen(p) THEN {"reuse"} ELSE {})
  /\ UNCHANGED <<agents, worlds, scan>>

\* It may go to another directory, and then runs the agent under the pid that it has.
\* A daemon's first snapshot may hold the directory it had.
RunAgent(p, at) ==
  /\ dir[p] # None /\ p \notin agents
  /\ dir' = [dir EXCEPT ![p] = at]
  /\ agents' = agents \union {p}
  /\ trouble' = trouble \union
       (IF \E d \in Daemons : scan[d].looked[p] \notin {None, at} THEN {"moved"} ELSE {})
  /\ UNCHANGED <<worlds, scan, changes>>

ExitProcess(p) ==
  /\ dir[p] # None
  /\ dir' = [dir EXCEPT ![p] = None]
  /\ agents' = agents \ {p}
  /\ UNCHANGED <<worlds, scan, changes, trouble>>

DeleteWorld(at) ==
  /\ Change
  /\ worlds' = worlds \ {at}
  /\ worlds' # worlds
  /\ trouble' = trouble \union {"deleted"}
  /\ UNCHANGED <<dir, agents, scan>>

-----------------------------------------------------------------------------
(* The scan loop of a daemon. *)

\* The first snapshot is of all processes: current_pids, and each one's directory.
Look(d) ==
  /\ At(d, "look")
  /\ scan' = [scan EXCEPT ![d].looked = dir, ![d].pc = "find"]
  /\ UNCHANGED <<dir, agents, worlds, changes, trouble>>

\* scan_once takes a second one, and keeps the agents of this repository.
Found == [p \in Pids |-> IF p \in agents /\ dir[p] # Elsewhere THEN dir[p] ELSE None]

Find(d) ==
  /\ At(d, "find")
  /\ scan' = [scan EXCEPT ![d].found = Found, ![d].pc = "handle"]
  /\ UNCHANGED <<dir, agents, worlds, changes, trouble>>

\* Mutant: the loop ends at an agent that is known.
NewUntilKnown(d) ==
  IF \E p \in scan[d].known : scan[d].found[p] # None
  THEN {} ELSE {p \in Pids : scan[d].found[p] # None}

New(d) == {p \in Pids : scan[d].found[p] # None /\ p \notin scan[d].known}

\* Mutant: nothing stands for an agent that was not in the first snapshot.
LookedDir(d, p) == scan[d].looked[p]

\* The directory is the first snapshot's, whatever the process was then; an agent that was
\* not in it counts as one in the repository's root.
DirOf(d, p) == IF scan[d].looked[p] = None THEN Root ELSE scan[d].looked[p]

\* Each agent is known before its world is made, which may fail: git may, and does when
\* another agent of the directory, or another daemon, has made it.
Handle(d, p) ==
  /\ At(d, "handle")
  /\ p \in New(d)
  /\ scan' = [scan EXCEPT ![d].known = @ \union {p}]
  /\ IF scan[d].found[p] = Managed \/ DirOf(d, p) \in worlds
     THEN UNCHANGED <<worlds, trouble>>
     ELSE \/ worlds' = worlds \union {DirOf(d, p)} /\ UNCHANGED trouble
          \/ trouble' = trouble \union {"failed"} /\ UNCHANGED worlds
  /\ UNCHANGED <<dir, agents, changes>>

\* Mutant: a pid is known for good.
KeepAll(d) ==
  /\ At(d, "handle")
  /\ New(d) = {}
  /\ scan' = [scan EXCEPT ![d] = Rest(@.known)]
  /\ UNCHANGED <<dir, agents, worlds, changes, trouble>>

\* retain drops the pids that the first snapshot did not have, so that such an agent is
\* looked at again: then its directory is in the snapshot. The next scan is 30 s later.
Retain(d) ==
  /\ At(d, "handle")
  /\ New(d) = {}
  /\ scan' = [scan EXCEPT ![d] = Rest({p \in @.known : @.looked[p] # None})]
  /\ UNCHANGED <<dir, agents, worlds, changes, trouble>>

-----------------------------------------------------------------------------
ScanStep(d) == Look(d) \/ Find(d) \/ Retain(d) \/ \E p \in Pids : Handle(d, p)

Next ==
  \/ \E d \in Daemons : StartDaemon(d) \/ EndDaemon(d) \/ ScanStep(d)
  \/ \E p \in Pids :
       \/ ExitProcess(p)
       \/ \E at \in Dirs \union {Managed, Elsewhere} : StartProcess(p, at) \/ RunAgent(p, at)
  \/ \E at \in Dirs : DeleteWorld(at)

\* A daemon that lives goes on scanning; users, processes and daemons come and go freely.
Spec == Init /\ [][Next]_vars /\ \A d \in Daemons : WF_vars(ScanStep(d))

-----------------------------------------------------------------------------
Entries == Dirs \union {Managed, Elsewhere, None}

\* The type of the process table, the worlds and the loops; a dead daemon holds nothing.
TypeOK ==
  /\ dir \in [Pids -> Entries]
  /\ agents \subseteq {p \in Pids : dir[p] # None}
  /\ worlds \subseteq Entries \ {None}
  /\ scan \in [Daemons ->
       [pc : {"dead", "look", "find", "handle"}, known : SUBSET Pids,
        looked : [Pids -> Entries], found : [Pids -> Entries]]]
  /\ \A d \in Daemons : scan[d].pc = "dead" => scan[d] = Dead
  /\ changes \in 0..MaxChanges
  /\ trouble \subseteq {"reuse", "moved", "failed", "deleted"}

\* An agent that is in the repository and in no world of ygg's own.
Unmanaged(p) == p \in agents /\ dir[p] \in Dirs

\* Between two scans an agent the daemon knows has a world for its directory, though
\* processes come and go between the scan's two snapshots, unless its pid was used
\* again, its process changed directory during a scan and became the agent, or its world
\* could not be made or was deleted.
KnownHasWorld ==
  trouble = {} =>
    \A d \in Daemons, p \in Pids :
      At(d, "look") /\ p \in scan[d].known /\ Unmanaged(p) => dir[p] \in worlds

\* An agent that stays gets a world and keeps it when some daemon stays, with the same
\* exceptions. (Who stays in Dirs stays in one directory.)
AgentGetsWorld ==
  \A d \in Daemons, p \in Pids :
    <>[](~At(d, "dead") /\ Unmanaged(p)) => <>[](dir[p] \in worlds \/ trouble # {})

\* Does not hold (README, Observations). README.md:28: the daemon "Detects agents launched
\* outside `ygg run` (IDE-launched, scripts) and auto-creates an `unmanaged-<hash>` world
\* for them": so it does for a script that changes directory and becomes the agent
\* (roots.rs:70-90), whatever the scan has seen of it before.
ScriptedAgentGetsWorld ==
  \A d \in Daemons, p \in Pids :
    <>[](~At(d, "dead") /\ Unmanaged(p)) => <>[](dir[p] \in worlds \/ trouble \ {"moved"} # {})

=============================================================================
