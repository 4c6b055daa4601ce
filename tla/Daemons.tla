------------------------------ MODULE Daemons ------------------------------
(***************************************************************************)
(* `ygg daemon start`, `ygg daemon stop` and the daemons they start and end *)
(* (src/cli/daemon_cmd.rs, src/daemon/mod.rs and src/ipc/server.rs).        *)
(*                                                                         *)
(* The commands share daemon.pid without a lock, the daemons daemon.sock.   *)
(* Each start command starts at most one daemon and names it. What a daemon *)
(* does for its clients is in Resonance, Channel and Trunk, how it looks    *)
(* for agents in Scan.                                                      *)
(***************************************************************************)
EXTENDS Integers

CONSTANTS
  Daemons,     \* ygg daemon start commands, once each, and their daemons
  NoDaemon,    \* stands for none
  Stops        \* ygg daemon stop commands, once each

NoPidFile == "no file"

ASSUME DaemonsAssumption ==
  NoDaemon \notin Daemons /\ NoPidFile \notin Daemons /\ NoPidFile # NoDaemon

VARIABLES
  file,      \* daemon.pid: NoPidFile, NoDaemon (truncated), or the pid in it
  sock,      \* daemon.sock: NoDaemon, or the daemon that bound it, alive or not
  start,     \* of each start command: "idle", "spawn", "write", "fill", "done"
  stop,      \* of each stop command: [pc, pid]
  daemon,    \* of each daemon: "none", "start", "bind", "listen", "term" (has
             \* SIGTERM pending), "dead"
  trouble    \* what went wrong so far: see OneDaemon

lifeVars == <<file, sock, start, stop, daemon, trouble>>

LifeInit ==
  /\ file = NoPidFile
  /\ sock = NoDaemon
  /\ start = [d \in Daemons |-> "idle"]
  /\ stop = [c \in Stops |-> [pc |-> "idle", pid |-> NoDaemon]]
  /\ daemon = [d \in Daemons |-> "none"]
  /\ trouble = {}

Live(d) == daemon[d] \in {"start", "bind", "listen"}

CommandAtWork ==
  \/ \E d \in Daemons : start[d] \notin {"idle", "done"}
  \/ \E c \in Stops : stop[c].pc \notin {"idle", "done"}

NoteOverlap == trouble' = trouble \union (IF CommandAtWork THEN {"overlap"} ELSE {})

-----------------------------------------------------------------------------
(* ygg daemon start *)

\* Any pid file, the one of a daemon that crashed too, is taken for a running daemon.
CheckStart(d) ==
  /\ start[d] = "idle"
  /\ start' = [start EXCEPT ![d] = IF file = NoPidFile THEN "spawn" ELSE "done"]
  /\ NoteOverlap
  /\ UNCHANGED <<file, sock, stop, daemon>>

Spawn(d) ==
  /\ start[d] = "spawn"
  /\ daemon' = [daemon EXCEPT ![d] = "start"]
  /\ start' = [start EXCEPT ![d] = "write"]
  /\ UNCHANGED <<file, sock, stop, trouble>>

\* fs::write truncates the file and then fills it, or fails, which leaves the daemon.
TruncatePid(d) ==
  /\ start[d] = "write"
  /\ \/ /\ file' = NoDaemon
        /\ start' = [start EXCEPT ![d] = "fill"]
        /\ UNCHANGED trouble
     \/ /\ start' = [start EXCEPT ![d] = "done"]
        /\ trouble' = trouble \union {"write"}
        /\ UNCHANGED file
  /\ UNCHANGED <<sock, stop, daemon>>

FillPid(d) ==
  /\ start[d] = "fill"
  /\ file' = d
  /\ start' = [start EXCEPT ![d] = "done"]
  /\ UNCHANGED <<sock, stop, daemon, trouble>>

-----------------------------------------------------------------------------
(* ygg daemon stop *)

\* Mutant: whatever the file holds is signalled.
ReadAny(c) ==
  /\ stop[c].pc = "idle"
  /\ stop' = [stop EXCEPT ![c] =
       IF file # NoPidFile THEN [pc |-> "kill", pid |-> file] ELSE [@ EXCEPT !.pc = "done"]]
  /\ NoteOverlap
  /\ UNCHANGED <<file, sock, start, daemon>>

\* An empty file is an invalid pid, and stop fails.
ReadPid(c) ==
  /\ stop[c].pc = "idle"
  /\ stop' = [stop EXCEPT ![c] =
       IF file \in Daemons THEN [pc |-> "kill", pid |-> file] ELSE [@ EXCEPT !.pc = "done"]]
  /\ NoteOverlap
  /\ UNCHANGED <<file, sock, start, daemon>>

\* Mutant: only a daemon that listens is told to end.
KillListening(c) ==
  /\ stop[c].pc = "kill"
  /\ daemon' = [daemon EXCEPT ![stop[c].pid] = IF @ = "listen" THEN "term" ELSE @]
  /\ stop' = [stop EXCEPT ![c].pc = "remove"]
  /\ UNCHANGED <<file, sock, start, trouble>>

KillProcess(c) ==
  /\ stop[c].pc = "kill"
  /\ daemon' = [daemon EXCEPT ![stop[c].pid] = IF Live(stop[c].pid) THEN "term" ELSE @]
  /\ stop' = [stop EXCEPT ![c].pc = "remove"]
  /\ UNCHANGED <<file, sock, start, trouble>>

\* Whatever the file names by now. (When it is gone already, stop fails.)
RemovePid(c) ==
  /\ stop[c].pc = "remove"
  /\ file' = NoPidFile
  /\ stop' = [stop EXCEPT ![c].pc = "done"]
  /\ UNCHANGED <<sock, start, daemon, trouble>>

-----------------------------------------------------------------------------
(* A daemon's life. *)

\* IpcServer::new removes what is at the socket's path, then binds it.
RemoveSocket(d) ==
  /\ daemon[d] = "start"
  /\ sock' = NoDaemon
  /\ daemon' = [daemon EXCEPT ![d] = "bind"]
  /\ UNCHANGED <<file, start, stop, trouble>>

\* Binding a path that exists fails, and the daemon exits.
BindSocket(d) ==
  /\ daemon[d] = "bind"
  /\ IF sock = NoDaemon
     THEN sock' = d /\ daemon' = [daemon EXCEPT ![d] = "listen"]
     ELSE daemon' = [daemon EXCEPT ![d] = "dead"] /\ UNCHANGED sock
  /\ UNCHANGED <<file, start, stop, trouble>>

\* A crash leaves the socket and the pid file behind. When accept fails the listener
\* is dropped, and unlinks the path whoever has bound it since.
Crash(d) ==
  /\ Live(d)
  /\ daemon' = [daemon EXCEPT ![d] = "dead"]
  /\ sock' \in {sock} \union (IF daemon[d] = "listen" THEN {NoDaemon} ELSE {})
  /\ UNCHANGED <<file, start, stop, trouble>>

Terminated(d) ==
  /\ daemon[d] = "term"
  /\ daemon' = [daemon EXCEPT ![d] = "dead"]
  /\ UNCHANGED <<file, sock, start, stop, trouble>>

-----------------------------------------------------------------------------
StartStep(d) == CheckStart(d) \/ Spawn(d) \/ TruncatePid(d) \/ FillPid(d)
StopStep(c) == ReadPid(c) \/ KillProcess(c) \/ RemovePid(c)
LifeStep(d) == RemoveSocket(d) \/ BindSocket(d) \/ Crash(d) \/ Terminated(d)

LifeNext ==
  \/ \E d \in Daemons : StartStep(d) \/ LifeStep(d)
  \/ \E c \in Stops : StopStep(c)

LifeSpec == LifeInit /\ [][LifeNext]_lifeVars

-----------------------------------------------------------------------------
\* The type of the files, the commands and the daemons: what stop signals is a pid it read.
LifeTypeOK ==
  /\ file \in Daemons \union {NoPidFile, NoDaemon}
  /\ sock \in Daemons \union {NoDaemon}
  /\ start \in [Daemons -> {"idle", "spawn", "write", "fill", "done"}]
  /\ stop \in [Stops -> [pc : {"idle", "kill", "remove", "done"},
                     pid : Daemons \union {NoDaemon}]]
  /\ \A c \in Stops : stop[c].pc \in {"kill", "remove"} => stop[c].pid \in Daemons
  /\ daemon \in [Daemons -> {"none", "start", "bind", "listen", "term", "dead"}]
  /\ trouble \subseteq {"overlap", "write"}

\* As long as no two commands overlap and no pid file could not be written, the daemon
\* that runs is the one daemon.pid names, there is no other, and once it listens the
\* clients reach it: after any crash, stop and start, however late the old one dies.
OneDaemon ==
  trouble = {} /\ ~CommandAtWork =>
    \A d \in Daemons : Live(d) => file = d /\ (daemon[d] = "listen" => sock = d)

=============================================================================
