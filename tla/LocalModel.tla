---------------------------- MODULE LocalModel ----------------------------
(***************************************************************************)
(* llama-server under `ygg run --local`, `ygg llama status` and             *)
(* `ygg llama stop` (src/cli/local.rs, src/cli/llama_cmd.rs and the parts   *)
(* 3, 6 and 8 of src/cli/run.rs).                                           *)
(*                                                                         *)
(* A session looks for a running server in .ygg/llama-server.pid, or finds  *)
(* a model, a binary and a port, starts a server, waits until it answers    *)
(* and writes the file. Sessions and commands are processes of their own    *)
(* that share the file, the ports and the models on disk without a lock.    *)
(*                                                                         *)
(* A session starts at most one server, so a session also names its server  *)
(* and that server's pid. Left out: which GPU and context size are used,    *)
(* what is printed, and the agent, of which only its exit matters here.     *)
(***************************************************************************)
EXTENDS Integers, FiniteSets

CONSTANTS
  Sessions,   \* ygg run --local, once each
  NoSession,  \* stands for None
  Models,     \* .gguf files
  NoModel,    \* stands for no model chosen yet
  LastPort,   \* ports 1..LastPort stand for 8080..8179
  MaxTools    \* bound: ygg llama status and ygg llama stop commands

ASSUME LocalModelAssumption ==
  NoSession \notin Sessions /\ NoModel \notin Models /\ LastPort \in Nat \ {0} /\ MaxTools \in Nat

Ports == 1..LastPort
NoPort == 0

VARIABLES
  server,   \* of each session's server: "none", "starting", "loading", "ready",
            \* "hung" (it accepts and never answers), "zombie" (exited, its session
            \* lives), "gone", or "reused": another program has its pid
  port,     \* of each session: the port it found free, or attached to
  file,     \* llama-server.pid: [kind, pid, port], kind "none", "empty" or "state"
  disk,     \* of each model: "absent", "partial" or "whole"
  writer,   \* of each model: the session that created the file last
  session,  \* of each session: [pc, seen, model, attached, child]
  tool,     \* the llama command: [pc, seen]
  tools,    \* commands given so far
  trouble   \* what went wrong so far, see KeptIsKnown

vars == <<server, port, file, disk, writer, session, tool, tools, trouble>>

NoFile == [kind |-> "none", pid |-> NoSession, port |-> NoPort]
EmptyFile == [NoFile EXCEPT !.kind = "empty"]

Init ==
  /\ server = [s \in Sessions |-> "none"]
  /\ port = [s \in Sessions |-> NoPort]
  /\ file = NoFile
  /\ disk \in [Models -> {"absent", "whole"}]
  /\ writer = [m \in Models |-> NoSession]
  /\ session = [s \in Sessions |->
       [pc |-> "idle", seen |-> NoFile, model |-> NoModel, attached |-> FALSE, child |-> FALSE]]
  /\ tool = [pc |-> "idle", seen |-> NoFile]
  /\ tools = 0
  /\ trouble = {}

At(s, pc) == session[s].pc = pc
Goto(s, pc) == session' = [session EXCEPT ![s].pc = pc]

\* At work on the file or towards a server. Others should not be.
Working(s) == session[s].pc \notin {"idle", "agent", "ended"}
SomeoneWorks == tool.pc # "idle" \/ \E s \in Sessions : Working(s)
NoteOverlap == trouble' = trouble \union (IF SomeoneWorks THEN {"overlap"} ELSE {})

Listening(p) == \E s \in Sessions : port[s] = p /\ server[s] \in {"loading", "ready", "hung"}
Healthy(p) == \E s \in Sessions : port[s] = p /\ server[s] = "ready"
Hung(p) == \E s \in Sessions : port[s] = p /\ server[s] = "hung"

\* is_pid_alive. A process that exited keeps its pid until its parent has ended.
Alive(s) == server[s] \notin {"none", "gone"}

Running(s) == server[s] \in {"starting", "loading", "ready", "hung"}

\* The server of session s exits: its pid stays until the session has ended.
Exit(s) ==
  /\ server' = [server EXCEPT ![s] = IF At(s, "ended") THEN "gone" ELSE "zombie"]
  /\ trouble' = IF At(s, "ended") THEN trouble ELSE trouble \union {"outlived"}

-----------------------------------------------------------------------------
(* llama-server and the operating system. *)

\* The server takes its port, or exits when another has it.
Bind(s) ==
  /\ server[s] = "starting"
  /\ IF Listening(port[s])
     THEN Exit(s)
     ELSE server' = [server EXCEPT ![s] = "loading"] /\ UNCHANGED trouble
  /\ UNCHANGED <<port, file, disk, writer, session, tool, tools>>

\* It answers /health once its model is loaded, which a model in parts never is.
Load(s) ==
  /\ server[s] = "loading"
  /\ IF disk[session[s].model] = "whole"
     THEN server' = [server EXCEPT ![s] = "ready"] /\ UNCHANGED trouble
     ELSE Exit(s)
  /\ UNCHANGED <<port, file, disk, writer, session, tool, tools>>

Hang(s) ==
  /\ server[s] \in {"loading", "ready"}
  /\ server' = [server EXCEPT ![s] = "hung"]
  /\ UNCHANGED <<port, file, disk, writer, session, tool, tools, trouble>>

Crash(s) ==
  /\ server[s] \in {"loading", "ready", "hung"}
  /\ Exit(s)
  /\ UNCHANGED <<port, file, disk, writer, session, tool, tools>>

ReusePid(s) ==
  /\ server[s] = "gone"
  /\ server' = [server EXCEPT ![s] = "reused"]
  /\ UNCHANGED <<port, file, disk, writer, session, tool, tools, trouble>>

-----------------------------------------------------------------------------
(* setup: before the world is made. *)

\* The state the file holds; a file that was just truncated holds none.
ReadState == IF file.kind = "state" THEN file ELSE NoFile

StartSession(s) ==
  /\ At(s, "idle")
  /\ session' = [session EXCEPT ![s].pc = "probe", ![s].seen = ReadState]
  /\ NoteOverlap
  /\ UNCHANGED <<server, port, file, disk, writer, tool, tools>>

\* find_running_llama, after the file was read: is the server still there? A busy
\* server may not accept within 500 ms. A state that is not confirmed is removed,
\* whatever the file holds by now.
Confirmed(seen) == seen.kind = "state" /\ Alive(seen.pid) /\ Listening(seen.port)

RemoveUnconfirmed(seen) ==
  /\ file' = IF seen.kind = "state" THEN NoFile ELSE file
  /\ trouble' = trouble \union (IF Confirmed(seen) THEN {"slow"} ELSE {})

\* Mutant: the session goes on with the port it would have had for a server of its own.
AttachWithoutPort(s) ==
  /\ At(s, "probe")
  /\ Confirmed(session[s].seen)
  /\ session' = [session EXCEPT ![s].pc = "world", ![s].attached = TRUE]
  /\ UNCHANGED <<server, port, file, disk, writer, tool, tools, trouble>>

Attach(s) ==
  /\ At(s, "probe")
  /\ Confirmed(session[s].seen)
  /\ session' = [session EXCEPT ![s].pc = "world", ![s].attached = TRUE]
  /\ port' = [port EXCEPT ![s] = session[s].seen.port]
  /\ UNCHANGED <<server, file, disk, writer, tool, tools, trouble>>

FindNone(s) ==
  /\ At(s, "probe")
  /\ RemoveUnconfirmed(session[s].seen)
  /\ Goto(s, "model")
  /\ UNCHANGED <<server, port, disk, writer, tool, tools>>

\* Mutant: the name is taken for a file that is there.
TakeAnyModel(s, m) ==
  /\ At(s, "model")
  /\ session' = [session EXCEPT ![s].pc = "binary", ![s].model = m]
  /\ UNCHANGED <<server, port, file, disk, writer, tool, tools, trouble>>

\* The model the user named or selects, when a file of that name is on disk.
TakeModel(s, m) ==
  /\ At(s, "model")
  /\ disk[m] # "absent"
  /\ session' = [session EXCEPT ![s].pc = "binary", ![s].model = m]
  /\ UNCHANGED <<server, port, file, disk, writer, tool, tools, trouble>>

\* download_file creates the file under its final name, and fills it.
BeginDownload(s, m) ==
  /\ At(s, "model")
  /\ disk[m] = "absent"
  /\ session' = [session EXCEPT ![s].pc = "download", ![s].model = m]
  /\ UNCHANGED <<server, port, file, disk, writer, tool, tools, trouble>>

CreateModelFile(s) ==
  /\ At(s, "download")
  /\ disk' = [disk EXCEPT ![session[s].model] = "partial"]
  /\ writer' = [writer EXCEPT ![session[s].model] = s]
  /\ Goto(s, "fill")
  /\ UNCHANGED <<server, port, file, tool, tools, trouble>>

\* When another download created the file anew, it has holes until that one is done.
FinishDownload(s) ==
  /\ At(s, "fill")
  /\ disk' = IF writer[session[s].model] = s
             THEN [disk EXCEPT ![session[s].model] = "whole"] ELSE disk
  /\ Goto(s, "binary")
  /\ UNCHANGED <<server, port, file, writer, tool, tools, trouble>>

\* ensure_llama_server finds or installs the binary, or the user declines: then no
\* server is started.
FindBinary(s) ==
  /\ At(s, "binary")
  /\ \E child \in BOOLEAN :
       session' = [session EXCEPT ![s].pc = "port", ![s].child = child]
  /\ UNCHANGED <<server, port, file, disk, writer, tool, tools, trouble>>

\* find_free_port: the first port nobody listens on, or the first when all are taken.
FindPort(s) ==
  /\ At(s, "port")
  /\ port' = [port EXCEPT ![s] =
       LET free == {p \in Ports : ~Listening(p)}
       IN IF free = {} THEN 1 ELSE CHOOSE p \in free : \A q \in free : p <= q]
  /\ Goto(s, "world")
  /\ UNCHANGED <<server, file, disk, writer, tool, tools, trouble>>

\* ensure_model, create_world or inject_rules returns an error, and so does the session.
SetupFails(s) ==
  /\ session[s].pc \in {"model", "download", "fill", "binary", "world"}
  /\ Goto(s, "ended")
  /\ trouble' = trouble \union (IF At(s, "fill") THEN {"cut"} ELSE {})
  /\ UNCHANGED <<server, port, file, disk, writer, tool, tools>>

-----------------------------------------------------------------------------
(* The world is made; start_server. *)

MakeWorld(s) ==
  /\ At(s, "world")
  /\ IF session[s].child
     THEN /\ server' = [server EXCEPT ![s] = "starting"]
          /\ Goto(s, "wait")
     ELSE /\ Goto(s, "agent")
          /\ UNCHANGED server
  /\ UNCHANGED <<port, file, disk, writer, tool, tools, trouble>>

\* wait_for_server calls the port: before each call, and only then, it looks at its
\* deadline.
Ask(s) ==
  /\ At(s, "wait")
  /\ Goto(s, "ask")
  /\ UNCHANGED <<server, port, file, disk, writer, tool, tools, trouble>>

\* Any server may be the one that answers.
ServerReady(s) ==
  /\ At(s, "ask")
  /\ Healthy(port[s])
  /\ Goto(s, "truncate")
  /\ UNCHANGED <<server, port, file, disk, writer, tool, tools, trouble>>

\* Mutant: when the call fails, the next is made without a look at the deadline.
AskAgain(s) ==
  /\ At(s, "ask")
  /\ ~Hung(port[s])
  /\ UNCHANGED vars

\* The call fails, or the server is not ready. It has no timeout for the answer: while
\* what listens is hung, it does not return.
NoAnswer(s) ==
  /\ At(s, "ask")
  /\ ~Hung(port[s])
  /\ Goto(s, "wait")
  /\ UNCHANGED <<server, port, file, disk, writer, tool, tools, trouble>>

\* After 30 s the session goes on without its server, which it does not kill.
ServerTimesOut(s) ==
  /\ At(s, "wait")
  /\ session' = [session EXCEPT ![s].pc = "agent", ![s].child = FALSE]
  /\ trouble' = trouble \union (IF Running(s) THEN {"timeout"} ELSE {})
  /\ UNCHANGED <<server, port, file, disk, writer, tool, tools>>

\* write_llama_state truncates the file and then fills it.
TruncateState(s) ==
  /\ At(s, "truncate")
  /\ file' = EmptyFile
  /\ Goto(s, "fillstate")
  /\ UNCHANGED <<server, port, disk, writer, tool, tools, trouble>>

FillState(s) ==
  /\ At(s, "fillstate")
  /\ file' = [kind |-> "state", pid |-> s, port |-> port[s]]
  /\ Goto(s, "agent")
  /\ UNCHANGED <<server, port, disk, writer, tool, tools, trouble>>

\* Either can fail; the session says nothing and goes on.
WriteFails(s) ==
  /\ session[s].pc \in {"truncate", "fillstate"}
  /\ Goto(s, "agent")
  /\ trouble' = trouble \union {"unwritten"}
  /\ UNCHANGED <<server, port, file, disk, writer, tool, tools>>

-----------------------------------------------------------------------------
(* The agent exits, and with it the session. *)

\* Exiting reaps the server if that is a zombie.
Ended(s) ==
  /\ Goto(s, "ended")
  /\ server' = IF server[s] = "zombie" THEN [server EXCEPT ![s] = "gone"] ELSE server

\* The session attached, or has no server, or its user keeps the server.
AgentExits(s) ==
  /\ At(s, "agent")
  /\ Ended(s)
  /\ UNCHANGED <<port, file, disk, writer, tool, tools, trouble>>

KillServer(s) ==
  /\ At(s, "agent")
  /\ ~session[s].attached /\ session[s].child
  /\ server' = IF Running(s) THEN [server EXCEPT ![s] = "zombie"] ELSE server
  /\ Goto(s, "clear")
  /\ NoteOverlap
  /\ UNCHANGED <<port, file, disk, writer, tool, tools>>

\* clear_llama_state, whichever server the file names by now.
ClearFile(s) ==
  /\ At(s, "clear")
  /\ file' = NoFile
  /\ Ended(s)
  /\ UNCHANGED <<port, disk, writer, tool, tools, trouble>>

\* Ctrl-C or a signal ends ygg at work. Its server may live on. (While the agent
\* runs, that is AgentExits, and Crash if the server ends too.)
KillSession(s) ==
  /\ Working(s)
  /\ Goto(s, "ended")
  /\ server' \in {server, [server EXCEPT ![s] = IF Alive(s) THEN "gone" ELSE @]}
  /\ server'[s] # "zombie"
  /\ trouble' = trouble \union {"killed"}
  /\ UNCHANGED <<port, file, disk, writer, tool, tools>>

-----------------------------------------------------------------------------
(* ygg llama status and ygg llama stop. *)

StartTool(pc) ==
  /\ tool.pc = "idle" /\ tools < MaxTools
  /\ tool' = [pc |-> pc, seen |-> ReadState]
  /\ tools' = tools + 1
  /\ NoteOverlap
  /\ UNCHANGED <<server, port, file, disk, writer, session>>

Status ==
  /\ tool.pc = "status"
  /\ \/ Confirmed(tool.seen) /\ UNCHANGED <<file, trouble>>
     \/ RemoveUnconfirmed(tool.seen)
  /\ tool' = [tool EXCEPT !.pc = "idle"]
  /\ UNCHANGED <<server, port, disk, writer, session, tools>>

\* stop_server finds no state, or one of a pid that is gone.
NothingToStop ==
  /\ tool.pc = "stop"
  /\ tool.seen.kind = "state" => ~Alive(tool.seen.pid)
  /\ file' = IF tool.seen.kind = "state" THEN NoFile ELSE file
  /\ tool' = [tool EXCEPT !.pc = "idle"]
  /\ UNCHANGED <<server, port, disk, writer, session, tools, trouble>>

\* What has the pid is told to end, be it the server or not.
Stopped(s) ==
  CASE Running(s) -> Exit(s)
    [] server[s] = "reused" -> server' = [server EXCEPT ![s] = "gone"] /\ UNCHANGED trouble
    [] OTHER -> UNCHANGED <<server, trouble>>

Terminate ==
  /\ tool.pc = "stop"
  /\ tool.seen.kind = "state" /\ Alive(tool.seen.pid)
  /\ Stopped(tool.seen.pid) \/ UNCHANGED <<server, trouble>>
  /\ tool' = [tool EXCEPT !.pc = "wait"]
  /\ UNCHANGED <<port, file, disk, writer, session, tools>>

\* Mutant: SIGTERM is trusted to end the server.
ClearAfterTerm ==
  /\ tool.pc = "wait"
  /\ file' = NoFile
  /\ tool' = [tool EXCEPT !.pc = "idle"]
  /\ UNCHANGED <<server, port, disk, writer, session, tools, trouble>>

\* 3 s later: SIGKILL if the pid is still there, and the file is removed.
KillAndClear ==
  /\ tool.pc = "wait"
  /\ Stopped(tool.seen.pid)
  /\ file' = NoFile
  /\ tool' = [tool EXCEPT !.pc = "idle"]
  /\ UNCHANGED <<port, disk, writer, session, tools>>

-----------------------------------------------------------------------------
SetupStep(s) ==
  \/ Attach(s) \/ FindNone(s) \/ CreateModelFile(s) \/ FinishDownload(s)
  \/ FindBinary(s) \/ FindPort(s)
  \/ \E m \in Models : TakeModel(s, m) \/ BeginDownload(s, m)

LaunchStep(s) ==
  \/ MakeWorld(s) \/ Ask(s) \/ ServerReady(s) \/ NoAnswer(s) \/ ServerTimesOut(s)
  \/ TruncateState(s) \/ FillState(s)

ServerStep(s) == Bind(s) \/ Load(s) \/ Hang(s) \/ Crash(s) \/ ReusePid(s)

ToolStep == Status \/ NothingToStop \/ Terminate \/ KillAndClear

Next ==
  \/ \E s \in Sessions :
       \/ StartSession(s) \/ SetupStep(s) \/ SetupFails(s) \/ LaunchStep(s) \/ WriteFails(s)
       \/ AgentExits(s) \/ KillServer(s) \/ ClearFile(s) \/ KillSession(s)
       \/ ServerStep(s)
  \/ StartTool("status") \/ StartTool("stop") \/ ToolStep

\* A session is a program that runs, its prompts are answered and its downloads end
\* or fail; its 30 s pass, so that some look at the deadline finds it over. Nothing is
\* assumed of the servers, of the agents and of when they exit.
Spec ==
  /\ Init /\ [][Next]_vars
  /\ \A s \in Sessions : WF_vars(SetupStep(s) \/ LaunchStep(s)) /\ SF_vars(ServerTimesOut(s))

-----------------------------------------------------------------------------
Files == {NoFile, EmptyFile} \union [kind : {"state"}, pid : Sessions, port : Ports]
SeenFiles == Files \ {EmptyFile}

Places ==
  {"idle", "probe", "model", "download", "fill", "binary", "port", "world", "wait",
   "ask", "truncate", "fillstate", "agent", "clear", "ended"}

ServerStates == {"none", "starting", "loading", "ready", "hung", "zombie", "gone", "reused"}
Troubles == {"overlap", "slow", "timeout", "unwritten", "outlived", "cut", "killed"}

SessionState ==
  [pc : Places, seen : SeenFiles, model : Models \union {NoModel},
   attached : BOOLEAN, child : BOOLEAN]

\* The type of files, servers, sessions and commands; who goes on to a server has a port.
TypeOK ==
  /\ server \in [Sessions -> ServerStates]
  /\ port \in [Sessions -> Ports \union {NoPort}]
  /\ file \in Files
  /\ disk \in [Models -> {"absent", "partial", "whole"}]
  /\ writer \in [Models -> Sessions \union {NoSession}]
  /\ session \in [Sessions -> SessionState]
  /\ \A s \in Sessions :
       session[s].pc \in {"world", "wait", "ask", "truncate", "fillstate", "agent"} =>
         port[s] \in Ports
  /\ tool \in [pc : {"idle", "status", "stop", "wait"}, seen : SeenFiles]
  /\ tools \in 0..MaxTools
  /\ trouble \subseteq Troubles

\* A server that nobody works on any more.
Kept(s) == Running(s) /\ session[s].pc \in {"agent", "ended"}

\* The file keeps track of the servers across sessions: a server that runs while its
\* session is not working on it any more is the one the file names, under the port it
\* has, so that the next session attaches to it and ygg llama stop ends it; there is
\* never a second one. This needs all of: no session or command that overlaps another's
\* work, no server that was slow to accept or over 30 s to load, none that exited
\* before its session did, no failed write of the file, and no session killed at work.
KeptIsKnown ==
  trouble = {} => \A s \in Sessions :
    Kept(s) => file = [kind |-> "state", pid |-> s, port |-> port[s]]

Undisturbed == trouble \intersect {"cut", "killed", "overlap"} = {}

\* A server is started on a whole model, and an agent on a server that has one, unless a
\* download was cut short: what it left has the name of a model, and is taken for one.
UsesWholeModel ==
  Undisturbed => \A s \in Sessions : Running(s) => disk[session[s].model] = "whole"

\* `ygg run --local` gets as far as its agent, or ends: a server that exits or is slow
\* does not hold it up (local.rs:783-797). One that takes the call and never answers does,
\* 30 s or not.
SessionsLaunch ==
  \A s \in Sessions :
    At(s, "probe") ~> session[s].pc \in {"agent", "ended"} \/ (At(s, "ask") /\ Hung(port[s]))

=============================================================================
