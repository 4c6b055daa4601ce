----------------------------- MODULE RunProofs -----------------------------
(***************************************************************************)
(* What `ygg run` relies on, for any number of sessions, models, ports and  *)
(* worlds: LocalModel's type invariant, KeptIsKnown and UsesWholeModel,     *)
(* and, at the end, ReportsOwnWorld of the rules that it puts into the      *)
(* world (Laws).                                                            *)
(*                                                                         *)
(* The invariant has five parts, proved in this order: TypeOK; Launched, a  *)
(* session has a server only from start_server on; OneWorker, without an    *)
(* overlap one works at a time; KeptInv, who works knows the file as it is; *)
(* ModelInv, a model in parts is being downloaded. Each has a lemma about   *)
(* one step (TypeStep, LaunchedStep, ...) with a step per action.           *)
(***************************************************************************)
EXTENDS LocalModel, WellFoundedInduction, TLAPS

(* The invariants that the proofs go by. *)

\* What makes KeptIsKnown and UsesWholeModel provable. A session has a server only from
\* start_server on, and without an overlap nobody else works on the file or a download.
Launched ==
  \A s \in Sessions :
    server[s] # "none" =>
      session[s].pc \in {"wait", "ask", "truncate", "fillstate", "agent", "clear", "ended"}

OneWorker ==
  "overlap" \notin trouble =>
    /\ \A s, t \in Sessions : Working(s) /\ Working(t) => s = t
    /\ tool.pc # "idle" => \A s \in Sessions : ~Working(s)

\* A session that is about to start a server or to forget one.
Replaces(s) ==
  \/ session[s].pc \in {"model", "download", "fill", "binary", "port", "wait", "ask",
                        "truncate", "fillstate", "clear"}
  \/ At(s, "world") /\ session[s].child

\* The command has seen the file as it is.
ToolSees ==
  /\ tool.pc # "idle" => tool.seen = ReadState
  /\ tool.pc = "wait" => tool.seen.kind = "state"

\* So has a session that probes. One with a server of its own waits for that server, which
\* then runs until the session kills it, and is in the file when the session leaves it.
Own(s) ==
  /\ At(s, "probe") => session[s].seen = ReadState
  /\ session[s].pc \in {"idle", "probe", "model", "download", "fill", "binary"} =>
       ~session[s].child
  /\ session[s].pc \in {"wait", "ask", "truncate", "fillstate"} => session[s].child
  /\ session[s].pc \in {"wait", "ask", "truncate", "fillstate", "agent"} /\ session[s].child =>
       Running(s)
  /\ At(s, "clear") => ~Running(s)
  /\ Running(s) /\ session[s].pc \notin {"wait", "ask"} => server[s] \in {"ready", "hung"}
  /\ server[s] = "zombie" => At(s, "clear")
  /\ Kept(s) => file = [kind |-> "state", pid |-> s, port |-> port[s]]

\* No server is kept while a session is about to start one or to clear the file.
KeptInv ==
  trouble = {} =>
    /\ ToolSees
    /\ \A s \in Sessions : Own(s)
    /\ \A s, t \in Sessions : Replaces(s) => ~Kept(t)

\* What a session knows of its model: whether it is there, that it writes it, that it is whole.
KnowsModel(s) ==
  /\ session[s].pc \in {"idle", "probe"} => ~session[s].child
  /\ At(s, "download") => session[s].model \in Models /\ disk[session[s].model] = "absent"
  /\ At(s, "fill") => session[s].model \in Models /\ writer[session[s].model] = s
  /\ \/ session[s].pc \in {"binary", "port", "wait", "ask"}
     \/ At(s, "world") /\ session[s].child
     \/ Running(s)
     => session[s].model \in Models /\ disk[session[s].model] = "whole"

\* A model that is there in part is being downloaded.
ModelInv ==
  Undisturbed =>
    /\ \A m \in Models :
         disk[m] = "partial" => \E s \in Sessions : At(s, "fill") /\ session[s].model = m
    /\ \A s \in Sessions : KnowsModel(s)

-----------------------------------------------------------------------------
(* Lemmas about ports, the file and what a step does to its session. *)

\* A set of numbers that is not empty has a least one.
LEMMA LeastNumber ==
  ASSUME NEW T \in SUBSET Nat, T # {}
  PROVE  \E p \in T : \A q \in T : p <= q
<1> DEFINE R == OpToRel(<, Nat)
<1>1. IsWellFoundedOn(R, Nat)
  BY NatLessThanWellFounded
<1>2. \A x, y \in Nat : <<x, y>> \in R <=> x < y
  BY DEF OpToRel
<1> HIDE DEF R
<1>3. \E p \in T : \A q \in T : ~(<<q, p>> \in R)
  BY <1>1, WFMin
<1>4. PICK p \in T : \A q \in T : ~(<<q, p>> \in R)
  BY <1>3
<1>5. \A q \in T : p <= q
  <2> TAKE q \in T
  <2>1. q \in Nat /\ p \in Nat /\ ~(q < p)
    BY <1>2, <1>4
  <2> QED BY <2>1
<1> QED BY <1>5

\* find_free_port returns a port (local.rs:683-690).
LEMMA FreePort ==
  ASSUME NEW s \in Sessions, FindPort(s)
  PROVE  \E p \in Ports : port' = [port EXCEPT ![s] = p]
<1> DEFINE free == {p \in Ports : ~Listening(p)}
<1>1. 1 \in Ports
  BY LocalModelAssumption DEF Ports
<1>2. CASE free = {}
  BY <1>1, <1>2 DEF FindPort
<1>3. CASE free # {}
  <2>1. free \subseteq Nat
    BY LocalModelAssumption DEF Ports
  <2>2. \E p \in free : \A q \in free : p <= q
    BY <1>3, <2>1, LeastNumber
  <2> QED BY <1>3, <2>2 DEF FindPort
<1> QED BY <1>2, <1>3

\* What can be in the file, and what is read from it (local.rs:51-69).
LEMMA FileType ==
  /\ NoFile \in SeenFiles /\ EmptyFile \in Files
  /\ \A f \in Files : f.kind = "state" =>
       f \in SeenFiles /\ f.pid \in Sessions /\ f.port \in Ports
  /\ \A s \in Sessions, p \in Ports : [kind |-> "state", pid |-> s, port |-> p] \in Files
  /\ TypeOK => ReadState \in SeenFiles
<1>1. NoFile \in SeenFiles /\ EmptyFile \in Files
  BY DEF Files, SeenFiles, NoFile, EmptyFile
<1>2. \A f \in Files : f.kind = "state" =>
        f \in SeenFiles /\ f.pid \in Sessions /\ f.port \in Ports
  BY DEF Files, SeenFiles, NoFile, EmptyFile
<1>3. \A s \in Sessions, p \in Ports : [kind |-> "state", pid |-> s, port |-> p] \in Files
  BY DEF Files
<1>4. TypeOK => ReadState \in SeenFiles
  BY <1>1, <1>2 DEF ReadState, TypeOK
<1> QED BY <1>1, <1>2, <1>3, <1>4

\* What is left of session s when it steps to such a state; the other sessions stay.
Becomes(s, place, seen, model, attached, child) ==
  /\ session' \in [Sessions -> SessionState]
  /\ \A t \in Sessions : t # s => session'[t] = session[t]
  /\ session'[s].pc = place /\ session'[s].seen = seen /\ session'[s].model = model
  /\ session'[s].attached = attached /\ session'[s].child = child

\* One session's new state is put in place of its old one.
LEMMA OneSession ==
  ASSUME TypeOK, NEW s \in Sessions, NEW r \in SessionState,
         session' = [session EXCEPT ![s] = r]
  PROVE  Becomes(s, r.pc, r.seen, r.model, r.attached, r.child)
<1>1. session \in [Sessions -> SessionState]
  BY DEF TypeOK
<1>2. session' \in [Sessions -> SessionState] /\ session'[s] = r
  BY <1>1
<1>3. \A t \in Sessions : t # s => session'[t] = session[t]
  BY <1>1
<1> QED BY <1>2, <1>3 DEF Becomes

\* The parts of a session's state.
LEMMA SessionParts ==
  ASSUME TypeOK, NEW s \in Sessions
  PROVE  /\ session[s] \in SessionState
         /\ session[s].pc \in Places /\ session[s].seen \in SeenFiles
         /\ session[s].model \in Models \union {NoModel}
         /\ session[s].attached \in BOOLEAN /\ session[s].child \in BOOLEAN
<1>1. session[s] \in SessionState
  BY DEF TypeOK
<1> QED BY <1>1 DEF SessionState

\* A session that goes to another place keeps the rest of its state.
LEMMA GotoEffect ==
  ASSUME TypeOK, NEW s \in Sessions, NEW place \in Places, Goto(s, place)
  PROVE  Becomes(s, place, session[s].seen, session[s].model, session[s].attached, session[s].child)
<1> DEFINE r == [session[s] EXCEPT !.pc = place]
<1>1. place \in Places
  BY DEF Places
<1>2. r \in SessionState
  BY <1>1, SessionParts DEF SessionState
<1>3. /\ r.pc = place /\ r.seen = session[s].seen /\ r.model = session[s].model
      /\ r.attached = session[s].attached /\ r.child = session[s].child
  BY SessionParts DEF SessionState
<1>4. session' = [session EXCEPT ![s] = r]
  BY DEF Goto
<1> HIDE DEF r
<1>5. Becomes(s, r.pc, r.seen, r.model, r.attached, r.child)
  BY <1>2, <1>4, OneSession
<1> QED BY <1>3, <1>5

\* A session begins with a look at the file (local.rs:101).
LEMMA StartEffect ==
  ASSUME TypeOK, NEW s \in Sessions, StartSession(s)
  PROVE  Becomes(s, "probe", ReadState, session[s].model, session[s].attached, session[s].child)
<1> DEFINE r == [session[s] EXCEPT !.pc = "probe", !.seen = ReadState]
<1>1. "probe" \in Places /\ ReadState \in SeenFiles
  BY FileType DEF Places
<1>2. r \in SessionState
  BY <1>1, SessionParts DEF SessionState
<1>3. /\ r.pc = "probe" /\ r.seen = ReadState /\ r.model = session[s].model
      /\ r.attached = session[s].attached /\ r.child = session[s].child
  BY SessionParts DEF SessionState
<1>4. session' = [session EXCEPT ![s] = r]
  BY DEF StartSession
<1> HIDE DEF r
<1>5. Becomes(s, r.pc, r.seen, r.model, r.attached, r.child)
  BY <1>2, <1>4, OneSession
<1> QED BY <1>3, <1>5

\* A session attaches to the server that it found (local.rs:729-753).
LEMMA AttachEffect ==
  ASSUME TypeOK, NEW s \in Sessions, Attach(s)
  PROVE  Becomes(s, "world", session[s].seen, session[s].model, TRUE, session[s].child)
<1> DEFINE r == [session[s] EXCEPT !.pc = "world", !.attached = TRUE]
<1>1. "world" \in Places
  BY DEF Places
<1>2. r \in SessionState
  BY <1>1, SessionParts DEF SessionState
<1>3. /\ r.pc = "world" /\ r.seen = session[s].seen /\ r.model = session[s].model
      /\ r.attached = TRUE /\ r.child = session[s].child
  BY SessionParts DEF SessionState
<1>4. session' = [session EXCEPT ![s] = r]
  BY DEF Attach
<1> HIDE DEF r
<1>5. Becomes(s, r.pc, r.seen, r.model, r.attached, r.child)
  BY <1>2, <1>4, OneSession
<1> QED BY <1>3, <1>5

\* A session goes on without its server (local.rs:828).
LEMMA TimeoutEffect ==
  ASSUME TypeOK, NEW s \in Sessions, ServerTimesOut(s)
  PROVE  Becomes(s, "agent", session[s].seen, session[s].model, session[s].attached, FALSE)
<1> DEFINE r == [session[s] EXCEPT !.pc = "agent", !.child = FALSE]
<1>1. "agent" \in Places
  BY DEF Places
<1>2. r \in SessionState
  BY <1>1, SessionParts DEF SessionState
<1>3. /\ r.pc = "agent" /\ r.seen = session[s].seen /\ r.model = session[s].model
      /\ r.attached = session[s].attached /\ r.child = FALSE
  BY SessionParts DEF SessionState
<1>4. session' = [session EXCEPT ![s] = r]
  BY DEF ServerTimesOut
<1> HIDE DEF r
<1>5. Becomes(s, r.pc, r.seen, r.model, r.attached, r.child)
  BY <1>2, <1>4, OneSession
<1> QED BY <1>3, <1>5

\* A session takes a model that is on disk.
LEMMA TakeEffect ==
  ASSUME TypeOK, NEW s \in Sessions, NEW m \in Models, TakeModel(s, m)
  PROVE  Becomes(s, "binary", session[s].seen, m, session[s].attached, session[s].child)
<1> DEFINE r == [session[s] EXCEPT !.pc = "binary", !.model = m]
<1>1. "binary" \in Places
  BY DEF Places
<1>2. r \in SessionState
  BY <1>1, SessionParts DEF SessionState
<1>3. /\ r.pc = "binary" /\ r.seen = session[s].seen /\ r.model = m
      /\ r.attached = session[s].attached /\ r.child = session[s].child
  BY SessionParts DEF SessionState
<1>4. session' = [session EXCEPT ![s] = r]
  BY DEF TakeModel
<1> HIDE DEF r
<1>5. Becomes(s, r.pc, r.seen, r.model, r.attached, r.child)
  BY <1>2, <1>4, OneSession
<1> QED BY <1>3, <1>5

\* A session downloads a model that is not.
LEMMA DownloadEffect ==
  ASSUME TypeOK, NEW s \in Sessions, NEW m \in Models, BeginDownload(s, m)
  PROVE  Becomes(s, "download", session[s].seen, m, session[s].attached, session[s].child)
<1> DEFINE r == [session[s] EXCEPT !.pc = "download", !.model = m]
<1>1. "download" \in Places
  BY DEF Places
<1>2. r \in SessionState
  BY <1>1, SessionParts DEF SessionState
<1>3. /\ r.pc = "download" /\ r.seen = session[s].seen /\ r.model = m
      /\ r.attached = session[s].attached /\ r.child = session[s].child
  BY SessionParts DEF SessionState
<1>4. session' = [session EXCEPT ![s] = r]
  BY DEF BeginDownload
<1> HIDE DEF r
<1>5. Becomes(s, r.pc, r.seen, r.model, r.attached, r.child)
  BY <1>2, <1>4, OneSession
<1> QED BY <1>3, <1>5

\* A session finds a binary, or goes on without a server.
LEMMA BinaryEffect ==
  ASSUME TypeOK, NEW s \in Sessions, FindBinary(s)
  PROVE  \E child \in BOOLEAN :
           Becomes(s, "port", session[s].seen, session[s].model, session[s].attached, child)
<1> PICK child \in BOOLEAN :
          session' = [session EXCEPT ![s].pc = "port", ![s].child = child]
  BY DEF FindBinary
<1> DEFINE r == [session[s] EXCEPT !.pc = "port", !.child = child]
<1>1. "port" \in Places
  BY DEF Places
<1>2. r \in SessionState
  BY <1>1, SessionParts DEF SessionState
<1>3. /\ r.pc = "port" /\ r.seen = session[s].seen /\ r.model = session[s].model
      /\ r.attached = session[s].attached /\ r.child = child
  BY SessionParts DEF SessionState
<1>4. session' = [session EXCEPT ![s] = r]
  BY DEF FindBinary
<1> HIDE DEF r
<1>5. Becomes(s, r.pc, r.seen, r.model, r.attached, r.child)
  BY <1>2, <1>4, OneSession
<1> QED BY <1>3, <1>5

\* A server that exits leaves the servers and what went wrong well typed.
LEMMA ExitType ==
  ASSUME TypeOK, NEW s \in Sessions, Exit(s)
  PROVE  /\ server' \in [Sessions -> ServerStates]
         /\ trouble' \subseteq Troubles
  BY DEF Exit, TypeOK, ServerStates, Troubles

\* A step of a session to a place keeps the type when what else it changes is well typed,
\* and it has a port by the time it needs one.
LEMMA SessionType ==
  ASSUME TypeOK, NEW s \in Sessions, NEW place, NEW seen, NEW model, NEW attached, NEW child,
         Becomes(s, place, seen, model, attached, child),
         server' \in [Sessions -> ServerStates],
         port' \in [Sessions -> Ports \union {NoPort}],
         \A t \in Sessions : t # s => port'[t] = port[t],
         place \in {"world", "wait", "ask", "truncate", "fillstate", "agent"} =>
           port'[s] \in Ports,
         file' \in Files,
         disk' \in [Models -> {"absent", "partial", "whole"}],
         writer' \in [Models -> Sessions \union {NoSession}],
         tool' = tool, tools' = tools,
         trouble' \subseteq Troubles
  PROVE  TypeOK'
<1>1. \A t \in Sessions :
        session'[t].pc \in {"world", "wait", "ask", "truncate", "fillstate", "agent"} =>
          port'[t] \in Ports
  <2> TAKE t \in Sessions
  <2>1. CASE t = s
    BY <2>1 DEF Becomes
  <2>2. CASE t # s
    BY <2>2 DEF Becomes, TypeOK, ServerStates, Troubles
  <2> QED BY <2>1, <2>2
<1>2. session' \in [Sessions -> SessionState]
  BY DEF Becomes
<1> QED BY <1>1, <1>2 DEF TypeOK, ServerStates, Troubles

\* Every step keeps the type.
LEMMA TypeStep == TypeOK /\ [Next]_vars => TypeOK'
<1> SUFFICES ASSUME TypeOK, [Next]_vars PROVE TypeOK'
  OBVIOUS
<1>1. ASSUME NEW s \in Sessions, StartSession(s) PROVE TypeOK'
  BY <1>1, StartEffect, SessionType DEF StartSession, NoteOverlap, TypeOK, ServerStates, Troubles
<1>2. ASSUME NEW s \in Sessions, Attach(s) PROVE TypeOK'
  <2>1. session[s].seen.port \in Ports
    BY <1>2, SessionParts, FileType DEF Attach, Confirmed, SeenFiles
  <2> QED BY <1>2, <2>1, AttachEffect, SessionType DEF Attach, TypeOK, ServerStates, Troubles
<1>3. ASSUME NEW s \in Sessions, FindNone(s) PROVE TypeOK'
  <2>1. file' \in Files /\ Goto(s, "model") /\ "model" \in Places
    BY <1>3, FileType DEF FindNone, RemoveUnconfirmed, TypeOK, SeenFiles, Places
  <2> QED BY <1>3, <2>1, GotoEffect, SessionType DEF FindNone, RemoveUnconfirmed, TypeOK,
     ServerStates, Troubles
<1>4. ASSUME NEW s \in Sessions, NEW m \in Models, TakeModel(s, m) PROVE TypeOK'
  BY <1>4, TakeEffect, SessionType, ZenonT(60) DEF TakeModel, TypeOK, ServerStates, Troubles
<1>5. ASSUME NEW s \in Sessions, NEW m \in Models, BeginDownload(s, m) PROVE TypeOK'
  BY <1>5, DownloadEffect, SessionType DEF BeginDownload, TypeOK, ServerStates, Troubles
<1>6. ASSUME NEW s \in Sessions, CreateModelFile(s) PROVE TypeOK'
  <2>1. Goto(s, "fill") /\ "fill" \in Places
    BY <1>6 DEF CreateModelFile, Places
  <2>2. /\ disk' \in [Models -> {"absent", "partial", "whole"}]
        /\ writer' \in [Models -> Sessions \union {NoSession}]
    BY <1>6 DEF CreateModelFile, TypeOK, ServerStates, Troubles
  <2>3. Becomes(s, "fill", session[s].seen, session[s].model, session[s].attached, session[s].child)
    BY <2>1, GotoEffect
  <2> QED BY <1>6, <2>2, <2>3, SessionType DEF CreateModelFile, TypeOK, ServerStates, Troubles
<1>7. ASSUME NEW s \in Sessions, FinishDownload(s) PROVE TypeOK'
  <2>1. Goto(s, "binary") /\ "binary" \in Places
    BY <1>7 DEF FinishDownload, Places
  <2>2. disk' \in [Models -> {"absent", "partial", "whole"}]
    BY <1>7 DEF FinishDownload, TypeOK, ServerStates, Troubles
  <2>3. Becomes(s, "binary", session[s].seen, session[s].model, session[s].attached, session[s].child)
    BY <2>1, GotoEffect
  <2> QED BY <1>7, <2>2, <2>3, SessionType DEF FinishDownload, TypeOK, ServerStates, Troubles
<1>8. ASSUME NEW s \in Sessions, FindBinary(s) PROVE TypeOK'
  BY <1>8, BinaryEffect, SessionType DEF FindBinary, TypeOK, ServerStates, Troubles
<1>9. ASSUME NEW s \in Sessions, FindPort(s) PROVE TypeOK'
  <2>1. Goto(s, "world") /\ "world" \in Places
    BY <1>9 DEF FindPort, Places
  <2>2. PICK p \in Ports : port' = [port EXCEPT ![s] = p]
    BY <1>9, FreePort
  <2>3. /\ port' \in [Sessions -> Ports \union {NoPort}] /\ port'[s] \in Ports
        /\ \A t \in Sessions : t # s => port'[t] = port[t]
    BY <2>2 DEF TypeOK, ServerStates, Troubles
  <2>4. Becomes(s, "world", session[s].seen, session[s].model, session[s].attached, session[s].child)
    BY <2>1, GotoEffect
  <2> QED BY <1>9, <2>3, <2>4, SessionType DEF FindPort, TypeOK, ServerStates, Troubles
<1>10. ASSUME NEW s \in Sessions, SetupFails(s) PROVE TypeOK'
  <2>1. Goto(s, "ended") /\ "ended" \in Places
    BY <1>10 DEF SetupFails, Places
  <2> QED BY <1>10, <2>1, GotoEffect, SessionType DEF SetupFails, TypeOK, ServerStates, Troubles
<1>11. ASSUME NEW s \in Sessions, MakeWorld(s) PROVE TypeOK'
  <2>1. PICK place \in {"wait", "agent"} : Goto(s, place)
    BY <1>11 DEF MakeWorld
  <2>2. place \in Places /\ port[s] \in Ports
    BY <1>11 DEF MakeWorld, At, Places, TypeOK, ServerStates, Troubles
  <2> QED BY <1>11, <2>1, <2>2, GotoEffect, SessionType DEF MakeWorld, TypeOK,
     ServerStates, Troubles
<1>12. ASSUME NEW s \in Sessions, ServerReady(s) \/ Ask(s) \/ NoAnswer(s) \/ WriteFails(s)
       PROVE  TypeOK'
  <2>1. PICK place \in {"truncate", "ask", "wait", "agent"} : Goto(s, place)
    BY <1>12 DEF ServerReady, Ask, NoAnswer, WriteFails
  <2>2. place \in Places /\ port[s] \in Ports
    BY <1>12 DEF ServerReady, Ask, NoAnswer, WriteFails, At, Places, TypeOK,
       ServerStates, Troubles
  <2>3. /\ UNCHANGED <<server, port, file, disk, writer, tool, tools>>
        /\ trouble' \subseteq Troubles
    BY <1>12 DEF ServerReady, Ask, NoAnswer, WriteFails, TypeOK, Troubles
  <2>4. Becomes(s, place, session[s].seen, session[s].model, session[s].attached,
                session[s].child)
    BY <2>1, <2>2, GotoEffect
  <2> QED BY <2>2, <2>3, <2>4, SessionType DEF TypeOK, ServerStates
<1>13. ASSUME NEW s \in Sessions, ServerTimesOut(s) PROVE TypeOK'
  <2>1. port[s] \in Ports
    BY <1>13 DEF ServerTimesOut, At, TypeOK, ServerStates, Troubles
  <2> QED BY <1>13, <2>1, TimeoutEffect, SessionType DEF ServerTimesOut, TypeOK,
     ServerStates, Troubles
<1>14. ASSUME NEW s \in Sessions, TruncateState(s) PROVE TypeOK'
  <2>1. Goto(s, "fillstate") /\ "fillstate" \in Places /\ port[s] \in Ports
    BY <1>14 DEF TruncateState, At, Places, TypeOK, ServerStates, Troubles
  <2> QED BY <1>14, <2>1, FileType, GotoEffect, SessionType DEF TruncateState, TypeOK,
     ServerStates, Troubles
<1>15. ASSUME NEW s \in Sessions, FillState(s) PROVE TypeOK'
  <2>1. Goto(s, "agent") /\ "agent" \in Places /\ port[s] \in Ports
    BY <1>15 DEF FillState, At, Places, TypeOK, ServerStates, Troubles
  <2>2. file' \in Files
    BY <1>15, <2>1, FileType DEF FillState
  <2> QED BY <1>15, <2>1, <2>2, GotoEffect, SessionType DEF FillState, TypeOK,
     ServerStates, Troubles
<1>16. ASSUME NEW s \in Sessions, AgentExits(s) PROVE TypeOK'
  <2>1. Goto(s, "ended") /\ "ended" \in Places
    BY <1>16 DEF AgentExits, Ended, Places
  <2> QED BY <1>16, <2>1, GotoEffect, SessionType DEF AgentExits, Ended, TypeOK,
     ServerStates, Troubles
<1>17. ASSUME NEW s \in Sessions, KillServer(s) PROVE TypeOK'
  <2>1. Goto(s, "clear") /\ "clear" \in Places
    BY <1>17 DEF KillServer, Places
  <2> QED BY <1>17, <2>1, GotoEffect, SessionType DEF KillServer, NoteOverlap, TypeOK,
     ServerStates, Troubles
<1>18. ASSUME NEW s \in Sessions, ClearFile(s) PROVE TypeOK'
  <2>1. Goto(s, "ended") /\ "ended" \in Places
    BY <1>18 DEF ClearFile, Ended, Places
  <2> QED BY <1>18, <2>1, FileType, GotoEffect, SessionType DEF ClearFile, Ended, SeenFiles, TypeOK,
     ServerStates, Troubles
<1>19. ASSUME NEW s \in Sessions, KillSession(s) PROVE TypeOK'
  <2>1. Goto(s, "ended") /\ "ended" \in Places
    BY <1>19 DEF KillSession, Places
  <2> QED BY <1>19, <2>1, GotoEffect, SessionType DEF KillSession, TypeOK, ServerStates, Troubles
<1>20. ASSUME NEW s \in Sessions, ServerStep(s) PROVE TypeOK'
  <2>1. CASE Bind(s)
    <3>1. CASE Listening(port[s])
      <4>1. Exit(s)
        BY <2>1, <3>1 DEF Bind
      <4> QED BY <2>1, <4>1, ExitType DEF Bind, TypeOK, ServerStates, Troubles
    <3>2. CASE ~Listening(port[s])
      BY <2>1, <3>2 DEF Bind, TypeOK, ServerStates, Troubles
    <3> QED BY <3>1, <3>2
  <2>2. CASE Load(s)
    <3>1. CASE disk[session[s].model] = "whole"
      BY <2>2, <3>1 DEF Load, TypeOK, ServerStates, Troubles
    <3>2. CASE disk[session[s].model] # "whole"
      <4>1. Exit(s)
        BY <2>2, <3>2 DEF Load
      <4> QED BY <2>2, <4>1, ExitType DEF Load, TypeOK, ServerStates, Troubles
    <3> QED BY <3>1, <3>2
  <2>3. CASE Crash(s)
    BY <2>3, ExitType DEF Crash, TypeOK, ServerStates, Troubles
  <2>4. CASE ReusePid(s)
    BY <2>4 DEF ReusePid, TypeOK, ServerStates, Troubles
  <2>5. CASE Hang(s)
    BY <2>5 DEF Hang, TypeOK, ServerStates, Troubles
  <2> QED BY <1>20, <2>1, <2>2, <2>3, <2>4, <2>5 DEF ServerStep
<1>21. ASSUME NEW pc \in {"status", "stop"}, StartTool(pc) PROVE TypeOK'
  <2>1. ReadState \in SeenFiles
    BY FileType
  <2>2. tools' \in 0..MaxTools
    BY <1>21, LocalModelAssumption DEF StartTool, TypeOK, ServerStates, Troubles
  <2> QED BY <1>21, <2>1, <2>2 DEF StartTool, NoteOverlap, TypeOK, ServerStates, Troubles
<1>22. CASE ToolStep
  <2>1. tool' \in [pc : {"idle", "status", "stop", "wait"}, seen : SeenFiles]
    BY <1>22 DEF ToolStep, Status, NothingToStop, Terminate, KillAndClear, TypeOK,
       ServerStates, Troubles
  <2>2. file' \in Files
    BY <1>22, FileType DEF ToolStep, Status, NothingToStop, Terminate, KillAndClear,
                           RemoveUnconfirmed, SeenFiles, TypeOK, ServerStates, Troubles
  <2>3. CASE Status \/ NothingToStop
    BY <2>1, <2>2, <2>3 DEF Status, NothingToStop, RemoveUnconfirmed, TypeOK,
       ServerStates, Troubles
  <2>4. CASE Terminate \/ KillAndClear
    <3>1. /\ server' \in [Sessions -> ServerStates]
          /\ trouble' \subseteq Troubles
      BY <2>4 DEF Terminate, KillAndClear, Stopped, Exit, TypeOK, ServerStates, Troubles
    <3> QED BY <2>1, <2>2, <2>4, <3>1 DEF Terminate, KillAndClear, TypeOK, ServerStates, Troubles
  <2> QED BY <1>22, <2>3, <2>4 DEF ToolStep
<1>23. CASE UNCHANGED vars
  BY <1>23 DEF TypeOK, vars
<1> QED
  BY <1>1, <1>2, <1>3, <1>4, <1>5, <1>6, <1>7, <1>8, <1>9, <1>10, <1>11, <1>12, <1>13, <1>14,
     <1>15, <1>16, <1>17, <1>18, <1>19, <1>20, <1>21, <1>22, <1>23
  DEF Next, SetupStep, LaunchStep

-----------------------------------------------------------------------------
(* What each action does to its session, said once for the invariants below. *)

Moves(s, place) ==
  Becomes(s, place, session[s].seen, session[s].model, session[s].attached, session[s].child)

\* Where each action of a session takes it (run.rs, local.rs): all but the first six only
\* move it.
LEMMA Effects ==
  ASSUME TypeOK, NEW s \in Sessions
  PROVE  /\ StartSession(s) =>
              Becomes(s, "probe", ReadState, session[s].model, session[s].attached, session[s].child)
         /\ Attach(s) =>
              Becomes(s, "world", session[s].seen, session[s].model, TRUE, session[s].child)
         /\ \A m \in Models : TakeModel(s, m) =>
              Becomes(s, "binary", session[s].seen, m, session[s].attached, session[s].child)
         /\ \A m \in Models : BeginDownload(s, m) =>
              Becomes(s, "download", session[s].seen, m, session[s].attached, session[s].child)
         /\ FindBinary(s) => \E child \in BOOLEAN :
              Becomes(s, "port", session[s].seen, session[s].model, session[s].attached, child)
         /\ ServerTimesOut(s) =>
              Becomes(s, "agent", session[s].seen, session[s].model, session[s].attached, FALSE)
         /\ FindNone(s) => Moves(s, "model")
         /\ CreateModelFile(s) => Moves(s, "fill")
         /\ FinishDownload(s) => Moves(s, "binary")
         /\ FindPort(s) => Moves(s, "world")
         /\ SetupFails(s) \/ AgentExits(s) \/ ClearFile(s) \/ KillSession(s) => Moves(s, "ended")
         /\ MakeWorld(s) => Moves(s, IF session[s].child THEN "wait" ELSE "agent")
         /\ Ask(s) => Moves(s, "ask")
         /\ ServerReady(s) => Moves(s, "truncate")
         /\ NoAnswer(s) => Moves(s, "wait")
         /\ TruncateState(s) => Moves(s, "fillstate")
         /\ FillState(s) \/ WriteFails(s) => Moves(s, "agent")
         /\ KillServer(s) => Moves(s, "clear")
<1>1. \A place \in Places : Goto(s, place) => Moves(s, place)
  BY GotoEffect DEF Moves
<1>2. /\ FindNone(s) => Goto(s, "model")
      /\ CreateModelFile(s) => Goto(s, "fill")
      /\ FinishDownload(s) => Goto(s, "binary")
      /\ FindPort(s) => Goto(s, "world")
      /\ SetupFails(s) \/ AgentExits(s) \/ ClearFile(s) \/ KillSession(s) => Goto(s, "ended")
      /\ MakeWorld(s) => Goto(s, IF session[s].child THEN "wait" ELSE "agent")
      /\ Ask(s) => Goto(s, "ask")
      /\ ServerReady(s) => Goto(s, "truncate")
      /\ NoAnswer(s) => Goto(s, "wait")
      /\ TruncateState(s) => Goto(s, "fillstate")
      /\ FillState(s) \/ WriteFails(s) => Goto(s, "agent")
      /\ KillServer(s) => Goto(s, "clear")
  BY DEF FindNone, CreateModelFile, FinishDownload, FindPort, SetupFails, AgentExits, ClearFile,
         KillSession, Ended, MakeWorld, Ask, ServerReady, NoAnswer, TruncateState, FillState,
         WriteFails, KillServer
<1>3. {"model", "fill", "binary", "world", "ended", "wait", "ask", "agent", "truncate", "fillstate",
       "clear"} \subseteq Places
  BY DEF Places
<1> QED
  BY <1>1, <1>2, <1>3, StartEffect, AttachEffect, TakeEffect, DownloadEffect, BinaryEffect,
     TimeoutEffect, ZenonT(60)

\* What went wrong stays on record.
LEMMA TroubleGrows == [Next]_vars => trouble \subseteq trouble'
<1>1. ASSUME NEW s \in Sessions, Exit(s) PROVE trouble \subseteq trouble'
  BY <1>1 DEF Exit
<1>2. ASSUME NEW s \in Sessions,
             \/ StartSession(s) \/ SetupStep(s) \/ SetupFails(s)
             \/ LaunchStep(s) \/ WriteFails(s)
      PROVE  trouble \subseteq trouble'
  BY <1>2 DEF StartSession, SetupStep, SetupFails, LaunchStep, Attach, FindNone, RemoveUnconfirmed,
     TakeModel, BeginDownload, CreateModelFile, FinishDownload, FindBinary, FindPort, MakeWorld,
     Ask, ServerReady, NoAnswer, ServerTimesOut, TruncateState, FillState, WriteFails, NoteOverlap
<1>3. ASSUME NEW s \in Sessions, AgentExits(s) \/ KillServer(s) \/ ClearFile(s) \/ KillSession(s)
      PROVE  trouble \subseteq trouble'
  BY <1>3 DEF AgentExits, KillServer, ClearFile, KillSession, NoteOverlap
<1>4. ASSUME NEW s \in Sessions, ServerStep(s) PROVE trouble \subseteq trouble'
  BY <1>4 DEF ServerStep, Bind, Load, Hang, Crash, ReusePid, Exit
<1>5. ASSUME NEW pc, StartTool(pc) PROVE trouble \subseteq trouble'
  BY <1>5 DEF StartTool, NoteOverlap
<1>6. ASSUME ToolStep PROVE trouble \subseteq trouble'
  BY <1>6 DEF ToolStep, Status, RemoveUnconfirmed, NothingToStop, Terminate, KillAndClear, Stopped, Exit
<1>7. ASSUME UNCHANGED vars PROVE trouble \subseteq trouble'
  BY <1>7 DEF vars
<1> QED BY <1>2, <1>3, <1>4, <1>5, <1>6, <1>7 DEF Next

-----------------------------------------------------------------------------
(* A session has a server only from start_server on. *)

\* The step of a session keeps that when its server is there only at such a place.
LEMMA LaunchedSession ==
  ASSUME Launched, NEW s \in Sessions, NEW place, NEW seen, NEW model, NEW attached, NEW child,
         Becomes(s, place, seen, model, attached, child),
         \A t \in Sessions : t # s => server'[t] = server[t],
         server'[s] # "none" =>
           place \in {"wait", "ask", "truncate", "fillstate", "agent", "clear", "ended"}
  PROVE  Launched'
<1> SUFFICES ASSUME NEW t \in Sessions, server'[t] # "none"
             PROVE  session'[t].pc \in
                      {"wait", "ask", "truncate", "fillstate", "agent", "clear", "ended"}
  BY DEF Launched
<1>1. CASE t = s
  BY <1>1 DEF Becomes
<1>2. CASE t # s
  BY <1>2 DEF Becomes, Launched
<1> QED BY <1>1, <1>2

\* The step of a server keeps it when no server is started.
LEMMA LaunchedServer ==
  ASSUME Launched, session' = session,
         \A t \in Sessions : server'[t] # "none" => server[t] # "none"
  PROVE  Launched'
  BY DEF Launched

\* Every step keeps it.
LEMMA LaunchedStep == TypeOK /\ Launched /\ [Next]_vars => Launched'
<1> SUFFICES ASSUME TypeOK, Launched, [Next]_vars PROVE Launched'
  OBVIOUS
<1> DEFINE early == {"idle", "probe", "model", "download", "fill", "binary", "port", "world"}
<1>1. \A s \in Sessions : session[s].pc \in early => server[s] = "none"
  BY DEF Launched
<1>2. ASSUME NEW s \in Sessions, StartSession(s) \/ SetupStep(s) \/ SetupFails(s)
      PROVE  Launched'
  <2>1. server' = server /\ server[s] = "none"
    BY <1>1, <1>2 DEF StartSession, SetupStep, SetupFails, Attach, FindNone, TakeModel, BeginDownload,
       CreateModelFile, FinishDownload, FindBinary, FindPort, At
  <2>2. CASE StartSession(s) \/ SetupFails(s)
    BY <2>1, <2>2, Effects, LaunchedSession DEF Moves
  <2>3. CASE SetupStep(s)
    BY <2>1, <2>3, Effects, LaunchedSession DEF SetupStep, Moves
  <2> QED BY <1>2, <2>2, <2>3
<1>3. ASSUME NEW s \in Sessions, LaunchStep(s) \/ WriteFails(s) PROVE Launched'
  <2>1. CASE MakeWorld(s)
    <3>1. \A t \in Sessions : t # s => server'[t] = server[t]
      BY <2>1 DEF MakeWorld, TypeOK
    <3>2. server'[s] # "none" => session[s].child
      BY <1>1, <2>1 DEF MakeWorld, At
    <3> QED BY <2>1, <3>1, <3>2, Effects, LaunchedSession, ZenonT(60) DEF Moves
  <2>2. CASE \/ Ask(s) \/ ServerReady(s) \/ NoAnswer(s) \/ ServerTimesOut(s)
             \/ TruncateState(s) \/ FillState(s) \/ WriteFails(s)
    <3>1. server' = server
      BY <2>2 DEF Ask, ServerReady, NoAnswer, ServerTimesOut, TruncateState, FillState, WriteFails
    <3> QED BY <2>2, <3>1, Effects, LaunchedSession DEF Moves
  <2> QED BY <1>3, <2>1, <2>2 DEF LaunchStep
<1>4. ASSUME NEW s \in Sessions, AgentExits(s) \/ KillServer(s) \/ ClearFile(s) \/ KillSession(s)
      PROVE  Launched'
  <2>1. \A t \in Sessions : t # s => server'[t] = server[t]
    BY <1>4 DEF AgentExits, KillServer, ClearFile, KillSession, Ended, TypeOK
  <2> QED BY <1>4, <2>1, Effects, LaunchedSession DEF Moves
<1>5. ASSUME NEW s \in Sessions, ServerStep(s) PROVE Launched'
  <2>1. session' = session /\ server[s] # "none"
    BY <1>5 DEF ServerStep, Bind, Load, Hang, Crash, ReusePid
  <2>2. \A t \in Sessions : t # s => server'[t] = server[t]
    BY <1>5 DEF ServerStep, Bind, Load, Hang, Crash, ReusePid, Exit, TypeOK
  <2> QED BY <2>1, <2>2, LaunchedServer
<1>6. ASSUME NEW pc, StartTool(pc) PROVE Launched'
  BY <1>6, LaunchedServer DEF StartTool
<1>7. CASE ToolStep
  <2>1. session' = session
    BY <1>7 DEF ToolStep, Status, NothingToStop, Terminate, KillAndClear
  <2>2. CASE server' = server
    BY <2>1, <2>2, LaunchedServer
  <2>3. CASE Stopped(tool.seen.pid)
    <3>1. \A t \in Sessions : server'[t] # "none" => server[t] # "none"
      BY <2>3 DEF Stopped, Running, Exit, TypeOK
    <3> QED BY <2>1, <3>1, LaunchedServer
  <2> QED BY <1>7, <2>2, <2>3 DEF ToolStep, Status, NothingToStop, Terminate, KillAndClear
<1>8. CASE UNCHANGED vars
  BY <1>8, LaunchedServer DEF vars
<1> QED BY <1>2, <1>3, <1>4, <1>5, <1>6, <1>7, <1>8 DEF Next

-----------------------------------------------------------------------------
(* One works at a time unless an overlap is on record. *)

\* The step of a session keeps that when the session worked before, or does not work now.
LEMMA OneWorkerSession ==
  ASSUME OneWorker, "overlap" \notin trouble, NEW s \in Sessions,
         NEW place, NEW seen, NEW model, NEW attached, NEW child,
         Becomes(s, place, seen, model, attached, child), tool' = tool,
         Working(s) \/ place \in {"idle", "agent", "ended"}
  PROVE  OneWorker'
<1>1. \A t \in Sessions : Working(t)' => Working(t)
  <2> TAKE t \in Sessions
  <2>1. CASE t = s
    BY <2>1 DEF Becomes, Working
  <2>2. CASE t # s
    BY <2>2 DEF Becomes, Working
  <2> QED BY <2>1, <2>2
<1> QED BY <1>1 DEF OneWorker

\* So does one that begins to work when nobody does.
LEMMA OneWorkerBegins ==
  ASSUME NEW s \in Sessions, NEW place, NEW seen, NEW model, NEW attached, NEW child,
         Becomes(s, place, seen, model, attached, child), tool' = tool, ~SomeoneWorks
  PROVE  OneWorker'
<1>1. \A t \in Sessions : Working(t)' => t = s
  BY DEF Becomes, Working, SomeoneWorks
<1>2. tool'.pc = "idle"
  BY DEF SomeoneWorks
<1> QED BY <1>1, <1>2 DEF OneWorker

\* Every step keeps it.
LEMMA OneWorkerStep == TypeOK /\ OneWorker /\ [Next]_vars => OneWorker'
<1> SUFFICES ASSUME TypeOK, OneWorker, [Next]_vars, "overlap" \notin trouble'
             PROVE  OneWorker'
  BY DEF OneWorker
<1>1. "overlap" \notin trouble
  BY TroubleGrows
<1>2. ASSUME NEW s \in Sessions, StartSession(s) \/ KillServer(s) PROVE OneWorker'
  <2>1. ~SomeoneWorks /\ tool' = tool
    BY <1>2 DEF StartSession, KillServer, NoteOverlap
  <2> QED BY <1>2, <2>1, Effects, OneWorkerBegins DEF Moves
<1>3. ASSUME NEW s \in Sessions, SetupStep(s) \/ SetupFails(s) PROVE OneWorker'
  <2>1. Working(s) /\ tool' = tool
    BY <1>3 DEF SetupStep, SetupFails, Attach, FindNone, TakeModel, BeginDownload, CreateModelFile,
       FinishDownload, FindBinary, FindPort, At, Working
  <2>2. CASE SetupFails(s)
    BY <1>1, <2>1, <2>2, Effects, OneWorkerSession DEF Moves
  <2>3. CASE SetupStep(s)
    BY <1>1, <2>1, <2>3, Effects, OneWorkerSession DEF SetupStep, Moves
  <2> QED BY <1>3, <2>2, <2>3
<1>4. ASSUME NEW s \in Sessions, LaunchStep(s) \/ WriteFails(s) PROVE OneWorker'
  <2>1. Working(s) /\ tool' = tool
    BY <1>4 DEF LaunchStep, MakeWorld, Ask, ServerReady, NoAnswer, ServerTimesOut, TruncateState,
       FillState, WriteFails, At, Working
  <2> QED BY <1>1, <1>4, <2>1, Effects, OneWorkerSession DEF LaunchStep, Moves
<1>5. ASSUME NEW s \in Sessions, AgentExits(s) \/ ClearFile(s) \/ KillSession(s) PROVE OneWorker'
  <2>1. tool' = tool
    BY <1>5 DEF AgentExits, ClearFile, KillSession
  <2> QED BY <1>1, <1>5, <2>1, Effects, OneWorkerSession DEF Moves
<1>6. ASSUME NEW s \in Sessions, ServerStep(s) PROVE OneWorker'
  <2>1. UNCHANGED <<session, tool>>
    BY <1>6 DEF ServerStep, Bind, Load, Hang, Crash, ReusePid
  <2> QED BY <1>1, <2>1 DEF OneWorker, Working
<1>7. ASSUME NEW pc, StartTool(pc) PROVE OneWorker'
  <2>1. ~SomeoneWorks /\ session' = session
    BY <1>7 DEF StartTool, NoteOverlap
  <2> QED BY <2>1 DEF OneWorker, Working, SomeoneWorks
<1>8. CASE ToolStep
  <2>1. session' = session /\ tool.pc # "idle"
    BY <1>8 DEF ToolStep, Status, NothingToStop, Terminate, KillAndClear
  <2> QED BY <1>1, <2>1 DEF OneWorker, Working
<1>9. CASE UNCHANGED vars
  BY <1>1, <1>9 DEF OneWorker, Working, vars
<1> QED BY <1>2, <1>3, <1>4, <1>5, <1>6, <1>7, <1>8, <1>9 DEF Next

-----------------------------------------------------------------------------
(* KeptInv: a step that leaves no trouble on record keeps it, action by action. *)

\* The step leaves the file, or what it held did not matter to session t.
Unaware(t) == file' = file \/ (~At(t, "probe") /\ ~Kept(t))

\* Nobody is misled by a step that leaves the file.
LEMMA FileStays == file' = file => \A t \in Sessions : Unaware(t)
BY DEF Unaware

\* Another session that the step does not touch stays as it was, unless the file changes
\* under it while it looks at it or relies on it.
LEMMA OthersOwn ==
  \A t \in Sessions :
    /\ Own(t) /\ session'[t] = session[t] /\ server'[t] = server[t] /\ port'[t] = port[t]
    /\ Unaware(t)
    => Own(t)'
<1> SUFFICES ASSUME NEW t \in Sessions, Own(t), session'[t] = session[t],
                    server'[t] = server[t], port'[t] = port[t],
                    file' = file \/ (~At(t, "probe") /\ ~Kept(t))
             PROVE  Own(t)'
  BY DEF Unaware
<1>1. /\ At(t, "probe")' = At(t, "probe") /\ At(t, "clear")' = At(t, "clear")
      /\ session'[t].pc = session[t].pc
      /\ Running(t)' = Running(t) /\ Kept(t)' = Kept(t)
  BY DEF At, Running, Kept
<1>2. (At(t, "probe") => session[t].seen = ReadState)'
  BY <1>1 DEF Own, ReadState
<1>3. (Kept(t) => file = [kind |-> "state", pid |-> t, port |-> port[t]])'
  BY <1>1 DEF Own
<1>4. (server[t] = "zombie" => At(t, "clear"))' /\ (At(t, "clear") => ~Running(t))'
  BY <1>1 DEF Own
<1>5. (Running(t) /\ session[t].pc \notin {"wait", "ask"} => server[t] \in {"ready", "hung"})'
  BY <1>1 DEF Own
<1>6. /\ session'[t].pc \in {"idle", "probe", "model", "download", "fill", "binary"} =>
           ~session'[t].child
      /\ session'[t].pc \in {"wait", "ask", "truncate", "fillstate"} => session'[t].child
      /\ session'[t].pc \in {"wait", "ask", "truncate", "fillstate", "agent"}
           /\ session'[t].child => Running(t)'
  BY <1>1 DEF Own
<1> QED BY <1>2, <1>3, <1>4, <1>5, <1>6 DEF Own

\* The step of a session keeps KeptInv when it does so for its own state, changes the file
\* only while no other session probes or keeps a server, and keeps or starts no server
\* while another replaces one.
LEMMA SessionKeeps ==
  ASSUME TypeOK, NEW s \in Sessions, ToolSees, \A t \in Sessions : Own(t),
         \A t, u \in Sessions : Replaces(t) => ~Kept(u),
         \A t \in Sessions : t # s =>
           session'[t] = session[t] /\ server'[t] = server[t] /\ port'[t] = port[t],
         tool' = tool,
         file' = file \/ tool.pc = "idle", \A t \in Sessions : t # s => Unaware(t),
         Own(s)',
         Kept(s)' => Kept(s) \/ \A t \in Sessions : t # s => ~Replaces(t),
         Replaces(s)' => ~Kept(s)' /\ \A t \in Sessions : t # s => ~Kept(t)
  PROVE  KeptInv'
<1>1. \A t \in Sessions : t # s => Kept(t)' = Kept(t) /\ Replaces(t)' = Replaces(t)
  BY DEF Kept, Running, Replaces, At
<1>2. ToolSees'
  BY DEF ToolSees, ReadState
<1>3. \A t \in Sessions : Own(t)'
  <2> TAKE t \in Sessions
  <2>1. CASE t = s
    BY <2>1
  <2>2. CASE t # s
    <3>1. /\ Own(t)
          /\ session'[t] = session[t] /\ server'[t] = server[t] /\ port'[t] = port[t]
      BY <2>2
    <3>2. Unaware(t)
      BY <2>2
    <3> QED BY <3>1, <3>2, OthersOwn
  <2> QED BY <2>1, <2>2
<1>4. \A t, u \in Sessions : Replaces(t)' => ~Kept(u)'
  <2> TAKE t, u \in Sessions
  <2>1. CASE t = s /\ u = s
    BY <2>1
  <2>2. CASE t = s /\ u # s
    BY <1>1, <2>2
  <2>3. CASE t # s /\ u = s
    BY <1>1, <2>3
  <2>4. CASE t # s /\ u # s
    BY <1>1, <2>4
  <2> QED BY <2>1, <2>2, <2>3, <2>4
<1> QED BY <1>2, <1>3, <1>4 DEF KeptInv

\* A session that replaces a server is at work.
LEMMA ReplacesWorks ==
  ASSUME NEW s \in Sessions, Replaces(s)
  PROVE  Working(s)
  BY DEF Replaces, Working, At

\* Who works is alone with the file.
LEMMA Alone ==
  ASSUME OneWorker, trouble = {}, NEW s \in Sessions, Working(s)
  PROVE  /\ tool.pc = "idle"
         /\ \A t \in Sessions : t # s => ~Working(t) /\ ~At(t, "probe") /\ ~Replaces(t)
<1>1. tool.pc = "idle" /\ \A t \in Sessions : t # s => ~Working(t)
  BY DEF OneWorker
<1>2. \A t \in Sessions : t # s => ~At(t, "probe")
  BY <1>1 DEF Working, At
<1> QED BY <1>1, <1>2, ReplacesWorks

\* A server that nobody works on is up on its port.
LEMMA KeptIsReady ==
  ASSUME NEW t \in Sessions, Own(t), Kept(t)
  PROVE  server[t] \in {"ready", "hung"} /\ Alive(t) /\ Listening(port[t])
<1>1. server[t] \in {"ready", "hung"}
  BY DEF Own, Kept, At
<1> QED BY <1>1 DEF Alive, Listening

\* What confirms a state that was read confirms it of the server that is kept.
LEMMA KeptIsConfirmed ==
  ASSUME NEW t \in Sessions, Own(t), Kept(t)
  PROVE  /\ ReadState.kind = "state" /\ ReadState.pid = t
         /\ Confirmed(ReadState)
<1>1. ReadState = [kind |-> "state", pid |-> t, port |-> port[t]]
  BY DEF Own, ReadState
<1> QED BY <1>1, KeptIsReady DEF Confirmed

\* A step of the command keeps it when it leaves the sessions, and no session that has a
\* server loses sight of it.
LEMMA CommandKeeps ==
  ASSUME \A t, u \in Sessions : Replaces(t) => ~Kept(u),
         session' = session, ToolSees', \A t \in Sessions : Own(t)',
         \A t \in Sessions : Kept(t)' => Kept(t)
  PROVE  KeptInv'
<1>1. \A t \in Sessions : Replaces(t)' = Replaces(t)
  BY DEF Replaces, At
<1>2. \A t, u \in Sessions : Replaces(t)' => ~Kept(u)'
  BY <1>1
<1> QED BY <1>2 DEF KeptInv

\* A step of a session that has no server yet, from where it replaces one or to where it
\* does not, keeps it.
LEMMA SetupKeeps ==
  ASSUME TypeOK, NEW s \in Sessions, ToolSees, \A t \in Sessions : Own(t),
         \A t, u \in Sessions : Replaces(t) => ~Kept(u),
         NEW place, NEW seen, NEW model, NEW attached, NEW child,
         Becomes(s, place, seen, model, attached, child),
         UNCHANGED <<server, file, tool>>, server[s] = "none",
         \A t \in Sessions : t # s => port'[t] = port[t],
         place \in {"model", "download", "fill", "binary", "port", "world", "agent", "ended"},
         place \in {"model", "download", "fill", "binary", "agent"} => ~child,
         place \in {"agent", "ended"} \/ (place = "world" /\ ~child) \/ Replaces(s)
  PROVE  KeptInv'
<1>1. \A t \in Sessions : t # s =>
        session'[t] = session[t] /\ server'[t] = server[t] /\ port'[t] = port[t]
  BY DEF Becomes
<1>2. \A t \in Sessions : Unaware(t)
  BY FileStays
<1>3. session'[s].pc = place /\ session'[s].child = child /\ server'[s] = "none"
  BY DEF Becomes
<1>4. ~Kept(s)'
  BY <1>3 DEF Kept, Running
<1>5. Own(s)'
  BY <1>3 DEF Own, At, Running, Kept
<1>6. Replaces(s)' => Replaces(s)
  BY <1>3 DEF Replaces, At
<1>7. Replaces(s)' => ~Kept(s)' /\ \A t \in Sessions : t # s => ~Kept(t)
  BY <1>4, <1>6
<1>8. file' = file \/ tool.pc = "idle"
  OBVIOUS
<1>9. tool' = tool
  OBVIOUS
<1> QED BY <1>1, <1>2, <1>4, <1>5, <1>7, <1>8, <1>9, SessionKeeps

\* Every step keeps the servers in the file.
LEMMA KeptStep == TypeOK /\ Launched /\ OneWorker /\ KeptInv /\ [Next]_vars => KeptInv'
<1> SUFFICES ASSUME TypeOK, Launched, OneWorker, KeptInv, [Next]_vars, trouble' = {}
             PROVE  KeptInv'
  BY DEF KeptInv
<1>1. trouble = {}
  BY TroubleGrows
<1>2. /\ ToolSees /\ \A t \in Sessions : Own(t)
      /\ \A t, u \in Sessions : Replaces(t) => ~Kept(u)
  BY <1>1 DEF KeptInv
<1>3. \A s \in Sessions :
        session[s].pc \in {"idle", "probe", "model", "download", "fill", "binary", "port", "world"} =>
          server[s] = "none"
  BY DEF Launched
<1>4. \A s \in Sessions :
        session[s].pc \in {"idle", "probe", "model", "download", "fill", "binary"} =>
          ~session[s].child
  BY <1>2 DEF Own
<1>5. ASSUME NEW s \in Sessions, StartSession(s) PROVE KeptInv'
  <2>1. Becomes(s, "probe", ReadState, session[s].model, session[s].attached, session[s].child)
    BY <1>5, Effects
  <2>2. server[s] = "none" /\ ~session[s].child /\ UNCHANGED <<server, port, file, tool>>
    BY <1>3, <1>4, <1>5 DEF StartSession, At
  <2>3. /\ session'[s].pc = "probe" /\ session'[s].seen = ReadState /\ ~session'[s].child
        /\ server'[s] = "none" /\ ReadState' = ReadState
    BY <2>1, <2>2 DEF Becomes, ReadState
  <2>4. \A t \in Sessions : t # s =>
          session'[t] = session[t] /\ server'[t] = server[t] /\ port'[t] = port[t]
    BY <2>1, <2>2 DEF Becomes
  <2>5. \A t \in Sessions : Unaware(t)
    BY <2>2, FileStays
  <2>6. ~Kept(s)' /\ ~Replaces(s)'
    BY <2>3 DEF Kept, Running, Replaces, At
  <2>7. Own(s)'
    BY <2>3 DEF Own, At, Running, Kept
  <2>8. tool' = tool /\ file' = file
    BY <2>2
  <2> QED BY <1>2, <2>4, <2>5, <2>6, <2>7, <2>8, SessionKeeps
<1>6. ASSUME NEW s \in Sessions, Attach(s) PROVE KeptInv'
  <2>1. Becomes(s, "world", session[s].seen, session[s].model, TRUE, session[s].child)
    BY <1>6, Effects
  <2>2. server[s] = "none" /\ ~session[s].child /\ UNCHANGED <<server, file, tool>>
    BY <1>3, <1>4, <1>6 DEF Attach, At
  <2>3. \A t \in Sessions : t # s => port'[t] = port[t]
    BY <1>6 DEF Attach, TypeOK
  <2> QED BY <1>2, <2>1, <2>2, <2>3, SetupKeeps
<1>7. ASSUME NEW s \in Sessions, FindNone(s) PROVE KeptInv'
  <2>1. Moves(s, "model") /\ UNCHANGED <<server, port, tool>> /\ At(s, "probe")
    BY <1>7, Effects DEF FindNone
  <2>2. /\ session[s].seen = ReadState /\ Working(s) /\ ~Confirmed(session[s].seen)
        /\ server[s] = "none" /\ ~session[s].child
    BY <1>2, <1>3, <1>4, <1>7, <2>1 DEF FindNone, RemoveUnconfirmed, Own, Working, At
  <2>3. \A t \in Sessions : ~Kept(t)
    BY <1>2, <2>2, KeptIsConfirmed
  <2>4. tool.pc = "idle" /\ \A t \in Sessions : t # s => ~At(t, "probe")
    BY <1>1, <2>2, Alone
  <2>5. \A t \in Sessions : t # s => Unaware(t)
    BY <2>3, <2>4 DEF Unaware
  <2>6. \A t \in Sessions : t # s =>
          session'[t] = session[t] /\ server'[t] = server[t] /\ port'[t] = port[t]
    BY <2>1 DEF Moves, Becomes
  <2>7. session'[s].pc = "model" /\ ~session'[s].child /\ server'[s] = "none"
    BY <2>1, <2>2 DEF Moves, Becomes
  <2>8. ~Kept(s)' /\ Own(s)'
    BY <2>7 DEF Own, At, Running, Kept
  <2>9. tool' = tool
    BY <2>1
  <2> QED BY <1>2, <2>3, <2>4, <2>5, <2>6, <2>8, <2>9, SessionKeeps
<1>8. ASSUME NEW s \in Sessions, NEW m \in Models, TakeModel(s, m) \/ BeginDownload(s, m)
      PROVE  KeptInv'
  <2>1. /\ server[s] = "none" /\ ~session[s].child /\ UNCHANGED <<server, port, file, tool>>
        /\ Replaces(s)
    BY <1>3, <1>4, <1>8 DEF TakeModel, BeginDownload, Replaces, At
  <2>2. PICK place \in {"binary", "download"} :
          Becomes(s, place, session[s].seen, m, session[s].attached, session[s].child)
    BY <1>8, Effects
  <2> QED BY <1>2, <2>1, <2>2, SetupKeeps
<1>9. ASSUME NEW s \in Sessions, CreateModelFile(s) \/ FinishDownload(s) PROVE KeptInv'
  <2>1. /\ server[s] = "none" /\ ~session[s].child /\ UNCHANGED <<server, port, file, tool>>
        /\ Replaces(s)
    BY <1>3, <1>4, <1>9 DEF CreateModelFile, FinishDownload, Replaces, At
  <2>2. PICK place \in {"fill", "binary"} : Moves(s, place)
    BY <1>9, Effects
  <2> QED BY <1>2, <2>1, <2>2, SetupKeeps DEF Moves
<1>10. ASSUME NEW s \in Sessions, FindBinary(s) PROVE KeptInv'
  <2>1. server[s] = "none" /\ UNCHANGED <<server, port, file, tool>> /\ Replaces(s)
    BY <1>3, <1>10 DEF FindBinary, Replaces, At
  <2>2. PICK child \in BOOLEAN :
          Becomes(s, "port", session[s].seen, session[s].model, session[s].attached, child)
    BY <1>10, Effects
  <2> QED BY <1>2, <2>1, <2>2, SetupKeeps
<1>11. ASSUME NEW s \in Sessions, FindPort(s) PROVE KeptInv'
  <2>1. server[s] = "none" /\ UNCHANGED <<server, file, tool>> /\ Replaces(s)
    BY <1>3, <1>11 DEF FindPort, Replaces, At
  <2>2. \A t \in Sessions : t # s => port'[t] = port[t]
    BY <1>11, FreePort DEF TypeOK
  <2>3. Moves(s, "world")
    BY <1>11, Effects
  <2> QED BY <1>2, <2>1, <2>2, <2>3, SetupKeeps DEF Moves
<1>12. ASSUME NEW s \in Sessions, SetupFails(s) PROVE KeptInv'
  <2>1. server[s] = "none" /\ UNCHANGED <<server, port, file, tool>>
    BY <1>3, <1>12 DEF SetupFails
  <2>2. PICK place \in {"ended"} : Moves(s, place)
    BY <1>12, Effects
  <2> QED BY <1>2, <2>1, <2>2, SetupKeeps DEF Moves
<1>13. ASSUME NEW s \in Sessions, MakeWorld(s) PROVE KeptInv'
  <2>1. server[s] = "none" /\ At(s, "world") /\ UNCHANGED <<port, file, tool>>
    BY <1>3, <1>13 DEF MakeWorld, At
  <2>2. CASE session[s].child
    <3>1. Moves(s, "wait") /\ server' = [server EXCEPT ![s] = "starting"] /\ Replaces(s)
      BY <1>13, <2>1, <2>2, Effects DEF MakeWorld, Replaces
    <3>2. session'[s].pc = "wait" /\ session'[s].child /\ server'[s] = "starting"
      BY <2>2, <3>1 DEF Moves, Becomes, TypeOK
    <3>3. \A t \in Sessions : t # s =>
            session'[t] = session[t] /\ server'[t] = server[t] /\ port'[t] = port[t]
      BY <2>1, <3>1 DEF Moves, Becomes, TypeOK
    <3>4. \A t \in Sessions : Unaware(t)
      BY <2>1, FileStays
    <3>5. ~Kept(s)' /\ Own(s)'
      BY <3>2 DEF Own, At, Running, Kept
    <3>6. file' = file /\ tool' = tool
      BY <2>1
    <3> QED BY <1>2, <3>1, <3>3, <3>4, <3>5, <3>6, SessionKeeps
  <2>3. CASE ~session[s].child
    <3>1. PICK place \in {"agent"} : Moves(s, place)
      BY <1>13, <2>3, Effects
    <3>2. UNCHANGED <<server, port, file, tool>>
      BY <1>13, <2>1, <2>3 DEF MakeWorld
    <3> QED BY <1>2, <2>1, <2>3, <3>1, <3>2, SetupKeeps DEF Moves
  <2> QED BY <2>2, <2>3
<1>14. ASSUME NEW s \in Sessions, ServerReady(s) PROVE KeptInv'
  <2>1. Moves(s, "truncate") /\ UNCHANGED <<server, port, file, tool>> /\ At(s, "ask")
    BY <1>14, Effects DEF ServerReady
  <2>2. Replaces(s) /\ Working(s)
    BY <2>1 DEF Replaces, Working, At
  <2>3. PICK t \in Sessions : port[t] = port[s] /\ server[t] = "ready"
    BY <1>14 DEF ServerReady, Healthy
  <2>4. t = s
    <3> SUFFICES ASSUME t # s PROVE FALSE
      OBVIOUS
    <3>1. ~Working(t)
      BY <1>1, <2>2, Alone
    <3>2. Kept(t)
      BY <2>3, <3>1 DEF Kept, Running, Launched, Working
    <3> QED BY <1>2, <2>2, <3>2
  <2>5. /\ session'[s].pc = "truncate" /\ session'[s].child = session[s].child
        /\ server'[s] = "ready" /\ session[s].child
    BY <1>2, <2>1, <2>3, <2>4 DEF Moves, Becomes, Own, At
  <2>6. \A u \in Sessions : u # s =>
          session'[u] = session[u] /\ server'[u] = server[u] /\ port'[u] = port[u]
    BY <2>1 DEF Moves, Becomes
  <2>7. \A u \in Sessions : Unaware(u)
    BY <2>1, FileStays
  <2>8. ~Kept(s)' /\ Own(s)'
    BY <2>5 DEF Own, At, Running, Kept
  <2>9. file' = file /\ tool' = tool
    BY <2>1
  <2> QED BY <1>2, <2>2, <2>6, <2>7, <2>8, <2>9, SessionKeeps
<1>15. ASSUME NEW s \in Sessions, ServerTimesOut(s) PROVE KeptInv'
  <2>1. /\ At(s, "wait") /\ session[s].child /\ Running(s)
    BY <1>2, <1>15 DEF ServerTimesOut, Own, At
  <2>2. trouble' # {}
    BY <1>15, <2>1 DEF ServerTimesOut
  <2> QED BY <2>2
<1>28. ASSUME NEW s \in Sessions, Ask(s) \/ NoAnswer(s) PROVE KeptInv'
  <2>1. /\ UNCHANGED <<server, port, file, tool>> /\ session[s].pc \in {"wait", "ask"}
        /\ session[s].child /\ Running(s) /\ server[s] # "zombie"
    BY <1>2, <1>28 DEF Ask, NoAnswer, Own, At, Running
  <2>2. PICK place \in {"wait", "ask"} : Moves(s, place)
    BY <1>28, Effects
  <2>3. /\ session'[s].pc = place /\ session'[s].child /\ Running(s)'
        /\ server'[s] # "zombie"
    BY <2>1, <2>2 DEF Moves, Becomes, Running
  <2>4. \A t \in Sessions : t # s =>
          session'[t] = session[t] /\ server'[t] = server[t] /\ port'[t] = port[t]
    BY <2>1, <2>2 DEF Moves, Becomes
  <2>5. ~Kept(s)' /\ Own(s)'
    BY <2>3 DEF Own, At, Kept
  <2>6. Replaces(s)
    BY <2>1 DEF Replaces
  <2>7. \A t \in Sessions : Unaware(t)
    BY <2>1, FileStays
  <2>8. file' = file /\ tool' = tool
    BY <2>1
  <2> QED BY <1>2, <2>4, <2>5, <2>6, <2>7, <2>8, SessionKeeps
<1>29. ASSUME NEW s \in Sessions, WriteFails(s) PROVE KeptInv'
  BY <1>29 DEF WriteFails
<1>16. ASSUME NEW s \in Sessions, TruncateState(s) \/ FillState(s) PROVE KeptInv'
  <2>1. PICK place \in {"fillstate", "agent"} : Moves(s, place)
    BY <1>16, Effects
  <2>2. /\ UNCHANGED <<server, port, tool>> /\ session[s].pc \in {"truncate", "fillstate"}
        /\ place = "agent" => file' = [kind |-> "state", pid |-> s, port |-> port[s]]
    <3>1. CASE TruncateState(s)
      <4>1. place = "fillstate"
        BY <2>1, <3>1, Effects DEF Moves, Becomes
      <4> QED BY <3>1, <4>1 DEF TruncateState, At
    <3>2. CASE FillState(s)
      BY <3>2 DEF FillState, At
    <3> QED BY <1>16, <3>1, <3>2
  <2>3. Replaces(s) /\ Working(s)
    BY <2>2 DEF Replaces, Working
  <2>4. tool.pc = "idle" /\ \A t \in Sessions : t # s => ~At(t, "probe") /\ ~Replaces(t)
    BY <1>1, <2>3, Alone
  <2>5. \A t \in Sessions : t # s => Unaware(t)
    BY <1>2, <2>3, <2>4 DEF Unaware
  <2>6. \A t \in Sessions : t # s =>
          session'[t] = session[t] /\ server'[t] = server[t] /\ port'[t] = port[t]
    BY <2>1, <2>2 DEF Moves, Becomes
  <2>7. session[s].child /\ server[s] \in {"ready", "hung"}
    BY <1>2, <2>2 DEF Own, At
  <2>8. /\ session'[s].pc = place /\ session'[s].child /\ server'[s] \in {"ready", "hung"}
        /\ port'[s] = port[s]
    BY <2>1, <2>2, <2>7 DEF Moves, Becomes
  <2>9. Own(s)'
    BY <2>2, <2>8 DEF Own, At, Running, Kept
  <2>10. Replaces(s)' => ~Kept(s)'
    BY <2>8 DEF Replaces, Kept, At
  <2>11. tool' = tool
    BY <2>2
  <2> QED BY <1>2, <2>3, <2>4, <2>5, <2>6, <2>9, <2>10, <2>11, SessionKeeps
<1>17. ASSUME NEW s \in Sessions, AgentExits(s) PROVE KeptInv'
  <2>1. Moves(s, "ended") /\ At(s, "agent") /\ UNCHANGED <<port, file, tool>>
    BY <1>17, Effects DEF AgentExits
  <2>2. server' = server /\ server[s] # "zombie"
    BY <1>2, <1>17, <2>1 DEF AgentExits, Ended, Own, At
  <2>3. /\ session'[s].pc = "ended" /\ server'[s] = server[s]
        /\ port'[s] = port[s] /\ file' = file
    BY <2>1, <2>2 DEF Moves, Becomes
  <2>4. Running(s) =>
          server[s] \in {"ready", "hung"} /\ file = [kind |-> "state", pid |-> s, port |-> port[s]]
    BY <1>2, <2>1 DEF Own, Kept, At
  <2>5. Kept(s)' => Kept(s)
    BY <2>1, <2>3 DEF Kept, Running, At
  <2>6. Own(s)' /\ ~Replaces(s)'
    BY <2>2, <2>3, <2>4 DEF Own, At, Running, Kept, Replaces
  <2>7. \A t \in Sessions : t # s =>
          session'[t] = session[t] /\ server'[t] = server[t] /\ port'[t] = port[t]
    BY <2>1, <2>2 DEF Moves, Becomes
  <2>8. \A t \in Sessions : Unaware(t)
    BY <2>1, FileStays
  <2>9. tool' = tool
    BY <2>1
  <2> QED BY <1>2, <2>3, <2>5, <2>6, <2>7, <2>8, <2>9, SessionKeeps
<1>18. ASSUME NEW s \in Sessions, KillServer(s) PROVE KeptInv'
  <2>1. /\ Moves(s, "clear") /\ At(s, "agent") /\ UNCHANGED <<port, file, tool>>
        /\ session[s].child
    BY <1>18, Effects DEF KillServer
  <2>2. Running(s) /\ Kept(s)
    BY <1>2, <2>1 DEF Own, At, Kept
  <2>3. server' = [server EXCEPT ![s] = "zombie"]
    BY <1>18, <2>2 DEF KillServer
  <2>4. \A t \in Sessions : t # s => ~Kept(t)
    <3> SUFFICES ASSUME NEW t \in Sessions, Kept(t) PROVE t = s
      OBVIOUS
    <3>1. /\ file = [kind |-> "state", pid |-> s, port |-> port[s]]
          /\ file = [kind |-> "state", pid |-> t, port |-> port[t]]
      BY <1>2, <2>2 DEF Own
    <3>2. file.pid = s /\ file.pid = t
      BY <3>1
    <3> QED BY <3>2
  <2>5. session'[s].pc = "clear" /\ server'[s] = "zombie"
    BY <2>1, <2>3 DEF Moves, Becomes, TypeOK
  <2>6. ~Kept(s)' /\ Own(s)'
    BY <2>5 DEF Own, At, Running, Kept
  <2>7. \A t \in Sessions : t # s =>
          session'[t] = session[t] /\ server'[t] = server[t] /\ port'[t] = port[t]
    BY <2>1, <2>3 DEF Moves, Becomes, TypeOK
  <2>8. \A t \in Sessions : Unaware(t)
    BY <2>1, FileStays
  <2>9. file' = file /\ tool' = tool
    BY <2>1
  <2> QED BY <1>2, <2>4, <2>6, <2>7, <2>8, <2>9, SessionKeeps
<1>19. ASSUME NEW s \in Sessions, ClearFile(s) PROVE KeptInv'
  <2>1. Moves(s, "ended") /\ At(s, "clear") /\ UNCHANGED <<port, tool>> /\ Ended(s)
    BY <1>19, Effects DEF ClearFile
  <2>2. Replaces(s) /\ Working(s) /\ ~Running(s)
    BY <1>2, <2>1 DEF Replaces, Working, At, Own
  <2>3. tool.pc = "idle" /\ \A t \in Sessions : t # s => ~At(t, "probe") /\ ~Replaces(t)
    BY <1>1, <2>2, Alone
  <2>4. \A t \in Sessions : t # s => Unaware(t)
    BY <1>2, <2>2, <2>3 DEF Unaware
  <2>5. server'[s] \notin {"starting", "loading", "ready", "hung", "zombie"}
    BY <2>1, <2>2 DEF Ended, Running, TypeOK
  <2>6. session'[s].pc = "ended"
    BY <2>1 DEF Moves, Becomes
  <2>7. ~Kept(s)' /\ Own(s)' /\ ~Replaces(s)'
    BY <2>5, <2>6 DEF Own, At, Running, Kept, Replaces
  <2>8. \A t \in Sessions : t # s =>
          session'[t] = session[t] /\ server'[t] = server[t] /\ port'[t] = port[t]
    BY <2>1 DEF Moves, Becomes, Ended, TypeOK
  <2>9. tool' = tool
    BY <2>1
  <2> QED BY <1>2, <2>3, <2>4, <2>7, <2>8, <2>9, SessionKeeps
<1>20. ASSUME NEW s \in Sessions, KillSession(s) PROVE KeptInv'
  BY <1>20 DEF KillSession
<1>21. ASSUME NEW s \in Sessions, ServerStep(s) PROVE KeptInv'
  <2> DEFINE waits == session[s].pc \in {"wait", "ask"}
  <2>1. UNCHANGED <<port, file, session, tool>>
    BY <1>21 DEF ServerStep, Bind, Load, Hang, Crash, ReusePid
  <2>2. \A t \in Sessions : t # s => server'[t] = server[t]
    BY <1>21 DEF ServerStep, Bind, Load, Hang, Crash, ReusePid, Exit, TypeOK
  <2>3. Exit(s) => At(s, "ended") /\ server'[s] = "gone"
    BY DEF Exit, TypeOK
  <2>4. server[s] \in {"starting", "loading"} => waits
    BY <1>2 DEF Own, Running
  <2>5. \/ waits /\ Running(s) /\ server'[s] \in {"loading", "ready"}
        \/ Running(s) /\ server'[s] = "hung"
        \/ At(s, "ended") /\ Running(s) /\ server'[s] = "gone"
        \/ server[s] = "gone" /\ server'[s] = "reused"
    <3>1. ~(waits /\ At(s, "ended"))
      BY DEF At
    <3>2. CASE Bind(s)
      <4>1. waits /\ ~Exit(s) /\ Running(s)
        BY <2>3, <2>4, <3>1, <3>2 DEF Bind, Running
      <4> QED BY <3>2, <4>1 DEF Bind, TypeOK
    <3>3. CASE Load(s)
      <4>1. waits /\ ~Exit(s) /\ Running(s)
        BY <2>3, <2>4, <3>1, <3>3 DEF Load, Running
      <4> QED BY <3>3, <4>1 DEF Load, TypeOK
    <3>4. CASE Crash(s)
      BY <2>3, <3>4 DEF Crash, Running
    <3>5. CASE ReusePid(s)
      BY <3>5 DEF ReusePid, TypeOK
    <3>6. CASE Hang(s)
      BY <3>6 DEF Hang, Running, TypeOK
    <3> QED BY <1>21, <3>2, <3>3, <3>4, <3>5, <3>6 DEF ServerStep
  <2>6. Kept(s)' => Kept(s)
    BY <2>1, <2>5 DEF Kept, Running, At
  <2>7. Own(s)'
    <3>1. CASE waits /\ Running(s) /\ server'[s] \in {"loading", "ready"}
      BY <1>2, <2>1, <3>1 DEF Own, At, Running, Kept, ReadState
    <3>2. CASE At(s, "ended") /\ Running(s) /\ server'[s] = "gone"
      BY <1>2, <2>1, <3>2 DEF Own, At, Running, Kept, ReadState
    <3>3. CASE server[s] = "gone" /\ server'[s] = "reused"
      BY <1>2, <2>1, <3>3 DEF Own, At, Running, Kept, ReadState
    <3>4. CASE Running(s) /\ server'[s] = "hung"
      BY <1>2, <2>1, <3>4 DEF Own, At, Running, Kept, ReadState
    <3> QED BY <2>5, <3>1, <3>2, <3>3, <3>4
  <2>8. Replaces(s)' => Replaces(s)
    BY <2>1 DEF Replaces, At
  <2>9. Replaces(s)' => ~Kept(s)' /\ \A t \in Sessions : t # s => ~Kept(t)
    BY <1>2, <2>6, <2>8
  <2>10. \A t \in Sessions : Unaware(t)
    BY <2>1, FileStays
  <2>11. \A t \in Sessions : t # s =>
           session'[t] = session[t] /\ server'[t] = server[t] /\ port'[t] = port[t]
    BY <2>1, <2>2
  <2>12. file' = file /\ tool' = tool
    BY <2>1
  <2> QED BY <1>2, <2>6, <2>7, <2>9, <2>10, <2>11, <2>12, SessionKeeps
<1>22. ASSUME NEW pc \in {"status", "stop"}, StartTool(pc) PROVE KeptInv'
  <2>1. UNCHANGED <<server, port, file, session>> /\ tool' = [pc |-> pc, seen |-> ReadState]
    BY <1>22 DEF StartTool
  <2>2. ToolSees'
    BY <2>1 DEF ToolSees, ReadState
  <2>3. \A t \in Sessions : Unaware(t)
    BY <2>1, FileStays
  <2>4. \A t \in Sessions : Own(t)'
    BY <1>2, <2>1, <2>3, OthersOwn
  <2>5. \A t \in Sessions : Kept(t)' => Kept(t)
    BY <2>1 DEF Kept, Running
  <2> QED BY <1>2, <2>1, <2>2, <2>4, <2>5, CommandKeeps
<1>23. CASE Status \/ NothingToStop
  <2>1. /\ UNCHANGED <<server, port, session>> /\ tool'.pc = "idle" /\ tool.pc # "idle"
        /\ file' = file \/ (tool.seen.kind = "state" /\ ~Confirmed(tool.seen))
                        \/ (tool.seen.kind = "state" /\ ~Alive(tool.seen.pid))
    BY <1>23 DEF Status, NothingToStop, RemoveUnconfirmed, TypeOK
  <2>2. tool.seen = ReadState /\ \A t \in Sessions : ~Working(t)
    BY <1>1, <1>2, <2>1 DEF ToolSees, OneWorker
  <2>3. \A t \in Sessions : ~At(t, "probe")
    BY <2>2 DEF Working, At
  <2>4. file' = file \/ \A t \in Sessions : ~Kept(t)
    <3> SUFFICES ASSUME NEW t \in Sessions, Kept(t) PROVE file' = file
      OBVIOUS
    <3>1. Confirmed(tool.seen) /\ tool.seen.pid = t /\ Alive(t)
      BY <1>2, <2>2, KeptIsConfirmed, KeptIsReady
    <3> QED BY <2>1, <3>1
  <2>5. \A t \in Sessions : Unaware(t)
    BY <2>3, <2>4 DEF Unaware
  <2>6. \A t \in Sessions : Own(t)'
    BY <1>2, <2>1, <2>5, OthersOwn
  <2>7. \A t \in Sessions : Kept(t)' => Kept(t)
    BY <2>1 DEF Kept, Running
  <2>8. ToolSees'
    BY <2>1 DEF ToolSees
  <2> QED BY <1>2, <2>1, <2>6, <2>7, <2>8, CommandKeeps
<1>24. ASSUME NEW p \in Sessions, UNCHANGED session, Stopped(p),
              \A t \in Sessions : ~Working(t)
       PROVE  /\ \A t \in Sessions : t # p => server'[t] = server[t]
              /\ ~Running(p)' /\ Own(p)'
  <2>1. ~At(p, "probe")
    BY <1>24 DEF Working, At
  <2>2. CASE Running(p)
    <3>1. Exit(p)
      BY <1>24, <2>2 DEF Stopped, Running
    <3>2. At(p, "ended") /\ server' = [server EXCEPT ![p] = "gone"]
      BY <3>1 DEF Exit
    <3>3. server'[p] = "gone" /\ \A t \in Sessions : t # p => server'[t] = server[t]
      BY <3>2 DEF TypeOK
    <3>4. ~Running(p)'
      BY <3>3 DEF Running
    <3>5. Own(p)'
      BY <1>24, <3>2, <3>3 DEF Own, At, Running, Kept
    <3> QED BY <3>3, <3>4, <3>5
  <2>3. CASE ~Running(p)
    <3>1. /\ server'[p] = server[p] \/ server'[p] = "gone"
          /\ \A t \in Sessions : t # p => server'[t] = server[t]
      BY <1>24, <2>3 DEF Stopped, TypeOK
    <3>2. ~Running(p)'
      BY <2>3, <3>1 DEF Running
    <3>3. Own(p)'
      BY <1>2, <1>24, <2>1, <2>3, <3>1 DEF Own, At, Running, Kept
    <3> QED BY <3>1, <3>2, <3>3
  <2> QED BY <2>2, <2>3
<1>25. CASE Terminate
  <2> PICK p \in Sessions : p = tool.seen.pid
    <3>1. tool.seen.kind = "state" /\ tool.seen \in Files
      BY <1>2, <1>25 DEF Terminate, ToolSees, TypeOK, SeenFiles
    <3> QED BY <3>1, FileType
  <2>1. /\ UNCHANGED <<port, file, session>> /\ tool'.pc = "wait" /\ tool'.seen = tool.seen
        /\ tool.pc = "stop" /\ tool.seen.kind = "state"
        /\ Stopped(p) \/ server' = server
    BY <1>25 DEF Terminate, TypeOK
  <2>2. \A t \in Sessions : ~Working(t)
    BY <1>1, <2>1 DEF OneWorker
  <2>3. \A t \in Sessions : Unaware(t)
    BY <2>1, FileStays
  <2>4. ToolSees'
    BY <1>2, <2>1 DEF ToolSees, ReadState
  <2>5. CASE server' = server
    <3>1. \A t \in Sessions : Own(t)'
      BY <1>2, <2>1, <2>3, <2>5, OthersOwn
    <3>2. \A t \in Sessions : Kept(t)' => Kept(t)
      BY <2>1, <2>5 DEF Kept, Running
    <3> QED BY <1>2, <2>1, <2>4, <3>1, <3>2, CommandKeeps
  <2>6. CASE Stopped(p)
    <3>1. \A t \in Sessions : t # p => server'[t] = server[t]
      BY <1>24, <2>1, <2>2, <2>6
    <3>2. ~Running(p)' /\ Own(p)'
      BY <1>24, <2>1, <2>2, <2>6
    <3>3. \A t \in Sessions : Own(t)'
      <4> TAKE t \in Sessions
      <4>1. CASE t = p
        BY <3>2, <4>1
      <4>2. CASE t # p
        BY <1>2, <2>1, <2>3, <3>1, <4>2, OthersOwn
      <4> QED BY <4>1, <4>2
    <3>4. \A t \in Sessions : Kept(t)' => Kept(t)
      BY <2>1, <3>1, <3>2 DEF Kept, Running
    <3> QED BY <1>2, <2>1, <2>4, <3>3, <3>4, CommandKeeps
  <2> QED BY <2>1, <2>5, <2>6
<1>26. CASE KillAndClear
  <2> PICK p \in Sessions : p = tool.seen.pid
    <3>1. tool.seen.kind = "state" /\ tool.seen \in Files
      BY <1>2, <1>26 DEF KillAndClear, ToolSees, TypeOK, SeenFiles
    <3> QED BY <3>1, FileType
  <2>1. /\ UNCHANGED <<port, session>> /\ tool'.pc = "idle" /\ tool.pc = "wait" /\ Stopped(p)
        /\ tool.seen = ReadState /\ tool.seen.kind = "state"
    BY <1>2, <1>26 DEF KillAndClear, ToolSees, TypeOK
  <2>2. \A t \in Sessions : ~Working(t)
    BY <1>1, <2>1 DEF OneWorker
  <2>3. \A t \in Sessions : t # p => ~Kept(t)
    BY <1>2, <2>1, KeptIsConfirmed
  <2>4. \A t \in Sessions : t # p => Unaware(t)
    BY <2>2, <2>3 DEF Unaware, Working, At
  <2>5. \A t \in Sessions : t # p => server'[t] = server[t]
    BY <1>24, <2>1, <2>2
  <2>6. ~Running(p)' /\ Own(p)'
    BY <1>24, <2>1, <2>2
  <2>7. \A t \in Sessions : Own(t)'
    <3> TAKE t \in Sessions
    <3>1. CASE t = p
      BY <2>6, <3>1
    <3>2. CASE t # p
      BY <1>2, <2>1, <2>4, <2>5, <3>2, OthersOwn
    <3> QED BY <3>1, <3>2
  <2>8. \A t \in Sessions : Kept(t)' => Kept(t)
    BY <2>1, <2>5, <2>6 DEF Kept, Running
  <2>9. ToolSees'
    BY <2>1 DEF ToolSees
  <2> QED BY <1>2, <2>1, <2>7, <2>8, <2>9, CommandKeeps
<1>27. CASE UNCHANGED vars
  <2>1. ToolSees'
    BY <1>2, <1>27 DEF ToolSees, ReadState, vars
  <2>2. \A t \in Sessions : Unaware(t)
    BY <1>27, FileStays DEF vars
  <2>3. \A t \in Sessions : Own(t)'
    BY <1>2, <1>27, <2>2, OthersOwn DEF vars
  <2>4. \A t \in Sessions : Kept(t)' => Kept(t)
    BY <1>27 DEF Kept, Running, vars
  <2> QED BY <1>2, <1>27, <2>1, <2>3, <2>4, CommandKeeps DEF vars
<1> QED
  BY <1>5, <1>6, <1>7, <1>8, <1>9, <1>10, <1>11, <1>12, <1>13, <1>14, <1>15, <1>16, <1>17,
     <1>18, <1>19, <1>20, <1>21, <1>22, <1>23, <1>25, <1>26, <1>27, <1>28, <1>29
  DEF Next, SetupStep, LaunchStep, ToolStep

-----------------------------------------------------------------------------
(* ModelInv: a step that leaves no download cut short keeps it. *)

\* A model that is there in part is being downloaded.
Filled ==
  \A m \in Models :
    disk[m] = "partial" => \E s \in Sessions : At(s, "fill") /\ session[s].model = m

\* A step of a session that fills no model, and leaves the disk.
LEMMA ModelSession ==
  ASSUME Filled, \A t \in Sessions : KnowsModel(t), NEW s \in Sessions, ~At(s, "fill"),
         NEW place, NEW seen, NEW model, NEW attached, NEW child,
         Becomes(s, place, seen, model, attached, child), UNCHANGED <<disk, writer>>,
         \A t \in Sessions : t # s => server'[t] = server[t],
         KnowsModel(s)'
  PROVE  ModelInv'
<1>1. \A t \in Sessions : t # s => session'[t] = session[t]
  BY DEF Becomes
<1>2. \A t \in Sessions : KnowsModel(t)'
  <2> TAKE t \in Sessions
  <2>1. CASE t = s
    BY <2>1
  <2>2. CASE t # s
    <3>1. KnowsModel(t) /\ session'[t] = session[t] /\ server'[t] = server[t]
      BY <1>1, <2>2
    <3> QED BY <3>1 DEF KnowsModel, At, Running
  <2> QED BY <2>1, <2>2
<1>3. ASSUME NEW m \in Models, disk'[m] = "partial"
      PROVE  \E t \in Sessions : At(t, "fill")' /\ session'[t].model = m
  <2>1. PICK t \in Sessions : At(t, "fill") /\ session[t].model = m
    BY <1>3 DEF Filled
  <2>2. t # s
    BY <2>1
  <2> QED BY <1>1, <2>1, <2>2 DEF At
<1> QED BY <1>2, <1>3 DEF ModelInv

\* A step that leaves the sessions and the disk, and starts no server.
LEMMA ModelServer ==
  ASSUME Filled, \A t \in Sessions : KnowsModel(t), UNCHANGED <<session, disk, writer>>,
         \A t \in Sessions : Running(t)' => Running(t)
  PROVE  ModelInv'
<1>1. \A t \in Sessions : KnowsModel(t)'
  BY DEF KnowsModel, At
<1>2. Filled'
  BY DEF Filled, At
<1> QED BY <1>1, <1>2 DEF ModelInv, Filled

\* Every step keeps the models of the servers whole.
LEMMA ModelStep == TypeOK /\ Launched /\ OneWorker /\ ModelInv /\ [Next]_vars => ModelInv'
<1> SUFFICES ASSUME TypeOK, Launched, OneWorker, ModelInv, [Next]_vars, Undisturbed'
             PROVE  ModelInv'
  BY DEF ModelInv
<1>1. Undisturbed /\ "overlap" \notin trouble
  BY TroubleGrows DEF Undisturbed
<1>2. Filled /\ \A t \in Sessions : KnowsModel(t)
  BY <1>1 DEF ModelInv, Filled
<1>3. \A s \in Sessions :
        session[s].pc \in {"idle", "probe", "model", "download", "fill", "binary", "port", "world"} =>
          server[s] = "none"
  BY DEF Launched
<1>4. \A s, t \in Sessions : Working(s) /\ Working(t) => s = t
  BY <1>1 DEF OneWorker
<1>5. ASSUME NEW s \in Sessions, StartSession(s) PROVE ModelInv'
  <2>1. Becomes(s, "probe", ReadState, session[s].model, session[s].attached, session[s].child)
    BY <1>5, Effects
  <2>2. /\ server[s] = "none" /\ ~session[s].child /\ UNCHANGED <<server, disk, writer>>
        /\ ~At(s, "fill")
    BY <1>2, <1>3, <1>5 DEF StartSession, KnowsModel, At
  <2>3. KnowsModel(s)'
    BY <2>1, <2>2 DEF KnowsModel, At, Running, Becomes
  <2> QED BY <1>2, <2>1, <2>2, <2>3, ModelSession
<1>6. ASSUME NEW s \in Sessions, Attach(s) PROVE ModelInv'
  <2>1. Becomes(s, "world", session[s].seen, session[s].model, TRUE, session[s].child)
    BY <1>6, Effects
  <2>2. /\ server[s] = "none" /\ ~session[s].child /\ UNCHANGED <<server, disk, writer>>
        /\ ~At(s, "fill")
    BY <1>2, <1>3, <1>6 DEF Attach, KnowsModel, At
  <2>3. KnowsModel(s)'
    BY <2>1, <2>2 DEF KnowsModel, At, Running, Becomes
  <2> QED BY <1>2, <2>1, <2>2, <2>3, ModelSession
<1>7. ASSUME NEW s \in Sessions, FindNone(s) PROVE ModelInv'
  <2>1. /\ Moves(s, "model") /\ server[s] = "none" /\ UNCHANGED <<server, disk, writer>>
        /\ ~At(s, "fill")
    BY <1>3, <1>7, Effects DEF FindNone, At
  <2>2. KnowsModel(s)'
    BY <2>1 DEF KnowsModel, At, Running, Becomes, Moves
  <2> QED BY <1>2, <2>1, <2>2, ModelSession DEF Moves
<1>8. ASSUME NEW s \in Sessions, NEW m \in Models, TakeModel(s, m) PROVE ModelInv'
  <2>1. Becomes(s, "binary", session[s].seen, m, session[s].attached, session[s].child)
    BY <1>8, Effects
  <2>2. /\ server[s] = "none" /\ UNCHANGED <<server, disk, writer>> /\ ~At(s, "fill")
        /\ Working(s) /\ disk[m] # "absent"
    BY <1>3, <1>8 DEF TakeModel, At, Working
  <2>3. disk[m] # "partial"
    <3> SUFFICES ASSUME disk[m] = "partial" PROVE FALSE
      OBVIOUS
    <3>1. PICK t \in Sessions : At(t, "fill")
      BY <1>2 DEF Filled
    <3>2. Working(t) /\ t # s
      BY <2>2, <3>1 DEF Working, At
    <3> QED BY <1>4, <2>2, <3>2
  <2>4. disk'[m] = "whole"
    BY <2>2, <2>3 DEF TypeOK
  <2>5. KnowsModel(s)'
    BY <2>1, <2>2, <2>4 DEF KnowsModel, At, Running, Becomes
  <2> QED BY <1>2, <2>1, <2>2, <2>5, ModelSession
<1>9. ASSUME NEW s \in Sessions, NEW m \in Models, BeginDownload(s, m) PROVE ModelInv'
  <2>1. Becomes(s, "download", session[s].seen, m, session[s].attached, session[s].child)
    BY <1>9, Effects
  <2>2. /\ server[s] = "none" /\ UNCHANGED <<server, disk, writer>> /\ ~At(s, "fill")
        /\ disk[m] = "absent"
    BY <1>3, <1>9 DEF BeginDownload, At
  <2>3. KnowsModel(s)'
    BY <2>1, <2>2 DEF KnowsModel, At, Running, Becomes
  <2> QED BY <1>2, <2>1, <2>2, <2>3, ModelSession
<1>10. ASSUME NEW s \in Sessions, CreateModelFile(s) PROVE ModelInv'
  <2> DEFINE m == session[s].model
  <2>1. /\ Moves(s, "fill") /\ At(s, "download") /\ Working(s) /\ server' = server
        /\ disk' = [disk EXCEPT ![m] = "partial"] /\ writer' = [writer EXCEPT ![m] = s]
    BY <1>10, Effects DEF CreateModelFile, Working, At
  <2>2. m \in Models /\ disk[m] = "absent" /\ server[s] = "none"
    BY <1>2, <1>3, <2>1 DEF KnowsModel, At
  <2>3. /\ disk'[m] = "partial" /\ writer'[m] = s
        /\ \A n \in Models : n # m => disk'[n] = disk[n] /\ writer'[n] = writer[n]
    BY <2>1, <2>2 DEF TypeOK
  <2>4. /\ session'[s].pc = "fill" /\ session'[s].model = m
        /\ \A t \in Sessions : t # s => session'[t] = session[t]
    BY <2>1 DEF Moves, Becomes
  <2> HIDE DEF m
  <2>5. ASSUME NEW t \in Sessions PROVE KnowsModel(t)'
    <3>1. CASE t = s
      BY <2>1, <2>2, <2>3, <2>4, <3>1 DEF KnowsModel, At, Running
    <3>2. CASE t # s
      <4>1. KnowsModel(t) /\ session'[t] = session[t] /\ server'[t] = server[t]
        BY <1>2, <2>1, <2>4, <3>2
      <4>2. ~Working(t)
        BY <1>4, <2>1, <3>2
      <4>3. ~At(t, "download") /\ ~At(t, "fill") /\ ~At(t, "world")
            /\ session[t].pc \notin {"binary", "port", "wait", "ask"}
        BY <4>2 DEF Working, At
      <4>4. Running(t) => session[t].model \in Models /\ disk'[session[t].model] = "whole"
        BY <2>2, <2>3, <4>1 DEF KnowsModel
      <4> QED BY <4>1, <4>3, <4>4 DEF KnowsModel, At, Running
    <3> QED BY <3>1, <3>2
  <2>6. ASSUME NEW n \in Models, disk'[n] = "partial"
        PROVE  \E t \in Sessions : At(t, "fill")' /\ session'[t].model = n
    <3>1. CASE n = m
      BY <2>4, <3>1 DEF At
    <3>2. CASE n # m
      <4>1. PICK t \in Sessions : At(t, "fill")
        BY <1>2, <2>3, <2>6, <3>2 DEF Filled
      <4>2. Working(t) /\ t # s
        BY <2>1, <4>1 DEF Working, At
      <4> QED BY <1>4, <2>1, <4>2
    <3> QED BY <3>1, <3>2
  <2> QED BY <2>5, <2>6 DEF ModelInv
<1>11. ASSUME NEW s \in Sessions, FinishDownload(s) PROVE ModelInv'
  <2> DEFINE m == session[s].model
  <2>1. /\ Moves(s, "binary") /\ At(s, "fill") /\ Working(s) /\ UNCHANGED <<server, writer>>
        /\ writer[m] = s /\ m \in Models /\ server[s] = "none"
    BY <1>2, <1>3, <1>11, Effects DEF FinishDownload, Working, At, KnowsModel
  <2>2. disk' = [disk EXCEPT ![m] = "whole"]
    BY <1>11, <2>1 DEF FinishDownload
  <2>3. disk'[m] = "whole" /\ \A n \in Models : n # m => disk'[n] = disk[n]
    BY <2>1, <2>2 DEF TypeOK
  <2>4. /\ session'[s].pc = "binary" /\ session'[s].model = m
        /\ session'[s].child = session[s].child
        /\ \A t \in Sessions : t # s => session'[t] = session[t]
    BY <2>1 DEF Moves, Becomes
  <2> HIDE DEF m
  <2>5. ASSUME NEW t \in Sessions PROVE KnowsModel(t)'
    <3>1. CASE t = s
      BY <2>1, <2>3, <2>4, <3>1 DEF KnowsModel, At, Running
    <3>2. CASE t # s
      <4>1. KnowsModel(t) /\ session'[t] = session[t] /\ server'[t] = server[t]
        BY <1>2, <2>1, <2>4, <3>2
      <4>2. ~Working(t)
        BY <1>4, <2>1, <3>2
      <4>3. ~At(t, "download") /\ ~At(t, "fill") /\ ~At(t, "world")
            /\ session[t].pc \notin {"binary", "port", "wait", "ask"}
        BY <4>2 DEF Working, At
      <4>4. Running(t) => session[t].model \in Models /\ disk'[session[t].model] = "whole"
        BY <2>3, <4>1 DEF KnowsModel
      <4> QED BY <4>1, <4>3, <4>4 DEF KnowsModel, At, Running
    <3> QED BY <3>1, <3>2
  <2>6. ASSUME NEW n \in Models PROVE disk'[n] # "partial"
    <3> SUFFICES ASSUME disk'[n] = "partial" PROVE FALSE
      OBVIOUS
    <3>1. PICK t \in Sessions : At(t, "fill") /\ session[t].model = n
      BY <1>2, <2>3 DEF Filled
    <3>2. Working(t)
      BY <3>1 DEF Working, At
    <3>3. t = s
      BY <1>4, <2>1, <3>2
    <3> QED BY <2>3, <3>1, <3>3 DEF m
  <2> QED BY <2>5, <2>6 DEF ModelInv
<1>12. ASSUME NEW s \in Sessions, FindBinary(s) PROVE ModelInv'
  <2>1. PICK child \in BOOLEAN :
          Becomes(s, "port", session[s].seen, session[s].model, session[s].attached, child)
    BY <1>12, Effects
  <2>2. /\ server[s] = "none" /\ UNCHANGED <<server, disk, writer>> /\ ~At(s, "fill")
        /\ session[s].model \in Models /\ disk[session[s].model] = "whole"
    BY <1>2, <1>3, <1>12 DEF FindBinary, At, KnowsModel
  <2>3. KnowsModel(s)'
    BY <2>1, <2>2 DEF KnowsModel, At, Running, Becomes
  <2> QED BY <1>2, <2>1, <2>2, <2>3, ModelSession
<1>13. ASSUME NEW s \in Sessions, FindPort(s) PROVE ModelInv'
  <2>1. /\ Moves(s, "world") /\ server[s] = "none" /\ UNCHANGED <<server, disk, writer>>
        /\ ~At(s, "fill") /\ session[s].model \in Models /\ disk[session[s].model] = "whole"
    BY <1>2, <1>3, <1>13, Effects DEF FindPort, At, KnowsModel
  <2>2. KnowsModel(s)'
    BY <2>1 DEF KnowsModel, At, Running, Becomes, Moves
  <2> QED BY <1>2, <2>1, <2>2, ModelSession DEF Moves
<1>14. ASSUME NEW s \in Sessions, SetupFails(s) PROVE ModelInv'
  <2>1. /\ Moves(s, "ended") /\ server[s] = "none" /\ UNCHANGED <<server, disk, writer>>
        /\ ~At(s, "fill")
    BY <1>3, <1>14, Effects DEF SetupFails, Undisturbed
  <2>2. KnowsModel(s)'
    BY <2>1 DEF KnowsModel, At, Running, Becomes, Moves
  <2> QED BY <1>2, <2>1, <2>2, ModelSession DEF Moves
<1>15. ASSUME NEW s \in Sessions, MakeWorld(s) PROVE ModelInv'
  <2>1. /\ UNCHANGED <<disk, writer>> /\ ~At(s, "fill") /\ server[s] = "none"
        /\ \A t \in Sessions : t # s => server'[t] = server[t]
        /\ ~session[s].child => server' = server
    BY <1>3, <1>15 DEF MakeWorld, At, TypeOK
  <2>2. session[s].child => session[s].model \in Models /\ disk[session[s].model] = "whole"
    BY <1>2, <1>15 DEF MakeWorld, KnowsModel
  <2>3. PICK place \in {"wait", "agent"} :
          /\ Moves(s, place)
          /\ place = "wait" => session[s].child
          /\ place = "agent" => ~session[s].child
    BY <1>15, Effects
  <2>4. KnowsModel(s)'
    <3>1. CASE place = "wait"
      BY <2>1, <2>2, <2>3, <3>1 DEF KnowsModel, At, Becomes, Moves
    <3>2. CASE place = "agent"
      BY <2>1, <2>3, <3>2 DEF KnowsModel, At, Running, Becomes, Moves
    <3> QED BY <3>1, <3>2
  <2> QED BY <1>2, <2>1, <2>3, <2>4, ModelSession DEF Moves
<1>16. ASSUME NEW s \in Sessions,
              \/ ServerReady(s) \/ ServerTimesOut(s) \/ TruncateState(s) \/ FillState(s)
              \/ WriteFails(s) \/ AgentExits(s) \/ KillServer(s) \/ ClearFile(s)
       PROVE  ModelInv'
  <2>1. /\ UNCHANGED <<disk, writer>> /\ ~At(s, "fill")
        /\ \A t \in Sessions : t # s => server'[t] = server[t]
        /\ Running(s)' => Running(s)
    BY <1>16 DEF ServerReady, ServerTimesOut, TruncateState, FillState, WriteFails, AgentExits,
       KillServer, ClearFile, Ended, Running, At, TypeOK
  <2>2. PICK place \in {"truncate", "agent", "fillstate", "ended", "clear"}, child \in BOOLEAN :
          Becomes(s, place, session[s].seen, session[s].model, session[s].attached, child)
    BY <1>16, SessionParts, Effects DEF Moves
  <2>3. KnowsModel(s)'
    <3>1. session'[s].pc = place /\ session'[s].model = session[s].model
      BY <2>2 DEF Becomes
    <3>2. Running(s)' => session[s].model \in Models /\ disk[session[s].model] = "whole"
      BY <1>2, <2>1 DEF KnowsModel
    <3> QED BY <2>1, <3>1, <3>2 DEF KnowsModel, At
  <2> QED BY <1>2, <2>1, <2>2, <2>3, ModelSession
<1>22. ASSUME NEW s \in Sessions, Ask(s) \/ NoAnswer(s) PROVE ModelInv'
  <2>1. /\ UNCHANGED <<server, disk, writer>> /\ ~At(s, "fill")
        /\ session[s].model \in Models /\ disk[session[s].model] = "whole"
    BY <1>2, <1>22 DEF Ask, NoAnswer, KnowsModel, At
  <2>2. PICK place \in {"wait", "ask"} : Moves(s, place)
    BY <1>22, Effects
  <2>3. KnowsModel(s)'
    BY <2>1, <2>2 DEF KnowsModel, At, Becomes, Moves
  <2> QED BY <1>2, <2>1, <2>2, <2>3, ModelSession DEF Moves
<1>17. ASSUME NEW s \in Sessions, KillSession(s) PROVE ModelInv'
  BY <1>17 DEF KillSession, Undisturbed
<1>18. ASSUME NEW s \in Sessions, ServerStep(s) PROVE ModelInv'
  <2>1. UNCHANGED <<session, disk, writer>>
    BY <1>18 DEF ServerStep, Bind, Load, Hang, Crash, ReusePid
  <2>2. \A t \in Sessions : Running(t)' => Running(t)
    <3>1. \A t \in Sessions : t # s => server'[t] = server[t]
      BY <1>18 DEF ServerStep, Bind, Load, Hang, Crash, ReusePid, Exit, TypeOK
    <3>2. Running(s)' => Running(s)
      BY <1>18 DEF ServerStep, Bind, Load, Hang, Crash, ReusePid, Running, TypeOK
    <3> QED BY <3>1, <3>2 DEF Running
  <2> QED BY <1>2, <2>1, <2>2, ModelServer
<1>19. ASSUME NEW pc, StartTool(pc) PROVE ModelInv'
  BY <1>2, <1>19, ModelServer DEF StartTool, Running
<1>20. CASE ToolStep
  <2>1. UNCHANGED <<session, disk, writer>>
    BY <1>20 DEF ToolStep, Status, NothingToStop, Terminate, KillAndClear
  <2>2. CASE server' = server
    BY <1>2, <2>1, <2>2, ModelServer DEF Running
  <2>3. CASE Stopped(tool.seen.pid)
    <3>1. \A t \in Sessions : Running(t)' => Running(t)
      BY <2>3 DEF Stopped, Running, Exit, TypeOK
    <3> QED BY <1>2, <2>1, <3>1, ModelServer
  <2> QED BY <1>20, <2>2, <2>3 DEF ToolStep, Status, NothingToStop, Terminate, KillAndClear
<1>21. CASE UNCHANGED vars
  BY <1>2, <1>21, ModelServer DEF vars, Running
<1> QED
  BY <1>5, <1>6, <1>7, <1>8, <1>9, <1>10, <1>11, <1>12, <1>13, <1>14, <1>15, <1>16, <1>17,
     <1>18, <1>19, <1>20, <1>21, <1>22
  DEF Next, SetupStep, LaunchStep

-----------------------------------------------------------------------------
(* The theorems. *)

\* Before the first session there is no server, no file and no download.
LEMMA InitHolds == Init => TypeOK /\ Launched /\ OneWorker /\ KeptInv /\ ModelInv
<1> SUFFICES ASSUME Init PROVE TypeOK /\ Launched /\ OneWorker /\ KeptInv /\ ModelInv
  OBVIOUS
<1>1. \A s \in Sessions :
        /\ session[s].pc = "idle" /\ ~session[s].child /\ session[s].seen = NoFile
        /\ server[s] = "none"
  BY DEF Init
<1>2. TypeOK
  <2>1. session \in [Sessions -> SessionState]
    <3>1. NoFile \in SeenFiles /\ "idle" \in Places
      BY FileType DEF SeenFiles, Places
    <3> QED BY <3>1 DEF Init, SessionState
  <2>2. file \in Files /\ tool \in [pc : {"idle", "status", "stop", "wait"}, seen : SeenFiles]
    BY FileType DEF Init, SeenFiles
  <2>3. /\ server \in [Sessions -> ServerStates]
        /\ port \in [Sessions -> Ports \union {NoPort}]
        /\ disk \in [Models -> {"absent", "partial", "whole"}]
        /\ writer \in [Models -> Sessions \union {NoSession}]
        /\ tools \in 0..MaxTools
        /\ trouble \subseteq Troubles
    BY LocalModelAssumption DEF Init, ServerStates, Troubles
  <2> QED BY <1>1, <2>1, <2>2, <2>3 DEF TypeOK
<1>3. Launched
  BY <1>1 DEF Launched
<1>4. OneWorker
  BY <1>1 DEF OneWorker, Working, Init
<1>5. KeptInv
  <2>1. ToolSees
    BY DEF ToolSees, Init
  <2>2. \A s \in Sessions : Own(s) /\ ~Replaces(s)
    BY <1>1 DEF Own, Replaces, At, Running, Kept
  <2> QED BY <2>1, <2>2 DEF KeptInv
<1>6. ModelInv
  <2>1. \A s \in Sessions : KnowsModel(s)
    BY <1>1 DEF KnowsModel, At, Running
  <2>2. \A m \in Models : disk[m] # "partial"
    BY DEF Init
  <2> QED BY <2>1, <2>2 DEF ModelInv
<1> QED BY <1>2, <1>3, <1>4, <1>5, <1>6

\* The state of the local models, the sessions that use them, their servers and the file that
\* names one stays well typed, whatever crashes, overlaps or is killed; and a session that
\* starts a server has a port for it.
THEOREM LocalModelTypeCorrect == Spec => []TypeOK
<1>1. Init => TypeOK
  BY InitHolds
<1> QED BY <1>1, TypeStep, PTL DEF Spec

\* The invariant of all of it.
LEMMA SessionsInvariant ==
  Spec => [](TypeOK /\ Launched /\ OneWorker /\ KeptInv /\ ModelInv)
<1>1. TypeOK /\ Launched /\ OneWorker /\ KeptInv /\ ModelInv /\ [Next]_vars =>
        (TypeOK /\ Launched /\ OneWorker /\ KeptInv /\ ModelInv)'
  BY TypeStep, LaunchedStep, OneWorkerStep, KeptStep, ModelStep
<1> QED BY <1>1, InitHolds, PTL DEF Spec

\* For any number of sessions, models and ports: as long as none of the troubles listed in
\* LocalModel has happened, a server that outlives its session's work on it is the one that
\* .ygg/llama-server.pid names (local.rs:100-156, run.rs:159-188).
THEOREM KeptServersAreKnown == Spec => []KeptIsKnown
<1>1. KeptInv => KeptIsKnown
  BY DEF KeptInv, KeptIsKnown, Own
<1> QED BY <1>1, SessionsInvariant, PTL

\* A server never runs on a model in parts unless a download was cut short, killed or raced
\* (local.rs:364-405).
THEOREM WholeModelsOnly == Spec => []UsesWholeModel
<1>1. ModelInv => UsesWholeModel
  BY DEF ModelInv, UsesWholeModel, KnowsModel
<1> QED BY <1>1, SessionsInvariant, PTL

-----------------------------------------------------------------------------
(* The rules that `ygg run` puts into the world (step 5 of run.rs), see Laws: what   *)
(* ReportsOwnWorld says, for any number of worlds.                                  *)
CONSTANTS Worlds, Branches, Trunk, NoName
VARIABLES main, tip, world, on, there, clean, merged

Rules == INSTANCE Laws

\* What the files of a directory or a commit hold, file by file (laws.rs:28-139).
LEMMA FilesByKind ==
  ASSUME NEW f
  PROVE  Rules!IsFiles(f) <=>
           /\ f = [k \in Rules!Kinds |-> f[k]]
           /\ f["claude"] \in Worlds \union {NoName, Rules!UsersText}
           /\ f["hook"] \in Worlds \union {NoName, Rules!AsksClaude}
           /\ f["settings"] \in Worlds \union {NoName, Rules!MainHook}
           /\ f["stubs"] \in Worlds \union {NoName}
<1>1. /\ Rules!Other("claude") = {NoName, Rules!UsersText}
      /\ Rules!Other("hook") = {NoName, Rules!AsksClaude}
      /\ Rules!Other("settings") = {NoName, Rules!MainHook}
      /\ Rules!Other("stubs") = {NoName}
  BY DEF Rules!Other
<1>2. Rules!Kinds = {"claude", "hook", "settings", "stubs"}
  BY DEF Rules!Kinds
<1>3. (\A k \in Rules!Kinds : f[k] \in Worlds \union Rules!Other(k)) <=>
        /\ f["claude"] \in Worlds \union Rules!Other("claude")
        /\ f["hook"] \in Worlds \union Rules!Other("hook")
        /\ f["settings"] \in Worlds \union Rules!Other("settings")
        /\ f["stubs"] \in Worlds \union Rules!Other("stubs")
  BY <1>2
<1> QED BY <1>1, <1>3 DEF Rules!IsFiles

\* Files of which each is from one of two directories or commits are files again.
LEMMA FilesMixed ==
  ASSUME NEW f, NEW g, NEW h, Rules!IsFiles(f), Rules!IsFiles(g),
         h = [k \in Rules!Kinds |-> h[k]], \A k \in Rules!Kinds : h[k] \in {f[k], g[k]}
  PROVE  Rules!IsFiles(h)
BY DEF Rules!IsFiles

\* Every step of `ygg init`, the user, the agents and git keeps what the hooks rely on:
\* the files of a world come from a branch or are written for it (laws.rs:28-139).
LEMMA LawsStep == ASSUME Rules!NamesDiffer, Rules!LawsInv, Rules!Next PROVE Rules!LawsInv'
<1> USE DEF Rules!LawsInv
<1>k. {"claude", "hook", "settings", "stubs"} = Rules!Kinds
  BY DEF Rules!Kinds
<1>t. /\ Rules!IsFiles(main) /\ \A b \in Rules!Refs : Rules!IsFiles(tip[b])
      /\ \A w \in Worlds : Rules!IsFiles(world[w])
  BY DEF Rules!TypeOK
<1>1. CASE Rules!YggInit
  <2>1. /\ main' = [k \in Rules!Kinds |-> main'[k]]
        /\ main'["hook"] =
             IF main["hook"] \in {NoName, Rules!UsersText} THEN Rules!AsksClaude ELSE main["hook"]
        /\ main'["settings"] =
             IF main["settings"] \in {NoName, Rules!UsersText} THEN Rules!MainHook ELSE main["settings"]
        /\ main'["claude"] = main["claude"] /\ main'["stubs"] = main["stubs"]
    BY <1>1, <1>k, <1>t DEF Rules!YggInit, Rules!Unless, Rules!IsFiles
  <2>2. Rules!IsFiles(main')
    BY <1>t, <2>1, FilesByKind
  <2>3. Rules!TypeOK'
    BY <1>1, <2>2 DEF Rules!YggInit, Rules!TypeOK, Rules!IsFiles, Rules!Other
  <2>4. Rules!CleanWorlds'
    BY <1>1 DEF Rules!YggInit, Rules!CleanWorlds
  <2>5. Rules!Unmerged'
    BY <1>1, <2>1 DEF Rules!YggInit, Rules!Unmerged
  <2> QED BY <2>3, <2>4, <2>5
<1>2. ASSUME NEW S \in SUBSET Rules!Kinds, Rules!CommitMain(S) PROVE Rules!LawsInv'
  <2> DEFINE files == [k \in Rules!Kinds |-> IF k \in S THEN main[k] ELSE tip[Trunk][k]]
  <2>1. Rules!IsFiles(files)
    <3>1. Rules!IsFiles(tip[Trunk])
      BY <1>t DEF Rules!Refs
    <3>2. /\ files = [k \in Rules!Kinds |-> files[k]]
          /\ \A k \in Rules!Kinds : files[k] \in {main[k], tip[Trunk][k]}
      OBVIOUS
    <3> HIDE DEF files
    <3> QED BY <1>t, <3>1, <3>2, FilesMixed
  <2>2. /\ tip' = [tip EXCEPT ![Trunk] = files]
        /\ UNCHANGED <<main, world, on, there, clean, merged>>
    BY <1>2 DEF Rules!CommitMain
  <2>3. files["settings"] \in {main["settings"], tip[Trunk]["settings"]}
    BY <1>k
  <2> HIDE DEF files
  <2>6. \A b \in Rules!Refs : tip'[b] = tip[b] \/ tip'[b] = files
    BY <2>2 DEF Rules!TypeOK
  <2>4. Rules!TypeOK'
    <3>1. \A b \in Rules!Refs : Rules!IsFiles(tip'[b])
      BY <1>t, <2>1, <2>6
    <3>2. tip' = [b \in Rules!Refs |-> tip'[b]]
      BY <2>2 DEF Rules!TypeOK
    <3>3. Rules!IsFiles(main') /\ \A w \in Worlds : Rules!IsFiles(world'[w])
      BY <1>t, <2>2
    <3> QED BY <2>2, <3>1, <3>2, <3>3 DEF Rules!TypeOK, Rules!IsFiles, Rules!Other
  <2>5. Rules!CleanWorlds' /\ Rules!Unmerged'
    <3>1. Rules!CleanWorlds'
      BY <2>2 DEF Rules!CleanWorlds
    <3>2. Trunk \in Rules!Refs
      BY DEF Rules!Refs
    <3>3. Rules!Unmerged'
      BY <2>2, <2>3, <2>6, <3>2 DEF Rules!Unmerged
    <3> QED BY <3>1, <3>3
  <2> QED BY <2>4, <2>5
<1>3. ASSUME NEW w \in Worlds, NEW b \in Rules!Refs, Rules!Create(w, b) PROVE Rules!LawsInv'
  <2> DEFINE files == Rules!InjectRules(w, tip[b])
  <2>1. /\ world' = [world EXCEPT ![w] = files] /\ there' = there \union {w}
        /\ on' \in {[on EXCEPT ![w] = w], [on EXCEPT ![w] = b]}
        /\ tip' = tip \/ tip' = [tip EXCEPT ![w] = tip[b]]
        /\ clean \subseteq clean' /\ clean' \subseteq clean \union {w}
        /\ w \in clean' /\ w \notin clean => \A k \in Rules!Kinds : tip[b][k] \notin Worlds
        /\ UNCHANGED <<main, merged>>
    BY <1>3 DEF Rules!Create
  <2>2. /\ files = [k \in Rules!Kinds |-> files[k]]
        /\ \A k \in Rules!Kinds :
             files[k] = IF tip[b][k] \in {NoName, Rules!UsersText} THEN w ELSE tip[b][k]
    BY DEF Rules!InjectRules, Rules!Unless
  <2>3. Rules!IsFiles(files)
    <3> HIDE DEF files
    <3>1. /\ files["claude"] \in {w, tip[b]["claude"]}
          /\ files["hook"] \in {w, tip[b]["hook"]}
          /\ files["settings"] \in {w, tip[b]["settings"]}
          /\ files["stubs"] \in {w, tip[b]["stubs"]}
      BY <1>k, <2>2
    <3> QED BY <1>t, <2>2, <3>1, FilesByKind
  <2> HIDE DEF files
  <2>4. w \in Rules!Refs /\ \A v \in Rules!Refs : tip'[v] = tip[v] \/ tip'[v] = tip[b]
    BY <2>1 DEF Rules!Refs, Rules!TypeOK
  <2>5. world'[w] = files /\ \A v \in Worlds \ {w} : world'[v] = world[v]
    BY <2>1 DEF Rules!TypeOK
  <2>6. Rules!TypeOK'
    <3>1. \A v \in Rules!Refs : Rules!IsFiles(tip'[v])
      BY <1>t, <2>4
    <3>2. \A v \in Worlds : Rules!IsFiles(world'[v])
      BY <1>t, <2>3, <2>5
    <3>3. tip' = [v \in Rules!Refs |-> tip'[v]] /\ world' = [v \in Worlds |-> world'[v]]
      BY <2>1 DEF Rules!TypeOK
    <3>4. /\ on' \in [Worlds -> Rules!Refs \union {NoName}]
          /\ there' \union clean' \subseteq {v \in Worlds : on'[v] # NoName}
      <4>1. w # NoName /\ b # NoName
        BY <2>4 DEF Rules!NamesDiffer
      <4> QED BY <2>1, <2>4, <4>1 DEF Rules!TypeOK
    <3>5. Rules!IsFiles(main')
      BY <1>t, <2>1
    <3>6. merged' \subseteq Rules!Refs
      BY <2>1 DEF Rules!TypeOK
    <3> QED BY <3>1, <3>2, <3>3, <3>4, <3>5, <3>6 DEF Rules!TypeOK, Rules!IsFiles, Rules!Other
  <2>7. w \in clean' =>
          /\ files["claude"] = w /\ files["stubs"] = w
          /\ files["hook"] \in {w, Rules!AsksClaude}
          /\ files["settings"] \in {w, Rules!MainHook}
    <3> SUFFICES ASSUME w \in clean' PROVE
          /\ files["claude"] = w /\ files["stubs"] = w
          /\ files["hook"] \in {w, Rules!AsksClaude}
          /\ files["settings"] \in {w, Rules!MainHook}
      OBVIOUS
    <3>1. w \notin clean
      BY <1>3 DEF Rules!Create, Rules!TypeOK
    <3>2. /\ tip[b]["claude"] \notin Worlds /\ tip[b]["stubs"] \notin Worlds
          /\ tip[b]["hook"] \notin Worlds /\ tip[b]["settings"] \notin Worlds
      BY <1>k, <2>1, <3>1
    <3> QED BY <1>k, <1>t, <2>2, <3>2, FilesByKind
  <2>8. Rules!CleanWorlds'
    BY <2>1, <2>5, <2>7 DEF Rules!CleanWorlds, Rules!TypeOK
  <2>9. Rules!Unmerged'
    <3>1. files["settings"] \in {w, tip[b]["settings"]} /\ w # Rules!MainHook
      BY <1>k, <2>2 DEF Rules!NamesDiffer
    <3> QED BY <2>1, <2>4, <2>5, <3>1 DEF Rules!Unmerged
  <2> QED BY <2>6, <2>8, <2>9
<1>4. ASSUME NEW w \in Worlds, NEW S \in SUBSET Rules!Kinds, Rules!CommitWorld(w, S)
      PROVE  Rules!LawsInv'
  <2> DEFINE b == on[w]
             files == [k \in Rules!Kinds |-> IF k \in S THEN world[w][k] ELSE tip[b][k]]
  <2>0. b \in Rules!Refs
    BY <1>4 DEF Rules!CommitWorld, Rules!TypeOK
  <2>1. Rules!IsFiles(files)
    <3>1. Rules!IsFiles(tip[b]) /\ Rules!IsFiles(world[w])
      BY <1>t, <2>0
    <3>2. /\ files = [k \in Rules!Kinds |-> files[k]]
          /\ \A k \in Rules!Kinds : files[k] \in {world[w][k], tip[b][k]}
      OBVIOUS
    <3> HIDE DEF files
    <3> QED BY <3>1, <3>2, FilesMixed
  <2>2. /\ tip' = [tip EXCEPT ![b] = files]
        /\ UNCHANGED <<main, world, on, there, clean, merged>>
    BY <1>4 DEF Rules!CommitWorld
  <2>3. files["settings"] \in {world[w]["settings"], tip[b]["settings"]}
    BY <1>k
  <2> HIDE DEF files, b
  <2>6. \A r \in Rules!Refs : tip'[r] = tip[r] \/ tip'[r] = files
    BY <2>2 DEF Rules!TypeOK
  <2>4. Rules!TypeOK'
    <3>1. \A r \in Rules!Refs : Rules!IsFiles(tip'[r])
      BY <1>t, <2>1, <2>6
    <3>2. tip' = [r \in Rules!Refs |-> tip'[r]]
      BY <2>2 DEF Rules!TypeOK
    <3> QED BY <2>2, <3>1, <3>2 DEF Rules!TypeOK, Rules!IsFiles, Rules!Other
  <2>5. Rules!CleanWorlds'
    BY <2>2 DEF Rules!CleanWorlds
  <2>7. Rules!Unmerged'
    BY <2>0, <2>2, <2>3, <2>6 DEF Rules!Unmerged
  <2> QED BY <2>4, <2>5, <2>7
<1>5. ASSUME NEW b \in Rules!Refs, Rules!Merge(b) PROVE Rules!LawsInv'
  <2> DEFINE changed(r) == {k \in Rules!Kinds : tip[r][k] \notin {NoName, Rules!UsersText}}
             new == changed(b) \ changed(Trunk)
             files == [k \in Rules!Kinds |-> IF k \in new THEN tip[b][k] ELSE tip[Trunk][k]]
             here == [k \in Rules!Kinds |-> IF k \in new THEN files[k] ELSE main[k]]
  <2>1. /\ main' = here /\ tip' = [tip EXCEPT ![Trunk] = files]
        /\ merged' = merged \union (IF \E k \in new : files[k] \in Worlds THEN {b} ELSE {})
        /\ UNCHANGED <<world, on, there, clean>>
    BY <1>5 DEF Rules!Merge
  <2>2. Trunk \in Rules!Refs
    BY DEF Rules!Refs
  <2>3. /\ \A k \in Rules!Kinds : files[k] \in {tip[b][k], tip[Trunk][k]}
        /\ \A k \in Rules!Kinds : here[k] \in {tip[b][k], main[k]}
        /\ files = [k \in Rules!Kinds |-> files[k]] /\ here = [k \in Rules!Kinds |-> here[k]]
    OBVIOUS
  <2>5. /\ files["settings"] \in {tip[b]["settings"], tip[Trunk]["settings"]}
        /\ here["settings"] \in {tip[b]["settings"], main["settings"]}
    BY <1>k
  <2>6. merged' = {} =>
          /\ merged = {}
          /\ here["hook"] \in {main["hook"], Rules!AsksClaude}
    <3>1. ASSUME merged' = {}, "hook" \in new PROVE here["hook"] = Rules!AsksClaude
      <4>1. here["hook"] = tip[b]["hook"] /\ files["hook"] = tip[b]["hook"]
        BY <1>k, <3>1
      <4>2. tip[b]["hook"] \notin Worlds
        BY <2>1, <3>1, <4>1
      <4>3. tip[b]["hook"] # NoName
        BY <3>1
      <4> QED BY <1>t, <4>1, <4>2, <4>3, FilesByKind
    <3>2. ASSUME "hook" \notin new PROVE here["hook"] = main["hook"]
      BY <1>k, <3>2
    <3> HIDE DEF here, new
    <3> QED BY <2>1, <3>1, <3>2
  <2> HIDE DEF files, here, new
  <2>4. Rules!IsFiles(files) /\ Rules!IsFiles(here)
    <3>1. Rules!IsFiles(tip[b]) /\ Rules!IsFiles(tip[Trunk])
      BY <1>t, <2>2
    <3>2. Rules!IsFiles(files)
      BY <2>3, <3>1, FilesMixed
    <3>3. Rules!IsFiles(here)
      BY <1>t, <2>3, <3>1, FilesMixed
    <3> QED BY <3>2, <3>3
  <2>7. \A r \in Rules!Refs : tip'[r] = tip[r] \/ tip'[r] = files
    BY <2>1 DEF Rules!TypeOK
  <2>8. Rules!TypeOK'
    <3>1. \A r \in Rules!Refs : Rules!IsFiles(tip'[r])
      BY <1>t, <2>4, <2>7
    <3>2. tip' = [r \in Rules!Refs |-> tip'[r]] /\ merged' \subseteq Rules!Refs
      BY <2>1 DEF Rules!TypeOK
    <3>3. Rules!IsFiles(main')
      BY <2>1, <2>4
    <3> QED BY <2>1, <3>1, <3>2, <3>3 DEF Rules!TypeOK, Rules!IsFiles, Rules!Other
  <2>9. Rules!CleanWorlds'
    BY <2>1 DEF Rules!CleanWorlds
  <2>10. Rules!Unmerged'
    BY <2>1, <2>2, <2>5, <2>6, <2>7 DEF Rules!Unmerged
  <2> QED BY <2>8, <2>9, <2>10
<1>6. ASSUME NEW w \in Worlds, Rules!Remove(w) PROVE Rules!LawsInv'
  <2>1. /\ tip' = [tip EXCEPT ![w] = Rules!Nothing] /\ there' \subseteq there
        /\ UNCHANGED <<main, world, on, clean, merged>>
    BY <1>6 DEF Rules!Remove
  <2>2. Rules!IsFiles(Rules!Nothing) /\ Rules!Nothing["settings"] = NoName
    <3>1. /\ Rules!Nothing = [k \in Rules!Kinds |-> Rules!Nothing[k]]
          /\ \A k \in Rules!Kinds : Rules!Nothing[k] = NoName
      BY DEF Rules!Nothing
    <3> QED BY <1>k, <3>1 DEF Rules!IsFiles, Rules!Other
  <2>3. \A r \in Rules!Refs : tip'[r] = tip[r] \/ tip'[r] = Rules!Nothing
    BY <2>1 DEF Rules!TypeOK
  <2>4. Rules!TypeOK'
    <3>1. \A r \in Rules!Refs : Rules!IsFiles(tip'[r])
      BY <1>t, <2>2, <2>3
    <3>2. tip' = [r \in Rules!Refs |-> tip'[r]]
      BY <2>1 DEF Rules!TypeOK
    <3> QED BY <2>1, <3>1, <3>2 DEF Rules!TypeOK, Rules!IsFiles, Rules!Other
  <2>5. Rules!CleanWorlds'
    BY <2>1 DEF Rules!CleanWorlds
  <2>6. Rules!Unmerged'
    BY <2>1, <2>2, <2>3 DEF Rules!Unmerged, Rules!NamesDiffer
  <2> QED BY <2>4, <2>5, <2>6
<1> QED BY <1>1, <1>2, <1>3, <1>4, <1>5, <1>6 DEF Rules!Next

\* At first no file names a world (laws.rs, init.rs).
LEMMA LawsInit == ASSUME Rules!NamesDiffer, Rules!Init PROVE Rules!LawsInv
<1>1. PICK c \in {NoName, Rules!UsersText} : main = [Rules!Nothing EXCEPT !["claude"] = c]
  BY DEF Rules!Init
<1>2. /\ Rules!Nothing = [k \in Rules!Kinds |-> NoName]
      /\ Rules!Kinds = {"claude", "hook", "settings", "stubs"}
  BY DEF Rules!Nothing, Rules!Kinds
<1>3. /\ main = [k \in Rules!Kinds |-> main[k]]
      /\ Rules!Nothing = [k \in Rules!Kinds |-> Rules!Nothing[k]]
      /\ main["claude"] = c /\ main["hook"] = NoName /\ main["settings"] = NoName
      /\ main["stubs"] = NoName
      /\ Rules!Nothing["claude"] = NoName /\ Rules!Nothing["hook"] = NoName
      /\ Rules!Nothing["settings"] = NoName /\ Rules!Nothing["stubs"] = NoName
  BY <1>1, <1>2
<1>4. Rules!IsFiles(main) /\ Rules!IsFiles(Rules!Nothing)
  BY <1>3, FilesByKind
<1>5. /\ tip = [b \in Rules!Refs |-> tip[b]]
      /\ \A b \in Rules!Refs : tip[b] \in {main, Rules!Nothing}
      /\ world = [w \in Worlds |-> world[w]] /\ \A w \in Worlds : world[w] = Rules!Nothing
      /\ on = [w \in Worlds |-> NoName] /\ there = {} /\ clean = {} /\ merged = {}
  BY DEF Rules!Init
<1>6. Rules!TypeOK
  BY <1>4, <1>5 DEF Rules!TypeOK
<1>7. Rules!CleanWorlds
  BY <1>5 DEF Rules!CleanWorlds
<1>8. Rules!Unmerged
  BY <1>3, <1>5 DEF Rules!Unmerged, Rules!NamesDiffer
<1> QED BY <1>6, <1>7, <1>8 DEF Rules!LawsInv

\* For any number of worlds and branches: what the hooks rely on holds of each world that
\* was made from a branch without another world's files (laws.rs:28-139).
THEOREM LawsInductive ==
  ASSUME Rules!NamesDiffer
  PROVE  Rules!Spec => []Rules!LawsInv
<1>1. ASSUME Rules!LawsInv, UNCHANGED Rules!vars PROVE Rules!LawsInv'
  <2>1. UNCHANGED <<main, tip, world, on, there, clean, merged>>
    BY <1>1 DEF Rules!vars
  <2>2. Rules!TypeOK'
    BY <1>1, <2>1 DEF Rules!LawsInv, Rules!TypeOK, Rules!IsFiles, Rules!Other
  <2>3. Rules!CleanWorlds' /\ Rules!Unmerged'
    BY <1>1, <2>1 DEF Rules!LawsInv, Rules!CleanWorlds, Rules!Unmerged
  <2> QED BY <2>2, <2>3 DEF Rules!LawsInv
<1> QED BY <1>1, LawsInit, LawsStep, PTL DEF Rules!Spec

\* For any number of worlds and branches: the files of a world made from a branch without
\* another world's files name this world, and its changes are reported under its own id
\* as long as no merge has brought the file of a world to the trunk (laws.rs:72-139).
THEOREM ReportsHold ==
  ASSUME Rules!NamesDiffer
  PROVE  Rules!Spec => []Rules!ReportsOwnWorld
<1>1. Rules!LawsInv => Rules!ReportsOwnWorld
  <2> SUFFICES ASSUME Rules!LawsInv, NEW w \in there \intersect clean
               PROVE  /\ world[w]["claude"] = w /\ world[w]["stubs"] = w
                      /\ merged = {} => Rules!ReportsAs(w) = w
    BY DEF Rules!ReportsOwnWorld
  <2>1. /\ world[w]["claude"] = w /\ world[w]["stubs"] = w
        /\ world[w]["hook"] \in {w, Rules!AsksClaude}
        /\ world[w]["settings"] \in {w, Rules!MainHook}
    BY DEF Rules!LawsInv, Rules!CleanWorlds
  <2>2. w \in Worlds /\ w \in there /\ w # Rules!MainHook
    BY DEF Rules!LawsInv, Rules!TypeOK, Rules!NamesDiffer
  <2>3. CASE world[w]["settings"] = w
    <3>1. Rules!HookOf(w) = world[w]["hook"]
      BY <2>2, <2>3 DEF Rules!HookOf
    <3> QED BY <2>1, <3>1 DEF Rules!ReportsAs
  <2>4. ASSUME world[w]["settings"] = Rules!MainHook, merged = {} PROVE Rules!ReportsAs(w) = w
    <3>1. main["hook"] = Rules!AsksClaude
      BY <2>2, <2>4 DEF Rules!LawsInv, Rules!Unmerged
    <3>2. Rules!HookOf(w) = main["hook"]
      <4>1. Rules!MainHook \notin there
        BY DEF Rules!LawsInv, Rules!TypeOK, Rules!NamesDiffer
      <4> QED BY <2>4, <4>1 DEF Rules!HookOf
    <3> QED BY <2>1, <3>1, <3>2 DEF Rules!ReportsAs
  <2> QED BY <2>1, <2>3, <2>4
<1> QED BY <1>1, LawsInductive, PTL

=============================================================================
