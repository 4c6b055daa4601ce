-------------------------- MODULE ResonanceProofs --------------------------
(***************************************************************************)
(* Proofs about Resonance, for any worlds, files, connections, window and  *)
(* bounds: the state has its type, no conflict is missed, every warning is *)
(* grounded in the log, the detector implements the safety part of         *)
(* ConflictPromise, the rules stay in CLAUDE.md, and someone is warned of  *)
(* each recent conflict.                                                   *)
(***************************************************************************)
EXTENDS Resonance, FiniteSetTheorems, TLAPS

(* The invariants that the proofs go by. *)

\* What makes WarningsGrounded inductive: the conflicts a handler holds are in
\* the log, the worlds it is about to warn take part in its current conflict, and
\* so do the warnings in the text it has read.
TaskGrounded(t) ==
  /\ \A c \in t.conflicts : Cardinality(c.worlds) > 1 /\ c.worlds \X {c.file} \subseteq Edits
  /\ t.pc \in {"warn", "truncate", "write"} => t.targets \subseteq ToWarn(t.conflict, t.world)
  /\ t.pc \in {"truncate", "write"} =>
       /\ t.victim \in ToWarn(t.conflict, t.world)
       /\ \A x \in t.text \ {Protocol} : Grounded(t.victim, x)

GroundingInv == WarningsGrounded /\ \A h \in Conns : TaskGrounded(task[h])

\* Text tells its world of a conflict in file f.
Tells(text, f) == \E x \in text \ {Protocol} : x.file = f

\* World w is told of file f: its CLAUDE.md tells it, or will when the handler that has
\* truncated it has written what it read and its own warning.
Told(w, f) ==
  IF \E h \in Conns : task[h].pc = "write" /\ task[h].victim = w
  THEN \E h \in Conns : /\ task[h].pc = "write" /\ task[h].victim = w
                        /\ Tells(task[h].text, f) \/ task[h].conflict.file = f
  ELSE Tells(claude[w], f)

\* The worlds that t has still to warn of its current conflict.
Unwarned(t) == t.targets \union (IF t.pc \in {"truncate", "write"} THEN {t.victim} ELSE {})

\* Handler h has still to warn one of the worlds of the clashing entries i and j.
WillWarn(h, i, j) ==
  \E c \in task[h].conflicts :
    /\ Names(c, i, j)
    /\ task[h].pc \in {"warn", "truncate", "write"} /\ c = task[h].conflict =>
         \E k \in {i, j} : log[k].world \in Unwarned(task[h])

\* A CLAUDE.md that was never in two hands is in at most one, which has read all of it.
HandsInv ==
  \A w \in trees \ spoiled : \A h \in Conns :
    InHand(h, w) =>
      /\ \A g \in Conns : InHand(g, w) => g = h
      /\ task[h].pc = "truncate" => task[h].text = claude[w]

\* What makes SomeoneWarned inductive: of a recent conflict one of the two worlds is told,
\* or some handler has still to read the log or to warn one of them.
WarnInv ==
  scanned =>
    \A i, j \in DOMAIN log :
      /\ InReach(i) /\ InReach(j) /\ Clash(i, j)
      /\ {log[i].world, log[j].world} \subseteq trees \ spoiled
      => \/ \E h \in Conns : WillScan(h) \/ WillWarn(h, i, j)
         \/ \E k \in {i, j} : Told(log[k].world, log[k].file)

-----------------------------------------------------------------------------
(* Lemmas about the scan of the log. *)

\* read_recent returns events of the log (bus.rs:52-64).
LEMMA ReadRecentEvents ==
  ASSUME NEW l \in Seq(Event), NEW t \in Nat
  PROVE  ReadRecent(l, t) \subseteq {l[i] : i \in DOMAIN l}
BY DEF ReadRecent, Young

\* The log is a sequence of events (bus.rs:16-32).
LEMMA LogEntries ==
  ASSUME NEW l \in Seq(Event)
  PROVE  /\ DOMAIN l = 1..Len(l)
         /\ Len(l) \in Nat
         /\ {l[i] : i \in DOMAIN l} \subseteq Event
OBVIOUS

\* An event that is young and among the last WindowSize of the whole log is
\* one of those that read_recent returns (bus.rs:52-64).
LEMMA ReachIsRead ==
  ASSUME NEW l \in Seq(Event), NEW t \in Nat, NEW i \in Young(l, t),
         Len(l) - i < WindowSize
  PROVE  l[i] \in ReadRecent(l, t)
<1> DEFINE later == {j \in Young(l, t) : j > i}
<1>1. i \in 1..Len(l) /\ Len(l) \in Nat
  BY DEF Young
<1>2. later \subseteq (i+1)..Len(l)
  BY <1>1 DEF Young
<1>3. IsFiniteSet((i+1)..Len(l)) /\ Cardinality((i+1)..Len(l)) = Len(l) - i
  BY <1>1, FS_Interval
<1>4. Cardinality(later) <= Len(l) - i
  BY <1>2, <1>3, FS_Subset
<1>5. Cardinality(later) \in Nat
  BY <1>2, <1>3, FS_Subset, FS_CardinalityType
<1>6. Cardinality(later) < WindowSize
  BY <1>1, <1>4, <1>5, WindowAssumption
<1> QED
  BY <1>6 DEF ReadRecent

\* What detect_conflicts returns are conflicts between worlds (bus.rs:69-95).
LEMMA DetectConflictsType ==
  ASSUME NEW events \in SUBSET Event
  PROVE  DetectConflicts(events) \subseteq Conflict
<1>1. \A f \in Files : Touching(events, f) \subseteq Worlds
  BY DEF Touching, Event
<1> QED
  BY <1>1 DEF DetectConflicts, Conflict

\* detect_conflicts finds a conflict between any two worlds that edited the
\* same file (bus.rs:69-95).
LEMMA DetectsPair ==
  ASSUME NEW events \in SUBSET Event, NEW d \in events, NEW e \in events,
         d.kind = "FileModified", e.kind = "FileModified",
         d.file = e.file, d.world # e.world
  PROVE  \E c \in DetectConflicts(events) :
           c.file = d.file /\ {d.world, e.world} \subseteq c.worlds
<1> DEFINE T == Touching(events, d.file)
<1>1. d.file \in Files
  BY DEF Event
<1>2. T \subseteq Worlds
  BY DEF Touching, Event
<1>3. {d.world, e.world} \subseteq T
  BY DEF Touching
<1>4. IsFiniteSet(T)
  BY <1>2, WorldsAssumption, FS_Subset
<1>5. Cardinality({d.world, e.world}) = 2
  <2>1. IsFiniteSet({d.world}) /\ Cardinality({d.world}) = 1
    BY FS_Singleton
  <2>2. Cardinality({d.world} \cup {e.world}) = 2
    BY <2>1, FS_AddElement
  <2> QED
    BY <2>2
<1>6. Cardinality(T) > 1
  BY <1>3, <1>4, <1>5, FS_Subset, FS_CardinalityType
<1>7. [file |-> d.file, worlds |-> T] \in DetectConflicts(events)
  BY <1>1, <1>6 DEF DetectConflicts
<1> QED
  BY <1>3, <1>7

-----------------------------------------------------------------------------
(* Types. *)

\* A connection without a report is of the right type (ipc/server.rs:74-90).
LEMMA IdleType == Idle \in TaskType /\ WellFormed(Idle)
BY DEF Idle, TaskType, Text, WellFormed

\* Every state of the log, the CLAUDE.md files and the handlers is of its type
\* (mod.rs:33-142, bus.rs, laws.rs:145-162).
THEOREM TypeCorrect == Spec => []TypeOK
<1>1. Init => TypeOK
  BY IdleType DEF Init, TypeOK, Text
<1>2. TypeOK /\ [Next]_vars => TypeOK'
  <2> SUFFICES ASSUME TypeOK, [Next]_vars
               PROVE  TypeOK'
    OBVIOUS
  <2> USE DEF TypeOK
  <2>1. ASSUME NEW h \in Conns, NEW w \in Worlds, NEW files \in FileLists,
               HookReport(h, w, files)
        PROVE  TypeOK'
    <3>1. files \in Seq(Files)
      BY DEF FileLists
    <3>2. [Idle EXCEPT !.pc = NextFile(files), !.world = w, !.files = files] \in TaskType
      BY <3>1, IdleType DEF TaskType, Idle, NextFile, Text
    <3>3. WellFormed([Idle EXCEPT !.pc = NextFile(files), !.world = w, !.files = files])
      BY DEF WellFormed, Idle, NextFile
    <3> QED
      BY <2>1, <3>2, <3>3 DEF HookReport
  <2>2. ASSUME NEW h \in Conns, StampEvent(h)
        PROVE  TypeOK'
    <3> DEFINE t == [task[h] EXCEPT !.pc = "append", !.stamp = clock]
    <3>1. task' = [task EXCEPT ![h] = t]
      BY <2>2 DEF StampEvent
    <3>2. t \in TaskType
      BY ZenonT(60) DEF TaskType
    <3>3. WellFormed(t)
      BY <2>2 DEF StampEvent, WellFormed, TaskType
    <3> QED
      BY <2>2, <3>1, <3>2, <3>3 DEF StampEvent
  <2>3. ASSUME NEW h \in Conns, AppendEvent(h)
        PROVE  TypeOK'
    <3> DEFINE t == [task[h] EXCEPT !.pc = "notify"]
    <3>1. task' = [task EXCEPT ![h] = t]
      BY <2>3 DEF AppendEvent
    <3>2. t \in TaskType
      BY ZenonT(60) DEF TaskType
    <3>3. WellFormed(t)
      BY <2>3, ZenonT(60) DEF AppendEvent, WellFormed, TaskType
    <3>4. log' \in Seq(Event)
      <4>1. Head(task[h].files) \in Files /\ task[h].world \in Worlds /\ task[h].stamp \in Nat
        BY <2>3 DEF AppendEvent, WellFormed, TaskType
      <4> QED
        BY <2>3, <4>1 DEF AppendEvent, Event
    <3> QED
      BY <2>3, <3>1, <3>2, <3>3, <3>4 DEF AppendEvent
  <2>4. ASSUME NEW h \in Conns, NotifyEvent(h)
        PROVE  TypeOK'
    <3> DEFINE t == [task[h] EXCEPT !.pc = NextFile(Tail(task[h].files)), !.files = Tail(@)]
    <3>1. task' = [task EXCEPT ![h] = t]
      BY <2>4 DEF NotifyEvent
    <3>2. t \in TaskType
      <4>1. task[h].files \in Seq(Files) /\ task[h].files # <<>>
        BY <2>4 DEF NotifyEvent, WellFormed, TaskType
      <4>2. Tail(task[h].files) \in Seq(Files)
        BY <4>1
      <4>3. NextFile(Tail(task[h].files)) \in {"stamp", "scan"}
        BY DEF NextFile
      <4> QED
        BY <4>2, <4>3, ZenonT(60) DEF TaskType
    <3>3. WellFormed(t)
      <4>1. t.files = Tail(task[h].files) /\ t.pc = NextFile(t.files) /\ t.world = task[h].world
        BY DEF TaskType
      <4>2. t.world \in Worlds /\ t.conflicts = {}
        BY <2>4, <4>1 DEF NotifyEvent, WellFormed, TaskType
      <4> HIDE DEF t
      <4> QED
        BY <4>1, <4>2 DEF WellFormed, NextFile
    <3>4. Head(task[h].files) \in Files /\ task[h].world \in Worlds
      BY <2>4 DEF NotifyEvent, WellFormed, TaskType
    <3>5. published' \subseteq Message
      BY <2>4, <3>4 DEF NotifyEvent, Message
    <3> QED
      BY <2>4, <3>1, <3>2, <3>3, <3>5 DEF NotifyEvent
  <2>5. ASSUME NEW h \in Conns, ScanLog(h)
        PROVE  TypeOK'
    <3> DEFINE t == [task[h] EXCEPT !.pc = "conflicts",
                              !.conflicts = DetectConflicts(ReadRecent(log, clock))]
    <3>1. task' = [task EXCEPT ![h] = t]
      BY <2>5 DEF ScanLog
    <3>2. t \in TaskType
      BY LogEntries, ReadRecentEvents, DetectConflictsType, ZenonT(60) DEF TaskType
    <3>3. WellFormed(t)
      BY <2>5 DEF ScanLog, WellFormed, TaskType
    <3> QED
      BY <2>5, <3>1, <3>2, <3>3 DEF ScanLog
  <2>6. ASSUME NEW h \in Conns, TakeConflict(h)
        PROVE  TypeOK'
    <3>1. PICK c \in task[h].conflicts :
            task' = [task EXCEPT ![h].pc = "warn", ![h].conflict = c,
                                 ![h].targets = ToWarn(c, task[h].world)]
      BY <2>6 DEF TakeConflict
    <3> DEFINE t == [task[h] EXCEPT !.pc = "warn", !.conflict = c,
                                    !.targets = ToWarn(c, task[h].world)]
    <3>2. task' = [task EXCEPT ![h] = t]
      BY <3>1
    <3>3. c \in Conflict /\ ToWarn(c, task[h].world) \subseteq Worlds
      BY DEF TaskType, Conflict, ToWarn
    <3>4. t \in TaskType
      BY <3>3, ZenonT(60) DEF TaskType
    <3>5. WellFormed(t)
      BY <2>6 DEF TakeConflict, WellFormed, TaskType
    <3> QED
      BY <2>6, <3>2, <3>4, <3>5 DEF TakeConflict
  <2>7. ASSUME NEW h \in Conns, ReadClaude(h)
        PROVE  TypeOK'
    <3>1. PICK w \in task[h].targets :
            task' = [task EXCEPT ![h].pc = "truncate", ![h].victim = w,
                                 ![h].targets = @ \ {w}, ![h].text = claude[w]]
      BY <2>7 DEF ReadClaude
    <3> DEFINE t == [task[h] EXCEPT !.pc = "truncate", !.victim = w,
                                    !.targets = @ \ {w}, !.text = claude[w]]
    <3>2. task' = [task EXCEPT ![h] = t]
      BY <3>1
    <3>3. w \in Worlds
      BY DEF TaskType
    <3>4. t \in TaskType
      BY <3>3, ZenonT(60) DEF TaskType
    <3>5. WellFormed(t)
      BY <2>7, <3>3 DEF ReadClaude, WellFormed, TaskType
    <3>6. spoiled' \subseteq Worlds
      BY <2>7 DEF ReadClaude, TaskType
    <3> QED
      BY <2>7, <3>2, <3>4, <3>5, <3>6 DEF ReadClaude
  <2>8. ASSUME NEW h \in Conns, TruncateClaude(h)
        PROVE  TypeOK'
    <3>1. PICK pc \in {"write", "warn"} : task' = [task EXCEPT ![h].pc = pc]
      BY <2>8 DEF TruncateClaude
    <3> DEFINE t == [task[h] EXCEPT !.pc = pc]
    <3>2. task' = [task EXCEPT ![h] = t]
      BY <3>1
    <3>3. t \in TaskType
      BY ZenonT(60) DEF TaskType
    <3>4. WellFormed(t)
      BY <2>8 DEF TruncateClaude, WellFormed, TaskType
    <3>5. claude' \in [Worlds -> Text]
      BY <2>8 DEF TruncateClaude, Text
    <3> QED
      BY <2>8, <3>2, <3>3, <3>4, <3>5 DEF TruncateClaude
  <2>9. ASSUME NEW h \in Conns, WriteClaude(h)
        PROVE  TypeOK'
    <3> DEFINE t == [task[h] EXCEPT !.pc = "warn"]
    <3>1. task' = [task EXCEPT ![h] = t]
      BY <2>9 DEF WriteClaude
    <3>2. t \in TaskType
      BY ZenonT(60) DEF TaskType
    <3>3. WellFormed(t)
      BY <2>9 DEF WriteClaude, WellFormed, TaskType
    <3>4. WarningOf(task[h]) \in Warning /\ task[h].text \in Text
      BY <2>9 DEF WriteClaude, WarningOf, Warning, WellFormed, TaskType, Conflict
    <3>5. claude' \in [Worlds -> Text]
      BY <2>9, <3>4, ZenonT(60) DEF WriteClaude, Text
    <3> QED
      BY <2>9, <3>1, <3>2, <3>3, <3>5 DEF WriteClaude
  <2>10. ASSUME NEW h \in Conns, AnnounceConflict(h)
        PROVE  TypeOK'
    <3> DEFINE t == [task[h] EXCEPT !.pc = "conflicts",
                              !.conflicts = @ \ {task[h].conflict}]
    <3>1. task' = [task EXCEPT ![h] = t]
      BY <2>10 DEF AnnounceConflict
    <3>2. t \in TaskType
      BY ZenonT(60) DEF TaskType
    <3>3. WellFormed(t)
      BY <2>10 DEF AnnounceConflict, WellFormed, TaskType
    <3>4. task[h].world \in Worlds /\ task[h].conflict \in Conflict
      BY <2>10 DEF AnnounceConflict, WellFormed, TaskType
    <3>5. published' \subseteq Message
      BY <2>10, <3>4 DEF AnnounceConflict, Message
    <3> QED
      BY <2>10, <3>1, <3>2, <3>3, <3>5 DEF AnnounceConflict
  <2>11. ASSUME NEW h \in Conns, FinishReport(h)
        PROVE  TypeOK'
    BY <2>11, IdleType DEF FinishReport, WellFormed, Idle
  <2>12. ASSUME NEW h \in Conns, StampDelete(h)
        PROVE  TypeOK'
    <3> DEFINE t == [task[h] EXCEPT !.pc = "appendDelete", !.stamp = clock]
    <3>1. task' = [task EXCEPT ![h] = t]
      BY <2>12 DEF StampDelete
    <3>2. t \in TaskType
      BY ZenonT(60) DEF TaskType
    <3>3. WellFormed(t)
      BY <2>12, ZenonT(60) DEF StampDelete, WellFormed, TaskType
    <3> QED
      BY <2>12, <3>1, <3>2, <3>3 DEF StampDelete
  <2>13. ASSUME NEW h \in Conns, AppendDelete(h)
        PROVE  TypeOK'
    <3> DEFINE t == [task[h] EXCEPT !.pc = "tellDelete"]
    <3>1. task' = [task EXCEPT ![h] = t]
      BY <2>13 DEF AppendDelete
    <3>2. t \in TaskType
      BY ZenonT(60) DEF TaskType
    <3>3. WellFormed(t)
      BY <2>13, ZenonT(60) DEF AppendDelete, WellFormed, TaskType
    <3>4. task[h].world \in Worlds /\ task[h].stamp \in Nat
      BY <2>13 DEF AppendDelete, WellFormed, TaskType
    <3>5. log' \in Seq(Event)
      BY <2>13, <3>4 DEF AppendDelete, Event
    <3> QED
      BY <2>13, <3>1, <3>2, <3>3, <3>5 DEF AppendDelete
  <2>14. ASSUME NEW h \in Conns, TellDelete(h)
        PROVE  TypeOK'
    <3>1. published' \subseteq Message
      BY <2>14 DEF TellDelete, Message, WellFormed, TaskType
    <3> QED
      BY <2>14, <3>1, IdleType DEF TellDelete, WellFormed, Idle
  <2>15. ASSUME NEW h \in Conns, NEW w \in Worlds, DeleteWorld(h, w)
        PROVE  TypeOK'
    <3> DEFINE t == [Idle EXCEPT !.pc = "stampDelete", !.world = w]
    <3>1. t \in TaskType /\ WellFormed(t)
      BY IdleType DEF TaskType, WellFormed, Idle
    <3> QED
      BY <2>15, <3>1 DEF DeleteWorld, RemoveTree, Text
  <2>16. ASSUME NEW w \in Worlds, LeaveWorld(w)
        PROVE  TypeOK'
    BY <2>16 DEF LeaveWorld, RemoveTree, Text
  <2>20. ASSUME NEW w \in Worlds, RemovalFails(w)
        PROVE  TypeOK'
    BY <2>20 DEF RemovalFails, Text
  <2>17. CASE Tick
    BY <2>17 DEF Tick
  <2>18. CASE StopDaemon
    BY <2>18, IdleType DEF StopDaemon, Idle, WellFormed
  <2>19. CASE UNCHANGED vars
    BY <2>19 DEF vars
  <2> QED
    BY <2>1, <2>2, <2>3, <2>4, <2>5, <2>6, <2>7, <2>8, <2>9, <2>10, <2>11, <2>12, <2>13, <2>14, <2>15, <2>16,
       <2>17, <2>18, <2>19, <2>20 DEF Next, Step
<1> QED
  BY <1>1, <1>2, PTL DEF Spec

-----------------------------------------------------------------------------
(* No conflict is missed. *)

Held(h, i, j) == WillScan(h) \/ \E c \in task[h].conflicts : Names(c, i, j)

\* A step that leaves the log alone, and loses neither a handler that has still
\* to scan nor a conflict that is not announced, misses nothing.
LEMMA NothingLost ==
  ASSUME TypeOK, TypeOK', NoConflictMissed,
         log' = log, clock' >= clock, scanned' = scanned,
         Announcements \subseteq Announcements',
         \A h \in Conns : WillScan(h) => WillScan(h)',
         \A h \in Conns : task[h].conflicts \subseteq
                            task'[h].conflicts \union Announcements'
  PROVE  NoConflictMissed'
<1> SUFFICES ASSUME NEW i \in DOMAIN log', NEW j \in DOMAIN log',
                    InReach(i)', InReach(j)', Clash(i, j)', scanned'
             PROVE  \/ \E c \in Announcements' : Names(c, i, j)'
                    \/ \E h \in Conns : WillScan(h)' \/ \E c \in task'[h].conflicts : Names(c, i, j)'
  BY DEF NoConflictMissed
<1>1. i \in DOMAIN log /\ j \in DOMAIN log /\ Clash(i, j)
  BY DEF Clash
<1>2. InReach(i) /\ InReach(j)
  <2>1. log[i] \in Event /\ log[j] \in Event
    BY <1>1 DEF TypeOK
  <2>2. log[i].ts \in Nat /\ log[j].ts \in Nat
    BY <2>1 DEF Event
  <2>3. clock \in Nat /\ clock' \in Nat
    BY DEF TypeOK
  <2> QED
    BY <1>1, <2>2, <2>3, WindowAssumption, SMTT(30) DEF InReach, Young
<1>3. \A c : Names(c, i, j)' <=> Names(c, i, j)
  BY DEF Names
<1>4. \/ \E c \in Announcements : Names(c, i, j)
      \/ \E h \in Conns : WillScan(h) \/ \E c \in task[h].conflicts : Names(c, i, j)
  BY <1>1, <1>2 DEF NoConflictMissed
<1> QED
  BY <1>3, <1>4

\* The scan picks up every clash within reach (mod.rs:60-61).
LEMMA ScanFindsAll ==
  ASSUME TypeOK, NEW h \in Conns, ScanLog(h),
         NEW i \in DOMAIN log', NEW j \in DOMAIN log',
         InReach(i)', InReach(j)', Clash(i, j)'
  PROVE  \E c \in task'[h].conflicts : Names(c, i, j)'
<1>1. log' = log /\ clock' = clock
  BY DEF ScanLog
<1>2. InReach(i) /\ InReach(j) /\ Clash(i, j)
  BY <1>1 DEF InReach, Clash
<1> DEFINE events == ReadRecent(log, clock)
<1>3. events \subseteq Event
  BY ReadRecentEvents, LogEntries DEF TypeOK
<1>4. log[i] \in events /\ log[j] \in events
  BY <1>2, ReachIsRead DEF TypeOK, InReach
<1>5. \E c \in DetectConflicts(events) : Names(c, i, j)
  BY <1>2, <1>3, <1>4, DetectsPair DEF Clash, Names
<1>6. task'[h].conflicts = DetectConflicts(events)
  BY DEF ScanLog, TypeOK, TaskType
<1> QED
  BY <1>1, <1>5, <1>6 DEF Names

\* For any number of handlers and any window: a recent conflict has been announced, or a
\* handler has it in hand or the log still to read (mod.rs:39-88).
THEOREM NothingMissed == Spec => []NoConflictMissed
<1>1. Init => NoConflictMissed
  BY DEF Init, NoConflictMissed
<1>2. TypeOK /\ TypeOK' /\ NoConflictMissed /\ [Next]_vars => NoConflictMissed'
  <2> SUFFICES ASSUME TypeOK, TypeOK', NoConflictMissed, [Next]_vars
               PROVE  NoConflictMissed'
    OBVIOUS
  <2>1. ASSUME NEW h \in Conns, NEW w \in Worlds, NEW files \in FileLists,
               HookReport(h, w, files)
        PROVE  NoConflictMissed'
    BY <2>1, NothingLost DEF HookReport, TypeOK, WellFormed, WillScan, Announcements
  <2>2. ASSUME NEW h \in Conns, StampEvent(h)
        PROVE  NoConflictMissed'
    BY <2>2, NothingLost DEF StampEvent, TypeOK, TaskType, WillScan, Announcements
  <2>3. ASSUME NEW h \in Conns, AppendEvent(h)
        PROVE  NoConflictMissed'
    BY <2>3 DEF AppendEvent, TypeOK, TaskType, WillScan, NoConflictMissed
  <2>4. ASSUME NEW h \in Conns, NotifyEvent(h)
        PROVE  NoConflictMissed'
    <3>1. NextFile(Tail(task[h].files)) \in {"stamp", "scan"}
      BY DEF NextFile
    <3> QED
      BY <2>4, <3>1, NothingLost, SMTT(30)
      DEF NotifyEvent, TypeOK, TaskType, WillScan, Announcements
  <2>5. ASSUME NEW h \in Conns, ScanLog(h)
        PROVE  NoConflictMissed'
    BY <2>5, ScanFindsAll DEF NoConflictMissed
  <2>6. ASSUME NEW h \in Conns, TakeConflict(h)
        PROVE  NoConflictMissed'
    BY <2>6, NothingLost DEF TakeConflict, TypeOK, TaskType, WillScan, Announcements
  <2>7. ASSUME NEW h \in Conns, ReadClaude(h)
        PROVE  NoConflictMissed'
    <3>1. \A k \in Conns : task'[k].conflicts = task[k].conflicts
      BY <2>7 DEF ReadClaude, TypeOK, TaskType
    <3>2. \A k \in Conns : WillScan(k) => WillScan(k)'
      BY <2>7 DEF ReadClaude, TypeOK, TaskType, WillScan
    <3>3. Announcements' = Announcements /\ log' = log /\ clock' = clock /\ scanned' = scanned
      BY <2>7 DEF ReadClaude, Announcements
    <3> QED
      BY <3>1, <3>2, <3>3, NothingLost DEF TypeOK
  <2>8. ASSUME NEW h \in Conns, TruncateClaude(h)
        PROVE  NoConflictMissed'
    <3>1. \A k \in Conns : task'[k].conflicts = task[k].conflicts
      BY <2>8 DEF TruncateClaude, TypeOK, TaskType
    <3>2. \A k \in Conns : WillScan(k) => WillScan(k)'
      BY <2>8 DEF TruncateClaude, TypeOK, TaskType, WillScan
    <3>3. Announcements' = Announcements /\ log' = log /\ clock' = clock /\ scanned' = scanned
      BY <2>8 DEF TruncateClaude, Announcements
    <3> QED
      BY <3>1, <3>2, <3>3, NothingLost DEF TypeOK
  <2>9. ASSUME NEW h \in Conns, WriteClaude(h)
        PROVE  NoConflictMissed'
    <3>1. \A k \in Conns : task'[k].conflicts = task[k].conflicts
      BY <2>9 DEF WriteClaude, TypeOK, TaskType
    <3>2. \A k \in Conns : WillScan(k) => WillScan(k)'
      BY <2>9 DEF WriteClaude, TypeOK, TaskType, WillScan
    <3>3. Announcements' = Announcements /\ log' = log /\ clock' = clock /\ scanned' = scanned
      BY <2>9 DEF WriteClaude, Announcements
    <3> QED
      BY <3>1, <3>2, <3>3, NothingLost DEF TypeOK
  <2>10. ASSUME NEW h \in Conns, AnnounceConflict(h)
         PROVE  NoConflictMissed'
    <3>1. Announcements' = Announcements \union {task[h].conflict}
      <4> DEFINE m == [event |-> "ConflictDetected", world |-> task[h].world,
                       conflict |-> task[h].conflict]
      <4>1. published' = published \union {m}
        BY <2>10 DEF AnnounceConflict
      <4>2. m.event = "ConflictDetected" /\ m.conflict = task[h].conflict
        OBVIOUS
      <4> HIDE DEF m
      <4> QED
        BY <4>1, <4>2 DEF Announcements
    <3>2. \A k \in Conns : task[k].conflicts \subseteq
                             task'[k].conflicts \union Announcements'
      BY <2>10, <3>1 DEF AnnounceConflict, TypeOK, TaskType
    <3>3. \A k \in Conns : WillScan(k) => WillScan(k)'
      BY <2>10 DEF AnnounceConflict, TypeOK, TaskType, WillScan
    <3> QED
      BY <2>10, <3>1, <3>2, <3>3, NothingLost DEF AnnounceConflict, TypeOK
  <2>11. ASSUME NEW h \in Conns, FinishReport(h)
         PROVE  NoConflictMissed'
    BY <2>11, NothingLost DEF FinishReport, TypeOK, WillScan, Announcements
  <2>12. ASSUME NEW h \in Conns, StampDelete(h)
         PROVE  NoConflictMissed'
    BY <2>12, NothingLost DEF StampDelete, TypeOK, TaskType, WillScan, Announcements
  <2>13. ASSUME NEW h \in Conns, AppendDelete(h)
         PROVE  NoConflictMissed'
    <3> SUFFICES ASSUME NEW i \in DOMAIN log', NEW j \in DOMAIN log',
                        InReach(i)', InReach(j)', Clash(i, j)', scanned'
                 PROVE  \/ \E c \in Announcements' : Names(c, i, j)'
                        \/ \E k \in Conns : Held(k, i, j)'
      BY DEF NoConflictMissed, Held
    <3>1. log \in Seq(Event) /\ Len(log) \in Nat
      BY DEF TypeOK
    <3>2. /\ Len(log') = Len(log) + 1
          /\ log'[Len(log) + 1].kind = "WorldDeleted"
          /\ \A k \in 1..Len(log) : log'[k] = log[k]
          /\ DOMAIN log' = 1..(Len(log) + 1) /\ DOMAIN log = 1..Len(log)
      BY <2>13, <3>1 DEF AppendDelete
    <3>3. i \in DOMAIN log /\ j \in DOMAIN log /\ log'[i] = log[i] /\ log'[j] = log[j]
      BY <3>1, <3>2 DEF Clash
    <3>4. clock' = clock /\ scanned' = scanned /\ Announcements' = Announcements
      BY <2>13 DEF AppendDelete, Announcements
    <3>5. InReach(i) /\ InReach(j)
      BY <3>1, <3>2, <3>3, <3>4, WindowAssumption DEF InReach, Young
    <3>6. Clash(i, j)
      BY <3>3 DEF Clash
    <3>7. \A c : Names(c, i, j)' <=> Names(c, i, j)
      BY <3>3 DEF Names
    <3>8. (\E c \in Announcements : Names(c, i, j)) \/ \E k \in Conns : Held(k, i, j)
      BY <3>3, <3>4, <3>5, <3>6 DEF NoConflictMissed, Held
    <3>9. \A k \in Conns : Held(k, i, j) => Held(k, i, j)'
      BY <2>13, <3>7 DEF AppendDelete, TypeOK, TaskType, Held, WillScan
    <3> QED
      BY <3>4, <3>7, <3>8, <3>9
  <2>14. ASSUME NEW h \in Conns, TellDelete(h)
         PROVE  NoConflictMissed'
    BY <2>14, NothingLost DEF TellDelete, TypeOK, WellFormed, WillScan, Announcements
  <2>15. ASSUME NEW h \in Conns, NEW w \in Worlds, DeleteWorld(h, w)
         PROVE  NoConflictMissed'
    BY <2>15, NothingLost DEF DeleteWorld, TypeOK, WellFormed, WillScan, Announcements
  <2>16. ASSUME NEW w \in Worlds, LeaveWorld(w)
         PROVE  NoConflictMissed'
    BY <2>16, NothingLost DEF LeaveWorld, TypeOK, WillScan, Announcements
  <2>20. ASSUME NEW w \in Worlds, RemovalFails(w)
         PROVE  NoConflictMissed'
    BY <2>20, NothingLost DEF RemovalFails, TypeOK, WillScan, Announcements
  <2>17. CASE Tick
    BY <2>17, NothingLost DEF Tick, TypeOK, WillScan, Announcements
  <2>18. CASE StopDaemon
    BY <2>18 DEF StopDaemon, NoConflictMissed
  <2>19. CASE UNCHANGED vars
    BY <2>19, NothingLost DEF vars, TypeOK, WillScan, Announcements
  <2> QED
    BY <2>1, <2>2, <2>3, <2>4, <2>5, <2>6, <2>7, <2>8, <2>9, <2>10, <2>11, <2>12, <2>13,
       <2>14, <2>15, <2>16, <2>17, <2>18, <2>19, <2>20 DEF Next, Step
<1> QED
  BY <1>1, <1>2, TypeCorrect, PTL DEF Spec

-----------------------------------------------------------------------------
(* Every warning is grounded in the log. *)

\* The log is only ever appended to, so an edit stays recorded (bus.rs:23-32).
LEMMA EditsGrow ==
  ASSUME TypeOK, [Next]_vars
  PROVE  Edits \subseteq Edits'
<1>1. SUFFICES ASSUME NEW e, log' = Append(log, e)
               PROVE  Edits \subseteq Edits'
  <2>1. log' = log \/ \E e : log' = Append(log, e)
    BY DEF Next, vars, Step, HookReport, StampEvent, AppendEvent, NotifyEvent, ScanLog,
           TakeConflict, ReadClaude, TruncateClaude, WriteClaude, AnnounceConflict,
           FinishReport, DeleteWorld, StampDelete, AppendDelete, TellDelete, LeaveWorld,
           RemovalFails, Tick, StopDaemon
  <2>2. CASE log' = log
    BY <2>2 DEF Edits
  <2> QED
    BY <1>1, <2>1, <2>2
<1>2. log \in Seq(Event)
  BY DEF TypeOK
<1>3. DOMAIN log \subseteq DOMAIN log' /\ \A i \in DOMAIN log : log'[i] = log[i]
  BY <1>1, <1>2
<1> QED
  BY <1>3 DEF Edits

\* Whatever detect_conflicts returns is a file and two or more worlds with an
\* edit of it in the log (bus.rs:52-95).
LEMMA DetectedInLog ==
  ASSUME TypeOK, NEW c \in DetectConflicts(ReadRecent(log, clock))
  PROVE  Cardinality(c.worlds) > 1 /\ c.worlds \X {c.file} \subseteq Edits
<1> DEFINE events == ReadRecent(log, clock)
<1>1. PICK f \in Files : /\ c = [file |-> f, worlds |-> Touching(events, f)]
                         /\ Cardinality(Touching(events, f)) > 1
  BY DEF DetectConflicts
<1>2. events \subseteq {log[i] : i \in DOMAIN log} /\ events \subseteq Event
  BY ReadRecentEvents, LogEntries DEF TypeOK
<1>3. ASSUME NEW w \in Touching(events, f)
      PROVE  <<w, f>> \in Edits
  <2>1. PICK e \in events : e.kind \in {"FileModified", "IterationEnd"} /\ e.file = f /\ e.world = w
    BY DEF Touching
  <2>2. e.kind = "FileModified"
    BY <1>2, <2>1 DEF Event
  <2> QED
    BY <1>2, <2>1, <2>2 DEF Edits
<1> QED
  BY <1>1, <1>3

\* A set with more than one element has another one than x.
LEMMA AnotherMember ==
  ASSUME NEW S, NEW x, Cardinality(S) > 1
  PROVE  \E y \in S : y # x
<1> SUFFICES ASSUME S \subseteq {x}
             PROVE  FALSE
  OBVIOUS
<1>1. IsFiniteSet({x}) /\ Cardinality({x}) = 1
  BY FS_Singleton
<1>2. Cardinality(S) <= 1 /\ Cardinality(S) \in Nat
  BY <1>1, FS_Subset, FS_CardinalityType
<1> QED
  BY <1>2

\* A world warned of a conflict is not the reporter and shares the file with a
\* third or with the reporter (mod.rs:64-70).
LEMMA WarnedIsGrounded ==
  ASSUME NEW c \in Conflict, Cardinality(c.worlds) > 1, c.worlds \X {c.file} \subseteq Edits,
         NEW u, NEW w \in ToWarn(c, u)
  PROVE  Grounded(w, [world |-> u, file |-> c.file])
<1>1. w \in c.worlds /\ w # u /\ c.worlds \subseteq Worlds
  BY DEF ToWarn, Conflict
<1>2. \E v \in c.worlds : v # w
  BY AnotherMember
<1> QED
  BY <1>1, <1>2 DEF Grounded

\* It is enough to look at the handler that moved and at what it wrote.
LEMMA OneHandlerMoves ==
  ASSUME GroundingInv, Edits \subseteq Edits', NEW h \in Conns,
         \A k \in Conns \ {h} : task'[k] = task[k],
         TaskGrounded(task[h])',
         \A w \in Worlds : \A x \in claude'[w] \ {Protocol} :
           x \in claude[w] \/ Grounded(w, x)'
  PROVE  GroundingInv'
<1>1. WarningsGrounded'
  BY ZenonT(60) DEF GroundingInv, WarningsGrounded, Grounded
<1>2. ASSUME NEW k \in Conns \ {h}
      PROVE  TaskGrounded(task[k])'
  <2>1. TaskGrounded(task[k]) /\ task'[k] = task[k]
    BY DEF GroundingInv
  <2>2. \A c \in task[k].conflicts : c.worlds \X {c.file} \subseteq Edits'
    BY <2>1 DEF TaskGrounded
  <2>3. task[k].pc \in {"truncate", "write"} =>
          \A x \in task[k].text \ {Protocol} : Grounded(task[k].victim, x)'
    BY <2>1 DEF TaskGrounded, Grounded
  <2> QED
    BY <2>1, <2>2, <2>3 DEF TaskGrounded
<1> QED
  BY <1>1, <1>2 DEF GroundingInv

\* Nothing but the tasks of h changed, and h holds no conflict.
LEMMA NothingHeld ==
  ASSUME GroundingInv, Edits \subseteq Edits', NEW h \in Conns,
         \A k \in Conns \ {h} : task'[k] = task[k],
         task'[h].conflicts = {}, task'[h].pc \notin {"warn", "truncate", "write"},
         \A w \in Worlds : claude'[w] \subseteq claude[w]
  PROVE  GroundingInv'
BY OneHandlerMoves DEF TaskGrounded

\* Conflicts, targets and texts in the handlers' hands are grounded in the log, and so is
\* what they write (mod.rs:60-71, laws.rs:145-162).
THEOREM GroundingInductive == Spec => []GroundingInv
<1>1. Init => GroundingInv
  BY DEF Init, GroundingInv, WarningsGrounded, TaskGrounded, Idle
<1>2. TypeOK /\ GroundingInv /\ [Next]_vars => GroundingInv'
  <2> SUFFICES ASSUME TypeOK, GroundingInv, [Next]_vars
               PROVE  GroundingInv'
    OBVIOUS
  <2>e. Edits \subseteq Edits'
    BY EditsGrow
  <2>t. task \in [Conns -> TaskType] /\ \A h \in Conns : WellFormed(task[h])
    BY DEF TypeOK
  <2>1. ASSUME NEW h \in Conns, NEW w \in Worlds, NEW files \in FileLists,
               HookReport(h, w, files)
        PROVE  GroundingInv'
    <3>1. NextFile(files) \in {"stamp", "scan"}
      BY DEF NextFile
    <3> QED
      BY <2>1, <2>e, <2>t, <3>1, NothingHeld DEF HookReport, Idle
  <2>2. ASSUME NEW h \in Conns, StampEvent(h)
        PROVE  GroundingInv'
    BY <2>2, <2>e, <2>t, NothingHeld DEF StampEvent, TaskType, WellFormed
  <2>3. ASSUME NEW h \in Conns, AppendEvent(h)
        PROVE  GroundingInv'
    BY <2>3, <2>e, <2>t, NothingHeld DEF AppendEvent, TaskType, WellFormed
  <2>4. ASSUME NEW h \in Conns, NotifyEvent(h)
        PROVE  GroundingInv'
    <3>1. NextFile(Tail(task[h].files)) \in {"stamp", "scan"}
      BY DEF NextFile
    <3> QED
      BY <2>4, <2>e, <2>t, <3>1, NothingHeld DEF NotifyEvent, TaskType, WellFormed
  <2>5. ASSUME NEW h \in Conns, ScanLog(h)
        PROVE  GroundingInv'
    <3>1. task'[h].pc = "conflicts" /\ task'[h].conflicts = DetectConflicts(ReadRecent(log, clock))
      BY <2>5, <2>t DEF ScanLog, TaskType
    <3>2. TaskGrounded(task[h])'
      BY <2>e, <3>1, DetectedInLog DEF TaskGrounded
    <3> QED
      BY <2>5, <2>e, <2>t, <3>2, OneHandlerMoves DEF ScanLog
  <2>6. ASSUME NEW h \in Conns, TakeConflict(h)
        PROVE  GroundingInv'
    <3>1. /\ task'[h].pc = "warn" /\ task'[h].conflicts = task[h].conflicts
          /\ task'[h].targets = ToWarn(task'[h].conflict, task'[h].world)
      BY <2>6, <2>t DEF TakeConflict, TaskType
    <3>2. TaskGrounded(task[h])'
      BY <2>e, <3>1 DEF TaskGrounded, GroundingInv
    <3> QED
      BY <2>6, <2>e, <2>t, <3>2, OneHandlerMoves DEF TakeConflict
  <2>7. ASSUME NEW h \in Conns, ReadClaude(h)
        PROVE  GroundingInv'
    <3>1. /\ task[h].pc = "warn" /\ task'[h].pc = "truncate"
          /\ task'[h].conflicts = task[h].conflicts /\ task'[h].conflict = task[h].conflict
          /\ task'[h].world = task[h].world
          /\ task'[h].targets \subseteq task[h].targets
          /\ task'[h].victim \in task[h].targets
          /\ task'[h].text = claude[task'[h].victim]
      BY <2>7, <2>t DEF ReadClaude, TaskType
    <3>2. task[h].targets \subseteq Worlds
      BY <2>t DEF TaskType
    <3>3. task'[h].victim \in ToWarn(task'[h].conflict, task'[h].world)
      BY <3>1 DEF TaskGrounded, GroundingInv
    <3>4. \A x \in task'[h].text \ {Protocol} : Grounded(task[h].victim, x)'
      BY <2>e, <3>1, <3>2 DEF GroundingInv, WarningsGrounded, Grounded
    <3>5. TaskGrounded(task[h])'
      BY <2>e, <3>1, <3>3, <3>4 DEF TaskGrounded, GroundingInv
    <3> QED
      BY <2>7, <2>e, <2>t, <3>5, OneHandlerMoves DEF ReadClaude
  <2>8. ASSUME NEW h \in Conns, TruncateClaude(h)
        PROVE  GroundingInv'
    <3>1. /\ task[h].pc = "truncate" /\ task'[h].pc \in {"warn", "write"}
          /\ task'[h].conflicts = task[h].conflicts /\ task'[h].conflict = task[h].conflict
          /\ task'[h].world = task[h].world /\ task'[h].targets = task[h].targets
          /\ task'[h].victim = task[h].victim /\ task'[h].text = task[h].text
      BY <2>8, <2>t DEF TruncateClaude, TaskType
    <3>2. TaskGrounded(task[h])'
      BY <2>e, <3>1 DEF TaskGrounded, GroundingInv, Grounded
    <3>3. \A w \in Worlds : claude'[w] \subseteq claude[w]
      BY <2>8 DEF TruncateClaude, TypeOK
    <3>4. \A k \in Conns \ {h} : task'[k] = task[k]
      BY <2>8, <2>t DEF TruncateClaude
    <3> QED
      BY <2>e, <3>2, <3>3, <3>4, OneHandlerMoves
  <2>9. ASSUME NEW h \in Conns, WriteClaude(h)
        PROVE  GroundingInv'
    <3> DEFINE v == task[h].victim
               x == WarningOf(task[h])
    <3>1. /\ task[h].pc = "write" /\ task'[h].pc = "warn"
          /\ task'[h].conflicts = task[h].conflicts /\ task'[h].conflict = task[h].conflict
          /\ task'[h].world = task[h].world /\ task'[h].targets = task[h].targets
      BY <2>9, <2>t DEF WriteClaude, TaskType
    <3>2. TaskGrounded(task[h])'
      BY <2>e, <3>1 DEF TaskGrounded, GroundingInv
    <3>3. Grounded(v, x)
      <4>1. task[h].conflict \in task[h].conflicts /\ task[h].conflicts \subseteq Conflict
        BY <2>t, <3>1 DEF WellFormed, TaskType
      <4>2. v \in ToWarn(task[h].conflict, task[h].world)
        BY <3>1 DEF GroundingInv, TaskGrounded
      <4>3. /\ Cardinality(task[h].conflict.worlds) > 1
            /\ task[h].conflict.worlds \X {task[h].conflict.file} \subseteq Edits
        BY <4>1 DEF GroundingInv, TaskGrounded
      <4> QED
        BY <4>1, <4>2, <4>3, WarnedIsGrounded DEF WarningOf
    <3>4. \A y \in task[h].text \ {Protocol} : Grounded(v, y)
      BY <3>1 DEF GroundingInv, TaskGrounded
    <3>5. \A w \in Worlds : w # v => claude'[w] = claude[w]
      BY <2>9 DEF WriteClaude, TypeOK
    <3>6. v \in Worlds => claude'[v] \subseteq claude[v] \union task[h].text \union {x}
      BY <2>9 DEF WriteClaude, TypeOK
    <3>7. \A w \in Worlds : \A y \in claude'[w] \ {Protocol} : y \in claude[w] \/ Grounded(w, y)
      BY <3>3, <3>4, <3>5, <3>6
    <3>8. \A w \in Worlds : \A y \in claude'[w] \ {Protocol} : y \in claude[w] \/ Grounded(w, y)'
      BY <2>e, <3>7 DEF Grounded
    <3>9. \A k \in Conns \ {h} : task'[k] = task[k]
      BY <2>9, <2>t DEF WriteClaude
    <3> QED
      BY <2>e, <3>2, <3>8, <3>9, OneHandlerMoves
  <2>10. ASSUME NEW h \in Conns, AnnounceConflict(h)
         PROVE  GroundingInv'
    <3>1. task'[h].pc = "conflicts" /\ task'[h].conflicts \subseteq task[h].conflicts
      BY <2>10, <2>t DEF AnnounceConflict, TaskType
    <3>2. TaskGrounded(task[h])'
      BY <2>e, <3>1 DEF TaskGrounded, GroundingInv
    <3> QED
      BY <2>10, <2>e, <2>t, <3>2, OneHandlerMoves DEF AnnounceConflict
  <2>11. ASSUME NEW h \in Conns, FinishReport(h)
         PROVE  GroundingInv'
    BY <2>11, <2>e, <2>t, NothingHeld DEF FinishReport, Idle
  <2>12. ASSUME NEW h \in Conns, StampDelete(h)
         PROVE  GroundingInv'
    BY <2>12, <2>e, <2>t, NothingHeld DEF StampDelete, TaskType, WellFormed
  <2>13. ASSUME NEW h \in Conns, AppendDelete(h)
         PROVE  GroundingInv'
    BY <2>13, <2>e, <2>t, NothingHeld DEF AppendDelete, TaskType, WellFormed
  <2>14. ASSUME NEW h \in Conns, TellDelete(h)
         PROVE  GroundingInv'
    BY <2>14, <2>e, <2>t, NothingHeld DEF TellDelete, Idle
  <2>15. ASSUME NEW h \in Conns, NEW w \in Worlds, DeleteWorld(h, w)
         PROVE  GroundingInv'
    <3>1. \A v \in Worlds : claude'[v] \subseteq claude[v]
      BY <2>15 DEF DeleteWorld, RemoveTree, TypeOK
    <3> QED
      BY <2>15, <2>e, <2>t, <3>1, NothingHeld DEF DeleteWorld, Idle
  <2>16. ASSUME NEW w \in Worlds, LeaveWorld(w)
         PROVE  GroundingInv'
    <3>1. \A v \in Worlds : claude'[v] \subseteq claude[v]
      BY <2>16 DEF LeaveWorld, RemoveTree, TypeOK
    <3>2. task' = task
      BY <2>16 DEF LeaveWorld
    <3> QED
      BY <2>e, <3>1, <3>2 DEF GroundingInv, WarningsGrounded, TaskGrounded, Grounded
  <2>20. ASSUME NEW w \in Worlds, RemovalFails(w)
         PROVE  GroundingInv'
    <3>1. \A v \in Worlds : claude'[v] \subseteq claude[v]
      BY <2>20 DEF RemovalFails, TypeOK
    <3>2. task' = task
      BY <2>20 DEF RemovalFails
    <3> QED
      BY <2>e, <3>1, <3>2 DEF GroundingInv, WarningsGrounded, TaskGrounded, Grounded
  <2>17. CASE UNCHANGED <<task, claude>>
    BY <2>e, <2>17 DEF GroundingInv, WarningsGrounded, TaskGrounded, Grounded
  <2>18. CASE StopDaemon
    BY <2>e, <2>18 DEF StopDaemon, Idle, GroundingInv, WarningsGrounded, TaskGrounded, Grounded
  <2>19. Tick \/ UNCHANGED vars => UNCHANGED <<task, claude>>
    BY DEF Tick, vars
  <2> QED
    BY <2>1, <2>2, <2>3, <2>4, <2>5, <2>6, <2>7, <2>8, <2>9, <2>10, <2>11, <2>12, <2>13,
       <2>14, <2>15, <2>16, <2>17, <2>18, <2>19, <2>20 DEF Next, Step
<1> QED
  BY <1>1, <1>2, TypeCorrect, PTL DEF Spec

\* No warning lands in a world that has no part in the conflict.
THEOREM WarningsAreGrounded == Spec => []WarningsGrounded
<1>1. GroundingInv => WarningsGrounded
  BY DEF GroundingInv
<1> QED
  BY <1>1, GroundingInductive, PTL

-----------------------------------------------------------------------------
(* The detector implements the safety part of ConflictPromise. *)

\* Appending event e records an edit exactly if e is a FileModified event.
LEMMA EditsAfterAppend ==
  ASSUME log \in Seq(Event), NEW e, log' = Append(log, e)
  PROVE  Edits' = Edits \union (IF e.kind = "FileModified" THEN {<<e.world, e.file>>} ELSE {})
<1>1. /\ DOMAIN log' = DOMAIN log \union {Len(log) + 1}
      /\ \A i \in DOMAIN log : log'[i] = log[i]
      /\ log'[Len(log) + 1] = e
  OBVIOUS
<1> QED
  BY <1>1 DEF Edits

\* A message of another kind announces nothing.
LEMMA OtherMessage ==
  ASSUME NEW m, m.event # "ConflictDetected", published' = published \union {m}, log' = log
  PROVE  Edits' = Edits /\ Announcements' = Announcements
BY DEF Edits, Announcements

\* Every announcement names worlds that all edited the file, and every step of
\* the detector is an edit, an announcement or neither.
THEOREM DetectorImplementsPromise == Spec => PromiseSafety
<1>1. Init => Promise!Init
  BY DEF Init, Promise!Init, Edits, Announcements
<1>2. TypeOK /\ GroundingInv /\ [Next]_vars
        => [Promise!Edit \/ Promise!Announce]_<<Edits, Announcements>>
  <2> SUFFICES ASSUME TypeOK, GroundingInv, [Next]_vars
               PROVE  [Promise!Edit \/ Promise!Announce]_<<Edits, Announcements>>
    OBVIOUS
  <2>t. /\ task \in [Conns -> TaskType] /\ \A h \in Conns : WellFormed(task[h])
        /\ log \in Seq(Event)
    BY DEF TypeOK
  <2>1. ASSUME NEW h \in Conns, AppendEvent(h)
        PROVE  Promise!Edit
    <3> DEFINE e == [kind |-> "FileModified", world |-> task[h].world,
                     file |-> Head(task[h].files), ts |-> task[h].stamp]
    <3>1. task[h].world \in Worlds /\ Head(task[h].files) \in Files
      BY <2>1, <2>t DEF AppendEvent, WellFormed, TaskType
    <3>2. log' = Append(log, e)
      BY <2>1 DEF AppendEvent
    <3>3. Edits' = Edits \union {<<task[h].world, Head(task[h].files)>>}
      BY <2>t, <3>2, EditsAfterAppend
    <3>4. Announcements' = Announcements
      BY <2>1 DEF AppendEvent, Announcements
    <3> QED
      BY <3>1, <3>3, <3>4 DEF Promise!Edit
  <2>2. ASSUME NEW h \in Conns, AnnounceConflict(h)
        PROVE  Promise!Announce
    <3> DEFINE c == task[h].conflict
               m == [event |-> "ConflictDetected", world |-> task[h].world, conflict |-> c]
    <3>1. c \in task[h].conflicts /\ c \in Conflict
      BY <2>2, <2>t DEF AnnounceConflict, WellFormed, TaskType
    <3>2. Cardinality(c.worlds) > 1 /\ c.worlds \X {c.file} \subseteq Edits
      BY <3>1 DEF GroundingInv, TaskGrounded
    <3>8. \E v, w \in c.worlds : v # w
      BY <3>2, AnotherMember
    <3>3. c = [file |-> c.file, worlds |-> c.worlds] /\ c.file \in Files /\ c.worlds \subseteq Worlds
      BY <3>1 DEF Conflict
    <3>4. published' = published \union {m}
      BY <2>2 DEF AnnounceConflict
    <3>5. m.event = "ConflictDetected" /\ m.conflict = c
      OBVIOUS
    <3> HIDE DEF m
    <3>6. Announcements' = Announcements \union {c}
      BY <3>4, <3>5 DEF Announcements
    <3>7. Edits' = Edits
      BY <2>2 DEF AnnounceConflict, Edits
    <3> HIDE DEF c
    <3> QED
      BY <3>2, <3>8, <3>3, <3>6, <3>7 DEF Promise!Announce, Promise!Real
  <2>3. ASSUME NEW h \in Conns, AppendDelete(h)
        PROVE  UNCHANGED <<Edits, Announcements>>
    <3> DEFINE e == [kind |-> "WorldDeleted", world |-> task[h].world,
                     file |-> NoFile, ts |-> task[h].stamp]
    <3>1. log' = Append(log, e) /\ e.kind # "FileModified"
      BY <2>3 DEF AppendDelete
    <3> HIDE DEF e
    <3>2. Edits' = Edits
      BY <2>t, <3>1, EditsAfterAppend
    <3>3. Announcements' = Announcements
      BY <2>3 DEF AppendDelete, Announcements
    <3> QED
      BY <3>2, <3>3
  <2>4. ASSUME NEW h \in Conns, NotifyEvent(h)
        PROVE  UNCHANGED <<Edits, Announcements>>
    <3> DEFINE m == [event |-> "FileModified", world |-> task[h].world,
                     file |-> Head(task[h].files)]
    <3>1. m.event # "ConflictDetected" /\ published' = published \union {m} /\ log' = log
      BY <2>4 DEF NotifyEvent
    <3> HIDE DEF m
    <3>2. Edits' = Edits /\ Announcements' = Announcements
      BY <3>1, OtherMessage
    <3> QED
      BY <3>2
  <2>5. ASSUME NEW h \in Conns, TellDelete(h)
        PROVE  UNCHANGED <<Edits, Announcements>>
    <3> DEFINE m == [event |-> "WorldDeleted", world |-> task[h].world]
    <3>1. m.event # "ConflictDetected" /\ published' = published \union {m} /\ log' = log
      BY <2>5 DEF TellDelete
    <3> HIDE DEF m
    <3>2. Edits' = Edits /\ Announcements' = Announcements
      BY <3>1, OtherMessage
    <3> QED
      BY <3>2
  <2>6. CASE UNCHANGED <<log, published>>
    BY <2>6 DEF Edits, Announcements
  <2>7. \/ \E h \in Conns : \/ AppendEvent(h) \/ AnnounceConflict(h) \/ AppendDelete(h)
                            \/ NotifyEvent(h) \/ TellDelete(h)
        \/ UNCHANGED <<log, published>>
    BY DEF Next, vars, Step, HookReport, StampEvent, ScanLog, TakeConflict, ReadClaude,
           TruncateClaude, WriteClaude, FinishReport, DeleteWorld, StampDelete,
           LeaveWorld, RemovalFails, Tick, StopDaemon
  <2> QED
    BY <2>1, <2>2, <2>3, <2>4, <2>5, <2>6, <2>7
<1> QED
  BY <1>1, <1>2, TypeCorrect, GroundingInductive, PTL DEF Spec, PromiseSafety, Promise!Safety

\* So a conflict that is announced names two worlds at least, and each of them has an
\* edit of its file in the log, whatever was announced and logged in between.
THEOREM AnnouncementsAreReal == Spec => []Promise!AnnouncedReal
<1>1. Promise!Init => Promise!AnnouncedReal
  BY DEF Promise!Init, Promise!AnnouncedReal
<1>2. Promise!AnnouncedReal /\ [Promise!Edit \/ Promise!Announce]_<<Edits, Announcements>>
        => Promise!AnnouncedReal'
  <2> SUFFICES ASSUME Promise!AnnouncedReal, 
                      Promise!Edit \/ Promise!Announce \/ UNCHANGED <<Edits, Announcements>>
               PROVE  Promise!AnnouncedReal'
    OBVIOUS
  <2>1. Edits \subseteq Edits'
    BY DEF Promise!Edit, Promise!Announce
  <2>2. \A c \in Announcements' : c \in Announcements \/ Promise!Real(c)
    BY DEF Promise!Edit, Promise!Announce
  <2>3. \A c \in Announcements' : Promise!Real(c)
    BY <2>2 DEF Promise!AnnouncedReal
  <2>4. \A c : Promise!Real(c) => Promise!Real(c)'
    BY <2>1 DEF Promise!Real
  <2> QED BY <2>3, <2>4 DEF Promise!AnnouncedReal
<1> QED BY <1>1, <1>2, DetectorImplementsPromise, PTL DEF PromiseSafety, Promise!Safety

-----------------------------------------------------------------------------
(* The rules in CLAUDE.md. *)

\* What makes RulesKept inductive: a file that was never in the hands of two handlers
\* is in the hands of at most one, which has read the rules and will write them back.
RulesInv ==
  /\ stops \in Nat
  /\ stops = 0 => \A w \in trees \ spoiled :
       /\ \A g, h \in Conns : InHand(g, w) /\ InHand(h, w) => g = h
       /\ \A h \in Conns : InHand(h, w) => Protocol \in task[h].text
       /\ (\A h \in Conns : ~(task[h].pc = "write" /\ task[h].victim = w))
            => Protocol \in claude[w]

\* A step that takes no file in hand or out of it, and changes none of a world that stays,
\* unless it notes that the file is spoiled.
HandsOff ==
  /\ \A g \in Conns : task'[g].pc \in {"truncate", "write"} => task'[g] = task[g]
  /\ \A g \in Conns : task[g].pc = "write" => task'[g] = task[g]
  /\ trees' \subseteq trees
  /\ \A w \in trees' \ spoiled' : claude'[w] = claude[w]
  /\ spoiled \subseteq spoiled' /\ stops' = stops

\* Such a step does no harm to the rules.
LEMMA HandsOffKeeps == ASSUME RulesInv, HandsOff PROVE RulesInv'
BY DEF RulesInv, HandsOff, InHand

\* All steps but those that write CLAUDE.md, and the end of the daemon, keep their hands
\* off the file (mod.rs:33-142).
LEMMA OthersKeepHandsOff ==
  ASSUME TypeOK,
         \/ \E h \in Conns, w \in Worlds, files \in FileLists : HookReport(h, w, files)
         \/ \E h \in Conns, w \in Worlds : DeleteWorld(h, w)
         \/ \E h \in Conns : \/ StampEvent(h) \/ AppendEvent(h) \/ NotifyEvent(h)
                             \/ ScanLog(h) \/ TakeConflict(h) \/ AnnounceConflict(h)
                             \/ FinishReport(h) \/ StampDelete(h) \/ AppendDelete(h)
                             \/ TellDelete(h)
         \/ \E w \in Worlds : LeaveWorld(w) \/ RemovalFails(w)
         \/ Tick \/ UNCHANGED vars
  PROVE  HandsOff
<1>0. \A h \in Conns : task[h] \in TaskType
  BY DEF TypeOK
<1>1. ASSUME NEW h \in Conns, NEW w \in Worlds, NEW files \in FileLists, HookReport(h, w, files)
      PROVE  HandsOff
  BY <1>1 DEF HookReport, HandsOff, TypeOK, Idle, NextFile
<1>2. ASSUME NEW h \in Conns, StampEvent(h) \/ AppendEvent(h) \/ StampDelete(h) \/ AppendDelete(h)
      PROVE  HandsOff
  BY <1>2 DEF StampEvent, AppendEvent, StampDelete, AppendDelete, HandsOff, TypeOK, TaskType
<1>3. ASSUME NEW h \in Conns, NotifyEvent(h) PROVE HandsOff
  <2>1. /\ task[h].pc = "notify" /\ task'[h].pc \in {"stamp", "scan"}
        /\ \A g \in Conns \ {h} : task'[g] = task[g]
    BY <1>3 DEF NotifyEvent, TypeOK, TaskType, NextFile
  <2> QED BY <1>3, <2>1 DEF NotifyEvent, HandsOff
<1>4. ASSUME NEW h \in Conns, ScanLog(h) \/ TakeConflict(h) \/ AnnounceConflict(h) PROVE HandsOff
  <2>1. /\ task[h].pc \in {"scan", "conflicts", "warn"} /\ task'[h].pc \in {"conflicts", "warn"}
        /\ \A g \in Conns \ {h} : task'[g] = task[g]
    <3>1. CASE ScanLog(h)
      BY <3>1, <1>0 DEF ScanLog, TypeOK, TaskType
    <3>2. CASE TakeConflict(h)
      <4>1. PICK c \in task[h].conflicts :
              task' = [task EXCEPT ![h].pc = "warn", ![h].conflict = c,
                                   ![h].targets = ToWarn(c, task[h].world)]
        BY <3>2 DEF TakeConflict
      <4> QED BY <3>2, <4>1, <1>0, ZenonT(60) DEF TakeConflict, TypeOK, TaskType
    <3>3. CASE AnnounceConflict(h)
      BY <3>3, <1>0 DEF AnnounceConflict, TypeOK, TaskType
    <3> QED BY <1>4, <3>1, <3>2, <3>3
  <2> QED BY <1>4, <2>1 DEF ScanLog, TakeConflict, AnnounceConflict, HandsOff
<1>5. ASSUME NEW h \in Conns, FinishReport(h) \/ TellDelete(h) PROVE HandsOff
  BY <1>5 DEF FinishReport, TellDelete, HandsOff, TypeOK, Idle
<1>6. ASSUME NEW h \in Conns, NEW w \in Worlds, DeleteWorld(h, w) PROVE HandsOff
  BY <1>6 DEF DeleteWorld, RemoveTree, HandsOff, TypeOK, Idle
<1>7. ASSUME NEW w \in Worlds, LeaveWorld(w) PROVE HandsOff
  BY <1>7 DEF LeaveWorld, RemoveTree, HandsOff, TypeOK
<1>9. ASSUME NEW w \in Worlds, RemovalFails(w) PROVE HandsOff
  BY <1>9 DEF RemovalFails, HandsOff, TypeOK
<1>8. CASE Tick \/ UNCHANGED vars
  BY <1>8 DEF Tick, vars, HandsOff
<1> QED BY <1>1, <1>2, <1>3, <1>4, <1>5, <1>6, <1>7, <1>8, <1>9

\* Each step of the handlers, of deletions and of the clock keeps the rules of files that
\* were never in two hands (mod.rs:62-71, laws.rs:145-162).
LEMMA RulesStep == ASSUME TypeOK, RulesInv, [Next]_vars PROVE RulesInv'
<1>0. \A h \in Conns : task[h] \in TaskType
  BY DEF TypeOK
<1>8. ASSUME NEW h \in Conns, ReadClaude(h) PROVE RulesInv'
  <2>1. PICK w \in task[h].targets :
          /\ task' = [task EXCEPT ![h].pc = "truncate", ![h].victim = w,
                                  ![h].targets = @ \ {w}, ![h].text = claude[w]]
          /\ spoiled' = IF \E g \in Conns : InHand(g, w) THEN spoiled \union {w} ELSE spoiled
    BY <1>8 DEF ReadClaude
  <2>2. /\ task[h].pc = "warn" /\ task'[h].pc = "truncate" /\ task'[h].victim = w
        /\ task'[h].text = claude[w]
        /\ \A g \in Conns \ {h} : task'[g] = task[g]
    BY <1>8, <1>0, <2>1 DEF ReadClaude, TypeOK, TaskType
  <2>3. UNCHANGED <<trees, claude, stops>>
    BY <1>8 DEF ReadClaude
  <2>4. \A g \in Conns : ~InHand(g, w) \/ w \in spoiled'
    BY <2>1
  <2>5. \A g \in Conns, v \in Worlds : InHand(g, v)' => InHand(g, v) \/ (g = h /\ v = w)
    BY <2>2 DEF InHand
  <2>6. spoiled \subseteq spoiled'
    BY <2>1
  <2>7. trees \subseteq Worlds
    BY DEF TypeOK
  <2>8. ASSUME stops = 0, NEW v \in trees \ spoiled'
        PROVE  /\ \A f, g \in Conns : InHand(f, v)' /\ InHand(g, v)' => f = g
               /\ \A g \in Conns : InHand(g, v)' => Protocol \in task'[g].text
               /\ Protocol \in claude[v] \/ \E g \in Conns : task'[g].pc = "write" /\ task'[g].victim = v
    <3>1. v \in trees \ spoiled
      BY <2>6, <2>8
    <3>2. CASE v = w
      <4>1. \A g \in Conns : ~InHand(g, w)
        BY <2>4, <2>8, <3>2
      <4>2. Protocol \in claude[w]
        BY <2>8, <3>1, <3>2, <4>1 DEF RulesInv, InHand
      <4>3. \A g \in Conns : InHand(g, v)' => g = h
        BY <2>5, <2>7, <3>2, <4>1
      <4> QED BY <2>2, <3>2, <4>2, <4>3
    <3>3. CASE v # w
      <4>1. \A g \in Conns : InHand(g, v)' => InHand(g, v) /\ g # h
        BY <2>2, <2>5, <2>7, <3>3 DEF InHand
      <4>2. \A g \in Conns : InHand(g, v)' => task'[g] = task[g]
        BY <2>2, <4>1
      <4>3. \A g \in Conns : task[g].pc = "write" => task'[g] = task[g]
        BY <2>2
      <4> QED BY <2>8, <3>1, <4>1, <4>2, <4>3 DEF RulesInv
    <3> QED BY <3>2, <3>3
  <2> QED BY <2>3, <2>8 DEF RulesInv
<1>9. ASSUME NEW h \in Conns, TruncateClaude(h) PROVE RulesInv'
  <2>1. /\ task[h].pc = "truncate" /\ UNCHANGED <<trees, stops, spoiled>>
        /\ \A g \in Conns \ {h} : task'[g] = task[g]
        /\ task'[h].victim = task[h].victim /\ task'[h].text = task[h].text
        /\ \/ /\ task'[h].pc = "write"
              /\ \A w \in Worlds \ {task[h].victim} : claude'[w] = claude[w]
           \/ task'[h].pc = "warn" /\ task[h].victim \notin trees /\ claude' = claude
    BY <1>9, <1>0 DEF TruncateClaude, TypeOK, TaskType
  <2> QED BY <2>1 DEF RulesInv, InHand, TypeOK
<1>10. ASSUME NEW h \in Conns, WriteClaude(h) PROVE RulesInv'
  <2>1. /\ task[h].pc = "write" /\ task'[h].pc = "warn" /\ UNCHANGED <<trees, stops, spoiled>>
        /\ \A g \in Conns \ {h} : task'[g] = task[g]
        /\ \A w \in Worlds \ {task[h].victim} : claude'[w] = claude[w]
    BY <1>10, <1>0 DEF WriteClaude, TypeOK, TaskType
  <2>2. task[h].victim \in trees \ spoiled => task[h].text \subseteq claude'[task[h].victim]
    BY <1>10 DEF WriteClaude, TypeOK
  <2> QED BY <2>1, <2>2 DEF RulesInv, InHand, TypeOK
<1>11. CASE StopDaemon
  BY <1>11 DEF StopDaemon, RulesInv
<1>12. CASE HandsOff
  BY <1>12, HandsOffKeeps
<1> QED
  BY <1>8, <1>9, <1>10, <1>11, <1>12, OthersKeepHandsOff DEF Next, Step

\* For any number of handlers: unless the daemon is stopped, only two handlers that have
\* the same CLAUDE.md in hand at the same time, or a removal of its world that fails half
\* way, can make it lose the rules (laws.rs:145-162).
THEOREM RulesStay == Spec => []RulesKept
<1>1. Init => RulesInv
  BY DEF Init, RulesInv, Idle, InHand
<1>2. RulesInv => RulesKept
  BY DEF RulesInv, RulesKept
<1> QED BY <1>1, <1>2, RulesStep, TypeCorrect, PTL DEF Spec

-----------------------------------------------------------------------------
(* Someone is warned of each recent conflict. *)

\* A step that keeps its hands off the files leaves them in the hands that had them.
LEMMA HandsOffLeaves ==
  ASSUME HandsOff
  PROVE  /\ HandsInv => HandsInv'
         /\ \A w \in trees' \ spoiled', f \in Files : Told(w, f) => Told(w, f)'
<1>1. HandsInv => HandsInv'
  BY DEF HandsOff, HandsInv, InHand
<1>2. ASSUME NEW w \in trees' \ spoiled', NEW f \in Files, Told(w, f)
      PROVE  Told(w, f)'
  <2>1. claude'[w] = claude[w]
    BY DEF HandsOff
  <2>2. \A g \in Conns : task[g].pc = "write" \/ task'[g].pc = "write" => task'[g] = task[g]
    BY DEF HandsOff
  <2> QED BY <1>2, <2>1, <2>2 DEF Told, Tells
<1> QED BY <1>1, <1>2

\* A handler takes a CLAUDE.md in hand by reading it, and whoever else has it in hand then
\* is noted; only its own steps change the file as long as it is alone (laws.rs:145-162).
LEMMA HandsStep == ASSUME TypeOK, HandsInv, [Next]_vars PROVE HandsInv'
<1>0. trees \subseteq Worlds /\ \A h \in Conns : task[h] \in TaskType
  BY DEF TypeOK
<1>1. ASSUME NEW h \in Conns, ReadClaude(h) PROVE HandsInv'
  <2>1. PICK w \in task[h].targets :
          /\ task' = [task EXCEPT ![h].pc = "truncate", ![h].victim = w,
                                  ![h].targets = @ \ {w}, ![h].text = claude[w]]
          /\ spoiled' = IF \E g \in Conns : InHand(g, w) THEN spoiled \union {w} ELSE spoiled
    BY <1>1 DEF ReadClaude
  <2>2. /\ task[h].pc = "warn" /\ task'[h].pc = "truncate" /\ task'[h].victim = w
        /\ task'[h].text = claude[w]
        /\ \A g \in Conns \ {h} : task'[g] = task[g]
    BY <1>0, <1>1, <2>1 DEF ReadClaude, TypeOK, TaskType
  <2>3. UNCHANGED <<trees, claude>> /\ spoiled \subseteq spoiled'
    BY <1>1, <2>1 DEF ReadClaude
  <2>4. (\A g \in Conns : ~InHand(g, w)) \/ w \in spoiled'
    BY <2>1
  <2> QED BY <2>2, <2>3, <2>4 DEF HandsInv, InHand
<1>2. ASSUME NEW h \in Conns, TruncateClaude(h) PROVE HandsInv'
  <2>1. /\ task[h].pc = "truncate" /\ UNCHANGED <<trees, spoiled>>
        /\ \A g \in Conns \ {h} : task'[g] = task[g]
        /\ task'[h].victim = task[h].victim /\ task'[h].pc \in {"write", "warn"}
        /\ \A w \in Worlds \ {task[h].victim} : claude'[w] = claude[w]
    BY <1>0, <1>2 DEF TruncateClaude, TypeOK, TaskType
  <2> QED BY <1>0, <2>1 DEF HandsInv, InHand
<1>3. ASSUME NEW h \in Conns, WriteClaude(h) PROVE HandsInv'
  <2>1. /\ task[h].pc = "write" /\ task'[h].pc = "warn" /\ UNCHANGED <<trees, spoiled>>
        /\ \A g \in Conns \ {h} : task'[g] = task[g]
        /\ \A w \in Worlds \ {task[h].victim} : claude'[w] = claude[w]
    BY <1>0, <1>3 DEF WriteClaude, TypeOK, TaskType
  <2> QED BY <1>0, <2>1 DEF HandsInv, InHand
<1>4. CASE StopDaemon
  BY <1>4 DEF StopDaemon, HandsInv, InHand, Idle
<1> QED
  BY <1>1, <1>2, <1>3, <1>4, OthersKeepHandsOff, HandsOffLeaves DEF Next, Step

\* A clash that is within reach after a step that appends no edit was so before (bus.rs:23-64).
LEMMA ClashFromBefore ==
  ASSUME TypeOK, TypeOK', clock' >= clock,
         log' = log \/ \E h \in Conns : AppendDelete(h),
         NEW i \in DOMAIN log', NEW j \in DOMAIN log',
         InReach(i)', InReach(j)', Clash(i, j)'
  PROVE  /\ i \in DOMAIN log /\ j \in DOMAIN log
         /\ log'[i] = log[i] /\ log'[j] = log[j]
         /\ InReach(i) /\ InReach(j) /\ Clash(i, j)
<1>1. log \in Seq(Event) /\ Len(log) \in Nat /\ clock \in Nat /\ clock' \in Nat
  BY DEF TypeOK
<1>2. /\ Len(log') >= Len(log) /\ Len(log') \in Nat
      /\ \A k \in DOMAIN log' : (k \in DOMAIN log /\ log'[k] = log[k]) \/ log'[k].kind = "WorldDeleted"
  <2>1. CASE log' = log
    BY <1>1, <2>1
  <2>2. ASSUME NEW h \in Conns, AppendDelete(h)
        PROVE  /\ Len(log') = Len(log) + 1 /\ log'[Len(log) + 1].kind = "WorldDeleted"
               /\ \A k \in 1..Len(log) : log'[k] = log[k]
               /\ DOMAIN log' = 1..(Len(log) + 1) /\ DOMAIN log = 1..Len(log)
    BY <1>1, <2>2 DEF AppendDelete
  <2>3. CASE \E h \in Conns : AppendDelete(h)
    BY <1>1, <2>2, <2>3
  <2> QED BY <2>1, <2>3
<1>3. i \in DOMAIN log /\ j \in DOMAIN log /\ log'[i] = log[i] /\ log'[j] = log[j]
  BY <1>2 DEF Clash
<1>4. Clash(i, j)
  BY <1>3 DEF Clash
<1>5. log[i].ts \in Nat /\ log[j].ts \in Nat
  <2>1. log[i] \in Event /\ log[j] \in Event
    BY <1>1, <1>3
  <2> QED BY <2>1 DEF Event
<1>6. Len(log') >= Len(log) /\ Len(log') \in Nat
  BY <1>2
<1>7. ASSUME NEW k \in DOMAIN log, k \in Nat, log'[k] = log[k], log[k].ts \in Nat, InReach(k)'
      PROVE  InReach(k)
  <2>1. log[k].ts + MaxAge > clock' /\ Len(log') - k < WindowSize
    BY <1>7 DEF InReach, Young
  <2> HIDE DEF InReach
  <2>2. log[k].ts + MaxAge > clock /\ Len(log) - k < WindowSize
    BY <1>1, <1>6, <1>7, <2>1, WindowAssumption, SMTT(30)
  <2> QED BY <2>2 DEF InReach, Young
<1> QED
  BY <1>1, <1>3, <1>4, <1>5, <1>7

\* A step that appends no edit, loses no handler that will scan, and drops no warning that
\* is due unless it is written, leaves someone warned of each clash (mod.rs:39-88).
LEMMA WarningsStay ==
  ASSUME TypeOK, TypeOK', WarnInv, clock' >= clock, scanned' = scanned,
         log' = log \/ \E h \in Conns : AppendDelete(h),
         trees' \subseteq trees, spoiled \subseteq spoiled',
         \A h \in Conns : WillScan(h) => WillScan(h)',
         \A w \in trees' \ spoiled', f \in Files : Told(w, f) => Told(w, f)',
         \A i, j \in DOMAIN log : \A h \in Conns :
           /\ log'[i] = log[i] /\ log'[j] = log[j] /\ Clash(i, j) /\ WillWarn(h, i, j)
           /\ {log[i].world, log[j].world} \subseteq trees' \ spoiled'
           => WillWarn(h, i, j)' \/ \E k \in {i, j} : Told(log[k].world, log[k].file)'
  PROVE  WarnInv'
<1> SUFFICES ASSUME scanned', NEW i \in DOMAIN log', NEW j \in DOMAIN log',
                    InReach(i)', InReach(j)', Clash(i, j)',
                    ({log[i].world, log[j].world} \subseteq trees \ spoiled)'
             PROVE  (\/ \E h \in Conns : WillScan(h) \/ WillWarn(h, i, j)
                     \/ \E k \in {i, j} : Told(log[k].world, log[k].file))'
  BY DEF WarnInv
<1>1. /\ i \in DOMAIN log /\ j \in DOMAIN log
      /\ log'[i] = log[i] /\ log'[j] = log[j]
      /\ InReach(i) /\ InReach(j) /\ Clash(i, j)
  BY ClashFromBefore
<1>2. {log[i].world, log[j].world} \subseteq trees' \ spoiled'
  BY <1>1
<1>3. log[i].file \in Files /\ log[j].file \in Files
  BY <1>1 DEF TypeOK, Event, Clash
<1>4. \/ \E h \in Conns : WillScan(h) \/ WillWarn(h, i, j)
      \/ \E k \in {i, j} : Told(log[k].world, log[k].file)
  BY <1>1, <1>2 DEF WarnInv
<1>5. CASE \E h \in Conns : WillScan(h)
  BY <1>5
<1>6. CASE \E h \in Conns : WillWarn(h, i, j)
  BY <1>1, <1>2, <1>6
<1>7. CASE \E k \in {i, j} : Told(log[k].world, log[k].file)
  BY <1>1, <1>2, <1>3, <1>7
<1> QED BY <1>4, <1>5, <1>6, <1>7

\* Taking a conflict: of the two worlds of a clash one does not report itself (mod.rs:62-66).
LEMMA TakeWarns ==
  ASSUME TypeOK, TypeOK', WarnInv, NEW h \in Conns, TakeConflict(h)
  PROVE  WarnInv'
<1>1. PICK c \in task[h].conflicts :
        task' = [task EXCEPT ![h].pc = "warn", ![h].conflict = c,
                             ![h].targets = ToWarn(c, task[h].world)]
  BY DEF TakeConflict
<1>2. /\ task[h].pc = "conflicts" /\ task'[h].pc = "warn" /\ task'[h].conflict = c
      /\ task'[h].targets = ToWarn(c, task[h].world) /\ task'[h].conflicts = task[h].conflicts
      /\ \A g \in Conns \ {h} : task'[g] = task[g]
  BY <1>1 DEF TakeConflict, TypeOK, TaskType
<1>3. UNCHANGED <<log, clock, trees, claude, scanned, spoiled>>
  BY DEF TakeConflict
<1>4. HandsOff
  BY OthersKeepHandsOff
<1>5. ASSUME NEW i \in DOMAIN log, NEW j \in DOMAIN log, NEW g \in Conns,
             Clash(i, j), WillWarn(g, i, j)
      PROVE  WillWarn(g, i, j)'
  <2>1. \A d : Names(d, i, j)' <=> Names(d, i, j)
    BY <1>3 DEF Names
  <2>2. CASE g # h
    BY <1>2, <1>3, <1>5, <2>1, <2>2 DEF WillWarn, Unwarned
  <2>3. CASE g = h
    <3>1. PICK d \in task[h].conflicts : Names(d, i, j)
      BY <1>5, <2>3 DEF WillWarn
    <3>2. d = c => \E k \in {i, j} : log[k].world \in ToWarn(c, task[h].world)
      BY <1>5, <3>1 DEF Names, ToWarn, Clash
    <3> QED BY <1>2, <1>3, <2>1, <2>3, <3>1, <3>2 DEF WillWarn, Unwarned
  <2> QED BY <2>2, <2>3
<1>6. \A g \in Conns : WillScan(g) => WillScan(g)'
  BY <1>2 DEF WillScan
<1> QED BY <1>3, <1>4, <1>5, <1>6, HandsOffLeaves, WarningsStay DEF TypeOK

\* A conflict is dropped when all its worlds were warned (mod.rs:73-84).
LEMMA AnnounceWarns ==
  ASSUME TypeOK, TypeOK', WarnInv, NEW h \in Conns, AnnounceConflict(h)
  PROVE  WarnInv'
<1>1. /\ task[h].pc = "warn" /\ task[h].targets = {} /\ task'[h].pc = "conflicts"
      /\ task'[h].conflicts = task[h].conflicts \ {task[h].conflict}
      /\ \A g \in Conns \ {h} : task'[g] = task[g]
  BY DEF AnnounceConflict, TypeOK, TaskType
<1>2. UNCHANGED <<log, clock, trees, claude, scanned, spoiled>>
  BY DEF AnnounceConflict
<1>3. HandsOff
  BY OthersKeepHandsOff
<1>4. ASSUME NEW i \in DOMAIN log, NEW j \in DOMAIN log, NEW g \in Conns, WillWarn(g, i, j)
      PROVE  WillWarn(g, i, j)'
  <2>1. \A d : Names(d, i, j)' <=> Names(d, i, j)
    BY <1>2 DEF Names
  <2>2. CASE g # h
    BY <1>1, <1>2, <1>4, <2>1, <2>2 DEF WillWarn, Unwarned
  <2>3. CASE g = h
    BY <1>1, <1>2, <1>4, <2>1, <2>3 DEF WillWarn, Unwarned
  <2> QED BY <2>2, <2>3
<1>5. \A g \in Conns : WillScan(g) => WillScan(g)'
  BY <1>1 DEF WillScan
<1> QED BY <1>2, <1>3, <1>4, <1>5, HandsOffLeaves, WarningsStay DEF TypeOK

\* Reading a CLAUDE.md moves a world from those to warn into the handler's hands.
LEMMA ReadWarns ==
  ASSUME TypeOK, TypeOK', WarnInv, NEW h \in Conns, ReadClaude(h)
  PROVE  WarnInv'
<1>1. PICK w \in task[h].targets :
        /\ task' = [task EXCEPT ![h].pc = "truncate", ![h].victim = w,
                                ![h].targets = @ \ {w}, ![h].text = claude[w]]
        /\ spoiled' = IF \E g \in Conns : InHand(g, w) THEN spoiled \union {w} ELSE spoiled
  BY DEF ReadClaude
<1>2. /\ task[h].pc = "warn" /\ task'[h].pc = "truncate" /\ task'[h].victim = w
      /\ task'[h].targets = task[h].targets \ {w} /\ task'[h].conflict = task[h].conflict
      /\ task'[h].conflicts = task[h].conflicts
      /\ \A g \in Conns \ {h} : task'[g] = task[g]
  BY <1>1 DEF ReadClaude, TypeOK, TaskType
<1>3. UNCHANGED <<log, clock, trees, claude, scanned>> /\ spoiled \subseteq spoiled'
  BY <1>1 DEF ReadClaude
<1>4. Unwarned(task[h]) = Unwarned(task'[h])
  BY <1>2 DEF Unwarned
<1>5. ASSUME NEW i \in DOMAIN log, NEW j \in DOMAIN log, NEW g \in Conns, WillWarn(g, i, j)
      PROVE  WillWarn(g, i, j)'
  <2>1. \A d : Names(d, i, j)' <=> Names(d, i, j)
    BY <1>3 DEF Names
  <2>2. CASE g # h
    BY <1>2, <1>3, <1>5, <2>1, <2>2 DEF WillWarn, Unwarned
  <2>3. CASE g = h
    BY <1>2, <1>3, <1>4, <1>5, <2>1, <2>3 DEF WillWarn
  <2> QED BY <2>2, <2>3
<1>6. \A g \in Conns : WillScan(g) => WillScan(g)'
  BY <1>2 DEF WillScan
<1>7. \A v \in trees' \ spoiled', f \in Files : Told(v, f) => Told(v, f)'
  BY <1>2, <1>3 DEF Told, Tells
<1> QED BY <1>3, <1>5, <1>6, <1>7, WarningsStay DEF TypeOK

\* Truncating a CLAUDE.md loses nothing that the only handler with it in hand has not read.
LEMMA TruncateWarns ==
  ASSUME TypeOK, TypeOK', HandsInv, WarnInv, NEW h \in Conns, TruncateClaude(h)
  PROVE  WarnInv'
<1>1. /\ task[h].pc = "truncate" /\ UNCHANGED <<log, clock, trees, scanned, spoiled>>
      /\ \A g \in Conns \ {h} : task'[g] = task[g]
      /\ task'[h].victim = task[h].victim /\ task'[h].text = task[h].text
      /\ task'[h].targets = task[h].targets /\ task'[h].conflict = task[h].conflict
      /\ task'[h].conflicts = task[h].conflicts
      /\ \/ /\ task'[h].pc = "write"
            /\ \A w \in Worlds \ {task[h].victim} : claude'[w] = claude[w]
         \/ task'[h].pc = "warn" /\ task[h].victim \notin trees /\ claude' = claude
  BY DEF TruncateClaude, TypeOK, TaskType
<1>2. trees \subseteq Worlds
  BY DEF TypeOK
<1>3. ASSUME NEW i \in DOMAIN log, NEW j \in DOMAIN log, NEW g \in Conns, WillWarn(g, i, j),
             {log[i].world, log[j].world} \subseteq trees
      PROVE  WillWarn(g, i, j)'
  <2>1. \A d : Names(d, i, j)' <=> Names(d, i, j)
    BY <1>1 DEF Names
  <2>2. CASE g # h
    BY <1>1, <1>3, <2>1, <2>2 DEF WillWarn, Unwarned
  <2>3. CASE g = h
    <3>1. \A k \in {i, j} : log[k].world \in Unwarned(task[h]) => log[k].world \in Unwarned(task'[h])
      BY <1>1, <1>3 DEF Unwarned
    <3> QED BY <1>1, <1>3, <2>1, <2>3, <3>1 DEF WillWarn
  <2> QED BY <2>2, <2>3
<1>4. \A g \in Conns : WillScan(g) => WillScan(g)'
  BY <1>1 DEF WillScan
<1>5. ASSUME NEW w \in trees' \ spoiled', NEW f \in Files, Told(w, f)
      PROVE  Told(w, f)'
  <2>1. CASE w # task[h].victim
    BY <1>1, <1>2, <1>5, <2>1 DEF Told, Tells
  <2>2. CASE w = task[h].victim
    <3>1. InHand(h, w) /\ w \in trees \ spoiled /\ task'[h].pc = "write"
      BY <1>1, <1>5, <2>2 DEF InHand
    <3>2. task[h].text = claude[w] /\ \A g \in Conns : task[g].pc = "write" => task[g].victim # w
      BY <1>1, <3>1 DEF HandsInv, InHand
    <3>3. Tells(task[h].text, f)
      BY <1>5, <3>2 DEF Told
    <3> QED BY <1>1, <2>2, <3>1, <3>3 DEF Told, Tells
  <2> QED BY <2>1, <2>2
<1> QED BY <1>1, <1>3, <1>4, <1>5, WarningsStay DEF TypeOK

\* What the only handler with a CLAUDE.md in hand writes has all it read, and the warning.
LEMMA WriteWarns ==
  ASSUME TypeOK, TypeOK', HandsInv, WarnInv, NEW h \in Conns, WriteClaude(h)
  PROVE  WarnInv'
<1>1. /\ task[h].pc = "write" /\ task'[h].pc = "warn"
      /\ UNCHANGED <<log, clock, trees, scanned, spoiled>>
      /\ \A g \in Conns \ {h} : task'[g] = task[g]
      /\ task'[h].targets = task[h].targets /\ task'[h].conflict = task[h].conflict
      /\ task'[h].conflicts = task[h].conflicts
      /\ \A w \in Worlds \ {task[h].victim} : claude'[w] = claude[w]
  BY DEF WriteClaude, TypeOK, TaskType
<1>2. trees \subseteq Worlds
  BY DEF TypeOK
<1>3. task[h].victim \in trees \ spoiled =>
        task[h].text \union {WarningOf(task[h])} \subseteq claude'[task[h].victim]
  BY <1>2 DEF WriteClaude, TypeOK
<1>4. WarningOf(task[h]).file = task[h].conflict.file
  BY DEF WarningOf
<1>5. WarningOf(task[h]) # Protocol
  <2>1. task[h] \in TaskType /\ WellFormed(task[h])
    BY DEF TypeOK
  <2>2. WarningOf(task[h]) \in Warning
    BY <1>1, <2>1 DEF WarningOf, Warning, WellFormed, TaskType, Conflict
  <2> QED BY <2>2, ProtocolAssumption DEF Warning
<1>6. ASSUME NEW f, task[h].victim \in trees \ spoiled,
             Tells(task[h].text, f) \/ task[h].conflict.file = f
      PROVE  Tells(claude'[task[h].victim], f)
  BY <1>3, <1>4, <1>5, <1>6 DEF Tells
<1>7. task[h].victim \in trees \ spoiled =>
        \A g \in Conns \ {h} : ~(task[g].pc = "write" /\ task[g].victim = task[h].victim)
  BY <1>1 DEF HandsInv, InHand
<1>8. ASSUME NEW w \in trees \ spoiled, w = task[h].victim, NEW f,
             Tells(task[h].text, f) \/ task[h].conflict.file = f
      PROVE  Told(w, f)'
  <2>1. Tells(claude'[w], f)
    BY <1>6, <1>8
  <2>2. \A g \in Conns : ~(task'[g].pc = "write" /\ task'[g].victim = w)
    BY <1>1, <1>7, <1>8
  <2> QED BY <2>1, <2>2 DEF Told, Tells
<1>9. ASSUME NEW i \in DOMAIN log, NEW j \in DOMAIN log, NEW g \in Conns,
             Clash(i, j), WillWarn(g, i, j), {log[i].world, log[j].world} \subseteq trees \ spoiled
      PROVE  WillWarn(g, i, j)' \/ \E k \in {i, j} : Told(log[k].world, log[k].file)'
  <2>1. \A d : Names(d, i, j)' <=> Names(d, i, j)
    BY <1>1 DEF Names
  <2>2. CASE g # h
    BY <1>1, <1>9, <2>1, <2>2 DEF WillWarn, Unwarned
  <2>3. CASE g = h
    <3>1. PICK d \in task[h].conflicts :
            /\ Names(d, i, j)
            /\ d = task[h].conflict => \E k \in {i, j} : log[k].world \in Unwarned(task[h])
      BY <1>1, <1>9, <2>3 DEF WillWarn
    <3>2. CASE d # task[h].conflict
      BY <1>1, <2>1, <2>3, <3>1, <3>2 DEF WillWarn
    <3>3. CASE d = task[h].conflict
      <4>1. PICK k \in {i, j} : log[k].world \in Unwarned(task[h])
        BY <3>1, <3>3
      <4>2. log[k].file = d.file
        BY <1>9, <3>1 DEF Names, Clash
      <4>3. CASE log[k].world \in task[h].targets
        <5>1. log'[k].world \in Unwarned(task'[h])
          BY <1>1, <4>3 DEF Unwarned
        <5> QED BY <1>1, <2>1, <2>3, <3>1, <5>1 DEF WillWarn
      <4>4. CASE log[k].world = task[h].victim
        <5>1. log[k].world \in trees \ spoiled /\ task[h].conflict.file = log[k].file
          BY <1>9, <3>3, <4>2
        <5>2. \A w, f : w = log[k].world /\ f = log[k].file => Told(w, f)'
          BY <1>8, <4>4, <5>1
        <5>3. log'[k] = log[k]
          BY <1>1
        <5> QED BY <5>2, <5>3
      <4> QED BY <4>1, <4>3, <4>4 DEF Unwarned
    <3> QED BY <3>2, <3>3
  <2> QED BY <2>2, <2>3
<1>10. \A g \in Conns : WillScan(g) => WillScan(g)'
  BY <1>1 DEF WillScan
<1>11. ASSUME NEW w \in trees' \ spoiled', NEW f \in Files, Told(w, f)
       PROVE  Told(w, f)'
  <2>1. CASE w # task[h].victim
    BY <1>1, <1>2, <1>11, <2>1 DEF Told, Tells
  <2>2. CASE w = task[h].victim
    <3>1. Tells(task[h].text, f) \/ task[h].conflict.file = f
      BY <1>1, <1>7, <1>11, <2>2 DEF Told
    <3> QED BY <1>1, <1>8, <2>2, <3>1
  <2> QED BY <2>1, <2>2
<1> QED BY <1>1, <1>9, <1>10, <1>11, WarningsStay DEF TypeOK

\* Each step leaves someone warned of each recent conflict, or to be warned (mod.rs:33-142).
LEMMA WarnStep == ASSUME TypeOK, TypeOK', HandsInv, WarnInv, [Next]_vars PROVE WarnInv'
<1>0. \A h \in Conns : task[h] \in TaskType /\ WellFormed(task[h])
  BY DEF TypeOK
<1>1. ASSUME HandsOff, clock' >= clock, scanned' = scanned,
             log' = log \/ \E h \in Conns : AppendDelete(h),
             \A h \in Conns : task'[h] = task[h] \/ (task[h].conflicts = {} /\ (WillScan(h) => WillScan(h)'))
      PROVE  WarnInv'
  <2>1. ASSUME NEW i \in DOMAIN log, NEW j \in DOMAIN log, NEW h \in Conns,
               log'[i] = log[i], log'[j] = log[j], WillWarn(h, i, j)
        PROVE  WillWarn(h, i, j)'
    <3>1. task'[h] = task[h]
      BY <1>1, <2>1 DEF WillWarn
    <3> QED BY <2>1, <3>1 DEF WillWarn, Names
  <2>2. \A h \in Conns : WillScan(h) => WillScan(h)'
    BY <1>1 DEF WillScan
  <2>3. trees' \subseteq trees /\ spoiled \subseteq spoiled'
    BY <1>1 DEF HandsOff
  <2> QED BY <1>1, <2>1, <2>2, <2>3, HandsOffLeaves, WarningsStay
<1>2. ASSUME NEW h \in Conns, NEW w \in Worlds, NEW files \in FileLists, HookReport(h, w, files)
      PROVE  WarnInv'
  <2>1. \A g \in Conns : task'[g] = task[g] \/ (task[g].conflicts = {} /\ ~WillScan(g))
    BY <1>0, <1>2 DEF HookReport, TypeOK, WellFormed, WillScan
  <2>2. HandsOff
    BY <1>2, OthersKeepHandsOff
  <2> QED BY <1>1, <1>2, <2>1, <2>2 DEF HookReport, TypeOK
<1>3. ASSUME NEW h \in Conns, AppendEvent(h) PROVE WarnInv'
  BY <1>3 DEF AppendEvent, TypeOK, TaskType, WillScan, WarnInv
<1>4. ASSUME NEW h \in Conns, ScanLog(h) PROVE WarnInv'
  <2>1. task'[h].pc = "conflicts"
    BY <1>4 DEF ScanLog, TypeOK, TaskType
  <2> QED BY <1>4, <2>1, ScanFindsAll DEF WarnInv, WillWarn
<1>5. ASSUME NEW h \in Conns,
             \/ StampEvent(h) \/ NotifyEvent(h) \/ FinishReport(h)
             \/ StampDelete(h) \/ AppendDelete(h) \/ TellDelete(h)
      PROVE  WarnInv'
  <2>1. \A g \in Conns : task'[g] = task[g] \/ (task[g].conflicts = {} /\ (WillScan(g) => WillScan(g)'))
    <3>1. task[h].conflicts = {}
      BY <1>0, <1>5 DEF WellFormed, StampEvent, NotifyEvent, FinishReport, StampDelete, AppendDelete, TellDelete
    <3>2. \A g \in Conns \ {h} : task'[g] = task[g]
      BY <1>5 DEF TypeOK, StampEvent, NotifyEvent, FinishReport, StampDelete, AppendDelete, TellDelete
    <3>3. CASE StampEvent(h) \/ StampDelete(h)
      BY <1>0, <3>1, <3>2, <3>3 DEF TypeOK, TaskType, WillScan, StampEvent, StampDelete
    <3>4. CASE NotifyEvent(h)
      <4>1. task'[h].pc \in {"stamp", "scan"}
        BY <1>0, <3>4, ZenonT(60) DEF TypeOK, TaskType, NotifyEvent, NextFile
      <4> QED BY <3>1, <3>2, <4>1 DEF WillScan
    <3>5. CASE FinishReport(h) \/ AppendDelete(h) \/ TellDelete(h)
      BY <1>0, <3>1, <3>2, <3>5 DEF WillScan, FinishReport, AppendDelete, TellDelete
    <3> QED BY <1>5, <3>3, <3>4, <3>5
  <2>2. scanned' = scanned /\ clock' = clock /\ (log' = log \/ \E g \in Conns : AppendDelete(g))
    BY <1>5 DEF StampEvent, NotifyEvent, FinishReport, StampDelete, AppendDelete, TellDelete
  <2>3. HandsOff
    BY <1>5, OthersKeepHandsOff
  <2> QED BY <1>1, <2>1, <2>2, <2>3 DEF TypeOK
<1>6. ASSUME NEW h \in Conns, NEW w \in Worlds, DeleteWorld(h, w) PROVE WarnInv'
  <2>1. \A g \in Conns : task'[g] = task[g] \/ (task[g].conflicts = {} /\ ~WillScan(g))
    BY <1>0, <1>6 DEF DeleteWorld, TypeOK, WellFormed, WillScan
  <2>2. HandsOff
    BY <1>6, OthersKeepHandsOff
  <2> QED BY <1>1, <1>6, <2>1, <2>2 DEF DeleteWorld, TypeOK
<1>7. ASSUME NEW w \in Worlds, LeaveWorld(w) PROVE WarnInv'
  BY <1>1, <1>7, OthersKeepHandsOff DEF LeaveWorld, TypeOK
<1>10. ASSUME NEW w \in Worlds, RemovalFails(w) PROVE WarnInv'
  <2>1. HandsOff
    BY <1>10, OthersKeepHandsOff
  <2>2. UNCHANGED <<log, clock, scanned, task>> /\ clock \in Nat
    BY <1>10 DEF RemovalFails, TypeOK
  <2> QED BY <1>1, <2>1, <2>2
<1>8. CASE Tick \/ UNCHANGED vars
  BY <1>1, <1>8, OthersKeepHandsOff DEF Tick, vars, TypeOK
<1>9. CASE StopDaemon
  BY <1>9 DEF StopDaemon, WarnInv
<1> QED
  BY <1>2, <1>3, <1>4, <1>5, <1>6, <1>7, <1>8, <1>9, <1>10,
     TakeWarns, AnnounceWarns, ReadWarns, TruncateWarns, WriteWarns DEF Next, Step

\* For any number of handlers, worlds and files, any window, and through restarts: when the
\* daemon rests, one of the two worlds of each recent conflict has been warned, unless two
\* handlers had one of their CLAUDE.md in hand at the same time, or a removal of one of the
\* two worlds failed (mod.rs:60-71).
THEOREM SomeoneIsWarned == Spec => []SomeoneWarned
<1>1. Init => HandsInv /\ WarnInv
  BY DEF Init, HandsInv, WarnInv, Idle, InHand
<1>2. TypeOK /\ WarnInv => SomeoneWarned
  BY DEF TypeOK, WellFormed, WarnInv, SomeoneWarned, WillScan, WillWarn, Told, Tells
<1> QED BY <1>1, <1>2, HandsStep, WarnStep, TypeCorrect, PTL DEF Spec
=============================================================================
