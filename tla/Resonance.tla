----------------------------- MODULE Resonance -----------------------------
(***************************************************************************)
(* The conflict detector of the ygg daemon: the handler of a HookReport    *)
(* and the audit-log half of the handler of a DeleteWorld                  *)
(* (src/daemon/mod.rs), the audit log they share and the scan of its       *)
(* recent events (src/daemon/bus.rs), and the warning written into a       *)
(* world's CLAUDE.md (src/daemon/laws.rs).                                 *)
(*                                                                         *)
(* Every connection of the daemon is a task of its own on a                *)
(* multi-threaded runtime, and nothing locks audit.log or CLAUDE.md, so a  *)
(* step here is one system call or one send, and the tasks of Conns        *)
(* interleave between any two of them.                                     *)
(***************************************************************************)
EXTENDS Integers, Sequences, FiniteSets

CONSTANTS
  Worlds,       \* the ids of the worlds
  Files,        \* the paths the hooks report
  Conns,        \* the connections served at the same time
  WindowSize,   \* read_recent's n: 500 in the code
  MaxAge,       \* read_recent's max_age_hours: 2 in the code
  MaxFiles,     \* bound: files in one report
  MaxEvents,    \* bound: events handed to the log and failing removals
  MaxUpsets,    \* bound: hours that pass and stops of the daemon, together
  NoWorld, NoFile, NoConflict,
  Protocol      \* the part of CLAUDE.md that inject_rules put there

ASSUME WorldsAssumption == IsFiniteSet(Worlds) /\ NoWorld \notin Worlds
ASSUME FilesAssumption == NoFile \notin Files
ASSUME ProtocolAssumption == Protocol \notin [world : Worlds, file : Files]
ASSUME WindowAssumption == WindowSize \in Nat /\ MaxAge \in Nat

VARIABLES
  log,        \* audit.log: the events, oldest first
  clock,      \* Utc::now(), in hours
  trees,      \* the worlds that have a directory under .ygg/worlds
  claude,     \* CLAUDE.md of each world: Protocol and the warnings in it
  published,  \* every message handed to the broadcast channel so far
  task,       \* the handler running on each connection
  scanned,    \* a handler has read the log since the daemon was last started
  stops,      \* bound: how often the daemon was stopped
  budget,     \* bound: how many events may still be handed to the log, or removals fail
  spoiled     \* history: the worlds whose CLAUDE.md two handlers ever had in hand at
              \* the same time, each between its read and its write, or that a removal
              \* which failed may have taken

vars == <<log, clock, trees, claude, published, task, scanned, stops, budget, spoiled>>

Event == [kind : {"FileModified"}, world : Worlds, file : Files, ts : Nat]
         \union [kind : {"WorldDeleted"}, world : Worlds, file : {NoFile}, ts : Nat]

Conflict == [file : Files, worlds : SUBSET Worlds]

\* The warning "World `world` is also modifying `file`".
Warning == [world : Worlds, file : Files]

Text == SUBSET ({Protocol} \union Warning)

Message == [event : {"FileModified"}, world : Worlds, file : Files]
           \union [event : {"ConflictDetected"}, world : Worlds, conflict : Conflict]
           \union [event : {"WorldDeleted"}, world : Worlds]

FileLists == UNION {[1..n -> Files] : n \in 0..MaxFiles}

Idle == [pc |-> "idle", world |-> NoWorld, files |-> <<>>, stamp |-> 0,
         conflicts |-> {}, conflict |-> NoConflict, targets |-> {},
         victim |-> NoWorld, text |-> {}]

-----------------------------------------------------------------------------
(* The audit log. *)

\* Positions of l whose event is younger than the cutoff at time t.
Young(l, t) == {i \in DOMAIN l : l[i].ts + MaxAge > t}

\* Mutant: read_recent without its first rev(), which keeps the oldest events.
ReadRecentOldest(l, t) ==
  {l[i] : i \in {k \in Young(l, t) :
                   Cardinality({j \in Young(l, t) : j < k}) < WindowSize}}

\* The events read_recent returns: of the young ones, the last WindowSize.
ReadRecent(l, t) ==
  {l[i] : i \in {k \in Young(l, t) :
                   Cardinality({j \in Young(l, t) : j > k}) < WindowSize}}

\* Mutant: the events are grouped without looking at their file.
TouchingAnyFile(events, f) ==
  {e.world : e \in {d \in events : d.kind \in {"FileModified", "IterationEnd"}}}

\* The worlds that touched file f according to a set of events.
Touching(events, f) ==
  {e.world : e \in {d \in events : d.kind \in {"FileModified", "IterationEnd"}
                                   /\ d.file = f}}

\* Mutant: the threshold is off by one.
DetectConflictsOfThree(events) ==
  {[file |-> f, worlds |-> Touching(events, f)] :
     f \in {g \in Files : Cardinality(Touching(events, g)) > 2}}

\* The files with more than one world, and those worlds.
DetectConflicts(events) ==
  {[file |-> f, worlds |-> Touching(events, f)] :
     f \in {g \in Files : Cardinality(Touching(events, g)) > 1}}

-----------------------------------------------------------------------------
(* HookReport: append every file, then scan the log, then warn and tell. *)

Init ==
  /\ log = <<>>
  /\ clock = 0
  /\ trees = Worlds
  /\ claude = [w \in Worlds |-> {Protocol}]
  /\ published = {}
  /\ task = [h \in Conns |-> Idle]
  /\ scanned = TRUE
  /\ stops = 0
  /\ budget = MaxEvents
  /\ spoiled = {}

\* Mutant: the loop over the files runs once too often.
NextFileOnceMore(files) == "stamp"

\* The loop over the files ends in the scan of the log.
NextFile(files) == IF files = <<>> THEN "scan" ELSE "stamp"

\* `ygg hook` ran in world w - it stops early unless it can write .agent_state
\* into the world's directory - and its report reaches an idle connection.
HookReport(h, w, files) ==
  /\ task[h].pc = "idle"
  /\ w \in trees
  /\ Len(files) <= budget
  /\ budget' = budget - Len(files)
  /\ task' = [task EXCEPT ![h] = [Idle EXCEPT !.pc = NextFile(files),
                                              !.world = w, !.files = files]]
  /\ UNCHANGED <<log, clock, trees, claude, published, scanned, stops, spoiled>>

\* The event for the next file is built: its ts is taken now.
StampEvent(h) ==
  /\ task[h].pc = "stamp"
  /\ task' = [task EXCEPT ![h].pc = "append", ![h].stamp = clock]
  /\ UNCHANGED <<log, clock, trees, claude, published, scanned, stops, budget, spoiled>>

\* One write in append mode: events of different handlers never overwrite.
AppendEvent(h) ==
  /\ task[h].pc = "append"
  /\ log' = Append(log, [kind |-> "FileModified", world |-> task[h].world,
                         file |-> Head(task[h].files), ts |-> task[h].stamp])
  /\ task' = [task EXCEPT ![h].pc = "notify"]
  /\ UNCHANGED <<clock, trees, claude, published, scanned, stops, budget, spoiled>>

NotifyEvent(h) ==
  /\ task[h].pc = "notify"
  /\ published' = published \union
       {[event |-> "FileModified", world |-> task[h].world, file |-> Head(task[h].files)]}
  /\ task' = [task EXCEPT ![h].pc = NextFile(Tail(task[h].files)),
                          ![h].files = Tail(@)]
  /\ UNCHANGED <<log, clock, trees, claude, scanned, stops, budget, spoiled>>

\* read_recent and detect_conflicts: one read of the file, then a pure scan.
ScanLog(h) ==
  /\ task[h].pc = "scan"
  /\ task' = [task EXCEPT ![h].pc = "conflicts",
                          ![h].conflicts = DetectConflicts(ReadRecent(log, clock))]
  /\ scanned' = TRUE
  /\ UNCHANGED <<log, clock, trees, claude, published, stops, budget, spoiled>>

\* Mutant: the reporter is warned of itself.
ToWarnAll(c, w) == c.worlds

\* The worlds of conflict c that a report of world w warns.
ToWarn(c, w) == c.worlds \ {w}

\* The loop over the conflicts, which come in the order of a HashMap.
TakeConflict(h) ==
  /\ task[h].pc = "conflicts"
  /\ \E c \in task[h].conflicts :
       task' = [task EXCEPT ![h].pc = "warn", ![h].conflict = c,
                            ![h].targets = ToWarn(c, task[h].world)]
  /\ UNCHANGED <<log, clock, trees, claude, published, scanned, stops, budget, spoiled>>

\* Handler g is between its read and its write of w's CLAUDE.md.
InHand(g, w) == task[g].pc \in {"truncate", "write"} /\ task[g].victim = w

\* inject_conflict_warning reads CLAUDE.md; a missing file reads as empty.
ReadClaude(h) ==
  /\ task[h].pc = "warn"
  /\ \E w \in task[h].targets :
       /\ task' = [task EXCEPT ![h].pc = "truncate", ![h].victim = w,
                               ![h].targets = @ \ {w}, ![h].text = claude[w]]
       /\ spoiled' = IF \E g \in Conns : InHand(g, w) THEN spoiled \union {w} ELSE spoiled
  /\ UNCHANGED <<log, clock, trees, claude, published, scanned, stops, budget>>

\* fs::write first opens the file with O_TRUNC. Without the world's directory
\* the open fails, and the handler ignores the error.
TruncateClaude(h) ==
  /\ task[h].pc = "truncate"
  /\ LET w == task[h].victim IN
       \/ /\ w \in trees
          /\ claude' = [claude EXCEPT ![w] = {}]
          /\ task' = [task EXCEPT ![h].pc = "write"]
       \/ /\ w \notin trees
          /\ task' = [task EXCEPT ![h].pc = "warn"]
          /\ UNCHANGED claude
  /\ UNCHANGED <<log, clock, trees, published, scanned, stops, budget, spoiled>>

\* The warning names the world whose report is being handled.
WarningOf(t) == [world |-> t.world, file |-> t.conflict.file]

\* Mutant: the warning is written without the text before it.
WriteClaudeAlone(h) ==
  /\ task[h].pc = "write"
  /\ LET w == task[h].victim IN
       claude' = [claude EXCEPT ![w] = IF w \in trees THEN {WarningOf(task[h])} ELSE @]
  /\ task' = [task EXCEPT ![h].pc = "warn"]
  /\ UNCHANGED <<log, clock, trees, published, scanned, stops, budget, spoiled>>

\* ... and then it writes what was read, with the warning after it, from the
\* start of the file. Where another handler wrote since the truncation, the tail
\* of its longer text stays behind. A file that was removed in between, with its
\* directory or without, is written but no longer reachable.
WriteClaude(h) ==
  /\ task[h].pc = "write"
  /\ LET w == task[h].victim IN
       \/ /\ w \in trees
          /\ \E tail \in SUBSET claude[w] : claude' =
               [claude EXCEPT ![w] = task[h].text \union {WarningOf(task[h])} \union tail]
       \/ /\ w \notin trees \ spoiled
          /\ UNCHANGED claude
  /\ task' = [task EXCEPT ![h].pc = "warn"]
  /\ UNCHANGED <<log, clock, trees, published, scanned, stops, budget, spoiled>>

\* ConflictDetected is sent to the subscribers; it is not appended to the log.
AnnounceConflict(h) ==
  /\ task[h].pc = "warn"
  /\ task[h].targets = {}
  /\ published' = published \union
       {[event |-> "ConflictDetected", world |-> task[h].world,
         conflict |-> task[h].conflict]}
  /\ task' = [task EXCEPT ![h].pc = "conflicts",
                          ![h].conflicts = @ \ {task[h].conflict}]
  /\ UNCHANGED <<log, clock, trees, claude, scanned, stops, budget, spoiled>>

\* Mutant: the handler returns before its last conflict.
FinishReportEarly(h) ==
  /\ task[h].pc = "conflicts"
  /\ task' = [task EXCEPT ![h] = Idle]
  /\ UNCHANGED <<log, clock, trees, claude, published, scanned, stops, budget, spoiled>>

FinishReport(h) ==
  /\ task[h].pc = "conflicts"
  /\ task[h].conflicts = {}
  /\ task' = [task EXCEPT ![h] = Idle]
  /\ UNCHANGED <<log, clock, trees, claude, published, scanned, stops, budget, spoiled>>

-----------------------------------------------------------------------------
(* DeleteWorld, the other writer of the log, and what happens around it. *)

\* What removing a world's worktree does to the state of this module.
RemoveTree(w) ==
  /\ trees' = trees \ {w}
  /\ claude' = [claude EXCEPT ![w] = {}]

\* The agent of the world, if one is found, is killed and given 500 ms; no state of
\* this module depends on it. trunk::delete_world succeeds for a world that is not
\* there too; when it fails the handler only logs that: see RemovalFails.
DeleteWorld(h, w) ==
  /\ task[h].pc = "idle"
  /\ budget > 0
  /\ budget' = budget - 1
  /\ RemoveTree(w)
  /\ task' = [task EXCEPT ![h] = [Idle EXCEPT !.pc = "stampDelete", !.world = w]]
  /\ UNCHANGED <<log, clock, published, scanned, stops, spoiled>>

StampDelete(h) ==
  /\ task[h].pc = "stampDelete"
  /\ task' = [task EXCEPT ![h].pc = "appendDelete", ![h].stamp = clock]
  /\ UNCHANGED <<log, clock, trees, claude, published, scanned, stops, budget, spoiled>>

AppendDelete(h) ==
  /\ task[h].pc = "appendDelete"
  /\ log' = Append(log, [kind |-> "WorldDeleted", world |-> task[h].world,
                         file |-> NoFile, ts |-> task[h].stamp])
  /\ task' = [task EXCEPT ![h].pc = "tellDelete"]
  /\ UNCHANGED <<clock, trees, claude, published, scanned, stops, budget, spoiled>>

TellDelete(h) ==
  /\ task[h].pc = "tellDelete"
  /\ published' = published \union
       {[event |-> "WorldDeleted", world |-> task[h].world]}
  /\ task' = [task EXCEPT ![h] = Idle]
  /\ UNCHANGED <<log, clock, trees, claude, scanned, stops, budget, spoiled>>

\* `ygg run` removes its world when its agent exits, without the daemon.
LeaveWorld(w) ==
  /\ w \in trees
  /\ RemoveTree(w)
  /\ UNCHANGED <<log, clock, published, task, scanned, stops, budget, spoiled>>

\* delete_world, called by the daemon or by `ygg run`, may fail after it removed some of
\* the world's files, CLAUDE.md among them.
RemovalFails(w) ==
  /\ w \in trees
  /\ budget > 0
  /\ budget' = budget - 1
  /\ claude' = [claude EXCEPT ![w] = {}]
  /\ spoiled' = spoiled \union {w}
  /\ UNCHANGED <<log, clock, trees, published, task, scanned, stops>>

Tick ==
  /\ clock + stops < MaxUpsets
  /\ clock' = clock + 1
  /\ UNCHANGED <<log, trees, claude, published, task, scanned, stops, budget, spoiled>>

\* `ygg daemon stop` sends SIGTERM and the daemon installs no handler for it:
\* every task ends where it is. The log stays; the next daemon starts idle.
StopDaemon ==
  /\ clock + stops < MaxUpsets
  /\ stops' = stops + 1
  /\ task' = [h \in Conns |-> Idle]
  /\ scanned' = FALSE
  /\ UNCHANGED <<log, clock, trees, claude, published, budget, spoiled>>

Step(h) ==
  \/ StampEvent(h)
  \/ AppendEvent(h)
  \/ NotifyEvent(h)
  \/ ScanLog(h)
  \/ TakeConflict(h)
  \/ ReadClaude(h)
  \/ TruncateClaude(h)
  \/ WriteClaude(h)
  \/ AnnounceConflict(h)
  \/ FinishReport(h)
  \/ StampDelete(h)
  \/ AppendDelete(h)
  \/ TellDelete(h)

Next ==
  \/ \E h \in Conns, w \in Worlds, files \in FileLists : HookReport(h, w, files)
  \/ \E h \in Conns, w \in Worlds : DeleteWorld(h, w)
  \/ \E h \in Conns : Step(h)
  \/ \E w \in Worlds : LeaveWorld(w) \/ RemovalFails(w)
  \/ Tick
  \/ StopDaemon

Spec == Init /\ [][Next]_vars

\* The runtime polls every task that is ready, and no step of a report waits
\* for another task.
FairSpec == Spec /\ \A h \in Conns : WF_vars(Step(h))

-----------------------------------------------------------------------------
(* What the detector guarantees. *)

WillScan(h) == task[h].pc \in {"stamp", "append", "notify", "scan"}

TaskType == [pc : {"idle", "stamp", "append", "notify", "scan", "conflicts", "warn",
                   "truncate", "write", "stampDelete", "appendDelete", "tellDelete"},
             world : Worlds \union {NoWorld}, files : Seq(Files), stamp : Nat,
             conflicts : SUBSET Conflict, conflict : Conflict \union {NoConflict},
             targets : SUBSET Worlds, victim : Worlds \union {NoWorld}, text : Text]

\* A handler that works on something has it: a world unless it is idle, a file
\* while it appends one, a conflict while it warns of one, and none before.
WellFormed(t) ==
  /\ t.pc # "idle" => t.world \in Worlds
  /\ t.pc \in {"stamp", "append", "notify"} => t.files # <<>>
  /\ t.pc \in {"warn", "truncate", "write"} => t.conflict \in t.conflicts
  /\ t.pc \notin {"conflicts", "warn", "truncate", "write"} => t.conflicts = {}
  /\ t.pc \in {"truncate", "write"} => t.victim \in Worlds

\* The type of the state of the conflict detector (daemon/mod.rs, daemon/bus.rs),
\* with what each point of the handler's code may rely on.
TypeOK ==
  /\ log \in Seq(Event)
  /\ clock \in Nat
  /\ trees \subseteq Worlds
  /\ claude \in [Worlds -> Text]
  /\ published \subseteq Message
  /\ task \in [Conns -> TaskType]
  /\ scanned \in BOOLEAN
  /\ spoiled \subseteq Worlds
  /\ \A h \in Conns : WellFormed(task[h])

\* Entry i of the log is one every read_recent from now on returns until newer
\* events or time push it out: it is young, and among the last WindowSize.
InReach(i) == i \in Young(log, clock) /\ Len(log) - i < WindowSize

Clash(i, j) ==
  /\ log[i].kind = "FileModified" /\ log[j].kind = "FileModified"
  /\ log[i].file = log[j].file
  /\ log[i].world # log[j].world

\* Conflict c tells of the two worlds of the clashing entries i and j.
Names(c, i, j) ==
  c.file = log[i].file /\ {log[i].world, log[j].world} \subseteq c.worlds

Announcements == {m.conflict : m \in {n \in published : n.event = "ConflictDetected"}}

\* No conflict escapes the handlers of mod.rs:39-88, however they interleave.
\* Two recent edits of one file by different worlds have been announced, or some
\* handler still holds the conflict or has the log still to read, or the daemon
\* was restarted and no report has come since. It is the append before the
\* scan that makes this true: the later of the two writers sees both.
NoConflictMissed ==
  \A i, j \in DOMAIN log :
    InReach(i) /\ InReach(j) /\ Clash(i, j) =>
      \/ \E c \in Announcements : Names(c, i, j)
      \/ \E h \in Conns : WillScan(h) \/ \E c \in task[h].conflicts : Names(c, i, j)
      \/ ~scanned

\* The pairs <<world, file>> of the FileModified events in the log.
Edits == {<<log[i].world, log[i].file>> :
            i \in {k \in DOMAIN log : log[k].kind = "FileModified"}}

\* Warning x belongs into world w: it names another world than w, and w and some
\* other world edited the file.
Grounded(w, x) ==
  /\ x.world # w
  /\ <<w, x.file>> \in Edits
  /\ \E v \in Worlds \ {w} : <<v, x.file>> \in Edits

\* A warning in the CLAUDE.md of w is about a file that w itself edited and some
\* other world edited too, and it never names w (mod.rs:62-71, laws.rs:145-162):
\* no mix-up of two handlers' conflicts, targets or texts puts a warning into a
\* world that has no part in the conflict.
WarningsGrounded ==
  \A w \in Worlds : \A x \in claude[w] \ {Protocol} : Grounded(w, x)

\* However reports interleave, and through a restart of the daemon, each recent
\* conflict between two worlds that still exist has left a warning about the file in
\* the CLAUDE.md of one of them as soon as the daemon rests (mod.rs:60-71) - unless
\* two handlers rewrote one of these files at the same time (laws.rs:145-162), or a
\* removal that failed may have taken it (trunk.rs:199-201).
SomeoneWarned ==
  (\A h \in Conns : task[h].pc = "idle") /\ scanned =>
    \A i, j \in DOMAIN log :
      /\ InReach(i) /\ InReach(j) /\ Clash(i, j)
      /\ {log[i].world, log[j].world} \subseteq trees \ spoiled
      => \E k \in {i, j} : \E x \in claude[log[k].world] \ {Protocol} :
           x.file = log[k].file

\* The governance rules stay in a world's CLAUDE.md while warnings are added to it, with
\* the same exceptions, and unless the daemon was stopped between the truncation and the
\* write (laws.rs:160).
RulesKept ==
  \A w \in trees \ spoiled :
    stops = 0 /\ (\A h \in Conns : ~(task[h].pc = "write" /\ task[h].victim = w))
      => Protocol \in claude[w]

Promise == INSTANCE ConflictPromise WITH edits <- Edits, announced <- Announcements

\* The daemon never announces a conflict that is not one: every announcement
\* names at least two worlds, and each of them has a logged edit of the file
\* (bus.rs:69-95, mod.rs:73-84).
PromiseSafety == Promise!Safety

\* While the daemon runs and the log stays within read_recent's window, every
\* conflict is announced some day (mod.rs:60-84).
PromiseKept == Promise!Fulfilled

\* Does not hold (README, Observations). README.md:30 and the text of the warning,
\* laws.rs:153-155: the world that a warning names "is also modifying" the file.
WarningsTrue ==
  \A w \in Worlds : \A x \in claude[w] \ {Protocol} : <<x.world, x.file>> \in Edits

\* Does not hold (README, Observations); RulesKept is what does.
\* README.md:247 and README.md:262: every world gets the preamble in its CLAUDE.md,
\* and a warning is appended to that file - so once the writers of the file have
\* finished, the preamble is still there.
RulesSurvive ==
  \A w \in trees :
    (\A h \in Conns : ~(task[h].pc = "write" /\ task[h].victim = w)) => Protocol \in claude[w]
=============================================================================
