---------------------------- MODULE SharedMemory ----------------------------
(***************************************************************************)
(* .ygg/shared_memory.json as `ygg hook` keeps it (src/cli/hook.rs): a JSON *)
(* object with, for each world, the files of its last report. Every hook is *)
(* a process of its own that reads the file, replaces the entry of its      *)
(* world in what it read, and writes the whole object back; nothing locks   *)
(* the file. An agent that is stopped takes the hook it is running with it. *)
(***************************************************************************)
EXTENDS Integers

CONSTANTS
  Worlds,      \* the worlds that run agents; their directories stay
  Lists,       \* the file lists a hook can report
  Hooks,       \* the hook processes running at the same time
  MaxReports,  \* bound: hooks started
  MaxKills,    \* bound: hooks killed
  NoWorld, NoList

ASSUME SharedAssumption == NoWorld \notin Worlds /\ NoList \notin Lists

VARIABLES
  file,      \* the file: its entries, and whether it parses as one JSON object
  hook,      \* what each hook process is doing
  latest,    \* history: the entries of the last reports written, by world
  settled,   \* history: worlds that reported since hooks last disturbed each other
  started, kills

vars == <<file, hook, latest, settled, started, kills>>

Entry == [world : Worlds, files : Lists]

\* Entries of a JSON object: at most one per world.
Object == {o \in SUBSET Entry : \A d, e \in o : d.world = e.world => d = e}

Done == [pc |-> "done", world |-> NoWorld, files |-> NoList, text |-> {}, clashed |-> FALSE]

\* serde_json::from_str(..).unwrap_or_default(): a file that is missing, empty or
\* not one JSON object reads as the empty object.
Parsed(f) == IF f.whole THEN f.entries ELSE {}

\* Mutant: the new entry replaces the object instead of being put into it.
InsertAlone(object, e) == {e}

\* Mutant: an older entry of the world stays.
InsertBeside(object, e) == object \union {e}

\* Map::insert: the entry of the same world is replaced.
Insert(object, e) == {d \in object : d.world # e.world} \union {e}

Init ==
  /\ file = [entries |-> {}, whole |-> TRUE]
  /\ hook = [h \in Hooks |-> Done]
  /\ latest = {}
  /\ settled = {}
  /\ started = 0
  /\ kills = 0

\* `ygg hook` starts; .agent_state of the world has been written.
StartHook(h, w, l) ==
  /\ hook[h].pc = "done"
  /\ started < MaxReports
  /\ started' = started + 1
  /\ hook' = [hook EXCEPT ![h] = [Done EXCEPT !.pc = "read", !.world = w, !.files = l]]
  /\ UNCHANGED <<file, latest, settled, kills>>

\* The hooks that are between their read and the end of their write.
Busy == {k \in Hooks : hook[k].pc \in {"truncate", "write"}}

\* The file is read and the new entry put in; hooks that are at it at the same
\* time have clashed.
ReadShared(h) ==
  /\ hook[h].pc = "read"
  /\ LET entry == [world |-> hook[h].world, files |-> hook[h].files] IN
       hook' = [k \in Hooks |->
         IF k = h THEN [hook[h] EXCEPT !.pc = "truncate", !.clashed = Busy # {},
                                       !.text = Insert(Parsed(file), entry)]
         ELSE IF k \in Busy THEN [hook[k] EXCEPT !.clashed = TRUE] ELSE hook[k]]
  /\ UNCHANGED <<file, latest, settled, started, kills>>

\* fs::write opens the file with O_TRUNC ...
TruncateShared(h) ==
  /\ hook[h].pc = "truncate"
  /\ file' = [entries |-> {}, whole |-> TRUE]
  /\ hook' = [hook EXCEPT ![h].pc = "write"]
  /\ UNCHANGED <<latest, settled, started, kills>>

\* What the file holds when text is written at its start: exactly the text, or,
\* where another hook wrote a longer one since the truncation, the text with a
\* tail behind its last brace, which no longer parses.
WriteOver(text, old) ==
  {[entries |-> text, whole |-> TRUE]} \union
  (IF old = [entries |-> {}, whole |-> TRUE] THEN {} ELSE {[entries |-> {}, whole |-> FALSE]})

\* ... and writes the object. The HookReport that follows is Resonance's.
WriteShared(h) ==
  /\ hook[h].pc = "write"
  /\ file' \in WriteOver(hook[h].text, file)
  /\ latest' = {d \in latest : d.world # hook[h].world} \union
               {[world |-> hook[h].world, files |-> hook[h].files]}
  /\ hook' = [hook EXCEPT ![h] = Done]
  /\ settled' = IF hook[h].clashed THEN {} ELSE settled \union {hook[h].world}
  /\ UNCHANGED <<started, kills>>

\* The hook ends with the agent that runs it, wherever it is.
KillHook(h) ==
  /\ hook[h].pc # "done"
  /\ kills < MaxKills
  /\ kills' = kills + 1
  /\ settled' = IF hook[h].pc = "write" THEN {} ELSE settled
  /\ hook' = [hook EXCEPT ![h] = Done]
  /\ UNCHANGED <<file, latest, started>>

Next ==
  \/ \E h \in Hooks, w \in Worlds, l \in Lists : StartHook(h, w, l)
  \/ \E h \in Hooks : ReadShared(h) \/ TruncateShared(h) \/ WriteShared(h) \/ KillHook(h)

Spec == Init /\ [][Next]_vars

-----------------------------------------------------------------------------
Quiet == \A h \in Hooks : hook[h].pc = "done"

\* The types of the file and of the hooks (hook.rs:22-45). The file and every text
\* a hook is about to write have at most one entry per world.
TypeOK ==
  /\ file \in [entries : Object, whole : BOOLEAN]
  /\ hook \in [Hooks -> [pc : {"done", "read", "truncate", "write"},
                         world : Worlds \union {NoWorld},
                         files : Lists \union {NoList}, text : Object,
                         clashed : BOOLEAN]]
  /\ latest \in Object
  /\ settled \subseteq Worlds

\* Whatever happened before, once hooks no longer overlap in their read and write
\* and none dies inside its write, each world that reports is in the file with its
\* last report and stays there (hook.rs:22-45): only a clash or such a death loses
\* an entry, and one more report of a world always brings its entry back.
ReportsKept ==
  Quiet => {e \in latest : e.world \in settled} \subseteq Parsed(file)
=============================================================================
