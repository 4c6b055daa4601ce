------------------------- MODULE SharedMemoryProofs -------------------------
(* What SharedMemory guarantees for any number of hooks, worlds and reports. *)
EXTENDS SharedMemory, TLAPS

\* Putting an entry into an object leaves one entry per world (hook.rs:32-38).
LEMMA InsertType ==
  ASSUME NEW o \in Object, NEW e \in Entry
  PROVE  Insert(o, e) \in Object
BY DEF Object, Insert

\* The empty object, which an unreadable file counts as (hook.rs:24-30).
LEMMA EmptyObject == {} \in Object
BY DEF Object

\* What a file parses as is an object (hook.rs:24-30).
LEMMA ParsedType ==
  ASSUME NEW f \in [entries : Object, whole : BOOLEAN]
  PROVE  Parsed(f) \in Object
BY EmptyObject DEF Parsed

\* A hook at work reports a list of a world.
Reporting ==
  \A h \in Hooks : hook[h].pc # "done" => hook[h].world \in Worlds /\ hook[h].files \in Lists

HookType ==
  [pc : {"done", "read", "truncate", "write"}, world : Worlds \union {NoWorld},
   files : Lists \union {NoList}, text : Object, clashed : BOOLEAN]

\* A hook that has ended, or not started.
LEMMA DoneType == Done \in HookType /\ Done.pc = "done"
BY EmptyObject DEF Done, HookType

\* Each step of a hook keeps the types (hook.rs:22-45).
LEMMA SharedTypeStep ==
  ASSUME TypeOK, Reporting, [Next]_vars
  PROVE  TypeOK' /\ Reporting'
<1> USE DEF TypeOK, Reporting
<1>0. hook \in [Hooks -> HookType]
  BY DEF HookType
<1>a. ASSUME hook' \in [Hooks -> HookType], file' \in [entries : Object, whole : BOOLEAN],
             latest' \in Object, settled' \subseteq Worlds
      PROVE  TypeOK'
  BY <1>a DEF HookType
<1>1. ASSUME NEW h \in Hooks, NEW w \in Worlds, NEW l \in Lists, StartHook(h, w, l)
      PROVE  TypeOK' /\ Reporting'
  <2> DEFINE k == [Done EXCEPT !.pc = "read", !.world = w, !.files = l]
  <2>1. k \in HookType /\ k.world = w /\ k.files = l
    BY DoneType DEF HookType, Done
  <2>2. hook' = [hook EXCEPT ![h] = k] /\ UNCHANGED <<file, latest, settled>>
    BY <1>1 DEF StartHook
  <2> HIDE DEF k
  <2> QED BY <1>0, <1>a, <2>1, <2>2
<1>2. ASSUME NEW h \in Hooks, ReadShared(h) PROVE TypeOK' /\ Reporting'
  <2> DEFINE entry == [world |-> hook[h].world, files |-> hook[h].files]
             k == [hook[h] EXCEPT !.pc = "truncate", !.clashed = Busy # {},
                                  !.text = Insert(Parsed(file), entry)]
  <2>1. entry \in Entry
    BY <1>2 DEF ReadShared, Entry
  <2>2. Insert(Parsed(file), entry) \in Object
    BY <2>1, InsertType, ParsedType
  <2>3. (Busy # {}) \in BOOLEAN
    OBVIOUS
  <2>4. k \in HookType /\ k.world = hook[h].world /\ k.files = hook[h].files
    <3> HIDE DEF entry
    <3> QED BY <1>0, <2>2, <2>3 DEF HookType
  <2>5. \A i \in Hooks : [hook[i] EXCEPT !.clashed = TRUE] \in HookType
    BY <1>0 DEF HookType
  <2>6. hook' = [i \in Hooks |-> IF i = h THEN k
                   ELSE IF i \in Busy THEN [hook[i] EXCEPT !.clashed = TRUE] ELSE hook[i]]
    BY <1>2 DEF ReadShared
  <2>7. UNCHANGED <<file, latest, settled>>
    BY <1>2 DEF ReadShared
  <2> HIDE DEF k
  <2>8. hook' \in [Hooks -> HookType]
    BY <1>0, <2>4, <2>5, <2>6
  <2>9. \A i \in Hooks : hook'[i].world = hook[i].world /\ hook'[i].files = hook[i].files
    BY <1>0, <2>4, <2>6 DEF HookType
  <2>10. \A i \in Hooks : hook'[i].pc # "done" => hook[i].pc # "done"
    BY <1>0, <1>2, <2>6 DEF HookType, ReadShared
  <2> QED BY <1>a, <2>7, <2>8, <2>9, <2>10
<1>3. ASSUME NEW h \in Hooks, TruncateShared(h) PROVE TypeOK' /\ Reporting'
  BY <1>0, <1>a, <1>3, EmptyObject DEF TruncateShared, HookType
<1>4. ASSUME NEW h \in Hooks, WriteShared(h) PROVE TypeOK' /\ Reporting'
  <2>1. hook[h].world \in Worlds /\ hook[h].files \in Lists /\ hook[h].text \in Object
    BY <1>4 DEF WriteShared
  <2>2. latest' = Insert(latest, [world |-> hook[h].world, files |-> hook[h].files])
    BY <1>4 DEF WriteShared, Insert
  <2>3. latest' \in Object
    BY <2>1, <2>2, InsertType DEF Entry
  <2>4. file' \in [entries : Object, whole : BOOLEAN]
    <3>1. \/ file' = [entries |-> hook[h].text, whole |-> TRUE]
          \/ file' = [entries |-> {}, whole |-> FALSE]
      BY <1>4 DEF WriteShared, WriteOver
    <3>2. \A o \in Object, b \in BOOLEAN : [entries |-> o, whole |-> b] \in [entries : Object, whole : BOOLEAN]
      OBVIOUS
    <3>3. [entries |-> hook[h].text, whole |-> TRUE] \in [entries : Object, whole : BOOLEAN]
      BY <2>1, <3>2
    <3>4. [entries |-> {}, whole |-> FALSE] \in [entries : Object, whole : BOOLEAN]
      BY EmptyObject, <3>2
    <3> QED BY <3>1, <3>3, <3>4
  <2>5. hook' = [hook EXCEPT ![h] = Done] /\ settled' \subseteq Worlds
    BY <1>4, <2>1 DEF WriteShared
  <2> QED BY <1>0, <1>a, <2>3, <2>4, <2>5, DoneType
<1>5. ASSUME NEW h \in Hooks, KillHook(h) PROVE TypeOK' /\ Reporting'
  BY <1>0, <1>a, <1>5, DoneType DEF KillHook
<1>6. CASE UNCHANGED vars
  BY <1>6 DEF vars
<1> QED BY <1>1, <1>2, <1>3, <1>4, <1>5, <1>6 DEF Next

\* Every state of the file and the hooks is of its type: the file and what is about to
\* be written are objects with one entry per world (hook.rs:22-45).
THEOREM SharedTypeCorrect == Spec => [](TypeOK /\ Reporting)
<1>1. Init => TypeOK /\ Reporting
  BY EmptyObject, DoneType DEF Init, TypeOK, Reporting, HookType
<1> QED BY <1>1, SharedTypeStep, PTL DEF Spec

\* The reports that should be in the file.
Kept == {e \in latest : e.world \in settled}

\* Unless a hook is writing they are in it. A hook that has not clashed is alone between
\* its read and the end of its write: it has all of them in hand, with its own report in
\* place of the one before, and finds the file empty when it writes.
KeptInv ==
  /\ (\A h \in Hooks : hook[h].pc # "write") => Kept \subseteq Parsed(file)
  /\ \A h \in Busy : ~hook[h].clashed =>
       /\ \A k \in Busy : k = h
       /\ [world |-> hook[h].world, files |-> hook[h].files] \in hook[h].text
       /\ \A e \in Kept : e.world # hook[h].world => e \in hook[h].text
       /\ hook[h].pc = "write" => file = [entries |-> {}, whole |-> TRUE]

\* Each step of a hook keeps the reports: those that disturb others are noted as clashes
\* when they read, and unsettle every report when they write (hook.rs:22-45).
LEMMA KeptStep == ASSUME TypeOK, KeptInv, [Next]_vars PROVE KeptInv'
<1> USE DEF KeptInv, Busy
<1>1. ASSUME NEW h \in Hooks, NEW w \in Worlds, NEW l \in Lists, StartHook(h, w, l)
      PROVE  KeptInv'
  <2>1. Kept' = Kept /\ Parsed(file)' = Parsed(file) /\ file' = file
    BY <1>1 DEF StartHook, Kept, Parsed
  <2>2. hook'[h].pc = "read" /\ hook[h].pc = "done" /\ \A k \in Hooks \ {h} : hook'[k] = hook[k]
    BY <1>1 DEF StartHook, TypeOK, Done
  <2> QED BY <2>1, <2>2
<1>2. ASSUME NEW h \in Hooks, ReadShared(h) PROVE KeptInv'
  <2> DEFINE entry == [world |-> hook[h].world, files |-> hook[h].files]
  <2>1. Kept' = Kept /\ Parsed(file)' = Parsed(file) /\ file' = file
    BY <1>2 DEF ReadShared, Kept, Parsed
  <2> DEFINE clash == Busy # {}
             text == Insert(Parsed(file), entry)
             own == [hook[h] EXCEPT !.pc = "truncate", !.clashed = clash, !.text = text]
             other(k) == IF k \in Busy THEN [hook[k] EXCEPT !.clashed = TRUE] ELSE hook[k]
  <2>a. hook[h].pc = "read" /\ hook' = [k \in Hooks |-> IF k = h THEN own ELSE other(k)]
    BY <1>2 DEF ReadShared
  <2>b. own.pc = "truncate" /\ own.clashed = clash /\ own.text = text
        /\ own.world = hook[h].world /\ own.files = hook[h].files
    <3> HIDE DEF clash, text
    <3> QED BY DEF TypeOK
  <2>c. \A k \in Hooks : /\ k \in Busy => other(k).clashed = TRUE
                         /\ other(k).pc = hook[k].pc
    BY DEF TypeOK
  <2>2. /\ hook[h].pc = "read" /\ hook'[h].pc = "truncate"
        /\ hook'[h].clashed = clash
        /\ hook'[h].world = hook[h].world /\ hook'[h].files = hook[h].files
        /\ hook'[h].text = Insert(Parsed(file), entry)
    <3> HIDE DEF clash, own, entry
    <3> QED BY <2>a, <2>b
  <2>3. \A k \in Hooks \ {h} : /\ k \in Busy => hook'[k].clashed = TRUE
                               /\ hook'[k].pc = hook[k].pc
    <3> HIDE DEF own, other
    <3> QED BY <2>a, <2>c
  <2> HIDE DEF text, own, other
  <2>4. ASSUME ~hook'[h].clashed
        PROVE  /\ \A k \in Hooks : hook[k].pc \notin {"truncate", "write"}
               /\ Kept \subseteq Parsed(file)
    BY <2>2, <2>4
  <2>5. entry \in Insert(Parsed(file), entry)
        /\ \A e \in Parsed(file) : e.world # hook[h].world => e \in Insert(Parsed(file), entry)
    BY DEF Insert
  <2> HIDE DEF entry
  <2>6. hook'[h].clashed \/ (/\ [world |-> hook'[h].world, files |-> hook'[h].files] = entry
                             /\ \A k \in Busy' : k = h
                             /\ \A e \in Kept' : e.world # hook'[h].world => e \in hook'[h].text)
    BY <2>1, <2>2, <2>3, <2>4, <2>5 DEF entry
  <2>7. (\A k \in Hooks : hook'[k].pc # "write") => Kept' \subseteq Parsed(file)'
    BY <2>1, <2>2, <2>3
  <2>8. \A k \in Busy' : ~hook'[k].clashed => k = h
    BY <2>3
  <2> QED BY <2>1, <2>2, <2>5, <2>6, <2>7, <2>8
<1>3. ASSUME NEW h \in Hooks, TruncateShared(h) PROVE KeptInv'
  <2>1. Kept' = Kept /\ file' = [entries |-> {}, whole |-> TRUE]
    BY <1>3 DEF TruncateShared, Kept
  <2>2. /\ hook[h].pc = "truncate" /\ hook'[h].pc = "write"
        /\ \A k \in Hooks : /\ hook'[k].world = hook[k].world /\ hook'[k].files = hook[k].files
                            /\ hook'[k].text = hook[k].text /\ hook'[k].clashed = hook[k].clashed
                            /\ k # h => hook'[k].pc = hook[k].pc
    BY <1>3 DEF TruncateShared, TypeOK
  <2> QED BY <2>1, <2>2
<1>4. ASSUME NEW h \in Hooks, WriteShared(h) PROVE KeptInv'
  <2>1. hook[h].pc = "write" /\ hook'[h].pc = "done" /\ \A k \in Hooks \ {h} : hook'[k] = hook[k]
    BY <1>4 DEF WriteShared, TypeOK, Done
  <2>2. CASE hook[h].clashed
    <3>1. Kept' = {}
      BY <1>4, <2>2 DEF WriteShared, Kept
    <3>2. \A k \in Busy' : k \in Busy /\ k # h /\ hook'[k] = hook[k]
      BY <2>1
    <3>3. \A k \in Busy : k # h => hook[k].clashed
      BY <2>1
    <3> QED BY <3>1, <3>2, <3>3
  <2>3. CASE ~hook[h].clashed
    <3> DEFINE entry == [world |-> hook[h].world, files |-> hook[h].files]
    <3>1. h \in Busy /\ \A k \in Busy : k = h
      BY <2>1, <2>3
    <3>2. file' = [entries |-> hook[h].text, whole |-> TRUE]
      BY <1>4, <2>1, <2>3 DEF WriteShared, WriteOver
    <3>3. Parsed(file') = hook[h].text
      BY <3>2 DEF Parsed
    <3>4. Kept' \subseteq {e \in Kept : e.world # hook[h].world} \union {entry}
      BY <1>4, <2>3 DEF WriteShared, Kept
    <3>5. Kept' \subseteq hook[h].text
      BY <2>1, <2>3, <3>1, <3>4
    <3>6. Busy' = {}
      BY <2>1, <3>1
    <3> QED BY <3>3, <3>5, <3>6
  <2> QED BY <2>2, <2>3
<1>5. ASSUME NEW h \in Hooks, KillHook(h) PROVE KeptInv'
  <2>1. hook[h].pc # "done" /\ hook'[h].pc = "done" /\ \A k \in Hooks \ {h} : hook'[k] = hook[k]
    BY <1>5 DEF KillHook, TypeOK, Done
  <2>2. file' = file /\ Parsed(file)' = Parsed(file)
    BY <1>5 DEF KillHook, Parsed
  <2>3. CASE hook[h].pc = "write"
    <3>1. Kept' = {}
      BY <1>5, <2>3 DEF KillHook, Kept
    <3> QED BY <2>1, <2>2, <2>3, <3>1
  <2>4. CASE hook[h].pc # "write"
    <3>1. Kept' = Kept
      BY <1>5, <2>4 DEF KillHook, Kept
    <3> QED BY <2>1, <2>2, <2>4, <3>1
  <2> QED BY <2>3, <2>4
<1>6. CASE UNCHANGED vars
  BY <1>6 DEF vars, Kept, Parsed
<1> QED BY <1>1, <1>2, <1>3, <1>4, <1>5, <1>6 DEF Next

\* For any number of hooks: a report that no other hook disturbed is in the file, and
\* stays until its world's next one.
THEOREM ReportsAreKept == Spec => []ReportsKept
<1>1. Init => KeptInv
  BY DEF Init, KeptInv, Kept, Busy, Parsed, Done
<1>2. KeptInv => ReportsKept
  BY DEF KeptInv, ReportsKept, Quiet, Kept
<1>3. (TypeOK /\ Reporting) /\ KeptInv /\ [Next]_vars => KeptInv'
  BY KeptStep
<1> QED BY <1>1, <1>2, <1>3, SharedTypeCorrect, PTL DEF Spec
=============================================================================
