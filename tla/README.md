# A TLA+ model of yggdrazil

`ygg` runs several coding agents on one git repository at the same time. Each agent
works in a *world*, a git worktree of its own under `.ygg/worlds`. A daemon learns from
hooks which files the agents edit, finds the files that two worlds edit, and warns the
worlds and the user. All of this is done by separate processes and by concurrent tasks
of the daemon, which share files and git state and hold no lock. This directory models
them: what is checked with TLC on small instances, and what is proved with TLAPS for
all of them.

Line numbers refer to the Rust sources under `src/` of the repository.

## The system

| Component | Code | State | Operations | Correct when |
|---|---|---|---|---|
| Conflict detector | `daemon/mod.rs`, `daemon/bus.rs`, `daemon/laws.rs:145-162` | `audit.log`; each world's `CLAUDE.md`; one running handler per connection | `HookReport`, `DeleteWorld`; append, read the window, detect, warn, announce | no conflict is missed, no warning is unfounded, every conflict is announced |
| Shared memory | `cli/hook.rs` | `shared_memory.json`, one entry per world | each hook reads, changes and writes the file | an undisturbed report is in the file and stays |
| IPC server | `ipc/server.rs` | broadcast channel of 256 messages; a receiver and a write task per connection | connect, send, receive, lag, write, fail | clients get messages in order, and losses are told |
| Worlds | `daemon/trunk.rs`, `cli/run.rs` | branches, worktrees, directories, `.env` | choose a branch, make a world, run the agent, delete the world | agents have a world and a branch of their own; a deletion that succeeds leaves no worktree; the user's branches stay |
| Rules and hooks | `daemon/laws.rs:19-143`, `cli/init.rs` | `CLAUDE.md`, hooks and settings in the main worktree and in each world | `ygg init`, inject rules; git commits and merges carry the files on | an agent reads the id of its own world, and is reported under it |
| Sync | `cli/sync.rs` | none of its own | diffs of all worlds, overlaps, merge, prune | the report names the files whose same lines two worlds changed |
| Client and TUI | `ipc/client.rs`, `tui/*` | `AppState`, the IPC thread, the confirmation dialog | apply a message, a key, a timeout around `recv` | the list of worlds converges; a key means what is on the screen when it is read; a confirmation is carried out |
| Scan loop | `daemon/roots.rs` | known pids | every 30 s: find agents, make worlds for unmanaged ones, send a snapshot | each unmanaged agent gets a world; the snapshot is not older than what was sent before it |
| Daemon life cycle | `cli/daemon_cmd.rs`, `ipc/server.rs:18-29` | pid file, socket | start, stop, bind, crash | the daemon that runs is the one that the pid file names and the clients reach |
| Local models | `cli/local.rs`, `cli/llama_cmd.rs`, `cli/run.rs:94-188` | state file, model files, llama-server processes | reuse, download, start, wait, stop | no server runs that nobody knows of, and none on part of a model |
| Update, dispatch | `cli/update.rs`, `main.rs` | files, written once | - | - |

How they interact:

- `ygg hook` (a process per report) writes `.agent_state` and `shared_memory.json`, then
  sends a `HookReport` over the socket and does not wait for an answer.
- The daemon's accept loop starts a read task and a write task for each connection.
  The read task runs the handler of each message; handlers of different connections run
  in parallel on tokio's threads.
- Handlers and the scan loop send into the broadcast channel; each write task forwards
  three kinds of message to its client (the TUI).
- `ygg run`, the daemon and `ygg sync` call the same `trunk.rs` functions in different
  processes. They share the git repository and `.ygg/worlds`.
- `ygg daemon start` and `stop` share the pid file; a daemon takes the socket over from
  whoever had it. `ygg daemon stop` kills the daemon wherever its handlers are.
- Sessions of `ygg run --local` and the `ygg llama` commands share the state file, the
  ports and the model files.
- The files that tell a world's agent and its hooks which world they are in lie in the
  worktree, so git may carry them to other worlds.

Hard to test are: reports of two worlds interleaving in append, scan and warn; files read
and written back without a lock; a daemon or a hook stopped half-way; the window of 500
events; slow and dead clients of a bounded channel; the look whether a branch is free
before it is taken; two removals of one world at a time; processes that come and go, or
turn into agents, between two looks at the process table; keys typed ahead of the screen; a
pid or a port that has a new owner; a state file that is removed when it has come to name
another server. `PROJECT.json` lists these hazards at their lines, with the properties that
cover them.

## Modules

| Module | What it is | Run by |
|---|---|---|
| `Resonance` | the conflict detector | `MCResonance` |
| `ConflictPromise` | what conflict detection promises, without log, window or handlers | refined by `Resonance` |
| `ResonanceProofs` | theorems about `Resonance` | TLAPS |
| `SharedMemory` | `shared_memory.json` under concurrent hooks | `MCSharedMemory` |
| `SharedMemoryProofs` | theorems about `SharedMemory` | TLAPS |
| `Channel` | the IPC server's channel, its receivers and write tasks | itself |
| `Delivery` | in-order, at-most-once, lossy delivery | refined by `Channel` |
| `Trunk` | the life of worlds | `MCTrunk` |
| `TrunkProofs` | theorems about `Trunk` | TLAPS |
| `Monitor` | the list of worlds in the TUI, its IPC thread, and the snapshots and deletions of the daemon | `MCMonitor` |
| `MonitorProofs` | theorems about `Monitor` | TLAPS |
| `Scan` | the daemons' search for agents that were started without ygg | itself |
| `ScanProofs` | theorems about `Scan` | TLAPS |
| `Daemons` | start and stop commands, the pid file, the socket | itself |
| `ServerProofs` | theorems about the IPC server: `Channel`, and `Daemons`, whose specification is named `Life...` for that reason | TLAPS |
| `LocalModel` | llama-server under sessions and commands | itself |
| `Sync` | the overlap report of `ygg sync`, and its merges | `MCSync` |
| `SyncProofs` | theorems about `Sync` | TLAPS |
| `Laws` | the files that name a world, and how git carries them | itself |
| `RunProofs` | theorems about what `ygg run` relies on: `LocalModel` and, as its instance `Rules`, `Laws` | TLAPS |

`Daemons`, `Scan` and `Monitor` divide the daemon's process between them: its life, its
search for agents, and the worlds it reports; `Resonance` has its handlers and `Channel`
its clients. The `MC*` modules only add symmetry sets and sequences. Operators under a
`Mutant:` comment are not part of the specifications: each is a plausible bug of the
definition it names, kept to show that the property it is paired with in `PROJECT.json`
notices that bug.

### Resonance

State: `log` is `audit.log`, `claude` the `CLAUDE.md` of each world as a set of its parts
(the rules of `inject_rules` are the one value `Protocol`), `trees` the worlds that have a
directory, `task` the handler on each connection with its local variables, `published`
everything handed to the broadcast channel, `clock` the hours that `ts` and the window
depend on. `scanned` and `spoiled` are history variables, `stops` and `budget` are bounds.
`spoiled` collects the worlds whose `CLAUDE.md` two handlers had between read and write at
one time, or whose removal failed after it may have taken the file: for the others
`SomeoneWarned` and `RulesKept` must hold, however the reports interleave otherwise.

A step is one system call or one send: the appends of `mod.rs:43-58` are `StampEvent`,
`AppendEvent`, `NotifyEvent` per file; `mod.rs:60-61` is `ScanLog`; the loops over
conflicts and worlds are `TakeConflict` and `ReadClaude`/`TruncateClaude`/`WriteClaude`
(the three parts of `inject_conflict_warning`), then `AnnounceConflict`. `Touching` and
`DetectConflicts` are `detect_conflicts`; `ReadRecent` is the filter, reverse, take and
reverse of `read_recent`. The order of a `HashMap` is a choice, and so is the order of the
worlds of a conflict (sorted in the code; the order makes no difference to the properties
here). A `write_all` onto a file that someone else has filled since the truncation
overwrites it from its start, so any part of the longer text may stay behind.

`DeleteWorld` is the half of that handler that this module's state sees; its steps on git
and the directory are in `Trunk`. `RemovalFails` is a `remove_dir_all` that takes some of
the files, the `CLAUDE.md` for one, and then fails (`trunk.rs:200`). A deleted world is not
made again: ids contain the time to the millisecond (`run.rs:7-12`), and a world made later
is one that has not reported yet. The ids that the scan loop makes for unmanaged agents can
come back, but such agents run no hooks of a world.

### SharedMemory

`file` is the object in the file and whether it parses, `hook` the hook processes between
their read, `O_TRUNC` and write. `settled` holds the worlds whose last report was written
without another hook or a kill in between. README.md:232 calls this file append-only
JSON-lines; the code keeps a single JSON object in which an entry is replaced, and the
model follows the code.

### Channel

A message is its position in `sent`; a client has a `cursor`, the message in its `hand`
and what was `delivered`. `Connect` is accept and `subscribe` in the accept loop;
`Receive`, `Lag`, `Write` and `WriteFails` are the branches of the write task. `Send` is
any `tx.send`: of handlers, of the scan loop, and of the read task, which sends every
client message on (kind `HookReport`, which nobody forwards). `Stall`, `Resume` and
`Hangup` are what clients do. `Delivery` is the abstract view of `sent`, `joined` and
`delivered`; the refinement mapping is the identity on these names.

### Trunk

`refs` and `kept` are git's branches and the work on them, `tree` the worktrees,
`dirs` the directories, `port` the `.env` files, `run` the `ygg run` processes and `del`
the two who may call `delete_world` on a world: its run after the agent's exit, and the
daemon. A step is one git command or file operation of `create_world` and `delete_world`;
looking whether a branch exists and making it are one step, because only a run that picked
a removed world's branch could come between. `ListedBranch` is `list_worlds`' branch: the
code looks for `<world>/HEAD`, which linked worktrees do not have.

The daemon may remove a world at any time after its directory was made, also while the run
still sets it up. `WriteFiles` is `.env` and the files that `inject_rules` writes to the
root of the world (`laws.rs:28-64`); they need the directory. `MakeHooksDir` is
`create_dir_all` (`laws.rs:69`), which makes a directory that was removed since anew, and
`Launch` the hooks and the start of the agent in it. `Refill` is any other writer that makes
the directory anew. `remade` notes both, and a removal of the directory may fail because of
them, which is the choice in `DirRemoved`. An agent in a directory that is no worktree any
more commits to the repository around it (`Commit`).

### Monitor

Three loops: the daemon (`fate` of the worlds, `scan`, `requests`, `removing`), the IPC
thread (`thread`, and `part` for a line that `recv` has taken only the start of) and the
main loop (`pc`, `app` for `AppState`, `screen` for what was drawn last), connected by
`wire`, `cmds` and `inbox`. `wire` stands for the broadcast channel, the write task and the
socket in one: `Channel` is their model, and what `Monitor` keeps of it is the order and the
loss of the oldest message. A step of the main loop is a key that it reads, half a second
without one, one message, or drawing; a key in the overlay goes back to drawing without the
messages, as the `continue` of `tui/mod.rs:207` does. Typing a key (`Type`) and reading it
(`Read`) are two steps: `typed` counts what waits in the terminal meanwhile. Which key it is
is chosen when it is read, as no step before depends on it. `ghost` is a history variable.

The module is about the list of worlds: what else the TUI shows (agents, audit log,
conflicts, scrolling, a world's `.env`) is left out. `EventNotification` messages change
nothing else, but take places in the channels (`Notify`).

### Scan

`dir` is the process table, reduced to the working directory of the process that has a pid,
and `agents` tells which of these run an agent: a process begins as a shell, a script or an
editor (`StartProcess`) and may change its directory and run the agent under the same pid
(`RunAgent`). `scan[d]` is the loop of a daemon with its local variables: `known`
(`known_pids`), `looked` (`current_pids` and the directories of the first `System`, of all
processes) and `found` (the agents of the second one, which `scan_once` makes). `Handle` is
one iteration over the agents, `Retain` the clean-up at its end. `worlds` are the
directories whose world, named by their hash, exists. Only daemons remember anything, and
only until they end. Processes may start and exit, and their pids be used again, between
any two steps. `trouble` notes the pid that a daemon had seen as another process's, the
process that went to another directory and became the agent during a scan, the world that
could not be made and the one that was deleted, after which the code promises nothing. A
process that becomes the agent between two scans is no trouble: only agents are known, and
the first snapshot of the next scan has its new directory.

### Daemons

`file` and `sock` are `daemon.pid` and `daemon.sock`; `start` and `stop` the commands,
each between its file and process operations; `daemon` the daemons. `CheckStart`, `Spawn`,
`TruncatePid` and `FillPid` are `start` (the `fs::write` is two steps), `ReadPid`,
`KillProcess` and `RemovePid` are `stop`, `RemoveSocket` and `BindSocket` are
`IpcServer::new`. A daemon has no handler for SIGTERM, so it dies some time after; one that
crashes or is killed leaves its socket. The pid of a dead daemon is not used again here, a
bound that `LocalModel` does without for its servers.

### LocalModel

`session` is `ygg run --local` from the look at the state file to its end, one place per
file or process operation; `server`, `port` and `file` are the llama-servers, their ports
and `llama-server.pid`; `disk` the model files, with `writer` for the one that created the
file last (`File::create` truncates); `tool` a `ygg llama` command. A session starts at
most one server, which therefore has the session's name, and so has its pid. A server
binds, loads and may crash when it likes; it stays a zombie until its session has ended,
because nothing waits for it before, and `is_pid_alive` takes a zombie for a running
process. After that its pid may be another program's. A server may also hang: it accepts
and does not answer any more. `wait_for_server` looks at its deadline (`Ask` or
`ServerTimesOut`, at `wait`) and then calls the port (`ServerReady` or `NoAnswer`, at
`ask`); the call has no timeout, so that it returns nothing as long as a server that hangs
has the port. `trouble` records what the properties make exceptions for: sessions or
commands that overlap, probes and loads that are too slow, servers that exit before their
session, a state file that could not be written, downloads cut short, sessions killed at
work.

### Sync

`trunk` and `base` hold lines with identities: the trunk's current files and those at the
merge base of each world, whose changes are `hunks` and `deleted`. `HasName` and
`HunkHeaders` are what `git diff -U0` prints of a file, its `+++ b/` line and its hunks;
`CurrentFile` is `current_file` when the loop of `diff_world` comes to these hunks, and
`DiffWorld`, `ParseHunkHeader`, `RangesOverlap` and `FindOverlaps` are the functions of
that name. `Reported` is the report of `ygg sync`: it asks for the diff of the branch that
`list_worlds` gives (`ListedBranch`), which is no branch of any world, so that there are no
ranges. `Merge` is the merge of that branch, confirmed by the user.

`OverlapsExact` is about the functions alone, given the branches that exist, and the program
never does that; it is proved and in no run. `Touched` is its reference: the lines, by
identity, that a world changed. Its premises say where ranges are no answer even then:
those of different versions of a file count different lines, and a deleted file's
`+++ /dev/null` does not change `current_file`, so that its hunks count as those of the
file before it (`Misfiled`). An insertion counts as a change of the line before it, as
`parse_hunk_header` has it.

### Laws

A file is abstracted to the world it names: `main` holds the files of the main worktree,
`tip[b]` those committed to a branch, `world[w]` those of a world and `on[w]` its branch. A
world is made on the branch that the user chose when that is free, and on one of its own
that starts there when it is not (`Create`); it starts with the files of that branch, which
earlier worlds may have been on. `YggInit` and `InjectRules` write a file unless it is there.
`clean` notes the worlds made from a branch on which no file named a world, `merged` the
branches whose merge brought such a file to the trunk. `HookOf` and
`ReportsAs` follow a tool's call to the world it is reported under: the settings name a hook
by its path, and that hook has the world's id in its text or reads it from `CLAUDE.md`.

## Runs

| Run | Properties | What it shows |
|---|---|---|
| `resonance` | `TypeOK`, `NoConflictMissed`, `WarningsGrounded`, `SomeoneWarned`, `RulesKept`, `PromiseSafety` | two worlds, two files, two connections, reports of up to two files, a window of two of three events, an hour that passes or a stop of the daemon |
| `resonance_promise` | `PromiseKept` | the detector implements `ConflictPromise` with its liveness, under fair scheduling |
| `shared_memory` | `TypeOK`, `ReportsKept` | two hooks at a time, four reports, one killed |
| `channel` | `TypeOK`, `LossIsLag`, `DeliversInOrder`, `NewestArrives`, `DeadTasksEnd` | a channel of two, four messages, a client that does all clients do |
| `trunk` | `TypeOK`, `AgentsIsolated`, `DeletedIsGone`, `PortsGrow`, `UserBranchesKept` | two runs and the daemon, two user branches |
| `monitor` | `TypeOK`, `CursorOnWorld`, `KeysMeanWhatIsDrawn` | two worlds that come and go, any keys typed at any time, one confirmed deletion, the daemon stopping |
| `monitor_live` | `ReturnsOnce`, `ListConverges`, `ConfirmedIsDeleted` | one world, one confirmed deletion, reports of agents, under fair scheduling |
| `scan` | `TypeOK`, `KnownHasWorld`, `AgentGetsWorld` | two daemons, two pids, the root and a directory, three changes of processes, worlds and daemons, under fair scheduling |
| `daemons` | `LifeTypeOK`, `OneDaemon` | three starts and two stops in any order, overlapping or not, with crashes |
| `local_model` | `TypeOK`, `KeptIsKnown`, `UsesWholeModel`, `SessionsLaunch` | two sessions and one command, one model, two ports, under fair scheduling |
| `sync` | `TypeOK` | all pairs of diffs with up to two hunks or deletions per world, in two files of two lines, before or after a commit to the trunk |
| `laws` | `NamesOwnWorld` (violated) | see Findings |

Bounds. A conflict needs two worlds and one file; a mix-up of conflicts needs two files;
a race needs two connections. Three events and a window of two push one event out.
`MaxUpsets` allows the clock one hour (the age at which events leave the window of this
run) or the daemon one stop, but not both; the theorem `NothingMissed` covers all clocks
and stops together. A channel of two overflows with the third message; clients share
nothing but the channel and no write task reads what belongs to another, so one client is
enough, and the theorems hold for any number. Two runs are enough for two worktrees to
meet on a branch, with the daemon and the run on each side of a removal.

In `monitor` two worlds are what a cursor needs to be on a wrong one; a channel of two
overflows as soon as the thread is one snapshot and one deletion behind, and one message
in `inbox` is enough for a list that changes between drawing and key. One key in the terminal
(`MaxTyped`) is one that was typed before the list changed. The liveness properties and
`ReturnsOnce` are about each world by itself, so one is enough in `monitor_live`. Its one
confirmation lets a deleted world come back; one that is confirmed again after that is left
to the theorem `ReturnsAtMostOnce`. `monitor` has no `Events`: these only take places in the
channel, and `monitor_live` has one.

`scan` has two daemons because the second finds the world that the first is making, and
two pids because a scan must go on after an agent that is known; three changes are enough
for both agents and a restart or deletion, or for a process that starts, becomes the agent
and exits. `daemons` needs three starts
for a second daemon that is started while the first dies and a third one after it, and two
stops to end them. `local_model` needs two sessions for a server that is reused, raced for or
left behind; the command runs before, between or beside them. One model is enough for two
downloads of it to collide, and two ports for both sessions to have one. In `sync` hunks of
zero to two lines in a file of two touch, enclose, follow and miss each other in every way,
an empty hunk before the first line and after the last included. `laws` needs two worlds
for one to find what the other committed, and a branch besides the trunk for this to happen
without a merge.

`CHECK_DEADLOCK FALSE` is set where everything may come to rest: all reports handled, all
worlds removed, all commands given, the bounds reached.

Fairness. `Resonance!FairSpec` and `Channel!FairSpec` have weak fairness of a connection's
handler and of a client's write task: tokio polls each task that is ready, and no step of
these waits for another task, except that a write waits for its client, which is why
`Stall` disables `Write`. Nothing is assumed of clients, hooks, users or the clock, and
nothing at all of the daemon staying up: the liveness runs have no stop of the daemon
(`MaxUpsets = 0`), because a stopped handler announces nothing more.

`Monitor!FairSpec` has weak fairness of the daemon's tasks, of the thread and of the main
loop, and assumes that the user lets the terminal run empty now and then (`[]<>(typed = 0)`)
and types nothing for 500 ms (strong fairness of `Quiet`): with the overlay open, keys typed
faster than that keep the messages waiting, and nothing in the code prevents it.
`ListConverges` also asks that the thread keeps up from some time on (`KeepsUp`): agents
that report for ever, faster than it reads, could push every snapshot out of the channel.
Strong fairness of what `recv` returns stands for `tokio::time::timeout` asking the inner
future before its timer: a line that has come is never lost to a timeout. The daemon may
stop, the thread may end, and nothing is assumed of runs or keys.

`Scan!Spec` has weak fairness of each daemon's scan loop as a whole: the loop waits for
nothing but its 30 s. `LocalModel!Spec` has weak fairness of a session's steps up to its
agent: prompts get an answer, and a download ends or fails (`ureq` is called without a
timeout, so this is an assumption). Strong fairness of `ServerTimesOut` says that 30 s pass:
a session that looks at its deadline again and again finds it over. A call that never
returns is not assumed away. In neither is anything assumed of agents, servers,
users or commands, nor that a daemon stays: `AgentGetsWorld` asks for one that does.

## Findings

**The next world may have another world's protocol** (`daemon/laws.rs:36`, run `laws`).
`inject_rules` writes no `CLAUDE.md` when there is one with the protocol text, whichever
world that text names. README.md:247 says that every world gets the preamble with its own
id. Once an agent has committed its `CLAUDE.md` (`ygg init` only ignores `.ygg/`), the next
world that is made on its branch, or on any branch that it was merged to, keeps the id of
the first. What does hold is `ReportsOwnWorld`, which is proved (`ReportsHold`): a world
made from a branch on which no file names a world is named by its own `CLAUDE.md`, and its
changes are reported under its id as long as no merge has brought the files of a world to
the trunk: after that the hook of the main worktree, which settings of `ygg init` lead to,
may name another.

## Observations

What the code does as it stands, met while modelling. The definitions named in the first
six state the opposite, and stay in the modules for whoever wants to see TLC's
counterexample: with one property in a configuration of the module's size, TLC has it at once.

1. A warning may name an innocent world (`daemon/mod.rs:67`; `Resonance!WarningsTrue`).
   Every conflict of the window is warned of in the name of the world that reports now,
   even when it is not one of the conflict's worlds.
2. `CLAUDE.md` can lose its rules (`daemon/laws.rs:160`; `Resonance!RulesSurvive`). A
   second handler that reads it between truncation and write writes back a file without
   them. `RulesKept` says that nothing else loses them while the daemon runs.
3. Two worlds get the same port (`daemon/trunk.rs:41`; `Trunk!PortsUnique`). Ports follow
   from the number of directories; after a removal the next world gets the port of one that
   is running. `PortsGrow` states what does hold.
4. `ygg sync` reports and merges nothing (`daemon/trunk.rs:174`, `cli/sync.rs:119`;
   `Sync!OverlapsReported`, `Sync!MergedAsConfirmed`). README.md:31 says that it computes
   line ranges across all worlds and shows an overlap report. It asks git for the diff of
   the branch that `list_worlds` gives, and that is `unknown` for every world:
   `read_branch_from_worktree` looks for `<world>/HEAD`, which linked worktrees do not have.
   The diff of a branch that does not exist is empty, so two worlds that replaced the same
   line are both safe. The merge fails, nothing is logged or pruned, and the question about
   used branches (`run.rs:77`) never comes.
5. `ygg monit` does receive what the daemon sends (`tui/mod.rs:243`;
   `Monitor!LoadedAtStartup`). README.md:365 lists among the limitations that its state is
   loaded at startup, that it receives no push events, and that it has to be restarted to
   see changes. The code has a thread for the daemon's messages, and the main loop applies
   them. `Monitor` follows the code, and `ListConverges` is what it gives.
6. A script that becomes an agent may get no world (`daemon/roots.rs:85`;
   `Scan!ScriptedAgentGetsWorld`). README.md:28 says that the daemon makes one for agents
   launched by scripts. The directory is taken from the scan's first snapshot, the agent from
   its second: a script that changes directory and runs the agent by exec between the two
   gets a world for the directory that it was in. Its pid is then known, and no later scan
   looks at it again.
7. README.md:206 says that some commands start the daemon when it does not run; no code
   does.
8. A snapshot's conflicts come from `shared_memory.json` (`daemon/roots.rs:129`), which
   holds no events, so each snapshot clears the conflicts on display.
9. A world that was deleted while `ygg run` was setting it up gets its directory back
   (`daemon/laws.rs:69`), and the agent starts there. It is in no worktree of its own: git
   takes the main worktree, so its commits go to the branch that the user has checked out.
   An agent that was not the one the daemon found (`daemon/mod.rs:101`) can make the directory
   anew as well. `Trunk!DeletedIsGone` has both as its exception, and `AgentsIsolated` speaks
   of worlds that nobody asked to delete.
10. Keys typed ahead are read later (`tui/mod.rs:195`): `d` and `y` in a row, typed while a
   snapshot is on its way, delete the world that is under the cursor when they are read,
   which the user may not have seen. `Monitor!KeysMeanWhatIsDrawn` speaks of the screen at
   the time a key is read.
11. A llama-server that accepts and never answers holds `ygg run --local` for ever
   (`cli/local.rs:790`): the 30 s are looked at between two calls, and a call has no timeout.
   `LocalModel!SessionsLaunch` has this as its exception.
12. A state file that could not be written is passed over (`cli/local.rs:837`), and the
    server is then in no file (`LocalModel`, trouble `unwritten`).

## Proofs

The theorems hold for every value of the constants, from the named assumptions of the
modules only: sets of worlds, runs and so on are finite where they are counted, and
placeholder values are not elements of what they stand beside. The inductive invariants are
in the modules of the proofs, next to the theorem each is for, and the models keep the
properties that the runs check; only `CleanWorlds`, `Unmerged` and `LawsInv` are in `Laws`,
as its proofs reach it as an instance.

- `ResonanceProofs`. `TypeCorrect`: `TypeOK` contains `WellFormed`, what each place in
  the handler may rely on, and is inductive with it. `NothingMissed`: `NoConflictMissed`
  is inductive given `TypeOK`. The step that matters is `ScanLog`: two clashing entries
  within reach are both in what `read_recent` returns (`ReachIsRead`), so the scan has a
  conflict that names them (`DetectsPair`); an append makes its own handler one that will
  scan. `WarningsAreGrounded`: `WarningsGrounded` is not inductive, as a handler could
  hold an unfounded conflict; `GroundingInv` adds that conflicts, targets and texts in
  the handlers' hands are grounded, and is. `DetectorImplementsPromise` maps each step to
  an edit, an announcement or a stutter of `ConflictPromise`; that announced conflicts
  are real needs `GroundingInv`. `AnnouncementsAreReal` uses the refinement: in
  `ConflictPromise` edits only grow, so a conflict that is announced stays a real one.
  `RulesStay`: `RulesInv` adds to `RulesKept` that a file that was never in two hands is
  in at most one, which has read the rules; a removal that fails spoils its file at once.
- `SharedMemoryProofs`. `SharedTypeCorrect`, with `Reporting`: a hook at work has a world.
  `ReportsAreKept`: `ReportsKept` speaks of states without a hook; `KeptInv` says what a
  hook that has not clashed has in hand, and that the reports are in the file unless some
  hook is writing.
- `ScanProofs`. `ScanTypeCorrect`; `KnownAgentsHaveWorlds`: `Remembered` says that both
  snapshots stay true of an agent but for processes that exit, and that the scan has handled
  each pid it will keep that was found as an agent, so that its directory has a world.
- `ServerProofs`, about `Daemons`. `DaemonsTypeCorrect`; `OneDaemonServes`, from the
  assumption that placeholders are no daemons (`DaemonsAssumption`): `OnlyDaemon` says for
  each point of a command which daemon may be alive, and `OneCommand` that a command whose
  start finds no other stays alone. Once commands have overlapped, nothing is claimed of
  them: two starts may both find no pid file.
- `ServerProofs`, about `Channel`. `ChannelTypeCorrect`; `PositionsHold`, the order of
  what was delivered, what is in hand and the cursor; from it `NothingLostSilently`
  (`LossIsLag`) and `ChannelImplementsDelivery` (each write is a `Deliver`, and the rest
  stutters). `ClientsGetInOrder` says what that is worth: `DeliveryInOrder` proves
  `InOrder` of `Delivery` alone, and the refinement carries it over to the channel.
- `TrunkProofs`. `TrunkInductive` proves `TrunkInv`, which strengthens `TypeOK` by:
  targets are chosen once and worktrees are on their targets (`Targets`); removals happen
  only to worlds that exist and go through their steps in order (`Removals`); worktrees
  are on branches of their own (`Separate`); a run that nobody disturbs has what it made
  (`Settled`). What a removal has achieved at each of its places holds but for directories
  that were made anew. `TypeOK` alone is not inductive: that removing a directory leaves no
  worktree without one needs `Removals`. `IsolationHolds`, `DeletionHolds` follow;
  `UserWorkIsKept` is an action property and also uses that branch names of users and ids
  of worlds differ.
  `PortsStayDistinct`: `PortsGrow` compares ports, but says nothing of a run that has
  counted the directories and not yet written its port; `PortInv` adds that until somebody
  removes a world or a second run counts beside it, at most one run is about to count, and
  the number it will find is larger than every port given.
- `ResonanceProofs`, about races: `SomeoneIsWarned`. `SomeoneWarned` speaks of states
  without a handler at work. `WarnInv` says how every conflict gets there: one of its
  worlds is told, or some handler has still to scan the log (`WillScan`) or holds the
  conflict and has still to tell one of its worlds (`WillWarn`). What keeps a warning in
  its file is `HandsInv`: a `CLAUDE.md` that was never in two hands is in at most one, which
  holds all that it has read. A report's scan comes after its append, so of two handlers
  that append the later one finds both entries; a stop of the daemon ends the scanning,
  and `scanned` is false until the log is read again.
- `MonitorProofs`. `MonitorTypeCorrect`, in which the list of worlds names each once;
  `CursorStays` and the action property `KeysMeanDrawn` from `UiInv`: while the loop waits
  for a key or reads one, the screen is drawn from the state that the key will meet.
  `ReturnsAtMostOnce`: `ReturnsOnce` counts how often a deleted world came back;
  `ReturnInv` adds what can still bring it back: at most one message on its way (`Coming`,
  between the channel and the main loop) is a snapshot that has the world after its
  deletion is told (`Stale`), and then the scan loop does not hold another one. That a
  message leaves the channel in order, and that overflow only drops the oldest, are lemmas
  of their own (`CrowdedDrops`, `BroadcastAdds`, `StaleCarried`).
- `RunProofs`, about `LocalModel`. `LocalModelTypeCorrect`. `KeptServersAreKnown` and
  `WholeModelsOnly` follow from an invariant in four parts. `Launched`: a session has a
  server only from `start_server` on. `OneWorker`: without an overlap on record, one session
  or command works at a time. `KeptInv`: who works has seen the file as it is now; a session
  waits for a server of its own, which runs until the session kills it; and while a session
  replaces a server (from its model to its agent, and while it clears the file), no other is
  kept. So the server that answers in `wait_for_server` is the session's own, though only a
  port is asked, a state that was read and is not confirmed belongs to no kept server, and
  the file that a session or `ygg llama stop` removes names the server it ended. `ModelInv`:
  a model in parts is being filled by the one worker. `KeptIsKnown` alone is not inductive,
  as it says nothing of the file while a session is at work. `FreePort` needs that a set of
  numbers has a least one, which `LeastNumber` derives from the library's theorem on
  well-founded relations.
- `SyncProofs`. `FilesInv` adds to the types that the lines of a version differ, which
  `Inserted` proves for the edit of a commit: the sequence is cut at a hunk, and a line
  numbered higher than all before takes the hunk's place. `SyncTypeCorrect` follows, as the
  ranges of a world are those of its hunks (`HeaderSpan`) and filed under the file whose
  `+++ b/` line came last (`Filed`). `OverlapsAreExact` is about the functions given branches
  that exist, not about the report: overlapping ranges are those with a number in common
  (`OverlapIsShared`), the ranges filed under a file are those of its hunks unless a deletion
  gets among them (`RangesOfFile`), and in one version a number is a line (`TouchedIsShared`,
  from `FilesInv`).
- `RunProofs`, about `Laws`. `LawsInductive`, from the assumption that ids of worlds differ
  from the other contents (`NamesDiffer`). `CleanWorlds`: a world made from a branch on which
  no file names a world has files that name it or are those of `ygg init`. `Unmerged`: until
  a merge brings the file of a world to the trunk, the main worktree's hook is that of `ygg
  init`, and it is there wherever settings name it. `ReportsOwnWorld` alone is not inductive:
  it says nothing of the main worktree and the branches, from which the next world is made.
  `ReportsHold` follows by cases on the settings.

The assumptions used: `WorldsAssumption`, `FilesAssumption`, `WindowAssumption` and
`ProtocolAssumption` (the rules are not a warning) of `Resonance`; `MonitorAssumption`
(finitely many worlds; a channel of at least two messages, the code has 256);
`LocalModelAssumption` (`NoSession` and `NoModel` are no session and no model, there is a
port); `SyncAssumption` (the files are listed in a sequence, lines and bounds are numbers);
and those of the same kind in the other modules. `KeptIsKnown`, `UsesWholeModel`,
`PortsGrow` and `SomeoneWarned` except states in which something went wrong that the code
does not prevent; the runs reach states on both sides of each exception.

Every invariant and action property of the passing runs is stated by a theorem;
`ReportsOwnWorld` is proved only. Only
model-checked are the liveness properties (`PromiseKept`, `NewestArrives`, `DeadTasksEnd`,
`ListConverges`, `ConfirmedIsDeleted`, `AgentGetsWorld`, `SessionsLaunch`), which rest on
fairness and are beyond the prover.

## Not modelled

- Failing I/O other than what the modules name: a full disk, permissions. A failed append
  is an event that is not in the log, which no property speaks of.
- Lines of the log torn by a crash: they are skipped when read (`bus.rs:44`).
- The text of rules and warnings, desktop notifications, rendering, Windows pipes and
  `taskkill`.
- The agent killed by the daemon is only found by a look at the process table; when none
  is found, nothing is killed. In `Trunk` an agent may exit at any time, which covers it.
- What the user saw when she typed a key: the model has the number of keys that wait.
- The agents, audit log and conflicts on display in the TUI: they are copies that no later
  step reads.
- What `local.rs` finds out about GPUs, memory and the search path, its questions, and its
  choice among models: I/O and arithmetic whose results only reach llama-server's command
  line. The shared zip in the temporary directory (`local.rs:444`) is part of `FindBinary`.
- `ygg update`, which downloads a file and replaces another one, argument parsing.

## Plan

Done: every component but the two named last, with its runs, and the proofs of every safety
property that a run checks. What could follow:

1. The report of `Sync` for the branches that the worlds are on, once the code finds them,
   and for deleted and renamed files, which `Misfiled` excludes from `OverlapsExact`.
2. What `Daemons` promises when a start overlaps a stop, once the commands take a lock; as
   they are, overlapping commands can leave two daemons, or one that no file names.
3. The properties of Observations 1 to 6, which become properties of runs when the code is
   changed to have them.
