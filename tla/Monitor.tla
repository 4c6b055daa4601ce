------------------------------ MODULE Monitor ------------------------------
(***************************************************************************)
(* The list of worlds in `ygg monit` (src/tui/mod.rs) and what feeds it.    *)
(*                                                                         *)
(* Three loops run beside each other: the daemon, whose scan loop sends a   *)
(* snapshot of the worlds every 30 s (src/daemon/roots.rs) and whose        *)
(* handler removes worlds; a thread of the TUI that passes messages between *)
(* the socket and two channels; and the TUI's main loop, which handles keys *)
(* and messages.                                                            *)
(*                                                                         *)
(* Left out: the other things the TUI shows (agents, audit log, conflicts,  *)
(* scrolling, a world's .env), all that EventNotification messages bear on  *)
(* besides the places they take in the channels, and the worlds made for    *)
(* unmanaged agents.                                                       *)
(***************************************************************************)
EXTENDS Integers, Sequences, FiniteSets

CONSTANTS
  Worlds,
  NoWorld,    \* stands for None
  Events,     \* what agents do and the daemon tells of in an EventNotification
  Capacity,   \* messages on the way to the TUI: the channel of server.rs:27
  InboxBound, \* bound: messages between the thread and the main loop
  MaxTyped,   \* bound: what waits in the terminal to be read
  MaxAsked    \* bound: confirmed deletions

ASSUME MonitorAssumption ==
  /\ IsFiniteSet(Worlds) /\ NoWorld \notin Worlds
  /\ Capacity \in Nat /\ Capacity >= 2
  /\ MaxTyped \in Nat /\ MaxAsked \in Nat

VARIABLES
  fate,       \* of each world: "none", "there" or "gone"
  daemon,     \* "up" or "down"
  scan,       \* the scan loop: [pc, list], asleep or with a list it has not sent
  requests,   \* DeleteWorld messages on the socket of the TUI
  removing,   \* the world that was removed and not announced yet
  refused,    \* the worlds whose removal failed once
  thread,     \* the IPC thread: "none", "starting", "sending", "receiving", "dead"
  part,       \* of the next line: "none", or the start was "read" or "lost"
  wire,       \* messages from the daemon to the IPC thread
  cmds,       \* cmd_tx: worlds to delete
  inbox,      \* evt_rx: messages for the main loop
  typed,      \* how many keys and other events of the terminal wait to be read
  pc,         \* the main loop: "start", "poll", "drain" or "quit"
  app,        \* AppState
  screen,     \* what was drawn last
  asked,      \* how many deletions were confirmed
  ghost       \* of each world: 0, 1 when the TUI was told that it is deleted, and
              \* one more for each time it is in the list again after that

daemonVars == <<fate, daemon, scan, requests, removing, refused>>
linkVars == <<thread, part, wire, cmds, inbox>>
uiVars == <<typed, pc, app, screen, asked, ghost>>
vars == <<daemonVars, linkVars, uiVars>>

Listed(list) == {list[i] : i \in DOMAIN list}

There == {w \in Worlds : fate[w] = "there"}

\* list_worlds: the worlds there are, in whatever order read_dir has them.
Listings == {list \in [1..Cardinality(There) -> There] : Listed(list) = There}

Snapshot(list) == [kind |-> "StateSnapshot", worlds |-> list]
WorldDeleted(w) == [kind |-> "WorldDeleted", world |-> w]
EventNotification(e) == [kind |-> "EventNotification", event |-> e]

Init ==
  /\ fate \in [Worlds -> {"none", "there"}]
  /\ daemon = "up"
  /\ scan = [pc |-> "asleep", list |-> <<>>]
  /\ requests = <<>> /\ removing = NoWorld /\ refused = {}
  /\ thread = "none" /\ part = "none"
  /\ wire = <<>> /\ cmds = <<>> /\ inbox = <<>>
  /\ typed = 0
  /\ pc = "start"
  /\ app = [worlds |-> <<>>, selected |-> 0, detail |-> FALSE,
            confirm |-> NoWorld, status |-> FALSE]
  /\ screen = [cursor |-> NoWorld, confirm |-> NoWorld]
  /\ asked = 0
  /\ ghost = [w \in Worlds |-> 0]

-----------------------------------------------------------------------------
(* The worlds and the daemon. *)

\* Mutant: the id of a world that was removed is given again.
RunStartsAgain(w) ==
  /\ fate[w] # "there"
  /\ fate' = [fate EXCEPT ![w] = "there"]
  /\ UNCHANGED <<daemon, scan, requests, removing, refused, linkVars, uiVars>>

\* ygg run makes a world, and removes it when its agent exits, telling nobody.
RunStarts(w) ==
  /\ fate[w] = "none"
  /\ fate' = [fate EXCEPT ![w] = "there"]
  /\ UNCHANGED <<daemon, scan, requests, removing, refused, linkVars, uiVars>>

RunEnds(w) ==
  /\ fate[w] = "there"
  /\ fate' = [fate EXCEPT ![w] = "gone"]
  /\ UNCHANGED <<daemon, scan, requests, removing, refused, linkVars, uiVars>>

Connected == thread \in {"sending", "receiving"}

\* A full channel forgets its oldest message, never the line that is being written.
Crowded ==
  IF part = "none" THEN Tail(wire) ELSE <<Head(wire)>> \o Tail(Tail(wire))

Broadcast(m) ==
  wire' = IF ~Connected THEN wire
          ELSE Append(IF Len(wire) < Capacity THEN wire ELSE Crowded, m)

ScanList ==
  /\ daemon = "up"
  /\ scan.pc = "asleep"
  /\ \E list \in Listings : scan' = [pc |-> "listed", list |-> list]
  /\ UNCHANGED <<fate, daemon, requests, removing, refused, linkVars, uiVars>>

ScanSend ==
  /\ scan.pc = "listed"
  /\ Broadcast(Snapshot(scan.list))
  /\ scan' = [pc |-> "asleep", list |-> <<>>]
  /\ UNCHANGED <<fate, daemon, requests, removing, refused, thread, part, cmds, inbox,
                 uiVars>>

\* The handler of DeleteWorld; removing a world that is not there succeeds.
Remove ==
  /\ daemon = "up"
  /\ requests # <<>> /\ removing = NoWorld
  /\ requests' = Tail(requests)
  /\ LET w == Head(requests) IN
     \/ /\ fate' = [fate EXCEPT ![w] = "gone"]
        /\ removing' = w
        /\ UNCHANGED refused
     \/ /\ fate[w] = "there"
        /\ refused' = refused \union {w}
        /\ UNCHANGED <<fate, removing>>
  /\ UNCHANGED <<daemon, scan, linkVars, uiVars>>

Announce ==
  /\ removing # NoWorld
  /\ Broadcast(WorldDeleted(removing))
  /\ removing' = NoWorld
  /\ UNCHANGED <<fate, daemon, scan, requests, refused, thread, part, cmds, inbox, uiVars>>

\* The handlers of a hook's report and of a world's file that was modified.
Notify(e) ==
  /\ daemon = "up"
  /\ Connected
  /\ Broadcast(EventNotification(e))
  /\ UNCHANGED <<daemonVars, thread, part, cmds, inbox, uiVars>>

\* ygg daemon stop. What was written to the socket can still be read.
StopDaemon ==
  /\ daemon = "up"
  /\ daemon' = "down"
  /\ scan' = [pc |-> "asleep", list |-> <<>>]
  /\ requests' = <<>> /\ removing' = NoWorld
  /\ UNCHANGED <<fate, refused, linkVars, uiVars>>

-----------------------------------------------------------------------------
(* The IPC thread: spawn_ipc_thread. *)

ThreadEnds ==
  /\ thread' = "dead" /\ part' = "none"
  /\ wire' = <<>> /\ cmds' = <<>>

Connect ==
  /\ thread = "starting"
  /\ IF daemon = "up"
     THEN thread' = "sending" /\ UNCHANGED <<part, wire, cmds, inbox>>
     ELSE ThreadEnds /\ UNCHANGED inbox
  /\ UNCHANGED <<daemonVars, uiVars>>

SendCommand ==
  /\ thread = "sending"
  /\ cmds # <<>>
  /\ IF daemon = "up"
     THEN /\ requests' = Append(requests, Head(cmds))
          /\ cmds' = Tail(cmds)
          /\ UNCHANGED <<thread, part, wire, inbox>>
     ELSE ThreadEnds /\ UNCHANGED <<inbox, requests>>
  /\ UNCHANGED <<fate, daemon, scan, removing, refused, uiVars>>

BeginReceive ==
  /\ thread = "sending"
  /\ cmds = <<>>
  /\ thread' = "receiving"
  /\ UNCHANGED <<part, wire, cmds, inbox, daemonVars, uiVars>>

\* The first part of a line has come, and recv has taken it.
ReceivePart ==
  /\ thread = "receiving"
  /\ part = "none" /\ wire # <<>>
  /\ part' = "read"
  /\ UNCHANGED <<thread, wire, cmds, inbox, daemonVars, uiVars>>

\* Mutant: the thread goes on receiving while messages come.
ReceiveOn ==
  /\ thread = "receiving"
  /\ part # "lost" /\ wire # <<>>
  /\ Len(inbox) < InboxBound
  /\ inbox' = Append(inbox, Head(wire))
  /\ wire' = Tail(wire)
  /\ part' = "none"
  /\ UNCHANGED <<thread, cmds, daemonVars, uiVars>>

Receive ==
  /\ thread = "receiving"
  /\ part # "lost" /\ wire # <<>>
  /\ Len(inbox) < InboxBound
  /\ inbox' = Append(inbox, Head(wire))
  /\ wire' = Tail(wire)
  /\ part' = "none"
  /\ thread' = "sending"
  /\ UNCHANGED <<cmds, daemonVars, uiVars>>

\* 100 ms without a whole line: recv is dropped, with the part of a line it has.
Timeout ==
  /\ thread = "receiving"
  /\ thread' = "sending"
  /\ part' = IF part = "none" THEN "none" ELSE "lost"
  /\ UNCHANGED <<wire, cmds, inbox, daemonVars, uiVars>>

\* The rest of a line does not parse, or the daemon has closed the socket.
ReceiveFails ==
  /\ thread = "receiving"
  /\ part = "lost" \/ (daemon = "down" /\ wire = <<>>)
  /\ ThreadEnds
  /\ UNCHANGED <<inbox, daemonVars, uiVars>>

ThreadStep ==
  Connect \/ SendCommand \/ BeginReceive \/ ReceivePart \/ Receive \/ ReceiveFails

-----------------------------------------------------------------------------
(* The main loop: run_tui. *)

\* The world under the cursor, and the one the overlay asks about.
Cursor(a) == IF a.selected < Len(a.worlds) THEN a.worlds[a.selected + 1] ELSE NoWorld

Drawn(a) == [cursor |-> Cursor(a), confirm |-> a.confirm]

\* The worlds are read before the socket is looked for. A daemon that was killed may
\* leave its socket behind.
Start ==
  /\ pc = "start"
  /\ \E list \in Listings : app' = [app EXCEPT !.worlds = list]
  /\ thread' \in {"starting"} \union (IF daemon = "down" THEN {"none"} ELSE {})
  /\ screen' = Drawn(app')
  /\ pc' = "poll"
  /\ UNCHANGED <<typed, asked, ghost, part, wire, cmds, inbox, daemonVars>>

\* The user types whenever she likes, and the terminal keeps it until it is read. Which
\* key it was is chosen there: nothing before depends on it.
Type ==
  /\ pc # "quit"
  /\ typed < MaxTyped
  /\ typed' = typed + 1
  /\ UNCHANGED <<pc, app, screen, asked, ghost, linkVars, daemonVars>>

\* event::read, when event::poll has found something.
Read ==
  /\ pc = "poll"
  /\ typed > 0
  /\ typed' = typed - 1

\* Any key takes the status line away. A key outside the overlay is followed by the
\* messages, a key in the overlay is not: the loop continues with drawing.
Key(next) ==
  /\ Read /\ app.confirm = NoWorld
  /\ app' = [next EXCEPT !.status = FALSE]
  /\ pc' = "drain"
  /\ UNCHANGED <<screen, asked, ghost, linkVars, daemonVars>>

KeyUp == ~app.detail /\ app.selected > 0 /\ Key([app EXCEPT !.selected = @ - 1])

KeyDown ==
  ~app.detail /\ app.selected + 1 < Len(app.worlds) /\ Key([app EXCEPT !.selected = @ + 1])

KeyEnter == ~app.detail /\ Cursor(app) # NoWorld /\ Key([app EXCEPT !.detail = TRUE])

KeyEsc == Key([app EXCEPT !.detail = FALSE])

\* handle_d_key
KeyDelete == ~app.detail /\ Key([app EXCEPT !.confirm = Cursor(app)])

OtherKey == Key(app)

\* What is not a key, such as a new size of the terminal, is passed over.
OtherEvent ==
  /\ Read
  /\ pc' = "drain"
  /\ UNCHANGED <<app, screen, asked, ghost, linkVars, daemonVars>>

\* The thread ends with the process, and what it has not sent yet is not sent.
Quit ==
  /\ Read /\ app.confirm = NoWorld /\ ~app.detail
  /\ pc' = "quit"
  /\ inbox' = <<>> /\ ThreadEnds
  /\ UNCHANGED <<app, screen, asked, ghost, daemonVars>>

\* Mutant: the world is taken out of the state before it is sent.
ConfirmTaken ==
  /\ Read /\ app.confirm # NoWorld
  /\ asked < MaxAsked
  /\ asked' = asked + 1
  /\ app' = [app EXCEPT !.confirm = NoWorld, !.status = (thread = "none")]
  /\ cmds' = IF thread \in {"none", "dead"} THEN cmds ELSE Append(cmds, app'.confirm)
  /\ screen' = Drawn(app')
  /\ UNCHANGED <<pc, ghost, thread, part, wire, inbox, daemonVars>>

\* handle_confirm_delete: nobody gets what is sent to a thread that has ended.
Confirm ==
  /\ Read /\ app.confirm # NoWorld
  /\ asked < MaxAsked
  /\ asked' = asked + 1
  /\ cmds' = IF thread \in {"none", "dead"} THEN cmds ELSE Append(cmds, app.confirm)
  /\ app' = [app EXCEPT !.confirm = NoWorld, !.status = (thread = "none")]
  /\ screen' = Drawn(app')
  /\ UNCHANGED <<pc, ghost, thread, part, wire, inbox, daemonVars>>

\* handle_cancel_confirm, and the keys that the overlay does not know.
OverlayKey ==
  /\ Read /\ app.confirm # NoWorld
  /\ \E c \in {app.confirm, NoWorld} :
       app' = [app EXCEPT !.confirm = c, !.status = FALSE]
  /\ screen' = Drawn(app')
  /\ UNCHANGED <<pc, asked, ghost, linkVars, daemonVars>>

\* Mutant: messages are handled only after keys.
QuietLoop ==
  /\ pc = "poll" /\ typed = 0
  /\ screen' = Drawn(app)
  /\ UNCHANGED <<typed, pc, app, asked, ghost, linkVars, daemonVars>>

\* Nothing for 500 ms.
Quiet ==
  /\ pc = "poll" /\ typed = 0
  /\ pc' = "drain"
  /\ UNCHANGED <<typed, app, screen, asked, ghost, linkVars, daemonVars>>

\* Mutant: the last line of the table is one too far.
ClampOff(a) ==
  IF a.selected > Len(a.worlds) /\ a.worlds # <<>>
  THEN [a EXCEPT !.selected = Len(a.worlds) - 1] ELSE a

Clamp(a) ==
  IF a.selected >= Len(a.worlds) /\ a.worlds # <<>>
  THEN [a EXCEPT !.selected = Len(a.worlds) - 1] ELSE a

\* What retain leaves of a list, which names a world once.
Without(list, w) ==
  IF w \notin Listed(list) THEN list
  ELSE LET i == CHOOSE k \in DOMAIN list : list[k] = w
       IN  SubSeq(list, 1, i - 1) \o SubSeq(list, i + 1, Len(list))

\* apply_ipc_msg. Whichever world was deleted, the overlay is closed.
Applied(a, m) ==
  CASE m.kind = "StateSnapshot" -> Clamp([a EXCEPT !.worlds = m.worlds])
    [] m.kind = "WorldDeleted" -> Clamp([a EXCEPT !.worlds = Without(@, m.world),
                                                  !.confirm = NoWorld])
    [] m.kind = "EventNotification" -> a

\* Mutant: messages are applied while the loop waits for a key.
ApplyingAnytime == pc \in {"drain", "poll"}

Applying == pc = "drain"

Haunts(m) ==
  ghost' = [w \in Worlds |->
    IF ghost[w] = 0
    THEN IF m = WorldDeleted(w) THEN 1 ELSE 0
    ELSE IF w \notin Listed(app.worlds) /\ w \in Listed(app'.worlds) /\ ghost[w] < 3
         THEN ghost[w] + 1 ELSE ghost[w]]

Apply ==
  /\ Applying
  /\ inbox # <<>>
  /\ app' = Applied(app, Head(inbox))
  /\ inbox' = Tail(inbox)
  /\ Haunts(Head(inbox))
  /\ UNCHANGED <<typed, pc, screen, asked, thread, part, wire, cmds, daemonVars>>

Draw ==
  /\ pc = "drain" /\ inbox = <<>>
  /\ pc' = "poll"
  /\ screen' = Drawn(app)
  /\ UNCHANGED <<typed, app, asked, ghost, linkVars, daemonVars>>

KeyStep ==
  \/ KeyUp \/ KeyDown \/ KeyEnter \/ KeyEsc \/ KeyDelete \/ OtherKey
  \/ Confirm \/ OverlayKey \/ OtherEvent

Next ==
  \/ \E w \in Worlds : RunStarts(w) \/ RunEnds(w)
  \/ ScanList \/ ScanSend \/ Remove \/ Announce \/ StopDaemon
  \/ \E e \in Events : Notify(e)
  \/ ThreadStep \/ Timeout
  \/ Start \/ Type \/ KeyStep \/ Quit \/ Quiet \/ Apply \/ Draw

Spec == Init /\ [][Next]_vars

\* The daemon's tasks, the thread and the main loop are scheduled. Now and then the user
\* lets go of the keys until all are read, and then for 500 ms. recv is asked before its
\* timer, so that it gets a line that has come: what recv returns is not put off by
\* timeouts for ever.
FairSpec ==
  /\ Spec
  /\ WF_vars(ScanList) /\ WF_vars(ScanSend) /\ WF_vars(Remove) /\ WF_vars(Announce)
  /\ WF_vars(ThreadStep) /\ SF_vars(Receive \/ ReceiveFails)
  /\ WF_vars(KeyStep) /\ WF_vars(Apply) /\ WF_vars(Draw)
  /\ SF_vars(Quiet) /\ []<>(typed = 0)

-----------------------------------------------------------------------------
(* What the user sees and does. *)

Lists == {list \in UNION {[1..n -> Worlds] : n \in 0..Cardinality(Worlds)} :
            \A i, j \in DOMAIN list : list[i] = list[j] => i = j}

Messages ==
  {Snapshot(list) : list \in Lists} \union {WorldDeleted(w) : w \in Worlds}
    \union {EventNotification(e) : e \in Events}

AppState == [worlds : Lists, selected : Nat, detail : BOOLEAN,
             confirm : Worlds \union {NoWorld}, status : BOOLEAN]

\* The type of the daemon's, the thread's and the main loop's state.
TypeOK ==
  /\ fate \in [Worlds -> {"none", "there", "gone"}]
  /\ daemon \in {"up", "down"}
  /\ scan \in [pc : {"asleep", "listed"}, list : Lists]
  /\ requests \in Seq(Worlds)
  /\ removing \in Worlds \union {NoWorld}
  /\ refused \subseteq Worlds
  /\ thread \in {"none", "starting", "sending", "receiving", "dead"}
  /\ part \in {"none", "read", "lost"}
  /\ wire \in Seq(Messages) /\ Len(wire) <= Capacity /\ (part # "none" => wire # <<>>)
  /\ cmds \in Seq(Worlds)
  /\ inbox \in Seq(Messages)
  /\ typed \in 0..MaxTyped
  /\ pc \in {"start", "poll", "drain", "quit"}
  /\ app \in AppState
  /\ screen \in [cursor : Worlds \union {NoWorld}, confirm : Worlds \union {NoWorld}]
  /\ asked \in 0..MaxAsked
  /\ ghost \in [Worlds -> 0..3]

\* While there are worlds the cursor is on one of them, whatever snapshots and
\* deletions did to the list (tui/mod.rs:46 and 59): keys always mean something.
CursorOnWorld == app.worlds # <<>> => app.selected < Len(app.worlds)

\* A key means what the screen shows when the loop reads it (tui/mod.rs:189-247), though
\* the list changes meanwhile: the overlay opens for the world that is drawn under the
\* cursor, and only the world that it is drawn with is sent for deletion. The user may have
\* typed the key before that was drawn.
KeysMeanWhatIsDrawn ==
  [][/\ app'.confirm \notin {NoWorld, app.confirm} => app'.confirm = screen.cursor
     /\ \A w \in Worlds : cmds' = Append(cmds, w) => screen.confirm = w]_vars

\* A deleted world may be in the list again, when its deletion overtook a snapshot
\* between roots.rs:126 and 139, but only once: snapshots are taken one at a time.
ReturnsOnce == \A w \in Worlds : ghost[w] <= 2

\* Does not hold (README, Observations). README.md:365: "the TUI does not yet receive live
\* push events from the daemon. Restart `ygg monit` to refresh state." (tui/mod.rs:242-247)
LoadedAtStartup == [][pc # "start" => app'.worlds = app.worlds]_vars

\* From some time on no message is pushed out of the channel by a newer one.
KeepsUp == <>[][~(Len(wire) = Capacity /\ Len(wire') = Capacity /\ wire' # wire)]_vars

\* As long as the daemon and the TUI are connected, what the TUI lists becomes what
\* there is (tui/mod.rs:42-49): worlds that `ygg run` made or removed without a word,
\* worlds that came back and messages lost to lag all are put right by snapshots, unless
\* the TUI lags for ever.
ListConverges ==
  <>[](daemon = "up" /\ Connected) /\ KeepsUp => <>[](Listed(app.worlds) = There)

\* A confirmed deletion is carried out (tui/mod.rs:83-87, daemon/mod.rs:92-114), however
\* busy the thread is with messages, unless it fails or the connection ends: with the
\* daemon, with the TUI, or with a line that timed out half-way.
ConfirmedIsDeleted ==
  \A w \in Worlds :
    w \in Listed(cmds)
      ~> fate[w] = "gone" \/ w \in refused \/ thread = "dead" \/ daemon = "down"
=============================================================================
