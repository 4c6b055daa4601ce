------------------------------ MODULE Channel ------------------------------
(***************************************************************************)
(* How the daemon's messages reach its clients (src/ipc/server.rs): one     *)
(* tokio broadcast channel that keeps the last Capacity messages, and for   *)
(* each connection a receiver with a cursor into it and a write task that   *)
(* forwards some kinds of message to the socket.                            *)
(*                                                                         *)
(* The channel also carries what the clients sent (server.rs:84), which no  *)
(* write task forwards but which takes a slot like any other message.       *)
(***************************************************************************)
EXTENDS Integers, Sequences

CONSTANTS
  Clients,
  Capacity,   \* of the broadcast channel: 256 in the code
  MaxSent     \* bound: messages sent

ASSUME CapacityAssumption == Capacity \in Nat \ {0}

\* HookReport stands for the messages of clients, which are sent again.
Kinds == {"EventNotification", "StateSnapshot", "WorldDeleted", "HookReport"}

\* What the filter of the write task lets through.
Forwarded == {"EventNotification", "StateSnapshot", "WorldDeleted"}

VARIABLES
  sent,       \* the kinds of all messages sent, oldest first; a message is its position
  link,       \* of each client: "none", "open", "stalled", "broken" or "closed"
  joined,     \* of each client: the first message after its connection, 0 before
  cursor,     \* of each client: the message its receiver looks at next
  hand,       \* of each client: the message its write task is writing, or 0
  delivered,  \* of each client: the messages written to its socket, in order
  lagged      \* of each client: its receiver was told that it lagged

vars == <<sent, link, joined, cursor, hand, delivered, lagged>>

Init ==
  /\ sent = <<>>
  /\ link = [c \in Clients |-> "none"]
  /\ joined = [c \in Clients |-> 0]
  /\ cursor = [c \in Clients |-> 1]
  /\ hand = [c \in Clients |-> 0]
  /\ delivered = [c \in Clients |-> <<>>]
  /\ lagged = [c \in Clients |-> FALSE]

\* Mutant: a new receiver misses the first message.
SubscribeNext == Len(sent) + 2

\* subscribe(): a new receiver starts behind the newest message.
SubscribeAt == Len(sent) + 1

Connect(c) ==
  /\ link[c] = "none"
  /\ link' = [link EXCEPT ![c] = "open"]
  /\ joined' = [joined EXCEPT ![c] = Len(sent) + 1]
  /\ cursor' = [cursor EXCEPT ![c] = SubscribeAt]
  /\ UNCHANGED <<sent, hand, delivered, lagged>>

\* tx.send: by the handlers, by the scan loop, and by the read task, which sends
\* every message of a client again after handling it. Senders never wait.
Send(k) ==
  /\ Len(sent) < MaxSent
  /\ sent' = Append(sent, k)
  /\ UNCHANGED <<link, joined, cursor, hand, delivered, lagged>>

\* Mutant: the channel holds one message less.
OldestOffByOne == IF Len(sent) >= Capacity THEN Len(sent) - Capacity + 2 ELSE 1

\* The oldest message that the channel still holds.
Oldest == IF Len(sent) > Capacity THEN Len(sent) - Capacity + 1 ELSE 1

\* The write task of client c calls recv(): it runs, and writes nothing.
Receiving(c) == link[c] \in {"open", "stalled", "broken"} /\ hand[c] = 0

\* recv() of a receiver that lost messages: it goes on with the oldest one, and
\* the write task continues.
Lag(c) ==
  /\ Receiving(c)
  /\ cursor[c] < Oldest
  /\ cursor' = [cursor EXCEPT ![c] = Oldest]
  /\ lagged' = [lagged EXCEPT ![c] = TRUE]
  /\ UNCHANGED <<sent, link, joined, hand, delivered>>

\* recv() takes the message at the cursor; the filter drops it, or the write begins.
Receive(c) ==
  /\ Receiving(c)
  /\ cursor[c] \in Oldest..Len(sent)
  /\ cursor' = [cursor EXCEPT ![c] = @ + 1]
  /\ hand' = [hand EXCEPT ![c] = IF sent[cursor[c]] \in Forwarded THEN cursor[c] ELSE 0]
  /\ UNCHANGED <<sent, link, joined, delivered, lagged>>

\* Mutant: a line that could not be written is kept for the next turn.
WriteAgain(c) ==
  /\ link[c] = "open"
  /\ hand[c] # 0
  /\ delivered' = [delivered EXCEPT ![c] = Append(@, hand[c])]
  /\ hand' \in {hand, [hand EXCEPT ![c] = 0]}
  /\ UNCHANGED <<sent, link, joined, cursor, lagged>>

\* Mutant: a line that does not fit into the socket is dropped.
TryWrite(c) ==
  /\ link[c] \in {"open", "stalled"}
  /\ hand[c] # 0
  /\ delivered' = [delivered EXCEPT ![c] = IF link[c] = "open" THEN Append(@, hand[c]) ELSE @]
  /\ hand' = [hand EXCEPT ![c] = 0]
  /\ UNCHANGED <<sent, link, joined, cursor, lagged>>

\* write_all: the line is in the socket.
Write(c) ==
  /\ link[c] = "open"
  /\ hand[c] # 0
  /\ delivered' = [delivered EXCEPT ![c] = Append(@, hand[c])]
  /\ hand' = [hand EXCEPT ![c] = 0]
  /\ UNCHANGED <<sent, link, joined, cursor, lagged>>

\* The client stops reading until its socket is full, and reads on later. The write
\* waits meanwhile.
Stall(c) ==
  /\ link[c] = "open"
  /\ link' = [link EXCEPT ![c] = "stalled"]
  /\ UNCHANGED <<sent, joined, cursor, hand, delivered, lagged>>

Resume(c) ==
  /\ link[c] = "stalled"
  /\ link' = [link EXCEPT ![c] = "open"]
  /\ UNCHANGED <<sent, joined, cursor, hand, delivered, lagged>>

\* The client goes away. The write task finds out at its next write, and ends.
Hangup(c) ==
  /\ link[c] \in {"open", "stalled"}
  /\ link' = [link EXCEPT ![c] = "broken"]
  /\ UNCHANGED <<sent, joined, cursor, hand, delivered, lagged>>

\* Mutant: the write task goes on when a write fails.
WriteFailsOn(c) ==
  /\ link[c] = "broken"
  /\ hand[c] # 0
  /\ hand' = [hand EXCEPT ![c] = 0]
  /\ UNCHANGED <<sent, link, joined, cursor, delivered, lagged>>

WriteFails(c) ==
  /\ link[c] = "broken"
  /\ hand[c] # 0
  /\ link' = [link EXCEPT ![c] = "closed"]
  /\ UNCHANGED <<sent, joined, cursor, hand, delivered, lagged>>

WriteTask(c) == Lag(c) \/ Receive(c) \/ Write(c) \/ WriteFails(c)

Next ==
  \/ \E k \in Kinds : Send(k)
  \/ \E c \in Clients : Connect(c) \/ Stall(c) \/ Resume(c) \/ Hangup(c) \/ WriteTask(c)

Spec == Init /\ [][Next]_vars

\* The runtime polls every write task that has something to do.
FairSpec == Spec /\ \A c \in Clients : WF_vars(WriteTask(c))

-----------------------------------------------------------------------------
(* What the clients get. *)

Delivered(c) == {delivered[c][k] : k \in DOMAIN delivered[c]}

\* The type of the state of the channel and of its write tasks (ipc/server.rs).
TypeOK ==
  /\ sent \in Seq(Kinds)
  /\ link \in [Clients -> {"none", "open", "stalled", "broken", "closed"}]
  /\ joined \in [Clients -> Nat]
  /\ cursor \in [Clients -> Nat \ {0}]
  /\ hand \in [Clients -> Nat]
  /\ delivered \in [Clients -> Seq(Nat)]
  /\ lagged \in [Clients -> BOOLEAN]
  /\ \A c \in Clients : cursor[c] <= Len(sent) + 1 /\ hand[c] < cursor[c]

\* A client that was never told to have lagged misses nothing (server.rs:47-70):
\* it has got, or is getting, every message of a forwarded kind between its
\* connection and the place its receiver has reached - whatever it stalled, and
\* however many messages were sent meanwhile.
LossIsLag ==
  \A c \in Clients :
    link[c] # "none" /\ ~lagged[c] =>
      \A i \in joined[c]..(cursor[c] - 1) :
        sent[i] \in Forwarded => i = hand[c] \/ i \in Delivered(c)

Lossy == INSTANCE Delivery

\* The channel and the write tasks deliver as Delivery promises: in the order of
\* sending, at most once, only forwarded kinds, nothing older than the connection.
DeliversInOrder == Lossy!Spec

\* A client that reads loses a message only when Capacity newer ones were sent
\* (server.rs:27 and 68): each message of a forwarded kind sent after it connected
\* reaches it, unless it stops reading, goes away, or falls that far behind.
NewestArrives ==
  \A c \in Clients : \A i \in 1..MaxSent :
    link[c] = "open" /\ i \in joined[c]..Len(sent) /\ sent[i] \in Forwarded
      ~> i \in Delivered(c) \/ link[c] # "open" \/ Len(sent) >= i + Capacity

\* The write task of a client that went away does not stay behind (server.rs:61-62):
\* it ends with the first message of a forwarded kind that it comes to.
DeadTasksEnd ==
  \A c \in Clients : \A i \in 1..MaxSent :
    link[c] = "broken" /\ i \in cursor[c]..Len(sent) /\ sent[i] \in Forwarded
      ~> link[c] = "closed" \/ Len(sent) >= i + Capacity
=============================================================================
