--------------------------- MODULE ServerProofs ----------------------------
(***************************************************************************)
(* What holds of the IPC server: of the delivery to its clients (Channel),  *)
(* for any set of clients, any capacity of the channel and any number of    *)
(* messages; and of its start and end (Daemons), for any set of start and   *)
(* stop commands.                                                           *)
(***************************************************************************)
EXTENDS Channel, Daemons, SequenceTheorems, TLAPS

\* What LossIsLag and the refinement of Delivery rest on: what was written or is
\* being written lies between the connection and the cursor and is of a forwarded
\* kind, and what is being written is newer than all that was written.
Positions ==
  \A c \in Clients :
    /\ link[c] = "none" <=> joined[c] = 0
    /\ link[c] = "none" => hand[c] = 0
    /\ joined[c] <= cursor[c]
    /\ hand[c] # 0 => joined[c] <= hand[c] /\ sent[hand[c]] \in Forwarded
    /\ \A k \in DOMAIN delivered[c] :
         delivered[c][k] < cursor[c] /\ (hand[c] # 0 => delivered[c][k] < hand[c])

\* The cursor of a receiver never points into the range the channel has dropped
\* once it has moved to Oldest, and Oldest is the position of a message or the
\* first position of an empty channel (server.rs:27).
LEMMA OldestInRange ==
  ASSUME TypeOK
  PROVE  Oldest \in Nat \ {0} /\ Oldest <= Len(sent) + 1
  BY CapacityAssumption DEF Oldest, TypeOK

\* Every state of the channel and of the write tasks (server.rs:18-94) is of
\* the declared type, and no receiver is ahead of what was sent.
THEOREM ChannelTypeCorrect == Spec => []TypeOK
<1>1. Init => TypeOK
  BY DEF Init, TypeOK
<1>2. TypeOK /\ [Next]_vars => TypeOK'
  <2> SUFFICES ASSUME TypeOK, [Next]_vars PROVE TypeOK'
    OBVIOUS
  <2>1. ASSUME NEW k \in Kinds, Send(k) PROVE TypeOK'
    BY <2>1 DEF TypeOK, Send
  <2>2. ASSUME NEW c \in Clients, Connect(c) PROVE TypeOK'
    BY <2>2 DEF TypeOK, Connect, SubscribeAt
  <2>3. ASSUME NEW c \in Clients, Stall(c) \/ Resume(c) \/ Hangup(c) PROVE TypeOK'
    BY <2>3 DEF TypeOK, Stall, Resume, Hangup
  <2>4. ASSUME NEW c \in Clients, Lag(c) PROVE TypeOK'
    BY <2>4, OldestInRange, SMTT(30) DEF TypeOK, Lag, Receiving
  <2>5. ASSUME NEW c \in Clients, Receive(c) PROVE TypeOK'
    BY <2>5, OldestInRange, SMTT(30) DEF TypeOK, Receive, Receiving
  <2>6. ASSUME NEW c \in Clients, Write(c) PROVE TypeOK'
    BY <2>6 DEF TypeOK, Write
  <2>7. ASSUME NEW c \in Clients, WriteFails(c) PROVE TypeOK'
    BY <2>7 DEF TypeOK, WriteFails
  <2>8. CASE UNCHANGED vars
    BY <2>8 DEF TypeOK, vars
  <2>. QED
    BY <2>1, <2>2, <2>3, <2>4, <2>5, <2>6, <2>7, <2>8 DEF Next, WriteTask
<1>. QED
  BY <1>1, <1>2, PTL DEF Spec

\* What write tasks hold and have written lies between connection and cursor, in
\* order, and is of a forwarded kind (server.rs:46-72).
THEOREM PositionsHold == Spec => []Positions
<1>1. Init => Positions
  <2>1. SUFFICES ASSUME Init, NEW c \in Clients
                 PROVE  /\ link[c] = "none" /\ joined[c] = 0 /\ hand[c] = 0
                        /\ joined[c] <= cursor[c]
                        /\ DOMAIN delivered[c] = {}
    BY DEF Positions
  <2>. QED
    BY <2>1 DEF Init
<1>2. TypeOK /\ Positions /\ [Next]_vars => Positions'
  <2> SUFFICES ASSUME TypeOK, Positions, [Next]_vars PROVE Positions'
    OBVIOUS
  <2>1. ASSUME NEW k \in Kinds, Send(k) PROVE Positions'
    <3>1. \A i \in 1..Len(sent) : sent'[i] = sent[i]
      BY <2>1 DEF TypeOK, Send
    <3>. QED
      BY <2>1, <3>1 DEF TypeOK, Positions, Send
  <2>2. ASSUME NEW c \in Clients, Connect(c) PROVE Positions'
    BY <2>2 DEF TypeOK, Positions, Connect, SubscribeAt
  <2>3. ASSUME NEW c \in Clients, Stall(c) \/ Resume(c) \/ Hangup(c) PROVE Positions'
    BY <2>3 DEF TypeOK, Positions, Stall, Resume, Hangup
  <2>4. ASSUME NEW c \in Clients, Lag(c) PROVE Positions'
    BY <2>4, OldestInRange, SMTT(30) DEF TypeOK, Positions, Lag, Receiving
  <2>5. ASSUME NEW c \in Clients, Receive(c) PROVE Positions'
    BY <2>5, OldestInRange, SMTT(30) DEF TypeOK, Positions, Receive, Receiving
  <2>6. ASSUME NEW c \in Clients, Write(c) PROVE Positions'
    BY <2>6 DEF TypeOK, Positions, Write
  <2>7. ASSUME NEW c \in Clients, WriteFails(c) PROVE Positions'
    BY <2>7 DEF TypeOK, Positions, WriteFails
  <2>8. CASE UNCHANGED vars
    BY <2>8 DEF Positions, vars
  <2>. QED
    BY <2>1, <2>2, <2>3, <2>4, <2>5, <2>6, <2>7, <2>8 DEF Next, WriteTask
<1>. QED
  BY <1>1, <1>2, ChannelTypeCorrect, PTL DEF Spec

\* A write adds the message to what the client has got, and takes nothing from
\* any client (server.rs:61).
LEMMA DeliveredGrows ==
  ASSUME TypeOK, NEW c \in Clients, Write(c)
  PROVE  /\ \A d \in Clients : Delivered(d) \subseteq Delivered(d)'
         /\ hand[c] \in Delivered(c)'
<1>1. delivered'[c] = Append(delivered[c], hand[c]) /\ delivered[c] \in Seq(Nat)
  BY DEF TypeOK, Write
<1>2. /\ DOMAIN delivered'[c] = 1..(Len(delivered[c]) + 1)
      /\ DOMAIN delivered[c] = 1..Len(delivered[c])
      /\ \A k \in DOMAIN delivered[c] : delivered'[c][k] = delivered[c][k]
      /\ delivered'[c][Len(delivered[c]) + 1] = hand[c]
  BY <1>1 DEF TypeOK
<1>3. hand[c] \in Delivered(c)' /\ Delivered(c) \subseteq Delivered(c)'
  BY <1>1, <1>2 DEF Delivered
<1>4. \A d \in Clients \ {c} : Delivered(d)' = Delivered(d)
  BY DEF TypeOK, Write, Delivered
<1>. QED
  BY <1>3, <1>4

\* A client whose receiver was never told that it lagged misses no message of a
\* forwarded kind (server.rs:46-72).
THEOREM NothingLostSilently == Spec => []LossIsLag
<1>1. Init => LossIsLag
  BY DEF Init, LossIsLag
<1>2. TypeOK /\ Positions /\ LossIsLag /\ [Next]_vars => LossIsLag'
  <2> SUFFICES ASSUME TypeOK, Positions, LossIsLag, [Next]_vars PROVE LossIsLag'
    OBVIOUS
  <2>1. ASSUME NEW k \in Kinds, Send(k) PROVE LossIsLag'
    <3>1. \A i \in 1..Len(sent) : sent'[i] = sent[i]
      BY <2>1 DEF TypeOK, Send
    <3>. QED
      BY <2>1, <3>1 DEF TypeOK, Positions, LossIsLag, Delivered, Send
  <2>2. ASSUME NEW c \in Clients, Connect(c) PROVE LossIsLag'
    <3>1. Len(sent) \in Nat /\ joined'[c] = Len(sent) + 1 /\ cursor'[c] = Len(sent) + 1
      BY <2>2 DEF TypeOK, Connect, SubscribeAt
    <3>2. joined'[c]..(cursor'[c] - 1) = {}
      BY <3>1
    <3>3. /\ UNCHANGED <<sent, hand, delivered, lagged>>
          /\ \A d \in Clients \ {c} :
               joined'[d] = joined[d] /\ cursor'[d] = cursor[d] /\ link'[d] = link[d]
      BY <2>2 DEF TypeOK, Connect
    <3>. QED
      BY <3>2, <3>3 DEF LossIsLag, Delivered
  <2>3. ASSUME NEW c \in Clients, Stall(c) \/ Resume(c) \/ Hangup(c) PROVE LossIsLag'
    <3>1. /\ UNCHANGED <<sent, joined, cursor, hand, delivered, lagged>>
          /\ \A d \in Clients : link[d] = "none" => link'[d] = "none"
          /\ \A d \in Clients : link'[d] = "none" => link[d] = "none"
      BY <2>3 DEF TypeOK, Stall, Resume, Hangup
    <3>2. \A d \in Clients : Delivered(d)' = Delivered(d)
      BY <3>1 DEF Delivered
    <3>. QED
      BY <3>1, <3>2 DEF LossIsLag
  <2>4. ASSUME NEW c \in Clients, Lag(c) PROVE LossIsLag'
    BY <2>4, SMTT(30) DEF TypeOK, LossIsLag, Delivered, Lag, Receiving
  <2>5. ASSUME NEW c \in Clients, Receive(c) PROVE LossIsLag'
    BY <2>5, SMTT(30) DEF TypeOK, Positions, LossIsLag, Delivered, Receive, Receiving
  <2>6. ASSUME NEW c \in Clients, Write(c) PROVE LossIsLag'
    <3>1. /\ \A d \in Clients : Delivered(d) \subseteq Delivered(d)'
          /\ hand[c] \in Delivered(c)'
      BY <2>6, DeliveredGrows
    <3>. QED
      BY <2>6, <3>1 DEF TypeOK, LossIsLag, Write
  <2>7. ASSUME NEW c \in Clients, WriteFails(c) PROVE LossIsLag'
    BY <2>7 DEF TypeOK, LossIsLag, Delivered, WriteFails
  <2>8. CASE UNCHANGED vars
    BY <2>8 DEF LossIsLag, Delivered, vars
  <2>. QED
    BY <2>1, <2>2, <2>3, <2>4, <2>5, <2>6, <2>7, <2>8 DEF Next, WriteTask
<1>. QED
  BY <1>1, <1>2, ChannelTypeCorrect, PositionsHold, PTL DEF Spec

\* The channel implements Delivery: a write is a delivery, accepting a client is
\* its joining, and every other step of a client or its write task is a stutter.
THEOREM ChannelImplementsDelivery == Spec => DeliversInOrder
<1>1. Init => Lossy!Init
  BY DEF Init, Lossy!Init
<1>2. TypeOK /\ Positions /\ [Next]_vars => [Lossy!Next]_(Lossy!vars)
  <2> SUFFICES ASSUME TypeOK, Positions, [Next]_vars
               PROVE  Lossy!Next \/ UNCHANGED Lossy!vars
    OBVIOUS
  <2>1. ASSUME NEW k \in Kinds, Send(k) PROVE Lossy!Next
    BY <2>1 DEF Send, Lossy!Next, Lossy!Send
  <2>2. ASSUME NEW c \in Clients, Connect(c) PROVE Lossy!Next
    BY <2>2 DEF Positions, Connect, Lossy!Next, Lossy!Join
  <2>3. ASSUME NEW c \in Clients, Write(c) PROVE Lossy!Next
    <3>1. Lossy!Deliver(c, hand[c])
      BY <2>3 DEF TypeOK, Positions, Write, Lossy!Deliver
    <3>2. hand[c] \in DOMAIN sent
      BY <2>3 DEF TypeOK, Write
    <3>. QED
      BY <3>1, <3>2 DEF Lossy!Next
  <2>4. ASSUME NEW c \in Clients,
               Stall(c) \/ Resume(c) \/ Hangup(c) \/ Lag(c) \/ Receive(c) \/ WriteFails(c)
        PROVE  UNCHANGED Lossy!vars
    BY <2>4 DEF Stall, Resume, Hangup, Lag, Receive, WriteFails, Lossy!vars
  <2>5. CASE UNCHANGED vars
    BY <2>5 DEF vars, Lossy!vars
  <2>. QED
    BY <2>1, <2>2, <2>3, <2>4, <2>5 DEF Next, WriteTask
<1>. QED
  BY <1>1, <1>2, ChannelTypeCorrect, PositionsHold, PTL DEF Spec, DeliversInOrder, Lossy!Spec

\* A message that is newer than all before it keeps the order.
LEMMA AppendNewer ==
  ASSUME NEW got \in Seq(Nat), NEW i \in Nat, \A k \in DOMAIN got : got[k] < i,
         \A k \in DOMAIN got : \A j \in 1..(k - 1) : got[j] < got[k]
  PROVE  \A k \in DOMAIN Append(got, i) :
           /\ Append(got, i)[k] = i \/ (k \in DOMAIN got /\ Append(got, i)[k] = got[k])
           /\ \A j \in 1..(k - 1) : Append(got, i)[j] < Append(got, i)[k]
<1> DEFINE new == Append(got, i)
<1>1. DOMAIN got = 1..Len(got) /\ Len(got) \in Nat
  BY LenProperties
<1>2. /\ DOMAIN new = 1..(Len(got) + 1) /\ new[Len(got) + 1] = i
      /\ \A k \in 1..Len(got) : new[k] = got[k]
  BY <1>1
<1> HIDE DEF new
<1>3. SUFFICES ASSUME NEW k \in DOMAIN new
               PROVE  /\ new[k] = i \/ (k \in DOMAIN got /\ new[k] = got[k])
                      /\ \A j \in 1..(k - 1) : new[j] < new[k]
  BY DEF new
<1>4. CASE k = Len(got) + 1
  <2>1. \A j \in 1..(k - 1) : j \in 1..Len(got)
    BY <1>1, <1>4
  <2>2. \A j \in 1..(k - 1) : new[j] < i
    BY <1>1, <1>2, <2>1
  <2> QED BY <1>2, <1>4, <2>2
<1>5. CASE k \in 1..Len(got)
  <2>1. \A j \in 1..(k - 1) : j \in 1..Len(got) /\ got[j] < got[k]
    BY <1>1, <1>5
  <2> QED BY <1>1, <1>2, <1>5, <2>1
<1> QED BY <1>1, <1>2, <1>4, <1>5

\* Delivery keeps what it promises: each message is written after those sent before it,
\* is of a forwarded kind and not older than the connection (server.rs:46-72).
LEMMA DeliveryInOrder == Lossy!Spec => []Lossy!InOrder
<1> DEFINE Typed == /\ sent \in Seq(Kinds)
                    /\ joined \in [Clients -> Nat]
                    /\ delivered \in [Clients -> Seq(1..Len(sent))]
           Inv == Typed /\ Lossy!InOrder
<1>1. Lossy!Init => Inv
  BY DEF Lossy!Init, Lossy!InOrder
<1>2. Inv /\ [Lossy!Next]_(Lossy!vars) => Inv'
  <2> SUFFICES ASSUME Inv, Lossy!Next \/ UNCHANGED Lossy!vars PROVE Inv'
    OBVIOUS
  <2>0. Len(sent) \in Nat
    BY LenProperties
  <2>1. ASSUME NEW k \in Kinds, Lossy!Send(k) PROVE Inv'
    <3>1. /\ sent' \in Seq(Kinds) /\ Len(sent') = Len(sent) + 1
          /\ \A i \in 1..Len(sent) : sent'[i] = sent[i]
      BY <2>0, <2>1 DEF Lossy!Send
    <3>2. 1..Len(sent) \subseteq 1..Len(sent')
      BY <2>0, <3>1
    <3>3. \A c \in Clients : delivered[c] \in Seq(1..Len(sent'))
      <4>1. TAKE c \in Clients
      <4>2. delivered[c] \in Seq(1..Len(sent))
        OBVIOUS
      <4> HIDE DEF Inv
      <4> QED BY <3>2, <4>2, SeqMonotonic, Zenon
    <3>4. Typed'
      BY <2>1, <3>1, <3>3 DEF Lossy!Send
    <3>5. \A c \in Clients : \A i \in DOMAIN delivered[c] : delivered[c][i] \in 1..Len(sent)
      BY LenProperties, ElementOfSeq
    <3>6. Lossy!InOrder'
      <4>1. UNCHANGED <<joined, delivered>>
        BY <2>1 DEF Lossy!Send
      <4>2. ASSUME NEW c \in Clients, NEW j \in DOMAIN delivered[c]
            PROVE  sent'[delivered[c][j]] = sent[delivered[c][j]]
        <5>1. delivered[c][j] \in 1..Len(sent)
          BY <3>5
        <5> HIDE DEF Inv
        <5> QED BY <3>1, <5>1
      <4> QED BY <4>1, <4>2 DEF Lossy!InOrder
    <3> QED BY <3>4, <3>6
  <2>2. ASSUME NEW c \in Clients, Lossy!Join(c) PROVE Inv'
    BY <2>0, <2>2 DEF Lossy!Join, Lossy!InOrder
  <2>3. ASSUME NEW c \in Clients, NEW i \in DOMAIN sent, Lossy!Deliver(c, i) PROVE Inv'
    <3> DEFINE got == delivered[c]
    <3>1. i \in 1..Len(sent) /\ got \in Seq(1..Len(sent))
      BY LenProperties
    <3>2. Append(got, i) \in Seq(1..Len(sent))
      BY <3>1
    <3>3. delivered' = [delivered EXCEPT ![c] = Append(got, i)] /\ UNCHANGED <<sent, joined>>
      BY <2>3 DEF Lossy!Deliver
    <3>4. Typed'
      <4>1. ASSUME NEW seq, seq \in Seq(1..Len(sent)), delivered' = [delivered EXCEPT ![c] = seq]
            PROVE  delivered' \in [Clients -> Seq(1..Len(sent))]
        BY <4>1
      <4>2. delivered' \in [Clients -> Seq(1..Len(sent))]
        <5> HIDE DEF got, Inv
        <5> QED BY <3>2, <3>3, <4>1
      <4> QED BY <3>3, <4>2
    <3>5. /\ joined[c] # 0 /\ joined[c] <= i /\ sent[i] \in Forwarded
          /\ \A k \in DOMAIN got : got[k] < i
      BY <2>3 DEF Lossy!Deliver
    <3> DEFINE Fine(seq, e) ==
          \A k \in DOMAIN seq :
            /\ joined[e] # 0 /\ joined[e] <= seq[k] /\ sent[seq[k]] \in Forwarded
            /\ \A j \in 1..(k - 1) : seq[j] < seq[k]
    <3>6. Fine(Append(got, i), c)
      <4>1. Fine(got, c)
        BY DEF Lossy!InOrder
      <4>2. got \in Seq(Nat) /\ i \in Nat
        BY <2>0, <3>1, SeqMonotonic
      <4> HIDE DEF got
      <4>3. \A k \in DOMAIN Append(got, i) :
              /\ Append(got, i)[k] = i \/ (k \in DOMAIN got /\ Append(got, i)[k] = got[k])
              /\ \A j \in 1..(k - 1) : Append(got, i)[j] < Append(got, i)[k]
        BY <3>5, <4>1, <4>2, AppendNewer
      <4> QED BY <3>5, <4>1, <4>3
    <3>7. \A e \in Clients : Fine(delivered[e], e)
      BY DEF Lossy!InOrder
    <3>8. \A e \in Clients : Fine(delivered'[e], e)
      <4> HIDE DEF Fine
      <4> QED BY <3>3, <3>6, <3>7
    <3>9. Lossy!InOrder'
      BY <3>3, <3>8 DEF Lossy!InOrder
    <3> QED BY <3>4, <3>9
  <2>4. CASE UNCHANGED Lossy!vars
    BY <2>4 DEF Lossy!vars, Lossy!InOrder
  <2> QED BY <2>1, <2>2, <2>3, <2>4 DEF Lossy!Next
<1> QED BY <1>1, <1>2, PTL DEF Lossy!Spec

\* So clients get messages in the order of sending, each once at most, none from before
\* they connected and none that is not for them, however the channel overflows.
THEOREM ClientsGetInOrder == Spec => []Lossy!InOrder
<1> QED BY ChannelImplementsDelivery, DeliveryInOrder, PTL DEF DeliversInOrder

-----------------------------------------------------------------------------
(* The life cycle of the daemons: the start and stop commands and the files. *)

\* Every state of the files, commands and daemons is of its type; a stop command that
\* signals a process has read a pid (daemon_cmd.rs:27-41).
THEOREM DaemonsTypeCorrect == LifeSpec => []LifeTypeOK
<1>1. LifeInit => LifeTypeOK
  BY DEF LifeInit, LifeTypeOK
<1>2. LifeTypeOK /\ [LifeNext]_lifeVars => LifeTypeOK'
  <2> SUFFICES ASSUME LifeTypeOK, [LifeNext]_lifeVars PROVE LifeTypeOK'
    OBVIOUS
  <2> USE DEF LifeTypeOK
  <2>1. ASSUME NEW d \in Daemons, StartStep(d) PROVE LifeTypeOK'
    BY <2>1 DEF StartStep, CheckStart, Spawn, TruncatePid, FillPid,
                NoteOverlap
  <2>2. ASSUME NEW c \in Stops, ReadPid(c) PROVE LifeTypeOK'
    BY <2>2 DEF ReadPid, NoteOverlap
  <2>3. ASSUME NEW c \in Stops, KillProcess(c) \/ RemovePid(c) PROVE LifeTypeOK'
    BY <2>3 DEF KillProcess, RemovePid
  <2>4. ASSUME NEW d \in Daemons, LifeStep(d) PROVE LifeTypeOK'
    BY <2>4 DEF LifeStep, RemoveSocket, BindSocket, Crash, Terminated
  <2>5. CASE UNCHANGED lifeVars
    BY <2>5 DEF lifeVars
  <2> QED BY <2>1, <2>2, <2>3, <2>4, <2>5 DEF LifeNext, StopStep
<1> QED BY <1>1, <1>2, PTL DEF LifeSpec

Starting(d) == start[d] \in {"spawn", "write", "fill"}
Stopping(c) == stop[c].pc \in {"kill", "remove"}

\* No two commands are at work.
OneCommand ==
  /\ \A d, e \in Daemons : Starting(d) /\ Starting(e) => d = e
  /\ \A b, c \in Stops : Stopping(b) /\ Stopping(c) => b = c
  /\ \A d \in Daemons, c \in Stops : ~(Starting(d) /\ Stopping(c))

\* Which daemon may be alive at each point of the commands: none once start has found no
\* pid file, and then its own; the one whose pid stop has read, and none once it is told
\* to end. The one that is alive has the socket from the moment it listens.
OnlyDaemon ==
  /\ \A d, e \in Daemons : Live(d) /\ Live(e) => d = e
  /\ \A d \in Daemons : daemon[d] = "listen" => sock = d
  /\ \A d \in Daemons : start[d] \in {"idle", "spawn"} => daemon[d] = "none"
  /\ \A d, e \in Daemons : start[d] = "spawn" => ~Live(e)
  /\ \A d, e \in Daemons : start[d] \in {"write", "fill"} /\ Live(e) => e = d
  /\ \A c \in Stops, e \in Daemons : stop[c].pc = "kill" /\ Live(e) => e = stop[c].pid
  /\ \A c \in Stops, e \in Daemons : stop[c].pc = "remove" => ~Live(e)
  /\ ~CommandAtWork => \A d \in Daemons : Live(d) => file = d

LifeInv == trouble = {} => OneCommand /\ OnlyDaemon

\* A command is at work from its look at daemon.pid to its last step (daemon_cmd.rs).
LEMMA AtWork ==
  ASSUME LifeTypeOK
  PROVE  CommandAtWork <=>
           (\E d \in Daemons : Starting(d)) \/ (\E c \in Stops : Stopping(c))
BY DEF LifeTypeOK, CommandAtWork, Starting, Stopping

\* No command and no daemon's step makes a second daemon, or one that no file names, as
\* long as each command finds no other at work (daemon_cmd.rs:8-55, server.rs:18-29).
LEMMA LifeStepKeeps ==
  ASSUME LifeTypeOK, LifeTypeOK', LifeInv, [LifeNext]_lifeVars
  PROVE  LifeInv'
<1> SUFFICES ASSUME trouble' = {} PROVE OneCommand' /\ OnlyDaemon'
  BY DEF LifeInv
<1>a. CommandAtWork' <=>
        (\E d \in Daemons : Starting(d)') \/ (\E c \in Stops : Stopping(c)')
  BY DEF LifeTypeOK, CommandAtWork, Starting, Stopping
<1> USE AtWork, <1>a DEF Live
<1>1. ASSUME NEW d \in Daemons, CheckStart(d) PROVE OneCommand' /\ OnlyDaemon'
  <2>1. trouble = {} /\ ~CommandAtWork
    BY <1>1 DEF CheckStart, NoteOverlap
  <2>2. OneCommand /\ OnlyDaemon
    BY <2>1 DEF LifeInv
  <2>3. OneCommand'
    BY <1>1, <2>1 DEF CheckStart, OneCommand, LifeTypeOK, Starting, Stopping
  <2>4. CASE file = NoPidFile
    <3>1. \A e \in Daemons : ~Live(e)
      BY <2>1, <2>2, <2>4, DaemonsAssumption DEF OnlyDaemon
    <3>2. start' = [start EXCEPT ![d] = "spawn"] /\ UNCHANGED <<file, sock, stop, daemon>>
      BY <1>1, <2>4 DEF CheckStart
    <3> QED BY <1>1, <2>2, <2>3, <3>1, <3>2 DEF CheckStart, OnlyDaemon, LifeTypeOK, Starting
  <2>5. CASE file # NoPidFile
    <3>1. start' = [start EXCEPT ![d] = "done"] /\ UNCHANGED <<file, sock, stop, daemon>>
      BY <1>1, <2>5 DEF CheckStart
    <3> QED BY <2>1, <2>2, <2>3, <3>1 DEF OnlyDaemon, LifeTypeOK
  <2> QED BY <2>4, <2>5
<1>2. ASSUME NEW d \in Daemons, Spawn(d) PROVE OneCommand' /\ OnlyDaemon'
  BY <1>2 DEF Spawn, LifeInv, OneCommand, OnlyDaemon, LifeTypeOK, Starting, Stopping
<1>3. ASSUME NEW d \in Daemons, TruncatePid(d) PROVE OneCommand' /\ OnlyDaemon'
  BY <1>3 DEF TruncatePid, LifeInv, OneCommand, OnlyDaemon, LifeTypeOK, Starting, Stopping
<1>4. ASSUME NEW d \in Daemons, FillPid(d) PROVE OneCommand' /\ OnlyDaemon'
  BY <1>4 DEF FillPid, LifeInv, OneCommand, OnlyDaemon, LifeTypeOK, Starting, Stopping
<1>5. ASSUME NEW c \in Stops, ReadPid(c) PROVE OneCommand' /\ OnlyDaemon'
  <2>1. trouble = {} /\ ~CommandAtWork
    BY <1>5 DEF ReadPid, NoteOverlap
  <2>2. OneCommand /\ OnlyDaemon
    BY <2>1 DEF LifeInv
  <2> QED BY <1>5, <2>1, <2>2
          DEF ReadPid, OneCommand, OnlyDaemon, LifeTypeOK, Starting, Stopping
<1>6. ASSUME NEW c \in Stops, KillProcess(c) PROVE OneCommand' /\ OnlyDaemon'
  BY <1>6 DEF KillProcess, LifeInv, OneCommand, OnlyDaemon, LifeTypeOK, Starting, Stopping
<1>7. ASSUME NEW c \in Stops, RemovePid(c) PROVE OneCommand' /\ OnlyDaemon'
  BY <1>7 DEF RemovePid, LifeInv, OneCommand, OnlyDaemon, LifeTypeOK, Starting, Stopping
<1>8. ASSUME NEW d \in Daemons, RemoveSocket(d) \/ Crash(d)
      PROVE  OneCommand' /\ OnlyDaemon'
  BY <1>8 DEF RemoveSocket, Crash, LifeInv, OneCommand, OnlyDaemon, LifeTypeOK,
              Starting, Stopping, CommandAtWork
<1>9. ASSUME NEW d \in Daemons, BindSocket(d) \/ Terminated(d)
      PROVE  OneCommand' /\ OnlyDaemon'
  BY <1>9 DEF BindSocket, Terminated, LifeInv, OneCommand, OnlyDaemon, LifeTypeOK,
              Starting, Stopping, CommandAtWork
<1>10. CASE UNCHANGED lifeVars
  BY <1>10 DEF lifeVars, LifeInv, OneCommand, OnlyDaemon, Starting, Stopping, CommandAtWork
<1> QED
  BY <1>1, <1>2, <1>3, <1>4, <1>5, <1>6, <1>7, <1>8, <1>9, <1>10
  DEF LifeNext, StartStep, StopStep, LifeStep

\* For any number of commands: while none overlap, there is one daemon, and it is the
\* one that daemon.pid names and the clients reach.
THEOREM OneDaemonServes == LifeSpec => []OneDaemon
<1>1. LifeInit => LifeInv
  BY DEF LifeInit, LifeInv, OneCommand, OnlyDaemon, Starting, Stopping, Live
<1>2. LifeTypeOK /\ LifeTypeOK' /\ LifeInv /\ [LifeNext]_lifeVars => LifeInv'
  BY LifeStepKeeps
<1>3. LifeInv => OneDaemon
  BY DEF LifeInv, OnlyDaemon, OneDaemon
<1> QED BY <1>1, <1>2, <1>3, DaemonsTypeCorrect, PTL DEF LifeSpec
=============================================================================
