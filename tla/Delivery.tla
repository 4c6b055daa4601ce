------------------------------ MODULE Delivery ------------------------------
(***************************************************************************)
(* What the clients of the daemon may rely on (src/ipc/server.rs): each of  *)
(* them gets messages in the order they were sent, each at most once and    *)
(* none that is not of a forwarded kind or older than its connection. A     *)
(* client may miss any number of messages.                                  *)
(***************************************************************************)
EXTENDS Integers, Sequences

CONSTANTS Clients, Kinds, Forwarded

VARIABLES
  sent,       \* the kinds of the messages, in the order they were sent
  joined,     \* of each client: the first message it may get, 0 when there is none yet
  delivered   \* of each client: the positions of the messages it got

vars == <<sent, joined, delivered>>

Init ==
  /\ sent = <<>>
  /\ joined = [c \in Clients |-> 0]
  /\ delivered = [c \in Clients |-> <<>>]

Send(k) ==
  /\ sent' = Append(sent, k)
  /\ UNCHANGED <<joined, delivered>>

Join(c) ==
  /\ joined[c] = 0
  /\ joined' = [joined EXCEPT ![c] = Len(sent) + 1]
  /\ UNCHANGED <<sent, delivered>>

Deliver(c, i) ==
  /\ joined[c] # 0 /\ joined[c] <= i
  /\ sent[i] \in Forwarded
  /\ \A k \in DOMAIN delivered[c] : delivered[c][k] < i
  /\ delivered' = [delivered EXCEPT ![c] = Append(@, i)]
  /\ UNCHANGED <<sent, joined>>

Next ==
  \/ \E k \in Kinds : Send(k)
  \/ \E c \in Clients : Join(c) \/ \E i \in DOMAIN sent : Deliver(c, i)

Spec == Init /\ [][Next]_vars

\* What this amounts to for what each client has got.
InOrder ==
  \A c \in Clients : \A k \in DOMAIN delivered[c] :
    /\ joined[c] # 0 /\ joined[c] <= delivered[c][k]
    /\ sent[delivered[c][k]] \in Forwarded
    /\ \A j \in 1..(k - 1) : delivered[c][j] < delivered[c][k]
=============================================================================
