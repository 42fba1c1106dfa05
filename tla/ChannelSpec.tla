---------------------------- MODULE ChannelSpec ----------------------------
(***************************************************************************)
(* What a channel promises the two processes that hold its endpoints: one  *)
(* bounded FIFO of whole messages per direction.  A message that does not  *)
(* fit the reader's buffer stays first in line, a writer is told when its  *)
(* peer is gone, and what was queued before a writer closed is still read. *)
(***************************************************************************)
EXTENDS Integers, Sequences

CONSTANTS
    Message,  \* the contents a caller may pass
    Size,     \* the length of each message in bytes
    MaxSize,  \* KRISHNA_CHANNEL_MAX_MESSAGE_SIZE
    Capacity  \* CHANNEL_QUEUE_CAPACITY

VARIABLES
    exists,  \* whether the channel's memory is allocated
    open,    \* the endpoints that are not closed
    inbox,   \* per side, the messages that side has yet to read
    reply    \* what the last call returned

vars == <<exists, open, inbox, reply>>

Side == {0, 1}
Peer(side) == 1 - side

Init ==
    /\ exists = FALSE
    /\ open = {}
    /\ inbox = [side \in Side |-> <<>>]
    /\ reply = "none"

Create ==
    /\ ~ exists
    /\ exists' = TRUE
    /\ open' = Side
    /\ inbox' = [side \in Side |-> <<>>]
    /\ reply' = "ok"

Refuse(error) == reply' = error /\ UNCHANGED <<exists, open, inbox>>

Write(side, message) ==
    /\ side \in open
    /\ \/ Size[message] \notin 1..MaxSize /\ Refuse("INVALID_ARGUMENT")
       \/ /\ Size[message] \in 1..MaxSize
          /\ Peer(side) \notin open
          /\ Refuse("IO")
       \/ /\ Size[message] \in 1..MaxSize
          /\ Peer(side) \in open
          /\ Len(inbox[Peer(side)]) = Capacity
          /\ Refuse("WOULD_BLOCK")
       \/ /\ Size[message] \in 1..MaxSize
          /\ Peer(side) \in open
          /\ Len(inbox[Peer(side)]) < Capacity
          /\ inbox' = [inbox EXCEPT ![Peer(side)] = Append(@, message)]
          /\ reply' = "ok"
          /\ UNCHANGED <<exists, open>>

Read(side, capacity) ==
    /\ side \in open
    /\ \/ inbox[side] = <<>> /\ Refuse("WOULD_BLOCK")
       \/ /\ inbox[side] # <<>>
          /\ capacity < Size[Head(inbox[side])]
          /\ Refuse("INVALID_ARGUMENT")
       \/ /\ inbox[side] # <<>>
          /\ capacity >= Size[Head(inbox[side])]
          /\ inbox' = [inbox EXCEPT ![side] = Tail(@)]
          /\ reply' = Head(inbox[side])
          /\ UNCHANGED <<exists, open>>

\* Messages on their way to the peer survive the close.
Close(side) ==
    /\ side \in open
    /\ open' = open \ {side}
    /\ reply' = "none"
    /\ UNCHANGED <<exists, inbox>>

Vanish ==
    /\ exists
    /\ open = {}
    /\ exists' = FALSE
    /\ inbox' = [side \in Side |-> <<>>]
    /\ reply' = "none"
    /\ UNCHANGED open

Next ==
    \/ Create
    \/ \E side \in Side :
         \/ \E message \in Message : Write(side, message)
         \/ \E capacity \in 0..MaxSize : Read(side, capacity)
         \/ Close(side)
    \/ Vanish

Spec == Init /\ [][Next]_vars

=============================================================================
