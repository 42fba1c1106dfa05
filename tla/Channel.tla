------------------------------ MODULE Channel ------------------------------
(***************************************************************************)
(* object/channel.c: struct kernel_channel with its two ring buffers.      *)
(* Every call on it is one critical section of channel->lock, except that  *)
(* channel_destroy frees the channel after it has dropped the lock.  A     *)
(* caller holds a reference to its endpoint's object, so its endpoint is   *)
(* open (Objects.tla shows that the references keep this promise).         *)
(***************************************************************************)
EXTENDS Integers, Sequences

CONSTANTS Message, Size, MaxSize, RingCapacity

ASSUME RingAssumption ==
    /\ Size \in [Message -> Nat]
    /\ MaxSize \in Nat
    /\ RingCapacity \in Nat \ {0}

\* The codes a call returns are not messages, nor is a cleared ring slot.
ASSUME NamesAssumption ==
    Message \cap {"none", "ok", "IO", "WOULD_BLOCK", "INVALID_ARGUMENT"} = {}

VARIABLES
    allocated,      \* whether the struct kernel_channel is allocated
    endpoint_open,  \* channel->endpoint_open
    messages,       \* channel->incoming[side].messages
    read_index,     \* channel->incoming[side].read_index
    write_index,    \* channel->incoming[side].write_index
    count,          \* channel->incoming[side].count
    releasing,      \* a channel_destroy has yet to call kfree
    reply           \* the result of the last call

ringVars == <<messages, read_index, write_index, count>>
lifeVars == <<allocated, endpoint_open, releasing>>
channelVars == <<ringVars, lifeVars, reply>>

Side == {0, 1}
Peer(side) == 1 - side
Slot == 0..(RingCapacity - 1)

RingTypeOK ==
    /\ allocated \in BOOLEAN
    /\ endpoint_open \in [Side -> BOOLEAN]
    /\ messages \in [Side -> [Slot -> Message \cup {"none"}]]
    /\ read_index \in [Side -> Slot]
    /\ write_index \in [Side -> Slot]
    /\ count \in [Side -> 0..RingCapacity]
    /\ releasing \in BOOLEAN
    /\ reply \in Message \cup {"none", "ok", "IO", "WOULD_BLOCK", "INVALID_ARGUMENT"}

\* What kcalloc leaves in the queues
Cleared ==
    /\ messages'    = [side \in Side |-> [i \in Slot |-> "none"]]
    /\ read_index'  = [side \in Side |-> 0]
    /\ write_index' = [side \in Side |-> 0]
    /\ count'       = [side \in Side |-> 0]

RingInit ==
    /\ allocated = FALSE
    /\ endpoint_open = [side \in Side |-> FALSE]
    /\ messages    = [side \in Side |-> [i \in Slot |-> "none"]]
    /\ read_index  = [side \in Side |-> 0]
    /\ write_index = [side \in Side |-> 0]
    /\ count       = [side \in Side |-> 0]
    /\ releasing = FALSE
    /\ reply = "none"

-----------------------------------------------------------------------------
\* Mutant: the channel comes from kmalloc, with what the last one left in it.
CreateDirty ==
    /\ ~ allocated
    /\ allocated' = TRUE
    /\ endpoint_open' = [side \in Side |-> TRUE]
    /\ reply' = "ok"
    /\ UNCHANGED <<ringVars, releasing>>

\* kernel_channel_create_pair
CreatePair ==
    /\ ~ allocated
    /\ allocated' = TRUE
    /\ endpoint_open' = [side \in Side |-> TRUE]
    /\ Cleared
    /\ reply' = "ok"
    /\ UNCHANGED releasing

Return(result) == reply' = result

Refuse(error) == Return(error) /\ UNCHANGED <<ringVars, lifeVars>>

Advance(index) == (index + 1) % RingCapacity

Full(queue) == count[queue] = RingCapacity

\* The locked part of channel_write once the arguments are valid
Enqueue(queue, message) ==
    /\ messages' = [messages EXCEPT ![queue][write_index[queue]] = message]
    /\ write_index' = [write_index EXCEPT ![queue] = Advance(@)]
    /\ count' = [count EXCEPT ![queue] = @ + 1]
    /\ Return("ok")
    /\ UNCHANGED <<read_index, lifeVars>>

\* channel_write
ChannelWrite(side, message) ==
    /\ endpoint_open[side]
    /\ IF Size[message] = 0 \/ Size[message] > MaxSize THEN Refuse("INVALID_ARGUMENT")
       ELSE IF ~ endpoint_open[Peer(side)] THEN Refuse("IO")
       ELSE IF Full(Peer(side)) THEN Refuse("WOULD_BLOCK")
       ELSE Enqueue(Peer(side), message)

First(queue) == messages[queue][read_index[queue]]

Dequeue(queue) ==
    /\ Return(First(queue))
    /\ read_index' = [read_index EXCEPT ![queue] = Advance(@)]
    /\ count' = [count EXCEPT ![queue] = @ - 1]
    /\ UNCHANGED <<messages, write_index, lifeVars>>

\* channel_read into a buffer of size bytes
ChannelRead(side, size) ==
    /\ endpoint_open[side]
    /\ IF count[side] = 0 THEN Refuse("WOULD_BLOCK")
       ELSE IF size < Size[First(side)] THEN Refuse("INVALID_ARGUMENT")
       ELSE Dequeue(side)

\* Mutant: the first endpoint to close takes the channel with it.
DestroyEarly(side) ==
    /\ endpoint_open[side]
    /\ endpoint_open' = [endpoint_open EXCEPT ![side] = FALSE]
    /\ releasing' = TRUE
    /\ Return("none")
    /\ UNCHANGED <<ringVars, allocated>>

\* channel_destroy up to its unlock
ChannelDestroy(side) ==
    /\ endpoint_open[side]
    /\ endpoint_open' = [endpoint_open EXCEPT ![side] = FALSE]
    /\ releasing' = (\A s \in Side : ~ endpoint_open'[s])
    /\ Return("none")
    /\ UNCHANGED <<ringVars, allocated>>

\* The kfree of channel_destroy: the memory keeps its bytes until kcalloc.
FreeChannel ==
    /\ releasing
    /\ allocated' = FALSE
    /\ releasing' = FALSE
    /\ Return("none")
    /\ UNCHANGED <<ringVars, endpoint_open>>

RingNext ==
    \/ CreatePair
    \/ \E side \in Side :
         \/ \E message \in Message : ChannelWrite(side, message)
         \/ \E size \in 0..MaxSize : ChannelRead(side, size)
         \/ ChannelDestroy(side)
    \/ FreeChannel

RingSpec == RingInit /\ [][RingNext]_channelVars

-----------------------------------------------------------------------------
\* The slot of the i-th queued message (from 0) in the ring
Nth(first, i) == IF first + i < RingCapacity THEN first + i ELSE first + i - RingCapacity

\* The messages a side has yet to read, oldest first
Pending(queue) ==
    [i \in 1..count[queue] |-> messages[queue][Nth(read_index[queue], i - 1)]]

\* The three ring fields of channel_read and channel_write never disagree, no
\* slot between them is uninitialised or holds a message of an illegal size,
\* and a channel is allocated for as long as an endpoint is open.
RingConsistent ==
    /\ \A queue \in Side :
         /\ write_index[queue] = Nth(read_index[queue], count[queue])
         /\ allocated => \A i \in DOMAIN Pending(queue) :
                            /\ Pending(queue)[i] \in Message
                            /\ Size[Pending(queue)[i]] \in 1..MaxSize
    /\ \A side \in Side : endpoint_open[side] => allocated
    /\ releasing <=> (allocated /\ \A side \in Side : ~ endpoint_open[side])

\* The ring buffers implement the two bounded FIFOs of ChannelSpec, with the
\* same answer to every call, whatever an earlier channel left in the memory.
Abstract == INSTANCE ChannelSpec WITH
    exists <- allocated,
    Capacity <- RingCapacity,
    open   <- {side \in Side : endpoint_open[side]},
    inbox  <- [side \in Side |-> IF allocated THEN Pending(side) ELSE <<>>]

ImplementsChannel == Abstract!Spec

=============================================================================
