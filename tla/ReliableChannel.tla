-------------------------- MODULE ReliableChannel --------------------------
(***************************************************************************)
(* What the reliable streams promise to the applications, with packets,     *)
(* acknowledgements, buffers and sequence numbers left out: what one end    *)
(* sends, the other end gets, one message at a time and in the order of     *)
(* sending; only then is the sender's room for the message free again; and  *)
(* both happen to every message in the end.                                 *)
(***************************************************************************)
EXTENDS Integers, Sequences

CONSTANTS
    Sources,        \* the ends that send
    Payloads        \* what a message may hold

VARIABLES
    offered,        \* the messages that a source has sent
    received,       \* the messages of a source that the other end has got
    released        \* how many messages of a source take no room any more

channelVars == <<offered, received, released>>

ChannelInit ==
    /\ offered = [s \in Sources |-> << >>]
    /\ received = [s \in Sources |-> << >>]
    /\ released = [s \in Sources |-> 0]

Offer(s, payload) ==
    /\ offered' = [offered EXCEPT ![s] = Append(@, payload)]
    /\ UNCHANGED <<received, released>>

Receive(s) ==
    /\ Len(received[s]) < Len(offered[s])
    /\ received' = [received EXCEPT ![s] = Append(@, offered[s][Len(@) + 1])]
    /\ UNCHANGED <<offered, released>>

Release(s) ==
    /\ released[s] < Len(received[s])
    /\ released' = [released EXCEPT ![s] = @ + 1]
    /\ UNCHANGED <<offered, received>>

ChannelNext ==
    \E s \in Sources :
        \/ \E payload \in Payloads : Offer(s, payload)
        \/ Receive(s)
        \/ Release(s)

\* What may happen, without what must.
ChannelSafety == ChannelInit /\ [][ChannelNext]_channelVars

ChannelSpec ==
    /\ ChannelSafety
    /\ \A s \in Sources : WF_channelVars(Receive(s)) /\ WF_channelVars(Release(s))
=============================================================================
