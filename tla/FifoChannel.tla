---------------------------- MODULE FifoChannel ----------------------------
(***************************************************************************)
(* What the inspector expects of a connection's sending side: the bytes of *)
(* the messages it accepted reach the peer in the order of acceptance, one *)
(* message after the other; what is missing can only be the tail.          *)
(***************************************************************************)
EXTENDS Naturals, Sequences

CONSTANT Messages

VARIABLES accepted,  \* the messages accepted, in order
          wire       \* the messages the peer has received, in order

channelVars == <<accepted, wire>>

ChannelInit == accepted = <<>> /\ wire = <<>>

AcceptMessage(m) ==
    /\ accepted' = Append(accepted, m)
    /\ UNCHANGED wire

Deliver ==
    /\ Len(wire) < Len(accepted)
    /\ wire' = Append(wire, accepted[Len(wire) + 1])
    /\ UNCHANGED accepted

ChannelNext == (\E m \in Messages : AcceptMessage(m)) \/ Deliver

ChannelSpec == ChannelInit /\ [][ChannelNext]_channelVars
=============================================================================
