---------------------------- MODULE ChannelFibers ----------------------------
(***************************************************************************)
(* What the channels have in common: fibers that send and fibers that      *)
(* receive, each through a fixed number of calls.  A message is the sender *)
(* and the number of the call that sends it.                               *)
(***************************************************************************)
EXTENDS Integers, Sequences, FiniteSets

CONSTANTS Senders, Receivers,
          Receiver,     \* the one that receives where there may be only one
          Null,
          MaxSends      \* calls of each sender

Fibers == Senders \cup Receivers

ASSUME FibersAssumption ==
  /\ IsFiniteSet(Fibers) /\ Senders \cap Receivers = {}
  /\ Receiver \in Receivers
  /\ Null \notin Fibers /\ Null \notin [from : Fibers, n : Nat]
  /\ "RAISED" \notin Fibers \cup {Null} /\ "READY_TO_WAKE" # Null
  /\ MaxSends \in Nat

VARIABLES
  pc,                   \* where each fiber is
  sent,                 \* messages of each fiber that have their place
  received,             \* the last message received of each fiber
  left,                 \* calls each receiver still has to make
  scratch               \* the scratch word of each receiver's fiber_t

fvars == <<sent, received, left>>

GoTo(f, place) == pc' = [pc EXCEPT ![f] = place]

Message(f) == [from |-> f, n |-> sent[f] + 1]

\* The message of the call f is making has its place.
Sends(f) ==
  /\ sent' = [sent EXCEPT ![f] = @ + 1]
  /\ UNCHANGED <<received, left>>

\* r's call takes a message.
Takes(r, message) ==
  /\ received' = [received EXCEPT ![message.from] = message.n]
  /\ left' = [left EXCEPT ![r] = @ - 1]
  /\ UNCHANGED sent

=============================================================================
