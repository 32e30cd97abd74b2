--------------------------- MODULE ReliableUnicast ---------------------------
(***************************************************************************)
(* What a reliable unicast channel of the Rime stack promises, without     *)
(* threads, frames, sequence numbers or retransmissions: messages are      *)
(* settled one after the other in the order they were submitted, each as   *)
(* "stopped" - the receiver has it - or as "timeout" - nobody knows - and  *)
(* a message reaches its receiver only when its turn has come. A channel   *)
(* may cease to be sound: "stopped" then says no more than that some       *)
(* message so far was received.                                            *)
(***************************************************************************)
EXTENDS Integers

CONSTANT NumMsgs     \* bound: messages submitted

VARIABLES
  submitted,  \* messages submitted so far
  received,   \* the messages some receiver's application has got
  outcome,    \* outcome[k]: "pending", "stopped" or "timeout"
  sound       \* "stopped" can be trusted

vars == <<submitted, received, outcome, sound>>

MsgIds == 0 .. (NumMsgs - 1)

Init ==
  /\ submitted = 0
  /\ received = {}
  /\ outcome = [k \in MsgIds |-> "pending"]
  /\ sound = TRUE

\* Message k was submitted and every earlier one is settled.
HasTurn(k) ==
  /\ k < submitted
  /\ \A j \in MsgIds : j < k => outcome[j] # "pending"

Submit ==
  /\ submitted < NumMsgs
  /\ submitted' = submitted + 1
  /\ UNCHANGED <<received, outcome, sound>>

\* A message arrives, for the first time; it may have timed out already.
Receive(k) ==
  /\ HasTurn(k)
  /\ received' = received \cup {k}
  /\ UNCHANGED <<submitted, outcome, sound>>

Stop(k) ==
  /\ HasTurn(k) /\ outcome[k] = "pending"
  /\ \E j \in received : j <= k /\ (sound => j = k)
  /\ outcome' = [outcome EXCEPT ![k] = "stopped"]
  /\ UNCHANGED <<submitted, received, sound>>

GiveUp(k) ==
  /\ HasTurn(k) /\ outcome[k] = "pending"
  /\ outcome' = [outcome EXCEPT ![k] = "timeout"]
  /\ UNCHANGED <<submitted, received, sound>>

\* From now on the channel is not sound, and never will be again.
CeaseSound ==
  /\ sound' = FALSE
  /\ UNCHANGED <<submitted, received, outcome>>

Next ==
  \/ Submit \/ CeaseSound
  \/ \E k \in MsgIds : Receive(k) \/ Stop(k) \/ GiveUp(k)

Spec == Init /\ [][Next]_vars
=============================================================================
