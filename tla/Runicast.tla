------------------------------ MODULE Runicast ------------------------------
(***************************************************************************)
(* Reliable unicast ("runicast") of the Rime stack: one ruc_connection as  *)
(* a sender of packets, and the nodes it sends them to.                    *)
(*                                                                         *)
(* Two threads of the sending node share the connection:                   *)
(*   - the message handler thread of the rime_stack block, which runs      *)
(*     ruc_connection::pack and ruc_connection::unpack one at a time;      *)
(*   - the detached thread of the stubborn_sender, which pops a packet,    *)
(*     transmits it until it is told to stop or has used its attempts, and *)
(*     then takes the next one.                                            *)
(* They meet in d_recv_seqno (guarded by ruc_connection::d_mutex), in the  *)
(* atomic flag d_stop and in the packet queue; no lock is held from one    *)
(* access to the next, so every access is a step of its own.               *)
(*                                                                         *)
(* A packet carries its number "id" (the n-th message packed); the code    *)
(* sees only the sequence number "seq", d_send_seqno modulo 2^seqno_bits.  *)
(* A connection packs every message for the address that precedes it, so   *)
(* one connection serves several destinations with one pair of counters.   *)
(* The path to a destination and the path back are FIFO and lossy: MAC,    *)
(* PHY and the air are modelled as queues that may drop a frame.           *)
(***************************************************************************)
EXTENDS Integers, Sequences

CONSTANTS
  Dests,      \* the RIME addresses messages are sent to
  SeqMod,     \* 1 << seqno_bits: the number of sequence numbers (4 in the code)
  MaxRetx,    \* d_retxs: retransmissions after the first attempt (3 in the code)
  NumMsgs,    \* bound: messages the application packs
  ChanCap     \* bound: frames on the way to, or back from, a destination

ASSUME DestsAssumption   == Dests # {}
ASSUME SeqModAssumption  == SeqMod \in Nat /\ SeqMod >= 2
ASSUME MaxRetxAssumption == MaxRetx \in Nat
ASSUME BoundsAssumption  == NumMsgs \in Nat /\ ChanCap \in Nat

MsgIds == 0 .. (NumMsgs - 1)
SeqNos == 0 .. (SeqMod - 1)
Packet == [id : MsgIds, seq : SeqNos, dest : Dests]

\* The value of a packet variable nothing was assigned to yet.
NoPacket == [id |-> -1]

VARIABLES
  \* the connection, as the handler thread sees it
  packed,     \* messages packed so far: the id of the next one
  sendSeq,    \* d_send_seqno
  recvSeq,    \* d_recv_seqno: the acknowledgement the connection waits for
  hpc,        \* where the handler is in the acknowledgement branch of unpack
  hack,       \* the acknowledgement that branch is working on
  done,       \* PMT_EOF was packed: the block and its MAC are set done
  \* the stubborn sender
  spc,        \* where thread_func is
  cur,        \* to_send: the packet popped last
  tries,      \* i: the attempts that have ended
  stop,       \* d_stop
  queue,      \* d_msg_queue
  \* the network
  data,       \* data[d]: data frames on the way to d
  acks,       \* acks[d]: acknowledgements on the way back from d
  \* history
  incs,       \* calls of inc_recv_seqno
  outcome,    \* outcome[k]: what thread_func made of packet k
  delivered,  \* delivered[k]: times the payload of k was handed to an application
  last,       \* last[d]: id of the payload d handed to its application last
  timely      \* no acknowledgement has met a timeout or come a full turn late

handlerVars == <<packed, sendSeq, hpc, hack, done>>
senderVars  == <<spc, cur, tries, queue, outcome>>
peerVars    == <<delivered, last>>
vars == <<packed, sendSeq, recvSeq, hpc, hack, done, spc, cur, tries, stop,
          queue, data, acks, incs, outcome, delivered, last, timely>>

(***************************************************************************)
(* Initial state: the constructors of ruc_connection and stubborn_sender,  *)
(* the sender thread just started.                                         *)
(***************************************************************************)
Init ==
  /\ packed = 0 /\ sendSeq = 0 /\ recvSeq = 0
  /\ hpc = "idle" /\ hack = NoPacket /\ done = FALSE
  /\ spc = "clear" /\ cur = NoPacket /\ tries = 0 /\ stop = FALSE
  /\ queue = << >>
  /\ data = [d \in Dests |-> << >>]
  /\ acks = [d \in Dests |-> << >>]
  /\ incs = 0
  /\ outcome = [k \in MsgIds |-> "pending"]
  /\ delivered = [k \in MsgIds |-> 0]
  /\ last = [d \in Dests |-> -1]
  /\ timely = TRUE

\* Mutant: the sequence number is not reduced.
SuccUnreduced(s) == s + 1

\* Sequence numbers count modulo 1 << seqno_bits.
Succ(s) == (s + 1) % SeqMod

\* inc_recv_seqno(): one step, under d_mutex.
IncRecvSeq ==
  /\ recvSeq' = Succ(recvSeq)
  /\ incs' = incs + 1

\* A frame handed to the MAC enters the channel, or is lost when that is full.
Transmit(chan, d, f) ==
  chan' = IF Len(chan[d]) < ChanCap
          THEN [chan EXCEPT ![d] = Append(@, f)] ELSE chan

-----------------------------------------------------------------------------
(***************************************************************************)
(* Two things the code relies on and neither checks nor enforces. Nothing  *)
(* is assumed of them: the variable timely records whether they have held  *)
(* so far, and the properties say what does, and what does not, need them. *)
(***************************************************************************)

\* The acknowledgement accepted from d is not so old that its sequence number has
\* come round again: d_recv_seqno was advanced less than SeqMod times since.
Fresh(d) == Head(acks[d]).id + SeqMod > incs

\* An acknowledgement is between the comparison in unpack and the store to d_stop
\* while the sender thread is between its load of d_stop and its inc_recv_seqno().
\* Both then count: d_recv_seqno is advanced twice for one packet.
TimeoutRace == spc = "timeout" /\ hpc = "stop"

-----------------------------------------------------------------------------
(***************************************************************************)
(* The handler thread of the sending node.                                 *)
(***************************************************************************)

\* pack(msg) with a valid target address d: number the packet, queue it for
\* the stubborn sender, advance d_send_seqno.
Pack(d) ==
  /\ hpc = "idle" /\ ~done
  /\ packed < NumMsgs
  /\ queue' = Append(queue, [id |-> packed, seq |-> sendSeq, dest |-> d])
  /\ sendSeq' = Succ(sendSeq)
  /\ packed' = packed + 1
  /\ UNCHANGED <<recvSeq, hpc, hack, done, spc, cur, tries, stop, data, acks,
                 incs, outcome, peerVars, timely>>

\* pack(PMT_EOF): the MAC is told to finish and the block is set done. The
\* sender thread is neither told nor joined.
PackEof ==
  /\ hpc = "idle" /\ ~done
  /\ done' = TRUE
  /\ UNCHANGED <<packed, sendSeq, recvSeq, hpc, hack, senderVars, stop, data,
                 acks, incs, peerVars, timely>>

\* unpack(ack) that is not the one waited for: "ignore duplicate packets".
IgnoreAck(d) ==
  /\ hpc = "idle" /\ ~done
  /\ acks[d] # << >>
  /\ Head(acks[d]).seq # recvSeq
  /\ acks' = [acks EXCEPT ![d] = Tail(@)]
  /\ UNCHANGED <<handlerVars, recvSeq, senderVars, stop, data, incs, peerVars, timely>>

\* Mutant: every acknowledgement is taken for the one waited for.
AcceptAnyAck(d) ==
  /\ hpc = "idle" /\ ~done
  /\ acks[d] # << >>
  /\ acks' = [acks EXCEPT ![d] = Tail(@)]
  /\ hpc' = "stop"
  /\ hack' = Head(acks[d])
  /\ UNCHANGED <<packed, sendSeq, done, recvSeq, senderVars, stop, data, incs,
                 peerVars>>
  /\ timely' = (timely /\ Fresh(d) /\ ~TimeoutRace')

\* unpack(ack), the comparison with recv_seqno() succeeds.
AcceptAck(d) ==
  /\ hpc = "idle" /\ ~done
  /\ acks[d] # << >>
  /\ Head(acks[d]).seq = recvSeq
  /\ acks' = [acks EXCEPT ![d] = Tail(@)]
  /\ hpc' = "stop"
  /\ hack' = Head(acks[d])
  /\ UNCHANGED <<packed, sendSeq, done, recvSeq, senderVars, stop, data, incs,
                 peerVars>>
  /\ timely' = (timely /\ Fresh(d) /\ ~TimeoutRace')

\* unpack(ack) goes on: d_stubborn_sender.stop().
StopSender ==
  /\ hpc = "stop"
  /\ stop' = TRUE
  /\ hpc' = "inc"
  /\ UNCHANGED <<packed, sendSeq, hack, done, recvSeq, senderVars, data, acks,
                 incs, peerVars, timely>>

\* unpack(ack) ends: inc_recv_seqno().
CountAck ==
  /\ hpc = "inc"
  /\ IncRecvSeq
  /\ hpc' = "idle"
  /\ UNCHANGED <<packed, sendSeq, hack, done, senderVars, stop, data, acks,
                 peerVars, timely>>

-----------------------------------------------------------------------------
(***************************************************************************)
(* The thread of the stubborn sender.                                      *)
(***************************************************************************)

\* Mutant: the flag of the previous packet is left set.
KeepStop ==
  /\ spc = "clear"
  /\ spc' = "pop"
  /\ UNCHANGED <<handlerVars, recvSeq, cur, tries, queue, outcome, stop, data,
                 acks, incs, peerVars, timely>>

\* d_stop.store(false), at the top of the loop.
ClearStop ==
  /\ spc = "clear"
  /\ stop' = FALSE
  /\ spc' = "pop"
  /\ UNCHANGED <<handlerVars, recvSeq, cur, tries, queue, outcome, data, acks,
                 incs, peerVars, timely>>

\* Mutant: the packet queued last is taken first.
PopNewest ==
  /\ spc = "pop"
  /\ queue # << >>
  /\ cur' = queue[Len(queue)]
  /\ queue' = SubSeq(queue, 1, Len(queue) - 1)
  /\ tries' = 0
  /\ spc' = "publish"
  /\ UNCHANGED <<handlerVars, recvSeq, stop, outcome, data, acks, incs,
                 peerVars, timely>>

\* queue_pop(): waits for a packet.
QueuePop ==
  /\ spc = "pop"
  /\ queue # << >>
  /\ cur' = Head(queue)
  /\ queue' = Tail(queue)
  /\ tries' = 0
  /\ spc' = "publish"
  /\ UNCHANGED <<handlerVars, recvSeq, stop, outcome, data, acks, incs,
                 peerVars, timely>>

\* message_port_pub(d_mac_outport, to_send). A MAC that is done drops it.
Publish ==
  /\ spc = "publish"
  /\ IF done THEN data' = data ELSE Transmit(data, cur.dest, cur)
  /\ spc' = "wait"
  /\ UNCHANGED <<handlerVars, recvSeq, cur, tries, queue, outcome, stop, acks,
                 incs, peerVars, timely>>

\* Mutant: one retransmission too many.
RetransmitsOnceMore(i) == i <= MaxRetx /\ ~stop

\* The loop condition i++ < d_retxs && !d_stop holds of the value i.
Retransmits(i) == i < MaxRetx /\ ~stop

\* Mutant: wait() in place of timed_wait() - only stop() ends the wait.
WaitForStop ==
  /\ spc = "wait" /\ stop
  /\ spc' = "check"
  /\ tries' = tries + 1
  /\ UNCHANGED <<handlerVars, recvSeq, cur, queue, outcome, stop, data, acks,
                 incs, peerVars, timely>>

\* timed_wait returns - the retransmission time is over, stop() notified, or
\* spuriously - and the loop condition is evaluated.
WaitReturns ==
  /\ spc = "wait"
  /\ spc' = IF Retransmits(tries) THEN "publish" ELSE "check"
  /\ tries' = tries + 1
  /\ UNCHANGED <<handlerVars, recvSeq, cur, queue, outcome, stop, data, acks,
                 incs, peerVars, timely>>

\* if(!d_stop.load()) ... else "stopped".
CheckStop ==
  /\ spc = "check"
  /\ IF stop
     THEN spc' = "clear" /\ outcome' = [outcome EXCEPT ![cur.id] = "stopped"]
     ELSE spc' = "timeout" /\ outcome' = outcome
  /\ UNCHANGED <<handlerVars, recvSeq, cur, tries, queue, stop, data, acks,
                 incs, peerVars>>
  /\ timely' = (timely /\ ~TimeoutRace')

\* Mutant: the acknowledgement that never came stays the one waited for.
ForgetTimeout ==
  /\ spc = "timeout"
  /\ outcome' = [outcome EXCEPT ![cur.id] = "timeout"]
  /\ spc' = "clear"
  /\ UNCHANGED <<handlerVars, recvSeq, incs, cur, tries, queue, stop, data,
                 acks, peerVars, timely>>

\* The attempts are used up: d_caller->inc_recv_seqno(), next packet.
CountTimeout ==
  /\ spc = "timeout"
  /\ IncRecvSeq
  /\ outcome' = [outcome EXCEPT ![cur.id] = "timeout"]
  /\ spc' = "clear"
  /\ UNCHANGED <<handlerVars, cur, tries, queue, stop, data, acks, peerVars, timely>>

SenderThread ==
  ClearStop \/ QueuePop \/ Publish \/ WaitReturns \/ CheckStop \/ CountTimeout

-----------------------------------------------------------------------------
(***************************************************************************)
(* A destination: its own ruc_connection unpacks the data frame, hands the *)
(* payload on - every time, duplicates too - and acknowledges its number.  *)
(***************************************************************************)
UnpackData(d) ==
  /\ data[d] # << >>
  /\ data' = [data EXCEPT ![d] = Tail(@)]
  /\ delivered' = [delivered EXCEPT ![Head(data[d]).id] = @ + 1]
  /\ last' = [last EXCEPT ![d] = Head(data[d]).id]
  /\ Transmit(acks, d, Head(data[d]))
  /\ UNCHANGED <<handlerVars, recvSeq, senderVars, stop, incs, timely>>

\* The channel loses the frame that would arrive next.
LoseData(d) ==
  /\ data[d] # << >>
  /\ data' = [data EXCEPT ![d] = Tail(@)]
  /\ UNCHANGED <<handlerVars, recvSeq, senderVars, stop, acks, incs, peerVars, timely>>

LoseAck(d) ==
  /\ acks[d] # << >>
  /\ acks' = [acks EXCEPT ![d] = Tail(@)]
  /\ UNCHANGED <<handlerVars, recvSeq, senderVars, stop, data, incs, peerVars, timely>>

\* Nothing is left to do: the application is finished, the sender thread waits
\* for a packet and no frame is left that anybody reads.
Quiescent ==
  /\ hpc = "idle" /\ (done \/ packed = NumMsgs)
  /\ spc = "pop" /\ queue = << >>
  /\ \A d \in Dests : data[d] = << >> /\ (done \/ acks[d] = << >>)
  /\ UNCHANGED vars

HandlerThread ==
  \/ PackEof \/ StopSender \/ CountAck
  \/ \E d \in Dests : Pack(d) \/ IgnoreAck(d) \/ AcceptAck(d)

Next ==
  \/ HandlerThread
  \/ SenderThread
  \/ \E d \in Dests : UnpackData(d) \/ LoseData(d) \/ LoseAck(d)
  \/ Quiescent

Spec == Init /\ [][Next]_vars

\* The operating system runs both threads; an application need not send, and
\* no frame need arrive.
Fairness == WF_vars(SenderThread) /\ WF_vars(StopSender \/ CountAck)

FairSpec == Spec /\ Fairness

-----------------------------------------------------------------------------
(***************************************************************************)
(* Properties.                                                             *)
(***************************************************************************)

Outcomes == {"pending", "stopped", "timeout"}

\* Every variable has its type.
TypeOK ==
  /\ packed \in 0 .. NumMsgs /\ sendSeq \in SeqNos /\ recvSeq \in SeqNos
  /\ hpc \in {"idle", "stop", "inc"} /\ hack \in Packet \cup {NoPacket}
  /\ done \in BOOLEAN
  /\ spc \in {"clear", "pop", "publish", "wait", "check", "timeout"}
  /\ cur \in Packet \cup {NoPacket} /\ tries \in Nat /\ stop \in BOOLEAN
  /\ queue \in Seq(Packet)
  /\ data \in [Dests -> Seq(Packet)] /\ acks \in [Dests -> Seq(Packet)]
  /\ incs \in Nat
  /\ outcome \in [MsgIds -> Outcomes]
  /\ delivered \in [MsgIds -> Nat]
  /\ last \in [Dests -> MsgIds \cup {-1}]
  /\ timely \in BOOLEAN

\* What the sender may conclude from "stopped". Whatever the timing, the sender cuts
\* the retransmissions of a packet short only on an acknowledgement of a packet that
\* was delivered - this one or an earlier one; and of this very one, as long as
\* acknowledgements are timely. It spans the loop of thread_func, the unpack of both
\* nodes and d_stop.
StoppedMeansDelivered ==
  \A k \in MsgIds : outcome[k] = "stopped" =>
    \E j \in MsgIds : j <= k /\ delivered[j] > 0 /\ (timely => j = k)

\* The promise of a "Reliable Unicast Channel", and of the "stopped" that
\* stubborn_sender.cc:91 reports, without exception: the packet was delivered.
StoppedIsDelivered ==
  \A k \in MsgIds : outcome[k] = "stopped" => delivered[k] > 0

\* A connection implements a reliable unicast channel that is sound until an
\* acknowledgement comes untimely: packets are settled in order and none is delivered
\* before its turn, always; a stopped packet is one that arrived, while it is sound.
Channel == INSTANCE ReliableUnicast
             WITH submitted <- packed,
                  received  <- {k \in MsgIds : delivered[k] > 0},
                  outcome   <- outcome,
                  sound     <- timely
IsReliableUnicast == Channel!Spec

\* "ignore duplicate packets" in ruc_connection::unpack. Whatever the timing, an
\* acknowledgement is ignored only if its packet is settled or d_recv_seqno has
\* already been counted past it, so that the number never lags behind; and as long as
\* acknowledgements are timely, only if its packet is settled, or is the one in hand
\* that the sender has been told to stop sending.
OnlyDuplicatesIgnored ==
  [][\A d \in Dests : IgnoreAck(d) =>
       LET k == Head(acks[d]).id
       IN  /\ outcome[k] # "pending" \/ incs > k
           /\ timely => outcome[k] # "pending" \/ (k = cur.id /\ stop)]_vars

\* The two counters of a connection that has nothing to do - no packet queued or in
\* hand, no acknowledgement half-handled. Whatever the timing, no packet is left
\* uncounted in d_recv_seqno; and as long as acknowledgements are timely none is
\* counted twice: it is the number d_send_seqno gives the next packet.
CountersAgree ==
  spc = "pop" /\ queue = << >> /\ hpc = "idle" =>
    incs >= packed /\ (timely => recvSeq = sendSeq)

\* An application never gets an older payload after a newer one, although lost
\* frames are retransmitted and the receiver remembers nothing: queue and
\* stubborn sender keep one packet on the air at a time, in the order packed.
InOrder == [][\A d \in Dests : last'[d] >= last[d]]_vars

\* One packet costs at most 1 + d_retxs transmissions: the application of a
\* destination sees a payload at most that often.
BoundedDuplicates == \A k \in MsgIds : delivered[k] <= MaxRetx + 1

\* Every message that is packed is settled, stopped or timed out, whatever is
\* lost, however the threads interleave, and even after PMT_EOF: no packet
\* blocks the ones queued behind it.
EverySettles ==
  \A k \in MsgIds : (packed > k) ~> (outcome[k] # "pending")

-----------------------------------------------------------------------------
(***************************************************************************)
(* The inductive invariant: what holds of every behaviour, and what holds  *)
(* besides while acknowledgements are timely.                              *)
(***************************************************************************)

\* The packets settled so far, and whether the one in hand has been told to stop.
Settled  == IF spc \in {"clear", "pop"} THEN cur.id + 1 ELSE cur.id
Notified == stop /\ spc \in {"publish", "wait", "check"}

\* Packets are numbered, queued and popped consecutively, and carry their number
\* modulo SeqMod.
QueueInv ==
  /\ packed = cur.id + 1 + Len(queue)
  /\ \A i \in 1 .. Len(queue) :
       queue[i].id = cur.id + i /\ queue[i].seq = queue[i].id % SeqMod
  /\ sendSeq = packed % SeqMod
  /\ cur = NoPacket => spc \in {"clear", "pop"}
  /\ cur # NoPacket => cur.seq = cur.id % SeqMod

\* Exactly the first Settled packets have an outcome.
OutcomeInv == \A k \in MsgIds : outcome[k] # "pending" <=> k < Settled

\* Frames belong to packets that were popped, acknowledgements to delivered ones, and
\* so does the acknowledgement being handled.
FrameOK(f) == f.id <= cur.id /\ f.seq = f.id % SeqMod
FrameInv ==
  /\ \A d \in Dests :
       /\ \A i \in 1 .. Len(data[d]) : FrameOK(data[d][i])
       /\ \A i \in 1 .. Len(acks[d]) :
            FrameOK(acks[d][i]) /\ delivered[acks[d][i].id] > 0
  /\ hpc = "stop" =>
       hack \in Packet /\ hack.id <= cur.id /\ delivered[hack.id] > 0
  /\ \A k \in MsgIds : delivered[k] > 0 => k <= cur.id

\* d_stop is set, and a packet is stopped, on the acknowledgement of some packet.
DeliveredUpTo(k) == \E j \in MsgIds : j <= k /\ delivered[j] > 0
StopInv ==
  /\ stop => DeliveredUpTo(cur.id)
  /\ \A k \in MsgIds : outcome[k] = "stopped" => DeliveredUpTo(k)

\* No packet is left uncounted: a packet is settled by its timeout, which counts, or
\* by d_stop, which an acknowledgement has set that counts, or is about to.
CountInv ==
  /\ recvSeq = incs % SeqMod
  /\ incs + (IF hpc = "inc" THEN 1 ELSE 0)
       >= Settled + (IF stop /\ spc \notin {"clear", "timeout"} THEN 1 ELSE 0)

\* While acknowledgements are timely, whoever is stopped, or is about to be, was
\* delivered.
DeliveryInv ==
  /\ \A k \in MsgIds : outcome[k] = "stopped" => delivered[k] > 0
  /\ Notified => delivered[cur.id] > 0
  /\ hpc = "stop" => /\ spc \in {"publish", "wait", "check"} /\ ~stop
                     /\ delivered[cur.id] > 0

\* d_recv_seqno then counts the settled packets: one more while the sender has not
\* seen d_stop, one less while the handler has not counted its acknowledgement.
SeqInv ==
  /\ incs = Settled + (IF Notified THEN 1 ELSE 0) - (IF hpc = "inc" THEN 1 ELSE 0)
  /\ spc \in {"pop", "timeout"} => ~stop

BaseInv ==
  TypeOK /\ QueueInv /\ OutcomeInv /\ FrameInv /\ StopInv /\ CountInv

IInv == BaseInv /\ (timely => DeliveryInv /\ SeqInv)

=============================================================================
