---------------------------- MODULE RimeNetwork ----------------------------
(***************************************************************************)
(* Several nodes, each a rime_stack block on top of a mac block, joined by *)
(* air that every node hears. A node's connections are numbered in the     *)
(* order the constructor of rime_stack adds them: broadcast (bc), then     *)
(* unicast (uc), then reliable unicast (ruc).                              *)
(*                                                                         *)
(* A block runs its message handlers one at a time; the ports between      *)
(* blocks are FIFO queues. Messages between rime_stack and mac are byte    *)
(* sequences, headers included, so that what a node makes of a message is  *)
(* decided by the bytes alone. A payload is one byte, the number of the    *)
(* message.                                                                *)
(*                                                                         *)
(* Of a reliable connection only the frames matter here. When its sender   *)
(* stops repeating a packet is the subject of the module Runicast: here it *)
(* may stop after any attempt, acknowledged or not.                        *)
(*                                                                         *)
(* Left out: the sequence number of the MAC frame and the MAC's counters   *)
(* of packets and errors, which no code of a receiver reads.               *)
(***************************************************************************)
EXTENDS RimeHeaders, FiniteSets

CONSTANTS
  Node,         \* the RIME addresses of the nodes
  Config,       \* Config[n]: the connections of n, records of kind and channel
  Talkers,      \* the nodes with an application on an input port of rime_stack
  Targets,      \* the addresses applications send to, of nodes or of nobody
  MaxTries,     \* 1 + d_retxs: attempts a packet of a ruc connection is given
  NumMsgs,      \* bound: messages the applications of all nodes submit
  MaxMissed     \* bound: the size of missed

Kinds == {"bc", "uc", "ruc"}
SeqMod == 4     \* 1 << seqno_bits

ASSUME NodeAssumption ==
  /\ Node \subseteq Address \ {<<0, 0>>}
  /\ Targets \subseteq Address
ASSUME ConfigAssumption ==
  Config \in [Node -> Seq([kind : Kinds, channel : Channel])]

\* Connections that share a channel number are of one kind: the flow graphs of a
\* network are configured alike. (External: the code has no way to check it.)
ASSUME ChannelsAgree ==
  \A n, m \in Node : \A i \in DOMAIN Config[n] : \A j \in DOMAIN Config[m] :
    Config[n][i].channel = Config[m][j].channel => Config[n][i].kind = Config[m][j].kind

ASSUME BoundsAssumption ==
  /\ Talkers \subseteq Node
  /\ MaxTries \in Nat \ {0} /\ NumMsgs \in 0 .. 255 /\ MaxMissed \in Nat

Conns(n, kind) == {i \in DOMAIN Config[n] : Config[n][i].kind = kind}

\* pmt::PMT_EOF in a port's queue; every other message has at least a header.
Eof == << >>

VARIABLES
  \* rime_stack
  sendSeq,    \* sendSeq[n][i]: d_send_seqno of a ruc connection
  held,       \* held[n][i]: packets its stubborn sender has not finished with
  tries,      \* tries[n][i]: attempts made for the first of them
  rimeDone,   \* the nodes whose rime_stack was set done
  \* ports between rime_stack and mac, and the air
  toMac,      \* toMac[n]: messages on the port "toMAC"
  toRime,     \* toRime[n]: messages on the port "fromMAC"
  heard,      \* heard[n]: frames the PHY of n has handed to its MAC
  macDone,    \* the nodes whose mac was set done
  \* history
  msgs,       \* msgs[k]: sender, connection and target of the k-th message
  got,        \* got[n]: connection and payload of each message output at n
  missed      \* <<n, k>>: the air kept a frame of message k (0: an acknowledgement) from n

rimeVars == <<sendSeq, held, tries, rimeDone>>
vars == <<sendSeq, held, tries, rimeDone, toMac, toRime, heard, macDone, msgs,
          got, missed>>

PerConn(n, x) == [i \in DOMAIN Config[n] |-> x]

Init ==
  /\ sendSeq = [n \in Node |-> PerConn(n, 0)]
  /\ held = [n \in Node |-> PerConn(n, << >>)]
  /\ tries = [n \in Node |-> PerConn(n, 0)]
  /\ toMac = [n \in Node |-> << >>]
  /\ toRime = [n \in Node |-> << >>]
  /\ heard = [n \in Node |-> << >>]
  /\ rimeDone = {} /\ macDone = {}
  /\ msgs = << >>
  /\ got = [n \in Node |-> << >>]
  /\ missed = {}

-----------------------------------------------------------------------------
(***************************************************************************)
(* rime_stack: the handlers of the connections' input ports.               *)
(***************************************************************************)

Publish(queue, n, m) == queue' = [queue EXCEPT ![n] = Append(@, m)]

\* The application of n submits a message on connection i for target d.
Submit(n, i, d) ==
  /\ n \in Talkers \ rimeDone
  /\ Len(msgs) < NumMsgs
  /\ msgs' = Append(msgs, [from |-> n, conn |-> Config[n][i], to |-> d,
                           seqno |-> sendSeq[n][i]])

Payload == <<Len(msgs) + 1>>

\* bc_connection::pack.
PackBc(n, i) ==
  /\ Submit(n, i, n)
  /\ Publish(toMac, n, BcHeader(Config[n][i].channel, n) \o Payload)
  /\ UNCHANGED <<rimeVars, toRime, heard, macDone, got, missed>>

\* uc_connection::pack, with a valid target address before the payload.
PackUc(n, i, d) ==
  /\ Submit(n, i, d)
  /\ Publish(toMac, n, UcHeader(Config[n][i].channel, n, d) \o Payload)
  /\ UNCHANGED <<rimeVars, toRime, heard, macDone, got, missed>>

\* ruc_connection::pack: the message is left to the stubborn sender.
PackRuc(n, i, d) ==
  /\ Submit(n, i, d)
  /\ held' = [held EXCEPT ![n][i] =
                Append(@, RucHeader(Config[n][i].channel, FALSE, sendSeq[n][i], n, d)
                            \o Payload)]
  /\ sendSeq' = [sendSeq EXCEPT ![n][i] = (@ + 1) % SeqMod]
  /\ UNCHANGED <<tries, rimeDone, toMac, toRime, heard, macDone, got, missed>>

\* Mutant: the block goes on after the end of the stream.
PackEofAndGoOn(n) ==
  /\ n \in Talkers \ rimeDone
  /\ Publish(toMac, n, Eof)
  /\ UNCHANGED <<rimeVars, toRime, heard, macDone, msgs, got, missed>>

\* pack(PMT_EOF), the same on a connection of any kind.
PackEof(n) ==
  /\ n \in Talkers \ rimeDone
  /\ Publish(toMac, n, Eof)
  /\ rimeDone' = rimeDone \cup {n}
  /\ UNCHANGED <<sendSeq, held, tries, toRime, heard, macDone, msgs, got, missed>>

\* The thread of a stubborn sender transmits its packet, again or for the first
\* time, whether or not the block was set done.
SendHeld(n, i) ==
  /\ held[n][i] # << >>
  /\ tries[n][i] < MaxTries
  /\ Publish(toMac, n, Head(held[n][i]))
  /\ tries' = [tries EXCEPT ![n][i] = @ + 1]
  /\ UNCHANGED <<sendSeq, held, rimeDone, toRime, heard, macDone, msgs, got, missed>>

\* It leaves the packet, stopped or timed out.
Settle(n, i) ==
  /\ tries[n][i] > 0
  /\ held' = [held EXCEPT ![n][i] = Tail(@)]
  /\ tries' = [tries EXCEPT ![n][i] = 0]
  /\ UNCHANGED <<sendSeq, rimeDone, toMac, toRime, heard, macDone, msgs, got, missed>>

-----------------------------------------------------------------------------
(***************************************************************************)
(* mac, and the air.                                                       *)
(***************************************************************************)

\* History: is a message on a port an acknowledgement? It carries no payload then.
IsAck(blob) ==
  /\ blob # Eof
  /\ \E n \in Node : \E i \in Conns(n, "ruc") :
       SubSeq(blob, 1, 2) = ChannelBytes(Config[n][i].channel)
  /\ RucIsAck(blob)

Fates == {"intact", "spoilt", "lost"}

\* app_in with a message: it is broadcast. No node hears itself.
MacSend(n) ==
  /\ n \notin macDone
  /\ toMac[n] # << >> /\ Head(toMac[n]) # Eof
  /\ toMac' = [toMac EXCEPT ![n] = Tail(@)]
  /\ \E fate \in [Node \ {n} -> Fates] :
       LET blob == Head(toMac[n])
           Reaches(m) == m # n /\ fate[m] # "lost"
       IN /\ heard' = [m \in Node |->
                         IF Reaches(m)
                         THEN Append(heard[m], [blob |-> blob, ok |-> fate[m] = "intact"])
                         ELSE heard[m]]
          /\ missed' = missed \cup
               {<<m, IF IsAck(blob) THEN 0 ELSE blob[Len(blob)]>> :
                  m \in {p \in Node \ {n} : fate[p] # "intact"}}
          /\ Cardinality(missed') <= MaxMissed
  /\ UNCHANGED <<rimeVars, toRime, macDone, msgs, got>>

\* app_in(PMT_EOF).
MacEof(n) ==
  /\ n \notin macDone
  /\ toMac[n] # << >> /\ Head(toMac[n]) = Eof
  /\ toMac' = [toMac EXCEPT ![n] = Tail(@)]
  /\ macDone' = macDone \cup {n}
  /\ UNCHANGED <<rimeVars, toRime, heard, msgs, got, missed>>

\* Mutant: a frame overtakes those before it.
MacReceiveOvertaking(n) ==
  /\ n \notin macDone
  /\ heard[n] # << >>
  /\ heard' = [heard EXCEPT ![n] = Tail(@)]
  /\ toRime' = [toRime EXCEPT ![n] =
                  IF Head(heard[n]).ok THEN <<Head(heard[n]).blob>> \o @ ELSE @]
  /\ UNCHANGED <<rimeVars, toMac, macDone, msgs, got, missed>>

\* mac_in: a frame whose check sequence is wrong is dropped; there is no address
\* filter. (External: a spoilt frame never passes the check sequence.)
MacReceive(n) ==
  /\ n \notin macDone
  /\ heard[n] # << >>
  /\ heard' = [heard EXCEPT ![n] = Tail(@)]
  /\ toRime' = [toRime EXCEPT ![n] =
                  IF Head(heard[n]).ok THEN Append(@, Head(heard[n]).blob) ELSE @]
  /\ UNCHANGED <<rimeVars, toMac, macDone, msgs, got, missed>>

-----------------------------------------------------------------------------
(***************************************************************************)
(* rime_stack: the handler of the port "fromMAC".                          *)
(***************************************************************************)

\* Mutant: only the low byte of the channel is compared.
MatchesLowByte(conn, blob) == conn.channel % 256 = blob[1]

\* The test of rime_stack_impl::unpack: the whole channel number is compared with
\* the first byte, and its high byte with the second.
Matches(conn, blob) == conn.channel = blob[1] /\ conn.channel \div 256 = blob[2]

MatchingConns(n, blob) == {i \in DOMAIN Config[n] : Matches(Config[n][i], blob)}
FirstOf(S) == CHOOSE i \in S : \A j \in S : i <= j

Output(n, i, payload) ==
  got' = [got EXCEPT ![n] = Append(@, [conn |-> Config[n][i], payload |-> payload])]

UnpackBc(n, i, blob) ==
  /\ Output(n, i, Rest(blob, BcHeaderLength))
  /\ UNCHANGED toMac

UnpackUc(n, i, blob) ==
  /\ IF UcTarget(blob) = n
     THEN Output(n, i, Rest(blob, UcHeaderLength))
     ELSE UNCHANGED got
  /\ UNCHANGED toMac

\* Mutant: data is acknowledged before the target address is looked at.
UnpackRucPromiscuous(n, i, blob) ==
  IF ~RucIsAck(blob)
  THEN /\ Output(n, i, Rest(blob, RucHeaderLength))
       /\ Publish(toMac, n,
                  RucHeader(Config[n][i].channel, TRUE, RucSeqno(blob), n, RucSender(blob)))
  ELSE UNCHANGED <<got, toMac>>

\* Data is output, whether or not it was output before, and acknowledged. What an
\* acknowledgement does to the sender is left to Settle.
UnpackRuc(n, i, blob) ==
  IF RucTarget(blob) = n /\ ~RucIsAck(blob)
  THEN /\ Output(n, i, Rest(blob, RucHeaderLength))
       /\ Publish(toMac, n,
                  RucHeader(Config[n][i].channel, TRUE, RucSeqno(blob), n, RucSender(blob)))
  ELSE UNCHANGED <<got, toMac>>

\* rime_stack_impl::unpack: the first connection that matches gets the message.
Unpack(n) ==
  /\ n \notin rimeDone
  /\ toRime[n] # << >>
  /\ toRime' = [toRime EXCEPT ![n] = Tail(@)]
  /\ LET blob == Head(toRime[n])
         S == MatchingConns(n, blob)
         i == FirstOf(S)
     IN \/ S = {} /\ UNCHANGED <<got, toMac>>
        \/ /\ S # {}
           /\ CASE Config[n][i].kind = "bc"  -> UnpackBc(n, i, blob)
                [] Config[n][i].kind = "uc"  -> UnpackUc(n, i, blob)
                [] Config[n][i].kind = "ruc" -> UnpackRuc(n, i, blob)
  /\ UNCHANGED <<rimeVars, heard, macDone, msgs, missed>>

-----------------------------------------------------------------------------
RimeStack(n) ==
  \/ \E i \in Conns(n, "bc") : PackBc(n, i)
  \/ \E i \in Conns(n, "uc"), d \in Targets \ {n} : PackUc(n, i, d)
  \/ \E i \in Conns(n, "ruc"), d \in Targets \ {n} : PackRuc(n, i, d)
  \/ PackEof(n)
  \/ Unpack(n)

StubbornSender(n) == \E i \in Conns(n, "ruc") : SendHeld(n, i) \/ Settle(n, i)

Mac(n) == MacSend(n) \/ MacEof(n) \/ MacReceive(n)

Next == \E n \in Node : RimeStack(n) \/ StubbornSender(n) \/ Mac(n)

Spec == Init /\ [][Next]_vars

-----------------------------------------------------------------------------
(***************************************************************************)
(* Correctness.                                                            *)
(***************************************************************************)

MsgIds == DOMAIN msgs
In(m, queue) == \E j \in DOMAIN queue : queue[j] = m
Blob == Seq(Byte)

\* Every queue holds sequences of bytes, every counter is in range.
TypeOK ==
  /\ \A n \in Node :
       /\ \A i \in DOMAIN Config[n] :
            /\ sendSeq[n][i] \in 0 .. (SeqMod - 1)
            /\ held[n][i] \in Seq(Blob)
            /\ tries[n][i] \in 0 .. MaxTries
       /\ toMac[n] \in Seq(Blob) /\ toRime[n] \in Seq(Blob)
       /\ heard[n] \in Seq([blob : Blob, ok : BOOLEAN])
       /\ got[n] \in Seq([conn : [kind : Kinds, channel : Channel], payload : Blob])
  /\ rimeDone \subseteq Node /\ macDone \subseteq Node
  /\ msgs \in Seq([from : Node, conn : [kind : Kinds, channel : Channel],
                   to : Address, seqno : 0 .. (SeqMod - 1)])
  /\ missed \subseteq Node \X Byte

\* A message is output only at nodes it was meant for, on a connection of the kind
\* and channel it was sent on, and with the payload it was sent with (make_msgbuf and
\* unpack of the three kinds, and the dispatch of rime_stack_impl::unpack).
MeantFor(n, k, conn) ==
  /\ msgs[k].conn = conn /\ msgs[k].from # n
  /\ conn.kind # "bc" => msgs[k].to = n

NoMisdelivery ==
  \A n \in Node : \A j \in DOMAIN got[n] :
    \E k \in MsgIds : got[n][j].payload = <<k>> /\ MeantFor(n, k, got[n][j].conn)

\* Of two messages of one node on one connection the one submitted first is output
\* first; only a reliable connection outputs a message twice, and then before any
\* later one (the queues of mac and rime_stack, and the stubborn sender's).
SameFlow(n, i, j) ==
  /\ got[n][i].conn = got[n][j].conn
  /\ msgs[got[n][i].payload[1]].from = msgs[got[n][j].payload[1]].from

InOrder ==
  \A n \in Node : \A i, j \in DOMAIN got[n] :
    i < j /\ SameFlow(n, i, j) =>
      \/ got[n][i].payload[1] < got[n][j].payload[1]
      \/ got[n][i].conn.kind = "ruc" /\ got[n][i].payload = got[n][j].payload

\* Only the target of a message acknowledges it, and only after outputting it: an
\* acknowledgement on its way from n to m answers a message m sent to n
\* (ruc_connection::unpack, through the header's bit fields).
EarnedAck(blob) ==
  IsAck(blob) =>
    \E k \in MsgIds :
      /\ msgs[k].conn.kind = "ruc" /\ msgs[k].seqno = RucSeqno(blob)
      /\ msgs[k].from = RucTarget(blob) /\ msgs[k].to = RucSender(blob)
      /\ msgs[k].to \in Node
      /\ \E j \in DOMAIN got[msgs[k].to] : got[msgs[k].to][j].payload = <<k>>

AcksAreEarned ==
  \A n \in Node :
    /\ \A j \in DOMAIN toMac[n] : EarnedAck(toMac[n][j])
    /\ \A j \in DOMAIN heard[n] : EarnedAck(heard[n][j].blob)
    /\ \A j \in DOMAIN toRime[n] : EarnedAck(toRime[n][j])

\* The bytes of message k, as they were made when it was packed.
BlobOf(k) ==
  LET m == msgs[k]
  IN (CASE m.conn.kind = "bc"  -> BcHeader(m.conn.channel, m.from)
        [] m.conn.kind = "uc"  -> UcHeader(m.conn.channel, m.from, m.to)
        [] m.conn.kind = "ruc" -> RucHeader(m.conn.channel, FALSE, m.seqno, m.from, m.to))
       \o <<k>>

Unsettled(k) == \E i \in Conns(msgs[k].from, "ruc") : In(BlobOf(k), held[msgs[k].from][i])

\* Message k is output at n, or waits in a queue on its way to n, or the air kept it
\* from n.
AccountedFor(n, k) ==
  \/ \E j \in DOMAIN got[n] : got[n][j].payload = <<k>>
  \/ Unsettled(k) \/ In(BlobOf(k), toMac[msgs[k].from])
  \/ In([blob |-> BlobOf(k), ok |-> TRUE], heard[n]) \/ In(BlobOf(k), toRime[n])
  \/ <<n, k>> \in missed

Expects(n, k) == \E i \in DOMAIN Config[n] : MeantFor(n, k, Config[n][i])

\* No message is lost inside the nodes: what the air does not take is output or still
\* queued (mac's app_in and mac_in, rime_stack's dispatch and the target tests). Of
\* channels above 255 see EveryChannelWorks.
NothingLostInside ==
  \A k \in MsgIds, n \in Node :
    Expects(n, k) /\ msgs[k].conn.channel < 256 => AccountedFor(n, k)

\* The same on every channel number a connection can be made with: make_msgbuf
\* writes sixteen bits of it, and "channel has to be in range of [1-65535]"
\* (contiki/sdr_shell.c).
EveryChannelWorks ==
  \A k \in MsgIds, n \in Node : Expects(n, k) => AccountedFor(n, k)

\* When the MAC of a node ends, all the broadcasts and unicasts packed there were
\* sent: PMT_EOF follows them through the port, and nothing is packed after it
\* (pack(PMT_EOF), set_done, mac's app_in).
FlushedAtEof ==
  \A n \in macDone : \A k \in MsgIds :
    msgs[k].from = n /\ msgs[k].conn.kind # "ruc" => ~In(BlobOf(k), toMac[n])
=============================================================================
