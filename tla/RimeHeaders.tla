---------------------------- MODULE RimeHeaders ----------------------------
(***************************************************************************)
(* The headers the three kinds of Rime connection put before a payload,    *)
(* as sequences of bytes: buf[i] of the code is buf[i + 1] here. Channel   *)
(* numbers are 16-bit, a RIME address is a pair of bytes. The code joins   *)
(* bit fields with |=; the fields do not overlap, so they are added here.  *)
(***************************************************************************)
EXTENDS Integers, Sequences

Byte == 0 .. 255
Channel == 0 .. 65535
Address == Byte \X Byte

BcHeaderLength == 4
UcHeaderLength == 6
RucHeaderLength == 7

\* channel & 0xff and (channel >> 8) & 0xff.
ChannelBytes(channel) == <<channel % 256, (channel \div 256) % 256>>

\* bc_connection::make_msgbuf.
BcHeader(channel, src) == ChannelBytes(channel) \o <<src[1], src[2]>>

\* uc_connection::make_msgbuf.
UcHeader(channel, src, dest) ==
  ChannelBytes(channel) \o <<dest[1], dest[2], src[1], src[2]>>

\* Mutant: a byte is moved, but not cut to eight bits.
LowThreeUncut(b) == b * 32

\* A byte that straddles two bytes: b >> (1 + seqno_bits) at the bottom of the
\* first, (b << (7 - seqno_bits)) & 0xff at the top of the second.
HighFive(b) == b \div 8
LowThree(b) == (b * 32) % 256

\* ruc_connection::make_msgbuf: one bit of acknowledgement flag and seqno_bits = 2
\* bits of sequence number, then both addresses, three bits out of step.
RucHeader(channel, ack, seqno, src, dest) ==
  ChannelBytes(channel) \o
  << (IF ack THEN 128 ELSE 0) + seqno * 32 + HighFive(dest[1]),
     LowThree(dest[1]) + HighFive(dest[2]),
     LowThree(dest[2]) + HighFive(src[1]),
     LowThree(src[1]) + HighFive(src[2]),
     LowThree(src[2]) >>

\* Mutant: the source is read for the target.
UcSender(buf) == <<buf[5], buf[6]>>

\* uc_connection::unpack.
UcTarget(buf) == <<buf[3], buf[4]>>

\* ruc_connection::unpack: eight bits across a byte boundary.
Joined(high, low) == ((high * 8) % 256) + (low \div 32)
RucTarget(buf) == <<Joined(buf[3], buf[4]), Joined(buf[4], buf[5])>>
RucSender(buf) == <<Joined(buf[5], buf[6]), Joined(buf[6], buf[7])>>
RucIsAck(buf)  == buf[3] >= 128
RucSeqno(buf)  == (buf[3] % 128) \div 32

Rest(buf, headerLength) == SubSeq(buf, headerLength + 1, Len(buf))

=============================================================================
