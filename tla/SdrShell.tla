------------------------------ MODULE SdrShell ------------------------------
(***************************************************************************)
(* contiki/sdr_shell.c, the firmware of a sensor mote on the other side of *)
(* the air: shell commands that open, close and use connections of the     *)
(* three kinds. The entries of a kind come from a pool (MEMB) and hang in  *)
(* a list in the order they were opened.                                   *)
(*                                                                         *)
(* Contiki runs one process at a time and none is preempted: a command is  *)
(* one step, except that the search of a close command is a loop of its    *)
(* own. The library (lists, pools, Rime) is external; of Rime only this is *)
(* used: a connection is open or not, and a reliable one that is sending   *)
(* takes no second packet.                                                 *)
(***************************************************************************)
EXTENDS Integers, Sequences, FiniteSets, Functions

CONSTANTS
  Channel,     \* the channels commands are given, a subset of 1 .. 65535
  PoolSize,    \* entries of a pool (10)
  MaxOpened    \* bound: opens reported and not closed

ASSUME ShellAssumption ==
  Channel \subseteq 1 .. 65535 /\ PoolSize \in Nat \ {0} /\ MaxOpened \in Nat

Kinds == {"bc", "uc", "ruc"}
Slots == 1 .. PoolSize

Free == << >>
Dead == <<"dead">>

VARIABLES
  list,      \* list[k]: the entries of a list, records of slot and channel
  used,      \* used[k]: the slots the pool has given away
  open,      \* open[k]: the slots whose connection Rime has open
  sending,   \* the slots of runicast_mem whose connection repeats a packet
  said,      \* the outcome of the last command: its report, kind and channel; or
             \* <<"spam">>, <<"button">> after a broadcast of these processes
  cpu,       \* Free, Dead, or the search of a close: <<kind, channel>>
  \* history
  opened,    \* opened[<<k, c>>]: opens reported to the user, minus closes reported
  lied       \* lied[<<k, c>>]: opens reported when the pool was used up

vars == <<list, used, open, sending, said, cpu, opened, lied>>

Report(r, k, c) == said' = <<r, k, c>>

PerKind(x) == [k \in Kinds |-> x]
Never == [kc \in Kinds \X Channel |-> 0]

\* shell_sdr_init().
Init ==
  /\ list = PerKind(<< >>) /\ used = PerKind({}) /\ open = PerKind({})
  /\ sending = {} /\ said = << >> /\ cpu = Free
  /\ opened = Never /\ lied = Never

Count(counter, k, c, d) == counter' = [counter EXCEPT ![<<k, c>>] = @ + d]

-----------------------------------------------------------------------------
(***************************************************************************)
(* Open.                                                                   *)
(***************************************************************************)

\* memb_alloc() finds an entry; it is linked last, and its connection opened.
OpenEntry(k, c) ==
  /\ cpu = Free /\ FoldFunction(+, 0, opened) < MaxOpened
  /\ \E s \in Slots \ used[k] :
       /\ \A r \in Slots \ used[k] : s <= r
       /\ used' = [used EXCEPT ![k] = @ \cup {s}]
       /\ list' = [list EXCEPT ![k] = Append(@, [slot |-> s, channel |-> c])]
       /\ open' = [open EXCEPT ![k] = @ \cup {s}]
  /\ Count(opened, k, c, 1) /\ Report("opened", k, c)
  /\ UNCHANGED <<sending, cpu, lied>>

\* The pool is used up, and memb_alloc() returns NULL. Nothing tests it: the entry is
\* written to address 0. The mote may stop working, or report another connection.
OpenNull(k, c) ==
  /\ cpu = Free /\ FoldFunction(+, 0, opened) < MaxOpened
  /\ used[k] = Slots
  /\ \/ /\ cpu' = Dead
        /\ UNCHANGED <<said, opened, lied>>
     \/ /\ Count(opened, k, c, 1) /\ Count(lied, k, c, 1)
        /\ Report("opened", k, c)
        /\ UNCHANGED cpu
  /\ UNCHANGED <<list, used, open, sending>>

Open(k, c) == OpenEntry(k, c) \/ OpenNull(k, c)

BcOpen(c) == Open("bc", c)
UcOpen(c) == Open("uc", c)
RucOpen(c) == Open("ruc", c)

-----------------------------------------------------------------------------
(***************************************************************************)
(* Close: the search begins at the head of the list.                       *)
(***************************************************************************)

Close(k, c) ==
  /\ cpu = Free
  /\ cpu' = <<k, c>>
  /\ UNCHANGED <<list, used, open, sending, said, opened, lied>>

BcClose(c) == Close("bc", c)
UcClose(c) == Close("uc", c)
RucClose(c) == Close("ruc", c)

Searching(k, c) == cpu = <<k, c>>

\* Mutant: a close is counted that closed nothing.
AtEndCounted(k, c) ==
  /\ Searching(k, c) /\ list[k] = << >>
  /\ cpu' = Free /\ Report("closed", k, c)
  /\ Count(opened, k, c, -1)
  /\ UNCHANGED <<list, used, open, sending, lied>>

\* e is NULL: "channel not open".
AtEnd(k, c) ==
  /\ Searching(k, c) /\ list[k] = << >>
  /\ cpu' = Free /\ Report("not open", k, c)
  /\ UNCHANGED <<list, used, open, sending, opened, lied>>

\* Mutant: the entry is not given back.
RemoveOnly(k, c) ==
  /\ Searching(k, c)
  /\ list[k] # << >> /\ Head(list[k]).channel = c
  /\ list' = [list EXCEPT ![k] = Tail(@)]
  /\ open' = [open EXCEPT ![k] = @ \ {Head(list[k]).slot}]
  /\ sending' = (IF k = "ruc" THEN sending \ {Head(list[k]).slot} ELSE sending)
  /\ cpu' = Free
  /\ Count(opened, k, c, -1) /\ Report("closed", k, c)
  /\ UNCHANGED <<used, lied>>

\* e has the channel: it is closed, unlinked and given back.
Remove(k, c) ==
  /\ Searching(k, c)
  /\ list[k] # << >> /\ Head(list[k]).channel = c
  /\ LET s == Head(list[k]).slot
     IN /\ list' = [list EXCEPT ![k] = Tail(@)]
        /\ used' = [used EXCEPT ![k] = @ \ {s}]
        /\ open' = [open EXCEPT ![k] = @ \ {s}]
        /\ sending' = (IF k = "ruc" THEN sending \ {s} ELSE sending)
  /\ cpu' = Free
  /\ Count(opened, k, c, -1) /\ Report("closed", k, c)
  /\ UNCHANGED lied

\* e has another channel: the loop goes on with the same e, and no process of the
\* mote runs again.
TryAgain(k, c) ==
  /\ Searching(k, c)
  /\ list[k] # << >> /\ Head(list[k]).channel # c
  /\ UNCHANGED vars

-----------------------------------------------------------------------------
(***************************************************************************)
(* Send: the first entry of the channel is used.                           *)
(***************************************************************************)

HasChannel(k, c) == {i \in DOMAIN list[k] : list[k][i].channel = c}
FirstSlot(k, c) ==
  list[k][CHOOSE i \in HasChannel(k, c) : \A j \in HasChannel(k, c) : i <= j].slot

\* Mutant: the list is searched from its second entry.
ReportSkippingHead(k, c) ==
  /\ cpu = Free
  /\ Report(IF HasChannel(k, c) \ {1} # {} THEN "sent" ELSE "not open", k, c)

ReportSend(k, c) ==
  /\ cpu = Free
  /\ Report(IF HasChannel(k, c) # {} THEN "sent" ELSE "not open", k, c)

\* What broadcast_send() and unicast_send() begin is over when they return.
BcSend(c) ==
  ReportSend("bc", c) /\ UNCHANGED <<list, used, open, sending, cpu, opened, lied>>

\* The target address is of no interest here; an ill-formed one is refused.
UcSend(c) ==
  ReportSend("uc", c) /\ UNCHANGED <<list, used, open, sending, cpu, opened, lied>>

\* runicast_send(.., 3) begins unless the connection is sending; "sent" is reported
\* in either case.
RucSend(c) ==
  /\ ReportSend("ruc", c)
  /\ sending' = (IF HasChannel("ruc", c) # {}
                 THEN sending \cup {FirstSlot("ruc", c)} ELSE sending)
  /\ UNCHANGED <<list, used, open, cpu, opened, lied>>

\* runicast_sent(), or the retransmissions are used up.
RunicastSent ==
  /\ cpu = Free
  /\ \E s \in sending : sending' = sending \ {s}
  /\ UNCHANGED <<list, used, open, said, cpu, opened, lied>>

\* The timer of spam_process has expired: it broadcasts on a connection of its own.
Spam ==
  /\ cpu = Free
  /\ said' = <<"spam">>
  /\ UNCHANGED <<list, used, open, sending, cpu, opened, lied>>

\* The button was pressed.
Button ==
  /\ cpu = Free
  /\ said' = <<"button">>
  /\ UNCHANGED <<list, used, open, sending, cpu, opened, lied>>

-----------------------------------------------------------------------------
SearchStep == \E k \in Kinds, c \in Channel : AtEnd(k, c) \/ Remove(k, c) \/ TryAgain(k, c)

Command ==
  \E c \in Channel :
    \/ BcOpen(c) \/ BcClose(c) \/ BcSend(c)
    \/ UcOpen(c) \/ UcClose(c) \/ UcSend(c)
    \/ RucOpen(c) \/ RucClose(c) \/ RucSend(c)

Next == Command \/ SearchStep \/ RunicastSent \/ Spam \/ Button

\* The processor goes on with the command it runs. Nobody has to type one.
Spec == Init /\ [][Next]_vars /\ WF_vars(SearchStep)

-----------------------------------------------------------------------------
(***************************************************************************)
(* Correctness.                                                            *)
(***************************************************************************)

Linked(k) == {list[k][i].slot : i \in DOMAIN list[k]}
IsSearch == cpu \notin {Free, Dead}

TypeOK ==
  /\ \A k \in Kinds :
       /\ list[k] \in Seq([slot : Slots, channel : Channel])
       /\ used[k] \subseteq Slots
       /\ \A c \in Channel : opened[<<k, c>>] \in Nat /\ lied[<<k, c>>] \in Nat
  /\ IsSearch => cpu \in Kinds \X Channel

\* No entry is lost, shared or still in use after it was given back: those the pool
\* has given away are the linked ones, each once, and these are the connections Rime
\* has open; what is being sent is sent on one of them (open, close and send of all
\* kinds, with pools that may be used up).
EntriesAccountedFor ==
  \A k \in Kinds :
    /\ used[k] = Linked(k) /\ open[k] = Linked(k)
    /\ Len(list[k]) = Cardinality(Linked(k))
    /\ sending \subseteq open["ruc"]

\* What the shell told the user is true: as many connections of a channel are open
\* as were reported opened and not closed, and a message is reported sent exactly when
\* there is one. The exception is an open reported when the pool was used up.
Believed(k, c) == opened[<<k, c>>] - lied[<<k, c>>]

ReportsAreTrue ==
  \A k \in Kinds, c \in Channel :
    /\ Believed(k, c) = Cardinality(HasChannel(k, c))
    /\ said = <<"sent", k, c>> => Believed(k, c) > 0
    /\ said = <<"not open", k, c>> => Believed(k, c) = 0

\* A close command ends, having closed a connection of the channel or found none, as the
\* help texts of the three commands have it: "close broadcast connection on specified
\* channel". The code does not keep this: the search never leaves an entry of another
\* channel (shell_bc_close_process, shell_uc_close_process, shell_ruc_close_process).
CloseReturns == \A k \in Kinds, c \in Channel : Searching(k, c) ~> ~Searching(k, c)
=============================================================================
