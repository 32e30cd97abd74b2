--------------------------- MODULE SdrShellProofs ---------------------------
(***************************************************************************)
(* Theorems about SdrShell, for any channels and any size of the pools.    *)
(* Fairness plays no part in them.                                         *)
(***************************************************************************)
EXTENDS SdrShell, Lemmas, FiniteSetTheorems, SequenceTheorems

-----------------------------------------------------------------------------
(***************************************************************************)
(* Lists of entries: what linking an entry last and unlinking the first    *)
(* one does to the slots in a list and to the entries of a channel.        *)
(***************************************************************************)

Entry == [slot : Slots, channel : Channel]
SlotsOf(l) == {l[i].slot : i \in DOMAIN l}
WithChannel(l, c) == {i \in DOMAIN l : l[i].channel = c}
Distinct(l) == \A i, j \in DOMAIN l : l[i].slot = l[j].slot => i = j

\* A list in which no slot comes twice has as many entries as slots.
LEMMA SlotCount ==
  ASSUME NEW l \in Seq(Entry), Distinct(l)
  PROVE  Cardinality(SlotsOf(l)) = Len(l)
<1> DEFINE f == [i \in 1 .. Len(l) |-> l[i].slot]
<1>1. Len(l) \in Nat /\ DOMAIN l = 1 .. Len(l)
  BY LenProperties
<1>2. /\ f \in [1 .. Len(l) -> SlotsOf(l)]
      /\ \A s \in SlotsOf(l) : \E i \in 1 .. Len(l) : f[i] = s
      /\ \A i, j \in 1 .. Len(l) : f[i] = f[j] => i = j
  BY <1>1 DEF SlotsOf, Distinct
<1> HIDE DEF f
<1>3. ExistsBijection(1 .. Len(l), SlotsOf(l))
  BY <1>2 DEF ExistsBijection, Bijection, Injection, Surjection, IsInjective
<1>4. IsFiniteSet(1 .. Len(l)) /\ Cardinality(1 .. Len(l)) = Len(l)
  BY <1>1, FS_Interval
<1>5. QED
  BY <1>3, <1>4, FS_Bijection

\* The entries of a channel are finitely many.
LEMMA WithChannelFinite ==
  ASSUME NEW l \in Seq(Entry), NEW c
  PROVE  /\ IsFiniteSet(WithChannel(l, c))
         /\ Cardinality(WithChannel(l, c)) \in Nat
         /\ Cardinality(WithChannel(l, c)) = 0 <=> WithChannel(l, c) = {}
<1>1. Len(l) \in Nat /\ DOMAIN l = 1 .. Len(l)
  BY LenProperties
<1>2. IsFiniteSet(1 .. Len(l))
  BY <1>1, FS_Interval
<1>3. WithChannel(l, c) \in SUBSET (1 .. Len(l))
  BY <1>1 DEF WithChannel
<1>4. IsFiniteSet(WithChannel(l, c))
  BY <1>2, <1>3, FS_Subset
<1>5. QED
  BY <1>4, FS_CardinalityType, FS_EmptySet

LEMMA LinkedLast ==
  ASSUME NEW l \in Seq(Entry), NEW e \in Entry, NEW m, m = Append(l, e)
  PROVE  /\ m \in Seq(Entry)
         /\ SlotsOf(m) = SlotsOf(l) \cup {e.slot}
         /\ Distinct(l) /\ e.slot \notin SlotsOf(l) => Distinct(m)
<1>1. Len(l) \in Nat /\ DOMAIN l = 1 .. Len(l)
  BY LenProperties
<1>2. /\ m \in Seq(Entry) /\ Len(m) = Len(l) + 1
      /\ \A i \in 1 .. Len(l) : m[i] = l[i]
      /\ m[Len(l) + 1] = e
  BY AppendProperties
<1>3. DOMAIN m = 1 .. (Len(l) + 1)
  BY <1>2, LenProperties
<1>4. SlotsOf(m) = SlotsOf(l) \cup {e.slot}
  <2>1. SlotsOf(m) \subseteq SlotsOf(l) \cup {e.slot}
    BY <1>1, <1>2, <1>3 DEF SlotsOf
  <2>2. ASSUME NEW s \in SlotsOf(l) PROVE s \in SlotsOf(m)
    <3>1. PICK i \in 1 .. Len(l) : s = l[i].slot
      BY <1>1 DEF SlotsOf
    <3>2. i \in DOMAIN m /\ s = m[i].slot
      BY <1>1, <1>2, <1>3, <3>1
    <3>3. QED
      BY <3>2 DEF SlotsOf
  <2>3. e.slot \in SlotsOf(m)
    <3>1. Len(l) + 1 \in DOMAIN m
      BY <1>1, <1>3
    <3>2. QED
      BY <1>2, <3>1 DEF SlotsOf
  <2>4. QED
    BY <2>1, <2>2, <2>3
<1>5. ASSUME Distinct(l), e.slot \notin SlotsOf(l)
      PROVE  Distinct(m)
  BY <1>1, <1>2, <1>3, <1>5 DEF Distinct, SlotsOf
<1>6. QED
  BY <1>2, <1>4, <1>5

LEMMA CountedLast ==
  ASSUME NEW l \in Seq(Entry), NEW e \in Entry, NEW m, m = Append(l, e), NEW c
  PROVE  /\ e.channel = c => Cardinality(WithChannel(m, c)) = Cardinality(WithChannel(l, c)) + 1
         /\ e.channel # c => Cardinality(WithChannel(m, c)) = Cardinality(WithChannel(l, c))
<1>1. Len(l) \in Nat /\ DOMAIN l = 1 .. Len(l)
  BY LenProperties
<1>2. /\ m \in Seq(Entry) /\ Len(m) = Len(l) + 1
      /\ \A i \in 1 .. Len(l) : m[i] = l[i]
      /\ m[Len(l) + 1] = e
  BY AppendProperties
<1>3. DOMAIN m = 1 .. (Len(l) + 1)
  BY <1>2, LenProperties
<1>4. /\ e.channel = c => WithChannel(m, c) = WithChannel(l, c) \cup {Len(l) + 1}
      /\ e.channel # c => WithChannel(m, c) = WithChannel(l, c)
  BY <1>1, <1>2, <1>3 DEF WithChannel
<1>5. Len(l) + 1 \notin WithChannel(l, c)
  BY <1>1 DEF WithChannel
<1>6. IsFiniteSet(WithChannel(l, c))
  BY WithChannelFinite
<1>7. QED
  BY <1>4, <1>5, <1>6, FS_AddElement

LEMMA UnlinkedFirst ==
  ASSUME NEW l \in Seq(Entry), l # << >>, NEW m, m = Tail(l)
  PROVE  /\ m \in Seq(Entry) /\ Head(l) \in Entry
         /\ Head(l).slot \in SlotsOf(l)
         /\ Distinct(l) => Distinct(m) /\ SlotsOf(m) = SlotsOf(l) \ {Head(l).slot}
<1>1. Len(l) \in Nat \ {0} /\ DOMAIN l = 1 .. Len(l)
  BY LenProperties, EmptySeq
<1>2. /\ m \in Seq(Entry) /\ Len(m) = Len(l) - 1
      /\ \A i \in 1 .. Len(m) : m[i] = l[i + 1]
      /\ Head(l) = l[1] /\ Head(l) \in Entry
  BY <1>1, HeadTailProperties
<1>3. DOMAIN m = 1 .. (Len(l) - 1)
  BY <1>2, LenProperties
<1>4. Head(l).slot \in SlotsOf(l)
  BY <1>1, <1>2 DEF SlotsOf
<1>5. ASSUME Distinct(l)
      PROVE  Distinct(m) /\ SlotsOf(m) = SlotsOf(l) \ {Head(l).slot}
  <2>1. Distinct(m)
    <3>1. SUFFICES ASSUME NEW i \in 1 .. (Len(l) - 1), NEW j \in 1 .. (Len(l) - 1),
                          m[i].slot = m[j].slot
                   PROVE  i = j
      BY <1>3 DEF Distinct
    <3>2. i + 1 \in DOMAIN l /\ j + 1 \in DOMAIN l /\ l[i + 1].slot = l[j + 1].slot
      BY <1>1, <1>2, <3>1
    <3>3. i + 1 = j + 1
      BY <1>5, <3>2 DEF Distinct
    <3>4. QED
      BY <3>3
  <2>2. ASSUME NEW s \in SlotsOf(m)
        PROVE  s \in SlotsOf(l) \ {Head(l).slot}
    <3>1. PICK i \in 1 .. (Len(l) - 1) : s = m[i].slot
      BY <1>3 DEF SlotsOf
    <3>2. i + 1 \in DOMAIN l /\ 1 \in DOMAIN l /\ i + 1 # 1 /\ s = l[i + 1].slot
      BY <1>1, <1>2, <3>1
    <3>3. s # l[1].slot
      BY <1>5, <3>2 DEF Distinct
    <3>4. QED
      BY <1>2, <3>2, <3>3 DEF SlotsOf
  <2>3. ASSUME NEW s \in SlotsOf(l) \ {Head(l).slot}
        PROVE  s \in SlotsOf(m)
    <3>1. PICK i \in 1 .. Len(l) : s = l[i].slot
      BY <1>1 DEF SlotsOf
    <3>2. i # 1
      BY <1>2, <3>1
    <3>3. i - 1 \in 1 .. (Len(l) - 1) /\ (i - 1) + 1 = i
      BY <1>1, <3>1, <3>2
    <3>4. m[i - 1].slot = s
      BY <1>2, <3>1, <3>3
    <3>5. QED
      BY <1>3, <3>3, <3>4 DEF SlotsOf
  <2>4. QED
    BY <2>1, <2>2, <2>3
<1>6. QED
  BY <1>2, <1>4, <1>5

LEMMA CountedFirst ==
  ASSUME NEW l \in Seq(Entry), l # << >>, NEW m, m = Tail(l), NEW c
  PROVE  /\ Head(l).channel = c => Cardinality(WithChannel(m, c)) = Cardinality(WithChannel(l, c)) - 1
         /\ Head(l).channel # c => Cardinality(WithChannel(m, c)) = Cardinality(WithChannel(l, c))
<1> DEFINE later == WithChannel(l, c) \ {1}
           f == [i \in WithChannel(m, c) |-> i + 1]
<1>1. Len(l) \in Nat \ {0} /\ DOMAIN l = 1 .. Len(l)
  BY LenProperties, EmptySeq
<1>2. /\ m \in Seq(Entry) /\ Len(m) = Len(l) - 1
      /\ \A i \in 1 .. Len(m) : m[i] = l[i + 1]
      /\ Head(l) = l[1]
  BY <1>1, HeadTailProperties
<1>3. DOMAIN m = 1 .. (Len(l) - 1)
  BY <1>2, LenProperties
<1>4. /\ f \in [WithChannel(m, c) -> later]
      /\ \A i, j \in WithChannel(m, c) : f[i] = f[j] => i = j
  BY <1>1, <1>2, <1>3 DEF WithChannel
<1>5. ASSUME NEW j \in later PROVE \E i \in WithChannel(m, c) : f[i] = j
  <2>1. j \in 1 .. Len(l) /\ j # 1 /\ l[j].channel = c
    BY <1>1 DEF WithChannel
  <2>2. j - 1 \in 1 .. (Len(l) - 1) /\ (j - 1) + 1 = j
    BY <1>1, <2>1
  <2>3. m[j - 1].channel = c
    BY <1>2, <2>1, <2>2
  <2>4. j - 1 \in WithChannel(m, c)
    BY <1>3, <2>2, <2>3 DEF WithChannel
  <2>5. f[j - 1] = j
    BY <2>2, <2>4
  <2>6. QED
    BY <2>4, <2>5
<1> HIDE DEF f, later
<1>6. ExistsBijection(WithChannel(m, c), later)
  BY <1>4, <1>5 DEF ExistsBijection, Bijection, Injection, Surjection, IsInjective
<1>7. Cardinality(later) = Cardinality(WithChannel(m, c))
  BY <1>2, <1>6, WithChannelFinite, FS_Bijection
<1>8. 1 \in WithChannel(l, c) <=> Head(l).channel = c
  BY <1>1, <1>2 DEF WithChannel
<1>9. IsFiniteSet(WithChannel(l, c))
  BY WithChannelFinite
<1>10. QED
  BY <1>7, <1>8, <1>9, FS_RemoveElement DEF later

-----------------------------------------------------------------------------
(***************************************************************************)
(* The inductive invariant.                                                *)
(***************************************************************************)

ValuesInv ==
  /\ list \in [Kinds -> Seq(Entry)]
  /\ used \in [Kinds -> SUBSET Slots] /\ open \in [Kinds -> SUBSET Slots]
  /\ cpu \in {Free, Dead} \cup (Kinds \X Channel)
  /\ opened \in [Kinds \X Channel -> Int] /\ lied \in [Kinds \X Channel -> Nat]

\* Were the slots of a list not distinct, closing an entry could leave another with its
\* slot: this is what the properties do not say.
LinkInv ==
  /\ \A k \in Kinds : /\ used[k] = SlotsOf(list[k]) /\ open[k] = SlotsOf(list[k])
                      /\ Distinct(list[k])
  /\ sending \subseteq open["ruc"]

CountInv ==
  \A k \in Kinds, c \in Channel :
    Believed(k, c) = Cardinality(WithChannel(list[k], c))

SaidInv ==
  \A k \in Kinds, c \in Channel :
    /\ said = <<"sent", k, c>> => WithChannel(list[k], c) # {}
    /\ said = <<"not open", k, c>> => WithChannel(list[k], c) = {}

IInv == ValuesInv /\ LinkInv /\ CountInv /\ SaidInv

-----------------------------------------------------------------------------
\* What a count changes.
LEMMA Counting ==
  ASSUME NEW f \in [Kinds \X Channel -> Int], NEW k \in Kinds, NEW c \in Channel,
         NEW d \in Int, NEW g, g = [f EXCEPT ![<<k, c>>] = @ + d]
  PROVE  /\ g \in [Kinds \X Channel -> Int]
         /\ g[<<k, c>>] = f[<<k, c>>] + d
         /\ \A j \in Kinds, b \in Channel : <<j, b>> # <<k, c>> => g[<<j, b>>] = f[<<j, b>>]
OBVIOUS

\* A report about one channel says nothing of another, and the report of an open or a
\* close is neither of the two that a send makes.
LEMMA Reporting ==
  ASSUME NEW r, NEW k, NEW c, said' = <<r, k, c>>
  PROVE  \A s, j, b : said' = <<s, j, b>> => s = r /\ j = k /\ b = c
OBVIOUS

LEMMA InitInv == ASSUME Init PROVE IInv
<1>1. /\ << >> \in Seq(Entry) /\ DOMAIN << >> = {}
  BY EmptySeq
<1>2. /\ SlotsOf(<< >>) = {} /\ Distinct(<< >>)
      /\ \A c : WithChannel(<< >>, c) = {}
  BY <1>1 DEF SlotsOf, Distinct, WithChannel
<1>3. \A k \in Kinds : list[k] = << >> /\ used[k] = {} /\ open[k] = {}
  BY DEF Init, PerKind
<1>4. ValuesInv
  BY <1>1 DEF ValuesInv, Init, PerKind, Never
<1>5. LinkInv
  BY <1>2, <1>3 DEF LinkInv, Init, Kinds
<1>6. CountInv
  <2>1. SUFFICES ASSUME NEW k \in Kinds, NEW c \in Channel
                 PROVE  Believed(k, c) = Cardinality(WithChannel(list[k], c))
    BY DEF CountInv
  <2>2. opened[<<k, c>>] = 0 /\ lied[<<k, c>>] = 0
    BY DEF Init, Never
  <2>3. Cardinality(WithChannel(list[k], c)) = 0
    BY <1>2, <1>3, FS_EmptySet
  <2>4. QED
    BY <2>2, <2>3 DEF Believed
<1>7. SaidInv
  <2>1. \A r, k, c : said # <<r, k, c>>
    BY DEF Init
  <2>2. QED
    BY <2>1 DEF SaidInv
<1>8. QED
  BY <1>4, <1>5, <1>6, <1>7 DEF IInv


\* A step that neither links nor unlinks an entry and counts nothing.
LEMMA ListsKept ==
  ASSUME IInv, UNCHANGED <<list, used, open, opened, lied>>,
         sending' \subseteq open["ruc"],
         cpu' \in {Free, Dead} \cup (Kinds \X Channel)
  PROVE  ValuesInv' /\ LinkInv' /\ CountInv'
<1>1. ValuesInv'
  BY DEF IInv, ValuesInv
<1>2. LinkInv'
  BY DEF IInv, LinkInv
<1>3. CountInv'
  BY DEF IInv, CountInv, Believed
<1>4. QED
  BY <1>1, <1>2, <1>3

\* The least of the entries of a channel, which a send uses, is one of the list.
LEMMA FirstSlotLinked ==
  ASSUME ValuesInv, NEW k \in Kinds, NEW c, HasChannel(k, c) # {}
  PROVE  FirstSlot(k, c) \in SlotsOf(list[k])
<1>1. list[k] \in Seq(Entry)
  BY DEF ValuesInv
<1>2. HasChannel(k, c) \in SUBSET Nat
  BY <1>1, LenProperties DEF HasChannel
<1>3. \E i \in HasChannel(k, c) : \A j \in HasChannel(k, c) : i <= j
  BY <1>2, LeastElement
<1>4. (CHOOSE i \in HasChannel(k, c) : \A j \in HasChannel(k, c) : i <= j) \in DOMAIN list[k]
  BY <1>3 DEF HasChannel
<1>5. QED
  BY <1>4 DEF FirstSlot, SlotsOf

LEMMA OpenStep ==
  ASSUME IInv, NEW k \in Kinds, NEW c \in Channel, Open(k, c)
  PROVE  IInv'
<1>1. CASE OpenEntry(k, c)
  <2>1. PICK s \in Slots \ used[k] :
          /\ used' = [used EXCEPT ![k] = @ \cup {s}]
          /\ list' = [list EXCEPT ![k] = Append(@, [slot |-> s, channel |-> c])]
          /\ open' = [open EXCEPT ![k] = @ \cup {s}]
    BY <1>1 DEF OpenEntry
  <2> DEFINE e == [slot |-> s, channel |-> c]
  <2>2. /\ opened' = [opened EXCEPT ![<<k, c>>] = @ + 1]
        /\ UNCHANGED <<sending, cpu, lied>> /\ said' = <<"opened", k, c>>
    BY <1>1 DEF OpenEntry, Count, Report
  <2>3. /\ list[k] \in Seq(Entry) /\ e \in Entry
        /\ e.slot = s /\ e.channel = c
        /\ list'[k] = Append(list[k], e)
        /\ \A j \in Kinds : j # k => list'[j] = list[j]
    BY <2>1 DEF IInv, ValuesInv, Entry
  <2> HIDE DEF e
  <2>4. /\ list'[k] \in Seq(Entry)
        /\ SlotsOf(list'[k]) = SlotsOf(list[k]) \cup {s}
        /\ Distinct(list[k]) /\ s \notin SlotsOf(list[k]) => Distinct(list'[k])
    BY <2>3, LinkedLast
  <2>5. /\ opened' \in [Kinds \X Channel -> Int]
        /\ opened'[<<k, c>>] = opened[<<k, c>>] + 1
        /\ \A j \in Kinds, b \in Channel :
             <<j, b>> # <<k, c>> => opened'[<<j, b>>] = opened[<<j, b>>]
    BY <2>2, Counting DEF IInv, ValuesInv
  <2>6. ValuesInv'
    <3>1. list' \in [Kinds -> Seq(Entry)]
      BY <2>1, <2>3, <2>4 DEF IInv, ValuesInv
    <3>2. used' \in [Kinds -> SUBSET Slots] /\ open' \in [Kinds -> SUBSET Slots]
      BY <2>1 DEF IInv, ValuesInv
    <3>3. QED
      BY <2>2, <2>5, <3>1, <3>2 DEF IInv, ValuesInv
  <2>7. LinkInv'
    <3>1. /\ used'[k] = used[k] \cup {s} /\ open'[k] = open[k] \cup {s}
          /\ \A j \in Kinds : j # k => used'[j] = used[j] /\ open'[j] = open[j]
      BY <2>1 DEF IInv, ValuesInv
    <3>2. ASSUME NEW j \in Kinds
          PROVE  /\ used'[j] = SlotsOf(list'[j]) /\ open'[j] = SlotsOf(list'[j])
                 /\ Distinct(list'[j])
      BY <2>3, <2>4, <3>1 DEF IInv, LinkInv
    <3>3. sending' \subseteq open'["ruc"]
      BY <2>2, <3>1 DEF IInv, LinkInv, Kinds
    <3>4. QED
      BY <3>2, <3>3 DEF LinkInv
  <2>8. CountInv'
    <3>1. SUFFICES ASSUME NEW j \in Kinds, NEW b \in Channel
                   PROVE  Believed(j, b)' = Cardinality(WithChannel(list'[j], b))
      BY DEF CountInv
    <3>2. /\ Believed(j, b) = Cardinality(WithChannel(list[j], b))
          /\ opened[<<j, b>>] \in Int /\ lied[<<j, b>>] \in Int
      BY DEF IInv, CountInv, ValuesInv
    <3>3. CASE j = k /\ b = c
      <4>1. Cardinality(WithChannel(list'[j], b)) = Cardinality(WithChannel(list[j], b)) + 1
        BY <2>3, <3>3, CountedLast
      <4>2. QED
        BY <2>2, <2>5, <3>2, <3>3, <4>1 DEF Believed
    <3>4. CASE j = k /\ b # c
      <4>1. opened'[<<j, b>>] = opened[<<j, b>>]
        BY <2>5, <3>4
      <4>2. Cardinality(WithChannel(list'[j], b)) = Cardinality(WithChannel(list[j], b))
        BY <2>3, <3>4, CountedLast
      <4>3. QED
        BY <2>2, <3>2, <4>1, <4>2 DEF Believed
    <3>5. CASE j # k
      BY <2>2, <2>3, <2>5, <3>2, <3>5 DEF Believed
    <3>6. QED
      BY <3>3, <3>4, <3>5
  <2>9. SaidInv'
    BY <2>2, Reporting DEF SaidInv
  <2>10. QED
    BY <2>6, <2>7, <2>8, <2>9 DEF IInv
<1>2. CASE OpenNull(k, c)
  <2>1. UNCHANGED <<list, used, open, sending>>
    BY <1>2 DEF OpenNull
  <2>2. CASE cpu' = Dead /\ UNCHANGED <<said, opened, lied>>
    <3>1. ValuesInv' /\ LinkInv' /\ CountInv'
      BY <2>1, <2>2, ListsKept DEF IInv, LinkInv
    <3>2. SaidInv'
      BY <2>1, <2>2 DEF IInv, SaidInv
    <3>3. QED
      BY <3>1, <3>2 DEF IInv
  <2>3. CASE /\ Count(opened, k, c, 1) /\ Count(lied, k, c, 1)
             /\ Report("opened", k, c)
             /\ UNCHANGED cpu
    <3>1. /\ opened' \in [Kinds \X Channel -> Int]
          /\ opened'[<<k, c>>] = opened[<<k, c>>] + 1
          /\ \A j \in Kinds, b \in Channel :
               <<j, b>> # <<k, c>> => opened'[<<j, b>>] = opened[<<j, b>>]
      BY <2>3, Counting DEF IInv, ValuesInv, Count
    <3>2. /\ lied' \in [Kinds \X Channel -> Nat]
          /\ lied'[<<k, c>>] = lied[<<k, c>>] + 1
          /\ \A j \in Kinds, b \in Channel :
               <<j, b>> # <<k, c>> => lied'[<<j, b>>] = lied[<<j, b>>]
      BY <2>3 DEF IInv, ValuesInv, Count
    <3>3. ValuesInv'
      BY <2>1, <2>3, <3>1, <3>2 DEF IInv, ValuesInv
    <3>4. LinkInv'
      BY <2>1 DEF IInv, LinkInv
    <3>5. CountInv'
      <4>1. SUFFICES ASSUME NEW j \in Kinds, NEW b \in Channel
                     PROVE  Believed(j, b)' = Cardinality(WithChannel(list'[j], b))
        BY DEF CountInv
      <4>2. /\ Believed(j, b) = Cardinality(WithChannel(list[j], b))
            /\ opened[<<j, b>>] \in Int /\ lied[<<j, b>>] \in Int
        BY DEF IInv, CountInv, ValuesInv
      <4>3. Believed(j, b)' = Believed(j, b)
        <5>1. CASE <<j, b>> = <<k, c>>
          BY <3>1, <3>2, <4>2, <5>1 DEF Believed
        <5>2. CASE <<j, b>> # <<k, c>>
          BY <3>1, <3>2, <5>2 DEF Believed
        <5>3. QED
          BY <5>1, <5>2
      <4>4. QED
        BY <2>1, <4>2, <4>3
    <3>6. SaidInv'
      BY <2>3, Reporting DEF SaidInv, Report
    <3>7. QED
      BY <3>3, <3>4, <3>5, <3>6 DEF IInv
  <2>4. QED
    BY <1>2, <2>2, <2>3 DEF OpenNull
<1>3. QED
  BY <1>1, <1>2 DEF Open

\* A close begins, or finds that no connection of the kind is open.
LEMMA SearchStarts ==
  ASSUME IInv, NEW k \in Kinds, NEW c \in Channel, Close(k, c)
  PROVE  IInv'
<1>1. /\ UNCHANGED <<list, used, open, sending, said, opened, lied>>
      /\ cpu' \in Kinds \X Channel
  BY DEF Close
<1>2. ValuesInv' /\ LinkInv' /\ CountInv'
  BY <1>1, ListsKept DEF IInv, LinkInv
<1>3. SaidInv'
  BY <1>1 DEF IInv, SaidInv
<1>4. QED
  BY <1>2, <1>3 DEF IInv

LEMMA AtEndStep ==
  ASSUME IInv, NEW k \in Kinds, NEW c \in Channel, AtEnd(k, c)
  PROVE  IInv'
<1>1. /\ UNCHANGED <<list, used, open, sending, opened, lied>>
      /\ cpu' = Free /\ said' = <<"not open", k, c>> /\ list[k] = << >>
  BY DEF AtEnd, Report
<1>2. ValuesInv' /\ LinkInv' /\ CountInv'
  BY <1>1, ListsKept DEF IInv, LinkInv
<1>3. WithChannel(list'[k], c) = {}
  <2>1. DOMAIN << >> = {}
    OBVIOUS
  <2>2. QED
    BY <1>1, <2>1 DEF WithChannel
<1>4. SaidInv'
  BY <1>1, <1>3, Reporting DEF SaidInv
<1>5. QED
  BY <1>2, <1>4 DEF IInv

LEMMA RemoveStep ==
  ASSUME IInv, NEW k \in Kinds, NEW c \in Channel, Remove(k, c)
  PROVE  IInv'
<1> DEFINE s == Head(list[k]).slot
<1>1. /\ list[k] # << >> /\ Head(list[k]).channel = c
      /\ list' = [list EXCEPT ![k] = Tail(@)]
      /\ used' = [used EXCEPT ![k] = @ \ {s}] /\ open' = [open EXCEPT ![k] = @ \ {s}]
      /\ sending' = (IF k = "ruc" THEN sending \ {s} ELSE sending)
      /\ cpu' = Free /\ opened' = [opened EXCEPT ![<<k, c>>] = @ + -1]
      /\ said' = <<"closed", k, c>> /\ UNCHANGED lied
  BY DEF Remove, Count, Report
<1>2. /\ list[k] \in Seq(Entry) /\ list'[k] = Tail(list[k])
      /\ \A j \in Kinds : j # k => list'[j] = list[j]
  BY <1>1 DEF IInv, ValuesInv
<1>3. /\ list'[k] \in Seq(Entry) /\ s \in SlotsOf(list[k])
      /\ Distinct(list'[k]) /\ SlotsOf(list'[k]) = SlotsOf(list[k]) \ {s}
  BY <1>1, <1>2, UnlinkedFirst DEF IInv, LinkInv
<1>4. /\ opened' \in [Kinds \X Channel -> Int]
      /\ opened'[<<k, c>>] = opened[<<k, c>>] - 1
      /\ \A j \in Kinds, b \in Channel :
           <<j, b>> # <<k, c>> => opened'[<<j, b>>] = opened[<<j, b>>]
  <2>1. opened \in [Kinds \X Channel -> Int] /\ opened[<<k, c>>] \in Int
    BY DEF IInv, ValuesInv
  <2>2. /\ opened' \in [Kinds \X Channel -> Int]
        /\ opened'[<<k, c>>] = opened[<<k, c>>] + -1
        /\ \A j \in Kinds, b \in Channel :
             <<j, b>> # <<k, c>> => opened'[<<j, b>>] = opened[<<j, b>>]
    BY <1>1, <2>1, Counting
  <2>3. QED
    BY <2>1, <2>2
<1> HIDE DEF s
<1>5. /\ used'[k] = used[k] \ {s} /\ open'[k] = open[k] \ {s}
      /\ \A j \in Kinds : j # k => used'[j] = used[j] /\ open'[j] = open[j]
  BY <1>1 DEF IInv, ValuesInv
<1>6. ValuesInv'
  <2>1. list' \in [Kinds -> Seq(Entry)]
    BY <1>1, <1>2, <1>3 DEF IInv, ValuesInv
  <2>2. used' \in [Kinds -> SUBSET Slots] /\ open' \in [Kinds -> SUBSET Slots]
    BY <1>1 DEF IInv, ValuesInv
  <2>3. QED
    BY <1>1, <1>4, <2>1, <2>2 DEF IInv, ValuesInv
<1>7. LinkInv'
  <2>1. ASSUME NEW j \in Kinds
        PROVE  /\ used'[j] = SlotsOf(list'[j]) /\ open'[j] = SlotsOf(list'[j])
               /\ Distinct(list'[j])
    BY <1>2, <1>3, <1>5 DEF IInv, LinkInv
  <2>2. sending' \subseteq open'["ruc"]
    BY <1>1, <1>5 DEF IInv, LinkInv, Kinds
  <2>3. QED
    BY <2>1, <2>2 DEF LinkInv
<1>8. CountInv'
  <2>1. SUFFICES ASSUME NEW j \in Kinds, NEW b \in Channel
                 PROVE  Believed(j, b)' = Cardinality(WithChannel(list'[j], b))
    BY DEF CountInv
  <2>2. /\ Believed(j, b) = Cardinality(WithChannel(list[j], b))
        /\ opened[<<j, b>>] \in Int /\ lied[<<j, b>>] \in Int
    BY DEF IInv, CountInv, ValuesInv
  <2>3. CASE j = k /\ b = c
    <3>1. Cardinality(WithChannel(list'[j], b)) = Cardinality(WithChannel(list[j], b)) - 1
      <4>1. /\ list[j] \in Seq(Entry) /\ list[j] # << >> /\ list'[j] = Tail(list[j])
            /\ Head(list[j]).channel = b
        BY <1>1, <1>2, <2>3
      <4>2. QED
        BY ONLY <4>1, CountedFirst
    <3>2. QED
      BY <1>1, <1>4, <2>2, <2>3, <3>1 DEF Believed
  <2>4. CASE j = k /\ b # c
    <3>1. opened'[<<j, b>>] = opened[<<j, b>>]
      BY <1>4, <2>4
    <3>2. Cardinality(WithChannel(list'[j], b)) = Cardinality(WithChannel(list[j], b))
      <4>1. /\ list[j] \in Seq(Entry) /\ list[j] # << >> /\ list'[j] = Tail(list[j])
            /\ Head(list[j]).channel # b
        BY <1>1, <1>2, <2>4
      <4>2. QED
        BY ONLY <4>1, CountedFirst
    <3>3. QED
      BY <1>1, <2>2, <3>1, <3>2 DEF Believed
  <2>5. CASE j # k
    BY <1>1, <1>2, <1>4, <2>2, <2>5 DEF Believed
  <2>6. QED
    BY <2>3, <2>4, <2>5
<1>9. SaidInv'
  BY <1>1, Reporting DEF SaidInv
<1>10. QED
  BY <1>6, <1>7, <1>8, <1>9 DEF IInv

\* A send of any kind: what it reports is so in the lists it leaves as they are.
LEMMA SendStep ==
  ASSUME IInv, NEW k \in Kinds, NEW c \in Channel, ReportSend(k, c),
         UNCHANGED <<list, used, open, cpu, opened, lied>>,
         sending' \subseteq open["ruc"]
  PROVE  IInv'
<1>1. ValuesInv' /\ LinkInv' /\ CountInv'
  BY ListsKept DEF IInv, ValuesInv
<1>2. HasChannel(k, c) = WithChannel(list[k], c) /\ list' = list
  BY DEF HasChannel, WithChannel
<1>3. SaidInv'
  <2>1. CASE HasChannel(k, c) # {}
    <3>1. said' = <<"sent", k, c>>
      BY <2>1 DEF ReportSend, Report
    <3>2. QED
      BY <1>2, <2>1, <3>1, Reporting DEF SaidInv
  <2>2. CASE HasChannel(k, c) = {}
    <3>1. said' = <<"not open", k, c>>
      BY <2>2 DEF ReportSend, Report
    <3>2. QED
      BY <1>2, <2>2, <3>1, Reporting DEF SaidInv
  <2>3. QED
    BY <2>1, <2>2
<1>4. QED
  BY <1>1, <1>3 DEF IInv

LEMMA RucSendStep ==
  ASSUME IInv, NEW c \in Channel, RucSend(c)
  PROVE  IInv'
<1>1. "ruc" \in Kinds
  BY DEF Kinds
<1>2. sending' \subseteq open["ruc"]
  <2>1. HasChannel("ruc", c) # {} => FirstSlot("ruc", c) \in open["ruc"]
    BY <1>1, FirstSlotLinked DEF IInv, LinkInv
  <2>2. QED
    BY <2>1 DEF RucSend, IInv, LinkInv
<1>3. QED
  BY <1>1, <1>2, SendStep DEF RucSend

\* The end of a repetition, and the broadcasts of the mote's own processes.
LEMMA BackgroundStep ==
  ASSUME IInv, RunicastSent \/ Spam \/ Button
  PROVE  IInv'
<1>1. /\ UNCHANGED <<list, used, open, cpu, opened, lied>> /\ sending' \subseteq open["ruc"]
      /\ said' = said \/ said' = <<"spam">> \/ said' = <<"button">>
  BY DEF RunicastSent, Spam, Button, IInv, LinkInv
<1>2. ValuesInv' /\ LinkInv' /\ CountInv'
  BY <1>1, ListsKept DEF IInv, ValuesInv
<1>3. SaidInv'
  <2>1. \A r, s, k, c : <<r>> # <<s, k, c>>
    OBVIOUS
  <2>2. QED
    BY <1>1, <2>1 DEF IInv, SaidInv
<1>4. QED
  BY <1>2, <1>3 DEF IInv

LEMMA StepInv == ASSUME IInv, [Next]_vars PROVE IInv'
<1>1. CASE Command
  <2>1. PICK c \in Channel :
          \/ BcOpen(c) \/ BcClose(c) \/ BcSend(c)
          \/ UcOpen(c) \/ UcClose(c) \/ UcSend(c)
          \/ RucOpen(c) \/ RucClose(c) \/ RucSend(c)
    BY <1>1 DEF Command
  <2>2. "bc" \in Kinds /\ "uc" \in Kinds /\ "ruc" \in Kinds
    BY DEF Kinds
  <2>3. CASE BcOpen(c) \/ UcOpen(c) \/ RucOpen(c)
    BY <2>2, <2>3, OpenStep DEF BcOpen, UcOpen, RucOpen
  <2>4. CASE BcClose(c) \/ UcClose(c) \/ RucClose(c)
    BY <2>2, <2>4, SearchStarts DEF BcClose, UcClose, RucClose
  <2>5. CASE BcSend(c) \/ UcSend(c)
    <3>1. sending' \subseteq open["ruc"]
      BY <2>5 DEF BcSend, UcSend, IInv, LinkInv
    <3>2. QED
      BY <2>2, <2>5, <3>1, SendStep DEF BcSend, UcSend
  <2>6. QED
    BY <2>1, <2>3, <2>4, <2>5, RucSendStep
<1>2. CASE SearchStep
  <2>1. PICK k \in Kinds, c \in Channel : AtEnd(k, c) \/ Remove(k, c) \/ TryAgain(k, c)
    BY <1>2 DEF SearchStep
  <2>2. CASE TryAgain(k, c)
    BY <2>2 DEF TryAgain, vars, IInv, ValuesInv, LinkInv, CountInv, Believed, SaidInv
  <2>3. QED
    BY <2>1, <2>2, AtEndStep, RemoveStep
<1>3. CASE UNCHANGED vars
  BY <1>3 DEF vars, IInv, ValuesInv, LinkInv, CountInv, Believed, SaidInv
<1>4. QED
  BY <1>1, <1>2, <1>3, BackgroundStep DEF Next

THEOREM Invariance == Spec => []IInv
<1>1. Init => IInv
  BY InitInv
<1>2. IInv /\ [Next]_vars => IInv'
  BY StepInv
<1>3. QED
  BY <1>1, <1>2, PTL DEF Spec

-----------------------------------------------------------------------------
\* Lists, pools and counters keep their types, and no channel of a kind is reported
\* closed more often than it was reported opened.
THEOREM TypeCorrect == Spec => []TypeOK
<1>1. IInv => TypeOK
  <2>1. SUFFICES ASSUME IInv PROVE TypeOK
    OBVIOUS
  <2>2. ASSUME NEW k \in Kinds, NEW c \in Channel
        PROVE  opened[<<k, c>>] \in Nat /\ lied[<<k, c>>] \in Nat
    <3>1. /\ opened[<<k, c>>] \in Int /\ lied[<<k, c>>] \in Nat
          /\ list[k] \in Seq(Entry)
      BY <2>1 DEF IInv, ValuesInv
    <3>2. Cardinality(WithChannel(list[k], c)) \in Nat
      BY <3>1, WithChannelFinite
    <3>3. opened[<<k, c>>] - lied[<<k, c>>] = Cardinality(WithChannel(list[k], c))
      BY <2>1 DEF IInv, CountInv, Believed
    <3>4. QED
      BY <3>1, <3>2, <3>3
  <2>3. IsSearch => cpu \in Kinds \X Channel
    BY <2>1 DEF IsSearch, IInv, ValuesInv
  <2>4. ASSUME NEW k \in Kinds
        PROVE  list[k] \in Seq([slot : Slots, channel : Channel]) /\ used[k] \subseteq Slots
    BY <2>1 DEF IInv, ValuesInv, Entry
  <2>5. QED
    BY <2>2, <2>3, <2>4 DEF TypeOK
<1>2. QED
  BY <1>1, Invariance, PTL

\* Pools, lists and Rime agree on the entries: none is lost, shared, or used after it was
\* given back, whatever is typed and whether or not a pool was ever used up.
THEOREM EntriesAccounted == Spec => []EntriesAccountedFor
<1>1. IInv => EntriesAccountedFor
  <2>1. SUFFICES ASSUME IInv, NEW k \in Kinds
                 PROVE  /\ used[k] = Linked(k) /\ open[k] = Linked(k)
                        /\ Len(list[k]) = Cardinality(Linked(k))
                        /\ sending \subseteq open["ruc"]
    BY DEF EntriesAccountedFor
  <2>2. Linked(k) = SlotsOf(list[k])
    BY DEF Linked, SlotsOf
  <2>3. list[k] \in Seq(Entry) /\ Distinct(list[k])
    BY <2>1 DEF IInv, ValuesInv, LinkInv
  <2>4. Cardinality(SlotsOf(list[k])) = Len(list[k])
    BY <2>3, SlotCount
  <2>5. QED
    BY <2>1, <2>2, <2>4 DEF IInv, LinkInv
<1>2. QED
  BY <1>1, Invariance, PTL

\* What the shell reports is so: the number of open connections of a channel, and
\* whether a message went out, an open with the pool used up excepted.
THEOREM ReportsTrue == Spec => []ReportsAreTrue
<1>1. IInv => ReportsAreTrue
  <2>1. SUFFICES ASSUME IInv, NEW k \in Kinds, NEW c \in Channel
                 PROVE  /\ Believed(k, c) = Cardinality(HasChannel(k, c))
                        /\ said = <<"sent", k, c>> => Believed(k, c) > 0
                        /\ said = <<"not open", k, c>> => Believed(k, c) = 0
    BY DEF ReportsAreTrue
  <2>2. HasChannel(k, c) = WithChannel(list[k], c)
    BY DEF HasChannel, WithChannel
  <2>3. list[k] \in Seq(Entry)
    BY <2>1 DEF IInv, ValuesInv
  <2>4. /\ Cardinality(WithChannel(list[k], c)) \in Nat
        /\ Cardinality(WithChannel(list[k], c)) = 0 <=> WithChannel(list[k], c) = {}
    BY <2>3, WithChannelFinite
  <2>5. Believed(k, c) = Cardinality(WithChannel(list[k], c))
    BY <2>1 DEF IInv, CountInv
  <2>6. /\ said = <<"sent", k, c>> => WithChannel(list[k], c) # {}
        /\ said = <<"not open", k, c>> => WithChannel(list[k], c) = {}
    BY <2>1 DEF IInv, SaidInv
  <2>7. /\ said = <<"sent", k, c>> => Cardinality(WithChannel(list[k], c)) > 0
        /\ said = <<"not open", k, c>> => Cardinality(WithChannel(list[k], c)) = 0
    <3>1. ASSUME said = <<"sent", k, c>> PROVE Cardinality(WithChannel(list[k], c)) > 0
      <4>1. Cardinality(WithChannel(list[k], c)) # 0
        BY <2>4, <2>6, <3>1
      <4>2. QED
        BY <2>4, <4>1
    <3>2. ASSUME said = <<"not open", k, c>> PROVE Cardinality(WithChannel(list[k], c)) = 0
      BY <2>4, <2>6, <3>2
    <3>3. QED
      BY <3>1, <3>2
  <2>8. QED
    BY <2>2, <2>5, <2>7
<1>2. QED
  BY <1>1, Invariance, PTL
=============================================================================
