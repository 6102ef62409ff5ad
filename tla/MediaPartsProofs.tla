--------------------------- MODULE MediaPartsProofs ---------------------------
(***************************************************************************)
(* What the buffers of the SFU keep: the packets of a pooled buffer, for    *)
(* any SSRCs, buffers, slabs and calls of Close; the packets a stream's     *)
(* bucket still has, with what the sequencer refers to and what the list of *)
(* missing packets tells; and the numbers of receiver reports, for words,  *)
(* rings and streams of any length.                                        *)
(***************************************************************************)
EXTENDS PacketPath, BufferPool, ReceptionReport, FiniteSetTheorems, SequenceTheorems,
        WellFoundedInduction, TLAPS

-----------------------------------------------------------------------------
(* Sequences of numbers.                                                   *)

\* What is put back into a pool is in it once.
LEMMA PutBack ==
  ASSUME NEW q \in Seq(Nat), IsInjective(q), NEW x \in Nat, x \notin ToSet(q)
  PROVE  /\ Append(q, x) \in Seq(Nat)
         /\ IsInjective(Append(q, x))
         /\ ToSet(Append(q, x)) = ToSet(q) \cup {x}
<1>1. /\ Append(q, x) \in Seq(Nat)
      /\ Len(Append(q, x)) = Len(q) + 1
      /\ \A i \in 1 .. Len(q) : Append(q, x)[i] = q[i]
      /\ Append(q, x)[Len(q) + 1] = x
  BY AppendProperties
<1>2. /\ DOMAIN q = 1 .. Len(q) /\ Len(q) \in Nat
      /\ DOMAIN Append(q, x) = 1 .. Len(q) + 1
  BY <1>1, LenProperties
<1> DEFINE a == Append(q, x)
<1> HIDE DEF a
<1>3. /\ DOMAIN a = 1 .. Len(q) + 1
      /\ \A i \in 1 .. Len(q) : a[i] = q[i]
      /\ a[Len(q) + 1] = x
  BY <1>1, <1>2 DEF a
<1>4. IsInjective(a)
  <2> SUFFICES ASSUME NEW i \in 1 .. Len(q) + 1, NEW j \in 1 .. Len(q) + 1, a[i] = a[j]
               PROVE  i = j
    BY <1>3 DEF IsInjective
  <2>1. \A k \in 1 .. Len(q) : q[k] # x
    BY <1>2 DEF ToSet
  <2>2. CASE i = Len(q) + 1
    BY <1>2, <1>3, <2>1, <2>2
  <2>3. CASE j = Len(q) + 1
    BY <1>2, <1>3, <2>1, <2>3
  <2>4. CASE i \in 1 .. Len(q) /\ j \in 1 .. Len(q)
    BY <1>2, <1>3, <2>4 DEF IsInjective
  <2> QED
    BY <1>2, <2>2, <2>3, <2>4
<1>5. ToSet(a) = ToSet(q) \cup {x}
  <2>1. ASSUME NEW y \in ToSet(a) PROVE y \in ToSet(q) \cup {x}
    BY <1>2, <1>3 DEF ToSet
  <2>2. ASSUME NEW y \in ToSet(q) PROVE y \in ToSet(a)
    <3>1. PICK i \in 1 .. Len(q) : y = q[i]
      BY <1>2 DEF ToSet
    <3>2. i \in 1 .. Len(q) + 1 /\ a[i] = y
      BY <1>2, <1>3, <3>1
    <3> QED
      BY <1>3, <3>2 DEF ToSet
  <2>3. x \in ToSet(a)
    BY <1>2, <1>3 DEF ToSet
  <2> QED
    BY <2>1, <2>2, <2>3
<1> QED
  BY <1>1, <1>4, <1>5 DEF a

\* What is taken out of a pool is in it no more.
LEMMA TakeOut ==
  ASSUME NEW q \in Seq(Nat), IsInjective(q), q # <<>>
  PROVE  /\ Tail(q) \in Seq(Nat) /\ Head(q) \in Nat
         /\ IsInjective(Tail(q))
         /\ Head(q) \in ToSet(q)
         /\ ToSet(Tail(q)) = ToSet(q) \ {Head(q)}
<1>1. /\ Head(q) \in Nat /\ Tail(q) \in Seq(Nat) /\ Len(Tail(q)) = Len(q) - 1
      /\ \A i \in 1 .. Len(Tail(q)) : Tail(q)[i] = q[i + 1]
  BY HeadTailProperties, Zenon
<1>2. Len(q) \in Nat \ {0} /\ DOMAIN q = 1 .. Len(q) /\ Head(q) = q[1]
  BY EmptySeq, LenProperties
<1> DEFINE t == Tail(q)
<1>3. DOMAIN t = 1 .. Len(q) - 1 /\ \A i \in 1 .. Len(q) - 1 : t[i] = q[i + 1]
  BY <1>1, <1>2, LenProperties
<1> HIDE DEF t
<1>4. \A i, j \in 1 .. Len(q) : q[i] = q[j] => i = j
  BY <1>2 DEF IsInjective
<1>5. IsInjective(t)
  <2> SUFFICES ASSUME NEW i \in 1 .. Len(q) - 1, NEW j \in 1 .. Len(q) - 1, t[i] = t[j]
               PROVE  i = j
    BY <1>3 DEF IsInjective
  <2>1. i + 1 \in 1 .. Len(q) /\ j + 1 \in 1 .. Len(q) /\ q[i + 1] = q[j + 1]
    BY <1>2, <1>3
  <2> QED
    BY <1>4, <2>1
<1>6. Head(q) \in ToSet(q)
  BY <1>2 DEF ToSet
<1>7. ToSet(t) = ToSet(q) \ {Head(q)}
  <2>1. ASSUME NEW y \in ToSet(t) PROVE y \in ToSet(q) /\ y # Head(q)
    <3>1. PICK i \in 1 .. Len(q) - 1 : y = t[i]
      BY <1>3 DEF ToSet
    <3>2. i + 1 \in 1 .. Len(q) /\ y = q[i + 1] /\ i + 1 # 1 /\ 1 \in 1 .. Len(q)
      BY <1>2, <1>3, <3>1
    <3> QED
      BY <1>2, <1>4, <3>2 DEF ToSet
  <2>2. ASSUME NEW y \in ToSet(q), y # Head(q) PROVE y \in ToSet(t)
    <3>1. PICK i \in 1 .. Len(q) : y = q[i]
      BY <1>2 DEF ToSet
    <3>2. i # 1
      BY <1>2, <2>2, <3>1
    <3>3. i - 1 \in 1 .. Len(q) - 1 /\ t[i - 1] = q[(i - 1) + 1] /\ (i - 1) + 1 = i
      BY <1>2, <1>3, <3>2
    <3> QED
      BY <1>3, <3>1, <3>3 DEF ToSet
  <2> QED
    BY <2>1, <2>2
<1> QED
  BY <1>1, <1>5, <1>6, <1>7 DEF t

LEMMA AppendConcat ==
  ASSUME NEW s \in Seq(Nat), NEW t \in Seq(Nat), NEW n \in Nat
  PROVE  Append(s \o t, n) = s \o Append(t, n)
<1>1. s \o t \in Seq(Nat) /\ <<n>> \in Seq(Nat)
  BY ConcatProperties
<1>2. Append(s \o t, n) = (s \o t) \o <<n>> /\ Append(t, n) = t \o <<n>>
  BY <1>1, AppendIsConcat
<1>3. (s \o t) \o <<n>> = s \o (t \o <<n>>)
  BY <1>1, ConcatAssociative
<1> QED
  BY <1>2, <1>3

\* A packet that is written comes last, one that is read comes first.
LEMMA WrittenLast ==
  ASSUME NEW r \in Seq(Nat), NEW e \in Seq(Nat), NEW p \in Seq(Nat), NEW n \in Nat
  PROVE  /\ Append((r \o e) \o p, n) = (r \o e) \o Append(p, n)
         /\ Append((r \o e) \o <<>>, n) = (r \o Append(e, n)) \o <<>>
<1>1. /\ r \o e \in Seq(Nat) /\ (r \o e) \o p \in Seq(Nat) /\ <<n>> \in Seq(Nat)
      /\ <<>> \in Seq(Nat) /\ Append(e, n) \in Seq(Nat)
  BY ConcatProperties, EmptySeq, AppendProperties
<1>2. Append((r \o e) \o p, n) = (r \o e) \o Append(p, n)
  BY <1>1, AppendConcat
<1>3. Append(r \o e, n) = r \o Append(e, n)
  BY <1>1, AppendConcat
<1>4. r \o Append(e, n) \in Seq(Nat)
  BY <1>1, ConcatProperties
<1> QED
  BY <1>1, <1>2, <1>3, <1>4, ConcatEmptySeq

LEMMA BoundInOrder ==
  ASSUME NEW r \in Seq(Nat), NEW e \in Seq(Nat), NEW p \in Seq(Nat)
  PROVE  (r \o e) \o p = r \o (e \o p)
<1> DEFINE Packets == Nat
<1>1. r \in Seq(Packets) /\ e \in Seq(Packets) /\ p \in Seq(Packets)
  OBVIOUS
<1> HIDE DEF Packets
<1> QED
  BY ONLY <1>1, ConcatAssociative

LEMMA ReadFirstOne ==
  ASSUME NEW r \in Seq(Nat), NEW e \in Seq(Nat), NEW p \in Seq(Nat), e # <<>>
  PROVE  /\ Head(e) \in Nat /\ Tail(e) \in Seq(Nat)
         /\ (Append(r, Head(e)) \o Tail(e)) \o p = (r \o e) \o p
<1>1. Head(e) \in Nat /\ Tail(e) \in Seq(Nat) /\ <<Head(e)>> \in Seq(Nat)
  BY HeadTailProperties
<1>2. e = <<Head(e)>> \o Tail(e)
  <2>1. /\ Len(e) \in Nat \ {0}
        /\ Len(Tail(e)) = Len(e) - 1 /\ \A i \in 1 .. Len(Tail(e)) : Tail(e)[i] = e[i + 1]
    BY HeadTailProperties, EmptySeq
  <2> DEFINE c == <<Head(e)>> \o Tail(e)
  <2>2. /\ c \in Seq(Nat) /\ Len(c) = 1 + Len(Tail(e))
        /\ \A i \in 1 .. 1 + Len(Tail(e)) :
             c[i] = IF i <= 1 THEN <<Head(e)>>[i] ELSE Tail(e)[i - 1]
    BY <1>1, ConcatProperties
  <2> HIDE DEF c
  <2>3. Len(c) = Len(e)
    BY <2>1, <2>2
  <2>4. ASSUME NEW i \in 1 .. Len(e) PROVE e[i] = c[i]
    <3>1. CASE i = 1
      BY <2>1, <2>2, <3>1
    <3>2. CASE i # 1
      <4>1. i - 1 \in 1 .. Len(Tail(e)) /\ (i - 1) + 1 = i /\ ~(i <= 1)
        BY <2>1, <3>2
      <4>2. c[i] = Tail(e)[i - 1]
        BY <2>1, <2>2, <4>1
      <4> QED
        BY <2>1, <4>1, <4>2
    <3> QED
      BY <3>1, <3>2
  <2>5. e = c
    BY <2>2, <2>3, <2>4, SeqEqual
  <2> QED
    BY <2>5 DEF c
<1>3. Append(r, Head(e)) = r \o <<Head(e)>>
  BY <1>1, AppendIsConcat
<1>4. (r \o <<Head(e)>>) \o Tail(e) = r \o (<<Head(e)>> \o Tail(e))
  BY <1>1, ConcatAssociative
<1> QED
  BY <1>1, <1>2, <1>3, <1>4

-----------------------------------------------------------------------------
(* The invariant.                                                          *)

Buffer == [ssrc : Ssrc, bound : BOOLEAN, closed : BOOLEAN, slab : Nat, peeked : Nat,
           pPackets : Seq(Nat), extPackets : Seq(Nat)]
Buffers == 1 .. Len(made)

BufferTypeOK ==
  /\ made \in Seq(Buffer) /\ rtpBuffers \in [Ssrc -> Nat]
  /\ written \in Seq(Seq(Nat)) /\ Len(written) = Len(made)
  /\ readOut \in Seq(Seq(Nat)) /\ Len(readOut) = Len(made)
  /\ announced \subseteq Buffers /\ attached \subseteq Buffers \X Buffers
  /\ panicked \in BOOLEAN /\ pool \in Seq(Nat) /\ slabs \in Nat
  /\ writes \in Nat /\ closes \in Nat

\* The factory has the open buffers and no other.
InFactory ==
  /\ \A s \in Ssrc : rtpBuffers[s] # 0 =>
       rtpBuffers[s] \in Buffers /\ made[rtpBuffers[s]].ssrc = s /\ ~made[rtpBuffers[s]].closed
  /\ \A b \in Buffers : ~made[b].closed => rtpBuffers[made[b].ssrc] = b

\* What was written is what was read and what is there to read; nothing waits
\* in a bound buffer for it to be bound.
ReadInOrder ==
  \A b \in Buffers :
    /\ made[b].bound => made[b].pPackets = <<>>
    /\ ~made[b].closed => written[b] = (readOut[b] \o made[b].extPackets) \o made[b].pPackets

\* A slab is in the pool once, or an open buffer's, or nobody's.
OwnMemory ==
  /\ IsInjective(pool) /\ ToSet(pool) \subseteq 1 .. slabs
  /\ \A b \in Buffers : ~made[b].closed =>
       IF made[b].bound
       THEN /\ made[b].slab \in (1 .. slabs) \ ToSet(pool)
            /\ \A c \in Buffers : c # b /\ ~made[c].closed => made[c].slab # made[b].slab
       ELSE made[b].slab = 0

BufferInv == BufferTypeOK /\ InFactory /\ ReadInOrder /\ OwnMemory

LEMMA BufferStart == BufferInit => BufferInv
<1> SUFFICES ASSUME BufferInit PROVE BufferInv
  OBVIOUS
<1>1. Len(made) = 0 /\ Buffers = {} /\ Len(written) = 0 /\ Len(readOut) = 0 /\ Len(pool) = 0
  BY EmptySeq DEF BufferInit, Buffers
<1>2. BufferTypeOK
  <2>1. <<>> \in Seq(Buffer) /\ <<>> \in Seq(Seq(Nat)) /\ <<>> \in Seq(Nat)
    BY EmptySeq
  <2>2. announced \subseteq Buffers /\ attached \subseteq Buffers \X Buffers
    BY DEF BufferInit
  <2> QED
    BY <1>1, <2>1, <2>2 DEF BufferInit, BufferTypeOK
<1>3. InFactory /\ ReadInOrder
  BY <1>1 DEF BufferInit, InFactory, ReadInOrder
<1>4. OwnMemory
  <2>1. DOMAIN pool = {}
    BY DEF BufferInit
  <2> QED
    BY <1>1, <2>1 DEF BufferInit, OwnMemory, IsInjective, ToSet
<1> QED
  BY <1>2, <1>3, <1>4 DEF BufferInv

\* One buffer changes, the others stay.
LEMMA BufferChanges ==
  ASSUME BufferInv, NEW b \in Buffers, NEW r \in Buffer, made' = [made EXCEPT ![b] = r]
  PROVE  /\ made' \in Seq(Buffer) /\ Len(made') = Len(made) /\ Buffers' = Buffers
         /\ made'[b] = r /\ \A c \in Buffers : c # b => made'[c] = made[c]
BY ExceptSeq DEF BufferInv, BufferTypeOK, Buffers

LEMMA BufferKnown ==
  ASSUME BufferInv, NEW b \in Buffers
  PROVE  made[b] \in Buffer /\ written[b] \in Seq(Nat) /\ readOut[b] \in Seq(Nat)
BY ElementOfSeq DEF BufferInv, BufferTypeOK, Buffers

-----------------------------------------------------------------------------
(* The steps.                                                              *)

LEMMA GetOrNewStep ==
  ASSUME BufferInv, NEW s \in Ssrc, GetOrNew(s) PROVE BufferInv'
<1> USE DEF BufferInv
<1>1. /\ rtpBuffers[s] = 0 /\ made' = Append(made, Unbound(s))
      /\ rtpBuffers' = [rtpBuffers EXCEPT ![s] = Len(made) + 1]
      /\ written' = Append(written, <<>>) /\ readOut' = Append(readOut, <<>>)
      /\ UNCHANGED <<announced, attached, panicked, pool, slabs, writes, closes>>
  BY DEF GetOrNew
<1>2. Unbound(s) \in Buffer /\ <<>> \in Seq(Nat)
  BY EmptySeq DEF Unbound, Buffer
<1> DEFINE n == Len(made) + 1
<1>3. /\ made' \in Seq(Buffer) /\ Len(made') = n
      /\ \A b \in Buffers : made'[b] = made[b]
      /\ made'[n] = Unbound(s)
  BY <1>1, <1>2, AppendProperties DEF BufferTypeOK, Buffers
<1>4. /\ written' \in Seq(Seq(Nat)) /\ Len(written') = n
      /\ \A b \in Buffers : written'[b] = written[b]
      /\ written'[n] = <<>>
  BY <1>1, <1>2, AppendProperties DEF BufferTypeOK, Buffers
<1>5. /\ readOut' \in Seq(Seq(Nat)) /\ Len(readOut') = n
      /\ \A b \in Buffers : readOut'[b] = readOut[b]
      /\ readOut'[n] = <<>>
  BY <1>1, <1>2, AppendProperties DEF BufferTypeOK, Buffers
<1>6. Len(made) \in Nat /\ n \notin Buffers /\ n # 0 /\ n \in Nat
  BY LenProperties DEF BufferTypeOK, Buffers
<1>7. Buffers' = Buffers \cup {n}
  BY <1>3, <1>6 DEF Buffers
<1> HIDE DEF n
<1>8. /\ rtpBuffers' \in [Ssrc -> Nat] /\ rtpBuffers'[s] = n
      /\ \A t \in Ssrc : t # s => rtpBuffers'[t] = rtpBuffers[t]
  BY <1>1, <1>6 DEF BufferTypeOK, n
<1>9. BufferTypeOK'
  <2>1. announced' \subseteq Buffers' /\ attached' \subseteq Buffers' \X Buffers'
    BY <1>1, <1>7 DEF BufferTypeOK
  <2> QED
    BY <1>1, <1>3, <1>4, <1>5, <1>8, <2>1 DEF BufferTypeOK
<1>10. /\ made'[n].ssrc = s /\ ~made'[n].closed /\ ~made'[n].bound /\ made'[n].slab = 0
       /\ made'[n].pPackets = <<>> /\ made'[n].extPackets = <<>>
  BY <1>3 DEF Unbound
<1>11. InFactory'
  <2>1. ASSUME NEW t \in Ssrc, rtpBuffers'[t] # 0
        PROVE  rtpBuffers'[t] \in Buffers' /\ made'[rtpBuffers'[t]].ssrc = t
               /\ ~made'[rtpBuffers'[t]].closed
    <3>1. CASE t = s
      BY <1>7, <1>8, <1>10, <3>1
    <3>2. CASE t # s
      BY <1>3, <1>7, <1>8, <2>1, <3>2 DEF InFactory
    <3> QED
      BY <3>1, <3>2
  <2>2. ASSUME NEW b \in Buffers', ~made'[b].closed PROVE rtpBuffers'[made'[b].ssrc] = b
    <3>1. CASE b = n
      BY <1>8, <1>10, <3>1
    <3>2. CASE b \in Buffers
      <4>1. made[b].ssrc \in Ssrc /\ b # 0
        BY <3>2, BufferKnown DEF Buffer, Buffers
      <4>2. rtpBuffers[made[b].ssrc] = b
        BY <1>3, <2>2, <3>2 DEF InFactory
      <4> QED
        BY <1>1, <1>3, <1>8, <3>2, <4>1, <4>2
    <3> QED
      BY <1>7, <3>1, <3>2
  <2> QED
    BY <2>1, <2>2 DEF InFactory
<1>12. ReadInOrder'
  <2>1. (<<>> \o <<>>) \o <<>> = <<>>
    BY <1>2, ConcatEmptySeq
  <2>2. ASSUME NEW b \in Buffers'
        PROVE  /\ made'[b].bound => made'[b].pPackets = <<>>
               /\ ~made'[b].closed =>
                    written'[b] = (readOut'[b] \o made'[b].extPackets) \o made'[b].pPackets
    <3>1. CASE b = n
      BY <1>4, <1>5, <1>10, <2>1, <3>1
    <3>2. CASE b \in Buffers
      BY <1>3, <1>4, <1>5, <3>2 DEF ReadInOrder
    <3> QED
      BY <1>7, <3>1, <3>2
  <2> QED
    BY <2>2 DEF ReadInOrder
<1>13. OwnMemory'
  <2>1. \A b \in Buffers : ~made[b].closed /\ made[b].bound => made[b].slab # 0
    BY DEF OwnMemory, BufferTypeOK
  <2>2. ASSUME NEW b \in Buffers', ~made'[b].closed, made'[b].bound
        PROVE  /\ made'[b].slab \in (1 .. slabs') \ ToSet(pool')
               /\ \A c \in Buffers' : c # b /\ ~made'[c].closed => made'[c].slab # made'[b].slab
    <3>1. b \in Buffers /\ made'[b] = made[b]
      BY <1>3, <1>7, <1>10, <2>2
    <3>2. made[b].slab \in (1 .. slabs) \ ToSet(pool) /\ made[b].slab # 0
      BY <2>1, <2>2, <3>1 DEF OwnMemory
    <3>3. ASSUME NEW c \in Buffers', c # b, ~made'[c].closed
          PROVE  made'[c].slab # made'[b].slab
      <4>1. CASE c = n
        BY <1>10, <3>1, <3>2, <4>1
      <4>2. CASE c \in Buffers
        BY <1>3, <2>2, <3>1, <3>3, <4>2 DEF OwnMemory
      <4> QED
        BY <1>7, <4>1, <4>2
    <3> QED
      BY <1>1, <3>1, <3>2, <3>3
  <2>3. ASSUME NEW b \in Buffers', ~made'[b].closed, ~made'[b].bound PROVE made'[b].slab = 0
    BY <1>3, <1>7, <1>10, <2>3 DEF OwnMemory
  <2> QED
    BY <1>1, <2>2, <2>3 DEF OwnMemory
<1> QED
  BY <1>9, <1>11, <1>12, <1>13

LEMMA StillThere ==
  ASSUME BufferInv, UNCHANGED <<made, rtpBuffers, written, readOut, pool, slabs>>
  PROVE  Buffers' = Buffers /\ InFactory' /\ ReadInOrder' /\ OwnMemory'
<1>1. Buffers' = Buffers
  BY DEF Buffers
<1>2. InFactory'
  BY <1>1 DEF BufferInv, InFactory
<1>3. ReadInOrder'
  BY <1>1 DEF BufferInv, ReadInOrder
<1>4. OwnMemory'
  BY <1>1 DEF BufferInv, OwnMemory
<1> QED
  BY <1>1, <1>2, <1>3, <1>4

\* A step that takes a buffer from one state to another of the same SSRC and
\* slab disturbs neither the factory nor the memory.
LEMMA SamePlace ==
  ASSUME BufferInv, NEW b \in Buffers, NEW r \in Buffer, made' = [made EXCEPT ![b] = r],
         r.ssrc = made[b].ssrc, r.bound = made[b].bound, r.closed = made[b].closed,
         r.slab = made[b].slab, UNCHANGED <<rtpBuffers, pool, slabs>>
  PROVE  InFactory' /\ OwnMemory'
<1>1. /\ Buffers' = Buffers /\ made'[b] = r
      /\ \A c \in Buffers : c # b => made'[c] = made[c]
  BY BufferChanges
<1>2. \A c \in Buffers : /\ made'[c].ssrc = made[c].ssrc /\ made'[c].bound = made[c].bound
                         /\ made'[c].closed = made[c].closed /\ made'[c].slab = made[c].slab
  BY <1>1
<1>3. InFactory'
  BY <1>1, <1>2 DEF BufferInv, InFactory
<1>4. OwnMemory'
  BY <1>1, <1>2 DEF BufferInv, OwnMemory
<1> QED
  BY <1>3, <1>4

LEMMA WriteToStep ==
  ASSUME BufferInv, NEW b \in Buffers, WriteTo(b) PROVE BufferInv'
<1> DEFINE e == made[b].extPackets
           p == made[b].pPackets
           r == IF made[b].bound
                THEN [made[b] EXCEPT !.extPackets = Append(@, writes')]
                ELSE [made[b] EXCEPT !.pPackets = Append(@, writes')]
<1>1. /\ ~made[b].closed /\ writes' = writes + 1 /\ made' = [made EXCEPT ![b] = r]
      /\ written' = [written EXCEPT ![b] = Append(@, writes')]
      /\ UNCHANGED <<rtpBuffers, readOut, announced, attached, panicked, pool, slabs, closes>>
  BY DEF WriteTo
<1>2. made[b] \in Buffer /\ written[b] \in Seq(Nat) /\ readOut[b] \in Seq(Nat) /\ writes' \in Nat
  BY <1>1, BufferKnown DEF BufferInv, BufferTypeOK
<1>3. /\ r \in Buffer /\ r.ssrc = made[b].ssrc /\ r.bound = made[b].bound
      /\ r.closed = made[b].closed /\ r.slab = made[b].slab
      /\ made[b].bound => r.extPackets = Append(e, writes') /\ r.pPackets = p
      /\ ~made[b].bound => r.pPackets = Append(p, writes') /\ r.extPackets = e
  <2>1. CASE made[b].bound
    BY <1>2, <2>1, AppendProperties DEF Buffer
  <2>2. CASE ~made[b].bound
    BY <1>2, <2>2, AppendProperties DEF Buffer
  <2> QED
    BY <2>1, <2>2
<1>0. e \in Seq(Nat) /\ p \in Seq(Nat) /\ written[b] = (readOut[b] \o e) \o p
      /\ (made[b].bound => p = <<>>)
  BY <1>1, <1>2 DEF BufferInv, ReadInOrder, Buffer
<1> HIDE DEF r, e, p
<1>4. /\ made' \in Seq(Buffer) /\ Len(made') = Len(made) /\ Buffers' = Buffers
      /\ made'[b] = r /\ \A c \in Buffers : c # b => made'[c] = made[c]
  BY <1>1, <1>3, BufferChanges
<1>5. Append(written[b], writes') \in Seq(Nat)
  BY <1>2, AppendProperties
<1>6. /\ written' \in Seq(Seq(Nat)) /\ Len(written') = Len(written)
      /\ written'[b] = Append(written[b], writes')
      /\ \A c \in Buffers : c # b => written'[c] = written[c]
  BY <1>1, <1>5, ExceptSeq DEF BufferInv, BufferTypeOK, Buffers
<1>7. BufferTypeOK'
  BY <1>1, <1>2, <1>4, <1>6 DEF BufferInv, BufferTypeOK
<1>8. InFactory' /\ OwnMemory'
  BY <1>1, <1>3, SamePlace
<1>9. ReadInOrder'
  <2>1. ASSUME NEW c \in Buffers
        PROVE  /\ made'[c].bound => made'[c].pPackets = <<>>
               /\ ~made'[c].closed =>
                    written'[c] = (readOut'[c] \o made'[c].extPackets) \o made'[c].pPackets
    <3>1. CASE c # b
      BY <1>1, <1>4, <1>6, <3>1 DEF BufferInv, ReadInOrder
    <3>2. CASE c = b
      <4>1. /\ Append((readOut[b] \o e) \o p, writes') = (readOut[b] \o e) \o Append(p, writes')
            /\ Append((readOut[b] \o e) \o <<>>, writes') = (readOut[b] \o Append(e, writes')) \o <<>>
        BY <1>0, <1>2, WrittenLast
      <4>2. CASE made[b].bound
        <5>1. /\ made'[b].extPackets = Append(e, writes') /\ made'[b].pPackets = <<>>
              /\ written'[b] = Append((readOut[b] \o e) \o <<>>, writes')
              /\ readOut' = readOut
          BY <1>0, <1>1, <1>3, <1>4, <1>6, <4>2
        <5> QED
          BY <3>2, <4>1, <5>1, Zenon
      <4>3. CASE ~made[b].bound
        <5>1. /\ made'[b].extPackets = e /\ made'[b].pPackets = Append(p, writes')
              /\ written'[b] = Append((readOut[b] \o e) \o p, writes')
              /\ readOut' = readOut /\ ~made'[b].bound
          BY <1>0, <1>1, <1>3, <1>4, <1>6, <4>3
        <5> QED
          BY <3>2, <4>1, <5>1, Zenon
      <4> QED
        BY <4>2, <4>3
    <3> QED
      BY <3>1, <3>2
  <2> QED
    BY <1>4, <2>1 DEF ReadInOrder
<1> QED
  BY <1>7, <1>8, <1>9 DEF BufferInv

LEMMA ReadFirstStep ==
  ASSUME BufferInv, NEW b \in Buffers, ReadFirst(b) PROVE BufferInv'
<1> DEFINE r == [made[b] EXCEPT !.peeked = @ + 1]
<1>1. /\ made' = [made EXCEPT ![b] = r]
      /\ announced' \subseteq announced \cup {b}
      /\ UNCHANGED <<rtpBuffers, written, readOut, attached, panicked, pool, slabs, writes, closes>>
  BY DEF ReadFirst
<1>2. made[b] \in Buffer
  BY BufferKnown
<1>3. /\ r \in Buffer /\ r.ssrc = made[b].ssrc /\ r.bound = made[b].bound
      /\ r.closed = made[b].closed /\ r.slab = made[b].slab
      /\ r.extPackets = made[b].extPackets /\ r.pPackets = made[b].pPackets
  <2>1. made[b].peeked + 1 \in Nat
    BY <1>2 DEF Buffer
  <2> QED
    BY <1>2, <2>1 DEF Buffer
<1> HIDE DEF r
<1>4. /\ made' \in Seq(Buffer) /\ Len(made') = Len(made) /\ Buffers' = Buffers
      /\ made'[b] = r /\ \A c \in Buffers : c # b => made'[c] = made[c]
  BY <1>1, <1>3, BufferChanges
<1>5. BufferTypeOK'
  BY <1>1, <1>4 DEF BufferInv, BufferTypeOK
<1>6. InFactory' /\ OwnMemory'
  BY <1>1, <1>3, SamePlace
<1>7. \A c \in Buffers : /\ made'[c].bound = made[c].bound /\ made'[c].closed = made[c].closed
                         /\ made'[c].extPackets = made[c].extPackets
                         /\ made'[c].pPackets = made[c].pPackets
  BY <1>3, <1>4
<1>8. ReadInOrder'
  BY <1>1, <1>4, <1>7 DEF BufferInv, ReadInOrder
<1> QED
  BY <1>5, <1>6, <1>8 DEF BufferInv

LEMMA ReadExtendedStep ==
  ASSUME BufferInv, NEW b \in Buffers, ReadExtended(b) PROVE BufferInv'
<1> DEFINE e == made[b].extPackets
           p == made[b].pPackets
           r == [made[b] EXCEPT !.extPackets = Tail(@)]
<1>1. /\ ~made[b].closed /\ e # <<>> /\ made' = [made EXCEPT ![b] = r]
      /\ readOut' = [readOut EXCEPT ![b] = Append(@, Head(e))]
      /\ UNCHANGED <<rtpBuffers, written, announced, attached, panicked, pool, slabs, writes, closes>>
  BY DEF ReadExtended
<1>2. /\ made[b] \in Buffer /\ written[b] \in Seq(Nat) /\ readOut[b] \in Seq(Nat)
      /\ e \in Seq(Nat) /\ p \in Seq(Nat)
  BY BufferKnown DEF Buffer
<1>3. /\ Head(e) \in Nat /\ Tail(e) \in Seq(Nat)
      /\ (Append(readOut[b], Head(e)) \o Tail(e)) \o p = (readOut[b] \o e) \o p
  BY <1>1, <1>2, ReadFirstOne
<1>4. /\ r \in Buffer /\ r.ssrc = made[b].ssrc /\ r.bound = made[b].bound
      /\ r.closed = made[b].closed /\ r.slab = made[b].slab
      /\ r.extPackets = Tail(e) /\ r.pPackets = p
  BY <1>2, <1>3 DEF Buffer
<1> HIDE DEF r, e, p
<1>5. /\ made' \in Seq(Buffer) /\ Len(made') = Len(made) /\ Buffers' = Buffers
      /\ made'[b] = r /\ \A c \in Buffers : c # b => made'[c] = made[c]
  BY <1>1, <1>4, BufferChanges
<1>6. Append(readOut[b], Head(e)) \in Seq(Nat)
  BY <1>2, <1>3, AppendProperties
<1>7. /\ readOut' \in Seq(Seq(Nat)) /\ Len(readOut') = Len(readOut)
      /\ readOut'[b] = Append(readOut[b], Head(e))
      /\ \A c \in Buffers : c # b => readOut'[c] = readOut[c]
  BY <1>1, <1>6, ExceptSeq DEF BufferInv, BufferTypeOK, Buffers
<1>8. BufferTypeOK'
  BY <1>1, <1>5, <1>7 DEF BufferInv, BufferTypeOK
<1>9. InFactory' /\ OwnMemory'
  BY <1>1, <1>4, SamePlace
<1>10. ReadInOrder'
  <2>1. ASSUME NEW c \in Buffers
        PROVE  /\ made'[c].bound => made'[c].pPackets = <<>>
               /\ ~made'[c].closed =>
                    written'[c] = (readOut'[c] \o made'[c].extPackets) \o made'[c].pPackets
    <3>1. CASE c # b
      BY <1>1, <1>5, <1>7, <3>1 DEF BufferInv, ReadInOrder
    <3>2. CASE c = b
      <4>1. written[b] = (readOut[b] \o e) \o p /\ (made[b].bound => p = <<>>)
        BY <1>1 DEF BufferInv, ReadInOrder, e, p
      <4> QED
        BY <1>1, <1>3, <1>4, <1>5, <1>7, <3>2, <4>1
    <3> QED
      BY <3>1, <3>2
  <2> QED
    BY <1>5, <2>1 DEF ReadInOrder
<1> QED
  BY <1>8, <1>9, <1>10 DEF BufferInv

LEMMA GetBufferPairStep ==
  ASSUME BufferInv, NEW b \in Buffers, GetBufferPair(b) PROVE BufferInv'
<1> DEFINE c == rtpBuffers[made[b].ssrc]
<1>1. /\ announced' = announced \ {b}
      /\ IF c = 0 THEN panicked' = TRUE /\ attached' = attached
         ELSE attached' = attached \cup {<<b, c>>} /\ panicked' = panicked
      /\ UNCHANGED <<made, rtpBuffers, written, readOut, pool, slabs, writes, closes>>
  BY DEF GetBufferPair
<1>2. made[b].ssrc \in Ssrc
  BY BufferKnown DEF Buffer
<1>3. c # 0 => c \in Buffers
  BY <1>2 DEF BufferInv, InFactory
<1> HIDE DEF c
<1>4. attached' \subseteq Buffers \X Buffers /\ panicked' \in BOOLEAN
  <2>1. CASE c = 0
    BY <1>1, <2>1 DEF BufferInv, BufferTypeOK
  <2>2. CASE c # 0
    BY <1>1, <1>3, <2>2 DEF BufferInv, BufferTypeOK
  <2> QED
    BY <2>1, <2>2
<1>5. Buffers' = Buffers
  BY <1>1 DEF Buffers
<1>6. BufferTypeOK'
  BY <1>1, <1>4, <1>5 DEF BufferInv, BufferTypeOK
<1> QED
  BY <1>1, <1>6, StillThere DEF BufferInv

LEMMA CloseBufferStep ==
  ASSUME BufferInv, NEW b \in Buffers, CloseBuffer(b) PROVE BufferInv'
<1>0. made[b] \in Buffer /\ made[b].ssrc \in Ssrc /\ made[b].slab \in Nat
  BY BufferKnown DEF Buffer
<1>1. /\ closes' = closes + 1
      /\ UNCHANGED <<written, readOut, announced, attached, panicked, slabs, writes>>
  BY DEF CloseBuffer
<1>2. CASE made[b].closed
  <2>1. UNCHANGED <<pool, made, rtpBuffers>>
    BY <1>2 DEF CloseBuffer
  <2>2. Buffers' = Buffers
    BY <2>1 DEF Buffers
  <2>3. BufferTypeOK'
    BY <1>1, <2>1, <2>2 DEF BufferInv, BufferTypeOK
  <2> QED
    BY <1>1, <2>1, <2>3, StillThere DEF BufferInv
<1>3. CASE ~made[b].closed
  <2> DEFINE r == [made[b] EXCEPT !.closed = TRUE]
  <2>1. /\ pool' = IF made[b].slab = 0 THEN pool ELSE Append(pool, made[b].slab)
        /\ made' = [made EXCEPT ![b] = r]
        /\ rtpBuffers' = [rtpBuffers EXCEPT ![made[b].ssrc] = 0]
    BY <1>3 DEF CloseBuffer
  <2>2. r \in Buffer /\ r.closed /\ r.bound = made[b].bound /\ r.pPackets = made[b].pPackets
    BY <1>0 DEF Buffer
  <2> HIDE DEF r
  <2>3. /\ made' \in Seq(Buffer) /\ Len(made') = Len(made) /\ Buffers' = Buffers
        /\ made'[b] = r /\ \A c \in Buffers : c # b => made'[c] = made[c]
    BY <2>1, <2>2, BufferChanges
  <2>4. \A c \in Buffers : ~made'[c].closed => c # b /\ made'[c] = made[c]
    BY <2>2, <2>3
  <2>5. /\ pool' \in Seq(Nat) /\ IsInjective(pool') /\ ToSet(pool') \subseteq 1 .. slabs
        /\ ToSet(pool') \subseteq ToSet(pool) \cup {made[b].slab}
        /\ made[b].slab = 0 => ToSet(pool') = ToSet(pool)
    <3>1. CASE made[b].slab = 0
      BY <2>1, <3>1 DEF BufferInv, BufferTypeOK, OwnMemory
    <3>2. CASE made[b].slab # 0
      <4>1. made[b].slab \in (1 .. slabs) \ ToSet(pool)
        BY <1>3, <3>2 DEF BufferInv, OwnMemory
      <4>2. /\ pool' \in Seq(Nat) /\ IsInjective(pool')
            /\ ToSet(pool') = ToSet(pool) \cup {made[b].slab}
        BY <1>0, <2>1, <3>2, <4>1, PutBack DEF BufferInv, BufferTypeOK, OwnMemory
      <4> QED
        BY <3>2, <4>1, <4>2 DEF BufferInv, OwnMemory
    <3> QED
      BY <3>1, <3>2
  <2>6. /\ rtpBuffers' \in [Ssrc -> Nat] /\ rtpBuffers'[made[b].ssrc] = 0
        /\ \A t \in Ssrc : t # made[b].ssrc => rtpBuffers'[t] = rtpBuffers[t]
    BY <1>0, <2>1 DEF BufferInv, BufferTypeOK
  <2>7. BufferTypeOK'
    BY <1>1, <2>3, <2>5, <2>6 DEF BufferInv, BufferTypeOK
  <2>8. InFactory'
    <3>1. ASSUME NEW t \in Ssrc, rtpBuffers'[t] # 0
          PROVE  rtpBuffers'[t] \in Buffers' /\ made'[rtpBuffers'[t]].ssrc = t
                 /\ ~made'[rtpBuffers'[t]].closed
      <4>1. t # made[b].ssrc /\ rtpBuffers'[t] = rtpBuffers[t]
        BY <2>6, <3>1
      <4>2. rtpBuffers[t] \in Buffers /\ made[rtpBuffers[t]].ssrc = t
            /\ ~made[rtpBuffers[t]].closed
        BY <3>1, <4>1 DEF BufferInv, InFactory
      <4>3. rtpBuffers[t] # b
        BY <4>1, <4>2
      <4> QED
        BY <2>3, <4>1, <4>2, <4>3
    <3>2. ASSUME NEW c \in Buffers, ~made'[c].closed PROVE rtpBuffers'[made'[c].ssrc] = c
      <4>1. c # b /\ made'[c] = made[c] /\ rtpBuffers[made[c].ssrc] = c /\ made[c].ssrc \in Ssrc
        BY <2>4, <3>2, BufferKnown DEF BufferInv, InFactory, Buffer
      <4>2. rtpBuffers[made[b].ssrc] = b
        BY <1>3 DEF BufferInv, InFactory
      <4> QED
        BY <2>6, <4>1, <4>2
    <3> QED
      BY <2>3, <3>1, <3>2 DEF InFactory
  <2>9. ReadInOrder'
    <3>1. ASSUME NEW c \in Buffers
          PROVE  /\ made'[c].bound => made'[c].pPackets = <<>>
                 /\ ~made'[c].closed =>
                      written'[c] = (readOut'[c] \o made'[c].extPackets) \o made'[c].pPackets
      <4>1. CASE c = b
        BY <2>2, <2>3, <4>1 DEF BufferInv, ReadInOrder
      <4>2. CASE c # b
        BY <1>1, <2>3, <4>2 DEF BufferInv, ReadInOrder
      <4> QED
        BY <4>1, <4>2
    <3> QED
      BY <2>3, <3>1 DEF ReadInOrder
  <2>10. OwnMemory'
    <3>1. ASSUME NEW c \in Buffers, ~made'[c].closed, made'[c].bound
          PROVE  /\ made'[c].slab \in (1 .. slabs') \ ToSet(pool')
                 /\ \A d \in Buffers : d # c /\ ~made'[d].closed => made'[d].slab # made'[c].slab
      <4>1. c # b /\ made'[c] = made[c]
        BY <2>4, <3>1
      <4>2. /\ made[c].slab \in (1 .. slabs) \ ToSet(pool)
            /\ \A d \in Buffers : d # c /\ ~made[d].closed => made[d].slab # made[c].slab
        BY <3>1, <4>1 DEF BufferInv, OwnMemory
      <4>3. made[c].slab # made[b].slab
        BY <1>3, <4>1, <4>2
      <4>4. made[c].slab \notin ToSet(pool')
        BY <2>5, <4>2, <4>3
      <4> QED
        BY <1>1, <2>4, <4>1, <4>2, <4>4
    <3>2. ASSUME NEW c \in Buffers, ~made'[c].closed, ~made'[c].bound PROVE made'[c].slab = 0
      BY <2>4, <3>2 DEF BufferInv, OwnMemory
    <3> QED
      BY <1>1, <2>3, <2>5, <3>1, <3>2 DEF OwnMemory
  <2> QED
    BY <2>7, <2>8, <2>9, <2>10 DEF BufferInv
<1> QED
  BY <1>2, <1>3

LEMMA BindStep ==
  ASSUME BufferInv, NEW b, NEW c, <<b, c>> \in attached, Bind(b, c) PROVE BufferInv'
<1> DEFINE e == made[c].extPackets
           p == made[c].pPackets
           bound == [made[c] EXCEPT !.bound = TRUE, !.extPackets = @ \o made[c].pPackets,
                                    !.pPackets = <<>>]
<1>1. /\ attached' = attached \ {<<b, c>>} /\ PoolGet(c, bound)
      /\ UNCHANGED <<rtpBuffers, written, readOut, announced, panicked, writes, closes>>
  BY DEF Bind
<1>2. c \in Buffers
  BY DEF BufferInv, BufferTypeOK
<1>3. /\ made[c] \in Buffer /\ written[c] \in Seq(Nat) /\ readOut[c] \in Seq(Nat)
      /\ e \in Seq(Nat) /\ p \in Seq(Nat)
  BY <1>2, BufferKnown DEF Buffer
<1>4. e \o p \in Seq(Nat) /\ <<>> \in Seq(Nat)
  BY <1>3, ConcatProperties, EmptySeq
\* The slab is one from the pool or a new one; no open buffer has it.
<1>5. PICK x \in Nat :
        /\ made' = [made EXCEPT ![c] = [bound EXCEPT !.slab = x]]
        /\ pool' \in Seq(Nat) /\ IsInjective(pool') /\ slabs' \in Nat
        /\ ToSet(pool') \subseteq ToSet(pool) /\ 1 .. slabs \subseteq 1 .. slabs'
        /\ x \in (1 .. slabs') \ ToSet(pool')
        /\ x \in ToSet(pool) \/ x \notin 1 .. slabs
  <2>1. CASE /\ pool # <<>> /\ pool' = Tail(pool)
             /\ made' = [made EXCEPT ![c] = [bound EXCEPT !.slab = Head(pool)]]
             /\ slabs' = slabs
    <3>1. /\ Tail(pool) \in Seq(Nat) /\ Head(pool) \in Nat /\ IsInjective(Tail(pool))
          /\ Head(pool) \in ToSet(pool) /\ ToSet(Tail(pool)) = ToSet(pool) \ {Head(pool)}
      BY <2>1, TakeOut DEF BufferInv, BufferTypeOK, OwnMemory
    <3>2. ToSet(pool) \subseteq 1 .. slabs /\ slabs \in Nat
      BY DEF BufferInv, BufferTypeOK, OwnMemory
    <3> HIDE DEF bound
    <3> QED
      BY <2>1, <3>1, <3>2
  <2>2. CASE /\ slabs' = slabs + 1 /\ pool' = pool
             /\ made' = [made EXCEPT ![c] = [bound EXCEPT !.slab = slabs']]
    <3>1. /\ ToSet(pool) \subseteq 1 .. slabs /\ slabs \in Nat /\ pool \in Seq(Nat)
          /\ IsInjective(pool)
      BY DEF BufferInv, BufferTypeOK, OwnMemory
    <3>2. slabs' \in Nat /\ slabs' \notin 1 .. slabs /\ slabs' \in 1 .. slabs'
          /\ 1 .. slabs \subseteq 1 .. slabs'
      BY <2>2, <3>1
    <3> HIDE DEF bound
    <3> QED
      BY <2>2, <3>1, <3>2
  <2> QED
    BY <1>1, <2>1, <2>2 DEF PoolGet
<1> DEFINE r == [bound EXCEPT !.slab = x]
<1>6. /\ r \in Buffer /\ r.ssrc = made[c].ssrc /\ r.bound = TRUE /\ r.closed = made[c].closed
      /\ r.slab = x /\ r.extPackets = e \o p /\ r.pPackets = <<>>
  BY <1>3, <1>4 DEF Buffer
<1>7. made' = [made EXCEPT ![c] = r]
  BY <1>5
<1> HIDE DEF r, bound, e, p
<1>8. /\ made' \in Seq(Buffer) /\ Len(made') = Len(made) /\ Buffers' = Buffers
      /\ made'[c] = r /\ \A d \in Buffers : d # c => made'[d] = made[d]
  BY <1>2, <1>6, <1>7, BufferChanges
<1>9. BufferTypeOK'
  BY <1>1, <1>5, <1>8 DEF BufferInv, BufferTypeOK
<1>10. \A d \in Buffers : made'[d].ssrc = made[d].ssrc /\ made'[d].closed = made[d].closed
  BY <1>6, <1>8
<1>11. InFactory'
  BY <1>1, <1>8, <1>10 DEF BufferInv, InFactory
<1>12. ReadInOrder'
  <2>1. ASSUME NEW d \in Buffers
        PROVE  /\ made'[d].bound => made'[d].pPackets = <<>>
               /\ ~made'[d].closed =>
                    written'[d] = (readOut'[d] \o made'[d].extPackets) \o made'[d].pPackets
    <3>1. CASE d # c
      BY <1>1, <1>8, <3>1 DEF BufferInv, ReadInOrder
    <3>2. CASE d = c
      <4>1. ~made[c].closed => written[c] = (readOut[c] \o e) \o p
        BY <1>2 DEF BufferInv, ReadInOrder, e, p
      <4>2. (readOut[c] \o e) \o p = readOut[c] \o (e \o p)
        BY <1>3, BoundInOrder
      <4>3. (readOut[c] \o (e \o p)) \o <<>> = readOut[c] \o (e \o p)
        <5>1. readOut[c] \o (e \o p) \in Seq(Nat)
          BY <1>3, <1>4, ConcatProperties
        <5> QED
          BY <5>1, ConcatEmptySeq
      <4> QED
        BY <1>1, <1>6, <1>8, <3>2, <4>1, <4>2, <4>3
    <3> QED
      BY <3>1, <3>2
  <2> QED
    BY <1>8, <2>1 DEF ReadInOrder
<1>13. OwnMemory'
  <2>1. \A d \in Buffers : ~made[d].closed => made[d].slab # x
    <3>1. ASSUME NEW d \in Buffers, ~made[d].closed PROVE made[d].slab # x
      <4>1. CASE made[d].bound
        BY <1>5, <3>1, <4>1 DEF BufferInv, OwnMemory
      <4>2. CASE ~made[d].bound
        BY <1>5, <3>1, <4>2 DEF BufferInv, OwnMemory
      <4> QED
        BY <4>1, <4>2
    <3> QED
      BY <3>1
  <2>2. ASSUME NEW d \in Buffers, ~made'[d].closed, made'[d].bound
        PROVE  /\ made'[d].slab \in (1 .. slabs') \ ToSet(pool')
               /\ \A f \in Buffers : f # d /\ ~made'[f].closed => made'[f].slab # made'[d].slab
    <3>1. CASE d = c
      BY <1>5, <1>6, <1>8, <2>1, <3>1
    <3>2. CASE d # c
      <4>1. made'[d] = made[d] /\ ~made[d].closed /\ made[d].bound
        BY <1>8, <2>2, <3>2
      <4>2. /\ made[d].slab \in (1 .. slabs) \ ToSet(pool)
            /\ \A f \in Buffers : f # d /\ ~made[f].closed => made[f].slab # made[d].slab
        BY <4>1 DEF BufferInv, OwnMemory
      <4>3. ASSUME NEW f \in Buffers, f # d, ~made'[f].closed
            PROVE  made'[f].slab # made[d].slab
        <5>1. CASE f = c
          BY <1>6, <1>8, <2>1, <4>1, <5>1
        <5>2. CASE f # c
          BY <1>8, <4>2, <4>3, <5>2
        <5> QED
          BY <5>1, <5>2
      <4> QED
        BY <1>5, <4>1, <4>2, <4>3
    <3> QED
      BY <3>1, <3>2
  <2>3. ASSUME NEW d \in Buffers, ~made'[d].closed, ~made'[d].bound PROVE made'[d].slab = 0
    BY <1>6, <1>8, <2>3 DEF BufferInv, OwnMemory
  <2>4. ToSet(pool') \subseteq 1 .. slabs'
    BY <1>5 DEF BufferInv, OwnMemory
  <2> QED
    BY <1>5, <1>8, <2>2, <2>3, <2>4 DEF OwnMemory
<1> QED
  BY <1>9, <1>11, <1>12, <1>13 DEF BufferInv

-----------------------------------------------------------------------------
(* The theorems.                                                           *)

\* The buffers of every instance keep the invariant: any SSRCs, and any number of
\* buffers, packets, slabs and calls of Close.
THEOREM BufferInvariant == BufferSpec => []BufferInv
<1>1. BufferInv /\ [BufferNext]_bufferVars => BufferInv'
  <2> SUFFICES ASSUME BufferInv, [BufferNext]_bufferVars PROVE BufferInv'
    OBVIOUS
  <2>1. ASSUME NEW s \in Ssrc, GetOrNew(s) PROVE BufferInv'
    BY <2>1, GetOrNewStep
  <2>2. ASSUME NEW b \in Buffers,
               WriteTo(b) \/ ReadFirst(b) \/ GetBufferPair(b) \/ ReadExtended(b) \/ CloseBuffer(b)
        PROVE  BufferInv'
    BY <2>2, WriteToStep, ReadFirstStep, GetBufferPairStep, ReadExtendedStep, CloseBufferStep
  <2>3. ASSUME NEW q \in attached, Bind(q[1], q[2]) PROVE BufferInv'
    <3>1. q = <<q[1], q[2]>>
      BY DEF BufferInv, BufferTypeOK
    <3> QED
      BY <2>3, <3>1, BindStep
  <2>4. CASE UNCHANGED bufferVars
    <3>1. BufferTypeOK'
      BY <2>4 DEF bufferVars, BufferInv, BufferTypeOK, Buffers
    <3> QED
      BY <2>4, <3>1, StillThere DEF bufferVars, BufferInv
  <2> QED
    BY <2>1, <2>2, <2>3, <2>4 DEF BufferNext, Buffers
<1> QED
  BY <1>1, BufferStart, PTL DEF BufferSpec

\* Every packet written to an open buffer is read once, in its order, from memory
\* that is that buffer's alone; the factory has the open buffers.
THEOREM PacketsKeptHolds == BufferSpec => []PacketsKept
<1>1. BufferInv => PacketsKept
  <2> SUFFICES ASSUME BufferInv PROVE PacketsKept
    OBVIOUS
  <2>1. ASSUME NEW b \in Buffers, ~made[b].closed
        PROVE  /\ written[b] = readOut[b] \o made[b].extPackets \o made[b].pPackets
               /\ rtpBuffers[made[b].ssrc] = b
               /\ made[b].bound => /\ made[b].slab \notin ToSet(pool)
                                   /\ \A c \in Buffers :
                                        c # b /\ ~made[c].closed => made[c].slab # made[b].slab
    BY <2>1 DEF BufferInv, InFactory, ReadInOrder, OwnMemory
  <2>2. IsInjective(pool)
    BY DEF BufferInv, OwnMemory
  <2> QED
    BY <2>1, <2>2 DEF PacketsKept, Buffers
<1> QED
  BY <1>1, BufferInvariant, PTL

-----------------------------------------------------------------------------
(* Remainders.                                                             *)

LEMMA Division ==
  ASSUME NEW d \in Nat, d > 0, NEW a \in Int
  PROVE  a % d \in 0 .. d - 1 /\ \E q \in Int : a = d * q + (a % d)
<1>1. a % d \in 0 .. d - 1
  OBVIOUS
<1>2. a \div d \in Int
  OBVIOUS
<1>3. a = d * (a \div d) + (a % d)
  OBVIOUS
<1> QED
  BY <1>1, <1>2, <1>3

LEMMA Remainder ==
  ASSUME NEW d \in Nat, d > 0, NEW q \in Int, NEW r \in 0 .. d - 1
  PROVE  (d * q + r) % d = r
OBVIOUS

\* Whole turns do not matter.
LEMMA Turns ==
  ASSUME NEW d \in Nat, d > 0, NEW a \in Int, NEW k \in Int
  PROVE  (a + d * k) % d = a % d
<1>1. PICK q \in Int : a = d * q + (a % d)
  BY Division
<1>2. a % d \in 0 .. d - 1
  BY Division
<1> DEFINE r == a % d
<1> HIDE DEF r
<1>3. a = d * q + r /\ r \in 0 .. d - 1
  BY <1>1, <1>2 DEF r
<1>4. a + d * k = d * (q + k) + r /\ q + k \in Int
  BY <1>3
<1>5. (d * (q + k) + r) % d = r
  BY <1>3, <1>4, Remainder
<1> QED
  BY <1>4, <1>5 DEF r

LEMMA OneTurn ==
  ASSUME NEW d \in Nat, d > 0, NEW a \in Int, NEW b \in Int, b = a + d
  PROVE  b % d = a % d
<1>1. PICK q \in Int : a = d * q + (a % d)
  BY Division
<1>2. a % d \in 0 .. d - 1
  BY Division
<1> DEFINE r == a % d
<1> HIDE DEF r
<1>3. b = d * (q + 1) + r /\ r \in 0 .. d - 1 /\ q + 1 \in Int
  BY <1>1, <1>2 DEF r
<1>4. (d * (q + 1) + r) % d = r
  BY <1>3, Remainder
<1> QED
  BY <1>3, <1>4 DEF r

LEMMA Apart ==
  ASSUME NEW d \in Nat, d > 0, NEW a \in Int, NEW b \in Int, a % d = b % d
  PROVE  \E k \in Int : a = b + d * k
<1>1. PICK q \in Int : a = d * q + (a % d)
  BY Division
<1>2. PICK p \in Int : b = d * p + (b % d)
  BY Division
<1>3. a % d \in Int
  BY Division
<1> DEFINE r == a % d
<1> HIDE DEF r
<1>4. a = d * q + r /\ b = d * p + r /\ r \in Int
  BY <1>1, <1>2, <1>3 DEF r
<1>5. a = b + d * (q - p) /\ q - p \in Int
  BY <1>4
<1> QED
  BY <1>5

\* Numbers less than a turn apart have different remainders.
LEMMA Close ==
  ASSUME NEW d \in Nat, d > 0, NEW a \in Int, NEW b \in Int, a % d = b % d,
         a - b < d, b - a < d
  PROVE  a = b
<1>1. PICK k \in Int : a = b + d * k
  BY Apart
<1>2. CASE k >= 1
  <2>1. d * k >= d
    BY <1>2
  <2> QED
    BY <1>1, <2>1
<1>3. CASE k <= 0 - 1
  <2>1. d * k <= 0 - d
    BY <1>3
  <2> QED
    BY <1>1, <2>1
<1>4. CASE k = 0
  BY <1>1, <1>4
<1> QED
  BY <1>2, <1>3, <1>4

LEMMA RemainderOfSum ==
  ASSUME NEW d \in Nat, d > 0, NEW a \in Int, NEW c \in Int
  PROVE  ((a % d) + c) % d = (a + c) % d
<1>1. PICK q \in Int : a = d * q + (a % d)
  BY Division
<1>2. a % d \in Int
  BY Division
<1> DEFINE r == a % d
<1> HIDE DEF r
<1>3. a = d * q + r /\ r \in Int
  BY <1>1, <1>2 DEF r
<1>4. a + c = (r + c) + d * q /\ r + c \in Int
  BY <1>3
<1>5. ((r + c) + d * q) % d = (r + c) % d
  BY <1>4, Turns
<1> QED
  BY <1>4, <1>5 DEF r

LEMMA RemainderOfDifference ==
  ASSUME NEW d \in Nat, d > 0, NEW a \in Int, NEW b \in Int
  PROVE  ((a % d) - (b % d)) % d = (a - b) % d
<1>1. PICK q \in Int : b = d * q + (b % d)
  BY Division
<1>2. b % d \in Int /\ a % d \in Int
  BY Division
<1> DEFINE r == b % d
<1> HIDE DEF r
<1>3. b = d * q + r /\ r \in Int
  BY <1>1, <1>2 DEF r
<1>4. a - r = (a - b) + d * q /\ a - b \in Int /\ 0 - r \in Int
  BY <1>3
<1>5. ((a - b) + d * q) % d = (a - b) % d
  BY <1>4, Turns
<1>6. ((a % d) + (0 - r)) % d = (a + (0 - r)) % d
  BY <1>4, RemainderOfSum
<1>7. (a % d) + (0 - r) = (a % d) - r /\ a + (0 - r) = a - r
  BY <1>2, <1>3
<1> QED
  BY <1>4, <1>5, <1>6, <1>7 DEF r

LEMMA LessThanATurn ==
  ASSUME NEW d \in Nat, d > 0, NEW a \in Int
  PROVE  /\ a \in 0 .. d - 1 => a % d = a
         /\ a \in 0 - d .. 0 - 1 => a % d = a + d
<1>1. ASSUME a \in 0 .. d - 1 PROVE a % d = a
  <2>1. (d * 0 + a) % d = a
    BY <1>1, Remainder
  <2> QED
    BY <2>1
<1>2. ASSUME a \in 0 - d .. 0 - 1 PROVE a % d = a + d
  <2>1. (d * (0 - 1) + (a + d)) % d = a + d
    BY <1>2, Remainder
  <2>2. d * (0 - 1) + (a + d) = a
    BY <1>2
  <2> QED
    BY <2>1, <2>2
<1> QED
  BY <1>1, <1>2

-----------------------------------------------------------------------------
(* The bucket.  f is the first packet of the stream, t the highest one, S   *)
(* the packets the bucket took, C the ones that came.                       *)

Slot == [sn : Word, pkt : Int \cup {None}]
Ring == [init : BOOLEAN, head : Word, step : 0 .. N - 1, slot : [0 .. N - 1 -> Slot]]

SlotAt(e, f) == (e - f) % N
Entered(e) == [sn |-> e % W, pkt |-> e]

\* A slot has a packet of the window that belongs to it, or none; and its number
\* is the pooled memory's or that of the last packet it took.
Filled(s, j, f, t, S) ==
  s.pkt # None => s.pkt \in S /\ SlotAt(s.pkt, f) = j /\ s.pkt > t - N /\ s.sn = s.pkt % W
LastOf(j, f, S) == {d \in S : SlotAt(d, f) = j /\ \A c \in S : SlotAt(c, f) = j => c <= d}
Numbered(s, j, f, S) == s.sn \in Leftover \/ \E d \in LastOf(j, f, S) : d % W = s.sn

Window(k, f, t, S) ==
  /\ k \in Ring /\ k.init /\ k.head = t % W /\ k.step = (t - f + 1) % N
  /\ \A j \in 0 .. N - 1 : Filled(k.slot[j], j, f, t, S) /\ Numbered(k.slot[j], j, f, S)
  /\ \A e \in S : e > t - N => k.slot[SlotAt(e, f)] = Entered(e)

\* What came and was not taken was mistaken for a repeated packet.
Turned(e, S) ==
  \E d \in S : /\ d < e /\ (e - d) % W = 0 /\ (e - d) % N = 0
               /\ \A c \in S : d < c /\ c < e => (e - c) % N # 0
Mistaken(t, C, S) == \A e \in C \ S : e > t - N => e % W \in Leftover \/ Turned(e, S)

LEMMA Sizes ==
  /\ W \in Nat /\ W > 0 /\ N \in Nat /\ N > 0 /\ N <= Half /\ Half \in Nat /\ W = Half + Half
  /\ Reach \in Nat /\ Reach < Half /\ M \in Nat /\ M > 0
  /\ Leftover \subseteq Word /\ Start \subseteq Int /\ None \notin Int
  /\ 0 \in Layer /\ Layer \subseteq Nat
<1>1. W = Half + Half /\ Half \in Nat
  <2>1. W \in Nat /\ W > 0 /\ W % 2 = 0
    BY PathAssumption
  <2> QED
    BY <2>1 DEF Half
<1> QED
  BY <1>1, PathAssumption DEF Half, Word

LEMMA SlotIn == ASSUME NEW e \in Int, NEW f \in Int PROVE SlotAt(e, f) \in 0 .. N - 1
<1>1. N \in Nat /\ N > 0 /\ e - f \in Int
  BY Sizes
<1> QED
  BY <1>1, Division DEF SlotAt

LEMMA NumberIn == ASSUME NEW e \in Int PROVE e % W \in Word
<1>1. W \in Nat /\ W > 0
  BY Sizes
<1> QED
  BY <1>1, Division DEF Word

\* How far apart two numbers are, from what is left of them.
LEMMA Distance ==
  ASSUME NEW a \in Int, NEW b \in Int
  PROVE  /\ Sub(a % W, b % W) = (a - b) % W /\ Sub(a % W, b % W) \in Word
         /\ a - b \in Word => Sub(a % W, b % W) = a - b
         /\ b - a \in 1 .. W => Sub(a % W, b % W) = W + (a - b)
<1>1. W \in Nat /\ W > 0 /\ a - b \in Int
  BY Sizes
<1>2. Sub(a % W, b % W) = (a - b) % W
  BY <1>1, RemainderOfDifference DEF Sub
<1>3. (a - b) % W \in Word
  BY <1>1, Division DEF Word
<1>4. a - b \in Word => (a - b) % W = a - b
  BY <1>1, LessThanATurn DEF Word
<1>5. b - a \in 1 .. W => (a - b) % W = W + (a - b)
  <2>1. b - a \in 1 .. W => a - b \in 0 - W .. 0 - 1
    BY <1>1
  <2>2. a - b \in 0 - W .. 0 - 1 => (a - b) % W = (a - b) + W
    BY <1>1, LessThanATurn
  <2> QED
    BY <1>1, <2>1, <2>2
<1> QED
  BY <1>2, <1>3, <1>4, <1>5

\* Two packets of one slot less than a ring apart are one.
LEMMA OneSlot ==
  ASSUME NEW a \in Int, NEW b \in Int, NEW f \in Int, SlotAt(a, f) = SlotAt(b, f),
         a - b < N, b - a < N
  PROVE  a = b
<1>1. /\ N \in Nat /\ N > 0 /\ a - f \in Int /\ b - f \in Int
      /\ (a - f) - (b - f) < N /\ (b - f) - (a - f) < N
  BY Sizes
<1>2. (a - f) % N = (b - f) % N
  BY DEF SlotAt
<1>3. a - f = b - f
  BY <1>1, <1>2, Close
<1> QED
  BY <1>3

\* The slot i after the step of a ring whose highest packet is t.
LEMMA SlotAfter ==
  ASSUME NEW f \in Int, NEW t \in Int, NEW i \in Int
  PROVE  (((t - f + 1) % N) + i) % N = SlotAt(t + 1 + i, f)
<1>1. N \in Nat /\ N > 0 /\ t - f + 1 \in Int
  BY Sizes
<1>2. (((t - f + 1) % N) + i) % N = ((t - f + 1) + i) % N
  BY <1>1, RemainderOfSum
<1>3. (t - f + 1) + i = t + 1 + i - f
  OBVIOUS
<1> QED
  BY <1>2, <1>3 DEF SlotAt

\* A packet of the ring is in the slot of its number.
LEMMA SlotOfPacket ==
  ASSUME NEW k, NEW f \in Int, NEW t \in Int, NEW e \in Int, t - e \in Word,
         k.head = t % W, k.step = (t - f + 1) % N
  PROVE  SlotOf(k, e % W) = SlotAt(e, f)
<1>1. Sub(k.head, e % W) = t - e
  BY Distance
<1>2. (((t - f + 1) % N) + (0 - (t - e) - 1)) % N = SlotAt(t + 1 + (0 - (t - e) - 1), f)
  BY SlotAfter
<1>3. t + 1 + (0 - (t - e) - 1) = e
  OBVIOUS
<1>4. (t - f + 1) % N \in Int
  BY Sizes, Division
<1>5. ((t - f + 1) % N) - (t - e) - 1 = ((t - f + 1) % N) + (0 - (t - e) - 1)
  BY <1>4
<1> QED
  BY <1>1, <1>2, <1>3, <1>5 DEF SlotOf

\* The next packet, after a gap or not.
LEMMA PushKeeps ==
  ASSUME NEW k, NEW f \in Int, NEW t \in Int, NEW S \in SUBSET Int, Window(k, f, t, S),
         \A c \in S : c <= t, NEW e \in Int, e > t, e - t <= Half
  PROVE  Window(push(k, e), f, e, S \cup {e})
<1> DEFINE gap == e - t - 1
           at  == SlotAt(e, f)
           k2  == push(k, e)
           T   == S \cup {e}
<1>1. /\ k \in Ring /\ k.init /\ k.head = t % W /\ k.step = (t - f + 1) % N
      /\ \A j \in 0 .. N - 1 : Filled(k.slot[j], j, f, t, S) /\ Numbered(k.slot[j], j, f, S)
      /\ \A c \in S : c > t - N => k.slot[SlotAt(c, f)] = Entered(c)
  BY DEF Window
<1>2. e - t \in Word /\ N \in Nat /\ N > 0 /\ None \notin Int
  BY Sizes DEF Word
<1>3. Sub(e % W, k.head) - 1 = gap /\ gap \in Nat
  BY <1>1, <1>2, Distance
<1>4. (k.step + gap) % N = at
  <2>1. t + 1 + gap = e
    OBVIOUS
  <2> QED
    BY <1>1, <1>3, <2>1, SlotAfter
<1>5. (k.step + gap + 1) % N = (e - f + 1) % N /\ (e - f + 1) % N \in 0 .. N - 1
  <2>1. (((t - f + 1) % N) + (gap + 1)) % N = SlotAt(t + 1 + (gap + 1), f)
    BY <1>3, SlotAfter
  <2>2. t + 1 + (gap + 1) - f = e - f + 1
    OBVIOUS
  <2>3. k.step \in Int /\ k.step + gap + 1 = k.step + (gap + 1)
    BY <1>1, <1>3 DEF Ring
  <2>4. (e - f + 1) % N \in 0 .. N - 1
    BY <1>2, Division
  <2> QED
    BY <1>1, <2>1, <2>2, <2>3, <2>4 DEF SlotAt
<1>6. e % W \in Word /\ at \in 0 .. N - 1 /\ Entered(e) \in Slot
  BY NumberIn, SlotIn DEF Entered, Slot
<1> DEFINE slots == Invalidate(k.slot, k.step, gap)
<1>7. /\ slots \in [0 .. N - 1 -> Slot]
      /\ \A j \in 0 .. N - 1 :
           slots[j] = IF (j - k.step) % N < gap THEN [k.slot[j] EXCEPT !.pkt = None] ELSE k.slot[j]
  <2>1. \A j \in 0 .. N - 1 : k.slot[j] \in Slot /\ [k.slot[j] EXCEPT !.pkt = None] \in Slot
    BY <1>1 DEF Ring, Slot
  <2> QED
    BY <2>1 DEF Invalidate
<1>8. k2 = [k EXCEPT !.head = e % W, !.slot = [slots EXCEPT ![at] = Entered(e)],
                     !.step = (e - f + 1) % N]
  BY <1>3, <1>4, <1>5 DEF push, Entered
<1> HIDE DEF slots, k2
<1>9. /\ k2 \in Ring /\ k2.init /\ k2.head = e % W /\ k2.step = (e - f + 1) % N
      /\ k2.slot = [slots EXCEPT ![at] = Entered(e)]
  <2>1. [slots EXCEPT ![at] = Entered(e)] \in [0 .. N - 1 -> Slot]
    BY <1>6, <1>7
  <2> DEFINE s == [slots EXCEPT ![at] = Entered(e)]
  <2> HIDE DEF s
  <2>2. k2 = [k EXCEPT !.head = e % W, !.slot = s, !.step = (e - f + 1) % N]
        /\ s \in [0 .. N - 1 -> Slot]
    BY <1>8, <2>1 DEF s
  <2>3. k2 \in Ring /\ k2.init /\ k2.head = e % W /\ k2.step = (e - f + 1) % N /\ k2.slot = s
    BY <1>1, <1>5, <1>6, <2>2 DEF Ring
  <2> QED
    BY <2>3 DEF s
<1>10. k2.slot[at] = Entered(e)
       /\ \A j \in 0 .. N - 1 : j # at => k2.slot[j] = slots[j]
  BY <1>6, <1>7, <1>9
\* A slot is made invalid when the gap passes over its packet.
<1>11. ASSUME NEW p \in Int, p <= t, p > t - N
       PROVE  (SlotAt(p, f) - k.step) % N = p + N - t - 1
  <2>1. (SlotAt(p, f) - k.step) % N = ((p - f) - (t - f + 1)) % N
    BY <1>1, <1>2, RemainderOfDifference DEF SlotAt
  <2>2. (p - f) - (t - f + 1) = p - t - 1
    OBVIOUS
  <2>3. p - t - 1 \in 0 - N .. 0 - 1
    BY <1>2, <1>11
  <2>4. (p - t - 1) % N = (p - t - 1) + N
    BY <1>2, <2>3, LessThanATurn
  <2> QED
    BY <1>2, <2>1, <2>2, <2>4
<1>12. ASSUME NEW j \in 0 .. N - 1 PROVE Filled(k2.slot[j], j, f, e, T)
  <2>1. CASE j = at
    BY <1>2, <1>10, <2>1 DEF Filled, Entered
  <2>2. CASE j # at
    <3> SUFFICES ASSUME slots[j].pkt # None
                 PROVE  /\ slots[j].pkt \in T /\ SlotAt(slots[j].pkt, f) = j
                        /\ slots[j].pkt > e - N /\ slots[j].sn = slots[j].pkt % W
      BY <1>10, <2>2 DEF Filled
    <3>1. k.slot[j] \in Slot
      BY <1>1 DEF Ring
    <3>2. ~((j - k.step) % N < gap) /\ slots[j] = k.slot[j]
      BY <1>7, <3>1 DEF Slot
    <3> DEFINE p == k.slot[j].pkt
    <3>3. p \in S /\ SlotAt(p, f) = j /\ p > t - N /\ k.slot[j].sn = p % W
      BY <1>1, <3>2 DEF Filled
    <3> HIDE DEF p
    <3>4. p \in Int /\ p <= t
      BY <3>3
    <3>5. ~(p + N - t - 1 < gap)
      BY <1>11, <3>2, <3>3, <3>4
    <3>6. p + N # e
      <4>1. ASSUME p + N = e PROVE FALSE
        <5>1. e - f = (p - f) + N /\ p - f \in Int /\ e - f \in Int
          BY <1>2, <3>4, <4>1
        <5>2. (e - f) % N = (p - f) % N
          BY <1>2, <5>1, OneTurn
        <5> QED
          BY <2>2, <3>3, <5>2 DEF SlotAt
      <4> QED
        BY <4>1
    <3>7. p > e - N
      BY <1>2, <3>4, <3>5, <3>6
    <3> QED
      BY <3>2, <3>3, <3>7 DEF p
  <2> QED
    BY <2>1, <2>2
<1>13. ASSUME NEW j \in 0 .. N - 1 PROVE Numbered(k2.slot[j], j, f, T)
  <2>1. CASE j = at
    <3>1. e \in LastOf(j, f, T)
      BY <2>1 DEF LastOf
    <3> QED
      BY <1>10, <2>1, <3>1 DEF Numbered, Entered
  <2>2. CASE j # at
    <3>1. k2.slot[j].sn = k.slot[j].sn
      BY <1>1, <1>7, <1>10, <2>2 DEF Ring, Slot
    <3>2. LastOf(j, f, S) \subseteq LastOf(j, f, T)
      BY <2>2 DEF LastOf
    <3> QED
      BY <1>1, <3>1, <3>2 DEF Numbered
  <2> QED
    BY <2>1, <2>2
<1>14. ASSUME NEW c \in T, c > e - N PROVE k2.slot[SlotAt(c, f)] = Entered(c)
  <2>1. CASE c = e
    BY <1>10, <2>1
  <2>2. CASE c # e
    <3>1. c \in S /\ c \in Int /\ c <= t /\ c > t - N
      BY <1>2, <1>14, <2>2
    <3>2. SlotAt(c, f) # at /\ SlotAt(c, f) \in 0 .. N - 1
      BY <1>2, <1>14, <2>2, <3>1, OneSlot, SlotIn
    <3>3. ~((SlotAt(c, f) - k.step) % N < gap)
      BY <1>2, <1>11, <1>14, <3>1
    <3> QED
      BY <1>1, <1>7, <1>10, <3>1, <3>2, <3>3
  <2> QED
    BY <2>1, <2>2
<1> QED
  BY <1>9, <1>12, <1>13, <1>14 DEF Window, k2

\* A late packet.
LEMMA SetKeeps ==
  ASSUME NEW k, NEW f \in Int, NEW t \in Int, NEW S \in SUBSET Int, Window(k, f, t, S),
         \A c \in S : c <= t, NEW e \in Int, e <= t, e > t - N
  PROVE  Window(Set(k, e), f, t, S \cup {e})
<1> DEFINE at == SlotAt(e, f)
           k2 == Set(k, e)
           T  == S \cup {e}
<1>1. /\ k \in Ring /\ k.init /\ k.head = t % W /\ k.step = (t - f + 1) % N
      /\ \A j \in 0 .. N - 1 : Filled(k.slot[j], j, f, t, S) /\ Numbered(k.slot[j], j, f, S)
      /\ \A c \in S : c > t - N => k.slot[SlotAt(c, f)] = Entered(c)
  BY DEF Window
<1>2. t - e \in Word /\ N \in Nat /\ N > 0 /\ None \notin Int
  BY Sizes DEF Word
<1>3. SlotOf(k, e % W) = at
  BY <1>1, <1>2, SlotOfPacket
<1>4. at \in 0 .. N - 1 /\ Entered(e) \in Slot
  BY NumberIn, SlotIn DEF Entered, Slot
<1>5. k2 = [k EXCEPT !.slot[at] = Entered(e)]
  BY <1>3 DEF Set, Entered
<1> HIDE DEF k2, at
<1>6. /\ k2 \in Ring /\ k2.init /\ k2.head = t % W /\ k2.step = (t - f + 1) % N
      /\ k2.slot = [k.slot EXCEPT ![at] = Entered(e)]
  BY <1>1, <1>4, <1>5 DEF Ring
<1>7. k2.slot[at] = Entered(e) /\ \A j \in 0 .. N - 1 : j # at => k2.slot[j] = k.slot[j]
  BY <1>1, <1>4, <1>6 DEF Ring
<1>8. \A c \in S : SlotAt(c, f) = at /\ c > t - N => c = e
  BY <1>2, OneSlot DEF at
<1>9. ASSUME NEW j \in 0 .. N - 1 PROVE Filled(k2.slot[j], j, f, t, T)
  <2>1. CASE j = at
    BY <1>7, <2>1 DEF Filled, Entered, at
  <2>2. CASE j # at
    BY <1>1, <1>7, <2>2 DEF Filled
  <2> QED
    BY <2>1, <2>2
<1>10. ASSUME NEW j \in 0 .. N - 1 PROVE Numbered(k2.slot[j], j, f, T)
  <2>1. CASE j = at
    <3>1. \A c \in S : SlotAt(c, f) = j => c <= e
      BY <1>2, <1>8, <2>1
    <3>2. e \in LastOf(j, f, T)
      BY <2>1, <3>1 DEF LastOf, at
    <3> QED
      BY <1>7, <2>1, <3>2 DEF Numbered, Entered
  <2>2. CASE j # at
    <3>1. LastOf(j, f, S) \subseteq LastOf(j, f, T)
      BY <2>2 DEF LastOf, at
    <3> QED
      BY <1>1, <1>7, <2>2, <3>1 DEF Numbered
  <2> QED
    BY <2>1, <2>2
<1>11. ASSUME NEW c \in T, c > t - N PROVE k2.slot[SlotAt(c, f)] = Entered(c)
  <2>1. CASE c = e
    BY <1>7, <2>1 DEF at
  <2>2. CASE c # e
    <3>1. c \in S /\ c \in Int /\ SlotAt(c, f) # at
      BY <1>8, <1>11, <2>2
    <3> QED
      BY <1>1, <1>7, <1>11, <3>1, SlotIn
  <2> QED
    BY <2>1, <2>2
<1> QED
  BY <1>6, <1>9, <1>10, <1>11 DEF Window, k2

\* What is found is a packet of the window, under its number.
LEMMA FindsWhatCame ==
  ASSUME NEW k, NEW f \in Int, NEW t \in Int, NEW S \in SUBSET Int, Window(k, f, t, S),
         \A c \in S : c <= t, NEW sn \in Word, GetPacket(k, sn) # None
  PROVE  /\ GetPacket(k, sn) \in S /\ GetPacket(k, sn) % W = sn
         /\ t - GetPacket(k, sn) \in 0 .. N - 1
<1> DEFINE j == SlotOf(k, sn)
           s == k.slot[j]
<1>1. GetPacket(k, sn) = s.pkt /\ s.sn = sn /\ s.pkt # None
  BY DEF GetPacket
<1>2. j \in 0 .. N - 1
  <2>1. N \in Nat /\ N > 0 /\ k.step \in Int /\ Sub(k.head, sn) \in Int
    <3>1. k.head \in Int /\ sn \in Int /\ W \in Nat /\ W > 0
      BY Sizes DEF Window, Ring, Word
    <3> QED
      BY <3>1, Division, Sizes DEF Window, Ring, Sub
  <2> QED
    BY <2>1, Division DEF SlotOf
<1> HIDE DEF j
<1>3. s.pkt \in S /\ s.pkt > t - N /\ s.sn = s.pkt % W
  BY <1>1, <1>2 DEF Window, Filled
<1>4. t - s.pkt \in 0 .. N - 1
  <2> DEFINE p == s.pkt
  <2>1. p \in Int /\ p <= t /\ p > t - N /\ N \in Nat
    BY <1>3, Sizes
  <2> HIDE DEF p
  <2>2. t - p \in 0 .. N - 1
    BY <2>1
  <2> QED
    BY <2>2 DEF p
<1> QED
  BY <1>1, <1>3, <1>4

\* What was taken and is in the window is found.
LEMMA FindsTheTaken ==
  ASSUME NEW k, NEW f \in Int, NEW t \in Int, NEW S \in SUBSET Int, Window(k, f, t, S),
         NEW e \in S, e <= t, e > t - N
  PROVE  GetPacket(k, e % W) = e
<1>1. t - e \in Word /\ t - e < N /\ e \in Int
  BY Sizes DEF Word
<1>2. SlotOf(k, e % W) = SlotAt(e, f) /\ Sub(k.head, e % W) = t - e
  BY <1>1, SlotOfPacket, Distance DEF Window
<1>3. k.slot[SlotAt(e, f)] = Entered(e)
  BY DEF Window
<1> QED
  BY <1>1, <1>2, <1>3 DEF GetPacket, Entered

\* A packet less than half the words from the highest one is ahead or late as
\* the code takes it.
LEMMA AheadOrLate ==
  ASSUME NEW t \in Int, NEW e \in t - Reach .. t + Reach
  PROVE  /\ e \in Int /\ e - t <= Half /\ t - e \in Int
         /\ e > t => Sub(e % W, t % W) \in 1 .. Half
         /\ e <= t => /\ Sub(e % W, t % W) \notin 1 .. Half
                      /\ Sub(t % W, e % W) = t - e
<1>1. /\ e \in Int /\ e - t <= Reach /\ t - e <= Reach /\ Reach \in Nat /\ Reach < Half
      /\ Half \in Nat /\ W = Half + Half
  BY Sizes
<1>2. ASSUME e > t PROVE Sub(e % W, t % W) \in 1 .. Half
  <2>1. e - t \in Word
    BY <1>1, <1>2 DEF Word
  <2>2. Sub(e % W, t % W) = e - t
    BY <1>1, <2>1, Distance
  <2> QED
    BY <1>1, <1>2, <2>2
<1>3. ASSUME e <= t PROVE Sub(t % W, e % W) = t - e
  <2>1. t - e \in Word
    BY <1>1, <1>3 DEF Word
  <2> QED
    BY <1>1, <2>1, Distance
<1>4. ASSUME e <= t PROVE Sub(e % W, t % W) \notin 1 .. Half
  <2>1. CASE e = t
    <3>1. e - t \in Word
      BY <1>1, <2>1 DEF Word
    <3>2. Sub(e % W, t % W) = e - t
      BY <1>1, <3>1, Distance
    <3> QED
      BY <2>1, <3>2
  <2>2. CASE e < t
    <3>1. t - e \in 1 .. W
      BY <1>1, <2>2
    <3>2. Sub(e % W, t % W) = W + (e - t)
      BY <1>1, <3>1, Distance
    <3> QED
      BY <1>1, <3>2
  <2> QED
    BY <1>1, <1>4, <2>1, <2>2
<1> QED
  BY <1>1, <1>2, <1>3, <1>4

\* A packet that is taken does not make another one the last of its slot, when
\* that is still wanted.
LEMMA StillTurned ==
  ASSUME NEW t \in Int, NEW S \in SUBSET Int, NEW x \in Int, Turned(x, S), x <= t,
         NEW e \in Int, x < e \/ (e <= t /\ e > t - N)
  PROVE  Turned(x, S \cup {e})
<1>1. PICK d \in S : /\ d < x /\ (x - d) % W = 0 /\ (x - d) % N = 0
                     /\ \A c \in S : d < c /\ c < x => (x - c) % N # 0
  BY DEF Turned
<1>2. N \in Nat /\ N > 0 /\ x - e \in Int
  BY Sizes
<1>3. e < x => (x - e) % N # 0
  <2> SUFFICES ASSUME e < x PROVE (x - e) % N # 0
    OBVIOUS
  <2>1. x - e \in 0 .. N - 1 /\ x - e # 0
    BY <1>2
  <2>2. (x - e) % N = x - e
    BY <1>2, <2>1, LessThanATurn
  <2> QED
    BY <2>1, <2>2
<1> QED
  BY <1>1, <1>3 DEF Turned

\* Packets of one slot are whole rings apart.
LEMMA SameSlot ==
  ASSUME NEW a \in Int, NEW b \in Int, NEW f \in Int
  PROVE  SlotAt(a, f) = SlotAt(b, f) <=> (b - a) % N = 0
<1> DEFINE x == a - f
           y == b - f
<1>1. /\ N \in Nat /\ N > 0 /\ x \in Int /\ y \in Int /\ b - a = y - x
      /\ SlotAt(a, f) = x % N /\ SlotAt(b, f) = y % N
  BY Sizes DEF SlotAt
<1> HIDE DEF x, y
<1>2. x % N \in Int /\ y % N \in Int /\ ((y % N) - (x % N)) % N = (y - x) % N
  <2>1. x % N \in 0 .. N - 1 /\ y % N \in 0 .. N - 1
    BY <1>1, Division
  <2>2. ((y % N) - (x % N)) % N = (y - x) % N
    BY <1>1, RemainderOfDifference
  <2> QED
    BY <2>1, <2>2
<1>3. ASSUME x % N = y % N PROVE (y - x) % N = 0
  <2>1. (y % N) - (x % N) = 0 /\ 0 % N = 0
    BY <1>1, <1>2, <1>3, LessThanATurn
  <2> QED
    BY <1>2, <2>1
<1>4. ASSUME (y - x) % N = 0 PROVE x % N = y % N
  <2>1. PICK q \in Int : y - x = N * q + ((y - x) % N)
    BY <1>1, Division
  <2>2. y = x + N * q
    BY <1>1, <1>4, <2>1
  <2>3. (x + N * q) % N = x % N
    BY <1>1, Turns
  <2> QED
    BY <2>2, <2>3
<1> QED
  BY <1>1, <1>3, <1>4

\* A packet that is refused came before, or its slot holds its number.
LEMMA RefusedForAReason ==
  ASSUME NEW k, NEW f \in Int, NEW t \in Int, NEW S \in SUBSET Int, Window(k, f, t, S),
         \A c \in S : c <= t, NEW e \in t - Reach .. t + Reach, Refuses(k, e), e > t - N
  PROVE  e \in S \/ e % W \in Leftover \/ Turned(e, S)
<1>1. e \in Int /\ e <= t /\ Sub(k.head, e % W) = t - e
  BY AheadOrLate DEF Refuses, Window
<1>2. /\ N \in Nat /\ N > 0 /\ t - e < N /\ t - e \in Word
      /\ Reach < Half /\ Half \in Nat /\ W = Half + Half /\ W \in Nat /\ W > 0
  BY <1>1, Sizes DEF Word
<1>3. SlotOf(k, e % W) = SlotAt(e, f)
  BY <1>1, <1>2, SlotOfPacket DEF Window
<1> DEFINE j == SlotAt(e, f)
<1>4. k.slot[j].sn = e % W
  BY <1>1, <1>2, <1>3 DEF Refuses
<1>5. j \in 0 .. N - 1
  BY <1>1, SlotIn
<1>6. Numbered(k.slot[j], j, f, S)
  BY <1>5 DEF Window
<1>7. CASE e % W \notin Leftover /\ e \notin S
  <2>1. PICK d \in LastOf(j, f, S) : d % W = e % W
    BY <1>4, <1>6, <1>7 DEF Numbered
  <2>2. d \in S /\ d \in Int /\ SlotAt(d, f) = j /\ (\A c \in S : SlotAt(c, f) = j => c <= d)
        /\ d <= t /\ d # e
    BY <1>7, <2>1 DEF LastOf
  <2>3. d < e
    BY <1>1, <1>2, <2>2, OneSlot
  <2>4. (e - d) % W = 0 /\ (e - d) % N = 0
    <3>1. ((e % W) - (d % W)) % W = (e - d) % W
      BY <1>1, <1>2, <2>2, RemainderOfDifference
    <3>2. (e % W) - (d % W) = 0
      <4>1. e % W \in Int /\ d % W \in Int
        BY <1>1, <2>2, NumberIn DEF Word
      <4> QED
        BY <2>1, <4>1
    <3>3. (e - d) % N = 0
      BY <1>1, <2>2, SameSlot
    <3>4. 0 % W = 0
      BY <1>2, LessThanATurn
    <3> QED
      BY <3>1, <3>2, <3>3, <3>4
  <2>5. ASSUME NEW c \in S, d < c, c < e, (e - c) % N = 0 PROVE FALSE
    <3>1. c \in Int /\ SlotAt(c, f) = j
      BY <1>1, <2>5, SameSlot
    <3> QED
      BY <2>2, <2>5, <3>1
  <2> QED
    BY <2>2, <2>3, <2>4, <2>5 DEF Turned
<1> QED
  BY <1>7

Taken(k, e, S)  == IF Refuses(k, e) THEN S ELSE S \cup {e}
Bucketed(k, e) == IF Refuses(k, e) THEN k ELSE AddPacket(k, e)

\* The window moves with each packet that arrives.
LEMMA ArrivalKeeps ==
  ASSUME NEW k, NEW f \in Int, NEW t \in Int, NEW C \in SUBSET Int, NEW S \in SUBSET C,
         Window(k, f, t, S), Mistaken(t, C, S), \A c \in C : c <= t,
         NEW e \in t - Reach .. t + Reach
  PROVE  /\ Window(Bucketed(k, e), f, Higher(t, e), Taken(k, e, S))
         /\ Mistaken(Higher(t, e), C \cup {e}, Taken(k, e, S))
<1>1. /\ e \in Int /\ t # None /\ N \in Nat /\ N > 0 /\ S \in SUBSET Int
      /\ k.init /\ k.head = t % W
  BY AheadOrLate, Sizes DEF Window
<1>2. CASE e > t
  <2>1. Sub(e % W, k.head) \in 1 .. Half /\ e - t <= Half
    BY <1>1, <1>2, AheadOrLate
  <2>2. ~Refuses(k, e) /\ AddPacket(k, e) = push(k, e) /\ Higher(t, e) = e
    BY <1>1, <1>2, <2>1 DEF Refuses, AddPacket, Higher
  <2>3. Window(push(k, e), f, e, S \cup {e})
    BY <1>1, <1>2, <2>1, PushKeeps
  <2>4. Mistaken(e, C \cup {e}, S \cup {e})
    <3> SUFFICES ASSUME NEW x \in C \ S, x > e - N, x % W \notin Leftover
                 PROVE  Turned(x, S \cup {e})
      BY DEF Mistaken
    <3>1. x \in Int /\ x <= t /\ x > t - N /\ x < e
      BY <1>1, <1>2
    <3>2. Turned(x, S)
      BY <3>1 DEF Mistaken
    <3> QED
      BY <1>1, <3>1, <3>2, StillTurned
  <2> QED
    BY <2>2, <2>3, <2>4 DEF Bucketed, Taken
<1>3. CASE e <= t
  <2>1. /\ Sub(e % W, k.head) \notin 1 .. Half /\ Sub(k.head, e % W) = t - e
        /\ Higher(t, e) = t
    BY <1>1, <1>3, AheadOrLate DEF Higher
  <2>2. CASE Refuses(k, e)
    <3>1. Mistaken(t, C \cup {e}, S)
      <4> SUFFICES ASSUME e \notin S, e > t - N PROVE e % W \in Leftover \/ Turned(e, S)
        BY DEF Mistaken
      <4> QED
        BY <1>1, <2>2, RefusedForAReason
    <3> QED
      BY <2>1, <2>2, <3>1 DEF Bucketed, Taken
  <2>3. CASE ~Refuses(k, e)
    <3>1. AddPacket(k, e) = Set(k, e) /\ e > t - N
      BY <1>1, <2>1, <2>3 DEF Refuses, AddPacket
    <3>2. Window(Set(k, e), f, t, S \cup {e})
      BY <1>1, <1>3, <3>1, SetKeeps
    <3>3. Mistaken(t, C \cup {e}, S \cup {e})
      <4> SUFFICES ASSUME NEW x \in C \ S, x > t - N, x % W \notin Leftover
                   PROVE  Turned(x, S \cup {e})
        BY DEF Mistaken
      <4>1. Turned(x, S) /\ x <= t /\ x \in Int
        BY DEF Mistaken
      <4> QED
        BY <1>1, <1>3, <3>1, <4>1, StillTurned
    <3> QED
      BY <2>1, <2>3, <3>1, <3>2, <3>3 DEF Bucketed, Taken
  <2> QED
    BY <2>2, <2>3
<1> QED
  BY <1>1, <1>2, <1>3

Fresh(k) ==
  /\ k \in Ring /\ ~k.init /\ k.step = 0
  /\ \A j \in 0 .. N - 1 : k.slot[j].pkt = None /\ k.slot[j].sn \in Leftover

\* The first packet starts the window.
LEMMA FirstArrivalKeeps ==
  ASSUME NEW k, Fresh(k), NEW e \in Int
  PROVE  ~Refuses(k, e) /\ Window(AddPacket(k, e), e, e, {e})
<1>1. ~Refuses(k, e)
  BY DEF Fresh, Refuses
<1> DEFINE k1 == [k EXCEPT !.init = TRUE, !.head = Sub(e, 1)]
<1>2. /\ W \in Nat /\ W > 0 /\ N \in Nat /\ N > 0 /\ W = Half + Half /\ Half \in Nat
      /\ Half >= 1 /\ None \notin Int
  BY Sizes
<1>3. Sub(e, 1) = (e - 1) % W /\ (e - 1) % W \in Word
  BY <1>2, NumberIn DEF Sub
<1>4. k1 \in Ring /\ k1.init /\ k1.head = (e - 1) % W /\ k1.step = 0 /\ k1.slot = k.slot
  BY <1>3 DEF Fresh, Ring
<1> HIDE DEF k1
<1>5. (e - 1 - e + 1) % N = 0
  <2>1. e - 1 - e + 1 = 0 /\ 0 % N = 0
    BY <1>2, LessThanATurn
  <2> QED
    BY <2>1
<1>6. Window(k1, e, e - 1, {})
  BY <1>4, <1>5 DEF Window, Fresh, Filled, Numbered
<1>7. e - (e - 1) = 1 /\ e - 1 \in Int /\ e > e - 1 /\ 1 \in Word
  BY <1>2 DEF Word
<1>8. Sub(e % W, k1.head) = 1
  BY <1>4, <1>7, Distance
<1>9. AddPacket(k, e) = push(k1, e)
  BY <1>1, <1>2, <1>8 DEF AddPacket, Fresh, k1
<1>10. Window(push(k1, e), e, e, {} \cup {e})
  BY <1>2, <1>6, <1>7, PushKeeps
<1>11. {} \cup {e} = {e}
  OBVIOUS
<1> QED
  BY <1>1, <1>9, <1>10, <1>11

-----------------------------------------------------------------------------
(* What the buckets hold, in every state.                                  *)

Fields == {"begun", "max", "cycles", "nacks", "bucket"}
PacketTypeOK ==
  /\ DOMAIN buf = Layer /\ \A l \in Layer : DOMAIN buf[l] = Fields
  /\ came \in [Layer -> SUBSET Int] /\ stored \in [Layer -> SUBSET Int]
  /\ first \in [Layer -> Int \cup {None}] /\ top \in [Layer -> Int \cup {None}]

BucketOK(l) ==
  IF top[l] = None
  THEN first[l] = None /\ came[l] = {} /\ stored[l] = {} /\ Fresh(buf[l].bucket)
  ELSE /\ first[l] # None /\ stored[l] \subseteq came[l] /\ \A c \in came[l] : c <= top[l]
       /\ Window(buf[l].bucket, first[l], top[l], stored[l])
       /\ Mistaken(top[l], came[l], stored[l])

WindowInv == PacketTypeOK /\ \A l \in Layer : BucketOK(l)

LEMMA WindowStart == PathInit => WindowInv
<1> SUFFICES ASSUME PathInit PROVE WindowInv
  OBVIOUS
<1>1. PICK g \in Leftover : buf = [l \in Layer |-> NewBuffer(g)]
  BY DEF PathInit
<1>2. g \in Word /\ N \in Nat /\ N > 0 /\ W \in Nat /\ W > 0
  BY Sizes
<1>3. Fresh(NewBucket(g))
  <2>1. 0 \in 0 .. N - 1 /\ 0 \in Word
    BY <1>2 DEF Word
  <2>2. NewBucket(g).slot \in [0 .. N - 1 -> Slot]
    BY <1>2 DEF NewBucket, Slot
  <2>3. NewBucket(g) \in Ring
    BY <2>1, <2>2 DEF NewBucket, Ring
  <2> QED
    BY <2>3 DEF NewBucket, Fresh
<1>4. DOMAIN NewBuffer(g) = Fields /\ NewBuffer(g).bucket = NewBucket(g)
  BY DEF NewBuffer, Fields
<1>5. PacketTypeOK
  BY <1>1, <1>4 DEF PathInit, PacketTypeOK
<1>6. \A l \in Layer : BucketOK(l)
  BY <1>1, <1>3, <1>4 DEF PathInit, BucketOK
<1> QED
  BY <1>5, <1>6 DEF WindowInv

\* Counting and listing leave the bucket alone.
LEMMA CalcStores ==
  ASSUME NEW b, DOMAIN b = Fields, NEW e
  PROVE  DOMAIN Calc(b, e) = Fields /\ Calc(b, e).bucket = Bucketed(b.bucket, e)
<1> DEFINE c == Count(b, e)
<1>1. DOMAIN c = Fields /\ c.bucket = b.bucket
  BY DEF Count, Fields
<1> HIDE DEF c
<1>2. Calc(b, e) = IF Refuses(b.bucket, e) THEN c
                   ELSE [c EXCEPT !.begun = TRUE, !.bucket = AddPacket(@, e),
                                  !.nacks = Pairs(@, c.cycles + c.max)]
  BY DEF Calc, c
<1>3. CASE Refuses(b.bucket, e)
  BY <1>1, <1>2, <1>3 DEF Bucketed
<1>4. CASE ~Refuses(b.bucket, e)
  <2> DEFINE n == Pairs(c.nacks, c.cycles + c.max)
             k == AddPacket(c.bucket, e)
  <2>1. Calc(b, e) = [c EXCEPT !.begun = TRUE, !.bucket = k, !.nacks = n]
    BY <1>2, <1>4
  <2> HIDE DEF n, k
  <2>2. DOMAIN Calc(b, e) = Fields /\ Calc(b, e).bucket = k
    BY <1>1, <2>1 DEF Fields
  <2> QED
    BY <1>1, <1>4, <2>2 DEF Bucketed, k
<1> QED
  BY <1>3, <1>4

LEMMA WriteKeepsWindow ==
  ASSUME WindowInv, NEW l \in Layer, NEW e \in Ext, Write(l, e)
  PROVE  WindowInv'
<1> DEFINE k == buf[l].bucket
<1>1. /\ e \in Arrivals(l) /\ buf' = [buf EXCEPT ![l] = Calc(buf[l], e)]
      /\ stored' = IF Refuses(k, e) THEN stored
                   ELSE [stored EXCEPT ![l] = stored[l] \cup {e}]
      /\ came' = [came EXCEPT ![l] = came[l] \cup {e}]
      /\ first' = [first EXCEPT ![l] = IF first[l] = None THEN e ELSE first[l]]
      /\ top' = [top EXCEPT ![l] = Higher(top[l], e)]
  BY DEF Write
<1>2. /\ DOMAIN buf = Layer /\ (\A m \in Layer : DOMAIN buf[m] = Fields)
      /\ came \in [Layer -> SUBSET Int] /\ stored \in [Layer -> SUBSET Int]
      /\ first \in [Layer -> Int \cup {None}] /\ top \in [Layer -> Int \cup {None}]
      /\ BucketOK(l)
  BY DEF WindowInv, PacketTypeOK
<1>3. e \in Int /\ None \notin Int
  BY Sizes, PathAssumption DEF Ext
<1> HIDE DEF k
<1>4. /\ DOMAIN buf' = Layer /\ DOMAIN buf'[l] = Fields /\ buf'[l].bucket = Bucketed(k, e)
      /\ \A m \in Layer : m # l => buf'[m] = buf[m]
  <2>1. DOMAIN Calc(buf[l], e) = Fields /\ Calc(buf[l], e).bucket = Bucketed(k, e)
    BY <1>2, CalcStores DEF k
  <2> QED
    BY <1>1, <1>2, <2>1
<1>5. stored'[l] = Taken(k, e, stored[l]) /\ stored' \in [Layer -> SUBSET Int]
      /\ \A m \in Layer : m # l => stored'[m] = stored[m]
  BY <1>1, <1>2, <1>3 DEF Taken
<1>6. came'[l] = came[l] \cup {e} /\ came' \in [Layer -> SUBSET Int]
      /\ \A m \in Layer : m # l => came'[m] = came[m]
  BY <1>1, <1>2, <1>3
<1>7. /\ first'[l] = (IF first[l] = None THEN e ELSE first[l]) /\ first' \in [Layer -> Int \cup {None}]
      /\ \A m \in Layer : m # l => first'[m] = first[m]
  BY <1>1, <1>2, <1>3
<1>8. /\ top'[l] = Higher(top[l], e) /\ top' \in [Layer -> Int \cup {None}]
      /\ \A m \in Layer : m # l => top'[m] = top[m]
  <2>1. Higher(top[l], e) \in Int \cup {None}
    BY <1>2, <1>3 DEF Higher
  <2> QED
    BY <1>1, <1>2, <2>1
<1>9. PacketTypeOK'
  BY <1>2, <1>4, <1>5, <1>6, <1>7, <1>8 DEF PacketTypeOK
<1>10. ASSUME NEW m \in Layer, m # l PROVE BucketOK(m)'
  <2>1. BucketOK(m)
    BY DEF WindowInv
  <2>2. /\ buf'[m] = buf[m] /\ stored'[m] = stored[m] /\ came'[m] = came[m]
        /\ first'[m] = first[m] /\ top'[m] = top[m]
    BY <1>4, <1>5, <1>6, <1>7, <1>8, <1>10
  <2> QED
    BY <2>1, <2>2 DEF BucketOK
<1>11. BucketOK(l)'
  <2>1. CASE top[l] = None
    <3>1. first[l] = None /\ came[l] = {} /\ stored[l] = {} /\ Fresh(k)
      BY <1>2, <2>1 DEF BucketOK, k
    <3>2. ~Refuses(k, e) /\ Window(AddPacket(k, e), e, e, {e})
      BY <1>3, <3>1, FirstArrivalKeeps
    <3>3. /\ top'[l] = e /\ first'[l] = e /\ came'[l] = {e} /\ stored'[l] = {e}
          /\ buf'[l].bucket = AddPacket(k, e)
      BY <1>4, <1>5, <1>6, <1>7, <1>8, <2>1, <3>1, <3>2 DEF Higher, Taken, Bucketed
    <3>4. Mistaken(e, {e}, {e})
      BY DEF Mistaken
    <3>5. e # None /\ e <= e
      BY <1>3
    <3> QED
      BY <3>2, <3>3, <3>4, <3>5 DEF BucketOK
  <2>2. CASE top[l] # None
    <3>1. /\ first[l] # None /\ stored[l] \subseteq came[l] /\ (\A c \in came[l] : c <= top[l])
          /\ Window(k, first[l], top[l], stored[l]) /\ Mistaken(top[l], came[l], stored[l])
      BY <1>2, <2>2 DEF BucketOK, k
    <3>2. first[l] \in Int /\ top[l] \in Int /\ e \in top[l] - Reach .. top[l] + Reach
          /\ came[l] \in SUBSET Int /\ stored[l] \in SUBSET came[l]
      BY <1>1, <1>2, <2>2, <3>1 DEF Arrivals
    <3>3. /\ Window(Bucketed(k, e), first[l], Higher(top[l], e), Taken(k, e, stored[l]))
          /\ Mistaken(Higher(top[l], e), came[l] \cup {e}, Taken(k, e, stored[l]))
      BY <3>1, <3>2, ArrivalKeeps
    <3>4. first'[l] = first[l] /\ top'[l] # None
          /\ \A c \in came'[l] : c <= top'[l]
      BY <1>3, <1>6, <1>7, <1>8, <2>2, <3>1, <3>2 DEF Higher
    <3>5. stored'[l] \subseteq came'[l]
      BY <1>5, <1>6, <3>1 DEF Taken
    <3> QED
      BY <1>4, <1>5, <1>6, <1>8, <3>1, <3>3, <3>4, <3>5 DEF BucketOK
  <2> QED
    BY <2>1, <2>2
<1> QED
  BY <1>9, <1>10, <1>11 DEF WindowInv

LEMMA WindowStays ==
  ASSUME WindowInv, UNCHANGED <<buf, came, stored, first, top>>
  PROVE  WindowInv'
<1>1. PacketTypeOK'
  BY DEF WindowInv, PacketTypeOK
<1>2. ASSUME NEW l \in Layer PROVE BucketOK(l)'
  <2>1. BucketOK(l)
    BY DEF WindowInv
  <2> QED
    BY <2>1 DEF BucketOK
<1> QED
  BY <1>1, <1>2 DEF WindowInv

LEMMA OnlyArrivals ==
  [PathNext]_pathVars => \/ \E l \in Layer, e \in Ext : Write(l, e)
                         \/ UNCHANGED <<buf, came, stored, first, top, spent>>
BY DEF PathNext, pathVars, Skip, Take, WriteSimulcast, DropTemporal, SwitchSpatialLayer, Change,
       WriteSimple, Mute, Unmute, SwitchTemporalLayer, Nack, RetransmitPackets

\* Of every layer the bucket holds what it took of the last N numbers, each packet
\* in the slot of its number, for words, rings and streams of any length.
THEOREM WindowInvariant == PathSpec => []WindowInv
<1>1. WindowInv /\ [PathNext]_pathVars => WindowInv'
  BY OnlyArrivals, WriteKeepsWindow, WindowStays
<1> QED
  BY <1>1, WindowStart, PTL DEF PathSpec

\* What is found under a number is a packet of the last N that has that number.
LEMMA FindsOnlyTheWindow == WindowInv => \A l \in Layer : top[l] # None => FindsTheWindow(l)
<1> SUFFICES ASSUME WindowInv, NEW l \in Layer, top[l] # None, NEW sn \in Word,
                    GetPacket(buf[l].bucket, sn) # None
             PROVE  LET p == GetPacket(buf[l].bucket, sn)
                    IN  p \in came[l] /\ p % W = sn /\ top[l] - p \in 0 .. N - 1
  BY DEF FindsTheWindow
<1>1. /\ Window(buf[l].bucket, first[l], top[l], stored[l]) /\ first[l] \in Int /\ top[l] \in Int
      /\ stored[l] \subseteq came[l] /\ stored[l] \in SUBSET Int /\ \A c \in came[l] : c <= top[l]
  BY DEF WindowInv, PacketTypeOK, BucketOK
<1>2. \A c \in stored[l] : c <= top[l]
  BY <1>1
<1> QED
  BY <1>1, <1>2, FindsWhatCame

\* Every packet that arrived and is among the last N numbers is found under its
\* number, or was taken for a repeated one as the property says.
THEOREM StoresTheWindowHolds == PathSpec => []StoresTheWindow
<1>1. WindowInv => StoresTheWindow
  <2> SUFFICES ASSUME WindowInv, NEW l \in Layer, top[l] # None
               PROVE  /\ \A e \in came[l] : top[l] - e < N /\ e % W \notin Leftover
                                            /\ ~OlderTurn(l, e)
                           => GetPacket(buf[l].bucket, e % W) = e
                      /\ FindsTheWindow(l)
    BY DEF StoresTheWindow
  <2>1. /\ Window(buf[l].bucket, first[l], top[l], stored[l]) /\ first[l] \in Int
        /\ top[l] \in Int /\ stored[l] \in SUBSET Int /\ came[l] \in SUBSET Int
        /\ (\A c \in came[l] : c <= top[l]) /\ Mistaken(top[l], came[l], stored[l])
    BY DEF WindowInv, PacketTypeOK, BucketOK
  <2>2. ASSUME NEW e \in came[l], top[l] - e < N, e % W \notin Leftover, ~OlderTurn(l, e)
        PROVE  GetPacket(buf[l].bucket, e % W) = e
    <3>1. e \in Int /\ e <= top[l] /\ e > top[l] - N
      BY <2>1, <2>2, Sizes
    <3>2. ~Turned(e, stored[l])
      BY <2>2 DEF OlderTurn, Turned
    <3>3. e \in stored[l]
      BY <2>1, <2>2, <3>1, <3>2 DEF Mistaken
    <3> QED
      BY <2>1, <3>1, <3>3, FindsTheTaken
  <2> QED
    BY <2>2, FindsOnlyTheWindow
<1> QED
  BY <1>1, WindowInvariant, PTL

-----------------------------------------------------------------------------
(* What the queues, the sequencer and the worker pool refer to.            *)

Packet   == [of : Int, head : BOOLEAN]
Entry    == [source : Int, target : Int, layer : Layer, of : Int \cup {None}]
Answers  == [init : BOOLEAN, head : Int, step : Int, slot : [0 .. M - 1 -> Entry]]
InNumbers(t) == /\ DOMAIN t = DOMAIN NewTrack
               /\ t.offset \in Int /\ t.lastSN \in Int

\* An entry of the sequencer is of a packet that arrived on its layer.
Known(p) == p.of # None => p.of \in came[p.layer] /\ p.source = p.of % W

ReferenceTypeOK ==
  /\ queue \in [Layer -> Seq(Packet)] /\ InNumbers(track)
  /\ seqr \in Answers /\ rtx \in Entry \cup {None}
ReferenceInv ==
  /\ WindowInv /\ ReferenceTypeOK
  /\ \A l \in Layer : \A i \in 1 .. Len(queue[l]) : queue[l][i].of \in came[l]
  /\ \A i \in 0 .. M - 1 : Known(seqr.slot[i])
  /\ rtx # None => Known(rtx)

LEMMA SubIn == ASSUME NEW a \in Int, NEW b \in Int PROVE Sub(a, b) \in Int
BY Sizes DEF Sub

LEMMA TrackKeeps ==
  ASSUME NEW t, InNumbers(t), NEW l, NEW e \in Int
  PROVE  /\ t.target = l /\ Key(e) => InNumbers([t EXCEPT !.layer = l])
         /\ InNumbers(Source(t, l, e)) /\ InNumbers(Reached(t, e))
<1>1. W \in Nat /\ W > 0
  BY Sizes
<1>2. e % W \in Int /\ t.lastSN + 1 \in Int
  BY <1>1 DEF InNumbers
<1>3. InNumbers([t EXCEPT !.layer = l])
  BY DEF InNumbers, NewTrack
<1>4. InNumbers(Source(t, l, e))
  <2>1. Sub(e, t.lastSN + 1) \in Int
    BY ONLY <1>2, SubIn, e \in Int
  <2> QED
    BY <1>2, <2>1 DEF InNumbers, NewTrack, Source
<1>5. InNumbers(Reached(t, e))
  BY DEF InNumbers, NewTrack, Reached
<1> QED
  BY <1>3, <1>4, <1>5

LEMMA SwitchedKeeps ==
  ASSUME InNumbers(track), NEW l, NEW e \in Int PROVE InNumbers(Switched(l, e))
BY DEF Switched, InNumbers, NewTrack

\* Whatever slot it goes to, a packet changes at most that one.
LEMMA SequenceKeeps ==
  ASSUME NEW s \in Answers, NEW e \in Int, NEW target \in Int, NEW l \in Layer,
         NEW head \in BOOLEAN
  PROVE  /\ Sequence(s, e, target, l, head) \in Answers
         /\ \A i \in 0 .. M - 1 :
              Sequence(s, e, target, l, head).slot[i] \in
                {s.slot[i], [source |-> e % W, target |-> target, layer |-> l, of |-> e]}
<1> DEFINE new == [source |-> e % W, target |-> target, layer |-> l, of |-> e]
           h   == Head0(s, target)
           gap == IF head /\ Sub(target, h) > 1 THEN Sub(target, h) - 1 ELSE 0
           at  == (s.step + gap) % M
           old == ~head /\ s.step - Sub(h, target) <= 0 - M
<1>1. W \in Nat /\ W > 0 /\ M \in Nat /\ M > 0
  BY PathAssumption, Sizes
<1>2. s.head \in Int /\ s.step \in Int /\ s.slot \in [0 .. M - 1 -> Entry] /\ s.init \in BOOLEAN
  BY DEF Answers
<1>3. h \in Int
  BY <1>2 DEF Head0
<1> HIDE DEF h
<1>4. Sub(target, h) \in Int
  BY <1>3, SubIn
<1>5. gap \in Int
  BY <1>4
<1> HIDE DEF gap
<1>6. at \in 0 .. M - 1
  BY <1>1, <1>2, <1>5
<1>7. (at + 1) % M \in Int
  BY <1>1, <1>6
<1>8. e % W \in Int
  BY <1>1
<1>9. new \in Entry
  BY <1>8 DEF Entry
<1> HIDE DEF at, new
<1>10. Sequence(s, e, target, l, head) =
         IF old THEN [s EXCEPT !.init = TRUE, !.head = h]
         ELSE [init |-> TRUE, head |-> IF head THEN target ELSE h, step |-> (at + 1) % M,
               slot |-> [s.slot EXCEPT ![at] = new]]
  BY DEF Sequence, h, gap, at, new
<1>11. CASE old
  <2> DEFINE r == [s EXCEPT !.init = TRUE, !.head = h]
  <2>1. r \in Answers /\ r.slot = s.slot
    BY <1>3 DEF Answers
  <2> QED
    BY <1>10, <1>11, <2>1
<1>12. CASE ~old
  <2> DEFINE f == [s.slot EXCEPT ![at] = new]
             x == IF head THEN target ELSE h
             y == (at + 1) % M
  <2>1. f \in [0 .. M - 1 -> Entry] /\ \A i \in 0 .. M - 1 : f[i] \in {s.slot[i], new}
    BY <1>2, <1>6, <1>9
  <2>2. x \in Int
    BY <1>3
  <2>3. y \in Int
    BY <1>7
  <2> HIDE DEF f, x, y
  <2> DEFINE r == [init |-> TRUE, head |-> x, step |-> y, slot |-> f]
  <2>4. r \in Answers /\ r.slot = f
    BY <2>1, <2>2, <2>3 DEF Answers
  <2>5. Sequence(s, e, target, l, head) = r
    BY <1>10, <1>12 DEF f, x, y
  <2> QED
    BY <2>1, <2>4, <2>5 DEF new
<1> QED
  BY <1>11, <1>12

LEMMA AnswersIn ==
  ASSUME NEW s \in Answers, NEW sn \in Word, NEW p \in AnswersTo(s, sn)
  PROVE  \E i \in 0 .. M - 1 : p = s.slot[i]
<1> DEFINE at == s.step - Sub(s.head, sn) - 1
<1>1. M \in Nat /\ M > 0 /\ W \in Nat
  BY PathAssumption, Sizes
<1>2. s.head \in Int /\ s.step \in Int /\ sn \in Int
  BY <1>1 DEF Answers, Word
<1>3. Sub(s.head, sn) \in Int
  BY <1>2, SubIn
<1>4. at \in Int
  BY <1>2, <1>3
<1>5. p = s.slot[at % M]
  BY DEF AnswersTo
<1> HIDE DEF at
<1>6. at % M \in 0 .. M - 1
  BY <1>1, <1>4
<1> QED
  BY <1>5, <1>6

LEMMA ReferenceStart == PathInit => ReferenceInv
<1> SUFFICES ASSUME PathInit PROVE ReferenceInv
  OBVIOUS
<1>1. WindowInv
  BY WindowStart
<1>2. 0 \in Layer
  BY PathAssumption
<1>3. EmptySlot \in Entry /\ EmptySlot.of = None
  BY <1>2 DEF EmptySlot, Entry
<1>4. seqr \in Answers /\ \A i \in 0 .. M - 1 : seqr.slot[i] = EmptySlot
  BY <1>3 DEF PathInit, NewSequencer, Answers
<1>5. InNumbers(track)
  BY DEF PathInit, NewTrack, InNumbers
<1>6. queue \in [Layer -> Seq(Packet)] /\ \A l \in Layer : Len(queue[l]) = 0
  BY DEF PathInit
<1>7. rtx = None
  BY DEF PathInit
<1> QED
  BY <1>1, <1>3, <1>4, <1>5, <1>6, <1>7 DEF ReferenceInv, ReferenceTypeOK, Known

\* A packet that arrives joins its layer's queue, if at all.
LEMMA WriteKeepsReferences ==
  ASSUME ReferenceInv, NEW l \in Layer, NEW e \in Ext, Write(l, e)
  PROVE  ReferenceInv'
<1>1. WindowInv'
  BY WriteKeepsWindow DEF ReferenceInv
<1>2. /\ came \in [Layer -> SUBSET Int] /\ came' = [came EXCEPT ![l] = came[l] \cup {e}]
      /\ seqr' = seqr /\ track' = track /\ rtx' = rtx
  BY DEF ReferenceInv, WindowInv, PacketTypeOK, Write
<1>3. /\ \A m \in Layer : came[m] \subseteq came'[m]
      /\ e \in came'[l]
  BY <1>2
<1>4. e \in Int
  BY Sizes, PathAssumption DEF Ext
<1> DEFINE h == e % W = Count(buf[l], e).max
           q == [of |-> e, head |-> h]
<1>5. h \in BOOLEAN
  OBVIOUS
<1>6. queue' = IF Refuses(buf[l].bucket, e) THEN queue
               ELSE [queue EXCEPT ![l] = Append(queue[l], q)]
  BY DEF Write
<1> HIDE DEF h
<1>7. q \in Packet /\ q.of = e
  BY <1>4, <1>5 DEF Packet
<1> HIDE DEF q
<1>8. /\ queue' \in [Layer -> Seq(Packet)]
      /\ \A m \in Layer : \A i \in 1 .. Len(queue'[m]) : queue'[m][i].of \in came'[m]
  <2>1. /\ queue \in [Layer -> Seq(Packet)]
        /\ \A m \in Layer : \A i \in 1 .. Len(queue[m]) : queue[m][i].of \in came[m]
    BY DEF ReferenceInv, ReferenceTypeOK
  <2>2. CASE Refuses(buf[l].bucket, e)
    BY <1>3, <1>6, <2>1, <2>2
  <2>3. CASE ~Refuses(buf[l].bucket, e)
    <3> DEFINE s == Append(queue[l], q)
    <3>1. queue[l] \in Seq(Packet)
      BY <2>1
    <3>2. /\ s \in Seq(Packet) /\ Len(s) = Len(queue[l]) + 1 /\ s[Len(s)] = q
          /\ \A i \in 1 .. Len(queue[l]) : s[i] = queue[l][i]
      BY <1>7, <3>1
    <3>3. Len(queue[l]) \in Nat
      BY <3>1
    <3> HIDE DEF s
    <3>4. queue' = [queue EXCEPT ![l] = s]
      BY <1>6, <2>3 DEF s
    <3>5. \A i \in 1 .. Len(s) : s[i].of \in came'[l]
      <4> SUFFICES ASSUME NEW i \in 1 .. Len(s) PROVE s[i].of \in came'[l]
        OBVIOUS
      <4>1. i \in 1 .. Len(queue[l]) \/ i = Len(s)
        BY <3>2, <3>3
      <4> QED
        BY <1>3, <1>7, <2>1, <3>2, <4>1
    <3> QED
      BY <1>3, <2>1, <3>2, <3>4, <3>5
  <2> QED
    BY <2>2, <2>3
<1>9. ASSUME NEW p \in Entry, Known(p) PROVE Known(p)'
  BY <1>3, <1>9 DEF Known, Entry
<1>10. \A i \in 0 .. M - 1 : Known(seqr.slot[i])'
  <2> SUFFICES ASSUME NEW i \in 0 .. M - 1 PROVE Known(seqr.slot[i])'
    OBVIOUS
  <2>1. seqr.slot[i] \in Entry /\ Known(seqr.slot[i])
    BY DEF ReferenceInv, ReferenceTypeOK, Answers
  <2>2. seqr.slot[i].layer \in Layer
    BY <2>1 DEF Entry
  <2> QED
    BY <1>2, <1>3, <2>1, <2>2 DEF Known
<1>11. (rtx # None => Known(rtx))'
  <2>1. rtx \in Entry \cup {None} /\ (rtx # None => Known(rtx))
    BY DEF ReferenceInv, ReferenceTypeOK
  <2>2. rtx # None => rtx.layer \in Layer
    BY <2>1 DEF Entry
  <2> QED
    BY <1>2, <1>3, <2>1, <2>2 DEF Known
<1>12. ReferenceTypeOK'
  BY <1>2, <1>8 DEF ReferenceInv, ReferenceTypeOK, InNumbers
<1> QED
  BY <1>1, <1>8, <1>10, <1>11, <1>12 DEF ReferenceInv

\* A writer takes the first packet of a queue; the rest of it stays.
LEMMA TakeKeeps ==
  ASSUME ReferenceInv, NEW l \in Layer, Take(l)
  PROVE  /\ queue[l][1] \in Packet /\ queue[l][1].of \in came[l] /\ queue[l][1].of \in Int
         /\ queue' \in [Layer -> Seq(Packet)] /\ came' = came /\ rtx' = rtx
         /\ \A m \in Layer : \A i \in 1 .. Len(queue'[m]) : queue'[m][i].of \in came'[m]
         /\ WindowInv'
<1>1. /\ queue[l] # <<>> /\ queue' = [queue EXCEPT ![l] = Tail(queue[l])]
      /\ UNCHANGED <<rtx, buf, came, stored, first, top>>
  BY DEF Take
<1>2. /\ queue \in [Layer -> Seq(Packet)]
      /\ \A m \in Layer : \A i \in 1 .. Len(queue[m]) : queue[m][i].of \in came[m]
  BY DEF ReferenceInv, ReferenceTypeOK
<1>3. queue[l] \in Seq(Packet) /\ queue[l] # <<>>
  BY <1>1, <1>2
<1>4. /\ Len(queue[l]) \in Nat /\ Len(queue[l]) > 0 /\ Tail(queue[l]) \in Seq(Packet)
      /\ Len(Tail(queue[l])) = Len(queue[l]) - 1
      /\ \A i \in 1 .. Len(Tail(queue[l])) : Tail(queue[l])[i] = queue[l][i + 1]
  BY <1>3
<1>5. 1 \in 1 .. Len(queue[l]) /\ queue[l][1] \in Packet
  BY <1>3, <1>4
<1>6. WindowInv'
  BY <1>1, WindowStays DEF ReferenceInv
<1> DEFINE s == Tail(queue[l])
<1>7. \A i \in 1 .. Len(s) : s[i].of \in came[l]
  <2> SUFFICES ASSUME NEW i \in 1 .. Len(s) PROVE s[i].of \in came[l]
    OBVIOUS
  <2>1. i + 1 \in 1 .. Len(queue[l]) /\ s[i] = queue[l][i + 1]
    BY <1>4
  <2> QED
    BY <1>2, <2>1
<1>8. s \in Seq(Packet) /\ queue' = [queue EXCEPT ![l] = s]
  BY <1>1, <1>4
<1> HIDE DEF s
<1>9. \A m \in Layer : \A i \in 1 .. Len(queue'[m]) : queue'[m][i].of \in came'[m]
  BY <1>1, <1>2, <1>7, <1>8
<1>10. queue' \in [Layer -> Seq(Packet)]
  BY <1>2, <1>8
<1>11. queue[l][1].of \in came[l] /\ queue[l][1].of \in Int
  BY <1>2, <1>5 DEF Packet
<1> QED
  BY <1>1, <1>5, <1>6, <1>9, <1>10, <1>11

LEMMA SkipKeepsReferences ==
  ASSUME ReferenceInv, NEW l \in Layer, Skip(l) PROVE ReferenceInv'
<1>1. Take(l) /\ seqr' = seqr /\ track' = Switched(l, queue[l][1].of)
  BY DEF Skip
<1>2. InNumbers(Switched(l, queue[l][1].of))
  BY <1>1, TakeKeeps, SwitchedKeeps DEF ReferenceInv, ReferenceTypeOK
<1> QED
  BY <1>1, <1>2, TakeKeeps DEF ReferenceInv, ReferenceTypeOK, Known, InNumbers

\* A packet that goes out is noted in the sequencer with its own number.
LEMMA ForwardKeepsReferences ==
  ASSUME ReferenceInv, NEW l \in Layer, Take(l), NEW t, InNumbers(t),
         Forward(l, queue[l][1], t)
  PROVE  ReferenceInv'
<1> DEFINE q == queue[l][1]
           target == Sub(q.of, t.offset)
           new == [source |-> q.of % W, target |-> target, layer |-> l, of |-> q.of]
<1>1. q.of \in came[l] /\ q.of \in Int /\ q.head \in BOOLEAN
  BY TakeKeeps DEF Packet
<1>2. target \in Int
  BY <1>1, SubIn DEF InNumbers
<1>3. /\ track' = IF q.head THEN [t EXCEPT !.lastSN = target] ELSE t
      /\ seqr' = Sequence(seqr, q.of, target, l, q.head)
  BY DEF Forward
<1>4. seqr \in Answers
  BY DEF ReferenceInv, ReferenceTypeOK
<1> HIDE DEF q, target
<1>5. seqr' \in Answers /\ \A i \in 0 .. M - 1 : seqr'.slot[i] \in {seqr.slot[i], new}
  BY <1>1, <1>2, <1>3, <1>4, SequenceKeeps
<1>6. InNumbers(track')
  BY <1>2, <1>3 DEF InNumbers, NewTrack
<1>7. \A i \in 0 .. M - 1 : Known(seqr.slot[i])'
  <2> SUFFICES ASSUME NEW i \in 0 .. M - 1 PROVE Known(seqr.slot[i])'
    OBVIOUS
  <2>1. Known(seqr.slot[i]) /\ came' = came
    BY TakeKeeps DEF ReferenceInv
  <2>2. CASE seqr'.slot[i] = seqr.slot[i]
    BY <2>1, <2>2 DEF Known
  <2>3. CASE seqr'.slot[i] = new
    BY <1>1, <2>1, <2>3 DEF Known
  <2> QED
    BY <1>5, <2>2, <2>3
<1> QED
  BY <1>5, <1>6, <1>7, TakeKeeps DEF ReferenceInv, ReferenceTypeOK, Known, InNumbers

LEMMA WriteSimpleKeepsReferences == ReferenceInv /\ WriteSimple => ReferenceInv'
<1> SUFFICES ASSUME ReferenceInv, WriteSimple PROVE ReferenceInv'
  OBVIOUS
<1> DEFINE q == queue[0][1]
           t == [track EXCEPT !.reSync = FALSE, !.ssrc = 0,
                   !.offset = IF track.reSync /\ track.lastSN # 0
                              THEN Sub(q.of, track.lastSN + 1) ELSE track.offset]
<1>1. Take(0) /\ Forward(0, q, t)
  BY DEF WriteSimple
<1>2. 0 \in Layer
  BY PathAssumption
<1>3. q.of \in Int /\ InNumbers(track)
  BY <1>1, <1>2, TakeKeeps DEF ReferenceInv, ReferenceTypeOK
<1>4. Sub(q.of, track.lastSN + 1) \in Int
  <2>1. track.lastSN + 1 \in Int
    BY <1>3 DEF InNumbers
  <2> QED
    BY ONLY <1>3, <2>1, SubIn
<1>5. InNumbers(t)
  BY <1>3, <1>4 DEF InNumbers, NewTrack
<1> HIDE DEF t
<1> QED
  BY <1>1, <1>2, <1>5, ForwardKeepsReferences

LEMMA WriteSimulcastKeepsReferences ==
  ASSUME ReferenceInv, NEW l \in Layer, WriteSimulcast(l) PROVE ReferenceInv'
<1> DEFINE q  == queue[l][1]
           t0 == Switched(l, q.of)
           t1 == Source(t0, l, q.of)
           t2 == Reached(t1, q.of)
           t  == [t2 EXCEPT !.begun = TRUE]
<1>1. Take(l) /\ Forward(l, q, t)
  BY DEF WriteSimulcast
<1>2. q.of \in Int
  BY <1>1, TakeKeeps
<1>3. InNumbers(t0)
  BY <1>2, SwitchedKeeps DEF ReferenceInv, ReferenceTypeOK
<1> HIDE DEF t0
<1>4. InNumbers(t1)
  BY <1>2, <1>3, TrackKeeps
<1> HIDE DEF t1
<1>5. InNumbers(t2)
  BY <1>2, <1>4, TrackKeeps
<1> HIDE DEF t2
<1>6. InNumbers(t)
  BY <1>5 DEF InNumbers, NewTrack
<1> HIDE DEF t
<1> QED
  BY <1>1, <1>6, ForwardKeepsReferences

LEMMA DropTemporalKeepsReferences ==
  ASSUME ReferenceInv, NEW l \in Layer, DropTemporal(l) PROVE ReferenceInv'
<1> DEFINE q  == queue[l][1]
           t0 == Switched(l, q.of)
           t1 == Source(t0, l, q.of)
<1>1. Take(l) /\ seqr' = seqr /\ track' = [t1 EXCEPT !.offset = Sub(t1.offset, W - 1)]
  BY DEF DropTemporal
<1>2. q.of \in Int
  BY <1>1, TakeKeeps
<1>3. InNumbers(t0)
  BY <1>2, SwitchedKeeps DEF ReferenceInv, ReferenceTypeOK
<1> HIDE DEF t0
<1>4. InNumbers(t1)
  BY <1>2, <1>3, TrackKeeps
<1> HIDE DEF t1
<1>5. Sub(t1.offset, W - 1) \in Int
  <2>1. t1.offset \in Int /\ W - 1 \in Int
    BY <1>4, Sizes DEF InNumbers
  <2> QED
    BY ONLY <2>1, SubIn
<1>6. InNumbers(track')
  BY <1>1, <1>4, <1>5 DEF InNumbers, NewTrack
<1> QED
  BY <1>1, <1>6, TakeKeeps DEF ReferenceInv, ReferenceTypeOK, Known, InNumbers

LEMMA ChangeKeepsReferences ==
  ASSUME ReferenceInv, NEW t, InNumbers(t), Change(t) PROVE ReferenceInv'
<1>1. track' = t /\ UNCHANGED <<buf, queue, seqr, rtx, came, stored, first, top>>
  BY DEF Change
<1>2. WindowInv'
  BY <1>1, WindowStays DEF ReferenceInv
<1> QED
  BY <1>1, <1>2 DEF ReferenceInv, ReferenceTypeOK, Known, InNumbers

LEMMA NackKeepsReferences ==
  ASSUME ReferenceInv, NEW sn \in Word, Nack(sn) PROVE ReferenceInv'
<1>1. rtx' \in AnswersTo(seqr, sn)
      /\ UNCHANGED <<buf, queue, track, seqr, came, stored, first, top>>
  BY DEF Nack
<1>2. WindowInv'
  BY <1>1, WindowStays DEF ReferenceInv
<1>3. seqr \in Answers
  BY DEF ReferenceInv, ReferenceTypeOK
<1>4. PICK i \in 0 .. M - 1 : rtx' = seqr.slot[i]
  BY <1>1, <1>3, AnswersIn
<1>5. rtx' \in Entry
  BY <1>3, <1>4 DEF Answers
<1>6. Known(rtx)'
  BY <1>1, <1>4 DEF ReferenceInv, Known
<1> QED
  BY <1>1, <1>2, <1>5, <1>6 DEF ReferenceInv, ReferenceTypeOK, Known, InNumbers

LEMMA OtherKeepsReferences ==
  ASSUME ReferenceInv, \/ RetransmitPackets
                       \/ UNCHANGED pathVars
  PROVE  ReferenceInv'
<1>1. rtx' \in {rtx, None} /\ UNCHANGED <<buf, queue, track, seqr, came, stored, first, top>>
  BY DEF RetransmitPackets, pathVars
<1>2. WindowInv'
  BY <1>1, WindowStays DEF ReferenceInv
<1> QED
  BY <1>1, <1>2 DEF ReferenceInv, ReferenceTypeOK, Known, InNumbers

LEMMA ReferencesStay == ReferenceInv /\ [PathNext]_pathVars => ReferenceInv'
<1> SUFFICES ASSUME ReferenceInv, [PathNext]_pathVars PROVE ReferenceInv'
  OBVIOUS
<1>1. InNumbers(track)
  BY DEF ReferenceInv, ReferenceTypeOK
<1>2. CASE Mute \/ Unmute
  <2>1. /\ InNumbers([track EXCEPT !.enabled = FALSE, !.reSync = TRUE])
        /\ InNumbers([track EXCEPT !.enabled = TRUE])
    BY <1>1 DEF InNumbers, NewTrack
  <2> QED
    BY <1>2, <2>1, ChangeKeepsReferences DEF Mute, Unmute
<1>3. ASSUME NEW l \in Layer, SwitchSpatialLayer(l) PROVE ReferenceInv'
  <2>1. InNumbers([track EXCEPT !.target = l])
    BY <1>1 DEF InNumbers, NewTrack
  <2> QED
    BY <1>3, <2>1, ChangeKeepsReferences DEF SwitchSpatialLayer
<1>4. ASSUME NEW i \in 0 .. 1, SwitchTemporalLayer(i) PROVE ReferenceInv'
  <2>1. InNumbers([track EXCEPT !.ttgt = i])
    BY <1>1 DEF InNumbers, NewTrack
  <2> QED
    BY <1>4, <2>1, ChangeKeepsReferences DEF SwitchTemporalLayer
<1> QED
  BY <1>2, <1>3, <1>4, WriteKeepsReferences, SkipKeepsReferences, WriteSimulcastKeepsReferences,
     DropTemporalKeepsReferences, WriteSimpleKeepsReferences, NackKeepsReferences,
     OtherKeepsReferences DEF PathNext

LEMMA KnownCarries ==
  ASSUME ReferenceInv, NEW p \in Entry, Known(p) PROVE Carries(p)
<1> SUFFICES ASSUME p.of # None, top[p.layer] - p.of < W,
                    GetPacket(buf[p.layer].bucket, p.source) # None
             PROVE  GetPacket(buf[p.layer].bucket, p.source) = p.of
  BY DEF Carries
<1> DEFINE l == p.layer
           q == GetPacket(buf[l].bucket, p.source)
<1>1. l \in Layer /\ p.of \in came[l] /\ p.source = p.of % W /\ p.of \in Int
  BY DEF Entry, Known
<1>2. /\ came[l] \in SUBSET Int /\ top[l] \in Int \cup {None} /\ BucketOK(l) /\ WindowInv
  BY <1>1 DEF ReferenceInv, WindowInv, PacketTypeOK
<1>3. top[l] # None /\ p.of <= top[l]
  BY <1>1, <1>2 DEF BucketOK
<1>4. p.source \in Word
  BY <1>1, NumberIn
<1>5. q \in came[l] /\ q % W = p.source /\ top[l] - q \in 0 .. N - 1
  <2>1. FindsTheWindow(l)
    BY <1>1, <1>2, <1>3, FindsOnlyTheWindow
  <2> QED
    BY <1>4, <2>1 DEF FindsTheWindow
<1> HIDE DEF q
<1>6. q \in Int /\ top[l] \in Int
  BY <1>2, <1>3, <1>5
<1>7. N \in Nat /\ W \in Nat /\ N <= W
  BY Sizes, PathAssumption
<1>8. top[l] - q \in 0 .. W - 1 /\ top[l] - p.of \in 0 .. W - 1
  BY <1>1, <1>3, <1>5, <1>6, <1>7
<1>9. q = p.of
  <2>1. q - p.of < W /\ p.of - q < W /\ q % W = p.of % W
    BY <1>1, <1>5, <1>6, <1>7, <1>8
  <2> QED
    BY <1>1, <1>6, <1>7, <2>1, Close, Sizes
<1> QED
  BY <1>9 DEF q

\* A retransmission, whenever the worker pool comes to it, carries the packet that
\* was sent under its number or none, whatever was muted, switched or reordered.
THEOREM AnswersCarryHolds == PathSpec => []AnswersCarry
<1>1. ReferenceInv => AnswersCarry
  <2> SUFFICES ASSUME ReferenceInv PROVE AnswersCarry
    OBVIOUS
  <2>1. \A i \in 0 .. M - 1 : seqr.slot[i] \in Entry /\ Known(seqr.slot[i])
    BY DEF ReferenceInv, ReferenceTypeOK, Answers
  <2>2. rtx # None => rtx \in Entry /\ Known(rtx)
    BY DEF ReferenceInv, ReferenceTypeOK
  <2> QED
    BY <2>1, <2>2, KnownCarries DEF AnswersCarry
<1> QED
  BY <1>1, ReferenceStart, ReferencesStay, PTL DEF PathSpec

-----------------------------------------------------------------------------
(* The lists of missing packets.                                           *)

LEMMA Least ==
  ASSUME NEW T, T \subseteq Nat, T # {}
  PROVE  \E x \in T : \A y \in T : x <= y
<1> DEFINE R == OpToRel(<, Nat)
<1>1. IsWellFoundedOn(R, Nat)
  BY NatLessThanWellFounded
<1>2. \A x, y \in Nat : <<y, x>> \in R <=> y < x
  BY DEF OpToRel
<1> HIDE DEF R
<1>3. PICK x \in T : \A y \in T : ~ (<<y, x>> \in R)
  BY <1>1, WFMin
<1>4. x \in Nat /\ \A y \in T : y \in Nat /\ ~ (y < x)
  BY <1>2, <1>3
<1>5. \A y \in T : x <= y
  BY <1>4
<1> QED
  BY <1>5

\* Positions that include with each the smaller ones are the first ones.
LEMMA FirstPositions ==
  ASSUME NEW n \in Nat, NEW L, L \subseteq 1 .. n,
         \A i, j \in 1 .. n : i < j /\ j \in L => i \in L
  PROVE  Cardinality(L) \in 0 .. n /\ L = 1 .. Cardinality(L)
<1> DEFINE T == {i \in 1 .. n + 1 : i \notin L}
<1>1. n + 1 \in T /\ T \subseteq Nat
  OBVIOUS
<1>2. PICK m \in T : \A y \in T : m <= y
  <2> HIDE DEF T
  <2> QED
    BY <1>1, Least
<1>3. m \in 1 .. n + 1 /\ m \notin L
  BY <1>2
<1>4. \A i \in 1 .. n : i < m => i \in L
  <2> SUFFICES ASSUME NEW i \in 1 .. n, i < m, i \notin L PROVE FALSE
    OBVIOUS
  <2>1. i \in T
    OBVIOUS
  <2> QED
    BY <1>2, <2>1
<1>5. L = 1 .. m - 1
  <2>1. ASSUME NEW j \in L PROVE j \in 1 .. m - 1
    <3>1. j \in 1 .. n /\ j # m
      BY <1>3
    <3>2. CASE j > m
      <4>1. m \in 1 .. n
        BY <1>3, <3>1, <3>2
      <4> QED
        BY <1>3, <3>1, <3>2, <4>1
    <3> QED
      BY <1>3, <3>1, <3>2
  <2>2. ASSUME NEW j \in 1 .. m - 1 PROVE j \in L
    BY <1>3, <1>4
  <2> QED
    BY <2>1, <2>2
<1>6. Cardinality(1 .. m - 1) = m - 1
  BY <1>3, FS_Interval
<1> QED
  BY <1>3, <1>5, <1>6

\* Extended numbers have two words.
Wide == W * W
NackEntry == [sn : 0 .. Wide - 1, nacked : Nat, of : Int]
Rising(L) == \A i, j \in DOMAIN L : i < j => L[i].sn <= L[j].sn
\* A number twice in a list is in S.
Singly(L, S) == \A i, j \in DOMAIN L : i # j /\ L[i].sn = L[j].sn => L[i].sn \in S
\* The entries of R are from L, but for how often they were asked for.
From(R, L) == \A i \in DOMAIN R : \E j \in DOMAIN L : R[i].sn = L[j].sn /\ R[i].of = L[j].of

LEMMA EntriesOf ==
  ASSUME NEW L \in Seq(NackEntry)
  PROVE  /\ Len(L) \in Nat /\ DOMAIN L = 1 .. Len(L)
         /\ \A i \in 1 .. Len(L) : /\ L[i] \in NackEntry /\ L[i].sn \in Int /\ L[i].sn \in 0 .. Wide - 1
                                   /\ L[i].nacked \in Nat /\ L[i].of \in Int
<1>1. Len(L) \in Nat /\ DOMAIN L = 1 .. Len(L)
  BY LenProperties
<1>2. ASSUME NEW i \in 1 .. Len(L)
      PROVE  /\ L[i] \in NackEntry /\ L[i].sn \in 0 .. Wide - 1 /\ L[i].nacked \in Nat /\ L[i].of \in Int
  <2>1. L[i] \in NackEntry
    BY ElementOfSeq
  <2> QED
    BY <2>1 DEF NackEntry
<1>3. 0 .. Wide - 1 \subseteq Int
  OBVIOUS
<1> QED
  BY <1>1, <1>2, <1>3

\* The entries before a number are the first ones.
LEMMA BeforeIs ==
  ASSUME NEW L \in Seq(NackEntry), Rising(L), NEW sn \in Int
  PROVE  /\ Before(L, sn) \in 0 .. Len(L)
         /\ \A i \in 1 .. Len(L) : L[i].sn < sn <=> i <= Before(L, sn)
<1> DEFINE n == Len(L)
           B == {i \in DOMAIN L : L[i].sn < sn}
<1>1. n \in Nat /\ DOMAIN L = 1 .. n /\ \A i \in 1 .. n : L[i].sn \in Int
  BY EntriesOf
<1>2. B \subseteq 1 .. n /\ \A i \in 1 .. n : i \in B <=> L[i].sn < sn
  BY <1>1
<1>3. \A i, j \in 1 .. n : i < j => L[i].sn <= L[j].sn
  BY <1>1 DEF Rising
<1>4. Before(L, sn) = Cardinality(B)
  BY DEF Before
<1> HIDE DEF B, n
<1>5. \A i, j \in 1 .. n : i < j /\ j \in B => i \in B
  BY <1>1, <1>2, <1>3
<1>6. Cardinality(B) \in 0 .. n /\ B = 1 .. Cardinality(B)
  BY <1>1, <1>2, <1>5, FirstPositions
<1>7. \A i \in 1 .. n : L[i].sn < sn <=> i <= Cardinality(B)
  BY <1>1, <1>2, <1>6
<1> QED
  BY <1>4, <1>6, <1>7 DEF n

\* What InsertAt and RemoveAt return.
LEMMA Inserted ==
  ASSUME NEW S, NEW L \in Seq(S), NEW p \in 0 .. Len(L), NEW x \in S
  PROVE  /\ InsertAt(L, p + 1, x) \in Seq(S) /\ Len(InsertAt(L, p + 1, x)) = Len(L) + 1
         /\ \A i \in 1 .. Len(L) + 1 :
              InsertAt(L, p + 1, x)[i] = IF i <= p THEN L[i] ELSE IF i = p + 1 THEN x ELSE L[i - 1]
<1> DEFINE n == Len(L)
           A == SubSeq(L, 1, p)
           X == <<x>>
           B == SubSeq(L, p + 1, n)
<1>1. n \in Nat /\ p \in Int /\ 0 <= p /\ p <= n /\ \A i \in 1 .. n : L[i] \in S
  BY LenProperties, ElementOfSeq
<1>2. \A i \in 1 .. p : L[i] \in S
  BY <1>1
<1>3. A \in Seq(S) /\ Len(A) = p /\ \A i \in 1 .. p : A[i] = L[i]
  <2>1. /\ A \in Seq(S) /\ Len(A) = (IF 1 <= p THEN p - 1 + 1 ELSE 0)
        /\ \A i \in 1 .. p - 1 + 1 : A[i] = L[1 + i - 1]
    BY <1>1, <1>2, SubSeqProperties
  <2> HIDE DEF A
  <2> QED
    BY <1>1, <2>1
<1>4. B \in Seq(S) /\ Len(B) = n - p /\ \A i \in 1 .. n - p : B[i] = L[p + i]
  <2>1. \A i \in p + 1 .. n : L[i] \in S
    BY <1>1
  <2>2. /\ B \in Seq(S) /\ Len(B) = (IF p + 1 <= n THEN n - (p + 1) + 1 ELSE 0)
        /\ \A i \in 1 .. n - (p + 1) + 1 : B[i] = L[p + 1 + i - 1]
    BY <1>1, <2>1, SubSeqProperties
  <2> HIDE DEF B, n
  <2>3. Len(B) = n - p /\ n - (p + 1) + 1 = n - p
    BY <1>1, <2>2
  <2>4. ASSUME NEW i \in 1 .. n - p PROVE B[i] = L[p + i]
    <3>1. p + 1 + i - 1 = p + i
      BY <1>1
    <3> QED
      BY <2>2, <2>3, <3>1
  <2> QED
    BY <2>2, <2>3, <2>4
<1>5. X \in Seq(S) /\ Len(X) = 1 /\ X[1] = x
  OBVIOUS
<1> DEFINE R == (A \o X) \o B
<1>6. InsertAt(L, p + 1, x) = R
  <2>1. (p + 1) - 1 = p
    BY <1>1
  <2> QED
    BY <2>1 DEF InsertAt
<1> HIDE DEF A, B, X, n
<1>7. /\ A \o X \in Seq(S) /\ Len(A \o X) = p + 1
      /\ \A i \in 1 .. p + 1 : (A \o X)[i] = IF i <= p THEN A[i] ELSE X[i - p]
  <2>1. /\ A \o X \in Seq(S) /\ Len(A \o X) = Len(A) + Len(X)
        /\ \A i \in 1 .. Len(A) + Len(X) : (A \o X)[i] = IF i <= Len(A) THEN A[i] ELSE X[i - Len(A)]
    BY <1>3, <1>5, ConcatProperties
  <2> QED
    BY <1>3, <1>5, <2>1
<1>8. /\ R \in Seq(S) /\ Len(R) = n + 1
      /\ \A i \in 1 .. n + 1 : R[i] = IF i <= p + 1 THEN (A \o X)[i] ELSE B[i - (p + 1)]
  <2>1. /\ R \in Seq(S) /\ Len(R) = Len(A \o X) + Len(B)
        /\ \A i \in 1 .. Len(A \o X) + Len(B) :
             R[i] = IF i <= Len(A \o X) THEN (A \o X)[i] ELSE B[i - Len(A \o X)]
    BY <1>4, <1>7, ConcatProperties
  <2>2. Len(A \o X) + Len(B) = n + 1
    BY <1>1, <1>4, <1>7
  <2> HIDE DEF R
  <2> QED
    BY <1>7, <2>1, <2>2
<1> HIDE DEF R
<1>9. ASSUME NEW i \in 1 .. n + 1
      PROVE  R[i] = IF i <= p THEN L[i] ELSE IF i = p + 1 THEN x ELSE L[i - 1]
  <2>1. CASE i <= p
    <3>1. i \in 1 .. p /\ i \in 1 .. p + 1 /\ i <= p + 1
      BY <1>1, <2>1
    <3> QED
      BY <1>3, <1>7, <1>8, <2>1, <3>1
  <2>2. CASE i = p + 1
    <3>1. i \in 1 .. p + 1 /\ ~(i <= p) /\ i - p = 1
      BY <1>1, <2>2
    <3> QED
      BY <1>5, <1>7, <1>8, <2>2, <3>1
  <2>3. CASE i > p + 1
    <3>1. ~(i <= p + 1) /\ ~(i <= p) /\ i # p + 1 /\ i - (p + 1) \in 1 .. n - p /\ p + (i - (p + 1)) = i - 1
      BY <1>1, <2>3
    <3> QED
      BY <1>4, <1>8, <3>1
  <2> QED
    BY <1>1, <2>1, <2>2, <2>3
<1> QED
  BY <1>6, <1>8, <1>9 DEF n

LEMMA Removed ==
  ASSUME NEW S, NEW L \in Seq(S), NEW p \in 0 .. Len(L) - 1
  PROVE  /\ RemoveAt(L, p + 1) \in Seq(S) /\ Len(RemoveAt(L, p + 1)) = Len(L) - 1
         /\ \A i \in 1 .. Len(L) - 1 : RemoveAt(L, p + 1)[i] = IF i <= p THEN L[i] ELSE L[i + 1]
<1> DEFINE n == Len(L)
           A == SubSeq(L, 1, p)
           B == SubSeq(L, p + 2, n)
<1>1. n \in Nat /\ p \in Int /\ 0 <= p /\ p <= n - 1 /\ \A i \in 1 .. n : L[i] \in S
  BY LenProperties, ElementOfSeq
<1>2. \A i \in 1 .. p : L[i] \in S
  BY <1>1
<1>3. A \in Seq(S) /\ Len(A) = p /\ \A i \in 1 .. p : A[i] = L[i]
  <2>1. /\ A \in Seq(S) /\ Len(A) = (IF 1 <= p THEN p - 1 + 1 ELSE 0)
        /\ \A i \in 1 .. p - 1 + 1 : A[i] = L[1 + i - 1]
    BY <1>1, <1>2, SubSeqProperties
  <2> HIDE DEF A
  <2> QED
    BY <1>1, <2>1
<1>4. B \in Seq(S) /\ Len(B) = n - p - 1 /\ \A i \in 1 .. n - p - 1 : B[i] = L[p + 1 + i]
  <2>1. \A i \in p + 2 .. n : L[i] \in S
    BY <1>1
  <2>2. /\ B \in Seq(S) /\ Len(B) = (IF p + 2 <= n THEN n - (p + 2) + 1 ELSE 0)
        /\ \A i \in 1 .. n - (p + 2) + 1 : B[i] = L[p + 2 + i - 1]
    BY <1>1, <2>1, SubSeqProperties
  <2> HIDE DEF B, n
  <2>3. Len(B) = n - p - 1 /\ n - (p + 2) + 1 = n - p - 1
    BY <1>1, <2>2
  <2>4. ASSUME NEW i \in 1 .. n - p - 1 PROVE B[i] = L[p + 1 + i]
    <3>1. p + 2 + i - 1 = p + 1 + i
      BY <1>1
    <3> QED
      BY <2>2, <2>3, <3>1
  <2> QED
    BY <2>2, <2>3, <2>4
<1> DEFINE R == A \o B
<1>5. RemoveAt(L, p + 1) = R
  <2>1. (p + 1) - 1 = p /\ (p + 1) + 1 = p + 2
    BY <1>1
  <2> QED
    BY <2>1 DEF RemoveAt
<1> HIDE DEF A, B, n
<1>6. /\ R \in Seq(S) /\ Len(R) = n - 1
      /\ \A i \in 1 .. n - 1 : R[i] = IF i <= p THEN A[i] ELSE B[i - p]
  <2>1. /\ A \o B \in Seq(S) /\ Len(A \o B) = Len(A) + Len(B)
        /\ \A i \in 1 .. Len(A) + Len(B) : (A \o B)[i] = IF i <= Len(A) THEN A[i] ELSE B[i - Len(A)]
    BY <1>3, <1>4, ConcatProperties
  <2>2. Len(A) + Len(B) = n - 1
    BY <1>1, <1>3, <1>4
  <2> QED
    BY <1>3, <2>1, <2>2
<1> HIDE DEF R
<1>7. ASSUME NEW i \in 1 .. n - 1 PROVE R[i] = IF i <= p THEN L[i] ELSE L[i + 1]
  <2>1. CASE i <= p
    <3>1. i \in 1 .. p
      BY <2>1
    <3> QED
      BY <1>3, <1>6, <2>1, <3>1
  <2>2. CASE i > p
    <3>1. ~(i <= p) /\ i - p \in 1 .. n - p - 1 /\ p + 1 + (i - p) = i + 1
      BY <1>1, <2>2
    <3> QED
      BY <1>4, <1>6, <3>1
  <2> QED
    BY <1>1, <2>1, <2>2
<1> QED
  BY <1>5, <1>6, <1>7 DEF n

\* An overfull list: one entry on, with the last one twice.
LEMMA Shifted ==
  ASSUME NEW S, NEW L \in Seq(S), L # <<>>
  PROVE  LET R == Tail(L) \o <<L[Len(L)]>>
         IN  /\ R \in Seq(S) /\ Len(R) = Len(L)
             /\ \A i \in 1 .. Len(L) : R[i] = IF i < Len(L) THEN L[i + 1] ELSE L[Len(L)]
<1> DEFINE n == Len(L)
           T == Tail(L)
           X == <<L[n]>>
           R == T \o X
<1>1. n \in Nat /\ n > 0
  BY EmptySeq, LenProperties
<1>2. T \in Seq(S) /\ Len(T) = n - 1 /\ \A i \in 1 .. n - 1 : T[i] = L[i + 1]
  BY HeadTailProperties
<1>3. X \in Seq(S) /\ Len(X) = 1 /\ X[1] = L[n]
  <2>1. L[n] \in S
    BY <1>1, ElementOfSeq
  <2> QED
    BY <2>1
<1> HIDE DEF T, X, n
<1>4. /\ R \in Seq(S) /\ Len(R) = Len(T) + Len(X)
      /\ \A i \in 1 .. Len(T) + Len(X) : R[i] = IF i <= Len(T) THEN T[i] ELSE X[i - Len(T)]
  BY <1>2, <1>3, ConcatProperties
<1>5. Len(T) + Len(X) = n
  BY <1>1, <1>2, <1>3
<1> HIDE DEF R
<1>6. ASSUME NEW i \in 1 .. n PROVE R[i] = IF i < n THEN L[i + 1] ELSE L[n]
  <2>1. CASE i < n
    <3>1. i \in 1 .. n - 1 /\ i <= n - 1
      BY <1>1, <2>1
    <3> QED
      BY <1>2, <1>4, <1>5, <2>1, <3>1
  <2>2. CASE i = n
    <3>1. ~(i <= n - 1) /\ i - (n - 1) = 1 /\ ~(i < n)
      BY <1>1, <2>2
    <3> QED
      BY <1>2, <1>3, <1>4, <1>5, <3>1
  <2> QED
    BY <1>1, <2>1, <2>2
<1> QED
  BY <1>4, <1>5, <1>6 DEF R, T, X, n

\* A number that is listed joins in its place; entries are lost only over the
\* capacity.
LEMMA InsertedRising ==
  ASSUME NEW L \in Seq(NackEntry), Rising(L), NEW x \in NackEntry, ~Listed(L, x.sn)
  PROVE  LET R == InsertAt(L, Before(L, x.sn) + 1, x)
         IN  /\ R \in Seq(NackEntry) /\ Rising(R) /\ Len(R) = Len(L) + 1
             /\ \A i \in DOMAIN R : R[i] = x \/ \E j \in DOMAIN L : R[i] = L[j]
             /\ Listed(R, x.sn) /\ \A sn : Listed(L, sn) => Listed(R, sn)
             /\ \A S : Singly(L, S) => Singly(R, S)
<1> DEFINE n == Len(L)
           p == Before(L, x.sn)
           R == InsertAt(L, p + 1, x)
<1>1. /\ n \in Nat /\ DOMAIN L = 1 .. n /\ \A i \in 1 .. n : L[i] \in NackEntry /\ L[i].sn \in Int
  BY EntriesOf
<1>2. x.sn \in Int
  BY DEF NackEntry
<1>3. p \in 0 .. n /\ \A i \in 1 .. n : L[i].sn < x.sn <=> i <= p
  BY <1>2, BeforeIs
<1> HIDE DEF p
<1>4. /\ R \in Seq(NackEntry) /\ Len(R) = n + 1
      /\ \A i \in 1 .. n + 1 : R[i] = IF i <= p THEN L[i] ELSE IF i = p + 1 THEN x ELSE L[i - 1]
  BY <1>3, Inserted
<1> HIDE DEF R, n
<1>5. DOMAIN R = 1 .. n + 1
  BY <1>4, LenProperties
<1>6. \A i \in 1 .. n : L[i].sn # x.sn
  BY <1>1 DEF Listed
<1>7. ASSUME NEW i \in 1 .. n + 1
      PROVE  \/ i <= p /\ i \in 1 .. n /\ R[i] = L[i] /\ L[i].sn < x.sn
             \/ i = p + 1 /\ R[i] = x
             \/ i > p + 1 /\ i - 1 \in 1 .. n /\ R[i] = L[i - 1] /\ L[i - 1].sn > x.sn
  <2>1. CASE i <= p
    <3>1. i \in 1 .. n
      BY <1>1, <1>3, <2>1
    <3> QED
      BY <1>3, <1>4, <2>1, <3>1
  <2>2. CASE i = p + 1
    <3>1. ~(i <= p)
      BY <1>3, <2>2
    <3> QED
      BY <1>4, <2>2, <3>1
  <2>3. CASE i > p + 1
    <3>1. i - 1 \in 1 .. n /\ ~(i <= p) /\ i # p + 1 /\ ~(i - 1 <= p)
      BY <1>1, <1>3, <2>3
    <3>2. L[i - 1].sn # x.sn /\ ~(L[i - 1].sn < x.sn) /\ L[i - 1].sn \in Int
      BY <1>1, <1>3, <1>6, <3>1
    <3> QED
      BY <1>2, <1>4, <2>3, <3>1, <3>2
  <2> QED
    BY <1>1, <1>3, <2>1, <2>2, <2>3
<1>8. \A i, j \in 1 .. n : i < j => L[i].sn <= L[j].sn
  BY <1>1 DEF Rising
<1>9. Rising(R)
  <2> SUFFICES ASSUME NEW i \in 1 .. n + 1, NEW j \in 1 .. n + 1, i < j
               PROVE  R[i].sn <= R[j].sn
    BY <1>5 DEF Rising
  <2>1. CASE i <= p /\ j <= p
    BY <1>1, <1>3, <1>7, <1>8, <2>1
  <2>2. CASE i <= p /\ j = p + 1
    <3>1. R[i] = L[i] /\ L[i].sn < x.sn /\ R[j] = x /\ L[i].sn \in Int
      BY <1>1, <1>3, <1>7, <2>2
    <3> QED
      BY <1>2, <3>1
  <2>3. CASE i <= p /\ j > p + 1
    <3>1. R[i] = L[i] /\ R[j] = L[j - 1] /\ L[i].sn < x.sn /\ L[j - 1].sn > x.sn
          /\ L[i].sn \in Int /\ L[j - 1].sn \in Int
      BY <1>1, <1>3, <1>7, <2>3
    <3> QED
      BY <1>2, <3>1
  <2>4. CASE i = p + 1 /\ j > p + 1
    <3>1. R[i] = x /\ R[j] = L[j - 1] /\ L[j - 1].sn > x.sn /\ L[j - 1].sn \in Int
      BY <1>1, <1>3, <1>7, <2>4
    <3> QED
      BY <1>2, <3>1
  <2>5. CASE i > p + 1 /\ j > p + 1
    <3>1. i - 1 \in 1 .. n /\ j - 1 \in 1 .. n /\ R[i] = L[i - 1] /\ R[j] = L[j - 1] /\ i - 1 < j - 1
      BY <1>1, <1>3, <1>7, <2>5
    <3> QED
      BY <1>8, <3>1
  <2> QED
    BY <1>3, <2>1, <2>2, <2>3, <2>4, <2>5
<1>10. \A i \in DOMAIN R : R[i] = x \/ \E j \in DOMAIN L : R[i] = L[j]
  BY <1>1, <1>5, <1>7
<1>11. Listed(R, x.sn)
  <2>1. p + 1 \in 1 .. n + 1
    BY <1>1, <1>3
  <2>2. R[p + 1] = x
    BY <1>3, <1>7, <2>1
  <2> QED
    BY <1>5, <2>1, <2>2 DEF Listed
<1>12. ASSUME NEW sn, Listed(L, sn) PROVE Listed(R, sn)
  <2>1. PICK i \in 1 .. n : L[i].sn = sn
    BY <1>1, <1>12 DEF Listed
  <2>2. CASE i <= p
    <3>1. i \in 1 .. n + 1 /\ R[i] = L[i]
      BY <1>1, <1>4, <2>2
    <3> QED
      BY <1>5, <2>1, <3>1 DEF Listed
  <2>3. CASE ~(i <= p)
    <3>1. i + 1 \in 1 .. n + 1 /\ ~(i + 1 <= p) /\ i + 1 # p + 1 /\ (i + 1) - 1 = i
      BY <1>1, <1>3, <2>3
    <3>2. R[i + 1] = L[i]
      BY <1>4, <3>1
    <3> QED
      BY <1>5, <2>1, <3>1, <3>2 DEF Listed
  <2> QED
    BY <2>2, <2>3
<1>13. ASSUME NEW S, Singly(L, S) PROVE Singly(R, S)
  <2> SUFFICES ASSUME NEW i \in 1 .. n + 1, NEW j \in 1 .. n + 1, i # j, R[i].sn = R[j].sn
               PROVE  R[i].sn \in S
    BY <1>5 DEF Singly
  <2> DEFINE At(k) == IF k <= p THEN k ELSE k - 1
  <2>1. i # p + 1 /\ j # p + 1
    <3>1. CASE i = p + 1
      <4>1. R[i] = x /\ j # p + 1
        BY <1>3, <1>7, <3>1
      <4>2. \E k \in 1 .. n : R[j] = L[k]
        BY <1>7, <4>1
      <4> QED
        BY <1>6, <4>1, <4>2
    <3>2. CASE j = p + 1
      <4>1. R[j] = x /\ i # p + 1
        BY <1>3, <1>7, <3>2
      <4>2. \E k \in 1 .. n : R[i] = L[k]
        BY <1>7, <4>1
      <4> QED
        BY <1>6, <4>1, <4>2
    <3> QED
      BY <3>1, <3>2
  <2>2. \A k \in {i, j} : At(k) \in 1 .. n /\ R[k] = L[At(k)]
    <3> SUFFICES ASSUME NEW k \in {i, j} PROVE At(k) \in 1 .. n /\ R[k] = L[At(k)]
      OBVIOUS
    <3>1. k \in 1 .. n + 1 /\ k # p + 1
      BY <2>1
    <3> QED
      BY <1>3, <1>7, <3>1
  <2>3. At(i) # At(j)
    BY <1>1, <1>3, <2>1
  <2> HIDE DEF At
  <2>4. L[At(i)].sn = L[At(j)].sn /\ At(i) \in 1 .. n /\ At(j) \in 1 .. n
    BY <2>2
  <2>5. L[At(i)].sn \in S
    BY <1>1, <1>13, <2>3, <2>4 DEF Singly
  <2> QED
    BY <2>2, <2>5
<1> QED
  BY <1>4, <1>9, <1>10, <1>11, <1>12, <1>13 DEF R, p, n

LEMMA PushNackKeeps ==
  ASSUME NEW L \in Seq(NackEntry), Rising(L), NEW sn \in 0 .. Wide - 1, NEW e \in Int
  PROVE  LET R == PushNack(L, sn, e)
         IN  /\ R \in Seq(NackEntry) /\ Rising(R) /\ Len(L) <= Len(R)
             /\ \A i \in DOMAIN R : \/ R[i].sn = sn /\ R[i].of = e
                                    \/ \E j \in DOMAIN L : R[i] = L[j]
             /\ Len(R) < NackCache => /\ Listed(R, sn) /\ \A x : Listed(L, x) => Listed(R, x)
                                      /\ \A S : Singly(L, S) => Singly(R, S)
<1> DEFINE x == [sn |-> sn, nacked |-> 0, of |-> e]
           M1 == InsertAt(L, Before(L, x.sn) + 1, x)
           R == PushNack(L, sn, e)
<1>1. x \in NackEntry /\ x.sn = sn /\ x.of = e
  BY DEF NackEntry
<1>2. Len(L) \in Nat /\ NackCache \in Nat /\ NackCache > 0
  BY LenProperties, PathAssumption
<1>3. R = IF Listed(L, sn) THEN L ELSE IF Len(M1) < NackCache THEN M1
          ELSE Tail(M1) \o <<M1[Len(M1)]>>
  BY DEF PushNack
<1>4. CASE Listed(L, sn)
  <2>1. R = L
    BY <1>3, <1>4
  <2> HIDE DEF R
  <2> QED
    BY <1>2, <1>4, <2>1 DEF R
<1>5. CASE ~Listed(L, sn)
  <2> HIDE DEF x
  <2>1. /\ M1 \in Seq(NackEntry) /\ Rising(M1) /\ Len(M1) = Len(L) + 1
        /\ \A i \in DOMAIN M1 : M1[i] = x \/ \E j \in DOMAIN L : M1[i] = L[j]
        /\ Listed(M1, x.sn) /\ (\A y : Listed(L, y) => Listed(M1, y))
        /\ \A S : Singly(L, S) => Singly(M1, S)
    BY <1>1, <1>5, InsertedRising
  <2> HIDE DEF M1
  <2>2. CASE Len(M1) < NackCache
    <3>1. R = M1
      BY <1>3, <1>5, <2>2
    <3> HIDE DEF R
    <3>2. /\ R \in Seq(NackEntry) /\ Rising(R) /\ Len(L) <= Len(R)
          /\ Listed(R, sn) /\ (\A y : Listed(L, y) => Listed(R, y))
          /\ \A S : Singly(L, S) => Singly(R, S)
      BY <1>1, <1>2, <2>1, <3>1
    <3>3. \A i \in DOMAIN R : \/ R[i].sn = sn /\ R[i].of = e
                              \/ \E j \in DOMAIN L : R[i] = L[j]
      BY <1>1, <2>1, <3>1
    <3> QED
      BY <3>2, <3>3 DEF R
  <2>3. CASE ~(Len(M1) < NackCache)
    <3> DEFINE m == Len(M1)
    <3>1. m \in Nat /\ m > 0 /\ DOMAIN M1 = 1 .. m /\ M1 # <<>>
      BY <1>2, <2>1, LenProperties
    <3>2. R = Tail(M1) \o <<M1[Len(M1)]>>
      BY <1>3, <1>5, <2>3
    <3>3. /\ R \in Seq(NackEntry) /\ Len(R) = m
          /\ \A i \in 1 .. m : R[i] = IF i < m THEN M1[i + 1] ELSE M1[m]
      BY <2>1, <3>1, <3>2, Shifted
    <3> HIDE DEF R, m
    <3>4. DOMAIN R = 1 .. m
      BY <3>3, LenProperties
    <3> DEFINE At(i) == IF i < m THEN i + 1 ELSE m
    <3>5. \A i \in 1 .. m : At(i) \in 1 .. m /\ R[i] = M1[At(i)]
      BY <3>1, <3>3
    <3>6. \A i, j \in 1 .. m : i < j => At(i) <= At(j)
      BY <3>1
    <3> HIDE DEF At
    <3>7. Rising(R)
      <4> SUFFICES ASSUME NEW i \in 1 .. m, NEW j \in 1 .. m, i < j PROVE R[i].sn <= R[j].sn
        BY <3>4 DEF Rising
      <4>1. /\ At(i) \in 1 .. m /\ At(j) \in 1 .. m /\ At(i) <= At(j)
            /\ R[i] = M1[At(i)] /\ R[j] = M1[At(j)]
        BY <3>5, <3>6
      <4>2. CASE At(i) < At(j)
        BY <2>1, <3>1, <4>1, <4>2 DEF Rising
      <4>3. CASE At(i) = At(j)
        <5>1. M1[At(i)].sn \in Int
          BY <2>1, <3>1, <4>1, EntriesOf DEF m
        <5> QED
          BY <4>1, <4>3, <5>1
      <4> QED
        BY <4>1, <4>2, <4>3
    <3>8. \A i \in DOMAIN R : \/ R[i].sn = sn /\ R[i].of = e
                              \/ \E j \in DOMAIN L : R[i] = L[j]
      <4> SUFFICES ASSUME NEW i \in 1 .. m
                   PROVE  R[i] = x \/ \E j \in DOMAIN L : R[i] = L[j]
        BY <1>1, <3>4
      <4>1. At(i) \in DOMAIN M1 /\ R[i] = M1[At(i)]
        BY <3>1, <3>5
      <4> QED
        BY <2>1, <4>1
    <3>9. Len(L) <= Len(R) /\ ~(Len(R) < NackCache)
      BY <1>2, <2>1, <2>3, <3>3 DEF m
    <3> QED
      BY <3>3, <3>7, <3>8, <3>9 DEF R
  <2> QED
    BY <2>2, <2>3
<1> QED
  BY <1>4, <1>5

\* Only the entry of the number leaves, and with it the number unless S has it.
LEMMA RemoveNackKeeps ==
  ASSUME NEW L \in Seq(NackEntry), Rising(L), NEW sn \in Int, NEW S, Singly(L, S)
  PROVE  LET R == RemoveNack(L, sn)
         IN  /\ R \in Seq(NackEntry) /\ Rising(R) /\ Singly(R, S) /\ From(R, L)
             /\ \A x : Listed(L, x) => Listed(R, x) \/ x = sn
             /\ Listed(R, sn) => sn \in S
<1> DEFINE n == Len(L)
           p == Before(L, sn)
           R == RemoveNack(L, sn)
<1>1. /\ n \in Nat /\ DOMAIN L = 1 .. n /\ \A i \in 1 .. n : L[i] \in NackEntry /\ L[i].sn \in Int
  BY EntriesOf
<1>2. p \in 0 .. n /\ \A i \in 1 .. n : L[i].sn < sn <=> i <= p
  BY BeforeIs
<1>3. CASE ~Listed(L, sn)
  <2>1. R = L
    BY <1>3 DEF RemoveNack
  <2> HIDE DEF R
  <2>2. From(R, L)
    BY <2>1 DEF From
  <2> QED
    BY <1>3, <2>1, <2>2 DEF R
<1>4. CASE Listed(L, sn)
  <2> HIDE DEF p
  <2>1. R = RemoveAt(L, p + 1)
    BY <1>4 DEF RemoveNack, p
  <2>2. PICK k \in 1 .. n : L[k].sn = sn
    BY <1>1, <1>4 DEF Listed
  <2>3. p \in 0 .. n - 1 /\ k >= p + 1 /\ p + 1 \in 1 .. n
    BY <1>1, <1>2, <2>2
  <2>4. L[p + 1].sn = sn
    <3>1. ~(L[p + 1].sn < sn) /\ L[p + 1].sn \in Int
      BY <1>1, <1>2, <2>3
    <3>2. CASE k = p + 1
      BY <2>2, <3>2
    <3>3. CASE k > p + 1
      <4>1. L[p + 1].sn <= L[k].sn
        BY <1>1, <2>3, <3>3 DEF Rising
      <4> QED
        BY <2>2, <3>1, <4>1
    <3> QED
      BY <2>3, <3>2, <3>3
  <2>5. /\ R \in Seq(NackEntry) /\ Len(R) = n - 1
        /\ \A i \in 1 .. n - 1 : R[i] = IF i <= p THEN L[i] ELSE L[i + 1]
    BY <2>1, <2>3, Removed
  <2> HIDE DEF R, n
  <2>6. DOMAIN R = 1 .. n - 1
    BY <2>5, LenProperties
  <2> DEFINE At(i) == IF i <= p THEN i ELSE i + 1
  <2>7. \A i \in 1 .. n - 1 : At(i) \in 1 .. n /\ At(i) # p + 1 /\ R[i] = L[At(i)]
    BY <1>1, <2>3, <2>5
  <2>8. \A i, j \in 1 .. n - 1 : i < j => At(i) < At(j)
    BY <1>1, <2>3
  <2>9. \A i, j \in 1 .. n - 1 : i # j => At(i) # At(j)
    BY <1>1, <2>3
  <2> HIDE DEF At
  <2>10. Rising(R)
    BY <1>1, <2>6, <2>7, <2>8 DEF Rising
  <2>11. Singly(R, S)
    <3> SUFFICES ASSUME NEW i \in 1 .. n - 1, NEW j \in 1 .. n - 1, i # j, R[i].sn = R[j].sn
                 PROVE  R[i].sn \in S
      BY <2>6 DEF Singly
    <3>1. At(i) \in 1 .. n /\ At(j) \in 1 .. n /\ At(i) # At(j) /\ L[At(i)].sn = L[At(j)].sn
          /\ R[i] = L[At(i)]
      BY <2>7, <2>9
    <3> QED
      BY <1>1, <3>1 DEF Singly
  <2>12. From(R, L)
    BY <1>1, <2>6, <2>7 DEF From
  <2>13. ASSUME NEW x, Listed(L, x), x # sn PROVE Listed(R, x)
    <3>1. PICK i \in 1 .. n : L[i].sn = x
      BY <1>1, <2>13 DEF Listed
    <3>2. i # p + 1
      BY <2>4, <2>13, <3>1
    <3>3. CASE i <= p
      <4>1. i \in 1 .. n - 1 /\ R[i] = L[i]
        BY <2>3, <2>5, <3>3
      <4> QED
        BY <2>6, <3>1, <4>1 DEF Listed
    <3>4. CASE i > p + 1
      <4>1. i - 1 \in 1 .. n - 1 /\ ~(i - 1 <= p) /\ (i - 1) + 1 = i
        BY <1>1, <2>3, <3>4
      <4>2. R[i - 1] = L[i]
        BY <2>5, <4>1
      <4> QED
        BY <2>6, <3>1, <4>1, <4>2 DEF Listed
    <3> QED
      BY <2>3, <3>2, <3>3, <3>4
  <2>14. ASSUME Listed(R, sn) PROVE sn \in S
    <3>1. PICK i \in 1 .. n - 1 : R[i].sn = sn
      BY <2>6, <2>14 DEF Listed
    <3>2. At(i) \in 1 .. n /\ At(i) # p + 1 /\ L[At(i)].sn = sn
      BY <2>7, <3>1
    <3> QED
      BY <1>1, <2>3, <2>4, <3>2 DEF Singly
  <2> QED
    BY <2>5, <2>10, <2>11, <2>12, <2>13, <2>14 DEF R
<1> QED
  BY <1>3, <1>4

\* What Missed computes up to the packet n; the least n for which there is no such
\* function would be one too large.
LostUpTo(f, b, e, n) ==
  f = [i \in 0 .. n |-> IF i = 0 THEN b.nacks
                        ELSE PushNack(f[i - 1], Number(b, e, i), e - i)]

LEMMA LostExist ==
  ASSUME NEW b, NEW e
  PROVE  \A n \in Nat : \E f : LostUpTo(f, b, e, n)
<1> DEFINE T == {n \in Nat : ~ \E f : LostUpTo(f, b, e, n)}
<1>1. SUFFICES ASSUME T # {} PROVE FALSE
  OBVIOUS
<1>2. PICK n \in T : \A m \in T : n <= m
  <2> HIDE DEF T
  <2>1. T \subseteq Nat
    BY DEF T
  <2> QED
    BY <1>1, <2>1, Least
<1>3. CASE n = 0
  <2> DEFINE f == [i \in 0 .. 0 |-> b.nacks]
  <2>1. LostUpTo(f, b, e, 0)
    BY DEF LostUpTo
  <2> QED
    BY <1>3, <2>1
<1>4. CASE n # 0
  <2>1. n - 1 \in Nat /\ n \in Nat /\ n - 1 \notin T
    BY <1>2, <1>4
  <2>2. PICK f : LostUpTo(f, b, e, n - 1)
    BY <2>1
  <2>3. \A i \in 0 .. n - 1 : f[i] = IF i = 0 THEN b.nacks
                                     ELSE PushNack(f[i - 1], Number(b, e, i), e - i)
    BY <2>2 DEF LostUpTo
  <2> DEFINE last == PushNack(f[n - 1], Number(b, e, n), e - n)
             g == [i \in 0 .. n |-> IF i = n THEN last ELSE f[i]]
  <2>4. /\ \A i \in 0 .. n - 1 : i \in 0 .. n /\ i # n /\ g[i] = f[i]
        /\ g[n] = last
        /\ \A i \in 0 .. n : i = n \/ i \in 0 .. n - 1
        /\ \A i \in 0 .. n : i # 0 => i - 1 \in 0 .. n - 1
    BY <2>1
  <2>5. \A i \in 0 .. n : g[i] = IF i = 0 THEN b.nacks
                                 ELSE PushNack(g[i - 1], Number(b, e, i), e - i)
    <3> HIDE DEF g
    <3> QED
      BY <1>4, <2>3, <2>4
  <2>6. LostUpTo(g, b, e, n)
    <3>1. g = [i \in 0 .. n |-> g[i]]
      OBVIOUS
    <3> HIDE DEF g
    <3> QED
      BY <2>5, <3>1 DEF LostUpTo
  <2> QED
    BY <2>6
<1> QED
  BY <1>3, <1>4

LEMMA MissedIs ==
  ASSUME NEW b, NEW e
  PROVE  \E f : LostUpTo(f, b, e, Half) /\ Missed(b, e) = f[Cardinality(Gap(b, e))]
<1> DEFINE f == CHOOSE f : LostUpTo(f, b, e, Half)
<1>1. LostUpTo(f, b, e, Half)
  BY Sizes, LostExist
<1>2. Missed(b, e) = f[Cardinality(Gap(b, e))]
  BY DEF Missed, LostUpTo
<1> QED
  BY <1>1, <1>2

\* The list R after i packets of the gap before e were pushed to that of b.
Pushed(R, b, e, i) ==
  /\ R \in Seq(NackEntry) /\ Rising(R)
  /\ \A k \in DOMAIN R : \/ \E j \in DOMAIN b.nacks : R[k] = b.nacks[j]
                         \/ \E j \in 1 .. i : R[k].sn = Number(b, e, j) /\ R[k].of = e - j
  /\ Len(R) < NackCache => /\ \A j \in 1 .. i : Listed(R, Number(b, e, j))
                           /\ \A x : Listed(b.nacks, x) => Listed(R, x)
                           /\ \A S : Singly(b.nacks, S) => Singly(R, S)

LEMMA PushedOne ==
  ASSUME NEW b, NEW e \in Int, NEW R, NEW i \in Nat, Pushed(R, b, e, i),
         Number(b, e, i + 1) \in 0 .. Wide - 1
  PROVE  Pushed(PushNack(R, Number(b, e, i + 1), e - (i + 1)), b, e, i + 1)
<1> DEFINE n == Number(b, e, i + 1)
           Q == PushNack(R, n, e - (i + 1))
<1>1. R \in Seq(NackEntry) /\ Rising(R) /\ n \in 0 .. Wide - 1 /\ e - (i + 1) \in Int
  BY DEF Pushed
<1> HIDE DEF n
<1>2. /\ Q \in Seq(NackEntry) /\ Rising(Q) /\ Len(R) <= Len(Q)
      /\ \A k \in DOMAIN Q : \/ Q[k].sn = n /\ Q[k].of = e - (i + 1)
                             \/ \E j \in DOMAIN R : Q[k] = R[j]
      /\ Len(Q) < NackCache => /\ Listed(Q, n) /\ \A x : Listed(R, x) => Listed(Q, x)
                               /\ \A S : Singly(R, S) => Singly(Q, S)
  BY <1>1, PushNackKeeps
<1> HIDE DEF Q
<1>3. ASSUME NEW k \in DOMAIN Q
      PROVE  \/ \E j \in DOMAIN b.nacks : Q[k] = b.nacks[j]
             \/ \E j \in 1 .. i + 1 : Q[k].sn = Number(b, e, j) /\ Q[k].of = e - j
  <2>1. CASE Q[k].sn = n /\ Q[k].of = e - (i + 1)
    <3>1. i + 1 \in 1 .. i + 1
      OBVIOUS
    <3> QED
      BY <2>1, <3>1 DEF n
  <2>2. CASE \E j \in DOMAIN R : Q[k] = R[j]
    <3>1. PICK j \in DOMAIN R : Q[k] = R[j]
      BY <2>2
    <3>2. 1 .. i \subseteq 1 .. i + 1
      OBVIOUS
    <3>3. \/ \E h \in DOMAIN b.nacks : R[j] = b.nacks[h]
          \/ \E h \in 1 .. i : R[j].sn = Number(b, e, h) /\ R[j].of = e - h
      BY DEF Pushed
    <3> QED
      BY <3>1, <3>2, <3>3
  <2> QED
    BY <1>2, <2>1, <2>2
<1>4. ASSUME Len(Q) < NackCache
      PROVE  /\ \A j \in 1 .. i + 1 : Listed(Q, Number(b, e, j))
             /\ \A x : Listed(b.nacks, x) => Listed(Q, x)
             /\ \A S : Singly(b.nacks, S) => Singly(Q, S)
  <2>1. Len(R) < NackCache
    <3>1. Len(R) \in Nat /\ Len(Q) \in Nat /\ NackCache \in Nat
      BY <1>1, <1>2, LenProperties, PathAssumption
    <3> QED
      BY <1>2, <1>4, <3>1
  <2>2. /\ \A j \in 1 .. i : Listed(R, Number(b, e, j))
        /\ \A x : Listed(b.nacks, x) => Listed(R, x)
        /\ \A S : Singly(b.nacks, S) => Singly(R, S)
    BY <2>1 DEF Pushed
  <2>3. \A j \in 1 .. i + 1 : j \in 1 .. i \/ j = i + 1
    OBVIOUS
  <2>4. ASSUME NEW j \in 1 .. i + 1 PROVE Listed(Q, Number(b, e, j))
    <3>1. CASE j = i + 1
      BY <1>2, <1>4, <3>1 DEF n
    <3>2. CASE j \in 1 .. i
      BY <1>2, <1>4, <2>2, <3>2
    <3> QED
      BY <2>3, <3>1, <3>2
  <2> QED
    BY <1>2, <1>4, <2>2, <2>4
<1>5. Pushed(Q, b, e, i + 1)
  BY <1>2, <1>3, <1>4 DEF Pushed
<1> QED
  BY <1>5 DEF Q, n

LEMMA PushedAll ==
  ASSUME NEW b, b.nacks \in Seq(NackEntry), Rising(b.nacks), NEW e \in Int, NEW f,
         LostUpTo(f, b, e, Half), \A i \in 1 .. Half : Number(b, e, i) \in 0 .. Wide - 1
  PROVE  \A n \in 0 .. Half : Pushed(f[n], b, e, n)
<1> DEFINE T == {n \in 0 .. Half : ~Pushed(f[n], b, e, n)}
<1>1. SUFFICES ASSUME T # {} PROVE FALSE
  OBVIOUS
<1>2. T \subseteq Nat
  OBVIOUS
<1>3. PICK n \in T : \A m \in T : n <= m
  <2> HIDE DEF T
  <2> QED
    BY <1>1, <1>2, Least
<1>4. Half \in Nat /\ n \in 0 .. Half /\ ~Pushed(f[n], b, e, n)
  BY <1>3, Sizes
<1>5. \A i \in 0 .. Half : f[i] = IF i = 0 THEN b.nacks
                                  ELSE PushNack(f[i - 1], Number(b, e, i), e - i)
  BY DEF LostUpTo
<1>6. CASE n = 0
  <2>1. f[0] = b.nacks
    BY <1>4, <1>5
  <2>2. Pushed(b.nacks, b, e, 0)
    BY DEF Pushed
  <2> QED
    BY <1>4, <1>6, <2>1, <2>2
<1>7. CASE n # 0
  <2>1. n - 1 \in Nat /\ n - 1 \in 0 .. Half /\ (n - 1) + 1 = n /\ n \in 1 .. Half /\ n - 1 \notin T
    BY <1>3, <1>4, <1>7
  <2>2. Pushed(f[n - 1], b, e, n - 1)
    BY <2>1
  <2>3. f[n] = PushNack(f[n - 1], Number(b, e, n), e - n)
    BY <1>4, <1>5, <1>7
  <2>4. Pushed(PushNack(f[n - 1], Number(b, e, (n - 1) + 1), e - ((n - 1) + 1)), b, e, (n - 1) + 1)
    <3> DEFINE k == n - 1
    <3>1. k \in Nat /\ k + 1 \in 1 .. Half /\ Pushed(f[k], b, e, k)
      BY <2>1, <2>2
    <3> HIDE DEF k
    <3>2. Pushed(PushNack(f[k], Number(b, e, k + 1), e - (k + 1)), b, e, k + 1)
      BY <3>1, PushedOne
    <3> QED
      BY <3>2 DEF k
  <2> QED
    BY <1>4, <2>1, <2>3, <2>4
<1> QED
  BY <1>6, <1>7

\* After a gap the list has its numbers, but for what Overfull names.
LEMMA MissedKeeps ==
  ASSUME NEW b, b.nacks \in Seq(NackEntry), Rising(b.nacks), NEW e \in Int,
         \A i \in 1 .. Half : Number(b, e, i) \in 0 .. Wide - 1,
         NEW g \in 0 .. Half, Gap(b, e) = 1 .. g, NEW S, Singly(b.nacks, S)
  PROVE  LET R == Missed(b, e)
         IN  /\ R \in Seq(NackEntry) /\ Rising(R) /\ Singly(R, S \cup Overfull(b, e))
             /\ \A k \in DOMAIN R : \/ \E j \in DOMAIN b.nacks : R[k] = b.nacks[j]
                                    \/ \E j \in 1 .. g : R[k].sn = Number(b, e, j) /\ R[k].of = e - j
             /\ \A x : Listed(b.nacks, x) => Listed(R, x) \/ x \in Overfull(b, e)
             /\ \A j \in 1 .. g : \/ Listed(R, Number(b, e, j))
                                  \/ Number(b, e, j) \in Overfull(b, e)
<1> DEFINE R == Missed(b, e)
           O == Overfull(b, e)
           sns(L) == {L[i].sn : i \in DOMAIN L}
           twice == {R[i].sn : i \in {j \in DOMAIN R : \E k \in DOMAIN R \ {j} : R[k].sn = R[j].sn}}
<1>1. Cardinality(1 .. g) = g
  BY Sizes, FS_Interval
<1>2. Pushed(R, b, e, g)
  <2>1. PICK f : LostUpTo(f, b, e, Half) /\ Missed(b, e) = f[Cardinality(Gap(b, e))]
    BY MissedIs
  <2>2. Missed(b, e) = f[g]
    BY <1>1, <2>1
  <2>3. Pushed(f[g], b, e, g)
    BY <2>1, PushedAll
  <2> QED
    BY <2>2, <2>3
<1>3. O = IF Len(R) < NackCache THEN {}
          ELSE ((sns(b.nacks) \cup {Number(b, e, i) : i \in 1 .. g}) \ sns(R)) \cup twice
  BY DEF Overfull
<1> HIDE DEF R, O
<1>4. \A L, x : Listed(L, x) <=> x \in sns(L)
  BY DEF Listed
<1>5. /\ \A x : Listed(b.nacks, x) => Listed(R, x) \/ x \in O
      /\ \A j \in 1 .. g : Listed(R, Number(b, e, j)) \/ Number(b, e, j) \in O
  <2>1. CASE Len(R) < NackCache
    BY <1>2, <2>1 DEF Pushed
  <2>2. CASE ~(Len(R) < NackCache)
    <3> HIDE DEF sns, twice
    <3>1. O = ((sns(b.nacks) \cup {Number(b, e, i) : i \in 1 .. g}) \ sns(R)) \cup twice
      BY <1>3, <2>2
    <3> QED
      BY <1>4, <3>1
  <2> QED
    BY <2>1, <2>2
<1>6. Singly(R, S \cup O)
  <2>1. CASE Len(R) < NackCache
    <3>1. Singly(R, S)
      BY <1>2, <2>1 DEF Pushed
    <3> QED
      BY <3>1 DEF Singly
  <2>2. CASE ~(Len(R) < NackCache)
    <3>1. twice \subseteq O
      <4> HIDE DEF sns, twice
      <4> QED
        BY <1>3, <2>2
    <3>2. ASSUME NEW i \in DOMAIN R, NEW j \in DOMAIN R, i # j, R[i].sn = R[j].sn
          PROVE  R[i].sn \in twice
      <4>1. j \in DOMAIN R \ {i}
        BY <3>2
      <4>2. i \in {h \in DOMAIN R : \E k \in DOMAIN R \ {h} : R[k].sn = R[h].sn}
        BY <3>2, <4>1
      <4> QED
        BY <4>2
    <3> HIDE DEF twice
    <3> QED
      BY <3>1, <3>2 DEF Singly
  <2> QED
    BY <2>1, <2>2
<1> QED
  BY <1>2, <1>5, <1>6 DEF R, O, Pushed

-----------------------------------------------------------------------------
\* What Pairs keeps, entry by entry.
KeptUpTo(f, L, h, n) ==
  f = [i \in 0 .. n |-> IF i = 0 THEN <<>>
                        ELSE IF L[i].nacked < NackTimes THEN Append(f[i - 1], Asked(L[i], h))
                        ELSE f[i - 1]]

LEMMA KeptExist ==
  ASSUME NEW L, NEW h
  PROVE  \A n \in Nat : \E f : KeptUpTo(f, L, h, n)
<1> DEFINE T == {n \in Nat : ~ \E f : KeptUpTo(f, L, h, n)}
<1>1. SUFFICES ASSUME T # {} PROVE FALSE
  OBVIOUS
<1>2. PICK n \in T : \A m \in T : n <= m
  <2> HIDE DEF T
  <2>1. T \subseteq Nat
    BY DEF T
  <2> QED
    BY <1>1, <2>1, Least
<1>3. CASE n = 0
  <2> DEFINE f == [i \in 0 .. 0 |-> <<>>]
  <2>1. KeptUpTo(f, L, h, 0)
    BY DEF KeptUpTo
  <2> QED
    BY <1>3, <2>1
<1>4. CASE n # 0
  <2>1. n - 1 \in Nat /\ n \in Nat /\ n - 1 \notin T
    BY <1>2, <1>4
  <2>2. PICK f : KeptUpTo(f, L, h, n - 1)
    BY <2>1
  <2>3. \A i \in 0 .. n - 1 : f[i] = IF i = 0 THEN <<>>
                                     ELSE IF L[i].nacked < NackTimes THEN Append(f[i - 1], Asked(L[i], h))
                                     ELSE f[i - 1]
    BY <2>2 DEF KeptUpTo
  <2> DEFINE last == IF L[n].nacked < NackTimes THEN Append(f[n - 1], Asked(L[n], h)) ELSE f[n - 1]
             g == [i \in 0 .. n |-> IF i = n THEN last ELSE f[i]]
  <2>4. /\ \A i \in 0 .. n - 1 : i \in 0 .. n /\ i # n /\ g[i] = f[i]
        /\ g[n] = last
        /\ \A i \in 0 .. n : i = n \/ i \in 0 .. n - 1
        /\ \A i \in 0 .. n : i # 0 => i - 1 \in 0 .. n - 1
    BY <2>1
  <2>5. \A i \in 0 .. n : g[i] = IF i = 0 THEN <<>>
                                 ELSE IF L[i].nacked < NackTimes THEN Append(g[i - 1], Asked(L[i], h))
                                 ELSE g[i - 1]
    <3> HIDE DEF g
    <3> QED
      BY <1>4, <2>3, <2>4
  <2>6. KeptUpTo(g, L, h, n)
    <3>1. g = [i \in 0 .. n |-> g[i]]
      OBVIOUS
    <3> HIDE DEF g
    <3> QED
      BY <2>5, <3>1 DEF KeptUpTo
  <2> QED
    BY <2>6
<1> QED
  BY <1>3, <1>4

LEMMA PairsIs ==
  ASSUME NEW L, NEW h, Len(L) \in Nat
  PROVE  \E f : KeptUpTo(f, L, h, Len(L)) /\ Pairs(L, h) = f[Len(L)]
<1> DEFINE f == CHOOSE f : KeptUpTo(f, L, h, Len(L))
<1>1. KeptUpTo(f, L, h, Len(L))
  BY KeptExist
<1>2. Pairs(L, h) = f[Len(L)]
  BY DEF Pairs, KeptUpTo
<1> QED
  BY <1>1, <1>2

\* The list R kept of the first i entries of L.
KeptOf(R, L, S, i) ==
  /\ R \in Seq(NackEntry) /\ Rising(R) /\ Singly(R, S)
  /\ \A k \in DOMAIN R : \E j \in 1 .. i : R[k].sn = L[j].sn /\ R[k].of = L[j].of
  /\ \A j \in 1 .. i : L[j].nacked < NackTimes => Listed(R, L[j].sn)

LEMMA AskedIn ==
  ASSUME NEW n \in NackEntry, NEW h
  PROVE  Asked(n, h) \in NackEntry /\ Asked(n, h).sn = n.sn /\ Asked(n, h).of = n.of
<1>1. n \in [sn : 0 .. Wide - 1, nacked : Nat, of : Int]
  BY DEF NackEntry
<1>2. [n EXCEPT !.nacked = @ + 1] \in [sn : 0 .. Wide - 1, nacked : Nat, of : Int]
  BY <1>1
<1> QED
  BY <1>1, <1>2 DEF Asked, NackEntry

LEMMA KeptOne ==
  ASSUME NEW L \in Seq(NackEntry), Rising(L), NEW S, Singly(L, S), NEW h, NEW i \in 1 .. Len(L),
         NEW R, KeptOf(R, L, S, i - 1)
  PROVE  KeptOf(IF L[i].nacked < NackTimes THEN Append(R, Asked(L[i], h)) ELSE R, L, S, i)
<1>1. /\ Len(L) \in Nat /\ DOMAIN L = 1 .. Len(L)
      /\ \A j \in 1 .. Len(L) : L[j] \in NackEntry /\ L[j].sn \in Int /\ L[j].nacked \in Nat
  BY EntriesOf
<1>2. /\ 1 .. i - 1 \subseteq 1 .. i /\ i \in 1 .. i /\ i \in Nat
      /\ \A j \in 1 .. i : j \in 1 .. i - 1 \/ j = i
      /\ \A j \in 1 .. i - 1 : j \in 1 .. Len(L) /\ j < i
  BY <1>1
<1>3. CASE ~(L[i].nacked < NackTimes)
  BY <1>2, <1>3 DEF KeptOf
<1>4. CASE L[i].nacked < NackTimes
  <2> DEFINE x == Asked(L[i], h)
             m == Len(R)
             Q == Append(R, x)
  <2>1. x \in NackEntry /\ x.sn = L[i].sn /\ x.of = L[i].of
    BY <1>1, AskedIn
  <2>2. R \in Seq(NackEntry) /\ m \in Nat /\ DOMAIN R = 1 .. m /\ \A k \in 1 .. m : R[k].sn \in Int
    <3>1. R \in Seq(NackEntry)
      BY DEF KeptOf
    <3> QED
      BY <3>1, EntriesOf
  <2> HIDE DEF x
  <2>3. /\ Q \in Seq(NackEntry) /\ Len(Q) = m + 1 /\ (\A k \in 1 .. m : Q[k] = R[k]) /\ Q[m + 1] = x
    BY <2>1, <2>2, AppendProperties
  <2> HIDE DEF Q, m
  <2>4. DOMAIN Q = 1 .. m + 1 /\ \A k \in 1 .. m + 1 : k \in 1 .. m \/ k = m + 1
    BY <2>2, <2>3, LenProperties
  <2>5. \A k \in 1 .. m : \E j \in 1 .. i - 1 : R[k].sn = L[j].sn /\ R[k].of = L[j].of
    BY <2>2 DEF KeptOf
  <2>6. Rising(Q)
    <3> SUFFICES ASSUME NEW k \in 1 .. m + 1, NEW l \in 1 .. m + 1, k < l PROVE Q[k].sn <= Q[l].sn
      BY <2>4 DEF Rising
    <3>1. k \in 1 .. m
      BY <2>2
    <3>2. CASE l \in 1 .. m
      BY <2>2, <2>3, <3>1, <3>2 DEF KeptOf, Rising
    <3>3. CASE l = m + 1
      <4>1. PICK j \in 1 .. i - 1 : R[k].sn = L[j].sn
        BY <2>5, <3>1
      <4>2. L[j].sn <= L[i].sn
        BY <1>1, <1>2 DEF Rising
      <4> QED
        BY <2>1, <2>3, <3>1, <3>3, <4>1, <4>2
    <3> QED
      BY <2>4, <3>2, <3>3
  <2>7. ASSUME NEW k \in 1 .. m, R[k].sn = x.sn PROVE R[k].sn \in S
    <3>1. PICK j \in 1 .. i - 1 : R[k].sn = L[j].sn
      BY <2>5
    <3>2. j \in DOMAIN L /\ i \in DOMAIN L /\ j # i /\ L[j].sn = L[i].sn
      BY <1>1, <1>2, <2>1, <2>7, <3>1
    <3> QED
      BY <3>1, <3>2 DEF Singly
  <2>8. Singly(Q, S)
    <3> SUFFICES ASSUME NEW k \in 1 .. m + 1, NEW l \in 1 .. m + 1, k # l, Q[k].sn = Q[l].sn
                 PROVE  Q[k].sn \in S
      BY <2>4 DEF Singly
    <3>1. CASE k \in 1 .. m /\ l \in 1 .. m
      BY <2>2, <2>3, <3>1 DEF KeptOf, Singly
    <3>2. CASE k \in 1 .. m /\ l = m + 1
      BY <2>3, <2>7, <3>2
    <3>3. CASE k = m + 1 /\ l \in 1 .. m
      <4>1. R[l].sn = x.sn /\ Q[k].sn = R[l].sn
        BY <2>3, <3>3
      <4> QED
        BY <2>7, <3>3, <4>1
    <3> QED
      BY <2>4, <3>1, <3>2, <3>3
  <2>9. \A k \in DOMAIN Q : \E j \in 1 .. i : Q[k].sn = L[j].sn /\ Q[k].of = L[j].of
    <3> SUFFICES ASSUME NEW k \in 1 .. m + 1
                 PROVE  \E j \in 1 .. i : Q[k].sn = L[j].sn /\ Q[k].of = L[j].of
      BY <2>4
    <3>1. CASE k \in 1 .. m
      BY <1>2, <2>3, <2>5, <3>1
    <3>2. CASE k = m + 1
      BY <1>2, <2>1, <2>3, <3>2
    <3> QED
      BY <2>4, <3>1, <3>2
  <2>10. \A sn : Listed(R, sn) => Listed(Q, sn)
    <3> SUFFICES ASSUME NEW sn, NEW k \in 1 .. m, R[k].sn = sn PROVE Listed(Q, sn)
      BY <2>2 DEF Listed
    <3>1. k \in 1 .. m + 1 /\ Q[k].sn = sn
      BY <2>2, <2>3
    <3> QED
      BY <2>4, <3>1 DEF Listed
  <2>11. Listed(Q, L[i].sn)
    <3>1. m + 1 \in 1 .. m + 1 /\ Q[m + 1].sn = L[i].sn
      BY <2>1, <2>2, <2>3
    <3> QED
      BY <2>4, <3>1 DEF Listed
  <2>12. \A j \in 1 .. i : L[j].nacked < NackTimes => Listed(Q, L[j].sn)
    BY <1>2, <2>10, <2>11 DEF KeptOf
  <2>13. KeptOf(Q, L, S, i)
    BY <2>3, <2>6, <2>8, <2>9, <2>12 DEF KeptOf
  <2> QED
    BY <1>4, <2>13 DEF Q, x
<1> QED
  BY <1>3, <1>4

LEMMA PairsKeeps ==
  ASSUME NEW L \in Seq(NackEntry), Rising(L), NEW S, Singly(L, S), NEW h
  PROVE  LET R == Pairs(L, h)
         IN  /\ R \in Seq(NackEntry) /\ Rising(R) /\ Singly(R, S) /\ From(R, L)
             /\ \A x : Listed(L, x) => Listed(R, x) \/ x \in Spent(L)
<1> DEFINE n == Len(L)
           R == Pairs(L, h)
<1>1. /\ n \in Nat /\ DOMAIN L = 1 .. n /\ \A i \in 1 .. n : L[i].nacked \in Nat
  BY EntriesOf
<1> HIDE DEF n
<1>2. PICK f : KeptUpTo(f, L, h, n) /\ R = f[n]
  BY <1>1, PairsIs DEF n
<1>3. \A i \in 0 .. n : f[i] = IF i = 0 THEN <<>>
                               ELSE IF L[i].nacked < NackTimes THEN Append(f[i - 1], Asked(L[i], h))
                               ELSE f[i - 1]
  BY <1>2 DEF KeptUpTo
<1> HIDE DEF R
<1>4. \A i \in 0 .. n : KeptOf(f[i], L, S, i)
  <2> DEFINE T == {i \in 0 .. n : ~KeptOf(f[i], L, S, i)}
  <2>1. SUFFICES ASSUME T # {} PROVE FALSE
    OBVIOUS
  <2>2. T \subseteq Nat
    OBVIOUS
  <2>3. PICK i \in T : \A m \in T : i <= m
    <3> HIDE DEF T
    <3> QED
      BY <2>1, <2>2, Least
  <2>4. i \in 0 .. n /\ ~KeptOf(f[i], L, S, i)
    BY <2>3
  <2>5. CASE i = 0
    <3>1. f[0] = <<>>
      BY <1>1, <1>3
    <3>2. KeptOf(<<>>, L, S, 0)
      BY EmptySeq DEF KeptOf, Rising, Singly
    <3> QED
      BY <2>4, <2>5, <3>1, <3>2
  <2>6. CASE i # 0
    <3>1. i - 1 \in 0 .. n /\ i \in 1 .. n /\ i - 1 \notin T
      BY <1>1, <2>3, <2>4, <2>6
    <3>2. KeptOf(f[i - 1], L, S, i - 1)
      BY <3>1
    <3>3. f[i] = IF L[i].nacked < NackTimes THEN Append(f[i - 1], Asked(L[i], h)) ELSE f[i - 1]
      BY <1>3, <2>4, <2>6
    <3> QED
      BY <2>4, <3>1, <3>2, <3>3, KeptOne DEF n
  <2> QED
    BY <2>5, <2>6
<1>5. KeptOf(R, L, S, n)
  BY <1>1, <1>2, <1>4
<1>6. \A x : Listed(L, x) => Listed(R, x) \/ x \in Spent(L)
  <2> SUFFICES ASSUME NEW i \in 1 .. n PROVE Listed(R, L[i].sn) \/ L[i].sn \in Spent(L)
    BY <1>1 DEF Listed
  <2>1. CASE L[i].nacked < NackTimes
    BY <1>5, <2>1 DEF KeptOf
  <2>2. CASE L[i].nacked >= NackTimes
    <3>1. i \in {j \in DOMAIN L : L[j].nacked >= NackTimes}
      BY <1>1, <2>2
    <3> QED
      BY <3>1 DEF Spent
  <2>3. NackTimes \in Nat
    BY PathAssumption
  <2> QED
    BY <1>1, <2>1, <2>2, <2>3
<1>7. From(R, L)
  BY <1>1, <1>5 DEF KeptOf, From
<1> QED
  BY <1>5, <1>6, <1>7 DEF KeptOf, R

-----------------------------------------------------------------------------
\* The numbers calc computes.
LEMMA WideSize == Wide \in Nat /\ Wide > 0 /\ W <= Wide
<1>1. W \in Nat /\ W > 0
  BY Sizes
<1> DEFINE q == W - 1
<1>2. q \in Nat /\ W = q + 1
  BY <1>1
<1>3. W * W = W + q * W /\ q * W \in Nat
  <2> HIDE DEF q
  <2> QED
    BY <1>1, <1>2
<1> QED
  BY <1>1, <1>3 DEF Wide

LEMMA ExtendIn ==
  ASSUME NEW c \in Int, NEW m \in Int, NEW sn \in Int
  PROVE  Extend(c, m, sn) \in 0 .. Wide - 1
<1>1. Wide \in Nat /\ Wide > 0 /\ Wide = W * W /\ W \in Int
  BY Sizes, WideSize DEF Wide
<1>2. c - W + sn \in Int /\ c + sn \in Int
  BY <1>1
<1> HIDE DEF Wide
<1>3. (c - W + sn) % Wide \in 0 .. Wide - 1 /\ (c + sn) % Wide \in 0 .. Wide - 1
  BY <1>1, <1>2, Division
<1> QED
  BY <1>1, <1>3 DEF Extend

LEMMA NumbersIn ==
  ASSUME NEW b, b.max \in Int, b.cycles \in Int, NEW e \in Int, NEW i \in Int
  PROVE  Number(b, e, i) \in 0 .. Wide - 1
<1>1. W \in Int /\ Sub(e, i) \in Int
  BY Sizes, SubIn
<1>2. Cycles(b, e % W) \in Int
  BY <1>1 DEF Cycles
<1> QED
  BY <1>1, <1>2, ExtendIn DEF Number

\* A packet ahead of t, or t again.
LEMMA AheadIs ==
  ASSUME NEW t \in Int, NEW b, b.max = t % W, b.cycles = t - (t % W), b.begun,
         NEW e \in t .. t + Reach
  PROVE  /\ IsAhead(b, e % W) /\ Cycles(b, e % W) = e - (e % W)
         /\ Gap(b, e) = 1 .. e - t - 1
<1>1. /\ W \in Nat /\ W > 0 /\ Half \in Nat /\ W = Half + Half /\ Reach \in Nat /\ Reach < Half
      /\ e \in Int /\ e - t \in 0 .. Reach
  BY Sizes
<1>2. e - t \in Word /\ e - t < Half
  BY <1>1 DEF Word
<1>3. Sub(e % W, t % W) = e - t
  BY <1>1, <1>2, Distance
<1> DEFINE s == e % W
           m == t % W
<1>4. s \in 0 .. W - 1 /\ m \in 0 .. W - 1
  BY <1>1, Division
<1>5. (s - m) % W = e - t
  BY <1>3 DEF Sub
<1>6. PICK q \in Int : t = W * q + m
  BY <1>1, Division
<1> HIDE DEF s, m
<1>7. Cycles(b, s) = e - s
  <2>1. CASE s >= m
    <3>1. s - m \in 0 .. W - 1 /\ s - m \in Int
      BY <1>1, <1>4, <2>1
    <3>2. s - m = e - t
      BY <1>1, <1>5, <3>1, LessThanATurn
    <3>3. Cycles(b, s) = t - m
      BY <1>4, <2>1 DEF Cycles, m
    <3> QED
      BY <1>1, <1>4, <3>2, <3>3
  <2>2. CASE s < m
    <3>1. s - m \in 0 - W .. 0 - 1 /\ s - m \in Int
      BY <1>1, <1>4, <2>2
    <3>2. s - m + W = e - t
      BY <1>1, <1>5, <3>1, LessThanATurn
    <3>3. Cycles(b, s) = t - m + W
      BY <2>2 DEF Cycles, m
    <3> QED
      BY <1>1, <1>4, <3>2, <3>3
  <2> QED
    BY <1>4, <2>1, <2>2
<1>8. IsAhead(b, s)
  BY <1>2, <1>3 DEF IsAhead, s
<1>9. Sub(e, b.max) = e - t
  <2>1. e - m = (e - t) + W * q /\ e - t \in Int
    BY <1>1, <1>4, <1>6
  <2>2. (e - m) % W = (e - t) % W
    BY <1>1, <2>1, Turns
  <2>3. (e - t) % W = e - t
    BY <1>1, <1>2, <2>1, LessThanATurn DEF Word
  <2> QED
    BY <2>2, <2>3 DEF Sub, m
<1>10. Gap(b, e) = 1 .. e - t - 1
  BY <1>8, <1>9 DEF Gap, s
<1> QED
  BY <1>7, <1>8, <1>10 DEF s

\* A packet behind t.
LEMMA LateIs ==
  ASSUME NEW t \in Int, NEW b, b.max = t % W, b.cycles = t - (t % W),
         NEW e \in t - Reach .. t - 1
  PROVE  ~IsAhead(b, e % W) /\ Extend(b.cycles, b.max, e % W) = e % Wide
<1>1. /\ W \in Nat /\ W > 0 /\ Half \in Nat /\ W = Half + Half /\ Reach \in Nat /\ Reach < Half
      /\ e \in Int /\ t - e \in 1 .. Reach /\ Wide = W * W
  BY Sizes DEF Wide
<1>2. t - e \in Word /\ t - e \in 1 .. W
  BY <1>1 DEF Word
<1>3. Sub(t % W, e % W) = t - e /\ Sub(e % W, t % W) = W + (e - t)
  BY <1>1, <1>2, Distance
<1> DEFINE s == e % W
           m == t % W
<1>4. s \in 0 .. W - 1 /\ m \in 0 .. W - 1
  BY <1>1, Division
<1>5. (m - s) % W = t - e
  BY <1>3 DEF Sub
<1>6. ~IsAhead(b, s)
  BY <1>1, <1>3 DEF IsAhead, s
<1> HIDE DEF s, m
<1>7. CASE m >= s
  <2>1. m - s \in 0 .. W - 1 /\ m - s \in Int
    BY <1>1, <1>4, <1>7
  <2>2. m - s = t - e
    BY <1>1, <1>5, <2>1, LessThanATurn
  <2>3. t - m + s = e /\ ~(s > m)
    BY <1>1, <1>4, <1>7, <2>2
  <2>4. Extend(t - m, m, s) = e % (W * W)
    BY <2>3 DEF Extend
  <2> QED
    BY <1>1, <1>6, <2>4 DEF s, m
<1>8. CASE m < s
  <2>1. m - s \in 0 - W .. 0 - 1 /\ m - s \in Int
    BY <1>1, <1>4, <1>8
  <2>2. m - s + W = t - e
    BY <1>1, <1>5, <2>1, LessThanATurn
  <2>3. t - m - W + s = e /\ s > m /\ s >= Half /\ m < Half
    BY <1>1, <1>4, <1>8, <2>2
  <2>4. Extend(t - m, m, s) = e % (W * W)
    BY <2>3 DEF Extend
  <2> QED
    BY <1>1, <1>6, <2>4 DEF s, m
<1> QED
  BY <1>4, <1>7, <1>8

-----------------------------------------------------------------------------
\* What a list tells of a stream with the first packet f and the highest t, of
\* which those of C came; those of S are excused.
NacksTell(L, t, f, C, S) ==
  /\ L \in Seq(NackEntry) /\ Rising(L) /\ Singly(L, S)
  /\ \A k \in DOMAIN L : L[k].of < t /\ (L[k].sn = L[k].of => L[k].of \notin C \ S)
  /\ t < Wide => \A e \in f .. t : e \in C \cup S \/ Listed(L, e)

LEMMA NoGap ==
  ASSUME NEW b, NEW e, Gap(b, e) = {}
  PROVE  Missed(b, e) = b.nacks
<1>1. PICK f : LostUpTo(f, b, e, Half) /\ Missed(b, e) = f[Cardinality(Gap(b, e))]
  BY MissedIs
<1>2. f[0] = b.nacks
  BY <1>1, Sizes DEF LostUpTo
<1> QED
  BY <1>1, <1>2, FS_EmptySet

LEMMA GapTells ==
  ASSUME NEW t \in Int, NEW f \in Int, NEW C \in SUBSET Int, NEW S, NEW b,
         b.max = t % W, b.cycles = t - (t % W), b.begun, f <= t, \A c \in C : c <= t,
         NacksTell(b.nacks, t, f, C, S), NEW e \in t + 1 .. t + Reach
  PROVE  NacksTell(Missed(b, e), e, f, C \cup {e}, S \cup Misfiled(b, e) \cup Overfull(b, e))
<1> DEFINE g == e - t - 1
           R == Missed(b, e)
           X == Misfiled(b, e)
           O == Overfull(b, e)
           L == b.nacks
<1>1. /\ W \in Nat /\ W > 0 /\ Half \in Nat /\ Reach \in Nat /\ Reach < Half
      /\ e \in Int /\ e \in t .. t + Reach /\ g \in 0 .. Half /\ t < e
  BY Sizes
<1>2. Gap(b, e) = 1 .. g
  BY <1>1, AheadIs
<1>3. b.max \in Int /\ b.cycles \in Int
  BY <1>1, Division
<1>4. \A i \in 1 .. Half : Number(b, e, i) \in 0 .. Wide - 1
  BY <1>1, <1>3, NumbersIn
<1>5. L \in Seq(NackEntry) /\ Rising(L) /\ Singly(L, S)
  BY DEF NacksTell
<1>6. /\ R \in Seq(NackEntry) /\ Rising(R) /\ Singly(R, S \cup O)
      /\ \A k \in DOMAIN R : \/ \E j \in DOMAIN L : R[k] = L[j]
                             \/ \E j \in 1 .. g : R[k].sn = Number(b, e, j) /\ R[k].of = e - j
      /\ \A x : Listed(L, x) => Listed(R, x) \/ x \in O
      /\ \A j \in 1 .. g : Listed(R, Number(b, e, j)) \/ Number(b, e, j) \in O
  BY <1>1, <1>2, <1>4, <1>5, MissedKeeps
<1>7. \A j \in 1 .. g : Number(b, e, j) = e - j \/ e - j \in X
  BY <1>2 DEF Misfiled
<1>8. \A k \in DOMAIN L : L[k].of \in Int /\ L[k].of < t /\ (L[k].sn = L[k].of => L[k].of \notin C \ S)
  BY <1>5, EntriesOf DEF NacksTell
<1>9. t < Wide => \A x \in f .. t : x \in C \cup S \/ Listed(L, x)
  BY DEF NacksTell
<1> HIDE DEF R, X, O, L
<1>10. Singly(R, S \cup X \cup O)
  BY <1>6 DEF Singly
<1>11. ASSUME NEW k \in DOMAIN R
       PROVE  R[k].of < e /\ (R[k].sn = R[k].of => R[k].of \notin (C \cup {e}) \ (S \cup X \cup O))
  <2>1. CASE \E j \in DOMAIN L : R[k] = L[j]
    <3>1. PICK j \in DOMAIN L : R[k] = L[j]
      BY <2>1
    <3>2. L[j].of < e /\ L[j].of # e
      BY <1>1, <1>8
    <3> QED
      BY <1>8, <3>1, <3>2
  <2>2. CASE \E j \in 1 .. g : R[k].sn = Number(b, e, j) /\ R[k].of = e - j
    <3>1. PICK j \in 1 .. g : R[k].of = e - j
      BY <2>2
    <3>2. R[k].of < e /\ R[k].of > t /\ R[k].of # e
      BY <1>1, <3>1
    <3>3. R[k].of \notin C
      BY <1>1, <3>1, <3>2
    <3> QED
      BY <3>2, <3>3
  <2> QED
    BY <1>6, <2>1, <2>2
<1>12. ASSUME e < Wide, NEW x \in f .. e
       PROVE  x \in (C \cup {e}) \cup (S \cup X \cup O) \/ Listed(R, x)
  <2>1. CASE x <= t
    <3>1. t < Wide /\ x \in f .. t
      BY <1>1, <1>12, <2>1, WideSize
    <3> QED
      BY <1>6, <1>9, <3>1
  <2>2. CASE x > t /\ x # e
    <3>1. e - x \in 1 .. g /\ e - (e - x) = x
      BY <1>1, <2>2
    <3> QED
      BY <1>6, <1>7, <3>1
  <2>3. CASE x = e
    BY <2>3
  <2> QED
    BY <1>1, <2>1, <2>2, <2>3
<1>13. NacksTell(R, e, f, C \cup {e}, S \cup X \cup O)
  BY <1>6, <1>10, <1>11, <1>12 DEF NacksTell
<1> QED
  BY <1>13 DEF R, X, O

LEMMA LateTells ==
  ASSUME NEW t \in Int, NEW f \in Nat, NEW C \in SUBSET Int, NEW S, NEW L, f <= t,
         NacksTell(L, t, f, C, S), NEW e \in t - Reach .. t - 1
  PROVE  NacksTell(RemoveNack(L, e % Wide), t, f, C \cup {e}, S)
<1> DEFINE n == e % Wide
           R == RemoveNack(L, n)
<1>1. /\ Reach \in Nat /\ Reach < Half /\ Half < W /\ Half \in Nat /\ W \in Nat
      /\ Wide \in Nat /\ Wide > 0 /\ W <= Wide /\ e \in Int /\ e < t /\ t - e <= Reach
  BY Sizes, WideSize
<1>2. n \in 0 .. Wide - 1
  BY <1>1, Division
<1>3. /\ e \in 0 .. Wide - 1 => n = e
      /\ e < 0 => n = e + Wide
  <2>1. e < 0 => e \in 0 - Wide .. 0 - 1
    BY <1>1
  <2> QED
    BY <1>1, <2>1, LessThanATurn
<1>4. L \in Seq(NackEntry) /\ Rising(L) /\ Singly(L, S) /\ n \in Int
  BY <1>1, <1>2 DEF NacksTell
<1>5. \A k \in DOMAIN L : /\ L[k].sn \in 0 .. Wide - 1
                          /\ L[k].of < t /\ (L[k].sn = L[k].of => L[k].of \notin C \ S)
  BY <1>4, EntriesOf DEF NacksTell
<1>6. t < Wide => \A x \in f .. t : x \in C \cup S \/ Listed(L, x)
  BY DEF NacksTell
<1> HIDE DEF n
<1>7. /\ R \in Seq(NackEntry) /\ Rising(R) /\ Singly(R, S) /\ From(R, L)
      /\ \A x : Listed(L, x) => Listed(R, x) \/ x = n
      /\ Listed(R, n) => n \in S
  BY <1>4, RemoveNackKeeps
<1> HIDE DEF R
<1>8. ASSUME NEW k \in DOMAIN R
      PROVE  R[k].of < t /\ (R[k].sn = R[k].of => R[k].of \notin (C \cup {e}) \ S)
  <2>1. PICK j \in DOMAIN L : R[k].sn = L[j].sn /\ R[k].of = L[j].of
    BY <1>7 DEF From
  <2>2. ASSUME R[k].sn = e PROVE e \in S
    <3>1. n = e
      BY <1>3, <1>5, <2>1, <2>2
    <3>2. Listed(R, n)
      BY <2>2, <3>1 DEF Listed
    <3> QED
      BY <1>7, <3>1, <3>2
  <2> QED
    BY <1>5, <2>1, <2>2
<1>9. ASSUME t < Wide, NEW x \in f .. t
      PROVE  x \in (C \cup {e}) \cup S \/ Listed(R, x)
  <2>1. x = n => x = e
    <3>1. CASE e >= 0
      BY <1>1, <1>3, <1>9, <3>1
    <3>2. CASE e < 0
      <4>1. n = e + Wide /\ n > t
        BY <1>1, <1>3, <3>2
      <4> QED
        BY <1>1, <4>1
    <3> QED
      BY <1>1, <3>1, <3>2
  <2> QED
    BY <1>6, <1>7, <1>9, <2>1
<1>10. NacksTell(R, t, f, C \cup {e}, S)
  BY <1>7, <1>8, <1>9 DEF NacksTell
<1> QED
  BY <1>10 DEF R, n

LEMMA PairsTell ==
  ASSUME NEW t, NEW f, NEW C, NEW S, NEW L, NacksTell(L, t, f, C, S), NEW h
  PROVE  NacksTell(Pairs(L, h), t, f, C, S \cup Spent(L))
<1> DEFINE R == Pairs(L, h)
           P == Spent(L)
<1>1. L \in Seq(NackEntry) /\ Rising(L) /\ Singly(L, S)
  BY DEF NacksTell
<1>2. /\ R \in Seq(NackEntry) /\ Rising(R) /\ Singly(R, S) /\ From(R, L)
      /\ \A x : Listed(L, x) => Listed(R, x) \/ x \in P
  BY <1>1, PairsKeeps
<1> HIDE DEF R, P
<1>3. Singly(R, S \cup P)
  BY <1>2 DEF Singly
<1>4. ASSUME NEW k \in DOMAIN R
      PROVE  R[k].of < t /\ (R[k].sn = R[k].of => R[k].of \notin C \ (S \cup P))
  <2>1. PICK j \in DOMAIN L : R[k].sn = L[j].sn /\ R[k].of = L[j].of
    BY <1>2 DEF From
  <2> QED
    BY <2>1 DEF NacksTell
<1>5. t < Wide => \A e \in f .. t : e \in C \cup (S \cup P) \/ Listed(R, e)
  BY <1>2 DEF NacksTell
<1>6. NacksTell(R, t, f, C, S \cup P)
  BY <1>2, <1>3, <1>4, <1>5 DEF NacksTell
<1> QED
  BY <1>6 DEF R, P

\* Excuses may only be added.
LEMMA StillTells ==
  ASSUME NEW L, NEW t, NEW f, NEW C, NEW S, NacksTell(L, t, f, C, S), NEW S1, S \subseteq S1
  PROVE  NacksTell(L, t, f, C, S1)
BY DEF NacksTell, Singly

-----------------------------------------------------------------------------
\* What calc leaves of a buffer, before and after the packet is stored.
LEMMA CountIs ==
  ASSUME NEW b, DOMAIN b = Fields, NEW e
  PROVE  LET c  == Count(b, e)
             sn == e % W
         IN  /\ DOMAIN c = Fields /\ c.begun = b.begun
             /\ ~b.begun => c.max = sn /\ c.cycles = b.cycles /\ c.nacks = b.nacks
             /\ b.begun /\ IsAhead(b, sn) =>
                  c.max = sn /\ c.cycles = Cycles(b, sn) /\ c.nacks = Missed(b, e)
             /\ b.begun /\ ~IsAhead(b, sn) =>
                  /\ c.max = b.max /\ c.cycles = b.cycles
                  /\ c.nacks = RemoveNack(b.nacks, Extend(b.cycles, b.max, sn))
<1> DEFINE c  == Count(b, e)
           sn == e % W
           y  == Cycles(b, sn)
           m  == Missed(b, e)
           r  == RemoveNack(b.nacks, Extend(b.cycles, b.max, sn))
<1>1. c = IF ~b.begun THEN [b EXCEPT !.max = sn]
          ELSE IF IsAhead(b, sn) THEN [b EXCEPT !.cycles = y, !.nacks = m, !.max = sn]
          ELSE [b EXCEPT !.nacks = r]
  BY DEF Count
<1> HIDE DEF c, sn, y, m, r
<1>2. CASE ~b.begun
  <2>1. c = [b EXCEPT !.max = sn]
    BY <1>1, <1>2
  <2>2. DOMAIN c = Fields /\ c.begun = b.begun /\ c.max = sn /\ c.cycles = b.cycles /\ c.nacks = b.nacks
    BY <2>1 DEF Fields
  <2> QED
    BY <1>2, <2>2 DEF c, sn
<1>3. CASE b.begun /\ IsAhead(b, sn)
  <2>1. c = [b EXCEPT !.cycles = y, !.nacks = m, !.max = sn]
    BY <1>1, <1>3
  <2>2. DOMAIN c = Fields /\ c.begun = b.begun /\ c.max = sn /\ c.cycles = y /\ c.nacks = m
    BY <2>1 DEF Fields
  <2> QED
    BY <1>3, <2>2 DEF c, sn, y, m
<1>4. CASE b.begun /\ ~IsAhead(b, sn)
  <2>1. c = [b EXCEPT !.nacks = r]
    BY <1>1, <1>4
  <2>2. DOMAIN c = Fields /\ c.begun = b.begun /\ c.max = b.max /\ c.cycles = b.cycles /\ c.nacks = r
    BY <2>1 DEF Fields
  <2> QED
    BY <1>4, <2>2 DEF c, sn, r
<1> QED
  BY <1>2, <1>3, <1>4

LEMMA CalcIs ==
  ASSUME NEW b, DOMAIN b = Fields, NEW e
  PROVE  LET c == Count(b, e)
             d == Calc(b, e)
         IN  /\ Refuses(b.bucket, e) => d = c
             /\ ~Refuses(b.bucket, e) => /\ d.begun /\ d.max = c.max /\ d.cycles = c.cycles
                                         /\ d.nacks = Pairs(c.nacks, c.cycles + c.max)
<1> DEFINE c == Count(b, e)
           d == Calc(b, e)
           n == Pairs(c.nacks, c.cycles + c.max)
           k == AddPacket(c.bucket, e)
<1>1. DOMAIN c = Fields
  BY CountIs
<1>2. d = IF Refuses(b.bucket, e) THEN c
          ELSE [c EXCEPT !.begun = TRUE, !.bucket = k, !.nacks = n]
  BY DEF Calc
<1> HIDE DEF c, d, n, k
<1>3. CASE Refuses(b.bucket, e)
  <2>1. d = c
    BY <1>2, <1>3
  <2> QED
    BY <1>3, <2>1 DEF c, d
<1>4. CASE ~Refuses(b.bucket, e)
  <2>1. d = [c EXCEPT !.begun = TRUE, !.bucket = k, !.nacks = n]
    BY <1>2, <1>4
  <2>2. d.begun /\ d.max = c.max /\ d.cycles = c.cycles /\ d.nacks = n
    BY <1>1, <2>1 DEF Fields
  <2> QED
    BY <1>4, <2>2 DEF c, d, n
<1> QED
  BY <1>3, <1>4

\* The buffer's numbers are those of the highest packet, and its list tells.
Told(b, t, f, C, S) ==
  /\ b.begun /\ b.max = t % W /\ b.cycles = t - (t % W)
  /\ f \in Nat /\ f <= t /\ NacksTell(b.nacks, t, f, C, S)

LEMMA CountTells ==
  ASSUME NEW t \in Int, NEW f, NEW C \in SUBSET Int, NEW S, NEW b, DOMAIN b = Fields,
         Told(b, t, f, C, S), \A c \in C : c <= t, NEW e \in t - Reach .. t + Reach
  PROVE  /\ e > t => Told(Count(b, e), e, f, C \cup {e}, S \cup Misfiled(b, e) \cup Overfull(b, e))
         /\ e <= t => Told(Count(b, e), t, f, C \cup {e}, S)
<1>1. /\ b.begun /\ b.max = t % W /\ b.cycles = t - (t % W)
      /\ f \in Nat /\ f <= t /\ NacksTell(b.nacks, t, f, C, S)
  BY DEF Told
<1>2. W \in Nat /\ W > 0 /\ e \in Int /\ Reach \in Nat
  BY Sizes
<1> DEFINE c == Count(b, e)
<1>3. CASE e > t
  <2>1. e \in t + 1 .. t + Reach /\ e \in t .. t + Reach
    BY <1>2, <1>3
  <2>2. IsAhead(b, e % W) /\ Cycles(b, e % W) = e - (e % W)
    BY <1>1, <2>1, AheadIs
  <2>3. c.begun /\ c.max = e % W /\ c.cycles = e - (e % W) /\ c.nacks = Missed(b, e)
    BY <1>1, <2>2, CountIs
  <2>4. NacksTell(Missed(b, e), e, f, C \cup {e}, S \cup Misfiled(b, e) \cup Overfull(b, e))
    <3>1. f \in Int
      BY <1>1
    <3>2. NacksTell(b.nacks, t, f, C, S)
      BY <1>1
    <3> QED
      BY <1>1, <2>1, <3>1, <3>2, GapTells
  <2>5. f <= e
    BY <1>1, <1>2, <1>3
  <2> HIDE DEF c
  <2>6. Told(c, e, f, C \cup {e}, S \cup Misfiled(b, e) \cup Overfull(b, e))
    BY <1>1, <2>3, <2>4, <2>5 DEF Told
  <2> QED
    BY <1>2, <1>3, <2>6 DEF c
<1>4. CASE e = t
  <2>1. e \in t .. t + Reach
    BY <1>2, <1>4
  <2>2. IsAhead(b, e % W) /\ Cycles(b, e % W) = e - (e % W) /\ Gap(b, e) = 1 .. e - t - 1
    BY <1>1, <2>1, AheadIs
  <2>3. Missed(b, e) = b.nacks
    <3>1. Gap(b, e) = {}
      BY <1>4, <2>2
    <3> QED
      BY <3>1, NoGap
  <2>4. c.begun /\ c.max = e % W /\ c.cycles = e - (e % W) /\ c.nacks = b.nacks
    BY <1>1, <2>2, <2>3, CountIs
  <2>5. NacksTell(b.nacks, t, f, C \cup {e}, S)
    <3> DEFINE L == b.nacks
    <3>1. NacksTell(L, t, f, C, S)
      BY <1>1
    <3> HIDE DEF L
    <3>2. L \in Seq(NackEntry) /\ \A k \in DOMAIN L : L[k].of < t
      BY <3>1 DEF NacksTell
    <3>3. \A k \in DOMAIN L : L[k].of \in Int /\ L[k].of # e
      BY <1>4, <3>2, EntriesOf
    <3>4. NacksTell(L, t, f, C \cup {e}, S)
      BY <3>1, <3>3 DEF NacksTell
    <3> QED
      BY <3>4 DEF L
  <2> HIDE DEF c
  <2>6. Told(c, t, f, C \cup {e}, S)
    BY <1>1, <1>4, <2>4, <2>5 DEF Told
  <2> QED
    BY <1>2, <1>4, <2>6 DEF c
<1>5. CASE e < t
  <2>1. e \in t - Reach .. t - 1
    BY <1>2, <1>5
  <2>2. ~IsAhead(b, e % W) /\ Extend(b.cycles, b.max, e % W) = e % Wide
    BY <1>1, <2>1, LateIs
  <2>3. c.begun /\ c.max = b.max /\ c.cycles = b.cycles /\ c.nacks = RemoveNack(b.nacks, e % Wide)
    BY <1>1, <2>2, CountIs
  <2>4. NacksTell(RemoveNack(b.nacks, e % Wide), t, f, C \cup {e}, S)
    BY <1>1, <2>1, LateTells
  <2> HIDE DEF c
  <2>5. Told(c, t, f, C \cup {e}, S)
    BY <1>1, <2>3, <2>4 DEF Told
  <2> QED
    BY <1>2, <1>5, <2>5 DEF c
<1> QED
  BY <1>2, <1>3, <1>4, <1>5

\* An accepted packet: what is asked for often enough leaves the list.
LEMMA AcceptedTells ==
  ASSUME NEW b, DOMAIN b = Fields, NEW e, ~Refuses(b.bucket, e), NEW t, NEW f, NEW C, NEW S,
         Told(Count(b, e), t, f, C, S)
  PROVE  Told(Calc(b, e), t, f, C, S \cup Spent(Count(b, e).nacks))
<1> DEFINE c == Count(b, e)
           d == Calc(b, e)
           h == c.cycles + c.max
<1>1. d.begun /\ d.max = c.max /\ d.cycles = c.cycles /\ d.nacks = Pairs(c.nacks, h)
  BY CalcIs
<1>2. Told(c, t, f, C, S)
  OBVIOUS
<1> HIDE DEF c, d, h
<1>3. NacksTell(Pairs(c.nacks, h), t, f, C, S \cup Spent(c.nacks))
  BY <1>2, PairsTell DEF Told
<1>4. Told(d, t, f, C, S \cup Spent(c.nacks))
  BY <1>1, <1>2, <1>3 DEF Told
<1> QED
  BY <1>4 DEF c, d

\* The first packet: an empty list.
LEMMA FirstTells ==
  ASSUME NEW b, DOMAIN b = Fields, ~b.begun, b.nacks = <<>>, b.cycles = 0, NEW e \in Start,
         ~Refuses(b.bucket, e), NEW S
  PROVE  Told(Calc(b, e), e, e, {e}, S \cup Spent(Count(b, e).nacks))
<1> DEFINE c == Count(b, e)
           d == Calc(b, e)
           L == c.nacks
           h == c.cycles + c.max
<1>1. e \in 0 .. W - 1 /\ e \in Nat /\ W \in Nat /\ W > 0
  BY PathAssumption
<1>2. c.max = e % W /\ c.cycles = 0 /\ L = <<>>
  BY CountIs
<1>3. d.begun /\ d.max = c.max /\ d.cycles = c.cycles /\ d.nacks = Pairs(L, h)
  BY CalcIs
<1>4. e % W = e
  BY <1>1, LessThanATurn
<1> HIDE DEF c, d, L, h
<1>5. NacksTell(L, e, e, {e}, S)
  <2>1. L \in Seq(NackEntry) /\ DOMAIN L = {}
    BY <1>2
  <2>2. \A x \in e .. e : x = e
    BY <1>1
  <2> QED
    BY <2>1, <2>2 DEF NacksTell, Rising, Singly
<1>6. NacksTell(Pairs(L, h), e, e, {e}, S \cup Spent(L))
  BY <1>5, PairsTell
<1>7. d.cycles = e - (e % W) /\ e <= e
  BY <1>1, <1>2, <1>3, <1>4
<1>8. Told(d, e, e, {e}, S \cup Spent(L))
  BY <1>1, <1>2, <1>3, <1>6, <1>7 DEF Told
<1> QED
  BY <1>8 DEF d, L, c

-----------------------------------------------------------------------------
\* The lists of missing packets, in every state.
NackOK(l) ==
  IF top[l] = None THEN ~buf[l].begun /\ buf[l].nacks = <<>> /\ buf[l].cycles = 0
  ELSE Told(buf[l], top[l], first[l], came[l], spent[l])
NackInv == DOMAIN spent = Layer /\ \A l \in Layer : NackOK(l)

LEMMA NacksStart == PathInit => NackInv
<1> SUFFICES ASSUME PathInit PROVE NackInv
  OBVIOUS
<1>1. PICK g \in Leftover : buf = [l \in Layer |-> NewBuffer(g)]
  BY DEF PathInit
<1>2. ~NewBuffer(g).begun /\ NewBuffer(g).nacks = <<>> /\ NewBuffer(g).cycles = 0
  BY DEF NewBuffer
<1> QED
  BY <1>1, <1>2 DEF PathInit, NackInv, NackOK

LEMMA WriteKeepsNacks ==
  ASSUME WindowInv, NackInv, NEW l \in Layer, NEW e \in Ext, Write(l, e)
  PROVE  NackInv'
<1> DEFINE b == buf[l]
           P == Spent(Count(b, e).nacks)
           Q == Misfiled(b, e)
           O == Overfull(b, e)
           X == spent[l] \cup P \cup Q \cup O
<1>1. /\ e \in Arrivals(l) /\ buf' = [buf EXCEPT ![l] = Calc(b, e)]
      /\ spent' = IF Refuses(b.bucket, e) THEN spent ELSE [spent EXCEPT ![l] = X]
      /\ came' = [came EXCEPT ![l] = came[l] \cup {e}]
      /\ first' = [first EXCEPT ![l] = IF first[l] = None THEN e ELSE first[l]]
      /\ top' = [top EXCEPT ![l] = Higher(top[l], e)]
  BY DEF Write
<1> HIDE DEF b, P, Q, O
<1>2. /\ DOMAIN buf = Layer /\ DOMAIN b = Fields
      /\ came \in [Layer -> SUBSET Int]
      /\ first \in [Layer -> Int \cup {None}] /\ top \in [Layer -> Int \cup {None}]
      /\ BucketOK(l)
  BY DEF WindowInv, PacketTypeOK, b
<1>3. DOMAIN spent = Layer /\ NackOK(l)
  BY DEF NackInv
<1>4. e \in Int /\ None \notin Int
  BY Sizes, PathAssumption DEF Ext
<1>5. /\ buf'[l] = Calc(b, e) /\ came'[l] = came[l] \cup {e}
      /\ first'[l] = (IF first[l] = None THEN e ELSE first[l])
      /\ top'[l] = Higher(top[l], e)
      /\ spent'[l] = IF Refuses(b.bucket, e) THEN spent[l] ELSE X
  BY <1>1, <1>2, <1>3
<1>6. /\ DOMAIN spent' = Layer
      /\ \A m \in Layer : m # l => /\ buf'[m] = buf[m] /\ came'[m] = came[m] /\ first'[m] = first[m]
                                   /\ top'[m] = top[m] /\ spent'[m] = spent[m]
  BY <1>1, <1>2, <1>3
<1>7. ASSUME NEW m \in Layer, m # l PROVE NackOK(m)'
  <2>1. NackOK(m)
    BY DEF NackInv
  <2> QED
    BY <1>6, <1>7, <2>1 DEF NackOK
<1>8. NackOK(l)'
  <2>1. CASE top[l] = None
    <3>1. /\ e \in Start /\ first[l] = None /\ came[l] = {} /\ Fresh(b.bucket)
          /\ ~b.begun /\ b.nacks = <<>> /\ b.cycles = 0
      BY <1>1, <1>2, <1>3, <2>1 DEF Arrivals, BucketOK, NackOK, b
    <3>2. ~Refuses(b.bucket, e)
      BY <1>4, <3>1, FirstArrivalKeeps
    <3>3. Told(Calc(b, e), e, e, {e}, (spent[l] \cup Q \cup O) \cup P)
      BY <1>2, <3>1, <3>2, FirstTells DEF P
    <3>4. /\ top'[l] = e /\ first'[l] = e /\ came'[l] = {e}
          /\ spent'[l] = (spent[l] \cup Q \cup O) \cup P
      BY <1>5, <2>1, <3>1, <3>2 DEF Higher
    <3> QED
      BY <1>4, <1>5, <3>3, <3>4 DEF NackOK
  <2>2. CASE top[l] # None
    <3> DEFINE t == top[l]
               f == first[l]
               C == came[l]
               S == spent[l]
    <3>1. /\ f # None /\ (\A c \in C : c <= t) /\ Window(b.bucket, f, t, stored[l])
          /\ Told(b, t, f, C, S) /\ t \in Int /\ C \in SUBSET Int /\ e \in t - Reach .. t + Reach
      BY <1>1, <1>2, <1>3, <2>2 DEF BucketOK, NackOK, Arrivals, b
    <3>2. first'[l] = f /\ came'[l] = C \cup {e}
      BY <1>5, <3>1
    <3> HIDE DEF f, C, S
    <3>3. /\ e > t => Told(Count(b, e), e, f, C \cup {e}, S \cup Q \cup O)
          /\ e <= t => Told(Count(b, e), t, f, C \cup {e}, S)
      BY <1>2, <3>1, CountTells DEF Q, O
    <3>4. X = (S \cup Q \cup O) \cup P
      BY DEF S
    <3>5. CASE e > t
      <4>1. Sub(e % W, t % W) \in 1 .. Half
        BY <3>1, <3>5, AheadOrLate
      <4>2. ~Refuses(b.bucket, e)
        BY <3>1, <4>1 DEF Window, Refuses
      <4>3. Told(Calc(b, e), e, f, C \cup {e}, X)
        BY <1>2, <3>3, <3>4, <3>5, <4>2, AcceptedTells DEF P
      <4>4. top'[l] = e /\ spent'[l] = X
        BY <1>5, <3>5, <4>2 DEF Higher
      <4> QED
        BY <1>4, <1>5, <3>2, <4>3, <4>4 DEF NackOK
    <3>6. CASE e <= t
      <4>1. top'[l] = t
        BY <1>4, <1>5, <2>2, <3>1, <3>6 DEF Higher
      <4>2. CASE Refuses(b.bucket, e)
        <5>1. Calc(b, e) = Count(b, e) /\ spent'[l] = S
          BY <1>2, <1>5, <4>2, CalcIs DEF S
        <5> QED
          BY <1>5, <2>2, <3>2, <3>3, <3>6, <4>1, <5>1 DEF NackOK
      <4>3. CASE ~Refuses(b.bucket, e)
        <5>1. Told(Calc(b, e), t, f, C \cup {e}, S \cup P)
          BY <1>2, <3>3, <3>6, <4>3, AcceptedTells DEF P
        <5>2. S \cup P \subseteq X
          BY <3>4
        <5>3. Told(Calc(b, e), t, f, C \cup {e}, X)
          BY <5>1, <5>2, StillTells DEF Told
        <5>4. spent'[l] = X
          BY <1>5, <4>3
        <5> QED
          BY <1>5, <2>2, <3>2, <4>1, <5>3, <5>4 DEF NackOK
      <4> QED
        BY <4>2, <4>3
    <3> QED
      BY <1>4, <3>1, <3>5, <3>6
  <2> QED
    BY <2>1, <2>2
<1> QED
  BY <1>6, <1>7, <1>8 DEF NackInv

LEMMA NacksStay ==
  ASSUME NackInv, UNCHANGED <<buf, came, stored, first, top, spent>>
  PROVE  NackInv'
<1>1. ASSUME NEW l \in Layer PROVE NackOK(l)'
  <2>1. NackOK(l)
    BY DEF NackInv
  <2> QED
    BY <2>1 DEF NackOK
<1> QED
  BY <1>1 DEF NackInv

\* Every number missing between the first and the highest packet is in the list
\* until it was asked for often enough, but for a gap across the middle or the end
\* of the words and a list at its capacity; and a packet listed under its own
\* number has not arrived: for words, lists and streams of any length.
THEOREM NacksTheMissingHolds == PathSpec => []NacksTheMissing
<1>1. WindowInv /\ NackInv /\ [PathNext]_pathVars => NackInv'
  BY OnlyArrivals, WriteKeepsNacks, NacksStay
<1>2. NackInv => NacksTheMissing
  <2> SUFFICES ASSUME NackInv, NEW l \in Layer, top[l] # None, top[l] < W * W
               PROVE  /\ \A e \in first[l] .. top[l] :
                           e \in came[l] \cup spent[l] \/ Listed(buf[l].nacks, e)
                      /\ \A i \in DOMAIN buf[l].nacks :
                           buf[l].nacks[i].sn = buf[l].nacks[i].of
                             => buf[l].nacks[i].of \notin came[l] \ spent[l]
    BY DEF NacksTheMissing
  <2>1. Told(buf[l], top[l], first[l], came[l], spent[l])
    BY DEF NackInv, NackOK
  <2>2. NacksTell(buf[l].nacks, top[l], first[l], came[l], spent[l]) /\ top[l] < Wide
    BY <2>1 DEF Told, Wide
  <2> QED
    BY <2>2 DEF NacksTell
<1> QED
  BY <1>1, <1>2, NacksStart, WindowInvariant, PTL DEF PathSpec

-----------------------------------------------------------------------------
(* The numbers of a receiver report.                                       *)

Numbers == 0 .. ReportWord - 1

LEMMA ReportSizes ==
  /\ ReportWord \in Nat /\ ReportWord > 0 /\ Fraction \in Nat /\ Fraction > 0
  /\ MaxSkip \in Nat /\ MaxBehind \in Nat /\ Probe \in Nat
  /\ FirstPackets \subseteq Numbers
  /\ Long \in Nat /\ Long > 0
  /\ ReportWord \div 2 \in Nat
  /\ MaxSkip < ReportWord \div 2 /\ MaxBehind < ReportWord \div 2
  /\ ReportWord = 2 * (ReportWord \div 2)
<1>1. /\ ReportWord \in Nat /\ ReportWord > 0 /\ Fraction \in Nat /\ Fraction > 0
      /\ MaxSkip \in Nat /\ MaxBehind \in Nat /\ Probe \in Nat
      /\ FirstPackets \subseteq Numbers
      /\ ReportWord > 2 * MaxSkip /\ ReportWord > 2 * MaxBehind /\ ReportWord % 2 = 0
  BY ReportAssumption DEF Numbers
<1>2. Long \in Nat /\ Long > 0
  BY <1>1 DEF Long
<1>3. /\ ReportWord \div 2 \in Nat /\ ReportWord = 2 * (ReportWord \div 2)
  BY <1>1
<1> QED
  BY <1>1, <1>2, <1>3

\* The cycles counted are whole words, and with the highest number a long one.
LEMMA WholeWords ==
  ASSUME NEW d \in Nat, d > 0, NEW c \in 0 .. d - 1
  PROVE  /\ d * c \in Nat
         /\ \A m \in 0 .. d - 1 : d * c + m \in 0 .. d * d - 1
         /\ \E b \in 0 .. d - 1 : (d * c + d) % (d * d) = d * b
<1>1. d * c \in Nat /\ d * d \in Nat /\ d * d > 0
  OBVIOUS
<1>2. d * c <= d * (d - 1)
  OBVIOUS
<1>3. d * (d - 1) = d * d - d
  OBVIOUS
<1>4. d * c <= d * d - d
  BY <1>1, <1>2, <1>3
<1>5. ASSUME NEW m \in 0 .. d - 1 PROVE d * c + m \in 0 .. d * d - 1
  BY <1>1, <1>4
<1>6. CASE c = d - 1
  <2>1. d * c + d = (d * d) * 1 + 0 /\ 0 \in 0 .. d * d - 1
    BY <1>1, <1>3, <1>6
  <2>2. (d * c + d) % (d * d) = 0
    BY <1>1, <2>1, Remainder
  <2>3. d * 0 = 0 /\ 0 \in 0 .. d - 1
    OBVIOUS
  <2> QED
    BY <1>1, <1>5, <2>2, <2>3
<1>7. CASE c # d - 1
  <2>1. c + 1 \in 0 .. d - 1 /\ d * (c + 1) = d * c + d
    BY <1>7
  <2>2. d * (c + 1) <= d * (d - 1)
    BY <2>1
  <2>3. d * c + d \in 0 .. d * d - 1
    BY <1>1, <1>3, <2>1, <2>2
  <2>4. (d * c + d) % (d * d) = d * c + d
    BY <1>1, <2>3, LessThanATurn
  <2> QED
    BY <1>1, <1>5, <2>1, <2>4
<1> QED
  BY <1>6, <1>7

\* A set with a first and a last number.
Ends(S) ==
  /\ S \subseteq Int /\ IsFiniteSet(S)
  /\ \E a, b \in S : \A f \in S : a <= f /\ f <= b

LEMMA EndsOf ==
  ASSUME NEW S, Ends(S)
  PROVE  /\ Oldest(S) \in S /\ Newest(S) \in S /\ Oldest(S) \in Int /\ Newest(S) \in Int
         /\ \A f \in S : Oldest(S) <= f /\ f <= Newest(S)
<1>1. PICK a \in S, b \in S : \A f \in S : a <= f /\ f <= b
  BY DEF Ends
<1>2. S \subseteq Int
  BY DEF Ends
<1>3. Oldest(S) \in S /\ \A f \in S : Oldest(S) <= f
  <2>1. \E e \in S : \A f \in S : e <= f
    BY <1>1
  <2> QED
    BY <2>1 DEF Oldest
<1>4. Newest(S) \in S /\ \A f \in S : f <= Newest(S)
  <2>1. \E e \in S : \A f \in S : e >= f
    BY <1>1, <1>2
  <2>2. Newest(S) \in S /\ \A f \in S : Newest(S) >= f
    BY <2>1 DEF Newest
  <2> QED
    BY <1>2, <2>2
<1> QED
  BY <1>2, <1>3, <1>4

LEMMA EndsAre ==
  ASSUME NEW S, S \subseteq Int, NEW a \in S, NEW b \in S, \A f \in S : a <= f /\ f <= b
  PROVE  Oldest(S) = a /\ Newest(S) = b
<1>1. Oldest(S) \in S /\ \A f \in S : Oldest(S) <= f
  <2>1. \E e \in S : \A f \in S : e <= f
    OBVIOUS
  <2> QED
    BY <2>1 DEF Oldest
<1>2. Newest(S) \in S /\ \A f \in S : Newest(S) >= f
  <2>1. \E e \in S : \A f \in S : e >= f
    OBVIOUS
  <2> QED
    BY <2>1 DEF Newest
<1>3. Oldest(S) \in Int /\ Newest(S) \in Int /\ a \in Int /\ b \in Int
  BY <1>1, <1>2
<1>4. Oldest(S) <= a /\ a <= Oldest(S) /\ Newest(S) <= b /\ Newest(S) >= b
  BY <1>1, <1>2
<1> QED
  BY <1>3, <1>4

LEMMA EndsOfOne ==
  ASSUME NEW e \in Int
  PROVE  Ends({e}) /\ Oldest({e}) = e /\ Newest({e}) = e
<1>1. {e} \subseteq Int /\ e \in {e} /\ \A f \in {e} : e <= f /\ f <= e
  OBVIOUS
<1>2. IsFiniteSet({e})
  BY FS_Singleton
<1> QED
  BY <1>1, <1>2, EndsAre DEF Ends

LEMMA EndsWith ==
  ASSUME NEW S, Ends(S), NEW e \in Int
  PROVE  /\ Ends(S \cup {e})
         /\ Oldest(S \cup {e}) = (IF e < Oldest(S) THEN e ELSE Oldest(S))
         /\ Newest(S \cup {e}) = (IF e > Newest(S) THEN e ELSE Newest(S))
<1> DEFINE a == IF e < Oldest(S) THEN e ELSE Oldest(S)
           b == IF e > Newest(S) THEN e ELSE Newest(S)
           T == S \cup {e}
<1>1. /\ Oldest(S) \in S /\ Newest(S) \in S /\ Oldest(S) \in Int /\ Newest(S) \in Int
      /\ \A f \in S : Oldest(S) <= f /\ f <= Newest(S)
  BY EndsOf
<1>2. T \subseteq Int
  BY DEF Ends
<1>3. a \in T /\ b \in T /\ a \in Int /\ b \in Int
  BY <1>1
<1>4. ASSUME NEW f \in T PROVE a <= f /\ f <= b
  <2>1. CASE f = e
    BY <1>1, <2>1
  <2>2. CASE f \in S
    <3>1. f \in Int /\ Oldest(S) <= f /\ f <= Newest(S)
      BY <1>1, <1>2, <2>2
    <3> QED
      BY <1>1, <3>1
  <2> QED
    BY <2>1, <2>2
<1>5. IsFiniteSet(T)
  BY FS_AddElement DEF Ends
<1> HIDE DEF a, b
<1>6. Oldest(T) = a /\ Newest(T) = b
  BY ONLY <1>2, <1>3, <1>4, EndsAre
<1>7. Ends(T)
  BY <1>2, <1>3, <1>4, <1>5 DEF Ends
<1> QED
  BY <1>6, <1>7 DEF a, b

\* The counts of a buffer that got S, and what they were at the report of B.
Counts(s, S, wrong) ==
  /\ s.packetCount = Cardinality(S)
  /\ s.maxSeqNo = Newest(S) % ReportWord
  /\ \E c \in Numbers : s.cycles = ReportWord * c
  /\ (s.cycles + s.maxSeqNo) % Long = Newest(S) % Long
  /\ ~wrong => s.baseSN = Oldest(S)

Noted(s, S, B, slow, wrong) ==
  /\ B = {} => s.lastExpected = 0 /\ s.lastReceived = 0
  /\ B # {} => /\ Ends(B) /\ s.lastReceived = Cardinality(B)
               /\ ~wrong /\ ~slow =>
                    s.lastExpected = (Newest(B) - Oldest(S) + 1) % Long
               /\ ~slow => \A f \in S \ B : f > Newest(B)

Stats == [baseSN : Numbers, maxSeqNo : Numbers, cycles : Int, packetCount : Int,
          lastExpected : Int, lastReceived : Int]

ReportInv ==
  /\ stats \in Stats
  /\ packets = {} => stats.packetCount = 0 /\ stats.cycles = 0 /\ ~misbased
  /\ packets # {} => Ends(packets) /\ Counts(stats, packets, misbased)
  /\ before \subseteq packets
  /\ Noted(stats, packets, before, tardy, misbased)

LEMMA ReportStart == ReportInit => ReportInv
<1> SUFFICES ASSUME ReportInit PROVE ReportInv
  OBVIOUS
<1>1. 0 \in Numbers
  BY ReportSizes DEF Numbers
<1> QED
  BY <1>1 DEF ReportInit, ReportInv, Stats, Noted

\* A packet the model lets come, and whether it leaves a wrong base.
Comes(e) ==
  /\ e \in Int /\ e \notin packets
  /\ packets = {} => e \in FirstPackets
  /\ packets # {} => e \in Newest(packets) - MaxBehind .. Newest(packets) + MaxSkip

Wrong(e) ==
  \/ misbased
  \/ /\ packets # {}
     /\ LET least == Oldest(packets)
            probe == stats.packetCount < Probe
        IN  \/ e < least /\ (~probe \/ e \div ReportWord # least \div ReportWord)
            \/ probe /\ e \div ReportWord > least \div ReportWord

LEMMA WordOf ==
  ASSUME NEW d \in Nat, d > 0, NEW a \in Int
  PROVE  /\ a \in 0 .. d - 1 <=> a \div d = 0
         /\ a \div d <= 0 /\ a >= 0 => a \in 0 .. d - 1
<1>1. a \div d \in Int /\ a % d \in 0 .. d - 1 /\ a = d * (a \div d) + (a % d)
  OBVIOUS
<1> DEFINE q == a \div d
           r == a % d
<1>2. q \in Int /\ r \in 0 .. d - 1 /\ a = d * q + r
  BY <1>1
<1> HIDE DEF q, r
<1>3. CASE q = 0
  BY <1>2, <1>3 DEF q
<1>4. CASE q >= 1
  <2>1. d * q >= d
    BY <1>2, <1>4
  <2> QED
    BY <1>2, <1>4, <2>1 DEF q
<1>5. CASE q <= 0 - 1
  <2>1. d * q <= 0 - d
    BY <1>2, <1>5
  <2> QED
    BY <1>2, <1>5, <2>1 DEF q
<1> QED
  BY <1>2, <1>3, <1>4, <1>5

\* The base stays that of the oldest packet, unless the model says it is wrong.
LEMMA BaseKept ==
  ASSUME ReportInv, packets # {}, NEW e, Comes(e)
  PROVE  LET s == CountPacket(stats, e % ReportWord)
         IN  /\ s.baseSN \in Numbers
             /\ ~Wrong(e) => s.baseSN = Oldest(packets \cup {e})
<1> DEFINE sn == e % ReportWord
           least == Oldest(packets)
<1>1. /\ ReportWord \in Nat /\ ReportWord > 0 /\ e \in Int /\ e \notin packets
  BY ReportSizes DEF Comes
<1>2. sn \in Numbers
  BY <1>1, Division DEF Numbers
<1>3. Ends(packets) /\ stats \in Stats /\ Counts(stats, packets, misbased)
  BY DEF ReportInv
<1>4. least \in packets /\ least \in Int
  BY <1>3, EndsOf
<1>5. stats.packetCount # 0
  <2>1. IsFiniteSet(packets)
    BY <1>3 DEF Ends
  <2> QED
    BY <1>3, <2>1, FS_EmptySet DEF Counts
<1>6. stats.baseSN \in Numbers
  BY <1>3 DEF Stats
<1>7. CountPacket(stats, sn).baseSN = Based(stats, sn)
  BY <1>3, <1>5 DEF CountPacket, Stats
<1>8. Oldest(packets \cup {e}) = (IF e < least THEN e ELSE least)
  BY <1>1, <1>3, EndsWith
<1> DEFINE base == stats.baseSN
<1> HIDE DEF sn, least
<1>9. Based(stats, sn) \in Numbers
  BY <1>2, <1>6 DEF Based
<1>10. ASSUME ~Wrong(e) PROVE Based(stats, sn) = Oldest(packets \cup {e})
  <2>1. base = least /\ least \in Numbers
    BY <1>3, <1>6, <1>10 DEF Wrong, Counts, least
  <2>2. /\ e < least => stats.packetCount < Probe /\ e \div ReportWord = least \div ReportWord
        /\ stats.packetCount < Probe => ~(e \div ReportWord > least \div ReportWord)
    BY <1>10 DEF Wrong, least
  <2>3. least \div ReportWord = 0
    BY <1>1, <1>4, <2>1, WordOf DEF Numbers
  <2>4. e \in Numbers => sn = e
    BY <1>1, LessThanATurn DEF Numbers, sn
  <2>5. CASE e < least
    <3>1. e \in Numbers
      BY <1>1, <2>2, <2>3, <2>5, WordOf DEF Numbers
    <3>2. Based(stats, sn) = e
      BY <2>1, <2>2, <2>4, <2>5, <3>1 DEF Based
    <3> QED
      BY <1>8, <2>5, <3>2
  <2>6. CASE ~(e < least)
    <3>1. CASE stats.packetCount < Probe
      <4>1. e \div ReportWord \in Int
        BY <1>1
      <4>2. e >= 0
        BY <1>1, <1>4, <2>1, <2>6 DEF Numbers
      <4>3. e \div ReportWord <= 0
        BY <2>2, <2>3, <3>1, <4>1
      <4>4. e \in Numbers
        BY <1>1, <4>2, <4>3, WordOf DEF Numbers
      <4>5. ~(sn < base)
        BY <2>1, <2>4, <2>6, <4>4
      <4> QED
        BY <1>8, <2>1, <2>6, <4>5 DEF Based
    <3>2. CASE ~(stats.packetCount < Probe)
      BY <1>8, <2>1, <2>6, <3>2 DEF Based
    <3> QED
      BY <3>1, <3>2
  <2> QED
    BY <2>5, <2>6
<1> QED
  BY <1>7, <1>9, <1>10 DEF sn

\* The highest number is kept whatever is lost or slow, across the wraps.
LEMMA TopKept ==
  ASSUME ReportInv, packets # {}, NEW e, Comes(e)
  PROVE  LET s == CountPacket(stats, e % ReportWord)
             S == packets \cup {e}
         IN  /\ s.maxSeqNo = Newest(S) % ReportWord
             /\ s.maxSeqNo \in Numbers
             /\ \E c \in Numbers : s.cycles = ReportWord * c
             /\ (s.cycles + s.maxSeqNo) % Long = Newest(S) % Long
<1> DEFINE sn == e % ReportWord
           t == Newest(packets)
           m == stats.maxSeqNo
           newer == (sn - m) % ReportWord < ReportWord \div 2
<1>1. /\ ReportWord \in Nat /\ ReportWord > 0 /\ e \in Int /\ e \notin packets
      /\ Long \in Nat /\ Long > 0
      /\ e \in t - MaxBehind .. t + MaxSkip
      /\ MaxBehind \in Nat /\ MaxSkip \in Nat
      /\ MaxSkip < ReportWord \div 2 /\ MaxBehind < ReportWord \div 2
      /\ ReportWord \div 2 \in Nat /\ ReportWord = 2 * (ReportWord \div 2)
  BY ReportSizes DEF Comes
<1>2. sn \in Numbers
  BY <1>1, Division DEF Numbers
<1>3. Ends(packets) /\ stats \in Stats /\ Counts(stats, packets, misbased)
  BY DEF ReportInv
<1>4. t \in packets /\ t \in Int
  BY <1>3, EndsOf
<1>5. stats.packetCount # 0
  <2>1. IsFiniteSet(packets)
    BY <1>3 DEF Ends
  <2> QED
    BY <1>3, <2>1, FS_EmptySet DEF Counts
<1>6. /\ m \in Numbers /\ m = t % ReportWord
      /\ (stats.cycles + m) % Long = t % Long
  BY <1>3 DEF Stats, Counts
<1>7. PICK c \in Numbers : stats.cycles = ReportWord * c
  BY <1>3 DEF Counts
<1>8. /\ CountPacket(stats, sn).maxSeqNo = (IF newer THEN sn ELSE m)
      /\ CountPacket(stats, sn).cycles =
           (IF newer /\ sn < m THEN (stats.cycles + ReportWord) % Long ELSE stats.cycles)
  BY <1>3, <1>5 DEF CountPacket, Stats
<1>9. Newest(packets \cup {e}) = (IF e > t THEN e ELSE t)
  BY <1>1, <1>3, EndsWith
<1>10. (sn - m) % ReportWord = (e - t) % ReportWord
  BY <1>1, <1>4, <1>6, RemainderOfDifference
<1>11. e # t
  BY <1>1, <1>4
<1>12. newer <=> e > t
  <2>1. CASE e > t
    <3>1. e - t \in 0 .. ReportWord - 1 /\ e - t < ReportWord \div 2
      BY <1>1, <1>4, <2>1
    <3>2. (e - t) % ReportWord = e - t
      BY <1>1, <3>1, LessThanATurn
    <3> QED
      BY <1>10, <2>1, <3>1, <3>2
  <2>2. CASE ~(e > t)
    <3>1. e - t \in 0 - ReportWord .. 0 - 1 /\ e - t > 0 - (ReportWord \div 2)
      BY <1>1, <1>4, <1>11, <2>2
    <3>2. (e - t) % ReportWord = e - t + ReportWord
      BY <1>1, <3>1, LessThanATurn
    <3> QED
      BY <1>1, <1>4, <1>10, <2>2, <3>1, <3>2
  <2> QED
    BY <2>1, <2>2
<1> HIDE DEF newer
<1>13. CASE ~(e > t)
  BY <1>6, <1>7, <1>8, <1>9, <1>12, <1>13 DEF sn
<1>14. CASE e > t
  <2>1. e - t \in 1 .. ReportWord - 1 /\ e - t \in Int
    BY <1>1, <1>4, <1>14
  <2>2. (sn - m) % ReportWord = e - t
    BY <1>1, <1>10, <2>1, LessThanATurn
  <2>3. sn - m \in Int /\ sn - m <= ReportWord - 1 /\ sn - m >= 0 - (ReportWord - 1)
    BY <1>1, <1>2, <1>6 DEF Numbers
  <2> DEFINE k == stats.cycles
  <2>4. k \in Int
    BY <1>3 DEF Stats
  <2> HIDE DEF sn, m, k
  <2>5. CASE ~(sn < m)
    <3>1. sn - m \in 0 .. ReportWord - 1 /\ m \in Int /\ sn \in Int
      BY <1>1, <1>2, <1>6, <2>3, <2>5 DEF Numbers
    <3>2. sn - m = e - t
      BY <1>1, <2>2, <3>1, LessThanATurn
    <3>3. (((k + m) % Long) + (e - t)) % Long = ((k + m) + (e - t)) % Long
      <4>1. k + m \in Int
        BY <2>4, <3>1
      <4> QED
        BY ONLY <1>1, <2>1, <4>1, RemainderOfSum
    <3>4. ((t % Long) + (e - t)) % Long = (t + (e - t)) % Long
      BY <1>1, <1>4, <2>1, RemainderOfSum
    <3>5. t + (e - t) = e /\ (k + m) + (e - t) = k + sn
      BY <1>1, <1>4, <2>4, <3>1, <3>2
    <3>6. (k + m) % Long = t % Long
      BY <1>6 DEF k, m
    <3>7. (k + sn) % Long = e % Long
      BY <3>3, <3>4, <3>5, <3>6
    <3>8. /\ CountPacket(stats, sn).maxSeqNo = sn
          /\ CountPacket(stats, sn).cycles = k
      BY <1>8, <1>12, <1>14, <2>5 DEF k, m, sn
    <3>9. Newest(packets \cup {e}) = e
      BY <1>9, <1>14
    <3> QED
      BY <1>2, <1>7, <3>7, <3>8, <3>9 DEF sn, k
  <2>6. CASE sn < m
    <3>1. /\ sn - m \in 0 - ReportWord .. 0 - 1 /\ m \in Int /\ sn \in Int
      BY <1>1, <1>2, <1>6, <2>3, <2>6 DEF Numbers
    <3>2. sn - m + ReportWord = e - t
      BY <1>1, <2>2, <3>1, LessThanATurn
    <3>3. (((k + m) % Long) + (e - t)) % Long = ((k + m) + (e - t)) % Long
      <4>1. k + m \in Int
        BY <2>4, <3>1
      <4> QED
        BY ONLY <1>1, <2>1, <4>1, RemainderOfSum
    <3>4. ((t % Long) + (e - t)) % Long = (t + (e - t)) % Long
      BY <1>1, <1>4, <2>1, RemainderOfSum
    <3>5. t + (e - t) = e /\ (k + m) + (e - t) = (k + ReportWord) + sn
      BY <1>1, <1>4, <2>4, <3>1, <3>2
    <3>6. (k + m) % Long = t % Long
      BY <1>6 DEF k, m
    <3>7. (((k + ReportWord) % Long) + sn) % Long = ((k + ReportWord) + sn) % Long
      <4>1. k + ReportWord \in Int
        BY <1>1, <2>4
      <4> QED
        BY ONLY <1>1, <3>1, <4>1, RemainderOfSum
    <3>8. (((k + ReportWord) % Long) + sn) % Long = e % Long
      BY <3>3, <3>4, <3>5, <3>6, <3>7
    <3>9. /\ CountPacket(stats, sn).maxSeqNo = sn
          /\ CountPacket(stats, sn).cycles = (k + ReportWord) % Long
      BY <1>8, <1>12, <1>14, <2>6 DEF k, m, sn
    <3>10. Newest(packets \cup {e}) = e
      BY <1>9, <1>14
    <3>11. \E b \in Numbers : (k + ReportWord) % Long = ReportWord * b
      BY <1>1, <1>7, WholeWords DEF Numbers, Long, k
    <3> QED
      BY <1>2, <3>8, <3>9, <3>10, <3>11 DEF sn
  <2> QED
    BY <2>5, <2>6
<1> QED
  BY <1>13, <1>14

LEMMA Counted ==
  ASSUME ReportInv, NEW e, Comes(e)
  PROVE  LET s == CountPacket(stats, e % ReportWord)
             S == packets \cup {e}
         IN  /\ s \in Stats
             /\ s.lastExpected = stats.lastExpected /\ s.lastReceived = stats.lastReceived
             /\ Ends(S) /\ Counts(s, S, Wrong(e))
<1> DEFINE sn == e % ReportWord
           s == CountPacket(stats, sn)
           S == packets \cup {e}
<1>1. /\ ReportWord \in Nat /\ ReportWord > 0 /\ e \in Int /\ e \notin packets
      /\ Long \in Nat /\ Long > 0 /\ FirstPackets \subseteq Numbers
      /\ packets = {} => e \in FirstPackets
  BY ReportSizes DEF Comes
<1>2. sn \in Numbers
  BY <1>1, Division DEF Numbers
<1>3. stats \in Stats
  BY DEF ReportInv
<1>4. CASE packets = {}
  <2>1. e \in Numbers /\ 0 \in Numbers
    BY <1>1, <1>4 DEF Numbers
  <2>2. sn = e
    BY <1>1, <2>1, LessThanATurn DEF Numbers
  <2>3. stats.packetCount = 0 /\ stats.cycles = 0 /\ ~misbased
    BY <1>4 DEF ReportInv
  <2>4. /\ s.lastExpected = stats.lastExpected /\ s.lastReceived = stats.lastReceived
        /\ s.baseSN = sn /\ s.maxSeqNo = sn /\ s.packetCount = 1 /\ s.cycles = stats.cycles
        /\ s = [baseSN |-> s.baseSN, maxSeqNo |-> s.maxSeqNo, cycles |-> s.cycles,
                packetCount |-> s.packetCount, lastExpected |-> s.lastExpected,
                lastReceived |-> s.lastReceived]
    BY <1>3, <2>3 DEF CountPacket, Stats
  <2> HIDE DEF s, sn
  <2>5. /\ s \in Stats
        /\ s.lastExpected = stats.lastExpected /\ s.lastReceived = stats.lastReceived
        /\ s.baseSN = e /\ s.maxSeqNo = e /\ s.packetCount = 1 /\ s.cycles = 0
    BY <1>2, <1>3, <2>2, <2>3, <2>4 DEF Stats
  <2>6. S = {e}
    BY <1>4
  <2>7. Ends(S) /\ Oldest(S) = e /\ Newest(S) = e /\ Cardinality(S) = 1
    BY <1>1, <2>6, EndsOfOne, FS_Singleton
  <2>8. ReportWord * 0 = 0 /\ 0 + e = e
    BY <1>1
  <2>9. Counts(s, S, Wrong(e))
    BY <2>1, <2>2, <2>5, <2>7, <2>8 DEF Counts, sn
  <2> QED
    BY <2>5, <2>7, <2>9 DEF s, sn
<1>5. CASE packets # {}
  <2>1. Ends(packets) /\ Counts(stats, packets, misbased)
    BY <1>5 DEF ReportInv
  <2>2. /\ IsFiniteSet(packets) /\ stats.packetCount = Cardinality(packets)
        /\ stats.packetCount # 0
    BY <1>5, <2>1, FS_EmptySet DEF Counts, Ends
  <2>3. Ends(S)
    BY <1>1, <2>1, EndsWith
  <2>4. Cardinality(S) = Cardinality(packets) + 1
    BY <1>1, <2>2, FS_AddElement
  <2>5. s.baseSN \in Numbers /\ (~Wrong(e) => s.baseSN = Oldest(S))
    BY <1>5, BaseKept
  <2>6. /\ s.maxSeqNo = Newest(S) % ReportWord /\ s.maxSeqNo \in Numbers
        /\ \E c \in Numbers : s.cycles = ReportWord * c
        /\ (s.cycles + s.maxSeqNo) % Long = Newest(S) % Long
    BY <1>5, TopKept
  <2>7. /\ s.packetCount = stats.packetCount + 1
        /\ s.lastExpected = stats.lastExpected /\ s.lastReceived = stats.lastReceived
        /\ s = [baseSN |-> s.baseSN, maxSeqNo |-> s.maxSeqNo, cycles |-> s.cycles,
                packetCount |-> s.packetCount, lastExpected |-> s.lastExpected,
                lastReceived |-> s.lastReceived]
    BY <1>3, <2>2 DEF CountPacket, Stats
  <2>8. s.cycles \in Int
    BY <1>1, <2>6 DEF Numbers
  <2> HIDE DEF s, S
  <2>9. s \in Stats
    BY <1>3, <2>5, <2>6, <2>7, <2>8 DEF Stats
  <2>10. Counts(s, S, Wrong(e))
    BY <2>2, <2>4, <2>5, <2>6, <2>7 DEF Counts
  <2> QED
    BY <2>3, <2>7, <2>9, <2>10 DEF s, S
<1> QED
  BY <1>4, <1>5

\* What the buffer makes of its counts.
LEMMA CountsTell ==
  ASSUME NEW s \in Stats, NEW S, Ends(S), NEW wrong, Counts(s, S, wrong)
  PROVE  /\ s.cycles + s.maxSeqNo = Newest(S) % Long
         /\ ~wrong => Expected(s) = (Newest(S) - Oldest(S) + 1) % Long
         /\ Expected(s) \in 0 .. Long - 1
<1> DEFINE k == s.cycles
           m == s.maxSeqNo
           t == Newest(S)
           a == Oldest(S)
<1>1. ReportWord \in Nat /\ ReportWord > 0 /\ Long \in Nat /\ Long > 0
  BY ReportSizes
<1>2. t \in Int /\ a \in Int
  BY EndsOf
<1>3. k \in Int /\ m \in Numbers /\ m \in Int /\ s.baseSN \in Int
  BY <1>1 DEF Stats, Numbers
<1>4. PICK c \in Numbers : k = ReportWord * c
  BY DEF Counts
<1>5. k + m \in 0 .. Long - 1
  BY <1>1, <1>3, <1>4, WholeWords DEF Numbers, Long
<1>6. (k + m) % Long = t % Long
  BY DEF Counts
<1>7. k + m = t % Long
  BY <1>1, <1>5, <1>6, LessThanATurn
<1> DEFINE n == s.cycles + s.maxSeqNo - s.baseSN + 1
<1>8. Expected(s) = n % Long
  BY DEF Expected
<1>11. n = (k + m) - s.baseSN + 1 /\ n \in Int
  BY <1>3
<1> HIDE DEF k, m, t, a, n
<1>9. ASSUME ~wrong PROVE Expected(s) = (t - a + 1) % Long
  <2>1. s.baseSN = a
    BY <1>9 DEF Counts, a
  <2>2. ((t % Long) + (1 - a)) % Long = (t + (1 - a)) % Long
    <3>1. 1 - a \in Int
      BY <1>2
    <3> QED
      BY ONLY <1>1, <1>2, <3>1, RemainderOfSum
  <2>3. n = (k + m) + (1 - a) /\ t + (1 - a) = t - a + 1
    BY <1>2, <1>3, <1>11, <2>1
  <2> QED
    BY <1>7, <1>8, <2>2, <2>3
<1>10. Expected(s) \in 0 .. Long - 1
  BY <1>1, <1>8, <1>11, Division
<1> QED
  BY <1>7, <1>9, <1>10 DEF k, m, t, a

\* The numbers missing of a range that S lies in.
LEMMA MissingOf ==
  ASSUME NEW a \in Int, NEW b \in Int, NEW S, S \subseteq a .. b, IsFiniteSet(S), a <= b
  PROVE  /\ Cardinality(S) \in Nat /\ Cardinality(S) <= b - a + 1
         /\ Cardinality((a .. b) \ S) = b - a + 1 - Cardinality(S)
<1>1. IsFiniteSet(a .. b) /\ Cardinality(a .. b) = b - a + 1
  BY FS_Interval
<1>2. Cardinality(S) <= Cardinality(a .. b)
  BY <1>1, FS_Subset
<1>3. Cardinality((a .. b) \ S) = Cardinality(a .. b) - Cardinality((a .. b) \cap S)
  BY <1>1, FS_Difference
<1>4. (a .. b) \cap S = S
  OBVIOUS
<1>5. Cardinality(S) \in Nat
  BY FS_CardinalityType
<1>6. Cardinality((a .. b) \ S) = Cardinality(a .. b) - Cardinality(S)
  BY <1>3, <1>4
<1> QED
  BY ONLY <1>1, <1>2, <1>5, <1>6

\* What the last report noted still holds of the packets that come in order.
LEMMA StillNoted ==
  ASSUME ReportInv, NEW e, Comes(e)
  PROVE  Noted(CountPacket(stats, e % ReportWord), packets \cup {e}, before,
               tardy \/ (packets # {} /\ e < Newest(packets)), Wrong(e))
<1> DEFINE s == CountPacket(stats, e % ReportWord)
           S == packets \cup {e}
           slow == tardy \/ (packets # {} /\ e < Newest(packets))
<1>1. s.lastExpected = stats.lastExpected /\ s.lastReceived = stats.lastReceived
  BY Counted
<1>2. Noted(stats, packets, before, tardy, misbased) /\ before \subseteq packets
  BY DEF ReportInv
<1>3. Wrong(e) \/ ~misbased
  BY DEF Wrong
<1>4. e \in Int /\ e \notin packets
  BY DEF Comes
<1> HIDE DEF s
<1>5. CASE before = {}
  BY <1>1, <1>2, <1>5 DEF Noted, s
<1>6. CASE before # {}
  <2>1. Ends(before) /\ stats.lastReceived = Cardinality(before)
    BY <1>2, <1>6 DEF Noted
  <2>2. packets # {} /\ Ends(packets)
    BY <1>2, <1>6 DEF ReportInv
  <2>3. ASSUME ~slow
        PROVE  /\ \A f \in S \ before : f > Newest(before)
               /\ ~Wrong(e) => s.lastExpected = (Newest(before) - Oldest(S) + 1) % Long
    <3>1. ~tardy /\ ~(e < Newest(packets))
      BY <2>2, <2>3
    <3>2. /\ Newest(packets) \in packets /\ Newest(packets) \in Int /\ Oldest(packets) \in Int
          /\ Oldest(packets) <= Newest(packets)
          /\ \A f \in packets : f <= Newest(packets)
      BY <2>2, EndsOf
    <3>3. Newest(before) \in before /\ Newest(before) \in Int
      BY <2>1, EndsOf
    <3>4. e > Newest(packets)
      BY <1>4, <3>1, <3>2
    <3>5. e > Newest(before)
      BY <1>2, <1>4, <3>2, <3>3, <3>4
    <3>6. \A f \in packets \ before : f > Newest(before)
      BY <1>2, <1>6, <3>1 DEF Noted
    <3>7. Oldest(S) = Oldest(packets)
      BY <1>4, <2>2, <3>2, <3>4, EndsWith
    <3>8. ~Wrong(e) => stats.lastExpected = (Newest(before) - Oldest(packets) + 1) % Long
      BY <1>2, <1>3, <1>6, <3>1 DEF Noted
    <3> QED
      BY <1>1, <3>5, <3>6, <3>7, <3>8 DEF s
  <2> HIDE DEF slow, S
  <2> QED
    BY <1>1, <1>6, <2>1, <2>3 DEF Noted, s, S, slow
<1> QED
  BY <1>5, <1>6

\* What a step does to the state, in those terms.
LEMMA Receives ==
  ASSUME ReportInv, ReportNext
  PROVE  \E e \in Int, due \in BOOLEAN :
           /\ Comes(e) /\ Receive(e, due)
           /\ packets' = packets \cup {e}
           /\ misbased' = Wrong(e)
           /\ packets = {} => ~due
           /\ LET s == CountPacket(stats, e % ReportWord)
              IN  /\ due => /\ rtcp' = GetRTCP(s) /\ stats' = Reported(s)
                            /\ before' = packets' /\ tardy' = FALSE
                  /\ ~due => /\ stats' = s /\ before' = before
                             /\ tardy' = (tardy \/ (packets # {} /\ e < Newest(packets)))
<1>1. ASSUME NEW e, NEW due \in BOOLEAN, Comes(e), Receive(e, due), packets = {} => ~due
      PROVE  /\ e \in Int
             /\ packets' = packets \cup {e}
             /\ misbased' = Wrong(e)
             /\ LET s == CountPacket(stats, e % ReportWord)
                IN  /\ due => /\ rtcp' = GetRTCP(s) /\ stats' = Reported(s)
                              /\ before' = packets' /\ tardy' = FALSE
                    /\ ~due => /\ stats' = s /\ before' = before
                               /\ tardy' = (tardy \/ (packets # {} /\ e < Newest(packets)))
  BY <1>1, Zenon DEF Receive, Wrong, Comes
<1>2. CASE packets = {}
  <2>1. PICK e \in FirstPackets : Receive(e, FALSE)
    BY <1>2 DEF ReportNext
  <2>2. e \in Int /\ e \notin packets
    BY <1>2, ReportSizes DEF Numbers
  <2>3. Comes(e)
    BY <1>2, <2>1, <2>2 DEF Comes
  <2> QED
    BY <1>1, <2>1, <2>2, <2>3
<1>3. CASE packets # {}
  <2>1. PICK e \in Newest(packets) - MaxBehind .. Newest(packets) + MaxSkip, due \in BOOLEAN :
          Receive(e, due)
    BY <1>3 DEF ReportNext
  <2>2. e \notin packets
    BY <2>1 DEF Receive
  <2>3. e \in Int
    OBVIOUS
  <2>4. Comes(e)
    BY <1>3, <2>1, <2>2, <2>3 DEF Comes
  <2> QED
    BY <1>1, <1>3, <2>1, <2>3, <2>4
<1> QED
  BY <1>2, <1>3

LEMMA ReportedIn ==
  ASSUME NEW s \in Stats, Expected(s) \in Int
  PROVE  /\ Reported(s) \in Stats
         /\ Reported(s).lastExpected = Expected(s)
         /\ Reported(s).lastReceived = s.packetCount
         /\ Reported(s).baseSN = s.baseSN /\ Reported(s).maxSeqNo = s.maxSeqNo
         /\ Reported(s).cycles = s.cycles /\ Reported(s).packetCount = s.packetCount
BY DEF Reported, Stats

LEMMA ReceiveKeeps == ReportInv /\ ReportNext => ReportInv'
<1> SUFFICES ASSUME ReportInv, ReportNext PROVE ReportInv'
  OBVIOUS
<1>1. PICK e \in Int, due \in BOOLEAN :
         /\ Comes(e)
         /\ packets' = packets \cup {e}
         /\ misbased' = Wrong(e)
         /\ LET s == CountPacket(stats, e % ReportWord)
            IN  /\ due => /\ stats' = Reported(s)
                          /\ before' = packets' /\ tardy' = FALSE
                /\ ~due => /\ stats' = s /\ before' = before
                           /\ tardy' = (tardy \/ (packets # {} /\ e < Newest(packets)))
  BY Receives
<1> DEFINE s == CountPacket(stats, e % ReportWord)
           S == packets \cup {e}
<1>2. /\ s \in Stats
      /\ s.lastExpected = stats.lastExpected /\ s.lastReceived = stats.lastReceived
      /\ Ends(S) /\ Counts(s, S, Wrong(e))
  BY <1>1, Counted
<1>3. Noted(s, S, before, tardy \/ (packets # {} /\ e < Newest(packets)), Wrong(e))
  BY <1>1, StillNoted
<1>4. S # {} /\ before \subseteq S
  BY DEF ReportInv
<1>5. /\ ~Wrong(e) => Expected(s) = (Newest(S) - Oldest(S) + 1) % Long
      /\ Expected(s) \in Int
  <2>1. Expected(s) \in 0 .. Long - 1
    BY <1>2, CountsTell
  <2>2. ~Wrong(e) => Expected(s) = (Newest(S) - Oldest(S) + 1) % Long
    BY <1>2, CountsTell
  <2> QED
    BY <2>1, <2>2
<1> DEFINE w == Wrong(e)
           slow == tardy \/ (packets # {} /\ e < Newest(packets))
<1> HIDE DEF s, S, w, slow
<1>6. CASE ~due
  <2>1. /\ stats' = s /\ before' = before /\ tardy' = slow
        /\ packets' = S /\ misbased' = w
    BY <1>1, <1>6 DEF s, S, w, slow
  <2>2. Counts(s, S, w) /\ Noted(s, S, before, slow, w)
    BY <1>2, <1>3 DEF w, slow
  <2> QED
    BY <1>2, <1>4, <2>1, <2>2 DEF ReportInv
<1>7. CASE due
  <2> DEFINE r == Reported(s)
  <2>1. /\ stats' = r /\ before' = S /\ tardy' = FALSE
        /\ packets' = S /\ misbased' = w
    BY <1>1, <1>7 DEF s, S, w
  <2>2. /\ r \in Stats
        /\ r.lastExpected = Expected(s)
        /\ r.lastReceived = s.packetCount
        /\ r.baseSN = s.baseSN /\ r.maxSeqNo = s.maxSeqNo
        /\ r.cycles = s.cycles /\ r.packetCount = s.packetCount
    BY <1>2, <1>5, ReportedIn
  <2> HIDE DEF r
  <2>3. Counts(r, S, w)
    BY <1>2, <2>2 DEF Counts, w
  <2>4. Noted(r, S, S, FALSE, w)
    BY <1>2, <1>4, <1>5, <2>2 DEF Noted, Counts, w
  <2> QED
    BY <1>2, <1>4, <2>1, <2>2, <2>3, <2>4 DEF ReportInv
<1> QED
  BY <1>6, <1>7

\* A share of less than the whole fits the fraction's word.
LEMMA ShareFits ==
  ASSUME NEW d \in Nat, d > 0, NEW p \in Nat, NEW q \in Nat, p < q
  PROVE  (p * d) \div q \in 0 .. d - 1
<1>1. p * d \in Nat /\ q > 0
  OBVIOUS
<1> DEFINE x == (p * d) \div q
           y == (p * d) % q
<1>2. x \in Int /\ y \in 0 .. q - 1 /\ p * d = q * x + y
  BY <1>1
<1>3. p * d < q * d
  BY <1>1
<1> HIDE DEF x, y
<1>4. CASE x >= d
  <2>1. q * x >= q * d
    BY <1>1, <1>2, <1>4
  <2> QED
    BY <1>1, <1>2, <1>3, <2>1
<1>5. CASE x <= 0 - 1
  <2>1. q * x <= 0 - q
    BY <1>1, <1>2, <1>5
  <2> QED
    BY <1>1, <1>2, <2>1
<1> QED
  BY <1>2, <1>4, <1>5 DEF x

\* The interval since the last report, whose packets came in order.
LEMMA Interval ==
  ASSUME NEW s \in Stats, NEW S, Ends(S), Counts(s, S, FALSE),
         NEW B, B \subseteq S, S \ B # {}, Noted(s, S, B, FALSE, FALSE),
         NEW last, last = (IF B = {} THEN Oldest(S) - 1 ELSE Newest(B)),
         NEW span, span = Newest(S) - last,
         NEW gone, gone = span - Cardinality(S \ B)
  PROVE  /\ span \in Nat /\ span >= 1 /\ gone \in 0 .. span - 1
         /\ span < Long => ExpectedInterval(s) = span /\ LostInterval(s) = gone
<1> DEFINE h == Newest(S)
           l == Oldest(S)
           n == IF B = {} THEN l - 1 ELSE Newest(B)
           of == h - n
           k == Cardinality(S \ B)
           x == Expected(s)
           g == s.lastExpected
<1>1. /\ Long \in Nat /\ Long > 0
  BY ReportSizes
<1>2. /\ h \in S /\ l \in S /\ h \in Int /\ l \in Int
      /\ S \subseteq Int /\ IsFiniteSet(S)
      /\ \A f \in S : l <= f /\ f <= h
  BY EndsOf DEF Ends
<1>3. n \in Int /\ \A f \in S \ B : f > n
  <2>1. CASE B = {}
    BY <1>2, <2>1
  <2>2. CASE B # {}
    <3>1. Ends(B) /\ \A f \in S \ B : f > Newest(B)
      BY <2>2 DEF Noted
    <3>2. Newest(B) \in Int
      BY <3>1, EndsOf
    <3> QED
      BY <2>2, <3>1, <3>2
  <2> QED
    BY <2>1, <2>2
<1>4. x = (h - l + 1) % Long /\ g = (n - l + 1) % Long
  <2>1. x = (h - l + 1) % Long
    BY CountsTell
  <2>2. g = (n - l + 1) % Long
    <3>1. CASE B = {}
      <4>1. n - l + 1 = 0 /\ 0 \in 0 .. Long - 1
        BY <1>1, <1>2, <3>1
      <4>2. 0 % Long = 0
        BY <1>1, <4>1, LessThanATurn
      <4>3. g = 0
        BY <3>1 DEF Noted
      <4> QED
        BY <4>1, <4>2, <4>3
    <3>2. CASE B # {}
      BY <3>2 DEF Noted
    <3> QED
      BY <3>1, <3>2
  <2> QED
    BY <2>1, <2>2
<1>5. s.packetCount - s.lastReceived = k /\ k \in Nat /\ k >= 1
  <2>1. s.packetCount = Cardinality(S)
    BY DEF Counts
  <2>2. s.lastReceived = Cardinality(B)
    <3>1. CASE B = {}
      BY <3>1, FS_EmptySet DEF Noted
    <3>2. CASE B # {}
      BY <3>2 DEF Noted
    <3> QED
      BY <3>1, <3>2
  <2>3. S \cap B = B
    OBVIOUS
  <2>4. k = Cardinality(S) - Cardinality(B) /\ IsFiniteSet(S \ B)
    BY <1>2, <2>3, FS_Difference
  <2>5. k \in Nat /\ k # 0
    BY <2>4, FS_CardinalityType, FS_EmptySet
  <2> QED
    BY <2>1, <2>2, <2>4, <2>5
<1>6. of \in Nat /\ of >= 1 /\ k <= of
  <2>1. PICK f \in S \ B : TRUE
    OBVIOUS
  <2>2. f > n /\ f <= h /\ f \in Int
    BY <1>2, <1>3, <2>1
  <2>3. n + 1 <= h /\ n + 1 \in Int
    BY <1>2, <1>3, <2>2
  <2>4. S \ B \subseteq n + 1 .. h
    BY <1>2, <1>3
  <2>5. IsFiniteSet(S \ B)
    BY <1>2, FS_Difference
  <2> HIDE DEF n, h, k, of
  <2>6. k <= h - (n + 1) + 1
    BY <1>2, <2>3, <2>4, <2>5, MissingOf DEF k
  <2> QED
    BY <1>2, <1>3, <1>5, <2>3, <2>6 DEF of
<1> DEFINE lost == of - k
<1> HIDE DEF h, l, n, of, k, x, g, lost
<1>7. lost \in 0 .. of - 1
  BY <1>5, <1>6 DEF lost
<1>8. (x - g) % Long = of % Long
  <2>1. h - l + 1 \in Int /\ n - l + 1 \in Int
    BY <1>2, <1>3
  <2>2. (((h - l + 1) % Long) - ((n - l + 1) % Long)) % Long = ((h - l + 1) - (n - l + 1)) % Long
    BY ONLY <1>1, <2>1, RemainderOfDifference
  <2>3. (h - l + 1) - (n - l + 1) = of
    BY <1>2, <1>3 DEF of
  <2> QED
    BY <1>4, <2>2, <2>3
<1>9. x \in Int /\ g \in Int /\ x - g \in Int
  <2>1. x \in 0 .. Long - 1
    BY CountsTell DEF x
  <2>2. x \in Int /\ g \in Int
    BY <2>1 DEF Stats, g
  <2> QED
    BY <2>2
<1>10. ExpectedInterval(s) = of % Long
  BY <1>8 DEF ExpectedInterval, x, g
<1>11. LostInterval(s) = lost % Long
  <2>1. LostInterval(s) = (x - g - k) % Long
    BY <1>5 DEF LostInterval, x, g
  <2>2. (((x - g) % Long) + (0 - k)) % Long = ((x - g) + (0 - k)) % Long
    <3>1. 0 - k \in Int
      BY <1>5
    <3> QED
      BY ONLY <1>1, <1>9, <3>1, RemainderOfSum
  <2>3. ((of % Long) + (0 - k)) % Long = (of + (0 - k)) % Long
    <3>1. 0 - k \in Int /\ of \in Int
      BY <1>5, <1>6
    <3> QED
      BY ONLY <1>1, <3>1, RemainderOfSum
  <2>4. x - g - k = (x - g) + (0 - k) /\ of + (0 - k) = lost
    BY <1>5, <1>6, <1>9 DEF lost
  <2> QED
    BY <1>8, <2>1, <2>2, <2>3, <2>4
<1>12. span = of /\ gone = lost
  BY DEF h, l, n, of, k, lost
<1>13. ASSUME of < Long PROVE of % Long = of /\ lost % Long = lost
  <2>1. of \in 0 .. Long - 1 /\ lost \in 0 .. Long - 1
    BY <1>1, <1>6, <1>7, <1>13
  <2> QED
    BY <1>1, <2>1, LessThanATurn
<1> QED
  BY <1>6, <1>7, <1>10, <1>11, <1>12, <1>13

LEMMA ReportInvariant == ReportSpec => []ReportInv
<1>1. ReportInit => ReportInv
  BY ReportStart
<1>2. ReportInv /\ [ReportNext]_reportVars => ReportInv'
  <2>1. ReportInv /\ UNCHANGED reportVars => ReportInv'
    BY DEF ReportInv, reportVars, Counts, Noted
  <2> QED
    BY <2>1, ReceiveKeeps
<1> QED
  BY <1>1, <1>2, PTL DEF ReportSpec

\* What the report of a step gives.
LEMMA ReportRight ==
  ASSUME ReportInv, ReportNext, before' # before
  PROVE  ReportGives
<1>1. PICK e \in Int, due \in BOOLEAN :
         /\ Comes(e)
         /\ packets' = packets \cup {e}
         /\ misbased' = Wrong(e)
         /\ LET s == CountPacket(stats, e % ReportWord)
            IN  /\ due => rtcp' = GetRTCP(s)
                /\ ~due => before' = before
  BY Receives
<1> DEFINE s == CountPacket(stats, e % ReportWord)
           S == packets \cup {e}
           w == Wrong(e)
           h == Newest(S)
           l == Oldest(S)
           of == h - (IF before = {} THEN l - 1 ELSE Newest(before))
           k == Cardinality(S \ before)
           lost == of - k
           slow == tardy \/ (\E f \in S \ packets : f < h)
<1>2. /\ s \in Stats
      /\ Ends(S) /\ Counts(s, S, Wrong(e))
  BY <1>1, Counted
<1>3. Noted(s, S, before, tardy \/ (packets # {} /\ e < Newest(packets)), Wrong(e))
  BY <1>1, StillNoted
<1>4. rtcp' = GetRTCP(s) /\ packets' = S /\ misbased' = w
  BY <1>1
<1>5. /\ h \in S /\ l \in S /\ h \in Int /\ l \in Int /\ S \subseteq Int /\ IsFiniteSet(S)
      /\ \A f \in S : l <= f /\ f <= h
  BY <1>2, EndsOf DEF Ends
<1>6. before \subseteq packets
  BY DEF ReportInv
<1>7. e \in S \ packets
  BY <1>1 DEF Comes
<1>8. /\ Long \in Nat /\ Long > 0 /\ Fraction \in Nat /\ Fraction > 0
  BY ReportSizes
<1>9. /\ rtcp'.report.highest = s.cycles + s.maxSeqNo
      /\ rtcp'.report.lost =
           (IF s.packetCount < Expected(s) THEN Expected(s) - s.packetCount ELSE 0)
      /\ rtcp'.report.fraction =
           (IF ExpectedInterval(s) # 0 /\ LostInterval(s) > 0
            THEN (((LostInterval(s) * Fraction) % Long) \div ExpectedInterval(s)) % Fraction
            ELSE 0)
      /\ rtcp'.rate = BuildREMBPacket(LostInterval(s), ExpectedInterval(s))
  BY <1>4 DEF GetRTCP, BuildReceptionReport
<1> HIDE DEF s
<1>10. ~slow => ~(tardy \/ (packets # {} /\ e < Newest(packets)))
  <2> SUFFICES ASSUME packets # {}, e < Newest(packets) PROVE e < h
    BY <1>7
  <2>1. Ends(packets)
    BY DEF ReportInv
  <2>2. Newest(packets) \in packets /\ Newest(packets) \in Int
    BY <2>1, EndsOf
  <2>3. Newest(packets) <= h
    BY <1>5, <2>2
  <2> HIDE DEF h
  <2> QED
    BY <1>5, <2>2, <2>3
<1> HIDE DEF w, slow
<1>11. rtcp'.report.highest = h % Long
  BY <1>2, <1>9, CountsTell
<1>12. ASSUME ~w, h - l < Long - 1 PROVE rtcp'.report.lost = Missing(S)
  <2> HIDE DEF S, h, l
  <2>1. Expected(s) = (h - l + 1) % Long
    BY <1>2, <1>12, CountsTell DEF w, S, h, l
  <2>2. l <= h /\ h - l + 1 \in 0 .. Long - 1
    BY <1>5, <1>8, <1>12
  <2>3. Expected(s) = h - l + 1
    BY <1>8, <2>1, <2>2, LessThanATurn
  <2>4. s.packetCount = Cardinality(S)
    BY <1>2 DEF Counts, S
  <2>5. S \subseteq l .. h
    BY <1>5
  <2>6. /\ Cardinality(S) \in Nat /\ Cardinality(S) <= h - l + 1
        /\ Cardinality((l .. h) \ S) = h - l + 1 - Cardinality(S)
    BY <1>5, <2>2, <2>5, MissingOf
  <2>7. Missing(S) = Cardinality((l .. h) \ S)
    BY DEF Missing, l, h
  <2> QED
    BY <1>5, <1>9, <2>3, <2>4, <2>6, <2>7
<1>13. ASSUME ~w, ~slow, of < Long
       PROVE  /\ lost * Fraction < Long =>
                   rtcp'.report.fraction = (lost * Fraction) \div of
              /\ (rtcp'.rate = "cut") <=> (10 * lost > of)
  <2>1. Noted(s, S, before, FALSE, FALSE) /\ Counts(s, S, FALSE)
    BY <1>2, <1>3, <1>10, <1>13 DEF Noted, Counts, w, s
  <2>2. S \ before # {} /\ before \subseteq S
    BY <1>6, <1>7
  <2>3. /\ of \in Nat /\ of >= 1 /\ lost \in 0 .. of - 1
        /\ ExpectedInterval(s) = of /\ LostInterval(s) = lost
    <3>1. s \in Stats /\ Ends(S)
      BY <1>2 DEF s
    <3> DEFINE last == IF before = {} THEN l - 1 ELSE Newest(before)
    <3>2. /\ last = (IF before = {} THEN Oldest(S) - 1 ELSE Newest(before))
          /\ of = Newest(S) - last /\ lost = of - Cardinality(S \ before)
      OBVIOUS
    <3>3. of < Long
      BY <1>13
    <3> HIDE DEF S, of, lost, last
    <3> QED
      BY ONLY <3>3, <2>1, <2>2, <3>1, <3>2, Interval
  <2> HIDE DEF of, lost, S
  <2>4. of \in 0 .. Long - 1 /\ lost \in 0 .. Long - 1
    BY <1>8, <1>13, <2>3
  <2>6. (rtcp'.rate = "cut") <=> (10 * lost > of)
    BY <1>9, <2>3 DEF BuildREMBPacket
  <2>7. ASSUME lost * Fraction < Long PROVE rtcp'.report.fraction = (lost * Fraction) \div of
    <3>1. rtcp'.report.fraction =
            (IF lost > 0 THEN (((lost * Fraction) % Long) \div of) % Fraction ELSE 0)
      BY <1>9, <2>3
    <3>2. lost * Fraction \in 0 .. Long - 1
      BY <1>8, <2>3, <2>4, <2>7
    <3>3. (lost * Fraction) % Long = lost * Fraction
      BY <1>8, <3>2, LessThanATurn
    <3>4. (lost * Fraction) \div of \in 0 .. Fraction - 1
      <4>1. lost \in Nat /\ lost < of
        BY <2>3
      <4> QED
        BY ONLY <1>8, <2>3, <4>1, ShareFits
    <3>5. ((lost * Fraction) \div of) % Fraction = (lost * Fraction) \div of
      BY <1>8, <3>4, LessThanATurn
    <3>6. CASE lost = 0
      <4>1. lost * Fraction = 0 /\ 0 \div of = 0
        BY <1>8, <2>3, <3>6
      <4> QED
        BY <3>1, <3>6, <4>1
    <3>7. CASE lost > 0
      BY <3>1, <3>3, <3>5, <3>7
    <3> QED
      BY <2>4, <3>6, <3>7
  <2> QED
    BY <2>6, <2>7
<1>14. packets' \ before = S \ before /\ packets' \ packets = S \ packets
       /\ Newest(packets') = h /\ Oldest(packets') = l
       /\ Missing(packets') = Missing(S)
  BY <1>4
<1> HIDE DEF S, h, l
<1> QED
  BY <1>4, <1>11, <1>12, <1>13, <1>14 DEF ReportGives, of, lost, slow, k

\* Whatever the width of the words, the first packets of the streams, and the
\* packets lost, slow and received: every receiver report (buffer.go's
\* buildReceptionReport and getRTCP) gives the highest number, the packets
\* missing of all, the share missing of the interval's, and asks for a lower
\* rate exactly when more than a tenth of the interval's packets is missing.
THEOREM ReportTellsHolds == ReportSpec => ReportTells
<1>1. ReportInv /\ [ReportNext]_reportVars => [ReportGives]_reportVars
  <2>1. ReportInv /\ ReportNext => ReportGives
    BY ReportRight DEF ReportGives
  <2> QED
    BY <2>1
<1> QED
  BY <1>1, ReportInvariant, PTL DEF ReportSpec, ReportTells
=============================================================================
