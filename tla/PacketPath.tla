------------------------------ MODULE PacketPath ------------------------------
(***************************************************************************)
(* The way of one video track's packets through the SFU, in its numbers.   *)
(*                                                                         *)
(* A buffer per layer extends the publisher's 16 bit numbers, keeps the     *)
(* last packets in a ring (the bucket) and lists the missing ones (NACKs);  *)
(* the down track renumbers what it forwards and keeps which packet went    *)
(* out under which number (the sequencer), to answer the subscriber's       *)
(* NACKs from the ring.                                                     *)
(*                                                                         *)
(* Words are scaled from 2^16 to W.  A packet is its true number, which the *)
(* code does not know; the network loses, delays and repeats packets at     *)
(* most Reach from the highest one.                                         *)
(***************************************************************************)
EXTENDS Integers, Sequences, FiniteSets, SequencesExt

CONSTANTS W,           \* 2^16
          N,           \* slots of a bucket
          M,           \* slots of a sequencer
          NackTimes,   \* maxNackTimes
          NackCache,   \* maxNackCache
          Layer,       \* spatial layers sent
          Start,       \* the numbers a stream may begin with
          Leftover,    \* numbers the pooled memory of a bucket may hold
          Reach,       \* distance of an arrival from the highest number
          Lag,         \* packets a reader may be behind
          MaxArrivals, \* packets in a behaviour
          MaxChanges,  \* mutes and switches in a behaviour
          None

ASSUME PathAssumption ==
  /\ W \in Nat \ {0} /\ W % 2 = 0 /\ N \in 1 .. W \div 2 /\ M \in 1 .. W \div 2
  /\ 0 \in Layer /\ Layer \subseteq Nat /\ None \notin Int
  /\ Start \subseteq 0 .. W - 1 /\ Leftover \subseteq 0 .. W - 1
  /\ Reach \in 1 .. W \div 2 - 1 /\ MaxArrivals \in Nat
  /\ {NackTimes, NackCache} \subseteq Nat \ {0}

Word == 0 .. W - 1
Half == W \div 2
Sub(a, b) == (a - b) % W
Ext == 0 - Reach .. W + MaxArrivals * Reach

VARIABLES
  kind,     \* the down track: "simple" or "simulcast"
  buf,      \* [Layer -> buffer]
  queue,    \* [Layer -> packets of the buffer its reader has not taken]
  track,    \* the down track
  seqr,     \* its sequencer
  rtx,      \* an answer to a NACK in the worker pool, or None
  \* history
  came,  \* [Layer -> packets that arrived]
  stored,   \* [Layer -> packets the bucket took]
  first,    \* [Layer -> the first one, or None]
  top,      \* [Layer -> the highest one, or None]
  spent,    \* [Layer -> packets asked for NackTimes times, listed under another
            \*           packet's number, or lost or doubled in an overfull list]
  wrote,     \* numbers sent, with the packet, as far back as the sequencer goes
  late,     \* a packet was forwarded out of order
  arrivals, changes

pathVars == <<kind, buf, queue, track, seqr, rtx, came, stored, first, top, spent,
              wrote, late, arrivals, changes>>

\* What an encoder sends: which packets begin a key frame, and the temporal
\* layer of each.
Key(e) == e % 3 = 0
Tid(e) == e % 2

-----------------------------------------------------------------------------
(* The bucket.                                                             *)

\* Slots keep the number bytes they held when their size is made invalid.
NewBucket(g) == [init |-> FALSE, head |-> 0, step |-> 0,
                 slot |-> [i \in 0 .. N - 1 |-> [sn |-> g, pkt |-> None]]]

\* An invalid packet size in n slots from i on.
Invalidate(slot, i, n) ==
  [j \in 0 .. N - 1 |-> IF (j - i) % N < n THEN [slot[j] EXCEPT !.pkt = None]
                        ELSE slot[j]]

push(k, e) ==
  LET gap == Sub(e % W, k.head) - 1
  IN  [k EXCEPT !.head = e % W,
                !.slot = [Invalidate(k.slot, k.step, gap) EXCEPT
                            ![(k.step + gap) % N] = [sn |-> e % W, pkt |-> e]],
                !.step = (k.step + gap + 1) % N]

SlotOf(k, sn) == (k.step - Sub(k.head, sn) - 1) % N

Set(k, e) == [k EXCEPT !.slot[SlotOf(k, e % W)] = [sn |-> e % W, pkt |-> e]]

\* Too old, or the slot has the packet already.
Refuses(k, e) ==
  LET sn == e % W
  IN  /\ k.init /\ Sub(sn, k.head) \notin 1 .. Half
      /\ Sub(k.head, sn) >= N \/ k.slot[SlotOf(k, sn)].sn = sn

\* A gap that keeps what its slots held.
AddPacketOverGap(k, e) ==
  LET k1 == IF k.init THEN k ELSE [k EXCEPT !.init = TRUE, !.head = Sub(e, 1)]
  IN  IF Refuses(k, e) THEN k
      ELSE IF Sub(e % W, k1.head) \notin 1 .. Half THEN Set(k1, e)
      ELSE [k1 EXCEPT !.head = e % W, !.step = (@ + 1) % N,
                      !.slot[k1.step] = [sn |-> e % W, pkt |-> e]]

AddPacket(k, e) ==
  LET k1 == IF k.init THEN k ELSE [k EXCEPT !.init = TRUE, !.head = Sub(e, 1)]
  IN  IF Refuses(k, e) THEN k
      ELSE IF Sub(e % W, k1.head) \in 1 .. Half THEN push(k1, e) ELSE Set(k1, e)

GetPacket(k, sn) ==
  LET s == k.slot[SlotOf(k, sn)]
  IN  IF Sub(k.head, sn) < N /\ s.sn = sn THEN s.pkt ELSE None

-----------------------------------------------------------------------------
(* The list of missing packets.  An entry also keeps the packet it is for. *)

Before(nacks, sn) == Cardinality({i \in DOMAIN nacks : nacks[i].sn < sn})
Listed(nacks, sn)  == \E i \in DOMAIN nacks : nacks[i].sn = sn

\* Over the capacity the first entry leaves and the last one is there twice.
PushNack(nacks, sn, e) ==
  LET more == InsertAt(nacks, Before(nacks, sn) + 1, [sn |-> sn, nacked |-> 0, of |-> e])
  IN  IF Listed(nacks, sn) THEN nacks
      ELSE IF Len(more) < NackCache THEN more
      ELSE Tail(more) \o <<more[Len(more)]>>

\* Removes the entry found, without comparing it.
RemoveAnyNack(nacks, sn) ==
  IF Before(nacks, sn) < Len(nacks) THEN RemoveAt(nacks, Before(nacks, sn) + 1) ELSE nacks

RemoveNack(nacks, sn) ==
  IF Listed(nacks, sn) THEN RemoveAt(nacks, Before(nacks, sn) + 1) ELSE nacks

\* The entries to keep: one asked for often enough leaves the list, one that
\* may only be reordered is not asked for yet.
Spent(nacks) == {nacks[i].sn : i \in {j \in DOMAIN nacks : nacks[j].nacked >= NackTimes}}
Asked(n, head) == IF n.sn >= (head - 2) % (W * W) THEN n ELSE [n EXCEPT !.nacked = @ + 1]
Pairs(nacks, head) ==
  LET kept[i \in 0 .. Len(nacks)] ==
        IF i = 0 THEN <<>>
        ELSE IF nacks[i].nacked < NackTimes THEN Append(kept[i - 1], Asked(nacks[i], head))
        ELSE kept[i - 1]
  IN  kept[Len(nacks)]

-----------------------------------------------------------------------------
(* The buffer: calc.                                                       *)

NewBuffer(g) == [begun |-> FALSE, max |-> 0, cycles |-> 0, nacks |-> <<>>,
                 bucket |-> NewBucket(g)]

IsAhead(b, sn) == Sub(sn, b.max) < Half
Cycles(b, sn)  == IF sn < b.max THEN b.cycles + W ELSE b.cycles

\* The extended number calc gives a number below, or in a gap before, sn.
Extend(cycles, max, sn) ==
  IF sn > max /\ sn >= Half /\ max < Half THEN (cycles - W + sn) % (W * W)
  ELSE (cycles + sn) % (W * W)

Number(b, e, i) == Extend(Cycles(b, e % W), b.max, Sub(e, i))
Gap(b, e)       == IF b.begun /\ IsAhead(b, e % W) THEN 1 .. Sub(e, b.max) - 1 ELSE {}
Misfiled(b, e)  == {e - i : i \in {j \in Gap(b, e) : Number(b, e, j) # e - j}}
Missed(b, e) ==
  LET lost[i \in 0 .. Half] == IF i = 0 THEN b.nacks
                               ELSE PushNack(lost[i - 1], Number(b, e, i), e - i)
  IN  lost[Cardinality(Gap(b, e))]

\* What a list that has reached its capacity lost, or has twice.
Overfull(b, e) ==
  LET list == Missed(b, e)
      sns(nacks) == {nacks[i].sn : i \in DOMAIN nacks}
  IN  IF Len(list) < NackCache THEN {}
      ELSE ((sns(b.nacks) \cup {Number(b, e, i) : i \in Gap(b, e)}) \ sns(list))
             \cup {list[i].sn : i \in {j \in DOMAIN list : \E k \in DOMAIN list \ {j} :
                                                        list[k].sn = list[j].sn}}

\* The numbers of a packet, before it is stored.
Count(b, e) ==
  LET sn == e % W
  IN  IF ~b.begun THEN [b EXCEPT !.max = sn]
      ELSE IF IsAhead(b, sn)
        THEN [b EXCEPT !.cycles = Cycles(b, sn), !.nacks = Missed(b, e), !.max = sn]
      ELSE [b EXCEPT !.nacks = RemoveNack(@, Extend(b.cycles, b.max, sn))]

\* An accepted packet is stored, and the missing ones are asked for.
Calc(b, e) ==
  LET c == Count(b, e)
  IN  IF Refuses(b.bucket, e) THEN c
      ELSE [c EXCEPT !.begun = TRUE, !.bucket = AddPacket(@, e),
                     !.nacks = Pairs(@, c.cycles + c.max)]

-----------------------------------------------------------------------------
(* The sequencer.                                                          *)

EmptySlot == [source |-> 0, target |-> 0, layer |-> 0, of |-> None]
NewSequencer == [init |-> FALSE, head |-> 0, step |-> 0,
                 slot |-> [i \in 0 .. M - 1 |-> EmptySlot]]

Head0(s, target) == IF s.init THEN s.head ELSE target

\* A sequencer that leaves no slots for a gap.
SequenceDense(s, e, target, l, head) ==
  [init |-> TRUE, head |-> IF head THEN target ELSE Head0(s, target),
   step |-> (s.step + 1) % M,
   slot |-> [s.slot EXCEPT ![s.step] =
               [source |-> e % W, target |-> target, layer |-> l, of |-> e]]]

\* A packet out of order goes to the slot at step, though its own is computed.
\* With a head packet the slots of a gap are left out.
Sequence(s, e, target, l, head) ==
  LET gap  == IF head /\ Sub(target, Head0(s, target)) > 1
              THEN Sub(target, Head0(s, target)) - 1 ELSE 0
      at   == (s.step + gap) % M
      old  == ~head /\ s.step - Sub(Head0(s, target), target) <= 0 - M
  IN  IF old THEN [s EXCEPT !.init = TRUE, !.head = Head0(s, target)]
      ELSE [init |-> TRUE,
            head |-> IF head THEN target ELSE Head0(s, target),
            step |-> (at + 1) % M,
            slot |-> [s.slot EXCEPT ![at] =
                        [source |-> e % W, target |-> target, layer |-> l, of |-> e]]]

\* The slots of getSeqNoPairs for a number: one or none.
AnswersTo(s, sn) ==
  LET at == s.step - Sub(s.head, sn) - 1
  IN  {p \in {s.slot[at % M]} : at > 0 - M /\ p.target = sn}

-----------------------------------------------------------------------------
(* Behaviour.                                                              *)

NewTrack == [enabled |-> TRUE, reSync |-> TRUE, lastSN |-> 0, offset |-> 0,
             ssrc |-> None, begun |-> FALSE, layer |-> 0, target |-> 0,
             tcur |-> 1, ttgt |-> 1]

PathInit ==
  /\ kind \in {"simple", "simulcast"}
  /\ \E g \in Leftover : buf = [l \in Layer |-> NewBuffer(g)]
  /\ queue = [l \in Layer |-> <<>>]
  /\ track = NewTrack /\ seqr = NewSequencer /\ rtx = None
  /\ came = [l \in Layer |-> {}] /\ stored = [l \in Layer |-> {}]
  /\ first = [l \in Layer |-> None]
  /\ top = [l \in Layer |-> None] /\ spent = [l \in Layer |-> {}]
  /\ wrote = {} /\ late = FALSE /\ arrivals = 0 /\ changes = 0

Arrivals(l) == IF top[l] = None THEN Start ELSE top[l] - Reach .. top[l] + Reach
Higher(a, b) == IF a = None \/ b > a THEN b ELSE a

\* Write and calc.
Write(l, e) ==
  /\ kind = "simulcast" \/ l = 0
  /\ arrivals < MaxArrivals /\ arrivals' = arrivals + 1
  /\ Len(queue[l]) < Lag
  /\ e \in Arrivals(l)
  /\ buf' = [buf EXCEPT ![l] = Calc(@, e)]
  /\ queue' = IF Refuses(buf[l].bucket, e) THEN queue
              ELSE [queue EXCEPT ![l] = Append(@, [of |-> e,
                      head |-> e % W = Count(buf[l], e).max])]
  /\ spent' = IF Refuses(buf[l].bucket, e) THEN spent
              ELSE [spent EXCEPT ![l] = @ \cup Spent(Count(buf[l], e).nacks)
                                          \cup Misfiled(buf[l], e) \cup Overfull(buf[l], e)]
  /\ came' = [came EXCEPT ![l] = @ \cup {e}]
  /\ stored' = IF Refuses(buf[l].bucket, e) THEN stored
               ELSE [stored EXCEPT ![l] = @ \cup {e}]
  /\ first' = [first EXCEPT ![l] = IF @ = None THEN e ELSE @]
  /\ top' = [top EXCEPT ![l] = Higher(@, e)]
  /\ UNCHANGED <<kind, track, seqr, rtx, wrote, late, changes>>

\* ReadExtended, in the writer of a layer.
Take(l) ==
  /\ queue[l] # <<>>
  /\ queue' = [queue EXCEPT ![l] = Tail(@)]
  /\ UNCHANGED <<kind, buf, rtx, came, stored, first, top, spent, arrivals, changes>>

\* A pending switch ends when the target layer's writer has a key frame.
Switched(l, e) ==
  IF l = track.target /\ Key(e) THEN [track EXCEPT !.layer = l] ELSE track

\* The packet is passed over: muted, or not in sync and no key frame, or of
\* another layer.
WaitsForKey(t, e) == t.reSync /\ ~Key(e)
Skip(l) ==
  /\ Take(l)
  /\ LET e == queue[l][1].of
         t == Switched(l, e)
     IN  /\ ~t.enabled \/ t.layer # l \/ WaitsForKey(t, e)
         /\ track' = t
  /\ UNCHANGED <<seqr, wrote, late>>

\* The numbers sent that a subscriber may still ask for.
Recent(s, S) == {p \in S : Sub(s.head, p.target) < M - 1}

\* The packet goes out: renumbered, and noted in the sequencer.
Forward(l, q, t) ==
  LET target == Sub(q.of, t.offset)
      s      == Sequence(seqr, q.of, target, l, q.head)
  IN  /\ track' = IF q.head THEN [t EXCEPT !.lastSN = target] ELSE t
      /\ seqr' = s
      /\ late' = (late \/ ~q.head)
      /\ wrote' = Recent(s, {p \in wrote : p.target # target}
                             \cup {[target |-> target, of |-> q.of, layer |-> l]})

\* writeSimpleRTP: a track that is synced again goes on from its last number.
WriteSimple ==
  /\ kind = "simple" /\ Take(0)
  /\ LET q == queue[0][1]
         t == [track EXCEPT !.reSync = FALSE, !.ssrc = 0,
                 !.offset = IF track.reSync /\ track.lastSN # 0
                            THEN Sub(q.of, track.lastSN + 1) ELSE @]
     IN  /\ track.enabled /\ ~WaitsForKey(track, q.of)
         /\ Forward(0, q, t)

\* The source of a simulcast track at a packet: numbers go on from the last
\* one when the layer is another than before, except with the first packet.
Source(t, l, e) ==
  IF t.begun /\ t.ssrc # l
  THEN [t EXCEPT !.reSync = FALSE, !.ssrc = l, !.offset = Sub(e, t.lastSN + 1)]
  ELSE IF ~t.begun THEN [t EXCEPT !.reSync = FALSE, !.lastSN = e % W]
  ELSE [t EXCEPT !.reSync = FALSE]

\* setVP8TemporalLayer: between two layers every packet passes.
Drops(t, e)  == t.tcur = t.ttgt /\ Tid(e) > t.tcur
Reached(t, e) == IF Tid(e) <= t.ttgt THEN [t EXCEPT !.tcur = t.ttgt] ELSE t

\* writeSimulcastRTP, of a packet the temporal layer keeps or drops.
WriteSimulcast(l) ==
  /\ kind = "simulcast" /\ Take(l)
  /\ LET q  == queue[l][1]
         t0 == Switched(l, q.of)
         t  == Source(t0, l, q.of)
     IN  /\ t0.enabled /\ t0.layer = l /\ ~WaitsForKey(t0, q.of)
         /\ ~Drops(t, q.of)
         /\ Forward(l, q, [Reached(t, q.of) EXCEPT !.begun = TRUE])

DropTemporal(l) ==
  /\ kind = "simulcast" /\ Take(l)
  /\ LET q  == queue[l][1]
         t0 == Switched(l, q.of)
         t  == Source(t0, l, q.of)
     IN  /\ t0.enabled /\ t0.layer = l /\ ~WaitsForKey(t0, q.of)
         /\ Drops(t, q.of)
         /\ track' = [t EXCEPT !.offset = Sub(@, W - 1)]
         /\ late' = (late \/ ~q.head)
  /\ UNCHANGED <<seqr, wrote>>

Change(t) ==
  /\ changes < MaxChanges /\ changes' = changes + 1 /\ track' = t
  /\ UNCHANGED <<kind, buf, queue, seqr, rtx, came, stored, first, top, spent,
                 wrote, late, arrivals>>

Mute   == track.enabled /\ Change([track EXCEPT !.enabled = FALSE, !.reSync = TRUE])
Unmute == ~track.enabled /\ Change([track EXCEPT !.enabled = TRUE])

SwitchSpatialLayer(l) ==
  /\ kind = "simulcast" /\ track.layer = track.target /\ track.layer # l
  /\ Change([track EXCEPT !.target = l])

SwitchTemporalLayer(i) ==
  /\ kind = "simulcast" /\ track.tcur = track.ttgt /\ track.ttgt # i
  /\ Change([track EXCEPT !.ttgt = i])

\* A subscriber's NACK: what the sequencer finds is given to the worker pool,
\* which looks for the packet later.
Nack(sn) ==
  /\ rtx = None /\ track.enabled /\ track.ssrc # None
  /\ rtx' \in AnswersTo(seqr, sn)
  /\ UNCHANGED <<kind, buf, queue, track, seqr, came, stored, first, top, spent,
                 wrote, late, arrivals, changes>>

RetransmitPackets ==
  /\ rtx # None /\ rtx' = None
  /\ UNCHANGED <<kind, buf, queue, track, seqr, came, stored, first, top, spent,
                 wrote, late, arrivals, changes>>

PathNext ==
  \/ \E l \in Layer : \/ \E e \in Ext : Write(l, e)
                      \/ Skip(l)
                      \/ WriteSimulcast(l)
                      \/ DropTemporal(l)
                      \/ SwitchSpatialLayer(l)
  \/ WriteSimple
  \/ Mute
  \/ Unmute
  \/ \E i \in 0 .. 1 : SwitchTemporalLayer(i)
  \/ \E sn \in Word : Nack(sn)
  \/ RetransmitPackets

PathSpec == PathInit /\ [][PathNext]_pathVars

-----------------------------------------------------------------------------
(* Properties.                                                             *)

\* Every packet that arrived and is among the last N numbers is found under
\* its number, and what is found under a number is such a packet: no gap, late
\* packet or wrap moves or overwrites one that is still wanted.  Packets the
\* queues hold refer to this memory.  A packet whose number its slot's memory
\* happens to hold is taken for a repeated one (bucket.go:135): a number the
\* pooled memory held, or that of the last packet the slot took, whole turns of
\* words and slots ago.
OlderTurn(l, e) ==
  \E d \in stored[l] : /\ d < e /\ (e - d) % W = 0 /\ (e - d) % N = 0
                       /\ \A c \in stored[l] : d < c /\ c < e => (e - c) % N # 0
FindsTheWindow(l) ==
  \A sn \in Word : LET p == GetPacket(buf[l].bucket, sn)
                   IN  p # None => /\ p \in came[l] /\ p % W = sn
                                   /\ top[l] - p \in 0 .. N - 1
StoresTheWindow ==
  \A l \in Layer : top[l] # None =>
    /\ \A e \in came[l] : top[l] - e < N /\ e % W \notin Leftover /\ ~OlderTurn(l, e)
                            => GetPacket(buf[l].bucket, e % W) = e
    /\ FindsTheWindow(l)

\* The number of every packet missing between the first and the highest one is
\* in the list, until it was asked for NackTimes times; and a packet listed under
\* its own number has not arrived.  A gap that crosses the middle or the end of
\* the words is listed under other numbers (buffer.go:290), and a list of
\* NackCache entries takes a new one by losing its first and doubling its last
\* (nack.go:54).
NacksTheMissing ==
  \A l \in Layer : top[l] # None /\ top[l] < W * W =>
    LET nacks == buf[l].nacks
    IN  /\ \A e \in first[l] .. top[l] : e \in came[l] \cup spent[l] \/ Listed(nacks, e)
        /\ \A i \in DOMAIN nacks :
             nacks[i].sn = nacks[i].of => nacks[i].of \notin came[l] \ spent[l]

\* A retransmission, whenever the pool comes to it, carries the packet that
\* was sent under that number, as long as the publisher has not sent W more;
\* and while no packet came late, whatever was sent among the last M - 1
\* numbers is found under its number.
Carries(p) ==
  p.of # None /\ top[p.layer] - p.of < W
    => GetPacket(buf[p.layer].bucket, p.source) \in {p.of, None}
AnswersCarry ==
  /\ \A i \in 0 .. M - 1 : Carries(seqr.slot[i])
  /\ rtx # None => Carries(rtx)
Retransmits ==
  /\ AnswersCarry
  /\ ~late => \A p \in wrote : top[p.layer] - p.of < W => \E a \in AnswersTo(seqr, p.target) :
                                a.of = p.of /\ a.layer = p.layer
=============================================================================
