--------------------------- MODULE TransportFeedback ---------------------------
(***************************************************************************)
(* The transport-wide congestion control responder of a router: arrivals   *)
(* of numbered packets are collected and, now and then, reported to the    *)
(* sender in a feedback packet of status chunks and time deltas.  One      *)
(* action, Push; building the report is a fold over the collected packets. *)
(*                                                                         *)
(* Times are in ticks of 250 us and never 0.  Numbers have FeedbackWord    *)
(* values, a mixed chunk ChunkSymbols one-bit symbols; these constants and *)
(* the thresholds are the code's, scaled down together.                    *)
(***************************************************************************)
EXTENDS Integers, Sequences, SequencesExt

CONSTANTS
  FeedbackWord,     \* 2^16 in the code
  ChunkSymbols,     \* 14
  MinCollected,     \* 20
  MaxCollected,     \* 100
  MaxSmallDelta,    \* 255 ticks; the reference time's unit is one more
  ReportAfter,      \* tccReportDelta
  ReportAfterMark,  \* tccReportDeltaAfterMark
  FirstNumbers,     \* first packet numbers to try
  MaxGap, MaxLate,  \* longest loss, longest delay in packets
  MaxPushes,        \* bound on the packets
  MaxOdd            \* bound on the packets that come late, twice, after a gap or marked

ASSUME FeedbackAssumption ==
  /\ FeedbackWord \in Nat /\ FeedbackWord % 16 = 0
  /\ ChunkSymbols \in Nat \ {0} /\ ChunkSymbols % 2 = 0
  /\ FirstNumbers \subseteq 1 .. FeedbackWord
  \* Loss and delay stay within the 4095 numbers in which a wrap is seen.
  /\ MaxGap \in Nat /\ MaxLate \in Nat /\ MaxGap + MaxLate + 1 < FeedbackWord \div 16

VARIABLES
  extInfo, lastReport, cycles, lastExtSN, lastSn,   \* the responder's fields
  payload,    \* its buffer: header and chunks of the last report
  feedback,   \* the report of the last Push, or NoFeedback
  clock, head,      \* time and number of the last new packet that was sent
  gaps,       \* numbers that were skipped and may come late
  arrived,    \* history: what arrived, [number, time, newest number before]
  pushes, odd

feedbackVars == <<extInfo, lastReport, cycles, lastExtSN, lastSn, payload, feedback,
                  clock, head, gaps, arrived, pushes, odd>>

NoFeedback == [packets |-> <<>>]
Unreported == [base |-> 0, count |-> 0, ref |-> 0, chunks |-> <<>>]

FeedbackInit ==
  /\ extInfo = <<>> /\ lastReport = 0 /\ cycles = 0 /\ lastExtSN = 0 /\ lastSn = 0
  /\ payload = Unreported /\ feedback = NoFeedback
  /\ clock = 1 /\ \E n \in FirstNumbers : head = n - 1
  /\ gaps = {} /\ arrived = {} /\ pushes = 0 /\ odd = 0

-----------------------------------------------------------------------------
(* Collecting: the packets of a report, with an entry for each hole.       *)

Hole(n) == [sn |-> n, ts |-> 0]

MaxPackets(info) == (Len(info) * 12) \div 10

\* Mutant: the holes since the last report are left out.
CollectFromHere(acc, entry) ==
  IF acc.full \/ entry.sn < acc.last
  THEN acc
  ELSE LET holes == IF acc.list = <<>> \/ acc.last = entry.sn THEN <<>>
                    ELSE [k \in 1 .. entry.sn - acc.last - 1 |-> Hole(acc.last + k)]
           list  == Append(acc.list \o holes, entry)
       IN [list |-> list, last |-> entry.sn, used |-> acc.used + 1,
           max |-> acc.max, full |-> Len(list) >= acc.max]

\* Entries older than the last report are skipped, and not counted.
Collect(acc, entry) ==
  IF acc.full \/ entry.sn < acc.last
  THEN acc
  ELSE LET holes == IF acc.last \in {0, entry.sn} THEN <<>>
                    ELSE [k \in 1 .. entry.sn - acc.last - 1 |-> Hole(acc.last + k)]
           list  == Append(acc.list \o holes, entry)
       IN [list |-> list, last |-> entry.sn, used |-> acc.used + 1,
           max |-> acc.max, full |-> Len(list) >= acc.max]

Collected(sorted) ==
  FoldLeft(Collect, [list |-> <<>>, last |-> lastExtSN, used |-> 0,
                     max |-> MaxPackets(sorted), full |-> FALSE], sorted)

-----------------------------------------------------------------------------
(* Encoding: a status per packet in run-length and mixed chunks, a delta   *)
(* per received packet.                                                    *)

NotReceived == 0
SmallDelta  == 1
LargeDelta  == 2
NoStatus    == 3       \* the code's ReceivedWithoutDelta
TwoBit      == ChunkSymbols \div 2

Run(status, n)   == [run |-> n, symbols |-> <<status>>]
Mixed(symbols)   == [run |-> 0, symbols |-> symbols]
MaxStatus(list)  == IF LargeDelta \in ToSet(list) THEN LargeDelta
                    ELSE IF SmallDelta \in ToSet(list) THEN SmallDelta ELSE NotReceived
\* What the encoder remembers of the statuses it has yet to write.
Remember(acc, list) ==
  [acc EXCEPT !.list = list, !.max = MaxStatus(list),
              !.last = IF list = <<>> THEN NoStatus ELSE Last(list),
              !.same = \A i \in DOMAIN list : list[i] = list[1]]

\* The first received packet sets the reference time; its delta is small.
Timed(acc, pkt) ==
  LET ref  == IF acc.ref = 0 THEN pkt.ts \div (MaxSmallDelta + 1) + 1 ELSE acc.ref
      from == IF acc.ref = 0 THEN (ref - 1) * (MaxSmallDelta + 1) ELSE acc.time
  IN [acc EXCEPT !.ref = ref, !.time = pkt.ts, !.deltas = Append(@, pkt.ts - from)]

\* A long run ends with a chunk, a short one becomes the start of a mix.
EndRun(acc, status) ==
  IF ~acc.same \/ status = acc.last \/ acc.last = NoStatus
  THEN acc
  ELSE IF Len(acc.list) > TwoBit
       THEN Remember([acc EXCEPT !.chunks = Append(@, Run(acc.last, Len(acc.list)))], <<>>)
       ELSE [acc EXCEPT !.same = FALSE]

AddStatus(acc, status) ==
  [acc EXCEPT !.list = Append(@, status), !.last = status,
              !.max = IF status > @ THEN status ELSE @]

\* A mix is written when its chunk is full.
WriteFull(acc) ==
  LET n == IF acc.max = LargeDelta THEN TwoBit ELSE ChunkSymbols
  IN IF acc.same \/ Len(acc.list) < n
     THEN acc
     ELSE Remember([acc EXCEPT !.chunks = Append(@, Mixed(SubSeq(acc.list, 1, n)))],
                   SubSeq(acc.list, n + 1, Len(acc.list)))

Encode(acc, pkt) ==
  LET timed  == IF pkt.ts = 0 THEN acc ELSE Timed(acc, pkt)
      status == IF pkt.ts = 0 THEN NotReceived
                ELSE IF Last(timed.deltas) \in 0 .. MaxSmallDelta THEN SmallDelta
                ELSE LargeDelta
  IN WriteFull(AddStatus(EndRun(timed, status), status))

\* The rest: popping from the list while counting up to its length leaves the
\* second half of a mix unwritten.
WriteRest(acc) ==
  IF acc.list = <<>> THEN acc.chunks
  ELSE IF acc.same THEN Append(acc.chunks, Run(acc.last, Len(acc.list)))
  ELSE Append(acc.chunks, Mixed(SubSeq(acc.list, 1, (Len(acc.list) + 1) \div 2)))

Encoded(packets) ==
  FoldLeft(Encode, [ref |-> 0, time |-> 0, deltas |-> <<>>, chunks |-> <<>>, list |-> <<>>,
                    last |-> NoStatus, max |-> NotReceived, same |-> TRUE], packets)

\* The header is written with the first received packet; a report of nothing
\* but skipped entries repeats the payload of the one before.
Payload(packets) ==
  IF packets = <<>> THEN payload
  ELSE LET acc == Encoded(packets)
       IN [base |-> packets[1].sn % FeedbackWord, count |-> Len(packets),
           ref |-> acc.ref - 1, chunks |-> WriteRest(acc)]

-----------------------------------------------------------------------------
\* Push of the packet with true number n at time t.
Push(n, t, marker) ==
  LET sn      == n % FeedbackWord
      wraps   == sn < FeedbackWord \div 16 - 1 /\ lastSn > FeedbackWord - FeedbackWord \div 16
      turn    == IF wraps THEN cycles + FeedbackWord ELSE cycles
      info    == Append(extInfo, [sn |-> turn + sn, ts |-> t])
      started == IF lastReport = 0 THEN t ELSE lastReport
      since   == t - started
      due     == /\ Len(info) > MinCollected
                 /\ \/ since >= ReportAfter
                    \/ Len(info) > MaxCollected
                    \/ marker /\ since >= ReportAfterMark
      sorted  == SortSeq(info, LAMBDA a, b : a.sn < b.sn)
      taken   == Collected(sorted)
  IN /\ cycles' = turn /\ lastSn' = sn
     /\ IF due
        THEN /\ extInfo' = SubSeq(sorted, taken.used + 1, Len(sorted))
             /\ lastExtSN' = taken.last
             /\ payload' = Payload(taken.list)
             /\ feedback' = [packets |-> taken.list, after |-> lastExtSN, payload |-> payload',
                             deltas |-> Encoded(taken.list).deltas]
             /\ lastReport' = t
        ELSE /\ extInfo' = info /\ lastReport' = started
             /\ feedback' = NoFeedback
             /\ UNCHANGED <<lastExtSN, payload>>
     /\ arrived' = arrived \cup {[number |-> n, time |-> t, newest |-> head]}

\* The network: the next packet in time, or an odd one - after a pause, after a
\* gap, out of a gap, a second time, or one that ends a frame.
Arrive(n, pause, marker, isOdd) ==
  /\ pushes < MaxPushes /\ odd + isOdd <= MaxOdd
  /\ pushes' = pushes + 1 /\ odd' = odd + isOdd
  /\ clock' = clock + pause
  /\ Push(n, clock', marker)

NextPacket ==
  /\ Arrive(head + 1, 1, FALSE, 0)
  /\ head' = head + 1 /\ UNCHANGED gaps

LatePause == MaxSmallDelta + 2
OddPacket ==
  /\ \E pause \in {1, LatePause}, marker \in BOOLEAN :
       /\ pause > 1 \/ marker
       /\ Arrive(head + 1, pause, marker, 1)
  /\ head' = head + 1 /\ UNCHANGED gaps

AfterGap ==
  /\ \E k \in 1 .. MaxGap : /\ Arrive(head + 1 + k, 1, FALSE, 1)
                            /\ head' = head + 1 + k
                            /\ gaps' = gaps \cup (head + 1 .. head + k)

OutOfGap ==
  /\ \E n \in {m \in gaps : m >= head - MaxLate} : Arrive(n, 1, FALSE, 1) 
                                             /\ gaps' = gaps \ {n}
  /\ UNCHANGED head

SecondTime ==
  /\ arrived # {} /\ Arrive(head, 1, FALSE, 1)
  /\ UNCHANGED <<head, gaps>>

FeedbackNext == NextPacket \/ OddPacket \/ AfterGap \/ OutOfGap \/ SecondTime

-----------------------------------------------------------------------------
(* What the sender makes of a report, by the draft the code names.         *)

ChunkStatuses(chunk) ==
  IF chunk.run > 0 THEN [i \in 1 .. chunk.run |-> chunk.symbols[1]] ELSE chunk.symbols
Statuses(report) == FlattenSeq([i \in DOMAIN report.chunks |-> ChunkStatuses(report.chunks[i])])

\* The number of a position: the one near the last packet sent.
NumberAt(report, i) ==
  CHOOSE n \in head - FeedbackWord \div 2 .. head + FeedbackWord \div 2 - 1 :
    n % FeedbackWord = (report.base + i - 1) % FeedbackWord

\* The arrival time of a position: the reference and the deltas so far.
TimeAt(f, i) ==
  LET received == Len(SelectSeq(SubSeq(Statuses(f.payload), 1, i), LAMBDA s : s # NotReceived))
  IN f.payload.ref * (MaxSmallDelta + 1)
       + FoldLeft(LAMBDA a, b : a + b, 0, SubSeq(f.deltas, 1, received))

\* Positions before the first packet that is listed twice.
BeforeRepeat(packets) ==
  {i \in DOMAIN packets : \A j \in 2 .. i : packets[j].sn # packets[j - 1].sn}

\* A packet sent before the numbers wrapped that came after: the code takes it
\* for one of the next turn.
Strayed(a) == a.number \div FeedbackWord < a.newest \div FeedbackWord

\* Every report tells the sender of each packet it covers whether it arrived,
\* and when, and none is left out between two reports: through losses, late
\* packets and numbers that wrap.
\* It is exact up to the half of a last mixed chunk that the code leaves out, up
\* to a packet that came twice; a packet late across a wrap confuses the reports
\* that follow, and one of nothing but late packets has nothing to tell.
FeedbackTells ==
  feedback # NoFeedback /\ feedback.packets # <<>> /\ (\A a \in arrived : ~Strayed(a)) =>
    /\ feedback.after > 0 => feedback.packets[1].sn <= feedback.after + 1
    /\ \A i \in DOMAIN Statuses(feedback.payload) \cap BeforeRepeat(feedback.packets) :
         LET came == {a \in arrived : a.number = NumberAt(feedback.payload, i)}
         IN IF Statuses(feedback.payload)[i] = NotReceived
            THEN came = {}
            ELSE \E a \in came : a.time = TimeAt(feedback, i)
=============================================================================
