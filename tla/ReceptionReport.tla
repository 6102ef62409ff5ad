--------------------------- MODULE ReceptionReport ---------------------------
(***************************************************************************)
(* What a buffer of the SFU tells the publisher of the packets it got: the  *)
(* RTCP receiver report made at least a second after the last one, and the  *)
(* bit rate it asks for with it.                                            *)
(*                                                                         *)
(* A packet is its true number.  Words of 16, 32 and 8 bits are scaled to   *)
(* ReportWord, its square and Fraction; repeated packets are refused by the *)
(* bucket and not counted (PacketPath).                                     *)
(***************************************************************************)
EXTENDS Integers, FiniteSets

CONSTANTS ReportWord,   \* 2^16
          Fraction,     \* 2^8
          Probe,        \* packets during which an older one moves the base: 25
          FirstPackets, \* the numbers a stream may begin with
          MaxSkip,      \* packets lost in a row
          MaxBehind,    \* how late a packet may be
          MaxReceived   \* packets in a behaviour

\* The counts of packets, which have the width of Long, do not wrap.
ASSUME ReportAssumption ==
  /\ {Fraction, MaxSkip, Probe, MaxReceived} \subseteq Nat \ {0} /\ MaxBehind \in Nat
  /\ ReportWord \in Nat /\ ReportWord % 2 = 0
  /\ ReportWord > 2 * MaxSkip /\ ReportWord > 2 * MaxBehind
  /\ FirstPackets \subseteq 0 .. ReportWord - 1
  /\ MaxReceived < ReportWord * ReportWord

VARIABLES
  stats,   \* the buffer: baseSN, maxSeqNo, cycles, the counts
  rtcp,    \* the last packets sent to the publisher
  \* history
  packets, \* received
  before,  \* received when the last report was made
  tardy,   \* a packet came after a higher one since the last report
  misbased \* the base is not the first packet's number

reportVars == <<stats, rtcp, packets, before, tardy, misbased>>

Long == ReportWord * ReportWord
Oldest(S) == CHOOSE e \in S : \A f \in S : e <= f
Newest(S) == CHOOSE e \in S : \A f \in S : e >= f

NoReport == [report |-> [lost |-> 0, fraction |-> 0, highest |-> 0], rate |-> "none"]

ReportInit ==
  /\ stats = [baseSN |-> 0, maxSeqNo |-> 0, cycles |-> 0, packetCount |-> 0,
              lastExpected |-> 0, lastReceived |-> 0]
  /\ rtcp = NoReport /\ packets = {} /\ before = {} /\ tardy = FALSE /\ misbased = FALSE

-----------------------------------------------------------------------------
Based(s, sn) == IF s.packetCount < Probe /\ sn < s.baseSN THEN sn ELSE s.baseSN

\* The probe's packets are the first ones counted.
CountPacket(s, sn) ==
  IF s.packetCount = 0
  THEN [s EXCEPT !.baseSN = sn, !.maxSeqNo = sn, !.packetCount = 1]
  ELSE LET newer == (sn - s.maxSeqNo) % ReportWord < ReportWord \div 2
       IN  [s EXCEPT !.baseSN = Based(s, sn),
                     !.maxSeqNo = IF newer THEN sn ELSE @,
                     !.cycles = IF newer /\ sn < s.maxSeqNo THEN (@ + ReportWord) % Long ELSE @,
                     !.packetCount = @ + 1]

Expected(s) == (s.cycles + s.maxSeqNo - s.baseSN + 1) % Long
LostInterval(s) == (Expected(s) - s.lastExpected - (s.packetCount - s.lastReceived)) % Long
ExpectedInterval(s) == (Expected(s) - s.lastExpected) % Long

BuildREMBPacket(lost, of) ==
  IF 50 * lost < of THEN "up" ELSE IF 10 * lost > of THEN "cut" ELSE "keep"

BuildReceptionReport(s, lost, of) ==
  [lost     |-> IF s.packetCount < Expected(s) THEN Expected(s) - s.packetCount ELSE 0,
   fraction |-> IF of # 0 /\ lost > 0
                THEN (((lost * Fraction) % Long) \div of) % Fraction ELSE 0,
   highest  |-> s.cycles + s.maxSeqNo]

\* The rate is asked for where the publisher has no transport feedback.
GetRTCP(s) ==
  LET lost == LostInterval(s)
      of   == ExpectedInterval(s)
  IN  [report |-> BuildReceptionReport(s, lost, of), rate |-> BuildREMBPacket(lost, of)]

ReportedButExpected(s) == [s EXCEPT !.lastReceived = s.packetCount]

Reported(s) == [s EXCEPT !.lastExpected = Expected(s), !.lastReceived = s.packetCount]

\* A packet, which may find a report due; the first one never does.
Receive(e, due) ==
  /\ e \notin packets
  /\ packets' = packets \union {e}
  /\ LET s     == CountPacket(stats, e % ReportWord)
         cycle == e \div ReportWord
     IN  /\ misbased' = \/ misbased
                        \/ /\ packets # {}
                           /\ LET least == Oldest(packets)
                                  probe == stats.packetCount < Probe
                              IN  \/ e < least /\ (~probe \/ cycle # least \div ReportWord)
                                  \/ probe /\ cycle > least \div ReportWord
         /\ IF due
            THEN /\ rtcp' = GetRTCP(s) /\ stats' = Reported(s) /\ before' = packets'
                 /\ tardy' = FALSE
            ELSE /\ stats' = s /\ UNCHANGED <<rtcp, before>>
                 /\ tardy' = (tardy \/ (packets # {} /\ e < Newest(packets)))

ReportNext ==
  /\ Cardinality(packets) < MaxReceived
  /\ IF packets = {} THEN \E e \in FirstPackets : Receive(e, FALSE)
     ELSE \E e \in Newest(packets) - MaxBehind .. Newest(packets) + MaxSkip, due \in BOOLEAN :
            Receive(e, due)

ReportSpec == ReportInit /\ [][ReportNext]_reportVars

-----------------------------------------------------------------------------
Missing(S) == Cardinality((Oldest(S) .. Newest(S)) \ S)

\* The numbers of a report: whatever packets are lost or late and across a wrap,
\* each report gives the highest number, the packets missing of all, and the
\* share missing of the interval's, and asks for a lower rate exactly when more
\* than a tenth of the interval's is missing.  Excused are a base that is not
\* the first packet (the number wrapped during the probe, which leaves a base
\* near 0 and some 65000 packets "lost", or an older packet came after it), the
\* interval of a late packet, whose loss is negative and wraps, and what is
\* wider than the words: a stream of 2^32 numbers, an interval that lost 2^24.
ReportGives ==
  before' # before =>
    LET highest == Newest(packets')
        least   == Oldest(packets')
        late == tardy \/ (\E e \in packets' \ packets : e < highest)
        of   == highest - (IF before = {} THEN least - 1 ELSE Newest(before))
        lost == of - Cardinality(packets' \ before)
    IN  /\ rtcp'.report.highest = highest % Long
        /\ ~misbased' /\ highest - least < Long - 1 =>
             rtcp'.report.lost = Missing(packets')
        /\ ~misbased' /\ ~late /\ of < Long =>
             /\ lost * Fraction < Long =>
                  rtcp'.report.fraction = (lost * Fraction) \div of
             /\ (rtcp'.rate = "cut") <=> (10 * lost > of)

ReportTells == [][ReportGives]_reportVars
=============================================================================
