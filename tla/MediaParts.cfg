\* Packets: streams that begin two packets before the word wraps, buckets of three slots, a sequencer of four.
\* Feedback: numbers of 7 bits, reports of 4 to 8 packets, 12 packets of which 3 odd, from 1 and across a wrap.
\* Reports: words of 3, 6 and 2 bits, a probe of three packets, streams that do and do not wrap in it.
\* Records: a ring of two files, two sessions, two faults, 6 ticks.
\* Client: a pipeline that may be replaced twice, two candidates to publish and one to subscribe.
\* Buffers: two SSRCs, three buffers and slabs, three packets, three calls of Close.
SPECIFICATION Spec
CONSTANTS
  W = 8
  N = 3
  M = 4
  NackTimes = 1
  NackCache = 3
  Layer = {0, 1}
  Start = {6}
  Leftover = {0}
  Reach = 3
  Lag = 1
  MaxArrivals = 5
  MaxChanges = 2
  None = None
  FeedbackWord = 128
  ChunkSymbols = 6
  MinCollected = 3
  MaxCollected = 7
  MaxSmallDelta = 3
  ReportAfter = 8
  ReportAfterMark = 4
  FirstNumbers = {1, 122}
  MaxGap = 2
  MaxLate = 4
  MaxPushes = 12
  MaxOdd = 3
  ReportWord = 8
  Fraction = 4
  Probe = 3
  FirstPackets = {1, 6}
  MaxSkip = 3
  MaxBehind = 3
  MaxReceived = 7
  MaxRecordFiles = 2
  MaxTime = 6
  MaxSessions = 2
  MaxFaults = 2
  PubCandidates = {c1, c2}
  SubCandidates = {c3}
  MaxPipelines = 3
  MaxEvents = 4
  Ssrc = {x, y}
  MaxBuffers = 3
  MaxWritten = 3
  MaxSlabs = 3
  MaxCloses = 3
INVARIANTS StoresTheWindow     ClosedStops CandidatesArrive PacketsKept
 
CHECK_DEADLOCK FALSE
