------------------------------ MODULE AudioLevels ------------------------------
(***************************************************************************)
(* The audio observer of an SFU session: readers of RTP packets count the  *)
(* loud packets of each audio stream while routers add and remove streams, *)
(* and once per interval the session works out who speaks and tells the    *)
(* peers' API channels when the list has changed.  A peer may publish two  *)
(* audio tracks in one stream: its ID is then listed twice.                *)
(***************************************************************************)
EXTENDS Naturals, Sequences, FiniteSets, SequencesExt

CONSTANTS AudioStream,   \* stream IDs
          Threshold,     \* loudest -dBov value that is not speech
          Levels,        \* levels to try, in -dBov
          Expected,      \* loud packets that make a speaker
          MaxObserved,   \* bound on a stream's loud packets in an interval
          MaxListed,     \* bound on the listed streams
          MaxIntervals

ASSUME AudioAssumption ==
  /\ Threshold \in Nat /\ Levels \subseteq Nat /\ Expected \in Nat

VARIABLES
  streams,     \* the listed streams, [id, sum, total] each
  previous,    \* the speakers of the last interval
  told,        \* the last list sent to the peers
  heard,       \* history: [AudioStream -> loud packets in this interval]
  spoke,       \* history: the loud packets of each speaker of the last interval
  twice,       \* history: some ID was listed twice in the interval
  intervals

audioVars == <<streams, previous, told, heard, spoke, twice, intervals>>

AudioInit ==
  /\ streams = <<>> /\ previous = <<>> /\ told = <<>>
  /\ heard = [id \in AudioStream |-> 0] /\ spoke = <<>> /\ twice = FALSE /\ intervals = 0

Ids(list) == {list[i].id : i \in DOMAIN list}
Listed(id) == {i \in DOMAIN streams : streams[i].id = id}
First(S) == CHOOSE i \in S : \A j \in S : i <= j
Twice(list) == Cardinality(Ids(list)) < Len(list)

-----------------------------------------------------------------------------
AddStream(id) ==
  /\ Len(streams) < MaxListed
  /\ streams' = Append(streams, [id |-> id, sum |-> 0, total |-> 0])
  /\ twice' = (twice \/ Twice(streams'))
  /\ UNCHANGED <<previous, told, heard, spoke, intervals>>

\* The first entry of the ID goes, the last takes its place; what was counted
\* in it is lost.
RemoveStream(id) ==
  /\ Listed(id) # {}
  /\ LET i == First(Listed(id))
     IN streams' = Front([streams EXCEPT ![i] = Last(streams)])
  /\ heard' = [heard EXCEPT ![id] = 0]
  /\ UNCHANGED <<previous, told, spoke, twice, intervals>>

\* A packet of a stream; only loud ones count.
Observe(id, level) ==
  /\ Listed(id) # {} /\ heard[id] < MaxObserved
  /\ \A i \in Listed(id) : streams[i].total < MaxObserved
  /\ IF level <= Threshold
     THEN /\ streams' = [streams EXCEPT ![First(Listed(id))].sum = @ + level,
                                        ![First(Listed(id))].total = @ + 1]
          /\ heard' = [heard EXCEPT ![id] = @ + 1]
     ELSE UNCHANGED <<streams, heard>>
  /\ UNCHANGED <<previous, told, spoke, twice, intervals>>

\* Calc sorts in place; the order of equals is the sort's.
Before(a, b) == a.total > b.total \/ (a.total = b.total /\ a.sum < b.sum)
Sorted(list) ==
  {s \in SetToSeqs(DOMAIN list) :
     \A i, j \in DOMAIN s : i < j => ~Before(list[s[j]], list[s[i]])}

\* Mutant: the counts survive the interval.
CountsKept(list) == list
Reset(list)      == [i \in DOMAIN list |-> [list[i] EXCEPT !.sum = 0, !.total = 0]]

\* audioLevelObserver, once per interval: Calc, and a message if the list is new.
\* The loud streams come first in the sorted list.
Calc ==
  /\ intervals < MaxIntervals /\ intervals' = intervals + 1
  /\ \E order \in Sorted(streams) :
       LET sorted   == [i \in DOMAIN order |-> streams[order[i]]]
           loud     == {i \in DOMAIN sorted : sorted[i].total >= Expected}
           speakers == [i \in 1 .. Cardinality(loud) |-> sorted[i].id]
       IN /\ streams' = Reset(sorted)
          /\ previous' = speakers
          /\ told' = IF speakers = previous THEN told ELSE speakers
  /\ spoke' = IF twice THEN <<>>
              ELSE [id \in {i \in Ids(streams) : heard[i] >= Expected} |-> heard[id]]
  /\ heard' = [id \in AudioStream |-> 0]
  /\ twice' = Twice(streams)

AudioNext ==
  \/ \E id \in AudioStream : AddStream(id) \/ RemoveStream(id)
  \/ \E id \in AudioStream, level \in Levels : Observe(id, level)
  \/ Calc

AudioSpec == AudioInit /\ [][AudioNext]_audioVars

-----------------------------------------------------------------------------
\* What the peers were last told is who spoke, who spoke most first.
TellsSpeakers ==
  /\ ToSet(told') = DOMAIN spoke'
  /\ \A i, j \in DOMAIN told' : i < j => spoke'[told'[i]] >= spoke'[told'[j]]

\* At the end of an interval the list that the peers were last sent names the
\* streams that were loud often enough in that interval and no other, the one
\* that spoke most first: through streams that come and go, that take the place
\* of others in the list, and messages that are saved because nothing changed.
\* A stream listed twice may have its packets counted in two places.
SpeakersTold == [][Calc /\ ~twice => TellsSpeakers]_audioVars
=============================================================================
