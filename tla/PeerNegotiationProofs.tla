----------------------- MODULE PeerNegotiationProofs -----------------------
(***************************************************************************)
(* The safety properties of PeerNegotiation for every bound on the calls.  *)
(* The inductive invariant adds to the properties that an exchange under   *)
(* way is marked in remoteAnswerPending even when the peer connection has  *)
(* closed, and that what travels is the last set of tracks offered.        *)
(***************************************************************************)
EXTENDS PeerNegotiation, SequenceTheorems, TLAPS

\* remoteAnswerPending follows the signaling state and every exchange.
PendingFollows ==
  /\ Outstanding > 0 => remoteAnswerPending
  /\ pcState # "closed" => (remoteAnswerPending <=> pcState = "have-local-offer")

\* What travels is the last set offered, which both bounds of an agreement hold.
TravelsLast ==
  /\ agreed <= offered /\ offered <= wanted
  /\ offers # <<>> => Head(offers) = offered
  /\ answers # <<>> => Head(answers) = offered

ClosedEndsStream == closed => ~stream /\ pcState = "closed"

IInv ==
  /\ TypeOK /\ OneExchange /\ PendingFollows /\ MarkHasReader
  /\ NoLostChange /\ PendingHasExchange /\ TravelsLast /\ ClosedEndsStream

\* Length zero and emptiness of a sequence of numbers.
LEMMA LenZero ==
  ASSUME NEW s \in Seq(Nat)
  PROVE  Len(s) \in Nat /\ (Len(s) = 0 <=> s = <<>>)
  BY EmptySeq

\* The head and the tail of a sequence of numbers.
LEMMA HeadTail ==
  ASSUME NEW s \in Seq(Nat), s # <<>>
  PROVE  /\ Head(s) \in Nat /\ Tail(s) \in Seq(Nat)
         /\ Len(s) >= 1 /\ Len(Tail(s)) = Len(s) - 1
         /\ Len(s) = 1 => Tail(s) = <<>>
<1>1. Len(s) \in Nat /\ Len(s) # 0
  BY LenZero
<1>2. /\ Head(s) \in Nat /\ Tail(s) \in Seq(Nat)
      /\ Len(Tail(s)) = Len(s) - 1
  BY HeadTailProperties
<1>3. Len(Tail(s)) = 0 => Tail(s) = <<>>
  <2> DEFINE t == Tail(s)
  <2>1. t \in Seq(Nat)
    BY <1>2
  <2> HIDE DEF t
  <2>2. Len(t) = 0 => t = <<>>
    BY <2>1, LenZero
  <2> QED
    BY <2>2 DEF t
<1> QED
  BY <1>1, <1>2, <1>3

\* Appending to the empty sequence of numbers.
LEMMA AppendToEmpty ==
  ASSUME NEW s \in Seq(Nat), s = <<>>, NEW x \in Nat
  PROVE  /\ Append(s, x) \in Seq(Nat) /\ Len(Append(s, x)) = 1
         /\ Append(s, x) # <<>> /\ Head(Append(s, x)) = x
<1>1. Append(s, x) \in Seq(Nat) /\ Len(Append(s, x)) = Len(s) + 1 /\ Append(s, x)[Len(s) + 1] = x
  BY AppendProperties
<1>2. Len(s) = 0
  BY LenZero
<1>3. Append(s, x) # <<>>
  BY <1>1, <1>2, LenZero
<1> QED
  BY <1>1, <1>2, <1>3

\* Two numbers that add up to at most one.
LEMMA SumOne ==
  ASSUME NEW x \in Nat, NEW y \in Nat, x + y <= 1
  PROVE  (x # 0 => x = 1 /\ y = 0) /\ (y # 0 => y = 1 /\ x = 0)
  OBVIOUS

\* The invariant holds when a peer has joined.
LEMMA InitIInv == Init => IInv
<1> SUFFICES ASSUME Init PROVE IInv
  OBVIOUS
<1> USE DEF Init, Outstanding
<1>0. <<>> \in Seq(Nat) /\ Len(<<>>) = 0
  BY EmptySeq
<1>1. TypeOK
  BY <1>0 DEF TypeOK, PcStates
<1>2. OneExchange /\ PendingFollows /\ PendingHasExchange
  BY <1>0 DEF OneExchange, PendingFollows, PendingHasExchange
<1>3. MarkHasReader /\ NoLostChange /\ TravelsLast /\ ClosedEndsStream
  BY DEF MarkHasReader, NoLostChange, TravelsLast, ClosedEndsStream
<1> QED
  BY <1>1, <1>2, <1>3 DEF IInv

\* The invariant is inductive: one step per action, and the actions that move
\* an offer or an answer treat the sequences first.
LEMMA NextIInv == IInv /\ [Next]_vars => IInv'
<1> SUFFICES ASSUME TypeOK, OneExchange, PendingFollows, MarkHasReader, NoLostChange,
                    PendingHasExchange, TravelsLast, ClosedEndsStream, [Next]_vars
             PROVE  IInv'
  BY DEF IInv
<1>0. /\ Len(offers) \in Nat /\ Len(answers) \in Nat
      /\ Len(offers) = 0 <=> offers = <<>>
      /\ Len(answers) = 0 <=> answers = <<>>
  BY LenZero DEF TypeOK
<1>1. CASE Change
  <2>1. TypeOK'
    BY <1>1 DEF TypeOK, PcStates, Change
  <2>2. OneExchange'
    BY <1>0, <1>1 DEF OneExchange, PendingFollows, Outstanding, Change
  <2>3. PendingFollows'
    BY <1>0, <1>1 DEF PendingFollows, Outstanding, TypeOK, PcStates, Change
  <2>4. MarkHasReader'
    BY <1>1 DEF MarkHasReader, Change
  <2>5. NoLostChange'
    BY <1>1 DEF NoLostChange, TypeOK, MarkHasReader, TravelsLast, Change
  <2>6. PendingHasExchange'
    BY <1>0, <1>1
       DEF PendingHasExchange, PendingFollows, OneExchange, Outstanding, ClosedEndsStream, Change
  <2>7. TravelsLast'
    BY <1>1 DEF TravelsLast, TypeOK, Change
  <2>8. ClosedEndsStream'
    BY <1>1 DEF ClosedEndsStream, Change
  <2> QED
    BY <2>1, <2>2, <2>3, <2>4, <2>5, <2>6, <2>7, <2>8 DEF IInv
<1>2. CASE NoChange
  <2>1. TypeOK'
    BY <1>2 DEF TypeOK, PcStates, NoChange
  <2>2. OneExchange'
    BY <1>0, <1>2 DEF OneExchange, PendingFollows, Outstanding, NoChange
  <2>3. PendingFollows'
    BY <1>0, <1>2 DEF PendingFollows, Outstanding, TypeOK, PcStates, NoChange
  <2>4. MarkHasReader'
    BY <1>2 DEF MarkHasReader, NoChange
  <2>5. NoLostChange'
    BY <1>2 DEF NoLostChange, TypeOK, MarkHasReader, TravelsLast, NoChange
  <2>6. PendingHasExchange'
    BY <1>0, <1>2
       DEF PendingHasExchange, PendingFollows, OneExchange, Outstanding, ClosedEndsStream, NoChange
  <2>7. TravelsLast'
    BY <1>2 DEF TravelsLast, TypeOK, NoChange
  <2>8. ClosedEndsStream'
    BY <1>2 DEF ClosedEndsStream, NoChange
  <2> QED
    BY <2>1, <2>2, <2>3, <2>4, <2>5, <2>6, <2>7, <2>8 DEF IInv
<1>3. CASE Negotiate
  <2>1. TypeOK'
    BY <1>3 DEF TypeOK, PcStates, Negotiate
  <2>2. OneExchange'
    BY <1>0, <1>3 DEF OneExchange, PendingFollows, Outstanding, Negotiate
  <2>3. PendingFollows'
    BY <1>0, <1>3 DEF PendingFollows, Outstanding, TypeOK, PcStates, Negotiate
  <2>4. MarkHasReader'
    BY <1>3 DEF MarkHasReader, Negotiate
  <2>5. NoLostChange'
    BY <1>3 DEF NoLostChange, TypeOK, MarkHasReader, TravelsLast, Negotiate
  <2>6. PendingHasExchange'
    BY <1>0, <1>3
       DEF PendingHasExchange, PendingFollows, OneExchange, Outstanding, ClosedEndsStream, Negotiate
  <2>7. TravelsLast'
    BY <1>3 DEF TravelsLast, TypeOK, Negotiate
  <2>8. ClosedEndsStream'
    BY <1>3 DEF ClosedEndsStream, Negotiate
  <2> QED
    BY <2>1, <2>2, <2>3, <2>4, <2>5, <2>6, <2>7, <2>8 DEF IInv
<1>4. CASE TimerFires
  <2>1. TypeOK'
    <3>1. (/\ wanted \in Nat /\ calls \in Nat /\ announce \in Nat
           /\ runners \in Nat /\ offered \in Nat /\ agreed \in Nat)'
      BY <1>4 DEF TypeOK, TimerFires
    <3>2. (/\ timer \in BOOLEAN /\ closed \in BOOLEAN /\ stream \in BOOLEAN
           /\ ignored \in BOOLEAN /\ remoteAnswerPending \in BOOLEAN
           /\ negotiationPending \in BOOLEAN)'
      BY <1>4 DEF TypeOK, TimerFires
    <3>3. (pcState \in PcStates /\ offers \in Seq(Nat) /\ answers \in Seq(Nat))'
      BY <1>4 DEF TypeOK, TimerFires, PcStates
    <3> QED
      BY <3>1, <3>2, <3>3 DEF TypeOK
  <2>2. OneExchange'
    BY <1>0, <1>4 DEF OneExchange, PendingFollows, Outstanding, TimerFires
  <2>3. PendingFollows'
    BY <1>0, <1>4 DEF PendingFollows, Outstanding, TypeOK, PcStates, TimerFires
  <2>4. MarkHasReader'
    BY <1>4 DEF MarkHasReader, TimerFires
  <2>5. NoLostChange'
    BY <1>4 DEF NoLostChange, TypeOK, MarkHasReader, TravelsLast, TimerFires
  <2>6. PendingHasExchange'
    BY <1>0, <1>4
       DEF PendingHasExchange, PendingFollows, OneExchange, Outstanding, ClosedEndsStream, TimerFires
  <2>7. TravelsLast'
    BY <1>4 DEF TravelsLast, TypeOK, TimerFires
  <2>8. ClosedEndsStream'
    BY <1>4 DEF ClosedEndsStream, TimerFires
  <2> QED
    BY <2>1, <2>2, <2>3, <2>4, <2>5, <2>6, <2>7, <2>8 DEF IInv
<1>5. CASE OnNegotiationNeeded
  <2>1. CASE remoteAnswerPending
    <3>0. /\ runners > 0 /\ runners' = runners - 1 /\ negotiationPending' = TRUE
          /\ UNCHANGED <<wanted, calls, announce, timer, remoteAnswerPending, closed, pcState,
                         offered, offers, answers, stream, agreed, ignored>>
      BY <1>5, <2>1 DEF OnNegotiationNeeded
    <3>1. TypeOK'
      <4>1. (/\ wanted \in Nat /\ calls \in Nat /\ announce \in Nat
             /\ runners \in Nat /\ offered \in Nat /\ agreed \in Nat)'
        BY <3>0, <2>1 DEF TypeOK
      <4>2. (/\ timer \in BOOLEAN /\ closed \in BOOLEAN /\ stream \in BOOLEAN
             /\ ignored \in BOOLEAN /\ remoteAnswerPending \in BOOLEAN
             /\ negotiationPending \in BOOLEAN)'
        BY <3>0, <2>1 DEF TypeOK
      <4>3. (pcState \in PcStates /\ offers \in Seq(Nat) /\ answers \in Seq(Nat))'
        BY <3>0, <2>1 DEF TypeOK, PcStates
      <4> QED
        BY <4>1, <4>2, <4>3 DEF TypeOK
    <3>2. OneExchange'
      BY <1>0, <3>0, <2>1 DEF OneExchange, PendingFollows, Outstanding
    <3>3. PendingFollows'
      BY <1>0, <3>0, <2>1 DEF PendingFollows, Outstanding, TypeOK, PcStates
    <3>4. MarkHasReader'
      BY <3>0, <2>1 DEF MarkHasReader
    <3>5. NoLostChange'
      BY <3>0, <2>1 DEF NoLostChange, TypeOK, MarkHasReader, TravelsLast
    <3>6. PendingHasExchange'
      BY <1>0, <3>0, <2>1
         DEF PendingHasExchange, PendingFollows, OneExchange, Outstanding, ClosedEndsStream
    <3>7. TravelsLast'
      BY <3>0, <2>1 DEF TravelsLast, TypeOK
    <3>8. ClosedEndsStream'
      BY <3>0, <2>1 DEF ClosedEndsStream
    <3> QED
      BY <3>1, <3>2, <3>3, <3>4, <3>5, <3>6, <3>7, <3>8 DEF IInv
  <2>2. CASE ~remoteAnswerPending /\ pcState = "closed"
    <3>0. /\ runners > 0 /\ runners' = runners - 1
          /\ UNCHANGED <<wanted, calls, announce, timer, remoteAnswerPending, negotiationPending,
                         closed, pcState, offered, offers, answers, stream, agreed, ignored>>
      BY <1>5, <2>2 DEF OnNegotiationNeeded
    <3>1. TypeOK'
      <4>1. (/\ wanted \in Nat /\ calls \in Nat /\ announce \in Nat
             /\ runners \in Nat /\ offered \in Nat /\ agreed \in Nat)'
        BY <3>0, <2>2 DEF TypeOK
      <4>2. (/\ timer \in BOOLEAN /\ closed \in BOOLEAN /\ stream \in BOOLEAN
             /\ ignored \in BOOLEAN /\ remoteAnswerPending \in BOOLEAN
             /\ negotiationPending \in BOOLEAN)'
        BY <3>0, <2>2 DEF TypeOK
      <4>3. (pcState \in PcStates /\ offers \in Seq(Nat) /\ answers \in Seq(Nat))'
        BY <3>0, <2>2 DEF TypeOK, PcStates
      <4> QED
        BY <4>1, <4>2, <4>3 DEF TypeOK
    <3>2. OneExchange'
      BY <1>0, <3>0, <2>2 DEF OneExchange, PendingFollows, Outstanding
    <3>3. PendingFollows'
      BY <1>0, <3>0, <2>2 DEF PendingFollows, Outstanding, TypeOK, PcStates
    <3>4. MarkHasReader'
      BY <3>0, <2>2 DEF MarkHasReader
    <3>5. NoLostChange'
      BY <3>0, <2>2 DEF NoLostChange, TypeOK, MarkHasReader, TravelsLast
    <3>6. PendingHasExchange'
      BY <1>0, <3>0, <2>2
         DEF PendingHasExchange, PendingFollows, OneExchange, Outstanding, ClosedEndsStream
    <3>7. TravelsLast'
      BY <3>0, <2>2 DEF TravelsLast, TypeOK
    <3>8. ClosedEndsStream'
      BY <3>0, <2>2 DEF ClosedEndsStream
    <3> QED
      BY <3>1, <3>2, <3>3, <3>4, <3>5, <3>6, <3>7, <3>8 DEF IInv
  <2>3. ASSUME ~remoteAnswerPending, pcState # "closed", closed \/ ~stream, offers' = offers
        PROVE  IInv'
    <3>1. offers = <<>> /\ answers = <<>>
      BY <1>0, <2>3 DEF PendingFollows, Outstanding
    <3>0. /\ runners > 0 /\ runners' = runners - 1
          /\ offered' = wanted /\ pcState' = "have-local-offer" /\ remoteAnswerPending' = TRUE
          /\ UNCHANGED <<wanted, calls, announce, timer, negotiationPending, closed, answers,
                         stream, agreed, ignored>>
      BY <1>5, <2>3 DEF OnNegotiationNeeded
    <3>2. TypeOK'
      <4>1. (/\ wanted \in Nat /\ calls \in Nat /\ announce \in Nat
             /\ runners \in Nat /\ offered \in Nat /\ agreed \in Nat)'
        BY <3>0, <3>1, <2>3 DEF TypeOK
      <4>2. (/\ timer \in BOOLEAN /\ closed \in BOOLEAN /\ stream \in BOOLEAN
             /\ ignored \in BOOLEAN /\ remoteAnswerPending \in BOOLEAN
             /\ negotiationPending \in BOOLEAN)'
        BY <3>0, <3>1, <2>3 DEF TypeOK
      <4>3. (pcState \in PcStates /\ offers \in Seq(Nat) /\ answers \in Seq(Nat))'
        BY <3>0, <3>1, <2>3 DEF TypeOK, PcStates
      <4> QED
        BY <4>1, <4>2, <4>3 DEF TypeOK
    <3>3. OneExchange'
      BY <1>0, <3>0, <3>1, <2>3 DEF OneExchange, PendingFollows, Outstanding
    <3>4. PendingFollows'
      BY <1>0, <3>0, <3>1, <2>3 DEF PendingFollows, Outstanding, TypeOK, PcStates
    <3>5. MarkHasReader'
      BY <3>0, <3>1, <2>3 DEF MarkHasReader
    <3>6. NoLostChange'
      BY <3>0, <3>1, <2>3 DEF NoLostChange, TypeOK, MarkHasReader, TravelsLast
    <3>7. PendingHasExchange'
      BY <1>0, <3>0, <3>1, <2>3
         DEF PendingHasExchange, PendingFollows, OneExchange, Outstanding, ClosedEndsStream
    <3>8. TravelsLast'
      BY <3>0, <3>1, <2>3 DEF TravelsLast, TypeOK
    <3>9. ClosedEndsStream'
      BY <3>0, <3>1, <2>3 DEF ClosedEndsStream
    <3> QED
      BY <3>2, <3>3, <3>4, <3>5, <3>6, <3>7, <3>8, <3>9 DEF IInv
  <2>4. ASSUME ~remoteAnswerPending, pcState # "closed", offers' = Append(offers, wanted)
        PROVE  IInv'
    <3>1. Len(answers) = 0 /\ offers = <<>> /\ answers = <<>>
      BY <1>0, <2>4 DEF PendingFollows, Outstanding
    <3>2. /\ offers' \in Seq(Nat) /\ Len(offers') = 1
          /\ offers' # <<>> /\ Head(offers') = wanted
      BY <3>1, <2>4, AppendToEmpty DEF TypeOK
    <3>3. TypeOK'
      BY <3>1, <3>2, <1>5, <2>4 DEF TypeOK, PcStates, OnNegotiationNeeded
    <3>4. OneExchange'
      BY <1>0, <3>1, <3>2, <1>5, <2>4
         DEF OneExchange, PendingFollows, Outstanding, OnNegotiationNeeded
    <3>5. PendingFollows'
      BY <1>0, <3>1, <3>2, <1>5, <2>4
         DEF PendingFollows, Outstanding, TypeOK, PcStates, OnNegotiationNeeded
    <3>6. MarkHasReader'
      BY <3>1, <3>2, <1>5, <2>4 DEF MarkHasReader, OnNegotiationNeeded
    <3>7. NoLostChange'
      BY <3>1, <3>2, <1>5, <2>4
         DEF NoLostChange, TypeOK, MarkHasReader, TravelsLast, OnNegotiationNeeded
    <3>8. PendingHasExchange'
      BY <1>0, <3>1, <3>2, <1>5, <2>4
         DEF PendingHasExchange, PendingFollows, OneExchange, Outstanding, ClosedEndsStream, OnNegotiationNeeded
    <3>9. TravelsLast'
      BY <3>1, <3>2, <1>5, <2>4 DEF TravelsLast, TypeOK, OnNegotiationNeeded
    <3>10. ClosedEndsStream'
      BY <3>1, <3>2, <1>5, <2>4 DEF ClosedEndsStream, OnNegotiationNeeded
    <3> QED
      BY <3>3, <3>4, <3>5, <3>6, <3>7, <3>8, <3>9, <3>10 DEF IInv
  <2> QED
    BY <1>5, <2>1, <2>2, <2>3, <2>4 DEF OnNegotiationNeeded
<1>6. CASE ClientAnswers
  <2>1. Len(offers) = 1 /\ Len(answers) = 0 /\ answers = <<>> /\ Head(offers) = offered
    <3>1. Len(offers) # 0 /\ Head(offers) = offered
      BY <1>0, <1>6 DEF ClientAnswers, TravelsLast
    <3>2. Len(offers) + Len(answers) <= 1
      BY DEF OneExchange, Outstanding
    <3> QED
      BY <1>0, <3>1, <3>2, SumOne
  <2>2. offers' = <<>> /\ offers' \in Seq(Nat) /\ Len(offers') = 0
    BY <2>1, <1>6, HeadTail, EmptySeq DEF ClientAnswers, TypeOK
  <2>3. answers' = Append(answers, offered)
    BY <2>1, <1>6 DEF ClientAnswers
  <2>4. /\ answers' \in Seq(Nat) /\ Len(answers') = 1
        /\ answers' # <<>> /\ Head(answers') = offered
    BY <2>3, <2>1, AppendToEmpty DEF TypeOK
  <2>5. TypeOK'
    BY <1>6, <2>1, <2>2, <2>4 DEF TypeOK, PcStates, ClientAnswers
  <2>6. OneExchange'
    BY <2>2, <2>4 DEF OneExchange, Outstanding
  <2>7. PendingFollows'
    BY <1>0, <1>6, <2>1, <2>2, <2>4
       DEF PendingFollows, Outstanding, TypeOK, PcStates, ClientAnswers
  <2>8. MarkHasReader'
    BY <1>6, <2>1, <2>2, <2>4 DEF MarkHasReader, ClientAnswers
  <2>9. NoLostChange'
    BY <1>6, <2>1, <2>2, <2>4
       DEF NoLostChange, TypeOK, MarkHasReader, TravelsLast, ClientAnswers
  <2>10. PendingHasExchange'
    BY <1>0, <1>6, <2>1, <2>2, <2>4
       DEF PendingHasExchange, PendingFollows, OneExchange, Outstanding, ClosedEndsStream, ClientAnswers
  <2>11. TravelsLast'
    BY <1>6, <2>1, <2>2, <2>4 DEF TravelsLast, TypeOK, ClientAnswers
  <2>12. ClosedEndsStream'
    BY <1>6, <2>1, <2>2, <2>4 DEF ClosedEndsStream, ClientAnswers
  <2> QED
    BY <2>5, <2>6, <2>7, <2>8, <2>9, <2>10, <2>11, <2>12 DEF IInv
<1>7. CASE ClientIgnores
  <2>1. Len(offers) = 1 /\ Len(answers) = 0 /\ answers = <<>>
    <3>1. Len(offers) # 0
      BY <1>0, <1>7 DEF ClientIgnores
    <3>2. Len(offers) + Len(answers) <= 1
      BY DEF OneExchange, Outstanding
    <3> QED
      BY <1>0, <3>1, <3>2, SumOne
  <2>2. offers' = <<>> /\ offers' \in Seq(Nat) /\ Len(offers') = 0
    BY <2>1, <1>7, HeadTail, EmptySeq DEF ClientIgnores, TypeOK
  <2>3. TypeOK'
    BY <1>7, <2>1, <2>2 DEF TypeOK, PcStates, ClientIgnores
  <2>4. OneExchange'
    BY <1>0, <1>7, <2>1, <2>2 DEF OneExchange, PendingFollows, Outstanding, ClientIgnores
  <2>5. PendingFollows'
    BY <1>0, <1>7, <2>1, <2>2
       DEF PendingFollows, Outstanding, TypeOK, PcStates, ClientIgnores
  <2>6. MarkHasReader'
    BY <1>7, <2>1, <2>2 DEF MarkHasReader, ClientIgnores
  <2>7. NoLostChange'
    BY <1>7, <2>1, <2>2
       DEF NoLostChange, TypeOK, MarkHasReader, TravelsLast, ClientIgnores
  <2>8. PendingHasExchange'
    BY <1>0, <1>7, <2>1, <2>2
       DEF PendingHasExchange, PendingFollows, OneExchange, Outstanding, ClosedEndsStream, ClientIgnores
  <2>9. TravelsLast'
    BY <1>7, <2>1, <2>2 DEF TravelsLast, TypeOK, ClientIgnores
  <2>10. ClosedEndsStream'
    BY <1>7, <2>1, <2>2 DEF ClosedEndsStream, ClientIgnores
  <2> QED
    BY <2>3, <2>4, <2>5, <2>6, <2>7, <2>8, <2>9, <2>10 DEF IInv
<1>8. CASE SetRemoteDescription
  <2>0. answers # <<>> /\ (answers' = Tail(answers) \/ answers' = <<>>)
    BY <1>8 DEF SetRemoteDescription
  <2>1. Len(answers) = 1 /\ Len(offers) = 0 /\ offers = <<>> /\ Head(answers) = offered
    BY <1>0, <2>0 DEF OneExchange, Outstanding, TravelsLast
  <2>2. answers' = <<>> /\ answers' \in Seq(Nat) /\ Len(answers') = 0
    BY <2>0, <2>1, HeadTail, EmptySeq DEF TypeOK
  <2>3. CASE pcState = "have-local-offer"
    <3>0. /\ pcState' = "stable" /\ agreed' = offered
          /\ remoteAnswerPending' = FALSE /\ negotiationPending' = FALSE
          /\ timer' = (timer \/ negotiationPending)
          /\ UNCHANGED <<wanted, calls, announce, runners, closed, offered, offers, stream, ignored>>
      BY <1>8, <2>1, <2>3 DEF SetRemoteDescription
    <3>1. TypeOK'
      <4>1. (/\ wanted \in Nat /\ calls \in Nat /\ announce \in Nat
             /\ runners \in Nat /\ offered \in Nat /\ agreed \in Nat)'
        BY <3>0, <2>1, <2>2, <2>3 DEF TypeOK
      <4>2. (/\ timer \in BOOLEAN /\ closed \in BOOLEAN /\ stream \in BOOLEAN
             /\ ignored \in BOOLEAN /\ remoteAnswerPending \in BOOLEAN
             /\ negotiationPending \in BOOLEAN)'
        BY <3>0, <2>1, <2>2, <2>3 DEF TypeOK
      <4>3. (pcState \in PcStates /\ offers \in Seq(Nat) /\ answers \in Seq(Nat))'
        BY <3>0, <2>1, <2>2, <2>3 DEF TypeOK, PcStates
      <4> QED
        BY <4>1, <4>2, <4>3 DEF TypeOK
    <3>2. OneExchange'
      BY <1>0, <3>0, <2>1, <2>2, <2>3 DEF OneExchange, PendingFollows, Outstanding
    <3>3. PendingFollows'
      BY <1>0, <3>0, <2>1, <2>2, <2>3 DEF PendingFollows, Outstanding, TypeOK, PcStates
    <3>4. MarkHasReader'
      BY <3>0, <2>1, <2>2, <2>3 DEF MarkHasReader
    <3>5. NoLostChange'
      BY <3>0, <2>1, <2>2, <2>3 DEF NoLostChange, TypeOK, MarkHasReader, TravelsLast
    <3>6. PendingHasExchange'
      BY <1>0, <3>0, <2>1, <2>2, <2>3
         DEF PendingHasExchange, PendingFollows, OneExchange, Outstanding, ClosedEndsStream
    <3>7. TravelsLast'
      BY <3>0, <2>1, <2>2, <2>3 DEF TravelsLast, TypeOK
    <3>8. ClosedEndsStream'
      BY <3>0, <2>1, <2>2, <2>3 DEF ClosedEndsStream
    <3> QED
      BY <3>1, <3>2, <3>3, <3>4, <3>5, <3>6, <3>7, <3>8 DEF IInv
  <2>4. CASE pcState # "have-local-offer"
    <3>0. /\ stream' = FALSE
          /\ UNCHANGED <<wanted, calls, announce, timer, runners, remoteAnswerPending,
                         negotiationPending, closed, pcState, offered, offers, agreed, ignored>>
      BY <1>8, <2>1, <2>4 DEF SetRemoteDescription
    <3>1. TypeOK'
      <4>1. (/\ wanted \in Nat /\ calls \in Nat /\ announce \in Nat
             /\ runners \in Nat /\ offered \in Nat /\ agreed \in Nat)'
        BY <3>0, <2>1, <2>2, <2>4 DEF TypeOK
      <4>2. (/\ timer \in BOOLEAN /\ closed \in BOOLEAN /\ stream \in BOOLEAN
             /\ ignored \in BOOLEAN /\ remoteAnswerPending \in BOOLEAN
             /\ negotiationPending \in BOOLEAN)'
        BY <3>0, <2>1, <2>2, <2>4 DEF TypeOK
      <4>3. (pcState \in PcStates /\ offers \in Seq(Nat) /\ answers \in Seq(Nat))'
        BY <3>0, <2>1, <2>2, <2>4 DEF TypeOK, PcStates
      <4> QED
        BY <4>1, <4>2, <4>3 DEF TypeOK
    <3>2. OneExchange'
      BY <1>0, <3>0, <2>1, <2>2, <2>4 DEF OneExchange, PendingFollows, Outstanding
    <3>3. PendingFollows'
      BY <1>0, <3>0, <2>1, <2>2, <2>4 DEF PendingFollows, Outstanding, TypeOK, PcStates
    <3>4. MarkHasReader'
      BY <3>0, <2>1, <2>2, <2>4 DEF MarkHasReader
    <3>5. NoLostChange'
      BY <3>0, <2>1, <2>2, <2>4 DEF NoLostChange, TypeOK, MarkHasReader, TravelsLast
    <3>6. PendingHasExchange'
      BY <1>0, <3>0, <2>1, <2>2, <2>4
         DEF PendingHasExchange, PendingFollows, OneExchange, Outstanding, ClosedEndsStream
    <3>7. TravelsLast'
      BY <3>0, <2>1, <2>2, <2>4 DEF TravelsLast, TypeOK
    <3>8. ClosedEndsStream'
      BY <3>0, <2>1, <2>2, <2>4 DEF ClosedEndsStream
    <3> QED
      BY <3>1, <3>2, <3>3, <3>4, <3>5, <3>6, <3>7, <3>8 DEF IInv
  <2> QED
    BY <2>3, <2>4
<1>9. CASE SubscriberCloses
  <2>1. TypeOK'
    BY <1>9 DEF TypeOK, PcStates, SubscriberCloses
  <2>2. OneExchange'
    BY <1>0, <1>9 DEF OneExchange, PendingFollows, Outstanding, SubscriberCloses
  <2>3. PendingFollows'
    BY <1>0, <1>9 DEF PendingFollows, Outstanding, TypeOK, PcStates, SubscriberCloses
  <2>4. MarkHasReader'
    BY <1>9 DEF MarkHasReader, SubscriberCloses
  <2>5. NoLostChange'
    BY <1>9 DEF NoLostChange, TypeOK, MarkHasReader, TravelsLast, SubscriberCloses
  <2>6. PendingHasExchange'
    BY <1>0, <1>9
       DEF PendingHasExchange, PendingFollows, OneExchange, Outstanding, ClosedEndsStream, SubscriberCloses
  <2>7. TravelsLast'
    BY <1>9 DEF TravelsLast, TypeOK, SubscriberCloses
  <2>8. ClosedEndsStream'
    BY <1>9 DEF ClosedEndsStream, SubscriberCloses
  <2> QED
    BY <2>1, <2>2, <2>3, <2>4, <2>5, <2>6, <2>7, <2>8 DEF IInv
<1>10. CASE Close
  <2>0. /\ offers' = <<>> /\ answers' = <<>> /\ stream' = FALSE
        /\ <<>> \in Seq(Nat) /\ Len(<<>>) = 0
    BY <1>10, EmptySeq DEF Close
  <2>1. TypeOK'
    BY <1>10, <2>0 DEF TypeOK, PcStates, Close
  <2>2. OneExchange'
    BY <2>0 DEF OneExchange, Outstanding
  <2>3. PendingFollows'
    BY <1>10, <2>0 DEF PendingFollows, Outstanding, Close
  <2>4. MarkHasReader'
    BY <1>10 DEF MarkHasReader, Close
  <2>5. NoLostChange'
    BY <1>10 DEF NoLostChange, TypeOK, MarkHasReader, TravelsLast, Close
  <2>6. PendingHasExchange'
    BY <2>0 DEF PendingHasExchange
  <2>7. TravelsLast'
    BY <1>10, <2>0 DEF TravelsLast, TypeOK, Close
  <2>8. ClosedEndsStream'
    BY <1>10, <2>0 DEF ClosedEndsStream, Close
  <2> QED
    BY <2>1, <2>2, <2>3, <2>4, <2>5, <2>6, <2>7, <2>8 DEF IInv
<1>12. CASE HandlerFails
  <2>0. /\ offers' = <<>> /\ answers' = <<>> /\ stream' = FALSE
        /\ <<>> \in Seq(Nat) /\ Len(<<>>) = 0
    BY <1>12, EmptySeq DEF HandlerFails
  <2>1. TypeOK'
    BY <1>12, <2>0 DEF TypeOK, PcStates, HandlerFails
  <2>2. OneExchange'
    BY <2>0 DEF OneExchange, Outstanding
  <2>3. PendingFollows'
    BY <1>12, <2>0 DEF PendingFollows, Outstanding, HandlerFails
  <2>4. MarkHasReader'
    BY <1>12 DEF MarkHasReader, HandlerFails
  <2>5. NoLostChange'
    BY <1>12 DEF NoLostChange, TypeOK, MarkHasReader, TravelsLast, HandlerFails
  <2>6. PendingHasExchange'
    BY <2>0 DEF PendingHasExchange
  <2>7. TravelsLast'
    BY <1>12, <2>0 DEF TravelsLast, TypeOK, HandlerFails
  <2>8. ClosedEndsStream'
    BY <1>12, <2>0 DEF ClosedEndsStream, HandlerFails
  <2> QED
    BY <2>1, <2>2, <2>3, <2>4, <2>5, <2>6, <2>7, <2>8 DEF IInv
<1>11. CASE UNCHANGED vars
  <2>1. TypeOK'
    BY <1>11 DEF TypeOK, PcStates, vars
  <2>2. OneExchange'
    BY <1>0, <1>11 DEF OneExchange, PendingFollows, Outstanding, vars
  <2>3. PendingFollows'
    BY <1>0, <1>11 DEF PendingFollows, Outstanding, TypeOK, PcStates, vars
  <2>4. MarkHasReader'
    BY <1>11 DEF MarkHasReader, vars
  <2>5. NoLostChange'
    BY <1>11 DEF NoLostChange, TypeOK, MarkHasReader, TravelsLast, vars
  <2>6. PendingHasExchange'
    BY <1>0, <1>11
       DEF PendingHasExchange, PendingFollows, OneExchange, Outstanding, ClosedEndsStream, vars
  <2>7. TravelsLast'
    BY <1>11 DEF TravelsLast, TypeOK, vars
  <2>8. ClosedEndsStream'
    BY <1>11 DEF ClosedEndsStream, vars
  <2> QED
    BY <2>1, <2>2, <2>3, <2>4, <2>5, <2>6, <2>7, <2>8 DEF IInv
<1> QED
  BY <1>1, <1>2, <1>3, <1>4, <1>5, <1>6, <1>7, <1>8, <1>9, <1>10, <1>11, <1>12 DEF Next

\* The invariant holds in every reachable state, for every bound MaxCalls.
THEOREM Invariance == Spec => []IInv
<1>1. Init => IInv
  BY InitIInv
<1>2. IInv /\ [Next]_vars => IInv'
  BY NextIInv
<1> QED
  BY <1>1, <1>2, PTL DEF Spec

\* The peer's fields, counters and queues keep their types.
THEOREM TypeCorrect == Spec => []TypeOK
<1>1. IInv => TypeOK
  BY DEF IInv
<1> QED
  BY <1>1, Invariance, PTL

\* One offer or answer at most is on its way (OnNegotiationNeeded holds the
\* peer's lock and reads remoteAnswerPending).
THEOREM OneExchangeHolds == Spec => []OneExchange
<1>1. IInv => OneExchange
  BY DEF IInv
<1> QED
  BY <1>1, Invariance, PTL

\* A travelling offer or answer belongs to the offer the peer connection has
\* outstanding, so the answer's handler is never refused on a live connection.
THEOREM AnswerExpectedHolds == Spec => []AnswerExpected
<1>1. IInv => AnswerExpected
  BY DEF IInv, PendingFollows, AnswerExpected
<1> QED
  BY <1>1, Invariance, PTL

\* negotiationPending is only set while an answer is outstanding.
THEOREM MarkHasReaderHolds == Spec => []MarkHasReader
<1>1. IInv => MarkHasReader
  BY DEF IInv
<1> QED
  BY <1>1, Invariance, PTL

\* Tracks changed since the last offer always have something under way that
\* leads to another offer.
THEOREM NoLostChangeHolds == Spec => []NoLostChange
<1>1. IInv => NoLostChange
  BY DEF IInv
<1> QED
  BY <1>1, Invariance, PTL

\* The peer waits for an answer only while its exchange is on the way.
THEOREM PendingHasExchangeHolds == Spec => []PendingHasExchange
<1>1. IInv => PendingHasExchange
  BY DEF IInv
<1> QED
  BY <1>1, Invariance, PTL

\* A step of the negotiation is a change, an agreement on the last offer, or a
\* stutter of Renegotiation: what an answer agrees on is the last set offered,
\* which lies between the agreed and the wanted set.
LEMMA StepRefines == IInv /\ [Next]_vars => [Promise!Next]_<<wanted, agreed>>
<1> SUFFICES ASSUME IInv, [Next]_vars PROVE [Promise!Next]_<<wanted, agreed>>
  OBVIOUS
<1>1. CASE Change
  BY <1>1 DEF Change, Promise!Next, Promise!Change
<1>2. CASE SetRemoteDescription /\ pcState = "have-local-offer"
  <2>1. answers # <<>> /\ agreed' = Head(answers) /\ wanted' = wanted
    BY <1>2 DEF SetRemoteDescription
  <2>2. agreed' = offered
    BY <2>1 DEF IInv, TravelsLast
  <2>3. agreed' \in agreed .. wanted
    BY <2>2 DEF IInv, TravelsLast, TypeOK
  <2> QED
    BY <2>1, <2>3 DEF Promise!Next, Promise!Agree
<1>3. CASE \/ NoChange \/ Negotiate \/ TimerFires \/ OnNegotiationNeeded
           \/ ClientAnswers \/ ClientIgnores \/ SubscriberCloses \/ Close
           \/ HandlerFails
           \/ (SetRemoteDescription /\ pcState # "have-local-offer") \/ UNCHANGED vars
  <2>1. UNCHANGED <<wanted, agreed>>
    BY <1>3 DEF NoChange, Negotiate, TimerFires, OnNegotiationNeeded, ClientAnswers,
                ClientIgnores, SubscriberCloses, Close, HandlerFails, SetRemoteDescription, vars
  <2> QED
    BY <2>1
<1> QED
  BY <1>1, <1>2, <1>3 DEF Next

\* The debounced negotiation implements Renegotiation: the agreement never goes
\* back to an older set of tracks and never runs ahead of the changes.
THEOREM RefinesRenegotiation == Spec => ImplementsRenegotiation
<1>1. Init => Promise!Init
  BY DEF Init, Promise!Init
<1>2. IInv /\ [Next]_vars => [Promise!Next]_<<wanted, agreed>>
  BY StepRefines
<1> QED
  BY <1>1, <1>2, Invariance, PTL DEF Spec, ImplementsRenegotiation, Promise!Spec
=============================================================================
