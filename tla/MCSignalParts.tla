---------------------------- MODULE MCSignalParts ----------------------------
(***************************************************************************)
(* Three things the SFU tells its clients, which share nothing with each    *)
(* other, checked one at a time: the state of the others stays at its       *)
(* initial value.                                                          *)
(***************************************************************************)
EXTENDS Signalling, TrackEvents, AudioLevels

VARIABLE part

\* One candidate of each transport.
MCCandidates == [of : Transport, n : {1}]

Init == /\ part \in {"signalling", "events", "levels"}
        /\ SignalInit /\ EventsInit /\ AudioInit
        /\ part # "signalling" => config = "both"

Next ==
  /\ \/ part = "signalling" /\ SignalNext /\ UNCHANGED <<eventVars, audioVars>>
     \/ part = "events" /\ EventsNext /\ UNCHANGED <<signalVars, audioVars>>
     \/ part = "levels" /\ AudioNext /\ UNCHANGED <<signalVars, eventVars>>
  /\ UNCHANGED part

Spec == Init /\ [][Next]_<<signalVars, eventVars, audioVars, part>>
=============================================================================
