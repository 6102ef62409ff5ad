----------------------------- MODULE MCMediaParts -----------------------------
(***************************************************************************)
(* Six parts the media passes that share nothing with each other, checked   *)
(* one at a time: the state of the others stays at its initial value.       *)
(***************************************************************************)
EXTENDS PacketPath, TransportFeedback, ReceptionReport, RecordStore, RtspClient,
        BufferPool

VARIABLE part

Init == /\ part \in {"packets", "feedback", "reports", "records", "client", "buffers"}
        /\ PathInit /\ FeedbackInit /\ ReportInit /\ RecordInit /\ ClientInit
        /\ BufferInit
        /\ part # "packets" => kind = "simple"
        /\ part # "feedback" => head = 0

Next ==
  /\ \/ part = "packets" /\ PathNext
        /\ UNCHANGED <<feedbackVars, reportVars, recordVars, clientAll, bufferVars>>
     \/ part = "feedback" /\ FeedbackNext
        /\ UNCHANGED <<pathVars, reportVars, recordVars, clientAll, bufferVars>>
     \/ part = "reports" /\ ReportNext
        /\ UNCHANGED <<pathVars, feedbackVars, recordVars, clientAll, bufferVars>>
     \/ part = "records" /\ RecordNext
        /\ UNCHANGED <<pathVars, feedbackVars, reportVars, clientAll, bufferVars>>
     \/ part = "client" /\ ClientNext
        /\ UNCHANGED <<pathVars, feedbackVars, reportVars, recordVars, bufferVars>>
     \/ part = "buffers" /\ BufferNext
        /\ UNCHANGED <<pathVars, feedbackVars, reportVars, recordVars, clientAll>>
  /\ UNCHANGED part

Spec == Init /\ [][Next]_<<pathVars, feedbackVars, reportVars, recordVars, clientAll,
                          bufferVars, part>>
=============================================================================
