------------------------- MODULE MCTranscriptionJobs -------------------------
(* Instances of TranscriptionJobs for TLC: jobs with one kind of request,    *)
(* since what varies with the request is explored in FileTranscription.     *)
EXTENDS TranscriptionJobs, TLC
CONSTANTS j1, j2
FullRequest == {[timed |-> TRUE, speakers |-> "engine", ai |-> TRUE]}
ShortRequest == {[timed |-> FALSE, speakers |-> "no", ai |-> FALSE]}
=============================================================================
