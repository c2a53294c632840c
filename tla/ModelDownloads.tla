--------------------------- MODULE ModelDownloads ---------------------------
(***************************************************************************)
(* The download of speech models and of their Core ML encoders, one after  *)
(* the other: each goes to a temporary file, is tried three times, and is  *)
(* renamed to its place when it is complete; an encoder's archive is then  *)
(* extracted beside its directory, renamed, and removed.                   *)
(***************************************************************************)
EXTENDS Naturals, Sequences, SequencesExt, ProvisioningSlot

CONSTANTS
    Models,       \* files
    Encoders,     \* directories that come in an archive
    Pinned,       \* those of both with a checksum in the program
    MaxAttempts   \* MODEL_DOWNLOAD_MAX_ATTEMPTS

Items == Models \cup Encoders

\* The models the program knows are finitely many, files and directories apart.
ASSUME ModelsAssumption ==
    /\ Pinned \subseteq Items
    /\ IsFiniteSet(Items) /\ Models \cap Encoders = {}
    /\ MaxAttempts \in Nat \ {0}

VARIABLES
    have,         \* what is at the place of each item: "absent", "broken", "whole"
    archive,      \* encoders whose archive lies in the models directory
    batch,        \* the worker
    lucky,        \* history: nothing has failed in this batch
    stranded      \* history: archives that a batch was kept from removing

downloads == <<have, archive, batch, lucky, stranded>>

NoBatch == [pc |-> "idle", todo |-> <<>>, tries |-> 0, extracted |-> TRUE, told |-> "none"]

ModelsInit ==
    /\ have \in [Items -> {"absent", "whole"}]
    /\ archive = {} /\ stranded = {}
    /\ batch = NoBatch
    /\ lucky = TRUE

\* whisper_model_is_installed, coreml_encoder_is_installed: a checksum tells a
\* broken file from a whole one where the program has one.
Installed(i) == have[i] = "whole" \/ (have[i] = "broken" /\ i \notin Pinned)

Ahead == Head(batch.todo)
BatchTells(what) == batch' = [batch EXCEPT !.pc = "end", !.told = what]

\* What is missing is listed before the slot is asked for, the models first.
AskModels ==
    /\ batch.pc = "idle"
    /\ \E ms \in SUBSET {m \in Models : ~Installed(m)},
          es \in SUBSET {e \in Encoders : ~Installed(e)} :
        /\ ms \cup es # {}
        /\ batch' = [NoBatch EXCEPT !.pc = "asked",
                                    !.todo = SetToSeq(ms) \o SetToSeq(es)]
    /\ UNCHANGED <<have, archive, lucky, stranded, slot>>

ModelsBusy ==
    /\ batch.pc = "asked" /\ slot \in Workers
    /\ batch' = NoBatch
    /\ UNCHANGED <<have, archive, lucky, stranded, slot>>

StartModels ==
    /\ batch.pc = "asked"
    /\ Acquire("models")
    /\ batch' = [batch EXCEPT !.pc = "next"]
    /\ lucky' = TRUE
    /\ UNCHANGED <<have, archive, stranded>>

EndModels ==
    /\ batch.pc = "end"
    /\ Release("models")
    /\ batch' = NoBatch
    /\ UNCHANGED <<have, archive, lucky, stranded>>

NextItem ==
    /\ batch.pc = "next"
    /\ IF batch.todo = <<>> THEN BatchTells("completed")
       ELSE batch' = [batch EXCEPT !.pc = "download", !.tries = 1]
    /\ UNCHANGED <<have, archive, lucky, stranded, slot>>

\* The token is looked at before every item, attempt and chunk.
BatchCancelled ==
    /\ batch.pc \in {"next", "download"} /\ batch.todo # <<>>
    /\ BatchTells("cancelled")
    /\ lucky' = FALSE
    /\ UNCHANGED <<have, archive, stranded, slot>>

\* A time-out or a server error is tried again; other errors, a wrong checksum,
\* and the last attempt end the batch.
AttemptFails ==
    /\ batch.pc = "download"
    /\ \/ /\ batch.tries < MaxAttempts
          /\ batch' = [batch EXCEPT !.tries = @ + 1]
          /\ UNCHANGED lucky
       \/ BatchTells("error") /\ lucky' = FALSE
    /\ UNCHANGED <<have, archive, stranded, slot>>

\* Only an item with a checksum replaces what is at the place it downloads to,
\* which for an encoder is its archive.
InTheWay(i) ==
    i \notin Pinned /\ IF i \in Encoders THEN i \in archive ELSE have[i] # "absent"

Downloaded ==
    /\ batch.pc = "download"
    /\ ~InTheWay(Ahead)
    /\ IF Ahead \in Encoders
       THEN /\ archive' = archive \cup {Ahead}
            /\ batch' = [batch EXCEPT !.pc = "extract"]
            /\ UNCHANGED have
       ELSE /\ have' = [have EXCEPT ![Ahead] = "whole"]
            /\ batch' = [batch EXCEPT !.pc = "next", !.todo = Tail(@)]
            /\ UNCHANGED archive
    /\ UNCHANGED <<lucky, stranded, slot>>

Refused ==
    /\ batch.pc = "download"
    /\ InTheWay(Ahead)
    /\ BatchTells("error")
    /\ UNCHANGED <<have, archive, lucky, stranded, slot>>

\* The replacement of a file with a checksum moves the old one away first; the
\* new one may then not come.
ReplaceFails ==
    /\ batch.pc = "download" /\ Ahead \in Pinned \cap Models
    /\ have' \in {have, [have EXCEPT ![Ahead] = "absent"]}
    /\ BatchTells("error") /\ lucky' = FALSE
    /\ UNCHANGED <<archive, stranded, slot>>

\* Staged beside the directory, then renamed.
ExtractEncoder ==
    /\ batch.pc = "extract"
    /\ \E ok \in BOOLEAN :
        /\ have' = IF ok THEN [have EXCEPT ![Ahead] = "whole"] ELSE have
        /\ batch' = [batch EXCEPT !.pc = "clean", !.extracted = ok]
        /\ lucky' = (lucky /\ ok)
    /\ UNCHANGED <<archive, stranded, slot>>

\* Mutant: an archive that could not be extracted stays.
CleanExtracted ==
    /\ batch.pc = "clean"
    /\ IF batch.extracted
       THEN batch' = [batch EXCEPT !.pc = "next", !.todo = Tail(@)] /\ archive' = archive \ {Ahead}
       ELSE BatchTells("error") /\ UNCHANGED archive
    /\ UNCHANGED <<have, lucky, stranded, slot>>

\* The archive is removed before the outcome of its extraction is looked at.
CleanArchive ==
    /\ batch.pc = "clean"
    /\ archive' = archive \ {Ahead} /\ stranded' = stranded \ {Ahead}
    /\ IF batch.extracted
       THEN batch' = [batch EXCEPT !.pc = "next", !.todo = Tail(@)]
       ELSE BatchTells("error")
    /\ UNCHANGED <<have, lucky, slot>>

\* It cannot be removed.
NotCleaned ==
    /\ batch.pc = "clean"
    /\ BatchTells("error") /\ lucky' = FALSE
    /\ stranded' = stranded \cup {Ahead}
    /\ UNCHANGED <<have, archive, slot>>

ModelsCrash ==
    /\ batch' = NoBatch
    /\ stranded' = archive
    /\ UNCHANGED <<have, archive, lucky>>

BatchStep ==
    \/ StartModels \/ EndModels \/ NextItem \/ Downloaded \/ Refused \/ ExtractEncoder
    \/ CleanArchive

BatchFails == ModelsBusy \/ BatchCancelled \/ AttemptFails \/ ReplaceFails
=============================================================================
