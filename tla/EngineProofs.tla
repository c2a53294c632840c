----------------------------- MODULE EngineProofs -----------------------------
(***************************************************************************)
(* What a transcription calls, for every value of the constants: the       *)
(* groups of whisper-cli (WhisperHearsSpeechOnce), the windows of parakeet *)
(* (ParakeetHearsSpeechOnce) and the summary (SummaryIsOfItsText); and the *)
(* scans that start transcriptions by themselves (ScanQueuesOnce).         *)
(***************************************************************************)
EXTENDS WhisperBatch, ParakeetLong, SummaryPipeline, AutomaticImport,
        SequenceTheorems, FiniteSetTheorems, WellFoundedInduction, TLAPS

-----------------------------------------------------------------------------
(***************************************************************************)
(* Whisper. The invariant follows the loop over the groups. What is done   *)
(* before the group under way (Past) has all been confirmed, and its       *)
(* speech is in the texts; inside the group every chunk is either still    *)
(* given to a process or confirmed, and the confirmed speech is split      *)
(* between what this attempt holds and what the attempt on the GPU left.   *)
(***************************************************************************)
\* The chunks of the groups before g.
Past(g) == {c \in WhisperChunks : (c - 1) \div PerProcess < g - 1}
GroupCount == (ChunkCount + PerProcess - 1) \div PerProcess

\* The job that takes group after group.
GroupsAgree(w) ==
  /\ w.given \subseteq GroupOf(w.group)
  /\ w.confirmed \subseteq Past(w.group) \cup GroupOf(w.group)
  /\ Past(w.group) \subseteq w.confirmed
  /\ GroupOf(w.group) \subseteq w.given \cup w.confirmed
  /\ w.texts = w.heard \cap Past(w.group)
  /\ w.held \cup w.kept = w.heard \cap w.confirmed \cap GroupOf(w.group)
  /\ w.given \cap (w.held \cup w.kept) = {}
  /\ w.pass = "first" => w.held = {}
  /\ w.pass = "recovery" => w.given # {}
  /\ w.mode = "default" => w.kept = {}
  /\ w.mode = "default" /\ w.pass = "first" => w.given = GroupOf(w.group)

\* The job that is one process.
WholeAgrees(w) ==
  w.held = {} /\ w.kept = {} /\ w.texts = {} /\ w.confirmed = {}

Agrees(w) ==
  CASE w.at = "process" /\ w.whole -> WholeAgrees(w)
    [] w.at = "process" /\ ~w.whole -> GroupsAgree(w)
    [] w.at = "done" -> w.texts = w.heard /\ w.confirmed = WhisperChunks
    [] OTHER -> TRUE

WhisperInv == whisper \in Whisper /\ Agrees(whisper)

-----------------------------------------------------------------------------
(* The groups. *)

\* The groups are numbered from 1 without a gap, and each chunk is in one.
LEMMA GroupNumbers ==
  /\ GroupCount \in Nat \ {0}
  /\ Max(WhisperGroups) = GroupCount
  /\ \A c \in WhisperChunks : (c - 1) \div PerProcess \in 0..(GroupCount - 1)
<1>1. GroupCount \in Nat \ {0}
  BY WhisperAssumption, SMT DEF GroupCount
<1>2. \A c \in WhisperChunks : (c - 1) \div PerProcess \in 0..(GroupCount - 1)
  BY WhisperAssumption, SMT DEF GroupCount, WhisperChunks
<1>3. Max(WhisperGroups) = GroupCount
  <2>1. WhisperGroups = 1..GroupCount BY DEF WhisperGroups, GroupCount
  <2>2. GroupCount \in WhisperGroups /\ \A y \in WhisperGroups : GroupCount >= y
    BY <1>1, <2>1
  <2>3. \A x \in WhisperGroups : (\A y \in WhisperGroups : x >= y) => x = GroupCount
    BY <1>1, <2>1
  <2> QED BY <2>2, <2>3 DEF Max
<1> QED BY <1>1, <1>2, <1>3

\* The chunks before a group and those in it are apart, and together they are
\* those before the next one; nothing is before the first, all before the end.
LEMMA GroupsTile ==
  /\ Past(1) = {} /\ Past(GroupCount + 1) = WhisperChunks
  /\ \A g \in WhisperGroups :
       /\ GroupOf(g) \subseteq WhisperChunks /\ Past(g) \subseteq WhisperChunks
       /\ Past(g) \cap GroupOf(g) = {} /\ Past(g + 1) = Past(g) \cup GroupOf(g)
<1>1. Past(1) = {} /\ Past(GroupCount + 1) = WhisperChunks
  BY GroupNumbers DEF Past
<1>2. ASSUME NEW g \in WhisperGroups
      PROVE  /\ GroupOf(g) \subseteq WhisperChunks /\ Past(g) \subseteq WhisperChunks
             /\ Past(g) \cap GroupOf(g) = {} /\ Past(g + 1) = Past(g) \cup GroupOf(g)
  <2>1. g \in Nat BY GroupNumbers DEF WhisperGroups, GroupCount
  <2>2. \A c \in WhisperChunks : (c - 1) \div PerProcess \in Nat BY GroupNumbers
  <2> QED BY <2>1, <2>2 DEF Past, GroupOf
<1> QED BY <1>1, <1>2

-----------------------------------------------------------------------------
(* The ends of an attempt. Each lemma takes the job `w` as it is once the     *)
(* artifacts have been read.                                                 *)

\* What an attempt must leave behind to be continued with the chunks `rest`.
Continues(w, partial, rest) ==
  /\ rest \subseteq GroupOf(w.group)
  /\ w.confirmed \subseteq Past(w.group) \cup GroupOf(w.group)
  /\ Past(w.group) \subseteq w.confirmed /\ GroupOf(w.group) \subseteq rest \cup w.confirmed
  /\ w.texts = w.heard \cap Past(w.group)
  /\ partial = w.heard \cap w.confirmed \cap GroupOf(w.group)
  /\ rest \cap partial = {}

\* A job on its way through the groups.
Grouped(w) == w \in Whisper /\ w.at = "process" /\ ~w.whole

\* An attempt that fails ends the job, or goes on with what it must leave.
LEMMA BadEnd ==
  ASSUME whisper \in Whisper, NEW w, Grouped(w), NEW partial \in SUBSET WhisperChunks,
         NEW missing \in SUBSET WhisperChunks, NEW gpu \in BOOLEAN,
         AttemptEndsBadly(w, partial, missing, gpu),
         w.mode = "default" /\ (missing # {} \/ gpu)
           => Continues(w, partial, IF missing = {} THEN GroupOf(w.group) ELSE missing)
  PROVE  WhisperInv'
<1> w \in Whisper /\ w.at = "process" /\ ~w.whole BY DEF Grouped
<1> w.group \in WhisperGroups BY DEF Whisper
<1>1. CASE MayFallBack(w) /\ (missing # {} \/ gpu)
  <2> DEFINE rest == IF missing = {} THEN GroupOf(w.group) ELSE missing
  <2>1. whisper' = [w EXCEPT !.mode = "cpu", !.pass = "first", !.kept = partial, !.held = {},
                             !.given = rest]
    BY <1>1 DEF AttemptEndsBadly, ContinueOnCpu
  <2>2. Continues(w, partial, rest) BY <1>1 DEF MayFallBack
  <2>3. rest \in SUBSET WhisperChunks BY GroupsTile
  <2> HIDE DEF rest
  <2>4. whisper' \in Whisper BY <2>1, <2>3 DEF Whisper
  <2>5. /\ whisper'.at = "process" /\ ~whisper'.whole /\ whisper'.group = w.group
        /\ whisper'.given = rest /\ whisper'.confirmed = w.confirmed /\ whisper'.texts = w.texts
        /\ whisper'.heard = w.heard /\ whisper'.kept = partial /\ whisper'.held = {}
        /\ whisper'.pass = "first" /\ whisper'.mode = "cpu"
    BY <2>1 DEF Whisper
  <2>6. GroupsAgree(whisper') BY <2>2, <2>5 DEF GroupsAgree, Continues
  <2> QED BY <2>4, <2>5, <2>6 DEF WhisperInv, Agrees
<1>2. CASE ~(MayFallBack(w) /\ (missing # {} \/ gpu))
  <2>1. whisper' = [whisper EXCEPT !.at = "failed"]
    BY <1>2 DEF AttemptEndsBadly, WhisperFails
  <2> QED BY <2>1 DEF WhisperInv, Whisper, Agrees
<1> QED BY <1>1, <1>2

\* A group whose speech is complete is followed by the next one or by the end.
LEMMA GoodEnd ==
  ASSUME NEW w, Grouped(w), NEW output \in SUBSET WhisperChunks,
         whisper' = GroupDone(w, output),
         w.confirmed = Past(w.group) \cup GroupOf(w.group),
         w.texts = w.heard \cap Past(w.group), output = w.heard \cap GroupOf(w.group)
  PROVE  WhisperInv'
<1> DEFINE g == w.group
           texts == w.texts \cup output
<1>1. w \in Whisper /\ g \in WhisperGroups /\ g \in 1..GroupCount
  BY DEF Grouped, Whisper, WhisperGroups, GroupCount
<1>2. /\ w.confirmed = Past(g + 1) /\ texts = w.heard \cap Past(g + 1)
      /\ texts \in SUBSET WhisperChunks
  <2>1. Past(g + 1) = Past(g) \cup GroupOf(g) BY <1>1, GroupsTile
  <2>2. w.texts \in SUBSET WhisperChunks BY <1>1 DEF Whisper
  <2>3. w.confirmed = Past(g + 1) BY <2>1
  <2>4. texts = w.heard \cap Past(g + 1) BY <2>1
  <2>5. output \in SUBSET WhisperChunks OBVIOUS
  <2>6. texts \in SUBSET WhisperChunks BY <2>2, <2>5
  <2> HIDE DEF texts
  <2> QED BY <2>3, <2>4, <2>6
<1>3. CASE g = GroupCount
  <2>1. whisper' = [w EXCEPT !.at = "done", !.texts = texts]
    BY <1>3, GroupNumbers DEF GroupDone
  <2>2. w.heard \subseteq WhisperChunks BY <1>1 DEF Whisper
  <2>3. whisper'.at = "done" /\ whisper'.texts = w.heard /\ whisper'.confirmed = WhisperChunks
    <3>1. Past(g + 1) = WhisperChunks BY <1>3, GroupsTile
    <3>2. w.confirmed = WhisperChunks /\ texts = w.heard BY <1>2, <2>2, <3>1
    <3> HIDE DEF texts
    <3> QED BY <1>1, <2>1, <3>2 DEF Whisper
  <2>4. whisper' \in Whisper /\ whisper'.heard = w.heard BY <1>1, <1>2, <2>1 DEF Whisper
  <2> QED BY <2>3, <2>4 DEF WhisperInv, Agrees
<1>4. CASE g # GroupCount
  <2> DEFINE next == g + 1
  <2>1. whisper' = [w EXCEPT !.group = next, !.given = GroupOf(next), !.held = {}, !.kept = {},
                             !.pass = "first", !.mode = FirstMode(w.device), !.texts = texts]
    BY <1>4, GroupNumbers DEF GroupDone
  <2>2. next \in WhisperGroups
    BY <1>1, <1>4, GroupNumbers DEF WhisperGroups, GroupCount
  <2>3. FirstMode(w.device) \in {"default", "cpu"} BY DEF FirstMode
  <2>4. GroupOf(next) \in SUBSET WhisperChunks BY <2>2, GroupsTile
  <2> HIDE DEF next, texts
  <2>5. whisper' \in Whisper BY <1>1, <1>2, <2>1, <2>2, <2>3, <2>4 DEF Whisper
  <2>6. /\ whisper'.at = "process" /\ ~whisper'.whole /\ whisper'.group = next
        /\ whisper'.given = GroupOf(next) /\ whisper'.confirmed = w.confirmed
        /\ whisper'.texts = texts /\ whisper'.heard = w.heard /\ whisper'.held = {}
        /\ whisper'.kept = {} /\ whisper'.pass = "first"
    BY <1>1, <2>1 DEF Whisper, Grouped
  <2>7. w.confirmed = Past(next) /\ texts = w.heard \cap Past(next) BY <1>2 DEF next
  <2>8. Past(next) \cap GroupOf(next) = {} BY <2>2, GroupsTile
  <2>9. GroupsAgree(whisper') BY <2>6, <2>7, <2>8 DEF GroupsAgree
  <2> QED BY <2>5, <2>6, <2>9 DEF WhisperInv, Agrees
<1> QED BY <1>3, <1>4

-----------------------------------------------------------------------------
(* The steps. *)

\* The invariant, of a job that goes through the groups.
LEMMA GroupedAgrees ==
  ASSUME WhisperInv, Grouped(whisper)
  PROVE  /\ GroupsAgree(whisper) /\ whisper.group \in WhisperGroups
         /\ \A f \in {"given", "held", "kept", "texts", "confirmed", "heard"} :
              whisper[f] \in SUBSET WhisperChunks
         /\ whisper.mode \in {"default", "cpu"} /\ whisper.pass \in {"first", "recovery"}
BY DEF WhisperInv, Grouped, Agrees, Whisper

\* The artifacts that were found are read: the job is still of its type.
LEMMA FoundIsRead ==
  ASSUME WhisperInv, Grouped(whisper), NEW found \in SUBSET whisper.given
  PROVE  LET w == [whisper EXCEPT !.confirmed = @ \cup found]
         IN  /\ Grouped(w) /\ w.confirmed = whisper.confirmed \cup found
             /\ w.group = whisper.group /\ w.texts = whisper.texts /\ w.heard = whisper.heard
             /\ w.mode = whisper.mode /\ w.kept = whisper.kept /\ w.held = whisper.held
<1>1. found \in SUBSET WhisperChunks BY GroupedAgrees
<1> QED BY <1>1 DEF WhisperInv, Grouped, Whisper

\* The first process of an attempt ends.
LEMMA FirstStep ==
  ASSUME WhisperInv, NEW found \in SUBSET whisper.given, NEW gpu \in BOOLEAN,
         FirstPassEnds(found, gpu)
  PROVE  WhisperInv'
<1> DEFINE missing == whisper.given \ found
           w == [whisper EXCEPT !.confirmed = @ \cup found]
           speech == found \cap whisper.heard
<1>1. Grouped(whisper) /\ whisper.pass = "first"
  BY DEF FirstPassEnds, Grouped, WhisperInv
<1>2. GroupsAgree(whisper) /\ whisper.group \in WhisperGroups /\ speech \in SUBSET WhisperChunks
      /\ missing \in SUBSET WhisperChunks /\ whisper.held = {}
  BY <1>1, GroupedAgrees DEF GroupsAgree
<1>3. /\ Grouped(w) /\ w.confirmed = whisper.confirmed \cup found
      /\ w.group = whisper.group /\ w.texts = whisper.texts /\ w.heard = whisper.heard
      /\ w.mode = whisper.mode /\ w.kept = whisper.kept /\ w.held = whisper.held
  BY <1>1, FoundIsRead
<1>4. whisper \in Whisper BY DEF WhisperInv
<1>5. CASE missing = {} /\ speech = {}
  <2>1. AttemptEndsBadly(w, {}, {}, gpu) BY <1>5 DEF FirstPassEnds, AttemptComposes
  <2>2. w.mode = "default" => Continues(w, {}, GroupOf(w.group))
    BY <1>1, <1>2, <1>3, <1>5 DEF GroupsAgree, Continues
  <2> HIDE DEF w
  <2> QED BY <1>3, <1>4, <2>1, <2>2, BadEnd
<1>6. CASE missing = {} /\ speech # {}
  <2> DEFINE output == w.kept \cup speech
  <2>1. whisper' = GroupDone(w, output) BY <1>6 DEF FirstPassEnds, AttemptComposes
  <2>2. /\ w.confirmed = Past(w.group) \cup GroupOf(w.group)
        /\ w.texts = w.heard \cap Past(w.group) /\ output = w.heard \cap GroupOf(w.group)
    BY <1>1, <1>2, <1>3, <1>6 DEF GroupsAgree
  <2>3. output \in SUBSET WhisperChunks BY <1>1, <1>2, <1>3, GroupedAgrees
  <2> HIDE DEF w, output
  <2> QED BY <1>3, <2>1, <2>2, <2>3, GoodEnd
<1>7. CASE missing # {}
  <2>1. whisper' = [w EXCEPT !.held = speech, !.given = missing, !.pass = "recovery"]
    BY <1>7 DEF FirstPassEnds
  <2>2. w \in Whisper BY <1>3 DEF Grouped
  <2> HIDE DEF w, missing, speech
  <2>3. whisper' \in Whisper BY <1>2, <2>1, <2>2 DEF Whisper
  <2>4. /\ whisper'.at = "process" /\ ~whisper'.whole /\ whisper'.group = w.group
        /\ whisper'.given = missing /\ whisper'.confirmed = w.confirmed
        /\ whisper'.texts = w.texts /\ whisper'.heard = w.heard /\ whisper'.held = speech
        /\ whisper'.kept = w.kept /\ whisper'.pass = "recovery" /\ whisper'.mode = w.mode
    BY <1>3, <2>1, <2>2 DEF Whisper, Grouped
  <2>5. GroupsAgree(whisper')
    BY <1>1, <1>2, <1>3, <1>7, <2>4 DEF GroupsAgree, missing, speech
  <2> QED BY <2>3, <2>4, <2>5 DEF WhisperInv, Agrees
<1> QED BY <1>5, <1>6, <1>7

\* The process of the recovery ends.
LEMMA RecoveryStep ==
  ASSUME WhisperInv, NEW found \in SUBSET whisper.given, NEW gpu \in BOOLEAN,
         RecoveryEnds(found, gpu)
  PROVE  WhisperInv'
<1> DEFINE missing == whisper.given \ found
           w == [whisper EXCEPT !.confirmed = @ \cup found]
           speech == found \cap whisper.heard
           partial == whisper.held \cup speech
<1>1. Grouped(whisper) /\ whisper.pass = "recovery"
  BY DEF RecoveryEnds, Grouped, WhisperInv
<1>2. GroupsAgree(whisper) /\ whisper.group \in WhisperGroups /\ partial \in SUBSET WhisperChunks
      /\ missing \in SUBSET WhisperChunks /\ whisper.given # {}
      /\ whisper.given \in SUBSET WhisperChunks
  BY <1>1, GroupedAgrees DEF GroupsAgree
<1>3. /\ Grouped(w) /\ w.confirmed = whisper.confirmed \cup found
      /\ w.group = whisper.group /\ w.texts = whisper.texts /\ w.heard = whisper.heard
      /\ w.mode = whisper.mode /\ w.kept = whisper.kept /\ w.held = whisper.held
  BY <1>1, FoundIsRead
<1>4. whisper \in Whisper BY DEF WhisperInv
<1>5. CASE missing # {}
  <2>1. AttemptEndsBadly(w, partial, missing, gpu)
    BY <1>5 DEF RecoveryEnds, Recovered
  <2>2. w.mode = "default" => Continues(w, partial, missing)
    BY <1>1, <1>2, <1>3, <1>5 DEF GroupsAgree, Continues
  <2> HIDE DEF w, partial, missing
  <2> QED BY <1>2, <1>3, <1>4, <1>5, <2>1, <2>2, BadEnd
<1>6. CASE missing = {} /\ speech = {}
  <2>1. AttemptEndsBadly(w, whisper.held, whisper.given, gpu)
    BY <1>6 DEF RecoveryEnds, Recovered
  <2>2. w.mode = "default" => Continues(w, whisper.held, whisper.given)
    BY <1>1, <1>2, <1>3, <1>6 DEF GroupsAgree, Continues
  <2>3. whisper.held \in SUBSET WhisperChunks BY <1>1, GroupedAgrees
  <2> HIDE DEF w
  <2> QED BY <1>2, <1>3, <1>4, <2>1, <2>2, <2>3, BadEnd
<1>7. CASE missing = {} /\ speech # {}
  <2> DEFINE output == w.kept \cup partial
  <2>1. whisper' = GroupDone(w, output)
    BY <1>7 DEF RecoveryEnds, AttemptComposes, Recovered
  <2>2. /\ w.confirmed = Past(w.group) \cup GroupOf(w.group)
        /\ w.texts = w.heard \cap Past(w.group) /\ output = w.heard \cap GroupOf(w.group)
    BY <1>1, <1>2, <1>3, <1>7 DEF GroupsAgree
  <2>3. output \in SUBSET WhisperChunks BY <1>1, <1>2, <1>3, GroupedAgrees
  <2> HIDE DEF w, output
  <2> QED BY <1>3, <2>1, <2>2, <2>3, GoodEnd
<1> QED BY <1>5, <1>6, <1>7

\* A process is lost with everything it wrote.
LEMMA LossStep ==
  ASSUME WhisperInv, ProcessIsLost
  PROVE  WhisperInv'
<1>1. Grouped(whisper) BY DEF ProcessIsLost, Grouped, WhisperInv
<1>2. GroupsAgree(whisper) /\ whisper.held \in SUBSET WhisperChunks
      /\ whisper.given \in SUBSET WhisperChunks /\ whisper \in Whisper
  BY <1>1, GroupedAgrees DEF Grouped
<1>3. CASE whisper.pass = "first"
  <2>1. AttemptEndsBadly(whisper, {}, {}, FALSE) BY <1>3 DEF ProcessIsLost
  <2> QED BY <1>1, <1>2, <2>1, BadEnd
<1>4. CASE whisper.pass # "first"
  <2>1. AttemptEndsBadly(whisper, whisper.held, whisper.given, FALSE) BY <1>4 DEF ProcessIsLost
  <2>2. whisper.given # {} /\ (whisper.mode = "default" => Continues(whisper, whisper.held, whisper.given))
    BY <1>1, <1>2, <1>4 DEF GroupsAgree, Continues, Grouped, Whisper
  <2> QED BY <1>1, <1>2, <2>1, <2>2, BadEnd
<1> QED BY <1>3, <1>4

\* The single process ends.
LEMMA WholeStep ==
  ASSUME WhisperInv, NEW exitsWell \in BOOLEAN, NEW gpu \in BOOLEAN, WholeEnds(exitsWell, gpu)
  PROVE  WhisperInv'
<1>1. whisper \in Whisper /\ whisper.at = "process" /\ whisper.whole /\ WholeAgrees(whisper)
  BY DEF WholeEnds, WhisperInv, Agrees
<1>2. CASE exitsWell /\ whisper.heard # {}
  <2>1. whisper' = [whisper EXCEPT !.at = "done", !.texts = whisper.heard,
                                   !.confirmed = WhisperChunks]
    BY <1>2 DEF WholeEnds
  <2> QED BY <1>1, <2>1 DEF WhisperInv, Agrees, Whisper
<1>3. CASE ~(exitsWell /\ whisper.heard # {}) /\ gpu /\ MayFallBack(whisper)
  <2>1. whisper' = [whisper EXCEPT !.mode = "cpu"] BY <1>3 DEF WholeEnds
  <2> QED BY <1>1, <2>1 DEF WhisperInv, Agrees, WholeAgrees, Whisper
<1>4. CASE ~(exitsWell /\ whisper.heard # {}) /\ ~(gpu /\ MayFallBack(whisper))
  <2>1. whisper' = [whisper EXCEPT !.at = "failed"] BY <1>4 DEF WholeEnds, WhisperFails
  <2> QED BY <1>1, <2>1 DEF WhisperInv, Agrees, Whisper
<1> QED BY <1>2, <1>3, <1>4

-----------------------------------------------------------------------------
(* The theorem. *)

\* The invariant holds in every state of a job.
THEOREM WhisperInvariant == WhisperSpec => []WhisperInv
<1>1. WhisperInit => WhisperInv
  <2> SUFFICES ASSUME NEW heard \in SUBSET WhisperChunks, NEW device \in {"auto", "gpu", "cpu"},
                      NEW whole \in BOOLEAN,
                      whisper = [at |-> "process", whole |-> whole, device |-> device,
                                 heard |-> heard, group |-> 1, mode |-> FirstMode(device),
                                 pass |-> "first",
                                 given |-> IF whole THEN WhisperChunks ELSE GroupOf(1),
                                 held |-> {}, kept |-> {}, texts |-> {}, confirmed |-> {}]
               PROVE  WhisperInv
    BY DEF WhisperInit
  <2>1. 1 \in WhisperGroups BY GroupNumbers DEF WhisperGroups, GroupCount
  <2>2. GroupOf(1) \in SUBSET WhisperChunks /\ Past(1) = {} BY <2>1, GroupsTile
  <2>3. FirstMode(device) \in {"default", "cpu"} BY DEF FirstMode
  <2>4. whisper \in Whisper BY <2>1, <2>2, <2>3 DEF Whisper
  <2>5. CASE whole BY <2>4, <2>5 DEF WhisperInv, Agrees, WholeAgrees
  <2>6. CASE ~whole
    <3>1. GroupsAgree(whisper) BY <2>2, <2>6 DEF GroupsAgree
    <3> QED BY <2>4, <2>6, <3>1 DEF WhisperInv, Agrees
  <2> QED BY <2>5, <2>6
<1>2. WhisperInv /\ [WhisperNext]_whisperVars => WhisperInv'
  <2> SUFFICES ASSUME WhisperInv, [WhisperNext]_whisperVars PROVE WhisperInv'
    OBVIOUS
  <2>1. CASE WhisperNext
    BY <2>1, FirstStep, RecoveryStep, LossStep, WholeStep DEF WhisperNext
  <2>2. CASE UNCHANGED whisperVars
    BY <2>2 DEF whisperVars, WhisperInv, Agrees, WholeAgrees, GroupsAgree
  <2> QED BY <2>1, <2>2
<1> QED BY <1>1, <1>2, PTL DEF WhisperSpec

\* Whatever processes are lost, in whatever order: a transcription that is
\* returned holds the speech of every chunk, and no speech that was confirmed
\* is given to a process again or dropped (run_whisper_cli_chunk_groups).
THEOREM SpeechIsHeardOnce == WhisperSpec => []WhisperHearsSpeechOnce
<1>1. WhisperInv => WhisperHearsSpeechOnce
  <2> SUFFICES ASSUME WhisperInv PROVE WhisperHearsSpeechOnce
    OBVIOUS
  <2>1. WhisperTypeOK BY DEF WhisperInv, WhisperTypeOK
  <2>2. DoneIsWhole BY DEF WhisperInv, Agrees, DoneIsWhole
  <2>3. CASE whisper.at = "process" /\ whisper.whole
    BY <2>1, <2>2, <2>3
    DEF WhisperInv, Agrees, WholeAgrees, SpeechIsNotReplayed, ConfirmedSpeechIsHeld,
        WhisperHearsSpeechOnce
  <2>4. CASE Grouped(whisper)
    <3>1. /\ GroupsAgree(whisper) /\ whisper.group \in WhisperGroups
          /\ Past(whisper.group) \cap GroupOf(whisper.group) = {}
      BY <2>4, GroupedAgrees, GroupsTile
    <3>2. whisper.given \cap (whisper.held \cup whisper.kept \cup whisper.texts) = {}
      BY <3>1 DEF GroupsAgree
    <3>3. whisper.confirmed \cap whisper.heard = whisper.held \cup whisper.kept \cup whisper.texts
      BY <3>1 DEF GroupsAgree
    <3> QED BY <2>1, <2>2, <3>2, <3>3
            DEF SpeechIsNotReplayed, ConfirmedSpeechIsHeld, WhisperHearsSpeechOnce
  <2>5. CASE whisper.at # "process"
    BY <2>1, <2>2, <2>5 DEF SpeechIsNotReplayed, ConfirmedSpeechIsHeld, WhisperHearsSpeechOnce
  <2> QED BY <2>3, <2>4, <2>5 DEF WhisperInv, Grouped
<1> QED BY <1>1, WhisperInvariant, PTL

-----------------------------------------------------------------------------
(***************************************************************************)
(* Parakeet. The invariant ties the windows that are still planned to the  *)
(* rows that are committed: the plan is a chain that begins where the rows *)
(* end and, unless it is the one window tried by itself, reaches the end   *)
(* of the recording; and every committed row is valid for its window.      *)
(***************************************************************************)
RowsFit(p) ==
  /\ rows \in Seq(Row) /\ RowsTile
  /\ \A i \in DOMAIN rows : RowIsValid(p, rows[i].window, rows[i].words)

Chain(plan) == \A i \in 1..(Len(plan) - 1) : plan[i + 1][1] = plan[i][2]

PlanFits(p) ==
  /\ Chain(p.plan)
  /\ p.plan # <<>> => p.plan[1][1] = ResumeAt(rows)
  /\ p.as # "alone" /\ p.plan # <<>> => p.plan[Len(p.plan)][2] = AudioEnd
  /\ p.as # "alone" /\ p.plan = <<>> => Covered(rows)

ParakeetInv ==
  /\ parakeet \in Parakeet /\ RowsFit(parakeet)
  /\ parakeet.at = "worker" => PlanFits(parakeet)
  /\ parakeet.at = "done" => Covered(rows)

-----------------------------------------------------------------------------
(* Windows. *)

\* A plan is a chain of windows from its start to the end of the recording.
LEMMA PlanReachesEnd ==
  ASSUME NEW start \in 0..(AudioEnd - 1), NEW size \in Nat, NEW plan \in WindowsFrom(start, size)
  PROVE  /\ plan \in Seq(Window) /\ plan # <<>> /\ Chain(plan)
         /\ plan[1][1] = start /\ plan[Len(plan)][2] = AudioEnd
<1>1. PICK ends \in EndsFrom(start, size) :
             plan = [i \in DOMAIN ends |-> <<Begin(start, ends, i), ends[i]>>]
  BY DEF WindowsFrom
<1>2. PICK n \in 1..(AudioEnd - start) : ends \in [1..n -> (start + 1)..AudioEnd]
  BY DEF EndsFrom
<1>3. AudioEnd \in Nat /\ n \in Nat /\ n >= 1 BY ParakeetAssumption
<1>4. DOMAIN ends = 1..n /\ Len(ends) = n BY <1>2, <1>3
<1>5. ends[n] = AudioEnd BY <1>1, <1>4 DEF EndsFrom
<1>6. \A i \in 1..n : Begin(start, ends, i) < ends[i] BY <1>1, <1>4 DEF EndsFrom
<1>7. \A i \in 1..n : Begin(start, ends, i) \in 0..AudioEnd /\ ends[i] \in 0..AudioEnd
  BY <1>2, <1>3 DEF Begin
<1>8. \A i \in 1..n : plan[i] = <<Begin(start, ends, i), ends[i]>> /\ plan[i] \in Window
  BY <1>1, <1>4, <1>6, <1>7 DEF Window
<1>9. DOMAIN plan = 1..n BY <1>1, <1>4
<1>10. plan \in [1..n -> Window] BY <1>1, <1>4, <1>8
<1>11. plan \in Seq(Window) /\ Len(plan) = n BY <1>3, <1>9, <1>10
<1>12. Chain(plan)
  <2> SUFFICES ASSUME NEW i \in 1..(n - 1) PROVE plan[i + 1][1] = plan[i][2]
    BY <1>11 DEF Chain
  <2>1. i \in 1..n /\ i + 1 \in 1..n /\ i + 1 # 1 /\ (i + 1) - 1 = i BY <1>3
  <2> QED BY <1>8, <2>1 DEF Begin
<1> QED BY <1>3, <1>5, <1>8, <1>11, <1>12 DEF Begin

\* What is left of a sequence without its head.
LEMMA TailFacts ==
  ASSUME NEW S, NEW s \in Seq(S), s # <<>>
  PROVE  /\ Tail(s) \in Seq(S) /\ Len(Tail(s)) = Len(s) - 1
         /\ Len(s) = 1 => Tail(s) = <<>>
         /\ Len(s) > 1 => Tail(s) # <<>>
         /\ \A i \in 1..(Len(s) - 1) : Tail(s)[i] = s[i + 1]
<1>1. Tail(s) \in Seq(S) /\ Len(Tail(s)) = Len(s) - 1 /\ Len(s) \in Nat OBVIOUS
<1>2. Tail(s) = <<>> <=> Len(Tail(s)) = 0 BY <1>1, EmptySeq
<1>3. \A i \in 1..(Len(s) - 1) : Tail(s)[i] = s[i + 1] OBVIOUS
<1> QED BY <1>1, <1>2, <1>3

\* The end of the committed audio is a time of the recording.
LEMMA ResumeInside ==
  ASSUME rows \in Seq(Row)
  PROVE  ResumeAt(rows) \in 0..AudioEnd
<1>1. CASE rows = <<>> BY <1>1, ParakeetAssumption DEF ResumeAt
<1>2. CASE rows # <<>>
  <2>1. Len(rows) \in DOMAIN rows /\ rows[Len(rows)] \in Row BY <1>2
  <2> QED BY <1>2, <2>1 DEF ResumeAt, Last, Row, Window
<1> QED BY <1>1, <1>2

-----------------------------------------------------------------------------
(* The ends of a worker. Each takes the job `p` as the error left it.        *)

\* A job at work with rows that fit.
AtWork(p) == p \in Parakeet /\ p.at = "worker" /\ RowsFit(p)

\* The job ends without a transcript.
LEMMA FailureFits ==
  ASSUME NEW p, AtWork(p), UNCHANGED rows, ParakeetFails(p)
  PROVE  ParakeetInv'
<1>1. parakeet' \in Parakeet /\ parakeet'.at = "failed" /\ parakeet'.voiced = p.voiced
  BY DEF AtWork, ParakeetFails, Parakeet
<1> QED BY <1>1 DEF AtWork, ParakeetInv, RowsFit, RowsTile, RowIsValid, Voiced

\* The rows are merged, or the job ends.
LEMMA MergeFits ==
  ASSUME NEW p, AtWork(p), UNCHANGED rows, Merges(p, rows)
  PROVE  ParakeetInv'
<1>1. CASE ParakeetFails(p) BY <1>1, FailureFits
<1>2. CASE Covered(rows) /\ parakeet' = [p EXCEPT !.at = "done"]
  <2>1. parakeet' \in Parakeet /\ parakeet'.at = "done" /\ parakeet'.voiced = p.voiced
    BY <1>2 DEF AtWork, Parakeet
  <2> QED BY <1>2, <2>1
          DEF AtWork, ParakeetInv, RowsFit, RowsTile, RowIsValid, Voiced, Covered, ResumeAt
<1> QED BY <1>1, <1>2 DEF Merges

\* The rest is planned again, from where the rows end.
LEMMA ReplanFits ==
  ASSUME NEW p, AtWork(p), UNCHANGED rows, ~Covered(rows), NEW size \in Nat,
         NEW plan \in WindowsFrom(ResumeAt(rows), size),
         NEW as \in {"windows", "cpu"}, NEW attempt \in 1..Len(WindowSizes),
         parakeet' = [p EXCEPT !.as = as, !.attempt = attempt, !.plan = plan]
  PROVE  ParakeetInv'
<1>1. ResumeAt(rows) \in 0..(AudioEnd - 1)
  BY ResumeInside, ParakeetAssumption DEF AtWork, RowsFit, Covered
<1>2. /\ plan \in Seq(Window) /\ plan # <<>> /\ Chain(plan)
      /\ plan[1][1] = ResumeAt(rows) /\ plan[Len(plan)][2] = AudioEnd
  BY <1>1, PlanReachesEnd
<1>3. /\ parakeet' \in Parakeet /\ parakeet'.at = "worker" /\ parakeet'.voiced = p.voiced
      /\ parakeet'.plan = plan /\ parakeet'.as # "alone"
  BY <1>2 DEF AtWork, Parakeet
<1>4. PlanFits(parakeet)' BY <1>2, <1>3 DEF PlanFits, ResumeAt
<1> QED BY <1>3, <1>4 DEF AtWork, ParakeetInv, RowsFit, RowsTile, RowIsValid, Voiced

\* What follows the last window size: a merge, a failure or the CPU.
LEMMA AfterTheSizesFits ==
  ASSUME NEW p, AtWork(p), UNCHANGED rows, AfterTheSizes(p, rows)
  PROVE  ParakeetInv'
<1>1. CASE Merges(p, rows) BY <1>1, MergeFits
<1>2. CASE ParakeetFails(p) BY <1>2, FailureFits
<1>3. CASE /\ ~Covered(rows)
           /\ \E plan \in WindowsFrom(ResumeAt(rows), 1) :
                parakeet' = [p EXCEPT !.as = "cpu", !.plan = plan]
  <2>1. PICK plan \in WindowsFrom(ResumeAt(rows), 1) :
               parakeet' = [p EXCEPT !.as = "cpu", !.plan = plan]
    BY <1>3
  <2>2. p.attempt \in 1..Len(WindowSizes) /\ p \in Parakeet BY DEF AtWork, Parakeet
  <2>3. parakeet' = [p EXCEPT !.as = "cpu", !.attempt = p.attempt, !.plan = plan]
    BY <2>1, <2>2 DEF Parakeet
  <2> QED BY <1>3, <2>2, <2>3, ReplanFits
<1> DEFINE toCpu == p.device = "auto" /\ Retryable(p.error)
<1>4. CASE ~toCpu BY <1>1, <1>4 DEF AfterTheSizes
<1>5. CASE toCpu /\ Covered(rows) /\ p.timed BY <1>1, <1>5 DEF AfterTheSizes
<1>6. CASE toCpu /\ Covered(rows) /\ ~p.timed BY <1>2, <1>6 DEF AfterTheSizes
<1>7. CASE toCpu /\ ~Covered(rows) BY <1>3, <1>7 DEF AfterTheSizes
<1> QED BY <1>4, <1>5, <1>6, <1>7

\* The next window size, or what follows the last one.
LEMMA NextSizeFits ==
  ASSUME NEW p, AtWork(p), UNCHANGED rows, NextSize(p, rows)
  PROVE  ParakeetInv'
<1>1. CASE AfterTheSizes(p, rows) BY <1>1, AfterTheSizesFits
<1>2. CASE ParakeetFails(p) BY <1>2, FailureFits
<1>3. p.attempt \in 1..Len(WindowSizes) /\ Len(WindowSizes) \in Nat
  BY ParakeetAssumption DEF AtWork, Parakeet
<1>4. CASE /\ p.attempt < Len(WindowSizes) /\ ~Covered(rows)
           /\ \E plan \in WindowsFrom(ResumeAt(rows), WindowSizes[p.attempt + 1]) :
                parakeet' = [p EXCEPT !.as = "windows", !.attempt = @ + 1, !.plan = plan]
  <2>1. PICK plan \in WindowsFrom(ResumeAt(rows), WindowSizes[p.attempt + 1]) :
               parakeet' = [p EXCEPT !.as = "windows", !.attempt = @ + 1, !.plan = plan]
    BY <1>4
  <2>2. p.attempt + 1 \in 1..Len(WindowSizes) BY <1>3, <1>4
  <2>3. WindowSizes[p.attempt + 1] \in Nat BY <2>2, ParakeetAssumption
  <2>4. parakeet' = [p EXCEPT !.as = "windows", !.attempt = p.attempt + 1, !.plan = plan]
    BY <2>1
  <2> QED BY <1>4, <2>2, <2>3, <2>4, ReplanFits
<1>5. CASE p.attempt = Len(WindowSizes)
  <2>1. ~(p.attempt < Len(WindowSizes)) BY <1>3, <1>5
  <2>2. AfterTheSizes(p, rows) BY <1>5, <2>1 DEF NextSize
  <2> QED BY <1>1, <2>2
<1>6. CASE p.attempt < Len(WindowSizes) /\ Covered(rows) BY <1>1, <1>2, <1>3, <1>6 DEF NextSize
<1>7. CASE p.attempt < Len(WindowSizes) /\ ~Covered(rows)
  <2>1. p.attempt # Len(WindowSizes) BY <1>3, <1>7
  <2>2. \E plan \in WindowsFrom(ResumeAt(rows), WindowSizes[p.attempt + 1]) :
           parakeet' = [p EXCEPT !.as = "windows", !.attempt = @ + 1, !.plan = plan]
    BY <1>7, <2>1 DEF NextSize
  <2> QED BY <1>4, <1>7, <2>2
<1> QED BY <1>3, <1>5, <1>6, <1>7

\* A worker ends with an error.
LEMMA WorkerFailsFits ==
  ASSUME NEW p, AtWork(p), UNCHANGED rows, NEW error \in RowErrors, WorkerFails(p, error, rows)
  PROVE  ParakeetInv'
<1> DEFINE q == [p EXCEPT !.error = error]
<1>1. AtWork(q) BY DEF AtWork, Parakeet, RowsFit, RowIsValid, Voiced
<1>2. ParakeetFails(q) \/ NextSize(q, rows) BY DEF WorkerFails, AttemptFails
<1> HIDE DEF q
<1> QED BY <1>1, <1>2, FailureFits, NextSizeFits

-----------------------------------------------------------------------------
(* The steps. *)

\* A row that is valid is committed: the rows go on tiling the recording, and
\* the plan goes on where they end.
LEMMA RowStep ==
  ASSUME ParakeetInv, NEW words \in BOOLEAN, RowArrives(words)
  PROVE  ParakeetInv'
<1> DEFINE plan == parakeet.plan
           w == Head(plan)
           row == [window |-> w, words |-> words]
           n == Len(rows)
<1>1. /\ parakeet \in Parakeet /\ parakeet.at = "worker" /\ plan # <<>> /\ plan \in Seq(Window)
      /\ RowsFit(parakeet) /\ PlanFits(parakeet) /\ RowIsValid(parakeet, w, words)
  BY DEF RowArrives, ParakeetInv, Parakeet
<1>2. rows' = Append(rows, row) /\ parakeet' = [parakeet EXCEPT !.plan = Tail(plan)]
  BY DEF RowArrives
<1>3. w = plan[1] /\ w \in Window /\ w[1] = ResumeAt(rows) BY <1>1 DEF PlanFits
<1>4. row \in Row BY <1>3 DEF Row
<1>5. rows \in Seq(Row) /\ n \in Nat BY <1>1 DEF RowsFit
<1>6. rows' \in Seq(Row) /\ Len(rows') = n + 1 /\ rows'[n + 1] = row
      /\ \A i \in 1..n : rows'[i] = rows[i]
  BY <1>2, <1>4, <1>5
<1>7. ResumeAt(rows)' = w[2] BY <1>6 DEF ResumeAt, Last
<1>8. /\ Tail(plan) \in Seq(Window) /\ Len(Tail(plan)) = Len(plan) - 1
      /\ Len(plan) = 1 => Tail(plan) = <<>>
      /\ Len(plan) > 1 => Tail(plan) # <<>>
      /\ \A i \in 1..(Len(plan) - 1) : Tail(plan)[i] = plan[i + 1]
  BY <1>1, TailFacts
<1>9. /\ parakeet' \in Parakeet /\ parakeet'.at = "worker" /\ parakeet'.voiced = parakeet.voiced
      /\ parakeet'.plan = Tail(plan) /\ parakeet'.as = parakeet.as
  <2>1. parakeet.plan \in Seq(Window) /\ Tail(plan) \in Seq(Window) BY <1>1, <1>8
  <2> HIDE DEF plan
  <2> QED BY <1>1, <1>2, <2>1 DEF Parakeet
<1>10. RowsTile'
  <2> SUFFICES ASSUME NEW i \in 1..(n + 1)
               PROVE  rows'[i].window[1] = IF i = 1 THEN 0 ELSE rows'[i - 1].window[2]
    BY <1>6 DEF RowsTile
  <2>1. CASE i \in 1..n
    <3>1. i = 1 \/ i - 1 \in 1..n BY <1>5, <2>1
    <3> QED BY <1>1, <1>5, <1>6, <2>1, <3>1 DEF RowsFit, RowsTile
  <2>2. CASE i = n + 1
    <3>1. ResumeAt(rows) = IF n = 0 THEN 0 ELSE rows[n].window[2] BY <1>5 DEF ResumeAt, Last
    <3>2. n = 0 \/ n \in 1..n BY <1>5
    <3> QED BY <1>3, <1>5, <1>6, <2>2, <3>1, <3>2
  <2> QED BY <1>5, <2>1, <2>2
<1>11. RowsFit(parakeet)'
  <2> SUFFICES ASSUME NEW i \in 1..(n + 1)
               PROVE  RowIsValid(parakeet', rows'[i].window, rows'[i].words)
    BY <1>6, <1>10 DEF RowsFit, RowIsValid, Voiced
  <2>1. CASE i \in 1..n BY <1>1, <1>5, <1>6, <1>9, <2>1 DEF RowsFit, RowIsValid, Voiced
  <2>2. CASE i = n + 1 BY <1>1, <1>6, <1>9, <2>2 DEF RowIsValid, Voiced
  <2> QED BY <1>5, <2>1, <2>2
<1>12. Len(plan) \in Nat /\ (Len(plan) = 1 \/ Len(plan) > 1)
  <2>1. Len(plan) \in Nat \ {0} BY <1>1, EmptySeq
  <2>2. \A k \in Nat \ {0} : k \in Nat /\ (k = 1 \/ k > 1) OBVIOUS
  <2> HIDE DEF plan
  <2> QED BY <2>1, <2>2
<1>13. PlanFits(parakeet)'
  <2>1. Chain(Tail(plan))
    <3> SUFFICES ASSUME NEW i \in 1..(Len(plan) - 2)
                 PROVE  Tail(plan)[i + 1][1] = Tail(plan)[i][2]
      BY <1>8 DEF Chain
    <3>1. i \in 1..(Len(plan) - 1) /\ i + 1 \in 1..(Len(plan) - 1) BY <1>12
    <3> QED BY <1>1, <1>8, <3>1 DEF PlanFits, Chain
  <2>2. CASE Len(plan) = 1
    <3>1. Tail(plan) = <<>> BY <1>8, <2>2, Zenon
    <3>2. parakeet.as # "alone" => w[2] = AudioEnd BY <1>1, <1>3, <2>2 DEF PlanFits
    <3> QED BY <1>7, <1>9, <2>1, <3>1, <3>2 DEF PlanFits, Covered
  <2>3. CASE Len(plan) > 1
    <3>1. Tail(plan) # <<>> /\ Tail(plan)[1] = plan[2]
      <4>1. Tail(plan) # <<>> BY <1>8, <2>3, Zenon
      <4>2. 1 \in 1..(Len(plan) - 1) BY <1>12, <2>3
      <4>3. Tail(plan)[1] = plan[1 + 1] BY <1>8, <4>2, Zenon
      <4> QED BY <4>1, <4>3
    <3>2. plan[2][1] = plan[1][2] BY <1>1, <1>12, <2>3 DEF PlanFits, Chain
    <3>3. Tail(plan)[Len(Tail(plan))] = plan[Len(plan)] BY <1>8, <1>12, <2>3
    <3> QED BY <1>1, <1>3, <1>7, <1>9, <2>1, <3>1, <3>2, <3>3 DEF PlanFits
  <2> QED BY <1>12, <2>2, <2>3
<1> QED BY <1>9, <1>11, <1>13 DEF ParakeetInv

\* A window with speech and without words is tried alone, or the worker ends.
LEMMA WordlessStep ==
  ASSUME ParakeetInv, WordlessRow
  PROVE  ParakeetInv'
<1> DEFINE w == Head(parakeet.plan)
<1>1. /\ parakeet \in Parakeet /\ parakeet.at = "worker" /\ parakeet.plan # <<>>
      /\ parakeet.plan \in Seq(Window) /\ RowsFit(parakeet) /\ PlanFits(parakeet)
      /\ UNCHANGED rows
  BY DEF WordlessRow, ParakeetInv, Parakeet
<1>2. CASE parakeet' = [parakeet EXCEPT !.as = "alone", !.plan = <<w>>, !.tried = @ \cup {w}]
  <2>1. w \in Window /\ w = parakeet.plan[1] BY <1>1
  <2>2. <<w>> \in Seq(Window) /\ Len(<<w>>) = 1 /\ <<w>>[1] = w /\ <<w>> # <<>> BY <2>1
  <2>3. /\ parakeet' \in Parakeet /\ parakeet'.at = "worker" /\ parakeet'.as = "alone"
        /\ parakeet'.plan = <<w>> /\ parakeet'.voiced = parakeet.voiced
    BY <1>1, <1>2, <2>1, <2>2 DEF Parakeet
  <2>4. PlanFits(parakeet)' BY <1>1, <2>1, <2>2, <2>3 DEF PlanFits, Chain, ResumeAt
  <2> QED BY <1>1, <2>3, <2>4 DEF ParakeetInv, RowsFit, RowsTile, RowIsValid, Voiced
<1>3. CASE WorkerFails(parakeet, "wordless", rows)
  BY <1>1, <1>3, WorkerFailsFits DEF AtWork, RowErrors
<1> QED BY <1>2, <1>3 DEF WordlessRow

\* The worker breaks.
LEMMA BreakStep ==
  ASSUME ParakeetInv, NEW error \in {"memory", "other"}, WorkerBreaks(error)
  PROVE  ParakeetInv'
BY WorkerFailsFits DEF WorkerBreaks, ParakeetInv, AtWork, RowErrors

\* The worker has answered for all of its windows.
LEMMA EndStep ==
  ASSUME ParakeetInv, WorkerEnds
  PROVE  ParakeetInv'
<1>1. AtWork(parakeet) /\ UNCHANGED rows BY DEF WorkerEnds, ParakeetInv, AtWork
<1>2. CASE Merges(parakeet, rows) BY <1>1, <1>2, MergeFits
<1>3. CASE NextSize([parakeet EXCEPT !.error = "none"], rows)
  <2> DEFINE q == [parakeet EXCEPT !.error = "none"]
  <2>1. AtWork(q) BY <1>1 DEF AtWork, Parakeet, RowErrors, RowsFit, RowIsValid, Voiced
  <2> HIDE DEF q
  <2> QED BY <1>1, <1>3, <2>1, NextSizeFits DEF q
<1> QED BY <1>2, <1>3 DEF WorkerEnds

-----------------------------------------------------------------------------
(* The theorem. *)

\* The invariant holds in every state of a job.
THEOREM ParakeetInvariant == ParakeetSpec => []ParakeetInv
<1>1. ParakeetInit => ParakeetInv
  <2> SUFFICES ASSUME ParakeetInit PROVE ParakeetInv
    OBVIOUS
  <2>1. PICK device \in {"auto", "fixed"}, timed \in BOOLEAN, voiced \in SUBSET (0..(AudioEnd - 1)),
             plan \in WindowsFrom(0, WindowSizes[1]) :
               parakeet = [at |-> "worker", as |-> "windows", device |-> device, timed |-> timed,
                           voiced |-> voiced, attempt |-> 1, plan |-> plan, tried |-> {},
                           error |-> "none"]
    BY DEF ParakeetInit
  <2>2. 1 \in 1..Len(WindowSizes) /\ WindowSizes[1] \in Nat /\ 0 \in 0..(AudioEnd - 1)
    BY ParakeetAssumption
  <2>3. /\ plan \in Seq(Window) /\ plan # <<>> /\ Chain(plan)
        /\ plan[1][1] = 0 /\ plan[Len(plan)][2] = AudioEnd
    BY <2>2, PlanReachesEnd
  <2>4. parakeet \in Parakeet BY <2>1, <2>2, <2>3 DEF Parakeet, RowErrors
  <2>5. rows = <<>> BY DEF ParakeetInit
  <2>6. RowsFit(parakeet) BY <2>5 DEF RowsFit, RowsTile
  <2>7. PlanFits(parakeet) BY <2>1, <2>3, <2>5 DEF PlanFits, ResumeAt
  <2> QED BY <2>1, <2>4, <2>6, <2>7 DEF ParakeetInv
<1>2. ParakeetInv /\ [ParakeetNext]_parakeetVars => ParakeetInv'
  <2> SUFFICES ASSUME ParakeetInv, [ParakeetNext]_parakeetVars PROVE ParakeetInv'
    OBVIOUS
  <2>1. CASE ParakeetNext
    BY <2>1, RowStep, WordlessStep, BreakStep, EndStep DEF ParakeetNext
  <2>2. CASE UNCHANGED parakeetVars
    BY <2>2 DEF parakeetVars, ParakeetInv, RowsFit, RowsTile, RowIsValid, Voiced, PlanFits,
                Covered, ResumeAt
  <2> QED BY <2>1, <2>2
<1> QED BY <1>1, <1>2, PTL DEF ParakeetSpec

\* Through every retry, replan and change of the backend the committed rows
\* tile the recording, and a job that ends well has a row, with words where
\* there is speech, for all of it (run_long_file_transcription).
THEOREM RecordingIsHeardOnce == ParakeetSpec => []ParakeetHearsSpeechOnce
<1>1. ParakeetInv => ParakeetHearsSpeechOnce
  <2> SUFFICES ASSUME ParakeetInv PROVE ParakeetHearsSpeechOnce
    OBVIOUS
  <2>1. ParakeetTypeOK
    <3>1. parakeet \in Parakeet /\ rows \in Seq(Row) BY DEF ParakeetInv, RowsFit
    <3>2. Range(rows) \subseteq Row BY <3>1 DEF Range
    <3>3. parakeet.plan \in Seq(Window) BY <3>1 DEF Parakeet
    <3>4. Range(parakeet.plan) \subseteq Window BY <3>3 DEF Range
    <3> QED BY <3>1, <3>2, <3>4 DEF Parakeet, ParakeetTypeOK
  <2>2. RowsTile BY DEF ParakeetInv, RowsFit
  <2>3. WorkerIsAhead BY DEF ParakeetInv, PlanFits, WorkerIsAhead, Parakeet
  <2>4. DoneIsHeard BY DEF ParakeetInv, RowsFit, RowIsValid, DoneIsHeard
  <2> QED BY <2>1, <2>2, <2>3, <2>4 DEF ParakeetHearsSpeechOnce
<1> QED BY <1>1, ParakeetInvariant, PTL

-----------------------------------------------------------------------------
(***************************************************************************)
(* Summaries: SummaryIsOfItsText, for every number of requests, of chunks  *)
(* and of notes that the cache keeps.                                      *)
(*                                                                         *)
(* The invariant says of the cache that each note is about what its key    *)
(* says, and of a request which chunks it has noted, before it has them    *)
(* all, and that a way which leaves the chunks out is one with a single    *)
(* chunk.                                                                  *)
(***************************************************************************)

OwnNote(q, i) == [text |-> q.text, mode |-> q.mode, chunk |-> i]

\* A note in the cache is about what its key says.
CacheIsTrue == noteCache \subseteq {<<<<n.text, n.mode, n.chunk>>, n>> : n \in Note}

\* What a request has noted is its own, and it has tried what its error excuses.
Follows(q) ==
  /\ q.at \notin {"chunks", "synthesis"} => \A i \in ChunkNumbers : q.ended[i] = "no"
  /\ q.at = "again" => q.count = 1
  /\ q.at \in {"chunks", "synthesis"} => q.tried = "chunks"
  /\ q.at = "failed" /\ q.why = "overflow" => q.count = 1 \/ q.tried = "chunks"
  /\ q.at = "chunks" =>
       \A i \in 1..q.count : q.ended[i] = "noted" => q.notes[i] = OwnNote(q, i)
  /\ q.at = "synthesis" =>
       q.shown \in 1..q.count /\ \A i \in 1..q.count : q.notes[i] = OwnNote(q, i)

SummaryInv ==
  /\ summary \in [Summaries -> Summary] /\ CacheIsTrue
  /\ \A r \in Summaries : Follows(summary[r])

\* A set of positive numbers that is not empty has a least one: the shortest of
\* the intervals that end in it.
LEMMA LeastOne ==
  ASSUME NEW n \in Nat, NEW F \in SUBSET (1..n), F # {}
  PROVE  \E m \in F : \A k \in F : m <= k
<1> DEFINE T == {1..k : k \in F}
           All == 1..n
<1>1. IsFiniteSet(All) BY FS_Interval
<1>2. \A k \in F : 1..k \in SUBSET All BY DEF All
<1>3. \A k \in F : IsFiniteSet(1..k)
  <2> TAKE k \in F
  <2> QED BY <1>1, <1>2, FS_Subset
<1>4. T \subseteq FiniteSubsetsOf(All) BY <1>2, <1>3 DEF FiniteSubsetsOf
<1>5. T # {} OBVIOUS
<1>6. IsWellFoundedOn(StrictSubsetOrdering(All), FiniteSubsetsOf(All))
  BY FS_StrictSubsetOrderingWellFounded
<1>7. PICK x \in T : \A y \in T : ~(<<y, x>> \in StrictSubsetOrdering(All))
  BY <1>4, <1>5, <1>6, WFMin
<1>8. PICK m \in F : x = 1..m OBVIOUS
<1>9. ASSUME NEW k \in F, ~(m <= k) PROVE FALSE
  <2>1. 1..k \in T /\ 1..m \in SUBSET All /\ 1..k \in SUBSET All BY <1>2
  <2>2. k \in Nat /\ m \in Nat /\ k < m /\ m >= 1 BY <1>9
  <2>3. 1..k \subseteq 1..m /\ m \in 1..m /\ m \notin 1..k BY <2>2
  <2>4. <<1..k, 1..m>> \in StrictSubsetOrdering(All)
    BY <2>1, <2>3 DEF StrictSubsetOrdering
  <2> QED BY <1>7, <1>8, <2>1, <2>4
<1> QED BY <1>9

\* Once as many chunks as there are have been yielded, each has ended.
LEMMA AllYielded ==
  ASSUME NEW q \in Summary, Yielded(q) = q.count
  PROVE  \A i \in 1..q.count : q.ended[i] # "no"
<1> DEFINE first == {i \in 1..q.count : \A k \in 1..i : q.ended[k] # "no"}
<1>1. q.count \in Nat /\ q.count >= 1 BY SummaryAssumption DEF Summary, ChunkNumbers
<1>2. IsFiniteSet(1..q.count) /\ Cardinality(1..q.count) = q.count BY <1>1, FS_Interval
<1>3. first \in SUBSET (1..q.count) /\ Cardinality(first) = q.count BY DEF Yielded
<1>4. first = 1..q.count BY <1>2, <1>3, FS_Subset
<1> QED
  <2> TAKE i \in 1..q.count
  <2>1. i \in first /\ i \in 1..i BY <1>1, <1>4
  <2> QED BY <2>1

\* The first error by order of the chunks is the error of one of them.
LEMMA FirstError ==
  ASSUME NEW q \in Summary, FailedChunks(q) # {},
         NEW why, why = q.ended[CHOOSE i \in FailedChunks(q) : \A k \in FailedChunks(q) : i <= k]
  PROVE  why \in {"overflow", "error"}
<1>1. q.count \in Nat BY SummaryAssumption DEF Summary, ChunkNumbers
<1>2. FailedChunks(q) \in SUBSET (1..q.count) BY DEF FailedChunks
<1>3. \E m \in FailedChunks(q) : \A k \in FailedChunks(q) : m <= k BY <1>1, <1>2, LeastOne
<1>4. PICK m \in FailedChunks(q) : why = q.ended[m] BY <1>3
<1> QED BY <1>4 DEF FailedChunks

-----------------------------------------------------------------------------
(* What a request becomes. *)

\* The constants and the fields of a request as the provers need them.
LEMMA Fields ==
  ASSUME NEW q \in Summary
  PROVE  /\ q.count \in ChunkNumbers /\ q.tried \in {"direct", "chunks"}
         /\ q.ended \in [ChunkNumbers -> {"no", "noted", "overflow", "error"}]
         /\ q.asks \in [ChunkNumbers -> 0..NotePrompts]
         /\ q.notes \in [ChunkNumbers -> Note \cup {NoNote}]
         /\ q.left \in 0..SynthesisPrompts /\ q.shown \in 0..ChunkLimit
         /\ 0 \in 0..ChunkLimit /\ 1..q.count \subseteq 0..ChunkLimit
         /\ 1..q.count \subseteq ChunkNumbers
         /\ \A i \in ChunkNumbers : OwnNote(q, i) \in Note
         /\ 1 \in 0..SynthesisPrompts /\ 2 \in 0..SynthesisPrompts
         /\ SynthesisPrompts \in 0..SynthesisPrompts /\ NotePrompts \in 0..NotePrompts
         /\ 0 \in 0..NotePrompts /\ 0 \in 0..SynthesisPrompts
BY SummaryAssumption DEF Summary, ChunkNumbers, OwnNote, Note

LEMMA ReturnsFits ==
  ASSUME NEW q \in Summary, NEW result \in {"done", "failed"}
  PROVE  LET p == Returns(q, result)
         IN  /\ p \in Summary /\ p.at = result /\ p.count = q.count /\ p.tried = q.tried
             /\ p.why = q.why /\ \A i \in ChunkNumbers : p.ended[i] = "no"
BY Fields DEF Returns, Summary

\* A request that ends with a summary.
LEMMA DoneFits ==
  ASSUME NEW q \in Summary
  PROVE  Done(q) \in Summary /\ Follows(Done(q))
BY ReturnsFits DEF Done, Follows

\* A request that fails: for its length only with the chunks tried.
LEMMA FailsFits ==
  ASSUME NEW q \in Summary, NEW why \in {"overflow", "error"},
         why = "overflow" => q.count = 1 \/ q.tried = "chunks"
  PROVE  Fails(q, why) \in Summary /\ Follows(Fails(q, why))
<1> DEFINE p == Returns(q, "failed")
<1>1. /\ p \in Summary /\ p.at = "failed" /\ p.count = q.count /\ p.tried = q.tried
      /\ \A i \in ChunkNumbers : p.ended[i] = "no"
  BY ReturnsFits
<1>2. Fails(q, why) = [p EXCEPT !.why = why] BY DEF Fails
<1> HIDE DEF p
<1> QED BY <1>1, <1>2 DEF Follows, Summary

\* A request about which nothing is noted yet.
Untried(q) == q \in Summary /\ \A i \in ChunkNumbers : q.ended[i] = "no"

LEMMA AgainFits ==
  ASSUME NEW q, Untried(q), NEW prompts \in 1..2, q.count = 1
  PROVE  LET p == Again(q, prompts)
         IN  Untried(p) /\ Follows(p) /\ p.at = "again" /\ p.count = 1 /\ p.tried = q.tried
<1> DEFINE p == Again(q, prompts)
<1>1. q \in Summary /\ prompts \in 0..SynthesisPrompts BY Fields DEF Untried
<1>2. p = [q EXCEPT !.at = "again", !.left = prompts] BY DEF Again
<1>3. p \in Summary BY <1>1, <1>2 DEF Summary
<1>4. p.at = "again" /\ p.count = q.count /\ p.ended = q.ended /\ p.tried = q.tried
  BY <1>1, <1>2 DEF Summary
<1> HIDE DEF p
<1>5. Untried(p) BY <1>3, <1>4 DEF Untried
<1>6. Follows(p) BY <1>4 DEF Follows, Untried
<1> QED BY <1>4, <1>5, <1>6 DEF p

LEMMA ToChunksFits ==
  ASSUME NEW q, Untried(q)
  PROVE  ToChunks(q) \in Summary /\ Follows(ToChunks(q))
<1>1. CASE q.count = 1
  <2> DEFINE p == Again(q, 1)
  <2>1. Untried(p) /\ Follows(p) /\ p.at = "again" /\ p.count = 1 BY <1>1, AgainFits
  <2>2. ToChunks(q) = [p EXCEPT !.tried = "chunks"] BY <1>1 DEF ToChunks
  <2> HIDE DEF p
  <2> QED BY <2>1, <2>2 DEF Follows, Untried, Summary
<1>2. CASE q.count # 1
  <2>1. ToChunks(q) = [q EXCEPT !.at = "chunks", !.tried = "chunks"]
    BY <1>2 DEF ToChunks
  <2>2. q \in Summary /\ 1..q.count \subseteq ChunkNumbers BY Fields DEF Untried
  <2>3. ToChunks(q) \in Summary BY <2>1, <2>2 DEF Summary
  <2> DEFINE p == ToChunks(q)
  <2>4. p.at = "chunks" /\ p.count = q.count /\ p.ended = q.ended /\ p.tried = "chunks"
    BY <2>1, <2>2 DEF Summary
  <2> HIDE DEF p
  <2>5. Follows(p) BY <2>2, <2>4 DEF Follows, Untried
  <2> QED BY <2>3, <2>5 DEF p
<1> QED BY <1>1, <1>2

LEMMA ToCompactFits ==
  ASSUME NEW q, Untried(q)
  PROVE  ToCompact(q) \in Summary /\ Follows(ToCompact(q))
BY Fields DEF ToCompact, Follows, Untried, Summary
-----------------------------------------------------------------------------
(* The steps. *)

\* A step gives one request what it has become.
LEMMA OneMoves ==
  ASSUME SummaryInv, CacheIsTrue', NEW r \in Summaries, NEW p \in Summary, Follows(p),
         summary' = [summary EXCEPT ![r] = p]
  PROVE  SummaryInv'
<1>1. summary \in [Summaries -> Summary] BY DEF SummaryInv
<1>2. summary' \in [Summaries -> Summary] BY <1>1
<1>3. \A s \in Summaries : summary'[s] = IF s = r THEN p ELSE summary[s] BY <1>1
<1>4. ASSUME NEW s \in Summaries PROVE Follows(summary'[s])
  <2>1. Follows(summary[s]) BY DEF SummaryInv
  <2>2. CASE s = r BY <1>3, <2>2
  <2>3. CASE s # r BY <1>3, <2>1, <2>3
  <2> QED BY <2>2, <2>3
<1> QED BY <1>2, <1>4 DEF SummaryInv

LEMMA BeginsStep ==
  ASSUME SummaryInv, NEW r \in Summaries, NEW strategy \in Strategies, NEW single \in BOOLEAN,
         SummaryBegins(r, strategy, single)
  PROVE  SummaryInv'
<1> DEFINE q == summary[r]
<1>1. q \in Summary /\ Follows(q) /\ q.at = "idle" /\ CacheIsTrue'
  BY DEF SummaryInv, SummaryBegins, CacheIsTrue
<1>2. Untried(q) BY <1>1 DEF Untried, Follows
<1>3. CASE strategy = "full"
  <2> DEFINE p == [q EXCEPT !.at = "full"]
  <2>1. summary' = [summary EXCEPT ![r] = p] BY <1>3 DEF SummaryBegins
  <2>2. p \in Summary BY <1>1 DEF Summary
  <2>3. p.at = "full" /\ p.ended = q.ended BY <1>1 DEF Summary
  <2> HIDE DEF p
  <2>4. Follows(p) BY <1>2, <2>3 DEF Follows, Untried
  <2> QED BY <1>1, <2>1, <2>2, <2>4, OneMoves
<1>4. CASE strategy = "compact"
  <2>1. summary' = [summary EXCEPT ![r] = ToCompact(q)] BY <1>4 DEF SummaryBegins
  <2>2. ToCompact(q) \in Summary /\ Follows(ToCompact(q)) BY <1>2, ToCompactFits
  <2> QED BY <1>1, <2>1, <2>2, OneMoves
<1>5. CASE strategy = "chunks"
  <2>1. summary' = [summary EXCEPT ![r] = ToChunks(q)] BY <1>5 DEF SummaryBegins
  <2>2. ToChunks(q) \in Summary /\ Follows(ToChunks(q)) BY <1>2, ToChunksFits
  <2> QED BY <1>1, <2>1, <2>2, OneMoves
<1> QED BY <1>3, <1>4, <1>5 DEF Strategies

\* What may follow an answer to a direct prompt.
LEMMA CompactCases ==
  ASSUME NEW q \in Summary, NEW answer \in Answers
  PROVE  \/ AfterCompact(q, answer) = Done(q)
         \/ q.count = 1 /\ AfterCompact(q, answer) = Again(q, 1)
         \/ AfterCompact(q, answer) = ToChunks(q)
         \/ /\ answer = "overflow" => q.count = 1
            /\ answer \in {"overflow", "error"} /\ AfterCompact(q, answer) = Fails(q, answer)
<1> USE DEF AfterCompact
<1>1. q.count \in Nat /\ q.count >= 1 BY SummaryAssumption DEF Summary, ChunkNumbers
<1>2. CASE answer = "text" BY <1>2
<1>3. CASE answer = "empty"
  <2>1. CASE q.count = 1 BY <1>3, <2>1
  <2>2. CASE q.count > 1 BY <1>3, <2>2
  <2> QED BY <1>1, <2>1, <2>2
<1>4. CASE answer = "overflow"
  <2>1. CASE q.count = 1 BY <1>4, <2>1
  <2>2. CASE q.count > 1 BY <1>4, <2>2
  <2> QED BY <1>1, <2>1, <2>2
<1>5. CASE answer = "error" BY <1>5
<1> QED BY <1>2, <1>3, <1>4, <1>5 DEF Answers

LEMMA FullCases ==
  ASSUME NEW q \in Summary, NEW answer \in Answers
  PROVE  \/ AfterFull(q, answer) = Done(q)
         \/ q.count = 1 /\ \E prompts \in 1..2 : AfterFull(q, answer) = Again(q, prompts)
         \/ AfterFull(q, answer) = ToCompact(q)
         \/ AfterFull(q, answer) = ToChunks(q)
         \/ answer = "error" /\ AfterFull(q, answer) = Fails(q, answer)
<1> USE DEF AfterFull
<1>1. q.count \in Nat /\ q.count >= 1 /\ q.excerpt \in BOOLEAN
  BY SummaryAssumption DEF Summary, ChunkNumbers
<1>2. CASE answer = "text" BY <1>2
<1>3. CASE answer = "empty"
  <2>1. CASE q.count = 1 BY <1>3, <2>1
  <2>2. CASE q.count > 1 BY <1>3, <2>2
  <2> QED BY <1>1, <2>1, <2>2
<1>4. CASE answer = "overflow"
  <2>1. CASE q.excerpt BY <1>4, <2>1
  <2>2. CASE ~q.excerpt /\ q.count = 1 BY <1>4, <2>2
  <2>3. CASE ~q.excerpt /\ q.count > 1 BY <1>4, <2>3
  <2> QED BY <1>1, <2>1, <2>2, <2>3
<1>5. CASE answer = "error" BY <1>5
<1> QED BY <1>2, <1>3, <1>4, <1>5 DEF Answers

LEMMA DirectStep ==
  ASSUME SummaryInv, NEW r \in Summaries, NEW answer \in Answers, DirectAnswer(r, answer)
  PROVE  SummaryInv'
<1> DEFINE q == summary[r]
<1>1. q \in Summary /\ Follows(q) /\ q.at \in {"full", "compact"} /\ CacheIsTrue'
  BY DEF SummaryInv, DirectAnswer, CacheIsTrue
<1>2. Untried(q) BY <1>1 DEF Untried, Follows
<1>3. PICK p : /\ summary' = [summary EXCEPT ![r] = p]
               /\ p = IF q.at = "full" THEN AfterFull(q, answer) ELSE AfterCompact(q, answer)
  BY DEF DirectAnswer
<1>4. \/ p = Done(q)
      \/ q.count = 1 /\ \E prompts \in 1..2 : p = Again(q, prompts)
      \/ p = ToCompact(q)
      \/ p = ToChunks(q)
      \/ /\ answer = "overflow" => q.count = 1
         /\ answer \in {"overflow", "error"} /\ p = Fails(q, answer)
  <2> HIDE DEF q
  <2>1. CASE q.at = "full" BY <1>1, <1>3, <2>1, FullCases
  <2>2. CASE q.at = "compact" BY <1>1, <1>3, <2>2, CompactCases
  <2> QED BY <1>1, <2>1, <2>2
<1>5. p \in Summary /\ Follows(p)
  <2> HIDE DEF q
  <2>1. CASE p = Done(q) BY <1>1, <2>1, DoneFits
  <2>2. CASE q.count = 1 /\ \E prompts \in 1..2 : p = Again(q, prompts)
    BY <1>2, <2>2, AgainFits DEF Untried
  <2>3. CASE p = ToCompact(q) BY <1>2, <2>3, ToCompactFits
  <2>4. CASE p = ToChunks(q) BY <1>2, <2>4, ToChunksFits
  <2>5. CASE /\ answer = "overflow" => q.count = 1
             /\ answer \in {"overflow", "error"} /\ p = Fails(q, answer)
    BY <1>1, <2>5, FailsFits
  <2> QED BY <1>4, <2>1, <2>2, <2>3, <2>4, <2>5
<1> QED BY <1>1, <1>3, <1>5, OneMoves

LEMMA AskStep ==
  ASSUME SummaryInv, NEW r \in Summaries, NEW answer \in AskAnswers, AskAnswer(r, answer)
  PROVE  SummaryInv'
<1> DEFINE q == summary[r]
<1>1. q \in Summary /\ Follows(q) /\ q.at \in {"again", "synthesis"} /\ CacheIsTrue'
  BY DEF SummaryInv, AskAnswer, CacheIsTrue
<1>2. q.count = 1 \/ q.tried = "chunks" BY <1>1 DEF Follows
<1>3. answer \in {"text", "overflow", "error"} BY DEF AskAnswers, Answers
<1>4. PICK clipped \in ClippedAgain(q) :
        summary' = [summary EXCEPT ![r] =
          CASE answer = "text" -> Done(q)
            [] answer = "overflow" /\ q.left > 1 ->
                 [q EXCEPT !.left = q.left - 1, !.shown = clipped]
            [] OTHER -> Fails(q, answer)]
  BY DEF AskAnswer
<1>5. CASE answer = "text"
  <2>1. summary' = [summary EXCEPT ![r] = Done(q)] BY <1>4, <1>5
  <2> QED BY <1>1, <2>1, DoneFits, OneMoves
<1>6. CASE answer = "overflow" /\ q.left > 1
  <2> DEFINE p == [q EXCEPT !.left = q.left - 1, !.shown = clipped]
  <2>1. summary' = [summary EXCEPT ![r] = p] BY <1>4, <1>6
  <2>2. q.left - 1 \in 0..SynthesisPrompts
    <3>1. q.left \in 0..SynthesisPrompts /\ SynthesisPrompts \in Nat
      BY <1>1, Fields, SummaryAssumption
    <3> QED BY <1>6, <3>1
  <2>3. clipped \in 0..ChunkLimit /\ (q.at = "synthesis" => clipped \in 1..q.count)
    <3>1. q.shown \in 0..ChunkLimit /\ q.count \in 1..ChunkLimit /\ ChunkLimit \in Nat
      BY <1>1, Fields, SummaryAssumption DEF ChunkNumbers
    <3>2. CASE q.at = "again" BY <1>4, <3>1, <3>2 DEF ClippedAgain
    <3>3. CASE q.at = "synthesis"
      <4>1. q.shown \in 1..q.count BY <1>1, <3>3 DEF Follows
      <4>2. clipped \in 1..q.shown BY <1>4, <3>3 DEF ClippedAgain
      <4> HIDE DEF q
      <4> QED BY <3>1, <4>1, <4>2
    <3> QED BY <1>1, <3>2, <3>3
  <2>4. p \in Summary BY <1>1, <2>2, <2>3 DEF Summary
  <2>5. /\ p.at = q.at /\ p.count = q.count /\ p.ended = q.ended /\ p.tried = q.tried
        /\ p.notes = q.notes /\ p.text = q.text /\ p.mode = q.mode /\ p.why = q.why
        /\ p.shown = clipped
    BY <1>1 DEF Summary
  <2> HIDE DEF p, q
  <2>6. Follows(p) BY <1>1, <2>3, <2>5 DEF Follows, OwnNote
  <2> QED BY <1>1, <2>1, <2>4, <2>6, OneMoves DEF q
<1>7. CASE answer \in {"overflow", "error"} /\ ~(answer = "overflow" /\ q.left > 1)
  <2>1. summary' = [summary EXCEPT ![r] = Fails(q, answer)] BY <1>4, <1>7
  <2>2. Fails(q, answer) \in Summary /\ Follows(Fails(q, answer)) BY <1>1, <1>2, <1>7, FailsFits
  <2> QED BY <1>1, <2>1, <2>2, OneMoves
<1> QED BY <1>3, <1>5, <1>6, <1>7

\* A note found in the cache under the key of a chunk is its own note.
LEMMA CachedIsOwn ==
  ASSUME CacheIsTrue, NEW q \in Summary, NEW i \in ChunkNumbers,
         NEW e \in noteCache, e[1] = CacheKey(q, i)
  PROVE  e[2] = OwnNote(q, i)
<1>1. PICK n \in Note : e = <<<<n.text, n.mode, n.chunk>>, n>> BY DEF CacheIsTrue
<1>2. n.text = q.text /\ n.mode = q.mode /\ n.chunk = i BY <1>1 DEF CacheKey
<1>3. n = [text |-> n.text, mode |-> n.mode, chunk |-> n.chunk] BY DEF Note
<1> QED BY <1>1, <1>2, <1>3 DEF OwnNote

\* A request at its chunks of which chunk i is settled otherwise.
LEMMA ChunkFits ==
  ASSUME NEW q \in Summary, Follows(q), q.at = "chunks", NEW i \in 1..q.count,
         NEW p \in Summary, p.at = q.at, p.text = q.text, p.mode = q.mode, p.count = q.count,
         p.tried = q.tried,
         \A k \in 1..q.count : k # i => p.ended[k] = q.ended[k] /\ p.notes[k] = q.notes[k],
         p.ended[i] = "noted" => p.notes[i] = OwnNote(q, i)
  PROVE  Follows(p)
<1>1. \A k \in 1..q.count : OwnNote(p, k) = OwnNote(q, k) BY DEF OwnNote
<1>2. ASSUME NEW k \in 1..p.count, p.ended[k] = "noted" PROVE p.notes[k] = OwnNote(p, k)
  <2>1. CASE k = i BY <1>1, <1>2, <2>1
  <2>2. CASE k # i
    <3>1. p.notes[k] = q.notes[k] /\ q.ended[k] = "noted" BY <1>2, <2>2
    <3> QED BY <1>1, <3>1 DEF Follows
  <2> QED BY <2>1, <2>2
<1> QED BY <1>2 DEF Follows

\* Chunk i of a request has a note of its own, or has failed.
LEMMA EndedFits ==
  ASSUME NEW q \in Summary, Follows(q), q.at = "chunks", NEW i \in 1..q.count
  PROVE  /\ LET p == [q EXCEPT !.ended[i] = "noted", !.notes[i] = OwnNote(q, i)]
            IN  p \in Summary /\ Follows(p)
         /\ \A error \in {"overflow", "error"} :
              LET p == [q EXCEPT !.ended[i] = error]
              IN  p \in Summary /\ Follows(p)
         /\ \A prompts \in 0..NotePrompts :
              LET p == [q EXCEPT !.asks[i] = prompts]
              IN  p \in Summary /\ (q.ended[i] = "no" => Follows(p))
<1>1. /\ i \in ChunkNumbers /\ OwnNote(q, i) \in Note
      /\ q.ended \in [ChunkNumbers -> {"no", "noted", "overflow", "error"}]
      /\ q.notes \in [ChunkNumbers -> Note \cup {NoNote}]
      /\ q.asks \in [ChunkNumbers -> 0..NotePrompts]
      /\ 1..q.count \subseteq ChunkNumbers
  BY Fields
<1>2. LET p == [q EXCEPT !.ended[i] = "noted", !.notes[i] = OwnNote(q, i)]
      IN  p \in Summary /\ Follows(p)
  <2> DEFINE p == [q EXCEPT !.ended[i] = "noted", !.notes[i] = OwnNote(q, i)]
  <2>1. p \in Summary BY <1>1 DEF Summary
  <2>2. /\ p.at = q.at /\ p.text = q.text /\ p.mode = q.mode /\ p.count = q.count
        /\ p.tried = q.tried
    BY DEF Summary
  <2>3. /\ p.ended = [q.ended EXCEPT ![i] = "noted"]
        /\ p.notes = [q.notes EXCEPT ![i] = OwnNote(q, i)]
    BY DEF Summary
  <2> HIDE DEF p
  <2>4. /\ p.notes[i] = OwnNote(q, i)
        /\ \A k \in 1..q.count : k # i => p.ended[k] = q.ended[k] /\ p.notes[k] = q.notes[k]
    BY <1>1, <2>3
  <2>5. Follows(p) BY <2>1, <2>2, <2>4, ChunkFits
  <2> QED BY <2>1, <2>5 DEF p
<1>3. ASSUME NEW error \in {"overflow", "error"}
      PROVE  LET p == [q EXCEPT !.ended[i] = error]
             IN  p \in Summary /\ Follows(p)
  <2> DEFINE p == [q EXCEPT !.ended[i] = error]
  <2>1. p \in Summary BY <1>1 DEF Summary
  <2>2. /\ p.at = q.at /\ p.text = q.text /\ p.mode = q.mode /\ p.count = q.count
        /\ p.tried = q.tried /\ p.notes = q.notes
        /\ p.ended = [q.ended EXCEPT ![i] = error]
    BY DEF Summary
  <2> HIDE DEF p
  <2>3. /\ p.ended[i] # "noted"
        /\ \A k \in 1..q.count : k # i => p.ended[k] = q.ended[k] /\ p.notes[k] = q.notes[k]
    BY <1>1, <2>2
  <2>4. Follows(p) BY <2>1, <2>2, <2>3, ChunkFits
  <2> QED BY <2>1, <2>4 DEF p
<1>4. ASSUME NEW prompts \in 0..NotePrompts
      PROVE  LET p == [q EXCEPT !.asks[i] = prompts]
             IN  p \in Summary /\ (q.ended[i] = "no" => Follows(p))
  <2> DEFINE p == [q EXCEPT !.asks[i] = prompts]
  <2>1. p \in Summary BY <1>1 DEF Summary
  <2>2. /\ p.at = q.at /\ p.text = q.text /\ p.mode = q.mode /\ p.count = q.count
        /\ p.tried = q.tried /\ p.notes = q.notes /\ p.ended = q.ended
    BY DEF Summary
  <2> HIDE DEF p
  <2>3. q.ended[i] = "no" => Follows(p) BY <2>1, <2>2, ChunkFits
  <2> QED BY <2>1, <2>3 DEF p
<1> QED BY <1>2, <1>3, <1>4

LEMMA StartsStep ==
  ASSUME SummaryInv, NEW r \in Summaries, NEW i \in ChunkNumbers, ChunkStarts(r, i)
  PROVE  SummaryInv'
<1> DEFINE q == summary[r]
           cached == {entry \in noteCache : entry[1] = CacheKey(q, i)}
<1>1. /\ q \in Summary /\ Follows(q) /\ CacheIsTrue /\ CacheIsTrue'
      /\ q.at = "chunks" /\ i \in 1..q.count /\ q.ended[i] = "no"
  BY DEF SummaryInv, ChunkStarts, CacheIsTrue
<1>2. CASE cached = {}
  <2> DEFINE p == [q EXCEPT !.asks[i] = NotePrompts]
  <2>1. summary' = [summary EXCEPT ![r] = p] BY <1>2 DEF ChunkStarts
  <2>2. NotePrompts \in 0..NotePrompts BY SummaryAssumption
  <2>3. p \in Summary /\ Follows(p)
    <3> HIDE DEF q
    <3> QED BY <1>1, <2>2, EndedFits
  <2> QED BY <1>1, <2>1, <2>3, OneMoves
<1>3. CASE cached # {}
  <2> DEFINE e == CHOOSE e \in cached : TRUE
             p == [q EXCEPT !.ended[i] = "noted", !.notes[i] = OwnNote(q, i)]
  <2>1. e \in cached BY <1>3
  <2>2. e[2] = OwnNote(q, i)
    <3> HIDE DEF q
    <3> QED BY <1>1, <2>1, CachedIsOwn
  <2>3. summary' = [summary EXCEPT ![r] = [q EXCEPT !.ended[i] = "noted", !.notes[i] = e[2]]]
    BY <1>3 DEF ChunkStarts
  <2>4. summary' = [summary EXCEPT ![r] = p] BY <2>2, <2>3
  <2>5. p \in Summary /\ Follows(p)
    <3> HIDE DEF q
    <3> QED BY <1>1, EndedFits
  <2> QED BY <1>1, <2>4, <2>5, OneMoves
<1> QED BY <1>2, <1>3

LEMMA AnswerStep ==
  ASSUME SummaryInv, NEW r \in Summaries, NEW i \in ChunkNumbers, NEW answer \in AskAnswers,
         ChunkAnswer(r, i, answer)
  PROVE  SummaryInv'
<1> DEFINE q == summary[r]
<1>1. /\ q \in Summary /\ Follows(q) /\ CacheIsTrue
      /\ q.at = "chunks" /\ i \in 1..q.count /\ q.ended[i] = "no"
  BY DEF SummaryInv, ChunkAnswer
<1>2. answer \in {"text", "overflow", "error"} BY DEF AskAnswers, Answers
<1>3. CASE answer = "text"
  <2> DEFINE note == OwnNote(q, i)
             p == [q EXCEPT !.ended[i] = "noted", !.notes[i] = note]
  <2>1. /\ summary' = [summary EXCEPT ![r] = p]
        /\ noteCache' = Cached(<<CacheKey(q, i), note>>)
    BY <1>3 DEF ChunkAnswer, OwnNote
  <2>2. note \in Note /\ CacheKey(q, i) = <<note.text, note.mode, note.chunk>>
    BY <1>1, Fields DEF OwnNote, CacheKey
  <2>3. CacheIsTrue'
    <3> HIDE DEF q, note
    <3>1. noteCache' \subseteq noteCache \cup {<<CacheKey(q, i), note>>} BY <2>1 DEF Cached
    <3> QED BY <1>1, <2>2, <3>1 DEF CacheIsTrue
  <2>4. p \in Summary /\ Follows(p)
    <3> HIDE DEF q
    <3> QED BY <1>1, EndedFits
  <2> QED BY <2>1, <2>3, <2>4, OneMoves
<1>4. CASE answer = "overflow" /\ q.asks[i] > 1
  <2> DEFINE prompts == q.asks[i] - 1
             p == [q EXCEPT !.asks[i] = prompts]
  <2>1. summary' = [summary EXCEPT ![r] = p] /\ CacheIsTrue'
    BY <1>1, <1>4 DEF ChunkAnswer, CacheIsTrue
  <2>2. prompts \in 0..NotePrompts
    <3>1. q.asks[i] \in 0..NotePrompts /\ NotePrompts \in Nat BY <1>1, Fields, SummaryAssumption
    <3> QED BY <1>4, <3>1
  <2>3. p \in Summary /\ Follows(p)
    <3> HIDE DEF q, prompts
    <3> QED BY <1>1, <2>2, EndedFits
  <2> QED BY <2>1, <2>3, OneMoves
<1>5. CASE answer \in {"overflow", "error"} /\ ~(answer = "overflow" /\ q.asks[i] > 1)
  <2> DEFINE p == [q EXCEPT !.ended[i] = answer]
  <2>1. summary' = [summary EXCEPT ![r] = p] /\ CacheIsTrue'
    BY <1>1, <1>5 DEF ChunkAnswer, CacheIsTrue
  <2>2. p \in Summary /\ Follows(p)
    <3> HIDE DEF q
    <3> QED BY <1>1, <1>5, EndedFits
  <2> QED BY <2>1, <2>2, OneMoves
<1> QED BY <1>2, <1>3, <1>4, <1>5

LEMMA ChunksEndStep ==
  ASSUME SummaryInv, NEW r \in Summaries, ChunksEnd(r)
  PROVE  SummaryInv'
<1> DEFINE q == summary[r]
<1>1. /\ q \in Summary /\ Follows(q) /\ CacheIsTrue'
      /\ q.at = "chunks" /\ Yielded(q) = q.count
  BY DEF SummaryInv, ChunksEnd, CacheIsTrue
<1>2. CASE FailedChunks(q) = {}
  <2>0. PICK clipped \in 1..q.count :
          summary' = [summary EXCEPT ![r] =
            [q EXCEPT !.at = "synthesis", !.left = SynthesisPrompts, !.shown = clipped]]
    BY <1>2 DEF ChunksEnd
  <2> DEFINE p == [q EXCEPT !.at = "synthesis", !.left = SynthesisPrompts, !.shown = clipped]
  <2>1. summary' = [summary EXCEPT ![r] = p] BY <2>0
  <2>2. p \in Summary
    <3>1. SynthesisPrompts \in 0..SynthesisPrompts /\ clipped \in 0..ChunkLimit
      BY <1>1, <2>0, Fields
    <3> QED BY <1>1, <3>1 DEF Summary
  <2>3. /\ p.at = "synthesis" /\ p.shown = clipped /\ p.text = q.text /\ p.mode = q.mode /\ p.count = q.count
        /\ p.tried = q.tried /\ p.notes = q.notes
    BY <1>1 DEF Summary
  <2> HIDE DEF p, q
  <2>4. ASSUME NEW k \in 1..q.count PROVE p.notes[k] = OwnNote(p, k)
    <3>1. q.ended[k] # "no" BY <1>1, AllYielded
    <3>2. q.ended[k] \notin {"overflow", "error"} BY <1>2 DEF FailedChunks
    <3>3. q.ended[k] \in {"no", "noted", "overflow", "error"} BY <1>1, Fields
    <3>4. q.ended[k] = "noted" BY <3>1, <3>2, <3>3
    <3> QED BY <1>1, <2>3, <3>4 DEF Follows, OwnNote
  <2>5. Follows(p) BY <1>1, <2>0, <2>3, <2>4 DEF Follows
  <2> QED BY <1>1, <2>1, <2>2, <2>5, OneMoves DEF q
<1>3. CASE FailedChunks(q) # {}
  <2> DEFINE why == q.ended[CHOOSE i \in FailedChunks(q) : \A k \in FailedChunks(q) : i <= k]
  <2>1. summary' = [summary EXCEPT ![r] = Fails(q, why)] BY <1>3 DEF ChunksEnd
  <2>2. why \in {"overflow", "error"} BY <1>1, <1>3, FirstError
  <2>3. q.tried = "chunks" BY <1>1 DEF Follows
  <2> HIDE DEF q, why
  <2>4. Fails(q, why) \in Summary /\ Follows(Fails(q, why)) BY <1>1, <2>2, <2>3, FailsFits
  <2> QED BY <1>1, <2>1, <2>4, OneMoves DEF q
<1> QED BY <1>2, <1>3

-----------------------------------------------------------------------------
(* The results. *)

\* Whatever the provider answers, in whatever order the requests take each
\* other's notes from the cache they share: SummaryInv.
THEOREM SummaryInvariant == SummarySpec => []SummaryInv
<1>1. SummaryInit => SummaryInv
  <2> SUFFICES ASSUME SummaryInit PROVE SummaryInv
    OBVIOUS
  <2>1. ASSUME NEW r \in Summaries
        PROVE  /\ summary[r] \in Summary /\ summary[r].at = "idle"
               /\ \A i \in ChunkNumbers : summary[r].ended[i] = "no"
    <3>1. 0 \in 0..SynthesisPrompts /\ 0 \in 0..NotePrompts /\ 0 \in 0..ChunkLimit
      BY SummaryAssumption
    <3> QED BY <3>1 DEF SummaryInit, Summary
  <2>2. summary \in [Summaries -> Summary] BY <2>1 DEF SummaryInit
  <2>3. \A r \in Summaries : Follows(summary[r]) BY <2>1 DEF Follows
  <2> QED BY <2>2, <2>3 DEF SummaryInit, SummaryInv, CacheIsTrue
<1>2. SummaryInv /\ [SummaryNext]_summaryVars => SummaryInv'
  <2> SUFFICES ASSUME SummaryInv, [SummaryNext]_summaryVars PROVE SummaryInv'
    OBVIOUS
  <2>1. CASE UNCHANGED summaryVars
    BY <2>1 DEF summaryVars, SummaryInv, CacheIsTrue
  <2>2. CASE SummaryNext
    <3>1. PICK r \in Summaries :
            \/ \E strategy \in Strategies, single \in BOOLEAN : SummaryBegins(r, strategy, single)
            \/ \E answer \in Answers : DirectAnswer(r, answer)
            \/ \E answer \in AskAnswers : AskAnswer(r, answer)
            \/ \E i \in ChunkNumbers : ChunkStarts(r, i)
            \/ \E i \in ChunkNumbers, answer \in AskAnswers : ChunkAnswer(r, i, answer)
            \/ ChunksEnd(r)
      BY <2>2 DEF SummaryNext
    <3>2. CASE \E strategy \in Strategies, single \in BOOLEAN :
                 SummaryBegins(r, strategy, single)
      BY <3>2, BeginsStep
    <3>3. CASE \E answer \in Answers : DirectAnswer(r, answer)
      BY <3>3, DirectStep
    <3>4. CASE \E answer \in AskAnswers : AskAnswer(r, answer)
      BY <3>4, AskStep
    <3>5. CASE \E i \in ChunkNumbers : ChunkStarts(r, i)
      BY <3>5, StartsStep
    <3>6. CASE \E i \in ChunkNumbers, answer \in AskAnswers : ChunkAnswer(r, i, answer)
      BY <3>6, AnswerStep
    <3>7. CASE ChunksEnd(r)
      BY <3>7, ChunksEndStep
    <3> QED BY <3>1, <3>2, <3>3, <3>4, <3>5, <3>6, <3>7
  <2> QED BY <2>1, <2>2
<1> QED BY <1>1, <1>2, PTL DEF SummarySpec

\* Whatever requests share the cache, whatever it drops and however far the notes
\* are clipped: the prompt of a synthesis holds the notes on the first chunks
\* without a gap, each about its own text and in its own mode, and a text that is
\* too long is given up only when chunks were tried or there is but one
\* (run_summary_pipeline).
THEOREM SummaryIsOwn == SummarySpec => []SummaryIsOfItsText
<1>1. SummaryInv => SummaryIsOfItsText
  <2> SUFFICES ASSUME SummaryInv PROVE SummaryIsOfItsText
    OBVIOUS
  <2>1. ASSUME NEW r \in Summaries, summary[r].at = "synthesis"
        PROVE  /\ summary[r].shown \in 1..summary[r].count
               /\ PromptNotes(summary[r]) = [i \in 1..summary[r].shown |-> OwnNote(summary[r], i)]
    <3> DEFINE q == summary[r]
    <3>1. q \in Summary /\ Follows(q) BY DEF SummaryInv
    <3>2. q.shown \in 1..q.count /\ \A i \in 1..q.count : q.notes[i] = OwnNote(q, i)
      BY <2>1, <3>1 DEF Follows
    <3>3. q.count \in Nat BY <3>1, Fields, SummaryAssumption DEF ChunkNumbers
    <3> HIDE DEF q
    <3>4. 1..q.shown \subseteq 1..q.count BY <3>2, <3>3
    <3>5. PromptNotes(q) = [i \in 1..q.shown |-> OwnNote(q, i)]
      BY <3>2, <3>4 DEF PromptNotes
    <3> QED BY <3>2, <3>5 DEF q
  <2>2. NotesAreOwn BY <2>1 DEF NotesAreOwn, OwnNote
  <2>3. LengthIsNoExcuse BY DEF SummaryInv, Follows, LengthIsNoExcuse
  <2> QED BY <2>2, <2>3 DEF SummaryIsOfItsText
<1> QED BY <1>1, SummaryInvariant, PTL
-----------------------------------------------------------------------------
(***************************************************************************)
(* Automatic import, for every number of paths, scans and jobs. The        *)
(* archive is read twice, when a scan begins and when it lists: the         *)
(* invariant carries what was there the first time into the list and from   *)
(* there to what is queued, past all that jobs and other scans add in       *)
(* between, as far as it has not gone out of the reach of a list.           *)
(***************************************************************************)
Section == [enabled : BOOLEAN, quarantined : SUBSET Paths]
Files == [path : Paths, content : Contents]
Job == [path : Paths, content : Contents, seen : Section,
        step : {"active", "archived", "failing", "noting success", "noting failure", "over"}]
ScanRecord ==
  [step : {"idle", "begun", "listed", "collected", "queued"}, seen : Section,
   known : SUBSET Files, found : SUBSET Files, queued : SUBSET Files,
   broken : SUBSET Paths, archived : Nat]

ImportTypeOK ==
  /\ folder \in [Paths -> Contents \cup {None}] /\ unreadable \subseteq Paths
  /\ saved \in Section /\ window \in Section
  /\ scan \in [Scans -> ScanRecord]
  /\ clearing \in [path : Paths \cup {None}, seen : Section, clears : BOOLEAN]
  /\ jobs \in Seq(Job) /\ archive \in Seq(Files)

\* As many newer artifacts as a scan lists stand behind this one.
OutOfReach(i, artifacts) == i + ListLimit <= Len(artifacts)

\* Of a scan: what was archived when it began is among what it listed, and what
\* it queued was neither of that nor twice the same.
ArchiveWasListed(record, artifacts) ==
  record.step \in {"listed", "collected"} =>
    \A i \in 1 .. record.archived : artifacts[i] \in record.known \/ OutOfReach(i, artifacts)
QueuedOnce(record, artifacts) ==
  /\ \A f \in record.queued : \A i \in 1 .. record.archived :
       artifacts[i].content = f.content => OutOfReach(i, artifacts)
  /\ \A f, g \in record.queued : f # g => f.content # g.content
ScanIsTrue(record, artifacts) ==
  /\ IsFiniteSet(record.found) /\ record.archived <= Len(artifacts)
  /\ ArchiveWasListed(record, artifacts) /\ QueuedOnce(record, artifacts)

ImportInv ==
  /\ ImportTypeOK
  /\ \A s \in Scans : ScanIsTrue(scan[s], archive)

\* A set of files in some order.
LEMMA InSomeOrder ==
  ASSUME NEW S, IsFiniteSet(S), NEW order \in SetToSeqs(S)
  PROVE  Cardinality(S) \in Nat /\ order \in [1 .. Cardinality(S) -> S]
BY FS_CardinalityType DEF SetToSeqs

\* What a scan finds is as finite as the folders.
LEMMA FoundIsFinite ==
  ASSUME NEW S, S \subseteq Paths
  PROVE  IsFiniteSet({File(p) : p \in S})
<1>. DEFINE f == [p \in S |-> File(p)]
<1>1. IsFiniteSet(S)
  BY PathsAssumption, FS_Subset
<1>2. f \in Surjection(S, {File(p) : p \in S})
  BY DEF Surjection
<1>. QED
  BY <1>1, <1>2, FS_Surjection DEF ExistsSurjection

\* What a list leaves out has that many newer artifacts behind it.
LEMMA TheRestIsListed ==
  ASSUME ImportInv, NEW i \in 1 .. Len(archive)
  PROVE  archive[i] \in Newest(ListLimit) \/ OutOfReach(i, archive)
<1>1. Len(archive) \in Nat
  BY LenProperties DEF ImportInv, ImportTypeOK
<1>. QED
  BY <1>1, ListLimitAssumption DEF Newest, OutOfReach

\* What is true of a scan stays true when the archive gets longer.
LEMMA TrueOfLonger ==
  ASSUME NEW record \in ScanRecord, archive \in Seq(Files), NEW longer \in Seq(Files),
         Len(archive) <= Len(longer), \A i \in 1 .. Len(archive) : longer[i] = archive[i],
         ScanIsTrue(record, archive)
  PROVE  ScanIsTrue(record, longer)
<1>1. Len(archive) \in Nat /\ Len(longer) \in Nat /\ record.archived \in Nat
  BY LenProperties DEF ScanRecord
<1>2. record.archived <= Len(archive)
  BY DEF ScanIsTrue
<1>3. \A i \in 1 .. record.archived :
        longer[i] = archive[i] /\ (OutOfReach(i, archive) => OutOfReach(i, longer))
  BY <1>1, <1>2, ListLimitAssumption DEF OutOfReach
<1>. QED
  BY <1>1, <1>2, <1>3 DEF ScanIsTrue, ArchiveWasListed, QueuedOnce

\* A scan makes one step, which concerns nobody else.
LEMMA OneScanMoves ==
  ASSUME ImportInv, NEW s \in Scans, NEW record, scan' = [scan EXCEPT ![s] = record],
         record \in ScanRecord, ScanIsTrue(record, archive),
         folder' = folder, unreadable' = unreadable, window' = window, saved' \in Section,
         clearing' = clearing, archive' = archive,
         jobs' \in Seq(Job)
  PROVE  ImportInv'
<1>1. ImportTypeOK'
  BY DEF ImportTypeOK, ImportInv
<1>2. \A t \in Scans : ScanIsTrue(scan'[t], archive)
  BY DEF ImportTypeOK, ImportInv
<1>. QED
  BY <1>1, <1>2 DEF ImportInv, ScanIsTrue, ArchiveWasListed, QueuedOnce, OutOfReach

\* Jobs are added for the files of a batch.
LEMMA EnqueueAdds ==
  ASSUME ImportInv, NEW batch, batch \subseteq Files, IsFiniteSet(batch), Enqueue(batch)
  PROVE  jobs' \in Seq(Job)
<1>1. PICK order \in SetToSeqs(batch) :
        jobs' = jobs \o [i \in 1 .. Cardinality(batch) |-> NewJob(order[i])]
  BY DEF Enqueue
<1>. DEFINE new == [i \in 1 .. Cardinality(batch) |-> NewJob(order[i])]
<1>2. Cardinality(batch) \in Nat /\ \A i \in 1 .. Cardinality(batch) : order[i] \in Files
  BY InSomeOrder
<1>3. \A file \in Files : NewJob(file) \in Job
  BY DEF NewJob, Job, Files, Fresh, Section
<1>4. new \in Seq(Job)
  BY <1>2, <1>3
<1>5. jobs \in Seq(Job) /\ jobs' = jobs \o new
  BY <1>1 DEF ImportInv, ImportTypeOK
<1>. HIDE DEF new
<1>. QED
  BY <1>4, <1>5, ConcatProperties

\* What the loop queues was not in the archive when the scan began, or is out of
\* reach, and is not in it twice.
LEMMA QueuedIsNew ==
  ASSUME ImportInv, NEW s \in Scans, scan[s].step = "collected",
         NEW all \in Unknown(s), NEW some, some \subseteq all
  PROVE  /\ some \subseteq Files /\ IsFiniteSet(some)
         /\ \A f \in some : \A i \in 1 .. scan[s].archived :
              archive[i].content = f.content => OutOfReach(i, archive)
         /\ \A f, g \in some : f # g => f.content # g.content
<1>1. /\ scan[s] \in ScanRecord /\ IsFiniteSet(scan[s].found)
      /\ \A i \in 1 .. scan[s].archived : archive[i] \in scan[s].known \/ OutOfReach(i, archive)
  BY DEF ImportInv, ImportTypeOK, ScanIsTrue, ArchiveWasListed
<1>2. /\ some \subseteq scan[s].found
      /\ \A f \in some : ~Matches(f, scan[s].known) /\ ~Matches(f, all \ {f})
  BY DEF Unknown
<1>3. some \subseteq Files /\ IsFiniteSet(some)
  BY <1>1, <1>2, FS_Subset DEF ScanRecord
<1>4. \A f \in some : \A i \in 1 .. scan[s].archived :
        archive[i].content = f.content => OutOfReach(i, archive)
  BY <1>1, <1>2 DEF Matches
<1>5. \A f, g \in some : f # g => f.content # g.content
  BY <1>2 DEF Matches
<1>. QED
  BY <1>3, <1>4, <1>5

LEMMA ScanKeeps ==
  ASSUME ImportInv, NEW s \in Scans,
         ScanBegins(s) \/ List(s) \/ Collect(s) \/ Queue(s) \/ Persist(s)
  PROVE  ImportInv'
<1>1. /\ scan[s] \in ScanRecord /\ scan \in [Scans -> ScanRecord]
      /\ ScanIsTrue(scan[s], archive) /\ Len(archive) \in Nat
      /\ saved \in Section /\ jobs \in Seq(Job) /\ archive \in Seq(Files)
  BY LenProperties DEF ImportInv, ImportTypeOK
<1>2. Idle \in ScanRecord
  BY DEF Idle, ScanRecord, Fresh, Section
<1>3. IsFiniteSet({})
  BY FS_EmptySet
<1>4. CASE ScanBegins(s)
  <2>. DEFINE record == [Idle EXCEPT !.step = "begun", !.seen = saved, !.archived = Len(archive)]
  <2>2. /\ record \in ScanRecord /\ record.step = "begun" /\ record.archived = Len(archive)
        /\ record.queued = {} /\ record.found = {}
    BY <1>1, <1>2 DEF ScanRecord, Idle
  <2>3. /\ scan' = [scan EXCEPT ![s] = record] /\ folder' = folder /\ unreadable' = unreadable
        /\ window' = window /\ saved' = saved /\ clearing' = clearing /\ archive' = archive
        /\ jobs' = jobs
    BY <1>4 DEF ScanBegins, files, settings
  <2>. HIDE DEF record
  <2>4. ScanIsTrue(record, archive)
    BY <1>1, <1>3, <2>2 DEF ScanIsTrue, ArchiveWasListed, QueuedOnce
  <2>. QED
    BY <1>1, <2>2, <2>3, <2>4, OneScanMoves
<1>5. CASE List(s)
  <2>. DEFINE record == [scan[s] EXCEPT !.step = "listed", !.known = Newest(ListLimit)]
  <2>1. Newest(ListLimit) \subseteq Files
    BY <1>1, LenProperties DEF Newest
  <2>2. /\ record \in ScanRecord /\ record.step = "listed" /\ record.archived = scan[s].archived
        /\ record.known = Newest(ListLimit)
        /\ record.queued = scan[s].queued /\ record.found = scan[s].found
    BY <1>1, <2>1 DEF ScanRecord
  <2>3. /\ scan' = [scan EXCEPT ![s] = record] /\ folder' = folder /\ unreadable' = unreadable
        /\ window' = window /\ saved' = saved /\ clearing' = clearing /\ archive' = archive
        /\ jobs' = jobs
    BY <1>1, <1>5 DEF List, files, settings
  <2>. HIDE DEF record
  <2>4. ScanIsTrue(record, archive)
    <3>1. scan[s].archived \in Nat /\ scan[s].archived <= Len(archive)
      BY <1>1 DEF ScanIsTrue, ScanRecord
    <3>2. \A i \in 1 .. record.archived : archive[i] \in record.known \/ OutOfReach(i, archive)
      BY <1>1, <2>2, <3>1, TheRestIsListed
    <3>. QED
      BY <1>1, <2>2, <3>1, <3>2 DEF ScanIsTrue, ArchiveWasListed, QueuedOnce
  <2>. QED
    BY <1>1, <2>2, <2>3, <2>4, OneScanMoves
<1>6. CASE Collect(s)
  <2>. DEFINE found == {File(p) : p \in Recordings \ unreadable}
              record == [scan[s] EXCEPT !.step = "collected", !.found = found,
                                        !.broken = Recordings \cap unreadable]
  <2>1. found \subseteq Files /\ IsFiniteSet(found) /\ Recordings \subseteq Paths
    <3>1. Recordings \subseteq Paths /\ \A p \in Recordings : folder[p] \in Contents
      BY NoneAssumption DEF Recordings, ImportInv, ImportTypeOK
    <3>2. found \subseteq Files
      BY <3>1 DEF File, Files
    <3>. QED
      BY <3>1, <3>2, FoundIsFinite
  <2>. HIDE DEF found
  <2>2. /\ record \in ScanRecord /\ record.step = "collected" /\ record.archived = scan[s].archived
        /\ record.known = scan[s].known /\ record.queued = scan[s].queued /\ record.found = found
    BY <1>1, <2>1 DEF ScanRecord
  <2>3. /\ scan' = [scan EXCEPT ![s] = record] /\ folder' = folder /\ unreadable' = unreadable
        /\ window' = window /\ saved' = saved /\ clearing' = clearing /\ archive' = archive
        /\ jobs' = jobs
    BY <1>1, <1>6 DEF Collect, files, settings, found
  <2>. HIDE DEF record
  <2>4. ScanIsTrue(record, archive)
    BY <1>1, <1>6, <2>1, <2>2
       DEF Collect, ScanIsTrue, ArchiveWasListed, QueuedOnce
  <2>. QED
    BY <1>1, <2>2, <2>3, <2>4, OneScanMoves
<1>7. CASE Queue(s)
  <2>1. PICK all \in Unknown(s) :
          \E some \in SUBSET all :
            /\ Enqueue(some)
            /\ \/ scan' = [scan EXCEPT ![s].step = "queued", ![s].queued = some]
               \/ scan' = [scan EXCEPT ![s] = [Idle EXCEPT !.queued = some,
                                                           !.archived = scan[s].archived]]
    BY <1>7 DEF Queue
  <2>2. PICK some \in SUBSET all :
            /\ Enqueue(some)
            /\ \/ scan' = [scan EXCEPT ![s].step = "queued", ![s].queued = some]
               \/ scan' = [scan EXCEPT ![s] = [Idle EXCEPT !.queued = some,
                                                           !.archived = scan[s].archived]]
    BY <2>1
  <2>3. /\ some \subseteq Files /\ IsFiniteSet(some)
        /\ \A f \in some : \A i \in 1 .. scan[s].archived :
             archive[i].content = f.content => OutOfReach(i, archive)
        /\ \A f, g \in some : f # g => f.content # g.content
    BY <1>7, QueuedIsNew DEF Queue
  <2>4. /\ folder' = folder /\ unreadable' = unreadable /\ window' = window /\ saved' = saved
        /\ clearing' = clearing /\ archive' = archive
    BY <1>7 DEF Queue, files, settings
  <2>5. jobs' \in Seq(Job)
    BY <2>2, <2>3, EnqueueAdds
  <2>6. ASSUME NEW record \in ScanRecord, record.step \in {"idle", "queued"},
               record.queued = some, record.archived = scan[s].archived,
               IsFiniteSet(record.found), scan' = [scan EXCEPT ![s] = record]
        PROVE  ImportInv'
    <3>1. ScanIsTrue(record, archive)
      BY <1>1, <2>3, <2>6 DEF ScanIsTrue, ArchiveWasListed, QueuedOnce
    <3>. QED
      BY <1>1, <2>4, <2>5, <2>6, <3>1, OneScanMoves
  <2>7. CASE scan' = [scan EXCEPT ![s].step = "queued", ![s].queued = some]
    <3>. DEFINE record == [scan[s] EXCEPT !.step = "queued", !.queued = some]
    <3>1. /\ record \in ScanRecord /\ record.step = "queued" /\ record.queued = some
          /\ record.archived = scan[s].archived /\ record.found = scan[s].found
      BY <1>1, <2>3 DEF ScanRecord
    <3>2. scan' = [scan EXCEPT ![s] = record]
      BY <1>1, <2>7
    <3>. HIDE DEF record
    <3>. QED
      BY <1>1, <2>6, <3>1, <3>2 DEF ScanIsTrue
  <2>8. CASE scan' = [scan EXCEPT ![s] = [Idle EXCEPT !.queued = some,
                                                      !.archived = scan[s].archived]]
    <3>. DEFINE record == [Idle EXCEPT !.queued = some, !.archived = scan[s].archived]
    <3>1. /\ record \in ScanRecord /\ record.step = "idle" /\ record.queued = some
          /\ record.archived = scan[s].archived /\ record.found = {}
      BY <1>1, <1>2, <2>3 DEF ScanRecord, Idle
    <3>2. scan' = [scan EXCEPT ![s] = record]
      BY <2>8
    <3>. HIDE DEF record
    <3>. QED
      BY <1>3, <2>6, <3>1, <3>2
  <2>. QED
    BY <2>2, <2>7, <2>8
<1>8. CASE Persist(s)
  <2>. DEFINE record == [Idle EXCEPT !.queued = scan[s].queued, !.archived = scan[s].archived]
  <2>1. /\ record \in ScanRecord /\ record.step = "idle" /\ record.queued = scan[s].queued
        /\ record.archived = scan[s].archived /\ record.found = {}
    BY <1>1, <1>2 DEF ScanRecord, Idle
  <2>2. /\ scan' = [scan EXCEPT ![s] = record] /\ folder' = folder /\ unreadable' = unreadable
        /\ window' = window /\ clearing' = clearing /\ archive' = archive /\ jobs' = jobs
    BY <1>8 DEF Persist, files
  <2>. HIDE DEF record
  <2>3. saved' \in Section
    <3>1. scan[s].seen \in Section /\ scan[s].broken \subseteq Paths
      BY <1>1 DEF ScanRecord
    <3>. QED
      BY <1>8, <3>1 DEF Persist, Section
  <2>4. ScanIsTrue(record, archive)
    BY <1>1, <1>3, <2>1 DEF ScanIsTrue, ArchiveWasListed, QueuedOnce
  <2>. QED
    BY <1>1, <2>1, <2>2, <2>3, <2>4, OneScanMoves
<1>. QED
  BY <1>4, <1>5, <1>6, <1>7, <1>8

\* A job makes a step, and may put its artifact into the archive.
LEMMA JobMoves ==
  ASSUME ImportInv, NEW j \in DOMAIN jobs, NEW record \in Job,
         jobs' = [jobs EXCEPT ![j] = record],
         folder' = folder, unreadable' = unreadable, window' = window, saved' \in Section,
         clearing' = clearing, scan' = scan,
         archive' = archive \/ \E file \in Files : archive' = Append(archive, file)
  PROVE  ImportInv'
<1>1. /\ jobs \in Seq(Job) /\ archive \in Seq(Files) /\ Len(archive) \in Nat
      /\ DOMAIN jobs = 1 .. Len(jobs) /\ DOMAIN archive = 1 .. Len(archive)
  BY LenProperties DEF ImportInv, ImportTypeOK
<1>2. jobs' \in Seq(Job)
  BY <1>1, ExceptSeq
<1>3. /\ archive' \in Seq(Files)
      /\ Len(archive) <= Len(archive')
      /\ \A i \in 1 .. Len(archive) : archive'[i] = archive[i]
  <2>1. CASE archive' = archive
    BY <2>1, <1>1
  <2>2. ASSUME NEW file \in Files, archive' = Append(archive, file)
        PROVE  /\ archive' \in Seq(Files)
               /\ Len(archive) <= Len(archive')
               /\ \A i \in 1 .. Len(archive) : archive'[i] = archive[i]
    <3>. DEFINE longer == Append(archive, file)
    <3>1. /\ longer \in Seq(Files) /\ Len(longer) = Len(archive) + 1
          /\ \A i \in 1 .. Len(archive) : longer[i] = archive[i]
      BY <1>1, AppendProperties
    <3>2. archive' = longer
      BY <2>2
    <3>. HIDE DEF longer
    <3>. QED
      BY <1>1, <3>1, <3>2
  <2>. QED
    BY <2>1, <2>2
<1>4. ImportTypeOK'
  BY <1>2, <1>3 DEF ImportInv, ImportTypeOK
<1>5. \A s \in Scans : ScanIsTrue(scan'[s], archive')
  <2>. TAKE s \in Scans
  <2>1. scan[s] \in ScanRecord /\ ScanIsTrue(scan[s], archive)
    BY DEF ImportInv, ImportTypeOK
  <2>. QED
    BY <1>1, <1>3, <2>1, TrueOfLonger
<1>. QED
  BY <1>4, <1>5
     DEF ImportInv, ScanIsTrue, ArchiveWasListed, QueuedOnce, OutOfReach

LEMMA JobKeeps ==
  ASSUME ImportInv, NEW j \in DOMAIN jobs,
         Archived(j) \/ Failed(j) \/ Cancelled(j) \/ ReadToNote(j) \/ NoteOutcome(j)
  PROVE  ImportInv'
<1>1. /\ jobs \in Seq(Job) /\ jobs[j] \in Job /\ saved \in Section
  BY LenProperties DEF ImportInv, ImportTypeOK
<1>2. /\ folder' = folder /\ unreadable' = unreadable /\ window' = window
      /\ clearing' = clearing /\ scan' = scan
  BY DEF Archived, Failed, Cancelled, ReadToNote, NoteOutcome, files, settings
<1>3. ASSUME NEW to \in {"archived", "failing", "noting success", "noting failure", "over"},
             jobs' = [jobs EXCEPT ![j].step = to], saved' \in Section,
             archive' = archive \/ \E file \in Files : archive' = Append(archive, file)
      PROVE  ImportInv'
  <2>. DEFINE record == [jobs[j] EXCEPT !.step = to]
  <2>1. record \in Job
    BY <1>1 DEF Job
  <2>2. jobs' = [jobs EXCEPT ![j] = record]
    BY <1>3
  <2>. HIDE DEF record
  <2>. QED
    BY <1>2, <1>3, <2>1, <2>2, JobMoves
<1>4. CASE Archived(j)
  <2>. DEFINE file == [path |-> jobs[j].path, content |-> jobs[j].content]
  <2>1. file \in Files
    BY <1>1 DEF Files, Job
  <2>2. /\ jobs' = [jobs EXCEPT ![j].step = "archived"]
        /\ archive' = Append(archive, file) /\ saved' = saved
    BY <1>4 DEF Archived, JobGoes, settings
  <2>. QED
    BY <1>1, <1>3, <2>1, <2>2
<1>5. CASE Failed(j) \/ Cancelled(j)
  BY <1>1, <1>3, <1>5 DEF Failed, Cancelled, JobGoes, settings
<1>6. CASE ReadToNote(j)
  <2>. DEFINE to == IF jobs[j].step = "archived" THEN "noting success" ELSE "noting failure"
              record == [jobs[j] EXCEPT !.seen = saved, !.step = to]
  <2>1. record \in Job
    BY <1>1 DEF Job
  <2>2. jobs' = [jobs EXCEPT ![j] = record] /\ saved' = saved /\ archive' = archive
    BY <1>1, <1>6 DEF ReadToNote, settings
  <2>. HIDE DEF record
  <2>. QED
    BY <1>1, <1>2, <2>1, <2>2, JobMoves
<1>7. CASE NoteOutcome(j)
  <2>1. saved' \in Section
    <3>1. jobs[j].seen \in Section /\ jobs[j].path \in Paths
      BY <1>1 DEF Job
    <3>2. \A section \in Section, paths \in SUBSET Paths :
            [section EXCEPT !.quarantined = paths] \in Section
      BY DEF Section
    <3>3. jobs[j].seen.quarantined \in SUBSET Paths
      BY <3>1 DEF Section
    <3>4. \/ saved' = [jobs[j].seen EXCEPT !.quarantined = jobs[j].seen.quarantined \ {jobs[j].path}]
          \/ saved' = [jobs[j].seen EXCEPT !.quarantined = jobs[j].seen.quarantined \cup {jobs[j].path}]
      BY <1>7 DEF NoteOutcome
    <3>5. /\ jobs[j].seen.quarantined \ {jobs[j].path} \in SUBSET Paths
          /\ jobs[j].seen.quarantined \cup {jobs[j].path} \in SUBSET Paths
      BY <3>1, <3>3
    <3>. QED
      BY <3>1, <3>2, <3>4, <3>5
  <2>. DEFINE record == [jobs[j] EXCEPT !.step = "over", !.seen = Fresh]
  <2>2. record \in Job
    BY <1>1 DEF Job, Fresh, Section
  <2>3. jobs' = [jobs EXCEPT ![j] = record] /\ archive' = archive
    BY <1>1, <1>7 DEF NoteOutcome
  <2>. HIDE DEF record
  <2>. QED
    BY <1>2, <2>1, <2>2, <2>3, JobMoves
<1>. QED
  BY <1>4, <1>5, <1>6, <1>7

\* The world, the window and the quarantine.
LEMMA OthersKeep ==
  ASSUME ImportInv, UNCHANGED <<scan, jobs, archive>>,
         folder' \in [Paths -> Contents \cup {None}], unreadable' \subseteq Paths,
         saved' \in Section, window' \in Section,
         clearing' \in [path : Paths \cup {None}, seen : Section, clears : BOOLEAN]
  PROVE  ImportInv'
BY DEF ImportInv, ImportTypeOK, ScanIsTrue, ArchiveWasListed, QueuedOnce, OutOfReach

\* The steps of scans, jobs, the user and the world keep what the scans know true.
THEOREM ImportInvariant == WatchSpec => []ImportInv
<1>1. WatchInit => ImportInv
  <2>. SUFFICES ASSUME WatchInit PROVE ImportInv
    OBVIOUS
  <2>1. Fresh \in Section /\ Idle \in ScanRecord
    BY DEF Idle, ScanRecord, Fresh, Section
  <2>2. NoItem \in [path : Paths \cup {None}, seen : Section, clears : BOOLEAN]
    BY <2>1 DEF NoItem
  <2>3. ImportTypeOK
    BY <2>1, <2>2 DEF WatchInit, ImportTypeOK
  <2>4. IsFiniteSet({})
    BY FS_EmptySet
  <2>5. archive = <<>>
    BY DEF WatchInit
  <2>6. ScanIsTrue(Idle, archive)
    BY <2>4, <2>5 DEF Idle, ScanIsTrue, ArchiveWasListed, QueuedOnce
  <2>. QED
    BY <2>3, <2>6 DEF WatchInit, ImportInv
<1>2. ImportInv /\ [WatchNext]_watchVars => ImportInv'
  <2>. SUFFICES ASSUME ImportInv, [WatchNext]_watchVars PROVE ImportInv'
    OBVIOUS
  <2>. USE DEF files, settings, bounds
  <2>1. /\ folder \in [Paths -> Contents \cup {None}] /\ unreadable \subseteq Paths
        /\ saved \in Section /\ window \in Section
        /\ clearing \in [path : Paths \cup {None}, seen : Section, clears : BOOLEAN]
    BY DEF ImportInv, ImportTypeOK
  <2>2. ASSUME NEW p \in Paths, NEW c \in Contents, Appear(p, c)
        PROVE  ImportInv'
    BY <2>1, <2>2, OthersKeep DEF Appear, Change
  <2>3. ASSUME NEW p \in Paths, NEW q \in Paths, Move(p, q)
        PROVE  ImportInv'
    BY <2>1, <2>3, OthersKeep DEF Move, Change
  <2>4. ASSUME NEW p \in Paths, ToggleReadable(p)
        PROVE  ImportInv'
    BY <2>1, <2>4, OthersKeep DEF ToggleReadable, Change
  <2>5. ASSUME NEW p \in Paths, NEW clears \in BOOLEAN, ItemBegins(p, clears)
        PROVE  ImportInv'
    BY <2>1, <2>5, OthersKeep DEF ItemBegins
  <2>6. CASE ItemEnds
    <3>1. saved' \in Section
      BY <2>1, <2>6 DEF ItemEnds, Section
    <3>2. NoItem \in [path : Paths \cup {None}, seen : Section, clears : BOOLEAN]
      BY DEF NoItem, Fresh, Section
    <3>. QED
      BY <2>1, <2>6, <3>1, <3>2, OthersKeep DEF ItemEnds
  <2>7. CASE Edit
    <3>1. saved' \in Section
      BY <2>1, <2>7 DEF Edit, Section
    <3>. QED
      BY <2>1, <2>7, <3>1, OthersKeep DEF Edit
  <2>8. CASE Refresh
    BY <2>1, <2>8, OthersKeep DEF Refresh
  <2>9. CASE UNCHANGED watchVars
    BY <2>1, <2>9, OthersKeep DEF watchVars
  <2>. QED
    BY <2>2, <2>3, <2>4, <2>5, <2>6, <2>7, <2>8, <2>9, ScanKeeps, JobKeeps DEF WatchNext
<1>. QED
  BY <1>1, <1>2, PTL DEF WatchSpec

\* For every number of paths, scans and jobs: a scan queues no recording twice,
\* and none with an artifact that was archived when it began, unless as many newer
\* ones as a scan lists stand behind it (scan_automatic_import_inner,
\* ExistingImportIndex::matches).
THEOREM EachScanQueuesOnce == WatchSpec => []ScanQueuesOnce
<1>1. ImportInv => ScanQueuesOnce
  BY DEF ImportInv, ScanIsTrue, QueuedOnce, OutOfReach, ScanQueuesOnce, ProcessedIsNotQueued,
         CopiesAreQueuedOnce
<1>. QED
  BY <1>1, ImportInvariant, PTL
==============================================================================
