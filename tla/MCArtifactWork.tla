--------------------------- MODULE MCArtifactWork ----------------------------
(* Instances of ArtifactWork for TLC: which processes run together.          *)
EXTENDS ArtifactWork

\* Imports and the migration with an edit; two edits in the trash's way; two
\* diarizations, one cancelled; a diarization and its cancel against an edit; a
\* diarization in the trash's way; chats in the trash's way, and with a crash.
Groups == {{"import", "e1", "trash", "crash"}, {"e1", "e2", "trash"},
           {"r1", "r2", "c1"}, {"r1", "e1", "c1", "faults"},
           {"r1", "trash", "crash", "faults"},
           {"t1", "t2", "trash"}, {"t1", "t2", "t3", "crash"}}
==============================================================================
