------------------------------- MODULE MCImports -------------------------------
(***************************************************************************)
(* The instance for TLC of the two imports, of watched folders and of a     *)
(* backup. They share no state here: `scene` is the one that moves, and the *)
(* other stays as it is. Two paths and two recordings; two scans that can   *)
(* overlap, one of them begun by a retry, each of which lists one artifact. *)
(***************************************************************************)
EXTENDS AutomaticImport, BackupImport, TLC

CONSTANTS p1, p2, c1, c2, s1, s2

VARIABLES
  scene   \* the import that moves

Interchangeable == Permutations(Paths) \cup Permutations(Contents) \cup Permutations(Scans)

vars == <<scene, watchVars, backupVars>>

Init ==
  \/ /\ scene = "watch" /\ WatchInit
     /\ BackupInit /\ \A path \in ArchivePaths : data[path] = "old"
  \/ /\ scene = "backup" /\ BackupInit
     /\ WatchInit /\ \A p \in Paths : folder[p] = None

Next ==
  /\ UNCHANGED scene
  /\ \/ scene = "watch" /\ WatchNext /\ UNCHANGED backupVars
     \/ scene = "backup" /\ BackupNext /\ UNCHANGED watchVars

Spec == Init /\ [][Next]_vars

=============================================================================
