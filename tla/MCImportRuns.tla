---------------------------- MODULE MCImportRuns ----------------------------
(* Small instances of ImportRuns for TLC.                                  *)
EXTENDS ImportRuns, TLC

(* Runs, requests and tasks are interchangeable.                           *)
Actors == Permutations(Runs) \cup Permutations(Clients) \cup Permutations(Tasks)
=============================================================================
