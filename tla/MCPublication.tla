--------------------------- MODULE MCPublication ---------------------------
(***************************************************************************)
(* The two kinds of jobs that publish a directory, side by side: attempts  *)
(* to export one video, with a journal, and attempts to build one dataset, *)
(* with a manifest.  They share no state, so only one of them runs in a    *)
(* behaviour.                                                              *)
(***************************************************************************)
EXTENDS ExportPublish, DatasetPublish, TLC

\* Consecutive revisions keep, drop and add a segment; the last repeats the
\* segments of the first.
MCSegmentsOf == [r \in 1..MaxRevision |-> IF r % 2 = 1 THEN {1, 2} ELSE {2, 3}]

\* What is missing from a list is missing however much is: the worst case is all.
MCShortLists == {{}}

VARIABLE part

MCInit == part \in {"export", "dataset"} /\ Init /\ DatasetInit

MCNext ==
  \/ part = "export"  /\ Next        /\ UNCHANGED <<part, datasetVars>>
  \/ part = "dataset" /\ DatasetNext /\ UNCHANGED <<part, vars>>
  \/ /\ part = "dataset" /\ \A kind \in DOMAIN source : source[kind] = MaxVersion
     /\ UNCHANGED <<part, datasetVars, vars>>    \* at its bounds

MCSpec == MCInit /\ [][MCNext]_<<part, datasetVars, vars>>

Symmetric == Permutations(Requests)
=============================================================================
