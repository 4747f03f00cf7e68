-------------------------- MODULE MCRecordService --------------------------
(***************************************************************************)
(* Small instances of RecordService for TLC: the manifests as              *)
(* constants/status.go and their service distinguish them.                 *)
(***************************************************************************)
EXTENDS RecordService, StatusGraphs, TLC

CONSTANTS c1, c2, d1, d2, w1, w2, w3

\* One record goes through its whole graph beside an edit; the other, if there
\* is one, is created and removed.
UpTo4 == [c \in Codes |-> IF c = c1 THEN 4 ELSE 1]

MCData == {d1, d2}
WorkerSymmetry == Permutations(Workers)

\* A manifest can be edited or deleted as a draft only.
OnlyDraft == {"draft"}

SeedRow(status) == [deleted |-> FALSE, status |-> status, version |-> 1, data |-> d1]

\* database.Seed has stored one of the codes (TM-001).
SeededDraft == [c \in Codes |-> IF c = c1 THEN SeedRow("draft") ELSE Absent]
=============================================================================
