------------------------------ MODULE JobTable ------------------------------
(***************************************************************************)
(* What the job repositories promise of one job: every operation reads     *)
(* and writes the whole job, its status, progress, metadata and lists, in  *)
(* one step.  storage.py does it with BEGIN IMMEDIATE, except that saving  *)
(* metadata and lists reads before the transaction.                        *)
(***************************************************************************)
EXTENDS Integers, Jobs

CONSTANTS
    Full,                   \* the progress of a completed job, 100
    Fields,                 \* of the metadata: "source" (with "model"), "output"
    Kinds,                  \* of lists: "events", "track_summaries"
    Values                  \* what a field or a list may be

None == "none"
NoFields == [f \in Fields |-> None]
NoLists == [k \in Kinds |-> None]

VARIABLE row

Contents == [status: JobStatus, progress: 0..Full,
             meta: [Fields -> Values \union {None}], lists: [Kinds -> Values \union {None}]]
NoRow == [status |-> NoJob, progress |-> 0, meta |-> NoFields, lists |-> NoLists]
NewRow == [NoRow EXCEPT !.status = "created"]

Exists == row.status # NoJob

ProgressAt(status, before) == IF status = "completed" THEN Full ELSE before

Enter(status) ==
    row' = [status |-> status, progress |-> ProgressAt(status, row.progress),
            meta |-> row.meta, lists |-> row.lists]

Insert == ~Exists /\ row' \in Contents

SetStatus == \E target \in JobStatus: CanTransition(row.status, target) /\ Enter(target)

Finalize == CanFinalize(row.status) /\ Enter(CompleteOrStop(row.status))

SetProgress ==
    \E n \in row.progress..Full: Exists /\ row' = [row EXCEPT !.progress = n]

SaveField ==
    \E f \in Fields, v \in Values: Exists /\ row' = [row EXCEPT !.meta[f] = v]

SaveList ==
    \E k \in Kinds, v \in Values: Exists /\ row' = [row EXCEPT !.lists[k] = v]

Delete == row' = NoRow

Init == row = NoRow

Next == Insert \/ SetStatus \/ Finalize \/ SetProgress \/ SaveField \/ SaveList \/ Delete

Spec == Init /\ [][Next]_row
=============================================================================
