------------------------------ MODULE JobStore ------------------------------
(***************************************************************************)
(* persistence/sqlalchemy.py: the same operations on PostgreSQL, where the *)
(* statements of a transaction each see what is committed when they run.   *)
(* A call reads the row, decides, and writes only if the status and the    *)
(* version it read are still there (_cas_job); the update locks the row,   *)
(* so what follows it in the transaction is one step with it.  The answer  *)
(* is a read of its own.                                                   *)
(***************************************************************************)
EXTENDS Integers, Jobs

CONSTANTS
    Callers,                \* handlers and workers
    Full,                   \* the progress of a completed job, 100
    Fields,                 \* of the metadata: "source" (with "model"), "output"
    Kinds,                  \* of lists: "events", "track_summaries"
    Values,                 \* what a field or a list may be
    Legacy,                 \* jobs to import
    MaxVersion              \* bound: no call is begun on a later version

VARIABLES
    job,                    \* JobRow
    meta,                   \* JobMetadataRow, empty fields for no row
    lists,                  \* the PayloadRows of each kind
    calls,                  \* what each caller is about
    deleted                 \* history: the job was deleted

vars == <<job, meta, lists, calls, deleted>>

row == [status |-> job.status, progress |-> job.progress, meta |-> meta, lists |-> lists]
Table == INSTANCE JobTable

ASSUME StoreAssumption ==
    /\ Full \in Nat /\ MaxVersion \in Nat /\ "none" \notin Values
    /\ Legacy \subseteq Table!Contents

NoRow == [status |-> NoJob, progress |-> 0, version |-> 0]

Merges == [name: {"metadata"}, field: Fields, value: Values]
Updates ==
    [name: {"transition"}, to: JobStatus] \union [name: {"progress"}, to: 0..Full]
    \union {[name |-> "finalize"]} \union Merges \union [name: {"list"}, kind: Kinds, value: Values]
Inserts == {[name |-> "create"]} \union [name: {"import"}, of: Legacy]
Operations == Updates \union Inserts \union {[name |-> "delete"]}

Stored == [status: JobStatus, progress: 0..Full, version: Nat]
Metadata == [Fields -> Values \union {Table!None}]
Idle == [phase |-> "idle"]
Calls ==
    {Idle} \union [phase: {"called"}, op: Operations]
    \union [phase: {"read"}, op: Operations, job: Stored]
    \union [phase: {"merging"}, op: Merges, job: Stored, meta: Metadata]
    \union [phase: {"written"}, wrote: Stored \union {NoRow}, read: Stored]
    \union [phase: {"answered"}, wrote: Stored \union {NoRow}, answer: Stored]

TypeOK ==
    /\ job \in Stored \union {NoRow}
    /\ meta \in Metadata
    /\ lists \in [Kinds -> Values \union {Table!None}]
    /\ calls \in [Callers -> Calls]
    /\ deleted \in BOOLEAN

Init ==
    /\ job = NoRow
    /\ meta = Table!NoFields
    /\ lists = Table!NoLists
    /\ calls = [p \in Callers |-> Idle]
    /\ deleted = FALSE
-----------------------------------------------------------------------------
Becomes(p, call) == calls' = [calls EXCEPT ![p] = call]
Database == <<job, meta, lists, deleted>>

Call(p, op) ==
    /\ calls[p] = Idle
    /\ op \in Updates => job.version < MaxVersion
    /\ Becomes(p, [phase |-> "called", op |-> op])
    /\ UNCHANGED Database

\* raises InvalidJobTransition or ValueError
Refused(op) ==
    \/ op.name = "transition" /\ op.to \notin AllowedTransitions[job.status]
    \/ op.name = "progress" /\ op.to < job.progress
    \/ op.name = "finalize" /\ ~CanFinalize(job.status)

\* _require_job, and what is decided on the row
Read(p) ==
    /\ calls[p].phase = "called"
    /\ LET op == calls[p].op IN
          /\ op \notin Inserts
          /\ \/ job = NoRow /\ Becomes(p, Idle)
             \/ job # NoRow /\ Refused(op) /\ Becomes(p, Idle)
             \/ job # NoRow /\ ~Refused(op)
                   /\ Becomes(p, [phase |-> "read", op |-> op, job |-> job])
    /\ UNCHANGED Database

\* save_job_metadata reads a second row to merge with.
ReadMetadata(p) ==
    /\ calls[p].phase = "read"
    /\ calls[p].op.name = "metadata"
    /\ Becomes(p, [phase |-> "merging", op |-> calls[p].op, job |-> calls[p].job,
                   meta |-> meta])
    /\ UNCHANGED Database

\* Mutant: the version is not compared.
SameStatus(read) == job.status = read.status

\* the WHERE of _cas_job
Unchanged(read) == job.status = read.status /\ job.version = read.version

\* The row a call writes, from the one it read.
Written(op, read) ==
    LET status == CASE op.name = "transition" -> op.to
                    [] op.name = "finalize" -> CompleteOrStop(read.status)
                    [] OTHER -> read.status
        progress == CASE op.name = "progress" -> op.to
                      [] op.name \in {"transition", "finalize"} ->
                            Table!ProgressAt(status, read.progress)
                      [] OTHER -> read.progress
    IN  [status |-> status, progress |-> progress, version |-> read.version + 1]

\* A concurrent change rolls the call back and raises InvalidJobTransition.
Overtaken(p) ==
    /\ \/ calls[p].phase = "merging"
       \/ calls[p].phase = "read" /\ calls[p].op.name \notin {"metadata", "delete"}
    /\ ~Unchanged(calls[p].job)
    /\ Becomes(p, Idle)
    /\ UNCHANGED Database

\* transition, update_progress, complete_or_stop
WriteJob(p) ==
    /\ calls[p].phase = "read"
    /\ LET op == calls[p].op
           wrote == Written(op, calls[p].job) IN
          /\ op.name \in {"transition", "progress", "finalize"}
          /\ Unchanged(calls[p].job)
          /\ job' = [job EXCEPT !.status = wrote.status, !.version = wrote.version,
                                !.progress = wrote.progress]
          /\ Becomes(p, [phase |-> "written", wrote |-> wrote, read |-> calls[p].job])
    /\ UNCHANGED <<meta, lists, deleted>>

\* _save_models: the list is replaced
WriteList(p) ==
    /\ calls[p].phase = "read"
    /\ calls[p].op.name = "list"
    /\ Unchanged(calls[p].job)
    /\ job' = [job EXCEPT !.version = calls[p].job.version + 1]
    /\ lists' = [lists EXCEPT ![calls[p].op.kind] = calls[p].op.value]
    /\ Becomes(p, Idle)
    /\ UNCHANGED <<meta, deleted>>

\* save_job_metadata: every field is written, the others as they were read
WriteMetadata(p) ==
    /\ calls[p].phase = "merging"
    /\ Unchanged(calls[p].job)
    /\ job' = [job EXCEPT !.version = calls[p].job.version + 1]
    /\ meta' = [calls[p].meta EXCEPT ![calls[p].op.field] = calls[p].op.value]
    /\ Becomes(p, Idle)
    /\ UNCHANGED <<lists, deleted>>

\* delete has no version to compare: whatever is there goes, if it is still there.
Delete(p) ==
    /\ calls[p].phase = "read"
    /\ calls[p].op.name = "delete"
    /\ job' = NoRow
    /\ meta' = Table!NoFields
    /\ lists' = Table!NoLists
    /\ deleted' = TRUE
    /\ Becomes(p, Idle)

\* create_with_id: a new row is the answer, an IntegrityError leads to a read.
\* Bound: the id of a deleted job is not used again.
Create(p) ==
    /\ calls[p].phase = "called"
    /\ calls[p].op.name = "create"
    /\ \/ /\ job = NoRow /\ ~deleted
          /\ job' = [NoRow EXCEPT !.status = "created"]
          /\ Becomes(p, Idle)
       \/ /\ job # NoRow
          /\ Becomes(p, [phase |-> "written", wrote |-> NoRow, read |-> job])
          /\ UNCHANGED job
    /\ UNCHANGED <<meta, lists, deleted>>

\* import_job: a whole legacy job, or none of it
Import(p) ==
    /\ calls[p].phase = "called"
    /\ LET op == calls[p].op IN
          /\ op.name = "import"
          /\ \/ /\ job = NoRow /\ ~deleted
                /\ job' = [status |-> op.of.status, progress |-> op.of.progress, version |-> 0]
                /\ meta' = op.of.meta
                /\ lists' = op.of.lists
             \/ job # NoRow /\ UNCHANGED <<job, meta, lists>>
    /\ Becomes(p, Idle)
    /\ UNCHANGED deleted

\* Mutant: the answer is the row the session loaded.
LoadedRow(p) == calls[p].read

AnswerOf(p) == job

\* self.get(job_id): the job may have changed again, or be gone
Answer(p) ==
    /\ calls[p].phase = "written"
    /\ \/ job = NoRow /\ Becomes(p, Idle)
       \/ job # NoRow /\ Becomes(p, [phase |-> "answered", wrote |-> calls[p].wrote,
                                     answer |-> AnswerOf(p)])
    /\ UNCHANGED Database

Return(p) ==
    /\ calls[p].phase = "answered"
    /\ Becomes(p, Idle)
    /\ UNCHANGED Database

\* The process dies: what was not committed is rolled back.
Crash(p) ==
    /\ calls[p] # Idle
    /\ Becomes(p, Idle)
    /\ UNCHANGED Database

Next ==
    \E p \in Callers:
        \/ \E op \in Operations: Call(p, op)
        \/ Read(p) \/ ReadMetadata(p) \/ Overtaken(p)
        \/ WriteJob(p) \/ WriteList(p) \/ WriteMetadata(p)
        \/ Delete(p) \/ Create(p) \/ Import(p)
        \/ Answer(p) \/ Return(p) \/ Crash(p)

Spec == Init /\ [][Next]_vars
-----------------------------------------------------------------------------
(* Properties *)

\* What readers of the table see is the promise of JobTable: each call that writes does
\* to the job, as it is at that moment, the whole of what it was asked for.  A field of the
\* metadata saved by another call is not written back as it was read (save_job_metadata), the
\* progress does not fall behind another call's (update_progress and the progress that
\* transition reads), and a completion does not overwrite a stop (complete_or_stop).
AtomicTable == Table!Spec

Step(S) == S \union UNION {AllowedTransitions[status] : status \in S}

\* The job a call answers with shows what it wrote, or what others made of it since
\* (self.get after the transaction): never an older state.
AnswersShowTheWrite ==
    \A p \in Callers: calls[p].phase = "answered" =>
        LET wrote == calls[p].wrote
            answer == calls[p].answer IN
        wrote # NoRow => /\ answer.version >= wrote.version
                         /\ answer.progress >= wrote.progress
                         /\ answer.status \in Step(Step(Step({wrote.status})))
=============================================================================
