-------------------------- MODULE JobStore_proofs --------------------------
(***************************************************************************)
(* Proofs about JobStore for any callers, fields, lists and values: the    *)
(* calls of persistence/sqlalchemy.py are as good as the single steps of   *)
(* JobTable.  What makes them so is that a row with the version that was   *)
(* read is the row that was read.                                          *)
(***************************************************************************)
EXTENDS JobStore, TLAPS

Reading(p) == calls[p].phase \in {"read", "merging"}

\* The version stands for the row and the metadata.
ReadsFit ==
    \A p \in Callers: Reading(p) /\ job # NoRow =>
        /\ calls[p].job.version <= job.version
        /\ calls[p].job.version = job.version => calls[p].job = job
        /\ calls[p].phase = "merging" /\ calls[p].job.version = job.version
              => calls[p].meta = meta

\* A call that goes on was not refused.
ReadsAccepted ==
    \A p \in Callers: Reading(p) =>
        LET op == calls[p].op
            read == calls[p].job IN
        /\ op.name = "transition" => op.to \in AllowedTransitions[read.status]
        /\ op.name = "progress" => op.to >= read.progress
        /\ op.name = "finalize" => CanFinalize(read.status)
        /\ op \notin Inserts

\* An id has one life.
OneLife ==
    /\ deleted => job = NoRow
    /\ job = NoRow /\ ~deleted => \A p \in Callers: ~Reading(p)
    /\ job = NoRow => meta = Table!NoFields /\ lists = Table!NoLists

IInv == TypeOK /\ ReadsFit /\ ReadsAccepted /\ OneLife
-----------------------------------------------------------------------------
(* Types *)

LEMMA SameLifecycle ==
    /\ Table!JobStatus = JobStatus /\ Table!NoJob = NoJob
    /\ Table!AllowedTransitions = AllowedTransitions
    /\ \A s: Table!CanFinalize(s) = CanFinalize(s) /\ Table!CompleteOrStop(s) = CompleteOrStop(s)
BY DEF Table!JobStatus, JobStatus, Table!Terminal, Terminal, Table!NoJob, NoJob,
       Table!AllowedTransitions, AllowedTransitions, Table!CanFinalize, CanFinalize,
       Table!CompleteOrStop, CompleteOrStop

LEMMA RowTyped ==
    ASSUME TypeOK
    PROVE  /\ job.version \in Nat /\ job.progress \in 0..Full
           /\ job # NoRow => job \in Stored /\ job.status \in JobStatus
           /\ job = NoRow <=> job.status = NoJob
BY StoreAssumption DEF TypeOK, Stored, NoRow, NoJob, JobStatus, Terminal

LEMMA CallTyped ==
    ASSUME TypeOK, NEW p \in Callers
    PROVE  /\ calls[p].phase \in {"called", "read", "merging"} => calls[p].op \in Operations
           /\ Reading(p) => calls[p].job \in Stored
           /\ calls[p].phase = "merging" => calls[p].meta \in Metadata /\ calls[p].op \in Merges
           /\ calls[p].phase \in {"written", "answered"} =>
                 calls[p].wrote \in Stored \union {NoRow}
           /\ calls[p].phase = "written" => calls[p].read \in Stored
<1>1. calls[p] \in Calls BY DEF TypeOK
<1> QED BY <1>1 DEF Calls, Idle, Reading, Operations, Updates

LEMMA OperationTyped ==
    ASSUME NEW op \in Operations
    PROVE  /\ op.name = "transition" => op.to \in JobStatus
           /\ op.name = "progress" => op.to \in 0..Full
           /\ op.name = "metadata" => op.field \in Fields /\ op.value \in Values
           /\ op.name = "list" => op.kind \in Kinds /\ op.value \in Values
           /\ op.name = "import" => op.of \in Table!Contents
BY StoreAssumption DEF Operations, Updates, Merges, Inserts

LEMMA BecomesTyped ==
    ASSUME TypeOK, NEW p \in Callers, NEW call \in Calls, Becomes(p, call)
    PROVE  /\ calls' \in [Callers -> Calls]
           /\ calls'[p] = call
           /\ \A q \in Callers \ {p}: calls'[q] = calls[q]
BY DEF TypeOK, Becomes

LEMMA CanFinalizeTyped ==
    ASSUME NEW status \in JobStatus
    PROVE  CompleteOrStop(status) \in JobStatus
BY DEF CompleteOrStop, JobStatus, Terminal

LEMMA WrittenTyped ==
    ASSUME NEW op \in Operations, NEW read \in Stored,
           op.name \in {"transition", "progress", "finalize"}
    PROVE  Written(op, read) \in Stored
<1>1. read.status \in JobStatus /\ read.progress \in 0..Full /\ read.version \in Nat BY DEF Stored
<1>2. CASE op.name = "transition"
  <2>1. Written(op, read) = [status |-> op.to, progress |-> Table!ProgressAt(op.to, read.progress),
                             version |-> read.version + 1]
    BY <1>2 DEF Written
  <2>2. Table!ProgressAt(op.to, read.progress) \in 0..Full
    BY <1>1, StoreAssumption DEF Table!ProgressAt
  <2> QED BY <1>1, <1>2, <2>1, <2>2, OperationTyped DEF Stored
<1>3. CASE op.name = "finalize"
  <2>1. Written(op, read) = [status |-> CompleteOrStop(read.status),
                             progress |-> Table!ProgressAt(CompleteOrStop(read.status),
                                                           read.progress),
                             version |-> read.version + 1]
    BY <1>3 DEF Written
  <2>2. Table!ProgressAt(CompleteOrStop(read.status), read.progress) \in 0..Full
    BY <1>1, StoreAssumption DEF Table!ProgressAt
  <2> QED BY <1>1, <2>1, <2>2, CanFinalizeTyped DEF Stored
<1>4. CASE op.name = "progress"
  <2>1. Written(op, read) = [status |-> read.status, progress |-> op.to,
                             version |-> read.version + 1]
    BY <1>4 DEF Written
  <2> QED BY <1>1, <1>4, <2>1, OperationTyped DEF Stored
<1> QED BY <1>2, <1>3, <1>4

LEMMA DatabaseKept ==
    ASSUME TypeOK, UNCHANGED Database, calls' \in [Callers -> Calls]
    PROVE  TypeOK'
BY DEF TypeOK, Database

LEMMA IdleTyped == Idle \in Calls
BY DEF Calls

LEMMA CallsTyped ==
    ASSUME NEW op \in Operations
    PROVE  /\ [phase |-> "called", op |-> op] \in Calls
           /\ \A read \in Stored: [phase |-> "read", op |-> op, job |-> read] \in Calls
           /\ \A read \in Stored, m \in Metadata: op \in Merges =>
                 [phase |-> "merging", op |-> op, job |-> read, meta |-> m] \in Calls
BY DEF Calls

LEMMA AnswersTyped ==
    ASSUME NEW wrote \in Stored \union {NoRow}, NEW read \in Stored
    PROVE  /\ [phase |-> "written", wrote |-> wrote, read |-> read] \in Calls
           /\ [phase |-> "answered", wrote |-> wrote, answer |-> read] \in Calls
BY DEF Calls

LEMMA TypeStep ==
    ASSUME TypeOK, [Next]_vars
    PROVE  TypeOK'
<1>1. ASSUME NEW p \in Callers, NEW op \in Operations, Call(p, op) PROVE TypeOK'
  BY <1>1, CallsTyped, BecomesTyped, DatabaseKept DEF Call
<1>2. ASSUME NEW p \in Callers, Read(p) PROVE TypeOK'
  <2>1. calls[p].op \in Operations BY <1>2, CallTyped DEF Read
  <2>2. CASE Becomes(p, Idle)
    BY <1>2, <2>2, IdleTyped, BecomesTyped, DatabaseKept DEF Read
  <2>3. CASE job # NoRow /\ Becomes(p, [phase |-> "read", op |-> calls[p].op, job |-> job])
    BY <1>2, <2>1, <2>3, RowTyped, CallsTyped, BecomesTyped, DatabaseKept DEF Read
  <2> QED BY <1>2, <2>2, <2>3 DEF Read
<1>3. ASSUME NEW p \in Callers, ReadMetadata(p) PROVE TypeOK'
  <2>1. calls[p].op \in Operations /\ calls[p].job \in Stored /\ meta \in Metadata
    BY <1>3, CallTyped DEF ReadMetadata, Reading, TypeOK
  <2>2. calls[p].op \in Merges
    BY <1>3, <2>1 DEF ReadMetadata, Operations, Updates, Inserts
  <2> QED BY <1>3, <2>1, <2>2, CallsTyped, BecomesTyped, DatabaseKept DEF ReadMetadata
<1>4. ASSUME NEW p \in Callers, Overtaken(p) \/ Return(p) \/ Crash(p) PROVE TypeOK'
  <2>1. Becomes(p, Idle) /\ UNCHANGED Database BY <1>4 DEF Overtaken, Return, Crash
  <2> QED BY <2>1, IdleTyped, BecomesTyped, DatabaseKept
<1>5. ASSUME NEW p \in Callers, WriteJob(p) PROVE TypeOK'
  <2>1. calls[p].op \in Operations /\ calls[p].job \in Stored
    BY <1>5, CallTyped DEF WriteJob, Reading
  <2>2. PICK wrote: wrote = Written(calls[p].op, calls[p].job) OBVIOUS
  <2>3. wrote \in Stored BY <1>5, <2>1, <2>2, WrittenTyped DEF WriteJob
  <2>4. job' = [job EXCEPT !.status = wrote.status, !.version = wrote.version,
                           !.progress = wrote.progress]
    BY <1>5, <2>2 DEF WriteJob
  <2>5. job' \in Stored BY <2>3, <2>4 DEF TypeOK, Stored, NoRow
  <2>6. Becomes(p, [phase |-> "written", wrote |-> wrote, read |-> calls[p].job])
    BY <1>5, <2>2 DEF WriteJob
  <2>7. calls' \in [Callers -> Calls] BY <2>1, <2>3, <2>6, AnswersTyped, BecomesTyped
  <2> QED BY <1>5, <2>5, <2>7 DEF WriteJob, TypeOK
<1>6. ASSUME NEW p \in Callers, WriteList(p) PROVE TypeOK'
  <2>1. calls[p].op \in Operations /\ calls[p].job \in Stored
    BY <1>6, CallTyped DEF WriteList, Reading
  <2>2. calls[p].op.kind \in Kinds /\ calls[p].op.value \in Values
    BY <1>6, <2>1, OperationTyped DEF WriteList
  <2>3. lists' \in [Kinds -> Values \union {Table!None}] BY <1>6, <2>2 DEF WriteList, TypeOK
  <2>4. job' \in Stored
    <3>1. job # NoRow /\ job \in Stored
      BY <1>6, <2>1, RowTyped DEF WriteList, Unchanged, Stored, JobStatus, Terminal, NoJob, NoRow
    <3>2. calls[p].job.version + 1 \in Nat BY <2>1 DEF Stored
    <3> QED BY <1>6, <3>1, <3>2 DEF WriteList, Stored
  <2>5. calls' \in [Callers -> Calls] BY <1>6, IdleTyped, BecomesTyped DEF WriteList
  <2> QED BY <1>6, <2>3, <2>4, <2>5 DEF WriteList, TypeOK
<1>7. ASSUME NEW p \in Callers, WriteMetadata(p) PROVE TypeOK'
  <2>1. calls[p].op \in Operations /\ calls[p].job \in Stored /\ calls[p].meta \in Metadata
    BY <1>7, CallTyped DEF WriteMetadata, Reading
  <2>2. meta' \in Metadata
    <3>1. meta' = [calls[p].meta EXCEPT ![calls[p].op.field] = calls[p].op.value]
      BY <1>7 DEF WriteMetadata
    <3>2. calls[p].op.field \in Fields /\ calls[p].op.value \in Values
      BY <1>7, CallTyped DEF WriteMetadata, Merges
    <3> QED BY <2>1, <3>1, <3>2 DEF Metadata
  <2>3. job' \in Stored
    <3>1. job # NoRow /\ job \in Stored
      BY <1>7, <2>1, RowTyped
         DEF WriteMetadata, Unchanged, Stored, JobStatus, Terminal, NoJob, NoRow
    <3>2. calls[p].job.version + 1 \in Nat BY <2>1 DEF Stored
    <3> QED BY <1>7, <3>1, <3>2 DEF WriteMetadata, Stored
  <2>4. calls' \in [Callers -> Calls] BY <1>7, IdleTyped, BecomesTyped DEF WriteMetadata
  <2> QED BY <1>7, <2>2, <2>3, <2>4 DEF WriteMetadata, TypeOK
<1>8. ASSUME NEW p \in Callers, Delete(p) PROVE TypeOK'
  <2>1. Table!NoFields \in Metadata /\ Table!NoLists \in [Kinds -> Values \union {Table!None}]
    BY DEF Table!NoFields, Table!NoLists, Metadata
  <2>2. calls' \in [Callers -> Calls] BY <1>8, IdleTyped, BecomesTyped DEF Delete
  <2> QED BY <1>8, <2>1, <2>2 DEF Delete, TypeOK
<1>9. ASSUME NEW p \in Callers, Create(p) PROVE TypeOK'
  <2>1. CASE job = NoRow /\ ~deleted
    <3>1. job' = [NoRow EXCEPT !.status = "created"] /\ Becomes(p, Idle)
      BY <1>9, <2>1 DEF Create
    <3>2. job' = [status |-> "created", progress |-> 0, version |-> 0] BY <3>1 DEF NoRow
    <3>3. 0 \in 0..Full BY StoreAssumption
    <3>4. job' \in Stored BY <3>2, <3>3 DEF Stored, JobStatus
    <3> QED BY <1>9, <3>1, <3>4, IdleTyped, BecomesTyped DEF Create, TypeOK
  <2>2. CASE job # NoRow
    <3>1. Becomes(p, [phase |-> "written", wrote |-> NoRow, read |-> job]) /\ UNCHANGED Database
      BY <1>9, <2>2 DEF Create, Database
    <3> QED BY <2>2, <3>1, RowTyped, AnswersTyped, BecomesTyped, DatabaseKept
  <2> QED BY <1>9, <2>1, <2>2 DEF Create
<1>10. ASSUME NEW p \in Callers, Import(p) PROVE TypeOK'
  <2>1. calls[p].op \in Operations /\ Becomes(p, Idle) BY <1>10, CallTyped DEF Import
  <2>2. calls' \in [Callers -> Calls] BY <2>1, IdleTyped, BecomesTyped
  <2>3. CASE job # NoRow BY <1>10, <2>2, <2>3, DatabaseKept DEF Import, Database
  <2>4. CASE job = NoRow
    <3>1. PICK of: of = calls[p].op.of OBVIOUS
    <3>2. of \in Table!Contents BY <1>10, <2>1, <3>1, OperationTyped DEF Import
    <3>3. /\ job' = [status |-> of.status, progress |-> of.progress, version |-> 0]
          /\ meta' = of.meta /\ lists' = of.lists /\ deleted' = deleted
      BY <1>10, <2>4, <3>1 DEF Import
    <3>4. job' \in Stored BY <3>2, <3>3, SameLifecycle DEF Table!Contents, Stored
    <3>5. meta' \in Metadata /\ lists' \in [Kinds -> Values \union {Table!None}]
      BY <3>2, <3>3 DEF Table!Contents, Metadata
    <3> QED BY <2>2, <3>3, <3>4, <3>5 DEF TypeOK
  <2> QED BY <2>3, <2>4
<1>11. ASSUME NEW p \in Callers, Answer(p) PROVE TypeOK'
  <2>1. calls[p].wrote \in Stored \union {NoRow} BY <1>11, CallTyped DEF Answer
  <2>2. CASE Becomes(p, Idle)
    BY <1>11, <2>2, IdleTyped, BecomesTyped, DatabaseKept DEF Answer
  <2>3. CASE job # NoRow /\ Becomes(p, [phase |-> "answered", wrote |-> calls[p].wrote,
                                        answer |-> AnswerOf(p)])
    BY <1>11, <2>1, <2>3, RowTyped, AnswersTyped, BecomesTyped, DatabaseKept
       DEF Answer, AnswerOf
  <2> QED BY <1>11, <2>2, <2>3 DEF Answer
<1>12. CASE UNCHANGED vars BY <1>12 DEF TypeOK, vars
<1> QED BY <1>1, <1>2, <1>3, <1>4, <1>5, <1>6, <1>7, <1>8, <1>9, <1>10, <1>11, <1>12 DEF Next

LEMMA TypeInit == Init => TypeOK
BY StoreAssumption DEF Init, TypeOK, Metadata, Table!NoFields, Table!NoLists, Calls

\* Type correctness: a row has a status of the lifecycle and a progress that is a percentage,
\* whatever is called, overtaken or cut off (models.JobRow).
THEOREM StoreTyped == Spec => []TypeOK
BY TypeInit, TypeStep, PTL DEF Spec
-----------------------------------------------------------------------------
(* A version stands for what was read *)

\* The row that a write finds is the one that was read.
LEMMA ReadIsCurrent ==
    ASSUME IInv, NEW p \in Callers, Reading(p), Unchanged(calls[p].job)
    PROVE  /\ job # NoRow /\ job \in Stored /\ ~deleted
           /\ calls[p].job = job
           /\ calls[p].phase = "merging" => calls[p].meta = meta
<1>1. calls[p].job \in Stored BY CallTyped DEF IInv
<1>2. job.status = calls[p].job.status /\ job.version = calls[p].job.version BY DEF Unchanged
<1>3. job.status \in JobStatus BY <1>1, <1>2 DEF Stored
<1>4. job # NoRow BY <1>3 DEF NoRow, NoJob, JobStatus, Terminal
<1>5. job \in Stored /\ ~deleted BY <1>4, RowTyped DEF IInv, OneLife
<1> QED BY <1>2, <1>4, <1>5 DEF IInv, ReadsFit

LEMMA ReadsKept ==
    ASSUME IInv, UNCHANGED <<job, meta, lists, deleted>>, NEW p \in Callers,
           \A q \in Callers \ {p}: calls'[q] = calls[q],
           ~Reading(p)'
    PROVE  ReadsFit' /\ ReadsAccepted' /\ OneLife'
<1>1. \A q \in Callers: Reading(q)' => calls'[q] = calls[q] /\ Reading(q) BY DEF Reading
<1>2. ReadsFit' BY <1>1 DEF IInv, ReadsFit
<1>3. ReadsAccepted'
  BY <1>1 DEF IInv, ReadsAccepted, CanFinalize
<1>4. OneLife' BY <1>1 DEF IInv, OneLife
<1> QED BY <1>2, <1>3, <1>4

\* A write by one call leaves the others with an older version.
LEMMA ReadsOutdated ==
    ASSUME IInv, NEW p \in Callers, Reading(p), Unchanged(calls[p].job),
           job'.version = job.version + 1, job'.status # NoJob, UNCHANGED deleted,
           \A q \in Callers \ {p}: calls'[q] = calls[q],
           ~Reading(p)'
    PROVE  ReadsFit' /\ ReadsAccepted' /\ OneLife'
<1>1. \A q \in Callers: Reading(q)' => calls'[q] = calls[q] /\ Reading(q) BY DEF Reading
<1>2. job # NoRow /\ job \in Stored /\ ~deleted BY ReadIsCurrent
<1>3. ReadsFit'
  <2> SUFFICES ASSUME NEW q \in Callers, Reading(q)', job' # NoRow
               PROVE  /\ calls'[q].job.version <= job'.version
                      /\ calls'[q].job.version # job'.version
    BY DEF ReadsFit
  <2>1. calls'[q] = calls[q] /\ Reading(q) BY <1>1
  <2>2. calls[q].job.version \in Nat BY <2>1, CallTyped DEF IInv, Stored
  <2>3. calls[q].job.version <= job.version BY <1>2, <2>1 DEF IInv, ReadsFit
  <2>4. job.version \in Nat BY <1>2 DEF Stored
  <2> QED BY <2>1, <2>2, <2>3, <2>4
<1>4. ReadsAccepted' BY <1>1 DEF IInv, ReadsAccepted, CanFinalize
<1>5. job' # NoRow BY DEF NoRow
<1>6. OneLife' BY <1>2, <1>5 DEF OneLife
<1> QED BY <1>3, <1>4, <1>6

LEMMA ReadStarts ==
    ASSUME IInv, NEW p \in Callers, Read(p), job # NoRow, ~Refused(calls[p].op),
           Becomes(p, [phase |-> "read", op |-> calls[p].op, job |-> job])
    PROVE  ReadsFit' /\ ReadsAccepted' /\ OneLife'
<1>1. /\ calls'[p] = [phase |-> "read", op |-> calls[p].op, job |-> job]
      /\ \A q \in Callers \ {p}: calls'[q] = calls[q]
  BY DEF IInv, TypeOK, Becomes
<1>2. UNCHANGED <<job, meta, lists, deleted>> BY DEF Read, Database
<1>3. ReadsFit'
  <2> SUFFICES ASSUME NEW q \in Callers, Reading(q)'
               PROVE  /\ calls'[q].job.version <= job'.version
                      /\ calls'[q].job.version = job'.version => calls'[q].job = job'
                      /\ calls'[q].phase = "merging" /\ calls'[q].job.version = job'.version
                            => calls'[q].meta = meta'
    BY DEF ReadsFit
  <2>1. CASE q = p BY <1>1, <1>2, <2>1, RowTyped DEF IInv
  <2>2. CASE q # p BY <1>1, <1>2, <2>2 DEF Reading, IInv, ReadsFit
  <2> QED BY <2>1, <2>2
<1>4. ReadsAccepted'
  <2> SUFFICES ASSUME NEW q \in Callers, Reading(q)'
               PROVE  /\ calls'[q].op.name = "transition" =>
                            calls'[q].op.to \in AllowedTransitions[calls'[q].job.status]
                      /\ calls'[q].op.name = "progress" =>
                            calls'[q].op.to >= calls'[q].job.progress
                      /\ calls'[q].op.name = "finalize" => CanFinalize(calls'[q].job.status)
                      /\ calls'[q].op \notin Inserts
    BY DEF ReadsAccepted, CanFinalize
  <2>1. CASE q = p
    <3>1. calls[p].op \notin Inserts /\ calls[p].op \in Operations
      BY CallTyped DEF Read, IInv
    <3>2. calls[p].op.name = "progress" => calls[p].op.to \in 0..Full BY <3>1, OperationTyped
    <3>3. job.progress \in 0..Full BY RowTyped DEF IInv
    <3>4. calls[p].op.name = "progress" => calls[p].op.to >= job.progress
      BY <3>2, <3>3, StoreAssumption DEF Refused
    <3> QED BY <1>1, <2>1, <3>1, <3>4 DEF Refused
  <2>2. CASE q # p BY <1>1, <2>2 DEF Reading, IInv, ReadsAccepted
  <2> QED BY <2>1, <2>2
<1>5. OneLife' BY <1>2 DEF IInv, OneLife
<1> QED BY <1>3, <1>4, <1>5

LEMMA MergeStarts ==
    ASSUME IInv, NEW p \in Callers, ReadMetadata(p)
    PROVE  ReadsFit' /\ ReadsAccepted' /\ OneLife'
<1>1. /\ calls'[p] = [phase |-> "merging", op |-> calls[p].op, job |-> calls[p].job,
                      meta |-> meta]
      /\ \A q \in Callers \ {p}: calls'[q] = calls[q]
  BY DEF IInv, TypeOK, Becomes, ReadMetadata
<1>2. UNCHANGED <<job, meta, lists, deleted>> BY DEF ReadMetadata, Database
<1>3. Reading(p) BY DEF ReadMetadata, Reading
<1>4. ReadsFit'
  <2> SUFFICES ASSUME NEW q \in Callers, Reading(q)', job' # NoRow
               PROVE  /\ calls'[q].job.version <= job'.version
                      /\ calls'[q].job.version = job'.version => calls'[q].job = job'
                      /\ calls'[q].phase = "merging" /\ calls'[q].job.version = job'.version
                            => calls'[q].meta = meta'
    BY DEF ReadsFit
  <2>1. CASE q = p BY <1>1, <1>2, <1>3, <2>1 DEF IInv, ReadsFit
  <2>2. CASE q # p BY <1>1, <1>2, <2>2 DEF Reading, IInv, ReadsFit
  <2> QED BY <2>1, <2>2
<1>5. ReadsAccepted'
  <2> SUFFICES ASSUME NEW q \in Callers, Reading(q)'
               PROVE  /\ calls'[q].op.name = "transition" =>
                            calls'[q].op.to \in AllowedTransitions[calls'[q].job.status]
                      /\ calls'[q].op.name = "progress" =>
                            calls'[q].op.to >= calls'[q].job.progress
                      /\ calls'[q].op.name = "finalize" => CanFinalize(calls'[q].job.status)
                      /\ calls'[q].op \notin Inserts
    BY DEF ReadsAccepted, CanFinalize
  <2>1. CASE q = p BY <1>1, <1>3, <2>1 DEF IInv, ReadsAccepted
  <2>2. CASE q # p BY <1>1, <2>2 DEF Reading, IInv, ReadsAccepted
  <2> QED BY <2>1, <2>2
<1>6. OneLife' BY <1>1, <1>2, <1>3 DEF IInv, OneLife, Reading
<1> QED BY <1>4, <1>5, <1>6

LEMMA RowInserted ==
    ASSUME IInv, NEW p \in Callers, job = NoRow, ~deleted, job' \in Stored, UNCHANGED deleted,
           \A q \in Callers \ {p}: calls'[q] = calls[q], ~Reading(p)'
    PROVE  ReadsFit' /\ ReadsAccepted' /\ OneLife'
<1>1. \A q \in Callers: ~Reading(q)' BY DEF IInv, OneLife, Reading
<1>2. job' # NoRow BY DEF Stored, NoRow, NoJob, JobStatus, Terminal
<1> QED BY <1>1, <1>2 DEF ReadsFit, ReadsAccepted, OneLife

LEMMA RowDeleted ==
    ASSUME IInv, NEW p \in Callers, Delete(p)
    PROVE  ReadsFit' /\ ReadsAccepted' /\ OneLife'
<1>1. /\ calls'[p] = Idle
      /\ \A q \in Callers \ {p}: calls'[q] = calls[q]
  BY DEF IInv, TypeOK, Becomes, Delete
<1>2. \A q \in Callers: Reading(q)' => calls'[q] = calls[q] /\ Reading(q)
  BY <1>1 DEF Reading, Idle
<1>3. job' = NoRow /\ deleted' = TRUE /\ meta' = Table!NoFields /\ lists' = Table!NoLists
  BY DEF Delete
<1>4. ReadsFit' BY <1>3 DEF ReadsFit
<1>5. ReadsAccepted' BY <1>2 DEF IInv, ReadsAccepted, CanFinalize
<1>6. OneLife' BY <1>3 DEF OneLife
<1> QED BY <1>4, <1>5, <1>6

LEMMA InvStep ==
    ASSUME IInv, [Next]_vars
    PROVE  IInv'
<1>1. TypeOK' BY TypeStep DEF IInv
<1>2. ASSUME NEW p \in Callers, NEW call \in Calls, Becomes(p, call),
             call.phase \notin {"read", "merging"}
      PROVE  ~Reading(p)' /\ \A q \in Callers \ {p}: calls'[q] = calls[q]
  BY <1>2, BecomesTyped DEF IInv, Reading
<1>3. Idle \in Calls /\ Idle.phase \notin {"read", "merging"} BY DEF Calls, Idle
<1>4. ASSUME NEW p \in Callers, NEW call \in Calls, Becomes(p, call),
             call.phase \notin {"read", "merging"}, UNCHANGED Database
      PROVE  ReadsFit' /\ ReadsAccepted' /\ OneLife'
  BY <1>2, <1>4, ReadsKept DEF Database
<1>5. ASSUME NEW p \in Callers, NEW op \in Operations, Call(p, op)
      PROVE  ReadsFit' /\ ReadsAccepted' /\ OneLife'
  <2>1. [phase |-> "called", op |-> op] \in Calls BY CallsTyped
  <2>2. Becomes(p, [phase |-> "called", op |-> op]) /\ UNCHANGED Database BY <1>5 DEF Call
  <2>3. [phase |-> "called", op |-> op].phase \notin {"read", "merging"} OBVIOUS
  <2> QED BY <1>4, <2>1, <2>2, <2>3
<1>6. ASSUME NEW p \in Callers, Read(p) PROVE ReadsFit' /\ ReadsAccepted' /\ OneLife'
  <2>1. CASE Becomes(p, Idle) BY <1>3, <1>4, <1>6, <2>1 DEF Read
  <2>2. CASE /\ job # NoRow /\ ~Refused(calls[p].op)
             /\ Becomes(p, [phase |-> "read", op |-> calls[p].op, job |-> job])
    BY <1>6, <2>2, ReadStarts
  <2> QED BY <1>6, <2>1, <2>2 DEF Read
<1>7. ASSUME NEW p \in Callers, Overtaken(p) \/ Return(p) \/ Crash(p)
      PROVE  ReadsFit' /\ ReadsAccepted' /\ OneLife'
  <2>1. Becomes(p, Idle) /\ UNCHANGED Database BY <1>7 DEF Overtaken, Return, Crash
  <2> QED BY <1>3, <1>4, <2>1
<1>8. ASSUME NEW p \in Callers, WriteJob(p) PROVE ReadsFit' /\ ReadsAccepted' /\ OneLife'
  <2>1. Reading(p) /\ Unchanged(calls[p].job) BY <1>8 DEF WriteJob, Reading
  <2>2. job \in Stored /\ calls[p].job = job BY <2>1, ReadIsCurrent
  <2>3. PICK wrote: wrote = Written(calls[p].op, calls[p].job) OBVIOUS
  <2>4. wrote \in Stored
    BY <1>8, <2>1, <2>3, WrittenTyped, CallTyped DEF WriteJob, IInv, Reading
  <2>5. job'.version = wrote.version /\ job'.status = wrote.status /\ UNCHANGED deleted
    BY <1>8, <2>2, <2>3 DEF WriteJob, Stored
  <2>6. wrote.version = job.version + 1 BY <2>2, <2>3 DEF Written
  <2>7. job'.status # NoJob BY <2>4, <2>5 DEF Stored, JobStatus, Terminal, NoJob
  <2>8. ~Reading(p)' /\ \A q \in Callers \ {p}: calls'[q] = calls[q]
    <3>1. Becomes(p, [phase |-> "written", wrote |-> wrote, read |-> calls[p].job])
      BY <1>8, <2>3 DEF WriteJob
    <3>2. [phase |-> "written", wrote |-> wrote, read |-> calls[p].job] \in Calls
      BY <2>2, <2>4, AnswersTyped
    <3> QED BY <1>2, <3>1, <3>2
  <2> QED BY <2>1, <2>5, <2>6, <2>7, <2>8, ReadsOutdated
<1>9. ASSUME NEW p \in Callers, WriteList(p) \/ WriteMetadata(p)
      PROVE  ReadsFit' /\ ReadsAccepted' /\ OneLife'
  <2>1. /\ Reading(p) /\ Unchanged(calls[p].job) /\ Becomes(p, Idle) /\ UNCHANGED deleted
        /\ job' = [job EXCEPT !.version = calls[p].job.version + 1]
    BY <1>9 DEF WriteList, WriteMetadata, Reading
  <2>2. job \in Stored /\ calls[p].job = job BY <2>1, ReadIsCurrent
  <2>3. job'.version = job.version + 1 /\ job'.status = job.status BY <2>1, <2>2 DEF Stored
  <2>4. job'.status # NoJob BY <2>2, <2>3 DEF Stored, JobStatus, Terminal, NoJob
  <2>5. ~Reading(p)' /\ \A q \in Callers \ {p}: calls'[q] = calls[q] BY <1>2, <1>3, <2>1
  <2> QED BY <2>1, <2>3, <2>4, <2>5, ReadsOutdated
<1>10. ASSUME NEW p \in Callers, Delete(p) PROVE ReadsFit' /\ ReadsAccepted' /\ OneLife'
  BY <1>10, RowDeleted
<1>11. ASSUME NEW p \in Callers, Create(p) PROVE ReadsFit' /\ ReadsAccepted' /\ OneLife'
  <2>1. CASE job = NoRow /\ ~deleted
    <3>1. /\ job' = [NoRow EXCEPT !.status = "created"] /\ Becomes(p, Idle)
          /\ UNCHANGED deleted
      BY <1>11, <2>1 DEF Create
    <3>2. job' # NoRow BY <3>1 DEF NoRow, NoJob
    <3>3. job' \in Stored BY <1>1, <3>2 DEF TypeOK
    <3>4. ~Reading(p)' /\ \A q \in Callers \ {p}: calls'[q] = calls[q] BY <1>2, <1>3, <3>1
    <3> QED BY <2>1, <3>1, <3>3, <3>4, RowInserted
  <2>2. CASE job # NoRow
    <3>1. PICK call: call = [phase |-> "written", wrote |-> NoRow, read |-> job] OBVIOUS
    <3>2. Becomes(p, call) /\ UNCHANGED Database BY <1>11, <2>2, <3>1 DEF Create, Database
    <3>3. job \in Stored BY <2>2, RowTyped DEF IInv
    <3>4. call \in Calls BY <3>1, <3>3, AnswersTyped
    <3>5. call.phase \notin {"read", "merging"} BY <3>1
    <3> QED BY <1>4, <3>2, <3>4, <3>5
  <2> QED BY <1>11, <2>1, <2>2 DEF Create
<1>12. ASSUME NEW p \in Callers, Import(p) PROVE ReadsFit' /\ ReadsAccepted' /\ OneLife'
  <2>1. Becomes(p, Idle) BY <1>12 DEF Import
  <2>2. CASE job = NoRow
    <3>1. ~deleted /\ UNCHANGED deleted BY <1>12, <2>2 DEF Import
    <3>2. job' \in Stored
      <4>1. calls[p].op \in Operations BY <1>12, CallTyped DEF Import, IInv
      <4>2. calls[p].op.of \in Table!Contents BY <1>12, <4>1, OperationTyped DEF Import
      <4>3. job'.status = calls[p].op.of.status BY <1>12, <2>2 DEF Import
      <4>4. job' # NoRow
        BY <4>2, <4>3, SameLifecycle DEF Table!Contents, NoRow, NoJob, JobStatus, Terminal
      <4> QED BY <1>1, <4>4 DEF TypeOK
    <3>3. ~Reading(p)' /\ \A q \in Callers \ {p}: calls'[q] = calls[q] BY <1>2, <1>3, <2>1
    <3> QED BY <2>2, <3>1, <3>2, <3>3, RowInserted
  <2>3. CASE job # NoRow
    <3>1. UNCHANGED Database BY <1>12, <2>3 DEF Import, Database
    <3> QED BY <1>3, <1>4, <2>1, <3>1
  <2> QED BY <2>2, <2>3
<1>13. ASSUME NEW p \in Callers, Answer(p) PROVE ReadsFit' /\ ReadsAccepted' /\ OneLife'
  <2>1. CASE Becomes(p, Idle) BY <1>3, <1>4, <1>13, <2>1 DEF Answer
  <2>2. CASE job # NoRow /\ Becomes(p, [phase |-> "answered", wrote |-> calls[p].wrote,
                                        answer |-> AnswerOf(p)])
    <3>1. PICK call: call = [phase |-> "answered", wrote |-> calls[p].wrote,
                             answer |-> AnswerOf(p)]
      OBVIOUS
    <3>2. Becomes(p, call) /\ UNCHANGED Database BY <1>13, <2>2, <3>1 DEF Answer
    <3>3. calls[p].wrote \in Stored \union {NoRow} /\ job \in Stored
      BY <1>13, <2>2, CallTyped, RowTyped DEF Answer, IInv
    <3>4. call \in Calls BY <3>1, <3>3, AnswersTyped DEF AnswerOf
    <3>5. call.phase \notin {"read", "merging"} BY <3>1
    <3> QED BY <1>4, <3>2, <3>4, <3>5
  <2> QED BY <1>13, <2>1, <2>2 DEF Answer
<1>14. ASSUME UNCHANGED vars PROVE ReadsFit' /\ ReadsAccepted' /\ OneLife'
  <2>1. /\ job' = job /\ meta' = meta /\ lists' = lists /\ calls' = calls /\ deleted' = deleted
    BY <1>14 DEF vars
  <2>2. ReadsFit' BY <2>1 DEF IInv, ReadsFit, Reading
  <2>3. ReadsAccepted' BY <2>1 DEF IInv, ReadsAccepted, Reading, CanFinalize
  <2>4. OneLife' BY <2>1 DEF IInv, OneLife, Reading
  <2> QED BY <2>2, <2>3, <2>4
<1>15. ASSUME Next PROVE ReadsFit' /\ ReadsAccepted' /\ OneLife'
  <2>1. PICK p \in Callers:
            \/ \E op \in Operations: Call(p, op)
            \/ Read(p) \/ ReadMetadata(p) \/ Overtaken(p)
            \/ WriteJob(p) \/ WriteList(p) \/ WriteMetadata(p)
            \/ Delete(p) \/ Create(p) \/ Import(p)
            \/ Answer(p) \/ Return(p) \/ Crash(p)
    BY <1>15 DEF Next
  <2>2. CASE \E op \in Operations: Call(p, op) BY <1>5, <2>2
  <2>3. CASE ReadMetadata(p) BY <2>3, MergeStarts
  <2> QED
    BY <1>6, <1>7, <1>8, <1>9, <1>10, <1>11, <1>12, <1>13, <2>1, <2>2, <2>3
<1> QED BY <1>1, <1>14, <1>15 DEF IInv

LEMMA InvInit == Init => IInv
<1> SUFFICES ASSUME Init PROVE IInv OBVIOUS
<1>1. TypeOK BY TypeInit
<1>2. \A p \in Callers: ~Reading(p) BY DEF Init, Idle, Reading
<1>3. ReadsFit /\ ReadsAccepted BY <1>2 DEF ReadsFit, ReadsAccepted
<1>4. OneLife BY <1>2 DEF Init, OneLife
<1> QED BY <1>1, <1>3, <1>4 DEF IInv
-----------------------------------------------------------------------------
(* Every step is one of JobTable *)

LEMMA RowShown ==
    ASSUME TypeOK
    PROVE  /\ row.status = job.status /\ row.progress = job.progress
           /\ row.meta = meta /\ row.lists = lists
           /\ row' = [status |-> job'.status, progress |-> job'.progress,
                      meta |-> meta', lists |-> lists']
           /\ job # NoRow => Table!Exists
BY RowTyped, SameLifecycle DEF row, Table!Exists

LEMMA Moves ==
    ASSUME IInv, [Next]_vars
    PROVE  [Table!Next]_row
<1>1. TypeOK BY DEF IInv
<1>2. ASSUME UNCHANGED Database PROVE [Table!Next]_row
  BY <1>2, <1>1, RowShown DEF Database, row
<1>3. ASSUME NEW p \in Callers, WriteJob(p) PROVE [Table!Next]_row
  <2>1. Reading(p) /\ Unchanged(calls[p].job) BY <1>3 DEF WriteJob, Reading
  <2>2. job \in Stored /\ calls[p].job = job BY <2>1, ReadIsCurrent
  <2>3. PICK op: op = calls[p].op OBVIOUS
  <2>4. op \in Operations /\ op.name \in {"transition", "progress", "finalize"}
    BY <1>1, <1>3, <2>3, CallTyped DEF WriteJob
  <2>5. /\ job'.status = Written(op, job).status /\ job'.progress = Written(op, job).progress
        /\ meta' = meta /\ lists' = lists
    BY <1>3, <2>2, <2>3 DEF WriteJob, Stored
  <2>6. row' = [status |-> job'.status, progress |-> job'.progress,
                meta |-> row.meta, lists |-> row.lists]
    BY <1>1, <2>5, RowShown
  <2>7. CASE op.name = "transition"
    <3>1. op.to \in AllowedTransitions[job.status] BY <2>1, <2>2, <2>3, <2>7 DEF IInv, ReadsAccepted
    <3>2. op.to \in JobStatus /\ job.status # NoJob
      BY <2>2, <2>4, <2>7, OperationTyped DEF Stored, JobStatus, Terminal, NoJob
    <3>3. job'.status = op.to /\ job'.progress = Table!ProgressAt(op.to, job.progress)
      BY <2>5, <2>7 DEF Written
    <3>4. Table!Enter(op.to) BY <1>1, <2>6, <3>3, RowShown DEF Table!Enter
    <3>5. Table!CanTransition(row.status, op.to)
      BY <1>1, <3>1, <3>2, RowShown, SameLifecycle DEF Table!CanTransition
    <3> QED BY <3>2, <3>4, <3>5, SameLifecycle DEF Table!Next, Table!SetStatus
  <2>8. CASE op.name = "finalize"
    <3>1. CanFinalize(job.status) BY <2>1, <2>2, <2>3, <2>8 DEF IInv, ReadsAccepted
    <3>2. /\ job'.status = CompleteOrStop(job.status)
          /\ job'.progress = Table!ProgressAt(CompleteOrStop(job.status), job.progress)
      BY <2>5, <2>8 DEF Written
    <3>3. Table!Enter(Table!CompleteOrStop(row.status))
      BY <1>1, <2>6, <3>2, RowShown, SameLifecycle DEF Table!Enter
    <3>4. Table!CanFinalize(row.status) BY <1>1, <3>1, RowShown, SameLifecycle
    <3> QED BY <3>3, <3>4 DEF Table!Next, Table!Finalize
  <2>9. CASE op.name = "progress"
    <3>1. op.to >= job.progress BY <2>1, <2>2, <2>3, <2>9 DEF IInv, ReadsAccepted
    <3>2. job'.status = job.status /\ job'.progress = op.to BY <2>5, <2>9 DEF Written
    <3>3. op.to \in 0..Full /\ job.progress \in 0..Full /\ Full \in Nat
      BY <2>2, <2>4, <2>9, OperationTyped, StoreAssumption DEF Stored
    <3>4. op.to \in row.progress..Full BY <1>1, <3>1, <3>3, RowShown
    <3>5. row' = [row EXCEPT !.progress = op.to] BY <1>1, <2>6, <3>2, RowShown DEF row
    <3>6. Table!Exists
      <4>1. job # NoRow BY <2>1, ReadIsCurrent
      <4> QED BY <1>1, <4>1, RowShown
    <3> QED BY <3>4, <3>5, <3>6 DEF Table!Next, Table!SetProgress
  <2> QED BY <2>4, <2>7, <2>8, <2>9
<1>4. ASSUME NEW p \in Callers, WriteList(p) PROVE [Table!Next]_row
  <2>1. Reading(p) /\ Unchanged(calls[p].job) BY <1>4 DEF WriteList, Reading
  <2>2. job \in Stored /\ job # NoRow BY <2>1, ReadIsCurrent
  <2>3. PICK op: op = calls[p].op OBVIOUS
  <2>4. op.kind \in Kinds /\ op.value \in Values
    BY <1>1, <1>4, <2>3, CallTyped, OperationTyped DEF WriteList
  <2>5. /\ job'.status = job.status /\ job'.progress = job.progress /\ meta' = meta
        /\ lists' = [lists EXCEPT ![op.kind] = op.value]
    BY <1>4, <2>2, <2>3 DEF WriteList, Stored
  <2>6. row' = [row EXCEPT !.lists[op.kind] = op.value] BY <1>1, <2>5, RowShown DEF row
  <2>7. Table!Exists BY <1>1, <2>2, RowShown
  <2> QED BY <2>4, <2>6, <2>7 DEF Table!Next, Table!SaveList
<1>5. ASSUME NEW p \in Callers, WriteMetadata(p) PROVE [Table!Next]_row
  <2>1. Reading(p) /\ Unchanged(calls[p].job) /\ calls[p].phase = "merging"
    BY <1>5 DEF WriteMetadata, Reading
  <2>2. job \in Stored /\ job # NoRow /\ calls[p].meta = meta BY <2>1, ReadIsCurrent
  <2>3. PICK op: op = calls[p].op OBVIOUS
  <2>4. op.field \in Fields /\ op.value \in Values
    BY <1>1, <2>1, <2>3, CallTyped DEF Merges
  <2>5. /\ job'.status = job.status /\ job'.progress = job.progress /\ lists' = lists
        /\ meta' = [meta EXCEPT ![op.field] = op.value]
    BY <1>5, <2>2, <2>3 DEF WriteMetadata, Stored
  <2>6. row' = [row EXCEPT !.meta[op.field] = op.value] BY <1>1, <2>5, RowShown DEF row
  <2>7. Table!Exists BY <1>1, <2>2, RowShown
  <2> QED BY <2>4, <2>6, <2>7 DEF Table!Next, Table!SaveField
<1>6. ASSUME NEW p \in Callers, Delete(p) PROVE [Table!Next]_row
  <2>1. job' = NoRow /\ meta' = Table!NoFields /\ lists' = Table!NoLists BY <1>6 DEF Delete
  <2>2. row' = Table!NoRow BY <1>1, <2>1, RowShown, SameLifecycle DEF NoRow, Table!NoRow
  <2> QED BY <2>2 DEF Table!Next, Table!Delete
<1>7. ASSUME NEW p \in Callers, Create(p), job = NoRow PROVE [Table!Next]_row
  <2>1. /\ job' = [NoRow EXCEPT !.status = "created"] /\ meta' = meta /\ lists' = lists
    BY <1>7 DEF Create
  <2>2. job'.status = "created" /\ job'.progress = 0 BY <2>1 DEF NoRow
  <2>3. 0 \in 0..Full /\ "created" \in JobStatus BY StoreAssumption DEF JobStatus
  <2>4. row' \in Table!Contents
    BY <1>1, <2>1, <2>2, <2>3, RowShown, SameLifecycle DEF Table!Contents, TypeOK, Metadata
  <2>5. ~Table!Exists BY <1>1, <1>7, RowShown, SameLifecycle DEF Table!Exists, NoRow
  <2> QED BY <2>4, <2>5 DEF Table!Next, Table!Insert
<1>8. ASSUME NEW p \in Callers, Import(p), job = NoRow PROVE [Table!Next]_row
  <2>1. PICK of: of = calls[p].op.of OBVIOUS
  <2>2. of \in Table!Contents BY <1>1, <1>8, <2>1, CallTyped, OperationTyped DEF Import
  <2>3. /\ job' = [status |-> of.status, progress |-> of.progress, version |-> 0]
        /\ meta' = of.meta /\ lists' = of.lists
    BY <1>8, <2>1 DEF Import
  <2>4. row' \in Table!Contents BY <1>1, <2>2, <2>3, RowShown DEF Table!Contents
  <2>5. ~Table!Exists BY <1>1, <1>8, RowShown, SameLifecycle DEF Table!Exists, NoRow
  <2> QED BY <2>4, <2>5 DEF Table!Next, Table!Insert
<1>9. ASSUME NEW p \in Callers, Create(p) \/ Import(p), job # NoRow PROVE UNCHANGED Database
  BY <1>9 DEF Create, Import, Database
<1>10. CASE Next
  <2>1. PICK p \in Callers:
            \/ \E op \in Operations: Call(p, op)
            \/ Read(p) \/ ReadMetadata(p) \/ Overtaken(p)
            \/ WriteJob(p) \/ WriteList(p) \/ WriteMetadata(p)
            \/ Delete(p) \/ Create(p) \/ Import(p)
            \/ Answer(p) \/ Return(p) \/ Crash(p)
    BY <1>10 DEF Next
  <2>2. CASE \/ \E op \in Operations: Call(p, op)
             \/ Read(p) \/ ReadMetadata(p) \/ Overtaken(p)
             \/ Answer(p) \/ Return(p) \/ Crash(p)
    <3>1. UNCHANGED Database
      BY <2>2 DEF Call, Read, ReadMetadata, Overtaken, Answer, Return, Crash
    <3> QED BY <1>2, <3>1
  <2> QED BY <1>2, <1>3, <1>4, <1>5, <1>6, <1>7, <1>8, <1>9, <2>1, <2>2
<1>11. CASE UNCHANGED vars BY <1>2, <1>11 DEF vars, Database
<1> QED BY <1>10, <1>11

\* The versioned calls implement the single steps: whatever is begun, overtaken or cut off by
\* whomever, readers of the table never see an update lost or half of one.
THEOREM StoreIsAtomic == Spec => AtomicTable
<1>1. Init => Table!Init
  BY DEF Init, Table!Init, row, NoRow, Table!NoRow, Table!NoJob, NoJob
<1> QED BY <1>1, InvInit, InvStep, Moves, PTL DEF Spec, AtomicTable, Table!Spec
-----------------------------------------------------------------------------
(* What a call answers *)

\* Where a status can still lead.
After ==
    [created   |-> JobStatus,
     running   |-> {"running", "stopping"} \union Terminal,
     stopping  |-> {"stopping", "stopped", "failed"},
     completed |-> {"completed"}, failed |-> {"failed"}, stopped |-> {"stopped"}]

Later(a, b) ==
    a.version >= b.version /\ a.progress >= b.progress /\ a.status \in After[b.status]

AnswersFit ==
    \A p \in Callers:
        /\ calls[p].phase = "written" /\ calls[p].wrote # NoRow =>
              IF job = NoRow THEN deleted ELSE Later(job, calls[p].wrote)
        /\ calls[p].phase = "answered" /\ calls[p].wrote # NoRow =>
              Later(calls[p].answer, calls[p].wrote)

LEMMA StepOf == \A S, s: s \in Step(S) <=> s \in S \/ \E t \in S: s \in AllowedTransitions[t]
BY DEF Step

LEMMA AfterIsReached ==
    ASSUME NEW s \in JobStatus
    PROVE  After[s] \subseteq Step(Step(Step({s})))
<1> SUFFICES ASSUME NEW t \in After[s] PROVE t \in Step(Step(Step({s}))) OBVIOUS
<1>1. s \in Step({s}) /\ s \in Step(Step({s})) BY StepOf
<1>2. CASE t = s BY <1>1, <1>2, StepOf
<1>3. CASE t \in AllowedTransitions[s] BY <1>3, StepOf
<1>4. CASE s = "created" /\ t = "stopping"
  <2>1. "running" \in Step({s}) BY <1>4, StepOf DEF AllowedTransitions
  <2>2. "stopping" \in Step(Step({s})) BY <2>1, StepOf DEF AllowedTransitions
  <2> QED BY <1>4, <2>2, StepOf
<1>5. CASE s = "created" /\ t = "completed"
  <2>1. "running" \in Step({s}) BY <1>5, StepOf DEF AllowedTransitions
  <2>2. "completed" \in Step(Step({s})) BY <2>1, StepOf DEF AllowedTransitions
  <2> QED BY <1>5, <2>2, StepOf
<1> QED
  BY <1>2, <1>3, <1>4, <1>5 DEF After, AllowedTransitions, JobStatus, Terminal

LEMMA AfterMoves ==
    ASSUME NEW s \in JobStatus, NEW t \in After[s], NEW u \in JobStatus,
           u = t \/ u \in AllowedTransitions[t]
    PROVE  u \in After[s]
BY DEF After, AllowedTransitions, JobStatus, Terminal

LEMMA LaterMoves ==
    ASSUME NEW a \in Stored, NEW b \in Stored, NEW c \in Stored, Later(a, b),
           c.version >= a.version, c.progress >= a.progress,
           c.status = a.status \/ c.status \in AllowedTransitions[a.status]
    PROVE  Later(c, b)
<1>1. /\ a.version \in Nat /\ b.version \in Nat /\ c.version \in Nat
      /\ a.progress \in 0..Full /\ b.progress \in 0..Full /\ c.progress \in 0..Full
      /\ a.status \in JobStatus /\ b.status \in JobStatus /\ c.status \in JobStatus
  BY DEF Stored
<1>2. c.status \in After[b.status] BY <1>1, AfterMoves DEF Later
<1> QED BY <1>1, <1>2, StoreAssumption DEF Later

LEMMA LaterItself ==
    ASSUME NEW a \in Stored, NEW b \in Stored, a.version = b.version,
           a.progress = b.progress, a.status = b.status
    PROVE  Later(a, b)
<1>1. a.version \in Nat /\ a.progress \in 0..Full /\ b.status \in JobStatus BY DEF Stored
<1>2. b.status \in After[b.status] BY <1>1 DEF After, JobStatus, Terminal
<1> QED BY <1>1, <1>2, StoreAssumption DEF Later

LEMMA LaterTyped == ASSUME TypeOK, job # NoRow PROVE job \in Stored
BY DEF TypeOK

\* A row only moves on, until it is deleted.
LEMMA RowMovesOn ==
    ASSUME IInv, [Next]_vars, job # NoRow
    PROVE  IF job' = NoRow THEN deleted'
           ELSE /\ job'.version >= job.version /\ job'.progress >= job.progress
                /\ job'.status = job.status \/ job'.status \in AllowedTransitions[job.status]
<1>1. job \in Stored /\ job.version \in Nat /\ job.progress \in 0..Full /\ Full \in Nat
      /\ job.status \in JobStatus
  BY LaterTyped, StoreAssumption DEF IInv, Stored
<1>2. CASE job' = job BY <1>1, <1>2
<1>3. ASSUME NEW p \in Callers, WriteJob(p)
      PROVE  /\ job'.version >= job.version /\ job'.progress >= job.progress
             /\ job'.status = job.status \/ job'.status \in AllowedTransitions[job.status]
  <2>1. Reading(p) /\ Unchanged(calls[p].job) BY <1>3 DEF WriteJob, Reading
  <2>2. calls[p].job = job BY <2>1, ReadIsCurrent
  <2>3. PICK op: op = calls[p].op OBVIOUS
  <2>4. op \in Operations /\ op.name \in {"transition", "progress", "finalize"}
    BY <1>3, <2>3, CallTyped DEF WriteJob, IInv
  <2>5. /\ job'.status = Written(op, job).status /\ job'.progress = Written(op, job).progress
        /\ job'.version = job.version + 1
    BY <1>1, <1>3, <2>2, <2>3 DEF WriteJob, Stored, Written
  <2>6. \A s: Table!ProgressAt(s, job.progress) >= job.progress BY <1>1 DEF Table!ProgressAt
  <2>7. CASE op.name = "transition"
    <3>1. op.to \in AllowedTransitions[job.status] BY <2>1, <2>2, <2>3, <2>7 DEF IInv, ReadsAccepted
    <3>2. job'.status = op.to /\ job'.progress = Table!ProgressAt(op.to, job.progress)
      BY <2>5, <2>7 DEF Written
    <3> QED BY <1>1, <2>5, <2>6, <3>1, <3>2
  <2>8. CASE op.name = "finalize"
    <3>1. CanFinalize(job.status) BY <2>1, <2>2, <2>3, <2>8 DEF IInv, ReadsAccepted
    <3>2. /\ job'.status = CompleteOrStop(job.status)
          /\ job'.progress = Table!ProgressAt(CompleteOrStop(job.status), job.progress)
      BY <2>5, <2>8 DEF Written
    <3>3. job'.status \in AllowedTransitions[job.status]
      BY <3>1, <3>2 DEF CanFinalize, CompleteOrStop, AllowedTransitions
    <3> QED BY <1>1, <2>5, <2>6, <3>2, <3>3
  <2>9. CASE op.name = "progress"
    <3>1. op.to >= job.progress BY <2>1, <2>2, <2>3, <2>9 DEF IInv, ReadsAccepted
    <3>2. job'.status = job.status /\ job'.progress = op.to BY <2>5, <2>9 DEF Written
    <3> QED BY <1>1, <2>5, <3>1, <3>2
  <2> QED BY <2>4, <2>7, <2>8, <2>9
<1>4. ASSUME NEW p \in Callers, WriteList(p) \/ WriteMetadata(p)
      PROVE  /\ job'.version >= job.version /\ job'.progress = job.progress
             /\ job'.status = job.status
  <2>1. /\ Reading(p) /\ Unchanged(calls[p].job)
        /\ job' = [job EXCEPT !.version = calls[p].job.version + 1]
    BY <1>4 DEF WriteList, WriteMetadata, Reading
  <2>2. calls[p].job = job BY <2>1, ReadIsCurrent
  <2> QED BY <1>1, <2>1, <2>2 DEF Stored
<1>5. ASSUME NEW p \in Callers, Delete(p) PROVE job' = NoRow /\ deleted'
  BY <1>5 DEF Delete
<1>6. CASE Next
  <2>1. PICK p \in Callers:
            \/ \E op \in Operations: Call(p, op)
            \/ Read(p) \/ ReadMetadata(p) \/ Overtaken(p)
            \/ WriteJob(p) \/ WriteList(p) \/ WriteMetadata(p)
            \/ Delete(p) \/ Create(p) \/ Import(p)
            \/ Answer(p) \/ Return(p) \/ Crash(p)
    BY <1>6 DEF Next
  <2>2. CASE \/ \E op \in Operations: Call(p, op)
             \/ Read(p) \/ ReadMetadata(p) \/ Overtaken(p) \/ Create(p) \/ Import(p)
             \/ Answer(p) \/ Return(p) \/ Crash(p)
    <3>1. job' = job
      BY <2>2 DEF Call, Read, ReadMetadata, Overtaken, Create, Import, Answer, Return, Crash,
                  Database
    <3> QED BY <1>2, <3>1
  <2>3. CASE WriteJob(p)
    <3>1. job' # NoRow
      BY <1>1, <1>3, <2>3
         DEF AllowedTransitions, NoRow, NoJob, JobStatus, Terminal
    <3> QED BY <1>3, <2>3, <3>1
  <2>4. CASE WriteList(p) \/ WriteMetadata(p)
    <3>1. job' # NoRow
      BY <1>1, <1>4, <2>4 DEF NoRow, NoJob, JobStatus, Terminal
    <3> QED BY <1>1, <1>4, <2>4, <3>1
  <2> QED BY <1>5, <2>1, <2>2, <2>3, <2>4
<1> QED BY <1>2, <1>6 DEF vars

LEMMA DeletedStays ==
    ASSUME IInv, [Next]_vars, deleted
    PROVE  job' = NoRow /\ deleted'
<1>1. job = NoRow BY DEF IInv, OneLife
<1>2. ASSUME NEW p \in Callers, WriteJob(p) \/ WriteList(p) \/ WriteMetadata(p) PROVE FALSE
  <2>1. Reading(p) /\ Unchanged(calls[p].job)
    BY <1>2 DEF WriteJob, WriteList, WriteMetadata, Reading
  <2> QED BY <1>1, <2>1, ReadIsCurrent
<1>3. CASE Next
  <2>1. PICK p \in Callers:
            \/ \E op \in Operations: Call(p, op)
            \/ Read(p) \/ ReadMetadata(p) \/ Overtaken(p)
            \/ WriteJob(p) \/ WriteList(p) \/ WriteMetadata(p)
            \/ Delete(p) \/ Create(p) \/ Import(p)
            \/ Answer(p) \/ Return(p) \/ Crash(p)
    BY <1>3 DEF Next
  <2> QED
    BY <1>1, <1>2, <2>1 DEF Call, Read, ReadMetadata, Overtaken, Delete, Create, Import, Answer,
                            Return, Crash, Database
<1> QED BY <1>1, <1>3 DEF vars

\* What a call wrote stays behind the row, whatever the others do.
LEMMA WroteStaysBehind ==
    ASSUME IInv, IInv', [Next]_vars, NEW wrote \in Stored,
           IF job = NoRow THEN deleted ELSE Later(job, wrote)
    PROVE  IF job' = NoRow THEN deleted' ELSE Later(job', wrote)
<1>1. CASE job = NoRow
  <2>1. deleted BY <1>1
  <2>2. job' = NoRow /\ deleted'
    BY <1>1, <2>1, DeletedStays
  <2> QED BY <2>2
<1>2. CASE job # NoRow
  <2>1. CASE job' = NoRow BY <1>2, <2>1, RowMovesOn
  <2>2. CASE job' # NoRow
    <3>1. job \in Stored BY <1>2, LaterTyped DEF IInv
    <3>2. job' \in Stored BY <2>2 DEF IInv, TypeOK
    <3>3. /\ job'.version >= job.version /\ job'.progress >= job.progress
          /\ job'.status = job.status \/ job'.status \in AllowedTransitions[job.status]
      BY <1>2, <2>2, RowMovesOn
    <3> QED BY <1>2, <2>2, <3>1, <3>2, <3>3, LaterMoves
  <2> QED BY <2>1, <2>2
<1> QED BY <1>1, <1>2

LEMMA AnswersStep ==
    ASSUME IInv, IInv', AnswersFit, [Next]_vars
    PROVE  AnswersFit'
<1>1. ASSUME NEW p \in Callers, calls'[p] = calls[p]
      PROVE  /\ calls'[p].phase = "written" /\ calls'[p].wrote # NoRow =>
                    IF job' = NoRow THEN deleted' ELSE Later(job', calls'[p].wrote)
             /\ calls'[p].phase = "answered" /\ calls'[p].wrote # NoRow =>
                    Later(calls'[p].answer, calls'[p].wrote)
  <2>1. CASE calls[p].phase = "written" /\ calls[p].wrote # NoRow
    <3>1. calls[p].wrote \in Stored BY <2>1, CallTyped DEF IInv
    <3>2. IF job = NoRow THEN deleted ELSE Later(job, calls[p].wrote) BY <2>1 DEF AnswersFit
    <3>3. IF job' = NoRow THEN deleted' ELSE Later(job', calls[p].wrote)
      BY <3>1, <3>2, WroteStaysBehind
    <3> QED BY <1>1, <2>1, <3>3
  <2>2. CASE calls[p].phase = "answered" /\ calls[p].wrote # NoRow
    BY <1>1, <2>2 DEF AnswersFit, Later
  <2> QED BY <1>1, <2>1, <2>2
<1>2. ASSUME NEW p \in Callers, NEW call \in Calls, Becomes(p, call),
             call.phase \notin {"written", "answered"}
      PROVE  AnswersFit'
  <2>1. calls'[p] = call /\ \A q \in Callers \ {p}: calls'[q] = calls[q]
    BY <1>2, BecomesTyped DEF IInv
  <2> QED BY <1>1, <1>2, <2>1 DEF AnswersFit, Later
<1>3. Idle \in Calls /\ Idle.phase \notin {"written", "answered"} BY DEF Calls, Idle
<1>4. ASSUME NEW p \in Callers, NEW wrote \in Stored \union {NoRow}, NEW read \in Stored,
             Becomes(p, [phase |-> "written", wrote |-> wrote, read |-> read]),
             wrote # NoRow => job' # NoRow /\ Later(job', wrote)
      PROVE  AnswersFit'
  <2>1. PICK call: call = [phase |-> "written", wrote |-> wrote, read |-> read] OBVIOUS
  <2>2. call \in Calls BY <2>1, AnswersTyped
  <2>3. calls'[p] = call /\ \A q \in Callers \ {p}: calls'[q] = calls[q]
    BY <1>4, <2>1, <2>2, BecomesTyped DEF IInv
  <2>4. call.phase = "written" /\ call.wrote = wrote BY <2>1
  <2> QED BY <1>1, <1>4, <2>3, <2>4 DEF AnswersFit, Later
<1>5. ASSUME NEW p \in Callers, WriteJob(p) PROVE AnswersFit'
  <2>1. Reading(p) /\ Unchanged(calls[p].job) BY <1>5 DEF WriteJob, Reading
  <2>2. job \in Stored /\ calls[p].job = job BY <2>1, ReadIsCurrent
  <2>3. PICK wrote: wrote = Written(calls[p].op, calls[p].job) OBVIOUS
  <2>4. wrote \in Stored
    BY <1>5, <2>1, <2>3, WrittenTyped, CallTyped DEF WriteJob, IInv, Reading
  <2>5. /\ job'.version = wrote.version /\ job'.status = wrote.status
        /\ job'.progress = wrote.progress
    BY <1>5, <2>2, <2>3 DEF WriteJob, Stored
  <2>6. job' # NoRow BY <2>4, <2>5 DEF Stored, JobStatus, Terminal, NoJob, NoRow
  <2>7. job' \in Stored BY <2>6 DEF IInv, TypeOK
  <2>8. Later(job', wrote) BY <2>4, <2>5, <2>7, LaterItself
  <2>9. Becomes(p, [phase |-> "written", wrote |-> wrote, read |-> calls[p].job])
    BY <1>5, <2>3 DEF WriteJob
  <2> QED BY <1>4, <2>2, <2>4, <2>6, <2>8, <2>9
<1>6. ASSUME NEW p \in Callers, Create(p) PROVE AnswersFit'
  <2>1. CASE job = NoRow
    <3>1. Becomes(p, Idle) BY <1>6, <2>1 DEF Create
    <3> QED BY <1>2, <1>3, <3>1
  <2>2. CASE job # NoRow
    <3>1. Becomes(p, [phase |-> "written", wrote |-> NoRow, read |-> job])
      BY <1>6, <2>2 DEF Create
    <3> QED BY <1>4, <2>2, <3>1, LaterTyped DEF IInv
  <2> QED BY <2>1, <2>2
<1>7. ASSUME NEW p \in Callers, Answer(p) PROVE AnswersFit'
  <2>1. CASE Becomes(p, Idle) BY <1>2, <1>3, <2>1
  <2>2. CASE job # NoRow /\ Becomes(p, [phase |-> "answered", wrote |-> calls[p].wrote,
                                        answer |-> AnswerOf(p)])
    <3>1. PICK call: call = [phase |-> "answered", wrote |-> calls[p].wrote,
                             answer |-> AnswerOf(p)]
      OBVIOUS
    <3>2. calls[p].wrote \in Stored \union {NoRow} /\ job \in Stored
      BY <1>7, <2>2, CallTyped, RowTyped DEF Answer, IInv
    <3>3. call \in Calls BY <3>1, <3>2, AnswersTyped DEF AnswerOf
    <3>4. calls'[p] = call /\ \A q \in Callers \ {p}: calls'[q] = calls[q]
      BY <2>2, <3>1, <3>3, BecomesTyped DEF IInv
    <3>5. call.phase = "answered" /\ call.wrote = calls[p].wrote /\ call.answer = job
      BY <3>1 DEF AnswerOf
    <3>6. call.wrote # NoRow => Later(call.answer, call.wrote)
      BY <1>7, <2>2, <3>5 DEF AnswersFit, Answer
    <3> QED BY <1>1, <3>4, <3>5, <3>6 DEF AnswersFit, Later
  <2> QED BY <1>7, <2>1, <2>2 DEF Answer
<1>8. CASE Next
  <2>1. PICK p \in Callers:
            \/ \E op \in Operations: Call(p, op)
            \/ Read(p) \/ ReadMetadata(p) \/ Overtaken(p)
            \/ WriteJob(p) \/ WriteList(p) \/ WriteMetadata(p)
            \/ Delete(p) \/ Create(p) \/ Import(p)
            \/ Answer(p) \/ Return(p) \/ Crash(p)
    BY <1>8 DEF Next
  <2>2. CASE \E op \in Operations: Call(p, op)
    <3>1. PICK op \in Operations: Call(p, op) BY <2>2
    <3>2. PICK call: call = [phase |-> "called", op |-> op] OBVIOUS
    <3>3. call \in Calls /\ Becomes(p, call) /\ call.phase = "called"
      BY <3>1, <3>2, CallsTyped DEF Call
    <3> QED BY <1>2, <3>3
  <2>3. CASE Read(p)
    <3>1. PICK call: call = [phase |-> "read", op |-> calls[p].op, job |-> job] OBVIOUS
    <3>2. calls[p].op \in Operations BY <2>3, CallTyped DEF Read, IInv
    <3>3. job # NoRow => call \in Calls BY <3>1, <3>2, CallsTyped, LaterTyped DEF IInv
    <3>4. Becomes(p, Idle) \/ (job # NoRow /\ Becomes(p, call)) BY <2>3, <3>1 DEF Read
    <3>5. call.phase = "read" BY <3>1
    <3> QED BY <1>2, <1>3, <3>3, <3>4, <3>5
  <2>4. CASE ReadMetadata(p)
    <3>1. PICK call: call = [phase |-> "merging", op |-> calls[p].op, job |-> calls[p].job,
                             meta |-> meta]
      OBVIOUS
    <3>2. Becomes(p, call) BY <2>4, <3>1 DEF ReadMetadata
    <3>3. calls[p].op \in Operations /\ calls[p].job \in Stored /\ meta \in Metadata
      BY <2>4, CallTyped DEF ReadMetadata, Reading, TypeOK, IInv
    <3>4. calls[p].op \in Merges
      BY <2>4, <3>3 DEF ReadMetadata, Operations, Updates, Inserts
    <3>5. call \in Calls BY <3>1, <3>3, <3>4, CallsTyped
    <3> QED BY <1>2, <3>1, <3>2, <3>5
  <2>5. CASE Overtaken(p) \/ WriteList(p) \/ WriteMetadata(p) \/ Delete(p) \/ Import(p)
             \/ Return(p) \/ Crash(p)
    <3>1. Becomes(p, Idle)
      BY <2>5 DEF Overtaken, WriteList, WriteMetadata, Delete, Import, Return, Crash
    <3> QED BY <1>2, <1>3, <3>1
  <2> QED BY <1>5, <1>6, <1>7, <2>1, <2>2, <2>3, <2>4, <2>5
<1>9. CASE UNCHANGED vars BY <1>1, <1>9 DEF vars, AnswersFit, Later
<1> QED BY <1>8, <1>9

LEMMA AnswersInit == Init => AnswersFit
BY DEF Init, AnswersFit, Idle

LEMMA AnswersInvariant == IInv /\ AnswersFit => AnswersShowTheWrite
<1> SUFFICES ASSUME IInv, AnswersFit, NEW p \in Callers, calls[p].phase = "answered",
                    calls[p].wrote # NoRow
             PROVE  /\ calls[p].answer.version >= calls[p].wrote.version
                    /\ calls[p].answer.progress >= calls[p].wrote.progress
                    /\ calls[p].answer.status \in Step(Step(Step({calls[p].wrote.status})))
  BY DEF AnswersShowTheWrite
<1>1. Later(calls[p].answer, calls[p].wrote) BY DEF AnswersFit
<1>2. calls[p].wrote \in Stored BY CallTyped DEF IInv
<1>3. calls[p].wrote.status \in JobStatus BY <1>2 DEF Stored
<1> QED BY <1>1, <1>3, AfterIsReached DEF Later

\* An answer shows what the call wrote or what was made of it since, however long the read
\* after the commit takes and whatever the other callers do meanwhile.
THEOREM AnswersAreCurrent == Spec => []AnswersShowTheWrite
BY InvInit, InvStep, AnswersInit, AnswersStep, AnswersInvariant, PTL DEF Spec
=============================================================================
