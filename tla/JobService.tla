----------------------------- MODULE JobService -----------------------------
(***************************************************************************)
(* The life of jobs in one server process: the start, full-match run, stop *)
(* and delete requests of api.py, the two admission semaphores, the thread *)
(* pool, and the executions it runs (the short-clip pipeline and the       *)
(* full-match runner, seen through the status of the job).                 *)
(*                                                                         *)
(* Requests run concurrently with each other and with the executions; each *)
(* action is what a request or a worker does up to its next access to      *)
(* shared state.  A restart loses everything but the rows.                 *)
(*                                                                         *)
(* The rows are those of storage.py or of persistence/sqlalchemy.py.  The  *)
(* first reads and writes a row in one transaction; the second reads it    *)
(* and writes it only if nobody has written it since, and refuses the      *)
(* operation otherwise.  Where that can happen both outcomes are modelled. *)
(***************************************************************************)
EXTENDS Jobs, Naturals, Sequences, FiniteSets

CONSTANTS
    Job,
    S3,                     \* the jobs whose source_path is an s3:// uri
    Request,                \* requests that can be under way at once
    Worker,                 \* threads of the executor
    MaxPending,             \* max_pending_jobs
    MaxRestarts             \* bound on restarts

ASSUME JobAssumption ==
    /\ IsFiniteSet(Job)
    /\ S3 \subseteq Job
    /\ IsFiniteSet(Request)
    /\ IsFiniteSet(Worker)
    /\ MaxPending \in Nat \ {0}
    /\ MaxRestarts \in Nat

VARIABLES
    job,                    \* the row of each job
    req,                    \* where each request is, for which job, what it read
    taken,                  \* units of admission taken
    fullTaken,              \* units of full_match_admission taken
    active,                 \* full_match_active
    open,                   \* the executor accepts work
    queue,                  \* its queue of submitted executions
    worker,                 \* what each thread is doing
    answered,               \* jobs whose stop was answered with success
    orphans,                \* jobs a restart left behind unfinished
    restarts

memory == <<req, taken, fullTaken, active, open, queue, worker>>
vars == <<job, req, taken, fullTaken, active, open, queue, worker,
          answered, orphans, restarts>>

Executions == [kind: {"short", "full"}, job: Job]

\* A request waits nowhere: its pc names the step it takes next.
StartSteps == {"admit", "reserve", "submit", "undo"}
RunSteps == {"lock", "run_reserve", "run_submit", "run_check", "run_undo"}
RequestSteps == StartSteps \union RunSteps \union {"stop", "delete"}

NoRequest == [pc |-> "idle"]
Requests == {NoRequest} \union [pc: RequestSteps, job: Job, seen: Rows]

(* The writes an execution makes: the status it has read, the one it writes, and
   where it goes on when the repository accepts or refuses the transition. *)
Writes ==
    LET Write(read, target, done, refused) ==
            [read |-> read, target |-> target, done |-> done, refused |-> refused]
    IN  [stop_enter |-> Write("stopping", "stopped", "leave", "late"),
         stop_work  |-> Write("stopping", "stopped", "leave", "handle"),
         stop_inner |-> Write("stopping", "stopped", "leave", "late"),
         fail_inner |-> Write("running", "failed", "late", "late"),
         stop_late  |-> Write("stopping", "stopped", "leave", "leave"),
         fail_late  |-> Write("running", "failed", "leave", "leave")]

WorkerSteps ==
    {"enter", "work", "finish", "handle", "late", "leave"} \union DOMAIN Writes

NoWork == [pc |-> "idle"]
Works == {NoWork} \union [pc: WorkerSteps, run: Executions]

TypeOK ==
    /\ job \in [Job -> Rows]
    /\ req \in [Request -> Requests]
    /\ taken \in 0..MaxPending
    /\ fullTaken \in 0..1
    /\ active \subseteq S3
    /\ open \in BOOLEAN
    /\ queue \in Seq(Executions)
    /\ worker \in [Worker -> Works]
    /\ answered \subseteq Job
    /\ orphans \subseteq Job
    /\ restarts \in 0..MaxRestarts

Init ==
    /\ job = [j \in Job |-> "created"]
    /\ req = [r \in Request |-> NoRequest]
    /\ taken = 0
    /\ fullTaken = 0
    /\ active = {}
    /\ open = TRUE
    /\ queue = <<>>
    /\ worker = [w \in Worker |-> NoWork]
    /\ answered = {}
    /\ orphans = {}
    /\ restarts = 0

-----------------------------------------------------------------------------
(* Transitions. *)

At(r, step) == req[r].pc = step
Doing(w, step) == worker[w].pc = step

(* An execution at work writes progress and results to the row of its job. *)
Writing(j) == \E w \in Worker : Doing(w, "work") /\ worker[w].run.job = j

(* An execution, or a stop, may have written the row of j since it was read. *)
Overtaken(j, read) == Writing(j) \/ (job[j] = "stopping" /\ read # "stopping")

(* transition, by somebody who has read the row; raises without an effect. *)
MayRefuse(j, read, target) == ~CanTransition(job[j], target) \/ Overtaken(j, read)

-----------------------------------------------------------------------------
(* Requests. *)

(* get_job, and the check on what it read; any other status is a 409. *)
Begin(r, j, statuses, step) ==
    /\ At(r, "idle")
    /\ job[j] \in statuses
    /\ req' = [req EXCEPT ![r] = [pc |-> step, job |-> j, seen |-> job[j]]]
    /\ UNCHANGED <<job, taken, fullTaken, active, open, queue, worker,
                   answered, orphans, restarts>>

Goto(r, step) == req' = [req EXCEPT ![r].pc = step]
GotoReading(r, step) ==
    req' = [req EXCEPT ![r].pc = step, ![r].seen = job[req[r].job]]
Answer(r) == req' = [req EXCEPT ![r] = NoRequest]

StartJob(r, j) == Begin(r, j, {"created"}, "admit")

(* Mutant: one job too many. *)
RoomForOneMore == taken <= MaxPending

Room == taken < MaxPending

(* admission.acquire(blocking=False), or 429. *)
Admit(r) ==
    /\ At(r, "admit")
    /\ \/ /\ Room
          /\ taken' = taken + 1
          /\ Goto(r, "reserve")
       \/ /\ ~Room
          /\ Answer(r)
          /\ UNCHANGED taken
    /\ UNCHANGED <<job, fullTaken, active, open, queue, worker, answered,
                   orphans, restarts>>

(* A refused transition gives the unit back; JobNotFound escapes as it is.  A row
   deleted meanwhile is missing, or its update is refused. *)
Reserve(r) ==
    LET j == req[r].job IN
    /\ At(r, "reserve")
    /\ \/ /\ CanTransition(job[j], "running")
          /\ job' = [job EXCEPT ![j] = "running"]
          /\ Goto(r, "submit")
          /\ UNCHANGED taken
       \/ /\ MayRefuse(j, req[r].seen, "running")
          /\ taken' = taken - 1
          /\ Answer(r)
          /\ UNCHANGED job
       \/ /\ job[j] = NoJob
          /\ Answer(r)
          /\ UNCHANGED <<job, taken>>
    /\ UNCHANGED <<fullTaken, active, open, queue, worker, answered, orphans,
                   restarts>>

(* executor.submit, which raises once the executor is shut down. *)
Submit(r) ==
    /\ At(r, "submit")
    /\ \/ /\ open
          /\ queue' = Append(queue, [kind |-> "short", job |-> req[r].job])
          /\ Answer(r)
          /\ UNCHANGED taken
       \/ /\ ~open
          /\ taken' = taken - 1
          /\ GotoReading(r, "undo")
          /\ UNCHANGED queue
    /\ UNCHANGED <<job, fullTaken, active, open, worker, answered, orphans,
                   restarts>>

(* Mutant: the handler returns the unit once more. *)
UndoReleasing(r) ==
    /\ req[r].pc \in {"undo", "run_undo"}
    /\ job' = [job EXCEPT ![req[r].job] = Transition(@, "failed")]
    /\ taken' = taken - 1
    /\ Answer(r)
    /\ UNCHANGED <<fullTaken, active, open, queue, worker, answered, orphans,
                   restarts>>

(* Mutant: the job keeps the status it was reserved with. *)
UndoNothing(r) ==
    /\ req[r].pc \in {"undo", "run_undo"}
    /\ Answer(r)
    /\ UNCHANGED <<job, taken, fullTaken, active, open, queue, worker, answered,
                   orphans, restarts>>

(* transition(FAILED) after a submission that failed; a refusal is a 500. *)
Undo(r) ==
    LET j == req[r].job IN
    /\ req[r].pc \in {"undo", "run_undo"}
    /\ \/ /\ CanTransition(job[j], "failed")
          /\ job' = [job EXCEPT ![j] = "failed"]
       \/ /\ MayRefuse(j, req[r].seen, "failed")
          /\ UNCHANGED job
    /\ Answer(r)
    /\ UNCHANGED <<taken, fullTaken, active, open, queue, worker, answered,
                   orphans, restarts>>

-----------------------------------------------------------------------------
(* A completed job is replayed without touching anything here. *)
RunFullMatch(r, j) == j \in S3 /\ Begin(r, j, {"created", "running"}, "lock")

(* Under full_match_active_lock: already active, busy, or admitted. *)
Lock(r) ==
    LET j == req[r].job IN
    /\ At(r, "lock")
    /\ \/ /\ j \in active \/ fullTaken = 1
          /\ Answer(r)
          /\ UNCHANGED <<fullTaken, active>>
       \/ /\ j \notin active
          /\ fullTaken = 0
          /\ fullTaken' = 1
          /\ active' = active \union {j}
          /\ Goto(r, "run_reserve")
    /\ UNCHANGED <<job, taken, open, queue, worker, answered, orphans, restarts>>

(* Mutant: the job stays in full_match_active. *)
WithdrawUnit(j) ==
    /\ active' = active
    /\ fullTaken' = fullTaken - 1

(* full_match_active.discard and full_match_admission.release.  Between the
   two another request can only be told that the runner is busy. *)
Withdraw(j) ==
    /\ active' = active \ {j}
    /\ fullTaken' = fullTaken - 1

Admitted(r) ==
    req[r].seen = "running" \/ CanTransition(job[req[r].job], "running")

(* The runner is built, and a created job goes to running, or all of it is
   given up, whatever was raised. *)
RunReserve(r) ==
    LET j == req[r].job IN
    /\ At(r, "run_reserve")
    /\ \/ /\ Admitted(r)
          /\ job' = IF req[r].seen = "created"
                    THEN [job EXCEPT ![j] = "running"] ELSE job
          /\ Goto(r, "run_submit")
          /\ UNCHANGED <<fullTaken, active>>
       \/ /\ Withdraw(j)
          /\ Answer(r)
          /\ UNCHANGED job
    /\ UNCHANGED <<taken, open, queue, worker, answered, orphans, restarts>>

RunSubmit(r) ==
    LET j == req[r].job IN
    /\ At(r, "run_submit")
    /\ \/ /\ open
          /\ queue' = Append(queue, [kind |-> "full", job |-> j])
          /\ Answer(r)
          /\ UNCHANGED <<fullTaken, active>>
       \/ /\ ~open
          /\ Withdraw(j)
          /\ Goto(r, "run_check")
          /\ UNCHANGED queue
    /\ UNCHANGED <<job, taken, open, worker, answered, orphans, restarts>>

(* After a failed submission: get, and only a running job is failed. *)
RunCheck(r) ==
    /\ At(r, "run_check")
    /\ IF job[req[r].job] = "running" THEN GotoReading(r, "run_undo") ELSE Answer(r)
    /\ UNCHANGED <<job, taken, fullTaken, active, open, queue, worker,
                   answered, orphans, restarts>>

-----------------------------------------------------------------------------
StopJob(r, j) == Begin(r, j, {"created", "running"}, "stop")

(* A job already stopping is returned as it is. *)
StopAgain(r, j) ==
    /\ At(r, "idle")
    /\ job[j] = "stopping"
    /\ answered' = answered \union {j}
    /\ UNCHANGED <<memory, job, orphans, restarts>>

(* The transition chosen by what was read; a refusal is a 500.  A job that was
   started meanwhile may be stopped at once, or the update be refused. *)
Stop(r) ==
    LET j == req[r].job
        target == IF req[r].seen = "created" THEN "stopped" ELSE "stopping" IN
    /\ At(r, "stop")
    /\ \/ /\ CanTransition(job[j], target)
          /\ job' = [job EXCEPT ![j] = target]
          /\ answered' = answered \union {j}
       \/ /\ MayRefuse(j, req[r].seen, target) \/ job[j] # req[r].seen
          /\ UNCHANGED <<job, answered>>
    /\ Answer(r)
    /\ UNCHANGED <<taken, fullTaken, active, open, queue, worker, orphans,
                   restarts>>

(* Running and stopping jobs are refused. *)
DeleteJob(r, j) == Begin(r, j, Terminal \union {"created"}, "delete")

(* Artifacts and source are removed, then the row. *)
Delete(r) ==
    /\ At(r, "delete")
    /\ job' = [job EXCEPT ![req[r].job] = NoJob]
    /\ Answer(r)
    /\ UNCHANGED <<taken, fullTaken, active, open, queue, worker, answered,
                   orphans, restarts>>

-----------------------------------------------------------------------------
(* Executions. *)

Proceed(w, step) == worker' = [worker EXCEPT ![w].pc = step]
Rests == <<req, taken, fullTaken, active, open, queue, answered, orphans, restarts>>

Take(w) ==
    /\ Doing(w, "idle")
    /\ queue # <<>>
    /\ worker' = [worker EXCEPT ![w] = [pc |-> "enter", run |-> Head(queue)]]
    /\ queue' = Tail(queue)
    /\ UNCHANGED <<job, req, taken, fullTaken, active, open, answered, orphans,
                   restarts>>

(* Pipeline.run, after its factory: a failing factory, a missing job and a
   job in any other status are left to the handler of run_reserved_job. *)
EnterShort(w) ==
    LET j == worker[w].run.job IN
    /\ Doing(w, "enter")
    /\ worker[w].run.kind = "short"
    /\ \/ job[j] = "running" /\ Proceed(w, "work")
       \/ job[j] = "stopping" /\ Proceed(w, "stop_enter")
       \/ Proceed(w, "late")
    /\ UNCHANGED <<Rests, job>>

(* FullMatchRunner.run: a completed job is only validated, and any other
   status but running is an error that nobody handles. *)
EnterFull(w) ==
    LET j == worker[w].run.job IN
    /\ Doing(w, "enter")
    /\ worker[w].run.kind = "full"
    /\ Proceed(w, IF job[j] = "running" THEN "work" ELSE "leave")
    /\ UNCHANGED <<Rests, job>>

(* Frames or chunks, until a stop is seen, something fails, or all is done.
   The runner prepares media outside its inner handler. *)
Work(w) ==
    /\ Doing(w, "work")
    /\ \/ job[worker[w].run.job] = "stopping" /\ Proceed(w, "stop_work")
       \/ Proceed(w, "handle")
       \/ worker[w].run.kind = "full" /\ Proceed(w, "late")
       \/ Proceed(w, "finish")
    /\ UNCHANGED <<Rests, job>>

(* complete_or_stop, which a stop or another execution may overtake. *)
Finish(w) ==
    LET j == worker[w].run.job IN
    /\ Doing(w, "finish")
    /\ \/ /\ CanFinalize(job[j])
          /\ job' = [job EXCEPT ![j] = CompleteOrStop(@)]
          /\ Proceed(w, "leave")
       \/ /\ ~CanFinalize(job[j]) \/ Overtaken(j, "running")
          /\ Proceed(w, "handle")
          /\ UNCHANGED job
    /\ UNCHANGED Rests

(* The inner handler reads the job and raises again unless it stopped it. *)
Handle(w) ==
    LET row == job[worker[w].run.job] IN
    /\ Doing(w, "handle")
    /\ Proceed(w, CASE row = "stopping" -> "stop_inner"
                    [] row = "running" -> "fail_inner"
                    [] OTHER -> "late")
    /\ UNCHANGED <<Rests, job>>

(* Mutant: the outer handler leaves a running job alone. *)
HandleLateStops(w) ==
    /\ Doing(w, "late")
    /\ Proceed(w, IF job[worker[w].run.job] = "stopping" THEN "stop_late" ELSE "leave")
    /\ UNCHANGED <<Rests, job>>

(* Mutant: the outer handler leaves a stopping job alone. *)
HandleLateFails(w) ==
    /\ Doing(w, "late")
    /\ Proceed(w, IF job[worker[w].run.job] = "running" THEN "fail_late" ELSE "leave")
    /\ UNCHANGED <<Rests, job>>

(* The outer handler reads it again. *)
HandleLate(w) ==
    LET row == job[worker[w].run.job] IN
    /\ Doing(w, "late")
    /\ Proceed(w, CASE row = "stopping" -> "stop_late"
                    [] row = "running" -> "fail_late"
                    [] OTHER -> "leave")
    /\ UNCHANGED <<Rests, job>>

(* The transition that a handler or a stop check decided on. *)
Write(w) ==
    LET j == worker[w].run.job
        write == Writes[worker[w].pc] IN
    /\ worker[w].pc \in DOMAIN Writes
    /\ \/ /\ CanTransition(job[j], write.target)
          /\ job' = [job EXCEPT ![j] = write.target]
          /\ Proceed(w, write.done)
       \/ /\ MayRefuse(j, write.read, write.target)
          /\ Proceed(w, write.refused)
          /\ UNCHANGED job
    /\ UNCHANGED Rests

(* The finally clause of the submitted function. *)
Leave(w) ==
    /\ Doing(w, "leave")
    /\ worker' = [worker EXCEPT ![w] = NoWork]
    /\ \/ /\ worker[w].run.kind = "short"
          /\ taken' = taken - 1
          /\ UNCHANGED <<fullTaken, active>>
       \/ /\ worker[w].run.kind = "full"
          /\ Withdraw(worker[w].run.job)
          /\ UNCHANGED taken
    /\ UNCHANGED <<job, req, open, queue, answered, orphans, restarts>>

-----------------------------------------------------------------------------
(* The end of lifespan: queued executions still run. *)
Shutdown ==
    /\ open
    /\ open' = FALSE
    /\ UNCHANGED <<job, req, taken, fullTaken, active, queue, worker, answered,
                   orphans, restarts>>

(* The process dies, at any point, and a new one starts. *)
Restart ==
    /\ restarts < MaxRestarts
    /\ restarts' = restarts + 1
    /\ orphans' = {j \in Job : job[j] \in {"running", "stopping"}}
    /\ req' = [r \in Request |-> NoRequest]
    /\ taken' = 0
    /\ fullTaken' = 0
    /\ active' = {}
    /\ open' = TRUE
    /\ queue' = <<>>
    /\ worker' = [w \in Worker |-> NoWork]
    /\ UNCHANGED <<job, answered>>

Call(r, j) ==
    \/ StartJob(r, j)
    \/ RunFullMatch(r, j)
    \/ StopJob(r, j)
    \/ StopAgain(r, j)
    \/ DeleteJob(r, j)

Serve(r) ==
    \/ Admit(r) \/ Reserve(r) \/ Submit(r) \/ Undo(r)
    \/ Lock(r) \/ RunReserve(r) \/ RunSubmit(r) \/ RunCheck(r)
    \/ Stop(r)
    \/ Delete(r)

Execute(w) ==
    \/ Take(w)
    \/ EnterShort(w)
    \/ EnterFull(w)
    \/ Work(w)
    \/ Finish(w)
    \/ Handle(w)
    \/ HandleLate(w)
    \/ Write(w)
    \/ Leave(w)

Next ==
    \/ \E r \in Request : Serve(r) \/ \E j \in Job : Call(r, j)
    \/ \E w \in Worker : Execute(w)
    \/ Shutdown
    \/ Restart

Spec == Init /\ [][Next]_vars

(* Threads run on: a request that is being served is served to its end, and
   a worker goes on until it has nothing to do.  Nobody has to call. *)
FairSpec ==
    /\ Spec
    /\ \A r \in Request : WF_vars(Serve(r))
    /\ \A w \in Worker : WF_vars(Execute(w))

-----------------------------------------------------------------------------
(* Properties. *)

\* The requests, queued executions and threads that hold a unit of admission.
ShortHolders ==
    {<<"request", r>> : r \in {q \in Request : req[q].pc \in {"reserve", "submit"}}}
    \union {<<"queued", i>> : i \in {n \in DOMAIN queue : queue[n].kind = "short"}}
    \union {<<"worker", w>> : w \in {v \in Worker : /\ ~Doing(v, "idle")
                                                    /\ worker[v].run.kind = "short"}}

\* The same for full_match_admission and job j.
FullHolders(j) ==
    LET run == [kind |-> "full", job |-> j] IN
    {<<"request", r>> : r \in {q \in Request : /\ req[q].pc \in {"run_reserve", "run_submit"}
                                               /\ req[q].job = j}}
    \union {<<"queued", i>> : i \in {n \in DOMAIN queue : queue[n] = run}}
    \union {<<"worker", w>> : w \in {v \in Worker : ~Doing(v, "idle") /\ worker[v].run = run}}

\* Somebody is still going to decide what becomes of job j.
Driven(j) ==
    \/ \E r \in Request : /\ req[r].pc \in {"submit", "undo", "run_submit",
                                             "run_check", "run_undo"}
                           /\ req[r].job = j
    \/ \E i \in DOMAIN queue : queue[i].job = j
    \/ \E w \in Worker : /\ worker[w].pc \notin {"idle", "leave"}
                          /\ worker[w].run.job = j

(* Never more short-clip jobs reserved, queued or running than units taken,
   whatever fails on the way: api.py releases each unit once at most. *)
AdmissionBounds == Cardinality(ShortHolders) <= taken

(* full_match_active, the semaphore and the work under way always agree: one
   request or execution per active job, and none for any other. *)
OneRunner ==
    /\ fullTaken = Cardinality(active)
    /\ \A j \in Job : Cardinality(FullHolders(j)) = IF j \in active THEN 1 ELSE 0

(* No job is left running with nobody to finish or fail it, unless the process
   that ran it died. *)
RunningIsDriven == \A j \in Job : job[j] = "running" /\ j \notin orphans => Driven(j)

(* A stop that was answered is never overtaken by a completion, nor does the job
   run again (docs/DECISIONS.md:61, "stops a job whose cancellation arrived first").
   It may still end failed: see StopNotFailed. *)
StopBeatsCompletion ==
    \A j \in answered : job[j] \notin {"created", "running", "completed"}

(* A running job does not run for ever: it ends, is asked to stop, is deleted,
   or is orphaned by a restart. *)
RunsEnd == \A j \in Job : job[j] = "running" ~> job[j] # "running" \/ j \in orphans

\* Somebody has read j as running and writes failed, the last thing he does.
Failing(j) ==
    \/ \E r \in Request : At(r, "undo") /\ req[r].job = j /\ req[r].seen = "running"
    \/ \E w \in Worker : Doing(w, "fail_late") /\ worker[w].run.job = j

(* A stop of a job that only the short-clip pipeline can run takes effect: as long
   as somebody drives the job who has not read it as running for the last time
   (api.py:380-385, 393), he ends it. *)
ShortStops ==
    \A j \in Job \ S3 :
        job[j] = "stopping" /\ Driven(j) /\ ~Failing(j)
            ~> job[j] # "stopping" \/ j \in orphans

-----------------------------------------------------------------------------
(* What the documents say and the code does not do. *)

(* docs/DECISIONS.md:61, "background initialization errors do not turn a concurrent
   cancellation into failure". *)
StopNotFailed == \A j \in answered : job[j] # "failed"

(* docs/DECISIONS.md:61, "A reserved worker entering after a stop request
   transitions directly to stopped": of the full-match runner too. *)
EnteredStops ==
    \A j \in Job : job[j] = "stopping" ~> job[j] # "stopping" \/ j \in orphans
=============================================================================
