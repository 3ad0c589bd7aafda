# A TLA+ verification of football-intelligence

The program takes a football video, detects and tracks what moves in it, spots
candidate events, reads the scoreboard, and renders an annotated video. Around
that computation it keeps durable state: upload sessions in SQL whose bytes are
in an S3 bucket, jobs in a database, restart manifests on disk, stage leases for
workers. This directory models that durable state and the concurrency around it,
and of the computation the parts that remember something from one frame, chunk
or list to the next. TLC checks the models on small instances; TLAPS proves most
of what they say for every instance.

Paths below are relative to `src/football_intelligence/` of the repository
unless they start with `docs/` or `tests/`.

## 1. The system

| Component | State it keeps | Operations | What is hard about it |
|---|---|---|---|
| multipart upload service, `uploads.py`, `persistence/uploads.py` | one `upload_sessions` row per upload with `status` and `version`; a per-upload `RLock` in each server | create, presign, list parts, complete, abort, get, `cleanup_expired` | several servers share the row and are ordered only by its compare-and-set; every handler works on a copy it read earlier; expiry, abort, cleanup and completion race for one object; answers of the bucket get lost |
| object store, `object_store.py` | multipart uploads, parts, objects | create, sign, list, complete, abort, stat, stream, delete | a completion that timed out may have been applied, or be applied later |
| stage leases, `persistence/stages.py` | `job_stages` rows: status, attempt, checkpoint, owner, lease, version, completion identity | claim, checkpoint, complete, fail, retry | redelivered tasks, leases that run out, two deliveries under one worker id, lost answers |
| job repositories, `storage.py` (SQLite), `persistence/sqlalchemy.py` | jobs with their status, events, tracks, metadata | create, `create_with_id`, `transition`, `update_progress`, `complete_or_stop`, save metadata and lists, import, delete | a stop and a completion race; on PostgreSQL every call reads, decides and writes in separate statements |
| job service, `api.py` | two admission semaphores, `full_match_active`, the executor queue | upload, start, full-match run, stop, delete, clips, media routes | check-then-act over several shared structures; failed submission; restart loses the memory and keeps the rows |
| short-clip pipeline, `pipeline.py` | one job's progress | `run` | two nested error handlers, stop checks between frames |
| full-match runner, `fullmatch/runner.py` | workspace files, the manifest, the scoreboard consensus in memory | `run`, replay of a completed job | crash at any step; media files are not flushed, the manifest is; resumed chunks depend on earlier ones |
| restart manifest, `fullmatch/manifest.py` | `manifest.json` | create, save, load, progress | atomic replacement; version 1 files |
| media tools, `fullmatch/media.py`, `video.py` | localized source, proxy, chunks | localize, probe, encode, concatenate | partial files after a failure |
| scoreboard OCR, `fullmatch/ocr.py` | accepted score, pending score, clock, period, misses | parse, observe, `observe_missing`, snapshot | missed reads, misreads, wrong clocks, gaps, in any order |
| chunk planning, `fullmatch/chunks.py` | none | `plan_chunks` | boundaries, termination |
| tracking, `tracking/` | tracks with hits and misses | `update` | identities over missed frames |
| event engine, `events.py` | the kick candidate: contact, ball continuity, cooldown | observe, drain, deduplicate, fuse | many conditions over successive frames; folds over lists whose results move |
| trails, `trails.py` | the points of each track and its last frame | `update` | gaps, jumps and failed frames must end a trail |
| action spotting, `action.py` | none | windows over features, suppression | boundaries; order of the spots |
| overlay, heat map, pitch filter, detection, clips | little or none | pure computation, drawing, ffmpeg | numeric |
| web page, UI, CLI, worker, settings, provenance, migrations, event bus | none of their own | entry points and views | none |

How they interact. A client creates a session and PUTs parts to the bucket with
presigned URLs; `complete_upload` publishes the object, streams it to verify its
checksum, seals the session and inserts the job it planned at creation. `/start`
takes a unit of admission, moves the job to `running` and submits the pipeline
to the executor; `/full-match/run` does the same with its one-slot semaphore and
the runner. Executions decide with the jobs table, through `complete_or_stop`,
whether they completed or were stopped. The runner works in the job's workspace
and records its progress in the manifest. The upload service's lifespan task
calls `cleanup_expired` for ever. Inside an execution, each frame goes through
detector, tracker, kick engine, OCR and trails; a full match is cut into
overlapping chunks, each with a tracker, an engine and trails of its own, and the
candidates of all chunks are merged into one list.

What makes each component correct:

- *Uploads.* A job exists only for media that was verified, and the session was
  sealed first; sealed media stays in the bucket; an acknowledged completion is
  final; a session marked clean is clean for good; storage of closed and overdue
  sessions is reclaimed in the end.
- *Stages.* Only the delivery that holds the current attempt writes for it; a
  stage is completed once, and a repeated answer names that completion;
  checkpoints never go back.
- *Jobs.* Units of admission, the active set and the executions agree; no job is
  `running` with nobody to finish it; an answered stop is not overtaken by a
  completion, and by a failure only as finding 4 below says; running jobs end.
- *Runner.* Whatever was lost, completed chunks form one continuous prefix on
  one proxy; the video of a completed job is one whole rendering; only completed
  jobs have a final artifact; intact chunks are never redone; the localized
  source does not outlive the run that completed the job.
- *Job table.* Every call does the whole of what it was asked for to the job as it
  is at that moment, or nothing; its answer is never older than its own write.
- *Frames.* Frames are put out in order and none twice, and at most one is missing
  at each border of two chunks, by rounding; no kick is listed twice, a kick was
  really seen, a track is one object, a trail is a line it went.
- *Lists.* Merging keeps the surest of every group of duplicates; a fused event
  rests on independent sources; nothing is lost or told twice.
- *Scoreboard.* A change is emitted once, and only when it was read often
  enough; a change that stays on the screen is accepted although reads are
  missed; clock, period and score never go back.

## 2. Modules

| Module | What it is |
|---|---|
| `ObjectStore` | the bucket behind one session; used by `UploadSession` |
| `UploadSession` | the upload service on several servers over one row, one bucket and the jobs table |
| `UploadPromise` | what the service promises about a session, without servers, versions or calls |
| `UploadSession_proofs` | its proofs |
| `StageLease`, `StageLease_proofs` | one row of `job_stages`, and proofs |
| `Jobs` | what each operation of the jobs table does to a status; used by `JobService` and `FullMatchRunner` |
| `JobTable` | what the repositories promise of one job: every operation is one step |
| `JobStore`, `JobStore_proofs` | the SQLAlchemy repository statement by statement, and the proof that it implements `JobTable` |
| `JobService`, `JobService_proofs` | requests, semaphores, executor and executions of one server process, and proofs |
| `FullMatchRunner`, `FullMatchRunner_proofs` | one match, from localization to the promoted artifact, with crashes, and proofs |
| `ScoreboardConsensus`, `ScoreboardConsensus_proofs` | the consensus over the readings of one scoreboard, and proofs |
| `KickEngine` | the state machine that finds kicks |
| `Tracker` | the tracker that gives detections their identities |
| `FrameLoop`, `FrameLoop_proofs` | one match frame by frame through overlapping chunks; composes `KickEngine`, `Tracker`, `ChunkPlan` and `EventLists`; and proofs about it and the engine |
| `ChunkPlan` | the windows of a match and the frames of a window, as functions |
| `EventLists` | deduplication, fusion, suppression of spots, windows over features, as functions |
| `Results`, `Results_proofs` | lists, plans and feature arrays on which the functions of `EventLists` and `ChunkPlan` are compared with what their results mean: TLC takes each of a bounded size, the proofs take them all |
| `MC*` | symmetry sets and constant values for TLC |

An operator whose comment begins with *Mutant* is a plausible mistake in the
definition that follows it. It is not part of the model: it documents that a
property notices this mistake.

### UploadSession

The unit of atomicity is one database or bucket call. Inside one server the
per-upload lock lets a single handler touch the session, so a server is one
control point `pc[s]` with one copy `seen[s]` of the row; between servers
nothing is ordered but the row's compare-and-set (`CompareAndSet`,
`persistence/uploads.py:61`). `After<Step>(u)` is the chain of status checks of
`complete_upload`: which call a handler that holds row `u` makes next. A
compare-and-set that won is followed by a read of the row as a step of its own,
because `persistence/uploads.py` answers with a second query; another server may
have been faster, and the code goes on from what it reads.

The bytes of a part are abstracted to whether they are the declared ones, which
is what the SHA-256 comparison finds out. `Transfer` has every outcome of
`complete_multipart` that `object_store.py` distinguishes, and a completion
whose connection died stays `inflight` until it lands or dies (`LateCompletion`).
`Fail` ends a handler at any call, which stands for a crash, and for a call whose
answer was lost when it follows that call. Deleting the job (`DELETE /jobs/{id}`)
removes the object first and the row second.

### StageLease

Each operation reads the row (`Get`), decides on what it read, writes with a
compare-and-set and reads again to answer. `copy[d]` is what it read, `held[d]`
the record a delivery was last given; the operation takes its time somewhere
between the read and the write. `Cut` is a lost answer or a crash. The clock is one clock for
all: the module does not say what skewed clocks do. One observation: the
`lease_owner` and `lease_expires_at` predicates of the UPDATE never decide
anything the version does not decide already, except that time may pass between
the read and the write.

### Jobs and JobService

`Jobs` is the lifecycle: the legal transitions, and what `complete_or_stop` decides.
`JobService` has one process: requests with a control point each
(`req`), threads of the executor (`worker`), the two semaphores, the active set
and the queue. A request step is what the handler does up to its next access to
shared state, so a request that checked a status finds it changed at its next
step.

The rows may be of either repository. In `storage.py` an operation is one `BEGIN
IMMEDIATE` transaction, and a legal transition succeeds. `persistence/sqlalchemy.py`
reads the row, compares and sets, and raises `InvalidJobTransition` when somebody has
written in between. So wherever somebody may have written since the row was read, a
transition has both outcomes: it takes effect, or it is refused and leaves the row
alone (`MayRefuse`, `Overtaken`: an execution at work, whose progress and results are
writes too, or a stop). After a refusal the handler does what the code does next,
which for the last error handler is nothing. Executions are seen through what they do to the job: `Enter*`, the stop
checks in `Work`, `complete_or_stop` in `Finish`, the nested handlers `Handle`
and `HandleLate`, and the transitions those decide on (`Writes`). `Restart`
loses everything but the rows.

### JobTable and JobStore

`JobTable` is one row with its status, progress, metadata and lists. `JobStore` is
the repository for PostgreSQL. At READ COMMITTED each statement sees what is
committed when it runs, so `Read`, `ReadMetadata`, the write and the `Answer` are
steps of their own. The UPDATE of `_cas_job` locks the row until the transaction
ends: what follows it in the transaction (the metadata row, the payload rows) is
one step with it. A call whose version is gone is `Overtaken`: the code rolls back
and raises `InvalidJobTransition`. `Crash` is a process that dies, and also a
transaction the database aborts. The columns error, output path and metrics are
written only together with a status and are left out. Progress has the range
`0..Full`. Lists stand for the payload rows of one kind: replaced as a whole.

### FullMatchRunner

`disk` is the manifest file, replaced and flushed in one step
(`atomic_json_write`); `copy` the manifest in memory. A rendered chunk is
described by the take it came from: a fresh id, the version of the proxy it was
rendered from, and the id of the take whose scoreboard state it continued. That
is all the properties need to tell a continuous video from one that was patched
together. A crash loses the memory and any subset of the chunk files, may lose
or damage the proxy and the joined output, and keeps the row and the manifest.
Media preparation is localize, encode, create (or rebuilt), tidy, because the
source copy is removed after the manifest was saved. `Raise` is an exception at
any step. `Handle` is the handler of `_run_active`; `HandleLate` that of `run`, which
also sees what the first one raises again and what media preparation, load and repair
raise. `Write` is the transition one of them decided on: the SQLAlchemy repository,
which has every `s3://` job of the shipped configuration, refuses a failure that a
stop overtook, and the other repository accepts it. `Replay` runs in the thread of
the request, without the admission the runner has, and so may overlap the end of the
run that completed the job.

### ScoreboardConsensus

One action per outcome of a sample: missed, refused because the clock runs
backwards, or observed. Video time and match clock are in one unit, since the
parser lets either stand in for the other. `shown` is a history variable:
what each sample came to. Team names decide nothing but whether the very first
reading is taken, and are left out.

### KickEngine, Tracker and FrameLoop

`KickEngine` has one action per outcome of `TemporalEventEngine.observe`: the ball
is not there (`LoseBall`), it is where it cannot have gone (`Jump`), it was not
kicked (`Follow`), or it was (`Kick`). The pitch is a line and only distances are
compared. `seen` is a history variable, the frames observed; the properties say of
a candidate what these frames have to show. Confidences are in hundredths.

`Tracker` is `IoUTracker.update`: detections by falling confidence, each claims the
nearest track of its class within reach. With boxes of one size on a line the
greatest overlap is the least distance, and the second look for a ball is a longer
reach. `FrameLoop` is `_process_chunk`: `ProcessFrame` calls the tracker, the
engine, the drain and the trails of one frame; `DetectorFails` and `OcrFails` are
the two places where a frame may raise before all of them were called;
`RestartChunk` is a crash, a stop, or one failure too many, after which the chunk is
processed again from its context; `CompleteChunk` and `Finalize` merge the
candidates. Which frames OCR samples is left open.

Frames have numbers and windows have times. As in the code, a chunk decodes the
numbers between its rounded borders (`FrameOf`, `fullmatch/runner.py:696-697`), a
frame's time is rounded from its number (`Time`, line 720), and whether a frame or
a candidate is put out is decided on times (`Write`, `KeepPutOut`). A border that lies
between two frames is rounded down to the earlier one, which the chunk before does
not decode and the chunk after decodes too early to put out. The conversions are those
of `ChunkPlan`, for any rate `Fps` of at most one frame in a unit of time.

### ChunkPlan, EventLists and Results

Pure algorithms, written as functions and folds in the order the code takes its
elements in, because their results depend on it. `Results` collects any list of
candidates (`Collect`), any plan (`Create`), any feature array (`Spot`); its
properties do not repeat the algorithms but say of the result what it must mean:
who may be left out, and which kept event stands for it.

## 3. The runs

| Run | Question | Instance | Fairness |
|---|---|---|---|
| `upload` | safety, refinement of `UploadPromise`, is storage reclaimed | 2 servers, 2 parts, 2 faults | see below |
| `upload_abort` | does a job always have its media: **no** | 1 server, 1 part, 1 fault | none |
| `stage_lease` | fencing, one completion, checkpoints | 2 deliveries of 1 or 2 workers, 2 attempts, clock 0..2, lease 1 | none |
| `stage_orphan` | can an expired stage be claimed: **not always** | 1 delivery, 1 attempt | none |
| `job_service` | admission, runner slot, driven jobs, stops | a match and a clip, 2 requests, 2 threads, 1 unit, 1 restart | none |
| `job_liveness` | do jobs end, do short stops take effect | the same with 1 request | threads run |
| `job_failed` | does a failure leave an answered stop alone: **no** | 1 clip, 1 request, 1 thread | none |
| `job_stop` | does a stop always take effect: **no** | 1 match, 1 request, 1 thread | threads run |
| `job_store` | is every call one step; are answers current | 2 callers, 2 fields, 1 kind of list, 3 versions, 2 jobs to import | none |
| `runner` | continuity, wholeness, artifacts, source, settling | 3 chunks, 2 crashes | the worker thread runs |
| `scoreboard` | support, once, acceptance, never back | 7 samples, 3 scores, 3 clocks | none |
| `frames` | are kicks, frames, tracks and trails sound over chunks and failures; what merging, fusing, suppressing and cutting mean | 5 frames of 5 scenes at 2 frames in 3 units of time, 2 chunks that overlap and whose border lies between two frames, 2 failing frames; lists of 4 from 15 candidates, 1440 plans, 96 feature arrays | none |

Why these bounds are enough to see the interesting cases. Two servers is what a
stale copy needs: one acts, the other has read. Two parts let a part list be
half right and half replaced. Two faults let an answer be lost and the retry
fail too; a third only repeats one of them. Two deliveries and two attempts give
a lost lease, the claim that follows it, and the twin with the same worker id.
One unit of admission with two requests puts the semaphore at its limit. Three
chunks are the least that have a first, a middle and a last one, so that the lost
chunk may have both a predecessor it continues and a successor that continued
it; with two crashes a repaired run is cut off again. Seven samples hold two
changes, each with a window of two units and one tolerated miss, in the proportion
of the defaults (`max_pending_gap_ms` as long as the tolerated misses, and the
window longer than either).

Two callers of the job table are enough because one of them can make many calls
while the other is between its read and its write; three versions are a read, a
write that overtakes it, and one more. Two fields show whether a merge writes back
the one it did not mean. In `frames` the frames are at 0, 2, 3, 4 and 6, and the border
of the two chunks at 5 is rounded to the frame at 4: the first chunk decodes 0, 2 and
3, the second 2, 3, 4 and 6, and only the frame at 6 is put out by it, so a kick may
end in the context, in the frame that is dropped, or behind the border; two failures let a frame fail between the engine and the drain, and the
one after it before the drain. The scenes hold a second ball, a second player, a
ball nobody is near, and nothing. Lists of four candidates are the least in which
two chains of duplicates meet or two of a source's candidates join a third; the
plans include rates whose frames fall on, before and between borders. `MCFrameLoop`
holds the loop and the lists of `Results` side by side, each while the other has not
begun: they share functions, and no state.

Counters that grow without bound in the code are bounded by `MaxFaults`,
`LastTime`, `LastMark`, `MaxRestarts`, `MaxCrashes` and `MaxVersion`, named as
constants in the modules; the ids of deleted jobs are not used again (`Create`).
Deadlock is checked for `job_store`, where a call can always begin or go on, and
not elsewhere: those systems may rest when nobody calls them, and videos and lists
end.

### Fairness

- `UploadSession`: weak fairness of `Continue(s)`, because a handler that runs is
  a thread that makes its next call (faults are bounded, so at last one goes
  through); strong fairness of `ReadSweep(s)`, because the lifespan task
  (`api.py:200-219`) calls `cleanup_expired` for ever, while other requests keep
  taking the lock it needs, so it is enabled again and again but not all the time.
- `JobService`: weak fairness of each request that is under way and of each
  thread of the executor. No caller is obliged to call.
- `FullMatchRunner`: weak fairness of the run as a whole. Nothing makes a stopped
  process come back or a client ask again, so `RunSettles` speaks of runs that
  no crash cuts off.

`RunSettles` and `ShortStops` except, by name, one case that the SQLAlchemy repository
leaves unsettled: a stop that lands between the read and the write of the last handler
(`fullmatch/runner.py:208-210`, `api.py:380-385`, and `api.py:393` after a failed
submission), see section 4.

## 4. What the runs found

1. `upload_abort`, `uploads.py:308`. `abort_upload` accepts a `finalizing`
   session. If a server stops between the insert of the job and the
   compare-and-set to `completed`, an abort closes the session and its cleanup
   deletes the object of a job that exists.
2. `stage_orphan`, `persistence/stages.py:41`. When the lease of the last allowed
   attempt runs out, the stage stays `running`: no operation of the module
   accepts it any more. `docs/INTERVIEW_PREP.md:43` says that bounded retries
   prevent orphaned work.
3. `job_stop`, `fullmatch/runner.py:200`. A stop that arrives after a full-match
   run was submitted and before the runner reads the job leaves the job
   `stopping` for good; `docs/DECISIONS.md:61` says that a worker that enters
   after a stop request goes to `stopped`. The short-clip pipeline does.
4. `job_failed`, `api.py:382`. The last error handler reads `running`, a stop is
   requested and answered, and the handler's `transition(FAILED)` is accepted, because
   `failed` is legal from `stopping`. `docs/DECISIONS.md:61` says that background
   errors do not turn a concurrent cancellation into failure. The same two steps are
   in `pipeline.py:286-294`, `fullmatch/runner.py:204-210` and, when a submission
   fails, `api.py:393`. What does hold is `StopBeatsCompletion`: such a job is never
   `completed`.

Observations that no document contradicts. About jobs and uploads:

- `start_job` gives its unit back when the transition is refused (`api.py:372`),
  but not when the job is gone: a delete between the check and the transition costs
  a unit of admission until the process restarts. `AdmissionBounds` therefore only
  says that no unit is given back twice.
- A session that is `finalizing` never expires (`uploads.py:264`): if the client
  never replays the completion and nobody aborts, the media stays.
- The SQLite repository reads before its write transaction when it saves metadata or
  lists (`storage.py`, `save_job_metadata`, `_save_models`), so what another call saved
  in between can be lost; the SQLAlchemy repository cannot lose it (`AtomicTable`).
- On PostgreSQL the answer of a call is a second transaction: it may raise
  `JobNotFound` for an update that took effect. `get` reads the row and the
  metadata in two statements, so one answer may combine two states. `delete` compares
  no version: two deletes may both succeed.
- A replayed upload uses the id of a deleted job again and versions begin again at 0,
  so a call that is still on its way can match a row it never read.
- With the SQLAlchemy repository the interleaving of finding 4 ends otherwise if the
  stop lands between the two statements of the last handler's `transition(FAILED)`:
  it raises, nobody handles that (`api.py:379-385`), and the job stays `stopping`. If the
  stop lands before the first of them, or with SQLite, the job becomes `failed`.
  `ShortStops` and `RunSettles` except the first case by name.
- A restart leaves `running` and `stopping` rows. A full-match job that is
  `running` can be run again; any other such job stays as it is.
- `delete_job` checks the status once; a job started after the check loses its
  row and media under the execution.
- `/start` and `/full-match/run` can drive the same `s3://` job at once.
- When completed chunks are invalidated, a prepared artifact of the chunks as
  they were stays in the manifest, and is committed later if its files are
  intact. The video is then one whole rendering (`VideoIsWhole`), but its chunks
  are older than the ones in the manifest.
- The replay of a completed job promotes the artifact without saving events. If
  the first run died between the last checkpoint and the saving of its events,
  and again between commit and publication, the events of that chunk stay in
  the manifest only.
- A proxy found damaged while there is no manifest yet fails the job.
- `observe_missing` refreshes the time a pending score was last heard of. Readings
  refused for their clock neither support nor count as missed, so a pending
  score may survive a long stretch of them if a missed read falls between it and
  the next supporting one. `ChangesAreSupported` therefore bounds missed reads in
  a row, and not the time between two supporting reads.
- A kick whose contact fell on timestamp 0 starts where it ends, because `events.py:333`
  takes 0 for a missing start. A contact never expires by itself.
- `deduplicate_events` compares starts within a second: of two real kicks that are a
  cooldown apart but start close together the less sure one is dropped. A surer
  event takes its twin's place, so a chain of twins shrinks to its surest member;
  `_nms_spots` does the same, while `action_spots_from_features` keeps the surest of
  each window.
- `fuse_events` looks only at the last group: an event of another type that starts in
  between keeps two candidates of one type apart. `fuse_semantic_events` lets one
  score change confirm two goals; neither it nor `finalize` is called by the product.
- Where a chunk ends between two frames the frame whose number is rounded down to the
  border is in neither chunk: at 23.976 frames per second and chunks of 120 seconds,
  frame 2877. `WindowsTile` and `PutOutOnce` allow exactly that one (`RoundedAway`).
- Candidates the engine found in a frame whose OCR raised are drained with the next
  frame that goes well; if it was the last frame of the chunk they are lost.
  `PutOutOnce` says that no kick is listed twice, and not that every kick is listed.
- A feature array not longer than the window is not covered: `CalfActionSpotter.spot`
  does not write its last margin, or begins before its start.
- `max_missed` forgives one more frame than its name says, because tracks are pruned
  after the matching.
- A misread clock that is ahead of the match is taken, and every reading is
  refused until the match has caught up.
- With the constants of the code the third condition of the halftime reset (a
  drop of ten minutes) follows from the other two.

## 5. Proofs

Proved with TLAPS for every value of the constants that meets the named
assumptions: any set of servers, any part numbers, any number of faults; any
deliveries, workers, attempt limits, leases and clocks; any number of chunks and
crashes; any scores, clocks, windows and gaps; any videos, tracks and settings of
the kick engine, the tracker and the frame loop; any callers of the job table; any jobs, requests and threads of
the service.

`UploadSession_proofs`: `UploadTypeCorrect`, `UploadJobVerified`,
`UploadMediaKept`, `UploadCleaned`, `UploadAcked`, `UploadStatusOrder` (that the
status of a session only moves on: proved, and in no run), and `UploadImplements`,
which is that the service refines `UploadPromise`. The
properties are not inductive: that a sealed session keeps its media depends on
what every handler in flight is about to do. The inductive invariant `IInv` adds
`CopyFits`, what the stale copy of a handler says at each call, and `WorldFits`,
what the row and the bucket still are at each call whatever the other servers did
since. The argument is rely and guarantee: `Steady` states what no step ever
takes away from the others (a digest stays, a closed session stays closed, a
closed multipart upload stays closed, ...), every action is shown to be `Steady`
and to establish `CopyFits` and `WorldFits` for its own handler, and `Steady`
keeps those of the others. A second pass shows that every step is one of a few
`Moves` of the row and the bucket, and both the status order and the refinement
follow from these.

`StageLease_proofs`: `StageTypeCorrect`, `StageCompletedOnce`, `StageFenced`,
`StageResumes`. The inductive invariant says that a version names one content of
the row (`Known`): any record that a delivery read or was given, and that
carries the current version, *is* the row. So a delivery that passes the version
check holds the attempt it writes for.

`FullMatchRunner_proofs`: `RunnerTypeCorrect`, `RunnerChunksContinue`,
`RunnerVideoIsWhole`, `RunnerFinalIsCompleted`, `RunnerSourceRemoved`,
`RunnerNothingRedone`. The properties say nothing of the copy of the manifest
in memory or of the control point, and only the last one speaks of the files; none
is inductive without them.
`IInv` says, for each control point, how the copy, the file on disk and the media
fit together: the completed chunks of both are a continuous prefix (`Prefix`); from
`repair` on the files of the completed chunks are the ones recorded; the consensus
stands at the last of them; a finished chunk continues them (`ChunksFit`); an
artifact waiting to be sealed, committed or promoted is one whole rendering of
one proxy that was made (`EndFits`). There is one lemma for each action and in it
one step for each conjunct; what the steps make of a manifest (`CompletingChunk`,
`RepairingChunks`, `StartingChunk`, `SameChunks`) is proved first, apart from the
run. `RunnerNothingRedone` follows because only `Create`, `Rebuilt`, `Repair`,
`NextChunk` and `Checkpoint` change what a manifest says of a chunk: the first two
never find the recorded proxy, `Repair` invalidates nothing before the first lost
chunk, and the last two work on a chunk that is not completed.

`ScoreboardConsensus_proofs`: `ConsensusTypeCorrect`, `ConsensusChangesChain`,
`ConsensusNeverBack`, `ConsensusChangesAreSupported`, `ConsensusStableIsAccepted`. The first invariant relates
what was published to what is accepted and to the clock the consensus stands at
(`PublishedFits`). The second, `Fits`, is about the history of the samples: each
emitted change, and the pending one, has reads that all showed its score, that
nothing between them spoke against (`Quiet`), and between which no more samples in
a row were missed than allowed (`ShortRuns`); since the last read of the pending
change no more in a row than `pending.misses`, which is what lets a further read
continue the window. `ConsensusStableIsAccepted` is the other direction, that
what was read often enough is accepted, and has an invariant of its own, `Heard`: a
score that is held on the screen is accepted, or lower than the accepted one, or
pending since no later than it was first held, with exactly the last samples counted
as missed. It needs `MaxPendingGap > 0`: with no gap allowed the score read one sample
later is already a new one.

`FrameLoop_proofs`, first the engine by itself: `EngineTyped`, `KicksAreSound`. It
keeps none of the frames a kick must have been seen in. The invariant says what its
variables still know of them: the last ball is the one of the last frame (`BallFits`), the counter
counts frames in a row that show it (`RunFits`), the contact has frames behind it in
which this player and no other touched the ball (`ContactFits`), and is younger
than the last kick (`LastFits`).

Then the loop: `LoopTyped`, `LoopKicksSound`, `KicksAndFramesOnce`,
`TracksContinue`, `TrailsHold`, for any video, plan of chunks and order of faults.
They assume `AllIds`, that track ids are integers without a bound: the run gives
`Ids` a finite set, because TLC has to enumerate it, and the code does not. The
invariant adds to that of the engine (`IInv`) what the variables of a chunk still
know of its frames (`FrameInv`), part by part:

- `PlanFits` says that the next frame's number is within the window of the chunk at
  work, `OutputFits` that the output is, in order, what the chunks before it write
  (`Part`), and that the file of this chunk is what has gone by of its own. That the
  parts come one after another and leave out only frames rounded away needs that the
  windows of a plan join (`WindowsFollow`), what two neighbours put out at their border
  (`ChunksTile`), and that a later frame has a later time (`TimesRise`).
- `TracksFit`: a track was last shown so many frames ago as it was missed, where it
  is, by frames that agree on its class, and as often as it has hits. Only then is
  one that is matched again the track the frames showed, and within its reach.
- `TrailsFit`: a trail ends in the last frame that did not fail, and has one point for
  each frame it spans, at the time of that frame.
- `KicksFit`: the engine told its kicks in the order of their ends, so that an end
  names a kick. `ListsFit`: a chunk keeps each drained kick of its own part once, the
  list of the match has only kicks of the parts before, and what waits to be drained
  was told by frames that all failed since.

The module extends `Results_proofs` for its lemmas about lists and plans, and takes
nothing from the specification `Results`, whose constants are not the loop's.

`Results_proofs`: `WindowsCover`, `DuplicatesAreMerged`, `FusionHolds`, and
`WindowsFollow` for one plan. The state is the input of a function, so the invariant
(`ResultsInv`) only says which inputs come about: events of their types with evidence
of their own, a plan whose overlap is below its size, features of the set given. What
matters is what the functions make of any such input. They are folds and recursive
functions, and an induction theorem that takes an operator cannot be cited; induction
over them is by the least counterexample among the naturals (`WFMin` of the library,
from which `SetInduction` is derived), with what holds after each turn of the loop
stated by an operator of its own:

- The sort of `EventLists` is a permutation in the right order: the rank of an element
  is its place (`Permutes`, `Orders`).
- `MergeInv`: what a thinning loop has kept after some turns comes from the list, is
  far apart, and for each event seen has a twin as sure (`Stands`), or one to which a
  chain of twins leads. The merging of duplicates and `_nms_spots` take the same kind
  of step (`MergeStep`). The suppression by confidence takes the surest spot first, so
  that one it leaves out has a surer one in its window (`NearSurer`).
- `GroupsInv`: the groups that are open or closed partition the events seen, each is
  linked by events no farther apart than the window, and between two of one type lies
  a gap or an event of another type. `Picks`: of a group each source is taken once,
  by its surest event. `Combines` puts the two together for a fused event.
- `Cuts` and `Tiles`: the chunks of `plan_chunks` join, and the frames put out of two
  neighbours are in order, with at most the one between them that the division
  rounds. `Covers`: the same for the windows of features.

`JobStore_proofs`: `StoreTyped`, `StoreIsAtomic`, `AnswersAreCurrent`. The invariant
is that a version stands for what was read: a call whose copy of the row carries
the current version has the current row and, while it merges, the current metadata
(`ReadsFit`). Each step then maps to the step of `JobTable` the call was asked for,
or to none. For the answers, what a call wrote can reach the row it answers with by
later steps of the lifecycle, whose longest path from any status has three.

`JobService_proofs`: `ServiceTyped`, `AdmissionIsBounded`, `RunnerIsAlone`,
`CompletionYields`, `RunningStaysDriven`. Units are counted by those who hold one: a
request that reserved it, a place in the queue, a thread (`ShortHolders`); handing a
unit on exchanges one holder for another, and giving it back removes one
(`UnitsHeld`). The lane of the runner is free, or one holder has it for the one
active job (`OneLane`), which needs that only uploaded matches come there (`Lanes`).
`CompletionYields` and `RunningStaysDriven` are inductive together with the types:
one step per request, thread and job. They hold with either repository, since a
refused transition leaves the row as it is.

What stays with TLC. Liveness (`ClosedIsReclaimed`, `OverdueIsResolved`,
`RunsEnd`, `ShortStops`, `RunSettles`): the prover has no fairness and no
ENABLED. Every safety invariant and action property of the runs is proved.
`RunnerSourceRemoved` and `UploadStatusOrder` are proved and not in a run.

## 6. What is not modelled, and why

- Detection, overlay, heat map, pitch geometry, the quality options and the networks
  of action spotting: numeric computation or drawing. What of it is remembered over
  frames is in the tracker, the trails and the kick engine, which are modelled.
- The plane: boxes have one size and move on a line, so a choice between overlap
  and distance that the plane allows (two boxes of different size) is not
  distinguished.
- Text: the parser's regular expressions, file names, HTTP ranges, the page.
- The local and in-memory object stores, which tests use; signatures of URLs.
- `storage.py`'s reads before the transaction: an observation above, not a module.
- Two lives of one job id, and what its version check then misses.
- Version 1 manifests and their migration; two runners on one workspace, which
  the one-slot semaphore excludes inside one process.
- Several sessions at once: `list_expired`'s window and the quota per owner.
- Event clips and the event bus: ffmpeg calls, and a loop over in-memory subscribers.
- Settings, the CLI, provenance, and migrations but for the import of a job.

## 7. Plan

In order of what matters most to the system:

1. *Done*: uploads with their promise; stage leases; job service; runner;
   scoreboard consensus; the job table and the repository that implements it; kick
   engine, tracker and frame loop; merging and fusing of lists; the plan of chunks.
2. `JobService` over `JobStore` instead of `Jobs`: the read and the write of a transition
   as two steps, where now a refusal is an outcome of one.
3. An abstract specification of a run, "chunks are appended to a prefix, and a
   whole prefix is published or dropped", refined by `FullMatchRunner`.
4. A second life of a job id, with the version check it defeats.
5. The quota and several sessions in the sweeper's window.
6. Proofs: what items 2 to 5 add.
