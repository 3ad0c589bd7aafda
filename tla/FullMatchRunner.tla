-------------------------- MODULE FullMatchRunner --------------------------
(***************************************************************************)
(* fullmatch/runner.py: one full-match job, processed chunk by chunk from  *)
(* a proxy of its source, with a manifest that is replaced atomically      *)
(* after every step worth keeping, and the decision to complete or stop    *)
(* taken by the jobs table.  The process may die between any two steps;    *)
(* the manifest and the row survive, media files may not: unlike the       *)
(* manifest they are never flushed.                                        *)
(*                                                                         *)
(* A rendered chunk is the take it came from: its own id, the proxy it was *)
(* rendered from, and the take whose scoreboard state it continued.        *)
(***************************************************************************)
EXTENDS Jobs, Integers, Sequences, FiniteSets, FiniteSetsExt

CONSTANTS
    Last,                   \* number of chunks the proxy is cut into
    MaxCrashes              \* bound on crashes

ASSUME RunnerAssumption == Last \in Nat \ {0} /\ MaxCrashes \in Nat

VARIABLES
    row,                    \* status of the job
    progress,               \* its progress
    events,                 \* ids of the takes whose events are saved with it
    disk,                   \* the manifest file
    source,                 \* a localized copy of the source exists
    proxy,                  \* version of proxy.mp4; 0 none, -1 damaged
    clip,                   \* the file of each chunk
    output,                 \* annotated.mp4 and its heat map: the takes joined
    pc,
    copy,                   \* the manifest in memory
    scores,                 \* the take the scoreboard consensus stands at
    made,                   \* counts proxies and takes
    crashes

stored == <<row, progress, events, disk, source, proxy, clip, output>>
vars == <<stored, pc, copy, scores, made, crashes>>

Chunks == 1..Last
Missing == 0
Damaged == -1
NoTake == [id |-> 0, proxy |-> 0, after |-> 0]
NoArtifact == <<>>

Take == [id: Nat, proxy: Nat, after: Nat]
Artifact == {NoArtifact} \union [Chunks -> Take]
Manifest ==
    [proxy: Nat,
     status: [Chunks -> {"pending", "running", "completed"}],
     take: [Chunks -> Take],
     prepared: Artifact,
     final: Artifact]

(* FullMatchManifest.create.  No manifest is one without a proxy. *)
NewManifest(version) ==
    [proxy |-> version,
     status |-> [k \in Chunks |-> "pending"],
     take |-> [k \in Chunks |-> NoTake],
     prepared |-> NoArtifact,
     final |-> NoArtifact]

NoManifest == NewManifest(Missing)

Preparing == {"localize", "encode", "create", "rebuilt", "tidy"}
Outside == Preparing \union {"load", "repair"}      \* of the inner handler
Handling == {"handle", "late", "stop", "fail", "fail_late"}
Steps ==
    Preparing \union Handling \union
    {"idle", "enter", "load", "repair", "loop", "process", "checkpoint",
     "persist", "report", "final", "seal", "commit", "promote", "publish",
     "discard", "discarded"}

TypeOK ==
    /\ row \in JobStatus
    /\ progress \in 0..100
    /\ events \subseteq Nat
    /\ disk \in Manifest
    /\ source \in BOOLEAN
    /\ proxy \in Nat \union {Damaged}
    /\ clip \in [Chunks -> Take]
    /\ output \in Artifact
    /\ pc \in Steps
    /\ copy \in Manifest
    /\ scores \in Nat
    /\ made \in Nat
    /\ crashes \in 0..MaxCrashes

Init ==
    /\ row = "created"
    /\ progress = 0
    /\ events = {}
    /\ disk = NoManifest
    /\ source = FALSE
    /\ proxy = Missing
    /\ clip = [k \in Chunks |-> NoTake]
    /\ output = NoArtifact
    /\ pc = "idle"
    /\ copy = NoManifest
    /\ scores = 0
    /\ made = 0
    /\ crashes = 0

-----------------------------------------------------------------------------
(* Manifests. *)

Exists(manifest) == manifest.proxy # Missing
Completed(manifest) == {k \in Chunks : manifest.status[k] = "completed"}
Open(manifest) == Chunks \ Completed(manifest)
EventsOf(manifest) == {manifest.take[k].id : k \in Completed(manifest)}

(* Mutant: not divided by the number of chunks. *)
PercentOfOne(manifest) == Cardinality(Completed(manifest)) * 95

(* The percentage a manifest stands for. *)
Percent(manifest) ==
    IF manifest.final # NoArtifact THEN 100
    ELSE Min({99, (Cardinality(Completed(manifest)) * 95) \div Last})

(* Mutant: only the lost chunk is redone. *)
InvalidateOne(manifest, start) ==
    [manifest EXCEPT !.status[start] = "pending", !.take[start] = NoTake]

(* _invalidate_chunks_from: what was completed after a lost chunk continued
   the scoreboard of that chunk. *)
InvalidateFrom(manifest, start) ==
    [manifest EXCEPT
        !.status = [k \in Chunks |-> IF k < start THEN @[k] ELSE "pending"],
        !.take = [k \in Chunks |-> IF k < start THEN @[k] ELSE NoTake]]

(* store.save: the file is replaced and flushed in one step. *)
Save(manifest) == copy' = manifest /\ disk' = manifest

-----------------------------------------------------------------------------
(* The run. *)

(* The request has moved a created job to running before the runner reads it. *)
Request ==
    /\ pc = "idle"
    /\ row \in {"created", "running"}
    /\ row' = "running"
    /\ pc' = "enter"
    /\ UNCHANGED <<progress, events, disk, source, proxy, clip, output, copy,
                   scores, made, crashes>>

(* Any status but running is an error outside every handler. *)
Enter ==
    /\ pc = "enter"
    /\ pc' = IF row = "running" THEN "load" ELSE "idle"
    /\ UNCHANGED <<stored, copy, scores, made, crashes>>

(* A manifest whose proxy is intact is taken up and a leftover source removed;
   otherwise media is prepared, for the first time or again. *)
Load ==
    /\ pc = "load"
    /\ copy' = disk
    /\ \/ /\ Exists(disk)
          /\ proxy = disk.proxy
          /\ source' = FALSE
          /\ pc' = "repair"
       \/ /\ ~Exists(disk) \/ proxy # disk.proxy
          /\ pc' = "localize"
          /\ UNCHANGED source
    /\ UNCHANGED <<row, progress, events, disk, proxy, clip, output, scores,
                   made, crashes>>

(* _prepare_media: the source, unless a copy is there. *)
Localize ==
    /\ pc = "localize"
    /\ source' = TRUE
    /\ pc' = "encode"
    /\ UNCHANGED <<row, progress, events, disk, proxy, clip, output, copy,
                   scores, made, crashes>>

(* A proxy found on disk is kept when there was no manifest, and must open. *)
Encode ==
    /\ pc = "encode"
    /\ row # "stopping"
    /\ \/ /\ Exists(copy) \/ proxy = Missing
          /\ proxy' = made + 1
          /\ made' = made + 1
       \/ /\ ~Exists(copy)
          /\ proxy \notin {Missing, Damaged}
          /\ UNCHANGED <<proxy, made>>
    /\ pc' = IF Exists(copy) THEN "rebuilt" ELSE "create"
    /\ UNCHANGED <<row, progress, events, disk, source, clip, output, copy,
                   scores, crashes>>

Create ==
    /\ pc = "create"
    /\ row # "stopping"
    /\ Save(NewManifest(proxy))
    /\ pc' = "tidy"
    /\ UNCHANGED <<row, progress, events, source, proxy, clip, output, scores,
                   made, crashes>>

(* Nothing survives a new proxy. *)
Rebuilt ==
    /\ pc = "rebuilt"
    /\ Save(NewManifest(proxy))
    /\ pc' = "tidy"
    /\ UNCHANGED <<row, progress, events, source, proxy, clip, output, scores,
                   made, crashes>>

(* The copy of the source goes once the manifest is safe. *)
Tidy ==
    /\ pc = "tidy"
    /\ source' = FALSE
    /\ pc' = "repair"
    /\ UNCHANGED <<row, progress, events, disk, proxy, clip, output, copy,
                   scores, made, crashes>>

(* Completed chunks whose file is not the one they were completed with. *)
Lost(manifest) == {k \in Completed(manifest) : clip[k] # manifest.take[k]}

(* Mutant: everything is redone. *)
RepairedAll(manifest) ==
    IF Lost(manifest) = {} THEN manifest ELSE InvalidateFrom(manifest, 1)

Repaired(manifest) ==
    IF Lost(manifest) = {} THEN manifest
    ELSE InvalidateFrom(manifest, Min(Lost(manifest)))

(* durable_states[-1]. *)
LastState(manifest) ==
    IF Completed(manifest) = {} THEN 0 ELSE manifest.take[Max(Completed(manifest))].id

Repair ==
    /\ pc = "repair"
    /\ Save(Repaired(copy))
    /\ scores' = LastState(Repaired(copy))
    /\ pc' = "loop"
    /\ UNCHANGED <<row, progress, events, source, proxy, clip, output, made,
                   crashes>>

-----------------------------------------------------------------------------
(* The chunks. *)

Current == Min(Open(copy))

NextChunk ==
    /\ pc = "loop"
    /\ \/ /\ Open(copy) = {}
          /\ pc' = "final"
          /\ UNCHANGED <<copy, disk>>
       \/ /\ Open(copy) # {}
          /\ row = "stopping"
          /\ pc' = "stop"
          /\ UNCHANGED <<copy, disk>>
       \/ /\ Open(copy) # {}
          /\ row # "stopping"
          /\ Save([copy EXCEPT !.status[Current] = "running"])
          /\ pc' = "process"
    /\ UNCHANGED <<row, progress, events, source, proxy, clip, output, scores,
                   made, crashes>>

(* _process_chunk. *)
Process ==
    /\ pc = "process"
    /\ clip' = [clip EXCEPT ![Current] =
                    [id |-> made + 1, proxy |-> proxy, after |-> scores]]
    /\ scores' = made + 1
    /\ made' = made + 1
    /\ pc' = "checkpoint"
    /\ UNCHANGED <<row, progress, events, disk, source, proxy, output, copy,
                   crashes>>

Checkpoint ==
    /\ pc = "checkpoint"
    /\ Save([copy EXCEPT !.status[Current] = "completed",
                         !.take[Current] = clip[Current]])
    /\ pc' = "persist"
    /\ UNCHANGED <<row, progress, events, source, proxy, clip, output, scores,
                   made, crashes>>

(* _persist_events replaces what was saved. *)
Persist ==
    /\ pc = "persist"
    /\ events' = EventsOf(copy)
    /\ pc' = "report"
    /\ UNCHANGED <<row, progress, disk, source, proxy, clip, output, copy,
                   scores, made, crashes>>

Report ==
    /\ pc = "report"
    /\ progress' = Max({progress, Percent(copy)})
    /\ pc' = "loop"
    /\ UNCHANGED <<row, events, disk, source, proxy, clip, output, copy,
                   scores, made, crashes>>

-----------------------------------------------------------------------------
(* The end. *)

(* An artifact prepared earlier has to be intact; otherwise one is made. *)
Finalize ==
    /\ pc = "final"
    /\ \/ /\ copy.prepared # NoArtifact
          /\ output = copy.prepared
          /\ pc' = "commit"
          /\ UNCHANGED output
       \/ /\ copy.prepared = NoArtifact
          /\ output' = clip
          /\ pc' = "seal"
    /\ UNCHANGED <<row, progress, events, disk, source, proxy, clip, copy,
                   scores, made, crashes>>

(* Mutant: the artifact is not recorded before the decision. *)
SealLater ==
    /\ pc = "seal"
    /\ copy' = [copy EXCEPT !.prepared = output]
    /\ pc' = "commit"
    /\ UNCHANGED <<stored, scores, made, crashes>>

Seal ==
    /\ pc = "seal"
    /\ Save([copy EXCEPT !.prepared = output])
    /\ pc' = "commit"
    /\ UNCHANGED <<row, progress, events, source, proxy, clip, output, scores,
                   made, crashes>>

(* Mutant: the answer of complete_or_stop is not looked at. *)
CommitAnyway ==
    /\ pc = "commit"
    /\ CanFinalize(row)
    /\ row' = CompleteOrStop(row)
    /\ pc' = "promote"
    /\ UNCHANGED <<progress, events, disk, source, proxy, clip, output, copy,
                   scores, made, crashes>>

(* complete_or_stop decides. *)
Commit ==
    /\ pc = "commit"
    /\ CanFinalize(row)
    /\ row' = CompleteOrStop(row)
    /\ progress' = IF row' = "completed" THEN 100 ELSE progress
    /\ pc' = IF row' = "completed" THEN "promote" ELSE "discard"
    /\ UNCHANGED <<events, disk, source, proxy, clip, output, copy, scores,
                   made, crashes>>

Promoted(manifest) ==
    [manifest EXCEPT !.final = manifest.prepared, !.prepared = NoArtifact]

Promote ==
    /\ pc = "promote"
    /\ Save(Promoted(copy))
    /\ pc' = "publish"
    /\ UNCHANGED <<row, progress, events, source, proxy, clip, output, scores,
                   made, crashes>>

Publish ==
    /\ pc = "publish"
    /\ events' = EventsOf(copy)
    /\ pc' = "idle"
    /\ UNCHANGED <<row, progress, disk, source, proxy, clip, output, copy,
                   scores, made, crashes>>

(* The job was stopped: its artifact goes, and then the record of it. *)
Discard ==
    /\ pc = "discard"
    /\ output' = NoArtifact
    /\ pc' = "discarded"
    /\ UNCHANGED <<row, progress, events, disk, source, proxy, clip, copy,
                   scores, made, crashes>>

Discarded ==
    /\ pc = "discarded"
    /\ Save([copy EXCEPT !.prepared = NoArtifact])
    /\ pc' = "idle"
    /\ UNCHANGED <<row, progress, events, source, proxy, clip, output, scores,
                   made, crashes>>

(* A completed job that is run again: _validate_completed_artifacts, in the thread
   of the request, which may overlap the end of the run that completed the job. *)
Replay ==
    /\ row = "completed"
    /\ disk.final = NoArtifact
    /\ disk.prepared # NoArtifact
    /\ output = disk.prepared
    /\ disk' = Promoted(disk)
    /\ UNCHANGED <<row, progress, events, source, proxy, clip, output, pc, copy,
                   scores, made, crashes>>

-----------------------------------------------------------------------------
(* Failures. *)

(* Any step may raise, a stop seen by one of them included.  While media is
   being prepared the source copy is removed on the way out. *)
Raise ==
    /\ pc \notin Handling \union {"idle", "enter"}
    /\ pc' = IF pc \in Outside THEN "late" ELSE "handle"
    /\ source' = (source /\ pc \notin Preparing)
    /\ UNCHANGED <<row, progress, events, disk, proxy, clip, output, copy,
                   scores, made, crashes>>

(* The handler in _run_active, around the chunks and the end. *)
Handle ==
    /\ pc = "handle"
    /\ pc' = CASE row = "stopping" -> "stop"
               [] row = "running" -> "fail"
               [] OTHER -> "late"
    /\ UNCHANGED <<stored, copy, scores, made, crashes>>

(* Mutant: only a stop is written. *)
HandleLateStop ==
    /\ pc = "late"
    /\ pc' = IF row = "stopping" THEN "stop" ELSE "idle"
    /\ UNCHANGED <<stored, copy, scores, made, crashes>>

(* The handler in run, which sees what the first one raises again. *)
HandleLate ==
    /\ pc = "late"
    /\ pc' = CASE row = "stopping" -> "stop"
               [] row = "running" -> "fail_late"
               [] OTHER -> "idle"
    /\ UNCHANGED <<stored, copy, scores, made, crashes>>

(* What a handler read may be out of date.  persistence/sqlalchemy.py refuses the
   failure of a job that it reads running and that is stopping when the row is
   updated; a stop that comes before that read is failed. *)
Write ==
    /\ pc \in {"stop", "fail", "fail_late"}
    /\ \/ row' = Transition(row, IF pc = "stop" THEN "stopped" ELSE "failed")
       \/ pc # "stop" /\ row = "stopping" /\ UNCHANGED row
    /\ pc' = IF pc = "fail" THEN "late" ELSE "idle"
    /\ UNCHANGED <<progress, events, disk, source, proxy, clip, output, copy,
                   scores, made, crashes>>

(* stop_job.  One that has read the job as created stops it at once, even if it
   has been started since. *)
Stop ==
    /\ \/ row \in {"created", "running"} /\ row' = "stopped"
       \/ row = "running" /\ row' = "stopping"
    /\ UNCHANGED <<progress, events, disk, source, proxy, clip, output, pc,
                   copy, scores, made, crashes>>

(* The process dies, and files that were not flushed may be gone or damaged. *)
Crash ==
    /\ crashes < MaxCrashes
    /\ crashes' = crashes + 1
    /\ pc' = "idle"
    /\ copy' = NoManifest
    /\ scores' = 0
    /\ \E gone \in SUBSET Chunks :
           clip' = [k \in Chunks |-> IF k \in gone THEN NoTake ELSE clip[k]]
    /\ \/ UNCHANGED proxy
       \/ proxy # Missing /\ proxy' \in {Missing, Damaged}
    /\ output' \in {output, NoArtifact}
    /\ UNCHANGED <<row, progress, events, disk, source, made>>

Runner ==
    \/ Enter \/ Load \/ Localize \/ Encode \/ Create \/ Rebuilt \/ Tidy
    \/ Repair \/ NextChunk \/ Process \/ Checkpoint \/ Persist \/ Report
    \/ Finalize \/ Seal \/ Commit \/ Promote \/ Publish
    \/ Discard \/ Discarded
    \/ Raise \/ Handle \/ HandleLate \/ Write

Next == Runner \/ Request \/ Replay \/ Stop \/ Crash

Spec == Init /\ [][Next]_vars

(* A worker thread that has taken the run goes on with it. *)
FairSpec == Spec /\ WF_vars(Runner)

-----------------------------------------------------------------------------
(* Properties. *)

(* Each take was rendered from the same proxy as the one before it and goes on
   from its scoreboard; the first starts from nothing. *)
Continuous(takes, n, version) ==
    \A k \in 1..n :
        /\ takes[k].proxy = version
        /\ takes[k].after = IF k = 1 THEN 0 ELSE takes[k - 1].id

(* Whatever was lost and redone, the completed chunks of a manifest are the
   first ones, on its proxy, and each continues the scoreboard of the one
   before (runner.py, _invalidate_chunks_from and durable_states). *)
ChunksContinue ==
    LET n == Cardinality(Completed(disk)) IN
    /\ Completed(disk) = 1..n
    /\ Continuous(disk.take, n, disk.proxy)

(* The video of a completed job is one complete, continuous rendering. *)
VideoIsWhole ==
    LET artifact == IF disk.final # NoArtifact THEN disk.final ELSE disk.prepared IN
    row = "completed" => /\ artifact # NoArtifact
                         /\ \E version \in 1..made : Continuous(artifact, Last, version)

(* Only a completed job has a final artifact in its manifest, however stops,
   failures and crashes fall between the decision and the promotion. *)
FinalIsCompleted == disk.final # NoArtifact => row = "completed"

(* No copy of the source outlives the run that completed the job. *)
SourceRemoved == row = "completed" => ~source

(* A resumed run never redoes a chunk that is intact, with all that it rests
   on (docs/ARCHITECTURE.md:55). *)
Intact(k) ==
    /\ proxy = disk.proxy
    /\ \A i \in 1..k : disk.status[i] = "completed" /\ clip[i] = disk.take[i]

NothingRedone ==
    [][\A k \in Chunks : Intact(k) => disk'.take[k] = disk.take[k]
                                      /\ disk'.status[k] = "completed"]_vars

(* A run that no crash cuts short settles the job: it is completed, failed or
   stopped when the run is over.  The one exception is a stop that comes while the
   last handler is writing the failure (runner.py:208-210): the job may stay
   stopping. *)
RunSettles ==
    \A n \in 0..MaxCrashes :
        pc = "load" /\ crashes = n
            ~> \/ crashes > n
               \/ pc = "idle" /\ row \in Terminal
               \/ pc = "fail_late" /\ row = "stopping"
=============================================================================
