--------------------------- MODULE UploadSession ---------------------------
(***************************************************************************)
(* One resumable multipart upload, from creation to the job it becomes:    *)
(* uploads.py's MultipartUploadService on several API servers that share   *)
(* the SQL row of the session (persistence/uploads.py), the jobs table and *)
(* the bucket (ObjectStore).                                               *)
(*                                                                         *)
(* Inside one server the per-upload RLock lets one handler touch the       *)
(* session at a time, so a server is one control point pc[s].  Between     *)
(* servers only the row's compare-and-set orders anything: every database  *)
(* or bucket call below is one step, and any other server may run between  *)
(* two of them.                                                            *)
(***************************************************************************)
EXTENDS ObjectStore, Integers

CONSTANTS
    Servers,                \* the API servers
    MaxFaults               \* bound on crashes and failing calls

ASSUME FaultsAssumption == MaxFaults \in Nat

VARIABLES
    row,                    \* the upload_sessions row
    job,                    \* whether the jobs table has planned_job_id
    expired,                \* whether the clock has reached expires_at
    pc,                     \* the call each server makes next for this upload
    seen,                   \* the copy of the row each handler works on
    acked,                  \* some complete call has answered with the job
    deleting,               \* a DELETE /jobs is between its bucket and its SQL step
    deleted,                \* a DELETE /jobs of this upload's job has begun, ever
    faults

clientVars == <<acked, deleting, deleted>>
vars == <<storeVars, row, job, expired, pc, seen, clientVars, faults>>

Expirable == {"active", "completing", "validated"}
CleanupPending == {"aborted", "failed", "expired"}
Statuses == Expirable \union CleanupPending \union {"absent", "finalizing", "completed"}
Labels ==
    {"idle", "insert", "unmake", "list", "claim", "claimed", "transfer", "stat",
     "verify", "reject", "validate", "validated", "outrun", "discard", "finalize",
     "finalized", "createjob", "finish", "finished", "expire", "abort", "reread",
     "clean_parts", "clean_object", "clean_mark"}

Rows ==
    [status: Statuses, version: Nat, intent: PartLists \union {<<>>},
     digest: Bytes \union {"none"}, job: BOOLEAN, cleaned: BOOLEAN]

NoRow ==
    [status |-> "absent", version |-> 0, intent |-> <<>>,
     digest |-> "none", job |-> FALSE, cleaned |-> FALSE]

TypeOK ==
    /\ StoreTypeOK
    /\ row \in Rows
    /\ job \in BOOLEAN
    /\ expired \in BOOLEAN
    /\ pc \in [Servers -> Labels]
    /\ seen \in [Servers -> Rows]
    /\ acked \in BOOLEAN
    /\ deleting \in BOOLEAN
    /\ deleted \in BOOLEAN
    /\ faults \in 0..MaxFaults

Init ==
    /\ StoreInit
    /\ row = NoRow
    /\ job = FALSE
    /\ expired = FALSE
    /\ pc = [s \in Servers |-> "idle"]
    /\ seen = [s \in Servers |-> NoRow]
    /\ acked = FALSE
    /\ deleting = FALSE
    /\ deleted = FALSE
    /\ faults = 0

-----------------------------------------------------------------------------
(* Moves of one handler. *)

At(s, label) == pc[s] = label

(* The handler keeps the row u and goes on, or answers and forgets it; "reply" *)
(* is an answer that carries the job.                                          *)
Resume(s, u, label) ==
    /\ pc' = [pc EXCEPT ![s] = IF label = "reply" THEN "idle" ELSE label]
    /\ seen' = [seen EXCEPT ![s] = IF label \in {"idle", "reply"} THEN NoRow ELSE u]
    /\ acked' = (acked \/ label = "reply")
    /\ UNCHANGED <<deleting, deleted>>

Answer(s) == Resume(s, NoRow, "idle")

(* A call that changes nothing but the handler's own control. *)
Only(s, label) ==
    /\ Resume(s, seen[s], label)
    /\ UNCHANGED <<storeVars, row, job, expired, faults>>

(* UPDATE ... WHERE status = expected AND version = expected. *)
Unchanged(s) == row.status = seen[s].status /\ row.version = seen[s].version

CompareAndSet(s, new, won, lost) ==
    /\ row' = IF Unchanged(s) THEN [new EXCEPT !.version = row.version + 1] ELSE row
    /\ Resume(s, seen[s], IF Unchanged(s) THEN won ELSE lost)
    /\ UNCHANGED <<storeVars, job, expired, faults>>

(* A call to the bucket made by the handler of s, which then goes to label. *)
Bucket(s, call, label) ==
    /\ call
    /\ Resume(s, seen[s], label)
    /\ UNCHANGED <<row, job, expired, faults>>

-----------------------------------------------------------------------------
(* create_upload: multipart first, row second, abort_multipart if it fails. *)

CreateUpload(s) ==
    /\ At(s, "idle")
    /\ Bucket(s, CreateMultipart, "insert")

InsertRow(s) ==
    /\ At(s, "insert")
    /\ row' = [NoRow EXCEPT !.status = "active"]
    /\ Answer(s)
    /\ UNCHANGED <<storeVars, job, expired, faults>>

InsertFails(s) ==
    /\ At(s, "insert")
    /\ faults < MaxFaults
    /\ faults' = faults + 1
    /\ Resume(s, seen[s], "unmake")
    /\ UNCHANGED <<storeVars, row, job, expired>>

Unmake(s) ==
    /\ At(s, "unmake")
    /\ Bucket(s, AbortMultipart, "idle")

-----------------------------------------------------------------------------
(* complete_upload.  After<Step>(u) is the call that a handler holding the *)
(* row u makes next, once it is past that step.                            *)

Overdue(u) == u.status \in Expirable /\ expired

AfterFinalize(u) ==
    CASE u.status = "finalizing" -> "createjob"
      [] u.status = "completed" /\ u.job -> "reply"
      [] OTHER -> "idle"
(* Mutant: a validated session gets its job without being sealed first. *)
AfterValidateUnsealed(u) ==
    IF u.status = "validated" THEN "createjob" ELSE AfterFinalize(u)

AfterValidate(u) == IF u.status = "validated" THEN "finalize" ELSE AfterFinalize(u)
AfterClaim(u) == IF u.status = "completing" THEN "transfer" ELSE AfterValidate(u)

ReadComplete(s) ==
    /\ At(s, "idle")
    /\ row.status # "absent"
    /\ Resume(s, row, CASE Overdue(row) -> "expire"
                        [] row.status = "active" -> "list"
                        [] OTHER -> AfterClaim(row))
    /\ UNCHANGED <<storeVars, row, job, expired, faults>>

(* Mutant: the part list is not checked against the upload's part count. *)
ListPartsUnchecked(s) ==
    /\ At(s, "list")
    /\ \/ /\ multipart = "open"
          /\ Resume(s, [seen[s] EXCEPT !.intent = parts], "claim")
       \/ Answer(s)
    /\ UNCHANGED <<storeVars, row, job, expired, faults>>

(* _validate_parts: every part is stored as the caller listed it. *)
ListParts(s) ==
    /\ At(s, "list")
    /\ \/ /\ multipart = "open"
          /\ parts \in PartLists
          /\ Resume(s, [seen[s] EXCEPT !.intent = parts], "claim")
       \/ Answer(s)
    /\ UNCHANGED <<storeVars, row, job, expired, faults>>

Claim(s) ==
    /\ At(s, "claim")
    /\ CompareAndSet(s, [row EXCEPT !.status = "completing", !.intent = seen[s].intent],
                     "claimed", "claimed")

(* Won or lost, the row is read again before the handler goes on. *)
ReadClaimed(s) ==
    /\ At(s, "claimed")
    /\ Resume(s, row, AfterClaim(row))
    /\ UNCHANGED <<storeVars, row, job, expired, faults>>

(* complete_multipart: applied, applied with the answer lost, lost or late, *)
(* NoSuchUpload, or refused because a part was replaced since (an error the *)
(* service does not catch).                                                 *)
Transfer(s) ==
    /\ At(s, "transfer")
    /\ \/ Bucket(s, Publish(seen[s].intent) /\ UNCHANGED inflight, "verify")
       \/ /\ faults < MaxFaults
          /\ faults' = faults + 1
          /\ \/ Publish(seen[s].intent) /\ UNCHANGED inflight
             \/ LoseCompletion
          /\ Resume(s, seen[s], "stat")
          /\ UNCHANGED <<row, job, expired>>
       \/ multipart # "open" /\ Only(s, "stat")
       \/ multipart = "open" /\ parts # seen[s].intent /\ Only(s, "idle")

(* MultipartUploadNotFound and MultipartCompletionUncertain: probe the object. *)
Stat(s) ==
    /\ At(s, "stat")
    /\ Only(s, IF object = "missing" THEN "idle" ELSE "verify")

(* Mutant: the streamed checksum is not compared. *)
VerifySizeOnly(s) ==
    /\ At(s, "verify")
    /\ Only(s, IF object = "missing" THEN "idle" ELSE "validate")

(* Stream the object; reading a deleted object raises. *)
Verify(s) ==
    /\ At(s, "verify")
    /\ Only(s, CASE object = "right" -> "validate"
                 [] object = "wrong" -> "reject"
                 [] OTHER -> "idle")

Reject(s) ==
    /\ At(s, "reject")
    /\ CompareAndSet(s, [row EXCEPT !.status = "failed"], "reread", "idle")

Validate(s) ==
    /\ At(s, "validate")
    /\ CompareAndSet(s, [row EXCEPT !.status = "validated", !.digest = "right"],
                     "validated", "outrun")

ReadValidated(s) ==
    /\ At(s, "validated")
    /\ Resume(s, row, AfterValidate(row))
    /\ UNCHANGED <<storeVars, row, job, expired, faults>>

(* Mutant: a validation that was outrun always takes the object back. *)
ReadOutrunRash(s) ==
    /\ At(s, "outrun")
    /\ Resume(s, row, "discard")
    /\ UNCHANGED <<storeVars, row, job, expired, faults>>

(* The validation lost its compare-and-set: adopt the winner's state, or take *)
(* the object back when the session was closed meanwhile.                     *)
ReadOutrun(s) ==
    /\ At(s, "outrun")
    /\ Resume(s, row, IF row.status \in {"expired", "aborted"}
                      THEN "discard" ELSE AfterValidate(row))
    /\ UNCHANGED <<storeVars, row, job, expired, faults>>

Discard(s) ==
    /\ At(s, "discard")
    /\ Bucket(s, DeleteObject, "idle")

Finalize(s) ==
    /\ At(s, "finalize")
    /\ CompareAndSet(s, [row EXCEPT !.status = "finalizing"], "finalized", "finalized")

ReadFinalized(s) ==
    /\ At(s, "finalized")
    /\ Resume(s, row, AfterFinalize(row))
    /\ UNCHANGED <<storeVars, row, job, expired, faults>>

(* create_with_id: inserts the planned job, or returns the one that is there. *)
CreateJob(s) ==
    /\ At(s, "createjob")
    /\ job' = TRUE
    /\ Resume(s, seen[s], "finish")
    /\ UNCHANGED <<storeVars, row, expired, faults>>

(* job_id references jobs.id: without that row the update is an error. *)
Finish(s) ==
    /\ At(s, "finish")
    /\ IF Unchanged(s) /\ ~job
       THEN Only(s, "idle")
       ELSE CompareAndSet(s, [row EXCEPT !.status = "completed", !.job = TRUE],
                          "reply", "finished")

ReadFinished(s) ==
    /\ At(s, "finished")
    /\ Only(s, IF row.status = "completed" /\ row.job THEN "reply" ELSE "idle")

-----------------------------------------------------------------------------
(* Expiry, abort and the sweeper, which all end in _try_cleanup. *)

(* get_upload and presign_part change the session only by expiring it. *)
ReadTouch(s) ==
    /\ At(s, "idle")
    /\ Overdue(row)
    /\ Resume(s, row, "expire")
    /\ UNCHANGED <<storeVars, row, job, expired, faults>>

(* Mutant: a completed session can be aborted. *)
ReadAbortAny(s) ==
    /\ At(s, "idle")
    /\ row.status \in Statuses \ CleanupPending
    /\ row.status # "absent"
    /\ Resume(s, row, IF Overdue(row) THEN "expire" ELSE "abort")
    /\ UNCHANGED <<storeVars, row, job, expired, faults>>

ReadAbort(s) ==
    /\ At(s, "idle")
    /\ \/ Overdue(row) /\ Resume(s, row, "expire")
       \/ /\ row.status \in Expirable \union {"finalizing"}
          /\ ~Overdue(row)
          /\ Resume(s, row, "abort")
       \/ row.status = "aborted" /\ ~row.cleaned /\ Resume(s, row, "clean_parts")
    /\ UNCHANGED <<storeVars, row, job, expired, faults>>

(* Mutants: the sweeper expires sessions but never comes back to a cleanup that *)
(* failed; the sweeper expires active sessions only.                           *)
ReadSweepOnce(s) ==
    /\ At(s, "idle")
    /\ Overdue(row)
    /\ Resume(s, row, "expire")
    /\ UNCHANGED <<storeVars, row, job, expired, faults>>

ReadSweepActive(s) ==
    /\ At(s, "idle")
    /\ \/ Overdue(row) /\ row.status = "active" /\ Resume(s, row, "expire")
       \/ /\ row.status \in CleanupPending
          /\ ~row.cleaned
          /\ Resume(s, row, "clean_parts")
    /\ UNCHANGED <<storeVars, row, job, expired, faults>>

(* cleanup_expired, one candidate under its lock. *)
ReadSweep(s) ==
    /\ At(s, "idle")
    /\ \/ Overdue(row) /\ Resume(s, row, "expire")
       \/ /\ row.status \in CleanupPending
          /\ ~row.cleaned
          /\ Resume(s, row, "clean_parts")
    /\ UNCHANGED <<storeVars, row, job, expired, faults>>

Expire(s) ==
    /\ At(s, "expire")
    /\ CompareAndSet(s, [row EXCEPT !.status = "expired"], "reread", "idle")

Abort(s) ==
    /\ At(s, "abort")
    /\ CompareAndSet(s, [row EXCEPT !.status = "aborted"], "reread", "idle")

(* A successful compare-and-set answers with the row as it is read afterwards. *)
Reread(s) ==
    /\ At(s, "reread")
    /\ Resume(s, row, "clean_parts")
    /\ UNCHANGED <<storeVars, row, job, expired, faults>>

(* Mutant: cleanup deletes the object and leaves the multipart upload open. *)
CleanPartsKept(s) ==
    /\ At(s, "clean_parts")
    /\ Only(s, "clean_object")

CleanParts(s) ==
    /\ At(s, "clean_parts")
    /\ Bucket(s, AbortMultipart, "clean_object")

CleanObject(s) ==
    /\ At(s, "clean_object")
    /\ Bucket(s, DeleteObject, "clean_mark")

CleanMark(s) ==
    /\ At(s, "clean_mark")
    /\ CompareAndSet(s, [row EXCEPT !.cleaned = TRUE], "idle", "idle")

-----------------------------------------------------------------------------
(* A server crashes, or a call raises: the handler ends where it stands.  A   *)
(* call whose effect took hold and whose answer was lost is that call's step  *)
(* followed by this one.                                                      *)
Fail(s) ==
    /\ ~At(s, "idle")
    /\ faults < MaxFaults
    /\ faults' = faults + 1
    /\ Answer(s)
    /\ UNCHANGED <<storeVars, row, job, expired>>

(* Presigned URLs are issued for active sessions and die at expires_at. *)
ClientPut ==
    /\ row.status # "absent"
    /\ ~expired
    /\ \E p \in Parts, bytes \in Bytes : PutPart(p, bytes)
    /\ UNCHANGED <<row, job, expired, pc, seen, clientVars, faults>>

LateCompletion ==
    /\ LandCompletion(row.intent)
    /\ UNCHANGED <<row, job, expired, pc, seen, clientVars, faults>>

Tick ==
    /\ row.status # "absent"
    /\ ~expired
    /\ expired' = TRUE
    /\ UNCHANGED <<storeVars, row, job, pc, seen, clientVars, faults>>

(* DELETE /jobs/{id} of a job that is not running: the source object first (an *)
(* error there is logged and swallowed), the row second; the foreign key       *)
(* clears upload_sessions.job_id.                                              *)
DeleteSource ==
    /\ job
    /\ ~deleting
    /\ \/ DeleteObject /\ UNCHANGED faults
       \/ /\ faults < MaxFaults
          /\ faults' = faults + 1
          /\ UNCHANGED storeVars
    /\ deleting' = TRUE
    /\ deleted' = TRUE
    /\ UNCHANGED <<row, job, expired, pc, seen, acked>>

DeleteRow ==
    /\ deleting
    /\ job' = FALSE
    /\ row' = [row EXCEPT !.job = FALSE]
    /\ deleting' = FALSE
    /\ UNCHANGED <<storeVars, expired, pc, seen, acked, deleted, faults>>

DeleteCrash ==
    /\ deleting
    /\ faults < MaxFaults
    /\ faults' = faults + 1
    /\ deleting' = FALSE
    /\ UNCHANGED <<storeVars, row, job, expired, pc, seen, acked, deleted>>

-----------------------------------------------------------------------------
(* What a client or the lifecycle timer starts, and what carries it on. *)
Start(s) ==
    \/ CreateUpload(s) \/ ReadComplete(s) \/ ReadTouch(s)
    \/ ReadAbort(s)    \/ ReadSweep(s)

Continue(s) ==
    \/ InsertRow(s)     \/ Unmake(s)    \/ ListParts(s)  \/ Claim(s)
    \/ ReadClaimed(s)   \/ Transfer(s)  \/ Stat(s)       \/ Verify(s)
    \/ Reject(s)        \/ Validate(s)  \/ ReadValidated(s)
    \/ ReadOutrun(s)    \/ Discard(s)   \/ Finalize(s)   \/ ReadFinalized(s)
    \/ CreateJob(s)     \/ Finish(s)    \/ ReadFinished(s)
    \/ Expire(s)        \/ Abort(s)     \/ Reread(s)     \/ CleanParts(s)
    \/ CleanObject(s)   \/ CleanMark(s)

Handler(s) == Start(s) \/ Continue(s) \/ InsertFails(s) \/ Fail(s)

Outside ==
    \/ ClientPut    \/ LateCompletion \/ Tick
    \/ DeleteSource \/ DeleteRow      \/ DeleteCrash

Next == (\E s \in Servers : Handler(s)) \/ Outside

Spec == Init /\ [][Next]_vars

(* A running handler's thread makes its next call.  The lifespan loop calls    *)
(* the sweeper for ever, and the lock it needs is free between two requests:   *)
(* strong fairness, since requests keep taking the lock.                       *)
Fairness == \A s \in Servers : WF_vars(Continue(s)) /\ SF_vars(ReadSweep(s))

FairSpec == Spec /\ Fairness

-----------------------------------------------------------------------------
(* Properties. *)

(* A job exists only for media that was streamed and matched its declared     *)
(* checksum, and only once the session was sealed against expiry (finalizing);*)
(* the guard chain of complete_upload, across servers and replays.            *)
JobOnlyFromVerified ==
    job => /\ row.digest = "right"
           /\ row.status \in {"finalizing", "completed", "aborted"}

(* Once a session is finalizing or completed, its media stays in the bucket:  *)
(* no sweeper, stale cleanup or outrun validation of another server deletes   *)
(* it.  Only deleting the job does.                                           *)
SealedMediaKept ==
    row.status \in {"finalizing", "completed"} /\ ~deleted => object = "right"

(* cleanup_completed_at means what it says, and for good: the multipart upload*)
(* is gone, the object is gone, and no delayed completion can bring it back.  *)
CleanedMeansEmpty ==
    row.cleaned => multipart = "closed" /\ object = "missing"

(* A complete call that answered with the job is final: no abort, expiry or   *)
(* racing validation on another server takes the session back.                *)
AckedIsCompleted == acked => row.status = "completed"

(* Racing handlers move a session only forward: each step of the row follows  *)
(* one edge of the status machine, and a closed or completed session never    *)
(* changes status again.                                                      *)
Edges ==
    {<<"absent", "active">>, <<"active", "completing">>, <<"completing", "validated">>,
     <<"validated", "finalizing">>, <<"finalizing", "completed">>,
     <<"completing", "failed">>, <<"finalizing", "aborted">>}
    \union (Expirable \X {"expired", "aborted"})

StatusFollowsEdges ==
    [][row'.status # row.status => <<row.status, row'.status>> \in Edges]_vars

(* The session's promise: see UploadPromise. *)
Promise == INSTANCE UploadPromise WITH
    phase <- CASE row.status \in CleanupPending -> "closed"
               [] row.status = "finalizing" -> "sealed"
               [] row.status = "completed" -> "done"
               [] OTHER -> "open",
    verified <- row.digest = "right",
    media <- object,
    reclaimed <- row.cleaned

(* The service, with its servers, copies and lost answers, does nothing that  *)
(* the promise does not allow.                                                *)
KeepsPromise == Promise!Spec

(* The storage of a session that closes, or that expires before it is sealed, *)
(* is reclaimed in the end, whatever calls fail or crash on the way.          *)
ClosedIsReclaimed == row.status \in CleanupPending ~> row.cleaned
OverdueIsResolved ==
    Overdue(row) ~> (row.cleaned \/ row.status \in {"finalizing", "completed"})

(* Every job has its media unless it is being deleted. *)
JobHasMedia == job /\ ~deleted => object = "right"
=============================================================================
