----------------------- MODULE UploadSession_proofs -----------------------
(***************************************************************************)
(* Proofs about UploadSession for any set of servers, any number of parts  *)
(* and any number of faults.                                               *)
(***************************************************************************)
EXTENDS UploadSession, TLAPS

Sealed == {"finalizing", "completed"}
Cleaning == {"reread", "clean_parts", "clean_object", "clean_mark"}

(* What a handler's copy of the row says at each of its calls. *)
CopyFits(s) ==
    /\ pc[s] \in {"list", "claim"} => seen[s].status = "active"
    /\ pc[s] \in {"transfer", "stat", "verify", "reject", "validate"}
         => seen[s].status = "completing"
    /\ pc[s] = "finalize" => seen[s].status = "validated"
    /\ pc[s] = "finish" => seen[s].status = "finalizing"
    /\ pc[s] = "createjob" => seen[s].status = "finalizing"
    /\ pc[s] = "expire" => seen[s].status \in Expirable
    /\ pc[s] = "abort" => seen[s].status \in Expirable \union {"finalizing"}

(* What the row and the bucket still are at each of its calls, whatever the *)
(* other servers did since it read the row.                                 *)
WorldFits(s) ==
    /\ pc[s] \notin {"idle", "insert", "unmake"} => row.status # "absent"
    /\ pc[s] = "insert" => row.status = "absent" /\ multipart # "none"
    /\ pc[s] \in {"createjob", "finish"}
         => row.status \in Sealed \union {"aborted"} /\ row.digest = "right"
    /\ pc[s] \in Cleaning \union {"discard"} => row.status \in CleanupPending
    /\ pc[s] \in {"clean_object", "clean_mark"} => multipart = "closed"
    /\ pc[s] = "clean_mark" => object = "missing"
    /\ pc[s] = "validate"
         => object = "right" \/ deleted \/ row.status \in CleanupPending

OneCreator == \A s, t \in Servers : pc[s] = "insert" /\ pc[t] = "insert" => s = t

(* The row, the bucket and the job among themselves. *)
RowFits ==
    /\ row.status = "absent" => row.digest = "none"
    /\ row.status # "absent" => multipart # "none"
    /\ object # "missing" => multipart = "closed"
    /\ row.status \in Sealed \union {"validated"} => row.digest = "right"
    /\ row.status \in Sealed \union {"validated"} /\ ~deleted => object = "right"
    /\ row.cleaned => row.status \in CleanupPending
    /\ deleting => deleted
    /\ deleted => row.status \in Sealed \union {"aborted"}
    /\ row.digest = "right" => multipart = "closed"

IInv ==
    /\ TypeOK
    /\ \A s \in Servers : CopyFits(s) /\ WorldFits(s)
    /\ OneCreator
    /\ RowFits
    /\ JobOnlyFromVerified
    /\ CleanedMeansEmpty
    /\ AckedIsCompleted

-----------------------------------------------------------------------------
(* Types.  Lemmas about the moves, then one step per action. *)

LEMMA ResumeTypes ==
  ASSUME TypeOK, NEW s \in Servers, NEW u \in Rows,
         NEW label \in Labels \union {"reply"}, Resume(s, u, label)
  PROVE  /\ pc' \in [Servers -> Labels]
         /\ seen' \in [Servers -> Rows]
         /\ acked' \in BOOLEAN
         /\ deleting' \in BOOLEAN
         /\ deleted' \in BOOLEAN
  <1>1. NoRow \in Rows
    BY DEF NoRow, Rows, Statuses, Bytes
  <1>2. (IF label = "reply" THEN "idle" ELSE label) \in Labels
    BY DEF Labels
  <1> QED
    BY <1>1, <1>2 DEF TypeOK, Resume

LEMMA AnswerTypes ==
  ASSUME TypeOK, NEW s \in Servers, Answer(s)
  PROVE  /\ pc' \in [Servers -> Labels]
         /\ seen' \in [Servers -> Rows]
         /\ acked' \in BOOLEAN
         /\ deleting' \in BOOLEAN
         /\ deleted' \in BOOLEAN
  <1>1. NoRow \in Rows
    BY DEF NoRow, Rows, Statuses, Bytes
  <1>2. "idle" \in Labels \union {"reply"}
    BY DEF Labels
  <1> QED
    BY <1>1, <1>2, ResumeTypes DEF Answer

LEMMA OnlyTypes ==
  ASSUME TypeOK, NEW s \in Servers, NEW label \in Labels \union {"reply"}, Only(s, label)
  PROVE  TypeOK'
  <1>1. seen[s] \in Rows
    BY DEF TypeOK
  <1> QED
    BY <1>1, ResumeTypes DEF Only, TypeOK, StoreTypeOK, storeVars

LEMMA ReadTypes ==
  ASSUME TypeOK, NEW s \in Servers, NEW label \in Labels \union {"reply"},
         Resume(s, row, label), UNCHANGED <<storeVars, row, job, expired, faults>>
  PROVE  TypeOK'
  BY ResumeTypes DEF TypeOK, StoreTypeOK, storeVars

LEMMA CasTypes ==
  ASSUME TypeOK, NEW s \in Servers, NEW new \in Rows,
         NEW won \in Labels \union {"reply"}, NEW lost \in Labels \union {"reply"},
         CompareAndSet(s, new, won, lost)
  PROVE  TypeOK'
  <1>1. seen[s] \in Rows /\ row \in Rows
    BY DEF TypeOK
  <1>2. [new EXCEPT !.version = row.version + 1] \in Rows
    BY <1>1 DEF Rows
  <1>3. row' \in Rows
    BY <1>1, <1>2 DEF CompareAndSet
  <1>4. (IF Unchanged(s) THEN won ELSE lost) \in Labels \union {"reply"}
    OBVIOUS
  <1> QED
    BY <1>1, <1>3, <1>4, ResumeTypes DEF CompareAndSet, TypeOK, StoreTypeOK, storeVars

(* What the handler does after a step is one of its calls or an answer. *)
LEMMA AfterTypes ==
  ASSUME NEW u
  PROVE  /\ AfterFinalize(u) \in {"createjob", "reply", "idle"}
         /\ AfterValidate(u) \in {"finalize", "createjob", "reply", "idle"}
         /\ AfterClaim(u) \in {"transfer", "finalize", "createjob", "reply", "idle"}
  BY DEF AfterFinalize, AfterValidate, AfterClaim

LEMMA StoreTypes ==
  ASSUME StoreTypeOK, NEW list,
         \/ CreateMultipart \/ AbortMultipart \/ DeleteObject \/ LoseCompletion
         \/ Publish(list) /\ UNCHANGED inflight
         \/ LandCompletion(list)
         \/ \E p \in Parts, bytes \in Bytes : PutPart(p, bytes)
  PROVE  StoreTypeOK'
  BY DEF StoreTypeOK, CreateMultipart, AbortMultipart, DeleteObject, LoseCompletion,
         Publish, LandCompletion, PutPart, Assembled, Bytes

LEMMA BucketTypes ==
  ASSUME TypeOK, NEW s \in Servers, NEW label \in Labels \union {"reply"}, StoreTypeOK',
         Resume(s, seen[s], label), UNCHANGED <<row, job, expired, faults>>
  PROVE  TypeOK'
  BY ResumeTypes DEF TypeOK

LEMMA TypeStep == TypeOK /\ [Next]_vars => TypeOK'
  <1> SUFFICES ASSUME TypeOK, [Next]_vars PROVE TypeOK'
    OBVIOUS
  <1>a. /\ row \in Rows
        /\ NoRow \in Rows
        /\ \A s \in Servers : seen[s] \in Rows
    BY DEF TypeOK, NoRow, Rows, Statuses, Bytes
  <1>b. /\ \A st \in Statuses : [row EXCEPT !.status = st] \in Rows
        /\ [row EXCEPT !.status = "validated", !.digest = "right"] \in Rows
        /\ [row EXCEPT !.status = "completed", !.job = TRUE] \in Rows
        /\ [row EXCEPT !.cleaned = TRUE] \in Rows
        /\ [row EXCEPT !.job = FALSE] \in Rows
        /\ [NoRow EXCEPT !.status = "active"] \in Rows
    <2>1. {"validated", "completed", "active"} \subseteq Statuses /\ "right" \in Bytes
      BY DEF Statuses, Expirable, Bytes
    <2>2. /\ \A st \in Statuses : [row EXCEPT !.status = st] \in Rows
          /\ [NoRow EXCEPT !.status = "active"] \in Rows
      BY <1>a, <2>1 DEF Rows
    <2>3. /\ [row EXCEPT !.status = "validated", !.digest = "right"] \in Rows
          /\ [row EXCEPT !.status = "completed", !.job = TRUE] \in Rows
      BY <1>a, <2>1 DEF Rows
    <2>4. /\ [row EXCEPT !.cleaned = TRUE] \in Rows
          /\ [row EXCEPT !.job = FALSE] \in Rows
      BY <1>a DEF Rows
    <2> QED
      BY <2>2, <2>3, <2>4
  <1>c. /\ Labels \subseteq Labels \union {"reply"}
        /\ {"idle", "transfer", "finalize", "createjob"} \subseteq Labels
    BY DEF Labels
  <1>1. ASSUME NEW s \in Servers, CreateUpload(s) PROVE TypeOK'
    BY <1>1, StoreTypes, BucketTypes DEF CreateUpload, Bucket, TypeOK, StoreTypeOK, Labels
  <1>2. ASSUME NEW s \in Servers, InsertRow(s) PROVE TypeOK'
    BY <1>2, <1>b, AnswerTypes DEF InsertRow, TypeOK, StoreTypeOK, storeVars
  <1>3. ASSUME NEW s \in Servers, InsertFails(s) PROVE TypeOK'
    BY <1>3, <1>a, ResumeTypes, FaultsAssumption DEF InsertFails, TypeOK, StoreTypeOK, storeVars, Labels
  <1>4. ASSUME NEW s \in Servers, Unmake(s) PROVE TypeOK'
    BY <1>4, StoreTypes, BucketTypes DEF Unmake, Bucket, TypeOK, StoreTypeOK, Labels
  <1>5. ASSUME NEW s \in Servers, ReadComplete(s) PROVE TypeOK'
    BY <1>5, ReadTypes, AfterTypes DEF ReadComplete, Labels
  <1>6. ASSUME NEW s \in Servers, ListParts(s) PROVE TypeOK'
    <2>1. ASSUME parts \in PartLists PROVE [seen[s] EXCEPT !.intent = parts] \in Rows
      BY <1>a, <2>1 DEF Rows, PartLists
    <2>2. /\ pc' \in [Servers -> Labels]
          /\ seen' \in [Servers -> Rows]
          /\ acked' \in BOOLEAN /\ deleting' \in BOOLEAN /\ deleted' \in BOOLEAN
      BY <1>6, <2>1, ResumeTypes, AnswerTypes DEF ListParts, Labels
    <2> QED
      BY <1>6, <2>2 DEF ListParts, TypeOK, StoreTypeOK, storeVars
  <1>7. ASSUME NEW s \in Servers, Claim(s) PROVE TypeOK'
    <2>1. [row EXCEPT !.status = "completing", !.intent = seen[s].intent] \in Rows
      BY <1>a DEF Rows, Statuses, Expirable
    <2> QED
      BY <1>7, <2>1, CasTypes DEF Claim, Labels
  <1>8. ASSUME NEW s \in Servers, ReadClaimed(s) PROVE TypeOK'
    BY <1>8, ReadTypes, AfterTypes DEF ReadClaimed, Labels
  <1>9. ASSUME NEW s \in Servers, Transfer(s) PROVE TypeOK'
    <2>1. CASE Bucket(s, Publish(seen[s].intent) /\ UNCHANGED inflight, "verify")
      BY <2>1, StoreTypes, BucketTypes DEF Bucket, TypeOK, Labels
    <2>2. CASE /\ faults < MaxFaults
               /\ faults' = faults + 1
               /\ \/ Publish(seen[s].intent) /\ UNCHANGED inflight
                  \/ LoseCompletion
               /\ Resume(s, seen[s], "stat")
               /\ UNCHANGED <<row, job, expired>>
      <3>1. StoreTypeOK'
        BY <2>2, StoreTypes DEF TypeOK
      <3> QED
        BY <1>a, <2>2, <3>1, ResumeTypes, FaultsAssumption DEF TypeOK, Labels
    <2>3. CASE Only(s, "stat") \/ Only(s, "idle")
      BY <2>3, OnlyTypes DEF Labels
    <2> QED
      BY <1>9, <2>1, <2>2, <2>3 DEF Transfer
  <1>10. ASSUME NEW s \in Servers, Stat(s) PROVE TypeOK'
    BY <1>10, OnlyTypes DEF Stat, Labels
  <1>11. ASSUME NEW s \in Servers, Verify(s) PROVE TypeOK'
    BY <1>11, OnlyTypes DEF Verify, Labels
  <1>12. ASSUME NEW s \in Servers, Reject(s) PROVE TypeOK'
    BY <1>12, <1>b, CasTypes DEF Reject, Labels, Statuses, Expirable, CleanupPending
  <1>13. ASSUME NEW s \in Servers, Validate(s) PROVE TypeOK'
    BY <1>13, <1>b, CasTypes DEF Validate, Labels, Statuses, Expirable, CleanupPending
  <1>14. ASSUME NEW s \in Servers, ReadValidated(s) PROVE TypeOK'
    BY <1>14, ReadTypes, AfterTypes DEF ReadValidated, Labels
  <1>15. ASSUME NEW s \in Servers, ReadOutrun(s) PROVE TypeOK'
    BY <1>15, ReadTypes, AfterTypes DEF ReadOutrun, Labels
  <1>16. ASSUME NEW s \in Servers, Discard(s) PROVE TypeOK'
    BY <1>16, StoreTypes, BucketTypes DEF Discard, Bucket, TypeOK, StoreTypeOK, Labels
  <1>17. ASSUME NEW s \in Servers, Finalize(s) PROVE TypeOK'
    BY <1>17, <1>b, CasTypes DEF Finalize, Labels, Statuses, Expirable, CleanupPending
  <1>18. ASSUME NEW s \in Servers, ReadFinalized(s) PROVE TypeOK'
    BY <1>18, ReadTypes, AfterTypes DEF ReadFinalized, Labels
  <1>19. ASSUME NEW s \in Servers, CreateJob(s) PROVE TypeOK'
    BY <1>19, <1>a, ResumeTypes DEF CreateJob, TypeOK, StoreTypeOK, storeVars, Labels
  <1>20. ASSUME NEW s \in Servers, Finish(s) PROVE TypeOK'
    BY <1>20, <1>b, CasTypes, OnlyTypes DEF Finish, Labels
  <1>21. ASSUME NEW s \in Servers, ReadFinished(s) PROVE TypeOK'
    BY <1>21, OnlyTypes DEF ReadFinished, Labels
  <1>22. ASSUME NEW s \in Servers, ReadTouch(s) PROVE TypeOK'
    BY <1>22, ReadTypes DEF ReadTouch, Labels
  <1>23. ASSUME NEW s \in Servers, ReadAbort(s) PROVE TypeOK'
    BY <1>23, ReadTypes DEF ReadAbort, Labels
  <1>24. ASSUME NEW s \in Servers, ReadSweep(s) PROVE TypeOK'
    BY <1>24, ReadTypes DEF ReadSweep, Labels
  <1>25. ASSUME NEW s \in Servers, Expire(s) PROVE TypeOK'
    BY <1>25, <1>b, CasTypes DEF Expire, Labels, Statuses, Expirable, CleanupPending
  <1>26. ASSUME NEW s \in Servers, Abort(s) PROVE TypeOK'
    BY <1>26, <1>b, CasTypes DEF Abort, Labels, Statuses, Expirable, CleanupPending
  <1>27. ASSUME NEW s \in Servers, Reread(s) PROVE TypeOK'
    BY <1>27, ReadTypes DEF Reread, Labels
  <1>28. ASSUME NEW s \in Servers, CleanParts(s) PROVE TypeOK'
    BY <1>28, StoreTypes, BucketTypes DEF CleanParts, Bucket, TypeOK, StoreTypeOK, Labels
  <1>29. ASSUME NEW s \in Servers, CleanObject(s) PROVE TypeOK'
    BY <1>29, StoreTypes, BucketTypes DEF CleanObject, Bucket, TypeOK, StoreTypeOK, Labels
  <1>30. ASSUME NEW s \in Servers, CleanMark(s) PROVE TypeOK'
    BY <1>30, <1>b, CasTypes DEF CleanMark, Labels, Statuses, Expirable, CleanupPending
  <1>31. ASSUME NEW s \in Servers, Fail(s) PROVE TypeOK'
    BY <1>31, AnswerTypes, FaultsAssumption DEF Fail, TypeOK, StoreTypeOK, storeVars
  <1>32. CASE ClientPut
    BY <1>32, <1>a, StoreTypes DEF ClientPut, clientVars, TypeOK, Rows
  <1>33. CASE LateCompletion
    BY <1>33, <1>a, StoreTypes DEF LateCompletion, clientVars, TypeOK, Rows
  <1>34. CASE Tick
    BY <1>34, FaultsAssumption DEF Tick, DeleteObject, clientVars, TypeOK, StoreTypeOK, storeVars
  <1>35. CASE DeleteSource
    BY <1>35, FaultsAssumption DEF DeleteSource, DeleteObject, clientVars, TypeOK, StoreTypeOK, storeVars
  <1>36. CASE DeleteRow
    BY <1>36, <1>b DEF DeleteRow, TypeOK, StoreTypeOK, storeVars
  <1>37. CASE DeleteCrash
    <2>1. faults' \in 0..MaxFaults
      BY <1>37, FaultsAssumption DEF DeleteCrash, TypeOK
    <2> QED
      BY <1>37, <2>1, Zenon DEF DeleteCrash, TypeOK, StoreTypeOK, storeVars
  <1>38. CASE UNCHANGED vars
    BY <1>38 DEF vars, clientVars, storeVars, TypeOK, StoreTypeOK
  <1> QED
    BY <1>1, <1>2, <1>3, <1>4, <1>5, <1>6, <1>7, <1>8, <1>9, <1>10, <1>11,
       <1>12, <1>13, <1>14, <1>15, <1>16, <1>17, <1>18, <1>19, <1>20, <1>21,
       <1>22, <1>23, <1>24, <1>25, <1>26, <1>27, <1>28, <1>29, <1>30, <1>31,
       <1>32, <1>33, <1>34, <1>35, <1>36, <1>37, <1>38
    DEF Next, Handler, Start, Continue, Outside

LEMMA InitTypes == Init => TypeOK
  <1> SUFFICES ASSUME Init PROVE TypeOK
    OBVIOUS
  <1>1. NoRow \in Rows
    BY DEF NoRow, Rows, Statuses, Bytes
  <1>2. faults \in 0..MaxFaults
    BY FaultsAssumption DEF Init
  <1>3. StoreTypeOK
    BY DEF Init, StoreInit, StoreTypeOK
  <1> QED
    BY <1>1, <1>2, <1>3 DEF Init, TypeOK, Labels

(* Every variable keeps its type: in particular no handler ever writes a       *)
(* digest it did not read, and no control point is left undefined.             *)
THEOREM UploadTypeCorrect == Spec => []TypeOK
  BY InitTypes, TypeStep, PTL DEF Spec

-----------------------------------------------------------------------------
(* The inductive invariant IInv, by rely and guarantee: every step leaves the  *)
(* others what Steady says, and establishes CopyFits and WorldFits for its own *)
(* handler.                                                                    *)

Steady ==
    /\ row.status # "absent" => row'.status # "absent"
    /\ row.digest = "right" => row'.digest = "right"
    /\ row.status \in CleanupPending => row'.status \in CleanupPending
    /\ row.status \in Sealed \union {"aborted"}
         => row'.status \in Sealed \union {"aborted"}
    /\ multipart # "none" => multipart' # "none"
    /\ multipart = "closed" => multipart' = "closed"
    /\ multipart = "closed" /\ object = "missing" => object' = "missing"
    /\ object = "right"
         => object' = "right" \/ deleted' \/ row'.status \in CleanupPending
    /\ deleted => deleted'

Global == RowFits /\ JobOnlyFromVerified /\ CleanedMeansEmpty /\ AckedIsCompleted

(* The shared state that a reading step leaves alone. *)
Quiet == UNCHANGED <<row, job, multipart, object, deleting, deleted>>

LEMMA ResumeFrame ==
  ASSUME TypeOK, NEW s \in Servers, NEW u, NEW label, Resume(s, u, label)
  PROVE  /\ pc'[s] = IF label = "reply" THEN "idle" ELSE label
         /\ seen'[s] = IF label \in {"idle", "reply"} THEN NoRow ELSE u
         /\ \A t \in Servers \ {s} : pc'[t] = pc[t] /\ seen'[t] = seen[t]
         /\ deleted' = deleted /\ deleting' = deleting
         /\ acked' = (acked \/ label = "reply")
  BY DEF TypeOK, Resume

LEMMA OnlyFrame ==
  ASSUME TypeOK, NEW s \in Servers, NEW label, Only(s, label), label # "reply"
  PROVE  Quiet /\ acked' = acked /\ pc'[s] = label /\ seen'[s] \in {seen[s], NoRow}
         /\ (label # "idle" => seen'[s] = seen[s])
  <1> QED
    BY ResumeFrame, TypeStep DEF Only, Quiet, storeVars, TypeOK

LEMMA ReadFrame ==
  ASSUME TypeOK, NEW s \in Servers, NEW label, Resume(s, row, label), label # "reply",
         UNCHANGED <<storeVars, row, job, expired, faults>>
  PROVE  Quiet /\ acked' = acked /\ pc'[s] = label /\ (label # "idle" => seen'[s] = row)
  BY ResumeFrame DEF Quiet, storeVars, TypeOK

LEMMA BucketFrame ==
  ASSUME TypeOK, NEW s \in Servers, NEW label, Resume(s, seen[s], label), label # "reply",
         UNCHANGED <<row, job>>
  PROVE  /\ UNCHANGED <<row, job, deleting, deleted>> /\ acked' = acked
         /\ pc'[s] = label
         /\ (label # "idle" => seen'[s] = seen[s])
  BY ResumeFrame DEF TypeOK

LEMMA CasFrame ==
  ASSUME TypeOK, NEW s \in Servers, NEW new \in Rows, NEW won, NEW lost, lost # "reply",
         CompareAndSet(s, new, won, lost)
  PROVE  /\ UNCHANGED <<job, multipart, object, deleting, deleted>>
         /\ \/ /\ Unchanged(s) /\ row.status = seen[s].status
               /\ row'.status = new.status /\ row'.digest = new.digest
               /\ row'.job = new.job /\ row'.cleaned = new.cleaned
               /\ pc'[s] = (IF won = "reply" THEN "idle" ELSE won)
               /\ acked' = (acked \/ won = "reply")
               /\ (won \notin {"reply", "idle"} => seen'[s] = seen[s])
            \/ /\ row' = row
               /\ pc'[s] = lost
               /\ acked' = acked
               /\ (lost # "idle" => seen'[s] = seen[s])
  <1>1. row \in Rows
    BY DEF TypeOK
  <1>2. CASE Unchanged(s)
    <2>1. row' = [new EXCEPT !.version = row.version + 1]
      BY <1>2 DEF CompareAndSet
    <2>2. Resume(s, seen[s], won)
      BY <1>2 DEF CompareAndSet
    <2>3. UNCHANGED <<job, multipart, object>>
      BY DEF CompareAndSet, storeVars
    <2> QED
      BY <1>2, <2>1, <2>2, <2>3, ResumeFrame DEF Rows, Unchanged
  <1>3. CASE ~Unchanged(s)
    <2>1. row' = row /\ Resume(s, seen[s], lost)
      BY <1>3 DEF CompareAndSet
    <2>2. UNCHANGED <<job, multipart, object>>
      BY DEF CompareAndSet, storeVars
    <2> QED
      BY <1>3, <2>1, <2>2, ResumeFrame DEF TypeOK
  <1> QED
    BY <1>2, <1>3

(* The kinds of step the session can take, as far as UploadPromise sees it. *)
Moves ==
    LET SameRow == /\ row'.status = row.status
                   /\ row'.digest = row.digest
                   /\ row'.cleaned = row.cleaned
    IN  \/ SameRow /\ UNCHANGED <<object, job>>
        \/ /\ SameRow /\ UNCHANGED job
           /\ object' = "missing"
           /\ row.status \in CleanupPending \/ job
        \/ /\ SameRow /\ UNCHANGED job
           /\ multipart = "open"
           /\ object' \in Bytes
        \/ /\ SameRow /\ UNCHANGED object
           /\ job' => row.digest = "right" /\ row.status \in Sealed \union {"aborted"}
        \/ /\ row'.status = row.status /\ row'.digest = row.digest
           /\ row'.cleaned
           /\ row.status \in CleanupPending /\ object = "missing"
           /\ UNCHANGED <<object, job>>
        \/ /\ <<row.status, row'.status>> \in Edges
           /\ \/ row'.digest = row.digest
              \/ row'.status = "validated" /\ row'.digest = "right" /\ object = "right"
           /\ row'.cleaned = row.cleaned
           /\ row'.status = "completed" => job
           /\ UNCHANGED <<object, job>>

(* What the handler of s establishes for itself and for everybody. *)
Own(s) ==
    /\ Steady
    /\ row.status = "absent" => row'.status = "absent" \/ pc[s] = "insert"
    /\ pc'[s] = "insert" => multipart = "none"
    /\ CopyFits(s)' /\ WorldFits(s)'
    /\ Global' /\ Moves

LEMMA QuietSteps ==
  ASSUME IInv, NEW s \in Servers,
         \/ InsertFails(s) \/ ReadComplete(s) \/ ListParts(s) \/ ReadClaimed(s)
         \/ Stat(s) \/ Verify(s) \/ ReadValidated(s) \/ ReadOutrun(s)
         \/ ReadFinalized(s) \/ ReadFinished(s) \/ ReadTouch(s) \/ ReadAbort(s)
         \/ ReadSweep(s) \/ Reread(s) \/ Fail(s)
  PROVE  Own(s)
  <1> USE DEF Steady, CopyFits, WorldFits, RowFits, JobOnlyFromVerified, CleanedMeansEmpty,
              AckedIsCompleted, Sealed, Cleaning, CleanupPending, Expirable, At, Own, Global,
              Moves, Edges
  <1>a. /\ TypeOK /\ row \in Rows /\ seen[s] \in Rows
        /\ job \in BOOLEAN /\ deleted \in BOOLEAN /\ acked \in BOOLEAN /\ deleting \in BOOLEAN
        /\ row.cleaned \in BOOLEAN /\ row.job \in BOOLEAN
    BY DEF IInv, TypeOK, Rows
  <1>b. CopyFits(s) /\ WorldFits(s) /\ Global
    BY DEF IInv
  <1>q. ASSUME Quiet, pc'[s] = "idle", acked' = acked PROVE Own(s)
    BY <1>a, <1>b, <1>q DEF Quiet
  <1>r. ASSUME Quiet, pc'[s] = "idle", row.status = "completed" PROVE Own(s)
    BY <1>a, <1>b, <1>r DEF Quiet
  <1>1. CASE InsertFails(s)
    <2>1. Quiet /\ pc'[s] = "unmake" /\ acked' = acked
      BY <1>a, <1>1, ResumeFrame DEF InsertFails, Quiet, storeVars
    <2> QED
      BY <1>a, <1>b, <2>1 DEF Quiet
  <1>f. CASE Fail(s)
    <2>1. Quiet /\ pc'[s] = "idle" /\ acked' = acked
      BY <1>a, <1>f, ResumeFrame DEF Fail, Answer, Quiet, storeVars
    <2> QED
      BY <1>q, <2>1
  <1>2. ASSUME NEW label, Resume(s, row, label), row.status # "absent",
               UNCHANGED <<storeVars, row, job, expired, faults>>,
               \/ label = AfterClaim(row)
               \/ label = AfterValidate(row)
               \/ label = AfterFinalize(row)
               \/ label = "list" /\ row.status = "active"
               \/ label = "expire" /\ row.status \in Expirable
               \/ label = "abort" /\ row.status \in Expirable \union {"finalizing"}
               \/ label = "discard" /\ row.status \in {"expired", "aborted"}
               \/ label = "clean_parts" /\ row.status \in CleanupPending
        PROVE  Own(s)
    <2>1. Quiet
      BY <1>a, <1>2, ResumeFrame DEF Quiet, storeVars
    <2>2. label \in {"transfer", "finalize", "createjob", "reply", "idle", "list",
                     "expire", "abort", "discard", "clean_parts"}
      BY <1>2, AfterTypes
    <2>3. CASE label = "reply"
      <3>1. row.status = "completed"
        BY <1>2, <2>3 DEF AfterClaim, AfterValidate, AfterFinalize
      <3>2. pc'[s] = "idle"
        BY <1>a, <1>2, <2>3, ResumeFrame
      <3> QED
        BY <1>r, <2>1, <3>1, <3>2
    <2>4. CASE label # "reply"
      <3>1. /\ Quiet /\ acked' = acked /\ pc'[s] = label
            /\ label # "idle" => seen'[s] = row
        BY <1>a, <1>2, <2>4, ReadFrame
      <3>2. /\ label = "transfer" => row.status = "completing"
            /\ label = "finalize" => row.status = "validated"
            /\ label = "createjob" => row.status = "finalizing"
            /\ label = "list" => row.status = "active"
            /\ label = "expire" => row.status \in Expirable
            /\ label = "abort" => row.status \in Expirable \union {"finalizing"}
            /\ label \in {"discard", "clean_parts"} => row.status \in CleanupPending
        BY <1>2 DEF AfterClaim, AfterValidate, AfterFinalize
      <3>3. CASE label = "idle"
        BY <1>q, <3>1, <3>3
      <3>4. CASE label # "idle"
        <4>1. row.status # "absent"
          BY <1>2
        <4> QED
          BY <1>a, <1>b, <2>2, <3>1, <3>2, <3>4, <4>1 DEF Quiet
      <3> QED
        BY <3>3, <3>4
    <2> QED
      BY <2>3, <2>4
  <1>3. CASE ReadComplete(s)
    <2>1. CASE Overdue(row)
      BY <1>2, <1>3, <2>1 DEF ReadComplete, Overdue
    <2>2. CASE ~Overdue(row) /\ row.status = "active"
      BY <1>2, <1>3, <2>2 DEF ReadComplete
    <2>3. CASE ~Overdue(row) /\ row.status # "active"
      BY <1>2, <1>3, <2>3 DEF ReadComplete
    <2> QED
      BY <2>1, <2>2, <2>3
  <1>4. CASE ListParts(s)
    <2>1. pc[s] = "list" /\ Quiet
      BY <1>a, <1>4, ResumeFrame DEF ListParts, Answer, Quiet, storeVars
    <2>2. CASE Answer(s)
      <3>1. pc'[s] = "idle" /\ acked' = acked
        BY <1>a, <2>2, ResumeFrame DEF Answer
      <3> QED
        BY <1>q, <2>1, <3>1
    <2>3. CASE Resume(s, [seen[s] EXCEPT !.intent = parts], "claim")
      <3>1. /\ pc'[s] = "claim" /\ acked' = acked
            /\ seen'[s].status = seen[s].status
        BY <1>a, <2>3, ResumeFrame DEF Rows
      <3> QED
        BY <1>a, <1>b, <2>1, <3>1 DEF Quiet
    <2> QED
      BY <1>4, <2>2, <2>3 DEF ListParts
  <1>5. CASE ReadClaimed(s)
    BY <1>b, <1>2, <1>5 DEF ReadClaimed
  <1>6. CASE Stat(s)
    <2>1. /\ pc[s] = "stat" /\ Quiet /\ acked' = acked /\ pc'[s] \in {"idle", "verify"}
          /\ pc'[s] = "verify" => seen'[s] = seen[s]
      BY <1>a, <1>6, OnlyFrame DEF Stat
    <2> QED
      BY <1>a, <1>b, <2>1 DEF Quiet
  <1>7. CASE Verify(s)
    <2>1. /\ pc[s] = "verify" /\ Quiet /\ acked' = acked
          /\ pc'[s] \in {"idle", "validate", "reject"}
          /\ pc'[s] = "validate" => object = "right"
          /\ pc'[s] # "idle" => seen'[s] = seen[s]
      BY <1>a, <1>7, OnlyFrame DEF Verify
    <2> QED
      BY <1>a, <1>b, <2>1 DEF Quiet
  <1>8. CASE ReadValidated(s)
    BY <1>b, <1>2, <1>8 DEF ReadValidated
  <1>9. CASE ReadOutrun(s)
    BY <1>b, <1>2, <1>9 DEF ReadOutrun
  <1>10. CASE ReadFinalized(s)
    BY <1>b, <1>2, <1>10 DEF ReadFinalized
  <1>11. CASE ReadFinished(s)
    <2>1. CASE row.status = "completed" /\ row.job
      <3>1. Quiet /\ pc'[s] = "idle"
        BY <1>a, <1>11, <2>1, ResumeFrame DEF ReadFinished, Only, Quiet, storeVars
      <3> QED
        BY <1>r, <2>1, <3>1
    <2>2. CASE ~(row.status = "completed" /\ row.job)
      <3>1. Quiet /\ pc'[s] = "idle" /\ acked' = acked
        BY <1>a, <1>11, <2>2, OnlyFrame DEF ReadFinished
      <3> QED
        BY <1>q, <3>1
    <2> QED
      BY <2>1, <2>2
  <1>12. CASE ReadTouch(s)
    BY <1>2, <1>12 DEF ReadTouch, Overdue
  <1>13. CASE ReadAbort(s)
    BY <1>2, <1>13 DEF ReadAbort, Overdue
  <1>14. CASE ReadSweep(s)
    BY <1>2, <1>14 DEF ReadSweep, Overdue
  <1>15. CASE Reread(s)
    <2>1. row.status # "absent" /\ row.status \in CleanupPending
      BY <1>b, <1>15 DEF Reread
    <2> QED
      BY <1>2, <1>15, <2>1 DEF Reread
  <1> QED
    BY <1>1, <1>f, <1>3, <1>4, <1>5, <1>6, <1>7, <1>8, <1>9, <1>10, <1>11, <1>12,
       <1>13, <1>14, <1>15

LEMMA WritingSteps ==
  ASSUME IInv, NEW s \in Servers,
         \/ Claim(s) \/ Reject(s) \/ Validate(s) \/ Finalize(s) \/ Finish(s)
         \/ Expire(s) \/ Abort(s) \/ CleanMark(s) \/ InsertRow(s) \/ CreateJob(s)
  PROVE  Own(s)
  <1> USE DEF Steady, CopyFits, WorldFits, RowFits, JobOnlyFromVerified, CleanedMeansEmpty,
              AckedIsCompleted, Sealed, Cleaning, CleanupPending, Expirable, At, Own, Global,
              Moves, Edges
  <1>a. /\ TypeOK /\ row \in Rows /\ seen[s] \in Rows
        /\ job \in BOOLEAN /\ deleted \in BOOLEAN /\ acked \in BOOLEAN /\ deleting \in BOOLEAN
        /\ row.cleaned \in BOOLEAN /\ row.job \in BOOLEAN
    BY DEF IInv, TypeOK, Rows
  <1>b. CopyFits(s) /\ WorldFits(s) /\ Global
    BY DEF IInv
  (* A compare-and-set that lost changed nothing. *)
  <1>l. ASSUME NEW label, label \in {"idle", "claimed", "outrun", "finalized", "finished"},
               UNCHANGED <<row, job, multipart, object, deleting, deleted>>,
               pc'[s] = label, acked' = acked, pc[s] \notin {"idle", "insert", "unmake"}
        PROVE  Own(s)
    BY <1>a, <1>b, <1>l
  (* One that won in a step that only moves the status. *)
  <1>s. ASSUME NEW st \in Statuses, NEW won, won # "reply", NEW lost, lost # "reply",
               CompareAndSet(s, [row EXCEPT !.status = st], won, lost)
        PROVE  /\ UNCHANGED <<job, multipart, object, deleting, deleted>>
               /\ \/ /\ row.status = seen[s].status
                     /\ row'.status = st /\ row'.digest = row.digest
                     /\ row'.job = row.job /\ row'.cleaned = row.cleaned
                     /\ pc'[s] = won
                     /\ acked' = acked
                  \/ row' = row /\ pc'[s] = lost /\ acked' = acked
    <2> DEFINE new == [row EXCEPT !.status = st]
    <2>1. /\ new \in Rows
          /\ new.status = st /\ new.digest = row.digest
          /\ new.job = row.job /\ new.cleaned = row.cleaned
      BY <1>a DEF Rows
    <2>2. CompareAndSet(s, new, won, lost)
      BY <1>s
    <2> HIDE DEF new
    <2> QED
      BY <1>a, <1>s, <2>1, <2>2, CasFrame
  <1>1. CASE Claim(s)
    <2> DEFINE new == [row EXCEPT !.status = "completing", !.intent = seen[s].intent]
    <2>1. /\ new \in Rows
          /\ new.status = "completing" /\ new.digest = row.digest
          /\ new.job = row.job /\ new.cleaned = row.cleaned
      BY <1>a DEF Rows, Statuses
    <2>2. pc[s] = "claim" /\ CompareAndSet(s, new, "claimed", "claimed")
      BY <1>1 DEF Claim
    <2> HIDE DEF new
    <2>3. /\ pc[s] = "claim"
          /\ UNCHANGED <<job, multipart, object, deleting, deleted>>
          /\ \/ /\ row.status = seen[s].status
                /\ row'.status = "completing" /\ row'.digest = row.digest
                /\ row'.job = row.job /\ row'.cleaned = row.cleaned
                /\ pc'[s] = "claimed"
                /\ acked' = acked
             \/ row' = row /\ pc'[s] = "claimed" /\ acked' = acked
      BY <1>a, <2>1, <2>2, CasFrame
    <2> QED
      BY <1>a, <1>b, <1>l, <2>3
  <1>2. CASE Reject(s)
    <2>1. "failed" \in Statuses /\ pc[s] = "reject"
      BY <1>2 DEF Reject, Statuses
    <2>2. /\ UNCHANGED <<job, multipart, object, deleting, deleted>>
          /\ \/ /\ row.status = seen[s].status
                /\ row'.status = "failed" /\ row'.digest = row.digest
                /\ row'.job = row.job /\ row'.cleaned = row.cleaned
                /\ pc'[s] = "reread"
                /\ acked' = acked
             \/ row' = row /\ pc'[s] = "idle" /\ acked' = acked
      BY <1>2, <1>s, <2>1 DEF Reject
    <2> QED
      BY <1>a, <1>b, <1>l, <2>1, <2>2
  <1>3. CASE Validate(s)
    <2> DEFINE new == [row EXCEPT !.status = "validated", !.digest = "right"]
    <2>1. /\ new \in Rows
          /\ new.status = "validated" /\ new.digest = "right"
          /\ new.job = row.job /\ new.cleaned = row.cleaned
      BY <1>a DEF Rows, Statuses, Bytes
    <2>2. pc[s] = "validate" /\ CompareAndSet(s, new, "validated", "outrun")
      BY <1>3 DEF Validate
    <2> HIDE DEF new
    <2>3. /\ pc[s] = "validate"
          /\ UNCHANGED <<job, multipart, object, deleting, deleted>>
          /\ \/ /\ row.status = seen[s].status
                /\ row'.status = "validated" /\ row'.digest = "right"
                /\ row'.job = row.job /\ row'.cleaned = row.cleaned
                /\ pc'[s] = "validated"
                /\ acked' = acked
             \/ row' = row /\ pc'[s] = "outrun" /\ acked' = acked
      BY <1>a, <2>1, <2>2, CasFrame
    <2> QED
      BY <1>a, <1>b, <1>l, <2>3
  <1>4. CASE Finalize(s)
    <2>1. "finalizing" \in Statuses /\ pc[s] = "finalize"
      BY <1>4 DEF Finalize, Statuses
    <2>2. /\ UNCHANGED <<job, multipart, object, deleting, deleted>>
          /\ \/ /\ row.status = seen[s].status
                /\ row'.status = "finalizing" /\ row'.digest = row.digest
                /\ row'.job = row.job /\ row'.cleaned = row.cleaned
                /\ pc'[s] = "finalized"
                /\ acked' = acked
             \/ row' = row /\ pc'[s] = "finalized" /\ acked' = acked
      BY <1>4, <1>s, <2>1 DEF Finalize
    <2> QED
      BY <1>a, <1>b, <1>l, <2>1, <2>2
  <1>5. CASE Finish(s)
    <2> DEFINE new == [row EXCEPT !.status = "completed", !.job = TRUE]
    <2>1. /\ new \in Rows
          /\ new.status = "completed" /\ new.digest = row.digest
          /\ new.job = TRUE /\ new.cleaned = row.cleaned
      BY <1>a DEF Rows, Statuses
    <2>2. pc[s] = "finish"
      BY <1>5 DEF Finish
    <2>3. CASE Unchanged(s) /\ ~job
      <3>1. Quiet /\ pc'[s] = "idle" /\ acked' = acked
        BY <1>a, <1>5, <2>3, OnlyFrame DEF Finish
      <3> QED
        BY <1>a, <1>b, <1>l, <2>2, <3>1 DEF Quiet
    <2>4. CASE ~(Unchanged(s) /\ ~job)
      <3>1. CompareAndSet(s, new, "reply", "finished")
        BY <1>5, <2>4 DEF Finish
      <3> HIDE DEF new
      <3>2. /\ UNCHANGED <<job, multipart, object, deleting, deleted>>
            /\ \/ /\ row.status = seen[s].status /\ job
                  /\ row'.status = "completed" /\ row'.digest = row.digest
                  /\ row'.job = TRUE /\ row'.cleaned = row.cleaned
                  /\ pc'[s] = "idle"
               \/ row' = row /\ pc'[s] = "finished" /\ acked' = acked
        BY <1>a, <2>1, <2>4, <3>1, CasFrame
      <3> QED
        BY <1>a, <1>b, <1>l, <2>2, <3>2
    <2> QED
      BY <1>5, <2>3, <2>4 DEF Finish
  <1>6. CASE Expire(s)
    <2>1. "expired" \in Statuses /\ pc[s] = "expire"
      BY <1>6 DEF Expire, Statuses
    <2>2. /\ UNCHANGED <<job, multipart, object, deleting, deleted>>
          /\ \/ /\ row.status = seen[s].status
                /\ row'.status = "expired" /\ row'.digest = row.digest
                /\ row'.job = row.job /\ row'.cleaned = row.cleaned
                /\ pc'[s] = "reread"
                /\ acked' = acked
             \/ row' = row /\ pc'[s] = "idle" /\ acked' = acked
      BY <1>6, <1>s, <2>1 DEF Expire
    <2> QED
      BY <1>a, <1>b, <1>l, <2>1, <2>2
  <1>7. CASE Abort(s)
    <2>1. "aborted" \in Statuses /\ pc[s] = "abort"
      BY <1>7 DEF Abort, Statuses
    <2>2. /\ UNCHANGED <<job, multipart, object, deleting, deleted>>
          /\ \/ /\ row.status = seen[s].status
                /\ row'.status = "aborted" /\ row'.digest = row.digest
                /\ row'.job = row.job /\ row'.cleaned = row.cleaned
                /\ pc'[s] = "reread"
                /\ acked' = acked
             \/ row' = row /\ pc'[s] = "idle" /\ acked' = acked
      BY <1>7, <1>s, <2>1 DEF Abort
    <2> QED
      BY <1>a, <1>b, <1>l, <2>1, <2>2
  <1>8. CASE CleanMark(s)
    <2> DEFINE new == [row EXCEPT !.cleaned = TRUE]
    <2>1. /\ new \in Rows
          /\ new.status = row.status /\ new.digest = row.digest
          /\ new.job = row.job /\ new.cleaned = TRUE
      BY <1>a DEF Rows
    <2>2. pc[s] = "clean_mark" /\ CompareAndSet(s, new, "idle", "idle")
      BY <1>8 DEF CleanMark
    <2> HIDE DEF new
    <2>3. /\ pc[s] = "clean_mark"
          /\ UNCHANGED <<job, multipart, object, deleting, deleted>>
          /\ pc'[s] = "idle" /\ acked' = acked
          /\ \/ /\ row'.status = row.status /\ row'.digest = row.digest
                /\ row'.job = row.job /\ row'.cleaned = TRUE
             \/ row' = row
      BY <1>a, <2>1, <2>2, CasFrame
    <2> QED
      BY <1>a, <1>b, <2>3
  <1>9. CASE InsertRow(s)
    <2>1. /\ pc[s] = "insert"
          /\ row'.status = "active" /\ row'.digest = "none"
          /\ ~row'.job /\ row'.cleaned = FALSE
          /\ UNCHANGED <<job, multipart, object>>
      BY <1>9 DEF InsertRow, NoRow, storeVars
    <2>2. pc'[s] = "idle" /\ acked' = acked /\ deleting' = deleting /\ deleted' = deleted
      BY <1>a, <1>9, ResumeFrame DEF InsertRow, Answer
    <2> QED
      BY <1>a, <1>b, <2>1, <2>2
  <1>10. CASE CreateJob(s)
    <2>1. /\ pc[s] = "createjob"
          /\ job' = TRUE
          /\ UNCHANGED <<row, multipart, object>>
      BY <1>10 DEF CreateJob, storeVars
    <2>2. /\ pc'[s] = "finish" /\ acked' = acked /\ deleting' = deleting /\ deleted' = deleted
          /\ seen'[s] = seen[s]
      BY <1>a, <1>10, ResumeFrame DEF CreateJob
    <2> QED
      BY <1>a, <1>b, <2>1, <2>2
  <1> QED
    BY <1>1, <1>2, <1>3, <1>4, <1>5, <1>6, <1>7, <1>8, <1>9, <1>10

LEMMA BucketSteps ==
  ASSUME IInv, NEW s \in Servers,
         \/ CreateUpload(s) \/ Unmake(s) \/ Transfer(s) \/ Discard(s) \/ CleanParts(s)
         \/ CleanObject(s)
  PROVE  Own(s)
  <1> USE DEF Steady, CopyFits, WorldFits, RowFits, JobOnlyFromVerified, CleanedMeansEmpty,
              AckedIsCompleted, Sealed, Cleaning, CleanupPending, Expirable, At, Own, Global,
              Moves, Edges
  <1>a. /\ TypeOK /\ row \in Rows /\ seen[s] \in Rows
        /\ job \in BOOLEAN /\ deleted \in BOOLEAN /\ acked \in BOOLEAN /\ deleting \in BOOLEAN
        /\ row.cleaned \in BOOLEAN /\ row.job \in BOOLEAN
        /\ multipart \in {"none", "open", "closed"}
    BY DEF IInv, TypeOK, StoreTypeOK, Rows
  <1>b. CopyFits(s) /\ WorldFits(s) /\ Global
    BY DEF IInv
  <1>1. CASE CreateUpload(s)
    <2>1. /\ UNCHANGED <<row, job, object, deleting, deleted>> /\ acked' = acked
          /\ pc'[s] = "insert" /\ multipart = "none" /\ multipart' = "open"
      BY <1>a, <1>1, BucketFrame DEF CreateUpload, Bucket, CreateMultipart
    <2> QED
      BY <1>a, <1>b, <2>1
  <1>2. CASE Unmake(s)
    <2>1. /\ UNCHANGED <<row, job, object, deleting, deleted>> /\ acked' = acked
          /\ pc'[s] = "idle"
          /\ multipart' = IF multipart = "open" THEN "closed" ELSE multipart
      BY <1>a, <1>2, BucketFrame DEF Unmake, Bucket, AbortMultipart
    <2> QED
      BY <1>a, <1>b, <2>1
  <1>3. CASE Transfer(s)
    <2>1. /\ pc[s] = "transfer"
          /\ UNCHANGED <<row, job, deleting, deleted>> /\ acked' = acked
          /\ pc'[s] \in {"verify", "stat", "idle"}
          /\ (pc'[s] # "idle" => seen'[s] = seen[s])
      <3>1. CASE Only(s, "stat") \/ Only(s, "idle")
        BY <1>a, <1>3, <3>1, OnlyFrame DEF Transfer, Quiet
      <3>2. CASE Resume(s, seen[s], "verify") /\ UNCHANGED <<row, job, expired, faults>>
        BY <1>a, <1>3, <3>2, BucketFrame DEF Transfer
      <3>3. CASE Resume(s, seen[s], "stat") /\ UNCHANGED <<row, job, expired>>
        BY <1>a, <1>3, <3>3, BucketFrame DEF Transfer
      <3> QED
        BY <1>3, <3>1, <3>2, <3>3 DEF Transfer, Bucket
    <2>2. \/ multipart = "open" /\ multipart' = "closed" /\ object' \in Bytes
          \/ UNCHANGED <<multipart, object>>
      BY <1>3 DEF Transfer, Bucket, Publish, Assembled, Bytes, LoseCompletion, Only, storeVars
    <2> QED
      BY <1>a, <1>b, <2>1, <2>2
  <1>4. CASE Discard(s)
    <2>1. /\ UNCHANGED <<row, job, multipart, deleting, deleted>> /\ acked' = acked
          /\ pc[s] = "discard" /\ pc'[s] = "idle" /\ object' = "missing"
      BY <1>a, <1>4, BucketFrame DEF Discard, Bucket, DeleteObject
    <2> QED
      BY <1>a, <1>b, <2>1
  <1>5. CASE CleanParts(s)
    <2>1. /\ UNCHANGED <<row, job, object, deleting, deleted>> /\ acked' = acked
          /\ pc[s] = "clean_parts" /\ pc'[s] = "clean_object"
          /\ multipart' = IF multipart = "open" THEN "closed" ELSE multipart
      BY <1>a, <1>5, BucketFrame DEF CleanParts, Bucket, AbortMultipart
    <2> QED
      BY <1>a, <1>b, <2>1
  <1>6. CASE CleanObject(s)
    <2>1. /\ UNCHANGED <<row, job, multipart, deleting, deleted>> /\ acked' = acked
          /\ pc[s] = "clean_object" /\ pc'[s] = "clean_mark" /\ object' = "missing"
      BY <1>a, <1>6, BucketFrame DEF CleanObject, Bucket, DeleteObject
    <2> QED
      BY <1>a, <1>b, <2>1
  <1> QED
    BY <1>1, <1>2, <1>3, <1>4, <1>5, <1>6

LEMMA OutsideSteps ==
  ASSUME IInv, Outside \/ UNCHANGED vars
  PROVE  /\ Steady /\ Global' /\ Moves
         /\ row.status = "absent" => row'.status = "absent"
         /\ UNCHANGED <<pc, seen>>
  <1> USE DEF Steady, RowFits, JobOnlyFromVerified, CleanedMeansEmpty, AckedIsCompleted,
              Sealed, CleanupPending, Global, Moves, clientVars
  <1>a. /\ TypeOK /\ row \in Rows
        /\ job \in BOOLEAN /\ deleted \in BOOLEAN /\ acked \in BOOLEAN /\ deleting \in BOOLEAN
        /\ row.cleaned \in BOOLEAN /\ row.job \in BOOLEAN
        /\ multipart \in {"none", "open", "closed"}
    BY DEF IInv, TypeOK, StoreTypeOK, Rows
  <1>b. Global
    BY DEF IInv
  <1>1. CASE ClientPut
    <2>1. UNCHANGED <<row, job, multipart, object, pc, seen, acked, deleting, deleted>>
      BY <1>1 DEF ClientPut, PutPart
    <2> QED
      BY <1>a, <1>b, <2>1
  <1>2. CASE LateCompletion
    <2>1. /\ UNCHANGED <<row, job, pc, seen, acked, deleting, deleted>>
          /\ \/ multipart = "open" /\ multipart' = "closed" /\ object' \in Bytes
             \/ UNCHANGED <<multipart, object>>
      BY <1>2 DEF LateCompletion, LandCompletion, Publish, Assembled, Bytes
    <2> QED
      BY <1>a, <1>b, <2>1
  <1>3. CASE Tick
    <2>1. UNCHANGED <<row, job, multipart, object, pc, seen, acked, deleting, deleted>>
      BY <1>3 DEF Tick, storeVars
    <2> QED
      BY <1>a, <1>b, <2>1
  <1>4. CASE DeleteSource
    <2>1. /\ UNCHANGED <<row, job, multipart, pc, seen, acked>> /\ job
          /\ object' \in {object, "missing"}
          /\ deleted' = TRUE
      BY <1>4 DEF DeleteSource, DeleteObject, storeVars
    <2> QED
      BY <1>a, <1>b, <2>1
  <1>5. CASE DeleteRow
    <2>1. /\ row'.status = row.status /\ row'.digest = row.digest
          /\ row'.cleaned = row.cleaned
          /\ job' = FALSE /\ deleting' = FALSE
          /\ UNCHANGED <<multipart, object, pc, seen, acked, deleted>>
      BY <1>a, <1>5 DEF DeleteRow, storeVars, Rows
    <2> QED
      BY <1>a, <1>b, <2>1
  <1>6. CASE DeleteCrash
    <2>1. /\ UNCHANGED <<row, job, multipart, object, pc, seen, acked, deleted>>
          /\ ~deleting'
      BY <1>6 DEF DeleteCrash, storeVars
    <2> QED
      BY <1>a, <1>b, <2>1
  <1>7. CASE UNCHANGED vars
    <2>1. UNCHANGED <<row, job, multipart, object, pc, seen, acked, deleting, deleted>>
      BY <1>7 DEF vars, storeVars
    <2> QED
      BY <1>a, <1>b, <2>1
  <1> QED
    BY <1>1, <1>2, <1>3, <1>4, <1>5, <1>6, <1>7 DEF Outside

LEMMA HandlerSteps ==
  ASSUME IInv, NEW s \in Servers, Handler(s)
  PROVE  /\ Own(s)
         /\ \A t \in Servers \ {s} : pc'[t] = pc[t] /\ seen'[t] = seen[t]
  <1>1. Own(s)
    BY QuietSteps, WritingSteps, BucketSteps DEF Handler, Start, Continue
  <1>2. /\ \E label : pc' = [pc EXCEPT ![s] = label]
        /\ \E u : seen' = [seen EXCEPT ![s] = u]
    <2>1. CASE Start(s)
      BY <2>1 DEF Start, CreateUpload, ReadComplete, ReadTouch, ReadAbort, ReadSweep,
                  Bucket, Resume
    <2>2. CASE \/ InsertRow(s) \/ Unmake(s) \/ ListParts(s) \/ ReadClaimed(s) \/ Transfer(s)
               \/ ReadValidated(s) \/ ReadOutrun(s) \/ Discard(s) \/ ReadFinalized(s)
               \/ CreateJob(s) \/ Reread(s) \/ CleanParts(s) \/ CleanObject(s)
               \/ InsertFails(s) \/ Fail(s)
      BY <2>2 DEF InsertRow, Unmake, ListParts, ReadClaimed, Transfer, ReadValidated,
                  ReadOutrun, Discard, ReadFinalized, CreateJob, Reread, CleanParts,
                  CleanObject, InsertFails, Fail, Bucket, Only, Answer, Resume
    <2>3. CASE \/ Claim(s) \/ Reject(s) \/ Validate(s) \/ Finalize(s) \/ Finish(s)
               \/ Expire(s) \/ Abort(s) \/ CleanMark(s)
               \/ Stat(s) \/ Verify(s) \/ ReadFinished(s)
      BY <2>3 DEF Claim, Reject, Validate, Finalize, Finish, Expire, Abort, CleanMark,
                  Stat, Verify, ReadFinished, CompareAndSet, Only, Resume
    <2> QED
      BY <2>1, <2>2, <2>3 DEF Handler, Continue
  <1> QED
    BY <1>1, <1>2 DEF IInv, TypeOK

LEMMA InductiveStep == IInv /\ [Next]_vars => IInv'
  <1> SUFFICES ASSUME IInv, [Next]_vars PROVE IInv'
    OBVIOUS
  <1>1. TypeOK'
    BY TypeStep DEF IInv
  (* A handler that stood still fits a world that moved steadily. *)
  <1>2. ASSUME Steady, NEW t \in Servers, pc'[t] = pc[t], seen'[t] = seen[t],
               pc[t] = "insert" /\ row.status = "absent" => row'.status = "absent"
        PROVE  CopyFits(t)' /\ WorldFits(t)'
    <2>1. CopyFits(t) /\ WorldFits(t) /\ RowFits
      BY DEF IInv
    <2> QED
      BY <1>2, <2>1 DEF Steady, CopyFits, WorldFits, RowFits, Sealed, Cleaning
  <1>3. CASE Outside \/ UNCHANGED vars
    <2>1. /\ Steady /\ Global' /\ UNCHANGED <<pc, seen>>
          /\ row.status = "absent" => row'.status = "absent"
      BY <1>3, OutsideSteps
    <2>2. OneCreator'
      BY <2>1 DEF IInv, OneCreator
    <2>3. \A t \in Servers : CopyFits(t)' /\ WorldFits(t)'
      BY <1>2, <2>1
    <2> QED
      BY <1>1, <2>1, <2>2, <2>3 DEF IInv, Global
  <1>4. ASSUME NEW s \in Servers, Handler(s) PROVE IInv'
    <2>1. Own(s) /\ \A t \in Servers \ {s} : pc'[t] = pc[t] /\ seen'[t] = seen[t]
      BY <1>4, HandlerSteps
    <2>2. ASSUME NEW t \in Servers \ {s}, pc[t] = "insert"
          PROVE  pc[s] # "insert" /\ multipart # "none"
      BY <2>2 DEF IInv, OneCreator, WorldFits
    <2>3. ASSUME NEW t \in Servers \ {s} PROVE CopyFits(t)' /\ WorldFits(t)'
      BY <1>2, <2>1, <2>2, <2>3 DEF Own
    <2>4. OneCreator'
      BY <2>1, <2>2 DEF OneCreator, Own, IInv
    <2>5. \A t \in Servers : CopyFits(t)' /\ WorldFits(t)'
      BY <2>1, <2>3 DEF Own
    <2> QED
      BY <1>1, <2>1, <2>4, <2>5 DEF IInv, Own, Global
  <1> QED
    BY <1>3, <1>4 DEF Next

THEOREM UploadInductive == Spec => []IInv
  <1>1. Init => IInv
    <2> SUFFICES ASSUME Init PROVE IInv
      OBVIOUS
    <2>1. TypeOK
      BY InitTypes
    <2>2. row.status = "absent" /\ row.digest = "none" /\ ~row.cleaned
      BY DEF Init, NoRow
    <2>3. \A s \in Servers : pc[s] = "idle"
      BY DEF Init
    <2> QED
      BY <2>1, <2>2, <2>3 DEF Init, StoreInit, IInv, CopyFits, WorldFits, OneCreator, RowFits,
         JobOnlyFromVerified, CleanedMeansEmpty, AckedIsCompleted, Sealed, Cleaning
  <1> QED
    BY <1>1, InductiveStep, PTL DEF Spec

(* No job without verified media, for any number of servers, parts and faults: *)
(* complete_upload's chain of compare-and-sets is enough.                      *)
THEOREM UploadJobVerified == Spec => []JobOnlyFromVerified
  <1>1. IInv => JobOnlyFromVerified
    BY DEF IInv
  <1> QED
    BY <1>1, UploadInductive, PTL

(* Expiry, abort, cleanup and outrun validations never take the media of a     *)
(* sealed session.                                                             *)
THEOREM UploadMediaKept == Spec => []SealedMediaKept
  <1>1. IInv => SealedMediaKept
    BY DEF IInv, RowFits, SealedMediaKept, Sealed
  <1> QED
    BY <1>1, UploadInductive, PTL

(* cleanup_completed_at is never written over storage that is, or can become,  *)
(* occupied again.                                                             *)
THEOREM UploadCleaned == Spec => []CleanedMeansEmpty
  <1>1. IInv => CleanedMeansEmpty
    BY DEF IInv
  <1> QED
    BY <1>1, UploadInductive, PTL

(* An acknowledged completion is never taken back.                             *)
THEOREM UploadAcked == Spec => []AckedIsCompleted
  <1>1. IInv => AckedIsCompleted
    BY DEF IInv
  <1> QED
    BY <1>1, UploadInductive, PTL

-----------------------------------------------------------------------------
(* Every step is one of Moves, so the row follows Edges and the session keeps  *)
(* UploadPromise.                                                              *)

LEMMA EveryStepMoves == IInv /\ [Next]_vars => Moves
  <1> SUFFICES ASSUME IInv, [Next]_vars PROVE Moves
    OBVIOUS
  <1>1. CASE Outside \/ UNCHANGED vars
    BY <1>1, OutsideSteps
  <1>2. ASSUME NEW s \in Servers, Handler(s) PROVE Moves
    BY <1>2, HandlerSteps DEF Own
  <1> QED
    BY <1>1, <1>2 DEF Next

(* A session moves along the status machine of complete_upload, abort_upload   *)
(* and the sweeper, whatever the servers race.                                 *)
THEOREM UploadStatusOrder == Spec => StatusFollowsEdges
  <1>1. IInv /\ [Next]_vars
          => [row'.status # row.status => <<row.status, row'.status>> \in Edges]_vars
    BY EveryStepMoves DEF Moves
  <1> QED
    BY <1>1, UploadInductive, PTL DEF Spec, StatusFollowsEdges

LEMMA MovesArePromised ==
  ASSUME IInv, Moves
  PROVE  [Promise!Next]_(Promise!vars)
  <1>a. /\ RowFits /\ JobOnlyFromVerified /\ CleanedMeansEmpty
        /\ row.cleaned \in BOOLEAN /\ job \in BOOLEAN /\ deleted \in BOOLEAN
        /\ object \in Bytes \union {"missing"}
    BY DEF IInv, TypeOK, StoreTypeOK, Rows
  <1> USE <1>a DEF RowFits, JobOnlyFromVerified, CleanedMeansEmpty, CleanupPending, Sealed
  <1>1. CASE /\ row'.status = row.status /\ row'.digest = row.digest
             /\ row'.cleaned = row.cleaned
             /\ UNCHANGED <<object, job>>
    BY <1>1 DEF Promise!vars
  <1>2. CASE /\ row'.status = row.status /\ row'.digest = row.digest
             /\ row'.cleaned = row.cleaned /\ UNCHANGED job
             /\ object' = "missing"
             /\ row.status \in CleanupPending \/ job
    BY <1>2 DEF Promise!Next, Promise!Discard, Promise!DeleteMedia
  <1>3. CASE /\ row'.status = row.status /\ row'.digest = row.digest
             /\ row'.cleaned = row.cleaned /\ UNCHANGED job
             /\ multipart = "open"
             /\ object' \in Bytes
    BY <1>3 DEF Promise!Next, Promise!Arrive, Bytes
  <1>4. CASE /\ row'.status = row.status /\ row'.digest = row.digest
             /\ row'.cleaned = row.cleaned /\ UNCHANGED object
             /\ job' => row.digest = "right" /\ row.status \in Sealed \union {"aborted"}
    BY <1>4 DEF Promise!Next, Promise!CreateJob, Promise!DeleteJob
  <1>5. CASE /\ row'.status = row.status /\ row'.digest = row.digest
             /\ row'.cleaned
             /\ row.status \in CleanupPending /\ object = "missing"
             /\ UNCHANGED <<object, job>>
    BY <1>5 DEF Promise!Next, Promise!Reclaim
  <1>6. CASE /\ <<row.status, row'.status>> \in Edges
             /\ \/ row'.digest = row.digest
                \/ row'.status = "validated" /\ row'.digest = "right" /\ object = "right"
             /\ row'.cleaned = row.cleaned
             /\ row'.status = "completed" => job
             /\ UNCHANGED <<object, job>>
    BY <1>6 DEF Edges, Expirable, Promise!Next, Promise!Verify, Promise!Seal,
                Promise!Complete, Promise!Close, Promise!vars
  <1> QED
    BY <1>1, <1>2, <1>3, <1>4, <1>5, <1>6 DEF Moves

(* The service implements its promise: media is verified, then sealed, then    *)
(* given a job, and given up only with the session or with the job.            *)
THEOREM UploadImplements == Spec => KeepsPromise
  <1>1. Init => Promise!Init
    BY DEF Init, StoreInit, NoRow, Promise!Init, CleanupPending
  <1>2. IInv /\ [Next]_vars => [Promise!Next]_(Promise!vars)
    BY EveryStepMoves, MovesArePromised
  <1> QED
    BY <1>1, <1>2, UploadInductive, PTL DEF Spec, KeepsPromise, Promise!Spec

=============================================================================
