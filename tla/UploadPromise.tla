--------------------------- MODULE UploadPromise ---------------------------
(***************************************************************************)
(* What the upload service promises about one session, without servers,    *)
(* versions or calls: the media is verified before it is sealed, sealed    *)
(* before a job exists, and from the sealing on it is given up only to an  *)
(* abort (which closes the session) or to the deletion of its job.         *)
(***************************************************************************)
VARIABLES
    phase,                  \* "open", "sealed", "done" or "closed"
    verified,               \* the media was read and matched its declaration
    media,                  \* what the bucket holds: "missing", "right", "wrong"
    job,                    \* the session's job exists
    reclaimed               \* the storage is declared empty

vars == <<phase, verified, media, job, reclaimed>>

Init ==
    /\ phase = "open"
    /\ verified = FALSE
    /\ media = "missing"
    /\ job = FALSE
    /\ reclaimed = FALSE

Arrive ==
    /\ media = "missing"
    /\ ~verified
    /\ ~reclaimed
    /\ media' \in {"right", "wrong"}
    /\ UNCHANGED <<phase, verified, job, reclaimed>>

Verify ==
    /\ phase = "open"
    /\ media = "right"
    /\ verified' = TRUE
    /\ UNCHANGED <<phase, media, job, reclaimed>>

Seal ==
    /\ phase = "open"
    /\ verified
    /\ media = "right"
    /\ phase' = "sealed"
    /\ UNCHANGED <<verified, media, job, reclaimed>>

CreateJob ==
    /\ phase # "open"
    /\ verified
    /\ job' = TRUE
    /\ UNCHANGED <<phase, verified, media, reclaimed>>

Complete ==
    /\ phase = "sealed"
    /\ job
    /\ phase' = "done"
    /\ UNCHANGED <<verified, media, job, reclaimed>>

Close ==
    /\ phase \in {"open", "sealed"}
    /\ phase' = "closed"
    /\ UNCHANGED <<verified, media, job, reclaimed>>

Discard ==
    /\ phase = "closed"
    /\ media' = "missing"
    /\ UNCHANGED <<phase, verified, job, reclaimed>>

Reclaim ==
    /\ phase = "closed"
    /\ media = "missing"
    /\ reclaimed' = TRUE
    /\ UNCHANGED <<phase, verified, media, job>>

DeleteMedia ==
    /\ job
    /\ media' = "missing"
    /\ UNCHANGED <<phase, verified, job, reclaimed>>

DeleteJob ==
    /\ job' = FALSE
    /\ UNCHANGED <<phase, verified, media, reclaimed>>

Next ==
    \/ Arrive    \/ Verify      \/ Seal     \/ CreateJob \/ Complete
    \/ Close     \/ Discard     \/ Reclaim  \/ DeleteMedia \/ DeleteJob

Spec == Init /\ [][Next]_vars
=============================================================================
