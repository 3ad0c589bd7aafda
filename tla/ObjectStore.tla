---------------------------- MODULE ObjectStore ----------------------------
(***************************************************************************)
(* The S3/MinIO bucket behind one upload session, as object_store.py's     *)
(* S3ObjectStore drives it: one multipart upload, the parts clients PUT    *)
(* through presigned URLs, and the object that completion publishes under  *)
(* the session's key.  A part's bytes (and so its ETag) are abstracted to  *)
(* whether they are the declared ones; the object's SHA-256 matches the    *)
(* declaration exactly when every part does.                               *)
(***************************************************************************)
CONSTANT Parts              \* the part numbers 1..ceil(size / PART_SIZE_BYTES)

VARIABLES
    multipart,              \* "none", "open" or "closed" (completed or aborted)
    parts,                  \* what each part holds now
    object,                 \* what the object key holds
    inflight                \* a completion whose connection died may still land

storeVars == <<multipart, parts, object, inflight>>

Bytes == {"right", "wrong"}
PartLists == [Parts -> Bytes]

StoreTypeOK ==
    /\ multipart \in {"none", "open", "closed"}
    /\ parts \in [Parts -> Bytes \union {"missing"}]
    /\ object \in Bytes \union {"missing"}
    /\ inflight \in BOOLEAN

StoreInit ==
    /\ multipart = "none"
    /\ parts = [p \in Parts |-> "missing"]
    /\ object = "missing"
    /\ inflight = FALSE

(* The object that a part list assembles into. *)
Assembled(list) == IF \A p \in Parts : list[p] = "right" THEN "right" ELSE "wrong"

CreateMultipart ==
    /\ multipart = "none"
    /\ multipart' = "open"
    /\ UNCHANGED <<parts, object, inflight>>

(* A presigned PUT; re-sending a part number replaces the stored part. *)
PutPart(p, bytes) ==
    /\ multipart = "open"
    /\ parts' = [parts EXCEPT ![p] = bytes]
    /\ UNCHANGED <<multipart, object, inflight>>

(* CompleteMultipartUpload applies only to an open upload whose stored parts *)
(* have the ETags the request lists.                                         *)
Publish(list) ==
    /\ multipart = "open"
    /\ parts = list
    /\ multipart' = "closed"
    /\ object' = Assembled(list)
    /\ UNCHANGED parts

(* A connection error that hides whether the request will be applied. *)
LoseCompletion ==
    /\ inflight' = TRUE
    /\ UNCHANGED <<multipart, parts, object>>

(* A delayed request is applied, or dies: NoSuchUpload, InvalidPart, lost. *)
LandCompletion(list) ==
    /\ inflight
    /\ inflight' = FALSE
    /\ Publish(list) \/ UNCHANGED <<multipart, parts, object>>

(* NoSuchUpload is swallowed, so an abort of a finished upload is a no-op. *)
AbortMultipart ==
    /\ multipart' = IF multipart = "open" THEN "closed" ELSE multipart
    /\ UNCHANGED <<parts, object, inflight>>

DeleteObject ==
    /\ object' = "missing"
    /\ UNCHANGED <<multipart, parts, inflight>>
=============================================================================
