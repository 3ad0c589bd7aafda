---------------------------- MODULE StageLease ----------------------------
(***************************************************************************)
(* One row of job_stages under the operations of persistence/stages.py:    *)
(* claim, checkpoint, complete, fail and retry, called by deliveries that  *)
(* run concurrently, crash, lose answers and are delivered again.  Two     *)
(* deliveries may carry the same worker id, as a restarted worker does.    *)
(*                                                                         *)
(* Each operation is three database calls at most: it reads the row,       *)
(* checks what it read, writes with a compare-and-set, and reads the row   *)
(* again to answer.  Others may run between any two of them.               *)
(***************************************************************************)
EXTENDS Integers

CONSTANTS
    Deliveries,             \* task deliveries
    Workers,                \* worker ids
    MaxAttempts,            \* max_attempts
    Lease,                  \* lease_seconds
    LastMark,               \* bound on checkpoint_ms
    LastTime                \* bound on the clock

ASSUME BoundsAssumption ==
    /\ MaxAttempts \in Nat
    /\ Lease \in Nat
    /\ LastMark \in Nat
    /\ LastTime \in Nat

VARIABLES
    worker,                 \* the worker id each delivery passes, once and for all
    stage,                  \* the job_stages row
    clock,
    pc,                     \* the operation each delivery is in, past its read
    copy,                   \* the row that operation read
    since,                  \* when it read it
    held,                   \* the record each delivery was last given
    acked                   \* whom a completion was acknowledged to: worker, version

vars == <<worker, stage, clock, pc, copy, since, held, acked>>

NoWorker == "none"
ASSUME NobodyAssumption == NoWorker \notin Workers

Ops == {"claim", "checkpoint", "complete", "fail", "retry"}
Rereads == {"reread", "reread_complete"}

Stages ==
    [status: {"pending", "running", "completed", "failed"},
     attempt: 0..MaxAttempts,
     checkpoint: 0..LastMark,
     version: Nat,
     owner: Workers \union {NoWorker},
     lease: Nat,
     completer: Workers \union {NoWorker},
     predecessor: Int]

(* create: the row every stage starts from. *)
NewStage ==
    [status |-> "pending", attempt |-> 0, checkpoint |-> 0, version |-> 0,
     owner |-> NoWorker, lease |-> 0, completer |-> NoWorker, predecessor |-> -1]

TypeOK ==
    /\ worker \in [Deliveries -> Workers]
    /\ stage \in Stages
    /\ clock \in 0..LastTime
    /\ pc \in [Deliveries -> {"idle"} \union Ops \union Rereads]
    /\ copy \in [Deliveries -> Stages]
    /\ since \in [Deliveries -> 0..LastTime]
    /\ held \in [Deliveries -> Stages]
    /\ acked \subseteq Workers \X Nat

Init ==
    /\ worker \in [Deliveries -> Workers]
    /\ stage = NewStage
    /\ clock = 0
    /\ pc = [d \in Deliveries |-> "idle"]
    /\ copy = [d \in Deliveries |-> NewStage]
    /\ since = [d \in Deliveries |-> 0]
    /\ held = [d \in Deliveries |-> NewStage]
    /\ acked = {}

-----------------------------------------------------------------------------
(* Moves of one operation. *)

Live(record, time) == record.lease > time

(* store.get(job_id, stage).  A delivery reports on a stage it was given. *)
Get(d, op) ==
    /\ pc[d] = "idle"
    /\ op \in {"claim", "retry"} \/ held[d].version > 0
    /\ pc' = [pc EXCEPT ![d] = op]
    /\ copy' = [copy EXCEPT ![d] = stage]
    /\ since' = [since EXCEPT ![d] = clock]
    /\ UNCHANGED <<worker, stage, clock, held, acked>>

End(d) ==
    /\ pc' = [pc EXCEPT ![d] = "idle"]
    /\ copy' = [copy EXCEPT ![d] = NewStage]
    /\ since' = [since EXCEPT ![d] = 0]
    /\ UNCHANGED worker

(* The call raises StageConflict or RetryLimitExceeded. *)
Conflict(d) == End(d) /\ UNCHANGED <<stage, clock, held, acked>>

(* The call answers with the record. *)
Return(d, record) ==
    /\ End(d)
    /\ held' = [held EXCEPT ![d] = record]
    /\ UNCHANGED <<stage, clock>>

Unchanged(d) == stage.status = copy[d].status /\ stage.version = copy[d].version
StillLeased(d, time) == stage.owner = worker[d] /\ Live(stage, time)

(* UPDATE ... WHERE: the row as it will be if the predicates hold. *)
CompareAndSet(d, holds, new, label) ==
    IF Unchanged(d) /\ holds
    THEN /\ stage' = [new EXCEPT !.version = stage.version + 1]
         /\ pc' = [pc EXCEPT ![d] = label]
         /\ UNCHANGED <<worker, clock, copy, since, held, acked>>
    ELSE Conflict(d)

(* _now(): the time an operation works with, between its read and its write. *)
Sampled(d) == {time \in 0..LastTime : since[d] <= time /\ time <= clock}

(* _require_running_owner; _require_version against the record last given. *)
RunningOwner(d, time) ==
    /\ copy[d].status = "running"
    /\ copy[d].owner = worker[d]
    /\ Live(copy[d], time)
SameVersion(d) == copy[d].version = held[d].version

-----------------------------------------------------------------------------
(* The operations, past their read. *)

(* Mutant: the attempt limit is not looked at. *)
ClaimableUnlimited(d, time) ==
    \/ copy[d].status = "pending"
    \/ copy[d].status = "running" /\ ~Live(copy[d], time)

Claimable(d, time) ==
    /\ \/ copy[d].status = "pending"
       \/ copy[d].status = "running" /\ ~Live(copy[d], time)
    /\ copy[d].attempt < MaxAttempts

(* Already ours, or already done: the row is the answer. *)
AlreadyClaimed(d, time) == copy[d].status = "completed" \/ RunningOwner(d, time)

Claim(d) ==
    /\ pc[d] = "claim"
    /\ \E time \in Sampled(d) :
        \/ AlreadyClaimed(d, time) /\ Return(d, copy[d]) /\ UNCHANGED acked
        \/ /\ Claimable(d, time)
           /\ CompareAndSet(d, TRUE,
                [stage EXCEPT !.status = "running", !.attempt = copy[d].attempt + 1,
                              !.owner = worker[d], !.lease = time + Lease], "reread")
        \/ ~AlreadyClaimed(d, time) /\ ~Claimable(d, time) /\ Conflict(d)

(* Mutant: any later mark of the worker counts, whoever claimed the stage since. *)
CheckpointUnfenced(d, mark, time) == RunningOwner(d, time) /\ mark > copy[d].checkpoint

Checkpointable(d, mark, time) ==
    /\ RunningOwner(d, time)
    /\ mark > copy[d].checkpoint
    /\ SameVersion(d)

Checkpoint(d) ==
    /\ pc[d] = "checkpoint"
    /\ \E time \in Sampled(d), mark \in 0..LastMark :
        \/ /\ Checkpointable(d, mark, time)
           /\ CompareAndSet(d, StillLeased(d, time),
                [stage EXCEPT !.checkpoint = mark, !.lease = time + Lease], "reread")
        \/ ~Checkpointable(d, mark, time) /\ Conflict(d)

(* Mutant: a completed stage acknowledges every delivery of its worker. *)
ReplayOfAnyone(d) == copy[d].completer = worker[d]

(* The same delivery completing again is acknowledged again. *)
Replay(d) ==
    /\ copy[d].completer = worker[d]
    /\ copy[d].predecessor = held[d].version

Complete(d) ==
    /\ pc[d] = "complete"
    /\ \E time \in Sampled(d) :
        \/ /\ copy[d].status = "completed"
           /\ Replay(d)
           /\ End(d)
           /\ acked' = acked \union {<<worker[d], held[d].version>>}
           /\ UNCHANGED <<stage, clock, held>>
        \/ /\ RunningOwner(d, time)
           /\ SameVersion(d)
           /\ CompareAndSet(d, StillLeased(d, time),
                [stage EXCEPT !.status = "completed", !.owner = NoWorker, !.lease = 0,
                              !.completer = worker[d],
                              !.predecessor = copy[d].version], "reread_complete")
        \/ /\ IF copy[d].status = "completed"
              THEN ~Replay(d) ELSE ~(RunningOwner(d, time) /\ SameVersion(d))
           /\ Conflict(d)

FailStage(d) ==
    /\ pc[d] = "fail"
    /\ \E time \in Sampled(d) :
        \/ /\ RunningOwner(d, time)
           /\ SameVersion(d)
           /\ CompareAndSet(d, StillLeased(d, time),
                [stage EXCEPT !.status = "failed", !.owner = NoWorker, !.lease = 0], "reread")
        \/ ~(RunningOwner(d, time) /\ SameVersion(d)) /\ Conflict(d)

(* Mutant: a retry starts the stage over. *)
RetriedFromZero == [stage EXCEPT !.status = "pending", !.checkpoint = 0]

Retried == [stage EXCEPT !.status = "pending"]

(* Asked for by whoever was shown the stage: with its version, or an old one. *)
Retry(d) ==
    /\ pc[d] = "retry"
    /\ \/ /\ copy[d].status = "failed"
          /\ copy[d].attempt < MaxAttempts
          /\ CompareAndSet(d, TRUE, Retried, "reread")
       \/ Conflict(d)

(* A compare-and-set that won answers with the row as it is read afterwards. *)
Reread(d) ==
    /\ pc[d] = "reread"
    /\ Return(d, stage)
    /\ UNCHANGED acked

(* A delivery keeps the version it completed with, so that it can say it again. *)
RereadComplete(d) ==
    /\ pc[d] = "reread_complete"
    /\ End(d)
    /\ acked' = acked \union {<<worker[d], held[d].version>>}
    /\ UNCHANGED <<stage, clock, held>>

(* The call is cut off, its answer lost; a crash forgets the record too. *)
Cut(d) ==
    /\ pc[d] # "idle"
    /\ End(d)
    /\ \/ UNCHANGED held
       \/ held' = [held EXCEPT ![d] = NewStage]
    /\ UNCHANGED <<stage, clock, acked>>

Tick ==
    /\ clock < LastTime
    /\ clock' = clock + 1
    /\ UNCHANGED <<worker, stage, pc, copy, since, held, acked>>

Operation(d) ==
    \/ \E op \in Ops : Get(d, op)
    \/ Claim(d)     \/ Checkpoint(d) \/ Complete(d) \/ FailStage(d) \/ Retry(d)
    \/ Reread(d)    \/ RereadComplete(d)
    \/ Cut(d)

Next == Tick \/ \E d \in Deliveries : Operation(d)

Spec == Init /\ [][Next]_vars

-----------------------------------------------------------------------------
(* Properties. *)


(* Nobody writes for an attempt it was not given: a delivery that lost its     *)
(* lease, and its twin under the same worker id, cannot checkpoint, complete or*)
(* fail what another claim has taken over.                                     *)
FencedWrites ==
    [][\A d \in Deliveries, op \in {"checkpoint", "complete", "fail"} :
         pc[d] = op /\ pc'[d] \in Rereads => held[d].attempt = stage.attempt]_vars

(* What was checkpointed stays: claims after an expired lease, failures and    *)
(* retries go on from the last checkpoint.                                     *)
CheckpointKept == [][stage'.checkpoint >= stage.checkpoint]_vars

(* A stage is completed once: every acknowledgement names the one completion   *)
(* in the row, so no second delivery schedules what follows.                   *)
OneCompletion ==
    \A a \in acked : /\ stage.status = "completed"
                     /\ a = <<stage.completer, stage.predecessor>>

(* A running stage whose lease ran out can still be claimed by someone.        *)
NoOrphan ==
    stage.status = "running" /\ ~Live(stage, clock) => stage.attempt < MaxAttempts
=============================================================================
