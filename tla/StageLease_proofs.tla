------------------------- MODULE StageLease_proofs -------------------------
(***************************************************************************)
(* Proofs about StageLease for any deliveries, workers and bounds.  The    *)
(* key fact: a version names one content of the row, so a delivery whose   *)
(* version is still current knows the whole row.                           *)
(***************************************************************************)
EXTENDS StageLease, TLAPS

(* A record read at some time: the row has moved on, or it is the row. *)
Known(record) ==
    /\ record.version <= stage.version
    /\ record.version = stage.version => record = stage
    /\ record.status = "completed" => record = stage

IInv ==
    /\ TypeOK
    /\ stage.version = 0 => stage = NewStage
    /\ \A d \in Deliveries : Known(copy[d]) /\ Known(held[d])
    /\ \A d \in Deliveries : pc[d] = "reread_complete" =>
            /\ stage.status = "completed"
            /\ stage.completer = worker[d]
            /\ stage.predecessor = held[d].version
    /\ OneCompletion

LEMMA NewStageType == NewStage \in Stages /\ NewStage.version = 0
  BY BoundsAssumption DEF NewStage, Stages

-----------------------------------------------------------------------------
(* Types. *)

LEMMA EndTypes ==
  ASSUME TypeOK, NEW d \in Deliveries, End(d)
  PROVE  /\ worker' = worker
         /\ pc' \in [Deliveries -> {"idle"} \union Ops \union Rereads]
         /\ copy' \in [Deliveries -> Stages]
         /\ since' \in [Deliveries -> 0..LastTime]
  BY NewStageType, BoundsAssumption DEF TypeOK, End

LEMMA ConflictTypes ==
  ASSUME TypeOK, NEW d \in Deliveries, Conflict(d)
  PROVE  TypeOK'
  BY EndTypes DEF TypeOK, Conflict

LEMMA CasTypes ==
  ASSUME TypeOK, NEW d \in Deliveries, NEW holds, NEW new, new \in Stages \/ ~Unchanged(d),
         NEW label \in Rereads, CompareAndSet(d, holds, new, label)
  PROVE  TypeOK'
  <1>1. CASE Unchanged(d) /\ holds
    <2>1. stage.version + 1 \in Nat
      BY DEF TypeOK, Stages
    <2>2. stage' \in Stages
      BY <1>1, <2>1 DEF CompareAndSet, Stages
    <2>3. pc' \in [Deliveries -> {"idle"} \union Ops \union Rereads]
      BY <1>1 DEF CompareAndSet, TypeOK
    <2> QED
      BY <1>1, <2>2, <2>3 DEF CompareAndSet, TypeOK
  <1>2. CASE ~(Unchanged(d) /\ holds)
    BY <1>2, ConflictTypes DEF CompareAndSet
  <1> QED
    BY <1>1, <1>2

LEMMA TypeStep == TypeOK /\ [Next]_vars => TypeOK'
  <1> SUFFICES ASSUME TypeOK, [Next]_vars PROVE TypeOK'
    OBVIOUS
  <1>a. /\ stage \in Stages /\ stage.version \in Nat
        /\ \A d \in Deliveries : /\ copy[d] \in Stages /\ held[d] \in Stages
                                 /\ worker[d] \in Workers
                                 /\ copy[d].attempt \in 0..MaxAttempts
                                 /\ copy[d].version \in Nat /\ held[d].version \in Nat
    BY DEF TypeOK, Stages
  <1>b. ASSUME NEW d \in Deliveries, NEW time \in Sampled(d) PROVE time + Lease \in Nat
    BY BoundsAssumption DEF Sampled
  <1>r. Rereads = {"reread", "reread_complete"}
    BY DEF Rereads
  <1>1. CASE UNCHANGED vars
    BY <1>1 DEF vars, TypeOK
  <1>2. CASE Tick
    <2>1. clock' \in 0..LastTime
      BY <1>2, BoundsAssumption DEF Tick, TypeOK
    <2> QED
      BY <1>2, <2>1 DEF Tick, TypeOK
  <1>3. ASSUME NEW d \in Deliveries, NEW op \in Ops, Get(d, op) PROVE TypeOK'
    BY <1>a, <1>3 DEF Get, TypeOK
  <1>4. ASSUME NEW d \in Deliveries, Claim(d) PROVE TypeOK'
    <2> PICK time \in Sampled(d) :
          \/ AlreadyClaimed(d, time) /\ Return(d, copy[d]) /\ UNCHANGED acked
          \/ /\ Claimable(d, time)
             /\ CompareAndSet(d, TRUE,
                  [stage EXCEPT !.status = "running", !.attempt = copy[d].attempt + 1,
                                !.owner = worker[d], !.lease = time + Lease], "reread")
          \/ ~AlreadyClaimed(d, time) /\ ~Claimable(d, time) /\ Conflict(d)
      BY <1>4 DEF Claim
    <2>1. CASE Return(d, copy[d]) /\ UNCHANGED acked
      BY <1>a, <1>4, <2>1, EndTypes DEF Return, TypeOK
    <2>2. CASE /\ Claimable(d, time)
               /\ CompareAndSet(d, TRUE,
                    [stage EXCEPT !.status = "running", !.attempt = copy[d].attempt + 1,
                                  !.owner = worker[d], !.lease = time + Lease], "reread")
      <3> DEFINE new == [stage EXCEPT !.status = "running", !.attempt = copy[d].attempt + 1,
                                      !.owner = worker[d], !.lease = time + Lease]
      <3>1. copy[d].attempt + 1 \in 0..MaxAttempts
        BY <1>a, <2>2, BoundsAssumption DEF Claimable
      <3>2. new \in Stages
        BY <1>a, <1>b, <3>1 DEF Stages
      <3>3. CompareAndSet(d, TRUE, new, "reread")
        BY <2>2
      <3> HIDE DEF new
      <3> QED
        BY <1>4, <1>r, <3>2, <3>3, CasTypes
    <2>3. CASE Conflict(d)
      BY <1>4, <2>3, ConflictTypes
    <2> QED
      BY <2>1, <2>2, <2>3
  <1>5. ASSUME NEW d \in Deliveries, Checkpoint(d) PROVE TypeOK'
    <2> PICK time \in Sampled(d), mark \in 0..LastMark :
          \/ CompareAndSet(d, StillLeased(d, time),
               [stage EXCEPT !.checkpoint = mark, !.lease = time + Lease], "reread")
          \/ Conflict(d)
      BY <1>5 DEF Checkpoint
    <2> DEFINE new == [stage EXCEPT !.checkpoint = mark, !.lease = time + Lease]
    <2>1. new \in Stages
      BY <1>a, <1>b DEF Stages
    <2>2. CompareAndSet(d, StillLeased(d, time), new, "reread") \/ Conflict(d)
      OBVIOUS
    <2> HIDE DEF new
    <2> QED
      BY <1>5, <1>r, <2>1, <2>2, CasTypes, ConflictTypes
  <1>6. ASSUME NEW d \in Deliveries, Complete(d) PROVE TypeOK'
    <2> DEFINE new == [stage EXCEPT !.status = "completed", !.owner = NoWorker, !.lease = 0,
                                    !.completer = worker[d],
                                    !.predecessor = copy[d].version]
    <2>1. new \in Stages
      <3>1. worker[d] \in Workers /\ copy[d].version \in Int /\ 0 \in Nat
        BY <1>a
      <3> QED
        BY <1>a, <3>1 DEF Stages
    <2>2. \/ /\ End(d)
             /\ acked' = acked \union {<<worker[d], held[d].version>>}
             /\ UNCHANGED <<stage, clock, held>>
          \/ \E time : CompareAndSet(d, StillLeased(d, time), new, "reread_complete")
          \/ Conflict(d)
      BY <1>6 DEF Complete
    <2> HIDE DEF new
    <2>3. CASE /\ End(d)
               /\ acked' = acked \union {<<worker[d], held[d].version>>}
               /\ UNCHANGED <<stage, clock, held>>
      BY <1>a, <1>6, <2>3, EndTypes DEF TypeOK
    <2> QED
      BY <1>6, <1>r, <2>1, <2>2, <2>3, CasTypes, ConflictTypes
  <1>7. ASSUME NEW d \in Deliveries, FailStage(d) PROVE TypeOK'
    <2> DEFINE new == [stage EXCEPT !.status = "failed", !.owner = NoWorker, !.lease = 0]
    <2>1. new \in Stages
      BY <1>a DEF Stages
    <2>2. \/ \E time : CompareAndSet(d, StillLeased(d, time), new, "reread")
          \/ Conflict(d)
      BY <1>7 DEF FailStage
    <2> HIDE DEF new
    <2> QED
      BY <1>7, <1>r, <2>1, <2>2, CasTypes, ConflictTypes
  <1>8. ASSUME NEW d \in Deliveries, Retry(d) PROVE TypeOK'
    <2>1. Retried \in Stages
      BY <1>a DEF Stages, Retried
    <2> QED
      BY <1>8, <1>r, <2>1, CasTypes, ConflictTypes DEF Retry
  <1>9. ASSUME NEW d \in Deliveries, Reread(d) PROVE TypeOK'
    BY <1>a, <1>9, EndTypes DEF Reread, Return, TypeOK
  <1>10. ASSUME NEW d \in Deliveries, RereadComplete(d) PROVE TypeOK'
    BY <1>a, <1>10, EndTypes DEF RereadComplete, TypeOK
  <1>11. ASSUME NEW d \in Deliveries, Cut(d) PROVE TypeOK'
    BY <1>a, <1>11, EndTypes, NewStageType DEF Cut, TypeOK
  <1> QED
    BY <1>1, <1>2, <1>3, <1>4, <1>5, <1>6, <1>7, <1>8, <1>9, <1>10, <1>11
    DEF Next, Operation

(* Every variable keeps its type: in particular claims and retries never go    *)
(* past the attempt limit, whatever races they lose.                           *)
THEOREM StageTypeCorrect == Spec => []TypeOK
  <1>1. Init => TypeOK
    BY NewStageType, BoundsAssumption DEF Init, TypeOK
  <1> QED
    BY <1>1, TypeStep, PTL DEF Spec

-----------------------------------------------------------------------------
(* The version names the row. *)

(* What a compare-and-set does when the copy is Known: it wins only over the   *)
(* row it read, and the row was not a completed one unless the copy was.       *)
LEMMA CasWins ==
  ASSUME TypeOK, NEW d \in Deliveries, Known(copy[d]), NEW holds, NEW new, NEW label,
         CompareAndSet(d, holds, new, label), new.version = stage.version
  PROVE  \/ Conflict(d)
         \/ /\ stage = copy[d] /\ holds
            /\ stage' = [new EXCEPT !.version = stage.version + 1]
            /\ pc' = [pc EXCEPT ![d] = label]
            /\ UNCHANGED <<worker, clock, copy, since, held, acked>>
  BY DEF CompareAndSet, Unchanged, Known

(* A step that leaves the row alone and gives only known records away.         *)
LEMMA QuietStep ==
  ASSUME IInv, stage' = stage, worker' = worker, TypeOK',
         \A d \in Deliveries : copy'[d] \in {copy[d], stage, NewStage},
         \A d \in Deliveries :
            \/ held'[d] = held[d] /\ pc'[d] \in {pc[d], "idle"} \union Ops
            \/ held'[d] \in {copy[d], stage, NewStage} /\ pc'[d] = "idle",
         \A a \in acked' \ acked : /\ stage.status = "completed"
                                   /\ a = <<stage.completer, stage.predecessor>>
  PROVE  IInv'
  <1>1. Known(NewStage) /\ Known(stage)
    BY NewStageType DEF Known, IInv, TypeOK, Stages, NewStage
  <1>2. \A d \in Deliveries : Known(copy'[d]) /\ Known(held'[d])
    BY <1>1 DEF IInv
  <1>3. \A d \in Deliveries : Known(copy[d])' /\ Known(held[d])'
    BY <1>2 DEF Known
  <1>4. OneCompletion'
    BY DEF IInv, OneCompletion
  <1>5. "reread_complete" \notin Ops \union {"idle"}
    BY DEF Ops
  <1> QED
    BY <1>3, <1>4, <1>5 DEF IInv

(* A step that writes a new row over the one its delivery knew.                *)
LEMMA WriteStep ==
  ASSUME IInv, TypeOK', NEW d \in Deliveries,
         stage.status # "completed",
         stage'.version = stage.version + 1,
         pc' = [pc EXCEPT ![d] = IF stage'.status = "completed"
                                 THEN "reread_complete" ELSE "reread"],
         stage'.status = "completed" => /\ stage'.completer = worker[d]
                                        /\ stage'.predecessor = held[d].version,
         UNCHANGED <<worker, copy, held, acked>>
  PROVE  IInv'
  <1>1. ASSUME NEW record, Known(record), record \in Stages PROVE Known(record)'
    <2>1. record.version \in Nat /\ stage.version \in Nat
      BY <1>1 DEF IInv, TypeOK, Stages
    <2> QED
      BY <1>1, <2>1 DEF Known
  <1>2. \A t \in Deliveries : Known(copy[t])' /\ Known(held[t])'
    BY <1>1 DEF IInv, TypeOK
  <1>3. stage'.version # 0
    BY DEF IInv, TypeOK, Stages
  <1>4. \A t \in Deliveries : pc[t] # "reread_complete"
    BY DEF IInv
  <1>5. \A t \in Deliveries : pc'[t] = "reread_complete" => t = d /\ stage'.status = "completed"
    BY <1>4 DEF IInv, TypeOK
  <1>6. acked = {}
    BY DEF IInv, OneCompletion
  <1> QED
    BY <1>2, <1>3, <1>5, <1>6 DEF IInv, OneCompletion

LEMMA InductiveStep == IInv /\ [Next]_vars => IInv'
  <1> SUFFICES ASSUME IInv, [Next]_vars PROVE IInv'
    OBVIOUS
  <1>a. TypeOK /\ TypeOK'
    BY TypeStep DEF IInv
  <1>b. ASSUME NEW d \in Deliveries
        PROVE  /\ Known(copy[d]) /\ Known(held[d])
               /\ copy[d] \in Stages /\ held[d] \in Stages
    BY DEF IInv, TypeOK
  <1>q. ASSUME NEW d \in Deliveries, Conflict(d) PROVE IInv'
    BY <1>a, <1>q, QuietStep DEF Conflict, End, TypeOK
  <1>1. CASE UNCHANGED vars
    BY <1>a, <1>1, QuietStep DEF vars
  <1>2. CASE Tick
    BY <1>a, <1>2, QuietStep DEF Tick
  <1>3. ASSUME NEW d \in Deliveries, NEW op \in Ops, Get(d, op) PROVE IInv'
    BY <1>a, <1>3, QuietStep DEF Get, TypeOK
  <1>4. ASSUME NEW d \in Deliveries, Claim(d) PROVE IInv'
    <2> DEFINE new(time) == [stage EXCEPT !.status = "running", !.attempt = copy[d].attempt + 1,
                                          !.owner = worker[d], !.lease = time + Lease]
    <2>1. ASSUME NEW time \in Sampled(d), Claimable(d, time),
                 CompareAndSet(d, TRUE, new(time), "reread")
          PROVE  IInv'
      <3>1. /\ new(time).version = stage.version
            /\ [new(time) EXCEPT !.version = stage.version + 1].status = "running"
            /\ [new(time) EXCEPT !.version = stage.version + 1].version = stage.version + 1
        BY <1>a DEF TypeOK, Stages
      <3>2. CompareAndSet(d, TRUE, new(time), "reread")
        BY <2>1
      <3> HIDE DEF new
      <3>3. \/ Conflict(d)
            \/ /\ stage = copy[d]
               /\ stage' = [new(time) EXCEPT !.version = stage.version + 1]
               /\ pc' = [pc EXCEPT ![d] = "reread"]
               /\ UNCHANGED <<worker, clock, copy, since, held, acked>>
        BY <1>a, <1>b, <3>1, <3>2, CasWins
      <3>4. copy[d].status # "completed"
        BY <2>1 DEF Claimable
      <3> QED
        BY <1>a, <1>q, <3>1, <3>3, <3>4, WriteStep
    <2>2. CASE Return(d, copy[d]) /\ UNCHANGED acked
      BY <1>a, <2>2, QuietStep DEF Return, End, TypeOK
    <2> QED
      BY <1>4, <1>q, <2>1, <2>2 DEF Claim
  <1>5. ASSUME NEW d \in Deliveries, Checkpoint(d) PROVE IInv'
    <2> DEFINE new(time, mark) == [stage EXCEPT !.checkpoint = mark, !.lease = time + Lease]
    <2>1. ASSUME NEW time \in Sampled(d), NEW mark, Checkpointable(d, mark, time),
                 CompareAndSet(d, StillLeased(d, time), new(time, mark), "reread")
          PROVE  IInv'
      <3>1. /\ new(time, mark).version = stage.version
            /\ [new(time, mark) EXCEPT !.version = stage.version + 1].status = stage.status
            /\ [new(time, mark) EXCEPT !.version = stage.version + 1].version
                 = stage.version + 1
        BY <1>a DEF TypeOK, Stages
      <3>2. CompareAndSet(d, StillLeased(d, time), new(time, mark), "reread")
        BY <2>1
      <3> HIDE DEF new
      <3>3. \/ Conflict(d)
            \/ /\ stage = copy[d]
               /\ stage' = [new(time, mark) EXCEPT !.version = stage.version + 1]
               /\ pc' = [pc EXCEPT ![d] = "reread"]
               /\ UNCHANGED <<worker, clock, copy, since, held, acked>>
        BY <1>a, <1>b, <3>1, <3>2, CasWins
      <3>4. copy[d].status # "completed"
        BY <2>1 DEF Checkpointable, RunningOwner
      <3> QED
        BY <1>a, <1>q, <3>1, <3>3, <3>4, WriteStep
    <2> QED
      BY <1>5, <1>q, <2>1 DEF Checkpoint
  <1>6. ASSUME NEW d \in Deliveries, Complete(d) PROVE IInv'
    <2> DEFINE new == [stage EXCEPT !.status = "completed", !.owner = NoWorker, !.lease = 0,
                                    !.completer = worker[d],
                                    !.predecessor = copy[d].version]
    <2>1. ASSUME NEW time \in Sampled(d), RunningOwner(d, time), SameVersion(d),
                 CompareAndSet(d, StillLeased(d, time), new, "reread_complete")
          PROVE  IInv'
      <3>1. /\ new.version = stage.version
            /\ LET row == [new EXCEPT !.version = stage.version + 1]
               IN  /\ row.status = "completed" /\ row.version = stage.version + 1
                   /\ row.completer = worker[d] /\ row.predecessor = copy[d].version
        BY <1>a DEF TypeOK, Stages
      <3>2. CompareAndSet(d, StillLeased(d, time), new, "reread_complete")
        BY <2>1
      <3> HIDE DEF new
      <3>3. \/ Conflict(d)
            \/ /\ stage = copy[d]
               /\ stage' = [new EXCEPT !.version = stage.version + 1]
               /\ pc' = [pc EXCEPT ![d] = "reread_complete"]
               /\ UNCHANGED <<worker, clock, copy, since, held, acked>>
        BY <1>a, <1>b, <3>1, <3>2, CasWins
      <3>4. copy[d].status # "completed" /\ copy[d].version = held[d].version
        BY <2>1 DEF RunningOwner, SameVersion
      <3> QED
        BY <1>a, <1>q, <3>1, <3>3, <3>4, WriteStep
    <2>2. CASE /\ copy[d].status = "completed" /\ Replay(d)
               /\ End(d)
               /\ acked' = acked \union {<<worker[d], held[d].version>>}
               /\ UNCHANGED <<stage, clock, held>>
      <3>1. /\ stage.status = "completed"
            /\ <<worker[d], held[d].version>> = <<stage.completer, stage.predecessor>>
        BY <1>b, <2>2 DEF Known, Replay
      <3> QED
        BY <1>a, <2>2, <3>1, QuietStep DEF End, TypeOK
    <2> QED
      BY <1>6, <1>q, <2>1, <2>2 DEF Complete
  <1>7. ASSUME NEW d \in Deliveries, FailStage(d) PROVE IInv'
    <2> DEFINE new == [stage EXCEPT !.status = "failed", !.owner = NoWorker, !.lease = 0]
    <2>1. ASSUME NEW time \in Sampled(d), RunningOwner(d, time),
                 CompareAndSet(d, StillLeased(d, time), new, "reread")
          PROVE  IInv'
      <3>1. /\ new.version = stage.version
            /\ LET row == [new EXCEPT !.version = stage.version + 1]
               IN  row.status = "failed" /\ row.version = stage.version + 1
        BY <1>a DEF TypeOK, Stages
      <3>2. CompareAndSet(d, StillLeased(d, time), new, "reread")
        BY <2>1
      <3> HIDE DEF new
      <3>3. \/ Conflict(d)
            \/ /\ stage = copy[d]
               /\ stage' = [new EXCEPT !.version = stage.version + 1]
               /\ pc' = [pc EXCEPT ![d] = "reread"]
               /\ UNCHANGED <<worker, clock, copy, since, held, acked>>
        BY <1>a, <1>b, <3>1, <3>2, CasWins
      <3>4. copy[d].status # "completed"
        BY <2>1 DEF RunningOwner
      <3> QED
        BY <1>a, <1>q, <3>1, <3>3, <3>4, WriteStep
    <2> QED
      BY <1>7, <1>q, <2>1 DEF FailStage
  <1>8. ASSUME NEW d \in Deliveries, Retry(d) PROVE IInv'
    <2>1. ASSUME copy[d].status = "failed", CompareAndSet(d, TRUE, Retried, "reread")
          PROVE  IInv'
      <3>1. /\ Retried.version = stage.version
            /\ LET row == [Retried EXCEPT !.version = stage.version + 1]
               IN  row.status = "pending" /\ row.version = stage.version + 1
        BY <1>a DEF TypeOK, Stages, Retried
      <3>2. \/ Conflict(d)
            \/ /\ stage = copy[d]
               /\ stage' = [Retried EXCEPT !.version = stage.version + 1]
               /\ pc' = [pc EXCEPT ![d] = "reread"]
               /\ UNCHANGED <<worker, clock, copy, since, held, acked>>
        BY <1>a, <1>b, <2>1, <3>1, CasWins
      <3> QED
        BY <1>a, <1>q, <2>1, <3>1, <3>2, WriteStep
    <2> QED
      BY <1>8, <1>q, <2>1 DEF Retry
  <1>9. ASSUME NEW d \in Deliveries, Reread(d) PROVE IInv'
    BY <1>a, <1>9, QuietStep DEF Reread, Return, End, TypeOK
  <1>10. ASSUME NEW d \in Deliveries, RereadComplete(d) PROVE IInv'
    <2>1. /\ stage.status = "completed"
          /\ <<worker[d], held[d].version>> = <<stage.completer, stage.predecessor>>
      BY <1>10 DEF IInv, RereadComplete
    <2> QED
      BY <1>a, <1>10, <2>1, QuietStep DEF RereadComplete, End, TypeOK
  <1>11. ASSUME NEW d \in Deliveries, Cut(d) PROVE IInv'
    BY <1>a, <1>11, QuietStep DEF Cut, End, TypeOK
  <1> QED
    BY <1>1, <1>2, <1>3, <1>4, <1>5, <1>6, <1>7, <1>8, <1>9, <1>10, <1>11
    DEF Next, Operation

THEOREM StageInductive == Spec => []IInv
  <1>1. Init => IInv
    <2> SUFFICES ASSUME Init PROVE IInv
      OBVIOUS
    <2>1. TypeOK
      BY NewStageType, BoundsAssumption DEF Init, TypeOK
    <2> QED
      BY <2>1, NewStageType DEF Init, IInv, Known, OneCompletion, NewStage
  <1> QED
    BY <1>1, InductiveStep, PTL DEF Spec

(* A stage is completed for one delivery only, for any number of deliveries,   *)
(* workers, attempts and marks.                                                *)
THEOREM StageCompletedOnce == Spec => []OneCompletion
  <1>1. IInv => OneCompletion
    BY DEF IInv
  <1> QED
    BY <1>1, StageInductive, PTL

-----------------------------------------------------------------------------
(* Action properties. *)

LEMMA FencedStep ==
  ASSUME IInv, [Next]_vars, NEW d \in Deliveries, NEW op \in {"checkpoint", "complete", "fail"},
         pc[d] = op, pc'[d] \in Rereads
  PROVE  held[d].attempt = stage.attempt
  <1>a. TypeOK /\ Known(copy[d]) /\ Known(held[d])
    BY DEF IInv
  <1>b. op \notin Rereads
    BY DEF Rereads
  <1>c. ASSUME NEW t \in Deliveries, pc' = [pc EXCEPT ![t] = "idle"] PROVE FALSE
    BY <1>a, <1>b, <1>c DEF TypeOK, Rereads
  (* The versions agree all along, so the record last given is the row. *)
  <1>d. ASSUME SameVersion(d), Unchanged(d) PROVE held[d].attempt = stage.attempt
    BY <1>a, <1>d DEF SameVersion, Unchanged, Known
  <1>1. CASE UNCHANGED vars \/ Tick
    BY <1>b, <1>1 DEF vars, Tick
  <1>2. ASSUME NEW t \in Deliveries, NEW o \in Ops, Get(t, o) PROVE FALSE
    BY <1>a, <1>b, <1>2 DEF Get, TypeOK, Ops, Rereads
  <1>3. ASSUME NEW t \in Deliveries, Reread(t) \/ RereadComplete(t) \/ Cut(t) PROVE FALSE
    BY <1>c, <1>3 DEF Reread, RereadComplete, Cut, Return, End
  <1>4. ASSUME NEW t \in Deliveries, Claim(t) \/ Retry(t) PROVE FALSE
    <2>1. pc[t] \notin {"checkpoint", "complete", "fail"}
      BY <1>4 DEF Claim, Retry
    <2>2. \E label : pc' = [pc EXCEPT ![t] = label]
      BY <1>4 DEF Claim, Retry, CompareAndSet, Conflict, Return, End
    <2> QED
      BY <1>a, <1>b, <2>1, <2>2 DEF TypeOK
  <1>5. ASSUME NEW t \in Deliveries, Checkpoint(t) \/ Complete(t) \/ FailStage(t)
        PROVE  held[d].attempt = stage.attempt
    <2>1. CASE End(t)
      BY <1>c, <2>1 DEF End
    <2>2. CASE ~End(t)
      <3>1. SameVersion(t) /\ Unchanged(t) /\ \E label : pc' = [pc EXCEPT ![t] = label]
        BY <1>5, <2>2 DEF Checkpoint, Checkpointable, Complete, FailStage, CompareAndSet,
                          Conflict
      <3>2. t = d
        BY <1>a, <1>b, <3>1 DEF TypeOK
      <3> QED
        BY <1>d, <3>1, <3>2
    <2> QED
      BY <2>1, <2>2
  <1> QED
    BY <1>1, <1>2, <1>3, <1>4, <1>5 DEF Next, Operation

(* Only the delivery of the current attempt writes: leases fence everybody     *)
(* else out, twins under the same worker id included.                          *)
THEOREM StageFenced == Spec => FencedWrites
  <1>1. IInv /\ [Next]_vars
          => [\A d \in Deliveries, op \in {"checkpoint", "complete", "fail"} :
                pc[d] = op /\ pc'[d] \in Rereads => held[d].attempt = stage.attempt]_vars
    <2> SUFFICES ASSUME IInv, [Next]_vars, NEW d \in Deliveries,
                        NEW op \in {"checkpoint", "complete", "fail"},
                        pc[d] = op, pc'[d] \in Rereads
                 PROVE  held[d].attempt = stage.attempt
      OBVIOUS
    <2> QED
      BY FencedStep
  <1> QED
    BY <1>1, StageInductive, PTL DEF Spec, FencedWrites

LEMMA CheckpointStep == IInv /\ [Next]_vars => stage'.checkpoint >= stage.checkpoint
  <1> SUFFICES ASSUME IInv, [Next]_vars PROVE stage'.checkpoint >= stage.checkpoint
    OBVIOUS
  <1>a. TypeOK /\ stage \in Stages /\ stage.checkpoint \in Nat
    BY BoundsAssumption DEF IInv, TypeOK, Stages
  <1>b. ASSUME NEW d \in Deliveries, Unchanged(d) PROVE copy[d] = stage
    BY <1>b DEF IInv, Known, Unchanged
  <1>c. CASE stage' = stage
    BY <1>a, <1>c
  <1>1. ASSUME NEW d \in Deliveries, NEW holds, NEW new, NEW label,
               CompareAndSet(d, holds, new, label),
               [new EXCEPT !.version = stage.version + 1].checkpoint = stage.checkpoint
        PROVE  stage'.checkpoint >= stage.checkpoint
    <2>1. stage' \in {stage, [new EXCEPT !.version = stage.version + 1]}
      BY <1>1 DEF CompareAndSet, Conflict
    <2>2. stage'.checkpoint = stage.checkpoint
      BY <1>1, <2>1
    <2> QED
      BY <1>a, <2>2
  <1>2. ASSUME NEW d \in Deliveries, Claim(d) PROVE stage'.checkpoint >= stage.checkpoint
    <2> DEFINE new(time) == [stage EXCEPT !.status = "running", !.attempt = copy[d].attempt + 1,
                                          !.owner = worker[d], !.lease = time + Lease]
    <2>1. \A time : [new(time) EXCEPT !.version = stage.version + 1].checkpoint
                      = stage.checkpoint
      BY <1>a DEF Stages
    <2>2. stage' = stage \/ \E time : CompareAndSet(d, TRUE, new(time), "reread")
      BY <1>2 DEF Claim, Return, Conflict
    <2> HIDE DEF new
    <2> QED
      BY <1>c, <1>1, <2>1, <2>2
  <1>3. ASSUME NEW d \in Deliveries, Checkpoint(d) PROVE stage'.checkpoint >= stage.checkpoint
    <2> PICK time \in Sampled(d), mark \in 0..LastMark :
          \/ /\ Checkpointable(d, mark, time)
             /\ CompareAndSet(d, StillLeased(d, time),
                  [stage EXCEPT !.checkpoint = mark, !.lease = time + Lease], "reread")
          \/ Conflict(d)
      BY <1>3 DEF Checkpoint
    <2>1. CASE Conflict(d)
      BY <1>c, <2>1 DEF Conflict
    <2>2. CASE ~Conflict(d)
      <3>1. /\ Unchanged(d) /\ mark > copy[d].checkpoint
            /\ stage' = [[stage EXCEPT !.checkpoint = mark, !.lease = time + Lease]
                          EXCEPT !.version = stage.version + 1]
        BY <2>2 DEF CompareAndSet, Checkpointable
      <3>2. stage'.checkpoint = mark
        BY <1>a, <3>1 DEF Stages
      <3> QED
        BY <1>a, <1>b, <3>1, <3>2
    <2> QED
      BY <2>1, <2>2
  <1>4. ASSUME NEW d \in Deliveries, Complete(d) PROVE stage'.checkpoint >= stage.checkpoint
    <2> DEFINE new == [stage EXCEPT !.status = "completed", !.owner = NoWorker, !.lease = 0,
                                    !.completer = worker[d],
                                    !.predecessor = copy[d].version]
    <2>1. [new EXCEPT !.version = stage.version + 1].checkpoint = stage.checkpoint
      BY <1>a DEF Stages
    <2>2. stage' = stage
          \/ \E time : CompareAndSet(d, StillLeased(d, time), new, "reread_complete")
      BY <1>4 DEF Complete, Conflict
    <2> HIDE DEF new
    <2> QED
      BY <1>c, <1>1, <2>1, <2>2
  <1>5. ASSUME NEW d \in Deliveries, FailStage(d) PROVE stage'.checkpoint >= stage.checkpoint
    <2> DEFINE new == [stage EXCEPT !.status = "failed", !.owner = NoWorker, !.lease = 0]
    <2>1. [new EXCEPT !.version = stage.version + 1].checkpoint = stage.checkpoint
      BY <1>a DEF Stages
    <2>2. stage' = stage \/ \E time : CompareAndSet(d, StillLeased(d, time), new, "reread")
      BY <1>5 DEF FailStage, Conflict
    <2> HIDE DEF new
    <2> QED
      BY <1>c, <1>1, <2>1, <2>2
  <1>6. ASSUME NEW d \in Deliveries, Retry(d) PROVE stage'.checkpoint >= stage.checkpoint
    <2>1. [Retried EXCEPT !.version = stage.version + 1].checkpoint = stage.checkpoint
      BY <1>a DEF Stages, Retried
    <2>2. stage' = stage \/ CompareAndSet(d, TRUE, Retried, "reread")
      BY <1>6 DEF Retry, Conflict
    <2> QED
      BY <1>c, <1>1, <2>1, <2>2
  <1> QED
    BY <1>c, <1>2, <1>3, <1>4, <1>5, <1>6
    DEF Next, Operation, Tick, Get, Reread, RereadComplete, Return, Cut, vars

(* Interrupted work resumes where it was checkpointed: no claim, failure or    *)
(* retry takes a checkpoint back.                                              *)
THEOREM StageResumes == Spec => CheckpointKept
  <1>1. IInv /\ [Next]_vars => [stage'.checkpoint >= stage.checkpoint]_vars
    BY CheckpointStep
  <1> QED
    BY <1>1, StageInductive, PTL DEF Spec, CheckpointKept
=============================================================================
