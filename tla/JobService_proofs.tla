------------------------- MODULE JobService_proofs -------------------------
(***************************************************************************)
(* Proofs about JobService for any jobs, requests, threads and number of   *)
(* pending jobs.  The units are counted by their holders; the full-match   *)
(* lane has one holder, of the one active job, or none; a running job is   *)
(* in somebody's hands; a stop that was answered is out of everybody's     *)
(* reach.                                                                  *)
(***************************************************************************)
EXTENDS JobService, FiniteSetTheorems, SequenceTheorems, TLAPS

\* Only full matches are run by the runner.
Lanes == \A r \in Request : req[r].pc \in RunSteps => req[r].job \in S3

\* Each unit taken has one holder at most.
UnitsHeld == IsFiniteSet(ShortHolders) /\ Cardinality(ShortHolders) <= taken

\* The full-match lane is free, or one holder has it for the one active job.
LaneFree == fullTaken = 0 /\ active = {} /\ \A j \in Job : FullHolders(j) = {}
LaneHeld(j, h) ==
    /\ fullTaken = 1 /\ active = {j} /\ FullHolders(j) = {h}
    /\ \A k \in Job \ {j} : FullHolders(k) = {}
OneLane == LaneFree \/ \E j \in Job : \E h \in FullHolders(j) : LaneHeld(j, h)

IInv == TypeOK /\ Lanes /\ UnitsHeld /\ OneLane
-----------------------------------------------------------------------------
(* Types *)

Short == {"reserve", "submit"}
Full == {"run_reserve", "run_submit"}

LEMMA RequestTyped ==
    ASSUME TypeOK, NEW r \in Request
    PROVE  /\ req[r] \in Requests
           /\ req[r].pc \in RequestSteps \union {"idle"}
           /\ req[r].pc # "idle" => req[r].job \in Job /\ req[r].seen \in Rows
BY DEF TypeOK, Requests, NoRequest, RequestSteps, StartSteps, RunSteps

LEMMA WorkerTyped ==
    ASSUME TypeOK, NEW w \in Worker
    PROVE  /\ worker[w] \in Works
           /\ worker[w].pc \in WorkerSteps \union {"idle"}
           /\ worker[w].pc # "idle" =>
                 /\ worker[w].run \in Executions
                 /\ worker[w].run.kind \in {"short", "full"} /\ worker[w].run.job \in Job
BY DEF TypeOK, Works, NoWork, WorkerSteps, Writes, Executions

LEMMA GotoTyped ==
    ASSUME TypeOK, NEW r \in Request, req[r].pc # "idle", NEW step \in RequestSteps, Goto(r, step)
    PROVE  /\ req' \in [Request -> Requests]
           /\ req'[r].pc = step /\ req'[r].job = req[r].job
           /\ \A q \in Request \ {r} : req'[q] = req[q]
<1>1. req[r] \in [pc: RequestSteps, job: Job, seen: Rows]
  BY DEF TypeOK, Requests, NoRequest
<1>2. [req[r] EXCEPT !.pc = step] \in [pc: RequestSteps, job: Job, seen: Rows] BY <1>1
<1>3. req' = [req EXCEPT ![r] = [req[r] EXCEPT !.pc = step]] BY DEF Goto
<1>4. req \in [Request -> Requests] BY DEF TypeOK
<1>5. req'[r] = [req[r] EXCEPT !.pc = step] BY <1>3, <1>4
<1> QED BY <1>1, <1>2, <1>3, <1>4, <1>5 DEF Requests

LEMMA GotoReadingTyped ==
    ASSUME TypeOK, NEW r \in Request, req[r].pc # "idle", NEW step \in RequestSteps,
           GotoReading(r, step)
    PROVE  /\ req' \in [Request -> Requests]
           /\ req'[r].pc = step /\ req'[r].job = req[r].job
           /\ \A q \in Request \ {r} : req'[q] = req[q]
<1>1. req[r] \in [pc: RequestSteps, job: Job, seen: Rows]
  BY DEF TypeOK, Requests, NoRequest
<1>2. PICK status \in Rows : status = job[req[r].job] BY RequestTyped DEF TypeOK
<1>3. PICK call : call = [req[r] EXCEPT !.pc = step, !.seen = status] OBVIOUS
<1>4. /\ call \in [pc: RequestSteps, job: Job, seen: Rows]
      /\ call.pc = step /\ call.job = req[r].job
  BY <1>1, <1>2, <1>3
<1>5. req' = [req EXCEPT ![r] = call] BY <1>2, <1>3 DEF GotoReading
<1>6. req \in [Request -> Requests] BY DEF TypeOK
<1> QED BY <1>4, <1>5, <1>6 DEF Requests

LEMMA AnswerTyped ==
    ASSUME TypeOK, NEW r \in Request, Answer(r)
    PROVE  /\ req' \in [Request -> Requests]
           /\ req'[r].pc = "idle"
           /\ \A q \in Request \ {r} : req'[q] = req[q]
BY DEF TypeOK, Answer, Requests, NoRequest

LEMMA ProceedTyped ==
    ASSUME TypeOK, NEW w \in Worker, worker[w].pc # "idle", NEW step \in WorkerSteps,
           Proceed(w, step)
    PROVE  /\ worker' \in [Worker -> Works]
           /\ worker'[w].pc = step /\ worker'[w].run = worker[w].run
           /\ \A v \in Worker \ {w} : worker'[v] = worker[v]
<1>1. worker[w] \in [pc: WorkerSteps, run: Executions]
  BY DEF TypeOK, Works, NoWork
<1>2. [worker[w] EXCEPT !.pc = step] \in [pc: WorkerSteps, run: Executions] BY <1>1
<1>3. worker' = [worker EXCEPT ![w] = [worker[w] EXCEPT !.pc = step]] BY DEF Proceed
<1>4. worker \in [Worker -> Works] BY DEF TypeOK
<1>5. worker'[w] = [worker[w] EXCEPT !.pc = step] BY <1>3, <1>4
<1> QED BY <1>1, <1>2, <1>3, <1>4, <1>5 DEF Works

LEMMA StepNames ==
    /\ "idle" \notin RequestSteps /\ "idle" \notin WorkerSteps
    /\ Short \subseteq RequestSteps /\ Full \subseteq RunSteps /\ RunSteps \subseteq RequestSteps
    /\ {"undo", "stop", "delete", "admit"} \subseteq RequestSteps \ RunSteps
    /\ \A s \in DOMAIN Writes : /\ Writes[s].done \in WorkerSteps
                                /\ Writes[s].refused \in WorkerSteps
                                /\ Writes[s].target \in {"stopped", "failed"}
BY DEF RequestSteps, StartSteps, RunSteps, WorkerSteps, Writes, Short, Full

LEMMA QueueTyped ==
    ASSUME TypeOK
    PROVE  /\ Len(queue) \in Nat /\ DOMAIN queue = 1..Len(queue)
           /\ \A i \in 1..Len(queue) : queue[i] \in Executions
BY LenProperties DEF TypeOK

\* An execution is appended at the end, and taken from the front.
LEMMA QueueGrows ==
    ASSUME TypeOK, NEW e \in Executions, queue' = Append(queue, e)
    PROVE  /\ queue' \in Seq(Executions)
           /\ DOMAIN queue' = 1..(Len(queue) + 1)
           /\ \A i \in 1..Len(queue) : queue'[i] = queue[i]
           /\ queue'[Len(queue) + 1] = e
BY AppendProperties, LenProperties DEF TypeOK

LEMMA QueueShrinks ==
    ASSUME TypeOK, queue # <<>>, queue' = Tail(queue)
    PROVE  /\ queue' \in Seq(Executions)
           /\ Head(queue) = queue[1] /\ Len(queue) >= 1
           /\ DOMAIN queue' = 1..(Len(queue) - 1)
           /\ \A i \in 1..(Len(queue) - 1) : queue'[i] = queue[i + 1]
<1>1. queue \in Seq(Executions) BY DEF TypeOK
<1>2. /\ Tail(queue) \in Seq(Executions) /\ Len(Tail(queue)) = Len(queue) - 1
      /\ \A i \in 1 .. Len(Tail(queue)) : Tail(queue)[i] = queue[i + 1]
  BY <1>1, HeadTailProperties
<1>3. Head(queue) = queue[1] BY <1>1
<1>4. Len(queue) >= 1 BY <1>1, EmptySeq, LenProperties
<1> QED BY <1>1, <1>2, <1>3, <1>4, LenProperties
-----------------------------------------------------------------------------
(* Who holds what *)

LEMMA InShort ==
    ASSUME NEW h
    PROVE  h \in ShortHolders <=>
              \/ \E r \in Request : h = <<"request", r>> /\ req[r].pc \in Short
              \/ \E i \in DOMAIN queue : h = <<"queued", i>> /\ queue[i].kind = "short"
              \/ \E w \in Worker : /\ h = <<"worker", w>>
                                   /\ worker[w].pc # "idle" /\ worker[w].run.kind = "short"
BY DEF ShortHolders, Short, Doing

LEMMA InFull ==
    ASSUME NEW h, NEW j
    PROVE  h \in FullHolders(j) <=>
              \/ \E r \in Request : /\ h = <<"request", r>>
                                    /\ req[r].pc \in Full /\ req[r].job = j
              \/ \E i \in DOMAIN queue : /\ h = <<"queued", i>>
                                         /\ queue[i] = [kind |-> "full", job |-> j]
              \/ \E w \in Worker : /\ h = <<"worker", w>> /\ worker[w].pc # "idle"
                                   /\ worker[w].run = [kind |-> "full", job |-> j]
BY DEF FullHolders, Full, Doing

LEMMA InShortNext ==
    ASSUME NEW h
    PROVE  h \in ShortHolders' <=>
              \/ \E r \in Request : h = <<"request", r>> /\ req'[r].pc \in Short
              \/ \E i \in DOMAIN queue' : h = <<"queued", i>> /\ queue'[i].kind = "short"
              \/ \E w \in Worker : /\ h = <<"worker", w>>
                                   /\ worker'[w].pc # "idle" /\ worker'[w].run.kind = "short"
BY DEF ShortHolders, Short, Doing

LEMMA InFullNext ==
    ASSUME NEW h, NEW j
    PROVE  h \in FullHolders(j)' <=>
              \/ \E r \in Request : /\ h = <<"request", r>>
                                    /\ req'[r].pc \in Full /\ req'[r].job = j
              \/ \E i \in DOMAIN queue' : /\ h = <<"queued", i>>
                                          /\ queue'[i] = [kind |-> "full", job |-> j]
              \/ \E w \in Worker : /\ h = <<"worker", w>> /\ worker'[w].pc # "idle"
                                   /\ worker'[w].run = [kind |-> "full", job |-> j]
BY DEF FullHolders, Full, Doing

\* One request moves.
LEMMA RequestMoves ==
    ASSUME NEW r \in Request, \A q \in Request \ {r} : req'[q] = req[q],
           UNCHANGED <<queue, worker>>
    PROVE  /\ ShortHolders' = IF req'[r].pc \in Short THEN ShortHolders \union {<<"request", r>>}
                              ELSE ShortHolders \ {<<"request", r>>}
           /\ \A j \in Job :
                 FullHolders(j)' = IF req'[r].pc \in Full /\ req'[r].job = j
                                   THEN FullHolders(j) \union {<<"request", r>>}
                                   ELSE FullHolders(j) \ {<<"request", r>>}
<1>1. ASSUME NEW h
      PROVE  h \in ShortHolders' <=> IF req'[r].pc \in Short
                                     THEN h \in ShortHolders \union {<<"request", r>>}
                                     ELSE h \in ShortHolders \ {<<"request", r>>}
  BY InShort, InShortNext
<1>2. ASSUME NEW j \in Job, NEW h
      PROVE  h \in FullHolders(j)' <=> IF req'[r].pc \in Full /\ req'[r].job = j
                                       THEN h \in FullHolders(j) \union {<<"request", r>>}
                                       ELSE h \in FullHolders(j) \ {<<"request", r>>}
  <2>1. h \in FullHolders(j) <=>
              \/ \E q \in Request : /\ h = <<"request", q>>
                                    /\ req[q].pc \in Full /\ req[q].job = j
              \/ \E i \in DOMAIN queue : /\ h = <<"queued", i>>
                                         /\ queue[i] = [kind |-> "full", job |-> j]
              \/ \E v \in Worker : /\ h = <<"worker", v>> /\ worker[v].pc # "idle"
                                   /\ worker[v].run = [kind |-> "full", job |-> j]
    BY InFull
  <2>2. h \in FullHolders(j)' <=>
              \/ \E q \in Request : /\ h = <<"request", q>>
                                    /\ req'[q].pc \in Full /\ req'[q].job = j
              \/ \E i \in DOMAIN queue : /\ h = <<"queued", i>>
                                         /\ queue[i] = [kind |-> "full", job |-> j]
              \/ \E v \in Worker : /\ h = <<"worker", v>> /\ worker[v].pc # "idle"
                                   /\ worker[v].run = [kind |-> "full", job |-> j]
    BY InFullNext
  <2>3. h = <<"request", r>> => /\ ~\E i \in DOMAIN queue : h = <<"queued", i>>
                                /\ ~\E w \in Worker : h = <<"worker", w>>
    OBVIOUS
  <2>4. CASE h = <<"request", r>> BY <2>1, <2>2, <2>3, <2>4
  <2>5. CASE h # <<"request", r>> BY <2>1, <2>2, <2>5
  <2> QED BY <2>4, <2>5
<1> QED BY <1>1, <1>2

\* One request answers and its execution is queued.
LEMMA RequestQueues ==
    ASSUME TypeOK, NEW r \in Request, \A q \in Request \ {r} : req'[q] = req[q],
           req'[r].pc = "idle", NEW e \in Executions, queue' = Append(queue, e), UNCHANGED worker
    PROVE  LET held == {<<"request", r>>}
               new == {<<"queued", Len(queue) + 1>>} IN
           /\ ShortHolders' = IF e.kind = "short" THEN (ShortHolders \ held) \union new
                              ELSE ShortHolders \ held
           /\ \A j \in Job :
                 FullHolders(j)' = IF e = [kind |-> "full", job |-> j]
                                   THEN (FullHolders(j) \ held) \union new
                                   ELSE FullHolders(j) \ held
<1> DEFINE held == {<<"request", r>>}
           new == {<<"queued", Len(queue) + 1>>}
<1>1. /\ Len(queue) \in Nat /\ DOMAIN queue = 1..Len(queue)
      /\ DOMAIN queue' = 1..(Len(queue) + 1)
      /\ \A i \in 1..Len(queue) : queue'[i] = queue[i]
      /\ queue'[Len(queue) + 1] = e
  BY QueueTyped, QueueGrows
<1>2. req'[r].pc \notin Short \union Full BY DEF Short, Full
<1>3. PICK n \in Nat : n = Len(queue) BY <1>1
<1>4. \A i : i \in DOMAIN queue' <=> i \in DOMAIN queue \/ i = n + 1 BY <1>1, <1>3
<1>5. n + 1 \notin DOMAIN queue BY <1>1, <1>3
<1>6. /\ \A i \in DOMAIN queue : queue'[i] = queue[i]
      /\ queue'[n + 1] = e
  BY <1>1, <1>3
<1>7. ASSUME NEW h
      PROVE  h \in ShortHolders' <=> \/ h \in ShortHolders /\ h # <<"request", r>>
                                     \/ e.kind = "short" /\ h = <<"queued", n + 1>>
  <2>1. h \in ShortHolders' <=>
              \/ \E q \in Request : h = <<"request", q>> /\ req'[q].pc \in Short
              \/ \E i \in DOMAIN queue' : h = <<"queued", i>> /\ queue'[i].kind = "short"
              \/ \E w \in Worker : /\ h = <<"worker", w>>
                                   /\ worker[w].pc # "idle" /\ worker[w].run.kind = "short"
    BY InShortNext
  <2>2. (\E q \in Request : h = <<"request", q>> /\ req'[q].pc \in Short) <=>
        (\E q \in Request : h = <<"request", q>> /\ req[q].pc \in Short /\ h # <<"request", r>>)
    BY <1>2
  <2>3. (\E i \in DOMAIN queue' : h = <<"queued", i>> /\ queue'[i].kind = "short") <=>
        (\/ \E i \in DOMAIN queue : h = <<"queued", i>> /\ queue[i].kind = "short"
         \/ e.kind = "short" /\ h = <<"queued", n + 1>>)
    BY <1>4, <1>6
  <2>4. h = <<"request", r>> => /\ ~\E i \in DOMAIN queue : h = <<"queued", i>>
                                /\ ~\E w \in Worker : h = <<"worker", w>>
    OBVIOUS
  <2> QED BY <2>1, <2>2, <2>3, <2>4, InShort
<1>8. ASSUME NEW j \in Job, NEW h
      PROVE  h \in FullHolders(j)' <=> \/ h \in FullHolders(j) /\ h # <<"request", r>>
                                       \/ /\ e = [kind |-> "full", job |-> j]
                                          /\ h = <<"queued", n + 1>>
  <2>1. h \in FullHolders(j)' <=>
              \/ \E q \in Request : h = <<"request", q>> /\ req'[q].pc \in Full /\ req'[q].job = j
              \/ \E i \in DOMAIN queue' : /\ h = <<"queued", i>>
                                          /\ queue'[i] = [kind |-> "full", job |-> j]
              \/ \E w \in Worker : /\ h = <<"worker", w>> /\ worker[w].pc # "idle"
                                   /\ worker[w].run = [kind |-> "full", job |-> j]
    BY InFullNext
  <2>2. (\E q \in Request : h = <<"request", q>> /\ req'[q].pc \in Full /\ req'[q].job = j) <=>
        (\E q \in Request : /\ h = <<"request", q>> /\ req[q].pc \in Full /\ req[q].job = j
                            /\ h # <<"request", r>>)
    BY <1>2
  <2>3. (\E i \in DOMAIN queue' : /\ h = <<"queued", i>>
                                  /\ queue'[i] = [kind |-> "full", job |-> j]) <=>
        (\/ \E i \in DOMAIN queue : h = <<"queued", i>> /\ queue[i] = [kind |-> "full", job |-> j]
         \/ e = [kind |-> "full", job |-> j] /\ h = <<"queued", n + 1>>)
    BY <1>4, <1>6
  <2>4. h = <<"request", r>> => /\ ~\E i \in DOMAIN queue : h = <<"queued", i>>
                                /\ ~\E w \in Worker : h = <<"worker", w>>
    OBVIOUS
  <2> QED BY <2>1, <2>2, <2>3, <2>4, InFull
<1>9. new = {<<"queued", n + 1>>} BY <1>3
<1> QED BY <1>7, <1>8, <1>9

\* One thread moves and keeps its execution.
LEMMA WorkerMoves ==
    ASSUME NEW w \in Worker, \A v \in Worker \ {w} : worker'[v] = worker[v],
           worker[w].pc # "idle", worker'[w].pc # "idle", worker'[w].run = worker[w].run,
           UNCHANGED <<req, queue>>
    PROVE  ShortHolders' = ShortHolders /\ \A j \in Job : FullHolders(j)' = FullHolders(j)
<1>1. \A h : h \in ShortHolders' <=> h \in ShortHolders BY InShort, InShortNext
<1>2. ASSUME NEW j \in Job, NEW h PROVE h \in FullHolders(j)' <=> h \in FullHolders(j)
  <2>1. h \in FullHolders(j) <=>
              \/ \E q \in Request : /\ h = <<"request", q>>
                                    /\ req[q].pc \in Full /\ req[q].job = j
              \/ \E i \in DOMAIN queue : /\ h = <<"queued", i>>
                                         /\ queue[i] = [kind |-> "full", job |-> j]
              \/ \E v \in Worker : /\ h = <<"worker", v>> /\ worker[v].pc # "idle"
                                   /\ worker[v].run = [kind |-> "full", job |-> j]
    BY InFull
  <2>2. h \in FullHolders(j)' <=>
              \/ \E q \in Request : /\ h = <<"request", q>>
                                    /\ req[q].pc \in Full /\ req[q].job = j
              \/ \E i \in DOMAIN queue : /\ h = <<"queued", i>>
                                         /\ queue[i] = [kind |-> "full", job |-> j]
              \/ \E v \in Worker : /\ h = <<"worker", v>> /\ worker'[v].pc # "idle"
                                   /\ worker'[v].run = [kind |-> "full", job |-> j]
    BY InFullNext
  <2>3. \A v \in Worker : /\ worker'[v].pc # "idle" <=> worker[v].pc # "idle"
                          /\ worker'[v].run = worker[v].run
    OBVIOUS
  <2> QED BY <2>1, <2>2, <2>3
<1> QED BY <1>1, <1>2

\* One thread has nothing more to do.
LEMMA WorkerLeaves ==
    ASSUME NEW w \in Worker, \A v \in Worker \ {w} : worker'[v] = worker[v],
           worker'[w].pc = "idle", UNCHANGED <<req, queue>>
    PROVE  /\ ShortHolders' = ShortHolders \ {<<"worker", w>>}
           /\ \A j \in Job : FullHolders(j)' = FullHolders(j) \ {<<"worker", w>>}
<1>1. \A h : h \in ShortHolders' <=> h \in ShortHolders /\ h # <<"worker", w>>
  BY InShort, InShortNext
<1>2. ASSUME NEW j \in Job, NEW h
      PROVE  h \in FullHolders(j)' <=> h \in FullHolders(j) /\ h # <<"worker", w>>
  <2>1. h \in FullHolders(j) <=>
              \/ \E q \in Request : /\ h = <<"request", q>>
                                    /\ req[q].pc \in Full /\ req[q].job = j
              \/ \E i \in DOMAIN queue : /\ h = <<"queued", i>>
                                         /\ queue[i] = [kind |-> "full", job |-> j]
              \/ \E v \in Worker : /\ h = <<"worker", v>> /\ worker[v].pc # "idle"
                                   /\ worker[v].run = [kind |-> "full", job |-> j]
    BY InFull
  <2>2. h \in FullHolders(j)' <=>
              \/ \E q \in Request : /\ h = <<"request", q>>
                                    /\ req[q].pc \in Full /\ req[q].job = j
              \/ \E i \in DOMAIN queue : /\ h = <<"queued", i>>
                                         /\ queue[i] = [kind |-> "full", job |-> j]
              \/ \E v \in Worker : /\ h = <<"worker", v>> /\ worker'[v].pc # "idle"
                                   /\ worker'[v].run = [kind |-> "full", job |-> j]
    BY InFullNext
  <2>3. h = <<"worker", w>> => /\ ~\E i \in DOMAIN queue : h = <<"queued", i>>
                               /\ ~\E q \in Request : h = <<"request", q>>
    OBVIOUS
  <2>4. CASE h = <<"worker", w>> BY <2>2, <2>3, <2>4
  <2>5. CASE h # <<"worker", w>> BY <2>1, <2>2, <2>5
  <2> QED BY <2>4, <2>5
<1> QED BY <1>1, <1>2

\* The holder of an execution when thread w takes the first of the queue.
Shift(w, h) ==
    IF h[1] # "queued" THEN h
    ELSE IF h[2] = 1 THEN <<"worker", w>> ELSE <<"queued", h[2] - 1>>

\* The executions of E that are queued or run.
UnderWay(E, h) ==
    \/ \E i \in DOMAIN queue : h = <<"queued", i>> /\ queue[i] \in E
    \/ \E v \in Worker : h = <<"worker", v>> /\ worker[v].pc # "idle" /\ worker[v].run \in E

UnderWayNext(E, h) ==
    \/ \E i \in DOMAIN queue' : h = <<"queued", i>> /\ queue'[i] \in E
    \/ \E v \in Worker : h = <<"worker", v>> /\ worker'[v].pc # "idle" /\ worker'[v].run \in E

LEMMA TakeTyped ==
    ASSUME TypeOK, NEW w \in Worker, Take(w)
    PROVE  /\ worker' \in [Worker -> Works]
           /\ worker[w].pc = "idle" /\ worker'[w].pc = "enter" /\ worker'[w].run = queue[1]
           /\ \A v \in Worker \ {w} : worker'[v] = worker[v]
           /\ queue # <<>> /\ queue' = Tail(queue) /\ queue[1] \in Executions
<1>1. queue # <<>> /\ queue' = Tail(queue) /\ worker[w].pc = "idle" BY DEF Take, Doing
<1>2. Head(queue) = queue[1] /\ 1 \in 1..Len(queue) BY <1>1, QueueShrinks, QueueTyped
<1>3. queue[1] \in Executions BY <1>2, QueueTyped
<1>4. worker' = [worker EXCEPT ![w] = [pc |-> "enter", run |-> queue[1]]] BY <1>2 DEF Take
<1>5. [pc |-> "enter", run |-> queue[1]] \in Works BY <1>3 DEF Works, WorkerSteps
<1> QED BY <1>1, <1>3, <1>4, <1>5 DEF TypeOK

LEMMA WorkerTakes ==
    ASSUME TypeOK, NEW w \in Worker, Take(w), NEW E, NEW g
    PROVE  UnderWayNext(E, g) <=> \E h : UnderWay(E, h) /\ g = Shift(w, h)
<1>1. /\ worker[w].pc = "idle" /\ worker'[w].pc = "enter" /\ worker'[w].run = queue[1]
      /\ \A v \in Worker \ {w} : worker'[v] = worker[v]
  BY TakeTyped
<1>2. PICK n \in Nat : n = Len(queue) BY QueueTyped
<1>3. /\ n >= 1 /\ DOMAIN queue = 1..n /\ DOMAIN queue' = 1..(n - 1)
      /\ \A i \in 1..(n - 1) : queue'[i] = queue[i + 1]
  BY <1>2, TakeTyped, QueueTyped, QueueShrinks
<1>4. /\ \A v : Shift(w, <<"worker", v>>) = <<"worker", v>>
      /\ Shift(w, <<"queued", 1>>) = <<"worker", w>>
      /\ \A i \in 1..n : i # 1 => Shift(w, <<"queued", i>>) = <<"queued", i - 1>>
  BY DEF Shift
<1>5. ASSUME UnderWayNext(E, g) PROVE \E h : UnderWay(E, h) /\ g = Shift(w, h)
  <2>1. CASE \E i \in DOMAIN queue' : g = <<"queued", i>> /\ queue'[i] \in E
    <3>1. PICK i \in 1..(n - 1) : g = <<"queued", i>> /\ queue'[i] \in E BY <1>3, <2>1
    <3>2. i + 1 \in 1..n /\ i + 1 # 1 /\ i + 1 - 1 = i BY <1>3
    <3>3. UnderWay(E, <<"queued", i + 1>>) BY <1>3, <3>1, <3>2 DEF UnderWay
    <3>4. Shift(w, <<"queued", i + 1>>) = <<"queued", i + 1 - 1>> BY <1>4, <3>2
    <3> QED BY <3>1, <3>2, <3>3, <3>4
  <2>2. ASSUME NEW v \in Worker, g = <<"worker", v>>, worker'[v].pc # "idle", worker'[v].run \in E
        PROVE  \E h : UnderWay(E, h) /\ g = Shift(w, h)
    <3>1. CASE v = w
      <4>1. 1 \in DOMAIN queue /\ queue[1] \in E BY <1>1, <1>3, <2>2, <3>1
      <4>2. UnderWay(E, <<"queued", 1>>) BY <4>1 DEF UnderWay
      <4> QED BY <1>4, <2>2, <3>1, <4>2
    <3>2. CASE v # w
      <4>1. UnderWay(E, <<"worker", v>>) BY <1>1, <2>2, <3>2 DEF UnderWay
      <4> QED BY <1>4, <2>2, <4>1
    <3> QED BY <3>1, <3>2
  <2> QED BY <1>5, <2>1, <2>2 DEF UnderWayNext
<1>6. ASSUME NEW h, UnderWay(E, h), g = Shift(w, h) PROVE UnderWayNext(E, g)
  <2>1. CASE \E i \in DOMAIN queue : h = <<"queued", i>> /\ queue[i] \in E
    <3>1. PICK i \in 1..n : h = <<"queued", i>> /\ queue[i] \in E BY <1>3, <2>1
    <3>2. CASE i = 1
      <4>1. g = <<"worker", w>> BY <1>4, <1>6, <3>1, <3>2
      <4> QED BY <1>1, <3>1, <3>2, <4>1 DEF UnderWayNext
    <3>3. CASE i # 1
      <4>1. g = <<"queued", i - 1>> BY <1>4, <1>6, <3>1, <3>3
      <4>2. i - 1 \in 1..(n - 1) /\ i - 1 + 1 = i BY <3>1, <3>3
      <4>3. queue'[i - 1] \in E BY <1>3, <3>1, <4>2
      <4> QED BY <1>3, <4>1, <4>2, <4>3 DEF UnderWayNext
    <3> QED BY <3>2, <3>3
  <2>2. ASSUME NEW v \in Worker, h = <<"worker", v>>, worker[v].pc # "idle", worker[v].run \in E
        PROVE  UnderWayNext(E, g)
    <3>1. v # w BY <1>1, <2>2
    <3>2. g = <<"worker", v>> BY <1>4, <1>6, <2>2
    <3> QED BY <1>1, <2>2, <3>1, <3>2 DEF UnderWayNext
  <2> QED BY <1>6, <2>1, <2>2 DEF UnderWay
<1> QED BY <1>5, <1>6

LEMMA TakenShort ==
    ASSUME TypeOK, NEW w \in Worker, Take(w), NEW g
    PROVE  g \in ShortHolders' <=> \E h \in ShortHolders : g = Shift(w, h)
<1> DEFINE E == {e \in Executions : e.kind = "short"}
<1>1. req' = req BY DEF Take
<1>2. \A i \in DOMAIN queue : queue[i] \in E <=> queue[i].kind = "short" BY QueueTyped
<1>3. \A v \in Worker : worker[v].pc # "idle" =>
         (worker[v].run \in E <=> worker[v].run.kind = "short")
  BY WorkerTyped
<1>4. \A i \in DOMAIN queue' : queue'[i] \in E <=> queue'[i].kind = "short"
  <2>1. queue' \in Seq(Executions) BY TakeTyped, QueueShrinks
  <2>2. \A i \in DOMAIN queue' : queue'[i] \in Executions BY <2>1, LenProperties
  <2> QED BY <2>2
<1>5. \A v \in Worker : worker'[v].pc # "idle" =>
         (worker'[v].run \in E <=> worker'[v].run.kind = "short")
  BY <1>3, TakeTyped
<1> HIDE DEF E
<1>6. \A h : h \in ShortHolders <=>
              \/ \E r \in Request : h = <<"request", r>> /\ req[r].pc \in Short
              \/ UnderWay(E, h)
  BY <1>2, <1>3, InShort DEF UnderWay
<1>7. g \in ShortHolders' <=>
              \/ \E r \in Request : g = <<"request", r>> /\ req[r].pc \in Short
              \/ UnderWayNext(E, g)
  BY <1>1, <1>4, <1>5, InShortNext DEF UnderWayNext
<1>8. \A r : Shift(w, <<"request", r>>) = <<"request", r>> BY DEF Shift
<1> QED BY <1>6, <1>7, <1>8, WorkerTakes

LEMMA TakenFull ==
    ASSUME TypeOK, NEW w \in Worker, Take(w), NEW j \in Job, NEW g
    PROVE  g \in FullHolders(j)' <=> \E h \in FullHolders(j) : g = Shift(w, h)
<1>0. PICK e : e = [kind |-> "full", job |-> j] OBVIOUS
<1> DEFINE E == {e}
<1>1. req' = req BY DEF Take
<1>2. ASSUME NEW h
      PROVE  h \in FullHolders(j) <=>
              \/ \E r \in Request : h = <<"request", r>> /\ req[r].pc \in Full /\ req[r].job = j
              \/ UnderWay(E, h)
  <2>1. h \in FullHolders(j) <=>
              \/ \E r \in Request : h = <<"request", r>> /\ req[r].pc \in Full /\ req[r].job = j
              \/ \E i \in DOMAIN queue : h = <<"queued", i>> /\ queue[i] = e
              \/ \E v \in Worker : /\ h = <<"worker", v>> /\ worker[v].pc # "idle"
                                   /\ worker[v].run = e
    BY <1>0, InFull
  <2> QED BY <2>1 DEF UnderWay
<1>3. g \in FullHolders(j)' <=>
              \/ \E r \in Request : g = <<"request", r>> /\ req[r].pc \in Full /\ req[r].job = j
              \/ UnderWayNext(E, g)
  <2>1. g \in FullHolders(j)' <=>
              \/ \E r \in Request : g = <<"request", r>> /\ req'[r].pc \in Full /\ req'[r].job = j
              \/ \E i \in DOMAIN queue' : g = <<"queued", i>> /\ queue'[i] = e
              \/ \E v \in Worker : /\ g = <<"worker", v>> /\ worker'[v].pc # "idle"
                                   /\ worker'[v].run = e
    BY <1>0, InFullNext
  <2> QED BY <1>1, <2>1 DEF UnderWayNext
<1> HIDE DEF E
<1>4. \A r : Shift(w, <<"request", r>>) = <<"request", r>> BY DEF Shift
<1>5. UnderWayNext(E, g) <=> \E h : UnderWay(E, h) /\ g = Shift(w, h) BY WorkerTakes
<1> QED BY <1>2, <1>3, <1>4, <1>5
-----------------------------------------------------------------------------
(* The units of admission *)

LEMMA UnitsKept ==
    ASSUME UnitsHeld, ShortHolders' = ShortHolders, taken' = taken
    PROVE  UnitsHeld'
BY DEF UnitsHeld

LEMMA UnitTaken ==
    ASSUME TypeOK, UnitsHeld, NEW x, ShortHolders' = ShortHolders \union {x}, taken' = taken + 1
    PROVE  UnitsHeld'
<1>1. Cardinality(ShortHolders) \in Nat BY FS_CardinalityType DEF UnitsHeld
<1>2. /\ IsFiniteSet(ShortHolders \union {x})
      /\ Cardinality(ShortHolders \union {x}) = IF x \in ShortHolders THEN Cardinality(ShortHolders)
                                                ELSE Cardinality(ShortHolders) + 1
  BY FS_AddElement DEF UnitsHeld
<1>3. taken \in Nat BY JobAssumption DEF TypeOK
<1> QED BY <1>1, <1>2, <1>3 DEF UnitsHeld

LEMMA UnitGiven ==
    ASSUME TypeOK, UnitsHeld, NEW x \in ShortHolders, ShortHolders' = ShortHolders \ {x},
           taken' \in {taken, taken - 1}
    PROVE  UnitsHeld' /\ taken' \in 0..MaxPending
<1>1. Cardinality(ShortHolders) \in Nat BY FS_CardinalityType DEF UnitsHeld
<1>2. /\ IsFiniteSet(ShortHolders \ {x})
      /\ Cardinality(ShortHolders \ {x}) = Cardinality(ShortHolders) - 1
  BY FS_RemoveElement DEF UnitsHeld
<1>3. Cardinality(ShortHolders \ {x}) \in Nat BY <1>2, FS_CardinalityType
<1>4. taken \in 0..MaxPending /\ MaxPending \in Nat BY JobAssumption DEF TypeOK
<1> QED BY <1>1, <1>2, <1>3, <1>4 DEF UnitsHeld

LEMMA UnitPassed ==
    ASSUME TypeOK, UnitsHeld, NEW x \in ShortHolders, NEW y,
           ShortHolders' = (ShortHolders \ {x}) \union {y}, taken' = taken
    PROVE  UnitsHeld'
<1>1. Cardinality(ShortHolders) \in Nat BY FS_CardinalityType DEF UnitsHeld
<1>2. /\ IsFiniteSet(ShortHolders \ {x})
      /\ Cardinality(ShortHolders \ {x}) = Cardinality(ShortHolders) - 1
  BY FS_RemoveElement DEF UnitsHeld
<1>3. /\ IsFiniteSet((ShortHolders \ {x}) \union {y})
      /\ Cardinality((ShortHolders \ {x}) \union {y}) <= Cardinality(ShortHolders)
  <2>1. PICK S : S = ShortHolders \ {x} OBVIOUS
  <2>2. IsFiniteSet(S) /\ Cardinality(S) = Cardinality(ShortHolders) - 1 BY <1>2, <2>1
  <2>3. /\ IsFiniteSet(S \union {y})
        /\ Cardinality(S \union {y}) = IF y \in S THEN Cardinality(S) ELSE Cardinality(S) + 1
    BY <2>2, FS_AddElement
  <2>4. PICK n : n = Cardinality(ShortHolders) OBVIOUS
  <2>5. n \in Nat /\ Cardinality(S) = n - 1 BY <1>1, <2>2, <2>4
  <2>6. Cardinality(S \union {y}) <= n BY <2>3, <2>5
  <2> QED BY <2>1, <2>3, <2>4, <2>6
<1>4. Cardinality(ShortHolders') \in Nat BY <1>3, FS_CardinalityType
<1>5. taken \in Nat BY JobAssumption DEF TypeOK
<1> QED BY <1>1, <1>3, <1>4, <1>5 DEF UnitsHeld

LEMMA UnitsShift ==
    ASSUME TypeOK, UnitsHeld, NEW w \in Worker, Take(w)
    PROVE  UnitsHeld'
<1> DEFINE f == [h \in ShortHolders |-> Shift(w, h)]
<1>1. f \in Surjection(ShortHolders, ShortHolders')
  <2>1. \A h \in ShortHolders : Shift(w, h) \in ShortHolders' BY TakenShort
  <2>2. \A g \in ShortHolders' : \E h \in ShortHolders : f[h] = g BY TakenShort
  <2> QED BY <2>1, <2>2 DEF Surjection
<1>2. IsFiniteSet(ShortHolders') /\ Cardinality(ShortHolders') <= Cardinality(ShortHolders)
  BY <1>1, FS_Surjection DEF UnitsHeld
<1>3. Cardinality(ShortHolders) \in Nat /\ Cardinality(ShortHolders') \in Nat
  BY <1>2, FS_CardinalityType DEF UnitsHeld
<1>4. taken' = taken /\ taken \in Nat BY JobAssumption DEF TypeOK, Take
<1> QED BY <1>2, <1>3, <1>4 DEF UnitsHeld
-----------------------------------------------------------------------------
(* The full-match lane *)

LEMMA LaneKept ==
    ASSUME OneLane, fullTaken' = fullTaken, active' = active,
           \A j \in Job : FullHolders(j)' = FullHolders(j)
    PROVE  OneLane'
BY DEF OneLane, LaneFree, LaneHeld

LEMMA LaneTaken ==
    ASSUME OneLane, NEW j \in Job, NEW h, fullTaken = 0, fullTaken' = 1,
           active' = active \union {j}, FullHolders(j)' = FullHolders(j) \union {h},
           \A k \in Job \ {j} : FullHolders(k)' = FullHolders(k) \ {h}
    PROVE  OneLane'
<1>1. LaneFree BY DEF OneLane, LaneHeld
<1>2. LaneHeld(j, h)' BY <1>1 DEF LaneFree, LaneHeld
<1>3. h \in FullHolders(j)' OBVIOUS
<1> QED BY <1>2, <1>3 DEF OneLane

LEMMA LaneHolder ==
    ASSUME OneLane, NEW j \in Job, NEW h \in FullHolders(j)
    PROVE  LaneHeld(j, h)
BY DEF OneLane, LaneFree, LaneHeld

LEMMA LaneLeft ==
    ASSUME OneLane, NEW j \in Job, NEW h \in FullHolders(j), Withdraw(j),
           \A k \in Job : FullHolders(k)' = FullHolders(k) \ {h}
    PROVE  OneLane' /\ fullTaken' \in 0..1 /\ active' = {}
<1>1. LaneHeld(j, h) BY LaneHolder
<1>2. fullTaken' = 0 /\ active' = {} BY <1>1 DEF LaneHeld, Withdraw
<1>3. \A k \in Job : FullHolders(k)' = {} BY <1>1 DEF LaneHeld
<1> QED BY <1>2, <1>3 DEF OneLane, LaneFree

LEMMA LanePassed ==
    ASSUME OneLane, NEW j \in Job, NEW h \in FullHolders(j), NEW g,
           fullTaken' = fullTaken, active' = active,
           FullHolders(j)' = (FullHolders(j) \ {h}) \union {g},
           \A k \in Job \ {j} : FullHolders(k)' = FullHolders(k) \ {h}
    PROVE  OneLane'
<1>1. LaneHeld(j, h) BY LaneHolder
<1>2. LaneHeld(j, g)' BY <1>1 DEF LaneHeld
<1>3. g \in FullHolders(j)' OBVIOUS
<1> QED BY <1>2, <1>3 DEF OneLane

LEMMA LaneShift ==
    ASSUME TypeOK, OneLane, NEW w \in Worker, Take(w)
    PROVE  OneLane'
<1>1. fullTaken' = fullTaken /\ active' = active BY DEF Take
<1>2. \A j \in Job : FullHolders(j)' = {Shift(w, h) : h \in FullHolders(j)} BY TakenFull
<1>3. CASE LaneFree
  <2>1. \A j \in Job : FullHolders(j)' = {} BY <1>2, <1>3 DEF LaneFree
  <2> QED BY <1>1, <1>3, <2>1 DEF OneLane, LaneFree
<1>4. ASSUME NEW j \in Job, NEW h \in FullHolders(j), LaneHeld(j, h) PROVE OneLane'
  <2>1. FullHolders(j)' = {Shift(w, h)} BY <1>2, <1>4 DEF LaneHeld
  <2>2. \A k \in Job \ {j} : FullHolders(k)' = {} BY <1>2, <1>4 DEF LaneHeld
  <2>3. LaneHeld(j, Shift(w, h))' BY <1>1, <1>4, <2>1, <2>2 DEF LaneHeld
  <2> QED BY <2>1, <2>3 DEF OneLane
<1> QED BY <1>3, <1>4 DEF OneLane

LEMMA LaneIsOneRunner == OneLane => OneRunner
<1>1. Cardinality({}) = 0 BY FS_EmptySet
<1>2. \A x : Cardinality({x}) = 1 BY FS_Singleton
<1>3. ASSUME LaneFree PROVE OneRunner BY <1>1, <1>3 DEF LaneFree, OneRunner
<1>4. ASSUME NEW j \in Job, NEW h, LaneHeld(j, h) PROVE OneRunner
  <2>1. fullTaken = Cardinality(active) BY <1>2, <1>4 DEF LaneHeld
  <2>2. Cardinality(FullHolders(j)) = 1 BY <1>2, <1>4 DEF LaneHeld
  <2>3. \A k \in Job \ {j} : Cardinality(FullHolders(k)) = 0 BY <1>1, <1>4 DEF LaneHeld
  <2>4. active = {j} BY <1>4 DEF LaneHeld
  <2> QED BY <2>1, <2>2, <2>3, <2>4 DEF OneRunner
<1> QED BY <1>3, <1>4 DEF OneLane
-----------------------------------------------------------------------------
(* Requests *)

LEMMA RequestIn ==
    ASSUME NEW r \in Request
    PROVE  /\ <<"request", r>> \in ShortHolders <=> req[r].pc \in Short
           /\ \A j \in Job : <<"request", r>> \in FullHolders(j) <=>
                                req[r].pc \in Full /\ req[r].job = j
<1>1. \A i : <<"request", r>> # <<"queued", i>> /\ <<"request", r>> # <<"worker", i>> OBVIOUS
<1>2. <<"request", r>> \in ShortHolders <=> req[r].pc \in Short BY <1>1, InShort
<1>3. ASSUME NEW j \in Job
      PROVE  <<"request", r>> \in FullHolders(j) <=> req[r].pc \in Full /\ req[r].job = j
  BY <1>1, InFull
<1> QED BY <1>2, <1>3

LEMMA WorkerIn ==
    ASSUME NEW w \in Worker
    PROVE  /\ <<"worker", w>> \in ShortHolders <=>
                 worker[w].pc # "idle" /\ worker[w].run.kind = "short"
           /\ \A j \in Job : <<"worker", w>> \in FullHolders(j) <=>
                 worker[w].pc # "idle" /\ worker[w].run = [kind |-> "full", job |-> j]
<1>1. \A i : <<"worker", w>> # <<"queued", i>> /\ <<"worker", w>> # <<"request", i>> OBVIOUS
<1>2. <<"worker", w>> \in ShortHolders <=>
                 worker[w].pc # "idle" /\ worker[w].run.kind = "short"
  BY <1>1, InShort
<1>3. ASSUME NEW j \in Job
      PROVE  <<"worker", w>> \in FullHolders(j) <=>
                 worker[w].pc # "idle" /\ worker[w].run = [kind |-> "full", job |-> j]
  <2>1. PICK e : e = [kind |-> "full", job |-> j] OBVIOUS
  <2>2. <<"worker", w>> \in FullHolders(j) <=>
              \/ \E r \in Request : /\ <<"worker", w>> = <<"request", r>>
                                    /\ req[r].pc \in Full /\ req[r].job = j
              \/ \E i \in DOMAIN queue : <<"worker", w>> = <<"queued", i>> /\ queue[i] = e
              \/ \E v \in Worker : /\ <<"worker", w>> = <<"worker", v>> /\ worker[v].pc # "idle"
                                   /\ worker[v].run = e
    BY <2>1, InFull
  <2> QED BY <1>1, <2>1, <2>2
<1> QED BY <1>2, <1>3

LEMMA LanesMove ==
    ASSUME Lanes, NEW r \in Request, \A q \in Request \ {r} : req'[q] = req[q],
           req'[r].pc \in RunSteps => req'[r].job \in S3
    PROVE  Lanes'
BY DEF Lanes

\* A request that holds nothing moves and takes nothing.
LEMMA RequestElsewhere ==
    ASSUME IInv, NEW r \in Request, \A q \in Request \ {r} : req'[q] = req[q],
           req[r].pc \notin Short \union Full, req'[r].pc \notin Short \union Full,
           UNCHANGED <<queue, worker, taken, fullTaken, active>>
    PROVE  UnitsHeld' /\ OneLane'
<1>1. ShortHolders' = ShortHolders BY RequestMoves, RequestIn
<1>2. ASSUME NEW j \in Job PROVE FullHolders(j)' = FullHolders(j)
  <2>1. FullHolders(j)' = FullHolders(j) \ {<<"request", r>>} BY RequestMoves
  <2>2. <<"request", r>> \notin FullHolders(j) BY RequestIn
  <2> QED BY <2>1, <2>2
<1> QED BY <1>1, <1>2, UnitsKept, LaneKept DEF IInv

LEMMA BeginStep ==
    ASSUME IInv, NEW r \in Request, NEW j \in Job, NEW statuses,
           NEW step \in {"admit", "lock", "stop", "delete"}, Begin(r, j, statuses, step),
           step = "lock" => j \in S3
    PROVE  IInv'
<1>1. /\ req[r].pc = "idle"
      /\ req' = [req EXCEPT ![r] = [pc |-> step, job |-> j, seen |-> job[j]]]
      /\ UNCHANGED <<job, taken, fullTaken, active, open, queue, worker, answered, orphans,
                     restarts>>
  BY DEF Begin, At
<1>2. [pc |-> step, job |-> j, seen |-> job[j]] \in Requests
  BY DEF IInv, TypeOK, Requests, RequestSteps, StartSteps, RunSteps
<1>3. /\ req' \in [Request -> Requests] /\ \A q \in Request \ {r} : req'[q] = req[q]
      /\ req'[r].pc = step /\ req'[r].job = j
  BY <1>1, <1>2 DEF IInv, TypeOK
<1>4. TypeOK' BY <1>1, <1>3 DEF IInv, TypeOK
<1>5. Lanes' BY <1>3, LanesMove DEF IInv, RunSteps
<1>6. UnitsHeld' /\ OneLane' BY <1>1, <1>3, RequestElsewhere DEF Short, Full
<1> QED BY <1>4, <1>5, <1>6 DEF IInv

LEMMA AdmitStep ==
    ASSUME IInv, NEW r \in Request, Admit(r)
    PROVE  IInv'
<1>1. /\ req[r].pc = "admit"
      /\ UNCHANGED <<job, fullTaken, active, open, queue, worker, answered, orphans, restarts>>
  BY DEF Admit, At
<1>2. TypeOK BY DEF IInv
<1>3. CASE Room /\ taken' = taken + 1 /\ Goto(r, "reserve")
  <2>1. "reserve" \in RequestSteps /\ "reserve" \in Short /\ "reserve" \notin Full \union RunSteps
    BY DEF RequestSteps, StartSteps, RunSteps, Short, Full
  <2>2. /\ req' \in [Request -> Requests] /\ req'[r].pc = "reserve"
        /\ \A q \in Request \ {r} : req'[q] = req[q]
    BY <1>1, <1>2, <1>3, <2>1, GotoTyped
  <2>3. taken' \in 0..MaxPending BY <1>2, <1>3, JobAssumption DEF TypeOK, Room
  <2>4. TypeOK' BY <1>1, <1>2, <2>2, <2>3 DEF TypeOK
  <2>5. Lanes' BY <2>1, <2>2, LanesMove DEF IInv
  <2>6. /\ ShortHolders' = ShortHolders \union {<<"request", r>>}
        /\ \A j \in Job : FullHolders(j)' = FullHolders(j) \ {<<"request", r>>}
    BY <1>1, <2>1, <2>2, RequestMoves
  <2>7. UnitsHeld' BY <1>2, <1>3, <2>6, UnitTaken DEF IInv
  <2>8. ASSUME NEW j \in Job PROVE FullHolders(j)' = FullHolders(j)
    <3>1. <<"request", r>> \notin FullHolders(j) BY <1>1, RequestIn DEF Full
    <3> QED BY <2>6, <3>1
  <2>9. OneLane' BY <1>1, <2>8, LaneKept DEF IInv
  <2> QED BY <2>4, <2>5, <2>7, <2>9 DEF IInv
<1>4. CASE Answer(r) /\ UNCHANGED taken
  <2>1. /\ req' \in [Request -> Requests] /\ req'[r].pc = "idle"
        /\ \A q \in Request \ {r} : req'[q] = req[q]
    BY <1>2, <1>4, AnswerTyped
  <2>2. TypeOK' BY <1>1, <1>2, <1>4, <2>1 DEF TypeOK
  <2>3. Lanes' BY <2>1, LanesMove DEF IInv, RunSteps
  <2>4. UnitsHeld' /\ OneLane' BY <1>1, <1>4, <2>1, RequestElsewhere DEF Short, Full
  <2> QED BY <2>2, <2>3, <2>4 DEF IInv
<1> QED BY <1>3, <1>4 DEF Admit

\* A request gives up a unit of admission, or loses it.
LEMMA RequestDrops ==
    ASSUME IInv, NEW r \in Request, \A q \in Request \ {r} : req'[q] = req[q],
           req[r].pc \in Short, req'[r].pc \notin Short \union Full,
           taken' \in {taken, taken - 1}, UNCHANGED <<queue, worker, fullTaken, active>>
    PROVE  UnitsHeld' /\ OneLane' /\ taken' \in 0..MaxPending
<1>1. ShortHolders' = ShortHolders \ {<<"request", r>>} BY RequestMoves
<1>2. <<"request", r>> \in ShortHolders BY RequestIn
<1>3. UnitsHeld' /\ taken' \in 0..MaxPending BY <1>1, <1>2, UnitGiven DEF IInv
<1>4. ASSUME NEW j \in Job PROVE FullHolders(j)' = FullHolders(j)
  <2>1. FullHolders(j)' = FullHolders(j) \ {<<"request", r>>} BY RequestMoves
  <2>2. <<"request", r>> \notin FullHolders(j) BY RequestIn DEF Short, Full
  <2> QED BY <2>1, <2>2
<1> QED BY <1>3, <1>4, LaneKept DEF IInv

\* A request goes on with what it holds.
LEMMA RequestKeeps ==
    ASSUME IInv, NEW r \in Request, \A q \in Request \ {r} : req'[q] = req[q],
           \/ req[r].pc \in Short /\ req'[r].pc \in Short
           \/ req[r].pc \in Full /\ req'[r].pc \in Full /\ req'[r].job = req[r].job,
           UNCHANGED <<queue, worker, taken, fullTaken, active>>
    PROVE  UnitsHeld' /\ OneLane'
<1>1. Short \intersect Full = {} BY DEF Short, Full
<1>2. ShortHolders' = ShortHolders
  <2>1. ShortHolders' = IF req'[r].pc \in Short THEN ShortHolders \union {<<"request", r>>}
                        ELSE ShortHolders \ {<<"request", r>>}
    BY RequestMoves
  <2> QED BY <1>1, <2>1, RequestIn
<1>3. ASSUME NEW j \in Job PROVE FullHolders(j)' = FullHolders(j)
  <2>1. FullHolders(j)' = IF req'[r].pc \in Full /\ req'[r].job = j
                          THEN FullHolders(j) \union {<<"request", r>>}
                          ELSE FullHolders(j) \ {<<"request", r>>}
    BY RequestMoves
  <2>2. <<"request", r>> \in FullHolders(j) <=> req[r].pc \in Full /\ req[r].job = j
    BY RequestIn
  <2> QED BY <1>1, <2>1, <2>2
<1> QED BY <1>2, <1>3, UnitsKept, LaneKept DEF IInv

\* A request gives the full-match lane up.
LEMMA RequestWithdraws ==
    ASSUME IInv, NEW r \in Request, \A q \in Request \ {r} : req'[q] = req[q],
           req[r].pc \in Full, req'[r].pc \notin Short \union Full, Withdraw(req[r].job),
           UNCHANGED <<queue, worker, taken>>
    PROVE  UnitsHeld' /\ OneLane' /\ fullTaken' \in 0..1 /\ active' = {}
<1>1. ShortHolders' = ShortHolders
  <2>1. ShortHolders' = ShortHolders \ {<<"request", r>>} BY RequestMoves
  <2>2. <<"request", r>> \notin ShortHolders BY RequestIn DEF Short, Full
  <2> QED BY <2>1, <2>2
<1>2. req[r].job \in Job BY RequestTyped DEF IInv, Full
<1>3. <<"request", r>> \in FullHolders(req[r].job) BY <1>2, RequestIn
<1>4. ASSUME NEW j \in Job PROVE FullHolders(j)' = FullHolders(j) \ {<<"request", r>>}
  BY RequestMoves
<1> QED BY <1>1, <1>2, <1>3, <1>4, UnitsKept, LaneLeft DEF IInv

LEMMA ReserveStep ==
    ASSUME IInv, NEW r \in Request, Reserve(r)
    PROVE  IInv'
<1> DEFINE j == req[r].job
<1>1. /\ req[r].pc = "reserve"
      /\ UNCHANGED <<fullTaken, active, open, queue, worker, answered, orphans, restarts>>
  BY DEF Reserve, At
<1>2. TypeOK /\ j \in Job BY <1>1, RequestTyped DEF IInv
<1>3. CASE CanTransition(job[j], "running") /\ job' = [job EXCEPT ![j] = "running"]
           /\ Goto(r, "submit") /\ UNCHANGED taken
  <2>1. "submit" \in RequestSteps /\ "submit" \in Short /\ "reserve" \in Short
        /\ "submit" \notin RunSteps
    BY DEF RequestSteps, StartSteps, RunSteps, Short
  <2>2. /\ req' \in [Request -> Requests] /\ req'[r].pc = "submit"
        /\ \A q \in Request \ {r} : req'[q] = req[q]
    BY <1>1, <1>2, <1>3, <2>1, GotoTyped
  <2>3. job' \in [Job -> Rows] BY <1>2, <1>3 DEF TypeOK, Rows, JobStatus
  <2>4. TypeOK' BY <1>1, <1>2, <1>3, <2>2, <2>3 DEF TypeOK
  <2>5. Lanes' BY <2>1, <2>2, LanesMove DEF IInv
  <2>6. UnitsHeld' /\ OneLane' BY <1>1, <1>3, <2>1, <2>2, RequestKeeps
  <2> QED BY <2>4, <2>5, <2>6 DEF IInv
<1>4. CASE taken' \in {taken, taken - 1} /\ Answer(r) /\ UNCHANGED job
  <2>1. /\ req' \in [Request -> Requests] /\ req'[r].pc = "idle"
        /\ \A q \in Request \ {r} : req'[q] = req[q]
    BY <1>2, <1>4, AnswerTyped
  <2>2. UnitsHeld' /\ OneLane' /\ taken' \in 0..MaxPending
    BY <1>1, <1>4, <2>1, RequestDrops DEF Short, Full
  <2>3. TypeOK' BY <1>1, <1>2, <1>4, <2>1, <2>2 DEF TypeOK
  <2>4. Lanes' BY <2>1, LanesMove DEF IInv, RunSteps
  <2> QED BY <2>2, <2>3, <2>4 DEF IInv
<1> QED BY <1>3, <1>4 DEF Reserve

LEMMA SubmitStep ==
    ASSUME IInv, NEW r \in Request, Submit(r)
    PROVE  IInv'
<1>1. /\ req[r].pc = "submit"
      /\ UNCHANGED <<job, fullTaken, active, open, worker, answered, orphans, restarts>>
  BY DEF Submit, At
<1>2. TypeOK /\ req[r].job \in Job BY <1>1, RequestTyped DEF IInv
<1>3. CASE open /\ queue' = Append(queue, [kind |-> "short", job |-> req[r].job])
           /\ Answer(r) /\ UNCHANGED taken
  <2>1. PICK e : e = [kind |-> "short", job |-> req[r].job] OBVIOUS
  <2>2. e \in Executions /\ e.kind = "short" BY <1>2, <2>1 DEF Executions
  <2>3. /\ req' \in [Request -> Requests] /\ req'[r].pc = "idle"
        /\ \A q \in Request \ {r} : req'[q] = req[q]
    BY <1>2, <1>3, AnswerTyped
  <2>4. queue' \in Seq(Executions) BY <1>2, <1>3, <2>1, <2>2, QueueGrows
  <2>5. TypeOK' BY <1>1, <1>2, <1>3, <2>3, <2>4 DEF TypeOK
  <2>6. Lanes' BY <2>3, LanesMove DEF IInv, RunSteps
  <2>7. ShortHolders' = (ShortHolders \ {<<"request", r>>}) \union {<<"queued", Len(queue) + 1>>}
    BY <1>1, <1>2, <1>3, <2>1, <2>2, <2>3, RequestQueues
  <2>8. <<"request", r>> \in ShortHolders BY <1>1, RequestIn DEF Short
  <2>9. UnitsHeld' BY <1>2, <1>3, <2>7, <2>8, UnitPassed DEF IInv
  <2>10. ASSUME NEW j \in Job PROVE FullHolders(j)' = FullHolders(j)
    <3>1. e # [kind |-> "full", job |-> j] BY <2>1
    <3>2. FullHolders(j)' = FullHolders(j) \ {<<"request", r>>}
      BY <1>1, <1>2, <1>3, <2>1, <2>2, <2>3, <3>1, RequestQueues
    <3>3. <<"request", r>> \notin FullHolders(j) BY <1>1, RequestIn DEF Full
    <3> QED BY <3>2, <3>3
  <2>11. OneLane' BY <1>1, <2>10, LaneKept DEF IInv
  <2> QED BY <2>5, <2>6, <2>9, <2>11 DEF IInv
<1>4. CASE taken' = taken - 1 /\ GotoReading(r, "undo") /\ UNCHANGED queue
  <2>1. "undo" \in RequestSteps \ RunSteps /\ "undo" \notin Short \union Full
    BY DEF RequestSteps, StartSteps, RunSteps, Short, Full
  <2>2. /\ req' \in [Request -> Requests] /\ req'[r].pc = "undo"
        /\ \A q \in Request \ {r} : req'[q] = req[q]
    BY <1>1, <1>2, <1>4, <2>1, GotoReadingTyped
  <2>3. UnitsHeld' /\ OneLane' /\ taken' \in 0..MaxPending
    BY <1>1, <1>4, <2>1, <2>2, RequestDrops DEF Short
  <2>4. TypeOK' BY <1>1, <1>2, <1>4, <2>2, <2>3 DEF TypeOK
  <2>5. Lanes' BY <2>1, <2>2, LanesMove DEF IInv
  <2> QED BY <2>3, <2>4, <2>5 DEF IInv
<1> QED BY <1>3, <1>4 DEF Submit

\* A request that holds nothing writes the row and is done with.
LEMMA WriteAndAnswerStep ==
    ASSUME IInv, NEW r \in Request, req[r].pc \in {"undo", "run_undo", "stop", "delete"},
           Answer(r), job' \in [Job -> Rows], answered' \subseteq Job,
           UNCHANGED <<taken, fullTaken, active, open, queue, worker, orphans, restarts>>
    PROVE  IInv'
<1>1. TypeOK BY DEF IInv
<1>2. /\ req' \in [Request -> Requests] /\ req'[r].pc = "idle"
      /\ \A q \in Request \ {r} : req'[q] = req[q]
  BY <1>1, AnswerTyped
<1>3. TypeOK' BY <1>1, <1>2 DEF TypeOK
<1>4. Lanes' BY <1>2, LanesMove DEF IInv, RunSteps
<1>5. UnitsHeld' /\ OneLane' BY <1>2, RequestElsewhere DEF Short, Full
<1> QED BY <1>3, <1>4, <1>5 DEF IInv

LEMMA UndoStep ==
    ASSUME IInv, NEW r \in Request, Undo(r)
    PROVE  IInv'
<1>1. req[r].job \in Job /\ job \in [Job -> Rows] /\ answered \subseteq Job
  BY RequestTyped DEF IInv, Undo, TypeOK
<1>2. "failed" \in Rows BY DEF Rows, JobStatus, Terminal
<1>3. job' \in [Job -> Rows] BY <1>1, <1>2 DEF Undo
<1> QED BY <1>1, <1>3, WriteAndAnswerStep DEF Undo

LEMMA StopStep ==
    ASSUME IInv, NEW r \in Request, Stop(r)
    PROVE  IInv'
<1>1. req[r].pc = "stop" /\ req[r].job \in Job /\ job \in [Job -> Rows] /\ answered \subseteq Job
  BY RequestTyped DEF IInv, Stop, At, TypeOK
<1>2. {"stopped", "stopping"} \subseteq Rows BY DEF Rows, JobStatus, Terminal
<1>3. job' \in [Job -> Rows] /\ answered' \subseteq Job BY <1>1, <1>2 DEF Stop
<1> QED BY <1>1, <1>3, WriteAndAnswerStep DEF Stop

LEMMA DeleteStep ==
    ASSUME IInv, NEW r \in Request, Delete(r)
    PROVE  IInv'
<1>1. req[r].pc = "delete" /\ req[r].job \in Job /\ job \in [Job -> Rows] /\ answered \subseteq Job
  BY RequestTyped DEF IInv, Delete, At, TypeOK
<1>2. job' \in [Job -> Rows] BY <1>1 DEF Delete, Rows
<1> QED BY <1>1, <1>2, WriteAndAnswerStep DEF Delete

LEMMA LockStep ==
    ASSUME IInv, NEW r \in Request, Lock(r)
    PROVE  IInv'
<1>1. /\ req[r].pc = "lock"
      /\ UNCHANGED <<job, taken, open, queue, worker, answered, orphans, restarts>>
  BY DEF Lock, At
<1>2. TypeOK /\ req[r].job \in Job /\ req[r].job \in S3
  BY <1>1, RequestTyped DEF IInv, Lanes, RunSteps
<1>3. CASE Answer(r) /\ UNCHANGED <<fullTaken, active>>
  <2>1. /\ req' \in [Request -> Requests] /\ req'[r].pc = "idle"
        /\ \A q \in Request \ {r} : req'[q] = req[q]
    BY <1>2, <1>3, AnswerTyped
  <2>2. TypeOK' BY <1>1, <1>2, <1>3, <2>1 DEF TypeOK
  <2>3. Lanes' BY <2>1, LanesMove DEF IInv, RunSteps
  <2>4. UnitsHeld' /\ OneLane' BY <1>1, <1>3, <2>1, RequestElsewhere DEF Short, Full
  <2> QED BY <2>2, <2>3, <2>4 DEF IInv
<1>4. CASE /\ fullTaken = 0 /\ fullTaken' = 1 /\ active' = active \union {req[r].job}
           /\ Goto(r, "run_reserve")
  <2>1. "run_reserve" \in RequestSteps /\ "run_reserve" \in Full /\ "run_reserve" \notin Short
    BY DEF RequestSteps, RunSteps, Short, Full
  <2>2. /\ req' \in [Request -> Requests] /\ req'[r].pc = "run_reserve"
        /\ req'[r].job = req[r].job /\ \A q \in Request \ {r} : req'[q] = req[q]
    BY <1>1, <1>2, <1>4, <2>1, GotoTyped
  <2>3. TypeOK' BY <1>1, <1>2, <1>4, <2>2 DEF TypeOK
  <2>4. Lanes' BY <1>2, <2>2, LanesMove DEF IInv
  <2>5. ShortHolders' = ShortHolders
    <3>1. ShortHolders' = ShortHolders \ {<<"request", r>>} BY <1>1, <2>1, <2>2, RequestMoves
    <3>2. <<"request", r>> \notin ShortHolders BY <1>1, RequestIn DEF Short
    <3> QED BY <3>1, <3>2
  <2>6. UnitsHeld' BY <1>1, <2>5, UnitsKept DEF IInv
  <2>7. PICK j \in Job : j = req[r].job BY <1>2
  <2>8. FullHolders(j)' = FullHolders(j) \union {<<"request", r>>}
    BY <1>1, <2>1, <2>2, <2>7, RequestMoves
  <2>9. ASSUME NEW k \in Job \ {j} PROVE FullHolders(k)' = FullHolders(k) \ {<<"request", r>>}
    BY <1>1, <2>2, <2>7, RequestMoves
  <2>10. OneLane' BY <1>4, <2>7, <2>8, <2>9, LaneTaken DEF IInv
  <2> QED BY <2>3, <2>4, <2>6, <2>10 DEF IInv
<1> QED BY <1>3, <1>4 DEF Lock

LEMMA RunReserveStep ==
    ASSUME IInv, NEW r \in Request, RunReserve(r)
    PROVE  IInv'
<1>1. /\ req[r].pc = "run_reserve" /\ req[r].pc \in Full
      /\ UNCHANGED <<taken, open, queue, worker, answered, orphans, restarts>>
  BY DEF RunReserve, At, Full
<1>2. TypeOK /\ req[r].job \in Job /\ req[r].job \in S3
  BY <1>1, RequestTyped DEF IInv, Lanes, RunSteps
<1>3. CASE /\ job' = IF req[r].seen = "created"
                     THEN [job EXCEPT ![req[r].job] = "running"] ELSE job
           /\ Goto(r, "run_submit") /\ UNCHANGED <<fullTaken, active>>
  <2>1. "run_submit" \in RequestSteps /\ "run_submit" \in Full
    BY DEF RequestSteps, RunSteps, Full
  <2>2. /\ req' \in [Request -> Requests] /\ req'[r].pc = "run_submit"
        /\ req'[r].job = req[r].job /\ \A q \in Request \ {r} : req'[q] = req[q]
    BY <1>1, <1>2, <1>3, <2>1, GotoTyped DEF Full
  <2>3. job' \in [Job -> Rows] BY <1>2, <1>3 DEF TypeOK, Rows, JobStatus
  <2>4. TypeOK' BY <1>1, <1>2, <1>3, <2>2, <2>3 DEF TypeOK
  <2>5. Lanes' BY <1>2, <2>2, LanesMove DEF IInv
  <2>6. UnitsHeld' /\ OneLane' BY <1>1, <1>3, <2>1, <2>2, RequestKeeps
  <2> QED BY <2>4, <2>5, <2>6 DEF IInv
<1>4. CASE Withdraw(req[r].job) /\ Answer(r) /\ UNCHANGED job
  <2>1. /\ req' \in [Request -> Requests] /\ req'[r].pc = "idle"
        /\ \A q \in Request \ {r} : req'[q] = req[q]
    BY <1>2, <1>4, AnswerTyped
  <2>2. UnitsHeld' /\ OneLane' /\ fullTaken' \in 0..1 /\ active' = {}
    BY <1>1, <1>4, <2>1, RequestWithdraws DEF Short, Full
  <2>3. TypeOK' BY <1>1, <1>2, <1>4, <2>1, <2>2 DEF TypeOK
  <2>4. Lanes' BY <2>1, LanesMove DEF IInv, RunSteps
  <2> QED BY <2>2, <2>3, <2>4 DEF IInv
<1> QED BY <1>3, <1>4 DEF RunReserve

LEMMA RunSubmitStep ==
    ASSUME IInv, NEW r \in Request, RunSubmit(r)
    PROVE  IInv'
<1>1. /\ req[r].pc = "run_submit" /\ req[r].pc \in Full
      /\ UNCHANGED <<job, taken, open, worker, answered, orphans, restarts>>
  BY DEF RunSubmit, At, Full
<1>2. TypeOK /\ req[r].job \in Job /\ req[r].job \in S3
  BY <1>1, RequestTyped DEF IInv, Lanes, RunSteps
<1>3. CASE queue' = Append(queue, [kind |-> "full", job |-> req[r].job])
           /\ Answer(r) /\ UNCHANGED <<fullTaken, active>>
  <2>1. PICK j \in Job : j = req[r].job BY <1>2
  <2>2. PICK e : e = [kind |-> "full", job |-> j] OBVIOUS
  <2>3. e \in Executions /\ e.kind = "full" BY <2>1, <2>2 DEF Executions
  <2>4. /\ req' \in [Request -> Requests] /\ req'[r].pc = "idle"
        /\ \A q \in Request \ {r} : req'[q] = req[q]
    BY <1>2, <1>3, AnswerTyped
  <2>5. queue' = Append(queue, e) BY <1>3, <2>1, <2>2
  <2>6. queue' \in Seq(Executions) BY <1>2, <2>3, <2>5, QueueGrows
  <2>7. TypeOK' BY <1>1, <1>2, <1>3, <2>4, <2>6 DEF TypeOK
  <2>8. Lanes' BY <2>4, LanesMove DEF IInv, RunSteps
  <2>9. ShortHolders' = ShortHolders
    <3>1. ShortHolders' = ShortHolders \ {<<"request", r>>}
      BY <1>1, <1>2, <2>3, <2>4, <2>5, RequestQueues
    <3>2. <<"request", r>> \notin ShortHolders BY <1>1, RequestIn DEF Short
    <3> QED BY <3>1, <3>2
  <2>10. UnitsHeld' BY <1>1, <2>9, UnitsKept DEF IInv
  <2>11. FullHolders(j)' = (FullHolders(j) \ {<<"request", r>>})
                           \union {<<"queued", Len(queue) + 1>>}
    BY <1>1, <1>2, <2>2, <2>3, <2>4, <2>5, RequestQueues
  <2>12. ASSUME NEW k \in Job \ {j} PROVE FullHolders(k)' = FullHolders(k) \ {<<"request", r>>}
    <3>1. e # [kind |-> "full", job |-> k] BY <2>2
    <3> QED BY <1>1, <1>2, <2>3, <2>4, <2>5, <3>1, RequestQueues
  <2>13. <<"request", r>> \in FullHolders(j) BY <1>1, <2>1, RequestIn
  <2>14. OneLane' BY <1>3, <2>11, <2>12, <2>13, LanePassed DEF IInv
  <2> QED BY <2>7, <2>8, <2>10, <2>14 DEF IInv
<1>4. CASE Withdraw(req[r].job) /\ Goto(r, "run_check") /\ UNCHANGED queue
  <2>1. "run_check" \in RequestSteps /\ "run_check" \notin Short \union Full
    BY DEF RequestSteps, RunSteps, Short, Full
  <2>2. /\ req' \in [Request -> Requests] /\ req'[r].pc = "run_check"
        /\ req'[r].job = req[r].job /\ \A q \in Request \ {r} : req'[q] = req[q]
    BY <1>1, <1>2, <1>4, <2>1, GotoTyped
  <2>3. UnitsHeld' /\ OneLane' /\ fullTaken' \in 0..1 /\ active' = {}
    BY <1>1, <1>4, <2>1, <2>2, RequestWithdraws
  <2>4. TypeOK' BY <1>1, <1>2, <1>4, <2>2, <2>3 DEF TypeOK
  <2>5. Lanes' BY <1>2, <2>2, LanesMove DEF IInv
  <2> QED BY <2>3, <2>4, <2>5 DEF IInv
<1> QED BY <1>3, <1>4 DEF RunSubmit

LEMMA RunCheckStep ==
    ASSUME IInv, NEW r \in Request, RunCheck(r)
    PROVE  IInv'
<1>1. /\ req[r].pc = "run_check"
      /\ UNCHANGED <<job, taken, fullTaken, active, open, queue, worker, answered, orphans,
                     restarts>>
  BY DEF RunCheck, At
<1>2. TypeOK /\ req[r].job \in S3 BY <1>1 DEF IInv, Lanes, RunSteps
<1>3. "run_undo" \in RequestSteps /\ "run_undo" \notin Short \union Full
  BY DEF RequestSteps, RunSteps, Short, Full
<1>4. /\ req' \in [Request -> Requests] /\ req'[r].pc \in {"run_undo", "idle"}
      /\ req'[r].pc = "run_undo" => req'[r].job = req[r].job
      /\ \A q \in Request \ {r} : req'[q] = req[q]
  <2>1. CASE GotoReading(r, "run_undo") BY <1>1, <1>2, <1>3, <2>1, GotoReadingTyped
  <2>2. CASE Answer(r) BY <1>2, <2>2, AnswerTyped
  <2> QED BY <2>1, <2>2 DEF RunCheck
<1>5. TypeOK' BY <1>1, <1>2, <1>4 DEF TypeOK
<1>6. Lanes' BY <1>2, <1>4, LanesMove DEF IInv, RunSteps
<1>7. UnitsHeld' /\ OneLane' BY <1>1, <1>4, RequestElsewhere DEF Short, Full
<1> QED BY <1>5, <1>6, <1>7 DEF IInv
-----------------------------------------------------------------------------
(* Executions *)

\* A thread goes on with its execution, and may write its row.
LEMMA ProceedStep ==
    ASSUME IInv, NEW w \in Worker, worker[w].pc # "idle", NEW step \in WorkerSteps,
           Proceed(w, step), job' \in [Job -> Rows], UNCHANGED Rests
    PROVE  IInv'
<1>1. TypeOK BY DEF IInv
<1>2. /\ worker' \in [Worker -> Works] /\ worker'[w].pc = step
      /\ worker'[w].run = worker[w].run /\ \A v \in Worker \ {w} : worker'[v] = worker[v]
  BY <1>1, ProceedTyped
<1>3. step # "idle" BY StepNames
<1>4. TypeOK' BY <1>1, <1>2 DEF TypeOK, Rests
<1>5. Lanes' BY DEF IInv, Lanes, Rests
<1>6. ShortHolders' = ShortHolders BY <1>2, <1>3, WorkerMoves DEF Rests
<1>7. UnitsHeld' BY <1>6, UnitsKept DEF IInv, Rests
<1>8. ASSUME NEW j \in Job PROVE FullHolders(j)' = FullHolders(j)
  BY <1>2, <1>3, WorkerMoves DEF Rests
<1>9. OneLane' BY <1>8, LaneKept DEF IInv, Rests
<1> QED BY <1>4, <1>5, <1>7, <1>9 DEF IInv

LEMMA TakeStep ==
    ASSUME IInv, NEW w \in Worker, Take(w)
    PROVE  IInv'
<1>1. TypeOK BY DEF IInv
<1>2. worker' \in [Worker -> Works] /\ queue' \in Seq(Executions)
  BY <1>1, TakeTyped, QueueShrinks
<1>3. TypeOK' BY <1>1, <1>2 DEF TypeOK, Take
<1>4. Lanes' BY DEF IInv, Lanes, Take
<1> QED BY <1>1, <1>3, <1>4, UnitsShift, LaneShift DEF IInv

LEMMA LeaveStep ==
    ASSUME IInv, NEW w \in Worker, Leave(w)
    PROVE  IInv'
<1>1. /\ worker[w].pc = "leave" /\ worker' = [worker EXCEPT ![w] = NoWork]
      /\ UNCHANGED <<job, req, open, queue, answered, orphans, restarts>>
  BY DEF Leave, Doing
<1>2. TypeOK /\ worker[w].run \in Executions BY <1>1, WorkerTyped DEF IInv
<1>3. /\ worker' \in [Worker -> Works] /\ worker'[w].pc = "idle"
      /\ \A v \in Worker \ {w} : worker'[v] = worker[v]
  BY <1>1, <1>2 DEF TypeOK, Works, NoWork
<1>4. Lanes' BY <1>1 DEF IInv, Lanes
<1>5. ShortHolders' = ShortHolders \ {<<"worker", w>>} BY <1>1, <1>3, WorkerLeaves
<1>6. ASSUME NEW j \in Job PROVE FullHolders(j)' = FullHolders(j) \ {<<"worker", w>>}
  BY <1>1, <1>3, WorkerLeaves
<1>7. CASE worker[w].run.kind = "short" /\ taken' = taken - 1 /\ UNCHANGED <<fullTaken, active>>
  <2>1. <<"worker", w>> \in ShortHolders BY <1>1, <1>7, WorkerIn
  <2>2. UnitsHeld' /\ taken' \in 0..MaxPending BY <1>2, <1>5, <1>7, <2>1, UnitGiven DEF IInv
  <2>3. ASSUME NEW j \in Job PROVE FullHolders(j)' = FullHolders(j)
    <3>1. worker[w].run # [kind |-> "full", job |-> j] BY <1>7
    <3>2. <<"worker", w>> \notin FullHolders(j) BY <3>1, WorkerIn
    <3> QED BY <1>6, <3>2
  <2>4. OneLane' BY <1>7, <2>3, LaneKept DEF IInv
  <2>5. TypeOK' BY <1>1, <1>2, <1>3, <1>7, <2>2 DEF TypeOK
  <2> QED BY <1>4, <2>2, <2>4, <2>5 DEF IInv
<1>8. CASE worker[w].run.kind = "full" /\ Withdraw(worker[w].run.job) /\ UNCHANGED taken
  <2>1. PICK j \in Job : j = worker[w].run.job BY <1>2 DEF Executions
  <2>2. worker[w].run = [kind |-> "full", job |-> j] BY <1>2, <1>8, <2>1 DEF Executions
  <2>3. <<"worker", w>> \in FullHolders(j) BY <1>1, <2>2, WorkerIn
  <2>4. OneLane' /\ fullTaken' \in 0..1 /\ active' = {}
    BY <1>6, <1>8, <2>1, <2>3, LaneLeft DEF IInv
  <2>5. ShortHolders' = ShortHolders
    <3>1. <<"worker", w>> \notin ShortHolders BY <1>8, WorkerIn
    <3> QED BY <1>5, <3>1
  <2>6. UnitsHeld' BY <1>8, <2>5, UnitsKept DEF IInv
  <2>7. TypeOK' BY <1>1, <1>2, <1>3, <1>8, <2>4 DEF TypeOK
  <2> QED BY <1>4, <2>4, <2>6, <2>7 DEF IInv
<1> QED BY <1>7, <1>8 DEF Leave

LEMMA ExecuteStep ==
    ASSUME IInv, NEW w \in Worker, Execute(w)
    PROVE  IInv'
<1>1. TypeOK /\ job \in [Job -> Rows] BY DEF IInv, TypeOK
<1>2. {"work", "stop_enter", "late", "leave", "stop_work", "handle", "finish", "stop_inner",
       "fail_inner", "stop_late", "fail_late"} \subseteq WorkerSteps
  BY DEF WorkerSteps, Writes
<1>3. ASSUME EnterShort(w) \/ EnterFull(w) \/ Work(w) \/ Handle(w) \/ HandleLate(w) PROVE IInv'
  <2>1. worker[w].pc # "idle" /\ job' = job /\ UNCHANGED Rests
    BY <1>3 DEF EnterShort, EnterFull, Work, Handle, HandleLate, Doing
  <2>2. \E step \in WorkerSteps : Proceed(w, step)
    <3>1. CASE EnterShort(w) BY <1>2, <3>1 DEF EnterShort
    <3>2. CASE EnterFull(w) BY <1>2, <3>2 DEF EnterFull
    <3>3. CASE Work(w) BY <1>2, <3>3 DEF Work
    <3>4. CASE Handle(w) BY <1>2, <3>4 DEF Handle
    <3>5. CASE HandleLate(w) BY <1>2, <3>5 DEF HandleLate
    <3> QED BY <1>3, <3>1, <3>2, <3>3, <3>4, <3>5
  <2> QED BY <1>1, <2>1, <2>2, ProceedStep
<1>4. ASSUME Finish(w) PROVE IInv'
  <2>1. worker[w].pc # "idle" /\ UNCHANGED Rests BY <1>4 DEF Finish, Doing
  <2>2. worker[w].run.job \in Job BY <1>1, <2>1, WorkerTyped
  <2>3. \A s : CompleteOrStop(s) \in Rows BY DEF CompleteOrStop, Rows, JobStatus, Terminal
  <2>4. job' \in [Job -> Rows] BY <1>1, <1>4, <2>2, <2>3 DEF Finish
  <2>5. \E step \in WorkerSteps : Proceed(w, step) BY <1>2, <1>4 DEF Finish
  <2> QED BY <2>1, <2>4, <2>5, ProceedStep
<1>5. ASSUME Write(w) PROVE IInv'
  <2>1. worker[w].pc \in DOMAIN Writes /\ UNCHANGED Rests BY <1>5 DEF Write
  <2>2. worker[w].pc # "idle" BY <2>1 DEF Writes
  <2>3. worker[w].run.job \in Job BY <1>1, <2>2, WorkerTyped
  <2>4. PICK write : write = Writes[worker[w].pc] OBVIOUS
  <2>5. write.done \in WorkerSteps /\ write.refused \in WorkerSteps
        /\ write.target \in {"stopped", "failed"}
    BY <2>1, <2>4, StepNames
  <2>6. write.target \in Rows BY <2>5 DEF Rows, JobStatus, Terminal
  <2>8. job' \in [Job -> Rows] BY <1>1, <1>5, <2>3, <2>4, <2>6 DEF Write
  <2>9. \E step \in WorkerSteps : Proceed(w, step) BY <1>5, <2>4, <2>5 DEF Write
  <2> QED BY <2>1, <2>2, <2>8, <2>9, ProceedStep
<1> QED BY <1>3, <1>4, <1>5, TakeStep, LeaveStep DEF Execute
-----------------------------------------------------------------------------
(* The process *)

LEMMA NobodyHolds ==
    ASSUME req' = [r \in Request |-> NoRequest], queue' = <<>>,
           worker' = [w \in Worker |-> NoWork]
    PROVE  ShortHolders' = {} /\ \A j \in Job : FullHolders(j)' = {}
<1>1. /\ \A r \in Request : req'[r].pc = "idle"
      /\ DOMAIN queue' = {}
      /\ \A w \in Worker : worker'[w].pc = "idle"
  BY DEF NoRequest, NoWork
<1>2. ASSUME NEW h PROVE h \notin ShortHolders' BY <1>1, InShortNext DEF Short
<1>3. ASSUME NEW j \in Job, NEW h PROVE h \notin FullHolders(j)' BY <1>1, InFullNext DEF Full
<1> QED BY <1>2, <1>3

LEMMA RestartStep ==
    ASSUME IInv, Restart
    PROVE  IInv'
<1>1. ShortHolders' = {} /\ \A j \in Job : FullHolders(j)' = {} BY NobodyHolds DEF Restart
<1>2. UnitsHeld' BY <1>1, FS_EmptySet DEF UnitsHeld, Restart
<1>3. OneLane' BY <1>1 DEF OneLane, LaneFree, Restart
<1>4. Lanes' BY DEF Lanes, Restart, NoRequest, RunSteps
<1>5. TypeOK'
  <2>1. req' \in [Request -> Requests] /\ worker' \in [Worker -> Works] /\ queue' \in Seq(Executions)
    BY EmptySeq DEF Restart, Requests, Works
  <2>2. restarts' \in 0..MaxRestarts BY JobAssumption DEF IInv, TypeOK, Restart
  <2>3. taken' \in 0..MaxPending /\ fullTaken' \in 0..1 /\ active' \subseteq S3
        /\ open' \in BOOLEAN /\ job' = job /\ answered' = answered /\ orphans' \subseteq Job
    BY JobAssumption DEF Restart
  <2> QED BY <2>1, <2>2, <2>3 DEF IInv, TypeOK
<1> QED BY <1>2, <1>3, <1>4, <1>5 DEF IInv

LEMMA NothingStep ==
    ASSUME IInv, UNCHANGED <<job, req, taken, fullTaken, active, queue, worker, orphans, restarts>>,
           open' \in BOOLEAN, answered' \subseteq Job
    PROVE  IInv'
<1>1. TypeOK' BY DEF IInv, TypeOK
<1>2. Lanes' BY DEF IInv, Lanes
<1>3. ShortHolders' = ShortHolders BY DEF ShortHolders, Doing
<1>4. ASSUME NEW j \in Job PROVE FullHolders(j)' = FullHolders(j) BY DEF FullHolders, Doing
<1> QED BY <1>1, <1>2, <1>3, <1>4, UnitsKept, LaneKept DEF IInv

LEMMA CallStep ==
    ASSUME IInv, NEW r \in Request, NEW j \in Job, Call(r, j)
    PROVE  IInv'
<1>1. CASE StartJob(r, j) BY <1>1, BeginStep DEF StartJob
<1>2. CASE RunFullMatch(r, j) BY <1>2, BeginStep DEF RunFullMatch
<1>3. CASE StopJob(r, j) BY <1>3, BeginStep DEF StopJob
<1>4. CASE DeleteJob(r, j) BY <1>4, BeginStep DEF DeleteJob
<1>5. CASE StopAgain(r, j)
  BY <1>5, NothingStep DEF StopAgain, memory, IInv, TypeOK
<1> QED BY <1>1, <1>2, <1>3, <1>4, <1>5 DEF Call

LEMMA InvStep ==
    ASSUME IInv, [Next]_vars
    PROVE  IInv'
<1>1. ASSUME NEW r \in Request, Serve(r) PROVE IInv'
  BY <1>1, AdmitStep, ReserveStep, SubmitStep, UndoStep, LockStep, RunReserveStep, RunSubmitStep,
     RunCheckStep, StopStep, DeleteStep DEF Serve
<1>2. CASE Shutdown BY <1>2, NothingStep DEF Shutdown, IInv, TypeOK
<1>3. CASE UNCHANGED vars BY <1>3, NothingStep DEF vars, IInv, TypeOK
<1> QED BY <1>1, <1>2, <1>3, CallStep, ExecuteStep, RestartStep DEF Next

LEMMA InvInit == Init => IInv
<1> SUFFICES ASSUME Init PROVE IInv OBVIOUS
<1>1. /\ \A r \in Request : req[r].pc = "idle"
      /\ DOMAIN queue = {}
      /\ \A w \in Worker : worker[w].pc = "idle"
  BY DEF Init, NoRequest, NoWork
<1>2. ShortHolders = {}
  <2>1. ASSUME NEW h PROVE h \notin ShortHolders BY <1>1, InShort DEF Short
  <2> QED BY <2>1
<1>3. \A j \in Job : FullHolders(j) = {}
  <2>1. ASSUME NEW j \in Job, NEW h PROVE h \notin FullHolders(j) BY <1>1, InFull DEF Full
  <2> QED BY <2>1
<1>4. UnitsHeld BY <1>2, FS_EmptySet DEF Init, UnitsHeld
<1>5. OneLane BY <1>3 DEF Init, OneLane, LaneFree
<1>6. Lanes BY <1>1 DEF Lanes, RunSteps
<1>7. TypeOK
  <2>1. req \in [Request -> Requests] /\ worker \in [Worker -> Works] /\ queue \in Seq(Executions)
    BY EmptySeq DEF Init, Requests, Works
  <2>2. job \in [Job -> Rows] BY DEF Init, Rows, JobStatus
  <2> QED BY <2>1, <2>2, JobAssumption DEF Init, TypeOK
<1> QED BY <1>4, <1>5, <1>6, <1>7 DEF IInv

\* Type correctness: the units taken stay between none and all there are, whatever fails on
\* the way and whenever the process restarts (the semaphores of create_app).
THEOREM ServiceTyped == Spec => []TypeOK
BY InvInit, InvStep, PTL DEF Spec, IInv

\* No unit of admission is given back twice: those who hold one are no more than the units taken.
THEOREM AdmissionIsBounded == Spec => []AdmissionBounds
<1>1. IInv => AdmissionBounds BY DEF IInv, UnitsHeld, AdmissionBounds
<1> QED BY <1>1, InvInit, InvStep, PTL DEF Spec

\* The active set, the one-slot semaphore and the executions of the runner agree, for any number
\* of matches, requests and threads.
THEOREM RunnerIsAlone == Spec => []OneRunner
<1>1. IInv => OneRunner BY LaneIsOneRunner DEF IInv
<1> QED BY <1>1, InvInit, InvStep, PTL DEF Spec
-----------------------------------------------------------------------------
(* A stop that was answered *)

Stopped == {"stopping", "stopped", "failed", NoJob}

LEMMA StopKept ==
    ASSUME NEW status \in Stopped
    PROVE  /\ ~CanTransition(status, "running")
           /\ "failed" \in Stopped /\ "stopped" \in Stopped
           /\ CanFinalize(status) => CompleteOrStop(status) \in Stopped
BY DEF Stopped, NoJob, CanTransition, AllowedTransitions, CanFinalize, CompleteOrStop

LEMMA StopStays ==
    ASSUME TypeOK, StopBeatsCompletion, [Next]_vars
    PROVE  StopBeatsCompletion'
<1>2. /\ answered \subseteq Job /\ job \in [Job -> Rows] BY DEF TypeOK
<1>1. \A j \in answered : job[j] \in Stopped
  BY <1>2 DEF StopBeatsCompletion, Stopped, Rows, JobStatus, Terminal
<1>3. SUFFICES \A j \in answered' : job'[j] \in Stopped
  BY DEF StopBeatsCompletion, Stopped, NoJob
<1>4. ASSUME NEW k \in Job, NEW status, job' = [job EXCEPT ![k] = status],
             answered' = answered, k \in answered => status \in Stopped
      PROVE  \A j \in answered' : job'[j] \in Stopped
  BY <1>1, <1>2, <1>4
<1>5. CASE UNCHANGED <<job, answered>> BY <1>1, <1>5
<1>6. ASSUME NEW r \in Request, Reserve(r), job' # job
      PROVE  \A j \in answered' : job'[j] \in Stopped
  <2>1. /\ CanTransition(job[req[r].job], "running") /\ answered' = answered
        /\ job' = [job EXCEPT ![req[r].job] = "running"] /\ req[r].job \in Job
    BY <1>6, RequestTyped DEF Reserve, At
  <2>2. req[r].job \notin answered BY <1>1, <2>1, StopKept
  <2> QED BY <1>4, <2>1, <2>2
<1>7. ASSUME NEW r \in Request, RunReserve(r), job' # job
      PROVE  \A j \in answered' : job'[j] \in Stopped
  <2>1. /\ CanTransition(job[req[r].job], "running") /\ answered' = answered
        /\ job' = [job EXCEPT ![req[r].job] = "running"] /\ req[r].job \in Job
    BY <1>7, RequestTyped DEF RunReserve, Admitted, At
  <2>2. req[r].job \notin answered BY <1>1, <2>1, StopKept
  <2> QED BY <1>4, <2>1, <2>2
<1>8. ASSUME NEW r \in Request, Undo(r) PROVE \A j \in answered' : job'[j] \in Stopped
  <2>1. /\ job' = job \/ job' = [job EXCEPT ![req[r].job] = "failed"]
        /\ answered' = answered /\ req[r].job \in Job
    BY <1>8, RequestTyped DEF Undo
  <2> QED BY <1>4, <1>5, <2>1 DEF Stopped
<1>9. ASSUME NEW r \in Request, Stop(r) PROVE \A j \in answered' : job'[j] \in Stopped
  <2>1. PICK j \in Job : j = req[r].job BY <1>9, RequestTyped DEF Stop, At
  <2>2. \/ UNCHANGED <<job, answered>>
        \/ \E s \in {"stopped", "stopping"} :
              job' = [job EXCEPT ![j] = s] /\ answered' = answered \union {j}
    BY <1>9, <2>1 DEF Stop
  <2> QED BY <1>1, <1>2, <2>1, <2>2 DEF Stopped
<1>10. ASSUME NEW r \in Request, Delete(r) PROVE \A j \in answered' : job'[j] \in Stopped
  <2>1. /\ job' = [job EXCEPT ![req[r].job] = NoJob] /\ answered' = answered /\ req[r].job \in Job
    BY <1>10, RequestTyped DEF Delete, At
  <2> QED BY <1>4, <2>1 DEF Stopped
<1>11. ASSUME NEW w \in Worker, Finish(w) PROVE \A j \in answered' : job'[j] \in Stopped
  <2>1. PICK j \in Job : j = worker[w].run.job BY <1>11, WorkerTyped DEF Finish, Doing
  <2>2. \/ UNCHANGED <<job, answered>>
        \/ /\ CanFinalize(job[j]) /\ answered' = answered
           /\ job' = [job EXCEPT ![j] = CompleteOrStop(@)]
    BY <1>11, <2>1 DEF Finish, Rests
  <2> QED BY <1>1, <1>4, <1>5, <2>1, <2>2, StopKept
<1>12. ASSUME NEW w \in Worker, Write(w) PROVE \A j \in answered' : job'[j] \in Stopped
  <2>1. worker[w].pc \in DOMAIN Writes BY <1>12 DEF Write
  <2>2. worker[w].pc # "idle" BY <2>1 DEF Writes
  <2>3. PICK j \in Job : j = worker[w].run.job BY <2>2, WorkerTyped
  <2>4. PICK target : target = Writes[worker[w].pc].target OBVIOUS
  <2>5. target \in {"stopped", "failed"} BY <2>1, <2>4, StepNames
  <2>6. /\ job' = job \/ job' = [job EXCEPT ![j] = target]
        /\ answered' = answered
    BY <1>12, <2>3, <2>4 DEF Write, Rests
  <2> QED BY <1>4, <1>5, <2>3, <2>5, <2>6 DEF Stopped
<1>13. ASSUME NEW r \in Request, NEW j \in Job, Call(r, j)
       PROVE  \A k \in answered' : job'[k] \in Stopped
  <2>1. CASE StopAgain(r, j) BY <1>1, <2>1 DEF StopAgain, Stopped
  <2>2. CASE StartJob(r, j) \/ RunFullMatch(r, j) \/ StopJob(r, j) \/ DeleteJob(r, j)
    BY <1>5, <2>2 DEF StartJob, RunFullMatch, StopJob, DeleteJob, Begin
  <2> QED BY <1>13, <2>1, <2>2 DEF Call
<1>14. ASSUME NEW r \in Request, Serve(r) PROVE \A j \in answered' : job'[j] \in Stopped
  <2>1. CASE Admit(r) \/ Submit(r) \/ Lock(r) \/ RunSubmit(r) \/ RunCheck(r)
    BY <1>5, <2>1 DEF Admit, Submit, Lock, RunSubmit, RunCheck
  <2>2. CASE Reserve(r)
    <3>1. answered' = answered BY <2>2 DEF Reserve
    <3> QED BY <1>5, <1>6, <2>2, <3>1
  <2>3. CASE RunReserve(r)
    <3>1. answered' = answered BY <2>3 DEF RunReserve
    <3> QED BY <1>5, <1>7, <2>3, <3>1
  <2> QED BY <1>8, <1>9, <1>10, <1>14, <2>1, <2>2, <2>3 DEF Serve
<1>15. ASSUME NEW w \in Worker, Execute(w) PROVE \A j \in answered' : job'[j] \in Stopped
  <2>1. CASE Take(w) \/ EnterShort(w) \/ EnterFull(w) \/ Work(w) \/ Handle(w) \/ HandleLate(w)
             \/ Leave(w)
    BY <1>5, <2>1 DEF Take, EnterShort, EnterFull, Work, Handle, HandleLate, Leave, Rests
  <2> QED BY <1>11, <1>12, <1>15, <2>1 DEF Execute
<1>16. CASE Shutdown \/ Restart \/ UNCHANGED vars BY <1>5, <1>16 DEF Shutdown, Restart, vars
<1> QED BY <1>13, <1>14, <1>15, <1>16 DEF Next

\* A stop that was answered is never overtaken by a completion or a new start, however the
\* requests and the executions interleave and whichever of them acts on a status it read before.
\* Nothing is said of a failure: that may overtake it.
THEOREM CompletionYields == Spec => []StopBeatsCompletion
<1>1. Init => StopBeatsCompletion BY DEF Init, StopBeatsCompletion
<1> QED BY <1>1, StopStays, ServiceTyped, PTL DEF Spec
-----------------------------------------------------------------------------
(* Running jobs *)

\* The steps of a request that will still decide what becomes of its job.
Deciding == {"submit", "undo", "run_submit", "run_check", "run_undo"}

\* Whoever decides is not disturbed by what others do.
LEMMA DriversKept ==
    ASSUME TypeOK, NEW j \in Job, Driven(j),
           \A r \in Request : req[r].pc \in Deciding /\ req[r].job = j =>
                                 req'[r].pc \in Deciding /\ req'[r].job = j,
           \A i \in DOMAIN queue : i \in DOMAIN queue' /\ queue'[i] = queue[i],
           \A w \in Worker : worker[w].pc \notin {"idle", "leave"} /\ worker[w].run.job = j =>
                                worker'[w].pc \notin {"idle", "leave"} /\ worker'[w].run.job = j
    PROVE  Driven(j)'
BY DEF Driven, Deciding

\* A request that takes the job over, to queue it or to undo.
LEMMA Decides ==
    ASSUME NEW r \in Request, NEW j \in Job, req'[r].pc \in Deciding, req'[r].job = j
    PROVE  Driven(j)'
BY DEF Driven, Deciding

LEMMA Queued ==
    ASSUME TypeOK, NEW e \in Executions, queue' = Append(queue, e)
    PROVE  Driven(e.job)'
<1>1. Len(queue) + 1 \in DOMAIN queue' /\ queue'[Len(queue) + 1] = e
  BY QueueGrows, QueueTyped
<1>2. PICK j : j = e.job OBVIOUS
<1>3. \E i \in DOMAIN queue' : queue'[i].job = j BY <1>1, <1>2
<1>4. Driven(j)' BY <1>3 DEF Driven
<1> QED BY <1>2, <1>4

\* What is being written to is at work.
LEMMA WriterDrives ==
    ASSUME NEW j \in Job, Writing(j), UNCHANGED worker
    PROVE  Driven(j)'
BY DEF Writing, Driven, Doing

\* Running and not left behind.
Live(j) == job[j] = "running" /\ j \notin orphans

LEMMA RequestDrives ==
    ASSUME TypeOK, NEW r \in Request, NEW j \in Job, Serve(r), RunningIsDriven, Live(j)'
    PROVE  Driven(j)'
<1>1. /\ UNCHANGED <<worker, orphans>> /\ req[r].pc # "idle"
      /\ req[r].job \in Job /\ job \in [Job -> Rows]
  <2>1. UNCHANGED <<worker, orphans>> /\ req[r].pc # "idle"
    BY DEF Serve, Admit, Reserve, Submit, Undo, Lock, RunReserve, RunSubmit, RunCheck, Stop, Delete,
           At
  <2> QED BY <2>1, RequestTyped DEF TypeOK
<1>2. PICK k \in Job : k = req[r].job BY <1>1
<1>3. ASSUME NEW step \in RequestSteps, Goto(r, step)
      PROVE  /\ req'[r].pc = step /\ req'[r].job = k
             /\ \A q \in Request \ {r} : req'[q] = req[q]
  BY <1>1, <1>2, <1>3, GotoTyped
<1>4. ASSUME Answer(r) PROVE \A q \in Request \ {r} : req'[q] = req[q]
  BY <1>4, AnswerTyped
<1>5. {"reserve", "run_reserve"} \union Deciding \subseteq RequestSteps
  BY DEF Deciding, RequestSteps, StartSteps, RunSteps
<1>6. ASSUME UNCHANGED queue, \A q \in Request \ {r} : req'[q] = req[q], Driven(j),
             req[r].pc \in Deciding /\ k = j => req'[r].pc \in Deciding /\ req'[r].job = j
      PROVE  Driven(j)'
  BY <1>1, <1>2, <1>6, DriversKept
<1>7. job'[j] = job[j] => Driven(j) BY <1>1 DEF RunningIsDriven, Live
<1>8. CASE Admit(r) \/ Lock(r)
  <2>1. UNCHANGED <<job, queue>> /\ req[r].pc \notin Deciding BY <1>8 DEF Admit, Lock, At, Deciding
  <2>2. \A q \in Request \ {r} : req'[q] = req[q] BY <1>3, <1>4, <1>5, <1>8 DEF Admit, Lock
  <2> QED BY <1>6, <1>7, <2>1, <2>2
<1>9. CASE Reserve(r)
  <2>1. UNCHANGED queue /\ req[r].pc \notin Deciding BY <1>9 DEF Reserve, At, Deciding
  <2>2. \A q \in Request \ {r} : req'[q] = req[q] BY <1>3, <1>4, <1>5, <1>9 DEF Reserve, Deciding
  <2>3. CASE job' = [job EXCEPT ![k] = "running"] /\ Goto(r, "submit")
    <3>1. req'[r].pc = "submit" /\ req'[r].job = k BY <1>3, <1>5, <2>3 DEF Deciding
    <3>2. CASE j = k BY <3>1, <3>2, Decides DEF Deciding
    <3>3. CASE j # k BY <1>1, <1>6, <1>7, <2>1, <2>2, <2>3, <3>3
    <3> QED BY <3>2, <3>3
  <2>4. CASE job' = job BY <1>6, <1>7, <2>1, <2>2, <2>4
  <2> QED BY <1>2, <1>9, <2>3, <2>4 DEF Reserve
<1>10. CASE Submit(r)
  <2>1. PICK e : e = [kind |-> "short", job |-> k] OBVIOUS
  <2>2. e \in Executions /\ e.job = k BY <2>1 DEF Executions
  <2>3. job' = job /\ Driven(j) BY <1>7, <1>10 DEF Submit
  <2>4. CASE queue' = Append(queue, e) /\ Answer(r)
    <3>1. CASE j = k BY <2>2, <2>4, <3>1, Queued
    <3>2. CASE j # k
      <4>1. \A i \in DOMAIN queue : i \in DOMAIN queue' /\ queue'[i] = queue[i]
        BY <2>2, <2>4, QueueTyped, QueueGrows
      <4>2. \A q \in Request : req[q].pc \in Deciding /\ req[q].job = j =>
                                 req'[q].pc \in Deciding /\ req'[q].job = j
        BY <1>2, <1>4, <2>4, <3>2
      <4> QED BY <1>1, <2>3, <4>1, <4>2, DriversKept
    <3> QED BY <3>1, <3>2
  <2>5. CASE GotoReading(r, "undo") /\ UNCHANGED queue
    <3>1. /\ req'[r].pc = "undo" /\ req'[r].job = k
          /\ \A q \in Request \ {r} : req'[q] = req[q]
      BY <1>1, <1>2, <1>5, <2>5, GotoReadingTyped DEF Deciding
    <3> QED BY <1>6, <2>3, <2>5, <3>1 DEF Deciding
  <2> QED BY <1>2, <1>10, <2>1, <2>4, <2>5 DEF Submit
<1>11. CASE Undo(r)
  <2>1. Answer(r) /\ UNCHANGED queue BY <1>11 DEF Undo
  <2>2. CASE j # k
    <3>1. job'[j] = job[j] BY <1>1, <1>2, <1>11, <2>2 DEF Undo
    <3> QED BY <1>4, <1>6, <1>7, <2>1, <2>2, <3>1
  <2>3. CASE j = k
    <3>1. job' = job BY <1>1, <1>2, <1>11, <2>3 DEF Undo, Live
    <3>2. job[k] = "running" BY <2>3, <3>1 DEF Live
    <3>3. CanTransition(job[k], "failed") BY <3>2 DEF CanTransition, AllowedTransitions, NoJob
    <3>4. Writing(k) \/ job' = [job EXCEPT ![k] = "failed"]
      BY <1>2, <1>11, <3>2, <3>3 DEF Undo, MayRefuse, Overtaken
    <3>5. job' # [job EXCEPT ![k] = "failed"] BY <1>1, <3>1, <3>2
    <3> QED BY <1>1, <2>3, <3>4, <3>5, WriterDrives
  <2> QED BY <2>2, <2>3
<1>12. CASE RunReserve(r)
  <2>1. UNCHANGED queue /\ req[r].pc \notin Deciding BY <1>12 DEF RunReserve, At, Deciding
  <2>2. \A q \in Request \ {r} : req'[q] = req[q] BY <1>3, <1>4, <1>5, <1>12 DEF RunReserve, Deciding
  <2>3. CASE job' = [job EXCEPT ![k] = "running"] /\ Goto(r, "run_submit")
    <3>1. req'[r].pc = "run_submit" /\ req'[r].job = k BY <1>3, <1>5, <2>3 DEF Deciding
    <3>2. CASE j = k BY <3>1, <3>2, Decides DEF Deciding
    <3>3. CASE j # k BY <1>1, <1>6, <1>7, <2>1, <2>2, <2>3, <3>3
    <3> QED BY <3>2, <3>3
  <2>4. CASE job' = job BY <1>6, <1>7, <2>1, <2>2, <2>4
  <2> QED BY <1>2, <1>12, <2>3, <2>4 DEF RunReserve
<1>13. CASE RunSubmit(r)
  <2>1. PICK e : e = [kind |-> "full", job |-> k] OBVIOUS
  <2>2. e \in Executions /\ e.job = k BY <2>1 DEF Executions
  <2>3. job' = job /\ Driven(j) BY <1>7, <1>13 DEF RunSubmit
  <2>4. CASE queue' = Append(queue, e) /\ Answer(r)
    <3>1. CASE j = k BY <2>2, <2>4, <3>1, Queued
    <3>2. CASE j # k
      <4>1. \A i \in DOMAIN queue : i \in DOMAIN queue' /\ queue'[i] = queue[i]
        BY <2>2, <2>4, QueueTyped, QueueGrows
      <4>2. \A q \in Request : req[q].pc \in Deciding /\ req[q].job = j =>
                                 req'[q].pc \in Deciding /\ req'[q].job = j
        BY <1>2, <1>4, <2>4, <3>2
      <4> QED BY <1>1, <2>3, <4>1, <4>2, DriversKept
    <3> QED BY <3>1, <3>2
  <2>5. CASE Goto(r, "run_check") /\ UNCHANGED queue
    <3>1. /\ req'[r].pc = "run_check" /\ req'[r].job = k
          /\ \A q \in Request \ {r} : req'[q] = req[q]
      BY <1>3, <1>5, <2>5 DEF Deciding
    <3> QED BY <1>6, <2>3, <2>5, <3>1 DEF Deciding
  <2> QED BY <1>2, <1>13, <2>1, <2>4, <2>5 DEF RunSubmit
<1>14. CASE RunCheck(r)
  <2>1. job' = job /\ UNCHANGED queue /\ Driven(j) BY <1>7, <1>14 DEF RunCheck
  <2>2. CASE GotoReading(r, "run_undo")
    <3>1. /\ req'[r].pc = "run_undo" /\ req'[r].job = k
          /\ \A q \in Request \ {r} : req'[q] = req[q]
      BY <1>1, <1>2, <1>5, <2>2, GotoReadingTyped DEF Deciding
    <3> QED BY <1>6, <2>1, <3>1 DEF Deciding
  <2>3. CASE job[k] # "running" /\ Answer(r)
    <3>1. j # k BY <2>1, <2>3 DEF Live
    <3> QED BY <1>4, <1>6, <2>1, <2>3, <3>1
  <2> QED BY <1>2, <1>14, <2>2, <2>3 DEF RunCheck
<1>15. CASE Stop(r)
  <2>1. UNCHANGED queue /\ Answer(r) /\ req[r].pc \notin Deciding BY <1>15 DEF Stop, At, Deciding
  <2>2. job' = job \/ \E s \in {"stopped", "stopping"} : job' = [job EXCEPT ![k] = s]
    BY <1>2, <1>15 DEF Stop
  <2>3. job'[j] = job[j] BY <1>1, <2>2 DEF Live
  <2> QED BY <1>4, <1>6, <1>7, <2>1, <2>3
<1>16. CASE Delete(r)
  <2>1. UNCHANGED queue /\ Answer(r) /\ req[r].pc \notin Deciding
    BY <1>16 DEF Delete, At, Deciding
  <2>2. job' = [job EXCEPT ![k] = NoJob] BY <1>2, <1>16 DEF Delete
  <2>3. job'[j] = job[j] BY <1>1, <2>2 DEF Live, NoJob
  <2> QED BY <1>4, <1>6, <1>7, <2>1, <2>3
<1> QED
  BY <1>8, <1>9, <1>10, <1>11, <1>12, <1>13, <1>14, <1>15, <1>16 DEF Serve

LEMMA ThreadDrives ==
    ASSUME TypeOK, NEW w \in Worker, NEW j \in Job, Execute(w), RunningIsDriven, Live(j)'
    PROVE  Driven(j)'
<1>1. UNCHANGED <<req, orphans>> /\ job \in [Job -> Rows]
  BY DEF TypeOK, Execute, Take, EnterShort, EnterFull, Work, Finish, Handle, HandleLate, Write,
         Leave, Rests
<1>2. job'[j] = job[j] => Driven(j) BY <1>1 DEF RunningIsDriven, Live
\* A thread goes on; it leaves its job only when the job runs no more.
<1>3. ASSUME NEW step \in WorkerSteps, Proceed(w, step), worker[w].pc \notin {"idle", "leave"},
             UNCHANGED queue, Driven(j), step = "leave" => worker[w].run.job # j
      PROVE  Driven(j)'
  <2>1. /\ worker'[w].pc = step /\ worker'[w].run = worker[w].run
        /\ \A v \in Worker \ {w} : worker'[v] = worker[v]
    BY <1>3, ProceedTyped
  <2>2. step # "idle" BY StepNames
  <2>3. \A v \in Worker : worker[v].pc \notin {"idle", "leave"} /\ worker[v].run.job = j =>
                             worker'[v].pc \notin {"idle", "leave"} /\ worker'[v].run.job = j
    BY <1>3, <2>1, <2>2
  <2> QED BY <1>1, <1>3, <2>3, DriversKept
<1>4. {"work", "stop_enter", "late", "leave", "stop_work", "handle", "finish", "stop_inner",
       "fail_inner", "stop_late", "fail_late"} \subseteq WorkerSteps
  BY DEF WorkerSteps, Writes
<1>5. CASE EnterShort(w) \/ EnterFull(w) \/ Work(w) \/ Handle(w) \/ HandleLate(w)
  <2>1. /\ worker[w].pc \notin {"idle", "leave"} /\ job' = job /\ UNCHANGED queue
    BY <1>5 DEF EnterShort, EnterFull, Work, Handle, HandleLate, Doing, Rests
  <2>2. \E step \in WorkerSteps : /\ Proceed(w, step)
                                  /\ step = "leave" => job[worker[w].run.job] # "running"
    <3>1. CASE EnterShort(w) BY <1>4, <3>1 DEF EnterShort
    <3>2. CASE EnterFull(w) BY <1>4, <3>2 DEF EnterFull
    <3>3. CASE Work(w) BY <1>4, <3>3 DEF Work
    <3>4. CASE Handle(w) BY <1>4, <3>4 DEF Handle
    <3>5. CASE HandleLate(w) BY <1>4, <3>5 DEF HandleLate
    <3> QED BY <1>5, <3>1, <3>2, <3>3, <3>4, <3>5
  <2>3. job[j] = "running" /\ Driven(j) BY <1>2, <2>1 DEF Live
  <2> QED BY <1>3, <2>1, <2>2, <2>3
<1>6. CASE Finish(w)
  <2>1. worker[w].pc \notin {"idle", "leave"} /\ UNCHANGED queue BY <1>6 DEF Finish, Doing, Rests
  <2>2. PICK k \in Job : k = worker[w].run.job BY <2>1, WorkerTyped
  <2>3. CASE job' = [job EXCEPT ![k] = CompleteOrStop(@)] /\ Proceed(w, "leave")
    <3>1. job'[k] # "running" BY <1>1, <2>3 DEF CompleteOrStop
    <3>2. j # k /\ job'[j] = job[j] BY <1>1, <2>3, <3>1 DEF Live
    <3> QED BY <1>2, <1>3, <1>4, <2>1, <2>2, <2>3, <3>2
  <2>4. CASE job' = job /\ Proceed(w, "handle") BY <1>2, <1>3, <1>4, <2>1, <2>4
  <2> QED BY <1>6, <2>2, <2>3, <2>4 DEF Finish
<1>7. CASE Write(w)
  <2>1. worker[w].pc \in DOMAIN Writes /\ UNCHANGED queue BY <1>7 DEF Write, Rests
  <2>2. worker[w].pc \notin {"idle", "leave"} BY <2>1 DEF Writes
  <2>3. PICK k \in Job : k = worker[w].run.job BY <2>2, WorkerTyped
  <2>4. PICK write : write = Writes[worker[w].pc] OBVIOUS
  <2>5. write.done \in WorkerSteps /\ write.refused \in WorkerSteps
        /\ write.target \in {"stopped", "failed"}
    BY <2>1, <2>4, StepNames
  <2>6. \E step \in WorkerSteps : Proceed(w, step) BY <1>7, <2>4, <2>5 DEF Write
  <2>7. CASE j # k
    <3>1. job'[j] = job[j] BY <1>1, <1>7, <2>3, <2>7 DEF Write
    <3> QED BY <1>2, <1>3, <2>1, <2>2, <2>3, <2>6, <2>7, <3>1
  <2>8. CASE j = k
    <3>1. job'[k] = "running" BY <2>8 DEF Live
    <3>2. job' # [job EXCEPT ![k] = write.target] BY <1>1, <2>5, <3>1
    <3>3. job' = job /\ MayRefuse(k, write.read, write.target)
      BY <1>7, <2>3, <2>4, <3>2 DEF Write
    <3>4. CanTransition(job[k], write.target)
      BY <2>5, <3>1, <3>3 DEF CanTransition, AllowedTransitions, NoJob
    <3>5. Writing(k) BY <3>1, <3>3, <3>4 DEF MayRefuse, Overtaken
    <3>6. PICK v \in Worker : worker[v].pc = "work" /\ worker[v].run.job = k
      BY <3>5 DEF Writing, Doing
    <3>7. v # w BY <2>1, <3>6 DEF Writes
    <3>8. worker'[v] = worker[v] BY <2>2, <2>6, <3>7, ProceedTyped
    <3> QED BY <2>8, <3>6, <3>8 DEF Driven
  <2> QED BY <2>7, <2>8
<1>8. CASE Leave(w)
  <2>1. /\ worker[w].pc = "leave" /\ UNCHANGED <<job, queue>>
        /\ worker' = [worker EXCEPT ![w] = NoWork] /\ worker \in [Worker -> Works]
    BY <1>8 DEF Leave, Doing, TypeOK
  <2>2. \A v \in Worker \ {w} : worker'[v] = worker[v] BY <2>1
  <2>3. \A v \in Worker : worker[v].pc \notin {"idle", "leave"} => worker'[v] = worker[v]
    BY <2>1, <2>2
  <2> QED BY <1>1, <1>2, <2>1, <2>3, DriversKept
<1>9. CASE Take(w)
  <2>1. /\ worker[w].pc = "idle" /\ worker'[w].pc = "enter" /\ worker'[w].run = queue[1]
        /\ \A v \in Worker \ {w} : worker'[v] = worker[v]
    BY <1>9, TakeTyped
  <2>2. PICK n \in Nat : n = Len(queue) BY QueueTyped
  <2>3. /\ DOMAIN queue = 1..n /\ DOMAIN queue' = 1..(n - 1)
        /\ \A i \in 1..(n - 1) : queue'[i] = queue[i + 1]
    BY <1>9, <2>2, TakeTyped, QueueTyped, QueueShrinks
  <2>4. Driven(j)
    <3>1. job' = job BY <1>9 DEF Take
    <3> QED BY <1>2, <3>1
  <2>5. CASE \E r \in Request : req[r].pc \in Deciding /\ req[r].job = j
    BY <1>1, <2>5 DEF Driven, Deciding
  <2>6. CASE \E i \in DOMAIN queue : queue[i].job = j
    <3>1. PICK i \in 1..n : queue[i].job = j BY <2>3, <2>6
    <3>2. CASE i = 1
      <4>1. worker'[w].pc \notin {"idle", "leave"} /\ worker'[w].run.job = j
        BY <2>1, <3>1, <3>2
      <4> QED BY <4>1 DEF Driven
    <3>3. CASE i # 1
      <4>1. i - 1 \in 1..(n - 1) /\ i - 1 + 1 = i BY <3>1, <3>3
      <4>2. i - 1 \in DOMAIN queue' /\ queue'[i - 1].job = j BY <2>3, <3>1, <4>1
      <4> QED BY <4>2 DEF Driven
    <3> QED BY <3>2, <3>3
  <2>7. CASE \E v \in Worker : worker[v].pc \notin {"idle", "leave"} /\ worker[v].run.job = j
    <3>1. PICK v \in Worker : worker[v].pc \notin {"idle", "leave"} /\ worker[v].run.job = j
      BY <2>7
    <3>2. worker'[v] = worker[v] BY <2>1, <3>1
    <3> QED BY <3>1, <3>2 DEF Driven
  <2> QED BY <2>4, <2>5, <2>6, <2>7 DEF Driven, Deciding
<1> QED BY <1>5, <1>6, <1>7, <1>8, <1>9 DEF Execute

LEMMA DrivenStep ==
    ASSUME TypeOK, RunningIsDriven, [Next]_vars
    PROVE  RunningIsDriven'
<1> SUFFICES ASSUME NEW j \in Job, Live(j)' PROVE Driven(j)' BY DEF RunningIsDriven, Live
<1>1. ASSUME UNCHANGED <<job, orphans>>, UNCHANGED <<queue, worker>>,
             \A r \in Request : req[r].pc # "idle" => req'[r] = req[r]
      PROVE  Driven(j)'
  <2>1. Driven(j) BY <1>1 DEF RunningIsDriven, Live
  <2> QED BY <1>1, <2>1, DriversKept DEF Deciding
<1>2. ASSUME NEW r \in Request, NEW k \in Job, Call(r, k) PROVE Driven(j)'
  <2>1. CASE StopAgain(r, k) BY <1>1, <2>1 DEF StopAgain, memory
  <2>2. CASE StartJob(r, k) \/ RunFullMatch(r, k) \/ StopJob(r, k) \/ DeleteJob(r, k)
    <3>1. PICK call : req[r].pc = "idle" /\ req' = [req EXCEPT ![r] = call]
      BY <2>2 DEF StartJob, RunFullMatch, StopJob, DeleteJob, Begin, At
    <3>2. UNCHANGED <<job, orphans>> /\ UNCHANGED <<queue, worker>>
      BY <2>2 DEF StartJob, RunFullMatch, StopJob, DeleteJob, Begin
    <3>3. \A q \in Request : req[q].pc # "idle" => req'[q] = req[q] BY <3>1 DEF TypeOK
    <3> QED BY <1>1, <3>2, <3>3
  <2> QED BY <1>2, <2>1, <2>2 DEF Call
<1>3. CASE Shutdown BY <1>1, <1>3 DEF Shutdown
<1>4. CASE Restart
  <2>1. job' = job /\ orphans' = {k \in Job : job[k] \in {"running", "stopping"}}
    BY <1>4 DEF Restart
  <2> QED BY <2>1 DEF Live
<1>5. CASE UNCHANGED vars BY <1>1, <1>5 DEF vars
<1> QED BY <1>2, <1>3, <1>4, <1>5, RequestDrives, ThreadDrives DEF Next

\* No job is left running in nobody's hands: every failure between the reservation and the end
\* of an execution is somebody's to undo, unless the whole process died.
THEOREM RunningStaysDriven == Spec => []RunningIsDriven
<1>1. Init => RunningIsDriven BY DEF Init, RunningIsDriven
<1> QED BY <1>1, DrivenStep, ServiceTyped, PTL DEF Spec
=============================================================================
