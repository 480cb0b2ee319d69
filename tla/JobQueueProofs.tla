--------------------------- MODULE JobQueueProofs ---------------------------
(***************************************************************************)
(* The job queue is single-flight and FIFO for every set of jobs, with and *)
(* without write faults.                                                   *)
(*                                                                         *)
(* SingleFlight is not inductive: that the job being taken is the only one *)
(* running needs "idle means nothing is running", which needs to know what *)
(* each worker state says about current and about the registry, and that   *)
(* what waits on the queue is queued and not running.                      *)
(*                                                                         *)
(* The records need more: the index on disk says of each job what the      *)
(* registry says, a job that was taken and is not held has ended, and what *)
(* the index says of an ended job is its end (RecordInv).                  *)
(*                                                                         *)
(* The notifications, which listen for the ends of jobs: what is reported, *)
(* how often, and that a job's end is looked at, for every stack, every    *)
(* set of versions, every window and every clock. Neither promise about    *)
(* reports is inductive: what was reported is kept in a file that forgets, *)
(* is written beside the report and may not be written at all. Remembered  *)
(* says what of a report is still in the file. The two models share no     *)
(* variable.                                                               *)
(***************************************************************************)
EXTENDS JobQueue, Notifications, SequenceTheorems, TLAPS

\* What the state of the worker says about the job it holds.
WorkerHoldsCurrent ==
    /\ worker = "running" => current # NoJob
    /\ worker \in {"off", "idle"} => current = NoJob
    /\ current # NoJob => current \in Jobs

\* The running jobs of the registry are exactly the one the worker holds.
RunningIsCurrent ==
    \A j \in Jobs : jobs[j] = "running" <=> j = current

\* An id waits at most once.
QueueDistinct ==
    \A a, b \in DOMAIN queue : queue[a] = queue[b] => a = b

\* The inductive invariant behind SingleFlight and QueuedIsRunnable.
QueueInv ==
    /\ TypeOK
    /\ WorkerHoldsCurrent
    /\ RunningIsCurrent
    /\ QueueDistinct
    /\ QueuedIsRunnable

USE NoJobAssumption, IoFaultsAssumption

-----------------------------------------------------------------------------
(* Sequences: what Append, Head and Tail do to the elements.               *)

LEMMA AppendElements ==
    ASSUME NEW S, NEW s \in Seq(S), NEW e \in S
    PROVE  /\ Append(s, e) \in Seq(S)
           /\ DOMAIN Append(s, e) = 1 .. (Len(s) + 1)
           /\ DOMAIN s = 1 .. Len(s)
           /\ \A i \in DOMAIN s : Append(s, e)[i] = s[i]
           /\ Append(s, e)[Len(s) + 1] = e
OBVIOUS

LEMMA TailElements ==
    ASSUME NEW S, NEW s \in Seq(S), s # <<>>
    PROVE  /\ Tail(s) \in Seq(S)
           /\ Head(s) \in S
           /\ Head(s) = s[1]
           /\ 1 \in DOMAIN s
           /\ \A i \in DOMAIN Tail(s) : i + 1 \in DOMAIN s /\ Tail(s)[i] = s[i + 1] /\ i + 1 # 1
OBVIOUS

-----------------------------------------------------------------------------
(* Type correctness, with what the worker's state says about current: a    *)
(* step that ends the current job needs to know that there is one.         *)

TypeInv == TypeOK /\ WorkerHoldsCurrent

LEMMA AppendIndexType ==
    ASSUME TypeOK, NEW j \in Jobs, NEW st \in Status, AppendIndex(j, st)
    PROVE  index' \in [Jobs -> Seq(Status)]
BY DEF TypeOK, AppendIndex

LEMMA TypeInvInductive == Spec => []TypeInv
<1>1. Init => TypeInv
  BY DEF Init, TypeInv, TypeOK, WorkerHoldsCurrent, Status
<1>2. TypeInv /\ [Next]_vars => TypeInv'
  <2> SUFFICES ASSUME TypeInv, [Next]_vars PROVE TypeInv'
    OBVIOUS
  <2> USE DEF TypeInv, TypeOK, WorkerHoldsCurrent
  <2>1. CASE Start
    BY <2>1 DEF Start
  <2>2. CASE Kill
    BY <2>2 DEF Kill, LoseMemory, Status
  <2>3. CASE Stop
    <3>1. current \in Jobs /\ "running" \in Status
      BY <2>3 DEF Stop, Status
    <3>2. index' \in [Jobs -> Seq(Status)]
      BY <2>3, <3>1 DEF Stop, AppendIndex
    <3> QED
      BY <2>3, <3>2 DEF Stop, LoseMemory, Status
  <2>4. ASSUME NEW j \in Jobs, Enqueue(j) PROVE TypeInv'
    <3>1. index' \in [Jobs -> Seq(Status)]
      BY <2>4 DEF Enqueue, AppendIndex, Status
    <3>2. jobs' \in [Jobs -> Status \cup {"none"}]
      BY <2>4 DEF Enqueue, Register, Status
    <3>3. /\ created' \in Seq(Jobs)
          /\ queue' \in Seq(Jobs)
          /\ accepted' \in Seq(Jobs)
      BY <2>4 DEF Enqueue, Register
    <3> QED
      BY <2>4, <3>1, <3>2, <3>3 DEF Enqueue, Register
  <2>5. ASSUME NEW j \in Jobs, EnqueueFails(j) PROVE TypeInv'
    BY <2>5 DEF EnqueueFails, Register, Status
  <2>6. ASSUME NEW j \in Jobs, Take(j) PROVE TypeInv'
    <3>1. index' \in [Jobs -> Seq(Status)]
      BY <2>6 DEF Take, AppendIndex, Status
    <3>2. queue' \in Seq(Jobs) /\ taken' \in Seq(Jobs) /\ current' = j
      BY <2>6, TailElements DEF Take, Pop
    <3>3. jobs' \in [Jobs -> Status \cup {"none"}]
      BY <2>6 DEF Take, Pop, Status
    <3> QED
      BY <2>6, <3>1, <3>2, <3>3 DEF Take, Pop
  <2>7. ASSUME NEW j \in Jobs, TakeFails(j) PROVE TypeInv'
    <3>2. queue' \in Seq(Jobs) /\ taken' \in Seq(Jobs) /\ current' = j
      BY <2>7, TailElements DEF TakeFails, Pop
    <3>3. jobs' \in [Jobs -> Status \cup {"none"}]
      BY <2>7 DEF TakeFails, Pop, Status
    <3> QED
      BY <2>7, <3>2, <3>3 DEF TakeFails, Pop
  <2>8. ASSUME NEW o \in Terminal, Finish(o) PROVE TypeInv'
    <3>1. current \in Jobs /\ o \in Status
      BY <2>8 DEF Finish, Settle, Status, Terminal
    <3>2. index' \in [Jobs -> Seq(Status)]
      BY <2>8, <3>1 DEF Finish, AppendIndex
    <3>3. jobs' \in [Jobs -> Status \cup {"none"}]
      BY <2>8, <3>1 DEF Finish, Settle
    <3> QED
      BY <2>8, <3>1, <3>2, <3>3 DEF Finish
  <2>9. ASSUME NEW o \in Terminal, FinishIndexFails(o) PROVE TypeInv'
    <3>1. current \in Jobs /\ o \in Status
      BY <2>9 DEF FinishIndexFails, Settle, Status, Terminal
    <3>2. jobs' \in [Jobs -> Status \cup {"none"}]
      BY <2>9, <3>1 DEF FinishIndexFails, Settle
    <3> QED
      BY <2>9, <3>1, <3>2 DEF FinishIndexFails
  <2>10. CASE AuditFails
    <3>1. current \in Jobs /\ "failed" \in Status
      BY <2>10 DEF AuditFails, Settle, Status
    <3>2. index' \in [Jobs -> Seq(Status)]
      BY <2>10, <3>1, AppendIndexType DEF AuditFails
    <3>3. jobs' \in [Jobs -> Status \cup {"none"}]
      BY <2>10, <3>1 DEF AuditFails, Settle
    <3> QED
      BY <2>10, <3>2, <3>3 DEF AuditFails
  <2>11. CASE ErrorLogFails
    <3>1. current \in Jobs /\ "running" \in Status
      BY <2>11 DEF ErrorLogFails, Status
    <3>2. index' \in [Jobs -> Seq(Status)]
      BY <2>11, <3>1, AppendIndexType DEF ErrorLogFails
    <3> QED
      BY <2>11, <3>2 DEF ErrorLogFails
  <2>12. CASE UNCHANGED vars
    BY <2>12 DEF vars, processVars
  <2>13. QED
    BY <2>1, <2>2, <2>3, <2>4, <2>5, <2>6, <2>7, <2>8, <2>9, <2>10, <2>11, <2>12
       DEF Next
<1>3. QED
  BY <1>1, <1>2, PTL DEF Spec

\* Every variable of jobs.py keeps its type along every behaviour.
THEOREM TypeCorrect == Spec => []TypeOK
<1>1. TypeInv => TypeOK
  BY DEF TypeInv
<1>2. QED
  BY <1>1, TypeInvInductive, PTL

-----------------------------------------------------------------------------
(* The inductive invariant.                                                *)

LEMMA QueueInvInit == Init => QueueInv
BY DEF Init, QueueInv, TypeOK, WorkerHoldsCurrent, RunningIsCurrent,
       QueueDistinct, QueuedIsRunnable, Status

\* A process that ends leaves an empty queue and an empty registry.
LEMMA LoseMemoryKeeps ==
    ASSUME LoseMemory
    PROVE  RunningIsCurrent' /\ QueueDistinct' /\ QueuedIsRunnable'
BY DEF LoseMemory, RunningIsCurrent, QueueDistinct, QueuedIsRunnable

\* An id that is new cannot be on the queue: what is there is registered.
LEMMA EnqueueKeeps ==
    ASSUME QueueInv, NEW j \in Jobs, Enqueue(j)
    PROVE  RunningIsCurrent' /\ QueueDistinct' /\ QueuedIsRunnable'
<1> USE DEF QueueInv, TypeOK
<1>1. /\ jobs[j] = "none"
      /\ jobs' = [jobs EXCEPT ![j] = "queued"]
      /\ callbacks' = callbacks \cup {j}
      /\ queue' = Append(queue, j)
      /\ current' = current
  BY DEF Enqueue, Register, Fresh
<1>2. \A i \in DOMAIN queue : queue[i] # j
  BY <1>1 DEF QueuedIsRunnable
<1>3. RunningIsCurrent'
  BY <1>1 DEF RunningIsCurrent
<1>4. /\ DOMAIN queue = 1 .. Len(queue)
      /\ DOMAIN queue' = 1 .. (Len(queue) + 1)
      /\ \A i \in DOMAIN queue : queue'[i] = queue[i] /\ queue[i] \in Jobs
      /\ queue'[Len(queue) + 1] = j
      /\ Len(queue) \in Nat
  BY <1>1, AppendElements
<1>5. \A i \in DOMAIN queue' :
         \/ i \in DOMAIN queue /\ queue'[i] = queue[i] /\ queue'[i] # j
         \/ i = Len(queue) + 1 /\ queue'[i] = j
  <2> SUFFICES ASSUME NEW i \in DOMAIN queue', i # Len(queue) + 1
               PROVE  i \in DOMAIN queue
    BY <1>2, <1>4
  <2> QED
    BY <1>4
<1>6. QueueDistinct'
  BY <1>2, <1>4, <1>5 DEF QueueDistinct
<1>7. QueuedIsRunnable'
  <2> SUFFICES ASSUME NEW i \in DOMAIN queue'
               PROVE  jobs'[queue'[i]] = "queued" /\ queue'[i] \in callbacks'
    BY DEF QueuedIsRunnable
  <2>1. CASE queue'[i] = j
    BY <1>1, <2>1
  <2>2. CASE i \in DOMAIN queue /\ queue'[i] = queue[i] /\ queue'[i] # j
    BY <1>1, <1>4, <2>2 DEF QueuedIsRunnable
  <2>3. QED
    BY <1>5, <2>1, <2>2
<1>8. QED
  BY <1>3, <1>6, <1>7

\* A registration that fails puts nothing on the queue.
LEMMA EnqueueFailsKeeps ==
    ASSUME QueueInv, NEW j \in Jobs, EnqueueFails(j)
    PROVE  RunningIsCurrent' /\ QueueDistinct' /\ QueuedIsRunnable'
<1> USE DEF QueueInv, TypeOK
<1>1. /\ jobs[j] = "none"
      /\ jobs' = [jobs EXCEPT ![j] = "queued"]
      /\ callbacks' = callbacks \cup {j}
      /\ queue' = queue
      /\ current' = current
  BY DEF EnqueueFails, Register, Fresh
<1>2. \A i \in DOMAIN queue : queue[i] # j /\ queue[i] \in Jobs
  BY <1>1 DEF QueuedIsRunnable
<1>3. RunningIsCurrent'
  BY <1>1 DEF RunningIsCurrent
<1>4. QED
  BY <1>1, <1>2, <1>3 DEF QueueDistinct, QueuedIsRunnable

\* The job that is popped becomes the only running one: an idle worker holds
\* none, so no other is running.
LEMMA PopKeeps ==
    ASSUME QueueInv, NEW j \in Jobs, Pop(j)
    PROVE  RunningIsCurrent' /\ QueueDistinct' /\ QueuedIsRunnable'
<1> USE DEF QueueInv, TypeOK
<1>1. /\ worker = "idle"
      /\ queue # <<>>
      /\ j = Head(queue)
      /\ queue' = Tail(queue)
      /\ callbacks' = callbacks \ {j}
      /\ jobs' = [jobs EXCEPT ![j] = "running"]
      /\ current' = j
  BY DEF Pop
<1>2. current = NoJob
  BY <1>1 DEF WorkerHoldsCurrent
<1>3. RunningIsCurrent'
  BY <1>1, <1>2 DEF RunningIsCurrent
<1>4. /\ 1 \in DOMAIN queue
      /\ queue[1] = j
      /\ \A i \in DOMAIN queue' :
            /\ i + 1 \in DOMAIN queue
            /\ queue'[i] = queue[i + 1]
            /\ i + 1 # 1
            /\ i \in Nat
  BY <1>1, TailElements
<1>5. QueueDistinct'
  BY <1>4 DEF QueueDistinct
<1>6. \A i \in DOMAIN queue' : queue'[i] # j /\ queue'[i] \in Jobs
  BY <1>4 DEF QueueDistinct
<1>7. QueuedIsRunnable'
  BY <1>1, <1>4, <1>6 DEF QueuedIsRunnable
<1>8. QED
  BY <1>3, <1>5, <1>7

\* A job that ends was running, so it is not on the queue.
LEMMA SettleKeeps ==
    ASSUME QueueInv, NEW o \in Terminal, Settle(o),
           current' = NoJob, UNCHANGED <<queue, callbacks>>
    PROVE  RunningIsCurrent' /\ QueueDistinct' /\ QueuedIsRunnable'
<1> USE DEF QueueInv, TypeOK
<1>1. /\ current \in Jobs
      /\ jobs' = [jobs EXCEPT ![current] = o]
      /\ o # "running"
  BY DEF Settle, WorkerHoldsCurrent, Terminal
<1>2. jobs[current] = "running"
  BY <1>1 DEF RunningIsCurrent
<1>3. RunningIsCurrent'
  BY <1>1 DEF RunningIsCurrent
<1>4. \A i \in DOMAIN queue : queue[i] # current /\ queue[i] \in Jobs
  BY <1>2 DEF QueuedIsRunnable
<1>5. QED
  BY <1>1, <1>3, <1>4 DEF QueueDistinct, QueuedIsRunnable

LEMMA QueueInvNext == QueueInv /\ TypeInv' /\ [Next]_vars => QueueInv'
<1> SUFFICES ASSUME QueueInv, TypeInv', [Next]_vars
             PROVE  RunningIsCurrent' /\ QueueDistinct' /\ QueuedIsRunnable'
  BY DEF QueueInv, TypeInv
<1>1. CASE Start
  BY <1>1 DEF Start, QueueInv, RunningIsCurrent, QueueDistinct, QueuedIsRunnable
<1>2. CASE Kill \/ Stop
  BY <1>2, LoseMemoryKeeps DEF Kill, Stop
<1>3. ASSUME NEW j \in Jobs, Enqueue(j) \/ EnqueueFails(j)
      PROVE  RunningIsCurrent' /\ QueueDistinct' /\ QueuedIsRunnable'
  BY <1>3, EnqueueKeeps, EnqueueFailsKeeps
<1>4. ASSUME NEW j \in Jobs, Take(j) \/ TakeFails(j)
      PROVE  RunningIsCurrent' /\ QueueDistinct' /\ QueuedIsRunnable'
  BY <1>4, PopKeeps DEF Take, TakeFails
<1>5. ASSUME NEW o \in Terminal, Finish(o) \/ FinishIndexFails(o)
      PROVE  RunningIsCurrent' /\ QueueDistinct' /\ QueuedIsRunnable'
  BY <1>5, SettleKeeps DEF Finish, FinishIndexFails
<1>6. CASE AuditFails
  <2>1. "failed" \in Terminal
    BY DEF Terminal
  <2>2. QED
    BY <1>6, <2>1, SettleKeeps DEF AuditFails
<1>7. CASE ErrorLogFails
  BY <1>7 DEF ErrorLogFails, QueueInv, RunningIsCurrent, QueueDistinct,
              QueuedIsRunnable
<1>8. CASE UNCHANGED vars
  BY <1>8 DEF vars, processVars, QueueInv, RunningIsCurrent, QueueDistinct,
              QueuedIsRunnable
<1>9. QED
  BY <1>1, <1>2, <1>3, <1>4, <1>5, <1>6, <1>7, <1>8 DEF Next

LEMMA QueueInvInductive == Spec => []QueueInv
BY QueueInvInit, QueueInvNext, TypeInvInductive, PTL DEF Spec

\* At most one job has the status RUNNING, whatever writes fail.
THEOREM SingleFlightHolds == Spec => []SingleFlight
<1>1. QueueInv => SingleFlight
  BY DEF QueueInv, RunningIsCurrent, SingleFlight
<1>2. QED
  BY <1>1, QueueInvInductive, PTL

\* The worker never drops an id: what waits has its job and its callback.
THEOREM QueuedIsRunnableHolds == Spec => []QueuedIsRunnable
<1>1. QueueInv => QueuedIsRunnable
  BY DEF QueueInv
<1>2. QED
  BY <1>1, QueueInvInductive, PTL

-----------------------------------------------------------------------------
(* Sequences: an element moved from the head of one to the end of another. *)

LEMMA ConcatAppend ==
    \A s, t \in Seq(Jobs) : \A e \in Jobs : s \o Append(t, e) = Append(s \o t, e)
<1> TAKE s, t \in Seq(Jobs)
<1> TAKE e \in Jobs
<1>1. /\ s \o Append(t, e) \in Seq(Jobs)
      /\ Append(s \o t, e) \in Seq(Jobs)
      /\ Len(s \o Append(t, e)) = Len(Append(s \o t, e))
  OBVIOUS
<1>2. \A i \in 1 .. Len(s \o Append(t, e)) :
         (s \o Append(t, e))[i] = Append(s \o t, e)[i]
  OBVIOUS
<1>3. QED
  BY <1>1, <1>2, SeqEqual

LEMMA AppendHeadTail ==
    ASSUME NEW S, NEW s \in Seq(S), NEW t \in Seq(S), t # <<>>
    PROVE  Append(s, Head(t)) \o Tail(t) = s \o t
<1>1. /\ Append(s, Head(t)) \in Seq(S)
      /\ Tail(t) \in Seq(S)
      /\ Append(s, Head(t)) \o Tail(t) \in Seq(S)
      /\ s \o t \in Seq(S)
  OBVIOUS
<1>2. Len(Append(s, Head(t)) \o Tail(t)) = Len(s \o t)
  OBVIOUS
<1>3. \A i \in 1 .. Len(s \o t) :
         (Append(s, Head(t)) \o Tail(t))[i] = (s \o t)[i]
  OBVIOUS
<1>4. QED
  BY <1>1, <1>2, <1>3, SeqEqual

LEMMA ConsElements ==
    ASSUME NEW S, NEW s \in Seq(S), NEW e \in S
    PROVE  \A i \in DOMAIN (<<e>> \o s) :
              \/ (<<e>> \o s)[i] = e
              \/ i - 1 \in DOMAIN s /\ (<<e>> \o s)[i] = s[i - 1]
<1>1. /\ <<e>> \in Seq(S)
      /\ DOMAIN (<<e>> \o s) = 1 .. (Len(s) + 1)
      /\ DOMAIN s = 1 .. Len(s)
      /\ Len(s) \in Nat
      /\ \A i \in 1 .. Len(s) + 1 :
            (<<e>> \o s)[i] = IF i = 1 THEN e ELSE s[i - 1]
  OBVIOUS
<1>2. QED
  BY <1>1

LEMMA ConsHeadTail ==
    ASSUME NEW S, NEW s \in Seq(S), NEW e \in S
    PROVE  /\ <<e>> \o s # <<>>
           /\ Head(<<e>> \o s) = e
           /\ Tail(<<e>> \o s) = s
<1>1. /\ <<e>> \in Seq(S)
      /\ <<e>> \o s \in Seq(S)
      /\ Len(<<e>> \o s) = Len(s) + 1
      /\ \A i \in 1 .. Len(s) + 1 :
            (<<e>> \o s)[i] = IF i = 1 THEN e ELSE s[i - 1]
  OBVIOUS
<1>2. <<e>> \o s # <<>>
  BY <1>1
<1>3. Tail(<<e>> \o s) = s
  <2>1. /\ Tail(<<e>> \o s) \in Seq(S)
        /\ Len(Tail(<<e>> \o s)) = Len(s)
    BY <1>1, <1>2
  <2>2. \A i \in 1 .. Len(s) : Tail(<<e>> \o s)[i] = s[i]
    BY <1>1, <1>2
  <2>3. QED
    BY <2>1, <2>2, SeqEqual
<1>4. QED
  BY <1>1, <1>2, <1>3

-----------------------------------------------------------------------------
(* FIFO, no loss, no repetition.                                           *)

\* Why an id is not accepted twice: what was accepted is in the registry.
AcceptedIsRegistered ==
    \A i \in DOMAIN accepted : jobs[accepted[i]] # "none"

FifoInv == FifoNoLoss /\ AcceptedIsRegistered

\* What leaves the registry alone, apart from statuses, and moves nothing.
LEMMA FifoUnmoved ==
    ASSUME TypeOK, FifoInv, UNCHANGED <<accepted, taken, queue>>,
           \A j \in Jobs : jobs[j] # "none" => jobs'[j] # "none"
    PROVE  FifoInv'
<1>1. \A i \in DOMAIN accepted : accepted[i] \in Jobs
  BY DEF TypeOK
<1>2. QED
  BY <1>1 DEF FifoInv, FifoNoLoss, AcceptedIsRegistered, IsInjective

LEMMA FifoEnqueue ==
    ASSUME TypeOK, FifoInv, NEW j \in Jobs, Enqueue(j)
    PROVE  FifoInv'
<1>1. /\ jobs[j] = "none"
      /\ jobs' = [jobs EXCEPT ![j] = "queued"]
      /\ queue' = Append(queue, j)
      /\ accepted' = Append(accepted, j)
      /\ taken' = taken
  BY DEF Enqueue, Register, Fresh
<1>2. taken' \o queue' = accepted'
  <2>1. /\ taken \in Seq(Jobs)
        /\ queue \in Seq(Jobs)
        /\ taken \o queue = accepted
    BY DEF TypeOK, FifoInv, FifoNoLoss
  <2>2. taken \o Append(queue, j) = Append(taken \o queue, j)
    BY <2>1, ConcatAppend, Zenon
  <2>3. QED
    BY <1>1, <2>1, <2>2, Zenon
<1>3. /\ DOMAIN accepted = 1 .. Len(accepted)
      /\ DOMAIN accepted' = 1 .. (Len(accepted) + 1)
      /\ \A i \in DOMAIN accepted : accepted'[i] = accepted[i] /\ accepted[i] \in Jobs
      /\ accepted'[Len(accepted) + 1] = j
      /\ Len(accepted) \in Nat
  BY <1>1, AppendElements DEF TypeOK
<1>4. \A i \in DOMAIN accepted : accepted[i] # j
  BY <1>1 DEF FifoInv, AcceptedIsRegistered
<1>5. \A i \in DOMAIN accepted' :
         \/ i \in DOMAIN accepted /\ accepted'[i] = accepted[i] /\ accepted'[i] # j
         \/ i = Len(accepted) + 1 /\ accepted'[i] = j
  <2> SUFFICES ASSUME NEW i \in DOMAIN accepted', i # Len(accepted) + 1
               PROVE  i \in DOMAIN accepted
    BY <1>3, <1>4
  <2> QED
    BY <1>3
<1>6. IsInjective(accepted')
  BY <1>3, <1>4, <1>5 DEF FifoInv, FifoNoLoss, IsInjective
<1>7. AcceptedIsRegistered'
  <2> SUFFICES ASSUME NEW i \in DOMAIN accepted'
               PROVE  jobs'[accepted'[i]] # "none"
    BY DEF AcceptedIsRegistered
  <2>1. CASE accepted'[i] = j
    BY <1>1, <2>1 DEF TypeOK
  <2>2. CASE i \in DOMAIN accepted /\ accepted'[i] = accepted[i] /\ accepted'[i] # j
    BY <1>1, <1>3, <2>2 DEF FifoInv, AcceptedIsRegistered, TypeOK
  <2>3. QED
    BY <1>5, <2>1, <2>2
<1>8. QED
  BY <1>2, <1>6, <1>7 DEF FifoInv, FifoNoLoss

LEMMA FifoPop ==
    ASSUME TypeOK, FifoInv, NEW j \in Jobs, Pop(j), accepted' = accepted
    PROVE  FifoInv'
<1>1. taken' \o queue' = taken \o queue
  <2>1. /\ taken \in Seq(Jobs)
        /\ queue \in Seq(Jobs)
        /\ queue # <<>>
        /\ taken' = Append(taken, Head(queue))
        /\ queue' = Tail(queue)
    BY DEF Pop, TypeOK
  <2>2. Append(taken, Head(queue)) \o Tail(queue) = taken \o queue
    BY <2>1, AppendHeadTail, Zenon
  <2>3. QED
    BY <2>1, <2>2, Zenon
<1>2. \A i \in DOMAIN accepted : accepted[i] \in Jobs
  BY DEF TypeOK
<1>3. FifoNoLoss'
  BY <1>1 DEF FifoInv, FifoNoLoss
<1>4. \A k \in Jobs : jobs[k] # "none" => jobs'[k] # "none"
  BY DEF Pop, TypeOK
<1>5. AcceptedIsRegistered'
  BY <1>2, <1>4 DEF FifoInv, AcceptedIsRegistered
<1>6. QED
  BY <1>3, <1>5 DEF FifoInv

LEMMA FifoInvNext == QueueInv /\ FifoInv /\ [Next]_vars => FifoInv'
<1> SUFFICES ASSUME QueueInv, FifoInv, [Next]_vars PROVE FifoInv'
  OBVIOUS
<1> USE DEF QueueInv
<1>1. CASE Start
  BY <1>1, FifoUnmoved DEF Start
<1>2. CASE Kill \/ Stop
  <2>1. accepted' = <<>> /\ taken' = <<>> /\ queue' = <<>>
    BY <1>2 DEF Kill, Stop, LoseMemory
  <2>2. QED
    BY <2>1 DEF FifoInv, FifoNoLoss, AcceptedIsRegistered, IsInjective
<1>3. ASSUME NEW j \in Jobs, Enqueue(j) PROVE FifoInv'
  BY <1>3, FifoEnqueue
<1>4. ASSUME NEW j \in Jobs, EnqueueFails(j) PROVE FifoInv'
  BY <1>4, FifoUnmoved DEF EnqueueFails, Register, TypeOK
<1>5. ASSUME NEW j \in Jobs, Take(j) \/ TakeFails(j) PROVE FifoInv'
  BY <1>5, FifoPop DEF Take, TakeFails
<1>6. ASSUME NEW o \in Terminal, Finish(o) \/ FinishIndexFails(o) PROVE FifoInv'
  BY <1>6, FifoUnmoved DEF Finish, FinishIndexFails, Settle, Terminal, TypeOK
<1>7. CASE AuditFails
  BY <1>7, FifoUnmoved DEF AuditFails, Settle, TypeOK
<1>8. CASE ErrorLogFails
  BY <1>8, FifoUnmoved DEF ErrorLogFails
<1>9. CASE UNCHANGED vars
  BY <1>9, FifoUnmoved DEF vars, processVars
<1>10. QED
  BY <1>1, <1>2, <1>3, <1>4, <1>5, <1>6, <1>7, <1>8, <1>9 DEF Next

\* Jobs run in the order enqueue() accepted them; none is lost or run twice.
THEOREM FifoNoLossHolds == Spec => []FifoNoLoss
<1>1. Init => FifoInv
  BY DEF Init, FifoInv, FifoNoLoss, AcceptedIsRegistered, IsInjective
<1>2. FifoInv => FifoNoLoss
  BY DEF FifoInv
<1>3. QED
  BY <1>1, <1>2, FifoInvNext, QueueInvInductive, PTL DEF Spec

-----------------------------------------------------------------------------
(* The records of a job: the index file, the audit log, the listeners.     *)

\* What a process that is not there remembers: nothing.
OffIsEmpty ==
    worker = "off" =>
        /\ accepted = <<>> /\ taken = <<>> /\ notified = {}
        /\ jobs = [j \in Jobs |-> "none"]

\* What the worker popped has ended, but for the job it holds, which is the last.
TakenHasEnded ==
    /\ worker = "idle" => \A i \in DOMAIN taken : jobs[taken[i]] \in Terminal
    /\ worker = "running" =>
          /\ Len(taken) \in DOMAIN taken /\ taken[Len(taken)] = current
          /\ \A i \in DOMAIN taken : i # Len(taken) => jobs[taken[i]] \in Terminal

\* Only an enqueue() that raised tells what was registered from what was accepted.
CreatedIsAccepted == Stranded = {} => created = accepted

RecordInv ==
    /\ OffIsEmpty
    /\ IndexMirrorsRegistry
    /\ EndIsRecorded
    /\ TakenHasEnded
    /\ CreatedIsAccepted

BaseInv == QueueInv /\ FifoInv

LEMMA RangeOfAppend ==
    ASSUME NEW S, NEW s \in Seq(S), NEW e \in S
    PROVE  Range(Append(s, e)) = Range(s) \cup {e}
BY AppendElements DEF Range

\* An entry that is appended is the last one of its job; the other jobs keep theirs.
LEMMA IndexAppended ==
    ASSUME TypeOK, NEW j \in Jobs, NEW st \in Status, AppendIndex(j, st)
    PROVE  /\ index'[j] # <<>> /\ Last(index'[j]) = st
           /\ \A k \in Jobs : k # j => index'[k] = index[k]
<1>1. index[j] \in Seq(Status) /\ index'[j] = Append(index[j], st)
  BY DEF TypeOK, AppendIndex
<1>2. /\ Append(index[j], st) # <<>>
      /\ Append(index[j], st)[Len(Append(index[j], st))] = st
  BY <1>1
<1>3. QED
  BY <1>1, <1>2 DEF Last, AppendIndex, TypeOK

\* Where the elements of p \o q are.
LEMMA ConcatElements ==
    ASSUME NEW S, NEW p \in Seq(S), NEW q \in Seq(S)
    PROVE  /\ DOMAIN p = 1 .. Len(p) /\ DOMAIN q = 1 .. Len(q)
           /\ Len(p) \in Nat /\ Len(q) \in Nat
           /\ Len(p \o q) = Len(p) + Len(q)
           /\ DOMAIN (p \o q) = 1 .. (Len(p) + Len(q))
           /\ \A i \in DOMAIN p : (p \o q)[i] = p[i]
           /\ \A i \in 1 .. (Len(p) + Len(q)) : i > Len(p) => (p \o q)[i] = q[i - Len(p)]
<1>1. Len(p) \in Nat /\ Len(q) \in Nat /\ DOMAIN p = 1 .. Len(p) /\ DOMAIN q = 1 .. Len(q)
  OBVIOUS
<1>2. Len(p \o q) = Len(p) + Len(q) /\ DOMAIN (p \o q) = 1 .. (Len(p) + Len(q))
  BY <1>1
<1>3. \A i \in DOMAIN p : (p \o q)[i] = p[i]
  BY <1>1
<1>4. \A i \in 1 .. (Len(p) + Len(q)) : i > Len(p) => (p \o q)[i] = q[i - Len(p)]
  BY <1>1
<1>5. QED
  BY <1>1, <1>2, <1>3, <1>4

\* What is registered: an accepted id, and with it a taken one or one that waits.
LEMMA AcceptedRegistered ==
    ASSUME BaseInv
    PROVE  /\ \A j \in Range(accepted) : j \in Jobs /\ jobs[j] # "none"
           /\ \A i \in DOMAIN taken : taken[i] \in Range(accepted)
           /\ \A i \in DOMAIN queue : queue[i] \in Range(accepted)
<1>1. \A j \in Range(accepted) : j \in Jobs /\ jobs[j] # "none"
  BY DEF AcceptedIsRegistered, Range, BaseInv, QueueInv, TypeOK, FifoInv, FifoNoLoss
<1>2. /\ taken \in Seq(Jobs) /\ queue \in Seq(Jobs) /\ taken \o queue = accepted
      /\ Len(accepted) = Len(taken) + Len(queue)
      /\ Len(taken) \in Nat /\ Len(queue) \in Nat
      /\ DOMAIN accepted = 1 .. Len(accepted)
      /\ DOMAIN taken = 1 .. Len(taken) /\ DOMAIN queue = 1 .. Len(queue)
  <2>1. taken \in Seq(Jobs) /\ queue \in Seq(Jobs) /\ taken \o queue = accepted
    BY DEF BaseInv, QueueInv, TypeOK, FifoInv, FifoNoLoss
  <2>2. QED
    BY <2>1, ConcatElements
<1>3. \A i \in DOMAIN taken : i \in DOMAIN accepted /\ accepted[i] = taken[i]
  BY <1>2, ConcatElements
<1>4. \A i \in DOMAIN queue :
         Len(taken) + i \in DOMAIN accepted /\ accepted[Len(taken) + i] = queue[i]
  BY <1>2, ConcatElements
<1>5. QED
  BY <1>1, <1>3, <1>4 DEF Range

\* A process that starts knows of no job.
LEMMA RecordStart == RecordInv /\ Start => RecordInv'
<1> SUFFICES ASSUME RecordInv, Start PROVE RecordInv'
  OBVIOUS
<1>1. /\ accepted = <<>> /\ taken = <<>> /\ notified = {}
      /\ jobs = [j \in Jobs |-> "none"]
  BY DEF RecordInv, OffIsEmpty, Start
<1>2. Range(accepted) = {} /\ DOMAIN taken = {}
  BY <1>1 DEF Range
<1>3. UNCHANGED <<accepted, taken, notified, jobs, created, index, audit, queue>> /\ worker' = "idle"
  BY DEF Start
<1>4. OffIsEmpty' /\ IndexMirrorsRegistry' /\ TakenHasEnded'
  BY <1>1, <1>2, <1>3 DEF OffIsEmpty, IndexMirrorsRegistry, TakenHasEnded
<1>5. EndIsRecorded'
  BY <1>1, <1>3 DEF EndIsRecorded, Terminal
<1>6. CreatedIsAccepted'
  BY <1>3 DEF RecordInv, CreatedIsAccepted, Stranded
<1>7. QED
  BY <1>4, <1>5, <1>6 DEF RecordInv

LEMMA RecordLost == LoseMemory => RecordInv'
<1> SUFFICES ASSUME LoseMemory PROVE RecordInv'
  OBVIOUS
<1>1. /\ worker' = "off" /\ accepted' = <<>> /\ created' = <<>> /\ taken' = <<>>
      /\ notified' = {} /\ jobs' = [j \in Jobs |-> "none"]
  BY DEF LoseMemory
<1>2. QED
  BY <1>1 DEF RecordInv, OffIsEmpty, IndexMirrorsRegistry, EndIsRecorded, TakenHasEnded,
              CreatedIsAccepted

\* A new id: no listener heard of it, and no accepted job is touched.
LEMMA RecordEnqueue ==
    ASSUME BaseInv, RecordInv, NEW j \in Jobs, Enqueue(j)
    PROVE  RecordInv'
<1> USE DEF BaseInv, QueueInv, TypeOK
<1>1. /\ worker # "off" /\ worker' = worker /\ current' = current
      /\ jobs[j] = "none" /\ jobs' = [jobs EXCEPT ![j] = "queued"]
      /\ queue' = Append(queue, j) /\ created' = Append(created, j)
      /\ accepted' = Append(accepted, j)
      /\ UNCHANGED <<taken, notified, audit>> /\ AppendIndex(j, "queued")
  BY DEF Enqueue, Register, Fresh
<1>2. /\ index'[j] # <<>> /\ Last(index'[j]) = "queued"
      /\ \A k \in Jobs : k # j => index'[k] = index[k]
  BY <1>1, IndexAppended DEF Status
<1>3. /\ Range(accepted') = Range(accepted) \cup {j}
      /\ Range(queue') = Range(queue) \cup {j}
  BY <1>1, RangeOfAppend
<1>4. \A k \in Range(accepted) : k \in Jobs /\ k # j
  BY <1>1, AcceptedRegistered
<1>5. IndexMirrorsRegistry'
  BY <1>1, <1>2, <1>3, <1>4 DEF RecordInv, IndexMirrorsRegistry
<1>6. EndIsRecorded'
  <2>1. \A k \in notified : k \in Jobs /\ k # j
    BY <1>1 DEF RecordInv, EndIsRecorded, Terminal
  <2>2. {k \in Jobs : jobs'[k] \in Terminal} = {k \in Jobs : jobs[k] \in Terminal}
    BY <1>1 DEF Terminal
  <2>3. QED
    BY <1>1, <1>2, <2>1, <2>2 DEF RecordInv, EndIsRecorded
<1>7. TakenHasEnded'
  <2>1. \A i \in DOMAIN taken : taken[i] \in Jobs /\ taken[i] # j
    BY <1>4, AcceptedRegistered
  <2>2. QED
    BY <1>1, <2>1 DEF RecordInv, TakenHasEnded
<1>8. CreatedIsAccepted'
  <2> SUFFICES ASSUME Stranded' = {} PROVE Stranded = {}
    BY <1>1 DEF RecordInv, CreatedIsAccepted
  <2> QED
    BY <1>1, <1>3 DEF Stranded
<1>9. QED
  BY <1>1, <1>5, <1>6, <1>7, <1>8 DEF RecordInv, OffIsEmpty

\* What is registered and not on the queue is stranded from now on.
LEMMA RecordEnqueueFails ==
    ASSUME BaseInv, RecordInv, NEW j \in Jobs, EnqueueFails(j)
    PROVE  RecordInv'
<1> USE DEF BaseInv, QueueInv, TypeOK
<1>1. /\ worker # "off" /\ worker' = worker /\ current' = current
      /\ jobs[j] = "none" /\ jobs' = [jobs EXCEPT ![j] = "queued"]
      /\ UNCHANGED <<queue, accepted, taken, notified, audit, index>>
  BY DEF EnqueueFails, Register, Fresh
<1>2. \A k \in Range(accepted) : k \in Jobs /\ k # j
  BY <1>1, AcceptedRegistered
<1>3. IndexMirrorsRegistry'
  BY <1>1, <1>2 DEF RecordInv, IndexMirrorsRegistry
<1>4. EndIsRecorded'
  <2>1. \A k \in notified : k \in Jobs /\ k # j
    BY <1>1 DEF RecordInv, EndIsRecorded, Terminal
  <2>2. {k \in Jobs : jobs'[k] \in Terminal} = {k \in Jobs : jobs[k] \in Terminal}
    BY <1>1 DEF Terminal
  <2>3. QED
    BY <1>1, <2>1, <2>2 DEF RecordInv, EndIsRecorded
<1>5. TakenHasEnded'
  <2>1. \A i \in DOMAIN taken : taken[i] \in Jobs /\ taken[i] # j
    BY <1>2, AcceptedRegistered
  <2>2. QED
    BY <1>1, <2>1 DEF RecordInv, TakenHasEnded
<1>6. j \in Stranded'
  <2>1. \A i \in DOMAIN queue : queue[i] # j
    BY <1>1 DEF QueuedIsRunnable
  <2>2. QED
    BY <1>1, <2>1 DEF Stranded, Range
<1>7. QED
  BY <1>1, <1>3, <1>4, <1>5, <1>6 DEF RecordInv, OffIsEmpty, CreatedIsAccepted

\* The job that is popped was queued: nobody was told that it ended.
LEMMA RecordPop ==
    ASSUME BaseInv, RecordInv, NEW j \in Jobs, Take(j) \/ TakeFails(j)
    PROVE  RecordInv'
<1> USE DEF BaseInv, QueueInv, TypeOK
<1>1. /\ worker = "idle" /\ worker' \in {"running", "dead"} /\ current' = j
      /\ queue # <<>> /\ j = Head(queue) /\ queue' = Tail(queue)
      /\ jobs' = [jobs EXCEPT ![j] = "running"]
      /\ taken' = Append(taken, j)
      /\ UNCHANGED <<created, accepted, notified, audit>>
      /\ worker' = "running" => AppendIndex(j, "running")
      /\ worker' = "dead" => index' = index
  BY DEF Take, TakeFails, Pop
<1>2. /\ 1 \in DOMAIN queue /\ queue[1] = j
      /\ \A i \in DOMAIN queue' : i + 1 \in DOMAIN queue /\ queue'[i] = queue[i + 1]
  BY <1>1, TailElements
<1>3. jobs[j] = "queued"
  BY <1>2 DEF QueuedIsRunnable
<1>4. \A k \in Jobs : k # j => index'[k] = index[k]
  BY <1>1, IndexAppended DEF Status
<1>5. IndexMirrorsRegistry'
  <2> SUFFICES ASSUME worker' \in {"idle", "running"}, NEW k \in Range(accepted)
               PROVE  index'[k] # <<>> /\ Last(index'[k]) = jobs'[k]
    BY <1>1 DEF IndexMirrorsRegistry
  <2>1. k \in Jobs /\ index[k] # <<>> /\ Last(index[k]) = jobs[k]
    BY <1>1, AcceptedRegistered DEF RecordInv, IndexMirrorsRegistry
  <2>2. CASE k = j
    BY <1>1, <2>2, IndexAppended DEF Status
  <2>3. CASE k # j
    BY <1>1, <1>4, <2>1, <2>3
  <2>4. QED
    BY <2>2, <2>3
<1>6. EndIsRecorded'
  <2>1. \A k \in notified : k \in Jobs /\ k # j
    BY <1>3 DEF RecordInv, EndIsRecorded, Terminal
  <2>2. {k \in Jobs : jobs'[k] \in Terminal} = {k \in Jobs : jobs[k] \in Terminal}
    BY <1>1, <1>3 DEF Terminal
  <2>3. {k \in Jobs : jobs[k] \in Terminal} = notified
    BY <1>1 DEF RecordInv, EndIsRecorded
  <2>4. QED
    BY <1>1, <1>4, <2>1, <2>2, <2>3 DEF RecordInv, EndIsRecorded
<1>7. TakenHasEnded'
  <2>1. /\ DOMAIN taken' = 1 .. (Len(taken) + 1) /\ DOMAIN taken = 1 .. Len(taken)
        /\ \A i \in DOMAIN taken : taken'[i] = taken[i]
        /\ taken'[Len(taken) + 1] = j /\ Len(taken') = Len(taken) + 1
        /\ Len(taken) \in Nat
    BY <1>1, AppendElements
  <2>2. \A i \in DOMAIN taken : taken[i] \in Jobs /\ jobs'[taken[i]] \in Terminal
    <3>1. \A i \in DOMAIN taken : taken[i] \in Jobs /\ jobs[taken[i]] \in Terminal
      BY <1>1 DEF RecordInv, TakenHasEnded
    <3>2. QED
      BY <1>1, <1>3, <3>1 DEF Terminal
  <2>3. \A i \in DOMAIN taken' : i # Len(taken') => i \in DOMAIN taken
    <3> SUFFICES ASSUME NEW i \in 1 .. (Len(taken) + 1), i # Len(taken) + 1
                 PROVE  i \in 1 .. Len(taken)
      BY <2>1, Zenon
    <3> QED
      BY <2>1
  <2>4. Len(taken') \in DOMAIN taken' /\ taken'[Len(taken')] = j
    BY <2>1
  <2>5. \A i \in DOMAIN taken' : i # Len(taken') => jobs'[taken'[i]] \in Terminal
    BY <2>1, <2>2, <2>3
  <2>6. QED
    BY <1>1, <2>4, <2>5 DEF TakenHasEnded
<1>8. CreatedIsAccepted'
  <2> SUFFICES ASSUME Stranded' = {} PROVE Stranded = {}
    BY <1>1 DEF RecordInv, CreatedIsAccepted
  <2>1. \A k \in Range(queue') : k \in Range(queue)
    BY <1>2 DEF Range
  <2>2. j \in Range(queue)
    BY <1>2 DEF Range
  <2>3. QED
    BY <1>1, <2>1, <2>2 DEF Stranded
<1>9. QED
  BY <1>1, <1>5, <1>6, <1>7, <1>8 DEF RecordInv, OffIsEmpty

\* The job that ends is the last one taken; the listeners hear of it last.
LEMMA RecordSettle ==
    ASSUME BaseInv, RecordInv, NEW o \in Terminal, Settle(o), current' = NoJob,
           \/ /\ worker' = "idle" /\ AppendIndex(current, o) /\ notified' = notified \cup {current}
              /\ audit' = IF o = "failed" THEN audit \cup {current} ELSE audit
           \/ /\ worker' = "dead" /\ notified' = notified
              /\ index' = index \/ AppendIndex(current, o)
              /\ audit' = audit \/ audit' = audit \cup {current},
           UNCHANGED <<created, queue, accepted, taken>>
    PROVE  RecordInv'
<1> USE DEF BaseInv, QueueInv, TypeOK
<1>1. /\ current \in Jobs /\ worker = "running"
      /\ jobs' = [jobs EXCEPT ![current] = o]
      /\ jobs[current] = "running" /\ o \in Status
  BY DEF Settle, WorkerHoldsCurrent, RunningIsCurrent, Terminal, Status
<1>2. \A k \in Jobs : k # current => index'[k] = index[k] /\ jobs'[k] = jobs[k]
  BY <1>1, IndexAppended
<1>3. AppendIndex(current, o) => index'[current] # <<>> /\ Last(index'[current]) = o
  BY <1>1, IndexAppended
<1>4. IndexMirrorsRegistry'
  <2> SUFFICES ASSUME worker' = "idle", NEW k \in Range(accepted)
               PROVE  index'[k] # <<>> /\ Last(index'[k]) = jobs'[k]
    BY DEF IndexMirrorsRegistry
  <2>1. k \in Jobs /\ index[k] # <<>> /\ Last(index[k]) = jobs[k]
    BY <1>1, AcceptedRegistered DEF RecordInv, IndexMirrorsRegistry
  <2>2. CASE k = current
    BY <1>1, <1>3, <2>2
  <2>3. CASE k # current
    BY <1>2, <2>1, <2>3
  <2>4. QED
    BY <2>2, <2>3
<1>5. EndIsRecorded'
  <2>1. \A k \in notified : k \in Jobs /\ k # current
    BY <1>1 DEF RecordInv, EndIsRecorded, Terminal
  <2>2. \A k \in notified' : /\ jobs'[k] \in Terminal
                             /\ Last(index'[k]) = jobs'[k]
                             /\ jobs'[k] = "failed" => k \in audit'
    <3> SUFFICES ASSUME NEW k \in notified'
                 PROVE  /\ jobs'[k] \in Terminal
                        /\ Last(index'[k]) = jobs'[k]
                        /\ jobs'[k] = "failed" => k \in audit'
      OBVIOUS
    <3>1. CASE k \in notified
      BY <1>2, <2>1, <3>1 DEF RecordInv, EndIsRecorded
    <3>2. CASE k \notin notified
      <4>1. k = current /\ AppendIndex(current, o)
            /\ audit' = IF o = "failed" THEN audit \cup {current} ELSE audit
        BY <3>2
      <4>2. QED
        BY <1>1, <1>3, <4>1
    <3>3. QED
      BY <3>1, <3>2
  <2>3. {k \in Jobs : jobs'[k] \in Terminal} = notified \cup {current}
    <3>1. {k \in Jobs : jobs[k] \in Terminal} = notified
      BY <1>1 DEF RecordInv, EndIsRecorded
    <3>2. QED
      BY <1>1, <3>1
  <2>4. QED
    BY <2>2, <2>3 DEF EndIsRecorded
<1>6. TakenHasEnded'
  <2>1. \A i \in DOMAIN taken : taken[i] \in Jobs
    OBVIOUS
  <2>2. /\ Len(taken) \in DOMAIN taken /\ taken[Len(taken)] = current
        /\ \A i \in DOMAIN taken : i # Len(taken) => jobs[taken[i]] \in Terminal
    BY <1>1 DEF RecordInv, TakenHasEnded
  <2>3. QED
    BY <1>1, <2>1, <2>2 DEF TakenHasEnded
<1>7. CreatedIsAccepted'
  <2> SUFFICES ASSUME Stranded' = {} PROVE Stranded = {}
    BY DEF RecordInv, CreatedIsAccepted
  <2> QED
    BY <1>1 DEF Stranded
<1>8. QED
  BY <1>4, <1>5, <1>6, <1>7 DEF RecordInv, OffIsEmpty

LEMMA RecordInvNext == BaseInv /\ RecordInv /\ [Next]_vars => RecordInv'
<1> SUFFICES ASSUME BaseInv, RecordInv, [Next]_vars PROVE RecordInv'
  OBVIOUS
<1>1. CASE Start
  BY <1>1, RecordStart
<1>2. CASE Kill \/ Stop
  BY <1>2, RecordLost DEF Kill, Stop
<1>3. ASSUME NEW j \in Jobs, Enqueue(j) \/ EnqueueFails(j) PROVE RecordInv'
  BY <1>3, RecordEnqueue, RecordEnqueueFails
<1>4. ASSUME NEW j \in Jobs, Take(j) \/ TakeFails(j) PROVE RecordInv'
  BY <1>4, RecordPop
<1>5. ASSUME NEW o \in Terminal, Finish(o) PROVE RecordInv'
  BY <1>5, RecordSettle DEF Finish
<1>6. ASSUME NEW o \in Terminal, FinishIndexFails(o) PROVE RecordInv'
  <2>1. audit' = audit \/ audit' = audit \cup {current}
    BY <1>6 DEF FinishIndexFails
  <2>2. QED
    BY <1>6, <2>1, RecordSettle DEF FinishIndexFails
<1>7. CASE AuditFails
  BY <1>7, RecordSettle DEF AuditFails, Terminal
<1>8. CASE ErrorLogFails
  <2>1. /\ worker' = "dead"
        /\ UNCHANGED <<jobs, created, queue, audit, notified, accepted, taken>>
        /\ index' = index \/ AppendIndex(current, "running")
        /\ current \in Jobs /\ jobs[current] = "running"
    BY <1>8 DEF ErrorLogFails, BaseInv, QueueInv, WorkerHoldsCurrent, RunningIsCurrent
  <2>2. \A k \in Jobs : k # current => index'[k] = index[k]
    BY <2>1, IndexAppended DEF BaseInv, QueueInv, Status
  <2>3. \A k \in notified : k \in Jobs /\ k # current
    BY <2>1 DEF RecordInv, EndIsRecorded, Terminal, BaseInv, QueueInv, TypeOK
  <2>4. QED
    BY <2>1, <2>2, <2>3 DEF RecordInv, OffIsEmpty, IndexMirrorsRegistry, EndIsRecorded,
                            TakenHasEnded, CreatedIsAccepted, Stranded
<1>9. CASE UNCHANGED vars
  BY <1>9 DEF vars, processVars, RecordInv, OffIsEmpty, IndexMirrorsRegistry, EndIsRecorded,
              TakenHasEnded, CreatedIsAccepted, Stranded
<1>10. QED
  BY <1>1, <1>2, <1>3, <1>4, <1>5, <1>6, <1>7, <1>8, <1>9 DEF Next

LEMMA RecordInvInit == Init => RecordInv
<1> SUFFICES ASSUME Init PROVE RecordInv
  OBVIOUS
<1>1. /\ worker = "off" /\ accepted = <<>> /\ created = <<>> /\ taken = <<>>
      /\ notified = {} /\ jobs = [j \in Jobs |-> "none"]
  BY DEF Init
<1>2. QED
  BY <1>1 DEF RecordInv, OffIsEmpty, IndexMirrorsRegistry, EndIsRecorded, TakenHasEnded,
              CreatedIsAccepted

-----------------------------------------------------------------------------
(* active_job(): the first active position of created is that of the job   *)
(* the worker holds, or else of the head of the queue, because everything  *)
(* before it has ended.                                                    *)

LEMMA LeastIndex ==
    ASSUME NEW S \in SUBSET Nat, NEW m \in S, \A i \in S : m <= i
    PROVE  Min(S) = m
<1>1. \A x \in S : (\A y \in S : x =< y) => x = m
  <2> SUFFICES ASSUME NEW x \in S, \A y \in S : x =< y PROVE x = m
    OBVIOUS
  <2>1. x =< m /\ m =< x /\ x \in Nat /\ m \in Nat
    OBVIOUS
  <2>2. QED
    BY <2>1
<1>2. QED
  BY <1>1 DEF Min

LEMMA ActiveJobRight == BaseInv /\ RecordInv => ActiveJobIsRight
<1> SUFFICES ASSUME BaseInv, RecordInv, Stranded = {}, worker \in {"idle", "running"}
             PROVE  ActiveJob = CASE worker = "running" -> current
                                  [] worker = "idle" /\ queue # <<>> -> Head(queue)
                                  [] OTHER -> NoJob
  BY DEF ActiveJobIsRight
<1> USE DEF BaseInv, QueueInv, TypeOK
<1> DEFINE active == {i \in DOMAIN created : jobs[created[i]] \in {"queued", "running"}}
<1>1. ActiveJob = IF active = {} THEN NoJob ELSE created[Min(active)]
  BY DEF ActiveJob
<1>2. /\ created = taken \o queue
      /\ taken \in Seq(Jobs) /\ queue \in Seq(Jobs)
      /\ Len(taken) \in Nat /\ Len(queue) \in Nat
  BY DEF RecordInv, CreatedIsAccepted, FifoInv, FifoNoLoss
<1>3. /\ DOMAIN created = 1 .. (Len(taken) + Len(queue))
      /\ DOMAIN taken = 1 .. Len(taken) /\ DOMAIN queue = 1 .. Len(queue)
      /\ \A i \in DOMAIN taken : created[i] = taken[i]
      /\ \A i \in 1 .. (Len(taken) + Len(queue)) :
            i > Len(taken) => i - Len(taken) \in DOMAIN queue /\ created[i] = queue[i - Len(taken)]
  BY <1>2, ConcatElements
<1>4. active \in SUBSET Nat
  BY <1>3
<1>5. CASE worker = "running"
  <2>1. /\ Len(taken) \in DOMAIN taken /\ taken[Len(taken)] = current
        /\ \A i \in DOMAIN taken : i # Len(taken) => jobs[taken[i]] \in Terminal
    BY <1>5 DEF RecordInv, TakenHasEnded
  <2>2. current \in Jobs /\ jobs[current] = "running"
    BY <1>5 DEF WorkerHoldsCurrent, RunningIsCurrent
  <2>3. Len(taken) \in active /\ created[Len(taken)] = current
    <3>1. Len(taken) \in DOMAIN created
      BY <1>2, <1>3, <2>1
    <3>2. created[Len(taken)] = current
      BY <1>3, <2>1
    <3>3. QED
      BY <2>2, <3>1, <3>2
  <2>4. \A i \in active : Len(taken) <= i
    <3> SUFFICES ASSUME NEW i \in DOMAIN created, i < Len(taken)
                 PROVE  jobs[created[i]] \notin {"queued", "running"}
      BY <1>2, <1>3
    <3>1. i \in DOMAIN taken /\ i # Len(taken)
      BY <1>2, <1>3
    <3>2. QED
      BY <1>3, <2>1, <3>1 DEF Terminal
  <2>5. Min(active) = Len(taken)
    BY <1>4, <2>3, <2>4, LeastIndex
  <2>6. QED
    BY <1>1, <1>5, <2>3, <2>5
<1>6. CASE worker = "idle"
  <2>1. \A i \in DOMAIN taken : jobs[taken[i]] \in Terminal
    BY <1>6 DEF RecordInv, TakenHasEnded
  <2>2. \A i \in active : Len(taken) + 1 <= i
    <3> SUFFICES ASSUME NEW i \in DOMAIN created, i < Len(taken) + 1
                 PROVE  jobs[created[i]] \notin {"queued", "running"}
      BY <1>2, <1>3
    <3>1. i \in DOMAIN taken
      BY <1>2, <1>3
    <3>2. QED
      BY <1>3, <2>1, <3>1 DEF Terminal
  <2>3. CASE queue # <<>>
    <3>1. 1 \in DOMAIN queue /\ queue[1] = Head(queue)
      BY <1>2, <2>3, TailElements
    <3>2. /\ Len(taken) + 1 \in DOMAIN created
          /\ created[Len(taken) + 1] = queue[1]
      BY <1>2, <1>3, <3>1
    <3>3. jobs[queue[1]] = "queued"
      BY <3>1 DEF QueuedIsRunnable
    <3>4. Len(taken) + 1 \in active
      BY <3>2, <3>3
    <3>5. Min(active) = Len(taken) + 1
      BY <1>4, <2>2, <3>4, LeastIndex
    <3>6. QED
      BY <1>1, <1>6, <2>3, <3>1, <3>2, <3>4, <3>5
  <2>4. CASE queue = <<>>
    <3>1. Len(queue) = 0
      BY <2>4
    <3>2. active = {}
      BY <1>2, <1>3, <2>2, <3>1
    <3>3. QED
      BY <1>1, <1>6, <2>4, <3>2
  <2>5. QED
    BY <2>3, <2>4
<1>7. QED
  BY <1>5, <1>6

\* Whichever write fails: what waits can run, the index and the audit log say what the registry
\* says, the listeners hear of every end, and active_job() names the right job.
THEOREM QueueHoldsAlways == Spec => []QueueHolds
<1>1. Init => FifoInv
  BY DEF Init, FifoInv, FifoNoLoss, AcceptedIsRegistered, IsInjective
<1>2. Spec => []BaseInv
  BY <1>1, FifoInvNext, QueueInvInductive, PTL DEF Spec, BaseInv
<1>3. Spec => []RecordInv
  BY <1>2, RecordInvInit, RecordInvNext, PTL DEF Spec
<1>4. BaseInv /\ RecordInv => QueueHolds
  <2> SUFFICES ASSUME BaseInv, RecordInv PROVE QueueHolds
    OBVIOUS
  <2>1. SingleFlight
    BY DEF BaseInv, QueueInv, RunningIsCurrent, SingleFlight
  <2>2. QED
    BY <2>1, ActiveJobRight DEF BaseInv, QueueInv, RecordInv, QueueHolds
<1>5. QED
  BY <1>2, <1>3, <1>4, PTL

-----------------------------------------------------------------------------
(* The refinement of JobService.                                           *)

pendingBar == IF current = NoJob THEN queue ELSE <<current>> \o queue
busyBar == current # NoJob
endedBar == [j \in Jobs |-> IF jobs[j] \in Terminal THEN jobs[j] ELSE "no"]

LEMMA RefineEnqueue ==
    ASSUME QueueInv, NEW j \in Jobs, Enqueue(j)
    PROVE  Service!Submit(j)
<1> USE DEF QueueInv, TypeOK
<1>1. /\ jobs[j] = "none"
      /\ jobs' = [jobs EXCEPT ![j] = "queued"]
      /\ queue' = Append(queue, j)
      /\ current' = current
  BY DEF Enqueue, Register, Fresh
<1>2. endedBar[j] = "no" /\ endedBar' = endedBar
  BY <1>1 DEF endedBar, Terminal
<1>3. /\ j # current
      /\ \A i \in DOMAIN queue : queue[i] # j
  BY <1>1 DEF RunningIsCurrent, QueuedIsRunnable
<1>4. pendingBar' = Append(pendingBar, j)
  <2>1. CASE current = NoJob
    BY <1>1, <2>1 DEF pendingBar
  <2>2. CASE current # NoJob
    <3>1. current \in Jobs /\ <<current>> \in Seq(Jobs)
      BY <2>2
    <3>2. <<current>> \o Append(queue, j) = Append(<<current>> \o queue, j)
      BY <3>1, ConcatAppend, Zenon
    <3>3. QED
      BY <1>1, <2>2, <3>2 DEF pendingBar
  <2>3. QED
    BY <2>1, <2>2
<1>5. \A i \in DOMAIN pendingBar : pendingBar[i] # j
  <2>1. CASE current = NoJob
    BY <1>3, <2>1 DEF pendingBar
  <2>2. CASE current # NoJob
    <3>1. current \in Jobs /\ <<current>> \in Seq(Jobs)
      BY <2>2
    <3>2. \A i \in DOMAIN (<<current>> \o queue) :
             \/ (<<current>> \o queue)[i] = current
             \/ i - 1 \in DOMAIN queue /\ (<<current>> \o queue)[i] = queue[i - 1]
      BY <3>1, ConsElements
    <3>3. QED
      BY <1>3, <2>2, <3>2 DEF pendingBar
  <2>3. QED
    BY <2>1, <2>2
<1>6. QED
  BY <1>1, <1>2, <1>4, <1>5 DEF Service!Submit, pendingBar, busyBar, endedBar

LEMMA RefinePop ==
    ASSUME QueueInv, NEW j \in Jobs, Pop(j)
    PROVE  Service!Begin
<1> USE DEF QueueInv, TypeOK
<1>1. /\ worker = "idle"
      /\ queue # <<>>
      /\ j = Head(queue)
      /\ queue' = Tail(queue)
      /\ jobs' = [jobs EXCEPT ![j] = "running"]
      /\ current' = j
  BY DEF Pop
<1>2. current = NoJob
  BY <1>1 DEF WorkerHoldsCurrent
<1>3. <<Head(queue)>> \o Tail(queue) = queue
  <2>1. /\ Append(<<>>, Head(queue)) = <<Head(queue)>>
        /\ <<>> \o queue = queue
        /\ <<>> \in Seq(Jobs)
    BY <1>1
  <2>2. QED
    BY <1>1, <2>1, AppendHeadTail
<1>4. \A k \in Jobs : jobs[k] \in Terminal <=> jobs'[k] \in Terminal /\ k # j
  <2>1. jobs[j] = "queued"
    BY <1>1, TailElements DEF QueuedIsRunnable
  <2>2. QED
    BY <1>1, <2>1 DEF Terminal
<1>5. endedBar' = endedBar
  BY <1>1, <1>4 DEF endedBar, Terminal
<1>6. QED
  BY <1>1, <1>2, <1>3, <1>5 DEF Service!Begin, endedBar

LEMMA RefineSettle ==
    ASSUME QueueInv, NEW o \in Terminal, Settle(o), current' = NoJob, queue' = queue
    PROVE  Service!End(o)
<1> USE DEF QueueInv, TypeOK
<1>1. /\ current \in Jobs
      /\ current # NoJob
      /\ jobs' = [jobs EXCEPT ![current] = o]
  BY DEF Settle, WorkerHoldsCurrent
<1>2. /\ Head(<<current>> \o queue) = current
      /\ Tail(<<current>> \o queue) = queue
  BY <1>1, ConsHeadTail
<1>3. endedBar' = [endedBar EXCEPT ![current] = o]
  BY <1>1 DEF endedBar
<1>4. QED
  BY <1>1, <1>2, <1>3 DEF Service!End, endedBar

LEMMA RefineForget ==
    ASSUME LoseMemory
    PROVE  Service!Forget
BY DEF LoseMemory, Service!Forget, Terminal

\* Neither the mapped queue nor the mapped outcomes move.
LEMMA RefineStutter ==
    ASSUME UNCHANGED <<queue, current>>,
           \A j \in Jobs : \/ jobs'[j] = jobs[j]
                           \/ jobs[j] \notin Terminal /\ jobs'[j] \notin Terminal
    PROVE  UNCHANGED Service!serviceVars
<1>1. endedBar' = endedBar
  BY DEF endedBar
<1>2. QED
  BY <1>1 DEF Service!serviceVars, endedBar

LEMMA RefineNext ==
    QueueInv /\ [Next]_vars => [Service!ServiceNext]_(Service!serviceVars)
<1> SUFFICES ASSUME QueueInv, [Next]_vars
             PROVE  Service!ServiceNext \/ UNCHANGED Service!serviceVars
  OBVIOUS
<1> USE DEF Service!ServiceNext
<1>1. CASE Start
  BY <1>1, RefineStutter DEF Start
<1>2. CASE Kill \/ Stop
  BY <1>2, RefineForget DEF Kill, Stop
<1>3. ASSUME NEW j \in Jobs, Enqueue(j) PROVE Service!ServiceNext
  BY <1>3, RefineEnqueue
<1>4. ASSUME NEW j \in Jobs, EnqueueFails(j) PROVE UNCHANGED Service!serviceVars
  BY <1>4, RefineStutter
     DEF EnqueueFails, Register, Fresh, QueueInv, TypeOK, Terminal
<1>5. ASSUME NEW j \in Jobs, Take(j) \/ TakeFails(j) PROVE Service!ServiceNext
  BY <1>5, RefinePop DEF Take, TakeFails
<1>6. ASSUME NEW o \in Terminal, Finish(o) \/ FinishIndexFails(o)
      PROVE  Service!ServiceNext
  BY <1>6, RefineSettle DEF Finish, FinishIndexFails, Terminal, Service!Outcomes
<1>7. CASE AuditFails
  BY <1>7, RefineSettle DEF AuditFails, Terminal, Service!Outcomes
<1>8. CASE ErrorLogFails
  BY <1>8, RefineStutter DEF ErrorLogFails
<1>9. CASE UNCHANGED vars
  BY <1>9, RefineStutter DEF vars, processVars
<1>10. QED
  BY <1>1, <1>2, <1>3, <1>4, <1>5, <1>6, <1>7, <1>8, <1>9 DEF Next

\* jobs.py, write faults and restarts included, keeps the promises of JobService.
THEOREM Refinement == Spec => ImplementsJobService
<1>1. Init => Service!ServiceInit
  BY DEF Init, Service!ServiceInit, Terminal
<1>2. QED
  BY <1>1, RefineNext, QueueInvInductive, PTL
     DEF Spec, ImplementsJobService, Service!ServiceSpec

-----------------------------------------------------------------------------
(* The notifications: the inductive invariant of what is reported.        *)

Marks == Versions \cup {None}
SeenRecords == [active : BOOLEAN, marker : Marks, last : Nat \cup {-1}]
ToldRecords == [marker : Marks, at : Nat \cup {-1}]
PassRecords == [at : {"wait", "busy", "services", "updates", "decide", "deliver"},
                found : SUBSET Keys, holds : SUBSET Keys, mark : [Updates -> Marks],
                new : SUBSET Keys, box : SUBSET Recipients]

ReportTypes ==
    /\ now \in Nat
    /\ offer \in [Updates -> Marks]
    /\ seen \in [Keys -> SeenRecords]
    /\ told \in [Keys -> ToldRecords]
    /\ over \in [Keys -> BOOLEAN]
    /\ pass \in PassRecords
    /\ DOMAIN config \subseteq Recipients

\* A report that is not over is on file as active, with its marker.
Remembered ==
    \A k \in Keys : told[k] # NeverTold /\ ~over[k] =>
        seen[k].active /\ seen[k].marker = told[k].marker

\* When a service was last reported is on file until its window is over.
Dated ==
    \A s \in Services : told[s] # NeverTold =>
        \/ seen[s].last = told[s].at
        \/ seen[s].last = -1 /\ now - told[s].at >= Window

\* A service has no marker.
Unmarked ==
    \A s \in Services : seen[s].marker = None /\ told[s].marker = None

ReportInv == ReportTypes /\ Remembered /\ Dated /\ Unmarked

\* A job that ended since the last pass began has asked for one.
EndIsAnnounced == dirty => wake

LEMMA Clocks == Window \in Nat /\ ForgetAfter \in Nat /\ Window <= ForgetAfter
BY NotificationConstants

-----------------------------------------------------------------------------
(* The job's end *)

LEMMA EndIsAnnouncedAlways == NotifySpec => []EndIsAnnounced
<1>1. NotifyInit => EndIsAnnounced
  BY DEF NotifyInit, EndIsAnnounced
<1>2. EndIsAnnounced /\ [NotifyNext]_notifyVars => EndIsAnnounced'
  <2> SUFFICES ASSUME EndIsAnnounced, [NotifyNext]_notifyVars PROVE EndIsAnnounced'
    OBVIOUS
  <2>1. CASE UNCHANGED notifyVars
    BY <2>1 DEF notifyVars, EndIsAnnounced
  <2>2. CASE \E f \in BOOLEAN : OnJobFinished(f)
    BY <2>2 DEF OnJobFinished, EndIsAnnounced
  <2>3. CASE BeginPass \/ Restart
    BY <2>3 DEF BeginPass, Restart, EndIsAnnounced
  <2>4. CASE /\ ~ \E f \in BOOLEAN : OnJobFinished(f)
             /\ ~ (BeginPass \/ Restart) /\ NotifyNext
    <3>1. UNCHANGED <<dirty, wake>>
      BY <2>4 DEF NotifyNext, Turn, Offer, JobStarts, ReportJob, Tick, AskBusy, ServicesDown, LookForUpdates,
                  Decide, Address, Deliver, EndPass, OpenPage, RecipientRequest, DeleteRecipient,
                  AddRecipient, UpdateRecipient, SendTest, RememberTest, remembered, settings, world
    <3>2. QED
      BY <3>1 DEF EndIsAnnounced
  <2>5. QED
    BY <2>1, <2>2, <2>3, <2>4
<1>3. QED
  BY <1>1, <1>2, PTL DEF NotifySpec

\* The loop does not wait for its interval while it has not looked at the end of a job
\* (on_job_finished, _run).
THEOREM JobEndIsLookedAtAlways == NotifySpec => []JobEndIsLookedAt
<1>1. EndIsAnnounced => JobEndIsLookedAt
  BY DEF EndIsAnnounced, JobEndIsLookedAt
<1>2. QED
  BY <1>1, EndIsAnnouncedAlways, PTL

-----------------------------------------------------------------------------
(* What is decided of one condition *)

LEMMA EntryIs ==
    ASSUME ReportInv, NEW k \in Keys
    PROVE  /\ MarkerOf(k) \in Marks
           /\ Entry(k) \in SeenRecords
           /\ Fires(k) \in BOOLEAN
<1>1. MarkerOf(k) \in Marks
  BY DEF MarkerOf, Marks, ReportInv, ReportTypes, Keys, PassRecords
<1>2. seen[k] \in SeenRecords /\ now \in Nat
  BY DEF ReportInv, ReportTypes
<1>3. NotSeen \in SeenRecords
  BY DEF NotSeen, SeenRecords, Marks
<1>4. [seen[k] EXCEPT !.active = FALSE] \in SeenRecords
  BY <1>2 DEF SeenRecords
<1>5. Fires(k) \in BOOLEAN
  BY <1>2 DEF Fires, SeenRecords, OutsideWindow
<1>6. [active |-> TRUE, marker |-> MarkerOf(k), last |-> IF Fires(k) THEN now ELSE seen[k].last] \in SeenRecords
  BY <1>1, <1>2, <1>5 DEF SeenRecords
<1>7. QED
  BY <1>1, <1>2, <1>3, <1>4, <1>5, <1>6 DEF Entry

\* A condition whose report is on file and not over does not fire again.
LEMMA FiresOnce ==
    ASSUME ReportInv, NEW k \in pass.holds, Fires(k), told[k] # NeverTold, told[k].marker = MarkerOf(k)
    PROVE  over[k]
<1>1. k \in Keys
  BY DEF ReportInv, ReportTypes, PassRecords
<1>2. SUFFICES ASSUME ~over[k] PROVE FALSE
  OBVIOUS
<1>3. seen[k].active /\ seen[k].marker = told[k].marker
  BY <1>1, <1>2 DEF ReportInv, Remembered
<1>4. QED
  BY <1>3 DEF Fires

\* A service that fires was last reported a window ago.
LEMMA FiresAfterWindow ==
    ASSUME ReportInv, NEW s \in Services, Fires(s), told[s] # NeverTold
    PROVE  now - told[s].at >= Window
<1>1. s \in Keys /\ OutsideWindow(s)
  BY DEF Keys, Fires
<1>2. now \in Nat /\ seen[s].last \in Nat \cup {-1}
  BY <1>1 DEF ReportInv, ReportTypes, SeenRecords
<1>3. CASE seen[s].last = told[s].at
  <2>1. told[s].at \in Nat \/ told[s].at = -1
    BY <1>1 DEF ReportInv, ReportTypes, ToldRecords
  <2>2. told[s].marker = None /\ told[s] \in ToldRecords
    BY <1>1 DEF ReportInv, ReportTypes, Unmarked
  <2>3. told[s].at # -1
    BY <2>2 DEF ToldRecords, NeverTold
  <2>4. QED
    BY <1>1, <1>2, <1>3, <2>1, <2>3 DEF OutsideWindow
<1>4. CASE seen[s].last = -1 /\ now - told[s].at >= Window
  BY <1>4
<1>5. QED
  BY <1>3, <1>4 DEF ReportInv, Dated

-----------------------------------------------------------------------------
(* The steps *)

LEMMA IdleIs == Idle \in PassRecords
BY DEF Idle, PassRecords, Marks

LEMMA ReportInit == NotifyInit => ReportInv
<1> SUFFICES ASSUME NotifyInit PROVE ReportInv
  OBVIOUS
<1>1. NotSeen \in SeenRecords /\ NeverTold \in ToldRecords
  BY DEF NotSeen, SeenRecords, NeverTold, ToldRecords, Marks
<1>2. pass \in PassRecords /\ DOMAIN config \subseteq Recipients
  BY IdleIs DEF NotifyInit
<1>3. ReportTypes
  BY <1>1, <1>2 DEF NotifyInit, ReportTypes, Marks
<1>4. Remembered /\ Dated
  BY DEF NotifyInit, Remembered, Dated, Keys
<1>5. Unmarked
  BY DEF NotifyInit, Unmarked, NotSeen, NeverTold, Keys
<1>6. QED
  BY <1>3, <1>4, <1>5 DEF ReportInv

LEMMA ReportDecide ==
    ASSUME ReportInv, Decide
    PROVE  ReportInv'
<1>1. PICK stored \in BOOLEAN :
          /\ seen' = IF stored THEN [k \in Keys |-> Entry(k)] ELSE seen
          /\ told' = [k \in Keys |->
                IF k \notin pass'.new THEN told[k]
                ELSE IF stored THEN [marker |-> MarkerOf(k), at |-> now] ELSE NeverTold]
  BY DEF Decide
<1>2. over' = [k \in Keys |-> k \in pass.found \ pass.holds \/ (over[k] /\ k \notin pass'.new)]
      /\ now' = now /\ offer' = offer
  BY DEF Decide, world
<1>3. pass'.new \subseteq Keys /\ \A k \in Keys : k \in pass'.new <=> k \in pass.holds /\ Fires(k)
  <2>1. pass.holds \subseteq Keys /\ pass \in PassRecords
    BY DEF ReportInv, ReportTypes, PassRecords
  <2>2. pass'.new = {k \in pass.holds : Fires(k)}
    BY <2>1 DEF Decide, PassRecords
  <2>3. QED
    BY <2>1, <2>2
<1>4. pass' \in PassRecords /\ config' = config
  <2>1. pass.holds \subseteq Keys /\ [u \in Updates |-> None] \in [Updates -> Marks]
    BY DEF ReportInv, ReportTypes, PassRecords, Marks
  <2>2. PICK new \in SUBSET Keys :
          pass' = [pass EXCEPT !.at = "deliver", !.found = {}, !.holds = {},
                               !.mark = [u \in Updates |-> None], !.new = new]
    BY <2>1 DEF Decide
  <2>3. QED
    BY <2>1, <2>2 DEF Decide, ReportInv, ReportTypes, PassRecords, settings
<1>5. ReportTypes'
  <2>1. seen' \in [Keys -> SeenRecords]
    BY <1>1, EntryIs DEF ReportInv, ReportTypes
  <2>2. told' \in [Keys -> ToldRecords]
    <3>1. ASSUME NEW k \in Keys
          PROVE  told[k] \in ToldRecords /\ NeverTold \in ToldRecords /\ [marker |-> MarkerOf(k), at |-> now] \in ToldRecords
      BY <3>1, EntryIs DEF ReportInv, ReportTypes, ToldRecords, NeverTold, Marks
    <3>2. QED
      BY <1>1, <3>1
  <2>3. over' \in [Keys -> BOOLEAN]
    BY <1>2 DEF ReportInv, ReportTypes
  <2>4. QED
    BY <1>2, <1>4, <2>1, <2>2, <2>3 DEF ReportInv, ReportTypes
<1>6. Unmarked'
  <2> SUFFICES ASSUME NEW s \in Services PROVE seen'[s].marker = None /\ told'[s].marker = None
    BY DEF Unmarked
  <2>1. s \in Keys /\ seen[s].marker = None /\ told[s].marker = None /\ MarkerOf(s) = None /\ seen[s] \in SeenRecords
    BY DEF ReportInv, ReportTypes, Unmarked, Keys, MarkerOf
  <2>2. Entry(s).marker = None
    BY <2>1 DEF Entry, SeenRecords, NotSeen
  <2>3. QED
    BY <1>1, <2>1, <2>2 DEF NeverTold
<1>7. Remembered'
  <2> SUFFICES ASSUME NEW k \in Keys, told'[k] # NeverTold, ~over'[k]
               PROVE  seen'[k].active /\ seen'[k].marker = told'[k].marker
    BY DEF Remembered
  <2>1. CASE k \in pass'.new
    <3>1. stored /\ told'[k] = [marker |-> MarkerOf(k), at |-> now] /\ seen'[k] = Entry(k)
      BY <1>1, <2>1
    <3>2. Entry(k).active /\ Entry(k).marker = MarkerOf(k)
      BY <1>3, <2>1 DEF Entry
    <3>3. QED
      BY <3>1, <3>2
  <2>2. CASE k \notin pass'.new
    <3>1. told'[k] = told[k] /\ ~over[k] /\ k \notin pass.found \ pass.holds
      BY <1>1, <1>2, <2>2
    <3>2. seen[k].active /\ seen[k].marker = told[k].marker
      BY <3>1 DEF ReportInv, Remembered
    <3>3. CASE k \in pass.holds
      <4>1. ~Fires(k)
        BY <1>3, <2>2, <3>3
      <4>2. MarkerOf(k) = seen[k].marker
        BY <3>2, <4>1 DEF Fires, MarkerOf, ReportInv, Unmarked
      <4>3. Entry(k).active /\ Entry(k).marker = seen[k].marker
        BY <3>3, <4>2 DEF Entry
      <4>4. QED
        BY <1>1, <3>1, <3>2, <4>3
    <3>4. CASE k \notin pass.holds
      <4>1. Entry(k) = seen[k]
        BY <3>1, <3>4 DEF Entry, Cleared
      <4>2. QED
        BY <1>1, <3>1, <3>2, <4>1
    <3>5. QED
      BY <3>3, <3>4
  <2>3. QED
    BY <2>1, <2>2
<1>8. Dated'
  <2> SUFFICES ASSUME NEW s \in Services, told'[s] # NeverTold
               PROVE  seen'[s].last = told'[s].at \/ (seen'[s].last = -1 /\ now' - told'[s].at >= Window)
    BY DEF Dated
  <2>1. s \in Keys /\ now \in Nat /\ seen[s] \in SeenRecords /\ told[s] \in ToldRecords
    BY DEF Keys, ReportInv, ReportTypes
  <2>2. CASE s \in pass'.new
    <3>1. stored /\ told'[s] = [marker |-> MarkerOf(s), at |-> now] /\ seen'[s] = Entry(s)
      BY <1>1, <2>1, <2>2
    <3>2. Entry(s).last = now
      BY <1>3, <2>1, <2>2 DEF Entry
    <3>3. seen'[s].last = now /\ told'[s].at = now
      BY <3>1, <3>2
    <3>4. QED
      BY <3>3
  <2>3. CASE s \notin pass'.new
    <3>1. told'[s] = told[s]
      BY <1>1, <2>1, <2>3
    <3>2. \/ seen[s].last = told[s].at
          \/ seen[s].last = -1 /\ now - told[s].at >= Window
      BY <3>1 DEF ReportInv, Dated
    <3>3. \/ Entry(s).last = seen[s].last
          \/ Entry(s).last = -1 /\ (seen[s].last = -1 \/ now - seen[s].last > ForgetAfter)
      <4>1. CASE s \in pass.holds
        BY <1>3, <2>1, <2>3, <4>1 DEF Entry
      <4>2. CASE s \notin pass.holds /\ (~Cleared(s) \/ (seen[s].last # -1 /\ now - seen[s].last <= ForgetAfter))
        BY <2>1, <4>2 DEF Entry, SeenRecords
      <4>3. CASE s \notin pass.holds /\ Cleared(s) /\ ~(seen[s].last # -1 /\ now - seen[s].last <= ForgetAfter)
        <5>1. Entry(s).last = -1
          BY <4>3 DEF Entry, NotSeen
        <5>2. seen[s].last \in Int /\ ForgetAfter \in Int
          BY <2>1, Clocks DEF SeenRecords
        <5>3. QED
          BY <2>1, <4>3, <5>1, <5>2
      <4>4. QED
        BY <4>1, <4>2, <4>3
    <3>4. Entry(s).last = told[s].at \/ (Entry(s).last = -1 /\ now - told[s].at >= Window)
      BY <2>1, <3>2, <3>3, Clocks DEF SeenRecords, ToldRecords
    <3>5. now' = now /\ (seen'[s] = Entry(s) \/ seen'[s] = seen[s])
      BY <1>1, <1>2, <2>1
    <3>6. QED
      BY <3>1, <3>2, <3>4, <3>5
  <2>4. QED
    BY <2>2, <2>3
<1>9. QED
  BY <1>5, <1>6, <1>7, <1>8 DEF ReportInv

\* Where a step leaves the clock, what was stored and what was told as they are, so do the promises.
LEMMA ReportQuiet ==
    ASSUME ReportInv, UNCHANGED <<now, seen, told, over>>, ReportTypes'
    PROVE  ReportInv'
BY DEF ReportInv, Remembered, Dated, Unmarked

LEMMA ReportTick == ReportInv /\ Tick => ReportInv'
<1> SUFFICES ASSUME ReportInv, Tick PROVE ReportInv'
  OBVIOUS
<1>1. now' = now + 1 /\ UNCHANGED <<offer, config, pass, seen, told, over>>
  BY DEF Tick, world, settings, remembered
<1>2. ReportTypes' /\ Remembered' /\ Unmarked'
  BY <1>1 DEF ReportInv, ReportTypes, Remembered, Unmarked
<1>3. Dated'
  <2> SUFFICES ASSUME NEW s \in Services, told'[s] # NeverTold
               PROVE  seen'[s].last = told'[s].at \/ (seen'[s].last = -1 /\ now' - told'[s].at >= Window)
    BY DEF Dated
  <2>1. told'[s] = told[s] /\ seen'[s] = seen[s] /\ now' = now + 1
    BY <1>1
  <2>2. now \in Int /\ told[s].at \in Int
    BY DEF ReportInv, ReportTypes, ToldRecords, Keys
  <2>3. seen[s].last = told[s].at \/ (seen[s].last = -1 /\ now - told[s].at >= Window)
    BY <2>1 DEF ReportInv, Dated
  <2>4. QED
    BY <2>1, <2>2, <2>3, Clocks
<1>4. QED
  BY <1>2, <1>3 DEF ReportInv

\* The other steps of the pass: what is read, what is due for delivery.
LEMMA ReportPass ==
    ASSUME ReportInv, BeginPass \/ AskBusy \/ ServicesDown \/ LookForUpdates
                      \/ (\E k \in Keys : Address(k)) \/ (\E r \in Recipients : Deliver(r)) \/ EndPass \/ Restart
    PROVE  ReportInv'
<1>1. UNCHANGED <<now, offer, seen, told, over, config>>
  BY DEF BeginPass, AskBusy, ServicesDown, LookForUpdates, Address, Deliver, EndPass, Restart,
         world, settings, remembered
<1>2. pass' \in PassRecords
  <2>1. pass \in PassRecords
    BY DEF ReportInv, ReportTypes
  <2>2. CASE BeginPass
    BY <2>2, IdleIs DEF BeginPass, PassRecords
  <2>3. CASE AskBusy
    BY <2>1, <2>3 DEF AskBusy, PassRecords
  <2>4. CASE ServicesDown
    <3>1. Services \subseteq Keys /\ Down \subseteq Keys
      BY DEF Down, Keys
    <3>2. QED
      BY <2>1, <2>4, <3>1 DEF ServicesDown, PassRecords
  <2>5. CASE LookForUpdates
    <3>1. PICK scope \in SUBSET Updates :
            pass' = [pass EXCEPT !.at = "decide", !.found = @ \cup scope,
                               !.holds = @ \cup {u \in scope : offer[u] # None},
                               !.mark = [u \in Updates |-> IF u \in scope THEN offer[u] ELSE None]]
      <4>1. \A events \in {{{}}, {{}, Addons, Updates}} : events \subseteq SUBSET Updates
        BY DEF Updates
      <4>2. QED
        BY <2>5, <4>1 DEF LookForUpdates
    <3>2. [u \in Updates |-> IF u \in scope THEN offer[u] ELSE None] \in [Updates -> Marks]
      BY DEF ReportInv, ReportTypes, Marks
    <3>3. /\ pass.found \cup scope \in SUBSET Keys
          /\ pass.holds \cup {u \in scope : offer[u] # None} \in SUBSET Keys
      BY <2>1 DEF PassRecords, Keys
    <3>4. QED
      BY <2>1, <3>1, <3>2, <3>3 DEF PassRecords
  <2>6. CASE \E k \in Keys : Address(k)
    <3>1. \A event : SubscribedTo(event) \in SUBSET Recipients
      BY DEF SubscribedTo, ReportInv, ReportTypes
    <3>2. PICK new \in SUBSET Keys, box \in SUBSET Recipients : pass' = [pass EXCEPT !.new = new, !.box = box]
      BY <2>1, <2>6, <3>1 DEF Address, PassRecords
    <3>3. QED
      BY <2>1, <3>2 DEF PassRecords
  <2>7. CASE \E r \in Recipients : Deliver(r)
    BY <2>1, <2>7 DEF Deliver, PassRecords
  <2>8. CASE EndPass \/ Restart
    BY <2>8, IdleIs DEF EndPass, Restart
  <2>9. QED
    BY <2>2, <2>3, <2>4, <2>5, <2>6, <2>7, <2>8
<1>3. QED
  BY <1>1, <1>2, ReportQuiet DEF ReportInv, ReportTypes

\* The page and the stack.
LEMMA ReportPage ==
    ASSUME ReportInv, \E p \in Pages : OpenPage(p) \/ RecipientRequest(p)
    PROVE  ReportInv'
<1>1. UNCHANGED <<now, offer, seen, told, over, pass>>
  BY DEF OpenPage, RecipientRequest, DeleteRecipient, AddRecipient, UpdateRecipient, world, remembered
<1>2. DOMAIN config' \subseteq Recipients
  <2>1. DOMAIN config \subseteq Recipients
    BY DEF ReportInv, ReportTypes
  <2>2. CASE \E p \in Pages : OpenPage(p)
    BY <2>1, <2>2 DEF OpenPage
  <2>3. CASE \E p \in Pages, r \in Recipients : DeleteRecipient(p, r)
    BY <2>1, <2>3 DEF DeleteRecipient, Mutate
  <2>4. CASE \E p \in Pages, r \in Recipients, d \in Recipient : AddRecipient(p, r, d)
    BY <2>1, <2>4 DEF AddRecipient, Mutate
  <2>5. CASE \E p \in Pages, r \in Recipients, d \in Recipient : UpdateRecipient(p, r, d)
    BY <2>1, <2>5 DEF UpdateRecipient, Mutate
  <2>6. QED
    BY <2>2, <2>3, <2>4, <2>5 DEF RecipientRequest
<1>3. QED
  BY <1>1, <1>2, ReportQuiet DEF ReportInv, ReportTypes

LEMMA ReportWorld ==
    ASSUME ReportInv,
           \/ \E s \in Services, h \in {"healthy", "stopped", "missing", "off"} : Turn(s, h)
           \/ \E u \in Updates, v \in Versions \cup {None} : Offer(u, v)
           \/ JobStarts \/ (\E f \in BOOLEAN : OnJobFinished(f)) \/ ReportJob
           \/ \E r \in Recipients : SendTest(r) \/ RememberTest(r)
    PROVE  ReportInv'
<1>1. UNCHANGED <<now, config, seen, told, over, pass>>
  BY DEF Turn, Offer, JobStarts, OnJobFinished, ReportJob, SendTest, RememberTest, settings, remembered
<1>2. offer' \in [Updates -> Marks]
  BY DEF Turn, Offer, JobStarts, OnJobFinished, ReportJob, SendTest, RememberTest, world,
         ReportInv, ReportTypes, Marks
<1>3. QED
  BY <1>1, <1>2, ReportQuiet DEF ReportInv, ReportTypes

LEMMA ReportInvAlways == NotifySpec => []ReportInv
<1>1. ReportInv /\ [NotifyNext]_notifyVars => ReportInv'
  <2> SUFFICES ASSUME ReportInv, [NotifyNext]_notifyVars PROVE ReportInv'
    OBVIOUS
  <2>1. CASE UNCHANGED notifyVars
    BY <2>1, ReportQuiet DEF notifyVars, world, settings, remembered, ReportInv, ReportTypes
  <2>2. CASE Decide
    BY <2>2, ReportDecide
  <2>3. CASE Tick
    BY <2>3, ReportTick
  <2>4. CASE NotifyNext /\ ~Decide /\ ~Tick
    BY <2>4, ReportPass, ReportPage, ReportWorld DEF NotifyNext
  <2>5. QED
    BY <2>1, <2>2, <2>3, <2>4
<1>2. QED
  BY <1>1, ReportInit, PTL DEF NotifySpec

\* Nothing but a decision reports.
LEMMA OnlyDecideTells ==
    ASSUME [NotifyNext]_notifyVars, told' # told
    PROVE  Decide
BY DEF NotifyNext, notifyVars, Turn, Offer, JobStarts, OnJobFinished, ReportJob, Tick, BeginPass, AskBusy, ServicesDown,
       LookForUpdates, Address, Deliver, EndPass, Restart, OpenPage, RecipientRequest, DeleteRecipient,
       AddRecipient, UpdateRecipient, SendTest, RememberTest

\* A report is of a condition that holds and fires, and is dated and marked.
LEMMA WhatIsTold ==
    ASSUME ReportInv, Decide, NEW k \in Keys, told'[k] # told[k], told'[k] # NeverTold
    PROVE  k \in pass.holds /\ Fires(k) /\ told'[k] = [marker |-> MarkerOf(k), at |-> now]
<1>1. PICK stored \in BOOLEAN :
          told' = [q \in Keys |->
                IF q \notin pass'.new THEN told[q]
                ELSE IF stored THEN [marker |-> MarkerOf(q), at |-> now] ELSE NeverTold]
  BY DEF Decide
<1>2. k \in pass'.new /\ told'[k] = [marker |-> MarkerOf(k), at |-> now]
  BY <1>1
<1>3. pass'.new = {q \in pass.holds : Fires(q)}
  BY DEF Decide, ReportInv, ReportTypes, PassRecords
<1>4. QED
  BY <1>2, <1>3

\* "Each event is reported once per occurrence ... a restart sends nothing twice" (decide and
\* record of notifications/service.py): between two reports of a service, or of the same version, a
\* pass has seen that it was over.
THEOREM ReportedOncePerOccurrenceAlways == NotifySpec => ReportedOncePerOccurrence
<1>1. ReportInv /\ [NotifyNext]_notifyVars =>
        [\A k \in Keys :
            (told'[k] # told[k] /\ NeverTold \notin {told[k], told'[k]}
                /\ told'[k].marker = told[k].marker)
                => over[k]]_notifyVars
  <2> SUFFICES ASSUME ReportInv, [NotifyNext]_notifyVars, NEW k \in Keys, told'[k] # told[k],
                      told[k] # NeverTold, told'[k] # NeverTold, told'[k].marker = told[k].marker
               PROVE  over[k]
    OBVIOUS
  <2>1. k \in pass.holds /\ Fires(k) /\ told'[k] = [marker |-> MarkerOf(k), at |-> now]
    BY OnlyDecideTells, WhatIsTold
  <2>2. QED
    BY <2>1, FiresOnce
<1>2. QED
  BY <1>1, ReportInvAlways, PTL DEF NotifySpec, ReportedOncePerOccurrence

\* A service that flaps is reported at most once per debounce window, across restarts and although
\* an outage that is over is forgotten at some time (_outside_window, decide).
THEOREM OncePerWindowAlways == NotifySpec => OncePerWindow
<1>1. ReportInv /\ [NotifyNext]_notifyVars =>
        [\A s \in Services :
            (told'[s] # told[s] /\ NeverTold \notin {told[s], told'[s]})
                => told'[s].at - told[s].at >= Window]_notifyVars
  <2> SUFFICES ASSUME ReportInv, [NotifyNext]_notifyVars, NEW s \in Services, told'[s] # told[s],
                      told[s] # NeverTold, told'[s] # NeverTold
               PROVE  told'[s].at - told[s].at >= Window
    OBVIOUS
  <2>1. Fires(s) /\ told'[s] = [marker |-> MarkerOf(s), at |-> now]
    BY OnlyDecideTells, WhatIsTold DEF Keys
  <2>2. now - told[s].at >= Window
    BY <2>1, FiresAfterWindow
  <2>3. QED
    BY <2>1, <2>2
<1>2. QED
  BY <1>1, ReportInvAlways, PTL DEF NotifySpec, OncePerWindow

=============================================================================
