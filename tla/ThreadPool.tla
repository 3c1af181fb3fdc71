------------------------------ MODULE ThreadPool ------------------------------
(***************************************************************************)
(* The pool of threads (OP::utils::ThreadPool): a queue of tasks under a   *)
(* mutex, a condition variable, atomic counters that decide when the pool  *)
(* grows, one_way and async calls, and the destructor that joins.          *)
(*                                                                         *)
(* A task is the call that issued it.  Grain of atomicity: one access to   *)
(* an atomic counter or to the flag _end; what is done under a mutex only  *)
(* is one step, and waiting on the condition variable gives the mutex up   *)
(* and joins the waiting threads in one step, as the standard says.        *)
(***************************************************************************)
EXTENDS Integers, Sequences, FiniteSets

CONSTANTS
  Client,       \* the calls of one_way and async, each by a thread of its own
  OneWay,       \* those of them that are one_way; the others wait for their future
  Initial,      \* threads allocated by the constructor
  GrowBy,       \* _grow_factor
  MaxThread,    \* bound: threads that can ever be allocated
  SizeRange,    \* size_t counts modulo this number
  Joins         \* whether the program destroys the pool

ASSUME PoolAssumption ==
  /\ OneWay \subseteq Client /\ Initial \in Nat /\ GrowBy \in Nat
  /\ MaxThread \in Nat /\ Initial <= MaxThread
  \* a size_t counts more than all the threads and calls there are
  /\ IsFiniteSet(Client)
  /\ SizeRange \in Nat /\ SizeRange > MaxThread + Cardinality(Client)
  /\ Joins \in BOOLEAN

PoolThread == 1 .. MaxThread

VARIABLES
  worker,     \* pc of each thread of the pool; "none" when not started
  runs,       \* the task each thread has taken
  client,     \* pc of each call
  idle,       \* what a call read as the number of idle threads
  grow,       \* threads a call still has to allocate
  answer,     \* the promise of each call
  tasks,      \* _task_list
  end,        \* _end
  busy, allocated, taskCount,
  joiner      \* pc of the destructor

poolVars == <<worker, runs, client, idle, grow, answer, tasks, end,
              busy, allocated, taskCount, joiner>>

NoTask == "none"
Started == {w \in PoolThread : worker[w] # "none"}

\* _acc_tasks is held by a thread that has found work and by one about to wait.
TasksLocked == \E w \in PoolThread : worker[w] \in {"test", "parking", "take", "taken"}

\* _acc_thread_depo is held while threads are allocated and while they are joined.
DepotLocked == joiner = "joining" \/ \E c \in Client : client[c] \in {"spawn", "spawned"}

PoolInit ==
  /\ worker = [w \in PoolThread |-> IF w <= Initial THEN "loop" ELSE "none"]
  /\ runs = [w \in PoolThread |-> NoTask]
  /\ client = [c \in Client |-> "idle"]
  /\ idle = [c \in Client |-> 0]
  /\ grow = [c \in Client |-> 0]
  /\ answer = [c \in Client |-> "none"]
  /\ tasks = <<>>
  /\ end = FALSE
  /\ busy = 0
  /\ allocated = Initial
  /\ taskCount = 0
  /\ joiner = "open"

-----------------------------------------------------------------------------
(* The calls.                                                              *)

ClientGoes(c, from, to) == client[c] = from /\ client' = [client EXCEPT ![c] = to]

\* ensure_workers: the idle threads are counted first, the queued tasks after.
EnsureIdle(c) ==
  /\ joiner = "open"
  /\ IF GrowBy = 0
       THEN /\ ClientGoes(c, "idle", "put")
            /\ UNCHANGED idle
       ELSE /\ ClientGoes(c, "idle", "compare")
            /\ idle' = [idle EXCEPT ![c] = (allocated - busy) % SizeRange]
  /\ UNCHANGED <<worker, runs, grow, answer, tasks, end, busy, allocated, taskCount, joiner>>

EnsureCompare(c) ==
  /\ ClientGoes(c, "compare", IF idle[c] < taskCount THEN "depot" ELSE "put")
  /\ UNCHANGED <<worker, runs, idle, grow, answer, tasks, end, busy, allocated, taskCount, joiner>>

\* allocate_thread: under the lock of the store of threads.
AllocateLock(c) ==
  /\ ~DepotLocked
  /\ ClientGoes(c, "depot", "spawn")
  /\ grow' = [grow EXCEPT ![c] = GrowBy]
  /\ UNCHANGED <<worker, runs, idle, answer, tasks, end, busy, allocated, taskCount, joiner>>

AllocateSpawn(c) ==
  /\ grow[c] > 0
  /\ ClientGoes(c, "spawn", "spawned")
  /\ \E w \in PoolThread :
       /\ worker[w] = "none" /\ \A v \in 1 .. w - 1 : worker[v] # "none"
       /\ worker' = [worker EXCEPT ![w] = "loop"]
  /\ UNCHANGED <<runs, idle, grow, answer, tasks, end, busy, allocated, taskCount, joiner>>

AllocateCount(c) ==
  /\ ClientGoes(c, "spawned", "spawn")
  /\ allocated' = allocated + 1
  /\ grow' = [grow EXCEPT ![c] = @ - 1]
  /\ UNCHANGED <<worker, runs, idle, answer, tasks, end, busy, taskCount, joiner>>

AllocateUnlock(c) ==
  /\ grow[c] = 0
  /\ ClientGoes(c, "spawn", "put")
  /\ UNCHANGED <<worker, runs, idle, grow, answer, tasks, end, busy, allocated, taskCount, joiner>>

\* mutant: no waiting thread is notified
PutPushUnnotified(c) ==
  /\ ~TasksLocked
  /\ ClientGoes(c, "put", "count")
  /\ tasks' = Append(tasks, c)
  /\ UNCHANGED <<worker, runs, idle, grow, answer, end, busy, allocated, taskCount, joiner>>

\* put_task: the task is queued under the mutex, one waiting thread is notified
\* after it is released, and the task is counted last.
PutPush(c) ==
  /\ ~TasksLocked
  /\ ClientGoes(c, "put", "notify")
  /\ tasks' = Append(tasks, c)
  /\ UNCHANGED <<worker, runs, idle, grow, answer, end, busy, allocated, taskCount, joiner>>

Waiting == {w \in PoolThread : worker[w] = "waiting"}

PutNotify(c) ==
  /\ ClientGoes(c, "notify", "count")
  /\ IF Waiting = {}
       THEN UNCHANGED worker
       ELSE \E w \in Waiting : worker' = [worker EXCEPT ![w] = "woken"]
  /\ UNCHANGED <<runs, idle, grow, answer, tasks, end, busy, allocated, taskCount, joiner>>

PutCount(c) ==
  /\ ClientGoes(c, "count", IF c \in OneWay THEN "done" ELSE "future")
  /\ taskCount' = (taskCount + 1) % SizeRange
  /\ UNCHANGED <<worker, runs, idle, grow, answer, tasks, end, busy, allocated, joiner>>

\* The future of an async call becomes ready.
GetResult(c) ==
  /\ answer[c] # "none"
  /\ ClientGoes(c, "future", "done")
  /\ UNCHANGED <<worker, runs, idle, grow, answer, tasks, end, busy, allocated, taskCount, joiner>>

-----------------------------------------------------------------------------
(* thread_routine.                                                         *)

WorkerGoes(w, from, to) == worker[w] \in from /\ worker' = [worker EXCEPT ![w] = to]

RoutineLoop(w) ==
  /\ WorkerGoes(w, {"loop"}, IF end THEN "exited" ELSE "lock")
  /\ UNCHANGED <<runs, client, idle, grow, answer, tasks, end, busy, allocated, taskCount, joiner>>

\* The mutex is taken, by a thread that comes here and by one that was waiting.
RoutineLock(w) ==
  /\ ~TasksLocked
  /\ WorkerGoes(w, {"lock", "woken"}, "test")
  /\ UNCHANGED <<runs, client, idle, grow, answer, tasks, end, busy, allocated, taskCount, joiner>>

RoutineTest(w) ==
  /\ WorkerGoes(w, {"test"}, IF end \/ tasks # <<>> THEN "take" ELSE "parking")
  /\ UNCHANGED <<runs, client, idle, grow, answer, tasks, end, busy, allocated, taskCount, joiner>>

\* The condition is false: the thread waits.  _end may have been set, and all
\* waiting threads notified, since the condition was evaluated.
RoutineWait(w) ==
  /\ WorkerGoes(w, {"parking"}, "waiting")
  /\ UNCHANGED <<runs, client, idle, grow, answer, tasks, end, busy, allocated, taskCount, joiner>>

\* Still under the mutex the oldest task is taken, unless the pool is ending.
RoutineTake(w) ==
  /\ IF end \/ tasks = <<>>
       THEN /\ WorkerGoes(w, {"take"}, "loop")
            /\ UNCHANGED <<tasks, runs, busy>>
       ELSE /\ WorkerGoes(w, {"take"}, "taken")
            /\ runs' = [runs EXCEPT ![w] = Head(tasks)]
            /\ tasks' = Tail(tasks)
            /\ busy' = busy + 1
  /\ UNCHANGED <<client, idle, grow, answer, end, allocated, taskCount, joiner>>

RoutineUncount(w) ==
  /\ WorkerGoes(w, {"taken"}, "run")
  /\ taskCount' = (taskCount - 1) % SizeRange
  /\ UNCHANGED <<runs, client, idle, grow, answer, tasks, end, busy, allocated, joiner>>

\* mutant: a one_way task that throws leaves its thread counted as busy
RoutineRunUnguarded(w) ==
  /\ \E outcome \in {"value", "exception"} :
       /\ WorkerGoes(w, {"run"}, IF runs[w] \in OneWay /\ outcome = "exception" THEN "loop" ELSE "ran")
       /\ answer' = [answer EXCEPT ![runs[w]] = IF runs[w] \in OneWay THEN "none" ELSE outcome]
  /\ runs' = [runs EXCEPT ![w] = NoTask]
  /\ UNCHANGED <<client, idle, grow, tasks, end, busy, allocated, taskCount, joiner>>

\* Functor::run and Action::run: whatever the function throws ends here.
RoutineRun(w) ==
  /\ WorkerGoes(w, {"run"}, "ran")
  /\ \E outcome \in {"value", "exception"} :
       answer' = [answer EXCEPT ![runs[w]] = IF runs[w] \in OneWay THEN "none" ELSE outcome]
  /\ runs' = [runs EXCEPT ![w] = NoTask]
  /\ UNCHANGED <<client, idle, grow, tasks, end, busy, allocated, taskCount, joiner>>

RoutineFree(w) ==
  /\ WorkerGoes(w, {"ran"}, "loop")
  /\ busy' = busy - 1
  /\ UNCHANGED <<runs, client, idle, grow, answer, tasks, end, allocated, taskCount, joiner>>

-----------------------------------------------------------------------------
(* join and the destructor, which no call may overlap but those that wait  *)
(* for their future.                                                       *)

JoinEnd ==
  /\ Joins /\ joiner = "open"
  /\ \A c \in Client : client[c] \in {"idle", "future", "done"}
  /\ joiner' = "notify"
  /\ end' = TRUE
  /\ UNCHANGED <<worker, runs, client, idle, grow, answer, tasks, busy, allocated, taskCount>>

JoinNotify ==
  /\ joiner = "notify"
  /\ joiner' = "joining"
  /\ worker' = [w \in PoolThread |-> IF worker[w] = "waiting" THEN "woken" ELSE worker[w]]
  /\ UNCHANGED <<runs, client, idle, grow, answer, tasks, end, busy, allocated, taskCount>>

\* All threads have ended: the tasks still queued are destroyed, and the promise
\* of an async call with them.
JoinReturn ==
  /\ joiner = "joining"
  /\ \A w \in Started : worker[w] = "exited"
  /\ joiner' = "joined"
  /\ tasks' = <<>>
  /\ answer' = [c \in Client |->
       IF c \notin OneWay /\ \E i \in DOMAIN tasks : tasks[i] = c THEN "broken" ELSE answer[c]]
  /\ UNCHANGED <<worker, runs, client, idle, grow, end, busy, allocated, taskCount>>

CallLock(c) == AllocateLock(c) \/ PutPush(c)

CallStep(c) ==
  \/ EnsureCompare(c) \/ AllocateSpawn(c) \/ AllocateCount(c) \/ AllocateUnlock(c)
  \/ PutNotify(c) \/ PutCount(c) \/ GetResult(c)

RoutineStep(w) ==
  \/ RoutineLoop(w) \/ RoutineTest(w) \/ RoutineWait(w) \/ RoutineTake(w)
  \/ RoutineUncount(w) \/ RoutineRun(w) \/ RoutineFree(w)

PoolNext ==
  \/ \E c \in Client : EnsureIdle(c) \/ CallLock(c) \/ CallStep(c)
  \/ \E w \in PoolThread : RoutineLock(w) \/ RoutineStep(w)
  \/ JoinEnd \/ JoinNotify \/ JoinReturn

PoolSpec == PoolInit /\ [][PoolNext]_poolVars

\* Threads are scheduled, and no thread is kept from a mutex for ever.
PoolFairness ==
  /\ \A c \in Client : WF_poolVars(CallStep(c)) /\ SF_poolVars(CallLock(c))
  /\ \A w \in PoolThread : WF_poolVars(RoutineStep(w)) /\ SF_poolVars(RoutineLock(w))
  /\ WF_poolVars(JoinNotify \/ JoinReturn)

-----------------------------------------------------------------------------
(* Properties.                                                             *)

\* The counters by which the pool decides to grow agree with the threads and the
\* queue whenever no call and no thread is between changing the one and the other
\* (put_task counts last, and a quick thread uncounts first: the count of queued
\* tasks passes below zero and comes back).
PoolCountsSettle ==
  LET between(pcs) == \E c \in Client : client[c] \in pcs
  IN  /\ busy = Cardinality({w \in PoolThread : worker[w] \in {"taken", "run", "ran"}})
      /\ ~between({"spawned"}) => allocated = Cardinality(Started)
      /\ ~between({"notify", "count"}) /\ (\A w \in PoolThread : worker[w] # "taken")
           /\ joiner # "joined" => taskCount = Len(tasks)

Queued(c) == \E i \in DOMAIN tasks : tasks[i] = c

\* Until the pool is joined, every task that was queued is taken by some thread,
\* and every call that waits for its future returns: no notification is lost and
\* a task that throws does not end its thread.
TasksRun ==
  \A c \in Client :
    LET unanswered == Queued(c) \/ client[c] = "future"
    IN  unanswered ~> (~unanswered \/ end)

\* What the comment above join says: all allocated threads are joined.  No run
\* checks it: a worker may miss the one notification, see the README.
JoinReturns == (joiner = "notify") ~> (joiner = "joined")

=============================================================================
