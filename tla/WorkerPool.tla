----------------------------- MODULE WorkerPool -----------------------------
(***************************************************************************)
(* The pool of worker threads that groups of tasks share                   *)
(* (src/monado/src/xrt/auxiliary/util/u_worker.c), as the hand tracker and *)
(* TaskCollection use it: a thread pushes tasks to its group and waits for *)
(* all of them, which donates it to the pool by raising the limit of       *)
(* workers.  All state is under the mutex of the pool, so a critical       *)
(* section is one step; a worker that finishes a task goes round its loop  *)
(* in the same one.  A task is the group it belongs to.                    *)
(***************************************************************************)
EXTENDS Integers, FiniteSets

CONSTANTS
  Workers,       \* p->threads
  Users,         \* threads that push and wait
  Groups,        \* worker groups of the pool
  GroupOf,       \* the group each user pushes to
  InitialLimit,  \* starting_worker_count
  Slots,         \* indices of p->tasks, 1 .. MAX_TASK_COUNT
  PushLimit,     \* bound: tasks a user pushes
  NoTask         \* an empty slot of p->tasks

ConstantsAssumption ==
  /\ IsFiniteSet(Workers) /\ IsFiniteSet(Users)
  /\ GroupOf \in [Users -> Groups]
  /\ InitialLimit \in Nat
  /\ Slots \in SUBSET Nat /\ IsFiniteSet(Slots)
  /\ PushLimit \in Nat
  /\ NoTask \notin Groups

VARIABLES
  tasks,                  \* p->tasks
  current_tasks_in_array, \* of each group
  current_working_tasks,  \* of each group
  working_count,
  worker_limit,
  released_count,         \* of each group
  running,
  wpc,     \* where each worker is
  task,    \* the task in the hands of each worker
  upc,     \* where each user is
  why,     \* what a user that waits goes on with
  pushed,  \* tasks each user has pushed
  aborted  \* an assertion of the code failed

countVars == <<current_tasks_in_array, current_working_tasks, working_count,
               worker_limit, released_count>>
workerVars == <<wpc, task>>
userVars == <<upc, why, pushed>>
vars == <<tasks, countVars, running, workerVars, userVars, aborted>>

TypeOK ==
  /\ tasks \in [Slots -> Groups \union {NoTask}]
  /\ current_tasks_in_array \in [Groups -> Nat]
  /\ current_working_tasks \in [Groups -> Nat]
  /\ working_count \in Nat /\ worker_limit \in Nat
  /\ released_count \in [Groups -> Nat]
  /\ running \in BOOLEAN /\ aborted \in BOOLEAN
  /\ wpc \in [Workers -> {"head", "asleep", "woken", "working", "exited"}]
  /\ task \in [Workers -> Groups \union {NoTask}]
  /\ upc \in [Users -> {"idle", "pushing", "asleep", "woken", "dropping",
                        "joining", "gone"}]
  /\ why \in [Users -> {"push", "wait", "destroy"}]
  /\ pushed \in [Users -> 0 .. PushLimit]

\* u_worker_thread_pool_create and u_worker_group_create.
Init ==
  /\ tasks = [s \in Slots |-> NoTask]
  /\ current_tasks_in_array = [g \in Groups |-> 0]
  /\ current_working_tasks = [g \in Groups |-> 0]
  /\ working_count = 0 /\ worker_limit = InitialLimit
  /\ released_count = [g \in Groups |-> 0]
  /\ running = TRUE /\ aborted = FALSE
  /\ wpc = [w \in Workers |-> "head"]
  /\ task = [w \in Workers |-> NoTask]
  /\ upc = [u \in Users |-> "idle"]
  /\ why = [u \in Users |-> "wait"]
  /\ pushed = [u \in Users |-> 0]

-----------------------------------------------------------------------------
(* Condition variables.  A signal wakes one sleeper, if there is one. *)

Signalled(pc) ==
  LET asleep == {t \in DOMAIN pc : pc[t] = "asleep"}
  IN  IF asleep = {} THEN {pc} ELSE {[pc EXCEPT ![t] = "woken"] : t \in asleep}

\* p->available.count, g->waiting.count: a woken thread is counted until it runs.
Waiting(pc) == {t \in DOMAIN pc : pc[t] \in {"asleep", "woken"}}
WaitersOf(g) == {u \in Waiting(upc) : GroupOf[u] = g}

Filled(array) == {s \in Slots : array[s] # NoTask}

\* locked_pool_wake_worker_if_allowed: what the workers may be doing after it.
WakeWorkerIfAllowed(array, working, limit, pc) ==
  IF Filled(array) = {} \/ working >= limit \/ Waiting(pc) = {}
  THEN {pc}
  ELSE Signalled(pc)

\* Mutant of TasksLeft: a task that has been taken is not counted.
TasksInArray(g, working_tasks) == current_tasks_in_array[g] # 0

\* locked_group_has_tasks_waiting_or_inflight
TasksLeft(g, working_tasks) ==
  current_tasks_in_array[g] # 0 \/ working_tasks[g] # 0

HasTasks(g) == TasksLeft(g, current_working_tasks)

-----------------------------------------------------------------------------
(* The worker threads: run_func. *)

First(S) == CHOOSE s \in S : \A t \in S : s <= t

\* locked_pool_pop_task by w, with `working' the working_count on entry.
PopTask(w, working, working_tasks, limit) ==
  LET s == First(Filled(tasks))
      g == tasks[s]
  IN  /\ tasks' = [tasks EXCEPT ![s] = NoTask]
      /\ current_tasks_in_array' = [current_tasks_in_array EXCEPT ![g] = @ - 1]
      /\ current_working_tasks' = [working_tasks EXCEPT ![g] = @ + 1]
      /\ task' = [task EXCEPT ![w] = g]
      /\ working_count' = working + 1
      /\ wpc' \in WakeWorkerIfAllowed(tasks', working + 1, limit,
                                      [wpc EXCEPT ![w] = "working"])

\* One pass of the loop of run_func, entered with the lock held.
Loop(w, working, working_tasks, limit) ==
  \/ /\ running
     /\ Filled(tasks) # {} /\ working < limit
     /\ PopTask(w, working, working_tasks, limit)
  \/ /\ running
     /\ Filled(tasks) = {} \/ working >= limit
     /\ wpc' = [wpc EXCEPT ![w] = "asleep"]
     /\ task' = [task EXCEPT ![w] = NoTask]
     /\ working_count' = working
     /\ current_working_tasks' = working_tasks
     /\ UNCHANGED <<tasks, current_tasks_in_array>>
  \/ /\ ~running
     /\ wpc' \in Signalled([wpc EXCEPT ![w] = "exited"])
     /\ task' = [task EXCEPT ![w] = NoTask]
     /\ working_count' = working
     /\ current_working_tasks' = working_tasks
     /\ UNCHANGED <<tasks, current_tasks_in_array>>

\* A worker that starts, or wakes up, takes the lock.
TakeWork(w) ==
  /\ wpc[w] \in {"head", "woken"}
  /\ Loop(w, working_count, current_working_tasks, worker_limit)
  /\ UNCHANGED <<worker_limit, released_count, running, userVars, aborted>>

SpuriousWorker(w) ==
  /\ wpc[w] = "asleep"
  /\ wpc' = [wpc EXCEPT ![w] = "woken"]
  /\ UNCHANGED <<tasks, countVars, running, task, userVars, aborted>>

\* locked_group_wake_waiter_if_allowed; `done' says that g has no task left.
WakeWaiterIfAllowed(g, done) ==
  LET asleep == {u \in WaitersOf(g) : upc[u] = "asleep"}
  IN  IF done /\ WaitersOf(g) # {}
      THEN /\ \/ asleep = {} /\ upc' = upc
              \/ \E u \in asleep : upc' = [upc EXCEPT ![u] = "woken"]
           /\ worker_limit' = worker_limit - 1
           /\ released_count' = [released_count EXCEPT ![g] = @ + 1]
           /\ aborted' = (aborted \/ worker_limit <= InitialLimit)
      ELSE UNCHANGED <<upc, worker_limit, released_count, aborted>>

\* The task returned: lock, count, wake a waiter, and round the loop.
FinishTask(w) ==
  LET g == task[w]
      working_tasks == [current_working_tasks EXCEPT ![g] = @ - 1]
  IN  /\ wpc[w] = "working"
      /\ WakeWaiterIfAllowed(g, ~TasksLeft(g, working_tasks))
      /\ Loop(w, working_count - 1, working_tasks, worker_limit')
      /\ UNCHANGED <<running, why, pushed>>

-----------------------------------------------------------------------------
(* The threads that use a group. *)

\* Where a user goes on when wait_all returns.
Resume(u) ==
  CASE why[u] = "wait" -> "idle"
    [] why[u] = "push" -> "pushing"
    [] why[u] = "destroy" -> "dropping"

\* u_worker_group_push with room in the array.
Push(u) ==
  LET free == Slots \ Filled(tasks)
      g == GroupOf[u]
  IN  /\ upc[u] \in {"idle", "pushing"}
      /\ pushed[u] < PushLimit
      /\ free # {}
      /\ tasks' = [tasks EXCEPT ![First(free)] = g]
      /\ current_tasks_in_array' = [current_tasks_in_array EXCEPT ![g] = @ + 1]
      /\ wpc' \in Signalled(wpc)
      /\ upc' = [upc EXCEPT ![u] = "idle"]
      /\ pushed' = [pushed EXCEPT ![u] = @ + 1]
      /\ UNCHANGED <<current_working_tasks, working_count, worker_limit,
                     released_count, running, task, why, aborted>>

\* Mutant of Donate: the waiting thread is not counted as one more worker.
DonateNothing(u, reason) ==
  /\ HasTasks(GroupOf[u])
  /\ worker_limit' = worker_limit
  /\ wpc' \in WakeWorkerIfAllowed(tasks, working_count, worker_limit, wpc)
  /\ upc' = [upc EXCEPT ![u] = "asleep"]
  /\ why' = [why EXCEPT ![u] = reason]
  /\ UNCHANGED <<tasks, current_tasks_in_array, current_working_tasks,
                 working_count, released_count, running, task, pushed,
                 aborted>>

\* u_worker_group_wait_all with tasks left: the first pass of its loop takes
\* back the released_count it has just raised and raises the limit instead.
Donate(u, reason) ==
  /\ HasTasks(GroupOf[u])
  /\ worker_limit' = worker_limit + 1
  /\ wpc' \in WakeWorkerIfAllowed(tasks, working_count, worker_limit + 1, wpc)
  /\ upc' = [upc EXCEPT ![u] = "asleep"]
  /\ why' = [why EXCEPT ![u] = reason]
  /\ UNCHANGED <<tasks, current_tasks_in_array, current_working_tasks,
                 working_count, released_count, running, task, pushed,
                 aborted>>

\* u_worker_group_push with a full array waits; without a task of its own in
\* it the wait returns at once and the loop spins, which changes nothing.
PushWhenFull(u) ==
  /\ upc[u] \in {"idle", "pushing"}
  /\ pushed[u] < PushLimit
  /\ Filled(tasks) = Slots
  /\ Donate(u, "push")

WaitAll(u) == upc[u] = "idle" /\ Donate(u, "wait")

\* A thread woken inside wait_all: locked_group_should_wait once more.
WokenWaiter(u) ==
  LET g == GroupOf[u]
      released == released_count[g] > 0
  IN  /\ upc[u] = "woken"
      /\ \/ /\ HasTasks(g) /\ released
            /\ released_count' = [released_count EXCEPT ![g] = @ - 1]
            /\ worker_limit' = worker_limit + 1
            /\ wpc' \in WakeWorkerIfAllowed(tasks, working_count,
                                            worker_limit + 1, wpc)
            /\ upc' = [upc EXCEPT ![u] = "asleep"]
         \/ /\ ~HasTasks(g) /\ released
            /\ released_count' = [released_count EXCEPT ![g] = @ - 1]
            /\ upc' = [upc EXCEPT ![u] = Resume(u)]
            /\ UNCHANGED <<worker_limit, wpc>>
         \/ /\ ~released
            /\ upc' = [upc EXCEPT ![u] = "asleep"]
            /\ UNCHANGED <<released_count, worker_limit, wpc>>
      /\ UNCHANGED <<tasks, current_tasks_in_array, current_working_tasks,
                     working_count, running, task, why, pushed, aborted>>

SpuriousWaiter(u) ==
  /\ upc[u] = "asleep"
  /\ upc' = [upc EXCEPT ![u] = "woken"]
  /\ UNCHANGED <<tasks, countVars, running, workerVars, why, pushed, aborted>>

\* u_worker_group_destroy waits for the tasks that are left.  A reference
\* that is not the last one to its group is only dropped.
DestroyGroup(u) ==
  LET others == {v \in Users \ {u} : GroupOf[v] = GroupOf[u]}
      stays == \E v \in others : upc[v] # "gone" /\ why[v] # "destroy"
  IN  /\ upc[u] = "idle"
      /\ \/ ~stays /\ Donate(u, "destroy")
         \/ /\ stays \/ ~HasTasks(GroupOf[u])
            /\ upc' = [upc EXCEPT ![u] = IF stays THEN "gone" ELSE "dropping"]
            /\ why' = [why EXCEPT ![u] = "destroy"]
            /\ UNCHANGED <<tasks, countVars, running, workerVars, pushed,
                           aborted>>

\* The group lets go of the pool; the last one runs
\* u_worker_thread_pool_destroy up to the join.
DropPool(u) ==
  LET last == \A v \in Users \ {u} : upc[v] = "gone"
  IN  /\ upc[u] = "dropping"
      /\ running' = ~last
      /\ wpc' \in IF last THEN Signalled(wpc) ELSE {wpc}
      /\ upc' = [upc EXCEPT ![u] = IF last THEN "joining" ELSE "gone"]
      /\ UNCHANGED <<tasks, countVars, task, why, pushed, aborted>>

JoinWorkers(u) ==
  /\ upc[u] = "joining"
  /\ \A w \in Workers : wpc[w] = "exited"
  /\ upc' = [upc EXCEPT ![u] = "gone"]
  /\ UNCHANGED <<tasks, countVars, running, workerVars, why, pushed, aborted>>

-----------------------------------------------------------------------------
Worker(w) == TakeWork(w) \/ FinishTask(w)

\* What a user does without having been asked to: the rest of a call.
InCall(u) == WokenWaiter(u) \/ DropPool(u) \/ JoinWorkers(u)

Call(u) == Push(u) \/ PushWhenFull(u) \/ WaitAll(u) \/ DestroyGroup(u)

\* Nothing is left to do when every user has let go of its group.
Finished == (\A u \in Users : upc[u] = "gone") /\ UNCHANGED vars

Next ==
  \/ \E w \in Workers : Worker(w) \/ SpuriousWorker(w)
  \/ \E u \in Users : Call(u) \/ InCall(u) \/ SpuriousWaiter(u)
  \/ Finished

(* Tasks return and the operating system runs every thread that can run. *)
Fairness ==
  /\ \A w \in Workers : WF_vars(Worker(w))
  /\ \A u \in Users : WF_vars(InCall(u))

Spec == Init /\ [][Next]_vars
FairSpec == Spec /\ Fairness

-----------------------------------------------------------------------------
(* Properties. *)

\* Users whose thread stands in for a worker: they wait, and nobody has
\* released them yet.
Donors == {u \in Users : upc[u] \in {"asleep", "woken"}
                          /\ released_count[GroupOf[u]] = 0}

CountsAreExact ==
  /\ worker_limit = InitialLimit + Cardinality(Donors)
  /\ working_count = Cardinality({w \in Workers : wpc[w] = "working"})
  /\ \A g \in Groups :
       /\ current_tasks_in_array[g] = Cardinality({s \in Slots : tasks[s] = g})
       /\ current_working_tasks[g] =
            Cardinality({w \in Workers : wpc[w] = "working" /\ task[w] = g})

\* A released thread finds its group without tasks.
ReleasedIsDone ==
  \A g \in Groups : released_count[g] > 0 =>
    /\ released_count[g] = 1
    /\ ~HasTasks(g)
    /\ \E u \in Users : GroupOf[u] = g /\ upc[u] = "woken"

WithinLimit == working_count <= worker_limit

(* With one thread to a group the counters, which are all that decides who *)
(* may work and who may stop waiting, are what they count; no more tasks   *)
(* run at a time than the pool was created for plus the threads donated by *)
(* waiting; and no assertion of u_worker.c fails.                          *)
PoolInvariant ==
  TypeOK /\ CountsAreExact /\ ReleasedIsDone /\ WithinLimit /\ ~aborted

Outstanding(g) ==
  \/ \E s \in Slots : tasks[s] = g
  \/ \E w \in Workers : wpc[w] = "working" /\ task[w] = g

(* u_worker_group_wait_all is a barrier: when it lets a thread go no task  *)
(* of the group is left in the array or in the hands of a worker.          *)
WaitIsABarrier ==
  [][\A u \in Users :
       u \in Waiting(upc) /\ u \notin Waiting(upc') => ~Outstanding(GroupOf[u])]_vars

(* A thread that waits for its group, or for the workers of a pool it      *)
(* destroys, goes on, even when the pool may run nothing without it.       *)
CallsReturn ==
  \A u \in Users :
    upc[u] \in {"asleep", "joining"} ~> upc[u] \in {"idle", "pushing", "gone"}

\* Threads that will take the lock without being woken.
Awake == {w \in Workers : wpc[w] \in {"head", "woken", "working"}}

(* Nobody is forgotten, though every wake-up is a signal to one thread and is *)
(* sent only if the counters allow it.  A thread asleep in wait_all has tasks *)
(* left and a worker that is not asleep; the one that joins the workers finds *)
(* them gone or one of them on its way; and a task in the array that the      *)
(* limit allows has a worker about to look for it, or every one of them busy. *)
NobodyForgotten ==
  /\ \A u \in Users : upc[u] = "asleep" => HasTasks(GroupOf[u]) /\ Awake # {}
  /\ \A u \in Users : upc[u] = "joining" =>
       Awake # {} \/ \A w \in Workers : wpc[w] = "exited"
  /\ running /\ Filled(tasks) # {} /\ working_count < worker_limit =>
       \/ \E w \in Workers : wpc[w] \in {"head", "woken"}
       \/ \A w \in Workers : wpc[w] = "working"
=============================================================================
