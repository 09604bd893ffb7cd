------------------------------- MODULE TaskRun -------------------------------
(***************************************************************************)
(* dbt_common/utils/executor.py and context.py: an application begins       *)
(* invocations, makes an executor and submits tasks to it, which run in the *)
(* caller's thread or in those of a pool.  The application and its tasks    *)
(* use context variables (ContextVars) and behaviour flags (BehaviorFlags). *)
(*                                                                         *)
(* The pool is concurrent.futures.ThreadPoolExecutor: a thread calls the    *)
(* initializer when it starts, then takes tasks in their order, and keeps   *)
(* its context from one task to the next.                                   *)
(***************************************************************************)
EXTENDS ContextVars, BehaviorFlags

CONSTANTS
    Main,           \* the thread of the application; the others are the pool's
    Tasks,
    None,           \* no task
    MaxInvocations, \* bound: invocations the application begins
    Programs        \* what applications do: operations of each thread, on names and flags

ASSUME MainAssumption == Main \in Threads /\ Evaluators = Threads
ASSUME TasksAssumption == None \notin Tasks /\ MaxInvocations \in Nat
ASSUME ProgramsAssumption ==
    \A p \in Programs :
        p.ops \in [Threads -> Nat] /\ p.names \subseteq Names /\ p.flags \subseteq Flags

Pool == Threads \ {Main}

VARIABLES
    program,     \* the program that runs
    ops,         \* bound: operations that each thread may still begin
    begun,       \* number of invocations begun; each has its context
    invocation,  \* the value of _INVOCATION_CONTEXT_VAR in each thread, 0 if unset
    executor,    \* "none", "single" or "multi"
    captured,    \* initargs: the context the pool's threads are given
    pool,        \* the threads of the pool: "unstarted", "starting" or "ready"
    queue,       \* tasks that no thread has taken
    running,     \* the task that each thread is in, or None
    base,        \* the number of blocks its thread was in when a task began
    failing,     \* what is raised through each thread: "no", "exception" or "interrupt"
    future       \* of each task: "none", "pending", "result" or "exception"

invocationVars == <<begun, invocation>>
taskVars == <<executor, captured, pool, queue, running, base, failing, future>>
vars == <<program, ops, invocationVars, taskVars, contextVars, flagVars>>

Init ==
    /\ program \in Programs
    /\ ops = program.ops
    /\ begun = 0 /\ invocation = [t \in Threads |-> 0]
    /\ executor = "none" /\ captured = 0
    /\ pool = [t \in Pool |-> "unstarted"]
    /\ queue = <<>> /\ running = [t \in Threads |-> None]
    /\ base = [t \in Threads |-> 0] /\ failing = [t \in Threads |-> "no"]
    /\ future = [k \in Tasks |-> "none"]
    /\ InitContextVars
    /\ InitFlags /\ \A f \in Flags \ program.flags : setting[f] = "true"

-----------------------------------------------------------------------------
(* Code of the application runs in t: its own, or a task's                 *)

Quiet(t) == Free(t) /\ evaluating[t] = <<>> /\ failing[t] = "no"
Active(t) == Quiet(t) /\ (t = Main \/ running[t] # None)
InTask(t) == running[t] # None
CallerIsFree == Active(Main) /\ ~InTask(Main)

SetInvocationContext ==
    /\ CallerIsFree /\ begun < MaxInvocations
    /\ begun' = begun + 1
    /\ invocation' = [invocation EXCEPT ![Main] = begun + 1]
    /\ UNCHANGED <<program, ops, taskVars, contextVars, flagVars>>

\* executor(config); get_invocation_context raises before the first invocation.
MakeExecutor ==
    /\ CallerIsFree /\ executor = "none"
    /\ \/ executor' = "single" /\ UNCHANGED captured
       \/ invocation[Main] # 0 /\ executor' = "multi" /\ captured' = invocation[Main]
    /\ UNCHANGED <<program, ops, invocationVars, pool, queue, running, base, failing, future,
                   contextVars, flagVars>>

Begin(t, k) ==
    /\ running' = [running EXCEPT ![t] = k]
    /\ base' = [base EXCEPT ![t] = Len(blocks[t])]
    /\ UNCHANGED <<program, ops, invocationVars, executor, captured, failing,
                   contextVars, flagVars>>

\* SingleThreadedExecutor.submit calls the function.
SubmitSingle(k) ==
    /\ CallerIsFree /\ executor = "single" /\ future[k] = "none"
    /\ future' = [future EXCEPT ![k] = "pending"]
    /\ Begin(Main, k) /\ UNCHANGED <<pool, queue>>

\* ThreadPoolExecutor.submit starts a thread, unless one is idle or all exist.
SubmitMulti(k) ==
    /\ CallerIsFree /\ executor = "multi" /\ future[k] = "none"
    /\ future' = [future EXCEPT ![k] = "pending"]
    /\ queue' = Append(queue, k)
    /\ \/ \E t \in Pool : pool[t] = "unstarted" /\ pool' = [pool EXCEPT ![t] = "starting"]
       \/ /\ \/ \A t \in Pool : pool[t] # "unstarted"
             \/ \E t \in Pool : pool[t] = "ready" /\ ~InTask(t)
          /\ UNCHANGED pool
    /\ UNCHANGED <<program, ops, invocationVars, executor, captured, running, base, failing,
                   contextVars, flagVars>>

\* Mutant: the thread asks for the caller's context when it starts.
InitializeLate(t) ==
    /\ pool[t] = "starting" /\ pool' = [pool EXCEPT ![t] = "ready"]
    /\ invocation' = [invocation EXCEPT ![t] = invocation[Main]]
    /\ UNCHANGED <<program, ops, begun, executor, captured, queue, running, base, failing,
                   future, contextVars, flagVars>>

\* _thread_initializer
ThreadInitializer(t) ==
    /\ pool[t] = "starting" /\ pool' = [pool EXCEPT ![t] = "ready"]
    /\ invocation' = [invocation EXCEPT ![t] = captured]
    /\ UNCHANGED <<program, ops, begun, executor, captured, queue, running, base, failing,
                   future, contextVars, flagVars>>

Take(t) ==
    /\ pool[t] = "ready" /\ ~InTask(t) /\ queue # <<>>
    /\ queue' = Tail(queue)
    /\ Begin(t, Head(queue)) /\ UNCHANGED <<pool, future>>

-----------------------------------------------------------------------------
(* What runs in a thread                                                   *)

Counted(t) == ops[t] > 0 /\ ops' = [ops EXCEPT ![t] = @ - 1]

\* A call of contextvars, or the beginning of a block.
UseContext(t) ==
    /\ Active(t) /\ Counted(t) /\ Operate(t, program.names)
    /\ UNCHANGED <<program, invocationVars, taskVars, flagVars>>

\* The rest of a call that sets several names.
ContinueCall(t) ==
    /\ Continue(t)
    /\ UNCHANGED <<program, ops, invocationVars, taskVars, flagVars>>

\* A block ends, in its course or by what is raised; a task leaves its own.
LeaveBlock(t) ==
    /\ evaluating[t] = <<>> /\ Len(blocks[t]) > base[t]
    /\ Leave(t)
    /\ UNCHANGED <<program, ops, invocationVars, taskVars, flagVars>>

EvaluateFlag(t) ==
    /\ Free(t) /\ failing[t] = "no" /\ (t = Main \/ InTask(t))
    /\ \/ Counted(t) /\ \E f \in program.flags : Check(t, f)
       \/ UNCHANGED ops /\ (Fire(t) \/ Mark(t) \/ Return(t))
    /\ UNCHANGED <<program, invocationVars, taskVars, contextVars>>

\* The event of the flag raises, through the task, to the application or to the
\* callback that evaluates it, which may catch the exception or let it through.
FlagRaises(t) ==
    /\ FireRaises(t)
    /\ failing' = [failing EXCEPT ![t] =
          IF InTask(t) /\ evaluating'[t] = <<>> THEN "exception" ELSE @]
    /\ UNCHANGED <<program, ops, invocationVars, executor, captured, pool, queue, running, base,
                   future, contextVars>>

\* A task raises an Exception, or a KeyboardInterrupt comes.
Fails(t) ==
    /\ InTask(t) /\ Quiet(t)
    /\ \E error \in {"exception", "interrupt"} : failing' = [failing EXCEPT ![t] = error]
    /\ UNCHANGED <<program, ops, invocationVars, executor, captured, pool, queue, running, base,
                   future, contextVars, flagVars>>

\* The task returns or raises.  The pool catches everything; submit of the
\* single-threaded executor lets an interrupt through, which leaves the blocks
\* of the application too.
Finish(t) ==
    /\ InTask(t) /\ Free(t) /\ evaluating[t] = <<>> /\ Len(blocks[t]) = base[t]
    /\ running' = [running EXCEPT ![t] = None]
    /\ base' = [base EXCEPT ![t] = 0]
    /\ IF t = Main /\ failing[t] = "interrupt"
       THEN UNCHANGED <<future, failing>>
       ELSE /\ future' = [future EXCEPT ![running[t]] =
                             IF failing[t] = "no" THEN "result" ELSE "exception"]
            /\ failing' = [failing EXCEPT ![t] = "no"]
    /\ UNCHANGED <<program, ops, invocationVars, executor, captured, pool, queue,
                   contextVars, flagVars>>

Next ==
    \/ SetInvocationContext \/ MakeExecutor
    \/ \E k \in Tasks : SubmitSingle(k) \/ SubmitMulti(k)
    \/ \E t \in Pool : ThreadInitializer(t) \/ Take(t)
    \/ \E t \in Threads :
          \/ UseContext(t) \/ ContinueCall(t) \/ LeaveBlock(t)
          \/ EvaluateFlag(t) \/ FlagRaises(t)
          \/ Fails(t) \/ Finish(t)

Spec == Init /\ [][Next]_vars

-----------------------------------------------------------------------------
(* Properties                                                              *)

\* A task of the pool runs in the invocation for which its executor was made,
\* whatever the application has begun since and however late the thread
\* started.  What it did to the context of its thread is gone when it is over,
\* failed or not: between tasks a thread has no values but of names that some
\* task set outside of blocks (and of names that two threads introduced at
\* once).  The outcome of a task that is over is in its future, unless it was
\* interrupted in the thread of the application.
TasksAreIsolated ==
    /\ \A t \in Pool : InTask(t) => invocation[t] = captured
    /\ \A t \in Pool, n \in Names :
          ~InTask(t) /\ OneVariable(n) /\ <<t, n>> \notin direct => Held(t, n) = {}
    /\ \A k \in Tasks :
          future[k] = "pending" =>
              \/ \E i \in DOMAIN queue : queue[i] = k
              \/ \E t \in Threads : running[t] = k
              \/ executor = "single" /\ failing[Main] = "interrupt"
=============================================================================
