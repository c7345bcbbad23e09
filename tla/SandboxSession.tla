--------------------------- MODULE SandboxSession ---------------------------
(***************************************************************************)
(* One SandboxSession of lib/sandbox_runner/manager.py, the worker         *)
(* processes it starts (worker.py), the reader thread that carries a       *)
(* worker's answers into the session's Queue, and any number of threads    *)
(* that call the session's methods at the same time.                       *)
(*                                                                         *)
(* The session keeps three references, _process, _response_queue and       *)
(* _tempdir.  _request_lock covers a request and its answer, and the start *)
(* of a worker; _terminate_process takes no lock, and execute and close    *)
(* call it after the lock has been released.  One action is one source     *)
(* line, or a group of lines that reads or writes the shared references    *)
(* once, which is the grain at which CPython threads interleave.           *)
(*                                                                         *)
(* A call is a number.  It starts at most one worker, so a worker, its     *)
(* Queue and its temporary directory are named by the call that started    *)
(* them, and it sends each action at most once, so the pair of call and    *)
(* action is the uuid4 request id.                                         *)
(***************************************************************************)
EXTENDS Integers, Sequences, FiniteSets

CONSTANTS
    Threads,        \* the threads that call the session
    NoThread,       \* the holder of a free lock
    MaxCalls,       \* bound: how many calls are made, the constructor included
    Ops,            \* the methods the threads call
    Faults,         \* what the environment may do, see FaultKinds
    MaxCrashing,    \* bound: the last call whose worker may crash
    CustomWorkdir   \* config.workdir is set: there is no temporary directory

Methods == {"execute", "send_variables", "ping", "reset", "close"}

(* crash: a worker may die at any moment (user code calling os._exit, a     *)
(* request it cannot decode, an answer it cannot encode, a kill from        *)
(* outside).  stray: something in the worker writes to its stdout.  spawn:  *)
(* the making of the directory, Popen, or the start of a reader thread may  *)
(* fail.  big: a request may exceed what the stdin pipe holds.              *)
FaultKinds == {"crash", "stray", "spawn", "big"}

ASSUME ThreadAssumption == NoThread \notin Threads
ASSUME CallAssumption == MaxCalls \in Nat
ASSUME CrashAssumption == MaxCrashing \in Nat
ASSUME OpsAssumption == Ops \subseteq Methods
ASSUME FaultAssumption == Faults \subseteq FaultKinds
ASSUME WorkdirAssumption == CustomWorkdir \in BOOLEAN

Calls == 1 .. MaxCalls
Workers == Calls
None == 0
OrNone(S) == S \cup {None}

VARIABLES
    lock,       \* _request_lock: its holder or NoThread
    process,    \* _process: the worker, or None
    queue,      \* _response_queue: the worker whose reader fills it, or None
    tempdir,    \* _tempdir: the worker it was made for, or None
    open,       \* the constructor has returned a session
    calls,      \* how many calls have been made
    worker,     \* the state of each worker process
    stdin,      \* the requests written to a worker and not yet read by it
    pipe,       \* the lines a worker printed and its reader has not read
    items,      \* the content of each worker's Queue
    dirs,       \* the temporary directories on disk
    ran,        \* history: the calls a worker's executor has worked on
    sentTo,     \* history: the worker a call's own request was written to
    pc,         \* where each thread is
    op,         \* the method its call runs
    call,       \* the number of its call
    sending,    \* the action of the request it sends or awaits
    bound,      \* the process or Queue it holds in a local variable
    cont,       \* where it goes on after _terminate_process
    outcome     \* how its call ended: an answer's status or an exception

sessionVars == <<lock, process, queue, tempdir, open>>
workerVars == <<worker, stdin, pipe, items, dirs, ran>>
threadVars == <<pc, op, call, sending, bound, cont, outcome>>
vars == <<sessionVars, workerVars, threadVars, calls, sentTo>>

Actions == {"init", "execute", "send_variables", "ping", "shutdown"}
Statuses == {"ok", "error", "exec_timeout", "garbage", "eof"}
Outcomes == {"none", "ok", "error", "exec_timeout", "timeout",
             "process_error", "os_error", "runtime_error", "assertion_error",
             "attribute_error"}
TerminateSteps == {"read", "clear_process", "clear_queue", "kill", "cleanup",
                   "remove", "forget"}
Steps == TerminateSteps \cup
         {"idle", "closing", "polling", "acquire", "ensure", "workdir", "new_queue",
          "spawn", "send", "flush", "await", "get", "release"}

Requests == [call : Calls, action : Actions]
Lines == [call : OrNone(Calls), action : Actions, status : Statuses]

\* A line SandboxResponse.from_json refuses, put in the Queue as an exception,
\* and the None the reader puts when the worker's stdout ends.
Garbage == [call |-> None, action |-> "init", status |-> "garbage"]
Eof == [call |-> None, action |-> "init", status |-> "eof"]

Alive(w) == w # None /\ worker[w] \in {"fresh", "ready"}

\* Variant: close asks for an action the worker does not know.
ActionOfUnmapped(o) == IF o \in {"create", "reset"} THEN "init" ELSE o

\* The last request a method sends; execute, send_variables and ping send an
\* action of their own name.
ActionOf(o) == CASE o = "close" -> "shutdown"
                 [] o \in {"create", "reset"} -> "init"
                 [] OTHER -> o

-----------------------------------------------------------------------------
Init ==
    /\ lock = NoThread
    /\ process = None
    /\ queue = None
    /\ tempdir = None
    /\ open = FALSE
    /\ calls = 0
    /\ worker = [w \in Workers |-> "unborn"]
    /\ stdin = [w \in Workers |-> <<>>]
    /\ pipe = [w \in Workers |-> <<>>]
    /\ items = [w \in Workers |-> <<>>]
    /\ dirs = {}
    /\ ran = [w \in Workers |-> {}]
    /\ sentTo = [c \in Calls |-> None]
    /\ pc = [t \in Threads |-> "idle"]
    /\ op = [t \in Threads |-> "create"]
    /\ call = [t \in Threads |-> None]
    /\ sending = [t \in Threads |-> "init"]
    /\ bound = [t \in Threads |-> None]
    /\ cont = [t \in Threads |-> "idle"]
    /\ outcome = [t \in Threads |-> "none"]

Goto(t, from, to) == pc[t] = from /\ pc' = [pc EXCEPT ![t] = to]

\* The request ends with the status or exception e and its locals are gone.
Raise(t, from, e) ==
    /\ Goto(t, from, "release")
    /\ outcome' = [outcome EXCEPT ![t] = e]
    /\ bound' = [bound EXCEPT ![t] = None]

-----------------------------------------------------------------------------
(* Calling a method.                                                       *)

\* The first call is the constructor; the methods need the session it returns.
Invoke(t, o) ==
    /\ pc[t] = "idle"
    /\ calls < MaxCalls
    /\ IF o = "create" THEN calls = 0 ELSE open
    /\ calls' = calls + 1
    /\ pc' = [pc EXCEPT ![t] = IF o = "close" THEN "closing" ELSE "acquire"]
    /\ op' = [op EXCEPT ![t] = o]
    /\ call' = [call EXCEPT ![t] = calls + 1]
    /\ outcome' = [outcome EXCEPT ![t] = "none"]
    /\ UNCHANGED <<sessionVars, workerVars, sentTo, sending, bound, cont>>

\* close: only a running worker is asked to shut down.  The line reads _process
\* twice, without the lock.
CheckAttached(t) ==
    /\ Goto(t, "closing", IF process = None THEN "read" ELSE "polling")
    /\ cont' = [cont EXCEPT ![t] = "idle"]
    /\ UNCHANGED <<sessionVars, workerVars, calls, sentTo, op, call, sending,
                   bound, outcome>>

CheckAlive(t) ==
    /\ process # None
    /\ Goto(t, "polling", IF Alive(process) THEN "acquire" ELSE "read")
    /\ UNCHANGED <<sessionVars, workerVars, calls, sentTo, op, call, sending,
                   bound, cont, outcome>>

\* The exception leaves close: nothing is terminated.
CheckGone(t) ==
    /\ process = None
    /\ Goto(t, "polling", "idle")
    /\ outcome' = [outcome EXCEPT ![t] = "attribute_error"]
    /\ UNCHANGED <<sessionVars, workerVars, calls, sentTo, op, call, sending,
                   bound, cont>>

\* Variant: reset starts a worker without terminating the one it has.
EntryResetKeeps(o) == IF o \in {"create", "reset"} THEN "workdir" ELSE "ensure"

\* Where a method starts once it has the lock.
Entry(o) == CASE o = "create" -> "workdir"
              [] o = "reset" -> "read"
              [] OTHER -> "ensure"

\* Variant: reset does not take the lock.
FreeExceptReset(t) == lock = NoThread \/ op[t] = "reset"

Free(t) == lock = NoThread

Acquire(t) ==
    /\ Free(t)
    /\ lock' = t
    /\ Goto(t, "acquire", Entry(op[t]))
    /\ cont' = [cont EXCEPT ![t] = "workdir"]
    /\ UNCHANGED <<process, queue, tempdir, open, workerVars, calls, sentTo,
                   op, call, sending, bound, outcome>>

\* Variant: only a dead worker is replaced, an absent one is not.
ReusableUnlessDead(p) == p = None \/ Alive(p)

\* Variant: a worker that is still busy is not used again.
ReusableUnlessBusy(p) == Alive(p) /\ stdin[p] = <<>>

Reusable(p) == Alive(p)

\* _ensure_process_locked.  It too reads _process twice: a reference cleared in
\* between is found missing by Send, which fails as the second read does, with
\* an assertion error for its attribute error.
Ensure(t) ==
    /\ Goto(t, "ensure", IF Reusable(process) THEN "send" ELSE "read")
    /\ sending' = [sending EXCEPT ![t] = ActionOf(op[t])]
    /\ UNCHANGED <<sessionVars, workerVars, calls, sentTo, op, call, bound,
                   cont, outcome>>

-----------------------------------------------------------------------------
(* _start_process_locked: its caller holds the lock.                       *)

\* Rebinding _tempdir drops the object it held, whose finalizer removes the
\* directory.
BuildWorkdir(t) ==
    /\ Goto(t, "workdir", "new_queue")
    /\ IF CustomWorkdir
         THEN UNCHANGED <<tempdir, dirs>>
         ELSE /\ tempdir' = call[t]
              /\ dirs' = (dirs \ {tempdir}) \cup {call[t]}
    /\ UNCHANGED <<lock, process, queue, open, worker, stdin, pipe, items,
                   ran, calls, sentTo, op, call, sending, bound, cont,
                   outcome>>

\* The directory cannot be made: the one there was is still the session's.
BuildWorkdirFails(t) ==
    /\ "spawn" \in Faults
    /\ Raise(t, "workdir", "os_error")
    /\ UNCHANGED <<sessionVars, workerVars, calls, sentTo, op, call, sending,
                   cont>>

NewQueue(t) ==
    /\ Goto(t, "new_queue", "spawn")
    /\ queue' = call[t]
    /\ UNCHANGED <<lock, process, tempdir, open, workerVars, calls, sentTo,
                   op, call, sending, bound, cont, outcome>>

\* Popen fails when its cwd is gone.
HasWorkdir(w) == CustomWorkdir \/ w \in dirs

\* The reads of _process that follow in straight line, up to the writing of the
\* request, are left to Send: a reference cleared in between is found missing
\* there, as an assertion error where a read of None.stdout is an attribute error.
Spawn(t) ==
    /\ Goto(t, "spawn", "send")
    /\ HasWorkdir(call[t])
    /\ process' = call[t]
    /\ worker' = [worker EXCEPT ![call[t]] = "fresh"]
    /\ sending' = [sending EXCEPT ![t] = "init"]
    /\ UNCHANGED <<lock, queue, tempdir, open, stdin, pipe, items, dirs, ran,
                   calls, sentTo, op, call, bound, cont, outcome>>

SpawnFails(t) ==
    /\ "spawn" \in Faults \/ ~HasWorkdir(call[t])
    /\ Raise(t, "spawn", "os_error")
    /\ UNCHANGED <<sessionVars, workerVars, calls, sentTo, op, call, sending,
                   cont>>

\* The worker runs and is the session's, but one of its reader threads cannot be
\* started, and it is not asked to init.  That Collect may still read its stdout
\* covers both threads: it need not.
StartReaderFails(t) ==
    /\ "spawn" \in Faults /\ HasWorkdir(call[t])
    /\ Raise(t, "spawn", "runtime_error")
    /\ process' = call[t]
    /\ worker' = [worker EXCEPT ![call[t]] = "fresh"]
    /\ UNCHANGED <<lock, queue, tempdir, open, stdin, pipe, items, dirs, ran,
                   calls, sentTo, op, call, sending, cont>>

-----------------------------------------------------------------------------
(* _send_request_locked                                                    *)

\* A request that exceeds the pipe's capacity is written only as the worker
\* reads it.
Send(t) ==
    /\ process # None /\ queue # None
    /\ Alive(process)
    /\ \/ Goto(t, "send", "await")
       \/ "big" \in Faults /\ Goto(t, "send", "flush")
    /\ stdin' = [stdin EXCEPT ![process] =
                   Append(@, [call |-> call[t], action |-> sending[t]])]
    /\ bound' = [bound EXCEPT ![t] = process]
    /\ sentTo' = IF sending[t] = "init" THEN sentTo
                 ELSE [sentTo EXCEPT ![call[t]] = process]
    /\ UNCHANGED <<sessionVars, worker, pipe, items, dirs, ran, calls, op,
                   call, sending, cont, outcome>>

\* The assertions on _process and _response_queue.
SendUnattached(t) ==
    /\ process = None \/ queue = None
    /\ Raise(t, "send", "assertion_error")
    /\ UNCHANGED <<sessionVars, workerVars, calls, sentTo, op, call, sending,
                   cont>>

SendBroken(t) ==
    /\ process # None /\ queue # None
    /\ ~Alive(process)
    /\ Raise(t, "send", "os_error")
    /\ UNCHANGED <<sessionVars, workerVars, calls, sentTo, op, call, sending,
                   cont>>

Flushed(t) ==
    /\ Alive(bound[t]) /\ stdin[bound[t]] = <<>>
    /\ Goto(t, "flush", "await")
    /\ UNCHANGED <<sessionVars, workerVars, calls, sentTo, op, call, sending,
                   bound, cont, outcome>>

FlushBroken(t) ==
    /\ ~Alive(bound[t])
    /\ Raise(t, "flush", "os_error")
    /\ UNCHANGED <<sessionVars, workerVars, calls, sentTo, op, call, sending,
                   cont>>

\* The loop reads _response_queue again in each round.
BindQueue(t) ==
    /\ queue # None
    /\ Goto(t, "await", "get")
    /\ bound' = [bound EXCEPT ![t] = queue]
    /\ UNCHANGED <<sessionVars, workerVars, calls, sentTo, op, call, sending,
                   cont, outcome>>

QueueGone(t) ==
    /\ queue = None
    /\ Raise(t, "await", "attribute_error")
    /\ UNCHANGED <<sessionVars, workerVars, calls, sentTo, op, call, sending,
                   cont>>

\* The deadline has passed: it may do so in any round.
TimesOut(t) ==
    /\ Raise(t, "await", "timeout")
    /\ UNCHANGED <<sessionVars, workerVars, calls, sentTo, op, call, sending,
                   cont>>

\* queue.get raised Empty: poll the process, and go round again.
StillEmpty(t) ==
    /\ pc[t] = "get" /\ items[bound[t]] = <<>>
    /\ Alive(process)
    /\ Goto(t, "get", "await")
    /\ UNCHANGED <<sessionVars, workerVars, calls, sentTo, op, call, sending,
                   bound, cont, outcome>>

EmptyAndDead(t) ==
    /\ pc[t] = "get" /\ items[bound[t]] = <<>>
    /\ ~Alive(process)
    /\ Raise(t, "get", IF process = None THEN "attribute_error"
                                         ELSE "process_error")
    /\ UNCHANGED <<sessionVars, workerVars, calls, sentTo, op, call, sending,
                   cont>>

\* Variant: answers are told apart by their action alone.
AnswersAction(item, t) == item.action = sending[t]

\* The item answers the request of thread t.
Answers(item, t) == item.call = call[t] /\ item.action = sending[t]

Broken(item) == item.status \in {"garbage", "eof"}

TakeItem(t) ==
    /\ pc[t] = "get" /\ items[bound[t]] # <<>>
    /\ items' = [items EXCEPT ![bound[t]] = Tail(@)]

Item(t) == Head(items[bound[t]])

TakeBroken(t) ==
    /\ TakeItem(t)
    /\ Broken(Item(t))
    /\ Raise(t, "get", "process_error")
    /\ UNCHANGED <<sessionVars, worker, stdin, pipe, dirs, ran, calls, sentTo,
                   op, call, sending, cont>>

\* The late answer to an earlier request is skipped.
TakeStale(t) ==
    /\ TakeItem(t)
    /\ ~Broken(Item(t)) /\ ~Answers(Item(t), t)
    /\ Goto(t, "get", "await")
    /\ UNCHANGED <<sessionVars, worker, stdin, pipe, dirs, ran, calls, sentTo,
                   op, call, sending,
                   bound, cont, outcome>>

\* The answer to init: the start is complete, or the worker is terminated.
TakeInitReply(t) ==
    /\ TakeItem(t)
    /\ ~Broken(Item(t)) /\ Answers(Item(t), t)
    /\ sending[t] = "init"
    /\ bound' = [bound EXCEPT ![t] = None]
    /\ IF Item(t).status # "ok"
         THEN /\ Goto(t, "get", "read")
              /\ cont' = [cont EXCEPT ![t] = "release"]
              /\ outcome' = [outcome EXCEPT ![t] = "process_error"]
              /\ UNCHANGED sending
         ELSE IF ActionOf(op[t]) = "init"
         THEN /\ Raise(t, "get", "ok")
              /\ UNCHANGED <<sending, cont>>
         ELSE /\ Goto(t, "get", "send")
              /\ sending' = [sending EXCEPT ![t] = ActionOf(op[t])]
              /\ UNCHANGED <<cont, outcome>>
    /\ UNCHANGED <<sessionVars, worker, stdin, pipe, dirs, ran, calls, sentTo,
                   op, call>>

TakeReply(t) ==
    /\ TakeItem(t)
    /\ ~Broken(Item(t)) /\ Answers(Item(t), t)
    /\ sending[t] # "init"
    /\ Raise(t, "get", Item(t).status)
    /\ UNCHANGED <<sessionVars, worker, stdin, pipe, dirs, ran, calls, sentTo,
                   op, call, sending, cont>>

\* Variant: execute keeps the worker whose interpreter gave up on a limit.
TerminatesOnException(o, out) ==
    o = "close" \/ (o = "execute" /\ out \in {"timeout", "process_error"})

\* execute terminates the worker on these outcomes, close on every outcome;
\* every other method returns or raises at once.
Terminates(o, out) ==
    \/ /\ o = "execute"
       /\ out \in {"timeout", "process_error", "exec_timeout"}
    \/ o = "close"

\* Variant: execute sends its request again when the worker has failed.
AfterLockRetry(t) ==
    IF op[t] = "execute" /\ outcome[t] = "process_error" THEN "acquire"
    ELSE IF Terminates(op[t], outcome[t]) THEN "read" ELSE "idle"

AfterLock(t) == IF Terminates(op[t], outcome[t]) THEN "read" ELSE "idle"

\* Variant: a timeout leaves the method before it releases the lock.
LockAfterUnlessTimeout(t) == IF outcome[t] = "timeout" THEN t ELSE NoThread

LockAfter(t) == NoThread

\* The with-block ends; what follows it in the method runs without the lock.
Release(t) ==
    /\ lock' = LockAfter(t)
    /\ Goto(t, "release", AfterLock(t))
    /\ cont' = [cont EXCEPT ![t] = "idle"]
    /\ open' = IF op[t] = "create" THEN outcome[t] = "ok" ELSE open
    /\ UNCHANGED <<process, queue, tempdir, workerVars, calls, sentTo, op,
                   call, sending, bound, outcome>>

-----------------------------------------------------------------------------
(* _terminate_process                                                      *)

ReadProcess(t) ==
    /\ Goto(t, "read", "clear_process")
    /\ bound' = [bound EXCEPT ![t] = process]
    /\ UNCHANGED <<sessionVars, workerVars, calls, sentTo, op, call, sending,
                   cont, outcome>>

ClearProcess(t) ==
    /\ Goto(t, "clear_process", "clear_queue")
    /\ process' = None
    /\ UNCHANGED <<lock, queue, tempdir, open, workerVars, calls, sentTo, op,
                   call, sending, bound, cont, outcome>>

ClearQueue(t) ==
    /\ Goto(t, "clear_queue", "kill")
    /\ queue' = None
    /\ UNCHANGED <<lock, process, tempdir, open, workerVars, calls, sentTo,
                   op, call, sending, bound, cont, outcome>>

\* Variant: a worker that never finished init is not killed.
NeedsKillReady(w) == Alive(w) /\ worker[w] = "ready"

NeedsKill(w) == Alive(w)

\* A thread holds, or can still get, the Queue of worker w.
Readable(w) ==
    queue = w \/ \E t \in Threads : pc[t] = "get" /\ bound[t] = w

\* poll, kill and wait on the process bound at the start.  When no thread can
\* reach its Queue any more, what the worker printed is of no account.
Kill(t) ==
    /\ Goto(t, "kill", "cleanup")
    /\ bound' = [bound EXCEPT ![t] = None]
    /\ LET w == bound[t] IN
         /\ IF NeedsKill(w)
              THEN /\ worker' = [worker EXCEPT ![w] = "dead"]
                   /\ stdin' = [stdin EXCEPT ![w] = <<>>]
              ELSE UNCHANGED <<worker, stdin>>
         /\ IF w # None /\ ~Readable(w)
              THEN /\ pipe' = [pipe EXCEPT ![w] = <<>>]
                   /\ items' = [items EXCEPT ![w] = <<>>]
              ELSE /\ pipe' = IF NeedsKill(w)
                                THEN [pipe EXCEPT ![w] = Append(@, Eof)]
                                ELSE pipe
                   /\ UNCHANGED items
    /\ UNCHANGED <<sessionVars, dirs, ran, calls, sentTo, op, call, sending,
                   cont, outcome>>

\* _tempdir is read anew by each of the lines that follow.
Cleanup(t) ==
    /\ Goto(t, "cleanup", IF tempdir = None THEN cont[t] ELSE "remove")
    /\ UNCHANGED <<sessionVars, workerVars, calls, sentTo, op, call, sending,
                   bound, cont, outcome>>

Remove(t) ==
    /\ tempdir # None
    /\ Goto(t, "remove", "forget")
    /\ dirs' = dirs \ {tempdir}
    /\ UNCHANGED <<sessionVars, worker, stdin, pipe, items, ran, calls,
                   sentTo, op, call, sending, bound, cont, outcome>>

\* Another termination was faster: the exception leaves the method, or the
\* with-block it is in.
RemoveGone(t) ==
    /\ tempdir = None
    /\ Goto(t, "remove", IF cont[t] = "idle" THEN "idle" ELSE "release")
    /\ outcome' = [outcome EXCEPT ![t] = "attribute_error"]
    /\ UNCHANGED <<sessionVars, workerVars, calls, sentTo, op, call, sending,
                   bound, cont>>

\* Clearing _tempdir also runs the finalizer of whatever it now holds.
Forget(t) ==
    /\ Goto(t, "forget", cont[t])
    /\ dirs' = dirs \ {tempdir}
    /\ tempdir' = None
    /\ UNCHANGED <<lock, process, queue, open, worker, stdin, pipe, items,
                   ran, calls, sentTo, op, call, sending, bound, cont,
                   outcome>>

-----------------------------------------------------------------------------
(* The worker process (worker.py) and the thread that reads its stdout.    *)

\* Variant: a worker without an executor answers all the same.
RepliesUnchecked(state, action) ==
    CASE action \in {"ping", "shutdown"} -> {"ok"}
      [] action = "execute" -> {"ok", "error", "exec_timeout"}
      [] OTHER -> {"ok", "error"}

\* The status handle_request can answer with, given the worker's state.
Replies(state, action) ==
    IF state = "fresh" /\ action \in {"execute", "send_variables"}
      THEN {"error"}
      ELSE CASE action \in {"ping", "shutdown"} -> {"ok"}
             [] action = "execute" -> {"ok", "error", "exec_timeout"}
             [] OTHER -> {"ok", "error"}

\* init sets the executor and may still fail after it; shutdown ends main.
After(state, action, status) ==
    CASE action = "shutdown" -> {"dead"}
      [] action = "init" -> IF status = "ok" THEN {"ready"}
                                             ELSE {"fresh", "ready"}
      [] OTHER -> {state}

\* What the worker prints: a stray line may come before the answer, or stray
\* text without a newline may make the answer unreadable.
Printed(response) ==
    {<<response>>} \cup
    IF "stray" \in Faults THEN {<<Garbage>>, <<Garbage, response>>} ELSE {}

UsesExecutor(state, action) ==
    state = "ready" /\ action \in {"execute", "send_variables"}

\* The effects of a request on worker w: it answers with the given lines and
\* goes on in the given state; a dead worker's stdin and stdout are closed.
Respond(w, request, state, lines) ==
    /\ stdin' = [stdin EXCEPT ![w] = IF state = "dead" THEN <<>> ELSE Tail(@)]
    /\ worker' = [worker EXCEPT ![w] = state]
    /\ pipe' = [pipe EXCEPT ![w] =
                  @ \o IF state = "dead" THEN Append(lines, Eof) ELSE lines]
    /\ ran' = IF UsesExecutor(worker[w], request.action)
                THEN [ran EXCEPT ![w] = @ \cup {request.call}]
                ELSE ran

\* One round of main: read a request, handle it, print the answer.
Handle(w) ==
    /\ Alive(w)
    /\ stdin[w] # <<>>
    /\ LET request == Head(stdin[w]) IN
         \E status \in Replies(worker[w], request.action) :
         \E state \in After(worker[w], request.action, status) :
         \E lines \in Printed([call |-> request.call,
                               action |-> request.action,
                               status |-> status]) :
           Respond(w, request, state, lines)
    /\ UNCHANGED <<sessionVars, items, dirs, threadVars, calls, sentTo>>

Crash(w) ==
    /\ "crash" \in Faults /\ w <= MaxCrashing
    /\ Alive(w)
    /\ worker' = [worker EXCEPT ![w] = "dead"]
    /\ stdin' = [stdin EXCEPT ![w] = <<>>]
    /\ pipe' = [pipe EXCEPT ![w] = Append(@, Eof)]
    /\ UNCHANGED <<sessionVars, items, dirs, ran, threadVars, calls, sentTo>>

\* _collect_stdout moves a line into the Queue it was started with, and the
\* final None once stdout has ended.
Collect(w) ==
    /\ pipe[w] # <<>> /\ Readable(w)
    /\ items' = [items EXCEPT ![w] = Append(@, Head(pipe[w]))]
    /\ pipe' = [pipe EXCEPT ![w] = Tail(@)]
    /\ UNCHANGED <<sessionVars, worker, stdin, dirs, ran, threadVars, calls,
                   sentTo>>

-----------------------------------------------------------------------------
Close(t) == CheckAttached(t) \/ CheckAlive(t) \/ CheckGone(t)

Start(t) == BuildWorkdir(t) \/ BuildWorkdirFails(t) \/ NewQueue(t) \/ Spawn(t)
            \/ SpawnFails(t) \/ StartReaderFails(t)

Write(t) == Send(t) \/ SendUnattached(t) \/ SendBroken(t) \/ Flushed(t)
            \/ FlushBroken(t)

Await(t) == BindQueue(t) \/ QueueGone(t) \/ StillEmpty(t) \/ EmptyAndDead(t)

Take(t) == TakeBroken(t) \/ TakeStale(t) \/ TakeInitReply(t) \/ TakeReply(t)

Terminate(t) == ReadProcess(t) \/ ClearProcess(t) \/ ClearQueue(t) \/ Kill(t)
                \/ Cleanup(t) \/ Remove(t) \/ RemoveGone(t) \/ Forget(t)

\* What a thread does by itself once it has called a method.
Step(t) == Close(t) \/ Acquire(t) \/ Ensure(t) \/ Start(t) \/ Write(t)
           \/ Await(t) \/ Take(t) \/ Release(t) \/ Terminate(t)

Next ==
    \/ \E t \in Threads : \E o \in Ops \cup {"create"} : Invoke(t, o)
    \/ \E t \in Threads : Step(t) \/ TimesOut(t)
    \/ \E w \in Workers : Handle(w) \/ Crash(w) \/ Collect(w)

Spec == Init /\ [][Next]_vars

(* Threads that can go on do, and a deadline passes in the end.  Nothing is *)
(* asked of a worker, which may never answer, nor of the thread that reads  *)
(* its stdout, which may not have been started.                             *)
Fairness == \A t \in Threads : WF_vars(Step(t)) /\ SF_vars(TimesOut(t))

FairSpec == Spec /\ Fairness

-----------------------------------------------------------------------------
(* Properties.                                                             *)

\* Type correctness of the session's attributes, the workers and the threads.
TypeOK ==
    /\ lock \in Threads \cup {NoThread}
    /\ process \in OrNone(Workers)
    /\ queue \in OrNone(Workers)
    /\ tempdir \in OrNone(Workers)
    /\ open \in BOOLEAN
    /\ calls \in 0 .. MaxCalls
    /\ worker \in [Workers -> {"unborn", "fresh", "ready", "dead"}]
    /\ stdin \in [Workers -> Seq(Requests)]
    /\ pipe \in [Workers -> Seq(Lines)]
    /\ items \in [Workers -> Seq(Lines)]
    /\ dirs \subseteq Workers
    /\ ran \in [Workers -> SUBSET Calls]
    /\ sentTo \in [Calls -> OrNone(Workers)]
    /\ pc \in [Threads -> Steps]
    /\ op \in [Threads -> Methods \cup {"create"}]
    /\ call \in [Threads -> OrNone(Calls)]
    /\ sending \in [Threads -> Actions]
    /\ bound \in [Threads -> OrNone(Workers)]
    /\ cont \in [Threads -> {"idle", "workdir", "release"}]
    /\ outcome \in [Threads -> Outcomes]

\* The worker the current request of thread t was written to.
Partner(t) == IF sending[t] = "init" THEN call[t] ELSE sentTo[call[t]]

\* A thread only ever waits on the Queue of the worker its request was written
\* to, although the loop of _send_request_locked reads _response_queue afresh
\* in every round while other threads replace it.
AwaitsItsWorker == \A t \in Threads : pc[t] = "get" => bound[t] = Partner(t)

\* A call that reports success, or a limit of the interpreter, was worked on by
\* the worker it was sent to: the late answer to a request that timed out is
\* never taken for it.
ResultIsOwn ==
    \A t \in Threads :
        /\ pc[t] = "idle" /\ op[t] \in {"execute", "send_variables"}
        /\ outcome[t] \in {"ok", "exec_timeout"}
        => \E w \in Workers : sentTo[call[t]] = w /\ call[t] \in ran[w]

\* No code is run twice: a call that failed is not sent to the worker that
\* takes the place of the failed one.
AtMostOnce ==
    \A v, w \in Workers : v # w => ran[v] \cap ran[w] = {}

\* The calls whose own request is among those in a worker's stdin.
OwnCalls(requests) ==
    {requests[i].call : i \in {j \in DOMAIN requests : requests[j].action # "init"}}

\* A call that returned a result: its answer says that its code was run.
Vouched(t) ==
    /\ pc[t] = "idle" /\ op[t] \in {"execute", "send_variables"}
    /\ outcome[t] \in {"ok", "exec_timeout"}

\* What callers see of the session.
CurrentCalls == [t \in Threads |-> IF pc[t] = "idle" THEN None ELSE call[t]]
SubmittedCalls == {c \in Calls : sentTo[c] # None}
PendingCalls == UNION {OwnCalls(stdin[w]) : w \in Workers}
WorkedCalls == UNION {ran[w] : w \in Workers}
VouchedCalls == [t \in Threads |-> Vouched(t)]

\* The session keeps the promise of SandboxCalls: whatever crashes, times out or is
\* terminated on the way, a call's code is run at most once, never after its
\* request was lost, and before a result is returned (manager.py:166, 188).
Promise == INSTANCE SandboxCalls WITH
    current <- CurrentCalls, submitted <- SubmittedCalls,
    pending <- PendingCalls, worked <- WorkedCalls, vouched <- VouchedCalls
AtMostOnceCalls == Promise!Spec

\* Where a thread is for those who share the session with it.  It enters where it is
\* decided whether to start a worker, and it has terminated the worker once that is
\* detached: the rest of a termination concerns nobody else.
StageOf(p, k, o) ==
    CASE p = "idle" -> p
      [] p \in {"closing", "polling"} -> "closing"
      [] p \in {"acquire", "ensure"} -> "enter"
      [] p \in {"workdir", "new_queue", "spawn"} -> "starting"
      [] p \in TerminateSteps /\ k = "workdir" ->
           IF o = "reset" /\ p \in {"read", "clear_process"} THEN "enter" ELSE "starting"
      [] p \in TerminateSteps /\ k = "idle" ->
           IF p \in {"read", "clear_process"} THEN "terminate" ELSE "idle"
      [] OTHER -> "await"
Stage(t) == StageOf(pc[t], cont[t], op[t])
Holder == IF \E t \in Threads : lock = t /\ Stage(t) # "enter" THEN lock ELSE NoThread

\* The variables of SandboxView, for the one session there is.
Running == [i \in {"self"} |-> Alive(process)]
Held == [i \in {"self"} |-> Holder]
Stages == [t \in Threads |-> Stage(t)]
Self == [t \in Threads |-> "self"]

\* The session is what PythonService takes it for, although terminations overtake
\* each other and the calls of others: a worker only appears in a call that holds
\* the request lock and has found none or is a reset, and a termination detaches at
\* one instant whatever worker there is (manager.py:158, 192, 274, 280).
View == INSTANCE SandboxView WITH
    Ids <- {"self"}, Methods <- Methods \cup {"create"}, Elsewhere <- {"idle"},
    worker <- Running, busy <- Held, pc <- Stages, arg <- Self
ImplementsView == View!Spec

\* A start never overwrites the reference to a worker.
StartsOnlyWhenDetached ==
    \A t \in Threads : pc[t] \in {"workdir", "new_queue", "spawn"} =>
                         process = None

\* Every running worker is the session's, or a thread is about to kill it.
NoOrphan ==
    \A w \in Workers : Alive(w) =>
        \/ process = w
        \/ \E t \in Threads :
              /\ pc[t] \in {"clear_process", "clear_queue", "kill"}
              /\ bound[t] = w

\* A running worker has its working directory.
LiveWorkerHasWorkdir == \A w \in Workers : Alive(w) => HasWorkdir(w)

\* No method fails because the session lost its process or its Queue under it.
NoInternalError ==
    \A t \in Threads : outcome[t] \notin {"assertion_error",
                                           "attribute_error"}

\* Once close has returned, or an execute that reports a timeout or a failed
\* worker, no worker runs, no temporary directory is left and the session
\* holds no reference: the next call starts afresh.
NothingLeftBehind ==
    \A t \in Threads :
        /\ pc[t] = "idle" /\ call[t] = calls
        /\ \/ op[t] = "close"
           \/ /\ op[t] = "execute"
              /\ outcome[t] \in {"timeout", "process_error", "exec_timeout"}
        => /\ \A w \in Workers : ~Alive(w)
           /\ dirs = {}
           /\ process = None /\ queue = None /\ tempdir = None

\* The calls that are to end the worker they find: an execute does when it reports
\* a timeout, a limit or a failure.
IsToEnd(t) ==
    \/ op[t] \in {"reset", "close"}
    \/ op[t] = "execute" /\ outcome[t] \in {"timeout", "process_error", "exec_timeout"}

\* The state a client has built up in a worker is not thrown away for another reason:
\* a thread that finds no worker it can use looks again before it terminates, and
\* ends none but the one it has started itself (manager.py:154, 158-160).
EndsWorkerForAReason ==
    [][\A t \in Threads, w \in Workers :
          Alive(w) /\ Kill(t) /\ worker'[w] = "dead" => IsToEnd(t) \/ w = call[t]]_vars

Quiet == \A t \in Threads : pc[t] = "idle"

\* "Sandbox worker exceeded the response timeout ... and was terminated."
\* (manager.py:242): once no call is under way, the worker an execute timed
\* out on is not running.
TimedOutWorkerTerminated ==
    Quiet => \A t \in Threads :
        op[t] = "execute" /\ outcome[t] = "timeout" => ~Alive(Partner(t))

\* execute returns a result for whatever goes wrong with the worker; it does
\* not raise.
ExecuteReturnsResult ==
    \A t \in Threads :
        pc[t] = "idle" /\ op[t] = "execute" =>
            outcome[t] \notin {"os_error", "runtime_error", "assertion_error",
                               "attribute_error"}

\* Every call of a method returns or raises, whatever the workers do.
EveryCallReturns == \A t \in Threads : pc[t] # "idle" ~> pc[t] = "idle"

=============================================================================
