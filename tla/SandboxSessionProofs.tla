------------------------ MODULE SandboxSessionProofs ------------------------
(***************************************************************************)
(* Proofs about SandboxSession for any number of threads, of calls and of  *)
(* faults.                                                                 *)
(***************************************************************************)
EXTENDS SandboxSession, SequenceTheorems, TLAPS

-----------------------------------------------------------------------------
(* The parts of the inductive invariant.                                   *)

\* A running call has a number, a waiting thread the Queue it waits on.
CalledInv ==
    \A t \in Threads :
        /\ pc[t] # "idle" => call[t] # None
        /\ pc[t] \in {"flush", "get"} => bound[t] # None

UnderLock == {"ensure", "workdir", "new_queue", "spawn", "send", "flush",
              "await", "get", "release"}

\* A thread is inside the with-block of _request_lock; a termination is when it
\* goes on inside it.
InLock(t) ==
    \/ pc[t] \in UnderLock
    \/ pc[t] \in TerminateSteps /\ cont[t] # "idle"

\* At most one thread is in the with-block, and the lock says which.
LockInv ==
    \A t \in Threads :
        /\ InLock(t) <=> lock = t
        /\ pc[t] = "ensure" => cont[t] = "workdir"
        /\ pc[t] = "polling" => cont[t] = "idle"

\* No call is made before the constructor has returned.
CreateInv ==
    /\ calls = 0 => process = None /\ ~open /\ \A t \in Threads : pc[t] = "idle"
    /\ \A t \in Threads : op[t] = "create" /\ pc[t] # "idle" =>
         /\ ~open
         /\ \A u \in Threads \ {t} : pc[u] = "idle"
    /\ \A t \in Threads : op[t] = "create" => pc[t] \notin {"closing", "polling"}

\* While a worker is about to be started, no process is attached.
DetachedInv ==
    /\ \A t \in Threads : pc[t] \in {"workdir", "new_queue", "spawn"} =>
         process = None
    /\ \A t \in Threads : op[t] = "create" /\ pc[t] = "acquire" =>
         process = None
    /\ \A t \in Threads :
         /\ pc[t] \in {"clear_queue", "kill", "cleanup", "remove", "forget"}
         /\ cont[t] # "idle"
         => process = None

\* Call numbers are not shared.
CallInv ==
    /\ \A t \in Threads : call[t] <= calls
    /\ \A t \in Threads : call[t] = None => op[t] = "create"
    /\ \A t, u \in Threads : t # u /\ call[t] = call[u] => call[t] = None

\* The process and the Queue a request is written to and awaited on.
RefersTo(t) ==
    /\ pc[t] = "ensure" => ActionOf(op[t]) # "init"
    /\ pc[t] = "spawn" => queue \in {None, call[t]}
    /\ pc[t] = "send" /\ sending[t] = "init" =>
         process \in {None, call[t]} /\ queue \in {None, call[t]}
    /\ pc[t] \in {"flush", "await", "get"} => queue \in {None, Partner(t)}
    /\ pc[t] = "get" => bound[t] = Partner(t)

RefInv ==
    /\ process # None /\ queue # None => process = queue
    /\ \A t \in Threads : RefersTo(t)

\* A request is "init", or the one the method is named for.
SendingInv ==
    \A t \in Threads : pc[t] \in {"send", "flush", "await", "get"} =>
        sending[t] \in {"init", ActionOf(op[t])}

\* Before the call's own request is written.
Unsent(t) ==
    \/ pc[t] \in {"closing", "polling", "acquire", "ensure", "workdir", "new_queue",
                  "spawn", "send"}
    \/ pc[t] \in TerminateSteps /\ cont[t] = "workdir"
    \/ pc[t] \in {"flush", "await", "get"} /\ sending[t] = "init"

Worked == {"execute", "send_variables"}
Done == {"ok", "exec_timeout"}

\* The requests that may be on their way to worker w.
SentRequests(w) ==
    {r \in Requests : r.action \in Worked => sentTo[r.call] = w}

\* Where a call's own request has gone.
SentInv ==
    /\ \A c \in Calls : c > calls => sentTo[c] = None
    /\ \A t \in Threads : Unsent(t) => sentTo[call[t]] = None
    /\ \A w \in Workers : stdin[w] \in Seq(SentRequests(w))
    /\ \A w \in Workers : \A c \in ran[w] : sentTo[c] = w

\* The lines worker w may print: one that reports a success is about a call the
\* worker has worked on.
HonestLines(w) ==
    {l \in Lines :
        l.action \in Worked /\ l.status \in Done => l.call \in ran[w]}

HonestInv ==
    \A w \in Workers :
        pipe[w] \in Seq(HonestLines(w)) /\ items[w] \in Seq(HonestLines(w))

\* An outcome that reports a success is about a call its worker has worked on.
Earned(t) ==
    op[t] \in Worked /\ outcome[t] \in Done =>
        \E w \in Workers : sentTo[call[t]] = w /\ call[t] \in ran[w]

ResultInv == \A t \in Threads : Earned(t)

TypeInv == TypeOK /\ CalledInv

\* The parts about the lock and the start of a worker.
StartInv == TypeInv /\ LockInv /\ CreateInv /\ DetachedInv

\* The inductive invariant.
IInv == StartInv /\ CallInv /\ RefInv /\ SendingInv /\ SentInv /\ HonestInv
        /\ ResultInv

-----------------------------------------------------------------------------
(* Type correctness.                                                       *)

\* The initial state is well-typed.
LEMMA InitTypeInv == Init => TypeInv
<1> SUFFICES ASSUME Init PROVE TypeInv
  OBVIOUS
<1> USE DEF Init
<1>1. lock \in Threads \cup {NoThread} /\ process \in OrNone(Workers)
      /\ queue \in OrNone(Workers) /\ tempdir \in OrNone(Workers)
      /\ open \in BOOLEAN /\ dirs \subseteq Workers
  BY DEF OrNone
<1>0. calls \in 0 .. MaxCalls
  BY CallAssumption
<1>2. worker \in [Workers -> {"unborn", "fresh", "ready", "dead"}]
      /\ ran \in [Workers -> SUBSET Calls]
      /\ sentTo \in [Calls -> OrNone(Workers)]
  BY DEF OrNone
<1>3. stdin \in [Workers -> Seq(Requests)] /\ pipe \in [Workers -> Seq(Lines)]
      /\ items \in [Workers -> Seq(Lines)]
  OBVIOUS
<1>4. pc \in [Threads -> Steps] /\ op \in [Threads -> Methods \cup {"create"}]
      /\ call \in [Threads -> OrNone(Calls)] /\ sending \in [Threads -> Actions]
      /\ bound \in [Threads -> OrNone(Workers)]
      /\ cont \in [Threads -> {"idle", "workdir", "release"}]
      /\ outcome \in [Threads -> Outcomes]
  BY DEF Steps, Actions, Outcomes, OrNone
<1> QED
  BY <1>0, <1>1, <1>2, <1>3, <1>4 DEF TypeInv, TypeOK, CalledInv

\* Where a method starts under the lock is a step of the thread.
LEMMA EntryType == \A o : Entry(o) \in Steps \ {"idle", "flush", "get"}
BY DEF Entry, Steps, TerminateSteps

\* Every method sends an action the worker knows.
LEMMA ActionOfType == \A o \in Methods \cup {"create"} : ActionOf(o) \in Actions
BY DEF ActionOf, Methods, Actions

\* After the lock a method terminates the worker or returns.
LEMMA AfterLockType == \A t : AfterLock(t) \in {"read", "idle"}
BY DEF AfterLock

\* What TakeItem yields, and what it leaves in the Queues.
LEMMA TakeItemType ==
    ASSUME TypeInv, NEW t \in Threads, TakeItem(t)
    PROVE  /\ bound[t] \in Workers
           /\ Item(t) \in Lines
           /\ items' \in [Workers -> Seq(Lines)]
<1>1. bound[t] \in Workers
  BY DEF TypeInv, TypeOK, CalledInv, TakeItem, OrNone
<1>2. items[bound[t]] \in Seq(Lines) /\ items[bound[t]] # <<>>
  BY <1>1 DEF TypeInv, TypeOK, TakeItem
<1>3. Item(t) \in Lines /\ Tail(items[bound[t]]) \in Seq(Lines)
  BY <1>2, HeadTailProperties DEF Item
<1> QED
  BY <1>1, <1>3 DEF TypeInv, TypeOK, TakeItem

\* Calling a method keeps the types.
LEMMA CallStepsType ==
    ASSUME TypeInv, NEW t \in Threads, NEW o \in Ops \cup {"create"},
           Invoke(t, o)
    PROVE  TypeInv'
<1>1. calls' \in 0 .. MaxCalls
  BY CallAssumption DEF Invoke, TypeInv, TypeOK
<1>2. pc' \in [Threads -> Steps]
  BY DEF Invoke, TypeInv, TypeOK, Steps
<1>3. op' \in [Threads -> Methods \cup {"create"}]
  BY OpsAssumption DEF Invoke, TypeInv, TypeOK
<1>4. call' \in [Threads -> OrNone(Calls)]
  BY CallAssumption DEF Invoke, TypeInv, TypeOK, Calls, OrNone
<1>5. outcome' \in [Threads -> Outcomes]
  BY DEF Invoke, TypeInv, TypeOK, Outcomes
<1>6. CalledInv'
  BY CallAssumption DEF Invoke, TypeInv, TypeOK, CalledInv, None
<1> QED
  BY <1>1, <1>2, <1>3, <1>4, <1>5, <1>6
  DEF Invoke, TypeInv, TypeOK, sessionVars, workerVars

\* Taking and releasing the lock keeps the types.
LEMMA LockStepsType ==
    ASSUME TypeInv, NEW t \in Threads,
           Close(t) \/ Acquire(t) \/ Ensure(t) \/ Release(t)
    PROVE  TypeInv'
<1>1. CASE Close(t)
  <2>1. CASE CheckAttached(t) \/ CheckAlive(t)
    BY <2>1 DEF CheckAttached, CheckAlive, Goto, TypeInv, TypeOK, CalledInv,
                Steps, TerminateSteps, sessionVars, workerVars
  <2>2. CASE CheckGone(t)
    BY <2>2 DEF CheckGone, Goto, TypeInv, TypeOK, CalledInv, Steps, Outcomes,
                sessionVars, workerVars
  <2> QED
    BY <1>1, <2>1, <2>2 DEF Close
<1>2. CASE Acquire(t)
  BY <1>2, EntryType
  DEF Acquire, Goto, TypeInv, TypeOK, CalledInv, workerVars
<1>3. CASE Ensure(t)
  BY <1>3, ActionOfType DEF Ensure, Goto, TypeInv, TypeOK, CalledInv, Steps,
              TerminateSteps, sessionVars, workerVars
<1>4. CASE Release(t)
  <2>1. pc' \in [Threads -> Steps] /\ CalledInv'
    BY <1>4, AfterLockType
    DEF Release, Goto, TypeInv, TypeOK, CalledInv, Steps, TerminateSteps
  <2>2. lock' \in Threads \cup {NoThread} /\ open' \in BOOLEAN
        /\ cont' \in [Threads -> {"idle", "workdir", "release"}]
    BY <1>4 DEF Release, LockAfter, TypeInv, TypeOK
  <2> QED
    BY <1>4, <2>1, <2>2 DEF Release, TypeInv, TypeOK, workerVars
<1> QED
  BY <1>1, <1>2, <1>3, <1>4

\* A step that ends the request: the rest of the state is left alone.
LEMMA RaiseType ==
    ASSUME TypeInv, NEW t \in Threads, NEW from, NEW e \in Outcomes,
           from # "idle", Raise(t, from, e), UNCHANGED call
    PROVE  /\ pc' \in [Threads -> Steps]
           /\ outcome' \in [Threads -> Outcomes]
           /\ bound' \in [Threads -> OrNone(Workers)]
           /\ CalledInv'
BY DEF Raise, Goto, TypeInv, TypeOK, CalledInv, Steps, OrNone

\* A thread's step that raises or goes back to waiting keeps the types.
LEMMA RaisedType ==
    ASSUME TypeInv, NEW t \in Threads, NEW from, NEW e \in Outcomes,
           from # "idle", Raise(t, from, e),
           UNCHANGED <<sessionVars, workerVars, calls, sentTo, op, call,
                       sending, cont>>
    PROVE  TypeInv'
<1>1. /\ pc' \in [Threads -> Steps]
      /\ outcome' \in [Threads -> Outcomes]
      /\ bound' \in [Threads -> OrNone(Workers)]
      /\ CalledInv'
  BY RaiseType
<1> QED
  BY <1>1 DEF TypeInv, TypeOK, sessionVars, workerVars

\* Starting a worker keeps the types.
LEMMA StartStepsType ==
    ASSUME TypeInv, NEW t \in Threads, Start(t)
    PROVE  TypeInv'
<1> USE DEF Goto, TypeInv, TypeOK, CalledInv, Steps, OrNone, sessionVars,
            workerVars
<1>0. call[t] \in Workers
  BY DEF Start, BuildWorkdir, BuildWorkdirFails, NewQueue, Spawn, SpawnFails, StartReaderFails, Raise, Workers
<1>1. CASE BuildWorkdir(t)
  BY <1>0, <1>1 DEF BuildWorkdir
<1>2. CASE NewQueue(t)
  BY <1>0, <1>2 DEF NewQueue
<1>3. CASE Spawn(t)
  BY <1>0, <1>3 DEF Spawn, Actions
<1>4. CASE BuildWorkdirFails(t) \/ SpawnFails(t)
  <2>1. "os_error" \in Outcomes
    BY DEF Outcomes
  <2>2. TypeInv
    OBVIOUS
  <2>3. BuildWorkdirFails(t) => Raise(t, "workdir", "os_error")
    BY DEF BuildWorkdirFails
  <2>4. SpawnFails(t) => Raise(t, "spawn", "os_error")
    BY DEF SpawnFails
  <2>5. UNCHANGED <<sessionVars, workerVars, calls, sentTo, op, call, sending,
                    cont>>
    BY <1>4 DEF BuildWorkdirFails, SpawnFails
  <2> QED
    BY <1>4, <2>1, <2>2, <2>3, <2>4, <2>5, RaisedType
<1>5. CASE StartReaderFails(t)
  BY <1>0, <1>5 DEF StartReaderFails, Raise, Outcomes
<1> QED
  BY <1>1, <1>2, <1>3, <1>4, <1>5 DEF Start

\* Writing a request keeps the types.
LEMMA WriteStepsType ==
    ASSUME TypeInv, NEW t \in Threads, Write(t)
    PROVE  TypeInv'
<1> USE DEF Goto, TypeInv, TypeOK, CalledInv, Steps, OrNone, sessionVars,
            workerVars
<1>1. CASE Send(t)
  <2>1. process \in Workers /\ call[t] \in Calls
    BY <1>1 DEF Send
  <2>2. stdin' \in [Workers -> Seq(Requests)]
    <3>1. [call |-> call[t], action |-> sending[t]] \in Requests
      BY <2>1 DEF Requests
    <3>2. stdin[process] \in Seq(Requests)
      BY <2>1
    <3>3. Append(stdin[process], [call |-> call[t], action |-> sending[t]])
          \in Seq(Requests)
      BY <3>1, <3>2
    <3> QED
      BY <1>1, <3>3 DEF Send
  <2>3. sentTo' \in [Calls -> OrNone(Workers)]
    BY <1>1, <2>1 DEF Send
  <2>4. pc' \in [Threads -> Steps] /\ bound' \in [Threads -> OrNone(Workers)]
        /\ CalledInv'
    BY <1>1, <2>1 DEF Send
  <2> QED
    BY <1>1, <2>2, <2>3, <2>4 DEF Send
<1>2. CASE SendUnattached(t)
  BY <1>2, RaisedType, "assertion_error" \in Outcomes DEF SendUnattached, Outcomes
<1>3. CASE SendBroken(t)
  BY <1>3, RaisedType, "os_error" \in Outcomes DEF SendBroken, Outcomes
<1>4. CASE FlushBroken(t)
  BY <1>4, RaisedType, "os_error" \in Outcomes DEF FlushBroken, Outcomes
<1>5. CASE Flushed(t)
  BY <1>5 DEF Flushed
<1> QED
  BY <1>1, <1>2, <1>3, <1>4, <1>5 DEF Write

\* Waiting for an answer keeps the types.
LEMMA AwaitStepsType ==
    ASSUME TypeInv, NEW t \in Threads, Await(t) \/ TimesOut(t)
    PROVE  TypeInv'
<1> USE DEF Goto, TypeInv, TypeOK, CalledInv, Steps, OrNone, sessionVars,
            workerVars
<1>1. CASE BindQueue(t)
  BY <1>1 DEF BindQueue
<1>2. CASE StillEmpty(t)
  BY <1>2 DEF StillEmpty
<1>3. CASE QueueGone(t)
  BY <1>3, RaisedType, "attribute_error" \in Outcomes DEF QueueGone, Outcomes
<1>4. CASE EmptyAndDead(t)
  BY <1>4, RaisedType, {"attribute_error", "process_error"} \subseteq Outcomes
  DEF EmptyAndDead, Outcomes
<1>5. CASE TimesOut(t)
  BY <1>5, RaisedType, "timeout" \in Outcomes DEF TimesOut, Outcomes
<1> QED
  BY <1>1, <1>2, <1>3, <1>4, <1>5 DEF Await

\* Taking an item from a Queue keeps the types.
LEMMA TakeStepsType ==
    ASSUME TypeInv, NEW t \in Threads, Take(t)
    PROVE  TypeInv'
<1>0. TakeItem(t)
  BY DEF Take, TakeBroken, TakeStale, TakeInitReply, TakeReply
<1>1. Item(t) \in Lines /\ items' \in [Workers -> Seq(Lines)]
  BY <1>0, TakeItemType
<1>2. pc[t] = "get" /\ call[t] # None /\ op[t] \in Methods \cup {"create"}
  BY <1>0 DEF TakeItem, TypeInv, TypeOK, CalledInv
<1> USE DEF Goto, TypeInv, TypeOK, CalledInv, Steps, OrNone, sessionVars,
            workerVars
<1>3. CASE TakeBroken(t)
  BY <1>1, <1>3 DEF TakeBroken, Raise, Outcomes
<1>4. CASE TakeStale(t)
  BY <1>1, <1>4 DEF TakeStale
<1>5. CASE TakeInitReply(t)
  <2>1. bound' \in [Threads -> OrNone(Workers)]
    BY <1>5 DEF TakeInitReply
  <2>2. pc' \in [Threads -> Steps]
    <3>1. {"read", "release", "send"} \subseteq Steps
      BY DEF TerminateSteps
    <3>2. \E to \in {"read", "release", "send"} : pc' = [pc EXCEPT ![t] = to]
      BY <1>5 DEF TakeInitReply, Raise
    <3> QED
      BY <3>1, <3>2
  <2>5. outcome' \in [Threads -> Outcomes]
    <3>1. {"ok", "process_error"} \subseteq Outcomes
      BY DEF Outcomes
    <3> QED
      BY <1>5, <3>1 DEF TakeInitReply, Raise
  <2>3. sending' \in [Threads -> Actions]
        /\ cont' \in [Threads -> {"idle", "workdir", "release"}]
    BY <1>2, <1>5, ActionOfType DEF TakeInitReply
  <2>4. CalledInv'
    BY <1>2, <1>5 DEF TakeInitReply, Raise
  <2> QED
    BY <1>1, <1>5, <2>1, <2>2, <2>3, <2>4, <2>5 DEF TakeInitReply
<1>6. CASE TakeReply(t)
  <2>1. Item(t).status \in Outcomes
    BY <1>1, <1>6 DEF TakeReply, Broken, Lines, Statuses, Outcomes
  <2> QED
    BY <1>1, <1>6, <2>1 DEF TakeReply, Raise
<1> QED
  BY <1>3, <1>4, <1>5, <1>6 DEF Take

\* Terminating the worker keeps the types.
LEMMA TerminateStepsType ==
    ASSUME TypeInv, NEW t \in Threads, Terminate(t)
    PROVE  TypeInv'
<1> USE DEF Goto, TypeInv, TypeOK, CalledInv, Steps, TerminateSteps, OrNone,
            sessionVars, workerVars
<1>1. CASE ReadProcess(t)
  BY <1>1 DEF ReadProcess
<1>2. CASE ClearProcess(t)
  BY <1>2 DEF ClearProcess
<1>3. CASE ClearQueue(t)
  BY <1>3 DEF ClearQueue
<1>4. CASE Kill(t)
  <2>1. worker' \in [Workers -> {"unborn", "fresh", "ready", "dead"}]
    BY <1>4 DEF Kill
  <2>2. stdin' \in [Workers -> Seq(Requests)]
    <3>1. stdin' = stdin \/ stdin' = [stdin EXCEPT ![bound[t]] = <<>>]
      BY <1>4 DEF Kill
    <3>2. <<>> \in Seq(Requests)
      OBVIOUS
    <3> QED
      BY <3>1, <3>2
  <2>3. pipe' \in [Workers -> Seq(Lines)] /\ items' \in [Workers -> Seq(Lines)]
    <3>1. Eof \in Lines
      BY DEF Eof, Lines, Actions, Statuses
    <3>2. <<>> \in Seq(Lines) /\ \A w \in Workers : Append(pipe[w], Eof) \in Seq(Lines)
      BY <3>1
    <3>3. \/ pipe' = pipe
          \/ pipe' = [pipe EXCEPT ![bound[t]] = <<>>]
          \/ pipe' = [pipe EXCEPT ![bound[t]] = Append(@, Eof)]
      BY <1>4 DEF Kill
    <3>4. items' = items \/ items' = [items EXCEPT ![bound[t]] = <<>>]
      BY <1>4 DEF Kill
    <3>5. items' \in [Workers -> Seq(Lines)]
      BY <3>2, <3>4
    <3>6. \A w \in Workers : pipe'[w] \in {pipe[w], <<>>, Append(pipe[w], Eof)}
      BY <3>3
    <3>7. DOMAIN pipe' = Workers /\ pipe' = [w \in Workers |-> pipe'[w]]
      BY <3>3
    <3>8. \A w \in Workers : pipe'[w] \in Seq(Lines)
      BY <3>2, <3>6
    <3> QED
      BY <3>5, <3>7, <3>8
  <2>4. pc' \in [Threads -> Steps] /\ bound' \in [Threads -> OrNone(Workers)]
        /\ CalledInv'
    BY <1>4 DEF Kill
  <2> QED
    BY <1>4, <2>1, <2>2, <2>3, <2>4 DEF Kill
<1>5. CASE Cleanup(t)
  BY <1>5 DEF Cleanup
<1>6. CASE Forget(t)
  BY <1>6 DEF Forget
<1>7. CASE Remove(t)
  BY <1>7 DEF Remove
<1>8. CASE RemoveGone(t)
  BY <1>8 DEF RemoveGone, Outcomes
<1> QED
  BY <1>1, <1>2, <1>3, <1>4, <1>5, <1>6, <1>7, <1>8 DEF Terminate

\* The lines a worker prints are well-formed.
LEMMA PrintedType ==
    ASSUME NEW response \in Lines, NEW lines \in Printed(response)
    PROVE  lines \in Seq(Lines) /\ Append(lines, Eof) \in Seq(Lines)
<1>1. Garbage \in Lines /\ Eof \in Lines
  BY DEF Garbage, Eof, Lines, OrNone, Actions, Statuses
<1>2. <<response>> \in Seq(Lines) /\ <<Garbage>> \in Seq(Lines)
      /\ <<Garbage, response>> \in Seq(Lines)
  BY <1>1
<1>3. lines \in Seq(Lines)
  BY <1>2 DEF Printed
<1> QED
  BY <1>1, <1>3

\* What a worker and its reader do keeps the types.
LEMMA WorkerStepsType ==
    ASSUME TypeInv, NEW w \in Workers, Handle(w) \/ Crash(w) \/ Collect(w)
    PROVE  TypeInv'
<1> USE DEF TypeInv, TypeOK, CalledInv, sessionVars, workerVars, threadVars
<1>0. Eof \in Lines
  BY DEF Eof, Lines, OrNone, Actions, Statuses
<1>1. CASE Handle(w)
  <2> DEFINE request == Head(stdin[w])
  <2>1. request \in Requests /\ Tail(stdin[w]) \in Seq(Requests)
    BY <1>1, HeadTailProperties DEF Handle
  <2>2. PICK status \in Replies(worker[w], request.action) :
          \E state \in After(worker[w], request.action, status) :
          \E lines \in Printed([call |-> request.call,
                                action |-> request.action,
                                status |-> status]) :
            Respond(w, request, state, lines)
    BY <1>1 DEF Handle
  <2>0. PICK state \in After(worker[w], request.action, status),
             lines \in Printed([call |-> request.call,
                                action |-> request.action,
                                status |-> status]) :
            Respond(w, request, state, lines)
    BY <2>2
  <2>3. status \in Statuses
    BY DEF Replies, Statuses
  <2>4. [call |-> request.call, action |-> request.action, status |-> status]
        \in Lines
    BY <2>1, <2>3 DEF Requests, Lines, OrNone
  <2>5. lines \in Seq(Lines) /\ Append(lines, Eof) \in Seq(Lines)
    BY <2>4, PrintedType
  <2>6. pipe' \in [Workers -> Seq(Lines)]
    BY <2>0, <2>5 DEF Respond
  <2>7. stdin' \in [Workers -> Seq(Requests)]
    BY <2>0, <2>1 DEF Respond
  <2>8. worker' \in [Workers -> {"unborn", "fresh", "ready", "dead"}]
    BY <2>0 DEF After, Respond
  <2>9. ran' \in [Workers -> SUBSET Calls]
    BY <2>0, <2>1 DEF Requests, Respond
  <2> QED
    BY <1>1, <2>6, <2>7, <2>8, <2>9 DEF Handle
<1>2. CASE Crash(w)
  BY <1>0, <1>2 DEF Crash
<1>3. CASE Collect(w)
  <2>1. Head(pipe[w]) \in Lines /\ Tail(pipe[w]) \in Seq(Lines)
    BY <1>3, HeadTailProperties DEF Collect
  <2>2. Append(items[w], Head(pipe[w])) \in Seq(Lines)
    BY <2>1
  <2> QED
    BY <1>3, <2>1, <2>2 DEF Collect
<1> QED
  BY <1>1, <1>2, <1>3

\* Every step keeps the types.
LEMMA NextTypeInv == TypeInv /\ [Next]_vars => TypeInv'
<1> SUFFICES ASSUME TypeInv, [Next]_vars PROVE TypeInv'
  OBVIOUS
<1>1. ASSUME NEW t \in Threads, NEW o \in Ops \cup {"create"}, Invoke(t, o)
      PROVE  TypeInv'
  BY <1>1, CallStepsType
<1>2. ASSUME NEW t \in Threads, Step(t) \/ TimesOut(t)
      PROVE  TypeInv'
  BY <1>2, LockStepsType, StartStepsType, WriteStepsType, AwaitStepsType,
     TakeStepsType, TerminateStepsType DEF Step
<1>3. ASSUME NEW w \in Workers, Handle(w) \/ Crash(w) \/ Collect(w)
      PROVE  TypeInv'
  BY <1>3, WorkerStepsType
<1>4. CASE UNCHANGED vars
  BY <1>4 DEF vars, sessionVars, workerVars, threadVars, TypeInv, TypeOK,
              CalledInv
<1> QED
  BY <1>1, <1>2, <1>3, <1>4 DEF Next

\* The attributes of the session, the state of its workers and of the threads
\* that call it always have the values the code gives them.
THEOREM TypeCorrect == Spec => []TypeOK
<1>1. Spec => []TypeInv
  BY InitTypeInv, NextTypeInv, PTL DEF Spec
<1>2. TypeInv => TypeOK
  BY DEF TypeInv
<1> QED
  BY <1>1, <1>2, PTL

-----------------------------------------------------------------------------
(* Mutual exclusion.                                                       *)

\* A step of one thread that neither enters nor leaves the with-block.
LEMMA LockFrame ==
    ASSUME TypeInv, LockInv, NEW t \in Threads, UNCHANGED lock,
           \A u \in Threads \ {t} : pc'[u] = pc[u] /\ cont'[u] = cont[u],
           InLock(t)' <=> InLock(t), pc'[t] # "ensure",
           pc'[t] = "polling" => cont'[t] = "idle"
    PROVE  LockInv'
BY DEF LockInv, InLock, UnderLock

\* Every step keeps the mutual exclusion.
LEMMA NextLockInv == TypeInv /\ LockInv /\ [Next]_vars => LockInv'
<1> SUFFICES ASSUME TypeInv, LockInv, [Next]_vars PROVE LockInv'
  OBVIOUS
<1> USE DEF Goto, TypeInv, TypeOK, InLock, UnderLock, TerminateSteps
<1>1. ASSUME NEW t \in Threads, NEW o \in Ops \cup {"create"}, Invoke(t, o)
      PROVE  LockInv'
  BY <1>1, LockFrame DEF Invoke, sessionVars
<1>2. ASSUME NEW t \in Threads, Close(t) PROVE LockInv'
  <2>1. lock' = lock /\ ~InLock(t) /\ ~InLock(t)' /\ pc'[t] # "ensure"
        /\ (pc'[t] = "polling" => cont'[t] = "idle")
    BY <1>2 DEF Close, CheckAttached, CheckAlive, CheckGone, LockInv, sessionVars
  <2>2. \A u \in Threads \ {t} : pc'[u] = pc[u] /\ cont'[u] = cont[u]
    BY <1>2 DEF Close, CheckAttached, CheckAlive, CheckGone
  <2> QED
    BY <2>1, <2>2, LockFrame
<1>3. ASSUME NEW t \in Threads, Acquire(t) PROVE LockInv'
  BY <1>3, ThreadAssumption DEF Acquire, Free, Entry, LockInv
<1>4. ASSUME NEW t \in Threads, Ensure(t) PROVE LockInv'
  <2>1. cont[t] = "workdir" /\ cont' = cont
    BY <1>4 DEF Ensure, LockInv
  <2>2. pc'[t] \in {"send", "read"}
    BY <1>4 DEF Ensure
  <2> QED
    BY <1>4, <2>1, <2>2, LockFrame DEF Ensure, sessionVars
<1>5. ASSUME NEW t \in Threads, Start(t) PROVE LockInv'
  <2>1. /\ lock' = lock /\ cont' = cont /\ pc[t] \in UnderLock
        /\ pc'[t] \in {"new_queue", "spawn", "send", "release"}
    BY <1>5 DEF Start, BuildWorkdir, BuildWorkdirFails, NewQueue, Spawn,
                SpawnFails, StartReaderFails, Raise, sessionVars
  <2>2. \A u \in Threads \ {t} : pc'[u] = pc[u]
    BY <1>5 DEF Start, BuildWorkdir, BuildWorkdirFails, NewQueue, Spawn,
                SpawnFails, StartReaderFails, Raise
  <2> QED
    BY <2>1, <2>2, LockFrame
<1>6. ASSUME NEW t \in Threads, Write(t) PROVE LockInv'
  BY <1>6, LockFrame DEF Write, Send, SendUnattached, SendBroken, Flushed,
                         FlushBroken, Raise, sessionVars
<1>7. ASSUME NEW t \in Threads, Await(t) \/ TimesOut(t) PROVE LockInv'
  BY <1>7, LockFrame DEF Await, BindQueue, QueueGone, StillEmpty,
                         EmptyAndDead, TimesOut, Raise, sessionVars
<1>8. ASSUME NEW t \in Threads, Take(t) PROVE LockInv'
  <2>1. CASE TakeInitReply(t)
    <3>1. /\ pc[t] = "get" /\ lock' = lock
          /\ \/ pc'[t] \in {"release", "send"}
             \/ pc'[t] = "read" /\ cont'[t] = "release"
      BY <2>1 DEF TakeInitReply, Raise, sessionVars
    <3>2. \A u \in Threads \ {t} : pc'[u] = pc[u] /\ cont'[u] = cont[u]
      BY <2>1 DEF TakeInitReply, Raise
    <3> QED
      BY <3>1, <3>2, LockFrame
  <2>2. CASE TakeBroken(t) \/ TakeStale(t) \/ TakeReply(t)
    BY <2>2, LockFrame DEF TakeBroken, TakeStale, TakeReply, TakeItem, Raise,
                           sessionVars
  <2> QED
    BY <1>8, <2>1, <2>2 DEF Take
<1>9. ASSUME NEW t \in Threads, Release(t) PROVE LockInv'
  <2>1. lock = t /\ \A u \in Threads \ {t} : ~InLock(u)
    BY <1>9 DEF Release, LockInv
  <2>2. lock' = NoThread /\ pc'[t] \in {"read", "idle"} /\ cont'[t] = "idle"
    BY <1>9, AfterLockType DEF Release, LockAfter
  <2>3. \A u \in Threads \ {t} : pc'[u] = pc[u] /\ cont'[u] = cont[u]
    BY <1>9 DEF Release
  <2>4. ~InLock(t)' /\ pc'[t] \notin {"ensure", "polling"}
    BY <2>2
  <2>5. \A u \in Threads \ {t} : ~InLock(u)' /\ pc'[u] # "ensure"
    BY <2>1, <2>3
  <2>6. \A u \in Threads : ~InLock(u)' /\ pc'[u] # "ensure" /\ lock' # u
    BY <2>2, <2>4, <2>5, ThreadAssumption
  <2>7. \A u \in Threads : pc'[u] = "polling" => cont'[u] = "idle"
    BY <2>3, <2>4 DEF LockInv
  <2> HIDE DEF InLock
  <2> QED
    BY <2>6, <2>7 DEF LockInv
<1>10. ASSUME NEW t \in Threads, Terminate(t) PROVE LockInv'
  <2>1. CASE ReadProcess(t) \/ ClearProcess(t) \/ ClearQueue(t) \/ Kill(t)
    <3>1. /\ pc[t] \in TerminateSteps /\ pc'[t] \in TerminateSteps
          /\ cont' = cont /\ lock' = lock
      BY <2>1 DEF ReadProcess, ClearProcess, ClearQueue, Kill, sessionVars
    <3>2. \A u \in Threads \ {t} : pc'[u] = pc[u]
      BY <2>1 DEF ReadProcess, ClearProcess, ClearQueue, Kill
    <3> QED
      BY <3>1, <3>2, LockFrame
  <2>2. CASE Cleanup(t) \/ Remove(t) \/ RemoveGone(t) \/ Forget(t)
    <3>1. /\ pc[t] \in TerminateSteps
          /\ \/ pc'[t] \in {cont[t], "remove", "forget"}
             \/ pc'[t] = IF cont[t] = "idle" THEN "idle" ELSE "release"
          /\ cont' = cont /\ lock' = lock
      BY <2>2 DEF Cleanup, Remove, RemoveGone, Forget, sessionVars
    <3>2. \A u \in Threads \ {t} : pc'[u] = pc[u]
      BY <2>2 DEF Cleanup, Remove, RemoveGone, Forget
    <3>3. cont[t] \in {"idle", "workdir", "release"}
      OBVIOUS
    <3> QED
      BY <3>1, <3>2, <3>3, LockFrame
  <2> QED
    BY <1>10, <2>1, <2>2 DEF Terminate
<1>11. ASSUME NEW w \in Workers, Handle(w) \/ Crash(w) \/ Collect(w)
       PROVE  LockInv'
  BY <1>11 DEF Handle, Crash, Collect, sessionVars, threadVars, LockInv
<1>12. CASE UNCHANGED vars
  BY <1>12 DEF vars, sessionVars, threadVars, LockInv
<1> QED
  BY <1>1, <1>2, <1>3, <1>4, <1>5, <1>6, <1>7, <1>8, <1>9, <1>10, <1>11,
     <1>12 DEF Next, Step

-----------------------------------------------------------------------------
(* What a step of a thread, or of a worker, leaves alone.                  *)

\* The steps that attach a worker.
Spawns(t) == Spawn(t) \/ StartReaderFails(t)

\* A thread's own step touches only its own variables, and attaches a worker,
\* a Queue or a session in one place each.
LEMMA StepFrame ==
    ASSUME TypeInv, NEW t \in Threads, Step(t) \/ TimesOut(t)
    PROVE  /\ pc[t] # "idle"
           /\ UNCHANGED <<calls, op, call>>
           /\ \A u \in Threads \ {t} :
                /\ pc'[u] = pc[u] /\ sending'[u] = sending[u]
                /\ bound'[u] = bound[u] /\ cont'[u] = cont[u]
                /\ outcome'[u] = outcome[u]
           /\ process' \in {process, None} \/ Spawns(t)
           /\ queue' \in {queue, None} \/ NewQueue(t)
           /\ open' = open \/ Release(t)
           /\ sentTo' = sentTo \/ Send(t)
           /\ pc'[t] # "closing" /\ (pc'[t] = "polling" => pc[t] = "closing")
<1> USE DEF Goto, Raise, TypeInv, TypeOK, sessionVars, workerVars, Spawns
<1>1. CASE Close(t) \/ Acquire(t) \/ Ensure(t)
  BY <1>1 DEF Close, CheckAttached, CheckAlive, CheckGone, Acquire, Ensure, Entry
<1>2. CASE Release(t)
  <2>1. AfterLock(t) \notin {"closing", "polling"}
    BY AfterLockType
  <2> QED
    BY <1>2, <2>1 DEF Release
<1>3. CASE Start(t)
  BY <1>3 DEF Start, BuildWorkdir, BuildWorkdirFails, NewQueue, Spawn, SpawnFails, StartReaderFails
<1>4. CASE Write(t)
  BY <1>4 DEF Write, Send, SendUnattached, SendBroken, Flushed, FlushBroken
<1>5. CASE Await(t) \/ TimesOut(t)
  BY <1>5 DEF Await, BindQueue, QueueGone, StillEmpty, EmptyAndDead, TimesOut
<1>6. CASE TakeBroken(t) \/ TakeStale(t) \/ TakeReply(t)
  BY <1>6 DEF TakeBroken, TakeStale, TakeReply, TakeItem
<1>7. CASE TakeInitReply(t)
  BY <1>7 DEF TakeInitReply, TakeItem
<1>8. CASE ReadProcess(t) \/ ClearProcess(t) \/ ClearQueue(t)
  BY <1>8 DEF ReadProcess, ClearProcess, ClearQueue
<1>9. CASE Kill(t)
  BY <1>9 DEF Kill
<1>10. CASE Cleanup(t) \/ Remove(t) \/ RemoveGone(t) \/ Forget(t)
  BY <1>10 DEF Cleanup, Remove, RemoveGone, Forget
<1> QED
  BY <1>1, <1>2, <1>3, <1>4, <1>5, <1>6, <1>7, <1>8, <1>9, <1>10
  DEF Step, Take, Terminate

\* A worker and its reader touch nothing of the session or its threads.
LEMMA WorkerFrame ==
    ASSUME NEW w \in Workers, Handle(w) \/ Crash(w) \/ Collect(w)
    PROVE  UNCHANGED <<sessionVars, threadVars, calls, sentTo>>
BY DEF Handle, Crash, Collect

-----------------------------------------------------------------------------
(* The constructor is the only call until it has returned.                 *)

\* Every step keeps the constructor alone.
LEMMA NextCreateInv ==
    TypeInv /\ CreateInv /\ [Next]_vars => CreateInv'
<1> SUFFICES ASSUME TypeInv, CreateInv, [Next]_vars PROVE CreateInv'
  OBVIOUS
<1>1. ASSUME NEW t \in Threads, NEW o \in Ops \cup {"create"}, Invoke(t, o)
      PROVE  CreateInv'
  <2>1. calls' # 0
    BY <1>1, CallAssumption DEF Invoke, TypeInv, TypeOK
  <2>2. open' = open
    BY <1>1 DEF Invoke, sessionVars
  <2>3. o # "create" => pc'[t] # "idle" /\ open
    BY <1>1 DEF Invoke, TypeInv, TypeOK
  <2>4. o = "create" => ~open /\ \A u \in Threads : pc[u] = "idle"
    BY <1>1 DEF Invoke, CreateInv
  <2>5. /\ op' = [op EXCEPT ![t] = o]
        /\ pc' = [pc EXCEPT ![t] = IF o = "close" THEN "closing" ELSE "acquire"]
    BY <1>1 DEF Invoke
  <2> QED
    BY <2>1, <2>2, <2>3, <2>4, <2>5 DEF CreateInv, TypeInv, TypeOK
<1>2. ASSUME NEW t \in Threads, Step(t) \/ TimesOut(t)
      PROVE  CreateInv'
  <2>1. calls' # 0
    BY <1>2, StepFrame DEF CreateInv
  <2>2. ASSUME Release(t), op[t] = "create"
        PROVE  pc'[t] = "idle"
    BY <2>2 DEF Release, Goto, AfterLock, Terminates, TypeInv, TypeOK
  <2>3. \A u \in Threads : pc'[u] # "idle" => pc[u] # "idle"
    BY <1>2, StepFrame
  <2>4. ASSUME NEW u \in Threads, op'[u] = "create", pc'[u] # "idle"
        PROVE  /\ ~open'
               /\ \A v \in Threads \ {u} : pc'[v] = "idle"
    <3>1. op[u] = "create" /\ pc[u] # "idle"
      BY <1>2, <2>3, <2>4, StepFrame
    <3>2. ~open /\ \A v \in Threads \ {u} : pc[v] = "idle"
      BY <3>1 DEF CreateInv
    <3>3. u = t
      BY <1>2, <3>2, StepFrame
    <3>4. open' = open
      BY <1>2, <2>2, <2>4, <3>1, <3>3, StepFrame
    <3> QED
      BY <2>3, <3>2, <3>4
  <2>5. \A u \in Threads : op'[u] = "create" => pc'[u] \notin {"closing", "polling"}
    BY <1>2, StepFrame DEF CreateInv
  <2>6. calls' = calls
    BY <1>2, StepFrame
  <2> QED
    BY <2>1, <2>4, <2>5, <2>6 DEF CreateInv
<1>3. ASSUME NEW w \in Workers, Handle(w) \/ Crash(w) \/ Collect(w)
      PROVE  CreateInv'
  BY <1>3, WorkerFrame DEF CreateInv, sessionVars, threadVars
<1>4. CASE UNCHANGED vars
  BY <1>4 DEF vars, sessionVars, threadVars, CreateInv
<1> QED
  BY <1>1, <1>2, <1>3, <1>4 DEF Next

-----------------------------------------------------------------------------
(* A start finds no process attached.                                      *)

\* The states in which a thread relies on there being no process.
Starting(t) ==
    \/ pc[t] \in {"workdir", "new_queue", "spawn"}
    \/ op[t] = "create" /\ pc[t] = "acquire"
    \/ pc[t] \in {"clear_queue", "kill", "cleanup", "remove", "forget"} /\ cont[t] # "idle"

\* A thread's own step comes to such a state from another one, or has just
\* cleared the reference.
LEMMA StartingStep ==
    ASSUME TypeInv, CreateInv, NEW t \in Threads, Step(t) \/ TimesOut(t),
           Starting(t)'
    PROVE  Starting(t) \/ process' = None
<1> USE DEF Goto, Raise, TypeInv, TypeOK, sessionVars, workerVars, Starting
<1>1. CASE Close(t) \/ Ensure(t)
  BY <1>1 DEF Close, CheckAttached, CheckAlive, CheckGone, Ensure, CreateInv
<1>2. CASE Acquire(t)
  BY <1>2 DEF Acquire, Entry
<1>3. CASE Release(t)
  BY <1>3, AfterLockType DEF Release
<1>4. CASE Start(t)
  BY <1>4 DEF Start, BuildWorkdir, BuildWorkdirFails, NewQueue, Spawn, SpawnFails, StartReaderFails
<1>5. CASE Write(t)
  BY <1>5 DEF Write, Send, SendUnattached, SendBroken, Flushed, FlushBroken
<1>6. CASE Await(t) \/ TimesOut(t)
  BY <1>6 DEF Await, BindQueue, QueueGone, StillEmpty, EmptyAndDead, TimesOut
<1>7. CASE Take(t)
  BY <1>7 DEF Take, TakeBroken, TakeStale, TakeReply, TakeInitReply, TakeItem
<1>8. CASE ReadProcess(t) \/ ClearProcess(t) \/ ClearQueue(t) \/ Kill(t)
  BY <1>8 DEF ReadProcess, ClearProcess, ClearQueue, Kill
<1>9. CASE Cleanup(t) \/ Remove(t) \/ RemoveGone(t) \/ Forget(t)
  BY <1>9 DEF Cleanup, Remove, RemoveGone, Forget
<1> QED
  BY <1>1, <1>2, <1>3, <1>4, <1>5, <1>6, <1>7, <1>8, <1>9 DEF Step, Terminate

\* Every step leaves a starting thread without a process to overwrite.
LEMMA NextDetachedInv ==
    /\ TypeInv /\ LockInv /\ LockInv' /\ CreateInv /\ CreateInv' /\ DetachedInv
    /\ [Next]_vars
    => DetachedInv'
<1> SUFFICES ASSUME TypeInv, LockInv, LockInv', CreateInv, CreateInv', DetachedInv, [Next]_vars
             PROVE  DetachedInv'
  OBVIOUS
<1>0. DetachedInv <=> \A t \in Threads : Starting(t) => process = None
  BY DEF DetachedInv, Starting
<1>5. SUFFICES ASSUME NEW u \in Threads, Starting(u)' PROVE process' = None
  BY DEF DetachedInv, Starting
<1>1. ASSUME NEW t \in Threads, NEW o \in Ops \cup {"create"}, Invoke(t, o)
      PROVE  process' = None
  <2>1. process' = process
    BY <1>1 DEF Invoke, sessionVars
  <2>2. CASE o = "create"
    BY <1>1, <2>1, <2>2 DEF Invoke, CreateInv
  <2>3. CASE o # "create"
    BY <1>0, <1>1, <1>5, <2>1, <2>3 DEF Invoke, Starting, TypeInv, TypeOK
  <2> QED
    BY <2>2, <2>3
<1>2. ASSUME NEW t \in Threads, Step(t) \/ TimesOut(t)
      PROVE  process' = None
  <2>1. CASE u = t
    <3>1. Starting(t) => process = None
      BY <1>0
    <3>2. Spawns(t) => pc'[t] \in {"send", "release"}
      BY DEF Spawns, Spawn, StartReaderFails, Raise, Goto, TypeInv, TypeOK
    <3>3. pc'[t] \notin {"send", "release"}
      BY <1>5, <2>1 DEF Starting
    <3> QED
      BY <1>2, <1>5, <2>1, <3>1, <3>2, <3>3, StepFrame, StartingStep
  <2>2. CASE u # t
    <3>1. Starting(u)
      BY <1>2, <1>5, <2>2, StepFrame DEF Starting
    <3>2. process = None
      BY <1>0, <3>1
    <3>3. ~Spawns(t)
      <4> SUFFICES ASSUME Spawns(t) PROVE FALSE
        OBVIOUS
      <4>1. pc[t] = "spawn" /\ lock = t
        BY DEF Spawns, Spawn, StartReaderFails, Raise, Goto, LockInv, InLock, UnderLock
      <4>2. lock # u
        BY <2>2, <4>1
      <4>3. ~InLock(u)
        BY <4>2 DEF LockInv
      <4>4. op[u] = "create" /\ pc[u] = "acquire"
        BY <3>1, <4>3 DEF Starting, InLock, UnderLock, TerminateSteps
      <4> QED
        BY <2>2, <4>1, <4>4 DEF CreateInv
    <3> QED
      BY <1>2, <3>2, <3>3, StepFrame
  <2> QED
    BY <2>1, <2>2
<1>3. ASSUME NEW w \in Workers, Handle(w) \/ Crash(w) \/ Collect(w)
      PROVE  process' = None
  BY <1>0, <1>3, <1>5, WorkerFrame DEF Starting, sessionVars, threadVars
<1>4. CASE UNCHANGED vars
  BY <1>0, <1>4, <1>5 DEF Starting, vars, sessionVars, threadVars
<1> QED
  BY <1>1, <1>2, <1>3, <1>4 DEF Next

\* The lock, the constructor and the start, in the initial state.
LEMMA InitStartInv == Init => StartInv
<1> SUFFICES ASSUME Init PROVE LockInv /\ CreateInv /\ DetachedInv
  BY InitTypeInv DEF StartInv
<1>1. LockInv
  BY ThreadAssumption DEF Init, LockInv, InLock, UnderLock, TerminateSteps
<1>2. CreateInv
  BY DEF Init, CreateInv
<1>3. DetachedInv
  BY DEF Init, DetachedInv
<1> QED
  BY <1>1, <1>2, <1>3

\* The lock, the constructor and the start, in every step.
LEMMA NextStartInv == StartInv /\ [Next]_vars => StartInv'
BY NextTypeInv, NextLockInv, NextCreateInv, NextDetachedInv DEF StartInv

-----------------------------------------------------------------------------
(* The references to the worker a request is written to.                   *)

\* While one thread is in the with-block, no other attaches a worker or writes
\* a request.
LEMMA LockedOut ==
    ASSUME TypeInv, LockInv, NEW t \in Threads, NEW u \in Threads \ {t},
           InLock(u), Step(t) \/ TimesOut(t)
    PROVE  /\ process' \in {process, None}
           /\ queue' \in {queue, None}
           /\ sentTo' = sentTo
<1>1. ~InLock(t)
  BY DEF LockInv
<1>2. pc[t] \notin {"spawn", "new_queue", "send"}
  BY <1>1 DEF InLock, UnderLock
<1>3. ~Spawns(t) /\ ~NewQueue(t) /\ ~Send(t)
  BY <1>2 DEF Spawns, Spawn, StartReaderFails, Raise, NewQueue, Send, Goto
<1> QED
  BY <1>3, StepFrame

\* A thread's step leaves what another thread refers to as it is.
LEMMA RefersToFrame ==
    ASSUME TypeInv, LockInv, RefInv, NEW t \in Threads,
           Step(t) \/ TimesOut(t), NEW u \in Threads \ {t}
    PROVE  RefersTo(u)'
<1>1. /\ pc'[u] = pc[u] /\ sending'[u] = sending[u] /\ bound'[u] = bound[u]
      /\ op' = op /\ call' = call
  BY StepFrame
<1>2. RefersTo(u)
  BY DEF RefInv
<1>3. CASE InLock(u)
  <2>1. process' \in {process, None} /\ queue' \in {queue, None}
        /\ sentTo' = sentTo
    BY <1>3, LockedOut
  <2> QED
    BY <1>1, <1>2, <2>1 DEF RefersTo, Partner, ActionOf
<1>4. CASE ~InLock(u)
  BY <1>1, <1>4 DEF RefersTo, InLock, UnderLock
<1> QED
  BY <1>3, <1>4

\* The process and the Queue, when both are there, are one worker's.
Together == process # None /\ queue # None => process = queue

\* A new Queue is made, and a worker attached, only while the other is absent or
\* the same.
LEMMA TogetherStep ==
    ASSUME TypeInv, RefInv, DetachedInv, NEW t \in Threads,
           Step(t) \/ TimesOut(t)
    PROVE  Together'
<1>1. CASE Spawns(t)
  BY <1>1 DEF Spawns, Spawn, StartReaderFails, Raise, Goto, RefInv, RefersTo, Together
<1>2. CASE NewQueue(t)
  BY <1>2 DEF NewQueue, Goto, DetachedInv, Together
<1>3. CASE ~Spawns(t) /\ ~NewQueue(t)
  BY <1>3, StepFrame DEF RefInv, Together
<1> QED
  BY <1>1, <1>2, <1>3

\* A thread's step keeps what it refers to itself.
LEMMA RefersToStep ==
    ASSUME TypeInv, LockInv, RefInv, NEW t \in Threads,
           Step(t) \/ TimesOut(t)
    PROVE  RefersTo(t)'
<1> USE DEF Goto, Raise, TypeInv, TypeOK, sessionVars, workerVars, RefersTo
<1>0. RefersTo(t) /\ Together
  BY DEF RefInv, Together
<1>1. CASE Close(t)
  BY <1>1 DEF Close, CheckAttached, CheckAlive, CheckGone
<1>2. CASE Acquire(t)
  BY <1>2 DEF Acquire, Entry, ActionOf, Methods
<1>3. CASE Ensure(t)
  BY <1>0, <1>3 DEF Ensure
<1>4. CASE Release(t)
  BY <1>4, AfterLockType DEF Release
<1>5. CASE BuildWorkdir(t)
  BY <1>5 DEF BuildWorkdir
<1>6. CASE NewQueue(t)
  BY <1>6 DEF NewQueue
<1>7. CASE Spawn(t)
  BY <1>0, <1>7 DEF Spawn
<1>8. CASE BuildWorkdirFails(t) \/ SpawnFails(t) \/ StartReaderFails(t) \/ SendUnattached(t) \/ SendBroken(t) \/ FlushBroken(t)
           \/ QueueGone(t) \/ EmptyAndDead(t) \/ TimesOut(t)
  <2>1. pc'[t] = "release"
    BY <1>8 DEF BuildWorkdirFails, SpawnFails, StartReaderFails, SendUnattached, SendBroken, FlushBroken, QueueGone,
                EmptyAndDead, TimesOut
  <2> QED
    BY <2>1
<1>9. CASE Send(t)
  <2>1. pc'[t] \in {"await", "flush"} /\ UNCHANGED <<process, queue, call, sending>>
    BY <1>9 DEF Send
  <2>2. queue = process
    BY <1>0, <1>9 DEF Send, Together
  <2>3. process = Partner(t)'
    <3>1. CASE sending[t] = "init"
      BY <1>0, <1>9, <2>1, <3>1 DEF Send, Partner
    <3>2. CASE sending[t] # "init"
      <4>1. call[t] \in Calls
        BY <1>9 DEF Send, CalledInv, OrNone
      <4> QED
        BY <1>9, <2>1, <3>2, <4>1 DEF Send, Partner
    <3> QED
      BY <3>1, <3>2
  <2> QED
    BY <2>1, <2>2, <2>3
<1>10. CASE Flushed(t) \/ BindQueue(t) \/ StillEmpty(t)
  <2>1. Partner(t)' = Partner(t)
    BY <1>10 DEF Flushed, BindQueue, StillEmpty, Partner
  <2> QED
    BY <1>0, <1>10, <2>1 DEF Flushed, BindQueue, StillEmpty
<1>11. CASE TakeStale(t)
  <2>1. Partner(t)' = Partner(t)
    BY <1>11 DEF TakeStale, Partner
  <2> QED
    BY <1>0, <1>11, <2>1 DEF TakeStale, TakeItem
<1>12. CASE TakeBroken(t) \/ TakeReply(t)
  BY <1>12 DEF TakeBroken, TakeReply
<1>13. CASE TakeInitReply(t)
  <2>1. \/ pc'[t] \in {"read", "release"}
        \/ pc'[t] = "send" /\ sending'[t] # "init"
    BY <1>13 DEF TakeInitReply
  <2> QED
    BY <2>1
<1>14. CASE ReadProcess(t) \/ ClearProcess(t) \/ ClearQueue(t)
  BY <1>14 DEF ReadProcess, ClearProcess, ClearQueue
<1>15. CASE Kill(t)
  BY <1>15 DEF Kill
<1>16. CASE Cleanup(t) \/ Remove(t) \/ RemoveGone(t) \/ Forget(t)
  BY <1>16 DEF Cleanup, Remove, RemoveGone, Forget
<1> QED
  BY <1>1, <1>2, <1>3, <1>4, <1>5, <1>6, <1>7, <1>8, <1>9, <1>10, <1>11, <1>12,
     <1>13, <1>14, <1>15, <1>16
  DEF Step, Start, Write, Await, Take, Terminate

\* Every step keeps the references to the awaited worker.
LEMMA NextRefInv == StartInv /\ RefInv /\ [Next]_vars => RefInv'
<1> SUFFICES ASSUME StartInv, RefInv, [Next]_vars PROVE RefInv'
  OBVIOUS
<1> USE DEF StartInv
<1>1. ASSUME NEW t \in Threads, NEW o \in Ops \cup {"create"}, Invoke(t, o)
      PROVE  RefInv'
  <2>1. UNCHANGED <<process, queue, sentTo, sending, bound>>
    BY <1>1 DEF Invoke, sessionVars
  <2>2. RefersTo(t)'
    BY <1>1 DEF Invoke, RefersTo, TypeInv, TypeOK
  <2>3. ASSUME NEW u \in Threads \ {t} PROVE RefersTo(u)'
    <3>1. pc'[u] = pc[u] /\ call'[u] = call[u] /\ op'[u] = op[u]
      BY <1>1 DEF Invoke, TypeInv, TypeOK
    <3>2. RefersTo(u)
      BY DEF RefInv
    <3> QED
      BY <2>1, <3>1, <3>2 DEF RefersTo, Partner, ActionOf
  <2> QED
    BY <2>1, <2>2, <2>3 DEF RefInv
<1>2. ASSUME NEW t \in Threads, Step(t) \/ TimesOut(t)
      PROVE  RefInv'
  <2>1. Together'
    BY <1>2, TogetherStep
  <2>2. RefersTo(t)'
    BY <1>2, RefersToStep
  <2>3. \A u \in Threads \ {t} : RefersTo(u)'
    BY <1>2, RefersToFrame
  <2> QED
    BY <2>1, <2>2, <2>3 DEF RefInv, Together
<1>3. CASE UNCHANGED <<sessionVars, threadVars, calls, sentTo>>
  <2>1. ASSUME NEW u \in Threads PROVE RefersTo(u)'
    <3>1. RefersTo(u)
      BY DEF RefInv
    <3> QED
      BY <1>3, <3>1 DEF sessionVars, threadVars, RefersTo, Partner, ActionOf
  <2> QED
    BY <1>3, <2>1 DEF sessionVars, RefInv
<1>4. ASSUME NEW w \in Workers, Handle(w) \/ Crash(w) \/ Collect(w)
      PROVE  RefInv'
  BY <1>3, <1>4, WorkerFrame
<1>5. CASE UNCHANGED vars
  BY <1>3, <1>5 DEF vars
<1> QED
  BY <1>1, <1>2, <1>4, <1>5 DEF Next

-----------------------------------------------------------------------------
(* Call numbers, and where the requests of a call go.                      *)

\* Every step keeps the call numbers apart.
LEMMA NextCallInv == TypeInv /\ CallInv /\ [Next]_vars => CallInv'
<1> SUFFICES ASSUME TypeInv, CallInv, [Next]_vars PROVE CallInv'
  OBVIOUS
<1>1. ASSUME NEW t \in Threads, NEW o \in Ops \cup {"create"}, Invoke(t, o)
      PROVE  CallInv'
  <2>1. calls' = calls + 1 /\ calls \in Nat
    BY <1>1 DEF Invoke, TypeInv, TypeOK
  <2>2. call'[t] = calls + 1 /\ calls + 1 # None
    BY <1>1, <2>1 DEF Invoke, TypeInv, TypeOK, None
  <2>3. \A u \in Threads \ {t} :
          /\ call'[u] = call[u] /\ op'[u] = op[u]
          /\ call[u] <= calls /\ call[u] \in Int
    BY <1>1 DEF Invoke, TypeInv, TypeOK, CallInv, OrNone, Calls, None
  <2> QED
    BY <2>1, <2>2, <2>3 DEF CallInv
<1>2. CASE UNCHANGED <<calls, op, call>>
  BY <1>2 DEF CallInv
<1>3. ASSUME NEW t \in Threads, Step(t) \/ TimesOut(t)
      PROVE  CallInv'
  BY <1>2, <1>3, StepFrame
<1>4. ASSUME NEW w \in Workers, Handle(w) \/ Crash(w) \/ Collect(w)
      PROVE  CallInv'
  BY <1>2, <1>4, WorkerFrame DEF threadVars
<1>5. CASE UNCHANGED vars
  BY <1>2, <1>5 DEF vars, threadVars
<1> QED
  BY <1>1, <1>3, <1>4, <1>5 DEF Next

\* What a thread does to the workers' pipes and Queues.
LEMMA DataFrame ==
    ASSUME TypeInv, NEW t \in Threads, Step(t) \/ TimesOut(t)
    PROVE  /\ ran' = ran
           /\ stdin' = stdin \/ Send(t) \/ Kill(t)
           /\ pipe' = pipe \/ Kill(t)
           /\ items' = items \/ Kill(t) \/ TakeItem(t)
<1> USE DEF sessionVars, workerVars
<1>1. CASE Close(t) \/ Acquire(t) \/ Ensure(t) \/ Release(t)
  BY <1>1 DEF Close, CheckAttached, CheckAlive, CheckGone, Acquire, Ensure, Release
<1>2. CASE Start(t)
  BY <1>2 DEF Start, BuildWorkdir, BuildWorkdirFails, NewQueue, Spawn, SpawnFails, StartReaderFails
<1>3. CASE Write(t)
  BY <1>3 DEF Write, Send, SendUnattached, SendBroken, Flushed, FlushBroken
<1>4. CASE Await(t) \/ TimesOut(t)
  BY <1>4 DEF Await, BindQueue, QueueGone, StillEmpty, EmptyAndDead, TimesOut
<1>5. CASE Take(t)
  BY <1>5 DEF Take, TakeBroken, TakeStale, TakeReply, TakeInitReply
<1>6. CASE Terminate(t)
  BY <1>6 DEF Terminate, ReadProcess, ClearProcess, ClearQueue, Kill, Cleanup, Remove, RemoveGone,
              Forget
<1> QED
  BY <1>1, <1>2, <1>3, <1>4, <1>5, <1>6 DEF Step

Killing == {"clear_process", "clear_queue", "kill"}

\* Only a spawn starts a worker, and only _terminate_process detaches one; a thread
\* that is about to kill one goes on to do so.
LEMMA RunFrame ==
    ASSUME TypeInv, NEW t \in Threads, Step(t) \/ TimesOut(t), ~Spawns(t)
    PROVE  /\ \A w \in Workers : Alive(w)' => Alive(w)
           /\ process' = process \/ ClearProcess(t)
           /\ pc[t] \in Killing => Terminate(t)
           /\ Kill(t) \/ worker' = worker
           /\ dirs' = dirs \/ BuildWorkdir(t) \/ Remove(t) \/ Forget(t)
<1> USE DEF Goto, Raise, TypeInv, TypeOK, sessionVars, workerVars, Alive, Killing, Spawns
<1>1. CASE Close(t) \/ Acquire(t) \/ Ensure(t) \/ Release(t)
  BY <1>1 DEF Close, CheckAttached, CheckAlive, CheckGone, Acquire, Ensure, Release
<1>2. CASE Start(t)
  BY <1>2 DEF Start, BuildWorkdir, BuildWorkdirFails, NewQueue, SpawnFails
<1>3. CASE Write(t)
  BY <1>3 DEF Write, Send, SendUnattached, SendBroken, Flushed, FlushBroken
<1>4. CASE Await(t) \/ TimesOut(t)
  BY <1>4 DEF Await, BindQueue, QueueGone, StillEmpty, EmptyAndDead, TimesOut
<1>5. CASE Take(t)
  BY <1>5 DEF Take, TakeBroken, TakeStale, TakeInitReply, TakeReply, TakeItem
<1>6. CASE ReadProcess(t) \/ ClearProcess(t) \/ ClearQueue(t) \/ Cleanup(t) \/ Remove(t) \/ RemoveGone(t) \/ Forget(t)
  BY <1>6 DEF ReadProcess, ClearProcess, ClearQueue, Cleanup, Remove, RemoveGone, Forget, Terminate
<1>7. CASE Kill(t)
  BY <1>7 DEF Kill, Terminate
<1> QED
  BY <1>1, <1>2, <1>3, <1>4, <1>5, <1>6, <1>7 DEF Step, Terminate

\* No worker comes to life by itself.
LEMMA WorkerRunFrame ==
    ASSUME TypeInv, NEW w \in Workers, Handle(w) \/ Crash(w) \/ Collect(w)
    PROVE  \A v \in Workers : Alive(v)' => Alive(v)
<1>1. CASE Handle(w)
  <2>1. Alive(w) /\ \E state : worker' = [worker EXCEPT ![w] = state]
    BY <1>1 DEF Handle, Respond
  <2> QED
    BY <2>1 DEF Alive, TypeInv, TypeOK
<1>2. CASE Crash(w) \/ Collect(w)
  BY <1>2 DEF Crash, Collect, Alive, TypeInv, TypeOK
<1> QED
  BY <1>1, <1>2

\* No step makes a thread one that has its own request still to send.
LEMMA UnsentStep ==
    ASSUME TypeInv, LockInv, NEW t \in Threads, Step(t) \/ TimesOut(t),
           Unsent(t)'
    PROVE  Unsent(t) /\ (Send(t) => sending[t] = "init")
<1> USE DEF Goto, Raise, TypeInv, TypeOK, sessionVars, workerVars, Unsent,
            TerminateSteps
<1>1. CASE Close(t) \/ Acquire(t)
  BY <1>1 DEF Close, CheckAttached, CheckAlive, CheckGone, Acquire, Send
<1>2. CASE Ensure(t)
  BY <1>2 DEF Ensure, Send
<1>3. CASE Release(t)
  BY <1>3, AfterLockType DEF Release
<1>4. CASE Start(t)
  BY <1>4 DEF Start, BuildWorkdir, BuildWorkdirFails, NewQueue, Spawn, SpawnFails, StartReaderFails, Send
<1>5. CASE Write(t)
  BY <1>5 DEF Write, Send, SendUnattached, SendBroken, Flushed, FlushBroken
<1>6. CASE Await(t) \/ TimesOut(t)
  BY <1>6 DEF Await, BindQueue, QueueGone, StillEmpty, EmptyAndDead, TimesOut,
              Send
<1>7. CASE Take(t)
  BY <1>7 DEF Take, TakeBroken, TakeStale, TakeReply, TakeInitReply, TakeItem,
              Send
<1>8. CASE ReadProcess(t) \/ ClearProcess(t) \/ ClearQueue(t) \/ Kill(t)
  BY <1>8 DEF ReadProcess, ClearProcess, ClearQueue, Kill, Send
<1>9. CASE Cleanup(t) \/ Remove(t) \/ RemoveGone(t) \/ Forget(t)
  BY <1>9 DEF Cleanup, Remove, RemoveGone, Forget, Send
<1> QED
  BY <1>1, <1>2, <1>3, <1>4, <1>5, <1>6, <1>7, <1>8, <1>9 DEF Step, Terminate

\* Sending a call's own request: the call had not sent it before.
LEMMA SendSentInv ==
    ASSUME TypeInv, CallInv, SentInv, NEW t \in Threads, Send(t),
           sending[t] # "init"
    PROVE  /\ sentTo[call[t]] = None /\ call[t] \in Calls
           /\ process \in Workers
           /\ sentTo' = [sentTo EXCEPT ![call[t]] = process]
           /\ \A c \in Calls \ {call[t]} : sentTo'[c] = sentTo[c]
           /\ sentTo'[call[t]] = process
<1>1. pc[t] = "send"
  BY DEF Send, Goto
<1>2. sentTo[call[t]] = None
  BY <1>1 DEF SentInv, Unsent
<1>3. call[t] \in Calls /\ process \in Workers
  BY <1>1 DEF Send, TypeInv, TypeOK, CalledInv, OrNone
<1>4. sentTo' = [sentTo EXCEPT ![call[t]] = process]
  BY DEF Send
<1> QED
  BY <1>2, <1>3, <1>4 DEF TypeInv, TypeOK

\* A thread's step keeps the record of where requests went.
LEMMA StepSentInv ==
    ASSUME TypeInv, LockInv, CallInv, SentInv, NEW t \in Threads,
           Step(t) \/ TimesOut(t)
    PROVE  SentInv'
<1>1. UNCHANGED <<calls, call>>
  BY StepFrame
<1>2. ran' = ran
  BY DataFrame
<1>3. ASSUME NEW u \in Threads, Unsent(u)' PROVE sentTo[call[u]] = None
  <2>1. u # t => (Unsent(u)' <=> Unsent(u))
    BY StepFrame DEF Unsent
  <2>2. Unsent(u)
    BY <1>3, <2>1, UnsentStep
  <2> QED
    BY <2>2 DEF SentInv
<1>4. ASSUME NEW w \in Workers, SentRequests(w) \subseteq SentRequests(w)'
      PROVE  stdin'[w] \in Seq(SentRequests(w)')
  <2>1. stdin[w] \in Seq(SentRequests(w)')
    BY <1>4, SeqMonotonic DEF SentInv
  <2>2. CASE Send(t)
    <3> DEFINE r == [call |-> call[t], action |-> sending[t]]
    <3>1. /\ process \in Workers /\ r \in Requests
          /\ stdin' = [stdin EXCEPT ![process] = Append(@, r)]
      BY <2>2 DEF Send, Goto, TypeInv, TypeOK, CalledInv, OrNone, Requests
    <3>2. sending[t] # "init" => sentTo'[call[t]] = process
      BY <2>2, SendSentInv
    <3>3. CASE w = process
      <4>1. r \in SentRequests(w)'
        BY <3>1, <3>2, <3>3 DEF SentRequests, Worked
      <4> HIDE DEF r
      <4>2. Append(stdin[w], r) \in Seq(SentRequests(w)')
        BY <2>1, <4>1
      <4> QED
        BY <3>1, <3>3, <4>2 DEF TypeInv, TypeOK
    <3>4. CASE w # process
      BY <2>1, <3>1, <3>4 DEF TypeInv, TypeOK
    <3> QED
      BY <3>3, <3>4
  <2>3. CASE Kill(t)
    <3>1. stdin' = stdin \/ stdin' = [stdin EXCEPT ![bound[t]] = <<>>]
      BY <2>3 DEF Kill
    <3>2. stdin'[w] = stdin[w] \/ stdin'[w] = <<>>
      BY <3>1 DEF TypeInv, TypeOK
    <3>3. <<>> \in Seq(SentRequests(w)')
      OBVIOUS
    <3> QED
      BY <2>1, <3>2, <3>3
  <2> QED
    BY <2>1, <2>2, <2>3, DataFrame
<1>5. CASE sentTo' = sentTo
  <2>1. \A w \in Workers : SentRequests(w)' = SentRequests(w)
    BY <1>5 DEF SentRequests
  <2>2. \A w \in Workers : stdin'[w] \in Seq(SentRequests(w)')
    BY <1>4, <2>1
  <2> QED
    BY <1>1, <1>2, <1>3, <1>5, <2>2 DEF SentInv
<1>6. CASE sentTo' # sentTo
  <2>1. Send(t) /\ sending[t] # "init"
    <3>1. Send(t)
      BY <1>6, StepFrame
    <3> QED
      BY <1>6, <3>1 DEF Send
  <2>2. \A c \in Calls : c > calls => sentTo'[c] = None
    BY <2>1, SendSentInv DEF SentInv, CallInv, Calls, TypeInv, TypeOK
  <2>3. ASSUME NEW u \in Threads, Unsent(u)' PROVE sentTo'[call[u]] = None
    <3>1. u # t
      BY <2>1, <2>3, UnsentStep
    <3>2. pc[u] # "idle"
      BY <2>3, <3>1, StepFrame DEF Unsent, TerminateSteps
    <3>3. call[u] \in Calls /\ call[u] # call[t]
      BY <3>1, <3>2 DEF CallInv, TypeInv, TypeOK, CalledInv, OrNone
    <3> QED
      BY <1>3, <2>1, <2>3, <3>3, SendSentInv
  <2>4. \A c \in Calls : sentTo[c] # None => sentTo'[c] = sentTo[c]
    BY <2>1, SendSentInv
  <2>5. None \notin Workers
    BY DEF None, Workers, Calls
  <2>6. \A w \in Workers : SentRequests(w) \subseteq SentRequests(w)'
    BY <2>4, <2>5 DEF SentRequests, Requests
  <2>7. \A w \in Workers : \A c \in ran[w] : sentTo'[c] = w
    BY <2>4, <2>5 DEF SentInv, TypeInv, TypeOK
  <2>8. \A w \in Workers : stdin'[w] \in Seq(SentRequests(w)')
    BY <1>4, <2>6
  <2> QED
    BY <1>1, <1>2, <2>2, <2>3, <2>7, <2>8 DEF SentInv
<1> QED
  BY <1>5, <1>6

\* What a worker does with a request: a line that reports a success is about a
\* call it has worked on.
LEMMA HandleEffect ==
    ASSUME TypeInv, SentInv, HonestInv, NEW w \in Workers, Handle(w)
    PROVE  /\ \A v \in Workers : stdin'[v] \in Seq(SentRequests(v)')
           /\ \A v \in Workers : pipe'[v] \in Seq(HonestLines(v)')
           /\ \A v \in Workers : \A c \in ran'[v] : sentTo[c] = v
           /\ \A v \in Workers : ran[v] \subseteq ran'[v]
<1> USE DEF TypeInv, TypeOK
<1> DEFINE request == Head(stdin[w])
           response(status) == [call |-> request.call,
                                action |-> request.action, status |-> status]
<1>1. PICK status \in Replies(worker[w], request.action) :
        \E state \in After(worker[w], request.action, status) :
        \E lines \in Printed(response(status)) :
          Respond(w, request, state, lines)
  BY DEF Handle
<1>2. PICK state \in After(worker[w], request.action, status),
           lines \in Printed(response(status)) :
             Respond(w, request, state, lines)
  BY <1>1
<1>3. sentTo' = sentTo /\ stdin[w] # <<>>
  BY DEF Handle
<1>4. request \in SentRequests(w) /\ Tail(stdin[w]) \in Seq(SentRequests(w))
  BY <1>3, HeadTailProperties DEF SentInv
<1>5. \A v \in Workers : SentRequests(v)' = SentRequests(v)
  BY <1>3 DEF SentRequests
<1>6. /\ stdin' = [stdin EXCEPT ![w] = IF state = "dead" THEN <<>> ELSE Tail(@)]
      /\ pipe' = [pipe EXCEPT ![w] =
                    @ \o IF state = "dead" THEN Append(lines, Eof) ELSE lines]
      /\ ran' = IF UsesExecutor(worker[w], request.action)
                  THEN [ran EXCEPT ![w] = @ \cup {request.call}]
                  ELSE ran
  BY <1>2 DEF Respond
<1>7. \A v \in Workers : stdin'[v] \in Seq(SentRequests(v)')
  <2>1. <<>> \in Seq(SentRequests(w))
    OBVIOUS
  <2>2. stdin'[w] \in Seq(SentRequests(w))
    BY <1>4, <1>6, <2>1
  <2>3. \A v \in Workers \ {w} : stdin'[v] \in Seq(SentRequests(v))
    BY <1>6 DEF SentInv
  <2> QED
    BY <1>5, <2>2, <2>3
<1>8. request \in Requests /\ request.call \in Calls
  BY <1>4 DEF SentRequests, Requests
<1>9. \A v \in Workers : ran[v] \subseteq ran'[v]
  BY <1>6
<1>10. \A v \in Workers : \A c \in ran'[v] : sentTo[c] = v
  <2>1. UsesExecutor(worker[w], request.action) => sentTo[request.call] = w
    BY <1>4 DEF UsesExecutor, SentRequests, Worked
  <2> QED
    BY <1>6, <1>8, <2>1 DEF SentInv
<1>11. response(status) \in HonestLines(w)'
  <2>1. status \in Statuses
    BY DEF Replies, Statuses
  <2>2. response(status) \in Lines
    BY <1>8, <2>1 DEF Requests, Lines, OrNone
  <2>3. request.action \in Worked /\ status \in Done => request.call \in ran'[w]
    <3>1. SUFFICES ASSUME request.action \in Worked, status \in Done
                   PROVE  UsesExecutor(worker[w], request.action)
      BY <1>6, <1>8
    <3>2. worker[w] \in {"fresh", "ready"}
      BY DEF Handle, Alive
    <3>3. worker[w] # "fresh"
      <4>1. Replies("fresh", request.action) = {"error"}
        BY <3>1 DEF Replies, Worked
      <4> QED
        BY <1>1, <3>1, <4>1 DEF Done
    <3> QED
      BY <3>1, <3>2, <3>3 DEF UsesExecutor, Worked
  <2> QED
    BY <2>2, <2>3 DEF HonestLines
<1>12. \A v \in Workers : pipe'[v] \in Seq(HonestLines(v)')
  <2>1. \A v \in Workers : HonestLines(v) \subseteq HonestLines(v)'
    BY <1>9 DEF HonestLines
  <2>2. \A v \in Workers : pipe[v] \in Seq(HonestLines(v)')
    BY <2>1, SeqMonotonic DEF HonestInv
  <2>3. Garbage \in HonestLines(w)' /\ Eof \in HonestLines(w)'
    BY DEF Garbage, Eof, HonestLines, Worked, Lines, OrNone, Actions, Statuses
  <2> HIDE DEF request, response
  <2>4. lines \in Seq(HonestLines(w)')
    <3>1. /\ <<response(status)>> \in Seq(HonestLines(w)')
          /\ <<Garbage>> \in Seq(HonestLines(w)')
          /\ <<Garbage, response(status)>> \in Seq(HonestLines(w)')
      BY <1>11, <2>3
    <3> QED
      BY <3>1 DEF Printed
  <2>5. Append(lines, Eof) \in Seq(HonestLines(w)')
    BY <2>3, <2>4
  <2>6. pipe[w] \in Seq(HonestLines(w)')
    BY <2>2
  <2>7. /\ pipe[w] \o lines \in Seq(HonestLines(w)')
        /\ pipe[w] \o Append(lines, Eof) \in Seq(HonestLines(w)')
    BY <2>4, <2>5, <2>6, ConcatProperties
  <2>8. pipe'[w] \in Seq(HonestLines(w)')
    BY <1>6, <2>7
  <2>9. \A v \in Workers \ {w} : pipe'[v] = pipe[v]
    BY <1>6
  <2> QED
    BY <2>2, <2>8, <2>9
<1> QED
  BY <1>7, <1>9, <1>10, <1>12

\* Every step keeps the record of where requests went.
LEMMA NextSentInv ==
    TypeInv /\ LockInv /\ CallInv /\ SentInv /\ HonestInv /\ [Next]_vars
    => SentInv'
<1> SUFFICES ASSUME TypeInv, LockInv, CallInv, SentInv, HonestInv, [Next]_vars
             PROVE  SentInv'
  OBVIOUS
<1>1. ASSUME NEW t \in Threads, NEW o \in Ops \cup {"create"}, Invoke(t, o)
      PROVE  SentInv'
  <2>1. UNCHANGED <<stdin, ran, sentTo>> /\ calls' = calls + 1
    BY <1>1 DEF Invoke, workerVars
  <2>2. \A w \in Workers : SentRequests(w)' = SentRequests(w)
    BY <2>1 DEF SentRequests
  <2>3. calls \in Int /\ call'[t] = calls + 1 /\ calls + 1 \in Calls
    BY <1>1, CallAssumption DEF Invoke, TypeInv, TypeOK, Calls
  <2>4. sentTo[calls + 1] = None
    BY <2>3 DEF SentInv
  <2>5. ASSUME NEW u \in Threads, Unsent(u)' PROVE sentTo[call'[u]] = None
    <3>1. CASE u = t
      BY <2>3, <2>4, <3>1
    <3>2. CASE u # t
      BY <1>1, <2>5, <3>2 DEF Invoke, Unsent, SentInv, TypeInv, TypeOK
    <3> QED
      BY <3>1, <3>2
  <2>6. \A c \in Calls : c > calls + 1 => sentTo[c] = None
    BY <2>3 DEF SentInv, Calls
  <2> QED
    BY <2>1, <2>2, <2>5, <2>6 DEF SentInv
<1>2. ASSUME NEW t \in Threads, Step(t) \/ TimesOut(t)
      PROVE  SentInv'
  BY <1>2, StepSentInv
<1>3. ASSUME UNCHANGED <<threadVars, calls, sentTo>>,
             \A v \in Workers : stdin'[v] \in Seq(SentRequests(v)'),
             \A v \in Workers : \A c \in ran'[v] : sentTo[c] = v
      PROVE  SentInv'
  BY <1>3 DEF SentInv, Unsent, threadVars
<1>4. ASSUME NEW w \in Workers, Handle(w) PROVE SentInv'
  BY <1>3, <1>4, HandleEffect, WorkerFrame
<1>5. ASSUME NEW w \in Workers, Crash(w) \/ Collect(w)
      PROVE  SentInv'
  <2>1. UNCHANGED <<threadVars, calls, sentTo>>
    BY <1>5, WorkerFrame
  <2>2. ran' = ran /\ \A v \in Workers : stdin'[v] = stdin[v] \/ stdin'[v] = <<>>
    BY <1>5 DEF Crash, Collect, TypeInv, TypeOK
  <2>3. \A v \in Workers : SentRequests(v)' = SentRequests(v)
    BY <2>1 DEF SentRequests
  <2>4. \A v \in Workers : <<>> \in Seq(SentRequests(v))
    OBVIOUS
  <2>5. \A v \in Workers : stdin'[v] \in Seq(SentRequests(v)')
    BY <2>2, <2>3, <2>4 DEF SentInv
  <2> QED
    BY <1>3, <2>1, <2>2, <2>5 DEF SentInv
<1>6. CASE UNCHANGED vars
  BY <1>3, <1>6 DEF vars, workerVars, SentInv, SentRequests
<1> QED
  BY <1>1, <1>2, <1>4, <1>5, <1>6 DEF Next

-----------------------------------------------------------------------------
(* What the workers' answers say.                                          *)

\* Every step keeps the lines on their way honest.
LEMMA NextHonestInv ==
    TypeInv /\ SentInv /\ HonestInv /\ [Next]_vars => HonestInv'
<1> SUFFICES ASSUME TypeInv, SentInv, HonestInv, [Next]_vars PROVE HonestInv'
  OBVIOUS
<1>0. \A v \in Workers : ran' = ran => HonestLines(v)' = HonestLines(v)
  BY DEF HonestLines
<1>1. \A v \in Workers : /\ <<>> \in Seq(HonestLines(v))
                         /\ Eof \in HonestLines(v)
  BY DEF Eof, HonestLines, Worked, Lines, OrNone, Actions, Statuses
<1>2. ASSUME UNCHANGED <<pipe, items, ran>> PROVE HonestInv'
  BY <1>0, <1>2 DEF HonestInv
<1>3. ASSUME NEW t \in Threads, NEW o \in Ops \cup {"create"}, Invoke(t, o)
      PROVE  HonestInv'
  BY <1>2, <1>3 DEF Invoke, workerVars
<1>4. ASSUME NEW t \in Threads, Step(t) \/ TimesOut(t)
      PROVE  HonestInv'
  <2>1. ran' = ran
    BY <1>4, DataFrame
  <2>2. CASE Kill(t)
    <3>1. \A v \in Workers : Append(pipe[v], Eof) \in Seq(HonestLines(v))
      BY <1>1 DEF HonestInv
    <3>2. \A v \in Workers : pipe'[v] \in {pipe[v], <<>>, Append(pipe[v], Eof)}
      BY <2>2 DEF Kill, TypeInv, TypeOK
    <3>3. \A v \in Workers : items'[v] \in {items[v], <<>>}
      BY <2>2 DEF Kill, TypeInv, TypeOK
    <3> QED
      BY <1>0, <1>1, <2>1, <3>1, <3>2, <3>3 DEF HonestInv
  <2>3. CASE TakeItem(t) /\ ~Kill(t)
    <3>1. pipe' = pipe
      BY <1>4, <2>3, DataFrame
    <3>2. \A v \in Workers : \/ items'[v] = items[v]
                             \/ items[v] # <<>> /\ items'[v] = Tail(items[v])
      BY <2>3 DEF TakeItem, TypeInv, TypeOK
    <3>3. \A v \in Workers : items[v] # <<>> =>
            Tail(items[v]) \in Seq(HonestLines(v))
      BY HeadTailProperties DEF HonestInv
    <3> QED
      BY <1>0, <2>1, <3>1, <3>2, <3>3 DEF HonestInv
  <2>4. CASE ~Kill(t) /\ ~TakeItem(t)
    BY <1>2, <1>4, <2>4, DataFrame
  <2> QED
    BY <2>2, <2>3, <2>4
<1>5. ASSUME NEW w \in Workers, Handle(w) PROVE HonestInv'
  <2>1. items' = items
    BY <1>5 DEF Handle
  <2>2. \A v \in Workers : HonestLines(v) \subseteq HonestLines(v)'
    BY <1>5, HandleEffect DEF HonestLines
  <2>3. \A v \in Workers : items[v] \in Seq(HonestLines(v)')
    BY <2>2, SeqMonotonic DEF HonestInv
  <2> QED
    BY <1>5, <2>1, <2>3, HandleEffect DEF HonestInv
<1>6. ASSUME NEW w \in Workers, Crash(w) PROVE HonestInv'
  <2>1. Append(pipe[w], Eof) \in Seq(HonestLines(w))
    BY <1>1 DEF HonestInv
  <2>2. /\ \A v \in Workers \ {w} : pipe'[v] = pipe[v]
        /\ pipe'[w] = Append(pipe[w], Eof)
    BY <1>6 DEF Crash, TypeInv, TypeOK
  <2> QED
    BY <1>0, <1>6, <2>1, <2>2 DEF Crash, HonestInv
<1>7. ASSUME NEW w \in Workers, Collect(w) PROVE HonestInv'
  <2>1. /\ Head(pipe[w]) \in HonestLines(w)
        /\ Tail(pipe[w]) \in Seq(HonestLines(w))
    BY <1>7, HeadTailProperties DEF Collect, HonestInv
  <2>2. Append(items[w], Head(pipe[w])) \in Seq(HonestLines(w))
    BY <2>1 DEF HonestInv
  <2>3. /\ ran' = ran
        /\ \A v \in Workers \ {w} : pipe'[v] = pipe[v] /\ items'[v] = items[v]
        /\ pipe'[w] = Tail(pipe[w])
        /\ items'[w] = Append(items[w], Head(pipe[w]))
    BY <1>7 DEF Collect, TypeInv, TypeOK
  <2> QED
    BY <1>0, <2>1, <2>2, <2>3 DEF HonestInv
<1>8. CASE UNCHANGED vars
  BY <1>2, <1>8 DEF vars, workerVars
<1> QED
  BY <1>3, <1>4, <1>5, <1>6, <1>7, <1>8 DEF Next

-----------------------------------------------------------------------------
(* What a call reports.                                                    *)

\* A thread's step leaves it with init or its own request to send.
LEMMA SendingStep ==
    ASSUME TypeInv, SendingInv, NEW t \in Threads, Step(t) \/ TimesOut(t),
           pc'[t] \in {"send", "flush", "await", "get"}
    PROVE  sending'[t] \in {"init", ActionOf(op[t])}
<1> USE DEF Goto, Raise, TypeInv, TypeOK, sessionVars, workerVars, SendingInv
<1>1. CASE Close(t) \/ Ensure(t)
  BY <1>1 DEF Close, CheckAttached, CheckAlive, CheckGone, Ensure
<1>2. CASE Acquire(t)
  BY <1>2 DEF Acquire, Entry
<1>3. CASE Release(t)
  BY <1>3, AfterLockType DEF Release
<1>4. CASE Start(t)
  BY <1>4 DEF Start, BuildWorkdir, BuildWorkdirFails, NewQueue, Spawn, SpawnFails, StartReaderFails
<1>5. CASE Write(t)
  BY <1>5 DEF Write, Send, SendUnattached, SendBroken, Flushed, FlushBroken
<1>6. CASE Await(t) \/ TimesOut(t)
  BY <1>6 DEF Await, BindQueue, QueueGone, StillEmpty, EmptyAndDead, TimesOut
<1>7. CASE Take(t)
  BY <1>7 DEF Take, TakeBroken, TakeStale, TakeReply, TakeInitReply, TakeItem
<1>8. CASE Terminate(t)
  BY <1>8 DEF Terminate, ReadProcess, ClearProcess, ClearQueue, Kill, Cleanup, Remove, RemoveGone,
              Forget
<1> QED
  BY <1>1, <1>2, <1>3, <1>4, <1>5, <1>6, <1>7, <1>8 DEF Step

\* Every step leaves a thread with init or its own request to send.
LEMMA NextSendingInv == TypeInv /\ SendingInv /\ [Next]_vars => SendingInv'
<1> SUFFICES ASSUME TypeInv, SendingInv, [Next]_vars PROVE SendingInv'
  OBVIOUS
<1>1. ASSUME NEW t \in Threads, NEW o \in Ops \cup {"create"}, Invoke(t, o)
      PROVE  SendingInv'
  BY <1>1 DEF Invoke, SendingInv, ActionOf, TypeInv, TypeOK
<1>2. ASSUME NEW t \in Threads, Step(t) \/ TimesOut(t)
      PROVE  SendingInv'
  <2>1. ASSUME NEW u \in Threads \ {t},
               pc'[u] \in {"send", "flush", "await", "get"}
        PROVE  sending'[u] \in {"init", ActionOf(op[u])}
    BY <1>2, <2>1, StepFrame DEF SendingInv
  <2>2. op' = op
    BY <1>2, StepFrame
  <2> QED
    BY <1>2, <2>1, <2>2, SendingStep DEF SendingInv, ActionOf
<1>3. CASE UNCHANGED threadVars
  BY <1>3 DEF threadVars, SendingInv, ActionOf
<1>4. ASSUME NEW w \in Workers, Handle(w) \/ Crash(w) \/ Collect(w)
      PROVE  SendingInv'
  BY <1>3, <1>4, WorkerFrame
<1>5. CASE UNCHANGED vars
  BY <1>3, <1>5 DEF vars
<1> QED
  BY <1>1, <1>2, <1>4, <1>5 DEF Next

\* Only an answer to the call's own request makes it a success.
LEMMA OutcomeStep ==
    ASSUME TypeInv, NEW t \in Threads, Step(t) \/ TimesOut(t)
    PROVE  \/ outcome'[t] = outcome[t]
           \/ outcome'[t] \notin Done
           \/ op[t] \notin Worked
           \/ TakeReply(t)
<1> USE DEF Goto, Raise, TypeInv, TypeOK, sessionVars, workerVars, Done
<1>1. CASE Close(t) \/ Acquire(t) \/ Ensure(t) \/ Release(t)
  BY <1>1 DEF Close, CheckAttached, CheckAlive, CheckGone, Acquire, Ensure, Release
<1>2. CASE Start(t)
  BY <1>2 DEF Start, BuildWorkdir, BuildWorkdirFails, NewQueue, Spawn, SpawnFails, StartReaderFails
<1>3. CASE Write(t)
  BY <1>3 DEF Write, Send, SendUnattached, SendBroken, Flushed, FlushBroken
<1>4. CASE Await(t) \/ TimesOut(t)
  BY <1>4 DEF Await, BindQueue, QueueGone, StillEmpty, EmptyAndDead, TimesOut
<1>5. CASE TakeInitReply(t)
  BY <1>5 DEF TakeInitReply, ActionOf, Worked
<1>6. CASE TakeBroken(t) \/ TakeStale(t)
  BY <1>6 DEF TakeBroken, TakeStale
<1>7. CASE Terminate(t)
  BY <1>7 DEF Terminate, ReadProcess, ClearProcess, ClearQueue, Kill, Cleanup, Remove, RemoveGone,
              Forget
<1> QED
  BY <1>1, <1>2, <1>3, <1>4, <1>5, <1>6, <1>7 DEF Step, Take

\* The answer a thread takes for its own is about work its worker has done.
LEMMA ReplyEarned ==
    ASSUME TypeInv, RefInv, SendingInv, HonestInv, NEW t \in Threads,
           TakeReply(t), op[t] \in Worked, outcome'[t] \in Done
    PROVE  /\ bound[t] \in Workers
           /\ sentTo[call[t]] = bound[t] /\ call[t] \in ran[bound[t]]
<1>1. /\ pc[t] = "get" /\ items[bound[t]] # <<>>
      /\ Item(t).call = call[t] /\ Item(t).action = sending[t]
      /\ sending[t] # "init"
      /\ outcome'[t] = Item(t).status
  BY DEF TakeReply, TakeItem, Answers, Raise, TypeInv, TypeOK
<1>2. bound[t] \in Workers
  BY TakeItemType DEF TakeReply
<1>3. sending[t] \in Worked
  BY <1>1 DEF SendingInv, ActionOf, Worked
<1>4. Item(t) \in HonestLines(bound[t])
  BY <1>1, <1>2, HeadTailProperties DEF Item, HonestInv
<1>5. bound[t] = sentTo[call[t]]
  BY <1>1 DEF RefInv, RefersTo, Partner
<1> QED
  BY <1>1, <1>2, <1>3, <1>4, <1>5 DEF HonestLines

\* Every step keeps the successes earned.
LEMMA NextResultInv ==
    /\ TypeInv /\ CallInv /\ RefInv /\ SendingInv /\ SentInv /\ HonestInv
    /\ ResultInv /\ [Next]_vars
    => ResultInv'
<1> SUFFICES ASSUME TypeInv, CallInv, RefInv, SendingInv, SentInv, HonestInv,
                    ResultInv, [Next]_vars
             PROVE  ResultInv'
  OBVIOUS
<1>1. SUFFICES ASSUME NEW u \in Threads, op'[u] \in Worked, outcome'[u] \in Done
               PROVE  \E w \in Workers :
                        sentTo'[call'[u]] = w /\ call'[u] \in ran'[w]
  BY DEF ResultInv, Earned
<1>2. ASSUME op'[u] = op[u], call'[u] = call[u], outcome'[u] = outcome[u],
             sentTo'[call[u]] = sentTo[call[u]],
             \A w \in Workers : ran[w] \subseteq ran'[w]
      PROVE  \E w \in Workers : sentTo'[call'[u]] = w /\ call'[u] \in ran'[w]
  BY <1>1, <1>2 DEF ResultInv, Earned
<1>3. ASSUME NEW t \in Threads, NEW o \in Ops \cup {"create"}, Invoke(t, o)
      PROVE  \E w \in Workers : sentTo'[call'[u]] = w /\ call'[u] \in ran'[w]
  <2>1. u # t
    BY <1>1, <1>3 DEF Invoke, Done, TypeInv, TypeOK
  <2> QED
    BY <1>2, <1>3, <2>1 DEF Invoke, workerVars, TypeInv, TypeOK
<1>4. ASSUME NEW t \in Threads, Step(t) \/ TimesOut(t)
      PROVE  \E w \in Workers : sentTo'[call'[u]] = w /\ call'[u] \in ran'[w]
  <2>1. op' = op /\ call' = call /\ ran' = ran
    BY <1>4, StepFrame, DataFrame
  <2>2. CASE outcome'[u] = outcome[u]
    <3>1. PICK w \in Workers : sentTo[call[u]] = w
      BY <1>1, <2>1, <2>2 DEF ResultInv, Earned
    <3>2. call[u] # None
      BY <1>1, <2>1 DEF CallInv, Worked
    <3>3. CASE Send(t)
      <4>1. sentTo[call[t]] = None
        BY <3>3 DEF Send, Goto, SentInv, Unsent
      <4>2. call[u] # call[t]
        BY <3>1, <4>1 DEF Workers, Calls, None
      <4>3. sentTo'[call[u]] = sentTo[call[u]]
        BY <3>3, <4>2 DEF Send, TypeInv, TypeOK
      <4> QED
        BY <1>2, <2>1, <2>2, <4>3
    <3>4. CASE ~Send(t)
      BY <1>2, <1>4, <2>1, <2>2, <3>4, StepFrame
    <3> QED
      BY <3>3, <3>4
  <2>3. CASE outcome'[u] # outcome[u]
    <3>1. u = t
      BY <1>4, <2>3, StepFrame
    <3>2. TakeReply(t)
      BY <1>1, <1>4, <2>1, <2>3, <3>1, OutcomeStep
    <3>3. sentTo' = sentTo
      BY <3>2 DEF TakeReply
    <3> QED
      BY <1>1, <2>1, <3>1, <3>2, <3>3, ReplyEarned
  <2> QED
    BY <2>2, <2>3
<1>5. ASSUME NEW w \in Workers, Handle(w) \/ Crash(w) \/ Collect(w)
      PROVE  \E v \in Workers : sentTo'[call'[u]] = v /\ call'[u] \in ran'[v]
  <2>1. UNCHANGED <<threadVars, sentTo>>
    BY <1>5, WorkerFrame
  <2>2. \A v \in Workers : ran[v] \subseteq ran'[v]
    BY <1>5, HandleEffect DEF Crash, Collect
  <2> QED
    BY <1>2, <2>1, <2>2 DEF threadVars
<1>6. CASE UNCHANGED vars
  BY <1>2, <1>6 DEF vars, threadVars, workerVars
<1> QED
  BY <1>3, <1>4, <1>5, <1>6 DEF Next

-----------------------------------------------------------------------------
(* The inductive invariant, and what follows from it.                      *)

\* The initial state satisfies the inductive invariant.
LEMMA InitIInv == Init => IInv
<1> SUFFICES ASSUME Init PROVE IInv
  OBVIOUS
<1>1. StartInv
  BY InitStartInv
<1>2. CallInv /\ RefInv /\ SendingInv /\ ResultInv
  BY DEF Init, CallInv, RefInv, RefersTo, SendingInv, ResultInv, Earned, Worked,
         None
<1>3. SentInv
  <2>1. \A w \in Workers : <<>> \in Seq(SentRequests(w))
    OBVIOUS
  <2>2. \A t \in Threads : ~Unsent(t)
    BY DEF Init, Unsent, TerminateSteps
  <2> QED
    BY <2>1, <2>2 DEF Init, SentInv
<1>4. HonestInv
  <2>1. \A w \in Workers : <<>> \in Seq(HonestLines(w))
    OBVIOUS
  <2> QED
    BY <2>1 DEF Init, HonestInv
<1> QED
  BY <1>1, <1>2, <1>3, <1>4 DEF IInv

\* Every step keeps the inductive invariant.
LEMMA NextIInv == IInv /\ [Next]_vars => IInv'
BY NextStartInv, NextCallInv, NextRefInv, NextSendingInv, NextSentInv,
   NextHonestInv, NextResultInv
DEF IInv, StartInv

\* The inductive invariant holds in every reachable state, for any number of
\* threads and calls and any of the faults.
THEOREM Inductive == Spec => []IInv
BY InitIInv, NextIInv, PTL DEF Spec

\* A start never overwrites the reference to a worker, although
\* _terminate_process and close run without the lock.
THEOREM StartsDetached == Spec => []StartsOnlyWhenDetached
<1>1. IInv => StartsOnlyWhenDetached
  BY DEF IInv, StartInv, DetachedInv, StartsOnlyWhenDetached
<1> QED
  BY <1>1, Inductive, PTL

\* No thread waits on another worker's Queue: the loop of _send_request_locked
\* reads _response_queue afresh in every round, but a new Queue is only made by
\* a thread that holds the lock the waiting thread has.
THEOREM AwaitsOwn == Spec => []AwaitsItsWorker
<1>1. IInv => AwaitsItsWorker
  BY DEF IInv, RefInv, RefersTo, AwaitsItsWorker
<1> QED
  BY <1>1, Inductive, PTL

\* No code runs twice: the request of a call goes to one worker, for life.
THEOREM RunsAtMostOnce == Spec => []AtMostOnce
<1>1. IInv => AtMostOnce
  BY DEF IInv, SentInv, AtMostOnce
<1> QED
  BY <1>1, Inductive, PTL

\* A success is never another call's: _send_request_locked matches answers by
\* request id, so a late answer is not taken for the one it waits for.
THEOREM SuccessIsOwn == Spec => []ResultIsOwn
<1>1. IInv => ResultIsOwn
  BY DEF IInv, ResultInv, Earned, ResultIsOwn, Worked, Done
<1> QED
  BY <1>1, Inductive, PTL

=============================================================================
