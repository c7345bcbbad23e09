-------------------------- MODULE SandboxSerialProofs --------------------------
(***************************************************************************)
(* Proofs about a SandboxSession that one thread uses at a time: either it *)
(* has one caller, or its callers only use methods that run under          *)
(* _request_lock from their first step to their last (send_variables, ping *)
(* and reset; the constructor is always alone).  execute and close         *)
(* terminate the worker without the lock, so that with several callers the *)
(* statements below are false; the runs say how.                           *)
(***************************************************************************)
EXTENDS SandboxSessionProofs

LockedMethods == {"send_variables", "ping", "reset"}
OneCaller == \A t, u \in Threads : t = u
SerialUse == OneCaller \/ Ops \subseteq LockedMethods

-----------------------------------------------------------------------------
(* The parts of the inductive invariant.                                   *)

\* A thread does something with the session: it is past the lock.
Busy(t) == pc[t] \notin {"idle", "closing", "acquire"}

\* One thread at a time does.
Exclusive == \A t, u \in Threads : Busy(t) /\ Busy(u) => t = u

\* The locked methods terminate a worker under the lock only.
MethodInv ==
    Ops \subseteq LockedMethods =>
        \A t \in Threads : /\ op[t] \in LockedMethods \cup {"create"}
                           /\ pc[t] \notin {"closing", "polling"}
                           /\ pc[t] \in TerminateSteps => cont[t] # "idle"

\* The process and the Queue are attached and detached together, but for the steps
\* between the two assignments, in which there is no process; what a thread has
\* found in a reference is still there when it uses it.
AttachedInv ==
    /\ process # None => queue = process
    /\ \A t \in Threads :
          /\ pc[t] = "spawn" => queue = call[t]
          /\ pc[t] \in {"polling", "send", "flush", "await", "get"} => process # None
          /\ pc[t] = "clear_process" => bound[t] = process
          /\ pc[t] \in {"workdir", "new_queue", "spawn", "clear_queue", "kill",
                        "cleanup", "remove", "forget"} => process = None
          /\ pc[t] = "remove" => tempdir # None

SerialInv ==
    MethodInv /\ AttachedInv /\ NoOrphan /\ LiveWorkerHasWorkdir /\ NoInternalError

\* The calls after which the session has to be empty.
Emptied(t) ==
    \/ op[t] = "close"
    \/ /\ op[t] = "execute"
       /\ outcome[t] \in {"timeout", "process_error", "exec_timeout"}

\* Nothing is left of the session's last worker.
Empty ==
    /\ \A w \in Workers : ~Alive(w)
    /\ dirs = {} /\ process = None /\ queue = None /\ tempdir = None

\* How far a termination has come.
EmptyInv ==
    /\ dirs \subseteq {tempdir}
    /\ \A t \in Threads :
          /\ pc[t] = "idle" /\ Emptied(t) => Empty
          /\ pc[t] \in {"kill", "cleanup", "remove", "forget"} => queue = None
          /\ pc[t] \in {"cleanup", "remove", "forget"} => \A w \in Workers : ~Alive(w)
          /\ pc[t] = "forget" => dirs = {}

-----------------------------------------------------------------------------
(* One thread at a time.                                                   *)

\* A thread that is past the lock holds it, or is the only one there is.
LEMMA ExclusiveUse ==
    ASSUME SerialUse, TypeInv, LockInv, MethodInv
    PROVE  Exclusive
<1>1. CASE OneCaller
  BY <1>1 DEF OneCaller, Exclusive
<1>2. CASE Ops \subseteq LockedMethods
  <2>1. ASSUME NEW t \in Threads, Busy(t)
        PROVE  InLock(t)
    <3>1. pc[t] \in UnderLock \cup TerminateSteps
      BY <1>2, <2>1 DEF MethodInv, Busy, TypeInv, TypeOK, Steps, UnderLock
    <3>2. pc[t] \in TerminateSteps => cont[t] # "idle"
      BY <1>2 DEF MethodInv
    <3> QED
      BY <3>1, <3>2 DEF InLock
  <2>2. ASSUME NEW t \in Threads, NEW u \in Threads, Busy(t), Busy(u)
        PROVE  t = u
    <3>1. lock = t /\ lock = u
      BY <2>1, <2>2 DEF LockInv
    <3> QED
      BY <3>1
  <2> QED
    BY <2>2 DEF Exclusive
<1> QED
  BY <1>1, <1>2 DEF SerialUse

\* The locked methods never leave the lock for a termination.
LEMMA NextMethodInv ==
    ASSUME TypeInv, LockInv, MethodInv, [Next]_vars
    PROVE  MethodInv'
<1> SUFFICES ASSUME Ops \subseteq LockedMethods
             PROVE  \A u \in Threads :
                      /\ op'[u] \in LockedMethods \cup {"create"}
                      /\ pc'[u] \notin {"closing", "polling"}
                      /\ pc'[u] \in TerminateSteps => cont'[u] # "idle"
  BY DEF MethodInv
<1>1. \A u \in Threads : /\ op[u] \in LockedMethods \cup {"create"}
                         /\ pc[u] \notin {"closing", "polling"}
                         /\ pc[u] \in TerminateSteps => cont[u] # "idle"
  BY DEF MethodInv
<1>2. ASSUME NEW t \in Threads, NEW o \in Ops \cup {"create"}, Invoke(t, o),
             NEW u \in Threads
      PROVE  /\ op'[u] \in LockedMethods \cup {"create"}
             /\ pc'[u] \notin {"closing", "polling"}
             /\ pc'[u] \in TerminateSteps => cont'[u] # "idle"
  <2>1. o \in LockedMethods \cup {"create"} /\ o # "close"
    BY DEF LockedMethods
  <2> QED
    BY <1>1, <1>2, <2>1 DEF Invoke, TypeInv, TypeOK, TerminateSteps
<1>3. ASSUME NEW t \in Threads, Step(t) \/ TimesOut(t), NEW u \in Threads
      PROVE  /\ op'[u] \in LockedMethods \cup {"create"}
             /\ pc'[u] \notin {"closing", "polling"}
             /\ pc'[u] \in TerminateSteps => cont'[u] # "idle"
  <2>1. op' = op /\ pc'[t] # "closing" /\ (pc'[t] = "polling" => pc[t] = "closing")
    BY <1>3, StepFrame
  <2>2. CASE u # t
    BY <1>1, <1>3, <2>1, <2>2, StepFrame
  <2>3. CASE u = t
    <3> USE DEF Goto, Raise, TypeInv, TypeOK, TerminateSteps
    <3>1. CASE Close(t) \/ Acquire(t)
      BY <1>1, <2>1, <2>3, <3>1 DEF Close, CheckAttached, CheckAlive, CheckGone, Acquire
    <3>2. CASE Ensure(t)
      <4>1. cont'[t] = "workdir"
        BY <3>2 DEF Ensure, LockInv
      <4> QED
        BY <1>1, <2>1, <2>3, <3>2, <4>1 DEF Ensure
    <3>3. CASE Start(t)
      BY <1>1, <2>1, <2>3, <3>3 DEF Start, BuildWorkdir, BuildWorkdirFails, NewQueue, Spawn, SpawnFails,
                  StartReaderFails
    <3>4. CASE Write(t)
      BY <1>1, <2>1, <2>3, <3>4
      DEF Write, Send, SendUnattached, SendBroken, Flushed, FlushBroken
    <3>5. CASE Await(t) \/ TimesOut(t)
      BY <1>1, <2>1, <2>3, <3>5
      DEF Await, BindQueue, QueueGone, StillEmpty, EmptyAndDead, TimesOut
    <3>6. CASE Take(t)
      BY <1>1, <2>1, <2>3, <3>6
      DEF Take, TakeBroken, TakeStale, TakeReply, TakeInitReply, TakeItem
    <3>7. CASE Release(t)
      <4>1. AfterLock(t) = "idle"
        BY <1>1 DEF AfterLock, Terminates, LockedMethods
      <4> QED
        BY <1>1, <2>1, <2>3, <3>7, <4>1 DEF Release
    <3>8. CASE Terminate(t)
      BY <1>1, <2>1, <2>3, <3>8
      DEF Terminate, ReadProcess, ClearProcess, ClearQueue, Kill, Cleanup, Remove, RemoveGone, Forget
    <3> QED
      BY <1>3, <3>1, <3>2, <3>3, <3>4, <3>5, <3>6, <3>7, <3>8 DEF Step
  <2> QED
    BY <2>2, <2>3
<1>4. ASSUME NEW w \in Workers, Handle(w) \/ Crash(w) \/ Collect(w)
      PROVE  UNCHANGED <<op, pc, cont>>
  BY <1>4, WorkerFrame DEF threadVars
<1>5. CASE UNCHANGED vars
  BY <1>1, <1>5 DEF vars, threadVars
<1> QED
  BY <1>1, <1>2, <1>3, <1>4, <1>5 DEF Next
-----------------------------------------------------------------------------
(* The process and its Queue.                                              *)

\* What the invariant says of one thread.
AttachedAt(t) ==
    /\ pc[t] = "spawn" => queue = call[t]
    /\ pc[t] \in {"polling", "send", "flush", "await", "get"} => process # None
    /\ pc[t] = "clear_process" => bound[t] = process
    /\ pc[t] \in {"workdir", "new_queue", "spawn", "clear_queue", "kill",
                  "cleanup", "remove", "forget"} => process = None
    /\ pc[t] = "remove" => tempdir # None

\* A busy thread may change the references: no other thread relies on them.
LEMMA AttachedBusy ==
    ASSUME Exclusive, AttachedInv, NEW t \in Threads, Busy(t),
           \A u \in Threads \ {t} : pc'[u] = pc[u],
           AttachedAt(t)', process' # None => queue' = process'
    PROVE  AttachedInv'
<1>1. ASSUME NEW u \in Threads \ {t}
      PROVE  pc'[u] \in {"idle", "closing", "acquire"}
  BY DEF Exclusive, Busy
<1>2. \A u \in Threads \ {t} : AttachedAt(u)'
  BY <1>1 DEF AttachedAt
<1>3. \A u \in Threads : AttachedAt(u)'
  BY <1>2
<1> QED
  BY <1>3 DEF AttachedInv, AttachedAt

\* A thread that changes no reference affects no other.
LEMMA AttachedOther ==
    ASSUME AttachedInv, NEW t \in Threads, UNCHANGED <<process, queue, tempdir>>,
           \A u \in Threads \ {t} : pc'[u] = pc[u] /\ bound'[u] = bound[u]
                                    /\ call'[u] = call[u],
           AttachedAt(t)'
    PROVE  AttachedInv'
<1>1. \A u \in Threads \ {t} : AttachedAt(u)'
  BY DEF AttachedInv, AttachedAt
<1>2. \A u \in Threads : AttachedAt(u)'
  BY <1>1
<1> QED
  BY <1>2 DEF AttachedInv, AttachedAt

\* Every step keeps them together.
LEMMA NextAttachedInv ==
    ASSUME TypeInv, DetachedInv, Exclusive, AttachedInv, [Next]_vars
    PROVE  AttachedInv'
<1>1. ASSUME NEW t \in Threads, NEW o \in Ops \cup {"create"}, Invoke(t, o)
      PROVE  AttachedInv'
  <2>1. AttachedAt(t)'
    BY <1>1 DEF Invoke, TypeInv, TypeOK, AttachedAt
  <2> QED
    BY <1>1, <2>1, AttachedOther DEF Invoke, sessionVars, TypeInv, TypeOK
<1>2. ASSUME NEW t \in Threads, Step(t) \/ TimesOut(t)
      PROVE  AttachedInv'
  <2>0. /\ call' = call
        /\ \A u \in Threads \ {t} : pc'[u] = pc[u] /\ bound'[u] = bound[u]
    BY <1>2, StepFrame
  <2>1. process # None => queue = process
    BY DEF AttachedInv
  <2>2. AttachedAt(t)
    BY DEF AttachedInv, AttachedAt
  <2> USE DEF Goto, Raise, TypeInv, TypeOK
  <2>3. CASE Close(t) \/ Ensure(t)
    <3>1. UNCHANGED <<process, queue, tempdir>> /\ AttachedAt(t)'
      BY <2>2, <2>3 DEF Close, CheckAttached, CheckAlive, CheckGone, Ensure, Reusable,
                        Alive, sessionVars, AttachedAt
    <3> QED
      BY <2>0, <3>1, AttachedOther
  <2>4. CASE Acquire(t)
    <3>1. Entry(op[t]) \in {"workdir", "read", "ensure"}
      BY DEF Entry
    <3>2. op[t] # "create" => Entry(op[t]) # "workdir"
      BY DEF Entry
    <3>3. op[t] = "create" => process = None
      BY <2>4 DEF Acquire, DetachedInv
    <3>4. UNCHANGED <<process, queue, tempdir>> /\ AttachedAt(t)'
      BY <2>4, <3>1, <3>2, <3>3 DEF Acquire, AttachedAt
    <3> QED
      BY <2>0, <3>4, AttachedOther
  <2>5. CASE BuildWorkdirFails(t) \/ SpawnFails(t)
    <3>1. UNCHANGED <<process, queue, tempdir>> /\ AttachedAt(t)'
      BY <2>5 DEF BuildWorkdirFails, SpawnFails, sessionVars, AttachedAt
    <3> QED
      BY <2>0, <3>1, AttachedOther
  <2>6. CASE BuildWorkdir(t) \/ NewQueue(t) \/ Spawns(t)
    <3>1. Busy(t) /\ AttachedAt(t)' /\ (process' # None => queue' = process')
      BY <2>1, <2>2, <2>6 DEF BuildWorkdir, NewQueue, Spawns, Spawn, StartReaderFails,
                              Busy, AttachedAt, CalledInv
    <3> QED
      BY <2>0, <3>1, AttachedBusy
  <2>7. CASE Write(t) \/ Await(t) \/ TimesOut(t) \/ Take(t)
    <3>1. UNCHANGED <<process, queue, tempdir>>
      BY <2>7 DEF Write, Send, SendUnattached, SendBroken, Flushed, FlushBroken, Await,
                  BindQueue, QueueGone, StillEmpty, EmptyAndDead, TimesOut, Take,
                  TakeBroken, TakeStale, TakeInitReply, TakeReply, sessionVars
    <3>2. /\ pc[t] \in {"send", "flush", "await", "get"}
          /\ pc'[t] \in {"send", "flush", "await", "get", "release", "read"}
      BY <2>7 DEF Write, Send, SendUnattached, SendBroken, Flushed, FlushBroken, Await,
                  BindQueue, QueueGone, StillEmpty, EmptyAndDead, TimesOut, Take,
                  TakeBroken, TakeStale, TakeInitReply, TakeReply
    <3>3. AttachedAt(t)'
      BY <2>2, <3>1, <3>2 DEF AttachedAt
    <3> QED
      BY <2>0, <3>1, <3>3, AttachedOther
  <2>8. CASE Release(t)
    <3>1. UNCHANGED <<process, queue, tempdir>> /\ AttachedAt(t)'
      BY <2>8, AfterLockType DEF Release, AttachedAt
    <3> QED
      BY <2>0, <3>1, AttachedOther
  <2>9. CASE ReadProcess(t) \/ Kill(t)
    <3>1. UNCHANGED <<process, queue, tempdir>> /\ AttachedAt(t)'
      BY <2>2, <2>9 DEF ReadProcess, Kill, sessionVars, AttachedAt
    <3> QED
      BY <2>0, <3>1, AttachedOther
  <2>10. CASE ClearProcess(t) \/ ClearQueue(t)
    <3>1. Busy(t) /\ AttachedAt(t)' /\ (process' # None => queue' = process')
      BY <2>2, <2>10 DEF ClearProcess, ClearQueue, Busy, AttachedAt
    <3> QED
      BY <2>0, <3>1, AttachedBusy
  <2>11. CASE Cleanup(t) \/ Remove(t) \/ RemoveGone(t)
    <3>1. UNCHANGED <<process, queue, tempdir>> /\ ~RemoveGone(t)
      BY <2>2, <2>11 DEF Cleanup, Remove, RemoveGone, sessionVars, AttachedAt
    <3>2. /\ process = None /\ pc'[t] \in {"idle", "workdir", "release", "remove", "forget"}
          /\ pc'[t] = "remove" => tempdir # None
      BY <2>2, <2>11, <3>1 DEF Cleanup, Remove, AttachedAt
    <3>3. AttachedAt(t)'
      BY <3>1, <3>2 DEF AttachedAt
    <3> QED
      BY <2>0, <3>1, <3>3, AttachedOther
  <2>12. CASE Forget(t)
    <3>1. Busy(t) /\ AttachedAt(t)' /\ process' = None
      BY <2>2, <2>12 DEF Forget, Busy, AttachedAt
    <3> QED
      BY <2>0, <3>1, AttachedBusy
  <2> QED
    BY <1>2, <2>3, <2>4, <2>5, <2>6, <2>7, <2>8, <2>9, <2>10, <2>11, <2>12
    DEF Step, Start, Terminate, Spawns
<1>3. ASSUME NEW w \in Workers, Handle(w) \/ Crash(w) \/ Collect(w)
      PROVE  AttachedInv'
  BY <1>3, WorkerFrame DEF AttachedInv, sessionVars, threadVars
<1>4. CASE UNCHANGED vars
  BY <1>4 DEF vars, sessionVars, threadVars, AttachedInv
<1> QED
  BY <1>1, <1>2, <1>3, <1>4 DEF Next

-----------------------------------------------------------------------------
(* The workers that run.                                                   *)

\* A step that starts no worker and detaches none.
LEMMA OrphanFrame ==
    ASSUME NoOrphan, process' = process,
           \A w \in Workers : Alive(w)' => Alive(w),
           \A u \in Threads : pc[u] \in Killing =>
                                pc'[u] \in Killing /\ bound'[u] = bound[u]
    PROVE  NoOrphan'
<1> SUFFICES ASSUME NEW w \in Workers, Alive(w)'
             PROVE  \/ process' = w
                    \/ \E u \in Threads : pc'[u] \in Killing /\ bound'[u] = w
  BY DEF NoOrphan, Killing
<1>1. process = w \/ \E u \in Threads : pc[u] \in Killing /\ bound[u] = w
  BY DEF NoOrphan, Killing
<1> QED
  BY <1>1

\* No worker runs behind the back of a thread that finds none attached.
LEMMA NoneRuns ==
    ASSUME Exclusive, NoOrphan, process = None, NEW t \in Threads, Busy(t),
           pc[t] \notin Killing
    PROVE  \A w \in Workers : ~Alive(w)
<1>1. \A u \in Threads : pc[u] \notin Killing
  BY DEF Exclusive, Busy, Killing
<1> QED
  BY <1>1 DEF NoOrphan, Killing, Workers, Calls, None

\* Every step leaves each running worker attached, or to a thread that kills it.
LEMMA NextNoOrphan ==
    ASSUME TypeInv, Exclusive, AttachedInv, NoOrphan, [Next]_vars
    PROVE  NoOrphan'
<1>1. ASSUME NEW t \in Threads, NEW o \in Ops \cup {"create"}, Invoke(t, o)
      PROVE  NoOrphan'
  <2>1. \A u \in Threads : pc[u] \in Killing => pc'[u] \in Killing /\ bound'[u] = bound[u]
    BY <1>1 DEF Invoke, Killing, TypeInv, TypeOK
  <2>2. process' = process /\ worker' = worker
    BY <1>1 DEF Invoke, sessionVars, workerVars
  <2> QED
    BY <2>1, <2>2, OrphanFrame DEF Alive
<1>2. ASSUME NEW t \in Threads, Step(t) \/ TimesOut(t)
      PROVE  NoOrphan'
  <2>1. \A u \in Threads \ {t} : pc'[u] = pc[u] /\ bound'[u] = bound[u]
    BY <1>2, StepFrame
  <2>2. CASE Spawns(t)
    <3>1. /\ Busy(t) /\ pc[t] \notin Killing /\ process = None
      BY <2>2 DEF Spawns, Spawn, StartReaderFails, Raise, Goto, Busy, Killing, AttachedInv
    <3>2. \A w \in Workers : ~Alive(w)
      BY <3>1, NoneRuns
    <3>3. \A w \in Workers : Alive(w)' => process' = w
      BY <2>2, <3>2 DEF Spawns, Spawn, StartReaderFails, Alive, TypeInv, TypeOK
    <3> QED
      BY <3>3 DEF NoOrphan
  <2>3. CASE ClearProcess(t)
    <3>1. /\ pc[t] = "clear_process" /\ pc'[t] = "clear_queue" /\ bound'[t] = bound[t]
          /\ worker' = worker
      BY <2>3 DEF ClearProcess, Goto, TypeInv, TypeOK, workerVars
    <3>2. bound[t] = process
      BY <3>1 DEF AttachedInv
    <3>3. \A u \in Threads : pc[u] \in Killing => u = t
      BY <3>1 DEF Exclusive, Busy, Killing
    <3>4. \A w \in Workers : Alive(w) => bound[t] = w
      BY <3>2, <3>3 DEF NoOrphan, Killing
    <3> QED
      BY <3>1, <3>4 DEF NoOrphan, Alive
  <2>4. CASE Kill(t)
    <3>1. pc[t] = "kill"
      BY <2>4 DEF Kill, Goto
    <3>2. \A u \in Threads : pc[u] \in Killing => u = t
      BY <3>1 DEF Exclusive, Busy, Killing
    <3>3. process' = process
      BY <2>4 DEF Kill, sessionVars
    <3>4. \A w \in Workers : Alive(w)' => Alive(w) /\ w # bound[t]
      BY <2>4 DEF Kill, NeedsKill, Alive, TypeInv, TypeOK
    <3> QED
      BY <3>2, <3>3, <3>4 DEF NoOrphan, Killing
  <2>5. CASE ClearQueue(t)
    <3>1. /\ pc'[t] \in Killing /\ bound'[t] = bound[t]
          /\ UNCHANGED <<process, worker>>
      BY <2>5 DEF ClearQueue, Goto, Killing, TypeInv, TypeOK, workerVars
    <3> QED
      BY <2>1, <3>1, OrphanFrame DEF Alive
  <2>6. CASE ~Spawns(t) /\ ~ClearProcess(t) /\ ~Kill(t) /\ ~ClearQueue(t)
    <3>1. process' = process /\ \A w \in Workers : Alive(w)' => Alive(w)
      BY <1>2, <2>6, RunFrame
    <3>2. pc[t] \notin Killing
      BY <1>2, <2>6, RunFrame
      DEF Terminate, ReadProcess, Cleanup, Remove, RemoveGone, Forget, Goto, Killing
    <3> QED
      BY <2>1, <3>1, <3>2, OrphanFrame
  <2> QED
    BY <2>2, <2>3, <2>4, <2>5, <2>6
<1>3. ASSUME NEW w \in Workers, Handle(w) \/ Crash(w) \/ Collect(w)
      PROVE  NoOrphan'
  <2>1. process' = process /\ \A u \in Threads : pc'[u] = pc[u] /\ bound'[u] = bound[u]
    BY <1>3, WorkerFrame DEF sessionVars, threadVars
  <2> QED
    BY <1>3, <2>1, OrphanFrame, WorkerRunFrame
<1>4. CASE UNCHANGED vars
  BY <1>4 DEF vars, sessionVars, threadVars, workerVars, NoOrphan, Alive
<1> QED
  BY <1>1, <1>2, <1>3, <1>4 DEF Next

\* Every step leaves a running worker its directory.
LEMMA NextLiveWorkerHasWorkdir ==
    ASSUME TypeInv, Exclusive, AttachedInv, NoOrphan, LiveWorkerHasWorkdir, [Next]_vars
    PROVE  LiveWorkerHasWorkdir'
<1>0. ASSUME dirs' = dirs, \A w \in Workers : Alive(w)' => Alive(w)
      PROVE  LiveWorkerHasWorkdir'
  BY <1>0 DEF LiveWorkerHasWorkdir, HasWorkdir
<1>1. ASSUME NEW t \in Threads, NEW o \in Ops \cup {"create"}, Invoke(t, o)
      PROVE  LiveWorkerHasWorkdir'
  BY <1>0, <1>1 DEF Invoke, workerVars, Alive
<1>2. ASSUME NEW t \in Threads, Step(t) \/ TimesOut(t)
      PROVE  LiveWorkerHasWorkdir'
  <2>1. CASE Spawns(t)
    <3>1. /\ dirs' = dirs /\ HasWorkdir(call[t])
          /\ \A w \in Workers : Alive(w)' => Alive(w) \/ w = call[t]
      BY <2>1 DEF Spawns, Spawn, StartReaderFails, Alive, TypeInv, TypeOK
    <3> QED
      BY <3>1 DEF LiveWorkerHasWorkdir, HasWorkdir
  <2>2. CASE BuildWorkdir(t) \/ Remove(t) \/ Forget(t)
    <3>1. /\ Busy(t) /\ pc[t] \notin Killing /\ process = None /\ worker' = worker
      BY <2>2 DEF BuildWorkdir, Remove, Forget, Goto, Busy, Killing, AttachedInv
    <3>2. \A w \in Workers : ~Alive(w)
      BY <3>1, NoneRuns
    <3> QED
      BY <3>1, <3>2 DEF LiveWorkerHasWorkdir, Alive
  <2>3. CASE ~Spawns(t) /\ ~BuildWorkdir(t) /\ ~Remove(t) /\ ~Forget(t)
    BY <1>0, <1>2, <2>3, RunFrame
  <2> QED
    BY <2>1, <2>2, <2>3
<1>3. ASSUME NEW w \in Workers, Handle(w) \/ Crash(w) \/ Collect(w)
      PROVE  LiveWorkerHasWorkdir'
  <2>1. dirs' = dirs
    BY <1>3 DEF Handle, Crash, Collect
  <2> QED
    BY <1>0, <1>3, <2>1, WorkerRunFrame
<1>4. CASE UNCHANGED vars
  BY <1>0, <1>4 DEF vars, workerVars, Alive
<1> QED
  BY <1>1, <1>2, <1>3, <1>4 DEF Next

-----------------------------------------------------------------------------
(* The exceptions a method may raise.                                      *)

Internal == {"assertion_error", "attribute_error"}

\* Every step raises another one, or none.
LEMMA NextNoInternalError ==
    ASSUME TypeInv, AttachedInv, NoInternalError, [Next]_vars
    PROVE  NoInternalError'
<1>0. \A u \in Threads : outcome[u] \notin Internal
  BY DEF NoInternalError, Internal
<1>1. ASSUME NEW t \in Threads, NEW o \in Ops \cup {"create"}, Invoke(t, o)
      PROVE  \A u \in Threads : outcome'[u] \notin Internal
  BY <1>0, <1>1 DEF Invoke, Internal, TypeInv, TypeOK
<1>2. ASSUME NEW t \in Threads, Step(t) \/ TimesOut(t)
      PROVE  \A u \in Threads : outcome'[u] \notin Internal
  <2>1. \A u \in Threads \ {t} : outcome'[u] = outcome[u]
    BY <1>2, StepFrame
  <2>2. outcome'[t] \notin Internal
    <3> USE <1>0 DEF Goto, Raise, TypeInv, TypeOK, Internal
    <3>1. CASE Close(t) \/ Acquire(t) \/ Ensure(t) \/ Release(t)
      <4>1. ~CheckGone(t)
        BY DEF CheckGone, AttachedInv
      <4> QED
        BY <3>1, <4>1 DEF Close, CheckAttached, CheckAlive, Acquire, Ensure, Release
    <3>2. CASE Start(t)
      BY <3>2 DEF Start, BuildWorkdir, BuildWorkdirFails, NewQueue, Spawn, SpawnFails,
                  StartReaderFails
    <3>3. CASE Write(t)
      <4>1. ~SendUnattached(t)
        BY DEF SendUnattached, AttachedInv
      <4> QED
        BY <3>3, <4>1 DEF Write, Send, SendBroken, Flushed, FlushBroken
    <3>4. CASE Await(t) \/ TimesOut(t)
      <4>1. ~QueueGone(t)
        BY DEF QueueGone, AttachedInv
      <4>2. EmptyAndDead(t) => outcome'[t] = "process_error"
        BY DEF EmptyAndDead, AttachedInv
      <4> QED
        BY <3>4, <4>1, <4>2 DEF Await, BindQueue, StillEmpty, TimesOut
    <3>5. CASE Take(t)
      <4>1. TakeItem(t) => Item(t).status \in Statuses
        BY TakeItemType DEF Lines
      <4> QED
        BY <3>5, <4>1
        DEF Take, TakeBroken, TakeStale, TakeInitReply, TakeReply, Statuses
    <3>6. CASE Terminate(t)
      <4>1. ~RemoveGone(t)
        BY DEF RemoveGone, AttachedInv
      <4> QED
        BY <3>6, <4>1 DEF Terminate, ReadProcess, ClearProcess, ClearQueue, Kill, Cleanup,
                          Remove, Forget
    <3> QED
      BY <1>2, <3>1, <3>2, <3>3, <3>4, <3>5, <3>6 DEF Step
  <2> QED
    BY <1>0, <2>1, <2>2
<1>3. ASSUME NEW w \in Workers, Handle(w) \/ Crash(w) \/ Collect(w)
      PROVE  \A u \in Threads : outcome'[u] \notin Internal
  BY <1>0, <1>3, WorkerFrame DEF threadVars
<1>4. CASE UNCHANGED vars
  BY <1>4 DEF vars, threadVars, NoInternalError
<1> QED
  BY <1>0, <1>1, <1>2, <1>3, <1>4 DEF Next, NoInternalError, Internal

-----------------------------------------------------------------------------
(* The invariant of serial use.                                            *)

\* The initial state satisfies it.
LEMMA InitSerialInv == Init => SerialInv
<1> SUFFICES ASSUME Init PROVE SerialInv
  OBVIOUS
<1> USE DEF Init
<1>1. MethodInv /\ AttachedInv
  BY DEF MethodInv, AttachedInv, LockedMethods, TerminateSteps
<1>2. \A w \in Workers : ~Alive(w)
  BY DEF Alive
<1>3. NoInternalError
  BY DEF NoInternalError
<1> QED
  BY <1>1, <1>2, <1>3 DEF SerialInv, NoOrphan, LiveWorkerHasWorkdir

\* Every step keeps it.
LEMMA NextSerialInv ==
    ASSUME SerialUse
    PROVE  IInv /\ SerialInv /\ [Next]_vars => SerialInv'
<1> SUFFICES ASSUME IInv, SerialInv, [Next]_vars PROVE SerialInv'
  OBVIOUS
<1>1. /\ TypeInv /\ LockInv /\ DetachedInv /\ MethodInv /\ AttachedInv /\ NoOrphan
      /\ LiveWorkerHasWorkdir /\ NoInternalError
  BY DEF IInv, StartInv, SerialInv
<1>2. Exclusive
  BY <1>1, ExclusiveUse
<1>3. MethodInv' /\ AttachedInv'
  BY <1>1, <1>2, NextMethodInv, NextAttachedInv
<1>4. NoOrphan' /\ LiveWorkerHasWorkdir' /\ NoInternalError'
  BY <1>1, <1>2, NextNoOrphan, NextLiveWorkerHasWorkdir, NextNoInternalError
<1> QED
  BY <1>3, <1>4 DEF SerialInv

\* The invariant holds in every state, for any number of calls and all faults.
THEOREM SerialInvariant ==
    ASSUME SerialUse
    PROVE  Spec => []SerialInv
<1>1. Init => SerialInv
  BY InitSerialInv
<1>2. IInv /\ SerialInv /\ [Next]_vars => SerialInv'
  BY NextSerialInv
<1> QED
  BY <1>1, <1>2, Inductive, PTL DEF Spec

\* Every running worker is attached, or about to be killed: none is left behind by
\* a start that fails or a reset (manager.py:225).
THEOREM NoWorkerIsOrphaned ==
    ASSUME SerialUse
    PROVE  Spec => []NoOrphan
<1>1. SerialInv => NoOrphan
  BY DEF SerialInv
<1> QED
  BY <1>1, SerialInvariant, PTL

\* No directory is removed under a running worker, although cleanup, rebinding and
\* finalizer may each remove it (manager.py:100, 237).
THEOREM WorkdirStays ==
    ASSUME SerialUse
    PROVE  Spec => []LiveWorkerHasWorkdir
<1>1. SerialInv => LiveWorkerHasWorkdir
  BY DEF SerialInv
<1> QED
  BY <1>1, SerialInvariant, PTL

\* The assertions of _send_request_locked hold, and its loop finds the process and
\* the Queue it had (manager.py:197).
THEOREM NothingInternalRaised ==
    ASSUME SerialUse
    PROVE  Spec => []NoInternalError
<1>1. SerialInv => NoInternalError
  BY DEF SerialInv
<1> QED
  BY <1>1, SerialInvariant, PTL

-----------------------------------------------------------------------------
(* What one caller's termination leaves.                                   *)

\* What EmptyInv says of one thread.
EmptyAt(t) ==
    /\ pc[t] = "idle" /\ Emptied(t) => Empty
    /\ pc[t] \in {"kill", "cleanup", "remove", "forget"} => queue = None
    /\ pc[t] \in {"cleanup", "remove", "forget"} => \A w \in Workers : ~Alive(w)
    /\ pc[t] = "forget" => dirs = {}

\* The step of the only thread there is.
LEMMA EmptyStep ==
    ASSUME TypeInv, AttachedInv, NoOrphan, Exclusive, dirs \subseteq {tempdir},
           NEW t \in Threads, Step(t) \/ TimesOut(t), EmptyAt(t)
    PROVE  EmptyAt(t)'
<1> USE DEF Goto, Raise, TypeInv, TypeOK, EmptyAt
<1>1. CASE Close(t) \/ Ensure(t)
  <2>1. ~CheckGone(t)
    BY DEF CheckGone, AttachedInv
  <2> QED
    BY <1>1, <2>1 DEF Close, CheckAttached, CheckAlive, Ensure
<1>2. CASE Acquire(t)
  <2>1. Entry(op[t]) \notin {"idle", "kill", "cleanup", "remove", "forget"}
    BY DEF Entry
  <2> QED
    BY <1>2, <2>1 DEF Acquire
<1>3. CASE Start(t)
  BY <1>3 DEF Start, BuildWorkdir, BuildWorkdirFails, NewQueue, Spawn, SpawnFails,
                  StartReaderFails
<1>4. CASE Write(t)
  BY <1>4 DEF Write, Send, SendUnattached, SendBroken, Flushed, FlushBroken
<1>5. CASE Await(t) \/ TimesOut(t)
  BY <1>5 DEF Await, BindQueue, QueueGone, StillEmpty, EmptyAndDead, TimesOut
<1>6. CASE Take(t)
  BY <1>6 DEF Take, TakeBroken, TakeStale, TakeInitReply, TakeReply, TakeItem
<1>7. CASE Release(t)
  <2>1. /\ pc'[t] = AfterLock(t) /\ UNCHANGED <<op, outcome>>
    BY <1>7 DEF Release
  <2>2. pc'[t] = "idle" => ~Terminates(op[t], outcome[t])
    BY <2>1 DEF AfterLock
  <2>3. Emptied(t) => Terminates(op[t], outcome[t])
    BY DEF Emptied, Terminates
  <2> QED
    BY <2>1, <2>2, <2>3, AfterLockType DEF Emptied
<1>8. CASE ReadProcess(t) \/ ClearProcess(t) \/ ClearQueue(t)
  BY <1>8 DEF ReadProcess, ClearProcess, ClearQueue
<1>9. CASE Kill(t)
  <2>1. /\ pc[t] = "kill" /\ pc'[t] = "cleanup" /\ queue' = queue
        /\ \A w \in Workers : Alive(w)' => Alive(w) /\ w # bound[t]
    BY <1>9 DEF Kill, sessionVars, NeedsKill, Alive
  <2>2. process = None
    BY <2>1 DEF AttachedInv
  <2>3. \A u \in Threads : pc[u] \in Killing => u = t
    BY <2>1 DEF Exclusive, Busy, Killing
  <2>4. \A w \in Workers : Alive(w) => w = bound[t]
    BY <2>2, <2>3 DEF NoOrphan, Killing, Workers, Calls, None
  <2> QED
    BY <2>1, <2>4
<1>10. CASE Cleanup(t) \/ Remove(t) \/ RemoveGone(t)
  <2>1. ~RemoveGone(t)
    BY DEF RemoveGone, AttachedInv
  <2>2. /\ pc[t] \in {"cleanup", "remove"} /\ UNCHANGED <<process, queue, tempdir, worker>>
        /\ pc'[t] \in {"idle", "workdir", "release", "remove", "forget"}
        /\ pc'[t] = "idle" => tempdir = None /\ dirs' = dirs
        /\ pc'[t] = "forget" => dirs' = {}
    BY <1>10, <2>1 DEF Cleanup, Remove, sessionVars, workerVars
  <2>3. tempdir = None => dirs = {}
    BY DEF Workers, Calls, None
  <2>4. process = None /\ queue = None /\ \A w \in Workers : ~Alive(w)'
    BY <2>2 DEF AttachedInv, Alive
  <2> QED
    BY <2>2, <2>3, <2>4 DEF Empty
<1>11. CASE Forget(t)
  <2>1. /\ pc[t] = "forget" /\ UNCHANGED <<process, queue, worker>>
        /\ pc'[t] \in {"idle", "workdir", "release"}
        /\ dirs' = {} /\ tempdir' = None
    BY <1>11 DEF Forget
  <2>2. process = None /\ queue = None /\ \A w \in Workers : ~Alive(w)'
    BY <2>1 DEF AttachedInv, Alive
  <2> QED
    BY <2>1, <2>2 DEF Empty
<1> QED
  BY <1>1, <1>2, <1>3, <1>4, <1>5, <1>6, <1>7, <1>8, <1>9, <1>10, <1>11
  DEF Step, Terminate

\* There is at most one temporary directory, the one the session refers to: this
\* needs no serial use.
LEMMA OneWorkdir ==
    ASSUME TypeInv, dirs \subseteq {tempdir}, [Next]_vars
    PROVE  dirs' \subseteq {tempdir'}
<1>1. ASSUME NEW t \in Threads, NEW o \in Ops \cup {"create"}, Invoke(t, o)
      PROVE  UNCHANGED <<dirs, tempdir>>
  BY <1>1 DEF Invoke, sessionVars, workerVars
<1>2. ASSUME NEW t \in Threads, Step(t) \/ TimesOut(t)
      PROVE  dirs' \subseteq {tempdir'}
  <2> USE DEF Goto, Raise, TypeInv, TypeOK, sessionVars, workerVars
  <2>1. CASE BuildWorkdir(t) \/ Remove(t) \/ Forget(t)
    BY <2>1 DEF BuildWorkdir, Remove, Forget
  <2>2. CASE ~BuildWorkdir(t) /\ ~Remove(t) /\ ~Forget(t)
    <3>1. CASE Close(t) \/ Acquire(t) \/ Ensure(t) \/ Release(t)
      BY <3>1 DEF Close, CheckAttached, CheckAlive, CheckGone, Acquire, Ensure, Release
    <3>2. CASE Start(t)
      BY <2>2, <3>2 DEF Start, BuildWorkdirFails, NewQueue, Spawn, SpawnFails, StartReaderFails
    <3>3. CASE Write(t)
      BY <3>3 DEF Write, Send, SendUnattached, SendBroken, Flushed, FlushBroken
    <3>4. CASE Await(t) \/ TimesOut(t)
      BY <3>4 DEF Await, BindQueue, QueueGone, StillEmpty, EmptyAndDead, TimesOut
    <3>5. CASE Take(t)
      BY <3>5 DEF Take, TakeBroken, TakeStale, TakeInitReply, TakeReply, TakeItem
    <3>6. CASE Terminate(t)
      BY <2>2, <3>6 DEF Terminate, ReadProcess, ClearProcess, ClearQueue, Kill, Cleanup,
                            RemoveGone
    <3> QED
      BY <1>2, <3>1, <3>2, <3>3, <3>4, <3>5, <3>6 DEF Step
  <2> QED
    BY <2>1, <2>2
<1>3. ASSUME NEW w \in Workers, Handle(w) \/ Crash(w) \/ Collect(w)
      PROVE  UNCHANGED <<dirs, tempdir>>
  BY <1>3 DEF Handle, Crash, Collect, sessionVars
<1>4. CASE UNCHANGED vars
  BY <1>4 DEF vars, sessionVars, workerVars
<1> QED
  BY <1>1, <1>2, <1>3, <1>4 DEF Next

\* Every step of a session with one caller keeps EmptyInv.
LEMMA NextEmptyInv ==
    ASSUME OneCaller
    PROVE  IInv /\ SerialInv /\ EmptyInv /\ [Next]_vars => EmptyInv'
<1> SUFFICES ASSUME IInv, SerialInv, EmptyInv, [Next]_vars PROVE EmptyInv'
  OBVIOUS
<1>1. /\ TypeInv /\ LockInv /\ MethodInv /\ AttachedInv /\ NoOrphan
      /\ dirs \subseteq {tempdir} /\ \A u \in Threads : EmptyAt(u)
  BY DEF IInv, StartInv, SerialInv, EmptyInv, EmptyAt
<1>2. Exclusive
  BY <1>1, ExclusiveUse DEF SerialUse
<1>3. SUFFICES ASSUME NEW u \in Threads PROVE EmptyAt(u)'
  BY <1>1, OneWorkdir DEF EmptyInv, EmptyAt
<1>4. ASSUME NEW t \in Threads, NEW o \in Ops \cup {"create"}, Invoke(t, o)
      PROVE  EmptyAt(u)'
  <2>1. t = u
    BY DEF OneCaller
  <2>2. pc'[t] \in {"closing", "acquire"}
    BY <1>1, <1>4 DEF Invoke, TypeInv, TypeOK
  <2> QED
    BY <2>1, <2>2 DEF EmptyAt
<1>5. ASSUME NEW t \in Threads, Step(t) \/ TimesOut(t)
      PROVE  EmptyAt(u)'
  <2>1. t = u
    BY DEF OneCaller
  <2>2. EmptyAt(t)
    BY <1>1
  <2> QED
    BY <1>1, <1>2, <1>5, <2>1, <2>2, EmptyStep
<1>6. ASSUME NEW w \in Workers, Handle(w) \/ Crash(w) \/ Collect(w)
      PROVE  EmptyAt(u)'
  <2>1. UNCHANGED <<sessionVars, threadVars>> /\ dirs' = dirs
    BY <1>6, WorkerFrame DEF Handle, Crash, Collect
  <2>2. \A v \in Workers : Alive(v)' => Alive(v)
    BY <1>1, <1>6, WorkerRunFrame
  <2> QED
    BY <1>1, <2>1, <2>2 DEF EmptyAt, Empty, Emptied, sessionVars, threadVars
<1>7. CASE UNCHANGED vars
  BY <1>1, <1>7 DEF EmptyAt, Empty, Emptied, Alive, vars, sessionVars, threadVars, workerVars
<1> QED
  BY <1>4, <1>5, <1>6, <1>7 DEF Next

\* Once the only caller's close has returned, or its execute with a worker that
\* timed out, failed or ran into a limit, nothing of the worker is left, whatever
\* failed on the way (manager.py:225-238).
THEOREM NothingIsLeft ==
    ASSUME OneCaller
    PROVE  Spec => []NothingLeftBehind
<1>1. Init => EmptyInv
  BY DEF Init, EmptyInv, Emptied, Alive
<1>2. IInv /\ SerialInv /\ EmptyInv /\ [Next]_vars => EmptyInv'
  BY NextEmptyInv
<1>3. EmptyInv => NothingLeftBehind
  BY DEF EmptyInv, Emptied, Empty, NothingLeftBehind
<1>4. Spec => []SerialInv
  BY SerialInvariant DEF SerialUse
<1> QED
  BY <1>1, <1>2, <1>3, <1>4, Inductive, PTL DEF Spec
=============================================================================
