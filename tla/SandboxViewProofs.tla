-------------------------- MODULE SandboxViewProofs --------------------------
(***************************************************************************)
(* Proof that SandboxSession implements SandboxView, the session as        *)
(* PythonService sees it, for any number of threads, of calls and faults.  *)
(***************************************************************************)
EXTENDS SandboxSessionProofs

-----------------------------------------------------------------------------
(* The mapping.                                                            *)

\* The steps between a request and its answer.
InRequest == {"send", "flush", "await", "get", "release"}

\* The steps of a termination before and after it has detached the worker.
Attached == {"read", "clear_process"}
Detached == {"clear_queue", "kill", "cleanup", "remove", "forget"}

\* The stage of each step.
LEMMA StageIs ==
    ASSUME NEW p, NEW k, NEW o
    PROVE  /\ p = "idle" => StageOf(p, k, o) = "idle"
           /\ p \in {"closing", "polling"} => StageOf(p, k, o) = "closing"
           /\ p \in {"acquire", "ensure"} => StageOf(p, k, o) = "enter"
           /\ p \in {"workdir", "new_queue", "spawn"} => StageOf(p, k, o) = "starting"
           /\ p \in {"send", "flush", "await", "get", "release"} =>
                 StageOf(p, k, o) = "await"
           /\ p \in Attached => StageOf(p, k, o) =
                 IF k = "workdir" THEN IF o = "reset" THEN "enter" ELSE "starting"
                 ELSE IF k = "idle" THEN "terminate" ELSE "await"
           /\ p \in Detached => StageOf(p, k, o) =
                 IF k = "workdir" THEN "starting"
                 ELSE IF k = "idle" THEN "idle" ELSE "await"
BY DEF StageOf, TerminateSteps, Attached, Detached

\* Steps within one part of a method keep the stage.
LEMMA StageKept ==
    ASSUME NEW t \in Threads
    PROVE  /\ /\ pc[t] \in InRequest
              /\ \/ pc'[t] \in InRequest
                 \/ pc'[t] = "read" /\ cont'[t] = "release"
              => Stage(t)' = Stage(t)
           /\ /\ \/ pc[t] \in Attached /\ pc'[t] \in Attached
                 \/ pc[t] \in Detached /\ pc'[t] \in Detached
              /\ cont' = cont /\ op' = op
              => Stage(t)' = Stage(t)
<1>1. ASSUME pc[t] \in InRequest,
             pc'[t] \in InRequest \/ (pc'[t] = "read" /\ cont'[t] = "release")
      PROVE  Stage(t)' = Stage(t)
  <2>1. Stage(t) = "await"
    BY <1>1, StageIs DEF Stage, InRequest
  <2>2. Stage(t)' = "await"
    BY <1>1, StageIs DEF Stage, InRequest, Attached
  <2> QED
    BY <2>1, <2>2
<1>2. ASSUME pc[t] \in Attached /\ pc'[t] \in Attached, cont' = cont, op' = op
      PROVE  Stage(t)' = Stage(t)
  BY <1>2, StageIs DEF Stage
<1>3. ASSUME pc[t] \in Detached /\ pc'[t] \in Detached, cont' = cont, op' = op
      PROVE  Stage(t)' = Stage(t)
  BY <1>3, StageIs DEF Stage
<1> QED
  BY <1>1, <1>2, <1>3

\* A step of thread t changes no other thread's stage.
LEMMA OthersStay ==
    ASSUME TypeInv, NEW t \in Threads, Step(t) \/ TimesOut(t)
    PROVE  /\ op' = op
           /\ \A u \in Threads \ {t} : Stage(u)' = Stage(u)
BY StepFrame DEF Stage

\* Who has the lock, as others see it, before and after a step.
LEMMA HolderIs ==
    ASSUME NEW t \in Threads
    PROVE  /\ lock = NoThread => Holder = NoThread
           /\ lock' = NoThread => Holder' = NoThread
           /\ lock = t => Holder = IF Stage(t) = "enter" THEN NoThread ELSE t
           /\ lock' = t => Holder' = IF Stage(t)' = "enter" THEN NoThread ELSE t
BY ThreadAssumption DEF Holder

LEMMA HolderStays ==
    ASSUME lock' = lock,
           \A u \in Threads : lock = u => (Stage(u)' = "enter" <=> Stage(u) = "enter")
    PROVE  Holder' = Holder
BY DEF Holder

\* What the view's variables become in a step.
LEMMA RunningIs ==
    /\ Running["self"] = Alive(process)
    /\ Running' = [Running EXCEPT !["self"] = Alive(process)']
BY Zenon DEF Running

LEMMA RunningStays ==
    ASSUME Alive(process)' <=> Alive(process)
    PROVE  /\ Running' = Running
           /\ Running' = [Running EXCEPT !["self"] = Alive(process)]
<1>1. Alive(process)' = Alive(process)
  BY Zenon DEF Alive
<1> QED
  BY <1>1, Zenon DEF Running

LEMMA HeldIs ==
    /\ Held["self"] = Holder
    /\ Held' = [Held EXCEPT !["self"] = Holder']
    /\ Holder' = Holder => Held' = Held
BY Zenon DEF Held

LEMMA StagesAre ==
    ASSUME NEW t \in Threads, \A u \in Threads \ {t} : Stage(u)' = Stage(u)
    PROVE  /\ Stages[t] = Stage(t)
           /\ Stages' = [Stages EXCEPT ![t] = Stage(t)']
           /\ Stage(t)' = Stage(t) => Stages' = Stages
BY DEF Stages

LEMMA SelfIs ==
    ASSUME NEW t \in Threads
    PROVE  /\ Self' = Self
           /\ Self[t] = "self"
           /\ Self = [Self EXCEPT ![t] = "self"]
BY DEF Self

-----------------------------------------------------------------------------
(* The steps.                                                              *)

\* What a step of the session may be in the view.
ViewStep == View!Next \/ UNCHANGED View!vars

\* A step in which no thread changes its stage, and no worker appears.
LEMMA Unseen ==
    ASSUME op' = op, Holder' = Holder,
           \A u \in Threads : Stage(u)' = Stage(u),
           Alive(process)' => Alive(process)
    PROVE  ViewStep
<1>1. Held' = Held /\ Self' = Self /\ Stages' = Stages
  BY HeldIs DEF Self, Stages
<1>2. CASE Alive(process)' <=> Alive(process)
  BY <1>1, <1>2, RunningStays DEF View!vars, ViewStep
<1>3. CASE Alive(process) /\ ~Alive(process)'
  <2>1. Running["self"] /\ Running' = [Running EXCEPT !["self"] = FALSE]
    BY <1>3, RunningIs, Zenon DEF Alive
  <2>2. View!Crash("self")
    BY <1>1, <2>1 DEF View!Crash
  <2> QED
    BY <2>2 DEF View!Next, ViewStep
<1> QED
  BY <1>2, <1>3

\* A step of a thread that keeps its stage and the lock.
LEMMA QuietStep ==
    ASSUME TypeInv, NEW t \in Threads, Step(t) \/ TimesOut(t),
           Stage(t)' = Stage(t), lock' = lock, Alive(process)' => Alive(process)
    PROVE  ViewStep
<1>1. \A u \in Threads : Stage(u)' = Stage(u)
  BY OthersStay
<1>2. Holder' = Holder
  BY <1>1, HolderStays
<1>3. op' = op
  BY OthersStay
<1> QED
  BY <1>1, <1>2, <1>3, Unseen

\* A call is a step from elsewhere into the method.
LEMMA InvokeSeen ==
    ASSUME TypeInv, LockInv, NEW t \in Threads, NEW o \in Ops \cup {"create"},
           Invoke(t, o)
    PROVE  ViewStep
<1>1. /\ pc[t] = "idle" /\ op' = [op EXCEPT ![t] = o] /\ cont' = cont
      /\ pc' = [pc EXCEPT ![t] = IF o = "close" THEN "closing" ELSE "acquire"]
      /\ UNCHANGED <<lock, process, worker>>
  BY DEF Invoke, sessionVars, workerVars
<1>2. \A u \in Threads \ {t} : Stage(u)' = Stage(u)
  BY <1>1 DEF Stage, TypeInv, TypeOK
<1>3. Stage(t) = "idle" /\ Stage(t)' = IF o = "close" THEN "closing" ELSE "enter"
  BY <1>1, StageIs DEF Stage, TypeInv, TypeOK
<1>4. lock # t
  BY <1>1 DEF LockInv, InLock, UnderLock, TerminateSteps
<1>5. Held' = Held
  BY <1>1, <1>2, <1>4, HolderStays, HeldIs
<1>6. Running' = Running
  BY <1>1, RunningStays DEF Alive
<1>7. o \in Methods \cup {"create"} /\ (o = "close" <=> o \in View!Closers)
  BY OpsAssumption DEF View!Closers, Methods
<1>8. View!Outside(t, IF o = "close" THEN "closing" ELSE "enter", o, "self")
  <2>1. Stages[t] = "idle"
    BY <1>2, <1>3, StagesAre
  <2>2. Stages' = [Stages EXCEPT ![t] = IF o = "close" THEN "closing" ELSE "enter"]
    BY <1>2, <1>3, StagesAre
  <2>3. Self' = [Self EXCEPT ![t] = "self"]
    BY SelfIs
  <2> QED
    BY <1>1, <1>5, <1>6, <1>7, <2>1, <2>2, <2>3 DEF View!Outside
<1> QED
  BY <1>7, <1>8 DEF ViewStep, View!Next, View!Inside

\* close finds no worker, or one that it has yet to look at.
LEMMA CheckAttachedSeen ==
    ASSUME TypeInv, LockInv, NEW t \in Threads, CheckAttached(t)
    PROVE  ViewStep
<1>1. /\ pc[t] = "closing" /\ cont' = [cont EXCEPT ![t] = "idle"]
      /\ pc' = [pc EXCEPT ![t] = IF process = None THEN "read" ELSE "polling"]
      /\ UNCHANGED <<lock, process, worker, op>>
  BY DEF CheckAttached, Goto, sessionVars, workerVars
<1>2. CASE process # None
  <2>1. Stage(t)' = Stage(t)
    BY <1>1, <1>2, StageIs DEF Stage, TypeInv, TypeOK
  <2> QED
    BY <1>1, <2>1, QuietStep DEF Alive, Step, Close
<1>3. CASE process = None
  <2>1. \A u \in Threads \ {t} : Stage(u)' = Stage(u)
    BY OthersStay DEF Step, Close
  <2>2. Stage(t) = "closing" /\ Stage(t)' = "terminate"
    BY <1>1, <1>3, StageIs DEF Stage, Attached, TypeInv, TypeOK
  <2>3. lock # t
    BY <1>1 DEF LockInv, InLock, UnderLock, TerminateSteps
  <2>4. Held' = Held
    BY <1>1, <2>1, <2>3, HolderStays, HeldIs
  <2>5. Running' = Running /\ ~Running["self"]
    BY <1>1, <1>3, RunningStays, RunningIs DEF Alive
  <2>6. View!Close(t, "self")
    BY <1>1, <2>1, <2>2, <2>4, <2>5, SelfIs, StagesAre DEF View!Close, View!Goto
  <2> QED
    BY <2>6 DEF ViewStep, View!Next
<1> QED
  BY <1>2, <1>3

\* close looks whether the worker it has found runs.
LEMMA CheckAliveSeen ==
    ASSUME TypeInv, LockInv, NEW t \in Threads, CheckAlive(t)
    PROVE  ViewStep
<1>1. /\ pc[t] = "polling" /\ cont' = cont /\ cont[t] = "idle"
      /\ pc' = [pc EXCEPT ![t] = IF Alive(process) THEN "acquire" ELSE "read"]
      /\ UNCHANGED <<lock, process, worker, op>>
  BY DEF CheckAlive, Goto, LockInv, sessionVars, workerVars
<1>2. \A u \in Threads \ {t} : Stage(u)' = Stage(u)
  BY OthersStay DEF Step, Close
<1>3. /\ Stage(t) = "closing"
      /\ Stage(t)' = IF Alive(process) THEN "enter" ELSE "terminate"
  BY <1>1, StageIs DEF Stage, Attached, TypeInv, TypeOK
<1>4. lock # t
  BY <1>1 DEF LockInv, InLock, UnderLock, TerminateSteps
<1>5. Held' = Held
  BY <1>1, <1>2, <1>4, HolderStays, HeldIs
<1>6. Running' = Running
  BY <1>1, RunningStays DEF Alive
<1>7. Stages' = [Stages EXCEPT ![t] = IF Running["self"] THEN "enter" ELSE "terminate"]
  BY <1>2, <1>3, StagesAre, RunningIs
<1>8. View!Close(t, "self")
  BY <1>1, <1>2, <1>3, <1>5, <1>6, <1>7, SelfIs, StagesAre DEF View!Close, View!Goto
<1> QED
  BY <1>8 DEF ViewStep, View!Next

\* ... or finds that it is gone.
LEMMA CheckGoneSeen ==
    ASSUME TypeInv, LockInv, NEW t \in Threads, CheckGone(t)
    PROVE  ViewStep
<1>1. /\ pc[t] = "polling" /\ cont' = cont /\ process = None
      /\ pc' = [pc EXCEPT ![t] = "idle"]
      /\ UNCHANGED <<lock, process, worker, op>>
  BY DEF CheckGone, Goto, sessionVars, workerVars
<1>2. \A u \in Threads \ {t} : Stage(u)' = Stage(u)
  BY OthersStay DEF Step, Close
<1>3. Stage(t) = "closing" /\ Stage(t)' = "idle"
  BY <1>1, StageIs DEF Stage, TypeInv, TypeOK
<1>4. lock # t
  BY <1>1 DEF LockInv, InLock, UnderLock, TerminateSteps
<1>5. Held' = Held
  BY <1>1, <1>2, <1>4, HolderStays, HeldIs
<1>6. Running' = Running /\ ~Running["self"]
  BY <1>1, RunningStays, RunningIs DEF Alive
<1>7. View!CloseFails(t, "self", "idle")
  BY <1>1, <1>2, <1>3, <1>5, <1>6, SelfIs, StagesAre DEF View!CloseFails, View!Goto
<1> QED
  BY <1>7 DEF ViewStep, View!Next

\* A thread gets the lock: the constructor goes on to start a worker.
LEMMA AcquireSeen ==
    ASSUME TypeInv, LockInv, DetachedInv, NEW t \in Threads, Acquire(t)
    PROVE  ViewStep
<1>1. /\ lock = NoThread /\ lock' = t
      /\ pc[t] = "acquire" /\ cont' = [cont EXCEPT ![t] = "workdir"]
      /\ pc' = [pc EXCEPT ![t] = Entry(op[t])]
      /\ UNCHANGED <<process, worker, op>>
  BY DEF Acquire, Free, Goto, workerVars
<1>2. \A u \in Threads \ {t} : Stage(u)' = Stage(u)
  BY OthersStay DEF Step
<1>3. Stage(t) = "enter"
  BY <1>1, StageIs DEF Stage, TypeInv, TypeOK
<1>4. Stage(t)' = IF op[t] = "create" THEN "starting" ELSE "enter"
  BY <1>1, StageIs DEF Stage, Entry, Attached, TypeInv, TypeOK
<1>5. Running' = Running
  BY <1>1, RunningStays DEF Alive
<1>6. CASE op[t] = "create"
  <2>1. ~Running["self"] /\ Running' = [Running EXCEPT !["self"] = FALSE]
    <3>1. ~Alive(process)
      BY <1>1, <1>6 DEF DetachedInv, Alive
    <3> QED
      BY <1>1, <3>1, RunningIs, Zenon DEF Alive
  <2>2. Held["self"] = NoThread /\ Held' = [Held EXCEPT !["self"] = t]
    BY <1>1, <1>4, <1>6, HolderIs, HeldIs
  <2>3. Stages[t] = "enter" /\ Stages' = [Stages EXCEPT ![t] = "starting"]
    BY <1>2, <1>3, <1>4, <1>6, StagesAre
  <2>4. View!Enter(t)
    BY <1>1, <1>6, <2>1, <2>2, <2>3, SelfIs DEF View!Enter, View!Goto
  <2> QED
    BY <2>4 DEF ViewStep, View!Next
<1>7. CASE op[t] # "create"
  <2>1. Holder = NoThread /\ Holder' = NoThread
    BY <1>1, <1>4, <1>7, HolderIs
  <2>2. \A u \in Threads : Stage(u)' = Stage(u)
    BY <1>2, <1>3, <1>4, <1>7
  <2> QED
    BY <1>1, <2>1, <2>2, Unseen DEF Alive
<1> QED
  BY <1>6, <1>7

\* The holder of the lock finds a worker to use, or has to start one.
LEMMA EnsureSeen ==
    ASSUME TypeInv, LockInv, RefInv, NEW t \in Threads, Ensure(t)
    PROVE  ViewStep
<1>1. /\ pc[t] = "ensure" /\ cont' = cont
      /\ pc' = [pc EXCEPT ![t] = IF Alive(process) THEN "send" ELSE "read"]
      /\ UNCHANGED <<lock, process, worker, op>>
  BY DEF Ensure, Reusable, Goto, sessionVars, workerVars
<1>2. \A u \in Threads \ {t} : Stage(u)' = Stage(u)
  BY OthersStay DEF Step
<1>3. lock = t /\ lock' = t /\ cont[t] = "workdir"
  BY <1>1 DEF LockInv, InLock, UnderLock
<1>4. op[t] \notin {"create", "reset"}
  BY <1>1 DEF RefInv, RefersTo, ActionOf
<1>5. Stage(t) = "enter"
  BY <1>1, StageIs DEF Stage, TypeInv, TypeOK
<1>6. Stage(t)' = IF Alive(process) THEN "await" ELSE "starting"
  BY <1>1, <1>3, <1>4, StageIs DEF Stage, Attached, TypeInv, TypeOK
<1>7. Running' = Running /\ Running' = [Running EXCEPT !["self"] = Alive(process)]
  BY <1>1, RunningStays DEF Alive
<1>8. Held["self"] = NoThread /\ Held' = [Held EXCEPT !["self"] = t]
  BY <1>3, <1>5, <1>6, HolderIs, HeldIs
<1>9. CASE Alive(process)
  <2>1. Running["self"] /\ Running' = [Running EXCEPT !["self"] = TRUE]
    BY <1>1, <1>9, RunningIs, Zenon DEF Alive
  <2>2. Stages[t] = "enter" /\ Stages' = [Stages EXCEPT ![t] = "await"]
    BY <1>2, <1>5, <1>6, <1>9, StagesAre
  <2>3. View!Enter(t)
    BY <1>1, <1>4, <1>8, <2>1, <2>2, SelfIs DEF View!Enter, View!Goto
  <2> QED
    BY <2>3 DEF ViewStep, View!Next
<1>10. CASE ~Alive(process)
  <2>1. ~Running["self"] /\ Running' = [Running EXCEPT !["self"] = FALSE]
    BY <1>1, <1>10, RunningIs, Zenon DEF Alive
  <2>2. Stages[t] = "enter" /\ Stages' = [Stages EXCEPT ![t] = "starting"]
    BY <1>2, <1>5, <1>6, <1>10, StagesAre
  <2>3. View!Enter(t)
    BY <1>1, <1>8, <2>1, <2>2, SelfIs DEF View!Enter, View!Goto
  <2> QED
    BY <2>3 DEF ViewStep, View!Next
<1> QED
  BY <1>9, <1>10

\* Popen gives the session a worker, or the start fails before or after it.
LEMMA SpawnSeen ==
    ASSUME TypeInv, LockInv, NEW t \in Threads,
           BuildWorkdirFails(t) \/ Spawn(t) \/ SpawnFails(t) \/ StartReaderFails(t)
    PROVE  ViewStep
<1>1. /\ pc[t] \in {"workdir", "spawn"} /\ cont' = cont /\ op' = op /\ lock' = lock
      /\ pc' \in {[pc EXCEPT ![t] = "send"], [pc EXCEPT ![t] = "release"]}
  BY DEF BuildWorkdirFails, Spawn, SpawnFails, StartReaderFails, Raise, Goto, sessionVars
<1>2. \A u \in Threads \ {t} : Stage(u)' = Stage(u)
  BY OthersStay DEF Step, Start
<1>3. Stage(t) = "starting" /\ Stage(t)' = "await"
  BY <1>1, StageIs DEF Stage, TypeInv, TypeOK
<1>4. Held' = Held
  BY <1>1, <1>2, <1>3, HolderStays, HeldIs
<1>5. \E alive \in BOOLEAN : Running' = [Running EXCEPT !["self"] = alive]
  <2>1. Alive(process)' \in BOOLEAN
    BY Zenon DEF Alive
  <2> QED
    BY <2>1, RunningIs
<1>6. View!Spawn(t)
  BY <1>1, <1>2, <1>3, <1>4, <1>5, SelfIs, StagesAre DEF View!Spawn, View!Goto
<1> QED
  BY <1>6 DEF ViewStep, View!Next

\* The other steps of a start, and those between the request and its answer.
LEMMA WaitingSeen ==
    ASSUME TypeInv, NEW t \in Threads,
           \/ BuildWorkdir(t) \/ NewQueue(t)
           \/ Write(t) \/ Await(t) \/ TimesOut(t) \/ Take(t)
    PROVE  ViewStep
<1> USE DEF Goto, Raise, TypeInv, TypeOK, sessionVars, workerVars
<1>1. CASE BuildWorkdir(t) \/ NewQueue(t)
  <2>1. /\ UNCHANGED <<lock, process, worker, cont, op>>
        /\ Stage(t)' = Stage(t)
    BY <1>1, StageIs DEF BuildWorkdir, NewQueue, Stage
  <2> QED
    BY <1>1, <2>1, QuietStep DEF Alive, Step, Start
<1>2. CASE Write(t) \/ Await(t) \/ TimesOut(t) \/ Take(t)
  <2>1. UNCHANGED <<lock, process, worker, op>>
    BY <1>2 DEF Write, Send, SendUnattached, SendBroken, Flushed, FlushBroken,
                Await, BindQueue, QueueGone, StillEmpty, EmptyAndDead, TimesOut,
                Take, TakeBroken, TakeStale, TakeReply, TakeInitReply
  <2>2. /\ pc[t] \in {"send", "flush", "await", "get"}
        /\ \/ pc'[t] \in {"send", "flush", "await", "get", "release"}
           \/ pc'[t] = "read" /\ cont'[t] = "release"
    <3>1. CASE Write(t)
      BY <3>1 DEF Write, Send, SendUnattached, SendBroken, Flushed, FlushBroken
    <3>2. CASE Await(t) \/ TimesOut(t)
      BY <3>2 DEF Await, BindQueue, QueueGone, StillEmpty, EmptyAndDead, TimesOut
    <3>3. CASE Take(t)
      BY <3>3 DEF Take, TakeBroken, TakeStale, TakeReply, TakeInitReply, TakeItem
    <3> QED
      BY <1>2, <3>1, <3>2, <3>3
  <2>3. Stage(t)' = Stage(t)
    BY <2>2, StageKept DEF InRequest
  <2> QED
    BY <1>2, <2>1, <2>3, QuietStep DEF Alive, Step
<1> QED
  BY <1>1, <1>2

\* The end of the with-block: what follows it is a termination or nothing.
LEMMA ReleaseSeen ==
    ASSUME TypeInv, LockInv, NEW t \in Threads, Release(t)
    PROVE  ViewStep
<1>1. /\ pc[t] = "release" /\ cont' = [cont EXCEPT ![t] = "idle"]
      /\ pc' = [pc EXCEPT ![t] = AfterLock(t)]
      /\ lock' = NoThread
      /\ UNCHANGED <<process, worker, op>>
  BY DEF Release, LockAfter, Goto, workerVars
<1>2. \A u \in Threads \ {t} : Stage(u)' = Stage(u)
  BY OthersStay DEF Step
<1>3. /\ Stage(t) = "await"
      /\ Stage(t)' = IF AfterLock(t) = "read" THEN "terminate" ELSE "idle"
  BY <1>1, StageIs, AfterLockType DEF Stage, Attached, TypeInv, TypeOK
<1>4. Stage(t)' \in View!AfterAnswer(op[t])
  BY <1>3 DEF View!AfterAnswer, View!Closers, AfterLock, Terminates, TypeInv, TypeOK,
              Methods
<1>5. Held' = [Held EXCEPT !["self"] = NoThread]
  BY <1>1, HolderIs, HeldIs
<1>6. Running' = Running
  BY <1>1, RunningStays DEF Alive
<1>7. View!Answer(t, Stage(t)')
  BY <1>1, <1>2, <1>3, <1>4, <1>5, <1>6, SelfIs, StagesAre DEF View!Answer, View!Goto
<1> QED
  BY <1>3, <1>7 DEF ViewStep, View!Next

\* A termination has done its work for others once it has detached the worker.
LEMMA DetachSeen ==
    ASSUME TypeInv, LockInv, NEW t \in Threads, ClearProcess(t)
    PROVE  ViewStep
<1>1. /\ pc[t] = "clear_process" /\ cont' = cont
      /\ pc' = [pc EXCEPT ![t] = "clear_queue"]
      /\ process' = None
      /\ UNCHANGED <<lock, op>>
  BY DEF ClearProcess, Goto, workerVars
<1>2. \A u \in Threads \ {t} : Stage(u)' = Stage(u)
  BY OthersStay DEF Step, Terminate
<1>3. Running' = [Running EXCEPT !["self"] = FALSE]
  BY <1>1, RunningIs, Zenon DEF Alive
<1>4. /\ Stage(t) = IF cont[t] = "workdir"
                      THEN IF op[t] = "reset" THEN "enter" ELSE "starting"
                    ELSE IF cont[t] = "idle" THEN "terminate" ELSE "await"
      /\ Stage(t)' = IF cont[t] = "workdir" THEN "starting"
                     ELSE IF cont[t] = "idle" THEN "idle" ELSE "await"
  BY <1>1, StageIs DEF Stage, Attached, Detached, TypeInv, TypeOK
<1>5. lock = t <=> cont[t] # "idle"
  BY <1>1 DEF LockInv, InLock, UnderLock, TerminateSteps
<1>6. CASE cont[t] = "workdir" /\ op[t] = "reset"
  <2>1. Held["self"] = NoThread /\ Held' = [Held EXCEPT !["self"] = t]
    BY <1>1, <1>4, <1>5, <1>6, HolderIs, HeldIs
  <2>2. View!Enter(t)
    BY <1>1, <1>2, <1>3, <1>4, <1>6, <2>1, SelfIs, StagesAre DEF View!Enter, View!Goto
  <2> QED
    BY <2>2 DEF ViewStep, View!Next
<1>7. CASE cont[t] = "idle"
  <2>1. Held' = Held
    BY <1>1, <1>2, <1>5, <1>7, HolderStays, HeldIs
  <2>2. View!Terminate(t, "idle")
    BY <1>1, <1>2, <1>3, <1>4, <1>7, <2>1, SelfIs, StagesAre
    DEF View!Terminate, View!Goto
  <2> QED
    BY <2>2 DEF ViewStep, View!Next
<1>8. CASE cont[t] # "idle" /\ ~(cont[t] = "workdir" /\ op[t] = "reset")
  <2>1. Stage(t)' = Stage(t)
    BY <1>4, <1>8
  <2> QED
    BY <1>1, <2>1, QuietStep DEF Alive, Step, Terminate
<1> QED
  BY <1>6, <1>7, <1>8

\* The directory is gone, and with it the start.
LEMMA GoneSeen ==
    ASSUME TypeInv, NEW t \in Threads, RemoveGone(t), cont[t] = "workdir"
    PROVE  ViewStep
<1>1. /\ pc[t] = "remove" /\ pc' = [pc EXCEPT ![t] = "release"]
      /\ UNCHANGED <<lock, process, worker, cont, op>>
  BY DEF RemoveGone, Goto, sessionVars, workerVars
<1>2. \A u \in Threads \ {t} : Stage(u)' = Stage(u)
  BY OthersStay DEF Step, Terminate
<1>3. Stage(t) = "starting" /\ Stage(t)' = "await"
  BY <1>1, StageIs DEF Stage, Detached, TypeInv, TypeOK
<1>4. Held' = Held
  BY <1>1, <1>2, <1>3, HolderStays, HeldIs
<1>5. Alive(process)' \in BOOLEAN /\ Running' = [Running EXCEPT !["self"] = Alive(process)']
  BY RunningIs, Zenon DEF Alive
<1>6. View!Spawn(t)
  BY <1>1, <1>2, <1>3, <1>4, <1>5, SelfIs, StagesAre DEF View!Spawn, View!Goto
<1> QED
  BY <1>6 DEF ViewStep, View!Next

\* The other steps of a termination.
LEMMA TerminateSeen ==
    ASSUME TypeInv, NEW t \in Threads,
           ReadProcess(t) \/ ClearQueue(t) \/ Kill(t) \/ Cleanup(t)
           \/ Remove(t) \/ RemoveGone(t) \/ Forget(t)
    PROVE  ViewStep
<1> USE DEF Goto, TypeInv, TypeOK, sessionVars, workerVars
<1>1. Step(t)
  BY DEF Step, Terminate
<1>2. CASE ReadProcess(t)
  <2>1. /\ UNCHANGED <<lock, process, worker, cont, op>>
        /\ pc[t] \in Attached /\ pc'[t] \in Attached
    BY <1>2 DEF ReadProcess, Attached
  <2>2. Stage(t)' = Stage(t)
    BY <2>1, StageKept
  <2> QED
    BY <1>1, <2>1, <2>2, QuietStep DEF Alive
<1>3. CASE ClearQueue(t) \/ Kill(t)
  <2>1. /\ UNCHANGED <<lock, process, cont, op>>
        /\ pc[t] \in Detached /\ pc'[t] \in Detached
    BY <1>3 DEF ClearQueue, Kill, Detached
  <2>2. Stage(t)' = Stage(t)
    BY <2>1, StageKept
  <2>3. Alive(process)' => Alive(process)
    BY <1>3, <2>1 DEF ClearQueue, Kill, NeedsKill, Alive, OrNone
  <2> QED
    BY <1>1, <2>1, <2>2, <2>3, QuietStep
<1>4. CASE Cleanup(t) \/ Remove(t) \/ RemoveGone(t) \/ Forget(t)
  <2>1. /\ UNCHANGED <<lock, process, worker, cont, op>>
        /\ pc[t] \in Detached
        /\ \/ pc'[t] \in Detached \cup {cont[t]}
           \/ pc'[t] = IF cont[t] = "idle" THEN "idle" ELSE "release"
    BY <1>4 DEF Cleanup, Remove, RemoveGone, Forget, Detached
  <2>2. cont[t] \in {"idle", "workdir", "release"}
    OBVIOUS
  <2>3. CASE Stage(t)' = Stage(t)
    BY <1>1, <2>1, <2>3, QuietStep DEF Alive
  <2>4. CASE Stage(t)' # Stage(t)
    <3>1. RemoveGone(t) /\ pc'[t] = "release" /\ cont[t] = "workdir"
      BY <1>4, <2>1, <2>2, <2>4, StageIs DEF Cleanup, Remove, RemoveGone, Forget, Detached,
                                             Stage
    <3> QED
      BY <3>1, GoneSeen
  <2> QED
    BY <2>3, <2>4
<1> QED
  BY <1>2, <1>3, <1>4

\* What a worker does by itself can only end it.
LEMMA WorkerSeen ==
    ASSUME TypeInv, NEW w \in Workers, Handle(w) \/ Crash(w) \/ Collect(w)
    PROVE  ViewStep
<1>1. /\ UNCHANGED <<lock, process, op, pc, cont>>
      /\ Alive(w) \/ UNCHANGED worker
      /\ \A v \in Workers \ {w} : worker'[v] = worker[v]
  BY DEF Handle, Respond, Crash, Collect, sessionVars, threadVars, TypeInv, TypeOK
<1>2. Alive(process)' => Alive(process)
  BY <1>1 DEF Alive, OrNone, TypeInv, TypeOK
<1>3. /\ \A u \in Threads : Stage(u)' = Stage(u)
      /\ Holder' = Holder
  BY <1>1 DEF Stage, Holder
<1> QED
  BY <1>1, <1>2, <1>3, Unseen

-----------------------------------------------------------------------------
(* The refinement.                                                         *)

\* The initial state is seen as the view's.
LEMMA InitSeen == Init => View!Init
<1> SUFFICES ASSUME Init PROVE View!Init
  OBVIOUS
<1>1. Running = [i \in {"self"} |-> FALSE]
  <2>1. Alive(process) = FALSE
    BY Zenon DEF Init, Alive
  <2> QED
    BY <2>1, Zenon DEF Running
<1>2. Held = [i \in {"self"} |-> NoThread]
  BY ThreadAssumption DEF Init, Holder, Held
<1>3. Stages \in [Threads -> {"idle"}]
  BY StageIs DEF Init, Stage, Stages
<1>4. op \in [Threads -> Methods \cup {"create"}] /\ Self \in [Threads -> {"self"}]
  BY DEF Init, Self
<1> QED
  BY <1>1, <1>2, <1>3, <1>4 DEF View!Init

\* Every step is seen as one of the view's, or not at all.
LEMMA NextSeen == IInv /\ [Next]_vars => ViewStep
<1> SUFFICES ASSUME IInv, [Next]_vars PROVE ViewStep
  OBVIOUS
<1>1. TypeInv /\ LockInv /\ CreateInv /\ DetachedInv /\ RefInv
  BY DEF IInv, StartInv
<1>2. CASE UNCHANGED vars
  BY <1>2, Unseen DEF vars, sessionVars, workerVars, threadVars, Holder, Stage, Alive
<1>3. CASE Next
  BY <1>1, <1>3, InvokeSeen, CheckAttachedSeen, CheckAliveSeen, CheckGoneSeen, AcquireSeen, EnsureSeen, SpawnSeen,
     WaitingSeen, ReleaseSeen, DetachSeen, TerminateSeen, WorkerSeen
  DEF Next, Step, Close, Start, Terminate
<1> QED
  BY <1>2, <1>3

\* SandboxSession implements SandboxView (manager.py:158, 192, 204, 274, 280): for any
\* number of threads and calls, and whatever crashes, times out or is terminated on
\* the way, those who share the session see it in one of the few states PythonService
\* knows, changed one step at a time.  A worker appears only in a call that has the
\* request lock and has found none or is a reset, an answer gives the lock back, and
\* a termination detaches, at one instant, whatever worker there is.
THEOREM SeenAsPromised == Spec => ImplementsView
<1>1. Init => View!Init
  BY InitSeen
<1>2. IInv /\ [Next]_vars => [View!Next]_View!vars
  BY NextSeen DEF ViewStep
<1> QED
  BY <1>1, <1>2, Inductive, PTL DEF Spec, ImplementsView, View!Spec

=============================================================================
