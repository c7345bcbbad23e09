------------------------ MODULE PythonServiceProofs ------------------------
(***************************************************************************)
(* Proofs about PythonService for any set of threads and of ids and any    *)
(* number of calls.                                                        *)
(***************************************************************************)
EXTENDS PythonService, TLAPS

-----------------------------------------------------------------------------
(* The parts of the inductive invariant.                                   *)

\* The lock says who is in a with-block of _lock.
LockInv ==
    \A t \in Threads : pc[t] \in {"locked", "listing", "copied"} => lock = t

\* What a thread has copied under the lock is what is registered.
CopyInv ==
    \A t \in Threads :
        /\ pc[t] \in {"idle", "acquire", "locked", "copied"} => answer[t] = {}
        /\ pc[t] = "listing" => answer[t] \cup todo[t] = sessions
        /\ pc[t] = "copied" => todo[t] = sessions

\* The id of a session that is being created is nobody else's.
Starting == {"enter", "starting", "await"}
Creating(t) == op[t] = "create" /\ pc[t] \in Starting \cup {"acquire", "locked"}
CreateInv ==
    \A t \in Threads :
        /\ Creating(t) =>
              /\ answer[t] = {}
              /\ arg[t] \in issued
              /\ arg[t] \notin sessions
              /\ arg[t] \notin removed
              /\ \A u \in Threads : Creating(u) /\ arg[u] = arg[t] => u = t
        /\ pc[t] \in View!Inside => op[t] \in Requests \cup View!Closers \cup {"create"}

\* Only a thread that closes sessions has some left to close.
TodoInv ==
    \A t \in Threads :
        /\ todo[t] \subseteq issued
        /\ pc[t] = "closing" => op[t] \in View!Closers
        /\ pc[t] = "terminate" => op[t] # "create"
        /\ todo[t] # {} => \/ pc[t] \in {"listing", "copied"}
                           \/ pc[t] \in View!Inside /\ op[t] \in View!Closers

\* A thread that is about to start a worker for a request does so for a
\* registered session, unless it was overtaken.
EnterInv ==
    \A t \in Threads :
        pc[t] \in {"enter", "starting"} /\ op[t] \in Requests =>
            arg[t] \in sessions \cup forgotten

\* A thread is yet to terminate the worker of session i.
Closing(t, i) ==
    /\ op[t] \in View!Closers
    /\ pc[t] \in View!Inside
    /\ \/ i \in todo[t]
       \/ pc[t] # "closing" /\ i = arg[t]

\* Every live worker is somebody's to use or to close.
WorkerInv ==
    \A i \in Ids : worker[i] =>
        \/ i \in sessions \cup forgotten
        \/ \E t \in Threads : Creating(t) /\ arg[t] = i
        \/ \E t \in Threads : Closing(t, i)

IInv == TypeOK /\ LockInv /\ CopyInv /\ CreateInv /\ TodoInv /\ EnterInv /\ WorkerInv

-----------------------------------------------------------------------------
(* Every action keeps the invariant.                                       *)

LEMMA AcquireStep ==
    ASSUME IInv, NEW t \in Threads, Acquire(t)
    PROVE  IInv'
<1> USE ThreadAssumption DEF IInv, TypeOK, Acquire, registryVars, sandboxVars,
                             threadVars, Goto
<1>1. TypeOK'
  BY DEF OwnSteps, View!Inside, Methods, Requests
<1>2. LockInv'
  BY DEF LockInv
<1>3. CopyInv'
  BY DEF LockInv, CopyInv
<1>4. CreateInv'
  BY DEF LockInv, CreateInv, Creating, Starting, View!Inside, View!Closers, Requests
<1>5. TodoInv'
  BY DEF TodoInv, View!Inside, View!Closers
<1>6. EnterInv'
  BY DEF EnterInv, Requests, View!Closers
<1>7. WorkerInv'
  BY DEF LockInv, CopyInv, CreateInv, TodoInv, EnterInv, WorkerInv, Creating, Closing,
         View!Inside, View!Closers, Starting, Requests
<1> QED
  BY <1>1, <1>2, <1>3, <1>4, <1>5, <1>6, <1>7 DEF IInv

LEMMA RegisterStep ==
    ASSUME IInv, NEW t \in Threads, Register(t)
    PROVE  IInv'
<1> USE ThreadAssumption DEF IInv, TypeOK, Register, Leave, registryVars, sandboxVars,
                             threadVars, Goto
<1>1. TypeOK'
  BY DEF OwnSteps, View!Inside, Methods, Requests, CreateInv, Creating, Starting,
         View!Closers
<1>2. LockInv'
  BY DEF LockInv
<1>3. CopyInv'
  BY DEF LockInv, CopyInv
<1>4. CreateInv'
  BY DEF LockInv, CreateInv, Creating, Starting, View!Inside, View!Closers, Requests
<1>5. TodoInv'
  BY DEF TodoInv, View!Inside, View!Closers
<1>6. EnterInv'
  BY DEF EnterInv, Requests, View!Closers
<1>7. WorkerInv'
  BY DEF LockInv, CopyInv, CreateInv, TodoInv, EnterInv, WorkerInv, Creating, Closing,
         View!Inside, View!Closers, Starting, Requests
<1> QED
  BY <1>1, <1>2, <1>3, <1>4, <1>5, <1>6, <1>7 DEF IInv

LEMMA FindStep ==
    ASSUME IInv, NEW t \in Threads, Find(t)
    PROVE  IInv'
<1> USE ThreadAssumption DEF IInv, TypeOK, Requests, Find, Leave, Found, Requests,
                             registryVars, sandboxVars, threadVars, Goto
<1>1. TypeOK'
  BY DEF OwnSteps, View!Inside, Methods
<1>2. LockInv'
  BY DEF LockInv
<1>3. CopyInv'
  BY DEF LockInv, CopyInv
<1>4. CreateInv'
  BY DEF LockInv, CreateInv, Creating, Starting, View!Inside, View!Closers
<1>5. TodoInv'
  BY DEF TodoInv, View!Inside, View!Closers
<1>6. EnterInv'
  BY DEF EnterInv, View!Closers
<1>7. WorkerInv'
  BY DEF LockInv, CopyInv, CreateInv, TodoInv, EnterInv, WorkerInv, Creating, Closing,
         View!Inside, View!Closers, Starting
<1> QED
  BY <1>1, <1>2, <1>3, <1>4, <1>5, <1>6, <1>7 DEF IInv

LEMMA PopStep ==
    ASSUME IInv, NEW t \in Threads, Pop(t)
    PROVE  IInv'
<1> USE ThreadAssumption DEF IInv, TypeOK, Pop, Leave, Found, AboutToEnter,
                             registryVars, sandboxVars, threadVars, Goto
<1>1. TypeOK'
  BY DEF OwnSteps, View!Inside, Methods, Requests
<1>2. LockInv'
  BY DEF LockInv
<1>3. CopyInv'
  BY DEF LockInv, CopyInv
<1>4. CreateInv'
  BY DEF LockInv, CreateInv, Creating, Starting, View!Inside, View!Closers, Requests
<1>5. TodoInv'
  BY DEF TodoInv, View!Inside, View!Closers
<1>6. EnterInv'
  BY DEF EnterInv, Requests, View!Closers
<1>7. WorkerInv'
  BY DEF LockInv, CopyInv, CreateInv, TodoInv, EnterInv, WorkerInv, Creating, Closing,
         View!Inside, View!Closers, Starting, Requests
<1> QED
  BY <1>1, <1>2, <1>3, <1>4, <1>5, <1>6, <1>7 DEF IInv

LEMMA ListStep ==
    ASSUME IInv, NEW t \in Threads, List(t)
    PROVE  IInv'
<1> USE ThreadAssumption DEF IInv, TypeOK, List, registryVars, sandboxVars, threadVars,
                             Goto
<1>1. TypeOK'
  BY DEF OwnSteps, View!Inside, Methods, Requests
<1>2. LockInv'
  BY DEF LockInv
<1>3. CopyInv'
  BY DEF LockInv, CopyInv
<1>4. CreateInv'
  BY DEF LockInv, CreateInv, Creating, Starting, View!Inside, View!Closers, Requests
<1>5. TodoInv'
  BY DEF TodoInv, View!Inside, View!Closers
<1>6. EnterInv'
  BY DEF EnterInv, Requests, View!Closers
<1>7. WorkerInv'
  BY DEF LockInv, CopyInv, CreateInv, TodoInv, EnterInv, WorkerInv, Creating, Closing,
         View!Inside, View!Closers, Starting, Requests
<1> QED
  BY <1>1, <1>2, <1>3, <1>4, <1>5, <1>6, <1>7 DEF IInv

LEMMA ListedStep ==
    ASSUME IInv, NEW t \in Threads, Listed(t)
    PROVE  IInv'
<1> USE ThreadAssumption DEF IInv, TypeOK, Listed, Leave, registryVars, sandboxVars,
                             threadVars, Goto
<1>1. TypeOK'
  BY DEF OwnSteps, View!Inside, Methods, Requests
<1>2. LockInv'
  BY DEF LockInv
<1>3. CopyInv'
  BY DEF LockInv, CopyInv
<1>4. CreateInv'
  BY DEF LockInv, CreateInv, Creating, Starting, View!Inside, View!Closers, Requests
<1>5. TodoInv'
  BY DEF TodoInv, View!Inside, View!Closers
<1>6. EnterInv'
  BY DEF EnterInv, Requests, View!Closers
<1>7. WorkerInv'
  BY DEF LockInv, CopyInv, CreateInv, TodoInv, EnterInv, WorkerInv, Creating, Closing,
         View!Inside, View!Closers, Starting, Requests
<1> QED
  BY <1>1, <1>2, <1>3, <1>4, <1>5, <1>6, <1>7 DEF IInv

LEMMA CopyStep ==
    ASSUME IInv, NEW t \in Threads, Copy(t)
    PROVE  IInv'
<1> USE ThreadAssumption DEF IInv, TypeOK, Copy, registryVars, sandboxVars, threadVars,
                             Goto
<1>1. TypeOK'
  BY DEF OwnSteps, View!Inside, Methods, Requests
<1>2. LockInv'
  BY DEF LockInv
<1>3. CopyInv'
  BY DEF LockInv, CopyInv
<1>4. CreateInv'
  BY DEF LockInv, CreateInv, Creating, Starting, View!Inside, View!Closers, Requests
<1>5. TodoInv'
  BY DEF TodoInv, View!Inside, View!Closers
<1>6. EnterInv'
  BY DEF EnterInv, Requests, View!Closers
<1>7. WorkerInv'
  BY DEF LockInv, CopyInv, CreateInv, TodoInv, EnterInv, WorkerInv, Creating, Closing,
         View!Inside, View!Closers, Starting, Requests
<1> QED
  BY <1>1, <1>2, <1>3, <1>4, <1>5, <1>6, <1>7 DEF IInv

LEMMA ClearStep ==
    ASSUME IInv, NEW t \in Threads, Clear(t)
    PROVE  IInv'
<1> USE ThreadAssumption DEF IInv, TypeOK, Clear, Leave, AboutToEnter, registryVars,
                             sandboxVars, threadVars, Goto
<1>1. TypeOK'
  BY DEF OwnSteps, View!Inside, Methods, Requests, CopyInv
<1>2. LockInv'
  BY DEF LockInv
<1>3. CopyInv'
  BY DEF LockInv, CopyInv
<1>4. CreateInv'
  BY DEF LockInv, CreateInv, Creating, Starting, View!Inside, View!Closers, Requests,
         CopyInv
<1>5. TodoInv'
  BY DEF TodoInv, View!Inside, View!Closers, CopyInv
<1>6. EnterInv'
  BY DEF EnterInv, CopyInv
<1>7. WorkerInv'
  BY DEF LockInv, CopyInv, CreateInv, TodoInv, EnterInv, WorkerInv, Creating, Closing,
         View!Inside, View!Closers, Starting, Requests
<1> QED
  BY <1>1, <1>2, <1>3, <1>4, <1>5, <1>6, <1>7 DEF IInv

LEMMA EnterStep ==
    ASSUME IInv, NEW t \in Threads, Enter(t)
    PROVE  IInv'
<1> USE ThreadAssumption DEF IInv, TypeOK, Enter, View!Enter, View!Goto, registryVars
<1>1. TypeOK'
  BY DEF OwnSteps, View!Inside, Methods, Requests
<1>2. LockInv'
  BY DEF LockInv
<1>3. CopyInv'
  BY DEF LockInv, CopyInv
<1>4. CreateInv'
  BY DEF LockInv, CreateInv, Creating, Starting, View!Inside, View!Closers, Requests
<1>5. TodoInv'
  BY DEF TodoInv, View!Inside, View!Closers
<1>6. EnterInv'
  BY DEF EnterInv, Requests, View!Closers
<1>7. WorkerInv'
  BY DEF LockInv, CopyInv, CreateInv, TodoInv, EnterInv, WorkerInv, Creating, Closing,
         View!Inside, View!Closers, Starting, Requests
<1> QED
  BY <1>1, <1>2, <1>3, <1>4, <1>5, <1>6, <1>7 DEF IInv

LEMMA SpawnStep ==
    ASSUME IInv, NEW t \in Threads, Spawn(t)
    PROVE  IInv'
<1> USE ThreadAssumption DEF IInv, TypeOK, Spawn, View!Spawn, View!Goto, registryVars
<1>1. TypeOK'
  BY DEF OwnSteps, View!Inside, Methods, Requests
<1>2. LockInv'
  BY DEF LockInv
<1>3. CopyInv'
  BY DEF LockInv, CopyInv
<1>4. CreateInv'
  BY DEF LockInv, CreateInv, Creating, Starting, View!Inside, View!Closers, Requests
<1>5. TodoInv'
  BY DEF TodoInv, View!Inside, View!Closers
<1>6. EnterInv'
  BY DEF EnterInv, Requests, View!Closers
<1>7. WorkerInv'
  BY DEF LockInv, CopyInv, CreateInv, TodoInv, EnterInv, WorkerInv, Creating, Closing,
         View!Inside, View!Closers, Starting, Requests
<1> QED
  BY <1>1, <1>2, <1>3, <1>4, <1>5, <1>6, <1>7 DEF IInv

LEMMA AnswerStep ==
    ASSUME IInv, NEW t \in Threads, Answer(t)
    PROVE  IInv'
<1> USE ThreadAssumption DEF IInv, TypeOK, OwnSteps, Answer, View!Answer, View!Goto,
                             View!AfterAnswer, View!Closers, OwnSteps, registryVars
<1>1. TypeOK'
  BY DEF View!Inside, Methods, Requests, CreateInv, Creating, Starting
<1>2. LockInv'
  BY DEF LockInv
<1>3. CopyInv'
  BY DEF LockInv, CopyInv, CreateInv, Creating, Starting
<1>4. CreateInv'
  BY DEF LockInv, CreateInv, Creating, Starting, View!Inside, Requests
<1>5. TodoInv'
  BY DEF TodoInv, View!Inside
<1>6. EnterInv'
  BY DEF EnterInv, Requests
<1>7. WorkerInv'
  BY DEF LockInv, CopyInv, CreateInv, TodoInv, EnterInv, WorkerInv, Creating, Closing,
         View!Inside, Starting, Requests
<1> QED
  BY <1>1, <1>2, <1>3, <1>4, <1>5, <1>6, <1>7 DEF IInv

LEMMA TerminateStep ==
    ASSUME IInv, NEW t \in Threads, Terminate(t)
    PROVE  IInv'
<1> USE ThreadAssumption DEF IInv, TypeOK, Terminate, View!Terminate, View!Goto,
                             AfterClose, View!Closers, registryVars
<1>1. TypeOK'
  BY DEF OwnSteps, View!Inside, Methods, Requests
<1>2. LockInv'
  BY DEF LockInv
<1>3. CopyInv'
  BY DEF LockInv, CopyInv
<1>4. CreateInv'
  BY DEF LockInv, CreateInv, Creating, Starting, View!Inside, Requests
<1>5. TodoInv'
  BY DEF TodoInv, View!Inside
<1>6. EnterInv'
  BY DEF EnterInv, Requests
<1>7. WorkerInv'
  BY DEF LockInv, CopyInv, CreateInv, TodoInv, EnterInv, WorkerInv, Creating, Closing,
         View!Inside, Starting, Requests
<1> QED
  BY <1>1, <1>2, <1>3, <1>4, <1>5, <1>6, <1>7 DEF IInv

LEMMA TerminateFailsStep ==
    ASSUME IInv, NEW t \in Threads, TerminateFails(t)
    PROVE  IInv'
<1> USE ThreadAssumption DEF IInv, TypeOK, TerminateFails, View!Terminate, View!Goto,
                             registryVars
<1>1. TypeOK'
  BY DEF OwnSteps, View!Inside, Methods, Requests, TodoInv
<1>2. LockInv'
  BY DEF LockInv
<1>3. CopyInv'
  BY DEF LockInv, CopyInv
<1>4. CreateInv'
  BY DEF LockInv, CreateInv, Creating, Starting, View!Inside, View!Closers, Requests
<1>5. TodoInv'
  BY DEF TodoInv, View!Inside, View!Closers
<1>6. EnterInv'
  BY DEF EnterInv, Requests, View!Closers
<1>7. WorkerInv'
  BY DEF LockInv, CopyInv, CreateInv, TodoInv, EnterInv, WorkerInv, Creating, Closing,
         View!Inside, View!Closers, Starting, Requests
<1> QED
  BY <1>1, <1>2, <1>3, <1>4, <1>5, <1>6, <1>7 DEF IInv

LEMMA ReturnStep ==
    ASSUME IInv, NEW t \in Threads, Return(t)
    PROVE  IInv'
<1> USE ThreadAssumption DEF IInv, TypeOK, Return, registryVars, sandboxVars,
                             threadVars, Goto
<1>1. TypeOK'
  BY DEF OwnSteps, View!Inside, Methods, Requests
<1>2. LockInv'
  BY DEF LockInv
<1>3. CopyInv'
  BY DEF LockInv, CopyInv
<1>4. CreateInv'
  BY DEF LockInv, CreateInv, Creating, Starting, View!Inside, View!Closers, Requests
<1>5. TodoInv'
  BY DEF TodoInv, View!Inside, View!Closers
<1>6. EnterInv'
  BY DEF EnterInv, Requests, View!Closers
<1>7. WorkerInv'
  BY DEF LockInv, CopyInv, CreateInv, TodoInv, EnterInv, WorkerInv, Creating, Closing,
         View!Inside, View!Closers, Starting, Requests
<1> QED
  BY <1>1, <1>2, <1>3, <1>4, <1>5, <1>6, <1>7 DEF IInv

LEMMA InvokeStep ==
    ASSUME IInv, NEW t \in Threads, NEW o \in Methods, NEW i \in Ids, Invoke(t, o, i)
    PROVE  IInv'
<1> USE ThreadAssumption DEF IInv, TypeOK, Invoke, registryVars, sandboxVars,
                             threadVars, Goto
<1>1. TypeOK'
  BY DEF OwnSteps, View!Inside, Methods, Requests
<1>2. LockInv'
  BY DEF LockInv
<1>3. CopyInv'
  BY DEF LockInv, CopyInv
<1>4. CreateInv'
  BY DEF LockInv, CopyInv, CreateInv, Creating, Starting, View!Inside, View!Closers,
         Requests
<1>5. TodoInv'
  BY DEF TodoInv, View!Inside, View!Closers
<1>6. EnterInv'
  BY DEF EnterInv, Requests, View!Closers
<1>7. WorkerInv'
  BY DEF LockInv, CopyInv, CreateInv, TodoInv, EnterInv, WorkerInv, Creating, Closing,
         View!Inside, View!Closers, Starting, Requests
<1> QED
  BY <1>1, <1>2, <1>3, <1>4, <1>5, <1>6, <1>7 DEF IInv

LEMMA ListOneStep ==
    ASSUME IInv, NEW t \in Threads, NEW i \in Ids, ListOne(t, i)
    PROVE  IInv'
<1> USE ThreadAssumption DEF IInv, TypeOK, ListOne, registryVars, sandboxVars,
                             threadVars, Goto
<1>1. TypeOK'
  BY DEF OwnSteps, View!Inside, Methods, Requests
<1>2. LockInv'
  BY DEF LockInv
<1>3. CopyInv'
  BY DEF LockInv, CopyInv
<1>4. CreateInv'
  BY DEF LockInv, CreateInv, Creating, Starting, View!Inside, View!Closers, Requests
<1>5. TodoInv'
  BY DEF TodoInv, View!Inside, View!Closers
<1>6. EnterInv'
  BY DEF EnterInv, Requests, View!Closers
<1>7. WorkerInv'
  BY DEF LockInv, CopyInv, CreateInv, TodoInv, EnterInv, WorkerInv, Creating, Closing,
         View!Inside, View!Closers, Starting, Requests
<1> QED
  BY <1>1, <1>2, <1>3, <1>4, <1>5, <1>6, <1>7 DEF IInv

LEMMA CloseNextStep ==
    ASSUME IInv, NEW t \in Threads, NEW i \in Ids, CloseNext(t, i)
    PROVE  IInv'
<1> USE ThreadAssumption DEF IInv, TypeOK, CloseNext, View!Close, View!Goto,
                             registryVars
<1>1. TypeOK'
  BY DEF OwnSteps, View!Inside, Methods, Requests
<1>2. LockInv'
  BY DEF LockInv
<1>3. CopyInv'
  BY DEF LockInv, CopyInv
<1>4. CreateInv'
  BY DEF LockInv, TodoInv, CreateInv, Creating, Starting, View!Inside, View!Closers,
         Requests
<1>5. TodoInv'
  BY DEF TodoInv, View!Inside, View!Closers
<1>6. EnterInv'
  BY DEF TodoInv, EnterInv, Requests, View!Closers
<1>7. WorkerInv'
  BY DEF LockInv, CopyInv, CreateInv, TodoInv, EnterInv, WorkerInv, Creating, Closing,
         View!Inside, View!Closers, Starting, Requests
<1> QED
  BY <1>1, <1>2, <1>3, <1>4, <1>5, <1>6, <1>7 DEF IInv

LEMMA CloseFailsStep ==
    ASSUME IInv, NEW t \in Threads, NEW i \in Ids, CloseFails(t, i)
    PROVE  IInv'
<1> USE ThreadAssumption DEF IInv, TypeOK, CloseFails, View!CloseFails, View!Goto,
                             registryVars
<1>1. TypeOK'
  BY DEF OwnSteps, View!Inside, Methods, Requests, TodoInv
<1>2. LockInv'
  BY DEF LockInv
<1>3. CopyInv'
  BY DEF LockInv, CopyInv
<1>4. CreateInv'
  BY DEF LockInv, TodoInv, CreateInv, Creating, Starting, View!Inside, View!Closers,
         Requests
<1>5. TodoInv'
  BY DEF TodoInv, View!Inside, View!Closers
<1>6. EnterInv'
  BY DEF TodoInv, EnterInv, Requests, View!Closers
<1>7. WorkerInv'
  BY DEF LockInv, CopyInv, CreateInv, TodoInv, EnterInv, WorkerInv, Creating, Closing,
         View!Inside, View!Closers, Starting, Requests
<1> QED
  BY <1>1, <1>2, <1>3, <1>4, <1>5, <1>6, <1>7 DEF IInv

LEMMA CrashStep ==
    ASSUME IInv, NEW i \in Ids, Crash(i)
    PROVE  IInv'
<1> USE ThreadAssumption DEF IInv, TypeOK, Crash, View!Crash, registryVars
<1>1. TypeOK'
  BY DEF OwnSteps, View!Inside, Methods, Requests
<1>2. LockInv'
  BY DEF LockInv
<1>3. CopyInv'
  BY DEF LockInv, CopyInv
<1>4. CreateInv'
  BY DEF LockInv, CreateInv, Creating, Starting, View!Inside, View!Closers, Requests
<1>5. TodoInv'
  BY DEF TodoInv, View!Inside, View!Closers
<1>6. EnterInv'
  BY DEF EnterInv, Requests, View!Closers
<1>7. WorkerInv'
  BY DEF LockInv, CopyInv, CreateInv, TodoInv, EnterInv, WorkerInv, Creating, Closing,
         View!Inside, View!Closers, Starting, Requests
<1> QED
  BY <1>1, <1>2, <1>3, <1>4, <1>5, <1>6, <1>7 DEF IInv

-----------------------------------------------------------------------------
(* The theorems.                                                           *)

LEMMA InitInv == Init => IInv
<1> SUFFICES ASSUME Init PROVE IInv
  OBVIOUS
<1>1. TypeOK
  BY DEF Init, TypeOK, OwnSteps, Methods, Requests
<1>2. LockInv /\ CopyInv /\ CreateInv /\ TodoInv /\ EnterInv /\ WorkerInv
  BY DEF Init, LockInv, CopyInv, CreateInv, Creating, Starting, TodoInv, EnterInv, WorkerInv,
         View!Inside
<1> QED
  BY <1>1, <1>2 DEF IInv

LEMMA StutterInv == IInv /\ UNCHANGED vars => IInv'
<1> SUFFICES ASSUME IInv, UNCHANGED vars PROVE IInv'
  OBVIOUS
<1>1. TypeOK' /\ LockInv' /\ CopyInv'
  BY DEF IInv, TypeOK, LockInv, CopyInv, vars, registryVars, sandboxVars, threadVars
<1>2. CreateInv' /\ TodoInv' /\ EnterInv'
  BY DEF IInv, CreateInv, Creating, Starting, View!Inside, View!Closers, Requests, TodoInv, EnterInv, vars, registryVars,
         sandboxVars, threadVars
<1>3. WorkerInv'
  BY DEF IInv, WorkerInv, Creating, Closing, vars, registryVars, sandboxVars, threadVars
<1> QED
  BY <1>1, <1>2, <1>3 DEF IInv

LEMMA NextInv == IInv /\ [Next]_vars => IInv'
<1> SUFFICES ASSUME IInv, [Next]_vars PROVE IInv'
  OBVIOUS
<1>1. ASSUME NEW t \in Threads, NEW o \in Methods, NEW i \in Ids, Invoke(t, o, i)
      PROVE  IInv'
  BY <1>1, InvokeStep
<1>2. ASSUME NEW t \in Threads, RegistryStep(t) PROVE IInv'
  BY <1>2, AcquireStep, RegisterStep, FindStep, PopStep, ListStep, ListOneStep,
     ListedStep, CopyStep, ClearStep DEF RegistryStep
<1>3. ASSUME NEW t \in Threads, SandboxStep(t) PROVE IInv'
  BY <1>3, EnterStep, SpawnStep, AnswerStep, CloseNextStep, CloseFailsStep,
     TerminateStep, TerminateFailsStep DEF SandboxStep
<1>4. ASSUME NEW t \in Threads, Return(t) PROVE IInv'
  BY <1>4, ReturnStep
<1>5. ASSUME NEW i \in Ids, Crash(i) PROVE IInv'
  BY <1>5, CrashStep
<1>6. CASE UNCHANGED vars
  BY <1>6, StutterInv
<1> QED
  BY <1>1, <1>2, <1>3, <1>4, <1>5, <1>6 DEF Next

LEMMA Invariant == Spec => []IInv
<1>1. Init => IInv
  BY InitInv
<1>2. IInv /\ [Next]_vars => IInv'
  BY NextInv
<1> QED
  BY <1>1, <1>2, PTL DEF Spec

\* The registry holds sessions that were created and not removed, whatever the
\* threads do (service.py:59, 101, 110).
THEOREM TypeCorrect == Spec => []TypeOK
<1>1. IInv => TypeOK
  BY DEF IInv
<1> QED
  BY <1>1, Invariant, PTL

\* When no call is under way, no worker is left without a registered session,
\* other than in the three cases of NoWorkerIsForgotten (service.py:100).
THEOREM WorkersAreClosed == Spec => []NoWorkerIsForgotten
<1>1. IInv => NoWorkerIsForgotten
  BY DEF IInv, NoWorkerIsForgotten, WorkerInv, Creating, Starting, Closing, View!Inside
<1> QED
  BY <1>1, Invariant, PTL

\* A step that decides no call, and does not begin or end one, is a stutter of
\* the abstract registry.
LEMMA Undisturbed ==
    ASSUME UNCHANGED <<sessions, removed>>,
           \A t \in Threads : RequestOf(t)' = RequestOf(t) /\ AnswerOf(t)' = AnswerOf(t)
    PROVE  UNCHANGED Registry!vars
BY DEF Registry!vars

\* A step of the thread t alone.
LEMMA OnlyOne ==
    ASSUME NEW t \in Threads, TypeOK,
           \A u \in Threads \ {t} :
              pc'[u] = pc[u] /\ op'[u] = op[u] /\ answer'[u] = answer[u]
    PROVE  /\ [u \in Threads |-> RequestOf(u)]' =
                [[u \in Threads |-> RequestOf(u)] EXCEPT ![t] = RequestOf(t)']
           /\ [u \in Threads |-> AnswerOf(u)]' =
                [[u \in Threads |-> AnswerOf(u)] EXCEPT ![t] = AnswerOf(t)']
BY DEF RequestOf, AnswerOf, Pending

LEMMA Simulates == IInv /\ [Next]_vars => [Registry!Next]_Registry!vars
<1> SUFFICES ASSUME IInv, [Next]_vars PROVE [Registry!Next]_Registry!vars
  OBVIOUS
<1> USE DEF registryVars, sandboxVars, threadVars, Goto
<1> DEFINE request == [u \in Threads |-> RequestOf(u)]
           answers == [u \in Threads |-> AnswerOf(u)]
<1>1. ASSUME NEW t \in Threads, NEW o \in Methods, NEW i \in Ids, Invoke(t, o, i)
      PROVE  Registry!Call(t)
  <2>1. /\ RequestOf(t) = "none" /\ RequestOf(t)' = "pending"
        /\ AnswerOf(t)' = AnswerOf(t)
    BY <1>1 DEF IInv, TypeOK, CopyInv, Invoke, RequestOf, AnswerOf, Pending, Undecided, View!Inside
  <2>2. request' = [request EXCEPT ![t] = "pending"] /\ answers' = answers
    BY <1>1, <2>1, OnlyOne DEF IInv, TypeOK, Invoke
  <2> QED
    BY <1>1, <2>1, <2>2 DEF Invoke, Registry!Call
<1>2. ASSUME NEW t \in Threads, NEW ids, RequestOf(t) = "pending",
             RequestOf(t)' = "decided", AnswerOf(t)' = ids,
             \A u \in Threads \ {t} :
                pc'[u] = pc[u] /\ op'[u] = op[u] /\ answer'[u] = answer[u]
      PROVE  Registry!Decide(t, ids)
  <2>1. /\ request' = [request EXCEPT ![t] = "decided"]
        /\ answers' = [answers EXCEPT ![t] = ids]
    BY <1>2, OnlyOne DEF IInv
  <2> QED
    BY <1>2, <2>1 DEF Registry!Decide
<1>3. ASSUME NEW t \in Threads, RegistryStep(t)
      PROVE  Registry!Next \/ UNCHANGED Registry!vars
  <2>1. CASE Acquire(t) \/ List(t) \/ Copy(t) \/ \E i \in Ids : ListOne(t, i)
    <3>1. UNCHANGED <<sessions, removed>>
      BY <2>1 DEF Acquire, List, Copy, ListOne
    <3>2. ASSUME NEW u \in Threads
          PROVE  RequestOf(u)' = RequestOf(u) /\ AnswerOf(u)' = AnswerOf(u)
      BY <2>1 DEF IInv, TypeOK, Acquire, List, Copy, ListOne, RequestOf, AnswerOf,
                  Pending, Undecided, View!Inside
    <3> QED
      BY <3>1, <3>2, Undisturbed
  <2>2. CASE Register(t)
    <3>1. Registry!Decide(t, {arg[t]})
      <4>1. /\ RequestOf(t) = "pending" /\ RequestOf(t)' = "decided"
            /\ AnswerOf(t)' = {arg[t]}
        BY <2>2 DEF IInv, TypeOK, Register, Leave, RequestOf, AnswerOf, Pending, Undecided, View!Inside
      <4>2. \A u \in Threads \ {t} : pc'[u] = pc[u] /\ op'[u] = op[u] /\ answer'[u] = answer[u]
        BY <2>2 DEF IInv, TypeOK, Register, Leave
      <4> QED
        BY <4>1, <4>2, <1>2
    <3>2. arg[t] \in Ids \ (sessions \cup removed)
      BY <2>2 DEF IInv, TypeOK, CreateInv, Creating, Starting, View!Inside, View!Closers, Requests, Register, Leave
    <3>3. Registry!Create(t)
      BY <2>2, <3>1, <3>2 DEF Register, Registry!Create
    <3> QED
      BY <3>3 DEF Registry!Next
  <2>3. CASE Find(t)
    <3>1. Registry!Decide(t, Found(t))
      <4>1. /\ RequestOf(t) = "pending" /\ RequestOf(t)' = "decided"
            /\ AnswerOf(t)' = Found(t)
        BY <2>3 DEF IInv, TypeOK, Find, Leave, Requests, RequestOf, AnswerOf, Pending, Undecided, View!Inside
      <4>2. \A u \in Threads \ {t} : pc'[u] = pc[u] /\ op'[u] = op[u] /\ answer'[u] = answer[u]
        BY <2>3 DEF IInv, TypeOK, Find, Leave
      <4> QED
        BY <4>1, <4>2, <1>2
    <3>2. Registry!Find(t)
      BY <2>3, <3>1 DEF IInv, TypeOK, Find, Found, Registry!Find
    <3> QED
      BY <3>2 DEF Registry!Next
  <2>4. CASE Pop(t)
    <3>1. Registry!Decide(t, Found(t))
      <4>1. /\ RequestOf(t) = "pending" /\ RequestOf(t)' = "decided"
            /\ AnswerOf(t)' = Found(t)
        BY <2>4 DEF IInv, TypeOK, Pop, Leave, RequestOf, AnswerOf, Pending, Undecided, View!Inside
      <4>2. \A u \in Threads \ {t} : pc'[u] = pc[u] /\ op'[u] = op[u] /\ answer'[u] = answer[u]
        BY <2>4 DEF IInv, TypeOK, Pop, Leave
      <4> QED
        BY <4>1, <4>2, <1>2
    <3>2. Registry!Remove(t, {arg[t]} \cap sessions)
      BY <2>4, <3>1 DEF Pop, Found, Registry!Remove
    <3>3. Registry!Close(t)
      BY <3>2 DEF IInv, TypeOK, Registry!Close
    <3> QED
      BY <3>3 DEF Registry!Next
  <2>5. CASE Listed(t)
    <3>1. answer[t] = sessions
      BY <2>5 DEF IInv, TypeOK, CopyInv, Listed, Leave
    <3>2. Registry!Decide(t, sessions)
      <4>1. /\ RequestOf(t) = "pending" /\ RequestOf(t)' = "decided"
            /\ AnswerOf(t)' = sessions
        BY <2>5, <3>1 DEF IInv, TypeOK, Listed, Leave, RequestOf, AnswerOf, Pending, Undecided, View!Inside
      <4>2. \A u \in Threads \ {t} : pc'[u] = pc[u] /\ op'[u] = op[u] /\ answer'[u] = answer[u]
        BY <2>5 DEF IInv, TypeOK, Listed, Leave
      <4> QED
        BY <4>1, <4>2, <1>2
    <3>3. Registry!List(t)
      BY <2>5, <3>2 DEF Listed, Registry!List
    <3> QED
      BY <3>3 DEF Registry!Next
  <2>6. CASE Clear(t)
    <3>1. todo[t] = sessions
      BY <2>6 DEF IInv, TypeOK, CopyInv, Clear, Leave
    <3>2. Registry!Decide(t, sessions)
      <4>1. /\ RequestOf(t) = "pending" /\ RequestOf(t)' = "decided"
            /\ AnswerOf(t)' = sessions
        BY <2>6, <3>1 DEF IInv, TypeOK, Clear, Leave, RequestOf, AnswerOf, Pending, Undecided, View!Inside
      <4>2. \A u \in Threads \ {t} : pc'[u] = pc[u] /\ op'[u] = op[u] /\ answer'[u] = answer[u]
        BY <2>6 DEF IInv, TypeOK, Clear, Leave
      <4> QED
        BY <4>1, <4>2, <1>2
    <3>3. Registry!CloseAll(t)
      BY <2>6, <3>1, <3>2 DEF Clear, Registry!CloseAll, Registry!Remove
    <3> QED
      BY <3>3 DEF Registry!Next
  <2> QED
    BY <1>3, <2>1, <2>2, <2>3, <2>4, <2>5, <2>6 DEF RegistryStep
<1>4. ASSUME NEW t \in Threads, SandboxStep(t)
      PROVE  Registry!Next \/ UNCHANGED Registry!vars
  <2>1. /\ UNCHANGED <<sessions, removed, answer, op>>
        /\ \A u \in Threads \ {t} : pc'[u] = pc[u]
        /\ pc[t] \in View!Inside
    BY <1>4 DEF IInv, TypeOK, SandboxStep, Enter, Spawn, Answer, CloseNext, CloseFails,
                Terminate, TerminateFails, View!Enter, View!Spawn, View!Answer,
                View!Close, View!CloseFails, View!Terminate, View!Goto, View!Inside
  <2>2. CASE op[t] = "create" /\ pc'[t] = "return"
    <3>1. Creating(t)
      BY <1>4, <2>1, <2>2 DEF IInv, TodoInv, Creating, Starting, View!Inside, View!Closers
    <3>2. /\ RequestOf(t) = "pending" /\ RequestOf(t)' = "decided"
          /\ AnswerOf(t)' = {}
      BY <2>1, <2>2, <3>1 DEF IInv, CreateInv, RequestOf, AnswerOf, Pending, Undecided,
                              View!Inside
    <3>3. Registry!Fail(t)
      BY <1>2, <2>1, <3>2 DEF Registry!Fail
    <3> QED
      BY <3>3 DEF Registry!Next
  <2>3. CASE ~(op[t] = "create" /\ pc'[t] = "return")
    <3>1. pc'[t] # "idle" /\ (Pending(t) <=> Pending(t)')
      BY <1>4, <2>1, <2>3
      DEF IInv, TypeOK, TodoInv, SandboxStep, Enter, Spawn, Answer, CloseNext, CloseFails,
          Terminate, TerminateFails, AfterClose, View!Enter, View!Spawn, View!Answer,
          View!AfterAnswer, View!Close, View!CloseFails, View!Terminate, View!Goto,
          View!Inside, View!Closers, Pending, Undecided
    <3>2. ASSUME NEW u \in Threads
          PROVE  RequestOf(u)' = RequestOf(u) /\ AnswerOf(u)' = AnswerOf(u)
      BY <2>1, <3>1 DEF RequestOf, AnswerOf, Pending, View!Inside
    <3> QED
      BY <2>1, <3>2, Undisturbed
  <2> QED
    BY <2>2, <2>3
<1>5. ASSUME NEW t \in Threads, Return(t) PROVE Registry!Return(t)
  <2>1. /\ RequestOf(t) = "decided" /\ RequestOf(t)' = "none"
        /\ AnswerOf(t)' = {}
    BY <1>5 DEF IInv, TypeOK, Return, RequestOf, AnswerOf, Pending, Undecided, View!Inside
  <2>2. request' = [request EXCEPT ![t] = "none"] /\ answers' = [answers EXCEPT ![t] = {}]
    BY <1>5, <2>1, OnlyOne DEF IInv, TypeOK, Return
  <2> QED
    BY <1>5, <2>1, <2>2 DEF Return, Registry!Return
<1>6. ASSUME NEW i \in Ids, Crash(i) PROVE UNCHANGED Registry!vars
  BY <1>6, Undisturbed DEF Crash, View!Crash, RequestOf, AnswerOf, Pending, View!Inside
<1>7. CASE UNCHANGED vars
  BY <1>7, Undisturbed DEF vars, registryVars, sandboxVars, threadVars, RequestOf, AnswerOf, Pending
<1> QED
  BY <1>1, <1>3, <1>4, <1>5, <1>6, <1>7 DEF Next, Registry!Next

\* Each call of the service takes effect at one instant (service.py:31): the
\* service implements SessionRegistry.
THEOREM Atomic == Spec => AtomicRegistry
<1>1. Init => Registry!Init
  BY DEF Init, Registry!Init, RequestOf, AnswerOf, Pending, View!Inside
<1>2. IInv /\ [Next]_vars => [Registry!Next]_Registry!vars
  BY Simulates
<1> QED
  BY <1>1, <1>2, Invariant, PTL DEF Spec, AtomicRegistry, Registry!Spec

-----------------------------------------------------------------------------
(* The service calls its sandbox sessions as SandboxView lets callers do.  *)

\* What the service does by itself, and its calls of methods, is outside of sessions.
LEMMA OwnStep ==
    ASSUME IInv, NEW t \in Threads, RegistryStep(t) \/ Return(t)
    PROVE  View!Next \/ UNCHANGED View!vars
<1> USE DEF registryVars, sandboxVars, threadVars, Goto
<1>1. /\ UNCHANGED <<worker, busy, op, arg>>
      /\ op[t] \in Methods /\ arg[t] \in Ids
  BY DEF IInv, TypeOK, RegistryStep, Acquire, Register, Find, Pop, List, ListOne, Listed,
         Copy, Clear, Leave, Return
<1>2. CASE \E i \in Ids : ListOne(t, i)
  BY <1>1, <1>2 DEF ListOne, View!vars
<1>3. CASE ~\E i \in Ids : ListOne(t, i)
  <2>1. /\ pc[t] \in OwnSteps
        /\ \E to \in OwnSteps \cup View!Inside :
              /\ pc' = [pc EXCEPT ![t] = to]
              /\ to \in View!Inside =>
                    to = IF op[t] \in View!Closers THEN "closing" ELSE "enter"
    <3>1. CASE Acquire(t) \/ Register(t) \/ List(t) \/ Listed(t) \/ Copy(t) \/ Return(t)
      BY <3>1 DEF Acquire, Register, List, Listed, Copy, Return, Leave, OwnSteps, View!Inside
    <3>2. CASE Find(t)
      <4>1. /\ pc[t] = "locked" /\ op[t] \in Requests \cup {"get"}
            /\ \E to \in {"enter", "return"} : pc' = [pc EXCEPT ![t] = to]
        BY <3>2 DEF Find, Leave
      <4>2. op[t] \notin View!Closers
        BY <4>1 DEF Requests, View!Closers
      <4> QED
        BY <4>1, <4>2 DEF OwnSteps, View!Inside
    <3>3. CASE Pop(t) \/ Clear(t)
      BY <3>3 DEF Pop, Clear, Leave, OwnSteps, View!Inside, View!Closers
    <3> QED
      BY <1>3, <3>1, <3>2, <3>3 DEF RegistryStep
  <2>2. PICK to \in OwnSteps \cup View!Inside : View!Outside(t, to, op[t], arg[t])
    BY <1>1, <2>1 DEF IInv, TypeOK, View!Outside
  <2> QED
    BY <1>1, <2>2 DEF View!Next
<1> QED
  BY <1>2, <1>3

LEMMA StaysWithin == IInv /\ [Next]_vars => [View!Next]_View!vars
<1> SUFFICES ASSUME IInv, [Next]_vars PROVE View!Next \/ UNCHANGED View!vars
  OBVIOUS
<1>1. ASSUME NEW t \in Threads, NEW o \in Methods, NEW i \in Ids, Invoke(t, o, i)
      PROVE  View!Next
  <2> DEFINE to == IF o = "create" THEN "enter" ELSE "acquire"
  <2>1. to \in OwnSteps \cup View!Inside
    BY DEF OwnSteps, View!Inside
  <2>2. View!Outside(t, to, o, i)
    BY <1>1 DEF Invoke, Goto, sandboxVars, OwnSteps, View!Outside, View!Inside, View!Closers
  <2> QED
    BY <2>1, <2>2 DEF View!Next
<1>2. ASSUME NEW t \in Threads, SandboxStep(t) PROVE View!Next
  <2>1. CASE Enter(t) \/ Spawn(t)
    BY <2>1 DEF Enter, Spawn, View!Next
  <2>2. CASE Answer(t)
    BY <2>2 DEF Answer, OwnSteps, View!Next
  <2>3. CASE \E i \in Ids : CloseNext(t, i) \/ CloseFails(t, i)
    BY <2>3 DEF CloseNext, CloseFails, OwnSteps, View!Next
  <2>4. CASE Terminate(t) \/ TerminateFails(t)
    BY <2>4 DEF Terminate, TerminateFails, AfterClose, OwnSteps, View!Next
  <2> QED
    BY <1>2, <2>1, <2>2, <2>3, <2>4 DEF SandboxStep
<1>3. ASSUME NEW i \in Ids, Crash(i) PROVE View!Next
  BY <1>3 DEF Crash, View!Next
<1>4. CASE UNCHANGED vars
  BY <1>4 DEF vars, sandboxVars, threadVars, View!vars
<1> QED
  BY <1>1, <1>2, <1>3, <1>4, OwnStep DEF Next

\* The service does nothing with a session that SandboxView does not expect of those
\* who call it: this and SandboxViewProofs!SeenAsPromised are the two sides on which
\* the models of the service and of a session meet (service.py:73, 105).
THEOREM KeepsToTheView == Spec => View!Spec
<1>1. Init => View!Init
  BY DEF Init, View!Init, OwnSteps, Methods
<1>2. IInv /\ [Next]_vars => [View!Next]_View!vars
  BY StaysWithin
<1> QED
  BY <1>1, <1>2, Invariant, PTL DEF Spec, View!Spec

=============================================================================
