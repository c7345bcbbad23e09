---------------------------- MODULE PythonService ----------------------------
(***************************************************************************)
(* PythonExecutionService: a registry of sandbox sessions called by the    *)
(* threads on which the server runs its tools (asyncio.to_thread).         *)
(*                                                                         *)
(* The registry is read and changed under _lock.  The sandbox sessions are *)
(* created, used and closed outside of it, under a request lock each.      *)
(* Their steps are those of SandboxView, which SandboxSession implements.  *)
(***************************************************************************)
EXTENDS Naturals

CONSTANTS
    Threads,        \* the threads that call the service
    NoThread,       \* the holder of a free lock
    Ids,            \* the ids uuid4 generates
    MaxCalls        \* bound: how many calls are made

ASSUME ThreadAssumption == NoThread \notin Threads
ASSUME CallAssumption == MaxCalls \in Nat

VARIABLES
    lock,           \* _lock: its holder or NoThread
    sessions,       \* _sessions: the registered ids
    worker,         \* does a session have a live worker
    busy,           \* a session's _request_lock: its holder or NoThread
    pc,             \* where each thread is
    op,             \* the method it runs
    arg,            \* the session it works on
    todo,           \* the ids it has copied and not yet listed or closed
    answer,         \* the ids its call has found, listed or removed
    issued,         \* history: the ids generated
    removed,        \* history: the ids taken out of the registry
    forgotten,      \* history: the ids whose worker may outlive them, see below
    calls           \* how many calls have been made

registryVars == <<lock, sessions, removed>>
sandboxVars == <<worker, busy>>
threadVars == <<op, arg, todo, answer>>
vars == <<registryVars, sandboxVars, pc, threadVars, issued, forgotten, calls>>

Requests == {"execute", "send_variables", "reset"}
Methods == Requests \cup {"create", "get", "list", "close_session", "close"}
OwnSteps == {"idle", "acquire", "locked", "listing", "copied", "return"}

\* What the service sees of its sandbox sessions.
View == INSTANCE SandboxView WITH Elsewhere <- OwnSteps

Init ==
    /\ lock = NoThread
    /\ sessions = {}
    /\ worker = [i \in Ids |-> FALSE]
    /\ busy = [i \in Ids |-> NoThread]
    /\ pc = [t \in Threads |-> "idle"]
    /\ op = [t \in Threads |-> "list"]
    /\ arg \in [Threads -> Ids]
    /\ todo = [t \in Threads |-> {}]
    /\ answer = [t \in Threads |-> {}]
    /\ issued = {}
    /\ removed = {}
    /\ forgotten = {}
    /\ calls = 0

Goto(t, from, to) == pc[t] = from /\ pc' = [pc EXCEPT ![t] = to]

-----------------------------------------------------------------------------
\* Calls, and the steps under _lock.

\* create_session calls the constructor of SandboxSession before it takes the lock.
Invoke(t, o, i) ==
    /\ calls < MaxCalls
    /\ calls' = calls + 1
    /\ Goto(t, "idle", IF o = "create" THEN "enter" ELSE "acquire")
    /\ op' = [op EXCEPT ![t] = o]
    /\ arg' = [arg EXCEPT ![t] = i]
    /\ IF o = "create" THEN i \notin issued /\ issued' = issued \cup {i}
                       ELSE UNCHANGED issued
    /\ UNCHANGED <<registryVars, sandboxVars, todo, answer, forgotten>>

Acquire(t) ==
    /\ Goto(t, "acquire", "locked")
    /\ lock = NoThread
    /\ lock' = t
    /\ UNCHANGED <<sessions, removed, sandboxVars, threadVars, issued, forgotten, calls>>

\* A step of method o that ends the with-block.
Leave(t, from, to, o) ==
    /\ Goto(t, from, to)
    /\ op[t] = o
    /\ lock' = NoThread

Register(t) ==
    /\ Leave(t, "locked", "return", "create")
    /\ sessions' = sessions \cup {arg[t]}
    /\ answer' = [answer EXCEPT ![t] = {arg[t]}]
    /\ UNCHANGED <<removed, sandboxVars, op, arg, todo, issued, forgotten, calls>>

Found(t) == {arg[t]} \cap sessions

\* Variant: an unknown id gets a session.
FindOrCreate(t) ==
    \E o \in Requests \cup {"get"} :
        /\ Leave(t, "locked", IF o # "get" THEN "enter" ELSE "return", o)
        /\ sessions' = sessions \cup {arg[t]}
        /\ answer' = [answer EXCEPT ![t] = {arg[t]}]
        /\ UNCHANGED <<removed, sandboxVars, op, arg, todo, issued, forgotten, calls>>

\* Variant: the lock is kept while the sandbox works.
FindAndKeep(t) ==
    \E o \in Requests \cup {"get"} :
        /\ Goto(t, "locked", IF Found(t) # {} /\ o # "get" THEN "enter" ELSE "return")
        /\ op[t] = o
        /\ lock' = IF Found(t) # {} /\ o # "get" THEN t ELSE NoThread
        /\ answer' = [answer EXCEPT ![t] = Found(t)]
        /\ UNCHANGED <<sessions, removed, sandboxVars, op, arg, todo, issued, forgotten, calls>>

Find(t) ==
    \E o \in Requests \cup {"get"} :
        /\ Leave(t, "locked", IF Found(t) # {} /\ o # "get" THEN "enter" ELSE "return", o)
        /\ answer' = [answer EXCEPT ![t] = Found(t)]
        /\ UNCHANGED <<sessions, removed, sandboxVars, op, arg, todo, issued, forgotten, calls>>

\* Another thread has looked the session up and has yet to start its worker, or
\* to find that it need not.
AboutToEnter(i) == \E u \in Threads : pc[u] \in {"enter", "starting"} /\ arg[u] = i

\* close_session takes the entry out, if there is one, and then closes it.
Pop(t) ==
    /\ Leave(t, "locked", IF Found(t) # {} THEN "closing" ELSE "return", "close_session")
    /\ sessions' = sessions \ Found(t)
    /\ removed' = removed \cup Found(t)
    /\ todo' = [todo EXCEPT ![t] = Found(t)]
    /\ answer' = [answer EXCEPT ![t] = Found(t)]
    /\ forgotten' = forgotten \cup {i \in Found(t) : AboutToEnter(i)}
    /\ UNCHANGED <<sandboxVars, op, arg, issued, calls>>

\* list_sessions goes through the dict entry by entry, under the lock.
List(t) ==
    /\ Goto(t, "locked", "listing")
    /\ op[t] = "list"
    /\ todo' = [todo EXCEPT ![t] = sessions]
    /\ UNCHANGED <<registryVars, sandboxVars, op, arg, answer, issued, forgotten, calls>>

ListOne(t, i) ==
    /\ pc[t] = "listing"
    /\ i \in todo[t]
    /\ todo' = [todo EXCEPT ![t] = @ \ {i}]
    /\ answer' = [answer EXCEPT ![t] = @ \cup {i}]
    /\ UNCHANGED <<registryVars, sandboxVars, pc, op, arg, issued, forgotten, calls>>

Listed(t) ==
    /\ Leave(t, "listing", "return", "list")
    /\ todo[t] = {}
    /\ UNCHANGED <<sessions, removed, sandboxVars, threadVars, issued, forgotten, calls>>

\* Variant: the lock is given back between the copy and the clear.
CopyUnlocked(t) ==
    /\ Leave(t, "locked", "copied", "close")
    /\ todo' = [todo EXCEPT ![t] = sessions]
    /\ UNCHANGED <<sessions, removed, sandboxVars, op, arg, answer, issued, forgotten, calls>>

\* close copies the registry and clears it.
Copy(t) ==
    /\ Goto(t, "locked", "copied")
    /\ op[t] = "close"
    /\ todo' = [todo EXCEPT ![t] = sessions]
    /\ UNCHANGED <<registryVars, sandboxVars, op, arg, answer, issued, forgotten, calls>>

Clear(t) ==
    /\ Leave(t, "copied", IF todo[t] # {} THEN "closing" ELSE "return", "close")
    /\ sessions' = {}
    /\ removed' = removed \cup todo[t]
    /\ answer' = [answer EXCEPT ![t] = todo[t]]
    /\ forgotten' = forgotten \cup {i \in todo[t] : AboutToEnter(i)}
    /\ UNCHANGED <<sandboxVars, op, arg, todo, issued, calls>>

-----------------------------------------------------------------------------
\* The steps in a sandbox session, outside _lock.

Enter(t) ==
    /\ View!Enter(t)
    /\ UNCHANGED <<registryVars, todo, answer, issued, forgotten, calls>>

Spawn(t) ==
    /\ View!Spawn(t)
    /\ UNCHANGED <<registryVars, todo, answer, issued, forgotten, calls>>

\* A session that was created is yet to be registered.  When its constructor
\* raises nobody has it, although its worker may be alive.
Answer(t) ==
    /\ \E to \in {"acquire", "return", "terminate"} :
          /\ View!Answer(t, to)
          /\ to = "acquire" => op[t] = "create"
          /\ forgotten' = IF op[t] = "create" /\ to = "return"
                            THEN forgotten \cup {arg[t]} ELSE forgotten
    /\ UNCHANGED <<registryVars, todo, answer, issued, calls>>

\* close closes one session after the other.
CloseNext(t, i) ==
    /\ View!Close(t, i)
    /\ i \in todo[t]
    /\ todo' = [todo EXCEPT ![t] = @ \ {i}]
    /\ UNCHANGED <<registryVars, answer, issued, forgotten, calls>>

\* Another thread terminated the worker while close looked at it, and the
\* exception leaves close and the sessions it has not come to.
CloseFails(t, i) ==
    /\ View!CloseFails(t, i, "return")
    /\ i \in todo[t]
    /\ forgotten' = forgotten \cup (todo[t] \ {i})
    /\ todo' = [todo EXCEPT ![t] = {}]
    /\ UNCHANGED <<registryVars, answer, issued, calls>>

AfterClose(t) == IF todo[t] # {} THEN "closing" ELSE "return"

Terminate(t) ==
    /\ View!Terminate(t, AfterClose(t))
    /\ UNCHANGED <<registryVars, todo, answer, issued, forgotten, calls>>

\* Its wait or the removal of the directory raises: close leaves the sessions
\* it has not come to.
TerminateFails(t) ==
    /\ View!Terminate(t, "return")
    /\ forgotten' = forgotten \cup todo[t]
    /\ todo' = [todo EXCEPT ![t] = {}]
    /\ UNCHANGED <<registryVars, answer, issued, calls>>

Crash(i) ==
    /\ View!Crash(i)
    /\ UNCHANGED <<registryVars, todo, answer, issued, forgotten, calls>>

Return(t) ==
    /\ Goto(t, "return", "idle")
    /\ answer' = [answer EXCEPT ![t] = {}]
    /\ UNCHANGED <<registryVars, sandboxVars, op, arg, todo, issued, forgotten, calls>>

-----------------------------------------------------------------------------
RegistryStep(t) ==
    \/ Acquire(t)
    \/ Register(t)
    \/ Find(t)
    \/ Pop(t)
    \/ List(t)
    \/ \E i \in Ids : ListOne(t, i)
    \/ Listed(t)
    \/ Copy(t)
    \/ Clear(t)

SandboxStep(t) ==
    \/ Enter(t)
    \/ Spawn(t)
    \/ Answer(t)
    \/ \E i \in Ids : CloseNext(t, i) \/ CloseFails(t, i)
    \/ Terminate(t)
    \/ TerminateFails(t)

Next ==
    \/ \E t \in Threads :
          \/ \E o \in Methods, i \in Ids : Invoke(t, o, i)
          \/ RegistryStep(t)
          \/ SandboxStep(t)
          \/ Return(t)
    \/ \E i \in Ids : Crash(i)

Spec == Init /\ [][Next]_vars

\* The threads are scheduled, but no sandbox ever has to answer.
FairSpec == Spec /\ \A t \in Threads : WF_vars(RegistryStep(t))

-----------------------------------------------------------------------------
\* The types of the variables, and that only ids of sessions that were created
\* and not removed are registered.
TypeOK ==
    /\ lock \in Threads \cup {NoThread}
    /\ sessions \subseteq issued \ removed
    /\ worker \in [Ids -> BOOLEAN]
    /\ busy \in [Ids -> Threads \cup {NoThread}]
    /\ pc \in [Threads -> OwnSteps \cup View!Inside]
    /\ op \in [Threads -> Methods]
    /\ arg \in [Threads -> Ids]
    /\ todo \in [Threads -> SUBSET Ids]
    /\ answer \in [Threads -> SUBSET Ids]
    /\ issued \subseteq Ids
    /\ removed \subseteq issued
    /\ forgotten \subseteq issued

\* Calls are decided at one instant: close and list_sessions, which take more
\* than one step, as much as the others (service.py:90, 107).
Undecided == {"acquire", "locked", "listing", "copied"}
Pending(t) ==
    \/ pc[t] \in Undecided
    \/ op[t] = "create" /\ pc[t] \in View!Inside
RequestOf(t) == IF pc[t] = "idle" THEN "none"
                ELSE IF Pending(t) THEN "pending" ELSE "decided"
AnswerOf(t) == IF Pending(t) THEN {} ELSE answer[t]
Registry == INSTANCE SessionRegistry WITH
    request <- [t \in Threads |-> RequestOf(t)],
    answer <- [t \in Threads |-> AnswerOf(t)]
AtomicRegistry == Registry!Spec

\* When no call is under way, a worker belongs to a registered session, but
\* for three cases: the constructor raised after it had started the worker
\* (manager.py:141), close raised before it came to the session
\* (service.py:112), or a call had looked the session up, and not yet started
\* its worker, when it was removed (service.py:81, 101).  A termination is one
\* step here: what one that is overtaken leaves behind is SandboxSession's.
NoWorkerIsForgotten ==
    (\A t \in Threads : pc[t] = "idle") =>
        \A i \in Ids : worker[i] => i \in sessions \cup forgotten

\* A call of the registry is never held up by a sandbox that does not answer
\* (service.py:71).
RegistryAnswers ==
    \A t \in Threads : pc[t] = "acquire" ~> pc[t] \notin Undecided
=============================================================================
