----------------------------- MODULE SandboxView -----------------------------
(***************************************************************************)
(* Sandbox sessions as those who call them see them: a session has a       *)
(* request lock, and it may have a live worker.  PythonService is built on *)
(* these steps, and SandboxSession implements them for one session.        *)
(***************************************************************************)
CONSTANTS
    Threads,    \* the threads that call sessions
    NoThread,   \* the holder of a free lock
    Ids,        \* the sessions
    Methods,    \* what a thread may be doing, methods of sessions among others
    Elsewhere   \* where a thread can be that is in no method of a session

VARIABLES
    worker,     \* has a session a live worker
    busy,       \* a session's _request_lock: its holder or NoThread
    pc,         \* where each thread is
    op,         \* the method it runs
    arg         \* the session it works on

vars == <<worker, busy, pc, op, arg>>

\* Where a thread is in a method of a session.
Inside == {"enter", "starting", "await", "closing", "terminate"}

\* SandboxSession.close, and the two methods of the service that call it.
Closers == {"close", "close_session"}

Init ==
    /\ worker = [i \in Ids |-> FALSE]
    /\ busy = [i \in Ids |-> NoThread]
    /\ pc \in [Threads -> Elsewhere]
    /\ op \in [Threads -> Methods]
    /\ arg \in [Threads -> Ids]

Goto(t, from, to) == pc[t] = from /\ pc' = [pc EXCEPT ![t] = to]

\* What a thread does elsewhere, and its call of a method.
Outside(t, to, o, i) ==
    /\ pc[t] \in Elsewhere
    /\ pc' = [pc EXCEPT ![t] = to]
    /\ op' = [op EXCEPT ![t] = o]
    /\ arg' = [arg EXCEPT ![t] = i]
    /\ to \in Inside => to = IF o \in Closers THEN "closing" ELSE "enter"
    /\ UNCHANGED <<worker, busy>>

\* The request lock.  A request goes on with the worker there is; without one it
\* has to start one first, and so do the constructor and reset, which has
\* terminated the one there was.
Enter(t) ==
    LET reuses == worker[arg[t]] /\ op[t] \notin {"create", "reset"}
    IN  /\ Goto(t, "enter", IF reuses THEN "await" ELSE "starting")
        /\ busy[arg[t]] = NoThread
        /\ busy' = [busy EXCEPT ![arg[t]] = t]
        /\ worker' = [worker EXCEPT ![arg[t]] = reuses]
        /\ UNCHANGED <<op, arg>>

\* The worker is started, or cannot be.
Spawn(t) ==
    /\ Goto(t, "starting", "await")
    /\ \E alive \in BOOLEAN : worker' = [worker EXCEPT ![arg[t]] = alive]
    /\ UNCHANGED <<busy, op, arg>>

\* Variant: a worker that was asked to shut down needs no termination.
AfterAnswerQuits(o) ==
    IF o = "execute" THEN Elsewhere \cup {"terminate"} ELSE Elsewhere

\* A close, and an execute that failed, go on to terminate the worker.
AfterAnswer(o) ==
    IF o \in Closers THEN {"terminate"}
    ELSE IF o = "execute" THEN Elsewhere \cup {"terminate"} ELSE Elsewhere

\* An answer, the timeout or an exception ends the with-block.
Answer(t, to) ==
    /\ Goto(t, "await", to)
    /\ to \in AfterAnswer(op[t])
    /\ busy' = [busy EXCEPT ![arg[t]] = NoThread]
    /\ UNCHANGED <<worker, op, arg>>

\* close asks a live worker to shut down before it terminates it.
Close(t, i) ==
    /\ Goto(t, "closing", IF worker[i] THEN "enter" ELSE "terminate")
    /\ arg' = [arg EXCEPT ![t] = i]
    /\ UNCHANGED <<worker, busy, op>>

\* The worker that close found has been detached meanwhile by another thread,
\* and close raises instead of terminating.
CloseFails(t, i, to) ==
    /\ ~worker[i]
    /\ Goto(t, "closing", to)
    /\ to \in Elsewhere
    /\ arg' = [arg EXCEPT ![t] = i]
    /\ UNCHANGED <<worker, busy, op>>

\* _terminate_process after the with-block, without the lock.  The service
\* closes one session after the other.
Terminate(t, to) ==
    /\ Goto(t, "terminate", to)
    /\ to = "closing" => op[t] \in Closers
    /\ worker' = [worker EXCEPT ![arg[t]] = FALSE]
    /\ UNCHANGED <<busy, op, arg>>

\* A worker dies, ends because it is told to, or is terminated by a start that
\* failed.
Crash(i) ==
    /\ worker[i]
    /\ worker' = [worker EXCEPT ![i] = FALSE]
    /\ UNCHANGED <<busy, pc, op, arg>>

Next ==
    \/ \E t \in Threads :
          \/ \E to \in Elsewhere \cup Inside, o \in Methods, i \in Ids :
                Outside(t, to, o, i)
          \/ Enter(t)
          \/ Spawn(t)
          \/ \E to \in Elsewhere \cup {"terminate"} : Answer(t, to)
          \/ \E i \in Ids : Close(t, i)
          \/ \E i \in Ids, to \in Elsewhere : CloseFails(t, i, to)
          \/ \E to \in Elsewhere \cup {"closing"} : Terminate(t, to)
    \/ \E i \in Ids : Crash(i)

Spec == Init /\ [][Next]_vars
=============================================================================
