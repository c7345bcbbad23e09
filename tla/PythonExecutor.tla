--------------------------- MODULE PythonExecutor ---------------------------
(***************************************************************************)
(* LocalPythonExecutor: one executor that is given one piece of code after *)
(* another.  Its state outlives a call, whether the call ends well, fails, *)
(* or is cut short by its budget or its time limit.                        *)
(*                                                                         *)
(* code is the piece to run next.  The properties of an evaluation are     *)
(* stated of the code in the state the executor has by then, so that each  *)
(* piece of code that can be written is a case.                            *)
(***************************************************************************)
EXTENDS PythonReference, FiniteSets

CONSTANTS
    MaxOperations,  \* MAX_OPERATIONS
    MaxCalls        \* bound: how often the executor is called

VARIABLES
    store,          \* the executor's state and tools, and what the host saw
    code,           \* the code to run next
    depth           \* how deep its statements nest

executorVars == <<store, code, depth>>

ExecutorInit ==
    /\ store = NewExecutor(MaxOperations)
    /\ code = <<>>
    /\ depth = 0

\* The client writes further statements, or one around those it has.
Write(ns) == code' = code \o ns /\ UNCHANGED <<store, depth>>
Enclose(n) == code' = n /\ depth' = depth + 1 /\ UNCHANGED store

\* __call__: whatever becomes of the code, its effects stay.
Execute ==
    /\ Len(store.ops) < MaxCalls
    /\ code # <<>>
    /\ store' = EvaluatePythonCode(code, store).st
    /\ code' = <<>>
    /\ depth' = 0

\* send_variables
Send(vars) ==
    /\ code = <<>>
    /\ store' = SendVariables(vars, store)
    /\ UNCHANGED <<code, depth>>

-----------------------------------------------------------------------------
Call == Len(store.ops) + 1
Outcome == EvaluatePythonCode(code, store)
EventsOf(r) == SubSeq(r.st.world, Len(store.world) + 1, Len(r.st.world))
Prints(r) == SelectSeq(EventsOf(r), LAMBDA e : e.e = "print")

\* A dict whose counter and PrintContainer are an earlier call's, other than
\* the executor's own: a frame, or the scope of a comprehension, that a
\* function made there keeps alive.
OldFrames == {c \in DOMAIN store.envs : c # 1}
MayReachOldFrames ==
    LET values == Range(store.envs[1].vars) \cup Range(store.tools) \cup
                  UNION {Range(store.heap[a]) : a \in DOMAIN store.heap}
        bodies == {IF x.t = "bound" THEN x.fun ELSE x : x \in values}
    IN  \E x \in bodies : x.t \in {"fun", "lambda", "coro"} /\ x.ctx \in OldFrames


\* The budget only cuts code short: what a call prints is a prefix of what it
\* would print with a budget without end.  The code can handle the error of
\* increment_operations (models.py:59) but not go on from there, as each node of
\* a handler meets it again.  The exception is code that calls a function made
\* in a frame of an earlier call that spent its budget: that runs, and fails, on
\* the counter of the earlier call (handlers_statements.py:188), and the caller
\* can go on.
Spent(i, r) == r.st.ops[i] >= MaxOperations
BudgetOnlyCuts ==
    LET r == Outcome
        stale == MayReachOldFrames /\ \E i \in 1 .. Call - 1 : Spent(i, r)
    IN  (\E i \in DOMAIN r.st.ops : Spent(i, r)) /\ ~stale =>
            IsPrefix(Prints(r), Prints(EvaluatePythonCode(code,
                                    [store EXCEPT !.budget = 2 * MaxOperations])))

\* Every manager a with statement entered is left once, the last one first,
\* however control leaves the statement: by its end, a return, a break, a
\* continue or an error.  The managers that stay open are those in the event
\* "lost", and no others: the ones entered before the expression, the entering
\* or the target of a later item failed, with the one whose target it was
\* (handlers_statements.py:382-387, before the try); all of a statement that
\* final_answer or the time limit leaves (392, which handles Exception only); and
\* those around one that fails to exit at the normal end (404).
RECURSIVE OpenManagers(_)
OpenManagers(events) ==
    IF events = <<>> THEN <<>>
    ELSE LET rest == OpenManagers(Front(events))
             e == Last(events)
         IN  CASE e.e = "enter" -> Append(rest, e.kind)
               [] e.e \in {"exit", "lost"} ->
                        IF rest # <<>> /\ Last(rest) = e.kind THEN Front(rest)
                        ELSE Append(rest, -1)
               [] OTHER -> rest

\* The logs a call is answered with are what its code printed, all of it and
\* nothing else (worker.py:107): unless the code did not parse, when they are
\* those of the call before, or a function of an earlier call printed in a frame
\* that has kept that call's PrintContainer (handlers_statements.py:188).
Logs(r) == LET run == r.st.envs[1].run
           IN  SelectSeq(r.st.world, LAMBDA e : e.e = "print" /\ e.out = run)
LogsAreItsOwn ==
    LET r == Outcome
    IN  code \in {<<>>, Unparsable} \/ MayReachOldFrames \/ Logs(r) = Prints(r)

\* However a call ended, the executor is ready for the next one: it has its
\* whole budget and collects its prints (evaluator.py:212).
ReadyAgain ==
    LET probe == << [k |-> "expr", value |->
                        [k |-> "call", func |-> [k |-> "name", id |-> "print"],
                         args |-> <<>>, keywords |-> <<>>]] >>
        r == EvaluatePythonCode(probe, store)
    IN  code = <<>> => r.sig = "ok" /\ Prints(r) = << [e |-> "print", v |-> <<>>, out |-> Call] >>
=============================================================================
