--------------------------- MODULE SessionRegistry ---------------------------
(***************************************************************************)
(* What PythonExecutionService promises about its registry of sessions:    *)
(* each call takes effect at one instant between its start and its return, *)
(* whatever the other calls do, and no id is ever used for two sessions.   *)
(***************************************************************************)
CONSTANTS
    Threads,    \* the threads that call the service
    Ids         \* the session ids

VARIABLES
    sessions,   \* the registered ids
    removed,    \* the ids that have been registered and no longer are
    request,    \* "none", "pending" or "decided", for each thread
    answer      \* the ids the decision handed to the thread

vars == <<sessions, removed, request, answer>>

Init ==
    /\ sessions = {}
    /\ removed = {}
    /\ request = [t \in Threads |-> "none"]
    /\ answer = [t \in Threads |-> {}]

Call(t) ==
    /\ request[t] = "none"
    /\ request' = [request EXCEPT ![t] = "pending"]
    /\ UNCHANGED <<sessions, removed, answer>>

\* The instant of a call, which hands ids to its thread.
Decide(t, ids) ==
    /\ request[t] = "pending"
    /\ request' = [request EXCEPT ![t] = "decided"]
    /\ answer' = [answer EXCEPT ![t] = ids]

Create(t) ==
    \E i \in Ids \ (sessions \cup removed) :
        /\ Decide(t, {i})
        /\ sessions' = sessions \cup {i}
        /\ UNCHANGED removed

\* A session could not be created.
Fail(t) == Decide(t, {}) /\ UNCHANGED <<sessions, removed>>

\* Looking one session up, or all of them.
Find(t) == \E i \in Ids : Decide(t, {i} \cap sessions) /\ UNCHANGED <<sessions, removed>>
List(t) == Decide(t, sessions) /\ UNCHANGED <<sessions, removed>>

\* Whoever removes a session is handed its id, and nobody else is.
Remove(t, ids) ==
    /\ Decide(t, ids)
    /\ sessions' = sessions \ ids
    /\ removed' = removed \cup ids

Close(t) == \E i \in Ids : Remove(t, {i} \cap sessions)
CloseAll(t) == Remove(t, sessions)

Return(t) ==
    /\ request[t] = "decided"
    /\ request' = [request EXCEPT ![t] = "none"]
    /\ answer' = [answer EXCEPT ![t] = {}]
    /\ UNCHANGED <<sessions, removed>>

Next ==
    \E t \in Threads :
        \/ Call(t)
        \/ Create(t)
        \/ Fail(t)
        \/ Find(t)
        \/ List(t)
        \/ Close(t)
        \/ CloseAll(t)
        \/ Return(t)

Spec == Init /\ [][Next]_vars
=============================================================================
