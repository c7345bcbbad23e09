---------------------------- MODULE SandboxCalls ----------------------------
(***************************************************************************)
(* What a SandboxSession promises its callers: calls that are executed at  *)
(* most once.  A call submits its request once.  A pending request may be  *)
(* worked on, also after its call has given up, or be lost with its        *)
(* worker, but it is never submitted again.  A call that returns a result  *)
(* has been worked on; about one that fails nothing is said.               *)
(***************************************************************************)
EXTENDS Naturals

CONSTANTS
    Threads,    \* the threads that call the session
    MaxCalls    \* bound: how many calls are made

None == 0

VARIABLES
    calls,      \* how many calls have been made
    current,    \* the call each thread is in, or None
    submitted,  \* the calls whose request has been submitted
    pending,    \* those that may still be worked on
    worked,     \* those that have been worked on
    vouched     \* whether the last call of a thread returned a result

vars == <<calls, current, submitted, pending, worked, vouched>>

Init ==
    /\ calls = 0
    /\ current = [t \in Threads |-> None]
    /\ submitted = {}
    /\ pending = {}
    /\ worked = {}
    /\ vouched = [t \in Threads |-> FALSE]

Begin(t) ==
    /\ current[t] = None
    /\ calls < MaxCalls
    /\ calls' = calls + 1
    /\ current' = [current EXCEPT ![t] = calls + 1]
    /\ vouched' = [vouched EXCEPT ![t] = FALSE]
    /\ UNCHANGED <<submitted, pending, worked>>

Submit(t) ==
    /\ current[t] # None
    /\ current[t] \notin submitted
    /\ submitted' = submitted \cup {current[t]}
    /\ pending' = pending \cup {current[t]}
    /\ UNCHANGED <<calls, current, worked, vouched>>

Work(c) ==
    /\ c \in pending
    /\ pending' = pending \ {c}
    /\ worked' = worked \cup {c}
    /\ UNCHANGED <<calls, current, submitted, vouched>>

\* Requests are answered without being worked on, or end with their worker.
Lose ==
    /\ pending' \subseteq pending
    /\ UNCHANGED <<calls, current, submitted, worked, vouched>>

Return(t, result) ==
    /\ current[t] # None
    /\ result => current[t] \in worked
    /\ current' = [current EXCEPT ![t] = None]
    /\ vouched' = [vouched EXCEPT ![t] = result]
    /\ UNCHANGED <<calls, submitted, pending, worked>>

Next ==
    \/ Lose
    \/ \E c \in pending : Work(c)
    \/ \E t \in Threads :
          Begin(t) \/ Submit(t) \/ \E result \in BOOLEAN : Return(t, result)

Spec == Init /\ [][Next]_vars
=============================================================================
