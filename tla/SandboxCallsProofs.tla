-------------------------- MODULE SandboxCallsProofs --------------------------
(***************************************************************************)
(* Proofs about the steps of a SandboxSession, with any callers: that it   *)
(* implements SandboxCalls, and that no call ends a worker but its own or  *)
(* one it is to end.                                                       *)
(***************************************************************************)
EXTENDS SandboxSessionProofs

-----------------------------------------------------------------------------
(* The requests that calls have in a worker's stdin.                       *)

\* Not two of them are one call's.
Once(requests) ==
    \A i, j \in DOMAIN requests :
        i # j /\ requests[i].action # "init" /\ requests[j].action # "init" =>
            requests[i].call # requests[j].call

\* A request that waits to be read was sent to this worker, and its call has not
\* been worked on.
PendingInv ==
    \A w \in Workers :
        /\ Once(stdin[w])
        /\ \A c \in OwnCalls(stdin[w]) : sentTo[c] = w /\ c \notin ran[w]

\* Nothing waits in an empty pipe.
LEMMA OwnEmpty == OwnCalls(<<>>) = {} /\ Once(<<>>)
BY DEF OwnCalls, Once

\* Writing a request that is init, or the first of its call.
LEMMA OwnAppend ==
    ASSUME NEW s \in Seq(Requests), NEW r \in Requests, Once(s),
           r.action # "init" => r.call \notin OwnCalls(s)
    PROVE  /\ OwnCalls(Append(s, r)) =
                OwnCalls(s) \cup (IF r.action = "init" THEN {} ELSE {r.call})
           /\ Once(Append(s, r))
<1> DEFINE q == Append(s, r)
<1>1. /\ Len(s) \in Nat /\ DOMAIN s = 1 .. Len(s)
      /\ DOMAIN q = 1 .. Len(s) + 1
      /\ \A i \in 1 .. Len(s) : q[i] = s[i]
      /\ q[Len(s) + 1] = r
  OBVIOUS
<1> HIDE DEF q
<1>2. ASSUME NEW c
      PROVE  c \in OwnCalls(q) <=>
               c \in OwnCalls(s) \/ (r.action # "init" /\ c = r.call)
  BY <1>1 DEF OwnCalls
<1>3. Once(q)
  BY <1>1 DEF Once, OwnCalls
<1> QED
  BY <1>2, <1>3 DEF q

\* Reading a request takes it, and all there is of its call.
LEMMA OwnTail ==
    ASSUME NEW s \in Seq(Requests), s # <<>>, Once(s)
    PROVE  /\ Head(s).action # "init" => Head(s).call \in OwnCalls(s)
           /\ OwnCalls(Tail(s)) =
                OwnCalls(s) \ (IF Head(s).action = "init" THEN {} ELSE {Head(s).call})
           /\ Once(Tail(s))
<1> DEFINE q == Tail(s)
           r == Head(s)
<1>1. /\ Len(s) \in Nat \ {0} /\ DOMAIN s = 1 .. Len(s)
      /\ DOMAIN q = 1 .. Len(s) - 1
      /\ \A i \in 1 .. Len(s) - 1 : q[i] = s[i + 1]
      /\ r = s[1]
  BY HeadTailProperties
<1> HIDE DEF q, r
<1>2. r.action # "init" => r.call \in OwnCalls(s)
  BY <1>1 DEF OwnCalls
<1>3. ASSUME NEW c \in OwnCalls(q)
      PROVE  c \in OwnCalls(s) /\ (r.action # "init" => c # r.call)
  <2>1. PICK i \in 1 .. Len(s) - 1 : q[i].action # "init" /\ q[i].call = c
    BY <1>1 DEF OwnCalls
  <2>2. i + 1 \in DOMAIN s /\ s[i + 1] = q[i] /\ 1 \in DOMAIN s /\ i + 1 # 1
    BY <1>1
  <2> QED
    BY <1>1, <2>1, <2>2 DEF OwnCalls, Once
<1>4. ASSUME NEW c \in OwnCalls(s), r.action # "init" => c # r.call
      PROVE  c \in OwnCalls(q)
  <2>1. PICK i \in DOMAIN s : s[i].action # "init" /\ s[i].call = c
    BY DEF OwnCalls
  <2>2. i # 1
    BY <1>1, <1>4, <2>1
  <2>3. i - 1 \in DOMAIN q /\ q[i - 1] = s[i]
    BY <1>1, <2>2
  <2> QED
    BY <2>1, <2>3 DEF OwnCalls
<1>5. Once(q)
  <2> SUFFICES ASSUME NEW i \in DOMAIN q, NEW j \in DOMAIN q, i # j,
                      q[i].action # "init", q[j].action # "init"
               PROVE  q[i].call # q[j].call
    BY DEF Once
  <2>1. /\ i + 1 \in DOMAIN s /\ j + 1 \in DOMAIN s /\ i + 1 # j + 1
        /\ q[i] = s[i + 1] /\ q[j] = s[j + 1]
    BY <1>1
  <2> QED
    BY <2>1 DEF Once
<1>6. OwnCalls(q) = OwnCalls(s) \ (IF r.action = "init" THEN {} ELSE {r.call})
  BY <1>3, <1>4
<1> QED
  BY <1>2, <1>5, <1>6 DEF q, r

\* A pipe that is left alone or emptied.
LEMMA PendingFrame ==
    ASSUME PendingInv, UNCHANGED <<ran, sentTo>>,
           \A w \in Workers : stdin'[w] \in {stdin[w], <<>>}
    PROVE  PendingInv' /\ PendingCalls' \subseteq PendingCalls
<1>1. ASSUME NEW w \in Workers
      PROVE  Once(stdin'[w]) /\ OwnCalls(stdin'[w]) \subseteq OwnCalls(stdin[w])
  BY OwnEmpty DEF PendingInv
<1>2. PendingInv'
  BY <1>1 DEF PendingInv
<1>3. PendingCalls' \subseteq PendingCalls
  BY <1>1 DEF PendingCalls
<1> QED
  BY <1>2, <1>3

\* A thread writes to a pipe, or empties one.
LEMMA StdinFrame ==
    ASSUME TypeInv, NEW t \in Threads, Step(t) \/ TimesOut(t), ~Send(t)
    PROVE  /\ \A w \in Workers : stdin'[w] \in {stdin[w], <<>>}
           /\ stdin' = stdin \/ Kill(t)
           /\ UNCHANGED <<ran, sentTo>>
<1>1. ran' = ran /\ sentTo' = sentTo /\ (stdin' = stdin \/ Kill(t))
  BY DataFrame, StepFrame
<1>2. Kill(t) => stdin' = stdin \/ stdin' = [stdin EXCEPT ![bound[t]] = <<>>]
  BY DEF Kill
<1> QED
  BY <1>1, <1>2 DEF TypeInv, TypeOK

\* Sending init adds nothing of a call's own; sending the call's request adds it to
\* one pipe, where nothing of the call was.
LEMMA SendPending ==
    ASSUME TypeInv, CallInv, SentInv, PendingInv, NEW t \in Threads, Send(t)
    PROVE  /\ PendingInv'
           /\ PendingCalls' = PendingCalls \cup
                                (IF sending[t] = "init" THEN {} ELSE {call[t]})
<1> DEFINE r == [call |-> call[t], action |-> sending[t]]
           own == IF sending[t] = "init" THEN {} ELSE {call[t]}
<1>1. /\ process \in Workers /\ r \in Requests
      /\ stdin' = [stdin EXCEPT ![process] = Append(@, r)]
      /\ ran' = ran
  BY DEF Send, Goto, TypeInv, TypeOK, CalledInv, OrNone, Requests
<1>2. /\ stdin'[process] = Append(stdin[process], r)
      /\ \A w \in Workers \ {process} : stdin'[w] = stdin[w]
      /\ stdin[process] \in Seq(Requests)
  BY <1>1 DEF TypeInv, TypeOK
<1>3. r.call = call[t] /\ r.action = sending[t]
  OBVIOUS
<1> HIDE DEF r
<1>4. None \notin Workers
  BY DEF None, Workers, Calls
<1>5. /\ sending[t] # "init" =>
            \A w \in Workers : call[t] \notin OwnCalls(stdin[w]) /\ call[t] \notin ran[w]
      /\ sending[t] # "init" => sentTo'[call[t]] = process
      /\ sending[t] = "init" => sentTo' = sentTo
  BY <1>4, SendSentInv DEF PendingInv, SentInv, Send
<1>6. /\ OwnCalls(stdin'[process]) = OwnCalls(stdin[process]) \cup own
      /\ Once(stdin'[process])
  BY <1>1, <1>2, <1>3, <1>5, OwnAppend DEF PendingInv
<1>7. ASSUME NEW w \in Workers, NEW c \in OwnCalls(stdin'[w])
      PROVE  sentTo'[c] = w /\ c \notin ran[w]
  <2>1. CASE c \in OwnCalls(stdin[w])
    <3>1. sentTo[c] = w /\ c \notin ran[w] /\ (sending[t] # "init" => c # call[t])
      BY <1>5, <2>1 DEF PendingInv
    <3>2. c \in Calls
      <4>1. stdin[w] \in Seq(Requests)
        BY DEF TypeInv, TypeOK
      <4>2. PICK i \in DOMAIN stdin[w] : stdin[w][i].call = c
        BY <2>1 DEF OwnCalls
      <4>3. stdin[w][i] \in Requests
        BY <4>1
      <4> QED
        BY <4>2, <4>3 DEF Requests
    <3>3. sentTo'[c] = sentTo[c]
      BY <1>5, <3>1, <3>2, SendSentInv
    <3> QED
      BY <3>1, <3>3
  <2>2. CASE c \notin OwnCalls(stdin[w])
    <3>1. w = process /\ c \in own
      BY <1>2, <1>6, <1>7, <2>2
    <3> QED
      BY <1>5, <3>1
  <2> QED
    BY <2>1, <2>2
<1>8. PendingInv'
  BY <1>1, <1>2, <1>6, <1>7 DEF PendingInv
<1>9. PendingCalls' = PendingCalls \cup own
  BY <1>1, <1>2, <1>6 DEF PendingCalls
<1> QED
  BY <1>8, <1>9

\* A worker takes a request: it works on the call, which is then not pending any
\* more, or on none.
LEMMA HandlePending ==
    ASSUME TypeInv, SentInv, PendingInv, NEW w \in Workers, Handle(w)
    PROVE  /\ PendingInv'
           /\ \/ /\ PendingCalls' \subseteq PendingCalls
                 /\ WorkedCalls' = WorkedCalls
              \/ \E c \in PendingCalls :
                    /\ PendingCalls' = PendingCalls \ {c}
                    /\ WorkedCalls' = WorkedCalls \cup {c}
<1> DEFINE r == Head(stdin[w])
           own == IF r.action = "init" THEN {} ELSE {r.call}
<1>1. PICK state :
        /\ stdin' = [stdin EXCEPT ![w] = IF state = "dead" THEN <<>> ELSE Tail(@)]
        /\ ran' = IF UsesExecutor(worker[w], r.action)
                    THEN [ran EXCEPT ![w] = @ \cup {r.call}] ELSE ran
        /\ UsesExecutor(worker[w], r.action) => state = worker[w]
  <2>1. PICK status \in Replies(worker[w], r.action) :
          \E state \in After(worker[w], r.action, status) :
          \E lines : Respond(w, r, state, lines)
    BY DEF Handle
  <2>2. PICK state \in After(worker[w], r.action, status) :
          \E lines : Respond(w, r, state, lines)
    BY <2>1
  <2>3. UsesExecutor(worker[w], r.action) => state = worker[w]
    BY <2>2 DEF UsesExecutor, After
  <2> QED
    BY <2>2, <2>3 DEF Respond
<1>2. stdin[w] # <<>> /\ stdin[w] \in Seq(Requests) /\ Once(stdin[w]) /\ sentTo' = sentTo
  BY DEF Handle, TypeInv, TypeOK, PendingInv
<1>3. /\ stdin'[w] = IF state = "dead" THEN <<>> ELSE Tail(stdin[w])
      /\ \A v \in Workers \ {w} : stdin'[v] = stdin[v] /\ ran'[v] = ran[v]
  BY <1>1 DEF TypeInv, TypeOK
<1>4. /\ r.action # "init" => r.call \in OwnCalls(stdin[w])
      /\ OwnCalls(Tail(stdin[w])) = OwnCalls(stdin[w]) \ own
      /\ Once(Tail(stdin[w]))
  BY <1>2, OwnTail
<1> HIDE DEF r
<1>5. Once(stdin'[w]) /\ OwnCalls(stdin'[w]) \subseteq OwnCalls(stdin[w]) \ own
  BY <1>3, <1>4, OwnEmpty
<1>6. CASE UsesExecutor(worker[w], r.action)
  <2>1. r.action # "init" /\ state # "dead" /\ own = {r.call}
    BY <1>1, <1>6 DEF UsesExecutor
  <2>2. ran'[w] = ran[w] \cup {r.call}
    BY <1>1, <1>6 DEF TypeInv, TypeOK
  <2>3. OwnCalls(stdin'[w]) = OwnCalls(stdin[w]) \ {r.call}
    BY <1>3, <1>4, <2>1
  <2>4. r.call \in OwnCalls(stdin[w]) /\ sentTo[r.call] = w
    BY <1>4, <2>1 DEF PendingInv
  <2>5. \A v \in Workers \ {w} : r.call \notin OwnCalls(stdin[v])
    BY <2>4 DEF PendingInv
  <2>6. PendingInv'
    BY <1>2, <1>3, <1>5, <2>2, <2>3 DEF PendingInv
  <2>7. r.call \in PendingCalls /\ PendingCalls' = PendingCalls \ {r.call}
    BY <1>3, <2>3, <2>4, <2>5 DEF PendingCalls
  <2>8. WorkedCalls' = WorkedCalls \cup {r.call}
    BY <1>3, <2>2 DEF WorkedCalls
  <2> QED
    BY <2>6, <2>7, <2>8
<1>7. CASE ~UsesExecutor(worker[w], r.action)
  <2>1. ran' = ran
    BY <1>1, <1>7
  <2>2. PendingInv'
    BY <1>2, <1>3, <1>5, <2>1 DEF PendingInv
  <2>3. PendingCalls' \subseteq PendingCalls
    BY <1>3, <1>5 DEF PendingCalls
  <2> QED
    BY <2>1, <2>2, <2>3 DEF WorkedCalls
<1> QED
  BY <1>6, <1>7

\* The invariant holds initially.
LEMMA InitPendingInv == Init => PendingInv
BY OwnEmpty DEF Init, PendingInv

\* Every step keeps what is pending apart from what was worked on.
LEMMA NextPendingInv ==
    ASSUME IInv, PendingInv, [Next]_vars
    PROVE  PendingInv'
<1>1. TypeInv /\ CallInv /\ SentInv
  BY DEF IInv, StartInv
<1>2. ASSUME UNCHANGED <<stdin, ran, sentTo>> PROVE PendingInv'
  BY <1>2 DEF PendingInv
<1>3. ASSUME NEW t \in Threads, NEW o \in Ops \cup {"create"}, Invoke(t, o)
      PROVE  PendingInv'
  BY <1>2, <1>3 DEF Invoke, workerVars
<1>4. ASSUME NEW t \in Threads, Step(t) \/ TimesOut(t)
      PROVE  PendingInv'
  BY <1>1, <1>4, SendPending, StdinFrame, PendingFrame
<1>5. ASSUME NEW w \in Workers, Handle(w) PROVE PendingInv'
  BY <1>1, <1>5, HandlePending
<1>6. ASSUME NEW w \in Workers, Crash(w) \/ Collect(w) PROVE PendingInv'
  <2>1. UNCHANGED <<ran, sentTo>> /\ \A v \in Workers : stdin'[v] \in {stdin[v], <<>>}
    BY <1>1, <1>6 DEF Crash, Collect, TypeInv, TypeOK
  <2> QED
    BY <2>1, PendingFrame
<1>7. CASE UNCHANGED vars
  BY <1>2, <1>7 DEF vars, workerVars
<1> QED
  BY <1>3, <1>4, <1>5, <1>6, <1>7 DEF Next

-----------------------------------------------------------------------------
(* Every step is a step of SandboxCalls, or none.                          *)

\* A step that touches no call, and at most loses requests.
LEMMA LosesOnly ==
    ASSUME PendingCalls' \subseteq PendingCalls, WorkedCalls' = WorkedCalls,
           UNCHANGED <<calls, CurrentCalls, SubmittedCalls, VouchedCalls>>
    PROVE  Promise!Next
<1>1. Promise!Lose
  BY DEF Promise!Lose
<1> QED
  BY <1>1 DEF Promise!Next

\* A thread that is in its call before and after a step has it in view.
LEMMA InCall ==
    ASSUME NEW t \in Threads, call' = call, op' = op, pc[t] # "idle", pc'[t] # "idle",
           \A u \in Threads \ {t} : pc'[u] = pc[u] /\ outcome'[u] = outcome[u]
    PROVE  UNCHANGED <<CurrentCalls, VouchedCalls>>
<1>1. \A u \in Threads : Vouched(u)' = Vouched(u)
  BY DEF Vouched
<1>2. VouchedCalls' = VouchedCalls
  BY <1>1 DEF VouchedCalls
<1>3. CurrentCalls' = CurrentCalls
  BY DEF CurrentCalls
<1> QED
  BY <1>2, <1>3

\* Calling a method begins a call.
LEMMA InvokeBegins ==
    ASSUME TypeInv, NEW t \in Threads, NEW o \in Ops \cup {"create"}, Invoke(t, o)
    PROVE  Promise!Next
<1>1. /\ pc[t] = "idle" /\ pc'[t] # "idle" /\ call'[t] = calls + 1
      /\ \A u \in Threads \ {t} : /\ pc'[u] = pc[u] /\ call'[u] = call[u]
                                   /\ op'[u] = op[u] /\ outcome'[u] = outcome[u]
      /\ calls < MaxCalls /\ calls' = calls + 1
      /\ UNCHANGED <<stdin, ran, sentTo>>
  BY DEF Invoke, TypeInv, TypeOK, workerVars
<1>2. CurrentCalls[t] = None /\ CurrentCalls' = [CurrentCalls EXCEPT ![t] = calls + 1]
  BY <1>1 DEF CurrentCalls
<1>3. \A u \in Threads : Vouched(u)' = IF u = t THEN FALSE ELSE Vouched(u)
  BY <1>1 DEF Vouched
<1>4. VouchedCalls' = [VouchedCalls EXCEPT ![t] = FALSE]
  BY <1>3 DEF VouchedCalls
<1>5. UNCHANGED <<SubmittedCalls, PendingCalls, WorkedCalls>>
  BY <1>1 DEF SubmittedCalls, PendingCalls, WorkedCalls
<1>6. Promise!Begin(t)
  BY <1>1, <1>2, <1>4, <1>5 DEF Promise!Begin, Promise!None, None
<1> QED
  BY <1>6 DEF Promise!Next

\* Writing a call's own request submits it; writing init is no step of a call.
LEMMA SendSubmits ==
    ASSUME TypeInv, CallInv, SentInv, PendingInv, NEW t \in Threads, Send(t)
    PROVE  [Promise!Next]_Promise!vars
<1>1. /\ pc[t] = "send" /\ pc'[t] # "idle"
      /\ UNCHANGED <<calls, call, op, outcome, ran>>
      /\ \A u \in Threads \ {t} : pc'[u] = pc[u]
  BY DEF Send, Goto, TypeInv, TypeOK
<1>2. UNCHANGED <<CurrentCalls, VouchedCalls, WorkedCalls>>
  BY <1>1, InCall DEF WorkedCalls
<1>3. CASE sending[t] = "init"
  <2>1. sentTo' = sentTo /\ PendingCalls' = PendingCalls
    BY <1>3, SendPending DEF Send
  <2> QED
    BY <1>1, <1>2, <2>1 DEF Promise!vars, SubmittedCalls
<1>4. CASE sending[t] # "init"
  <2>1. CurrentCalls[t] = call[t] /\ call[t] # None
    BY <1>1 DEF CurrentCalls, TypeInv, CalledInv
  <2>2. PendingCalls' = PendingCalls \cup {call[t]}
    BY <1>4, SendPending
  <2>3. None \notin Workers
    BY DEF None, Workers, Calls
  <2>4. call[t] \notin SubmittedCalls
        /\ SubmittedCalls' = SubmittedCalls \cup {call[t]}
    BY <1>4, <2>3, SendSentInv DEF SubmittedCalls
  <2>5. Promise!Submit(t)
    BY <1>1, <1>2, <2>1, <2>2, <2>4 DEF Promise!Submit, Promise!None, None
  <2> QED
    BY <2>5 DEF Promise!Next
<1> QED
  BY <1>3, <1>4

\* A thread that leaves its method has taken its outcome before, or fails as it
\* leaves.
LEMMA ReturnFrame ==
    ASSUME TypeInv, NEW t \in Threads, Step(t) \/ TimesOut(t), pc'[t] = "idle"
    PROVE  /\ UNCHANGED <<stdin, ran, sentTo>>
           /\ outcome' \in {outcome, [outcome EXCEPT ![t] = "attribute_error"]}
<1> USE DEF Goto, Raise, TypeInv, TypeOK, sessionVars, workerVars
<1>1. CASE Close(t) \/ Acquire(t) \/ Ensure(t)
  BY <1>1 DEF Close, CheckAttached, CheckAlive, CheckGone, Acquire, Ensure, Entry
<1>2. CASE Release(t)
  BY <1>2 DEF Release
<1>3. CASE Start(t)
  BY <1>3 DEF Start, BuildWorkdir, BuildWorkdirFails, NewQueue, Spawn, SpawnFails,
              StartReaderFails
<1>4. CASE Write(t)
  BY <1>4 DEF Write, Send, SendUnattached, SendBroken, Flushed, FlushBroken
<1>5. CASE Await(t) \/ TimesOut(t)
  BY <1>5 DEF Await, BindQueue, QueueGone, StillEmpty, EmptyAndDead, TimesOut
<1>6. CASE Take(t)
  BY <1>6 DEF Take, TakeBroken, TakeStale, TakeReply, TakeInitReply, TakeItem
<1>7. CASE Terminate(t)
  BY <1>7 DEF Terminate, ReadProcess, ClearProcess, ClearQueue, Kill, Cleanup, Remove, RemoveGone,
              Forget
<1> QED
  BY <1>1, <1>2, <1>3, <1>4, <1>5, <1>6, <1>7 DEF Step

\* Leaving a method returns from its call: with a result only when it was earned.
LEMMA LeavingReturns ==
    ASSUME TypeInv, ResultInv, NEW t \in Threads, Step(t) \/ TimesOut(t),
           pc'[t] = "idle"
    PROVE  Promise!Next
<1>1. /\ pc[t] # "idle" /\ UNCHANGED <<calls, call, op>>
      /\ \A u \in Threads \ {t} : pc'[u] = pc[u]
  BY StepFrame
<1>2. /\ UNCHANGED <<stdin, ran, sentTo>>
      /\ outcome' \in {outcome, [outcome EXCEPT ![t] = "attribute_error"]}
      /\ \A u \in Threads \ {t} : outcome'[u] = outcome[u]
  BY ReturnFrame, StepFrame
<1>3. UNCHANGED <<SubmittedCalls, PendingCalls, WorkedCalls>>
  BY <1>2 DEF SubmittedCalls, PendingCalls, WorkedCalls
<1>4. /\ CurrentCalls[t] = call[t] /\ call[t] # None
      /\ CurrentCalls' = [CurrentCalls EXCEPT ![t] = None]
  BY <1>1 DEF CurrentCalls, TypeInv, CalledInv
<1>5. Vouched(t)' \in BOOLEAN /\ \A u \in Threads \ {t} : Vouched(u)' = Vouched(u)
  BY <1>1, <1>2 DEF Vouched
<1>6. VouchedCalls' = [VouchedCalls EXCEPT ![t] = Vouched(t)']
  BY <1>5 DEF VouchedCalls
<1>7. Vouched(t)' => call[t] \in WorkedCalls
  <2>1. Vouched(t)' => op[t] \in Worked /\ outcome[t] \in Done
    BY <1>1, <1>2 DEF Vouched, Worked, Done, TypeInv, TypeOK
  <2> QED
    BY <2>1 DEF ResultInv, Earned, WorkedCalls
<1>8. Promise!Return(t, Vouched(t)')
  BY <1>1, <1>3, <1>4, <1>6, <1>7 DEF Promise!Return, Promise!None, None
<1> QED
  BY <1>5, <1>8 DEF Promise!Next

\* A step of a thread begins no call; it submits, returns, or loses at most.
LEMMA StepKeepsPromise ==
    ASSUME IInv, PendingInv, NEW t \in Threads, Step(t) \/ TimesOut(t)
    PROVE  [Promise!Next]_Promise!vars
<1>1. TypeInv /\ CallInv /\ SentInv /\ ResultInv
  BY DEF IInv, StartInv
<1>2. CASE Send(t)
  BY <1>1, <1>2, SendSubmits
<1>3. CASE pc'[t] = "idle"
  BY <1>1, <1>3, LeavingReturns
<1>4. CASE ~Send(t) /\ pc'[t] # "idle"
  <2>1. UNCHANGED <<calls, CurrentCalls, VouchedCalls>>
    BY <1>1, <1>4, StepFrame, InCall
  <2>2. /\ UNCHANGED <<ran, sentTo>>
        /\ \A w \in Workers : stdin'[w] \in {stdin[w], <<>>}
    BY <1>1, <1>4, StdinFrame
  <2>3. PendingCalls' \subseteq PendingCalls
    BY <2>2, PendingFrame
  <2>4. UNCHANGED <<SubmittedCalls, WorkedCalls>>
    BY <2>2 DEF SubmittedCalls, WorkedCalls
  <2> QED
    BY <2>1, <2>3, <2>4, LosesOnly
<1> QED
  BY <1>2, <1>3, <1>4

\* A worker works on a call, or loses requests.
LEMMA WorkerKeepsPromise ==
    ASSUME IInv, PendingInv, NEW w \in Workers, Handle(w) \/ Crash(w) \/ Collect(w)
    PROVE  [Promise!Next]_Promise!vars
<1>1. TypeInv /\ SentInv
  BY DEF IInv, StartInv
<1>2. UNCHANGED <<calls, CurrentCalls, SubmittedCalls, VouchedCalls>>
  <2>1. UNCHANGED <<threadVars, calls, sentTo>>
    BY WorkerFrame
  <2>2. \A t \in Threads : Vouched(t)' = Vouched(t)
    BY <2>1 DEF Vouched, threadVars
  <2> QED
    BY <2>1, <2>2 DEF CurrentCalls, SubmittedCalls, VouchedCalls, threadVars
<1>3. CASE Handle(w)
  <2>1. CASE PendingCalls' \subseteq PendingCalls /\ WorkedCalls' = WorkedCalls
    BY <1>2, <2>1, LosesOnly
  <2>2. ASSUME NEW c \in PendingCalls, PendingCalls' = PendingCalls \ {c},
               WorkedCalls' = WorkedCalls \cup {c}
        PROVE  Promise!Next
    <3>1. Promise!Work(c)
      BY <1>2, <2>2 DEF Promise!Work
    <3> QED
      BY <3>1 DEF Promise!Next
  <2> QED
    BY <1>1, <1>3, <2>1, <2>2, HandlePending
<1>4. CASE Crash(w) \/ Collect(w)
  <2>1. UNCHANGED <<ran, sentTo>> /\ \A v \in Workers : stdin'[v] \in {stdin[v], <<>>}
    BY <1>1, <1>4 DEF Crash, Collect, TypeInv, TypeOK
  <2>2. PendingCalls' \subseteq PendingCalls
    BY <2>1, PendingFrame
  <2> QED
    BY <1>2, <2>1, <2>2, LosesOnly DEF WorkedCalls
<1> QED
  BY <1>3, <1>4

\* Every step is one of SandboxCalls, or leaves what callers see as it is.
LEMMA Simulates ==
    ASSUME IInv, PendingInv, [Next]_vars
    PROVE  [Promise!Next]_Promise!vars
<1>1. CASE UNCHANGED vars
  <2>1. \A t \in Threads : Vouched(t)' = Vouched(t)
    BY <1>1 DEF vars, threadVars, Vouched
  <2>2. UNCHANGED <<CurrentCalls, SubmittedCalls, PendingCalls, WorkedCalls, VouchedCalls>>
    BY <1>1, <2>1 DEF vars, threadVars, workerVars, CurrentCalls, SubmittedCalls,
                      PendingCalls, WorkedCalls, VouchedCalls
  <2> QED
    BY <1>1, <2>2 DEF vars, Promise!vars
<1>2. ASSUME NEW t \in Threads, NEW o \in Ops \cup {"create"}, Invoke(t, o)
      PROVE  [Promise!Next]_Promise!vars
  BY <1>2, InvokeBegins DEF IInv, StartInv
<1> QED
  BY <1>1, <1>2, StepKeepsPromise, WorkerKeepsPromise DEF Next

\* No call has been made, and nothing submitted, at the start.
LEMMA InitPromise == Init => Promise!Init
<1> SUFFICES ASSUME Init PROVE Promise!Init
  OBVIOUS
<1>1. \A t \in Threads : Vouched(t) = FALSE
  BY DEF Init, Vouched
<1>2. CurrentCalls = [t \in Threads |-> None] /\ VouchedCalls = [t \in Threads |-> FALSE]
  BY <1>1 DEF Init, CurrentCalls, VouchedCalls
<1>3. SubmittedCalls = {} /\ PendingCalls = {} /\ WorkedCalls = {}
  BY OwnEmpty DEF Init, SubmittedCalls, PendingCalls, WorkedCalls
<1> QED
  BY <1>2, <1>3 DEF Init, Promise!Init, Promise!None, None

\* A session executes its calls at most once, whatever crashes, times out or is
\* terminated by another thread on the way (manager.py:166, 188): it implements
\* SandboxCalls.
THEOREM ExecutesAtMostOnce == Spec => AtMostOnceCalls
<1>1. IInv /\ PendingInv /\ [Next]_vars => PendingInv'
  BY NextPendingInv
<1>2. IInv /\ PendingInv /\ [Next]_vars => [Promise!Next]_Promise!vars
  BY Simulates
<1> QED
  BY <1>1, <1>2, InitPendingInv, InitPromise, Inductive, PTL
  DEF Spec, AtMostOnceCalls, Promise!Spec

-----------------------------------------------------------------------------
(* What ends a worker.                                                     *)

\* A thread whose call is not to end the worker it finds terminates under the lock,
\* and comes upon no running worker there but the one it has started.
Harmless(t) ==
    /\ pc[t] \notin {"closing", "polling"}
    /\ pc[t] \in TerminateSteps => cont[t] # "idle"
    /\ pc[t] \in {"send", "flush", "await", "get"} /\ sending[t] = "init" =>
         process \in {None, call[t]}
    /\ pc[t] = "read" /\ Alive(process) => process = call[t]
    /\ pc[t] \in Killing /\ Alive(bound[t]) => bound[t] = call[t]

EndInv == \A t \in Threads : ~IsToEnd(t) => Harmless(t)

\* While a thread is under the lock, another starts no worker.
LEMMA HarmlessFrame ==
    ASSUME TypeInv, LockInv, EndInv, NEW t \in Threads, Step(t) \/ TimesOut(t),
           NEW u \in Threads \ {t}, ~IsToEnd(u)'
    PROVE  Harmless(u)'
<1>1. /\ pc'[u] = pc[u] /\ cont'[u] = cont[u] /\ sending'[u] = sending[u]
      /\ bound'[u] = bound[u] /\ op' = op /\ call' = call
      /\ outcome'[u] = outcome[u]
  BY StepFrame
<1>2. Harmless(u)
  BY <1>1 DEF EndInv, IsToEnd
<1>3. CASE ~InLock(u)
  BY <1>1, <1>2, <1>3 DEF Harmless, InLock, UnderLock, TerminateSteps, Killing
<1>4. CASE InLock(u)
  <2>1. process' \in {process, None}
    BY <1>4, LockedOut
  <2>2. ~Spawns(t)
    BY <1>4 DEF LockInv, InLock, UnderLock, Spawns, Spawn, StartReaderFails, Raise, Goto
  <2>3. /\ \A v \in Workers : Alive(v)' => Alive(v)
        /\ process \in OrNone(Workers) /\ bound[u] \in OrNone(Workers)
        /\ ~Alive(None)
    BY <2>2, RunFrame DEF TypeInv, TypeOK, Alive
  <2>4. /\ Alive(process)' => Alive(process) /\ process' = process
        /\ Alive(bound[u])' => Alive(bound[u])
    BY <1>1, <2>1, <2>3 DEF Alive, OrNone
  <2> QED
    BY <1>1, <1>2, <2>1, <2>4 DEF Harmless, Alive
<1> QED
  BY <1>3, <1>4

\* A step of a thread that is not to end a worker brings it to none to end.
LEMMA HarmlessStep ==
    ASSUME TypeInv, LockInv, RefInv, EndInv, NEW t \in Threads, Step(t) \/ TimesOut(t),
           ~IsToEnd(t)'
    PROVE  Harmless(t)'
<1> USE DEF Goto, Raise, TypeInv, TypeOK, sessionVars, workerVars, TerminateSteps,
            Killing, Harmless
<1>1. UNCHANGED <<op, call>> /\ pc'[t] # "closing"
  BY StepFrame
<1>2. outcome' = outcome => ~IsToEnd(t) /\ Harmless(t)
  BY <1>1 DEF EndInv, IsToEnd
<1>3. Alive(process)' <=> IF process' = None THEN FALSE
                          ELSE worker'[process'] \in {"fresh", "ready"}
  BY DEF Alive
<1>4. CASE Close(t)
  BY <1>2, <1>4 DEF Close, CheckAttached, CheckAlive, CheckGone
<1>5. CASE Acquire(t)
  BY <1>1, <1>2, <1>5 DEF Acquire, Entry, IsToEnd
<1>6. CASE Ensure(t)
  <2>1. cont[t] = "workdir" /\ ActionOf(op[t]) # "init"
    BY <1>6 DEF Ensure, LockInv, RefInv, RefersTo
  <2>2. /\ sending'[t] = ActionOf(op[t])
        /\ pc'[t] = IF Alive(process) THEN "send" ELSE "read"
    BY <1>6 DEF Ensure, Reusable
  <2>3. cont' = cont /\ (Alive(process)' <=> Alive(process))
    BY <1>6 DEF Ensure, Alive
  <2> QED
    BY <1>1, <2>1, <2>2, <2>3
<1>7. CASE Release(t)
  BY <1>1, <1>7, AfterLockType DEF Release, AfterLock, Terminates, IsToEnd
<1>8. CASE Start(t)
  BY <1>1, <1>8 DEF Start, BuildWorkdir, BuildWorkdirFails, NewQueue, Spawn, SpawnFails,
              StartReaderFails
<1>9. CASE Write(t)
  BY <1>1, <1>2, <1>9 DEF Write, Send, SendUnattached, SendBroken, Flushed, FlushBroken
<1>10. CASE Await(t) \/ TimesOut(t)
  BY <1>1, <1>2, <1>10
  DEF Await, BindQueue, QueueGone, StillEmpty, EmptyAndDead, TimesOut
<1>11. CASE TakeBroken(t) \/ TakeStale(t) \/ TakeReply(t)
  BY <1>1, <1>2, <1>11 DEF TakeBroken, TakeStale, TakeReply, TakeItem
<1>12. CASE TakeInitReply(t)
  <2>1. pc[t] = "get" /\ sending[t] = "init" /\ process' = process
    BY <1>12 DEF TakeInitReply, TakeItem
  <2>2. CASE pc'[t] = "read"
    <3>1. cont'[t] = "release" /\ outcome'[t] = "process_error"
      BY <1>12, <2>2 DEF TakeInitReply
    <3>2. ~IsToEnd(t)
      BY <1>1, <3>1 DEF IsToEnd
    <3>3. process \in {None, call[t]}
      BY <2>1, <3>2 DEF EndInv
    <3> QED
      BY <1>1, <1>3, <2>1, <2>2, <3>1, <3>3
  <2>3. CASE pc'[t] # "read"
    BY <1>12, <2>3 DEF TakeInitReply
  <2> QED
    BY <2>2, <2>3
<1>13. CASE ReadProcess(t) \/ ClearProcess(t) \/ ClearQueue(t)
  BY <1>1, <1>2, <1>13 DEF ReadProcess, ClearProcess, ClearQueue, Alive
<1>14. CASE Kill(t)
  BY <1>1, <1>2, <1>14 DEF Kill
<1>15. CASE Cleanup(t) \/ Remove(t) \/ RemoveGone(t) \/ Forget(t)
  BY <1>1, <1>2, <1>15 DEF Cleanup, Remove, RemoveGone, Forget
<1> QED
  BY <1>4, <1>5, <1>6, <1>7, <1>8, <1>9, <1>10, <1>11, <1>12, <1>13, <1>14, <1>15
  DEF Step, Take, Terminate

\* Every step keeps the threads harmless.
LEMMA NextEndInv ==
    ASSUME IInv, EndInv, [Next]_vars
    PROVE  EndInv'
<1>1. TypeInv /\ LockInv /\ RefInv
  BY DEF IInv, StartInv
<1>2. ASSUME NEW t \in Threads, NEW o \in Ops \cup {"create"}, Invoke(t, o),
             NEW u \in Threads, ~IsToEnd(u)'
      PROVE  Harmless(u)'
  <2>1. CASE u = t
    <3>1. o # "close" /\ pc'[t] = "acquire"
      BY <1>1, <1>2, <2>1 DEF Invoke, IsToEnd, TypeInv, TypeOK
    <3> QED
      BY <2>1, <3>1 DEF Harmless, TerminateSteps, Killing
  <2>2. CASE u # t
    <3>1. /\ pc'[u] = pc[u] /\ call'[u] = call[u] /\ op'[u] = op[u]
          /\ outcome'[u] = outcome[u]
          /\ UNCHANGED <<process, worker, sending, bound, cont>>
      BY <1>1, <1>2, <2>2 DEF Invoke, sessionVars, workerVars, TypeInv, TypeOK
    <3> QED
      BY <1>2, <3>1 DEF EndInv, Harmless, IsToEnd, Alive
  <2> QED
    BY <2>1, <2>2
<1>3. ASSUME NEW t \in Threads, Step(t) \/ TimesOut(t), NEW u \in Threads, ~IsToEnd(u)'
      PROVE  Harmless(u)'
  BY <1>1, <1>3, HarmlessStep, HarmlessFrame
<1>4. ASSUME UNCHANGED <<sessionVars, threadVars>>,
             \A v \in Workers : Alive(v)' => Alive(v)
      PROVE  EndInv'
  <2>1. process \in OrNone(Workers) /\ \A u \in Threads : bound[u] \in OrNone(Workers)
    BY <1>1 DEF TypeInv, TypeOK
  <2>2. /\ Alive(process)' => Alive(process)
        /\ \A u \in Threads : Alive(bound[u])' => Alive(bound[u])
    BY <1>4, <2>1 DEF Alive, OrNone, sessionVars, threadVars
  <2> QED
    BY <1>4, <2>2 DEF EndInv, Harmless, IsToEnd, sessionVars, threadVars
<1>5. ASSUME NEW w \in Workers, Handle(w) \/ Crash(w) \/ Collect(w)
      PROVE  EndInv'
  BY <1>1, <1>4, <1>5, WorkerFrame, WorkerRunFrame
<1>6. CASE UNCHANGED vars
  BY <1>4, <1>6 DEF vars, workerVars, Alive
<1> QED
  BY <1>2, <1>3, <1>5, <1>6 DEF Next, EndInv

\* The variables a client has in a worker are lost to a crash, to the methods that
\* are to end the worker and to an execute that reports so, and to nothing else
\* (manager.py:154, 158-160).
THEOREM WorkersEndForAReason == Spec => EndsWorkerForAReason
<1> DEFINE Ends == \A t \in Threads, w \in Workers :
                      Alive(w) /\ Kill(t) /\ worker'[w] = "dead" =>
                          IsToEnd(t) \/ w = call[t]
<1>1. Init => EndInv
  BY DEF Init, EndInv, Harmless, TerminateSteps, Killing
<1>2. IInv /\ EndInv /\ [Next]_vars => EndInv'
  BY NextEndInv
<1>3. IInv /\ EndInv /\ [Next]_vars => [Ends]_vars
  <2> SUFFICES ASSUME IInv, EndInv, NEW t \in Threads, NEW w \in Workers,
                      Alive(w), Kill(t), worker'[w] = "dead"
               PROVE  IsToEnd(t) \/ w = call[t]
    OBVIOUS
  <2>1. pc[t] = "kill" /\ bound[t] = w
    BY DEF Kill, Goto, Alive, IInv, StartInv, TypeInv, TypeOK
  <2> QED
    BY <2>1 DEF EndInv, Harmless, Killing
<1> QED
  BY <1>1, <1>2, <1>3, Inductive, PTL DEF Spec, EndsWorkerForAReason

=============================================================================
