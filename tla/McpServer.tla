------------------------------ MODULE McpServer ------------------------------
(***************************************************************************)
(* The server side of lib/mcp_server: MCPServerSession and the transport   *)
(* that feeds it, either StreamableHTTPTransport with its store of         *)
(* sessions or StdioMCPServerTransport with its only session.              *)
(*                                                                         *)
(* Everything runs in one event loop: a handler keeps it until it awaits   *)
(* something, which is its next request, a tool (or a resource or a        *)
(* prompt), or the connection it writes to.  loop is the handler that has  *)
(* the event loop between two such points.                                 *)
(*                                                                         *)
(* A message is what the session distinguishes of it: its method, whether  *)
(* it has an id, and whether its parameters are valid.  A body is the      *)
(* sequence of messages of a request; one that is no batch has length one. *)
(***************************************************************************)
EXTENDS Naturals, Sequences, FiniteSets

CONSTANTS
    Clients,        \* the HTTP connections
    Stdio,          \* the connection of the stdio transport
    Nobody,         \* the holder of a free event loop
    Bodies,         \* the bodies the clients send
    Flaws,          \* what may be wrong with an HTTP request, see FlawStatus
    MaxSessions,    \* bound: how many sessions are created; at least MaxRequests
                    \* where liveness is checked
    MaxRequests     \* bound: how many requests are made

Connections == Clients \cup {Stdio}

ASSUME ConnectionAssumption == Stdio \notin Clients /\ Nobody \notin Connections
\* A method stands for all that are handled alike; no request can be made of a
\* malformed message.
Messages ==
    [method : {"malformed", "initialize", "ping", "notifications", "list", "call",
               "unknown"},
     id : {"present", "absent", "invalid"}, valid : BOOLEAN]

ASSUME BodyAssumption == Bodies \subseteq Seq(Messages)
ASSUME FlawAssumption ==
    Flaws \subseteq {"line", "path", "token", "origin", "verb", "accept", "json"}
ASSUME BoundAssumption == MaxSessions \in Nat \ {0} /\ MaxRequests \in Nat

VARIABLES
    transport,      \* "http" or "stdio"
    loop,           \* the handler that runs, or Nobody
    store,          \* the sessions in _HTTPSessionStore
    initialized,    \* _initialized of each session
    created,        \* how many sessions have been created
    ended,          \* how the server has ended: "no", "eof", "interrupt", "error"
    pc,             \* where each connection's handler is
    req,            \* its request
    session,        \* the session it is handled by
    fresh,          \* has the request created that session
    pos,            \* the message of the body that is handled
    replies,        \* the messages answered so far
    response,       \* what the request is answered with
    requests,       \* how many requests have been made
    known,          \* history: the sessions a client has been told of
    abandoned,      \* history: those whose answer was lost or never written
    overtaken,      \* history: those deleted while a handler worked on them
    confirmed       \* history: how often initialize was answered with a result

serverVars == <<transport, store, initialized, created, ended>>
handlerVars == <<req, session, fresh, pos, replies, response>>
historyVars == <<requests, known, abandoned, overtaken, confirmed>>
vars == <<loop, pc, serverVars, handlerVars, historyVars>>

None == 0
Sessions == 1 .. MaxSessions
Unknown == MaxSessions + 1      \* an id the server never gave out
SessionIds == Sessions \cup {None, Unknown}

\* The first thing wrong with an HTTP request, and how it is answered.
FlawStatus(flaw, verb) ==
    CASE flaw = "line" -> 500
      [] flaw = "path" -> 404
      [] flaw = "token" -> 401
      [] flaw = "origin" -> 403
      [] flaw = "verb" -> 405
      [] flaw = "accept" -> IF verb = "POST" THEN 406 ELSE 405
      [] flaw = "json" -> 400

NoRequest == [verb |-> "POST", flaw |-> "none", id |-> None, body |-> <<>>]
NoResponse == [status |-> 0, id |-> None]

Init ==
    /\ transport \in {"http", "stdio"}
    /\ loop = Nobody
    /\ store = {}
    /\ initialized = [s \in Sessions |-> FALSE]
    /\ created = IF transport = "stdio" THEN 1 ELSE 0
    /\ ended = "no"
    /\ pc = [c \in Connections |-> "idle"]
    /\ req = [c \in Connections |-> NoRequest]
    /\ session = [c \in Connections |-> None]
    /\ fresh = [c \in Connections |-> FALSE]
    /\ pos = [c \in Connections |-> 1]
    /\ replies = [c \in Connections |-> <<>>]
    /\ response = [c \in Connections |-> NoResponse]
    /\ requests = 0
    /\ known = {}
    /\ abandoned = {}
    /\ overtaken = {}
    /\ confirmed = [s \in Sessions |-> 0]

\* What a handler has when it starts, and nothing of it after it returned.
Forget(c) ==
    /\ req' = [req EXCEPT ![c] = NoRequest]
    /\ session' = [session EXCEPT ![c] = None]
    /\ fresh' = [fresh EXCEPT ![c] = FALSE]
    /\ pos' = [pos EXCEPT ![c] = 1]
    /\ replies' = [replies EXCEPT ![c] = <<>>]
    /\ response' = [response EXCEPT ![c] = NoResponse]

Goto(c, from, to) == ended = "no" /\ pc[c] = from /\ pc' = [pc EXCEPT ![c] = to]

\* A handler runs from one await to the next.
Takes(c) == loop = Nobody /\ loop' = c
Keeps(c) == loop = c /\ UNCHANGED loop
Gives(c) == loop = c /\ loop' = Nobody
Passes == loop = Nobody /\ UNCHANGED loop

-----------------------------------------------------------------------------
(* MCPServerSession                                                        *)

IsNotification(m) == m.id = "absent"

\* Variant: a session is initialized as often as it is asked to be.
InitializeAgain(m, ready) ==
    IF IsNotification(m) \/ ~m.valid THEN "refuse" ELSE "initialize"

\* _handle_initialize
HandleInitialize(m, ready) ==
    IF ready \/ IsNotification(m) \/ ~m.valid THEN "refuse" ELSE "initialize"

\* The handlers of tools, resources and prompts: those that list, and those
\* that call something.
HandleList(m) ==
    IF IsNotification(m) THEN "silence" ELSE IF m.valid THEN "result" ELSE "refuse"
HandleCall(m) ==
    IF IsNotification(m) \/ ~m.valid THEN "refuse" ELSE "await"

\* What becomes of a message: parse_request, then _dispatch_request.  An error
\* response cannot be made with an id that is not a string, a number or null:
\* the exception leaves handle_message.
Verdict(m, ready) ==
    IF m.id = "invalid" THEN "raise"
    ELSE CASE m.method = "malformed" -> "refuse"
           [] m.method = "initialize" -> HandleInitialize(m, ready)
           [] m.method = "ping" ->
                IF IsNotification(m) THEN "silence" ELSE "result"
           [] m.method = "notifications" -> "silence"
           [] m.method = "list" ->
                IF ready THEN HandleList(m) ELSE "refuse"
           [] m.method = "call" ->
                IF ready THEN HandleCall(m) ELSE "refuse"
           [] m.method = "unknown" -> "refuse"

\* Variant: an error is answered even if nothing asked for it.
AnswersErrors(m, verdict) == verdict # "silence"

\* Is there a response?  A message that is no request is told so, whether or
\* not it has an id.
Answers(m, verdict) ==
    \/ m.method = "malformed"
    \/ verdict # "silence" /\ ~IsNotification(m)

-----------------------------------------------------------------------------
(* Requests                                                                *)

\* A client sends a request; it knows only the session ids it was told.
Send(c, r) ==
    /\ Goto(c, "idle", "ready")
    /\ requests < MaxRequests
    /\ requests' = requests + 1
    /\ IF transport = "http" THEN c # Stdio /\ r.id \in known \cup {None, Unknown}
       ELSE c = Stdio /\ r.id = None /\ r.verb = "POST" /\ r.flaw \in {"none", "json"}
    /\ req' = [req EXCEPT ![c] = r]
    /\ UNCHANGED <<loop, serverVars, session, fresh, pos, replies, response, known,
                   abandoned, overtaken, confirmed>>

ContainsInitialize(body) == \E i \in DOMAIN body : body[i].method = "initialize"

\* Why a request is turned down before any session sees it, or 0.
Refusal(r) ==
    IF r.flaw # "none" THEN FlawStatus(r.flaw, r.verb)
    ELSE IF r.id = None
         THEN IF r.verb = "POST" /\ ContainsInitialize(r.body) THEN 0 ELSE 400
         ELSE IF r.id \in store THEN 0 ELSE 404

Refuse(c) ==
    /\ Goto(c, "ready", "respond")
    /\ transport = "http"
    /\ Passes
    /\ Refusal(req[c]) # 0
    /\ response' = [response EXCEPT ![c] = [status |-> Refusal(req[c]), id |-> None]]
    /\ UNCHANGED <<serverVars, req, session, fresh, pos, replies, historyVars>>

\* A line that is not JSON.
RefuseLine(c) ==
    /\ Goto(c, "ready", "idle")
    /\ transport = "stdio"
    /\ Passes
    /\ req[c].flaw = "json"
    /\ Forget(c)
    /\ UNCHANGED <<serverVars, historyVars>>

\* _handle_post finds the session, or creates one; a line goes to the session
\* of the transport.
StartsIn(c, s, new) ==
    /\ Goto(c, "ready", "handling")
    /\ Takes(c)
    /\ session' = [session EXCEPT ![c] = s]
    /\ fresh' = [fresh EXCEPT ![c] = new]
    /\ UNCHANGED <<transport, initialized, ended, req, pos, replies, response,
                   historyVars>>

Post(c) ==
    /\ transport = "http" /\ req[c].verb = "POST" /\ Refusal(req[c]) = 0
    /\ req[c].id # None
    /\ StartsIn(c, req[c].id, FALSE)
    /\ UNCHANGED <<store, created>>

PostNew(c) ==
    /\ transport = "http" /\ req[c].verb = "POST" /\ Refusal(req[c]) = 0
    /\ req[c].id = None
    /\ created < MaxSessions
    /\ StartsIn(c, created + 1, TRUE)
    /\ created' = created + 1
    /\ store' = store \cup {created + 1}

Line(c) ==
    /\ transport = "stdio" /\ req[c].flaw = "none"
    /\ StartsIn(c, 1, FALSE)
    /\ UNCHANGED <<store, created>>

\* The next message of the body is one with that verdict.
Faces(c, verdict) ==
    /\ pos[c] \in DOMAIN req[c].body
    /\ Verdict(req[c].body[pos[c]], initialized[session[c]]) = verdict

\* Variant: the handler waits for the tool without giving the event loop back.
HandleBlocking(c) ==
    /\ Goto(c, "handling", "tool")
    /\ Keeps(c)
    /\ Faces(c, "await")
    /\ UNCHANGED <<serverVars, handlerVars, historyVars>>

\* _handle_single_payload on the next message, until the first await.
Handle(c) ==
    /\ Goto(c, "handling", "handling")
    /\ Keeps(c)
    /\ \E verdict \in {"initialize", "result", "refuse", "silence"} :
          /\ Faces(c, verdict)
          /\ replies' = IF Answers(req[c].body[pos[c]], verdict)
                        THEN [replies EXCEPT ![c] = Append(@, pos[c])] ELSE replies
          /\ initialized' =
                [initialized EXCEPT ![session[c]] = @ \/ verdict = "initialize"]
          /\ confirmed' = IF verdict = "initialize"
                          THEN [confirmed EXCEPT ![session[c]] = @ + 1] ELSE confirmed
    /\ pos' = [pos EXCEPT ![c] = @ + 1]
    /\ UNCHANGED <<transport, store, created, ended, req, session, fresh, response,
                   requests, known, abandoned, overtaken>>

Await(c) ==
    /\ Goto(c, "handling", "tool")
    /\ Gives(c)
    /\ Faces(c, "await")
    /\ UNCHANGED <<serverVars, handlerVars, historyVars>>

\* The tool returns or raises, or there is none of that name: either way there is
\* a response.
ToolDone(c) ==
    /\ Goto(c, "tool", "handling")
    /\ Takes(c)
    /\ pos' = [pos EXCEPT ![c] = @ + 1]
    /\ replies' = [replies EXCEPT ![c] = Append(@, pos[c])]
    /\ UNCHANGED <<serverVars, req, session, fresh, response, historyVars>>

\* The exception leaves handle_message: _handle_client answers 500, and what
\* _handle_post had left to do is not done.
Raise(c) ==
    /\ transport = "http"
    /\ Goto(c, "handling", "respond")
    /\ Gives(c)
    /\ Faces(c, "raise")
    /\ response' = [response EXCEPT ![c] = [status |-> 500, id |-> None]]
    /\ abandoned' = abandoned \cup {s \in {session[c]} : fresh[c]}
    /\ UNCHANGED <<serverVars, req, session, fresh, pos, replies, requests, known,
                   overtaken, confirmed>>

\* serve_forever of the stdio transport has no except clause.
RaiseLine(c) ==
    /\ transport = "stdio"
    /\ Goto(c, "handling", "idle")
    /\ Gives(c)
    /\ Faces(c, "raise")
    /\ ended' = "error"
    /\ Forget(c)
    /\ UNCHANGED <<transport, store, initialized, created, historyVars>>

\* The response to a body; the empty batch is answered with an error.
StatusOf(c) == IF replies[c] = <<>> /\ req[c].body # <<>> THEN 202 ELSE 200

Finished(c, response_id, kept) ==
    /\ pos[c] > Len(req[c].body)
    /\ transport = "http"
    /\ Goto(c, "handling", "respond")
    /\ Gives(c)
    /\ store' = kept
    /\ response' = [response EXCEPT ![c] = [status |-> StatusOf(c), id |-> response_id]]
    /\ UNCHANGED <<transport, initialized, created, ended, req, session, fresh, pos,
                   replies, historyVars>>

Useless(c) == fresh[c] /\ ~initialized[session[c]]

\* Variants: the session is kept; its id is sent although it is not kept.
FinishKeeping(c) == Finished(c, IF Useless(c) THEN None ELSE session[c], store)
FinishNaming(c) ==
    Finished(c, session[c], IF Useless(c) THEN store \ {session[c]} ELSE store)

\* Variant: a request deletes the session it has created, whatever it made of it.
FinishDropping(c) ==
    Finished(c, IF Useless(c) THEN None ELSE session[c],
                IF fresh[c] THEN store \ {session[c]} ELSE store)

\* A session its request has not initialized is deleted again.
Finish(c) ==
    Finished(c, IF Useless(c) THEN None ELSE session[c],
                IF Useless(c) THEN store \ {session[c]} ELSE store)

FinishLine(c) ==
    /\ pos[c] > Len(req[c].body)
    /\ transport = "stdio"
    /\ Goto(c, "handling", "idle")
    /\ Gives(c)
    /\ Forget(c)
    /\ UNCHANGED <<serverVars, historyVars>>

\* _handle_delete
Delete(c) ==
    /\ transport = "http" /\ req[c].verb = "DELETE" /\ Refusal(req[c]) = 0
    /\ Goto(c, "ready", "respond")
    /\ Passes
    /\ store' = store \ {req[c].id}
    /\ response' = [response EXCEPT ![c] = [status |-> 204, id |-> None]]
    /\ overtaken' = overtaken \cup
          {s \in {req[c].id} : \E d \in Clients : session[d] = s /\ pc[d] # "idle"}
    /\ UNCHANGED <<transport, initialized, created, ended, req, session, fresh, pos,
                   replies, requests, known, abandoned, confirmed>>

\* _handle_get: a stream of keepalive comments until the client hangs up.
Stream(c) ==
    /\ transport = "http" /\ req[c].verb = "GET" /\ Refusal(req[c]) = 0
    /\ Goto(c, "ready", "stream")
    /\ Passes
    /\ UNCHANGED <<serverVars, handlerVars, historyVars>>

HangUp(c) ==
    /\ Goto(c, "stream", "idle")
    /\ Passes
    /\ Forget(c)
    /\ UNCHANGED <<serverVars, historyVars>>

\* The response reaches the client, or its connection is gone.
Answered(c) ==
    /\ Goto(c, "respond", "idle")
    /\ Passes
    /\ Forget(c)
    /\ UNCHANGED <<serverVars, requests, overtaken, confirmed>>

Deliver(c) ==
    /\ Answered(c)
    /\ known' = known \cup ({response[c].id} \ {None})
    /\ UNCHANGED abandoned

Lose(c) ==
    /\ Answered(c)
    /\ abandoned' = abandoned \cup ({response[c].id} \ {None})
    /\ UNCHANGED known

\* stdin ends; the HTTP server is interrupted.
End(how) ==
    /\ ended = "no"
    /\ Passes
    /\ ended' = how
    /\ UNCHANGED <<transport, store, initialized, created, pc, handlerVars, historyVars>>
Eof == transport = "stdio" /\ pc[Stdio] = "idle" /\ End("eof")
Interrupt == transport = "http" /\ End("interrupt")

-----------------------------------------------------------------------------
HttpRequests ==
    [verb : {"POST"}, flaw : {"none"}, id : SessionIds, body : Bodies] \cup
    [verb : {"GET", "DELETE"}, flaw : {"none"}, id : SessionIds, body : {<<>>}] \cup
    [verb : {"POST"}, flaw : Flaws, id : {None}, body : {<<>>}] \cup
    [verb : {"GET"}, flaw : Flaws \ {"json"}, id : {None}, body : {<<>>}]

\* The steps that need nothing but the event loop.
LoopStep(c) ==
    \/ Refuse(c)
    \/ RefuseLine(c)
    \/ Post(c)
    \/ PostNew(c)
    \/ Line(c)
    \/ Handle(c)
    \/ Await(c)
    \/ Raise(c)
    \/ RaiseLine(c)
    \/ Finish(c)
    \/ FinishLine(c)
    \/ Delete(c)
    \/ Stream(c)

Next ==
    \/ \E c \in Connections :
          \/ \E r \in HttpRequests : Send(c, r)
          \/ LoopStep(c)
          \/ ToolDone(c)
          \/ HangUp(c)
          \/ Deliver(c)
          \/ Lose(c)
    \/ Eof
    \/ Interrupt

Spec == Init /\ [][Next]_vars

\* The event loop serves every handler that can go on; no tool has to return
\* and no client has to read its response.
FairSpec == Spec /\ \A c \in Connections : WF_vars(LoopStep(c))

-----------------------------------------------------------------------------
Types ==
    /\ transport \in {"http", "stdio"}
    /\ loop \in Connections \cup {Nobody}
    /\ store \subseteq 1 .. created
    /\ initialized \in [Sessions -> BOOLEAN]
    /\ created \in 0 .. MaxSessions
    /\ ended \in {"no", "eof", "interrupt", "error"}
    /\ pc \in [Connections -> {"idle", "ready", "handling", "tool", "respond", "stream"}]
    /\ req \in [Connections -> HttpRequests \cup {NoRequest}]
    /\ session \in [Connections -> SessionIds]
    /\ fresh \in [Connections -> BOOLEAN]
    /\ pos \in [Connections -> Nat]
    /\ replies \in [Connections -> Seq(Nat)]
    /\ response \in [Connections -> [status : Nat, id : SessionIds]]
    /\ known \subseteq Sessions
    /\ confirmed \in [Sessions -> Nat]

InBody == \A c \in Connections : pos[c] \in 1 .. Len(req[c].body) + 1
HasLoop == \A c \in Connections : pc[c] = "handling" <=> loop = c

\* The types of the variables; a handler stays within its body, and has the event
\* loop exactly while it works on a message.
TypeOK == Types /\ InBody /\ HasLoop

\* A stored session is initialized and some client knows its id, unless the
\* request that created it is still being handled or answered, its answer was
\* lost with the connection, or its handler raised (streamable_http.py:157).
StoreIsAccountedFor ==
    \A s \in store :
        \/ s \in known /\ initialized[s]
        \/ \E c \in Clients : fresh[c] /\ session[c] = s /\
             (pc[c] = "respond" => initialized[s])
        \/ s \in abandoned

\* The session id in a response is that of a stored, initialized session, or of
\* one that was deleted while the request was under way (streamable_http.py:162).
ResponseNamesSession ==
    \A c \in Clients :
        pc[c] = "respond" /\ response[c].id # None =>
            /\ initialized[response[c].id]
            /\ response[c].id \in store \cup overtaken

\* No session is initialized twice, whatever the requests that ask for it at the
\* same time (server.py:165).
InitializedOnce == \A s \in Sessions : confirmed[s] <= 1

\* A session leaves the store only when a client that was told its id deletes it, or
\* with the only request that works on it, which has created it and not initialized
\* it, and before any client knows of it (streamable_http.py:162, 208).
KeepsSessions ==
    [][\A s \in store \ store' :
          \/ s \in known /\ \E c \in Clients :
                pc[c] = "ready" /\ req[c].verb = "DELETE" /\ req[c].id = s
          \/ /\ s \notin known /\ ~initialized[s]
             /\ \E c \in Clients : fresh[c] /\ \A d \in Clients : session[d] = s <=> d = c]_vars

\* The responses to a body belong to its messages, in their order: one for each
\* request, none for a notification (server.py:85-89).  A notification that is
\* sent with an id is not answered (server.py:134), a message that is no
\* request always is.
Expected(m) ==
    \/ m.method = "malformed"
    \/ m.id = "present" /\ m.method # "notifications"
RepliesMatch ==
    \A c \in Connections :
        pc[c] = "handling" /\ pos[c] > Len(req[c].body) =>
            /\ {replies[c][i] : i \in DOMAIN replies[c]}
                 = {i \in DOMAIN req[c].body : Expected(req[c].body[i])}
            /\ \A i, j \in DOMAIN replies[c] : i < j => replies[c][i] < replies[c][j]

\* A request that calls no tool is answered, although the tools that others
\* wait for may never return (callables.py:93).
CallsNoTool(body) == \A i \in DOMAIN body : body[i].method # "call"
PromptAnswers ==
    \A c \in Connections :
        pc[c] = "ready" /\ CallsNoTool(req[c].body) ~>
            pc[c] \in {"respond", "stream", "idle"} \/ ended # "no"

\* The stdio server reads on until its input ends (server.py:115).
ServesUntilEof == transport = "stdio" => ended \in {"no", "eof"}
=============================================================================
