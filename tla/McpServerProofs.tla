--------------------------- MODULE McpServerProofs ---------------------------
(***************************************************************************)
(* Proofs about McpServer for any set of connections, any bodies and any   *)
(* number of requests and sessions.                                        *)
(***************************************************************************)
EXTENDS McpServer, TLAPS

-----------------------------------------------------------------------------
(* The parts of the inductive invariant.                                   *)

\* A handler that has not started has nothing yet, one that has started works
\* for a session that was created; nothing is sent over the other transport.
HandlerInv ==
    /\ transport = "stdio" => created = 1 /\ store = {}
    /\ \A c \in Connections :
          /\ pc[c] # "idle" => (c \in Clients <=> transport = "http")
          /\ pc[c] \in {"respond", "stream"} => transport = "http"
          /\ pc[c] \in {"idle", "ready", "stream"} =>
                pos[c] = 1 /\ replies[c] = <<>> /\ ~fresh[c] /\ session[c] = None
          /\ pc[c] \in {"handling", "tool"} => session[c] \in 1 .. created
          /\ pc[c] = "tool" => pos[c] <= Len(req[c].body)

\* A session that is being created belongs to one request, and no client knows
\* it; every other request names a session its client knows.
OwnerInv ==
    /\ known \subseteq 1 .. created
    /\ \A c \in Clients :
          /\ req[c].id \in known \cup {None, Unknown}
          /\ fresh[c] => /\ session[c] \in 1 .. created
                         /\ session[c] \notin known
          /\ ~fresh[c] => session[c] \in known \cup {None}
    /\ \A c, d \in Clients : fresh[c] /\ fresh[d] /\ session[c] = session[d] => c = d

\* What a client knows is initialized, and a session stays stored while it is
\* worked on, unless it was deleted.
StoredInv ==
    /\ \A s \in known : initialized[s]
    /\ \A c \in Clients :
          pc[c] \in {"handling", "tool"} => session[c] \in store \cup overtaken

\* A response names the session of its request or none; one that names no
\* session leaves none behind that is not accounted for.
ResponseInv ==
    \A c \in Clients : pc[c] = "respond" =>
        /\ response[c].id \in {None, session[c]}
        /\ response[c].id # None =>
              /\ initialized[response[c].id]
              /\ response[c].id \in store \cup overtaken
        /\ fresh[c] /\ response[c].id = None => session[c] \notin store \ abandoned

\* The answers to initialize are counted by what they set.
ConfirmedInv == \A s \in Sessions : confirmed[s] = IF initialized[s] THEN 1 ELSE 0

IInv ==
    /\ Types
    /\ InBody
    /\ HasLoop
    /\ HandlerInv
    /\ OwnerInv
    /\ StoredInv
    /\ ResponseInv
    /\ StoreIsAccountedFor
    /\ ConfirmedInv

-----------------------------------------------------------------------------
(* The operators the actions use.                                          *)

\* Only a session that is not initialized is initialized (server.py:165).
LEMMA VerdictFact ==
    ASSUME NEW m \in Messages, NEW ready \in BOOLEAN, Verdict(m, ready) = "initialize"
    PROVE  ~ready
BY DEF Verdict, Messages, HandleInitialize, HandleList, HandleCall, IsNotification

\* The status of a refusal is a number, and not 0.
LEMMA FlawFact ==
    ASSUME NEW flaw \in Flaws, NEW verb
    PROVE  FlawStatus(flaw, verb) \in Nat \ {0}
BY FlawAssumption DEF FlawStatus

\* What a request is made of.
LEMMA RequestFact ==
    ASSUME NEW r \in HttpRequests \cup {NoRequest}
    PROVE  /\ r.body \in Seq(Messages)
           /\ Len(r.body) \in Nat
           /\ r.id \in SessionIds
           /\ r.flaw \in Flaws \cup {"none"}
<1>1. CASE r \in [verb : {"POST"}, flaw : {"none"}, id : SessionIds, body : Bodies]
  BY <1>1, BodyAssumption
<1>2. None \in SessionIds
  BY DEF None, SessionIds
<1>3. CASE r \notin [verb : {"POST"}, flaw : {"none"}, id : SessionIds, body : Bodies]
  <2>1. r.body = <<>> /\ r.id \in SessionIds /\ r.flaw \in Flaws \cup {"none"}
    BY <1>2, <1>3 DEF HttpRequests, NoRequest
  <2> QED
    BY <2>1
<1> QED
  BY <1>1, <1>3

\* What a handler forgets leaves values of the right types.
LEMMA ForgetFact ==
    /\ NoRequest \in HttpRequests \cup {NoRequest}
    /\ NoResponse \in [status : Nat, id : SessionIds]
    /\ None \in SessionIds
    /\ <<>> \in Seq(Nat)
    /\ NoRequest.body = <<>>
    /\ NoRequest.id = None
    /\ NoResponse.id = None
BY DEF NoRequest, NoResponse, SessionIds, None

\* A request that is not turned down asks for a session that is stored, or for a
\* new one.
LEMMA RefusalFact ==
    ASSUME IInv, NEW c \in Connections
    PROVE  /\ Refusal(req[c]) \in Nat
           /\ Refusal(req[c]) = 0 /\ req[c].id # None => req[c].id \in store
           /\ Refusal(req[c]) = 0 /\ req[c].verb # "POST" => req[c].id # None
<1>1. req[c].flaw \in Flaws \cup {"none"}
  BY RequestFact DEF IInv, Types
<1>2. CASE req[c].flaw = "none"
  BY <1>2 DEF Refusal
<1>3. CASE req[c].flaw \in Flaws /\ req[c].flaw # "none"
  <2>1. FlawStatus(req[c].flaw, req[c].verb) \in Nat \ {0}
    BY <1>3, FlawFact
  <2> QED
    BY <1>3, <2>1 DEF Refusal
<1> QED
  BY <1>1, <1>2, <1>3

\* A handler that has started works for a session that was created.
LEMMA HandlerFact ==
    ASSUME IInv, NEW c \in Connections
    PROVE  /\ req[c].body \in Seq(Messages)
           /\ Len(req[c].body) \in Nat
           /\ req[c].id \in SessionIds
           /\ pos[c] \in 1 .. Len(req[c].body) + 1
           /\ pos[c] \in DOMAIN req[c].body <=> pos[c] <= Len(req[c].body)
           /\ pc[c] # "idle" => (c \in Clients <=> transport = "http")
           /\ pc[c] \in {"handling", "tool"} => session[c] \in Sessions
           /\ pc[c] = "respond" => response[c].id \in 0 .. created
<1>1. req[c].body \in Seq(Messages) /\ Len(req[c].body) \in Nat /\ req[c].id \in SessionIds
  BY RequestFact DEF IInv, Types
<1>2. pos[c] \in 1 .. Len(req[c].body) + 1
  BY DEF IInv, InBody
<1>3. DOMAIN req[c].body = 1 .. Len(req[c].body)
  BY <1>1
<1>4. pc[c] # "idle" => (c \in Clients <=> transport = "http")
  BY DEF IInv, HandlerInv
<1>5. pc[c] \in {"handling", "tool"} => session[c] \in Sessions
  BY BoundAssumption DEF IInv, HandlerInv, Types, Sessions
<1>6. ASSUME pc[c] = "respond"
      PROVE  response[c].id \in 0 .. created
  <2>1. c \in Clients
    BY <1>6 DEF IInv, HandlerInv
  <2>2. response[c].id \in {None, session[c]}
    BY <1>6, <2>1 DEF IInv, ResponseInv
  <2>3. known \subseteq 1 .. created /\ created \in Nat
    BY BoundAssumption DEF IInv, OwnerInv, Types
  <2>4. CASE fresh[c]
    <3>1. session[c] \in 1 .. created
      BY <2>1, <2>4 DEF IInv, OwnerInv
    <3> QED
      BY <2>2, <2>3, <3>1 DEF None
  <2>5. CASE ~fresh[c]
    <3>1. session[c] \in known \/ session[c] = 0
      BY <2>1, <2>5 DEF IInv, OwnerInv, None
    <3>2. session[c] \in known => session[c] \in 1 .. created
      BY <2>3
    <3>3. session[c] \in 0 .. created
      BY <2>3, <3>1, <3>2
    <3> QED
      BY <2>2, <2>3, <3>3 DEF None
  <2> QED
    BY <2>4, <2>5
<1> QED
  BY <1>1, <1>2, <1>3, <1>4, <1>5, <1>6

-----------------------------------------------------------------------------
(* Every action keeps the invariant.                                       *)

LEMMA SendStep ==
    ASSUME IInv, NEW c \in Connections, NEW r \in HttpRequests, Send(c, r)
    PROVE  IInv'
<1>1. /\ req[c].body \in Seq(Messages) /\ Len(req[c].body) \in Nat
      /\ req[c].id \in SessionIds /\ pos[c] \in 1 .. Len(req[c].body) + 1
      /\ pos[c] \in DOMAIN req[c].body <=> pos[c] <= Len(req[c].body)
  BY HandlerFact
<1>2. /\ pc[c] # "idle" => (c \in Clients <=> transport = "http")
      /\ pc[c] \in {"handling", "tool"} => session[c] \in Sessions
      /\ pc[c] = "respond" => response[c].id \in 0 .. created
  BY HandlerFact
<1>3. r.body \in Seq(Messages) /\ Len(r.body) \in Nat /\ r.id \in SessionIds
  BY RequestFact
<1>4. Types'
  BY ConnectionAssumption, BoundAssumption, <1>1, <1>2, <1>3 DEF IInv, Types,
       HandlerInv, Connections, SessionIds, None, Send, Goto, serverVars, handlerVars,
       historyVars
<1>5. InBody'
  BY <1>1, <1>3 DEF IInv, Types, InBody, HandlerInv, Send, Goto, serverVars,
       handlerVars, historyVars
<1>6. HasLoop'
  BY ConnectionAssumption DEF IInv, Types, HasLoop, Send, Goto, serverVars,
       handlerVars, historyVars
<1>7. HandlerInv'
  BY SMTT(40), ConnectionAssumption, BoundAssumption, <1>1, <1>2, <1>3 DEF IInv,
       Types, HasLoop, HandlerInv, Connections, Sessions, SessionIds, None, Unknown,
       Send, Goto, serverVars, handlerVars, historyVars
<1>8. OwnerInv'
  BY BoundAssumption, <1>1, <1>2, <1>3 DEF IInv, Types, HandlerInv, OwnerInv,
       Connections, Sessions, SessionIds, None, Unknown, Send, Goto, serverVars,
       handlerVars, historyVars
<1>9. StoredInv'
  BY BoundAssumption, <1>1, <1>2, <1>3 DEF IInv, Types, HandlerInv, OwnerInv,
       StoredInv, Connections, Sessions, SessionIds, None, Unknown, Send, Goto,
       serverVars, handlerVars, historyVars
<1>10. ResponseInv'
  BY BoundAssumption, <1>1, <1>2, <1>3 DEF IInv, Types, HandlerInv, OwnerInv,
       StoredInv, ResponseInv, Connections, Sessions, SessionIds, None, Unknown, Send,
       Goto, serverVars, handlerVars, historyVars
<1>11. StoreIsAccountedFor'
  BY BoundAssumption, <1>1, <1>2, <1>3 DEF IInv, Types, HandlerInv, OwnerInv,
       StoredInv, ResponseInv, StoreIsAccountedFor, Connections, Sessions, SessionIds,
       None, Unknown, Send, Goto, serverVars, handlerVars, historyVars
<1>12. ConfirmedInv'
  BY DEF IInv, Types, HandlerInv, ConfirmedInv, Send, Goto, serverVars, handlerVars,
       historyVars
<1> QED
  BY <1>4, <1>5, <1>6, <1>7, <1>8, <1>9, <1>10, <1>11, <1>12 DEF IInv

LEMMA RefuseStep ==
    ASSUME IInv, NEW c \in Connections, Refuse(c)
    PROVE  IInv'
<1>1. /\ req[c].body \in Seq(Messages) /\ Len(req[c].body) \in Nat
      /\ req[c].id \in SessionIds /\ pos[c] \in 1 .. Len(req[c].body) + 1
      /\ pos[c] \in DOMAIN req[c].body <=> pos[c] <= Len(req[c].body)
  BY HandlerFact
<1>2. /\ pc[c] # "idle" => (c \in Clients <=> transport = "http")
      /\ pc[c] \in {"handling", "tool"} => session[c] \in Sessions
      /\ pc[c] = "respond" => response[c].id \in 0 .. created
  BY HandlerFact
<1>3. /\ Refusal(req[c]) \in Nat
      /\ Refusal(req[c]) = 0 /\ req[c].id # None => req[c].id \in store
      /\ Refusal(req[c]) = 0 /\ req[c].verb # "POST" => req[c].id # None
  BY RefusalFact
<1>4. Types'
  BY SMTT(40), ConnectionAssumption, BoundAssumption, <1>1, <1>2, <1>3 DEF IInv,
       Types, HandlerInv, Connections, SessionIds, None, Refuse, Goto, serverVars,
       handlerVars, historyVars, Passes, Refusal
<1>5. InBody'
  BY <1>1, <1>3 DEF IInv, Types, InBody, HandlerInv, Refuse, Goto, serverVars,
       handlerVars, historyVars, Passes, Refusal
<1>6. HasLoop'
  BY ConnectionAssumption DEF IInv, Types, HasLoop, Refuse, Goto, serverVars,
       handlerVars, historyVars, Passes, Refusal
<1>7. HandlerInv'
  BY ConnectionAssumption, BoundAssumption, <1>1, <1>2, <1>3 DEF IInv, Types, HasLoop,
       HandlerInv, None, Refuse, Goto, serverVars, handlerVars, historyVars, Passes,
       Refusal
<1>8. OwnerInv'
  BY BoundAssumption, <1>1, <1>2, <1>3 DEF IInv, Types, HandlerInv, OwnerInv,
       Connections, Sessions, SessionIds, None, Unknown, Refuse, Goto, serverVars,
       handlerVars, historyVars, Passes, Refusal
<1>9. StoredInv'
  BY BoundAssumption, <1>1, <1>2, <1>3 DEF IInv, Types, HandlerInv, OwnerInv,
       StoredInv, Connections, Sessions, SessionIds, None, Unknown, Refuse, Goto,
       serverVars, handlerVars, historyVars, Passes, Refusal
<1>10. ResponseInv'
  BY BoundAssumption, <1>1, <1>2, <1>3 DEF IInv, Types, HandlerInv, OwnerInv,
       StoredInv, ResponseInv, Connections, Sessions, SessionIds, None, Unknown,
       Refuse, Goto, serverVars, handlerVars, historyVars, Passes, Refusal
<1>11. StoreIsAccountedFor'
  BY BoundAssumption, <1>1, <1>2, <1>3 DEF IInv, Types, HandlerInv, OwnerInv,
       StoredInv, ResponseInv, StoreIsAccountedFor, Connections, Sessions, SessionIds,
       None, Unknown, Refuse, Goto, serverVars, handlerVars, historyVars, Passes,
       Refusal
<1>12. ConfirmedInv'
  BY DEF IInv, Types, HandlerInv, ConfirmedInv, Refuse, Goto, serverVars, handlerVars,
       historyVars, Passes, Refusal
<1> QED
  BY <1>4, <1>5, <1>6, <1>7, <1>8, <1>9, <1>10, <1>11, <1>12 DEF IInv

LEMMA RefuseLineStep ==
    ASSUME IInv, NEW c \in Connections, RefuseLine(c)
    PROVE  IInv'
<1>1. /\ req[c].body \in Seq(Messages) /\ Len(req[c].body) \in Nat
      /\ req[c].id \in SessionIds /\ pos[c] \in 1 .. Len(req[c].body) + 1
      /\ pos[c] \in DOMAIN req[c].body <=> pos[c] <= Len(req[c].body)
  BY HandlerFact
<1>2. /\ pc[c] # "idle" => (c \in Clients <=> transport = "http")
      /\ pc[c] \in {"handling", "tool"} => session[c] \in Sessions
      /\ pc[c] = "respond" => response[c].id \in 0 .. created
  BY HandlerFact
<1>3. Types'
  BY ConnectionAssumption, BoundAssumption, <1>1, <1>2, ForgetFact DEF IInv, Types,
       HandlerInv, Connections, SessionIds, None, RefuseLine, Goto, serverVars,
       handlerVars, historyVars, Passes, Forget, NoRequest, NoResponse
<1>4. InBody'
  BY <1>1, ForgetFact DEF IInv, Types, InBody, HandlerInv, RefuseLine, Goto,
       serverVars, handlerVars, historyVars, Passes, Forget, NoRequest, NoResponse
<1>5. HasLoop'
  BY ConnectionAssumption DEF IInv, Types, HasLoop, RefuseLine, Goto, serverVars,
       handlerVars, historyVars, Passes, Forget, NoRequest, NoResponse
<1>6. HandlerInv'
  BY ConnectionAssumption, BoundAssumption, <1>1, <1>2, ForgetFact DEF IInv, Types,
       HasLoop, HandlerInv, None, RefuseLine, Goto, serverVars, handlerVars,
       historyVars, Passes, Forget, NoRequest, NoResponse
<1>7. OwnerInv'
  BY BoundAssumption, <1>1, <1>2, ForgetFact DEF IInv, Types, HandlerInv, OwnerInv,
       Connections, Sessions, SessionIds, None, Unknown, RefuseLine, Goto, serverVars,
       handlerVars, historyVars, Passes, Forget, NoRequest, NoResponse
<1>8. StoredInv'
  BY BoundAssumption, <1>1, <1>2, ForgetFact DEF IInv, Types, HandlerInv, OwnerInv,
       StoredInv, Connections, Sessions, SessionIds, None, Unknown, RefuseLine, Goto,
       serverVars, handlerVars, historyVars, Passes, Forget, NoRequest, NoResponse
<1>9. ResponseInv'
  BY BoundAssumption, <1>1, <1>2, ForgetFact DEF IInv, Types, HandlerInv, OwnerInv,
       StoredInv, ResponseInv, Connections, Sessions, SessionIds, None, Unknown,
       RefuseLine, Goto, serverVars, handlerVars, historyVars, Passes, Forget,
       NoRequest, NoResponse
<1>10. StoreIsAccountedFor'
  BY BoundAssumption, <1>1, <1>2, ForgetFact DEF IInv, Types, HandlerInv, OwnerInv,
       StoredInv, ResponseInv, StoreIsAccountedFor, Connections, Sessions, SessionIds,
       None, Unknown, RefuseLine, Goto, serverVars, handlerVars, historyVars, Passes,
       Forget, NoRequest, NoResponse
<1>11. ConfirmedInv'
  BY DEF IInv, Types, HandlerInv, ConfirmedInv, RefuseLine, Goto, serverVars,
       handlerVars, historyVars, Passes, Forget, NoRequest, NoResponse
<1> QED
  BY <1>3, <1>4, <1>5, <1>6, <1>7, <1>8, <1>9, <1>10, <1>11 DEF IInv

LEMMA PostStep ==
    ASSUME IInv, NEW c \in Connections, Post(c)
    PROVE  IInv'
<1>1. /\ req[c].body \in Seq(Messages) /\ Len(req[c].body) \in Nat
      /\ req[c].id \in SessionIds /\ pos[c] \in 1 .. Len(req[c].body) + 1
      /\ pos[c] \in DOMAIN req[c].body <=> pos[c] <= Len(req[c].body)
  BY HandlerFact
<1>2. /\ pc[c] # "idle" => (c \in Clients <=> transport = "http")
      /\ pc[c] \in {"handling", "tool"} => session[c] \in Sessions
      /\ pc[c] = "respond" => response[c].id \in 0 .. created
  BY HandlerFact
<1>3. /\ Refusal(req[c]) \in Nat
      /\ Refusal(req[c]) = 0 /\ req[c].id # None => req[c].id \in store
      /\ Refusal(req[c]) = 0 /\ req[c].verb # "POST" => req[c].id # None
  BY RefusalFact
<1>4. Types'
  BY SMTT(40), ConnectionAssumption, BoundAssumption, <1>1, <1>2, <1>3 DEF IInv,
       Types, HandlerInv, Connections, SessionIds, None, Post, Goto, serverVars,
       handlerVars, historyVars, StartsIn, Takes, Refusal
<1>5. InBody'
  BY <1>1, <1>3 DEF IInv, Types, InBody, HandlerInv, Post, Goto, serverVars,
       handlerVars, historyVars, StartsIn, Takes, Refusal
<1>6. HasLoop'
  BY ConnectionAssumption DEF IInv, Types, HasLoop, Post, Goto, serverVars,
       handlerVars, historyVars, StartsIn, Takes, Refusal
<1>7. HandlerInv'
  BY SMTT(40), ConnectionAssumption, BoundAssumption, <1>1, <1>2, <1>3 DEF IInv,
       Types, HasLoop, HandlerInv, Connections, Sessions, SessionIds, None, Unknown,
       Post, Goto, serverVars, handlerVars, historyVars, StartsIn, Takes, Refusal
<1>8. OwnerInv'
  BY SMTT(40), BoundAssumption, <1>1, <1>2, <1>3 DEF IInv, Types, HandlerInv,
       OwnerInv, Connections, Sessions, SessionIds, None, Unknown, Post, Goto,
       serverVars, handlerVars, historyVars, StartsIn, Takes, Refusal
<1>9. StoredInv'
  BY SMTT(40), BoundAssumption, <1>1, <1>2, <1>3 DEF IInv, Types, HandlerInv,
       OwnerInv, StoredInv, Connections, Sessions, SessionIds, None, Unknown, Post,
       Goto, serverVars, handlerVars, historyVars, StartsIn, Takes, Refusal
<1>10. ResponseInv'
  BY BoundAssumption, <1>1, <1>2, <1>3 DEF IInv, Types, HandlerInv, OwnerInv,
       StoredInv, ResponseInv, Connections, Sessions, SessionIds, None, Unknown, Post,
       Goto, serverVars, handlerVars, historyVars, StartsIn, Takes, Refusal
<1>11. StoreIsAccountedFor'
  BY SMTT(40), BoundAssumption, <1>1, <1>2, <1>3 DEF IInv, Types, HandlerInv,
       OwnerInv, StoredInv, ResponseInv, StoreIsAccountedFor, Connections, Sessions,
       SessionIds, None, Unknown, Post, Goto, serverVars, handlerVars, historyVars,
       StartsIn, Takes, Refusal
<1>12. ConfirmedInv'
  BY DEF IInv, Types, HandlerInv, ConfirmedInv, Post, Goto, serverVars, handlerVars,
       historyVars, StartsIn, Takes, Refusal
<1> QED
  BY <1>4, <1>5, <1>6, <1>7, <1>8, <1>9, <1>10, <1>11, <1>12 DEF IInv

LEMMA PostNewStep ==
    ASSUME IInv, NEW c \in Connections, PostNew(c)
    PROVE  IInv'
<1>1. /\ req[c].body \in Seq(Messages) /\ Len(req[c].body) \in Nat
      /\ req[c].id \in SessionIds /\ pos[c] \in 1 .. Len(req[c].body) + 1
      /\ pos[c] \in DOMAIN req[c].body <=> pos[c] <= Len(req[c].body)
  BY HandlerFact
<1>2. /\ pc[c] # "idle" => (c \in Clients <=> transport = "http")
      /\ pc[c] \in {"handling", "tool"} => session[c] \in Sessions
      /\ pc[c] = "respond" => response[c].id \in 0 .. created
  BY HandlerFact
<1>3. /\ Refusal(req[c]) \in Nat
      /\ Refusal(req[c]) = 0 /\ req[c].id # None => req[c].id \in store
      /\ Refusal(req[c]) = 0 /\ req[c].verb # "POST" => req[c].id # None
  BY RefusalFact
<1>4. /\ created + 1 \in Sessions /\ created + 1 \in SessionIds /\ created + 1 \notin store
      /\ store' \subseteq 1 .. created' /\ created' \in 0 .. MaxSessions
      /\ created + 1 \notin known
  BY BoundAssumption DEF IInv, Types, OwnerInv, PostNew, Sessions, SessionIds
<1>5. Types'
  BY ConnectionAssumption, BoundAssumption, <1>1, <1>2, <1>3, <1>4 DEF IInv, Types,
       HandlerInv, Connections, SessionIds, None, PostNew, Goto, serverVars,
       handlerVars, historyVars, StartsIn, Takes, Refusal
<1>6. InBody'
  BY <1>1, <1>3, <1>4 DEF IInv, Types, InBody, HandlerInv, PostNew, Goto, serverVars,
       handlerVars, historyVars, StartsIn, Takes, Refusal
<1>7. HasLoop'
  BY ConnectionAssumption DEF IInv, Types, HasLoop, PostNew, Goto, serverVars,
       handlerVars, historyVars, StartsIn, Takes, Refusal
<1>8. HandlerInv'
  BY SMTT(40), ConnectionAssumption, BoundAssumption, <1>1, <1>2, <1>3, <1>4 DEF IInv,
       Types, HasLoop, HandlerInv, None, PostNew, Goto, serverVars, handlerVars,
       historyVars, StartsIn, Takes, Refusal
<1>9. OwnerInv'
  BY SMTT(40), BoundAssumption, <1>1, <1>2, <1>3, <1>4 DEF IInv, Types, HandlerInv,
       OwnerInv, Connections, Sessions, SessionIds, None, Unknown, PostNew, Goto,
       serverVars, handlerVars, historyVars, StartsIn, Takes, Refusal
<1>10. StoredInv'
  BY BoundAssumption, <1>1, <1>2, <1>3, <1>4 DEF IInv, Types, HandlerInv, OwnerInv,
       StoredInv, Connections, Sessions, SessionIds, None, Unknown, PostNew, Goto,
       serverVars, handlerVars, historyVars, StartsIn, Takes, Refusal
<1>11. ResponseInv'
  BY SMTT(40), BoundAssumption, <1>1, <1>2, <1>3, <1>4 DEF IInv, Types, HandlerInv,
       OwnerInv, StoredInv, ResponseInv, Connections, Sessions, SessionIds, None,
       Unknown, PostNew, Goto, serverVars, handlerVars, historyVars, StartsIn, Takes,
       Refusal
<1>12. StoreIsAccountedFor'
  BY BoundAssumption, <1>1, <1>2, <1>3, <1>4 DEF IInv, Types, HandlerInv, OwnerInv,
       StoredInv, ResponseInv, StoreIsAccountedFor, Connections, Sessions, SessionIds,
       None, Unknown, PostNew, Goto, serverVars, handlerVars, historyVars, StartsIn,
       Takes, Refusal
<1>13. ConfirmedInv'
  BY DEF IInv, Types, HandlerInv, ConfirmedInv, PostNew, Goto, serverVars,
       handlerVars, historyVars, StartsIn, Takes, Refusal
<1> QED
  BY <1>5, <1>6, <1>7, <1>8, <1>9, <1>10, <1>11, <1>12, <1>13 DEF IInv

LEMMA LineStep ==
    ASSUME IInv, NEW c \in Connections, Line(c)
    PROVE  IInv'
<1>1. /\ req[c].body \in Seq(Messages) /\ Len(req[c].body) \in Nat
      /\ req[c].id \in SessionIds /\ pos[c] \in 1 .. Len(req[c].body) + 1
      /\ pos[c] \in DOMAIN req[c].body <=> pos[c] <= Len(req[c].body)
  BY HandlerFact
<1>2. /\ pc[c] # "idle" => (c \in Clients <=> transport = "http")
      /\ pc[c] \in {"handling", "tool"} => session[c] \in Sessions
      /\ pc[c] = "respond" => response[c].id \in 0 .. created
  BY HandlerFact
<1>3. 1 \in SessionIds /\ created = 1 /\ c \notin Clients
  BY <1>2, BoundAssumption DEF IInv, HandlerInv, Line, StartsIn, Goto, Sessions,
       SessionIds
<1>4. Types'
  BY ConnectionAssumption, BoundAssumption, <1>1, <1>2, <1>3 DEF IInv, Types,
       HandlerInv, Connections, SessionIds, None, Line, Goto, serverVars, handlerVars,
       historyVars, StartsIn, Takes
<1>5. InBody'
  BY <1>1, <1>3 DEF IInv, Types, InBody, HandlerInv, Line, Goto, serverVars,
       handlerVars, historyVars, StartsIn, Takes
<1>6. HasLoop'
  BY ConnectionAssumption DEF IInv, Types, HasLoop, Line, Goto, serverVars,
       handlerVars, historyVars, StartsIn, Takes
<1>7. HandlerInv'
  BY ConnectionAssumption, BoundAssumption, <1>1, <1>2, <1>3 DEF IInv, Types, HasLoop,
       HandlerInv, None, Line, Goto, serverVars, handlerVars, historyVars, StartsIn,
       Takes
<1>8. OwnerInv'
  BY BoundAssumption, <1>1, <1>2, <1>3 DEF IInv, Types, HandlerInv, OwnerInv,
       Connections, Sessions, SessionIds, None, Unknown, Line, Goto, serverVars,
       handlerVars, historyVars, StartsIn, Takes
<1>9. StoredInv'
  BY BoundAssumption, <1>1, <1>2, <1>3 DEF IInv, Types, HandlerInv, OwnerInv,
       StoredInv, Connections, Sessions, SessionIds, None, Unknown, Line, Goto,
       serverVars, handlerVars, historyVars, StartsIn, Takes
<1>10. ResponseInv'
  BY BoundAssumption, <1>1, <1>2, <1>3 DEF IInv, Types, HandlerInv, OwnerInv,
       StoredInv, ResponseInv, Connections, Sessions, SessionIds, None, Unknown, Line,
       Goto, serverVars, handlerVars, historyVars, StartsIn, Takes
<1>11. StoreIsAccountedFor'
  BY BoundAssumption, <1>1, <1>2, <1>3 DEF IInv, Types, HandlerInv, OwnerInv,
       StoredInv, ResponseInv, StoreIsAccountedFor, Connections, Sessions, SessionIds,
       None, Unknown, Line, Goto, serverVars, handlerVars, historyVars, StartsIn,
       Takes
<1>12. ConfirmedInv'
  BY DEF IInv, Types, HandlerInv, ConfirmedInv, Line, Goto, serverVars, handlerVars,
       historyVars, StartsIn, Takes
<1> QED
  BY <1>4, <1>5, <1>6, <1>7, <1>8, <1>9, <1>10, <1>11, <1>12 DEF IInv

LEMMA HandleStep ==
    ASSUME IInv, NEW c \in Connections, Handle(c)
    PROVE  IInv'
<1>1. /\ req[c].body \in Seq(Messages) /\ Len(req[c].body) \in Nat
      /\ req[c].id \in SessionIds /\ pos[c] \in 1 .. Len(req[c].body) + 1
      /\ pos[c] \in DOMAIN req[c].body <=> pos[c] <= Len(req[c].body)
  BY HandlerFact
<1>2. /\ pc[c] # "idle" => (c \in Clients <=> transport = "http")
      /\ pc[c] \in {"handling", "tool"} => session[c] \in Sessions
      /\ pc[c] = "respond" => response[c].id \in 0 .. created
  BY HandlerFact
<1>3. pc[c] = "handling"
  BY DEF Handle, Goto
<1>4. session[c] \in Sessions /\ initialized[session[c]] \in BOOLEAN
  BY <1>2, <1>3 DEF IInv, Types
<1>5. PICK verdict \in {"initialize", "result", "refuse", "silence"} :
          /\ Faces(c, verdict)
          /\ replies' = IF Answers(req[c].body[pos[c]], verdict)
                        THEN [replies EXCEPT ![c] = Append(@, pos[c])] ELSE replies
          /\ initialized' =
                [initialized EXCEPT ![session[c]] = @ \/ verdict = "initialize"]
          /\ confirmed' = IF verdict = "initialize"
                          THEN [confirmed EXCEPT ![session[c]] = @ + 1] ELSE confirmed
  BY DEF Handle
<1>6. verdict = "initialize" => ~initialized[session[c]]
  <2>1. req[c].body[pos[c]] \in Messages
    BY <1>1, <1>5 DEF Faces
  <2> QED
    BY <1>4, <1>5, <2>1, VerdictFact DEF Faces
<1>7. /\ initialized' \in [Sessions -> BOOLEAN]
      /\ \A s \in Sessions : initialized[s] => initialized'[s]
  BY <1>4, <1>5 DEF IInv, Types
<1>8. pos[c] <= Len(req[c].body) /\ pos' = [pos EXCEPT ![c] = pos[c] + 1]
  BY <1>1, <1>5 DEF Handle, Faces
<1>9. replies' \in [Connections -> Seq(Nat)]
  BY <1>1, <1>5 DEF IInv, Types
<1>10. \A s \in Sessions : initialized'[s] <=>
        (initialized[s] \/ (s = session[c] /\ verdict = "initialize"))
  BY <1>4, <1>5 DEF IInv, Types
<1>11. /\ confirmed' \in [Sessions -> Nat]
       /\ \A s \in Sessions : confirmed'[s] =
           IF s = session[c] /\ verdict = "initialize" THEN confirmed[s] + 1 ELSE confirmed[s]
  <2>1. CASE verdict = "initialize"
    <3>1. confirmed' = [confirmed EXCEPT ![session[c]] = confirmed[session[c]] + 1]
      BY <1>5, <2>1
    <3>2. confirmed \in [Sessions -> Nat]
      BY DEF IInv, Types
    <3> QED
      BY <1>4, <2>1, <3>1, <3>2
  <2>2. CASE verdict # "initialize"
    BY <1>5, <2>2 DEF IInv, Types
  <2> QED
    BY <2>1, <2>2
<1>12. /\ pc' = pc /\ loop' = loop
       /\ UNCHANGED <<transport, store, created, ended, req, session, fresh, response, known,
                    abandoned, overtaken>>
  BY DEF Handle, Goto, Keeps, IInv, Types
<1>13. \A d \in Connections : d # c => replies'[d] = replies[d] /\ pos'[d] = pos[d]
  BY <1>5, <1>8 DEF IInv, Types
<1>14. /\ store \subseteq Sessions
       /\ \A d \in Connections : pc[d] = "respond" => response[d].id \in Sessions \cup {None}
  <2>1. created \in 0 .. MaxSessions /\ store \subseteq 1 .. created
    BY DEF IInv, Types
  <2>2. \A d \in Connections : pc[d] = "respond" => response[d].id \in 0 .. created
    BY HandlerFact
  <2> QED
    BY <2>1, <2>2, BoundAssumption DEF Sessions, None
<1>15. Types'
  <2>1. pos' \in [Connections -> Nat]
    BY <1>8 DEF IInv, Types
  <2> QED
    BY <1>7, <1>9, <1>11, <1>12, <2>1 DEF IInv, Types
<1>16. InBody'
  BY <1>1, <1>8, <1>12 DEF IInv, Types, InBody
<1>17. HasLoop'
  BY ConnectionAssumption, BoundAssumption, <1>1, <1>2, <1>3, <1>4, <1>6, <1>7, <1>8,
       <1>9, <1>10, <1>11, <1>12, <1>13, <1>14 DEF IInv, Types, HasLoop, Connections,
       Sessions, SessionIds, None, Unknown
<1>18. HandlerInv'
  BY <1>3, <1>12, <1>13 DEF IInv, Types, HandlerInv
<1>19. OwnerInv'
  BY BoundAssumption, <1>1, <1>2, <1>3, <1>4, <1>6, <1>7, <1>8, <1>9, <1>10, <1>11,
       <1>12, <1>13, <1>14 DEF IInv, Types, HandlerInv, OwnerInv, Connections,
       Sessions, SessionIds, None, Unknown
<1>20. StoredInv'
  BY BoundAssumption, <1>1, <1>2, <1>3, <1>4, <1>6, <1>7, <1>8, <1>9, <1>10, <1>11,
       <1>12, <1>13, <1>14 DEF IInv, Types, HandlerInv, OwnerInv, StoredInv,
       Connections, Sessions, SessionIds, None, Unknown
<1>21. ResponseInv'
  BY <1>7, <1>12, <1>14 DEF IInv, ResponseInv, Connections, None
<1>22. StoreIsAccountedFor'
  BY <1>7, <1>12, <1>14 DEF IInv, StoreIsAccountedFor
<1>23. ConfirmedInv'
  <2> SUFFICES ASSUME NEW s \in Sessions
              PROVE  confirmed'[s] = IF initialized'[s] THEN 1 ELSE 0
    BY DEF ConfirmedInv
  <2>1. confirmed[s] = IF initialized[s] THEN 1 ELSE 0
    BY DEF IInv, ConfirmedInv
  <2>2. CASE s = session[c] /\ verdict = "initialize"
    BY <1>6, <1>10, <1>11, <2>1, <2>2
  <2>3. CASE ~(s = session[c] /\ verdict = "initialize")
    <3>1. (initialized'[s] <=> initialized[s]) /\ confirmed'[s] = confirmed[s]
      BY <1>10, <1>11, <2>3
    <3> QED
      BY <2>1, <3>1
  <2> QED
    BY <2>2, <2>3
<1> QED
  BY <1>15, <1>16, <1>17, <1>18, <1>19, <1>20, <1>21, <1>22, <1>23 DEF IInv

LEMMA AwaitStep ==
    ASSUME IInv, NEW c \in Connections, Await(c)
    PROVE  IInv'
<1>1. /\ req[c].body \in Seq(Messages) /\ Len(req[c].body) \in Nat
      /\ req[c].id \in SessionIds /\ pos[c] \in 1 .. Len(req[c].body) + 1
      /\ pos[c] \in DOMAIN req[c].body <=> pos[c] <= Len(req[c].body)
  BY HandlerFact
<1>2. /\ pc[c] # "idle" => (c \in Clients <=> transport = "http")
      /\ pc[c] \in {"handling", "tool"} => session[c] \in Sessions
      /\ pc[c] = "respond" => response[c].id \in 0 .. created
  BY HandlerFact
<1>3. Types'
  BY ConnectionAssumption, BoundAssumption, <1>1, <1>2 DEF IInv, Types, HandlerInv,
       Connections, SessionIds, None, Await, Goto, serverVars, handlerVars,
       historyVars, Gives, Faces
<1>4. InBody'
  BY <1>1 DEF IInv, Types, InBody, HandlerInv, Await, Goto, serverVars, handlerVars,
       historyVars, Gives, Faces
<1>5. HasLoop'
  BY ConnectionAssumption DEF IInv, Types, HasLoop, Await, Goto, serverVars,
       handlerVars, historyVars, Gives, Faces
<1>6. HandlerInv'
  BY SMTT(40), ConnectionAssumption, BoundAssumption, <1>1, <1>2 DEF IInv, Types,
       HasLoop, HandlerInv, None, Await, Goto, serverVars, handlerVars, historyVars,
       Gives, Faces
<1>7. OwnerInv'
  BY BoundAssumption, <1>1, <1>2 DEF IInv, Types, HandlerInv, OwnerInv, Connections,
       Sessions, SessionIds, None, Unknown, Await, Goto, serverVars, handlerVars,
       historyVars, Gives, Faces
<1>8. StoredInv'
  BY BoundAssumption, <1>1, <1>2 DEF IInv, Types, HandlerInv, OwnerInv, StoredInv,
       Connections, Sessions, SessionIds, None, Unknown, Await, Goto, serverVars,
       handlerVars, historyVars, Gives, Faces
<1>9. ResponseInv'
  BY BoundAssumption, <1>1, <1>2 DEF IInv, Types, HandlerInv, OwnerInv, StoredInv,
       ResponseInv, Connections, Sessions, SessionIds, None, Unknown, Await, Goto,
       serverVars, handlerVars, historyVars, Gives, Faces
<1>10. StoreIsAccountedFor'
  BY BoundAssumption, <1>1, <1>2 DEF IInv, Types, HandlerInv, OwnerInv, StoredInv,
       ResponseInv, StoreIsAccountedFor, Connections, Sessions, SessionIds, None,
       Unknown, Await, Goto, serverVars, handlerVars, historyVars, Gives, Faces
<1>11. ConfirmedInv'
  BY DEF IInv, Types, HandlerInv, ConfirmedInv, Await, Goto, serverVars, handlerVars,
       historyVars, Gives, Faces
<1> QED
  BY <1>3, <1>4, <1>5, <1>6, <1>7, <1>8, <1>9, <1>10, <1>11 DEF IInv

LEMMA ToolDoneStep ==
    ASSUME IInv, NEW c \in Connections, ToolDone(c)
    PROVE  IInv'
<1>1. /\ req[c].body \in Seq(Messages) /\ Len(req[c].body) \in Nat
      /\ req[c].id \in SessionIds /\ pos[c] \in 1 .. Len(req[c].body) + 1
      /\ pos[c] \in DOMAIN req[c].body <=> pos[c] <= Len(req[c].body)
  BY HandlerFact
<1>2. /\ pc[c] # "idle" => (c \in Clients <=> transport = "http")
      /\ pc[c] \in {"handling", "tool"} => session[c] \in Sessions
      /\ pc[c] = "respond" => response[c].id \in 0 .. created
  BY HandlerFact
<1>3. pc[c] = "tool" /\ pos[c] <= Len(req[c].body) /\ pos' = [pos EXCEPT ![c] = pos[c] + 1]
  BY DEF ToolDone, Goto, IInv, HandlerInv
<1>4. replies' \in [Connections -> Seq(Nat)] /\ pos' \in [Connections -> Nat]
  BY <1>1, <1>3 DEF ToolDone, IInv, Types
<1>5. Types'
  BY <1>4 DEF IInv, Types, ToolDone, Goto, Takes, serverVars, historyVars
<1>6. InBody'
  BY SMTT(40), <1>1, <1>3, <1>4 DEF IInv, Types, InBody, HandlerInv, ToolDone, Goto,
       serverVars, handlerVars, historyVars, Takes
<1>7. HasLoop'
  BY ConnectionAssumption DEF IInv, Types, HasLoop, ToolDone, Goto, serverVars,
       handlerVars, historyVars, Takes
<1>8. HandlerInv'
  BY ConnectionAssumption, BoundAssumption, <1>1, <1>2, <1>3, <1>4 DEF IInv, Types,
       HasLoop, HandlerInv, None, ToolDone, Goto, serverVars, handlerVars,
       historyVars, Takes
<1>9. OwnerInv'
  BY BoundAssumption, <1>1, <1>2, <1>3, <1>4 DEF IInv, Types, HandlerInv, OwnerInv,
       Connections, Sessions, SessionIds, None, Unknown, ToolDone, Goto, serverVars,
       handlerVars, historyVars, Takes
<1>10. StoredInv'
  BY BoundAssumption, <1>1, <1>2, <1>3, <1>4 DEF IInv, Types, HandlerInv, OwnerInv,
       StoredInv, Connections, Sessions, SessionIds, None, Unknown, ToolDone, Goto,
       serverVars, handlerVars, historyVars, Takes
<1>11. ResponseInv'
  BY BoundAssumption, <1>1, <1>2, <1>3, <1>4 DEF IInv, Types, HandlerInv, OwnerInv,
       StoredInv, ResponseInv, Connections, Sessions, SessionIds, None, Unknown,
       ToolDone, Goto, serverVars, handlerVars, historyVars, Takes
<1>12. StoreIsAccountedFor'
  BY BoundAssumption, <1>1, <1>2, <1>3, <1>4 DEF IInv, Types, HandlerInv, OwnerInv,
       StoredInv, ResponseInv, StoreIsAccountedFor, Connections, Sessions, SessionIds,
       None, Unknown, ToolDone, Goto, serverVars, handlerVars, historyVars, Takes
<1>13. ConfirmedInv'
  BY DEF IInv, Types, HandlerInv, ConfirmedInv, ToolDone, Goto, serverVars,
       handlerVars, historyVars, Takes
<1> QED
  BY <1>5, <1>6, <1>7, <1>8, <1>9, <1>10, <1>11, <1>12, <1>13 DEF IInv

LEMMA RaiseStep ==
    ASSUME IInv, NEW c \in Connections, Raise(c)
    PROVE  IInv'
<1>1. /\ req[c].body \in Seq(Messages) /\ Len(req[c].body) \in Nat
      /\ req[c].id \in SessionIds /\ pos[c] \in 1 .. Len(req[c].body) + 1
      /\ pos[c] \in DOMAIN req[c].body <=> pos[c] <= Len(req[c].body)
  BY HandlerFact
<1>2. /\ pc[c] # "idle" => (c \in Clients <=> transport = "http")
      /\ pc[c] \in {"handling", "tool"} => session[c] \in Sessions
      /\ pc[c] = "respond" => response[c].id \in 0 .. created
  BY HandlerFact
<1>3. c \in Clients
  BY <1>2 DEF Raise, Goto, IInv, HandlerInv
<1>4. response' \in [Connections -> [status : Nat, id : SessionIds]]
  BY ForgetFact DEF Raise, IInv, Types
<1>5. Types'
  BY <1>4 DEF IInv, Types, Raise, Goto, Gives, serverVars, historyVars
<1>6. InBody'
  BY <1>1, <1>3, <1>4 DEF IInv, Types, InBody, HandlerInv, Raise, Goto, serverVars,
       handlerVars, historyVars, Gives, Faces
<1>7. HasLoop'
  BY ConnectionAssumption DEF IInv, Types, HasLoop, Raise, Goto, serverVars,
       handlerVars, historyVars, Gives, Faces
<1>8. HandlerInv'
  BY <1>2, <1>3 DEF IInv, Types, HandlerInv, Raise, Goto, serverVars
<1>9. OwnerInv'
  BY BoundAssumption, <1>1, <1>2, <1>3, <1>4 DEF IInv, Types, HandlerInv, OwnerInv,
       Connections, Sessions, SessionIds, None, Unknown, Raise, Goto, serverVars,
       handlerVars, historyVars, Gives, Faces
<1>10. StoredInv'
  BY BoundAssumption, <1>1, <1>2, <1>3, <1>4 DEF IInv, Types, HandlerInv, OwnerInv,
       StoredInv, Connections, Sessions, SessionIds, None, Unknown, Raise, Goto,
       serverVars, handlerVars, historyVars, Gives, Faces
<1>11. ResponseInv'
  BY SMTT(40), BoundAssumption, <1>1, <1>2, <1>3, <1>4 DEF IInv, Types, HandlerInv,
       OwnerInv, StoredInv, ResponseInv, Connections, Sessions, SessionIds, None,
       Unknown, Raise, Goto, serverVars, handlerVars, historyVars, Gives, Faces
<1>12. StoreIsAccountedFor'
  BY SMTT(40), BoundAssumption, <1>1, <1>2, <1>3, <1>4 DEF IInv, Types, HandlerInv,
       OwnerInv, StoredInv, ResponseInv, StoreIsAccountedFor, Connections, Sessions,
       SessionIds, None, Unknown, Raise, Goto, serverVars, handlerVars, historyVars,
       Gives, Faces
<1>13. ConfirmedInv'
  BY DEF IInv, Types, HandlerInv, ConfirmedInv, Raise, Goto, serverVars, handlerVars,
       historyVars, Gives, Faces
<1> QED
  BY <1>5, <1>6, <1>7, <1>8, <1>9, <1>10, <1>11, <1>12, <1>13 DEF IInv

LEMMA RaiseLineStep ==
    ASSUME IInv, NEW c \in Connections, RaiseLine(c)
    PROVE  IInv'
<1>1. /\ req[c].body \in Seq(Messages) /\ Len(req[c].body) \in Nat
      /\ req[c].id \in SessionIds /\ pos[c] \in 1 .. Len(req[c].body) + 1
      /\ pos[c] \in DOMAIN req[c].body <=> pos[c] <= Len(req[c].body)
  BY HandlerFact
<1>2. /\ pc[c] # "idle" => (c \in Clients <=> transport = "http")
      /\ pc[c] \in {"handling", "tool"} => session[c] \in Sessions
      /\ pc[c] = "respond" => response[c].id \in 0 .. created
  BY HandlerFact
<1>3. Types'
  BY ConnectionAssumption, BoundAssumption, <1>1, <1>2, ForgetFact DEF IInv, Types,
       HandlerInv, Connections, SessionIds, None, RaiseLine, Goto, serverVars,
       handlerVars, historyVars, Gives, Forget, NoRequest, NoResponse, Faces
<1>4. InBody'
  BY <1>1, ForgetFact DEF IInv, Types, InBody, HandlerInv, RaiseLine, Goto,
       serverVars, handlerVars, historyVars, Gives, Forget, NoRequest, NoResponse,
       Faces
<1>5. HasLoop'
  BY ConnectionAssumption DEF IInv, Types, HasLoop, RaiseLine, Goto, serverVars,
       handlerVars, historyVars, Gives, Forget, NoRequest, NoResponse, Faces
<1>6. HandlerInv'
  BY ConnectionAssumption, BoundAssumption, <1>1, <1>2, ForgetFact DEF IInv, Types,
       HasLoop, HandlerInv, None, RaiseLine, Goto, serverVars, handlerVars,
       historyVars, Gives, Forget, NoRequest, NoResponse, Faces
<1>7. OwnerInv'
  BY BoundAssumption, <1>1, <1>2, ForgetFact DEF IInv, Types, HandlerInv, OwnerInv,
       Connections, Sessions, SessionIds, None, Unknown, RaiseLine, Goto, serverVars,
       handlerVars, historyVars, Gives, Forget, NoRequest, NoResponse, Faces
<1>8. StoredInv'
  BY BoundAssumption, <1>1, <1>2, ForgetFact DEF IInv, Types, HandlerInv, OwnerInv,
       StoredInv, Connections, Sessions, SessionIds, None, Unknown, RaiseLine, Goto,
       serverVars, handlerVars, historyVars, Gives, Forget, NoRequest, NoResponse,
       Faces
<1>9. ResponseInv'
  BY BoundAssumption, <1>1, <1>2, ForgetFact DEF IInv, Types, HandlerInv, OwnerInv,
       StoredInv, ResponseInv, Connections, Sessions, SessionIds, None, Unknown,
       RaiseLine, Goto, serverVars, handlerVars, historyVars, Gives, Forget,
       NoRequest, NoResponse, Faces
<1>10. StoreIsAccountedFor'
  BY BoundAssumption, <1>1, <1>2, ForgetFact DEF IInv, Types, HandlerInv, OwnerInv,
       StoredInv, ResponseInv, StoreIsAccountedFor, Connections, Sessions, SessionIds,
       None, Unknown, RaiseLine, Goto, serverVars, handlerVars, historyVars, Gives,
       Forget, NoRequest, NoResponse, Faces
<1>11. ConfirmedInv'
  BY DEF IInv, Types, HandlerInv, ConfirmedInv, RaiseLine, Goto, serverVars,
       handlerVars, historyVars, Gives, Forget, NoRequest, NoResponse, Faces
<1> QED
  BY <1>3, <1>4, <1>5, <1>6, <1>7, <1>8, <1>9, <1>10, <1>11 DEF IInv

LEMMA FinishStep ==
    ASSUME IInv, NEW c \in Connections, Finish(c)
    PROVE  IInv'
<1>1. /\ req[c].body \in Seq(Messages) /\ Len(req[c].body) \in Nat
      /\ req[c].id \in SessionIds /\ pos[c] \in 1 .. Len(req[c].body) + 1
      /\ pos[c] \in DOMAIN req[c].body <=> pos[c] <= Len(req[c].body)
  BY HandlerFact
<1>2. /\ pc[c] # "idle" => (c \in Clients <=> transport = "http")
      /\ pc[c] \in {"handling", "tool"} => session[c] \in Sessions
      /\ pc[c] = "respond" => response[c].id \in 0 .. created
  BY HandlerFact
<1>3. pc[c] = "handling" /\ transport = "http"
  BY DEF Finish, Finished, Goto
<1>4. c \in Clients /\ session[c] \in Sessions /\ StatusOf(c) \in Nat
  BY <1>2, <1>3 DEF StatusOf
<1>5. /\ store' = IF Useless(c) THEN store \ {session[c]} ELSE store
      /\ response' = [response EXCEPT ![c] =
          [status |-> StatusOf(c), id |-> IF Useless(c) THEN None ELSE session[c]]]
  BY DEF Finish, Finished
<1>6. ~fresh[c] => session[c] \in known
  BY <1>4, BoundAssumption DEF IInv, OwnerInv, Sessions, None
<1>7. /\ Useless(c) => fresh[c] /\ ~initialized[session[c]]
      /\ ~Useless(c) => initialized[session[c]]
  BY <1>6 DEF Useless, IInv, StoredInv
<1>8. ASSUME NEW d \in Clients, d # c, Useless(c), session[d] = session[c]
      PROVE  FALSE
  <2>1. ~fresh[d]
    BY <1>4, <1>7, <1>8 DEF IInv, OwnerInv
  <2>2. session[d] \in known
    BY <1>4, <1>8, <2>1, BoundAssumption DEF IInv, OwnerInv, Sessions, None
  <2> QED
    BY <1>7, <1>8, <2>2 DEF IInv, StoredInv
<1>9. response' \in [Connections -> [status : Nat, id : SessionIds]]
  BY <1>4, <1>5 DEF IInv, Types, SessionIds, None
<1>10. Types'
  BY ConnectionAssumption, BoundAssumption, <1>1, <1>2, <1>3, <1>4, <1>5, <1>6, <1>7,
       <1>8, <1>9 DEF IInv, Types, HandlerInv, Connections, SessionIds, None, Finish,
       Goto, serverVars, handlerVars, historyVars, Finished, Gives
<1>11. InBody'
  BY <1>1, <1>3, <1>4, <1>5, <1>6, <1>7, <1>8, <1>9 DEF IInv, Types, InBody,
       HandlerInv, Finish, Goto, serverVars, handlerVars, historyVars, Finished, Gives
<1>12. HasLoop'
  BY ConnectionAssumption DEF IInv, Types, HasLoop, Finish, Goto, serverVars,
       handlerVars, historyVars, Finished, Gives
<1>13. HandlerInv'
  BY ConnectionAssumption, BoundAssumption, <1>1, <1>2, <1>3, <1>4, <1>5, <1>6, <1>7,
       <1>8, <1>9 DEF IInv, Types, HasLoop, HandlerInv, None, Finish, Goto,
       serverVars, handlerVars, historyVars, Finished, Gives
<1>14. OwnerInv'
  BY BoundAssumption, <1>1, <1>2, <1>3, <1>4, <1>5, <1>6, <1>7, <1>8, <1>9 DEF IInv,
       Types, HandlerInv, OwnerInv, Connections, Sessions, SessionIds, None, Unknown,
       Finish, Goto, serverVars, handlerVars, historyVars, Finished, Gives
<1>15. StoredInv'
  BY BoundAssumption, <1>1, <1>2, <1>3, <1>4, <1>5, <1>6, <1>7, <1>8, <1>9 DEF IInv,
       Types, HandlerInv, OwnerInv, StoredInv, Connections, Sessions, SessionIds,
       None, Unknown, Finish, Goto, serverVars, handlerVars, historyVars, Finished,
       Gives
<1>16. ResponseInv'
  BY SMTT(40), BoundAssumption, <1>1, <1>2, <1>3, <1>4, <1>5, <1>6, <1>7, <1>8, <1>9
       DEF IInv, Types, HandlerInv, OwnerInv, StoredInv, ResponseInv, Connections,
       Sessions, SessionIds, None, Unknown, Finish, Goto, serverVars, handlerVars,
       historyVars, Finished, Gives
<1>17. StoreIsAccountedFor'
  BY SMTT(40), BoundAssumption, <1>1, <1>2, <1>3, <1>4, <1>5, <1>6, <1>7, <1>8, <1>9
       DEF IInv, Types, HandlerInv, OwnerInv, StoredInv, ResponseInv,
       StoreIsAccountedFor, Connections, Sessions, SessionIds, None, Unknown, Finish,
       Goto, serverVars, handlerVars, historyVars, Finished, Gives
<1>18. ConfirmedInv'
  BY DEF IInv, Types, HandlerInv, ConfirmedInv, Finish, Goto, serverVars, handlerVars,
       historyVars, Finished, Gives
<1> QED
  BY <1>10, <1>11, <1>12, <1>13, <1>14, <1>15, <1>16, <1>17, <1>18 DEF IInv

LEMMA FinishLineStep ==
    ASSUME IInv, NEW c \in Connections, FinishLine(c)
    PROVE  IInv'
<1>1. /\ req[c].body \in Seq(Messages) /\ Len(req[c].body) \in Nat
      /\ req[c].id \in SessionIds /\ pos[c] \in 1 .. Len(req[c].body) + 1
      /\ pos[c] \in DOMAIN req[c].body <=> pos[c] <= Len(req[c].body)
  BY HandlerFact
<1>2. /\ pc[c] # "idle" => (c \in Clients <=> transport = "http")
      /\ pc[c] \in {"handling", "tool"} => session[c] \in Sessions
      /\ pc[c] = "respond" => response[c].id \in 0 .. created
  BY HandlerFact
<1>3. Types'
  BY ConnectionAssumption, BoundAssumption, <1>1, <1>2, ForgetFact DEF IInv, Types,
       HandlerInv, Connections, SessionIds, None, FinishLine, Goto, serverVars,
       handlerVars, historyVars, Gives, Forget, NoRequest, NoResponse
<1>4. InBody'
  BY <1>1, ForgetFact DEF IInv, Types, InBody, HandlerInv, FinishLine, Goto,
       serverVars, handlerVars, historyVars, Gives, Forget, NoRequest, NoResponse
<1>5. HasLoop'
  BY ConnectionAssumption DEF IInv, Types, HasLoop, FinishLine, Goto, serverVars,
       handlerVars, historyVars, Gives, Forget, NoRequest, NoResponse
<1>6. HandlerInv'
  BY ConnectionAssumption, BoundAssumption, <1>1, <1>2, ForgetFact DEF IInv, Types,
       HasLoop, HandlerInv, None, FinishLine, Goto, serverVars, handlerVars,
       historyVars, Gives, Forget, NoRequest, NoResponse
<1>7. OwnerInv'
  BY BoundAssumption, <1>1, <1>2, ForgetFact DEF IInv, Types, HandlerInv, OwnerInv,
       Connections, Sessions, SessionIds, None, Unknown, FinishLine, Goto, serverVars,
       handlerVars, historyVars, Gives, Forget, NoRequest, NoResponse
<1>8. StoredInv'
  BY BoundAssumption, <1>1, <1>2, ForgetFact DEF IInv, Types, HandlerInv, OwnerInv,
       StoredInv, Connections, Sessions, SessionIds, None, Unknown, FinishLine, Goto,
       serverVars, handlerVars, historyVars, Gives, Forget, NoRequest, NoResponse
<1>9. ResponseInv'
  BY BoundAssumption, <1>1, <1>2, ForgetFact DEF IInv, Types, HandlerInv, OwnerInv,
       StoredInv, ResponseInv, Connections, Sessions, SessionIds, None, Unknown,
       FinishLine, Goto, serverVars, handlerVars, historyVars, Gives, Forget,
       NoRequest, NoResponse
<1>10. StoreIsAccountedFor'
  BY BoundAssumption, <1>1, <1>2, ForgetFact DEF IInv, Types, HandlerInv, OwnerInv,
       StoredInv, ResponseInv, StoreIsAccountedFor, Connections, Sessions, SessionIds,
       None, Unknown, FinishLine, Goto, serverVars, handlerVars, historyVars, Gives,
       Forget, NoRequest, NoResponse
<1>11. ConfirmedInv'
  BY DEF IInv, Types, HandlerInv, ConfirmedInv, FinishLine, Goto, serverVars,
       handlerVars, historyVars, Gives, Forget, NoRequest, NoResponse
<1> QED
  BY <1>3, <1>4, <1>5, <1>6, <1>7, <1>8, <1>9, <1>10, <1>11 DEF IInv

LEMMA DeleteStep ==
    ASSUME IInv, NEW c \in Connections, Delete(c)
    PROVE  IInv'
<1>1. /\ req[c].body \in Seq(Messages) /\ Len(req[c].body) \in Nat
      /\ req[c].id \in SessionIds /\ pos[c] \in 1 .. Len(req[c].body) + 1
      /\ pos[c] \in DOMAIN req[c].body <=> pos[c] <= Len(req[c].body)
  BY HandlerFact
<1>2. /\ pc[c] # "idle" => (c \in Clients <=> transport = "http")
      /\ pc[c] \in {"handling", "tool"} => session[c] \in Sessions
      /\ pc[c] = "respond" => response[c].id \in 0 .. created
  BY HandlerFact
<1>3. /\ Refusal(req[c]) \in Nat
      /\ Refusal(req[c]) = 0 /\ req[c].id # None => req[c].id \in store
      /\ Refusal(req[c]) = 0 /\ req[c].verb # "POST" => req[c].id # None
  BY RefusalFact
<1>4. /\ c \in Clients /\ req[c].id \in store /\ pc[c] = "ready"
  BY <1>2, <1>3 DEF Delete, Goto
<1>5. req[c].id \in known
  <2>1. req[c].id \in known \cup {None, Unknown}
    BY <1>4 DEF IInv, OwnerInv
  <2>2. req[c].id \in 1 .. created /\ created \in 0 .. MaxSessions
    BY <1>4 DEF IInv, Types
  <2> QED
    BY <2>1, <2>2, BoundAssumption DEF Unknown, None
<1>6. \A d \in Clients : session[d] = req[c].id /\ pc[d] # "idle" => req[c].id \in overtaken'
  BY DEF Delete
<1>7. Types'
  BY ConnectionAssumption, BoundAssumption, <1>1, <1>2, <1>3, <1>4, <1>5, <1>6 DEF
       IInv, Types, HandlerInv, Connections, SessionIds, None, Delete, Goto,
       serverVars, handlerVars, historyVars, Passes, Refusal
<1>8. InBody'
  BY <1>1, <1>3, <1>4, <1>5, <1>6 DEF IInv, Types, InBody, HandlerInv, Delete, Goto,
       serverVars, handlerVars, historyVars, Passes, Refusal
<1>9. HasLoop'
  BY ConnectionAssumption DEF IInv, Types, HasLoop, Delete, Goto, serverVars,
       handlerVars, historyVars, Passes, Refusal
<1>10. HandlerInv'
  BY ConnectionAssumption, BoundAssumption, <1>1, <1>2, <1>3, <1>4, <1>5, <1>6 DEF
       IInv, Types, HasLoop, HandlerInv, None, Delete, Goto, serverVars, handlerVars,
       historyVars, Passes, Refusal
<1>11. OwnerInv'
  BY BoundAssumption, <1>1, <1>2, <1>3, <1>4, <1>5, <1>6 DEF IInv, Types, HandlerInv,
       OwnerInv, Connections, Sessions, SessionIds, None, Unknown, Delete, Goto,
       serverVars, handlerVars, historyVars, Passes, Refusal
<1>12. StoredInv'
  BY ConnectionAssumption, BoundAssumption, <1>1, <1>2, <1>3, <1>4, <1>5, <1>6 DEF
       IInv, Types, HandlerInv, OwnerInv, StoredInv, Connections, Sessions,
       SessionIds, None, Unknown, Delete, Goto, serverVars, handlerVars, historyVars,
       Passes, Refusal
<1>13. ResponseInv'
  BY BoundAssumption, <1>1, <1>2, <1>3, <1>4, <1>5, <1>6 DEF IInv, Types, HandlerInv,
       OwnerInv, StoredInv, ResponseInv, Connections, Sessions, SessionIds, None,
       Unknown, Delete, Goto, serverVars, handlerVars, historyVars, Passes, Refusal
<1>14. StoreIsAccountedFor'
  BY BoundAssumption, <1>1, <1>2, <1>3, <1>4, <1>5, <1>6 DEF IInv, Types, HandlerInv,
       OwnerInv, StoredInv, ResponseInv, StoreIsAccountedFor, Connections, Sessions,
       SessionIds, None, Unknown, Delete, Goto, serverVars, handlerVars, historyVars,
       Passes, Refusal
<1>15. ConfirmedInv'
  BY DEF IInv, Types, HandlerInv, ConfirmedInv, Delete, Goto, serverVars, handlerVars,
       historyVars, Passes, Refusal
<1> QED
  BY <1>7, <1>8, <1>9, <1>10, <1>11, <1>12, <1>13, <1>14, <1>15 DEF IInv

LEMMA StreamStep ==
    ASSUME IInv, NEW c \in Connections, Stream(c)
    PROVE  IInv'
<1>1. /\ req[c].body \in Seq(Messages) /\ Len(req[c].body) \in Nat
      /\ req[c].id \in SessionIds /\ pos[c] \in 1 .. Len(req[c].body) + 1
      /\ pos[c] \in DOMAIN req[c].body <=> pos[c] <= Len(req[c].body)
  BY HandlerFact
<1>2. /\ pc[c] # "idle" => (c \in Clients <=> transport = "http")
      /\ pc[c] \in {"handling", "tool"} => session[c] \in Sessions
      /\ pc[c] = "respond" => response[c].id \in 0 .. created
  BY HandlerFact
<1>3. /\ Refusal(req[c]) \in Nat
      /\ Refusal(req[c]) = 0 /\ req[c].id # None => req[c].id \in store
      /\ Refusal(req[c]) = 0 /\ req[c].verb # "POST" => req[c].id # None
  BY RefusalFact
<1>4. Types'
  BY ConnectionAssumption, BoundAssumption, <1>1, <1>2, <1>3 DEF IInv, Types,
       HandlerInv, Connections, SessionIds, None, Stream, Goto, serverVars,
       handlerVars, historyVars, Passes, Refusal
<1>5. InBody'
  BY <1>1, <1>3 DEF IInv, Types, InBody, HandlerInv, Stream, Goto, serverVars,
       handlerVars, historyVars, Passes, Refusal
<1>6. HasLoop'
  BY ConnectionAssumption DEF IInv, Types, HasLoop, Stream, Goto, serverVars,
       handlerVars, historyVars, Passes, Refusal
<1>7. HandlerInv'
  BY ConnectionAssumption, BoundAssumption, <1>1, <1>2, <1>3 DEF IInv, Types, HasLoop,
       HandlerInv, None, Stream, Goto, serverVars, handlerVars, historyVars, Passes,
       Refusal
<1>8. OwnerInv'
  BY BoundAssumption, <1>1, <1>2, <1>3 DEF IInv, Types, HandlerInv, OwnerInv,
       Connections, Sessions, SessionIds, None, Unknown, Stream, Goto, serverVars,
       handlerVars, historyVars, Passes, Refusal
<1>9. StoredInv'
  BY BoundAssumption, <1>1, <1>2, <1>3 DEF IInv, Types, HandlerInv, OwnerInv,
       StoredInv, Connections, Sessions, SessionIds, None, Unknown, Stream, Goto,
       serverVars, handlerVars, historyVars, Passes, Refusal
<1>10. ResponseInv'
  BY BoundAssumption, <1>1, <1>2, <1>3 DEF IInv, Types, HandlerInv, OwnerInv,
       StoredInv, ResponseInv, Connections, Sessions, SessionIds, None, Unknown,
       Stream, Goto, serverVars, handlerVars, historyVars, Passes, Refusal
<1>11. StoreIsAccountedFor'
  BY BoundAssumption, <1>1, <1>2, <1>3 DEF IInv, Types, HandlerInv, OwnerInv,
       StoredInv, ResponseInv, StoreIsAccountedFor, Connections, Sessions, SessionIds,
       None, Unknown, Stream, Goto, serverVars, handlerVars, historyVars, Passes,
       Refusal
<1>12. ConfirmedInv'
  BY DEF IInv, Types, HandlerInv, ConfirmedInv, Stream, Goto, serverVars, handlerVars,
       historyVars, Passes, Refusal
<1> QED
  BY <1>4, <1>5, <1>6, <1>7, <1>8, <1>9, <1>10, <1>11, <1>12 DEF IInv

LEMMA HangUpStep ==
    ASSUME IInv, NEW c \in Connections, HangUp(c)
    PROVE  IInv'
<1>1. /\ req[c].body \in Seq(Messages) /\ Len(req[c].body) \in Nat
      /\ req[c].id \in SessionIds /\ pos[c] \in 1 .. Len(req[c].body) + 1
      /\ pos[c] \in DOMAIN req[c].body <=> pos[c] <= Len(req[c].body)
  BY HandlerFact
<1>2. /\ pc[c] # "idle" => (c \in Clients <=> transport = "http")
      /\ pc[c] \in {"handling", "tool"} => session[c] \in Sessions
      /\ pc[c] = "respond" => response[c].id \in 0 .. created
  BY HandlerFact
<1>3. Types'
  BY ConnectionAssumption, BoundAssumption, <1>1, <1>2, ForgetFact DEF IInv, Types,
       HandlerInv, Connections, SessionIds, None, HangUp, Goto, serverVars,
       handlerVars, historyVars, Passes, Forget, NoRequest, NoResponse
<1>4. InBody'
  BY <1>1, ForgetFact DEF IInv, Types, InBody, HandlerInv, HangUp, Goto, serverVars,
       handlerVars, historyVars, Passes, Forget, NoRequest, NoResponse
<1>5. HasLoop'
  BY ConnectionAssumption DEF IInv, Types, HasLoop, HangUp, Goto, serverVars,
       handlerVars, historyVars, Passes, Forget, NoRequest, NoResponse
<1>6. HandlerInv'
  BY ConnectionAssumption, BoundAssumption, <1>1, <1>2, ForgetFact DEF IInv, Types,
       HasLoop, HandlerInv, None, HangUp, Goto, serverVars, handlerVars, historyVars,
       Passes, Forget, NoRequest, NoResponse
<1>7. OwnerInv'
  BY BoundAssumption, <1>1, <1>2, ForgetFact DEF IInv, Types, HandlerInv, OwnerInv,
       Connections, Sessions, SessionIds, None, Unknown, HangUp, Goto, serverVars,
       handlerVars, historyVars, Passes, Forget, NoRequest, NoResponse
<1>8. StoredInv'
  BY BoundAssumption, <1>1, <1>2, ForgetFact DEF IInv, Types, HandlerInv, OwnerInv,
       StoredInv, Connections, Sessions, SessionIds, None, Unknown, HangUp, Goto,
       serverVars, handlerVars, historyVars, Passes, Forget, NoRequest, NoResponse
<1>9. ResponseInv'
  BY BoundAssumption, <1>1, <1>2, ForgetFact DEF IInv, Types, HandlerInv, OwnerInv,
       StoredInv, ResponseInv, Connections, Sessions, SessionIds, None, Unknown,
       HangUp, Goto, serverVars, handlerVars, historyVars, Passes, Forget, NoRequest,
       NoResponse
<1>10. StoreIsAccountedFor'
  BY BoundAssumption, <1>1, <1>2, ForgetFact DEF IInv, Types, HandlerInv, OwnerInv,
       StoredInv, ResponseInv, StoreIsAccountedFor, Connections, Sessions, SessionIds,
       None, Unknown, HangUp, Goto, serverVars, handlerVars, historyVars, Passes,
       Forget, NoRequest, NoResponse
<1>11. ConfirmedInv'
  BY DEF IInv, Types, HandlerInv, ConfirmedInv, HangUp, Goto, serverVars, handlerVars,
       historyVars, Passes, Forget, NoRequest, NoResponse
<1> QED
  BY <1>3, <1>4, <1>5, <1>6, <1>7, <1>8, <1>9, <1>10, <1>11 DEF IInv

LEMMA DeliverStep ==
    ASSUME IInv, NEW c \in Connections, Deliver(c)
    PROVE  IInv'
<1>1. /\ req[c].body \in Seq(Messages) /\ Len(req[c].body) \in Nat
      /\ req[c].id \in SessionIds /\ pos[c] \in 1 .. Len(req[c].body) + 1
      /\ pos[c] \in DOMAIN req[c].body <=> pos[c] <= Len(req[c].body)
  BY HandlerFact
<1>2. /\ pc[c] # "idle" => (c \in Clients <=> transport = "http")
      /\ pc[c] \in {"handling", "tool"} => session[c] \in Sessions
      /\ pc[c] = "respond" => response[c].id \in 0 .. created
  BY HandlerFact
<1>3. c \in Clients
  BY <1>2 DEF Deliver, Answered, Goto, IInv, HandlerInv
<1>4. pc[c] = "respond" /\ response[c].id \in {None, session[c]}
  BY <1>3 DEF Deliver, Answered, Goto, IInv, ResponseInv
<1>5. known' \subseteq 1 .. created /\ known' \subseteq Sessions
  <2>1. known \subseteq 1 .. created /\ created \in 0 .. MaxSessions
    BY DEF IInv, OwnerInv, Types
  <2>2. known' = known \cup ({response[c].id} \ {None})
    BY DEF Deliver
  <2>3. response[c].id \in 1 .. created \/ response[c].id = None
    BY <1>2, <1>4, <2>1 DEF None
  <2>4. known' \subseteq 1 .. created
    BY <2>1, <2>2, <2>3
  <2>5. 1 .. created \subseteq Sessions
    BY <2>1, BoundAssumption DEF Sessions
  <2> QED
    BY <2>4, <2>5
<1>6. ASSUME NEW d \in Clients, d # c, fresh[d]
      PROVE  session[d] \notin known'
  <2>1. session[d] \in 1 .. created /\ session[d] \notin known
    BY <1>6 DEF IInv, OwnerInv
  <2>2. session[d] # None
    BY <2>1 DEF None
  <2>3. session[d] # session[c]
    BY <1>3, <1>6, <2>1, <2>2 DEF IInv, OwnerInv
  <2> QED
    BY <1>4, <2>1, <2>2, <2>3 DEF Deliver
<1>7. \A s \in known' : initialized[s]
  BY <1>3, <1>4 DEF Deliver, IInv, ResponseInv, StoredInv
<1>8. Types'
  BY ForgetFact, <1>5 DEF IInv, Types, Deliver, Answered, Forget, Goto, Passes,
       serverVars
<1>9. InBody'
  BY <1>1, ForgetFact, <1>3, <1>4, <1>5, <1>6, <1>7 DEF IInv, Types, InBody,
       HandlerInv, Deliver, Goto, serverVars, handlerVars, historyVars, Answered,
       Passes, Forget, NoRequest, NoResponse
<1>10. HasLoop'
  BY ConnectionAssumption DEF IInv, Types, HasLoop, Deliver, Goto, serverVars,
       handlerVars, historyVars, Answered, Passes, Forget, NoRequest, NoResponse
<1>11. HandlerInv'
  BY ConnectionAssumption, BoundAssumption, <1>1, <1>2, ForgetFact, <1>3, <1>4, <1>5,
       <1>6, <1>7 DEF IInv, Types, HasLoop, HandlerInv, None, Deliver, Goto,
       serverVars, handlerVars, historyVars, Answered, Passes, Forget, NoRequest,
       NoResponse
<1>12. OwnerInv'
  BY SMTT(40), BoundAssumption, <1>1, <1>2, ForgetFact, <1>3, <1>4, <1>5, <1>6, <1>7
       DEF IInv, Types, HandlerInv, OwnerInv, Connections, Sessions, SessionIds, None,
       Unknown, Deliver, Goto, serverVars, handlerVars, historyVars, Answered, Passes,
       Forget, NoRequest, NoResponse
<1>13. StoredInv'
  BY SMTT(40), BoundAssumption, <1>1, <1>2, ForgetFact, <1>3, <1>4, <1>5, <1>6, <1>7
       DEF IInv, Types, HandlerInv, OwnerInv, StoredInv, Connections, Sessions,
       SessionIds, None, Unknown, Deliver, Goto, serverVars, handlerVars, historyVars,
       Answered, Passes, Forget, NoRequest, NoResponse
<1>14. ResponseInv'
  BY BoundAssumption, <1>1, <1>2, ForgetFact, <1>3, <1>4, <1>5, <1>6, <1>7 DEF IInv,
       Types, HandlerInv, OwnerInv, StoredInv, ResponseInv, Connections, Sessions,
       SessionIds, None, Unknown, Deliver, Goto, serverVars, handlerVars, historyVars,
       Answered, Passes, Forget, NoRequest, NoResponse
<1>15. StoreIsAccountedFor'
  BY SMTT(40), BoundAssumption, <1>1, <1>2, ForgetFact, <1>3, <1>4, <1>5, <1>6, <1>7
       DEF IInv, Types, HandlerInv, OwnerInv, StoredInv, ResponseInv,
       StoreIsAccountedFor, Connections, Sessions, SessionIds, None, Unknown, Deliver,
       Goto, serverVars, handlerVars, historyVars, Answered, Passes, Forget,
       NoRequest, NoResponse
<1>16. ConfirmedInv'
  BY DEF IInv, Types, HandlerInv, ConfirmedInv, Deliver, Goto, serverVars,
       handlerVars, historyVars, Answered, Passes, Forget, NoRequest, NoResponse
<1> QED
  BY <1>8, <1>9, <1>10, <1>11, <1>12, <1>13, <1>14, <1>15, <1>16 DEF IInv

LEMMA LoseStep ==
    ASSUME IInv, NEW c \in Connections, Lose(c)
    PROVE  IInv'
<1>1. /\ req[c].body \in Seq(Messages) /\ Len(req[c].body) \in Nat
      /\ req[c].id \in SessionIds /\ pos[c] \in 1 .. Len(req[c].body) + 1
      /\ pos[c] \in DOMAIN req[c].body <=> pos[c] <= Len(req[c].body)
  BY HandlerFact
<1>2. /\ pc[c] # "idle" => (c \in Clients <=> transport = "http")
      /\ pc[c] \in {"handling", "tool"} => session[c] \in Sessions
      /\ pc[c] = "respond" => response[c].id \in 0 .. created
  BY HandlerFact
<1>3. c \in Clients
  BY <1>2 DEF Lose, Answered, Goto, IInv, HandlerInv
<1>4. Types'
  BY ForgetFact DEF IInv, Types, Lose, Answered, Forget, Goto, Passes, serverVars
<1>5. InBody'
  BY <1>1, ForgetFact, <1>3 DEF IInv, Types, InBody, HandlerInv, Lose, Goto,
       serverVars, handlerVars, historyVars, Answered, Passes, Forget, NoRequest,
       NoResponse
<1>6. HasLoop'
  BY ConnectionAssumption DEF IInv, Types, HasLoop, Lose, Goto, serverVars,
       handlerVars, historyVars, Answered, Passes, Forget, NoRequest, NoResponse
<1>7. HandlerInv'
  BY ConnectionAssumption, BoundAssumption, <1>1, <1>2, ForgetFact, <1>3 DEF IInv,
       Types, HasLoop, HandlerInv, None, Lose, Goto, serverVars, handlerVars,
       historyVars, Answered, Passes, Forget, NoRequest, NoResponse
<1>8. OwnerInv'
  BY BoundAssumption, <1>1, <1>2, ForgetFact, <1>3 DEF IInv, Types, HandlerInv,
       OwnerInv, Connections, Sessions, SessionIds, None, Unknown, Lose, Goto,
       serverVars, handlerVars, historyVars, Answered, Passes, Forget, NoRequest,
       NoResponse
<1>9. StoredInv'
  BY BoundAssumption, <1>1, <1>2, ForgetFact, <1>3 DEF IInv, Types, HandlerInv,
       OwnerInv, StoredInv, Connections, Sessions, SessionIds, None, Unknown, Lose,
       Goto, serverVars, handlerVars, historyVars, Answered, Passes, Forget,
       NoRequest, NoResponse
<1>10. ResponseInv'
  BY BoundAssumption, <1>1, <1>2, ForgetFact, <1>3 DEF IInv, Types, HandlerInv,
       OwnerInv, StoredInv, ResponseInv, Connections, Sessions, SessionIds, None,
       Unknown, Lose, Goto, serverVars, handlerVars, historyVars, Answered, Passes,
       Forget, NoRequest, NoResponse
<1>11. StoreIsAccountedFor'
  BY SMTT(40), BoundAssumption, <1>1, <1>2, ForgetFact, <1>3 DEF IInv, Types,
       HandlerInv, OwnerInv, StoredInv, ResponseInv, StoreIsAccountedFor, Connections,
       Sessions, SessionIds, None, Unknown, Lose, Goto, serverVars, handlerVars,
       historyVars, Answered, Passes, Forget, NoRequest, NoResponse
<1>12. ConfirmedInv'
  BY DEF IInv, Types, HandlerInv, ConfirmedInv, Lose, Goto, serverVars, handlerVars,
       historyVars, Answered, Passes, Forget, NoRequest, NoResponse
<1> QED
  BY <1>4, <1>5, <1>6, <1>7, <1>8, <1>9, <1>10, <1>11, <1>12 DEF IInv

LEMMA EndStep ==
    ASSUME IInv, Eof \/ Interrupt
    PROVE  IInv'
<1>1. /\ ended' \in {"eof", "interrupt"}
      /\ UNCHANGED <<loop, transport, store, initialized, created, pc, handlerVars, historyVars>>
  BY DEF Eof, Interrupt, End, Passes
<1>2. Types'
  BY <1>1 DEF IInv, Types, handlerVars, historyVars
<1>3. InBody' /\ HasLoop' /\ HandlerInv' /\ ConfirmedInv'
  BY <1>1 DEF IInv, InBody, HasLoop, HandlerInv, ConfirmedInv, handlerVars, historyVars
<1>4. OwnerInv' /\ StoredInv'
  BY <1>1 DEF IInv, OwnerInv, StoredInv, handlerVars, historyVars
<1>5. ResponseInv' /\ StoreIsAccountedFor'
  BY <1>1 DEF IInv, ResponseInv, StoreIsAccountedFor, handlerVars, historyVars
<1> QED
  BY <1>2, <1>3, <1>4, <1>5 DEF IInv

LEMMA StutterStep ==
    ASSUME IInv, UNCHANGED vars
    PROVE  IInv'
BY DEF IInv, Types, InBody, HasLoop, HandlerInv, OwnerInv, StoredInv, ResponseInv,
     StoreIsAccountedFor,
       ConfirmedInv, vars, serverVars, handlerVars, historyVars

-----------------------------------------------------------------------------
LEMMA InitInvariant == Init => IInv
BY ConnectionAssumption, BoundAssumption
   DEF Init, IInv, Types, InBody, HasLoop, HandlerInv, OwnerInv, StoredInv, ResponseInv,
       StoreIsAccountedFor, ConfirmedInv, Connections, Sessions, SessionIds, None, Unknown,
       NoRequest, NoResponse

LEMMA NextInvariant == IInv /\ [Next]_vars => IInv'
<1> SUFFICES ASSUME IInv, [Next]_vars PROVE IInv'
  OBVIOUS
<1>1. CASE UNCHANGED vars
  BY <1>1, StutterStep
<1>2. CASE Eof \/ Interrupt
  BY <1>2, EndStep
<1>3. ASSUME NEW c \in Connections, NEW r \in HttpRequests, Send(c, r)
      PROVE  IInv'
  BY <1>3, SendStep
<1>4. ASSUME NEW c \in Connections, LoopStep(c)
      PROVE  IInv'
  BY <1>4, RefuseStep, RefuseLineStep, PostStep, PostNewStep, LineStep, HandleStep,
     AwaitStep, RaiseStep, RaiseLineStep, FinishStep, FinishLineStep, DeleteStep,
     StreamStep DEF LoopStep
<1>5. ASSUME NEW c \in Connections, ToolDone(c) \/ HangUp(c) \/ Deliver(c) \/ Lose(c)
      PROVE  IInv'
  BY <1>5, ToolDoneStep, HangUpStep, DeliverStep, LoseStep
<1> QED
  BY <1>1, <1>2, <1>3, <1>4, <1>5 DEF Next

\* The invariant holds in every state of every behaviour.
THEOREM Invariant == Spec => []IInv
<1>1. Init => IInv
  BY InitInvariant
<1>2. IInv /\ [Next]_vars => IInv'
  BY NextInvariant
<1> QED
  BY <1>1, <1>2, PTL DEF Spec

\* The types hold, and the event loop belongs to the handler that works on a
\* message, to no other and only then (server.py:80, streamable_http.py:156).
THEOREM TypeCorrect == Spec => []TypeOK
<1>1. IInv => TypeOK
  BY DEF IInv, TypeOK
<1> QED
  BY <1>1, Invariant, PTL

\* No session is initialized twice, whatever is sent to it, in one batch, one
\* after the other or at the same time (server.py:165).
THEOREM NeverTwice == Spec => []InitializedOnce
<1>1. IInv => InitializedOnce
  BY DEF IInv, ConfirmedInv, InitializedOnce
<1> QED
  BY <1>1, Invariant, PTL

\* No session stays in the store that nobody can use, other than those whose
\* answer was lost or whose handler raised (streamable_http.py:157).
THEOREM StoreAccounted == Spec => []StoreIsAccountedFor
<1>1. IInv => StoreIsAccountedFor
  BY DEF IInv
<1> QED
  BY <1>1, Invariant, PTL

\* A response names no session the server does not have, unless that was deleted
\* while the request was under way (streamable_http.py:162).
THEOREM ResponsesName == Spec => []ResponseNamesSession
<1>1. IInv => ResponseNamesSession
  BY DEF IInv, ResponseInv, ResponseNamesSession
<1> QED
  BY <1>1, Invariant, PTL

\* No session is lost to the clients that use it (streamable_http.py:162, 208).
THEOREM SessionsAreKept == Spec => KeepsSessions
<1> DEFINE Removal ==
      \A s \in store \ store' :
          \/ s \in known /\ \E c \in Clients :
                pc[c] = "ready" /\ req[c].verb = "DELETE" /\ req[c].id = s
          \/ /\ s \notin known /\ ~initialized[s]
             /\ \E c \in Clients : fresh[c] /\ \A d \in Clients : session[d] = s <=> d = c
<1>1. ASSUME IInv, NEW c \in Connections, Finish(c)
      PROVE  Removal
  <2>1. /\ store \ store' = {s \in store : Useless(c) /\ s = session[c]}
        /\ pc[c] = "handling" /\ transport = "http"
    BY <1>1 DEF Finish, Finished, Goto
  <2>2. SUFFICES ASSUME Useless(c), session[c] \in store
                 PROVE  /\ session[c] \notin known
                        /\ \A d \in Clients : session[d] = session[c] <=> d = c
    BY <1>1, <2>1, HandlerFact DEF Useless
  <2>3. c \in Clients /\ session[c] \in Sessions
    BY <1>1, <2>1, HandlerFact
  <2>4. fresh[c] /\ session[c] \notin known
    BY <1>1, <2>2, <2>3 DEF Useless, IInv, OwnerInv
  <2>5. ASSUME NEW d \in Clients, session[d] = session[c]
        PROVE  d = c
    <3>1. fresh[d]
      BY <1>1, <2>3, <2>4, <2>5, BoundAssumption DEF IInv, OwnerInv, Sessions, None
    <3> QED
      BY <1>1, <2>3, <2>4, <2>5, <3>1 DEF IInv, OwnerInv
  <2> QED
    BY <2>4, <2>5
<1>2. ASSUME IInv, NEW c \in Connections, Delete(c)
      PROVE  Removal
  <2>1. /\ store \ store' \subseteq {req[c].id} \cap store
        /\ pc[c] = "ready" /\ req[c].verb = "DELETE" /\ transport = "http"
    BY <1>2 DEF Delete, Goto
  <2>2. c \in Clients
    BY <1>2, <2>1, HandlerFact
  <2>3. req[c].id \in store => req[c].id \in known
    <3>1. req[c].id \in known \cup {None, Unknown}
      BY <1>2, <2>2 DEF IInv, OwnerInv
    <3>2. store \subseteq 1 .. created /\ created \in 0 .. MaxSessions
      BY <1>2 DEF IInv, Types
    <3> QED
      BY <3>1, <3>2, BoundAssumption DEF Unknown, None
  <2> QED
    BY <2>1, <2>2, <2>3
<1>3. IInv /\ [Next]_vars => [Removal]_vars
  <2>1. SUFFICES ASSUME IInv, Next
                 PROVE  Removal
    OBVIOUS
  <2>2. ASSUME NEW c \in Connections, LoopStep(c), ~Finish(c), ~Delete(c)
        PROVE  store \subseteq store'
    BY <2>2 DEF LoopStep, Refuse, RefuseLine, Post, PostNew, StartsIn, Line, Handle,
         Await, Raise, RaiseLine, FinishLine, Stream, serverVars
  <2>3. ASSUME NEW c \in Connections,
               \/ \E r \in HttpRequests : Send(c, r)
               \/ ToolDone(c) \/ HangUp(c) \/ Deliver(c) \/ Lose(c)
        PROVE  store' = store
    BY <2>3 DEF Send, ToolDone, HangUp, Deliver, Lose, Answered, serverVars
  <2>4. Eof \/ Interrupt => store' = store
    BY DEF Eof, Interrupt, End
  <2> QED
    BY <1>1, <1>2, <2>1, <2>2, <2>3, <2>4 DEF Next
<1> QED
  BY <1>3, Invariant, PTL DEF Spec, KeepsSessions

-----------------------------------------------------------------------------
(* The responses to a body.                                                *)

\* The messages answered in r are, in ascending order, those among the first n
\* of the body that are to be answered.
AnswersFirst(r, n, body) ==
    /\ \A i \in DOMAIN r : r[i] \in 1 .. n /\ Expected(body[r[i]])
    /\ \A i \in 1 .. n : Expected(body[i]) => \E k \in DOMAIN r : r[k] = i
    /\ \A i, j \in DOMAIN r : i < j => r[i] < r[j]

\* What a handler has answered when it comes to the message at pos; a tool is only
\* awaited for a message that is to be answered.
AnsweredInv ==
    \A c \in Connections :
        /\ AnswersFirst(replies[c], pos[c] - 1, req[c].body)
        /\ pc[c] = "tool" => Expected(req[c].body[pos[c]])

\* What _dispatch_request makes of a message decides whether there is a response,
\* and only what asks for one is awaited.
LEMMA AnswersExpected ==
    ASSUME NEW m \in Messages, NEW ready \in BOOLEAN
    PROVE  /\ Verdict(m, ready) \in {"initialize", "result", "refuse", "silence"} =>
                (Answers(m, Verdict(m, ready)) <=> Expected(m))
           /\ Verdict(m, ready) = "await" => Expected(m)
BY DEF Verdict, Messages, HandleInitialize, HandleList, HandleCall, IsNotification,
       Answers, Expected

\* Before the first message nothing is answered.
LEMMA AnswersNone == \A body : AnswersFirst(<<>>, 0, body)
BY DEF AnswersFirst

\* A response to the next message is added behind the others.
LEMMA AnswersNext ==
    ASSUME NEW r \in Seq(Nat), NEW n \in Nat, NEW body,
           AnswersFirst(r, n, body), Expected(body[n + 1])
    PROVE  AnswersFirst(Append(r, n + 1), n + 1, body)
<1> DEFINE q == Append(r, n + 1)
<1>1. /\ Len(r) \in Nat /\ DOMAIN r = 1 .. Len(r)
      /\ DOMAIN q = 1 .. Len(r) + 1
      /\ \A i \in 1 .. Len(r) : q[i] = r[i]
      /\ q[Len(r) + 1] = n + 1
  OBVIOUS
<1>2. \A i \in DOMAIN r : r[i] \in 1 .. n
  BY DEF AnswersFirst
<1> HIDE DEF q
<1>3. \A i \in DOMAIN q : q[i] \in 1 .. n + 1 /\ Expected(body[q[i]])
  BY <1>1, <1>2 DEF AnswersFirst
<1>4. ASSUME NEW i \in 1 .. n + 1, Expected(body[i])
      PROVE  \E k \in DOMAIN q : q[k] = i
  <2>1. CASE i = n + 1
    BY <1>1, <2>1
  <2>2. CASE i \in 1 .. n
    BY <1>1, <1>4, <2>2 DEF AnswersFirst
  <2> QED
    BY <2>1, <2>2
<1>5. ASSUME NEW i \in DOMAIN q, NEW j \in DOMAIN q, i < j
      PROVE  q[i] < q[j]
  <2>1. CASE j = Len(r) + 1
    <3>1. i \in 1 .. Len(r) /\ q[i] \in 1 .. n /\ q[j] = n + 1
      BY <1>1, <1>2, <1>5, <2>1
    <3> QED
      BY <3>1
  <2>2. CASE j \in 1 .. Len(r)
    <3>1. i \in 1 .. Len(r) /\ q[i] = r[i] /\ q[j] = r[j]
      BY <1>1, <1>5, <2>2
    <3> QED
      BY <1>1, <1>5, <2>2, <3>1 DEF AnswersFirst
  <2> QED
    BY <1>1, <2>1, <2>2
<1> QED
  BY <1>3, <1>4, <1>5 DEF AnswersFirst, q

\* A message that is not to be answered changes nothing.
LEMMA AnswersSkip ==
    ASSUME NEW r, NEW n \in Nat, NEW body,
           AnswersFirst(r, n, body), ~Expected(body[n + 1])
    PROVE  AnswersFirst(r, n + 1, body)
BY DEF AnswersFirst

\* Only the handler that takes the step is touched.
LEMMA AnsweredFrame ==
    ASSUME AnsweredInv, NEW c \in Connections,
           \A d \in Connections \ {c} :
               /\ replies'[d] = replies[d] /\ pos'[d] = pos[d]
               /\ req'[d] = req[d] /\ pc'[d] = pc[d],
           AnswersFirst(replies'[c], pos'[c] - 1, req'[c].body),
           pc'[c] = "tool" => Expected(req'[c].body[pos'[c]])
    PROVE  AnsweredInv'
BY DEF AnsweredInv

\* A step that neither answers nor moves on.
LEMMA AnsweredStays ==
    ASSUME AnsweredInv, NEW c \in Connections, UNCHANGED <<req, pos, replies>>,
           \A d \in Connections \ {c} : pc'[d] = pc[d],
           pc'[c] = "tool" => Expected(req[c].body[pos[c]])
    PROVE  AnsweredInv'
BY DEF AnsweredInv

\* A handler that has returned has answered nothing.
LEMMA AnsweredForgets ==
    ASSUME IInv, AnsweredInv, NEW c \in Connections, NEW from,
           Goto(c, from, "idle"), Forget(c)
    PROVE  AnsweredInv'
<1>1. \A d \in Connections \ {c} :
          /\ replies'[d] = replies[d] /\ pos'[d] = pos[d]
          /\ req'[d] = req[d] /\ pc'[d] = pc[d]
  BY DEF Goto, Forget, IInv, Types
<1>2. replies'[c] = <<>> /\ pos'[c] - 1 = 0 /\ pc'[c] # "tool"
  BY DEF Goto, Forget, IInv, Types
<1>3. AnswersFirst(replies'[c], pos'[c] - 1, req'[c].body)
  BY <1>2, AnswersNone
<1> QED
  BY <1>1, <1>2, <1>3, AnsweredFrame

LEMMA AnsweredSend ==
    ASSUME IInv, AnsweredInv, NEW c \in Connections, NEW r \in HttpRequests, Send(c, r)
    PROVE  AnsweredInv'
<1>1. replies[c] = <<>> /\ pos[c] = 1
  BY DEF Send, Goto, IInv, HandlerInv
<1>2. /\ replies' = replies /\ pos' = pos /\ pc'[c] # "tool"
      /\ \A d \in Connections \ {c} : req'[d] = req[d] /\ pc'[d] = pc[d]
  BY DEF Send, Goto, IInv, Types
<1>3. AnswersFirst(replies'[c], pos'[c] - 1, req'[c].body)
  BY <1>1, <1>2, AnswersNone
<1> QED
  BY <1>2, <1>3, AnsweredFrame

LEMMA AnsweredHandle ==
    ASSUME IInv, AnsweredInv, NEW c \in Connections, Handle(c)
    PROVE  AnsweredInv'
<1>1. /\ req[c].body \in Seq(Messages) /\ pos[c] \in 1 .. Len(req[c].body) + 1
      /\ pc[c] \in {"handling", "tool"} => session[c] \in Sessions
  BY HandlerFact
<1>2. PICK verdict \in {"initialize", "result", "refuse", "silence"} :
          /\ Faces(c, verdict)
          /\ replies' = IF Answers(req[c].body[pos[c]], verdict)
                        THEN [replies EXCEPT ![c] = Append(@, pos[c])] ELSE replies
  BY DEF Handle
<1>3. /\ pc[c] = "handling" /\ pc'[c] = "handling"
      /\ pos'[c] = pos[c] + 1 /\ req' = req
      /\ \A d \in Connections \ {c} : pos'[d] = pos[d] /\ pc'[d] = pc[d]
  BY DEF Handle, Goto, IInv, Types
<1>4. /\ pos[c] - 1 \in Nat /\ pos[c] - 1 + 1 = pos[c] /\ replies[c] \in Seq(Nat)
      /\ pos'[c] - 1 = pos[c]
  BY <1>1, <1>3 DEF IInv, Types
<1>5. Answers(req[c].body[pos[c]], verdict) <=> Expected(req[c].body[pos[c]])
  <2>1. initialized[session[c]] \in BOOLEAN /\ req[c].body[pos[c]] \in Messages
    BY <1>1, <1>2, <1>3 DEF IInv, Types, Faces
  <2> QED
    BY <1>2, <2>1, AnswersExpected DEF Faces
<1>6. AnswersFirst(replies[c], pos[c] - 1, req[c].body)
  BY DEF AnsweredInv
<1>7. \A d \in Connections \ {c} : replies'[d] = replies[d]
  BY <1>2 DEF IInv, Types
<1>8. AnswersFirst(replies'[c], pos[c], req[c].body)
  <2>1. CASE Expected(req[c].body[pos[c]])
    <3>1. replies'[c] = Append(replies[c], pos[c])
      BY <1>2, <1>5, <2>1 DEF IInv, Types
    <3> QED
      BY <1>4, <1>6, <2>1, <3>1, AnswersNext
  <2>2. CASE ~Expected(req[c].body[pos[c]])
    <3>1. replies'[c] = replies[c]
      BY <1>2, <1>5, <2>2
    <3> QED
      BY <1>4, <1>6, <2>2, <3>1, AnswersSkip
  <2> QED
    BY <2>1, <2>2
<1> QED
  BY <1>3, <1>4, <1>7, <1>8, AnsweredFrame

LEMMA AnsweredAwait ==
    ASSUME IInv, AnsweredInv, NEW c \in Connections, Await(c)
    PROVE  AnsweredInv'
<1>1. /\ req[c].body \in Seq(Messages)
      /\ pc[c] \in {"handling", "tool"} => session[c] \in Sessions
  BY HandlerFact
<1>2. /\ initialized[session[c]] \in BOOLEAN /\ req[c].body[pos[c]] \in Messages
  BY <1>1 DEF Await, Goto, Faces, IInv, Types
<1>3. Expected(req[c].body[pos[c]])
  BY <1>2, AnswersExpected DEF Await, Faces
<1> QED
  BY <1>3, AnsweredStays DEF Await, Goto, handlerVars, IInv, Types

LEMMA AnsweredToolDone ==
    ASSUME IInv, AnsweredInv, NEW c \in Connections, ToolDone(c)
    PROVE  AnsweredInv'
<1>1. /\ pos[c] - 1 \in Nat /\ pos[c] - 1 + 1 = pos[c] /\ replies[c] \in Seq(Nat)
      /\ pos'[c] - 1 = pos[c]
  BY HandlerFact DEF ToolDone, Goto, IInv, Types
<1>2. Expected(req[c].body[pos[c]]) /\ AnswersFirst(replies[c], pos[c] - 1, req[c].body)
  BY DEF ToolDone, Goto, AnsweredInv
<1>3. AnswersFirst(Append(replies[c], pos[c]), pos[c], req[c].body)
  BY <1>1, <1>2, AnswersNext
<1>4. /\ replies'[c] = Append(replies[c], pos[c]) /\ req' = req /\ pc'[c] = "handling"
      /\ \A d \in Connections \ {c} :
            /\ replies'[d] = replies[d] /\ pos'[d] = pos[d]
            /\ req'[d] = req[d] /\ pc'[d] = pc[d]
  BY DEF ToolDone, Goto, IInv, Types
<1> QED
  BY <1>1, <1>3, <1>4, AnsweredFrame

LEMMA AnsweredNext == IInv /\ AnsweredInv /\ [Next]_vars => AnsweredInv'
<1> SUFFICES ASSUME IInv, AnsweredInv, [Next]_vars PROVE AnsweredInv'
  OBVIOUS
<1>1. CASE UNCHANGED vars
  BY <1>1 DEF AnsweredInv, vars, handlerVars
<1>2. CASE Eof \/ Interrupt
  BY <1>2 DEF AnsweredInv, Eof, Interrupt, End, handlerVars
<1>3. ASSUME NEW c \in Connections, NEW r \in HttpRequests, Send(c, r)
      PROVE  AnsweredInv'
  BY <1>3, AnsweredSend
<1>4. ASSUME NEW c \in Connections,
             Refuse(c) \/ Post(c) \/ PostNew(c) \/ Line(c) \/ Raise(c) \/ Finish(c)
               \/ Delete(c) \/ Stream(c)
      PROVE  AnsweredInv'
  <2>1. /\ UNCHANGED <<req, pos, replies>> /\ pc'[c] # "tool"
        /\ \A d \in Connections \ {c} : pc'[d] = pc[d]
    BY <1>4 DEF Refuse, Post, PostNew, Line, StartsIn, Raise, Finish, Finished, Delete,
                Stream, Goto, handlerVars, IInv, Types
  <2> QED
    BY <2>1, AnsweredStays
<1>5. ASSUME NEW c \in Connections,
             RefuseLine(c) \/ RaiseLine(c) \/ FinishLine(c) \/ HangUp(c) \/ Deliver(c)
               \/ Lose(c)
      PROVE  AnsweredInv'
  <2>1. /\ Forget(c)
        /\ \/ Goto(c, "ready", "idle") \/ Goto(c, "handling", "idle")
           \/ Goto(c, "stream", "idle") \/ Goto(c, "respond", "idle")
    BY <1>5 DEF RefuseLine, RaiseLine, FinishLine, HangUp, Deliver, Lose, Answered
  <2> QED
    BY <2>1, AnsweredForgets
<1>6. ASSUME NEW c \in Connections, Handle(c) \/ Await(c) \/ ToolDone(c)
      PROVE  AnsweredInv'
  BY <1>6, AnsweredHandle, AnsweredAwait, AnsweredToolDone
<1> QED
  BY <1>1, <1>2, <1>3, <1>4, <1>5, <1>6 DEF Next, LoopStep

\* Each request of a body is answered once and in its place, and nothing else is,
\* however the requests of others interleave at its tool calls (server.py:85-89).
THEOREM RepliesAreTheRequests == Spec => []RepliesMatch
<1>1. Init => AnsweredInv
  BY AnswersNone DEF Init, AnsweredInv
<1>2. IInv /\ AnsweredInv => RepliesMatch
  <2> SUFFICES ASSUME IInv, AnsweredInv, NEW c \in Connections,
                      pos[c] > Len(req[c].body)
               PROVE  /\ {replies[c][i] : i \in DOMAIN replies[c]}
                           = {i \in DOMAIN req[c].body : Expected(req[c].body[i])}
                      /\ \A i, j \in DOMAIN replies[c] :
                            i < j => replies[c][i] < replies[c][j]
    BY DEF RepliesMatch
  <2>1. pos[c] - 1 = Len(req[c].body) /\ DOMAIN req[c].body = 1 .. Len(req[c].body)
    BY HandlerFact
  <2> QED
    BY <2>1 DEF AnsweredInv, AnswersFirst
<1> QED
  BY <1>1, <1>2, AnsweredNext, Invariant, PTL DEF Spec

=============================================================================
