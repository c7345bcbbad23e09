----------------------------- MODULE MCMcpServer -----------------------------
(* The messages of the instances: each method as it should be sent, and the  *)
(* ways in which it should not.                                              *)
EXTENDS McpServer, TLC

CONSTANTS c1, c2

M(method, id, valid) == [method |-> method, id |-> id, valid |-> valid]

Alone == {M("initialize", "present", FALSE), M("initialize", "absent", TRUE),
          M("list", "present", FALSE), M("list", "absent", TRUE),
          M("call", "absent", TRUE), M("call", "present", FALSE),
          M("notifications", "present", TRUE), M("malformed", "absent", TRUE),
          M("ping", "absent", TRUE), M("unknown", "present", TRUE)}
Valid == M("initialize", "present", TRUE)
Call == M("call", "present", TRUE)
Invalid == M("ping", "invalid", TRUE)
Batched == {Valid, Call, Invalid, M("notifications", "absent", TRUE),
            M("ping", "present", TRUE)}

SomeBodies ==
    {<<>>} \cup {<<m>> : m \in Alone \cup Batched} \cup
    {<<Valid, m>> : m \in Batched} \cup
    {<<m, Call>> : m \in {M("initialize", "absent", TRUE), Call}}
FewBodies == {<<m>> : m \in Batched}
=============================================================================
