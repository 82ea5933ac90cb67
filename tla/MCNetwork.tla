------------------------------- MODULE MCNetwork -------------------------------
(* A house with two plugs, one scene of three functions, and GUIs that ask, *)
(* switch, leave and come back.                                             *)
EXTENDS Network

MCConns == 0..1
\* A command is "{", "{", "}", "}".
MCBrackets == <<1, 1, -1, -1>>

\* Two plugs of the house, and the ids whose bytes are smallest and largest.
MCPlug(name, id) == [type |-> "COURRANT", name |-> name, id |-> id]
MCId(b) == <<"F", "F", "9", "F", "1", "E", "0", b>>
MCSame(b) == [k \in 1..8 |-> b]
MCActions(kind) ==
    IF kind = "lamp" THEN <<MCPlug("open", MCId("5")), MCPlug("close", MCSame("0"))>>
    ELSE IF kind = "scene"
    THEN <<MCPlug("close", MCId("5")), [type |-> "CAFFE", name |-> "open", id |-> MCId("0")],
           MCPlug("open", MCSame("F"))>>
    ELSE IF kind = "typo" THEN <<MCPlug("open", MCId("5")), MCPlug("opne", MCId("5"))>>
    ELSE <<>>

MCPlan(says, sends, leaves, stops, closes) ==
    [says |-> says, gw |-> sends, leaves |-> leaves, stops |-> stops, closes |-> closes]
MCSays(a, b) == [i \in MCConns |-> IF i = 0 THEN a ELSE b]
MCPlans == {
    \* the gateway alone
    MCPlan(<<MCSays(<<>>, <<>>)>>, 3, FALSE, FALSE, FALSE),
    \* one client, and the server stops and starts again
    MCPlan(<<MCSays(<<"scene", "update">>, <<>>), MCSays(<<"lamp", "update">>, <<>>)>>,
           0, FALSE, TRUE, FALSE),
    \* a function that the plug does not have, a text and an answer that are too long
    MCPlan(<<MCSays(<<"typo">>, <<"update">>)>>, 0, FALSE, FALSE, FALSE),
    MCPlan(<<MCSays(<<"history", "update">>, <<"edata">>), MCSays(<<"lamp">>, <<>>)>>,
           0, FALSE, FALSE, FALSE),
    \* two clients that may leave
    MCPlan(<<MCSays(<<"lamp">>, <<"scene">>)>>, 0, TRUE, FALSE, FALSE),
    MCPlan(<<MCSays(<<"update", "update">>, <<"lamp">>)>>, 0, TRUE, FALSE, FALSE),
    \* the gateway leaves
    MCPlan(<<MCSays(<<"scene">>, <<"update">>), MCSays(<<"lamp">>, <<>>)>>,
           1, FALSE, FALSE, TRUE)}
==============================================================================
