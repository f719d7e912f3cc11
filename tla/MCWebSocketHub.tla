--------------------------- MODULE MCWebSocketHub ---------------------------
(***************************************************************************)
(* Connections of one app (c1, c2) and one of another organization's app   *)
(* (c3); an event of the first organization, then one of its app.          *)
(***************************************************************************)
EXTENDS WebSocketHub

CONSTANTS c1, c2, c3, app1, app2, org1, org2, events, topic

MCAppOf == [c \in Conns |-> IF c = c3 THEN app2 ELSE app1]
MCOrgOf == [a \in Apps |-> IF a = app1 THEN org1 ELSE org2]
MCEventApp == [e \in 1 .. Events |-> IF e = 1 THEN NoApp ELSE app1]
MCEventOrg == [e \in 1 .. Events |-> org1]
MCEventChannel == [e \in 1 .. Events |-> topic]
MCLookups == 2 .. Events
=============================================================================
