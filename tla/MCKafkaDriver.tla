---------------------------- MODULE MCKafkaDriver ---------------------------
(* Servers that consume events; the first also produces to audit, which     *)
(* nobody consumes, and the third was given no serializer.                  *)
EXTENDS KafkaDriver

CONSTANTS events, audit, demo1, demo2, demo3

ThreeServers == {demo1, demo2, demo3}
HaveSerializer == {demo1, demo2}
TwoTopics == {events, audit}
ConsumeEvents == [s \in ThreeServers |-> {events}]
DeclaresAudit == [s \in ThreeServers |-> IF s = demo1 THEN {audit} ELSE {}]
FirstStops == {demo1}
TwoEvents == [t \in TwoTopics |-> IF t = events THEN 2 ELSE 0]

=============================================================================
