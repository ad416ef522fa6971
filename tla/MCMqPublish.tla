---- MODULE MCMqPublish ----
(* Small instances of MqPublish.                                           *)
EXTENDS MqPublish

(* All requests go to one queue, so that their offsets can be mixed up.    *)
OneQueue == [c \in Payload |-> CHOOSE q \in Queue : TRUE]

(* One node was started with the default MQ_PEERS, which only has itself.  *)
Incomplete == [n \in Node |-> IF n = CHOOSE m \in Node : TRUE THEN {n} ELSE Node]
====
