-------------------------- MODULE MCMqttPublisher --------------------------
(* MqttPublisher for TLC: two topics, a channel of two, five events. *)
EXTENDS MqttPublisher

CONSTANTS t1, t2
MCTopics == {t1, t2}

============================================================================
