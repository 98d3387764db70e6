----------------------------- MODULE MCTopicBus -----------------------------
(* Instances of TopicBus for TLC. *)
EXTENDS TopicBus

CONSTANTS t1, t2, p1, p2, q1

TwoTopics     == {t1, t2}
TwoPublishers == {p1, p2}
OneQueue      == {q1}
=============================================================================
