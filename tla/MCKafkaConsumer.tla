-------------------------- MODULE MCKafkaConsumer ---------------------------
(***************************************************************************)
(* Two processes that share two partitions: p1 gets as many messages as    *)
(* MaxOffset allows, so that a commit can come after a later one, p2 only  *)
(* one.                                                                    *)
(***************************************************************************)
EXTENDS KafkaConsumer

CONSTANTS p1, p2
MCPartitions == {p1, p2}

MCNext == Next /\ log'[p2] <= 1
MCSpec == Init /\ [][MCNext]_vars /\ Fairness
=============================================================================
