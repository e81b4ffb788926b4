--------------------------- MODULE MC_KafkaBridge ---------------------------
(* Small instance of KafkaBridge for TLC: two partitions of three messages *)
(* each, one of them unparsable, at most two contexts in flight, one panic *)
(* and one rebalance.                                                      *)
EXTENDS KafkaBridge

CONSTANTS p1, p2

MC_Partitions == {p1, p2}
MC_Unparsable == {<<p1, 1>>}

(* A maxInFlight of -1, as set by --maxinflight or KAFKA_MAX_INFLIGHT. *)
MC_NegativeMaxInFlight == -1
=============================================================================
