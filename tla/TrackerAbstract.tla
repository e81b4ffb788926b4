-------------------------- MODULE TrackerAbstract --------------------------
(***************************************************************************)
(* What the in-flight tracker (C3) and the consumer's offset handling      *)
(* promise the broker, with the bridge's goroutines, the map and the       *)
(* processor hidden. Replies are published one at a time; when one is,     *)
(* the mark of its partition may move forward, but only over offsets whose *)
(* replies are all published (spec I4, P2, P3). A commit makes the marks   *)
(* durable; a restart of the process falls back to the committed offsets.  *)
(***************************************************************************)
EXTENDS Integers

CONSTANTS
  Partitions,   \* the partitions of the inbound topic
  LogEnd        \* offsets 0 .. LogEnd - 1 exist on every partition

VARIABLES
  published,    \* reqOffsets whose replies the broker has acknowledged
  marked,       \* per partition: the offset the consumer would commit next
  committed     \* per partition: the consumer group's committed offset

vars == <<published, marked, committed>>

Offsets == 0 .. LogEnd - 1
Coord == Partitions \X Offsets

(* Every offset of partition p below n has a published reply.              *)
Releasable(p, n, pub) == \A o \in Offsets : o < n => <<p, o>> \in pub

Init ==
  /\ published = {}
  /\ marked = [p \in Partitions |-> 0]
  /\ committed = [p \in Partitions |-> 0]

(* The reply for c is acknowledged; the mark of c's partition stays or     *)
(* moves forward over a published prefix.                                  *)
Publish(c) ==
  /\ published' = published \cup {c}
  /\ \E n \in marked[c[1]] .. LogEnd :
       /\ Releasable(c[1], n, published')
       /\ marked' = [marked EXCEPT ![c[1]] = n]
  /\ UNCHANGED committed

(* The marks are committed (the periodic commit, or a rebalance).          *)
Commit ==
  /\ committed' = marked
  /\ UNCHANGED <<published, marked>>

(* The process restarts and the marks fall back to the committed offsets.  *)
Restart ==
  /\ marked' = committed
  /\ UNCHANGED <<published, committed>>

Next ==
  \/ \E c \in Coord : Publish(c)
  \/ Commit
  \/ Restart

Spec == Init /\ [][Next]_vars

=============================================================================
