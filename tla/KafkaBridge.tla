---------------------------- MODULE KafkaBridge ----------------------------
(***************************************************************************)
(* The Kafka->Ethereum bridge of internal/kldkafka/kafkabridge.go: the     *)
(* in-flight map of message contexts, the consumer loop that admits        *)
(* messages under the MaxInFlight ceiling, the producer success loop that  *)
(* completes contexts and moves the consumer offset over the contiguous    *)
(* completed prefix of a partition, and the producer error loop that       *)
(* panics (the process is restarted and re-reads from the committed        *)
(* offset).                                                                *)
(*                                                                         *)
(* The Kafka client (sarama consumer and async producer) and the message   *)
(* processor live outside kafkabridge.go; only their interface to the      *)
(* bridge is modelled, from the spec: a partitioned log read in offset     *)
(* order with rebalances, MarkOffset keeping the highest mark, a periodic  *)
(* commit of the marks, a producer that acknowledges replies in any order, *)
(* and a processor that replies once to every context it is handed.        *)
(***************************************************************************)
EXTENDS Integers, FiniteSets

CONSTANTS
  Partitions,      \* the partitions of the inbound topic
  LogEnd,          \* every partition holds the offsets 0 .. LogEnd-1
  Unparsable,      \* the messages whose headers fail to unmarshal
  ConfMaxInFlight, \* the maxInFlight value as configured (flag, env or YAML)
  MaxCrashes,      \* bound on producer-error panics (each one a restart)
  MaxRebalances,   \* bound on consumer-group rebalances
  NoMsg            \* the consumer loop holds no message

Offsets == 0 .. LogEnd - 1
Coord == Partitions \X Offsets   \* the "topic:partition:offset" reqOffset

ASSUME ConstantsAssumption ==
  /\ Partitions # {}
  /\ LogEnd \in Nat
  /\ Unparsable \subseteq Coord
  /\ ConfMaxInFlight \in Int
  /\ MaxCrashes \in Nat
  /\ MaxRebalances \in Nat
  /\ NoMsg \notin Coord

(* KafkaBridge.ValidateConf: a zero maxInFlight is replaced by 10.         *)
MaxInFlight == IF ConfMaxInFlight = 0 THEN 10 ELSE ConfMaxInFlight

VARIABLES
  inFlight,    \* k.inFlight: the reqOffsets of the contexts in the map
  complete,    \* the contexts in the map whose ctx.complete is true
  processing,  \* contexts handed to processor.OnMessage, not yet replied
  pending,     \* replies in the producer, not yet acknowledged
  cpc,         \* where the consumer loop is
  cmsg,        \* the message the consumer loop holds
  cres,        \* what addInflightMsg returned for it
  fetch,       \* per partition, the next offset the consumer stream yields
  marked,      \* per partition, the offset marked on the consumer (next to read)
  committed,   \* per partition, the offset committed to the broker
  published,   \* ghost: the reqOffsets whose reply the broker acknowledged
  ctxReplies,  \* ghost: Reply calls on the context now in the map for a reqOffset
  runReplies,  \* ghost: Reply calls for a reqOffset since the process started
  crashes,     \* panics so far
  rebalances   \* rebalances so far

bridge   == <<inFlight, complete, processing, pending, cpc, cmsg, cres>>
consumer == <<fetch, marked, committed>>
ghost    == <<published, ctxReplies, runReplies, crashes, rebalances>>
vars     == <<bridge, consumer, ghost>>

Zero == [c \in Coord |-> 0]

Init ==
  /\ inFlight = {} /\ complete = {} /\ processing = {} /\ pending = {}
  /\ cpc = "recv" /\ cmsg = NoMsg /\ cres = "none"
  /\ fetch = [p \in Partitions |-> 0]
  /\ marked = [p \in Partitions |-> 0]
  /\ committed = [p \in Partitions |-> 0]
  /\ published = {}
  /\ ctxReplies = Zero /\ runReplies = Zero
  /\ crashes = 0 /\ rebalances = 0

-----------------------------------------------------------------------------
(* The Kafka client, as the spec describes it.                             *)

(* Fault: a client whose MarkOffset overwrites the mark instead of        *)
(* keeping the highest one.                                                *)
MarkOffsetNoMax(p, o) == marked' = [marked EXCEPT ![p] = o + 1]

(* consumer.MarkOffset(msg): sarama keeps the highest mark, msg.Offset+1.  *)
MarkOffset(p, o) ==
  marked' = [marked EXCEPT ![p] = IF o + 1 > @ THEN o + 1 ELSE @]

(* The periodic commit of the marked offsets to the broker.                *)
CommitMarks ==
  /\ committed # marked
  /\ committed' = marked
  /\ UNCHANGED <<bridge, fetch, marked, ghost>>

(* A rebalance: the marks are committed and the stream restarts from them, *)
(* redelivering every message at or above the committed offset.           *)
Rebalance ==
  /\ rebalances < MaxRebalances
  /\ committed' = marked
  /\ fetch' = marked
  /\ rebalances' = rebalances + 1
  /\ UNCHANGED <<bridge, marked, published, ctxReplies, runReplies, crashes>>

-----------------------------------------------------------------------------
(* kafkabridge.go                                                          *)

(* msgContext.Reply: the reply is enqueued on producer.Input() with the    *)
(* reqOffset as its metadata.                                              *)
Reply(c) ==
  /\ pending' = pending \cup {c}
  /\ ctxReplies' = [ctxReplies EXCEPT ![c] = @ + 1]
  /\ runReplies' = [runReplies EXCEPT ![c] = @ + 1]

(* Fault: no duplicate check, a redelivery overwrites the map entry.      *)
addInflightMsgNoDedup(m) ==
  /\ inFlight' = inFlight \cup {m}
  /\ ctxReplies' = [ctxReplies EXCEPT ![m] = 0]
  /\ cres' = IF m \in Unparsable THEN "bad" ELSE "ok"

(* addInflightMsg: a reqOffset already in the map is a redelivery and is   *)
(* dropped; otherwise the context is added, parsed or not.                 *)
addInflightMsg(m) ==
  IF m \in inFlight
  THEN /\ cres' = "dup"
       /\ UNCHANGED <<inFlight, ctxReplies>>
  ELSE /\ inFlight' = inFlight \cup {m}
       /\ ctxReplies' = [ctxReplies EXCEPT ![m] = 0]
       /\ cres' = IF m \in Unparsable THEN "bad" ELSE "ok"

(* The body of ConsumerMessagesLoop under the lock: wait on the condition  *)
(* variable while the map is full, else add the message.                   *)
WaitOrAdmit(m) ==
  IF Cardinality(inFlight) >= MaxInFlight
  THEN /\ cpc' = "wait"
       /\ UNCHANGED <<inFlight, cres, ctxReplies>>
  ELSE /\ addInflightMsg(m)
       /\ cpc' = "dispatch"

(* ConsumerMessagesLoop takes the next message of partition p and locks.   *)
ConsumerReceive(p) ==
  /\ cpc = "recv"
  /\ fetch[p] < LogEnd
  /\ cmsg' = <<p, fetch[p]>>
  /\ fetch' = [fetch EXCEPT ![p] = @ + 1]
  /\ WaitOrAdmit(<<p, fetch[p]>>)
  /\ UNCHANGED <<complete, processing, pending, marked, committed,
                 published, runReplies, crashes, rebalances>>

(* Fault: "if" instead of "for" around inFlightCond.Wait.                  *)
ConsumerWokenNoRecheck ==
  /\ cpc = "woken"
  /\ addInflightMsg(cmsg)
  /\ cpc' = "dispatch"
  /\ UNCHANGED <<complete, processing, pending, cmsg, consumer,
                 published, runReplies, crashes, rebalances>>

(* The consumer loop, woken by Broadcast, re-acquires the lock and checks  *)
(* the ceiling again (the for loop around inFlightCond.Wait).              *)
ConsumerWoken ==
  /\ cpc = "woken"
  /\ WaitOrAdmit(cmsg)
  /\ UNCHANGED <<complete, processing, pending, cmsg, consumer,
                 published, runReplies, crashes, rebalances>>

(* Fault: the unparsable message gets no error reply.                     *)
ConsumerDispatchNoErrorReply ==
  /\ cpc = "dispatch"
  /\ cpc' = "recv"
  /\ processing' = IF cres = "ok" THEN processing \cup {cmsg} ELSE processing
  /\ UNCHANGED <<inFlight, complete, pending, cmsg, cres, consumer, ghost>>

(* After Unlock: a duplicate is dropped, a parsed message goes to          *)
(* processor.OnMessage, an unparsable one gets a generic error Reply.      *)
ConsumerDispatch ==
  /\ cpc = "dispatch"
  /\ cpc' = "recv"
  /\ \/ /\ cres = "dup"
        /\ UNCHANGED <<processing, pending, ctxReplies, runReplies>>
     \/ /\ cres = "ok"
        /\ processing' = processing \cup {cmsg}
        /\ UNCHANGED <<pending, ctxReplies, runReplies>>
     \/ /\ cres = "bad"
        /\ Reply(cmsg)
        /\ UNCHANGED processing
  /\ UNCHANGED <<inFlight, complete, cmsg, cres, consumer,
                 published, crashes, rebalances>>

(* The processor replies (success, error or timeout) to a context.         *)
ProcessorReply(c) ==
  /\ c \in processing
  /\ processing' = processing \ {c}
  /\ Reply(c)
  /\ UNCHANGED <<inFlight, complete, cpc, cmsg, cres, consumer,
                 published, crashes, rebalances>>

(* The highest offset of a non-empty set of reqOffsets.                    *)
HighestOffset(S) == CHOOSE o \in {d[2] : d \in S} : \A d \in S : d[2] <= o

(* Fault: the walk does not stop at the first incomplete context.          *)
ReadyToAckNoBreak(p, done) == {d \in inFlight : d[1] = p /\ d \in done}

(* Fault: off by one in the walk, a context is released when every one     *)
(* before it is complete, whether or not it is complete itself.           *)
ReadyToAckStrict(p, done) ==
  LET inPart == {d \in inFlight : d[1] = p}
  IN {d \in inPart : \A e \in inPart : e[2] < d[2] => e \in done}

(* The contexts of partition p, in offset order, up to the first one that  *)
(* is not complete (done is the complete set after the update).            *)
ReadyToAck(p, done) ==
  LET inPart == {d \in inFlight : d[1] = p}
  IN {d \in inPart : \A e \in inPart : e[2] <= d[2] => e \in done}

(* Fault: the acknowledged prefix is deleted from the map but the         *)
(* complete flags are kept, as if held apart from the contexts.            *)
setInFlightCompleteKeepFlags(c) ==
  LET done  == complete \cup {c}
      ready == ReadyToAck(c[1], done)
  IN /\ inFlight' = inFlight \ ready
     /\ complete' = done
     /\ IF ready = {} THEN UNCHANGED marked
                      ELSE MarkOffset(c[1], HighestOffset(ready))

(* setInFlightComplete: mark ctx complete, remove the completed prefix of  *)
(* its partition from the map and mark the highest offset of it.           *)
setInFlightComplete(c) ==
  LET done  == complete \cup {c}
      ready == ReadyToAck(c[1], done)
  IN /\ inFlight' = inFlight \ ready
     /\ complete' = done \ ready
     /\ IF ready = {} THEN UNCHANGED marked
                      ELSE MarkOffset(c[1], HighestOffset(ready))

(* Fault: no inFlightCond.Broadcast after the completion.                  *)
ProducerSuccessLoopNoBroadcast(c) ==
  /\ c \in pending
  /\ c \in inFlight
  /\ pending' = pending \ {c}
  /\ published' = published \cup {c}
  /\ setInFlightComplete(c)
  /\ UNCHANGED <<processing, cpc, cmsg, cres, fetch, committed,
                 ctxReplies, runReplies, crashes, rebalances>>

(* ProducerSuccessLoop: the broker acknowledged the reply for c; under the *)
(* lock the context is completed and the waiting consumer is woken.        *)
ProducerSuccessLoop(c) ==
  /\ c \in pending
  /\ c \in inFlight
  /\ pending' = pending \ {c}
  /\ published' = published \cup {c}
  /\ setInFlightComplete(c)
  /\ cpc' = IF cpc = "wait" THEN "woken" ELSE cpc
  /\ UNCHANGED <<processing, cmsg, cres, fetch, committed,
                 ctxReplies, runReplies, crashes, rebalances>>

(* ProducerErrorLoop: a reply failed; the bridge panics and is restarted.  *)
(* Everything in memory is lost, marks not yet committed included, and the *)
(* consumer resumes from the committed offsets.                            *)
ProducerErrorLoop(c) ==
  /\ c \in pending
  /\ crashes < MaxCrashes
  /\ inFlight' = {} /\ complete' = {} /\ processing' = {} /\ pending' = {}
  /\ cpc' = "recv" /\ cmsg' = NoMsg /\ cres' = "none"
  /\ fetch' = committed
  /\ marked' = committed
  /\ ctxReplies' = Zero /\ runReplies' = Zero
  /\ crashes' = crashes + 1
  /\ UNCHANGED <<committed, published, rebalances>>

Next ==
  \/ \E p \in Partitions : ConsumerReceive(p)
  \/ ConsumerWoken
  \/ ConsumerDispatch
  \/ \E c \in Coord : ProcessorReply(c)
  \/ \E c \in Coord : ProducerSuccessLoop(c)
  \/ \E c \in Coord : ProducerErrorLoop(c)
  \/ CommitMarks
  \/ Rebalance

Spec == Init /\ [][Next]_vars

(* The Go scheduler runs every goroutine that can run: the consumer loop,  *)
(* the processor's workers and the producer success loop; the broker       *)
(* acknowledges every reply sent and the offset commit ticker fires.       *)
(* Panics and rebalances are never forced.                                 *)
FairSpec ==
  /\ Spec
  /\ WF_vars(\E p \in Partitions : ConsumerReceive(p))
  /\ WF_vars(ConsumerWoken)
  /\ WF_vars(ConsumerDispatch)
  /\ WF_vars(\E c \in Coord : ProcessorReply(c))
  /\ WF_vars(\E c \in Coord : ProducerSuccessLoop(c))
  /\ WF_vars(CommitMarks)

-----------------------------------------------------------------------------
(* Properties                                                              *)

(* Every variable has its type; a context marked complete is still in the  *)
(* in-flight map (setInFlightComplete removes both at once).               *)
TypeOK ==
  /\ inFlight \subseteq Coord
  /\ complete \subseteq inFlight
  /\ processing \subseteq Coord
  /\ pending \subseteq Coord
  /\ cpc \in {"recv", "wait", "woken", "dispatch"}
  /\ cmsg \in Coord \cup {NoMsg}
  /\ cpc # "recv" => cmsg \in Coord
  /\ cres \in {"none", "dup", "ok", "bad"}
  /\ fetch \in [Partitions -> 0 .. LogEnd]
  /\ marked \in [Partitions -> 0 .. LogEnd]
  /\ committed \in [Partitions -> 0 .. LogEnd]
  /\ published \subseteq Coord
  /\ ctxReplies \in [Coord -> Nat]
  /\ runReplies \in [Coord -> Nat]
  /\ crashes \in 0 .. MaxCrashes
  /\ rebalances \in 0 .. MaxRebalances

(* P1: however admissions, completions and wake-ups of the consumer loop   *)
(* interleave, the in-flight map never holds more than MaxInFlight         *)
(* contexts (the for loop around inFlightCond.Wait in ConsumerMessagesLoop).*)
CapacityBound == Cardinality(inFlight) <= MaxInFlight

(* P3/I4: an offset is marked on the consumer only when every message of   *)
(* that partition below it has had its reply acknowledged by the broker,   *)
(* whatever the order in which setInFlightComplete saw the completions.    *)
NoPrematureCommit ==
  \A p \in Partitions, o \in Offsets :
    o < marked[p] => <<p, o>> \in published

(* P4/P5: the context in the in-flight map for a reqOffset is replied to   *)
(* at most once, however often Kafka redelivers the message meanwhile      *)
(* (the duplicate check of addInflightMsg), and it is completed only by    *)
(* the acknowledgement of its own reply.                                   *)
ContextReplyOnce ==
  \A c \in inFlight :
    /\ ctxReplies[c] <= 1
    /\ c \in complete => ctxReplies[c] = 1

(* No context leaks from the in-flight map: each one is being dispatched   *)
(* by the consumer loop, is with the processor, has a reply in the         *)
(* producer or is complete (the error Reply of ConsumerMessagesLoop for an *)
(* unparsable message included).                                           *)
NoLeakedContext ==
  \A c \in inFlight :
    \/ c \in processing \cup pending \cup complete
    \/ cpc = "dispatch" /\ cmsg = c

(* Spec 4.5 and the comment at line 390 of ProducerSuccessLoop: every     *)
(* acknowledgement the producer can deliver finds its context in the map,  *)
(* so the panic for an unknown reqOffset is unreachable. A reply pending   *)
(* in the producer keeps its context in the map until its own ack.         *)
AckFindsContext == pending \subseteq inFlight

(* No lost wake-up of ConsumerMessagesLoop: the consumer sleeps on         *)
(* inFlightCond only while the map is full. Every completion that could    *)
(* free a slot (ProducerSuccessLoop's Broadcast) wakes it, and a restart   *)
(* starts it afresh, so it never sleeps beside a free slot.                *)
NoLostWakeup == cpc = "wait" => Cardinality(inFlight) >= MaxInFlight

(* The spec's at-most-once outbound claim: within one run of the process   *)
(* no reqOffset is replied to twice.                                       *)
AtMostOnceReplyPerRun == \A c \in Coord : runReplies[c] <= 1

(* The tracker seen from the broker: the replies, the marks and the       *)
(* committed offsets of this specification behave as TrackerAbstract says: *)
(* a mark only moves forward, and only over published replies, until a    *)
(* restart falls back to the committed offsets. It also covers a reply     *)
(* completed below the current mark after a rebalance's redelivery, where  *)
(* setInFlightComplete calls MarkOffset with a lower offset.               *)
TA == INSTANCE TrackerAbstract
        WITH published <- published, marked <- marked, committed <- committed

TrackerRefinement == TA!Spec

(* Every message of the log is eventually committed: no context stays in   *)
(* the map forever and the consumer loop is never left waiting.            *)
AllCommitted == <>(\A p \in Partitions : committed[p] = LogEnd)

-----------------------------------------------------------------------------
(* The inductive invariant behind NoPrematureCommit.                       *)

(* Offset o of partition p has a context in the map, has a published      *)
(* reply, or is the message the consumer loop holds while it waits.        *)
Covered(p, o) ==
  \/ <<p, o>> \in inFlight \cup published
  \/ cpc \in {"wait", "woken"} /\ cmsg = <<p, o>>

(* Held(c): c is held by the waiting consumer loop and was never handled.  *)
Held(c) == cpc \in {"wait", "woken"} /\ cmsg = c /\ c \notin inFlight \cup published

(* The committed offset never passes the mark (a restart falls back to it).*)
CommitBelowMark == \A p \in Partitions : committed[p] <= marked[p]

(* A complete context's reply has been published.                          *)
CompletePublished == complete \subseteq published

(* Every offset below the stream position was received and is covered.    *)
StreamCovered ==
  \A p \in Partitions, o \in Offsets : o < fetch[p] => Covered(p, o)

(* Every offset below a context in the map is covered.                     *)
MapCovered ==
  \A d \in inFlight, o \in Offsets : o <= d[2] => Covered(d[1], o)

(* Below the message the waiting consumer loop holds, everything is in the *)
(* map or published.                                                       *)
HeldBelowHandled ==
  cpc \in {"wait", "woken"} =>
    \A o \in Offsets : o < cmsg[2] => <<cmsg[1], o>> \in inFlight \cup published

(* A held message that was never handled lies above the map's contexts of  *)
(* its partition.                                                          *)
HeldAboveMap ==
  Held(cmsg) => \A d \in inFlight : d[1] = cmsg[1] => d[2] < cmsg[2]

(* The message being dispatched is in the map or already published.        *)
DispatchHandled == cpc = "dispatch" => cmsg \in inFlight \cup published

IInv ==
  /\ TypeOK
  /\ NoPrematureCommit
  /\ CommitBelowMark
  /\ CompletePublished
  /\ StreamCovered
  /\ MapCovered
  /\ HeldBelowHandled
  /\ HeldAboveMap
  /\ DispatchHandled

(* The lifecycle of a context in the map: it is in exactly one of the      *)
(* stages being dispatched (freshly admitted), with the processor, replied *)
(* and pending in the producer, or complete; and it has been replied to    *)
(* once exactly when it is pending or complete.                            *)
Fresh(c) == cpc = "dispatch" /\ cmsg = c /\ cres # "dup"

LInv ==
  /\ TypeOK
  /\ processing \subseteq inFlight
  /\ pending \subseteq inFlight
  /\ processing \cap pending = {}
  /\ processing \cap complete = {}
  /\ pending \cap complete = {}
  /\ cpc = "dispatch" /\ cres # "dup" =>
       cmsg \in inFlight \ (processing \cup pending \cup complete)
  /\ \A c \in inFlight :
       \/ c \in processing \cup pending \cup complete
       \/ Fresh(c)
  /\ \A c \in inFlight :
       ctxReplies[c] = IF c \in pending \cup complete THEN 1 ELSE 0

=============================================================================
