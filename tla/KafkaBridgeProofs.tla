------------------------- MODULE KafkaBridgeProofs -------------------------
(***************************************************************************)
(* Proofs about KafkaBridge for every value of the constants: the type     *)
(* invariant, the MaxInFlight ceiling, the commit-ordering invariant, the  *)
(* lifecycle of a context, the refinement of TrackerAbstract, the absence  *)
(* of a lost wake-up and the monotonicity of the committed offsets.        *)
(***************************************************************************)
EXTENDS KafkaBridge, WellFoundedInduction, FiniteSetTheorems, TLAPS

(* A non-empty set of naturals with an upper bound has a greatest element  *)
(* (the least upper bound in it, by well-foundedness of < on Nat).         *)
LEMMA MaxExists ==
  ASSUME NEW T \in SUBSET Nat, T # {}, NEW N \in Nat, \A t \in T : t <= N
  PROVE  \E m \in T : \A t \in T : t <= m
<1> DEFINE U == {u \in Nat : \A t \in T : t <= u}
<1>1. U \subseteq Nat /\ U # {}
  OBVIOUS
<1>2. PICK m \in U : \A y \in U : ~(<<y, m>> \in OpToRel(<, Nat))
  BY <1>1, NatLessThanWellFounded, WFMin
<1>3. \A y \in U : ~(y < m)
  BY <1>2 DEF OpToRel
<1>4. m \in T
  <2> SUFFICES ASSUME m \notin T PROVE FALSE
    OBVIOUS
  <2>1. PICK t0 \in T : TRUE
    OBVIOUS
  <2>2. m - 1 \in U
    BY <2>1
  <2> QED BY <2>2, <1>3
<1> QED BY <1>4

(* HighestOffset of a non-empty set of reqOffsets is one of their offsets  *)
(* and bounds all of them: the last element of the sorted readyToAck.      *)
LEMMA HighestOffsetSpec ==
  ASSUME NEW S \in SUBSET Coord, S # {}
  PROVE  /\ HighestOffset(S) \in {d[2] : d \in S}
         /\ \A d \in S : d[2] <= HighestOffset(S)
<1> DEFINE T == {d[2] : d \in S}
<1>1. T \in SUBSET Nat /\ T # {} /\ \A t \in T : t <= LogEnd
  BY ConstantsAssumption DEF Coord, Offsets
<1>2. \E m \in T : \A t \in T : t <= m
  BY <1>1, ConstantsAssumption, MaxExists
<1> QED BY <1>2 DEF HighestOffset

(* readyToAck releases only contexts of the map, of partition p, that are  *)
(* complete once the acknowledged one is: the walk of lines 206-224 starts *)
(* at the lowest context and stops at the first incomplete one.            *)
LEMMA ReadyToAckSpec ==
  ASSUME inFlight \subseteq Coord, NEW p, NEW done
  PROVE  /\ ReadyToAck(p, done) \subseteq inFlight \cap done
         /\ \A d \in ReadyToAck(p, done) : d[1] = p
<1> SUFFICES ASSUME NEW d \in ReadyToAck(p, done)
             PROVE  d \in inFlight /\ d \in done /\ d[1] = p
  OBVIOUS
<1>1. d \in inFlight /\ d[1] = p /\ d[2] \in Offsets
  BY DEF ReadyToAck, Coord
<1> QED BY <1>1, ConstantsAssumption DEF ReadyToAck, Offsets

-----------------------------------------------------------------------------
(* Typing                                                                  *)

LEMMA TypeInit == Init => TypeOK
BY ConstantsAssumption DEF Init, TypeOK, Zero, Coord, Offsets

LEMMA TypeStep == TypeOK /\ [Next]_vars => TypeOK'
<1> SUFFICES ASSUME TypeOK, [Next]_vars PROVE TypeOK'
  OBVIOUS
<1> USE ConstantsAssumption
<1>1. ASSUME NEW p \in Partitions, ConsumerReceive(p) PROVE TypeOK'
  <2> DEFINE m == <<p, fetch[p]>>
  <2>1. fetch[p] \in Offsets
    BY <1>1 DEF ConsumerReceive, TypeOK, Offsets
  <2>2. m \in Coord
    BY <2>1 DEF Coord
  <2>3. fetch' \in [Partitions -> 0 .. LogEnd]
    BY <1>1, <2>1 DEF ConsumerReceive, TypeOK, Offsets
  <2>4. CASE Cardinality(inFlight) >= MaxInFlight
    BY <1>1, <2>2, <2>3, <2>4 DEF ConsumerReceive, WaitOrAdmit, TypeOK
  <2>5. CASE ~(Cardinality(inFlight) >= MaxInFlight) /\ m \in inFlight
    BY <1>1, <2>2, <2>3, <2>5 DEF ConsumerReceive, WaitOrAdmit,
                                  addInflightMsg, TypeOK
  <2>6. CASE ~(Cardinality(inFlight) >= MaxInFlight) /\ m \notin inFlight
    BY <1>1, <2>2, <2>3, <2>6 DEF ConsumerReceive, WaitOrAdmit,
                                  addInflightMsg, TypeOK
  <2> QED BY <2>4, <2>5, <2>6
<1>2. CASE ConsumerWoken
  BY <1>2 DEF ConsumerWoken, WaitOrAdmit, addInflightMsg, TypeOK, consumer
<1>3. CASE ConsumerDispatch
  BY <1>3 DEF ConsumerDispatch, Reply, TypeOK, consumer, ghost
<1>4. ASSUME NEW c \in Coord, ProcessorReply(c) PROVE TypeOK'
  BY <1>4 DEF ProcessorReply, Reply, TypeOK, consumer
<1>5. ASSUME NEW c \in Coord, ProducerSuccessLoop(c) PROVE TypeOK'
  <2> DEFINE done  == complete \cup {c}
             ready == ReadyToAck(c[1], done)
  <2>1. ready \subseteq inFlight
    BY ReadyToAckSpec DEF TypeOK
  <2>2. marked' \in [Partitions -> 0 .. LogEnd]
    <3>1. CASE ready = {}
      BY <1>5, <3>1 DEF ProducerSuccessLoop, setInFlightComplete, TypeOK
    <3>2. CASE ready # {}
      <4>0. ready \in SUBSET Coord
        BY <2>1 DEF TypeOK
      <4>1. HighestOffset(ready) \in Offsets
        <5>1. PICK d \in ready : HighestOffset(ready) = d[2]
          BY <3>2, <4>0, HighestOffsetSpec
        <5> QED BY <5>1, <4>0 DEF Coord
      <4> QED
        BY <1>5, <3>2, <4>1 DEF ProducerSuccessLoop, setInFlightComplete,
                                MarkOffset, TypeOK, Offsets, Coord
    <3> QED BY <3>1, <3>2
  <2> QED
    BY <1>5, <2>2 DEF ProducerSuccessLoop, setInFlightComplete, TypeOK
<1>6. ASSUME NEW c \in Coord, ProducerErrorLoop(c) PROVE TypeOK'
  BY <1>6 DEF ProducerErrorLoop, TypeOK, Zero
<1>7. CASE CommitMarks
  BY <1>7 DEF CommitMarks, TypeOK, bridge, ghost
<1>8. CASE Rebalance
  BY <1>8 DEF Rebalance, TypeOK, bridge
<1>9. CASE UNCHANGED vars
  BY <1>9 DEF vars, bridge, consumer, ghost, TypeOK
<1> QED
  BY <1>1, <1>2, <1>3, <1>4, <1>5, <1>6, <1>7, <1>8, <1>9 DEF Next

(* The type invariant holds in every reachable state.                      *)
THEOREM TypeCorrect == Spec => []TypeOK
BY TypeInit, TypeStep, PTL DEF Spec

-----------------------------------------------------------------------------
(* The MaxInFlight ceiling                                                 *)

(* CapacityBound strengthened by the finiteness of the map.                *)
CapInv == TypeOK /\ IsFiniteSet(inFlight) /\ CapacityBound

(* The admission under the lock keeps the ceiling: a message is added only *)
(* after the for loop found the map below MaxInFlight.                     *)
LEMMA WaitOrAdmitCap ==
  ASSUME MaxInFlight \in Nat, IsFiniteSet(inFlight), CapacityBound,
         NEW m, WaitOrAdmit(m)
  PROVE  IsFiniteSet(inFlight') /\ CapacityBound'
<1>1. Cardinality(inFlight) \in Nat
  BY FS_CardinalityType
<1>2. CASE Cardinality(inFlight) >= MaxInFlight
  BY <1>2 DEF WaitOrAdmit, CapacityBound
<1>3. CASE ~(Cardinality(inFlight) >= MaxInFlight)
  <2>1. CASE m \in inFlight
    BY <1>3, <2>1 DEF WaitOrAdmit, addInflightMsg, CapacityBound
  <2>2. CASE m \notin inFlight
    <3>1. inFlight' = inFlight \cup {m}
      BY <1>3, <2>2 DEF WaitOrAdmit, addInflightMsg
    <3>2. IsFiniteSet(inFlight \cup {m})
          /\ Cardinality(inFlight \cup {m}) = Cardinality(inFlight) + 1
      BY <2>2, FS_AddElement
    <3> QED BY <1>1, <1>3, <3>1, <3>2 DEF CapacityBound
  <2> QED BY <2>1, <2>2
<1> QED BY <1>2, <1>3

LEMMA CapStep ==
  ASSUME MaxInFlight \in Nat
  PROVE  CapInv /\ [Next]_vars => CapInv'
<1> SUFFICES ASSUME CapInv, [Next]_vars PROVE CapInv'
  OBVIOUS
<1>0. TypeOK'
  BY TypeStep DEF CapInv
<1>1. ASSUME NEW p \in Partitions, ConsumerReceive(p)
      PROVE  IsFiniteSet(inFlight') /\ CapacityBound'
  <2>1. WaitOrAdmit(<<p, fetch[p]>>)
    BY <1>1 DEF ConsumerReceive
  <2> QED BY <2>1, WaitOrAdmitCap DEF CapInv
<1>2. ASSUME ConsumerWoken
      PROVE  IsFiniteSet(inFlight') /\ CapacityBound'
  <2>1. WaitOrAdmit(cmsg)
    BY <1>2 DEF ConsumerWoken
  <2> QED BY <2>1, WaitOrAdmitCap DEF CapInv
<1>3. ASSUME NEW c \in Coord, ProducerSuccessLoop(c)
      PROVE  IsFiniteSet(inFlight') /\ CapacityBound'
  <2>1. inFlight' \subseteq inFlight
    BY <1>3 DEF ProducerSuccessLoop, setInFlightComplete
  <2>2. IsFiniteSet(inFlight) /\ Cardinality(inFlight) <= MaxInFlight
    BY DEF CapInv, CapacityBound
  <2>3. IsFiniteSet(inFlight') /\ Cardinality(inFlight') <= Cardinality(inFlight)
    BY <2>1, <2>2, FS_Subset
  <2>4. Cardinality(inFlight') \in Nat /\ Cardinality(inFlight) \in Nat
    BY <2>2, <2>3, FS_CardinalityType
  <2> QED BY <2>2, <2>3, <2>4 DEF CapacityBound
<1>4. ASSUME NEW c \in Coord, ProducerErrorLoop(c)
      PROVE  IsFiniteSet(inFlight') /\ CapacityBound'
  BY <1>4, FS_EmptySet DEF ProducerErrorLoop, CapacityBound
<1>5. ASSUME inFlight' = inFlight
      PROVE  IsFiniteSet(inFlight') /\ CapacityBound'
  BY <1>5 DEF CapInv, CapacityBound
<1>6. \/ inFlight' = inFlight
      \/ ConsumerWoken
      \/ \E p \in Partitions : ConsumerReceive(p)
      \/ \E c \in Coord : ProducerSuccessLoop(c)
      \/ \E c \in Coord : ProducerErrorLoop(c)
  BY DEF Next, vars, bridge, ConsumerDispatch, ProcessorReply, CommitMarks,
         Rebalance
<1>7. IsFiniteSet(inFlight') /\ CapacityBound'
  BY <1>1, <1>2, <1>3, <1>4, <1>5, <1>6
<1> QED BY <1>0, <1>7 DEF CapInv

(* P1: for every non-negative configured maxInFlight, the in-flight map    *)
(* never holds more than MaxInFlight contexts.                             *)
THEOREM CapacityCorrect ==
  ASSUME ConfMaxInFlight \in Nat
  PROVE  Spec => []CapacityBound
<1>1. MaxInFlight \in Nat
  BY DEF MaxInFlight
<1>2. Init => CapInv
  BY <1>1, TypeInit, FS_EmptySet DEF Init, CapInv, CapacityBound
<1>3. CapInv /\ [Next]_vars => CapInv'
  BY <1>1, CapStep
<1>4. CapInv => CapacityBound
  BY DEF CapInv
<1> QED BY <1>2, <1>3, <1>4, PTL DEF Spec

-----------------------------------------------------------------------------
(* The commit-ordering invariant                                           *)

LEMMA IInvInit == Init => IInv
BY TypeInit, ConstantsAssumption
   DEF Init, IInv, NoPrematureCommit, CommitBelowMark, CompletePublished,
       StreamCovered, MapCovered, HeldBelowHandled, HeldAboveMap,
       DispatchHandled, Offsets

(* Advancing the stream position of p past f keeps StreamCovered when the  *)
(* received offset f is covered afterwards and coverage is kept.           *)
LEMMA StreamStep ==
  ASSUME TypeOK, StreamCovered, NEW p \in Partitions,
         fetch[p] \in Offsets,
         fetch' = [fetch EXCEPT ![p] = fetch[p] + 1],
         \A q \in Partitions, o \in Offsets :
            Covered(q, o) => <<q, o>> \in inFlight \cup published,
         \A q \in Partitions, o \in Offsets :
            <<q, o>> \in inFlight \cup published \/ <<q, o>> = <<p, fetch[p]>>
              => Covered(q, o)'
  PROVE  StreamCovered'
<1> SUFFICES ASSUME NEW q \in Partitions, NEW o \in Offsets, o < fetch'[q]
             PROVE  Covered(q, o)'
  BY DEF StreamCovered
<1>1. CASE q = p /\ o = fetch[p]
  BY <1>1
<1>2. CASE ~(q = p /\ o = fetch[p])
  <2>1. o < fetch[q]
    BY <1>2 DEF TypeOK, Offsets
  <2> QED BY <2>1 DEF StreamCovered
<1> QED BY <1>1, <1>2

(* The map and the published set only grow under the consumer loop.       *)
LEMMA ReceiveIInv ==
  ASSUME IInv, TypeOK', NEW p \in Partitions, ConsumerReceive(p)
  PROVE  IInv'
<1> DEFINE f == fetch[p]
           m == <<p, f>>
<1> USE ConstantsAssumption
<1>0. /\ f \in Offsets /\ m \in Coord /\ cpc = "recv" /\ cmsg' = m
      /\ fetch' = [fetch EXCEPT ![p] = f + 1]
      /\ UNCHANGED <<marked, committed, published, complete>>
  BY DEF ConsumerReceive, IInv, TypeOK, Offsets, Coord
<1>1. \A q \in Partitions, o \in Offsets :
        Covered(q, o) => <<q, o>> \in inFlight \cup published
  BY <1>0 DEF Covered
<1>2. inFlight \subseteq inFlight'
  BY DEF ConsumerReceive, WaitOrAdmit, addInflightMsg
<1>3. NoPrematureCommit' /\ CommitBelowMark' /\ CompletePublished'
  BY <1>0 DEF IInv, NoPrematureCommit, CommitBelowMark, CompletePublished,
              ConsumerReceive, WaitOrAdmit, addInflightMsg
<1>4. CASE Cardinality(inFlight) >= MaxInFlight
  <2>1. cpc' = "wait" /\ inFlight' = inFlight
    BY <1>4 DEF ConsumerReceive, WaitOrAdmit
  <2>2. \A q \in Partitions, o \in Offsets :
          <<q, o>> \in inFlight \cup published \/ <<q, o>> = m => Covered(q, o)'
    BY <1>0, <2>1 DEF Covered
  <2>3. StreamCovered'
    BY <1>0, <1>1, <2>2, StreamStep DEF IInv
  <2>4. MapCovered'
    BY <1>1, <2>1, <2>2, <1>0 DEF IInv, MapCovered, TypeOK, Coord
  <2>5. HeldBelowHandled'
    BY <1>0, <1>1, <2>1 DEF IInv, StreamCovered, HeldBelowHandled
  <2>6. HeldAboveMap'
    <3> SUFFICES ASSUME m \notin inFlight \cup published,
                        NEW d \in inFlight, d[1] = p
                 PROVE  d[2] < f
      BY <1>0, <2>1 DEF HeldAboveMap, Held
    <3>1. d \in Coord
      BY DEF IInv, TypeOK
    <3>2. ~(f <= d[2])
      BY <3>1, <1>0, <1>1 DEF IInv, MapCovered
    <3> QED BY <3>1, <3>2, <1>0 DEF Coord, Offsets
  <2>7. DispatchHandled'
    BY <2>1 DEF DispatchHandled
  <2> QED BY <1>3, <2>3, <2>4, <2>5, <2>6, <2>7 DEF IInv
<1>5. CASE ~(Cardinality(inFlight) >= MaxInFlight)
  <2>1. cpc' = "dispatch" /\ inFlight' = inFlight \cup {m}
    BY <1>5 DEF ConsumerReceive, WaitOrAdmit, addInflightMsg
  <2>2. \A q \in Partitions, o \in Offsets :
          <<q, o>> \in inFlight \cup published \/ <<q, o>> = m => Covered(q, o)'
    BY <1>0, <2>1 DEF Covered
  <2>3. StreamCovered'
    BY <1>0, <1>1, <2>2, StreamStep DEF IInv
  <2>4. MapCovered'
    <3> SUFFICES ASSUME NEW d \in inFlight', NEW o \in Offsets, o <= d[2]
                 PROVE  Covered(d[1], o)'
      BY DEF MapCovered
    <3>1. CASE d \in inFlight
      BY <3>1, <1>1, <2>2, <1>0 DEF IInv, MapCovered, TypeOK, Coord
    <3>2. CASE d = m
      <4>1. o < f \/ o = f
        BY <3>2, <1>0 DEF Offsets
      <4> QED BY <3>2, <4>1, <1>1, <2>2, <1>0 DEF IInv, StreamCovered
    <3> QED BY <2>1, <3>1, <3>2
  <2>5. HeldBelowHandled' /\ HeldAboveMap'
    BY <2>1 DEF HeldBelowHandled, HeldAboveMap, Held
  <2>6. DispatchHandled'
    BY <2>1, <1>0 DEF DispatchHandled
  <2> QED BY <1>3, <2>3, <2>4, <2>5, <2>6 DEF IInv
<1> QED BY <1>4, <1>5

(* A woken consumer loop either waits again or admits the held message.    *)
LEMMA WokenIInv ==
  ASSUME IInv, TypeOK', ConsumerWoken
  PROVE  IInv'
<1>0. /\ cpc = "woken" /\ cmsg \in Coord /\ cmsg' = cmsg
      /\ UNCHANGED <<fetch, marked, committed, published, complete>>
  BY DEF ConsumerWoken, IInv, TypeOK, consumer
<1>1. NoPrematureCommit' /\ CommitBelowMark' /\ CompletePublished'
  BY <1>0 DEF IInv, NoPrematureCommit, CommitBelowMark, CompletePublished,
              ConsumerWoken, WaitOrAdmit, addInflightMsg
<1>2. CASE Cardinality(inFlight) >= MaxInFlight
  <2>1. cpc' = "wait" /\ inFlight' = inFlight
    BY <1>2 DEF ConsumerWoken, WaitOrAdmit
  <2>2. \A q, o : Covered(q, o)' = Covered(q, o)
    BY <1>0, <2>1 DEF Covered
  <2>3. Held(cmsg)' = Held(cmsg)
    BY <1>0, <2>1 DEF Held
  <2> QED
    BY <1>0, <1>1, <2>1, <2>2, <2>3
    DEF IInv, StreamCovered, MapCovered, HeldBelowHandled, HeldAboveMap,
        DispatchHandled
<1>3. CASE ~(Cardinality(inFlight) >= MaxInFlight)
  <2>1. cpc' = "dispatch" /\ inFlight' = inFlight \cup {cmsg}
    BY <1>3 DEF ConsumerWoken, WaitOrAdmit, addInflightMsg
  <2>2. \A q, o : Covered(q, o) => Covered(q, o)'
    BY <1>0, <2>1 DEF Covered
  <2>3. StreamCovered'
    BY <1>0, <2>2 DEF IInv, StreamCovered
  <2>4. MapCovered'
    <3> SUFFICES ASSUME NEW d \in inFlight', NEW o \in Offsets, o <= d[2]
                 PROVE  Covered(d[1], o)'
      BY DEF MapCovered
    <3>1. CASE d \in inFlight
      BY <3>1, <2>2 DEF IInv, MapCovered
    <3>2. CASE d = cmsg /\ o < cmsg[2]
      BY <3>2, <1>0, <2>1 DEF IInv, HeldBelowHandled, Covered, TypeOK, Coord
    <3>3. CASE d = cmsg /\ o = cmsg[2]
      BY <3>3, <1>0, <2>1 DEF Covered, Coord
    <3> QED BY <2>1, <3>1, <3>2, <3>3, <1>0 DEF Coord, Offsets
  <2>5. HeldBelowHandled' /\ HeldAboveMap'
    BY <2>1 DEF HeldBelowHandled, HeldAboveMap, Held
  <2>6. DispatchHandled'
    BY <2>1, <1>0 DEF DispatchHandled
  <2> QED BY <1>1, <2>3, <2>4, <2>5, <2>6 DEF IInv
<1> QED BY <1>2, <1>3

(* Dispatch and the processor's reply touch none of the invariant's state  *)
(* but the consumer loop's pc, which leaves dispatch for recv.             *)
LEMMA DispatchIInv ==
  ASSUME IInv, TypeOK', ConsumerDispatch \/ \E c \in Coord : ProcessorReply(c)
  PROVE  IInv'
<1>1. UNCHANGED <<inFlight, complete, cmsg, fetch, marked, committed, published>>
  BY DEF ConsumerDispatch, ProcessorReply, consumer
<1>2. NoPrematureCommit' /\ CommitBelowMark' /\ CompletePublished'
  BY <1>1 DEF IInv, NoPrematureCommit, CommitBelowMark, CompletePublished
<1>3. CASE ConsumerDispatch
  <2>1. cpc = "dispatch" /\ cpc' = "recv"
    BY <1>3 DEF ConsumerDispatch
  <2>2. \A q, o : Covered(q, o) => Covered(q, o)'
    BY <1>1, <2>1 DEF Covered
  <2>3. HeldBelowHandled' /\ HeldAboveMap' /\ DispatchHandled'
    BY <2>1 DEF HeldBelowHandled, HeldAboveMap, Held, DispatchHandled
  <2> QED
    BY <1>1, <1>2, <2>2, <2>3 DEF IInv, StreamCovered, MapCovered
<1>4. CASE \E c \in Coord : ProcessorReply(c)
  <2>1. cpc' = cpc
    BY <1>4 DEF ProcessorReply
  <2>2. \A q, o : Covered(q, o) => Covered(q, o)'
    BY <1>1, <2>1 DEF Covered
  <2>3. HeldBelowHandled' /\ HeldAboveMap' /\ DispatchHandled'
    BY <1>1, <2>1
    DEF IInv, HeldBelowHandled, HeldAboveMap, Held, DispatchHandled
  <2> QED
    BY <1>1, <1>2, <2>2, <2>3 DEF IInv, StreamCovered, MapCovered
<1> QED BY <1>3, <1>4

(* A restart empties the map and falls back to the committed offsets,      *)
(* which are published.                                                    *)
LEMMA ErrorIInv ==
  ASSUME IInv, TypeOK', NEW c \in Coord, ProducerErrorLoop(c)
  PROVE  IInv'
<1>1. /\ inFlight' = {} /\ complete' = {} /\ cpc' = "recv"
      /\ fetch' = committed /\ marked' = committed
      /\ UNCHANGED <<committed, published>>
  BY DEF ProducerErrorLoop
<1>2. \A p \in Partitions, o \in Offsets :
        o < committed[p] => <<p, o>> \in published
  BY DEF IInv, NoPrematureCommit, CommitBelowMark, TypeOK, Offsets
<1>3. NoPrematureCommit' /\ CommitBelowMark' /\ CompletePublished'
  BY <1>1, <1>2 DEF NoPrematureCommit, CommitBelowMark, CompletePublished,
                    IInv, TypeOK
<1>4. StreamCovered'
  BY <1>1, <1>2 DEF StreamCovered, Covered
<1>5. MapCovered' /\ HeldBelowHandled' /\ HeldAboveMap' /\ DispatchHandled'
  BY <1>1 DEF MapCovered, HeldBelowHandled, HeldAboveMap, Held,
              DispatchHandled
<1> QED BY <1>3, <1>4, <1>5 DEF IInv

(* A commit or a rebalance moves committed (and fetch) to the marks.       *)
LEMMA CommitIInv ==
  ASSUME IInv, TypeOK', CommitMarks \/ Rebalance
  PROVE  IInv'
<1>1. /\ committed' = marked
      /\ fetch' = fetch \/ fetch' = marked
      /\ UNCHANGED <<inFlight, complete, cpc, cmsg, marked, published>>
  BY DEF CommitMarks, Rebalance, bridge, ghost
<1>2. \A p \in Partitions, o \in Offsets :
        o < marked[p] => Covered(p, o)
  BY DEF IInv, NoPrematureCommit, Covered
<1> QED
  BY <1>1, <1>2
  DEF IInv, NoPrematureCommit, CommitBelowMark, CompletePublished,
      StreamCovered, MapCovered, HeldBelowHandled, HeldAboveMap,
      DispatchHandled, Covered, Held, TypeOK

(* Every offset up to a reqOffset that readyToAck releases has been       *)
(* published once the reply is: it is in the map below that reqOffset and *)
(* so complete, or already published, or it is a message the consumer loop *)
(* holds, which lies above the map and so cannot be below that reqOffset.  *)
LEMMA ReadyBelowPublished ==
  ASSUME IInv, NEW c \in Coord, c \in inFlight,
         NEW dh \in ReadyToAck(c[1], complete \cup {c}),
         NEW o \in Offsets, o <= dh[2]
  PROVE  <<c[1], o>> \in published \cup complete \cup {c}
<1> DEFINE p == c[1]
           done == complete \cup {c}
           inPart == {d \in inFlight : d[1] = p}
<1>1. dh \in inPart /\ \A e \in inPart : e[2] <= dh[2] => e \in done
  BY DEF ReadyToAck
<1>2. dh \in Coord /\ p \in Partitions
  BY <1>1 DEF IInv, TypeOK, Coord
<1>3. Covered(p, o)
  BY <1>1, <1>2 DEF IInv, MapCovered
<1>4. CASE <<p, o>> \in inFlight
  BY <1>1, <1>4
<1>5. CASE <<p, o>> \in published
  BY <1>5
<1>6. CASE <<p, o>> \notin inFlight \cup published
  <2>1. Held(cmsg) /\ cmsg = <<p, o>>
    BY <1>3, <1>6 DEF Covered, Held
  <2>2. dh[2] < o
    BY <1>1, <2>1 DEF IInv, HeldAboveMap
  <2> QED BY <2>2, <1>2 DEF Coord, Offsets
<1> QED BY <1>4, <1>5, <1>6

(* The producer's success loop publishes c, removes the released prefix   *)
(* and advances the mark to just past it.                                  *)
LEMMA SuccessIInv ==
  ASSUME IInv, TypeOK', NEW c \in Coord, ProducerSuccessLoop(c)
  PROVE  IInv'
<1> DEFINE p == c[1]
           done == complete \cup {c}
           ready == ReadyToAck(p, done)
<1>0. /\ c \in inFlight /\ p \in Partitions
      /\ published' = published \cup {c}
      /\ inFlight' = inFlight \ ready /\ complete' = done \ ready
      /\ ready \subseteq inFlight
      /\ ready = {} => marked' = marked
      /\ ready # {} => MarkOffset(p, HighestOffset(ready))
      /\ UNCHANGED <<cmsg, fetch, committed>>
      /\ (cpc' \in {"wait", "woken"}) = (cpc \in {"wait", "woken"})
      /\ cpc' = "dispatch" => cpc = "dispatch"
  BY DEF ProducerSuccessLoop, setInFlightComplete, ReadyToAck, Coord
<1>1. ready \subseteq published'
  <2>1. ready \subseteq done
    BY ReadyToAckSpec DEF IInv, TypeOK
  <2> QED BY <1>0, <2>1 DEF IInv, CompletePublished
<1>2. inFlight \cup published \subseteq inFlight' \cup published'
  BY <1>0, <1>1
<1>3. \A q, o : Covered(q, o) => Covered(q, o)'
  BY <1>0, <1>2 DEF Covered
<1>4. Held(cmsg)' => Held(cmsg)
  BY <1>0, <1>2 DEF Held
<1>5. CompletePublished'
  BY <1>0 DEF IInv, CompletePublished
<1>6. StreamCovered' /\ MapCovered'
  BY <1>0, <1>3 DEF IInv, StreamCovered, MapCovered
<1>7. HeldBelowHandled' /\ HeldAboveMap' /\ DispatchHandled'
  BY <1>0, <1>2, <1>4 DEF IInv, HeldBelowHandled, HeldAboveMap, DispatchHandled
<1>8. ASSUME ready = {} PROVE NoPrematureCommit' /\ CommitBelowMark'
  BY <1>0, <1>8 DEF IInv, NoPrematureCommit, CommitBelowMark
<1>9. ASSUME ready # {} PROVE NoPrematureCommit' /\ CommitBelowMark'
  <2>1. ready \in SUBSET Coord
    BY <1>0 DEF IInv, TypeOK
  <2>2. PICK dh \in ready : HighestOffset(ready) = dh[2]
    BY <1>9, <2>1, HighestOffsetSpec
  <2>3. dh[1] = p /\ dh[2] \in Offsets
    BY <2>1 DEF ReadyToAck, Coord
  <2>4. marked' = [marked EXCEPT ![p] = IF dh[2] + 1 > @ THEN dh[2] + 1 ELSE @]
    BY <1>0, <1>9, <2>2 DEF MarkOffset
  <2>5. \A o \in Offsets : o <= dh[2] => <<p, o>> \in published'
    BY <1>0, <1>1, ReadyBelowPublished DEF IInv, CompletePublished
  <2>6. CommitBelowMark'
    BY <2>4, <1>0, <2>3 DEF IInv, CommitBelowMark, TypeOK, Offsets
  <2>7. NoPrematureCommit'
    <3> SUFFICES ASSUME NEW q \in Partitions, NEW o \in Offsets,
                        o < marked'[q]
                 PROVE  <<q, o>> \in published'
      BY DEF NoPrematureCommit
    <3>1. CASE o < marked[q]
      BY <3>1, <1>0 DEF IInv, NoPrematureCommit
    <3>2. CASE ~(o < marked[q])
      <4>1. q = p /\ o <= dh[2]
        BY <3>2, <2>4, <2>3 DEF IInv, TypeOK, Offsets
      <4> QED BY <4>1, <2>5
    <3> QED BY <3>1, <3>2
  <2> QED BY <2>6, <2>7
<1> QED BY <1>8, <1>9, <1>5, <1>6, <1>7 DEF IInv

LEMMA IInvStep == IInv /\ [Next]_vars => IInv'
<1> SUFFICES ASSUME IInv, [Next]_vars PROVE IInv'
  OBVIOUS
<1>0. TypeOK'
  BY TypeStep DEF IInv
<1>1. CASE \E p \in Partitions : ConsumerReceive(p)
  BY <1>0, <1>1, ReceiveIInv
<1>2. CASE ConsumerWoken
  BY <1>0, <1>2, WokenIInv
<1>3. CASE ConsumerDispatch \/ \E c \in Coord : ProcessorReply(c)
  BY <1>0, <1>3, DispatchIInv
<1>4. CASE \E c \in Coord : ProducerSuccessLoop(c)
  BY <1>0, <1>4, SuccessIInv
<1>5. CASE \E c \in Coord : ProducerErrorLoop(c)
  BY <1>0, <1>5, ErrorIInv
<1>6. CASE CommitMarks \/ Rebalance
  BY <1>0, <1>6, CommitIInv
<1>7. CASE UNCHANGED vars
  BY <1>7
  DEF vars, bridge, consumer, ghost, IInv, TypeOK, NoPrematureCommit,
      CommitBelowMark, CompletePublished, StreamCovered, MapCovered,
      HeldBelowHandled, HeldAboveMap, DispatchHandled, Covered, Held
<1> QED BY <1>1, <1>2, <1>3, <1>4, <1>5, <1>6, <1>7 DEF Next

(* P2: the marked offset of a partition, and so the offset committed to    *)
(* Kafka, never passes a message whose reply the producer has not yet      *)
(* acknowledged: setInFlightComplete marks only a contiguous completed     *)
(* prefix, and a restart falls back to the committed offsets.              *)
THEOREM CommitOrderCorrect == Spec => []NoPrematureCommit
<1>1. Init => IInv
  BY IInvInit
<1>2. IInv /\ [Next]_vars => IInv'
  BY IInvStep
<1>3. IInv => NoPrematureCommit
  BY DEF IInv
<1> QED BY <1>1, <1>2, <1>3, PTL DEF Spec

-----------------------------------------------------------------------------
(* The lifecycle of a context                                              *)

LEMMA LInvInit == Init => LInv
BY TypeInit DEF Init, LInv

(* The consumer loop's admission under the lock: it waits, drops a         *)
(* duplicate, or adds a fresh context that has not been replied to.        *)
LEMMA AdmitLInv ==
  ASSUME LInv, TypeOK', cpc \in {"recv", "woken"}, NEW m \in Coord,
         WaitOrAdmit(m), cmsg' = m,
         UNCHANGED <<complete, processing, pending>>
  PROVE  LInv'
<1>1. \A c \in inFlight : c \in processing \cup pending \cup complete
  BY DEF LInv, Fresh
<1>2. CASE Cardinality(inFlight) >= MaxInFlight
  <2>1. cpc' = "wait" /\ UNCHANGED <<inFlight, cres, ctxReplies>>
    BY <1>2 DEF WaitOrAdmit
  <2> QED BY <1>1, <2>1 DEF LInv, Fresh
<1>3. CASE ~(Cardinality(inFlight) >= MaxInFlight) /\ m \in inFlight
  <2>1. cpc' = "dispatch" /\ cres' = "dup" /\ UNCHANGED <<inFlight, ctxReplies>>
    BY <1>3 DEF WaitOrAdmit, addInflightMsg
  <2> QED BY <1>1, <2>1 DEF LInv, Fresh
<1>4. CASE ~(Cardinality(inFlight) >= MaxInFlight) /\ m \notin inFlight
  <2>1. /\ cpc' = "dispatch" /\ cres' \in {"ok", "bad"}
        /\ inFlight' = inFlight \cup {m}
        /\ ctxReplies' = [ctxReplies EXCEPT ![m] = 0]
    BY <1>4 DEF WaitOrAdmit, addInflightMsg
  <2>2. m \notin processing \cup pending \cup complete
    BY <1>4 DEF LInv, TypeOK
  <2>3. \A c \in inFlight' : ctxReplies'[c] = IF c \in pending \cup complete THEN 1 ELSE 0
    BY <2>1, <2>2, <1>4 DEF LInv, TypeOK
  <2> QED BY <1>1, <2>1, <2>2, <2>3 DEF LInv, Fresh
<1> QED BY <1>2, <1>3, <1>4

(* Dispatch hands a fresh context to the processor or replies to it; the  *)
(* processor's reply moves a context from processing to pending.           *)
LEMMA DispatchLInv ==
  ASSUME LInv, TypeOK', ConsumerDispatch
  PROVE  LInv'
<1>0. /\ cpc = "dispatch" /\ cpc' = "recv"
      /\ UNCHANGED <<inFlight, complete, cmsg, cres>>
  BY DEF ConsumerDispatch
<1>1. CASE cres = "dup"
  <2>1. UNCHANGED <<processing, pending, ctxReplies>>
    BY <1>1 DEF ConsumerDispatch
  <2>2. \A c \in inFlight : c \in processing \cup pending \cup complete
    BY <1>0, <1>1 DEF LInv, Fresh
  <2> QED BY <1>0, <2>1, <2>2 DEF LInv, Fresh
<1>2. CASE cres # "dup"
  <2>1. cmsg \in inFlight \ (processing \cup pending \cup complete)
        /\ ctxReplies[cmsg] = 0
    BY <1>0, <1>2 DEF LInv
  <2>2. \A c \in inFlight : c \in processing \cup pending \cup complete \/ c = cmsg
    BY <1>0 DEF LInv, Fresh
  <2>3. CASE cres = "ok"
    <3>1. processing' = processing \cup {cmsg}
          /\ UNCHANGED <<pending, ctxReplies>>
      BY <2>3 DEF ConsumerDispatch
    <3> QED BY <1>0, <2>1, <2>2, <3>1 DEF LInv, Fresh
  <2>4. CASE cres = "bad"
    <3>1. /\ pending' = pending \cup {cmsg} /\ UNCHANGED processing
          /\ ctxReplies' = [ctxReplies EXCEPT ![cmsg] = @ + 1]
      BY <2>4 DEF ConsumerDispatch, Reply
    <3>2. \A c \in inFlight : ctxReplies'[c] =
            IF c \in pending' \cup complete THEN 1 ELSE 0
      BY <2>1, <3>1 DEF LInv, TypeOK
    <3> QED BY <1>0, <2>1, <2>2, <3>1, <3>2 DEF LInv, Fresh
  <2>5. cres \in {"ok", "bad"}
    BY <1>2 DEF ConsumerDispatch
  <2> QED BY <2>3, <2>4, <2>5
<1> QED BY <1>1, <1>2

LEMMA ProcessorLInv ==
  ASSUME LInv, TypeOK', NEW c \in Coord, ProcessorReply(c)
  PROVE  LInv'
<1>1. /\ c \in processing /\ processing' = processing \ {c}
      /\ pending' = pending \cup {c}
      /\ ctxReplies' = [ctxReplies EXCEPT ![c] = @ + 1]
      /\ UNCHANGED <<inFlight, complete, cpc, cmsg, cres>>
  BY DEF ProcessorReply, Reply
<1>2. c \in inFlight /\ c \notin pending \cup complete /\ ctxReplies[c] = 0
  BY <1>1 DEF LInv
<1>3. \A d \in inFlight : ctxReplies'[d] =
        IF d \in pending' \cup complete THEN 1 ELSE 0
  BY <1>1, <1>2 DEF LInv, TypeOK
<1> QED BY <1>1, <1>2, <1>3 DEF LInv, Fresh

(* The acknowledgement of c's reply: c leaves pending for complete, and   *)
(* what readyToAck releases is complete or c itself, so no context with    *)
(* the processor, pending in the producer or being dispatched leaves.     *)
LEMMA SuccessLInv ==
  ASSUME LInv, TypeOK', NEW c \in Coord, ProducerSuccessLoop(c)
  PROVE  LInv'
<1> DEFINE done == complete \cup {c}
           ready == ReadyToAck(c[1], done)
<1>0. /\ c \in pending /\ pending' = pending \ {c}
      /\ inFlight' = inFlight \ ready /\ complete' = done \ ready
      /\ UNCHANGED <<processing, cmsg, cres, ctxReplies>>
      /\ cpc' = "dispatch" <=> cpc = "dispatch"
  BY DEF ProducerSuccessLoop, setInFlightComplete
<1>1. ready \subseteq done
  BY ReadyToAckSpec DEF LInv, TypeOK
<1>2. /\ processing \cap ready = {}
      /\ (pending \ {c}) \cap ready = {}
  BY <1>0, <1>1 DEF LInv
<1>3. cpc = "dispatch" /\ cres # "dup" => cmsg \notin done
  BY <1>0 DEF LInv
<1>4. \A d \in inFlight' :
        d \in processing' \cup pending' \cup complete' \/ Fresh(d)'
  BY <1>0, <1>1 DEF LInv, Fresh
<1>5. \A d \in inFlight' :
        ctxReplies'[d] = IF d \in pending' \cup complete' THEN 1 ELSE 0
  BY <1>0 DEF LInv
<1> QED BY <1>0, <1>1, <1>2, <1>3, <1>4, <1>5 DEF LInv

LEMMA LInvStep == LInv /\ [Next]_vars => LInv'
<1> SUFFICES ASSUME LInv, [Next]_vars PROVE LInv'
  OBVIOUS
<1>0. TypeOK'
  BY TypeStep DEF LInv
<1>1. ASSUME NEW p \in Partitions, ConsumerReceive(p) PROVE LInv'
  <2>1. <<p, fetch[p]>> \in Coord
    BY <1>1, ConstantsAssumption DEF ConsumerReceive, LInv, TypeOK, Coord, Offsets
  <2> QED BY <1>0, <1>1, <2>1, AdmitLInv DEF ConsumerReceive
<1>2. CASE ConsumerWoken
  <2>1. cmsg \in Coord
    BY <1>2 DEF ConsumerWoken, LInv, TypeOK
  <2> QED BY <1>0, <1>2, <2>1, AdmitLInv DEF ConsumerWoken
<1>3. CASE ConsumerDispatch
  BY <1>0, <1>3, DispatchLInv
<1>4. CASE \E c \in Coord : ProcessorReply(c)
  BY <1>0, <1>4, ProcessorLInv
<1>5. CASE \E c \in Coord : ProducerSuccessLoop(c)
  BY <1>0, <1>5, SuccessLInv
<1>6. ASSUME NEW c \in Coord, ProducerErrorLoop(c) PROVE LInv'
  BY <1>0, <1>6 DEF ProducerErrorLoop, LInv
<1>7. CASE CommitMarks \/ Rebalance \/ UNCHANGED vars
  BY <1>0, <1>7
  DEF CommitMarks, Rebalance, vars, bridge, ghost, LInv, Fresh
<1> QED BY <1>1, <1>2, <1>3, <1>4, <1>5, <1>6, <1>7 DEF Next

(* P4/P5: a context in the map is replied to at most once, and completed  *)
(* only after its single reply, however Kafka redelivers its message.     *)
THEOREM ReplyOnceCorrect == Spec => []ContextReplyOnce
<1>1. LInv => ContextReplyOnce
  BY DEF LInv, ContextReplyOnce
<1> QED BY <1>1, LInvInit, LInvStep, PTL DEF Spec

(* Spec 4.2: no context leaks from the map; each is being dispatched, is  *)
(* with the processor, pending in the producer or complete.               *)
THEOREM NoLeakCorrect == Spec => []NoLeakedContext
<1>1. LInv => NoLeakedContext
  BY DEF LInv, NoLeakedContext, Fresh
<1> QED BY <1>1, LInvInit, LInvStep, PTL DEF Spec

(* Spec 4.5: every acknowledgement the producer delivers finds its        *)
(* context, so ProducerSuccessLoop never panics for an unknown reqOffset.  *)
THEOREM AckFindsContextCorrect == Spec => []AckFindsContext
<1>1. LInv => AckFindsContext
  BY DEF LInv, AckFindsContext
<1> QED BY <1>1, LInvInit, LInvStep, PTL DEF Spec

-----------------------------------------------------------------------------
(* Refinement of the abstract tracker                                      *)

(* A step of the success loop is a Publish of the abstract tracker: the    *)
(* mark of c's partition stays or moves forward, over published replies.   *)
LEMMA SuccessRefines ==
  ASSUME IInv, IInv', NEW c \in Coord, ProducerSuccessLoop(c)
  PROVE  TA!Publish(c)
<1> DEFINE p == c[1]
           ready == ReadyToAck(p, complete \cup {c})
           n == marked'[p]
<1>1. p \in Partitions /\ marked \in [Partitions -> 0 .. LogEnd]
      /\ marked' \in [Partitions -> 0 .. LogEnd]
  BY DEF IInv, TypeOK, Coord
<1>2. marked' = [marked EXCEPT ![p] = n] /\ marked[p] <= n
  <2>1. CASE ready = {}
    BY <2>1, <1>1 DEF ProducerSuccessLoop, setInFlightComplete
  <2>2. CASE ready # {}
    <3>1. MarkOffset(p, HighestOffset(ready))
      BY <2>2 DEF ProducerSuccessLoop, setInFlightComplete
    <3>2. HighestOffset(ready) \in Nat
      <4>1. ready \in SUBSET Coord
        BY DEF ReadyToAck, IInv, TypeOK
      <4>2. PICK d \in ready : HighestOffset(ready) = d[2]
        BY <2>2, <4>1, HighestOffsetSpec
      <4>3. d[2] \in Offsets
        BY <4>1, <4>2 DEF Coord
      <4> QED BY <4>2, <4>3, ConstantsAssumption DEF Offsets
    <3>3. marked' = [marked EXCEPT ![p] = IF HighestOffset(ready) + 1 > marked[p]
                                         THEN HighestOffset(ready) + 1
                                         ELSE marked[p]]
      BY <3>1 DEF MarkOffset
    <3>4. marked'[p] = IF HighestOffset(ready) + 1 > marked[p]
                       THEN HighestOffset(ready) + 1 ELSE marked[p]
      BY <3>3, <1>1
    <3>5. marked[p] <= marked'[p]
      BY <3>2, <3>4, <1>1
    <3>6. marked' = [marked EXCEPT ![p] = marked'[p]]
      BY <3>3, <3>4
    <3> QED BY <3>5, <3>6
  <2> QED BY <2>1, <2>2
<1>3. TA!Releasable(p, n, published')
  BY <1>1 DEF IInv, NoPrematureCommit, TA!Releasable, TA!Offsets, Offsets
<1>4. n \in marked[p] .. LogEnd
  BY <1>1, <1>2, ConstantsAssumption
<1> QED
  BY <1>2, <1>3, <1>4 DEF ProducerSuccessLoop, TA!Publish

(* P2/P3 as a whole: the replies, marks and committed offsets of the       *)
(* bridge behave as TrackerAbstract says, for every value of the constants.*)
THEOREM TrackerRefines == Spec => TrackerRefinement
<1>1. Init => TA!Init
  BY DEF Init, TA!Init
<1>2. IInv /\ IInv' /\ [Next]_vars => [TA!Next]_TA!vars
  <2> SUFFICES ASSUME IInv, IInv', [Next]_vars PROVE [TA!Next]_TA!vars
    OBVIOUS
  <2>1. CASE \E c \in Coord : ProducerSuccessLoop(c)
    <3>1. PICK c \in Coord : ProducerSuccessLoop(c)
      BY <2>1
    <3>2. c \in TA!Coord
      BY DEF Coord, TA!Coord, Offsets, TA!Offsets
    <3> QED BY <3>1, <3>2, SuccessRefines DEF TA!Next
  <2>2. CASE \E c \in Coord : ProducerErrorLoop(c)
    BY <2>2 DEF ProducerErrorLoop, TA!Next, TA!Restart
  <2>3. CASE CommitMarks \/ Rebalance
    BY <2>3 DEF CommitMarks, Rebalance, ghost, TA!Next, TA!Commit
  <2>4. CASE \/ \E p \in Partitions : ConsumerReceive(p)
             \/ ConsumerWoken \/ ConsumerDispatch
             \/ \E c \in Coord : ProcessorReply(c)
             \/ UNCHANGED vars
    BY <2>4 DEF ConsumerReceive, ConsumerWoken, ConsumerDispatch,
                ProcessorReply, consumer, vars, ghost, TA!vars
  <2> QED BY <2>1, <2>2, <2>3, <2>4 DEF Next
<1>3. Spec => []IInv
  BY IInvInit, IInvStep, PTL DEF Spec
<1> QED BY <1>1, <1>2, <1>3, PTL DEF Spec, TrackerRefinement, TA!Spec

-----------------------------------------------------------------------------
(* No lost wake-up                                                         *)

(* The consumer loop goes to sleep only from the for loop's check, which   *)
(* found the map full, and the map is left as it was.                      *)
LEMMA WaitOrAdmitWakeup ==
  ASSUME NEW m, WaitOrAdmit(m)
  PROVE  NoLostWakeup'
<1>1. CASE Cardinality(inFlight) >= MaxInFlight
  <2>1. cpc' = "wait" /\ inFlight' = inFlight
    BY <1>1 DEF WaitOrAdmit
  <2>2. QED
    BY <1>1, <2>1 DEF NoLostWakeup
<1>2. CASE ~(Cardinality(inFlight) >= MaxInFlight)
  <2>1. cpc' = "dispatch"
    BY <1>2 DEF WaitOrAdmit
  <2>2. QED
    BY <2>1 DEF NoLostWakeup
<1>3. QED
  BY <1>1, <1>2

LEMMA WakeupStep == NoLostWakeup /\ [Next]_vars => NoLostWakeup'
<1> SUFFICES ASSUME NoLostWakeup, [Next]_vars PROVE NoLostWakeup'
  OBVIOUS
<1>1. CASE \E p \in Partitions : ConsumerReceive(p)
  BY <1>1, WaitOrAdmitWakeup DEF ConsumerReceive
<1>2. CASE ConsumerWoken
  BY <1>2, WaitOrAdmitWakeup DEF ConsumerWoken
<1>3. CASE ConsumerDispatch
  BY <1>3 DEF ConsumerDispatch, NoLostWakeup
<1>4. CASE \E c \in Coord : ProcessorReply(c)
  BY <1>4 DEF ProcessorReply, NoLostWakeup
<1>5. CASE \E c \in Coord : ProducerSuccessLoop(c)
  <2>1. cpc' # "wait"
    BY <1>5 DEF ProducerSuccessLoop
  <2>2. QED
    BY <2>1 DEF NoLostWakeup
<1>6. CASE \E c \in Coord : ProducerErrorLoop(c)
  BY <1>6 DEF ProducerErrorLoop, NoLostWakeup
<1>7. CASE CommitMarks \/ Rebalance
  BY <1>7 DEF CommitMarks, Rebalance, bridge, NoLostWakeup
<1>8. CASE UNCHANGED vars
  BY <1>8 DEF vars, bridge, NoLostWakeup
<1>9. QED
  BY <1>1, <1>2, <1>3, <1>4, <1>5, <1>6, <1>7, <1>8 DEF Next

(* The consumer loop never sleeps on inFlightCond while the map has a free *)
(* slot: ProducerSuccessLoop broadcasts with every completion, and the for *)
(* loop re-checks the ceiling before it waits again.                       *)
THEOREM NoLostWakeupCorrect == Spec => []NoLostWakeup
<1>1. Init => NoLostWakeup
  BY DEF Init, NoLostWakeup
<1> QED BY <1>1, WakeupStep, PTL DEF Spec

=============================================================================
