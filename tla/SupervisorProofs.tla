-------------------------- MODULE SupervisorProofs --------------------------
(***************************************************************************)
(* Proofs about the server supervisor, for every pair of name sets.       *)
(***************************************************************************)
EXTENDS Supervisor, TLAPS

(* The inductive strengthening of TypeOK: the range loops only visit       *)
(* configured bridges, so only configured bridges ever leave idle, and the *)
(* at most one send startServer receives ends everything.                 *)
SInv ==
  /\ TypeOK
  /\ todo \subseteq conf
  /\ conf \subseteq Names
  /\ \A b \in Names : br[b] # "idle" => b \in conf
  /\ \A b, d \in Names : br[b] = "sent" /\ br[d] = "sent" => b = d
  /\ \A b \in Names : br[b] = "sent" => spc = "exited"
  /\ spc = "read" => failed = {} /\ \A b \in Names : br[b] = "idle"

LEMMA SInvInit == Init => SInv
BY DEF Init, SInv, TypeOK

(* One iteration of either range loop keeps SInv.                          *)
LEMMA LaunchSInv ==
  ASSUME SInv, NEW b \in Names, Launch(b), spc \in {"kafka", "webhooks"},
         spc = "kafka" => b \in KafkaNames, spc = "webhooks" => b \in WebhookNames
  PROVE  SInv'
<1> USE DEF SInv, TypeOK
<1>1. b \in conf
  BY DEF Launch
<1>2. CASE b \in nullConf
  <2>1. spc' = "exited" /\ result' = "panic"
        /\ UNCHANGED <<todo, br, conf, invalid, nullConf, failed>>
    BY <1>2 DEF Launch
  <2>2. QED
    BY <2>1
<1>3. CASE b \notin nullConf /\ ValidateConf(b)
  <2>1. br' = [br EXCEPT ![b] = "starting"] /\ todo' = todo \ {b}
        /\ UNCHANGED <<spc, result, conf, invalid, nullConf, failed>>
    BY <1>3 DEF Launch
  <2>2. QED
    BY <1>1, <2>1
<1>4. CASE b \notin nullConf /\ ~ValidateConf(b)
  <2>1. spc' = "exited" /\ result' = "configError"
        /\ UNCHANGED <<todo, br, conf, invalid, nullConf, failed>>
    BY <1>4 DEF Launch
  <2>2. QED
    BY <2>1
<1>5. QED
  BY <1>2, <1>3, <1>4

LEMMA SInvStep == SInv /\ [Next]_vars => SInv'
<1> SUFFICES ASSUME SInv, [Next]_vars PROVE SInv'
  OBVIOUS
<1> USE DEF SInv, TypeOK
<1>1. CASE ReadConfig
  <2>1. CASE spc' = "exited" /\ result' \in {"readError", "printed"}
             /\ UNCHANGED <<todo, conf, invalid, nullConf, failed, br>>
    BY <1>1, <2>1 DEF ReadConfig
  <2>2. CASE \E K \in SUBSET KafkaNames, W \in SUBSET WebhookNames,
               I \in SUBSET Names, N \in SUBSET KafkaNames :
               /\ conf' = K \cup W
               /\ invalid' = I \cap conf'
               /\ nullConf' = N \cap K
               /\ spc' = "kafka" /\ todo' = K
               /\ UNCHANGED <<result, failed, br>>
    BY <1>1, <2>2 DEF ReadConfig, Names
  <2>3. QED
    BY <1>1, <2>1, <2>2 DEF ReadConfig
<1>2. CASE KafkaLoop
  <2>1. CASE \E b \in KafkaNames : Launch(b)
    BY <1>2, <2>1, LaunchSInv DEF KafkaLoop, Names
  <2>2. CASE todo = {} /\ spc' = "webhooks" /\ todo' = conf \cap WebhookNames
             /\ UNCHANGED <<br, result, conf, invalid, nullConf, failed>>
    BY <1>2, <2>2 DEF KafkaLoop
  <2>3. QED
    BY <1>2, <2>1, <2>2 DEF KafkaLoop
<1>3. CASE WebhooksLoop
  <2>1. CASE \E b \in WebhookNames : Launch(b)
    BY <1>3, <2>1, LaunchSInv DEF WebhooksLoop, Names
  <2>2. CASE todo = {} /\ spc' = "wait" /\ UNCHANGED <<todo, br, result, conf, invalid, nullConf, failed>>
    BY <1>3, <2>2 DEF WebhooksLoop
  <2>3. QED
    BY <1>3, <2>1, <2>2 DEF WebhooksLoop
<1>4. CASE \E b \in KafkaNames : KafkaStart(b)
  BY <1>4 DEF KafkaStart, Alive, Names
<1>5. CASE \E b \in WebhookNames : WebhookStart(b)
  BY <1>5 DEF WebhookStart, Alive, Names
<1>6. CASE \E b \in Names : BridgeStop(b)
  BY <1>6 DEF BridgeStop, Alive
<1>7. CASE \E b \in KafkaNames : BridgePanic(b)
  BY <1>7 DEF BridgePanic, Alive
<1>8. CASE \E b \in Names : Receive(b)
  BY <1>8 DEF Receive
<1>9. CASE UNCHANGED vars
  BY <1>9 DEF vars
<1>10. QED
  BY <1>1, <1>2, <1>3, <1>4, <1>5, <1>6, <1>7, <1>8, <1>9 DEF Next

(* TypeOK holds in every reachable state: in particular startServer has   *)
(* returned exactly when the process has a result, and each range loop     *)
(* only visits keys of its own map.                                        *)
THEOREM SupervisorTypeCorrect == Spec => []TypeOK
<1>1. SInv => TypeOK
  BY DEF SInv
<1>2. QED
  BY <1>1, SInvInit, SInvStep, PTL DEF Spec

=============================================================================
