----------------------------- MODULE Supervisor -----------------------------
(***************************************************************************)
(* The server supervisor (C7): startServer reads the aggregate config,    *)
(* then, in two loops over Go maps (random order), validates each Kafka    *)
(* bridge and launches it in a goroutine, then each webhooks bridge; it    *)
(* then waits for the first goroutine to send on the unbuffered channel    *)
(* anyRoutineFinished and returns, which ends the process. A bridge's run  *)
(* is abstracted to starting, serving and finished; a producer error of a  *)
(* Kafka bridge panics and ends the process at once.                       *)
(***************************************************************************)
EXTENDS FiniteSets

CONSTANTS
  KafkaNames,      \* names a config file may give Kafka bridges
  WebhookNames     \* names a config file may give webhooks bridges

Names == KafkaNames \cup WebhookNames

ASSUME SupervisorAssumption == KafkaNames \cap WebhookNames = {}

VARIABLES
  spc,      \* startServer's place: read, kafka, webhooks, wait, exited
  todo,     \* map entries the current range loop has not visited yet
  br,       \* per bridge: idle, starting, serving, finished, sent
  result,   \* how the process ended
  conf,     \* the bridges the config file names (both maps' keys)
  invalid,  \* configured bridges whose ValidateConf fails
  nullConf, \* Kafka entries whose value is null (a nil *KafkaBridgeConf)
  failed    \* bridges whose Start returned an error (only logged)

vars == <<spc, todo, br, result, conf, invalid, nullConf, failed>>

Init ==
  /\ spc = "read"
  /\ todo = {}
  /\ br = [b \in Names |-> "idle"]
  /\ result = "none"
  /\ conf = {}
  /\ invalid = {}
  /\ nullConf = {}
  /\ failed = {}

(* The process has not exited: goroutines only run while main is alive.   *)
Alive == spc # "exited"

(* readServerConfig and the PrintYAML branch: a read or parse error and    *)
(* printing return at once; otherwise the file names some bridges, any of  *)
(* them possibly invalid, a Kafka entry possibly null (json.Unmarshal of   *)
(* "name": null into map[string]*KafkaBridgeConf), and the Kafka loop      *)
(* starts.                                                                 *)
ReadConfig ==
  /\ spc = "read"
  /\ \/ /\ spc' = "exited" /\ result' \in {"readError", "printed"}
        /\ UNCHANGED <<todo, conf, invalid, nullConf>>
     \/ \E K \in SUBSET KafkaNames, W \in SUBSET WebhookNames,
          I \in SUBSET Names, N \in SUBSET KafkaNames :
          /\ conf' = K \cup W
          /\ invalid' = I \cap conf'
          /\ nullConf' = N \cap K
          /\ spc' = "kafka" /\ todo' = K
          /\ UNCHANGED result
  /\ UNCHANGED <<br, failed>>

(* KafkaBridge.ValidateConf: fails only for a missing rpc.url (MaxInFlight *)
(* and MaxTXWaitTime are defaulted, never rejected); a webhooks bridge's   *)
(* check is outside this repository.                                       *)
ValidateConf(b) == b \notin invalid

(* Fault: the loop goes on to the next entry after a validation error.     *)
LaunchNoReturn(b) ==
  /\ b \in todo
  /\ \/ /\ b \in nullConf
        /\ spc' = "exited" /\ result' = "panic"
        /\ UNCHANGED <<todo, br>>
     \/ /\ b \notin nullConf /\ ValidateConf(b)
        /\ br' = [br EXCEPT ![b] = "starting"]
        /\ todo' = todo \ {b}
        /\ UNCHANGED <<spc, result>>
     \/ /\ b \notin nullConf /\ ~ValidateConf(b)
        /\ result' = "configError" /\ todo' = todo \ {b}
        /\ UNCHANGED <<spc, br>>
  /\ UNCHANGED <<conf, invalid, nullConf, failed>>

(* One iteration of a range loop of startServer: SetConf copies *conf,     *)
(* which panics for a null entry; then validate the bridge and launch its  *)
(* goroutine, or return the validation error.                              *)
Launch(b) ==
  /\ b \in todo
  /\ \/ /\ b \in nullConf
        /\ spc' = "exited" /\ result' = "panic"
        /\ UNCHANGED <<todo, br>>
     \/ /\ b \notin nullConf /\ ValidateConf(b)
        /\ br' = [br EXCEPT ![b] = "starting"]
        /\ todo' = todo \ {b}
        /\ UNCHANGED <<spc, result>>
     \/ /\ b \notin nullConf /\ ~ValidateConf(b)
        /\ spc' = "exited" /\ result' = "configError"
        /\ UNCHANGED <<todo, br>>
  /\ UNCHANGED <<conf, invalid, nullConf, failed>>

(* The Kafka loop: the next entry, or on to the webhooks loop.             *)
KafkaLoop ==
  /\ spc = "kafka"
  /\ \/ \E b \in KafkaNames : Launch(b)
     \/ todo = {} /\ spc' = "webhooks" /\ todo' = conf \cap WebhookNames
        /\ UNCHANGED <<br, result, conf, invalid, nullConf, failed>>

(* The webhooks loop: the next entry, or on to the receive.                *)
WebhooksLoop ==
  /\ spc = "webhooks"
  /\ \/ \E b \in WebhookNames : Launch(b)
     \/ todo = {} /\ spc' = "wait" /\ UNCHANGED <<todo, br, result, conf, invalid, nullConf, failed>>

(* KafkaBridge.Start in the goroutine (printYAML is false in the server): *)
(* connect dials the JSON/RPC node and KafkaCommon.Start connects to the   *)
(* brokers; either may fail, and then Start returns the error, which the   *)
(* goroutine logs before going on to its send.                             *)
KafkaStart(b) ==
  /\ Alive
  /\ br[b] = "starting"
  /\ \/ br' = [br EXCEPT ![b] = "serving"] /\ UNCHANGED failed
     \/ br' = [br EXCEPT ![b] = "finished"] /\ failed' = failed \cup {b}
  /\ UNCHANGED <<spc, todo, result, conf, invalid, nullConf>>

(* WebhooksBridge.Start: serves HTTP until it fails.                       *)
WebhookStart(b) ==
  /\ Alive
  /\ br[b] = "starting"
  /\ \/ br' = [br EXCEPT ![b] = "serving"] /\ UNCHANGED failed
     \/ br' = [br EXCEPT ![b] = "finished"] /\ failed' = failed \cup {b}
  /\ UNCHANGED <<spc, todo, result, conf, invalid, nullConf>>

(* A serving bridge's Start returns: the consumer stream closed and the    *)
(* loops ended, or the HTTP server stopped.                                *)
BridgeStop(b) ==
  /\ Alive
  /\ br[b] = "serving"
  /\ br' = [br EXCEPT ![b] = "finished"]
  /\ UNCHANGED <<spc, todo, result, conf, invalid, nullConf, failed>>

(* ProducerErrorLoop of a serving Kafka bridge panics: the whole process   *)
(* ends, the other bridges and startServer with it.                        *)
BridgePanic(b) ==
  /\ Alive
  /\ br[b] = "serving"
  /\ spc' = "exited" /\ result' = "panic"
  /\ UNCHANGED <<todo, br, conf, invalid, nullConf, failed>>

(* Fault: startServer waits for every launched goroutine, not the first.   *)
ReceiveWaitAll(b) ==
  /\ spc = "wait"
  /\ br[b] = "finished"
  /\ \A d \in Names : br[d] \in {"idle", "finished"}
  /\ br' = [br EXCEPT ![b] = "sent"]
  /\ spc' = "exited" /\ result' = "ok"
  /\ UNCHANGED <<todo, conf, invalid, nullConf, failed>>

(* anyRoutineFinished <- true meets <-anyRoutineFinished: the first        *)
(* finished goroutine's send is received and startServer returns nil.      *)
(* A goroutine that finishes earlier blocks on the send until then.        *)
Receive(b) ==
  /\ spc = "wait"
  /\ br[b] = "finished"
  /\ br' = [br EXCEPT ![b] = "sent"]
  /\ spc' = "exited" /\ result' = "ok"
  /\ UNCHANGED <<todo, conf, invalid, nullConf, failed>>

Next ==
  \/ ReadConfig
  \/ KafkaLoop
  \/ WebhooksLoop
  \/ \E b \in KafkaNames : KafkaStart(b)
  \/ \E b \in WebhookNames : WebhookStart(b)
  \/ \E b \in Names : BridgeStop(b)
  \/ \E b \in KafkaNames : BridgePanic(b)
  \/ \E b \in Names : Receive(b)

Spec == Init /\ [][Next]_vars

(* The Go scheduler runs every runnable goroutine: main's steps and each   *)
(* launched bridge's Start. A serving bridge need not stop or panic.       *)
FairSpec ==
  /\ Spec
  /\ WF_vars(ReadConfig)
  /\ WF_vars(KafkaLoop)
  /\ WF_vars(WebhooksLoop)
  /\ \A b \in KafkaNames : WF_vars(KafkaStart(b))
  /\ \A b \in WebhookNames : WF_vars(WebhookStart(b))
  /\ WF_vars(\E b \in Names : Receive(b))

-----------------------------------------------------------------------------
(* Properties                                                              *)

(* Every variable has its type; the process has exited exactly when it    *)
(* has a result, and a range loop only visits keys of its own map.         *)
TypeOK ==
  /\ spc \in {"read", "kafka", "webhooks", "wait", "exited"}
  /\ br \in [Names -> {"idle", "starting", "serving", "finished", "sent"}]
  /\ result \in {"none", "readError", "printed", "configError", "panic", "ok"}
  /\ (spc = "exited") = (result # "none")
  /\ spc = "kafka" => todo \subseteq KafkaNames
  /\ spc = "webhooks" => todo \subseteq WebhookNames
  /\ invalid \subseteq conf
  /\ nullConf \subseteq conf \cap KafkaNames
  /\ failed \subseteq conf

(* Spec 7: a missing bridge config is a ConfigError surfaced before       *)
(* startup with exit code 1, so the process panics only from a serving     *)
(* Kafka bridge's ProducerErrorLoop, never from startServer's launch loop. *)
ConfigErrorNotPanic ==
  result = "panic" => \E b \in KafkaNames : br[b] = "serving"

(* Spec 4.7: the first bridge goroutine to finish, with an error from     *)
(* Start or not, makes startServer return, whatever the other bridges do.  *)
ReturnsOnFirstFinish ==
  \A b \in Names : br[b] = "finished" ~> spc = "exited"

(* Spec 7: a configuration error is surfaced before startup, so no bridge *)
(* has been launched when startServer returns a ValidateConf error.        *)
ConfigErrorBeforeStartup ==
  result = "configError" => \A b \in Names : br[b] = "idle"

(* While startServer waits on anyRoutineFinished some goroutine is left    *)
(* that can send; otherwise the Go runtime aborts the process with "all    *)
(* goroutines are asleep - deadlock!".                                     *)
WaitHasSender ==
  spc = "wait" => \E b \in Names : br[b] \in {"starting", "serving", "finished"}

(* Spec 7: a ConnectError (broker or RPC unreachable) is surfaced at       *)
(* startup with exit code 1, so startServer never returns nil because a    *)
(* bridge's Start failed.                                                  *)
ConnectErrorSurfaced ==
  result = "ok" => \A b \in Names : br[b] = "sent" => b \notin failed

=============================================================================
