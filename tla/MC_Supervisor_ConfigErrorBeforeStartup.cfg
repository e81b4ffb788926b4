\* A Kafka bridge launched before a later bridge fails ValidateConf.
CONSTANTS
  KafkaNames = {k1, k2}
  WebhookNames = {w1}
  k1 = k1
  k2 = k2
  w1 = w1
SPECIFICATION Spec
INVARIANT ConfigErrorBeforeStartup
\* The process really stops: startServer returns and main exits.
CHECK_DEADLOCK FALSE
