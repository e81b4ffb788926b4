\* A Kafka entry whose value is null in the config file.
CONSTANTS
  KafkaNames = {k1, k2}
  WebhookNames = {w1}
  k1 = k1
  k2 = k2
  w1 = w1
SPECIFICATION Spec
INVARIANT ConfigErrorNotPanic
\* The process really stops: startServer returns and main exits.
CHECK_DEADLOCK FALSE
