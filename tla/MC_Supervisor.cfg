\* Up to two Kafka bridges and one webhooks bridge, each valid or not and
\* each Kafka entry possibly null:
\* every config the file can give, every launch order (Go map order is
\* random), every start outcome, and the first-finish return.
CONSTANTS
  KafkaNames = {k1, k2}
  WebhookNames = {w1}
  k1 = k1
  k2 = k2
  w1 = w1
SPECIFICATION FairSpec
INVARIANT TypeOK
PROPERTY ReturnsOnFirstFinish
\* The process really stops: startServer returns and main exits.
CHECK_DEADLOCK FALSE
