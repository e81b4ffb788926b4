\* Bridges whose Start fails to connect.
CONSTANTS
  KafkaNames = {k1, k2}
  WebhookNames = {w1}
  k1 = k1
  k2 = k2
  w1 = w1
SPECIFICATION Spec
INVARIANT ConnectErrorSurfaced
\* The process really stops: startServer returns and main exits.
CHECK_DEADLOCK FALSE
