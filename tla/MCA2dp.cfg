\* The A2DP endpoint with one codec, two transport paths and up to three
\* calls queued for the endpoint object.
CONSTANTS
  Codecs = {c1}
  Transports = {t1, t2}
  NULL = NULL
  MallocOutcomes = {TRUE}
  BusOutcomes = {TRUE, FALSE}
  MaxQueue = 3
SPECIFICATION Spec
INVARIANT NoUndefinedBehaviour
