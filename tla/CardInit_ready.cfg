SPECIFICATION Spec
CONSTANTS
  Cards = {"v1", "v2", "hc"}
  V2Cards = {"v2", "hc"}
  HcCards = {"hc"}
  MAX_ERRORS = 2
  MAX_RETRIES = 3
INVARIANT InitializedMeansReady
