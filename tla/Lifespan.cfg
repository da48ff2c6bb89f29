\* Two lives, two features of the server, one task that may outlive the first.
CONSTANTS
  Feature = {"rate_limit", "session"}
  Probed = {"rate_limit"}
  Instrumented = TRUE
  Request = {"r"}
  MaxLayers = 4
  MaxStates = 2
SPECIFICATION Spec
INVARIANTS UpWhileServing HandlersHaveRedisOnce NothingLeft CapabilityOfServer
