CONSTANTS
  Origins = {"origin"}
  MaxStreams = 2
  MaxIdle = 1
  Timed = {"dns", "tls_handshake", "request_body", "response_header",
           "response_body"}
  MaxWrites = 3
  MaxPending = 2
  MaxBody = 2
  MaxInterim = 1
SPECIFICATION Spec
INVARIANTS UploadWhole NoLostDrain SuccessIsWhole QuietWhenComplete
CHECK_DEADLOCK FALSE
PROPERTY RequestCompletes
