CONSTANTS
  Requests = {r1, r2}
  Replayable = {r1}
  Origins = {"plain", "secure"}
  Secure = {"secure"}
  Proxy = "none"
  Timed = {"dns", "tls_handshake", "request_body", "response_header",
           "response_body"}
  MaxStreams = 2
  MaxIdle = 1
  FollowRedirects = TRUE
  MaxRedirects = 1
  Framings = {"none", "length", "chunked", "eof", "bad"}
  Locations = {"plain", "bad"}
  MaxInterim = 1
SPECIFICATION Spec
INVARIANT PoolQuiet
CHECK_DEADLOCK FALSE
