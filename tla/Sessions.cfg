SPECIFICATION SessionsSpec
CONSTANTS
  Browsers = {"b1", "b2"}
  Tokens = {"t1", "t2"}
  Ttl = 2
INVARIANTS CookieMeansSession LogoutIsFinal
