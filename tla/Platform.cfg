CONSTANTS
  Pairs = {"mine"}
  Placeholder = "00000000"
  Proxies = {{"url", "username"}}
  Prefixes = {20}
  Lengths = {0, 1, 256, 257, 4075, 4076, 4095, 4096, 9000}
  Scenarios = {{"connect", "tls", "file"},
               {"config", "url"},
               {"status", "url", "tls", "projectId", "token"},
               {"dlog"}}
SPECIFICATION FairSpec
INVARIANTS TypeOK TlsFollowsSetting CredentialsReal ProxyWhole NoLeak OneStatusShown LedTruthful ChunksWhole LossAnnounced
PROPERTIES CallsBounded CallsReturn
