CONSTANTS
  Pairs = {"mine"}
  Placeholder = "00000000"
  Proxies = {{}}
  Prefixes = {20}
  Lengths = {4075, 4076, 4095}
  Scenarios = {{"dlog"}}
SPECIFICATION Spec
INVARIANTS NoticeTrue
