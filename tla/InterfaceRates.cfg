CONSTANTS
  Names = {eth, tun}
  Tunnels = {tun}
  Unknown = unknown
  NoReading = NoReading
  Line = 1
  Timeout = 1
  MaxClock = 3
  MaxResets = 1
  MaxPolls = 3
SPECIFICATION Spec
INVARIANTS RatesAddUp NegativeOnlyAfterReset RateBounded
CHECK_DEADLOCK FALSE
