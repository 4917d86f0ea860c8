CONSTANTS
  bgp = bgp
  ce1 = ce1
  pe1 = pe1
  Pollers = {bgp}
  Devices <- OnePoller
  SyslogEnabled = {TRUE, FALSE}
  MaxRounds = 2
  MaxSignals = 2
  MaxRuns = 2
SPECIFICATION FairSpec
INVARIANTS
  TypeOK
  HeaderOnce
  PublishedIsWritten
  ListeningRecords
  AllClosedAtEnd
PROPERTIES
  SignalStops
