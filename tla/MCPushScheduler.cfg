SPECIFICATION FairSpec
CONSTANTS
  Threads = {t1, t2}
  MaxEvents = 3
  Settle = 2
INVARIANTS TypeOK RebootBookedFirst NoPhantomReboots
PROPERTIES QuietAfterShutdown SnapshotsSpaced EveryChangeShown
