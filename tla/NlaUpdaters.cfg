SPECIFICATION FairSpec
CONSTANTS
  KeepAlive = KeepAlive
  Probe = Probe
  Updater = Updater
  Refresher = Refresher
  Threads = {KeepAlive, Updater, Refresher}
  Nobody = Nobody
  Sessions <- OneSession
  MaxChanges = 1
PROPERTY UpdatersFollow
