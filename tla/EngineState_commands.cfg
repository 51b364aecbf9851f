CONSTANTS
  Thread = {t1, t2}
  Interruptible = {t1}
  NoThread = NoThread
  CanRaiseCancelled <- AllCommands
SPECIFICATION FairSpec
INVARIANTS TypeOK CommandStates ObserverAgrees
PROPERTIES RecoveryOnly CommandsEnd
