SPECIFICATION MCSpec
CONSTANT None = None
PROPERTIES ManagerSettles LedgerDrains EveryoneReturns
CHECK_DEADLOCK FALSE
