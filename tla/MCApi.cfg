\* Three requests share two connections and one row.
SPECIFICATION FairSpec
CONSTANTS
  r1 = r1  r2 = r2  r3 = r3
  None = None
  Requests = {r1, r2, r3}
  Offers <- MCOffers
  PoolSize = 2
  Faults <- MCFaults
INVARIANTS TypeOK RefusalsChangeNothing SuccessesAreDurable ServerErrorsHaveACause OnlyOutagesReopenAKey SlowClientsBlockNobody
PROPERTIES EveryRequestIsAnswered
