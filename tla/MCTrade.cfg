SPECIFICATION SagaSpec
CONSTANTS
  anna = anna
  bora = bora
  wood = wood
  ore = ore
  Player = {anna, bora}
  Kind = {wood, ore}
  TradeID <- MCTradeID
  Stock <- MCStock
  Offers <- MCOffers
  Proposed <- MCProposed
  Idle = Idle
  MaxRetries = 2
  MaxAnswers = 1
  MaxTrouble = 1
INVARIANTS AllOrNothing NoOverdraft SettledMeansSwapped ChoreographyAllOrNothing
PROPERTY EventuallyDecided
CHECK_DEADLOCK FALSE
