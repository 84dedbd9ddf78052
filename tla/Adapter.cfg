\* The default of eight polls (payment-gateway.config.ts), none, and a setting
\* that is not a number.
CONSTANTS
  MaxPollAttempts = 8
  Verdicts = {"APPROVED", "DECLINED", "VOIDED", "ERROR", "OTHER"}
  NaN = NaN
  Null = Null
SPECIFICATION FairSpec
INVARIANTS AsksOnce ResultIsHonest AdapterInv
PROPERTIES ExchangesAreBounded ChargeEnds DecidedChargeEnds ImplementsPayer
CHECK_DEADLOCK FALSE
