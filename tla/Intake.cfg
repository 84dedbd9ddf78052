\* Bodies with up to two deviations from a proper one; every card number of one
\* to four characters (two and three digits are accepted, which has every digit
\* both doubled and not; four are the prefix of a brand); events over two values.
CONSTANTS
  MinDigits = 2
  MaxDigits = 3
  NotADigit = 10
  Texts <- MCTexts
  PathLists <- MCPathLists
  Timestamp <- MCTimestamp
  Secret <- MCSecret
  SomeCard <- MCSomeCard
SPECIFICATION Spec
INVARIANTS IntakeTypeOK AcceptsLuhn CatchesSlips BrandsByRange AdmittedIsStorable ScriptVerifies OneChangeIsNoticed
CHECK_DEADLOCK FALSE
