SPECIFICATION Spec
CONSTANTS
  SimpleSpr = {epcr}
  epcr = epcr
  Value <- MCValue
  X = X
  None = None
  Busy = Busy
  Nothing = Nothing
  Issued <- Command
  PatientClient = TRUE
  ResetWhen = "never"
INVARIANTS
  TypeOK
  RequestStable
  AnswerStable
  StallStatusNotStale
PROPERTIES
  ImplementsSprPort
