SPECIFICATION FairSpec
CONSTANTS
  SimpleSpr = {}
  Value <- MCSmallValue
  X = X
  None = None
  Busy = Busy
  Nothing = Nothing
  Issued <- RoughCommands
  PatientClient = FALSE
  ResetWhen = "ack low"
PROPERTY
  HandshakeNeverWedges
