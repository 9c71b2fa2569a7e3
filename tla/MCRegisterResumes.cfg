SPECIFICATION RegistrationSpec
CONSTANTS
  Mints = {}
  NoMint = NoMint
  MaxTroubles = 3
  SlowUpstream = FALSE
PROPERTIES
  RegisterResumes
