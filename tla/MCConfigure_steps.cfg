SPECIFICATION FairSpec
CONSTANTS
  Namespaces = {"ns"}
  Classes = {"pc"}
  Maps = {"cm"}
  Home <- MCHome
  Data = {"old", "new"}
  Deployments = {"d1", "d2"}
  Programs <- MCPrograms
  Faults = 1
  Meddlings = 1
INVARIANTS
  TypeOK
  NilMeansAll
  RestartSeesConfig
PROPERTY
  Returns
