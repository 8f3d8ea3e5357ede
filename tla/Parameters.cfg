CONSTANTS
  Tenants = {"acme"}
  Named = {"acme", "beta"}
  Identities = {ann}
  Home <- MCHome
  Names <- MCNames
  Documents <- MCDocuments
  Operators = {o1, o2}
  MaxBound = 1
  Rules <- MCRules
  Subjects <- MCSubjects
  None = None
  Paths <- MCPaths
  Values <- MCValues
  Secrets <- MCSecrets
  Requests = {r1, r2}
  MaxReferences = 2
  MaxWrites = 4
SPECIFICATION Spec
SYMMETRY Interchangeable
INVARIANTS
  TypeOK
  AnsweredWasAllowed
  ResolvesNearest
  
  BindingsSound
