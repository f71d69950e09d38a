SPECIFICATION Spec
CONSTANTS
  Landings = {l1, l2}
  Secrets = {s1, s2}
  Domains = {d1}
  Inputs <- OneOrTwoFields
  Handlers = {h1, h2}
  None = None
  BatchLimit = 1
SYMMETRY Symmetry
INVARIANT CredentialsStayReadable
PROPERTIES MigrationKeepsSecrets LockedNeverExpands
