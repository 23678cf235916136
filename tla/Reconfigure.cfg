SPECIFICATION Spec
CONSTANTS
  IssueBound = 1
INVARIANTS
  ReconfigureRunsWizard
