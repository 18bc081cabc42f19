CONSTANTS
  Kinds <- FewKinds
  MaxStages = 2
  Policies <- OnePolicy
  Capacities = {1, 3}
  MaxFailures = 1
SPECIFICATION Spec
INVARIANTS CappedIsTruthful
