SPECIFICATION Spec
INVARIANTS
  PodCountMetricsAreReal
