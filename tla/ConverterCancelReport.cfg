SPECIFICATION Spec
CONSTANTS
  Limit = 2
  Bodies <- LongBodies
PROPERTIES
  CancellationReported
