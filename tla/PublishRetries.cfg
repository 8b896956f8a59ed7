\* The numbers of workflows.py:10-16, workflows.py:99 and streams.py:18.
SPECIFICATION Spec
CONSTANTS
  StartToClose = 15
  InitialInterval = 1
  Coefficient = 2
  MaximumInterval = 15
  MaxAttempts = 3
  Window = 120
  Span <- MCSpan
PROPERTY WindowCoversRetries
