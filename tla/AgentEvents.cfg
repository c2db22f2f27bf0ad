\* Emits that share the queue; listeners may await emits.
CONSTANTS
  Types <- MCTypes
  ErrorType = "error"
  Listeners <- MCListeners
  AwaitInside = TRUE
  MaxEmits = 3
  MaxFailures = 2
SPECIFICATION Spec
INVARIANTS TypeOK NobodyForgotten QueueIsDrained TakenOnce
CHECK_DEADLOCK FALSE
