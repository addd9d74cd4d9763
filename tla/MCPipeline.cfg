CONSTANTS
  Producer = producer
  Forwarder = forwarder
  Consumer = consumer
  Source = source
  Destination = destination
  Task <- Tasks
  Chan <- Chans
  Timer = {}
  Kinds <- AllKinds
  Requests = {}
  MaxCalls = 0
  Programs <- AllPrograms
  Parallelism = 2
  Fan = 2
  Yields = {0, 2}
  MaxInputs = 3
  MaxCancels = 2
  NotYet = NotYet
SPECIFICATION FairPipeSpec
INVARIANTS PipeTypeOK NothingForgotten DrainedBeforeEnd
PROPERTIES InOrder Finishes
CHECK_DEADLOCK FALSE
