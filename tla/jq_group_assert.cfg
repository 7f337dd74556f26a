SPECIFICATION Spec
CONSTANTS
  MaxThreads = 2
  NumQueues = 2
  Job = {j1, j2}
  NoJob = NoJob
PROPERTY QueueEmptyAtLoopEnd
