\* One caller and three workers; batches smaller and larger than
\* the pool, and not a multiple of it.
CONSTANTS
  n_threads = 4
  max_batch_size = 6
  Batches = {2, 6}
  Jobs = {j1, j2}
  NoJob = NoJob
SPECIFICATION FairSpec
INVARIANTS CallerAloneWhenSynced CostOfThisCall
PROPERTIES SliceKeptWhileRunning CallsReturn
