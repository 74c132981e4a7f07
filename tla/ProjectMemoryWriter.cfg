SPECIFICATION MCSpec
CONSTANTS
  a = a
  b = b
  Procs <- TwoProcs
  Topics = {t1}
  NoTopic = NoTopic
  MaxEpisodes = 2
SYMMETRY Interchangeable
INVARIANTS HolderWritesAlone
