SPECIFICATION Spec
CONSTANTS
  main = main
  other = other
  Target = {main, other}
  Main = main
  Asked = {4}
  Runners = 2
  Batches = 2
INVARIANTS WakesWatched WakesKept BeatGoesOn OneBatch
