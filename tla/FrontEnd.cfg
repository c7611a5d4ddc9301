SPECIFICATION MCSpec
CONSTANTS
  Trees <- MCTrees
  Comment <- MCComment
  Sessions <- MCSessions
  MaxBuffer = 12
INVARIANTS ReadAsWritten BakedWithoutPrep RunsAsScript
