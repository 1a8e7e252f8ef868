SPECIFICATION Spec
CONSTANTS
    Sources <- MCBlocks
    Trees <- MCBlockTrees
    Height <- MCBlockHeight
INVARIANT NoFalseAlarm
