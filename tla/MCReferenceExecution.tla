------------------------ MODULE MCReferenceExecution ------------------------
EXTENDS ReferenceExecution, TLC

CONSTANTS o1, o2

SplitOnce == o1 :> 2 @@ o2 :> 1

Processes == Permutations(Workers)
=============================================================================
