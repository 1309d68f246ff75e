--------------------------- MODULE MCIterProducts ---------------------------
EXTENDS IterProducts, SequencesExt

CONSTANTS MaxPools, MaxPoolSize

MCPoolSizes == BoundedSeq(0 .. MaxPoolSize, MaxPools)

=============================================================================
