------------------------------ MODULE MCMetadata ------------------------------
EXTENDS Metadata, TLC

Symmetry == Permutations(Keys) \cup Permutations(Producers) \cup Permutations(Permits)
==============================================================================
