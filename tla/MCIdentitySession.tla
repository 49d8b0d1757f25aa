-------------------------- MODULE MCIdentitySession --------------------------
EXTENDS IdentitySession, TLC
Symmetry == Permutations(Requests) \union Permutations(Sessions)
                \union Permutations(Keys) \union Permutations(Flows)
==============================================================================
