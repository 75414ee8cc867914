------------------------------- MODULE MCChat -------------------------------
EXTENDS Chat, TLC

CONSTANTS alice, bob, s1, s2, dm, talk

MCPin == [r \in {talk} |-> s1]
MCPair == [r \in {dm} |-> {alice, bob}]
Symmetry == Permutations(Users)
=============================================================================
