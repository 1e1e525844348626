----------------------------- MODULE MCAtomicsWait ----------------------------
EXTENDS AtomicsWait, TLC
AgentSymmetry == Permutations(Agents) \cup Permutations(AsyncNodes)
=============================================================================
