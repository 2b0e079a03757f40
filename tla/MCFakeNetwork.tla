---------------------------- MODULE MCFakeNetwork ----------------------------
EXTENDS FakeNetwork, TLC

Symmetry == Permutations(Ips)
=============================================================================
