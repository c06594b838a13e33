------------------------ MODULE MC_ContainerTeardown ------------------------
EXTENDS ContainerTeardown

CONSTANTS c1, c2, c3

MC_Containers == {c1, c2, c3}
=============================================================================
