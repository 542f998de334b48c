------------------------------ MODULE MCMiner ------------------------------
EXTENDS Miner

CONSTANTS m1, m2, c1, c2

MCCoordinators == <<c1, c2>>
=============================================================================
