------------------------------ MODULE MCTTree ------------------------------
EXTENDS TTree
=============================================================================
