---------------------------- MODULE MCParamsStore ----------------------------
EXTENDS ParamsStore
=============================================================================
