------------------------------ MODULE MCWorkload ------------------------------
EXTENDS Workload
=============================================================================
