---------------------------- MODULE MCExperiment ----------------------------
EXTENDS Experiment
\* Every kind alone or first, and a second experiment after it.
MCPlans == {<<"process">>, <<"disk", "process">>, <<"unit", "disk">>, <<"silent", "unit">>}
=============================================================================
