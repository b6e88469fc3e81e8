------------------------- MODULE MC_MachineValidation -------------------------
EXTENDS MachineValidation

MCContexts == {"Discovery", "OnDemand"}
=============================================================================
