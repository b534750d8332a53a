------------------------- MODULE MCAccountSettings -------------------------
EXTENDS AccountSettings
=============================================================================
