-------------------------------- MODULE MCApi --------------------------------
EXTENDS Api

=============================================================================
