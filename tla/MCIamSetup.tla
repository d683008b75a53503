------------------------------ MODULE MCIamSetup ------------------------------
EXTENDS IamSetup
=============================================================================
