------------------------------ MODULE MCFShark ------------------------------
EXTENDS FShark
=============================================================================
