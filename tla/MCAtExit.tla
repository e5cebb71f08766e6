------------------------------ MODULE MCAtExit ------------------------------
EXTENDS AtExit
CONSTANTS f1, f2, f3
MCFns == {f1, f2, f3}
=============================================================================
