-------------------------------- MODULE MCLife --------------------------------
\* Model-checking instance of SandboxLife.
EXTENDS MCSandboxSystem, SandboxLife
==============================================================================
