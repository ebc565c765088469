---------------------------- MODULE MCInstances ----------------------------
EXTENDS Instances
=============================================================================
