------------------------------ MODULE MCJoint ------------------------------
EXTENDS JointControl
CONSTANTS walker
=============================================================================
