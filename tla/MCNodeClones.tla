---------------------------- MODULE MCNodeClones ----------------------------
EXTENDS NodeClones
====
