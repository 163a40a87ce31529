---------------------------- MODULE MCRtrClient ----------------------------
EXTENDS RtrClient

CONSTANTS a, b
===========================================================================
