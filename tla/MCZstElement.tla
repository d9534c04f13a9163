---------------------------- MODULE MCZstElement ----------------------------
EXTENDS ZstElement
=============================================================================
