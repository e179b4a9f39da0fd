---- MODULE MCRtldLock ----
EXTENDS RtldLock
====
