---- MODULE MCSpiXfer ----
EXTENDS SpiXfer
====
