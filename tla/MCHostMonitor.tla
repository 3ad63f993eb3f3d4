--------------------------- MODULE MCHostMonitor ---------------------------
EXTENDS HostMonitor
\* One stream; the constants of MCHostMonitor.cfg.
============================================================================
