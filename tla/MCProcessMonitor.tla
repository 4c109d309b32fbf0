--------------------------- MODULE MCProcessMonitor ---------------------------
(* The instance that TLC checks: see monitor.cfg.                            *)
EXTENDS ProcessMonitorProps
==============================================================================
