------------------------- MODULE ProcessMonitorProps -------------------------
(* What the service and its monitor owe each other.                         *)
EXTENDS ProcessMonitor, FiniteSets

(* Every variable keeps its type; no frame outlives its connection.         *)
TypeOK ==
  /\ server \in {"up", "down"} /\ booting \in BOOLEAN /\ lock \subseteq Monitor \union {"server"}
  /\ mon \in [Monitor -> {"absent", "checked", "bound", "loop", "interrupted", "leaving",
                          "bye", "startup"}]
  /\ conn \in [Sd -> Monitor \union {"none"}] /\ gone \in [Sd -> BOOLEAN]
  /\ \A d \in Sd : in[d] \in Seq({"keepalive", "close"}) /\ (conn[d] = "none" => in[d] = <<>>)
  /\ \A m \in Monitor : out[m] \in Seq({"409", "end"})
  /\ g_processmon_sd \in Sd \union {0} /\ m_connect \subseteq Sd /\ told \subseteq Sd
  /\ pc \in [Sd -> {"idle", "check", "reject", "accept", "erase", "compare", "reset",
                    "close"}]
  /\ crashes \in 0 .. MaxCrash /\ stops \in 0 .. MaxStop

(* The monitors that the service has accepted and that are still there.     *)
Watching == {d \in told : ~gone[d]}

(* "I have another processmon's connection" (ws_routes.cpp:79) is true: the *)
(* remembered descriptor is that of an accepted monitor's connection, never *)
(* the number of a later one (amidtmf2.cpp:157, tst.cpp:911).               *)
RememberedIsOpen == g_processmon_sd # 0 => g_processmon_sd \in told

(* A service that runs and has never ended is not started again: a monitor  *)
(* that was told to stop, or whose keepalive was answered 409, does not     *)
(* take the end of its own connection, which the service closes, for the    *)
(* end of the service (ws_client.c:303-307, 364-373, 450).                  *)
WantedStopStays ==
  [][\A m \in Monitor : mon[m] # "startup" /\ mon'[m] = "startup"
                          => server = "down" \/ crashes > 0]_vars

(* A service that ended is started again (ws_client.c:371, 412, crontab).   *)
ServerRestarts == server = "down" ~> server = "up"

(* A running service gets a monitor: neither port 4061 nor the 409 answer   *)
(* keeps the last one away for ever.                                        *)
ServerIsWatched == server = "up" ~> (server = "down" \/ Watching # {})

(* Of two monitors that the unlocked check has accepted at once one is      *)
(* turned away, unless their keepalives meet in websocket_alive for ever.   *)
Checking == {d \in Sd : pc[d] \in {"check", "accept"}}
OneStays ==
  <>[](Cardinality(Checking) <= 1) => (Cardinality(Watching) > 1 ~> Cardinality(Watching) <= 1)
==============================================================================
