---------------------------- MODULE ProcessMonitor ----------------------------
(***************************************************************************)
(* The service amidtmf and the program that watches it.  processmon         *)
(* (src/processmon/ws_client.c) connects to the WebSocket route /alive and  *)
(* sends a keepalive every five seconds; when it cannot connect, or the     *)
(* connection ends, it starts the service and exits, and cron starts it     *)
(* again (procmon).  The service (websocket_alive, dtmf2_disconnected,      *)
(* closesocket) keeps the descriptor of one monitor and turns others away.  *)
(***************************************************************************)
EXTENDS Naturals, Sequences

CONSTANTS
  Monitor,   \* starts of processmon, each the process of one shell at a time
  Cron,      \* those that are started by procmon and use port 4061
  Sd,        \* descriptors of the service, without 0
  MaxCrash, MaxStop   \* bounds: ends of the service; monitors stopped or killed

ASSUME MonitorAssumption ==
  /\ Cron \subseteq Monitor /\ {"server", "none"} \cap Monitor = {}
  /\ Sd \subseteq Nat \ {0} /\ {MaxCrash, MaxStop} \subseteq Nat

VARIABLES
  server, booting,   \* "up" or "down"; TRUE: `dtmf start &` is under way
  lock,       \* the processes that have port 4061 open
  mon,        \* where a monitor is
  conn, gone, \* the connections: descriptor -> monitor or "none"; its end has closed
  in, out,    \* frames on their way, to the service and to the monitor
  g_processmon_sd, m_connect, pc,   \* the service's; pc of the thread that has sd
  told,       \* the connections that were answered with 201
  crashes, stops

procs == <<server, booting, crashes, stops>>
net == <<conn, gone, in>>
service == <<g_processmon_sd, m_connect, pc, told>>
vars == <<procs, lock, mon, net, out, service>>

Init ==
  /\ server = "down" /\ booting = FALSE /\ lock = {} /\ crashes = 0 /\ stops = 0
  /\ mon = [m \in Monitor |-> "absent"] /\ out = [m \in Monitor |-> <<>>]
  /\ conn = [d \in Sd |-> "none"] /\ gone = [d \in Sd |-> FALSE] /\ in = [d \in Sd |-> <<>>]
  /\ g_processmon_sd = 0 /\ m_connect = {} /\ told = {} /\ pc = [d \in Sd |-> "idle"]

----------------------------------------------------------------------------
(* procmon start: nothing is started while a processmon runs; two seconds   *)
(* pass between the look and the start.                                     *)
Alive == {m \in Monitor : mon[m] \notin {"absent", "checked"}}
procmon(m) ==
  /\ m \in Cron /\ mon[m] = "absent" /\ Alive = {}
  /\ mon' = [mon EXCEPT ![m] = "checked"]
  /\ UNCHANGED <<procs, lock, net, out, service>>

(* The process ends: the kernel closes what it has open.                    *)
Gone(m) ==
  /\ mon' = [mon EXCEPT ![m] = "absent"] /\ out' = [out EXCEPT ![m] = <<>>]
  /\ gone' = [d \in Sd |-> gone[d] \/ conn[d] = m]
Ends(m) == Gone(m) /\ lock' = lock \ {m} /\ UNCHANGED <<procs, conn, in, service>>

(* main: port 4061 keeps a second monitor from running, unless it is        *)
(* started by hand with another port.                                       *)
Bind(m) ==
  /\ mon[m] = IF m \in Cron THEN "checked" ELSE "absent"
  /\ IF m \in Cron /\ lock # {} THEN Ends(m)
     ELSE /\ lock' = (IF m \in Cron THEN {m} ELSE lock)
          /\ mon' = [mon EXCEPT ![m] = "bound"]
          /\ UNCHANGED <<procs, net, out, service>>

(* startup: the port is closed, so that the service does not inherit it     *)
Startup_Open(m) == mon' = [mon EXCEPT ![m] = "startup"] /\ UNCHANGED lock  \* faulty: it stays open
Startup(m) == mon' = [mon EXCEPT ![m] = "startup"] /\ lock' = lock \ {m}
System(m) ==
  /\ mon[m] = "startup"
  /\ booting' = TRUE
  /\ lock' = (IF m \in lock THEN lock \union {"server"} ELSE lock) \ {m}
  /\ Gone(m)
  /\ UNCHANGED <<server, crashes, stops, conn, in, service>>

Connect_Silent(m) ==   \* faulty: gives up when there is no service
  /\ mon[m] = "bound"
  /\ \/ server = "down" /\ Ends(m)
     \/ /\ server = "up"
        /\ \E d \in Sd :
             /\ conn[d] = "none"
             /\ conn' = [conn EXCEPT ![d] = m] /\ m_connect' = m_connect \union {d}
        /\ mon' = [mon EXCEPT ![m] = "loop"]
        /\ UNCHANGED <<procs, lock, gone, in, out, g_processmon_sd, pc, told>>
Connect(m) ==
  /\ mon[m] = "bound"
  /\ \/ server = "down" /\ Startup(m) /\ UNCHANGED <<procs, net, out, service>>
     \/ /\ server = "up"
        /\ \E d \in Sd :
             /\ conn[d] = "none"
             /\ conn' = [conn EXCEPT ![d] = m] /\ m_connect' = m_connect \union {d}
        /\ mon' = [mon EXCEPT ![m] = "loop"]
        /\ UNCHANGED <<procs, lock, gone, in, out, g_processmon_sd, pc, told>>

(* The loop of run_websocket_client; a frame for a closed connection is lost *)
Put(m, frame) == in' = [d \in Sd |-> IF conn[d] = m /\ ~gone[d] THEN Append(in[d], frame) ELSE in[d]]
Keepalive(m) ==
  /\ mon[m] = "loop"
  /\ \E d \in Sd : conn[d] = m /\ ~gone[d] /\ in[d] = <<>>
  /\ Put(m, "keepalive")
  /\ UNCHANGED <<procs, lock, mon, conn, gone, out, service>>
Interrupt(m) ==
  /\ mon[m] = "loop" /\ stops < MaxStop
  /\ stops' = stops + 1 /\ mon' = [mon EXCEPT ![m] = "interrupted"]
  /\ UNCHANGED <<server, booting, crashes, lock, net, out, service>>
Leave(m) ==
  /\ mon[m] = "interrupted"
  /\ mon' = [mon EXCEPT ![m] = "leaving"]
  /\ UNCHANGED <<procs, lock, net, out, service>>
Bye(m) ==
  /\ mon[m] = "leaving"
  /\ Put(m, "close") /\ mon' = [mon EXCEPT ![m] = "bye"]
  /\ UNCHANGED <<procs, lock, conn, gone, out, service>>
Quit(m) == mon[m] = "bye" /\ Ends(m)

(* The data and close handlers; nStop is set from "leaving" on              *)
nStop_Never(m) == FALSE   \* faulty: the main loop does not set it
nStop(m) == mon[m] \in {"leaving", "bye"}
Receive(m) ==
  /\ mon[m] \in {"loop", "interrupted", "leaving", "bye"} /\ out[m] # <<>>
  /\ IF Head(out[m]) = "409" THEN Ends(m)
     ELSE /\ out' = [out EXCEPT ![m] = Tail(@)]
          /\ IF Head(out[m]) = "end" /\ ~nStop(m) THEN Startup(m) ELSE UNCHANGED <<mon, lock>>
          /\ UNCHANGED <<procs, net, service>>

Kill(m) ==
  /\ m \in Alive /\ stops < MaxStop
  /\ stops' = stops + 1
  /\ Gone(m) /\ lock' = lock \ {m}
  /\ UNCHANGED <<server, booting, crashes, conn, in, service>>

processmon(m) == \/ System(m) \/ Connect(m) \/ Keepalive(m)
                 \/ Leave(m) \/ Bye(m) \/ Quit(m) \/ Receive(m)

----------------------------------------------------------------------------
(* dtmf start: a second service cannot bind port 4060 and ends              *)
Boot ==
  /\ booting /\ booting' = FALSE /\ server' = "up"
  /\ UNCHANGED <<crashes, stops, lock, mon, net, out, service>>

(* The service ends, by a signal or a fault, with all its connections.      *)
Crash ==
  /\ server = "up" /\ crashes < MaxCrash
  /\ crashes' = crashes + 1 /\ server' = "down" /\ lock' = lock \ {"server"}
  /\ out' = [m \in Monitor |-> IF \E d \in Sd : conn[d] = m /\ ~gone[d] THEN Append(out[m], "end") ELSE out[m]]
  /\ conn' = [d \in Sd |-> "none"] /\ gone' = [d \in Sd |-> FALSE] /\ in' = [d \in Sd |-> <<>>]
  /\ g_processmon_sd' = 0 /\ m_connect' = {} /\ told' = {} /\ pc' = [d \in Sd |-> "idle"]
  /\ UNCHANGED <<booting, stops, mon>>

----------------------------------------------------------------------------
(* The service; a connection has one thread at a time.                      *)
Goto(d, label) == pc' = [pc EXCEPT ![d] = label]
Answer(d, text) ==
  out' = IF gone[d] THEN out ELSE [out EXCEPT ![conn[d]] = Append(@, text)]

(* http_disconnected by tst_main, or a frame for websocket_alive            *)
Take(d) ==
  /\ d \in m_connect /\ pc[d] = "idle"
  /\ \/ gone[d] /\ Goto(d, "erase") /\ UNCHANGED in
     \/ /\ in[d] # <<>>
        /\ in' = [in EXCEPT ![d] = Tail(@)]
        /\ Goto(d, IF Head(in[d]) = "close" THEN "erase" ELSE "check")
  /\ UNCHANGED <<procs, lock, mon, conn, gone, out, g_processmon_sd, m_connect, told>>

(* Another monitor's descriptor, still in the table?  g_processmon_sd is    *)
(* read up to three times; what comes of it is what the last read sees.     *)
(* The answer 201 is only counted by the monitor and is not kept in out.    *)
Check_Not(d) ==   \* faulty: no check
  /\ pc[d] = "check" /\ Goto(d, "accept")
  /\ UNCHANGED <<procs, lock, mon, net, out, g_processmon_sd, m_connect, told>>
Check(d) ==
  /\ pc[d] = "check"
  /\ Goto(d, IF g_processmon_sd \in m_connect \ {d} THEN "reject" ELSE "accept")
  /\ UNCHANGED <<procs, lock, mon, net, out, g_processmon_sd, m_connect, told>>
Reject(d) ==
  /\ pc[d] = "reject"
  /\ Answer(d, "409") /\ Goto(d, "erase")
  /\ UNCHANGED <<procs, lock, mon, net, g_processmon_sd, m_connect, told>>
Accept(d) ==
  /\ pc[d] = "accept"
  /\ told' = told \union {d} /\ g_processmon_sd' = d /\ Goto(d, "idle")
  /\ UNCHANGED <<procs, lock, mon, net, out, m_connect>>

(* closesocket: out of the table, dtmf2_disconnected, close                 *)
Erase(d) ==
  /\ pc[d] = "erase"
  /\ m_connect' = m_connect \ {d} /\ Goto(d, "compare")
  /\ UNCHANGED <<procs, lock, mon, net, out, g_processmon_sd, told>>
Compare_Never(d) ==    \* faulty: the descriptor is not forgotten
  /\ pc[d] = "compare" /\ Goto(d, "close")
  /\ UNCHANGED <<procs, lock, mon, net, out, g_processmon_sd, m_connect, told>>
Compare(d) ==
  /\ pc[d] = "compare"
  /\ Goto(d, IF g_processmon_sd = d THEN "reset" ELSE "close")
  /\ UNCHANGED <<procs, lock, mon, net, out, g_processmon_sd, m_connect, told>>
Reset(d) ==
  /\ pc[d] = "reset"
  /\ g_processmon_sd' = 0 /\ Goto(d, "close")
  /\ UNCHANGED <<procs, lock, mon, net, out, m_connect, told>>
Close_Kept(d) ==    \* faulty: the frames of the last connection stay
  /\ pc[d] = "close"
  /\ Answer(d, "end") /\ Goto(d, "idle") /\ told' = told \ {d}
  /\ conn' = [conn EXCEPT ![d] = "none"] /\ gone' = [gone EXCEPT ![d] = FALSE]
  /\ UNCHANGED <<procs, lock, mon, in, g_processmon_sd, m_connect>>
Close(d) ==
  /\ pc[d] = "close"
  /\ Answer(d, "end") /\ Goto(d, "idle") /\ told' = told \ {d}
  /\ conn' = [conn EXCEPT ![d] = "none"] /\ gone' = [gone EXCEPT ![d] = FALSE]
  /\ in' = [in EXCEPT ![d] = <<>>]
  /\ UNCHANGED <<procs, lock, mon, g_processmon_sd, m_connect>>

websocket_alive(d) == Check(d) \/ Reject(d) \/ Accept(d)
closesocket(d) == Erase(d) \/ Compare(d) \/ Reset(d) \/ Close(d)
Serve(d) == Take(d) \/ websocket_alive(d) \/ closesocket(d)

Next ==
  \/ \E m \in Monitor : procmon(m) \/ Bind(m) \/ processmon(m) \/ Interrupt(m) \/ Kill(m)
  \/ \E d \in Sd : Serve(d)
  \/ Boot \/ Crash

Spec == Init /\ [][Next]_vars

(* Cron runs each minute, what has begun goes on; nobody has to start,      *)
(* stop or kill anything by hand.                                           *)
FairSpec ==
  /\ Spec
  /\ \A m \in Cron : WF_vars(procmon(m)) /\ WF_vars(Bind(m))
  /\ \A m \in Monitor : WF_vars(processmon(m)) /\ WF_vars(Receive(m))
  /\ \A d \in Sd : WF_vars(Serve(d))
  /\ WF_vars(Boot)
==============================================================================
