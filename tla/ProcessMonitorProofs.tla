------------------------ MODULE ProcessMonitorProofs ------------------------
(* The remembered monitor, for any monitors and any descriptors.            *)
EXTENDS ProcessMonitorProps, TLAPS

(* RememberedIsOpen is not inductive: Close takes a descriptor out of told  *)
(* and must find it forgotten.  What protects it is the order in            *)
(* closesocket: between dtmf2_disconnected and close nobody can remember    *)
(* the descriptor, because its one thread is in closesocket.                *)
Forgotten == \A d \in Sd : pc[d] = "close" => g_processmon_sd # d
Label == {"idle", "check", "reject", "accept", "erase", "compare", "reset", "close"}
MonitorInv == pc \in [Sd -> Label] /\ RememberedIsOpen /\ Forgotten

(* Initially no monitor is remembered (ws_routes.cpp:7).                     *)
LEMMA InitMonitor == Init => MonitorInv
  BY DEF Init, MonitorInv, RememberedIsOpen, Forgotten, Label

(* A step that leaves the service's variables alone keeps the invariant.    *)
LEMMA KeepMonitor == MonitorInv /\ UNCHANGED <<g_processmon_sd, pc, told>> => MonitorInv'
  BY DEF MonitorInv, RememberedIsOpen, Forgotten

(* The monitors, cron and signals change nothing in the service.            *)
LEMMA ClientsKeep ==
  ASSUME NEW m \in Monitor, MonitorInv,
         procmon(m) \/ Bind(m) \/ processmon(m) \/ Interrupt(m) \/ Kill(m)
  PROVE  MonitorInv'
<1>1. UNCHANGED <<g_processmon_sd, pc, told>>
  <2>1. CASE procmon(m) BY <2>1 DEF procmon, service
  <2>2. CASE Bind(m) BY <2>2 DEF Bind, Ends, service
  <2>3. CASE System(m) BY <2>3 DEF System, service
  <2>4. CASE Connect(m) BY <2>4 DEF Connect, service
  <2>5. CASE Keepalive(m) BY <2>5 DEF Keepalive, service
  <2>6. CASE Leave(m) BY <2>6 DEF Leave, service
  <2>7. CASE Bye(m) BY <2>7 DEF Bye, service
  <2>8. CASE Quit(m) BY <2>8 DEF Quit, Ends, service
  <2>9. CASE Receive(m) BY <2>9 DEF Receive, Ends, service
  <2>10. CASE Interrupt(m) BY <2>10 DEF Interrupt, service
  <2>11. CASE Kill(m) BY <2>11 DEF Kill, service
  <2> QED BY <2>1, <2>2, <2>3, <2>4, <2>5, <2>6, <2>7, <2>8, <2>9, <2>10, <2>11 DEF processmon
<1> QED BY <1>1, KeepMonitor

(* One step of the thread that has connection d: websocket_alive remembers  *)
(* d together with its answer, closesocket forgets it before it closes it.  *)
LEMMA ServeKeeps ==
  ASSUME NEW d \in Sd, MonitorInv, Serve(d)
  PROVE  MonitorInv'
<1> USE DEF MonitorInv, RememberedIsOpen, Forgotten, Goto, Label
<1>1. CASE Take(d) BY <1>1 DEF Take
<1>2. CASE Check(d) BY <1>2 DEF Check
<1>3. CASE Reject(d) BY <1>3 DEF Reject
<1>4. CASE Accept(d) BY <1>4 DEF Accept
<1>5. CASE Erase(d) BY <1>5 DEF Erase
<1>6. CASE Compare(d) BY <1>6 DEF Compare
<1>7. CASE Reset(d) BY <1>7, MonitorAssumption DEF Reset
<1>8. CASE Close(d)
  <2>1. g_processmon_sd # d BY <1>8 DEF Close
  <2>2. g_processmon_sd' = g_processmon_sd /\ told' = told \ {d} BY <1>8 DEF Close
  <2>3. pc' = [pc EXCEPT ![d] = "idle"] BY <1>8 DEF Close
  <2> QED BY <2>1, <2>2, <2>3
<1> QED BY <1>1, <1>2, <1>3, <1>4, <1>5, <1>6, <1>7, <1>8 DEF Serve, websocket_alive, closesocket

(* Every step of the system keeps the invariant.                            *)
LEMMA NextMonitor == MonitorInv /\ [Next]_vars => MonitorInv'
<1> SUFFICES ASSUME MonitorInv, [Next]_vars PROVE MonitorInv'
  OBVIOUS
<1>1. ASSUME NEW m \in Monitor, procmon(m) \/ Bind(m) \/ processmon(m) \/ Interrupt(m) \/ Kill(m)
      PROVE  MonitorInv'
  BY <1>1, ClientsKeep
<1>2. ASSUME NEW d \in Sd, Serve(d) PROVE MonitorInv'
  BY <1>2, ServeKeeps
<1>3. CASE Boot BY <1>3, KeepMonitor DEF Boot, service
<1>4. CASE Crash BY <1>4 DEF Crash, MonitorInv, RememberedIsOpen, Forgotten, Label
<1>5. CASE UNCHANGED vars BY <1>5, KeepMonitor DEF vars, service
<1> QED BY <1>1, <1>2, <1>3, <1>4, <1>5 DEF Next

(* The descriptor that the service remembers is always that of a monitor it *)
(* has accepted and whose connection it has not closed: another monitor is  *)
(* answered 409 only because of a monitor that was there                    *)
(* (ws_routes.cpp:75-85, amidtmf2.cpp:157-161, tst.cpp:899-952).            *)
THEOREM RememberedSafe == Spec => []RememberedIsOpen
<1>1. MonitorInv => RememberedIsOpen BY DEF MonitorInv
<1> QED BY <1>1, InitMonitor, NextMonitor, PTL DEF Spec

----------------------------------------------------------------------------
(* Types.  TypeOK is not inductive as it stands: it does not say that in    *)
(* and out have a queue for each descriptor and monitor and no other.       *)
Frames == Seq({"keepalive", "close"})
Answers == Seq({"409", "end"})
Place == {"absent", "checked", "bound", "loop", "interrupted", "leaving", "bye", "startup"}
TypeInv == TypeOK /\ in \in [Sd -> Frames] /\ out \in [Monitor -> Answers]

(* A frame is put only on a connection that a monitor has open.             *)
LEMMA PutType ==
  ASSUME NEW m \in Monitor, NEW frame \in {"keepalive", "close"}, TypeInv, Put(m, frame), conn' = conn
  PROVE  /\ in' \in [Sd -> Frames]
         /\ \A d \in Sd : conn'[d] = "none" => in'[d] = <<>>
<1>1. \A d \in Sd : in[d] \in Frames /\ Append(in[d], frame) \in Frames
  BY DEF TypeInv, Frames
<1>2. in' \in [Sd -> Frames] BY <1>1 DEF Put
<1>3. m # "none" BY MonitorAssumption
<1>4. \A d \in Sd : conn[d] = "none" => in'[d] = in[d] BY <1>3 DEF Put
<1>5. \A d \in Sd : conn[d] = "none" => in[d] = <<>> BY DEF TypeInv, TypeOK
<1> QED BY <1>2, <1>4, <1>5

(* An answer goes to the monitor of the connection, if it is there.         *)
LEMMA AnswerType ==
  ASSUME NEW d \in Sd, NEW text \in {"409", "end"}, TypeInv, Answer(d, text)
  PROVE  out' \in [Monitor -> Answers]
<1>1. \A m \in Monitor : out[m] \in Answers /\ Append(out[m], text) \in Answers
  BY DEF TypeInv, Answers
<1>2. out \in [Monitor -> Answers] BY DEF TypeInv
<1> QED BY <1>1, <1>2 DEF Answer

LEMMA GoneType ==
  ASSUME NEW m \in Monitor, TypeInv, Gone(m)
  PROVE  /\ mon' \in [Monitor -> Place] /\ gone' \in [Sd -> BOOLEAN]
         /\ out' \in [Monitor -> Answers]
<1>1. mon' \in [Monitor -> Place] BY DEF Gone, TypeInv, TypeOK, Place
<1>2. gone' \in [Sd -> BOOLEAN] BY DEF Gone, TypeInv, TypeOK
<1>3. <<>> \in Answers BY DEF Answers
<1>4. out' \in [Monitor -> Answers] BY <1>3 DEF Gone, TypeInv
<1> QED BY <1>1, <1>2, <1>4

LEMMA EndsType == ASSUME NEW m \in Monitor, TypeInv, Ends(m) PROVE TypeInv'
<1>1. Gone(m) BY DEF Ends
<1>2. /\ mon' \in [Monitor -> Place] /\ gone' \in [Sd -> BOOLEAN]
      /\ out' \in [Monitor -> Answers]
  BY <1>1, GoneType
<1>3. lock' \subseteq Monitor \union {"server"} BY DEF Ends, TypeInv, TypeOK
<1>4. UNCHANGED <<procs, conn, in, service>> BY DEF Ends
<1> QED BY <1>2, <1>3, <1>4 DEF TypeInv, TypeOK, procs, service, Place, Answers

LEMMA InitType == Init => TypeInv
<1>1. <<>> \in Frames /\ <<>> \in Answers BY DEF Frames, Answers
<1> SUFFICES ASSUME Init PROVE TypeInv OBVIOUS
<1>2. in \in [Sd -> Frames] /\ out \in [Monitor -> Answers] BY <1>1 DEF Init
<1>3. crashes \in 0 .. MaxCrash /\ stops \in 0 .. MaxStop BY MonitorAssumption DEF Init
<1>4. \A d \in Sd : in[d] \in Frames /\ (conn[d] = "none" => in[d] = <<>>)
  BY <1>1 DEF Init
<1>5. \A m \in Monitor : out[m] \in Answers BY <1>2
<1>6. /\ mon \in [Monitor -> Place]
      /\ conn \in [Sd -> Monitor \union {"none"}] /\ gone \in [Sd -> BOOLEAN]
  BY DEF Init, Place
<1>7. pc \in [Sd -> Label] BY DEF Init, Label
<1>8. /\ server \in {"up", "down"} /\ booting \in BOOLEAN /\ lock = {}
      /\ g_processmon_sd = 0 /\ m_connect = {} /\ told = {}
  BY DEF Init
<1> QED BY <1>2, <1>3, <1>4, <1>5, <1>6, <1>7, <1>8 DEF TypeInv, TypeOK, Frames, Answers, Place, Label

LEMMA ClientsType ==
  ASSUME NEW m \in Monitor, TypeInv,
         procmon(m) \/ Bind(m) \/ processmon(m) \/ Interrupt(m) \/ Kill(m)
  PROVE  TypeInv'
<1> USE DEF procs, net, service
<1>1. CASE procmon(m) BY <1>1 DEF procmon, TypeInv, TypeOK
<1>2. CASE Bind(m)
  <2>1. CASE m \in Cron /\ lock # {} BY <1>2, <2>1, EndsType DEF Bind
  <2>2. CASE ~(m \in Cron /\ lock # {})
    <3>1. mon' \in [Monitor -> Place] BY <1>2, <2>2 DEF Bind, TypeInv, TypeOK, Place
    <3>2. lock' \subseteq Monitor \union {"server"} BY <1>2, <2>2 DEF Bind, TypeInv, TypeOK
    <3> QED BY <1>2, <2>2, <3>1, <3>2 DEF Bind, TypeInv, TypeOK, Place
  <2> QED BY <2>1, <2>2
<1>3. CASE System(m)
  <2>1. Gone(m) BY <1>3 DEF System
  <2>2. /\ mon' \in [Monitor -> Place] /\ gone' \in [Sd -> BOOLEAN]
        /\ out' \in [Monitor -> Answers]
    BY <2>1, GoneType
  <2>3. lock' \subseteq Monitor \union {"server"} BY <1>3 DEF System, TypeInv, TypeOK
  <2>4. booting' = TRUE /\ UNCHANGED <<server, crashes, stops, conn, in, service>>
    BY <1>3 DEF System
  <2> QED BY <2>2, <2>3, <2>4 DEF TypeInv, TypeOK, Place, Answers
<1>4. CASE Connect(m)
  <2>1. CASE server = "down" BY <1>4, <2>1 DEF Connect, Startup, TypeInv, TypeOK
  <2>2. CASE server = "up"
    <3>1. PICK d \in Sd : /\ conn[d] = "none" /\ conn' = [conn EXCEPT ![d] = m]
                          /\ m_connect' = m_connect \union {d}
      BY <1>4, <2>2 DEF Connect
    <3>2. mon' = [mon EXCEPT ![m] = "loop"] BY <1>4, <2>2 DEF Connect
    <3>3. mon' \in [Monitor -> Place] BY <3>2 DEF TypeInv, TypeOK, Place
    <3>4. conn' \in [Sd -> Monitor \union {"none"}] /\ m_connect' \subseteq Sd
      BY <3>1 DEF TypeInv, TypeOK
    <3>5. \A e \in Sd : conn'[e] = "none" => conn[e] = "none"
      BY <3>1 DEF TypeInv, TypeOK
    <3>6. UNCHANGED <<procs, lock, gone, in, out, g_processmon_sd, pc, told>>
      BY <1>4, <2>2 DEF Connect
    <3> QED BY <3>3, <3>4, <3>5, <3>6 DEF TypeInv, TypeOK, Place
  <2> QED BY <1>4, <2>1, <2>2 DEF Connect
<1>5. CASE Keepalive(m)
  <2>1. Put(m, "keepalive") /\ conn' = conn BY <1>5 DEF Keepalive
  <2> QED BY <1>5, <2>1, PutType DEF Keepalive, TypeInv, TypeOK, Frames
<1>6. CASE Leave(m) BY <1>6 DEF Leave, TypeInv, TypeOK
<1>7. CASE Bye(m)
  <2>1. Put(m, "close") /\ conn' = conn BY <1>7 DEF Bye
  <2> QED BY <1>7, <2>1, PutType DEF Bye, TypeInv, TypeOK, Frames
<1>8. CASE Quit(m) BY <1>8, EndsType DEF Quit
<1>9. CASE Receive(m)
  <2>1. CASE Head(out[m]) = "409" BY <1>9, <2>1, EndsType DEF Receive
  <2>2. CASE Head(out[m]) # "409"
    <3>1. Tail(out[m]) \in Answers BY <1>9 DEF Receive, TypeInv, Answers
    <3>2. out' \in [Monitor -> Answers] BY <1>9, <2>2, <3>1 DEF Receive, TypeInv
    <3> QED BY <1>9, <2>2, <3>2 DEF Receive, Startup, TypeInv, TypeOK, Answers
  <2> QED BY <2>1, <2>2
<1>10. CASE Interrupt(m) BY <1>10, MonitorAssumption DEF Interrupt, TypeInv, TypeOK
<1>11. CASE Kill(m)
  <2>1. Gone(m) BY <1>11 DEF Kill
  <2>2. stops' \in 0 .. MaxStop BY <1>11, MonitorAssumption DEF Kill, TypeInv, TypeOK
  <2>3. /\ mon' \in [Monitor -> Place] /\ gone' \in [Sd -> BOOLEAN]
        /\ out' \in [Monitor -> Answers]
    BY <2>1, GoneType
  <2>4. lock' \subseteq Monitor \union {"server"} BY <1>11 DEF Kill, TypeInv, TypeOK
  <2>5. UNCHANGED <<server, booting, crashes, conn, in, service>> BY <1>11 DEF Kill
  <2> QED BY <2>2, <2>3, <2>4, <2>5 DEF TypeInv, TypeOK, Place, Answers
<1> QED BY <1>1, <1>2, <1>3, <1>4, <1>5, <1>6, <1>7, <1>8, <1>9, <1>10, <1>11 DEF processmon

LEMMA ServeType == ASSUME NEW d \in Sd, TypeInv, Serve(d) PROVE TypeInv'
<1> USE DEF procs, net, Goto
<1>1. CASE Take(d)
  <2>1. CASE gone[d] /\ Goto(d, "erase") /\ UNCHANGED in
    BY <1>1, <2>1 DEF Take, TypeInv, TypeOK
  <2>2. CASE /\ in[d] # <<>> /\ in' = [in EXCEPT ![d] = Tail(@)]
             /\ Goto(d, IF Head(in[d]) = "close" THEN "erase" ELSE "check")
    <3>1. Tail(in[d]) \in Frames BY <2>2 DEF TypeInv, Frames
    <3>2. in' \in [Sd -> Frames] BY <2>2, <3>1 DEF TypeInv
    <3>3. conn[d] # "none" BY <2>2 DEF TypeInv, TypeOK
    <3>4. \A e \in Sd : conn[e] = "none" => in'[e] = <<>>
      BY <2>2, <3>3 DEF TypeInv, TypeOK
    <3> QED BY <1>1, <2>2, <3>2, <3>4 DEF Take, TypeInv, TypeOK, Frames
  <2> QED BY <1>1, <2>1, <2>2 DEF Take
<1>2. CASE Check(d) BY <1>2 DEF Check, TypeInv, TypeOK
<1>3. CASE Reject(d)
  <2>1. out' \in [Monitor -> Answers] BY <1>3, AnswerType DEF Reject
  <2> QED BY <1>3, <2>1 DEF Reject, TypeInv, TypeOK, Answers
<1>4. CASE Accept(d) BY <1>4 DEF Accept, TypeInv, TypeOK
<1>5. CASE Erase(d) BY <1>5 DEF Erase, TypeInv, TypeOK
<1>6. CASE Compare(d) BY <1>6 DEF Compare, TypeInv, TypeOK
<1>7. CASE Reset(d) BY <1>7 DEF Reset, TypeInv, TypeOK
<1>8. CASE Close(d)
  <2>1. out' \in [Monitor -> Answers] BY <1>8, AnswerType DEF Close
  <2>2. <<>> \in Frames BY DEF Frames
  <2>3. in' \in [Sd -> Frames] BY <1>8, <2>2 DEF Close, TypeInv
  <2>4. \A e \in Sd : conn'[e] = "none" => in'[e] = <<>> BY <1>8 DEF Close, TypeInv, TypeOK
  <2> QED BY <1>8, <2>1, <2>3, <2>4 DEF Close, TypeInv, TypeOK, Answers, Frames
<1> QED BY <1>1, <1>2, <1>3, <1>4, <1>5, <1>6, <1>7, <1>8 DEF Serve, websocket_alive, closesocket

LEMMA CrashType == TypeInv /\ Crash => TypeInv'
<1> SUFFICES ASSUME TypeInv, Crash PROVE TypeInv'
  OBVIOUS
<1>1. \A m \in Monitor : out[m] \in Answers /\ Append(out[m], "end") \in Answers
  BY DEF TypeInv, Answers
<1>2. out' \in [Monitor -> Answers] BY <1>1 DEF Crash
<1>3. <<>> \in Frames BY DEF Frames
<1>4. in' \in [Sd -> Frames] /\ \A d \in Sd : in'[d] = <<>> BY <1>3 DEF Crash
<1>5. crashes' \in 0 .. MaxCrash BY MonitorAssumption DEF Crash, TypeInv, TypeOK
<1> QED BY <1>2, <1>4, <1>5 DEF Crash, TypeInv, TypeOK, Answers, Frames

LEMMA NextType == TypeInv /\ [Next]_vars => TypeInv'
<1> SUFFICES ASSUME TypeInv, [Next]_vars PROVE TypeInv'
  OBVIOUS
<1>1. ASSUME NEW m \in Monitor, procmon(m) \/ Bind(m) \/ processmon(m) \/ Interrupt(m) \/ Kill(m)
      PROVE  TypeInv'
  BY <1>1, ClientsType
<1>2. ASSUME NEW d \in Sd, Serve(d) PROVE TypeInv'
  BY <1>2, ServeType
<1>3. CASE Boot BY <1>3 DEF Boot, TypeInv, TypeOK, net, service
<1>4. CASE Crash BY <1>4, CrashType
<1>5. CASE UNCHANGED vars BY <1>5 DEF vars, procs, net, service, TypeInv, TypeOK
<1> QED BY <1>1, <1>2, <1>3, <1>4, <1>5 DEF Next

(* Every variable keeps its type, and no frame of a connection that was     *)
(* closed is there when its descriptor is a new monitor's: a frame is put   *)
(* only on an open connection, and close drops what was not read            *)
(* (ws_client.c:423-455, tst.cpp:914-943).                                  *)
THEOREM MonitorTypeCorrect == Spec => []TypeOK
<1>1. TypeInv => TypeOK BY DEF TypeInv
<1> QED BY <1>1, InitType, NextType, PTL DEF Spec
----------------------------------------------------------------------------
(* A wanted stop.  While the service has never ended, the first frame on    *)
(* its way to a monitor is a 409 unless that monitor has set nStop: what    *)
(* the service closes is a connection whose monitor is gone, has been       *)
(* answered 409, or has said goodbye with nStop set.                        *)
Busy == {"erase", "compare", "reset", "close"}
Warned(m) == nStop(m) \/ out[m] # <<>>
Told409(m) == out[m] # <<>> => Head(out[m]) = "409" \/ nStop(m)
Goodbye(d) == (\E i \in DOMAIN in[d] : in[d][i] = "close") => nStop(conn[d])
Served(d) ==
  /\ d \in m_connect => conn[d] # "none" /\ pc[d] \notin Busy \ {"erase"}
  /\ pc[d] # "idle" => conn[d] # "none"
  /\ conn[d] # "none" /\ ~gone[d] => Goodbye(d) /\ (pc[d] \in Busy => Warned(conn[d]))
NoEndYet == (\A m \in Monitor : Told409(m)) /\ (\A d \in Sd : Served(d))
StopInv == crashes = 0 => NoEndYet

(* A connection keeps what is known of it while its monitor's flag and      *)
(* frames stay, or the monitor's end closes it.                             *)
LEMMA KeepServed ==
  ASSUME NEW d \in Sd, Served(d), UNCHANGED <<m_connect, conn, pc>>, in'[d] = in[d],
         gone[d] => gone'[d],
         ~gone'[d] /\ conn[d] # "none" => /\ nStop(conn[d]) => nStop(conn[d])'
                                          /\ Warned(conn[d]) => Warned(conn[d])'
  PROVE  Served(d)'
BY DEF Served, Goodbye

(* The end of a process: nothing is on its way to it any more.              *)
LEMMA GoneStop ==
  ASSUME NEW m \in Monitor, TypeInv, NoEndYet, Gone(m), UNCHANGED <<m_connect, conn, pc, in>>
  PROVE  NoEndYet'
<1>1. /\ mon' = [mon EXCEPT ![m] = "absent"] /\ out' = [out EXCEPT ![m] = <<>>]
      /\ mon \in [Monitor -> Place] /\ out \in [Monitor -> Answers]
      /\ conn \in [Sd -> Monitor \union {"none"}]
      /\ gone' = [d \in Sd |-> gone[d] \/ conn[d] = m]
  BY DEF Gone, TypeInv, TypeOK, Place
<1>2. \A n \in Monitor : n # m => mon'[n] = mon[n] /\ out'[n] = out[n]
  BY <1>1
<1>3. \A n \in Monitor : Told409(n)'
  <2> SUFFICES ASSUME NEW n \in Monitor PROVE Told409(n)'
    OBVIOUS
  <2>1. CASE n = m BY <1>1, <2>1 DEF Told409
  <2>2. CASE n # m BY <1>2, <2>2 DEF Told409, NoEndYet, nStop
  <2> QED BY <2>1, <2>2
<1>4. \A d \in Sd : Served(d)'
  <2> SUFFICES ASSUME NEW d \in Sd PROVE Served(d)'
    OBVIOUS
  <2>1. Served(d) /\ (gone[d] => gone'[d]) /\ (~gone'[d] => conn[d] # m)
    BY <1>1 DEF NoEndYet
  <2>2. ~gone'[d] /\ conn[d] # "none" => /\ nStop(conn[d]) => nStop(conn[d])'
                                         /\ Warned(conn[d]) => Warned(conn[d])'
    BY <1>1, <1>2, <2>1 DEF nStop, Warned
  <2> QED BY <2>1, <2>2, KeepServed
<1> QED BY <1>3, <1>4 DEF NoEndYet

(* A step that only sets where a monitor is, and never resets its nStop.    *)
LEMMA MoveStop ==
  ASSUME NoEndYet, UNCHANGED <<m_connect, conn, pc, in, gone, out>>,
         \A n \in Monitor : nStop(n) => nStop(n)', TypeInv
  PROVE  NoEndYet'
<1>1. \A n \in Monitor : Told409(n)'
  BY DEF NoEndYet, Told409
<1>2. \A d \in Sd : Served(d)'
  <2> SUFFICES ASSUME NEW d \in Sd PROVE Served(d)'
    OBVIOUS
  <2>1. conn[d] # "none" => conn[d] \in Monitor
    BY DEF TypeInv, TypeOK
  <2>2. conn[d] # "none" => (nStop(conn[d]) => nStop(conn[d])') /\ (Warned(conn[d]) => Warned(conn[d])')
    BY <2>1 DEF Warned, nStop
  <2> QED BY <2>2, KeepServed DEF NoEndYet
<1> QED BY <1>1, <1>2 DEF NoEndYet

(* A frame on the connections of one monitor; a close only with nStop set.  *)
LEMMA PutStop ==
  ASSUME NEW m \in Monitor, NEW frame \in {"keepalive", "close"}, TypeInv, NoEndYet, Put(m, frame),
         UNCHANGED <<m_connect, conn, pc, gone, out>>, \A n \in Monitor : nStop(n) => nStop(n)',
         frame = "close" => nStop(m)'
  PROVE  NoEndYet'
<1>1. \A n \in Monitor : Told409(n)'
  BY DEF NoEndYet, Told409
<1>2. \A d \in Sd : Served(d)'
  <2> SUFFICES ASSUME NEW d \in Sd PROVE Served(d)'
    OBVIOUS
  <2>1. conn[d] # "none" => conn[d] \in Monitor
    BY DEF TypeInv, TypeOK
  <2>2. conn[d] # "none" => (nStop(conn[d]) => nStop(conn[d])') /\ (Warned(conn[d]) => Warned(conn[d])')
    BY <2>1 DEF Warned, nStop
  <2>3. CASE ~(conn[d] = m /\ ~gone[d])
    <3>1. in'[d] = in[d] BY <2>3 DEF Put
    <3> QED BY <2>2, <3>1, KeepServed DEF NoEndYet
  <2>4. CASE conn[d] = m /\ ~gone[d]
    <3>1. in'[d] = Append(in[d], frame) /\ in[d] \in Frames /\ m # "none"
      BY <2>4, MonitorAssumption DEF Put, TypeInv
    <3>2. \A i \in DOMAIN in'[d] : in'[d][i] = frame \/ (i \in DOMAIN in[d] /\ in'[d][i] = in[d][i])
      BY <3>1 DEF Frames
    <3>3. Goodbye(d)'
      BY <2>2, <2>4, <3>1, <3>2 DEF Goodbye, NoEndYet, Served
    <3> QED BY <2>2, <2>4, <3>3 DEF NoEndYet, Served
  <2> QED BY <2>3, <2>4
<1> QED BY <1>1, <1>2 DEF NoEndYet

(* A new connection: its descriptor is idle and has no frames.              *)
LEMMA ConnectStop ==
  ASSUME NEW m \in Monitor, TypeInv, NoEndYet, Connect(m)
  PROVE  NoEndYet'
<1>1. CASE server = "down"
  <2>1. mon[m] = "bound" /\ mon' = [mon EXCEPT ![m] = "startup"] /\ mon \in [Monitor -> Place]
    BY <1>1 DEF Connect, Startup, TypeInv, TypeOK, Place
  <2>2. \A n \in Monitor : nStop(n) => nStop(n)'
    BY <2>1 DEF nStop
  <2> QED BY <1>1, <2>2, MoveStop DEF Connect, net, service
<1>2. CASE server = "up"
  <2>1. PICK d \in Sd : /\ conn[d] = "none" /\ conn' = [conn EXCEPT ![d] = m]
                        /\ m_connect' = m_connect \union {d}
    BY <1>2 DEF Connect
  <2>2. /\ mon[m] = "bound" /\ mon' = [mon EXCEPT ![m] = "loop"] /\ mon \in [Monitor -> Place]
        /\ UNCHANGED <<gone, in, out, pc>> /\ conn \in [Sd -> Monitor \union {"none"}]
    BY <1>2 DEF Connect, TypeInv, TypeOK, Place
  <2>3. \A n \in Monitor : nStop(n)' <=> nStop(n)
    BY <2>2 DEF nStop
  <2>4. \A n \in Monitor : Told409(n)' /\ (Warned(n)' <=> Warned(n))
    BY <2>2, <2>3 DEF NoEndYet, Told409, Warned
  <2>5. pc[d] = "idle" /\ in[d] = <<>>
    BY <2>1 DEF NoEndYet, Served, TypeInv, TypeOK
  <2>6. Served(d)'
    BY <2>1, <2>2, <2>5, MonitorAssumption DEF Served, Goodbye, Busy
  <2>7. ASSUME NEW e \in Sd, e # d PROVE Served(e)'
    <3>1. conn'[e] = conn[e] /\ (e \in m_connect' <=> e \in m_connect)
      BY <2>1, <2>2, <2>7
    <3>2. Served(e) /\ (conn[e] # "none" => conn[e] \in Monitor)
      BY <2>2 DEF NoEndYet
    <3> QED BY <2>2, <2>3, <2>4, <3>1, <3>2 DEF Served, Goodbye
  <2> QED BY <2>4, <2>6, <2>7 DEF NoEndYet
<1> QED BY <1>1, <1>2 DEF Connect

(* The handlers: an end that arrives first finds nStop set.                 *)
LEMMA ReceiveStop ==
  ASSUME NEW m \in Monitor, TypeInv, NoEndYet, Receive(m)
  PROVE  NoEndYet' /\ mon'[m] # "startup"
<1>0. mon \in [Monitor -> Place] /\ out \in [Monitor -> Answers]
  BY DEF TypeInv, TypeOK, Place
<1>1. CASE Head(out[m]) = "409"
  <2>1. Gone(m) /\ UNCHANGED <<m_connect, conn, pc, in>>
    BY <1>1 DEF Receive, Ends, service
  <2>2. mon'[m] = "absent"
    BY <1>0, <2>1 DEF Gone
  <2> QED BY <2>1, <2>2, GoneStop
<1>2. CASE Head(out[m]) # "409"
  <2>1. nStop(m)
    BY <1>2 DEF Receive, NoEndYet, Told409
  <2>2. /\ out' = [out EXCEPT ![m] = Tail(@)] /\ UNCHANGED mon
        /\ UNCHANGED <<m_connect, conn, pc, in, gone>>
    BY <1>2, <2>1 DEF Receive, net, service
  <2>3. \A n \in Monitor : (nStop(n)' <=> nStop(n)) /\ (n # m => out'[n] = out[n])
    BY <1>0, <2>2 DEF nStop
  <2>4. \A n \in Monitor : Told409(n)' /\ (Warned(n) => Warned(n)')
    BY <2>1, <2>3 DEF NoEndYet, Told409, Warned
  <2>5. ASSUME NEW d \in Sd PROVE Served(d)'
    <3>1. conn[d] # "none" => conn[d] \in Monitor
      BY DEF TypeInv, TypeOK
    <3>2. conn[d] # "none" => (nStop(conn[d]) => nStop(conn[d])') /\ (Warned(conn[d]) => Warned(conn[d])')
      BY <2>2, <2>3, <2>4, <3>1 DEF Warned, nStop
    <3> QED BY <2>2, <3>2, KeepServed DEF NoEndYet
  <2> QED BY <2>1, <2>2, <2>4, <2>5 DEF NoEndYet, nStop
<1> QED BY <1>1, <1>2

(* One step of a monitor, of cron or of a signal.                           *)
LEMMA ClientsStop ==
  ASSUME NEW m \in Monitor, TypeInv, NoEndYet,
         procmon(m) \/ Bind(m) \/ processmon(m) \/ Interrupt(m) \/ Kill(m)
  PROVE  NoEndYet'
<1> USE DEF net, service
<1>0. mon \in [Monitor -> Place]
  BY DEF TypeInv, TypeOK, Place
<1>a. ASSUME NEW p, mon' = [mon EXCEPT ![m] = p], ~nStop(m) \/ p \in {"leaving", "bye"}
      PROVE  \A n \in Monitor : nStop(n) => nStop(n)'
  BY <1>0, <1>a DEF nStop
<1>b. Ends(m) => NoEndYet'
  BY GoneStop DEF Ends
<1>1. CASE procmon(m)
  <2>1. mon' = [mon EXCEPT ![m] = "checked"] /\ ~nStop(m)
    BY <1>1 DEF procmon, nStop
  <2> QED BY <1>1, <1>a, <2>1, MoveStop DEF procmon
<1>2. CASE Bind(m)
  <2>1. CASE m \in Cron /\ lock # {}
    BY <1>2, <1>b, <2>1 DEF Bind
  <2>2. CASE ~(m \in Cron /\ lock # {})
    <3>1. mon' = [mon EXCEPT ![m] = "bound"] /\ ~nStop(m)
      BY <1>2, <2>2 DEF Bind, nStop
    <3> QED BY <1>2, <1>a, <2>2, <3>1, MoveStop DEF Bind
  <2> QED BY <2>1, <2>2
<1>3. CASE System(m) BY <1>3, GoneStop DEF System
<1>4. CASE Connect(m) BY <1>4, ConnectStop
<1>5. CASE Keepalive(m)
  <2>1. Put(m, "keepalive") /\ UNCHANGED <<m_connect, conn, pc, gone, out, mon>>
    BY <1>5 DEF Keepalive
  <2>2. \A n \in Monitor : nStop(n) => nStop(n)'
    BY <2>1 DEF nStop
  <2> QED BY <2>1, <2>2, PutStop
<1>6. CASE Interrupt(m)
  <2>1. mon' = [mon EXCEPT ![m] = "interrupted"] /\ ~nStop(m)
    BY <1>6 DEF Interrupt, nStop
  <2> QED BY <1>6, <1>a, <2>1, MoveStop DEF Interrupt
<1>7. CASE Leave(m)
  <2>1. mon' = [mon EXCEPT ![m] = "leaving"]
    BY <1>7 DEF Leave
  <2> QED BY <1>7, <1>a, <2>1, MoveStop DEF Leave
<1>8. CASE Bye(m)
  <2>1. Put(m, "close") /\ mon' = [mon EXCEPT ![m] = "bye"] /\ UNCHANGED <<m_connect, conn, pc, gone, out>>
    BY <1>8 DEF Bye
  <2>2. nStop(m)'
    BY <1>0, <2>1 DEF nStop
  <2> QED BY <1>a, <2>1, <2>2, PutStop
<1>9. CASE Quit(m) BY <1>9, <1>b DEF Quit
<1>10. CASE Receive(m) BY <1>10, ReceiveStop
<1>11. CASE Kill(m) BY <1>11, GoneStop DEF Kill
<1> QED BY <1>1, <1>2, <1>3, <1>4, <1>5, <1>6, <1>7, <1>8, <1>9, <1>10, <1>11 DEF processmon

(* A frame that is sent goes behind those under way; one that is read is    *)
(* the first.                                                               *)
LEMMA FirstKept ==
  ASSUME NEW S, NEW q \in Seq(S), NEW x \in S
  PROVE  /\ Append(q, x) # <<>>
         /\ q = <<>> => Head(Append(q, x)) = x
         /\ q # <<>> => Head(Append(q, x)) = Head(q)
OBVIOUS

LEMMA TailShifts ==
  ASSUME NEW S, NEW q \in Seq(S), q # <<>>
  PROVE  /\ Head(q) = q[1] /\ 1 \in DOMAIN q
         /\ \A i \in DOMAIN Tail(q) : i + 1 \in DOMAIN q /\ Tail(q)[i] = q[i + 1]
OBVIOUS

(* What the service sends is a 409, or the end of a connection whose        *)
(* monitor was warned.                                                      *)
LEMMA AnswerStop ==
  ASSUME NEW d \in Sd, NEW text \in {"409", "end"}, TypeInv, NoEndYet, conn[d] # "none",
         Answer(d, text), UNCHANGED mon, text = "409" \/ gone[d] \/ Warned(conn[d])
  PROVE  \A n \in Monitor : /\ Told409(n)' /\ (nStop(n)' <=> nStop(n))
                            /\ Warned(n) => Warned(n)'
                            /\ n = conn[d] /\ ~gone[d] => Warned(n)'
<1>1. /\ out \in [Monitor -> Answers] /\ conn[d] \in Monitor
      /\ \A n \in Monitor : nStop(n)' <=> nStop(n)
  BY DEF TypeInv, TypeOK, nStop
<1>2. CASE gone[d]
  BY <1>1, <1>2 DEF Answer, NoEndYet, Told409, Warned
<1>3. CASE ~gone[d]
  <2> PICK c \in Monitor : c = conn[d]
    BY <1>1
  <2>1. out' = [out EXCEPT ![c] = Append(out[c], text)]
    BY <1>3 DEF Answer
  <2>2. \A n \in Monitor : n # c => out'[n] = out[n]
    BY <1>1, <2>1
  <2>3. /\ out'[c] = Append(out[c], text) /\ out'[c] # <<>>
        /\ out[c] = <<>> => Head(out'[c]) = text
        /\ out[c] # <<>> => Head(out'[c]) = Head(out[c])
    <3>1. out[c] \in Answers /\ out'[c] = Append(out[c], text)
      BY <1>1, <2>1
    <3>2. out[c] \in Seq({"409", "end"})
      BY <3>1 DEF Answers
    <3>3. /\ Append(out[c], text) # <<>>
          /\ out[c] = <<>> => Head(Append(out[c], text)) = text
          /\ out[c] # <<>> => Head(Append(out[c], text)) = Head(out[c])
      BY <3>2, FirstKept
    <3> QED BY <3>1, <3>3
  <2>4. Told409(c)'
    BY <1>1, <1>3, <2>3 DEF NoEndYet, Told409, Warned
  <2> QED BY <1>1, <1>3, <2>2, <2>3, <2>4 DEF NoEndYet, Told409, Warned
<1> QED BY <1>2, <1>3

(* One step of the thread that has connection d.                            *)
LEMMA ServeStop ==
  ASSUME NEW d \in Sd, TypeInv, NoEndYet, Serve(d)
  PROVE  NoEndYet'
<1>0. /\ pc \in [Sd -> Label] /\ conn \in [Sd -> Monitor \union {"none"}] /\ in \in [Sd -> Frames]
      /\ gone \in [Sd -> BOOLEAN] /\ Served(d) /\ UNCHANGED mon /\ \A n \in Monitor : nStop(n)' <=> nStop(n)
  BY DEF TypeInv, TypeOK, Label, NoEndYet, Serve, websocket_alive, closesocket, Take, Check, Reject,
         Accept, Erase, Compare, Reset, Close, nStop
(* The other connections, and d itself in a step that sends nothing.        *)
<1>a. ASSUME \A n \in Monitor : Warned(n) => Warned(n)', NEW e \in Sd, e # d,
             conn'[e] = conn[e], gone'[e] = gone[e], in'[e] = in[e], pc'[e] = pc[e],
             e \in m_connect' <=> e \in m_connect
      PROVE  Served(e)'
  <2>1. Served(e) /\ (conn[e] # "none" => conn[e] \in Monitor)
    BY <1>0 DEF NoEndYet
  <2> QED BY <1>0, <1>a, <2>1 DEF Served, Goodbye
<1>b. ASSUME UNCHANGED <<out, conn, gone>>, \A e \in Sd : e # d => in'[e] = in[e] /\ pc'[e] = pc[e],
             m_connect' \in {m_connect, m_connect \ {d}}, Served(d)'
      PROVE  NoEndYet'
  <2>1. \A n \in Monitor : Told409(n)' /\ (Warned(n) => Warned(n)')
    BY <1>0, <1>b DEF NoEndYet, Told409, Warned
  <2> QED BY <1>a, <1>b, <2>1 DEF NoEndYet
<1> USE DEF Goto, Busy, net
<1>1. CASE Take(d)
  <2>1. UNCHANGED <<out, conn, gone, m_connect>> /\ d \in m_connect /\ pc[d] = "idle" /\ conn[d] # "none"
    BY <1>0, <1>1 DEF Take, Served
  <2>2. CASE gone[d] /\ Goto(d, "erase") /\ UNCHANGED in
    BY <1>0, <1>b, <2>1, <2>2 DEF Served
  <2>3. CASE /\ in[d] # <<>> /\ in' = [in EXCEPT ![d] = Tail(@)]
             /\ Goto(d, IF Head(in[d]) = "close" THEN "erase" ELSE "check")
    <3>1. in[d] \in Frames /\ in'[d] = Tail(in[d])
      BY <1>0, <2>3
    <3>2. /\ \A i \in DOMAIN in'[d] : i + 1 \in DOMAIN in[d] /\ in'[d][i] = in[d][i + 1]
          /\ Head(in[d]) = in[d][1] /\ 1 \in DOMAIN in[d]
      BY <2>3, <3>1, TailShifts DEF Frames
    <3>3. ~gone[d] => Goodbye(d)' /\ (Head(in[d]) = "close" => nStop(conn[d]))
      <4>1. conn[d] \in Monitor
        BY <1>0, <2>1
      <4>2. ~gone[d] => Goodbye(d)
        BY <1>0, <2>1 DEF Served
      <4> QED BY <1>0, <2>1, <3>2, <4>1, <4>2 DEF Goodbye
    <3>4. ~gone[d] /\ Head(in[d]) = "close" => Warned(conn[d])'
      BY <1>0, <2>1, <3>3 DEF Warned
    <3>5. Served(d)'
      BY <1>0, <2>1, <2>3, <3>3, <3>4 DEF Served
    <3>6. \A e \in Sd : e # d => in'[e] = in[e] /\ pc'[e] = pc[e]
      BY <1>0, <2>3
    <3> QED BY <1>b, <2>1, <3>5, <3>6
  <2> QED BY <1>1, <2>2, <2>3 DEF Take
<1>c. ASSUME UNCHANGED <<out, conn, gone, in>>, m_connect' \in {m_connect, m_connect \ {d}},
             NEW p \in Label, pc' = [pc EXCEPT ![d] = p], pc[d] # "idle",
             p \in Busy => pc[d] \in Busy, p \in Busy \ {"erase"} => d \notin m_connect'
      PROVE  NoEndYet'
  <2>1. conn[d] # "none" /\ conn[d] \in Monitor /\ pc'[d] = p /\ \A e \in Sd : e # d => pc'[e] = pc[e]
    BY <1>0, <1>c DEF Served
  <2>2. ~gone[d] => Goodbye(d)' /\ (p \in Busy => Warned(conn[d])')
    <3>1. ~gone[d] => Goodbye(d) /\ (p \in Busy => Warned(conn[d]))
      BY <1>0, <1>c, <2>1 DEF Served
    <3> QED BY <1>0, <1>c, <2>1, <3>1 DEF Goodbye, Warned
  <2>3. Served(d)'
    BY <1>c, <2>1, <2>2 DEF Served
  <2> QED BY <1>b, <1>c, <2>1, <2>3
<1>2. CASE Check(d)
  BY <1>2, <1>c DEF Check, Label
<1>3. CASE Reject(d)
  <2>1. /\ pc[d] = "reject" /\ pc' = [pc EXCEPT ![d] = "erase"] /\ Answer(d, "409")
        /\ UNCHANGED <<conn, gone, in, m_connect>>
    BY <1>3 DEF Reject
  <2>2. conn[d] # "none" /\ conn[d] \in Monitor
    BY <1>0, <2>1 DEF Served
  <2>3. \A n \in Monitor : /\ Told409(n)' /\ (Warned(n) => Warned(n)')
                           /\ n = conn[d] /\ ~gone[d] => Warned(n)'
    BY <1>0, <2>1, <2>2, AnswerStop
  <2>4. ~gone[d] => Goodbye(d)' /\ Warned(conn[d])'
    BY <1>0, <2>1, <2>2, <2>3 DEF Served, Goodbye, Warned
  <2>5. Served(d)'
    BY <1>0, <2>1, <2>2, <2>4 DEF Served
  <2>6. ASSUME NEW e \in Sd, e # d PROVE Served(e)'
    BY <1>0, <1>a, <2>1, <2>3, <2>6
  <2> QED BY <2>3, <2>5, <2>6 DEF NoEndYet
<1>4. CASE Accept(d)
  BY <1>4, <1>c DEF Accept, Label
<1>5. CASE Erase(d)
  BY <1>5, <1>c DEF Erase, Label
<1>6. CASE Compare(d)
  BY <1>0, <1>6, <1>c DEF Compare, Label, Served
<1>7. CASE Reset(d)
  BY <1>0, <1>7, <1>c DEF Reset, Label, Served
<1>8. CASE Close(d)
  <2>1. /\ pc[d] = "close" /\ pc' = [pc EXCEPT ![d] = "idle"] /\ Answer(d, "end")
        /\ conn' = [conn EXCEPT ![d] = "none"] /\ gone' = [gone EXCEPT ![d] = FALSE]
        /\ in' = [in EXCEPT ![d] = <<>>] /\ UNCHANGED m_connect
    BY <1>8 DEF Close
  <2>2. conn[d] # "none" /\ conn[d] \in Monitor /\ d \notin m_connect /\ (gone[d] \/ Warned(conn[d]))
    BY <1>0, <2>1 DEF Served
  <2>3. \A n \in Monitor : Told409(n)' /\ (Warned(n) => Warned(n)')
    BY <1>0, <2>1, <2>2, AnswerStop
  <2>4. Served(d)'
    BY <1>0, <2>1, <2>2 DEF Served
  <2>5. ASSUME NEW e \in Sd, e # d PROVE Served(e)'
    BY <1>0, <1>a, <2>1, <2>3, <2>5
  <2> QED BY <2>3, <2>4, <2>5 DEF NoEndYet
<1> QED BY <1>1, <1>2, <1>3, <1>4, <1>5, <1>6, <1>7, <1>8 DEF Serve, websocket_alive, closesocket

LEMMA InitStop == Init => StopInv
BY DEF Init, StopInv, NoEndYet, Told409, Served

LEMMA NextStop == TypeInv /\ StopInv /\ [Next]_vars => StopInv'
<1> SUFFICES ASSUME TypeInv, StopInv, [Next]_vars, crashes' = 0 PROVE NoEndYet'
  BY DEF StopInv
<1>1. crashes = 0 /\ NoEndYet /\ ~Crash
  <2>1. crashes \in Nat
    BY MonitorAssumption DEF TypeInv, TypeOK
  <2>2. ~Crash
    BY <2>1 DEF Crash
  <2>3. UNCHANGED crashes
    BY <2>2 DEF Next, vars, procs, Boot, procmon, Bind, Ends, processmon, System, Connect, Keepalive, Leave, Bye,
       Quit, Receive, Interrupt, Kill, Serve, Take, websocket_alive, closesocket, Check, Reject,
       Accept, Erase, Compare, Reset, Close
  <2> QED BY <2>2, <2>3 DEF StopInv
<1>2. ASSUME NEW m \in Monitor, procmon(m) \/ Bind(m) \/ processmon(m) \/ Interrupt(m) \/ Kill(m)
      PROVE  NoEndYet'
  BY <1>1, <1>2, ClientsStop
<1>3. ASSUME NEW d \in Sd, Serve(d) PROVE NoEndYet'
  BY <1>1, <1>3, ServeStop
<1>4. CASE Boot \/ UNCHANGED vars
  BY <1>1, <1>4, MoveStop DEF Boot, vars, net, service, nStop
<1> QED BY <1>1, <1>2, <1>3, <1>4 DEF Next

(* Who starts the service: a monitor that could not connect, or one whose   *)
(* connection ended without a 409 before and without nStop.                 *)
LEMMA StartsFromDown ==
  ASSUME TypeInv, StopInv, [Next]_vars, NEW m \in Monitor, mon[m] # "startup", mon'[m] = "startup"
  PROVE  server = "down" \/ crashes > 0
<1>0. mon \in [Monitor -> Place] /\ crashes \in Nat
  BY MonitorAssumption DEF TypeInv, TypeOK, Place
<1>1. UNCHANGED mon => FALSE
  OBVIOUS
<1>2. ASSUME NEW n \in Monitor, procmon(n) \/ Bind(n) \/ processmon(n) \/ Interrupt(n) \/ Kill(n)
      PROVE  server = "down" \/ crashes > 0
  <2>1. CASE Connect(n) BY <1>0, <2>1 DEF Connect
  <2>2. CASE Receive(n)
    <3>1. n = m
      BY <1>0, <2>2 DEF Receive, Ends, Gone, Startup
    <3>2. crashes # 0
      BY <2>2, <3>1, ReceiveStop DEF StopInv
    <3> QED BY <1>0, <3>2
  <2>3. CASE ~Connect(n) /\ ~Receive(n)
    BY <1>0, <1>2, <2>3 DEF procmon, Bind, Ends, Gone, processmon, System, Keepalive, Leave, Bye, Quit,
       Interrupt, Kill
  <2> QED BY <2>1, <2>2, <2>3
<1>3. ASSUME NEW d \in Sd, Serve(d) PROVE FALSE
  BY <1>1, <1>3 DEF Serve, Take, websocket_alive, closesocket, Check, Reject, Accept, Erase, Compare, Reset, Close
<1>4. CASE Boot \/ Crash \/ UNCHANGED vars
  BY <1>1, <1>4 DEF Boot, Crash, vars
<1> QED BY <1>2, <1>3, <1>4 DEF Next

(* While the service has never ended, no monitor starts it beside the one   *)
(* that runs: neither one that was told to stop, whose close frame the      *)
(* service answers by closing, nor one that was answered 409                *)
(* (ws_client.c:303-307, 364-373, 450, tst.cpp:914-943).                    *)
THEOREM StopStays == Spec => WantedStopStays
<1>1. TypeInv /\ StopInv /\ [Next]_vars =>
        [\A m \in Monitor : mon[m] # "startup" /\ mon'[m] = "startup"
                              => server = "down" \/ crashes > 0]_vars
  BY StartsFromDown
<1> QED BY <1>1, InitType, NextType, InitStop, NextStop, PTL DEF Spec, WantedStopStays

=============================================================================
