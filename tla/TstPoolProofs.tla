---------------------------- MODULE TstPoolProofs ----------------------------
(* Theorems of the server, for any workers, descriptors and clients: first  *)
(* the tokens, and that a connection in use is silent; then the objects,    *)
(* that a connection in use is not deleted, and why destroy finds no worker *)
(* at work; then the types, the listening socket, m_connect and what        *)
(* becomes of an accepted connection.                                       *)
EXTENDS TstPoolProps, Integers, TLAPS

----------------------------------------------------------------------------
(* The inductive invariant.  The right to work on a descriptor is a token:  *)
(* epoll has it while the descriptor is armed, then tst_main, then a worker, *)
(* and nobody has the token of a descriptor that is closed.                 *)

Address == [sd : Sd \union {NULL}, conn : Int \union {NULL}]
Fetched == (Sd \union {ListenSd}) \X {"in", "out", "hup"}
Placed ==
  /\ interest \in [Sd \union {ListenSd} -> {"none", "off", "in", "inout"}]
  /\ m_connect \in [Sd -> Int \union {NULL}] /\ open \subseteq Sd
  /\ made \in Int /\ backlog \in Int
  /\ m_events \subseteq Fetched /\ event \in Fetched \union {NULL} /\ given \in Address
  /\ tst_socket \in [Worker -> Address] /\ used \in [Worker -> Address]
  /\ workPc \in [Worker -> {"loop", "lock", "wait", "look", "else", "idle", "reset", "take", "job",
                            "erase", "close", "delete", "rearm", "settle", "clear", "last", "gone"}]
  /\ next \in [Worker -> Result]

(* Who has the token of s: epoll, tst_main, or worker w, which works on it  *)
(* or was given it and has not taken it.                                    *)
Armed(s) == interest[s] \in {"in", "inout"}
AtHand == mainPc \in {"find", "erase", "scan", "mark", "give", "close"}
InMain(s) == \/ \E e \in m_events : e[1] = s
             \/ (AtHand \/ (mainPc = "loop" /\ event # NULL)) /\ event[1] = s
Works(w, s) == UsesSd(w) /\ used[w].sd = s
Holds(w, s) == Works(w, s) \/ (tst_socket[w].sd = s /\ used[w].sd # s)

(* One token for each descriptor.                                           *)
Tokens ==
  \A s \in Sd :
    /\ InMain(s) => ~Armed(s)
    /\ \A w \in Worker : Holds(w, s) => ~Armed(s) /\ ~InMain(s)
    /\ \A v, w \in Worker : Holds(v, s) /\ Holds(w, s) => v = w
OneEvent ==
  /\ \A e, f \in m_events : e[1] = f[1] => e = f
  /\ AtHand \/ (mainPc = "loop" /\ event # NULL) => \A e \in m_events : e[1] # event[1]
Opened ==
  mainPc # "done" =>
    \A s \in Sd : Armed(s) \/ InMain(s) \/ m_connect[s] # NULL \/ (\E w \in Worker : Holds(w, s))
                    => s \in open

(* A connection that is being accepted is nobody else's, one that is being  *)
(* closed has left m_connect.                                               *)
Fresh ==
  mainPc \in {"add", "connected"} =>
    /\ given.sd \in open /\ ~Armed(given.sd) /\ ~InMain(given.sd)
    /\ \A w \in Worker : ~Holds(w, given.sd)
Closing ==
  /\ mainPc = "close" => m_connect[given.sd] = NULL
  /\ \A w \in Worker : workPc[w] = "close" => m_connect[used[w].sd] = NULL
Linked ==
  /\ AtHand => event[1] \in Sd
  /\ mainPc \in {"scan", "mark", "give", "close"} => given.sd = event[1]
  /\ \A w \in Worker : UsesSd(w) => used[w].sd \in Sd
  /\ \A w \in Worker :
       /\ tst_socket[w] # None => tst_socket[w].sd # NULL
       /\ workPc[w] \notin {"job", "erase", "close", "delete", "rearm", "settle", "clear"}
            => used[w] = None
       /\ workPc[w] \in {"erase", "close", "delete"} => next[w] = tst_disconnect

Safe == Tokens /\ OneEvent /\ Opened /\ Fresh /\ Closing /\ Linked
TokenInv == Placed /\ (crashed \/ Safe)

tokenVars == <<interest, m_connect, open, m_events, event, given, mainPc, tst_socket, used, workPc,
               next, crashed>>

----------------------------------------------------------------------------
(* Steps that pass no token                                                 *)

(* Steps that leave tokenVars alone; the invariant is about nothing else    *)
(* but the type of the two counters.                                        *)
LEMMA KeepTokens ==
  ASSUME TokenInv, UNCHANGED tokenVars, made' \in Int, backlog' \in Int
  PROVE  TokenInv'
<1>1. Placed' BY DEF TokenInv, Placed, tokenVars
<1>2. \A s : (Armed(s)' <=> Armed(s)) /\ (InMain(s)' <=> InMain(s))
  BY DEF Armed, InMain, AtHand, tokenVars
<1>3. \A w, s : Holds(w, s)' <=> Holds(w, s)
  BY DEF Holds, Works, UsesSd, tokenVars
<1>4. CASE crashed BY <1>1, <1>4 DEF TokenInv, tokenVars
<1>5. CASE Safe
  <2>1. Tokens' BY <1>2, <1>3, <1>5 DEF Safe, Tokens
  <2>2. OneEvent' BY <1>5 DEF Safe, OneEvent, AtHand, tokenVars
  <2>3. Opened' BY <1>2, <1>3, <1>5 DEF Safe, Opened, tokenVars
  <2>4. Fresh' BY <1>2, <1>3, <1>5 DEF Safe, Fresh, tokenVars
  <2>5. Closing' BY <1>5 DEF Safe, Closing, tokenVars
  <2>6. Linked' BY <1>5 DEF Safe, Linked, AtHand, UsesSd, tokenVars
  <2> QED BY <1>1, <2>1, <2>2, <2>3, <2>4, <2>5, <2>6 DEF TokenInv, Safe
<1> QED BY <1>4, <1>5 DEF TokenInv

(* Tokens that disappear leave the others alone.                            *)
LEMMA FewerTokens ==
  ASSUME Tokens,
         \A s \in Sd : (Armed(s)' => Armed(s)) /\ (InMain(s)' => InMain(s)),
         \A w \in Worker, s \in Sd : Holds(w, s)' => Holds(w, s)
  PROVE  Tokens'
  BY DEF Tokens

(* The server starts with the listening socket only.                        *)
LEMMA InitTokens == Init => TokenInv
<1> SUFFICES ASSUME Init PROVE TokenInv
  OBVIOUS
<1> USE ServerAssumption DEF Init, None
<1>1. Placed BY DEF Placed, Address, Fetched, Result, tst_suspend, tst_send, tst_disconnect
<1>2. \A s \in Sd : ~Armed(s) /\ ~InMain(s) BY DEF Armed, InMain, AtHand
<1>3. \A w \in Worker, s \in Sd : ~Holds(w, s) BY DEF Holds, Works, UsesSd
<1>4. Tokens /\ Opened BY <1>2, <1>3 DEF Tokens, Opened
<1>5. OneEvent /\ Fresh /\ Closing /\ Linked BY DEF OneEvent, Fresh, Closing, Linked, AtHand, UsesSd
<1> QED BY <1>1, <1>4, <1>5 DEF TokenInv, Safe

----------------------------------------------------------------------------
(* tst_main                                                                 *)

(* epoll_wait passes the tokens of the reported descriptors to tst_main.    *)
LEMMA FetchKeeps ==
  ASSUME TokenInv, ~crashed, Fetch, UNCHANGED <<m_connect, open, given, tst_socket, used, workPc,
         next, crashed, made, backlog>>
  PROVE  TokenInv'
<1> USE ServerAssumption
<1>0. Placed /\ Safe BY DEF TokenInv
<1>1. mainPc = "loop" /\ mainPc' = "loop" /\ event = NULL /\ event' = NULL /\ m_events = {}
  BY DEF Fetch
<1>2. PICK S \in SUBSET {s \in DOMAIN interest : Ready(s)} :
        /\ m_events' = {<<s, Kind(s)>> : s \in S}
        /\ interest' = [s \in DOMAIN interest |-> IF s \in S THEN "off" ELSE interest[s]]
  BY DEF Fetch, OneShot
<1>3. S \subseteq Sd \union {ListenSd} /\ \A s \in Sd : s \in S => Armed(s)
  BY <1>0, <1>2 DEF Placed, Ready, Armed
<1>4. \A s \in Sd : InMain(s)' <=> s \in S
  <2>1. \A s : InMain(s)' <=> \E e \in m_events' : e[1] = s BY <1>1 DEF InMain, AtHand
  <2>2. \A s \in S : <<s, Kind(s)>> \in m_events' /\ <<s, Kind(s)>>[1] = s BY <1>2
  <2>3. \A e \in m_events' : e[1] \in S BY <1>2
  <2> QED BY <2>1, <2>2, <2>3
<1>5. \A s \in Sd : Armed(s)' <=> Armed(s) /\ s \notin S
  BY <1>0, <1>2 DEF Armed, Placed
<1>6. \A w \in Worker, s \in Sd : Holds(w, s)' <=> Holds(w, s)
  BY DEF Holds, Works, UsesSd
<1>7. Placed'
  <2>1. interest' \in [Sd \union {ListenSd} -> {"none", "off", "in", "inout"}]
    BY <1>0, <1>2 DEF Placed
  <2>2. m_events' \subseteq Fetched BY <1>2, <1>3 DEF Fetched, Kind
  <2> QED BY <1>0, <1>1, <2>1, <2>2 DEF Placed
<1>8. Tokens' BY <1>0, <1>3, <1>4, <1>5, <1>6 DEF Safe, Tokens
<1>9. OneEvent' BY <1>1, <1>2 DEF OneEvent, AtHand
<1>10. Opened' BY <1>0, <1>1, <1>3, <1>4, <1>5, <1>6 DEF Safe, Opened
<1>11. Fresh' /\ Closing' /\ Linked'
  BY <1>0, <1>1 DEF Safe, Fresh, Closing, Linked, AtHand, UsesSd
<1> QED BY <1>7, <1>8, <1>9, <1>10, <1>11 DEF TokenInv, Safe

(* tst_main takes one of its events.                                        *)
LEMMA PickKeeps ==
  ASSUME TokenInv, ~crashed, Pick, UNCHANGED <<m_connect, open, given, tst_socket, used, workPc,
         next, crashed, made, backlog>>
  PROVE  TokenInv'
<1> USE ServerAssumption
<1>0. Placed /\ Safe BY DEF TokenInv
<1>1. mainPc = "loop" /\ mainPc' \in {"accept", "erase", "find"} /\ interest' = interest
      /\ (mainPc' # "accept" => event'[1] # ListenSd)
  BY DEF Pick
<1>2. \/ event # NULL /\ UNCHANGED <<m_events, event>>
      \/ event = NULL /\ event' \in m_events /\ m_events' = m_events \ {event'}
  BY DEF Pick, eventVars
<1>3. event' \in Fetched BY <1>0, <1>2 DEF Placed
<1>4. \A s \in Sd : (Armed(s)' <=> Armed(s)) /\ (InMain(s)' => InMain(s))
  BY <1>1, <1>2 DEF Armed, InMain, AtHand
<1>5. \A w \in Worker, s \in Sd : Holds(w, s)' <=> Holds(w, s)
  BY DEF Holds, Works, UsesSd
<1>6. Placed' BY <1>0, <1>1, <1>2, <1>3 DEF Placed
<1>7. Tokens' BY <1>0, <1>4, <1>5, FewerTokens DEF Safe
<1>8. OneEvent' BY <1>0, <1>1, <1>2 DEF Safe, OneEvent, AtHand
<1>9. Opened' BY <1>0, <1>1, <1>4, <1>5 DEF Safe, Opened
<1>10. Fresh' /\ Closing' BY <1>0, <1>1 DEF Safe, Fresh, Closing
<1>11. Linked' BY <1>0, <1>1, <1>3 DEF Safe, Linked, AtHand, UsesSd, Fetched
<1> QED BY <1>6, <1>7, <1>8, <1>9, <1>10, <1>11 DEF TokenInv, Safe

(* An accepted descriptor was closed, so nobody has its token.              *)
LEMMA AcceptKeeps ==
  ASSUME TokenInv, ~crashed, Accept, UNCHANGED <<m_events, tst_socket, used, workPc, next, crashed>>
  PROVE  TokenInv'
<1> USE ServerAssumption
<1>0. Placed /\ Safe BY DEF TokenInv
<1>1. mainPc = "accept" /\ mainPc' = "add" /\ UNCHANGED <<event, interest, made>>
  BY DEF Accept, Goto
<1>2. PICK s \in Sd \ open :
        /\ given' = [sd |-> s, conn |-> made - backlog + 1]
        /\ m_connect[s] = NULL => open' = open \union {s} /\ UNCHANGED connVars
  BY DEF Accept
<1>3. m_connect[s] = NULL BY <1>0, <1>1, <1>2 DEF Safe, Opened
<1>4. open' = open \union {s} /\ UNCHANGED m_connect BY <1>2, <1>3 DEF connVars
<1>5. \A t \in Sd : (Armed(t)' <=> Armed(t)) /\ (InMain(t)' <=> InMain(t))
  BY <1>1 DEF Armed, InMain, AtHand
<1>6. \A w \in Worker, t \in Sd : Holds(w, t)' <=> Holds(w, t)
  BY DEF Holds, Works, UsesSd
<1>7. Placed'
  <2>1. given' \in Address BY <1>0, <1>2 DEF Placed, Address
  <2>2. backlog' \in Int BY <1>0 DEF Accept, Placed
  <2> QED BY <1>0, <1>1, <1>4, <2>1, <2>2 DEF Placed
<1>8. Tokens' BY <1>0, <1>5, <1>6, FewerTokens DEF Safe
<1>9. OneEvent' BY <1>0, <1>1 DEF Safe, OneEvent, AtHand
<1>10. Opened' BY <1>0, <1>1, <1>4, <1>5, <1>6 DEF Safe, Opened
<1>11. Fresh'
  <2>1. ~Armed(s) /\ ~InMain(s) /\ \A w \in Worker : ~Holds(w, s)
    BY <1>0, <1>1, <1>2 DEF Safe, Opened
  <2>2. given.sd' = s BY <1>2
  <2> QED BY <1>4, <1>5, <1>6, <2>1, <2>2 DEF Fresh
<1>12. Closing' BY <1>0, <1>1, <1>4 DEF Safe, Closing
<1>13. Linked' BY <1>0, <1>1 DEF Safe, Linked, AtHand, UsesSd
<1> QED BY <1>7, <1>8, <1>9, <1>10, <1>11, <1>12, <1>13 DEF TokenInv, Safe

(* addsocket: the new descriptor gets its entry.                            *)
LEMMA AddSocketKeeps ==
  ASSUME TokenInv, ~crashed, AddSocket, UNCHANGED <<m_events, tst_socket, used, workPc, next,
         crashed>>
  PROVE  TokenInv'
<1> USE ServerAssumption
<1>0. Placed /\ Safe BY DEF TokenInv
<1>1. mainPc = "add" /\ mainPc' = "connected"
      /\ UNCHANGED <<event, given, interest, open, made, backlog>>
      /\ m_connect' = [m_connect EXCEPT ![given.sd] = given.conn]
  BY DEF AddSocket, Goto, trafficVars
<1>2. \A t \in Sd : (Armed(t)' <=> Armed(t)) /\ (InMain(t)' <=> InMain(t))
  BY <1>1 DEF Armed, InMain, AtHand
<1>3. \A w \in Worker, t \in Sd : Holds(w, t)' <=> Holds(w, t)
  BY DEF Holds, Works, UsesSd
<1>4. given.sd \in open /\ \A w \in Worker : ~Holds(w, given.sd)
  BY <1>0, <1>1 DEF Safe, Fresh
<1>5. Placed' BY <1>0, <1>1 DEF Placed, Address
<1>6. Tokens' BY <1>0, <1>2, <1>3, FewerTokens DEF Safe
<1>7. OneEvent' /\ Linked' BY <1>0, <1>1 DEF Safe, OneEvent, Linked, AtHand, UsesSd
<1>8. Opened' BY <1>0, <1>1, <1>2, <1>3, <1>4 DEF Safe, Opened, Placed
<1>9. given.sd \in Sd BY <1>0, <1>4 DEF Placed
<1>10. Fresh' BY <1>0, <1>1, <1>2, <1>3, <1>9 DEF Safe, Fresh
<1>11. Closing'
  <2>1. \A w \in Worker : workPc[w] = "close" => Holds(w, used[w].sd) BY DEF Holds, Works, UsesSd
  <2> QED BY <1>0, <1>1, <1>4, <2>1 DEF Safe, Closing, Placed
<1> QED BY <1>5, <1>6, <1>7, <1>8, <1>10, <1>11 DEF TokenInv, Safe

(* EPOLL_CTL_ADD gives the token to epoll; or the connection is closed.     *)
LEMMA ConnectedKeeps ==
  ASSUME TokenInv, ~crashed, Connected, UNCHANGED <<m_events, tst_socket, used, workPc, next,
         crashed>>
  PROVE  TokenInv'
<1> USE ServerAssumption
<1>0. Placed /\ Safe BY DEF TokenInv
<1>1. mainPc = "connected" /\ mainPc' = "relisten" /\ UNCHANGED <<event, given, made, backlog>>
  BY DEF Connected, Goto, trafficVars, Close
<1>2. given.sd \in Sd /\ given.sd \in open /\ ~InMain(given.sd)
      /\ \A w \in Worker : ~Holds(w, given.sd)
  BY <1>0, <1>1 DEF Safe, Fresh, Placed
<1>3. \A t \in Sd : InMain(t)' <=> InMain(t)
  BY <1>1 DEF InMain, AtHand
<1>4. \A w \in Worker, t \in Sd : Holds(w, t)' <=> Holds(w, t)
  BY DEF Holds, Works, UsesSd
<1>5. OneEvent' /\ Fresh' /\ Linked' BY <1>0, <1>1 DEF Safe, OneEvent, Fresh, Linked, AtHand, UsesSd
<1>6. CASE /\ interest' = [interest EXCEPT ![given.sd] = "in"]
              \/ interest' = [interest EXCEPT ![given.sd] = "inout"]
           /\ UNCHANGED <<open, m_connect>>
  <2>1. Placed' BY <1>0, <1>1, <1>6 DEF Placed
  <2>2. \A t \in Sd : Armed(t)' => Armed(t) \/ t = given.sd BY <1>0, <1>6 DEF Armed, Placed
  <2>3. Tokens' BY <1>0, <1>2, <1>3, <1>4, <2>2 DEF Safe, Tokens
  <2>4. Opened' BY <1>0, <1>1, <1>2, <1>3, <1>4, <1>6, <2>2 DEF Safe, Opened
  <2>5. Closing' BY <1>0, <1>1, <1>6 DEF Safe, Closing
  <2> QED BY <1>5, <2>1, <2>3, <2>4, <2>5 DEF TokenInv, Safe
<1>7. CASE /\ m_connect' = [m_connect EXCEPT ![given.sd] = NULL]
           /\ interest' = [interest EXCEPT ![given.sd] = "none"] /\ open' = open \ {given.sd}
  <2>1. Placed' BY <1>0, <1>1, <1>7 DEF Placed
  <2>2. \A t \in Sd : Armed(t)' => Armed(t) /\ t # given.sd BY <1>0, <1>2, <1>7 DEF Armed, Placed
  <2>3. Tokens' BY <1>0, <1>3, <1>4, <2>2, FewerTokens DEF Safe
  <2>4. Opened' BY <1>0, <1>1, <1>2, <1>3, <1>4, <1>7, <2>2 DEF Safe, Opened, Placed
  <2>5. Closing' BY <1>0, <1>1, <1>2, <1>7 DEF Safe, Closing, Placed, Linked, UsesSd
  <2> QED BY <1>5, <2>1, <2>3, <2>4, <2>5 DEF TokenInv, Safe
<1>8. \/ \E r \in {"in", "inout"} : interest' = [interest EXCEPT ![given.sd] = r]
                                  /\ UNCHANGED <<open, m_connect>>
      \/ /\ m_connect' = [m_connect EXCEPT ![given.sd] = NULL]
         /\ interest' = [interest EXCEPT ![given.sd] = "none"] /\ open' = open \ {given.sd}
  BY DEF Connected, connVars, Erase, Close
<1> QED BY <1>6, <1>7, <1>8

(* Steps of tst_main that end its work on an event, or on a new connection, *)
(* and give up no more than tst_main's own token.                           *)
LEMMA HandledKeeps ==
  ASSUME TokenInv, ~crashed, Handled, mainPc \in {"accept", "relisten", "delete"},
         \A t \in Sd : interest'[t] = interest[t],
         interest' \in [Sd \union {ListenSd} -> {"none", "off", "in", "inout"}],
         UNCHANGED <<m_connect, open, made, backlog, m_events, tst_socket, used, workPc, next, crashed>>
  PROVE  TokenInv'
<1> USE ServerAssumption
<1>0. Placed /\ Safe BY DEF TokenInv
<1>1. mainPc' = "loop" /\ event' = NULL /\ given' = None BY DEF Handled, Goto
<1>2. \A t \in Sd : (Armed(t)' <=> Armed(t)) /\ (InMain(t)' => InMain(t))
  BY <1>1 DEF Armed, InMain, AtHand
<1>3. \A w \in Worker, t \in Sd : Holds(w, t)' <=> Holds(w, t)
  BY DEF Holds, Works, UsesSd
<1>4. Placed' BY <1>0, <1>1 DEF Placed, None, Address
<1>5. Tokens' BY <1>0, <1>2, <1>3, FewerTokens DEF Safe
<1>6. OneEvent' /\ Fresh' /\ Closing' /\ Linked'
  BY <1>0, <1>1 DEF Safe, OneEvent, Fresh, Closing, Linked, AtHand, UsesSd
<1>7. Opened' BY <1>0, <1>1, <1>2, <1>3 DEF Safe, Opened
<1> QED BY <1>4, <1>5, <1>6, <1>7 DEF TokenInv, Safe

(* closesocket takes the connection out of m_connect; tst_main has its      *)
(* token and keeps it until the descriptor is closed.                       *)
LEMMA MainEraseKeeps ==
  ASSUME TokenInv, ~crashed, MainErase, UNCHANGED <<m_events, tst_socket, used, workPc, next,
         crashed>>
  PROVE  TokenInv'
<1> USE ServerAssumption
<1>0. Placed /\ Safe BY DEF TokenInv
<1>1. mainPc = "erase" /\ mainPc' = "close" /\ UNCHANGED <<event, interest, open, made, backlog>>
      /\ given' = [sd |-> event[1], conn |-> m_connect[event[1]]]
      /\ m_connect' = [m_connect EXCEPT ![event[1]] = NULL]
  BY DEF MainErase, Goto, trafficVars, Erase
<1>2. event[1] \in Sd BY <1>0, <1>1 DEF Safe, Linked, AtHand
<1>3. \A t \in Sd : (Armed(t)' <=> Armed(t)) /\ (InMain(t)' <=> InMain(t))
  BY <1>1 DEF Armed, InMain, AtHand
<1>4. \A w \in Worker, t \in Sd : Holds(w, t)' <=> Holds(w, t)
  BY DEF Holds, Works, UsesSd
<1>5. Placed' BY <1>0, <1>1, <1>2 DEF Placed, Address
<1>6. Tokens' BY <1>0, <1>3, <1>4, FewerTokens DEF Safe
<1>7. OneEvent' /\ Fresh' /\ Linked'
  BY <1>0, <1>1, <1>2 DEF Safe, OneEvent, Fresh, Linked, AtHand, UsesSd
<1>8. Opened' BY <1>0, <1>1, <1>2, <1>3, <1>4 DEF Safe, Opened, Placed
<1>9. Closing' BY <1>0, <1>1, <1>2 DEF Safe, Closing, Placed, Linked, UsesSd
<1> QED BY <1>5, <1>6, <1>7, <1>8, <1>9 DEF TokenInv, Safe

(* The token of a closed descriptor goes with it.                           *)
LEMMA MainCloseKeeps ==
  ASSUME TokenInv, ~crashed, MainClose, UNCHANGED <<m_events, tst_socket, used, workPc, next,
         crashed>>
  PROVE  TokenInv'
<1> USE ServerAssumption
<1>0. Placed /\ Safe BY DEF TokenInv
<1>1. mainPc = "close" /\ mainPc' = "delete" /\ UNCHANGED <<event, given, m_connect, made, backlog>>
      /\ interest' = [interest EXCEPT ![given.sd] = "none"] /\ open' = open \ {given.sd}
  BY DEF MainClose, Goto, Close, connVars
<1>2. given.sd = event[1] /\ given.sd \in Sd /\ InMain(given.sd) /\ m_connect[given.sd] = NULL
  BY <1>0, <1>1 DEF Safe, Linked, Closing, AtHand, InMain
<1>3. \A t \in Sd : (Armed(t)' => Armed(t)) /\ (InMain(t)' => InMain(t) /\ t # given.sd)
  <2>1. \A t \in Sd : Armed(t)' => Armed(t) BY <1>0, <1>1 DEF Armed, Placed
  <2>2. \A t : InMain(t)' <=> \E e \in m_events : e[1] = t BY <1>1 DEF InMain, AtHand
  <2>3. \A e \in m_events : e[1] # given.sd BY <1>0, <1>1, <1>2 DEF Safe, OneEvent, AtHand
  <2> QED BY <2>1, <2>2, <2>3 DEF InMain
<1>4. \A w \in Worker, t \in Sd : Holds(w, t)' <=> Holds(w, t)
  BY DEF Holds, Works, UsesSd
<1>5. Placed' BY <1>0, <1>1 DEF Placed
<1>6. Tokens' BY <1>0, <1>3, <1>4, FewerTokens DEF Safe
<1>7. OneEvent' /\ Fresh' /\ Closing' /\ Linked'
  BY <1>0, <1>1 DEF Safe, OneEvent, Fresh, Closing, Linked, AtHand, UsesSd
<1>8. ~Armed(given.sd) /\ \A w \in Worker : ~Holds(w, given.sd)
  BY <1>0, <1>2 DEF Safe, Tokens
<1>9. Opened' BY <1>0, <1>1, <1>2, <1>3, <1>4, <1>8 DEF Safe, Opened
<1> QED BY <1>5, <1>6, <1>7, <1>9 DEF TokenInv, Safe

(* Accepting and closing connections.                                       *)
LEMMA ConnectionKeeps ==
  ASSUME TokenInv, ~crashed, MainConnection
  PROVE  TokenInv'
<1>1. UNCHANGED <<m_events, tst_socket, used, workPc, next, crashed>>
  BY DEF MainConnection, shareVars, workVars
<1>2. CASE Accept BY <1>1, <1>2, AcceptKeeps
<1>3. CASE AcceptFails
  <2>1. interest' = interest BY <1>3 DEF AcceptFails
  <2>2. interest' \in [Sd \union {ListenSd} -> {"none", "off", "in", "inout"}]
    BY <2>1 DEF TokenInv, Placed
  <2> QED BY <1>1, <1>3, <2>1, <2>2, HandledKeeps DEF AcceptFails, connVars, trafficVars
<1>4. CASE AddSocket BY <1>1, <1>4, AddSocketKeeps
<1>5. CASE Connected BY <1>1, <1>5, ConnectedKeeps
<1>6. CASE Relisten
  <2>1. /\ \A t \in Sd : interest'[t] = interest[t]
        /\ interest' \in [Sd \union {ListenSd} -> {"none", "off", "in", "inout"}]
    BY <1>6, ServerAssumption DEF Relisten, Rearm, TokenInv, Placed
  <2> QED BY <1>1, <1>6, <2>1, HandledKeeps DEF Relisten, connVars, trafficVars
<1>7. CASE MainErase BY <1>1, <1>7, MainEraseKeeps
<1>8. CASE MainClose BY <1>1, <1>8, MainCloseKeeps
<1>9. CASE MainDelete
  <2>1. interest' = interest BY <1>9 DEF MainDelete
  <2>2. interest' \in [Sd \union {ListenSd} -> {"none", "off", "in", "inout"}]
    BY <2>1 DEF TokenInv, Placed
  <2> QED BY <1>1, <1>9, <2>1, <2>2, HandledKeeps DEF MainDelete, trafficVars
<1> QED BY <1>2, <1>3, <1>4, <1>5, <1>6, <1>7, <1>8, <1>9 DEF MainConnection

(* tst_main looks for the connection and for a worker, and marks it: the    *)
(* token stays.                                                             *)
LEMMA SearchKeeps ==
  ASSUME TokenInv, ~crashed, Find \/ Scan \/ Mark,
         UNCHANGED <<interest, m_connect, open, made, backlog, m_events, used, workPc, next>>
  PROVE  TokenInv'
<1> USE ServerAssumption
<1>0. Placed /\ Safe BY DEF TokenInv
<1>1. UNCHANGED <<event, tst_socket>> BY DEF Find, Scan, Mark, shareVars
<1>2. \/ /\ mainPc = "find" /\ mainPc' = "scan"
         /\ given' = [sd |-> event[1], conn |-> m_connect[event[1]]]
      \/ mainPc = "scan" /\ mainPc' \in {"mark", "loop"} /\ UNCHANGED given
      \/ mainPc = "mark" /\ mainPc' = "give" /\ UNCHANGED given
  BY DEF Find, Scan, Mark, Goto
<1>3. event[1] \in Sd BY <1>0, <1>2 DEF Safe, Linked, AtHand
<1>4. \A t \in Sd : (Armed(t)' <=> Armed(t)) /\ (InMain(t)' => InMain(t))
  BY <1>1, <1>2 DEF Armed, InMain, AtHand
<1>5. \A w \in Worker, t \in Sd : Holds(w, t)' <=> Holds(w, t)
  BY <1>1 DEF Holds, Works, UsesSd
<1>6. Placed' BY <1>0, <1>1, <1>2, <1>3 DEF Placed, Address
<1>7. Tokens' BY <1>0, <1>4, <1>5, FewerTokens DEF Safe
<1>8. OneEvent' /\ Fresh' /\ Closing'
  BY <1>0, <1>1, <1>2 DEF Safe, OneEvent, Fresh, Closing, AtHand
<1>9. Linked' BY <1>0, <1>1, <1>2, <1>3 DEF Safe, Linked, AtHand, UsesSd
<1>10. Opened' BY <1>0, <1>2, <1>4, <1>5 DEF Safe, Opened
<1> QED BY <1>6, <1>7, <1>8, <1>9, <1>10 DEF TokenInv, Safe

(* The token goes from tst_main to the worker.                              *)
LEMMA GiveKeeps ==
  ASSUME TokenInv, ~crashed, Give,
         UNCHANGED <<interest, m_connect, open, made, backlog, m_events, used, workPc, next, crashed>>
  PROVE  TokenInv'
<1> USE ServerAssumption
<1>0. Placed /\ Safe BY DEF TokenInv
<1>1. mainPc = "give" /\ mainPc' = "loop" /\ event' = NULL /\ given' = None
      /\ tst_socket' = [tst_socket EXCEPT ![target] = given]
  BY DEF Give, Handled, Goto
<1>2. given.sd \in Sd /\ given.sd = event[1] /\ InMain(given.sd)
  BY <1>0, <1>1 DEF Safe, Linked, AtHand, InMain
<1>3. \A t \in Sd : InMain(t)' => InMain(t) /\ t # given.sd
  <2>1. \A t : InMain(t)' <=> \E e \in m_events : e[1] = t BY <1>1 DEF InMain, AtHand
  <2>2. \A e \in m_events : e[1] # given.sd BY <1>0, <1>1, <1>2 DEF Safe, OneEvent, AtHand
  <2> QED BY <2>1, <2>2 DEF InMain
<1>4. \A t \in Sd : Armed(t)' <=> Armed(t) BY DEF Armed
<1>5. \A w \in Worker, t \in Sd : Holds(w, t)' => Holds(w, t) \/ (w = target /\ t = given.sd)
  BY <1>0, <1>1 DEF Holds, Works, UsesSd, Placed
<1>6. ~Armed(given.sd) /\ \A w \in Worker : ~Holds(w, given.sd)
  BY <1>0, <1>2 DEF Safe, Tokens
<1>7. Placed' BY <1>0, <1>1 DEF Placed, Address, None
<1>8. Tokens' BY <1>0, <1>3, <1>4, <1>5, <1>6 DEF Safe, Tokens
<1>9. OneEvent' /\ Fresh' /\ Closing' BY <1>0, <1>1 DEF Safe, OneEvent, Fresh, Closing, AtHand
<1>10. Opened' BY <1>0, <1>1, <1>2, <1>3, <1>4, <1>5 DEF Safe, Opened
<1>11. Linked'
  <2>1. \A w \in Worker : tst_socket'[w] = tst_socket[w] \/ tst_socket'[w] = given
    BY <1>0, <1>1 DEF Placed
  <2> QED BY <1>0, <1>1, <1>2, <2>1 DEF Safe, Linked, AtHand, UsesSd
<1> QED BY <1>7, <1>8, <1>9, <1>10, <1>11 DEF TokenInv, Safe

(* tst_main, its shutdown included, which passes no token.                  *)
LEMMA MainKeeps ==
  ASSUME TokenInv, ~crashed, Main
  PROVE  TokenInv'
<1>1. CASE MainTake
  <2>1. UNCHANGED <<m_connect, open, given, tst_socket, used, workPc, next, crashed, made, backlog>>
    BY <1>1 DEF MainTake, connVars, trafficVars, handVars, shareVars, workVars
  <2> QED BY <1>1, <2>1, FetchKeeps, PickKeeps DEF MainTake
<1>2. CASE MainConnection BY <1>2, ConnectionKeeps
<1>3. CASE MainHand
  <2>1. UNCHANGED <<interest, m_connect, open, made, backlog, m_events, used, workPc, next>>
    BY <1>3 DEF MainHand, connVars, trafficVars, workVars
  <2>2. CASE Find \/ Scan \/ Mark BY <2>1, <2>2, SearchKeeps
  <2>3. CASE Give BY <2>1, <2>3, GiveKeeps DEF Give
  <2> QED BY <1>3, <2>2, <2>3 DEF MainHand
<1>4. CASE MainEnd
  <2>0. Placed /\ Safe BY DEF TokenInv
  <2>1. UNCHANGED <<interest, m_connect, open, made, backlog, m_events, event, given, tst_socket,
                    used, workPc, next, crashed>>
    BY <1>4 DEF MainEnd, connVars, trafficVars, eventVars, handVars, workVars
  <2>2. mainPc' \in {"tell", "wait", "kill", "done"} /\ mainPc # "done"
    BY <1>4 DEF MainEnd, MainStop, Tell, Reap, Kill, Goto
  <2>3. \A t \in Sd : (Armed(t)' <=> Armed(t)) /\ (InMain(t)' => InMain(t))
    BY <2>1, <2>2 DEF Armed, InMain, AtHand
  <2>4. \A w \in Worker, t \in Sd : Holds(w, t)' <=> Holds(w, t)
    BY <2>1 DEF Holds, Works, UsesSd
  <2>5. Placed' BY <2>0, <2>1 DEF Placed
  <2>6. Tokens' BY <2>0, <2>3, <2>4, FewerTokens DEF Safe
  <2>7. OneEvent' /\ Fresh' /\ Closing' /\ Linked'
    BY <2>0, <2>1, <2>2 DEF Safe, OneEvent, Fresh, Closing, Linked, AtHand, UsesSd
  <2>8. Opened' BY <2>0, <2>1, <2>2, <2>3, <2>4 DEF Safe, Opened
  <2> QED BY <2>5, <2>6, <2>7, <2>8 DEF TokenInv, Safe
<1> QED BY <1>1, <1>2, <1>3, <1>4 DEF Main

----------------------------------------------------------------------------
(* The clients and the owner                                                *)

(* Clients send and hang up, they have no tokens.                           *)
LEMMA ClientKeeps ==
  ASSUME TokenInv, Client
  PROVE  TokenInv'
<1>1. UNCHANGED tokenVars
  BY DEF Client, tokenVars, connVars, eventVars, handVars, shareVars, workVars
<1>2. made' \in Int /\ backlog' \in Int
  BY DEF Client, Connect, Send, HangUp, TokenInv, Placed
<1> QED BY <1>1, <1>2, KeepTokens

(* destroy closes what is left after tst_main has ended and no worker goes  *)
(* on.                                                                      *)
LEMMA OwnerKeeps ==
  ASSUME TokenInv, ~crashed, Owner
  PROVE  TokenInv'
<1>0. UNCHANGED <<made, backlog, m_events, event, given, mainPc, tst_socket, used, workPc, next, crashed>>
  BY DEF Owner, trafficVars, eventVars, handVars, shareVars, workVars
<1>1. CASE Interrupt \/ Destroy
  <2>1. UNCHANGED tokenVars BY <1>0, <1>1 DEF Interrupt, Destroy, connVars, tokenVars
  <2> QED BY <1>0, <2>1, KeepTokens DEF TokenInv, Placed
<1>2. CASE DestroyJoin
  <2>0. Placed /\ Safe BY DEF TokenInv
  <2>1. mainPc = "done" BY <1>2 DEF DestroyJoin
  <2>2. PICK left \in SUBSET Sd :
          /\ open' = open \ left
          /\ interest' = [s \in DOMAIN interest |-> IF s \in left THEN "none" ELSE interest[s]]
          /\ m_connect' = [s \in Sd |-> NULL]
    BY <1>2 DEF DestroyJoin
  <2>3. Placed' BY <1>0, <2>0, <2>2 DEF Placed
  <2>4. \A t \in Sd : (Armed(t)' => Armed(t)) /\ (InMain(t)' <=> InMain(t))
    BY <1>0, <2>0, <2>2 DEF Armed, InMain, AtHand, Placed
  <2>5. \A w \in Worker, t \in Sd : Holds(w, t)' <=> Holds(w, t)
    BY <1>0 DEF Holds, Works, UsesSd
  <2>6. Tokens' BY <2>0, <2>4, <2>5, FewerTokens DEF Safe
  <2>7. OneEvent' /\ Fresh' /\ Opened' /\ Linked'
    BY <1>0, <2>0, <2>1 DEF Safe, OneEvent, Fresh, Opened, Linked, AtHand, UsesSd
  <2>8. Closing' BY <1>0, <2>0, <2>1, <2>2 DEF Safe, Closing, Linked, UsesSd
  <2> QED BY <2>3, <2>6, <2>7, <2>8 DEF TokenInv, Safe
<1> QED BY <1>1, <1>2 DEF Owner

----------------------------------------------------------------------------
(* The workers.  A step of worker w leaves tst_main's events alone:         *)
(* what is left to show is what it does with the token w holds.             *)

workFrame == <<event, m_events, given, mainPc, made, backlog>>

(* A step that moves w's token nowhere but, at most, to nobody.             *)
LEMMA WorkerStep ==
  ASSUME NEW w \in Worker, Placed, Safe, Placed', UNCHANGED workFrame,
         UNCHANGED <<interest, m_connect, open>>,
         \A v \in Worker, s \in Sd : Holds(v, s)' => Holds(v, s),
         workPc'[w] # "close", \A v \in Worker \ {w} : UNCHANGED <<workPc[v], used[v]>>,
         Linked'
  PROVE  Safe'
<1>1. \A s \in Sd : (Armed(s)' <=> Armed(s)) /\ (InMain(s)' <=> InMain(s))
  BY DEF workFrame, Armed, InMain, AtHand
<1>2. Tokens' BY <1>1, FewerTokens DEF Safe
<1>3. OneEvent' BY DEF workFrame, Safe, OneEvent, AtHand
<1>4. Opened' BY <1>1 DEF workFrame, Safe, Opened
<1>5. Fresh' BY <1>1 DEF workFrame, Safe, Fresh, Placed
<1>6. Closing' BY DEF workFrame, Safe, Closing
<1> QED BY <1>2, <1>3, <1>4, <1>5, <1>6 DEF Safe

(* A worker with no connection waits, looks at its state, or ends.          *)
LEMMA SleepKeeps ==
  ASSUME NEW w \in Worker, TokenInv, ~crashed, WorkSleep(w) \/ WorkLast(w), UNCHANGED workFrame
  PROVE  TokenInv'
<1> USE ServerAssumption
<1>0. Placed /\ Safe BY DEF TokenInv
<1>1. UNCHANGED <<interest, m_connect, open, tst_socket, used, next, crashed>>
  BY DEF WorkSleep, WorkLast, WorkLoop, Sleep, Wake, Look, Else, Idle, Reset, connVars, shareVars
<1> DEFINE Quiet == {"loop", "lock", "wait", "look", "else", "idle", "reset", "take", "last", "gone"}
<1>2. PICK l \in Quiet : workPc' = [workPc EXCEPT ![w] = l]
  BY DEF WorkSleep, WorkLast, WorkLoop, Sleep, Wake, Look, Else, Idle, Reset, Step
<1>3. workPc[w] \in Quiet
  BY DEF WorkSleep, WorkLast, WorkLoop, Sleep, Wake, Look, Else, Idle, Reset
<1>4. \A v \in Worker, s \in Sd : Holds(v, s)' <=> Holds(v, s)
  BY <1>0, <1>1, <1>2, <1>3 DEF Holds, Works, UsesSd, Placed
<1>5. Placed' BY <1>0, <1>1, <1>2 DEF Placed, workFrame
<1>6. Linked' BY <1>0, <1>1, <1>2, <1>3 DEF Safe, Linked, AtHand, UsesSd, Placed, workFrame
<1>7. workPc'[w] # "close" /\ \A v \in Worker \ {w} : UNCHANGED <<workPc[v], used[v]>>
  BY <1>0, <1>1, <1>2 DEF Placed
<1> QED BY <1>0, <1>1, <1>4, <1>5, <1>6, <1>7, WorkerStep DEF TokenInv

(* socket = me->tst_socket: the token w was given becomes the one it works  *)
(* with.                                                                    *)
LEMMA TakeKeeps ==
  ASSUME NEW w \in Worker, TokenInv, ~crashed, Take(w), UNCHANGED workFrame
  PROVE  TokenInv'
<1> USE ServerAssumption
<1>0. Placed /\ Safe BY DEF TokenInv
<1>1. /\ workPc[w] = "take" /\ workPc' = [workPc EXCEPT ![w] = "job"]
      /\ used' = [used EXCEPT ![w] = tst_socket[w]] /\ crashed' = (tst_socket[w] = None)
      /\ UNCHANGED <<tst_socket, next, interest, m_connect, open>>
  BY DEF Take, Step, shareVars, connVars
<1>2. Placed' BY <1>0, <1>1 DEF Placed, workFrame
<1>3. CASE crashed' BY <1>2, <1>3 DEF TokenInv
<1>4. CASE tst_socket[w] # None
  <2>1. used[w] = None /\ tst_socket[w].sd \in Sd
    BY <1>0, <1>1, <1>4 DEF Safe, Linked, Placed, Address
  <2>2. \A v \in Worker, s \in Sd : Holds(v, s)' => Holds(v, s)
    BY <1>0, <1>1, <2>1 DEF Holds, Works, UsesSd, Placed, None
  <2>3. Linked'
    BY <1>0, <1>1, <2>1 DEF Safe, Linked, AtHand, UsesSd, Placed, workFrame
  <2>4. workPc'[w] # "close" /\ \A v \in Worker \ {w} : UNCHANGED <<workPc[v], used[v]>>
    BY <1>0, <1>1 DEF Placed
  <2> QED BY <1>0, <1>1, <1>2, <2>2, <2>3, <2>4, WorkerStep DEF TokenInv
<1> QED BY <1>1, <1>3, <1>4

(* The user function decides what w does with the connection.               *)
LEMMA JobKeeps ==
  ASSUME NEW w \in Worker, TokenInv, ~crashed, Job(w), UNCHANGED workFrame
  PROVE  TokenInv'
<1> USE ServerAssumption
<1>0. Placed /\ Safe BY DEF TokenInv
<1>1. workPc[w] = "job" /\ UNCHANGED <<tst_socket, used, interest, m_connect, open, crashed>>
  BY DEF Job, connVars
<1>2. PICK r \in Result : /\ next' = [next EXCEPT ![w] = r]
                          /\ workPc' = [workPc EXCEPT ![w] = IF r = tst_disconnect THEN "erase" ELSE "rearm"]
  BY DEF Job, Step
<1>3. \A v \in Worker : UsesSd(v)' <=> UsesSd(v)
  BY <1>0, <1>1, <1>2 DEF UsesSd, Placed
<1>4. \A v \in Worker, s \in Sd : Holds(v, s)' <=> Holds(v, s) BY <1>1, <1>3 DEF Holds, Works
<1>5. Placed' BY <1>0, <1>1, <1>2 DEF Placed, workFrame
<1>6. Linked'
  BY <1>0, <1>1, <1>2, <1>3 DEF Safe, Linked, AtHand, Placed, workFrame
<1>7. workPc'[w] # "close" /\ \A v \in Worker \ {w} : UNCHANGED <<workPc[v], used[v]>>
  BY <1>0, <1>1, <1>2 DEF Placed
<1> QED BY <1>0, <1>1, <1>4, <1>5, <1>6, <1>7, WorkerStep DEF TokenInv

(* closesocket takes the connection out of m_connect.                       *)
LEMMA WorkEraseKeeps ==
  ASSUME NEW w \in Worker, TokenInv, ~crashed, WorkErase(w), UNCHANGED workFrame
  PROVE  TokenInv'
<1> USE ServerAssumption
<1>0. Placed /\ Safe BY DEF TokenInv
<1>1. /\ workPc[w] = "erase" /\ workPc' = [workPc EXCEPT ![w] = "close"]
      /\ m_connect' = [m_connect EXCEPT ![used[w].sd] = NULL]
      /\ UNCHANGED <<tst_socket, used, next, interest, open, crashed>>
  BY DEF WorkErase, Erase, Step, shareVars
<1>2. used[w].sd \in Sd BY <1>0, <1>1 DEF Safe, Linked, UsesSd
<1>3. \A s \in Sd : (Armed(s)' <=> Armed(s)) /\ (InMain(s)' <=> InMain(s))
  BY <1>1 DEF workFrame, Armed, InMain, AtHand
<1>4. \A v \in Worker : UsesSd(v)' <=> UsesSd(v) BY <1>0, <1>1 DEF UsesSd, Placed
<1>5. \A v \in Worker, s \in Sd : Holds(v, s)' <=> Holds(v, s) BY <1>1, <1>4 DEF Holds, Works
<1>6. Placed' BY <1>0, <1>1 DEF Placed, workFrame
<1>7. Tokens' BY <1>0, <1>3, <1>5, FewerTokens DEF Safe
<1>8. OneEvent' BY <1>0 DEF workFrame, Safe, OneEvent, AtHand
<1>9. Opened' BY <1>0, <1>1, <1>2, <1>3, <1>5 DEF workFrame, Safe, Opened, Placed
<1>10. Fresh' BY <1>0, <1>1, <1>3, <1>5 DEF workFrame, Safe, Fresh, Placed
<1>11. Closing'
  <2>1. \A s \in Sd : m_connect[s] = NULL => m_connect'[s] = NULL BY <1>0, <1>1 DEF Placed
  <2>2. mainPc' = "close" => given'.sd \in Sd BY <1>0 DEF workFrame, Safe, Linked, AtHand
  <2>3. \A v \in Worker : workPc[v] = "close" => used[v].sd \in Sd BY <1>0 DEF Safe, Linked, UsesSd
  <2>4. m_connect'[used[w].sd] = NULL BY <1>0, <1>1, <1>2 DEF Placed
  <2> QED BY <1>0, <1>1, <2>1, <2>2, <2>3, <2>4 DEF workFrame, Safe, Closing, Placed
<1>12. Linked' BY <1>0, <1>1, <1>4 DEF Safe, Linked, AtHand, Placed, workFrame
<1> QED BY <1>6, <1>7, <1>8, <1>9, <1>10, <1>11, <1>12 DEF TokenInv, Safe

(* The token of a closed descriptor goes with it.                           *)
LEMMA WorkCloseKeeps ==
  ASSUME NEW w \in Worker, TokenInv, ~crashed, WorkClose(w), UNCHANGED workFrame
  PROVE  TokenInv'
<1> USE ServerAssumption
<1> DEFINE sd == used[w].sd
<1>0. Placed /\ Safe BY DEF TokenInv
<1>1. /\ workPc[w] = "close" /\ workPc' = [workPc EXCEPT ![w] = "delete"]
      /\ interest' = [interest EXCEPT ![sd] = "none"] /\ open' = open \ {sd}
      /\ UNCHANGED <<tst_socket, used, next, m_connect, crashed>>
  BY DEF WorkClose, Close, Step, shareVars, connVars
<1>2. sd \in Sd /\ Holds(w, sd) /\ m_connect[sd] = NULL
  BY <1>0, <1>1 DEF Safe, Linked, Closing, UsesSd, Holds, Works
<1>3. ~Armed(sd) /\ ~InMain(sd) /\ \A v \in Worker \ {w} : ~Holds(v, sd)
  BY <1>0, <1>2 DEF Safe, Tokens
<1>4. \A s \in Sd : (Armed(s)' => Armed(s)) /\ (InMain(s)' <=> InMain(s))
  BY <1>0, <1>1 DEF workFrame, Armed, InMain, AtHand, Placed
<1>5. \A v \in Worker, s \in Sd : Holds(v, s)' => Holds(v, s)
  BY <1>0, <1>1 DEF Holds, Works, UsesSd, Placed
<1>6. ~Holds(w, sd)' BY <1>0, <1>1 DEF Holds, Works, UsesSd, Placed
<1>7. Placed' BY <1>0, <1>1, <1>2 DEF Placed, workFrame
<1>8. Tokens' BY <1>0, <1>4, <1>5, FewerTokens DEF Safe
<1>9. OneEvent' BY <1>0 DEF workFrame, Safe, OneEvent, AtHand
<1>10. Opened'
  <2>1. ~(Armed(sd)' \/ InMain(sd)' \/ m_connect'[sd] # NULL \/ \E v \in Worker : Holds(v, sd)')
    BY <1>1, <1>2, <1>3, <1>4, <1>5, <1>6
  <2> QED BY <1>0, <1>1, <1>4, <1>5, <2>1 DEF workFrame, Safe, Opened
<1>11. Fresh' BY <1>0, <1>1, <1>2, <1>4, <1>5 DEF workFrame, Safe, Fresh, Placed
<1>12. Closing' BY <1>0, <1>1 DEF workFrame, Safe, Closing, Placed
<1>13. Linked' BY <1>0, <1>1 DEF Safe, Linked, AtHand, UsesSd, Placed, workFrame
<1> QED BY <1>7, <1>8, <1>9, <1>10, <1>11, <1>12, <1>13 DEF TokenInv, Safe

(* The object is deleted, the new state is written, or the worker lets go   *)
(* of the connection: it has no token for it any more.                      *)
LEMMA LetGoKeeps ==
  ASSUME NEW w \in Worker, TokenInv, ~crashed, WorkDelete(w) \/ Settle(w) \/ Clear(w),
         UNCHANGED workFrame
  PROVE  TokenInv'
<1> USE ServerAssumption
<1>0. Placed /\ Safe BY DEF TokenInv
<1>1. UNCHANGED <<interest, m_connect, open, next, crashed>>
  BY DEF WorkDelete, Settle, Clear, connVars
<1>2. \/ /\ workPc[w] = "delete" /\ workPc' = [workPc EXCEPT ![w] = "rearm"]
         /\ next[w] = tst_disconnect /\ UNCHANGED <<tst_socket, used>>
      \/ /\ workPc[w] = "settle" /\ workPc' = [workPc EXCEPT ![w] = "clear"]
         /\ UNCHANGED <<tst_socket, used>>
      \/ /\ workPc[w] = "clear" /\ workPc' = [workPc EXCEPT ![w] = "loop"]
         /\ tst_socket' = [tst_socket EXCEPT ![w] = None] /\ used' = [used EXCEPT ![w] = None]
  BY <1>0 DEF WorkDelete, Settle, Clear, Step, shareVars, Safe, Linked
<1>3. Placed'
  <2>1. None \in Address BY DEF Address, None
  <2> QED BY <1>0, <1>1, <1>2, <2>1 DEF Placed, workFrame
<1>4. \A v \in Worker \ {w} : UNCHANGED <<workPc[v], used[v], tst_socket[v], next[v]>>
  BY <1>0, <1>1, <1>2 DEF Placed
<1>5. \A v \in Worker, s \in Sd : Holds(v, s)' => Holds(v, s)
  <2>1. \A v \in Worker \ {w}, s \in Sd : Holds(v, s)' => Holds(v, s)
    BY <1>4 DEF Holds, Works, UsesSd
  <2>2. ~UsesSd(w)' BY <1>0, <1>1, <1>2 DEF UsesSd, Placed
  <2>3. (UNCHANGED <<tst_socket[w], used[w]>>) \/ (tst_socket'[w] = None /\ used'[w] = None)
    BY <1>0, <1>2 DEF Placed
  <2>4. \A s \in Sd : Holds(w, s)' => Holds(w, s) BY <2>2, <2>3 DEF Holds, Works, None
  <2> QED BY <2>1, <2>4
<1>6. Linked'
  BY <1>0, <1>1, <1>2, <1>4 DEF Safe, Linked, AtHand, UsesSd, Placed, workFrame
<1>7. workPc'[w] # "close" BY <1>0, <1>2 DEF Placed
<1> QED BY <1>0, <1>1, <1>3, <1>4, <1>5, <1>6, <1>7, WorkerStep DEF TokenInv

(* EPOLL_CTL_MOD gives the token back to epoll; a worker that has closed    *)
(* its connection has none, and re-arms nothing.                            *)
LEMMA RearmKeeps ==
  ASSUME StaleSd \subseteq {NULL}, NEW w \in Worker, TokenInv, ~crashed, WorkRearm(w),
         UNCHANGED workFrame
  PROVE  TokenInv'
<1> USE ServerAssumption
<1>0. Placed /\ Safe BY DEF TokenInv
<1>1. /\ workPc[w] = "rearm" /\ workPc' = [workPc EXCEPT ![w] = "settle"]
      /\ next' = [next EXCEPT ![w] = tst_suspend]
      /\ UNCHANGED <<tst_socket, used, m_connect, open, crashed>>
  BY DEF WorkRearm, Step, shareVars, connVars
<1>2. Result \subseteq Int /\ tst_suspend \in Result /\ tst_suspend # tst_disconnect
  BY DEF Result, tst_suspend, tst_send, tst_disconnect
<1>3. \A v \in Worker \ {w} : UNCHANGED <<workPc[v], used[v], tst_socket[v], next[v]>>
  BY <1>0, <1>1 DEF Placed
<1>4. workPc'[w] = "settle" BY <1>0, <1>1 DEF Placed
<1>5. \A v \in Worker, s \in Sd : Holds(v, s)' => Holds(v, s)
  BY <1>1, <1>3, <1>4 DEF Holds, Works, UsesSd
<1>6. Linked'
  BY <1>0, <1>1, <1>3, <1>4 DEF Safe, Linked, AtHand, UsesSd, Placed, workFrame
<1>7. CASE next[w] = tst_disconnect
  <2>1. interest' = interest BY <1>7 DEF WorkRearm, Rearm
  <2>2. Placed' BY <1>0, <1>1, <1>2, <2>1 DEF Placed, workFrame
  <2> QED BY <1>0, <1>1, <1>3, <1>4, <1>5, <1>6, <2>1, <2>2, WorkerStep DEF TokenInv
<1>8. CASE next[w] # tst_disconnect
  <2>1. PICK sd \in Sd : sd = used[w].sd /\ Holds(w, sd)
    BY <1>0, <1>1, <1>8 DEF Safe, Linked, UsesSd, Holds, Works
  <2>2. PICK r \in {"in", "inout"} : interest' = IF interest[sd] # "none"
                                                 THEN [interest EXCEPT ![sd] = r] ELSE interest
    <3>1. Rearm(sd, IF next[w] = tst_send THEN "inout" ELSE "in") BY <1>8, <2>1 DEF WorkRearm
    <3>2. sd # NULL BY <2>1
    <3> QED BY <3>1, <3>2 DEF Rearm
  <2>3. Placed' BY <1>0, <1>1, <1>2, <2>1, <2>2 DEF Placed, workFrame
  <2>4. \A s \in Sd : (Armed(s)' => Armed(s) \/ s = sd) /\ (InMain(s)' <=> InMain(s))
    BY <1>0, <2>1, <2>2 DEF workFrame, Armed, InMain, AtHand, Placed
  <2>5. ~InMain(sd) /\ \A v \in Worker \ {w} : ~Holds(v, sd) BY <1>0, <2>1 DEF Safe, Tokens
  <2>6. ~Holds(w, sd)' BY <1>1, <1>4, <2>1 DEF Holds, Works, UsesSd
  <2>7. Tokens' BY <1>0, <1>5, <2>4, <2>5, <2>6 DEF Safe, Tokens
  <2>8. OneEvent' BY <1>0 DEF workFrame, Safe, OneEvent, AtHand
  <2>9. Opened' BY <1>0, <1>1, <1>5, <2>1, <2>4 DEF workFrame, Safe, Opened
  <2>10. Fresh' BY <1>0, <1>1, <1>5, <2>1, <2>4 DEF workFrame, Safe, Fresh, Placed
  <2>11. Closing' BY <1>0, <1>1, <1>3, <1>4 DEF workFrame, Safe, Closing
  <2> QED BY <1>6, <2>3, <2>7, <2>8, <2>9, <2>10, <2>11 DEF TokenInv, Safe
<1> QED BY <1>7, <1>8

(* Every step of a worker.                                                  *)
LEMMA WorkKeeps ==
  ASSUME StaleSd \subseteq {NULL}, NEW w \in Worker, TokenInv, ~crashed, Work(w) \/ Timeout(w)
  PROVE  TokenInv'
<1>1. UNCHANGED workFrame
  BY DEF Work, Timeout, WorkFrame, workFrame, eventVars, handVars
<1>2. CASE Work(w)
  BY <1>1, <1>2, SleepKeeps, TakeKeeps, JobKeeps, WorkEraseKeeps, WorkCloseKeeps, LetGoKeeps,
     RearmKeeps DEF Work
<1>3. CASE Timeout(w)
  <2>1. UNCHANGED tokenVars BY <1>1, <1>3 DEF Timeout, tokenVars, workFrame, workVars, connVars
  <2>2. made' \in Int /\ backlog' \in Int BY <1>1 DEF workFrame, TokenInv, Placed
  <2> QED BY <2>1, <2>2, KeepTokens
<1> QED BY <1>2, <1>3

----------------------------------------------------------------------------
(* The server                                                               *)

(* Every step leaves each token where it is or passes it on.                *)
LEMMA NextKeeps ==
  ASSUME StaleSd \subseteq {NULL}, TokenInv, [Next]_vars
  PROVE  TokenInv'
<1>1. CASE UNCHANGED vars
  <2>1. UNCHANGED tokenVars /\ UNCHANGED <<made, backlog>>
    BY <1>1 DEF vars, tokenVars, connVars, trafficVars, eventVars, handVars, shareVars, workVars
  <2> QED BY <2>1, KeepTokens DEF TokenInv, Placed
<1>2. CASE ~crashed /\ Main BY <1>2, MainKeeps
<1>3. CASE ~crashed /\ (Client \/ Owner) BY <1>3, ClientKeeps, OwnerKeeps
<1>4. CASE ~crashed /\ \E w \in Worker : Work(w) \/ Timeout(w) BY <1>4, WorkKeeps
<1> QED BY <1>1, <1>2, <1>3, <1>4 DEF Next, Stopped

(* A worker that needs its descriptor has its token.                        *)
LEMMA TokenQuiet ==
  ASSUME TokenInv
  PROVE  QuietWhileUsed
<1> SUFFICES ASSUME NEW w \in Worker, ~crashed, UsesSd(w)
             PROVE  /\ interest[used[w].sd] \notin {"in", "inout"}
                    /\ used[w].sd \notin PendingSd
                    /\ \A v \in Worker \ {w} : UsesSd(v) => used[v].sd # used[w].sd
  BY DEF QuietWhileUsed
<1> DEFINE sd == used[w].sd
<1>1. Tokens /\ Linked BY DEF TokenInv, Safe
<1>2. sd \in Sd /\ Holds(w, sd) BY <1>1 DEF Linked, Holds, Works
<1>3. ~Armed(sd) /\ ~InMain(sd) BY <1>1, <1>2 DEF Tokens
<1>4. sd \notin PendingSd BY <1>3 DEF PendingSd, InMain, AtHand
<1>5. \A v \in Worker \ {w} : UsesSd(v) => used[v].sd # sd
  BY <1>1, <1>2 DEF Tokens, Holds, Works
<1> QED BY <1>3, <1>4, <1>5 DEF Armed

(* "No event occurs for a socket that is being used" (tst.cpp:368): while a *)
(* worker needs its descriptor, epoll does not report it, no event that     *)
(* tst_main has fetched names it, and no other worker has it; for any       *)
(* workers, descriptors, clients and user functions, as long as the memory  *)
(* of a deleted TST_SOCKET does not name a descriptor (StaleSd).            *)
THEOREM QuietSafe ==
  ASSUME StaleSd \subseteq {NULL}
  PROVE  Spec => []QuietWhileUsed
<1>1. Init => TokenInv BY InitTokens
<1>2. TokenInv /\ [Next]_vars => TokenInv' BY NextKeeps
<1>3. TokenInv => QuietWhileUsed BY TokenQuiet
<1> QED BY <1>1, <1>2, <1>3, PTL DEF Spec

----------------------------------------------------------------------------
(* The end: a worker that tst_main does not wait for any more has been told *)
(* to exit, or is on its way out of its loop.                               *)

WorkLabel == {"loop", "lock", "wait", "look", "else", "idle", "reset", "take", "job", "erase",
              "close", "delete", "rearm", "settle", "clear", "last", "gone"}
Ending == {"tell", "wait", "kill", "done"}
AtWork == {"take", "job", "erase", "close", "delete", "rearm", "settle"}
Ended(w) == thread_stat[w] >= tst_exit \/ workPc[w] \in {"reset", "clear", "loop", "last", "gone"}

EndInv ==
  /\ thread_stat \in [Worker -> TST_STAT]
  /\ workPc \in [Worker -> WorkLabel]
  /\ szThreadStatus \subseteq Worker
  /\ m_main_run => mainPc \notin Ending
  /\ mainPc \in Ending => ~m_work_run
  /\ mainPc \notin Ending => szThreadStatus = {}
  /\ \A w \in Worker : workPc[w] \in AtWork => thread_stat[w] = tst_run
  /\ next \in [Worker -> Result]
  /\ \A w \in Worker : workPc[w] = "settle" => next[w] = tst_suspend
  /\ destroyPc = "join" => /\ m_endwaittime = 1
                           /\ mainPc \in {"kill", "done"} => szThreadStatus = Worker
                           /\ \A w \in szThreadStatus : Ended(w)

(* Nobody is counted at the start.                                          *)
LEMMA InitEnd == Init => EndInv
  BY DEF Init, EndInv, WorkLabel, Ending, AtWork, TST_STAT, tst_suspend, Result

(* Only a turn of the wait counts workers.                                  *)
LEMMA MainEndKeeps ==
  ASSUME ~EndWaitExpires, EndInv, MainEnd
  PROVE  EndInv'
<1> USE DEF EndInv, Ending, AtWork, Ended, TST_STAT, tst_suspend, tst_run, tst_exit, tst_exited
<1>1. UNCHANGED <<workPc, next, m_main_run, m_endwaittime, destroyPc>> BY DEF MainEnd, workVars
<1>2. CASE MainStop BY <1>1, <1>2 DEF MainStop, Goto, endVars
<1>3. CASE Tell
  <2>1. PICK w \in Worker : thread_stat' = IF thread_stat[w] < tst_run
                              THEN [thread_stat EXCEPT ![w] = tst_exit] ELSE thread_stat
    BY <1>3 DEF Tell
  <2>2. mainPc = "tell" /\ mainPc' \in {"tell", "wait"} /\ UNCHANGED <<m_work_run, szThreadStatus>>
    BY <1>3 DEF Tell, Goto
  <2>3. \A v \in Worker : thread_stat'[v] = thread_stat[v]
                          \/ (thread_stat[v] < tst_run /\ thread_stat'[v] = tst_exit)
    BY <2>1
  <2>4. thread_stat' \in [Worker -> TST_STAT] BY <2>1
  <2> QED BY <1>1, <2>2, <2>3, <2>4
<1>4. CASE Reap
  <2>1. mainPc = "wait" /\ UNCHANGED <<m_work_run, thread_stat>> BY <1>4 DEF Reap
  <2>2. PICK late \in SUBSET Worker :
          /\ IF m_endwaittime = 0 THEN late = Worker ELSE late # {} => EndWaitExpires
          /\ szThreadStatus' = szThreadStatus \union late
                               \union {w \in Worker : thread_stat[w] >= tst_exit}
    BY <1>4 DEF Reap
  <2>3. mainPc' = IF szThreadStatus' = Worker THEN "kill" ELSE "wait" BY <1>4 DEF Reap, Goto
  <2>4. m_endwaittime = 1 => late = {} BY <2>2
  <2> QED BY <1>1, <2>1, <2>2, <2>3, <2>4
<1>5. CASE Kill BY <1>1, <1>5 DEF Kill, Goto
<1> QED BY <1>2, <1>3, <1>4, <1>5 DEF MainEnd

(* Until it stops, tst_main counts nobody.                                  *)
LEMMA MainEndInv ==
  ASSUME ~EndWaitExpires, EndInv, Main
  PROVE  EndInv'
<1> USE DEF EndInv, Ending, AtWork, Ended, TST_STAT, tst_suspend, tst_run, tst_exit, tst_exited
<1>1. CASE MainTake \/ MainConnection
  <2>1. UNCHANGED <<m_main_run, m_work_run, m_endwaittime, thread_stat, workPc, next,
                  szThreadStatus, destroyPc>>
    BY <1>1 DEF MainTake, MainConnection, runVars, shareVars, workVars, endVars
  <2>2. mainPc \notin Ending /\ mainPc' \notin Ending
    BY <1>1 DEF MainTake, MainConnection, Fetch, Pick, Accept, AcceptFails, AddSocket, Connected,
                Relisten, MainErase, MainClose, MainDelete, Handled, Goto
  <2> QED BY <2>1, <2>2
<1>2. CASE MainHand
  <2>1. UNCHANGED <<m_main_run, m_work_run, m_endwaittime, workPc, next, szThreadStatus, destroyPc>>
    BY <1>2 DEF MainHand, runVars, workVars, endVars
  <2>2. mainPc \notin Ending /\ mainPc' \notin Ending
    BY <1>2 DEF MainHand, Find, Scan, Mark, Give, Handled, Goto
  <2>3. thread_stat' = thread_stat \/ thread_stat' = [thread_stat EXCEPT ![target] = tst_run]
    BY <1>2 DEF MainHand, Find, Scan, Mark, Give, shareVars
  <2>4. thread_stat' \in [Worker -> TST_STAT]
        /\ \A w \in Worker : thread_stat'[w] \in {thread_stat[w], tst_run}
    BY <2>3
  <2> QED BY <2>1, <2>2, <2>4
<1>3. CASE MainEnd BY <1>3, MainEndKeeps
<1> QED BY <1>1, <1>2, <1>3 DEF Main

(* A worker that was told to exit takes nothing any more.                   *)
LEMMA WorkEndInv ==
  ASSUME NEW w \in Worker, EndInv, Work(w) \/ Timeout(w)
  PROVE  EndInv'
<1> USE DEF WorkLabel, Ending, AtWork, Ended, TST_STAT, tst_suspend, tst_run, tst_exit, tst_exited
<1>1. UNCHANGED <<m_main_run, m_work_run, m_endwaittime, szThreadStatus, destroyPc, mainPc>>
  BY DEF Work, Timeout, WorkFrame, runVars, endVars
<1>2. SUFFICES
        /\ thread_stat' \in [Worker -> TST_STAT]
        /\ workPc' \in [Worker -> WorkLabel]
        /\ \A v \in Worker \ {w} : UNCHANGED <<thread_stat[v], workPc[v], next[v]>>
        /\ workPc'[w] \in AtWork => thread_stat'[w] = tst_run
        /\ next' \in [Worker -> Result] /\ (workPc'[w] = "settle" => next'[w] = tst_suspend)
        /\ ~m_work_run /\ Ended(w) => Ended(w)'
  BY <1>1 DEF EndInv
<1> USE DEF EndInv
<1>3. CASE WorkSleep(w) \/ WorkLast(w)
  BY <1>3 DEF WorkSleep, WorkLast, WorkLoop, Sleep, Wake, Look, Else, Idle, Reset, Step, SetStat,
              shareVars
<1>0. tst_suspend \in Result /\ FuncResult \subseteq Result BY ServerAssumption DEF Result
<1>4. CASE Take(w) \/ Job(w) \/ WorkErase(w) \/ WorkClose(w) \/ WorkDelete(w) \/ WorkRearm(w) \/ Clear(w)
  BY <1>0, <1>4 DEF Take, Job, WorkErase, WorkClose, WorkDelete, WorkRearm, Clear, Step, shareVars
<1>5. CASE Settle(w) BY <1>5 DEF Settle, Step, SetStat
<1>6. CASE Timeout(w) BY <1>6 DEF Timeout, workVars
<1> QED BY <1>3, <1>4, <1>5, <1>6 DEF Work

(* A destroy that will join begins before tst_main has counted anybody.     *)
LEMMA NextEnd ==
  ASSUME ~EndWaitExpires, EndInv, [Next]_vars
  PROVE  EndInv'
<1> USE DEF EndInv, Ended
<1>1. CASE UNCHANGED vars BY <1>1 DEF vars, runVars, shareVars, workVars, endVars
<1>2. CASE Client BY <1>2 DEF Client, runVars, shareVars, workVars, endVars
<1>3. CASE Owner
  <2>1. UNCHANGED <<m_work_run, mainPc, thread_stat, workPc, next, szThreadStatus>>
    BY <1>3 DEF Owner, shareVars, workVars, endVars
  <2> QED BY <1>3, <2>1 DEF Owner, Interrupt, Destroy, DestroyJoin, Ending
<1>4. CASE Main BY <1>4, MainEndInv
<1>5. CASE \E w \in Worker : Work(w) \/ Timeout(w) BY <1>5, WorkEndInv
<1> QED BY <1>1, <1>2, <1>3, <1>4, <1>5 DEF Next, Stopped

----------------------------------------------------------------------------
(* The objects.  Who has the token of a registered descriptor has the       *)
(* object that m_connect has; an object that is not in m_connect yet, or    *)
(* any more, belongs to the one thread that accepts or closes it.           *)

accepted == made - backlog
Loose(c) == c <= accepted /\ c \notin deleted /\ \A s \in Sd : m_connect[s] # c
Known ==
  /\ deleted \subseteq Int \ {NULL} /\ \A c \in deleted : c <= accepted
  /\ \A s \in Sd : m_connect[s] # NULL => m_connect[s] <= accepted /\ m_connect[s] \notin deleted
Once == \A s, t \in Sd : m_connect[s] = m_connect[t] /\ s # t => m_connect[s] = NULL
Named ==
  /\ mainPc \in {"connected", "scan", "mark", "give"} => given.conn = m_connect[given.sd]
  /\ \A w \in Worker : UsesSd(w) /\ workPc[w] # "close" => used[w].conn = m_connect[used[w].sd]
  /\ \A w \in Worker, s \in Sd :
       tst_socket[w].sd = s /\ used[w].sd # s => tst_socket[w].conn = m_connect[s]
Apart ==
  /\ OffMain /\ given.conn # NULL => Loose(given.conn)
  /\ \A w \in Worker : Off(w) /\ used[w].conn # NULL => Loose(used[w].conn)
  /\ \A w \in Worker : OffMain /\ Off(w) /\ given.conn # NULL => given.conn # used[w].conn
  /\ \A v, w \in Worker : v # w /\ Off(v) /\ Off(w) /\ used[v].conn # NULL
                           => used[v].conn # used[w].conn

Objects == Known /\ Once /\ Named /\ Apart
ObjInv == IF crashed \/ mainPc = "done" THEN AliveWhileUsed ELSE Objects

(* No connection, no object.                                                *)
LEMMA InitObjects == Init => ObjInv
<1> SUFFICES ASSUME Init PROVE ObjInv
  OBVIOUS
<1> USE ServerAssumption DEF Init, None
<1>1. Known /\ Once BY DEF Known, Once, accepted
<1>2. Named /\ Apart BY DEF Named, Apart, OffMain, Off, UsesSd
<1> QED BY <1>1, <1>2 DEF ObjInv, Objects

(* What the invariants say of the objects in use.                           *)
LEMMA ObjectsAlive ==
  ASSUME Placed, Linked, Objects
  PROVE  AliveWhileUsed
<1> USE ServerAssumption
<1>1. \A s \in Sd : m_connect[s] \notin deleted BY DEF Objects, Known
<1>2. \A w \in Worker : UsesObject(w) => used[w].conn \notin deleted
  <2>1. \A w \in Worker : UsesSd(w) /\ workPc[w] # "close" => used[w].conn \notin deleted
    BY <1>1 DEF Linked, Objects, Named
  <2>2. \A w \in Worker : Off(w) => used[w].conn \notin deleted
    BY DEF Objects, Apart, Known, Loose
  <2> QED BY <2>1, <2>2 DEF UsesObject, UsesSd, Off
<1>3. mainPc \in {"scan", "mark", "give"} => given.conn \notin deleted
  BY <1>1 DEF Linked, Objects, Named, AtHand
<1>4. \A w \in Worker : workPc[w] \in {"wait", "look", "take"} => tst_socket[w].conn \notin deleted
  <2> SUFFICES ASSUME NEW w \in Worker, workPc[w] \in {"wait", "look", "take"}
               PROVE  tst_socket[w].conn \notin deleted
    OBVIOUS
  <2>1. CASE tst_socket[w] = None
    <3>1. tst_socket[w].conn = NULL BY <2>1 DEF None
    <3>2. NULL \notin deleted BY DEF Objects, Known
    <3> QED BY <3>1, <3>2
  <2>2. CASE tst_socket[w] # None
    <3>1. tst_socket[w].sd \in Sd BY <2>2 DEF Linked, Placed, Address
    <3>2. used[w].sd # tst_socket[w].sd
      <4>1. used[w].sd = NULL BY DEF Linked, None
      <4> QED BY <3>1, <4>1
    <3>3. tst_socket[w].conn = m_connect[tst_socket[w].sd] BY <3>1, <3>2 DEF Objects, Named
    <3> QED BY <1>1, <3>1, <3>3
  <2> QED BY <2>1, <2>2
<1> QED BY <1>2, <1>3, <1>4 DEF AliveWhileUsed

(* Steps that move no object into m_connect, out of it or to deleted.       *)
LEMMA ObjectsStay ==
  ASSUME Objects, UNCHANGED <<m_connect, deleted, accepted>>, Named',
         OffMain' => OffMain /\ given' = given,
         \A w \in Worker : Off(w)' => Off(w) /\ used'[w] = used[w]
  PROVE  Objects'
<1>1. \A c : Loose(c) => Loose(c)' BY DEF Loose
<1>2. Known' /\ Once' BY DEF Objects, Known, Once
<1>3. Apart' BY <1>1 DEF Objects, Apart
<1> QED BY <1>2, <1>3 DEF Objects

----------------------------------------------------------------------------
(* tst_main                                                                 *)

workerVars == <<tst_socket, used, workPc, next>>

(* The number of an accepted connection is new.                             *)
LEMMA AcceptObjects ==
  ASSUME TokenInv, ~crashed, Objects, Accept, UNCHANGED workerVars
  PROVE  Objects'
<1> USE ServerAssumption
<1>0. Placed /\ Safe BY DEF TokenInv
<1>1. mainPc = "accept" /\ mainPc' = "add" /\ made' = made /\ backlog' = backlog - 1
  BY DEF Accept, Goto
<1>2. PICK s \in Sd \ open :
        /\ given' = [sd |-> s, conn |-> made - backlog + 1]
        /\ m_connect[s] = NULL => UNCHANGED connVars
  BY DEF Accept
<1>3. UNCHANGED <<m_connect, deleted>> BY <1>0, <1>1, <1>2 DEF Safe, Opened, connVars
<1>4. accepted \in Int /\ accepted' = accepted + 1 /\ given'.conn = accepted + 1
  BY <1>0, <1>1, <1>2 DEF Placed, accepted
<1>5. m_connect \in [Sd -> Int \union {NULL}] /\ \A w \in Worker : used[w].conn \in Int \union {NULL}
  BY <1>0 DEF Placed, Address
<1>6. Known' BY <1>3, <1>4, <1>5 DEF Objects, Known
<1>7. Once' BY <1>3 DEF Objects, Once
<1>8. Named' BY <1>1, <1>3 DEF Objects, Named, UsesSd, workerVars
<1>9. \A w \in Worker : (Off(w)' <=> Off(w)) /\ used'[w] = used[w] BY DEF Off, workerVars
<1>10. \A w \in Worker : Off(w) /\ used[w].conn # NULL
                         => used[w].conn <= accepted /\ Loose(used[w].conn)'
  BY <1>3, <1>4, <1>5, <1>9 DEF Objects, Apart, Loose
<1>11. given'.conn # NULL => Loose(given.conn)'
  BY <1>3, <1>4, <1>5 DEF Objects, Known, Loose
<1>12. Apart' BY <1>4, <1>5, <1>9, <1>10, <1>11 DEF Objects, Apart
<1> QED BY <1>6, <1>7, <1>8, <1>12 DEF Objects

(* addsocket puts it into m_connect under a descriptor nobody uses.         *)
LEMMA AddSocketObjects ==
  ASSUME TokenInv, ~crashed, Objects, AddSocket, UNCHANGED workerVars
  PROVE  Objects'
<1> USE ServerAssumption
<1>0. Placed /\ Safe BY DEF TokenInv
<1>1. /\ mainPc = "add" /\ mainPc' = "connected"
      /\ m_connect' = [m_connect EXCEPT ![given.sd] = given.conn]
      /\ UNCHANGED <<given, deleted, made, backlog>>
  BY DEF AddSocket, Goto, trafficVars
<1>2. given.sd \in Sd /\ \A w \in Worker : ~Holds(w, given.sd)
  BY <1>0, <1>1 DEF Safe, Fresh, Placed
<1>3. \A s \in Sd : m_connect'[s] = IF s = given.sd THEN given.conn ELSE m_connect[s]
  BY <1>0, <1>1, <1>2 DEF Placed
<1>4. given.conn # NULL => Loose(given.conn) BY <1>1 DEF Objects, Apart, OffMain
<1>5. accepted' = accepted BY <1>1 DEF accepted
<1>6. Known' BY <1>1, <1>3, <1>4, <1>5 DEF Objects, Known, Loose
<1>7. Once' BY <1>3, <1>4 DEF Objects, Once, Loose
<1>8. Named'
  <2>1. \A w \in Worker : UsesSd(w) => used[w].sd \in Sd /\ used[w].sd # given.sd
    BY <1>0, <1>2 DEF Safe, Linked, Holds, Works
  <2>2. \A w \in Worker, s \in Sd : tst_socket[w].sd = s /\ used[w].sd # s => s # given.sd
    BY <1>2 DEF Holds
  <2> QED BY <1>1, <1>2, <1>3, <2>1, <2>2 DEF Objects, Named, UsesSd, workerVars
<1>9. \A w \in Worker : (Off(w)' <=> Off(w)) /\ used'[w] = used[w] BY DEF Off, workerVars
<1>10. \A w \in Worker : Off(w) /\ used[w].conn # NULL => Loose(used[w].conn)'
  <2> SUFFICES ASSUME NEW w \in Worker, Off(w), used[w].conn # NULL
               PROVE  Loose(used[w].conn)'
    OBVIOUS
  <2>1. Loose(used[w].conn) /\ used[w].conn # given.conn
    BY <1>1 DEF Objects, Apart, OffMain
  <2> QED BY <1>1, <1>3, <1>5, <1>9, <2>1 DEF Loose
<1>11. Apart' BY <1>1, <1>9, <1>10 DEF Objects, Apart, OffMain
<1> QED BY <1>6, <1>7, <1>8, <1>11 DEF Objects

(* A connection that m_fconnected refuses is deleted at once.               *)
LEMMA ConnectedObjects ==
  ASSUME TokenInv, ~crashed, Objects, Connected, UNCHANGED workerVars
  PROVE  Objects'
<1> USE ServerAssumption
<1>0. Placed /\ Safe BY DEF TokenInv
<1>1. mainPc = "connected" /\ mainPc' = "relisten" /\ UNCHANGED <<given, made, backlog>>
  BY DEF Connected, Goto, trafficVars, Close
<1>2. given.sd \in Sd /\ given.conn = m_connect[given.sd] /\ \A w \in Worker : ~Holds(w, given.sd)
  BY <1>0, <1>1 DEF Safe, Fresh, Placed, Objects, Named
<1>3. accepted' = accepted BY <1>1 DEF accepted
<1>4. \A w \in Worker : (Off(w)' <=> Off(w)) /\ used'[w] = used[w] BY DEF Off, workerVars
<1>5. CASE UNCHANGED connVars
  <2>1. Named' BY <1>1, <1>5 DEF Objects, Named, UsesSd, workerVars, connVars
  <2>2. ~OffMain' BY <1>1 DEF OffMain
  <2> QED BY <1>3, <1>4, <1>5, <2>1, <2>2, ObjectsStay DEF connVars
<1>6. CASE Erase(given.sd) /\ Delete(given.conn)
  <2>1. \A s \in Sd : m_connect'[s] = IF s = given.sd THEN NULL ELSE m_connect[s]
    BY <1>0, <1>6 DEF Erase, Placed
  <2>2. deleted' = deleted \union ({given.conn} \ {NULL}) BY <1>6 DEF Delete
  <2>3. \A s \in Sd : m_connect'[s] # NULL => m_connect'[s] = m_connect[s] /\ m_connect[s] # given.conn
    BY <1>2, <2>1 DEF Objects, Once
  <2>4. given.conn # NULL => given.conn \in Int /\ given.conn <= accepted
    BY <1>0, <1>2 DEF Placed, Objects, Known
  <2>5. Known' BY <1>3, <2>2, <2>3, <2>4 DEF Objects, Known
  <2>6. Once' BY <2>3 DEF Objects, Once
  <2>7. Named'
    <3>1. \A w \in Worker : UsesSd(w) => used[w].sd \in Sd /\ used[w].sd # given.sd
      BY <1>0, <1>2 DEF Safe, Linked, Holds, Works
    <3>2. \A w \in Worker, s \in Sd : tst_socket[w].sd = s /\ used[w].sd # s => s # given.sd
      BY <1>2 DEF Holds
    <3> QED BY <1>1, <2>1, <3>1, <3>2 DEF Objects, Named, UsesSd, workerVars
  <2>8. \A w \in Worker : Off(w) /\ used[w].conn # NULL => Loose(used[w].conn)'
    <3> SUFFICES ASSUME NEW w \in Worker, Off(w), used[w].conn # NULL
                 PROVE  Loose(used[w].conn)'
      OBVIOUS
    <3>1. Loose(used[w].conn) BY DEF Objects, Apart
    <3>2. used[w].conn # given.conn BY <1>2, <3>1 DEF Loose
    <3> QED BY <1>3, <1>4, <2>2, <2>3, <3>1, <3>2 DEF Loose
  <2>9. Apart' BY <1>1, <1>4, <2>8 DEF Objects, Apart, OffMain
  <2> QED BY <2>5, <2>6, <2>7, <2>9 DEF Objects
<1> QED BY <1>5, <1>6 DEF Connected

(* closesocket takes it out: it is tst_main's alone until it is deleted.    *)
LEMMA MainEraseObjects ==
  ASSUME TokenInv, ~crashed, Objects, MainErase, UNCHANGED workerVars
  PROVE  Objects'
<1> USE ServerAssumption
<1>0. Placed /\ Safe BY DEF TokenInv
<1>1. /\ mainPc = "erase" /\ mainPc' = "close"
      /\ given'.conn = m_connect[event[1]] /\ m_connect' = [m_connect EXCEPT ![event[1]] = NULL]
      /\ UNCHANGED <<deleted, made, backlog>>
  BY DEF MainErase, Goto, trafficVars, Erase
<1>2. PICK sd \in Sd : sd = event[1] /\ \A w \in Worker : ~Holds(w, sd)
  BY <1>0, <1>1 DEF Safe, Linked, AtHand, Tokens, InMain
<1>3. \A s \in Sd : m_connect'[s] = IF s = sd THEN NULL ELSE m_connect[s]
  BY <1>0, <1>1, <1>2 DEF Placed
<1>4. given'.conn = m_connect[sd] /\ accepted' = accepted BY <1>1, <1>2 DEF accepted
<1>5. \A c : c # NULL /\ Loose(c) => Loose(c)' BY <1>1, <1>3, <1>4 DEF Loose
<1>6. Known' /\ Once' BY <1>1, <1>3, <1>4 DEF Objects, Known, Once
<1>7. Named'
  <2>1. \A w \in Worker : UsesSd(w) => used[w].sd \in Sd /\ used[w].sd # sd
    BY <1>0, <1>2 DEF Safe, Linked, Holds, Works
  <2>2. \A w \in Worker, s \in Sd : tst_socket[w].sd = s /\ used[w].sd # s => s # sd
    BY <1>2 DEF Holds
  <2> QED BY <1>1, <1>3, <2>1, <2>2 DEF Objects, Named, UsesSd, workerVars
<1>8. \A w \in Worker : (Off(w)' <=> Off(w)) /\ used'[w] = used[w] BY DEF Off, workerVars
<1>9. \A c : c = m_connect[sd] /\ c # NULL => Loose(c)'
  <2> SUFFICES ASSUME m_connect[sd] # NULL, NEW c, c = m_connect[sd] PROVE Loose(c)'
    OBVIOUS
  <2>1. c <= accepted /\ c \notin deleted BY DEF Objects, Known
  <2>2. \A s \in Sd : m_connect'[s] # c BY <1>3 DEF Objects, Once
  <2> QED BY <1>1, <1>4, <2>1, <2>2 DEF Loose
<1>10. \A w \in Worker : Off(w) /\ used[w].conn # NULL
                         => Loose(used[w].conn)' /\ used[w].conn # m_connect[sd]
  BY <1>5, <1>8 DEF Objects, Apart, Loose
<1>11. given'.conn # NULL => Loose(given.conn)' BY <1>4, <1>9 DEF Loose
<1>12. Apart' BY <1>4, <1>8, <1>10, <1>11 DEF Objects, Apart
<1> QED BY <1>6, <1>7, <1>12 DEF Objects

(* Only tst_main has the object it deletes.                                 *)
LEMMA MainDeleteObjects ==
  ASSUME TokenInv, ~crashed, Objects, MainDelete, UNCHANGED workerVars
  PROVE  Objects'
<1> USE ServerAssumption
<1>0. Placed /\ Safe BY DEF TokenInv
<1>1. /\ mainPc = "delete" /\ mainPc' = "loop" /\ UNCHANGED <<m_connect, made, backlog>>
      /\ deleted' = deleted \union ({given.conn} \ {NULL})
  BY DEF MainDelete, Handled, Goto, trafficVars, Delete
<1>2. accepted' = accepted BY <1>1 DEF accepted
<1>3. given.conn # NULL => given.conn \in Int /\ Loose(given.conn)
  BY <1>0, <1>1 DEF Placed, Address, Objects, Apart, OffMain
<1>4. Known' BY <1>1, <1>2, <1>3 DEF Objects, Known, Loose
<1>5. Once' /\ Named' BY <1>1 DEF Objects, Once, Named, UsesSd, workerVars
<1>6. \A w \in Worker : (Off(w)' <=> Off(w)) /\ used'[w] = used[w] BY DEF Off, workerVars
<1>7. \A w \in Worker : Off(w) /\ used[w].conn # NULL => Loose(used[w].conn)'
  <2> SUFFICES ASSUME NEW w \in Worker, Off(w), used[w].conn # NULL
               PROVE  Loose(used[w].conn)'
    OBVIOUS
  <2>1. Loose(used[w].conn) /\ (given.conn # NULL => used[w].conn # given.conn)
    BY <1>1 DEF Objects, Apart, OffMain
  <2> QED BY <1>1, <1>2, <1>6, <2>1 DEF Loose
<1>8. Apart' BY <1>1, <1>6, <1>7 DEF Objects, Apart, OffMain
<1> QED BY <1>4, <1>5, <1>8 DEF Objects

(* The other steps of tst_main hand an object over, or have none.           *)
LEMMA MainObjects ==
  ASSUME TokenInv, ~crashed, ~crashed', Objects, Main
  PROVE  Objects'
<1> USE ServerAssumption
<1>0. Placed /\ Safe BY DEF TokenInv
<1>1. CASE MainTake
  <2>1. UNCHANGED <<m_connect, deleted, made, backlog, given, tst_socket, used, workPc, next>>
    BY <1>1 DEF MainTake, connVars, trafficVars, handVars, shareVars, workVars
  <2>2. mainPc' \in {"loop", "accept", "erase", "find"} BY <1>1 DEF MainTake, Fetch, Pick
  <2>3. Named' BY <2>1, <2>2 DEF Objects, Named, UsesSd
  <2> QED BY <2>1, <2>2, <2>3, ObjectsStay DEF accepted, OffMain, Off
<1>2. CASE MainConnection
  <2>1. UNCHANGED workerVars BY <1>2 DEF MainConnection, workerVars, shareVars, workVars
  <2>2. CASE AcceptFails \/ Relisten
    <3>1. mainPc' = "loop" /\ UNCHANGED <<m_connect, deleted, made, backlog>>
      BY <2>2 DEF AcceptFails, Relisten, Handled, Goto, connVars, trafficVars
    <3>2. Named' BY <2>1, <3>1 DEF Objects, Named, UsesSd, workerVars
    <3> QED BY <2>1, <3>1, <3>2, ObjectsStay DEF accepted, OffMain, Off, workerVars
  <2>3. CASE MainClose
    <3>1. mainPc = "close" /\ mainPc' = "delete" /\ UNCHANGED <<m_connect, deleted, made, backlog, given>>
      BY <2>3 DEF MainClose, Goto, Close, connVars
    <3>2. Named' BY <2>1, <3>1 DEF Objects, Named, UsesSd, workerVars
    <3> QED BY <2>1, <3>1, <3>2, ObjectsStay DEF accepted, OffMain, Off, workerVars
  <2> QED BY <1>2, <2>1, <2>2, <2>3, AcceptObjects, AddSocketObjects, ConnectedObjects,
             MainEraseObjects, MainDeleteObjects DEF MainConnection
<1>3. CASE MainHand
  <2>1. UNCHANGED <<m_connect, deleted, made, backlog, used, workPc, next>>
    BY <1>3 DEF MainHand, connVars, trafficVars, workVars
  <2>2. mainPc \in {"find", "scan", "mark", "give"} /\ mainPc' \in {"scan", "mark", "give", "loop"}
    BY <1>3 DEF MainHand, Find, Scan, Mark, Give, Handled, Goto
  <2>3. mainPc' \in {"scan", "mark", "give"} => given'.conn = m_connect[given'.sd]
    BY <1>3, <2>2 DEF MainHand, Find, Scan, Mark, Give, Handled, Goto, Objects, Named
  <2>4. \A w \in Worker, s \in Sd :
          tst_socket'[w].sd = s /\ used[w].sd # s => tst_socket'[w].conn = m_connect[s]
    <3>1. CASE Find \/ Scan \/ Mark
      BY <3>1 DEF Find, Scan, Mark, shareVars, Objects, Named
    <3>2. CASE Give
      <4>1. given.conn = m_connect[given.sd] BY <3>2 DEF Give, Objects, Named
      <4>2. \A w \in Worker : tst_socket'[w] \in {tst_socket[w], given}
        BY <1>0, <3>2 DEF Give, Placed
      <4> QED BY <4>1, <4>2 DEF Objects, Named
    <3> QED BY <1>3, <3>1, <3>2 DEF MainHand
  <2>5. Named' BY <2>1, <2>2, <2>3, <2>4 DEF Objects, Named, UsesSd
  <2> QED BY <2>1, <2>2, <2>5, ObjectsStay DEF accepted, OffMain, Off
<1>4. CASE MainEnd
  <2>1. UNCHANGED <<m_connect, deleted, made, backlog, given, tst_socket, used, workPc, next>>
    BY <1>4 DEF MainEnd, connVars, trafficVars, handVars, workVars
  <2>2. mainPc' \in Ending BY <1>4 DEF MainEnd, MainStop, Tell, Reap, Kill, Goto, Ending
  <2>3. Named' BY <2>1, <2>2 DEF Objects, Named, UsesSd, Ending
  <2> QED BY <2>1, <2>2, <2>3, ObjectsStay DEF accepted, OffMain, Off, Ending
<1> QED BY <1>1, <1>2, <1>3, <1>4 DEF Main

----------------------------------------------------------------------------
(* The workers                                                              *)

(* closesocket by a worker: the object is its alone until it is deleted.    *)
LEMMA WorkEraseObjects ==
  ASSUME NEW w \in Worker, TokenInv, ~crashed, Objects, WorkErase(w), UNCHANGED workFrame
  PROVE  Objects'
<1> USE ServerAssumption
<1>0. Placed /\ Safe BY DEF TokenInv
<1>1. /\ workPc[w] = "erase" /\ workPc' = [workPc EXCEPT ![w] = "close"]
      /\ m_connect' = [m_connect EXCEPT ![used[w].sd] = NULL]
      /\ UNCHANGED <<deleted, tst_socket, used, next>>
  BY DEF WorkErase, Erase, Step, shareVars
<1>2. PICK sd \in Sd : sd = used[w].sd /\ Holds(w, sd) /\ used[w].conn = m_connect[sd]
  BY <1>0, <1>1 DEF Safe, Linked, UsesSd, Holds, Works, Objects, Named
<1>3. ~InMain(sd) /\ \A v \in Worker \ {w} : ~Holds(v, sd) BY <1>0, <1>2 DEF Safe, Tokens
<1>4. \A s \in Sd : m_connect'[s] = IF s = sd THEN NULL ELSE m_connect[s]
  BY <1>0, <1>1, <1>2 DEF Placed
<1>5. accepted' = accepted /\ UNCHANGED <<mainPc, given>> BY DEF accepted, workFrame
<1>6. \A c : c # NULL /\ Loose(c) => Loose(c)' BY <1>1, <1>4, <1>5 DEF Loose
<1>7. Known' /\ Once' BY <1>1, <1>4, <1>5 DEF Objects, Known, Once
<1>8. Named'
  <2>1. mainPc \in {"connected", "scan", "mark", "give"} => given.sd \in Sd /\ given.sd # sd
    <3>1. CASE mainPc = "connected" BY <1>0, <1>2, <3>1 DEF Safe, Fresh, Placed
    <3>2. CASE mainPc \in {"scan", "mark", "give"}
      BY <1>0, <1>3, <3>2 DEF Safe, Linked, AtHand, InMain
    <3> QED BY <3>1, <3>2
  <2>2. \A v \in Worker : UsesSd(v)' => UsesSd(v) /\ (workPc'[v] # "close" => workPc[v] # "close")
    BY <1>0, <1>1 DEF UsesSd, Placed
  <2>3. \A v \in Worker : UsesSd(v) /\ v # w => used[v].sd \in Sd /\ used[v].sd # sd
    BY <1>0, <1>3 DEF Safe, Linked, Holds, Works
  <2>4. \A v \in Worker, s \in Sd : tst_socket[v].sd = s /\ used[v].sd # s => s # sd
    BY <1>2, <1>3 DEF Holds
  <2>5. workPc'[w] = "close" BY <1>0, <1>1 DEF Placed
  <2> QED BY <1>1, <1>4, <1>5, <2>1, <2>2, <2>3, <2>4, <2>5 DEF Objects, Named
<1>9. \A c : c = m_connect[sd] /\ c # NULL => Loose(c)'
  <2> SUFFICES ASSUME m_connect[sd] # NULL, NEW c, c = m_connect[sd] PROVE Loose(c)'
    OBVIOUS
  <2>1. c <= accepted /\ c \notin deleted BY DEF Objects, Known
  <2>2. \A s \in Sd : m_connect'[s] # c BY <1>4 DEF Objects, Once
  <2> QED BY <1>1, <1>5, <2>1, <2>2 DEF Loose
<1>10. \A v \in Worker : Off(v)' => v = w \/ Off(v) BY <1>0, <1>1 DEF Off, Placed
<1>11. \A v \in Worker : Off(v) /\ used[v].conn # NULL
                         => Loose(used[v].conn)' /\ used[v].conn # used[w].conn
  BY <1>1, <1>2, <1>6 DEF Objects, Apart, Loose
<1>12. OffMain /\ given.conn # NULL => Loose(given.conn)' /\ given.conn # used[w].conn
  BY <1>2, <1>5, <1>6 DEF Objects, Apart, Loose
<1>13. used[w].conn # NULL => Loose(used[w].conn)' BY <1>1, <1>2, <1>9 DEF Loose
<1>14. Apart' BY <1>1, <1>5, <1>10, <1>11, <1>12, <1>13 DEF Objects, Apart, OffMain
<1> QED BY <1>7, <1>8, <1>14 DEF Objects

(* Only the worker has the object it deletes.                               *)
LEMMA WorkDeleteObjects ==
  ASSUME NEW w \in Worker, TokenInv, ~crashed, Objects, WorkDelete(w), UNCHANGED workFrame
  PROVE  Objects'
<1> USE ServerAssumption
<1>0. Placed /\ Safe BY DEF TokenInv
<1>1. /\ workPc[w] = "delete" /\ workPc' = [workPc EXCEPT ![w] = "rearm"]
      /\ deleted' = deleted \union ({used[w].conn} \ {NULL})
      /\ UNCHANGED <<m_connect, tst_socket, used, next>>
  BY DEF WorkDelete, Delete, Step, shareVars
<1>2. accepted' = accepted /\ UNCHANGED <<mainPc, given>> BY DEF accepted, workFrame
<1>3. used[w].conn # NULL => used[w].conn \in Int /\ Loose(used[w].conn)
  BY <1>0, <1>1 DEF Placed, Address, Objects, Apart, Off
<1>4. Known' BY <1>1, <1>2, <1>3 DEF Objects, Known, Loose
<1>5. Once' BY <1>1 DEF Objects, Once
<1>6. Named'
  <2>1. \A v \in Worker : UsesSd(v)' => UsesSd(v) /\ workPc'[v] = workPc[v]
    BY <1>0, <1>1 DEF UsesSd, Placed, Safe, Linked
  <2> QED BY <1>1, <1>2, <2>1 DEF Objects, Named
<1>7. \A v \in Worker : Off(v)' => v # w /\ Off(v) BY <1>0, <1>1 DEF Off, Placed
<1>8. \A v \in Worker : v # w /\ Off(v) /\ used[v].conn # NULL => Loose(used[v].conn)'
  <2> SUFFICES ASSUME NEW v \in Worker, v # w, Off(v), used[v].conn # NULL
               PROVE  Loose(used[v].conn)'
    OBVIOUS
  <2>1. Loose(used[v].conn) /\ used[v].conn # used[w].conn BY <1>1 DEF Objects, Apart, Off
  <2> QED BY <1>1, <1>2, <2>1 DEF Loose
<1>9. OffMain /\ given.conn # NULL => Loose(given.conn)'
  <2> SUFFICES ASSUME OffMain, given.conn # NULL PROVE Loose(given.conn)'
    OBVIOUS
  <2>1. Loose(given.conn) /\ given.conn # used[w].conn BY <1>1 DEF Objects, Apart, Off
  <2> QED BY <1>1, <1>2, <2>1 DEF Loose
<1>10. Apart' BY <1>1, <1>2, <1>7, <1>8, <1>9 DEF Objects, Apart, OffMain
<1> QED BY <1>4, <1>5, <1>6, <1>10 DEF Objects

(* The other steps of a worker take the object that it was given, or let go *)
(* of it.                                                                   *)
LEMMA WorkObjects ==
  ASSUME NEW w \in Worker, TokenInv, ~crashed, ~crashed', Objects, Work(w) \/ Timeout(w)
  PROVE  Objects'
<1> USE ServerAssumption
<1>0. Placed /\ Safe BY DEF TokenInv
<1>1. UNCHANGED workFrame /\ accepted' = accepted
  BY DEF Work, Timeout, WorkFrame, workFrame, eventVars, handVars, accepted
<1>2. CASE \/ WorkSleep(w) \/ Timeout(w) \/ Take(w) \/ Job(w) \/ WorkClose(w) \/ WorkRearm(w)
           \/ Settle(w) \/ Clear(w) \/ WorkLast(w)
  <2>1. UNCHANGED <<m_connect, deleted>>
    BY <1>2 DEF WorkSleep, Timeout, Take, Job, WorkClose, WorkRearm, Settle, Clear, WorkLast, connVars
  <2>2. \A v \in Worker \ {w} : UNCHANGED <<workPc[v], used[v], tst_socket[v], next[v]>>
    BY <1>0, <1>2 DEF WorkSleep, Timeout, Take, Job, WorkClose, WorkRearm, Settle, Clear, WorkLast,
         WorkLoop, Sleep, Wake, Look, Else, Idle, Reset, Step, shareVars, workVars, Placed
  <2>3. Off(w)' => Off(w) /\ used'[w] = used[w]
    BY <1>0, <1>2 DEF WorkSleep, Timeout, Take, Job, WorkClose, WorkRearm, Settle, Clear, WorkLast,
         WorkLoop, Sleep, Wake, Look, Else, Idle, Reset, Step, shareVars, workVars, Placed, Off
  <2>4. /\ UsesSd(w)' /\ workPc'[w] # "close" => used'[w].conn = m_connect[used'[w].sd]
        /\ \A s \in Sd : tst_socket'[w].sd = s /\ used'[w].sd # s
                         => tst_socket'[w].conn = m_connect[s]
    <3>1. CASE WorkSleep(w) \/ Timeout(w) \/ WorkLast(w) \/ Settle(w)
      <4>1. UNCHANGED <<used, tst_socket, next>>
        BY <3>1 DEF WorkSleep, Timeout, Settle, WorkLast, WorkLoop, Sleep, Wake, Look, Else, Idle,
             Reset, shareVars, workVars
      <4>2. UsesSd(w)' => UsesSd(w) /\ workPc'[w] = workPc[w]
        BY <1>0, <3>1 DEF WorkSleep, Timeout, Settle, WorkLast, WorkLoop, Sleep, Wake, Look, Else,
             Idle, Reset, Step, shareVars, workVars, Placed, UsesSd
      <4> QED BY <4>1, <4>2 DEF Objects, Named
    <3>2. CASE Take(w)
      <4>1. tst_socket[w] # None /\ tst_socket' = tst_socket /\ used'[w] = tst_socket[w]
        BY <1>0, <3>2 DEF Take, shareVars, Placed
      <4>2. used[w].sd = NULL BY <1>0, <3>2 DEF Take, Safe, Linked, None
      <4>3. tst_socket[w].sd \in Sd BY <1>0, <4>1 DEF Safe, Linked, Placed, Address
      <4>4. tst_socket[w].conn = m_connect[tst_socket[w].sd]
        BY <4>2, <4>3 DEF Objects, Named
      <4> QED BY <4>1, <4>4
    <3>3. CASE Job(w) \/ WorkClose(w) \/ WorkRearm(w)
      <4>1. UNCHANGED <<used, tst_socket>> BY <3>3 DEF Job, WorkClose, WorkRearm, shareVars
      <4>2. UsesSd(w)' => UsesSd(w) /\ workPc[w] # "close"
        BY <1>0, <3>3 DEF Job, WorkClose, WorkRearm, Step, Placed, UsesSd, Safe, Linked
      <4> QED BY <4>1, <4>2 DEF Objects, Named
    <3>4. CASE Clear(w)
      <4>1. workPc'[w] = "loop" /\ tst_socket'[w] = None /\ used'[w] = None
        BY <1>0, <3>4 DEF Clear, Step, Placed
      <4> QED BY <4>1 DEF UsesSd, None
    <3> QED BY <1>2, <3>1, <3>2, <3>3, <3>4
  <2>5. Named' BY <1>1, <2>1, <2>2, <2>4 DEF Objects, Named, UsesSd, workFrame
  <2> QED BY <1>1, <2>1, <2>2, <2>3, <2>5, ObjectsStay DEF workFrame, OffMain, Off
<1> QED BY <1>1, <1>2, WorkEraseObjects, WorkDeleteObjects DEF Work

----------------------------------------------------------------------------
(* The server                                                               *)

aliveVars == <<deleted, workPc, used, next, mainPc, given, thread_stat, tst_socket>>

(* Steps about something else.                                              *)
LEMMA SameAlive ==
  ASSUME AliveWhileUsed, UNCHANGED aliveVars
  PROVE  AliveWhileUsed'
  BY DEF AliveWhileUsed, UsesObject, UsesSd, aliveVars

(* The step that follows a NULL pointer or the end of m_connect gives a     *)
(* thread no object.                                                        *)
LEMMA CrashAlive ==
  ASSUME TokenInv, ~crashed, crashed', Objects, AliveWhileUsed, Next
  PROVE  AliveWhileUsed'
<1> USE ServerAssumption
<1>0. Placed /\ Safe BY DEF TokenInv
<1>1. NULL \notin deleted BY DEF Objects, Known
<1>2. CASE Main
  <2>1. Find /\ crashed' = (m_connect[event[1]] = NULL)
    BY <1>2 DEF Main, MainTake, MainConnection, MainHand, MainEnd, Find, Scan, Mark, Give
  <2>2. UNCHANGED <<deleted, workPc, used, next, thread_stat, tst_socket>>
    BY <2>1, <1>2 DEF Main, MainTake, MainConnection, MainHand, MainEnd, Find, Fetch, Pick, Accept,
         AcceptFails, AddSocket, Connected, Relisten, MainErase, MainClose, MainDelete, MainStop, Tell,
         Reap, Kill, connVars, workVars, shareVars
  <2>3. given'.conn = NULL BY <2>1 DEF Find
  <2> QED BY <1>1, <2>2, <2>3 DEF AliveWhileUsed, UsesObject, UsesSd
<1>3. CASE \E w \in Worker : Work(w) \/ Timeout(w)
  <2>1. PICK w \in Worker : Take(w) /\ tst_socket[w] = None /\ WorkFrame
    BY <1>3 DEF Work, Timeout, Take, WorkSleep, Job, WorkErase, WorkClose, WorkDelete, WorkRearm,
         Settle, Clear, WorkLast
  <2>2. /\ workPc' = [workPc EXCEPT ![w] = "job"] /\ used' = [used EXCEPT ![w] = None]
        /\ UNCHANGED <<deleted, next, mainPc, given, thread_stat, tst_socket>>
    BY <2>1 DEF Take, Step, WorkFrame, shareVars, connVars, handVars
  <2>3. \A v \in Worker \ {w} : UNCHANGED <<workPc[v], used[v]>> BY <1>0, <2>2 DEF Placed
  <2>4. workPc'[w] = "job" /\ used'[w].conn = NULL BY <1>0, <2>2 DEF Placed, None
  <2> QED BY <1>1, <2>2, <2>3, <2>4 DEF AliveWhileUsed, UsesObject, UsesSd
<1>4. CASE Client \/ Owner BY <1>4 DEF Client, Owner
<1>5. ~Stopped BY DEF Stopped, vars
<1> QED BY <1>2, <1>3, <1>4, <1>5 DEF Next

(* When destroy has joined tst_main, every worker has ended or is about to: *)
(* it deletes what nobody uses.                                             *)
LEMMA JoinAlive ==
  ASSUME EndInv, AliveWhileUsed, DestroyJoin,
         UNCHANGED <<workPc, used, next, mainPc, given, thread_stat, tst_socket>>
  PROVE  AliveWhileUsed'
<1>1. mainPc = "done" /\ \A w \in Worker : Ended(w) BY DEF DestroyJoin, EndInv
<1>2. \A w \in Worker : ~UsesObject(w) BY <1>1 DEF EndInv, Ended, WorkLabel, AtWork, UsesObject, UsesSd, TST_STAT,
        tst_suspend, tst_run, tst_exit, tst_exited
<1>3. \A w \in Worker : ~(thread_stat[w] = tst_run /\ workPc[w] \in {"wait", "look", "take"})
  BY <1>1 DEF EndInv, Ended, TST_STAT, tst_suspend, tst_run, tst_exit, tst_exited
<1> QED BY <1>1, <1>2, <1>3 DEF AliveWhileUsed, UsesObject, UsesSd

(* The invariant gives the property in every state.                         *)
LEMMA ObjInvAlive ==
  ASSUME TokenInv, ObjInv
  PROVE  AliveWhileUsed
  BY ObjectsAlive DEF TokenInv, Safe, ObjInv

(* Every step hands over, takes or deletes an object that is nobody else's. *)
LEMMA NextObjects ==
  ASSUME TokenInv, EndInv, ObjInv, [Next]_vars
  PROVE  ObjInv'
<1>0. AliveWhileUsed BY ObjInvAlive
<1>1. CASE UNCHANGED vars
  <2>1. UNCHANGED <<m_connect, deleted, made, backlog, workPc, used, next, mainPc, given, thread_stat,
                    tst_socket, crashed>>
    BY <1>1 DEF vars, connVars, trafficVars, handVars, shareVars, workVars
  <2>2. Objects => Objects'
    <3>1. ASSUME Objects PROVE Named' BY <2>1, <3>1 DEF Objects, Named, UsesSd
    <3> QED BY <2>1, <3>1, ObjectsStay DEF accepted, OffMain, Off
  <2> QED BY <1>0, <2>1, <2>2, SameAlive DEF ObjInv, aliveVars
<1>2. CASE ~crashed /\ (Client \/ Interrupt \/ Destroy)
           /\ UNCHANGED <<connVars, handVars, mainPc, shareVars, workVars, crashed>>
           /\ accepted' = accepted
  <2>1. UNCHANGED <<m_connect, deleted, workPc, used, next, mainPc, given, thread_stat, tst_socket,
                    crashed>>
    BY <1>2 DEF connVars, handVars, shareVars, workVars
  <2>2. Objects => Objects'
    <3>1. ASSUME Objects PROVE Named' BY <2>1, <3>1 DEF Objects, Named, UsesSd
    <3> QED BY <1>2, <2>1, <3>1, ObjectsStay DEF OffMain, Off
  <2> QED BY <1>0, <2>1, <2>2, SameAlive DEF ObjInv, aliveVars
<1>3. CASE ~crashed /\ Owner /\ DestroyJoin
  <2>1. mainPc = "done" /\ UNCHANGED <<workPc, used, next, mainPc, given, thread_stat, tst_socket>>
    BY <1>3 DEF DestroyJoin, Owner, handVars, shareVars, workVars
  <2> QED BY <1>0, <1>3, <2>1, JoinAlive DEF ObjInv
<1>4. CASE ~crashed /\ Next /\ (Main \/ \E w \in Worker : Work(w) \/ Timeout(w))
  <2>1. mainPc # "done"
    BY <1>4 DEF Work, Timeout, Main, MainTake, MainConnection, MainHand, MainEnd, Fetch, Pick, Accept,
         AcceptFails, AddSocket, Connected, Relisten, MainErase, MainClose, MainDelete, Find, Scan,
         Mark, Give, MainStop, Tell, Reap, Kill
  <2>2. Objects BY <1>4, <2>1 DEF ObjInv
  <2>3. CASE crashed' BY <1>0, <1>4, <2>2, <2>3, CrashAlive DEF ObjInv
  <2>4. CASE ~crashed'
    <3>1. Objects' BY <1>4, <2>2, <2>4, MainObjects, WorkObjects
    <3>2. mainPc' = "done" => AliveWhileUsed'
      <4> SUFFICES ASSUME mainPc' = "done" PROVE AliveWhileUsed'
        OBVIOUS
      <4>1. Kill /\ MainEnd
        BY <1>4, <2>1 DEF Work, Timeout, WorkFrame, Main, MainTake, MainConnection, MainHand, MainEnd,
             Fetch, Pick, Accept, AcceptFails, AddSocket, Connected, Relisten, MainErase, MainClose,
             MainDelete, Find, Scan, Mark, Give, Handled, MainStop, Tell, Reap, Goto
      <4>2. UNCHANGED <<deleted, workPc, used, next, given, thread_stat, tst_socket>>
        BY <4>1 DEF Kill, MainEnd, connVars, workVars, handVars
      <4> QED BY <1>0, <4>2 DEF AliveWhileUsed, UsesObject, UsesSd
    <3> QED BY <2>4, <3>1, <3>2 DEF ObjInv
  <2> QED BY <2>3, <2>4
<1>5. Client => accepted' = accepted
  <2>1. made \in Int /\ backlog \in Int BY DEF TokenInv, Placed
  <2>2. Client => UNCHANGED <<made, backlog>> \/ (made' = made + 1 /\ backlog' = backlog + 1)
    BY DEF Client, Connect, Send, HangUp
  <2> QED BY <2>1, <2>2 DEF accepted
<1>6. Owner => accepted' = accepted BY DEF Owner, trafficVars, accepted
<1>7. CASE ~crashed /\ Client BY <1>2, <1>5, <1>7 DEF Client
<1>8. CASE ~crashed /\ Owner
  BY <1>2, <1>3, <1>6, <1>8 DEF Owner, Interrupt, Destroy
<1> QED BY <1>1, <1>4, <1>7, <1>8 DEF Next, Stopped

(* "A registered socket is not deleted while it is used" (tst.cpp:367),     *)
(* neither by tst_main, nor by another worker, nor by destroy: for any      *)
(* workers, descriptors, clients and user functions, if destroy's wait does *)
(* not run out on a worker in a job (EndWaitExpires) and the memory of a    *)
(* deleted TST_SOCKET does not name a descriptor (StaleSd).                 *)
THEOREM AliveSafe ==
  ASSUME StaleSd \subseteq {NULL}, ~EndWaitExpires
  PROVE  Spec => []AliveWhileUsed
<1> DEFINE Inv == TokenInv /\ EndInv /\ ObjInv
<1>1. Init => Inv BY InitTokens, InitEnd, InitObjects
<1>2. Inv /\ [Next]_vars => Inv' BY NextKeeps, NextEnd, NextObjects
<1>3. Inv => AliveWhileUsed BY ObjInvAlive
<1> QED BY <1>1, <1>2, <1>3, PTL DEF Spec

----------------------------------------------------------------------------
(* The listening socket                                                     *)

(* The listening socket's event is one-shot as well: it is fetched with a   *)
(* connection waiting, which only tst_main accepts, and only once.          *)
ListenInv ==
  /\ made \in 0 .. MaxConn /\ backlog \in 0 .. made
  /\ InMain(ListenSd) \/ mainPc = "accept" => interest[ListenSd] = "off" /\ backlog > 0
  /\ mainPc \in {"accept", "add", "connected", "relisten"} =>
       interest[ListenSd] = "off" /\ \A e \in m_events : e[1] # ListenSd
  /\ mainPc \in {"add", "connected"} => given.conn \in Conn

LEMMA InitListen == Init => ListenInv
<1> SUFFICES ASSUME Init PROVE ListenInv
  OBVIOUS
<1>1. 0 \in 0 .. MaxConn /\ 0 \in 0 .. 0 BY ServerAssumption
<1> QED BY <1>1 DEF Init, ListenInv, InMain, AtHand

(* Steps that take no event of the listening socket.                        *)
LEMMA ListenStays ==
  ASSUME ListenInv, UNCHANGED <<made, backlog>>, interest'[ListenSd] = interest[ListenSd],
         InMain(ListenSd)' => InMain(ListenSd),
         mainPc' \notin {"accept", "add", "connected", "relisten"}
  PROVE  ListenInv'
BY DEF ListenInv

LEMMA TakeListen ==
  ASSUME TokenInv, ~crashed, ListenInv, MainTake
  PROVE  ListenInv'
<1> USE ServerAssumption
<1>0. Placed /\ Safe BY DEF TokenInv
<1>1. UNCHANGED <<made, backlog, given>> BY DEF MainTake, trafficVars, handVars
<1>2. CASE Fetch
  <2>1. mainPc = "loop" /\ mainPc' = "loop" /\ event = NULL /\ event' = NULL
    BY <1>2 DEF Fetch
  <2>2. PICK S \in SUBSET {s \in DOMAIN interest : Ready(s)} :
          /\ m_events' = {<<s, Kind(s)>> : s \in S}
          /\ interest' = [s \in DOMAIN interest |-> IF s \in S THEN "off" ELSE interest[s]]
    BY <1>2 DEF Fetch, OneShot
  <2>3. InMain(ListenSd)' <=> \E e \in m_events' : e[1] = ListenSd
    BY <2>1 DEF InMain, AtHand
  <2>4. InMain(ListenSd)' => ListenSd \in S BY <2>2, <2>3
  <2>5. ListenSd \in S => backlog > 0 /\ interest'[ListenSd] = "off"
    BY <1>0, <2>2 DEF Ready, Placed
  <2> QED BY <1>1, <2>1, <2>4, <2>5 DEF ListenInv
<1>3. CASE Pick
  <2>1. mainPc = "loop" /\ mainPc' \in {"accept", "erase", "find"} /\ interest' = interest
        /\ (mainPc' = "accept" <=> event'[1] = ListenSd)
    BY <1>3 DEF Pick
  <2>2. \/ event # NULL /\ UNCHANGED <<m_events, event>>
        \/ event = NULL /\ event' \in m_events /\ m_events' = m_events \ {event'}
    BY <1>3 DEF Pick, eventVars
  <2>3. InMain(event'[1]) BY <2>1, <2>2 DEF InMain
  <2>4. CASE mainPc' = "accept"
    <3>1. \A e \in m_events' : e[1] # ListenSd
      BY <1>0, <2>1, <2>2, <2>4 DEF Safe, OneEvent
    <3>2. InMain(ListenSd) BY <2>1, <2>3, <2>4
    <3> QED BY <1>1, <2>1, <2>4, <3>1, <3>2 DEF ListenInv
  <2>5. CASE mainPc' # "accept"
    <3>1. InMain(ListenSd)' => InMain(ListenSd)
      BY <2>1, <2>2, <2>5 DEF InMain, AtHand
    <3> QED BY <1>1, <2>1, <2>5, <3>1, ListenStays
  <2> QED BY <2>4, <2>5
<1> QED BY <1>2, <1>3 DEF MainTake

(* accept takes one connection from the backlog; the listening socket is    *)
(* armed again after it, and stays off when accept fails.                   *)
LEMMA ConnectionListen ==
  ASSUME TokenInv, ~crashed, ListenInv, MainConnection
  PROVE  ListenInv'
<1> USE ServerAssumption
<1>0. Placed /\ Safe BY DEF TokenInv
<1>1. m_events' = m_events BY DEF MainConnection
<1>2. CASE Accept
  <2>1. mainPc = "accept" /\ mainPc' = "add" /\ UNCHANGED <<interest, made>>
        /\ backlog' = backlog - 1 /\ given'.conn = made - backlog + 1
    BY <1>2 DEF Accept, Goto
  <2>2. backlog' \in 0 .. made /\ given'.conn \in Conn BY <2>1 DEF ListenInv, Conn
  <2>3. ~InMain(ListenSd)' BY <1>1, <2>1 DEF InMain, AtHand, ListenInv
  <2> QED BY <1>1, <2>1, <2>2, <2>3 DEF ListenInv
<1>3. CASE AcceptFails \/ MainDelete
  <2>1. UNCHANGED <<made, backlog, interest>> /\ mainPc' = "loop" /\ event' = NULL
    BY <1>3 DEF AcceptFails, MainDelete, Handled, Goto, trafficVars
  <2>2. InMain(ListenSd)' => InMain(ListenSd) BY <1>1, <2>1 DEF InMain, AtHand
  <2> QED BY <2>1, <2>2, ListenStays
<1>4. CASE AddSocket \/ Connected
  <2>1. /\ \/ mainPc = "add" /\ mainPc' = "connected"
           \/ mainPc = "connected" /\ mainPc' = "relisten"
        /\ UNCHANGED <<made, backlog, given>>
    BY <1>4 DEF AddSocket, Connected, Goto, trafficVars, Close
  <2>2. given.sd \in Sd BY <1>0, <2>1 DEF Safe, Fresh, Placed
  <2>3. interest'[ListenSd] = interest[ListenSd]
    BY <1>0, <1>4, <2>2 DEF AddSocket, Connected, Close, Placed
  <2>4. ~InMain(ListenSd)' BY <1>1, <2>1 DEF InMain, AtHand, ListenInv
  <2> QED BY <1>1, <2>1, <2>3, <2>4 DEF ListenInv
<1>5. CASE Relisten
  <2>1. mainPc = "relisten" /\ mainPc' = "loop" /\ event' = NULL /\ UNCHANGED <<made, backlog>>
    BY <1>5 DEF Relisten, Handled, Goto, trafficVars
  <2>2. ~InMain(ListenSd)' BY <1>1, <2>1 DEF InMain, AtHand, ListenInv
  <2> QED BY <2>1, <2>2 DEF ListenInv
<1>6. CASE MainErase \/ MainClose
  <2>1. /\ \/ mainPc = "erase" /\ mainPc' = "close"
           \/ mainPc = "close" /\ mainPc' = "delete"
        /\ UNCHANGED <<made, backlog, event>>
    BY <1>6 DEF MainErase, MainClose, Goto, trafficVars, Close
  <2>2. mainPc = "close" => given.sd \in Sd BY <1>0 DEF Safe, Linked, AtHand
  <2>3. interest'[ListenSd] = interest[ListenSd]
    BY <1>0, <1>6, <2>2 DEF MainErase, MainClose, Close, Placed
  <2>4. InMain(ListenSd)' => InMain(ListenSd) BY <1>1, <2>1 DEF InMain, AtHand
  <2> QED BY <2>1, <2>3, <2>4, ListenStays
<1> QED BY <1>2, <1>3, <1>4, <1>5, <1>6 DEF MainConnection

(* Nobody else arms or disarms it.                                          *)
LEMMA NextListen ==
  ASSUME StaleSd \subseteq {NULL}, TokenInv, ListenInv, [Next]_vars
  PROVE  ListenInv'
<1> USE ServerAssumption
<1>1. CASE UNCHANGED vars
  BY <1>1 DEF vars, ListenInv, InMain, AtHand, trafficVars, eventVars, handVars
<1>2. CASE ~crashed /\ Main
  <2>0. Placed /\ Safe BY <1>2 DEF TokenInv
  <2>1. CASE MainHand
    <3>1. UNCHANGED <<made, backlog, interest, m_events>> BY <2>1 DEF MainHand, trafficVars
    <3>2. mainPc \in {"find", "scan", "mark", "give"} /\ mainPc' \in {"scan", "mark", "give", "loop"}
          /\ event' \in {event, NULL} /\ (mainPc' # "loop" => event' = event)
      BY <2>1 DEF MainHand, Find, Scan, Mark, Give, Handled, Goto
    <3>3. InMain(ListenSd)' => InMain(ListenSd) BY <3>1, <3>2 DEF InMain, AtHand
    <3> QED BY <3>1, <3>2, <3>3, ListenStays
  <2>2. CASE MainEnd
    <3>1. UNCHANGED <<made, backlog, interest, m_events, event>>
      BY <2>2 DEF MainEnd, trafficVars, eventVars
    <3>2. mainPc' \in {"tell", "wait", "kill", "done"}
      BY <2>2 DEF MainEnd, MainStop, Tell, Reap, Kill, Goto
    <3>3. InMain(ListenSd)' => InMain(ListenSd) BY <3>1, <3>2 DEF InMain, AtHand
    <3> QED BY <3>1, <3>2, <3>3, ListenStays
  <2> QED BY <1>2, <2>1, <2>2, TakeListen, ConnectionListen DEF Main
<1>3. CASE ~crashed /\ Client
  <2>1. UNCHANGED <<interest, m_events, event, mainPc, given>>
    BY <1>3 DEF Client, eventVars, handVars
  <2>2. InMain(ListenSd)' <=> InMain(ListenSd) BY <2>1 DEF InMain, AtHand
  <2>3. \/ made < MaxConn /\ made' = made + 1 /\ backlog' = backlog + 1
        \/ UNCHANGED <<made, backlog>>
    BY <1>3 DEF Client, Connect, Send, HangUp
  <2>4. made' \in 0 .. MaxConn /\ backlog' \in 0 .. made' /\ (backlog > 0 => backlog' > 0)
    BY <2>3 DEF ListenInv
  <2> QED BY <2>1, <2>2, <2>4 DEF ListenInv
<1>4. CASE ~crashed /\ Owner
  <2>1. UNCHANGED <<made, backlog, m_events, event, mainPc, given>>
    BY <1>4 DEF Owner, trafficVars, eventVars, handVars
  <2>2. interest'[ListenSd] = interest[ListenSd]
    <3>1. CASE Interrupt \/ Destroy BY <3>1 DEF Interrupt, Destroy
    <3>2. CASE DestroyJoin
      <4>1. PICK left \in SUBSET Sd :
              interest' = [s \in DOMAIN interest |-> IF s \in left THEN "none" ELSE interest[s]]
        BY <3>2 DEF DestroyJoin
      <4> QED BY <4>1 DEF TokenInv, Placed
    <3> QED BY <1>4, <3>1, <3>2 DEF Owner
  <2>3. InMain(ListenSd)' <=> InMain(ListenSd) BY <2>1 DEF InMain, AtHand
  <2> QED BY <2>1, <2>2, <2>3 DEF ListenInv
<1>5. CASE ~crashed /\ \E w \in Worker : Work(w) \/ Timeout(w)
  <2>0. Placed /\ Safe BY <1>5 DEF TokenInv
  <2>1. PICK w \in Worker : Work(w) \/ Timeout(w) BY <1>5
  <2>2. UNCHANGED <<made, backlog, m_events, event, mainPc, given>>
    BY <2>1 DEF Work, Timeout, WorkFrame, eventVars, handVars
  <2>3. interest'[ListenSd] = interest[ListenSd]
    <3>1. CASE WorkClose(w)
      <4>1. used[w].sd \in Sd BY <2>0, <3>1 DEF WorkClose, Safe, Linked, UsesSd
      <4> QED BY <2>0, <3>1, <4>1 DEF WorkClose, Close, Placed
    <3>2. CASE WorkRearm(w)
      <4>1. next[w] # tst_disconnect => used[w].sd \in Sd
        BY <2>0, <3>2 DEF WorkRearm, Safe, Linked, UsesSd
      <4>2. PICK s \in Sd \union {NULL}, r \in {"in", "inout"} : Rearm(s, r)
        BY <3>2, <4>1 DEF WorkRearm
      <4>3. s # ListenSd OBVIOUS
      <4> QED BY <2>0, <4>2, <4>3 DEF Rearm, Placed
    <3> QED BY <2>1, <3>1, <3>2 DEF Work, Timeout, WorkSleep, Take, Job, WorkErase, WorkDelete,
               Settle, Clear, WorkLast
  <2>4. InMain(ListenSd)' <=> InMain(ListenSd) BY <2>2 DEF InMain, AtHand
  <2> QED BY <2>2, <2>3, <2>4 DEF ListenInv
<1> QED BY <1>1, <1>2, <1>3, <1>4, <1>5 DEF Next, Stopped

----------------------------------------------------------------------------
(* Types.  A worker's state is set to its last result only when that was    *)
(* replaced by tst_suspend.                                                 *)

MainLabel == {"loop", "accept", "add", "connected", "relisten", "erase", "close", "delete",
              "find", "scan", "mark", "give", "tell", "wait", "kill", "done"}
HandTypes ==
  /\ m_connect \in [Sd -> Conn \union {NULL}] /\ deleted \subseteq Conn
  /\ given \in Link /\ target \in Worker \union {NULL} /\ mainPc \in MainLabel
  /\ tst_socket \in [Worker -> Link] /\ used \in [Worker -> Link]
ThreadTypes ==
  /\ m_main_run \in BOOLEAN /\ m_work_run \in BOOLEAN /\ m_endwaittime \in {0, 1}
  /\ input \subseteq Sd /\ hup \subseteq Sd
  /\ thread_stat \in [Worker -> TST_STAT]
  /\ mutex \in [Worker -> Worker \union {"tst_main", NULL}] /\ waiting \subseteq Worker
  /\ told \subseteq Worker /\ szThreadStatus \subseteq Worker /\ cancelled \subseteq Worker
  /\ destroyPc \in {"uncalled", "join", "returned"} /\ crashed \in BOOLEAN
  /\ \A w \in Worker : workPc[w] = "settle" => next[w] = tst_suspend

LEMMA TypesTogether ==
  ASSUME Placed, ListenInv, HandTypes, ThreadTypes
  PROVE  TypeOK
BY DEF Placed, ListenInv, HandTypes, ThreadTypes, TypeOK, MainLabel, Fetched

LEMMA InitTypes == Init => HandTypes /\ ThreadTypes
<1> SUFFICES ASSUME Init PROVE HandTypes /\ ThreadTypes
  OBVIOUS
<1> USE DEF Init
<1>1. HandTypes BY DEF HandTypes, MainLabel, Link, None
<1>2. ThreadTypes BY DEF ThreadTypes, TST_STAT
<1> QED BY <1>1, <1>2

(* What tst_main adds to m_connect is a connection that was accepted, and   *)
(* the others are found in m_connect.                                       *)
LEMMA MainHandTypes ==
  ASSUME TokenInv, ~crashed, ListenInv, HandTypes, Main
  PROVE  HandTypes'
<1> USE ServerAssumption DEF HandTypes
<1>0. Placed /\ Safe /\ None \in Link BY DEF TokenInv, None, Link
<1>1. CASE MainTake
  BY <1>1 DEF MainTake, Fetch, Pick, MainLabel, connVars, handVars, shareVars, workVars
<1>2. CASE MainConnection
  <2>1. UNCHANGED <<tst_socket, used, target>> BY <1>2 DEF MainConnection, shareVars, workVars
  <2>2. mainPc' \in MainLabel
    BY <1>2 DEF MainConnection, Accept, AcceptFails, AddSocket, Connected, Relisten, MainErase,
         MainClose, MainDelete, Handled, Goto, MainLabel
  <2>3. CASE Accept
    <3>1. PICK s \in Sd \ open :
            /\ given' = [sd |-> s, conn |-> made - backlog + 1]
            /\ m_connect[s] = NULL => UNCHANGED connVars
      BY <2>3 DEF Accept
    <3>2. mainPc = "accept" BY <2>3 DEF Accept
    <3>3. UNCHANGED <<m_connect, deleted>> BY <1>0, <3>1, <3>2 DEF Safe, Opened, connVars
    <3>4. made - backlog + 1 \in Conn BY <3>2 DEF ListenInv, Conn
    <3>5. given' \in Link BY <3>1, <3>4 DEF Link
    <3> QED BY <2>1, <2>2, <3>3, <3>5
  <2>4. CASE AcceptFails \/ Relisten
    BY <1>0, <2>1, <2>2, <2>4 DEF AcceptFails, Relisten, Handled, connVars
  <2>5. CASE AddSocket
    <3>1. given.conn \in Conn BY <2>5 DEF AddSocket, ListenInv
    <3> QED BY <2>1, <2>2, <2>5, <3>1 DEF AddSocket
  <2>6. CASE Connected
    <3>1. given.conn \in Conn BY <2>6 DEF Connected, ListenInv
    <3> QED BY <2>1, <2>2, <2>6, <3>1 DEF Connected, Erase, Delete, connVars
  <2>7. CASE MainErase
    <3>1. event[1] \in Sd BY <1>0, <2>7 DEF MainErase, Safe, Linked, AtHand
    <3> QED BY <2>1, <2>2, <2>7, <3>1 DEF MainErase, Erase, Link
  <2>8. CASE MainClose BY <2>1, <2>2, <2>8 DEF MainClose, connVars
  <2>9. CASE MainDelete
    <3>1. given.conn \in Conn \union {NULL} BY DEF Link
    <3> QED BY <1>0, <2>1, <2>2, <2>9, <3>1 DEF MainDelete, Delete, Handled
  <2> QED BY <1>2, <2>3, <2>4, <2>5, <2>6, <2>7, <2>8, <2>9 DEF MainConnection
<1>3. CASE MainHand
  <2>1. UNCHANGED <<m_connect, deleted, used>> BY <1>3 DEF MainHand, connVars, workVars
  <2>2. mainPc' \in MainLabel
    BY <1>3 DEF MainHand, Find, Scan, Mark, Give, Handled, Goto, MainLabel
  <2>3. CASE Find
    <3>1. event[1] \in Sd BY <1>0, <2>3 DEF Find, Safe, Linked, AtHand
    <3> QED BY <2>1, <2>2, <2>3, <3>1 DEF Find, Link, shareVars
  <2>4. CASE Scan BY <2>1, <2>2, <2>4 DEF Scan, shareVars
  <2>5. CASE Mark BY <2>1, <2>2, <2>5 DEF Mark
  <2>6. CASE Give BY <1>0, <2>1, <2>2, <2>6 DEF Give, Handled
  <2> QED BY <1>3, <2>3, <2>4, <2>5, <2>6 DEF MainHand
<1>4. CASE MainEnd
  BY <1>4 DEF MainEnd, MainStop, Tell, Reap, Kill, Goto, MainLabel, connVars, handVars, workVars
<1> QED BY <1>1, <1>2, <1>3, <1>4 DEF Main

LEMMA NextHandTypes ==
  ASSUME TokenInv, ListenInv, HandTypes, [Next]_vars
  PROVE  HandTypes'
<1> USE ServerAssumption DEF HandTypes
<1>0. None \in Link BY DEF None, Link
<1>1. CASE UNCHANGED vars BY <1>1 DEF vars, connVars, handVars, shareVars, workVars
<1>2. CASE Client BY <1>2 DEF Client, connVars, handVars, shareVars, workVars
<1>3. CASE Owner
  <2>1. UNCHANGED <<given, target, mainPc, tst_socket, used>>
    BY <1>3 DEF Owner, handVars, shareVars, workVars
  <2>2. CASE DestroyJoin
    <3>1. m_connect' = [s \in Sd |-> NULL] BY <2>2 DEF DestroyJoin
    <3>2. deleted' = deleted \union {m_connect[s] : s \in {t \in Sd : m_connect[t] # NULL}}
      BY <2>2 DEF DestroyJoin
    <3> QED BY <2>1, <3>1, <3>2
  <2> QED BY <1>3, <2>1, <2>2 DEF Owner, Interrupt, Destroy, connVars
<1>4. CASE \E w \in Worker : Work(w) \/ Timeout(w)
  <2>1. PICK w \in Worker : Work(w) \/ Timeout(w) BY <1>4
  <2>2. UNCHANGED <<given, target, mainPc>> BY <2>1 DEF Work, Timeout, WorkFrame, handVars
  <2>3. used[w] \in Link /\ used[w].conn \in Conn \union {NULL} BY DEF Link
  <2>4. used' \in [Worker -> Link] /\ tst_socket' \in [Worker -> Link]
    BY <1>0, <2>1 DEF Work, Timeout, WorkSleep, WorkLoop, Sleep, Wake, Look, Else, Idle, Reset, Take,
         Job, WorkErase, WorkClose, WorkDelete, WorkRearm, Settle, Clear, WorkLast, shareVars, workVars
  <2>5. m_connect' \in [Sd -> Conn \union {NULL}] /\ deleted' \subseteq Conn
    BY <2>1, <2>3 DEF Work, Timeout, WorkSleep, Take, Job, WorkErase, WorkClose, WorkDelete, WorkRearm,
         Settle, Clear, WorkLast, Erase, Delete, connVars
  <2> QED BY <2>2, <2>4, <2>5
<1> QED BY <1>1, <1>2, <1>3, <1>4, MainHandTypes DEF Next, Stopped

LEMMA NextThreadTypes ==
  ASSUME Placed, ThreadTypes, [Next]_vars
  PROVE  ThreadTypes'
<1> USE ServerAssumption DEF ThreadTypes
<1>1. CASE UNCHANGED vars BY <1>1 DEF vars, runVars, trafficVars, shareVars, workVars, endVars
<1>2. CASE Client
  BY <1>2 DEF Client, Connect, Send, HangUp, runVars, shareVars, workVars, endVars
<1>3. CASE Owner
  BY <1>3 DEF Owner, Interrupt, Destroy, DestroyJoin, trafficVars, shareVars, workVars, endVars
<1>4. CASE MainTake \/ MainConnection
  <2>1. input' \subseteq Sd /\ hup' \subseteq Sd
    BY <1>4 DEF MainTake, MainConnection, Accept, AcceptFails, AddSocket, Connected, Relisten,
         MainErase, MainClose, MainDelete, Close, trafficVars
  <2> QED BY <1>4, <2>1 DEF MainTake, MainConnection, runVars, shareVars, workVars, endVars
<1>5. CASE MainHand
  <2>1. tst_run \in TST_STAT BY DEF TST_STAT
  <2>2. UNCHANGED <<runVars, input, hup, workVars, endVars, destroyPc>>
    BY <1>5 DEF MainHand, trafficVars
  <2>3. crashed' \in BOOLEAN BY <1>5 DEF MainHand, Find, Scan, Mark, Give
  <2>4. /\ thread_stat' \in [Worker -> TST_STAT] /\ waiting' \subseteq Worker
        /\ mutex' \in [Worker -> Worker \union {"tst_main", NULL}]
    BY <1>5, <2>1 DEF MainHand, Find, Scan, Mark, Give, shareVars
  <2> QED BY <2>2, <2>3, <2>4 DEF runVars, workVars, endVars
<1>6. CASE MainEnd
  <2>1. tst_exit \in TST_STAT BY DEF TST_STAT
  <2>2. UNCHANGED <<m_main_run, m_endwaittime, input, hup, mutex, destroyPc, crashed, workPc, next>>
    BY <1>6 DEF MainEnd, trafficVars, workVars
  <2>3. CASE MainStop BY <2>2, <2>3 DEF MainStop, endVars
  <2>4. CASE Tell BY <2>1, <2>2, <2>4 DEF Tell
  <2>5. CASE Reap BY <2>2, <2>5 DEF Reap
  <2>6. CASE Kill BY <2>2, <2>6 DEF Kill
  <2> QED BY <1>6, <2>3, <2>4, <2>5, <2>6 DEF MainEnd
<1>7. CASE \E w \in Worker : Work(w) \/ Timeout(w)
  <2>1. PICK w \in Worker : Work(w) \/ Timeout(w) BY <1>7
  <2>2. UNCHANGED <<m_main_run, m_work_run, m_endwaittime, told, szThreadStatus, cancelled, destroyPc>>
    BY <2>1 DEF Work, Timeout, WorkFrame, runVars, endVars
  <2>3. {tst_suspend, tst_run, tst_exited} \subseteq TST_STAT BY DEF TST_STAT
  <2>4. \A v \in Worker : workPc'[v] = "settle" => next'[v] = tst_suspend
    BY <2>1 DEF Work, Timeout, WorkSleep, WorkLoop, Sleep, Wake, Look, Else, Idle, Reset, Take, Job,
         WorkErase, WorkClose, WorkDelete, WorkRearm, Settle, Clear, WorkLast, Step, Placed, workVars
  <2>5. thread_stat' \in [Worker -> TST_STAT]
    BY <2>1, <2>3 DEF Work, Timeout, WorkSleep, WorkLoop, Sleep, Wake, Look, Else, Idle, Reset,
         Take, Job, WorkErase, WorkClose, WorkDelete, WorkRearm, Settle, Clear, WorkLast, SetStat,
         shareVars
  <2>6. mutex' \in [Worker -> Worker \union {"tst_main", NULL}] /\ waiting' \subseteq Worker
    BY <2>1 DEF Work, Timeout, WorkSleep, WorkLoop, Sleep, Wake, Look, Else, Idle, Reset,
         Take, Job, WorkErase, WorkClose, WorkDelete, WorkRearm, Settle, Clear, WorkLast, shareVars
  <2>7. input' \subseteq Sd /\ hup' \subseteq Sd /\ crashed' \in BOOLEAN
    BY <2>1 DEF Work, Timeout, WorkSleep, Take, Job, WorkErase, WorkClose, WorkDelete, WorkRearm,
         Settle, Clear, WorkLast, Close
  <2> QED BY <2>2, <2>4, <2>5, <2>6, <2>7
<1> QED BY <1>1, <1>2, <1>3, <1>4, <1>5, <1>6, <1>7 DEF Next, Stopped, Main
TypeInv == TokenInv /\ ListenInv /\ HandTypes /\ ThreadTypes

LEMMA InitTypeInv == Init => TypeInv
BY InitTokens, InitListen, InitTypes DEF TypeInv

LEMMA NextTypeInv ==
  ASSUME StaleSd \subseteq {NULL}, TypeInv, [Next]_vars
  PROVE  TypeInv'
<1>1. Placed BY DEF TypeInv, TokenInv
<1> QED BY <1>1, NextKeeps, NextListen, NextHandTypes, NextThreadTypes DEF TypeInv

(* Every variable of the server keeps its type: what tst_main registers is  *)
(* an accepted connection, because a one-shot event of the listening socket *)
(* is handled while a connection waits, and once.                           *)
THEOREM ServerTypeCorrect ==
  ASSUME StaleSd \subseteq {NULL}
  PROVE  Spec => []TypeOK
<1>1. TypeInv /\ [Next]_vars => TypeInv' BY NextTypeInv
<1>2. TypeInv => TypeOK BY TypesTogether DEF TypeInv, TokenInv
<1> QED BY InitTypeInv, <1>1, <1>2, PTL DEF Spec

----------------------------------------------------------------------------
(* m_connect.  Whoever may still get an event for a descriptor, or re-arm   *)
(* it, finds it registered; a worker that closes it has taken it out.       *)

Served(w, s) == Holds(w, s) /\ ~(workPc[w] = "close" /\ used[w].sd = s)
Reach(s) ==
  \/ Armed(s) \/ \E w \in Worker : Served(w, s)
  \/ InMain(s) /\ ~(mainPc = "close" /\ event[1] = s)
Registered ==
  /\ \A s \in Sd : Reach(s) => m_connect[s] # NULL
  /\ mainPc = "add" => m_connect[given.sd] = NULL
MapInv == IF crashed \/ mainPc = "done" THEN MapMatchesDescriptors ELSE Registered

LEMMA InitMap == Init => MapInv
<1> SUFFICES ASSUME Init PROVE Registered
  BY DEF Init, MapInv
<1>1. \A s \in Sd : ~Reach(s)
  BY ServerAssumption DEF Init, Reach, Armed, InMain, AtHand, Served, Holds, Works, UsesSd, None
<1> QED BY <1>1 DEF Init, Registered

LiveObjects == crashed \/ mainPc = "done" \/ Objects

(* As long as tst_main runs the objects are with those who have the tokens, *)
(* however destroy's wait ends: what destroy deletes comes after that.      *)
LEMMA NextLive ==
  ASSUME TokenInv, LiveObjects, [Next]_vars
  PROVE  LiveObjects'
<1>1. ASSUME Objects, UNCHANGED <<m_connect, deleted, workPc, used, next, mainPc, given, tst_socket>>,
             accepted' = accepted
      PROVE  Objects'
  <2>1. Named' BY <1>1 DEF Objects, Named, UsesSd
  <2> QED BY <1>1, <2>1, ObjectsStay DEF OffMain, Off
<1>2. CASE UNCHANGED vars
  <2>1. accepted' = accepted BY <1>2 DEF vars, trafficVars, accepted
  <2> QED BY <1>1, <1>2, <2>1 DEF LiveObjects, vars, connVars, handVars, shareVars, workVars
<1>3. CASE ~crashed /\ Client
  <2>1. made \in Int /\ backlog \in Int BY DEF TokenInv, Placed
  <2>2. UNCHANGED <<made, backlog>> \/ (made' = made + 1 /\ backlog' = backlog + 1)
    BY <1>3 DEF Client, Connect, Send, HangUp
  <2>3. accepted' = accepted BY <2>1, <2>2 DEF accepted
  <2> QED BY <1>1, <1>3, <2>3 DEF Client, LiveObjects, connVars, handVars, shareVars, workVars
<1>4. CASE ~crashed /\ Owner
  <2>1. CASE DestroyJoin BY <1>4, <2>1 DEF DestroyJoin, Owner, LiveObjects
  <2>2. accepted' = accepted BY <1>4 DEF Owner, trafficVars, accepted
  <2>3. CASE Interrupt \/ Destroy
    BY <1>1, <1>4, <2>2, <2>3 DEF Owner, Interrupt, Destroy, LiveObjects, connVars, handVars, shareVars,
         workVars
  <2> QED BY <1>4, <2>1, <2>3 DEF Owner
<1>5. CASE ~crashed /\ (Main \/ \E w \in Worker : Work(w) \/ Timeout(w))
  <2>1. mainPc # "done"
    BY <1>5 DEF Work, Timeout, Main, MainTake, MainConnection, MainHand, MainEnd, Fetch, Pick, Accept,
         AcceptFails, AddSocket, Connected, Relisten, MainErase, MainClose, MainDelete, Find, Scan,
         Mark, Give, MainStop, Tell, Reap, Kill
  <2>2. Objects BY <1>5, <2>1 DEF LiveObjects
  <2> QED BY <1>5, <2>2, MainObjects, WorkObjects DEF LiveObjects
<1> QED BY <1>2, <1>3, <1>4, <1>5 DEF Next, Stopped

LEMMA MapMatches ==
  ASSUME TokenInv, LiveObjects, MapInv
  PROVE  MapMatchesDescriptors
<1>1. CASE crashed \/ mainPc = "done" BY <1>1 DEF MapInv
<1>2. CASE ~crashed /\ mainPc # "done"
  <2>1. Safe /\ Objects /\ Registered BY <1>2 DEF TokenInv, LiveObjects, MapInv
  <2>2. \A s \in Sd : m_connect[s] # NULL => s \in open /\ m_connect[s] \notin deleted
    BY <1>2, <2>1 DEF Safe, Opened, Objects, Known
  <2>3. \A s \in PendingSd : InMain(s) /\ ~(mainPc = "close" /\ event[1] = s)
    BY <2>1 DEF PendingSd, InMain, AtHand, Safe, OneEvent
  <2>4. PendingSd \ {ListenSd} \subseteq Sd
    BY DEF TokenInv, Placed, PendingSd, Fetched
  <2> QED BY <2>1, <2>2, <2>3, <2>4 DEF Registered, Reach, MapMatchesDescriptors
<1> QED BY <1>1, <1>2

(* Steps after which nobody has a descriptor that he had not before, and    *)
(* whom has one finds its entry untouched.                                  *)
LEMMA RegisteredStays ==
  ASSUME Registered,
         \A s \in Sd : Reach(s)' => Reach(s) /\ m_connect'[s] = m_connect[s],
         mainPc' = "add" => mainPc = "add" /\ UNCHANGED <<m_connect, given>>
  PROVE  Registered'
BY DEF Registered

(* tst_main registers a connection before epoll may report it, and takes    *)
(* out one that it has the event of.                                        *)
LEMMA ConnectionRegistered ==
  ASSUME TokenInv, ~crashed, Objects, ListenInv, Registered, MainConnection
  PROVE  Registered'
<1> USE ServerAssumption
<1>0. Placed /\ Safe BY DEF TokenInv
<1>1. UNCHANGED <<m_events, tst_socket, used, workPc, next>>
  BY DEF MainConnection, shareVars, workVars
<1>2. \A w \in Worker : \A s : Served(w, s)' <=> Served(w, s)
  BY <1>1 DEF Served, Holds, Works, UsesSd
<1>3. CASE Accept
  <2>1. PICK s \in Sd \ open :
          /\ given' = [sd |-> s, conn |-> made - backlog + 1]
          /\ m_connect[s] = NULL => UNCHANGED connVars
    BY <1>3 DEF Accept
  <2>2. mainPc = "accept" /\ mainPc' = "add" /\ UNCHANGED <<interest, event>>
    BY <1>3 DEF Accept, Goto
  <2>3. m_connect[s] = NULL /\ m_connect' = m_connect
    BY <1>0, <2>1, <2>2 DEF Safe, Opened, connVars
  <2>4. \A t \in Sd : Reach(t)' => Reach(t)
    BY <1>1, <1>2, <2>2 DEF Reach, Armed, InMain, AtHand
  <2> QED BY <2>1, <2>3, <2>4 DEF Registered
<1>4. CASE AcceptFails \/ Relisten \/ MainDelete
  <2>1. /\ mainPc' = "loop" /\ event' = NULL /\ m_connect' = m_connect
        /\ \A s \in Sd : interest'[s] = interest[s]
    BY <1>0, <1>4 DEF AcceptFails, Relisten, MainDelete, Handled, Goto, connVars, Rearm, Placed
  <2>2. \A t \in Sd : Reach(t)' => Reach(t)
    BY <1>1, <1>2, <2>1, <1>4 DEF Reach, Armed, InMain, AtHand, AcceptFails, Relisten, MainDelete
  <2> QED BY <2>1, <2>2, RegisteredStays
<1>5. CASE AddSocket
  <2>1. /\ mainPc = "add" /\ mainPc' = "connected" /\ UNCHANGED <<interest, event>>
        /\ m_connect' = [m_connect EXCEPT ![given.sd] = given.conn] /\ given.conn \in Conn
    BY <1>5 DEF AddSocket, Goto, ListenInv
  <2>2. \A t \in Sd : m_connect[t] # NULL => m_connect'[t] # NULL BY <1>0, <2>1 DEF Placed
  <2>3. \A t \in Sd : Reach(t)' => Reach(t)
    BY <1>1, <1>2, <2>1 DEF Reach, Armed, InMain, AtHand
  <2> QED BY <2>1, <2>2, <2>3 DEF Registered
<1>6. CASE Connected
  <2>1. mainPc = "connected" /\ mainPc' = "relisten" /\ UNCHANGED <<event, given>>
    BY <1>6 DEF Connected, Goto
  <2>2. /\ given.sd \in Sd /\ ~Armed(given.sd) /\ ~InMain(given.sd)
        /\ \A w \in Worker : ~Served(w, given.sd)
        /\ m_connect[given.sd] # NULL
    BY <1>0, <2>1 DEF Safe, Fresh, Placed, Served, Objects, Named, ListenInv
  <2>3. \A t \in Sd : InMain(t)' <=> InMain(t) BY <1>1, <2>1 DEF InMain, AtHand
  <2>4. \A t \in Sd : t # given.sd => interest'[t] = interest[t] /\ m_connect'[t] = m_connect[t]
    BY <1>0, <1>6 DEF Connected, Erase, Close, connVars, Placed
  <2>5. m_connect'[given.sd] # NULL \/ interest'[given.sd] = "none"
    BY <1>0, <1>6, <2>2 DEF Connected, Close, connVars, Placed
  <2>6. \A t \in Sd : Reach(t)' => \/ t # given.sd /\ Reach(t) /\ m_connect'[t] = m_connect[t]
                                   \/ t = given.sd /\ m_connect'[t] # NULL
    BY <1>2, <2>1, <2>2, <2>3, <2>4, <2>5 DEF Reach, Armed
  <2> QED BY <2>1, <2>6 DEF Registered
<1>7. CASE MainErase
  <2>1. /\ mainPc = "erase" /\ mainPc' = "close" /\ UNCHANGED <<event, interest>>
        /\ m_connect' = [m_connect EXCEPT ![event[1]] = NULL]
    BY <1>7 DEF MainErase, Goto, Erase
  <2>2. PICK sd \in Sd : sd = event[1] /\ InMain(sd)
    BY <1>0, <2>1 DEF Safe, Linked, AtHand, InMain
  <2>3. ~Armed(sd) /\ \A w \in Worker : ~Served(w, sd)
    BY <1>0, <2>2 DEF Safe, Tokens, Served
  <2>4. \A t \in Sd : Reach(t)' => Reach(t) /\ t # sd
    BY <1>1, <1>2, <2>1, <2>2, <2>3 DEF Reach, Armed, InMain, AtHand
  <2>5. \A t \in Sd : t # sd => m_connect'[t] = m_connect[t] BY <1>0, <2>1, <2>2 DEF Placed
  <2> QED BY <2>1, <2>4, <2>5, RegisteredStays
<1>8. CASE MainClose
  <2>1. /\ mainPc = "close" /\ mainPc' = "delete" /\ UNCHANGED <<event, given, m_connect>>
        /\ interest' = [interest EXCEPT ![given.sd] = "none"]
    BY <1>8 DEF MainClose, Goto, Close, connVars
  <2>2. given.sd = event[1] /\ given.sd \in Sd BY <1>0, <2>1 DEF Safe, Linked, AtHand
  <2>3. \A t \in Sd : Armed(t)' => Armed(t) BY <1>0, <2>1, <2>2 DEF Armed, Placed
  <2>4. \A t \in Sd : InMain(t)' => InMain(t) /\ t # event[1]
    BY <1>0, <1>1, <2>1 DEF InMain, AtHand, Safe, OneEvent
  <2>5. \A t \in Sd : Reach(t)' => Reach(t) BY <1>2, <2>3, <2>4 DEF Reach
  <2> QED BY <2>1, <2>5, RegisteredStays
<1> QED BY <1>3, <1>4, <1>5, <1>6, <1>7, <1>8 DEF MainConnection

(* The other steps of tst_main pass a descriptor on, up to a worker.        *)
LEMMA MainRegistered ==
  ASSUME TokenInv, ~crashed, Objects, ListenInv, Registered, Main
  PROVE  Registered' /\ ~crashed'
<1> USE ServerAssumption
<1>0. Placed /\ Safe BY DEF TokenInv
<1>1. CASE MainTake
  <2>1. UNCHANGED <<m_connect, given, tst_socket, used, workPc, next, crashed>>
    BY <1>1 DEF MainTake, connVars, handVars, shareVars, workVars
  <2>2. \A w \in Worker : \A s : Served(w, s)' <=> Served(w, s)
    BY <2>1 DEF Served, Holds, Works, UsesSd
  <2>3. CASE Fetch
    <3>1. PICK S \in SUBSET {s \in DOMAIN interest : Ready(s)} :
            /\ m_events' = {<<s, Kind(s)>> : s \in S}
            /\ interest' = [s \in DOMAIN interest |-> IF s \in S THEN "off" ELSE interest[s]]
      BY <2>3 DEF Fetch, OneShot
    <3>2. mainPc = "loop" /\ mainPc' = "loop" /\ event = NULL /\ event' = NULL
      BY <2>3 DEF Fetch
    <3>3. \A s \in Sd : s \in S => Armed(s) BY <3>1 DEF Ready, Armed
    <3>4. \A s \in Sd : InMain(s)' => s \in S BY <3>1, <3>2 DEF InMain, AtHand
    <3>5. \A s \in Sd : Armed(s)' => Armed(s) BY <1>0, <3>1 DEF Armed, Placed
    <3>6. \A s \in Sd : Reach(s)' => Reach(s) BY <2>2, <3>3, <3>4, <3>5 DEF Reach
    <3> QED BY <2>1, <3>2, <3>6, RegisteredStays
  <2>4. CASE Pick
    <3>1. mainPc = "loop" /\ mainPc' \in {"accept", "erase", "find"} /\ interest' = interest
      BY <2>4 DEF Pick
    <3>2. \/ event # NULL /\ UNCHANGED <<m_events, event>>
          \/ event = NULL /\ event' \in m_events /\ m_events' = m_events \ {event'}
      BY <2>4 DEF Pick, eventVars
    <3>3. \A s \in Sd : InMain(s)' => InMain(s) BY <3>1, <3>2 DEF InMain, AtHand
    <3>4. \A s \in Sd : Reach(s)' => Reach(s) BY <2>2, <3>1, <3>3 DEF Reach, Armed
    <3> QED BY <2>1, <3>1, <3>4, RegisteredStays
  <2> QED BY <1>1, <2>1, <2>3, <2>4 DEF MainTake
<1>2. CASE MainConnection BY <1>2, ConnectionRegistered DEF MainConnection
<1>3. CASE MainHand
  <2>1. UNCHANGED <<m_connect, interest, m_events, used, workPc, next>>
    BY <1>3 DEF MainHand, connVars, workVars
  <2>2. CASE Find \/ Scan \/ Mark
    <3>1. /\ mainPc \in {"find", "scan", "mark"} /\ mainPc' \in {"scan", "mark", "give", "loop"}
          /\ UNCHANGED <<event, tst_socket>>
      BY <2>2 DEF Find, Scan, Mark, Goto, shareVars
    <3>2. \A s \in Sd : InMain(s)' => InMain(s) BY <2>1, <3>1 DEF InMain, AtHand
    <3>3. \A w \in Worker : \A s : Served(w, s)' <=> Served(w, s)
      BY <2>1, <3>1 DEF Served, Holds, Works, UsesSd
    <3>4. \A s \in Sd : Reach(s)' => Reach(s) BY <2>1, <3>1, <3>2, <3>3 DEF Reach, Armed
    <3>5. ~crashed'
      <4>1. CASE Find
        <5>1. event[1] \in Sd /\ Reach(event[1])
          BY <1>0, <4>1 DEF Find, Safe, Linked, AtHand, Reach, InMain
        <5> QED BY <4>1, <5>1 DEF Find, Registered
      <4> QED BY <2>2, <4>1 DEF Scan, Mark
    <3> QED BY <2>1, <3>1, <3>4, <3>5, RegisteredStays
  <2>3. CASE Give
    <3>1. mainPc = "give" /\ mainPc' = "loop" /\ event' = NULL /\ crashed' = crashed
          /\ tst_socket' = [tst_socket EXCEPT ![target] = given]
      BY <2>3 DEF Give, Handled, Goto
    <3>2. given.sd \in Sd /\ given.sd = event[1] /\ Reach(given.sd)
      BY <1>0, <3>1 DEF Safe, Linked, AtHand, InMain, Reach
    <3>3. \A s \in Sd : InMain(s)' => InMain(s) BY <2>1, <3>1 DEF InMain, AtHand
    <3>4. \A w \in Worker, s \in Sd : Served(w, s)' => Served(w, s) \/ s = given.sd
      BY <1>0, <2>1, <3>1 DEF Served, Holds, Works, UsesSd, Placed
    <3>5. \A s \in Sd : Reach(s)' => Reach(s)
      BY <2>1, <3>1, <3>2, <3>3, <3>4 DEF Reach, Armed
    <3> QED BY <2>1, <3>1, <3>5, RegisteredStays
  <2> QED BY <1>3, <2>2, <2>3 DEF MainHand
<1>4. CASE MainEnd
  <2>1. UNCHANGED <<m_connect, interest, m_events, event, tst_socket, used, workPc, next, crashed>>
    BY <1>4 DEF MainEnd, connVars, eventVars, workVars
  <2>2. mainPc' \in Ending BY <1>4 DEF MainEnd, MainStop, Tell, Reap, Kill, Goto, Ending
  <2>3. \A w \in Worker : \A s : Served(w, s)' <=> Served(w, s)
    BY <2>1 DEF Served, Holds, Works, UsesSd
  <2>4. \A s \in Sd : Reach(s)' => Reach(s)
    BY <1>4, <2>1, <2>2, <2>3 DEF Reach, Armed, InMain, AtHand, Ending, MainEnd, MainStop, Tell, Reap, Kill
  <2> QED BY <2>1, <2>2, <2>4, RegisteredStays DEF Ending
<1> QED BY <1>1, <1>2, <1>3, <1>4 DEF Main
(* A worker re-arms only what is registered, and closes only what it has.   *)
LEMMA WorkRegistered ==
  ASSUME StaleSd \subseteq {NULL}, NEW w \in Worker, TokenInv, ~crashed, Registered,
         Work(w) \/ Timeout(w), ~crashed'
  PROVE  Registered'
<1> USE ServerAssumption
<1>0. Placed /\ Safe BY DEF TokenInv
<1>1. UNCHANGED workFrame
  BY DEF Work, Timeout, WorkFrame, workFrame, eventVars, handVars
<1>2. \A s \in Sd : InMain(s)' <=> InMain(s) BY <1>1 DEF workFrame, InMain, AtHand
<1>3. \A v \in Worker \ {w} : UNCHANGED <<workPc[v], used[v], tst_socket[v], next[v]>>
  BY <1>0 DEF Work, Timeout, WorkSleep, WorkLoop, Sleep, Wake, Look, Else, Idle, Reset, Take, Job,
       WorkErase, WorkClose, WorkDelete, WorkRearm, Settle, Clear, WorkLast, Step, shareVars, workVars,
       Placed
<1>4. \A v \in Worker \ {w}, s \in Sd : Served(v, s)' <=> Served(v, s)
  BY <1>3 DEF Served, Holds, Works, UsesSd
<1>5. ASSUME \A s \in Sd : Armed(s)' => Armed(s), \A s \in Sd : Served(w, s)' => Served(w, s),
             m_connect' = m_connect
      PROVE  Registered'
  <2>1. \A s \in Sd : Reach(s)' => Reach(s) BY <1>1, <1>2, <1>4, <1>5 DEF Reach, workFrame
  <2> QED BY <1>1, <1>5, <2>1, RegisteredStays DEF workFrame
<1>6. CASE WorkSleep(w) \/ WorkLast(w) \/ Timeout(w)
  <2>1. UNCHANGED <<interest, m_connect, tst_socket, used, next>>
    BY <1>6 DEF WorkSleep, WorkLast, WorkLoop, Sleep, Wake, Look, Else, Idle, Reset, Timeout,
         connVars, shareVars, workVars
  <2>2. UsesSd(w)' => UsesSd(w) /\ workPc'[w] = workPc[w]
    BY <1>0, <1>6, <2>1 DEF WorkSleep, WorkLast, WorkLoop, Sleep, Wake, Look, Else, Idle, Reset, Step,
         Timeout, workVars, Placed, UsesSd
  <2>3. workPc[w] = "close" => workPc'[w] = "close"
    BY <1>6 DEF WorkSleep, WorkLast, WorkLoop, Sleep, Wake, Look, Else, Idle, Reset, Timeout, workVars
  <2> QED BY <1>5, <2>1, <2>2, <2>3 DEF Armed, Served, Holds, Works
<1>7. CASE Take(w)
  <2>1. /\ workPc[w] = "take" /\ tst_socket[w] # None /\ used'[w] = tst_socket[w]
        /\ UNCHANGED <<interest, m_connect, tst_socket>>
    BY <1>0, <1>7 DEF Take, shareVars, connVars, Placed
  <2>2. used[w].sd = NULL /\ tst_socket[w].sd # NULL BY <1>0, <2>1 DEF Safe, Linked, None
  <2> QED BY <1>5, <2>1, <2>2 DEF Armed, Served, Holds, Works
<1>8. CASE Job(w) \/ WorkDelete(w) \/ Settle(w)
  <2>1. UNCHANGED <<interest, m_connect, tst_socket, used>>
    BY <1>8 DEF Job, WorkDelete, Settle, shareVars, connVars
  <2>2. UsesSd(w)' => UsesSd(w)
    BY <1>0, <1>8 DEF Job, WorkDelete, Settle, Step, UsesSd, Placed, Safe, Linked
  <2>3. workPc[w] # "close" BY <1>8 DEF Job, WorkDelete, Settle
  <2> QED BY <1>5, <2>1, <2>2, <2>3 DEF Armed, Served, Holds, Works
<1>9. CASE Clear(w)
  <2>1. workPc'[w] = "loop" /\ tst_socket'[w] = None /\ UNCHANGED <<interest, m_connect>>
    BY <1>0, <1>9 DEF Clear, Step, connVars, Placed
  <2> QED BY <1>5, <2>1 DEF Armed, Served, Holds, Works, UsesSd, None
<1>10. CASE WorkErase(w)
  <2>1. /\ workPc[w] = "erase" /\ workPc'[w] = "close"
        /\ m_connect' = [m_connect EXCEPT ![used[w].sd] = NULL]
        /\ UNCHANGED <<interest, tst_socket, used>>
    BY <1>0, <1>10 DEF WorkErase, Erase, Step, shareVars, Placed
  <2>2. PICK sd \in Sd : sd = used[w].sd /\ Holds(w, sd)
    BY <1>0, <2>1 DEF Safe, Linked, UsesSd, Holds, Works
  <2>3. ~Armed(sd) /\ ~InMain(sd) /\ \A v \in Worker \ {w} : ~Served(v, sd)
    BY <1>0, <2>2 DEF Safe, Tokens, Served
  <2>4. ~Served(w, sd)' BY <2>1, <2>2 DEF Served
  <2>5. \A s \in Sd : Served(w, s)' => Served(w, s)
    BY <2>1 DEF Served, Holds, Works, UsesSd
  <2>6. \A s \in Sd : Reach(s)' => Reach(s) /\ s # sd
    BY <1>1, <1>2, <1>4, <2>1, <2>3, <2>4, <2>5 DEF Reach, Armed, workFrame
  <2>7. \A s \in Sd : s # sd => m_connect'[s] = m_connect[s] BY <1>0, <2>1, <2>2 DEF Placed
  <2>8. mainPc = "add" => m_connect'[given.sd] = NULL
    BY <1>0, <2>1, <2>2 DEF Registered, Safe, Fresh, Placed
  <2> QED BY <1>1, <2>6, <2>7, <2>8 DEF Registered, workFrame
<1>11. CASE WorkClose(w)
  <2>1. /\ workPc[w] = "close" /\ workPc'[w] = "delete"
        /\ interest' = [interest EXCEPT ![used[w].sd] = "none"]
        /\ UNCHANGED <<tst_socket, used, m_connect>>
    BY <1>0, <1>11 DEF WorkClose, Close, Step, shareVars, connVars, Placed
  <2>2. \A s \in Sd : Armed(s)' => Armed(s) BY <1>0, <2>1 DEF Armed, Placed
  <2>3. \A s \in Sd : Served(w, s)' => Served(w, s)
    BY <2>1 DEF Served, Holds, Works, UsesSd
  <2> QED BY <1>5, <2>1, <2>2, <2>3
<1>12. CASE WorkRearm(w)
  <2>1. /\ workPc[w] = "rearm" /\ workPc'[w] = "settle"
        /\ UNCHANGED <<tst_socket, used, m_connect>>
    BY <1>0, <1>12 DEF WorkRearm, Step, shareVars, connVars, Placed
  <2>2. \A s \in Sd : Served(w, s)' => Served(w, s)
    BY <2>1 DEF Served, Holds, Works, UsesSd
  <2>3. CASE next[w] = tst_disconnect
    <3>1. interest' = interest BY <1>12, <2>3 DEF WorkRearm, Rearm
    <3> QED BY <1>5, <2>1, <2>2, <3>1 DEF Armed
  <2>4. CASE next[w] # tst_disconnect
    <3>1. PICK sd \in Sd : sd = used[w].sd /\ Served(w, sd)
      BY <1>0, <2>1, <2>4 DEF Safe, Linked, UsesSd, Served, Holds, Works
    <3>2. PICK r \in {"in", "inout"} : Rearm(sd, r) BY <1>12, <2>4, <3>1 DEF WorkRearm
    <3>3. \A s \in Sd : Armed(s)' => Armed(s) \/ s = sd
      BY <1>0, <3>2 DEF Rearm, Armed, Placed
    <3>4. \A s \in Sd : Reach(s)' => Reach(s)
      BY <1>1, <1>2, <1>4, <2>2, <3>1, <3>3 DEF Reach, workFrame
    <3> QED BY <1>1, <2>1, <3>4, RegisteredStays DEF workFrame
  <2> QED BY <2>3, <2>4
<1> QED BY <1>6, <1>7, <1>8, <1>9, <1>10, <1>11, <1>12 DEF Work

mapVars == <<m_connect, open, deleted, m_events, event, mainPc, crashed>>

LEMMA SameMap ==
  ASSUME MapMatchesDescriptors, UNCHANGED mapVars
  PROVE  MapMatchesDescriptors'
BY DEF MapMatchesDescriptors, PendingSd, mapVars

LEMMA NextMap ==
  ASSUME StaleSd \subseteq {NULL}, TokenInv, ListenInv, LiveObjects, MapInv, [Next]_vars
  PROVE  MapInv'
<1>0. MapMatchesDescriptors BY MapMatches
<1>1. ASSUME UNCHANGED <<interest, m_connect, m_events, event, given, mainPc, tst_socket, used,
                         workPc, next>>, Registered
      PROVE  Registered'
  <2>1. \A s \in Sd : Reach(s)' <=> Reach(s)
    BY <1>1 DEF Reach, Armed, InMain, AtHand, Served, Holds, Works, UsesSd
  <2> QED BY <1>1, <2>1, RegisteredStays
<1>2. CASE UNCHANGED vars
  <2>1. UNCHANGED mapVars /\ UNCHANGED <<interest, given, tst_socket, used, workPc, next>>
    BY <1>2 DEF vars, connVars, eventVars, handVars, shareVars, workVars, mapVars
  <2> QED BY <1>0, <1>1, <2>1, SameMap DEF MapInv, mapVars
<1>3. CASE ~crashed /\ (Client \/ (Owner /\ (Interrupt \/ Destroy)))
  <2>1. UNCHANGED mapVars /\ UNCHANGED <<interest, given, tst_socket, used, workPc, next>>
    BY <1>3 DEF Client, Owner, Interrupt, Destroy, connVars, eventVars, handVars, shareVars, workVars,
         mapVars
  <2> QED BY <1>0, <1>1, <2>1, SameMap DEF MapInv, mapVars
<1>4. CASE ~crashed /\ Owner /\ DestroyJoin
  <2>1. m_connect' = [s \in Sd |-> NULL] /\ mainPc = "done" /\ mainPc' = mainPc
    BY <1>4 DEF DestroyJoin, Owner
  <2> QED BY <2>1 DEF MapInv, MapMatchesDescriptors
<1>5. CASE ~crashed /\ (Main \/ \E w \in Worker : Work(w) \/ Timeout(w))
  <2>1. mainPc # "done"
    BY <1>5 DEF Work, Timeout, Main, MainTake, MainConnection, MainHand, MainEnd, Fetch, Pick, Accept,
         AcceptFails, AddSocket, Connected, Relisten, MainErase, MainClose, MainDelete, Find, Scan,
         Mark, Give, MainStop, Tell, Reap, Kill
  <2>2. Objects /\ Registered BY <1>5, <2>1 DEF LiveObjects, MapInv
  <2>3. CASE Main
    <3>1. Registered' /\ ~crashed' BY <1>5, <2>2, <2>3, MainRegistered
    <3>2. mainPc' = "done" => MapMatchesDescriptors'
      <4> SUFFICES ASSUME mainPc' = "done" PROVE MapMatchesDescriptors'
        OBVIOUS
      <4>1. MainEnd
        BY <2>1, <2>3 DEF Main, MainTake, MainConnection, MainHand, Fetch, Pick, Accept, AcceptFails,
             AddSocket, Connected, Relisten, MainErase, MainClose, MainDelete, Find, Scan, Mark, Give,
             Handled, Goto
      <4>2. UNCHANGED <<m_connect, open, deleted>> BY <4>1 DEF MainEnd, connVars
      <4> QED BY <1>0, <4>2 DEF MapMatchesDescriptors
    <3> QED BY <3>1, <3>2 DEF MapInv
  <2>4. CASE \E w \in Worker : Work(w) \/ Timeout(w)
    <3>1. PICK w \in Worker : Work(w) \/ Timeout(w) BY <2>4
    <3>2. mainPc' = mainPc BY <3>1 DEF Work, Timeout, WorkFrame
    <3>3. CASE ~crashed'
      BY <1>5, <2>1, <2>2, <3>1, <3>2, <3>3, WorkRegistered DEF MapInv
    <3>4. CASE crashed'
      <4>1. Take(w) /\ WorkFrame
        BY <1>5, <3>1, <3>4 DEF Work, Timeout, WorkSleep, Job, WorkErase, WorkClose, WorkDelete,
             WorkRearm, Settle, Clear, WorkLast
      <4>2. UNCHANGED <<m_connect, open, deleted, m_events, event, mainPc>>
        BY <4>1 DEF Take, WorkFrame, connVars, eventVars
      <4> QED BY <1>0, <3>4, <4>2 DEF MapInv, MapMatchesDescriptors, PendingSd
    <3> QED BY <3>3, <3>4
  <2> QED BY <1>5, <2>3, <2>4
<1> QED BY <1>2, <1>3, <1>4, <1>5 DEF Next, Stopped, Owner

(* m_connect and the descriptors agree (tst.cpp:371): an entry's descriptor *)
(* is open and its object exists, so that accept never meets an old entry   *)
(* (264-268), and an event that tst_main will look up has an entry.         *)
THEOREM MapSafe ==
  ASSUME StaleSd \subseteq {NULL}
  PROVE  Spec => []MapMatchesDescriptors
<1> DEFINE Inv == TypeInv /\ LiveObjects /\ MapInv
<1>1. Init => Inv
  <2>1. Init => ~crashed /\ mainPc # "done" BY DEF Init
  <2> QED BY <2>1, InitTypeInv, InitObjects, InitMap DEF ObjInv, LiveObjects
<1>2. Inv /\ [Next]_vars => Inv' BY NextTypeInv, NextLive, NextMap DEF TypeInv
<1>3. Inv => MapMatchesDescriptors BY MapMatches DEF TypeInv
<1> QED BY <1>1, <1>2, <1>3, PTL DEF Spec

----------------------------------------------------------------------------
(* Accepted connections.  Each is in m_connect, or with the one thread that *)
(* accepts or closes it, or deleted; also after destroy.                    *)

Kept(c) ==
  \/ c \in deleted \/ \E s \in Sd : m_connect[s] = c
  \/ OffMain /\ given.conn = c
  \/ \E w \in Worker : Off(w) /\ used[w].conn = c
KeptInv == \A c \in 1 .. accepted : Kept(c)

LEMMA InitKept == Init => KeptInv
<1> SUFFICES ASSUME Init PROVE KeptInv
  OBVIOUS
<1>1. accepted = 0 BY DEF Init, accepted
<1> QED BY <1>1 DEF KeptInv

(* A connection that nobody touches stays where it is.                      *)
LEMMA KeptStays ==
  ASSUME KeptInv, accepted' = accepted, deleted \subseteq deleted',
         \A s \in Sd : m_connect'[s] = m_connect[s],
         OffMain => OffMain' /\ given' = given,
         \A w \in Worker : Off(w) => Off(w)' /\ used'[w] = used[w]
  PROVE  KeptInv'
<1> SUFFICES ASSUME NEW c \in 1 .. accepted PROVE Kept(c)'
  BY DEF KeptInv
<1>1. Kept(c) BY DEF KeptInv
<1> QED BY <1>1 DEF Kept

LEMMA ConnectionKept ==
  ASSUME TypeInv, ~crashed, Objects, Registered, KeptInv, MainConnection
  PROVE  KeptInv'
<1> USE ServerAssumption
<1>0. TokenInv /\ Placed /\ Safe BY DEF TypeInv, TokenInv
<1>1. UNCHANGED <<workPc, used>> BY DEF MainConnection, workVars
<1>2. \A w \in Worker : Off(w)' <=> Off(w) BY <1>1 DEF Off
<1>3. accepted \in Int /\ \A c \in 1 .. accepted : c # NULL
  <2>1. made \in 0 .. MaxConn /\ backlog \in 0 .. made BY DEF TypeInv, ListenInv
  <2>2. \A c \in 1 .. accepted : c \in Conn BY <2>1 DEF accepted, Conn
  <2> QED BY <2>1, <2>2 DEF accepted
<1>4. CASE Accept
  <2>1. PICK s \in Sd \ open :
          /\ given' = [sd |-> s, conn |-> made - backlog + 1]
          /\ m_connect[s] = NULL => UNCHANGED connVars
    BY <1>4 DEF Accept
  <2>2. mainPc = "accept" /\ mainPc' = "add" /\ made' = made /\ backlog' = backlog - 1
    BY <1>4 DEF Accept, Goto
  <2>3. UNCHANGED <<m_connect, deleted>> BY <1>0, <2>1, <2>2 DEF Safe, Opened, connVars
  <2>4. made \in Int /\ backlog \in Int BY <1>0 DEF Placed
  <2>5. accepted' = accepted + 1 /\ given'.conn = accepted + 1 BY <2>1, <2>2, <2>4 DEF accepted
  <2>6. \A c : Kept(c) => Kept(c)' BY <1>1, <1>2, <2>2, <2>3 DEF Kept, OffMain
  <2>7. \A c : c = accepted + 1 => Kept(c)' BY <2>2, <2>5 DEF Kept, OffMain
  <2>8. \A c \in 1 .. accepted + 1 : c \in 1 .. accepted \/ c = accepted + 1 BY <1>3
  <2>9. \A c \in 1 .. accepted + 1 : Kept(c)' BY <2>6, <2>7, <2>8 DEF KeptInv
  <2> QED BY <2>5, <2>9 DEF KeptInv
<1>5. CASE AcceptFails \/ Relisten
  <2>1. mainPc \notin {"add", "close", "delete"} /\ UNCHANGED <<m_connect, deleted, made, backlog>>
    BY <1>5 DEF AcceptFails, Relisten, connVars, trafficVars
  <2> QED BY <1>1, <1>2, <2>1, KeptStays DEF OffMain, accepted
<1>6. CASE AddSocket
  <2>1. /\ mainPc = "add" /\ m_connect' = [m_connect EXCEPT ![given.sd] = given.conn]
        /\ UNCHANGED <<given, deleted, made, backlog>>
    BY <1>6 DEF AddSocket, trafficVars
  <2>2. given.sd \in Sd /\ m_connect[given.sd] = NULL
    BY <1>0, <2>1 DEF Safe, Fresh, Placed, Registered
  <2>3. \A s \in Sd : m_connect'[s] = IF s = given.sd THEN given.conn ELSE m_connect[s]
    BY <1>0, <2>1, <2>2 DEF Placed
  <2>4. \A c \in 1 .. accepted : Kept(c) => Kept(c)'
    BY <1>1, <1>2, <1>3, <2>1, <2>2, <2>3 DEF Kept
  <2> QED BY <2>1, <2>4 DEF KeptInv, accepted
<1>7. CASE Connected
  <2>1. mainPc = "connected" /\ UNCHANGED <<given, made, backlog>>
    BY <1>7 DEF Connected, trafficVars, Close
  <2>2. CASE UNCHANGED connVars
    BY <1>1, <1>2, <2>1, <2>2, KeptStays DEF connVars, OffMain, accepted
  <2>3. CASE Erase(given.sd) /\ Delete(given.conn)
    <3>1. given.sd \in Sd /\ given.conn = m_connect[given.sd]
      BY <1>0, <2>1 DEF Safe, Fresh, Placed, Objects, Named
    <3>2. \A s \in Sd : m_connect'[s] = IF s = given.sd THEN NULL ELSE m_connect[s]
      BY <1>0, <2>3, <3>1 DEF Erase, Placed
    <3>3. deleted' = deleted \union ({given.conn} \ {NULL}) BY <2>3 DEF Delete
    <3>4. \A c \in 1 .. accepted : Kept(c) => Kept(c)'
      BY <1>1, <1>2, <1>3, <2>1, <3>1, <3>2, <3>3 DEF Kept, OffMain
    <3> QED BY <2>1, <3>4 DEF KeptInv, accepted
  <2> QED BY <1>7, <2>2, <2>3 DEF Connected
<1>8. CASE MainErase
  <2>1. /\ mainPc = "erase" /\ mainPc' = "close" /\ UNCHANGED <<deleted, made, backlog>>
        /\ m_connect' = [m_connect EXCEPT ![event[1]] = NULL]
        /\ given'.conn = m_connect[event[1]]
    BY <1>8 DEF MainErase, Goto, Erase, trafficVars
  <2>2. PICK sd \in Sd : sd = event[1] BY <1>0, <2>1 DEF Safe, Linked, AtHand
  <2>3. \A s \in Sd : m_connect'[s] = IF s = sd THEN NULL ELSE m_connect[s]
    BY <1>0, <2>1, <2>2 DEF Placed
  <2>4. \A c \in 1 .. accepted : Kept(c) => Kept(c)'
    BY <1>1, <1>2, <1>3, <2>1, <2>2, <2>3 DEF Kept, OffMain
  <2> QED BY <2>1, <2>4 DEF KeptInv, accepted
<1>9. CASE MainClose
  <2>1. mainPc' = "delete" /\ UNCHANGED <<given, m_connect, deleted, made, backlog>>
    BY <1>9 DEF MainClose, Goto, connVars, Close
  <2> QED BY <1>1, <1>2, <2>1, KeptStays DEF OffMain, accepted
<1>10. CASE MainDelete
  <2>1. /\ deleted' = deleted \union ({given.conn} \ {NULL})
        /\ UNCHANGED <<m_connect, made, backlog>>
    BY <1>10 DEF MainDelete, Delete, trafficVars
  <2>2. \A c \in 1 .. accepted : Kept(c) => Kept(c)' BY <1>1, <1>2, <1>3, <2>1 DEF Kept
  <2> QED BY <2>1, <2>2 DEF KeptInv, accepted
<1> QED BY <1>4, <1>5, <1>6, <1>7, <1>8, <1>9, <1>10 DEF MainConnection

(* A worker takes out the connection it closes, and deletes it.             *)
LEMMA WorkKept ==
  ASSUME NEW w \in Worker, TypeInv, ~crashed, Objects, KeptInv, Work(w) \/ Timeout(w)
  PROVE  KeptInv'
<1> USE ServerAssumption
<1>0. TokenInv /\ Placed /\ Safe BY DEF TypeInv, TokenInv
<1>1. UNCHANGED <<mainPc, given, made, backlog>>
  BY DEF Work, Timeout, WorkFrame, handVars
<1>2. \A c \in 1 .. accepted : c # NULL
  <2>1. made \in 0 .. MaxConn /\ backlog \in 0 .. made BY DEF TypeInv, ListenInv
  <2> QED BY <2>1 DEF accepted, Conn
<1>3. CASE WorkErase(w)
  <2>1. /\ workPc[w] = "erase" /\ workPc' = [workPc EXCEPT ![w] = "close"]
        /\ m_connect' = [m_connect EXCEPT ![used[w].sd] = NULL] /\ UNCHANGED <<deleted, used>>
    BY <1>3 DEF WorkErase, Erase, Step
  <2>2. PICK sd \in Sd : sd = used[w].sd /\ used[w].conn = m_connect[sd]
    BY <1>0, <2>1 DEF Safe, Linked, UsesSd, Objects, Named
  <2>3. \A s \in Sd : m_connect'[s] = IF s = sd THEN NULL ELSE m_connect[s]
    BY <1>0, <2>1, <2>2 DEF Placed
  <2>4. Off(w)' /\ \A v \in Worker : Off(v) => Off(v)' BY <1>0, <2>1 DEF Off, Placed
  <2>5. \A c \in 1 .. accepted : Kept(c) => Kept(c)'
    BY <1>1, <2>1, <2>2, <2>3, <2>4 DEF Kept, OffMain
  <2> QED BY <1>1, <2>5 DEF KeptInv, accepted
<1>4. CASE WorkDelete(w)
  <2>1. /\ workPc' = [workPc EXCEPT ![w] = "rearm"] /\ UNCHANGED <<m_connect, used>>
        /\ deleted' = deleted \union ({used[w].conn} \ {NULL})
    BY <1>4 DEF WorkDelete, Delete, Step
  <2>2. \A v \in Worker : v # w /\ Off(v) => Off(v)' BY <1>0, <2>1 DEF Off, Placed
  <2>3. \A c \in 1 .. accepted : Kept(c) => Kept(c)'
    BY <1>1, <1>2, <2>1, <2>2 DEF Kept, OffMain
  <2> QED BY <1>1, <2>3 DEF KeptInv, accepted
<1>5. CASE \/ WorkSleep(w) \/ Timeout(w) \/ Take(w) \/ Job(w) \/ WorkClose(w) \/ WorkRearm(w)
           \/ Settle(w) \/ Clear(w) \/ WorkLast(w)
  <2>1. UNCHANGED <<m_connect, deleted>>
    BY <1>5 DEF WorkSleep, Timeout, Take, Job, WorkClose, WorkRearm, Settle, Clear, WorkLast, connVars
  <2>2. \A v \in Worker : Off(v) => Off(v)' /\ used'[v] = used[v]
    BY <1>0, <1>5 DEF WorkSleep, Timeout, Take, Job, WorkClose, WorkRearm, Settle, Clear, WorkLast,
         WorkLoop, Sleep, Wake, Look, Else, Idle, Reset, Step, shareVars, workVars, Placed, Off
  <2> QED BY <1>1, <2>1, <2>2, KeptStays DEF OffMain, accepted
<1> QED BY <1>3, <1>4, <1>5 DEF Work

LEMMA NextKept ==
  ASSUME TypeInv, LiveObjects, MapInv, KeptInv, [Next]_vars
  PROVE  KeptInv'
<1>1. CASE UNCHANGED vars
  BY <1>1, KeptStays DEF vars, connVars, handVars, workVars, trafficVars, OffMain, Off, accepted
<1>2. CASE ~crashed /\ Client
  <2>1. made \in Int /\ backlog \in Int BY DEF TypeInv, TokenInv, Placed
  <2>2. UNCHANGED <<made, backlog>> \/ (made' = made + 1 /\ backlog' = backlog + 1)
    BY <1>2 DEF Client, Connect, Send, HangUp
  <2>3. accepted' = accepted BY <2>1, <2>2 DEF accepted
  <2> QED BY <1>2, <2>3, KeptStays DEF Client, connVars, handVars, workVars, OffMain, Off
<1>3. CASE ~crashed /\ Owner
  <2>1. UNCHANGED <<made, backlog, given, mainPc, workPc, used>>
    BY <1>3 DEF Owner, trafficVars, handVars, workVars
  <2>2. CASE Interrupt \/ Destroy
    BY <2>1, <2>2, KeptStays DEF Interrupt, Destroy, connVars, OffMain, Off, accepted
  <2>3. CASE DestroyJoin
    <3>1. deleted' = deleted \union {m_connect[s] : s \in {t \in Sd : m_connect[t] # NULL}}
      BY <2>3 DEF DestroyJoin
    <3>2. \A c \in 1 .. accepted : c # NULL
      <4>1. made \in 0 .. MaxConn /\ backlog \in 0 .. made BY DEF TypeInv, ListenInv
      <4> QED BY <4>1, ServerAssumption DEF accepted, Conn
    <3>3. \A c \in 1 .. accepted : Kept(c) => Kept(c)' BY <2>1, <3>1, <3>2 DEF Kept, OffMain, Off
    <3> QED BY <2>1, <3>3 DEF KeptInv, accepted
  <2> QED BY <1>3, <2>2, <2>3 DEF Owner
<1>4. CASE ~crashed /\ (Main \/ \E w \in Worker : Work(w) \/ Timeout(w))
  <2>1. mainPc # "done"
    BY <1>4 DEF Work, Timeout, Main, MainTake, MainConnection, MainHand, MainEnd, Fetch, Pick, Accept,
         AcceptFails, AddSocket, Connected, Relisten, MainErase, MainClose, MainDelete, Find, Scan,
         Mark, Give, MainStop, Tell, Reap, Kill
  <2>2. Objects /\ Registered BY <1>4, <2>1 DEF LiveObjects, MapInv
  <2>3. CASE MainTake \/ MainHand \/ MainEnd
    <3>1. UNCHANGED <<m_connect, deleted, made, backlog, workPc, used>>
      BY <2>3 DEF MainTake, MainHand, MainEnd, connVars, trafficVars, workVars
    <3>2. ~OffMain
      BY <2>3 DEF MainTake, MainHand, MainEnd, Fetch, Pick, Find, Scan, Mark, Give, MainStop, Tell, Reap,
           Kill, OffMain
    <3> QED BY <3>1, <3>2, KeptStays DEF Off, accepted
  <2> QED BY <1>4, <2>2, <2>3, ConnectionKept, WorkKept DEF Main
<1> QED BY <1>1, <1>2, <1>3, <1>4 DEF Next, Stopped

(* Every accepted connection is deleted once it has left m_connect and no   *)
(* thread closes it, whatever clients do, however user functions end and    *)
(* whenever the server is stopped or destroyed.                             *)
THEOREM LeakSafe ==
  ASSUME StaleSd \subseteq {NULL}
  PROVE  Spec => []NoLeak
<1> DEFINE Inv == TypeInv /\ LiveObjects /\ MapInv /\ KeptInv
<1>1. Init => Inv
  <2>1. Init => ~crashed /\ mainPc # "done" BY DEF Init
  <2> QED BY <2>1, InitTypeInv, InitObjects, InitMap, InitKept DEF ObjInv, LiveObjects
<1>2. Inv /\ [Next]_vars => Inv' BY NextTypeInv, NextLive, NextMap, NextKept DEF TypeInv
<1>3. Inv => NoLeak BY DEF KeptInv, Kept, NoLeak, accepted
<1> QED BY <1>1, <1>2, <1>3, PTL DEF Spec
=============================================================================
