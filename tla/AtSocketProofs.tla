--------------------------- MODULE AtSocketProofs ---------------------------
(***************************************************************************)
(* Safety of the AT sockets for any number of threads and sockets, any     *)
(* packets and any buffers, as long as sockets are closed in the reverse   *)
(* order of their opening (tidy).                                          *)
(*                                                                         *)
(* The inductive invariant says that the position of a socket in the list  *)
(* is its descriptor (ListOwn), that the threads hold different sockets,   *)
(* and how the state of a socket, the modem's connection and the place of  *)
(* its thread in a call go together (ConnOK).  A second one says which     *)
(* bytes the packets of a socket hold, and that a receiver that is about   *)
(* to wait has found none (DataInv).                                       *)
(***************************************************************************)
EXTENDS AtSocket, IpcListProofs, FiniteSetTheorems

Pcs == {"idle", "connecting", "connected", "state", "wait", "woken", "delay", "closing", "free"}

\* A socket whose packets are of P.
SockRecords(P) ==
    [magic : BOOLEAN, socket : Int, state : {"NONE", "OPEN", "CONNECT", "CLOSED"},
     recvpkt_list : P, recv_notice : Nat]

SockTyped == sock \in [Slots -> SockRecords({sock[s].recvpkt_list : s \in Slots})]

Typed ==
    /\ _socket_list \in Seq(Slots)
    /\ SockTyped
    /\ handle \in [Threads -> [fd : Int, slot : Slots \cup {None}]]
    /\ app \in [Threads -> [pc : Pcs, slot : Slots \cup {None}, wait : BOOLEAN, len : Nat,
                            eof : BOOLEAN]]
    /\ link \in [Slots -> {"none", "up", "closed"}]
    /\ clean \in [Slots -> BOOLEAN] /\ evt_cb \in BOOLEAN

\* The list holds the sockets that are not free, each at the position its descriptor names.
ListOwn ==
    /\ \A i \in 1 .. Len(_socket_list) :
          sock[_socket_list[i]].magic /\ sock[_socket_list[i]].socket = i - 1
    /\ \A s \in Slots : sock[s].magic => \E i \in 1 .. Len(_socket_list) : _socket_list[i] = s

\* The threads hold different sockets.
Distinct ==
    \A t, u \in Threads : t # u /\ handle[t].slot # None => handle[u].slot # handle[t].slot

\* What a connection nothing interfered with looks like at each place of a call.
ConnOK(pc, state, notice, conn) ==
    /\ pc \in {"idle", "delay", "state", "wait", "woken"} =>
          \/ state = "OPEN" /\ conn = "none" /\ notice = 0 /\ pc # "woken"
          \/ state = "CONNECT" /\ conn = "up"
          \/ state = "CLOSED" /\ conn = "closed"
    /\ pc = "connecting" => state = "OPEN" /\ conn = "none" /\ notice = 0
    /\ pc = "connected" => \/ state = "OPEN" /\ conn = "up"
                           \/ state = "CLOSED" /\ conn = "closed"
    /\ pc = "wait" /\ conn = "closed" => notice > 0

\* A thread with a socket.
HolderOK(h, a, sk, conn, cl) ==
    /\ sk.magic /\ sk.socket = h.fd
    /\ a.pc \notin {"idle", "delay"} => a.slot = h.slot
    /\ a.eof => a.pc = "idle" /\ (cl => conn = "closed")
    /\ cl => ConnOK(a.pc, sk.state, sk.recv_notice, conn)

ThreadOwn(t) ==
    IF handle[t].slot = None THEN handle[t] = NoHandle /\ app[t].pc = "idle"
    ELSE HolderOK(handle[t], app[t], sock[handle[t].slot], link[handle[t].slot], clean[handle[t].slot])

SocketInv == Typed /\ ListOwn /\ Distinct /\ \A t \in Threads : ThreadOwn(t)

IInv == tidy => SocketInv

-----------------------------------------------------------------------------
\* Sockets whose packets are of some set are sockets with the packets they have.
LEMMA SockType ==
    ASSUME NEW P, NEW f \in [Slots -> SockRecords(P)]
    PROVE  f \in [Slots -> SockRecords({f[s].recvpkt_list : s \in Slots})]
PROOF
<1>1. ASSUME NEW s \in Slots
      PROVE  f[s] \in SockRecords({f[u].recvpkt_list : u \in Slots})
  <2>1. f[s] \in SockRecords(P)
    OBVIOUS
  <2>2. f[s].recvpkt_list \in {f[u].recvpkt_list : u \in Slots}
    OBVIOUS
  <2> QED BY <2>1, <2>2 DEF SockRecords
<1> QED BY <1>1

\* One socket is replaced or changed in some fields.
LEMMA SockChanged ==
    ASSUME SockTyped, NEW P, NEW s \in Slots, DOMAIN sock' = Slots,
           sock' = [u \in Slots |-> sock'[u]],
           \A u \in Slots \ {s} : sock'[u] = sock[u], sock'[s] \in SockRecords(P)
    PROVE  SockTyped'
PROOF
<1> DEFINE Q == P \cup {sock[u].recvpkt_list : u \in Slots}
<1>1. ASSUME NEW u \in Slots PROVE sock'[u] \in SockRecords(Q)
  <2>1. CASE u = s
    BY <2>1 DEF SockRecords
  <2>2. CASE u # s
    <3>1. sock[u] \in SockRecords({sock[v].recvpkt_list : v \in Slots})
      BY DEF SockTyped
    <3> QED BY <2>2, <3>1 DEF SockRecords
  <2> QED BY <2>1, <2>2
<1>2. sock' \in [Slots -> SockRecords(Q)]
  BY <1>1
<1> HIDE DEF Q
<1>3. sock' \in [Slots -> SockRecords({sock'[u].recvpkt_list : u \in Slots})]
  BY <1>2, SockType
<1> QED BY <1>3 DEF SockTyped

\* No socket is changed.
LEMMA SockKept ==
    ASSUME SockTyped, sock' = sock
    PROVE  SockTyped'
PROOF
<1>1. PICK P : P = {sock[u].recvpkt_list : u \in Slots}
  OBVIOUS
<1>2. sock' \in [Slots -> SockRecords(P)]
  BY <1>1 DEF SockTyped
<1>3. sock' \in [Slots -> SockRecords({sock'[u].recvpkt_list : u \in Slots})]
  BY <1>2, SockType
<1> QED BY <1>3 DEF SockTyped

\* A descriptor finds the socket it was given for; no descriptor finds none.
LEMMA Lookup ==
    ASSUME SocketInv, NEW t \in Threads
    PROVE  /\ at_get_socket(handle[t].fd) = handle[t].slot
           /\ handle[t].slot \in Slots \cup {None}
           /\ handle[t] # NoHandle => handle[t].slot \in Slots
           /\ app[t].pc # "idle" => handle[t].slot \in Slots
PROOF
<1>1. /\ _socket_list \in Seq(Slots) /\ handle[t] \in [fd : Int, slot : Slots \cup {None}]
      /\ ThreadOwn(t) /\ ListOwn
  BY DEF SocketInv, Typed
<1>2. Len(_socket_list) \in Nat /\ DOMAIN _socket_list = 1 .. Len(_socket_list)
  BY <1>1, LenProperties
<1>3. CASE handle[t].slot = None
  <2>1. handle[t] = NoHandle /\ app[t].pc = "idle" /\ handle[t].fd = -1
    BY <1>1, <1>3 DEF ThreadOwn, NoHandle
  <2>2. handle[t].fd + 1 \notin DOMAIN _socket_list
    BY <1>2, <2>1
  <2> QED BY <1>3, <2>1, <2>2 DEF at_get_socket
<1>4. CASE handle[t].slot # None
  <2>1. handle[t].slot \in Slots /\ sock[handle[t].slot].magic
        /\ sock[handle[t].slot].socket = handle[t].fd
    BY <1>1, <1>4 DEF ThreadOwn, HolderOK
  <2>2. PICK i \in 1 .. Len(_socket_list) : _socket_list[i] = handle[t].slot
    BY <1>1, <2>1 DEF ListOwn
  <2>3. handle[t].fd = i - 1
    BY <1>1, <2>1, <2>2 DEF ListOwn
  <2>4. handle[t].fd + 1 = i
    BY <2>3
  <2> QED BY <1>2, <2>1, <2>2, <2>4 DEF at_get_socket
<1> QED BY <1>3, <1>4

\* A thread nothing happens to.
LEMMA Bystander ==
    ASSUME NEW u, ThreadOwn(u), handle'[u] = handle[u], app'[u] = app[u],
           handle[u].slot # None =>
               /\ sock'[handle[u].slot] = sock[handle[u].slot]
               /\ link'[handle[u].slot] = link[handle[u].slot]
               /\ clean'[handle[u].slot] = clean[handle[u].slot]
    PROVE  ThreadOwn(u)'
PROOF
BY DEF ThreadOwn

\* A step of a thread in a call on its socket.
LEMMA HolderStep ==
    ASSUME SocketInv, Typed', NEW t \in Threads, handle[t].slot # None,
           _socket_list' = _socket_list, handle' = handle,
           \A u \in Threads \ {t} : app'[u] = app[u],
           \A s \in Slots \ {handle[t].slot} :
               sock'[s] = sock[s] /\ link'[s] = link[s] /\ clean'[s] = clean[s],
           sock'[handle[t].slot].magic = sock[handle[t].slot].magic,
           sock'[handle[t].slot].socket = sock[handle[t].slot].socket,
           HolderOK(handle[t], app'[t], sock'[handle[t].slot], link'[handle[t].slot],
                    clean'[handle[t].slot])
    PROVE  SocketInv'
PROOF
<1>1. Typed /\ ListOwn /\ Distinct /\ \A u \in Threads : ThreadOwn(u)
  BY DEF SocketInv
<1>2. \A s \in Slots : sock'[s].magic = sock[s].magic /\ sock'[s].socket = sock[s].socket
  OBVIOUS
<1>3. ListOwn'
  <2>1. \A i \in 1 .. Len(_socket_list) : _socket_list[i] \in Slots
    BY <1>1, ElementOfSeq DEF Typed
  <2> QED BY <1>1, <1>2, <2>1 DEF ListOwn
<1>4. Distinct'
  BY <1>1 DEF Distinct
<1>5. ASSUME NEW u \in Threads PROVE ThreadOwn(u)'
  <2>1. CASE u = t
    BY <2>1 DEF ThreadOwn
  <2>2. CASE u # t
    <3>1. handle[u].slot \in Slots \cup {None} /\ handle[u].slot # handle[t].slot
      BY <1>1, <2>2, Lookup DEF Distinct
    <3> QED BY <1>1, <2>2, <3>1, Bystander
  <2> QED BY <2>1, <2>2
<1> QED BY <1>3, <1>4, <1>5 DEF SocketInv

\* A callback of the parser on a socket.
LEMMA CallbackStep ==
    ASSUME SocketInv, Typed', NEW s \in Slots,
           UNCHANGED <<_socket_list, handle, app>>,
           \A r \in Slots \ {s} : sock'[r] = sock[r] /\ link'[r] = link[r] /\ clean'[r] = clean[r],
           sock'[s].magic = sock[s].magic, sock'[s].socket = sock[s].socket,
           \A t \in Threads : handle[t].slot = s =>
               HolderOK(handle[t], app[t], sock'[s], link'[s], clean'[s])
    PROVE  SocketInv'
PROOF
<1>1. Typed /\ ListOwn /\ Distinct /\ \A u \in Threads : ThreadOwn(u)
  BY DEF SocketInv
<1>2. \A r \in Slots : sock'[r].magic = sock[r].magic /\ sock'[r].socket = sock[r].socket
  OBVIOUS
<1>3. ListOwn'
  <2>1. \A i \in 1 .. Len(_socket_list) : _socket_list[i] \in Slots
    BY <1>1, ElementOfSeq DEF Typed
  <2> QED BY <1>1, <1>2, <2>1 DEF ListOwn
<1>4. Distinct'
  BY <1>1 DEF Distinct
<1>5. ASSUME NEW u \in Threads PROVE ThreadOwn(u)'
  <2>1. CASE handle[u].slot = s
    <3>1. s # None
      BY AtSocketAssumption
    <3> QED BY <2>1, <3>1 DEF ThreadOwn
  <2>2. CASE handle[u].slot # s
    <3>1. handle[u].slot \in Slots \cup {None}
      BY Lookup
    <3> QED BY <1>1, <2>2, <3>1, Bystander
  <2> QED BY <2>1, <2>2
<1> QED BY <1>3, <1>4, <1>5 DEF SocketInv

\* What is known of the socket of a thread.
LEMMA HolderFacts ==
    ASSUME SocketInv, NEW t \in Threads, handle[t].slot # None
    PROVE  /\ handle[t].slot \in Slots /\ handle[t].fd \in Int
           /\ HolderOK(handle[t], app[t], sock[handle[t].slot], link[handle[t].slot],
                       clean[handle[t].slot])
           /\ sock[handle[t].slot] \in SockRecords({sock[u].recvpkt_list : u \in Slots})
           /\ app[t] \in [pc : Pcs, slot : Slots \cup {None}, wait : BOOLEAN, len : Nat, eof : BOOLEAN]
           /\ link[handle[t].slot] \in {"none", "up", "closed"} /\ clean[handle[t].slot] \in BOOLEAN
           /\ app[t].pc \notin {"idle", "delay"} => app[t].slot = handle[t].slot
PROOF
<1>1. /\ Typed /\ ThreadOwn(t)
  BY DEF SocketInv
<1>2. handle[t].slot \in Slots
  BY Lookup
<1>3. HolderOK(handle[t], app[t], sock[handle[t].slot], link[handle[t].slot], clean[handle[t].slot])
  BY <1>1 DEF ThreadOwn
<1> QED BY <1>1, <1>2, <1>3 DEF Typed, SockTyped, HolderOK

\* A step that moves a thread in its call and leaves its socket as it is.
LEMMA MoveStep ==
    ASSUME SocketInv, NEW t \in Threads, handle[t].slot # None,
           NEW a \in [pc : Pcs, slot : Slots \cup {None}, wait : BOOLEAN, len : Nat, eof : BOOLEAN],
           app' = [app EXCEPT ![t] = a],
           UNCHANGED <<_socket_list, sock, handle, evt_cb, link, clean>>,
           HolderOK(handle[t], a, sock[handle[t].slot], link[handle[t].slot], clean[handle[t].slot])
    PROVE  SocketInv'
PROOF
<1>1. Typed
  BY DEF SocketInv
<1>2. Typed'
  <2>1. SockTyped'
    BY <1>1, SockKept DEF Typed
  <2> QED BY <1>1, <2>1 DEF Typed
<1>3. app'[t] = a /\ \A u \in Threads \ {t} : app'[u] = app[u]
  BY <1>1 DEF Typed
<1> QED BY <1>2, <1>3, HolderStep

\* at_connect refuses.
LEMMA ConnectRefusedStep ==
    ASSUME SocketInv, NEW t \in Threads, ConnectRefused(t)
    PROVE  SocketInv'
PROOF
<1>1. handle[t].slot # None
  BY Lookup, AtSocketAssumption DEF ConnectRefused
<1>2. AtRest \in [pc : Pcs, slot : Slots \cup {None}, wait : BOOLEAN, len : Nat, eof : BOOLEAN]
  BY DEF AtRest, Pcs
<1>3. HolderOK(handle[t], AtRest, sock[handle[t].slot], link[handle[t].slot], clean[handle[t].slot])
  BY <1>1, HolderFacts DEF HolderOK, ConnOK, AtRest, ConnectRefused, Idle
<1> QED BY <1>1, <1>2, <1>3, MoveStep DEF ConnectRefused, Return, netVars

\* at_connect goes to the driver.
LEMMA ConnectBeginStep ==
    ASSUME SocketInv, NEW t \in Threads, ConnectBegin(t)
    PROVE  SocketInv'
PROOF
<1>1. handle[t].slot # None /\ at_get_socket(handle[t].fd) = handle[t].slot
  BY Lookup DEF ConnectBegin
<1> DEFINE a == [AtRest EXCEPT !.pc = "connecting", !.slot = handle[t].slot]
<1>2. a \in [pc : Pcs, slot : Slots \cup {None}, wait : BOOLEAN, len : Nat, eof : BOOLEAN]
  BY <1>1, HolderFacts DEF AtRest, Pcs
<1>3. HolderOK(handle[t], a, sock[handle[t].slot], link[handle[t].slot], clean[handle[t].slot])
  BY <1>1, HolderFacts DEF HolderOK, ConnOK, AtRest, ConnectBegin, Idle
<1>4. app' = [app EXCEPT ![t] = a]
  BY <1>1 DEF ConnectBegin
<1> HIDE DEF a
<1> QED BY <1>1, <1>2, <1>3, <1>4, MoveStep DEF ConnectBegin, netVars

\* The driver returns from at_connect.
LEMMA ModemConnectsStep ==
    ASSUME SocketInv, NEW t \in Threads, ModemConnects(t)
    PROVE  SocketInv'
PROOF
<1>0. Typed
  BY DEF SocketInv
<1>1. /\ handle[t].slot \in Slots /\ handle[t].slot # None /\ app[t].slot = handle[t].slot
      /\ app[t].pc = "connecting"
  BY Lookup, HolderFacts, AtSocketAssumption DEF ModemConnects
<1> DEFINE R == [pc : Pcs, slot : Slots \cup {None}, wait : BOOLEAN, len : Nat, eof : BOOLEAN]
<1>2. app \in [Threads -> R] /\ app[t] \in R
  BY <1>0 DEF Typed
<1>3. AtRest \in R /\ [app[t] EXCEPT !.pc = "connected"] \in R
  BY <1>2 DEF AtRest, Pcs
<1>4. app' = [app EXCEPT ![t] = AtRest] \/ app' = [app EXCEPT ![t] = [app[t] EXCEPT !.pc = "connected"]]
  BY <1>2 DEF ModemConnects, Goto, Return
<1>5. app' \in [Threads -> R] /\ \A u \in Threads \ {t} : app'[u] = app[u]
  BY <1>2, <1>3, <1>4
<1> HIDE DEF R
<1>6. Typed'
  <2>1. link' \in [Slots -> {"none", "up", "closed"}] /\ clean' \in [Slots -> BOOLEAN]
    BY <1>0, <1>1 DEF Typed, ModemConnects
  <2>2. sock' = sock
    BY DEF ModemConnects
  <2>3. SockTyped'
    BY <1>0, <2>2, SockKept DEF Typed
  <2> QED BY <1>0, <1>5, <2>1, <2>3 DEF Typed, ModemConnects, R
<1>7. \A s \in Slots \ {handle[t].slot} :
          sock'[s] = sock[s] /\ link'[s] = link[s] /\ clean'[s] = clean[s]
  BY <1>0, <1>1 DEF ModemConnects, Typed
<1>8. HolderOK(handle[t], app'[t], sock'[handle[t].slot], link'[handle[t].slot], clean'[handle[t].slot])
  <2>1. HolderOK(handle[t], app[t], sock[handle[t].slot], link[handle[t].slot], clean[handle[t].slot])
    BY <1>1, HolderFacts
  <2>2. sock' = sock
    BY DEF ModemConnects
  <2>3. CASE link' = [link EXCEPT ![app[t].slot] = "up"] /\ Goto(t, "connected") /\ UNCHANGED clean
    <3>1. app'[t] = [app[t] EXCEPT !.pc = "connected"] /\ link'[handle[t].slot] = "up"
      BY <1>0, <1>1, <1>2, <2>3 DEF Goto, Typed
    <3> QED BY <1>1, <1>2, <2>1, <2>2, <2>3, <3>1 DEF HolderOK, ConnOK, R
  <2>4. CASE /\ clean' = [clean EXCEPT ![app[t].slot] = FALSE] /\ Return(t)
    <3>1. app'[t] = AtRest /\ clean'[handle[t].slot] = FALSE
      BY <1>0, <1>1, <1>2, <2>4 DEF Return, Typed
    <3> QED BY <2>1, <2>2, <3>1 DEF HolderOK, AtRest
  <2>5. CASE Return(t) /\ UNCHANGED <<link, clean>>
    <3>1. app'[t] = AtRest
      BY <1>2, <2>5 DEF Return
    <3> QED BY <1>1, <2>1, <2>2, <2>5, <3>1 DEF HolderOK, ConnOK, AtRest
  <2> QED BY <2>3, <2>4, <2>5 DEF ModemConnects
<1>9. _socket_list' = _socket_list /\ handle' = handle /\ sock' = sock
  BY DEF ModemConnects
<1> QED BY <1>1, <1>5, <1>6, <1>7, <1>8, <1>9, HolderStep

\* at_connect ends: the assignment of CONNECT, whatever has happened meanwhile.
LEMMA ConnectEndStep ==
    ASSUME SocketInv, NEW t \in Threads, ConnectEnd(t)
    PROVE  SocketInv'
PROOF
<1>0. Typed
  BY DEF SocketInv
<1>1. /\ handle[t].slot \in Slots /\ handle[t].slot # None /\ app[t].slot = handle[t].slot
      /\ app[t].pc = "connected"
  BY Lookup, HolderFacts, AtSocketAssumption DEF ConnectEnd
<1>2. PICK s \in Slots : s = handle[t].slot
  BY <1>1
<1>3. /\ sock' = [sock EXCEPT ![s].state = "CONNECT"]
      /\ clean' = [clean EXCEPT ![s] = @ /\ link[s] = "up"]
      /\ app' = [app EXCEPT ![t] = AtRest]
      /\ evt_cb' = TRUE /\ UNCHANGED <<_socket_list, handle, link>>
  BY <1>1, <1>2 DEF ConnectEnd, Return
<1>4. /\ HolderOK(handle[t], app[t], sock[s], link[s], clean[s])
      /\ sock[s] \in SockRecords({sock[u].recvpkt_list : u \in Slots})
      /\ clean[s] \in BOOLEAN /\ link[s] \in {"none", "up", "closed"}
  BY <1>1, <1>2, HolderFacts
<1>5. /\ sock'[s] = [sock[s] EXCEPT !.state = "CONNECT"] /\ clean'[s] = (clean[s] /\ link[s] = "up")
      /\ app'[t] = AtRest /\ \A u \in Threads \ {t} : app'[u] = app[u]
      /\ \A r \in Slots \ {s} : sock'[r] = sock[r] /\ clean'[r] = clean[r]
  BY <1>0, <1>3 DEF Typed, SockTyped
<1>6. Typed'
  <2>1. SockTyped'
    <3>1. DOMAIN sock' = Slots /\ sock' = [u \in Slots |-> sock'[u]]
      BY <1>0, <1>3 DEF Typed, SockTyped
    <3>2. PICK P : P = {sock[u].recvpkt_list : u \in Slots}
      OBVIOUS
    <3>3. sock'[s] \in SockRecords(P)
      BY <1>4, <1>5, <3>2 DEF SockRecords
    <3>4. SockTyped /\ \A u \in Slots \ {s} : sock'[u] = sock[u]
      BY <1>0, <1>5 DEF Typed
    <3> QED BY <3>1, <3>3, <3>4, SockChanged
  <2>2. clean' \in [Slots -> BOOLEAN]
    BY <1>0, <1>3 DEF Typed
  <2>3. app' \in [Threads -> [pc : Pcs, slot : Slots \cup {None}, wait : BOOLEAN, len : Nat, eof : BOOLEAN]]
    BY <1>0, <1>3 DEF Typed, AtRest, Pcs
  <2> QED BY <1>0, <1>3, <2>1, <2>2, <2>3 DEF Typed
<1>8. /\ sock'[s].magic = sock[s].magic /\ sock'[s].socket = sock[s].socket
      /\ sock'[s].state = "CONNECT"
  BY <1>4, <1>5 DEF SockRecords
<1>7. HolderOK(handle[t], app'[t], sock'[s], link'[s], clean'[s])
  <2>1. app'[t].pc = "idle" /\ app'[t].eof = FALSE
    BY <1>5 DEF AtRest
  <2>2. clean'[s] => link'[s] = "up"
    BY <1>3, <1>5
  <2>3. ConnOK("idle", "CONNECT", sock'[s].recv_notice, "up")
    BY DEF ConnOK
  <2> QED BY <1>4, <1>8, <2>1, <2>2, <2>3 DEF HolderOK
<1> QED BY <1>1, <1>2, <1>3, <1>5, <1>6, <1>7, <1>8, HolderStep

\* A step of a thread that changes its socket and leaves the connection as it is.
LEMMA FieldStep ==
    ASSUME SocketInv, NEW t \in Threads, handle[t].slot # None,
           NEW a \in [pc : Pcs, slot : Slots \cup {None}, wait : BOOLEAN, len : Nat, eof : BOOLEAN],
           NEW P, NEW r \in SockRecords(P),
           app' = [app EXCEPT ![t] = a], sock' = [sock EXCEPT ![handle[t].slot] = r],
           UNCHANGED <<_socket_list, handle, evt_cb, link, clean>>,
           r.magic = sock[handle[t].slot].magic, r.socket = sock[handle[t].slot].socket,
           HolderOK(handle[t], a, r, link[handle[t].slot], clean[handle[t].slot])
    PROVE  SocketInv'
PROOF
<1>0. Typed
  BY DEF SocketInv
<1>1. PICK s \in Slots : s = handle[t].slot
  BY Lookup
<1>2. /\ DOMAIN sock' = Slots /\ sock' = [u \in Slots |-> sock'[u]] /\ sock'[s] = r
      /\ \A u \in Slots \ {s} : sock'[u] = sock[u]
  BY <1>0, <1>1 DEF Typed, SockTyped
<1>3. app'[t] = a /\ \A u \in Threads \ {t} : app'[u] = app[u]
  BY <1>0 DEF Typed
<1>4. Typed'
  <2>1. SockTyped'
    <3>1. SockTyped
      BY <1>0 DEF Typed
    <3>2. sock'[s] \in SockRecords(P)
      BY <1>2
    <3> QED BY <1>2, <3>1, <3>2, SockChanged
  <2> QED BY <1>0, <2>1 DEF Typed
<1>5. /\ sock'[handle[t].slot].magic = sock[handle[t].slot].magic
      /\ sock'[handle[t].slot].socket = sock[handle[t].slot].socket
      /\ HolderOK(handle[t], app'[t], sock'[handle[t].slot], link'[handle[t].slot],
                  clean'[handle[t].slot])
  BY <1>1, <1>2, <1>3
<1>6. \A u \in Slots \ {handle[t].slot} :
          sock'[u] = sock[u] /\ link'[u] = link[u] /\ clean'[u] = clean[u]
  BY <1>1, <1>2
<1> QED BY <1>3, <1>4, <1>5, <1>6, HolderStep

\* at_recvpkt_get took bytes of the socket's packets, and the call returns.
LEMMA GotStep ==
    ASSUME SocketInv, NEW t \in Threads, NEW s \in Slots, handle[t].slot = s,
           NEW rest, NEW r, r = [sock[s] EXCEPT !.recvpkt_list = rest],
           app[t].pc \in {"idle", "woken"},
           sock' = [sock EXCEPT ![s] = r], Return(t),
           UNCHANGED <<_socket_list, handle, evt_cb, link, clean>>
    PROVE  SocketInv'
PROOF
<1>0. Typed
  BY DEF SocketInv
<1>1. handle[t].slot # None
  BY AtSocketAssumption
<1>2. /\ HolderOK(handle[t], app[t], sock[s], link[s], clean[s])
      /\ sock[s] \in SockRecords({sock[u].recvpkt_list : u \in Slots})
      /\ clean[s] \in BOOLEAN /\ link[s] \in {"none", "up", "closed"}
  BY <1>1, HolderFacts
<1>4. /\ r \in SockRecords({rest}) /\ r.magic = sock[s].magic /\ r.socket = sock[s].socket
      /\ r.state = sock[s].state /\ r.recv_notice = sock[s].recv_notice
  BY <1>2 DEF SockRecords
<1>6. AtRest \in [pc : Pcs, slot : Slots \cup {None}, wait : BOOLEAN, len : Nat, eof : BOOLEAN]
  BY DEF AtRest, Pcs
<1>7. HolderOK(handle[t], AtRest, r, link[s], clean[s])
  BY <1>2, <1>4 DEF HolderOK, ConnOK, AtRest
<1>8. app' = [app EXCEPT ![t] = AtRest]
  BY DEF Return
<1>9. PICK P : P = {rest}
  OBVIOUS
<1> QED BY <1>1, <1>4, <1>6, <1>7, <1>8, <1>9, FieldStep

\* at_recvfrom begins: bytes, or the state is looked at next.
LEMMA RecvBeginStep ==
    ASSUME SocketInv, NEW t \in Threads, RecvBegin(t)
    PROVE  SocketInv'
PROOF
<1>0. Typed
  BY DEF SocketInv
<1>1. /\ handle[t].slot # None /\ at_get_socket(handle[t].fd) = handle[t].slot
      /\ app[t].pc = "idle"
  BY Lookup DEF RecvBegin, Idle
<1>2. PICK s \in Slots : s = handle[t].slot
  BY <1>1, HolderFacts
<1>3. PICK len \in Lens, wait \in BOOLEAN :
          Got(t, s, len,
              app' = [app EXCEPT ![t] = [pc |-> "state", slot |-> s,
                                         wait |-> wait, len |-> len, eof |-> FALSE]])
  BY <1>1, <1>2 DEF RecvBegin
<1>4. UNCHANGED <<_socket_list, handle, evt_cb, link, clean>>
  BY DEF RecvBegin
<1>a. PICK k, g :
         /\ k \in 1 .. Len(sock[s].recvpkt_list) + 1
         /\ g = at_recvpkt_get(sock[s].recvpkt_list, k, len)
         /\ IF g.mem # <<>>
            THEN sock' = [sock EXCEPT ![s].recvpkt_list = g.rest] /\ Return(t)
            ELSE /\ app' = [app EXCEPT ![t] = [pc |-> "state", slot |-> s, wait |-> wait,
                                               len |-> len, eof |-> FALSE]]
                 /\ UNCHANGED sock
  BY <1>3 DEF Got
<1>5. CASE g.mem # <<>>
  <2>1. PICK rest : rest = g.rest
    OBVIOUS
  <2>2. PICK r : r = [sock[s] EXCEPT !.recvpkt_list = rest]
    OBVIOUS
  <2>3. sock' = [sock EXCEPT ![s] = r] /\ Return(t)
    BY <1>0, <1>2, <1>a, <1>5, <2>1, <2>2 DEF Typed, SockTyped
  <2>4. handle[t].slot = s /\ app[t].pc \in {"idle", "woken"}
    BY <1>1, <1>2
  <2> QED BY <1>4, <2>2, <2>3, <2>4, GotStep
<1>6. CASE g.mem = <<>>
  <2>1. PICK a : a = [pc |-> "state", slot |-> s, wait |-> wait, len |-> len, eof |-> FALSE]
    OBVIOUS
  <2>2. app' = [app EXCEPT ![t] = a] /\ UNCHANGED sock
    BY <1>a, <1>6, <2>1
  <2>3. a \in [pc : Pcs, slot : Slots \cup {None}, wait : BOOLEAN, len : Nat, eof : BOOLEAN]
    BY <2>1, AtSocketAssumption DEF Pcs
  <2>4. HolderOK(handle[t], a, sock[s], link[s], clean[s])
    <3>1. HolderOK(handle[t], app[t], sock[s], link[s], clean[s])
      BY <1>1, <1>2, HolderFacts
    <3> QED BY <1>1, <1>2, <2>1, <3>1 DEF HolderOK, ConnOK
  <2> QED BY <1>1, <1>2, <1>4, <2>2, <2>3, <2>4, MoveStep
<1> QED BY <1>5, <1>6

\* The state is looked at: wait, or return.
LEMMA RecvStateStep ==
    ASSUME SocketInv, NEW t \in Threads, RecvState(t)
    PROVE  SocketInv'
PROOF
<1>0. Typed
  BY DEF SocketInv
<1>1. /\ handle[t].slot \in Slots /\ handle[t].slot # None /\ app[t].slot = handle[t].slot
      /\ app[t].pc = "state"
  BY Lookup, HolderFacts, AtSocketAssumption DEF RecvState
<1>2. PICK s \in Slots : s = handle[t].slot
  BY <1>1
<1> DEFINE R == [pc : Pcs, slot : Slots \cup {None}, wait : BOOLEAN, len : Nat, eof : BOOLEAN]
<1>3. /\ HolderOK(handle[t], app[t], sock[s], link[s], clean[s])
      /\ sock[s].state \in {"NONE", "OPEN", "CONNECT", "CLOSED"}
      /\ app[t] \in R /\ app[t].wait \in BOOLEAN
  BY <1>1, <1>2, HolderFacts DEF SockRecords
<1>4. UNCHANGED <<_socket_list, sock, handle, evt_cb, link, clean>>
  BY DEF RecvState, netVars
<1>5. CASE sock[s].state \in {"CONNECT", "OPEN"} /\ app[t].wait
  <2>1. PICK a : a = [app[t] EXCEPT !.pc = "wait"]
    OBVIOUS
  <2>2. app' = [app EXCEPT ![t] = a]
    BY <1>0, <1>1, <1>2, <1>5, <2>1 DEF RecvState, Goto, Typed
  <2>3. a \in R /\ a.pc = "wait" /\ a.slot = app[t].slot /\ a.eof = app[t].eof
    BY <1>3, <2>1 DEF Pcs
  <2>4. HolderOK(handle[t], a, sock[s], link[s], clean[s])
    BY <1>1, <1>2, <1>3, <1>5, <2>3 DEF HolderOK, ConnOK
  <2> QED BY <1>1, <1>2, <1>4, <2>2, <2>3, <2>4, MoveStep
<1>6. CASE ~(sock[s].state \in {"CONNECT", "OPEN"} /\ app[t].wait) /\ sock[s].state = "NONE"
  <2>2. app' = [app EXCEPT ![t] = AtRest]
    BY <1>1, <1>2, <1>6 DEF RecvState, Return
  <2>3. AtRest \in R /\ AtRest.pc = "idle" /\ AtRest.eof = FALSE
    BY DEF AtRest, Pcs
  <2>4. HolderOK(handle[t], AtRest, sock[s], link[s], clean[s])
    BY <1>1, <1>3, <2>3 DEF HolderOK, ConnOK
  <2> QED BY <1>1, <1>2, <1>4, <2>2, <2>3, <2>4, MoveStep
<1>7. CASE ~(sock[s].state \in {"CONNECT", "OPEN"} /\ app[t].wait) /\ sock[s].state # "NONE"
  <2>1. PICK a : a = [AtRest EXCEPT !.eof = app[t].wait]
    OBVIOUS
  <2>2. app' = [app EXCEPT ![t] = a]
    BY <1>1, <1>2, <1>7, <2>1 DEF RecvState, ReturnZero
  <2>3. a \in R /\ a.pc = "idle" /\ a.eof = app[t].wait
    BY <1>3, <2>1 DEF AtRest, Pcs
  <2>4. HolderOK(handle[t], a, sock[s], link[s], clean[s])
    BY <1>1, <1>3, <1>7, <2>3 DEF HolderOK, ConnOK
  <2> QED BY <1>1, <1>2, <1>4, <2>2, <2>3, <2>4, MoveStep
<1> QED BY <1>5, <1>6, <1>7

\* A notice is taken.
LEMMA RecvTakesStep ==
    ASSUME SocketInv, NEW t \in Threads, RecvTakes(t)
    PROVE  SocketInv'
PROOF
<1>0. Typed
  BY DEF SocketInv
<1>1. /\ handle[t].slot \in Slots /\ handle[t].slot # None /\ app[t].slot = handle[t].slot
      /\ app[t].pc = "wait"
  BY Lookup, HolderFacts, AtSocketAssumption DEF RecvTakes
<1>2. PICK s \in Slots : s = handle[t].slot
  BY <1>1
<1> DEFINE R == [pc : Pcs, slot : Slots \cup {None}, wait : BOOLEAN, len : Nat, eof : BOOLEAN]
<1>3. /\ HolderOK(handle[t], app[t], sock[s], link[s], clean[s])
      /\ sock[s] \in SockRecords({sock[u].recvpkt_list : u \in Slots})
      /\ sock[s].recv_notice \in Nat /\ sock[s].recv_notice > 0
      /\ app[t] \in R
  BY <1>1, <1>2, HolderFacts DEF SockRecords, RecvTakes
<1>4. UNCHANGED <<_socket_list, handle, evt_cb, link, clean>>
  BY DEF RecvTakes, netVars
<1>5. PICK r : r = [sock[s] EXCEPT !.recv_notice = @ - 1]
  OBVIOUS
<1>6. PICK P : P = {sock[u].recvpkt_list : u \in Slots}
  OBVIOUS
<1>7. /\ r \in SockRecords(P) /\ r.magic = sock[s].magic /\ r.socket = sock[s].socket
      /\ r.state = sock[s].state
  BY <1>3, <1>5, <1>6 DEF SockRecords
<1>8. sock' = [sock EXCEPT ![s] = r]
  BY <1>0, <1>1, <1>2, <1>5 DEF RecvTakes, Typed, SockTyped
<1>9. PICK a : a = [app[t] EXCEPT !.pc = "woken"]
  OBVIOUS
<1>10. app' = [app EXCEPT ![t] = a]
  BY <1>0, <1>9 DEF RecvTakes, Goto, Typed
<1>11. a \in R /\ a.pc = "woken" /\ a.slot = app[t].slot /\ a.eof = app[t].eof
  BY <1>3, <1>9 DEF Pcs
<1>12. HolderOK(handle[t], a, r, link[s], clean[s])
  BY <1>1, <1>2, <1>3, <1>7, <1>11 DEF HolderOK, ConnOK
<1> QED BY <1>1, <1>2, <1>4, <1>7, <1>8, <1>10, <1>11, <1>12, FieldStep

\* rt_sem_take times out.
LEMMA RecvTimeoutStep ==
    ASSUME SocketInv, NEW t \in Threads, RecvTimeout(t)
    PROVE  SocketInv'
PROOF
<1>1. handle[t].slot # None /\ app[t].pc = "wait"
  BY Lookup, AtSocketAssumption DEF RecvTimeout
<1>2. AtRest \in [pc : Pcs, slot : Slots \cup {None}, wait : BOOLEAN, len : Nat, eof : BOOLEAN]
  BY DEF AtRest, Pcs
<1>3. HolderOK(handle[t], AtRest, sock[handle[t].slot], link[handle[t].slot], clean[handle[t].slot])
  BY <1>1, HolderFacts DEF HolderOK, ConnOK, AtRest
<1> QED BY <1>1, <1>2, <1>3, MoveStep DEF RecvTimeout, Return, netVars

\* After a notice: bytes, another wait, or the end of the stream.
LEMMA RecvWokenStep ==
    ASSUME SocketInv, NEW t \in Threads, RecvWoken(t)
    PROVE  SocketInv'
PROOF
<1>0. Typed
  BY DEF SocketInv
<1>1. /\ handle[t].slot \in Slots /\ handle[t].slot # None /\ app[t].slot = handle[t].slot
      /\ app[t].pc = "woken"
  BY Lookup, HolderFacts, AtSocketAssumption DEF RecvWoken
<1>2. PICK s \in Slots : s = handle[t].slot
  BY <1>1
<1> DEFINE R == [pc : Pcs, slot : Slots \cup {None}, wait : BOOLEAN, len : Nat, eof : BOOLEAN]
<1>3. /\ HolderOK(handle[t], app[t], sock[s], link[s], clean[s])
      /\ app[t] \in R /\ app[t].wait \in BOOLEAN
  BY <1>1, <1>2, HolderFacts
<1>4. UNCHANGED <<_socket_list, handle, evt_cb, link, clean>>
  BY DEF RecvWoken
<1>5. CASE sock[s].state = "CONNECT" /\ Got(t, s, app[t].len, Goto(t, "wait"))
  <2>0. PICK k, g :
           /\ k \in 1 .. Len(sock[s].recvpkt_list) + 1
           /\ g = at_recvpkt_get(sock[s].recvpkt_list, k, app[t].len)
           /\ IF g.mem # <<>>
              THEN sock' = [sock EXCEPT ![s].recvpkt_list = g.rest] /\ Return(t)
              ELSE Goto(t, "wait") /\ UNCHANGED sock
    BY <1>5 DEF Got
  <2>1. CASE g.mem # <<>>
    <3>1. PICK rest : rest = g.rest
      OBVIOUS
    <3>2. PICK r : r = [sock[s] EXCEPT !.recvpkt_list = rest]
      OBVIOUS
    <3>3. sock' = [sock EXCEPT ![s] = r] /\ Return(t)
      BY <1>0, <1>2, <2>0, <2>1, <3>1, <3>2 DEF Typed, SockTyped
    <3>4. handle[t].slot = s /\ app[t].pc \in {"idle", "woken"}
      BY <1>1, <1>2
    <3> QED BY <1>4, <3>2, <3>3, <3>4, GotStep
  <2>2. CASE g.mem = <<>>
    <3>1. PICK a : a = [app[t] EXCEPT !.pc = "wait"]
      OBVIOUS
    <3>2. app' = [app EXCEPT ![t] = a] /\ UNCHANGED sock
      BY <1>0, <2>0, <2>2, <3>1 DEF Goto, Typed
    <3>3. a \in R /\ a.pc = "wait" /\ a.slot = app[t].slot /\ a.eof = app[t].eof
      BY <1>3, <3>1 DEF Pcs
    <3>4. HolderOK(handle[t], a, sock[s], link[s], clean[s])
      BY <1>1, <1>2, <1>3, <1>5, <3>3 DEF HolderOK, ConnOK
    <3> QED BY <1>1, <1>2, <1>4, <3>2, <3>3, <3>4, MoveStep
  <2> QED BY <2>1, <2>2
<1>6. CASE sock[s].state # "CONNECT" /\ ReturnZero(t) /\ UNCHANGED <<sock, read>>
  <2>1. PICK a : a = [AtRest EXCEPT !.eof = app[t].wait]
    OBVIOUS
  <2>2. app' = [app EXCEPT ![t] = a]
    BY <1>6, <2>1 DEF ReturnZero
  <2>3. a \in R /\ a.pc = "idle" /\ a.eof = app[t].wait
    BY <1>3, <2>1 DEF AtRest, Pcs
  <2>4. HolderOK(handle[t], a, sock[s], link[s], clean[s])
    BY <1>1, <1>3, <1>6, <2>3 DEF HolderOK, ConnOK
  <2> QED BY <1>1, <1>2, <1>4, <1>6, <2>2, <2>3, <2>4, MoveStep
<1> QED BY <1>1, <1>2, <1>5, <1>6 DEF RecvWoken

\* at_closesocket begins with its delay.
LEMMA CloseBeginStep ==
    ASSUME SocketInv, NEW t \in Threads, CloseBegin(t)
    PROVE  SocketInv'
PROOF
<1>1. handle[t].slot # None /\ app[t].pc = "idle"
  BY Lookup, AtSocketAssumption DEF CloseBegin, Idle
<1>2. PICK a : a = [AtRest EXCEPT !.pc = "delay"]
  OBVIOUS
<1>3. /\ a \in [pc : Pcs, slot : Slots \cup {None}, wait : BOOLEAN, len : Nat, eof : BOOLEAN]
      /\ a.pc = "delay" /\ a.eof = FALSE
  BY <1>2 DEF AtRest, Pcs
<1>4. HolderOK(handle[t], a, sock[handle[t].slot], link[handle[t].slot], clean[handle[t].slot])
  BY <1>1, <1>3, HolderFacts DEF HolderOK, ConnOK
<1>5. app' = [app EXCEPT ![t] = a]
  BY <1>2 DEF CloseBegin
<1> QED BY <1>1, <1>3, <1>4, <1>5, MoveStep DEF CloseBegin, netVars

\* at_closesocket finds the socket and changes its state in advance.
LEMMA CloseFindStep ==
    ASSUME SocketInv, NEW t \in Threads, CloseFind(t)
    PROVE  SocketInv'
PROOF
<1>0. Typed
  BY DEF SocketInv
<1>1. /\ handle[t].slot \in Slots /\ handle[t].slot # None
      /\ at_get_socket(handle[t].fd) = handle[t].slot /\ app[t].pc = "delay"
  BY Lookup, AtSocketAssumption DEF CloseFind
<1>2. PICK s \in Slots : s = handle[t].slot
  BY <1>1
<1> DEFINE R == [pc : Pcs, slot : Slots \cup {None}, wait : BOOLEAN, len : Nat, eof : BOOLEAN]
<1>3. /\ HolderOK(handle[t], app[t], sock[s], link[s], clean[s])
      /\ sock[s] \in SockRecords({sock[u].recvpkt_list : u \in Slots})
      /\ app[t] \in R
  BY <1>1, <1>2, HolderFacts
<1>4. UNCHANGED <<_socket_list, handle, evt_cb, link, clean>>
  BY <1>1 DEF CloseFind, netVars
<1>5. PICK r : r = [sock[s] EXCEPT !.state = "CLOSED"]
  OBVIOUS
<1>6. PICK P : P = {sock[u].recvpkt_list : u \in Slots}
  OBVIOUS
<1>7. r \in SockRecords(P) /\ r.magic = sock[s].magic /\ r.socket = sock[s].socket
  BY <1>3, <1>5, <1>6 DEF SockRecords
<1>8. sock' = [sock EXCEPT ![s] = r]
  BY <1>0, <1>1, <1>2, <1>5 DEF CloseFind, Typed, SockTyped
<1>9. PICK pc \in {"free", "closing"} : pc = IF sock[s].state = "CLOSED" THEN "free" ELSE "closing"
  OBVIOUS
<1>10. PICK a : a = [app[t] EXCEPT !.slot = s, !.pc = pc]
  OBVIOUS
<1>11. app' = [app EXCEPT ![t] = a]
  BY <1>0, <1>1, <1>2, <1>9, <1>10 DEF CloseFind, Typed
<1>12. a \in R /\ a.pc \in {"free", "closing"} /\ a.slot = s /\ a.eof = app[t].eof
  BY <1>3, <1>10 DEF Pcs
<1>13. HolderOK(handle[t], a, r, link[s], clean[s])
  BY <1>1, <1>2, <1>3, <1>7, <1>12 DEF HolderOK, ConnOK
<1> QED BY <1>1, <1>2, <1>4, <1>7, <1>8, <1>11, <1>12, <1>13, FieldStep

\* The driver returns from at_closesocket.
LEMMA ModemClosesStep ==
    ASSUME SocketInv, NEW t \in Threads, ModemCloses(t)
    PROVE  SocketInv'
PROOF
<1>0. Typed
  BY DEF SocketInv
<1>1. /\ handle[t].slot \in Slots /\ handle[t].slot # None /\ app[t].slot = handle[t].slot
      /\ app[t].pc = "closing"
  BY Lookup, HolderFacts, AtSocketAssumption DEF ModemCloses
<1>2. PICK s \in Slots : s = handle[t].slot
  BY <1>1
<1> DEFINE R == [pc : Pcs, slot : Slots \cup {None}, wait : BOOLEAN, len : Nat, eof : BOOLEAN]
<1>3. /\ HolderOK(handle[t], app[t], sock[s], link[s], clean[s])
      /\ app \in [Threads -> R] /\ app[t] \in R
  BY <1>0, <1>1, <1>2, HolderFacts DEF Typed
<1>4. UNCHANGED <<_socket_list, sock, handle, evt_cb, clean>>
  BY DEF ModemCloses
<1>5. PICK a : a = [app[t] EXCEPT !.pc = "free"]
  OBVIOUS
<1>6. a \in R /\ a.pc = "free" /\ a.slot = app[t].slot /\ a.eof = app[t].eof
  BY <1>3, <1>5 DEF Pcs
<1>7. app' = [app EXCEPT ![t] = a]
  BY <1>3, <1>5 DEF ModemCloses, Goto
<1>8. app'[t] = a /\ (\A u \in Threads \ {t} : app'[u] = app[u]) /\ app' \in [Threads -> R]
  BY <1>3, <1>6, <1>7
<1>9. /\ link' \in [Slots -> {"none", "up", "closed"}]
      /\ \A u \in Slots \ {s} : link'[u] = link[u]
  BY <1>0, <1>1, <1>2 DEF ModemCloses, Typed
<1>10. Typed'
  <2>1. SockTyped'
    BY <1>0, <1>4, SockKept DEF Typed
  <2> QED BY <1>0, <1>4, <1>8, <1>9, <2>1 DEF Typed
<1>11. HolderOK(handle[t], app'[t], sock'[s], link'[s], clean'[s])
  BY <1>1, <1>2, <1>3, <1>4, <1>6, <1>8 DEF HolderOK, ConnOK
<1> QED BY <1>1, <1>2, <1>4, <1>8, <1>9, <1>10, <1>11, HolderStep

\* What +RECEIVE does to a socket: nothing, or a notice with or without a packet.
LEMMA ArrivesFacts ==
    ASSUME NEW s \in Slots, DataArrives(s)
    PROVE  \/ UNCHANGED <<sock, stored>>
           \/ /\ sock' = [sock EXCEPT ![s].recv_notice = @ + 1]
              /\ UNCHANGED stored
           \/ \E n \in Sizes :
                 /\ sock' = [sock EXCEPT ![s].recvpkt_list = Queued(s, n), ![s].recv_notice = @ + 1]
                 /\ stored' = [stored EXCEPT ![s] = @ + n]
PROOF
<1>1. CASE UNCHANGED <<sock, stored>>
  BY <1>1
<1>2. CASE \E n \in Sizes : at_recv_notice_cb(s, n)
  BY <1>2 DEF at_recv_notice_cb
<1> QED BY <1>1, <1>2 DEF DataArrives

\* Data arrives for a socket.
LEMMA DataArrivesStep ==
    ASSUME SocketInv, NEW s \in Slots, DataArrives(s)
    PROVE  SocketInv'
PROOF
<1>0. Typed
  BY DEF SocketInv
<1>1. UNCHANGED <<_socket_list, evt_cb, link, handle, app, clean>>
  BY DEF DataArrives
<1>2. sock[s] \in SockRecords({sock[u].recvpkt_list : u \in Slots})
  BY <1>0 DEF Typed, SockTyped
<1>3. PICK k \in Nat : k = sock[s].recv_notice + 1 /\ k > 0
  BY <1>2 DEF SockRecords
<1>4. CASE UNCHANGED sock
  <2>1. Typed'
    <3>1. SockTyped'
      BY <1>0, <1>4, SockKept DEF Typed
    <3> QED BY <1>0, <1>1, <3>1 DEF Typed
  <2>2. ASSUME NEW t \in Threads, handle[t].slot = s
        PROVE  HolderOK(handle[t], app[t], sock'[s], link'[s], clean'[s])
    BY <1>1, <1>4, <2>2, HolderFacts, AtSocketAssumption
  <2> QED BY <1>1, <1>4, <2>1, <2>2, CallbackStep
<1>5. ASSUME NEW l, sock' = [sock EXCEPT ![s].recvpkt_list = l, ![s].recv_notice = k]
      PROVE  SocketInv'
  <2>1. PICK r : r = [sock[s] EXCEPT !.recvpkt_list = l, !.recv_notice = k]
    OBVIOUS
  <2>2. sock' = [sock EXCEPT ![s] = r]
    BY <1>0, <1>5, <2>1 DEF Typed, SockTyped
  <2>3. PICK P : P = {l}
    OBVIOUS
  <2>4. /\ r \in SockRecords(P) /\ r.magic = sock[s].magic /\ r.socket = sock[s].socket
        /\ r.state = sock[s].state /\ r.recv_notice = k
    BY <1>2, <2>1, <2>3 DEF SockRecords
  <2>5. /\ DOMAIN sock' = Slots /\ sock' = [u \in Slots |-> sock'[u]] /\ sock'[s] = r
        /\ \A u \in Slots \ {s} : sock'[u] = sock[u]
    BY <1>0, <2>2 DEF Typed, SockTyped
  <2>6. Typed'
    <3>1. SockTyped /\ sock'[s] \in SockRecords(P)
      BY <1>0, <2>4, <2>5 DEF Typed
    <3>2. SockTyped'
      BY <2>5, <3>1, SockChanged
    <3> QED BY <1>0, <1>1, <3>2 DEF Typed
  <2>7. ASSUME NEW t \in Threads, handle[t].slot = s
        PROVE  HolderOK(handle[t], app[t], sock'[s], link'[s], clean'[s])
    <3>1. /\ HolderOK(handle[t], app[t], sock[s], link[s], clean[s])
          /\ link[s] = "up"
      BY <2>7, HolderFacts, AtSocketAssumption DEF DataArrives
    <3>2. k > 0
      BY <1>3
    <3> QED BY <1>1, <2>4, <2>5, <3>1, <3>2 DEF HolderOK, ConnOK
  <2> QED BY <1>1, <2>4, <2>5, <2>6, <2>7, CallbackStep
<1>6. CASE sock' = [sock EXCEPT ![s].recv_notice = @ + 1]
  <2>1. PICK l : l = sock[s].recvpkt_list
    OBVIOUS
  <2>2. sock' = [sock EXCEPT ![s].recvpkt_list = l, ![s].recv_notice = k]
    <3>1. [sock[s] EXCEPT !.recv_notice = k] = [sock[s] EXCEPT !.recvpkt_list = l, !.recv_notice = k]
      BY <1>2, <2>1 DEF SockRecords
    <3>2. sock' = [sock EXCEPT ![s] = [sock[s] EXCEPT !.recv_notice = k]]
      BY <1>3, <1>6
    <3> QED BY <3>1, <3>2
  <2> QED BY <1>5, <2>2
<1>7. CASE \E n \in Sizes :
             sock' = [sock EXCEPT ![s].recvpkt_list = Queued(s, n), ![s].recv_notice = @ + 1]
  <2>1. PICK n \in Sizes :
           sock' = [sock EXCEPT ![s].recvpkt_list = Queued(s, n), ![s].recv_notice = @ + 1]
    BY <1>7
  <2>2. PICK l : l = Queued(s, n)
    OBVIOUS
  <2>3. sock' = [sock EXCEPT ![s].recvpkt_list = l, ![s].recv_notice = k]
    BY <1>3, <2>1, <2>2
  <2> QED BY <1>5, <2>3
<1> QED BY <1>4, <1>6, <1>7, ArrivesFacts

\* The remote side closes a connection.
LEMMA RemoteClosesStep ==
    ASSUME SocketInv, NEW s \in Slots, RemoteCloses(s)
    PROVE  SocketInv'
PROOF
<1>0. Typed
  BY DEF SocketInv
<1>1. at_closed_notice_cb(s)
  BY DEF RemoteCloses
<1>2. /\ link[s] = "up" /\ clean' = [clean EXCEPT ![s] = @ /\ evt_cb]
      /\ link' = [link EXCEPT ![s] = "closed"]
      /\ UNCHANGED <<_socket_list, evt_cb, handle, app>>
  BY DEF RemoteCloses
<1>3. /\ clean'[s] = (clean[s] /\ evt_cb) /\ clean' \in [Slots -> BOOLEAN]
      /\ link'[s] = "closed" /\ link' \in [Slots -> {"none", "up", "closed"}]
      /\ \A r \in Slots \ {s} : clean'[r] = clean[r] /\ link'[r] = link[r]
  BY <1>0, <1>2 DEF Typed
<1>4. sock[s] \in SockRecords({sock[u].recvpkt_list : u \in Slots})
  BY <1>0 DEF Typed, SockTyped
<1>5. CASE evt_cb /\ sock[s].magic
  <2>2. PICK r : r = [sock[s] EXCEPT !.state = "CLOSED", !.recv_notice = @ + 1]
    OBVIOUS
  <2>3. sock' = [sock EXCEPT ![s] = r]
    BY <1>0, <1>1, <1>5, <2>2 DEF at_closed_notice_cb, Typed, SockTyped
  <2>4. PICK P : P = {sock[u].recvpkt_list : u \in Slots}
    OBVIOUS
  <2>5. /\ r \in SockRecords(P) /\ r.magic = sock[s].magic /\ r.socket = sock[s].socket
        /\ r.state = "CLOSED" /\ r.recv_notice \in Nat /\ r.recv_notice > 0
    <3>1. sock[s].recv_notice \in Nat
      BY <1>4 DEF SockRecords
    <3>2. PICK k \in Nat : k = sock[s].recv_notice + 1 /\ k > 0
      BY <3>1
    <3>3. r = [sock[s] EXCEPT !.state = "CLOSED", !.recv_notice = k]
      BY <2>2, <3>2
    <3> HIDE <2>2
    <3> QED BY <1>4, <2>4, <3>2, <3>3 DEF SockRecords
  <2>6. /\ DOMAIN sock' = Slots /\ sock' = [u \in Slots |-> sock'[u]] /\ sock'[s] = r
        /\ \A u \in Slots \ {s} : sock'[u] = sock[u]
    BY <1>0, <2>3 DEF Typed, SockTyped
  <2>7. Typed'
    <3>1. SockTyped /\ sock'[s] \in SockRecords(P)
      BY <1>0, <2>5, <2>6 DEF Typed
    <3>2. SockTyped'
      BY <2>6, <3>1, SockChanged
    <3> QED BY <1>0, <1>2, <1>3, <3>2 DEF Typed
  <2>8. ASSUME NEW t \in Threads, handle[t].slot = s
        PROVE  HolderOK(handle[t], app[t], sock'[s], link'[s], clean'[s])
    <3>1. HolderOK(handle[t], app[t], sock[s], link[s], clean[s])
      BY <2>8, HolderFacts, AtSocketAssumption
    <3>2. clean'[s] => app[t].pc # "connecting"
      BY <1>2, <1>3, <3>1 DEF HolderOK, ConnOK
    <3>3. clean'[s] => ConnOK(app[t].pc, sock'[s].state, sock'[s].recv_notice, link'[s])
      BY <1>3, <2>5, <2>6, <3>2 DEF ConnOK
    <3> QED BY <1>3, <2>5, <2>6, <3>1, <3>3 DEF HolderOK
  <2> QED BY <1>2, <1>3, <2>5, <2>6, <2>7, <2>8, CallbackStep
<1>6. CASE ~(evt_cb /\ sock[s].magic)
  <2>1. sock' = sock
    BY <1>1, <1>6 DEF at_closed_notice_cb
  <2>2. Typed'
    <3>1. SockTyped'
      BY <1>0, <2>1, SockKept DEF Typed
    <3> QED BY <1>0, <1>2, <1>3, <3>1 DEF Typed
  <2>3. ASSUME NEW t \in Threads, handle[t].slot = s
        PROVE  HolderOK(handle[t], app[t], sock'[s], link'[s], clean'[s])
    <3>1. HolderOK(handle[t], app[t], sock[s], link[s], clean[s])
      BY <2>3, HolderFacts, AtSocketAssumption
    <3> QED BY <1>2, <1>3, <1>6, <2>1, <3>1 DEF HolderOK, ConnOK
  <2> QED BY <1>2, <1>3, <2>1, <2>2, <2>3, CallbackStep
<1> QED BY <1>5, <1>6

\* A free slot is nobody's, and is not in the list.
LEMMA FreeFacts ==
    ASSUME SocketInv, FreeSlots # {}
    PROVE  /\ FirstFree \in Slots /\ ~sock[FirstFree].magic
           /\ \A u \in Threads : handle[u].slot # FirstFree
           /\ \A i \in 1 .. Len(_socket_list) : _socket_list[i] # FirstFree
           /\ Linked(FirstFree) = Append(_socket_list, FirstFree)
PROOF
<1>0. Typed /\ ListOwn /\ \A u \in Threads : ThreadOwn(u)
  BY DEF SocketInv
<1>1. FirstFree \in FreeSlots
  <2>1. FreeSlots \in SUBSET Nat
    <3>1. Cardinality(Slots) \in Nat
      BY AtSocketAssumption, FS_CardinalityType
    <3>2. \A x \in Slots : x \in 0 .. Cardinality(Slots) - 1
      BY AtSocketAssumption
    <3> QED BY <3>1, <3>2 DEF FreeSlots
  <2>2. \E m \in FreeSlots : \A n \in FreeSlots : m <= n
    BY <2>1, SmallestNat
  <2> QED BY <2>2, Zenon DEF FirstFree
<1> HIDE DEF FirstFree
<1>2. FirstFree \in Slots /\ ~sock[FirstFree].magic
  BY <1>1 DEF FreeSlots
<1>3. ASSUME NEW u \in Threads PROVE handle[u].slot # FirstFree
  <2>1. SUFFICES ASSUME handle[u].slot = FirstFree PROVE FALSE
    OBVIOUS
  <2>2. handle[u].slot # None
    BY <1>2, <2>1, AtSocketAssumption
  <2>3. sock[handle[u].slot].magic
    BY <1>0, <2>2 DEF ThreadOwn, HolderOK
  <2> QED BY <1>2, <2>1, <2>3
<1>4. \A i \in 1 .. Len(_socket_list) : _socket_list[i] # FirstFree
  BY <1>0, <1>2 DEF ListOwn
<1>5. DOMAIN _socket_list = 1 .. Len(_socket_list)
  BY <1>0, LenProperties DEF Typed
<1>6. FirstFree \notin Range(_socket_list)
  BY <1>4, <1>5 DEF Range
<1> QED BY <1>2, <1>3, <1>4, <1>6 DEF Linked

\* at_socket: the first free slot, at the end of the list.
LEMMA OpenStep ==
    ASSUME SocketInv, NEW t \in Threads, at_socket(t)
    PROVE  SocketInv'
PROOF
<1>0. Typed /\ ListOwn /\ Distinct /\ \A u \in Threads : ThreadOwn(u)
  BY DEF SocketInv
<1>1. PICK f \in Slots : f = FirstFree
  BY FreeFacts DEF at_socket
<1>2. /\ ~sock[f].magic /\ f # None
      /\ \A u \in Threads : handle[u].slot # f
      /\ \A i \in 1 .. Len(_socket_list) : _socket_list[i] # f
      /\ Linked(f) = Append(_socket_list, f)
  BY <1>1, FreeFacts, AtSocketAssumption DEF at_socket
<1>3. /\ _socket_list \in Seq(Slots) /\ Len(_socket_list) \in Nat
      /\ DOMAIN _socket_list = 1 .. Len(_socket_list)
      /\ \A i \in 1 .. Len(_socket_list) : _socket_list[i] \in Slots
  BY <1>0, LenProperties, ElementOfSeq DEF Typed
<1>4. PICK r : r = [Zeroed EXCEPT !.magic = TRUE, !.state = "OPEN", !.socket = Len(_socket_list)]
  OBVIOUS
<1>5. Len(Append(_socket_list, f)) = Len(_socket_list) + 1
  BY <1>3
<1>6. _socket_list' = Append(_socket_list, f) /\ sock' = [sock EXCEPT ![f] = r]
  <2>1. Len(Linked(f)) - 1 = Len(_socket_list)
    BY <1>2, <1>3, <1>5
  <2> QED BY <1>1, <1>2, <1>4, <2>1 DEF at_socket, alloc_socket_by_device
<1>7. PICK P : P = {<<>>}
  OBVIOUS
<1>8. /\ r \in SockRecords(P) /\ r.magic = TRUE /\ r.state = "OPEN" /\ r.recv_notice = 0
      /\ r.socket = Len(_socket_list)
  <2>0. Len(_socket_list) \in Int
    BY <1>3
  <2>1. PICK k \in Int : k = Len(_socket_list)
    BY <2>0, Zenon
  <2>2. r = [magic |-> TRUE, socket |-> k, state |-> "OPEN", recvpkt_list |-> <<>>, recv_notice |-> 0]
    BY <1>4, <2>1 DEF Zeroed
  <2>3. PICK e : e = <<>>
    OBVIOUS
  <2> QED BY <1>7, <2>1, <2>2, <2>3 DEF SockRecords
<1>9. /\ DOMAIN sock' = Slots /\ sock' = [u \in Slots |-> sock'[u]] /\ sock'[f] = r
      /\ \A u \in Slots \ {f} : sock'[u] = sock[u]
  BY <1>0, <1>6 DEF Typed, SockTyped
<1>10. PICK h : h = [fd |-> Len(_socket_list), slot |-> f]
  OBVIOUS
<1>11. h \in [fd : Int, slot : Slots \cup {None}] /\ h.fd = Len(_socket_list) /\ h.slot = f
  BY <1>3, <1>10
<1>12. /\ handle' = [handle EXCEPT ![t] = h] /\ app' = [app EXCEPT ![t] = AtRest]
       /\ link' = [link EXCEPT ![f] = IF @ = "up" THEN @ ELSE "none"]
       /\ clean' = [clean EXCEPT ![f] = link[f] # "up"]
       /\ evt_cb' = evt_cb
  BY <1>1, <1>8, <1>9, <1>10 DEF at_socket
<1>13. /\ handle'[t] = h /\ app'[t] = AtRest
       /\ \A u \in Threads \ {t} : handle'[u] = handle[u] /\ app'[u] = app[u]
       /\ link'[f] = (IF link[f] = "up" THEN "up" ELSE "none") /\ clean'[f] = (link[f] # "up")
       /\ \A u \in Slots \ {f} : link'[u] = link[u] /\ clean'[u] = clean[u]
  BY <1>0, <1>12 DEF Typed
<1>14. Typed'
  <2>1. SockTyped'
    <3>1. SockTyped /\ sock'[f] \in SockRecords(P)
      BY <1>0, <1>8, <1>9 DEF Typed
    <3> QED BY <1>9, <3>1, SockChanged
  <2>2. _socket_list' \in Seq(Slots)
    BY <1>3, <1>6
  <2>3. handle' \in [Threads -> [fd : Int, slot : Slots \cup {None}]]
    BY <1>0, <1>11, <1>12 DEF Typed
  <2>4. app' \in [Threads -> [pc : Pcs, slot : Slots \cup {None}, wait : BOOLEAN, len : Nat,
                              eof : BOOLEAN]]
    BY <1>0, <1>12 DEF Typed, AtRest, Pcs
  <2>5. link' \in [Slots -> {"none", "up", "closed"}] /\ clean' \in [Slots -> BOOLEAN]
    BY <1>0, <1>12 DEF Typed
  <2> QED BY <1>0, <1>12, <2>1, <2>2, <2>3, <2>4, <2>5 DEF Typed
<1>15. /\ Len(_socket_list') = Len(_socket_list) + 1 /\ _socket_list'[Len(_socket_list) + 1] = f
       /\ \A i \in 1 .. Len(_socket_list) : _socket_list'[i] = _socket_list[i]
  BY <1>3, <1>6
<1>16. ListOwn'
  <2>1. ASSUME NEW i \in 1 .. Len(_socket_list')
        PROVE  sock'[_socket_list'[i]].magic /\ sock'[_socket_list'[i]].socket = i - 1
    <3>1. CASE i \in 1 .. Len(_socket_list)
      <4>1. _socket_list'[i] = _socket_list[i] /\ _socket_list[i] \in Slots \ {f}
        BY <1>2, <1>3, <1>15, <3>1
      <4> QED BY <1>0, <1>9, <3>1, <4>1 DEF ListOwn
    <3>2. CASE i = Len(_socket_list) + 1
      <4>1. _socket_list'[i] = f
        BY <1>15, <3>2
      <4>2. i - 1 = Len(_socket_list)
        BY <1>3, <3>2
      <4> QED BY <1>8, <1>9, <4>1, <4>2
    <3> QED BY <1>3, <1>15, <3>1, <3>2
  <2>2. ASSUME NEW s \in Slots, sock'[s].magic
        PROVE  \E i \in 1 .. Len(_socket_list') : _socket_list'[i] = s
    <3>1. CASE s = f
      <4>1. Len(_socket_list) + 1 \in 1 .. Len(_socket_list')
        BY <1>3, <1>15
      <4> QED BY <1>15, <3>1, <4>1
    <3>2. CASE s # f
      <4>1. PICK i \in 1 .. Len(_socket_list) : _socket_list[i] = s
        BY <1>0, <1>9, <2>2, <3>2 DEF ListOwn
      <4>2. i \in 1 .. Len(_socket_list') /\ _socket_list'[i] = s
        BY <1>3, <1>15, <4>1
      <4> QED BY <4>2
    <3> QED BY <3>1, <3>2
  <2> QED BY <2>1, <2>2 DEF ListOwn
<1>17. Distinct'
  <2>1. SUFFICES ASSUME NEW u \in Threads, NEW v \in Threads, u # v, handle'[u].slot # None
                 PROVE  handle'[v].slot # handle'[u].slot
    BY DEF Distinct
  <2>2. CASE u = t
    BY <1>2, <1>11, <1>13, <2>1, <2>2
  <2>3. CASE v = t
    BY <1>2, <1>11, <1>13, <2>1, <2>3
  <2>4. CASE u # t /\ v # t
    BY <1>0, <1>13, <2>1, <2>4 DEF Distinct
  <2> QED BY <2>2, <2>3, <2>4
<1>18. ASSUME NEW u \in Threads PROVE ThreadOwn(u)'
  <2>1. CASE u = t
    <3>1. HolderOK(h, AtRest, r, link'[f], clean'[f])
      BY <1>8, <1>11, <1>13 DEF HolderOK, ConnOK, AtRest
    <3>2. HolderOK(handle'[t], app'[t], sock'[handle'[t].slot], link'[handle'[t].slot],
                   clean'[handle'[t].slot])
      BY <1>9, <1>11, <1>13, <3>1
    <3> QED BY <1>2, <1>11, <1>13, <2>1, <3>2 DEF ThreadOwn
  <2>2. CASE u # t
    <3>1. handle[u].slot \in Slots \cup {None} /\ handle[u].slot # f
      BY <1>2, Lookup
    <3> QED BY <1>0, <1>9, <1>13, <2>2, <3>1, Bystander
  <2> QED BY <2>1, <2>2
<1> QED BY <1>14, <1>16, <1>17, <1>18 DEF SocketInv

\* free_socket of the last socket in the list.
LEMMA FreeStep ==
    ASSUME SocketInv, NEW t \in Threads, free_socket(t), Last(_socket_list) = app[t].slot
    PROVE  SocketInv'
PROOF
<1>0. Typed /\ ListOwn /\ Distinct /\ \A u \in Threads : ThreadOwn(u)
  BY DEF SocketInv
<1>1. /\ handle[t].slot \in Slots /\ handle[t].slot # None /\ app[t].slot = handle[t].slot
  BY Lookup, HolderFacts, AtSocketAssumption DEF free_socket
<1>2. PICK s \in Slots : s = handle[t].slot
  BY <1>1
<1>3. /\ _socket_list \in Seq(Slots) /\ Len(_socket_list) \in Nat
      /\ DOMAIN _socket_list = 1 .. Len(_socket_list)
      /\ \A i \in 1 .. Len(_socket_list) : _socket_list[i] \in Slots
  BY <1>0, LenProperties, ElementOfSeq DEF Typed
<1>4. sock[s].magic
  BY <1>0, <1>1, <1>2 DEF ThreadOwn, HolderOK
<1>5. PICK k \in 1 .. Len(_socket_list) : _socket_list[k] = s
  BY <1>0, <1>4 DEF ListOwn
<1>6. PICK n \in 1 .. Len(_socket_list) : n = Len(_socket_list)
  <2>1. Len(_socket_list) \in 1 .. Len(_socket_list)
    BY <1>3, <1>5
  <2> QED BY <2>1
<1>7. _socket_list[n] = s /\ sock[s].socket = n - 1
  BY <1>0, <1>1, <1>2, <1>6 DEF ListOwn, Last
<1>8. \A i \in 1 .. n - 1 : _socket_list[i] # s
  <2>1. SUFFICES ASSUME NEW i \in 1 .. n - 1, _socket_list[i] = s PROVE FALSE
    OBVIOUS
  <2>2. i \in 1 .. Len(_socket_list) /\ i # n
    BY <1>6, <2>1
  <2>3. sock[s].socket = i - 1
    BY <1>0, <2>1, <2>2 DEF ListOwn
  <2> QED BY <1>7, <2>2, <2>3
<1>9. PICK l : l = RemoveAt(_socket_list, n)
  OBVIOUS
<1>10. /\ l \in Seq(Slots) /\ Len(l) = n - 1 /\ DOMAIN l = 1 .. n - 1
       /\ \A i \in 1 .. n - 1 : l[i] = _socket_list[i]
  <2>1. /\ l \in Seq(Slots) /\ Len(l) = Len(_socket_list) - 1
        /\ \A j \in 1 .. Len(_socket_list) - 1 :
              l[j] = IF j < n THEN _socket_list[j] ELSE _socket_list[j + 1]
    BY <1>3, <1>6, <1>9, RemoveAtFacts
  <2>2. DOMAIN l = 1 .. Len(l)
    BY <2>1, LenProperties
  <2> QED BY <1>6, <2>1, <2>2
<1>11. _socket_list' = l
  <2>1. sock[s].socket + 1 = n
    BY <1>7
  <2>2. s \notin Range(l)
    BY <1>8, <1>10 DEF Range
  <2>3. UpTo(l, s) = l
    BY <2>2 DEF UpTo
  <2>4. sock[s].socket + 1 \in DOMAIN _socket_list
    BY <1>3, <2>1
  <2>5. Unlinked(s) = l
    BY <1>9, <2>1, <2>3, <2>4 DEF Unlinked
  <2> QED BY <1>1, <1>2, <2>5 DEF free_socket
<1>12. /\ sock' = [sock EXCEPT ![s] = Zeroed] /\ handle' = [handle EXCEPT ![t] = NoHandle]
       /\ app' = [app EXCEPT ![t] = AtRest] /\ UNCHANGED <<evt_cb, link, clean>>
  BY <1>1, <1>2 DEF free_socket, Return, netVars
<1>13. /\ DOMAIN sock' = Slots /\ sock' = [u \in Slots |-> sock'[u]] /\ sock'[s] = Zeroed
       /\ \A u \in Slots \ {s} : sock'[u] = sock[u]
       /\ handle'[t] = NoHandle /\ app'[t] = AtRest
       /\ \A u \in Threads \ {t} : handle'[u] = handle[u] /\ app'[u] = app[u]
  BY <1>0, <1>12 DEF Typed, SockTyped
<1>14. Typed'
  <2>1. SockTyped'
    <3>1. PICK P : P = {<<>>}
      OBVIOUS
    <3>2. SockTyped /\ sock'[s] \in SockRecords(P)
      BY <1>0, <1>13, <3>1 DEF Typed, Zeroed, SockRecords
    <3> QED BY <1>13, <3>2, SockChanged
  <2>2. handle' \in [Threads -> [fd : Int, slot : Slots \cup {None}]]
    BY <1>0, <1>12 DEF Typed, NoHandle
  <2>3. app' \in [Threads -> [pc : Pcs, slot : Slots \cup {None}, wait : BOOLEAN, len : Nat,
                              eof : BOOLEAN]]
    BY <1>0, <1>12 DEF Typed, AtRest, Pcs
  <2> QED BY <1>0, <1>10, <1>11, <1>12, <2>1, <2>2, <2>3 DEF Typed
<1>15. ListOwn'
  <2>1. ASSUME NEW i \in 1 .. Len(l)
        PROVE  sock'[l[i]].magic /\ sock'[l[i]].socket = i - 1
    <3>1. i \in 1 .. Len(_socket_list) /\ l[i] = _socket_list[i] /\ l[i] \in Slots \ {s}
      BY <1>3, <1>6, <1>8, <1>10
    <3> QED BY <1>0, <1>13, <3>1 DEF ListOwn
  <2>2. ASSUME NEW u \in Slots, sock'[u].magic
        PROVE  \E i \in 1 .. Len(l) : l[i] = u
    <3>1. u # s
      BY <1>13, <2>2 DEF Zeroed
    <3>2. PICK i \in 1 .. Len(_socket_list) : _socket_list[i] = u
      BY <1>0, <1>13, <2>2, <3>1 DEF ListOwn
    <3>3. i \in 1 .. Len(l)
      BY <1>6, <1>7, <1>10, <3>1, <3>2
    <3> QED BY <1>10, <3>2, <3>3
  <2> QED BY <1>11, <2>1, <2>2 DEF ListOwn
<1>16. Distinct'
  <2>1. SUFFICES ASSUME NEW u \in Threads, NEW v \in Threads, u # v, handle'[u].slot # None
                 PROVE  handle'[v].slot # handle'[u].slot
    BY DEF Distinct
  <2>2. CASE u = t
    BY <1>13, <2>1, <2>2 DEF NoHandle
  <2>3. CASE v = t
    BY <1>13, <2>1, <2>3 DEF NoHandle
  <2>4. CASE u # t /\ v # t
    BY <1>0, <1>13, <2>1, <2>4 DEF Distinct
  <2> QED BY <2>2, <2>3, <2>4
<1>17. ASSUME NEW u \in Threads PROVE ThreadOwn(u)'
  <2>1. CASE u = t
    BY <1>13, <2>1 DEF ThreadOwn, NoHandle, AtRest
  <2>2. CASE u # t
    <3>1. handle[u].slot \in Slots \cup {None} /\ handle[u].slot # s
      BY <1>0, <1>1, <1>2, <2>2, Lookup DEF Distinct
    <3> QED BY <1>0, <1>12, <1>13, <2>2, <3>1, Bystander
  <2> QED BY <2>1, <2>2
<1> QED BY <1>14, <1>15, <1>16, <1>17 DEF SocketInv

-----------------------------------------------------------------------------
\* Nothing is open at the start.
LEMMA IInvInit ==
    Init => IInv
PROOF
<1> SUFFICES ASSUME Init PROVE SocketInv
  BY DEF IInv
<1>1. /\ _socket_list = <<>> /\ Len(_socket_list) = 0 /\ _socket_list \in Seq(Slots)
      /\ sock = [s \in Slots |-> Zeroed] /\ handle = [t \in Threads |-> NoHandle]
      /\ app = [t \in Threads |-> AtRest]
  BY DEF Init
<1>2. Typed
  <2>1. sock \in [Slots -> SockRecords({<<>>})]
    BY <1>1 DEF SockRecords, Zeroed
  <2>2. PICK P : P = {<<>>}
    OBVIOUS
  <2>3. sock \in [Slots -> SockRecords({sock[s].recvpkt_list : s \in Slots})]
    BY <2>1, <2>2, SockType
  <2>4. SockTyped
    BY <2>3 DEF SockTyped
  <2>5. handle \in [Threads -> [fd : Int, slot : Slots \cup {None}]]
    BY <1>1 DEF NoHandle
  <2>6. app \in [Threads -> [pc : Pcs, slot : Slots \cup {None}, wait : BOOLEAN, len : Nat,
                             eof : BOOLEAN]]
    BY <1>1 DEF AtRest, Pcs
  <2> QED BY <1>1, <2>4, <2>5, <2>6 DEF Typed, Init
<1>3. ListOwn
  BY <1>1 DEF ListOwn, Zeroed
<1>4. Distinct
  BY <1>1 DEF Distinct, NoHandle
<1>5. \A t \in Threads : ThreadOwn(t)
  BY <1>1 DEF ThreadOwn, NoHandle, AtRest
<1> QED BY <1>2, <1>3, <1>4, <1>5 DEF SocketInv

\* Every step keeps the invariant, or ends the reverse order.
LEMMA IInvNext ==
    IInv /\ [Next]_vars => IInv'
PROOF
<1> SUFFICES ASSUME IInv, [Next]_vars, tidy' PROVE SocketInv'
  BY DEF IInv
<1>1. CASE UNCHANGED vars
  <2>1. SocketInv
    BY <1>1 DEF IInv, vars
  <2>2. SockTyped'
    BY <1>1, <2>1, SockKept DEF SocketInv, Typed, vars
  <2>3. Typed'
    BY <1>1, <2>1, <2>2 DEF SocketInv, Typed, vars
  <2>4. ListOwn' /\ Distinct'
    BY <1>1, <2>1 DEF SocketInv, ListOwn, Distinct, vars
  <2>5. ASSUME NEW t \in Threads PROVE ThreadOwn(t)'
    BY <1>1, <2>1, Bystander DEF SocketInv, vars
  <2> QED BY <2>3, <2>4, <2>5 DEF SocketInv
<1>2. ASSUME NEW t \in Threads, at_socket(t) PROVE SocketInv'
  <2>1. SocketInv
    BY <1>2 DEF IInv, at_socket
  <2> QED BY <1>2, <2>1, OpenStep
<1>3. ASSUME NEW t \in Threads, at_socket_NoMemory(t) PROVE SocketInv'
  BY <1>3 DEF at_socket_NoMemory
<1>4. ASSUME NEW t \in Threads, ConnectRefused(t) \/ ConnectBegin(t) \/ ModemConnects(t) \/ ConnectEnd(t)
      PROVE  SocketInv'
  <2>1. SocketInv
    BY <1>4 DEF IInv, ConnectRefused, ConnectBegin, ModemConnects, ConnectEnd
  <2> QED BY <1>4, <2>1, ConnectRefusedStep, ConnectBeginStep, ModemConnectsStep, ConnectEndStep
<1>5. ASSUME NEW t \in Threads,
             RecvBegin(t) \/ RecvState(t) \/ RecvTakes(t) \/ RecvTimeout(t) \/ RecvWoken(t)
      PROVE  SocketInv'
  <2>1. SocketInv
    BY <1>5 DEF IInv, RecvBegin, RecvState, RecvTakes, RecvTimeout, RecvWoken
  <2> QED BY <1>5, <2>1, RecvBeginStep, RecvStateStep, RecvTakesStep, RecvTimeoutStep, RecvWokenStep
<1>6. ASSUME NEW t \in Threads, CloseBegin(t) \/ CloseFind(t) \/ ModemCloses(t)
      PROVE  SocketInv'
  <2>1. SocketInv
    BY <1>6 DEF IInv, CloseBegin, CloseFind, ModemCloses
  <2> QED BY <1>6, <2>1, CloseBeginStep, CloseFindStep, ModemClosesStep
<1>7. ASSUME NEW t \in Threads, free_socket(t) PROVE SocketInv'
  <2>1. SocketInv /\ Last(_socket_list) = app[t].slot
    BY <1>7 DEF IInv, free_socket
  <2> QED BY <1>7, <2>1, FreeStep
<1>8. ASSUME NEW s \in Slots, DataArrives(s) \/ RemoteCloses(s) PROVE SocketInv'
  <2>1. SocketInv
    BY <1>8 DEF IInv, DataArrives, RemoteCloses
  <2> QED BY <1>8, <2>1, DataArrivesStep, RemoteClosesStep
<1> QED BY <1>1, <1>2, <1>3, <1>4, <1>5, <1>6, <1>7, <1>8 DEF Next, Continue

\* The invariant behind the theorems below: while sockets are closed in the reverse order of
\* their opening and none leaks, the list, the sockets, the connections and the calls of the
\* threads agree.
THEOREM Invariance ==
    Spec => []IInv
PROOF
BY IInvInit, IInvNext, PTL DEF Spec

\* at_get_socket(fd) is the socket that at_socket returned fd for, until the thread that holds it
\* frees it; and the list holds exactly the sockets that are not free.
THEOREM DescriptorsAreOwn ==
    Spec => []OwnSocket
PROOF
<1>1. ASSUME IInv PROVE OwnSocket
  <2> SUFFICES ASSUME tidy PROVE /\ \A t \in Threads : at_get_socket(handle[t].fd) = handle[t].slot
                                 /\ \A s \in Slots : sock[s].magic <=> s \in Range(_socket_list)
    BY DEF OwnSocket
  <2>1. SocketInv /\ ListOwn /\ Typed
    BY <1>1 DEF IInv, SocketInv
  <2>2. DOMAIN _socket_list = 1 .. Len(_socket_list)
    BY <2>1, LenProperties DEF Typed
  <2>3. \A s \in Slots : sock[s].magic <=> s \in Range(_socket_list)
    BY <2>1, <2>2 DEF ListOwn, Range
  <2> QED BY <2>1, <2>3, Lookup
<1> QED BY <1>1, Invariance, PTL

\* A blocking at_recvfrom returns 0 only after the remote side has closed the connection.
THEOREM ZeroMeansClosedHolds ==
    Spec => []ZeroMeansClosed
PROOF
<1>1. ASSUME IInv PROVE ZeroMeansClosed
  <2> SUFFICES ASSUME tidy, NEW t \in Threads, handle[t].slot # None, app[t].eof,
                      clean[handle[t].slot]
               PROVE  link[handle[t].slot] = "closed"
    BY DEF ZeroMeansClosed
  <2> QED BY <1>1, HolderFacts DEF IInv, HolderOK
<1> QED BY <1>1, Invariance, PTL

\* No thread sleeps on recv_notice once the remote side has closed its connection: the closing
\* comes with a notice, and the notice is taken only on the way to the end of the stream.
NoSleepOnClosed ==
    tidy => \A t \in Threads :
                LET s == app[t].slot
                IN  app[t].pc = "wait" /\ sock[s].recv_notice = 0 /\ clean[s] => link[s] # "closed"

\* The part of NoSleepOnData that does not depend on the packets.
THEOREM ClosedWakes ==
    Spec => []NoSleepOnClosed
PROOF
<1>1. ASSUME IInv PROVE NoSleepOnClosed
  <2> SUFFICES ASSUME tidy, NEW t \in Threads, app[t].pc = "wait",
                      sock[app[t].slot].recv_notice = 0, clean[app[t].slot],
                      link[app[t].slot] = "closed"
               PROVE  FALSE
    BY DEF NoSleepOnClosed
  <2>1. SocketInv
    BY <1>1 DEF IInv
  <2>2. handle[t].slot # None
    BY <2>1, Lookup, AtSocketAssumption
  <2>3. app[t].slot = handle[t].slot
    BY <2>1, <2>2, HolderFacts
  <2>4. HolderOK(handle[t], app[t], sock[app[t].slot], link[app[t].slot], clean[app[t].slot])
    BY <2>1, <2>2, <2>3, HolderFacts
  <2> QED BY <2>4 DEF HolderOK, ConnOK
<1> QED BY <1>1, Invariance, PTL

-----------------------------------------------------------------------------
(***************************************************************************)
(* The bytes of a connection.                                              *)
(*                                                                         *)
(* at_recvpkt_get and FlattenSeq are recursive functions over a list of    *)
(* any length.  That they exist, and what they return, is shown by the     *)
(* least length at which it would be wrong (SmallestNat).                  *)
(***************************************************************************)
\* The bytes behind number a up to number b.
Bytes(a, b) == [i \in 1 .. b - a |-> a + i]

Packets == Seq(Nat) \ {<<>>}

\* Packets that hold the bytes behind a up to b: e[i] is the last byte of the i-th.
Ends(l, a, b, e) ==
    /\ e \in [0 .. Len(l) -> Nat] /\ e[0] = a /\ e[Len(l)] = b
    /\ \A i \in 1 .. Len(l) : e[i - 1] < e[i] /\ l[i] = Bytes(e[i - 1], e[i])
Queue(l, a, b) == l \in Seq(Seq(Nat)) /\ \E e : Ends(l, a, b, e)

\* A statement about lists is true at every length if it is at none for the first time false.
LEMMA NoLeast ==
    ASSUME NEW S \in SUBSET Nat, 0 \notin S, \A m \in S : m # 0 => m - 1 \in S
    PROVE  S = {}
PROOF
<1> SUFFICES ASSUME S # {} PROVE FALSE
  OBVIOUS
<1>1. PICK m \in S : \A n \in S : m <= n
  BY SmallestNat
<1>2. m \in Nat /\ m # 0 /\ m - 1 \in S
  BY <1>1
<1> QED BY <1>1, <1>2

\* The bytes are a sequence, and adjacent ones fit together.
LEMMA BytesFacts ==
    ASSUME NEW a \in Nat, NEW b \in Nat, a <= b
    PROVE  /\ Bytes(a, b) \in Seq(Nat) /\ Len(Bytes(a, b)) = b - a
           /\ \A i \in 1 .. b - a : Bytes(a, b)[i] = a + i
           /\ a < b => Bytes(a, b) \in Packets
           /\ a = b => Bytes(a, b) = <<>>
PROOF
<1>1. \A i \in 1 .. b - a : a + i \in Nat
  OBVIOUS
<1>2. PICK n \in Nat : n = b - a
  OBVIOUS
<1>3. PICK s : s = [i \in 1 .. n |-> a + i]
  OBVIOUS
<1>4. s \in Seq(Nat) /\ Len(s) = n /\ \A i \in 1 .. n : s[i] = a + i
  BY <1>1, <1>2, <1>3
<1>5. Bytes(a, b) = s
  BY <1>2, <1>3 DEF Bytes
<1>6. a < b => s # <<>>
  BY <1>2, <1>4
<1>7. a = b => s = <<>>
  BY <1>2, <1>4
<1> QED BY <1>2, <1>4, <1>5, <1>6, <1>7 DEF Packets

LEMMA BytesConcat ==
    ASSUME NEW a \in Nat, NEW b \in Nat, NEW c \in Nat, a <= b, b <= c
    PROVE  Bytes(a, b) \o Bytes(b, c) = Bytes(a, c)
PROOF
<1>1. PICK p : p = Bytes(a, b)
  OBVIOUS
<1>2. PICK q : q = Bytes(b, c)
  OBVIOUS
<1>3. PICK r : r = Bytes(a, c)
  OBVIOUS
<1>4. /\ p \in Seq(Nat) /\ Len(p) = b - a /\ \A i \in 1 .. b - a : p[i] = a + i
      /\ q \in Seq(Nat) /\ Len(q) = c - b /\ \A i \in 1 .. c - b : q[i] = b + i
      /\ r \in Seq(Nat) /\ Len(r) = c - a /\ \A i \in 1 .. c - a : r[i] = a + i
  <2>1. p \in Seq(Nat) /\ Len(p) = b - a /\ \A i \in 1 .. b - a : p[i] = a + i
    BY <1>1, BytesFacts
  <2>2. q \in Seq(Nat) /\ Len(q) = c - b /\ \A i \in 1 .. c - b : q[i] = b + i
    BY <1>2, BytesFacts
  <2>3. a <= c
    OBVIOUS
  <2>4. r \in Seq(Nat) /\ Len(r) = c - a /\ \A i \in 1 .. c - a : r[i] = a + i
    BY <1>3, <2>3, BytesFacts
  <2> QED BY <2>1, <2>2, <2>4
<1>5. PICK s : s = p \o q
  OBVIOUS
<1>6. /\ s \in Seq(Nat) /\ Len(s) = Len(p) + Len(q)
      /\ \A i \in 1 .. Len(p) + Len(q) : s[i] = IF i <= Len(p) THEN p[i] ELSE q[i - Len(p)]
  BY <1>4, <1>5, ConcatProperties
<1>7. Len(s) = c - a
  BY <1>4, <1>6
<1>8. ASSUME NEW i \in 1 .. Len(s) PROVE s[i] = r[i]
  <2>1. CASE i <= b - a
    BY <1>4, <1>6, <1>7, <2>1
  <2>2. CASE i > b - a
    <3>1. i - (b - a) \in 1 .. c - b
      BY <1>7, <2>2
    <3>2. s[i] = q[i - (b - a)]
      BY <1>4, <1>6, <1>7, <2>2
    <3>3. q[i - (b - a)] = b + (i - (b - a))
      BY <1>4, <3>1
    <3>4. r[i] = a + i
      BY <1>4, <1>7
    <3> QED BY <3>2, <3>3, <3>4
  <2> QED BY <2>1, <2>2
<1>9. s = r
  BY <1>4, <1>6, <1>7, <1>8, SeqEqual
<1> QED BY <1>1, <1>2, <1>3, <1>5, <1>9

LEMMA BytesPart ==
    \A a, b, m, n \in Nat : m <= n /\ n <= b - a =>
        SubSeq(Bytes(a, b), m + 1, n) = Bytes(a + m, a + n)
PROOF
<1> SUFFICES ASSUME NEW a \in Nat, NEW b \in Nat, NEW m \in Nat, NEW n \in Nat, m <= n, n <= b - a
             PROVE  SubSeq(Bytes(a, b), m + 1, n) = Bytes(a + m, a + n)
  BY Zenon
<1>1. PICK p : p = Bytes(a, b)
  OBVIOUS
<1>2. p \in Seq(Nat) /\ Len(p) = b - a /\ \A i \in 1 .. b - a : p[i] = a + i
  <2>1. a <= b
    OBVIOUS
  <2> QED BY <1>1, <2>1, BytesFacts
<1>3. \A i \in m + 1 .. n : p[i] \in Nat
  BY <1>2
<1>4. PICK s : s = SubSeq(p, m + 1, n)
  OBVIOUS
<1>5. /\ s \in Seq(Nat) /\ Len(s) = IF m + 1 <= n THEN n - (m + 1) + 1 ELSE 0
      /\ \A i \in 1 .. n - (m + 1) + 1 : s[i] = p[m + 1 + i - 1]
  <2>1. m + 1 \in Int /\ n \in Int
    OBVIOUS
  <2> QED BY <1>3, <1>4, <2>1, SubSeqProperties
<1>6. Len(s) = n - m
  BY <1>5
<1>7. PICK r : r = Bytes(a + m, a + n)
  OBVIOUS
<1>8. r \in Seq(Nat) /\ Len(r) = n - m /\ \A i \in 1 .. n - m : r[i] = a + m + i
  <2>1. a + m \in Nat /\ a + n \in Nat /\ a + m <= a + n /\ (a + n) - (a + m) = n - m
    OBVIOUS
  <2> QED BY <1>7, <2>1, BytesFacts
<1>9. ASSUME NEW i \in 1 .. Len(s) PROVE s[i] = r[i]
  <2>1. i \in Nat /\ m + 1 + i - 1 = m + i /\ m + i \in 1 .. b - a
    BY <1>6
  <2>3. s[i] = p[m + 1 + i - 1]
    BY <1>5, <1>6
  <2>2. s[i] = a + (m + i) /\ r[i] = a + m + i
    BY <1>2, <1>6, <1>8, <2>1, <2>3
  <2> QED BY <2>2
<1>10. s = r
  BY <1>5, <1>6, <1>8, <1>9, SeqEqual
<1> QED BY <1>1, <1>4, <1>7, <1>10

\* The first n bytes of a packet, and the bytes behind them.
LEMMA BytesFirst ==
    ASSUME NEW b \in Nat, NEW d \in Nat, NEW n \in Nat, n <= d - b
    PROVE  SubSeq(Bytes(b, d), 1, n) = Bytes(b, b + n)
PROOF
<1>1. SubSeq(Bytes(b, d), 0 + 1, n) = Bytes(b + 0, b + n)
  <2>1. 0 \in Nat /\ 0 <= n
    OBVIOUS
  <2> QED BY <2>1, BytesPart
<1>2. 0 + 1 = 1 /\ b + 0 = b
  OBVIOUS
<1> QED BY <1>1, <1>2

LEMMA BytesRest ==
    ASSUME NEW b \in Nat, NEW d \in Nat, NEW n \in Nat, n <= d - b
    PROVE  SubSeq(Bytes(b, d), n + 1, d - b) = Bytes(b + n, d)
PROOF
<1>1. PICK k \in Nat : k = d - b
  OBVIOUS
<1>2. SubSeq(Bytes(b, d), n + 1, k) = Bytes(b + n, b + k)
  <2>1. n <= k /\ k <= d - b
    BY <1>1
  <2> QED BY <2>1, BytesPart
<1>3. b + k = d
  BY <1>1
<1> QED BY <1>1, <1>2, <1>3

\* The concatenation of a list of sequences is the last of its partial concatenations.
LEMMA FlattenFacts ==
    ASSUME NEW l, NEW n \in Nat, n = Len(l), n # 0
    PROVE  \E f : /\ f = [i \in 1 .. n |-> IF i = 1 THEN l[i] ELSE f[i - 1] \o l[i]]
                  /\ FlattenSeq(l) = f[n]
PROOF
<1> DEFINE Partial(f, m) == f = [i \in 1 .. m |-> IF i = 1 THEN l[i] ELSE f[i - 1] \o l[i]]
           Bad == {m \in Nat : ~ \E f : Partial(f, m)}
<1>1. 0 \notin Bad
  <2>1. PICK f : f = [i \in 1 .. 0 |-> l[i]]
    OBVIOUS
  <2>2. Partial(f, 0)
    BY <2>1
  <2> QED BY <2>2
<1>2. ASSUME NEW m \in Bad, m # 0, m - 1 \notin Bad PROVE FALSE
  <2>1. m \in Nat /\ m - 1 \in Nat
    BY <1>2
  <2>2. PICK f : Partial(f, m - 1)
    BY <1>2, <2>1
  <2>3. PICK g : g = [i \in 1 .. m |-> IF i = m THEN (IF m = 1 THEN l[m] ELSE f[m - 1] \o l[m])
                                       ELSE f[i]]
    OBVIOUS
  <2>4. ASSUME NEW i \in 1 .. m PROVE g[i] = IF i = 1 THEN l[i] ELSE g[i - 1] \o l[i]
    <3>1. CASE i = 1
      BY <2>1, <2>2, <2>3, <3>1
    <3>2. CASE i # 1
      <4>1. i - 1 \in 1 .. m - 1 /\ i - 1 \in 1 .. m /\ i - 1 # m
        BY <2>1, <3>2
      <4>2. g[i - 1] = f[i - 1]
        BY <2>3, <4>1
      <4>3. CASE i = m
        BY <2>3, <3>2, <4>2, <4>3
      <4>4. CASE i # m
        <5>1. i \in 1 .. m - 1
          BY <2>1, <4>4
        <5>2. f[i] = f[i - 1] \o l[i]
          BY <2>2, <3>2, <5>1
        <5> QED BY <2>3, <3>2, <4>2, <4>4, <5>2
      <4> QED BY <4>3, <4>4
    <3> QED BY <3>1, <3>2
  <2>5. g = [i \in 1 .. m |-> g[i]]
    BY <2>3
  <2>6. Partial(g, m)
    BY <2>4, <2>5
  <2> QED BY <1>2, <2>6
<1>3. Bad = {}
  <2>1. PICK S : S = Bad
    OBVIOUS
  <2>2. S \in SUBSET Nat /\ 0 \notin S /\ \A m \in S : m # 0 => m - 1 \in S
    BY <1>1, <1>2, <2>1
  <2>3. S = {}
    BY <2>2, NoLeast
  <2> QED BY <2>1, <2>3
<1>4. \E f : f = [i \in 1 .. n |-> IF i = 1 THEN l[i] ELSE f[i - 1] \o l[i]]
  <2>1. \E f : Partial(f, n)
    <3> HIDE DEF Partial
    <3> QED BY <1>3
  <2> QED BY <2>1, Zenon
<1>5. PICK F : F = CHOOSE f : f = [i \in 1 .. n |-> IF i = 1 THEN l[i] ELSE f[i - 1] \o l[i]]
  OBVIOUS
<1>6. F = [i \in 1 .. n |-> IF i = 1 THEN l[i] ELSE F[i - 1] \o l[i]]
  BY <1>4, <1>5, Zenon
<1>7. FlattenSeq(l) = F[n]
  BY <1>5 DEF FlattenSeq
<1> QED BY <1>6, <1>7

\* The i-th packet, in a walk that ends after the k-th at the latest.
Visited(acc, pkt, i, k, len) == IF i <= k THEN Copied(acc, pkt, len) ELSE Kept(acc, pkt)

\* at_recvpkt_get is the last of the steps of its walk.
LEMMA WalkFacts ==
    ASSUME NEW l, NEW n \in Nat, n = Len(l), NEW k, NEW len
    PROVE  \E f : /\ f = [i \in 0 .. n |-> IF i = 0 THEN [mem |-> <<>>, rest |-> <<>>]
                                           ELSE Visited(f[i - 1], l[i], i, k, len)]
                  /\ at_recvpkt_get(l, k, len) = f[n]
PROOF
<1> DEFINE Base == [mem |-> <<>>, rest |-> <<>>]
           Partial(f, m) ==
               f = [i \in 0 .. m |-> IF i = 0 THEN Base ELSE Visited(f[i - 1], l[i], i, k, len)]
           Bad == {m \in Nat : ~ \E f : Partial(f, m)}
<1>1. 0 \notin Bad
  <2>1. PICK f : f = [i \in 0 .. 0 |-> Base]
    OBVIOUS
  <2>2. Partial(f, 0)
    BY <2>1
  <2> QED BY <2>2
<1>2. ASSUME NEW m \in Bad, m # 0, m - 1 \notin Bad PROVE FALSE
  <2>1. m \in Nat /\ m - 1 \in Nat
    BY <1>2
  <2>2. PICK f : Partial(f, m - 1)
    BY <1>2, <2>1
  <2>3. PICK g : g = [i \in 0 .. m |-> IF i = m THEN Visited(f[m - 1], l[m], m, k, len) ELSE f[i]]
    OBVIOUS
  <2>4. ASSUME NEW i \in 0 .. m PROVE g[i] = IF i = 0 THEN Base ELSE Visited(g[i - 1], l[i], i, k, len)
    <3>1. CASE i = 0
      BY <1>2, <2>1, <2>2, <2>3, <3>1
    <3>2. CASE i # 0
      <4>1. i - 1 \in 0 .. m - 1 /\ i - 1 \in 0 .. m /\ i - 1 # m
        BY <2>1, <3>2
      <4>2. g[i - 1] = f[i - 1]
        BY <2>3, <4>1
      <4>3. CASE i = m
        BY <2>3, <3>2, <4>2, <4>3
      <4>4. CASE i # m
        <5>1. i \in 0 .. m - 1
          BY <2>1, <4>4
        <5>2. f[i] = Visited(f[i - 1], l[i], i, k, len)
          BY <2>2, <3>2, <5>1
        <5> QED BY <2>3, <3>2, <4>2, <4>4, <5>2
      <4> QED BY <4>3, <4>4
    <3> QED BY <3>1, <3>2
  <2>5. g = [i \in 0 .. m |-> g[i]]
    BY <2>3
  <2>6. Partial(g, m)
    BY <2>4, <2>5
  <2> QED BY <1>2, <2>6
<1>3. Bad = {}
  <2>1. PICK S : S = Bad
    OBVIOUS
  <2>2. S \in SUBSET Nat /\ 0 \notin S /\ \A m \in S : m # 0 => m - 1 \in S
    BY <1>1, <1>2, <2>1
  <2>3. S = {}
    BY <2>2, NoLeast
  <2> QED BY <2>1, <2>3
<1>4. \E f : Partial(f, n)
  BY <1>3
<1>5. PICK F : F = CHOOSE f : Partial(f, n)
  OBVIOUS
<1>6. Partial(F, n)
  BY <1>4, <1>5, Zenon
<1>7. at_recvpkt_get(l, k, len) = F[n]
  BY <1>5 DEF at_recvpkt_get, Visited
<1> QED BY <1>6, <1>7

\* What a queue holds is what it is: the bytes behind a up to b, whatever their packets.
LEMMA QueueFlattens ==
    ASSUME NEW l, NEW a \in Nat, NEW b \in Nat, Queue(l, a, b)
    PROVE  a <= b /\ FlattenSeq(l) = Bytes(a, b)
PROOF
<1>1. l \in Seq(Seq(Nat)) /\ \E e : Ends(l, a, b, e)
  BY DEF Queue
<1>2. PICK n \in Nat : n = Len(l)
  BY <1>1, LenProperties
<1>3. PICK e : /\ e \in [0 .. n -> Nat] /\ e[0] = a /\ e[n] = b
               /\ \A i \in 1 .. n : e[i - 1] < e[i] /\ l[i] = Bytes(e[i - 1], e[i])
  BY <1>1, <1>2 DEF Ends
<1>4. CASE n = 0
  <2>1. l = <<>> /\ a = b
    <3>1. l = <<>>
      BY <1>1, <1>2, <1>4, EmptySeq
    <3>2. a = b
      BY <1>3, <1>4
    <3> QED BY <3>1, <3>2
  <2>2. FlattenSeq(l) = l
    BY <1>2, <1>4 DEF FlattenSeq
  <2>3. Bytes(a, b) = <<>>
    BY <2>1, BytesFacts
  <2> QED BY <2>1, <2>2, <2>3
<1>5. CASE n # 0
  <2>1. PICK f : /\ f = [i \in 1 .. n |-> IF i = 1 THEN l[i] ELSE f[i - 1] \o l[i]]
                 /\ FlattenSeq(l) = f[n]
    BY <1>2, <1>5, FlattenFacts
  <2> DEFINE Wrong == {m \in Nat : m \in 1 .. n /\ ~(a <= e[m] /\ f[m] = Bytes(a, e[m]))}
  <2>2. 0 \notin Wrong
    OBVIOUS
  <2>3. ASSUME NEW m \in Wrong, m - 1 \notin Wrong PROVE FALSE
    <3>1. /\ m \in 1 .. n /\ m - 1 \in 0 .. n /\ e[m - 1] \in Nat /\ e[m] \in Nat
          /\ e[m - 1] < e[m] /\ l[m] = Bytes(e[m - 1], e[m])
      BY <1>3
    <3>2. CASE m = 1
      BY <1>3, <2>1, <3>1, <3>2
    <3>3. CASE m # 1
      <4>1. m - 1 \in 1 .. n
        BY <3>1, <3>3
      <4>2. a <= e[m - 1] /\ f[m - 1] = Bytes(a, e[m - 1])
        BY <2>3, <4>1
      <4>3. f[m] = f[m - 1] \o l[m]
        BY <2>1, <3>1, <3>3
      <4>4. f[m] = Bytes(a, e[m])
        <5>1. PICK x \in Nat, y \in Nat : x = e[m - 1] /\ y = e[m] /\ a <= x /\ x <= y
          BY <3>1, <4>2
        <5>2. Bytes(a, x) \o Bytes(x, y) = Bytes(a, y)
          BY <5>1, BytesConcat
        <5> QED BY <3>1, <4>2, <4>3, <5>1, <5>2
      <4>5. a <= e[m]
        BY <3>1, <4>2
      <4> QED BY <2>3, <4>4, <4>5
    <3> QED BY <3>2, <3>3
  <2>4. PICK S : S = Wrong
    OBVIOUS
  <2>5. S \in SUBSET Nat /\ 0 \notin S /\ \A m \in S : m # 0 => m - 1 \in S
    BY <2>2, <2>3, <2>4
  <2>6. S = {}
    BY <2>5, NoLeast
  <2>7. n \in 1 .. n
    BY <1>5
  <2>8. a <= e[n] /\ f[n] = Bytes(a, e[n])
    BY <2>4, <2>6, <2>7
  <2> QED BY <1>3, <2>1, <2>8
<1> QED BY <1>4, <1>5

\* The empty queue.
LEMMA QueueEmpty ==
    ASSUME NEW a \in Nat
    PROVE  Queue(<<>>, a, a)
PROOF
<1>1. PICK e : e = [i \in 0 .. 0 |-> a]
  OBVIOUS
<1>2. Ends(<<>>, a, a, e)
  BY <1>1 DEF Ends
<1> QED BY <1>2 DEF Queue

\* A packet with the bytes that come next.
LEMMA QueueAppend ==
    ASSUME NEW l, NEW a \in Nat, NEW b \in Nat, NEW c \in Nat, Queue(l, a, b), b < c
    PROVE  Queue(Append(l, Bytes(b, c)), a, c)
PROOF
<1>1. l \in Seq(Seq(Nat)) /\ \E e : Ends(l, a, b, e)
  BY DEF Queue
<1>2. PICK n \in Nat : n = Len(l)
  BY <1>1, LenProperties
<1>3. PICK e : /\ e \in [0 .. n -> Nat] /\ e[0] = a /\ e[n] = b
               /\ \A i \in 1 .. n : e[i - 1] < e[i] /\ l[i] = Bytes(e[i - 1], e[i])
  BY <1>1, <1>2 DEF Ends
<1>4. PICK p \in Seq(Nat) : p = Bytes(b, c)
  BY BytesFacts
<1>5. PICK k : k = Append(l, p)
  OBVIOUS
<1>6. /\ k \in Seq(Seq(Nat)) /\ Len(k) = n + 1 /\ k[n + 1] = p
      /\ \A i \in 1 .. n : k[i] = l[i]
  BY <1>1, <1>2, <1>4, <1>5, AppendProperties
<1>7. PICK d : d = [i \in 0 .. n + 1 |-> IF i = n + 1 THEN c ELSE e[i]]
  OBVIOUS
<1>8. d \in [0 .. n + 1 -> Nat] /\ d[0] = a /\ d[n + 1] = c /\ \A i \in 0 .. n : d[i] = e[i]
  BY <1>3, <1>7
<1>9. ASSUME NEW i \in 1 .. n + 1 PROVE d[i - 1] < d[i] /\ k[i] = Bytes(d[i - 1], d[i])
  <2>1. CASE i = n + 1
    <3>1. d[i - 1] = b /\ d[i] = c
      BY <1>3, <1>8, <2>1
    <3> QED BY <1>4, <1>6, <2>1, <3>1
  <2>2. CASE i # n + 1
    <3>1. i \in 1 .. n /\ i - 1 \in 0 .. n /\ i \in 0 .. n
      BY <2>2
    <3> QED BY <1>3, <1>6, <1>8, <3>1
  <2> QED BY <2>1, <2>2
<1>10. Ends(k, a, c, d)
  BY <1>6, <1>8, <1>9 DEF Ends
<1> QED BY <1>4, <1>5, <1>6, <1>10 DEF Queue

\* One packet of the walk: something is copied, and what is left of the packets is not empty.
LEMMA CopiedPlain ==
    ASSUME NEW acc, acc.mem \in Seq(Nat), acc.rest \in Seq(Packets), NEW len \in Nat \ {0},
           Len(acc.mem) <= len, NEW pkt \in Packets, NEW r, r = Copied(acc, pkt, len)
    PROVE  /\ r.mem \in Seq(Nat) /\ r.rest \in Seq(Packets) /\ Len(r.mem) <= len
           /\ r.mem # <<>>
PROOF
<1>1. PICK k \in Nat : k = Len(pkt) /\ k # 0 /\ pkt \in Seq(Nat) /\ \A i \in 1 .. k : pkt[i] \in Nat
  BY LenProperties, ElementOfSeq, EmptySeq DEF Packets
<1>2. PICK j \in Nat : j = Len(acc.mem)
  BY LenProperties
<1>3. PICK n \in Nat : n = Fits(acc, pkt, len) /\ n <= k /\ j + n <= len /\ (j = 0 => n # 0)
  <2>1. PICK x : x = Fits(acc, pkt, len)
    OBVIOUS
  <2>2. x = IF k < len - j THEN k ELSE len - j
    BY <1>1, <1>2, <2>1 DEF Fits
  <2>3. k \in Nat /\ k # 0 /\ j \in Nat /\ len \in Nat /\ len # 0 /\ j <= len
    BY <1>1, <1>2
  <2>4. x \in Nat /\ x <= k /\ j + x <= len /\ (j = 0 => x # 0)
    BY <2>2, <2>3
  <2> QED BY <2>1, <2>4
<1>4. n <= k /\ j + n <= len /\ (j = 0 => n # 0)
  BY <1>3
<1>5. PICK s : s = SubSeq(pkt, 1, n)
  OBVIOUS
<1>6. s \in Seq(Nat) /\ Len(s) = n
  <2>1. \A i \in 1 .. n : pkt[i] \in Nat
    BY <1>1, <1>4
  <2>2. s \in Seq(Nat) /\ Len(s) = IF 1 <= n THEN n - 1 + 1 ELSE 0
    BY <1>5, <2>1, SubSeqProperties
  <2> QED BY <2>2
<1>7. PICK m : m = acc.mem \o s
  OBVIOUS
<1>8. m \in Seq(Nat) /\ Len(m) = j + n
  BY <1>2, <1>6, <1>7, ConcatProperties
<1>9. r.mem = m
  BY <1>3, <1>5, <1>7 DEF Copied
<1>10. m # <<>>
  BY <1>4, <1>8, EmptySeq
<1>11. CASE n = Len(pkt)
  <2>1. r.rest = acc.rest
    BY <1>3, <1>11 DEF Copied
  <2> QED BY <1>4, <1>8, <1>9, <1>10, <2>1
<1>12. CASE n # Len(pkt)
  <2>1. PICK q : q = SubSeq(pkt, n + 1, Len(pkt))
    OBVIOUS
  <2>2. q \in Seq(Nat) /\ Len(q) = k - n
    <3>1. \A i \in n + 1 .. k : pkt[i] \in Nat
      BY <1>1
    <3>2. n + 1 \in Int /\ k \in Int /\ q = SubSeq(pkt, n + 1, k)
      BY <1>1, <2>1
    <3>3. q \in Seq(Nat) /\ Len(q) = IF n + 1 <= k THEN k - (n + 1) + 1 ELSE 0
      BY <3>1, <3>2, SubSeqProperties
    <3> QED BY <1>4, <3>3
  <2>3. q \in Packets
    BY <1>1, <1>4, <1>12, <2>2, EmptySeq DEF Packets
  <2>4. r.rest = Append(acc.rest, q)
    BY <1>3, <1>12, <2>1 DEF Copied
  <2>5. r.rest \in Seq(Packets)
    BY <2>3, <2>4, AppendProperties
  <2> QED BY <1>4, <1>8, <1>9, <1>10, <2>5
<1> QED BY <1>11, <1>12

\* at_recvpkt_get finds bytes where there are packets, and leaves no empty packet.
LEMMA GetPlain ==
    ASSUME NEW l \in Seq(Packets), NEW k \in Nat \ {0}, NEW len \in Nat \ {0},
           NEW r, r = at_recvpkt_get(l, k, len)
    PROVE  r.mem \in Seq(Nat) /\ r.rest \in Seq(Packets) /\ (r.mem = <<>> <=> l = <<>>)
PROOF
<1>1. PICK n \in Nat : n = Len(l) /\ \A i \in 1 .. n : l[i] \in Packets
  BY LenProperties, ElementOfSeq
<1>2. PICK f : /\ f = [i \in 0 .. n |-> IF i = 0 THEN [mem |-> <<>>, rest |-> <<>>]
                                        ELSE Visited(f[i - 1], l[i], i, k, len)]
               /\ at_recvpkt_get(l, k, len) = f[n]
  BY <1>1, WalkFacts
<1> DEFINE Good(m) == /\ f[m].mem \in Seq(Nat) /\ f[m].rest \in Seq(Packets) /\ Len(f[m].mem) <= len
                      /\ f[m].mem = <<>> <=> m = 0
           Wrong == {m \in Nat : m <= n /\ ~Good(m)}
<1>3. Good(0)
  <2>1. f[0] = [mem |-> <<>>, rest |-> <<>>]
    BY <1>2
  <2>2. f[0].mem = <<>> /\ f[0].rest = <<>>
    BY <2>1
  <2> QED BY <2>2, EmptySeq
<1>4. ASSUME NEW m \in Wrong, m # 0, m - 1 \notin Wrong PROVE FALSE
  <2>1. m \in 1 .. n /\ m - 1 \in Nat /\ m - 1 <= n /\ m \in 0 .. n
    BY <1>4
  <2>2. Good(m - 1)
    BY <1>4, <2>1
  <2>3. f[m] = Visited(f[m - 1], l[m], m, k, len)
    BY <1>2, <1>4, <2>1
  <2>4. l[m] \in Packets
    BY <1>1, <2>1
  <2>5. PICK acc : acc = f[m - 1]
    OBVIOUS
  <2>6. PICK x : x = f[m]
    OBVIOUS
  <2>7. /\ x.mem \in Seq(Nat) /\ x.rest \in Seq(Packets) /\ Len(x.mem) <= len /\ x.mem # <<>>
    <3>1. CASE m <= k
      <4>1. x = Copied(acc, l[m], len)
        BY <2>3, <2>5, <2>6, <3>1 DEF Visited
      <4> QED BY <2>2, <2>4, <2>5, <4>1, CopiedPlain
    <3>2. CASE ~(m <= k)
      <4>1. x = Kept(acc, l[m])
        BY <2>3, <2>5, <2>6, <3>2 DEF Visited
      <4>2. acc.mem \in Seq(Nat) /\ acc.rest \in Seq(Packets) /\ Len(acc.mem) <= len
        BY <2>2, <2>5
      <4>3. x.mem = acc.mem /\ x.rest = Append(acc.rest, l[m])
        BY <4>1 DEF Kept
      <4>4. acc.mem # <<>>
        BY <2>1, <2>2, <2>5, <3>2
      <4> QED BY <2>4, <4>2, <4>3, <4>4, AppendProperties
    <3> QED BY <3>1, <3>2
  <2>8. Good(m)
    BY <1>4, <2>6, <2>7
  <2> QED BY <1>4, <2>8
<1>5. Good(n)
  <2>1. PICK S : S = Wrong
    OBVIOUS
  <2>2. S \in SUBSET Nat /\ 0 \notin S /\ \A m \in S : m # 0 => m - 1 \in S
    BY <1>3, <1>4, <2>1
  <2>3. S = {}
    BY <2>2, NoLeast
  <2> QED BY <2>1, <2>3
<1>6. l = <<>> <=> n = 0
  BY <1>1, EmptySeq
<1> QED BY <1>2, <1>5, <1>6

\* The walk has come to the packet that begins behind byte b, and has copied the bytes behind a up
\* to c: it leaves a rest only when the buffer is full.
Walked(acc, a, b, c, len) ==
    /\ a <= c /\ c <= b /\ c - a <= len /\ (c < b => c - a = len)
    /\ acc.mem = Bytes(a, c) /\ Queue(acc.rest, c, b) /\ (c = b => acc.rest = <<>>)

\* The same after the walk has ended: there may be a rest though the buffer has room.
Taken(acc, a, b, c) == a <= c /\ c <= b /\ acc.mem = Bytes(a, c) /\ Queue(acc.rest, c, b)

\* One packet of the walk, in bytes: what is copied ends where the rest begins, and there is a rest
\* only when the buffer is full.
LEMMA CopiedQueue ==
    ASSUME NEW a \in Nat, NEW b \in Nat, NEW c \in Nat, NEW d \in Nat, NEW len \in Nat, b < d,
           NEW acc, Walked(acc, a, b, c, len), NEW r, r = Copied(acc, Bytes(b, d), len)
    PROVE  \E e \in Nat : Walked(r, a, d, e, len)
PROOF
<1>0. /\ a <= c /\ c <= b /\ c - a <= len /\ (c < b => c - a = len)
      /\ acc.mem = Bytes(a, c) /\ Queue(acc.rest, c, b) /\ (c = b => acc.rest = <<>>)
  BY DEF Walked
<1>1. PICK pkt : pkt = Bytes(b, d)
  OBVIOUS
<1>2. Len(pkt) = d - b /\ Len(acc.mem) = c - a
  <2>1. b <= d
    OBVIOUS
  <2>2. Len(pkt) = d - b
    BY <1>1, <2>1, BytesFacts
  <2>3. Len(acc.mem) = c - a
    BY <1>0, BytesFacts
  <2> QED BY <2>2, <2>3
<1>3. PICK n \in Nat : /\ n = Fits(acc, pkt, len)
                       /\ n <= d - b /\ (c - a) + n <= len /\ (n # d - b => (c - a) + n = len)
  <2>1. PICK x : x = Fits(acc, pkt, len)
    OBVIOUS
  <2>2. x = IF d - b < len - (c - a) THEN d - b ELSE len - (c - a)
    BY <1>2, <2>1 DEF Fits
  <2>3. x \in Nat /\ x <= d - b /\ (c - a) + x <= len /\ (x # d - b => (c - a) + x = len)
    BY <1>0, <2>2
  <2> QED BY <2>1, <2>3
<1>4. n <= d - b /\ (c - a) + n <= len /\ (n # d - b => (c - a) + n = len)
  BY <1>3
<1>5. SubSeq(pkt, 1, n) = Bytes(b, b + n)
  BY <1>1, <1>4, BytesFirst
<1>6. r.mem = Bytes(a, c) \o Bytes(b, b + n)
  BY <1>0, <1>1, <1>3, <1>5 DEF Copied
<1>7. SubSeq(pkt, n + 1, Len(pkt)) = Bytes(b + n, d)
  <2>1. SubSeq(Bytes(b, d), n + 1, d - b) = Bytes(b + n, d)
    BY <1>4, BytesRest
  <2> QED BY <1>1, <1>2, <2>1
<1>8. r.rest = IF n = d - b THEN acc.rest ELSE Append(acc.rest, Bytes(b + n, d))
  BY <1>1, <1>2, <1>3, <1>7 DEF Copied
<1>9. CASE c < b
  <2>1. n = 0 /\ n # d - b
    BY <1>0, <1>4, <1>9
  <2>2. Bytes(b, b + n) = <<>> /\ Bytes(a, c) \in Seq(Nat)
    BY <1>0, <2>1, BytesFacts
  <2>3. r.mem = Bytes(a, c)
    BY <1>6, <2>2, ConcatEmptySeq
  <2>4. b + n = b
    BY <2>1
  <2>5. r.rest = Append(acc.rest, Bytes(b, d))
    BY <1>8, <2>1, <2>4
  <2>6. Queue(r.rest, c, d)
    BY <1>0, <2>5, QueueAppend
  <2> QED BY <1>0, <1>9, <2>3, <2>6 DEF Walked
<1>10. CASE c = b
  <2>1. PICK e \in Nat : e = b + n
    OBVIOUS
  <2>2. r.mem = Bytes(a, e)
    <3>1. a <= c /\ c <= e /\ r.mem = Bytes(a, c) \o Bytes(c, e)
      BY <1>0, <1>6, <1>10, <2>1
    <3> QED BY <2>1, <3>1, BytesConcat
  <2>3. c <= e /\ e <= d /\ e - a <= len /\ (e < d => e - a = len)
    BY <1>0, <1>4, <1>10, <2>1
  <2>4. CASE n = d - b
    <3>1. e = d /\ r.rest = <<>>
      BY <1>0, <1>8, <1>10, <2>1, <2>4
    <3>2. Queue(r.rest, e, d)
      BY <2>1, <3>1, QueueEmpty
    <3>3. a <= e
      BY <1>0, <2>1, <2>3
    <3> QED BY <2>1, <2>2, <2>3, <3>1, <3>2, <3>3 DEF Walked
  <2>5. CASE n # d - b
    <3>1. e < d
      BY <1>4, <2>1, <2>5
    <3>2. r.rest = Append(<<>>, Bytes(e, d))
      BY <1>0, <1>8, <1>10, <2>1, <2>5
    <3>3. Queue(<<>>, e, e)
      BY <2>1, QueueEmpty
    <3>4. Queue(r.rest, e, d)
      BY <2>1, <3>1, <3>2, <3>3, QueueAppend
    <3>5. a <= e
      BY <1>0, <2>1, <2>3
    <3> QED BY <2>1, <2>2, <2>3, <3>1, <3>4, <3>5 DEF Walked
  <2> QED BY <2>4, <2>5
<1>11. c < b \/ c = b
  BY <1>0
<1> QED BY <1>9, <1>10, <1>11

\* at_recvpkt_get takes the first bytes of a queue and leaves the others in it.
LEMMA GetQueue ==
    ASSUME NEW l, NEW a \in Nat, NEW b \in Nat, Queue(l, a, b), NEW k \in Nat,
           NEW len \in Nat, NEW r, r = at_recvpkt_get(l, k, len)
    PROVE  \E c \in Nat : a <= c /\ c <= b /\ r.mem = Bytes(a, c) /\ Queue(r.rest, c, b)
PROOF
<1>1. l \in Seq(Seq(Nat)) /\ \E e : Ends(l, a, b, e)
  BY DEF Queue
<1>2. PICK n \in Nat : n = Len(l)
  BY <1>1, LenProperties
<1>3. PICK e : /\ e \in [0 .. n -> Nat] /\ e[0] = a /\ e[n] = b
               /\ \A i \in 1 .. n : e[i - 1] < e[i] /\ l[i] = Bytes(e[i - 1], e[i])
  BY <1>1, <1>2 DEF Ends
<1>4. PICK f : /\ f = [i \in 0 .. n |-> IF i = 0 THEN [mem |-> <<>>, rest |-> <<>>]
                                        ELSE Visited(f[i - 1], l[i], i, k, len)]
               /\ at_recvpkt_get(l, k, len) = f[n]
  BY <1>2, WalkFacts
<1> DEFINE Good(m) == \E x \in Nat : /\ Taken(f[m], a, e[m], x)
                                     /\ m <= k => Walked(f[m], a, e[m], x, len)
           Wrong == {m \in Nat : m <= n /\ ~Good(m)}
<1>5. Good(0)
  <2>1. f[0] = [mem |-> <<>>, rest |-> <<>>]
    BY <1>4
  <2>2. f[0].mem = <<>> /\ f[0].rest = <<>>
    BY <2>1
  <2>3. Bytes(a, a) = <<>> /\ Queue(<<>>, a, a)
    BY BytesFacts, QueueEmpty
  <2>4. Walked(f[0], a, e[0], a, len) /\ Taken(f[0], a, e[0], a)
    BY <1>3, <2>2, <2>3 DEF Walked, Taken
  <2> QED BY <2>4
<1>6. ASSUME NEW m \in Wrong, m # 0, m - 1 \notin Wrong PROVE FALSE
  <2>1. m \in 1 .. n /\ m - 1 \in Nat /\ m - 1 <= n /\ m \in 0 .. n /\ m - 1 \in 0 .. n
    BY <1>6
  <2>2. PICK c \in Nat : /\ Taken(f[m - 1], a, e[m - 1], c)
                         /\ m - 1 <= k => Walked(f[m - 1], a, e[m - 1], c, len)
    BY <1>6, <2>1
  <2>3. PICK u \in Nat, v \in Nat : u = e[m - 1] /\ v = e[m] /\ u < v /\ l[m] = Bytes(u, v)
    BY <1>3, <2>1
  <2>4. PICK acc : acc = f[m - 1]
    OBVIOUS
  <2>5. PICK s : s = f[m]
    OBVIOUS
  <2>6. s = Visited(acc, Bytes(u, v), m, k, len)
    BY <1>4, <1>6, <2>1, <2>3, <2>4, <2>5
  <2>7. \E x \in Nat : Taken(s, a, v, x) /\ (m <= k => Walked(s, a, v, x, len))
    <3>1. CASE m <= k
      <4>1. Walked(acc, a, u, c, len) /\ s = Copied(acc, Bytes(u, v), len)
        BY <2>1, <2>2, <2>3, <2>4, <2>6, <3>1 DEF Visited
      <4>2. PICK x \in Nat : Walked(s, a, v, x, len)
        BY <2>2, <2>3, <4>1, CopiedQueue
      <4> QED BY <4>2 DEF Walked, Taken
    <3>2. CASE ~(m <= k)
      <4>1. s = Kept(acc, Bytes(u, v))
        BY <2>6, <3>2 DEF Visited
      <4>2. a <= c /\ c <= u /\ acc.mem = Bytes(a, c) /\ Queue(acc.rest, c, u)
        BY <2>2, <2>3, <2>4 DEF Taken
      <4>3. s.mem = acc.mem /\ s.rest = Append(acc.rest, Bytes(u, v))
        BY <4>1 DEF Kept
      <4>4. Queue(s.rest, c, v)
        BY <2>3, <4>2, <4>3, QueueAppend
      <4>5. c <= v
        BY <2>3, <4>2
      <4>6. Taken(s, a, v, c)
        BY <4>2, <4>3, <4>4, <4>5 DEF Taken
      <4> QED BY <3>2, <4>6
    <3> QED BY <3>1, <3>2
  <2>8. Good(m)
    BY <2>3, <2>5, <2>7
  <2> QED BY <1>6, <2>8
<1>7. Good(n)
  <2>1. PICK S : S = Wrong
    OBVIOUS
  <2>2. S \in SUBSET Nat /\ 0 \notin S /\ \A m \in S : m # 0 => m - 1 \in S
    BY <1>5, <1>6, <2>1
  <2>3. S = {}
    BY <2>2, NoLeast
  <2> QED BY <2>1, <2>3
<1> QED BY <1>3, <1>4, <1>7 DEF Taken

-----------------------------------------------------------------------------
(***************************************************************************)
(* The bytes of the sockets, step by step.                                 *)
(***************************************************************************)
DataTyped == stored \in [Slots -> Nat] /\ read \in [Slots -> Int]

\* No packet is empty; an open socket holds the queued bytes that were not received.
SockData(s) ==
    /\ sock[s].recvpkt_list \in Seq(Packets)
    /\ sock[s].magic =>
          read[s] \in Nat /\ Queue(sock[s].recvpkt_list, read[s], stored[s])

Receiving == {"state", "wait", "woken"}

\* A thread in at_recvfrom has room for a byte; before and while it waits it has found nothing, and
\* a later packet comes with a notice.
ThreadData(t) ==
    /\ app[t].pc \in Receiving => app[t].len # 0
    /\ app[t].pc \in {"state", "wait"} /\ sock[app[t].slot].recv_notice = 0 =>
          sock[app[t].slot].recvpkt_list = <<>>

Data == DataTyped /\ (\A s \in Slots : SockData(s)) /\ (\A t \in Threads : ThreadData(t))

DataInv == tidy => Data

\* A step that concerns one socket, and the threads that do not receive from it.
LEMMA DataStep ==
    ASSUME Data, NEW s \in Slots, DataTyped', SockData(s)',
           \A r \in Slots \ {s} :
               sock'[r] = sock[r] /\ stored'[r] = stored[r] /\ read'[r] = read[r],
           \A u \in Threads : \/ ThreadData(u)'
                              \/ /\ app'[u] = app[u]
                                 /\ app[u].pc \in Receiving => app[u].slot \in Slots \ {s}
    PROVE  Data'
PROOF
<1>1. ASSUME NEW r \in Slots PROVE SockData(r)'
  <2>1. CASE r = s
    BY <2>1
  <2>2. CASE r # s
    BY <2>2 DEF Data, SockData
  <2> QED BY <2>1, <2>2
<1>2. ASSUME NEW u \in Threads PROVE ThreadData(u)'
  <2>1. CASE /\ app'[u] = app[u]
             /\ app[u].pc \in Receiving => app[u].slot \in Slots \ {s}
    <3>1. ThreadData(u)
      BY DEF Data
    <3>2. app[u].pc \in Receiving => sock'[app[u].slot] = sock[app[u].slot]
      BY <2>1
    <3> QED BY <2>1, <3>1, <3>2 DEF ThreadData, Receiving
  <2> QED BY <2>1
<1> QED BY <1>1, <1>2 DEF Data

\* Nobody else receives from a thread's socket.
LEMMA Others ==
    ASSUME SocketInv, NEW t \in Threads, NEW s \in Slots, handle[t].slot = s,
           NEW u \in Threads, u # t, app[u].pc \in Receiving
    PROVE  app[u].slot \in Slots \ {s}
PROOF
<1>1. handle[u].slot \in Slots /\ handle[u].slot # None /\ handle[t].slot # None
  BY Lookup, AtSocketAssumption DEF Receiving
<1>2. app[u].slot = handle[u].slot
  BY <1>1, HolderFacts DEF Receiving
<1>3. handle[u].slot # handle[t].slot
  BY <1>1 DEF SocketInv, Distinct
<1> QED BY <1>1, <1>2, <1>3

\* A step of a thread that leaves the packets as they are.
LEMMA QuietStep ==
    ASSUME SocketInv, Data, NEW t \in Threads, NEW s \in Slots, handle[t].slot = s,
           UNCHANGED <<stored, read>>,
           \A r \in Slots \ {s} : sock'[r] = sock[r],
           sock'[s].recvpkt_list = sock[s].recvpkt_list, sock'[s].magic = sock[s].magic,
           \A u \in Threads \ {t} : app'[u] = app[u], ThreadData(t)'
    PROVE  Data'
PROOF
<1>1. DataTyped'
  BY DEF Data, DataTyped
<1>2. SockData(s)'
  BY DEF Data, SockData
<1>3. ASSUME NEW u \in Threads
      PROVE  \/ ThreadData(u)'
             \/ /\ app'[u] = app[u]
                /\ app[u].pc \in Receiving => app[u].slot \in Slots \ {s}
  <2>1. CASE u = t
    BY <2>1
  <2>2. CASE u # t
    BY <2>2, Others
  <2> QED BY <2>1, <2>2
<1> QED BY <1>1, <1>2, <1>3, DataStep

\* A thread that is in no receive has nothing to say of data.
LEMMA NotReceiving ==
    ASSUME NEW t, app'[t].pc \notin Receiving
    PROVE  ThreadData(t)'
PROOF
BY DEF ThreadData, Receiving

\* at_connect and at_closesocket, but for the last step, and a receive that times out.
LEMMA CallsKeepData ==
    ASSUME SocketInv, Data, NEW t \in Threads,
           \/ ConnectRefused(t) \/ ConnectBegin(t) \/ ModemConnects(t) \/ ConnectEnd(t)
           \/ RecvTimeout(t) \/ CloseBegin(t) \/ CloseFind(t) \/ ModemCloses(t)
    PROVE  Data'
PROOF
<1>0. Typed
  BY DEF SocketInv
<1>1. PICK s \in Slots : s = handle[t].slot /\ at_get_socket(handle[t].fd) = s /\ s # None
  <2>1. handle[t] # NoHandle \/ app[t].pc # "idle" \/ at_get_socket(handle[t].fd) # None
    BY DEF ConnectRefused, ConnectBegin, ModemConnects, ConnectEnd, RecvTimeout, CloseBegin,
           CloseFind, ModemCloses
  <2>2. handle[t].slot \in Slots
    BY <2>1, Lookup
  <2> QED BY <2>2, Lookup, AtSocketAssumption
<1>2. app[t].pc \notin {"idle", "delay"} => app[t].slot = s
  BY <1>1, HolderFacts
<1>3. UNCHANGED <<stored, read>>
  BY DEF ConnectRefused, ConnectBegin, ModemConnects, ConnectEnd, RecvTimeout, CloseBegin,
         CloseFind, ModemCloses, netVars
<1>4. /\ \A u \in Threads \ {t} : app'[u] = app[u]
      /\ app'[t].pc \notin Receiving
  <2>1. \E a : app' = [app EXCEPT ![t] = a] /\ a.pc \notin Receiving
    <3>1. CASE ConnectRefused(t) \/ RecvTimeout(t)
      BY <3>1 DEF ConnectRefused, RecvTimeout, Return, AtRest, Receiving
    <3>2. CASE ConnectBegin(t) \/ CloseBegin(t)
      <4>1. CASE ConnectBegin(t)
        <5>1. app' = [app EXCEPT ![t] = [AtRest EXCEPT !.pc = "connecting", !.slot = s]]
          BY <1>1, <4>1 DEF ConnectBegin
        <5>2. [AtRest EXCEPT !.pc = "connecting", !.slot = s].pc \notin Receiving
          BY DEF AtRest, Receiving
        <5> QED BY <5>1, <5>2, Zenon
      <4>2. CASE CloseBegin(t)
        <5>1. app' = [app EXCEPT ![t] = [AtRest EXCEPT !.pc = "delay"]]
          BY <4>2 DEF CloseBegin
        <5>2. [AtRest EXCEPT !.pc = "delay"].pc \notin Receiving
          BY DEF AtRest, Receiving
        <5> QED BY <5>1, <5>2, Zenon
      <4> QED BY <3>2, <4>1, <4>2
    <3>3. CASE ModemConnects(t) \/ ConnectEnd(t)
      BY <1>0, <3>3 DEF ModemConnects, ConnectEnd, Return, Goto, AtRest, Receiving, Typed
    <3>4. CASE CloseFind(t)
      <4>1. PICK a : a = [app[t] EXCEPT !.slot = s,
                                        !.pc = IF sock[s].state = "CLOSED" THEN "free" ELSE "closing"]
        OBVIOUS
      <4>2. app' = [app EXCEPT ![t] = a]
        BY <1>0, <1>1, <3>4, <4>1 DEF CloseFind, Typed
      <4>3. a.pc \notin Receiving
        BY <1>0, <4>1 DEF Typed, Receiving
      <4> QED BY <4>2, <4>3
    <3>5. CASE ModemCloses(t)
      <4>1. PICK a : a = [app[t] EXCEPT !.pc = "free"]
        OBVIOUS
      <4>2. app' = [app EXCEPT ![t] = a]
        BY <1>0, <3>5, <4>1 DEF ModemCloses, Goto, Typed
      <4>3. a.pc \notin Receiving
        BY <1>0, <4>1 DEF Typed, Receiving
      <4> QED BY <4>2, <4>3
    <3> QED BY <3>1, <3>2, <3>3, <3>4, <3>5
  <2> QED BY <1>0, <2>1 DEF Typed
<1>5. /\ \A r \in Slots \ {s} : sock'[r] = sock[r]
      /\ sock'[s].recvpkt_list = sock[s].recvpkt_list /\ sock'[s].magic = sock[s].magic
  <2>1. CASE sock' = sock
    BY <2>1
  <2>2. CASE sock' # sock
    <3>1. ConnectEnd(t) \/ CloseFind(t)
      BY <2>2 DEF ConnectRefused, ConnectBegin, ModemConnects, RecvTimeout, CloseBegin, ModemCloses
    <3>2. PICK x : sock' = [sock EXCEPT ![s].state = x]
      BY <1>1, <1>2, <2>2, <3>1 DEF ConnectEnd, CloseFind
    <3>3. sock[s] \in SockRecords({sock[u].recvpkt_list : u \in Slots}) /\ DOMAIN sock = Slots
      BY <1>0 DEF Typed, SockTyped
    <3> QED BY <3>2, <3>3 DEF SockRecords
  <2> QED BY <2>1, <2>2
<1>6. /\ \A r \in Slots \ {s} : clean'[r] = clean[r]
      /\ clean'[s] => clean[s]
  <2>1. CASE clean' = clean
    BY <2>1
  <2>2. CASE clean' # clean
    BY <1>0, <1>2, <2>2 DEF ConnectRefused, ConnectBegin, ModemConnects, ConnectEnd, RecvTimeout,
                            CloseBegin, CloseFind, ModemCloses, netVars, Typed
  <2> QED BY <2>1, <2>2
<1>7. ThreadData(t)'
  BY <1>4, NotReceiving
<1> QED BY <1>1, <1>3, <1>4, <1>5, <1>6, <1>7, QuietStep

\* at_recvfrom returns the bytes that come next.
LEMMA GotData ==
    ASSUME SocketInv, Data, NEW t \in Threads, NEW s \in Slots, handle[t].slot = s,
           NEW k \in Nat \ {0}, NEW len \in Nat \ {0},
           NEW r, r = at_recvpkt_get(sock[s].recvpkt_list, k, len), r.mem # <<>>,
           sock' = [sock EXCEPT ![s].recvpkt_list = r.rest],
           read' = [read EXCEPT ![s] = Advanced(@, r.mem)],
           Return(t), UNCHANGED stored
    PROVE  Data'
PROOF
<1>0. Typed
  BY DEF SocketInv
<1>1. PICK l : l = sock[s].recvpkt_list
  OBVIOUS
<1>2. l \in Seq(Packets) /\ DataTyped /\ SockData(s)
  BY <1>1 DEF Data, SockData
<1>3. r.mem \in Seq(Nat) /\ r.rest \in Seq(Packets)
  BY <1>1, <1>2, GetPlain
<1>4. PICK m : m = r.mem
  OBVIOUS
<1>6. PICK x : x = Advanced(read[s], m)
  OBVIOUS
<1>7. x \in Int /\ read' = [read EXCEPT ![s] = x]
  <2>1. Len(m) \in Nat /\ read[s] \in Int
    BY <1>2, <1>3, <1>4, LenProperties DEF DataTyped
  <2>2. x \in Int
    BY <1>6, <2>1 DEF Advanced
  <2> QED BY <1>2, <1>4, <1>6, <2>2 DEF DataTyped
<1>8. DataTyped' /\ read'[s] = x /\ \A u \in Slots \ {s} : read'[u] = read[u]
  BY <1>2, <1>7 DEF DataTyped
<1>9. /\ sock'[s].recvpkt_list = r.rest /\ sock'[s].magic = sock[s].magic
      /\ \A u \in Slots \ {s} : sock'[u] = sock[u]
  <2>1. sock[s] \in SockRecords({sock[u].recvpkt_list : u \in Slots}) /\ DOMAIN sock = Slots
    BY <1>0 DEF Typed, SockTyped
  <2> QED BY <2>1 DEF SockRecords
<1>10. SockData(s)'
  <2>1. ASSUME sock[s].magic
        PROVE  x \in Nat /\ Queue(r.rest, x, stored[s])
    <3>1. PICK a \in Nat, b \in Nat : a = read[s] /\ b = stored[s] /\ Queue(l, a, b)
      BY <1>1, <1>2, <2>1 DEF SockData, DataTyped
    <3>2. PICK c \in Nat : a <= c /\ c <= b /\ m = Bytes(a, c) /\ Queue(r.rest, c, b)
      BY <1>1, <1>4, <3>1, GetQueue
    <3>3. Len(m) = c - a
      BY <3>2, BytesFacts
    <3>4. m = [i \in 1 .. Len(m) |-> a + i]
      BY <3>2, <3>3 DEF Bytes
    <3>5. x = a + Len(m)
      BY <1>6, <3>1, <3>4 DEF Advanced
    <3>6. x = c
      BY <3>3, <3>5
    <3> QED BY <3>1, <3>2, <3>6
  <2> QED BY <1>3, <1>8, <1>9, <2>1 DEF SockData
<1>11. app'[t] = AtRest /\ \A u \in Threads \ {t} : app'[u] = app[u]
  BY <1>0 DEF Typed, Return
<1>12. ASSUME NEW u \in Threads
       PROVE  \/ ThreadData(u)'
              \/ /\ app'[u] = app[u]
                 /\ app[u].pc \in Receiving => app[u].slot \in Slots \ {s}
  <2>1. CASE u = t
    <3>1. app'[t].pc \notin Receiving
      BY <1>11 DEF AtRest, Receiving
    <3> QED BY <2>1, <3>1, NotReceiving
  <2>2. CASE u # t
    BY <1>11, <2>2, Others
  <2> QED BY <2>1, <2>2
<1>13. \A u \in Slots \ {s} :
           sock'[u] = sock[u] /\ stored'[u] = stored[u] /\ read'[u] = read[u]
  BY <1>8, <1>9
<1> QED BY <1>8, <1>10, <1>12, <1>13, DataStep

\* at_recvfrom begins: bytes, or there are none.
LEMMA RecvBeginData ==
    ASSUME SocketInv, Data, NEW t \in Threads, RecvBegin(t)
    PROVE  Data'
PROOF
<1>0. Typed
  BY DEF SocketInv
<1>1. PICK s \in Slots : s = handle[t].slot /\ at_get_socket(handle[t].fd) = s
  BY Lookup DEF RecvBegin
<1>2. PICK len \in Lens, wait \in BOOLEAN :
          Got(t, s, len,
              app' = [app EXCEPT ![t] = [pc |-> "state", slot |-> s,
                                         wait |-> wait, len |-> len, eof |-> FALSE]])
  BY <1>1 DEF RecvBegin
<1>3. len \in Nat \ {0}
  BY AtSocketAssumption
<1>4. UNCHANGED <<stored, clean>>
  BY DEF RecvBegin
<1>5. PICK k, r :
         /\ k \in Nat \ {0}
         /\ r = at_recvpkt_get(sock[s].recvpkt_list, k, len)
         /\ IF r.mem # <<>>
            THEN /\ sock' = [sock EXCEPT ![s].recvpkt_list = r.rest]
                 /\ read' = [read EXCEPT ![s] = Advanced(@, r.mem)]
                 /\ Return(t)
            ELSE /\ app' = [app EXCEPT ![t] = [pc |-> "state", slot |-> s, wait |-> wait,
                                               len |-> len, eof |-> FALSE]]
                 /\ UNCHANGED <<sock, read>>
  <2>1. \A n : \A k \in 1 .. n : k \in Nat \ {0}
    OBVIOUS
  <2> QED BY <1>2, <2>1 DEF Got
<1>6. CASE r.mem # <<>>
  <2>1. /\ sock' = [sock EXCEPT ![s].recvpkt_list = r.rest]
        /\ read' = [read EXCEPT ![s] = Advanced(@, r.mem)]
        /\ Return(t)
    BY <1>5, <1>6
  <2> QED BY <1>1, <1>3, <1>4, <1>5, <1>6, <2>1, GotData
<1>7. CASE r.mem = <<>>
  <2>1. PICK a : a = [pc |-> "state", slot |-> s, wait |-> wait, len |-> len, eof |-> FALSE]
    OBVIOUS
  <2>2. app' = [app EXCEPT ![t] = a] /\ UNCHANGED <<sock, read>>
    BY <1>5, <1>7, <2>1
  <2>3. app'[t] = a /\ \A u \in Threads \ {t} : app'[u] = app[u]
    BY <1>0, <2>2 DEF Typed
  <2>4. sock[s].recvpkt_list = <<>>
    <3>1. sock[s].recvpkt_list \in Seq(Packets)
      BY DEF Data, SockData
    <3> QED BY <1>3, <1>5, <1>7, <3>1, GetPlain
  <2>5. ThreadData(t)'
    BY <1>3, <2>1, <2>2, <2>3, <2>4 DEF ThreadData
  <2> QED BY <1>1, <1>4, <2>2, <2>3, <2>5, QuietStep
<1> QED BY <1>6, <1>7

\* The state is looked at, and a notice is taken.
LEMMA RecvWaitData ==
    ASSUME SocketInv, Data, NEW t \in Threads, RecvState(t) \/ RecvTakes(t)
    PROVE  Data'
PROOF
<1>0. Typed /\ ThreadData(t)
  BY DEF SocketInv, Data
<1>1. PICK s \in Slots : s = handle[t].slot /\ app[t].slot = s
  BY Lookup, HolderFacts, AtSocketAssumption DEF RecvState, RecvTakes
<1>2. UNCHANGED <<stored, read, clean>>
  BY DEF RecvState, RecvTakes, netVars
<1>3. \A u \in Threads \ {t} : app'[u] = app[u]
  BY <1>0 DEF RecvState, RecvTakes, Goto, Return, ReturnZero, Typed
<1>4. CASE RecvState(t)
  <2>1. sock' = sock /\ app[t].pc = "state"
    BY <1>4 DEF RecvState
  <2>2. CASE Goto(t, "wait")
    <3>1. app'[t].pc = "wait" /\ app'[t].slot = s /\ app'[t].len = app[t].len
      BY <1>0, <1>1, <2>2 DEF Goto, Typed
    <3>2. ThreadData(t)'
      BY <1>0, <1>1, <2>1, <3>1 DEF ThreadData, Receiving
    <3> QED BY <1>1, <1>2, <1>3, <2>1, <3>2, QuietStep
  <2>3. CASE Return(t) \/ ReturnZero(t)
    <3>1. app'[t].pc \notin Receiving
      BY <1>0, <2>3 DEF Return, ReturnZero, AtRest, Typed, Receiving
    <3>2. ThreadData(t)'
      BY <3>1, NotReceiving
    <3> QED BY <1>1, <1>2, <1>3, <2>1, <3>2, QuietStep
  <2> QED BY <1>4, <2>2, <2>3 DEF RecvState
<1>5. CASE RecvTakes(t)
  <2>1. app'[t].pc = "woken" /\ app'[t].len = app[t].len /\ app[t].pc = "wait"
    BY <1>0, <1>5 DEF RecvTakes, Goto, Typed
  <2>2. ThreadData(t)'
    BY <1>0, <2>1 DEF ThreadData, Receiving
  <2>3. /\ \A r \in Slots \ {s} : sock'[r] = sock[r]
        /\ sock'[s].recvpkt_list = sock[s].recvpkt_list /\ sock'[s].magic = sock[s].magic
    <3>1. PICK x : sock' = [sock EXCEPT ![s].recv_notice = x]
      BY <1>1, <1>5 DEF RecvTakes
    <3>2. sock[s] \in SockRecords({sock[u].recvpkt_list : u \in Slots}) /\ DOMAIN sock = Slots
      BY <1>0 DEF Typed, SockTyped
    <3> QED BY <3>1, <3>2 DEF SockRecords
  <2> QED BY <1>1, <1>2, <1>3, <2>2, <2>3, QuietStep
<1> QED BY <1>4, <1>5

\* After a notice: bytes, another wait with nothing left, or the end of the stream.
LEMMA RecvWokenData ==
    ASSUME SocketInv, Data, NEW t \in Threads, RecvWoken(t)
    PROVE  Data'
PROOF
<1>0. Typed /\ ThreadData(t)
  BY DEF SocketInv, Data
<1>1. PICK s \in Slots : s = handle[t].slot /\ app[t].slot = s
  BY Lookup, HolderFacts, AtSocketAssumption DEF RecvWoken
<1>2. UNCHANGED <<stored, clean>> /\ app[t].pc = "woken"
  BY DEF RecvWoken
<1>3. PICK len \in Nat \ {0} : len = app[t].len
  BY <1>0, <1>2 DEF Typed, ThreadData, Receiving
<1>5. CASE Got(t, s, len, Goto(t, "wait"))
  <2> DEFINE Takes(k, r) ==
               /\ r = at_recvpkt_get(sock[s].recvpkt_list, k, len)
               /\ IF r.mem # <<>>
                  THEN /\ sock' = [sock EXCEPT ![s].recvpkt_list = r.rest]
                       /\ read' = [read EXCEPT ![s] = Advanced(@, r.mem)]
                       /\ Return(t)
                  ELSE Goto(t, "wait") /\ UNCHANGED <<sock, read>>
  <2>a. PICK k \in Nat \ {0} : \E r : Takes(k, r)
    <3>1. \A n : \A k \in 1 .. n : k \in Nat \ {0}
      OBVIOUS
    <3> QED BY <1>5, <3>1 DEF Got
  <2>0. PICK r : Takes(k, r)
    BY <2>a
  <2>1. CASE r.mem # <<>>
    <3>1. /\ sock' = [sock EXCEPT ![s].recvpkt_list = r.rest]
          /\ read' = [read EXCEPT ![s] = Advanced(@, r.mem)]
          /\ Return(t)
      BY <2>0, <2>1
    <3>2. handle[t].slot = s /\ UNCHANGED stored /\ r = at_recvpkt_get(sock[s].recvpkt_list, k, len)
      BY <1>1, <1>2, <2>0
    <3> QED BY <2>1, <3>1, <3>2, GotData
  <2>2. CASE r.mem = <<>>
    <3>1. Goto(t, "wait") /\ UNCHANGED <<sock, read>>
      BY <2>0, <2>2
    <3>2. /\ app'[t].pc = "wait" /\ app'[t].slot = s /\ app'[t].len = len
          /\ \A u \in Threads \ {t} : app'[u] = app[u]
      BY <1>0, <1>1, <1>3, <3>1 DEF Goto, Typed
    <3>3. sock[s].recvpkt_list = <<>>
      <4>1. sock[s].recvpkt_list \in Seq(Packets)
        BY DEF Data, SockData
      <4> QED BY <2>0, <2>2, <4>1, GetPlain
    <3>4. ThreadData(t)'
      BY <3>1, <3>2, <3>3 DEF ThreadData
    <3> QED BY <1>1, <1>2, <3>1, <3>2, <3>4, QuietStep
  <2> QED BY <2>1, <2>2
<1>6. CASE ReturnZero(t) /\ UNCHANGED <<sock, read>>
  <2>1. app'[t].pc \notin Receiving /\ \A u \in Threads \ {t} : app'[u] = app[u]
    BY <1>0, <1>6 DEF ReturnZero, AtRest, Typed, Receiving
  <2>2. ThreadData(t)'
    BY <2>1, NotReceiving
  <2> QED BY <1>1, <1>2, <1>6, <2>1, <2>2, QuietStep
<1> QED BY <1>1, <1>3, <1>5, <1>6 DEF RecvWoken

\* A new socket has no bytes yet.
LEMMA OpenData ==
    ASSUME SocketInv, Data, NEW t \in Threads, at_socket(t)
    PROVE  Data'
PROOF
<1>0. Typed /\ DataTyped
  BY DEF SocketInv, Data
<1>1. PICK f \in Slots : f = FirstFree /\ \A u \in Threads : handle[u].slot # f
  BY FreeFacts DEF at_socket
<1>2. PICK n : n = Len(Linked(f)) - 1
  OBVIOUS
<1>3. PICK r : r = [Zeroed EXCEPT !.magic = TRUE, !.state = "OPEN", !.socket = n]
               /\ r.recvpkt_list = <<>>
  <2>1. PICK z : z = Zeroed
    OBVIOUS
  <2>2. DOMAIN z = {"magic", "socket", "state", "recvpkt_list", "recv_notice"} /\ z.recvpkt_list = <<>>
    BY <2>1 DEF Zeroed
  <2>3. PICK r : r = [z EXCEPT !.magic = TRUE, !.state = "OPEN", !.socket = n]
    OBVIOUS
  <2>4. r.recvpkt_list = <<>>
    BY <2>2, <2>3
  <2> QED BY <2>1, <2>3, <2>4
<1>4. sock' = [sock EXCEPT ![f] = r]
  BY <1>1, <1>2, <1>3 DEF at_socket, alloc_socket_by_device
<1>5. /\ app' = [app EXCEPT ![t] = AtRest]
      /\ stored' = [stored EXCEPT ![f] = 0] /\ read' = [read EXCEPT ![f] = 0]
  BY <1>1 DEF at_socket
<1>6. /\ sock'[f].recvpkt_list = <<>> /\ stored'[f] = 0 /\ read'[f] = 0 /\ DataTyped'
      /\ \A u \in Slots \ {f} :
            sock'[u] = sock[u] /\ stored'[u] = stored[u] /\ read'[u] = read[u]
  BY <1>0, <1>3, <1>4, <1>5 DEF Typed, SockTyped, DataTyped
<1>7. SockData(f)'
  <2>1. <<>> \in Seq(Packets) /\ Queue(<<>>, 0, 0)
    BY QueueEmpty
  <2> QED BY <1>6, <2>1 DEF SockData
<1>8. ASSUME NEW u \in Threads
      PROVE  \/ ThreadData(u)'
             \/ /\ app'[u] = app[u]
                /\ app[u].pc \in Receiving => app[u].slot \in Slots \ {f}
  <2>1. CASE u = t
    <3>1. app'[t].pc \notin Receiving
      BY <1>0, <1>5 DEF Typed, AtRest, Receiving
    <3> QED BY <2>1, <3>1, NotReceiving
  <2>2. CASE u # t
    <3>1. app'[u] = app[u]
      BY <1>0, <1>5, <2>2 DEF Typed
    <3>2. app[u].pc \in Receiving => app[u].slot \in Slots \ {f}
      <4> SUFFICES ASSUME app[u].pc \in Receiving PROVE app[u].slot \in Slots \ {f}
        OBVIOUS
      <4>1. handle[u].slot \in Slots /\ handle[u].slot # None
        BY Lookup, AtSocketAssumption DEF Receiving
      <4>2. app[u].slot = handle[u].slot
        BY <4>1, HolderFacts DEF Receiving
      <4> QED BY <1>1, <4>1, <4>2
    <3> QED BY <3>1, <3>2
  <2> QED BY <2>1, <2>2
<1> QED BY <1>6, <1>7, <1>8, DataStep

\* A freed socket has none any more.
LEMMA FreeData ==
    ASSUME SocketInv, Data, NEW t \in Threads, free_socket(t)
    PROVE  Data'
PROOF
<1>0. Typed /\ DataTyped
  BY DEF SocketInv, Data
<1>1. PICK s \in Slots : s = handle[t].slot /\ app[t].slot = s
  BY Lookup, HolderFacts, AtSocketAssumption DEF free_socket
<1>2. /\ sock' = [sock EXCEPT ![s] = Zeroed] /\ app' = [app EXCEPT ![t] = AtRest]
      /\ UNCHANGED <<stored, read>>
  BY <1>1 DEF free_socket, Return, netVars
<1>3. /\ sock'[s] = Zeroed /\ \A u \in Slots \ {s} : sock'[u] = sock[u]
      /\ app'[t] = AtRest /\ \A u \in Threads \ {t} : app'[u] = app[u]
  BY <1>0, <1>2 DEF Typed, SockTyped
<1>4. SockData(s)'
  <2>1. Zeroed.recvpkt_list = <<>> /\ Zeroed.magic = FALSE /\ <<>> \in Seq(Packets)
    BY DEF Zeroed
  <2> QED BY <1>3, <2>1 DEF SockData
<1>5. DataTyped'
  BY <1>0, <1>2 DEF DataTyped
<1>6. ASSUME NEW u \in Threads
      PROVE  \/ ThreadData(u)'
             \/ /\ app'[u] = app[u]
                /\ app[u].pc \in Receiving => app[u].slot \in Slots \ {s}
  <2>1. CASE u = t
    <3>1. app'[t].pc \notin Receiving
      BY <1>3 DEF AtRest, Receiving
    <3> QED BY <2>1, <3>1, NotReceiving
  <2>2. CASE u # t
    BY <1>1, <1>3, <2>2, Others
  <2> QED BY <2>1, <2>2
<1> QED BY <1>2, <1>3, <1>4, <1>5, <1>6, DataStep

\* A callback gives a socket notices, and perhaps bytes behind those that are queued.
LEMMA CallbackData ==
    ASSUME SocketInv, Data, NEW s \in Slots, app' = app, DataTyped', SockData(s)',
           \A u \in Slots \ {s} :
               sock'[u] = sock[u] /\ stored'[u] = stored[u] /\ read'[u] = read[u],
           \/ sock'[s].recv_notice # 0
           \/ /\ sock'[s].recv_notice = sock[s].recv_notice
              /\ sock'[s].recvpkt_list = sock[s].recvpkt_list
    PROVE  Data'
PROOF
<1>1. ASSUME NEW u \in Threads
      PROVE  \/ ThreadData(u)'
             \/ /\ app'[u] = app[u]
                /\ app[u].pc \in Receiving => app[u].slot \in Slots \ {s}
  <2>1. CASE app[u].slot = s
    <3>1. ThreadData(u)
      BY DEF Data
    <3> QED BY <2>1, <3>1 DEF ThreadData
  <2>2. CASE app[u].slot # s
    <3>1. app[u].pc \in Receiving => app[u].slot \in Slots
      <4> SUFFICES ASSUME app[u].pc \in Receiving PROVE app[u].slot \in Slots
        OBVIOUS
      <4>1. handle[u].slot \in Slots /\ handle[u].slot # None
        BY Lookup, AtSocketAssumption DEF Receiving
      <4> QED BY <4>1, HolderFacts DEF Receiving
    <3> QED BY <2>2, <3>1
  <2> QED BY <2>1, <2>2
<1> QED BY <1>1, DataStep

\* A packet arrives: it goes to the end of the queue with a notice, or it is lost as a whole.
LEMMA DataArrivesData ==
    ASSUME SocketInv, Data, NEW s \in Slots, DataArrives(s)
    PROVE  Data'
PROOF
<1>0. Typed /\ DataTyped /\ SockData(s)
  BY DEF SocketInv, Data
<1>1. UNCHANGED <<read, app>>
  BY DEF DataArrives
<1>2. sock[s] \in SockRecords({sock[u].recvpkt_list : u \in Slots}) /\ DOMAIN sock = Slots
  BY <1>0 DEF Typed, SockTyped
<1>3. PICK k \in Nat : k = sock[s].recv_notice + 1 /\ k # 0
  BY <1>2 DEF SockRecords
<1>4. CASE UNCHANGED <<sock, stored>>
  <2>1. DataTyped' /\ SockData(s)'
    BY <1>0, <1>1, <1>4 DEF DataTyped, SockData
  <2> QED BY <1>1, <1>4, <2>1, CallbackData
<1>5. CASE sock' = [sock EXCEPT ![s].recv_notice = @ + 1] /\ UNCHANGED stored
  <2>1. /\ sock'[s].recvpkt_list = sock[s].recvpkt_list /\ sock'[s].magic = sock[s].magic
        /\ sock'[s].recv_notice = k /\ \A u \in Slots \ {s} : sock'[u] = sock[u]
    BY <1>2, <1>3, <1>5 DEF SockRecords
  <2>2. DataTyped' /\ SockData(s)'
    BY <1>0, <1>1, <1>5, <2>1 DEF DataTyped, SockData
  <2> QED BY <1>1, <1>3, <1>5, <2>1, <2>2, CallbackData
<1>6. ASSUME NEW n \in Sizes,
             sock' = [sock EXCEPT ![s].recvpkt_list = Queued(s, n), ![s].recv_notice = @ + 1],
             stored' = [stored EXCEPT ![s] = @ + n]
      PROVE  Data'
  <2>1. PICK b \in Nat, d \in Nat : b = stored[s] /\ d = b + n /\ b < d /\ d - b = n
    <3>1. n \in Nat /\ n # 0 /\ stored[s] \in Nat
      BY <1>0, AtSocketAssumption DEF DataTyped
    <3> QED BY <3>1
  <2>2. /\ DataTyped' /\ stored'[s] = d /\ \A u \in Slots \ {s} : stored'[u] = stored[u]
    BY <1>0, <1>1, <1>6, <2>1 DEF DataTyped
  <2>3. PICK l : l = Append(sock[s].recvpkt_list, Bytes(b, d))
    OBVIOUS
  <2>4. Queued(s, n) = l
    BY <2>1, <2>3 DEF Queued, Bytes
  <2>5. /\ sock'[s].recvpkt_list = l /\ sock'[s].recv_notice = k
        /\ sock'[s].magic = sock[s].magic /\ \A u \in Slots \ {s} : sock'[u] = sock[u]
    BY <1>2, <1>3, <1>6, <2>4 DEF SockRecords
  <2>6. SockData(s)'
    <3>1. l \in Seq(Packets)
      <4>1. Bytes(b, d) \in Packets
        BY <2>1, BytesFacts
      <4> QED BY <1>0, <2>3, <4>1, AppendProperties DEF SockData
    <3>2. ASSUME sock[s].magic
          PROVE  read[s] \in Nat /\ Queue(l, read[s], d)
      BY <1>0, <2>1, <2>3, <3>2, QueueAppend DEF SockData
    <3> QED BY <1>1, <2>2, <2>5, <3>1, <3>2 DEF SockData
  <2> QED BY <1>1, <1>3, <2>2, <2>5, <2>6, CallbackData
<1> QED BY <1>4, <1>5, <1>6, ArrivesFacts

\* The end of a connection changes no data.
LEMMA RemoteClosesData ==
    ASSUME SocketInv, Data, NEW s \in Slots, RemoteCloses(s)
    PROVE  Data'
PROOF
<1>0. Typed /\ DataTyped /\ SockData(s)
  BY DEF SocketInv, Data
<1>1. at_closed_notice_cb(s) /\ UNCHANGED <<stored, read, app>>
  BY DEF RemoteCloses
<1>2. sock[s] \in SockRecords({sock[u].recvpkt_list : u \in Slots}) /\ DOMAIN sock = Slots
  BY <1>0 DEF Typed, SockTyped
<1>3. PICK k \in Nat : k = sock[s].recv_notice + 1 /\ k # 0
  BY <1>2 DEF SockRecords
<1>4. CASE sock' = sock
  <2>1. DataTyped' /\ SockData(s)'
    BY <1>0, <1>1, <1>4 DEF DataTyped, SockData
  <2> QED BY <1>1, <1>4, <2>1, CallbackData
<1>5. CASE sock' = [sock EXCEPT ![s].state = "CLOSED", ![s].recv_notice = @ + 1]
  <2>1. /\ sock'[s].recvpkt_list = sock[s].recvpkt_list /\ sock'[s].magic = sock[s].magic
        /\ sock'[s].recv_notice = k /\ \A u \in Slots \ {s} : sock'[u] = sock[u]
    BY <1>2, <1>3, <1>5 DEF SockRecords
  <2>2. DataTyped' /\ SockData(s)'
    BY <1>0, <1>1, <2>1 DEF DataTyped, SockData
  <2> QED BY <1>1, <1>3, <2>1, <2>2, CallbackData
<1> QED BY <1>1, <1>4, <1>5 DEF at_closed_notice_cb

\* No byte is queued at the start.
LEMMA DataInit ==
    Init => DataInv
PROOF
<1> SUFFICES ASSUME Init PROVE Data
  BY DEF DataInv
<1>1. DataTyped
  BY DEF Init, DataTyped
<1>2. ASSUME NEW s \in Slots PROVE SockData(s)
  <2>1. sock[s].recvpkt_list = <<>> /\ ~sock[s].magic /\ <<>> \in Seq(Packets)
    BY DEF Init, Zeroed
  <2> QED BY <2>1 DEF SockData
<1>3. ASSUME NEW t \in Threads PROVE ThreadData(t)
  <2>1. app[t].pc = "idle"
    BY DEF Init, AtRest
  <2> QED BY <2>1 DEF ThreadData, Receiving
<1> QED BY <1>1, <1>2, <1>3 DEF Data

\* Every step keeps the bytes, or ends the reverse order.
LEMMA DataNext ==
    IInv /\ DataInv /\ [Next]_vars => DataInv'
PROOF
<1> SUFFICES ASSUME IInv, DataInv, [Next]_vars, tidy' PROVE Data'
  BY DEF DataInv
<1>1. CASE UNCHANGED vars
  <2>1. Data
    BY <1>1 DEF DataInv, vars
  <2> QED BY <1>1, <2>1 DEF Data, DataTyped, SockData, ThreadData, vars
<1>2. ASSUME NEW t \in Threads, at_socket(t) PROVE Data'
  <2>1. SocketInv /\ Data
    BY <1>2 DEF IInv, DataInv, at_socket
  <2> QED BY <1>2, <2>1, OpenData
<1>3. ASSUME NEW t \in Threads, at_socket_NoMemory(t) PROVE Data'
  BY <1>3 DEF at_socket_NoMemory
<1>4. ASSUME NEW t \in Threads,
             \/ ConnectRefused(t) \/ ConnectBegin(t) \/ ModemConnects(t) \/ ConnectEnd(t)
             \/ RecvTimeout(t) \/ CloseBegin(t) \/ CloseFind(t) \/ ModemCloses(t)
      PROVE  Data'
  <2>1. SocketInv /\ Data
    BY <1>4 DEF IInv, DataInv, ConnectRefused, ConnectBegin, ModemConnects, ConnectEnd, RecvTimeout,
                CloseBegin, CloseFind, ModemCloses
  <2> QED BY <1>4, <2>1, CallsKeepData
<1>5. ASSUME NEW t \in Threads, RecvBegin(t) \/ RecvState(t) \/ RecvTakes(t) \/ RecvWoken(t)
      PROVE  Data'
  <2>1. SocketInv /\ Data
    BY <1>5 DEF IInv, DataInv, RecvBegin, RecvState, RecvTakes, RecvWoken
  <2> QED BY <1>5, <2>1, RecvBeginData, RecvWaitData, RecvWokenData
<1>6. ASSUME NEW t \in Threads, free_socket(t) PROVE Data'
  <2>1. SocketInv /\ Data
    BY <1>6 DEF IInv, DataInv, free_socket
  <2> QED BY <1>6, <2>1, FreeData
<1>7. ASSUME NEW s \in Slots, DataArrives(s) \/ RemoteCloses(s) PROVE Data'
  <2>1. SocketInv /\ Data
    BY <1>7 DEF IInv, DataInv, DataArrives, RemoteCloses
  <2> QED BY <1>7, <2>1, DataArrivesData, RemoteClosesData
<1> QED BY <1>1, <1>2, <1>3, <1>4, <1>5, <1>6, <1>7 DEF Next, Continue

\* While sockets are closed in the reverse order of their opening, each socket holds its bytes in
\* whole packets, and no thread that receives has overlooked one.
THEOREM DataInvariance ==
    Spec => []DataInv
PROOF
<1>1. Init => IInv /\ DataInv
  BY IInvInit, DataInit
<1>2. (IInv /\ DataInv) /\ [Next]_vars => (IInv /\ DataInv)'
  BY IInvNext, DataNext
<1> QED BY <1>1, <1>2, PTL DEF Spec

\* What at_recvfrom returned and what is queued are together the bytes that were queued, in order
\* and without gaps or repetitions, whatever the sizes of the packets and of the buffers, whichever
\* packets are lost and wherever a walk of the queue ends.
THEOREM StreamInOrderHolds ==
    Spec => []StreamInOrder
PROOF
<1>1. ASSUME DataInv PROVE StreamInOrder
  <2> SUFFICES ASSUME tidy, NEW s \in Slots, sock[s].magic
               PROVE  read[s] >= 0 /\ FlattenSeq(sock[s].recvpkt_list) =
                          [i \in 1 .. stored[s] - read[s] |-> read[s] + i]
    BY DEF StreamInOrder
  <2>1. /\ read[s] \in Nat /\ stored[s] \in Nat
        /\ Queue(sock[s].recvpkt_list, read[s], stored[s])
    BY <1>1 DEF DataInv, Data, DataTyped, SockData
  <2>2. FlattenSeq(sock[s].recvpkt_list) = Bytes(read[s], stored[s])
    BY <2>1, QueueFlattens
  <2> QED BY <2>1, <2>2 DEF Bytes
<1> QED BY <1>1, DataInvariance, PTL

\* No thread sleeps on recv_notice while bytes are queued for it, or after the remote side has
\* closed its connection.
THEOREM NoSleepOnDataHolds ==
    Spec => []NoSleepOnData
PROOF
<1>1. ASSUME DataInv, NoSleepOnClosed PROVE NoSleepOnData
  <2>1. tidy => \A t \in Threads : ThreadData(t)
    BY <1>1 DEF DataInv, Data
  <2> QED BY <1>1, <2>1 DEF NoSleepOnData, NoSleepOnClosed, ThreadData
<1> QED BY <1>1, DataInvariance, ClosedWakes, PTL
=============================================================================
