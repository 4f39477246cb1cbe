------------------------------ MODULE AtSocket ------------------------------
(***************************************************************************)
(* The sockets of the AT component (at_socket.c): the list of open         *)
(* sockets, whose positions are the descriptors, the states of a socket,   *)
(* and the receive path from the parser of the AT client to a thread that  *)
(* waits in at_recvfrom.                                                   *)
(*                                                                         *)
(* The parser (priority 9) is more urgent than the threads that use        *)
(* sockets: its callbacks are one step.  A step of a thread ends where the *)
(* parser or another thread can run and change what the thread reads next. *)
(* Of the driver, sim800c_socket, only what it returns is modelled.        *)
(***************************************************************************)
EXTENDS Integers, FiniteSets, Sequences, SequencesExt

CONSTANTS
    Threads,   \* the threads that use sockets, each one socket at a time
    Slots,     \* device->sockets[], numbered from 0
    Sizes,     \* lengths of the packets that arrive
    Lens,      \* lengths of the buffers given to at_recvfrom
    MaxBytes,  \* bound on the bytes that are stored, for each slot
    MaxNotice, \* bound on recv_notice, for packets that are lost
    None

ASSUME AtSocketAssumption ==
    /\ IsFiniteSet(Slots) /\ Slots = 0 .. Cardinality(Slots) - 1
    /\ Sizes \subseteq Nat \ {0} /\ Lens \subseteq Nat \ {0} /\ MaxBytes \in [Slots -> Nat]
    /\ MaxNotice \in Nat
    /\ None \notin Slots

VARIABLES
    _socket_list,  \* the slots in the list, in order
    sock,          \* struct at_socket of each slot
    evt_cb,        \* at_evt_cb_set: some at_connect has set the callbacks
    link,          \* the modem's connection of each slot
    handle,        \* what each thread knows: the descriptor, and (history) the slot it stands for
    app,           \* where each thread is, in a call on which slot, and its last receive
    stored, read,  \* history: bytes that were queued for a connection, bytes that were received
    tidy,          \* history: sockets were closed in the reverse order, and none leaked
    clean          \* history: the modem's connection is the socket's, and no CLOSED came before
                   \* at_connect's return

vars == <<_socket_list, sock, evt_cb, link, handle, app, stored, read, tidy, clean>>
netVars == <<evt_cb, link, stored, read, clean>>

Zeroed == [magic |-> FALSE, socket |-> 0, state |-> "NONE", recvpkt_list |-> <<>>, recv_notice |-> 0]
NoHandle == [fd |-> -1, slot |-> None]
AtRest == [pc |-> "idle", slot |-> None, wait |-> FALSE, len |-> 0, eof |-> FALSE]

Init ==
    /\ _socket_list = <<>>
    /\ sock = [s \in Slots |-> Zeroed]
    /\ evt_cb = FALSE
    /\ link = [s \in Slots |-> "none"]
    /\ handle = [t \in Threads |-> NoHandle]
    /\ app = [t \in Threads |-> AtRest]
    /\ stored = [s \in Slots |-> 0] /\ read = [s \in Slots |-> 0]
    /\ tidy = TRUE
    /\ clean = [s \in Slots |-> TRUE]
-----------------------------------------------------------------------------
\* The socket at that position of the list, if it is one.
at_get_socket(fd) ==
    IF fd + 1 \in DOMAIN _socket_list /\ sock[_socket_list[fd + 1]].magic
    THEN _socket_list[fd + 1] ELSE None

\* Bytes of the packet that are copied: all of it, or as many as there is room for.
Fits(acc, pkt, len) == IF Len(pkt) < len - Len(acc.mem) THEN Len(pkt) ELSE len - Len(acc.mem)

\* Mutant: what is left of a packet is dropped.
Copied_DropsRest(acc, pkt, len) ==
    LET n == Fits(acc, pkt, len)
    IN  [mem |-> acc.mem \o SubSeq(pkt, 1, n),
         rest |-> IF n > 0 THEN acc.rest ELSE Append(acc.rest, pkt)]

\* A packet that is used up is deleted; one behind the last that is needed stays as it is.
Copied(acc, pkt, len) ==
    LET n == Fits(acc, pkt, len)
    IN  [mem |-> acc.mem \o SubSeq(pkt, 1, n),
         rest |-> IF n = Len(pkt) THEN acc.rest
                  ELSE Append(acc.rest, SubSeq(pkt, n + 1, Len(pkt)))]

\* A packet behind the end of the walk.
Kept(acc, pkt) == [mem |-> acc.mem, rest |-> Append(acc.rest, pkt)]

\* Up to len bytes from the packets in order.  The loop finds the next packet in the node that
\* at_recvpkt_node_delete has just freed: if the node was allocated and zeroed in between, the walk
\* ends after the k-th packet.
at_recvpkt_get(rlist, k, len) ==
    LET walk[i \in 0 .. Len(rlist)] ==
            IF i = 0 THEN [mem |-> <<>>, rest |-> <<>>]
            ELSE IF i <= k THEN Copied(walk[i - 1], rlist[i], len)
            ELSE Kept(walk[i - 1], rlist[i])
    IN  walk[Len(rlist)]
-----------------------------------------------------------------------------
FreeSlots == {s \in Slots : ~sock[s].magic}
FirstFree == CHOOSE s \in FreeSlots : \A u \in FreeSlots : s <= u

\* rt_slist_init and rt_slist_append: a node that is still in the list becomes its end.
UpTo(l, s) == IF s \in Range(l) THEN SubSeq(l, 1, CHOOSE i \in DOMAIN l : l[i] = s) ELSE l
Linked(s) == IF s \in Range(_socket_list) THEN UpTo(_socket_list, s) ELSE Append(_socket_list, s)

\* Mutant: the descriptor counts from 1.
alloc_socket_by_device_FromOne(s, state) ==
    /\ _socket_list' = Linked(s)
    /\ sock' = [sock EXCEPT ![s] = [Zeroed EXCEPT !.magic = TRUE, !.state = state, !.socket = Len(Linked(s))]]

\* Under at_slock: "the socket descriptor is the number of sockte lists".
alloc_socket_by_device(s, state) ==
    /\ _socket_list' = Linked(s)
    /\ sock' = [sock EXCEPT ![s] = [Zeroed EXCEPT !.magic = TRUE, !.state = state, !.socket = Len(Linked(s)) - 1]]

Idle(t) == app[t].pc = "idle"

at_socket(t) ==
    /\ Idle(t) /\ handle[t] = NoHandle
    /\ FreeSlots # {}
    /\ alloc_socket_by_device(FirstFree, "OPEN")
    /\ handle' = [handle EXCEPT ![t] = [fd |-> sock'[FirstFree].socket, slot |-> FirstFree]]
    /\ app' = [app EXCEPT ![t] = AtRest]
    /\ stored' = [stored EXCEPT ![FirstFree] = 0]
    /\ read' = [read EXCEPT ![FirstFree] = 0]
    /\ link' = [link EXCEPT ![FirstFree] = IF @ = "up" THEN @ ELSE "none"]
    /\ clean' = [clean EXCEPT ![FirstFree] = link[FirstFree] # "up"]
    /\ UNCHANGED <<evt_cb, tidy>>

\* The semaphore or the mutex cannot be created: -1, and the slot stays taken.
at_socket_NoMemory(t) ==
    /\ Idle(t) /\ handle[t] = NoHandle
    /\ FreeSlots # {}
    /\ alloc_socket_by_device(FirstFree, "NONE")
    /\ tidy' = FALSE
    /\ UNCHANGED <<handle, app, netVars>>

\* A call goes on, or returns; eof: a blocking receive returned 0.
Goto(t, pc) == app' = [app EXCEPT ![t].pc = pc]
Return(t) == app' = [app EXCEPT ![t] = AtRest]
ReturnZero(t) == app' = [app EXCEPT ![t] = [AtRest EXCEPT !.eof = app[t].wait]]
-----------------------------------------------------------------------------
(***************************************************************************)
(* at_connect                                                              *)
(***************************************************************************)
\* The descriptor is no socket, or the socket is not OPEN.
ConnectRefused(t) ==
    /\ Idle(t) /\ handle[t] # NoHandle
    /\ at_get_socket(handle[t].fd) # None => sock[at_get_socket(handle[t].fd)].state # "OPEN"
    /\ Return(t)
    /\ UNCHANGED <<_socket_list, sock, handle, tidy, netVars>>

ConnectBegin(t) ==
    /\ Idle(t) /\ at_get_socket(handle[t].fd) # None
    /\ sock[at_get_socket(handle[t].fd)].state = "OPEN"
    /\ app' = [app EXCEPT ![t] = [AtRest EXCEPT !.pc = "connecting", !.slot = at_get_socket(handle[t].fd)]]
    /\ UNCHANGED <<_socket_list, sock, handle, tidy, netVars>>

\* ops->at_connect: the modem reports CONNECT OK, or the driver returns an error, perhaps only
\* because the modem was too slow.
ModemConnects(t) ==
    /\ app[t].pc = "connecting"
    /\ \/ /\ link' = [link EXCEPT ![app[t].slot] = "up"]
          /\ Goto(t, "connected")
          /\ UNCHANGED clean
       \/ /\ link' = [link EXCEPT ![app[t].slot] = "up"]
          /\ clean' = [clean EXCEPT ![app[t].slot] = FALSE]
          /\ Return(t)
       \/ /\ Return(t)
          /\ UNCHANGED <<link, clean>>
    /\ UNCHANGED <<_socket_list, sock, handle, evt_cb, stored, read, tidy>>

\* The thread goes on after the driver has returned.
ConnectEnd(t) ==
    /\ app[t].pc = "connected"
    /\ sock' = [sock EXCEPT ![app[t].slot].state = "CONNECT"]
    /\ evt_cb' = TRUE
    /\ clean' = [clean EXCEPT ![app[t].slot] = @ /\ link[app[t].slot] = "up"]
    /\ Return(t)
    /\ UNCHANGED <<_socket_list, handle, link, stored, read, tidy>>
-----------------------------------------------------------------------------
(***************************************************************************)
(* The callbacks, in the parser of the AT client.                          *)
(***************************************************************************)
\* The bytes are numbered as they are queued.
Queued(s, n) == Append(sock[s].recvpkt_list, [i \in 1 .. n |-> stored[s] + i])

\* Mutant: the notice is given only for the first packet.
at_recv_notice_cb_Once(s, n) ==
    IF sock[s].magic /\ stored[s] + n <= MaxBytes[s]
    THEN /\ stored' = [stored EXCEPT ![s] = @ + n]
         /\ sock' = [sock EXCEPT ![s].recvpkt_list = Queued(s, n),
                                 ![s].recv_notice = IF stored[s] = 0 THEN @ + 1 ELSE @]
    ELSE UNCHANGED <<sock, stored>>

\* at_recvpkt_put may find no memory: the packet is lost, and the notice is given all the same.
at_recv_notice_cb(s, n) ==
    IF sock[s].magic
    THEN \/ /\ stored[s] + n <= MaxBytes[s]
            /\ stored' = [stored EXCEPT ![s] = @ + n]
            /\ sock' = [sock EXCEPT ![s].recvpkt_list = Queued(s, n), ![s].recv_notice = @ + 1]
         \/ /\ sock[s].recv_notice < MaxNotice
            /\ sock' = [sock EXCEPT ![s].recv_notice = @ + 1]
            /\ UNCHANGED stored
    ELSE UNCHANGED <<sock, stored>>

\* +RECEIVE: urc_recv_func drops the data if there is no memory for it, if it is not complete in
\* time, or if no callback is set.
DataArrives(s) ==
    /\ link[s] = "up"
    /\ \/ evt_cb /\ \E n \in Sizes : at_recv_notice_cb(s, n)
       \/ UNCHANGED <<sock, stored>>
    /\ UNCHANGED <<_socket_list, evt_cb, link, handle, app, read, tidy, clean>>

at_closed_notice_cb(s) ==
    IF evt_cb /\ sock[s].magic
    THEN sock' = [sock EXCEPT ![s].state = "CLOSED", ![s].recv_notice = @ + 1]
    ELSE UNCHANGED sock

\* CLOSED: the remote side has closed the connection.
RemoteCloses(s) ==
    /\ link[s] = "up"
    /\ link' = [link EXCEPT ![s] = "closed"]
    /\ at_closed_notice_cb(s)
    /\ clean' = [clean EXCEPT ![s] = @ /\ evt_cb]
    /\ UNCHANGED <<_socket_list, evt_cb, handle, app, stored, read, tidy>>
-----------------------------------------------------------------------------
(***************************************************************************)
(* at_recvfrom                                                             *)
(***************************************************************************)
\* The number of the last byte received; no byte has number -1.
Advanced(last, mem) ==
    IF mem = [i \in 1 .. Len(mem) |-> last + i] THEN last + Len(mem) ELSE -1

\* at_recvpkt_get under recv_lock: something was there, or the call goes on.
Got(t, s, len, otherwise) ==
    \E k \in 1 .. Len(sock[s].recvpkt_list) + 1 :
        LET r == at_recvpkt_get(sock[s].recvpkt_list, k, len)
        IN  IF r.mem # <<>>
            THEN /\ sock' = [sock EXCEPT ![s].recvpkt_list = r.rest]
                 /\ read' = [read EXCEPT ![s] = Advanced(@, r.mem)]
                 /\ Return(t)
            ELSE otherwise /\ UNCHANGED <<sock, read>>

RecvBegin(t) ==
    /\ Idle(t) /\ at_get_socket(handle[t].fd) # None
    /\ \E len \in Lens, wait \in BOOLEAN :
          Got(t, at_get_socket(handle[t].fd), len,
              app' = [app EXCEPT ![t] = [pc |-> "state", slot |-> at_get_socket(handle[t].fd),
                                         wait |-> wait, len |-> len, eof |-> FALSE]])
    /\ UNCHANGED <<_socket_list, handle, evt_cb, link, stored, tidy, clean>>

\* Mutant: a socket that is not connected is not waited for.
RecvState_OnlyConnected(t) ==
    /\ app[t].pc = "state"
    /\ IF sock[app[t].slot].state = "CONNECT" /\ app[t].wait THEN Goto(t, "wait") ELSE ReturnZero(t)
    /\ UNCHANGED <<_socket_list, sock, handle, tidy, netVars>>

\* "socket passively closed, receive function return 0"; so does MSG_DONTWAIT without data.
RecvState(t) ==
    LET state == sock[app[t].slot].state
    IN  /\ app[t].pc = "state"
        /\ IF state \in {"CONNECT", "OPEN"} /\ app[t].wait THEN Goto(t, "wait")
           ELSE IF state = "NONE" THEN Return(t) ELSE ReturnZero(t)
        /\ UNCHANGED <<_socket_list, sock, handle, tidy, netVars>>

\* rt_sem_take(recv_notice) succeeds.
RecvTakes(t) ==
    /\ app[t].pc = "wait" /\ sock[app[t].slot].recv_notice > 0
    /\ sock' = [sock EXCEPT ![app[t].slot].recv_notice = @ - 1]
    /\ Goto(t, "woken")
    /\ UNCHANGED <<_socket_list, handle, tidy, netVars>>

\* It times out, where SO_RCVTIMEO was set.
RecvTimeout(t) ==
    /\ app[t].pc = "wait" /\ sock[app[t].slot].recv_notice = 0
    /\ Return(t)
    /\ UNCHANGED <<_socket_list, sock, handle, tidy, netVars>>

\* Mutant: on a closed socket the notice is put back and waited for again.
RecvWoken_PutsBack(t) ==
    /\ app[t].pc = "woken"
    /\ \/ /\ sock[app[t].slot].state = "CONNECT"
          /\ Got(t, app[t].slot, app[t].len, Goto(t, "wait"))
       \/ /\ sock[app[t].slot].state # "CONNECT"
          /\ sock' = [sock EXCEPT ![app[t].slot].recv_notice = @ + 1]
          /\ Goto(t, "wait")
          /\ UNCHANGED read
    /\ UNCHANGED <<_socket_list, handle, evt_cb, link, stored, tidy, clean>>

\* After the notice: data, nothing yet, or "is closed by remote".
RecvWoken(t) ==
    /\ app[t].pc = "woken"
    /\ \/ /\ sock[app[t].slot].state = "CONNECT"
          /\ Got(t, app[t].slot, app[t].len, Goto(t, "wait"))
       \/ /\ sock[app[t].slot].state # "CONNECT"
          /\ ReturnZero(t)
          /\ UNCHANGED <<sock, read>>
    /\ UNCHANGED <<_socket_list, handle, evt_cb, link, stored, tidy, clean>>
-----------------------------------------------------------------------------
(***************************************************************************)
(* at_closesocket and at_shutdown; at_bind to another address closes the   *)
(* socket too, and finds no device with that address.                      *)
(***************************************************************************)
\* The delay of 100 ms before the socket is looked for.
CloseBegin(t) ==
    /\ Idle(t) /\ handle[t] # NoHandle
    /\ app' = [app EXCEPT ![t] = [AtRest EXCEPT !.pc = "delay"]]
    /\ UNCHANGED <<_socket_list, sock, handle, tidy, netVars>>

\* -1 if there is no such socket any more.  The state is changed in advance; a socket that was
\* closed already needs no command.
CloseFind(t) ==
    LET s == at_get_socket(handle[t].fd)
    IN  /\ app[t].pc = "delay"
        /\ IF s = None
           THEN /\ handle' = [handle EXCEPT ![t] = NoHandle]
                /\ Return(t)
                /\ UNCHANGED sock
           ELSE /\ app' = [app EXCEPT ![t].slot = s,
                                      ![t].pc = IF sock[s].state = "CLOSED" THEN "free" ELSE "closing"]
                /\ sock' = [sock EXCEPT ![s].state = "CLOSED"]
                /\ UNCHANGED handle
        /\ UNCHANGED <<_socket_list, tidy, netVars>>

\* ops->at_closesocket: the modem reports CLOSE OK, or the driver gives up and the connection
\* may stay; the socket is freed in either case.
ModemCloses(t) ==
    /\ app[t].pc = "closing"
    /\ link' \in {link, [link EXCEPT ![app[t].slot] = "none"]}
    /\ Goto(t, "free")
    /\ UNCHANGED <<_socket_list, sock, handle, evt_cb, stored, read, tidy, clean>>

\* The node at position sock->socket is removed; memset cuts the list behind a freed node that
\* is still in it.
Unlinked(s) ==
    LET n == sock[s].socket + 1
    IN  UpTo(IF n \in DOMAIN _socket_list THEN RemoveAt(_socket_list, n) ELSE _socket_list, s)

free_socket(t) ==
    /\ app[t].pc = "free"
    /\ _socket_list' = Unlinked(app[t].slot)
    /\ sock' = [sock EXCEPT ![app[t].slot] = Zeroed]
    /\ handle' = [handle EXCEPT ![t] = NoHandle]
    /\ tidy' = (tidy /\ Last(_socket_list) = app[t].slot)
    /\ Return(t)
    /\ UNCHANGED netVars

\* The steps by which a call goes on.
Continue(t) ==
    \/ ModemConnects(t) \/ ConnectEnd(t)
    \/ RecvState(t) \/ RecvTakes(t) \/ RecvWoken(t)
    \/ CloseFind(t) \/ ModemCloses(t) \/ free_socket(t)

Next ==
    \/ \E t \in Threads :
          \/ at_socket(t) \/ at_socket_NoMemory(t)
          \/ ConnectRefused(t) \/ ConnectBegin(t)
          \/ RecvBegin(t) \/ RecvTimeout(t)
          \/ CloseBegin(t) \/ Continue(t)
    \/ \E s \in Slots : DataArrives(s) \/ RemoteCloses(s)

Spec == Init /\ [][Next]_vars

\* A thread that is not blocked runs again, and the driver returns (its waits have timeouts).
FairSpec == Spec /\ \A t \in Threads : WF_vars(Continue(t))
-----------------------------------------------------------------------------
\* As long as sockets are closed in the reverse order of their opening, the descriptor a thread
\* was given finds the socket it was given it for, and nobody else's, until the thread closes it,
\* and the list holds the sockets that are not free.
OwnSocket ==
    tidy => /\ \A t \in Threads : handle[t] # NoHandle /\ app[t].pc # "free" =>
                  at_get_socket(handle[t].fd) = handle[t].slot
            /\ \A s \in Slots : sock[s].magic <=> s \in Range(_socket_list)

\* What at_recvfrom returns, call after call, and what is still queued are together the bytes
\* that were queued, in order and without gaps or repetitions, however packets and buffers divide
\* them and wherever a walk of the queue ends.  Of a packet that is lost no byte is ever queued: the
\* receiver is told of none.
StreamInOrder ==
    tidy => \A s \in Slots : sock[s].magic =>
                read[s] >= 0 /\
                FlattenSeq(sock[s].recvpkt_list) = [i \in 1 .. stored[s] - read[s] |-> read[s] + i]

\* No thread sleeps on recv_notice while data is queued or the remote side has closed the
\* connection.
NoSleepOnData ==
    tidy => \A t \in Threads :
                LET s == app[t].slot
                IN  app[t].pc = "wait" /\ sock[s].recv_notice = 0 =>
                        /\ sock[s].recvpkt_list = <<>>
                        /\ clean[s] => link[s] # "closed"

\* A blocking receive returns 0 only when the remote side has closed the connection.
ZeroMeansClosed ==
    tidy => \A t \in Threads :
                LET s == handle[t].slot
                IN  s # None /\ app[t].eof =>
                        (clean[s] => link[s] = "closed")

\* A receive from a connection that the remote side closed comes to an end.
RecvEnds ==
    \A t \in Threads :
        (app[t].pc \in {"state", "wait", "woken"} /\ link[app[t].slot] = "closed" /\ clean[app[t].slot])
            ~> (Idle(t) \/ ~tidy)

\* "the socket descriptor is the number of sockte lists": sock->socket is the number of the
\* socket in the list, which is what at_get_socket and free_socket look for.
DescriptorIsNumber ==
    \A i \in DOMAIN _socket_list : sock[_socket_list[i]].socket = i - 1
=============================================================================
