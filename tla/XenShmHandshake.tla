--------------------------- MODULE XenShmHandshake ---------------------------
(***************************************************************************)
(* The UDP handshake of client_lib.c and server_lib.c, by which a client   *)
(* and a server exchange the grants of two pipes, one each way.            *)
(*                                                                         *)
(*   client                            server                              *)
(*     CLIENT_HELLO        ------>     offer a pipe, list the opening      *)
(*     connect to it       <------     SERVER_GRANT                        *)
(*     offer a pipe                                                        *)
(*     CLIENT_GRANT        ------>     connect to it, start a child        *)
(*                                                                         *)
(* and CLIENT_RESET and SERVER_RESET when a step fails.  Datagrams may be  *)
(* lost, delivered late and delivered twice; nobody sends one again.  A    *)
(* client is one call of init_pipe, with a socket of its own, and what     *)
(* follows in run_client.  The server's openings are a linked list in heap *)
(* memory: freed chunks keep their place in a list that still reaches      *)
(* them, and are handed out again.                                         *)
(***************************************************************************)
EXTENDS Integers, Sequences, FiniteSets

CONSTANTS
  Clients,        \* the client sockets
  Chunks,         \* heap chunks the size of a struct opening_list
  Pipes,          \* the pipes the server offers
  NULL, NoClient, NoPipe,
  MaxDuplicates   \* how many datagrams the network delivers again

ASSUME HandshakeAssumption ==
  /\ IsFiniteSet(Chunks)
  /\ NULL \notin Chunks /\ NoClient \notin Clients /\ NoPipe \notin Pipes
  /\ MaxDuplicates \in Nat

VARIABLES
  net,          \* the datagrams in flight
  duplicated,   \* how many were delivered and kept
  lost,         \* the clients one of whose datagrams was lost
  ignored,      \* the clients whose CLIENT_HELLO found no memory
  client,       \* where each client is in init_pipe
  link,         \* the server's pipe its send_fd is connected to
  taken,        \* is the port of its receive_fd bound by the server?
  server,       \* where run_server is
  current,      \* data->current, the list of openings
  allocated,    \* the chunks in use
  distant,      \* distant_port and distant_addr of each chunk
  receive_fd,
  next,
  pipe,         \* the state of each pipe of the server
  offered,      \* the client it was offered to
  childs        \* data->childs

network == <<net, duplicated, lost, ignored>>
clients == <<client, link>>
openings == <<current, allocated, distant, receive_fd, next>>
offers == <<pipe, offered>>
vars == <<network, clients, taken, server, openings, offers, childs>>

Hello(c) == [type |-> "CLIENT_HELLO", client |-> c, pipe |-> NoPipe]
ClientGrant(c) == [type |-> "CLIENT_GRANT", client |-> c, pipe |-> NoPipe]
ClientReset(c) == [type |-> "CLIENT_RESET", client |-> c, pipe |-> NoPipe]
ServerGrant(c, p) == [type |-> "SERVER_GRANT", client |-> c, pipe |-> p]
ServerReset(c) == [type |-> "SERVER_RESET", client |-> c, pipe |-> NoPipe]

ClientTypes == {"CLIENT_HELLO", "CLIENT_GRANT", "CLIENT_RESET"}
ServerTypes == {"SERVER_GRANT", "SERVER_RESET"}
Datagram ==
  [type : ClientTypes \cup ServerTypes, client : Clients, pipe : Pipes \cup {NoPipe}]

Init ==
  /\ net = {} /\ duplicated = 0 /\ lost = {} /\ ignored = {}
  /\ client = [c \in Clients |-> "start"]
  /\ link = [c \in Clients |-> NoPipe]
  /\ taken = [c \in Clients |-> FALSE]
  /\ server = "loop"
  /\ current = NULL /\ allocated = {}
  /\ distant = [n \in Chunks |-> NoClient]
  /\ receive_fd = [n \in Chunks |-> NoPipe]
  /\ next = [n \in Chunks |-> NULL]
  /\ pipe = [p \in Pipes |-> "none"]
  /\ offered = [p \in Pipes |-> NoClient]
  /\ childs = <<>>

-----------------------------------------------------------------------------
(***************************************************************************)
(* The network.  A datagram is received once, or again after this time.    *)
(***************************************************************************)
Receive(m, replies) ==
  \/ /\ net' = (net \ {m}) \cup replies
     /\ UNCHANGED duplicated
  \/ /\ duplicated < MaxDuplicates
     /\ net' = net \cup replies
     /\ duplicated' = duplicated + 1

Lose(m) ==
  /\ m \in net
  /\ net' = net \ {m}
  /\ lost' = lost \cup {m.client}
  /\ UNCHANGED <<duplicated, ignored, clients, taken, server, openings, offers, childs>>

(* What the server sends to a socket nobody reads any more is dropped. *)
ToClient(c, m) == IF client[c] = "hello" THEN {m} ELSE {}
NotTo(c) == {m \in net : m.client # c \/ m.type \in ClientTypes}

-----------------------------------------------------------------------------
(***************************************************************************)
(* init_pipe up to recv.  It fails before or in the first sendto, then     *)
(* cancel_server sends the server a reset.                                 *)
(***************************************************************************)
ClientHello(c) ==
  /\ client[c] = "start"
  /\ \/ client' = [client EXCEPT ![c] = "hello"] /\ net' = net \cup {Hello(c)}
     \/ /\ client' = [client EXCEPT ![c] = "failed"]
        /\ net' \in {net, net \cup {ClientReset(c)}}
  /\ UNCHANGED <<duplicated, lost, ignored, link, taken, server, openings, offers, childs>>

(* cancel_server, and the frees below it. *)
Cancel(c) ==
  /\ client' = [client EXCEPT ![c] = "failed"]
  /\ net' = NotTo(c) \cup {ClientReset(c)}
  /\ UNCHANGED link

(* Without the return: every way out goes through cancel_server. *)
ClientConnectsCancels(c, p) ==
  /\ client' = [client EXCEPT ![c] = "running"]
  /\ net' = NotTo(c) \cup {ClientGrant(c), ClientReset(c)}
  /\ link' = [link EXCEPT ![c] = p]

ClientConnects(c, p) ==
  /\ client' = [client EXCEPT ![c] = "running"]
  /\ net' = NotTo(c) \cup {ClientGrant(c)}
  /\ link' = [link EXCEPT ![c] = p]

(***************************************************************************)
(* recv returns.  Anything but a SERVER_GRANT cancels; a connection needs  *)
(* a pipe the server has not freed; connect, offers and sendto may fail.   *)
(***************************************************************************)
ClientRecv(c) ==
  /\ client[c] = "hello"
  /\ \/ \E m \in net :
          /\ m.client = c /\ m.type = "SERVER_GRANT" /\ pipe[m.pipe] = "open"
          /\ ClientConnects(c, m.pipe)
     \/ (\E m \in net : m.client = c /\ m.type \in ServerTypes) /\ Cancel(c)
  /\ UNCHANGED <<duplicated, lost, ignored, taken, server, openings, offers, childs>>

(* recv fails. *)
ClientGivesUp(c) ==
  /\ client[c] = "hello" /\ Cancel(c)
  /\ UNCHANGED <<duplicated, lost, ignored, taken, server, openings, offers, childs>>

(* The process is killed, or its handler ends, or cannot be started. *)
ClientExits(c) ==
  /\ client[c] \in {"hello", "running"}
  /\ client' = [client EXCEPT ![c] = "exited"]
  /\ net' = NotTo(c)
  /\ UNCHANGED <<duplicated, lost, ignored, link, taken, server, openings, offers, childs>>

-----------------------------------------------------------------------------
(***************************************************************************)
(* The list from data->current on, as far as it goes without repeating.    *)
(***************************************************************************)
Steps == 0 .. Cardinality(Chunks)
Walk[i \in Nat] ==
  IF i = 0 THEN current
  ELSE IF Walk[i - 1] = NULL THEN NULL ELSE next[Walk[i - 1]]
Listed == {Walk[i] : i \in Steps} \ {NULL}
Endless == \A i \in Steps : Walk[i] # NULL

First(S) == CHOOSE i \in S : \A j \in S : i <= j

(* The port is not compared, and all clients share an address. *)
MatchesAddress(c) == {i \in Steps : Walk[i] \in Chunks /\ distant[Walk[i]] # NoClient}

(* find_opening: the first opening of the client, if the walk meets one. *)
Matches(c) == {i \in Steps : Walk[i] \in Chunks /\ distant[Walk[i]] = c}
find_opening(c) == Walk[First(Matches(c))]

FindLoops(c) == Matches(c) = {} /\ Endless
NotFound(c) == Matches(c) = {} /\ ~Endless

(***************************************************************************)
(* free_opening unlinks o from the chunk before it, and so never from      *)
(* data->current, which then points to a free chunk.  free() overwrites    *)
(* the first words of the chunk, the port and the address.                 *)
(***************************************************************************)
Before(o) == {i \in Steps : Walk[i] \in Chunks /\ next[Walk[i]] = o}

free_opening(o) ==
  \/ /\ Before(o) = {} /\ Endless
     /\ server' = "hung"
     /\ UNCHANGED <<allocated, distant, next>>
  \/ /\ Before(o) # {} \/ ~Endless
     /\ next' = IF Before(o) = {} THEN next
                ELSE [next EXCEPT ![Walk[First(Before(o))]] = next[o]]
     /\ allocated' = allocated \ {o}
     /\ distant' = [distant EXCEPT ![o] = NoClient]
     /\ UNCHANGED server

(* The walk of find_opening never ends. *)
Hang(m) ==
  /\ server' = "hung"
  /\ Receive(m, {})
  /\ UNCHANGED <<lost, ignored, clients, taken, openings, offers, childs>>

-----------------------------------------------------------------------------
(***************************************************************************)
(* udp_readable_cb on CLIENT_HELLO.  calloc may hand out a chunk the list  *)
(* still reaches; it zeroes it.  A failed offer leaks the opening.  When   *)
(* calloc fails the server returns, and the client hears nothing.          *)
(***************************************************************************)
HelloNoMemory(m) ==
  /\ allocated = Chunks
  /\ Receive(m, {})
  /\ ignored' = ignored \cup {m.client}
  /\ UNCHANGED <<lost, clients, taken, server, openings, offers, childs>>

HelloFailsSilently(m) ==
  /\ \E n \in Chunks \ allocated :
       /\ allocated' = allocated \cup {n}
       /\ distant' = [distant EXCEPT ![n] = NoClient]
       /\ receive_fd' = [receive_fd EXCEPT ![n] = NoPipe]
       /\ next' = [next EXCEPT ![n] = NULL]
  /\ Receive(m, {})
  /\ UNCHANGED <<lost, ignored, clients, taken, server, current, offers, childs>>

HelloFails(m) ==
  /\ \E n \in Chunks \ allocated :
       /\ allocated' = allocated \cup {n}
       /\ distant' = [distant EXCEPT ![n] = NoClient]
       /\ receive_fd' = [receive_fd EXCEPT ![n] = NoPipe]
       /\ next' = [next EXCEPT ![n] = NULL]
  /\ Receive(m, ToClient(m.client, ServerReset(m.client)))
  /\ UNCHANGED <<lost, ignored, clients, taken, server, current, offers, childs>>

(* Pipes are alike: which unused one xen_shm_pipe_init creates is no matter. *)
Unused == {p \in Pipes : pipe[p] = "none"}
FreshPipe == CHOOSE p \in Unused : TRUE

HelloOffers(m) ==
  LET p == FreshPipe
  IN /\ Unused # {}
     /\ \E n \in Chunks \ allocated :
          /\ allocated' = allocated \cup {n}
          /\ distant' = [distant EXCEPT ![n] = m.client]
          /\ receive_fd' = [receive_fd EXCEPT ![n] = p]
          /\ next' = [next EXCEPT ![n] = current]
          /\ current' = n
     /\ pipe' = [pipe EXCEPT ![p] = "open"]
     /\ offered' = [offered EXCEPT ![p] = m.client]
     /\ Receive(m, ToClient(m.client, ServerGrant(m.client, p)))
     /\ UNCHANGED <<lost, ignored, clients, taken, server, childs>>

ServerHello(m) ==
  /\ server = "loop" /\ m.type = "CLIENT_HELLO"
  /\ HelloNoMemory(m) \/ HelloFails(m) \/ HelloOffers(m)

(* free_o_new and server_reset: give the opening and its pipe up. *)
PurgeOpening(m, replies) ==
  LET o == find_opening(m.client)
  IN /\ pipe' = [pipe EXCEPT ![receive_fd[o]] = "freed"]
     /\ free_opening(o)
     /\ IF server' = "hung" THEN Receive(m, {}) ELSE Receive(m, replies)
     /\ UNCHANGED <<lost, ignored, clients, taken, current, receive_fd, offered, childs>>

ServerClientReset(m) ==
  LET c == m.client
  IN /\ server = "loop" /\ m.type = "CLIENT_RESET"
     /\ \/ FindLoops(c) /\ Hang(m)
        \/ /\ NotFound(c) /\ Receive(m, {})
           /\ UNCHANGED <<lost, ignored, clients, taken, server, openings, offers, childs>>
        \/ Matches(c) # {} /\ PurgeOpening(m, ToClient(c, ServerReset(c)))

(***************************************************************************)
(* CLIENT_GRANT.  The connection to the client's pipe succeeds at most     *)
(* once while it lives: Xen binds a port once.  The opening of a child     *)
(* stays listed.  If no thread can be started nobody tells the client.     *)
(***************************************************************************)
ConnectableAgain(c) == client[c] = "running"

Connectable(c) == client[c] = "running" /\ ~taken[c]

StartChildUnset(m) ==
  /\ Connectable(m.client)
  /\ taken' = [taken EXCEPT ![m.client] = TRUE]
  /\ childs' = Append(childs, [peer |-> m.client, ended |-> FALSE, pipe |-> NoPipe])
  /\ Receive(m, {})
  /\ UNCHANGED <<lost, ignored, clients, server, openings, offers>>

StartChild(m) ==
  /\ Connectable(m.client)
  /\ taken' = [taken EXCEPT ![m.client] = TRUE]
  /\ childs' = Append(childs, [peer |-> m.client, ended |-> FALSE,
                               pipe |-> receive_fd[find_opening(m.client)]])
  /\ Receive(m, {})
  /\ UNCHANGED <<lost, ignored, clients, server, openings, offers>>

ServerClientGrant(m) ==
  LET c == m.client
  IN /\ server = "loop" /\ m.type = "CLIENT_GRANT"
     /\ \/ FindLoops(c) /\ Hang(m)
        \/ /\ NotFound(c) /\ Receive(m, ToClient(c, ServerReset(c)))
           /\ UNCHANGED <<lost, ignored, clients, taken, server, openings, offers, childs>>
        \/ Matches(c) # {} /\ PurgeOpening(m, ToClient(c, ServerReset(c)))
        \/ Matches(c) # {} /\ Connectable(c) /\ PurgeOpening(m, {})
        \/ Matches(c) # {} /\ StartChild(m)

udp_readable_cb ==
  \E m \in net : ServerHello(m) \/ ServerClientReset(m) \/ ServerClientGrant(m)

-----------------------------------------------------------------------------
(***************************************************************************)
(* SIGINT: run_server leaves its loop, frees the pipe of every opening it  *)
(* still lists and asks the children to stop.  To free a chunk or a pipe   *)
(* twice is undefined.                                                     *)
(***************************************************************************)
Undefined ==
  \/ Endless
  \/ \E n \in Listed :
       n \notin allocated \/ receive_fd[n] \in {p \in Pipes : pipe[p] = "freed"}

Shutdown ==
  /\ server = "loop"
  /\ \/ Undefined /\ server' = "crashed" /\ UNCHANGED <<pipe, allocated, current>>
     \/ /\ ~Endless /\ server' = "joining"
        /\ pipe' = [p \in Pipes |->
                      IF \E n \in Listed : receive_fd[n] = p THEN "freed" ELSE pipe[p]]
        /\ allocated' = allocated \ Listed
        /\ current' = NULL
  /\ UNCHANGED <<network, clients, taken, distant, receive_fd, next, offered, childs>>

(* A child stops when it is told to, or on the error of a pipe. *)
ChildEnds(i) ==
  LET k == childs[i]
  IN /\ server \in {"loop", "hung", "joining"} /\ ~k.ended
     /\ server = "joining" \/ client[k.peer] = "exited" \/ pipe[k.pipe] = "freed"
     /\ childs' = [childs EXCEPT ![i].ended = TRUE]
     /\ UNCHANGED <<network, clients, taken, server, openings, offers>>

(* A child that uses a freed pipe may take the process with it. *)
ChildCrashes(i) ==
  /\ server \in {"loop", "hung", "joining"} /\ ~childs[i].ended
  /\ pipe[childs[i].pipe] = "freed"
  /\ server' = "crashed"
  /\ UNCHANGED <<network, clients, taken, openings, offers, childs>>

(* pthread_join of all of them. *)
Join ==
  /\ server = "joining" /\ \A i \in DOMAIN childs : childs[i].ended
  /\ server' = "done"
  /\ UNCHANGED <<network, clients, taken, openings, offers, childs>>

-----------------------------------------------------------------------------
ClientStep(c) ==
  ClientHello(c) \/ ClientRecv(c) \/ ClientGivesUp(c) \/ ClientExits(c)

Next ==
  \/ \E c \in Clients : ClientStep(c)
  \/ \E m \in net : Lose(m)
  \/ udp_readable_cb
  \/ Shutdown \/ Join
  \/ \E i \in DOMAIN childs : ChildEnds(i) \/ ChildCrashes(i)

Spec == Init /\ [][Next]_vars

(* The event loop serves its socket, and a client reads its own. *)
Fairness ==
  /\ WF_vars(udp_readable_cb)
  /\ \A c \in Clients : WF_vars(ClientRecv(c))

FairSpec == Spec /\ Fairness

-----------------------------------------------------------------------------
Child == [peer : Clients, ended : BOOLEAN, pipe : Pipes]

TypeOK ==
  /\ net \subseteq Datagram
  /\ duplicated \in 0 .. MaxDuplicates
  /\ lost \subseteq Clients /\ ignored \subseteq Clients
  /\ client \in [Clients -> {"start", "hello", "running", "failed", "exited"}]
  /\ link \in [Clients -> Pipes \cup {NoPipe}]
  /\ taken \in [Clients -> BOOLEAN]
  /\ server \in {"loop", "hung", "joining", "crashed", "done"}
  /\ current \in Chunks \cup {NULL}
  /\ allocated \subseteq Chunks
  /\ distant \in [Chunks -> Clients \cup {NoClient}]
  /\ receive_fd \in [Chunks -> Pipes \cup {NoPipe}]
  /\ next \in [Chunks -> Chunks \cup {NULL}]
  /\ pipe \in [Pipes -> {"none", "open", "freed"}]
  /\ offered \in [Pipes -> Clients \cup {NoClient}]
  /\ childs \in Seq(Child)

(***************************************************************************)
(* No child reads the pipe of another client, whatever the network does    *)
(* and although freed openings stay reachable and are handed out again     *)
(* (server_lib.c:59-72, 83-91, 223).                                       *)
(***************************************************************************)
NoCrossWire ==
  \A i \in DOMAIN childs : offered[childs[i].pipe] = childs[i].peer

(***************************************************************************)
(* A client never has two children, although a CLIENT_GRANT may come twice *)
(* and meets an opening that is still listed after the first               *)
(* (server_lib.c:215-238).                                                 *)
(***************************************************************************)
OneChild ==
  \A i, j \in DOMAIN childs : childs[i].peer = childs[j].peer => i = j

(***************************************************************************)
(* Unless a datagram came twice, the pipe a child reads is the one its     *)
(* client writes: find_opening returns the opening whose grant the client  *)
(* accepted (server_lib.c:147-175, 223; client_lib.c:124).                 *)
(***************************************************************************)
Paired ==
  duplicated = 0 => \A i \in DOMAIN childs : childs[i].pipe = link[childs[i].peer]

(***************************************************************************)
(* Unless a datagram came twice, a serving server does not free the pipe   *)
(* of a child, although its opening is still listed and every reset and    *)
(* every failure frees the pipe of an opening (server_lib.c:236, 250).     *)
(***************************************************************************)
ChildKeepsPipe ==
  duplicated = 0 /\ server = "loop" =>
    \A i \in DOMAIN childs : pipe[childs[i].pipe] = "open"

(***************************************************************************)
(* A client in recv gets out of it, unless one of its datagrams is lost,   *)
(* the server is gone, or the server had no memory for its CLIENT_HELLO.   *)
(* That failure the server does not report: it returns at once and leaves  *)
(* the client waiting (server_lib.c:148-151).  It reports all the others   *)
(* the client can wait through (153-167, 249-258; client_lib.c:89).        *)
(***************************************************************************)
HelloAnswered ==
  \A c \in Clients :
    client[c] = "hello" ~>
      (client[c] # "hello" \/ c \in lost \cup ignored \/ server # "loop")

(***************************************************************************)
(* "Client error, purging cache" (server_lib.c:185): an opening that was   *)
(* purged is no longer in the list.                                        *)
(***************************************************************************)
PurgedIsGone == server = "loop" => Listed \subseteq allocated
=============================================================================
