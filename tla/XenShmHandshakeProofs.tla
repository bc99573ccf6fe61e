------------------------ MODULE XenShmHandshakeProofs ------------------------
(***************************************************************************)
(* Proofs about the handshake, for any clients, any heap and any number of *)
(* duplicates.  The inductive invariant adds to the properties             *)
(*                                                                         *)
(*   Wires     what an opening that answers to a client refers to          *)
(*   Sessions  what a datagram in flight says about its sender             *)
(*   Once      what holds until a datagram is delivered twice              *)
(*                                                                         *)
(* Nothing about the shape of the list of openings is needed: whatever     *)
(* find_opening walks over, it returns a chunk with the client's address,  *)
(* and free() takes that address out of the chunk.                         *)
(***************************************************************************)
EXTENDS XenShmHandshake, TLAPS, WellFoundedInduction, FiniteSetTheorems

Wires ==
  /\ \A n \in Chunks :
       distant[n] # NoClient =>
         /\ receive_fd[n] \in Pipes
         /\ offered[receive_fd[n]] = distant[n]
         /\ server = "loop" => pipe[receive_fd[n]] = "open"
  /\ \A n1, n2 \in Chunks :
       /\ distant[n1] # NoClient /\ distant[n2] # NoClient
       /\ receive_fd[n1] = receive_fd[n2]
       => n1 = n2
  /\ \A p \in Pipes : pipe[p] = "none" => offered[p] = NoClient
  /\ NoCrossWire

Sessions ==
  /\ \A m \in net :
       /\ m.type = "SERVER_GRANT" => m.pipe \in Pipes /\ offered[m.pipe] = m.client
       /\ m.type = "CLIENT_GRANT" =>
            client[m.client] \in {"running", "exited"} /\ link[m.client] \in Pipes
       /\ m.type = "CLIENT_RESET" => client[m.client] = "failed"
       /\ m.type \in ClientTypes => m.pipe = NoPipe
  /\ \A c \in Clients : link[c] # NoPipe => offered[link[c]] = c
  /\ \A i \in DOMAIN childs :
       /\ client[childs[i].peer] \in {"running", "exited"}
       /\ link[childs[i].peer] \in Pipes
       /\ taken[childs[i].peer]
  /\ OneChild

Once ==
  duplicated = 0 =>
    /\ \A p, q \in Pipes : offered[p] = offered[q] /\ offered[p] # NoClient => p = q
    /\ \A m \in net : m.type = "CLIENT_HELLO" => \A p \in Pipes : offered[p] # m.client
    /\ \A c \in Clients :
         client[c] = "start" =>
           (\A p \in Pipes : offered[p] # c) /\ (\A m \in net : m.client # c)
    /\ \A m \in net, i \in DOMAIN childs :
         m.type = "CLIENT_GRANT" => childs[i].peer # m.client
    /\ server = "loop" => \A i \in DOMAIN childs : pipe[childs[i].pipe] = "open"

HandshakeInv == TypeOK /\ Wires /\ Sessions /\ Once

-----------------------------------------------------------------------------
(* A set of natural numbers that is not empty has a first element. *)
LEMMA FirstIn ==
  ASSUME NEW S, S \subseteq Nat, S # {}
  PROVE  First(S) \in S
<1> DEFINE R == OpToRel(<, Nat)
<1>1. PICK x \in S : \A y \in S : ~ (<<y, x>> \in R)
  <2>1. IsWellFoundedOn(R, Nat)
    BY NatLessThanWellFounded
  <2> HIDE DEF R
  <2> QED BY <2>1, WFMin, Zenon
<1>2. R = {ss \in Nat \X Nat : ss[1] < ss[2]}
  BY Zenon DEF OpToRel
<1>3. ASSUME NEW y \in S PROVE x <= y
  <2> HIDE DEF R
  <2>1. x \in Nat /\ y \in Nat
    OBVIOUS
  <2>2. ~ (<<y, x>> \in R)
    BY <1>1
  <2>3. <<y, x>> \in R <=> y < x
    BY <1>2, <2>1
  <2> QED BY <2>1, <2>2, <2>3
<1> QED BY <1>3, Zenon DEF First

(* What find_opening returns is a chunk with the client's address. *)
LEMMA FoundOpening ==
  ASSUME NEW c \in Clients, Matches(c) # {}
  PROVE  find_opening(c) \in Chunks /\ distant[find_opening(c)] = c
<1>1. Matches(c) \subseteq Nat
  <2>1. Cardinality(Chunks) \in Nat
    BY FS_CardinalityType, HandshakeAssumption
  <2> QED BY <2>1 DEF Matches, Steps
<1>2. First(Matches(c)) \in Matches(c)
  BY <1>1, FirstIn
<1> QED BY <1>2 DEF Matches, find_opening

(* An unused pipe, when there is one. *)
LEMMA FreshIsUnused ==
  ASSUME Unused # {}
  PROVE  FreshPipe \in Pipes /\ pipe[FreshPipe] = "none"
BY Zenon DEF Unused, FreshPipe
-----------------------------------------------------------------------------
(* The datagrams after a reception: those before, some gone, and the replies. *)
LEMMA ReceiveNet ==
  ASSUME TypeOK, NEW m \in net, NEW replies, Receive(m, replies)
  PROVE  /\ net' \subseteq net \cup replies
         /\ duplicated' \in 0 .. MaxDuplicates
         /\ duplicated' = 0 => duplicated = 0 /\ net' = (net \ {m}) \cup replies
BY HandshakeAssumption DEF Receive, TypeOK

(* What giving an opening up does to the server's own state. *)
LEMMA PurgeEffect ==
  ASSUME TypeOK, NEW m \in net, NEW replies, Matches(m.client) # {},
         PurgeOpening(m, replies)
  PROVE  LET o == find_opening(m.client)
         IN /\ o \in Chunks /\ distant[o] = m.client
            /\ pipe' = [pipe EXCEPT ![receive_fd[o]] = "freed"]
            /\ \/ server' = "hung" /\ UNCHANGED <<allocated, distant, next>>
               \/ /\ distant' = [distant EXCEPT ![o] = NoClient]
                  /\ server' = server
                  /\ allocated' = allocated \ {o}
                  /\ next' \in [Chunks -> Chunks \cup {NULL}]
            /\ \E r \in {{}, replies} : Receive(m, r)
            /\ UNCHANGED <<lost, ignored, client, link, taken, current, receive_fd, offered, childs>>
<1> DEFINE o == find_opening(m.client)
<1>1. m.client \in Clients
  BY DEF TypeOK, Datagram
<1>2. o \in Chunks /\ distant[o] = m.client
  BY <1>1, FoundOpening
<1>3. \/ server' = "hung" /\ UNCHANGED <<allocated, distant, next>>
      \/ /\ distant' = [distant EXCEPT ![o] = NoClient]
         /\ server' = server
         /\ allocated' = allocated \ {o}
         /\ next' = next \/ \E n : next' = [next EXCEPT ![n] = next[o]]
  BY Zenon DEF PurgeOpening, free_opening
<1>4. next' = next \/ (\E n : next' = [next EXCEPT ![n] = next[o]])
        => next' \in [Chunks -> Chunks \cup {NULL}]
  BY <1>2 DEF TypeOK
<1>5. /\ pipe' = [pipe EXCEPT ![receive_fd[o]] = "freed"]
      /\ UNCHANGED <<lost, ignored, client, link, taken, current, receive_fd, offered, childs>>
  BY DEF PurgeOpening, clients
<1>6. \E r \in {{}, replies} : Receive(m, r)
  BY Zenon DEF PurgeOpening
<1> QED BY <1>2, <1>3, <1>4, <1>5, <1>6

(***************************************************************************)
(* Every step is one of these.  A reception the server does not act on     *)
(* changes nothing of its own but, perhaps, that it hangs.                 *)
(***************************************************************************)
Ignored(m) ==
  /\ \E r \in {{}, ToClient(m.client, ServerReset(m.client))} : Receive(m, r)
  /\ server' \in {server, "hung"}
  /\ lost' = lost /\ ignored' \subseteq ignored \cup {m.client}
  /\ UNCHANGED <<clients, taken, openings, offers, childs>>

Purged(m) ==
  /\ m.type \in {"CLIENT_GRANT", "CLIENT_RESET"}
  /\ server = "loop" /\ Matches(m.client) # {}
  /\ \E r \in {{}, ToClient(m.client, ServerReset(m.client))} : PurgeOpening(m, r)

Started(m) ==
  /\ m.type = "CLIENT_GRANT"
  /\ server = "loop" /\ Matches(m.client) # {} /\ StartChild(m)

Hellos(m) ==
  server = "loop" /\ m.type = "CLIENT_HELLO" /\ (HelloFails(m) \/ HelloOffers(m))

LEMMA StepCases ==
  ASSUME Next
  PROVE  \/ \E c \in Clients : ClientStep(c)
         \/ \E m \in net : Lose(m) \/ Ignored(m) \/ Purged(m) \/ Started(m) \/ Hellos(m)
         \/ Shutdown \/ Join
         \/ \E i \in DOMAIN childs : ChildEnds(i) \/ ChildCrashes(i)
<1>1. ASSUME NEW m \in net, ServerHello(m)
      PROVE  Ignored(m) \/ Hellos(m)
  BY <1>1, Zenon DEF ServerHello, HelloNoMemory, Ignored, Hellos
<1>2. ASSUME NEW m \in net, Hang(m)
      PROVE  Ignored(m)
  BY <1>2, Zenon DEF Hang, Ignored
<1>3. ASSUME NEW m \in net, ServerClientReset(m)
      PROVE  Ignored(m) \/ Purged(m)
  BY <1>2, <1>3, Zenon DEF ServerClientReset, Ignored, Purged
<1>4. ASSUME NEW m \in net, ServerClientGrant(m)
      PROVE  Ignored(m) \/ Purged(m) \/ Started(m)
  BY <1>2, <1>4, Zenon DEF ServerClientGrant, Ignored, Purged, Started
<1> QED BY <1>1, <1>3, <1>4, Zenon DEF Next, udp_readable_cb
-----------------------------------------------------------------------------
LEMMA DatagramTypes ==
  /\ \A c \in Clients :
       {Hello(c), ClientGrant(c), ClientReset(c), ServerReset(c)} \subseteq Datagram
  /\ \A c \in Clients, p \in Pipes : ServerGrant(c, p) \in Datagram
BY DEF Hello, ClientGrant, ClientReset, ServerReset, ServerGrant, Datagram,
       ClientTypes, ServerTypes

LEMMA InitInv == Init => HandshakeInv
<1> SUFFICES ASSUME Init PROVE HandshakeInv
  OBVIOUS
<1>1. TypeOK
  BY HandshakeAssumption DEF Init, TypeOK
<1>2. childs = <<>> /\ DOMAIN childs = {}
  BY DEF Init
<1>3. Wires
  BY <1>2 DEF Init, Wires, NoCrossWire
<1>4. Sessions
  BY <1>2 DEF Init, Sessions, OneChild
<1>5. Once
  BY <1>2, HandshakeAssumption DEF Init, Once
<1> QED BY <1>1, <1>3, <1>4, <1>5 DEF HandshakeInv

(* A child that ends keeps its client and its pipe. *)
LEMMA ChildsKept ==
  ASSUME TypeOK, NEW i \in DOMAIN childs, ChildEnds(i) \/ ChildCrashes(i)
  PROVE  /\ childs' \in Seq(Child) /\ DOMAIN childs' = DOMAIN childs
         /\ \A j \in DOMAIN childs :
              childs'[j].peer = childs[j].peer /\ childs'[j].pipe = childs[j].pipe
<1>1. CASE childs' = childs
  BY <1>1 DEF TypeOK
<1>2. CASE childs' = [childs EXCEPT ![i].ended = TRUE]
  <2> DEFINE k == [childs[i] EXCEPT !.ended = TRUE]
  <2>1. childs \in Seq(Child) /\ childs[i] \in Child
    BY DEF TypeOK
  <2>2. k \in Child /\ k.peer = childs[i].peer /\ k.pipe = childs[i].pipe
    BY <2>1 DEF Child
  <2>3. childs' = [childs EXCEPT ![i] = k]
    BY <1>2
  <2> HIDE DEF k
  <2> QED BY <2>1, <2>2, <2>3
<1> QED BY <1>1, <1>2 DEF ChildEnds, ChildCrashes

(* Types.  A child is given a pipe because its opening has one. *)
LEMMA TypeStep == TypeOK /\ Wires /\ [Next]_vars => TypeOK'
<1> SUFFICES ASSUME TypeOK, Wires, [Next]_vars PROVE TypeOK'
  OBVIOUS
<1> USE HandshakeAssumption
<1>1. ASSUME NEW c \in Clients, ClientStep(c) PROVE TypeOK'
  <2>1. CASE ClientHello(c)
    BY <2>1, DatagramTypes DEF ClientHello, TypeOK, openings, offers
  <2>2. CASE ClientRecv(c)
    <3>1. \A m \in net : m.pipe \in Pipes \cup {NoPipe}
      BY DEF TypeOK, Datagram
    <3>2. net' \subseteq Datagram
      BY <2>2, DatagramTypes DEF ClientRecv, ClientConnects, Cancel, NotTo, TypeOK
    <3>3. link' \in [Clients -> Pipes \cup {NoPipe}]
      BY <2>2, <3>1 DEF ClientRecv, ClientConnects, Cancel, TypeOK
    <3>4. client' \in [Clients -> {"start", "hello", "running", "failed", "exited"}]
      BY <2>2 DEF ClientRecv, ClientConnects, Cancel, TypeOK
    <3>5. UNCHANGED <<duplicated, lost, ignored, taken, server, openings, offers, childs>>
      BY <2>2 DEF ClientRecv
    <3> QED BY <3>2, <3>3, <3>4, <3>5 DEF TypeOK, openings, offers
  <2>3. CASE ClientGivesUp(c)
    BY <2>3, DatagramTypes DEF ClientGivesUp, Cancel, NotTo, TypeOK, openings, offers
  <2>4. CASE ClientExits(c)
    BY <2>4 DEF ClientExits, NotTo, TypeOK, openings, offers
  <2> QED BY <1>1, <2>1, <2>2, <2>3, <2>4 DEF ClientStep
<1>2. ASSUME NEW m \in net PROVE m.client \in Clients
  BY DEF TypeOK, Datagram
<1>3. ASSUME NEW m \in net PROVE ToClient(m.client, ServerReset(m.client)) \subseteq Datagram
  BY <1>2, DatagramTypes DEF ToClient
<1>4. ASSUME NEW m \in net, Lose(m) PROVE TypeOK'
  BY <1>2, <1>4 DEF Lose, TypeOK, clients, openings, offers
<1>5. ASSUME NEW m \in net, Ignored(m) PROVE TypeOK'
  <2>1. PICK r \in {{}, ToClient(m.client, ServerReset(m.client))} : Receive(m, r)
    BY <1>5 DEF Ignored
  <2>2. net' \subseteq Datagram /\ duplicated' \in 0 .. MaxDuplicates
    BY <1>3, <2>1, ReceiveNet DEF TypeOK
  <2> QED BY <1>2, <1>5, <2>2 DEF Ignored, TypeOK, clients, openings, offers
<1>6. ASSUME NEW m \in net, Purged(m) PROVE TypeOK'
  <2>1. PICK r \in {{}, ToClient(m.client, ServerReset(m.client))} : PurgeOpening(m, r)
    BY <1>6 DEF Purged
  <2>2. PICK q \in {{}, r} : Receive(m, q)
    BY <1>6, <2>1, PurgeEffect DEF Purged
  <2>3. net' \subseteq Datagram /\ duplicated' \in 0 .. MaxDuplicates
    BY <1>3, <2>2, ReceiveNet DEF TypeOK
  <2>4. /\ pipe' = [pipe EXCEPT ![receive_fd[find_opening(m.client)]] = "freed"]
        /\ \/ server' = "hung" /\ UNCHANGED <<allocated, distant, next>>
           \/ /\ distant' = [distant EXCEPT ![find_opening(m.client)] = NoClient]
              /\ server' = server
              /\ allocated' = allocated \ {find_opening(m.client)}
              /\ next' \in [Chunks -> Chunks \cup {NULL}]
        /\ UNCHANGED <<lost, ignored, client, link, taken, current, receive_fd, offered, childs>>
    BY <1>6, <2>1, PurgeEffect DEF Purged
  <2> QED BY <2>3, <2>4 DEF TypeOK
<1>7. ASSUME NEW m \in net, Started(m) PROVE TypeOK'
  <2>1. receive_fd[find_opening(m.client)] \in Pipes
    BY <1>2, <1>7, FoundOpening DEF Started, Wires
  <2>2. childs' \in Seq(Child)
    BY <1>2, <1>7, <2>1 DEF Started, StartChild, Child, TypeOK
  <2>3. net' \subseteq Datagram /\ duplicated' \in 0 .. MaxDuplicates
    BY <1>7, ReceiveNet DEF Started, StartChild, TypeOK
  <2> QED BY <1>7, <2>2, <2>3 DEF Started, StartChild, TypeOK, clients, openings, offers
<1>8. ASSUME NEW m \in net, Hellos(m) PROVE TypeOK'
  <2>1. CASE HelloFails(m)
    <3>1. net' \subseteq Datagram /\ duplicated' \in 0 .. MaxDuplicates
      BY <1>3, <2>1, ReceiveNet DEF HelloFails, TypeOK
    <3> QED BY <2>1, <3>1 DEF HelloFails, TypeOK, clients, offers
  <2>2. CASE HelloOffers(m)
    <3>1. FreshPipe \in Pipes
      BY <2>2, FreshIsUnused DEF HelloOffers
    <3>2. ToClient(m.client, ServerGrant(m.client, FreshPipe)) \subseteq Datagram
      BY <1>2, <3>1, DatagramTypes DEF ToClient
    <3>3. net' \subseteq Datagram /\ duplicated' \in 0 .. MaxDuplicates
      BY <2>2, <3>2, ReceiveNet DEF HelloOffers, TypeOK
    <3> QED BY <1>2, <2>2, <3>1, <3>3 DEF HelloOffers, TypeOK, clients
  <2> QED BY <1>8, <2>1, <2>2 DEF Hellos
<1>9. CASE Shutdown
  BY <1>9 DEF Shutdown, TypeOK, network, clients
<1>10. CASE Join
  BY <1>10 DEF Join, TypeOK, network, clients, openings, offers
<1>11. ASSUME NEW i \in DOMAIN childs, ChildEnds(i) \/ ChildCrashes(i) PROVE TypeOK'
  <2>1. childs' \in Seq(Child)
    BY <1>11, ChildsKept DEF TypeOK
  <2> QED BY <1>11, <2>1 DEF ChildEnds, ChildCrashes, TypeOK, network, clients, openings, offers
<1>12. CASE UNCHANGED vars
  BY <1>12 DEF vars, TypeOK, network, clients, openings, offers
<1> QED BY <1>1, <1>4, <1>5, <1>6, <1>7, <1>8, <1>9, <1>10, <1>11, <1>12, StepCases, Zenon
(***************************************************************************)
(* Openings.  The pipe of a new one is unused, so no other opening and no  *)
(* child has it; a purged one loses its client with its pipe.              *)
(***************************************************************************)
LEMMA WiresStep == TypeOK /\ Wires /\ [Next]_vars => Wires'
<1> SUFFICES ASSUME TypeOK, Wires, [Next]_vars PROVE Wires'
  OBVIOUS
<1> USE HandshakeAssumption
<1>1. ASSUME UNCHANGED <<distant, receive_fd, offered, pipe>>,
             server' \in {server, "hung", "crashed", "done"},
             DOMAIN childs' = DOMAIN childs,
             \A j \in DOMAIN childs :
               childs'[j].peer = childs[j].peer /\ childs'[j].pipe = childs[j].pipe
      PROVE  Wires'
  BY <1>1 DEF Wires, NoCrossWire
<1>2. ASSUME NEW c \in Clients, ClientStep(c) PROVE Wires'
  BY <1>1, <1>2 DEF ClientStep, ClientHello, ClientRecv, ClientGivesUp, ClientExits,
                    openings, offers
<1>3. ASSUME NEW m \in net, Lose(m) \/ Ignored(m) PROVE Wires'
  BY <1>1, <1>3 DEF Lose, Ignored, openings, offers
<1>4. ASSUME NEW m \in net, Purged(m) PROVE Wires'
  <2> DEFINE o == find_opening(m.client)
  <2>1. PICK r : PurgeOpening(m, r) /\ Matches(m.client) # {}
    BY <1>4 DEF Purged
  <2>2. /\ o \in Chunks /\ distant[o] = m.client
        /\ pipe' = [pipe EXCEPT ![receive_fd[o]] = "freed"]
        /\ \/ server' = "hung" /\ UNCHANGED distant
           \/ server' = server /\ distant' = [distant EXCEPT ![o] = NoClient]
        /\ UNCHANGED <<receive_fd, offered, childs>>
    BY <2>1, PurgeEffect
  <2>3. distant[o] # NoClient
    BY <2>2 DEF TypeOK, Datagram
  <2> HIDE DEF o
  <2>4. \A n \in Chunks : distant'[n] # NoClient => distant'[n] = distant[n]
    BY <2>2 DEF TypeOK
  <2>5. ASSUME NEW n \in Chunks, distant'[n] # NoClient, server' = "loop"
        PROVE  pipe'[receive_fd[n]] = "open"
    <3>1. n # o /\ distant[n] # NoClient /\ server = "loop"
      BY <2>2, <2>5 DEF TypeOK
    <3>2. receive_fd[n] # receive_fd[o]
      BY <2>2, <2>3, <3>1 DEF Wires
    <3> QED BY <2>2, <3>1, <3>2 DEF Wires, TypeOK
  <2>6. \A p \in Pipes : pipe'[p] = "none" => pipe[p] = "none"
    BY <2>2 DEF TypeOK
  <2> QED BY <2>2, <2>4, <2>5, <2>6 DEF Wires, NoCrossWire
<1>5. ASSUME NEW m \in net, Started(m) PROVE Wires'
  <2> DEFINE o == find_opening(m.client)
             k == [peer |-> m.client, ended |-> FALSE, pipe |-> receive_fd[o]]
  <2>1. m.client \in Clients
    BY DEF TypeOK, Datagram
  <2>2. o \in Chunks /\ distant[o] = m.client
    BY <1>5, <2>1, FoundOpening DEF Started
  <2>3. childs' = Append(childs, k)
    BY <1>5 DEF Started, StartChild
  <2>4. offered[receive_fd[o]] = m.client
    BY <2>1, <2>2 DEF Wires
  <2>5. UNCHANGED <<distant, receive_fd, offered, pipe, server>>
    BY <1>5 DEF Started, StartChild, openings, offers
  <2>6. k.peer = m.client /\ k.pipe = receive_fd[o]
    OBVIOUS
  <2> HIDE DEF k, o
  <2>7. ASSUME NEW i \in DOMAIN childs' PROVE offered[childs'[i].pipe] = childs'[i].peer
    <3>1. childs \in Seq(Child)
      BY DEF TypeOK
    <3>2. CASE i \in DOMAIN childs
      BY <2>3, <3>1, <3>2 DEF Wires, NoCrossWire
    <3>3. CASE i \notin DOMAIN childs
      <4>1. childs'[i] = k
        BY <2>3, <3>1, <3>3
      <4> QED BY <2>4, <2>6, <4>1
    <3> QED BY <3>2, <3>3
  <2> QED BY <2>5, <2>7 DEF Wires, NoCrossWire
<1>6. ASSUME NEW m \in net, Hellos(m) PROVE Wires'
  <2>1. CASE HelloFails(m)
    <3>1. PICK n \in Chunks : /\ distant' = [distant EXCEPT ![n] = NoClient]
                              /\ receive_fd' = [receive_fd EXCEPT ![n] = NoPipe]
      BY <2>1 DEF HelloFails
    <3>2. UNCHANGED <<server, offered, pipe, childs>>
      BY <2>1 DEF HelloFails, offers
    <3>3. \A k \in Chunks : distant'[k] # NoClient =>
            distant'[k] = distant[k] /\ receive_fd'[k] = receive_fd[k]
      BY <3>1 DEF TypeOK
    <3> QED BY <3>2, <3>3 DEF Wires, NoCrossWire
  <2>2. CASE HelloOffers(m)
    <3> DEFINE p == FreshPipe
    <3>1. p \in Pipes /\ pipe[p] = "none" /\ offered[p] = NoClient
      BY <2>2, FreshIsUnused DEF HelloOffers, Wires
    <3>2. PICK n \in Chunks : /\ distant' = [distant EXCEPT ![n] = m.client]
                              /\ receive_fd' = [receive_fd EXCEPT ![n] = p]
      BY <2>2 DEF HelloOffers
    <3>3. /\ pipe' = [pipe EXCEPT ![p] = "open"]
          /\ offered' = [offered EXCEPT ![p] = m.client]
          /\ UNCHANGED <<server, childs>>
      BY <2>2 DEF HelloOffers
    <3>4. m.client \in Clients
      BY DEF TypeOK, Datagram
    <3> HIDE DEF p
    <3>5. ASSUME NEW k \in Chunks, distant'[k] # NoClient, k # n
          PROVE  /\ distant'[k] = distant[k] /\ receive_fd'[k] = receive_fd[k]
                 /\ receive_fd[k] \in Pipes /\ receive_fd[k] # p
      BY <3>1, <3>2, <3>5 DEF Wires, TypeOK
    <3>6. distant'[n] = m.client /\ receive_fd'[n] = p
      BY <3>2 DEF TypeOK
    <3>7. ASSUME NEW k \in Chunks, distant'[k] # NoClient
          PROVE  /\ receive_fd'[k] \in Pipes /\ offered'[receive_fd'[k]] = distant'[k]
                 /\ server' = "loop" => pipe'[receive_fd'[k]] = "open"
      <4>1. CASE k = n
        BY <3>1, <3>3, <3>6, <4>1 DEF TypeOK
      <4>2. CASE k # n
        BY <3>3, <3>5, <3>7, <4>2 DEF TypeOK, Wires
      <4> QED BY <4>1, <4>2
    <3>8. ASSUME NEW n1 \in Chunks, NEW n2 \in Chunks,
                 distant'[n1] # NoClient, distant'[n2] # NoClient,
                 receive_fd'[n1] = receive_fd'[n2]
          PROVE  n1 = n2
      BY <3>5, <3>6, <3>8 DEF Wires
    <3>9. \A q \in Pipes : pipe'[q] = "none" => offered'[q] = NoClient
      BY <3>1, <3>3 DEF Wires, TypeOK
    <3>10. ASSUME NEW i \in DOMAIN childs PROVE offered'[childs[i].pipe] = childs[i].peer
      <4>1. childs[i] \in Child
        BY DEF TypeOK
      <4>2. offered[childs[i].pipe] = childs[i].peer /\ childs[i].peer \in Clients
        BY <4>1 DEF Wires, NoCrossWire, Child
      <4> QED BY <3>1, <3>3, <4>2 DEF TypeOK
    <3> QED BY <3>3, <3>7, <3>8, <3>9, <3>10 DEF Wires, NoCrossWire
  <2> QED BY <1>6, <2>1, <2>2 DEF Hellos
<1>7. CASE Shutdown
  <2>1. server' # "loop" /\ UNCHANGED <<distant, receive_fd, offered, childs>>
    BY <1>7 DEF Shutdown
  <2>2. \A p \in Pipes : pipe'[p] = "none" => pipe[p] = "none"
    BY <1>7 DEF Shutdown, TypeOK
  <2> QED BY <2>1, <2>2 DEF Wires, NoCrossWire
<1>8. CASE Join
  BY <1>1, <1>8 DEF Join, openings, offers
<1>9. ASSUME NEW i \in DOMAIN childs, ChildEnds(i) \/ ChildCrashes(i) PROVE Wires'
  BY <1>1, <1>9, ChildsKept DEF ChildEnds, ChildCrashes, openings, offers
<1>10. CASE UNCHANGED vars
  BY <1>1, <1>10 DEF vars, openings, offers
<1> QED BY <1>2, <1>3, <1>4, <1>5, <1>6, <1>7, <1>8, <1>9, <1>10, StepCases, Zenon
(***************************************************************************)
(* Sessions.  A client leaves recv once, for good, and only then sends a   *)
(* grant or a reset: it never sends both.                                  *)
(***************************************************************************)
LEMMA SessionsStep == TypeOK /\ Wires /\ Sessions /\ [Next]_vars => Sessions'
<1> SUFFICES ASSUME TypeOK, Wires, Sessions, [Next]_vars PROVE Sessions'
  OBVIOUS
<1> USE HandshakeAssumption
<1> DEFINE Says(m) ==
      /\ m.type = "SERVER_GRANT" => m.pipe \in Pipes /\ offered[m.pipe] = m.client
      /\ m.type = "CLIENT_GRANT" =>
           client[m.client] \in {"running", "exited"} /\ link[m.client] \in Pipes
      /\ m.type = "CLIENT_RESET" => client[m.client] = "failed"
      /\ m.type \in ClientTypes => m.pipe = NoPipe
<1> USE DEF ClientTypes
<1>1. ASSUME NEW m \in net
      PROVE  m.client \in Clients /\ Says(m)
  BY DEF TypeOK, Datagram, Sessions
<1>2. ASSUME NEW i \in DOMAIN childs
      PROVE  childs[i].peer \in Clients
  <2>1. childs[i] \in Child
    BY DEF TypeOK
  <2> QED BY <2>1 DEF Child
<1>3. ASSUME UNCHANGED <<offered, client, link, taken>>,
             \A m \in net' : m \in net \/ m.type = "SERVER_RESET",
             DOMAIN childs' = DOMAIN childs,
             \A j \in DOMAIN childs : childs'[j].peer = childs[j].peer
      PROVE  Sessions'
  BY <1>1, <1>3 DEF Sessions, OneChild
<1>4. ASSUME NEW c \in Clients, ClientStep(c) PROVE Sessions'
  <2>1. UNCHANGED <<offered, taken, childs>>
    BY <1>4 DEF ClientStep, ClientHello, ClientRecv, ClientGivesUp, ClientExits, offers
  <2>2. client[c] \in {"start", "hello", "running"}
    BY <1>4 DEF ClientStep, ClientHello, ClientRecv, ClientGivesUp, ClientExits
  <2>3. \A d \in Clients : d # c => client'[d] = client[d] /\ link'[d] = link[d]
    BY <1>4 DEF ClientStep, ClientHello, ClientRecv, ClientGivesUp, ClientExits,
                ClientConnects, Cancel, TypeOK
  <2>4. client[c] = "running" => client'[c] = "exited" /\ link' = link
    BY <1>4 DEF ClientStep, ClientHello, ClientRecv, ClientGivesUp, ClientExits, TypeOK
  <2>5. link'[c] = link[c] \/ (link'[c] \in Pipes /\ offered[link'[c]] = c)
    BY <1>1, <1>4 DEF ClientStep, ClientHello, ClientRecv, ClientGivesUp, ClientExits,
                ClientConnects, Cancel, TypeOK
  <2>6. ASSUME NEW m \in net'
        PROVE  \/ m \in net
               \/ m = Hello(c)
               \/ m = ClientReset(c) /\ client'[c] = "failed"
               \/ m = ClientGrant(c) /\ client'[c] = "running" /\ link'[c] \in Pipes
    BY <1>1, <1>4 DEF ClientStep, ClientHello, ClientRecv, ClientGivesUp, ClientExits,
                ClientConnects, Cancel, NotTo, TypeOK
  <2>7. ASSUME NEW m \in net' PROVE Says(m)'
    <3>1. CASE m \in net
      BY <1>1, <2>1, <2>2, <2>3, <2>4, <3>1
    <3>2. CASE m = Hello(c)
      BY <3>2 DEF Hello
    <3>3. CASE m = ClientReset(c) /\ client'[c] = "failed"
      BY <3>3 DEF ClientReset
    <3>4. CASE m = ClientGrant(c) /\ client'[c] = "running" /\ link'[c] \in Pipes
      BY <3>4 DEF ClientGrant
    <3> QED BY <2>6, <3>1, <3>2, <3>3, <3>4
  <2>8. \A d \in Clients : link'[d] # NoPipe => offered'[link'[d]] = d
    BY <2>1, <2>3, <2>5 DEF Sessions
  <2>9. \A i \in DOMAIN childs' :
          /\ client'[childs'[i].peer] \in {"running", "exited"}
          /\ link'[childs'[i].peer] \in Pipes
          /\ taken'[childs'[i].peer]
    BY <1>2, <2>1, <2>2, <2>3, <2>4 DEF Sessions
  <2> HIDE DEF Says
  <2>10. OneChild'
    BY <2>1 DEF Sessions, OneChild
  <2> QED BY <2>7, <2>8, <2>9, <2>10 DEF Sessions, Says
<1>5. ASSUME NEW m \in net, NEW r \in {{}, ToClient(m.client, ServerReset(m.client))},
             Receive(m, r)
      PROVE  \A k \in net' : k \in net \/ k.type = "SERVER_RESET"
  BY <1>5, ReceiveNet DEF ToClient, ServerReset
<1>6. ASSUME NEW m \in net, Lose(m) PROVE Sessions'
  BY <1>3, <1>6 DEF Lose, clients, offers
<1>7. ASSUME NEW m \in net, Ignored(m) PROVE Sessions'
  BY <1>3, <1>5, <1>7 DEF Ignored, clients, offers
<1>8. ASSUME NEW m \in net, Purged(m) PROVE Sessions'
  <2>1. PICK r \in {{}, ToClient(m.client, ServerReset(m.client))} : PurgeOpening(m, r)
    BY <1>8 DEF Purged
  <2>2. /\ \E q \in {{}, r} : Receive(m, q)
        /\ UNCHANGED <<client, link, taken, offered, childs>>
    BY <1>8, <2>1, PurgeEffect DEF Purged
  <2> QED BY <1>3, <1>5, <2>2
<1>9. ASSUME NEW m \in net, Started(m) PROVE Sessions'
  <2> DEFINE k == [peer |-> m.client, ended |-> FALSE,
                   pipe |-> receive_fd[find_opening(m.client)]]
  <2>1. /\ childs' = Append(childs, k)
        /\ taken' = [taken EXCEPT ![m.client] = TRUE]
        /\ client[m.client] = "running" /\ ~taken[m.client]
        /\ UNCHANGED <<client, link, offered>>
    BY <1>9 DEF Started, StartChild, Connectable, clients, offers
  <2>2. net' \subseteq net
    BY <1>9, ReceiveNet DEF Started, StartChild
  <2>3. link[m.client] \in Pipes
    BY <1>1, <1>9 DEF Started
  <2>4. childs \in Seq(Child) /\ k.peer = m.client
    BY DEF TypeOK
  <2> HIDE DEF k
  <2>5. ASSUME NEW i \in DOMAIN childs'
        PROVE  (i \in DOMAIN childs /\ childs'[i] = childs[i]) \/
               (i = Len(childs) + 1 /\ childs'[i].peer = m.client)
    BY <2>1, <2>4
  <2>6. ASSUME NEW i \in DOMAIN childs PROVE childs[i].peer # m.client
    BY <2>1 DEF Sessions
  <2>7. OneChild'
    BY <2>5, <2>6 DEF Sessions, OneChild
  <2>8. \A i \in DOMAIN childs' :
          /\ client'[childs'[i].peer] \in {"running", "exited"}
          /\ link'[childs'[i].peer] \in Pipes
          /\ taken'[childs'[i].peer]
    BY <1>1, <1>2, <2>1, <2>3, <2>5 DEF Sessions, TypeOK
  <2>9. ASSUME NEW j \in net' PROVE Says(j)'
    BY <1>1, <2>1, <2>2
  <2>10. \A d \in Clients : link'[d] # NoPipe => offered'[link'[d]] = d
    BY <2>1 DEF Sessions
  <2> HIDE DEF Says
  <2> QED BY <2>7, <2>8, <2>9, <2>10 DEF Sessions, Says
<1>10. ASSUME NEW m \in net, Hellos(m) PROVE Sessions'
  <2>1. CASE HelloFails(m)
    BY <1>3, <1>5, <2>1 DEF HelloFails, clients, offers
  <2>2. CASE HelloOffers(m)
    <3> DEFINE p == FreshPipe
    <3>1. p \in Pipes /\ pipe[p] = "none" /\ offered[p] = NoClient
      BY <2>2, FreshIsUnused DEF HelloOffers, Wires
    <3>2. /\ offered' = [offered EXCEPT ![p] = m.client]
          /\ UNCHANGED <<client, link, taken, childs>>
      BY <2>2 DEF HelloOffers, clients
    <3>3. ASSUME NEW j \in net'
          PROVE  j \in net \/ j = ServerGrant(m.client, p)
      BY <2>2, ReceiveNet DEF HelloOffers, ToClient
    <3> HIDE DEF p
    <3>4. \A q \in Pipes : offered[q] # NoClient => offered'[q] = offered[q]
      BY <3>1, <3>2 DEF TypeOK
    <3>5. ASSUME NEW j \in net' PROVE Says(j)'
      <4>1. CASE j \in net
        BY <1>1, <3>2, <3>4, <4>1
      <4>2. CASE j = ServerGrant(m.client, p)
        BY <3>1, <3>2, <4>2 DEF ServerGrant, TypeOK
      <4> QED BY <3>3, <4>1, <4>2
    <3>6. \A d \in Clients : link'[d] # NoPipe => offered'[link'[d]] = d
      BY <3>2, <3>4 DEF Sessions, TypeOK
    <3> HIDE DEF Says
    <3> QED BY <3>2, <3>5, <3>6 DEF Sessions, Says, OneChild
  <2> QED BY <1>10, <2>1, <2>2 DEF Hellos
<1>11. CASE Shutdown
  BY <1>3, <1>11 DEF Shutdown, network, clients
<1>12. CASE Join
  BY <1>3, <1>12 DEF Join, network, clients, offers
<1>13. ASSUME NEW i \in DOMAIN childs, ChildEnds(i) \/ ChildCrashes(i) PROVE Sessions'
  BY <1>3, <1>13, ChildsKept DEF ChildEnds, ChildCrashes, network, clients, offers
<1>14. CASE UNCHANGED vars
  BY <1>3, <1>14 DEF vars, network, clients, offers
<1> QED BY <1>4, <1>6, <1>7, <1>8, <1>9, <1>10, <1>11, <1>12, <1>13, <1>14, StepCases, Zenon
(***************************************************************************)
(* Until a datagram is delivered twice a client is offered one pipe, and   *)
(* nothing of it is in flight any more when its child starts.              *)
(***************************************************************************)
LEMMA OnceStep == TypeOK /\ Wires /\ Sessions /\ Once /\ [Next]_vars => Once'
<1> SUFFICES ASSUME TypeOK, Wires, Sessions, Once, [Next]_vars, duplicated' = 0
             PROVE  Once'
  BY DEF Once
<1> USE HandshakeAssumption DEF ClientTypes
<1>1. ASSUME NEW m \in net
      PROVE  /\ m.client \in Clients
             /\ m.type = "CLIENT_RESET" => client[m.client] = "failed"
             /\ m.type \in ClientTypes => m = [type |-> m.type, client |-> m.client, pipe |-> NoPipe]
  BY DEF TypeOK, Datagram, Sessions
<1>2. ASSUME NEW i \in DOMAIN childs
      PROVE  /\ childs[i].peer \in Clients /\ childs[i].pipe \in Pipes
             /\ client[childs[i].peer] \in {"running", "exited"}
             /\ offered[childs[i].pipe] = childs[i].peer
  <2>1. childs[i] \in Child
    BY DEF TypeOK
  <2> QED BY <2>1 DEF Child, Sessions, Wires, NoCrossWire
<1>3. ASSUME duplicated = 0, UNCHANGED <<offered, client>>,
             \A k \in net' : k \in net \/ (k.type = "SERVER_RESET" /\ client[k.client] # "start"),
             DOMAIN childs' = DOMAIN childs,
             \A j \in DOMAIN childs :
               childs'[j].peer = childs[j].peer /\ childs'[j].pipe = childs[j].pipe,
             server' = "loop" => server = "loop" /\
               \A j \in DOMAIN childs : pipe'[childs[j].pipe] = pipe[childs[j].pipe]
      PROVE  Once'
  BY <1>3 DEF Once
<1>4. ASSUME NEW c \in Clients, ClientStep(c) PROVE Once'
  <2>1. UNCHANGED <<duplicated, offered, pipe, server, childs>>
    BY <1>4 DEF ClientStep, ClientHello, ClientRecv, ClientGivesUp, ClientExits, offers
  <2>2. client'[c] # "start" /\ \A d \in Clients : d # c => client'[d] = client[d]
    BY <1>4 DEF ClientStep, ClientHello, ClientRecv, ClientGivesUp, ClientExits,
                ClientConnects, Cancel, TypeOK
  <2>3. ASSUME NEW m \in net'
        PROVE  \/ m \in net
               \/ m = Hello(c) /\ client[c] = "start"
               \/ m = ClientReset(c)
               \/ m = ClientGrant(c) /\ client[c] = "hello"
    BY <1>4 DEF ClientStep, ClientHello, ClientRecv, ClientGivesUp, ClientExits,
                ClientConnects, Cancel, NotTo
  <2>4. ASSUME NEW m \in net', m.type = "CLIENT_HELLO", NEW p \in Pipes
        PROVE  offered[p] # m.client
    BY <2>1, <2>3, <2>4 DEF Once, Hello, ClientReset, ClientGrant
  <2>5. ASSUME NEW d \in Clients, client'[d] = "start"
        PROVE  (\A p \in Pipes : offered[p] # d) /\ (\A m \in net' : m.client # d)
    BY <2>1, <2>2, <2>3, <2>5 DEF Once, Hello, ClientReset, ClientGrant
  <2>6. ASSUME NEW m \in net', NEW i \in DOMAIN childs, m.type = "CLIENT_GRANT"
        PROVE  childs[i].peer # m.client
    BY <1>2, <2>1, <2>3, <2>6 DEF Once, Hello, ClientReset, ClientGrant
  <2> QED BY <2>1, <2>4, <2>5, <2>6 DEF Once
<1>5. ASSUME NEW m \in net, NEW r \in {{}, ToClient(m.client, ServerReset(m.client))},
             Receive(m, r)
      PROVE  /\ duplicated = 0
             /\ \A k \in net' : k \in net \/ (k.type = "SERVER_RESET" /\ client[k.client] # "start")
  BY <1>5, ReceiveNet DEF ToClient, ServerReset
<1>6. ASSUME NEW m \in net, Lose(m) PROVE Once'
  BY <1>3, <1>6 DEF Lose, clients, offers
<1>7. ASSUME NEW m \in net, Ignored(m) PROVE Once'
  BY <1>3, <1>5, <1>7 DEF Ignored, clients, offers
<1>8. ASSUME NEW m \in net, Purged(m) PROVE Once'
  <2> DEFINE o == find_opening(m.client)
  <2>1. PICK r \in {{}, ToClient(m.client, ServerReset(m.client))} : PurgeOpening(m, r)
    BY <1>8 DEF Purged
  <2>2. /\ o \in Chunks /\ distant[o] = m.client
        /\ pipe' = [pipe EXCEPT ![receive_fd[o]] = "freed"]
        /\ \E q \in {{}, r} : Receive(m, q)
        /\ UNCHANGED <<client, offered, childs>>
    BY <1>8, <2>1, PurgeEffect DEF Purged
  <2>3. duplicated = 0
    BY <1>5, <2>2
  <2>4. offered[receive_fd[o]] = m.client
    BY <1>1, <2>2 DEF Wires
  <2> HIDE DEF o
  <2>5. ASSUME NEW j \in DOMAIN childs PROVE pipe'[childs[j].pipe] = pipe[childs[j].pipe]
    <3>1. childs[j].peer # m.client
      BY <1>1, <1>2, <1>8, <2>3 DEF Purged, Once
    <3> QED BY <1>2, <2>2, <2>4, <3>1 DEF TypeOK
  <2> QED BY <1>3, <1>5, <1>8, <2>2, <2>3, <2>5 DEF Purged
<1>9. ASSUME NEW m \in net, Started(m) PROVE Once'
  <2> DEFINE o == find_opening(m.client)
             k == [peer |-> m.client, ended |-> FALSE, pipe |-> receive_fd[o]]
  <2>1. /\ childs' = Append(childs, k) /\ Receive(m, {})
        /\ UNCHANGED <<client, offered, pipe, server>>
    BY <1>9 DEF Started, StartChild, clients, offers
  <2>2. duplicated = 0 /\ net' = net \ {m}
    BY <2>1, ReceiveNet
  <2>3. pipe[receive_fd[o]] = "open"
    <3>1. o \in Chunks /\ distant[o] = m.client
      BY <1>1, <1>9, FoundOpening DEF Started
    <3> QED BY <1>1, <1>9, <3>1 DEF Started, Wires
  <2>4. childs \in Seq(Child) /\ k.peer = m.client /\ k.pipe = receive_fd[o]
    BY DEF TypeOK
  <2> HIDE DEF o, k
  <2>5. ASSUME NEW i \in DOMAIN childs'
        PROVE  (i \in DOMAIN childs /\ childs'[i] = childs[i]) \/ childs'[i] = k
    BY <2>1, <2>4
  <2>6. ASSUME NEW j \in net', NEW i \in DOMAIN childs', j.type = "CLIENT_GRANT"
        PROVE  childs'[i].peer # j.client
    <3>1. j \in net /\ j # m
      BY <2>2
    <3>2. j.client # m.client
      BY <1>1, <1>9, <2>6, <3>1 DEF Started
    <3> QED BY <2>2, <2>4, <2>5, <2>6, <3>1, <3>2 DEF Once
  <2>7. \A i \in DOMAIN childs' : pipe'[childs'[i].pipe] = "open"
    BY <1>9, <2>1, <2>2, <2>3, <2>4, <2>5 DEF Once, Started
  <2> QED BY <2>1, <2>2, <2>6, <2>7 DEF Once
<1>10. ASSUME NEW m \in net, Hellos(m) PROVE Once'
  <2>1. CASE HelloFails(m)
    BY <1>3, <1>5, <2>1 DEF HelloFails, clients, offers
  <2>2. CASE HelloOffers(m)
    <3> DEFINE p == FreshPipe
               reply == ToClient(m.client, ServerGrant(m.client, p))
    <3>1. p \in Pipes /\ pipe[p] = "none" /\ offered[p] = NoClient
      BY <2>2, FreshIsUnused DEF HelloOffers, Wires
    <3>2. /\ offered' = [offered EXCEPT ![p] = m.client]
          /\ pipe' = [pipe EXCEPT ![p] = "open"]
          /\ UNCHANGED <<client, server, childs>> /\ Receive(m, reply)
      BY <2>2 DEF HelloOffers, clients
    <3>3. duplicated = 0 /\ net' = (net \ {m}) \cup reply
      BY <3>2, ReceiveNet
    <3>4. \A j \in net' : (j \in net /\ j # m) \/ j = ServerGrant(m.client, p)
      BY <3>3 DEF ToClient
    <3>5. m.client \in Clients /\ m.type = "CLIENT_HELLO" /\ client[m.client] # "start"
      BY <1>1, <1>10, <3>3 DEF Hellos, Once
    <3> HIDE DEF p, reply
    <3>6. \A q \in Pipes : offered[q] # m.client
      BY <3>3, <3>5 DEF Once
    <3>7. \A q \in Pipes : offered'[q] = IF q = p THEN m.client ELSE offered[q]
      BY <3>1, <3>2 DEF TypeOK
    <3>8. \A q1, q2 \in Pipes :
            offered'[q1] = offered'[q2] /\ offered'[q1] # NoClient => q1 = q2
      BY <3>3, <3>6, <3>7 DEF Once
    <3>9. ASSUME NEW j \in net', j.type = "CLIENT_HELLO", NEW q \in Pipes
          PROVE  offered'[q] # j.client
      <4>1. j \in net /\ j # m
        BY <3>4, <3>9 DEF ServerGrant
      <4>2. j.client # m.client
        BY <1>1, <3>5, <3>9, <4>1
      <4> QED BY <3>3, <3>7, <3>9, <4>1, <4>2 DEF Once
    <3>10. ASSUME NEW d \in Clients, client'[d] = "start"
           PROVE  (\A q \in Pipes : offered'[q] # d) /\ (\A j \in net' : j.client # d)
      BY <3>2, <3>3, <3>4, <3>5, <3>7, <3>10 DEF Once, ServerGrant
    <3>11. ASSUME NEW j \in net', NEW i \in DOMAIN childs, j.type = "CLIENT_GRANT"
           PROVE  childs[i].peer # j.client
      BY <3>3, <3>4, <3>11 DEF Once, ServerGrant
    <3>12. server' = "loop" => \A i \in DOMAIN childs : pipe'[childs[i].pipe] = "open"
      BY <1>2, <3>1, <3>2, <3>3 DEF Once, TypeOK
    <3> QED BY <3>2, <3>8, <3>9, <3>10, <3>11, <3>12 DEF Once
  <2> QED BY <1>10, <2>1, <2>2 DEF Hellos
<1>11. CASE Shutdown
  <2>1. server' # "loop" /\ UNCHANGED <<net, duplicated, client, offered, childs>>
    BY <1>11 DEF Shutdown, network, clients
  <2> QED BY <1>3, <2>1
<1>12. CASE Join
  BY <1>3, <1>12 DEF Join, network, clients, openings, offers
<1>13. ASSUME NEW i \in DOMAIN childs, ChildEnds(i) \/ ChildCrashes(i) PROVE Once'
  BY <1>3, <1>13, ChildsKept DEF ChildEnds, ChildCrashes, network, clients, offers
<1>14. CASE UNCHANGED vars
  BY <1>3, <1>14 DEF vars, network, clients, offers
<1> QED BY <1>4, <1>6, <1>7, <1>8, <1>9, <1>10, <1>11, <1>12, <1>13, <1>14, StepCases, Zenon

-----------------------------------------------------------------------------
(***************************************************************************)
(* The invariant of the handshake, for every number of clients, chunks,    *)
(* pipes and duplicates.                                                   *)
(***************************************************************************)
THEOREM Invariance == Spec => []HandshakeInv
<1>1. Init => HandshakeInv
  BY InitInv
<1>2. HandshakeInv /\ [Next]_vars => HandshakeInv'
  BY TypeStep, WiresStep, SessionsStep, OnceStep DEF HandshakeInv
<1> QED BY <1>1, <1>2, PTL DEF Spec

(* The state of the handshake is well typed. *)
THEOREM TypeCorrect == Spec => []TypeOK
<1>1. HandshakeInv => TypeOK
  BY DEF HandshakeInv
<1> QED BY <1>1, Invariance, PTL

(* No child reads the pipe of another client: what find_opening returns. *)
THEOREM ChildsNotCrossed == Spec => []NoCrossWire
<1>1. HandshakeInv => NoCrossWire
  BY DEF HandshakeInv, Wires
<1> QED BY <1>1, Invariance, PTL

(* A repeated CLIENT_GRANT starts no second child. *)
THEOREM ChildsUnique == Spec => []OneChild
<1>1. HandshakeInv => OneChild
  BY DEF HandshakeInv, Sessions
<1> QED BY <1>1, Invariance, PTL

(* Without duplicates a child reads the pipe its client writes. *)
THEOREM ChildsPaired == Spec => []Paired
<1>1. HandshakeInv => Paired
  <2> SUFFICES ASSUME HandshakeInv, duplicated = 0, NEW i \in DOMAIN childs
               PROVE  childs[i].pipe = link[childs[i].peer]
    BY DEF Paired
  <2>1. childs[i] \in Child
    BY DEF HandshakeInv, TypeOK
  <2>2. /\ childs[i].pipe \in Pipes /\ childs[i].peer \in Clients
        /\ offered[childs[i].pipe] = childs[i].peer
    BY <2>1 DEF HandshakeInv, Child, Wires, NoCrossWire
  <2>3. /\ link[childs[i].peer] \in Pipes
        /\ offered[link[childs[i].peer]] = childs[i].peer
    BY <2>2, HandshakeAssumption DEF HandshakeInv, Sessions
  <2> QED BY <2>2, <2>3, HandshakeAssumption DEF HandshakeInv, Once
<1> QED BY <1>1, Invariance, PTL

(* Without duplicates a serving server keeps the pipes of its children. *)
THEOREM ChildPipesKept == Spec => []ChildKeepsPipe
<1>1. HandshakeInv => ChildKeepsPipe
  BY DEF HandshakeInv, Once, ChildKeepsPipe
<1> QED BY <1>1, Invariance, PTL
=============================================================================
