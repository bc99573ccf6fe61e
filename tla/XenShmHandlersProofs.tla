------------------------ MODULE XenShmHandlersProofs ------------------------
(***************************************************************************)
(* Proofs about XenShmHandlers, for every capacity and all packet sizes.   *)
(***************************************************************************)
EXTENDS XenShmHandlers, TLAPS

Alive == gone["client"] = "no" /\ gone["server"] = "no"

(* A process that is gone runs no handler. *)
GoneOK == \A p \in Procs : gone[p] # "no" => step[p] = "returned"

(* The server runs its handler on a pipe it connected. *)
LinkOK ==
  /\ step["server"] \notin {"start", "returned"} => link = "open"
  /\ link = "half" => gone["server"] # "no"

(* Who sleeps is in a call on that pipe. *)
SleepsInCall ==
  /\ asleep["up"]["writer"] => line["client"] = 1 /\ step["client"] = "test"
  /\ asleep["up"]["reader"] => line["server"] = 1 /\ step["server"] = "test"
  /\ asleep["down"]["reader"] =>
       pairing = "ping" /\ line["client"] = 3 /\ step["client"] = "test"
  /\ asleep["down"]["writer"] =>
       pairing = "ping" /\ line["server"] = 3 /\ step["server"] = "test"

SleepsAlone == \A q \in Pipes : ~(asleep[q]["reader"] /\ asleep[q]["writer"])

SleepsBlocked ==
  \A q \in Pipes, r \in Stream!Roles :
    asleep[q][r] /\ flushed[q][Stream!Peer(r)] => Stream!Blocked(q, r)

LeftOK == \A p \in Procs : step[p] \in {"start", "test", "saw"} => left[p] > 0

(* The client writes to up and never flushes it. *)
UpUnflushed == ~flushed["up"]["writer"]

FullWhile(p, lines) == line[p] \in lines => left[p] = size[p]

(* Bytes of a request the client has still to write, of an answer to read. *)
Unwritten == IF line["client"] = 1 THEN left["client"] ELSE 0
Unread == IF line["client"] = 3 THEN left["client"] ELSE size["client"]

(* The client has sent its request and has not all of the answer. *)
Asked ==
  \/ line["client"] = 1 /\ left["client"] = 0
  \/ line["client"] = 2 /\ left["client"] = size["client"]
  \/ line["client"] = 3

Requesting ==
  /\ line["server"] = 1 /\ line["client"] \in {1, 2, 3}
  /\ FullWhile("client", {2, 3})
  /\ count["up"] = left["server"] - Unwritten /\ count["down"] = 0

Requested ==
  /\ line["server"] = 2 /\ Asked /\ FullWhile("client", {2, 3})
  /\ count["up"] = 0 /\ count["down"] = 0

Answering ==
  /\ line["server"] = 3 /\ Asked
  /\ count["up"] = 0 /\ count["down"] = Unread - left["server"]

Answered ==
  /\ line["server"] = 4 /\ Asked
  /\ count["up"] = 0 /\ count["down"] = Unread

(* The server has flushed its answer, and was heard or not. *)
Tried == flushed["down"]["writer"] \/ merged["down"]["writer"]

Flushed ==
  /\ line["server"] = 1 /\ left["server"] = size["server"] /\ Asked
  /\ count["up"] = 0 /\ count["down"] = Unread /\ Tried

(* The client is in the next round already. *)
Ahead ==
  /\ line["server"] \in {3, 4} /\ (line["server"] = 3 => left["server"] = 0)
  /\ FullWhile("client", {2, 3, 4})
  /\ line["client"] = 4 => count["up"] = 0
  /\ line["client"] # 4 => count["up"] = size["client"] - Unwritten
  /\ count["down"] = 0

Between ==
  /\ line["server"] = 1 /\ left["server"] = size["server"] /\ line["client"] = 4
  /\ count["up"] = 0 /\ count["down"] = 0

(* The rounds of a ping. *)
Phase ==
  \/ Requesting \/ Requested \/ Answering \/ Answered \/ Flushed \/ Ahead \/ Between

PingOK ==
  pairing = "ping" /\ Alive =>
    size["client"] = size["server"] /\ Phase

HandlersInv ==
  /\ TypeOK /\ GoneOK /\ SleepsInCall /\ SleepsAlone /\ SleepsBlocked /\ LeftOK
  /\ UpUnflushed /\ LinkOK /\ PingOK

-----------------------------------------------------------------------------
Op(p) == Handler(p)[line[p]].op

(* What a process does at each line of its handler. *)
LEMMA Where ==
  ASSUME TypeOK
  PROVE  /\ pairing = "ping" =>
              /\ Len(Handler("client")) = 4 /\ Len(Handler("server")) = 4
              /\ line["client"] \in 1 .. 4 /\ line["server"] \in 1 .. 4
              /\ line["client"] = 1 => Op("client") = "write_all" /\ Pipe("client") = "up" /\ Role("client") = "writer"
              /\ line["client"] = 2 => Op("client") = "flush" /\ Pipe("client") = "down" /\ Role("client") = "reader"
              /\ line["client"] = 3 => Op("client") = "read_all" /\ Pipe("client") = "down" /\ Role("client") = "reader"
              /\ line["client"] = 4 => Op("client") = "flush" /\ Pipe("client") = "down" /\ Role("client") = "reader"
              /\ line["server"] = 1 => Op("server") = "read_all" /\ Pipe("server") = "up" /\ Role("server") = "reader"
              /\ line["server"] = 2 => Op("server") = "flush" /\ Pipe("server") = "up" /\ Role("server") = "reader"
              /\ line["server"] = 3 => Op("server") = "write_all" /\ Pipe("server") = "down" /\ Role("server") = "writer"
              /\ line["server"] = 4 => Op("server") = "flush" /\ Pipe("server") = "down" /\ Role("server") = "writer"
         /\ pairing = "transfer" =>
              /\ Len(Handler("client")) = 1 /\ Len(Handler("server")) = 1
              /\ line["client"] = 1 /\ line["server"] = 1
              /\ Op("client") = "write_all" /\ Pipe("client") = "up" /\ Role("client") = "writer"
              /\ Op("server") = "read_all" /\ Pipe("server") = "up" /\ Role("server") = "reader"
<1>1. CASE pairing = "ping"
  <2>1. Handler("client") = ping_client /\ Handler("server") = ping_server
    BY <1>1 DEF Handler
  <2>2. Len(ping_client) = 4 /\ Len(ping_server) = 4
    BY DEF ping_client, ping_server
  <2>3. line["client"] \in 1 .. 4 /\ line["server"] \in 1 .. 4
    BY <2>1, <2>2 DEF TypeOK, Procs
  <2>4. /\ ping_client[1] = Call("write_all", "up") /\ ping_client[2] = Call("flush", "down")
        /\ ping_client[3] = Call("read_all", "down") /\ ping_client[4] = Call("flush", "down")
        /\ ping_server[1] = Call("read_all", "up") /\ ping_server[2] = Call("flush", "up")
        /\ ping_server[3] = Call("write_all", "down") /\ ping_server[4] = Call("flush", "down")
    BY DEF ping_client, ping_server
  <2> QED BY <1>1, <2>1, <2>2, <2>3, <2>4 DEF Op, Pipe, Role, Call
<1>2. CASE pairing = "transfer"
  <2>1. Handler("client") = sender /\ Handler("server") = receiver
    BY <1>2 DEF Handler
  <2>2. Len(sender) = 1 /\ Len(receiver) = 1
    BY DEF sender, receiver
  <2>3. line["client"] = 1 /\ line["server"] = 1
    <3>1. line["client"] \in 1 .. 1 /\ line["server"] \in 1 .. 1
      BY <2>1, <2>2 DEF TypeOK, Procs
    <3> QED BY <3>1
  <2>4. sender[1] = Call("write_all", "up") /\ receiver[1] = Call("read_all", "up")
    BY DEF sender, receiver
  <2> QED BY <1>2, <2>1, <2>2, <2>3, <2>4 DEF Op, Pipe, Role, Call
<1> QED BY <1>1, <1>2 DEF TypeOK

(* Advance goes to the next line, and from the last to the first. *)
LEMMA Advancing ==
  ASSUME TypeOK, NEW p \in Procs, Advance(p)
  PROVE  /\ line' \in [Procs -> Nat] /\ left' \in [Procs -> Nat]
         /\ step' \in [Procs -> {"start", "test", "saw", "copied", "returned"}]
         /\ line'[p] = IF line[p] = Len(Handler(p)) THEN 1 ELSE line[p] + 1
         /\ left'[p] = size[p] /\ step'[p] = "test"
         /\ \A o \in Procs \ {p} :
              line'[o] = line[o] /\ left'[o] = left[o] /\ step'[o] = step[o]
<1>1. Len(Handler(p)) \in {1, 4} /\ line[p] \in 1 .. Len(Handler(p))
  BY Where DEF TypeOK, Procs
<1>2. (line[p] % Len(Handler(p))) + 1 = IF line[p] = Len(Handler(p)) THEN 1 ELSE line[p] + 1
  <2>1. CASE Len(Handler(p)) = 1
    <3>1. line[p] = 1 BY <1>1, <2>1
    <3> QED BY <2>1, <3>1
  <2>2. CASE Len(Handler(p)) = 4
    <3>1. line[p] \in {1, 2, 3, 4} BY <1>1, <2>2
    <3> QED BY <2>2, <3>1
  <2> QED BY <1>1, <2>1, <2>2
<1>3. size[p] \in Nat
  BY HandlersAssumption DEF TypeOK
<1> QED BY <1>1, <1>2, <1>3 DEF Advance, TypeOK

LEMMA Stopping ==
  ASSUME TypeOK, NEW p \in Procs, NEW b \in BOOLEAN, StopShort(p, b)
  PROVE  \/ step' = [step EXCEPT ![p] = "returned"] /\ UNCHANGED <<line, left>>
         \/ Advance(p)
BY DEF StopShort

(* The handlers stay what they are. *)
LEMMA SameHandler ==
  ASSUME pairing' = pairing, NEW p \in Procs
  PROVE  Handler(p)' = Handler(p)
BY DEF Handler

LEMMA PairingKept ==
  ASSUME TypeOK, Next
  PROVE  pairing' = pairing /\ size' = size
BY DEF Next, Runs, ClientStart, ClientThreadFails, ServerStart, ServerRefuses, Greet, Copy, Kick, Look, Fail, Closed, FlushCall,
       Doze, Killed

-----------------------------------------------------------------------------
StreamTypes ==
  /\ count \in [Pipes -> 0 .. Capacity]
  /\ asleep \in [Pipes -> [Stream!Roles -> BOOLEAN]]
  /\ flushed \in [Pipes -> [Stream!Roles -> BOOLEAN]]
  /\ greeted \in [Pipes -> [Stream!Roles -> BOOLEAN]]

MergedType == merged \in [Pipes -> [Stream!Roles -> BOOLEAN]]
LinkType == link \in {"none", "half", "open"}

LEMMA Ends ==
  ASSUME TypeOK, NEW p \in Procs
  PROVE  Pipe(p) \in Pipes /\ Role(p) \in Stream!Roles
BY Where DEF TypeOK, Procs, Pipes, Stream!Roles

LEMMA StreamStepTyped ==
  ASSUME StreamTypes, NEW q \in Pipes, NEW r \in Stream!Roles,
         \/ \E k \in Nat : Stream!Move(q, r, k)
         \/ Stream!Doze(q, r) \/ Stream!Wake(q, r) \/ Stream!Flush(q, r)
         \/ Stream!Greet(q, r)
  PROVE  StreamTypes'
<1>1. Stream!Peer(r) \in Stream!Roles
  BY DEF Stream!Peer, Stream!Roles
<1>2. CASE \E k \in Nat : Stream!Move(q, r, k)
  <2>1. PICK k \in Nat : Stream!Move(q, r, k) BY <1>2
  <2>2. count[q] \in 0 .. Capacity /\ Capacity \in Nat
    BY HandlersAssumption DEF StreamTypes
  <2>3. (IF r = "reader" THEN count[q] - k ELSE count[q] + k) \in 0 .. Capacity
    BY <2>1, <2>2 DEF Stream!Move, Stream!Room
  <2>4. count' \in [Pipes -> 0 .. Capacity]
    BY <2>1, <2>3 DEF Stream!Move, StreamTypes
  <2> QED BY <2>1, <2>4 DEF Stream!Move, StreamTypes
<1>3. CASE Stream!Doze(q, r)
  BY <1>3 DEF Stream!Doze, StreamTypes
<1>4. CASE Stream!Wake(q, r)
  BY <1>4 DEF Stream!Wake, StreamTypes
<1>5. ASSUME Stream!WakePeer(q, r) PROVE asleep' \in [Pipes -> [Stream!Roles -> BOOLEAN]]
  BY <1>1, <1>5 DEF Stream!WakePeer, StreamTypes
<1>6. CASE Stream!Flush(q, r)
  <2>1. asleep' \in [Pipes -> [Stream!Roles -> BOOLEAN]]
    BY <1>5, <1>6 DEF Stream!Flush, StreamTypes
  <2>2. flushed' \in [Pipes -> [Stream!Roles -> BOOLEAN]]
    BY <1>1, <1>6 DEF Stream!Flush, StreamTypes
  <2> QED BY <1>6, <2>1, <2>2 DEF Stream!Flush, StreamTypes
<1>7. CASE Stream!Greet(q, r)
  <2>1. asleep' \in [Pipes -> [Stream!Roles -> BOOLEAN]]
    BY <1>5, <1>7 DEF Stream!Greet, StreamTypes
  <2>2. greeted' \in [Pipes -> [Stream!Roles -> BOOLEAN]]
    BY <1>7 DEF Stream!Greet, StreamTypes
  <2> QED BY <1>7, <2>1, <2>2 DEF Stream!Greet, StreamTypes
<1> QED BY <1>2, <1>3, <1>4, <1>6, <1>7

LEMMA WakeTyped ==
  ASSUME TypeOK, NEW p \in Procs, WakeOther(p)
  PROVE  StreamTypes'
<1>1. StreamTypes /\ Stream!Peer(Role(p)) \in Stream!Roles /\ Pipe(p) \in Pipes
  BY Ends DEF TypeOK, StreamTypes, Stream!Peer, Stream!Roles
<1>2. CASE Stream!Wake(Pipe(p), Stream!Peer(Role(p)))
  BY <1>1, <1>2, StreamStepTyped
<1>3. CASE UNCHANGED streams
  BY <1>1, <1>3 DEF StreamTypes, streams
<1> QED BY <1>2, <1>3 DEF WakeOther

(* What TypeOK says beside the streams, of each process. *)
LocalTypes ==
  /\ line \in [Procs -> Nat] /\ left \in [Procs -> Nat]
  /\ \A p \in Procs : line[p] \in 1 .. Len(Handler(p)) /\ left[p] \in 0 .. size[p]
  /\ step \in [Procs -> {"start", "test", "saw", "copied", "returned"}]

LEMMA AdvanceTyped ==
  ASSUME TypeOK, NEW p \in Procs, Advance(p), pairing' = pairing, size' = size
  PROVE  LocalTypes'
<1>1. \A o \in Procs : Handler(o)' = Handler(o)
  BY SameHandler
<1>2. Len(Handler(p)) \in {1, 4} /\ line[p] \in 1 .. Len(Handler(p))
  BY Where DEF TypeOK, Procs
<1>3. line'[p] \in 1 .. Len(Handler(p)) /\ left'[p] \in 0 .. size[p]
  BY <1>2, Advancing, HandlersAssumption DEF TypeOK
<1>4. ASSUME NEW o \in Procs \ {p}
      PROVE  line'[o] \in 1 .. Len(Handler(o)) /\ left'[o] \in 0 .. size[o]
  BY Advancing DEF TypeOK
<1> QED BY <1>1, <1>3, <1>4, Advancing DEF LocalTypes

LEMMA LocalKept ==
  ASSUME TypeOK, pairing' = pairing, size' = size, UNCHANGED <<line, left>>,
         step' \in [Procs -> {"start", "test", "saw", "copied", "returned"}]
  PROVE  LocalTypes'
<1>1. \A o \in Procs : Handler(o)' = Handler(o)
  BY SameHandler
<1> QED BY <1>1 DEF TypeOK, LocalTypes

LEMMA TypeStep ==
  ASSUME TypeOK, [Next]_vars
  PROVE  TypeOK'
<1> USE DEF Procs
<1>0. CASE UNCHANGED vars
  <2>1. LocalTypes'
    BY <1>0, LocalKept DEF vars, TypeOK
  <2> QED BY <1>0, <2>1 DEF vars, streams, TypeOK, LocalTypes
<1> SUFFICES ASSUME Next PROVE TypeOK'
  BY <1>0
<1>1. pairing' = pairing /\ size' = size
  BY PairingKept
<1>2. StreamTypes /\ MergedType /\ LinkType
  BY DEF TypeOK, StreamTypes, MergedType, LinkType
<1>3. SUFFICES /\ StreamTypes' /\ MergedType' /\ LinkType' /\ LocalTypes'
               /\ gone' \in [Procs -> {"no", "killed", "freed"}]
  BY <1>1 DEF TypeOK, StreamTypes, MergedType, LinkType, LocalTypes
<1>a. ASSUME UNCHANGED streams PROVE StreamTypes'
  BY <1>2, <1>a DEF streams, StreamTypes
<1>b. ASSUME NEW b \in BOOLEAN, Released(b), UNCHANGED <<count, flushed, greeted>>
      PROVE  StreamTypes'
  <2>1. asleep' \in [Pipes -> [Stream!Roles -> BOOLEAN]]
    BY <1>b, <1>2, Zenon DEF Released, StreamTypes
  <2> QED BY <1>2, <1>b, <2>1 DEF StreamTypes
<1>d. ASSUME NEW o \in Procs, NEW how \in {"killed", "freed"}, Leaves(o, how),
             UNCHANGED <<line, left>>
      PROVE  LocalTypes' /\ gone' \in [Procs -> {"no", "killed", "freed"}]
  BY <1>d, <1>1, LocalKept DEF Leaves, TypeOK
<1>4. CASE ClientStart
  BY <1>4, <1>1, <1>2, <1>a, LocalKept DEF ClientStart, TypeOK, MergedType, LinkType
<1>5. CASE ClientThreadFails
  BY <1>5, <1>2, <1>b, <1>d DEF ClientThreadFails, MergedType, LinkType
<1>14. CASE ServerStart
  BY <1>14, <1>1, <1>2, <1>a, LocalKept DEF ServerStart, TypeOK, MergedType, LinkType
<1>15. CASE ServerRefuses
  BY <1>15, <1>2, <1>b, <1>d DEF ServerRefuses, MergedType, LinkType
<1>16. ASSUME NEW q \in Pipes, NEW r \in Stream!Roles, Greet(q, r)
       PROVE  StreamTypes' /\ MergedType' /\ LinkType' /\ LocalTypes'
              /\ gone' \in [Procs -> {"no", "killed", "freed"}]
  <2>1. StreamTypes'
    BY <1>2, <1>16, StreamStepTyped DEF Greet
  <2> QED BY <1>1, <1>2, <1>16, <2>1, LocalKept DEF Greet, TypeOK, MergedType, LinkType
<1> SUFFICES ASSUME NEW p \in Procs,
                    \/ Copy(p) \/ Kick(p) \/ Look(p) \/ Fail(p) \/ Closed(p)
                    \/ FlushCall(p) \/ Doze(p) \/ Killed(p)
             PROVE  /\ StreamTypes' /\ MergedType' /\ LinkType' /\ LocalTypes'
                    /\ gone' \in [Procs -> {"no", "killed", "freed"}]
  BY <1>4, <1>5, <1>14, <1>15, <1>16 DEF Next, Runs
<1>17. Pipe(p) \in Pipes /\ Role(p) \in Stream!Roles
  BY Ends
<1>c. ASSUME NEW b \in BOOLEAN, StopShort(p, b) PROVE LocalTypes'
  <2>1. CASE Advance(p) BY <2>1, <1>1, AdvanceTyped
  <2>2. CASE step' = [step EXCEPT ![p] = "returned"] /\ UNCHANGED <<line, left>>
    BY <2>2, <1>1, LocalKept DEF TypeOK
  <2> QED BY <1>c, <2>1, <2>2, Stopping
<1>6. CASE Copy(p)
  <2>1. PICK k \in 1 .. left[p] :
          Stream!Move(Pipe(p), Role(p), k) /\ left' = [left EXCEPT ![p] = @ - k]
    BY <1>6 DEF Copy
  <2>2. StreamTypes'
    BY <2>1, <1>2, <1>17, StreamStepTyped
  <2>3. left[p] \in 0 .. size[p] /\ size[p] \in Nat /\ left[p] \in Nat
    BY HandlersAssumption DEF TypeOK
  <2>4. left' \in [Procs -> Nat] /\ left'[p] \in 0 .. size[p]
    BY <2>1, <2>3 DEF TypeOK
  <2>5. \A o \in Procs : left'[o] \in 0 .. size[o]
    BY <2>1, <2>4 DEF TypeOK
  <2>6. \A o \in Procs : Handler(o)' = Handler(o)
    BY <1>1, SameHandler
  <2>7. LocalTypes'
    BY <1>1, <1>6, <2>4, <2>5, <2>6 DEF Copy, LocalTypes, TypeOK
  <2>8. MergedType' /\ LinkType'
    BY <1>2, <1>6 DEF Copy, MergedType, LinkType
  <2> QED BY <1>6, <2>2, <2>7, <2>8 DEF Copy, TypeOK
<1>7. CASE Kick(p)
  <2>1. StreamTypes'
    BY <1>7, WakeTyped DEF Kick
  <2>2. CASE Advance(p)
    BY <1>7, <1>1, <1>2, <2>1, <2>2, AdvanceTyped DEF Kick, TypeOK, MergedType, LinkType
  <2>3. CASE step' = [step EXCEPT ![p] = "test"] /\ UNCHANGED <<line, left>>
    BY <1>7, <1>1, <1>2, <2>1, <2>3, LocalKept DEF Kick, TypeOK, MergedType, LinkType
  <2> QED BY <1>7, <2>2, <2>3 DEF Kick
<1>8. CASE Look(p)
  BY <1>8, <1>1, <1>2, WakeTyped, LocalKept DEF Look, TypeOK, MergedType, LinkType
<1>9. CASE Doze(p)
  <2>1. StreamTypes'
    BY <1>9, <1>2, <1>17, StreamStepTyped DEF Doze
  <2> QED BY <1>9, <1>1, <1>2, <2>1, LocalKept DEF Doze, TypeOK, MergedType, LinkType
<1>10. CASE Fail(p)
  BY <1>2, <1>10, <1>a, <1>c DEF Fail, TypeOK, MergedType, LinkType
<1>11. CASE Closed(p)
  BY <1>2, <1>11, <1>a, <1>c DEF Closed, TypeOK, MergedType, LinkType
<1>12. CASE FlushCall(p)
  <2>1. CASE Stream!Flush(Pipe(p), Role(p)) /\ merged' = [merged EXCEPT ![Pipe(p)][Role(p)] = ~greeted[Pipe(p)][Stream!Peer(Role(p))]]
    <3>1. StreamTypes'
      BY <2>1, <1>2, <1>17, StreamStepTyped
    <3>2. MergedType'
      BY <2>1, <1>2, <1>17 DEF MergedType
    <3> QED BY <1>12, <1>1, <1>2, <3>1, <3>2, AdvanceTyped DEF FlushCall, TypeOK, LinkType
  <2>2. CASE UNCHANGED <<streams, merged>>
    BY <1>12, <1>1, <1>2, <1>a, <2>2, AdvanceTyped DEF FlushCall, TypeOK, MergedType, LinkType
  <2> QED BY <1>12, <2>1, <2>2 DEF FlushCall
<1>13. CASE Killed(p)
  BY <1>13, <1>2, <1>b, <1>d DEF Killed, MergedType, LinkType
<1> QED BY <1>6, <1>7, <1>8, <1>9, <1>10, <1>11, <1>12, <1>13

-----------------------------------------------------------------------------
(* Who sleeps, and on what: the part of the invariant that no count enters. *)
SleepInv ==
  /\ GoneOK /\ SleepsInCall /\ SleepsAlone /\ SleepsBlocked /\ LeftOK /\ UpUnflushed
  /\ LinkOK

LEMMA EndsOf ==
  ASSUME TypeOK
  PROVE  /\ \/ Pipe("client") = "up" /\ Role("client") = "writer" /\ line["client"] = 1
            \/ Pipe("client") = "down" /\ Role("client") = "reader" /\ line["client"] # 1 /\ pairing = "ping"
         /\ \/ Pipe("server") = "up" /\ Role("server") = "reader"
            \/ Pipe("server") = "down" /\ Role("server") = "writer" /\ pairing = "ping"
BY Where DEF TypeOK

LEMMA CallLines ==
  ASSUME TypeOK, NEW p \in Procs, In(p, "read_all") \/ In(p, "write_all")
  PROVE  /\ p = "client" /\ Pipe(p) = "up" => line[p] = 1
         /\ p = "client" /\ Pipe(p) = "down" => line[p] = 3 /\ pairing = "ping"
         /\ p = "server" /\ Pipe(p) = "up" => line[p] = 1
         /\ p = "server" /\ Pipe(p) = "down" => line[p] = 3 /\ pairing = "ping"
<1>1. Op(p) \in {"read_all", "write_all"}
  BY DEF In, Op
<1> QED BY <1>1, Where DEF TypeOK, Procs

(* A process that acts does not sleep. *)
Awake(p) ==
  /\ p = "client" => ~asleep["up"]["writer"] /\ ~asleep["down"]["reader"]
  /\ p = "server" => ~asleep["up"]["reader"] /\ ~asleep["down"]["writer"]

LEMMA ActsAwake ==
  ASSUME TypeOK, SleepsInCall, NEW p \in Procs, Calling(p) \/ In(p, "flush")
  PROVE  Awake(p)
<1>1. CASE Calling(p)
  <2>1. ~asleep[Pipe(p)][Role(p)]
    BY <1>1 DEF Calling
  <2>2. CASE p = "client"
    <3>1. asleep["up"]["writer"] => Pipe(p) = "up" /\ Role(p) = "writer"
      BY <2>2, EndsOf DEF SleepsInCall
    <3>2. asleep["down"]["reader"] => Pipe(p) = "down" /\ Role(p) = "reader"
      BY <2>2, EndsOf DEF SleepsInCall
    <3> QED BY <2>1, <2>2, <3>1, <3>2 DEF Awake
  <2>3. CASE p = "server"
    <3>1. asleep["up"]["reader"] => Pipe(p) = "up" /\ Role(p) = "reader"
      BY <2>3, Where DEF SleepsInCall, TypeOK
    <3>2. asleep["down"]["writer"] => Pipe(p) = "down" /\ Role(p) = "writer"
      BY <2>3, Where DEF SleepsInCall
    <3> QED BY <2>1, <2>3, <3>1, <3>2 DEF Awake
  <2> QED BY <2>2, <2>3 DEF Procs
<1>2. CASE In(p, "flush")
  <2>1. Op(p) = "flush"
    BY <1>2 DEF In, Op
  <2> QED BY <2>1, Where DEF Awake, SleepsInCall, Procs, TypeOK
<1> QED BY <1>1, <1>2

LEMMA ActsAlive ==
  ASSUME GoneOK, NEW p \in Procs, Running(p)
  PROVE  gone[p] = "no"
BY DEF GoneOK, Running

(* An action of an awake process that puts nobody to sleep. *)
LEMMA SleepersKept ==
  ASSUME TypeOK, SleepsInCall, SleepsAlone, NEW p \in Procs, Awake(p),
         pairing' = pairing,
         \A q \in Pipes, r \in Stream!Roles : asleep'[q][r] => asleep[q][r],
         \A o \in Procs \ {p} : line'[o] = line[o] /\ step'[o] = step[o]
  PROVE  SleepsInCall' /\ SleepsAlone'
<1> USE DEF Procs, Pipes, Stream!Roles
<1>2. SleepsAlone'
  BY DEF SleepsAlone
<1>3. SleepsInCall'
  <2>1. CASE p = "client"
    BY <2>1 DEF SleepsInCall, Awake
  <2>2. CASE p = "server"
    BY <2>2 DEF SleepsInCall, Awake
  <2> QED BY <2>1, <2>2
<1> QED BY <1>2, <1>3

LEMMA WakeShape ==
  ASSUME TypeOK, NEW p \in Procs, WakeOther(p)
  PROVE  /\ count' = count /\ flushed' = flushed
         /\ \A q \in Pipes, r \in Stream!Roles : asleep'[q][r] => asleep[q][r]
<1>1. Pipe(p) \in Pipes /\ Stream!Peer(Role(p)) \in Stream!Roles
  BY Ends DEF Stream!Peer, Stream!Roles
<1> DEFINE a == Pipe(p)
           b == Stream!Peer(Role(p))
<1> HIDE DEF a, b
<1>2. a \in Pipes /\ b \in Stream!Roles
  BY <1>1 DEF a, b
<1>3. CASE Stream!Wake(a, b)
  BY <1>2, <1>3 DEF Stream!Wake, TypeOK
<1>4. CASE UNCHANGED streams
  BY <1>4 DEF streams
<1> QED BY <1>3, <1>4 DEF WakeOther, a, b

LEMMA BlockedKept ==
  ASSUME SleepsBlocked, count' = count, flushed' = flushed,
         \A q \in Pipes, r \in Stream!Roles : asleep'[q][r] => asleep[q][r]
  PROVE  SleepsBlocked'
BY DEF SleepsBlocked, Stream!Blocked, Stream!Roles, Stream!Peer

LEMMA SizesPositive ==
  ASSUME TypeOK
  PROVE  \A p \in Procs : size[p] \in Nat /\ size[p] > 0
<1> SUFFICES ASSUME NEW p \in Procs PROVE size[p] \in Nat /\ size[p] > 0
  OBVIOUS
<1>1. size[p] \in PacketSizes
  BY DEF TypeOK
<1>2. size[p] \in Nat \ {0}
  BY <1>1, HandlersAssumption
<1> QED BY <1>2

LEMMA SleepStep ==
  ASSUME TypeOK, SleepInv, [Next]_vars
  PROVE  SleepInv'
<1> USE DEF Procs, SleepInv
<1>0. CASE UNCHANGED vars
  BY <1>0 DEF vars, streams, GoneOK, SleepsInCall, SleepsAlone, SleepsBlocked,
     Stream!Blocked, LeftOK, UpUnflushed, LinkOK
<1> SUFFICES ASSUME Next PROVE SleepInv'
  BY <1>0
<1>1. pairing' = pairing /\ size' = size /\ \A o \in Procs : size[o] \in Nat /\ size[o] > 0
  <2>1. pairing' = pairing /\ size' = size
    BY PairingKept
  <2>2. \A o \in Procs : size[o] \in Nat /\ size[o] > 0
    BY SizesPositive
  <2> QED BY <2>1, <2>2
<1>3. CASE ClientStart
  <2>1. Awake("client")
    BY <1>3 DEF ClientStart, Awake, SleepsInCall
  <2>2. SleepsInCall' /\ SleepsAlone'
    BY <1>3, <2>1, SleepersKept DEF ClientStart, streams, TypeOK
  <2>3. SleepsBlocked'
    BY <1>3, BlockedKept DEF ClientStart, streams
  <2>4. GoneOK' /\ LeftOK'
    BY <1>3 DEF ClientStart, GoneOK, LeftOK, TypeOK
  <2>5. UpUnflushed' /\ LinkOK'
    BY <1>3 DEF ClientStart, UpUnflushed, LinkOK, streams, TypeOK
  <2> QED BY <2>2, <2>3, <2>4, <2>5
<1>4. ASSUME NEW o \in Procs, NEW how \in {"killed", "freed"}, Leaves(o, how),
             Released(o = "client" \/ link' # "none"),
             o = "client" => link' = link,
             link' # link => step["server"] = "start",
             o = "server" /\ link' = "none" => step["server"] \in {"start", "returned"},
             UNCHANGED <<count, flushed, greeted, pairing, size, line, left>>
      PROVE  SleepInv'
  <2>1. \A q \in Pipes, r \in Stream!Roles :
          asleep'[q][r] => asleep[q][r] /\ q = "down" /\ o = "server" /\ link' = "none"
    BY <1>4 DEF Released
  <2>2. SleepsAlone' /\ SleepsBlocked'
    BY <1>4, <2>1, BlockedKept DEF SleepsAlone, Pipes, Stream!Roles
  <2>3. GoneOK' /\ LeftOK' /\ UpUnflushed'
    BY <1>4 DEF Leaves, GoneOK, LeftOK, UpUnflushed, TypeOK
  <2>4. LinkOK'
    <3>1. CASE o = "server"
      BY <1>4, <3>1 DEF Leaves, LinkOK, TypeOK
    <3>2. CASE o = "client"
      BY <1>4, <3>2 DEF Leaves, LinkOK, TypeOK
    <3> QED BY <3>1, <3>2
  <2>5. SleepsInCall'
    <3>1. CASE o = "client"
      BY <2>1, <3>1 DEF SleepsInCall, Pipes, Stream!Roles
    <3>2. CASE o = "server"
      <4>1. step'["client"] = step["client"]
        BY <1>4, <3>2 DEF Leaves, TypeOK
      <4>2. ~asleep'["down"]["writer"]
        BY <1>4, <2>1, <3>2 DEF SleepsInCall, Pipes, Stream!Roles
      <4>3. ~asleep'["up"]["writer"] /\ ~asleep'["up"]["reader"]
        BY <2>1 DEF Pipes, Stream!Roles
      <4>4. asleep'["down"]["reader"] => asleep["down"]["reader"]
        BY <2>1 DEF Pipes, Stream!Roles
      <4> QED BY <1>4, <4>1, <4>2, <4>3, <4>4 DEF SleepsInCall
    <3> QED BY <3>1, <3>2
  <2> QED BY <2>2, <2>3, <2>4, <2>5
<1>5. CASE ClientThreadFails
  <2>1. Leaves("client", "freed") /\ Released(TRUE) /\ link' = link
    BY <1>5 DEF ClientThreadFails
  <2>2. Released("client" = "client" \/ link' # "none")
    BY <2>1 DEF Released
  <2> QED BY <1>4, <1>5, <2>1, <2>2 DEF ClientThreadFails
<1>15. CASE ServerStart
  <2>1. Awake("server")
    BY <1>15 DEF ServerStart, Awake, SleepsInCall
  <2>2. SleepsInCall' /\ SleepsAlone'
    BY <1>15, <2>1, SleepersKept DEF ServerStart, streams, TypeOK
  <2>3. SleepsBlocked'
    BY <1>15, BlockedKept DEF ServerStart, streams
  <2>4. GoneOK' /\ LeftOK'
    BY <1>15 DEF ServerStart, GoneOK, LeftOK, TypeOK
  <2>5. UpUnflushed' /\ LinkOK'
    BY <1>15 DEF ServerStart, UpUnflushed, LinkOK, streams, TypeOK
  <2> QED BY <2>2, <2>3, <2>4, <2>5
<1>16. CASE ServerRefuses
  <2>1. PICK l \in {"none", "half", "open"} : link' = l /\ Released(l # "none")
    BY <1>16 DEF ServerRefuses
  <2>2. Released("server" = "client" \/ link' # "none")
    BY <2>1 DEF Released
  <2> QED BY <1>4, <1>16, <2>2 DEF ServerRefuses
<1>17. ASSUME NEW q \in Pipes, NEW r \in Stream!Roles, Greet(q, r)
       PROVE  SleepInv'
  <2>1. \A x \in Pipes, y \in Stream!Roles : asleep'[x][y] => asleep[x][y]
    BY <1>17 DEF Greet, TypeOK, Stream!Roles
  <2>2. count' = count /\ flushed' = flushed
    BY <1>17 DEF Greet, Stream!Greet
  <2>3. SleepsBlocked' /\ UpUnflushed'
    BY <2>1, <2>2, BlockedKept DEF UpUnflushed
  <2>4. SleepsInCall' /\ SleepsAlone'
    BY <1>17, <2>1 DEF Greet, SleepsInCall, SleepsAlone, Pipes, Stream!Roles
  <2>5. GoneOK' /\ LeftOK' /\ LinkOK'
    BY <1>17 DEF Greet, GoneOK, LeftOK, LinkOK
  <2> QED BY <2>3, <2>4, <2>5
<1> SUFFICES ASSUME NEW p \in Procs,
                    \/ Copy(p) \/ Kick(p) \/ Look(p) \/ Fail(p) \/ Closed(p)
                    \/ FlushCall(p) \/ Doze(p) \/ Killed(p)
             PROVE  SleepInv'
  BY <1>3, <1>5, <1>15, <1>16, <1>17 DEF Next, Runs
<1>2. Pipe(p) \in Pipes /\ Role(p) \in Stream!Roles
  BY Ends
<1>18. ASSUME Running(p), UNCHANGED <<link, gone>>,
              \A o \in Procs \ {p} : step'[o] = step[o]
       PROVE  LinkOK'
  <2>1. p = "server" => link = "open"
    BY <1>18 DEF LinkOK, Running
  <2> QED BY <1>18, <2>1 DEF LinkOK
<1>6. CASE Killed(p)
  <2>1. p = "server" /\ link = "none" => step["server"] \in {"start", "returned"}
    BY DEF LinkOK
  <2> QED BY <1>4, <1>6, <2>1 DEF Killed
<1>7. CASE Copy(p)
  <2>1. PICK k \in 1 .. left[p] :
          Stream!Move(Pipe(p), Role(p), k) /\ left' = [left EXCEPT ![p] = @ - k]
    BY <1>7 DEF Copy
  <2>2. Awake(p) /\ gone[p] = "no"
    BY <1>7, ActsAwake, ActsAlive DEF Copy, Calling, In
  <2>3. SleepsInCall' /\ SleepsAlone'
    BY <1>7, <2>1, <2>2, SleepersKept DEF Copy, Stream!Move, TypeOK
  <2>4. GoneOK' /\ LeftOK'
    BY <1>7, <2>1, <2>2 DEF Copy, GoneOK, LeftOK, TypeOK
  <2>5. UpUnflushed' /\ LinkOK'
    <3>1. UpUnflushed'
      BY <1>2, <2>1 DEF Stream!Move, UpUnflushed, TypeOK, Pipes, Stream!Roles
    <3>2. LinkOK'
      BY <1>7, <1>18 DEF Copy, Calling, In, TypeOK
    <3> QED BY <3>1, <3>2
  <2>6. SleepsBlocked'
    <3> SUFFICES ASSUME NEW q \in Pipes, NEW r \in Stream!Roles,
                        asleep'[q][r], flushed'[q][Stream!Peer(r)]
                 PROVE  Stream!Blocked(q, r)'
      BY DEF SleepsBlocked
    <3>1. asleep[q][r]
      BY <2>1 DEF Stream!Move
    <3>2. q = Pipe(p) => r # Role(p)
      BY <3>1, <1>7 DEF Copy, Calling
    <3>3. q = Pipe(p) => Stream!Peer(r) = Role(p)
      BY <3>2, <1>2 DEF Stream!Peer, Stream!Roles
    <3>4. q # Pipe(p)
      BY <3>3, <2>1, <1>2 DEF Stream!Move, TypeOK
    <3>5. count'[q] = count[q] /\ flushed'[q] = flushed[q]
      BY <3>4, <2>1, <1>2 DEF Stream!Move, TypeOK
    <3> QED BY <3>1, <3>5 DEF SleepsBlocked, Stream!Blocked
  <2> QED BY <2>3, <2>4, <2>5, <2>6
<1>8. CASE Kick(p)
  <2>1. Awake(p) /\ gone[p] = "no"
    BY <1>8, ActsAwake, ActsAlive DEF Kick, Calling, In
  <2>2. /\ count' = count /\ flushed' = flushed
        /\ \A q \in Pipes, r \in Stream!Roles : asleep'[q][r] => asleep[q][r]
    BY <1>8, WakeShape DEF Kick
  <2>3. /\ \A o \in Procs \ {p} : line'[o] = line[o] /\ step'[o] = step[o] /\ left'[o] = left[o]
        /\ left'[p] > 0
    <3>1. CASE left[p] = 0 /\ Advance(p)
      BY <3>1, <1>1, Advancing
    <3>2. CASE left[p] > 0 /\ step' = [step EXCEPT ![p] = "test"] /\ UNCHANGED <<line, left>>
      BY <3>2 DEF TypeOK
    <3> QED BY <1>8, <3>1, <3>2 DEF Kick
  <2>4. SleepsInCall' /\ SleepsAlone' /\ SleepsBlocked'
    BY <1>8, <2>1, <2>2, <2>3, SleepersKept, BlockedKept DEF Kick
  <2>5. GoneOK' /\ LeftOK' /\ UpUnflushed'
    BY <1>8, <2>1, <2>2, <2>3 DEF Kick, GoneOK, LeftOK, UpUnflushed
  <2>6. LinkOK'
    BY <1>8, <1>18, <2>3 DEF Kick, Calling, In
  <2> QED BY <2>4, <2>5, <2>6
<1>9. CASE Look(p)
  <2>1. Awake(p) /\ gone[p] = "no" /\ step[p] \in {"test", "saw"}
    BY <1>9, ActsAwake, ActsAlive DEF Look, Calling, In, Running, TypeOK
  <2>2. /\ count' = count /\ flushed' = flushed
        /\ \A q \in Pipes, r \in Stream!Roles : asleep'[q][r] => asleep[q][r]
    BY <1>9, WakeShape DEF Look
  <2>3. \A o \in Procs \ {p} : line'[o] = line[o] /\ step'[o] = step[o]
    BY <1>9 DEF Look, TypeOK
  <2>4. SleepsInCall' /\ SleepsAlone' /\ SleepsBlocked'
    BY <1>9, <2>1, <2>2, <2>3, SleepersKept, BlockedKept DEF Look
  <2>5. GoneOK' /\ LeftOK' /\ UpUnflushed'
    BY <1>9, <2>1, <2>2, <2>3 DEF Look, GoneOK, LeftOK, UpUnflushed, TypeOK
  <2>6. LinkOK'
    BY <1>9, <1>18, <2>3 DEF Look, Calling, In
  <2> QED BY <2>4, <2>5, <2>6
<1>10. ASSUME NEW b \in BOOLEAN, Calling(p), StopShort(p, b), UNCHANGED <<streams, link, gone>>
       PROVE  SleepInv'
  <2>1. Awake(p) /\ gone[p] = "no"
    BY <1>10, ActsAwake, ActsAlive DEF Calling, In
  <2>2. /\ \A o \in Procs \ {p} : line'[o] = line[o] /\ step'[o] = step[o] /\ left'[o] = left[o]
        /\ step'[p] = "returned" \/ left'[p] > 0
    <3>1. CASE Advance(p)
      BY <3>1, <1>1, Advancing
    <3>2. CASE step' = [step EXCEPT ![p] = "returned"] /\ UNCHANGED <<line, left>>
      BY <3>2 DEF TypeOK
    <3> QED BY <1>10, <3>1, <3>2, Stopping
  <2>3. SleepsInCall' /\ SleepsAlone' /\ SleepsBlocked'
    BY <1>1, <1>10, <2>1, <2>2, SleepersKept, BlockedKept DEF streams
  <2>4. GoneOK' /\ LeftOK' /\ UpUnflushed'
    BY <1>10, <2>1, <2>2 DEF GoneOK, LeftOK, UpUnflushed, streams
  <2>5. LinkOK'
    BY <1>10, <1>18, <2>2 DEF Calling, In
  <2> QED BY <2>3, <2>4, <2>5
<1>11. CASE Fail(p)
  BY <1>10, <1>11 DEF Fail
<1>12. CASE Closed(p)
  BY <1>10, <1>12 DEF Closed
<1>13. CASE FlushCall(p)
  <2>1. Awake(p) /\ gone[p] = "no" /\ Op(p) = "flush"
    BY <1>13, ActsAwake, ActsAlive DEF FlushCall, In, Op
  <2>2. /\ \A o \in Procs \ {p} : line'[o] = line[o] /\ step'[o] = step[o] /\ left'[o] = left[o]
        /\ left'[p] > 0
    BY <1>13, <1>1, Advancing DEF FlushCall
  <2>3. ~(Pipe(p) = "up" /\ Role(p) = "writer")
    BY <2>1, Where DEF TypeOK
  <2>6. LinkOK'
    BY <1>13, <1>18, <2>2 DEF FlushCall, In
  <2>4. CASE UNCHANGED streams
    <3>1. SleepsInCall' /\ SleepsAlone' /\ SleepsBlocked'
      BY <1>13, <2>1, <2>2, <2>4, SleepersKept, BlockedKept DEF FlushCall, streams
    <3> QED BY <1>13, <2>1, <2>2, <2>4, <2>6, <3>1 DEF FlushCall, GoneOK, LeftOK, UpUnflushed, streams
  <2>5. CASE Stream!Flush(Pipe(p), Role(p))
    <3> DEFINE a == Pipe(p)
               b == Role(p)
    <3> HIDE DEF a, b
    <3>1. /\ a \in Pipes /\ b \in Stream!Roles /\ Stream!Flush(a, b)
          /\ ~(a = "up" /\ b = "writer")
      BY <1>2, <2>3, <2>5 DEF a, b
    <3>2. \A q \in Pipes, r \in Stream!Roles : asleep'[q][r] => asleep[q][r]
      BY <3>1 DEF Stream!Flush, Stream!WakePeer, TypeOK, Stream!Peer, Stream!Roles
    <3>3. SleepsInCall' /\ SleepsAlone'
      BY <1>13, <2>1, <2>2, <3>2, SleepersKept DEF FlushCall
    <3>4. UpUnflushed'
      BY <3>1 DEF Stream!Flush, UpUnflushed, TypeOK, Pipes, Stream!Roles
    <3>5. SleepsBlocked'
      <4> SUFFICES ASSUME NEW q \in Pipes, NEW r \in Stream!Roles,
                          asleep'[q][r], flushed'[q][Stream!Peer(r)]
                   PROVE  Stream!Blocked(q, r)'
        BY DEF SleepsBlocked
      <4>1. asleep[q][r] /\ count' = count
        BY <3>1, <3>2 DEF Stream!Flush
      <4>2. ~(q = a /\ r = Stream!Peer(b))
        <5> SUFFICES ASSUME q = a, r = Stream!Peer(b) PROVE FALSE
          OBVIOUS
        <5>1. Stream!Peer(r) = b
          BY <3>1 DEF Stream!Peer, Stream!Roles
        <5>2. flushed'[a][b] = greeted[a][Stream!Peer(b)]
          BY <3>1 DEF Stream!Flush, TypeOK
        <5>3. asleep' = [asleep EXCEPT ![a][Stream!Peer(b)] = FALSE]
          BY <3>1, <5>1, <5>2 DEF Stream!Flush, Stream!WakePeer
        <5> QED BY <3>1, <5>3 DEF TypeOK
      <4>3. Stream!Peer(r) \in Stream!Roles /\ ~(q = a /\ Stream!Peer(r) = b)
        BY <3>1, <4>2 DEF Stream!Peer, Stream!Roles
      <4>4. flushed[q][Stream!Peer(r)]
        BY <3>1, <4>3 DEF Stream!Flush, TypeOK
      <4> QED BY <4>1, <4>4 DEF SleepsBlocked, Stream!Blocked
    <3> QED BY <1>13, <2>1, <2>2, <2>6, <3>3, <3>4, <3>5 DEF FlushCall, GoneOK, LeftOK
  <2> QED BY <1>13, <2>4, <2>5 DEF FlushCall
<1>14. CASE Doze(p)
  <2> DEFINE a == Pipe(p)
             b == Role(p)
  <2>1. Awake(p) /\ gone[p] = "no"
    BY <1>14, ActsAwake, ActsAlive DEF Doze, Calling, In
  <2>2. LinkOK'
    BY <1>14, <1>18 DEF Doze, Calling, In, TypeOK
  <2>3. /\ p = "client" /\ a = "up" => line[p] = 1
        /\ p = "client" /\ a = "down" => line[p] = 3 /\ pairing = "ping"
        /\ p = "server" /\ a = "up" => line[p] = 1
        /\ p = "server" /\ a = "down" => line[p] = 3 /\ pairing = "ping"
    BY <1>14, CallLines DEF Doze, Calling
  <2>4. /\ p = "client" => (a = "up" /\ b = "writer") \/ (a = "down" /\ b = "reader")
        /\ p = "server" => (a = "up" /\ b = "reader") \/ (a = "down" /\ b = "writer")
    BY EndsOf
  <2>5. a \in Pipes /\ b \in Stream!Roles /\ Stream!Doze(a, b)
    BY <1>2, <1>14 DEF Doze
  <2> HIDE DEF a, b
  <2>6. /\ count' = count /\ flushed' = flushed /\ asleep'[a][b]
        /\ \A q \in Pipes, r \in Stream!Roles :
             (q # a \/ r # b) => asleep'[q][r] = asleep[q][r]
        /\ ~asleep[a][Stream!Peer(b)]
        /\ flushed[a][Stream!Peer(b)] => Stream!Blocked(a, b)
    BY <2>5 DEF Stream!Doze, TypeOK
  <2>7. /\ step'[p] = "test" /\ UNCHANGED <<pairing, line, left, gone>>
        /\ \A o \in Procs \ {p} : step'[o] = step[o]
    BY <1>14 DEF Doze, TypeOK
  <2>8. SleepsAlone'
    BY <2>5, <2>6 DEF SleepsAlone, Stream!Peer, Stream!Roles, Pipes
  <2>9. SleepsBlocked'
    BY <2>5, <2>6 DEF SleepsBlocked, Stream!Blocked
  <2>10. SleepsInCall'
    <3>1. CASE p = "client"
      BY <3>1, <2>3, <2>4, <2>6, <2>7 DEF SleepsInCall, Pipes, Stream!Roles
    <3>2. CASE p = "server"
      BY <3>2, <2>3, <2>4, <2>6, <2>7 DEF SleepsInCall, Pipes, Stream!Roles
    <3> QED BY <3>1, <3>2
  <2>11. left[p] > 0
    BY <1>14 DEF Doze, LeftOK
  <2> QED BY <2>1, <2>2, <2>6, <2>7, <2>8, <2>9, <2>10, <2>11 DEF GoneOK, LeftOK, UpUnflushed
<1> QED BY <1>6, <1>7, <1>8, <1>9, <1>11, <1>12, <1>13, <1>14

-----------------------------------------------------------------------------
(* The values a round is about are natural numbers. *)
LEMMA Numbers ==
  ASSUME TypeOK
  PROVE  /\ line["client"] \in Nat /\ line["server"] \in Nat
         /\ left["client"] \in Nat /\ left["server"] \in Nat
         /\ size["client"] \in Nat /\ size["server"] \in Nat
         /\ size["client"] > 0 /\ size["server"] > 0
         /\ left["client"] <= size["client"] /\ left["server"] <= size["server"]
         /\ count["up"] \in Nat /\ count["down"] \in Nat
<1>1. size["client"] \in Nat /\ size["server"] \in Nat /\ size["client"] > 0 /\ size["server"] > 0
  BY SizesPositive DEF Procs
<1>2. left["client"] \in 0 .. size["client"] /\ left["server"] \in 0 .. size["server"]
  BY DEF TypeOK, Procs
<1>3. count["up"] \in 0 .. Capacity /\ count["down"] \in 0 .. Capacity /\ Capacity \in Nat
  BY HandlersAssumption DEF TypeOK, Pipes
<1> QED BY <1>1, <1>2, <1>3 DEF TypeOK, Procs

LEMMA SamePhase ==
  ASSUME Phase, UNCHANGED <<count, size, line, left>>,
         Tried => Tried'
  PROVE  Phase'
BY DEF Phase, Requesting, Requested, Answering, Answered, Flushed, Ahead, Between,
       FullWhile, Asked, Unwritten, Unread

(* A copy moves k bytes between a call and a pipe. *)
LEMMA CopyMoves ==
  ASSUME TypeOK, pairing = "ping", NEW p \in Procs, Copy(p)
  PROVE  \E k \in Nat \ {0} :
           /\ k <= left[p] /\ left'[p] = left[p] - k
           /\ \A o \in Procs \ {p} : left'[o] = left[o]
           /\ p = "client" /\ line[p] = 1 =>
                /\ count'["up"] = count["up"] + k /\ count'["down"] = count["down"]
                /\ Tried => Tried'
           /\ p = "client" /\ line[p] = 3 =>
                /\ k <= count["down"] /\ count'["down"] = count["down"] - k
                /\ count'["up"] = count["up"]
                /\ Tried => Tried'
           /\ p = "server" /\ line[p] = 1 =>
                /\ k <= count["up"] /\ count'["up"] = count["up"] - k
                /\ count'["down"] = count["down"]
                /\ Tried => Tried'
           /\ p = "server" /\ line[p] = 3 =>
                /\ count'["down"] = count["down"] + k /\ count'["up"] = count["up"]
           /\ line[p] \in {1, 3}
<1>1. PICK k \in 1 .. left[p] :
        Stream!Move(Pipe(p), Role(p), k) /\ left' = [left EXCEPT ![p] = @ - k]
  BY DEF Copy
<1>2. left[p] \in Nat
  BY Numbers DEF Procs
<1>3. k \in Nat \ {0} /\ k <= left[p]
  BY <1>1, <1>2
<1>4. left'[p] = left[p] - k /\ \A o \in Procs \ {p} : left'[o] = left[o]
  BY <1>1 DEF TypeOK
<1>5. line[p] \in {1, 3}
  BY CallLines, EndsOf DEF Copy, Calling, Procs
<1>6. p = "client" /\ line[p] = 1 =>
        /\ count'["up"] = count["up"] + k /\ count'["down"] = count["down"]
        /\ Tried => Tried'
  <2> HAVE p = "client" /\ line[p] = 1
  <2>1. Stream!Move("up", "writer", k) BY <1>1, Where
  <2>3. merged' = [merged EXCEPT !["up"]["writer"] = FALSE]
    BY Where DEF Copy
  <2>4. Tried => Tried'
    BY <2>1, <2>3 DEF Tried, Stream!Move, TypeOK, Pipes, Stream!Roles
  <2> QED BY <2>1, <2>4 DEF Stream!Move, TypeOK, Pipes, Stream!Roles
<1>7. p = "client" /\ line[p] = 3 =>
        /\ k <= count["down"] /\ count'["down"] = count["down"] - k
        /\ count'["up"] = count["up"]
        /\ Tried => Tried'
  <2> HAVE p = "client" /\ line[p] = 3
  <2>1. Stream!Move("down", "reader", k) BY <1>1, Where
  <2>2. k <= count["down"]
    BY <2>1, <1>3, Numbers DEF Stream!Move, Stream!Room
  <2>3. merged' = [merged EXCEPT !["down"]["reader"] = FALSE]
    BY Where DEF Copy
  <2>4. Tried => Tried'
    BY <2>1, <2>3 DEF Tried, Stream!Move, TypeOK, Pipes, Stream!Roles
  <2> QED BY <2>1, <2>4, <2>2 DEF Stream!Move, TypeOK, Pipes, Stream!Roles
<1>8. p = "server" /\ line[p] = 1 =>
        /\ k <= count["up"] /\ count'["up"] = count["up"] - k
        /\ count'["down"] = count["down"]
        /\ Tried => Tried'
  <2> HAVE p = "server" /\ line[p] = 1
  <2>1. Stream!Move("up", "reader", k) BY <1>1, Where
  <2>2. k <= count["up"]
    BY <2>1, <1>3, Numbers DEF Stream!Move, Stream!Room
  <2>3. merged' = [merged EXCEPT !["up"]["reader"] = FALSE]
    BY Where DEF Copy
  <2>4. Tried => Tried'
    BY <2>1, <2>3 DEF Tried, Stream!Move, TypeOK, Pipes, Stream!Roles
  <2> QED BY <2>1, <2>4, <2>2 DEF Stream!Move, TypeOK, Pipes, Stream!Roles
<1>9. p = "server" /\ line[p] = 3 =>
        /\ count'["down"] = count["down"] + k /\ count'["up"] = count["up"]
  <2> HAVE p = "server" /\ line[p] = 3
  <2>1. Stream!Move("down", "writer", k) BY <1>1, Where
  <2> QED BY <2>1 DEF Stream!Move, TypeOK, Pipes, Stream!Roles
<1> QED BY <1>3, <1>4, <1>5, <1>6, <1>7, <1>8, <1>9

LEMMA CopyPhase ==
  ASSUME TypeOK, pairing = "ping", size["client"] = size["server"], Phase,
         NEW p \in Procs, Copy(p)
  PROVE  Phase'
<1> USE Numbers
<1>1. line' = line /\ size' = size
  BY DEF Copy
<1>2. PICK k \in Nat \ {0} :
        /\ k <= left[p] /\ left'[p] = left[p] - k
        /\ \A o \in Procs \ {p} : left'[o] = left[o]
        /\ p = "client" /\ line[p] = 1 =>
             /\ count'["up"] = count["up"] + k /\ count'["down"] = count["down"]
             /\ Tried => Tried'
        /\ p = "client" /\ line[p] = 3 =>
             /\ k <= count["down"] /\ count'["down"] = count["down"] - k
             /\ count'["up"] = count["up"]
             /\ Tried => Tried'
        /\ p = "server" /\ line[p] = 1 =>
             /\ k <= count["up"] /\ count'["up"] = count["up"] - k
             /\ count'["down"] = count["down"]
             /\ Tried => Tried'
        /\ p = "server" /\ line[p] = 3 =>
             /\ count'["down"] = count["down"] + k /\ count'["up"] = count["up"]
        /\ line[p] \in {1, 3}
  BY CopyMoves
<1>3. CASE p = "client" /\ line[p] = 1
  <2>1. left'["server"] = left["server"] BY <1>2, <1>3 DEF Procs
  <2>2. Requesting \/ Ahead
    BY <1>2, <1>3 DEF Phase, Requested, Answering, Answered, Flushed, Between, Asked
  <2>3. CASE Requesting
    BY <1>1, <1>2, <1>3, <2>1, <2>3 DEF Phase, Requesting, FullWhile, Unwritten
  <2>4. CASE Ahead
    BY <1>1, <1>2, <1>3, <2>1, <2>4 DEF Phase, Ahead, FullWhile, Unwritten
  <2> QED BY <2>2, <2>3, <2>4
<1>4. CASE p = "client" /\ line[p] = 3
  <2>1. left'["server"] = left["server"] BY <1>2, <1>4 DEF Procs
  <2>2. Answering \/ Answered \/ Flushed
    BY <1>2, <1>4 DEF Phase, Requesting, Requested, Ahead, Between
  <2>3. CASE Answering
    BY <1>1, <1>2, <1>4, <2>1, <2>3 DEF Phase, Answering, Asked, Unread
  <2>4. CASE Answered
    BY <1>1, <1>2, <1>4, <2>1, <2>4 DEF Phase, Answered, Asked, Unread
  <2>5. CASE Flushed
    BY <1>1, <1>2, <1>4, <2>1, <2>5 DEF Phase, Flushed, Asked, Unread
  <2> QED BY <2>2, <2>3, <2>4, <2>5
<1>5. CASE p = "server" /\ line[p] = 1
  <2>1. left'["client"] = left["client"] BY <1>2, <1>5 DEF Procs
  <2>2. Requesting
    BY <1>2, <1>5 DEF Phase, Requested, Answering, Answered, Flushed, Ahead, Between
  <2> QED BY <1>1, <1>2, <1>5, <2>1, <2>2 DEF Phase, Requesting, FullWhile, Unwritten
<1>6. CASE p = "server" /\ line[p] = 3
  <2>1. left'["client"] = left["client"] BY <1>2, <1>6 DEF Procs
  <2>2. Answering
    BY <1>2, <1>6 DEF Phase, Requesting, Requested, Answered, Flushed, Ahead, Between
  <2> QED BY <1>1, <1>2, <1>6, <2>1, <2>2 DEF Phase, Answering, Asked, Unread
<1> QED BY <1>2, <1>3, <1>4, <1>5, <1>6 DEF Procs

(* A call that has moved its packet, or a flush, ends. *)
LEMMA AdvancePhase ==
  ASSUME TypeOK, pairing = "ping", size["client"] = size["server"], Phase,
         NEW p \in Procs, Advance(p), UNCHANGED <<count, size>>,
         line[p] \in {1, 3} => left[p] = 0,
         p = "server" /\ line[p] = 4 => Tried',
         ~(p = "server" /\ line[p] = 4) => (Tried => Tried')
  PROVE  Phase'
<1> USE Numbers
<1>1. Len(Handler(p)) = 4 /\ line[p] \in {1, 2, 3, 4}
  <2>1. line[p] \in 1 .. 4 /\ Len(Handler(p)) = 4
    BY Where DEF Procs
  <2> QED BY <2>1
<1>2. /\ line'[p] = (IF line[p] = 4 THEN 1 ELSE line[p] + 1) /\ left'[p] = size[p]
      /\ \A o \in Procs \ {p} : line'[o] = line[o] /\ left'[o] = left[o]
  <2>1. line'[p] = IF line[p] = Len(Handler(p)) THEN 1 ELSE line[p] + 1
    BY Advancing
  <2>2. left'[p] = size[p]
    BY Advancing
  <2>3. \A o \in Procs \ {p} : line'[o] = line[o] /\ left'[o] = left[o]
    BY Advancing
  <2> QED BY <1>1, <2>1, <2>2, <2>3
<1>3. CASE p = "client"
  <2>0. line'["server"] = line["server"] /\ left'["server"] = left["server"]
    BY <1>2, <1>3 DEF Procs
  <2>1. CASE Requesting
    BY <1>1, <1>2, <1>3, <2>0, <2>1 DEF Phase, Requesting, FullWhile, Unwritten
  <2>2. CASE Requested
    BY <1>1, <1>2, <1>3, <2>0, <2>2 DEF Phase, Requested, FullWhile, Asked
  <2>3. CASE Answering
    BY <1>1, <1>2, <1>3, <2>0, <2>3 DEF Phase, Answering, Ahead, FullWhile, Asked, Unread, Unwritten
  <2>4. CASE Answered
    BY <1>1, <1>2, <1>3, <2>0, <2>4 DEF Phase, Answered, Ahead, FullWhile, Asked, Unread, Unwritten
  <2>5. CASE Flushed
    <3>1. Tried'
      BY <1>3, <2>5 DEF Flushed
    <3>2. CASE line["client"] = 3
      BY <1>2, <1>3, <2>0, <2>5, <3>2 DEF Phase, Flushed, Between, Unread
    <3>3. CASE line["client"] # 3
      <4>1. Flushed'
        BY <1>2, <1>3, <2>0, <2>5, <3>1, <3>3 DEF Flushed, Asked, Unread
      <4> QED BY <4>1 DEF Phase
    <3> QED BY <3>2, <3>3
  <2>6. CASE Ahead
    BY <1>1, <1>2, <1>3, <2>0, <2>6 DEF Phase, Ahead, FullWhile, Unwritten
  <2>7. CASE Between
    BY <1>1, <1>2, <1>3, <2>0, <2>7 DEF Phase, Between, Requesting, FullWhile, Unwritten
  <2> QED BY <2>1, <2>2, <2>3, <2>4, <2>5, <2>6, <2>7 DEF Phase
<1>4. CASE p = "server"
  <2>0. line'["client"] = line["client"] /\ left'["client"] = left["client"]
    BY <1>2, <1>4 DEF Procs
  <2>1. CASE Requesting
    BY <1>1, <1>2, <1>4, <2>0, <2>1 DEF Phase, Requesting, Requested, Asked, FullWhile, Unwritten
  <2>2. CASE Requested
    BY <1>1, <1>2, <1>4, <2>0, <2>2 DEF Phase, Requested, Answering, FullWhile, Asked, Unread
  <2>3. CASE Answering
    BY <1>1, <1>2, <1>4, <2>0, <2>3 DEF Phase, Answering, Answered, Asked, Unread
  <2>4. CASE Answered
    BY <1>1, <1>2, <1>4, <2>0, <2>4 DEF Phase, Answered, Flushed, Asked, Unread
  <2>5. CASE Flushed
    BY <1>1, <1>2, <1>4, <2>0, <2>5 DEF Phase, Flushed
  <2>6. CASE Ahead
    <3>1. CASE line["server"] = 3
      BY <1>1, <1>2, <1>4, <2>0, <2>6, <3>1 DEF Phase, Ahead, FullWhile, Unwritten
    <3>2. CASE line["server"] = 4
      <4>1. CASE line["client"] = 4
        BY <1>1, <1>2, <1>4, <2>0, <2>6, <3>2, <4>1 DEF Phase, Ahead, Between
      <4>2. CASE line["client"] # 4
        <5>1. line["client"] \in {1, 2, 3}
          <6>1. line["client"] \in 1 .. 4 BY Where
          <6> QED BY <4>2, <6>1
        <5> QED BY <1>1, <1>2, <1>4, <2>0, <2>6, <3>2, <4>2, <5>1
                DEF Phase, Ahead, Requesting, FullWhile, Unwritten
      <4> QED BY <4>1, <4>2
    <3> QED BY <2>6, <3>1, <3>2 DEF Ahead
  <2>7. CASE Between
    BY <1>1, <1>2, <1>4, <2>0, <2>7 DEF Phase, Between
  <2> QED BY <2>1, <2>2, <2>3, <2>4, <2>5, <2>6, <2>7 DEF Phase
<1> QED BY <1>3, <1>4 DEF Procs

(* While both processes are there, both are seen to be. *)
LEMMA SeenAlive ==
  ASSUME TypeOK, LinkOK, Alive, NEW p \in Procs
  PROVE  Seen(p) = "no"
<1>1. gone[Other(p)] = "no"
  BY DEF Alive, Other, Procs
<1>2. link \in {"none", "open"} /\ Pipe(p) \in {"up", "down"}
  BY Ends DEF LinkOK, Alive, TypeOK, Pipes
<1> QED BY <1>1, <1>2 DEF Seen

LEMMA PingStep ==
  ASSUME TypeOK, SleepInv, PingOK, [Next]_vars
  PROVE  PingOK'
<1> USE DEF Procs
<1>0. CASE UNCHANGED vars
  BY <1>0, SamePhase DEF vars, streams, PingOK, Phase, Alive, Tried
<1> SUFFICES ASSUME Next, pairing' = "ping", Alive'
             PROVE  size'["client"] = size'["server"] /\ Phase'
  BY <1>0 DEF PingOK, Phase
<1>1. pairing = "ping" /\ size' = size
  BY PairingKept
<1>2. ~ClientThreadFails /\ ~ServerRefuses /\ \A p \in Procs : ~Killed(p)
  BY DEF Killed, ClientThreadFails, ServerRefuses, Leaves, Alive, TypeOK
<1>3. gone' = gone /\ Alive
  BY <1>2 DEF Next, Runs, ClientStart, ServerStart, Greet, Copy, Kick, Look, Fail, Closed,
              FlushCall, Doze, Alive
<1>4. size["client"] = size["server"] /\ Phase
  BY <1>1, <1>3 DEF PingOK, Phase
<1>5. SUFFICES Phase'
  BY <1>1, <1>4
<1>6. \A p \in Procs : ~Fail(p) /\ ~Closed(p)
  BY <1>3, SeenAlive DEF Fail, Closed, SleepInv
<1>7. CASE ClientStart
  BY <1>4, <1>7, SamePhase DEF ClientStart, streams, Tried
<1>13. CASE ServerStart
  BY <1>4, <1>13, SamePhase DEF ServerStart, streams, Tried
<1>14. ASSUME NEW q \in Pipes, NEW r \in Stream!Roles, Greet(q, r)
       PROVE  Phase'
  BY <1>4, <1>14, SamePhase DEF Greet, Stream!Greet, Tried
<1> SUFFICES ASSUME NEW p \in Procs, Copy(p) \/ Kick(p) \/ Look(p) \/ FlushCall(p) \/ Doze(p)
             PROVE  Phase'
  BY <1>2, <1>6, <1>7, <1>13, <1>14 DEF Next, Runs
<1>8. CASE Copy(p)
  BY <1>1, <1>4, <1>8, CopyPhase
<1>9. CASE Kick(p)
  <2>1. count' = count /\ flushed' = flushed
    BY <1>9, WakeShape DEF Kick
  <2>2. Tried => Tried'
    BY <1>9, <2>1 DEF Kick, Tried
  <2>3. CASE left[p] = 0 /\ Advance(p)
    <3>1. ~(p = "server" /\ line[p] = 4)
      BY <1>9, CallLines, EndsOf DEF Kick, Calling
    <3> QED BY <1>1, <1>4, <2>1, <2>2, <2>3, <3>1, AdvancePhase
  <2>4. CASE UNCHANGED <<line, left>>
    BY <1>1, <1>4, <2>1, <2>2, <2>4, SamePhase
  <2> QED BY <1>9, <2>3, <2>4 DEF Kick
<1>10. CASE Look(p)
  BY <1>1, <1>4, <1>10, WakeShape, SamePhase DEF Look, Tried
<1>11. CASE Doze(p)
  BY <1>1, <1>4, <1>11, SamePhase DEF Doze, Stream!Doze, Tried
<1>12. CASE FlushCall(p)
  <2>1. Op(p) = "flush"
    BY <1>12 DEF FlushCall, In, Op
  <2>2. line[p] \notin {1, 3}
    BY <1>1, <2>1, Where
  <2>3. /\ Stream!Flush(Pipe(p), Role(p)) /\ Advance(p)
        /\ merged' = [merged EXCEPT ![Pipe(p)][Role(p)] = ~greeted[Pipe(p)][Stream!Peer(Role(p))]]
    BY <1>3, <1>12, SeenAlive DEF FlushCall, SleepInv
  <2>4. count' = count
    BY <2>3 DEF Stream!Flush
  <2>5. line[p] \in {2, 4}
    <3>1. line[p] \in 1 .. 4 BY <1>1, Where
    <3> QED BY <2>2, <3>1
  <2>6. CASE p = "server" /\ line[p] = 4
    <3>1. /\ Stream!Flush("down", "writer")
          /\ merged' = [merged EXCEPT !["down"]["writer"] = ~greeted["down"][Stream!Peer("writer")]]
      BY <1>1, <2>3, <2>6, Where
    <3>2. flushed'["down"]["writer"] = greeted["down"][Stream!Peer("writer")]
      BY <3>1 DEF Stream!Flush, TypeOK, Pipes, Stream!Roles
    <3>3. merged'["down"]["writer"] = ~greeted["down"][Stream!Peer("writer")]
      BY <3>1 DEF TypeOK, Pipes, Stream!Roles
    <3>4. Tried'
      BY <3>2, <3>3 DEF Tried
    <3> QED BY <1>1, <1>4, <2>2, <2>3, <2>4, <2>6, <3>4, AdvancePhase
  <2>7. CASE ~(p = "server" /\ line[p] = 4)
    <3>1. Role(p) = "reader" /\ Pipe(p) \in Pipes
      BY <1>1, <2>5, <2>7, Where DEF Pipes
    <3>2. flushed'["down"]["writer"] = flushed["down"]["writer"]
      BY <2>3, <3>1 DEF Stream!Flush, TypeOK, Pipes, Stream!Roles
    <3>3. merged'["down"]["writer"] = merged["down"]["writer"]
      BY <2>3, <3>1 DEF TypeOK, Pipes, Stream!Roles
    <3>4. Tried => Tried'
      BY <3>2, <3>3 DEF Tried
    <3> QED BY <1>1, <1>4, <2>2, <2>3, <2>4, <2>7, <3>4, AdvancePhase
  <2> QED BY <2>6, <2>7
<1> QED BY <1>8, <1>9, <1>10, <1>11, <1>12

-----------------------------------------------------------------------------
LEMMA InitInv == Init => HandlersInv
<1> SUFFICES ASSUME Init PROVE HandlersInv
  OBVIOUS
<1> USE DEF Procs, Pipes, Stream!Roles
<1>1. \A p \in Procs : size[p] \in Nat /\ size[p] > 0
  <2> SUFFICES ASSUME NEW p \in Procs PROVE size[p] \in Nat \ {0}
    OBVIOUS
  <2>1. size[p] \in PacketSizes BY DEF Init
  <2> QED BY <2>1, HandlersAssumption
<1>2. \A p \in Procs : Len(Handler(p)) \in {1, 4}
  <2>1. Len(ping_client) = 4 /\ Len(ping_server) = 4 /\ Len(sender) = 1 /\ Len(receiver) = 1
    BY DEF ping_client, ping_server, sender, receiver
  <2> QED BY <2>1 DEF Init, Handler
<1>3. TypeOK
  <2>1. count \in [Pipes -> 0 .. Capacity]
    BY HandlersAssumption DEF Init, Stream!Init
  <2>2. /\ asleep \in [Pipes -> [Stream!Roles -> BOOLEAN]]
        /\ flushed \in [Pipes -> [Stream!Roles -> BOOLEAN]]
        /\ greeted \in [Pipes -> [Stream!Roles -> BOOLEAN]]
        /\ merged \in [Pipes -> [Stream!Roles -> BOOLEAN]]
    BY DEF Init, Stream!Init
  <2>3. \A p \in Procs : line[p] \in 1 .. Len(Handler(p)) /\ left[p] \in 0 .. size[p]
    <3> SUFFICES ASSUME NEW p \in Procs
                 PROVE  line[p] \in 1 .. Len(Handler(p)) /\ left[p] \in 0 .. size[p]
      OBVIOUS
    <3>1. line[p] = 1 /\ left[p] = size[p]
      BY DEF Init
    <3>2. 1 \in 1 .. Len(Handler(p))
      BY <1>2
    <3>3. size[p] \in 0 .. size[p]
      BY <1>1
    <3> QED BY <3>1, <3>2, <3>3
  <2>4. line \in [Procs -> Nat] /\ left \in [Procs -> Nat]
    BY <1>1 DEF Init
  <2> QED BY <2>1, <2>2, <2>3, <2>4 DEF Init, TypeOK
<1>4. \A q \in Pipes, r \in Stream!Roles : ~asleep[q][r] /\ ~flushed[q][r]
  BY DEF Init, Stream!Init
<1>5. GoneOK /\ LinkOK /\ SleepsInCall /\ SleepsAlone /\ SleepsBlocked /\ UpUnflushed
  BY <1>4 DEF Init, GoneOK, LinkOK, SleepsInCall, SleepsAlone, SleepsBlocked, UpUnflushed
<1>6. LeftOK
  BY <1>1 DEF Init, LeftOK
<1>7. PingOK
  BY <1>1 DEF Init, Stream!Init, PingOK, Phase, Requesting, FullWhile, Unwritten
<1> QED BY <1>3, <1>5, <1>6, <1>7 DEF HandlersInv

(* The invariant is inductive. *)
LEMMA Invariance == Spec => []HandlersInv
<1>1. HandlersInv /\ [Next]_vars => HandlersInv'
  BY TypeStep, SleepStep, PingStep DEF HandlersInv, SleepInv
<1> QED BY InitInv, <1>1, PTL DEF Spec

(***************************************************************************)
(* The handlers stay in their loops and no call moves more than its packet.*)
(***************************************************************************)
THEOREM TypeCorrect == Spec => []TypeOK
<1>1. HandlersInv => TypeOK
  BY DEF HandlersInv
<1> QED BY Invariance, <1>1, PTL

(***************************************************************************)
(* For every capacity and all packet sizes, and whenever the initial       *)
(* signals come, both processes sleep only beside a request that the ping  *)
(* client wrote and did not flush, or beside an answer whose flush merged  *)
(* with the client's initial signal: a ping stops for no other reason, a   *)
(* transfer for none.                                                      *)
(***************************************************************************)
THEOREM StallsOnlyUnflushed == Spec => []StallOnlyUnflushed
<1>1. HandlersInv => StallOnlyUnflushed
  <2> SUFFICES ASSUME HandlersInv, \A p \in Procs : Asleep(p)
               PROVE  /\ pairing = "ping"
                      /\ In("client", "read_all") /\ In("server", "read_all")
                      /\ \/ count["up"] > 0 /\ ~flushed["up"]["writer"]
                         \/ count["down"] > 0 /\ merged["down"]["writer"]
    BY DEF StallOnlyUnflushed
  <2> USE DEF HandlersInv, Procs
  <2> USE Numbers
  <2>1. /\ asleep[Pipe("client")][Role("client")] /\ asleep[Pipe("server")][Role("server")]
        /\ Running("client") /\ Running("server")
    BY DEF Asleep
  <2>2. Alive
    BY <2>1, ActsAlive DEF Alive
  <2>3. /\ Pipe("client") = "down" /\ Role("client") = "reader" /\ asleep["down"]["reader"]
        /\ Pipe("server") = "up" /\ Role("server") = "reader" /\ asleep["up"]["reader"]
        \/ /\ asleep["up"]["writer"] /\ asleep["down"]["writer"]
    BY <2>1, EndsOf DEF SleepsAlone, Pipes
  <2>4. CASE asleep["up"]["writer"] /\ asleep["down"]["writer"]
    <3>1. /\ pairing = "ping" /\ line["client"] = 1 /\ line["server"] = 3
          /\ left["client"] > 0 /\ left["server"] > 0
      BY <2>4 DEF SleepsInCall, LeftOK
    <3> QED BY <2>2, <3>1 DEF PingOK, Phase, Requesting, Requested, Answering, Answered, Flushed,
                              Ahead, Between, Asked
  <2>5. CASE asleep["down"]["reader"] /\ asleep["up"]["reader"]
    <3>1. /\ pairing = "ping" /\ line["client"] = 3 /\ line["server"] = 1
          /\ left["client"] > 0 /\ left["server"] > 0
      BY <2>5 DEF SleepsInCall, LeftOK
    <3>2. Flushed => count["down"] > 0 /\ merged["down"]["writer"]
      <4> SUFFICES ASSUME Flushed PROVE count["down"] > 0 /\ merged["down"]["writer"]
        OBVIOUS
      <4>1. count["down"] > 0
        BY <3>1 DEF Flushed, Unread
      <4>2. ~flushed["down"]["writer"]
        BY <2>5, <4>1 DEF SleepsBlocked, Stream!Blocked, Stream!Peer, Pipes, Stream!Roles
      <4> QED BY <4>1, <4>2 DEF Flushed, Tried
    <3>3. ~Flushed => count["up"] > 0
      BY <2>2, <3>1 DEF PingOK, Phase, Requesting, Requested, Answering, Answered,
                        Ahead, Between, Unwritten
    <3>4. Op("client") = "read_all" /\ Op("server") = "read_all"
      BY <3>1, Where
    <3> QED BY <2>1, <3>1, <3>2, <3>3, <3>4 DEF In, Op, UpUnflushed
  <2> QED BY <2>3, <2>4, <2>5
<1> QED BY Invariance, <1>1, PTL
=============================================================================
