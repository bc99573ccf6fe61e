--------------------------- MODULE XenShmRingProofs ---------------------------
(***************************************************************************)
(* Proofs about XenShmRing, for every size of the buffer, every check      *)
(* interval and every length of the stream: the reader gets the writer's   *)
(* bytes in order.                                                         *)
(*                                                                         *)
(* The argument is about distances around the buffer.  Going round it from *)
(* the published read position one meets, in this order, the reader's own  *)
(* position, the published write position and the writer's own position,   *)
(* and at least one free slot remains.                                     *)
(***************************************************************************)
EXTENDS XenShmRing, TLAPS

Slots == 0 .. BufferSize - 1
Wrap(i) == IF i = BufferSize THEN 0 ELSE i
Dist(a, b) == IF a <= b THEN b - a ELSE b - a + BufferSize

(* The two private positions, as places in the buffer. *)
Place(p) == Wrap(own[p])
Rd == Place("reader")
Wr == Place("writer")

Unfreed == Dist(pos["reader"], Rd)     \* read, not yet given back
Readable == Dist(Rd, pos["writer"])    \* published, not yet read
Unpublished == Dist(pos["writer"], Wr) \* written, not yet published
Used == Unfreed + Readable + Unpublished

(* How many bytes a role may move before it takes news of the other. *)
Room(p) == IF p = "reader" THEN Readable ELSE BufferSize - 1 - Used

InLoop(p) == at[p] \in {"gran", "copy", "refresh", "publish"}

(* The four positions are in order and leave a slot free. *)
Ordered == Used <= BufferSize - 1

(* The buffer holds exactly the bytes written and not read. *)
Counted == Readable + Unpublished = sent - Len(rcvd)
Held ==
  \A k \in Slots :
    Dist(Rd, k) < sent - Len(rcvd) => buffer[k] = Len(rcvd) + Dist(Rd, k) + 1

(* A limit loaded earlier is never further than a fresh one. *)
LimitsOK ==
  \A p \in Roles :
    at[p] \in {"gran", "copy", "publish"} => Dist(Place(p), lim[p]) <= Room(p)

(* The thresholds of the loops. *)
LoopOK(p) ==
  /\ at[p] \in {"out", "gran", "tail"} => own[p] = pos[p]
  /\ at[p] = "publish" => own[p] < BufferSize
  /\ at[p] = "gran" => cur[p] = 0
  /\ InLoop(p) => cur[p] <= usr[p]
  /\ at[p] \in {"refresh", "publish"} => cur[p] <= gran[p]
  /\ at[p] = "copy" =>
       /\ cur[p] <= top[p] /\ top[p] <= usr[p] /\ top[p] <= gran[p]
       /\ own[p] + (top[p] - cur[p]) <= BufferSize
       /\ top[p] - cur[p] <= Dist(Place(p), lim[p])

CopyOK == \A p \in Roles : LoopOK(p)

(* What the writer has still to write fits in the stream. *)
RoomOK == InLoop("writer") => sent + (usr["writer"] - cur["writer"]) <= MaxBytes

RingInv ==
  /\ TypeOK /\ Ordered /\ Counted /\ Held
  /\ LimitsOK /\ CopyOK /\ RoomOK
  /\ DeliveredInOrder

-----------------------------------------------------------------------------
(* Distances around the buffer. *)
LEMMA DistRange ==
  \A a, b \in Slots : Dist(a, b) \in Slots
BY RingAssumption DEF Slots, Dist

LEMMA DistSelf ==
  \A a \in Slots : Dist(a, a) = 0
BY RingAssumption DEF Slots, Dist

(* One step of the first position shortens the distance, ... *)
LEMMA DistFirst ==
  \A a, b \in Slots :
    /\ a + 1 \in 0 .. BufferSize /\ Wrap(a + 1) \in Slots
    /\ Dist(a, b) >= 1 => Dist(Wrap(a + 1), b) = Dist(a, b) - 1
BY RingAssumption DEF Slots, Dist, Wrap

(* ... one of the second lengthens it. *)
LEMMA DistSecond ==
  \A a, b \in Slots :
    Dist(a, b) < BufferSize - 1 => Dist(a, Wrap(b + 1)) = Dist(a, b) + 1
BY RingAssumption DEF Slots, Dist, Wrap

LEMMA DistAdd ==
  \A a, b, c \in Slots :
    Dist(a, b) + Dist(b, c) <= BufferSize - 1 => Dist(a, c) = Dist(a, b) + Dist(b, c)
BY RingAssumption DEF Slots, Dist

LEMMA DistInjective ==
  \A a, b, c \in Slots : Dist(a, b) = Dist(a, c) => b = c
BY RingAssumption DEF Slots, Dist

(* What is left up to the slot before a is what b has not gone of a round. *)
LEMMA DistReduced ==
  \A a, b \in Slots :
    Reduced(a) \in Slots /\ Dist(b, Reduced(a)) = BufferSize - 1 - Dist(a, b)
BY RingAssumption DEF Slots, Dist, Reduced

(* The positions are places in the buffer. *)
LEMMA PlacesTyped ==
  ASSUME TypeOK
  PROVE  /\ \A p \in Roles : Place(p) \in Slots /\ pos[p] \in Slots /\ lim[p] \in Slots
         /\ Rd \in Slots /\ Wr \in Slots
         /\ pos["reader"] \in Slots /\ pos["writer"] \in Slots
         /\ Unfreed \in Slots /\ Readable \in Slots /\ Unpublished \in Slots
<1>1. ASSUME NEW p \in Roles
      PROVE  Place(p) \in Slots /\ pos[p] \in Slots /\ lim[p] \in Slots
  <2>1. own[p] \in 0 .. BufferSize /\ pos[p] \in Slots /\ lim[p] \in Slots
    BY DEF TypeOK, Slots
  <2> QED
    BY <2>1, RingAssumption DEF Place, Wrap, Slots
<1>2. "reader" \in Roles /\ "writer" \in Roles
  BY DEF Roles
<1>3. /\ Rd \in Slots /\ Wr \in Slots
      /\ pos["reader"] \in Slots /\ pos["writer"] \in Slots
  BY <1>1, <1>2 DEF Rd, Wr
<1> QED
  BY <1>1, <1>3, DistRange DEF Unfreed, Readable, Unpublished

(***************************************************************************)
(* The loop head: it leaves the loop or sets a stop within all thresholds. *)
(***************************************************************************)
LEMMA HeadStep ==
  ASSUME TypeOK, NEW p \in Roles, NEW g \in Nat,
         own[p] \in Slots, cur[p] <= usr[p], cur[p] <= g,
         LoopHead(p, own[p], lim[p], cur[p], usr[p], g)
  PROVE  /\ at' \in [Roles -> {"out", "gran", "copy", "refresh", "publish", "tail"}]
         /\ top' \in [Roles -> Nat] /\ gchk' \in [Roles -> BOOLEAN]
         /\ at'[p] \in {"tail", "copy"}
         /\ \A q \in Roles : q # p => at'[q] = at[q] /\ top'[q] = top[q]
         /\ at'[p] = "copy" =>
              /\ cur[p] <= top'[p] /\ top'[p] <= usr[p] /\ top'[p] <= g
              /\ own[p] + (top'[p] - cur[p]) <= BufferSize
              /\ top'[p] - cur[p] <= Dist(own[p], lim[p])
<1> DEFINE o == own[p]  l == lim[p]  c == cur[p]  u == usr[p]
           circ == c + (IF o <= l THEN l - o ELSE BufferSize - o)
           end == MinOf(circ, u)
           stop == IF end > g THEN g ELSE end
<1>1. /\ o \in Slots /\ l \in Slots /\ c \in Nat /\ u \in Nat /\ BufferSize \in Nat
      /\ c <= u /\ c <= g /\ Slack \in Nat
  BY RingAssumption DEF TypeOK, Slots, Roles
<1>2. CASE o = l \/ c = u
  BY <1>2, RingAssumption DEF LoopHead, TypeOK, Roles
<1>3. CASE ~(o = l \/ c = u)
  <2>1. /\ circ \in Nat /\ c <= circ /\ o + (circ - c) <= BufferSize
        /\ circ - c <= Dist(o, l)
    BY <1>1 DEF Slots, Dist
  <2>2. /\ stop \in Nat /\ c <= stop /\ stop <= circ /\ stop <= u /\ stop <= g
    <3> HIDE DEF circ
    <3> QED
      BY <1>1, <2>1 DEF MinOf
  <2> HIDE DEF stop, circ
  <2>3. PICK early \in 0 .. (IF end > g /\ stop - c > Slack THEN Slack ELSE 0) :
          top' = [top EXCEPT ![p] = stop - early]
    BY <1>3 DEF LoopHead, stop, circ
  <2>4. /\ at' = [at EXCEPT ![p] = "copy"]
        /\ gchk' = [gchk EXCEPT ![p] = end > g]
    BY <1>3 DEF LoopHead, circ
  <2>5. stop - early \in Nat /\ c <= stop - early /\ stop - early <= stop
    BY <1>1, <2>2
  <2>6. top'[p] = stop - early /\ top' \in [Roles -> Nat]
    BY <2>3, <2>5 DEF TypeOK
  <2>7. gchk' \in [Roles -> BOOLEAN]
    BY <2>4 DEF TypeOK
  <2>8. /\ at' \in [Roles -> {"out", "gran", "copy", "refresh", "publish", "tail"}]
        /\ at'[p] = "copy"
        /\ \A q \in Roles : q # p => at'[q] = at[q] /\ top'[q] = top[q]
    BY <2>3, <2>4 DEF TypeOK
  <2>9. /\ c <= top'[p] /\ top'[p] <= u /\ top'[p] <= g
        /\ o + (top'[p] - c) <= BufferSize
        /\ top'[p] - c <= circ - c
    BY <1>1, <2>1, <2>2, <2>5, <2>6 DEF Slots
  <2>10. top'[p] - c <= Dist(o, l)
    <3>1. Dist(o, l) \in Slots
      BY <1>1, DistRange
    <3> QED
      BY <1>1, <2>1, <2>6, <2>9, <3>1 DEF Slots
  <2> QED
    BY <2>6, <2>7, <2>8, <2>9, <2>10
<1> QED
  BY <1>2, <1>3

(* What no step but a copy or a publication disturbs. *)
LEMMA GeometryKept ==
  ASSUME Ordered, Counted, Held, DeliveredInOrder,
         \A q \in Roles : Place(q)' = Place(q),
         UNCHANGED <<pos, stream>>
  PROVE  /\ Ordered' /\ Counted' /\ Held' /\ DeliveredInOrder'
         /\ \A q \in Roles : Room(q)' = Room(q)
<1>1. Rd' = Rd /\ Wr' = Wr
  BY DEF Rd, Wr, Roles
<1>2. Unfreed' = Unfreed /\ Readable' = Readable /\ Unpublished' = Unpublished
  BY <1>1 DEF Unfreed, Readable, Unpublished
<1>3. Used' = Used
  BY <1>2 DEF Used
<1>4. Ordered' /\ \A q \in Roles : Room(q)' = Room(q)
  BY <1>2, <1>3 DEF Ordered, Room
<1>5. Counted' /\ DeliveredInOrder'
  BY <1>2 DEF Counted, DeliveredInOrder, stream
<1>6. Held'
  BY <1>1 DEF Held, stream
<1> QED
  BY <1>4, <1>5, <1>6

(* The thresholds of a role that does not move. *)
LEMMA LoopKept ==
  ASSUME NEW q \in Roles, LoopOK(q),
         at'[q] = at[q], pos'[q] = pos[q], own'[q] = own[q], lim'[q] = lim[q],
         cur'[q] = cur[q], usr'[q] = usr[q], gran'[q] = gran[q], top'[q] = top[q]
  PROVE  LoopOK(q)'
BY DEF LoopOK, InLoop, Place

(* A limit just loaded gives exactly the room there is. *)
LEMMA FreshLimit ==
  ASSUME TypeOK, Ordered, NEW p \in Roles
  PROVE  Limit(p) \in Slots /\ Dist(Place(p), Limit(p)) = Room(p)
<1>1. CASE p = "reader"
  BY <1>1, PlacesTyped DEF Limit, Room, Readable, Rd
<1>2. CASE p = "writer"
  <2>1. /\ pos["reader"] \in Slots /\ Rd \in Slots /\ pos["writer"] \in Slots
        /\ Wr \in Slots /\ Used <= BufferSize - 1 /\ BufferSize \in Nat
        /\ Unfreed \in Slots /\ Readable \in Slots /\ Unpublished \in Slots
    BY PlacesTyped, RingAssumption DEF Ordered
  <2>2. Unfreed + Readable <= BufferSize - 1
    BY <2>1 DEF Used, Slots
  <2>3. Dist(pos["reader"], pos["writer"]) = Unfreed + Readable
    BY <2>1, <2>2, DistAdd DEF Unfreed, Readable
  <2>4. Dist(pos["reader"], Wr) = Used
    <3>1. Dist(pos["reader"], pos["writer"]) + Dist(pos["writer"], Wr) <= BufferSize - 1
      BY <2>1, <2>3 DEF Used, Unpublished
    <3>2. Dist(pos["reader"], Wr) = Dist(pos["reader"], pos["writer"]) + Dist(pos["writer"], Wr)
      BY ONLY <2>1, <3>1, DistAdd
    <3> QED
      BY <3>2, <2>3 DEF Used, Unpublished
  <2>5. /\ Reduced(pos["reader"]) \in Slots
        /\ Dist(Wr, Reduced(pos["reader"])) = BufferSize - 1 - Used
    BY <2>1, <2>4, DistReduced
  <2> QED
    BY <1>2, <2>5 DEF Limit, Room, Wr
<1> QED
  BY <1>1, <1>2 DEF Roles

(* The other role keeps its limit when its room does not shrink. *)
LEMMA LimitKept ==
  ASSUME TypeOK, LimitsOK, NEW q \in Roles, at'[q] = at[q], own'[q] = own[q],
         lim'[q] = lim[q], Room(q) \in Int, Room(q)' \in Int, Room(q) <= Room(q)'
  PROVE  (at[q] \in {"gran", "copy", "publish"} => Dist(Place(q), lim[q]) <= Room(q))'
<1>1. Place(q)' = Place(q)
  BY DEF Place
<1>2. Dist(Place(q), lim[q]) \in Slots
  BY PlacesTyped, DistRange
<1>3. at[q] \in {"gran", "copy", "publish"} => Dist(Place(q), lim[q]) <= Room(q)'
  BY <1>2, RingAssumption DEF LimitsOK, Slots
<1> QED
  BY <1>1, <1>3

LEMMA RoomTyped ==
  ASSUME TypeOK, Ordered, NEW p \in Roles
  PROVE  Room(p) \in Nat
BY PlacesTyped, RingAssumption DEF Room, Ordered, Used, Slots

(***************************************************************************)
(* The steps that leave the positions and the stream alone.                *)
(***************************************************************************)
LEMMA EnterStep ==
  ASSUME RingInv, NEW p \in Roles, NEW n \in 1 .. MaxBytes, Enter(p, n)
  PROVE  RingInv'
<1> USE DEF RingInv
<1>1. at[p] = "out" /\ own[p] = pos[p]
  BY DEF Enter, CopyOK, LoopOK
<1>2. own' = own
  BY <1>1 DEF Enter, TypeOK
<1>3. Limit(p) \in Slots /\ Dist(Place(p), Limit(p)) = Room(p)
  BY FreshLimit
<1>4. TypeOK'
  <2>1. pos' = pos /\ buffer' = buffer /\ sent' = sent /\ rcvd' = rcvd /\ own' = own
    BY <1>2 DEF Enter, stream
  <2>2. /\ at' \in [Roles -> {"out", "gran", "copy", "refresh", "publish", "tail"}]
        /\ lim' \in [Roles -> 0 .. BufferSize - 1]
    BY <1>3 DEF Enter, TypeOK, Slots
  <2>3. cur' \in [Roles -> Nat] /\ usr' \in [Roles -> Nat]
    BY RingAssumption DEF Enter, TypeOK
  <2>4. gran' = gran /\ top' = top /\ gchk' = gchk
    BY DEF Enter
  <2> QED
    BY <2>1, <2>2, <2>3, <2>4 DEF TypeOK
<1>5. \A q \in Roles : Place(q)' = Place(q)
  BY <1>2 DEF Place
<1>6. /\ Ordered' /\ Counted' /\ Held' /\ DeliveredInOrder'
      /\ \A q \in Roles : Room(q)' = Room(q)
  BY <1>5, GeometryKept DEF Enter
<1>7. /\ at'[p] = "gran" /\ lim'[p] = Limit(p) /\ cur'[p] = 0 /\ usr'[p] = n
      /\ pos' = pos
      /\ \A q \in Roles : q # p =>
           /\ at'[q] = at[q] /\ lim'[q] = lim[q] /\ cur'[q] = cur[q] /\ usr'[q] = usr[q]
           /\ gran'[q] = gran[q] /\ top'[q] = top[q]
  BY DEF Enter, TypeOK
<1>8. LimitsOK'
  <2>1. Dist(Place(p), lim[p])' <= Room(p)'
    <3>1. Dist(Place(p), lim[p])' = Room(p)'
      BY <1>3, <1>5, <1>6, <1>7
    <3>2. Room(p)' \in Nat
      BY <1>6, RoomTyped
    <3> QED
      BY <3>1, <3>2
  <2>2. ASSUME NEW q \in Roles, q # p
        PROVE  (at[q] \in {"gran", "copy", "publish"} => Dist(Place(q), lim[q]) <= Room(q))'
    BY <2>2, <1>5, <1>6, <1>7 DEF LimitsOK
  <2> QED
    BY <2>1, <2>2 DEF LimitsOK
<1>9. CopyOK'
  <2>1. LoopOK(p)'
    BY <1>1, <1>2, <1>7 DEF LoopOK, InLoop
  <2>2. ASSUME NEW q \in Roles, q # p
        PROVE  LoopOK(q)'
    BY <2>2, <1>2, <1>7, LoopKept DEF CopyOK
  <2> QED
    BY <2>1, <2>2 DEF CopyOK
<1>10. RoomOK'
  <2>1. CASE p = "writer"
    BY <2>1, <1>7, RingAssumption DEF Enter, RoomOK, TypeOK, stream
  <2>2. CASE p # "writer"
    BY <2>2, <1>7 DEF Enter, RoomOK, InLoop, Roles, stream
  <2> QED
    BY <2>1, <2>2
<1> QED
  BY <1>4, <1>6, <1>8, <1>9, <1>10

LEMMA CopyDoneStep ==
  ASSUME RingInv, NEW p \in Roles, CopyDone(p)
  PROVE  RingInv'
<1> USE DEF RingInv
<1>1. /\ pos' = pos /\ own' = own /\ lim' = lim /\ cur' = cur /\ usr' = usr
      /\ top' = top /\ gchk' = gchk /\ UNCHANGED stream
  BY DEF CopyDone
<1>2. at[p] = "copy" /\ cur[p] = top[p]
  BY DEF CopyDone
<1>3. /\ at' \in [Roles -> {"out", "gran", "copy", "refresh", "publish", "tail"}]
      /\ at'[p] = "refresh" /\ \A q \in Roles : q # p => at'[q] = at[q]
  BY DEF CopyDone, TypeOK
<1>4. /\ gran' \in [Roles -> Nat] /\ gran[p] <= gran'[p]
      /\ \A q \in Roles : q # p => gran'[q] = gran[q]
  <2>1. gran[p] \in Nat /\ gran[p] + CheckInterval \in Nat /\ gran[p] <= gran[p] + CheckInterval
    BY RingAssumption DEF TypeOK
  <2>2. CASE gran' = gran
    BY <2>1, <2>2 DEF TypeOK
  <2>3. CASE gran' = [gran EXCEPT ![p] = @ + CheckInterval]
    BY <2>1, <2>3 DEF TypeOK
  <2> QED
    BY <2>2, <2>3 DEF CopyDone
<1>5. TypeOK'
  BY <1>1, <1>3, <1>4 DEF TypeOK, stream
<1>6. \A q \in Roles : Place(q)' = Place(q)
  BY <1>1 DEF Place
<1>7. /\ Ordered' /\ Counted' /\ Held' /\ DeliveredInOrder'
      /\ \A q \in Roles : Room(q)' = Room(q)
  BY <1>1, <1>6, GeometryKept
<1>8. LimitsOK'
  BY <1>1, <1>3, <1>6, <1>7 DEF LimitsOK
<1>9. CopyOK'
  <2>1. LoopOK(p)'
    <3>1. cur[p] \in Nat /\ cur[p] <= usr[p] /\ cur[p] <= gran[p] /\ gran[p] \in Nat /\ gran'[p] \in Nat
      BY <1>2, <1>4 DEF CopyOK, LoopOK, TypeOK
    <3> QED
      BY <1>1, <1>3, <1>4, <3>1 DEF LoopOK, InLoop
  <2>2. ASSUME NEW q \in Roles, q # p
        PROVE  LoopOK(q)'
    BY <2>2, <1>1, <1>3, <1>4, LoopKept DEF CopyOK
  <2> QED
    BY <2>1, <2>2 DEF CopyOK
<1>10. RoomOK'
  BY <1>1, <1>2, <1>3 DEF RoomOK, InLoop, Roles, stream
<1> QED
  BY <1>5, <1>7, <1>8, <1>9, <1>10

LEMMA PlaceCheckStep ==
  ASSUME RingInv, NEW p \in Roles, NEW g \in Intervals, PlaceCheck(p, g)
  PROVE  RingInv'
<1> USE DEF RingInv
<1>1. /\ pos' = pos /\ own' = own /\ lim' = lim /\ cur' = cur /\ usr' = usr
      /\ UNCHANGED stream
  BY DEF PlaceCheck
<1>2. at[p] = "gran" /\ own[p] = pos[p] /\ cur[p] = 0 /\ cur[p] <= usr[p]
  BY DEF PlaceCheck, CopyOK, LoopOK, InLoop
<1>3. own[p] \in Slots /\ g \in Nat /\ cur[p] <= g
  BY <1>2, PlacesTyped, RingAssumption DEF Intervals
<1>4. LoopHead(p, own[p], lim[p], cur[p], usr[p], g)
  BY DEF PlaceCheck
<1>5. /\ at' \in [Roles -> {"out", "gran", "copy", "refresh", "publish", "tail"}]
      /\ top' \in [Roles -> Nat] /\ gchk' \in [Roles -> BOOLEAN]
      /\ at'[p] \in {"tail", "copy"}
      /\ \A q \in Roles : q # p => at'[q] = at[q] /\ top'[q] = top[q]
      /\ at'[p] = "copy" =>
           /\ cur[p] <= top'[p] /\ top'[p] <= usr[p] /\ top'[p] <= g
           /\ own[p] + (top'[p] - cur[p]) <= BufferSize
           /\ top'[p] - cur[p] <= Dist(own[p], lim[p])
  BY <1>2, <1>3, <1>4, HeadStep
<1>6. /\ gran' \in [Roles -> Nat] /\ gran'[p] = g
      /\ \A q \in Roles : q # p => gran'[q] = gran[q]
  BY <1>3 DEF PlaceCheck, TypeOK
<1>7. TypeOK'
  BY <1>1, <1>5, <1>6 DEF TypeOK, stream
<1>8. \A q \in Roles : Place(q)' = Place(q)
  BY <1>1 DEF Place
<1>9. /\ Ordered' /\ Counted' /\ Held' /\ DeliveredInOrder'
      /\ \A q \in Roles : Room(q)' = Room(q)
  BY <1>1, <1>8, GeometryKept
<1>10. LimitsOK'
  BY <1>1, <1>2, <1>5, <1>8, <1>9 DEF LimitsOK
<1>11. CopyOK'
  <2>1. LoopOK(p)'
    <3>1. Place(p)' = own[p]
      BY <1>1, <1>3, RingAssumption DEF Place, Wrap, Slots
    <3> QED
      BY <1>1, <1>2, <1>5, <1>6, <3>1 DEF LoopOK, InLoop
  <2>2. ASSUME NEW q \in Roles, q # p
        PROVE  LoopOK(q)'
    BY <2>2, <1>1, <1>5, <1>6, LoopKept DEF CopyOK
  <2> QED
    BY <2>1, <2>2 DEF CopyOK
<1>12. RoomOK'
  BY <1>1, <1>2, <1>5 DEF RoomOK, InLoop, Roles, stream
<1> QED
  BY <1>7, <1>9, <1>10, <1>11, <1>12

LEMMA RefreshStep ==
  ASSUME RingInv, NEW p \in Roles, Refresh(p)
  PROVE  RingInv'
<1> USE DEF RingInv
<1>1. /\ pos' = pos /\ cur' = cur /\ usr' = usr /\ gran' = gran /\ top' = top
      /\ gchk' = gchk /\ UNCHANGED stream /\ at[p] = "refresh"
  BY DEF Refresh
<1>2. Limit(p) \in Slots /\ Dist(Place(p), Limit(p)) = Room(p)
  BY FreshLimit
<1>3. own'[p] = Place(p) /\ \A q \in Roles : q # p => own'[q] = own[q]
  BY DEF Refresh, Place, Wrap, TypeOK
<1>4. Place(p) \in Slots
  BY PlacesTyped
<1>5. own' \in [Roles -> 0 .. BufferSize]
  <2>1. own' = [own EXCEPT ![p] = Place(p)]
    BY DEF Refresh, Place, Wrap
  <2> QED
    BY <2>1, <1>4, RingAssumption DEF TypeOK, Slots
<1>6. /\ at' \in [Roles -> {"out", "gran", "copy", "refresh", "publish", "tail"}]
      /\ at'[p] = "publish" /\ lim'[p] = Limit(p)
      /\ lim' \in [Roles -> 0 .. BufferSize - 1]
      /\ \A q \in Roles : q # p => at'[q] = at[q] /\ lim'[q] = lim[q]
  BY <1>2 DEF Refresh, TypeOK, Slots
<1>7. TypeOK'
  BY <1>1, <1>5, <1>6 DEF TypeOK, stream
<1>8. \A q \in Roles : Place(q)' = Place(q)
  <2>1. Place(p)' = Place(p)
    BY <1>3, <1>4, RingAssumption DEF Place, Wrap, Slots
  <2> QED
    BY <1>3, <2>1 DEF Place
<1>9. /\ Ordered' /\ Counted' /\ Held' /\ DeliveredInOrder'
      /\ \A q \in Roles : Room(q)' = Room(q)
  BY <1>1, <1>8, GeometryKept
<1>10. LimitsOK'
  <2>1. Dist(Place(p), lim[p])' <= Room(p)'
    <3>1. Dist(Place(p), lim[p])' = Room(p)'
      BY <1>2, <1>6, <1>8, <1>9
    <3>2. Room(p)' \in Nat
      BY <1>9, RoomTyped
    <3> QED
      BY <3>1, <3>2
  <2>2. ASSUME NEW q \in Roles, q # p
        PROVE  (at[q] \in {"gran", "copy", "publish"} => Dist(Place(q), lim[q]) <= Room(q))'
    BY <2>2, <1>6, <1>8, <1>9 DEF LimitsOK
  <2> QED
    BY <2>1, <2>2 DEF LimitsOK
<1>11. CopyOK'
  <2>1. LoopOK(p)'
    <3>1. own'[p] < BufferSize
      BY <1>3, <1>4, RingAssumption DEF Slots
    <3>2. cur[p] <= usr[p] /\ cur[p] <= gran[p]
      BY <1>1 DEF CopyOK, LoopOK, InLoop
    <3> QED
      BY <1>1, <1>6, <3>1, <3>2 DEF LoopOK, InLoop
  <2>2. ASSUME NEW q \in Roles, q # p
        PROVE  LoopOK(q)'
    BY <2>2, <1>1, <1>3, <1>6, LoopKept DEF CopyOK
  <2> QED
    BY <2>1, <2>2 DEF CopyOK
<1>12. RoomOK'
  BY <1>1, <1>6 DEF RoomOK, InLoop, Roles, stream
<1> QED
  BY <1>7, <1>9, <1>10, <1>11, <1>12

LEMMA LeaveStep ==
  ASSUME RingInv, NEW p \in Roles, Leave(p)
  PROVE  RingInv'
<1> USE DEF RingInv
<1>1. pos' = pos /\ cur' = cur /\ own' = own /\ UNCHANGED stream /\ at[p] = "tail"
  BY DEF Leave
<1>2. /\ at' \in [Roles -> {"out", "gran", "copy", "refresh", "publish", "tail"}]
      /\ at'[p] = "out"
      /\ \A q \in Roles : q # p =>
           /\ at'[q] = at[q] /\ lim'[q] = lim[q] /\ usr'[q] = usr[q]
           /\ gran'[q] = gran[q] /\ top'[q] = top[q]
  BY DEF Leave, TypeOK
<1>3. TypeOK'
  <2>1. 0 \in 0 .. BufferSize - 1
    BY RingAssumption
  <2>2. /\ lim' \in [Roles -> 0 .. BufferSize - 1] /\ usr' \in [Roles -> Nat]
        /\ gran' \in [Roles -> Nat] /\ top' \in [Roles -> Nat]
    BY <2>1 DEF Leave, TypeOK
  <2>3. gchk' \in [Roles -> BOOLEAN]
    BY DEF Leave, TypeOK
  <2> QED
    BY <1>1, <1>2, <2>2, <2>3 DEF TypeOK, stream
<1>4. \A q \in Roles : Place(q)' = Place(q)
  BY <1>1 DEF Place
<1>5. /\ Ordered' /\ Counted' /\ Held' /\ DeliveredInOrder'
      /\ \A q \in Roles : Room(q)' = Room(q)
  BY <1>1, <1>4, GeometryKept
<1>6. LimitsOK'
  BY <1>2, <1>4, <1>5 DEF LimitsOK
<1>7. CopyOK'
  <2>1. LoopOK(p)'
    BY <1>1, <1>2 DEF LoopOK, InLoop, CopyOK
  <2>2. ASSUME NEW q \in Roles, q # p
        PROVE  LoopOK(q)'
    BY <2>2, <1>1, <1>2, LoopKept DEF CopyOK
  <2> QED
    BY <2>1, <2>2 DEF CopyOK
<1>8. RoomOK'
  BY <1>1, <1>2 DEF RoomOK, InLoop, Roles, stream
<1> QED
  BY <1>3, <1>5, <1>6, <1>7, <1>8

(***************************************************************************)
(* A publication: the reader gives back the slots it has read, the writer  *)
(* hands over the bytes it has written.                                    *)
(***************************************************************************)
LEMMA PublishGeometry ==
  ASSUME RingInv, NEW p \in Roles, at[p] = "publish",
         pos' = [pos EXCEPT ![p] = own[p]], own' = own, UNCHANGED stream
  PROVE  /\ Ordered' /\ Counted' /\ Held' /\ DeliveredInOrder'
         /\ \A q \in Roles : Place(q)' = Place(q)
         /\ \A q \in Roles : Room(q)' \in Nat /\ Room(q) <= Room(q)'
         /\ Room(p)' = Room(p)
<1> USE DEF RingInv
<1>1. \A q \in Roles : Place(q)' = Place(q)
  BY DEF Place
<1>2. Rd' = Rd /\ Wr' = Wr
  BY <1>1 DEF Rd, Wr, Roles
<1>3. own[p] = Place(p) /\ Place(p) \in Slots
  BY PlacesTyped, RingAssumption DEF CopyOK, LoopOK, Place, Wrap, Slots
<1>4. /\ Rd \in Slots /\ Wr \in Slots /\ pos["reader"] \in Slots /\ pos["writer"] \in Slots
      /\ Unfreed \in Slots /\ Readable \in Slots /\ Unpublished \in Slots
      /\ BufferSize \in Nat /\ Used <= BufferSize - 1
      /\ Used = Unfreed + Readable + Unpublished
  BY PlacesTyped, RingAssumption DEF Ordered, Used
<1>5. Held' /\ DeliveredInOrder'
  BY <1>2 DEF Held, DeliveredInOrder, stream
<1>6. CASE p = "reader"
  <2>1. pos'["reader"] = Rd /\ pos'["writer"] = pos["writer"]
    BY <1>3, <1>6 DEF TypeOK, Rd, Roles
  <2>2. Unfreed' = 0 /\ Readable' = Readable /\ Unpublished' = Unpublished
    BY <1>2, <1>4, <2>1, DistSelf DEF Unfreed, Readable, Unpublished
  <2>3. Used' = Readable + Unpublished
    BY <1>4, <2>2 DEF Used, Slots
  <2>4. /\ Used' <= Used /\ Used' \in Nat /\ Used' <= BufferSize - 1 /\ Used \in Nat
    BY <1>4, <2>3 DEF Slots
  <2>5. Ordered' /\ Counted'
    BY <2>2, <2>4 DEF Ordered, Counted, stream
  <2>6. \A q \in Roles : Room(q)' \in Nat /\ Room(q) <= Room(q)'
    <3>1. /\ Readable' = Readable /\ Readable \in Nat
          /\ BufferSize - 1 - Used' \in Nat
          /\ BufferSize - 1 - Used <= BufferSize - 1 - Used'
      <4>1. BufferSize - 1 - Used' \in Nat /\ BufferSize - 1 - Used <= BufferSize - 1 - Used'
        <5>1. \A x, y, b \in Nat : x <= y /\ x <= b - 1 =>
                b - 1 - x \in Nat /\ b - 1 - y <= b - 1 - x
          OBVIOUS
        <5> QED
          BY <5>1, <1>4, <2>4
      <4>2. Readable \in Nat
        BY ONLY <1>4 DEF Slots
      <4> QED
        BY <2>2, <4>1, <4>2
    <3>2. ASSUME NEW q \in Roles
          PROVE  /\ Room(q) = IF q = "reader" THEN Readable ELSE BufferSize - 1 - Used
                 /\ Room(q)' = IF q = "reader" THEN Readable' ELSE BufferSize - 1 - Used'
      BY DEF Room
    <3> QED
      BY <3>1, <3>2
  <2>7. Room(p)' = Room(p)
    BY <1>6, <2>2 DEF Room
  <2> QED
    BY <1>1, <1>5, <2>5, <2>6, <2>7
<1>7. CASE p = "writer"
  <2>1. pos'["reader"] = pos["reader"] /\ pos'["writer"] = Wr
    BY <1>3, <1>7 DEF TypeOK, Wr, Roles
  <2>2. Unfreed' = Unfreed /\ Unpublished' = 0
    BY <1>2, <1>4, <2>1, DistSelf DEF Unfreed, Unpublished
  <2>3. Readable' = Readable + Unpublished
    <3>1. Readable + Unpublished <= BufferSize - 1
      BY <1>4 DEF Slots
    <3>2. Dist(Rd, Wr) = Readable + Unpublished
      BY <1>4, <3>1, DistAdd DEF Readable, Unpublished
    <3> QED
      BY <1>2, <2>1, <3>2 DEF Readable
  <2>4. Used' = Used
    BY <1>4, <2>2, <2>3 DEF Used, Slots
  <2>5. Ordered'
    BY <2>4 DEF Ordered
  <2>6. Counted'
    <3>1. Readable' + Unpublished' = Readable + Unpublished
      BY <1>4, <2>2, <2>3 DEF Slots
    <3>2. sent' = sent /\ rcvd' = rcvd
      BY DEF stream
    <3> QED
      BY <3>1, <3>2 DEF Counted
  <2>7. Readable' \in Nat /\ Readable <= Readable' /\ BufferSize - 1 - Used \in Nat
    BY <1>4, <2>3 DEF Slots
  <2>8. \A q \in Roles : Room(q)' \in Nat /\ Room(q) <= Room(q)'
    BY <2>4, <2>7 DEF Room
  <2>9. Room(p)' = Room(p)
    BY <1>7, <2>4 DEF Room
  <2> QED
    BY <1>1, <1>5, <2>5, <2>6, <2>8, <2>9
<1> QED
  BY <1>6, <1>7 DEF Roles

LEMMA PublishStep ==
  ASSUME RingInv, NEW p \in Roles, Publish(p)
  PROVE  RingInv'
<1> USE DEF RingInv
<1>1. /\ pos' = [pos EXCEPT ![p] = own[p]] /\ own' = own /\ lim' = lim /\ cur' = cur
      /\ usr' = usr /\ gran' = gran /\ UNCHANGED stream /\ at[p] = "publish"
  BY DEF Publish
<1>2. /\ Ordered' /\ Counted' /\ Held' /\ DeliveredInOrder'
      /\ \A q \in Roles : Place(q)' = Place(q)
      /\ \A q \in Roles : Room(q)' \in Nat /\ Room(q) <= Room(q)'
      /\ Room(p)' = Room(p)
  BY <1>1, PublishGeometry
<1>3. own[p] \in Slots /\ cur[p] <= usr[p] /\ cur[p] <= gran[p] /\ gran[p] \in Nat
  <2>1. own[p] < BufferSize /\ own[p] \in 0 .. BufferSize
    BY <1>1 DEF CopyOK, LoopOK, TypeOK
  <2>2. own[p] \in Slots
    BY <2>1, RingAssumption DEF Slots
  <2> QED
    BY <1>1, <2>2 DEF CopyOK, LoopOK, InLoop, TypeOK
<1>4. LoopHead(p, own[p], lim[p], cur[p], usr[p], gran[p])
  BY DEF Publish
<1>5. /\ at' \in [Roles -> {"out", "gran", "copy", "refresh", "publish", "tail"}]
      /\ top' \in [Roles -> Nat] /\ gchk' \in [Roles -> BOOLEAN]
      /\ at'[p] \in {"tail", "copy"}
      /\ \A q \in Roles : q # p => at'[q] = at[q] /\ top'[q] = top[q]
      /\ at'[p] = "copy" =>
           /\ cur[p] <= top'[p] /\ top'[p] <= usr[p] /\ top'[p] <= gran[p]
           /\ own[p] + (top'[p] - cur[p]) <= BufferSize
           /\ top'[p] - cur[p] <= Dist(own[p], lim[p])
  BY <1>3, <1>4, HeadStep
<1>6. /\ pos' \in [Roles -> 0 .. BufferSize - 1] /\ pos'[p] = own[p]
      /\ \A q \in Roles : q # p => pos'[q] = pos[q]
  BY <1>1, <1>3 DEF TypeOK, Slots
<1>7. TypeOK'
  BY <1>1, <1>5, <1>6 DEF TypeOK, stream
<1>8. LimitsOK'
  <2>1. ASSUME NEW q \in Roles, at[q]' \in {"gran", "copy", "publish"}
        PROVE  (Dist(Place(q), lim[q]) <= Room(q))'
    <3>1. Dist(Place(q), lim[q]) \in Slots /\ Room(q) \in Nat
      BY PlacesTyped, DistRange, RoomTyped
    <3>2. Dist(Place(q), lim[q]) <= Room(q)
      BY <1>1, <1>5, <2>1 DEF LimitsOK
    <3>3. Dist(Place(q), lim[q]) <= Room(q)'
      BY <3>1, <3>2, <1>2, RingAssumption DEF Slots
    <3> QED
      BY <3>3, <1>1, <1>2
  <2> QED
    BY <2>1 DEF LimitsOK
<1>9. CopyOK'
  <2>1. LoopOK(p)'
    <3>1. Place(p)' = own[p]
      BY <1>1, <1>3, RingAssumption DEF Place, Wrap, Slots
    <3> QED
      BY <1>1, <1>3, <1>5, <1>6, <3>1 DEF LoopOK, InLoop
  <2>2. ASSUME NEW q \in Roles, q # p
        PROVE  LoopOK(q)'
    BY <2>2, <1>1, <1>5, <1>6, LoopKept DEF CopyOK
  <2> QED
    BY <2>1, <2>2 DEF CopyOK
<1>10. RoomOK'
  BY <1>1, <1>5 DEF RoomOK, InLoop, Roles, stream
<1> QED
  BY <1>2, <1>7, <1>8, <1>9, <1>10

(***************************************************************************)
(* A byte copied: there is one to read, or a slot to write it in.          *)
(***************************************************************************)
LEMMA CopyHasRoom ==
  ASSUME RingInv, NEW p \in Roles, at[p] = "copy", cur[p] < top[p]
  PROVE  /\ own[p] \in Slots /\ Place(p) = own[p]
         /\ Dist(own[p], lim[p]) >= 1 /\ Room(p) >= 1
         /\ own[p] + 1 \in 0 .. BufferSize /\ Wrap(own[p] + 1) \in Slots
         /\ Dist(Wrap(own[p] + 1), lim[p]) = Dist(own[p], lim[p]) - 1
<1> USE DEF RingInv
<1>1. /\ cur[p] \in Nat /\ top[p] \in Nat /\ own[p] \in 0 .. BufferSize
      /\ BufferSize \in Nat /\ lim[p] \in Slots
  BY PlacesTyped, RingAssumption DEF TypeOK
<1>2. /\ own[p] + (top[p] - cur[p]) <= BufferSize
      /\ top[p] - cur[p] <= Dist(Place(p), lim[p])
      /\ Dist(Place(p), lim[p]) <= Room(p)
  BY DEF CopyOK, LoopOK, LimitsOK
<1>3. own[p] \in Slots
  BY <1>1, <1>2 DEF Slots
<1>4. Place(p) = own[p]
  BY <1>1, <1>3 DEF Place, Wrap, Slots
<1>5. Dist(own[p], lim[p]) \in Slots /\ Room(p) \in Nat
  BY <1>1, <1>3, DistRange, RoomTyped
<1>6. Dist(own[p], lim[p]) >= 1 /\ Room(p) >= 1
  BY <1>1, <1>2, <1>4, <1>5 DEF Slots
<1> QED
  BY <1>1, <1>3, <1>4, <1>6, DistFirst

LEMMA ReaderCopies ==
  ASSUME RingInv, CopyByte("reader")
  PROVE  /\ rcvd' \in Seq(Nat) /\ Ordered' /\ Counted' /\ Held' /\ DeliveredInOrder'
         /\ Room("reader")' = Room("reader") - 1 /\ Room("writer")' = Room("writer")
<1> USE DEF RingInv
<1> DEFINE n == Len(rcvd)
<1>1. /\ at["reader"] = "copy" /\ cur["reader"] < top["reader"]
      /\ rcvd' = Append(rcvd, buffer[own["reader"]]) /\ buffer' = buffer /\ sent' = sent
      /\ pos' = pos /\ own' = [own EXCEPT !["reader"] = @ + 1]
  BY DEF CopyByte
<1>2. /\ own["reader"] \in Slots /\ Rd = own["reader"] /\ Readable >= 1
      /\ Wrap(own["reader"] + 1) \in Slots
  BY <1>1, CopyHasRoom DEF Roles, Rd, Room
<1>3. Rd' = Wrap(Rd + 1) /\ Wr' = Wr
  BY <1>1, <1>2 DEF TypeOK, Rd, Wr, Place, Roles
<1>4. /\ Rd \in Slots /\ Wr \in Slots /\ pos["reader"] \in Slots /\ pos["writer"] \in Slots
      /\ Unfreed \in Slots /\ Readable \in Slots /\ Unpublished \in Slots
      /\ BufferSize \in Nat /\ Used <= BufferSize - 1
      /\ Used = Unfreed + Readable + Unpublished /\ Readable + Unpublished = sent - n
      /\ sent \in Nat /\ n \in Nat /\ rcvd \in Seq(Nat)
  BY PlacesTyped, RingAssumption DEF Ordered, Used, Counted, TypeOK
<1> HIDE DEF n
<1>5. Readable' = Readable - 1 /\ Unpublished' = Unpublished
  BY <1>1, <1>2, <1>3, <1>4, DistFirst DEF Readable, Unpublished
<1>6. Unfreed' = Unfreed + 1
  <2>1. Unfreed < BufferSize - 1
    BY <1>2, <1>4 DEF Slots
  <2> QED
    BY <1>1, <1>3, <1>4, <2>1, DistSecond DEF Unfreed
<1>7. Used' = Used
  BY <1>4, <1>5, <1>6 DEF Used, Slots
<1>8. Ordered'
  BY <1>7 DEF Ordered
<1>9. buffer[Rd] = n + 1
  <2>1. Dist(Rd, Rd) = 0 /\ 0 < sent - n
    BY <1>2, <1>4, DistSelf DEF Slots
  <2>2. buffer[Rd] = n + Dist(Rd, Rd) + 1
    BY <1>4, <2>1 DEF Held, n
  <2> QED
    BY <1>4, <2>1, <2>2
<1>10. /\ rcvd' \in Seq(Nat) /\ Len(rcvd') = n + 1
       /\ \A i \in 1 .. n : rcvd'[i] = rcvd[i]
       /\ rcvd'[n + 1] = n + 1
  <2>1. rcvd' = Append(rcvd, n + 1) /\ n + 1 \in Nat
    BY <1>1, <1>2, <1>4, <1>9
  <2> QED
    BY <2>1, <1>4 DEF n
<1>11. DeliveredInOrder'
  <2>1. ASSUME NEW i \in 1 .. Len(rcvd') PROVE rcvd'[i] = i
    <3>1. CASE i \in 1 .. n
      BY <1>10, <3>1 DEF DeliveredInOrder, n
    <3>2. CASE i = n + 1
      BY <1>10, <3>2
    <3> QED
      BY <1>4, <1>10, <3>1, <3>2
  <2> QED
    BY <2>1 DEF DeliveredInOrder
<1>12. Counted'
  <2>1. Readable' + Unpublished' = sent' - Len(rcvd')
    BY <1>1, <1>4, <1>5, <1>10 DEF Slots
  <2> QED
    BY <2>1 DEF Counted
<1>13. Held'
  <2>1. ASSUME NEW k \in Slots, Dist(Rd', k) < sent - (n + 1)
        PROVE  buffer[k] = (n + 1) + Dist(Rd', k) + 1
    <3>1. Rd' \in Slots /\ Dist(Rd', k) \in Slots /\ Dist(Rd, k) \in Slots
      BY <1>2, <1>3, <1>4, DistRange
    <3>2. CASE k = Rd
      <4>1. Dist(Rd', Rd) = BufferSize - 1
        BY <1>3, <1>4, RingAssumption DEF Dist, Wrap, Slots
      <4>2. sent - n <= BufferSize - 1
        BY <1>4 DEF Slots
      <4> QED
        BY <1>4, <2>1, <3>2, <4>1, <4>2
    <3>3. CASE k # Rd
      <4>1. Dist(Rd, k) # 0
        BY <1>4, <3>3, DistSelf, DistInjective
      <4>2. Dist(Rd', k) = Dist(Rd, k) - 1
        BY <1>3, <1>4, <3>1, <4>1, DistFirst DEF Slots
      <4>3. Dist(Rd, k) < sent - n
        BY <1>4, <2>1, <3>1, <4>2 DEF Slots
      <4>4. buffer[k] = n + Dist(Rd, k) + 1
        BY <4>3 DEF Held, n
      <4> QED
        BY <1>4, <3>1, <4>2, <4>4 DEF Slots
    <3> QED
      BY <3>2, <3>3
  <2> QED
    BY <1>1, <1>10, <2>1 DEF Held
<1>14. Room("reader")' = Room("reader") - 1 /\ Room("writer")' = Room("writer")
  BY <1>5, <1>7 DEF Room
<1> QED
  BY <1>8, <1>10, <1>11, <1>12, <1>13, <1>14

LEMMA WriterCopies ==
  ASSUME RingInv, CopyByte("writer")
  PROVE  /\ sent' \in 0 .. MaxBytes /\ buffer' \in [Slots -> 0 .. MaxBytes]
         /\ Ordered' /\ Counted' /\ Held' /\ DeliveredInOrder'
         /\ Room("writer")' = Room("writer") - 1 /\ Room("reader")' = Room("reader")
<1> USE DEF RingInv
<1> DEFINE n == Len(rcvd)
<1>1. /\ at["writer"] = "copy" /\ cur["writer"] < top["writer"]
      /\ buffer' = [buffer EXCEPT ![own["writer"]] = sent + 1] /\ sent' = sent + 1
      /\ rcvd' = rcvd /\ pos' = pos /\ own' = [own EXCEPT !["writer"] = @ + 1]
  BY DEF CopyByte
<1>2. /\ own["writer"] \in Slots /\ Wr = own["writer"] /\ BufferSize - 1 - Used >= 1
      /\ Wrap(own["writer"] + 1) \in Slots
  BY <1>1, CopyHasRoom DEF Roles, Wr, Room
<1>3. Wr' = Wrap(Wr + 1) /\ Rd' = Rd
  BY <1>1, <1>2 DEF TypeOK, Rd, Wr, Place, Roles
<1>4. /\ Rd \in Slots /\ Wr \in Slots /\ pos["reader"] \in Slots /\ pos["writer"] \in Slots
      /\ Unfreed \in Slots /\ Readable \in Slots /\ Unpublished \in Slots
      /\ BufferSize \in Nat /\ Used <= BufferSize - 1
      /\ Used = Unfreed + Readable + Unpublished /\ Readable + Unpublished = sent - n
      /\ sent \in Nat /\ n \in Nat /\ rcvd \in Seq(Nat) /\ MaxBytes \in Nat
  BY PlacesTyped, RingAssumption DEF Ordered, Used, Counted, TypeOK
<1> HIDE DEF n
<1>5. Unpublished' = Unpublished + 1 /\ Readable' = Readable /\ Unfreed' = Unfreed
  <2>1. Unpublished < BufferSize - 1
    BY <1>2, <1>4 DEF Slots
  <2> QED
    BY <1>1, <1>3, <1>4, <2>1, DistSecond DEF Unfreed, Readable, Unpublished
<1>6. Used' = Used + 1
  BY <1>4, <1>5 DEF Used, Slots
<1>7. Ordered'
  <2>1. Used + 1 <= BufferSize - 1
    BY <1>2, <1>4 DEF Slots
  <2> QED
    BY <1>6, <2>1 DEF Ordered
<1>8. sent + 1 <= MaxBytes
  <2>1. /\ cur["writer"] \in Nat /\ top["writer"] \in Nat /\ usr["writer"] \in Nat
        /\ top["writer"] <= usr["writer"]
    BY <1>1 DEF TypeOK, CopyOK, LoopOK, Roles
  <2>2. sent + (usr["writer"] - cur["writer"]) <= MaxBytes
    BY <1>1 DEF RoomOK, InLoop
  <2> QED
    BY <1>1, <1>4, <2>1, <2>2
<1>9. sent' \in 0 .. MaxBytes /\ buffer' \in [Slots -> 0 .. MaxBytes]
  <2>1. sent + 1 \in 0 .. MaxBytes
    BY <1>4, <1>8
  <2> QED
    BY <1>1, <2>1 DEF TypeOK, Slots
<1>10. Counted'
  <2>1. Readable' + Unpublished' = (sent + 1) - n
    BY <1>4, <1>5 DEF Slots
  <2> QED
    BY <1>1, <2>1 DEF Counted, n
<1>11. DeliveredInOrder'
  BY <1>1 DEF DeliveredInOrder
<1>12. Dist(Rd, Wr) = sent - n
  <2>1. Readable + Unpublished <= BufferSize - 1
    BY <1>4 DEF Slots
  <2>2. Dist(Rd, Wr) = Readable + Unpublished
    BY <1>4, <2>1, DistAdd DEF Readable, Unpublished
  <2> QED
    BY <1>4, <2>2
<1>13. Held'
  <2>1. ASSUME NEW k \in Slots, Dist(Rd, k) < (sent + 1) - n
        PROVE  buffer'[k] = n + Dist(Rd, k) + 1
    <3>1. Dist(Rd, k) \in Slots
      BY <1>4, DistRange
    <3>2. CASE k = Wr
      <4>1. buffer'[k] = sent + 1
        BY <1>1, <1>2, <3>2 DEF TypeOK, Slots
      <4> QED
        BY <1>4, <1>12, <3>2, <4>1
    <3>3. CASE k # Wr
      <4>1. buffer'[k] = buffer[k]
        BY <1>1, <1>2, <3>3 DEF TypeOK, Slots
      <4>2. Dist(Rd, k) # sent - n
        BY <1>4, <1>12, <3>3, DistInjective
      <4>3. Dist(Rd, k) < sent - n
        BY <1>4, <2>1, <3>1, <4>2 DEF Slots
      <4> QED
        BY <4>1, <4>3 DEF Held, n
    <3> QED
      BY <3>2, <3>3
  <2> QED
    BY <1>1, <1>3, <2>1 DEF Held, n
<1>14. Room("writer")' = Room("writer") - 1 /\ Room("reader")' = Room("reader")
  <2>1. Used \in Nat
    BY <1>4 DEF Slots
  <2>2. BufferSize - 1 - (Used + 1) = (BufferSize - 1 - Used) - 1
    BY <1>4, <2>1
  <2> QED
    BY <1>5, <1>6, <2>2 DEF Room
<1> QED
  BY <1>7, <1>9, <1>10, <1>11, <1>13, <1>14

LEMMA CopyByteStep ==
  ASSUME RingInv, NEW p \in Roles, CopyByte(p)
  PROVE  RingInv'
<1> USE DEF RingInv
<1>1. /\ at[p] = "copy" /\ cur[p] < top[p]
      /\ own' = [own EXCEPT ![p] = @ + 1] /\ cur' = [cur EXCEPT ![p] = @ + 1]
      /\ pos' = pos /\ at' = at /\ lim' = lim /\ usr' = usr /\ gran' = gran
      /\ top' = top /\ gchk' = gchk
  BY DEF CopyByte
<1>2. /\ own[p] \in Slots /\ Place(p) = own[p]
      /\ Dist(own[p], lim[p]) >= 1 /\ Room(p) >= 1
      /\ own[p] + 1 \in 0 .. BufferSize /\ Wrap(own[p] + 1) \in Slots
      /\ Dist(Wrap(own[p] + 1), lim[p]) = Dist(own[p], lim[p]) - 1
  BY <1>1, CopyHasRoom
<1>3. /\ Ordered' /\ Counted' /\ Held' /\ DeliveredInOrder'
      /\ rcvd' \in Seq(Nat) /\ sent' \in 0 .. MaxBytes
      /\ buffer' \in [0 .. BufferSize - 1 -> 0 .. MaxBytes]
      /\ Room(p)' = Room(p) - 1
      /\ \A q \in Roles : q # p => Room(q)' = Room(q)
  <2>1. CASE p = "reader"
    <3>1. sent' = sent /\ buffer' = buffer
      BY <2>1 DEF CopyByte
    <3> QED
      BY <2>1, <3>1, ReaderCopies DEF TypeOK, Roles
  <2>2. CASE p = "writer"
    <3>1. rcvd' = rcvd
      BY <2>2 DEF CopyByte
    <3> QED
      BY <2>2, <3>1, WriterCopies DEF TypeOK, Roles, Slots
  <2> QED
    BY <2>1, <2>2 DEF Roles
<1>4. /\ own' \in [Roles -> 0 .. BufferSize] /\ own'[p] = own[p] + 1
      /\ \A q \in Roles : q # p => own'[q] = own[q]
  BY <1>1, <1>2 DEF TypeOK
<1>5. /\ cur' \in [Roles -> Nat] /\ cur'[p] = cur[p] + 1
      /\ \A q \in Roles : q # p => cur'[q] = cur[q]
  BY <1>1 DEF TypeOK
<1>6. TypeOK'
  BY <1>1, <1>3, <1>4, <1>5 DEF TypeOK
<1>7. /\ Dist(Place(p), lim[p])' = Dist(Place(p), lim[p]) - 1
      /\ Dist(Place(p), lim[p]) \in Slots /\ Room(p) \in Nat
  <2>1. Place(p)' = Wrap(own[p] + 1)
    BY <1>4 DEF Place
  <2>2. Dist(Place(p), lim[p]) \in Slots /\ Room(p) \in Nat
    BY PlacesTyped, DistRange, RoomTyped
  <2> QED
    BY <1>1, <1>2, <2>1, <2>2
<1>8. LimitsOK'
  <2>1. Dist(Place(p), lim[p])' <= Room(p)'
    <3>1. Dist(Place(p), lim[p]) <= Room(p)
      BY <1>1 DEF LimitsOK
    <3> QED
      BY <1>3, <1>7, <3>1, RingAssumption DEF Slots
  <2>2. ASSUME NEW q \in Roles, q # p
        PROVE  (at[q] \in {"gran", "copy", "publish"} => Dist(Place(q), lim[q]) <= Room(q))'
    <3>1. Place(q)' = Place(q)
      BY <2>2, <1>4 DEF Place
    <3> QED
      BY <2>2, <3>1, <1>1, <1>3 DEF LimitsOK
  <2> QED
    BY <2>1, <2>2 DEF LimitsOK
<1>9. CopyOK'
  <2>1. LoopOK(p)'
    <3>1. /\ cur[p] <= top[p] /\ top[p] <= usr[p] /\ top[p] <= gran[p]
          /\ own[p] + (top[p] - cur[p]) <= BufferSize
          /\ top[p] - cur[p] <= Dist(Place(p), lim[p])
      BY <1>1 DEF CopyOK, LoopOK
    <3>2. /\ cur[p] \in Nat /\ top[p] \in Nat /\ usr[p] \in Nat /\ own[p] \in Nat
          /\ BufferSize \in Nat
      BY RingAssumption DEF TypeOK
    <3>3. /\ cur[p] + 1 <= top[p] /\ cur[p] + 1 <= usr[p]
          /\ own[p] + 1 + (top[p] - (cur[p] + 1)) <= BufferSize
          /\ top[p] - (cur[p] + 1) <= Dist(Place(p), lim[p]) - 1
      BY <1>1, <1>7, <3>1, <3>2 DEF Slots
    <3>4. top'[p] - cur'[p] <= Dist(Place(p), lim[p])'
      BY <1>1, <1>5, <1>7, <3>3
    <3> QED
      BY <1>1, <1>4, <1>5, <3>1, <3>3, <3>4 DEF LoopOK, InLoop
  <2>2. ASSUME NEW q \in Roles, q # p
        PROVE  LoopOK(q)'
    BY <2>2, <1>1, <1>4, <1>5, LoopKept DEF CopyOK
  <2> QED
    BY <2>1, <2>2 DEF CopyOK
<1>10. RoomOK'
  <2>1. CASE p = "writer"
    <3>1. sent' = sent + 1
      BY <2>1 DEF CopyByte
    <3>2. /\ sent \in Nat /\ cur["writer"] \in Nat /\ usr["writer"] \in Nat
          /\ MaxBytes \in Nat
      BY RingAssumption DEF TypeOK, Roles
    <3>3. sent + (usr["writer"] - cur["writer"]) <= MaxBytes
      BY <1>1, <2>1 DEF RoomOK, InLoop
    <3> QED
      BY <1>1, <1>5, <2>1, <3>1, <3>2, <3>3 DEF RoomOK
  <2>2. CASE p = "reader"
    <3>1. sent' = sent
      BY <2>2 DEF CopyByte
    <3> QED
      BY <1>1, <1>5, <2>2, <3>1 DEF RoomOK, InLoop, Roles
  <2> QED
    BY <2>1, <2>2 DEF Roles
<1> QED
  BY <1>3, <1>6, <1>8, <1>9, <1>10

-----------------------------------------------------------------------------
LEMMA InitInv ==
  ASSUME Init
  PROVE  RingInv
<1> USE DEF Roles
<1>1. /\ pos = [p \in Roles |-> 0] /\ own = pos /\ lim = pos /\ cur = pos /\ usr = pos
      /\ gran = pos /\ top = pos /\ sent = 0 /\ rcvd = <<>>
      /\ at = [p \in Roles |-> "out"] /\ gchk = [p \in Roles |-> FALSE]
      /\ buffer = [i \in 0 .. BufferSize - 1 |-> 0]
  BY DEF Init
<1>2. TypeOK
  <2>1. 0 \in 0 .. BufferSize - 1 /\ 0 \in 0 .. BufferSize /\ 0 \in Nat /\ 0 \in 0 .. MaxBytes
    BY RingAssumption
  <2>2. gchk \in [Roles -> BOOLEAN]
    BY <1>1, Zenon
  <2> QED
    BY <1>1, <2>1, <2>2 DEF TypeOK
<1>3. Rd = 0 /\ Wr = 0 /\ pos["reader"] = 0 /\ pos["writer"] = 0
  BY <1>1, RingAssumption DEF Rd, Wr, Place, Wrap
<1>4. Unfreed = 0 /\ Readable = 0 /\ Unpublished = 0
  BY <1>3 DEF Unfreed, Readable, Unpublished, Dist
<1>5. Ordered /\ Counted
  <2>1. Len(rcvd) = 0 /\ sent = 0
    BY <1>1
  <2> QED
    <3>1. Used = 0 /\ 0 <= BufferSize - 1
      BY <1>4, RingAssumption DEF Used
    <3>2. Readable + Unpublished = sent - Len(rcvd)
      BY ONLY <1>4, <2>1
    <3> QED
      BY <3>1, <3>2 DEF Ordered, Counted
<1>6. DeliveredInOrder
  BY <1>1 DEF DeliveredInOrder
<1>7. Held
  <2>1. ASSUME NEW k \in Slots PROVE ~(Dist(Rd, k) < sent - Len(rcvd))
    <3>1. Dist(Rd, k) \in Slots
      BY <1>2, PlacesTyped, DistRange
    <3> QED
      BY <1>1, <3>1, RingAssumption DEF Slots
  <2> QED
    BY <2>1 DEF Held
<1>8. LimitsOK /\ CopyOK /\ RoomOK
  BY <1>1 DEF LimitsOK, CopyOK, LoopOK, RoomOK, InLoop
<1> QED
  BY <1>2, <1>5, <1>6, <1>7, <1>8 DEF RingInv

LEMMA NextInv ==
  ASSUME RingInv, [Next]_ringvars
  PROVE  RingInv'
<1>1. ASSUME NEW p \in Roles, Step(p)
      PROVE  RingInv'
  <2>1. ASSUME NEW n \in 1 .. MaxBytes, Enter(p, n) PROVE RingInv'
    BY <2>1, EnterStep
  <2>2. ASSUME NEW g \in Intervals, PlaceCheck(p, g) PROVE RingInv'
    BY <2>2, PlaceCheckStep
  <2>3. CASE CopyByte(p)
    BY <2>3, CopyByteStep
  <2>4. CASE CopyDone(p)
    BY <2>4, CopyDoneStep
  <2>5. CASE Refresh(p)
    BY <2>5, RefreshStep
  <2>6. CASE Publish(p)
    BY <2>6, PublishStep
  <2>7. CASE Leave(p)
    BY <2>7, LeaveStep
  <2> QED
    BY <1>1, <2>1, <2>2, <2>3, <2>4, <2>5, <2>6, <2>7 DEF Step
<1>2. CASE UNCHANGED ringvars
  <2>1. /\ pos' = pos /\ own' = own /\ lim' = lim /\ cur' = cur /\ usr' = usr
        /\ gran' = gran /\ top' = top /\ gchk' = gchk /\ at' = at /\ UNCHANGED stream
    BY <1>2 DEF ringvars, bounds
  <2>2. \A q \in Roles : Place(q)' = Place(q)
    BY <2>1 DEF Place
  <2>3. /\ Ordered' /\ Counted' /\ Held' /\ DeliveredInOrder'
        /\ \A q \in Roles : Room(q)' = Room(q)
    BY <2>1, <2>2, GeometryKept DEF RingInv
  <2>4. TypeOK' /\ LimitsOK' /\ RoomOK'
    BY <2>1, <2>2, <2>3 DEF RingInv, TypeOK, LimitsOK, RoomOK, InLoop, stream
  <2>5. CopyOK'
    BY <2>1, LoopKept DEF RingInv, CopyOK
  <2> QED
    BY <2>3, <2>4, <2>5 DEF RingInv
<1> QED
  BY <1>1, <1>2 DEF Next

(***************************************************************************)
(* The inductive invariant of the two loops: positions in order around the *)
(* buffer, the bytes between them, and limits that only err on the safe    *)
(* side (xen_shm_pipe.c:500-798).                                          *)
(***************************************************************************)
THEOREM Invariance == Spec => []RingInv
BY InitInv, NextInv, PTL DEF Spec

(* Positions, thresholds and counters stay in their ranges. *)
THEOREM TypeCorrect == Spec => []TypeOK
<1>1. RingInv => TypeOK
  BY DEF RingInv
<1> QED
  BY <1>1, Invariance, PTL

(***************************************************************************)
(* For every buffer size and every interleaving of the unlocked loops the  *)
(* reader gets the writer's bytes, in order and each once.                 *)
(***************************************************************************)
THEOREM StreamCorrect == Spec => []DeliveredInOrder
<1>1. RingInv => DeliveredInOrder
  BY DEF RingInv
<1> QED
  BY <1>1, Invariance, PTL

(* The writer never runs into bytes the reader has not copied. *)
THEOREM OverrunFree == Spec => []NeverOverrun
<1>1. RingInv => NeverOverrun
  <2> SUFFICES ASSUME RingInv PROVE NeverOverrun
    OBVIOUS
  <2>1. /\ Unfreed \in Slots /\ Readable \in Slots /\ Unpublished \in Slots
    BY PlacesTyped DEF RingInv
  <2>2. Readable + Unpublished = sent - Len(rcvd) /\ Used <= BufferSize - 1
    BY DEF RingInv, Counted, Ordered
  <2> QED
    BY <2>1, <2>2, RingAssumption DEF NeverOverrun, Used, Slots
<1> QED
  BY <1>1, Invariance, PTL

(* No copy leaves the user's buffer or the circular buffer. *)
THEOREM CopySafe == Spec => []CopyInBounds
<1>1. RingInv => CopyInBounds
  BY DEF RingInv, CopyOK, LoopOK, CopyInBounds
<1> QED
  BY <1>1, Invariance, PTL
=============================================================================
