------------------------- MODULE XenShmDeviceProofs -------------------------
(***************************************************************************)
(* Proofs about XenShmDevice, for any instances, domains and page counts.  *)
(* The invariant DeviceInv is inductive; the properties the run checks     *)
(* follow from it.                                                         *)
(***************************************************************************)
EXTENDS XenShmDevice, FiniteSetTheorems, TLAPS

(***************************************************************************)
(* Where an instance can be in its life, and what it may hold there.  The  *)
(* last conjunct is what makes release complete: data pages are mapped     *)
(* only inside mmap or after it, and in a PV domain only while the user's  *)
(* mapping exists, which keeps the file open.                              *)
(***************************************************************************)
LifeOK(i) ==
  /\ call[i] # "none" => file[i] = "open"
  /\ call[i] = "connecting" => state[i] = "OPENED"
  /\ call[i] = "mapping" => state[i] = "RECEIVER"
  /\ Receiver(i) \/ call[i] = "connecting" => peer[i] \in Instances
  /\ HoldsHeader(i) => pages_count[i] >= 2
  /\ mem[i] => /\ file[i] \notin {"none", "freed"}
               /\ state[i] # "OPENED" \/ call[i] = "connecting"
  /\ ec[i] => file[i] \notin {"none", "freed"} /\ state[i] # "OPENED"
  /\ Receiver(i) /\ file[i] # "freed" => ec[i]
  /\ vma[i] => file[i] = "open"
  /\ file[i] = "none" => state[i] = "OPENED"
  /\ handles[i] # {} =>
       /\ handles[i] \subseteq DataPages(i)
       /\ Receiver(i) /\ file[i] # "freed"
       /\ \/ call[i] = "mapping"
          \/ /\ state[i] = "RECEIVER_MAPPED"
             /\ Home[i] \in PV => vma[i]

(***************************************************************************)
(* Mapped pages are granted, granted pages belong to an offerer that still *)
(* has its memory, and it has not counted them down yet.                   *)
(***************************************************************************)
MapsGranted == \A r \in Instances : \A m \in maps[r] : m[2] \in grants[m[1]]

GrantsOK(o) ==
  /\ grants[o] # {} => /\ mem[o] /\ state[o] = "OFFERER"
                       /\ file[o] \notin {"none", "freed"}
  /\ \A p \in grants[o] : p < pages_count[o]

(* A connected receiver is the one its offerer's port is bound to. *)
BoundOK ==
  /\ \A i \in Instances : ec[i] /\ Receiver(i) => bound[peer[i]] = i
  /\ \A i, o \in Instances :
       bound[o] = i => ec[i] /\ Receiver(i) /\ peer[i] = o

DeviceInv ==
  /\ TypeOK
  /\ \A i \in Instances : LifeOK(i)
  /\ HandlesExact
  /\ MapsGranted
  /\ \A o \in Instances : GrantsOK(o)
  /\ BoundOK
-----------------------------------------------------------------------------
LEMMA InPairs ==
  \A o, S, m : m \in Pairs(o, S) <=> \E p \in S : m = <<o, p>>
BY DEF Pairs

(* A sweep over all data pages misses none (xen_shm.c:384-406). *)
LEMMA SweptAll ==
  ASSUME NEW i \in Instances, pages_count[i] \in Nat,
         handles[i] \subseteq DataPages(i)
  PROVE  Swept(i, 1, pages_count[i] - 1) = handles[i]
<1>1. ASSUME NEW p \in handles[i]
      PROVE  Cardinality({q \in handles[i] : 1 <= q /\ q < p}) < pages_count[i] - 1
  <2> DEFINE B == {q \in handles[i] : 1 <= q /\ q < p}
  <2>1. p \in 1 .. pages_count[i] - 1
    BY <1>1 DEF DataPages
  <2>2. B \subseteq 1 .. p - 1
    BY <2>1 DEF DataPages
  <2>3. IsFiniteSet(1 .. p - 1) /\ Cardinality(1 .. p - 1) = p - 1
    <3>1. p \in Int /\ 1 \in Int /\ p - 1 \in Int /\ p >= 1
      BY <2>1
    <3>2. /\ IsFiniteSet(1 .. p - 1)
          /\ Cardinality(1 .. p - 1) = IF 1 > p - 1 THEN 0 ELSE p - 1 - 1 + 1
      BY <3>1, FS_Interval
    <3> QED
      BY <3>1, <3>2
  <2>4. Cardinality(B) <= p - 1 /\ Cardinality(B) \in Nat
    BY <2>2, <2>3, FS_Subset, FS_CardinalityType
  <2> HIDE DEF B
  <2>5. Cardinality(B) < pages_count[i] - 1
    BY <2>1, <2>4
  <2> QED
    BY <2>5 DEF B
<1>2. \A p \in handles[i] : p >= 1
  BY DEF DataPages
<1> QED
  BY <1>1, <1>2 DEF Swept

(***************************************************************************)
(* Unmapping pages that are mapped keeps unmap_ops exact, and maps nothing *)
(* new.                                                                    *)
(***************************************************************************)
LEMMA Unmapped ==
  ASSUME TypeOK, HandlesExact, NEW i \in Instances, peer[i] \in Instances,
         NEW S \in SUBSET Page, NEW F \in SUBSET S,
         \A p \in S : p \in handles[i] \/ (p = 0 /\ HoldsHeader(i)),
         UnmapBut(i, S, F)
  PROVE  /\ maps' \in [Instances -> SUBSET (Instances \X Page)]
         /\ handles' \in [Instances -> SUBSET (1 .. MaxPages)]
         /\ orphans' \in [Instances -> SUBSET (Instances \X Page)]
         /\ \A j \in Instances : j # i => /\ maps'[j] = maps[j]
                                          /\ handles'[j] = handles[j]
                                          /\ orphans'[j] = orphans[j]
         /\ handles'[i] = handles[i] \ S
         /\ maps'[i] \subseteq maps[i]
         /\ maps'[i] = orphans'[i] \cup Pairs(peer[i], handles'[i])
                \cup (IF HoldsHeader(i) /\ 0 \notin S THEN {<<peer[i], 0>>} ELSE {})
<1> DEFINE H == IF HoldsHeader(i) THEN {<<peer[i], 0>>} ELSE {}
           K == IF HoldsHeader(i) /\ 0 \notin S THEN {<<peer[i], 0>>} ELSE {}
<1>1. /\ handles' = [handles EXCEPT ![i] = @ \ S]
      /\ orphans' = [orphans EXCEPT ![i] = @ \cup Pairs(peer[i], F)]
      /\ maps' = [maps EXCEPT ![i] =
                    (@ \ Pairs(peer[i], S)) \cup orphans[i] \cup Pairs(peer[i], F)]
  BY DEF UnmapBut
<1>2. /\ maps \in [Instances -> SUBSET (Instances \X Page)]
      /\ handles \in [Instances -> SUBSET (1 .. MaxPages)]
      /\ orphans \in [Instances -> SUBSET (Instances \X Page)]
  BY DEF TypeOK
<1>3. Pairs(peer[i], F) \subseteq Instances \X Page
  BY InPairs
<1>4. /\ handles'[i] = handles[i] \ S
      /\ orphans'[i] = orphans[i] \cup Pairs(peer[i], F)
      /\ maps'[i] = (maps[i] \ Pairs(peer[i], S)) \cup orphans[i] \cup Pairs(peer[i], F)
  BY <1>1, <1>2
<1>5. maps[i] = orphans[i] \cup Pairs(peer[i], handles[i]) \cup H
  BY DEF HandlesExact
<1>6. \A m : m \in H <=> HoldsHeader(i) /\ m = <<peer[i], 0>>
  OBVIOUS
<1>7. \A m : m \in K <=> HoldsHeader(i) /\ 0 \notin S /\ m = <<peer[i], 0>>
  OBVIOUS
<1> HIDE DEF H, K
<1>8. Pairs(peer[i], S) \subseteq maps[i]
  BY <1>5, <1>6, InPairs
<1>9. Pairs(peer[i], F) \subseteq Pairs(peer[i], S)
  BY InPairs
<1>10. maps'[i] \subseteq maps[i]
  BY <1>4, <1>5, <1>8, <1>9
<1>11. ASSUME NEW m PROVE m \in maps'[i] <=>
         m \in orphans'[i] \/ m \in Pairs(peer[i], handles'[i]) \/ m \in K
  <2>1. m \in Pairs(peer[i], S) <=> \E p \in S : m = <<peer[i], p>>
    BY InPairs
  <2>2. m \in Pairs(peer[i], handles[i]) <=> \E p \in handles[i] : m = <<peer[i], p>>
    BY InPairs
  <2>3. m \in Pairs(peer[i], handles'[i]) <=>
          \E p \in handles[i] : p \notin S /\ m = <<peer[i], p>>
    BY InPairs, <1>4
  <2>4. m \in maps[i] <=> m \in orphans[i] \/ m \in Pairs(peer[i], handles[i])
                             \/ (HoldsHeader(i) /\ m = <<peer[i], 0>>)
    BY <1>5, <1>6
  <2> QED
    BY <1>4, <1>7, <2>1, <2>2, <2>3, <2>4
<1>12. maps'[i] = orphans'[i] \cup Pairs(peer[i], handles'[i]) \cup K
  BY <1>11
<1>13. /\ maps' \in [Instances -> SUBSET (Instances \X Page)]
       /\ handles' \in [Instances -> SUBSET (1 .. MaxPages)]
       /\ orphans' \in [Instances -> SUBSET (Instances \X Page)]
  BY <1>1, <1>2, <1>3
<1>14. \A j \in Instances : j # i => /\ maps'[j] = maps[j]
                                    /\ handles'[j] = handles[j]
                                    /\ orphans'[j] = orphans[j]
  BY <1>1, <1>2
<1> QED
  BY <1>4, <1>10, <1>12, <1>13, <1>14 DEF K

(* Every initial state satisfies the invariant. *)
LEMMA InitInv == Init => DeviceInv
<1> SUFFICES ASSUME Init PROVE DeviceInv
  OBVIOUS
<1>1. TypeOK
  <2>1. mem \in [Instances -> BOOLEAN] /\ ec \in [Instances -> BOOLEAN]
          /\ vma \in [Instances -> BOOLEAN]
    BY Zenon DEF Init
  <2> QED
    BY <2>1, DeviceAssumption DEF Init, TypeOK, Page
<1>2. \A i \in Instances : LifeOK(i)
  BY DEF Init, LifeOK, Receiver, HoldsHeader
<1>3. HandlesExact
  <2>1. \A i \in Instances : Pairs(peer[i], handles[i]) = {}
    BY DEF Init, Pairs
  <2> QED
    BY <2>1 DEF Init, HandlesExact, HoldsHeader, Receiver
<1>4. MapsGranted /\ \A o \in Instances : GrantsOK(o)
  BY DEF Init, MapsGranted, GrantsOK
<1>5. BoundOK
  BY DeviceAssumption DEF Init, BoundOK, Receiver
<1> QED
  BY <1>1, <1>2, <1>3, <1>4, <1>5 DEF DeviceInv

(* xen_shm_open. *)
LEMMA OpenInv ==
  ASSUME DeviceInv, NEW i \in Instances, Open(i)
  PROVE  DeviceInv'
<1> USE DEF DeviceInv
<1>1. TypeOK'
  BY DeviceAssumption DEF TypeOK, Open, owner, mapping, channel, Page, Retried
<1>2. \A j \in Instances : LifeOK(j)'
  BY DEF TypeOK, LifeOK, Open, owner, mapping, channel, Receiver, HoldsHeader,
         DataPages, Idle, Retried
<1>3. HandlesExact'
  BY DEF TypeOK, HandlesExact, LifeOK, Open, owner, mapping, channel,
         Receiver, HoldsHeader, Idle, Retried
<1>4. MapsGranted'
  BY DEF TypeOK, MapsGranted, GrantsOK, Open, owner, mapping, channel, Retried
<1>5. \A x \in Instances : GrantsOK(x)'
  BY DEF TypeOK, GrantsOK, LifeOK, Open, owner, mapping, channel, Idle, Retried
<1>6. BoundOK'
  BY DEF TypeOK, BoundOK, LifeOK, Open, owner, mapping, channel, Receiver, Idle
<1> QED
  BY <1>1, <1>2, <1>3, <1>4, <1>5, <1>6

(* INIT_OFFERER: the grants are new, so nobody maps them yet. *)
LEMMA InitOffererInv ==
  ASSUME DeviceInv, NEW i \in Instances, NEW n \in 1 .. MaxPages,
         InitOfferer(i, n)
  PROVE  DeviceInv'
<1> USE DEF DeviceInv
<1>1. TypeOK'
  BY DeviceAssumption DEF TypeOK, InitOfferer, owner, mapping, channel, Page
<1>2. \A j \in Instances : LifeOK(j)'
  BY DEF TypeOK, LifeOK, InitOfferer, owner, mapping, channel, Receiver,
         HoldsHeader, DataPages, Idle
<1>3. HandlesExact'
  BY DEF TypeOK, HandlesExact, LifeOK, InitOfferer, owner, mapping, channel,
         Receiver, HoldsHeader, Idle
<1>4. MapsGranted'
  BY DEF TypeOK, MapsGranted, GrantsOK, InitOfferer, owner, mapping, channel
<1>5. \A x \in Instances : GrantsOK(x)'
  <2>1. ASSUME NEW o \in Instances, o # i PROVE GrantsOK(o)'
    BY <2>1 DEF TypeOK, GrantsOK, InitOfferer
  <2>2. PICK G \in SUBSET (0 .. n) : grants' = [grants EXCEPT ![i] = G]
    BY DEF InitOfferer
  <2>3. grants'[i] = G /\ pages_count'[i] = n + 1 /\ n \in Int
    BY <2>2, DeviceAssumption DEF TypeOK, InitOfferer
  <2>4. \A p \in grants'[i] : p < pages_count'[i]
    <3>1. n \in Int
      BY <2>3
    <3>2. \A p \in 0 .. n : p < n + 1
      BY <3>1
    <3>3. \A p \in G : p < n + 1
      BY <3>2
    <3> QED
      BY <2>3, <3>3
  <2>5. mem'[i] /\ state'[i] = "OFFERER" /\ file'[i] = "open"
    BY DEF TypeOK, InitOfferer, Idle
  <2> QED
    BY <2>1, <2>4, <2>5 DEF GrantsOK
<1>6. BoundOK'
  BY DEF TypeOK, BoundOK, LifeOK, InitOfferer, owner, mapping, channel,
         Receiver, Idle
<1> QED
  BY <1>1, <1>2, <1>3, <1>4, <1>5, <1>6

(* A failed INIT. *)
LEMMA InitFailsInv ==
  ASSUME DeviceInv, NEW i \in Instances, NEW n \in 1 .. MaxPages,
         InitFails(i, n)
  PROVE  DeviceInv'
<1> USE DEF DeviceInv
<1>1. TypeOK'
  BY DeviceAssumption DEF TypeOK, InitFails, owner, mapping, channel, Page
<1>2. \A j \in Instances : LifeOK(j)'
  BY DEF TypeOK, LifeOK, InitFails, owner, mapping, channel, Receiver,
         HoldsHeader, DataPages, Idle
<1>3. HandlesExact'
  BY DEF TypeOK, HandlesExact, LifeOK, InitFails, owner, mapping, channel,
         Receiver, HoldsHeader, Idle
<1>4. MapsGranted'
  BY DEF TypeOK, MapsGranted, GrantsOK, InitFails, owner, mapping, channel
<1>5. \A x \in Instances : GrantsOK(x)'
  BY DEF TypeOK, GrantsOK, LifeOK, InitFails, owner, mapping, channel, Idle
<1>6. BoundOK'
  BY DEF TypeOK, BoundOK, LifeOK, InitFails, owner, mapping, channel,
         Receiver, Idle
<1> QED
  BY <1>1, <1>2, <1>3, <1>4, <1>5, <1>6

(* INIT_RECEIVER maps a header page that is granted. *)
LEMMA ReceiverMapInv ==
  ASSUME DeviceInv, NEW i \in Instances, NEW o \in Instances,
         NEW n \in 1 .. MaxPages, ReceiverMap(i, o, n)
  PROVE  DeviceInv'
<1> USE DEF DeviceInv
<1>1. TypeOK'
  BY DeviceAssumption DEF TypeOK, ReceiverMap, owner, mapping, channel, Page
<1>2. \A j \in Instances : LifeOK(j)'
  BY DEF TypeOK, LifeOK, ReceiverMap, owner, mapping, channel, Receiver,
         HoldsHeader, DataPages, Idle
<1>3. HandlesExact'
  <2>1. handles[i] = {} /\ ~HoldsHeader(i)
    BY DEF ReceiverMap, LifeOK, Receiver, HoldsHeader, Idle
  <2>2. maps[i] = orphans[i]
    BY <2>1, InPairs DEF HandlesExact
  <2>3. /\ maps'[i] = orphans'[i] \cup {<<o, 0>>} /\ handles'[i] = {}
        /\ peer'[i] = o /\ call'[i] = "connecting"
    BY <2>1, <2>2 DEF TypeOK, ReceiverMap
  <2>4. Pairs(peer'[i], handles'[i]) = {}
    BY <2>3, InPairs
  <2>5. \A j \in Instances : j # i =>
          /\ maps'[j] = maps[j] /\ orphans'[j] = orphans[j]
          /\ peer'[j] = peer[j] /\ handles'[j] = handles[j]
          /\ HoldsHeader(j)' = HoldsHeader(j)
    BY DEF TypeOK, ReceiverMap, HoldsHeader, Receiver
  <2> QED
    BY <2>3, <2>4, <2>5 DEF HandlesExact, HoldsHeader
<1>4. MapsGranted'
  BY DEF TypeOK, MapsGranted, GrantsOK, ReceiverMap, owner, mapping, channel
<1>5. \A x \in Instances : GrantsOK(x)'
  BY DEF TypeOK, GrantsOK, LifeOK, ReceiverMap, owner, mapping, channel, Idle
<1>6. BoundOK'
  BY DEF TypeOK, BoundOK, LifeOK, ReceiverMap, owner, mapping, channel,
         Receiver, Idle
<1> QED
  BY <1>1, <1>2, <1>3, <1>4, <1>5, <1>6

(* The second half of INIT_RECEIVER takes an unbound port. *)
LEMMA ReceiverConnectInv ==
  ASSUME DeviceInv, NEW i \in Instances, ReceiverConnect(i)
  PROVE  DeviceInv'
<1> USE DEF DeviceInv
<1>1. TypeOK'
  BY DeviceAssumption DEF TypeOK, ReceiverConnect, owner, mapping, channel, Page
<1>2. \A j \in Instances : LifeOK(j)'
  BY DEF TypeOK, LifeOK, ReceiverConnect, owner, mapping, channel, Receiver,
         HoldsHeader, DataPages, Idle
<1>3. HandlesExact'
  BY DEF TypeOK, HandlesExact, LifeOK, ReceiverConnect, owner, mapping,
         channel, Receiver, HoldsHeader, Idle
<1>4. MapsGranted'
  BY DEF TypeOK, MapsGranted, GrantsOK, ReceiverConnect, owner, mapping, channel
<1>5. \A x \in Instances : GrantsOK(x)'
  BY DEF TypeOK, GrantsOK, LifeOK, ReceiverConnect, owner, mapping, channel,
         Idle
<1>6. BoundOK'
  <2> DEFINE o == peer[i]
  <2>1. o \in Instances /\ bound[o] = NoOne /\ state[i] = "OPENED"
    BY DEF ReceiverConnect, LifeOK
  <2>2. /\ bound'[o] = i /\ ec'[i] /\ state'[i] = "RECEIVER" /\ peer' = peer
        /\ \A x \in Instances : x # o => bound'[x] = bound[x]
        /\ \A j \in Instances : j # i => (ec'[j] <=> ec[j]) /\ state'[j] = state[j]
    BY <2>1 DEF TypeOK, ReceiverConnect
  <2> HIDE DEF o
  <2>3. \A j \in Instances : ec[j] /\ Receiver(j) => peer[j] # o
    BY <2>1, DeviceAssumption DEF BoundOK
  <2>4. \A j \in Instances : ec'[j] /\ Receiver(j)' => bound'[peer'[j]] = j
    BY <2>2, <2>3 DEF BoundOK, Receiver, LifeOK, o
  <2>5. \A j, x \in Instances :
          bound'[x] = j => ec'[j] /\ Receiver(j)' /\ peer'[j] = x
    BY <2>1, <2>2 DEF BoundOK, Receiver, o
  <2> QED
    BY <2>4, <2>5 DEF BoundOK
<1> QED
  BY <1>1, <1>2, <1>3, <1>4, <1>5, <1>6

(* mmap of an offerer. *)
LEMMA MmapOffererInv ==
  ASSUME DeviceInv, NEW i \in Instances, MmapOfferer(i)
  PROVE  DeviceInv'
<1> USE DEF DeviceInv
<1>1. TypeOK'
  BY DeviceAssumption DEF TypeOK, MmapOfferer, owner, mapping, channel, Page
<1>2. \A j \in Instances : LifeOK(j)'
  BY DEF TypeOK, LifeOK, MmapOfferer, owner, mapping, channel, Receiver,
         HoldsHeader, DataPages, Idle
<1>3. HandlesExact'
  BY DEF TypeOK, HandlesExact, LifeOK, MmapOfferer, owner, mapping, channel,
         Receiver, HoldsHeader, Idle
<1>4. MapsGranted'
  BY DEF TypeOK, MapsGranted, GrantsOK, MmapOfferer, owner, mapping, channel
<1>5. \A x \in Instances : GrantsOK(x)'
  BY DEF TypeOK, GrantsOK, LifeOK, MmapOfferer, owner, mapping, channel, Idle
<1>6. BoundOK'
  BY DEF TypeOK, BoundOK, LifeOK, MmapOfferer, owner, mapping, channel,
         Receiver, Idle
<1> QED
  BY <1>1, <1>2, <1>3, <1>4, <1>5, <1>6

(* mmap of a receiver maps granted pages. *)
LEMMA MmapReceiverInv ==
  ASSUME DeviceInv, NEW i \in Instances, MmapReceiver(i)
  PROVE  DeviceInv'
<1> USE DEF DeviceInv
<1>1. TypeOK'
  <2>0. PICK S \in SUBSET (DataPages(i) \cap grants[peer[i]]) :
          /\ maps' = [maps EXCEPT ![i] = @ \cup Pairs(peer[i], S)]
          /\ handles' = [handles EXCEPT ![i] = S]
    BY DEF MmapReceiver
  <2>1. /\ peer[i] \in Instances /\ pages_count[i] \in 0 .. MaxPages + 1
        /\ grants[peer[i]] \subseteq Page
    BY DEF MmapReceiver, LifeOK, Receiver, TypeOK
  <2>2. S \subseteq 1 .. MaxPages /\ S \subseteq Page
    BY <2>1, DeviceAssumption DEF DataPages, Page
  <2>3. Pairs(peer[i], S) \subseteq Instances \X Page
    BY <2>1, <2>2, InPairs
  <2> QED
    BY <2>0, <2>2, <2>3 DEF TypeOK, MmapReceiver, owner, channel
<1>2. \A j \in Instances : LifeOK(j)'
  <2>0. PICK S \in SUBSET (DataPages(i) \cap grants[peer[i]]) :
          /\ maps' = [maps EXCEPT ![i] = @ \cup Pairs(peer[i], S)]
          /\ handles' = [handles EXCEPT ![i] = S]
    BY DEF MmapReceiver
  <2>1. handles'[i] \subseteq DataPages(i)
    BY <2>0 DEF TypeOK
  <2>2. \A j \in Instances : j # i => handles'[j] = handles[j]
    BY <2>0 DEF TypeOK
  <2> QED
    BY <2>1, <2>2 DEF TypeOK, LifeOK, MmapReceiver, owner, channel, Receiver,
                      HoldsHeader, DataPages, Idle
<1>3. HandlesExact'
  <2>0. PICK S \in SUBSET (DataPages(i) \cap grants[peer[i]]) :
          /\ maps' = [maps EXCEPT ![i] = @ \cup Pairs(peer[i], S)]
          /\ handles' = [handles EXCEPT ![i] = S]
    BY DEF MmapReceiver
  <2>1. handles[i] = {} /\ HoldsHeader(i)
    BY DEF MmapReceiver, LifeOK, Receiver, HoldsHeader, Idle
  <2>2. maps[i] = orphans[i] \cup {<<peer[i], 0>>}
    BY <2>1, InPairs DEF HandlesExact
  <2>3. /\ maps'[i] = maps[i] \cup Pairs(peer[i], S) /\ handles'[i] = S
        /\ orphans' = orphans /\ peer' = peer
    BY <2>0 DEF TypeOK, MmapReceiver
  <2>4. \A j \in Instances : HoldsHeader(j)' = HoldsHeader(j)
    BY DEF TypeOK, MmapReceiver, HoldsHeader, Receiver, Idle
  <2>5. \A j \in Instances : j # i => maps'[j] = maps[j] /\ handles'[j] = handles[j]
    BY <2>0 DEF TypeOK
  <2> QED
    BY <2>1, <2>2, <2>3, <2>4, <2>5 DEF HandlesExact
<1>4. MapsGranted'
  <2>0. PICK S \in SUBSET (DataPages(i) \cap grants[peer[i]]) :
          /\ maps' = [maps EXCEPT ![i] = @ \cup Pairs(peer[i], S)]
          /\ handles' = [handles EXCEPT ![i] = S]
    BY DEF MmapReceiver
  <2>1. \A m \in Pairs(peer[i], S) : m[2] \in grants[m[1]]
    BY InPairs
  <2>2. /\ maps'[i] = maps[i] \cup Pairs(peer[i], S) /\ grants' = grants
        /\ \A j \in Instances : j # i => maps'[j] = maps[j]
    BY <2>0 DEF TypeOK, MmapReceiver, owner
  <2> QED
    BY <2>1, <2>2 DEF MapsGranted
<1>5. \A x \in Instances : GrantsOK(x)'
  BY DEF TypeOK, GrantsOK, LifeOK, MmapReceiver, owner, mapping, channel, Idle
<1>6. BoundOK'
  BY DEF TypeOK, BoundOK, LifeOK, MmapReceiver, owner, mapping, channel,
         Receiver, Idle
<1> QED
  BY <1>1, <1>2, <1>3, <1>4, <1>5, <1>6

(* Pages mapped in a call that failed have no handle, and are orphans. *)
LEMMA MmapMapRefsFailsInv ==
  ASSUME DeviceInv, NEW i \in Instances, MmapMapRefsFails(i)
  PROVE  DeviceInv'
<1> USE DEF DeviceInv
<1>0. PICK S \in SUBSET (DataPages(i) \cap grants[peer[i]]) :
        /\ maps' = [maps EXCEPT ![i] = @ \cup Pairs(peer[i], S)]
        /\ orphans' = [orphans EXCEPT ![i] = @ \cup Pairs(peer[i], S)]
  BY DEF MmapMapRefsFails
<1>7. Pairs(peer[i], S) \subseteq Instances \X Page
  <2>1. /\ peer[i] \in Instances /\ pages_count[i] \in 0 .. MaxPages + 1
        /\ grants[peer[i]] \subseteq Page
    BY DEF MmapMapRefsFails, LifeOK, Receiver, TypeOK
  <2>2. S \subseteq Page
    BY <2>1, DeviceAssumption DEF DataPages, Page
  <2> QED
    BY <2>1, <2>2, InPairs
<1>8. /\ maps'[i] = maps[i] \cup Pairs(peer[i], S)
      /\ orphans'[i] = orphans[i] \cup Pairs(peer[i], S)
      /\ \A j \in Instances : j # i => maps'[j] = maps[j] /\ orphans'[j] = orphans[j]
      /\ UNCHANGED <<file, state, call, pages_count, size, grants, mem, ec, bound, peer,
                     handles, vma, queue>>
  BY <1>0 DEF TypeOK, MmapMapRefsFails, owner, channel
<1>1. TypeOK'
  BY <1>0, <1>7, <1>8 DEF TypeOK
<1>2. \A j \in Instances : LifeOK(j)'
  BY <1>8 DEF LifeOK, Receiver, HoldsHeader, DataPages, Idle
<1>3. HandlesExact'
  <2>1. \A j \in Instances : HoldsHeader(j)' = HoldsHeader(j)
    BY <1>8 DEF HoldsHeader, Receiver
  <2> QED
    BY <1>8, <2>1 DEF HandlesExact
<1>4. MapsGranted'
  <2>1. \A m \in Pairs(peer[i], S) : m[2] \in grants[m[1]]
    BY InPairs
  <2> QED
    BY <1>8, <2>1 DEF MapsGranted
<1>5. \A x \in Instances : GrantsOK(x)'
  BY <1>8 DEF GrantsOK
<1>6. BoundOK'
  BY <1>8 DEF BoundOK, Receiver
<1> QED
  BY <1>1, <1>2, <1>3, <1>4, <1>5, <1>6

(* The end of a successful mmap. *)
LEMMA MmapDoneInv ==
  ASSUME DeviceInv, NEW i \in Instances, MmapDone(i)
  PROVE  DeviceInv'
<1> USE DEF DeviceInv
<1>1. TypeOK'
  BY DeviceAssumption DEF TypeOK, MmapDone, owner, mapping, channel, Page
<1>2. \A j \in Instances : LifeOK(j)'
  BY DEF TypeOK, LifeOK, MmapDone, owner, mapping, channel, Receiver,
         HoldsHeader, DataPages, Idle
<1>3. HandlesExact'
  BY DEF TypeOK, HandlesExact, LifeOK, MmapDone, owner, mapping, channel,
         Receiver, HoldsHeader, Idle
<1>4. MapsGranted'
  BY DEF TypeOK, MapsGranted, GrantsOK, MmapDone, owner, mapping, channel
<1>5. \A x \in Instances : GrantsOK(x)'
  BY DEF TypeOK, GrantsOK, LifeOK, MmapDone, owner, mapping, channel, Idle
<1>6. BoundOK'
  BY DEF TypeOK, BoundOK, LifeOK, MmapDone, owner, mapping, channel, Receiver,
         Idle
<1> QED
  BY <1>1, <1>2, <1>3, <1>4, <1>5, <1>6

(* xen_shm_release up to __xen_shm_prepare_free. *)
LEMMA ReleaseInv ==
  ASSUME DeviceInv, NEW i \in Instances, Release(i)
  PROVE  DeviceInv'
<1> USE DEF DeviceInv
<1>1. TypeOK'
  BY DeviceAssumption DEF TypeOK, Release, owner, mapping, channel, Page,
                          Retried
<1>2. \A j \in Instances : LifeOK(j)'
  BY DEF TypeOK, LifeOK, Release, owner, mapping, channel, Receiver,
         HoldsHeader, DataPages, Idle, Retried
<1>3. HandlesExact'
  BY DEF TypeOK, HandlesExact, LifeOK, Release, owner, mapping, channel,
         Receiver, HoldsHeader, Idle, Retried
<1>4. MapsGranted'
  BY DEF TypeOK, MapsGranted, GrantsOK, Release, owner, mapping, channel,
         Retried
<1>5. \A x \in Instances : GrantsOK(x)'
  BY DEF TypeOK, GrantsOK, LifeOK, Release, owner, mapping, channel, Idle,
         Retried
<1>6. BoundOK'
  BY DEF TypeOK, BoundOK, LifeOK, Release, owner, mapping, channel, Receiver,
         Idle
<1> QED
  BY <1>1, <1>2, <1>3, <1>4, <1>5, <1>6

(* Only a page that nobody maps is taken back. *)
LEMMA EndGrantInv ==
  ASSUME DeviceInv, NEW i \in Instances, EndGrant(i)
  PROVE  DeviceInv'
<1> USE DEF DeviceInv
<1>1. TypeOK'
  BY DeviceAssumption DEF TypeOK, EndGrant, owner, mapping, channel, Page,
                          Mapped
<1>2. \A j \in Instances : LifeOK(j)'
  BY DEF TypeOK, LifeOK, EndGrant, owner, mapping, channel, Receiver,
         HoldsHeader, DataPages, Idle, Mapped
<1>3. HandlesExact'
  BY DEF TypeOK, HandlesExact, LifeOK, EndGrant, owner, mapping, channel,
         Receiver, HoldsHeader, Idle, Mapped
<1>4. MapsGranted'
  <2> DEFINE last == pages_count[i] - 1
  <2>1. ASSUME NEW r \in Instances, NEW m \in maps[r]
        PROVE  m[2] \in grants'[m[1]]
    <3>1. m[2] \in grants[m[1]] /\ m[1] \in Instances /\ m = <<m[1], m[2]>>
      BY DEF TypeOK, MapsGranted
    <3>2. m # <<i, last>>
      BY DEF EndGrant, Mapped
    <3>3. grants' = [grants EXCEPT ![i] = @ \ {last}]
      BY DEF EndGrant
    <3> HIDE DEF last
    <3> QED
      BY <3>1, <3>2, <3>3 DEF TypeOK
  <2>2. maps' = maps
    BY DEF EndGrant, mapping
  <2> QED
    BY <2>1, <2>2 DEF MapsGranted
<1>5. \A x \in Instances : GrantsOK(x)'
  <2>1. \A x \in Instances : x # i => GrantsOK(x)'
    BY DEF TypeOK, GrantsOK, EndGrant
  <2>2. /\ grants'[i] = grants[i] \ {pages_count[i] - 1}
        /\ pages_count'[i] = pages_count[i] - 1
        /\ mem' = mem /\ state' = state /\ file' = file
    BY DEF TypeOK, EndGrant
  <2>3. grants[i] \subseteq Int /\ pages_count[i] \in Int
    BY DeviceAssumption DEF TypeOK, Page
  <2>4. \A p \in grants'[i] : p < pages_count'[i]
    BY <2>2, <2>3 DEF GrantsOK
  <2>5. GrantsOK(i)'
    BY <2>2, <2>4 DEF GrantsOK
  <2> QED
    BY <2>1, <2>5
<1>6. BoundOK'
  BY DEF TypeOK, BoundOK, LifeOK, EndGrant, owner, mapping, channel, Receiver,
         Idle
<1> QED
  BY <1>1, <1>2, <1>3, <1>4, <1>5, <1>6

(* An offerer is put aside. *)
LEMMA GrantInUseInv ==
  ASSUME DeviceInv, NEW i \in Instances, GrantInUse(i)
  PROVE  DeviceInv'
<1> USE DEF DeviceInv
<1>1. TypeOK'
  BY DeviceAssumption DEF TypeOK, GrantInUse, owner, mapping, channel, Page,
                          Delay, AddDelayed
<1>2. \A j \in Instances : LifeOK(j)'
  BY DEF TypeOK, LifeOK, GrantInUse, owner, mapping, channel, Receiver,
         HoldsHeader, DataPages, Idle, Delay, AddDelayed
<1>3. HandlesExact'
  BY DEF TypeOK, HandlesExact, LifeOK, GrantInUse, owner, mapping, channel,
         Receiver, HoldsHeader, Idle, Delay, AddDelayed
<1>4. MapsGranted'
  BY DEF TypeOK, MapsGranted, GrantsOK, GrantInUse, owner, mapping, channel,
         Delay, AddDelayed
<1>5. \A x \in Instances : GrantsOK(x)'
  BY DEF TypeOK, GrantsOK, LifeOK, GrantInUse, owner, mapping, channel, Idle,
         Delay, AddDelayed
<1>6. BoundOK'
  BY DEF TypeOK, BoundOK, LifeOK, GrantInUse, owner, mapping, channel,
         Receiver, Idle
<1> QED
  BY <1>1, <1>2, <1>3, <1>4, <1>5, <1>6

(* All grants have ended, so nothing of the offerer is mapped. *)
LEMMA FreeOffererInv ==
  ASSUME DeviceInv, NEW i \in Instances, FreeOfferer(i)
  PROVE  DeviceInv'
<1> USE DEF DeviceInv
<1>1. TypeOK'
  BY DeviceAssumption DEF TypeOK, FreeOfferer, owner, mapping, channel, Page,
                          Forget
<1>2. \A j \in Instances : LifeOK(j)'
  BY DEF TypeOK, LifeOK, FreeOfferer, owner, mapping, channel, Receiver,
         HoldsHeader, DataPages, Idle, Forget
<1>3. HandlesExact'
  BY DEF TypeOK, HandlesExact, LifeOK, FreeOfferer, owner, mapping, channel,
         Receiver, HoldsHeader, Idle, Forget
<1>4. MapsGranted'
  BY DEF TypeOK, MapsGranted, GrantsOK, FreeOfferer, owner, mapping, channel,
         Forget
<1>5. \A x \in Instances : GrantsOK(x)'
  BY DeviceAssumption DEF TypeOK, Page, GrantsOK, LifeOK, FreeOfferer, owner,
                          mapping, channel, Idle, Forget
<1>6. BoundOK'
  BY DEF TypeOK, BoundOK, LifeOK, FreeOfferer, owner, mapping, channel,
         Receiver, Idle
<1> QED
  BY <1>1, <1>2, <1>3, <1>4, <1>5, <1>6

(* An instance that was never initialised. *)
LEMMA FreeOpenedInv ==
  ASSUME DeviceInv, NEW i \in Instances, FreeOpened(i)
  PROVE  DeviceInv'
<1> USE DEF DeviceInv
<1>1. TypeOK'
  BY DeviceAssumption DEF TypeOK, FreeOpened, owner, mapping, channel, Page,
                          Forget
<1>2. \A j \in Instances : LifeOK(j)'
  BY DEF TypeOK, LifeOK, FreeOpened, owner, mapping, channel, Receiver,
         HoldsHeader, DataPages, Idle, Forget
<1>3. HandlesExact'
  BY DEF TypeOK, HandlesExact, LifeOK, FreeOpened, owner, mapping, channel,
         Receiver, HoldsHeader, Idle, Forget
<1>4. MapsGranted'
  BY DEF TypeOK, MapsGranted, GrantsOK, FreeOpened, owner, mapping, channel,
         Forget
<1>5. \A x \in Instances : GrantsOK(x)'
  BY DEF TypeOK, GrantsOK, LifeOK, FreeOpened, owner, mapping, channel, Idle,
         Forget
<1>6. BoundOK'
  BY DEF TypeOK, BoundOK, LifeOK, FreeOpened, owner, mapping, channel,
         Receiver, Idle
<1> QED
  BY <1>1, <1>2, <1>3, <1>4, <1>5, <1>6

(* undo_map of INIT_RECEIVER unmaps the header page it mapped. *)
LEMMA ReceiverUndoInv ==
  ASSUME DeviceInv, NEW i \in Instances, ReceiverUndo(i)
  PROVE  DeviceInv'
<1> USE DEF DeviceInv
<1>1. peer[i] \in Instances
  BY DEF ReceiverUndo, LifeOK
<1>2. /\ {0} \in SUBSET Page
      /\ \A p \in {0} : p \in handles[i] \/ (p = 0 /\ HoldsHeader(i))
  BY DeviceAssumption DEF ReceiverUndo, HoldsHeader, Page
<1>3. PICK F \in SUBSET {0} : UnmapBut(i, {0}, F)
  BY DEF ReceiverUndo, Unmap
<1>9. /\ maps' \in [Instances -> SUBSET (Instances \X Page)]
      /\ handles' \in [Instances -> SUBSET (1 .. MaxPages)]
      /\ orphans' \in [Instances -> SUBSET (Instances \X Page)]
      /\ \A j \in Instances : j # i => /\ maps'[j] = maps[j]
                                       /\ handles'[j] = handles[j]
                                       /\ orphans'[j] = orphans[j]
      /\ handles'[i] = handles[i] \ ({0})
      /\ maps'[i] \subseteq maps[i]
      /\ maps'[i] = orphans'[i] \cup Pairs(peer[i], handles'[i])
           \cup (IF HoldsHeader(i) /\ 0 \notin {0}
                  THEN {<<peer[i], 0>>} ELSE {})
  BY <1>1, <1>2, <1>3, Unmapped
<1>11. TypeOK'
  BY <1>9, DeviceAssumption DEF TypeOK, ReceiverUndo, owner, channel
<1>12. \A j \in Instances : LifeOK(j)'
  BY <1>9, DeviceAssumption DEF TypeOK, LifeOK, ReceiverUndo, owner, channel,
                                Receiver, HoldsHeader, DataPages, Idle
<1>13. HandlesExact'
  <2>1. HoldsHeader(i)' <=> HoldsHeader(i) /\ 0 \notin {0}
    BY DEF TypeOK, LifeOK, ReceiverUndo, HoldsHeader, Receiver, Idle
  <2>2. \A j \in Instances : j # i => (HoldsHeader(j)' <=> HoldsHeader(j))
    BY DEF TypeOK, ReceiverUndo, HoldsHeader, Receiver
  <2>3. peer' = peer
    BY DEF ReceiverUndo
  <2> QED
    BY <1>9, <2>1, <2>2, <2>3 DEF HandlesExact
<1>14. MapsGranted'
  BY <1>9 DEF TypeOK, MapsGranted, ReceiverUndo, owner, channel
<1>15. \A x \in Instances : GrantsOK(x)'
  BY DEF TypeOK, GrantsOK, LifeOK, ReceiverUndo, owner, channel, Idle, Receiver
<1>16. BoundOK'
  BY DEF TypeOK, BoundOK, LifeOK, ReceiverUndo, owner, channel, Receiver, Idle
<1> QED
  BY <1>11, <1>12, <1>13, <1>14, <1>15, <1>16

(* The error path of mmap unmaps what it had mapped. *)
LEMMA MmapCleanInv ==
  ASSUME DeviceInv, NEW i \in Instances, MmapClean(i)
  PROVE  DeviceInv'
<1> USE DEF DeviceInv
<1>1. peer[i] \in Instances
  BY DEF MmapClean, LifeOK, Receiver
<1>2. /\ handles[i] \in SUBSET Page
      /\ \A p \in handles[i] : p \in handles[i] \/ (p = 0 /\ HoldsHeader(i))
  BY DeviceAssumption DEF TypeOK, Page
<1>3. PICK F \in SUBSET handles[i] : UnmapBut(i, handles[i], F)
  BY DEF MmapClean, Unmap
<1>9. /\ maps' \in [Instances -> SUBSET (Instances \X Page)]
      /\ handles' \in [Instances -> SUBSET (1 .. MaxPages)]
      /\ orphans' \in [Instances -> SUBSET (Instances \X Page)]
      /\ \A j \in Instances : j # i => /\ maps'[j] = maps[j]
                                       /\ handles'[j] = handles[j]
                                       /\ orphans'[j] = orphans[j]
      /\ handles'[i] = handles[i] \ (handles[i])
      /\ maps'[i] \subseteq maps[i]
      /\ maps'[i] = orphans'[i] \cup Pairs(peer[i], handles'[i])
           \cup (IF HoldsHeader(i) /\ 0 \notin handles[i]
                  THEN {<<peer[i], 0>>} ELSE {})
  BY <1>1, <1>2, <1>3, Unmapped
<1>11. TypeOK'
  BY <1>9, DeviceAssumption DEF TypeOK, MmapClean, owner, channel
<1>12. \A j \in Instances : LifeOK(j)'
  BY <1>9, DeviceAssumption DEF TypeOK, LifeOK, MmapClean, owner, channel,
                                Receiver, HoldsHeader, DataPages, Idle
<1>13. HandlesExact'
  <2>1. HoldsHeader(i)' <=> HoldsHeader(i) /\ 0 \notin handles[i]
    <3>1. 0 \notin handles[i]
      BY DeviceAssumption DEF TypeOK, Swept, LeftToUnmap
    <3> QED
      BY <3>1 DEF TypeOK, LifeOK, MmapClean, HoldsHeader, Receiver, Idle
  <2>2. \A j \in Instances : j # i => (HoldsHeader(j)' <=> HoldsHeader(j))
    BY DEF TypeOK, MmapClean, HoldsHeader, Receiver
  <2>3. peer' = peer
    BY DEF MmapClean
  <2> QED
    BY <1>9, <2>1, <2>2, <2>3 DEF HandlesExact
<1>14. MapsGranted'
  BY <1>9 DEF TypeOK, MapsGranted, MmapClean, owner, channel
<1>15. \A x \in Instances : GrantsOK(x)'
  BY DEF TypeOK, GrantsOK, LifeOK, MmapClean, owner, channel, Idle, Receiver
<1>16. BoundOK'
  BY DEF TypeOK, BoundOK, LifeOK, MmapClean, owner, channel, Receiver, Idle
<1> QED
  BY <1>11, <1>12, <1>13, <1>14, <1>15, <1>16

(* The MMU notifier unmaps pages with a handle. *)
LEMMA InvalidateInv ==
  ASSUME DeviceInv, NEW i \in Instances, NEW lo \in 1 .. MaxPages,
         NEW n \in 1 .. MaxPages, Invalidate(i, lo, n)
  PROVE  DeviceInv'
<1> USE DEF DeviceInv
<1>1. peer[i] \in Instances
  BY DEF Invalidate, LifeOK, Receiver
<1>2. /\ Swept(i, lo, n) \in SUBSET Page
      /\ \A p \in Swept(i, lo, n) : p \in handles[i] \/ (p = 0 /\ HoldsHeader(i))
  BY DeviceAssumption DEF TypeOK, Page, Swept
<1>3. PICK F \in SUBSET Swept(i, lo, n) : UnmapBut(i, Swept(i, lo, n), F)
  BY DEF Invalidate, Unmap
<1>9. /\ maps' \in [Instances -> SUBSET (Instances \X Page)]
      /\ handles' \in [Instances -> SUBSET (1 .. MaxPages)]
      /\ orphans' \in [Instances -> SUBSET (Instances \X Page)]
      /\ \A j \in Instances : j # i => /\ maps'[j] = maps[j]
                                       /\ handles'[j] = handles[j]
                                       /\ orphans'[j] = orphans[j]
      /\ handles'[i] = handles[i] \ (Swept(i, lo, n))
      /\ maps'[i] \subseteq maps[i]
      /\ maps'[i] = orphans'[i] \cup Pairs(peer[i], handles'[i])
           \cup (IF HoldsHeader(i) /\ 0 \notin Swept(i, lo, n)
                  THEN {<<peer[i], 0>>} ELSE {})
  BY <1>1, <1>2, <1>3, Unmapped
<1>11. TypeOK'
  BY <1>9, DeviceAssumption DEF TypeOK, Invalidate, owner, channel
<1>12. \A j \in Instances : LifeOK(j)'
  BY <1>9, DeviceAssumption DEF TypeOK, LifeOK, Invalidate, owner, channel,
                                Receiver, HoldsHeader, DataPages, Idle
<1>13. HandlesExact'
  <2>1. HoldsHeader(i)' <=> HoldsHeader(i) /\ 0 \notin Swept(i, lo, n)
    <3>1. 0 \notin Swept(i, lo, n)
      BY DeviceAssumption DEF TypeOK, Swept, LeftToUnmap
    <3> QED
      BY <3>1 DEF TypeOK, LifeOK, Invalidate, HoldsHeader, Receiver, Idle
  <2>2. \A j \in Instances : j # i => (HoldsHeader(j)' <=> HoldsHeader(j))
    BY DEF TypeOK, Invalidate, HoldsHeader, Receiver
  <2>3. peer' = peer
    BY DEF Invalidate
  <2> QED
    BY <1>9, <2>1, <2>2, <2>3 DEF HandlesExact
<1>14. MapsGranted'
  BY <1>9 DEF TypeOK, MapsGranted, Invalidate, owner, channel
<1>15. \A x \in Instances : GrantsOK(x)'
  BY DEF TypeOK, GrantsOK, LifeOK, Invalidate, owner, channel, Idle, Receiver
<1>16. BoundOK'
  BY DEF TypeOK, BoundOK, LifeOK, Invalidate, owner, channel, Receiver, Idle
<1> QED
  BY <1>11, <1>12, <1>13, <1>14, <1>15, <1>16

(* A receiver is put aside when Xen keeps its header page. *)
LEMMA HeaderRefusedInv ==
  ASSUME DeviceInv, NEW i \in Instances, HeaderRefused(i)
  PROVE  DeviceInv'
<1> USE DEF DeviceInv
<1>1. peer[i] \in Instances
  BY DEF HeaderRefused, LifeOK, Receiver
<1>2. /\ LeftToUnmap(i) \in SUBSET Page
      /\ \A p \in LeftToUnmap(i) : p \in handles[i] \/ (p = 0 /\ HoldsHeader(i))
  BY DeviceAssumption DEF TypeOK, Page, Swept, LeftToUnmap
<1>3. PICK F \in SUBSET LeftToUnmap(i) : UnmapBut(i, LeftToUnmap(i), F)
  BY DEF HeaderRefused, Unmap
<1>9. /\ maps' \in [Instances -> SUBSET (Instances \X Page)]
      /\ handles' \in [Instances -> SUBSET (1 .. MaxPages)]
      /\ orphans' \in [Instances -> SUBSET (Instances \X Page)]
      /\ \A j \in Instances : j # i => /\ maps'[j] = maps[j]
                                       /\ handles'[j] = handles[j]
                                       /\ orphans'[j] = orphans[j]
      /\ handles'[i] = handles[i] \ (LeftToUnmap(i))
      /\ maps'[i] \subseteq maps[i]
      /\ maps'[i] = orphans'[i] \cup Pairs(peer[i], handles'[i])
           \cup (IF HoldsHeader(i) /\ 0 \notin LeftToUnmap(i)
                  THEN {<<peer[i], 0>>} ELSE {})
  BY <1>1, <1>2, <1>3, Unmapped
<1>11. TypeOK'
  BY <1>9, DeviceAssumption DEF TypeOK, HeaderRefused, owner, channel, Delay,
                                AddDelayed
<1>12. \A j \in Instances : LifeOK(j)'
  BY <1>9, DeviceAssumption DEF TypeOK, LifeOK, HeaderRefused, owner, channel,
                                Receiver, HoldsHeader, DataPages, Idle, Delay,
                                AddDelayed
<1>13. HandlesExact'
  <2>1. HoldsHeader(i)' <=> HoldsHeader(i) /\ 0 \notin LeftToUnmap(i)
    <3>1. 0 \notin LeftToUnmap(i)
      BY DeviceAssumption DEF TypeOK, Swept, LeftToUnmap
    <3> QED
      BY <3>1 DEF TypeOK, LifeOK, HeaderRefused, HoldsHeader, Receiver, Idle,
                  Delay, AddDelayed
  <2>2. \A j \in Instances : j # i => (HoldsHeader(j)' <=> HoldsHeader(j))
    BY DEF TypeOK, HeaderRefused, HoldsHeader, Receiver, Delay, AddDelayed
  <2>3. peer' = peer
    BY DEF HeaderRefused
  <2> QED
    BY <1>9, <2>1, <2>2, <2>3 DEF HandlesExact
<1>14. MapsGranted'
  BY <1>9 DEF TypeOK, MapsGranted, HeaderRefused, owner, channel, Delay,
              AddDelayed
<1>15. \A x \in Instances : GrantsOK(x)'
  BY DEF TypeOK, GrantsOK, LifeOK, HeaderRefused, owner, channel, Idle,
         Receiver, Delay, AddDelayed
<1>16. BoundOK'
  BY DEF TypeOK, BoundOK, LifeOK, HeaderRefused, owner, channel, Receiver,
         Idle, Delay, AddDelayed
<1> QED
  BY <1>11, <1>12, <1>13, <1>14, <1>15, <1>16

(* A receiver that is freed unmaps all that is left, then its header page. *)
LEMMA FreeReceiverInv ==
  ASSUME DeviceInv, NEW i \in Instances, FreeReceiver(i)
  PROVE  DeviceInv'
<1> USE DEF DeviceInv
<1>1. peer[i] \in Instances
  BY DEF FreeReceiver, LifeOK, Receiver
<1>2. /\ (LeftToUnmap(i) \cup {0}) \in SUBSET Page
      /\ \A p \in (LeftToUnmap(i) \cup {0}) : p \in handles[i] \/ (p = 0 /\ HoldsHeader(i))
  BY DeviceAssumption DEF TypeOK, Page, Swept, LeftToUnmap, FreeReceiver,
                          HoldsHeader
<1>3. PICK F \in SUBSET LeftToUnmap(i) : UnmapBut(i, (LeftToUnmap(i) \cup {0}), F)
  BY DEF FreeReceiver
<1>9. /\ maps' \in [Instances -> SUBSET (Instances \X Page)]
      /\ handles' \in [Instances -> SUBSET (1 .. MaxPages)]
      /\ orphans' \in [Instances -> SUBSET (Instances \X Page)]
      /\ \A j \in Instances : j # i => /\ maps'[j] = maps[j]
                                       /\ handles'[j] = handles[j]
                                       /\ orphans'[j] = orphans[j]
      /\ handles'[i] = handles[i] \ ((LeftToUnmap(i) \cup {0}))
      /\ maps'[i] \subseteq maps[i]
      /\ maps'[i] = orphans'[i] \cup Pairs(peer[i], handles'[i])
           \cup (IF HoldsHeader(i) /\ 0 \notin (LeftToUnmap(i) \cup {0})
                  THEN {<<peer[i], 0>>} ELSE {})
  BY <1>1, <1>2, <1>3, Unmapped
<1>10. handles'[i] = {}
  <2>1. CASE handles[i] = {}
    BY <1>9, <2>1
  <2>2. CASE handles[i] # {}
    <3>1. /\ handles[i] \subseteq DataPages(i) /\ state[i] = "RECEIVER_MAPPED"
          /\ Home[i] \notin PV /\ pages_count[i] \in Nat
      BY <2>2, DeviceAssumption DEF TypeOK, LifeOK, FreeReceiver
    <3>2. LeftToUnmap(i) = handles[i]
      BY <3>1, SweptAll DEF LeftToUnmap
    <3> QED
      BY <1>9, <3>2
  <2> QED
    BY <2>1, <2>2
<1>11. TypeOK'
  <2>1. pages_count[i] \in 1 .. MaxPages + 1
    BY DeviceAssumption DEF TypeOK, LifeOK, FreeReceiver, HoldsHeader
  <2>2. pages_count' \in [Instances -> 0 .. MaxPages + 1]
    BY <2>1, DeviceAssumption DEF TypeOK, FreeReceiver
  <2> QED
    BY <1>9, <2>2 DEF TypeOK, FreeReceiver, owner, Forget
<1>12. \A j \in Instances : LifeOK(j)'
  <2>1. LifeOK(i)'
    BY <1>9, <1>10 DEF TypeOK, LifeOK, FreeReceiver, Receiver, HoldsHeader,
                       Forget
  <2>2. ASSUME NEW j \in Instances, j # i PROVE LifeOK(j)'
    BY <1>9, <2>2 DEF TypeOK, LifeOK, FreeReceiver, Receiver, HoldsHeader,
                      DataPages, Forget
  <2> QED
    BY <2>1, <2>2
<1>13. HandlesExact'
  <2>1. ~HoldsHeader(i)'
    BY DEF TypeOK, LifeOK, FreeReceiver, HoldsHeader, Forget
  <2>2. \A j \in Instances : j # i => (HoldsHeader(j)' <=> HoldsHeader(j))
    BY DEF TypeOK, FreeReceiver, HoldsHeader, Receiver, Forget
  <2>3. peer' = peer
    BY DEF FreeReceiver
  <2> QED
    BY <1>9, <2>1, <2>2, <2>3 DEF HandlesExact
<1>14. MapsGranted'
  BY <1>9 DEF TypeOK, MapsGranted, FreeReceiver, owner, channel, Forget
<1>15. \A x \in Instances : GrantsOK(x)'
  BY DEF TypeOK, GrantsOK, LifeOK, FreeReceiver, owner, channel, Idle,
         Receiver, Forget
<1>16. BoundOK'
  <2> DEFINE o == peer[i]
  <2>1. /\ bound'[o] = NoOne /\ ~ec'[i] /\ peer' = peer /\ state' = state
        /\ \A x \in Instances : x # o => bound'[x] = bound[x]
        /\ \A j \in Instances : j # i => (ec'[j] <=> ec[j])
    BY <1>1 DEF TypeOK, FreeReceiver
  <2>2. \A x \in Instances : bound[x] = i => x = o
    BY DEF BoundOK
  <2>3. bound[o] = i
    BY DEF BoundOK, LifeOK, FreeReceiver
  <2>4. \A j \in Instances : ec'[j] /\ Receiver(j)' => bound'[peer'[j]] = j
    <3>1. \A j \in Instances : j # i /\ ec[j] /\ Receiver(j) => peer[j] # o
      BY <2>3 DEF BoundOK
    <3> QED
      BY <2>1, <3>1 DEF BoundOK, Receiver, LifeOK
  <2>5. \A j, x \in Instances :
          bound'[x] = j => ec'[j] /\ Receiver(j)' /\ peer'[j] = x
    BY <2>1, <2>2, DeviceAssumption DEF BoundOK, Receiver
  <2> QED
    BY <2>4, <2>5 DEF BoundOK
<1> QED
  BY <1>11, <1>12, <1>13, <1>14, <1>15, <1>16

(* The user's mapping goes: in a PV domain the notifier has unmapped all. *)
LEMMA MunmapInv ==
  ASSUME DeviceInv, NEW i \in Instances, Munmap(i)
  PROVE  DeviceInv'
<1> USE DEF DeviceInv
<1> DEFINE S == Swept(i, 1, pages_count[i] - 1)
<1>1. CASE Receiver(i) /\ Home[i] \in PV
  <2>1. peer[i] \in Instances
    BY <1>1 DEF LifeOK
  <2>2. /\ S \in SUBSET Page
        /\ \A p \in S : p \in handles[i] \/ (p = 0 /\ HoldsHeader(i))
    BY DeviceAssumption DEF TypeOK, Page, Swept
  <2>3. PICK F \in SUBSET S : UnmapBut(i, S, F)
    BY <1>1 DEF Munmap, Unmap
  <2>4. S = handles[i]
    <3>1. CASE handles[i] = {}
      BY <3>1 DEF Swept
    <3>2. CASE handles[i] # {}
      BY <3>2, SweptAll, DeviceAssumption DEF LifeOK, TypeOK
    <3> QED
      BY <3>1, <3>2
  <2> HIDE DEF S
  <2>5. 0 \notin S
    BY <2>4, DeviceAssumption DEF TypeOK
  <2>9. /\ maps' \in [Instances -> SUBSET (Instances \X Page)]
        /\ handles' \in [Instances -> SUBSET (1 .. MaxPages)]
        /\ orphans' \in [Instances -> SUBSET (Instances \X Page)]
        /\ \A j \in Instances : j # i => /\ maps'[j] = maps[j]
                                         /\ handles'[j] = handles[j]
                                         /\ orphans'[j] = orphans[j]
        /\ handles'[i] = {}
        /\ maps'[i] \subseteq maps[i]
        /\ maps'[i] = orphans'[i] \cup Pairs(peer[i], handles'[i])
             \cup (IF HoldsHeader(i) THEN {<<peer[i], 0>>} ELSE {})
    BY <2>1, <2>2, <2>3, <2>4, <2>5, Unmapped
  <2>11. TypeOK'
    BY <2>9 DEF TypeOK, Munmap, owner, channel
  <2>12. \A j \in Instances : LifeOK(j)'
    BY <2>9 DEF TypeOK, LifeOK, Munmap, owner, channel, Receiver, HoldsHeader,
                DataPages, Idle
  <2>13. HandlesExact'
    <3>1. peer' = peer /\ \A j \in Instances : HoldsHeader(j)' <=> HoldsHeader(j)
      BY DEF Munmap, HoldsHeader, Receiver
    <3> QED
      BY <2>9, <3>1 DEF HandlesExact
  <2>14. MapsGranted'
    BY <2>9 DEF TypeOK, MapsGranted, Munmap, owner
  <2>15. \A x \in Instances : GrantsOK(x)'
    BY DEF GrantsOK, Munmap, owner
  <2>16. BoundOK'
    BY DEF BoundOK, Munmap, channel, Receiver
  <2> QED
    BY <2>11, <2>12, <2>13, <2>14, <2>15, <2>16
<1>2. CASE ~(Receiver(i) /\ Home[i] \in PV)
  <2>1. UNCHANGED mapping
    BY <1>2 DEF Munmap
  <2>2. TypeOK'
    BY <2>1 DEF TypeOK, Munmap, owner, channel, mapping
  <2>3. \A j \in Instances : LifeOK(j)'
    BY <1>2, <2>1 DEF TypeOK, LifeOK, Munmap, owner, channel, mapping, Receiver,
                HoldsHeader, DataPages, Idle
  <2>4. HandlesExact'
    BY <2>1 DEF HandlesExact, Munmap, mapping, HoldsHeader, Receiver
  <2>5. MapsGranted' /\ \A x \in Instances : GrantsOK(x)'
    BY <2>1 DEF MapsGranted, GrantsOK, Munmap, owner, mapping
  <2>6. BoundOK'
    BY DEF BoundOK, Munmap, channel, Receiver
  <2> QED
    BY <2>2, <2>3, <2>4, <2>5, <2>6
<1> QED
  BY <1>1, <1>2

LEMMA StutterInv == DeviceInv /\ UNCHANGED vars => DeviceInv'
<1> SUFFICES ASSUME DeviceInv, UNCHANGED vars PROVE DeviceInv'
  OBVIOUS
<1>1. TypeOK'
  BY DEF DeviceInv, vars, owner, mapping, channel, TypeOK
<1>2. \A i \in Instances : LifeOK(i)'
  BY DEF DeviceInv, vars, owner, mapping, channel, LifeOK, Receiver,
         HoldsHeader, DataPages
<1>3. HandlesExact'
  BY DEF DeviceInv, vars, owner, mapping, channel, HandlesExact, HoldsHeader,
         Receiver
<1>4. MapsGranted' /\ \A x \in Instances : GrantsOK(x)'
  BY DEF DeviceInv, vars, owner, mapping, channel, MapsGranted, GrantsOK
<1>5. BoundOK'
  BY DEF DeviceInv, vars, owner, mapping, channel, BoundOK, Receiver
<1> QED
  BY <1>1, <1>2, <1>3, <1>4, <1>5 DEF DeviceInv

LEMMA NextInv == DeviceInv /\ [Next]_vars => DeviceInv'
<1> SUFFICES ASSUME DeviceInv, [Next]_vars PROVE DeviceInv'
  OBVIOUS
<1>1. CASE UNCHANGED vars
  BY <1>1, StutterInv
<1>2. ASSUME NEW i \in Instances, Free(i) PROVE DeviceInv'
  BY <1>2, EndGrantInv, GrantInUseInv, FreeOffererInv, FreeReceiverInv,
     HeaderRefusedInv, FreeOpenedInv DEF Free
<1>3. ASSUME NEW i \in Instances, NEW n \in 1 .. MaxPages,
             \/ InitOfferer(i, n) \/ InitFails(i, n)
             \/ \E o \in Instances : ReceiverMap(i, o, n)
             \/ \E lo \in 1 .. MaxPages : Invalidate(i, lo, n)
      PROVE  DeviceInv'
  BY <1>3, InitOffererInv, InitFailsInv, ReceiverMapInv, InvalidateInv
<1>4. ASSUME NEW i \in Instances,
             \/ Open(i) \/ Release(i) \/ ReceiverConnect(i) \/ ReceiverUndo(i)
             \/ MmapOfferer(i) \/ MmapReceiver(i) \/ MmapMapRefsFails(i)
             \/ MmapDone(i) \/ MmapClean(i) \/ Munmap(i)
      PROVE  DeviceInv'
  BY <1>4, OpenInv, ReleaseInv, ReceiverConnectInv, ReceiverUndoInv,
     MmapOffererInv, MmapReceiverInv, MmapMapRefsFailsInv, MmapDoneInv,
     MmapCleanInv, MunmapInv
<1> QED
  BY <1>1, <1>2, <1>3, <1>4 DEF Next

(***************************************************************************)
(* The invariant holds in every reachable state of the life cycle code.    *)
(***************************************************************************)
THEOREM Invariance == Spec => []DeviceInv
BY InitInv, NextInv, PTL DEF Spec

(***************************************************************************)
(* Type correctness: pages_count in particular is never counted below zero *)
(* by __xen_shm_prepare_free.                                              *)
(***************************************************************************)
THEOREM TypeCorrect == Spec => []TypeOK
<1>1. DeviceInv => TypeOK
  BY DEF DeviceInv
<1> QED
  BY <1>1, Invariance, PTL

(***************************************************************************)
(* Whatever order offerers and receivers close in, a mapped page is never  *)
(* given back to the allocator.                                            *)
(***************************************************************************)
THEOREM MemorySafe == Spec => []MappedIsAllocated
<1>1. DeviceInv => MappedIsAllocated
  <2> SUFFICES ASSUME DeviceInv, NEW r \in Instances, NEW m \in maps[r]
               PROVE  mem[m[1]] /\ m[2] \in grants[m[1]]
    BY DEF MappedIsAllocated
  <2>1. m[1] \in Instances
    BY DEF DeviceInv, TypeOK
  <2>2. m[2] \in grants[m[1]]
    BY DEF DeviceInv, MapsGranted
  <2> QED
    BY <2>1, <2>2 DEF DeviceInv, GrantsOK
<1> QED
  BY <1>1, Invariance, PTL

(***************************************************************************)
(* unmap_ops names the data pages that are mapped, but for those that Xen  *)
(* refused to unmap and those that a gnttab_map_refs mapped before it      *)
(* failed, for every number of domains, instances and pages                *)
(* (xen_shm.c:1259-1310).                                                  *)
(***************************************************************************)
THEOREM HandlesCorrect == Spec => []HandlesExact
<1>1. DeviceInv => HandlesExact
  BY DEF DeviceInv
<1> QED
  BY <1>1, Invariance, PTL

(***************************************************************************)
(* An instance that release frees leaves nothing behind in Xen but the     *)
(* mappings that have no handle (xen_shm.c:1261-1264, 1301-1310).          *)
(***************************************************************************)
THEOREM ReleaseComplete == Spec => []FreedLeavesNothing
<1>1. DeviceInv => FreedLeavesNothing
  <2> SUFFICES ASSUME DeviceInv, NEW i \in Instances, file[i] = "freed"
               PROVE  /\ ~mem[i] /\ ~ec[i] /\ grants[i] = {}
                      /\ maps[i] \subseteq orphans[i]
                      /\ \A o \in Instances : bound[o] # i
    BY DEF FreedLeavesNothing
  <2>1. ~mem[i] /\ ~ec[i] /\ handles[i] = {} /\ ~HoldsHeader(i)
    BY DEF DeviceInv, LifeOK, HoldsHeader
  <2>2. grants[i] = {}
    BY DEF DeviceInv, GrantsOK
  <2>3. Pairs(peer[i], handles[i]) = {}
    BY <2>1, InPairs
  <2>4. maps[i] = orphans[i]
    BY <2>1, <2>3 DEF DeviceInv, HandlesExact
  <2>5. \A o \in Instances : bound[o] # i
    BY <2>1 DEF DeviceInv, BoundOK
  <2> QED
    BY <2>1, <2>2, <2>4, <2>5
<1> QED
  BY <1>1, Invariance, PTL

(* Two receivers are never connected to one offerer. *)
THEOREM SingleReceiver == Spec => []OneReceiver
<1>1. DeviceInv => OneReceiver
  BY DEF DeviceInv, BoundOK, OneReceiver
<1> QED
  BY <1>1, Invariance, PTL
=============================================================================
