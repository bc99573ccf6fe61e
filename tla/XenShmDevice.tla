---------------------------- MODULE XenShmDevice ----------------------------
(***************************************************************************)
(* The life of the instances of /dev/xen_shm (xen_shm.c): what open, the   *)
(* two INIT ioctls, mmap, the MMU notifier and release take from Xen and   *)
(* give back, and the queue of instances that could not be freed yet.      *)
(*                                                                         *)
(* An offerer allocates pages, grants each of them to the other domain and *)
(* opens an event channel.  A receiver maps the header page (page 0) to    *)
(* connect and the data pages on mmap.  Xen ends a grant only while nobody *)
(* maps the page, so an offerer that is released too early is put aside.   *)
(*                                                                         *)
(* Signals and header page states are the subject of XenShmEvent.  A user  *)
(* makes one call at a time on an instance.                                *)
(***************************************************************************)
EXTENDS Integers, FiniteSets

CONSTANTS
  Instances,  \* the descriptors that are ever opened
  Offerers,   \* those whose user may offer memory
  Receivers,  \* those whose user may connect
  Domains,    \* the domains, each with its kernel module
  Home,       \* the domain an instance is opened in
  PV,         \* the domains with use_ptemod (xen_pv_domain())
  MaxPages,   \* XEN_SHM_MAX_SHARED_PAGES
  NoOne       \* no instance

ASSUME DeviceAssumption ==
  /\ Home \in [Instances -> Domains]
  /\ Offerers \subseteq Instances /\ Receivers \subseteq Instances
  /\ MaxPages \in Nat \ {0}
  /\ NoOne \notin Instances

VARIABLES
  file,         \* from open to kfree
  state,        \* data->state
  call,         \* the half of INIT_RECEIVER or mmap that is still to run
  pages_count,  \* data->pages_count
  size,         \* pages_count of the header page
  mem,          \* does it hold shared_memory / unmapped_area?
  ec,           \* does it hold an event channel?
  bound,        \* the receiver bound to the offerer's port (Xen)
  grants,       \* the pages it has granted (Xen)
  peer,         \* the offerer whose grant the receiver was given
  maps,         \* the foreign pages it maps: <<offerer, page>> (Xen)
  handles,      \* the data pages with unmap_ops[page - 1].handle # -1
  orphans,      \* the pages it maps without a handle: Xen refused to unmap
                \* them, or mapped them in a gnttab_map_refs that failed
  vma,          \* does the user map the data pages?
  queue         \* xen_shm_delayed_free_queue of each domain

owner == <<size, grants>>
mapping == <<maps, handles, orphans>>
channel == <<ec, bound>>
vars == <<file, state, call, pages_count, owner, mem, channel, peer, mapping,
          vma, queue>>

Page == 0 .. MaxPages
DataPages(i) == 1 .. pages_count[i] - 1
Receiver(i) == state[i] \in {"RECEIVER", "RECEIVER_MAPPED"}
Idle(i) == file[i] = "open" /\ call[i] = "none"

TypeOK ==
  /\ file \in [Instances -> {"none", "open", "freeing", "delayed", "freed"}]
  /\ state \in [Instances ->
                  {"OPENED", "OFFERER", "RECEIVER", "RECEIVER_MAPPED"}]
  /\ call \in [Instances -> {"none", "connecting", "mapping"}]
  /\ pages_count \in [Instances -> 0 .. MaxPages + 1]
  /\ size \in [Instances -> 0 .. MaxPages + 1]
  /\ mem \in [Instances -> BOOLEAN]
  /\ ec \in [Instances -> BOOLEAN]
  /\ bound \in [Instances -> Instances \cup {NoOne}]
  /\ grants \in [Instances -> SUBSET Page]
  /\ peer \in [Instances -> Instances \cup {NoOne}]
  /\ maps \in [Instances -> SUBSET (Instances \X Page)]
  /\ handles \in [Instances -> SUBSET (1 .. MaxPages)]
  /\ orphans \in [Instances -> SUBSET (Instances \X Page)]
  /\ vma \in [Instances -> BOOLEAN]
  /\ queue \in [Domains -> SUBSET Instances]

Init ==
  /\ file = [i \in Instances |-> "none"]
  /\ state = [i \in Instances |-> "OPENED"]
  /\ call = [i \in Instances |-> "none"]
  /\ pages_count = [i \in Instances |-> 0]
  /\ size = [i \in Instances |-> 0]
  /\ mem = [i \in Instances |-> FALSE]
  /\ ec = [i \in Instances |-> FALSE]
  /\ bound = [i \in Instances |-> NoOne]
  /\ grants = [i \in Instances |-> {}]
  /\ peer = [i \in Instances |-> NoOne]
  /\ maps = [i \in Instances |-> {}]
  /\ handles = [i \in Instances |-> {}]
  /\ orphans = [i \in Instances |-> {}]
  /\ vma = [i \in Instances |-> FALSE]
  /\ queue = [d \in Domains |-> {}]

(***************************************************************************)
(* __xen_shm_free_delayed_queue: every queued instance is tried again.     *)
(***************************************************************************)
Retried(d) ==
  [i \in Instances |->
     IF i \in queue[d] /\ file[i] = "delayed" THEN "freeing" ELSE file[i]]

(* xen_shm_open, which also tries to free what is queued. *)
Open(i) ==
  /\ file[i] = "none"
  /\ file' = [Retried(Home[i]) EXCEPT ![i] = "open"]
  /\ UNCHANGED <<state, call, pages_count, owner, mem, channel, peer, mapping,
                 vma, queue>>

(***************************************************************************)
(* XEN_SHM_IOCTL_INIT_OFFERER.  grant_refs is unsigned, so a page whose    *)
(* grant failed goes unnoticed: any of the pages may be left ungranted.    *)
(* Without memory or an event channel everything is undone.                *)
(***************************************************************************)
InitOfferer(i, n) ==
  /\ i \in Offerers /\ Idle(i) /\ state[i] = "OPENED"
  /\ pages_count' = [pages_count EXCEPT ![i] = n + 1]
  /\ size' = [size EXCEPT ![i] = n + 1]
  /\ \E G \in SUBSET (0 .. n) : grants' = [grants EXCEPT ![i] = G]
  /\ mem' = [mem EXCEPT ![i] = TRUE]
  /\ ec' = [ec EXCEPT ![i] = TRUE]
  /\ state' = [state EXCEPT ![i] = "OFFERER"]
  /\ UNCHANGED <<file, call, bound, peer, mapping, vma, queue>>

(* An INIT ioctl that fails before anything is mapped. *)
InitFails(i, n) ==
  /\ Idle(i) /\ state[i] = "OPENED"
  /\ pages_count' = [pages_count EXCEPT ![i] = n + 1]
  /\ UNCHANGED <<file, state, call, owner, mem, channel, peer, mapping, vma,
                 queue>>

(***************************************************************************)
(* GNTTAB_UNMAP_REFS on the pages S: the handles are forgotten, whether    *)
(* Xen unmaps a page or refuses to (the pages F).                          *)
(***************************************************************************)
Pairs(o, S) == {<<o, p>> : p \in S}

UnmapBut(i, S, F) ==
  /\ handles' = [handles EXCEPT ![i] = @ \ S]
  /\ orphans' = [orphans EXCEPT ![i] = @ \cup Pairs(peer[i], F)]
  /\ maps' = [maps EXCEPT ![i] =
                (@ \ Pairs(peer[i], S)) \cup orphans[i] \cup Pairs(peer[i], F)]

Unmap(i, S) == \E F \in SUBSET S : UnmapBut(i, S, F)

(***************************************************************************)
(* XEN_SHM_IOCTL_INIT_RECEIVER, first half: map the header page of o.      *)
(***************************************************************************)
ReceiverMap(i, o, n) ==
  /\ i \in Receivers /\ Idle(i) /\ state[i] = "OPENED"
  /\ 0 \in grants[o]
  /\ pages_count' = [pages_count EXCEPT ![i] = n + 1]
  /\ mem' = [mem EXCEPT ![i] = TRUE]
  /\ peer' = [peer EXCEPT ![i] = o]
  /\ maps' = [maps EXCEPT ![i] = @ \cup {<<o, 0>>}]
  /\ call' = [call EXCEPT ![i] = "connecting"]
  /\ UNCHANGED <<file, state, owner, channel, handles, orphans, vma, queue>>

(***************************************************************************)
(* Second half: compare the page counts and bind the port the header page  *)
(* names; Xen binds an unbound port only.  undo_map if anything fails.     *)
(***************************************************************************)
ReceiverConnectUnchecked(i) ==
  LET o == peer[i] IN
  /\ call[i] = "connecting"
  /\ pages_count[i] = size[o]
  /\ state' = [state EXCEPT ![i] = "RECEIVER"]
  /\ ec' = [ec EXCEPT ![i] = TRUE]
  /\ bound' = [bound EXCEPT ![o] = i]
  /\ call' = [call EXCEPT ![i] = "none"]
  /\ UNCHANGED <<file, pages_count, owner, mem, peer, mapping, vma, queue>>

ReceiverConnect(i) ==
  LET o == peer[i] IN
  /\ call[i] = "connecting"
  /\ pages_count[i] = size[o]
  /\ ec[o] /\ bound[o] = NoOne
  /\ state' = [state EXCEPT ![i] = "RECEIVER"]
  /\ ec' = [ec EXCEPT ![i] = TRUE]
  /\ bound' = [bound EXCEPT ![o] = i]
  /\ call' = [call EXCEPT ![i] = "none"]
  /\ UNCHANGED <<file, pages_count, owner, mem, peer, mapping, vma, queue>>

ReceiverUndo(i) ==
  /\ call[i] = "connecting"
  /\ Unmap(i, {0})
  /\ mem' = [mem EXCEPT ![i] = FALSE]
  /\ call' = [call EXCEPT ![i] = "none"]
  /\ UNCHANGED <<file, state, pages_count, owner, channel, peer, vma, queue>>

(***************************************************************************)
(* xen_shm_mmap.  An offerer maps its own pages.  A receiver has Xen map   *)
(* the data pages, notes the handle of each one that worked, and keeps     *)
(* them only if all worked.                                                *)
(***************************************************************************)
MmapOfferer(i) ==
  /\ Idle(i) /\ state[i] = "OFFERER" /\ ~vma[i]
  /\ vma' = [vma EXCEPT ![i] = TRUE]
  /\ UNCHANGED <<file, state, call, pages_count, owner, mem, channel, peer,
                 mapping, queue>>

MmapReceiver(i) ==
  /\ Idle(i) /\ state[i] = "RECEIVER"
  /\ \E S \in SUBSET (DataPages(i) \cap grants[peer[i]]) :
       /\ maps' = [maps EXCEPT ![i] = @ \cup Pairs(peer[i], S)]
       /\ handles' = [handles EXCEPT ![i] = S]
  /\ call' = [call EXCEPT ![i] = "mapping"]
  /\ UNCHANGED <<file, state, pages_count, owner, mem, channel, peer, orphans,
                 vma, queue>>

(* gnttab_map_refs fails as a whole, when Xen may already have mapped      *)
(* pages: no handle has been noted, and the clean loop unmaps nothing.     *)
MmapMapRefsFails(i) ==
  /\ Idle(i) /\ state[i] = "RECEIVER"
  /\ \E S \in SUBSET (DataPages(i) \cap grants[peer[i]]) :
       /\ maps' = [maps EXCEPT ![i] = @ \cup Pairs(peer[i], S)]
       /\ orphans' = [orphans EXCEPT ![i] = @ \cup Pairs(peer[i], S)]
  /\ UNCHANGED <<file, state, call, pages_count, owner, mem, channel, peer,
                 handles, vma, queue>>

MmapDone(i) ==
  /\ call[i] = "mapping" /\ handles[i] = DataPages(i)
  /\ state' = [state EXCEPT ![i] = "RECEIVER_MAPPED"]
  /\ vma' = [vma EXCEPT ![i] = TRUE]
  /\ call' = [call EXCEPT ![i] = "none"]
  /\ UNCHANGED <<file, pages_count, owner, mem, channel, peer, mapping, queue>>

(* A page was not mapped, or vm_insert_page failed. *)
MmapCleanNothing(i) ==
  /\ call[i] = "mapping"
  /\ handles[i] # DataPages(i) \/ Home[i] \notin PV
  /\ call' = [call EXCEPT ![i] = "none"]
  /\ UNCHANGED <<file, state, pages_count, owner, mem, channel, peer, mapping,
                 vma, queue>>

MmapClean(i) ==
  /\ call[i] = "mapping"
  /\ handles[i] # DataPages(i) \/ Home[i] \notin PV
  /\ Unmap(i, handles[i])
  /\ call' = [call EXCEPT ![i] = "none"]
  /\ UNCHANGED <<file, state, pages_count, owner, mem, channel, peer, vma,
                 queue>>

(***************************************************************************)
(* __xen_shm_unmap_receiver_grant_pages: from page lo on, the first n      *)
(* pages that still have a handle.                                         *)
(***************************************************************************)
Swept(i, lo, n) ==
  {p \in handles[i] : /\ p >= lo
                      /\ Cardinality({q \in handles[i] : lo <= q /\ q < p}) < n}

(* The MMU notifier of a PV domain, when the kernel takes pages lo, lo+1.. *)
Invalidate(i, lo, n) ==
  /\ Idle(i) /\ vma[i] /\ state[i] = "RECEIVER_MAPPED" /\ Home[i] \in PV
  /\ lo + n <= pages_count[i]
  /\ Unmap(i, Swept(i, lo, n))
  /\ UNCHANGED <<file, state, call, pages_count, owner, mem, channel, peer, vma,
                 queue>>

(* The user unmaps the data pages, or exits: the notifier sees them all. *)
Munmap(i) ==
  /\ Idle(i) /\ vma[i]
  /\ vma' = [vma EXCEPT ![i] = FALSE]
  /\ IF Receiver(i) /\ Home[i] \in PV
     THEN Unmap(i, Swept(i, 1, pages_count[i] - 1))
     ELSE UNCHANGED mapping
  /\ UNCHANGED <<file, state, call, pages_count, owner, mem, channel, peer,
                 queue>>

(***************************************************************************)
(* xen_shm_release, once neither a descriptor nor a mapping is left.  It   *)
(* first retries what is queued.  The steps of __xen_shm_prepare_free      *)
(* follow: an offerer ends its grants from the last page down to page 0.   *)
(***************************************************************************)
Release(i) ==
  /\ Idle(i) /\ ~vma[i]
  /\ file' = [Retried(Home[i]) EXCEPT ![i] = "freeing"]
  /\ UNCHANGED <<state, call, pages_count, owner, mem, channel, peer, mapping,
                 vma, queue>>

Mapped(o, p) == \E r \in Instances : <<o, p>> \in maps[r]

(* gnttab_end_foreign_access_ref on the last page left.  A reference that  *)
(* is no reference may be refused or not.                                  *)
EndGrantUnchecked(i) ==
  /\ file[i] = "freeing" /\ state[i] = "OFFERER" /\ pages_count[i] > 0
  /\ grants' = [grants EXCEPT ![i] = @ \ {pages_count[i] - 1}]
  /\ pages_count' = [pages_count EXCEPT ![i] = @ - 1]
  /\ UNCHANGED <<file, state, call, size, mem, channel, peer, mapping, vma,
                 queue>>

EndGrantPastZero(i) ==
  /\ file[i] = "freeing" /\ state[i] = "OFFERER"
  /\ ~Mapped(i, pages_count[i] - 1)
  /\ grants' = [grants EXCEPT ![i] = @ \ {pages_count[i] - 1}]
  /\ pages_count' = [pages_count EXCEPT ![i] = @ - 1]
  /\ UNCHANGED <<file, state, call, size, mem, channel, peer, mapping, vma,
                 queue>>

EndGrant(i) ==
  /\ file[i] = "freeing" /\ state[i] = "OFFERER" /\ pages_count[i] > 0
  /\ ~Mapped(i, pages_count[i] - 1)
  /\ grants' = [grants EXCEPT ![i] = @ \ {pages_count[i] - 1}]
  /\ pages_count' = [pages_count EXCEPT ![i] = @ - 1]
  /\ UNCHANGED <<file, state, call, size, mem, channel, peer, mapping, vma,
                 queue>>

(* __xen_shm_add_delayed_free: next_delayed becomes the head, and the head *)
(* becomes next_delayed.                                                   *)
AddDelayed(i) ==
  LET next_delayed == queue[Home[i]]
  IN [queue EXCEPT ![Home[i]] = next_delayed]

Delay(i) ==
  /\ file' = [file EXCEPT ![i] = "delayed"]
  /\ queue' = IF i \in queue[Home[i]] THEN queue ELSE AddDelayed(i)

GrantInUse(i) ==
  /\ file[i] = "freeing" /\ state[i] = "OFFERER" /\ pages_count[i] > 0
  /\ \/ Mapped(i, pages_count[i] - 1)
     \/ pages_count[i] - 1 \notin grants[i]
  /\ Delay(i)
  /\ UNCHANGED <<state, call, pages_count, owner, mem, channel, peer, mapping,
                 vma>>

(* kfree, and out of the queue if it was there. *)
Forget(i) ==
  /\ file' = [file EXCEPT ![i] = "freed"]
  /\ queue' = [queue EXCEPT ![Home[i]] = @ \ {i}]

FreeOfferer(i) ==
  /\ file[i] = "freeing" /\ state[i] = "OFFERER" /\ pages_count[i] = 0
  /\ ec' = [ec EXCEPT ![i] = FALSE]
  /\ mem' = [mem EXCEPT ![i] = FALSE]
  /\ Forget(i)
  /\ UNCHANGED <<state, call, pages_count, owner, bound, peer, mapping, vma>>

(***************************************************************************)
(* A receiver without use_ptemod unmaps its data pages here; then comes    *)
(* the header page, and only if Xen unmaps that one the rest.  Closing its *)
(* port leaves the offerer's unbound again.                                *)
(***************************************************************************)
LeftToUnmap(i) ==
  IF state[i] = "RECEIVER_MAPPED" /\ Home[i] \notin PV
  THEN Swept(i, 1, pages_count[i] - 1) ELSE {}

FreeReceiverHeaderOnly(i) ==
  /\ file[i] = "freeing" /\ Receiver(i)
  /\ UnmapBut(i, {0}, {})
  /\ pages_count' = [pages_count EXCEPT ![i] = @ - 1]
  /\ ec' = [ec EXCEPT ![i] = FALSE]
  /\ bound' = [bound EXCEPT ![peer[i]] = NoOne]
  /\ mem' = [mem EXCEPT ![i] = FALSE]
  /\ Forget(i)
  /\ UNCHANGED <<state, call, owner, peer, vma>>

FreeReceiver(i) ==
  /\ file[i] = "freeing" /\ Receiver(i)
  /\ \E F \in SUBSET LeftToUnmap(i) : UnmapBut(i, LeftToUnmap(i) \cup {0}, F)
  /\ pages_count' = [pages_count EXCEPT ![i] = @ - 1]
  /\ ec' = [ec EXCEPT ![i] = FALSE]
  /\ bound' = [bound EXCEPT ![peer[i]] = NoOne]
  /\ mem' = [mem EXCEPT ![i] = FALSE]
  /\ Forget(i)
  /\ UNCHANGED <<state, call, owner, peer, vma>>

HeaderRefused(i) ==
  /\ file[i] = "freeing" /\ Receiver(i)
  /\ Unmap(i, LeftToUnmap(i))
  /\ Delay(i)
  /\ UNCHANGED <<state, call, pages_count, owner, mem, channel, peer, vma>>

FreeOpened(i) ==
  /\ file[i] = "freeing" /\ state[i] = "OPENED"
  /\ Forget(i)
  /\ UNCHANGED <<state, call, pages_count, owner, mem, channel, peer, mapping,
                 vma>>

Free(i) ==
  \/ EndGrant(i) \/ GrantInUse(i) \/ FreeOfferer(i)
  \/ FreeReceiver(i) \/ HeaderRefused(i) \/ FreeOpened(i)

Next ==
  \E i \in Instances :
    \/ Open(i) \/ Release(i) \/ Free(i)
    \/ \E n \in 1 .. MaxPages :
         \/ InitOfferer(i, n) \/ InitFails(i, n)
         \/ \E o \in Instances : ReceiverMap(i, o, n)
         \/ \E lo \in 1 .. MaxPages : Invalidate(i, lo, n)
    \/ ReceiverConnect(i) \/ ReceiverUndo(i)
    \/ MmapOfferer(i) \/ MmapReceiver(i) \/ MmapMapRefsFails(i)
    \/ MmapDone(i) \/ MmapClean(i) \/ Munmap(i)

Spec == Init /\ [][Next]_vars
-----------------------------------------------------------------------------
(***************************************************************************)
(* A page that some domain maps is still allocated and granted by its      *)
(* offerer: __xen_shm_prepare_free gives memory back only when the last    *)
(* grant has ended, and puts the instance aside otherwise.                 *)
(***************************************************************************)
MappedIsAllocated ==
  \A r \in Instances : \A m \in maps[r] : mem[m[1]] /\ m[2] \in grants[m[1]]

(***************************************************************************)
(* unmap_ops says what is mapped, through mmap, its error paths, the MMU   *)
(* notifier and release: an instance maps the header page while it is      *)
(* connected, the pages with a handle, and two kinds of pages the code     *)
(* loses sight of: those Xen refused to unmap (xen_shm.c:391, 852-854,     *)
(* 1304) and those mapped in a gnttab_map_refs that failed (1261-1264).    *)
(***************************************************************************)
HoldsHeader(i) ==
  \/ call[i] = "connecting"
  \/ Receiver(i) /\ file[i] # "freed"

HandlesExact ==
  \A i \in Instances :
    maps[i] = orphans[i] \cup Pairs(peer[i], handles[i])
                \cup (IF HoldsHeader(i) THEN {<<peer[i], 0>>} ELSE {})

(***************************************************************************)
(* When release frees an instance nothing of it is left in Xen: no memory, *)
(* no port, no grant, and no mapping but the ones without a handle.  The   *)
(* pages that a failed gnttab_map_refs mapped stay mapped, although Xen    *)
(* never refused to unmap them (xen_shm.c:1261-1264, 1301-1310).           *)
(***************************************************************************)
FreedLeavesNothing ==
  \A i \in Instances : file[i] = "freed" =>
    /\ ~mem[i] /\ ~ec[i] /\ grants[i] = {}
    /\ maps[i] \subseteq orphans[i]
    /\ \A o \in Instances : bound[o] # i

(***************************************************************************)
(* At most one receiver is connected to an offerer.  INIT_RECEIVER does    *)
(* not look at receiver_state: the port of the header page decides.        *)
(***************************************************************************)
OneReceiver ==
  \A i, j \in Instances :
    (ec[i] /\ ec[j] /\ Receiver(i) /\ Receiver(j) /\ peer[i] = peer[j]) => i = j

(***************************************************************************)
(* "The data must be put in a queue and deleted later": an instance that   *)
(* release could not free can be found again.                              *)
(***************************************************************************)
DelayedIsQueued ==
  \A i \in Instances : file[i] = "delayed" => i \in queue[Home[i]]
=============================================================================
