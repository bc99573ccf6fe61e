-------------------------- MODULE XenShmEventProofs --------------------------
(***************************************************************************)
(* Proofs about XenShmEvent, for any finite set of threads on the two      *)
(* sides and any requests.  The invariant EventInv is inductive; the       *)
(* properties the runs check follow from it.                               *)
(***************************************************************************)
EXTENDS XenShmEvent, FiniteSetTheorems, TLAPS

(* t is between the first check of AWAIT and the return to user space. *)
InAwait(t) ==
  await[t] \in {"lock", "backoff", "check", "asleep", "wake", "timeout"}

(***************************************************************************)
(* How the stages of an instance's life hang together: what a thread that  *)
(* waits may rely on, and what it takes for an event to reach the offerer. *)
(***************************************************************************)
LifeOK ==
  /\ state["offerer"] = "OFFERER" /\ state["receiver"] # "OFFERER"
  /\ \A s \in Sides :
       /\ state[s] # "OPENED" /\ release[s] = "open" => bound[s]
       /\ release[s] # "open" => state[s] # "OPENED"
       /\ meta[s] = "CLOSED" => release[s] # "open"
  /\ meta["receiver"] = "NONE" => state["receiver"] = "OPENED" \/ opening = "state"
  /\ opening # "no" => state["receiver"] = "RECEIVER" /\ release["receiver"] = "open"
  /\ opening = "published" => meta["receiver"] # "NONE"
  /\ pending["offerer"] \/ initial_signal["offerer"]
       => meta["receiver"] # "NONE" \/ opening = "state"
  /\ \A t \in Threads :
       InAwait(t) => release[SideOf[t]] = "open" /\ state[SideOf[t]] # "OPENED"

(* The threads that have taken one off ec_mutex_count. *)
Holding(t) == await[t] = "backoff" \/ MutexWaiting(t)
Holders == {t \in Threads : Holding(t)}

MutexOK ==
  /\ ec_mutex_count = 1 - Cardinality(Holders)
  /\ \A t \in Threads : await[t] = "lock" => "MUTEX" \in request[t].flags
  /\ MutexExclusive

EventInv == WellTyped /\ LifeOK /\ NoLostWakeup /\ MutexOK

-----------------------------------------------------------------------------
LEMMA SidesFacts ==
  /\ \A s \in Sides : Other(s) \in Sides /\ Other(s) # s /\ Other(Other(s)) = s
  /\ \A s, r \in Sides : r = s \/ r = Other(s)
  /\ \A t \in Threads : SideOf[t] \in Sides
BY ThreadsAssumption DEF Sides, Other

(* Every initial state satisfies the invariant (xen_shm.c:667-755). *)
LEMMA InitInv == Init => EventInv
<1> SUFFICES ASSUME Init PROVE EventInv
  OBVIOUS
<1> USE ThreadsAssumption DEF Init
<1>1. WellTyped
  <2>1. request \in [Threads -> Request]
    BY DEF Request, NoRequest
  <2>2. bound \in [Sides -> BOOLEAN]
    BY Zenon
  <2>3. /\ state \in [Sides -> {"OPENED", "OFFERER", "RECEIVER"}]
        /\ meta \in [Sides -> {"NONE", "OPENED", "CLOSED"}]
        /\ await \in [Threads -> AwaitStates]
        /\ release \in [Sides -> {"open", "marked", "notified", "delayed", "freed"}]
    BY DEF AwaitStates
  <2>4. /\ pending \in [Sides -> BOOLEAN]
        /\ initial_signal \in [Sides -> BOOLEAN]
        /\ user_signal \in [Sides -> BOOLEAN]
        /\ latent_user_signal \in [Sides -> BOOLEAN]
    BY Zenon
  <2>5. mapped \in BOOLEAN /\ opening \in {"no", "state", "published"}
    BY Zenon
  <2>6. ec_mutex_count \in Int
    OBVIOUS
  <2> HIDE DEF Init
  <2> QED
    BY <2>1, <2>2, <2>3, <2>4, <2>5, <2>6 DEF WellTyped
<1>2. LifeOK
  BY DEF LifeOK, Sides, InAwait
<1>3. NoLostWakeup
  BY DEF NoLostWakeup
<1>4. Holders = {}
  BY DEF Holders, Holding, MutexWaiting
<1>5. MutexOK
  BY <1>4, FS_EmptySet DEF MutexOK, MutexExclusive, MutexWaiting
<1> QED
  BY <1>1, <1>2, <1>3, <1>5 DEF EventInv

(* Types are preserved by every step. *)
LEMMA TypeStep == WellTyped /\ [Next]_kvars => WellTyped'
<1> SUFFICES ASSUME WellTyped, [Next]_kvars PROVE WellTyped'
  OBVIOUS
<1> USE ThreadsAssumption, SidesFacts DEF WellTyped, life, ec, signals, calls
<1>1. CASE InitReceiver
  <2>1. CASE ReceiverMap \/ ReceiverUndo
    BY <2>1 DEF ReceiverMap, ReceiverUndo
  <2>2. CASE ReceiverBind
    BY <2>2 DEF ReceiverBind, Sides
  <2>3. CASE ReceiverState \/ ReceiverPublish
    BY <2>3 DEF ReceiverState, ReceiverPublish
  <2>4. CASE ReceiverSignal
    <3>1. pending' \in [Sides -> BOOLEAN]
      BY <2>4 DEF ReceiverSignal, NotifyRemote, Raised, Sides, Other
    <3>2. opening' \in {"no", "state", "published"}
      BY <2>4 DEF ReceiverSignal
    <3>3. UNCHANGED <<state, meta, mapped, release, bound, signals, ec_mutex_count, calls>>
      BY <2>4 DEF ReceiverSignal
    <3> QED
      BY <3>1, <3>2, <3>3
  <2> QED
    BY <1>1, <2>1, <2>2, <2>3, <2>4 DEF InitReceiver
<1>2. ASSUME NEW s \in Sides, EventHandler(s) PROVE WellTyped'
  BY <1>2 DEF EventHandler, Raised, Woken, AwaitStates
<1>3. ASSUME NEW s \in Sides, Release(s) PROVE WellTyped'
  <2>1. CASE ReleaseMark(s)
    BY <2>1 DEF ReleaseMark
  <2>2. CASE ReleaseNotify(s)
    BY <2>2 DEF ReleaseNotify, NotifyRemote, Raised, Woken, AwaitStates
  <2>3. CASE ReleaseFree(s)
    <3>1. release' \in [Sides -> {"open", "marked", "notified", "delayed", "freed"}]
      BY <2>3 DEF ReleaseFree
    <3>2. /\ bound' = bound \/ bound' = [bound EXCEPT ![s] = FALSE]
          /\ pending' = pending \/ pending' = [pending EXCEPT ![s] = FALSE]
      BY <2>3, Zenon DEF ReleaseFree, CloseEc
    <3>3. bound' \in [Sides -> BOOLEAN] /\ pending' \in [Sides -> BOOLEAN]
      BY <3>2
    <3>4. mapped' \in BOOLEAN
      <4>1. mapped' = mapped \/ mapped' = (mapped /\ s = "offerer")
        BY <2>3 DEF ReleaseFree
      <4> QED
        BY <4>1, Zenon
    <3>5. UNCHANGED <<state, meta, opening, signals, ec_mutex_count, calls>>
      BY <2>3 DEF ReleaseFree
    <3> QED
      BY <3>1, <3>3, <3>4, <3>5
  <2> QED
    BY <1>3, <2>1, <2>2, <2>3 DEF Release
<1>4. ASSUME NEW t \in Threads, Ssig(t) PROVE WellTyped'
  BY <1>4 DEF Ssig, NotifyRemote, Raised
<1>5. ASSUME NEW t \in Threads, NEW r \in Requests, AwaitEnter(t, r) PROVE WellTyped'
  <2>1. request' \in [Threads -> Request]
    BY <1>5 DEF AwaitEnter
  <2>2. user_signal' \in [Sides -> BOOLEAN]
    <3>1. \/ user_signal' = user_signal
          \/ user_signal' = [user_signal EXCEPT ![SideOf[t]] = FALSE]
      BY <1>5, Zenon DEF AwaitEnter, Trigger
    <3> QED
      BY <3>1
  <2>3. \E l \in AwaitStates : await' = [await EXCEPT ![t] = l]
    BY <1>5 DEF AwaitEnter, Goto, AwaitStates, Results
  <2>4. await' \in [Threads -> AwaitStates]
    BY <2>3
  <2> QED
    BY <1>5, <2>1, <2>2, <2>4 DEF AwaitEnter
<1>6. ASSUME NEW t \in Threads, Await(t) PROVE WellTyped'
  <2> USE DEF Goto, AwaitStates, Results
  <2>1. CASE AwaitLock(t)
    <3>1. \/ user_signal' = user_signal
          \/ user_signal' = [user_signal EXCEPT ![SideOf[t]] = FALSE]
      BY <2>1 DEF AwaitLock, Trigger
    <3>2. await' \in [Threads -> AwaitStates]
      BY <2>1 DEF AwaitLock
    <3>3. user_signal' \in [Sides -> BOOLEAN]
      BY <3>1
    <3>4. ec_mutex_count' \in Int
      BY <2>1 DEF AwaitLock
    <3>5. UNCHANGED <<life, ec, initial_signal, latent_user_signal, request>>
      BY <2>1 DEF AwaitLock
    <3> QED
      BY <3>2, <3>3, <3>4, <3>5
  <2>2. CASE AwaitBackoff(t) \/ AwaitCheck(t) \/ AwaitTimeout(t)
    BY <2>2 DEF AwaitBackoff, AwaitCheck, AwaitTimeout
  <2>3. CASE AwaitFinish(t)
    <3>1. latent_user_signal' \in [Sides -> BOOLEAN] /\ ec_mutex_count' \in Int
      BY <2>3 DEF AwaitFinish, Unlock
    <3>2. \E l \in AwaitStates : await' = [await EXCEPT ![t] = l]
      BY <2>3 DEF AwaitFinish
    <3> QED
      BY <2>3, <3>1, <3>2 DEF AwaitFinish
  <2>4. CASE AwaitReturn(t)
    <3>1. NoRequest \in Request
      BY DEF Request, NoRequest
    <3> QED
      BY <2>4, <3>1 DEF AwaitReturn
  <2> QED
    BY <1>6, <2>1, <2>2, <2>3, <2>4 DEF Await
<1>7. ASSUME NEW t \in Threads, AwaitInterrupt(t) PROVE WellTyped'
  BY <1>7 DEF AwaitInterrupt, Goto, Unlock, AwaitStates, Results
<1>8. CASE UNCHANGED kvars
  BY <1>8 DEF kvars
<1> QED
  BY <1>1, <1>2, <1>3, <1>4, <1>5, <1>6, <1>7, <1>8 DEF Next

-----------------------------------------------------------------------------
(* The stages of the instances stay consistent. *)
LEMMA LifeStep == WellTyped /\ LifeOK /\ [Next]_kvars => LifeOK'
<1> SUFFICES ASSUME WellTyped, LifeOK, [Next]_kvars PROVE LifeOK'
  OBVIOUS
<1> USE ThreadsAssumption, SidesFacts DEF WellTyped, LifeOK, life, ec, signals, calls
<1>1. CASE InitReceiver
  <2>1. CASE ReceiverMap \/ ReceiverUndo
    BY <2>1 DEF ReceiverMap, ReceiverUndo, InAwait
  <2>2. CASE ReceiverBind
    BY <2>2 DEF ReceiverBind, InAwait, Sides
  <2>3. CASE ReceiverState
    BY <2>3 DEF ReceiverState, InAwait, Sides
  <2>4. CASE ReceiverPublish
    BY <2>4 DEF ReceiverPublish, InAwait, Sides
  <2>5. CASE ReceiverSignal
    BY <2>5 DEF ReceiverSignal, NotifyRemote, Raised, InAwait, Sides, Other
  <2> QED
    BY <1>1, <2>1, <2>2, <2>3, <2>4, <2>5 DEF InitReceiver
<1>2. ASSUME NEW s \in Sides, EventHandler(s) PROVE LifeOK'
  BY <1>2 DEF EventHandler, Raised, Woken, InAwait, Sides, Other
<1>3. ASSUME NEW s \in Sides, Release(s) PROVE LifeOK'
  <2>1. CASE ReleaseMark(s)
    BY <2>1 DEF ReleaseMark, InAwait, Sides
  <2>2. CASE ReleaseNotify(s)
    BY <2>2 DEF ReleaseNotify, NotifyRemote, Raised, Woken, InAwait, Sides, Other
  <2>3. CASE ReleaseFree(s)
    BY <2>3 DEF ReleaseFree, CloseEc, InAwait, Sides
  <2> QED
    BY <1>3, <2>1, <2>2, <2>3 DEF Release
<1>4. ASSUME NEW t \in Threads, Ssig(t) PROVE LifeOK'
  BY <1>4 DEF Ssig, NotifyRemote, Raised, InAwait, Sides, Other
<1>5. ASSUME NEW t \in Threads, NEW r \in Requests, AwaitEnter(t, r) PROVE LifeOK'
  <2>1. InAwait(t)' => release[SideOf[t]] = "open" /\ state[SideOf[t]] # "OPENED"
    BY <1>5 DEF AwaitEnter, Goto, InAwait
  <2>2. \A u \in Threads : u # t => await'[u] = await[u]
    BY <1>5 DEF AwaitEnter, Goto
  <2>3. UNCHANGED <<life, ec, initial_signal>>
    BY <1>5 DEF AwaitEnter
  <2> QED
    BY <2>1, <2>2, <2>3 DEF InAwait
<1>6. ASSUME NEW t \in Threads, Await(t) \/ AwaitInterrupt(t) PROVE LifeOK'
  <2>1. UNCHANGED <<life, ec, initial_signal>>
    BY <1>6 DEF Await, AwaitLock, AwaitBackoff, AwaitCheck, AwaitTimeout, AwaitFinish,
                AwaitReturn, AwaitInterrupt
  <2>2. InAwait(t)' => InAwait(t)
    BY <1>6 DEF Await, AwaitLock, AwaitBackoff, AwaitCheck, AwaitTimeout, AwaitFinish,
                AwaitReturn, AwaitInterrupt, Goto, InAwait
  <2>3. \A u \in Threads : u # t => await'[u] = await[u]
    BY <1>6 DEF Await, AwaitLock, AwaitBackoff, AwaitCheck, AwaitTimeout, AwaitFinish,
                AwaitReturn, AwaitInterrupt, Goto
  <2> QED
    BY <2>1, <2>2, <2>3 DEF InAwait
<1>7. CASE UNCHANGED kvars
  BY <1>7 DEF kvars, InAwait
<1> QED
  BY <1>1, <1>2, <1>3, <1>4, <1>5, <1>6, <1>7 DEF Next

(***************************************************************************)
(* A sleeper is never forgotten: whatever makes its condition true leaves  *)
(* an event on its port or a release about to send one.                    *)
(***************************************************************************)
LEMMA WakeStep ==
  WellTyped /\ LifeOK /\ NoLostWakeup /\ [Next]_kvars => NoLostWakeup'
<1> SUFFICES ASSUME WellTyped, LifeOK, NoLostWakeup, [Next]_kvars,
                    NEW u \in Threads, await'[u] = "asleep", AwaitCond(u)'
             PROVE  pending'[SideOf[u]] \/ release'[Other(SideOf[u])] = "marked"
  BY DEF NoLostWakeup
<1> USE ThreadsAssumption, SidesFacts DEF WellTyped, LifeOK, life, ec, signals, calls
<1>0. ASSUME await[u] = "asleep", AwaitCond(u)
      PROVE  pending[SideOf[u]] \/ release[Other(SideOf[u])] = "marked"
  BY <1>0 DEF NoLostWakeup
<1>1. CASE InitReceiver
  <2>1. await[u] = "asleep"
    BY <1>1 DEF InitReceiver, ReceiverMap, ReceiverUndo, ReceiverBind, ReceiverState,
                ReceiverPublish, ReceiverSignal
  <2>2. bound[SideOf[u]]
    BY <2>1 DEF InAwait
  <2>3. UNCHANGED <<request, signals, release>>
    BY <1>1 DEF InitReceiver, ReceiverMap, ReceiverUndo, ReceiverBind, ReceiverState,
                ReceiverPublish, ReceiverSignal
  <2>4. BrokenPipe' => BrokenPipe
    BY <1>1 DEF InitReceiver, ReceiverMap, ReceiverUndo, ReceiverBind, ReceiverState,
                ReceiverPublish, ReceiverSignal,
                BrokenPipe, Sides
  <2>5. AwaitCond(u)
    BY <2>3, <2>4 DEF AwaitCond
  <2>6. pending[SideOf[u]] => pending'[SideOf[u]]
    BY <1>1, <2>2 DEF InitReceiver, ReceiverMap, ReceiverUndo, ReceiverBind, ReceiverState,
                ReceiverPublish, ReceiverSignal,
                      NotifyRemote, Raised
  <2> QED
    BY <1>0, <2>1, <2>3, <2>5, <2>6
<1>2. ASSUME NEW s \in Sides, EventHandler(s)
      PROVE  pending'[SideOf[u]] \/ release'[Other(SideOf[u])] = "marked"
  <2>1. SideOf[u] # s /\ await[u] = "asleep"
    BY <1>2 DEF EventHandler, Woken
  <2>2. AwaitCond(u)
    BY <1>2, <2>1 DEF EventHandler, AwaitCond, BrokenPipe
  <2>3. pending[SideOf[u]] => pending'[SideOf[u]]
    BY <1>2, <2>1 DEF EventHandler, Raised
  <2> QED
    BY <1>0, <1>2, <2>1, <2>2, <2>3 DEF EventHandler
<1>3. ASSUME NEW s \in Sides, Release(s)
      PROVE  pending'[SideOf[u]] \/ release'[Other(SideOf[u])] = "marked"
  <2>1. CASE ReleaseMark(s)
    <3>1. SideOf[u] # s
      BY <2>1 DEF ReleaseMark
    <3> QED
      BY <2>1, <3>1 DEF ReleaseMark
  <2>2. CASE ReleaseNotify(s)
    <3>1. await[u] = "asleep" /\ SideOf[u] # s
      BY <2>2 DEF ReleaseNotify, Woken
    <3>2. bound[SideOf[u]]
      BY <3>1 DEF InAwait
    <3> QED
      BY <2>2, <3>1, <3>2 DEF ReleaseNotify, NotifyRemote, Raised
  <2>3. CASE ReleaseFree(s)
    <3>1. await[u] = "asleep"
      BY <2>3 DEF ReleaseFree
    <3>2. SideOf[u] # s
      BY <2>3, <3>1 DEF ReleaseFree, InAwait
    <3>3. AwaitCond(u)
      BY <2>3 DEF ReleaseFree, AwaitCond, BrokenPipe
    <3>4. pending'[SideOf[u]] = pending[SideOf[u]]
      BY <2>3, <3>2 DEF ReleaseFree, CloseEc
    <3> QED
      BY <1>0, <2>3, <3>1, <3>2, <3>3, <3>4 DEF ReleaseFree
  <2> QED
    BY <1>3, <2>1, <2>2, <2>3 DEF Release
<1>4. ASSUME NEW t \in Threads, Ssig(t)
      PROVE  pending'[SideOf[u]] \/ release'[Other(SideOf[u])] = "marked"
  <2>1. await[u] = "asleep" /\ AwaitCond(u)
    BY <1>4 DEF Ssig, AwaitCond, BrokenPipe
  <2> QED
    BY <1>0, <1>4, <2>1 DEF Ssig, NotifyRemote, Raised
<1>5. ASSUME NEW t \in Threads, NEW r \in Requests, AwaitEnter(t, r)
      PROVE  pending'[SideOf[u]] \/ release'[Other(SideOf[u])] = "marked"
  <2>1. u # t
    BY <1>5 DEF AwaitEnter, Goto
  <2>2. await[u] = "asleep" /\ request'[u] = request[u]
    BY <1>5, <2>1 DEF AwaitEnter, Goto
  <2>3. \A s \in Sides : user_signal'[s] => user_signal[s]
    BY <1>5 DEF AwaitEnter, Trigger
  <2>4. UNCHANGED <<life, ec, initial_signal, latent_user_signal>>
    BY <1>5 DEF AwaitEnter
  <2>5. AwaitCond(u)
    BY <2>2, <2>3, <2>4 DEF AwaitCond, BrokenPipe
  <2> QED
    BY <1>0, <2>2, <2>4, <2>5
<1>6. ASSUME NEW t \in Threads, Await(t) \/ AwaitInterrupt(t)
      PROVE  pending'[SideOf[u]] \/ release'[Other(SideOf[u])] = "marked"
  <2>1. /\ UNCHANGED <<life, ec, initial_signal>>
        /\ u # t => await'[u] = await[u] /\ request'[u] = request[u]
        /\ \A s \in Sides : user_signal'[s] => user_signal[s]
        /\ \A s \in Sides : latent_user_signal'[s] => latent_user_signal[s]
    BY <1>6 DEF Await, AwaitLock, AwaitBackoff, AwaitCheck, AwaitTimeout, AwaitFinish,
                AwaitReturn, AwaitInterrupt, Goto, Trigger
  <2>2. u # t
    BY <1>6 DEF Await, AwaitLock, AwaitBackoff, AwaitCheck, AwaitTimeout, AwaitFinish,
                AwaitReturn, AwaitInterrupt, Goto, Results, AwaitCond, BrokenPipe
  <2>3. AwaitCond(u)
    BY <2>1, <2>2 DEF AwaitCond, BrokenPipe
  <2> QED
    BY <1>0, <2>1, <2>2, <2>3
<1>7. CASE UNCHANGED kvars
  BY <1>0, <1>7 DEF kvars, AwaitCond, BrokenPipe
<1> QED
  BY <1>1, <1>2, <1>3, <1>4, <1>5, <1>6, <1>7 DEF Next

-----------------------------------------------------------------------------
(***************************************************************************)
(* The effect of one thread t on the set of holders.                       *)
(***************************************************************************)
LEMMA HoldersFinite ==
  IsFiniteSet(Holders) /\ Cardinality(Holders) \in Nat
    /\ Cardinality(Holders) <= Cardinality(Threads)
<1>1. Holders \subseteq Threads
  BY DEF Holders
<1> QED
  BY <1>1, ThreadsAssumption, FS_Subset, FS_CardinalityType

LEMMA HoldersAdd ==
  ASSUME NEW t \in Threads, ~Holding(t), Holding(t)',
         \A u \in Threads : u # t => (Holding(u)' <=> Holding(u))
  PROVE  Cardinality(Holders') = Cardinality(Holders) + 1
<1>1. Holders' = Holders \cup {t} /\ t \notin Holders
  BY DEF Holders
<1> QED
  BY <1>1, HoldersFinite, FS_AddElement

LEMMA HoldersRemove ==
  ASSUME NEW t \in Threads, Holding(t), ~Holding(t)',
         \A u \in Threads : u # t => (Holding(u)' <=> Holding(u))
  PROVE  Cardinality(Holders') = Cardinality(Holders) - 1
<1>1. Holders' = Holders \ {t} /\ t \in Holders
  BY DEF Holders
<1> QED
  BY <1>1, HoldersFinite, FS_RemoveElement

(* The counter keeps counting the holders, and one of them waits at most. *)
LEMMA MutexStep == WellTyped /\ MutexOK /\ [Next]_kvars => MutexOK'
<1> SUFFICES ASSUME WellTyped, MutexOK, [Next]_kvars PROVE MutexOK'
  OBVIOUS
<1> USE ThreadsAssumption, SidesFacts DEF WellTyped, life, ec, signals, calls
<1> DEFINE Keeps ==
      /\ ec_mutex_count' = ec_mutex_count
      /\ \A u \in Threads : (Holding(u)' <=> Holding(u)) /\ (MutexWaiting(u)' <=> MutexWaiting(u))
      /\ \A u \in Threads : await'[u] = "lock" => "MUTEX" \in request'[u].flags
<1>0. ASSUME Keeps PROVE MutexOK'
  <2>1. Holders' = Holders
    BY <1>0 DEF Holders
  <2> QED
    BY <1>0, <2>1 DEF MutexOK, MutexExclusive
<1>1. CASE InitReceiver
  <2>1. UNCHANGED <<ec_mutex_count, await, request>>
    BY <1>1 DEF InitReceiver, ReceiverMap, ReceiverUndo, ReceiverBind, ReceiverState,
                ReceiverPublish, ReceiverSignal
  <2> QED
    BY <1>0, <2>1 DEF Holding, MutexWaiting, MutexOK
<1>2. ASSUME NEW s \in Sides, EventHandler(s) PROVE MutexOK'
  <2>1. await' = Woken(s) /\ UNCHANGED <<ec_mutex_count, request>>
    BY <1>2 DEF EventHandler
  <2> QED
    BY <1>0, <2>1 DEF Woken, Holding, MutexWaiting, MutexOK
<1>3. ASSUME NEW s \in Sides, Release(s) PROVE MutexOK'
  <2>1. /\ await' = await \/ await' = Woken(s)
        /\ UNCHANGED <<ec_mutex_count, request>>
    BY <1>3 DEF Release, ReleaseMark, ReleaseNotify, ReleaseFree
  <2> QED
    BY <1>0, <2>1 DEF Woken, Holding, MutexWaiting, MutexOK
<1>4. ASSUME NEW t \in Threads, Ssig(t) PROVE MutexOK'
  BY <1>0, <1>4 DEF Ssig, Holding, MutexWaiting, MutexOK
<1>5. ASSUME NEW t \in Threads, NEW r \in Requests, AwaitEnter(t, r) PROVE MutexOK'
  <2>1. /\ \A u \in Threads : u # t => await'[u] = await[u] /\ request'[u] = request[u]
        /\ request'[t] = r /\ ec_mutex_count' = ec_mutex_count /\ await[t] = "idle"
    BY <1>5 DEF AwaitEnter, Goto
  <2>2. /\ await'[t] = "lock" => "MUTEX" \in r.flags
        /\ await'[t] \in {"check", "asleep", "wake", "timeout"} => "MUTEX" \notin r.flags
        /\ await'[t] # "backoff"
    BY <1>5 DEF AwaitEnter, Goto
  <2> QED
    BY <1>0, <2>1, <2>2 DEF Holding, MutexWaiting, MutexOK
<1>6. ASSUME NEW t \in Threads, AwaitLock(t) PROVE MutexOK'
  <2>1. /\ \A u \in Threads : u # t => await'[u] = await[u]
        /\ request' = request
        /\ await[t] = "lock" /\ ec_mutex_count' = ec_mutex_count - 1
        /\ "MUTEX" \in request[t].flags
    BY <1>6 DEF AwaitLock, Goto, MutexOK
  <2>2. \/ ec_mutex_count = 1 /\ await'[t] = "check"
        \/ await'[t] = "backoff"
    BY <1>6 DEF AwaitLock, Goto
  <2>3. Cardinality(Holders') = Cardinality(Holders) + 1
    BY <2>1, <2>2, HoldersAdd DEF Holding, MutexWaiting
  <2>4. ec_mutex_count = 1 => \A u \in Threads : ~Holding(u)
    <3>1. ec_mutex_count = 1 - Cardinality(Holders)
      BY DEF MutexOK
    <3>2. Cardinality(Holders) \in Nat
      BY HoldersFinite
    <3>3. ec_mutex_count = 1 => Cardinality(Holders) = 0
      BY ONLY <3>1, <3>2
    <3> QED
      BY <3>3, HoldersFinite, FS_EmptySet DEF Holders
  <2>5. MutexExclusive'
    BY <2>1, <2>2, <2>4 DEF MutexExclusive, MutexWaiting, Holding, MutexOK
  <2> QED
    BY <2>1, <2>2, <2>3, <2>5, HoldersFinite DEF MutexOK
<1>7. ASSUME NEW t \in Threads, AwaitBackoff(t) PROVE MutexOK'
  <2>1. /\ \A u \in Threads : u # t => await'[u] = await[u]
        /\ request' = request /\ ec_mutex_count' = ec_mutex_count + 1
        /\ await[t] = "backoff" /\ await'[t] = "EDEADLK"
    BY <1>7 DEF AwaitBackoff, Goto
  <2>2. Cardinality(Holders') = Cardinality(Holders) - 1
    BY <2>1, HoldersRemove DEF Holding, MutexWaiting
  <2> QED
    BY <2>1, <2>2, HoldersFinite DEF MutexOK, MutexExclusive, MutexWaiting
<1>8. ASSUME NEW t \in Threads, AwaitCheck(t) \/ AwaitTimeout(t) \/ AwaitReturn(t)
      PROVE  MutexOK'
  <2>1. /\ \A u \in Threads : u # t => await'[u] = await[u] /\ request'[u] = request[u]
        /\ ec_mutex_count' = ec_mutex_count
        /\ \/ /\ await[t] \in {"check", "asleep"} /\ request'[t] = request[t]
              /\ await'[t] \in {"asleep", "wake", "timeout"}
           \/ await[t] \in Results /\ await'[t] = "idle"
    BY <1>8 DEF AwaitCheck, AwaitTimeout, AwaitReturn, Goto
  <2> QED
    BY <1>0, <2>1 DEF Holding, MutexWaiting, MutexOK, Results
<1>9. ASSUME NEW t \in Threads, AwaitFinish(t) \/ AwaitInterrupt(t) PROVE MutexOK'
  <2>1. /\ \A u \in Threads : u # t => await'[u] = await[u]
        /\ request' = request
        /\ await[t] \in {"asleep", "wake", "timeout"}
    BY <1>9 DEF AwaitFinish, AwaitInterrupt, Goto
  <2>2. \/ await'[t] = "check" /\ ec_mutex_count' = ec_mutex_count
        \/ await'[t] \in {"EPIPE", "OK", "TIMEOUT", "ERESTARTSYS"} /\ Unlock(t)
    BY <1>9 DEF AwaitFinish, AwaitInterrupt, Goto
  <2>3. CASE await'[t] = "check" /\ ec_mutex_count' = ec_mutex_count
    BY <1>0, <2>1, <2>3 DEF Holding, MutexWaiting, MutexOK
  <2>4. CASE /\ await'[t] \in {"EPIPE", "OK", "TIMEOUT", "ERESTARTSYS"} /\ Unlock(t)
             /\ "MUTEX" \notin request[t].flags
    BY <1>0, <2>1, <2>4 DEF Holding, MutexWaiting, MutexOK, Unlock
  <2>5. CASE /\ await'[t] \in {"EPIPE", "OK", "TIMEOUT", "ERESTARTSYS"} /\ Unlock(t)
             /\ "MUTEX" \in request[t].flags
    <3>1. Cardinality(Holders') = Cardinality(Holders) - 1
      BY <2>1, <2>5, HoldersRemove DEF Holding, MutexWaiting
    <3>2. ec_mutex_count' = ec_mutex_count + 1
      BY <2>5 DEF Unlock
    <3> QED
      BY <2>1, <2>5, <3>1, <3>2, HoldersFinite DEF MutexOK, MutexExclusive, MutexWaiting
  <2> QED
    BY <2>2, <2>3, <2>4, <2>5
<1>10. CASE UNCHANGED kvars
  BY <1>0, <1>10 DEF kvars, Holding, MutexWaiting, MutexOK
<1> QED
  BY <1>1, <1>2, <1>3, <1>4, <1>5, <1>6, <1>7, <1>8, <1>9, <1>10 DEF Next, Await

-----------------------------------------------------------------------------
(* The invariant holds in every reachable state. *)
THEOREM Invariance == Spec => []EventInv
<1>1. EventInv /\ [Next]_kvars => EventInv'
  BY TypeStep, LifeStep, WakeStep, MutexStep DEF EventInv
<1> QED
  BY InitInv, <1>1, PTL DEF Spec

(***************************************************************************)
(* The variables keep their types and the shared counter stays between     *)
(* one minus the number of threads and one (xen_shm.c:906-909, 950-953).   *)
(***************************************************************************)
THEOREM TypeCorrect == Spec => []TypeOK
<1>1. EventInv => TypeOK
  <2> SUFFICES ASSUME EventInv PROVE TypeOK
    OBVIOUS
  <2>1. Cardinality(Threads) \in Nat
    BY ThreadsAssumption, FS_CardinalityType
  <2> QED
    BY <2>1, HoldersFinite DEF EventInv, MutexOK, TypeOK, WellTyped
<1> QED
  BY Invariance, <1>1, PTL

(***************************************************************************)
(* No wakeup is lost, for any number of threads and any mix of requests    *)
(* (xen_shm.c:232-252, 915-936, 1349-1363).                                *)
(***************************************************************************)
THEOREM WakeupsKept == Spec => []NoLostWakeup
<1>1. EventInv => NoLostWakeup
  BY DEF EventInv
<1> QED
  BY Invariance, <1>1, PTL

(***************************************************************************)
(* Among all calls with the mutex flag at most one waits, on both sides    *)
(* together (xen_shm.c:906-909).                                           *)
(***************************************************************************)
THEOREM MutexExcludes == Spec => []MutexExclusive
<1>1. EventInv => MutexExclusive
  BY DEF EventInv, MutexOK
<1> QED
  BY Invariance, <1>1, PTL

(***************************************************************************)
(* The counter of the mutex flag is back at one when every call has        *)
(* returned, whichever way it returned (xen_shm.c:906-909, 950-953).       *)
(***************************************************************************)
THEOREM MutexReturned == Spec => []MutexBalanced
<1>1. EventInv => MutexBalanced
  <2> SUFFICES ASSUME EventInv, \A t \in Threads : await[t] = "idle"
               PROVE  ec_mutex_count = 1
    BY DEF MutexBalanced
  <2>1. Holders = {}
    BY DEF Holders, Holding, MutexWaiting
  <2> QED
    BY <2>1, FS_EmptySet DEF EventInv, MutexOK
<1> QED
  BY Invariance, <1>1, PTL

(***************************************************************************)
(* The initial signal reaches the offerer only from a receiver past the    *)
(* last failure of INIT_RECEIVER (xen_shm.c:843-848, 965-973), however     *)
(* many threads of the receiver signal meanwhile.                          *)
(***************************************************************************)
THEOREM InitSignalSound == Spec => []InitMeansConnected
<1>1. EventInv => InitMeansConnected
  BY DEF EventInv, LifeOK, InitMeansConnected
<1> QED
  BY Invariance, <1>1, PTL
=============================================================================
