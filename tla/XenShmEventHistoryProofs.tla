---------------------- MODULE XenShmEventHistoryProofs ----------------------
(***************************************************************************)
(* The proof that no user signal is lost, for any threads and any requests *)
(* whose waits for user signals have no timeout.  A signal that is owed    *)
(* was sent to a bound port past its initial signal, so it is a pending    *)
(* event or, once handled, a latent signal; only a wait that ends clears   *)
(* that, and such a wait answers for it.                                   *)
(***************************************************************************)
EXTENDS XenShmEventHistory, XenShmEventProofs

(* What a thread asked for stays what it may ask for; only a timed wait times out. *)
RequestsOK ==
  \A t \in Threads :
    /\ request[t] \in Requests \cup {NoRequest}
    /\ await[t] = "timeout" => request[t].timed

(* A signal that is owed reached a bound port past its initial signal. *)
OwedOK ==
  /\ owed \in [Sides -> BOOLEAN]
  /\ \A s \in Sides :
       owed[s] => initial_signal[s] /\ (release[s] = "open" => bound[s])
  /\ SignalKept

HistoryInv == WellTyped /\ RequestsOK /\ OwedOK

LEMMA HistoryInitInv == HistoryInit => HistoryInv
<1> SUFFICES ASSUME HistoryInit PROVE HistoryInv
  OBVIOUS
<1>1. WellTyped
  BY InitInv DEF EventInv, HistoryInit
<1> QED BY <1>1, ThreadsAssumption DEF Init, HistoryInit, HistoryInv, RequestsOK, OwedOK, SignalKept

(* The added variable restricts nothing. *)
LEMMA HistoryIsNext == [HistoryNext]_hvars => [Next]_kvars
BY Zenon DEF HistoryNext, Unrecorded, RecordSsig, RecordFinish, Next, Await, hvars
-----------------------------------------------------------------------------
LEMMA RequestsStep == WellTyped /\ RequestsOK /\ [Next]_kvars => RequestsOK'
<1> SUFFICES ASSUME WellTyped, RequestsOK, [Next]_kvars PROVE RequestsOK'
  OBVIOUS
<1>1. ASSUME UNCHANGED request,
             \A u \in Threads : await'[u] = "timeout" => await[u] = "timeout"
      PROVE  RequestsOK'
  BY <1>1 DEF RequestsOK
<1>2. \A s \in Sides, u \in Threads : Woken(s)[u] = "timeout" => await[u] = "timeout"
  BY DEF Woken
<1>3. CASE InitReceiver
  BY <1>1, <1>3 DEF InitReceiver, ReceiverMap, ReceiverUndo, ReceiverBind, ReceiverState,
       ReceiverPublish, ReceiverSignal, calls
<1>4. ASSUME NEW s \in Sides, EventHandler(s) \/ Release(s) PROVE RequestsOK'
  BY <1>1, <1>2, <1>4 DEF EventHandler, Release, ReleaseMark, ReleaseNotify, ReleaseFree, calls
<1>5. ASSUME NEW t \in Threads, Ssig(t) PROVE RequestsOK'
  BY <1>1, <1>5 DEF Ssig, calls
<1>6. ASSUME NEW t \in Threads, NEW r \in Requests, AwaitEnter(t, r) PROVE RequestsOK'
  <2>1. /\ request' = [request EXCEPT ![t] = r]
        /\ \A u \in Threads : u # t => await'[u] = await[u]
    BY <1>6 DEF AwaitEnter, Goto, WellTyped
  <2>2. await'[t] # "timeout"
    BY <1>6 DEF AwaitEnter, Goto, WellTyped
  <2> QED BY <2>1, <2>2 DEF RequestsOK, WellTyped
<1>7. ASSUME NEW t \in Threads, AwaitTimeout(t) PROVE RequestsOK'
  BY <1>7 DEF AwaitTimeout, Goto, WellTyped, RequestsOK
<1>8. ASSUME NEW t \in Threads, AwaitReturn(t) PROVE RequestsOK'
  BY <1>8 DEF AwaitReturn, Goto, WellTyped, RequestsOK, Results
<1>9. ASSUME NEW t \in Threads,
             AwaitLock(t) \/ AwaitBackoff(t) \/ AwaitCheck(t) \/ AwaitFinish(t) \/ AwaitInterrupt(t)
      PROVE  RequestsOK'
  <2>1. UNCHANGED request /\ \A u \in Threads : u # t => await'[u] = await[u]
    BY <1>9 DEF AwaitLock, AwaitBackoff, AwaitCheck, AwaitFinish, AwaitInterrupt, Goto, WellTyped
  <2>2. await'[t] # "timeout"
    <3>1. CASE AwaitLock(t) \/ AwaitBackoff(t) \/ AwaitCheck(t)
      BY <3>1 DEF AwaitLock, AwaitBackoff, AwaitCheck, Goto, WellTyped
    <3>2. CASE AwaitInterrupt(t)
      BY <3>2 DEF AwaitInterrupt, Goto, WellTyped
    <3>3. CASE AwaitFinish(t)
      BY <3>3 DEF AwaitFinish, Goto, WellTyped
    <3> QED BY <1>9, <3>1, <3>2, <3>3
  <2> QED BY <1>1, <2>1, <2>2
<1>10. CASE UNCHANGED kvars
  BY <1>1, <1>10 DEF kvars, calls
<1> QED BY <1>3, <1>4, <1>5, <1>6, <1>7, <1>8, <1>9, <1>10, Zenon DEF Next, Await

LEMMA OwedStep ==
  WellTyped /\ RequestsOK /\ OwedOK /\ [HistoryNext]_hvars => OwedOK'
<1> SUFFICES ASSUME WellTyped, RequestsOK, OwedOK, [HistoryNext]_hvars PROVE OwedOK'
  OBVIOUS
<1>1. ASSUME UNCHANGED owed,
             \A s \in Sides :
               /\ initial_signal[s] => initial_signal'[s]
               /\ owed[s] /\ release'[s] = "open" => release[s] = "open" /\ bound'[s]
               /\ owed[s] /\ release'[s] = "open" /\ (pending[s] \/ latent_user_signal[s])
                    => pending'[s] \/ latent_user_signal'[s]
      PROVE  OwedOK'
  BY <1>1 DEF OwedOK, SignalKept
<1>2. ASSUME InitReceiver, UNCHANGED owed PROVE OwedOK'
  <2>1. UNCHANGED <<release, initial_signal, latent_user_signal>>
    BY <1>2 DEF InitReceiver, ReceiverMap, ReceiverUndo, ReceiverBind, ReceiverState,
       ReceiverPublish, ReceiverSignal, signals, life
  <2>2. \A s \in Sides : bound[s] => bound'[s]
    BY <1>2 DEF InitReceiver, ReceiverMap, ReceiverUndo, ReceiverBind, ReceiverState,
       ReceiverPublish, ReceiverSignal, ec, WellTyped
  <2>3. ASSUME NEW s \in Sides, bound[s], pending[s] PROVE pending'[s]
    <3>1. CASE ReceiverMap \/ ReceiverUndo
      BY <2>3, <3>1 DEF ReceiverMap, ReceiverUndo, ec
    <3>2. CASE ReceiverBind
      BY <2>3, <3>2 DEF ReceiverBind, WellTyped, Sides
    <3>3. CASE ReceiverState \/ ReceiverPublish \/ ReceiverSignal
      BY <2>3, <3>3, SidesFacts DEF ReceiverState, ReceiverPublish, ReceiverSignal, ec, NotifyRemote, Raised, WellTyped
    <3> QED BY <1>2, <3>1, <3>2, <3>3 DEF InitReceiver
  <2> QED BY <1>1, <1>2, <2>1, <2>2, <2>3 DEF OwedOK
<1>3. ASSUME NEW s \in Sides, EventHandler(s), UNCHANGED owed PROVE OwedOK'
  <2>1. UNCHANGED <<release, bound>>
    BY <1>3 DEF EventHandler, life
  <2>2. /\ initial_signal' = [initial_signal EXCEPT ![s] = TRUE]
        /\ latent_user_signal' = [latent_user_signal EXCEPT ![s] = @ \/ initial_signal[s]]
    BY <1>3 DEF EventHandler, WellTyped
  <2>3. \A r \in Sides : r # s => (pending[r] => pending'[r])
    BY <1>3, SidesFacts DEF EventHandler, Raised, WellTyped
  <2> QED BY <1>1, <1>3, <2>1, <2>2, <2>3 DEF OwedOK, WellTyped
<1>4. ASSUME NEW s \in Sides, Release(s), UNCHANGED owed PROVE OwedOK'
  <2>1. UNCHANGED <<initial_signal, latent_user_signal>>
    BY <1>4 DEF Release, ReleaseMark, ReleaseNotify, ReleaseFree, signals
  <2>2. release'[s] # "open" /\ \A r \in Sides : r # s => release'[r] = release[r]
    BY <1>4 DEF Release, ReleaseMark, ReleaseNotify, ReleaseFree, WellTyped
  <2>3. \A r \in Sides : r # s => bound'[r] = bound[r] /\ (pending[r] => pending'[r])
    BY <1>4, SidesFacts DEF Release, ReleaseMark, ReleaseNotify, ReleaseFree, NotifyRemote,
       Raised, CloseEc, ec, WellTyped
  <2> QED BY <1>1, <1>4, <2>1, <2>2, <2>3 DEF OwedOK
<1>5. ASSUME NEW t \in Threads,
             \/ \E r \in Requests : AwaitEnter(t, r)
             \/ AwaitLock(t) \/ AwaitBackoff(t) \/ AwaitCheck(t) \/ AwaitTimeout(t)
             \/ AwaitReturn(t) \/ AwaitInterrupt(t),
             UNCHANGED owed
      PROVE  OwedOK'
  <2>1. UNCHANGED <<release, bound, pending, initial_signal, latent_user_signal>>
    BY <1>5 DEF AwaitEnter, AwaitLock, AwaitBackoff, AwaitCheck, AwaitTimeout, AwaitReturn,
       AwaitInterrupt, life, ec, signals
  <2> QED BY <1>1, <1>5, <2>1 DEF OwedOK
<1>6. ASSUME NEW t \in Threads, RecordSsig(t) PROVE OwedOK'
  <2> DEFINE o == Other(SideOf[t])
  <2>1. o \in Sides
    BY SidesFacts
  <2>2. /\ owed' = [owed EXCEPT ![o] = @ \/ (bound[o] /\ initial_signal[o])]
        /\ pending' = [pending EXCEPT ![o] = @ \/ bound[o]]
        /\ UNCHANGED <<release, bound, initial_signal, latent_user_signal>>
    BY <1>6 DEF RecordSsig, Ssig, NotifyRemote, Raised, life, signals
  <2> HIDE DEF o
  <2>3. owed' \in [Sides -> BOOLEAN]
    BY <2>1, <2>2 DEF OwedOK, WellTyped
  <2>4. ASSUME NEW s \in Sides, owed'[s]
        PROVE  /\ initial_signal'[s] /\ (release'[s] = "open" => bound'[s])
               /\ release'[s] = "open" => pending'[s] \/ latent_user_signal'[s]
    <3>1. CASE s = o
      BY <2>1, <2>2, <2>4, <3>1 DEF OwedOK, SignalKept, WellTyped
    <3>2. CASE s # o
      BY <2>1, <2>2, <2>4, <3>2 DEF OwedOK, SignalKept, WellTyped
    <3> QED BY <3>1, <3>2
  <2> QED BY <2>3, <2>4 DEF OwedOK, SignalKept
<1>7. ASSUME NEW t \in Threads, RecordFinish(t) PROVE OwedOK'
  <2> DEFINE s == SideOf[t]
             for == request[t].flags \cap {"USER", "LATENT_USER"} # {}
  <2>1. s \in Sides
    BY SidesFacts
  <2>2. UNCHANGED <<release, bound, pending, initial_signal>>
    BY <1>7 DEF RecordFinish, AwaitFinish, life, ec
  <2>3. await[t] = "timeout" => ~for
    BY ThreadsAssumption, SignalWaitsUntimed DEF RequestsOK, NoRequest
  <2>4. CASE for
    <3>1. await[t] = "wake"
      BY <1>7, <2>3, <2>4 DEF RecordFinish, AwaitFinish
    <3>2. /\ owed' = [owed EXCEPT ![s] = FALSE]
          /\ latent_user_signal' = [latent_user_signal EXCEPT ![s] = FALSE]
      BY <1>7, <2>4, <3>1 DEF RecordFinish, AwaitFinish, OwedOK
    <3> HIDE DEF s, for
    <3> QED BY <2>1, <2>2, <3>2 DEF OwedOK, SignalKept, WellTyped
  <2>5. CASE ~for
    <3>1. UNCHANGED <<owed, latent_user_signal>>
      BY <1>7, <2>5 DEF RecordFinish, AwaitFinish, OwedOK
    <3> QED BY <1>1, <2>2, <3>1 DEF OwedOK
  <2> QED BY <2>4, <2>5
<1>8. CASE UNCHANGED hvars
  BY <1>1, <1>8 DEF hvars, kvars, life, ec, signals, OwedOK
<1> QED BY <1>2, <1>3, <1>4, <1>5, <1>6, <1>7, <1>8, Zenon DEF HistoryNext, Unrecorded

(***************************************************************************)
(* No signal is lost between a SSIG and the wait that answers it, whatever *)
(* threads signal, wait, are interrupted and close.                        *)
(***************************************************************************)
THEOREM SignalsKept == HistorySpec => []SignalKept
<1>1. HistoryInit => HistoryInv
  BY HistoryInitInv
<1>2. HistoryInv /\ [HistoryNext]_hvars => HistoryInv'
  BY TypeStep, RequestsStep, OwedStep, HistoryIsNext DEF HistoryInv
<1>3. HistoryInv => SignalKept
  BY DEF HistoryInv, OwedOK
<1> QED BY <1>1, <1>2, <1>3, PTL DEF HistorySpec
=============================================================================
