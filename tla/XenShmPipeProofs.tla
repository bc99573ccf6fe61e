-------------------------- MODULE XenShmPipeProofs --------------------------
(***************************************************************************)
(* Theorems about XenShmPipe, for every size of the buffer and of the      *)
(* calls and every use of flushes, closings, crashes and interrupts.  Each *)
(* step of a process or of the kernel is one step of the copy loops, or    *)
(* one of the kernel instances, or leaves them alone: what                 *)
(* XenShmRingProofs and XenShmEventProofs show therefore holds of the      *)
(* pipe.  On these two invariants rests that of the wait protocol,         *)
(* PipeInv, and what it says of results, of the end of the file and of     *)
(* WAITING.                                                                *)
(***************************************************************************)
EXTENDS XenShmPipe, FiniteSetTheorems, TLAPS

RP == INSTANCE XenShmRingProofs

(* The loops as they run inside read and write. *)
LEMMA AvailSteps ==
  ASSUME NEW p \in Roles,
         \/ EnterAvail(p) \/ PlaceCheck(p) \/ Copy(p) \/ TakeNews(p)
         \/ Publish(p) \/ LeaveAvail(p)
  PROVE  Ring!Next
<1> USE DEF Roles
<1>1. CASE EnterAvail(p)
  <2>1. PICK n \in Sizes : Ring!Enter(p, n)
    BY <1>1 DEF EnterAvail
  <2>2. n \in 1 .. MaxBytes
    BY PipeAssumption
  <2> QED
    BY <2>1, <2>2 DEF Ring!Next, Ring!Step
<1>2. CASE PlaceCheck(p)
  <2>1. PICK g \in Ring!Intervals : Ring!PlaceCheck(p, g)
    BY <1>2 DEF PlaceCheck, Ring!Intervals
  <2> QED
    BY <2>1 DEF Ring!Next, Ring!Step
<1>3. CASE Copy(p)
  BY <1>3 DEF Copy, Ring!Next, Ring!Step
<1>4. CASE TakeNews(p)
  BY <1>4 DEF TakeNews, Ring!Next, Ring!Step
<1>5. CASE Publish(p)
  BY <1>5 DEF Publish, Ring!Next, Ring!Step
<1>6. CASE LeaveAvail(p)
  BY <1>6 DEF LeaveAvail, Ring!Next, Ring!Step
<1> QED
  BY <1>1, <1>2, <1>3, <1>4, <1>5, <1>6

(* Everything else a process does leaves the ring alone. *)
LEMMA RestLeavesRing ==
  ASSUME NEW p \in Roles, Process(p) \/ Interrupt(p)
  PROVE  \/ EnterAvail(p) \/ PlaceCheck(p) \/ Copy(p) \/ TakeNews(p)
         \/ Publish(p) \/ LeaveAvail(p)
         \/ UNCHANGED ring
<1>1. CASE \/ EnterAvail(p) \/ PlaceCheck(p) \/ Copy(p) \/ TakeNews(p)
           \/ Publish(p) \/ LeaveAvail(p)
  BY <1>1
<1>2. CASE Connect(p) \/ Opened(p) \/ PipeWait(p) \/ SkipWait(p) \/ PipeWaitDone(p)
  BY <1>2 DEF Connect, Opened, PipeWait, SkipWait, PipeWaitDone
<1>3. CASE Call(p) \/ Precheck(p) \/ Test(p) \/ Load(p) \/ SetWait(p)
  BY <1>3 DEF Call, Precheck, Test, Load, SetWait
<1>4. CASE Recheck(p)
  BY <1>4 DEF Recheck
<1>5. CASE Prone(p) \/ ProneDone(p)
  BY <1>5 DEF Prone, ProneDone
<1>6. CASE SetSleep(p) \/ Sleep(p) \/ WakeUp(p)
  BY <1>6 DEF SetSleep, Sleep, WakeUp
<1>7. CASE ScrubLoad(p) \/ ScrubStore(p) \/ GiveUp(p) \/ Unset(p)
  BY <1>7 DEF ScrubLoad, ScrubStore, GiveUp, Unset
<1>8. CASE Kick(p) \/ Finish(p) \/ Flush(p) \/ FlushSignal(p)
  BY <1>8 DEF Kick, Finish, Flush, FlushSignal, Heard
<1>9. CASE Free(p) \/ Crash(p) \/ Die(p) \/ CloseFd(p)
  BY <1>9 DEF Free, Crash, Die, CloseFd
<1>10. CASE InKernel(p) \/ Interrupt(p)
  BY <1>10 DEF InKernel, Interrupt
<1> QED
  BY <1>1, <1>2, <1>3, <1>4, <1>5, <1>6, <1>7, <1>8, <1>9, <1>10
     DEF Process, InCall

LEMMA ProcessSteps ==
  ASSUME NEW p \in Roles, Process(p) \/ Interrupt(p)
  PROVE  Ring!Next \/ UNCHANGED ring
BY RestLeavesRing, AvailSteps

LEMMA NextImplements ==
  ASSUME [Next]_vars
  PROVE  [Ring!Next]_(Ring!ringvars)
<1>1. Ring!Next \/ UNCHANGED ring
  <2>1. ASSUME NEW s \in Kernel!Sides, KernelStep(s) PROVE UNCHANGED ring
    BY <2>1 DEF KernelStep
  <2>2. ASSUME NEW p \in Roles, Process(p) \/ Interrupt(p)
        PROVE  Ring!Next \/ UNCHANGED ring
    BY <2>2, ProcessSteps
  <2>3. CASE UNCHANGED vars
    BY <2>3 DEF vars
  <2> QED
    BY <2>1, <2>2, <2>3 DEF Next
<1>2. UNCHANGED ring => UNCHANGED Ring!ringvars
  BY DEF ring, Ring!ringvars, Ring!bounds, Ring!stream
<1> QED
  BY <1>1, <1>2

(***************************************************************************)
(* The pipe moves bytes only as the copy loops do, whatever the wait       *)
(* protocol, the handshake, closings and crashes do around them            *)
(* (xen_shm_pipe.c:218-945).                                               *)
(***************************************************************************)
THEOREM PipeImplementsRing == Spec => RingSpec
<1>1. Init => Ring!Init
  BY DEF Init
<1>2. [Next]_vars => [Ring!Next]_(Ring!ringvars)
  BY NextImplements
<1> QED
  BY <1>1, <1>2, PTL DEF Spec, RingSpec, Ring!Spec

(* The loops are those that XenShmRingProofs is about. *)
LEMMA RingIsRing ==
  /\ Ring!Init => RP!Init
  /\ [Ring!Next]_(Ring!ringvars) => [RP!Next]_(RP!ringvars)
<1>1. Ring!Init => RP!Init
  BY DEF Ring!Init, RP!Init, Ring!Roles, RP!Roles
<1>2. [Ring!Next]_(Ring!ringvars) => [RP!Next]_(RP!ringvars)
  BY DEF Ring!Next, RP!Next, Ring!Step, RP!Step, Ring!Roles, RP!Roles,
         Ring!ringvars, RP!ringvars, Ring!bounds, RP!bounds, Ring!stream, RP!stream,
         Ring!Enter, RP!Enter, Ring!PlaceCheck, RP!PlaceCheck,
         Ring!CopyByte, RP!CopyByte, Ring!CopyDone, RP!CopyDone,
         Ring!CheckDue, RP!CheckDue, Ring!Refresh, RP!Refresh,
         Ring!Publish, RP!Publish, Ring!Leave, RP!Leave,
         Ring!Intervals, RP!Intervals, Ring!LoopHead, RP!LoopHead,
         Ring!MinOf, RP!MinOf, Ring!Limit, RP!Limit, Ring!Reduced, RP!Reduced
<1> QED
  BY <1>1, <1>2

LEMMA RingAssumed ==
  /\ BufferSize \in Nat /\ BufferSize > 1
  /\ CheckInterval \in Nat \ {0} /\ FastCheckInterval \in Nat \ {0}
  /\ Slack \in Nat /\ MaxBytes \in Nat
BY PipeAssumption

LEMMA RingInvariance == Spec => []RP!RingInv
<1>1. RP!Spec => []RP!RingInv
  BY RingAssumed, RP!Invariance
<1> QED
  BY PipeImplementsRing, RingIsRing, <1>1, PTL DEF RingSpec, Ring!Spec, RP!Spec

(***************************************************************************)
(* What read returns is the stream that write was given, in order, for     *)
(* every buffer size and through connections, sleeps, closings and crashes *)
(* (xen_shm_pipe.c:500-885).                                               *)
(***************************************************************************)
THEOREM PipeDelivers == Spec => []Ring!DeliveredInOrder
<1>1. RP!RingInv => Ring!DeliveredInOrder
  BY DEF RP!RingInv, RP!DeliveredInOrder, Ring!DeliveredInOrder
<1> QED
  BY RingInvariance, <1>1, PTL

-----------------------------------------------------------------------------
(***************************************************************************)
(* The kernel under the pipe.  A process that dies leaves its wait as one  *)
(* that is interrupted does, so any process counts as interruptible.       *)
(***************************************************************************)
EP == INSTANCE XenShmEventProofs
  WITH Threads <- Roles, SideOf <- [p \in Roles |-> Side(p)],
       Requests <- {WaitSignal, ProneAwait}, Interruptible <- Roles

LEMMA EventAssumption ==
  /\ EP!IsFiniteSet(Roles)
  /\ [p \in Roles |-> Side(p)] \in [Roles -> EP!Sides]
  /\ {WaitSignal, ProneAwait} \subseteq EP!Request
  /\ Roles \subseteq Roles
<1>1. EP!IsFiniteSet({"reader", "writer"})
  <2>1. IsFiniteSet({"reader"})
    BY FS_Singleton
  <2>2. IsFiniteSet({"reader"} \cup {"writer"})
    BY <2>1, FS_AddElement
  <2>3. {"reader", "writer"} = {"reader"} \cup {"writer"}
    OBVIOUS
  <2> QED
    BY <2>2, <2>3 DEF IsFiniteSet, EP!IsFiniteSet
<1>2. {WaitSignal, ProneAwait} \subseteq EP!Request
  BY DEF WaitSignal, ProneAwait, EP!Request, EP!AwaitFlags
<1> QED
  BY <1>1, <1>2 DEF Roles, Ring!Roles, Side, EP!Sides

LEMMA EventStep == EP!EventInv /\ [EP!Next]_(EP!kvars) => EP!EventInv'
BY EventAssumption, EP!TypeStep, EP!LifeStep, EP!WakeStep, EP!MutexStep DEF EP!EventInv

(* The actions of the kernel are those of XenShmEvent. *)
LEMMA SameActions ==
  /\ \/ Kernel!ReceiverMap \/ Kernel!ReceiverBind
     \/ Kernel!ReceiverState \/ Kernel!ReceiverPublish \/ Kernel!ReceiverSignal
     => EP!InitReceiver
  /\ \A s \in Kernel!Sides :
       /\ Kernel!EventHandler(s) => EP!EventHandler(s)
       /\ Kernel!ReleaseMark(s) => EP!ReleaseMark(s)
       /\ Kernel!ReleaseNotify(s) => EP!ReleaseNotify(s)
       /\ Kernel!ReleaseFree(s) => EP!ReleaseFree(s)
  /\ \A p \in Roles :
       /\ Kernel!Ssig(p) => EP!Ssig(p)
       /\ \A r : Kernel!AwaitEnter(p, r) => EP!AwaitEnter(p, r)
  /\ \A p \in Roles :
       /\ Kernel!AwaitCheck(p) => EP!AwaitCheck(p)
       /\ Kernel!AwaitTimeout(p) => EP!AwaitTimeout(p)
       /\ Kernel!AwaitFinish(p) => EP!AwaitFinish(p)
       /\ Kernel!AwaitReturn(p) => EP!AwaitReturn(p)
       /\ Kernel!AwaitInterrupt(p) => EP!AwaitInterrupt(p)
<1> USE DEF Kernel!life, EP!life, Kernel!ec, EP!ec, Kernel!signals, EP!signals,
            Kernel!calls, EP!calls, Kernel!Sides, EP!Sides, Kernel!Other, EP!Other,
            Kernel!BrokenPipe, EP!BrokenPipe, Kernel!Goto, EP!Goto,
            Kernel!Raised, EP!Raised, Kernel!NotifyRemote, EP!NotifyRemote,
            Kernel!Woken, EP!Woken, Kernel!AwaitCond, EP!AwaitCond,
            Kernel!Unlock, EP!Unlock, Kernel!Trigger, EP!Trigger
<1>1. \/ Kernel!ReceiverMap \/ Kernel!ReceiverBind
      \/ Kernel!ReceiverState \/ Kernel!ReceiverPublish \/ Kernel!ReceiverSignal
      => EP!InitReceiver
  BY Zenon DEF Kernel!ReceiverMap, EP!ReceiverMap, Kernel!ReceiverBind, EP!ReceiverBind,
         Kernel!ReceiverState, EP!ReceiverState, Kernel!ReceiverPublish, EP!ReceiverPublish,
         Kernel!ReceiverSignal, EP!ReceiverSignal, EP!InitReceiver
<1>2. ASSUME NEW s \in Kernel!Sides
      PROVE  /\ Kernel!EventHandler(s) => EP!EventHandler(s)
             /\ Kernel!ReleaseMark(s) => EP!ReleaseMark(s)
             /\ Kernel!ReleaseNotify(s) => EP!ReleaseNotify(s)
             /\ Kernel!ReleaseFree(s) => EP!ReleaseFree(s)
  BY Zenon DEF Kernel!EventHandler, EP!EventHandler, Kernel!ReleaseMark, EP!ReleaseMark,
         Kernel!ReleaseNotify, EP!ReleaseNotify, Kernel!ReleaseFree, EP!ReleaseFree,
         Kernel!CloseEc, EP!CloseEc
<1>3. ASSUME NEW p \in Roles
      PROVE  /\ Kernel!Ssig(p) => EP!Ssig(p)
             /\ \A r : Kernel!AwaitEnter(p, r) => EP!AwaitEnter(p, r)
  BY Zenon DEF Kernel!Ssig, EP!Ssig, Kernel!AwaitEnter, EP!AwaitEnter
<1>4. ASSUME NEW p \in Roles
      PROVE  /\ Kernel!AwaitCheck(p) => EP!AwaitCheck(p)
             /\ Kernel!AwaitTimeout(p) => EP!AwaitTimeout(p)
             /\ Kernel!AwaitFinish(p) => EP!AwaitFinish(p)
             /\ Kernel!AwaitReturn(p) => EP!AwaitReturn(p)
             /\ Kernel!AwaitInterrupt(p) => EP!AwaitInterrupt(p)
  BY Zenon DEF Kernel!AwaitCheck, EP!AwaitCheck, Kernel!AwaitTimeout, EP!AwaitTimeout,
         Kernel!AwaitFinish, EP!AwaitFinish, Kernel!AwaitReturn, EP!AwaitReturn,
         Kernel!AwaitInterrupt, EP!AwaitInterrupt, Kernel!Results, EP!Results,
         Kernel!NoRequest, EP!NoRequest
<1> HIDE DEF Kernel!Sides, EP!Sides
<1> QED
  BY <1>1, <1>2, <1>3, <1>4, Zenon

LEMMA KernelIsEvent ==
  /\ \/ Kernel!ReceiverMap \/ Kernel!ReceiverBind
     \/ Kernel!ReceiverState \/ Kernel!ReceiverPublish \/ Kernel!ReceiverSignal
     => EP!Next
  /\ \A s \in Kernel!Sides :
       \/ Kernel!EventHandler(s) \/ Kernel!ReleaseMark(s)
       \/ Kernel!ReleaseNotify(s) \/ Kernel!ReleaseFree(s)
       => EP!Next
  /\ \A p \in Roles :
       \/ Kernel!Ssig(p)
       \/ Kernel!AwaitEnter(p, WaitSignal) \/ Kernel!AwaitEnter(p, ProneAwait)
       \/ Kernel!AwaitCheck(p) \/ Kernel!AwaitTimeout(p) \/ Kernel!AwaitFinish(p)
       \/ Kernel!AwaitReturn(p) \/ Kernel!AwaitInterrupt(p)
       => EP!Next
<1>1. Kernel!Sides = EP!Sides
  BY DEF Kernel!Sides, EP!Sides
<1> QED
  BY <1>1, SameActions, Zenon DEF EP!Next, EP!Await, EP!Release

(* What the pipe does to the kernel, the kernel's callers may do. *)
LEMMA NextUsesKernel ==
  ASSUME [Next]_vars
  PROVE  [EP!Next]_(EP!kvars)
<1>1. ASSUME NEW s \in Kernel!Sides, KernelStep(s) PROVE EP!Next
  BY <1>1, KernelIsEvent, Zenon DEF KernelStep
<1>2. ASSUME NEW p \in Roles, Process(p) \/ Interrupt(p)
      PROVE  EP!Next \/ UNCHANGED kernel
  <2>0. Side(p) \in Kernel!Sides
    BY DEF Side, Kernel!Sides
  <2>1. CASE Connect(p) \/ Opened(p) \/ PipeWait(p) \/ SkipWait(p) \/ PipeWaitDone(p)
    BY <2>1, KernelIsEvent, Zenon DEF Connect, Opened, PipeWait, SkipWait, PipeWaitDone
  <2>2. CASE Call(p) \/ Precheck(p) \/ Test(p) \/ Load(p) \/ SetWait(p) \/ Recheck(p)
    BY <2>2, Zenon DEF Call, Precheck, Test, Load, SetWait, Recheck
  <2>3. CASE Prone(p) \/ ProneDone(p) \/ SetSleep(p) \/ Sleep(p) \/ WakeUp(p)
    BY <2>3, KernelIsEvent, Zenon DEF Prone, ProneDone, SetSleep, Sleep, WakeUp
  <2>4. CASE ScrubLoad(p) \/ ScrubStore(p) \/ GiveUp(p) \/ Unset(p)
    BY <2>4, Zenon DEF ScrubLoad, ScrubStore, GiveUp, Unset
  <2>5. CASE \/ EnterAvail(p) \/ PlaceCheck(p) \/ Copy(p) \/ TakeNews(p)
             \/ Publish(p) \/ LeaveAvail(p)
    BY <2>5, Zenon DEF EnterAvail, PlaceCheck, Copy, TakeNews, Publish, LeaveAvail
  <2>6. CASE Kick(p) \/ Finish(p) \/ Flush(p) \/ FlushSignal(p)
    BY <2>6, KernelIsEvent, Zenon DEF Kick, Finish, Flush, FlushSignal, SendSignal
  <2>7. CASE Free(p) \/ Crash(p) \/ Die(p) \/ CloseFd(p)
    BY <2>0, <2>7, KernelIsEvent, Zenon DEF Free, Crash, Die, CloseFd
  <2>8. CASE InKernel(p) \/ Interrupt(p)
    BY <2>8, KernelIsEvent, Zenon DEF InKernel, Interrupt
  <2> QED
    BY <1>2, <2>1, <2>2, <2>3, <2>4, <2>5, <2>6, <2>7, <2>8, Zenon DEF Process, InCall
<1>3. UNCHANGED kernel => UNCHANGED EP!kvars
  BY DEF kernel, EP!kvars, EP!life, EP!ec, EP!signals, EP!calls
<1>4. UNCHANGED vars => UNCHANGED kernel
  BY DEF vars
<1> QED
  BY <1>1, <1>2, <1>3, <1>4, Zenon DEF Next

LEMMA InitEvent == Init => EP!EventInv
<1> SUFFICES ASSUME Init PROVE EP!EventInv
  OBVIOUS
<1>1. CASE ~Connected
  <2>1. EP!Init
    BY <1>1 DEF Init, Kernel!Init, EP!Init, Kernel!Sides, EP!Sides,
                Kernel!NoRequest, EP!NoRequest
  <2> QED
    BY <2>1, EventAssumption, EP!InitInv
<1>2. CASE Connected
  <2>1. /\ state = [s \in EP!Sides |-> IF s = "offerer" THEN "OFFERER" ELSE "RECEIVER"]
        /\ meta = [s \in EP!Sides |-> "OPENED"]
        /\ mapped = TRUE /\ opening = "no"
        /\ bound = [s \in EP!Sides |-> TRUE]
        /\ pending = [s \in EP!Sides |-> FALSE]
        /\ initial_signal = [s \in EP!Sides |-> TRUE]
        /\ user_signal = [s \in EP!Sides |-> FALSE]
        /\ latent_user_signal = [s \in EP!Sides |-> FALSE]
        /\ ec_mutex_count = 1
        /\ await = [p \in Roles |-> "idle"]
        /\ request = [p \in Roles |-> EP!NoRequest]
        /\ release = [s \in EP!Sides |-> "open"]
    BY <1>2, Zenon DEF Init, Kernel!Sides, EP!Sides, Kernel!NoRequest, EP!NoRequest
  <2>2. /\ bound \in [EP!Sides -> BOOLEAN] /\ pending \in [EP!Sides -> BOOLEAN]
        /\ initial_signal \in [EP!Sides -> BOOLEAN] /\ user_signal \in [EP!Sides -> BOOLEAN]
        /\ latent_user_signal \in [EP!Sides -> BOOLEAN] /\ mapped \in BOOLEAN
    BY <2>1, Zenon
  <2>3. EP!WellTyped
    BY <2>1, <2>2 DEF EP!WellTyped, EP!Request, EP!NoRequest, EP!AwaitStates
  <2>4. EP!LifeOK
    BY <2>1 DEF EP!LifeOK, EP!InAwait, EP!Sides
  <2>5. EP!NoLostWakeup
    BY <2>1 DEF EP!NoLostWakeup
  <2>6. EP!Holders = {}
    BY <2>1 DEF EP!Holders, EP!Holding, EP!MutexWaiting
  <2>7. EP!Cardinality({}) = 0
    BY EventAssumption, EP!FS_EmptySet
  <2>8. EP!MutexOK
    BY <2>1, <2>6, <2>7 DEF EP!MutexOK, EP!MutexExclusive, EP!MutexWaiting
  <2> QED
    BY <2>3, <2>4, <2>5, <2>8 DEF EP!EventInv
<1> QED
  BY <1>1, <1>2

LEMMA EventInvariance == Spec => []EP!EventInv
BY InitEvent, EventStep, NextUsesKernel, PTL DEF Spec

(***************************************************************************)
(* The kernel loses no wakeup of the processes of a pipe, whatever they do *)
(* and wherever they die: who sleeps on while a signal is there for it, or *)
(* while the other end has closed, has an event on its way to it           *)
(* (xen_shm.c:243-249, 1350-1363; xen_shm_pipe.c:280-300).                 *)
(***************************************************************************)
THEOREM PipeWakeupsKept == Spec => []Kernel!NoLostWakeup
<1>1. EP!EventInv => Kernel!NoLostWakeup
  BY DEF EP!EventInv, EP!NoLostWakeup, Kernel!NoLostWakeup, EP!AwaitCond, Kernel!AwaitCond,
         EP!BrokenPipe, Kernel!BrokenPipe, EP!Sides, Kernel!Sides, EP!Other, Kernel!Other
<1> QED
  BY <1>1, EventInvariance, PTL

-----------------------------------------------------------------------------
(* The two roles, and the kernel's side each is on. *)
LEMMA RoleFacts ==
  /\ Roles = {"reader", "writer"}
  /\ Peer("reader") = "writer" /\ Peer("writer") = "reader"
  /\ \A p \in Roles :
       /\ Peer(p) \in Roles /\ Peer(p) # p /\ Peer(Peer(p)) = p
       /\ Side(p) \in Kernel!Sides
       /\ Side(Peer(p)) = Kernel!Other(Side(p)) /\ Side(Peer(p)) # Side(p)
  /\ \A p, q \in Roles : q = p \/ q = Peer(p)
<1>1. WriterOffers \in BOOLEAN
  BY PipeAssumption
<1> QED
  BY <1>1 DEF Roles, Peer, Ring!Roles, Ring!Peer, Side, Kernel!Sides, Kernel!Other

(* The types of the kernel's and of the ring's variables, from their proofs. *)
KernelTyped ==
  /\ state \in [Kernel!Sides -> {"OPENED", "OFFERER", "RECEIVER"}]
  /\ meta \in [Kernel!Sides -> {"NONE", "OPENED", "CLOSED"}]
  /\ bound \in [Kernel!Sides -> BOOLEAN] /\ pending \in [Kernel!Sides -> BOOLEAN]
  /\ initial_signal \in [Kernel!Sides -> BOOLEAN]
  /\ latent_user_signal \in [Kernel!Sides -> BOOLEAN]
  /\ await \in [Roles -> Kernel!AwaitStates]
  /\ request \in [Roles -> Kernel!Request]
  /\ release \in [Kernel!Sides -> {"open", "marked", "notified", "delayed", "freed"}]
  /\ \A s \in Kernel!Sides : state[s] # "OPENED" /\ release[s] = "open" => bound[s]
  /\ \A s \in Kernel!Sides : meta[s] = "CLOSED" => release[s] # "open"
  /\ opening # "no" => state["receiver"] # "OPENED"

LEMMA KernelFacts == EP!EventInv => KernelTyped
BY DEF EP!EventInv, EP!WellTyped, EP!LifeOK, KernelTyped, EP!Sides, Kernel!Sides,
       EP!AwaitStates, Kernel!AwaitStates, EP!Results, Kernel!Results,
       EP!Request, Kernel!Request, EP!AwaitFlags, Kernel!AwaitFlags

RingTyped ==
  /\ pos \in [Roles -> 0 .. BufferSize - 1]
  /\ at \in [Roles -> {"out", "gran", "copy", "refresh", "publish", "tail"}]
  /\ own \in [Roles -> 0 .. BufferSize] /\ lim \in [Roles -> 0 .. BufferSize - 1]
  /\ cur \in [Roles -> Nat] /\ usr \in [Roles -> Nat]
  /\ gran \in [Roles -> Nat] /\ top \in [Roles -> Nat]
  /\ sent \in 0 .. MaxBytes /\ rcvd \in Seq(Nat)

LEMMA RingFacts == RP!RingInv => RingTyped
BY DEF RP!RingInv, RP!TypeOK, RingTyped, Roles, Ring!Roles, RP!Roles


(* What a step leaves alone of process q: all that q has, its flags aside. *)
SameProcess(q) ==
  /\ pc'[q] = pc[q] /\ peer'[q] = peer[q] /\ ret'[q] = ret[q]
  /\ loop_count'[q] = loop_count[q] /\ active_count'[q] = active_count[q]
  /\ unset_wait'[q] = unset_wait[q] /\ saw_epipe'[q] = saw_epipe[q]
  /\ flushed'[q] = flushed[q]

SameLoop(q) ==
  /\ at'[q] = at[q] /\ pos'[q] = pos[q] /\ own'[q] = own[q] /\ lim'[q] = lim[q]
  /\ cur'[q] = cur[q] /\ usr'[q] = usr[q] /\ gran'[q] = gran[q] /\ top'[q] = top[q]

SameCall(q) ==
  /\ await'[q] = await[q] /\ request'[q] = request[q]
  /\ state'[Side(q)] = state[Side(q)] /\ release'[Side(q)] = release[Side(q)]

(* One process leaves what the other has alone. *)
LEMMA PeerProcess ==
  ASSUME TypeOK, NEW p \in Roles, Process(p) \/ Interrupt(p)
  PROVE  SameProcess(Peer(p))
<1> DEFINE q == Peer(p)
<1>0. q \in Roles /\ q # p
  BY RoleFacts
<1> HIDE DEF q
<1> SUFFICES SameProcess(q)
  BY DEF q
<1> USE <1>0 DEF SameProcess, TypeOK, wait, counts, Goto, Return, Forget
<1>1. CASE \/ EnterAvail(p) \/ PlaceCheck(p) \/ Copy(p) \/ TakeNews(p)
           \/ Publish(p) \/ LeaveAvail(p)
  BY <1>1 DEF EnterAvail, PlaceCheck, Copy, TakeNews, Publish, LeaveAvail, KickOr
<1>2. CASE Connect(p) \/ Opened(p) \/ PipeWait(p) \/ SkipWait(p) \/ PipeWaitDone(p)
  BY <1>2 DEF Connect, Opened, PipeWait, SkipWait, PipeWaitDone
<1>3. CASE Call(p) \/ Precheck(p) \/ Test(p) \/ Load(p) \/ SetWait(p)
  BY <1>3 DEF Call, Precheck, Test, Load, SetWait
<1>4. CASE Recheck(p)
  BY <1>4 DEF Recheck, Decide
<1>5. CASE Prone(p) \/ ProneDone(p)
  BY <1>5 DEF Prone, ProneDone, Decide
<1>6. CASE SetSleep(p) \/ Sleep(p) \/ WakeUp(p)
  BY <1>6 DEF SetSleep, Sleep, WakeUp
<1>7. CASE ScrubLoad(p) \/ ScrubStore(p) \/ GiveUp(p) \/ Unset(p)
  BY <1>7 DEF ScrubLoad, ScrubStore, GiveUp, Unset
<1>8. CASE Kick(p) \/ Finish(p) \/ Flush(p) \/ FlushSignal(p)
  BY <1>8 DEF Kick, Finish, Flush, FlushSignal, Heard
<1>9. CASE Free(p) \/ Crash(p) \/ Die(p) \/ CloseFd(p)
  BY <1>9 DEF Free, Crash, Die, CloseFd
<1>10. CASE InKernel(p) \/ Interrupt(p)
  BY <1>10 DEF InKernel, Interrupt
<1> QED
  BY <1>1, <1>2, <1>3, <1>4, <1>5, <1>6, <1>7, <1>8, <1>9, <1>10
     DEF Process, InCall

(* The loop of one role leaves the loop of the other alone. *)
LEMMA PeerLoop ==
  ASSUME RingTyped, NEW p \in Roles, Process(p) \/ Interrupt(p)
  PROVE  SameLoop(Peer(p))
<1> DEFINE q == Peer(p)
<1>0. q \in Roles /\ q # p
  BY RoleFacts
<1> HIDE DEF q
<1> SUFFICES SameLoop(q)
  BY DEF q
<1>1. CASE UNCHANGED ring
  BY <1>1 DEF ring, SameLoop
<1> USE <1>0 DEF SameLoop, RingTyped, Ring!bounds, Ring!stream
<1>2. CASE EnterAvail(p)
  BY <1>2 DEF EnterAvail, Ring!Enter
<1>3. CASE PlaceCheck(p)
  BY <1>3 DEF PlaceCheck, Ring!PlaceCheck, Ring!LoopHead
<1>4. CASE Copy(p) \/ TakeNews(p)
  BY <1>4 DEF Copy, Ring!CopyByte, Ring!Refresh, TakeNews, Ring!CopyDone
<1>5. CASE Publish(p)
  BY <1>5 DEF Publish, Ring!Publish, Ring!LoopHead
<1>6. CASE LeaveAvail(p)
  BY <1>6 DEF LeaveAvail, Ring!Leave
<1> QED
  BY <1>1, <1>2, <1>3, <1>4, <1>5, <1>6, RestLeavesRing

(* The uses a process makes of the kernel. *)
LEMMA KernelSteps ==
  ASSUME NEW p \in Roles, Process(p) \/ Interrupt(p)
  PROVE  \/ UNCHANGED kernel \/ Connect(p)
         \/ Kernel!Ssig(p) /\ (Kick(p) \/ FlushSignal(p))
         \/ (\E r : Kernel!AwaitEnter(p, r)) \/ Kernel!AwaitReturn(p)
         \/ Kernel!AwaitCheck(p) \/ Kernel!AwaitTimeout(p)
         \/ Kernel!AwaitFinish(p) \/ Kernel!AwaitInterrupt(p)
         \/ Kernel!ReleaseMark(Side(p)) /\ CloseFd(p)
<1>1. CASE Connect(p) \/ Opened(p) \/ PipeWait(p) \/ SkipWait(p) \/ PipeWaitDone(p)
  BY <1>1, Zenon DEF Connect, Opened, PipeWait, SkipWait, PipeWaitDone
<1>2. CASE Call(p) \/ Precheck(p) \/ Test(p) \/ Load(p) \/ SetWait(p) \/ Recheck(p)
  BY <1>2, Zenon DEF Call, Precheck, Test, Load, SetWait, Recheck
<1>3. CASE Prone(p) \/ ProneDone(p) \/ SetSleep(p) \/ Sleep(p) \/ WakeUp(p)
  BY <1>3, Zenon DEF Prone, ProneDone, SetSleep, Sleep, WakeUp
<1>4. CASE ScrubLoad(p) \/ ScrubStore(p) \/ GiveUp(p) \/ Unset(p)
  BY <1>4, Zenon DEF ScrubLoad, ScrubStore, GiveUp, Unset
<1>5. CASE \/ EnterAvail(p) \/ PlaceCheck(p) \/ Copy(p) \/ TakeNews(p)
           \/ Publish(p) \/ LeaveAvail(p)
  BY <1>5, Zenon DEF EnterAvail, PlaceCheck, Copy, TakeNews, Publish, LeaveAvail
<1>6. CASE Kick(p) \/ Finish(p) \/ Flush(p) \/ FlushSignal(p)
  BY <1>6, Zenon DEF Kick, Finish, Flush, FlushSignal, SendSignal
<1>7. CASE Free(p) \/ Crash(p) \/ Die(p) \/ CloseFd(p)
  BY <1>7, Zenon DEF Free, Crash, Die, CloseFd
<1>8. CASE InKernel(p) \/ Interrupt(p)
  BY <1>8, Zenon DEF InKernel, Interrupt
<1> QED
  BY <1>1, <1>2, <1>3, <1>4, <1>5, <1>6, <1>7, <1>8, Zenon DEF Process, InCall

(* What the kernel does for one process leaves the call of the other alone. *)
LEMMA PeerCall ==
  ASSUME KernelTyped, NEW p \in Roles, Process(p) \/ Interrupt(p),
         pc[p] = "connect" => Side(p) = "receiver"
  PROVE  SameCall(Peer(p))
<1> DEFINE q == Peer(p)
<1>0. /\ q \in Roles /\ q # p /\ Side(q) # Side(p)
      /\ Side(p) \in Kernel!Sides /\ Side(q) \in Kernel!Sides
  BY RoleFacts
<1> HIDE DEF q
<1> SUFFICES SameCall(q)
  BY DEF q
<1>1. CASE UNCHANGED kernel
  BY <1>1 DEF kernel, SameCall
<1>2. CASE Kernel!Ssig(p)
  BY <1>2 DEF Kernel!Ssig, Kernel!life, Kernel!calls, SameCall
<1> USE <1>0 DEF SameCall, KernelTyped, Kernel!life, Kernel!calls, Kernel!Goto
<1>3. CASE Connect(p)
  BY <1>3 DEF Connect, Kernel!ReceiverMap, Kernel!ReceiverBind, Kernel!ReceiverState,
              Kernel!ReceiverPublish, Kernel!ReceiverSignal
<1>4. ASSUME NEW r, Kernel!AwaitEnter(p, r) PROVE SameCall(q)
  BY <1>4 DEF Kernel!AwaitEnter
<1>5. CASE Kernel!AwaitReturn(p)
  BY <1>5 DEF Kernel!AwaitReturn
<1>6. CASE Kernel!AwaitCheck(p) \/ Kernel!AwaitTimeout(p)
  BY <1>6 DEF Kernel!AwaitCheck, Kernel!AwaitTimeout
<1>7. CASE Kernel!AwaitFinish(p) \/ Kernel!AwaitInterrupt(p)
  BY <1>7 DEF Kernel!AwaitFinish, Kernel!AwaitInterrupt
<1>8. CASE Kernel!ReleaseMark(Side(p))
  BY <1>8 DEF Kernel!ReleaseMark
<1>9. \/ UNCHANGED kernel \/ Kernel!Ssig(p) \/ Connect(p)
      \/ (\E r : Kernel!AwaitEnter(p, r)) \/ Kernel!AwaitReturn(p)
      \/ Kernel!AwaitCheck(p) \/ Kernel!AwaitTimeout(p)
      \/ Kernel!AwaitFinish(p) \/ Kernel!AwaitInterrupt(p)
      \/ Kernel!ReleaseMark(Side(p))
  BY KernelSteps
<1> QED
  BY <1>1, <1>2, <1>3, <1>4, <1>5, <1>6, <1>7, <1>8, <1>9

(* What the kernel does by itself: at most it wakes a sleeper. *)
LEMMA KernelAlone ==
  ASSUME KernelTyped, NEW s \in Kernel!Sides, KernelStep(s)
  PROVE  /\ UNCHANGED <<ring, flags, pc, wait, ret, flushed, request, state>>
         /\ \A p \in Roles :
              await'[p] = await[p] \/ (await[p] = "asleep" /\ await'[p] = "check")
         /\ \A r \in Kernel!Sides : release'[r] = "open" <=> release[r] = "open"
<1>1. CASE Kernel!EventHandler(s)
  BY <1>1 DEF KernelStep, Kernel!EventHandler, Kernel!Woken, Kernel!life, KernelTyped
<1>2. CASE Kernel!ReleaseNotify(s)
  BY <1>2 DEF KernelStep, Kernel!ReleaseNotify, Kernel!Woken, KernelTyped
<1>3. CASE Kernel!ReleaseFree(s)
  BY <1>3 DEF KernelStep, Kernel!ReleaseFree, Kernel!calls, KernelTyped
<1> QED
  BY <1>1, <1>2, <1>3 DEF KernelStep

-----------------------------------------------------------------------------
InsideCall ==
  {"precheck", "test", "load", "setwait", "recheck", "prone", "proning", "sleep",
   "await", "awaiting", "scrub", "scrubbed", "giveup", "unset", "enter", "avail",
   "kick", "kickcopy"}

(* Where loop_count has not run out. *)
Looping ==
  {"offered", "connect", "opened", "idle", "pipewait", "precheck", "test", "load",
   "kick", "sleep", "await", "awaiting", "flush"}

(***************************************************************************)
(* Where a process can be in the kernel, and with which request; when it   *)
(* is inside the copy loop.                                                *)
(***************************************************************************)
CallOK(p) ==
  /\ pc[p] \notin {"pipewait", "proning", "awaiting", "dying"} => await[p] = "idle"
  /\ pc[p] \in {"pipewait", "proning"} => request[p] = ProneAwait
  /\ pc[p] = "awaiting" => request[p] = WaitSignal
  /\ await[p] \in {"idle", "check", "asleep", "wake", "timeout",
                   "OK", "TIMEOUT", "EPIPE", "ERESTARTSYS"}
  /\ await[p] \in {"timeout", "TIMEOUT"} => pc[p] # "awaiting"
  /\ await[p] = "ERESTARTSYS" => p \in Interruptible \/ pc[p] = "dying"
  /\ pc[p] # "connect" => state[Side(p)] # "OPENED"
  /\ pc[p] \in {"connect", "opened"} => Side(p) = "receiver"
  /\ release[Side(p)] = "open" <=> pc[p] # "gone"

PlaceOK(p) ==
  /\ pc[p] \notin {"avail", "kickcopy", "dying", "gone"} => at[p] = "out"
  /\ pc[p] \in InsideCall => ret[p] = "none"
  /\ pc[p] \in Looping => loop_count[p] > 0
  /\ pc[p] \in {"scrub", "scrubbed"} => p = "reader" /\ p \in Interruptible

(* Every step keeps the types. *)
LEMMA TypeStep ==
  ASSUME TypeOK, \A p \in Roles : PlaceOK(p), [Next]_vars, KernelTyped
  PROVE  TypeOK'
<1>1. CASE UNCHANGED vars
  BY <1>1 DEF vars, wait, counts, TypeOK
<1>2. ASSUME NEW s \in Kernel!Sides, KernelStep(s) PROVE TypeOK'
  BY <1>2 DEF KernelStep, wait, counts, TypeOK
<1>3. ASSUME NEW p \in Roles, Process(p) \/ Interrupt(p)
      PROVE  TypeOK'
  <2>0. Peer(p) \in Roles /\ LoopLimit \in Nat \ {0} /\ ActiveMax \in Nat
    BY RoleFacts, PipeAssumption
  <2> USE <2>0 DEF TypeOK, wait, counts, Goto, Return, Forget, SetFlag, ClearFlag,
                   Places, FlagNames
  <2>1. CASE \/ EnterAvail(p) \/ PlaceCheck(p) \/ Copy(p) \/ TakeNews(p)
             \/ Publish(p) \/ LeaveAvail(p)
    BY <2>1 DEF EnterAvail, PlaceCheck, Copy, TakeNews, Publish, LeaveAvail, KickOr
  <2>2. CASE Connect(p) \/ Opened(p) \/ PipeWait(p) \/ SkipWait(p) \/ PipeWaitDone(p)
    BY <2>2 DEF Connect, Opened, PipeWait, SkipWait, PipeWaitDone
  <2>3. CASE Call(p) \/ Precheck(p) \/ Test(p)
    BY <2>3 DEF Call, Precheck, Test
  <2>12. CASE SetWait(p)
    <3>1. unset_wait' \in [Roles -> BOOLEAN]
      BY <2>12, Zenon DEF SetWait
    <3> QED
      BY <2>12, <3>1 DEF SetWait
  <2>4. CASE Load(p)
    BY <2>4 DEF Load, PlaceOK, Looping
  <2>5. CASE Recheck(p)
    BY <2>5 DEF Recheck, Decide
  <2>6. CASE Prone(p) \/ ProneDone(p)
    BY <2>6 DEF Prone, ProneDone, Decide
  <2>7. CASE SetSleep(p) \/ Sleep(p)
    BY <2>7 DEF SetSleep, Sleep
  <2>13. CASE WakeUp(p)
    <3>1. saw_epipe' \in [Roles -> BOOLEAN]
      BY <2>13, Zenon DEF WakeUp
    <3> QED
      BY <2>13, <3>1 DEF WakeUp
  <2>8. CASE ScrubLoad(p) \/ ScrubStore(p) \/ GiveUp(p) \/ Unset(p)
    BY <2>8 DEF ScrubLoad, ScrubStore, GiveUp, Unset
  <2>9. CASE Kick(p) \/ Flush(p)
    BY <2>9 DEF Kick, Flush
  <2>14. CASE FlushSignal(p)
    <3>1. flushed' \in [Roles -> BOOLEAN]
      <4>1. Side(Peer(p)) \in Kernel!Sides
        BY RoleFacts
      <4>2. initial_signal[Side(Peer(p))] \in BOOLEAN
        BY <4>1 DEF KernelTyped
      <4> QED
        BY <2>14, <4>2, Zenon DEF FlushSignal, Heard
    <3> QED
      BY <2>14, <3>1 DEF FlushSignal
  <2>15. CASE Finish(p) \/ Crash(p)
    <3>1. unset_wait' \in [Roles -> BOOLEAN]
      BY <2>15, Zenon DEF Finish, Crash
    <3> QED
      BY <2>15, <3>1 DEF Finish, Crash
  <2>10. CASE Free(p) \/ Die(p) \/ CloseFd(p)
    BY <2>10 DEF Free, Die, CloseFd
  <2>11. CASE InKernel(p) \/ Interrupt(p)
    BY <2>11 DEF InKernel, Interrupt
  <2> QED
    BY <1>3, <2>1, <2>2, <2>3, <2>4, <2>5, <2>6, <2>7, <2>8, <2>9, <2>10, <2>11,
       <2>12, <2>13, <2>14, <2>15 DEF Process, InCall
<1> QED
  BY <1>1, <1>2, <1>3 DEF Next

(* A wait is refused at once on a broken pipe, and begins otherwise. *)
LEMMA AwaitEnters ==
  ASSUME KernelTyped, NEW p \in Roles, NEW r \in {WaitSignal, ProneAwait},
         CallOK(p), pc[p] # "connect", Kernel!AwaitEnter(p, r)
  PROVE  /\ request'[p] = r
         /\ await'[p] = IF Kernel!BrokenPipe THEN "EPIPE" ELSE "check"
         /\ UNCHANGED <<state, release, pending, initial_signal, latent_user_signal>>
<1>1. "MUTEX" \notin r.flags
  BY DEF WaitSignal, ProneAwait
<1>2. state[Side(p)] # "OPENED"
  BY DEF CallOK
<1> QED
  BY <1>1, <1>2 DEF Kernel!AwaitEnter, Kernel!Goto, Kernel!life, Kernel!ec, KernelTyped

(* A process's own step keeps where it stands in the kernel. *)
LEMMA CallSelf ==
  ASSUME TypeOK, KernelTyped, NEW p \in Roles, CallOK(p), PlaceOK(p),
         Process(p) \/ Interrupt(p)
  PROVE  CallOK(p)'
<1>0. Side(p) \in Kernel!Sides
  BY RoleFacts
<1> USE <1>0 DEF CallOK, TypeOK, KernelTyped, Goto, Return, kernel
<1>1. CASE \/ EnterAvail(p) \/ PlaceCheck(p) \/ Copy(p) \/ TakeNews(p)
           \/ Publish(p) \/ LeaveAvail(p)
  BY <1>1 DEF EnterAvail, PlaceCheck, Copy, TakeNews, Publish, LeaveAvail, KickOr
<1>2. CASE Connect(p)
  BY <1>2 DEF Connect, Kernel!ReceiverMap, Kernel!ReceiverBind, Kernel!ReceiverState,
              Kernel!ReceiverPublish, Kernel!ReceiverSignal,
              Kernel!calls, Kernel!life
<1>3. CASE Opened(p) \/ SkipWait(p)
  BY <1>3 DEF Opened, SkipWait
<1>4. CASE PipeWait(p) \/ Prone(p) \/ Sleep(p)
  <2>1. CASE PipeWait(p) \/ Prone(p)
    <3>1. /\ request'[p] = ProneAwait /\ await'[p] \in {"EPIPE", "check"}
          /\ UNCHANGED <<state, release>>
      BY <2>1, AwaitEnters DEF PipeWait, Prone
    <3> QED
      BY <2>1, <3>1 DEF PipeWait, Prone
  <2>2. CASE Sleep(p)
    <3>1. /\ request'[p] = WaitSignal /\ await'[p] \in {"EPIPE", "check"}
          /\ UNCHANGED <<state, release>>
      BY <2>2, AwaitEnters DEF Sleep
    <3> QED
      BY <2>2, <3>1 DEF Sleep
  <2> QED
    BY <1>4, <2>1, <2>2
<1>5. CASE PipeWaitDone(p) \/ ProneDone(p) \/ WakeUp(p)
  BY <1>5 DEF PipeWaitDone, ProneDone, WakeUp, Decide, Kernel!AwaitReturn, Kernel!Goto,
              Kernel!life
<1>6. CASE Call(p) \/ Precheck(p) \/ Test(p) \/ Load(p) \/ SetWait(p)
  BY <1>6 DEF Call, Precheck, Test, Load, SetWait
<1>7. CASE Recheck(p)
  BY <1>7 DEF Recheck, Decide
<1>8. CASE SetSleep(p) \/ ScrubLoad(p) \/ ScrubStore(p) \/ GiveUp(p) \/ Unset(p)
  BY <1>8 DEF SetSleep, ScrubLoad, ScrubStore, GiveUp, Unset
<1>9. CASE Kick(p) \/ FlushSignal(p)
  BY <1>9 DEF Kick, FlushSignal, SendSignal, Kernel!Ssig, Kernel!life, Kernel!calls
<1>10. CASE Finish(p) \/ Flush(p) \/ Free(p) \/ Crash(p)
  BY <1>10 DEF Finish, Flush, Free, Crash
<1>11. CASE Die(p)
  BY <1>11 DEF Die, Kernel!AwaitReturn, Kernel!AwaitInterrupt, Kernel!Goto, Kernel!life
<1>12. CASE CloseFd(p)
  BY <1>12 DEF CloseFd, Kernel!ReleaseMark, Kernel!calls
<1>13. CASE InKernel(p)
  <2>1. CASE Kernel!AwaitCheck(p)
    BY <1>13, <2>1 DEF InKernel, Kernel!AwaitCheck, Kernel!Goto, Kernel!life
  <2>2. CASE Kernel!AwaitTimeout(p)
    BY <1>13, <2>2 DEF InKernel, Kernel!AwaitTimeout, Kernel!Goto, Kernel!life, WaitSignal
  <2>3. CASE Kernel!AwaitFinish(p)
    <3>1. /\ await'[p] \in {"EPIPE", "OK", "TIMEOUT"}
          /\ await'[p] = "TIMEOUT" => await[p] = "timeout"
          /\ UNCHANGED <<state, release, request>>
      BY <2>3 DEF Kernel!AwaitFinish, Kernel!Goto, Kernel!life
    <3>2. pc' = pc /\ await[p] \in {"wake", "timeout"}
      BY <1>13, <2>3 DEF InKernel, Kernel!AwaitFinish
    <3> QED
      BY <3>1, <3>2
  <2> QED
    BY <1>13, <2>1, <2>2, <2>3 DEF InKernel
<1>14. CASE Interrupt(p)
  BY <1>14 DEF Interrupt, Kernel!AwaitInterrupt, Kernel!Goto, Kernel!life
<1> QED
  BY <1>1, <1>2, <1>3, <1>4, <1>5, <1>6, <1>7, <1>8, <1>9, <1>10, <1>11, <1>12, <1>13,
     <1>14 DEF Process, InCall

(* A process's own step keeps where it stands in its call. *)
LEMMA PlaceSelf ==
  ASSUME TypeOK, RingTyped, KernelTyped, NEW p \in Roles, CallOK(p), PlaceOK(p),
         Process(p) \/ Interrupt(p)
  PROVE  PlaceOK(p)'
<1>0. LoopLimit \in Nat \ {0}
  BY PipeAssumption
<1> USE <1>0 DEF PlaceOK, TypeOK, RingTyped, Goto, Return, ring, wait, counts, Forget,
                 InsideCall, Looping
<1>1. CASE EnterAvail(p)
  BY <1>1 DEF EnterAvail, Ring!Enter
<1>2. CASE PlaceCheck(p) \/ Copy(p) \/ TakeNews(p) \/ Publish(p)
  BY <1>2 DEF PlaceCheck, Copy, TakeNews, Publish, KickOr
<1>3. CASE LeaveAvail(p)
  BY <1>3 DEF LeaveAvail, Ring!Leave, KickOr
<1>4. CASE Connect(p) \/ Opened(p) \/ PipeWait(p) \/ SkipWait(p) \/ PipeWaitDone(p)
  BY <1>4 DEF Connect, Opened, PipeWait, SkipWait, PipeWaitDone
<1>5. CASE Call(p) \/ Precheck(p) \/ Test(p) \/ Load(p) \/ SetWait(p)
  BY <1>5 DEF Call, Precheck, Test, Load, SetWait
<1>6. CASE Recheck(p)
  BY <1>6 DEF Recheck, Decide
<1>7. CASE ProneDone(p)
  <2>1. pc[p] = "proning" /\ at' = at /\ ret[p] = "none"
    BY <1>7 DEF ProneDone
  <2>2. CASE await[p] = "EPIPE"
    BY <1>7, <2>1, <2>2 DEF ProneDone
  <2>3. CASE await[p] # "EPIPE"
    <3>1. loop_count'[p] = LoopLimit
      BY <1>7, <2>3 DEF ProneDone
    <3>2. Decide(p)
      BY <1>7, <2>3 DEF ProneDone
    <3> QED
      BY <2>1, <3>1, <3>2 DEF Decide
  <2> QED
    BY <2>2, <2>3
<1>8. CASE Prone(p) \/ SetSleep(p) \/ Sleep(p)
  BY <1>8 DEF Prone, SetSleep, Sleep
<1>9. CASE WakeUp(p)
  <2>1. await[p] \in {"OK", "EPIPE", "ERESTARTSYS"}
    BY <1>9 DEF WakeUp, CallOK, Kernel!AwaitReturn, Kernel!Results
  <2>2. await[p] = "ERESTARTSYS" => p \in Interruptible
    BY <1>9 DEF WakeUp, CallOK
  <2> QED
    BY <1>9, <2>1, <2>2 DEF WakeUp
<1>10. CASE ScrubLoad(p) \/ ScrubStore(p) \/ GiveUp(p) \/ Unset(p)
  BY <1>10 DEF ScrubLoad, ScrubStore, GiveUp, Unset
<1>11. CASE Kick(p) \/ Finish(p) \/ Flush(p) \/ FlushSignal(p)
  BY <1>11 DEF Kick, Finish, Flush, FlushSignal
<1>12. CASE Free(p) \/ Crash(p) \/ Die(p) \/ CloseFd(p)
  BY <1>12 DEF Free, Crash, Die, CloseFd
<1>13. CASE InKernel(p) \/ Interrupt(p)
  BY <1>13 DEF InKernel, Interrupt
<1> QED
  BY <1>1, <1>2, <1>3, <1>4, <1>5, <1>6, <1>7, <1>8, <1>9, <1>10, <1>11, <1>12, <1>13
     DEF Process, InCall

(* Where the processes are, is as CallOK and PlaceOK say. *)
LEMMA ControlStep ==
  ASSUME TypeOK, RingTyped, KernelTyped, \A p \in Roles : CallOK(p) /\ PlaceOK(p),
         [Next]_vars
  PROVE  \A p \in Roles : CallOK(p)' /\ PlaceOK(p)'
<1>1. CASE UNCHANGED vars
  BY <1>1 DEF vars, ring, kernel, wait, counts, CallOK, PlaceOK
<1>2. ASSUME NEW s \in Kernel!Sides, KernelStep(s), NEW p \in Roles
      PROVE  CallOK(p)' /\ PlaceOK(p)'
  <2>1. /\ UNCHANGED <<at, pc, loop_count, ret, request, state>>
        /\ await'[p] = await[p] \/ (await[p] = "asleep" /\ await'[p] = "check")
        /\ release'[Side(p)] = "open" <=> release[Side(p)] = "open"
    BY <1>2, KernelAlone, RoleFacts DEF ring, wait, counts
  <2>2. CallOK(p) /\ PlaceOK(p)
    OBVIOUS
  <2> QED
    BY <2>1, <2>2 DEF CallOK, PlaceOK
<1>3. ASSUME NEW p \in Roles, Process(p) \/ Interrupt(p), NEW q \in Roles
      PROVE  CallOK(q)' /\ PlaceOK(q)'
  <2>1. CASE q = p
    BY <1>3, <2>1, CallSelf, PlaceSelf
  <2>2. CASE q = Peer(p)
    <3>1. SameProcess(q) /\ SameLoop(q) /\ SameCall(q)
      BY <1>3, <2>2, PeerProcess, PeerLoop, PeerCall DEF CallOK
    <3>2. CallOK(q) /\ PlaceOK(q)
      OBVIOUS
    <3> QED
      BY <3>1, <3>2 DEF CallOK, PlaceOK, SameProcess, SameLoop, SameCall
  <2> QED
    BY <2>1, <2>2, RoleFacts
<1> QED
  BY <1>1, <1>2, <1>3 DEF Next

-----------------------------------------------------------------------------
(***************************************************************************)
(* A process that has set CLOSED, or that the other has seen it set, makes *)
(* no further call.                                                        *)
(***************************************************************************)
ClosedOK(p) ==
  "CLOSED" \in flags[p] \cup peer[Peer(p)] => pc[p] \in {"closing", "gone"} /\ at[p] = "out"

(* Which flags a step of p sets, stores and loads; a closed process only closes. *)
LEMMA FlagMoves ==
  ASSUME TypeOK, RingTyped, NEW p \in Roles, Process(p) \/ Interrupt(p)
  PROVE  /\ "CLOSED" \in flags'[p] => "CLOSED" \in flags[p] \/ Free(p)
         /\ \/ flags'[Peer(p)] = flags[Peer(p)]
            \/ ScrubStore(p) /\ flags'[Peer(p)] = peer[p] \ {"WAITING"}
         /\ peer'[p] \in {peer[p], flags[Peer(p)], {}}
         /\ pc[p] \in {"closing", "gone"} =>
              pc'[p] \in {"closing", "gone"} /\ at'[p] = at[p]
<1> DEFINE q == Peer(p)
<1>0. q \in Roles /\ q # p
  BY RoleFacts
<1> HIDE DEF q
<1> SUFFICES /\ "CLOSED" \in flags'[p] => "CLOSED" \in flags[p] \/ Free(p)
             /\ flags'[q] = flags[q] \/ (ScrubStore(p) /\ flags'[q] = peer[p] \ {"WAITING"})
             /\ peer'[p] \in {peer[p], flags[q], {}}
             /\ pc[p] \in {"closing", "gone"} =>
                  pc'[p] \in {"closing", "gone"} /\ at'[p] = at[p]
  BY DEF q
<1> USE <1>0 DEF TypeOK, RingTyped, ring, wait, counts, Goto, Return, Forget, SetFlag, ClearFlag
<1>1. CASE \/ EnterAvail(p) \/ PlaceCheck(p) \/ Copy(p) \/ TakeNews(p)
           \/ Publish(p) \/ LeaveAvail(p)
  BY <1>1 DEF EnterAvail, PlaceCheck, Copy, TakeNews, Publish, LeaveAvail, KickOr
<1>2. CASE Connect(p) \/ PipeWait(p) \/ SkipWait(p) \/ PipeWaitDone(p)
  BY <1>2 DEF Connect, PipeWait, SkipWait, PipeWaitDone
<1>12. CASE Opened(p)
  BY <1>12 DEF Opened
<1>3. CASE Precheck(p) \/ Test(p)
  BY <1>3 DEF Precheck, Test
<1>13. CASE Call(p)
  BY <1>13 DEF Call
<1>14. CASE SetWait(p)
  BY <1>14 DEF SetWait
<1>4. CASE Load(p) \/ ScrubLoad(p)
  BY <1>4 DEF Load, ScrubLoad, q
<1>5. CASE Recheck(p)
  BY <1>5 DEF Recheck
<1>6. CASE Prone(p) \/ ProneDone(p) \/ SetSleep(p) \/ Sleep(p) \/ WakeUp(p)
  BY <1>6 DEF Prone, ProneDone, SetSleep, Sleep, WakeUp
<1>7. CASE ScrubStore(p)
  BY <1>7 DEF ScrubStore, q
<1>8. CASE GiveUp(p) \/ Unset(p)
  BY <1>8 DEF GiveUp, Unset
<1>15. CASE Finish(p)
  BY <1>15 DEF Finish
<1>9. CASE Kick(p) \/ Flush(p) \/ FlushSignal(p)
  BY <1>9 DEF Kick, Flush, FlushSignal
<1>10. CASE Free(p) \/ Crash(p) \/ Die(p) \/ CloseFd(p)
  BY <1>10 DEF Free, Crash, Die, CloseFd
<1>11. CASE InKernel(p) \/ Interrupt(p)
  BY <1>11 DEF InKernel, Interrupt
<1> QED
  BY <1>1, <1>2, <1>3, <1>4, <1>5, <1>6, <1>7, <1>8, <1>9, <1>10, <1>11,
     <1>12, <1>13, <1>14, <1>15
     DEF Process, InCall

(* Every step keeps the meaning of CLOSED. *)
LEMMA ClosedStep ==
  ASSUME TypeOK, RingTyped, KernelTyped, [Next]_vars,
         \A p \in Roles : CallOK(p) /\ PlaceOK(p) /\ ClosedOK(p)
  PROVE  \A p \in Roles : ClosedOK(p)'
<1>1. CASE UNCHANGED vars
  BY <1>1 DEF vars, ring, wait, ClosedOK
<1>2. ASSUME NEW s \in Kernel!Sides, KernelStep(s) PROVE \A p \in Roles : ClosedOK(p)'
  BY <1>2 DEF KernelStep, ring, wait, ClosedOK
<1>3. ASSUME NEW r \in Roles, Process(r) \/ Interrupt(r)
      PROVE  ClosedOK(r)' /\ ClosedOK(Peer(r))'
  <2> DEFINE q == Peer(r)
  <2>0. q \in Roles /\ Peer(q) = r
    BY RoleFacts
  <2>1. SameProcess(q) /\ SameLoop(q)
    BY <1>3, PeerProcess, PeerLoop
  <2>2. /\ "CLOSED" \in flags'[r] => "CLOSED" \in flags[r] \/ Free(r)
        /\ flags'[q] = flags[q] \/ flags'[q] = peer[r] \ {"WAITING"}
        /\ peer'[r] \in {peer[r], flags[q], {}}
        /\ pc[r] \in {"closing", "gone"} =>
             pc'[r] \in {"closing", "gone"} /\ at'[r] = at[r]
    BY <1>3, FlagMoves
  <2>3. Free(r) => pc'[r] = "closing" /\ at'[r] = "out"
    BY DEF Free, Goto, TypeOK, PlaceOK, ring
  <2>4. /\ "CLOSED" \in flags[r] \cup peer[q] => pc[r] \in {"closing", "gone"} /\ at[r] = "out"
        /\ "CLOSED" \in flags[q] \cup peer[r] => pc[q] \in {"closing", "gone"} /\ at[q] = "out"
    BY <2>0 DEF ClosedOK
  <2> HIDE DEF q
  <2>5. ("CLOSED" \in flags[r] \cup peer[q] => pc[r] \in {"closing", "gone"} /\ at[r] = "out")'
    BY <2>1, <2>2, <2>3, <2>4 DEF SameProcess
  <2>6. ("CLOSED" \in flags[q] \cup peer[r] => pc[q] \in {"closing", "gone"} /\ at[q] = "out")'
    BY <2>1, <2>2, <2>4 DEF SameProcess, SameLoop
  <2> QED
    BY <2>0, <2>5, <2>6 DEF ClosedOK, q
<1> QED
  BY <1>1, <1>2, <1>3, RoleFacts DEF Next

-----------------------------------------------------------------------------
(***************************************************************************)
(* Both ends see the room there is: a role outside its loop is blocked     *)
(* exactly when the ring has no room for it, ...                           *)
(***************************************************************************)
BlockedMeansNoRoom ==
  RP!RingInv => \A p \in Roles : at[p] = "out" => (Blocked(p) <=> RP!Room(p) = 0)

(* Blocked is an empty or a full ring, now and after a step. *)
LEMMA BlockedIsNoRoom == BlockedMeansNoRoom
<1> SUFFICES ASSUME RP!RingInv, NEW p \in Roles, at[p] = "out"
             PROVE  Blocked(p) <=> RP!Room(p) = 0
  BY DEF BlockedMeansNoRoom
<1>1. p \in RP!Roles
  BY DEF Roles, Ring!Roles, RP!Roles
<1>2. RP!Limit(p) \in RP!Slots /\ RP!Dist(RP!Place(p), RP!Limit(p)) = RP!Room(p)
  BY <1>1, RingAssumed, RP!FreshLimit DEF RP!RingInv
<1>3. RP!Place(p) = pos[p] /\ pos[p] \in RP!Slots
  BY <1>1, RingAssumed DEF RP!RingInv, RP!CopyOK, RP!LoopOK, RP!Place, RP!Wrap, RP!TypeOK,
                           RP!Slots
<1>4. Blocked(p) <=> pos[p] = RP!Limit(p)
  BY <1>1 DEF Blocked, RP!Limit, RP!Reduced, Ring!Reduced, RP!Roles
<1> QED
  BY <1>2, <1>3, <1>4, RingAssumed DEF RP!Dist, RP!Slots

LEMMA BlockedNext == BlockedMeansNoRoom'
BY BlockedIsNoRoom, PTL

(* Only the end of a copy moves a position. *)
LEMMA PositionsMove ==
  ASSUME NEW p \in Roles, Process(p) \/ Interrupt(p)
  PROVE  pos' = pos \/ Publish(p)
<1>1. CASE EnterAvail(p) \/ PlaceCheck(p) \/ Copy(p)
  BY <1>1 DEF EnterAvail, Ring!Enter, PlaceCheck, Ring!PlaceCheck, Copy,
              Ring!CopyByte, Ring!Refresh
<1>2. CASE TakeNews(p) \/ LeaveAvail(p)
  BY <1>2 DEF TakeNews, Ring!CopyDone, LeaveAvail, Ring!Leave
<1>3. UNCHANGED ring => pos' = pos
  BY DEF ring
<1> QED
  BY <1>1, <1>2, <1>3, RestLeavesRing

(* ... the other's moves only make room for it, ... *)
LEMMA NeverBlockedByPeer ==
  ASSUME RP!RingInv, RP!RingInv', NEW p \in Roles, Process(p) \/ Interrupt(p),
         at[Peer(p)] = "out", Blocked(Peer(p))'
  PROVE  Blocked(Peer(p))
<1> DEFINE q == Peer(p)
<1>0. q \in Roles /\ q # p /\ p \in RP!Roles /\ q \in RP!Roles
  BY RoleFacts DEF Roles, Ring!Roles, RP!Roles
<1>1. CASE pos' = pos
  BY <1>1 DEF Blocked
<1>2. CASE Publish(p)
  <2>1. /\ at[p] = "publish" /\ pos' = [pos EXCEPT ![p] = own[p]] /\ own' = own
        /\ UNCHANGED RP!stream
    BY <1>2 DEF Publish, Ring!Publish, Ring!stream, RP!stream
  <2>2. RP!Room(q)' \in Nat /\ RP!Room(q) <= RP!Room(q)'
    BY <1>0, <2>1, RingAssumed, RP!PublishGeometry
  <2>3. RP!Room(q) \in Nat
    BY <1>0, RingAssumed, RP!RoomTyped DEF RP!RingInv
  <2>4. at'[q] = "out"
    BY <1>0, RingFacts, PeerLoop DEF SameLoop
  <2>5. Blocked(q)' <=> RP!Room(q)' = 0
    BY <1>0, <2>4, BlockedNext DEF BlockedMeansNoRoom
  <2>6. Blocked(q) <=> RP!Room(q) = 0
    BY <1>0, BlockedIsNoRoom DEF BlockedMeansNoRoom
  <2> QED
    BY <2>2, <2>3, <2>5, <2>6
<1> QED
  BY <1>1, <1>2, PositionsMove


(***************************************************************************)
(* A call that gets past its wait has something to do, and does it: every  *)
(* round of the loop copies, so that every publication moves a position.   *)
(***************************************************************************)
MovesOK(p) ==
  /\ pc[p] \in {"unset", "enter"} => ~Blocked(p)
  /\ at[p] = "gran" => own[p] # lim[p] /\ usr[p] > 0
  /\ at[p] = "copy" => cur[p] < top[p] \/ (0 < cur[p] /\ RP!Place(p) # pos[p])
  /\ at[p] \in {"refresh", "publish"} =>
       0 < cur[p] /\ cur[p] < gran[p] /\ RP!Place(p) # pos[p]
  /\ at[p] = "tail" => cur[p] > 0
  /\ ret[p] = "OK" => cur[p] > 0

(* A byte copied is one that is not published yet. *)
LEMMA CopyMoves ==
  ASSUME RP!RingInv, NEW p \in Roles, at[p] = "copy", cur[p] < top[p]
  PROVE  RP!Wrap(own[p] + 1) # pos[p]
<1>1. p \in RP!Roles
  BY DEF Roles, Ring!Roles, RP!Roles
<1>2. /\ own[p] \in RP!Slots /\ RP!Place(p) = own[p] /\ RP!Room(p) >= 1
      /\ RP!Wrap(own[p] + 1) \in RP!Slots
  BY <1>1, RingAssumed, RP!CopyHasRoom
<1>3. /\ pos[p] \in RP!Slots /\ RP!Unfreed \in RP!Slots /\ RP!Readable \in RP!Slots
      /\ RP!Unpublished \in RP!Slots /\ RP!Used <= BufferSize - 1
  BY <1>1, RingAssumed, RP!PlacesTyped DEF RP!RingInv, RP!Ordered
<1>4. RP!Dist(pos[p], own[p]) < BufferSize - 1
  <2>1. CASE p = "reader"
    BY <1>2, <1>3, <2>1, RingAssumed DEF RP!Room, RP!Used, RP!Unfreed, RP!Rd, RP!Slots
  <2>2. CASE p = "writer"
    BY <1>2, <1>3, <2>2, RingAssumed DEF RP!Room, RP!Used, RP!Unpublished, RP!Wr, RP!Slots
  <2> QED
    BY <1>1, <2>1, <2>2 DEF RP!Roles
<1>5. RP!Dist(pos[p], RP!Wrap(own[p] + 1)) = RP!Dist(pos[p], own[p]) + 1
  BY <1>2, <1>3, <1>4, RingAssumed, RP!DistSecond
<1>6. RP!Dist(pos[p], own[p]) \in RP!Slots /\ RP!Dist(pos[p], pos[p]) = 0
  BY <1>2, <1>3, RingAssumed, RP!DistRange, RP!DistSelf
<1> QED
  BY <1>5, <1>6, RingAssumed DEF RP!Slots

(* The head of the loop leaves, or finds bytes to copy. *)
LEMMA HeadMoves ==
  ASSUME RingTyped, NEW p \in Roles, NEW g \in Nat, cur[p] < g, cur[p] <= usr[p],
         own[p] \in 0 .. BufferSize - 1,
         Ring!LoopHead(p, own[p], lim[p], cur[p], usr[p], g)
  PROVE  \/ at'[p] = "tail" /\ (own[p] = lim[p] \/ cur[p] = usr[p])
         \/ at'[p] = "copy" /\ cur[p] < top'[p]
<1> DEFINE o == own[p]  l == lim[p]  c == cur[p]  u == usr[p]
           circ == c + (IF o <= l THEN l - o ELSE BufferSize - o)
           end == Ring!MinOf(circ, u)
           stop == IF end > g THEN g ELSE end
<1>1. /\ l \in 0 .. BufferSize - 1 /\ c \in Nat /\ u \in Nat /\ BufferSize \in Nat /\ Slack \in Nat
      /\ o \in 0 .. BufferSize - 1 /\ c <= u /\ c < g
  BY RingAssumed DEF RingTyped
<1>2. CASE o = l \/ c = u
  BY <1>2 DEF Ring!LoopHead, RingTyped
<1>3. CASE ~(o = l \/ c = u)
  <2>1. circ \in Nat /\ c < circ
    BY <1>1, <1>3
  <2>2. stop \in Nat /\ c < stop
    <3> HIDE DEF circ
    <3> QED
      BY <1>1, <1>3, <2>1 DEF Ring!MinOf
  <2> HIDE DEF stop, circ
  <2>3. PICK early \in 0 .. (IF end > g /\ stop - c > Slack THEN Slack ELSE 0) :
          top' = [top EXCEPT ![p] = stop - early]
    BY <1>3 DEF Ring!LoopHead, stop, circ
  <2>4. top'[p] = stop - early /\ at'[p] = "copy"
    BY <1>3, <2>3 DEF Ring!LoopHead, RingTyped
  <2> QED
    BY <1>1, <2>2, <2>3, <2>4
<1> QED
  BY <1>2, <1>3


(***************************************************************************)
(* What it takes to leave a wait for the loop, to return success or the    *)
(* end of the file, and to have flushed; nobody connects twice.            *)
(***************************************************************************)
LEMMA Causes ==
  ASSUME TypeOK, NEW p \in Roles, Process(p) \/ Interrupt(p)
  PROVE  /\ pc'[p] \in {"unset", "enter"} => pc[p] \in {"unset", "enter"} \/ ~Blocked(p)
         /\ ret'[p] = "OK" => ret[p] = "OK" \/ at[p] = "tail"
         /\ ret'[p] = "EOF" =>
              ret[p] = "EOF" \/ (pc[p] = "recheck" /\ Blocked(p) /\ "CLOSED" \in peer[p])
         /\ flushed'[p] => flushed[p] \/ (FlushSignal(p) /\ initial_signal[Side(Peer(p))])
         /\ pc'[p] = "connect" => pc[p] = "connect"
<1> USE DEF TypeOK, Goto, Return
<1>1. CASE \/ EnterAvail(p) \/ PlaceCheck(p) \/ Copy(p) \/ TakeNews(p)
           \/ Publish(p) \/ LeaveAvail(p)
  BY <1>1 DEF EnterAvail, PlaceCheck, Copy, TakeNews, Publish, LeaveAvail, KickOr, Ring!Leave
<1>2. CASE Connect(p) \/ Opened(p) \/ PipeWait(p) \/ SkipWait(p) \/ PipeWaitDone(p)
  BY <1>2 DEF Connect, Opened, PipeWait, SkipWait, PipeWaitDone
<1>3. CASE Call(p) \/ Precheck(p) \/ Test(p) \/ Load(p) \/ SetWait(p)
  BY <1>3 DEF Call, Precheck, Test, Load, SetWait
<1>4. CASE Recheck(p)
  BY <1>4 DEF Recheck, Decide
<1>5. CASE Prone(p) \/ ProneDone(p)
  BY <1>5 DEF Prone, ProneDone, Decide
<1>6. CASE SetSleep(p) \/ Sleep(p) \/ WakeUp(p)
  BY <1>6 DEF SetSleep, Sleep, WakeUp
<1>7. CASE ScrubLoad(p) \/ ScrubStore(p) \/ GiveUp(p) \/ Unset(p)
  BY <1>7 DEF ScrubLoad, ScrubStore, GiveUp, Unset
<1>8. CASE Kick(p) \/ Finish(p) \/ Flush(p) \/ FlushSignal(p)
  BY <1>8 DEF Kick, Finish, Flush, FlushSignal, Heard
<1>9. CASE Free(p) \/ Crash(p) \/ Die(p) \/ CloseFd(p)
  BY <1>9 DEF Free, Crash, Die, CloseFd
<1>10. CASE InKernel(p) \/ Interrupt(p)
  BY <1>10 DEF InKernel, Interrupt
<1> QED
  BY <1>1, <1>2, <1>3, <1>4, <1>5, <1>6, <1>7, <1>8, <1>9, <1>10
     DEF Process, InCall

(* A process's own step keeps the causes of a successful return. *)
LEMMA MovesSelf ==
  ASSUME TypeOK, RP!RingInv, NEW p \in Roles, PlaceOK(p), MovesOK(p),
         Process(p) \/ Interrupt(p)
  PROVE  MovesOK(p)'
<1>0. RingTyped /\ RP!LoopOK(p)
  BY RingFacts DEF RP!RingInv, RP!CopyOK, Roles, Ring!Roles, RP!Roles
<1>1. CASE EnterAvail(p)
  <2>1. PICK n \in Sizes : Ring!Enter(p, n)
    BY <1>1 DEF EnterAvail
  <2>2. n \in Nat /\ n > 0
    BY PipeAssumption
  <2>3. /\ at'[p] = "gran" /\ own'[p] = pos[p] /\ usr'[p] = n /\ lim'[p] = Ring!Limit(p)
    BY <1>0, <2>1 DEF Ring!Enter, RingTyped
  <2>4. ~Blocked(p) /\ ret[p] = "none" /\ ret' = ret /\ pc'[p] = "avail"
    BY <1>1 DEF EnterAvail, MovesOK, PlaceOK, InsideCall, Goto, TypeOK
  <2>5. pos[p] # Ring!Limit(p)
    BY <2>4 DEF Blocked, Ring!Limit, Roles, Ring!Roles
  <2> QED
    BY <2>2, <2>3, <2>4, <2>5 DEF MovesOK
<1>2. CASE PlaceCheck(p)
  <2>1. PICK g \in {CheckInterval, FastCheckInterval} : Ring!PlaceCheck(p, g)
    BY <1>2 DEF PlaceCheck
  <2>2. at[p] = "gran" /\ cur[p] = 0 /\ own[p] = pos[p] /\ own[p] # lim[p] /\ usr[p] > 0
    BY <1>0, <2>1 DEF Ring!PlaceCheck, RP!LoopOK, MovesOK
  <2>3. /\ g \in Nat /\ cur[p] < g /\ cur[p] <= usr[p] /\ own[p] \in 0 .. BufferSize - 1
    BY <1>0, <2>2, RingAssumed DEF RingTyped
  <2>4. Ring!LoopHead(p, own[p], lim[p], cur[p], usr[p], g) /\ cur' = cur
    BY <2>1 DEF Ring!PlaceCheck
  <2>5. at'[p] = "copy" /\ cur[p] < top'[p]
    BY <1>0, <2>2, <2>3, <2>4, HeadMoves
  <2>6. ret' = ret /\ pc' = pc /\ pc[p] = "avail" /\ ret[p] = "none"
    BY <1>2 DEF PlaceCheck, PlaceOK, InsideCall
  <2> QED
    BY <2>4, <2>5, <2>6 DEF MovesOK
<1>3. CASE Copy(p)
  <2>1. ret' = ret /\ pc' = pc /\ pc[p] = "avail" /\ ret[p] = "none"
    BY <1>3 DEF Copy, PlaceOK, InsideCall
  <2>2. CASE Ring!CopyByte(p)
    <3>1. /\ at[p] = "copy" /\ cur[p] < top[p] /\ at' = at /\ pos' = pos
          /\ own'[p] = own[p] + 1 /\ cur'[p] = cur[p] + 1
      BY <1>0, <2>2 DEF Ring!CopyByte, RingTyped
    <3>2. RP!Place(p)' # pos'[p]
      BY <3>1, CopyMoves DEF RP!Place, RP!Wrap
    <3>3. cur'[p] > 0
      BY <1>0, <3>1 DEF RingTyped
    <3> QED
      BY <2>1, <3>1, <3>2, <3>3 DEF MovesOK
  <2>3. CASE Ring!Refresh(p)
    <3>1. /\ at[p] = "refresh" /\ at'[p] = "publish" /\ pos' = pos /\ cur' = cur /\ gran' = gran
          /\ own'[p] = RP!Place(p)
      BY <1>0, <2>3 DEF Ring!Refresh, RingTyped, RP!Place, RP!Wrap
    <3>2. RP!Place(p)' = RP!Place(p)
      BY <3>1, RingAssumed DEF RP!Place, RP!Wrap
    <3> QED
      BY <2>1, <3>1, <3>2 DEF MovesOK
  <2> QED
    BY <1>3, <2>2, <2>3 DEF Copy
<1>4. CASE TakeNews(p)
  <2>1. /\ at[p] = "copy" /\ cur[p] = top[p] /\ at'[p] = "refresh"
        /\ pos' = pos /\ own' = own /\ cur' = cur
        /\ gran'[p] = IF Ring!CheckDue(p) THEN gran[p] + CheckInterval ELSE gran[p]
    BY <1>0, <1>4 DEF TakeNews, Ring!CopyDone, RingTyped
  <2>2. cur[p] <= gran[p] /\ cur[p] \in Nat /\ gran[p] \in Nat /\ top[p] \in Nat
    BY <1>0, <2>1 DEF RP!LoopOK, RingTyped
  <2>3. cur'[p] < gran'[p]
    BY <2>1, <2>2, RingAssumed DEF Ring!CheckDue
  <2>4. ret' = ret /\ ret[p] = "none" /\ pc'[p] \in {"avail", "kickcopy"}
    BY <1>4 DEF TakeNews, PlaceOK, InsideCall, KickOr, Goto, TypeOK
  <2>5. RP!Place(p)' = RP!Place(p)
    BY <2>1 DEF RP!Place, RP!Wrap
  <2> QED
    BY <2>1, <2>2, <2>3, <2>4, <2>5 DEF MovesOK
<1>5. CASE Publish(p)
  <2>1. /\ at[p] = "publish" /\ cur' = cur
        /\ Ring!LoopHead(p, own[p], lim[p], cur[p], usr[p], gran[p])
    BY <1>5 DEF Publish, Ring!Publish
  <2>2. /\ gran[p] \in Nat /\ cur[p] < gran[p] /\ cur[p] <= usr[p] /\ cur[p] > 0
        /\ own[p] \in 0 .. BufferSize - 1
    BY <1>0, <2>1, RingAssumed DEF RP!LoopOK, RP!InLoop, RingTyped, MovesOK
  <2>3. at'[p] = "tail" \/ (at'[p] = "copy" /\ cur[p] < top'[p])
    BY <1>0, <2>1, <2>2, HeadMoves
  <2>4. ret' = ret /\ pc' = pc /\ pc[p] = "avail" /\ ret[p] = "none"
    BY <1>5 DEF Publish, PlaceOK, InsideCall
  <2> QED
    BY <2>1, <2>2, <2>3, <2>4 DEF MovesOK
<1>6. CASE LeaveAvail(p)
  <2>1. at[p] = "tail" /\ at'[p] = "out" /\ cur' = cur
    BY <1>0, <1>6 DEF LeaveAvail, Ring!Leave, RingTyped
  <2>2. pc'[p] \in {"kickout", "fin"}
    BY <1>6 DEF LeaveAvail, KickOr, Goto, TypeOK
  <2> QED
    BY <2>1, <2>2 DEF MovesOK
<1>7. CASE UNCHANGED ring
  <2>1. /\ at' = at /\ own' = own /\ lim' = lim /\ usr' = usr /\ cur' = cur /\ top' = top
        /\ gran' = gran /\ pos' = pos /\ RP!Place(p)' = RP!Place(p)
        /\ Blocked(p)' <=> Blocked(p)
    BY <1>7 DEF ring, RP!Place, RP!Wrap, Blocked
  <2>2. pc'[p] \in {"unset", "enter"} => pc[p] \in {"unset", "enter"} \/ ~Blocked(p)
    BY Causes
  <2>3. ret'[p] = "OK" => ret[p] = "OK" \/ at[p] = "tail"
    BY Causes
  <2> QED
    BY <2>1, <2>2, <2>3 DEF MovesOK
<1> QED
  BY <1>1, <1>2, <1>3, <1>4, <1>5, <1>6, <1>7, RestLeavesRing

(* So does a step of anybody else. *)
LEMMA MovesStep ==
  ASSUME TypeOK, RP!RingInv, RP!RingInv', KernelTyped, [Next]_vars,
         \A p \in Roles : PlaceOK(p) /\ MovesOK(p)
  PROVE  \A p \in Roles : MovesOK(p)'
<1>1. ASSUME UNCHANGED <<ring, pc, ret>>
      PROVE  \A p \in Roles : MovesOK(p)'
  <2> SUFFICES ASSUME NEW p \in Roles PROVE MovesOK(p)'
    OBVIOUS
  <2>1. /\ RP!Place(p)' = RP!Place(p)
        /\ Blocked(p)' <=> Blocked(p)
        /\ UNCHANGED <<at, own, lim, usr, cur, top, gran, pos, pc, ret>>
    BY <1>1 DEF ring, RP!Place, RP!Wrap, Blocked
  <2> QED
    BY <2>1 DEF MovesOK
<1>2. CASE UNCHANGED vars
  BY <1>1, <1>2 DEF vars
<1>3. ASSUME NEW s \in Kernel!Sides, KernelStep(s)
      PROVE  \A p \in Roles : MovesOK(p)'
  BY <1>1, <1>3 DEF KernelStep
<1>4. ASSUME NEW p \in Roles, Process(p) \/ Interrupt(p)
      PROVE  MovesOK(p)' /\ MovesOK(Peer(p))'
  <2>1. MovesOK(p)'
    BY <1>4, MovesSelf
  <2> DEFINE q == Peer(p)
  <2>2. q \in Roles
    BY RoleFacts
  <2>3. SameProcess(q) /\ SameLoop(q)
    BY <1>4, PeerProcess, PeerLoop, RingFacts
  <2>4. pc[q] \in {"unset", "enter"} => ~Blocked(q)'
    BY <1>4, <2>2, NeverBlockedByPeer DEF MovesOK, PlaceOK
  <2> HIDE DEF q
  <2>5. MovesOK(q)'
    BY <2>2, <2>3, <2>4 DEF MovesOK, SameProcess, SameLoop, RP!Place, RP!Wrap
  <2> QED
    BY <2>1, <2>5 DEF q
<1> QED
  BY <1>2, <1>3, <1>4, RoleFacts DEF Next

-----------------------------------------------------------------------------
(* A reader told EOF has all that a writer out of its calls has sent. *)
EofOK ==
  ret["reader"] = "EOF" =>
    pc["writer"] \in {"closing", "gone"} /\ at["writer"] = "out" /\ Len(rcvd) = sent

(* Nothing is in the ring of two idle loops when the reader is blocked. *)
LEMMA DrainedRing ==
  ASSUME RP!RingInv, at["reader"] = "out", at["writer"] = "out", Blocked("reader")
  PROVE  Len(rcvd) = sent
<1>1. /\ pos["reader"] \in RP!Slots /\ pos["reader"] = pos["writer"]
      /\ RP!Rd = pos["reader"] /\ RP!Wr = pos["writer"]
  BY RingAssumed DEF RP!RingInv, RP!CopyOK, RP!LoopOK, RP!TypeOK, RP!Slots, RP!Roles, RP!Rd, RP!Wr,
         RP!Place, RP!Wrap, Blocked
<1>2. RP!Readable = 0 /\ RP!Unpublished = 0
  BY <1>1, RingAssumed, RP!DistSelf DEF RP!Readable, RP!Unpublished
<1>3. sent - Len(rcvd) = 0 /\ sent \in Nat /\ Len(rcvd) \in Nat
  BY <1>2, RingAssumed DEF RP!RingInv, RP!Counted, RP!TypeOK
<1> QED
  BY <1>3

(* Only the reader's and the writer's own copies move the stream. *)
LEMMA StreamMoves ==
  ASSUME NEW p \in Roles, Process(p) \/ Interrupt(p), pc[p] # "avail"
  PROVE  UNCHANGED <<sent, rcvd>>
BY RestLeavesRing DEF EnterAvail, Ring!Enter, PlaceCheck, Copy, TakeNews, Publish, LeaveAvail,
                      ring, Ring!stream

(* Every step keeps what the end of the file means. *)
LEMMA EofStep ==
  ASSUME TypeOK, RP!RingInv, KernelTyped, [Next]_vars, EofOK,
         \A p \in Roles : PlaceOK(p) /\ ClosedOK(p)
  PROVE  EofOK'
<1> USE RoleFacts
<1>1. CASE UNCHANGED vars
  BY <1>1 DEF vars, ring, EofOK
<1>2. ASSUME NEW s \in Kernel!Sides, KernelStep(s) PROVE EofOK'
  BY <1>2 DEF KernelStep, ring, EofOK
<1>3. ASSUME Process("reader") \/ Interrupt("reader"), ret'["reader"] = "EOF"
      PROVE  EofOK'
  <2>1. pc'["writer"] = pc["writer"] /\ at'["writer"] = at["writer"]
    BY <1>3, PeerProcess, PeerLoop, RingFacts DEF SameProcess, SameLoop
  <2>2. /\ UNCHANGED <<sent, rcvd>>
        /\ pc["writer"] \in {"closing", "gone"} /\ at["writer"] = "out" /\ Len(rcvd) = sent
    <3>1. CASE ret["reader"] = "EOF"
      <4>1. pc["reader"] # "avail"
        BY <3>1 DEF PlaceOK, InsideCall
      <4> QED
        BY <1>3, <3>1, <4>1, StreamMoves DEF EofOK
    <3>2. CASE ret["reader"] # "EOF"
      <4>1. pc["reader"] = "recheck" /\ Blocked("reader") /\ "CLOSED" \in peer["reader"]
        BY <1>3, <3>2, Causes
      <4>2. pc["writer"] \in {"closing", "gone"} /\ at["writer"] = "out"
        BY <4>1 DEF ClosedOK
      <4>3. at["reader"] = "out"
        BY <4>1 DEF PlaceOK
      <4> QED
        BY <1>3, <4>1, <4>2, <4>3, StreamMoves, DrainedRing
    <3> QED
      BY <3>1, <3>2
  <2> QED
    BY <2>1, <2>2 DEF EofOK
<1>4. ASSUME Process("writer") \/ Interrupt("writer"), ret'["reader"] = "EOF"
      PROVE  EofOK'
  <2>1. ret["reader"] = "EOF"
    BY <1>4, PeerProcess DEF SameProcess
  <2>2. pc["writer"] \in {"closing", "gone"} /\ at["writer"] = "out" /\ Len(rcvd) = sent
    BY <2>1 DEF EofOK
  <2>3. pc'["writer"] \in {"closing", "gone"} /\ at'["writer"] = "out"
    BY <1>4, <2>2, FlagMoves, RingFacts
  <2>4. UNCHANGED <<sent, rcvd>>
    BY <1>4, <2>2, StreamMoves
  <2> QED
    BY <2>2, <2>3, <2>4 DEF EofOK
<1> QED
  BY <1>1, <1>2, <1>3, <1>4 DEF Next, EofOK

-----------------------------------------------------------------------------
(***************************************************************************)
(* The inductive invariant of the pipe, beside those of its ring and of    *)
(* the kernel under it.                                                    *)
(***************************************************************************)
PipeInv ==
  /\ TypeOK /\ EofOK
  /\ \A p \in Roles : CallOK(p) /\ PlaceOK(p) /\ ClosedOK(p) /\ MovesOK(p)

(* Where the two processes start. *)
LEMMA InitPlaces ==
  ASSUME Init
  PROVE  /\ pc \in [Roles -> {"idle", "offered", "connect"}]
         /\ \A p \in Roles :
              /\ pc[p] = "connect" => Side(p) = "receiver"
              /\ pc[p] # "connect" => Connected \/ Side(p) = "offerer"
         /\ \A p \in Roles : await[p] = "idle"
         /\ flags \in [Roles -> SUBSET {"OPENED"}]
         /\ peer = [p \in Roles |-> {}]
         /\ saw_epipe = [p \in Roles |-> FALSE] /\ flushed = [p \in Roles |-> FALSE]
<1>0. Connected \in BOOLEAN
  BY PipeAssumption
<1> DEFINE Start(p) == CASE Connected -> "idle"
                         [] ~Connected /\ Side(p) = "offerer" -> "offered"
                         [] ~Connected /\ Side(p) = "receiver" -> "connect"
<1>1. pc = [p \in Roles |-> Start(p)]
  BY Zenon DEF Init
<1>2. \A p \in Roles : Side(p) = "offerer" \/ Side(p) = "receiver"
  BY DEF Side
<1>3. \A p \in Roles :
        /\ Start(p) \in {"idle", "offered", "connect"}
        /\ Start(p) = "connect" => Side(p) = "receiver"
        /\ Start(p) # "connect" => Connected \/ Side(p) = "offerer"
  BY <1>0, <1>2
<1>4. /\ flags = [p \in Roles |-> IF pc[p] = "connect" THEN {} ELSE {"OPENED"}]
      /\ peer = [p \in Roles |-> {}]
      /\ saw_epipe = [p \in Roles |-> FALSE] /\ flushed = [p \in Roles |-> FALSE]
  BY DEF Init
<1>5. \A p \in Roles : await[p] = "idle"
  BY DEF Init, Kernel!Init
<1> HIDE DEF Start
<1> QED
  BY <1>1, <1>3, <1>4, <1>5

LEMMA InitPipe == Init => PipeInv
<1> SUFFICES ASSUME Init PROVE PipeInv
  OBVIOUS
<1>0. LoopLimit \in Nat \ {0} /\ ActiveMax \in Nat
  BY PipeAssumption
<1>1. /\ pc \in [Roles -> {"idle", "offered", "connect"}]
      /\ \A p \in Roles :
           /\ pc[p] = "connect" => Side(p) = "receiver"
           /\ pc[p] # "connect" => Connected \/ Side(p) = "offerer"
      /\ \A p \in Roles : await[p] = "idle"
      /\ flags \in [Roles -> SUBSET {"OPENED"}] /\ peer = [p \in Roles |-> {}]
  BY InitPlaces
<1>2. /\ loop_count = [p \in Roles |-> LoopLimit]
      /\ active_count = [p \in Roles |-> ActiveMax]
      /\ ret = [p \in Roles |-> "none"]
  BY DEF Init
<1>3. /\ unset_wait \in [Roles -> BOOLEAN] /\ saw_epipe \in [Roles -> BOOLEAN]
      /\ flushed \in [Roles -> BOOLEAN]
  BY Zenon DEF Init
<1>4. TypeOK
  BY <1>0, <1>1, <1>2, <1>3 DEF TypeOK, Places, FlagNames
<1>5. \A p \in Roles : at[p] = "out"
  BY DEF Init, Ring!Init, Roles
<1>6. \A p \in Roles : CallOK(p)
  <2> TAKE p \in Roles
  <2>1. Side(p) \in Kernel!Sides
    BY RoleFacts
  <2>2. release[Side(p)] = "open"
    BY <2>1 DEF Init, Kernel!Init
  <2>3. Connected \/ Side(p) = "offerer" => state[Side(p)] # "OPENED"
    BY <2>1 DEF Init, Kernel!Init
  <2> QED
    BY <1>1, <2>2, <2>3 DEF CallOK
<1>7. \A p \in Roles : PlaceOK(p)
  BY <1>0, <1>1, <1>2, <1>5 DEF PlaceOK, InsideCall, Looping
<1>8. \A p \in Roles : ClosedOK(p)
  BY <1>1, RoleFacts DEF ClosedOK
<1>9. \A p \in Roles : MovesOK(p)
  BY <1>1, <1>2, <1>5 DEF MovesOK
<1>10. EofOK
  BY <1>2, RoleFacts DEF EofOK
<1> QED
  BY <1>4, <1>6, <1>7, <1>8, <1>9, <1>10 DEF PipeInv

LEMMA PipeStep ==
  ASSUME PipeInv, RP!RingInv, RP!RingInv', EP!EventInv, [Next]_vars
  PROVE  PipeInv'
<1>1. RingTyped /\ KernelTyped
  BY RingFacts, KernelFacts
<1> QED
  BY <1>1, TypeStep, ControlStep, ClosedStep, MovesStep, EofStep DEF PipeInv

(***************************************************************************)
(* The invariants of the pipe, of the copy loops and of the kernel under   *)
(* it hold together, for every buffer size and every use of flushes,       *)
(* closings, crashes and interrupts (xen_shm_pipe.c:218-945).              *)
(***************************************************************************)
THEOREM Invariance == Spec => [](PipeInv /\ RP!RingInv /\ EP!EventInv)
BY InitPipe, PipeStep, RingInvariance, EventInvariance, PTL DEF Spec

(***************************************************************************)
(* The flag words, the loop counters and the results of the two processes  *)
(* stay in their ranges: no wait counts below zero and no call is anywhere *)
(* but in its loops (xen_shm_pipe.c:305-498, 800-945).                     *)
(***************************************************************************)
THEOREM TypeCorrect == Spec => []TypeOK
<1>1. PipeInv => TypeOK
  BY DEF PipeInv
<1> QED
  BY <1>1, Invariance, PTL

(***************************************************************************)
(* read and write return success only with at least one byte moved, for    *)
(* every buffer size and however waits are cut short: a wait that ends     *)
(* well ends with bytes or room, which the other end cannot take back      *)
(* (xen_shm_pipe.c:351-360, 408-412, 445-498, 800-885; xen_shm_pipe.h:118, *)
(* 131).                                                                   *)
(***************************************************************************)
THEOREM SuccessMoves == Spec => []SuccessMovesBytes
<1>1. PipeInv => SuccessMovesBytes
  BY DEF PipeInv, MovesOK, SuccessMovesBytes
<1> QED
  BY <1>1, Invariance, PTL

(***************************************************************************)
(* read reports the end of the file only when the writer has closed and    *)
(* every byte it was given was read, for every buffer size: CLOSED is      *)
(* loaded before the position is looked at again (xen_shm_pipe.c:353-364;  *)
(* report.tex:175).                                                        *)
(***************************************************************************)
THEOREM EofDrained == Spec => []EofOnlyWhenDrained
<1>1. PipeInv => EofOnlyWhenDrained
  BY DEF PipeInv, EofOK, EofOnlyWhenDrained
<1> QED
  BY <1>1, Invariance, PTL

-----------------------------------------------------------------------------
(* Nobody closes or dies, and no signal interrupts the reader's waits. *)
Undisturbed == Closers = {} /\ Crashers = {} /\ "reader" \notin Interruptible

(* A process that has WAITING set is in its wait loop, and will take it back. *)
WaitOK(p) ==
  /\ "WAITING" \in flags[p] =>
       /\ unset_wait[p]
       /\ pc[p] \in {"test", "load", "setwait", "recheck", "prone", "proning", "sleep", "await",
                     "awaiting", "giveup", "unset", "kick"}
  /\ ~saw_epipe[p] /\ await[p] # "EPIPE"
  /\ pc[p] \notin {"closing", "dying", "gone"}

LEMMA NotBroken ==
  ASSUME KernelTyped, \A p \in Roles : CallOK(p) /\ WaitOK(p)
  PROVE  ~Kernel!BrokenPipe
<1>1. \A p \in Roles : meta[Side(p)] # "CLOSED"
  BY RoleFacts DEF CallOK, WaitOK, KernelTyped
<1>2. \A s \in Kernel!Sides : s = Side("reader") \/ s = Side("writer")
  BY RoleFacts DEF Kernel!Sides
<1> QED
  BY <1>1, <1>2, RoleFacts DEF Kernel!BrokenPipe

LEMMA WaitSelf ==
  ASSUME Undisturbed, PipeInv, KernelTyped, RingTyped, NEW p \in Roles,
         \A q \in Roles : WaitOK(q), Process(p) \/ Interrupt(p)
  PROVE  WaitOK(p)' /\ flags'[Peer(p)] = flags[Peer(p)]
<1>0. /\ TypeOK /\ CallOK(p) /\ PlaceOK(p) /\ WaitOK(p)
      /\ Peer(p) \in Roles /\ Peer(p) # p /\ ~Kernel!BrokenPipe
      /\ "CLOSED" \notin peer[p]
  <2>1. "CLOSED" \notin peer[p]
    BY RoleFacts DEF PipeInv, ClosedOK, WaitOK
  <2> QED
    BY <2>1, NotBroken, RoleFacts DEF PipeInv
<1>20. flags'[Peer(p)] = flags[Peer(p)]
  BY <1>0, FlagMoves DEF ScrubStore, PlaceOK, Undisturbed
<1> SUFFICES WaitOK(p)'
  BY <1>20
<1> USE <1>0 DEF TypeOK, WaitOK, kernel, wait, counts, Goto, Return, Forget, SetFlag, ClearFlag
<1>1. CASE \/ EnterAvail(p) \/ PlaceCheck(p) \/ Copy(p) \/ TakeNews(p)
           \/ Publish(p) \/ LeaveAvail(p)
  BY <1>1 DEF EnterAvail, PlaceCheck, Copy, TakeNews, Publish, LeaveAvail, KickOr
<1>2. CASE Connect(p)
  BY <1>2 DEF Connect, Kernel!ReceiverMap, Kernel!ReceiverBind, Kernel!ReceiverState,
              Kernel!ReceiverPublish, Kernel!ReceiverSignal,
              Kernel!calls
<1>3. CASE Opened(p) \/ SkipWait(p)
  BY <1>3 DEF Opened, SkipWait
<1>4. CASE PipeWait(p) \/ Prone(p)
  <2>1. await'[p] # "EPIPE"
    BY <1>4, AwaitEnters DEF PipeWait, Prone
  <2> QED
    BY <1>4, <2>1 DEF PipeWait, Prone
<1>5. CASE Sleep(p)
  <2>1. await'[p] # "EPIPE"
    BY <1>5, AwaitEnters DEF Sleep
  <2> QED
    BY <1>5, <2>1 DEF Sleep
<1>6. CASE PipeWaitDone(p)
  BY <1>6 DEF PipeWaitDone, Kernel!AwaitReturn, Kernel!Goto, KernelTyped
<1>7. CASE ProneDone(p)
  BY <1>7 DEF ProneDone, Decide, Kernel!AwaitReturn, Kernel!Goto, KernelTyped
<1>8. CASE WakeUp(p)
  <2>1. await[p] = "OK" \/ (await[p] = "ERESTARTSYS" /\ p = "writer")
    BY <1>8, RoleFacts DEF WakeUp, CallOK, Kernel!AwaitReturn, Kernel!Results, Undisturbed
  <2>2. await'[p] = "idle"
    BY <1>8 DEF WakeUp, Kernel!AwaitReturn, Kernel!Goto, KernelTyped
  <2>3. pc'[p] \in {"test", "giveup"} /\ ~saw_epipe'[p]
    BY <1>8, <2>1 DEF WakeUp
  <2>4. "WAITING" \in flags'[p] => "WAITING" \in flags[p]
    BY <1>8 DEF WakeUp
  <2>5. unset_wait' = unset_wait
    BY <1>8 DEF WakeUp
  <2> QED
    BY <2>2, <2>3, <2>4, <2>5
<1>9. CASE Call(p) \/ Precheck(p) \/ Test(p) \/ Load(p)
  BY <1>9 DEF Call, Precheck, Test, Load
<1>10. CASE SetWait(p)
  BY <1>10 DEF SetWait
<1>11. CASE Recheck(p)
  BY <1>11 DEF Recheck, Decide
<1>12. CASE SetSleep(p) \/ ScrubLoad(p) \/ ScrubStore(p)
  BY <1>12 DEF SetSleep, ScrubLoad, ScrubStore, PlaceOK, Undisturbed
<1>13. CASE GiveUp(p) \/ Unset(p)
  BY <1>13 DEF GiveUp, Unset
<1>14. CASE Kick(p) \/ FlushSignal(p)
  BY <1>14 DEF Kick, FlushSignal, SendSignal, Kernel!Ssig, Kernel!calls
<1>15. CASE Finish(p) \/ Flush(p)
  BY <1>15 DEF Finish, Flush
<1>16. CASE Free(p) \/ Crash(p) \/ Die(p) \/ CloseFd(p)
  BY <1>16 DEF Free, Crash, Die, CloseFd, Undisturbed
<1>17. CASE InKernel(p)
  <2>1. await'[p] # "EPIPE"
    BY <1>17 DEF InKernel, Kernel!AwaitCheck, Kernel!AwaitTimeout, Kernel!AwaitFinish,
                 Kernel!Goto, KernelTyped
  <2> QED
    BY <1>17, <2>1 DEF InKernel
<1>18. CASE Interrupt(p)
  BY <1>18 DEF Interrupt, Kernel!AwaitInterrupt, Kernel!Goto, KernelTyped
<1> QED
  BY <1>1, <1>2, <1>3, <1>4, <1>5, <1>6, <1>7, <1>8, <1>9, <1>10, <1>11, <1>12, <1>13,
     <1>14, <1>15, <1>16, <1>17, <1>18 DEF Process, InCall

(* Every step keeps WAITING inside the wait, for both ends. *)
LEMMA WaitStep ==
  ASSUME Undisturbed, PipeInv, RP!RingInv, EP!EventInv, \A p \in Roles : WaitOK(p), [Next]_vars
  PROVE  \A p \in Roles : WaitOK(p)'
<1>0. KernelTyped /\ RingTyped /\ TypeOK /\ \A p \in Roles : CallOK(p)
  BY KernelFacts, RingFacts DEF PipeInv
<1>1. CASE UNCHANGED vars
  BY <1>1 DEF vars, kernel, wait, WaitOK
<1>2. ASSUME NEW s \in Kernel!Sides, KernelStep(s), NEW p \in Roles PROVE WaitOK(p)'
  <2>1. /\ UNCHANGED <<flags, pc, unset_wait, saw_epipe>>
        /\ await'[p] = await[p] \/ await'[p] = "check"
    BY <1>0, <1>2, KernelAlone DEF wait
  <2> QED
    BY <2>1 DEF WaitOK
<1>3. ASSUME NEW p \in Roles, Process(p) \/ Interrupt(p)
      PROVE  WaitOK(p)' /\ WaitOK(Peer(p))'
  <2>1. WaitOK(p)' /\ flags'[Peer(p)] = flags[Peer(p)]
    BY <1>0, <1>3, WaitSelf
  <2>2. SameProcess(Peer(p)) /\ SameCall(Peer(p))
    BY <1>0, <1>3, PeerProcess, PeerCall DEF CallOK
  <2> QED
    BY <2>1, <2>2, RoleFacts DEF WaitOK, SameProcess, SameCall
<1> QED
  BY <1>1, <1>2, <1>3, RoleFacts DEF Next

(***************************************************************************)
(* While both ends live and no signal interrupts the reader, no call       *)
(* returns with its WAITING flag set, for every buffer size                *)
(* (xen_shm_pipe.c:355, 408-410, 445-498; report.tex:167).  A wait that    *)
(* meets a closed or broken pipe returns with the flag set (362-376), and  *)
(* an interrupted reader clears it in the writer's word in place of its    *)
(* own (401), hence the hypotheses.                                        *)
(***************************************************************************)
THEOREM WaitingCleared ==
  ASSUME Closers = {}, Crashers = {}, "reader" \notin Interruptible
  PROVE  Spec => []WaitingOnlyInside
<1> DEFINE W == \A p \in Roles : WaitOK(p)
<1>1. Undisturbed
  BY DEF Undisturbed
<1>2. Init => W
  <2> SUFFICES ASSUME Init, NEW p \in Roles PROVE WaitOK(p)
    OBVIOUS
  <2> QED
    BY InitPlaces DEF WaitOK
<1>3. W /\ PipeInv /\ RP!RingInv /\ EP!EventInv /\ [Next]_vars => W'
  BY <1>1, WaitStep
<1>4. W => WaitingOnlyInside
  BY DEF WaitOK, WaitingOnlyInside
<1> QED
  BY <1>2, <1>3, <1>4, Invariance, PTL DEF Spec
=============================================================================
