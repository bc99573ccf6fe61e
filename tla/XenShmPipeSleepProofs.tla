------------------------ MODULE XenShmPipeSleepProofs ------------------------
(***************************************************************************)
(* Who sleeps in XenShmPipe, for every size of the buffer: never both      *)
(* ends, and none that a flush should wake.  With these two the pipe       *)
(* implements XenShmStream.  The argument is about the order of the stores *)
(* and loads of the two ends: each sets WAITING before it looks at the     *)
(* positions a second time, and sleeps only after it saw neither WAITING   *)
(* nor SLEEPING in the other's word.                                       *)
(***************************************************************************)
EXTENDS XenShmPipeProofs

(***************************************************************************)
(* Who is past the second look at the positions, on its way to sleep, or   *)
(* just back from it with an error, and who is before it, when neither saw *)
(* the other wait.                                                         *)
(***************************************************************************)
PastRecheck == {"prone", "proning", "sleep", "await", "awaiting"}
Scrubbing == {"scrub", "scrubbed"}
Unaware(p) == peer[p] \cap {"SLEEPING", "WAITING"} = {}
Committed(p) == (pc[p] \in PastRecheck /\ Unaware(p)) \/ pc[p] \in Scrubbing
Looking(p) == pc[p] \in {"setwait", "recheck"} /\ Unaware(p)

(***************************************************************************)
(* WAITING is set before the second look, and who goes to sleep saw no     *)
(* flag.  The writer whose WAITING an interrupted reader took away finds   *)
(* room when it looks.                                                     *)
(***************************************************************************)
FlagOK(p) ==
  /\ Committed(p) => "WAITING" \in flags[p]
  /\ pc[p] = "recheck" /\ Unaware(p) => "WAITING" \in flags[p] \/ ~Blocked(p)
  /\ pc[p] \in {"sleep", "await", "awaiting"} => Unaware(p)

(* Before the second look of one the other has nothing to do; never both are past it. *)
PairOK(p) ==
  /\ Committed(p) /\ Looking(Peer(p)) => Blocked(p)
  /\ ~(Committed(p) /\ Committed(Peer(p)))

SleepInv == \A p \in Roles : FlagOK(p) /\ PairOK(p)

LEMMA SleepSelf ==
  ASSUME TypeOK, NEW p \in Roles, CallOK(p), PlaceOK(p), FlagOK(p),
         Process(p) \/ Interrupt(p)
  PROVE  /\ FlagOK(p)'
         /\ Committed(p)' => Committed(p) \/ (Looking(p) /\ Blocked(p))
         /\ Looking(p)' => Looking(p) \/ peer'[p] = flags[Peer(p)]
         /\ Committed(p)' \/ Looking(p)' => pc[p] # "avail"
<1> USE DEF TypeOK, FlagOK, Committed, Looking, PastRecheck, Scrubbing, Unaware, wait, counts, Goto,
            Return, Forget, SetFlag, ClearFlag
<1>1. CASE \/ EnterAvail(p) \/ PlaceCheck(p) \/ Copy(p) \/ TakeNews(p)
           \/ Publish(p) \/ LeaveAvail(p)
  BY <1>1 DEF EnterAvail, PlaceCheck, Copy, TakeNews, Publish, LeaveAvail, KickOr
<1>2. CASE Connect(p) \/ Opened(p) \/ PipeWait(p) \/ SkipWait(p) \/ PipeWaitDone(p)
  BY <1>2 DEF Connect, Opened, PipeWait, SkipWait, PipeWaitDone
<1>3. CASE Call(p) \/ Precheck(p) \/ Test(p)
  BY <1>3 DEF Call, Precheck, Test
<1>4. CASE Load(p)
  BY <1>4 DEF Load
<1>5. CASE SetWait(p)
  BY <1>5 DEF SetWait
<1>6. CASE Recheck(p)
  BY <1>6 DEF Recheck, Decide
<1>7. CASE Prone(p)
  BY <1>7 DEF Prone
<1>8. CASE ProneDone(p)
  BY <1>8 DEF ProneDone, Decide
<1>9. CASE SetSleep(p) \/ Sleep(p)
  BY <1>9 DEF SetSleep, Sleep
<1>10. CASE WakeUp(p)
  BY <1>10 DEF WakeUp
<1>11. CASE ScrubLoad(p) \/ ScrubStore(p)
  BY <1>11 DEF ScrubLoad, ScrubStore, PlaceOK
<1>12. CASE GiveUp(p) \/ Unset(p)
  BY <1>12 DEF GiveUp, Unset
<1>13. CASE Kick(p) \/ Finish(p) \/ Flush(p) \/ FlushSignal(p)
  BY <1>13 DEF Kick, Finish, Flush, FlushSignal
<1>14. CASE Free(p) \/ Crash(p) \/ Die(p) \/ CloseFd(p)
  BY <1>14 DEF Free, Crash, Die, CloseFd
<1>15. CASE InKernel(p) \/ Interrupt(p)
  BY <1>15 DEF InKernel, Interrupt, ring, Blocked
<1> QED
  BY <1>1, <1>2, <1>3, <1>4, <1>5, <1>6, <1>7, <1>8, <1>9, <1>10, <1>11, <1>12, <1>13,
     <1>14, <1>15 DEF Process, InCall

(* There is always a byte to read or room for one to write. *)
LEMMA NotBothBlocked ==
  ASSUME RingTyped, NEW p \in Roles
  PROVE  ~(Blocked(p) /\ Blocked(Peer(p)))
BY RoleFacts, RingAssumed DEF Blocked, Ring!Reduced, RingTyped

(* Every step keeps the two ends from committing to sleep together. *)
LEMMA SleepStep ==
  ASSUME PipeInv, RP!RingInv, RP!RingInv', EP!EventInv, SleepInv, [Next]_vars
  PROVE  SleepInv'
<1>0. /\ KernelTyped /\ RingTyped /\ TypeOK
      /\ \A p \in Roles : CallOK(p) /\ PlaceOK(p) /\ FlagOK(p) /\ PairOK(p)
  BY KernelFacts, RingFacts DEF PipeInv, SleepInv
<1>1. ASSUME UNCHANGED <<ring, flags, pc, wait>>
      PROVE  SleepInv'
  <2>1. /\ \A p \in Roles : /\ FlagOK(p)' <=> FlagOK(p)
                            /\ Committed(p)' <=> Committed(p)
                            /\ Looking(p)' <=> Looking(p)
                            /\ Blocked(p)' <=> Blocked(p)
    BY <1>1 DEF ring, wait, FlagOK, Committed, Looking, Unaware, Blocked
  <2> QED
    BY <1>0, <2>1, RoleFacts DEF SleepInv, PairOK
<1>2. ASSUME NEW r \in Roles, Process(r) \/ Interrupt(r)
      PROVE  SleepInv'
  <2> DEFINE q == Peer(r)
  <2>0. q \in Roles /\ Peer(q) = r /\ \A p \in Roles : p = r \/ p = q
    BY RoleFacts
  <2>1. /\ FlagOK(r)'
        /\ Committed(r)' => Committed(r) \/ (Looking(r) /\ Blocked(r))
        /\ Looking(r)' => Looking(r) \/ peer'[r] = flags[q]
        /\ Committed(r)' \/ Looking(r)' => pc[r] # "avail"
    BY <1>0, <1>2, SleepSelf
  <2>2. SameProcess(q)
    BY <1>0, <1>2, PeerProcess
  <2>3. pc[q] = "recheck" /\ Blocked(q)' => Blocked(q)
    <3>1. pc[q] = "recheck" => at[q] = "out"
      BY <1>0, <2>0 DEF PlaceOK
    <3> QED
      BY <1>2, <3>1, NeverBlockedByPeer
  <2> HIDE DEF q
  <2>4. FlagOK(q)' /\ (Committed(q)' <=> Committed(q)) /\ (Looking(q)' <=> Looking(q))
    <3>1. (Committed(q)' <=> Committed(q)) /\ (Looking(q)' <=> Looking(q))
      BY <2>2 DEF Committed, Looking, Unaware, SameProcess
    <3>2. CASE flags'[q] = flags[q]
      BY <1>0, <2>0, <2>2, <2>3, <3>1, <3>2 DEF FlagOK, Unaware, SameProcess
    <3>3. CASE ScrubStore(r)
      <4>1. Committed(r)
        BY <3>3 DEF ScrubStore, Committed, Scrubbing
      <4>2. ~Committed(q) /\ (Looking(q) => ~Blocked(q))
        BY <1>0, <2>0, <4>1, NotBothBlocked DEF PairOK, q
      <4> QED
        BY <1>0, <2>0, <2>2, <2>3, <3>1, <4>2 DEF FlagOK, Looking, Unaware, SameProcess
    <3> QED
      BY <1>0, <1>2, <3>1, <3>2, <3>3, FlagMoves DEF q
  <2>5. Committed(r)' \/ Looking(r)' =>
          (Blocked(r)' <=> Blocked(r)) /\ (Blocked(q)' <=> Blocked(q))
    <3>1. pos' = pos \/ Publish(r)
      BY <1>2, PositionsMove
    <3>2. Publish(r) => pc[r] = "avail"
      BY DEF Publish
    <3> QED
      BY <2>1, <3>1, <3>2 DEF Blocked
  <2>6. ~(Committed(q) /\ Unaware(r)' /\ peer'[r] = flags[q])
    BY <1>0, <2>0 DEF Committed, FlagOK, Unaware
  <2>7. ~(Blocked(r) /\ Blocked(q))
    BY <1>0, NotBothBlocked DEF q
  <2>8. PairOK(r) /\ PairOK(q)
    BY <1>0, <2>0
  <2>9. PairOK(r)'
    <3>1. Committed(r)' /\ Looking(q)' => Blocked(r)'
      BY <2>1, <2>4, <2>5, <2>8 DEF PairOK, q
    <3>2. ~(Committed(r)' /\ Committed(q)')
      BY <2>0, <2>1, <2>4, <2>7, <2>8 DEF PairOK, q
    <3> QED
      BY <3>1, <3>2 DEF PairOK, q
  <2>10. PairOK(q)'
    <3>1. Committed(q)' /\ Looking(r)' => Blocked(q)'
      BY <2>0, <2>1, <2>4, <2>5, <2>6, <2>8 DEF PairOK, Looking
    <3>2. ~(Committed(q)' /\ Committed(r)')
      BY <2>9 DEF PairOK, q
    <3> QED
      BY <2>0, <3>1, <3>2 DEF PairOK
  <2> QED
    BY <2>0, <2>1, <2>4, <2>9, <2>10 DEF SleepInv
<1>3. CASE UNCHANGED vars
  BY <1>1, <1>3 DEF vars
<1>4. ASSUME NEW s \in Kernel!Sides, KernelStep(s) PROVE SleepInv'
  BY <1>1, <1>4 DEF KernelStep
<1> QED
  BY <1>2, <1>3, <1>4 DEF Next

LEMMA InitSleep == Init => SleepInv
<1> SUFFICES ASSUME Init PROVE SleepInv
  OBVIOUS
<1> QED
  BY InitPlaces DEF SleepInv, FlagOK, PairOK, Committed, PastRecheck, Scrubbing

(***************************************************************************)
(* The two ends are never asleep together with nobody to wake them, for    *)
(* every buffer size, from the connection on and through flushes,          *)
(* closings, deaths and interrupts (xen_shm_pipe.c:351-394, 445-484;       *)
(* report.tex:167).  That an interrupted reader clears WAITING in the      *)
(* writer's word (401) does no harm here: its own WAITING stays set, and a *)
(* writer that missed it finds room.                                       *)
(***************************************************************************)
THEOREM NeverBothAsleep == Spec => []NoMutualSleep
<1>1. SleepInv => NoMutualSleep
  BY RoleFacts DEF SleepInv, FlagOK, PairOK, Committed, PastRecheck, NoMutualSleep, Asleep
<1>2. SleepInv /\ PipeInv /\ RP!RingInv /\ RP!RingInv' /\ EP!EventInv /\ [Next]_vars => SleepInv'
  BY SleepStep
<1> QED
  BY <1>1, <1>2, InitSleep, Invariance, PTL DEF Spec

-----------------------------------------------------------------------------
(* A wakeup is on its way to p, or waits for it. *)
Due(p) ==
  \/ pending[Side(p)]
  \/ latent_user_signal[Side(p)] /\ ~(pc[p] = "awaiting" /\ await[p] = "asleep")
  \/ pc[p] = "awaiting" /\ await[p] \in {"wake", "timeout"} \cup Kernel!Results

FlushOK(p) ==
  /\ flushed[Peer(p)] => initial_signal[Side(p)]
  /\ flushed[Peer(p)] /\ pc[p] \in PastRecheck => Blocked(p) \/ Due(p)

(* What a process does to the signals: it may raise one for the other, and clear its own. *)
LEMMA SignalMoves ==
  ASSUME KernelTyped, NEW p \in Roles, Process(p) \/ Interrupt(p),
         pc[p] = "connect" => Side(p) = "receiver"
  PROVE  /\ initial_signal' = initial_signal
         /\ pending'[Side(p)] = pending[Side(p)] \/ pc[p] = "connect"
         /\ pending[Side(Peer(p))] => pending'[Side(Peer(p))]
         /\ latent_user_signal'[Side(Peer(p))] = latent_user_signal[Side(Peer(p))]
         /\ latent_user_signal' = latent_user_signal \/ Kernel!AwaitFinish(p)
<1> DEFINE q == Peer(p)
<1>0. /\ Side(q) # Side(p) /\ Side(p) \in Kernel!Sides /\ Side(q) \in Kernel!Sides
      /\ Side(q) = Kernel!Other(Side(p))
  BY RoleFacts
<1> HIDE DEF q
<1> SUFFICES /\ initial_signal' = initial_signal
             /\ pending'[Side(p)] = pending[Side(p)] \/ pc[p] = "connect"
             /\ pending[Side(q)] => pending'[Side(q)]
             /\ latent_user_signal'[Side(q)] = latent_user_signal[Side(q)]
             /\ latent_user_signal' = latent_user_signal \/ Kernel!AwaitFinish(p)
  BY DEF q
<1>1. CASE UNCHANGED kernel
  BY <1>1 DEF kernel
<1> USE <1>0 DEF KernelTyped, Kernel!ec, Kernel!signals
<1>2. CASE Kernel!Ssig(p)
  <2>1. /\ pending' = [pending EXCEPT ![Side(q)] = @ \/ bound[Side(q)]]
        /\ UNCHANGED <<initial_signal, latent_user_signal>>
    BY <1>2, Zenon DEF Kernel!Ssig, Kernel!NotifyRemote, Kernel!Raised
  <2> QED
    BY <2>1
<1>4. ASSUME NEW r, Kernel!AwaitEnter(p, r)
      PROVE  UNCHANGED <<initial_signal, pending, latent_user_signal>>
  BY <1>4 DEF Kernel!AwaitEnter
<1>5. CASE Kernel!AwaitReturn(p) \/ Kernel!AwaitCheck(p) \/ Kernel!AwaitTimeout(p)
  BY <1>5 DEF Kernel!AwaitReturn, Kernel!AwaitCheck, Kernel!AwaitTimeout
<1>6. CASE Kernel!AwaitFinish(p)
  BY <1>6 DEF Kernel!AwaitFinish
<1>7. CASE Kernel!AwaitInterrupt(p) \/ Kernel!ReleaseMark(Side(p))
  BY <1>7 DEF Kernel!AwaitInterrupt, Kernel!ReleaseMark
<1>8. CASE Connect(p)
  <2>0. pc[p] = "connect" /\ Side(p) = "receiver" /\ Side(q) = "offerer"
    BY <1>8 DEF Connect, Kernel!Other
  <2>1. CASE Kernel!ReceiverBind
    BY <2>0, <2>1 DEF Kernel!ReceiverBind
  <2>2. CASE Kernel!ReceiverSignal
    <3>1. /\ pending' = [pending EXCEPT !["offerer"] = @ \/ bound["offerer"]]
          /\ UNCHANGED <<initial_signal, latent_user_signal>>
      BY <2>2, Zenon DEF Kernel!ReceiverSignal, Kernel!NotifyRemote, Kernel!Raised, Kernel!Other
    <3> QED
      BY <2>0, <3>1
  <2>3. CASE Kernel!ReceiverMap \/ Kernel!ReceiverState \/ Kernel!ReceiverPublish
    BY <2>0, <2>3 DEF Kernel!ReceiverMap, Kernel!ReceiverState, Kernel!ReceiverPublish
  <2> QED
    BY <1>8, <2>1, <2>2, <2>3 DEF Connect
<1>9. \/ UNCHANGED kernel \/ Kernel!Ssig(p) \/ Connect(p)
      \/ (\E r : Kernel!AwaitEnter(p, r)) \/ Kernel!AwaitReturn(p)
      \/ Kernel!AwaitCheck(p) \/ Kernel!AwaitTimeout(p)
      \/ Kernel!AwaitFinish(p) \/ Kernel!AwaitInterrupt(p)
      \/ Kernel!ReleaseMark(Side(p))
  BY KernelSteps
<1> QED
  BY <1>1, <1>2, <1>4, <1>5, <1>6, <1>7, <1>8, <1>9

(* Past the initial signal, the kernel turns a pending event into a wakeup. *)
LEMMA DueKernel ==
  ASSUME KernelTyped, NEW s \in Kernel!Sides, KernelStep(s), NEW p \in Roles,
         CallOK(p), pc[p] # "gone", initial_signal[Side(p)], Due(p)
  PROVE  Due(p)'
<1>0. /\ Side(p) \in Kernel!Sides /\ release[Side(p)] = "open" /\ pc' = pc
  BY RoleFacts DEF CallOK, KernelStep
<1> USE <1>0 DEF KernelTyped, Due, Kernel!Results
<1>1. CASE Kernel!EventHandler(s)
  <2>1. /\ latent_user_signal' = [latent_user_signal EXCEPT ![s] = @ \/ ~~initial_signal[s]]
        /\ await' = Kernel!Woken(s)
    BY <1>1, Zenon DEF Kernel!EventHandler
  <2>2. await'[p] = IF Side(p) = s /\ await[p] = "asleep" THEN "check" ELSE await[p]
    BY <2>1 DEF Kernel!Woken
  <2>3. CASE s = Side(p)
    <3>1. latent_user_signal'[Side(p)] /\ await'[p] # "asleep"
      BY <2>1, <2>2, <2>3
    <3> QED
      BY <3>1
  <2>4. CASE s # Side(p)
    <3>1. /\ await'[p] = await[p]
          /\ latent_user_signal'[Side(p)] = latent_user_signal[Side(p)]
      BY <2>1, <2>2, <2>4
    <3>2. pending[Side(p)] => pending'[Side(p)]
      <4> DEFINE rest == [pending EXCEPT ![s] = FALSE]
      <4>1. \/ pending' = rest
            \/ pending' = [rest EXCEPT ![Kernel!Other(s)] = @ \/ bound[Kernel!Other(s)]]
        BY <1>1 DEF Kernel!EventHandler, Kernel!Raised
      <4>2. rest \in [Kernel!Sides -> BOOLEAN] /\ rest[Side(p)] = pending[Side(p)]
        BY <2>4
      <4> HIDE DEF rest
      <4> QED
        BY <4>1, <4>2
    <3> QED
      BY <3>1, <3>2
  <2> QED
    BY <2>3, <2>4
<1>2. CASE Kernel!ReleaseNotify(s)
  <2>1. s # Side(p)
    BY <1>2 DEF Kernel!ReleaseNotify
  <2>2. /\ await'[p] = await[p] /\ latent_user_signal' = latent_user_signal
        /\ pending[Side(p)] => pending'[Side(p)]
    BY <1>2, <2>1 DEF Kernel!ReleaseNotify, Kernel!Woken, Kernel!NotifyRemote, Kernel!Raised,
                      Kernel!signals
  <2> QED
    BY <2>2
<1>3. CASE Kernel!ReleaseFree(s)
  <2>1. s # Side(p)
    BY <1>3 DEF Kernel!ReleaseFree
  <2>2. /\ await' = await /\ latent_user_signal' = latent_user_signal
        /\ pending'[Side(p)] = pending[Side(p)]
    BY <1>3, <2>1 DEF Kernel!ReleaseFree, Kernel!CloseEc, Kernel!signals, Kernel!calls, Kernel!ec
  <2> QED
    BY <2>2
<1> QED
  BY <1>1, <1>2, <1>3 DEF KernelStep
(* The ways to and through the last steps before a sleep. *)
LEMMA PastSteps ==
  ASSUME TypeOK, NEW p \in Roles, Process(p) \/ Interrupt(p), pc'[p] \in PastRecheck
  PROVE  \/ pc[p] = "recheck" /\ Blocked(p)
         \/ pc[p] \in PastRecheck /\ (Prone(p) \/ ProneDone(p) \/ SetSleep(p) \/ Sleep(p))
         \/ pc[p] \in PastRecheck /\ (InKernel(p) \/ Interrupt(p))
<1> USE DEF TypeOK, PastRecheck, Goto, Return
<1>1. CASE \/ EnterAvail(p) \/ PlaceCheck(p) \/ Copy(p) \/ TakeNews(p)
           \/ Publish(p) \/ LeaveAvail(p)
  BY <1>1 DEF EnterAvail, PlaceCheck, Copy, TakeNews, Publish, LeaveAvail, KickOr
<1>2. CASE Connect(p) \/ Opened(p) \/ PipeWait(p) \/ SkipWait(p) \/ PipeWaitDone(p)
  BY <1>2 DEF Connect, Opened, PipeWait, SkipWait, PipeWaitDone
<1>3. CASE Call(p) \/ Precheck(p) \/ Test(p) \/ Load(p) \/ SetWait(p)
  BY <1>3 DEF Call, Precheck, Test, Load, SetWait
<1>4. CASE Recheck(p)
  BY <1>4 DEF Recheck, Decide
<1>5. CASE Prone(p) \/ ProneDone(p) \/ SetSleep(p) \/ Sleep(p)
  BY <1>5 DEF Prone, ProneDone, SetSleep, Sleep
<1>6. CASE WakeUp(p) \/ ScrubLoad(p) \/ ScrubStore(p) \/ GiveUp(p) \/ Unset(p)
  BY <1>6 DEF WakeUp, ScrubLoad, ScrubStore, GiveUp, Unset
<1>7. CASE Kick(p) \/ Finish(p) \/ Flush(p) \/ FlushSignal(p)
  BY <1>7 DEF Kick, Finish, Flush, FlushSignal
<1>8. CASE Free(p) \/ Crash(p) \/ Die(p) \/ CloseFd(p)
  BY <1>8 DEF Free, Crash, Die, CloseFd
<1>9. CASE InKernel(p) \/ Interrupt(p)
  BY <1>9 DEF InKernel, Interrupt
<1> QED
  BY <1>1, <1>2, <1>3, <1>4, <1>5, <1>6, <1>7, <1>8, <1>9 DEF Process, InCall

(* A wakeup that is due is not lost on the way to sleep, nor in it. *)
LEMMA DueSelf ==
  ASSUME TypeOK, KernelTyped, NEW p \in Roles, CallOK(p), Process(p) \/ Interrupt(p),
         pc[p] \in PastRecheck, pc'[p] \in PastRecheck, Due(p)
  PROVE  Due(p)'
<1>0. Side(p) \in Kernel!Sides /\ pc[p] # "connect"
  BY RoleFacts DEF PastRecheck
<1>1. /\ pending'[Side(p)] = pending[Side(p)]
      /\ latent_user_signal' = latent_user_signal \/ Kernel!AwaitFinish(p)
  BY <1>0, SignalMoves
<1>2. CASE pending[Side(p)]
  BY <1>1, <1>2 DEF Due
<1>3. CASE ~pending[Side(p)] /\ (Prone(p) \/ ProneDone(p) \/ SetSleep(p) \/ Sleep(p))
  <2>1. latent_user_signal[Side(p)] /\ ~Kernel!AwaitFinish(p)
    BY <1>3 DEF Due, Prone, ProneDone, SetSleep, Sleep, CallOK, Kernel!AwaitFinish,
                Kernel!AwaitReturn, Kernel!Results
  <2>2. pc'[p] = "awaiting" => await'[p] # "asleep"
    <3>1. CASE Sleep(p)
      BY <1>0, <3>1, AwaitEnters DEF Sleep
    <3>2. CASE Prone(p) \/ ProneDone(p) \/ SetSleep(p)
      BY <3>2 DEF Prone, ProneDone, SetSleep, Decide, Goto, Return, TypeOK
    <3> QED
      BY <1>3, <3>1, <3>2
  <2> QED
    BY <1>1, <2>1, <2>2 DEF Due
<1>4. CASE ~pending[Side(p)] /\ (InKernel(p) \/ Interrupt(p))
  <2>0. pc' = pc
    BY <1>4 DEF InKernel, Interrupt
  <2>1. CASE Kernel!AwaitCheck(p)
    <3>1. await[p] = "check" /\ latent_user_signal' = latent_user_signal
      BY <2>1 DEF Kernel!AwaitCheck, Kernel!signals
    <3>2. latent_user_signal[Side(p)]
      BY <1>4, <3>1 DEF Due, Kernel!Results
    <3>3. pc[p] = "awaiting" => await'[p] = "wake"
      BY <2>1, <3>2 DEF Kernel!AwaitCheck, Kernel!AwaitCond, Kernel!Goto, CallOK, WaitSignal,
                        KernelTyped
    <3> QED
      BY <2>0, <3>1, <3>2, <3>3 DEF Due
  <2>2. CASE Kernel!AwaitTimeout(p) \/ Kernel!AwaitInterrupt(p)
    <3>1. /\ await[p] = "asleep" /\ latent_user_signal' = latent_user_signal
      BY <2>2 DEF Kernel!AwaitTimeout, Kernel!AwaitInterrupt, Kernel!signals
    <3>2. pc[p] # "awaiting" /\ latent_user_signal[Side(p)]
      BY <1>4, <3>1 DEF Due, Kernel!Results
    <3> QED
      BY <2>0, <3>1, <3>2 DEF Due
  <2>3. CASE Kernel!AwaitFinish(p)
    <3>1. CASE pc[p] = "awaiting"
      <4>1. await'[p] \in {"EPIPE", "OK", "TIMEOUT"}
        BY <2>3 DEF Kernel!AwaitFinish, Kernel!Goto, KernelTyped
      <4> QED
        BY <2>0, <3>1, <4>1 DEF Due, Kernel!Results
    <3>2. CASE pc[p] # "awaiting"
      <4>1. await[p] # "idle"
        BY <2>3 DEF Kernel!AwaitFinish
      <4>2. request[p] = ProneAwait /\ latent_user_signal[Side(p)]
        BY <1>4, <3>2, <4>1 DEF CallOK, PastRecheck, Due
      <4>3. latent_user_signal' = latent_user_signal
        BY <2>3, <4>2 DEF Kernel!AwaitFinish, ProneAwait
      <4> QED
        BY <2>0, <3>2, <4>2, <4>3 DEF Due
    <3> QED
      BY <3>1, <3>2
  <2> QED
    BY <1>4, <2>1, <2>2, <2>3 DEF InKernel, Interrupt
<1> QED
  BY <1>2, <1>3, <1>4, PastSteps DEF PastRecheck


LEMMA DuePeer ==
  ASSUME TypeOK, KernelTyped, NEW p \in Roles, CallOK(p), Process(p) \/ Interrupt(p),
         Due(Peer(p))
  PROVE  Due(Peer(p))'
<1>1. /\ pending[Side(Peer(p))] => pending'[Side(Peer(p))]
      /\ latent_user_signal'[Side(Peer(p))] = latent_user_signal[Side(Peer(p))]
  BY SignalMoves DEF CallOK
<1>2. pc'[Peer(p)] = pc[Peer(p)] /\ await'[Peer(p)] = await[Peer(p)]
  BY PeerProcess, PeerCall DEF SameProcess, SameCall, CallOK
<1> QED
  BY <1>1, <1>2 DEF Due

(* A flush raises an event for the other, if it is in a wait. *)
LEMMA FlushRaises ==
  ASSUME KernelTyped, NEW p \in Roles, CallOK(p), CallOK(Peer(p)), FlushSignal(p),
         pc[Peer(p)] \in PastRecheck
  PROVE  pending'[Side(Peer(p))]
<1> DEFINE q == Peer(p)
<1>0. /\ q \in Roles /\ Side(q) = Kernel!Other(Side(p))
      /\ Side(p) \in Kernel!Sides /\ Side(q) \in Kernel!Sides
  BY RoleFacts
<1>1. pc[p] = "flush" /\ SendSignal(p)
  BY DEF FlushSignal
<1>2. /\ release[Side(p)] = "open" /\ release[Side(q)] = "open" /\ state[Side(q)] # "OPENED"
  BY <1>1 DEF CallOK, PastRecheck
<1>3. bound[Side(q)] /\ meta[Side(p)] # "CLOSED" /\ meta[Side(q)] # "CLOSED"
  BY <1>0, <1>2 DEF KernelTyped
<1>4. ~Kernel!BrokenPipe
  BY <1>0, <1>3 DEF Kernel!BrokenPipe, Kernel!Sides, Kernel!Other
<1>5. pending' = [pending EXCEPT ![Side(q)] = @ \/ bound[Side(q)]]
  BY <1>0, <1>1, <1>4, Zenon DEF SendSignal, Kernel!Ssig, Kernel!NotifyRemote, Kernel!Raised
<1> QED
  BY <1>0, <1>3, <1>5 DEF KernelTyped

(* Every step keeps a flush heard. *)
LEMMA FlushStep ==
  ASSUME PipeInv, RP!RingInv, EP!EventInv, \A p \in Roles : FlushOK(p), [Next]_vars
  PROVE  \A p \in Roles : FlushOK(p)'
<1>0. KernelTyped /\ RingTyped /\ TypeOK /\ \A p \in Roles : CallOK(p)
  BY KernelFacts, RingFacts DEF PipeInv
<1>1. CASE UNCHANGED vars
  <2>1. UNCHANGED <<pos, pc, flushed, pending, latent_user_signal, initial_signal, await>>
    BY <1>1 DEF vars, ring, kernel
  <2> QED
    BY <2>1 DEF FlushOK, Due, Blocked
<1>2. ASSUME NEW s \in Kernel!Sides, KernelStep(s), NEW p \in Roles
      PROVE  FlushOK(p)'
  <2>1. UNCHANGED <<pos, pc, flushed>>
    BY <1>2 DEF KernelStep, ring
  <2>2. initial_signal[Side(p)] => initial_signal'[Side(p)]
    BY <1>0, <1>2, RoleFacts DEF KernelStep, Kernel!EventHandler, Kernel!ReleaseNotify,
       Kernel!ReleaseFree, Kernel!signals, KernelTyped
  <2>3. initial_signal[Side(p)] /\ pc[p] \in PastRecheck /\ Due(p) => Due(p)'
    BY <1>0, <1>2, DueKernel DEF PastRecheck
  <2> QED
    BY <2>1, <2>2, <2>3, RoleFacts DEF FlushOK, Blocked
<1>3. ASSUME NEW r \in Roles, Process(r) \/ Interrupt(r)
      PROVE  FlushOK(r)' /\ FlushOK(Peer(r))'
  <2> DEFINE q == Peer(r)
  <2>0. q \in Roles /\ Peer(q) = r /\ FlushOK(r) /\ FlushOK(q)
    BY RoleFacts
  <2>1. SameProcess(q)
    BY <1>0, <1>3, PeerProcess
  <2>2. initial_signal' = initial_signal
    BY <1>0, <1>3, SignalMoves DEF CallOK
  <2>3. flushed'[r] => flushed[r] \/ (FlushSignal(r) /\ initial_signal[Side(q)])
    BY <1>0, <1>3, Causes
  <2>4. pos' = pos \/ (Publish(r) /\ ~flushed'[r] /\ pc'[r] = "avail" /\ pc[r] = "avail")
    BY <1>0, <1>3, PositionsMove DEF Publish, TypeOK
  <2>5. FlushOK(r)'
    <3>1. ASSUME flushed[q], pc'[r] \in PastRecheck
          PROVE  Blocked(r)' \/ Due(r)'
      <4>1. pos' = pos
        BY <2>4, <3>1 DEF PastRecheck
      <4>2. CASE pc[r] \in PastRecheck
        BY <1>0, <1>3, <2>0, <3>1, <4>1, <4>2, DueSelf DEF FlushOK, Blocked
      <4>3. CASE pc[r] \notin PastRecheck
        BY <1>0, <1>3, <3>1, <4>1, <4>3, PastSteps DEF Blocked
      <4> QED
        BY <4>2, <4>3
    <3> QED
      BY <2>0, <2>1, <2>2, <3>1 DEF FlushOK, SameProcess
  <2>6. FlushOK(q)'
    <3>1. ASSUME flushed'[r], pc[q] \in PastRecheck
          PROVE  Blocked(q)' \/ Due(q)'
      <4>1. pos' = pos
        BY <2>4, <3>1
      <4>2. CASE FlushSignal(r)
        BY <1>0, <2>0, <3>1, <4>2, FlushRaises DEF Due
      <4>3. CASE flushed[r]
        BY <1>0, <1>3, <2>0, <3>1, <4>1, <4>3, DuePeer DEF FlushOK, Blocked
      <4> QED
        BY <2>3, <3>1, <4>2, <4>3
    <3> QED
      BY <2>0, <2>1, <2>2, <2>3, <3>1 DEF FlushOK, SameProcess
  <2> QED
    BY <2>5, <2>6
<1> QED
  BY <1>1, <1>2, <1>3, RoleFacts DEF Next

LEMMA InitFlush ==
  ASSUME Init
  PROVE  \A p \in Roles : FlushOK(p)
BY InitPlaces, RoleFacts DEF FlushOK

(***************************************************************************)
(* After a flush the other end does not sleep on while there are bytes or  *)
(* room for it, if it had its initial signal when the flush was made: for  *)
(* every buffer size, from before the connection on, whatever is           *)
(* interrupted, closed or killed (xen_shm_pipe.c:928-945;                  *)
(* xen_shm_pipe.h:147; xen_shm.c:239-247).                                 *)
(***************************************************************************)
THEOREM FlushHeard == Spec => []FlushReaches
<1> DEFINE F == \A p \in Roles : FlushOK(p)
<1>1. Init => F
  BY InitFlush
<1>2. F /\ PipeInv /\ RP!RingInv /\ EP!EventInv /\ [Next]_vars => F'
  BY FlushStep
<1>3. F => FlushReaches
  BY DEF FlushOK, Due, Asleep, PastRecheck, FlushReaches, Kernel!Results
<1> QED
  BY <1>1, <1>2, <1>3, Invariance, PTL DEF Spec

-----------------------------------------------------------------------------
(* The bytes in transit, as a distance around the ring. *)
LEMMA TransitFacts ==
  ASSUME RingTyped
  PROVE  /\ InTransit = RP!Dist(pos["reader"], pos["writer"])
         /\ InTransit \in 0 .. BufferSize - 1
         /\ Blocked("reader") <=> InTransit = 0
         /\ Blocked("writer") <=> InTransit = BufferSize - 1
<1>1. /\ pos["reader"] \in 0 .. BufferSize - 1 /\ pos["writer"] \in 0 .. BufferSize - 1
      /\ BufferSize \in Nat /\ BufferSize > 1
  BY RoleFacts, RingAssumed DEF RingTyped
<1>2. \A n \in 0 .. BufferSize - 1 : n % BufferSize = n /\ (n + BufferSize) % BufferSize = n
  BY <1>1
<1>3. InTransit = RP!Dist(pos["reader"], pos["writer"])
  <2>1. CASE pos["reader"] <= pos["writer"]
    BY <1>1, <1>2, <2>1 DEF InTransit, RP!Dist
  <2>2. CASE ~(pos["reader"] <= pos["writer"])
    <3>1. pos["writer"] - pos["reader"] + BufferSize \in 0 .. BufferSize - 1
      BY <1>1, <2>2
    <3> QED
      BY <1>1, <1>2, <2>2, <3>1 DEF InTransit, RP!Dist
  <2> QED
    BY <2>1, <2>2
<1> QED
  BY <1>1, <1>3 DEF RP!Dist, Blocked, Ring!Reduced
(* Publishing k bytes moves k bytes into or out of transit. *)
LEMMA PublishTransit ==
  ASSUME RP!RingInv, RP!RingInv', NEW p \in Roles, MovesOK(p), Publish(p)
  PROVE  \E k \in 1 .. BufferSize - 1 :
           /\ k <= IF p = "reader" THEN InTransit ELSE BufferSize - 1 - InTransit
           /\ InTransit' = IF p = "reader" THEN InTransit - k ELSE InTransit + k
<1> DEFINE k == RP!Dist(pos[p], own[p])
           r == pos["reader"]
           w == pos["writer"]
<1>0. /\ p \in RP!Roles /\ RingTyped /\ RingTyped'
  <2>1. (RP!RingInv => RingTyped)'
    BY RingFacts, PTL
  <2> QED
    BY <2>1, RingFacts DEF Roles, Ring!Roles, RP!Roles
<1>1. /\ at[p] = "publish" /\ pos' = [pos EXCEPT ![p] = own[p]]
  BY DEF Publish, Ring!Publish
<1>2. own[p] \in 0 .. BufferSize - 1 /\ RP!Place(p) = own[p] /\ own[p] # pos[p]
  BY <1>0, <1>1, RingAssumed DEF RP!RingInv, RP!CopyOK, RP!LoopOK, RP!Place, RP!Wrap, RingTyped,
                                 MovesOK
<1>3. r \in 0 .. BufferSize - 1 /\ w \in 0 .. BufferSize - 1 /\ pos[p] \in 0 .. BufferSize - 1
  BY <1>0, RoleFacts DEF RingTyped
<1>4. k \in 1 .. BufferSize - 1
  BY <1>2, <1>3, RingAssumed DEF RP!Dist
<1>5. /\ InTransit = RP!Dist(r, w)
      /\ InTransit' = RP!Dist(pos'["reader"], pos'["writer"])
  <2>1. (RingTyped => InTransit = RP!Dist(pos["reader"], pos["writer"]))'
    BY TransitFacts, PTL
  <2> QED
    BY <1>0, <2>1, TransitFacts
<1>6. /\ RP!Used <= BufferSize - 1 /\ RP!Unfreed \in RP!Slots /\ RP!Readable \in RP!Slots
      /\ RP!Unpublished \in RP!Slots /\ RP!Rd \in RP!Slots /\ RP!Wr \in RP!Slots
  BY RingAssumed, RP!PlacesTyped DEF RP!RingInv, RP!Ordered
<1>7. InTransit = RP!Unfreed + RP!Readable
  <2>1. RP!Unfreed + RP!Readable <= BufferSize - 1
    BY <1>6, RingAssumed DEF RP!Used, RP!Slots
  <2> QED
    BY <1>3, <1>5, <1>6, <2>1, RingAssumed, RP!DistAdd DEF RP!Unfreed, RP!Readable, RP!Slots
<1>8. CASE p = "reader"
  <2>1. k = RP!Unfreed /\ InTransit' = RP!Readable
    BY <1>1, <1>2, <1>5, <1>8, <1>0, RoleFacts DEF RP!Unfreed, RP!Readable, RP!Rd, RingTyped
  <2> HIDE DEF k
  <2> QED
    BY <1>4, <1>6, <1>7, <1>8, <2>1, RingAssumed DEF RP!Slots
<1>9. CASE p = "writer"
  <2>1. k = RP!Unpublished /\ InTransit' = RP!Dist(r, own[p])
    BY <1>1, <1>2, <1>5, <1>9, <1>0, RoleFacts DEF RP!Unpublished, RP!Wr, RingTyped
  <2>2. InTransit + k <= BufferSize - 1
    BY <1>6, <1>7, <2>1, RingAssumed DEF RP!Used, RP!Slots
  <2>3. InTransit' = InTransit + k
    BY <1>2, <1>3, <1>5, <1>9, <2>1, <2>2, RingAssumed, RP!DistAdd DEF RP!Slots
  <2> HIDE DEF k
  <2> QED
    BY <1>4, <1>6, <1>7, <1>9, <2>2, <2>3, RingAssumed DEF RP!Slots
<1> QED
  BY <1>8, <1>9, RoleFacts

(***************************************************************************)
(* The kernel puts nobody to sleep.  It wakes nobody to whom nothing was   *)
(* on its way, but by the acknowledgement of the other's initial signal.   *)
(***************************************************************************)
LEMMA KernelSleeps ==
  ASSUME KernelTyped, NEW s \in Kernel!Sides, KernelStep(s), NEW p \in Roles,
         \A q \in Roles : CallOK(q)
  PROVE  /\ Asleep(p)' => Asleep(p)
         /\ \/ Asleep(p) => Asleep(p)'
            \/ Kernel!EventHandler(s) /\ ~initial_signal[s] /\ s = Side(Peer(p))
<1> DEFINE q == Peer(p)
<1>0. /\ Side(p) \in Kernel!Sides /\ Side(q) \in Kernel!Sides /\ Side(q) = Kernel!Other(Side(p))
      /\ Side(p) = Kernel!Other(Side(q))
      /\ Side(q) # Side(p) /\ q \in Roles /\ Peer(q) = p /\ (s = Side(p) \/ s = Side(q))
  BY RoleFacts DEF Kernel!Sides, Kernel!Other
<1>1. /\ pc' = pc /\ CallOK(p) /\ CallOK(q)
  BY <1>0, RoleFacts DEF KernelStep
<1> HIDE DEF q
<1>2. /\ Asleep(p) <=> /\ pc[p] = "awaiting" /\ await[p] = "asleep"
                       /\ ~pending[Side(p)] /\ release[Side(q)] # "marked"
      /\ Asleep(p)' <=> /\ pc'[p] = "awaiting" /\ await'[p] = "asleep"
                        /\ ~pending'[Side(p)] /\ release'[Side(q)] # "marked"
  BY DEF Asleep, q
<1>3. pc[p] = "awaiting" => release[Side(p)] = "open" /\ bound[Side(p)]
  BY <1>0, <1>1 DEF CallOK, KernelTyped
<1> USE <1>0 DEF KernelTyped
<1>4. CASE Kernel!EventHandler(s)
  <2> DEFINE rest == [pending EXCEPT ![s] = FALSE]
  <2>1. /\ pending[s] /\ await' = Kernel!Woken(s) /\ release' = release
        /\ \/ pending' = rest
           \/ /\ ~initial_signal[s]
              /\ pending' = [rest EXCEPT ![Kernel!Other(s)] = @ \/ bound[Kernel!Other(s)]]
    BY <1>4 DEF Kernel!EventHandler, Kernel!life, Kernel!Raised
  <2>2. await'[p] = IF Side(p) = s /\ await[p] = "asleep" THEN "check" ELSE await[p]
    BY <2>1 DEF Kernel!Woken
  <2>3. /\ rest \in [Kernel!Sides -> BOOLEAN] /\ rest[s] = FALSE
        /\ s # Side(p) => rest[Side(p)] = pending[Side(p)]
    OBVIOUS
  <2> HIDE DEF rest
  <2>4. CASE s = Side(p)
    BY <1>1, <1>2, <2>1, <2>2, <2>4
  <2>5. CASE s = Side(q)
    <3>1. /\ pending[Side(p)] => pending'[Side(p)]
          /\ pending'[Side(p)] = pending[Side(p)] \/ ~initial_signal[s]
      BY <2>1, <2>3, <2>5
    <3> QED
      BY <1>1, <1>2, <1>4, <2>1, <2>2, <2>5, <3>1 DEF q
  <2> QED
    BY <2>4, <2>5
<1>5. CASE Kernel!ReleaseNotify(s)
  <2>1. /\ release[s] = "marked" /\ release' = [release EXCEPT ![s] = "notified"]
        /\ pending' = [pending EXCEPT ![Kernel!Other(s)] = @ \/ bound[Kernel!Other(s)]]
        /\ await' = Kernel!Woken(s)
    BY <1>5, Zenon DEF Kernel!ReleaseNotify, Kernel!NotifyRemote, Kernel!Raised
  <2>2. CASE s = Side(p)
    BY <1>1, <1>2, <1>3, <2>1, <2>2
  <2>3. CASE s = Side(q)
    <3>1. pc[p] = "awaiting" => pending'[Side(p)]
      BY <1>3, <2>1, <2>3
    <3> QED
      BY <1>1, <1>2, <2>1, <2>3, <3>1
  <2> QED
    BY <2>2, <2>3
<1>6. CASE Kernel!ReleaseFree(s)
  <2>1. release[s] = "notified" /\ release'[s] # "marked" /\ await' = await
    BY <1>6 DEF Kernel!ReleaseFree, Kernel!calls
  <2>2. CASE s = Side(p)
    BY <1>1, <1>2, <1>3, <2>1, <2>2
  <2>3. CASE s = Side(q)
    <3>1. pending'[Side(p)] = pending[Side(p)]
      BY <1>6, <2>3 DEF Kernel!ReleaseFree, Kernel!CloseEc, Kernel!ec
    <3> QED
      BY <1>1, <1>2, <2>1, <2>3, <3>1
  <2> QED
    BY <2>2, <2>3
<1> QED
  BY <1>4, <1>5, <1>6 DEF KernelStep

(* A process puts only itself to sleep, and not in a step that wakes the other. *)
LEMMA ProcessSleeps ==
  ASSUME TypeOK, KernelTyped, NEW p \in Roles, CallOK(p), Process(p) \/ Interrupt(p)
  PROVE  /\ Asleep(Peer(p))' => Asleep(Peer(p))
         /\ (Asleep(p)' <=> Asleep(p)) \/ (Asleep(Peer(p))' <=> Asleep(Peer(p)))
<1> DEFINE q == Peer(p)
<1>0. /\ q \in Roles /\ Peer(q) = p /\ Side(p) \in Kernel!Sides /\ Side(q) \in Kernel!Sides
      /\ Side(p) # Side(q)
  BY RoleFacts
<1>1. pc'[q] = pc[q] /\ await'[q] = await[q]
  BY PeerProcess, PeerCall DEF SameProcess, SameCall, CallOK
<1>2. pending[Side(q)] => pending'[Side(q)]
  BY SignalMoves DEF CallOK
<1>3. CASE UNCHANGED <<pending, release>>
  <2>1. Asleep(q)' <=> Asleep(q)
    BY <1>0, <1>1, <1>3 DEF Asleep
  <2> QED
    BY <2>1
<1>4. CASE Kick(p) \/ FlushSignal(p)
  <2>1. ~Asleep(p) /\ ~Asleep(p)'
    BY <1>4 DEF Kick, FlushSignal, Asleep, Goto, TypeOK
  <2>2. UNCHANGED release
    BY <1>4 DEF Kick, FlushSignal, SendSignal, Kernel!Ssig, Kernel!life, kernel
  <2> QED
    BY <1>0, <1>1, <1>2, <2>1, <2>2 DEF Asleep
<1>5. CASE CloseFd(p)
  <2>1. ~Asleep(p) /\ ~Asleep(p)'
    BY <1>5 DEF CloseFd, Asleep, Goto, TypeOK
  <2>2. release[Side(p)] = "open"
    BY <1>5 DEF CloseFd, Kernel!ReleaseMark
  <2> QED
    BY <1>0, <1>1, <1>2, <2>1, <2>2 DEF Asleep
<1>6. CASE UNCHANGED kernel
  BY <1>3, <1>6 DEF kernel
<1>7. ASSUME NEW r, Kernel!AwaitEnter(p, r) PROVE UNCHANGED <<pending, release>>
  BY <1>7 DEF Kernel!AwaitEnter, Kernel!life, Kernel!ec
<1>8. CASE \/ Kernel!AwaitReturn(p) \/ Kernel!AwaitCheck(p) \/ Kernel!AwaitTimeout(p)
           \/ Kernel!AwaitFinish(p) \/ Kernel!AwaitInterrupt(p)
  BY <1>3, <1>8 DEF Kernel!AwaitReturn, Kernel!AwaitCheck, Kernel!AwaitTimeout, Kernel!AwaitFinish,
              Kernel!AwaitInterrupt, Kernel!life, Kernel!ec
<1>9. CASE Connect(p)
  <2>1. ~Asleep(p) /\ ~Asleep(p)'
    BY <1>9 DEF Connect, Asleep, Goto, TypeOK
  <2>2. UNCHANGED release
    BY <1>9 DEF Connect, Kernel!ReceiverMap, Kernel!ReceiverBind, Kernel!ReceiverState,
                Kernel!ReceiverPublish, Kernel!ReceiverSignal, Kernel!life
  <2> QED
    BY <1>0, <1>1, <1>2, <2>1, <2>2 DEF Asleep
<1> QED
  BY <1>3, <1>4, <1>5, <1>6, <1>7, <1>8, <1>9, KernelSteps

-----------------------------------------------------------------------------
Sleepers == [p \in Roles |-> Asleep(p)]
Greeted == [p \in Roles |-> initial_signal[Side(p)]]

(* Only a publication and a flush change what the Stream sees of flushes. *)
LEMMA FlushedMoves ==
  ASSUME TypeOK, NEW p \in Roles, Process(p) \/ Interrupt(p)
  PROVE  UNCHANGED flushed \/ Publish(p) \/ FlushSignal(p)
<1>1. CASE EnterAvail(p) \/ PlaceCheck(p) \/ Copy(p) \/ TakeNews(p) \/ LeaveAvail(p)
  BY <1>1 DEF EnterAvail, PlaceCheck, Copy, TakeNews, LeaveAvail
<1>2. CASE Connect(p) \/ Opened(p) \/ PipeWait(p) \/ SkipWait(p) \/ PipeWaitDone(p)
  BY <1>2 DEF Connect, Opened, PipeWait, SkipWait, PipeWaitDone
<1>3. CASE Call(p) \/ Precheck(p) \/ Test(p) \/ Load(p) \/ SetWait(p) \/ Recheck(p)
  BY <1>3 DEF Call, Precheck, Test, Load, SetWait, Recheck
<1>4. CASE Prone(p) \/ ProneDone(p) \/ SetSleep(p) \/ Sleep(p) \/ WakeUp(p)
  BY <1>4 DEF Prone, ProneDone, SetSleep, Sleep, WakeUp
<1>5. CASE ScrubLoad(p) \/ ScrubStore(p) \/ GiveUp(p) \/ Unset(p)
  BY <1>5 DEF ScrubLoad, ScrubStore, GiveUp, Unset
<1>6. CASE Kick(p) \/ Finish(p) \/ Flush(p)
  BY <1>6 DEF Kick, Finish, Flush
<1>7. CASE Free(p) \/ Crash(p) \/ Die(p) \/ CloseFd(p) \/ InKernel(p) \/ Interrupt(p)
  BY <1>7 DEF Free, Crash, Die, CloseFd, InKernel, Interrupt
<1> QED
  BY <1>1, <1>2, <1>3, <1>4, <1>5, <1>6, <1>7 DEF Process, InCall

(***************************************************************************)
(* The steps of the Stream, for its one pipe.                              *)
(***************************************************************************)
LEMMA StreamMove ==
  ASSUME NEW r \in Roles, NEW k \in 1 .. BufferSize - 1, ~Asleep(r),
         InTransit \in 0 .. BufferSize - 1,
         k <= IF r = "reader" THEN InTransit ELSE BufferSize - 1 - InTransit,
         InTransit' = IF r = "reader" THEN InTransit - k ELSE InTransit + k,
         flushed' = [flushed EXCEPT ![r] = FALSE], Sleepers' = Sleepers, Greeted' = Greeted
  PROVE  Stream!Next
<1>1. r \in Stream!Roles /\ BufferSize \in Nat /\ BufferSize - 1 \in Nat
  BY RoleFacts, RingAssumed DEF Stream!Roles
<1>2. Stream!Move("pipe", r, k)
  <2>1. ~[p \in Roles |-> Asleep(p)][r]
    OBVIOUS
  <2>2. k \in 1 .. Stream!Room("pipe", r)
    BY <1>1 DEF Stream!Room
  <2>3. [q \in {"pipe"} |-> [p \in Roles |-> Asleep(p)]]'
          = [q \in {"pipe"} |-> [p \in Roles |-> Asleep(p)]]
    BY DEF Sleepers
  <2>6. [q \in {"pipe"} |-> [p \in Roles |-> initial_signal[Side(p)]]]'
          = [q \in {"pipe"} |-> [p \in Roles |-> initial_signal[Side(p)]]]
    BY DEF Greeted
  <2>4. [q \in {"pipe"} |-> flushed]'
          = [[q \in {"pipe"} |-> flushed] EXCEPT !["pipe"][r] = FALSE]
    BY Zenon
  <2>5. [q \in {"pipe"} |-> InTransit]'
          = [[q \in {"pipe"} |-> InTransit] EXCEPT
               !["pipe"] = IF r = "reader" THEN @ - k ELSE @ + k]
    BY Zenon
  <2> QED
    BY <2>1, <2>2, <2>3, <2>4, <2>5, <2>6 DEF Stream!Move
<1> QED
  BY <1>1, <1>2 DEF Stream!Next

LEMMA SleepersUpdate ==
  ASSUME NEW r \in Roles, NEW b \in BOOLEAN, Asleep(r)' = b,
         Asleep(Peer(r))' = Asleep(Peer(r))
  PROVE  [q \in {"pipe"} |-> Sleepers]' = [[q \in {"pipe"} |-> Sleepers] EXCEPT !["pipe"][r] = b]
<1>1. \A p \in Roles : Asleep(p)' = IF p = r THEN b ELSE Asleep(p)
  BY RoleFacts
<1>2. Sleepers' = [Sleepers EXCEPT ![r] = b]
  BY <1>1 DEF Sleepers
<1> QED
  BY <1>2, Zenon

LEMMA StreamSleeps ==
  ASSUME RingTyped, NEW r \in Roles, InTransit' = InTransit, flushed' = flushed,
         Greeted' = Greeted,
         Asleep(Peer(r))' = Asleep(Peer(r)),
         Asleep(r)' =>
           ~Asleep(r) /\ ~Asleep(Peer(r)) /\ (flushed[Peer(r)] => Blocked(r))
  PROVE  Stream!Next \/ UNCHANGED Stream!svars
<1>0. /\ r \in Stream!Roles /\ Stream!Peer(r) = Peer(r) /\ Peer(r) \in Roles
      /\ Asleep(r) \in BOOLEAN /\ Asleep(r)' \in BOOLEAN
  BY RoleFacts DEF Stream!Roles, Stream!Peer, Asleep
<1> DEFINE A == [q \in {"pipe"} |-> [p \in Roles |-> Asleep(p)]]
<1>1. /\ A["pipe"][r] = Asleep(r) /\ A["pipe"][Peer(r)] = Asleep(Peer(r))
  BY <1>0
<1>2. /\ [q \in {"pipe"} |-> InTransit]' = [q \in {"pipe"} |-> InTransit]
      /\ [q \in {"pipe"} |-> flushed]' = [q \in {"pipe"} |-> flushed]
      /\ [q \in {"pipe"} |-> [p \in Roles |-> initial_signal[Side(p)]]]'
           = [q \in {"pipe"} |-> [p \in Roles |-> initial_signal[Side(p)]]]
  BY DEF Greeted
<1>3. CASE Asleep(r)'
  <2>1. A' = [A EXCEPT !["pipe"][r] = TRUE]
    BY <1>3, <1>0, SleepersUpdate DEF Sleepers
  <2>2. flushed[Peer(r)] => Stream!Blocked("pipe", r)
    BY <1>3, TransitFacts, RoleFacts DEF Stream!Blocked
  <2>3. Stream!Doze("pipe", r)
    BY <1>0, <1>1, <1>2, <1>3, <2>1, <2>2 DEF Stream!Doze
  <2> QED
    BY <1>0, <2>3 DEF Stream!Next
<1>4. CASE ~Asleep(r)' /\ Asleep(r)
  <2>1. A' = [A EXCEPT !["pipe"][r] = FALSE]
    BY <1>4, <1>0, SleepersUpdate DEF Sleepers
  <2>2. Stream!Wake("pipe", r)
    BY <1>1, <1>2, <1>4, <2>1 DEF Stream!Wake
  <2> QED
    BY <1>0, <2>2 DEF Stream!Next
<1>5. CASE ~Asleep(r)' /\ ~Asleep(r)
  <2>1. \A p \in Roles : Asleep(p)' = Asleep(p)
    BY <1>0, <1>5, RoleFacts
  <2>2. A' = A
    BY <2>1
  <2> QED
    BY <1>2, <2>2 DEF Stream!svars
<1> QED
  BY <1>3, <1>4, <1>5

LEMMA StreamFlush ==
  ASSUME NEW r \in Roles, InTransit' = InTransit, Greeted' = Greeted,
         flushed' = [flushed EXCEPT ![r] = initial_signal[Side(Peer(r))]],
         ~Asleep(r), ~Asleep(r)', ~Asleep(Peer(r))'
  PROVE  Stream!Next
<1>0. /\ r \in Stream!Roles /\ Stream!Peer(r) = Peer(r) /\ Peer(r) \in Roles
      /\ Peer(Peer(r)) = r
  BY RoleFacts DEF Stream!Roles, Stream!Peer
<1> DEFINE A == [q \in {"pipe"} |-> [p \in Roles |-> Asleep(p)]]
           G == [q \in {"pipe"} |-> [p \in Roles |-> initial_signal[Side(p)]]]
<1>1. A["pipe"][r] = Asleep(r) /\ G["pipe"][Peer(r)] = initial_signal[Side(Peer(r))]
  BY <1>0
<1>2. [q \in {"pipe"} |-> InTransit]' = [q \in {"pipe"} |-> InTransit] /\ G' = G
  BY DEF Greeted
<1>3. [q \in {"pipe"} |-> flushed]'
        = [[q \in {"pipe"} |-> flushed] EXCEPT !["pipe"][r] = initial_signal[Side(Peer(r))]]
  BY Zenon
<1>4. A' = [A EXCEPT !["pipe"][Peer(r)] = FALSE]
  <2>1. Asleep(Peer(r))' = FALSE /\ Asleep(r)' = Asleep(r)
    BY DEF Asleep
  <2> QED
    BY <1>0, <2>1, SleepersUpdate DEF Sleepers
<1>5. Stream!Flush("pipe", r)
  <2> HIDE DEF A, G
  <2>1. [q \in {"pipe"} |-> flushed]'
          = [[q \in {"pipe"} |-> flushed] EXCEPT !["pipe"][r] = G["pipe"][Stream!Peer(r)]]
    BY <1>0, <1>1, <1>3, Zenon
  <2>2. A' = [A EXCEPT !["pipe"][Stream!Peer(r)] = FALSE]
    BY <1>0, <1>4, Zenon
  <2> QED
    BY <1>1, <1>2, <2>1, <2>2 DEF Stream!Flush, Stream!WakePeer, A, G
<1> QED
  BY <1>0, <1>5 DEF Stream!Next

LEMMA StreamGreet ==
  ASSUME NEW r \in Roles, InTransit' = InTransit, flushed' = flushed,
         initial_signal[Side(r)] = FALSE, Greeted' = [Greeted EXCEPT ![r] = TRUE],
         Asleep(r)' = Asleep(r),
         Asleep(Peer(r))' = Asleep(Peer(r)) \/ ~Asleep(Peer(r))'
  PROVE  Stream!Next
<1>0. /\ r \in Stream!Roles /\ Stream!Peer(r) = Peer(r) /\ Peer(r) \in Roles
      /\ Peer(Peer(r)) = r /\ \A p \in Roles : p = r \/ p = Peer(r)
  BY RoleFacts DEF Stream!Roles, Stream!Peer
<1> DEFINE A == [q \in {"pipe"} |-> [p \in Roles |-> Asleep(p)]]
           G == [q \in {"pipe"} |-> [p \in Roles |-> initial_signal[Side(p)]]]
<1>1. ~G["pipe"][r]
  OBVIOUS
<1>2. /\ [q \in {"pipe"} |-> InTransit]' = [q \in {"pipe"} |-> InTransit]
      /\ [q \in {"pipe"} |-> flushed]' = [q \in {"pipe"} |-> flushed]
  OBVIOUS
<1>3. G' = [G EXCEPT !["pipe"][r] = TRUE]
  BY Zenon DEF Greeted
<1>4. A' = [A EXCEPT !["pipe"][Peer(r)] = FALSE] \/ A' = A
  <2>1. CASE ~Asleep(Peer(r))'
    <3>1. Asleep(Peer(r))' = FALSE
      BY <2>1 DEF Asleep
    <3> QED
      BY <1>0, <3>1, SleepersUpdate DEF Sleepers
  <2>2. CASE Asleep(Peer(r))' = Asleep(Peer(r))
    <3>1. \A p \in Roles : Asleep(p)' = Asleep(p)
      BY <1>0, <2>2
    <3> QED
      BY <3>1
  <2> QED
    BY <2>1, <2>2
<1>5. Stream!Greet("pipe", r)
  <2> HIDE DEF A, G
  <2>1. A' = [A EXCEPT !["pipe"][Stream!Peer(r)] = FALSE] \/ A' = A
    BY <1>0, <1>4, Zenon
  <2> QED
    BY <1>1, <1>2, <1>3, <2>1 DEF Stream!Greet, Stream!WakePeer, A, G
<1> QED
  BY <1>0, <1>5 DEF Stream!Next

LEMMA StreamSame ==
  ASSUME InTransit' = InTransit, flushed' = flushed, Greeted' = Greeted,
         \A p \in Roles : Asleep(p)' = Asleep(p)
  PROVE  UNCHANGED Stream!svars
<1>1. [p \in Roles |-> Asleep(p)]' = [p \in Roles |-> Asleep(p)]
  OBVIOUS
<1> QED
  BY <1>1 DEF Stream!svars, Greeted

(* Every step of the pipe is a step of the Stream or leaves it alone. *)
LEMMA StreamStep ==
  ASSUME PipeInv, RP!RingInv, RP!RingInv', EP!EventInv, \A p \in Roles : FlushOK(p),
         NoMutualSleep', FlushReaches', [Next]_vars
  PROVE  [Stream!Next]_(Stream!svars)
<1>0. /\ KernelTyped /\ RingTyped /\ TypeOK
      /\ \A p \in Roles : CallOK(p) /\ MovesOK(p)
      /\ \A p \in Roles : Asleep(p) \in BOOLEAN /\ Asleep(p)' \in BOOLEAN
  BY KernelFacts, RingFacts DEF PipeInv, Asleep
<1>1. CASE UNCHANGED vars
  <2>1. UNCHANGED <<pos, flushed, pc, await, pending, release, initial_signal>>
    BY <1>1 DEF vars, ring, kernel
  <2> QED
    BY <2>1, StreamSame DEF InTransit, Asleep, Greeted
<1>2. ASSUME NEW s \in Kernel!Sides, KernelStep(s)
      PROVE  Stream!Next \/ UNCHANGED Stream!svars
  <2>1. UNCHANGED <<pos, flushed>> /\ InTransit' = InTransit
    BY <1>2 DEF KernelStep, ring, InTransit
  <2>2. PICK r \in Roles : s = Side(r)
    BY RoleFacts DEF Kernel!Sides
  <2> DEFINE q == Peer(r)
  <2>3. /\ q \in Roles /\ Peer(q) = r /\ Side(q) # s /\ \A p \in Roles : p = r \/ p = q
        /\ Side(q) \in Kernel!Sides
    BY <2>2, RoleFacts
  <2>4. /\ Asleep(r)' <=> Asleep(r)
        /\ Asleep(q)' => Asleep(q)
        /\ (Asleep(q)' <=> Asleep(q)) \/ (Kernel!EventHandler(s) /\ ~initial_signal[s])
    BY <1>0, <1>2, <2>2, <2>3, KernelSleeps
  <2> HIDE DEF q
  <2>5. Asleep(r)' = Asleep(r) /\ (Asleep(q)' = Asleep(q) \/ ~Asleep(q)')
    BY <1>0, <2>3, <2>4
  <2>6. CASE Kernel!EventHandler(s) /\ ~initial_signal[s]
    <3>1. initial_signal' = [initial_signal EXCEPT ![s] = TRUE]
      BY <2>6 DEF Kernel!EventHandler
    <3>2. \A p \in Roles :
            initial_signal'[Side(p)] = IF p = r THEN TRUE ELSE initial_signal[Side(p)]
      BY <1>0, <2>2, <2>3, <3>1 DEF KernelTyped
    <3>3. Greeted' = [Greeted EXCEPT ![r] = TRUE]
      BY <3>2 DEF Greeted
    <3>4. initial_signal[Side(r)] = FALSE
      BY <1>0, <2>2, <2>6 DEF KernelTyped
    <3> QED
      BY <2>1, <2>5, <3>3, <3>4, StreamGreet DEF q
  <2>7. CASE ~(Kernel!EventHandler(s) /\ ~initial_signal[s])
    <3>1. initial_signal' = initial_signal
      <4>1. CASE Kernel!EventHandler(s)
        BY <1>0, <2>7, <4>1 DEF Kernel!EventHandler, KernelTyped
      <4>2. CASE Kernel!ReleaseNotify(s) \/ Kernel!ReleaseFree(s)
        BY <4>2 DEF Kernel!ReleaseNotify, Kernel!ReleaseFree, Kernel!signals
      <4> QED
        BY <1>2, <4>1, <4>2 DEF KernelStep
    <3>2. \A p \in Roles : Asleep(p)' = Asleep(p)
      BY <1>0, <2>3, <2>4, <2>5, <2>7
    <3> QED
      BY <2>1, <3>1, <3>2, StreamSame DEF Greeted
  <2> QED
    BY <2>6, <2>7
<1>3. ASSUME NEW r \in Roles, Process(r) \/ Interrupt(r)
      PROVE  Stream!Next \/ UNCHANGED Stream!svars
  <2> DEFINE q == Peer(r)
  <2>0. /\ q \in Roles /\ Peer(q) = r /\ Greeted' = Greeted
        /\ \A p \in Roles : p = r \/ p = q
    BY <1>0, <1>3, RoleFacts, SignalMoves DEF CallOK, Greeted
  <2>1. CASE Publish(r)
    <3>1. UNCHANGED <<kernel, pc>> /\ pc[r] = "avail"
      BY <2>1 DEF Publish
    <3>2. Sleepers' = Sleepers /\ ~Asleep(r)
      BY <3>1 DEF Sleepers, Asleep, kernel
    <3>3. flushed' = [flushed EXCEPT ![r] = FALSE]
      BY <2>1 DEF Publish
    <3>4. PICK k \in 1 .. BufferSize - 1 :
            /\ k <= IF r = "reader" THEN InTransit ELSE BufferSize - 1 - InTransit
            /\ InTransit' = IF r = "reader" THEN InTransit - k ELSE InTransit + k
      BY <1>0, <2>1, PublishTransit
    <3>5. InTransit \in 0 .. BufferSize - 1
      BY <1>0, TransitFacts
    <3> QED
      BY <2>0, <3>2, <3>3, <3>4, <3>5, StreamMove
  <2>2. ASSUME ~Publish(r) PROVE InTransit' = InTransit
    BY <1>3, <2>2, PositionsMove DEF InTransit
  <2>3. CASE FlushSignal(r)
    <3>1. ~Publish(r) /\ ~Asleep(r) /\ ~Asleep(r)'
      BY <1>0, <2>3 DEF FlushSignal, Publish, Asleep, Goto, TypeOK
    <3>2. ~Asleep(q)'
      <4>1. pc'[q] = pc[q]
        BY <1>0, <1>3, PeerProcess DEF SameProcess
      <4>2. pc[q] = "awaiting" => pending'[Side(q)]
        BY <1>0, <2>0, <2>3, FlushRaises DEF PastRecheck
      <4> QED
        BY <4>1, <4>2 DEF Asleep
    <3>3. flushed' = [flushed EXCEPT ![r] = initial_signal[Side(q)]]
      BY <2>3 DEF FlushSignal, Heard
    <3> QED
      BY <2>0, <2>2, <3>1, <3>2, <3>3, StreamFlush
  <2>4. CASE ~Publish(r) /\ ~FlushSignal(r)
    <3>1. InTransit' = InTransit /\ flushed' = flushed /\ pos' = pos
      BY <1>0, <1>3, <2>2, <2>4, FlushedMoves, PositionsMove
    <3>2. /\ Asleep(q)' => Asleep(q)
          /\ (Asleep(r)' <=> Asleep(r)) \/ (Asleep(q)' <=> Asleep(q))
      BY <1>0, <1>3, <2>0, ProcessSleeps
    <3> HIDE DEF q
    <3>3. CASE Asleep(q) /\ ~Asleep(q)'
      <4>1. Asleep(r)' = Asleep(r)
        BY <1>0, <3>2, <3>3
      <4> QED
        BY <1>0, <2>0, <3>1, <3>3, <4>1, StreamSleeps
    <3>4. CASE Asleep(q)' = Asleep(q) /\ Asleep(r)' = Asleep(r)
      BY <2>0, <3>1, <3>4, StreamSame
    <3>5. CASE Asleep(q)' = Asleep(q) /\ Asleep(r)' # Asleep(r)
      <4>1. Asleep(r)' => ~Asleep(r)
        BY <1>0, <3>5
      <4>2. Asleep(r)' => ~Asleep(q)'
        BY <2>0 DEF NoMutualSleep
      <4>3. Asleep(r)' /\ flushed[q] => Blocked(r)
        BY <3>1 DEF FlushReaches, Blocked, q
      <4> QED
        BY <1>0, <2>0, <3>1, <3>5, <4>1, <4>2, <4>3, StreamSleeps DEF q
    <3> QED
      BY <1>0, <2>0, <3>2, <3>3, <3>4, <3>5
  <2> QED
    BY <2>1, <2>3, <2>4
<1> QED
  BY <1>1, <1>2, <1>3 DEF Next

(***************************************************************************)
(* A pipe is a Stream, for every buffer size, from before the connection   *)
(* on and through closings, deaths and interrupts: whatever moves bytes,   *)
(* falls asleep, wakes up, flushes or gets its initial signal does so as   *)
(* XenShmStream allows (xen_shm_pipe.c:351-394, 445-484, 928-945;          *)
(* xen_shm.c:239-247).                                                     *)
(***************************************************************************)
THEOREM PipeImplementsStream == Spec => StreamSpec
<1> DEFINE F == \A p \in Roles : FlushOK(p)
<1>1. Init => Stream!Init
  <2> SUFFICES ASSUME Init PROVE Stream!Init
    OBVIOUS
  <2>1. pos["reader"] = 0 /\ pos["writer"] = 0
    BY DEF Init, Ring!Init, Ring!Roles
  <2>2. InTransit = 0
    BY <2>1, RingAssumed DEF InTransit
  <2>3. flushed = [p \in Roles |-> FALSE] /\ \A p \in Roles : Asleep(p) = FALSE
    BY InitPlaces DEF Asleep
  <2>4. [p \in Roles |-> Asleep(p)] = [p \in Roles |-> FALSE]
    BY <2>3
  <2>5. \A p \in Roles : Side(p) \in Kernel!Sides /\ initial_signal[Side(p)] \in BOOLEAN
    BY InitEvent, KernelFacts, RoleFacts DEF KernelTyped
  <2> QED
    BY <2>2, <2>3, <2>4, <2>5, RoleFacts DEF Stream!Init, Stream!Roles
<1>2. Spec => []F
  <2>1. Init => F
    BY InitFlush
  <2>2. F /\ PipeInv /\ RP!RingInv /\ EP!EventInv /\ [Next]_vars => F'
    BY FlushStep
  <2> QED
    BY <2>1, <2>2, Invariance, PTL DEF Spec
<1>3. /\ PipeInv /\ RP!RingInv /\ RP!RingInv' /\ EP!EventInv /\ F
      /\ NoMutualSleep' /\ FlushReaches' /\ [Next]_vars
      => [Stream!Next]_(Stream!svars)
  BY StreamStep
<1>4. Spec => []NoMutualSleep
  BY NeverBothAsleep
<1>5. Spec => []FlushReaches
  BY FlushHeard
<1> QED
  BY <1>1, <1>2, <1>3, <1>4, <1>5, Invariance, PTL DEF Spec, StreamSpec, Stream!Spec
=============================================================================
