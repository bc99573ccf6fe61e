---------------------------- MODULE XenShmEvent ----------------------------
(***************************************************************************)
(* The event side of the xen_shm kernel module: one offerer instance and   *)
(* one receiver instance of /dev/xen_shm, the event channel between them,  *)
(* the states both keep in the shared header page, and the threads that    *)
(* block in XEN_SHM_IOCTL_AWAIT (xen_shm.c).                               *)
(*                                                                         *)
(* The offerer has already run XEN_SHM_IOCTL_INIT_OFFERER: it has the      *)
(* header page, an unbound port and a handler.  The receiver connects,     *)
(* both sides signal, wait and close in any order.                         *)
(*                                                                         *)
(* An event channel carries one bit: an event raised on a port whose       *)
(* previous event has not been handled yet is merged with it.              *)
(***************************************************************************)
EXTENDS Integers, FiniteSets

CONSTANTS
  Threads,       \* the threads that use the two instances
  SideOf,        \* the instance each of them has opened
  Requests,      \* the AWAIT requests the threads make
  Interruptible  \* the threads a Unix signal may interrupt

Sides == {"offerer", "receiver"}
Other(s) == IF s = "offerer" THEN "receiver" ELSE "offerer"

AwaitFlags == {"USER", "INIT", "MUTEX", "LATENT_USER"}
Request == [flags : SUBSET AwaitFlags, timed : BOOLEAN]
NoRequest == [flags |-> {}, timed |-> FALSE]

ASSUME ThreadsAssumption ==
  /\ IsFiniteSet(Threads)
  /\ SideOf \in [Threads -> Sides]
  /\ Requests \subseteq Request
  /\ Interruptible \subseteq Threads

VARIABLES
  state,               \* data->state of each instance
  meta,                \* offerer_state and receiver_state of the header page
  mapped,              \* does the receiver map the header page?
  opening,             \* how far the success path of INIT_RECEIVER got
  bound,               \* is the instance's port bound to the handler?
  pending,             \* the port's pending bit (Xen)
  initial_signal,      \* of each instance
  user_signal,
  latent_user_signal,
  ec_mutex_count,      \* the shared counter of the MUTEX flag
  await,               \* where each thread is in __xen_shm_ioctl_await
  request,             \* what it asked for
  release              \* how far xen_shm_release got on each instance

life == <<state, meta, mapped, opening, release>>
ec == <<bound, pending>>
signals == <<initial_signal, user_signal, latent_user_signal>>
calls == <<await, request>>
kvars == <<life, ec, signals, ec_mutex_count, calls>>

Results == {"OK", "TIMEOUT", "EPIPE", "EDEADLK", "ERESTARTSYS", "ENOTTY"}
AwaitStates ==
  {"idle", "lock", "backoff", "check", "asleep", "wake", "timeout"} \cup Results

(***************************************************************************)
(* The state after INIT_OFFERER and before the receiver connects.          *)
(***************************************************************************)
Init ==
  /\ state = [s \in Sides |-> IF s = "offerer" THEN "OFFERER" ELSE "OPENED"]
  /\ meta = [s \in Sides |-> IF s = "offerer" THEN "OPENED" ELSE "NONE"]
  /\ mapped = FALSE
  /\ opening = "no"
  /\ bound = [s \in Sides |-> s = "offerer"]
  /\ pending = [s \in Sides |-> FALSE]
  /\ initial_signal = [s \in Sides |-> FALSE]
  /\ user_signal = [s \in Sides |-> FALSE]
  /\ latent_user_signal = [s \in Sides |-> FALSE]
  /\ ec_mutex_count = 1
  /\ await = [t \in Threads |-> "idle"]
  /\ request = [t \in Threads |-> NoRequest]
  /\ release = [s \in Sides |-> "open"]

(***************************************************************************)
(* notify_remote_via_evtchn from s: the pending bit of the other port      *)
(* rises, if that port is bound.                                           *)
(***************************************************************************)
Raised(P, s) == [P EXCEPT ![s] = @ \/ bound[s]]
NotifyRemote(s) == pending' = Raised(pending, Other(s))

(* wake_up_interruptible: sleepers on s evaluate their condition again. *)
Woken(s) ==
  [t \in Threads |->
     IF SideOf[t] = s /\ await[t] = "asleep" THEN "check" ELSE await[t]]

(* __xen_shm_is_broken_pipe *)
BrokenPipe == \E s \in Sides : meta[s] = "CLOSED"

(***************************************************************************)
(* xen_shm_event_handler.  The first event an instance ever gets is the    *)
(* initial signal, which an offerer answers; later ones are user signals.  *)
(***************************************************************************)
EventHandlerNoReply(s) ==
  /\ pending[s] /\ bound[s]
  /\ pending' = [pending EXCEPT ![s] = FALSE]
  /\ initial_signal' = [initial_signal EXCEPT ![s] = TRUE]
  /\ user_signal' = [user_signal EXCEPT ![s] = @ \/ initial_signal[s]]
  /\ latent_user_signal' = [latent_user_signal EXCEPT ![s] = @ \/ initial_signal[s]]
  /\ await' = Woken(s)
  /\ UNCHANGED <<life, bound, ec_mutex_count, request>>

EventHandlerNoWake(s) ==
  /\ pending[s] /\ bound[s]
  /\ pending' = [pending EXCEPT ![s] = FALSE]
  /\ initial_signal' = [initial_signal EXCEPT ![s] = TRUE]
  /\ user_signal' = [user_signal EXCEPT ![s] = @ \/ initial_signal[s]]
  /\ latent_user_signal' = [latent_user_signal EXCEPT ![s] = @ \/ initial_signal[s]]
  /\ UNCHANGED <<life, bound, ec_mutex_count, calls>>

EventHandler(s) ==
  /\ pending[s] /\ bound[s]
  /\ LET first == ~initial_signal[s]
         rest == [pending EXCEPT ![s] = FALSE]
     IN /\ pending' = IF first /\ state[s] = "OFFERER"
                      THEN Raised(rest, Other(s)) ELSE rest
        /\ initial_signal' = [initial_signal EXCEPT ![s] = TRUE]
        /\ user_signal' = [user_signal EXCEPT ![s] = @ \/ ~first]
        /\ latent_user_signal' = [latent_user_signal EXCEPT ![s] = @ \/ ~first]
  /\ await' = Woken(s)
  /\ UNCHANGED <<life, bound, ec_mutex_count, request>>

-----------------------------------------------------------------------------
(***************************************************************************)
(* XEN_SHM_IOCTL_INIT_RECEIVER: map the header page, bind the port, then   *)
(* set the state, publish it and send the initial signal, three accesses   *)
(* between which other threads of the receiver find the instance usable.   *)
(* Xen may raise a freshly bound port at once.  The grant of the header    *)
(* page is usable until the offerer has ended it.                          *)
(***************************************************************************)
ReceiverMap ==
  /\ state["receiver"] = "OPENED" /\ ~mapped
  /\ release["offerer"] # "freed"
  /\ mapped' = TRUE
  /\ UNCHANGED <<state, meta, opening, release, ec, signals, ec_mutex_count, calls>>

(* The page counts differ, or the port cannot be bound: undo_map. *)
ReceiverUndo ==
  /\ mapped /\ ~bound["receiver"]
  /\ mapped' = FALSE
  /\ UNCHANGED <<state, meta, opening, release, ec, signals, ec_mutex_count, calls>>

ReceiverBindSignals ==
  /\ mapped /\ ~bound["receiver"]
  /\ bound' = [bound EXCEPT !["receiver"] = TRUE]
  /\ NotifyRemote("receiver")
  /\ UNCHANGED <<life, signals, ec_mutex_count, calls>>

ReceiverBind ==
  /\ mapped /\ ~bound["receiver"]
  /\ bound' = [bound EXCEPT !["receiver"] = TRUE]
  /\ \E raised \in BOOLEAN :
       pending' = [pending EXCEPT !["receiver"] = raised]
  /\ UNCHANGED <<life, signals, ec_mutex_count, calls>>

ReceiverState ==
  /\ state["receiver"] = "OPENED" /\ bound["receiver"]
  /\ state' = [state EXCEPT !["receiver"] = "RECEIVER"]
  /\ opening' = "state"
  /\ UNCHANGED <<meta, mapped, release, ec, signals, ec_mutex_count, calls>>

ReceiverPublish ==
  /\ opening = "state"
  /\ meta' = [meta EXCEPT !["receiver"] = "OPENED"]
  /\ opening' = "published"
  /\ UNCHANGED <<state, mapped, release, ec, signals, ec_mutex_count, calls>>

ReceiverSignal ==
  /\ opening = "published"
  /\ NotifyRemote("receiver")
  /\ opening' = "no"
  /\ UNCHANGED <<state, meta, mapped, release, bound, signals, ec_mutex_count, calls>>

-----------------------------------------------------------------------------
(***************************************************************************)
(* XEN_SHM_IOCTL_SSIG by thread t, when it does not fail.                  *)
(***************************************************************************)
Ssig(t) ==
  LET s == SideOf[t]
  IN /\ release[s] = "open"
     /\ state[s] # "OPENED" /\ ~BrokenPipe
     /\ NotifyRemote(s)
     /\ UNCHANGED <<life, bound, signals, ec_mutex_count, calls>>

(***************************************************************************)
(* __xen_shm_ioctl_await, one action per access to state another actor     *)
(* writes: the entry checks, the mutex counter, the condition of           *)
(* wait_event, the timeout, the interruption, and the way out.             *)
(***************************************************************************)
AwaitCond(t) ==
  LET s == SideOf[t]
      f == request[t].flags
  IN \/ "USER" \in f /\ user_signal[s]
     \/ "INIT" \in f /\ initial_signal[s]
     \/ "LATENT_USER" \in f /\ latent_user_signal[s]
     \/ BrokenPipe

Goto(t, l) == await' = [await EXCEPT ![t] = l]

(* data->user_signal = 0, "Trigger the wait" *)
Trigger(t) == user_signal' = [user_signal EXCEPT ![SideOf[t]] = FALSE]

AwaitEnter(t, r) ==
  LET s == SideOf[t]
      start == state[s] # "OPENED" /\ ~BrokenPipe
      mutex == "MUTEX" \in r.flags
  IN /\ release[s] = "open" /\ await[t] = "idle"
     /\ request' = [request EXCEPT ![t] = r]
     /\ Goto(t, CASE state[s] = "OPENED" -> "ENOTTY"
                  [] state[s] # "OPENED" /\ BrokenPipe -> "EPIPE"
                  [] start /\ mutex -> "lock"
                  [] start /\ ~mutex -> "check")
     /\ IF start /\ ~mutex THEN Trigger(t) ELSE UNCHANGED user_signal
     /\ UNCHANGED <<life, ec, initial_signal, latent_user_signal, ec_mutex_count>>

(* atomic_dec_and_test *)
AwaitLock(t) ==
  /\ await[t] = "lock"
  /\ ec_mutex_count' = ec_mutex_count - 1
  /\ IF ec_mutex_count - 1 = 0
     THEN Goto(t, "check") /\ Trigger(t)
     ELSE Goto(t, "backoff") /\ UNCHANGED user_signal
  /\ UNCHANGED <<life, ec, initial_signal, latent_user_signal, request>>

AwaitBackoffUnlocks(t) ==
  /\ await[t] = "backoff"
  /\ ec_mutex_count' = ec_mutex_count + 2
  /\ Goto(t, "EDEADLK")
  /\ UNCHANGED <<life, ec, signals, request>>

AwaitBackoff(t) ==
  /\ await[t] = "backoff"
  /\ ec_mutex_count' = ec_mutex_count + 1
  /\ Goto(t, "EDEADLK")
  /\ UNCHANGED <<life, ec, signals, request>>

(* unlock_and_return *)
Unlock(t) ==
  ec_mutex_count' =
    IF "MUTEX" \in request[t].flags THEN ec_mutex_count + 1 ELSE ec_mutex_count

(* wait_event: go on if the condition holds, sleep otherwise. *)
AwaitCheck(t) ==
  /\ await[t] = "check"
  /\ Goto(t, IF AwaitCond(t) THEN "wake" ELSE "asleep")
  /\ UNCHANGED <<life, ec, signals, ec_mutex_count, request>>

AwaitTimeout(t) ==
  /\ await[t] = "asleep" /\ request[t].timed
  /\ Goto(t, "timeout")
  /\ UNCHANGED <<life, ec, signals, ec_mutex_count, request>>

(* A Unix signal: wait_event looks at its condition once more, then gives up. *)
AwaitInterruptLeaks(t) ==
  /\ await[t] = "asleep"
  /\ Goto(t, IF AwaitCond(t) THEN "check" ELSE "ERESTARTSYS")
  /\ UNCHANGED <<life, ec, signals, ec_mutex_count, request>>

AwaitInterrupt(t) ==
  /\ await[t] = "asleep"
  /\ \/ AwaitCond(t) /\ Goto(t, "check") /\ UNCHANGED ec_mutex_count
     \/ ~AwaitCond(t) /\ Goto(t, "ERESTARTSYS") /\ Unlock(t)
  /\ UNCHANGED <<life, ec, signals, request>>

AwaitFinishClears(t) ==
  /\ await[t] \in {"wake", "timeout"}
  /\ latent_user_signal' = [latent_user_signal EXCEPT ![SideOf[t]] = FALSE]
  /\ Goto(t, IF BrokenPipe THEN "EPIPE"
             ELSE IF await[t] = "wake" THEN "OK" ELSE "TIMEOUT")
  /\ Unlock(t)
  /\ UNCHANGED <<life, ec, initial_signal, user_signal, request>>

AwaitFinish(t) ==
  /\ await[t] \in {"wake", "timeout"}
  /\ latent_user_signal' =
       IF request[t].flags \cap {"USER", "LATENT_USER"} # {}
       THEN [latent_user_signal EXCEPT ![SideOf[t]] = FALSE]
       ELSE latent_user_signal
  /\ Goto(t, CASE BrokenPipe -> "EPIPE"
               [] ~BrokenPipe /\ await[t] = "wake" -> "OK"
               [] ~BrokenPipe /\ await[t] = "timeout" -> "TIMEOUT")
  /\ Unlock(t)
  /\ UNCHANGED <<life, ec, initial_signal, user_signal, request>>

(* Back in user space with the result. *)
AwaitReturn(t) ==
  /\ await[t] \in Results
  /\ Goto(t, "idle")
  /\ request' = [request EXCEPT ![t] = NoRequest]
  /\ UNCHANGED <<life, ec, signals, ec_mutex_count>>

-----------------------------------------------------------------------------
(***************************************************************************)
(* xen_shm_release, called when the last descriptor is gone and so no      *)
(* thread is in an ioctl of the instance: mark the header page, notify,    *)
(* then __xen_shm_prepare_free.  The offerer cannot end the grant of a     *)
(* header page that is still mapped: the instance is kept, with its port.  *)
(***************************************************************************)
ReleaseMark(s) ==
  /\ state[s] # "OPENED" /\ release[s] = "open"
  /\ \A t \in Threads : SideOf[t] = s => await[t] = "idle"
  /\ s = "receiver" => opening = "no"
  /\ meta' = [meta EXCEPT ![s] = "CLOSED"]
  /\ release' = [release EXCEPT ![s] = "marked"]
  /\ UNCHANGED <<state, mapped, opening, ec, signals, ec_mutex_count, calls>>

ReleaseNotifyLocal(s) ==
  /\ release[s] = "marked"
  /\ release' = [release EXCEPT ![s] = "notified"]
  /\ await' = Woken(s)
  /\ UNCHANGED <<state, meta, mapped, opening, ec, signals, ec_mutex_count, request>>

ReleaseNotify(s) ==
  /\ release[s] = "marked"
  /\ release' = [release EXCEPT ![s] = "notified"]
  /\ NotifyRemote(s)
  /\ await' = Woken(s)
  /\ UNCHANGED <<state, meta, mapped, opening, bound, signals, ec_mutex_count, request>>

CloseEc(s) ==
  /\ bound' = [bound EXCEPT ![s] = FALSE]
  /\ pending' = [pending EXCEPT ![s] = FALSE]

ReleaseFree(s) ==
  /\ release[s] = "notified"
  /\ IF s = "offerer" /\ mapped
     THEN /\ release' = [release EXCEPT ![s] = "delayed"]
          /\ UNCHANGED <<ec, mapped>>
     ELSE /\ release' = [release EXCEPT ![s] = "freed"]
          /\ CloseEc(s)
          /\ mapped' = (mapped /\ s = "offerer")
  /\ UNCHANGED <<state, meta, opening, signals, ec_mutex_count, calls>>

-----------------------------------------------------------------------------
InitReceiver ==
  \/ ReceiverMap \/ ReceiverUndo \/ ReceiverBind
  \/ ReceiverState \/ ReceiverPublish \/ ReceiverSignal

Await(t) ==
  \/ AwaitLock(t) \/ AwaitBackoff(t) \/ AwaitCheck(t)
  \/ AwaitTimeout(t) \/ AwaitFinish(t) \/ AwaitReturn(t)

Release(s) == ReleaseMark(s) \/ ReleaseNotify(s) \/ ReleaseFree(s)

Next ==
  \/ InitReceiver
  \/ \E s \in Sides : EventHandler(s) \/ Release(s)
  \/ \E t \in Threads :
       \/ Ssig(t)
       \/ \E r \in Requests : AwaitEnter(t, r)
       \/ Await(t)
       \/ t \in Interruptible /\ AwaitInterrupt(t)

(***************************************************************************)
(* Kernel code that has started runs to its end, an event on a bound port  *)
(* is handled, a timer fires; nobody is obliged to call anything.          *)
(***************************************************************************)
Fairness ==
  /\ WF_kvars(ReceiverPublish \/ ReceiverSignal)
  /\ \A s \in Sides : /\ WF_kvars(EventHandler(s))
                      /\ WF_kvars(ReleaseNotify(s) \/ ReleaseFree(s))
  /\ \A t \in Threads : WF_kvars(Await(t))

Spec == Init /\ [][Next]_kvars
FairSpec == Spec /\ Fairness

-----------------------------------------------------------------------------
WellTyped ==
  /\ state \in [Sides -> {"OPENED", "OFFERER", "RECEIVER"}]
  /\ meta \in [Sides -> {"NONE", "OPENED", "CLOSED"}]
  /\ mapped \in BOOLEAN
  /\ opening \in {"no", "state", "published"}
  /\ bound \in [Sides -> BOOLEAN]
  /\ pending \in [Sides -> BOOLEAN]
  /\ initial_signal \in [Sides -> BOOLEAN]
  /\ user_signal \in [Sides -> BOOLEAN]
  /\ latent_user_signal \in [Sides -> BOOLEAN]
  /\ ec_mutex_count \in Int
  /\ await \in [Threads -> AwaitStates]
  /\ request \in [Threads -> Request]
  /\ release \in [Sides -> {"open", "marked", "notified", "delayed", "freed"}]

(***************************************************************************)
(* The types, with the range of the shared counter: every thread takes at  *)
(* most one unit off it (xen_shm.c:906-909, 950-953).                      *)
(***************************************************************************)
TypeOK ==
  /\ WellTyped
  /\ 1 - Cardinality(Threads) <= ec_mutex_count /\ ec_mutex_count <= 1

(***************************************************************************)
(* No wakeup is lost: a thread asleep in wait_event whose condition holds  *)
(* is about to be woken, because the event that makes the handler wake it  *)
(* is pending or the closing side has still to send it (xen_shm.c:243-249, *)
(* 1350-1363, 915-936).                                                    *)
(***************************************************************************)
NoLostWakeup ==
  \A t \in Threads :
    await[t] = "asleep" /\ AwaitCond(t) =>
      pending[SideOf[t]] \/ release[Other(SideOf[t])] = "marked"

(* t is inside a wait with XEN_SHM_IOCTL_AWAIT_MUTEX. *)
MutexWaiting(t) ==
  /\ await[t] \in {"check", "asleep", "wake", "timeout"}
  /\ "MUTEX" \in request[t].flags

(***************************************************************************)
(* "Among all calls specifying this flag, only one can wait": on both      *)
(* sides together, whatever the interleaving of the two halves of the      *)
(* failed attempts (xen_shm.h:119, xen_shm.c:906-909).                     *)
(***************************************************************************)
MutexExclusive ==
  \A t, u \in Threads : MutexWaiting(t) /\ MutexWaiting(u) => t = u

(***************************************************************************)
(* No way out of a wait forgets or repeats the increment: when no thread   *)
(* is in a call the counter lets the next one in (xen_shm.c:906-909,       *)
(* 920-922, 931-933, 950-953).                                             *)
(***************************************************************************)
MutexBalanced ==
  (\A t \in Threads : await[t] = "idle") => ec_mutex_count = 1

(***************************************************************************)
(* An offerer that saw the initial signal, and so lets a wait for INIT     *)
(* return, has a receiver whose connection cannot fail any more: it has    *)
(* published itself in the header page, or its next access does            *)
(* (xen_shm.c:843-848, 239-243).  It need not have done so yet: once       *)
(* line 844 has set the state, a SSIG of another thread of the receiver is *)
(* the event the offerer takes for the initial signal (965-973).           *)
(***************************************************************************)
InitMeansConnected ==
  initial_signal["offerer"] => meta["receiver"] # "NONE" \/ opening = "state"

(***************************************************************************)
(* "any waiting process immediately returns with EPIPE error if the other  *)
(* end state becomes closed" (report.tex:132): once an end is closed every *)
(* thread inside AWAIT gets out.                                           *)
(***************************************************************************)
CloseReleasesWaiters ==
  \A t \in Threads : (BrokenPipe /\ await[t] # "idle") ~> await[t] = "idle"

(***************************************************************************)
(* "This signal is acknowledged so that both ends know that the other      *)
(* process is ready" (report.tex:116): after a connection both sides get   *)
(* their initial signal, unless one of them closes.                        *)
(***************************************************************************)
HandshakeCompletes ==
  state["receiver"] = "RECEIVER" ~>
    (BrokenPipe \/ \A s \in Sides : initial_signal[s])
=============================================================================
