------------------------- MODULE XenShmEventHistory -------------------------
(***************************************************************************)
(* XenShmEvent with a memory of the signals user space sent, to state what *)
(* the signals promise.  The added variable observes the steps of          *)
(* XenShmEvent and restricts none.                                         *)
(***************************************************************************)
EXTENDS XenShmEvent

(* No wait for user signals has a timeout: those of the pipe have none. *)
ASSUME SignalWaitsUntimed ==
  \A r \in Requests : r.flags \cap {"USER", "LATENT_USER"} # {} => ~r.timed

VARIABLE
  owed  \* a SSIG was sent to a side past its initial signal, and no wait has ended since

hvars == <<kvars, owed>>

HistoryInit == Init /\ owed = [s \in Sides |-> FALSE]

RecordSsig(t) ==
  LET o == Other(SideOf[t])
  IN /\ Ssig(t)
     /\ owed' = [owed EXCEPT ![o] = @ \/ (bound[o] /\ initial_signal[o])]

(* A wait for user signals that ends awake has answered all of them. *)
RecordFinish(t) ==
  LET answered == /\ await[t] = "wake"
                  /\ request[t].flags \cap {"USER", "LATENT_USER"} # {}
  IN /\ AwaitFinish(t)
     /\ owed' = [owed EXCEPT ![SideOf[t]] = @ /\ ~answered]

Unrecorded ==
  /\ \/ InitReceiver
     \/ \E s \in Sides : EventHandler(s) \/ Release(s)
     \/ \E t \in Threads :
          \/ \E r \in Requests : AwaitEnter(t, r)
          \/ AwaitLock(t) \/ AwaitBackoff(t) \/ AwaitCheck(t) \/ AwaitTimeout(t)
          \/ AwaitReturn(t)
          \/ t \in Interruptible /\ AwaitInterrupt(t)
  /\ UNCHANGED owed

HistoryNext == Unrecorded \/ \E t \in Threads : RecordSsig(t) \/ RecordFinish(t)

HistorySpec == HistoryInit /\ [][HistoryNext]_hvars
FairHistorySpec == HistorySpec /\ Fairness

(***************************************************************************)
(* "A signal, if not immediately handled, wakes up any future waiting      *)
(* process" (report.tex:171): a signal sent to a side that is past its     *)
(* initial signal stays on the port or in latent_user_signal until a wait  *)
(* for user signals ends because of it (xen_shm.c:244-247, 938-940).  It   *)
(* needs SignalWaitsUntimed: line 938 clears the signal on a timeout too.  *)
(***************************************************************************)
SignalKept ==
  \A s \in Sides :
    owed[s] /\ release[s] = "open" => pending[s] \/ latent_user_signal[s]
=============================================================================
