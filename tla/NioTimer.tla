------------------------------ MODULE NioTimer ------------------------------
(***************************************************************************)
(* The timers of the C++ event loop, cpp/src/nio_event.cpp.                *)
(*                                                                         *)
(* timers_ is a multimap from expiry to timer.  An expiry is               *)
(*     stamp + ms * MS2NS + counter_++ % MS2NS                             *)
(* nanoseconds: stamp has millisecond precision and the rest, a counter,   *)
(* tells apart timers set for the same millisecond, until it wraps.        *)
(* nio_event::wait turns the earliest expiry into the timeout of           *)
(* nio_event_wait2 through a cast to a 32-bit int, and after the backend   *)
(* has set the stamp anew trigger_timers takes out what is due and calls   *)
(* it, one timer after the other.                                          *)
(*                                                                         *)
(* The model counts MsNs nanoseconds to the millisecond instead of         *)
(* 1000000, and an int has IntHalf instead of 2^31 values on each side.    *)
(***************************************************************************)
EXTENDS Integers, Sequences

CONSTANTS Timers,  (* the event_timer objects                              *)
          MsNs,    (* MS2NS                                                *)
          IntHalf, (* an int holds -IntHalf .. IntHalf - 1                 *)
          WaitCap, (* nio_event_wait2's longest timeout, 1000 ms           *)
          WaitDef, (* the timeout it takes instead, 100 ms                 *)
          Delays,  (* the ms given to add_timer                            *)
          Waits,   (* the ms given to wait                                 *)
          Busy,    (* bound of the model: ms the application runs for      *)
          Horizon  (* bound of the model: no timer is set beyond it        *)

\* 1000 ms and one more are less than 2^31 ns.
ASSUME TimerAssumption ==
    /\ MsNs \in Nat \ {0}
    /\ IntHalf \in Nat
    /\ WaitCap \in Nat /\ WaitDef \in 0..WaitCap
    /\ (WaitCap + 1) * MsNs <= IntHalf
    /\ Delays \subseteq Nat
    /\ Waits \subseteq Int
    /\ Busy \in Nat /\ Horizon \in Nat

VARIABLES stamp,   (* ev->stamp, in milliseconds                           *)
          counter, (* counter_ % MsNs                                      *)
          timers,  (* timers_, in the order of the multimap                *)
          expire,  (* each timer's stamp_                                  *)
          timeout, (* what nio_event_wait2 passes to the backend           *)
          batch,   (* what trigger_timers took out and has yet to call     *)
          stage,   (* where nio_event::wait stands                         *)
          running  (* history: the timers set, not deleted and not called  *)

timerVars == <<stamp, counter, timers, expire, timeout, batch, stage, running>>

Stages == {"app", "before_wait", "callbacks", "trigger", "on_timer"}

TimerTypeOK ==
    /\ stamp \in Nat
    /\ counter \in 0..(MsNs - 1)
    /\ timers \in Seq([when : Nat, tm : Timers])
    /\ expire \in [Timers -> Nat]
    /\ timeout \in 0..WaitCap
    /\ batch \in Seq(Timers)
    /\ stage \in Stages
    /\ running \in SUBSET Timers

TimerInit ==
    /\ stamp = 0
    /\ counter = 0
    /\ timers = <<>>
    /\ expire = [t \in Timers |-> 0]
    /\ timeout = 0
    /\ batch = <<>>
    /\ stage = "app"
    /\ running = {}

-----------------------------------------------------------------------------
(***************************************************************************)
(* add_timer, del_timer and reset_timer.  The application calls them       *)
(* between two waits, in before_wait, in the backend's callbacks and in    *)
(* on_timer.                                                               *)
(***************************************************************************)
LastOf(S) == IF S = {} THEN 0 ELSE CHOOSE i \in S : \A j \in S : j <= i

FirstOf(S) == CHOOSE i \in S : \A j \in S : i <= j

\* multimap::insert: behind every entry whose key is not larger.
Inserted(q, e) ==
    LET n == LastOf({i \in DOMAIN q : q[i].when <= e.when})
    IN  SubSeq(q, 1, n) \o <<e>> \o SubSeq(q, n + 1, Len(q))

\* The entries with the timer's own key that are the timer's.
EntriesAnyone(q, t) == {i \in DOMAIN q : q[i].when = expire[t]} \* slip: the timers are not compared

Entries(q, t) == {i \in DOMAIN q : q[i].when = expire[t] /\ q[i].tm = t}

Erased(q, t) ==
    IF Entries(q, t) = {} THEN q
    ELSE LET i == FirstOf(Entries(q, t))
         IN  SubSeq(q, 1, i - 1) \o SubSeq(q, i + 1, Len(q))

When(ms) == (stamp + ms) * MsNs + counter

\* add_timer on what is left of timers_.
Set(q, t, ms) ==
    /\ stamp + ms <= Horizon
    /\ expire' = [expire EXCEPT ![t] = When(ms)]
    /\ timers' = Inserted(q, [when |-> When(ms), tm |-> t])
    /\ counter' = (counter + 1) % MsNs
    /\ running' = running \cup {t}
    /\ UNCHANGED <<stamp, timeout, batch, stage>>

\* The callers never add a timer that is in timers_ already.
AddTimer(t, ms) == t \notin running /\ Set(timers, t, ms)

DelTimer(t) ==
    /\ timers' = Erased(timers, t)
    /\ running' = running \ {t}
    /\ UNCHANGED <<stamp, counter, expire, timeout, batch, stage>>

ResetTimer(t, ms) == Set(Erased(timers, t), t, ms)

-----------------------------------------------------------------------------
(***************************************************************************)
(* nio_event::wait.                                                        *)
(***************************************************************************)

\* The value of n converted to int.
AsInt(n) == ((n + IntHalf) % (2 * IntHalf)) - IntHalf

\* C's division, towards zero.
Quotient(n, d) == IF n >= 0 THEN n \div d ELSE -((-n) \div d)

\* What wait makes of its argument, given the entry it looks at.
Shortened(ms, first) ==
    LET delay == Quotient(AsInt(first.when - stamp * MsNs), MsNs)
    IN  IF delay > 0 /\ delay < ms THEN delay ELSE ms

\* What nio_event_wait2 makes of that; ev->timeout stays negative.
Clamped(ms) == IF ms < 0 \/ ms > WaitCap THEN WaitDef ELSE ms

TimeoutByLast(ms) == Clamped(IF timers = <<>> THEN ms ELSE Shortened(ms, timers[Len(timers)])) \* slip: not the earliest

Timeout(ms) == Clamped(IF timers = <<>> THEN ms ELSE Shortened(ms, timers[1]))

WaitBegin(ms) ==
    /\ stage = "app"
    /\ timeout' = Timeout(ms)
    /\ stage' = "before_wait"
    /\ UNCHANGED <<stamp, counter, timers, expire, batch, running>>

\* Slip: nio_set_stamp is not called.
BackendReturnsOldStamp ==
    /\ stage = "before_wait"
    /\ stage' = "callbacks"
    /\ UNCHANGED <<stamp, counter, timers, expire, timeout, batch, running>>

\* The backend returns for an event or at its timeout, and sets the stamp.
\* The time since the last stamp counts, which the application had part of.
BackendReturns ==
    /\ stage = "before_wait"
    /\ \E d \in 0..(timeout + Busy) :
          /\ stamp + d <= Horizon + 1
          /\ stamp' = stamp + d
    /\ stage' = "callbacks"
    /\ UNCHANGED <<counter, timers, expire, timeout, batch, running>>

\* How many entries at the front are due.
Due == LastOf({i \in DOMAIN timers : \A j \in 1..i : timers[j].when <= stamp * MsNs})

TriggerTimers ==
    /\ stage = "callbacks"
    /\ batch' = [i \in 1..Due |-> timers[i].tm]
    /\ timers' = SubSeq(timers, Due + 1, Len(timers))
    /\ stage' = "trigger"
    /\ UNCHANGED <<stamp, counter, expire, timeout, running>>

InTimers(t) == \E i \in DOMAIN timers : timers[i].tm = t

\* The next on_timer is called; the application runs in it, until the one after.
OnTimer ==
    /\ stage \in {"trigger", "on_timer"}
    /\ batch # <<>>
    /\ stage' = "on_timer"
    /\ batch' = Tail(batch)
    /\ running' = running \ {t \in {Head(batch)} : ~InTimers(t)}
    /\ UNCHANGED <<stamp, counter, timers, expire, timeout>>

WaitReturns ==
    /\ stage \in {"trigger", "on_timer"}
    /\ batch = <<>>
    /\ stage' = "app"
    /\ UNCHANGED <<stamp, counter, timers, expire, timeout, batch, running>>

TimerApplication ==
    /\ stage # "trigger"
    /\ \E t \in Timers :
          \/ DelTimer(t)
          \/ \E ms \in Delays : AddTimer(t, ms) \/ ResetTimer(t, ms)

TimerLoop ==
    \/ \E ms \in Waits : WaitBegin(ms)
    \/ BackendReturns
    \/ TriggerTimers
    \/ OnTimer
    \/ WaitReturns

TimerNext == TimerLoop \/ TimerApplication

TimerSpec == TimerInit /\ [][TimerNext]_timerVars

(***************************************************************************)
(* Fairness: the loop is turned by its owner and the clock advances.       *)
(***************************************************************************)
FairTimerSpec ==
    /\ TimerSpec
    /\ WF_timerVars(TimerLoop)
    /\ SF_timerVars(BackendReturns /\ stamp' > stamp)

-----------------------------------------------------------------------------
(***************************************************************************)
(* Properties.                                                             *)
(***************************************************************************)

\* timers_ holds every running timer exactly once, under the key the timer
\* remembers, unless trigger_timers has it in hand, and holds no other: what
\* del_timer leaves behind would be called after its timer is gone.
RunningIsHeld ==
    /\ TimerTypeOK
    /\ \A t \in Timers :
        LET held == {i \in DOMAIN timers : timers[i].tm = t}
        IN  /\ held = Entries(timers, t)
            /\ \A i, j \in held : i = j
            /\ held # {} => t \in running
            /\ t \in running => held # {} \/ \E i \in DOMAIN batch : batch[i] = t

\* The loop never sleeps past the earliest timer if that is at least a
\* millisecond away, by whatever way the 32-bit delay wraps; only a wait without
\* a timeout does, for the default one.
SleepFits ==
    stage = "app" /\ stage' = "before_wait" /\ timers # <<>> =>
        LET left == timers[1].when - stamp * MsNs
        IN  left >= MsNs => timeout' * MsNs <= left \/ timeout' = WaitDef

NoOversleep == [][SleepFits]_timerVars

\* No timer that runs is left waiting for ever.
RunningEnds == \A t \in Timers : t \in running ~> t \notin running
=============================================================================
