------------------------------ MODULE LaiSync ------------------------------
(***************************************************************************)
(* Mutexes and events of LAI (lai/core/exec_impl.h).  Threads of the host  *)
(* interpret methods that Acquire and Release one mutex and Wait for,      *)
(* Signal and Reset one event.  Each step is one atomic access to the      *)
(* word of the mutex or the event; mv and ev are local copies of it, which *)
(* a failed compare-and-exchange refreshes and laihost_sync_wait does not. *)
(*                                                                         *)
(* laihost_sync_wait and laihost_sync_wake belong to the host.  As LAI     *)
(* uses them they are a futex: wait sleeps if the word has the given value *)
(* and returns at once if not, wake wakes sleeping threads.                *)
(***************************************************************************)
EXTENDS Integers, FiniteSets

CONSTANTS
  Threads,    \* the threads of the host
  MaxOps      \* bound: the operations of each thread

ASSUME SyncAssumption == MaxOps \in [Threads -> Nat]

LOCKED == 1                   \* LAI_MUTEX_LOCKED
CONTENDED == 2                \* LAI_MUTEX_CONTENDED
IsLocked(w) == w % 2 = 1
IsContended(w) == w \div 2 = 1

VARIABLES
  mutex,      \* sync->val of the mutex, 0..3
  event,      \* sync->val of the event: its count and the waiters bit
  syncPc,         \* where each thread is
  mv, ev,     \* the thread's copy of the word of the mutex, of the event
  holds,      \* history: the threads whose Acquire succeeded
  ops,        \* operations each thread has begun
  signals,    \* history: events signalled,
  taken,      \* ... received by a Wait
  dropped     \* ... and cleared by a Reset

mutexVars == <<mutex, mv, holds>>
eventVars == <<event, ev, signals, taken, dropped>>
syncVars == <<mutexVars, eventVars, syncPc, ops>>

Quiet == [count |-> 0, waiters |-> FALSE]
Waited == [count |-> 0, waiters |-> TRUE]
Counting(n) == [count |-> n, waiters |-> FALSE]

At(t, where) == syncPc[t] = where
Go(t, where) == syncPc' = [syncPc EXCEPT ![t] = where]
KeepMutex(t) == mv' = [mv EXCEPT ![t] = mutex]
KeepEvent(t) == ev' = [ev EXCEPT ![t] = event]

(* An operation begins with a relaxed load of the word.                    *)
Begin(t, where) ==
  /\ At(t, "idle") /\ ops[t] < MaxOps[t]
  /\ ops' = [ops EXCEPT ![t] = @ + 1]
  /\ Go(t, where)

-----------------------------------------------------------------------------
(***************************************************************************)
(* lai_mutex_lock.                                                         *)
(***************************************************************************)
Acquire(t) ==
  /\ t \notin holds
  /\ Begin(t, "lock") /\ KeepMutex(t)
  /\ UNCHANGED <<mutex, holds, eventVars>>

TryLock(t) ==
  /\ At(t, "lock") /\ ~IsLocked(mv[t])
  /\ IF mutex = mv[t]
     THEN mutex' = LOCKED /\ holds' = holds \cup {t} /\ Go(t, "idle") /\ UNCHANGED mv
     ELSE KeepMutex(t) /\ UNCHANGED <<mutex, holds, syncPc>>
  /\ UNCHANGED <<eventVars, ops>>

(* The mutex is locked: mark it contended, unless it is already.           *)
Contend(t) ==
  /\ At(t, "lock") /\ IsLocked(mv[t])
  /\ IF IsContended(mv[t]) THEN Go(t, "block") /\ UNCHANGED <<mutex, mv>>
     ELSE IF mutex = mv[t] THEN mutex' = LOCKED + CONTENDED /\ Go(t, "block") /\ UNCHANGED mv
     ELSE KeepMutex(t) /\ UNCHANGED <<mutex, syncPc>>
  /\ UNCHANGED <<holds, eventVars, ops>>

MutexWait(t) ==
  /\ At(t, "block")
  /\ Go(t, IF mutex = LOCKED + CONTENDED THEN "asleep" ELSE "lock")
  /\ UNCHANGED <<mutexVars, eventVars, ops>>

(***************************************************************************)
(* lai_mutex_unlock: an exchange and, if somebody waits, a wake.           *)
(***************************************************************************)
Release(t) ==
  /\ t \in holds
  /\ At(t, "idle") /\ Go(t, IF IsContended(mutex) THEN "wake" ELSE "idle")
  /\ mutex' = 0 /\ holds' = holds \ {t}
  /\ UNCHANGED <<mv, eventVars, ops>>

-----------------------------------------------------------------------------
(***************************************************************************)
(* lai_event_wait.  It passes the mutex's value to laihost_sync_wait,      *)
(* which as an event is a count of 3.                                      *)
(***************************************************************************)
Wait(t) ==
  /\ Begin(t, "take") /\ KeepEvent(t)
  /\ UNCHANGED <<mutexVars, event, signals, taken, dropped>>

(* Mutant: the count is decremented without comparing.                     *)
TakeBlindly(t) ==
  /\ At(t, "take")
  /\ ev[t].count > 0
  /\ event' = Counting(ev[t].count - 1) /\ taken' = taken + 1 /\ Go(t, "idle")
  /\ UNCHANGED <<mutexVars, signals, dropped, ev, ops>>

Take(t) ==
  /\ At(t, "take")
  /\ ev[t].count > 0
  /\ IF event = ev[t] THEN event' = Counting(ev[t].count - 1) /\ taken' = taken + 1 /\ Go(t, "idle") /\ UNCHANGED ev
     ELSE KeepEvent(t) /\ UNCHANGED <<event, taken, syncPc>>
  /\ UNCHANGED <<mutexVars, signals, dropped, ops>>

MarkWaiting(t) ==
  /\ At(t, "take")
  /\ ev[t].count = 0
  /\ IF ev[t].waiters THEN Go(t, "hold") /\ UNCHANGED <<event, ev>>
     ELSE IF event = ev[t] THEN event' = Waited /\ Go(t, "hold") /\ UNCHANGED ev
     ELSE KeepEvent(t) /\ UNCHANGED <<event, syncPc>>
  /\ UNCHANGED <<mutexVars, signals, taken, dropped, ops>>

EventWait(t) ==
  /\ At(t, "hold")
  /\ Go(t, IF event = Counting(LOCKED + CONTENDED) THEN "dormant" ELSE "take")
  /\ UNCHANGED <<mutexVars, eventVars, ops>>

(***************************************************************************)
(* lai_event_signal and lai_event_reset.                                   *)
(***************************************************************************)
Signal(t) ==
  /\ Begin(t, "signal") /\ KeepEvent(t)
  /\ UNCHANGED <<mutexVars, event, signals, taken, dropped>>

Post(t) ==
  /\ At(t, "signal")
  /\ IF event = ev[t]
     THEN /\ event' = Counting(IF ev[t].waiters THEN 1 ELSE ev[t].count + 1)
          /\ signals' = signals + 1
          /\ Go(t, IF ev[t].waiters THEN "rouse" ELSE "idle")
          /\ UNCHANGED ev
     ELSE KeepEvent(t) /\ UNCHANGED <<event, signals, syncPc>>
  /\ UNCHANGED <<mutexVars, taken, dropped, ops>>

Reset(t) ==
  /\ Begin(t, "reset") /\ KeepEvent(t)
  /\ UNCHANGED <<mutexVars, event, signals, taken, dropped>>

Clear(t) ==
  /\ At(t, "reset")
  /\ IF ev[t].waiters \/ ev[t].count = 0 THEN Go(t, "idle") /\ UNCHANGED <<event, ev, dropped>>
     ELSE IF event = ev[t] THEN event' = Quiet /\ dropped' = dropped + ev[t].count /\ Go(t, "idle") /\ UNCHANGED ev
     ELSE KeepEvent(t) /\ UNCHANGED <<event, dropped, syncPc>>
  /\ UNCHANGED <<mutexVars, signals, taken, ops>>

-----------------------------------------------------------------------------
(***************************************************************************)
(* The host: a wake makes some of the sleeping threads continue, a         *)
(* deadline ends a wait with an error.                                     *)
(***************************************************************************)
Wakes(t, where, sleeping, resumed) ==
  /\ At(t, where)
  /\ LET Sleepers == {s \in Threads : At(s, sleeping)}
     IN  \E S \in SUBSET Sleepers :
           /\ Sleepers # {} => S # {}
           /\ syncPc' = [s \in Threads |-> IF s = t THEN "idle" ELSE IF s \in S THEN resumed ELSE syncPc[s]]
  /\ UNCHANGED <<mutexVars, eventVars, ops>>

SyncWake(t) == Wakes(t, "wake", "asleep", "lock") \/ Wakes(t, "rouse", "dormant", "take")

Expire(t) ==
  /\ syncPc[t] \in {"asleep", "dormant"}
  /\ Go(t, "idle")
  /\ UNCHANGED <<mutexVars, eventVars, ops>>

SyncInit ==
  /\ mutex = 0 /\ event = Quiet
  /\ syncPc = [t \in Threads |-> "idle"]
  /\ mv = [t \in Threads |-> 0] /\ ev = [t \in Threads |-> Quiet]
  /\ holds = {}
  /\ ops = [t \in Threads |-> 0]
  /\ signals = 0 /\ taken = 0 /\ dropped = 0

SyncStep(t) == \/ TryLock(t) \/ Contend(t) \/ MutexWait(t) \/ Release(t) \/ Take(t) \/ MarkWaiting(t) \/ EventWait(t)
           \/ Post(t) \/ Clear(t) \/ SyncWake(t)

SyncCall(t) == Acquire(t) \/ Wait(t) \/ Signal(t) \/ Reset(t)

(* Threads need not call; a thread asleep may sleep for ever.              *)
SyncDone == (\A t \in Threads : syncPc[t] \in {"idle", "asleep", "dormant"}) /\ UNCHANGED syncVars

SyncNext == (\E t \in Threads : SyncStep(t) \/ SyncCall(t) \/ Expire(t)) \/ SyncDone

(***************************************************************************)
(* The host schedules every thread that can run, and methods release what  *)
(* they acquire.  Nobody has to call, no deadline has to be set.           *)
(***************************************************************************)
SyncFairness == \A t \in Threads : WF_syncVars(SyncStep(t))

SyncSpec == SyncInit /\ [][SyncNext]_syncVars /\ SyncFairness

-----------------------------------------------------------------------------
Places == {"idle", "lock", "block", "asleep", "wake", "take", "hold", "dormant", "signal", "rouse", "reset"}
EventWords == [count : Nat, waiters : BOOLEAN]

(* The variables have their types.                                         *)
SyncTypeOK ==
  /\ mutex \in 0..3
  /\ event \in EventWords
  /\ syncPc \in [Threads -> Places]
  /\ mv \in [Threads -> 0..3] /\ ev \in [Threads -> EventWords]
  /\ holds \subseteq Threads
  /\ ops \in [Threads -> Nat] /\ \A t \in Threads : ops[t] <= MaxOps[t]
  /\ signals \in Nat /\ taken \in Nat /\ dropped \in Nat

(***************************************************************************)
(* Two methods never both hold the mutex, and its word says whether one    *)
(* does: what LAI_ENSURE(v & LAI_MUTEX_LOCKED) in lai_mutex_unlock needs.  *)
(***************************************************************************)
MutualExclusion == Cardinality(holds) <= 1 /\ (holds # {} <=> IsLocked(mutex))

(***************************************************************************)
(* No event is lost or received twice: the count of the event is what was  *)
(* signalled and neither received nor reset.  The count and the waiters    *)
(* bit exclude each other (three LAI_ENSUREs).                             *)
(***************************************************************************)
EventsConserved == event.count + taken + dropped = signals /\ ~(event.waiters /\ event.count > 0)

(* What holds in every state: the three above.                             *)
SyncSafe == SyncTypeOK /\ MutualExclusion /\ EventsConserved

(***************************************************************************)
(* Acquire comes to an end, if whoever holds the mutex releases it: it has *)
(* the mutex or its deadline is over.  This is so for a thread that found  *)
(* the mutex uncontended; one whose copy of the word says contended waits  *)
(* with that copy again and again, because nothing refreshes it.           *)
(***************************************************************************)
AcquireEnds ==
  (\A t \in Threads : []<>(t \notin holds)) =>
     \A t \in Threads : (At(t, "lock") /\ ~IsContended(mv[t])) ~> (At(t, "idle") \/ IsContended(mv[t]))

(* Mutexes and events are correct: two methods never both hold the mutex,  *)
(* no event is lost or received twice, and an Acquire that found the mutex *)
(* uncontended comes to an end.                                            *)
SyncCorrect == AcquireEnds /\ [](SyncTypeOK /\ MutualExclusion /\ EventsConserved)
=============================================================================
