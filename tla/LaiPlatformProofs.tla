------------------------- MODULE LaiPlatformProofs -------------------------
(***************************************************************************)
(* Proofs about three parts of LAI that work beside something that does    *)
(* not wait for them.  The mutexes and events: for any set of threads and  *)
(* any number of operations, two methods never both hold the mutex and no  *)
(* event is lost or received twice, however the accesses interleave and    *)
(* whichever sleeping threads the host wakes.  The driver of the embedded  *)
(* controller: for every memory, width and order of the bytes, reads have  *)
(* what was written and no byte is written over another, whenever the      *)
(* controller takes its bytes or drops out of burst mode.  Power           *)
(* management: no event is cleared unreported, whenever it is raised, and  *)
(* no wait on a timer of 24 bits ends early, whatever its value.           *)
(***************************************************************************)
EXTENDS LaiSync, LaiEc, LaiPm, FiniteSetTheorems, SequenceTheorems, TLAPS

(* Mutual exclusion, without counting: nobody holds the mutex, or one      *)
(* thread and the word says so.                                            *)
OneHolder ==
  \/ holds = {} /\ ~IsLocked(mutex)
  \/ \E t \in Threads : holds = {t} /\ IsLocked(mutex)

SyncIInv == SyncTypeOK /\ OneHolder /\ EventsConserved

(* The words of the mutex.                                                 *)
LEMMA MutexWords ==
  /\ ~IsLocked(0) /\ IsLocked(LOCKED) /\ IsLocked(LOCKED + CONTENDED)
  /\ LOCKED \in 0..3 /\ LOCKED + CONTENDED \in 0..3
PROOF
  BY DEF IsLocked, LOCKED, CONTENDED

LEMMA EventWordsBuilt ==
  /\ Quiet \in EventWords /\ Waited \in EventWords
  /\ \A n \in Nat : Counting(n) \in EventWords /\ Counting(n).count = n /\ Counting(n).waiters = FALSE
  /\ Quiet.count = 0 /\ Quiet.waiters = FALSE /\ Waited.count = 0 /\ Waited.waiters = TRUE
PROOF
  BY DEF Quiet, Waited, Counting, EventWords

LEMMA SyncInitSound == SyncInit => SyncIInv
PROOF
  <1> SUFFICES ASSUME SyncInit
               PROVE  SyncIInv
    OBVIOUS
  <1>1. SyncTypeOK
    BY SyncAssumption, EventWordsBuilt DEF SyncInit, SyncTypeOK, Places
  <1>2. OneHolder
    BY MutexWords DEF SyncInit, OneHolder
  <1>3. EventsConserved
    BY EventWordsBuilt DEF SyncInit, EventsConserved
  <1>4. QED
    BY <1>1, <1>2, <1>3 DEF SyncIInv

(* A step that leaves the words alone moves a thread at most.              *)
LEMMA MoveSound ==
  ASSUME SyncIInv, UNCHANGED <<mutex, holds, event, signals, taken, dropped>>,
         syncPc' \in [Threads -> Places], mv' \in [Threads -> 0..3],
         ev' \in [Threads -> EventWords], ops' \in [Threads -> Nat],
         \A t \in Threads : ops'[t] <= MaxOps[t]
  PROVE  SyncIInv'
PROOF
  <1>1. SyncTypeOK'
    BY DEF SyncIInv, SyncTypeOK
  <1>2. OneHolder' /\ EventsConserved'
    BY DEF SyncIInv, OneHolder, EventsConserved
  <1>3. QED
    BY <1>1, <1>2 DEF SyncIInv

(* The steps that only load a word, sleep or wake.                         *)
LEMMA QuietStepsSound ==
  ASSUME SyncIInv, NEW t \in Threads,
         SyncCall(t) \/ MutexWait(t) \/ EventWait(t) \/ SyncWake(t) \/ Expire(t)
  PROVE  SyncIInv'
PROOF
  <1> USE DEF SyncIInv, SyncTypeOK
  <1>1. MaxOps \in [Threads -> Nat]
    BY SyncAssumption
  <1>2. ASSUME SyncCall(t)
        PROVE  SyncIInv'
    <2>1. /\ UNCHANGED <<mutex, holds, event, signals, taken, dropped>>
          /\ ops[t] < MaxOps[t] /\ ops' = [ops EXCEPT ![t] = ops[t] + 1]
          /\ \E where \in Places : syncPc' = [syncPc EXCEPT ![t] = where]
          /\ mv' = mv \/ mv' = [mv EXCEPT ![t] = mutex]
          /\ ev' = ev \/ ev' = [ev EXCEPT ![t] = event]
      BY <1>2 DEF SyncCall, Acquire, Wait, Signal, Reset, Begin, Go, KeepMutex, KeepEvent,
                  mutexVars, eventVars, Places
    <2>2. syncPc' \in [Threads -> Places] /\ mv' \in [Threads -> 0..3] /\ ev' \in [Threads -> EventWords]
      BY <2>1
    <2>3. ops' \in [Threads -> Nat] /\ \A s \in Threads : ops'[s] <= MaxOps[s]
      BY <1>1, <2>1
    <2>4. QED
      BY <2>1, <2>2, <2>3, MoveSound
  <1>3. ASSUME MutexWait(t) \/ EventWait(t) \/ Expire(t)
        PROVE  SyncIInv'
    <2>1. /\ UNCHANGED <<mutex, holds, event, signals, taken, dropped, mv, ev, ops>>
          /\ \E where \in Places : syncPc' = [syncPc EXCEPT ![t] = where]
      BY <1>3 DEF MutexWait, EventWait, Expire, Go, mutexVars, eventVars, Places
    <2>2. syncPc' \in [Threads -> Places]
      BY <2>1
    <2>3. QED
      BY <2>1, <2>2, MoveSound
  <1>4. ASSUME SyncWake(t)
        PROVE  SyncIInv'
    <2>1. UNCHANGED <<mutex, holds, event, signals, taken, dropped, mv, ev, ops>>
      BY <1>4 DEF SyncWake, Wakes, mutexVars, eventVars
    <2>2. \E S, resumed : /\ resumed \in {"lock", "take"}
                          /\ syncPc' = [s \in Threads |-> IF s = t THEN "idle" ELSE
                                          IF s \in S THEN resumed ELSE syncPc[s]]
      BY <1>4 DEF SyncWake, Wakes
    <2>3. syncPc' \in [Threads -> Places]
      BY <2>2 DEF Places
    <2>4. QED
      BY <2>1, <2>3, MoveSound
  <1>5. QED
    BY <1>2, <1>3, <1>4

(* lai_mutex_lock and lai_mutex_unlock: a compare-and-exchange succeeds    *)
(* only on the word the thread has seen.                                   *)
LEMMA MutexStepsSound ==
  ASSUME SyncIInv, NEW t \in Threads, TryLock(t) \/ Contend(t) \/ Release(t)
  PROVE  SyncIInv'
PROOF
  <1> USE DEF SyncIInv, SyncTypeOK
  <1>1. UNCHANGED <<event, ev, signals, taken, dropped, ops>>
    BY DEF TryLock, Contend, Release, eventVars
  <1>2. EventsConserved'
    BY <1>1 DEF EventsConserved
  <1>3. syncPc' \in [Threads -> Places] /\ mv' \in [Threads -> 0..3]
    <2>1. /\ syncPc' = syncPc \/ \E where \in Places : syncPc' = [syncPc EXCEPT ![t] = where]
          /\ mv' = mv \/ mv' = [mv EXCEPT ![t] = mutex]
      BY DEF TryLock, Contend, Release, Go, KeepMutex, Places
    <2>2. QED
      BY <2>1
  <1>4. mutex' \in 0..3 /\ holds' \subseteq Threads /\ OneHolder'
    <2>1. CASE UNCHANGED <<mutex, holds>>
      BY <2>1 DEF OneHolder
    <2>2. CASE /\ mutex = mv[t] /\ ~IsLocked(mv[t])
               /\ mutex' = LOCKED /\ holds' = holds \cup {t}
      <3>1. holds = {}
        BY <2>2 DEF OneHolder
      <3>2. holds' = {t} /\ IsLocked(mutex') /\ mutex' \in 0..3
        BY <2>2, <3>1, MutexWords
      <3>3. QED
        BY <3>2 DEF OneHolder
    <2>3. CASE /\ mutex = mv[t] /\ IsLocked(mv[t])
               /\ mutex' = LOCKED + CONTENDED /\ holds' = holds
      <3>1. PICK s \in Threads : holds = {s}
        BY <2>3 DEF OneHolder
      <3>2. holds' = {s} /\ IsLocked(mutex') /\ mutex' \in 0..3
        BY <2>3, <3>1, MutexWords
      <3>3. QED
        BY <3>2 DEF OneHolder
    <2>4. CASE t \in holds /\ mutex' = 0 /\ holds' = holds \ {t}
      <3>1. holds' = {} /\ ~IsLocked(mutex') /\ mutex' \in 0..3
        BY <2>4, MutexWords DEF OneHolder
      <3>2. QED
        BY <3>1 DEF OneHolder
    <2>5. \/ UNCHANGED <<mutex, holds>>
          \/ /\ mutex = mv[t] /\ ~IsLocked(mv[t])
             /\ mutex' = LOCKED /\ holds' = holds \cup {t}
          \/ /\ mutex = mv[t] /\ IsLocked(mv[t])
             /\ mutex' = LOCKED + CONTENDED /\ holds' = holds
          \/ t \in holds /\ mutex' = 0 /\ holds' = holds \ {t}
      BY DEF TryLock, Contend, Release
    <2>6. QED
      BY <2>1, <2>2, <2>3, <2>4, <2>5
  <1>5. SyncTypeOK'
    BY <1>1, <1>3, <1>4
  <1>6. QED
    BY <1>2, <1>4, <1>5

(* lai_event_wait, lai_event_signal and lai_event_reset.                   *)
LEMMA EventStepsSound ==
  ASSUME SyncIInv, NEW t \in Threads, Take(t) \/ MarkWaiting(t) \/ Post(t) \/ Clear(t)
  PROVE  SyncIInv'
PROOF
  <1> USE DEF SyncIInv, SyncTypeOK
  <1>1. UNCHANGED <<mutex, mv, holds, ops>>
    BY DEF Take, MarkWaiting, Post, Clear, mutexVars
  <1>2. OneHolder'
    BY <1>1 DEF OneHolder
  <1>3. syncPc' \in [Threads -> Places] /\ ev' \in [Threads -> EventWords]
    <2>1. /\ syncPc' = syncPc \/ \E where \in Places : syncPc' = [syncPc EXCEPT ![t] = where]
          /\ ev' = ev \/ ev' = [ev EXCEPT ![t] = event]
      BY DEF Take, MarkWaiting, Post, Clear, Go, KeepEvent, Places
    <2>2. QED
      BY <2>1
  <1>4. event \in EventWords /\ event.count \in Nat /\ event.waiters \in BOOLEAN
    BY DEF EventWords
  <1>5. /\ event' \in EventWords /\ signals' \in Nat /\ taken' \in Nat /\ dropped' \in Nat
        /\ EventsConserved'
    <2>1. CASE UNCHANGED <<event, signals, taken, dropped>>
      BY <2>1 DEF EventsConserved
    <2>2. CASE /\ event.count > 0 /\ event' = Counting(event.count - 1)
               /\ taken' = taken + 1 /\ UNCHANGED <<signals, dropped>>
      <3>1. event.count - 1 \in Nat
        BY <1>4, <2>2
      <3>2. event' \in EventWords /\ event'.count = event.count - 1 /\ event'.waiters = FALSE
        BY <2>2, <3>1, EventWordsBuilt
      <3>3. QED
        BY <1>4, <2>2, <3>2 DEF EventsConserved
    <2>3. CASE /\ event.count = 0 /\ event' = Waited /\ UNCHANGED <<signals, taken, dropped>>
      BY <1>4, <2>3, EventWordsBuilt DEF EventsConserved
    <2>4. CASE /\ event' = Counting(IF event.waiters THEN 1 ELSE event.count + 1)
               /\ signals' = signals + 1 /\ UNCHANGED <<taken, dropped>>
      <3>1. event' = Counting(event.count + 1)
        <4>1. CASE event.waiters
          <5>1. event.count = 0
            BY <1>4, <4>1 DEF EventsConserved
          <5>2. QED
            BY <2>4, <4>1, <5>1
        <4>2. CASE ~event.waiters
          BY <2>4, <4>2
        <4>3. QED
          BY <4>1, <4>2
      <3>2. event' \in EventWords /\ event'.count = event.count + 1 /\ event'.waiters = FALSE
        BY <1>4, <3>1, EventWordsBuilt
      <3>3. QED
        BY <1>4, <2>4, <3>2 DEF EventsConserved
    <2>5. CASE /\ event' = Quiet /\ dropped' = dropped + event.count /\ UNCHANGED <<signals, taken>>
      BY <1>4, <2>5, EventWordsBuilt DEF EventsConserved
    <2>6. ASSUME Take(t) \/ MarkWaiting(t)
          PROVE  \/ UNCHANGED <<event, signals, taken, dropped>>
                 \/ /\ event.count > 0 /\ event' = Counting(event.count - 1)
                    /\ taken' = taken + 1 /\ UNCHANGED <<signals, dropped>>
                 \/ /\ event.count = 0 /\ event' = Waited /\ UNCHANGED <<signals, taken, dropped>>
      BY <2>6 DEF Take, MarkWaiting
    <2>7. ASSUME Post(t) \/ Clear(t)
          PROVE  \/ UNCHANGED <<event, signals, taken, dropped>>
                 \/ /\ event' = Counting(IF event.waiters THEN 1 ELSE event.count + 1)
                    /\ signals' = signals + 1 /\ UNCHANGED <<taken, dropped>>
                 \/ /\ event' = Quiet /\ dropped' = dropped + event.count /\ UNCHANGED <<signals, taken>>
      BY <2>7 DEF Post, Clear
    <2>8. QED
      BY <2>1, <2>2, <2>3, <2>4, <2>5, <2>6, <2>7
  <1>6. SyncTypeOK'
    BY <1>1, <1>3, <1>5
  <1>7. QED
    BY <1>2, <1>5, <1>6

(* The invariant is inductive: every atomic access of every thread keeps   *)
(* it.  No fairness is needed.                                             *)
THEOREM SyncInvariance == SyncSpec => []SyncIInv
PROOF
  <1>1. SyncIInv /\ [SyncNext]_syncVars => SyncIInv'
    <2> SUFFICES ASSUME SyncIInv, [SyncNext]_syncVars
                 PROVE  SyncIInv'
      OBVIOUS
    <2>1. CASE \E t \in Threads : SyncCall(t) \/ MutexWait(t) \/ EventWait(t) \/ SyncWake(t) \/ Expire(t)
      BY <2>1, QuietStepsSound
    <2>2. CASE \E t \in Threads : TryLock(t) \/ Contend(t) \/ Release(t)
      BY <2>2, MutexStepsSound
    <2>3. CASE \E t \in Threads : Take(t) \/ MarkWaiting(t) \/ Post(t) \/ Clear(t)
      BY <2>3, EventStepsSound
    <2>4. CASE UNCHANGED syncVars
      <3>1. UNCHANGED <<mutex, holds, event, signals, taken, dropped, syncPc, mv, ev, ops>>
        BY <2>4 DEF syncVars, mutexVars, eventVars
      <3>2. QED
        BY <3>1, MoveSound DEF SyncIInv, SyncTypeOK
    <2>5. QED
      BY <2>1, <2>2, <2>3, <2>4 DEF SyncNext, SyncStep, SyncDone
  <1>2. QED
    BY <1>1, SyncInitSound, PTL DEF SyncSpec

(* lai_mutex_lock excludes, lai_mutex_unlock finds the word locked as its  *)
(* LAI_ENSURE demands, the count of an event is what was signalled and     *)
(* neither received nor reset, and it excludes the waiters bit.            *)
THEOREM SyncIsSafe == SyncSpec => []SyncSafe
PROOF
  <1>1. SyncIInv => SyncSafe
    <2> SUFFICES ASSUME SyncIInv
                 PROVE  MutualExclusion
      BY DEF SyncIInv, SyncSafe
    <2>1. CASE holds = {} /\ ~IsLocked(mutex)
      <3>1. Cardinality({}) = 0
        BY FS_EmptySet
      <3>2. QED
        BY <2>1, <3>1 DEF MutualExclusion
    <2>2. CASE \E t \in Threads : holds = {t} /\ IsLocked(mutex)
      <3>1. PICK t \in Threads : holds = {t} /\ IsLocked(mutex)
        BY <2>2
      <3>2. Cardinality({t}) = 1
        BY FS_Singleton
      <3>3. QED
        BY <3>1, <3>2 DEF MutualExclusion
    <2>3. QED
      BY <2>1, <2>2 DEF SyncIInv, OneHolder
  <1>2. QED
    BY <1>1, SyncInvariance, PTL

-----------------------------------------------------------------------------
(***************************************************************************)
(* The driver of the embedded controller.  Why the safe part of EcCorrect  *)
(* holds: at every access of a call what is in the buffers and what the    *)
(* controller expects next is known.                                       *)
(***************************************************************************)
InCmd(b) == <<[port |-> EcCmd, byte |-> b]>>
InData(b) == <<[port |-> EcData, byte |-> b]>>
Commands == {READ, WRITE, BURST_ENABLE, BURST_DISABLE, QUERY}
Inputs == {<<>>} \cup {InCmd(b) : b \in Commands} \cup {InData(b) : b \in Offsets \cup Values}
Outputs == {<<>>} \cup {<<b>> : b \in Values \cup {Ack}}
Controllers ==
  [ibf : Inputs, obf : Outputs, burst : BOOLEAN, expect : {"command", "readAt", "writeAt", "value"},
   addr : Offsets, mem : [Offsets -> Values], event : Values]

EcTypes ==
  /\ driver \in [cmd_port : {0, EcCmd}, data_port : {0, EcData}]
  /\ installed \in BOOLEAN /\ panicked \in BOOLEAN /\ burstLost \in BOOLEAN /\ careless \in BOOLEAN
  /\ ecCall \in EcCalls \cup {NoCall} /\ ecAt \in Nat \ {0}
  /\ ecCall = NoCall => ecTodo = <<>>
  /\ ecCall # NoCall => /\ ecTodo = Accesses(ecCall, order) /\ DOMAIN ret = 1..Size
                        /\ order \in Orders(Size) /\ (ecCall.kind # "get" => order = InOrder(Size))
  /\ \A i \in DOMAIN ret : ret[i] \in Values \cup {Ack}
  /\ ec \in Controllers
  /\ wanted \in [Offsets -> Values] /\ told \in Values

(* What controller e has in its buffers, and what it expects next.         *)
EcHas(e, ibf, obf, expect, mem) == e.ibf = ibf /\ e.obf = obf /\ e.expect = expect /\ e.mem = mem
Rests(e, mem) == EcHas(e, <<>>, <<>>, "command", mem)

(* It has at most the value of the last write to take.                     *)
Settles(e, mem) ==
  \/ Rests(e, mem)
  \/ \E v \in Values : EcHas(e, InData(v), <<>>, "value", e.mem) /\ mem = [e.mem EXCEPT ![e.addr] = v]

(* Before access i of a byte, at o, that is read from or written to mem.   *)
ReadStage(e, i, o, mem) ==
  /\ i \in {1, 2} => Rests(e, mem)
  /\ i = 3 => EcHas(e, InCmd(READ), <<>>, "command", mem) \/ EcHas(e, <<>>, <<>>, "readAt", mem)
  /\ i = 4 => EcHas(e, <<>>, <<>>, "readAt", mem)
  /\ i = 5 => EcHas(e, InData(o), <<>>, "readAt", mem) \/ EcHas(e, <<>>, <<mem[o]>>, "command", mem)
  /\ i = 6 => EcHas(e, <<>>, <<mem[o]>>, "command", mem)
WriteStage(e, i, o, mem) ==
  /\ i = 1 => Settles(e, mem)
  /\ i = 2 => Rests(e, mem)
  /\ i = 3 => EcHas(e, InCmd(WRITE), <<>>, "command", mem) \/ EcHas(e, <<>>, <<>>, "writeAt", mem)
  /\ i = 4 => EcHas(e, <<>>, <<>>, "writeAt", mem)
  /\ i = 5 => EcHas(e, InData(o), <<>>, "writeAt", mem) \/ (EcHas(e, <<>>, <<>>, "value", mem) /\ e.addr = o)
  /\ i = 6 => EcHas(e, <<>>, <<>>, "value", mem) /\ e.addr = o

(* Before access i of enable_burst and, with out in the output buffer, of  *)
(* disable_burst, and after it: burst mode is on or was left (lost).       *)
Holds(e, lost) == e.burst \/ lost
EnableStage(e, lost, i, mem) ==
  /\ i = 1 => Rests(e, mem) /\ ~e.burst
  /\ i = 2 => \/ EcHas(e, InCmd(BURST_ENABLE), <<>>, "command", mem)
              \/ EcHas(e, <<>>, <<Ack>>, "command", mem) /\ Holds(e, lost)
  /\ i = 3 => EcHas(e, <<>>, <<Ack>>, "command", mem) /\ Holds(e, lost)
DisableStage(e, lost, i, out, mem) ==
  /\ i = 2 => EcHas(e, <<>>, out, "command", mem) /\ Holds(e, lost)
  /\ i = 3 => \/ EcHas(e, InCmd(BURST_DISABLE), out, "command", mem) /\ Holds(e, lost)
              \/ EcHas(e, <<>>, out, "command", mem) /\ ~e.burst
  /\ i = 4 => \/ EcHas(e, <<>>, out, "command", mem) /\ ~e.burst
              \/ EcHas(e, InCmd(BURST_DISABLE), out, "command", mem) /\ ~e.burst /\ lost

(* Before access k of a query, which the controller answers with t, the    *)
(* byte that is read in the end.                                           *)
QueryStage(e, lost, k, t, mem, byte) ==
  /\ k = 4 => Rests(e, mem) /\ Holds(e, lost)
  /\ k = 5 => /\ EcHas(e, InCmd(QUERY), <<>>, "command", mem) \/ EcHas(e, <<>>, <<t>>, "command", mem)
              /\ Holds(e, lost)
  /\ k = 6 => EcHas(e, <<>>, <<t>>, "command", mem) /\ Holds(e, lost)
  /\ k \in {7, 8, 9} => DisableStage(e, lost, k - 5, <<t>>, mem)
  /\ k = 10 => DisableStage(e, lost, 4, <<>>, mem) /\ byte = t

Reading == ecCall.kind \in {"read", "get"}
Writing == ecCall.kind \in {"write", "put"}
Bursting == ecCall.kind \in {"get", "put", "query"}
FirstUnit == IF Bursting THEN 3 ELSE 0
Where(m) == ecCall.offset + order[m] - 1
ReadSoFar(m) == \A j \in 1..(m - 1) : ret[order[j]] = wanted[Where(j)]

(* A call is before access i of its m-th byte, or it has no byte left.     *)
InUnit(m, i) ==
  /\ ecAt = FirstUnit + 6 * (m - 1) + i /\ (m <= Size \/ i = 1)
  /\ IF Bursting THEN Holds(ec, burstLost) ELSE ~ec.burst
  /\ Reading => ReadStage(ec, i, Where(m), wanted) /\ ReadSoFar(m)
  /\ Writing => WriteStage(ec, i, Where(m), After(m - 1))

Enabling(i) == Bursting /\ ecAt = i /\ EnableStage(ec, burstLost, i, wanted)
Disabling(i) ==
  /\ ecCall.kind \in {"get", "put"} /\ ecAt = 3 + 6 * Size + i
  /\ DisableStage(ec, burstLost, i, <<>>, After(Size))
  /\ Reading => ReadSoFar(Size + 1)
Querying(k) == ecCall.kind = "query" /\ ecAt = k /\ QueryStage(ec, burstLost, k, told, wanted, ret[1])

Conversing ==
  \/ \E i \in 1..3 : Enabling(i)
  \/ (Reading \/ Writing) /\ \E m \in 1..(Size + 1), i \in 1..6 : InUnit(m, i)
  \/ \E i \in 2..4 : Disabling(i)
  \/ \E k \in 4..10 : Querying(k)

(* A driver that does not know its ports makes no access.                  *)
Refused ==
  /\ ecCall.kind \in {"read", "write", "query"} /\ ecAt = 1
  /\ Rests(ec, wanted) /\ ~ec.burst /\ \A i \in DOMAIN ret : ret[i] = 0

(* Between two calls.                                                      *)
Resting ==
  ~ec.burst /\ (Settles(ec, wanted) \/ EcHas(ec, InCmd(BURST_DISABLE), <<>>, "command", wanted))

EcIInv ==
  /\ EcTypes
  /\ \/ careless
     \/ /\ ~panicked
        /\ ecCall = NoCall => Resting
        /\ ecCall # NoCall => IF Known THEN Conversing ELSE Refused

(* The calls there are.                                                    *)
Kinds == {"read", "write", "get", "put", "query"}

(* A call has at least one byte, and every byte its place in the memory.   *)
LEMMA CallIs ==
  ASSUME NEW c \in EcCalls
  PROVE  /\ c.kind \in Kinds /\ c.bytes \in Seq(Values) /\ Len(c.bytes) \in Nat \ {0}
         /\ DOMAIN c.bytes = 1..Len(c.bytes) /\ c.offset \in Offsets /\ c.offset \in Nat
         /\ \A i \in 1..Len(c.bytes) : c.offset + i - 1 \in Offsets /\ c.bytes[i] \in Values
         /\ c.kind \in {"read", "write"} => Len(c.bytes) = 1
         /\ c # NoCall
PROOF
  <1>0. /\ c \in AllCalls /\ c.bytes # <<>> /\ 0 \in Values /\ Offsets \subseteq Nat /\ 0 \in Offsets
        /\ \A i \in DOMAIN c.bytes : c.offset + i - 1 \in Offsets
        /\ c.kind \in {"read", "write"} => Len(c.bytes) = 1
    BY LaiEcAssumption
  <1>1. c.kind \in Kinds /\ c.bytes \in Seq(Values) /\ c.offset \in Offsets
    <2>1. CASE c \in [kind : {"read", "write", "get", "put"}, offset : Offsets, bytes : Seq(Values)]
      BY <2>1 DEF Kinds
    <2>2. CASE c = [kind |-> "query", offset |-> 0, bytes |-> <<0>>]
      <3>1. <<0>> \in Seq(Values)
        BY <1>0
      <3>2. QED
        BY <1>0, <2>2, <3>1 DEF Kinds
    <2>3. QED
      BY <1>0, <2>1, <2>2 DEF AllCalls
  <1>2. Len(c.bytes) \in Nat \ {0} /\ DOMAIN c.bytes = 1..Len(c.bytes)
    BY <1>0, <1>1
  <1>3. \A i \in 1..Len(c.bytes) : c.bytes[i] \in Values
    BY <1>1
  <1>4. c # NoCall
    BY <1>1 DEF NoCall, Kinds
  <1>5. QED
    BY <1>0, <1>1, <1>2, <1>3, <1>4

(* The same of the call in progress.                                       *)
LEMMA CallFacts ==
  ASSUME EcTypes, ecCall # NoCall
  PROVE  /\ ecCall \in EcCalls /\ ecCall.kind \in Kinds /\ Size \in Nat \ {0} /\ ecCall.offset \in Nat
         /\ \A m \in 1..Size : /\ ecCall.offset + m - 1 \in Offsets /\ ecCall.bytes[m] \in Values
                               /\ order[m] \in 1..Size /\ Where(m) \in Offsets
         /\ \A i \in 1..Size : \E m \in 1..Size : order[m] = i
         /\ ecCall.kind # "get" => \A m \in 1..Size : order[m] = m /\ Where(m) = ecCall.offset + m - 1
         /\ ecCall.kind \in {"read", "write"} => Size = 1
PROOF
  <1>1. ecCall \in EcCalls /\ order \in Orders(Size) /\ (ecCall.kind # "get" => order = InOrder(Size))
    BY DEF EcTypes
  <1>2. /\ ecCall.kind \in Kinds /\ Size \in Nat \ {0} /\ ecCall.offset \in Nat
        /\ \A i \in 1..Size : ecCall.offset + i - 1 \in Offsets /\ ecCall.bytes[i] \in Values
        /\ ecCall.kind \in {"read", "write"} => Size = 1
    BY <1>1, CallIs DEF Size
  <1>3. /\ \A m \in 1..Size : order[m] \in 1..Size
        /\ \A i \in 1..Size : \E m \in 1..Size : order[m] = i
    BY <1>1 DEF Orders
  <1>4. \A m \in 1..Size : Where(m) \in Offsets
    BY <1>2, <1>3 DEF Where
  <1>5. ecCall.kind # "get" => \A m \in 1..Size : order[m] = m /\ Where(m) = ecCall.offset + m - 1
    BY <1>1 DEF InOrder, Where
  <1>6. QED
    BY <1>1, <1>2, <1>3, <1>4, <1>5

(* An access of the driver's functions.                                    *)
PortAccess ==
  [op : {"in", "ibf", "obf", "ack", "calm"}, arg : Nat] \cup [op : {"cmd"}, arg : Commands]
  \cup [op : {"data"}, arg : Offsets \cup Values]

(* The accesses that enter and leave burst mode.                           *)

LEMMA Scripts ==
  /\ enable_burst \in Seq(PortAccess) /\ Len(enable_burst) = 3
  /\ enable_burst[1] = Cmd(BURST_ENABLE) /\ enable_burst[2] = poll_obf /\ enable_burst[3] = read_ack
  /\ disable_burst \in Seq(PortAccess) /\ Len(disable_burst) = 3
  /\ disable_burst[1] = poll_ibf /\ disable_burst[2] = Cmd(BURST_DISABLE) /\ disable_burst[3] = poll_burst
PROOF
  <1>1. /\ Cmd(BURST_ENABLE) \in PortAccess /\ poll_obf \in PortAccess /\ read_ack \in PortAccess
        /\ poll_ibf \in PortAccess /\ Cmd(BURST_DISABLE) \in PortAccess /\ poll_burst \in PortAccess
    BY DEF PortAccess, Cmd, poll_obf, read_ack, poll_ibf, poll_burst, Commands
  <1>2. QED
    BY <1>1 DEF enable_burst, disable_burst

(* The elements of two sequences, one after the other.                     *)
Follows(r, s, t) ==
  /\ r \in Seq(PortAccess) /\ Len(r) = Len(s) + Len(t)
  /\ \A j \in 1..Len(s) : r[j] = s[j]
  /\ \A j \in 1..Len(t) : r[Len(s) + j] = t[j]
LEMMA Joined == ASSUME NEW s \in Seq(PortAccess), NEW t \in Seq(PortAccess) PROVE Follows(s \o t, s, t)
  BY DEF Follows

(* A sequence between enable_burst and disable_burst.                      *)
LEMMA Between ==
  ASSUME NEW s \in Seq(PortAccess)
  PROVE  LET all == enable_burst \o s \o disable_burst
         IN  /\ all \in Seq(PortAccess) /\ Len(all) = Len(s) + 6
             /\ all[1] = Cmd(BURST_ENABLE) /\ all[2] = poll_obf /\ all[3] = read_ack
             /\ \A j \in 1..Len(s) : all[3 + j] = s[j]
             /\ all[3 + Len(s) + 1] = poll_ibf /\ all[3 + Len(s) + 2] = Cmd(BURST_DISABLE)
             /\ all[3 + Len(s) + 3] = poll_burst
PROOF
  <1> DEFINE first == enable_burst \o s
             all == first \o disable_burst
             n == Len(s)
  <1>a. Follows(first, enable_burst, s)
    BY Joined, Scripts
  <1>1. first \in Seq(PortAccess) /\ Len(first) = n + 3 /\ n \in Nat
    BY <1>a, Scripts DEF Follows
  <1>2. /\ \A j \in 1..3 : first[j] = enable_burst[j]
        /\ \A j \in 1..n : first[3 + j] = s[j]
    BY <1>a, Scripts DEF Follows
  <1> HIDE DEF first
  <1>b. Follows(all, first, disable_burst)
    BY <1>1, Joined, Scripts
  <1>3. all \in Seq(PortAccess) /\ Len(all) = n + 6
    BY <1>1, <1>b, Scripts DEF Follows
  <1>4. \A j \in 1..(n + 3) : all[j] = first[j]
    BY <1>1, <1>b DEF Follows
  <1>5. \A j \in 1..3 : all[(n + 3) + j] = disable_burst[j]
    BY <1>1, <1>b, Scripts DEF Follows
  <1> HIDE DEF all
  <1>6. all[1] = Cmd(BURST_ENABLE) /\ all[2] = poll_obf /\ all[3] = read_ack
    BY <1>1, <1>2, <1>4, Scripts
  <1>7. \A j \in 1..n : all[3 + j] = s[j]
    BY <1>1, <1>2, <1>4
  <1>8. all[3 + n + 1] = poll_ibf /\ all[3 + n + 2] = Cmd(BURST_DISABLE) /\ all[3 + n + 3] = poll_burst
    <2>1. 3 + n + 1 = (n + 3) + 1 /\ 3 + n + 2 = (n + 3) + 2 /\ 3 + n + 3 = (n + 3) + 3
      BY <1>1
    <2>2. QED
      BY <1>5, <2>1, Scripts
  <1>9. QED
    BY <1>3, <1>6, <1>7, <1>8 DEF all, first
(* Access j is the i-th one of the m-th byte.                              *)
LEMMA PlaceIs ==
  ASSUME NEW m \in Nat \ {0}, NEW i \in 1..6
  PROVE  Nth(6 * (m - 1) + i) = m /\ Place(6 * (m - 1) + i) = i
  BY DEF Nth, Place

(* The accesses of one byte.                                               *)
LEMMA ReadAccesses ==
  ASSUME NEW o \in Offsets, NEW b \in Nat
  PROVE  /\ lai_read_ec(o, b) \in Seq(PortAccess) /\ Len(lai_read_ec(o, b)) = 6
         /\ lai_read_ec(o, b)[1] = poll_ibf /\ lai_read_ec(o, b)[2] = Cmd(READ) /\ lai_read_ec(o, b)[3] = poll_ibf
         /\ lai_read_ec(o, b)[4] = Data(o) /\ lai_read_ec(o, b)[5] = poll_obf /\ lai_read_ec(o, b)[6] = In(b)
PROOF
  <1>1. Cmd(READ) \in PortAccess /\ poll_obf \in PortAccess /\ poll_ibf \in PortAccess /\ Data(o) \in PortAccess /\ In(b) \in PortAccess
    BY DEF PortAccess, Cmd, Data, In, poll_obf, poll_ibf, Commands
  <1>2. QED
    BY <1>1 DEF lai_read_ec

(* The accesses of one byte that is written.                               *)
LEMMA WriteAccesses ==
  ASSUME NEW o \in Offsets, NEW b \in Values
  PROVE  /\ lai_write_ec(o, b) \in Seq(PortAccess) /\ Len(lai_write_ec(o, b)) = 6
         /\ lai_write_ec(o, b)[1] = poll_ibf /\ lai_write_ec(o, b)[2] = Cmd(WRITE) /\ lai_write_ec(o, b)[3] = poll_ibf
         /\ lai_write_ec(o, b)[4] = Data(o) /\ lai_write_ec(o, b)[5] = poll_ibf /\ lai_write_ec(o, b)[6] = Data(b)
PROOF
  <1>1. Cmd(WRITE) \in PortAccess /\ poll_ibf \in PortAccess /\ Data(o) \in PortAccess /\ Data(b) \in PortAccess
    BY DEF PortAccess, Cmd, Data, poll_ibf, Commands
  <1>2. QED
    BY <1>1 DEF lai_write_ec

(* Access k of the call is a.                                              *)
TodoIs(k, a) == k \in 1..Len(ecTodo) /\ ecTodo[k] = a
ByteAccess(m, i) == IF Reading THEN lai_read_ec(Where(m), order[m])[i] ELSE lai_write_ec(Where(m), ecCall.bytes[m])[i]

(* The accesses of a call that reads or writes in burst mode.              *)
LEMMA BurstAccesses ==
  ASSUME EcTypes, ecCall # NoCall, Known, ecCall.kind \in {"get", "put"}
  PROVE  /\ ecTodo \in Seq(PortAccess) /\ Len(ecTodo) = 6 * Size + 6
         /\ TodoIs(1, Cmd(BURST_ENABLE)) /\ TodoIs(2, poll_obf) /\ TodoIs(3, read_ack)
         /\ \A m \in 1..Size, i \in 1..6 : TodoIs(3 + 6 * (m - 1) + i, ByteAccess(m, i))
         /\ TodoIs(3 + 6 * Size + 1, poll_ibf) /\ TodoIs(3 + 6 * Size + 2, Cmd(BURST_DISABLE))
         /\ TodoIs(3 + 6 * Size + 3, poll_burst)
PROOF
  <1> DEFINE n == Size
             access(j) == IF ecCall.kind = "get" THEN lai_read_ec(ecCall.offset + order[Nth(j)] - 1, order[Nth(j)])[Place(j)]
                          ELSE lai_write_ec(ecCall.offset + Nth(j) - 1, ecCall.bytes[Nth(j)])[Place(j)]
             s == [j \in 1..(6 * n) |-> access(j)]
  <1>1. ecTodo = enable_burst \o s \o disable_burst
    <2>1. ecTodo = Accesses(ecCall, order)
      BY DEF EcTypes
    <2>2. CASE ecCall.kind = "get"
      BY <2>1, <2>2 DEF Accesses, readn, Size
    <2>3. CASE ecCall.kind = "put"
      BY <2>1, <2>3 DEF Accesses, writen, Size
    <2>4. QED
      BY <2>2, <2>3
  <1>2. n \in Nat \ {0}
    BY CallFacts
  <1>3. ASSUME NEW j \in 1..(6 * n) PROVE Nth(j) \in 1..n /\ Place(j) \in 1..6
    BY <1>2 DEF Nth, Place
  <1>4. \A m \in 1..n : /\ ecCall.offset + order[m] - 1 \in Offsets /\ order[m] \in Nat
                        /\ ecCall.offset + m - 1 \in Offsets /\ ecCall.bytes[m] \in Values
    <2> TAKE m \in 1..n
    <2>1. /\ ecCall.offset + m - 1 \in Offsets /\ ecCall.bytes[m] \in Values
          /\ order[m] \in 1..Size /\ Where(m) \in Offsets
      BY CallFacts
    <2>2. order[m] \in Nat
      BY <1>2, <2>1
    <2>3. QED
      BY <2>1, <2>2 DEF Where
  <1>5. ASSUME NEW j \in 1..(6 * n) PROVE access(j) \in PortAccess
    <2>1. CASE ecCall.kind = "get"
      <3>1. access(j) = lai_read_ec(ecCall.offset + order[Nth(j)] - 1, order[Nth(j)])[Place(j)]
        BY <2>1
      <3> DEFINE o == ecCall.offset + order[Nth(j)] - 1
                 b == order[Nth(j)]
      <3>2. o \in Offsets /\ b \in Nat
        BY <1>3, <1>4
      <3> HIDE DEF o, b, access
      <3>3. lai_read_ec(o, b) \in Seq(PortAccess) /\ Len(lai_read_ec(o, b)) = 6
        BY <3>2, ReadAccesses
      <3>4. lai_read_ec(o, b)[Place(j)] \in PortAccess
        <4> DEFINE q == lai_read_ec(o, b)
                   i == Place(j)
        <4>1. i \in 1..6
          BY <1>3
        <4>2. q \in Seq(PortAccess) /\ Len(q) = 6
          BY <3>3
        <4> HIDE DEF q, i
        <4>3. q[i] \in PortAccess
          BY <4>1, <4>2, ElementOfSeq
        <4>4. QED
          BY <4>3 DEF q, i
      <3>5. QED
        BY <3>1, <3>4 DEF o, b
    <2>2. CASE ecCall.kind = "put"
      <3>1. access(j) = lai_write_ec(ecCall.offset + Nth(j) - 1, ecCall.bytes[Nth(j)])[Place(j)]
        BY <2>2
      <3> DEFINE o == ecCall.offset + Nth(j) - 1
                 b == ecCall.bytes[Nth(j)]
      <3>2. o \in Offsets /\ b \in Values
        BY <1>3, <1>4
      <3> HIDE DEF o, b, access
      <3>3. lai_write_ec(o, b) \in Seq(PortAccess) /\ Len(lai_write_ec(o, b)) = 6
        BY <3>2, WriteAccesses
      <3>4. lai_write_ec(o, b)[Place(j)] \in PortAccess
        <4> DEFINE q == lai_write_ec(o, b)
                   i == Place(j)
        <4>1. i \in 1..6
          BY <1>3
        <4>2. q \in Seq(PortAccess) /\ Len(q) = 6
          BY <3>3
        <4> HIDE DEF q, i
        <4>3. q[i] \in PortAccess
          BY <4>1, <4>2, ElementOfSeq
        <4>4. QED
          BY <4>3 DEF q, i
      <3>5. QED
        BY <3>1, <3>4 DEF o, b
    <2>3. QED
      BY <2>1, <2>2
  <1>6. ASSUME NEW m \in 1..n, NEW i \in 1..6 PROVE access(6 * (m - 1) + i) = ByteAccess(m, i)
    <2>1. Nth(6 * (m - 1) + i) = m /\ Place(6 * (m - 1) + i) = i
      <3>1. m \in Nat \ {0}
        BY <1>2
      <3>2. QED
        BY <3>1, PlaceIs
    <2>2. CASE ecCall.kind = "get"
      BY <2>1, <2>2 DEF ByteAccess, Reading, Where
    <2>3. CASE ecCall.kind = "put"
      <3>1. Where(m) = ecCall.offset + m - 1
        BY <2>3, CallFacts
      <3>2. QED
        BY <2>1, <2>3, <3>1 DEF ByteAccess, Reading
    <2>4. QED
      BY <2>2, <2>3
  <1> HIDE DEF access
  <1>7. s \in Seq(PortAccess) /\ Len(s) = 6 * n /\ \A j \in 1..(6 * n) : s[j] = access(j)
    BY <1>2, <1>5
  <1> HIDE DEF s
  <1>8. /\ ecTodo \in Seq(PortAccess) /\ Len(ecTodo) = 6 * n + 6
        /\ ecTodo[1] = Cmd(BURST_ENABLE) /\ ecTodo[2] = poll_obf /\ ecTodo[3] = read_ack
        /\ \A j \in 1..(6 * n) : ecTodo[3 + j] = s[j]
        /\ ecTodo[3 + 6 * n + 1] = poll_ibf /\ ecTodo[3 + 6 * n + 2] = Cmd(BURST_DISABLE)
        /\ ecTodo[3 + 6 * n + 3] = poll_burst
    BY <1>1, <1>7, Between
  <1>9. ASSUME NEW m \in 1..n, NEW i \in 1..6 PROVE TodoIs(3 + 6 * (m - 1) + i, ByteAccess(m, i))
    <2> DEFINE j == 6 * (m - 1) + i
    <2>1. j \in 1..(6 * n) /\ 3 + j \in 1..(6 * n + 6) /\ 3 + 6 * (m - 1) + i = 3 + j
      BY ONLY <1>2, m \in 1..n, i \in 1..6
    <2>2. s[j] = ByteAccess(m, i)
      BY <2>1, <1>6, <1>7
    <2> HIDE DEF j
    <2>3. QED
      BY <1>8, <2>1, <2>2 DEF TodoIs
  <1>10. QED
    BY <1>2, <1>8, <1>9 DEF TodoIs

(* The accesses of a call that reads or writes a byte.                     *)
LEMMA SingleAccesses ==
  ASSUME EcTypes, ecCall # NoCall, Known, ecCall.kind \in {"read", "write"}
  PROVE  /\ ecTodo \in Seq(PortAccess) /\ Len(ecTodo) = 6
         /\ \A i \in 1..6 : TodoIs(i, ByteAccess(1, i))
PROOF
  <1>1. ecTodo = Accesses(ecCall, order)
    BY DEF EcTypes
  <1>2. /\ order[1] = 1 /\ Where(1) = ecCall.offset /\ ecCall.offset \in Offsets /\ ecCall.bytes[1] \in Values
    <2>1. Size = 1 /\ ecCall.kind # "get" /\ ecCall.offset \in Nat
      BY CallFacts
    <2>2. 1 \in 1..Size /\ 1 \in 1..1
      BY <2>1
    <2>3. order[1] = 1 /\ Where(1) = ecCall.offset + 1 - 1 /\ Where(1) \in Offsets /\ ecCall.bytes[1] \in Values
      BY <2>1, <2>2, CallFacts
    <2>4. QED
      BY <2>1, <2>3
  <1>3. CASE ecCall.kind = "read"
    <2>1. ecTodo = lai_read_ec(ecCall.offset, 1) /\ \A i \in 1..6 : ByteAccess(1, i) = ecTodo[i]
      BY <1>1, <1>2, <1>3 DEF Accesses, ByteAccess, Reading
    <2>2. ecTodo \in Seq(PortAccess) /\ Len(ecTodo) = 6
      BY <1>2, <2>1, ReadAccesses
    <2>3. QED
      BY <2>1, <2>2 DEF TodoIs
  <1>4. CASE ecCall.kind = "write"
    <2>1. ecTodo = lai_write_ec(ecCall.offset, ecCall.bytes[1]) /\ \A i \in 1..6 : ByteAccess(1, i) = ecTodo[i]
      BY <1>1, <1>2, <1>4 DEF Accesses, ByteAccess, Reading
    <2>2. ecTodo \in Seq(PortAccess) /\ Len(ecTodo) = 6
      BY <1>2, <2>1, WriteAccesses
    <2>3. QED
      BY <2>1, <2>2 DEF TodoIs
  <1>5. QED
    BY <1>3, <1>4

(* The accesses of a query.                                                *)
LEMMA QueryAccesses ==
  ASSUME EcTypes, ecCall # NoCall, Known, ecCall.kind = "query"
  PROVE  /\ ecTodo \in Seq(PortAccess) /\ Len(ecTodo) = 9
         /\ TodoIs(1, Cmd(BURST_ENABLE)) /\ TodoIs(2, poll_obf) /\ TodoIs(3, read_ack)
         /\ TodoIs(4, Cmd(QUERY)) /\ TodoIs(5, poll_obf) /\ TodoIs(6, poll_ibf)
         /\ TodoIs(7, Cmd(BURST_DISABLE)) /\ TodoIs(8, poll_burst) /\ TodoIs(9, In(1))
PROOF
  <1> DEFINE s == <<Cmd(QUERY), poll_obf>>
             all == enable_burst \o s \o disable_burst
             last == <<In(1)>>
  <1>1. ecTodo = all \o last
    BY DEF EcTypes, Accesses, lai_query_ec
  <1>2. Cmd(QUERY) \in PortAccess /\ poll_obf \in PortAccess /\ In(1) \in PortAccess
    BY DEF PortAccess, Cmd, In, poll_obf, Commands
  <1>3. s \in Seq(PortAccess) /\ Len(s) = 2 /\ s[1] = Cmd(QUERY) /\ s[2] = poll_obf
    BY <1>2
  <1>4. last \in Seq(PortAccess) /\ Len(last) = 1 /\ last[1] = In(1)
    BY <1>2
  <1> HIDE DEF s, last
  <1>5. /\ all \in Seq(PortAccess) /\ Len(all) = 8
        /\ all[1] = Cmd(BURST_ENABLE) /\ all[2] = poll_obf /\ all[3] = read_ack
        /\ all[4] = Cmd(QUERY) /\ all[5] = poll_obf
        /\ all[6] = poll_ibf /\ all[7] = Cmd(BURST_DISABLE) /\ all[8] = poll_burst
    <2>1. /\ all \in Seq(PortAccess) /\ Len(all) = 2 + 6
          /\ all[1] = Cmd(BURST_ENABLE) /\ all[2] = poll_obf /\ all[3] = read_ack
          /\ \A j \in 1..2 : all[3 + j] = s[j]
          /\ all[3 + 2 + 1] = poll_ibf /\ all[3 + 2 + 2] = Cmd(BURST_DISABLE) /\ all[3 + 2 + 3] = poll_burst
      BY <1>3, Between
    <2> HIDE DEF all
    <2>2. all[3 + 1] = Cmd(QUERY) /\ all[3 + 2] = poll_obf
      BY <1>3, <2>1
    <2>3. QED
      BY <2>1, <2>2
  <1> HIDE DEF all
  <1>6. Follows(ecTodo, all, last)
    BY <1>1, <1>4, <1>5, Joined
  <1>7. ecTodo \in Seq(PortAccess) /\ Len(ecTodo) = 9 /\ (\A j \in 1..8 : ecTodo[j] = all[j]) /\ ecTodo[9] = In(1)
    BY <1>4, <1>5, <1>6 DEF Follows
  <1>8. QED
    BY <1>5, <1>7 DEF TodoIs

-----------------------------------------------------------------------------
(* The first byte of a buffer.                                             *)
FirstOf(buffer) == buffer[1]

(* The bytes of the two ports are told apart.                              *)
LEMMA Distinct ==
  /\ \A x, y : InCmd(x) # InData(y)
  /\ \A x : InCmd(x) # <<>> /\ InData(x) # <<>>
  /\ \A x, y : InCmd(x) = InCmd(y) => x = y
  /\ \A x, y : InData(x) = InData(y) => x = y
PROOF
  <1>1. \A x : FirstOf(InCmd(x)).port = 2 /\ FirstOf(InCmd(x)).byte = x
    BY DEF InCmd, FirstOf, EcCmd
  <1>2. \A x : FirstOf(InData(x)).port = 1 /\ FirstOf(InData(x)).byte = x
    BY DEF InData, FirstOf, EcData
  <1>3. \A x : Len(InCmd(x)) = 1 /\ Len(InData(x)) = 1
    BY DEF InCmd, InData
  <1>4. \A x, y : InCmd(x) # InData(y)
    BY <1>1, <1>2
  <1>5. \A x : InCmd(x) # <<>> /\ InData(x) # <<>>
    BY <1>3
  <1>6. ASSUME NEW x, NEW y, InCmd(x) = InCmd(y) PROVE x = y
    <2>1. FirstOf(InCmd(x)).byte = x
      BY <1>1, Zenon
    <2>2. FirstOf(InCmd(y)).byte = y
      BY <1>1, Zenon
    <2>3. QED
      BY <2>1, <2>2, <1>6
  <1>7. ASSUME NEW x, NEW y, InData(x) = InData(y) PROVE x = y
    <2>1. FirstOf(InData(x)).byte = x
      BY <1>2, Zenon
    <2>2. FirstOf(InData(y)).byte = y
      BY <1>2, Zenon
    <2>3. QED
      BY <2>1, <2>2, <1>7
  <1>8. QED
    BY <1>4, <1>5, <1>6, <1>7

(* And so are the commands.                                                *)
LEMMA CommandsDistinct ==
  /\ InCmd(READ) # InCmd(WRITE) /\ InCmd(READ) # InCmd(BURST_ENABLE) /\ InCmd(READ) # InCmd(BURST_DISABLE) /\ InCmd(READ) # InCmd(QUERY)
  /\ InCmd(WRITE) # InCmd(BURST_ENABLE) /\ InCmd(WRITE) # InCmd(BURST_DISABLE) /\ InCmd(WRITE) # InCmd(QUERY)
  /\ InCmd(BURST_ENABLE) # InCmd(BURST_DISABLE) /\ InCmd(BURST_ENABLE) # InCmd(QUERY)
  /\ InCmd(BURST_DISABLE) # InCmd(QUERY)
PROOF
  <1>1. /\ READ # WRITE /\ READ # BURST_ENABLE /\ READ # BURST_DISABLE /\ READ # QUERY
        /\ WRITE # BURST_ENABLE /\ WRITE # BURST_DISABLE /\ WRITE # QUERY
        /\ BURST_ENABLE # BURST_DISABLE /\ BURST_ENABLE # QUERY /\ BURST_DISABLE # QUERY
    BY DEF READ, WRITE, BURST_ENABLE, BURST_DISABLE, QUERY
  <1>2. \A x, y : x # y => InCmd(x) # InCmd(y)
    BY Distinct
  <1>3. QED
    BY <1>1, <1>2

(* The driver sends bytes to an empty buffer: controller e becomes f.      *)
Inside(e, f) == f.expect = e.expect /\ f.addr = e.addr /\ f.mem = e.mem
Sends(e, f, bytes) == e.ibf = <<>> /\ f.ibf = bytes /\ f.obf = e.obf /\ f.burst = e.burst /\ Inside(e, f)
(* The driver takes the output.                                            *)
Empties(e, f) == f.ibf = e.ibf /\ f.obf = <<>> /\ f.burst = e.burst /\ Inside(e, f)
(* The controller leaves burst mode, or does nothing of the kind.          *)
Calms(e, f, lost, lost2) ==
  /\ f.ibf = e.ibf /\ f.obf = e.obf /\ Inside(e, f)
  /\ (f.burst = e.burst /\ lost2 = lost) \/ (f.burst = FALSE /\ lost2 = TRUE)

(* The controller takes the byte it was sent.                              *)
Quietly(e, f, lost, lost2, t, t2) == f.burst = e.burst /\ lost2 = lost /\ t2 = t
ObeysRead(e, f, lost, lost2, t, t2) ==
  e.ibf = InCmd(READ) => f.obf = e.obf /\ f.mem = e.mem /\ f.expect = "readAt" /\ Quietly(e, f, lost, lost2, t, t2)
ObeysWrite(e, f, lost, lost2, t, t2) ==
  e.ibf = InCmd(WRITE) => f.obf = e.obf /\ f.mem = e.mem /\ f.expect = "writeAt" /\ Quietly(e, f, lost, lost2, t, t2)
ObeysEnable(e, f, lost, lost2, t, t2) ==
  e.ibf = InCmd(BURST_ENABLE) => f.obf = <<Ack>> /\ f.mem = e.mem /\ f.expect = "command" /\ Holds(f, lost2) /\ t2 = t
ObeysDisable(e, f, lost, lost2, t, t2) ==
  e.ibf = InCmd(BURST_DISABLE) => f.obf = e.obf /\ f.mem = e.mem /\ f.expect = "command" /\ ~f.burst /\ lost2 = lost /\ t2 = t
ObeysQuery(e, f, lost, lost2, t, t2) ==
  e.ibf = InCmd(QUERY) => f.obf = <<t2>> /\ f.mem = e.mem /\ f.expect = "command" /\ f.burst = e.burst /\ lost2 = lost
ObeysData(e, f, lost, lost2, t, t2) ==
  \A b : e.ibf = InData(b) =>
    /\ Quietly(e, f, lost, lost2, t, t2)
    /\ e.expect = "readAt" /\ b \in Offsets => f.obf = <<e.mem[b]>> /\ f.mem = e.mem /\ f.expect = "command"
    /\ e.expect = "writeAt" /\ b \in Offsets => f.obf = e.obf /\ f.mem = e.mem /\ f.expect = "value" /\ f.addr = b
    /\ e.expect = "value" /\ b \in Values => f.obf = e.obf /\ f.mem = [e.mem EXCEPT ![e.addr] = b] /\ f.expect = "command"
Obeys(e, f, lost, lost2, t, t2) ==
  /\ e.ibf # <<>> /\ f.ibf = <<>>
  /\ ObeysRead(e, f, lost, lost2, t, t2) /\ ObeysWrite(e, f, lost, lost2, t, t2) /\ ObeysEnable(e, f, lost, lost2, t, t2)
  /\ ObeysDisable(e, f, lost, lost2, t, t2) /\ ObeysQuery(e, f, lost, lost2, t, t2) /\ ObeysData(e, f, lost, lost2, t, t2)

(* The controller keeps every stage.                                       *)
LEMMA ObeyingReads ==
  ASSUME NEW e, NEW f, NEW lost, NEW lost2, NEW t, NEW t2, Obeys(e, f, lost, lost2, t, t2),
         NEW i \in 1..6, NEW o \in Offsets, NEW mem, ReadStage(e, i, o, mem)
  PROVE  ReadStage(f, i, o, mem) /\ Quietly(e, f, lost, lost2, t, t2)
PROOF
  <1>1. e.ibf # <<>> /\ f.ibf = <<>> /\ ObeysRead(e, f, lost, lost2, t, t2) /\ ObeysData(e, f, lost, lost2, t, t2)
    BY DEF Obeys
  <1>2. CASE i \in {1, 2, 4, 6}
    BY <1>1, <1>2 DEF ReadStage, Rests, EcHas
  <1>3. CASE i = 3
    BY <1>1, <1>3 DEF ReadStage, EcHas, ObeysRead
  <1>4. CASE i = 5
    <2>1. EcHas(e, InData(o), <<>>, "readAt", mem)
      BY <1>1, <1>4 DEF ReadStage, EcHas
    <2>2. f.obf = <<e.mem[o]>> /\ f.mem = e.mem /\ f.expect = "command" /\ Quietly(e, f, lost, lost2, t, t2)
      BY <1>1, <2>1 DEF EcHas, ObeysData
    <2>3. EcHas(f, <<>>, <<mem[o]>>, "command", mem)
      BY <1>1, <2>1, <2>2 DEF EcHas
    <2>4. QED
      BY <1>4, <2>2, <2>3 DEF ReadStage
  <1>5. QED
    BY <1>2, <1>3, <1>4

(* A value the controller has still to take reaches the memory.            *)
LEMMA ObeyingSettles ==
  ASSUME NEW e, NEW f, NEW lost, NEW lost2, NEW t, NEW t2, Obeys(e, f, lost, lost2, t, t2),
         NEW mem, Settles(e, mem)
  PROVE  Settles(f, mem) /\ Quietly(e, f, lost, lost2, t, t2)
PROOF
  <1>1. e.ibf # <<>> /\ f.ibf = <<>> /\ ObeysData(e, f, lost, lost2, t, t2)
    BY DEF Obeys
  <1>2. PICK v \in Values : EcHas(e, InData(v), <<>>, "value", e.mem) /\ mem = [e.mem EXCEPT ![e.addr] = v]
    BY <1>1 DEF Settles, Rests, EcHas
  <1>3. f.obf = <<>> /\ f.mem = mem /\ f.expect = "command" /\ Quietly(e, f, lost, lost2, t, t2)
    BY <1>1, <1>2 DEF EcHas, ObeysData
  <1>4. QED
    BY <1>1, <1>3 DEF Settles, Rests, EcHas

(* The same of the stages of a write,                                      *)
LEMMA ObeyingWrites ==
  ASSUME NEW e, NEW f, NEW lost, NEW lost2, NEW t, NEW t2, Obeys(e, f, lost, lost2, t, t2),
         NEW i \in 1..6, NEW o \in Offsets, NEW mem, WriteStage(e, i, o, mem)
  PROVE  WriteStage(f, i, o, mem) /\ Quietly(e, f, lost, lost2, t, t2)
PROOF
  <1>1. e.ibf # <<>> /\ f.ibf = <<>> /\ ObeysWrite(e, f, lost, lost2, t, t2) /\ ObeysData(e, f, lost, lost2, t, t2)
    BY DEF Obeys
  <1>2. CASE i \in {2, 4, 6}
    BY <1>1, <1>2 DEF WriteStage, Rests, EcHas
  <1>3. CASE i = 3
    BY <1>1, <1>3 DEF WriteStage, EcHas, ObeysWrite
  <1>4. CASE i = 5
    <2>1. EcHas(e, InData(o), <<>>, "writeAt", mem)
      BY <1>1, <1>4 DEF WriteStage, EcHas
    <2>2. f.obf = e.obf /\ f.mem = e.mem /\ f.expect = "value" /\ f.addr = o /\ Quietly(e, f, lost, lost2, t, t2)
      BY <1>1, <2>1 DEF EcHas, ObeysData
    <2>3. EcHas(f, <<>>, <<>>, "value", mem) /\ f.addr = o
      BY <1>1, <2>1, <2>2 DEF EcHas
    <2>4. QED
      BY <1>4, <2>2, <2>3 DEF WriteStage
  <1>5. CASE i = 1
    BY <1>5, ObeyingSettles DEF WriteStage
  <1>6. QED
    BY <1>2, <1>3, <1>4, <1>5

(* ... of those that enter burst mode,                                     *)
LEMMA ObeyingEnables ==
  ASSUME NEW e, NEW f, NEW lost, NEW lost2, NEW t, NEW t2, Obeys(e, f, lost, lost2, t, t2),
         NEW i \in 1..3, NEW mem, EnableStage(e, lost, i, mem)
  PROVE  EnableStage(f, lost2, i, mem) /\ t2 = t
PROOF
  <1>1. e.ibf # <<>> /\ f.ibf = <<>> /\ ObeysEnable(e, f, lost, lost2, t, t2)
    BY DEF Obeys
  <1>2. i = 2 /\ EcHas(e, InCmd(BURST_ENABLE), <<>>, "command", mem)
    BY <1>1 DEF EnableStage, Rests, EcHas
  <1>3. QED
    BY <1>1, <1>2 DEF EnableStage, EcHas, ObeysEnable

(* ... of those that leave it,                                             *)
LEMMA ObeyingDisables ==
  ASSUME NEW e, NEW f, NEW lost, NEW lost2, NEW t, NEW t2, Obeys(e, f, lost, lost2, t, t2),
         NEW i \in 2..4, NEW out, NEW mem, DisableStage(e, lost, i, out, mem)
  PROVE  DisableStage(f, lost2, i, out, mem) /\ t2 = t
PROOF
  <1>1. e.ibf # <<>> /\ f.ibf = <<>> /\ ObeysDisable(e, f, lost, lost2, t, t2)
    BY DEF Obeys
  <1>2. i \in {3, 4} /\ EcHas(e, InCmd(BURST_DISABLE), out, "command", mem)
    BY <1>1 DEF DisableStage, EcHas
  <1>3. QED
    BY <1>1, <1>2 DEF DisableStage, EcHas, ObeysDisable

(* ... and of a query.                                                     *)
LEMMA ObeyingQueries ==
  ASSUME NEW e, NEW f, NEW lost, NEW lost2, NEW t, NEW t2, Obeys(e, f, lost, lost2, t, t2),
         NEW k \in 4..10, NEW mem, NEW byte, QueryStage(e, lost, k, t, mem, byte)
  PROVE  QueryStage(f, lost2, k, t2, mem, byte)
PROOF
  <1>1. e.ibf # <<>> /\ f.ibf = <<>> /\ ObeysQuery(e, f, lost, lost2, t, t2)
    BY DEF Obeys
  <1>2. CASE k \in {4, 6}
    BY <1>1, <1>2 DEF QueryStage, Rests, EcHas
  <1>3. CASE k = 5
    BY <1>1, <1>3 DEF QueryStage, EcHas, ObeysQuery, Holds
  <1>4. CASE k \in {7, 8, 9}
    <2>1. k - 5 \in 2..4 /\ DisableStage(e, lost, k - 5, <<t>>, mem)
      BY <1>4 DEF QueryStage
    <2>2. DisableStage(f, lost2, k - 5, <<t>>, mem) /\ t2 = t
      BY <2>1, ObeyingDisables
    <2>3. QED
      BY <1>4, <2>2 DEF QueryStage
  <1>5. CASE k = 10
    <2>1. DisableStage(e, lost, 4, <<>>, mem) /\ byte = t
      BY <1>5 DEF QueryStage
    <2>2. DisableStage(f, lost2, 4, <<>>, mem) /\ t2 = t
      BY <2>1, ObeyingDisables
    <2>3. QED
      BY <1>5, <2>1, <2>2 DEF QueryStage
  <1>6. QED
    BY <1>2, <1>3, <1>4, <1>5

(* A controller that leaves burst mode by itself keeps every stage.        *)
LEMMA CalmingUnits ==
  ASSUME NEW e, NEW f, NEW lost, NEW lost2, Calms(e, f, lost, lost2), NEW i, NEW o, NEW mem
  PROVE  /\ ReadStage(e, i, o, mem) => ReadStage(f, i, o, mem)
         /\ WriteStage(e, i, o, mem) => WriteStage(f, i, o, mem)
         /\ Settles(e, mem) => Settles(f, mem)
         /\ Holds(e, lost) => Holds(f, lost2)
         /\ ~e.burst => ~f.burst
PROOF
  <1>1. f.ibf = e.ibf /\ f.obf = e.obf /\ f.expect = e.expect /\ f.addr = e.addr /\ f.mem = e.mem
    BY DEF Calms, Inside
  <1>2. \A ibf, obf, expect, m : EcHas(e, ibf, obf, expect, m) => EcHas(f, ibf, obf, expect, m)
    BY <1>1 DEF EcHas
  <1>3. Settles(e, mem) => Settles(f, mem)
    BY <1>1, <1>2 DEF Settles, Rests
  <1>4. ReadStage(e, i, o, mem) => ReadStage(f, i, o, mem)
    BY <1>2 DEF ReadStage, Rests
  <1>5. WriteStage(e, i, o, mem) => WriteStage(f, i, o, mem)
    BY <1>1, <1>2, <1>3 DEF WriteStage, Rests
  <1>6. (Holds(e, lost) => Holds(f, lost2)) /\ (~e.burst => ~f.burst)
    BY DEF Calms, Holds
  <1>7. QED
    BY <1>3, <1>4, <1>5, <1>6

(* The same of entering and leaving burst mode and of queries.             *)
LEMMA CalmingBursts ==
  ASSUME NEW e, NEW f, NEW lost, NEW lost2, Calms(e, f, lost, lost2), NEW mem
  PROVE  /\ \A i : EnableStage(e, lost, i, mem) => EnableStage(f, lost2, i, mem)
         /\ \A i, out : DisableStage(e, lost, i, out, mem) => DisableStage(f, lost2, i, out, mem)
         /\ \A k, t, byte : QueryStage(e, lost, k, t, mem, byte) => QueryStage(f, lost2, k, t, mem, byte)
PROOF
  <1>1. \A ibf, obf, expect, m : EcHas(e, ibf, obf, expect, m) => EcHas(f, ibf, obf, expect, m)
    BY DEF EcHas, Calms, Inside
  <1>2. /\ Holds(e, lost) => Holds(f, lost2)
        /\ ~e.burst => ~f.burst
        /\ ~e.burst /\ lost => ~f.burst /\ lost2
    BY DEF Calms, Holds
  <1>3. \A i : EnableStage(e, lost, i, mem) => EnableStage(f, lost2, i, mem)
    BY <1>1, <1>2 DEF EnableStage, Rests
  <1>4. \A i, out : DisableStage(e, lost, i, out, mem) => DisableStage(f, lost2, i, out, mem)
    BY <1>1, <1>2 DEF DisableStage
  <1>5. \A k, t, byte : QueryStage(e, lost, k, t, mem, byte) => QueryStage(f, lost2, k, t, mem, byte)
    BY <1>1, <1>2, <1>4 DEF QueryStage, Rests
  <1>6. QED
    BY <1>3, <1>4, <1>5

-----------------------------------------------------------------------------
(* The accesses of the driver lead from stage to stage.                    *)
LEMMA ReadGoesOn ==
  ASSUME NEW e, NEW f, NEW o, NEW mem
  PROVE  /\ ReadStage(e, 1, o, mem) => ReadStage(e, 2, o, mem)
         /\ ReadStage(e, 2, o, mem) /\ Sends(e, f, InCmd(READ)) => ReadStage(f, 3, o, mem)
         /\ ReadStage(e, 3, o, mem) /\ e.ibf = <<>> => ReadStage(e, 4, o, mem)
         /\ ReadStage(e, 4, o, mem) /\ Sends(e, f, InData(o)) => ReadStage(f, 5, o, mem)
         /\ ReadStage(e, 5, o, mem) /\ e.obf # <<>> => ReadStage(e, 6, o, mem)
         /\ ReadStage(e, 6, o, mem) => e.obf = <<mem[o]>>
         /\ ReadStage(e, 6, o, mem) /\ Empties(e, f) => Rests(f, mem)
         /\ \A p : Rests(e, mem) => ReadStage(e, 1, p, mem)
PROOF
  <1>1. ReadStage(e, 1, o, mem) => ReadStage(e, 2, o, mem)
    BY DEF ReadStage
  <1>2. ReadStage(e, 2, o, mem) /\ Sends(e, f, InCmd(READ)) => ReadStage(f, 3, o, mem)
    BY DEF ReadStage, Rests, EcHas, Sends, Inside
  <1>3. ReadStage(e, 3, o, mem) /\ e.ibf = <<>> => ReadStage(e, 4, o, mem)
    BY Distinct DEF ReadStage, EcHas
  <1>4. ReadStage(e, 4, o, mem) /\ Sends(e, f, InData(o)) => ReadStage(f, 5, o, mem)
    BY DEF ReadStage, EcHas, Sends, Inside
  <1>5. ReadStage(e, 5, o, mem) /\ e.obf # <<>> => ReadStage(e, 6, o, mem)
    BY DEF ReadStage, EcHas
  <1>6. ReadStage(e, 6, o, mem) => e.obf = <<mem[o]>>
    BY DEF ReadStage, EcHas
  <1>7. ReadStage(e, 6, o, mem) /\ Empties(e, f) => Rests(f, mem)
    BY DEF ReadStage, EcHas, Empties, Inside, Rests
  <1>8. \A p : Rests(e, mem) => ReadStage(e, 1, p, mem)
    BY DEF ReadStage
  <1>9. QED
    BY <1>1, <1>2, <1>3, <1>4, <1>5, <1>6, <1>7, <1>8

(* The accesses of a write.                                                *)
LEMMA WriteGoesOn ==
  ASSUME NEW e, NEW f, NEW o, NEW mem
  PROVE  /\ WriteStage(e, 1, o, mem) /\ e.ibf = <<>> => WriteStage(e, 2, o, mem)
         /\ WriteStage(e, 2, o, mem) /\ Sends(e, f, InCmd(WRITE)) => WriteStage(f, 3, o, mem)
         /\ WriteStage(e, 3, o, mem) /\ e.ibf = <<>> => WriteStage(e, 4, o, mem)
         /\ WriteStage(e, 4, o, mem) /\ Sends(e, f, InData(o)) => WriteStage(f, 5, o, mem)
         /\ WriteStage(e, 5, o, mem) /\ e.ibf = <<>> => WriteStage(e, 6, o, mem)
         /\ \A v \in Values : WriteStage(e, 6, o, mem) /\ Sends(e, f, InData(v)) => Settles(f, [mem EXCEPT ![o] = v])
         /\ \A p : Settles(e, mem) => WriteStage(e, 1, p, mem)
PROOF
  <1>1. WriteStage(e, 1, o, mem) /\ e.ibf = <<>> => WriteStage(e, 2, o, mem)
    BY Distinct DEF WriteStage, Settles, EcHas
  <1>2. WriteStage(e, 2, o, mem) /\ Sends(e, f, InCmd(WRITE)) => WriteStage(f, 3, o, mem)
    BY DEF WriteStage, Rests, EcHas, Sends, Inside
  <1>3. WriteStage(e, 3, o, mem) /\ e.ibf = <<>> => WriteStage(e, 4, o, mem)
    BY Distinct DEF WriteStage, EcHas
  <1>4. WriteStage(e, 4, o, mem) /\ Sends(e, f, InData(o)) => WriteStage(f, 5, o, mem)
    BY DEF WriteStage, EcHas, Sends, Inside
  <1>5. WriteStage(e, 5, o, mem) /\ e.ibf = <<>> => WriteStage(e, 6, o, mem)
    BY Distinct DEF WriteStage, EcHas
  <1>6. ASSUME NEW v \in Values, WriteStage(e, 6, o, mem), Sends(e, f, InData(v))
        PROVE  Settles(f, [mem EXCEPT ![o] = v])
    <2>1. EcHas(f, InData(v), <<>>, "value", f.mem) /\ f.mem = mem /\ f.addr = o
      BY <1>6 DEF WriteStage, EcHas, Sends, Inside
    <2>2. QED
      BY <2>1 DEF Settles
  <1>7. \A p : Settles(e, mem) => WriteStage(e, 1, p, mem)
    BY DEF WriteStage
  <1>8. QED
    BY <1>1, <1>2, <1>3, <1>4, <1>5, <1>6, <1>7

(* The accesses that enter and leave burst mode.                           *)
LEMMA BurstGoesOn ==
  ASSUME NEW e, NEW f, NEW lost, NEW out, NEW mem
  PROVE  /\ EnableStage(e, lost, 1, mem) /\ Sends(e, f, InCmd(BURST_ENABLE)) => EnableStage(f, lost, 2, mem)
         /\ EnableStage(e, lost, 2, mem) /\ e.obf # <<>> => EnableStage(e, lost, 3, mem)
         /\ EnableStage(e, lost, 3, mem) => e.obf = <<Ack>>
         /\ EnableStage(e, lost, 3, mem) /\ Empties(e, f) => Rests(f, mem) /\ Holds(f, lost)
         /\ DisableStage(e, lost, 2, out, mem) /\ Sends(e, f, InCmd(BURST_DISABLE)) => DisableStage(f, lost, 3, out, mem)
         /\ DisableStage(e, lost, 3, out, mem) /\ ~e.burst => DisableStage(e, lost, 4, out, mem)
         /\ DisableStage(e, lost, 4, out, mem) => e.obf = out
         /\ DisableStage(e, lost, 4, out, mem) /\ Empties(e, f) => DisableStage(f, lost, 4, <<>>, mem)
PROOF
  <1>1. EnableStage(e, lost, 1, mem) /\ Sends(e, f, InCmd(BURST_ENABLE)) => EnableStage(f, lost, 2, mem)
    BY DEF EnableStage, Rests, EcHas, Sends, Inside
  <1>2. EnableStage(e, lost, 2, mem) /\ e.obf # <<>> => EnableStage(e, lost, 3, mem)
    BY DEF EnableStage, EcHas
  <1>3. EnableStage(e, lost, 3, mem) => e.obf = <<Ack>>
    BY DEF EnableStage, EcHas
  <1>4. EnableStage(e, lost, 3, mem) /\ Empties(e, f) => Rests(f, mem) /\ Holds(f, lost)
    BY DEF EnableStage, EcHas, Empties, Inside, Rests, Holds
  <1>5. DisableStage(e, lost, 2, out, mem) /\ Sends(e, f, InCmd(BURST_DISABLE)) => DisableStage(f, lost, 3, out, mem)
    BY DEF DisableStage, EcHas, Sends, Inside, Holds
  <1>6. DisableStage(e, lost, 3, out, mem) /\ ~e.burst => DisableStage(e, lost, 4, out, mem)
    BY DEF DisableStage, Holds
  <1>7. DisableStage(e, lost, 4, out, mem) => e.obf = out
    BY DEF DisableStage, EcHas
  <1>8. DisableStage(e, lost, 4, out, mem) /\ Empties(e, f) => DisableStage(f, lost, 4, <<>>, mem)
    BY DEF DisableStage, EcHas, Empties, Inside
  <1>9. QED
    BY <1>1, <1>2, <1>3, <1>4, <1>5, <1>6, <1>7, <1>8

-----------------------------------------------------------------------------
(* A driver that knows its ports uses those of the controller.             *)
LEMMA Ports == ASSUME EcTypes, Known PROVE driver.cmd_port = EcCmd /\ driver.data_port = EcData
  BY DEF EcTypes, Known

(* The driver makes an access; it polls.                                   *)
Moves == ecAt' = ecAt + 1 /\ ~panicked /\ UNCHANGED <<driver, installed, ecCall, order, ecTodo, history>>
Polls == Moves /\ ec' = ec /\ ret' = ret /\ panicked' = panicked

(* An access that polls the input buffer finds it empty,                   *)
LEMMA IbfStep ==
  ASSUME EcTypes, Known, Access, TodoIs(ecAt, poll_ibf)
  PROVE  Polls /\ ec.ibf = <<>>
PROOF
  <1>1. ecTodo[ecAt].op = "ibf"
    BY DEF TodoIs, poll_ibf
  <1>2. PollIbf
    BY <1>1 DEF Access, PollObf, PollCalm, WriteCmd, WriteData, ReadByte, ReadAck, Accessing
  <1>3. QED
    BY <1>2, Ports DEF PollIbf, Accessing, Polls, Moves

(* ... one that polls the output buffer finds an answer,                   *)
LEMMA ObfStep ==
  ASSUME EcTypes, Known, Access, TodoIs(ecAt, poll_obf)
  PROVE  Polls /\ ec.obf # <<>>
PROOF
  <1>1. ecTodo[ecAt].op = "obf"
    BY DEF TodoIs, poll_obf
  <1>2. PollObf
    BY <1>1 DEF Access, PollIbf, PollCalm, WriteCmd, WriteData, ReadByte, ReadAck, Accessing
  <1>3. QED
    BY <1>2, Ports DEF PollObf, Accessing, Polls, Moves

(* ... and the loop of disable_burst ends outside burst mode.              *)
LEMMA CalmStep ==
  ASSUME EcTypes, Known, Access, TodoIs(ecAt, poll_burst)
  PROVE  Polls /\ ~ec.burst
PROOF
  <1>1. ecTodo[ecAt].op = "calm"
    BY DEF TodoIs, poll_burst
  <1>2. PollCalm
    BY <1>1 DEF Access, PollIbf, PollObf, WriteCmd, WriteData, ReadByte, ReadAck, Accessing
  <1>3. QED
    BY <1>2, Ports DEF PollCalm, Accessing, Polls, Moves

(* A byte is sent to an empty buffer.                                      *)
Sent(bytes) == Moves /\ Sends(ec, ec', bytes) /\ ret' = ret /\ panicked' = panicked

(* The controller is a record.                                             *)
LEMMA EcFields ==
  ASSUME EcTypes
  PROVE  ec = [ibf |-> ec.ibf, obf |-> ec.obf, burst |-> ec.burst, expect |-> ec.expect, addr |-> ec.addr,
               mem |-> ec.mem, event |-> ec.event]
  BY DEF EcTypes, Controllers

(* A command reaches an empty input buffer,                                *)
LEMMA CmdStep ==
  ASSUME EcTypes, Known, Access, NEW b, TodoIs(ecAt, Cmd(b)), ec.ibf = <<>>
  PROVE  Sent(InCmd(b))
PROOF
  <1>1. ecTodo[ecAt].op = "cmd" /\ EcArg = b
    BY DEF TodoIs, Cmd, EcArg
  <1>2. WriteCmd
    BY <1>1 DEF Access, PollIbf, PollObf, PollCalm, WriteData, ReadByte, ReadAck, Accessing
  <1>3. ToSet(ec.ibf) = {}
    BY DEF ToSet
  <1>4. ec' = [ec EXCEPT !.ibf = InCmd(b)]
    BY <1>1, <1>2, <1>3, Ports DEF WriteCmd, Outb, InCmd
  <1>5. Sends(ec, ec', InCmd(b))
    BY <1>4, EcFields DEF Sends, Inside
  <1>6. QED
    BY <1>2, <1>5 DEF WriteCmd, Accessing, Sent, Moves

(* ... and so does a byte of data.                                         *)
LEMMA DataStep ==
  ASSUME EcTypes, Known, Access, NEW b, TodoIs(ecAt, Data(b)), ec.ibf = <<>>
  PROVE  Sent(InData(b))
PROOF
  <1>1. ecTodo[ecAt].op = "data" /\ EcArg = b
    BY DEF TodoIs, Data, EcArg
  <1>2. WriteData
    BY <1>1 DEF Access, PollIbf, PollObf, PollCalm, WriteCmd, ReadByte, ReadAck, Accessing
  <1>3. ToSet(ec.ibf) = {}
    BY DEF ToSet
  <1>4. ec' = [ec EXCEPT !.ibf = InData(b)]
    BY <1>1, <1>2, <1>3, Ports DEF WriteData, Outb, InData
  <1>5. Sends(ec, ec', InData(b))
    BY <1>4, EcFields DEF Sends, Inside
  <1>6. QED
    BY <1>2, <1>5 DEF WriteData, Accessing, Sent, Moves

(* The output buffer has x.                                                *)
LEMMA InStep ==
  ASSUME EcTypes, Known, Access, NEW b, TodoIs(ecAt, In(b)), NEW x, ec.obf = <<x>>
  PROVE  Moves /\ Empties(ec, ec') /\ ret' = [ret EXCEPT ![b] = x] /\ panicked' = panicked
PROOF
  <1>1. ecTodo[ecAt].op = "in" /\ EcArg = b
    BY DEF TodoIs, In, EcArg
  <1>2. ReadByte
    BY <1>1 DEF Access, PollIbf, PollObf, PollCalm, WriteCmd, WriteData, ReadAck, Accessing
  <1>3. Inb = {x}
    <2>1. driver.data_port = EcData /\ ec.obf # <<>> /\ ec.obf[1] = x
      BY Ports
    <2>2. QED
      BY <2>1 DEF Inb
  <1>4. ec' = [ec EXCEPT !.obf = <<>>]
    BY <1>2, Ports DEF ReadByte, Taken
  <1>5. Empties(ec, ec')
    BY <1>4, EcFields DEF Empties, Inside
  <1>6. ret' = [ret EXCEPT ![b] = x]
    BY <1>1, <1>2, <1>3 DEF ReadByte
  <1>7. QED
    BY <1>2, <1>5, <1>6 DEF ReadByte, Accessing, Moves

(* An acknowledgement is taken without a panic.                            *)
LEMMA AckStep ==
  ASSUME EcTypes, Known, Access, TodoIs(ecAt, read_ack), ec.obf = <<Ack>>
  PROVE  Moves /\ Empties(ec, ec') /\ ret' = ret /\ panicked' = panicked
PROOF
  <1>1. ecTodo[ecAt].op = "ack"
    BY DEF TodoIs, read_ack
  <1>2. ReadAck
    BY <1>1 DEF Access, PollIbf, PollObf, PollCalm, WriteCmd, WriteData, ReadByte, Accessing
  <1>3. Inb = {Ack}
    <2>1. driver.data_port = EcData /\ ec.obf # <<>> /\ ec.obf[1] = Ack
      BY Ports
    <2>2. QED
      BY <2>1 DEF Inb
  <1>4. ec' = [ec EXCEPT !.obf = <<>>]
    BY <1>2, Ports DEF ReadAck, Taken
  <1>5. Empties(ec, ec')
    BY <1>4, EcFields DEF Empties, Inside
  <1>6. panicked' = FALSE /\ ~panicked
    BY <1>2, <1>3 DEF ReadAck, Accessing
  <1>7. QED
    BY <1>2, <1>5, <1>6 DEF ReadAck, Accessing, Moves, EcTypes

(* While a call lasts.                                                     *)
LEMMA FixedCall ==
  ASSUME UNCHANGED <<driver, ecCall, order, wanted>>
  PROVE  /\ Known' <=> Known
         /\ Size' = Size /\ FirstUnit' = FirstUnit
         /\ (Reading' <=> Reading) /\ (Writing' <=> Writing) /\ (Bursting' <=> Bursting)
         /\ \A m : Where(m)' = Where(m)
         /\ \A j : After(j)' = After(j)
  BY DEF Known, Size, FirstUnit, Reading, Writing, Bursting, Where, After

(* The memory after some of the bytes of a call.                           *)
LEMMA AfterIs ==
  ASSUME EcTypes, ecCall # NoCall
  PROVE  /\ After(0) = wanted
         /\ ~Writing => \A j : After(j) = wanted
         /\ Writing => \A m \in 1..Size : After(m) = [After(m - 1) EXCEPT ![Where(m)] = ecCall.bytes[m]]
         /\ \A j \in 0..Size : After(j) \in [Offsets -> Values]
PROOF
  <1>1. wanted \in [Offsets -> Values] /\ Offsets \subseteq Nat /\ ecCall.offset \in Nat
    BY CallFacts, LaiEcAssumption DEF EcTypes
  <1>2. ~Writing => \A j : After(j) = wanted
    BY DEF After, Writing
  <1>3. CASE Writing
    <2>1. ecCall.kind # "get" /\ ecCall.kind \in {"write", "put"}
      BY <1>3 DEF Writing
    <2>2. \A j : After(j) = [o \in Offsets |-> IF o - ecCall.offset \in 0..(j - 1) THEN ecCall.bytes[o - ecCall.offset + 1] ELSE wanted[o]]
      BY <2>1 DEF After
    <2>3. After(0) = wanted
      <3>1. \A o \in Offsets : ~(o - ecCall.offset \in 0..(0 - 1))
        BY <1>1
      <3>2. After(0) = [o \in Offsets |-> wanted[o]]
        BY <2>2, <3>1
      <3>3. QED
        BY <1>1, <3>2
    <2>4. ASSUME NEW m \in 1..Size PROVE After(m) = [After(m - 1) EXCEPT ![Where(m)] = ecCall.bytes[m]]
      <3>1. Where(m) = ecCall.offset + m - 1 /\ Where(m) \in Offsets /\ m \in Nat \ {0}
        BY <2>1, CallFacts
      <3>2. DOMAIN After(m - 1) = Offsets /\ DOMAIN After(m) = Offsets
        BY <2>2
      <3>3. ASSUME NEW o \in Offsets
            PROVE  After(m)[o] = IF o = Where(m) THEN ecCall.bytes[m] ELSE After(m - 1)[o]
        <4>1. o \in Nat
          BY <1>1
        <4>2. /\ o = Where(m) => o - ecCall.offset \in 0..(m - 1) /\ o - ecCall.offset + 1 = m
              /\ o # Where(m) => (o - ecCall.offset \in 0..(m - 1) <=> o - ecCall.offset \in 0..((m - 1) - 1))
          BY ONLY <1>1, <3>1, <4>1
        <4>3. After(m)[o] = IF o - ecCall.offset \in 0..(m - 1) THEN ecCall.bytes[o - ecCall.offset + 1] ELSE wanted[o]
          BY <2>2
        <4>4. After(m - 1)[o] = IF o - ecCall.offset \in 0..((m - 1) - 1) THEN ecCall.bytes[o - ecCall.offset + 1] ELSE wanted[o]
          BY <2>2
        <4>5. CASE o = Where(m)
          BY <4>2, <4>3, <4>5
        <4>6. CASE o # Where(m)
          BY <4>2, <4>3, <4>4, <4>6
        <4>7. QED
          BY <4>5, <4>6
      <3>4. After(m) = [o \in Offsets |-> After(m)[o]]
        BY <2>2
      <3>5. QED
        BY <3>1, <3>2, <3>3, <3>4
    <2>5. ASSUME NEW j \in 0..Size PROVE After(j) \in [Offsets -> Values]
      <3>1. ASSUME NEW o \in Offsets, o - ecCall.offset \in 0..(j - 1)
            PROVE  ecCall.bytes[o - ecCall.offset + 1] \in Values
        <4>1. o \in Nat /\ Size \in Nat
          BY <1>1, CallFacts
        <4>2. o - ecCall.offset + 1 \in 1..Size
          BY <1>1, <3>1, <4>1
        <4>3. QED
          BY <4>2, CallFacts
      <3>2. \A o \in Offsets : wanted[o] \in Values
        BY <1>1
      <3>3. QED
        BY <2>2, <3>1, <3>2
    <2>6. QED
      BY <1>3, <2>3, <2>4, <2>5
  <1>4. CASE ~Writing
    BY <1>1, <1>2, <1>4
  <1>5. QED
    BY <1>2, <1>3, <1>4

(* The kinds of calls.                                                     *)
LEMMA KindsAre ==
  ASSUME EcTypes, ecCall # NoCall
  PROVE  /\ ecCall.kind \in {"get", "put"} => Bursting /\ (Reading \/ Writing) /\ FirstUnit = 3 /\ ecCall.kind # "query"
         /\ ecCall.kind \in {"read", "write"} => ~Bursting /\ (Reading \/ Writing) /\ FirstUnit = 0 /\ ecCall.kind # "query"
         /\ ecCall.kind = "query" => Bursting /\ ~Reading /\ ~Writing
         /\ ecCall.kind \in {"get", "put"} \/ ecCall.kind \in {"read", "write"} \/ ecCall.kind = "query"
         /\ ~(Reading /\ Writing)
  BY CallFacts DEF Bursting, Reading, Writing, FirstUnit, Kinds

(* The access a call in a unit makes next.                                 *)
LEMMA UnitAccess ==
  ASSUME EcTypes, ecCall # NoCall, Known, Reading \/ Writing, NEW m \in 1..Size, NEW i \in 1..6,
         ecAt = FirstUnit + 6 * (m - 1) + i
  PROVE  /\ i = 1 => TodoIs(ecAt, poll_ibf)
         /\ i = 2 => TodoIs(ecAt, Cmd(IF Reading THEN READ ELSE WRITE))
         /\ i = 3 => TodoIs(ecAt, poll_ibf)
         /\ i = 4 => TodoIs(ecAt, Data(Where(m)))
         /\ i = 5 => TodoIs(ecAt, IF Reading THEN poll_obf ELSE poll_ibf)
         /\ i = 6 => TodoIs(ecAt, IF Reading THEN In(order[m]) ELSE Data(ecCall.bytes[m]))
PROOF
  <1>1. TodoIs(ecAt, ByteAccess(m, i))
    <2>1. CASE ecCall.kind \in {"get", "put"}
      <3>1. ecAt = 3 + 6 * (m - 1) + i
        BY <2>1, KindsAre
      <3>2. QED
        BY <2>1, <3>1, BurstAccesses
    <2>2. CASE ecCall.kind \in {"read", "write"}
      <3>1. ecAt = i /\ m = 1
        BY <2>2, KindsAre, CallFacts
      <3>2. QED
        BY <2>2, <3>1, SingleAccesses
    <2>3. QED
      BY <2>1, <2>2, KindsAre
  <1>2. Where(m) \in Offsets /\ order[m] \in Nat /\ ecCall.bytes[m] \in Values
    <2>1. Where(m) \in Offsets /\ order[m] \in 1..Size /\ Size \in Nat /\ ecCall.bytes[m] \in Values
      BY CallFacts
    <2>2. QED
      BY <2>1
  <1>3. CASE Reading
    <2>1. TodoIs(ecAt, lai_read_ec(Where(m), order[m])[i])
      BY <1>1, <1>3 DEF ByteAccess
    <2> DEFINE o == Where(m)
               b == order[m]
               a == lai_read_ec(o, b)
    <2>2. /\ a[1] = poll_ibf
          /\ a[2] = Cmd(READ)
          /\ a[3] = poll_ibf
          /\ a[4] = Data(o)
          /\ a[5] = poll_obf
          /\ a[6] = In(b)
      BY <1>2, ReadAccesses
    <2>3. TodoIs(ecAt, a[i])
      BY <2>1
    <2> HIDE DEF a
    <2>4. QED
      BY <1>3, <2>2, <2>3
  <1>4. CASE ~Reading
    <2>1. TodoIs(ecAt, lai_write_ec(Where(m), ecCall.bytes[m])[i])
      BY <1>1, <1>4 DEF ByteAccess
    <2> DEFINE o == Where(m)
               b == ecCall.bytes[m]
               a == lai_write_ec(o, b)
    <2>2. /\ a[1] = poll_ibf
          /\ a[2] = Cmd(WRITE)
          /\ a[3] = poll_ibf
          /\ a[4] = Data(o)
          /\ a[5] = poll_ibf
          /\ a[6] = Data(b)
      BY <1>2, WriteAccesses
    <2>3. TodoIs(ecAt, a[i])
      BY <2>1
    <2> HIDE DEF a
    <2>4. QED
      BY <1>4, <2>2, <2>3
  <1>5. QED
    BY <1>3, <1>4

(* What the driver does in a unit.                                         *)
LEMMA ReadingStep ==
  ASSUME EcTypes, ecCall # NoCall, Known, Reading, NEW m \in 1..Size, NEW i \in 1..6, Access,
         ecAt = FirstUnit + 6 * (m - 1) + i, ReadStage(ec, i, Where(m), wanted)
  PROVE  /\ Moves /\ panicked' = panicked /\ ec'.burst = ec.burst
         /\ i < 6 => ret' = ret /\ ReadStage(ec', i + 1, Where(m), wanted)
         /\ i = 6 => ret' = [ret EXCEPT ![order[m]] = wanted[Where(m)]] /\ Rests(ec', wanted)
PROOF
  <1> DEFINE o == Where(m)
  <1>1. CASE i = 1
    <2>1. Polls
      BY <1>1, UnitAccess, IbfStep
    <2>2. ReadStage(ec, 2, o, wanted)
      BY <1>1, ReadGoesOn
    <2>3. QED
      BY <1>1, <2>1, <2>2 DEF Polls
  <1>2. CASE i = 2
    <2>1. TodoIs(ecAt, Cmd(READ)) /\ ec.ibf = <<>>
      BY <1>2, UnitAccess DEF ReadStage, Rests, EcHas
    <2>2. Sent(InCmd(READ))
      BY <2>1, CmdStep
    <2>3. ReadStage(ec', 3, o, wanted)
      BY <1>2, <2>2, ReadGoesOn DEF Sent
    <2>4. QED
      BY <1>2, <2>2, <2>3 DEF Sent, Sends
  <1>3. CASE i = 3
    <2>1. Polls /\ ec.ibf = <<>>
      BY <1>3, UnitAccess, IbfStep
    <2>2. ReadStage(ec, 4, o, wanted)
      BY <1>3, <2>1, ReadGoesOn
    <2>3. QED
      BY <1>3, <2>1, <2>2 DEF Polls
  <1>4. CASE i = 4
    <2>1. TodoIs(ecAt, Data(o)) /\ ec.ibf = <<>>
      BY <1>4, UnitAccess DEF ReadStage, EcHas
    <2>2. Sent(InData(o))
      BY <2>1, DataStep
    <2>3. ReadStage(ec', 5, o, wanted)
      BY <1>4, <2>2, ReadGoesOn DEF Sent
    <2>4. QED
      BY <1>4, <2>2, <2>3 DEF Sent, Sends
  <1>5. CASE i = 5
    <2>1. TodoIs(ecAt, poll_obf)
      BY <1>5, UnitAccess
    <2>2. Polls /\ ec.obf # <<>>
      BY <2>1, ObfStep
    <2>3. ReadStage(ec, 6, o, wanted)
      BY <1>5, <2>2, ReadGoesOn
    <2>4. QED
      BY <1>5, <2>2, <2>3 DEF Polls
  <1>6. CASE i = 6
    <2>1. TodoIs(ecAt, In(order[m])) /\ ec.obf = <<wanted[o]>>
      BY <1>6, UnitAccess, ReadGoesOn
    <2>2. Moves /\ Empties(ec, ec') /\ ret' = [ret EXCEPT ![order[m]] = wanted[o]] /\ panicked' = panicked
      BY <2>1, InStep
    <2>3. Rests(ec', wanted)
      BY <1>6, <2>2, ReadGoesOn
    <2>4. QED
      BY <1>6, <2>2, <2>3 DEF Empties
  <1>7. QED
    BY <1>1, <1>2, <1>3, <1>4, <1>5, <1>6

(* The same of a call that writes.                                         *)
LEMMA WritingStep ==
  ASSUME EcTypes, ecCall # NoCall, Known, Writing, NEW m \in 1..Size, NEW i \in 1..6, Access,
         ecAt = FirstUnit + 6 * (m - 1) + i, NEW mem, WriteStage(ec, i, Where(m), mem)
  PROVE  /\ Moves /\ panicked' = panicked /\ ec'.burst = ec.burst /\ ret' = ret
         /\ i < 6 => WriteStage(ec', i + 1, Where(m), mem)
         /\ i = 6 => Settles(ec', [mem EXCEPT ![Where(m)] = ecCall.bytes[m]])
PROOF
  <1> DEFINE o == Where(m)
  <1>0. ~Reading
    BY KindsAre
  <1>1. CASE i = 1
    <2>1. Polls /\ ec.ibf = <<>>
      BY <1>1, UnitAccess, IbfStep
    <2>2. WriteStage(ec, 2, o, mem)
      BY <1>1, <2>1, WriteGoesOn
    <2>3. QED
      BY <1>1, <2>1, <2>2 DEF Polls
  <1>2. CASE i = 2
    <2>1. TodoIs(ecAt, Cmd(WRITE)) /\ ec.ibf = <<>>
      BY <1>0, <1>2, UnitAccess DEF WriteStage, Rests, EcHas
    <2>2. Sent(InCmd(WRITE))
      BY <2>1, CmdStep
    <2>3. WriteStage(ec', 3, o, mem)
      BY <1>2, <2>2, WriteGoesOn DEF Sent
    <2>4. QED
      BY <1>2, <2>2, <2>3 DEF Sent, Sends
  <1>3. CASE i = 3
    <2>1. Polls /\ ec.ibf = <<>>
      BY <1>3, UnitAccess, IbfStep
    <2>2. WriteStage(ec, 4, o, mem)
      BY <1>3, <2>1, WriteGoesOn
    <2>3. QED
      BY <1>3, <2>1, <2>2 DEF Polls
  <1>4. CASE i = 4
    <2>1. TodoIs(ecAt, Data(o)) /\ ec.ibf = <<>>
      BY <1>4, UnitAccess DEF WriteStage, EcHas
    <2>2. Sent(InData(o))
      BY <2>1, DataStep
    <2>3. WriteStage(ec', 5, o, mem)
      BY <1>4, <2>2, WriteGoesOn DEF Sent
    <2>4. QED
      BY <1>4, <2>2, <2>3 DEF Sent, Sends
  <1>5. CASE i = 5
    <2>1. TodoIs(ecAt, poll_ibf)
      BY <1>0, <1>5, UnitAccess
    <2>2. Polls /\ ec.ibf = <<>>
      BY <2>1, IbfStep
    <2>3. WriteStage(ec, 6, o, mem)
      BY <1>5, <2>2, WriteGoesOn
    <2>4. QED
      BY <1>5, <2>2, <2>3 DEF Polls
  <1>6. CASE i = 6
    <2>1. TodoIs(ecAt, Data(ecCall.bytes[m])) /\ ec.ibf = <<>>
      BY <1>0, <1>6, UnitAccess DEF WriteStage, EcHas
    <2>2. Sent(InData(ecCall.bytes[m])) /\ ecCall.bytes[m] \in Values
      BY <2>1, DataStep, CallFacts
    <2>3. Settles(ec', [mem EXCEPT ![o] = ecCall.bytes[m]])
      BY <1>6, <2>2, WriteGoesOn DEF Sent
    <2>4. QED
      BY <1>6, <2>2, <2>3 DEF Sent, Sends
  <1>7. QED
    BY <1>1, <1>2, <1>3, <1>4, <1>5, <1>6

(* The call goes on, without a panic.                                      *)
GoesOn == Conversing' /\ panicked' = panicked

(* A call goes on inside a unit,                                           *)
LEMMA UnitStep ==
  ASSUME EcTypes, ecCall # NoCall, Known, Reading \/ Writing, NEW m \in 1..Size, NEW i \in 1..6, InUnit(m, i), Access
  PROVE  GoesOn
PROOF
  <1>1. /\ ecAt = FirstUnit + 6 * (m - 1) + i
        /\ IF Bursting THEN Holds(ec, burstLost) ELSE ~ec.burst
        /\ Reading => ReadStage(ec, i, Where(m), wanted) /\ ReadSoFar(m)
        /\ Writing => WriteStage(ec, i, Where(m), After(m - 1))
    BY DEF InUnit
  <1>2. Size \in Nat \ {0} /\ FirstUnit \in Nat /\ m \in Nat
    BY CallFacts DEF FirstUnit
  <1>3. /\ Moves /\ panicked' = panicked /\ ec'.burst = ec.burst
    BY <1>1, ReadingStep, WritingStep
  <1>4. /\ Size' = Size /\ FirstUnit' = FirstUnit /\ (Reading' <=> Reading) /\ (Writing' <=> Writing)
        /\ (Bursting' <=> Bursting) /\ wanted' = wanted /\ burstLost' = burstLost /\ order' = order /\ ecAt' = ecAt + 1
        /\ \A k : Where(k)' = Where(k)
        /\ \A j : After(j)' = After(j)
    BY <1>3, FixedCall DEF Moves, history
  <1>5. (IF Bursting THEN Holds(ec, burstLost) ELSE ~ec.burst)'
    BY <1>1, <1>3, <1>4 DEF Holds
  <1>6. CASE i < 6
    <2>1. Reading => ReadStage(ec', i + 1, Where(m), wanted) /\ ret' = ret
      BY <1>1, <1>6, ReadingStep
    <2>2. Writing => WriteStage(ec', i + 1, Where(m), After(m - 1))
      BY <1>1, <1>6, WritingStep
    <2>3. Reading => ReadSoFar(m)'
      BY <1>1, <1>4, <2>1 DEF ReadSoFar
    <2>4. i + 1 \in 1..6 /\ ecAt' = FirstUnit + 6 * (m - 1) + (i + 1) /\ m <= Size
      BY <1>1, <1>2, <1>4, <1>6
    <2>5. InUnit(m, i + 1)'
      BY <1>4, <1>5, <2>1, <2>2, <2>3, <2>4 DEF InUnit
    <2>6. QED
      BY <1>2, <1>3, <1>4, <2>4, <2>5 DEF Conversing, GoesOn
  <1>7. CASE i = 6
    <2>1. Reading => ReadStage(ec', 1, Where(m + 1), wanted) /\ ret' = [ret EXCEPT ![order[m]] = wanted[Where(m)]]
      BY <1>1, <1>7, ReadingStep, ReadGoesOn
    <2>2. Reading => ReadSoFar(m + 1)'
      <3>1. SUFFICES ASSUME Reading, NEW j \in 1..m PROVE ret'[order[j]] = wanted[Where(j)]
        BY <1>2, <1>4 DEF ReadSoFar
      <3>2. order[j] \in DOMAIN ret /\ order[m] \in DOMAIN ret
        <4>1. j \in 1..Size
          BY <1>2
        <4>2. DOMAIN ret = 1..Size
          BY DEF EcTypes
        <4>3. QED
          BY <4>1, <4>2, CallFacts
      <3>3. CASE order[j] = order[m]
        BY <2>1, <3>1, <3>2, <3>3 DEF Where
      <3>4. CASE order[j] # order[m]
        <4>1. j \in 1..(m - 1)
          BY <1>2, <3>4
        <4>2. ret[order[j]] = wanted[Where(j)]
          BY <1>1, <3>1, <4>1 DEF ReadSoFar
        <4>3. QED
          BY <2>1, <3>1, <3>2, <3>4, <4>2
      <3>5. QED
        BY <3>3, <3>4
    <2>3. Writing => WriteStage(ec', 1, Where(m + 1), After(m))
      <3>1. SUFFICES ASSUME Writing PROVE WriteStage(ec', 1, Where(m + 1), After(m))
        OBVIOUS
      <3>2. Settles(ec', [After(m - 1) EXCEPT ![Where(m)] = ecCall.bytes[m]])
        BY <1>1, <1>7, <3>1, WritingStep
      <3>3. Settles(ec', After(m))
        BY <3>1, <3>2, AfterIs
      <3>4. QED
        BY <3>3, WriteGoesOn
    <2>4. /\ m + 1 \in 1..(Size + 1) /\ ecAt' = FirstUnit + 6 * ((m + 1) - 1) + 1 /\ (m + 1) - 1 = m /\ 1 \in 1..6
      BY <1>1, <1>2, <1>4, <1>7
    <2>5. InUnit(m + 1, 1)'
      BY <1>4, <1>5, <2>1, <2>2, <2>3, <2>4 DEF InUnit
    <2>6. QED
      BY <1>2, <1>3, <1>4, <2>4, <2>5 DEF Conversing, GoesOn
  <1>8. QED
    BY <1>6, <1>7

(* What stays during an access.                                            *)
LEMMA MovesKeep ==
  ASSUME Moves
  PROVE  /\ Size' = Size /\ FirstUnit' = FirstUnit /\ (Reading' <=> Reading) /\ (Writing' <=> Writing)
         /\ (Bursting' <=> Bursting) /\ wanted' = wanted /\ burstLost' = burstLost /\ order' = order /\ ecAt' = ecAt + 1
         /\ ecCall' = ecCall /\ told' = told /\ (Known' <=> Known) /\ careless' = careless
         /\ \A k : Where(k)' = Where(k)
         /\ \A j : After(j)' = After(j)
  BY FixedCall DEF Moves, history

(* ... after the last one,                                                 *)
LEMMA LastUnitStep ==
  ASSUME EcTypes, ecCall # NoCall, Known, Reading \/ Writing, InUnit(Size + 1, 1), Access
  PROVE  GoesOn
PROOF
  <1>1. /\ ecAt = FirstUnit + 6 * ((Size + 1) - 1) + 1
        /\ IF Bursting THEN Holds(ec, burstLost) ELSE ~ec.burst
        /\ Reading => ReadStage(ec, 1, Where(Size + 1), wanted) /\ ReadSoFar(Size + 1)
        /\ Writing => WriteStage(ec, 1, Where(Size + 1), After((Size + 1) - 1))
    BY DEF InUnit
  <1>2. Size \in Nat \ {0} /\ (Size + 1) - 1 = Size
    BY CallFacts
  <1>3. CASE ecCall.kind \in {"read", "write"}
    <2>1. ecAt = 7 /\ Len(ecTodo) = 6
      BY <1>1, <1>2, <1>3, KindsAre, CallFacts, SingleAccesses
    <2>2. ~AccessesLeft
      BY <2>1 DEF AccessesLeft
    <2>3. QED
      BY <2>2 DEF Access, PollIbf, PollObf, PollCalm, WriteCmd, WriteData, ReadByte, ReadAck, Accessing
  <1>4. CASE ecCall.kind \in {"get", "put"}
    <2>1. ecAt = 3 + 6 * Size + 1 /\ Bursting
      BY <1>1, <1>2, <1>4, KindsAre
    <2>2. Polls /\ ec.ibf = <<>>
      BY <1>4, <2>1, BurstAccesses, IbfStep
    <2>3. Rests(ec, After(Size))
      <3>1. CASE Reading
        <4>1. Rests(ec, wanted)
          BY <1>1, <3>1 DEF ReadStage
        <4>2. After(Size) = wanted
          BY <3>1, KindsAre, AfterIs
        <4>3. QED
          BY <4>1, <4>2
      <3>2. CASE Writing
        <4>1. WriteStage(ec, 1, Where(Size + 1), After(Size))
          BY <1>1, <1>2, <3>2
        <4>2. WriteStage(ec, 2, Where(Size + 1), After(Size))
          BY <4>1, <2>2, WriteGoesOn
        <4>3. QED
          BY <4>2 DEF WriteStage
      <3>3. QED
        BY <3>1, <3>2
    <2>4. DisableStage(ec, burstLost, 2, <<>>, After(Size))
      BY <1>1, <2>1, <2>3 DEF DisableStage, Rests
    <2>5. Moves /\ ec' = ec /\ ret' = ret /\ panicked' = panicked
      BY <2>2 DEF Polls
    <2>6. Reading => ReadSoFar(Size + 1)'
      BY <1>1, <2>5, MovesKeep DEF ReadSoFar
    <2>7. ecAt' = 3 + 6 * Size + 2
      BY <1>2, <2>1, <2>5, MovesKeep
    <2>8. Disabling(2)'
      BY <1>4, <2>4, <2>5, <2>6, <2>7, MovesKeep DEF Disabling
    <2>9. QED
      BY <2>5, <2>8 DEF Conversing, GoesOn
  <1>5. QED
    BY <1>3, <1>4, KindsAre

(* ... when it enters burst mode,                                          *)
LEMMA EnablingStep ==
  ASSUME EcTypes, ecCall # NoCall, Known, NEW i \in 1..3, Enabling(i), Access
  PROVE  GoesOn
PROOF
  <1>1. Bursting /\ ecAt = i /\ EnableStage(ec, burstLost, i, wanted)
    BY DEF Enabling
  <1>2. TodoIs(1, Cmd(BURST_ENABLE)) /\ TodoIs(2, poll_obf) /\ TodoIs(3, read_ack)
    <2>1. ecCall.kind \in {"get", "put"} \/ ecCall.kind = "query"
      BY <1>1, KindsAre
    <2>2. QED
      BY <2>1, BurstAccesses, QueryAccesses
  <1>3. CASE i = 1
    <2>1. ec.ibf = <<>>
      BY <1>1, <1>3 DEF EnableStage, Rests, EcHas
    <2>2. Sent(InCmd(BURST_ENABLE))
      BY <1>1, <1>2, <1>3, <2>1, CmdStep
    <2>3. EnableStage(ec', burstLost, 2, wanted)
      BY <1>1, <1>3, <2>2, BurstGoesOn DEF Sent
    <2>4. Moves /\ panicked' = panicked
      BY <2>2 DEF Sent
    <2>5. Enabling(2)'
      BY <1>1, <1>3, <2>3, <2>4, MovesKeep DEF Enabling
    <2>6. QED
      BY <2>4, <2>5 DEF Conversing, GoesOn
  <1>4. CASE i = 2
    <2>1. Polls /\ ec.obf # <<>>
      BY <1>1, <1>2, <1>4, ObfStep
    <2>2. EnableStage(ec, burstLost, 3, wanted)
      BY <1>1, <1>4, <2>1, BurstGoesOn
    <2>3. Moves /\ panicked' = panicked /\ ec' = ec
      BY <2>1 DEF Polls
    <2>4. Enabling(3)'
      BY <1>1, <1>4, <2>2, <2>3, MovesKeep DEF Enabling
    <2>5. QED
      BY <2>3, <2>4 DEF Conversing, GoesOn
  <1>5. CASE i = 3
    <2>1. ec.obf = <<Ack>>
      BY <1>1, <1>5, BurstGoesOn
    <2>2. Moves /\ Empties(ec, ec') /\ panicked' = panicked
      BY <1>1, <1>2, <1>5, <2>1, AckStep
    <2>3. Rests(ec', wanted) /\ Holds(ec', burstLost)
      BY <1>1, <1>5, <2>2, BurstGoesOn
    <2>4. CASE ecCall.kind = "query"
      <3>1. QueryStage(ec', burstLost, 4, told, wanted, ret'[1])
        BY <2>3 DEF QueryStage
      <3>2. Querying(4)'
        BY <1>1, <1>5, <2>2, <2>4, <3>1, MovesKeep DEF Querying
      <3>3. QED
        BY <2>2, <3>2 DEF Conversing, GoesOn
    <2>5. CASE ecCall.kind \in {"get", "put"}
      <3>1. FirstUnit = 3 /\ (Reading \/ Writing) /\ Size \in Nat \ {0}
        BY <2>5, KindsAre, CallFacts
      <3>2. ReadStage(ec', 1, Where(1), wanted) /\ ReadSoFar(1)'
        <4>1. ReadStage(ec', 1, Where(1), wanted)
          BY <2>3, ReadGoesOn
        <4>2. 1..(1 - 1) = {}
          OBVIOUS
        <4>3. ReadSoFar(1)'
          BY <4>2 DEF ReadSoFar
        <4>4. QED
          BY <4>1, <4>3
      <3>3. After(1 - 1) = wanted
        BY AfterIs
      <3>4. Settles(ec', wanted)
        BY <2>3 DEF Settles
      <3>5. WriteStage(ec', 1, Where(1), After(1 - 1))
        BY <3>3, <3>4, WriteGoesOn
      <3>6. ecAt' = FirstUnit + 6 * (1 - 1) + 1
        BY <1>1, <1>5, <2>2, <3>1, MovesKeep
      <3>7. InUnit(1, 1)'
        BY <1>1, <2>2, <2>3, <3>2, <3>5, <3>6, MovesKeep DEF InUnit
      <3>8. Size' = Size /\ (Reading \/ Writing)' /\ 1 \in 1..(Size + 1)
        BY <2>2, <3>1, MovesKeep
      <3>9. QED
        BY <2>2, <3>7, <3>8 DEF Conversing, GoesOn
    <2>6. QED
      BY <1>1, <2>4, <2>5, KindsAre
  <1>6. QED
    BY <1>3, <1>4, <1>5

(* ... when it leaves it,                                                  *)
LEMMA DisablingStep ==
  ASSUME EcTypes, ecCall # NoCall, Known, NEW i \in 2..4, Disabling(i), Access
  PROVE  GoesOn
PROOF
  <1>1. /\ ecCall.kind \in {"get", "put"} /\ ecAt = 3 + 6 * Size + i
        /\ DisableStage(ec, burstLost, i, <<>>, After(Size))
        /\ Reading => ReadSoFar(Size + 1)
    BY DEF Disabling
  <1>2. /\ TodoIs(3 + 6 * Size + 2, Cmd(BURST_DISABLE)) /\ TodoIs(3 + 6 * Size + 3, poll_burst)
        /\ Len(ecTodo) = 6 * Size + 6 /\ Size \in Nat
    BY <1>1, BurstAccesses, CallFacts
  <1>3. CASE i = 2
    <2>1. ec.ibf = <<>>
      BY <1>1, <1>3 DEF DisableStage, EcHas
    <2>2. Sent(InCmd(BURST_DISABLE))
      BY <1>1, <1>2, <1>3, <2>1, CmdStep
    <2>3. DisableStage(ec', burstLost, 3, <<>>, After(Size))
      BY <1>1, <1>3, <2>2, BurstGoesOn DEF Sent
    <2>4. Moves /\ panicked' = panicked /\ ret' = ret
      BY <2>2 DEF Sent
    <2>5. (Reading => ReadSoFar(Size + 1)') /\ ecAt' = 3 + 6 * Size + 3
      BY <1>1, <1>2, <1>3, <2>4, MovesKeep DEF ReadSoFar
    <2>6. Disabling(3)'
      BY <1>1, <2>3, <2>4, <2>5, MovesKeep DEF Disabling
    <2>7. QED
      BY <2>4, <2>6 DEF Conversing, GoesOn
  <1>4. CASE i = 3
    <2>1. Polls /\ ~ec.burst
      BY <1>1, <1>2, <1>4, CalmStep
    <2>2. DisableStage(ec, burstLost, 4, <<>>, After(Size))
      BY <1>1, <1>4, <2>1, BurstGoesOn
    <2>3. Moves /\ panicked' = panicked /\ ret' = ret /\ ec' = ec
      BY <2>1 DEF Polls
    <2>4. (Reading => ReadSoFar(Size + 1)') /\ ecAt' = 3 + 6 * Size + 4
      BY <1>1, <1>2, <1>4, <2>3, MovesKeep DEF ReadSoFar
    <2>5. Disabling(4)'
      BY <1>1, <2>2, <2>3, <2>4, MovesKeep DEF Disabling
    <2>6. QED
      BY <2>3, <2>5 DEF Conversing, GoesOn
  <1>5. CASE i = 4
    <2>1. ~AccessesLeft
      BY <1>1, <1>2, <1>5 DEF AccessesLeft
    <2>2. QED
      BY <2>1 DEF Access, PollIbf, PollObf, PollCalm, WriteCmd, WriteData, ReadByte, ReadAck, Accessing
  <1>6. QED
    BY <1>3, <1>4, <1>5

(* ... and in a query.                                                     *)
LEMMA QueryingStep ==
  ASSUME EcTypes, ecCall # NoCall, Known, NEW k \in 4..10, Querying(k), Access
  PROVE  GoesOn
PROOF
  <1>1. ecCall.kind = "query" /\ ecAt = k /\ QueryStage(ec, burstLost, k, told, wanted, ret[1])
    BY DEF Querying
  <1>2. /\ TodoIs(4, Cmd(QUERY)) /\ TodoIs(5, poll_obf) /\ TodoIs(6, poll_ibf)
        /\ TodoIs(7, Cmd(BURST_DISABLE)) /\ TodoIs(8, poll_burst) /\ TodoIs(9, In(1)) /\ Len(ecTodo) = 9
    BY <1>1, QueryAccesses
  <1>3. ASSUME Moves, panicked' = panicked, k < 10, QueryStage(ec', burstLost, k + 1, told, wanted, ret'[1])
        PROVE  GoesOn
    <2>1. k + 1 \in 4..10 /\ ecAt' = k + 1
      BY <1>1, <1>3, MovesKeep
    <2>2. Querying(k + 1)'
      BY <1>1, <1>3, <2>1, MovesKeep DEF Querying
    <2>3. QED
      BY <1>3, <2>1, <2>2 DEF Conversing, GoesOn
  <1>4. CASE k = 4
    <2>1. ec.ibf = <<>> /\ ec.obf = <<>> /\ ec.expect = "command" /\ ec.mem = wanted /\ Holds(ec, burstLost)
      BY <1>1, <1>4 DEF QueryStage, Rests, EcHas
    <2>2. Sent(InCmd(QUERY))
      BY <1>1, <1>2, <1>4, <2>1, CmdStep
    <2>3. QueryStage(ec', burstLost, 5, told, wanted, ret'[1])
      BY <2>1, <2>2 DEF QueryStage, EcHas, Sent, Sends, Inside, Holds
    <2>4. QED
      BY <1>3, <1>4, <2>2, <2>3 DEF Sent
  <1>5. CASE k = 5
    <2>1. Polls /\ ec.obf # <<>>
      BY <1>1, <1>2, <1>5, ObfStep
    <2>2. QueryStage(ec, burstLost, 6, told, wanted, ret[1])
      BY <1>1, <1>5, <2>1 DEF QueryStage, EcHas
    <2>3. QED
      BY <1>3, <1>5, <2>1, <2>2 DEF Polls
  <1>6. CASE k = 6
    <2>1. Polls
      BY <1>1, <1>2, <1>6, IbfStep
    <2>2. DisableStage(ec, burstLost, 2, <<told>>, wanted)
      BY <1>1, <1>6 DEF QueryStage, DisableStage
    <2>3. QueryStage(ec, burstLost, 7, told, wanted, ret[1])
      BY <2>2 DEF QueryStage
    <2>4. QED
      BY <1>3, <1>6, <2>1, <2>3 DEF Polls
  <1>7. CASE k = 7
    <2>1. DisableStage(ec, burstLost, 2, <<told>>, wanted)
      BY <1>1, <1>7 DEF QueryStage
    <2>2. ec.ibf = <<>>
      BY <2>1 DEF DisableStage, EcHas
    <2>3. Sent(InCmd(BURST_DISABLE))
      BY <1>1, <1>2, <1>7, <2>2, CmdStep
    <2>4. DisableStage(ec', burstLost, 3, <<told>>, wanted)
      BY <2>1, <2>3, BurstGoesOn DEF Sent
    <2>5. QueryStage(ec', burstLost, 8, told, wanted, ret'[1])
      BY <2>4 DEF QueryStage
    <2>6. QED
      BY <1>3, <1>7, <2>3, <2>5 DEF Sent
  <1>8. CASE k = 8
    <2>1. DisableStage(ec, burstLost, 3, <<told>>, wanted)
      BY <1>1, <1>8 DEF QueryStage
    <2>2. Polls /\ ~ec.burst
      BY <1>1, <1>2, <1>8, CalmStep
    <2>3. DisableStage(ec, burstLost, 4, <<told>>, wanted)
      BY <2>1, <2>2, BurstGoesOn
    <2>4. QueryStage(ec, burstLost, 9, told, wanted, ret[1])
      BY <2>3 DEF QueryStage
    <2>5. QED
      BY <1>3, <1>8, <2>2, <2>4 DEF Polls
  <1>9. CASE k = 9
    <2>1. DisableStage(ec, burstLost, 4, <<told>>, wanted)
      BY <1>1, <1>9 DEF QueryStage
    <2>2. ec.obf = <<told>>
      BY <2>1, BurstGoesOn
    <2>3. Moves /\ Empties(ec, ec') /\ ret' = [ret EXCEPT ![1] = told] /\ panicked' = panicked
      BY <1>1, <1>2, <1>9, <2>2, InStep
    <2>4. DisableStage(ec', burstLost, 4, <<>>, wanted)
      BY <2>1, <2>3, BurstGoesOn
    <2>5. ret'[1] = told
      <3>1. 1 \in DOMAIN ret
        BY CallFacts DEF EcTypes
      <3>2. QED
        BY <2>3, <3>1
    <2>6. QueryStage(ec', burstLost, 10, told, wanted, ret'[1])
      BY <2>4, <2>5 DEF QueryStage
    <2>7. QED
      BY <1>3, <1>9, <2>3, <2>6
  <1>10. CASE k = 10
    <2>1. ~AccessesLeft
      BY <1>1, <1>2, <1>10 DEF AccessesLeft
    <2>2. QED
      BY <2>1 DEF Access, PollIbf, PollObf, PollCalm, WriteCmd, WriteData, ReadByte, ReadAck, Accessing
  <1>11. QED
    BY <1>4, <1>5, <1>6, <1>7, <1>8, <1>9, <1>10

(* A call that converses goes on, whatever access it makes.                *)
LEMMA AccessGoesOn ==
  ASSUME EcTypes, ecCall # NoCall, Known, Conversing, Access
  PROVE  GoesOn
PROOF
  <1>1. CASE \E i \in 1..3 : Enabling(i)
    BY <1>1, EnablingStep
  <1>2. CASE (Reading \/ Writing) /\ \E m \in 1..(Size + 1), i \in 1..6 : InUnit(m, i)
    <2>1. PICK m \in 1..(Size + 1), i \in 1..6 : InUnit(m, i)
      BY <1>2
    <2>2. Size \in Nat
      BY CallFacts
    <2>3. CASE m \in 1..Size
      BY <1>2, <2>1, <2>3, UnitStep
    <2>4. CASE m = Size + 1
      <3>1. i = 1
        BY <2>1, <2>2, <2>4 DEF InUnit
      <3>2. QED
        BY <1>2, <2>1, <2>4, <3>1, LastUnitStep
    <2>5. QED
      BY <2>2, <2>3, <2>4
  <1>3. CASE \E i \in 2..4 : Disabling(i)
    BY <1>3, DisablingStep
  <1>4. CASE \E k \in 4..10 : Querying(k)
    BY <1>4, QueryingStep
  <1>5. QED
    BY <1>1, <1>2, <1>3, <1>4 DEF Conversing

-----------------------------------------------------------------------------
(* What the controller has to take is a command, a place or a value.       *)
LEMMA InputIs ==
  ASSUME EcTypes, ec.ibf # <<>>
  PROVE  /\ ec.ibf[1].port = EcCmd => \E b \in Commands : ec.ibf = InCmd(b) /\ Written = b
         /\ ec.ibf[1].port = EcData => \E b \in Offsets \cup Values : ec.ibf = InData(b) /\ Written = b
         /\ ec.ibf[1].port = EcCmd \/ ec.ibf[1].port = EcData
PROOF
  <1>1. (\E b \in Commands : ec.ibf = InCmd(b)) \/ (\E b \in Offsets \cup Values : ec.ibf = InData(b))
    BY DEF EcTypes, Controllers, Inputs
  <1>2. \A b : InCmd(b)[1].port = EcCmd /\ InCmd(b)[1].byte = b /\ InData(b)[1].port = EcData /\ InData(b)[1].byte = b
    BY DEF InCmd, InData, EcCmd, EcData
  <1>3. EcCmd # EcData
    BY DEF EcCmd, EcData
  <1>4. CASE \E b \in Commands : ec.ibf = InCmd(b)
    <2>1. PICK b \in Commands : ec.ibf = InCmd(b)
      BY <1>4
    <2>2. ec.ibf[1].port = EcCmd /\ Written = b
      BY <2>1, <1>2 DEF Written
    <2>3. QED
      BY <1>3, <2>1, <2>2
  <1>5. CASE \E b \in Offsets \cup Values : ec.ibf = InData(b)
    <2>1. PICK b \in Offsets \cup Values : ec.ibf = InData(b)
      BY <1>5
    <2>2. ec.ibf[1].port = EcData /\ Written = b
      BY <2>1, <1>2 DEF Written
    <2>3. QED
      BY <1>3, <2>1, <2>2
  <1>6. QED
    BY <1>1, <1>4, <1>5

(* The controller obeys the bytes it is sent.                              *)
Obeying == Obeys(ec, ec', burstLost, burstLost', told, told')

LEMMA CommandObeyed == ASSUME EcTypes, EcTakeCommand PROVE Obeying
PROOF
  <1>1. PICK b \in Commands : ec.ibf = InCmd(b) /\ Written = b
    BY InputIs DEF EcTakeCommand
  <1>2. ec.ibf # <<>>
    BY DEF EcTakeCommand
  <1>3. ASSUME NEW x PROVE ec.ibf # InData(x)
    BY <1>1, Distinct
  <1>4. ObeysData(ec, ec', burstLost, burstLost', told, told')
    BY <1>3 DEF ObeysData
  <1>5. /\ READ \notin {BURST_ENABLE, BURST_DISABLE, QUERY, WRITE} /\ WRITE \notin {BURST_ENABLE, BURST_DISABLE, QUERY}
        /\ BURST_ENABLE \notin {BURST_DISABLE, QUERY} /\ BURST_DISABLE # QUERY
    BY DEF READ, WRITE, BURST_ENABLE, BURST_DISABLE, QUERY
  <1>6. CASE b \in {READ, WRITE}
    <2>1. /\ ec' = [ec EXCEPT !.ibf = <<>>, !.expect = IF b = READ THEN "readAt" ELSE "writeAt"]
          /\ told' = told /\ burstLost' = burstLost
      BY <1>1, <1>6, <1>5 DEF EcTakeCommand
    <2>2. /\ ec'.ibf = <<>> /\ ec'.obf = ec.obf /\ ec'.mem = ec.mem /\ ec'.burst = ec.burst
          /\ ec'.expect = IF b = READ THEN "readAt" ELSE "writeAt"
      BY <2>1, EcFields
    <2>3. Quietly(ec, ec', burstLost, burstLost', told, told')
      BY <2>1, <2>2 DEF Quietly
    <2>4. ObeysRead(ec, ec', burstLost, burstLost', told, told') /\ ObeysWrite(ec, ec', burstLost, burstLost', told, told')
      BY <1>1, <2>2, <2>3, CommandsDistinct, <1>6 DEF ObeysRead, ObeysWrite
    <2>5. /\ ObeysEnable(ec, ec', burstLost, burstLost', told, told') /\ ObeysDisable(ec, ec', burstLost, burstLost', told, told')
          /\ ObeysQuery(ec, ec', burstLost, burstLost', told, told')
      BY <1>1, <1>6, CommandsDistinct DEF ObeysEnable, ObeysDisable, ObeysQuery
    <2>6. QED
      BY <1>2, <1>4, <2>2, <2>4, <2>5 DEF Obeying, Obeys
  <1>7. CASE b = BURST_ENABLE
    <2>1. PICK c \in BOOLEAN : /\ ec' = [ec EXCEPT !.ibf = <<>>, !.obf = <<Ack>>, !.burst = c, !.expect = "command"]
                               /\ burstLost' = (burstLost \/ ~c) /\ told' = told
      BY <1>1, <1>7, <1>5 DEF EcTakeCommand
    <2>2. /\ ec'.ibf = <<>> /\ ec'.obf = <<Ack>> /\ ec'.mem = ec.mem /\ ec'.burst = c /\ ec'.expect = "command"
      BY <2>1, EcFields
    <2>3. Holds(ec', burstLost')
      BY <2>1, <2>2 DEF Holds
    <2>4. ObeysEnable(ec, ec', burstLost, burstLost', told, told')
      BY <2>1, <2>2, <2>3 DEF ObeysEnable
    <2>5. /\ ObeysRead(ec, ec', burstLost, burstLost', told, told') /\ ObeysWrite(ec, ec', burstLost, burstLost', told, told')
          /\ ObeysDisable(ec, ec', burstLost, burstLost', told, told') /\ ObeysQuery(ec, ec', burstLost, burstLost', told, told')
      BY <1>1, <1>7, CommandsDistinct DEF ObeysRead, ObeysWrite, ObeysDisable, ObeysQuery
    <2>6. QED
      BY <1>2, <1>4, <2>2, <2>4, <2>5 DEF Obeying, Obeys
  <1>8. CASE b = BURST_DISABLE
    <2>1. /\ ec' = [ec EXCEPT !.ibf = <<>>, !.burst = FALSE, !.expect = "command"]
          /\ told' = told /\ burstLost' = burstLost
      BY <1>1, <1>8, <1>5 DEF EcTakeCommand
    <2>2. /\ ec'.ibf = <<>> /\ ec'.obf = ec.obf /\ ec'.mem = ec.mem /\ ~ec'.burst /\ ec'.expect = "command"
      BY <2>1, EcFields
    <2>4. ObeysDisable(ec, ec', burstLost, burstLost', told, told')
      BY <2>1, <2>2 DEF ObeysDisable
    <2>5. /\ ObeysRead(ec, ec', burstLost, burstLost', told, told') /\ ObeysWrite(ec, ec', burstLost, burstLost', told, told')
          /\ ObeysEnable(ec, ec', burstLost, burstLost', told, told') /\ ObeysQuery(ec, ec', burstLost, burstLost', told, told')
      BY <1>1, <1>8, CommandsDistinct DEF ObeysRead, ObeysWrite, ObeysEnable, ObeysQuery
    <2>6. QED
      BY <1>2, <1>4, <2>2, <2>4, <2>5 DEF Obeying, Obeys
  <1>9. CASE b = QUERY
    <2>1. /\ ec' = [ec EXCEPT !.ibf = <<>>, !.obf = <<ec.event>>, !.event = 0, !.expect = "command"]
          /\ told' = ec.event /\ burstLost' = burstLost
      BY <1>1, <1>9, <1>5 DEF EcTakeCommand
    <2>2. /\ ec'.ibf = <<>> /\ ec'.obf = <<told'>> /\ ec'.mem = ec.mem /\ ec'.burst = ec.burst /\ ec'.expect = "command"
      BY <2>1, EcFields
    <2>4. ObeysQuery(ec, ec', burstLost, burstLost', told, told')
      BY <2>1, <2>2 DEF ObeysQuery
    <2>5. /\ ObeysRead(ec, ec', burstLost, burstLost', told, told') /\ ObeysWrite(ec, ec', burstLost, burstLost', told, told')
          /\ ObeysEnable(ec, ec', burstLost, burstLost', told, told') /\ ObeysDisable(ec, ec', burstLost, burstLost', told, told')
      BY <1>1, <1>9, CommandsDistinct DEF ObeysRead, ObeysWrite, ObeysEnable, ObeysDisable
    <2>6. QED
      BY <1>2, <1>4, <2>2, <2>4, <2>5 DEF Obeying, Obeys
  <1>10. QED
    BY <1>6, <1>7, <1>8, <1>9 DEF Commands

(* The controller obeys the data it is sent.                               *)
LEMMA DataObeyed == ASSUME EcTypes, EcTakeData PROVE Obeying
PROOF
  <1>1. PICK b \in Offsets \cup Values : ec.ibf = InData(b) /\ Written = b
    BY InputIs DEF EcTakeData
  <1>2. ec.ibf # <<>> /\ told' = told /\ burstLost' = burstLost
    BY DEF EcTakeData
  <1>3. ASSUME NEW x PROVE ec.ibf # InCmd(x)
    BY <1>1, Distinct
  <1>4. /\ ObeysRead(ec, ec', burstLost, burstLost', told, told') /\ ObeysWrite(ec, ec', burstLost, burstLost', told, told')
        /\ ObeysEnable(ec, ec', burstLost, burstLost', told, told') /\ ObeysDisable(ec, ec', burstLost, burstLost', told, told')
        /\ ObeysQuery(ec, ec', burstLost, burstLost', told, told')
    BY <1>3 DEF ObeysRead, ObeysWrite, ObeysEnable, ObeysDisable, ObeysQuery
  <1>5. CASE ec.expect = "readAt" /\ b \in Offsets
    <2>1. ec' = [ec EXCEPT !.ibf = <<>>, !.obf = <<ec.mem[b]>>, !.expect = "command"]
      BY <1>1, <1>5 DEF EcTakeData
    <2>2. /\ ec'.ibf = <<>> /\ ec'.obf = <<ec.mem[b]>> /\ ec'.mem = ec.mem /\ ec'.burst = ec.burst /\ ec'.expect = "command"
      BY <2>1, EcFields
    <2>3. ObeysData(ec, ec', burstLost, burstLost', told, told')
      BY <1>1, <1>2, <1>5, <2>2, Distinct DEF ObeysData, Quietly
    <2>4. QED
      BY <1>2, <1>4, <2>2, <2>3 DEF Obeying, Obeys
  <1>6. CASE ec.expect = "writeAt" /\ b \in Offsets
    <2>1. ec' = [ec EXCEPT !.ibf = <<>>, !.addr = b, !.expect = "value"]
      BY <1>1, <1>6 DEF EcTakeData
    <2>2. /\ ec'.ibf = <<>> /\ ec'.obf = ec.obf /\ ec'.mem = ec.mem /\ ec'.burst = ec.burst /\ ec'.expect = "value" /\ ec'.addr = b
      BY <2>1, EcFields
    <2>3. ObeysData(ec, ec', burstLost, burstLost', told, told')
      BY <1>1, <1>2, <1>6, <2>2, Distinct DEF ObeysData, Quietly
    <2>4. QED
      BY <1>2, <1>4, <2>2, <2>3 DEF Obeying, Obeys
  <1>7. CASE ec.expect = "value" /\ b \in Values
    <2>1. ec' = [ec EXCEPT !.ibf = <<>>, !.mem[ec.addr] = b, !.expect = "command"]
      BY <1>1, <1>7 DEF EcTakeData
    <2>2. /\ ec'.ibf = <<>> /\ ec'.obf = ec.obf /\ ec'.mem = [ec.mem EXCEPT ![ec.addr] = b] /\ ec'.burst = ec.burst /\ ec'.expect = "command"
      BY <2>1, EcFields
    <2>3. ObeysData(ec, ec', burstLost, burstLost', told, told')
      BY <1>1, <1>2, <1>7, <2>2, Distinct DEF ObeysData, Quietly
    <2>4. QED
      BY <1>2, <1>4, <2>2, <2>3 DEF Obeying, Obeys
  <1>8. CASE ~(ec.expect = "readAt" /\ b \in Offsets) /\ ~(ec.expect = "writeAt" /\ b \in Offsets) /\ ~(ec.expect = "value" /\ b \in Values)
    <2>1. ec' = [ec EXCEPT !.ibf = <<>>, !.expect = "command"]
      BY <1>1, <1>8 DEF EcTakeData
    <2>2. /\ ec'.ibf = <<>> /\ ec'.burst = ec.burst
      BY <2>1, EcFields
    <2>3. ObeysData(ec, ec', burstLost, burstLost', told, told')
      BY <1>1, <1>2, <1>8, <2>2, Distinct DEF ObeysData, Quietly
    <2>4. QED
      BY <1>2, <1>4, <2>2, <2>3 DEF Obeying, Obeys
  <1>9. QED
    BY <1>5, <1>6, <1>7, <1>8

(* What the controller does by itself.                                     *)
Calming == Calms(ec, ec', burstLost, burstLost') /\ told' = told

LEMMA EventCalms == ASSUME EcTypes, EcEvent PROVE Calming
PROOF
  <1>1. PICK v \in Values : ec' = [ec EXCEPT !.event = v]
    BY DEF EcEvent
  <1>2. ec'.ibf = ec.ibf /\ ec'.obf = ec.obf /\ ec'.burst = ec.burst /\ Inside(ec, ec')
    BY <1>1, EcFields DEF Inside
  <1>3. told' = told /\ burstLost' = burstLost
    BY DEF EcEvent
  <1>4. QED
    BY <1>2, <1>3 DEF Calming, Calms

(* It leaves burst mode when it likes.                                     *)
LEMMA LeavingCalms == ASSUME EcTypes, EcLeaveBurst PROVE Calming
PROOF
  <1>1. ec' = [ec EXCEPT !.burst = FALSE] /\ burstLost' = TRUE /\ told' = told
    BY DEF EcLeaveBurst
  <1>2. ec'.ibf = ec.ibf /\ ec'.obf = ec.obf /\ ec'.burst = FALSE /\ Inside(ec, ec')
    BY <1>1, EcFields DEF Inside
  <1>3. QED
    BY <1>1, <1>2 DEF Calming, Calms

-----------------------------------------------------------------------------
(* A step of the controller leaves the call where it is.                   *)
LEMMA EcStepKeeps ==
  ASSUME EcStep
  PROVE  /\ Size' = Size /\ FirstUnit' = FirstUnit /\ (Reading' <=> Reading) /\ (Writing' <=> Writing)
         /\ (Bursting' <=> Bursting) /\ (Known' <=> Known) /\ wanted' = wanted /\ order' = order /\ ecAt' = ecAt
         /\ ecCall' = ecCall /\ ret' = ret /\ panicked' = panicked /\ careless' = careless /\ driver' = driver
         /\ installed' = installed /\ ecTodo' = ecTodo
         /\ \A k : Where(k)' = Where(k)
         /\ \A j : After(j)' = After(j)
         /\ \A m : ReadSoFar(m) => ReadSoFar(m)'
PROOF
  <1>1. UNCHANGED <<driver, installed, ecCall, order, ecTodo, ecAt, ret, panicked, wanted, careless>>
    BY DEF EcStep
  <1>2. /\ Size' = Size /\ FirstUnit' = FirstUnit /\ (Reading' <=> Reading) /\ (Writing' <=> Writing)
        /\ (Bursting' <=> Bursting) /\ (Known' <=> Known)
        /\ \A k : Where(k)' = Where(k)
        /\ \A j : After(j)' = After(j)
    BY <1>1, FixedCall
  <1>3. \A m : ReadSoFar(m) => ReadSoFar(m)'
    BY <1>1, <1>2 DEF ReadSoFar
  <1>4. QED
    BY <1>1, <1>2, <1>3

(* What the controller holds for a byte stays true while it works.         *)
LEMMA ServingUnits ==
  ASSUME EcTypes, ecCall # NoCall, Reading \/ Writing, NEW m \in 1..(Size + 1), NEW i \in 1..6, InUnit(m, i),
         Obeying \/ Calming
  PROVE  /\ Bursting => Holds(ec', burstLost')
         /\ ~Bursting => ~ec'.burst
         /\ Reading => ReadStage(ec', i, Where(m), wanted)
         /\ Writing => WriteStage(ec', i, Where(m), After(m - 1))
PROOF
  <1>1. /\ m <= Size \/ i = 1
        /\ IF Bursting THEN Holds(ec, burstLost) ELSE ~ec.burst
        /\ Reading => ReadStage(ec, i, Where(m), wanted)
        /\ Writing => WriteStage(ec, i, Where(m), After(m - 1))
    BY DEF InUnit
  <1>2. CASE Calming
    BY <1>1, <1>2, CalmingUnits DEF Calming
  <1>3. CASE Obeying
    <2>1. /\ Reading => ReadStage(ec', i, Where(m), wanted) /\ Quietly(ec, ec', burstLost, burstLost', told, told')
          /\ Writing => WriteStage(ec', i, Where(m), After(m - 1)) /\ Quietly(ec, ec', burstLost, burstLost', told, told')
      <3>1. CASE m <= Size
        <4>1. Where(m) \in Offsets
          <5>1. m \in 1..Size
            BY <3>1, CallFacts
          <5>2. QED
            BY <5>1, CallFacts
        <4>2. QED
          BY <1>1, <1>3, <4>1, ObeyingReads, ObeyingWrites DEF Obeying
      <3>2. CASE i = 1
        <4>1. ~Reading
          BY <1>1, <1>3, <3>2 DEF Obeying, Obeys, ReadStage, Rests, EcHas
        <4>2. Settles(ec, After(m - 1))
          BY <1>1, <3>2, <4>1 DEF WriteStage
        <4>3. Settles(ec', After(m - 1)) /\ Quietly(ec, ec', burstLost, burstLost', told, told')
          BY <1>3, <4>2, ObeyingSettles DEF Obeying
        <4>4. WriteStage(ec', 1, Where(m), After(m - 1))
          BY <4>3, WriteGoesOn
        <4>5. QED
          BY <3>2, <4>1, <4>3, <4>4
      <3>3. QED
        BY <1>1, <3>1, <3>2
    <2>2. Quietly(ec, ec', burstLost, burstLost', told, told')
      BY <2>1
    <2>3. QED
      BY <1>1, <2>1, <2>2 DEF Quietly, Holds
  <1>4. QED
    BY <1>2, <1>3

(* A conversation stays where it is while the controller works.            *)
LEMMA ServingConverses ==
  ASSUME EcTypes, ecCall # NoCall, Conversing, EcStep, Obeying \/ Calming
  PROVE  Conversing'
PROOF
  <1>1. CASE \E i \in 1..3 : Enabling(i)
    <2>1. PICK i \in 1..3 : Enabling(i)
      BY <1>1
    <2>2. EnableStage(ec', burstLost', i, wanted)
      BY <2>1, ObeyingEnables, CalmingBursts DEF Obeying, Calming, Enabling
    <2>3. Enabling(i)'
      BY <2>1, <2>2, EcStepKeeps DEF Enabling
    <2>4. QED
      BY <2>3 DEF Conversing
  <1>2. CASE (Reading \/ Writing) /\ \E m \in 1..(Size + 1), i \in 1..6 : InUnit(m, i)
    <2>1. PICK m \in 1..(Size + 1), i \in 1..6 : InUnit(m, i)
      BY <1>2
    <2>2. /\ Bursting => Holds(ec', burstLost')
          /\ ~Bursting => ~ec'.burst
          /\ Reading => ReadStage(ec', i, Where(m), wanted)
          /\ Writing => WriteStage(ec', i, Where(m), After(m - 1))
      BY <1>2, <2>1, ServingUnits
    <2>3. /\ ecAt = FirstUnit + 6 * (m - 1) + i /\ (m <= Size \/ i = 1)
          /\ Reading => ReadSoFar(m)
      BY <2>1 DEF InUnit
    <2>4. InUnit(m, i)'
      BY <2>2, <2>3, EcStepKeeps DEF InUnit
    <2>5. (Reading \/ Writing)' /\ m \in 1..(Size' + 1)
      BY <1>2, EcStepKeeps
    <2>6. QED
      BY <2>4, <2>5 DEF Conversing
  <1>3. CASE \E i \in 2..4 : Disabling(i)
    <2>1. PICK i \in 2..4 : Disabling(i)
      BY <1>3
    <2>2. DisableStage(ec', burstLost', i, <<>>, After(Size))
      BY <2>1, ObeyingDisables, CalmingBursts DEF Obeying, Calming, Disabling
    <2>3. Disabling(i)'
      BY <2>1, <2>2, EcStepKeeps DEF Disabling
    <2>4. QED
      BY <2>3 DEF Conversing
  <1>4. CASE \E k \in 4..10 : Querying(k)
    <2>1. PICK k \in 4..10 : Querying(k)
      BY <1>4
    <2>2. QueryStage(ec, burstLost, k, told, wanted, ret[1])
      BY <2>1 DEF Querying
    <2>3. QueryStage(ec', burstLost', k, told', wanted, ret[1])
      <3>1. CASE Obeying
        BY <2>2, <3>1, ObeyingQueries DEF Obeying
      <3>2. CASE Calming
        BY <2>2, <3>2, CalmingBursts DEF Calming
      <3>3. QED
        BY <3>1, <3>2
    <2>4. Querying(k)'
      BY <2>1, <2>3, EcStepKeeps DEF Querying
    <2>5. QED
      BY <2>4 DEF Conversing
  <1>5. QED
    BY <1>1, <1>2, <1>3, <1>4 DEF Conversing

(* Between two calls the controller only finishes what the last one left.  *)
LEMMA ServingRests ==
  ASSUME EcStep, Obeying \/ Calming
  PROVE  /\ Resting => Resting'
         /\ Refused => Refused'
PROOF
  <1>1. ASSUME Resting PROVE Resting'
    <2>1. CASE Calming
      <3>1. (Settles(ec, wanted) => Settles(ec', wanted)) /\ (~ec.burst => ~ec'.burst)
        BY <2>1, CalmingUnits DEF Calming
      <3>2. \A ibf, obf, expect, m : EcHas(ec, ibf, obf, expect, m) => EcHas(ec', ibf, obf, expect, m)
        BY <2>1 DEF EcHas, Calming, Calms, Inside
      <3>3. QED
        BY <1>1, <3>1, <3>2, EcStepKeeps DEF Resting
    <2>2. CASE Obeying
      <3>1. CASE Settles(ec, wanted)
        <4>1. Settles(ec', wanted) /\ Quietly(ec, ec', burstLost, burstLost', told, told')
          BY <2>2, <3>1, ObeyingSettles DEF Obeying
        <4>2. QED
          BY <1>1, <4>1, EcStepKeeps DEF Resting, Quietly
      <3>2. CASE EcHas(ec, InCmd(BURST_DISABLE), <<>>, "command", wanted)
        <4>1. Rests(ec', wanted) /\ ~ec'.burst
          BY <2>2, <3>2 DEF Obeying, Obeys, ObeysDisable, EcHas, Rests
        <4>2. QED
          BY <4>1, EcStepKeeps DEF Resting, Settles
      <3>3. QED
        BY <1>1, <3>1, <3>2 DEF Resting
    <2>3. QED
      BY <2>1, <2>2
  <1>2. ASSUME Refused PROVE Refused'
    <2>1. Rests(ec, wanted)
      BY <1>2 DEF Refused
    <2>2. ~Obeying
      BY <2>1 DEF Rests, EcHas, Obeying, Obeys
    <2>3. Calming
      BY <2>2
    <2>4. Rests(ec', wanted) /\ ~ec'.burst
      BY <1>2, <2>1, <2>3 DEF Rests, EcHas, Calming, Calms, Inside, Refused
    <2>5. QED
      BY <1>2, <2>4, EcStepKeeps DEF Refused
  <1>3. QED
    BY <1>1, <1>2

-----------------------------------------------------------------------------
(* Every call makes accesses of the driver's functions only.               *)
LEMMA Accessed ==
  ASSUME EcTypes, AccessesLeft
  PROVE  /\ ecCall # NoCall
         /\ ecTodo[ecAt].op = "cmd" => EcArg \in Commands
         /\ ecTodo[ecAt].op = "data" => EcArg \in Offsets \cup Values
PROOF
  <1>1. ecAt \in Nat \ {0} /\ ecAt <= Len(ecTodo)
    BY DEF EcTypes, AccessesLeft
  <1>2. ecCall # NoCall
    <2>1. SUFFICES ASSUME ecCall = NoCall PROVE FALSE
      OBVIOUS
    <2>2. ecTodo = <<>>
      BY <2>1 DEF EcTypes
    <2>3. QED
      BY <1>1, <2>2
  <1>3. ecTodo \in Seq(PortAccess)
    <2>1. CASE Known
      BY <1>2, <2>1, KindsAre, BurstAccesses, SingleAccesses, QueryAccesses
    <2>2. CASE ~Known
      <3>1. ecTodo = Accesses(ecCall, order)
        BY <1>2 DEF EcTypes
      <3>2. ecTodo = enable_burst \o disable_burst \/ ecTodo = <<>>
        BY <2>2, <3>1 DEF Accesses
      <3>3. Follows(enable_burst \o disable_burst, enable_burst, disable_burst)
        BY Joined, Scripts
      <3>4. enable_burst \o disable_burst \in Seq(PortAccess)
        BY <3>3 DEF Follows
      <3>5. <<>> \in Seq(PortAccess)
        OBVIOUS
      <3>6. QED
        BY <3>2, <3>4, <3>5
    <2>3. QED
      BY <2>1, <2>2
  <1>4. ecTodo[ecAt] \in PortAccess
    <2>1. ecAt \in 1..Len(ecTodo)
      BY <1>1, <1>3
    <2>2. QED
      BY <1>3, <2>1, ElementOfSeq
  <1>5. QED
    BY <1>2, <1>4 DEF PortAccess, EcArg

(* What a write leaves in the input buffer.                                *)
LEMMA OutbKeeps ==
  ASSUME ec \in Controllers, NEW port, NEW byte, Outb(port, byte),
         port = EcCmd => byte \in Commands, port = EcData => byte \in Offsets \cup Values
  PROVE  ec' \in Controllers
PROOF
  <1>1. CASE port \notin {EcCmd, EcData}
    BY <1>1 DEF Outb
  <1>2. CASE port \in {EcCmd, EcData}
    <2>1. PICK kept \in {[port |-> port, byte |-> byte]} \cup ToSet(ec.ibf) : ec' = [ec EXCEPT !.ibf = <<kept>>]
      BY <1>2 DEF Outb
    <2>2. <<kept>> \in Inputs
      <3>1. CASE kept = [port |-> port, byte |-> byte]
        <4>1. CASE port = EcCmd
          <5>1. <<kept>> = InCmd(byte) /\ byte \in Commands
            BY <3>1, <4>1 DEF InCmd
          <5>2. QED
            BY <5>1 DEF Inputs
        <4>2. CASE port = EcData
          <5>1. <<kept>> = InData(byte) /\ byte \in Offsets \cup Values
            BY <3>1, <4>2 DEF InData
          <5>2. QED
            BY <5>1 DEF Inputs
        <4>3. QED
          BY <1>2, <4>1, <4>2
      <3>2. CASE kept \in ToSet(ec.ibf)
        <4>1. ec.ibf \in Inputs
          BY DEF Controllers
        <4>2. PICK x \in DOMAIN ec.ibf : kept = ec.ibf[x]
          BY <3>2 DEF ToSet
        <4>3. ec.ibf # <<>>
          BY <4>2
        <4>4. <<kept>> = ec.ibf
          <5>1. (\E b \in Commands : ec.ibf = InCmd(b)) \/ (\E b \in Offsets \cup Values : ec.ibf = InData(b))
            BY <4>1, <4>3 DEF Inputs
          <5>2. PICK a : ec.ibf = <<a>>
            BY <5>1 DEF InCmd, InData
          <5>3. QED
            BY <4>2, <5>2
        <4>5. QED
          BY <4>1, <4>4
      <3>3. QED
        BY <2>1, <3>1, <3>2
    <2>3. QED
      BY <2>1, <2>2 DEF Controllers
  <1>3. QED
    BY <1>1, <1>2

(* What a read returns.                                                    *)
LEMMA InbReturns ==
  ASSUME EcTypes
  PROVE  /\ Inb \subseteq Values \cup {Ack}
         /\ Taken => ec' \in Controllers
PROOF
  <1>1. 0 \in Values /\ ec \in Controllers
    BY LaiEcAssumption DEF EcTypes
  <1>2. ec.obf \in Outputs
    BY <1>1 DEF Controllers
  <1>3. ec.obf # <<>> => ec.obf[1] \in Values \cup {Ack}
    BY <1>2 DEF Outputs
  <1>4. Inb \subseteq Values \cup {Ack}
    BY <1>1, <1>3 DEF Inb
  <1>5. <<>> \in Outputs
    BY DEF Outputs
  <1>6. Taken => ec' \in Controllers
    BY <1>1, <1>5 DEF Taken, Controllers
  <1>7. QED
    BY <1>4, <1>6

(* The typed variables outside the controller, while a call lasts or not.  *)
LEMMA CallKept ==
  ASSUME EcTypes, ecAt' \in Nat \ {0}, UNCHANGED <<driver, ecCall, order, ecTodo>>,
         installed' \in BOOLEAN, panicked' \in BOOLEAN, burstLost' \in BOOLEAN, careless' \in BOOLEAN,
         DOMAIN ret' = DOMAIN ret, \A i \in DOMAIN ret : ret'[i] \in Values \cup {Ack},
         ec' \in Controllers, wanted' \in [Offsets -> Values], told' \in Values
  PROVE  EcTypes'
PROOF
  <1>1. Known' <=> Known
    BY DEF Known
  <1>2. Size' = Size
    BY DEF Size
  <1>3. ecCall # NoCall => /\ ecTodo = Accesses(ecCall, order) /\ DOMAIN ret = 1..Size
                           /\ order \in Orders(Size) /\ (ecCall.kind # "get" => order = InOrder(Size))
    BY DEF EcTypes
  <1>4. Accesses(ecCall, order)' = Accesses(ecCall, order)
    BY <1>1 DEF Accesses
  <1>5. (ecCall # NoCall => /\ ecTodo = Accesses(ecCall, order) /\ DOMAIN ret = 1..Size
                            /\ order \in Orders(Size) /\ (ecCall.kind # "get" => order = InOrder(Size)))'
    BY <1>2, <1>3, <1>4
  <1>6. (\A i \in DOMAIN ret : ret[i] \in Values \cup {Ack})'
    OBVIOUS
  <1>7. /\ driver' \in [cmd_port : {0, EcCmd}, data_port : {0, EcData}]
        /\ ecCall' \in EcCalls \cup {NoCall}
        /\ ecCall' = NoCall => ecTodo' = <<>>
    BY DEF EcTypes
  <1>8. QED
    BY <1>5, <1>6, <1>7 DEF EcTypes

(* An access keeps the types.                                              *)
LEMMA AccessTypes == ASSUME EcTypes, Access PROVE EcTypes' /\ Moves /\ ecCall # NoCall
PROOF
  <1>1. /\ ec \in Controllers /\ ecAt \in Nat \ {0} /\ wanted \in [Offsets -> Values] /\ told \in Values
        /\ installed \in BOOLEAN /\ panicked \in BOOLEAN /\ burstLost \in BOOLEAN /\ careless \in BOOLEAN
        /\ \A i \in DOMAIN ret : ret[i] \in Values \cup {Ack}
        /\ driver \in [cmd_port : {0, EcCmd}, data_port : {0, EcData}]
    BY DEF EcTypes
  <1>2. PICK op : Accessing(op)
    BY DEF Access, PollIbf, PollObf, PollCalm, WriteCmd, WriteData, ReadByte, ReadAck
  <1>3. Moves
    BY <1>2 DEF Accessing, Moves
  <1>4. AccessesLeft
    BY <1>2 DEF Accessing
  <1>5. ecCall # NoCall
    BY <1>4, Accessed
  <1>6. ec' \in Controllers
    <2>1. CASE PollIbf \/ PollObf \/ PollCalm
      BY <1>1, <2>1 DEF PollIbf, PollObf, PollCalm
    <2>2. CASE WriteCmd
      <3>1. EcArg \in Commands /\ Outb(driver.cmd_port, EcArg)
        BY <2>2, <1>4, Accessed DEF WriteCmd, Accessing
      <3>2. driver.cmd_port # EcData
        BY <1>1 DEF EcCmd, EcData
      <3>3. QED
        BY <1>1, <3>1, <3>2, OutbKeeps
    <2>3. CASE WriteData
      <3>1. EcArg \in Offsets \cup Values /\ Outb(driver.data_port, EcArg)
        BY <2>3, <1>4, Accessed DEF WriteData, Accessing
      <3>2. driver.data_port # EcCmd
        BY <1>1 DEF EcCmd, EcData
      <3>3. QED
        BY <1>1, <3>1, <3>2, OutbKeeps
    <2>4. CASE ReadByte \/ ReadAck
      BY <2>4, InbReturns DEF ReadByte, ReadAck
    <2>5. QED
      BY <2>1, <2>2, <2>3, <2>4 DEF Access
  <1>7. DOMAIN ret' = DOMAIN ret /\ \A i \in DOMAIN ret : ret'[i] \in Values \cup {Ack}
    <2>1. CASE ReadByte
      <3>1. PICK b \in Inb : ret' = [ret EXCEPT ![EcArg] = b]
        BY <2>1 DEF ReadByte
      <3>2. b \in Values \cup {Ack}
        BY <3>1, InbReturns
      <3>3. QED
        BY <1>1, <3>1, <3>2
    <2>2. CASE ret' = ret
      BY <1>1, <2>2
    <2>3. QED
      BY <2>1, <2>2 DEF Access, PollIbf, PollObf, PollCalm, WriteCmd, WriteData, ReadAck
  <1>8. panicked' \in BOOLEAN
    <2>1. CASE ReadAck
      BY <2>1 DEF ReadAck
    <2>2. CASE panicked' = panicked
      BY <1>1, <2>2
    <2>3. QED
      BY <2>1, <2>2 DEF Access, PollIbf, PollObf, PollCalm, WriteCmd, WriteData, ReadByte
  <1>9. /\ ecAt' \in Nat \ {0} /\ UNCHANGED <<driver, ecCall, order, ecTodo>>
        /\ installed' \in BOOLEAN /\ burstLost' \in BOOLEAN /\ careless' \in BOOLEAN
        /\ wanted' \in [Offsets -> Values] /\ told' \in Values
    BY <1>1, <1>3 DEF Moves, history
  <1>10. EcTypes'
    BY <1>6, <1>7, <1>8, <1>9, CallKept
  <1>11. QED
    BY <1>3, <1>5, <1>10

(* A step of the controller keeps the types.                               *)
LEMMA ServingTypes ==
  ASSUME EcTypes, Controller \/ EcEvent \/ EcLeaveBurst PROVE EcTypes' /\ EcStep
PROOF
  <1>1. /\ ec \in Controllers /\ told \in Values /\ burstLost \in BOOLEAN /\ <<>> \in Inputs /\ 0 \in Values
    BY LaiEcAssumption DEF EcTypes, Inputs
  <1>2. EcStep
    BY DEF Controller, EcTakeCommand, EcTakeData, EcEvent, EcLeaveBurst
  <1>3. ec' \in Controllers /\ told' \in Values /\ burstLost' \in BOOLEAN
    <2>1. CASE EcTakeCommand
      <3>1. PICK b \in Commands : ec.ibf = InCmd(b) /\ Written = b
        BY <2>1, InputIs DEF EcTakeCommand
      <3>2. <<Ack>> \in Outputs /\ \A v \in Values : <<v>> \in Outputs
        BY DEF Outputs
      <3>3. ec.event \in Values
        BY <1>1 DEF Controllers
      <3>9. /\ READ \notin {BURST_ENABLE, BURST_DISABLE, QUERY, WRITE} /\ WRITE \notin {BURST_ENABLE, BURST_DISABLE, QUERY}
            /\ BURST_ENABLE \notin {BURST_DISABLE, QUERY} /\ BURST_DISABLE # QUERY
        BY DEF READ, WRITE, BURST_ENABLE, BURST_DISABLE, QUERY
      <3>4. CASE b \in {READ, WRITE}
        <4>1. /\ ec' = [ec EXCEPT !.ibf = <<>>, !.expect = IF b = READ THEN "readAt" ELSE "writeAt"]
              /\ told' = told /\ burstLost' = burstLost
          BY <2>1, <3>1, <3>4, <3>9 DEF EcTakeCommand
        <4>2. QED
          BY <1>1, <4>1 DEF Controllers
      <3>5. CASE b = BURST_ENABLE
        <4>1. PICK c \in BOOLEAN : /\ ec' = [ec EXCEPT !.ibf = <<>>, !.obf = <<Ack>>, !.burst = c, !.expect = "command"]
                                   /\ burstLost' = (burstLost \/ ~c) /\ told' = told
          BY <2>1, <3>1, <3>5, <3>9 DEF EcTakeCommand
        <4>2. ec' \in Controllers
          BY <1>1, <3>2, <4>1 DEF Controllers
        <4>3. QED
          BY <1>1, <4>1, <4>2
      <3>6. CASE b = BURST_DISABLE
        <4>1. /\ ec' = [ec EXCEPT !.ibf = <<>>, !.burst = FALSE, !.expect = "command"]
              /\ told' = told /\ burstLost' = burstLost
          BY <2>1, <3>1, <3>6, <3>9 DEF EcTakeCommand
        <4>2. QED
          BY <1>1, <4>1 DEF Controllers
      <3>7. CASE b = QUERY
        <4>1. /\ ec' = [ec EXCEPT !.ibf = <<>>, !.obf = <<ec.event>>, !.event = 0, !.expect = "command"]
              /\ told' = ec.event /\ burstLost' = burstLost
          BY <2>1, <3>1, <3>7, <3>9 DEF EcTakeCommand
        <4>2. ec' \in Controllers
          BY <1>1, <3>2, <3>3, <4>1 DEF Controllers
        <4>3. QED
          BY <1>1, <3>3, <4>1, <4>2
      <3>8. QED
        BY <3>1, <3>4, <3>5, <3>6, <3>7 DEF Commands
    <2>2. CASE EcTakeData
      <3>1. PICK b \in Offsets \cup Values : ec.ibf = InData(b) /\ Written = b
        BY <2>2, InputIs DEF EcTakeData
      <3>2. told' = told /\ burstLost' = burstLost
        BY <2>2 DEF EcTakeData
      <3>3. CASE ec.expect = "readAt" /\ b \in Offsets
        <4>1. ec' = [ec EXCEPT !.ibf = <<>>, !.obf = <<ec.mem[b]>>, !.expect = "command"]
          BY <2>2, <3>1, <3>3 DEF EcTakeData
        <4>2. <<ec.mem[b]>> \in Outputs
          BY <1>1, <3>3 DEF Controllers, Outputs
        <4>3. ec' \in Controllers
          BY <1>1, <4>1, <4>2 DEF Controllers
        <4>4. QED
          BY <1>1, <3>2, <4>3
      <3>4. CASE ec.expect = "writeAt" /\ b \in Offsets
        <4>1. ec' = [ec EXCEPT !.ibf = <<>>, !.addr = b, !.expect = "value"]
          BY <2>2, <3>1, <3>4 DEF EcTakeData
        <4>2. ec' \in Controllers
          BY <1>1, <3>4, <4>1 DEF Controllers
        <4>3. QED
          BY <1>1, <3>2, <4>2
      <3>5. CASE ec.expect = "value" /\ b \in Values
        <4>1. ec' = [ec EXCEPT !.ibf = <<>>, !.mem[ec.addr] = b, !.expect = "command"]
          BY <2>2, <3>1, <3>5 DEF EcTakeData
        <4>2. ec' \in Controllers
          BY <1>1, <3>5, <4>1 DEF Controllers
        <4>3. QED
          BY <1>1, <3>2, <4>2
      <3>6. CASE ~(ec.expect = "readAt" /\ b \in Offsets) /\ ~(ec.expect = "writeAt" /\ b \in Offsets) /\ ~(ec.expect = "value" /\ b \in Values)
        <4>1. ec' = [ec EXCEPT !.ibf = <<>>, !.expect = "command"]
          BY <2>2, <3>1, <3>6 DEF EcTakeData
        <4>2. ec' \in Controllers
          BY <1>1, <4>1 DEF Controllers
        <4>3. QED
          BY <1>1, <3>2, <4>2
      <3>7. QED
        BY <3>3, <3>4, <3>5, <3>6
    <2>3. CASE EcEvent
      <3>1. PICK v \in Values : ec' = [ec EXCEPT !.event = v]
        BY <2>3 DEF EcEvent
      <3>2. ec' \in Controllers
        BY <1>1, <3>1 DEF Controllers
      <3>3. QED
        BY <1>1, <2>3, <3>2 DEF EcEvent
    <2>4. CASE EcLeaveBurst
      <3>1. ec' \in Controllers
        BY <1>1, <2>4 DEF EcLeaveBurst, Controllers
      <3>2. QED
        BY <1>1, <2>4, <3>1 DEF EcLeaveBurst
    <2>5. QED
      BY <2>1, <2>2, <2>3, <2>4 DEF Controller
  <1>4. /\ ecAt' \in Nat \ {0} /\ UNCHANGED <<driver, ecCall, order, ecTodo>>
        /\ installed' \in BOOLEAN /\ panicked' \in BOOLEAN /\ careless' \in BOOLEAN
        /\ wanted' \in [Offsets -> Values] /\ DOMAIN ret' = DOMAIN ret /\ \A i \in DOMAIN ret : ret'[i] \in Values \cup {Ack}
    BY <1>2 DEF EcStep, EcTypes
  <1>5. EcTypes'
    BY <1>3, <1>4, CallKept
  <1>6. QED
    BY <1>2, <1>5

-----------------------------------------------------------------------------
(* Only an access that waits for nothing finds the input buffer in use.    *)
LEMMA WritesWait ==
  ASSUME EcTypes, ecCall # NoCall, Known, Conversing, AccessesLeft, ecTodo[ecAt].op \in {"cmd", "data"}
  PROVE  ec.ibf = <<>>
PROOF
  <1>0. poll_ibf.op = "ibf" /\ poll_obf.op = "obf" /\ read_ack.op = "ack" /\ poll_burst.op = "calm" /\ \A x : In(x).op = "in"
    BY DEF poll_ibf, poll_obf, read_ack, poll_burst, In
  <1>1. CASE \E i \in 1..3 : Enabling(i)
    <2>1. PICK i \in 1..3 : Enabling(i)
      BY <1>1
    <2>2. /\ TodoIs(2, poll_obf)
          /\ TodoIs(3, read_ack)
      <3>1. Bursting
        BY <2>1 DEF Enabling
      <3>2. QED
        BY <3>1, KindsAre, BurstAccesses, QueryAccesses
    <2>3. i = 1
      BY <1>0, <2>1, <2>2 DEF Enabling, TodoIs
    <2>4. QED
      BY <2>1, <2>3 DEF Enabling, EnableStage, Rests, EcHas
  <1>2. CASE (Reading \/ Writing) /\ \E m \in 1..(Size + 1), i \in 1..6 : InUnit(m, i)
    <2>1. PICK m \in 1..(Size + 1), i \in 1..6 : InUnit(m, i)
      BY <1>2
    <2>2. Size \in Nat \ {0} /\ ecAt = FirstUnit + 6 * (m - 1) + i /\ (m <= Size \/ i = 1)
      BY <2>1, CallFacts DEF InUnit
    <2>3. CASE m \in 1..Size
      <3>1. ~(i = 1) /\ ~(i = 3)
        BY <1>0, <1>2, <2>2, <2>3, UnitAccess DEF TodoIs
      <3>2. ~(i = 5)
        BY <1>0, <1>2, <2>2, <2>3, UnitAccess DEF TodoIs
      <3>3. Reading => ~(i = 6)
        BY <1>0, <1>2, <2>2, <2>3, UnitAccess DEF TodoIs
      <3>4. /\ Reading => ReadStage(ec, i, Where(m), wanted)
            /\ Writing => WriteStage(ec, i, Where(m), After(m - 1))
        BY <2>1 DEF InUnit
      <3>5. CASE Reading
        BY <3>1, <3>2, <3>3, <3>4, <3>5 DEF ReadStage, Rests, EcHas
      <3>6. CASE Writing
        BY <3>1, <3>2, <3>4, <3>6 DEF WriteStage, Rests, EcHas
      <3>7. QED
        BY <1>2, <3>5, <3>6
    <2>4. CASE m = Size + 1
      <3>1. i = 1 /\ ecAt = FirstUnit + 6 * Size + 1
        BY <2>2, <2>4
      <3>2. CASE ecCall.kind \in {"get", "put"}
        <4>1. TodoIs(ecAt, poll_ibf)
          BY <3>1, <3>2, KindsAre, BurstAccesses
        <4>2. QED
          BY <1>0, <4>1 DEF TodoIs
      <3>3. CASE ecCall.kind \in {"read", "write"}
        <4>1. ecAt = 7 /\ Len(ecTodo) = 6
          BY <2>2, <3>1, <3>3, KindsAre, CallFacts, SingleAccesses
        <4>2. QED
          BY <4>1 DEF AccessesLeft
      <3>4. QED
        BY <1>2, <3>2, <3>3, KindsAre
    <2>5. QED
      BY <2>2, <2>3, <2>4
  <1>3. CASE \E i \in 2..4 : Disabling(i)
    <2>1. PICK i \in 2..4 : Disabling(i)
      BY <1>3
    <2>2. /\ TodoIs(3 + 6 * Size + 3, poll_burst) /\ Len(ecTodo) = 6 * Size + 6 /\ Size \in Nat
      BY <2>1, BurstAccesses, CallFacts DEF Disabling
    <2>3. ecAt = 3 + 6 * Size + i
      BY <2>1 DEF Disabling
    <2>4. i # 3
      BY <1>0, <2>2, <2>3 DEF TodoIs
    <2>5. i # 4
      BY <2>2, <2>3 DEF AccessesLeft
    <2>6. QED
      BY <2>1, <2>4, <2>5 DEF Disabling, DisableStage, EcHas
  <1>4. CASE \E k \in 4..10 : Querying(k)
    <2>1. PICK k \in 4..10 : Querying(k)
      BY <1>4
    <2>2. /\ TodoIs(5, poll_obf) /\ TodoIs(6, poll_ibf)
          /\ TodoIs(8, poll_burst) /\ TodoIs(9, In(1)) /\ Len(ecTodo) = 9
      BY <2>1, QueryAccesses DEF Querying
    <2>3. ecAt = k /\ QueryStage(ec, burstLost, k, told, wanted, ret[1])
      BY <2>1 DEF Querying
    <2>4. k \in {4, 7}
      <3>1. k # 5 /\ k # 6 /\ k # 8 /\ k # 9
        BY <1>0, <2>2, <2>3 DEF TodoIs
      <3>2. k # 10
        BY <2>2, <2>3 DEF AccessesLeft
      <3>3. QED
        BY <3>1, <3>2
    <2>5. QED
      BY <2>3, <2>4 DEF QueryStage, DisableStage, Rests, EcHas
  <1>5. QED
    BY <1>1, <1>2, <1>3, <1>4 DEF Conversing

(* Where a call is when it has made its accesses.                          *)
Ends ==
  \/ ecCall.kind \in {"read", "write"} /\ InUnit(Size + 1, 1)
  \/ Disabling(4)
  \/ Querying(10)

(* A call that has made its accesses is at one of its ends.                *)
LEMMA CallEnds ==
  ASSUME EcTypes, ecCall # NoCall, Known, Conversing, ~AccessesLeft
  PROVE  Ends
PROOF
  <1>0. ASSUME NEW k, NEW a, TodoIs(k, a) PROVE ecAt # k
    BY <1>0 DEF TodoIs, AccessesLeft
  <1>1. CASE \E i \in 1..3 : Enabling(i)
    <2>1. PICK i \in 1..3 : Enabling(i)
      BY <1>1
    <2>2. Bursting /\ ecAt = i
      BY <2>1 DEF Enabling
    <2>3. /\ TodoIs(1, Cmd(BURST_ENABLE)) /\ TodoIs(2, poll_obf)
          /\ TodoIs(3, read_ack)
      BY <2>2, KindsAre, BurstAccesses, QueryAccesses
    <2>4. QED
      BY <1>0, <2>2, <2>3
  <1>2. CASE (Reading \/ Writing) /\ \E m \in 1..(Size + 1), i \in 1..6 : InUnit(m, i)
    <2>1. PICK m \in 1..(Size + 1), i \in 1..6 : InUnit(m, i)
      BY <1>2
    <2>2. Size \in Nat \ {0} /\ ecAt = FirstUnit + 6 * (m - 1) + i /\ (m <= Size \/ i = 1)
      BY <2>1, CallFacts DEF InUnit
    <2>3. CASE m \in 1..Size
      <3>1. \E a : TodoIs(ecAt, a)
        BY <1>2, <2>2, <2>3, UnitAccess
      <3>2. QED
        BY <1>0, <3>1
    <2>4. CASE m = Size + 1
      <3>1. i = 1 /\ ecAt = FirstUnit + 6 * Size + 1
        BY <2>2, <2>4
      <3>2. CASE ecCall.kind \in {"get", "put"}
        <4>1. TodoIs(ecAt, poll_ibf)
          BY <3>1, <3>2, KindsAre, BurstAccesses
        <4>2. QED
          BY <1>0, <4>1
      <3>3. CASE ecCall.kind \in {"read", "write"}
        BY <2>1, <2>4, <3>1, <3>3 DEF Ends
      <3>4. QED
        BY <1>2, <3>2, <3>3, KindsAre
    <2>5. QED
      BY <2>2, <2>3, <2>4
  <1>3. CASE \E i \in 2..4 : Disabling(i)
    <2>1. PICK i \in 2..4 : Disabling(i)
      BY <1>3
    <2>2. /\ TodoIs(3 + 6 * Size + 2, Cmd(BURST_DISABLE)) /\ TodoIs(3 + 6 * Size + 3, poll_burst)
      BY <2>1, BurstAccesses DEF Disabling
    <2>3. ecAt = 3 + 6 * Size + i
      BY <2>1 DEF Disabling
    <2>4. i # 2 /\ i # 3
      BY <1>0, <2>2, <2>3
    <2>5. i = 4
      BY <2>4
    <2>6. QED
      BY <2>1, <2>5 DEF Ends
  <1>4. CASE \E k \in 4..10 : Querying(k)
    <2>1. PICK k \in 4..10 : Querying(k)
      BY <1>4
    <2>2. /\ TodoIs(4, Cmd(QUERY)) /\ TodoIs(5, poll_obf) /\ TodoIs(6, poll_ibf)
          /\ TodoIs(7, Cmd(BURST_DISABLE)) /\ TodoIs(8, poll_burst) /\ TodoIs(9, In(1))
      BY <2>1, QueryAccesses DEF Querying
    <2>3. ecAt = k
      BY <2>1 DEF Querying
    <2>4. k = 10
      BY <1>0, <2>2, <2>3
    <2>5. QED
      BY <2>1, <2>4 DEF Ends
  <1>5. QED
    BY <1>1, <1>2, <1>3, <1>4 DEF Conversing

(* What a call that has made its accesses has read, and how it leaves the  *)
(* controller.                                                             *)
Leaves ==
  /\ ~ec.burst
  /\ Settles(ec, After(Size)) \/ EcHas(ec, InCmd(BURST_DISABLE), <<>>, "command", After(Size))
  /\ ec.ibf = <<>> \/ burstLost \/ ecCall.kind = "write"
HasRead ==
  /\ Reading => \A i \in 1..Size : ret[i] = wanted[ecCall.offset + i - 1]
  /\ ecCall.kind = "query" => ret[1] = told

(* There it has read what it should, and leaves the controller ready.      *)
LEMMA EndsWell ==
  ASSUME EcTypes, ecCall # NoCall, Ends
  PROVE  Leaves /\ HasRead
PROOF
  <1>0. Size \in Nat \ {0} /\ (Size + 1) - 1 = Size
    BY CallFacts
  <1>1. ASSUME ReadSoFar(Size + 1) PROVE \A i \in 1..Size : ret[i] = wanted[ecCall.offset + i - 1]
    <2> TAKE i \in 1..Size
    <2>1. PICK m \in 1..Size : order[m] = i
      BY CallFacts
    <2>2. ret[order[m]] = wanted[Where(m)]
      BY <1>0, <1>1 DEF ReadSoFar
    <2>3. QED
      BY <2>1, <2>2 DEF Where
  <1>2. CASE ecCall.kind \in {"read", "write"} /\ InUnit(Size + 1, 1)
    <2>1. /\ ~ec.burst
          /\ Reading => ReadStage(ec, 1, Where(Size + 1), wanted) /\ ReadSoFar(Size + 1)
          /\ Writing => WriteStage(ec, 1, Where(Size + 1), After(Size))
      BY <1>0, <1>2, KindsAre DEF InUnit
    <2>2. HasRead
      BY <1>1, <1>2, <2>1 DEF HasRead
    <2>3. CASE ecCall.kind = "read"
      <3>1. Reading /\ ~Writing
        BY <2>3 DEF Reading, Writing
      <3>2. Rests(ec, After(Size))
        BY <2>1, <3>1, AfterIs DEF ReadStage
      <3>3. QED
        BY <2>1, <2>2, <3>2 DEF Leaves, Settles, Rests, EcHas
    <2>4. CASE ecCall.kind = "write"
      <3>1. Writing
        BY <2>4 DEF Writing
      <3>2. Settles(ec, After(Size))
        BY <2>1, <3>1 DEF WriteStage
      <3>3. QED
        BY <2>1, <2>2, <2>4, <3>2 DEF Leaves
    <2>5. QED
      BY <1>2, <2>3, <2>4
  <1>3. CASE Disabling(4)
    <2>1. DisableStage(ec, burstLost, 4, <<>>, After(Size))
      BY <1>3 DEF Disabling
    <2>2. Leaves
      BY <2>1 DEF Leaves, DisableStage, Settles, Rests, EcHas
    <2>3. HasRead
      BY <1>1, <1>3 DEF Disabling, HasRead
    <2>4. QED
      BY <2>2, <2>3
  <1>4. CASE Querying(10)
    <2>1. ecCall.kind = "query" /\ DisableStage(ec, burstLost, 4, <<>>, wanted) /\ ret[1] = told
      BY <1>4 DEF Querying, QueryStage
    <2>2. ~Writing /\ ~Reading
      BY <2>1, KindsAre
    <2>3. DisableStage(ec, burstLost, 4, <<>>, After(Size))
      BY <2>1, <2>2, AfterIs
    <2>4. Leaves
      BY <2>3 DEF Leaves, DisableStage, Settles, Rests, EcHas
    <2>5. QED
      BY <2>1, <2>2, <2>4 DEF HasRead
  <1>5. QED
    BY <1>2, <1>3, <1>4 DEF Ends

-----------------------------------------------------------------------------
(* The parts of the invariant about a careful host.                        *)
Careful ==
  /\ ~panicked
  /\ ecCall = NoCall => Resting
  /\ ecCall # NoCall => IF Known THEN Conversing ELSE Refused

(* The invariant in two parts.                                             *)
LEMMA EcIInvParts == EcIInv <=> EcTypes /\ (careless \/ Careful)
  BY DEF EcIInv, Careful

(* The invariant holds before the driver is initialised.                   *)
LEMMA EcInitHolds == ASSUME EcInit PROVE EcIInv
PROOF
  <1>1. 0 \in Offsets /\ 0 \in Values
    BY LaiEcAssumption
  <1>2. ec = [ibf |-> <<>>, obf |-> <<>>, burst |-> FALSE, expect |-> "command", addr |-> 0, mem |-> [o \in Offsets |-> 0], event |-> 0]
    BY DEF EcInit
  <1>3. ec \in Controllers
    BY <1>1, <1>2 DEF Controllers, Inputs, Outputs
  <1>4. ecCall = NoCall /\ ecTodo = <<>> /\ ecAt = 1 /\ panicked = FALSE
    BY DEF EcInit
  <1>5. \A i \in DOMAIN ret : ret[i] \in Values \cup {Ack}
    BY <1>1 DEF EcInit
  <1>6. EcTypes
    <2>1. driver \in [cmd_port : {0, EcCmd}, data_port : {0, EcData}]
      BY DEF EcInit
    <2>2. installed \in BOOLEAN /\ panicked \in BOOLEAN /\ burstLost \in BOOLEAN /\ careless \in BOOLEAN
      BY DEF EcInit
    <2>3. wanted \in [Offsets -> Values] /\ told \in Values
      BY <1>1 DEF EcInit
    <2>4. QED
      BY <1>3, <1>4, <1>5, <2>1, <2>2, <2>3 DEF EcTypes
  <1>7. ec.ibf = <<>> /\ ec.obf = <<>> /\ ~ec.burst /\ ec.expect = "command" /\ ec.mem = wanted
    BY <1>2 DEF EcInit
  <1>8. Resting
    BY <1>7 DEF Resting, Settles, Rests, EcHas
  <1>9. QED
    BY <1>4, <1>6, <1>8 DEF EcIInv

(* The initialisation functions only touch the driver, between two calls.  *)
LEMMA InitFunctionsKeep ==
  ASSUME EcIInv,
         \/ \E e \in Ecdts : lai_early_init_ec(e)
         \/ \E crs \in CrsLists : lai_init_ec(crs)
         \/ lai_ns_override_opregion
  PROVE  EcIInv'
PROOF
  <1>1. EcTypes /\ (careless \/ Careful)
    BY EcIInvParts
  <1>2. /\ ecCall = NoCall
        /\ UNCHANGED <<ecCall, order, ecTodo, ecAt, ret, panicked, ec, wanted, told, burstLost, careless>>
    BY DEF lai_early_init_ec, lai_init_ec, lai_ns_override_opregion, EcIdle, history
  <1>3. driver \in [cmd_port : {0, EcCmd}, data_port : {0, EcData}]
    BY <1>1 DEF EcTypes
  <1>4. driver' \in [cmd_port : {0, EcCmd}, data_port : {0, EcData}]
    <2>1. CASE lai_ns_override_opregion
      BY <1>3, <2>1 DEF lai_ns_override_opregion
    <2>2. /\ [driver EXCEPT !.cmd_port = EcCmd] \in [cmd_port : {0, EcCmd}, data_port : {0, EcData}]
          /\ [driver EXCEPT !.data_port = EcData] \in [cmd_port : {0, EcCmd}, data_port : {0, EcData}]
          /\ [cmd_port |-> EcCmd, data_port |-> EcData] \in [cmd_port : {0, EcCmd}, data_port : {0, EcData}]
      BY <1>3
    <2>3. ASSUME NEW e \in Ecdts, lai_early_init_ec(e) PROVE driver' \in [cmd_port : {0, EcCmd}, data_port : {0, EcData}]
      <3>1. \/ driver' = driver
            \/ driver' = [driver EXCEPT !.cmd_port = EcCmd]
            \/ driver' = [cmd_port |-> EcCmd, data_port |-> EcData]
        BY <2>3 DEF lai_early_init_ec
      <3>2. QED
        BY <1>3, <2>2, <3>1
    <2>4. ASSUME NEW crs \in CrsLists, lai_init_ec(crs) PROVE driver' \in [cmd_port : {0, EcCmd}, data_port : {0, EcData}]
      <3>1. \/ driver' = driver
            \/ driver' = [driver EXCEPT !.data_port = EcData]
            \/ driver' = [cmd_port |-> EcCmd, data_port |-> EcData]
        BY <2>4 DEF lai_init_ec
      <3>2. QED
        BY <1>3, <2>2, <3>1
    <2>5. QED
      BY <2>1, <2>3, <2>4
  <1>5. installed' \in BOOLEAN
    BY <1>1 DEF lai_early_init_ec, lai_init_ec, lai_ns_override_opregion, EcTypes
  <1>6. EcTypes'
    BY <1>1, <1>2, <1>4, <1>5 DEF EcTypes
  <1>7. Careful => Careful'
    BY <1>2 DEF Careful, Resting
  <1>8. QED
    BY <1>1, <1>2, <1>6, <1>7 DEF EcIInv, Careful

(* A call starts from what the one before has left.                        *)
LEMMA StartCallKeeps ==
  ASSUME EcIInv, NEW c \in EcCalls, StartCall(c)
  PROVE  EcIInv'
PROOF
  <1>1. EcTypes /\ (careless \/ Careful)
    BY EcIInvParts
  <1>2. /\ c.kind \in Kinds /\ Len(c.bytes) \in Nat \ {0}
        /\ DOMAIN c.bytes = 1..Len(c.bytes) /\ c.offset \in Nat
        /\ c.kind \in {"read", "write"} => Len(c.bytes) = 1
        /\ c # NoCall
    BY CallIs
  <1>3. /\ ecCall = NoCall /\ ~panicked /\ ecCall' = c /\ ecAt' = 1 /\ burstLost' = FALSE
        /\ ret' = [i \in DOMAIN c.bytes |-> 0]
        /\ careless' = (careless \/ ec.ibf # <<>> \/ (c.kind \in {"get", "put"} /\ ~Known))
        /\ UNCHANGED <<driver, installed, panicked, ec, wanted, told>>
    BY DEF StartCall, EcIdle
  <1>4. PICK p \in IF c.kind = "get" THEN Orders(Len(c.bytes)) ELSE {InOrder(Len(c.bytes))} :
          order' = p /\ ecTodo' = Accesses(c, p)
    BY DEF StartCall
  <1>5. Size' = Len(c.bytes) /\ (Known' <=> Known)
    BY <1>3 DEF Size, Known
  <1>6. EcTypes'
    <2>1. InOrder(Len(c.bytes)) \in Orders(Len(c.bytes))
      BY <1>2 DEF InOrder, Orders
    <2>2. order' \in Orders(Size') /\ (ecCall'.kind # "get" => order' = InOrder(Size'))
      BY <1>3, <1>4, <1>5, <2>1
    <2>3. ecTodo' = Accesses(ecCall, order)'
      BY <1>3, <1>4, <1>5 DEF Accesses
    <2>4. DOMAIN ret' = 1..Size' /\ \A i \in DOMAIN ret' : ret'[i] \in Values \cup {Ack}
      BY <1>2, <1>3, <1>5, LaiEcAssumption
    <2>5. /\ driver' \in [cmd_port : {0, EcCmd}, data_port : {0, EcData}]
          /\ installed' \in BOOLEAN /\ panicked' \in BOOLEAN
          /\ ec' \in Controllers /\ wanted' \in [Offsets -> Values] /\ told' \in Values
      BY <1>1, <1>3 DEF EcTypes
    <2>6. burstLost' \in BOOLEAN /\ careless' \in BOOLEAN
      BY <1>1, <1>3 DEF EcTypes
    <2>7. ecCall' \in EcCalls \cup {NoCall} /\ ecAt' \in Nat \ {0} /\ ecCall' # NoCall
      BY <1>2, <1>3
    <2>8. QED
      BY <2>2, <2>3, <2>4, <2>5, <2>6, <2>7 DEF EcTypes
  <1>7. ASSUME ~careless' PROVE Careful'
    <2>1. ~careless /\ ec.ibf = <<>> /\ (c.kind \in {"get", "put"} => Known)
      BY <1>3, <1>7
    <2>2. Resting
      BY <1>1, <1>3, <2>1 DEF Careful
    <2>3. Rests(ec, wanted) /\ ~ec.burst
      BY <2>1, <2>2, Distinct DEF Resting, Settles, EcHas
    <2>4. Rests(ec', wanted') /\ ~ec'.burst
      BY <1>3, <2>3
    <2>5. CASE ~Known
      <3>1. c.kind \in {"read", "write", "query"}
        BY <1>2, <2>1, <2>5 DEF Kinds
      <3>2. \A i \in DOMAIN ret' : ret'[i] = 0
        BY <1>3
      <3>3. Refused'
        BY <1>3, <2>4, <3>1, <3>2 DEF Refused
      <3>4. QED
        BY <1>2, <1>3, <1>5, <2>5, <3>3 DEF Careful
    <2>6. CASE Known /\ c.kind \in {"get", "put", "query"}
      <3>1. Bursting'
        BY <1>3, <2>6 DEF Bursting
      <3>2. EnableStage(ec', burstLost', 1, wanted')
        BY <2>4 DEF EnableStage
      <3>3. Enabling(1)'
        BY <1>3, <3>1, <3>2 DEF Enabling
      <3>4. Conversing'
        BY <3>3 DEF Conversing
      <3>5. QED
        BY <1>2, <1>3, <1>5, <2>6, <3>4 DEF Careful
    <2>7. CASE Known /\ c.kind \in {"read", "write"}
      <3>1. ~Bursting' /\ (Reading \/ Writing)' /\ (Writing' => ~Reading')
        BY <1>3, <2>7 DEF Bursting, Reading, Writing
      <3>2. Size' = 1 /\ FirstUnit' = 0
        BY <1>2, <1>5, <2>7, <3>1 DEF FirstUnit
      <3>3. ReadStage(ec', 1, Where(1)', wanted')
        BY <2>4 DEF ReadStage
      <3>4. ReadSoFar(1)'
        BY DEF ReadSoFar
      <3>5. After(0)' = wanted'
        <4>1. wanted' \in [Offsets -> Values] /\ Offsets \subseteq Nat
          BY <1>6, LaiEcAssumption DEF EcTypes
        <4>2. \A o \in Offsets : ~(o - c.offset \in 0..(0 - 1))
          BY <1>2, <4>1
        <4>3. After(0)' = wanted' \/ After(0)' = [o \in Offsets |-> wanted'[o]]
          BY <1>3, <4>2 DEF After
        <4>4. QED
          BY <4>1, <4>3
      <3>6. WriteStage(ec', 1, Where(1)', After(0)')
        BY <2>4, <3>5 DEF WriteStage, Settles
      <3>7. InUnit(1, 1)'
        BY <1>3, <2>4, <3>1, <3>2, <3>3, <3>4, <3>6 DEF InUnit
      <3>8. 1 \in 1..(Size' + 1) /\ 1 \in 1..6
        BY <3>2
      <3>9. Conversing'
        BY <3>1, <3>7, <3>8 DEF Conversing
      <3>10. QED
        BY <1>2, <1>3, <1>5, <2>7, <3>9 DEF Careful
    <2>8. QED
      BY <1>2, <2>5, <2>6, <2>7 DEF Kinds
  <1>8. QED
    BY <1>6, <1>7 DEF EcIInv, Careful

(* A call leaves the controller as the next one needs it.                  *)
LEMMA FinishKeeps == ASSUME EcIInv, Finish PROVE EcIInv'
PROOF
  <1>1. EcTypes /\ (careless \/ Careful)
    BY EcIInvParts
  <1>2. /\ ecCall # NoCall /\ ~AccessesLeft /\ ~panicked /\ wanted' = IF Known THEN After(Size) ELSE wanted
        /\ ecCall' = NoCall /\ order' = <<1>> /\ ecTodo' = <<>> /\ ecAt' = 1
        /\ UNCHANGED <<driver, installed, ret, panicked, ec, told, burstLost, careless>>
    BY DEF Finish
  <1>3. wanted' \in [Offsets -> Values]
    <2>1. Size \in 0..Size
      BY <1>1, <1>2, CallFacts
    <2>2. After(Size) \in [Offsets -> Values] /\ wanted \in [Offsets -> Values]
      BY <1>1, <1>2, <2>1, AfterIs DEF EcTypes
    <2>3. QED
      BY <1>2, <2>2
  <1>4. EcTypes'
    BY <1>1, <1>2, <1>3 DEF EcTypes
  <1>5. ASSUME ~careless PROVE Careful'
    <2>1. CASE Known
      <3>1. Conversing
        BY <1>1, <1>2, <1>5, <2>1 DEF Careful
      <3>2. Leaves
        BY <1>1, <1>2, <2>1, <3>1, CallEnds, EndsWell
      <3>3. wanted' = After(Size)
        BY <1>2, <2>1
      <3>4. Resting'
        BY <1>2, <3>2, <3>3 DEF Leaves, Resting
      <3>5. QED
        BY <1>2, <3>4 DEF Careful
    <2>2. CASE ~Known
      <3>1. Refused
        BY <1>1, <1>2, <1>5, <2>2 DEF Careful
      <3>2. Resting'
        BY <1>2, <2>2, <3>1 DEF Refused, Resting, Settles
      <3>3. QED
        BY <1>2, <3>2 DEF Careful
    <2>3. QED
      BY <2>1, <2>2
  <1>6. QED
    BY <1>2, <1>4, <1>5 DEF EcIInv, Careful

(* A driver that was refused makes no access.                              *)
LEMMA RefusedIsDone == ASSUME EcTypes, ecCall # NoCall, ~Known, Refused PROVE ~AccessesLeft
PROOF
  <1>1. ecTodo = <<>> /\ ecAt = 1
    BY DEF EcTypes, Accesses, Refused
  <1>2. QED
    BY <1>1 DEF AccessesLeft

(* An access, of a careful host or not.                                    *)
LEMMA AccessKeeps == ASSUME EcIInv, Access PROVE EcIInv'
PROOF
  <1>1. EcTypes /\ (careless \/ Careful)
    BY EcIInvParts
  <1>2. EcTypes' /\ Moves /\ ecCall # NoCall
    BY <1>1, AccessTypes
  <1>3. careless' = careless /\ ecCall' = ecCall /\ (Known' <=> Known)
    BY <1>2, MovesKeep
  <1>4. ASSUME Careful PROVE Careful'
    <2>1. Known
      <3>1. SUFFICES ASSUME ~Known PROVE FALSE
        OBVIOUS
      <3>2. ~AccessesLeft
        BY <1>1, <1>2, <1>4, <3>1, RefusedIsDone DEF Careful
      <3>3. QED
        BY <3>2 DEF Access, PollIbf, PollObf, PollCalm, WriteCmd, WriteData, ReadByte, ReadAck, Accessing
    <2>2. Conversing
      BY <1>2, <1>4, <2>1 DEF Careful
    <2>3. Conversing' /\ panicked' = panicked
      BY <1>1, <1>2, <2>1, <2>2, AccessGoesOn DEF GoesOn
    <2>4. QED
      BY <1>2, <1>3, <1>4, <2>1, <2>3 DEF Careful
  <1>5. QED
    BY <1>1, <1>2, <1>3, <1>4 DEF EcIInv, Careful

(* A step of the controller.                                               *)
LEMMA ServingKeeps == ASSUME EcIInv, Controller \/ EcEvent \/ EcLeaveBurst PROVE EcIInv'
PROOF
  <1>1. EcTypes /\ (careless \/ Careful)
    BY EcIInvParts
  <1>2. EcTypes' /\ EcStep
    BY <1>1, ServingTypes
  <1>3. Obeying \/ Calming
    BY <1>1, CommandObeyed, DataObeyed, EventCalms, LeavingCalms DEF Controller
  <1>4. careless' = careless /\ ecCall' = ecCall /\ (Known' <=> Known) /\ panicked' = panicked
    BY <1>2, EcStepKeeps
  <1>5. (Resting => Resting') /\ (Refused => Refused')
    BY <1>2, <1>3, ServingRests
  <1>6. ecCall # NoCall /\ Conversing => Conversing'
    BY <1>1, <1>2, <1>3, ServingConverses
  <1>7. Careful => Careful'
    BY <1>4, <1>5, <1>6 DEF Careful
  <1>8. QED
    BY <1>1, <1>2, <1>4, <1>7 DEF EcIInv, Careful

-----------------------------------------------------------------------------
(* The invariant of the driver and the controller: beside a controller     *)
(* that leaves burst mode when it likes, the driver always knows what is   *)
(* in the two buffers and what the controller expects next, until a host   *)
(* makes a call before the one before has settled or before both ports are *)
(* known.                                                                  *)
THEOREM EcConverses == EcSpec => []EcIInv
PROOF
  <1>1. EcInit => EcIInv
    BY EcInitHolds
  <1>2. EcIInv /\ [EcNext]_ecVars => EcIInv'
    <2>1. SUFFICES ASSUME EcIInv, [EcNext]_ecVars PROVE EcIInv'
      OBVIOUS
    <2>2. CASE (\E e \in Ecdts : lai_early_init_ec(e)) \/ (\E crs \in CrsLists : lai_init_ec(crs)) \/ lai_ns_override_opregion
      BY <2>1, <2>2, InitFunctionsKeep
    <2>3. CASE \E c \in EcCalls : StartCall(c)
      BY <2>1, <2>3, StartCallKeeps
    <2>4. CASE Finish
      BY <2>1, <2>4, FinishKeeps
    <2>5. CASE Access
      BY <2>1, <2>5, AccessKeeps
    <2>6. CASE Controller \/ EcEvent \/ EcLeaveBurst
      BY <2>1, <2>6, ServingKeeps
    <2>7. CASE UNCHANGED ecVars
      <3>1. UNCHANGED <<driver, installed, ecCall, order, ecTodo, ecAt, ret, panicked, ec, wanted, told, burstLost, careless>>
        BY <2>7 DEF ecVars, history
      <3>2. EcTypes'
        BY <2>1, <3>1, CallKept DEF EcIInv, EcTypes
      <3>3. EcStep /\ Calming
        BY <3>1 DEF EcStep, Calming, Calms, Inside
      <3>4. (Resting => Resting') /\ (Refused => Refused')
        BY <3>3, ServingRests
      <3>5. EcTypes /\ ecCall # NoCall /\ Conversing => Conversing'
        BY <3>3, ServingConverses
      <3>6. careless' = careless /\ ecCall' = ecCall /\ (Known' <=> Known) /\ panicked' = panicked
        BY <3>3, EcStepKeeps
      <3>7. QED
        BY <2>1, <3>2, <3>4, <3>5, <3>6 DEF EcIInv
    <2>8. QED
      BY <2>1, <2>2, <2>3, <2>4, <2>5, <2>6, <2>7 DEF EcNext
  <1>3. QED
    BY <1>1, <1>2, PTL DEF EcSpec

(* What a call has read when it has made its accesses, what the            *)
(* controller's memory is between two calls, and that enable_burst does    *)
(* not panic: for every memory, every width of access, every order of the  *)
(* bytes of a read and every moment at which the controller drops out of   *)
(* burst mode.                                                             *)
THEOREM EcReadsWhatWasWritten == EcSpec => [](EcTypeOK /\ ReadsCorrect /\ MemoryConsistent /\ EcNoPanic)
PROOF
  <1>1. EcIInv => EcTypeOK
    <2>1. SUFFICES ASSUME EcTypes PROVE EcTypeOK
      BY DEF EcIInv
    <2>2. ec \in Controllers
      BY <2>1 DEF EcTypes
    <2>3. Len(ec.ibf) <= 1
      <3>1. ec.ibf \in Inputs
        BY <2>2 DEF Controllers
      <3>2. Len(<<>>) <= 1 /\ \A b : Len(InCmd(b)) <= 1 /\ Len(InData(b)) <= 1
        BY DEF InCmd, InData
      <3>3. QED
        BY <3>1, <3>2 DEF Inputs
    <2>4. Len(ec.obf) <= 1
      <3>1. ec.obf \in Outputs
        BY <2>2 DEF Controllers
      <3>2. Len(<<>>) <= 1 /\ \A b : Len(<<b>>) <= 1
        OBVIOUS
      <3>3. QED
        BY <3>1, <3>2 DEF Outputs
    <2>5. ec.mem \in [Offsets -> Values]
      BY <2>2 DEF Controllers
    <2>6. {installed, panicked, burstLost, careless} \subseteq BOOLEAN
      BY <2>1 DEF EcTypes
    <2>7. QED
      BY <2>1, <2>3, <2>4, <2>5, <2>6 DEF EcTypes, EcTypeOK
  <1>2. EcIInv => ReadsCorrect
    <2>1. SUFFICES ASSUME EcIInv, ecCall # NoCall, ~AccessesLeft, ~panicked, ~careless
                   PROVE  /\ ecCall.kind = "read" => ret[1] = IF Known THEN wanted[ecCall.offset] ELSE 0
                          /\ ecCall.kind = "get" => \A i \in DOMAIN ret : ret[i] = wanted[ecCall.offset + i - 1]
                          /\ ecCall.kind = "query" => ret[1] = IF Known THEN told ELSE 0
      BY DEF ReadsCorrect
    <2>2. EcTypes /\ Careful
      BY <2>1, EcIInvParts
    <2>3. DOMAIN ret = 1..Size /\ Size \in Nat \ {0} /\ ecCall.offset \in Nat
      BY <2>1, <2>2, CallFacts DEF EcTypes
    <2>4. CASE Known
      <3>1. HasRead
        BY <2>1, <2>2, <2>4, CallEnds, EndsWell DEF Careful
      <3>2. ASSUME Reading, NEW i \in 1..Size PROVE ret[i] = wanted[ecCall.offset + i - 1]
        BY <3>1, <3>2 DEF HasRead
      <3>3. ecCall.kind = "read" => ret[1] = wanted[ecCall.offset]
        <4>1. 1 \in 1..Size /\ ecCall.offset + 1 - 1 = ecCall.offset
          BY <2>3
        <4>2. Reading => ret[1] = wanted[ecCall.offset + 1 - 1]
          BY <3>2, <4>1
        <4>3. QED
          BY <4>1, <4>2 DEF Reading
      <3>4. ecCall.kind = "get" => \A i \in DOMAIN ret : ret[i] = wanted[ecCall.offset + i - 1]
        BY <2>3, <3>2 DEF Reading
      <3>5. ecCall.kind = "query" => ret[1] = told
        BY <3>1 DEF HasRead
      <3>6. QED
        BY <2>4, <3>3, <3>4, <3>5
    <2>5. CASE ~Known
      <3>1. Refused
        BY <2>1, <2>2, <2>5 DEF Careful
      <3>2. ecCall.kind # "get" /\ ret[1] = 0
        BY <2>3, <3>1 DEF Refused
      <3>3. QED
        BY <2>5, <3>2
    <2>6. QED
      BY <2>4, <2>5
  <1>3. EcIInv => MemoryConsistent
    <2>1. SUFFICES ASSUME EcIInv, EcIdle, ec.ibf = <<>>, ~careless
                   PROVE  ec.mem = wanted /\ ec.obf = <<>> /\ ~ec.burst /\ ec.expect = "command"
      BY DEF MemoryConsistent
    <2>2. Resting
      BY <2>1 DEF EcIInv, EcIdle
    <2>3. QED
      BY <2>1, <2>2, Distinct DEF Resting, Settles, Rests, EcHas
  <1>4. EcIInv => EcNoPanic
    BY DEF EcIInv, EcNoPanic
  <1>5. QED
    BY <1>1, <1>2, <1>3, <1>4, EcConverses, PTL

(* The driver writes to a port only when the controller has taken the byte *)
(* before, even when the controller drops out of burst mode in the middle  *)
(* of a call, and a call returns with its bytes taken, but for the two     *)
(* cases CallsSettle names.                                                *)
THEOREM EcLosesNothing == EcSpec => NothingLost /\ CallsSettle
PROOF
  <1>1. EcIInv /\ [EcNext]_ecVars => [(WriteCmd \/ WriteData) /\ ~careless => ec.ibf = <<>>]_ecVars
    <2>1. SUFFICES ASSUME EcIInv, WriteCmd \/ WriteData, ~careless PROVE ec.ibf = <<>>
      OBVIOUS
    <2>2. EcTypes /\ Careful
      BY <2>1, EcIInvParts
    <2>3. AccessesLeft /\ ecTodo[ecAt].op \in {"cmd", "data"}
      BY <2>1 DEF WriteCmd, WriteData, Accessing
    <2>4. ecCall # NoCall
      BY <2>2, <2>3, Accessed
    <2>5. Known
      BY <2>2, <2>3, <2>4, RefusedIsDone DEF Careful
    <2>6. QED
      BY <2>2, <2>3, <2>4, <2>5, WritesWait DEF Careful
  <1>2. EcIInv /\ [EcNext]_ecVars => [Finish /\ ~careless => ec.ibf = <<>> \/ burstLost \/ ecCall.kind = "write"]_ecVars
    <2>1. SUFFICES ASSUME EcIInv, Finish, ~careless PROVE ec.ibf = <<>> \/ burstLost \/ ecCall.kind = "write"
      OBVIOUS
    <2>2. EcTypes /\ Careful /\ ecCall # NoCall /\ ~AccessesLeft
      BY <2>1, EcIInvParts DEF Finish
    <2>3. CASE Known
      BY <2>2, <2>3, CallEnds, EndsWell DEF Careful, Leaves
    <2>4. CASE ~Known
      BY <2>2, <2>4 DEF Careful, Refused, Rests, EcHas
    <2>5. QED
      BY <2>3, <2>4
  <1>3. QED
    BY <1>1, <1>2, EcConverses, PTL DEF EcSpec, NothingLost, CallsSettle

-----------------------------------------------------------------------------
(***************************************************************************)
(* Power management.  What a call still does is a sequence of accesses of  *)
(* known kinds, a wait's is one or two; that, and the arithmetic of the    *)
(* timer, make up the invariant.                                           *)
(***************************************************************************)
(* The accesses of the calls other than a wait.                            *)
PmOps == {"none", "read", "clear", "init", "eval", "finalize", "walk", "poll", "load", "support"}
PmAccess ==
  [op : PmOps, block : Blocks, arg : {"none"} \cup Methods \cup States]
  \cup [op : {"enable"}, block : Blocks, arg : {"buttons", "nothing", "plus", "minus"}]
  \cup [op : {"store"}, block : Blocks, arg : {"stop"} \cup States]
  \cup [op : {"smi"}, block : Blocks, arg : {"enable", "disable"}]

LEMMA PmSteps ==
  /\ \A op \in PmOps, b \in Blocks : PmAt(op, b) \in PmAccess /\ Do(op) \in PmAccess
  /\ \A m \in Methods \cup States : With("eval", "a", m) \in PmAccess
  /\ \A b \in Blocks : /\ \A x \in {"buttons", "nothing", "plus", "minus"} : With("enable", b, x) \in PmAccess
                       /\ \A x \in {"stop"} \cup States : With("store", b, x) \in PmAccess
  /\ \A x \in {"enable", "disable"} : With("smi", "a", x) \in PmAccess
PROOF
  <1>1. "a" \in Blocks
    BY DEF Blocks
  <1>2. \A op \in PmOps, b \in Blocks : PmAt(op, b) \in PmAccess /\ Do(op) \in PmAccess
    BY <1>1 DEF PmAccess, PmAt, Do
  <1>3. \A m \in Methods \cup States : With("eval", "a", m) \in PmAccess
    BY <1>1 DEF PmAccess, With, PmOps
  <1>4. \A b \in Blocks, x \in {"buttons", "nothing", "plus", "minus"} : With("enable", b, x) \in PmAccess
    BY DEF PmAccess, With
  <1>5. \A b \in Blocks, x \in {"stop"} \cup States : With("store", b, x) \in PmAccess
    BY DEF PmAccess, With
  <1>6. \A x \in {"enable", "disable"} : With("smi", "a", x) \in PmAccess
    BY <1>1 DEF PmAccess, With
  <1>7. QED
    BY <1>2, <1>3, <1>4, <1>5, <1>6

LEMMA PmJoined == ASSUME NEW s \in Seq(PmAccess), NEW t \in Seq(PmAccess) PROVE s \o t \in Seq(PmAccess)
  OBVIOUS

LEMMA GetAccesses == lai_get_sci_event \in Seq(PmAccess)
PROOF
  <1>1. "a" \in Blocks /\ (HasB => "b" \in Blocks) /\ {"none", "read", "clear"} \subseteq PmOps
    BY DEF Blocks, PmOps
  <1>2. <<PmAt("read", "a"), PmAt("clear", "a")>> \in Seq(PmAccess) /\ <<Do("none")>> \in Seq(PmAccess)
    BY <1>1, PmSteps
  <1>3. HasB => <<PmAt("read", "b"), PmAt("clear", "b")>> \in Seq(PmAccess)
    BY <1>1, PmSteps
  <1>4. (IF HasB THEN <<PmAt("read", "b"), PmAt("clear", "b")>> ELSE <<>>) \in Seq(PmAccess)
    BY <1>3
  <1>5. QED
    BY <1>2, <1>4, PmJoined DEF lai_get_sci_event, PerBlock

LEMMA SetAccesses == ASSUME NEW x \in {"buttons", "nothing", "plus", "minus"} PROVE lai_set_sci_event(x) \in Seq(PmAccess)
PROOF
  <1>1. "a" \in Blocks /\ (HasB => "b" \in Blocks)
    BY DEF Blocks
  <1>2. <<With("enable", "a", x)>> \in Seq(PmAccess)
    BY <1>1, PmSteps
  <1>3. HasB => <<With("enable", "b", x)>> \in Seq(PmAccess)
    BY <1>1, PmSteps
  <1>4. (IF HasB THEN <<With("enable", "b", x)>> ELSE <<>>) \in Seq(PmAccess)
    BY <1>3
  <1>5. QED
    BY <1>2, <1>4, PmJoined DEF lai_set_sci_event, PerBlock

StoreSteps(x) ==
  <<PmAt("load", "a"), With("store", "a", x)>> \o IF HasB THEN <<PmAt("load", "b"), With("store", "b", x)>> ELSE <<>>

LEMMA StoreAccesses == ASSUME NEW x \in {"stop"} \cup States PROVE StoreSteps(x) \in Seq(PmAccess)
PROOF
  <1>1. "a" \in Blocks /\ (HasB => "b" \in Blocks) /\ "load" \in PmOps
    BY DEF Blocks, PmOps
  <1>2. <<PmAt("load", "a"), With("store", "a", x)>> \in Seq(PmAccess)
    BY <1>1, PmSteps
  <1>3. HasB => <<PmAt("load", "b"), With("store", "b", x)>> \in Seq(PmAccess)
    BY <1>1, PmSteps
  <1>4. (IF HasB THEN <<PmAt("load", "b"), With("store", "b", x)>> ELSE <<>>) \in Seq(PmAccess)
    BY <1>3
  <1>5. QED
    BY <1>2, <1>4, PmJoined DEF StoreSteps

LEMMA EvaluateAccesses == ASSUME NEW m PROVE Evaluate(m) \in Seq(PmAccess)
PROOF
  <1>1. {"init", "finalize"} \subseteq PmOps /\ "a" \in Blocks
    BY DEF PmOps, Blocks
  <1>2. Do("init") \in PmAccess /\ Do("finalize") \in PmAccess /\ (m \in Methods => With("eval", "a", m) \in PmAccess)
    BY <1>1, PmSteps
  <1>3. m \in Methods => <<Do("init"), With("eval", "a", m), Do("finalize")>> \in Seq(PmAccess)
    BY <1>2
  <1>4. QED
    BY <1>3 DEF Evaluate

(* Every call but a wait makes accesses of that kind only.                 *)
LEMMA CallAccesses ==
  /\ lai_enable_acpi \in Seq(PmAccess) /\ lai_disable_acpi \in Seq(PmAccess)
  /\ lai_start_pm_timer \in Seq(PmAccess) /\ lai_stop_pm_timer \in Seq(PmAccess)
  /\ \A s \in States : /\ lai_enter_sleep(s) \in Seq(PmAccess)
                       /\ <<Do("init"), With("eval", "a", s), Do("finalize")>> \in Seq(PmAccess)
  /\ <<Do("init"), Do("finalize")>> \in Seq(PmAccess) /\ <<>> \in Seq(PmAccess)
PROOF
  <1>1. {"init", "finalize", "walk", "poll", "support"} \subseteq PmOps /\ "a" \in Blocks
    BY DEF PmOps, Blocks
  <1>2. Do("init") \in PmAccess /\ Do("finalize") \in PmAccess /\ Do("walk") \in PmAccess /\ Do("poll") \in PmAccess /\ Do("support") \in PmAccess
    BY <1>1, PmSteps
  <1>3. <<Do("walk")>> \in Seq(PmAccess) /\ <<Do("support")>> \in Seq(PmAccess) /\ <<Do("finalize")>> \in Seq(PmAccess)
        /\ <<Do("init"), Do("finalize")>> \in Seq(PmAccess) /\ <<>> \in Seq(PmAccess)
    BY <1>2
  <1>4. <<With("smi", "a", "enable")>> \in Seq(PmAccess) /\ <<With("smi", "a", "disable")>> \in Seq(PmAccess)
    BY PmSteps
  <1>5. [i \in 1..POLLS |-> Do("poll")] \in Seq(PmAccess)
    <2>1. POLLS \in Nat
      BY LaiPmAssumption
    <2>2. QED
      BY <1>2, <2>1
  <1>6. /\ lai_set_sci_event("buttons") \in Seq(PmAccess)
        /\ lai_set_sci_event("nothing") \in Seq(PmAccess)
        /\ lai_set_sci_event("plus") \in Seq(PmAccess)
        /\ lai_set_sci_event("minus") \in Seq(PmAccess)
    BY SetAccesses
  <1>7. lai_enable_acpi \in Seq(PmAccess)
    <2> DEFINE s1 == Evaluate("_SB_._INI")
               s2 == Evaluate("_PIC")
               s3 == [i \in 1..POLLS |-> Do("poll")]
               s4 == lai_set_sci_event("buttons")
    <2>1. s1 \in Seq(PmAccess) /\ s2 \in Seq(PmAccess) /\ s3 \in Seq(PmAccess) /\ s4 \in Seq(PmAccess)
      BY <1>5, <1>6, EvaluateAccesses
    <2>2. lai_enable_acpi = s1 \o <<Do("walk")>> \o s2 \o <<With("smi", "a", "enable")>> \o s3 \o s4 \o lai_get_sci_event
      BY DEF lai_enable_acpi
    <2> HIDE DEF s1, s2, s3, s4
    <2>3. s1 \o <<Do("walk")>> \o s2 \in Seq(PmAccess)
      BY <1>3, <2>1, PmJoined
    <2>4. s1 \o <<Do("walk")>> \o s2 \o <<With("smi", "a", "enable")>> \o s3 \in Seq(PmAccess)
      BY <1>4, <2>1, <2>3, PmJoined
    <2>5. QED
      BY <2>1, <2>2, <2>4, GetAccesses, PmJoined
  <1>8. lai_disable_acpi \in Seq(PmAccess)
    <2> DEFINE s1 == lai_set_sci_event("nothing")
               s2 == StoreSteps("stop")
    <2>1. s1 \in Seq(PmAccess) /\ s2 \in Seq(PmAccess)
      BY <1>6, StoreAccesses
    <2>2. lai_disable_acpi = s1 \o lai_get_sci_event \o s2 \o <<With("smi", "a", "disable")>>
      BY DEF lai_disable_acpi, PerBlock, StoreSteps
    <2> HIDE DEF s1, s2
    <2>3. QED
      BY <1>4, <2>1, <2>2, GetAccesses, PmJoined
  <1>9. ASSUME NEW s \in States
        PROVE  lai_enter_sleep(s) \in Seq(PmAccess) /\ <<Do("init"), With("eval", "a", s), Do("finalize")>> \in Seq(PmAccess)
    <2> DEFINE s1 == Evaluate("_PTS")
               s2 == Evaluate("_GTS")
               s3 == StoreSteps(s)
    <2>1. s1 \in Seq(PmAccess) /\ s2 \in Seq(PmAccess) /\ s3 \in Seq(PmAccess)
      BY EvaluateAccesses, StoreAccesses
    <2>2. lai_enter_sleep(s) = <<Do("init"), With("eval", "a", s)>> \o s1 \o s2 \o s3 \o <<Do("finalize")>>
      BY DEF lai_enter_sleep, PerBlock, StoreSteps
    <2> HIDE DEF s1, s2, s3
    <2>3. With("eval", "a", s) \in PmAccess
      BY PmSteps
    <2>4. <<Do("init"), With("eval", "a", s)>> \in Seq(PmAccess) /\ <<Do("init"), With("eval", "a", s), Do("finalize")>> \in Seq(PmAccess)
      BY <1>2, <2>3
    <2>5. QED
      BY <1>3, <2>1, <2>2, <2>4, PmJoined
  <1>10. lai_start_pm_timer \in Seq(PmAccess) /\ lai_stop_pm_timer \in Seq(PmAccess)
    BY <1>3, <1>6, GetAccesses, PmJoined DEF lai_start_pm_timer, lai_stop_pm_timer
  <1>11. QED
    BY <1>3, <1>7, <1>8, <1>9, <1>10

-----------------------------------------------------------------------------
(* The types, of the registers and of the locals.                          *)
Controls == [sci : BOOLEAN, typ : Nat, slp : BOOLEAN]
PmTypes ==
  /\ status \in [Blocks -> SUBSET Events] /\ enable \in [Blocks -> SUBSET Events] /\ control \in [Blocks -> Controls]
  /\ smi \in {"none", "enable", "disable"} /\ timer \in 0..(Range32 - 1) /\ goal \in 0..(WORD - 1) /\ elapsed \in Nat
  /\ seen \subseteq Events /\ acc \subseteq Events /\ data \in Controls /\ result \in {"none", "success", "unsupported"}
  /\ tardy \in BOOLEAN

(* A wait is before it computes its goal, or it waits: a short timer is    *)
(* never further than it has ticked, unless it has ticked for a word.      *)
Counts(d) == ~Extended => timer + d <= goal + elapsed \/ elapsed >= WORD
Waiting ==
  \/ pmTodo = <<>>
  \/ \E d \in Waits : pmTodo = lai_busy_wait_pm_timer(d)
  \/ \E d \in Waits : pmTodo = <<With("wait", "a", d)>> /\ Counts(d)

(* What a call has read of the status it reports.                          *)
PmIInv ==
  /\ PmTypes
  /\ seen \subseteq acc
  /\ IF pmCall = "wait" THEN Waiting ELSE pmTodo \in Seq(PmAccess)

LEMMA PmInitHolds == PmInit => PmIInv
PROOF
  <1> SUFFICES ASSUME PmInit PROVE PmIInv
    OBVIOUS
  <1>1. 0 \in 0..(Range32 - 1) /\ 0 \in 0..(WORD - 1)
    BY LaiPmAssumption DEF Range32
  <1>2. Off \in Controls
    BY DEF Off, Controls
  <1>3. PmTypes
    BY <1>1, <1>2 DEF PmInit, PmTypes
  <1>4. <<>> \in Seq(PmAccess)
    OBVIOUS
  <1>5. QED
    BY <1>3, <1>4 DEF PmInit, PmIInv

(* The variables that only some accesses touch.                            *)
PmKept == UNCHANGED <<registers, clock, locals, result, tardy>>

LEMMA PmKeptTypes == ASSUME PmTypes, PmKept PROVE PmTypes'
  BY DEF PmTypes, PmKept, registers, clock, locals

(* The calls.                                                              *)
LEMMA StartKeeps ==
  ASSUME PmIInv, CallEnable \/ CallDisable \/ CallGet \/ CallSleep \/ CallStart \/ CallStop \/ CallWait
  PROVE  PmIInv'
PROOF
  <1>1. PICK c, accesses, r :
          /\ PmStart(c, accesses, r) /\ r \in {"success", "unsupported"}
          /\ IF c = "wait" THEN accesses = <<>> \/ \E d \in Waits : accesses = lai_busy_wait_pm_timer(d) ELSE accesses \in Seq(PmAccess)
    <2>1. CASE CallEnable \/ CallDisable \/ CallGet
      BY <2>1, CallAccesses, GetAccesses DEF CallEnable, CallDisable, CallGet
    <2>2. CASE CallSleep
      BY <2>2, CallAccesses DEF CallSleep
    <2>3. CASE CallStart
      BY <2>3, CallAccesses DEF CallStart
    <2>4. CASE CallStop
      BY <2>4, CallAccesses DEF CallStop
    <2>5. CASE CallWait
      BY <2>5 DEF CallWait
    <2>6. QED
      BY <2>1, <2>2, <2>3, <2>4, <2>5
  <1>2. pmCall' = c /\ pmTodo' = accesses /\ result' = r /\ UNCHANGED <<registers, clock, locals, tardy>>
    BY <1>1 DEF PmStart
  <1>3. PmTypes'
    BY <1>1, <1>2 DEF PmIInv, PmTypes, registers, clock, locals
  <1>4. seen' \subseteq acc'
    BY <1>2 DEF PmIInv, locals
  <1>5. IF pmCall' = "wait" THEN Waiting' ELSE pmTodo' \in Seq(PmAccess)
    BY <1>1, <1>2 DEF Waiting
  <1>6. QED
    BY <1>3, <1>4, <1>5 DEF PmIInv

(* What the next access may be.                                            *)
LEMMA AccessFields ==
  ASSUME NEW x \in PmAccess
  PROVE  /\ x.block \in Blocks /\ x.op \notin {"goal", "wait"}
         /\ x.op = "enable" => x.arg \in {"buttons", "nothing", "plus", "minus"}
         /\ x.op = "store" => x.arg \in {"stop"} \cup States
         /\ x.op = "smi" => x.arg \in {"enable", "disable"}
  BY DEF PmAccess, PmOps

LEMMA HeadIs ==
  ASSUME PmIInv, pmTodo # <<>>
  PROVE  /\ pmCall # "wait" => pmTodo \in Seq(PmAccess) /\ Head(pmTodo) \in PmAccess /\ Tail(pmTodo) \in Seq(PmAccess)
         /\ pmCall = "wait" =>
              \/ \E d \in Waits : Head(pmTodo) = With("goal", "a", d) /\ Tail(pmTodo) = <<With("wait", "a", d)>>
              \/ \E d \in Waits : Head(pmTodo) = With("wait", "a", d) /\ Tail(pmTodo) = <<>> /\ Counts(d)
PROOF
  <1>1. CASE pmCall # "wait"
    BY <1>1 DEF PmIInv
  <1>2. CASE pmCall = "wait"
    <2>1. CASE \E d \in Waits : pmTodo = lai_busy_wait_pm_timer(d)
      BY <1>2, <2>1 DEF lai_busy_wait_pm_timer
    <2>2. CASE \E d \in Waits : pmTodo = <<With("wait", "a", d)>> /\ Counts(d)
      BY <1>2, <2>2
    <2>3. QED
      BY <1>2, <2>1, <2>2 DEF PmIInv, Waiting
  <1>3. QED
    BY <1>1, <1>2

(* An access that is not one of a wait.                                    *)
LEMMA NotAWait ==
  ASSUME PmIInv, pmTodo # <<>>, Head(pmTodo).op \notin {"goal", "wait"}
  PROVE  /\ pmCall # "wait" /\ pmTodo \in Seq(PmAccess) /\ Head(pmTodo) \in PmAccess /\ Tail(pmTodo) \in Seq(PmAccess)
         /\ Block \in Blocks
PROOF
  <1>1. pmCall # "wait"
    BY HeadIs DEF With
  <1>2. QED
    BY <1>1, HeadIs, AccessFields DEF Block

(* The accesses that leave registers, clock and locals alone.              *)
LEMMA QuietAccesses ==
  ASSUME PmIInv, InitState \/ Eval \/ Finalize \/ StartWalk \/ Support
  PROVE  PmIInv'
PROOF
  <1>1. PICK op \in {"init", "eval", "finalize", "walk", "support"} : PmStep(op)
    BY DEF InitState, Eval, Finalize, StartWalk, Support
  <1>2. PmKept /\ pmCall' = pmCall
    BY DEF InitState, Eval, Finalize, StartWalk, Support, PmKept
  <1>3. pmTodo # <<>> /\ Head(pmTodo).op \notin {"goal", "wait"} /\ pmTodo' = Tail(pmTodo)
    BY <1>1 DEF PmStep
  <1>4. pmCall' # "wait" /\ pmTodo' \in Seq(PmAccess)
    BY <1>2, <1>3, NotAWait
  <1>5. PmTypes'
    BY <1>2, PmKeptTypes DEF PmIInv
  <1>6. seen' \subseteq acc'
    BY <1>2 DEF PmIInv, PmKept, locals
  <1>7. QED
    BY <1>4, <1>5, <1>6 DEF PmIInv

LEMMA StatusAccesses ==
  ASSUME PmIInv, NoEvents \/ ReadStatus \/ ClearStatus
  PROVE  PmIInv'
PROOF
  <1>1. PICK op \in {"none", "read", "clear"} : PmStep(op)
    BY DEF NoEvents, ReadStatus, ClearStatus
  <1>2. UNCHANGED <<enable, control, smi, clock, pmCall, data, goal, result, tardy>>
    BY DEF NoEvents, ReadStatus, ClearStatus, registers, locals
  <1>3. pmTodo # <<>> /\ Head(pmTodo).op \notin {"goal", "wait"} /\ pmTodo' = Tail(pmTodo)
    BY <1>1 DEF PmStep
  <1>4. pmCall' # "wait" /\ pmTodo' \in Seq(PmAccess) /\ Block \in Blocks
    BY <1>2, <1>3, NotAWait
  <1>5. /\ status' \in [Blocks -> SUBSET Events] /\ seen' \subseteq acc' /\ seen' \subseteq Events /\ acc' \subseteq Events
    <2>1. CASE NoEvents
      BY <2>1 DEF NoEvents, registers, PmIInv, PmTypes
    <2>2. CASE ReadStatus
      BY <2>2, <1>4 DEF ReadStatus, registers, PmIInv, PmTypes
    <2>3. CASE ClearStatus
      BY <2>3, <1>4 DEF ClearStatus, locals, PmIInv, PmTypes
    <2>4. QED
      BY <2>1, <2>2, <2>3
  <1>6. PmTypes'
    BY <1>2, <1>5 DEF PmIInv, PmTypes, clock
  <1>7. QED
    BY <1>4, <1>5, <1>6 DEF PmIInv

LEMMA WriteEnableKeeps == ASSUME PmIInv, WriteEnable PROVE PmIInv'
PROOF
  <1>1. PmStep("enable") /\ UNCHANGED <<status, control, smi, clock, pmCall, locals, result, tardy>>
    BY DEF WriteEnable
  <1>2. pmTodo # <<>> /\ Head(pmTodo).op = "enable" /\ pmTodo' = Tail(pmTodo)
    BY <1>1 DEF PmStep
  <1>3. pmCall' # "wait" /\ pmTodo' \in Seq(PmAccess) /\ Block \in Blocks /\ Head(pmTodo) \in PmAccess
    BY <1>1, <1>2, NotAWait
  <1>4. PmArg \in {"buttons", "nothing", "plus", "minus"}
    BY <1>2, <1>3, AccessFields DEF PmArg
  <1>5. enable' \in [Blocks -> SUBSET Events]
    <2>1. PICK e \in SUBSET Events : enable' = [enable EXCEPT ![Block] = e]
      <3>1. acc \subseteq Events
        BY DEF PmIInv, PmTypes
      <3>2. Buttons \subseteq Events /\ {} \subseteq Events /\ acc \cup {"TMR"} \subseteq Events /\ acc \ {"TMR"} \subseteq Events
        BY <3>1 DEF Buttons, Events
      <3>3. QED
        BY <1>4, <3>2 DEF WriteEnable
    <2>2. QED
      BY <1>3, <2>1 DEF PmIInv, PmTypes
  <1>6. PmTypes' /\ seen' \subseteq acc'
    BY <1>1, <1>5 DEF PmIInv, PmTypes, clock, locals
  <1>7. QED
    BY <1>3, <1>6 DEF PmIInv

LEMMA SendSmiKeeps == ASSUME PmIInv, SendSmi PROVE PmIInv'
PROOF
  <1>1. PmStep("smi") /\ smi' = PmArg /\ UNCHANGED <<status, enable, control, clock, pmCall, locals, result, tardy>>
    BY DEF SendSmi
  <1>2. pmTodo # <<>> /\ Head(pmTodo).op = "smi" /\ pmTodo' = Tail(pmTodo)
    BY <1>1 DEF PmStep
  <1>3. pmCall' # "wait" /\ pmTodo' \in Seq(PmAccess) /\ Head(pmTodo) \in PmAccess
    BY <1>1, <1>2, NotAWait
  <1>4. smi' \in {"none", "enable", "disable"}
    BY <1>1, <1>2, <1>3, AccessFields DEF PmArg
  <1>5. PmTypes' /\ seen' \subseteq acc'
    BY <1>1, <1>4 DEF PmIInv, PmTypes, clock, locals
  <1>6. QED
    BY <1>3, <1>5 DEF PmIInv

(* The loop of polls is left with what comes after it.                     *)
LEMMA PollKeeps == ASSUME PmIInv, Poll PROVE PmIInv'
PROOF
  <1>1. pmTodo # <<>> /\ Head(pmTodo).op = "poll"
        /\ UNCHANGED <<registers, clock, pmCall, locals, result>>
    BY DEF Poll
  <1>2. pmCall' # "wait" /\ pmTodo \in Seq(PmAccess) /\ Tail(pmTodo) \in Seq(PmAccess)
    BY <1>1, NotAWait
  <1>3. pmTodo' \in Seq(PmAccess)
    <2>1. ASSUME NEW k \in DOMAIN pmTodo PROVE SubSeq(pmTodo, k, Len(pmTodo)) \in Seq(PmAccess)
      <3>1. k \in 1..Len(pmTodo) /\ Len(pmTodo) \in Nat
        BY <1>2
      <3>2. QED
        BY <1>2, <3>1, SubSeqProperties
    <2>2. QED
      BY <1>2, <2>1 DEF Poll
  <1>4. tardy' \in BOOLEAN
    BY DEF Poll
  <1>5. PmTypes' /\ seen' \subseteq acc'
    BY <1>1, <1>4 DEF PmIInv, PmTypes, registers, clock, locals
  <1>6. QED
    BY <1>2, <1>3, <1>5 DEF PmIInv

LEMMA LoadKeeps == ASSUME PmIInv, Load PROVE PmIInv'
PROOF
  <1>1. PmStep("load") /\ data' = control[Block] /\ tardy' \in BOOLEAN
        /\ UNCHANGED <<registers, clock, pmCall, seen, acc, goal, result>>
    BY DEF Load
  <1>2. pmTodo # <<>> /\ Head(pmTodo).op = "load" /\ pmTodo' = Tail(pmTodo)
    BY <1>1 DEF PmStep
  <1>3. pmCall' # "wait" /\ pmTodo' \in Seq(PmAccess) /\ Block \in Blocks
    BY <1>1, <1>2, NotAWait
  <1>4. data' \in Controls
    BY <1>1, <1>3 DEF PmIInv, PmTypes
  <1>5. PmTypes' /\ seen' \subseteq acc'
    BY <1>1, <1>4 DEF PmIInv, PmTypes, registers, clock
  <1>6. QED
    BY <1>3, <1>5 DEF PmIInv

LEMMA StoreKeeps == ASSUME PmIInv, Store PROVE PmIInv'
PROOF
  <1>1. PmStep("store") /\ UNCHANGED <<status, enable, smi, clock, pmCall, locals, result, tardy>>
    BY DEF Store
  <1>2. pmTodo # <<>> /\ Head(pmTodo).op = "store" /\ pmTodo' = Tail(pmTodo)
    BY <1>1 DEF PmStep
  <1>3. pmCall' # "wait" /\ pmTodo' \in Seq(PmAccess) /\ Block \in Blocks /\ Head(pmTodo) \in PmAccess
    BY <1>1, <1>2, NotAWait
  <1>4. PmArg \in {"stop"} \cup States
    BY <1>2, <1>3, AccessFields DEF PmArg
  <1>5. PICK c \in Controls : control' = [control EXCEPT ![Block] = c]
    <2>1. data \in Controls
      BY DEF PmIInv, PmTypes
    <2>2. CASE PmArg = "stop"
      <3>1. [data EXCEPT !.sci = FALSE] \in Controls
        BY <2>1 DEF Controls
      <3>2. QED
        BY <2>2, <3>1 DEF Store
    <2>3. CASE PmArg # "stop"
      <3>1. Packages[PmArg] \in [{"a", "b"} -> Nat] /\ Block \in {"a", "b"}
        BY <1>3, <1>4, <2>3, LaiPmAssumption DEF Blocks
      <3>2. Packages[PmArg][Block] \in Nat
        BY <3>1
      <3>3. [data EXCEPT !.typ = Packages[PmArg][Block], !.slp = TRUE] \in Controls
        BY <2>1, <3>2 DEF Controls
      <3>4. QED
        BY <2>3, <3>3 DEF Store
    <2>4. QED
      BY <2>2, <2>3
  <1>6. control' \in [Blocks -> Controls]
    BY <1>3, <1>5 DEF PmIInv, PmTypes
  <1>7. PmTypes' /\ seen' \subseteq acc'
    BY <1>1, <1>6 DEF PmIInv, PmTypes, clock, locals
  <1>8. QED
    BY <1>3, <1>7 DEF PmIInv

(* The goal of a wait.  A short timer and a wait fit the word together, so *)
(* that goal does not wrap.                                                *)
LEMMA GoalFits ==
  ASSUME NEW t \in Nat, NEW d \in Nat, NEW w \in Nat, w > 0
  PROVE  (t + d) % w \in 0..(w - 1) /\ (t + d < w => (t + d) % w = t + d)
  OBVIOUS

LEMMA GoalBelow ==
  ASSUME NEW t \in Nat, NEW d \in Nat, NEW w \in Nat, NEW r \in Nat, t <= r - 1, d <= w - r
  PROVE  t + d < w
  OBVIOUS

LEMMA GoalKeeps == ASSUME PmIInv, Goal PROVE PmIInv'
PROOF
  <1>1. pmTodo # <<>> /\ Head(pmTodo).op = "goal"
        /\ timer' \in 0..(Range32 - 1) /\ goal' = (timer' + PmArg) % WORD /\ elapsed' = 0
        /\ UNCHANGED <<registers, pmCall, seen, acc, data, tardy>>
    BY DEF Goal
  <1>2. pmCall = "wait"
    BY <1>1, HeadIs, AccessFields
  <1>3. PICK d \in Waits : Head(pmTodo) = With("goal", "a", d) /\ Tail(pmTodo) = <<With("wait", "a", d)>>
    BY <1>1, <1>2, HeadIs DEF With
  <1>4. PmArg = d /\ d \in 1..(WORD - TIMER) /\ d \in Nat /\ WORD \in Nat /\ WORD > 0 /\ TIMER \in Nat
    BY <1>3, LaiPmAssumption DEF PmArg, With
  <1>5. Range32 \in Nat /\ timer' \in Nat
    BY <1>1, <1>4 DEF Range32
  <1>6. goal' \in 0..(WORD - 1)
    BY <1>1, <1>4, <1>5, GoalFits
  <1>7. Counts(d)'
    <2>1. SUFFICES ASSUME ~Extended PROVE timer' + d <= goal' + elapsed'
      BY DEF Counts
    <2>2. timer' + d < WORD
      <3>1. timer' <= TIMER - 1 /\ d <= WORD - TIMER
        BY <1>1, <1>4, <2>1 DEF Range32
      <3>2. QED
        BY <1>4, <1>5, <3>1, GoalBelow
    <2>3. goal' = timer' + d
      BY <1>1, <1>4, <1>5, <2>2, GoalFits
    <2>4. QED
      BY <1>1, <1>4, <1>5, <2>3
  <1>8. Waiting' /\ result' \in {"none", "success", "unsupported"}
    <2>1. CASE pmTodo' = <<>> /\ result' = "unsupported"
      BY <2>1 DEF Waiting
    <2>2. CASE pmTodo' = Tail(pmTodo) /\ UNCHANGED result
      BY <1>3, <1>7, <2>2 DEF Waiting, PmIInv, PmTypes
    <2>3. QED
      BY <2>1, <2>2 DEF Goal
  <1>9. PmTypes' /\ seen' \subseteq acc'
    BY <1>1, <1>6, <1>8 DEF PmIInv, PmTypes, registers
  <1>10. QED
    BY <1>1, <1>2, <1>8, <1>9 DEF PmIInv

LEMMA WaitIs ==
  ASSUME PmIInv, pmTodo # <<>>, Head(pmTodo).op = "wait"
  PROVE  pmCall = "wait" /\ \E d \in Waits : pmTodo = <<With("wait", "a", d)>> /\ PmArg = d /\ Counts(d)
PROOF
  <1>1. pmCall = "wait"
    BY HeadIs, AccessFields
  <1>2. PICK d \in Waits : Head(pmTodo) = With("wait", "a", d) /\ Counts(d) /\ pmTodo = <<With("wait", "a", d)>>
    <2>1. ~ \E d \in Waits : pmTodo = lai_busy_wait_pm_timer(d)
      BY DEF lai_busy_wait_pm_timer, With
    <2>2. QED
      BY <1>1, <2>1 DEF PmIInv, Waiting
  <1>3. QED
    BY <1>1, <1>2 DEF PmArg, With

LEMMA WaitOverKeeps == ASSUME PmIInv, WaitOver PROVE PmIInv'
PROOF
  <1>1. pmTodo # <<>> /\ Head(pmTodo).op = "wait" /\ pmTodo' = Tail(pmTodo) /\ PmKept /\ pmCall' = pmCall
    BY DEF WaitOver, PmStep, PmKept
  <1>2. pmCall = "wait" /\ pmTodo' = <<>>
    BY <1>1, WaitIs
  <1>3. PmTypes' /\ seen' \subseteq acc'
    BY <1>1, PmKeptTypes DEF PmIInv, PmKept, locals
  <1>4. QED
    BY <1>1, <1>2, <1>3 DEF PmIInv, Waiting

LEMMA TickKeeps == ASSUME PmIInv, Tick PROVE PmIInv'
PROOF
  <1>1. /\ pmTodo # <<>> /\ Head(pmTodo).op = "wait" /\ timer' = (timer + 1) % Range32
        /\ elapsed' = (IF elapsed < WORD THEN elapsed + 1 ELSE elapsed)
        /\ UNCHANGED <<registers, pmCall, pmTodo, locals, result, tardy>>
    BY DEF Tick
  <1>2. PICK d \in Waits : pmTodo = <<With("wait", "a", d)>> /\ pmCall = "wait" /\ Counts(d)
    BY <1>1, WaitIs
  <1>3. /\ WORD \in Nat /\ Range32 \in Nat /\ Range32 > 0 /\ d \in Nat /\ timer \in 0..(Range32 - 1) /\ elapsed \in Nat
        /\ goal \in Nat
    BY LaiPmAssumption DEF Range32, PmIInv, PmTypes
  <1>4. timer' \in 0..(Range32 - 1) /\ timer' <= timer + 1
    <2>1. CASE timer + 1 < Range32
      BY <1>1, <1>3, <2>1
    <2>2. CASE timer + 1 = Range32
      BY <1>1, <1>3, <2>2
    <2>3. QED
      BY <1>3, <2>1, <2>2
  <1>5. elapsed' \in Nat
    BY <1>1, <1>3
  <1>6. Counts(d)'
    BY <1>1, <1>2, <1>3, <1>4 DEF Counts, locals
  <1>7. PmTypes' /\ seen' \subseteq acc'
    BY <1>1, <1>4, <1>5 DEF PmIInv, PmTypes, registers, locals
  <1>8. QED
    BY <1>1, <1>2, <1>6, <1>7 DEF PmIInv, Waiting

LEMMA PmReturnKeeps == ASSUME PmIInv, PmReturn PROVE PmIInv'
PROOF
  <1>1. /\ pmCall' = "none" /\ pmTodo = <<>> /\ seen' = {} /\ acc' = {} /\ data' = Off /\ goal' = 0 /\ timer' = 0 /\ elapsed' = 0
        /\ result' = "none" /\ UNCHANGED <<registers, pmTodo, tardy>>
    BY DEF PmReturn
  <1>2. 0 \in 0..(Range32 - 1) /\ 0 \in 0..(WORD - 1)
    BY LaiPmAssumption DEF Range32
  <1>3. Off \in Controls
    BY DEF Off, Controls
  <1>4. PmTypes'
    BY <1>1, <1>2, <1>3 DEF PmIInv, PmTypes, registers
  <1>5. pmCall' # "wait" /\ pmTodo' \in Seq(PmAccess)
    BY <1>1
  <1>6. QED
    BY <1>1, <1>4, <1>5 DEF PmIInv

(* A step that leaves the call, the clock and the locals alone.            *)
LEMMA RegistersKeep ==
  ASSUME PmIInv, UNCHANGED <<enable, clock, pmCall, pmTodo, locals, tardy>>,
         status' \in [Blocks -> SUBSET Events], control' \in [Blocks -> Controls],
         smi' \in {"none", "enable", "disable"}, result' \in {"none", "success", "unsupported"}
  PROVE  PmIInv'
PROOF
  <1>1. PmTypes' /\ seen' \subseteq acc'
    BY DEF PmIInv, PmTypes, clock, locals
  <1>2. Waiting => Waiting'
    BY DEF Waiting, Counts, clock, locals
  <1>3. QED
    BY <1>1, <1>2 DEF PmIInv

LEMMA ResetKeeps == ASSUME PmIInv, lai_acpi_reset PROVE PmIInv'
PROOF
  <1>1. CASE UNCHANGED pmVars
    <2>1. PmKept /\ UNCHANGED <<pmCall, pmTodo>>
      BY <1>1 DEF pmVars, PmKept
    <2>2. QED
      BY <2>1, RegistersKeep DEF PmIInv, PmTypes, PmKept, registers
  <1>2. CASE ~ UNCHANGED pmVars
    <2>1. /\ pmCall = "none" /\ UNCHANGED <<clock, pmCall, pmTodo, locals>>
          /\ status' = [b \in Blocks |-> {}] /\ enable' = [b \in Blocks |-> {}] /\ control' = [b \in Blocks |-> Off]
          /\ smi' = "none" /\ result' = "none" /\ tardy' = FALSE
      BY <1>2 DEF lai_acpi_reset
    <2>2. Off \in Controls
      BY DEF Off, Controls
    <2>3. PmTypes' /\ seen' \subseteq acc'
      BY <2>1, <2>2 DEF PmIInv, PmTypes, clock, locals
    <2>4. pmCall' # "wait" /\ pmTodo' \in Seq(PmAccess)
      BY <2>1 DEF PmIInv
    <2>5. QED
      BY <2>3, <2>4 DEF PmIInv
  <1>3. QED
    BY <1>1, <1>2

(* The walk over the devices, the hardware and the firmware.               *)
LEMMA HardwareKeeps == ASSUME PmIInv, lai_init_children \/ Raise \/ ObeySmi \/ PmWake PROVE PmIInv'
PROOF
  <1> USE DEF PmIInv, PmTypes
  <1>1. CASE lai_init_children
    BY <1>1, RegistersKeep DEF lai_init_children, registers
  <1>2. CASE Raise
    <2>1. PICK b \in Blocks, e \in Events : status' = [status EXCEPT ![b] = @ \cup {e}]
      BY <1>2 DEF Raise
    <2>2. status' \in [Blocks -> SUBSET Events]
      BY <2>1
    <2>3. QED
      BY <1>2, <2>2, RegistersKeep DEF Raise
  <1>3. CASE ObeySmi
    <2>1. \A b \in Blocks : control[b] \in Controls /\ [control[b] EXCEPT !.sci = (smi = "enable")] \in Controls
      BY DEF Controls
    <2>2. control' \in [Blocks -> Controls]
      BY <1>3, <2>1 DEF ObeySmi
    <2>3. QED
      BY <1>3, <2>2, RegistersKeep DEF ObeySmi
  <1>4. CASE PmWake
    <2>1. \A b \in Blocks : control[b] \in Controls /\ [control[b] EXCEPT !.slp = FALSE] \in Controls
      BY DEF Controls
    <2>2. control' \in [Blocks -> Controls]
      BY <1>4, <2>1 DEF PmWake
    <2>3. status' \in [Blocks -> SUBSET Events]
      BY <1>4 DEF PmWake, Events
    <2>4. QED
      BY <1>4, <2>2, <2>3, RegistersKeep DEF PmWake
  <1>5. QED
    BY <1>1, <1>2, <1>3, <1>4

LEMMA PmStepKeeps == ASSUME PmIInv, [PmNext]_pmVars PROVE PmIInv'
PROOF
  <1>1. CASE UNCHANGED pmVars
    <2>1. PmKept /\ UNCHANGED <<pmCall, pmTodo>>
      BY <1>1 DEF pmVars, PmKept
    <2>2. QED
      BY <2>1, RegistersKeep DEF PmIInv, PmTypes, PmKept, registers
  <1>2. CASE Software
    BY <1>2, StatusAccesses, WriteEnableKeeps, QuietAccesses, SendSmiKeeps, PollKeeps, LoadKeeps, StoreKeeps, GoalKeeps,
       WaitOverKeeps, PmReturnKeeps, HardwareKeeps DEF Software
  <1>3. CASE CallEnable \/ CallDisable \/ CallGet \/ CallSleep \/ CallStart \/ CallStop \/ CallWait
    BY <1>3, StartKeeps
  <1>4. CASE lai_acpi_reset \/ Raise \/ ObeySmi \/ Tick \/ PmWake
    BY <1>4, ResetKeeps, HardwareKeeps, TickKeeps
  <1>5. QED
    BY <1>1, <1>2, <1>3, <1>4 DEF PmNext

(* The accesses of the calls are those the accesses' handlers know, and    *)
(* what was read of the status is part of what will be reported, at every  *)
(* step of every call.                                                     *)
THEOREM PmInvariance == PmSpec => []PmIInv
PROOF
  <1>1. PmInit => PmIInv
    BY PmInitHolds
  <1>2. PmIInv /\ [PmNext]_pmVars => PmIInv'
    BY PmStepKeeps
  <1>3. QED
    BY <1>1, <1>2, PTL DEF PmSpec

(* The registers and locals keep their types, whatever events the hardware *)
(* raises and whenever the firmware obeys.                                 *)
THEOREM PmTyped == PmSpec => []PmTypeOK
PROOF
  <1>1. PmIInv => PmTypeOK
    BY DEF PmIInv, PmTypes, PmTypeOK, Controls
  <1>2. QED
    BY <1>1, PmInvariance, PTL

(* Only a write of lai_get_sci_event and a reset take an event from the    *)
(* status, and the write only what was read from it before.                *)
LEMMA OnlyReadEventsAreCleared ==
  ASSUME PmIInv, PmNext, ~lai_acpi_reset, NEW b \in Blocks
  PROVE  status[b] \ status'[b] \subseteq acc
PROOF
  <1>1. CASE ClearStatus
    <2>1. status' = [status EXCEPT ![Block] = @ \ seen]
      BY <1>1 DEF ClearStatus
    <2>2. QED
      BY <2>1 DEF PmIInv, PmTypes
  <1>2. CASE Raise
    BY <1>2 DEF Raise, PmIInv, PmTypes
  <1>3. CASE PmWake
    BY <1>3 DEF PmWake, PmIInv, PmTypes
  <1>4. CASE ~ClearStatus /\ ~Raise /\ ~PmWake
    <2>1. CASE CallEnable \/ CallDisable \/ CallGet \/ CallSleep \/ CallStart \/ CallStop \/ CallWait
      BY <2>1 DEF CallEnable, CallDisable, CallGet, CallSleep, CallStart, CallStop, CallWait, PmStart, registers
    <2>2. CASE Software
      BY <1>4, <2>2 DEF Software, NoEvents, ReadStatus, WriteEnable, InitState, Eval, Finalize, StartWalk, SendSmi, Poll, Load, Store,
         Support, Goal, WaitOver, PmReturn, lai_init_children, registers
    <2>3. CASE ObeySmi \/ Tick
      BY <2>3 DEF ObeySmi, Tick, registers
    <2>4. QED
      BY <1>4, <2>1, <2>2, <2>3 DEF PmNext
  <1>5. QED
    BY <1>1, <1>2, <1>3, <1>4

(* No event is cleared that the code has not read and does not report: an  *)
(* event that the hardware raises between the read and the write of        *)
(* lai_get_sci_event stays in the status, in every block.                  *)
THEOREM EventsAreReported == PmSpec => EventsReported
PROOF
  <1>1. PmIInv /\ [PmNext]_pmVars => [lai_acpi_reset \/ \A b \in Blocks : status[b] \ status'[b] \subseteq acc]_pmVars
    BY OnlyReadEventsAreCleared
  <1>2. QED
    BY <1>1, PmInvariance, PTL DEF PmSpec, EventsReported

(* On a timer of 24 bits lai_busy_wait_pm_timer never returns success      *)
(* early, from any value of the timer and however often the timer wraps    *)
(* while the code does not look.                                           *)
THEOREM WaitsLastLongEnough == ASSUME ~Extended PROVE PmSpec => WaitedLongEnough
PROOF
  <1>1. ASSUME PmIInv, WaitOver PROVE elapsed >= PmArg
    <2>1. pmTodo # <<>> /\ Head(pmTodo).op = "wait" /\ timer >= goal
      BY <1>1 DEF WaitOver, PmStep
    <2>2. PICK d \in Waits : PmArg = d /\ Counts(d)
      BY <1>1, <2>1, WaitIs
    <2>3. d \in Nat /\ WORD \in Nat /\ d <= WORD /\ timer \in Nat /\ goal \in Nat /\ elapsed \in Nat
      BY <1>1, LaiPmAssumption DEF PmIInv, PmTypes, Range32
    <2>4. QED
      BY <2>1, <2>2, <2>3 DEF Counts
  <1>2. PmIInv /\ [PmNext]_pmVars => [WaitOver => elapsed >= PmArg]_pmVars
    BY <1>1
  <1>3. QED
    BY <1>2, PmInvariance, PTL DEF PmSpec, WaitedLongEnough
=============================================================================
