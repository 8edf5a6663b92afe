------------------------------- MODULE RwLock -------------------------------
(***************************************************************************)
(* The two read/write locks ptypes implements itself (prwlock.cxx): with   *)
(* condition variables where the system has no rwlock, and with events on  *)
(* Windows.  A critical section of the first is one step, a wait splits    *)
(* it; every operation on a shared word or an event of the second is one   *)
(* step.                                                                   *)
(***************************************************************************)
EXTENDS Integers, FiniteSets, FiniteSetTheorems, TLAPS

CONSTANTS
  Crew    \* the threads that use each implementation

VARIABLES
  impl,   \* "condvar" or "win32"
  pc,     \* where each thread is
  lock    \* the fields of the object

vars == <<impl, pc, lock>>

Threads == Crew["condvar"] \cup Crew["win32"]
At(p) == {t \in Threads : pc[t] = p}

\* The threads that readers and writers count: they wait for the lock.
Readers == At("rsleep") \cup At("rwoken")
Writers == At("wsleep") \cup At("wwoken")

\* The constructors.
rwlock_new(i) ==
  IF i = "condvar" THEN [locks |-> 0, writers |-> 0, readers |-> 0]
  ELSE [readcnt |-> -1, writecnt |-> 0, reading |-> FALSE, finished |-> TRUE, mutex |-> FALSE,
        slipped |-> FALSE]

Init == /\ impl \in DOMAIN Crew
        /\ pc = [t \in Threads |-> "out"]
        /\ lock = rwlock_new(impl)

Goto(t, p) == pc' = [pc EXCEPT ![t] = p]
-----------------------------------------------------------------------------
(* Condition variables: "rsleep" and "wsleep" wait on readcond and         *)
(* writecond, "rwoken" and "wwoken" have been signalled.                   *)

rdlock_enter(t, from, l) ==
  /\ pc[t] = from
  /\ IF l.locks < 0 THEN lock' = l /\ Goto(t, "rsleep")
     ELSE /\ lock' = [locks |-> l.locks + 1, readers |-> l.readers - 1, writers |-> l.writers]
          /\ Goto(t, "reading")

\* Faulty: a writer waits for writers only.
wrlock_enter_OnlyWriters(t, from, l) ==
  /\ pc[t] = from
  /\ IF l.locks < 0 THEN lock' = l /\ Goto(t, "wsleep")
     ELSE /\ lock' = [locks |-> -1, readers |-> l.readers, writers |-> l.writers - 1]
          /\ Goto(t, "writing")

wrlock_enter(t, from, l) ==
  /\ pc[t] = from
  /\ IF l.locks # 0 THEN lock' = l /\ Goto(t, "wsleep")
     ELSE /\ lock' = [locks |-> -1, readers |-> l.readers, writers |-> l.writers - 1]
          /\ Goto(t, "writing")

rdlock(t) == \/ rdlock_enter(t, "out", [lock EXCEPT !.readers = @ + 1])
             \/ rdlock_enter(t, "rwoken", lock)

wrlock(t) == \/ wrlock_enter(t, "out", [lock EXCEPT !.writers = @ + 1])
             \/ wrlock_enter(t, "wwoken", lock)

\* signal wakes one of the sleepers, if any; broadcast wakes all.
Wake(t, woken) ==
  pc' = [u \in Threads |-> IF u = t THEN "out"
                           ELSE IF u \in woken /\ pc[u] = "rsleep" THEN "rwoken"
                           ELSE IF u \in woken THEN "wwoken" ELSE pc[u]]

SignalWriter(t) ==
  IF At("wsleep") = {} THEN Wake(t, {}) ELSE \E w \in At("wsleep") : Wake(t, {w})

\* Faulty: a writer that leaves wakes writers only.
unlock_ForgetsReaders(t) ==
  /\ pc[t] \in {"reading", "writing"}
  /\ lock' = [lock EXCEPT !.locks = IF @ > 0 THEN @ - 1 ELSE 0]
  /\ IF lock'.locks = 0 THEN SignalWriter(t) ELSE Wake(t, {})

unlock(t) ==
  /\ pc[t] \in {"reading", "writing"}
  /\ lock' = [lock EXCEPT !.locks = IF @ > 0 THEN @ - 1 ELSE 0]
  /\ IF lock.locks > 0
       THEN IF lock.locks = 1 THEN SignalWriter(t) ELSE Wake(t, {})
     ELSE IF lock.readers # 0 THEN Wake(t, At("rsleep")) ELSE SignalWriter(t)

Condvar(t) == impl = "condvar" /\ (rdlock(t) \/ wrlock(t) \/ unlock(t)) /\ UNCHANGED impl
-----------------------------------------------------------------------------
(* Windows: reading is a manual event, finished an automatic one.          *)
(* slipped: a reader has found reading set between pdecrement and          *)
(* ResetEvent in the unlock of the reader that was the last.               *)

win32_rdlock(t) ==
  \/ /\ pc[t] = "out"
     /\ lock' = [lock EXCEPT !.readcnt = @ + 1]
     /\ Goto(t, IF lock.readcnt + 1 = 0 THEN "rfinished" ELSE "rreading")
  \/ /\ pc[t] = "rfinished" /\ lock.finished
     /\ lock' = [lock EXCEPT !.finished = FALSE]
     /\ Goto(t, "rset")
  \/ /\ pc[t] = "rset"
     /\ lock' = [lock EXCEPT !.reading = TRUE]
     /\ Goto(t, "rreading")
  \/ /\ pc[t] = "rreading" /\ lock.reading
     /\ lock' = [lock EXCEPT !.slipped = @ \/ At("ureset") # {}]
     /\ Goto(t, "reading")

win32_wrlock(t) ==
  \/ /\ pc[t] = "out" /\ ~lock.mutex
     /\ lock' = [lock EXCEPT !.mutex = TRUE]
     /\ Goto(t, "wfinished")
  \/ /\ pc[t] = "wfinished" /\ lock.finished
     /\ lock' = [lock EXCEPT !.finished = FALSE, !.writecnt = @ + 1]
     /\ Goto(t, "writing")

win32_unlock(t) ==
  \/ /\ pc[t] \in {"reading", "writing"} /\ lock.writecnt # 0
     /\ lock' = [lock EXCEPT !.writecnt = @ - 1]
     /\ Goto(t, "uset")
  \/ /\ pc[t] = "uset"
     /\ lock' = [lock EXCEPT !.finished = TRUE]
     /\ Goto(t, "uleave")
  \/ /\ pc[t] = "uleave"
     /\ lock' = [lock EXCEPT !.mutex = FALSE]
     /\ Goto(t, "out")
  \/ /\ pc[t] \in {"reading", "writing"} /\ lock.writecnt = 0
     /\ lock' = [lock EXCEPT !.readcnt = @ - 1]
     /\ Goto(t, IF lock.readcnt - 1 < 0 THEN "ureset" ELSE "out")
  \/ /\ pc[t] = "ureset"
     /\ lock' = [lock EXCEPT !.reading = FALSE]
     /\ Goto(t, "ufinished")
  \/ /\ pc[t] = "ufinished"
     /\ lock' = [lock EXCEPT !.finished = TRUE]
     /\ Goto(t, "out")

Win32(t) == /\ impl = "win32"
            /\ win32_rdlock(t) \/ win32_wrlock(t) \/ win32_unlock(t)
            /\ UNCHANGED impl

Next == \E t \in Crew[impl] : Condvar(t) \/ Win32(t)

Spec == Init /\ [][Next]_vars
-----------------------------------------------------------------------------
(* doc/async.rwlock.html:60: "If there are readers inside the critical     *)
(* section, the writer waits until all threads leave and unlock the        *)
(* object.  Only one writer at a time can enter the critical section."     *)
WritersAreAlone ==
  At("writing") # {} => Cardinality(At("writing") \cup At("reading")) = 1

(* Whoever sleeps on a condition variable has someone to wake it: while a  *)
(* thread sleeps the lock is held, or a thread that has been woken is on   *)
(* its way to take it; readers sleep only while a writer holds it or comes.*)
SleepersAreWoken ==
  impl = "condvar" =>
    /\ At("wsleep") # {} => lock.locks # 0 \/ At("wwoken") \cup At("rwoken") # {}
    /\ At("rsleep") # {} => lock.locks < 0
    /\ lock.readers = Cardinality(Readers)
    /\ lock.writers = Cardinality(Writers)

\* unlock counts the last reader out before it resets the event (93-96): while
\* it has done the first and not the second, a new reader waits for finished and
\* one more comes in, whom the writer that takes finished does not see.
Slipped == impl = "win32" /\ lock.slipped

(* The lock keeps its promise and forgets nobody; the one of Windows keeps *)
(* it until a reader has come in while the last one was leaving, for which *)
(* it takes three threads.                                                 *)
LockIsSound == (Slipped \/ WritersAreAlone) /\ SleepersAreWoken
-----------------------------------------------------------------------------
(* Proofs: the lock with condition variables excludes writers and wakes      *)
(* whoever sleeps, for every finite number of threads.  The word locks is    *)
(* tied to the threads inside (LocksCountsHolders), and the two counters to  *)
(* the threads that wait.                                                    *)

Places == {"out", "rsleep", "rwoken", "reading", "wsleep", "wwoken", "writing"}

\* The word locks counts the readers inside, and is -1 for a writer.
LocksCountsHolders ==
  \/ lock.locks = -1 /\ At("reading") = {} /\ \E w \in Threads : At("writing") = {w}
  \/ lock.locks = Cardinality(At("reading")) /\ At("writing") = {}

CondvarInv ==
  impl = "condvar" =>
    /\ pc \in [Threads -> Places]
    /\ lock \in [locks : Int, writers : Int, readers : Int]
    /\ LocksCountsHolders
    /\ SleepersAreWoken
-----------------------------------------------------------------------------
(* The places of finitely many threads are finite sets that a thread       *)
(* enters and leaves one at a time.                                        *)

LEMMA PlacesAreFinite ==
  ASSUME IsFiniteSet(Threads), NEW S \in SUBSET Threads
  PROVE  IsFiniteSet(S) /\ Cardinality(S) \in Nat /\ (Cardinality(S) = 0 <=> S = {})
BY FS_Subset, FS_CardinalityType, FS_EmptySet

LEMMA OneMore ==
  ASSUME IsFiniteSet(Threads), NEW S \in SUBSET Threads, NEW t \in Threads, t \notin S
  PROVE  Cardinality(S \cup {t}) = Cardinality(S) + 1
BY PlacesAreFinite, FS_AddElement

LEMMA OneLess ==
  ASSUME IsFiniteSet(Threads), NEW S \in SUBSET Threads, NEW t \in S
  PROVE  Cardinality(S \ {t}) = Cardinality(S) - 1
BY PlacesAreFinite, FS_RemoveElement

\* What a step of thread t from place p to place q does to the places.
LEMMA GotoMoves ==
  ASSUME pc \in [Threads -> Places], NEW t \in Threads, NEW p \in Places, NEW q \in Places,
         pc[t] = p, p # q, Goto(t, q)
  PROVE  /\ pc' \in [Threads -> Places]
         /\ t \in At(p)
         /\ At(p)' = At(p) \ {t}
         /\ At(q)' = At(q) \cup {t} /\ t \notin At(q)
         /\ \A r \in Places \ {p, q} : At(r)' = At(r) /\ t \notin At(r)
<1>1. pc' = [pc EXCEPT ![t] = q]
  BY DEF Goto
<1>2. \A u \in Threads : pc'[u] = IF u = t THEN q ELSE pc[u]
  BY <1>1
<1>3. pc' \in [Threads -> Places]
  BY <1>1
<1> QED
  BY <1>2, <1>3 DEF At
-----------------------------------------------------------------------------
(* Entering: the critical sections of rdlock and wrlock, l being the lock  *)
(* once the thread has announced itself.                                   *)

\* The thread is in front of the lock: counted as a reader, or as a writer.
Announced(l, readers, writers) ==
  /\ l \in [locks : Int, writers : Int, readers : Int]
  /\ l.locks = lock.locks
  /\ l.readers = Cardinality(readers)
  /\ l.writers = Cardinality(writers)

LEMMA ReaderEnters ==
  ASSUME IsFiniteSet(Threads), CondvarInv, impl = "condvar", impl' = impl,
         NEW t \in Threads, NEW from \in {"out", "rwoken"}, NEW STATE l,
         Announced(l, Readers \cup {t}, Writers), rdlock_enter(t, from, l)
  PROVE  CondvarInv'
<1> USE DEF CondvarInv
<1>1. pc \in [Threads -> Places] /\ from \in Places /\ pc[t] = from
  BY DEF Places, rdlock_enter
<1>2. Readers \cup {t} \in SUBSET Threads /\ At("reading") \in SUBSET Threads
  BY DEF Readers, At
<1>3. CASE l.locks < 0
  <2>1. lock' = l /\ Goto(t, "rsleep")
    BY <1>3 DEF rdlock_enter
  <2>2. /\ pc' \in [Threads -> Places]
        /\ At("rsleep")' = At("rsleep") \cup {t}
        /\ At("rwoken")' = At("rwoken") \ {t}
        /\ \A r \in {"reading", "wsleep", "wwoken", "writing"} : At(r)' = At(r)
    BY <1>1, <2>1, GotoMoves, "rsleep" \in Places DEF Places
  <2>3. Readers' = Readers \cup {t} /\ Writers' = Writers
    BY <2>2 DEF Readers, Writers
  <2>4. LocksCountsHolders'
    BY <2>1, <2>2 DEF LocksCountsHolders, Announced
  <2>5. SleepersAreWoken'
    BY <1>3, <2>1, <2>2, <2>3 DEF SleepersAreWoken, Announced
  <2> QED
    BY <2>1, <2>2, <2>4, <2>5 DEF Announced
<1>4. CASE ~(l.locks < 0)
  <2>1. lock' = [locks |-> l.locks + 1, readers |-> l.readers - 1, writers |-> l.writers]
        /\ Goto(t, "reading")
    BY <1>4 DEF rdlock_enter
  <2>2. /\ pc' \in [Threads -> Places]
        /\ t \notin At("reading") /\ At("reading")' = At("reading") \cup {t}
        /\ At("rsleep")' = At("rsleep") /\ t \notin At("rsleep")
        /\ At("rwoken")' = At("rwoken") \ {t}
        /\ \A r \in {"wsleep", "wwoken", "writing"} : At(r)' = At(r)
    BY <1>1, <2>1, GotoMoves, "reading" \in Places DEF Places
  <2>3. Readers' = (Readers \cup {t}) \ {t} /\ Writers' = Writers
    BY <2>2 DEF Readers, Writers
  <2>4. /\ lock' \in [locks : Int, writers : Int, readers : Int]
        /\ lock'.locks = lock.locks + 1
        /\ lock'.readers = l.readers - 1
        /\ lock'.writers = l.writers
    BY <2>1 DEF Announced
  <2>5. Cardinality(Readers)' = l.readers - 1
    BY <1>2, <2>3, OneLess DEF Announced
  <2>6. lock.locks = Cardinality(At("reading")) /\ At("writing") = {}
    BY <1>4 DEF LocksCountsHolders, Announced
  <2>7. LocksCountsHolders'
    BY <1>2, <2>2, <2>4, <2>6, OneMore DEF LocksCountsHolders
  <2>8. lock.locks \in Nat /\ At("rsleep") = {}
    BY <1>2, <1>4, <2>6, PlacesAreFinite DEF SleepersAreWoken, Announced
  <2>9. SleepersAreWoken'
    BY <2>2, <2>3, <2>4, <2>5, <2>8 DEF SleepersAreWoken, Announced
  <2> QED
    BY <2>2, <2>4, <2>7, <2>9
<1> QED
  BY <1>3, <1>4

LEMMA WriterEnters ==
  ASSUME IsFiniteSet(Threads), CondvarInv, impl = "condvar", impl' = impl,
         NEW t \in Threads, NEW from \in {"out", "wwoken"}, NEW STATE l,
         Announced(l, Readers, Writers \cup {t}), wrlock_enter(t, from, l)
  PROVE  CondvarInv'
<1> USE DEF CondvarInv
<1>1. pc \in [Threads -> Places] /\ from \in Places /\ pc[t] = from
  BY DEF Places, wrlock_enter
<1>2. Writers \cup {t} \in SUBSET Threads /\ At("reading") \in SUBSET Threads
  BY DEF Writers, At
<1>3. CASE l.locks # 0
  <2>1. lock' = l /\ Goto(t, "wsleep")
    BY <1>3 DEF wrlock_enter
  <2>2. /\ pc' \in [Threads -> Places]
        /\ At("wsleep")' = At("wsleep") \cup {t}
        /\ At("wwoken")' = At("wwoken") \ {t}
        /\ \A r \in {"reading", "rsleep", "rwoken", "writing"} : At(r)' = At(r)
    BY <1>1, <2>1, GotoMoves, "wsleep" \in Places DEF Places
  <2>3. Writers' = Writers \cup {t} /\ Readers' = Readers
    BY <2>2 DEF Readers, Writers
  <2>4. LocksCountsHolders'
    BY <2>1, <2>2 DEF LocksCountsHolders, Announced
  <2>5. SleepersAreWoken'
    BY <1>3, <2>1, <2>2, <2>3 DEF SleepersAreWoken, Announced
  <2> QED
    BY <2>1, <2>2, <2>4, <2>5 DEF Announced
<1>4. CASE l.locks = 0
  <2>1. lock' = [locks |-> -1, readers |-> l.readers, writers |-> l.writers - 1]
        /\ Goto(t, "writing")
    BY <1>4 DEF wrlock_enter
  <2>2. /\ pc' \in [Threads -> Places]
        /\ At("writing")' = At("writing") \cup {t}
        /\ At("wsleep")' = At("wsleep") /\ t \notin At("wsleep")
        /\ At("wwoken")' = At("wwoken") \ {t}
        /\ \A r \in {"rsleep", "rwoken", "reading"} : At(r)' = At(r)
    BY <1>1, <2>1, GotoMoves, "writing" \in Places DEF Places
  <2>3. Writers' = (Writers \cup {t}) \ {t} /\ Readers' = Readers
    BY <2>2 DEF Readers, Writers
  <2>4. /\ lock' \in [locks : Int, writers : Int, readers : Int]
        /\ lock'.locks = -1
        /\ lock'.readers = l.readers
        /\ lock'.writers = l.writers - 1
    BY <2>1 DEF Announced
  <2>5. Cardinality(Writers)' = l.writers - 1
    BY <1>2, <2>3, OneLess DEF Announced
  <2>6. At("reading") = {} /\ At("writing") = {}
    BY <1>2, <1>4, PlacesAreFinite DEF LocksCountsHolders, Announced
  <2>7. LocksCountsHolders'
    BY <2>2, <2>4, <2>6 DEF LocksCountsHolders
  <2>8. SleepersAreWoken'
    BY <2>2, <2>3, <2>4, <2>5 DEF SleepersAreWoken, Announced
  <2> QED
    BY <2>2, <2>4, <2>7, <2>8
<1> QED
  BY <1>3, <1>4
-----------------------------------------------------------------------------
(* Leaving: a broadcast to the readers, or a signal to a writer, if any.   *)

LEMMA BroadcastMoves ==
  ASSUME pc \in [Threads -> Places], NEW t \in Threads, pc[t] = "writing",
         Wake(t, At("rsleep"))
  PROVE  /\ pc' \in [Threads -> Places]
         /\ At("rsleep")' = {} /\ At("rwoken")' = Readers
         /\ At("writing")' = At("writing") \ {t}
         /\ \A r \in {"reading", "wsleep", "wwoken"} : At(r)' = At(r)
<1>1. \A u \in Threads :
        pc'[u] = IF u = t THEN "out" ELSE IF pc[u] = "rsleep" THEN "rwoken" ELSE pc[u]
  BY DEF Wake, At
<1>2. pc' \in [Threads -> Places]
  BY DEF Wake, At, Places
<1> QED
  BY <1>1, <1>2 DEF At, Readers

LEMMA SignalMoves ==
  ASSUME pc \in [Threads -> Places], NEW t \in Threads, pc[t] \in {"reading", "writing"},
         NEW woken \in SUBSET At("wsleep"), Wake(t, woken)
  PROVE  /\ pc' \in [Threads -> Places]
         /\ At("wsleep")' = At("wsleep") \ woken /\ At("wwoken")' = At("wwoken") \cup woken
         /\ At("reading")' = At("reading") \ {t} /\ At("writing")' = At("writing") \ {t}
         /\ \A r \in {"rsleep", "rwoken"} : At(r)' = At(r)
         /\ Readers' = Readers /\ Writers' = Writers
<1>1. \A u \in Threads :
        pc'[u] = IF u = t THEN "out" ELSE IF u \in woken THEN "wwoken" ELSE pc[u]
  BY DEF Wake, At
<1>2. pc' \in [Threads -> Places]
  BY DEF Wake, At, Places
<1> QED
  BY <1>1, <1>2 DEF At, Readers, Writers

\* A thread that leaves makes locks count the others.
LEMMA HolderLeaves ==
  ASSUME IsFiniteSet(Threads), CondvarInv, impl = "condvar",
         NEW t \in Threads, unlock(t),
         At("reading")' = At("reading") \ {t}, At("writing")' = At("writing") \ {t}
  PROVE  /\ lock' \in [locks : Int, writers : Int, readers : Int]
         /\ lock'.readers = lock.readers /\ lock'.writers = lock.writers
         /\ lock'.locks = IF lock.locks > 0 THEN lock.locks - 1 ELSE 0
         /\ LocksCountsHolders'
         /\ pc[t] = "reading" <=> lock.locks > 0
<1> USE DEF CondvarInv
<1>1. /\ lock' \in [locks : Int, writers : Int, readers : Int]
      /\ lock'.readers = lock.readers /\ lock'.writers = lock.writers
      /\ lock'.locks = IF lock.locks > 0 THEN lock.locks - 1 ELSE 0
  BY DEF unlock
<1>2. /\ At("reading") \in SUBSET Threads
      /\ At("reading") \ {t} \in SUBSET Threads
  BY DEF At
<1>3. CASE pc[t] = "reading"
  <2>1. t \in At("reading")
    BY <1>3 DEF At
  <2>2. At("writing") = {} /\ lock.locks = Cardinality(At("reading"))
    BY <2>1 DEF LocksCountsHolders
  <2>3. lock.locks > 0
    BY <1>2, <2>1, <2>2, PlacesAreFinite
  <2>4. LocksCountsHolders'
    BY <1>1, <1>2, <2>1, <2>2, <2>3, OneLess DEF LocksCountsHolders
  <2> QED
    BY <1>1, <1>3, <2>3, <2>4
<1>4. CASE pc[t] = "writing"
  <2>1. t \in At("writing")
    BY <1>4 DEF At
  <2>2. At("writing") = {t} /\ At("reading") = {} /\ lock.locks = -1
    BY <2>1 DEF LocksCountsHolders
  <2>3. LocksCountsHolders'
    BY <1>1, <2>2, FS_EmptySet DEF LocksCountsHolders
  <2> QED
    BY <1>1, <1>4, <2>2, <2>3
<1> QED
  BY <1>3, <1>4 DEF unlock

LEMMA UnlockKeeps ==
  ASSUME IsFiniteSet(Threads), CondvarInv, impl = "condvar", impl' = impl,
         NEW t \in Threads, unlock(t)
  PROVE  CondvarInv'
<1> USE DEF CondvarInv
<1>1. pc \in [Threads -> Places] /\ pc[t] \in {"reading", "writing"}
  BY DEF unlock
<1>2. Readers \in SUBSET Threads /\ At("rsleep") \in SUBSET Readers
  BY DEF Readers, At
\* A signal leaves no writer asleep unless one is awake; no reader sleeps.
<1>3. ASSUME SignalWriter(t), At("rsleep") = {}
      PROVE  CondvarInv'
  <2>1. PICK woken \in SUBSET At("wsleep") :
          Wake(t, woken) /\ (woken = {} => At("wsleep") = {})
    BY <1>3, Zenon DEF SignalWriter
  <2>2. /\ pc' \in [Threads -> Places]
        /\ At("wsleep")' = At("wsleep") \ woken /\ At("wwoken")' = At("wwoken") \cup woken
        /\ At("reading")' = At("reading") \ {t} /\ At("writing")' = At("writing") \ {t}
        /\ At("rsleep")' = {}
        /\ Readers' = Readers /\ Writers' = Writers
    BY <1>1, <1>3, <2>1, SignalMoves
  <2>3. /\ lock' \in [locks : Int, writers : Int, readers : Int]
        /\ lock'.readers = lock.readers /\ lock'.writers = lock.writers
        /\ LocksCountsHolders'
    BY <2>2, HolderLeaves
  <2>4. SleepersAreWoken'
    BY <2>1, <2>2, <2>3 DEF SleepersAreWoken
  <2> QED
    BY <2>2, <2>3, <2>4
<1>4. CASE lock.locks > 0 /\ lock.locks # 1
  <2>1. Wake(t, {})
    BY <1>4 DEF unlock
  <2>2. /\ pc' \in [Threads -> Places]
        /\ At("wsleep")' = At("wsleep") \ {} /\ At("wwoken")' = At("wwoken") \cup {}
        /\ At("reading")' = At("reading") \ {t} /\ At("writing")' = At("writing") \ {t}
        /\ At("rsleep")' = At("rsleep")
        /\ Readers' = Readers /\ Writers' = Writers
    BY <1>1, <2>1, SignalMoves, Zenon
  <2>3. /\ lock' \in [locks : Int, writers : Int, readers : Int]
        /\ lock'.readers = lock.readers /\ lock'.writers = lock.writers
        /\ lock'.locks = lock.locks - 1
        /\ LocksCountsHolders'
    BY <1>4, <2>2, HolderLeaves
  <2>4. SleepersAreWoken'
    BY <1>4, <2>2, <2>3 DEF SleepersAreWoken
  <2> QED
    BY <2>2, <2>3, <2>4
<1>5. CASE lock.locks = 1
  <2>1. SignalWriter(t) /\ At("rsleep") = {}
    BY <1>5 DEF unlock, SleepersAreWoken
  <2> QED
    BY <1>3, <2>1
<1>6. CASE ~(lock.locks > 0) /\ lock.readers = 0
  <2>1. Readers = {}
    BY <1>2, <1>6, PlacesAreFinite DEF SleepersAreWoken
  <2>2. SignalWriter(t) /\ At("rsleep") = {}
    BY <1>2, <1>6, <2>1 DEF unlock
  <2> QED
    BY <1>3, <2>2
<1>7. CASE ~(lock.locks > 0) /\ lock.readers # 0
  <2>1. Wake(t, At("rsleep"))
    BY <1>7 DEF unlock
  <2>2. pc[t] = "writing"
    <3>1. CASE pc[t] = "reading"
      <4>1. t \in At("reading") /\ At("reading") \in SUBSET Threads
        BY <3>1 DEF At
      <4> QED
        BY <1>7, <4>1, PlacesAreFinite DEF LocksCountsHolders
    <3> QED
      BY <1>1, <3>1
  <2>3. /\ pc' \in [Threads -> Places]
        /\ At("rsleep")' = {} /\ At("rwoken")' = Readers
        /\ At("writing")' = At("writing") \ {t} /\ At("reading")' = At("reading")
        /\ At("wsleep")' = At("wsleep") /\ At("wwoken")' = At("wwoken")
    BY <1>1, <2>1, <2>2, BroadcastMoves
  <2>4. At("reading")' = At("reading") \ {t}
    BY <2>2, <2>3 DEF At
  <2>5. Readers' = Readers /\ Writers' = Writers
    BY <2>3 DEF Readers, Writers
  <2>6. /\ lock' \in [locks : Int, writers : Int, readers : Int]
        /\ lock'.readers = lock.readers /\ lock'.writers = lock.writers
        /\ LocksCountsHolders'
    BY <2>3, <2>4, HolderLeaves
  <2>7. Readers # {}
    BY <1>7, FS_EmptySet DEF SleepersAreWoken
  <2>8. SleepersAreWoken'
    BY <2>3, <2>5, <2>6, <2>7 DEF SleepersAreWoken
  <2> QED
    BY <2>3, <2>6, <2>8
<1> QED
  BY <1>4, <1>5, <1>6, <1>7
-----------------------------------------------------------------------------
LEMMA CondvarInvariant ==
  ASSUME IsFiniteSet(Threads)
  PROVE  Spec => []CondvarInv
<1>1. Init => CondvarInv
  <2> SUFFICES ASSUME Init, impl = "condvar" PROVE CondvarInv
    BY DEF CondvarInv
  <2>1. lock = [locks |-> 0, writers |-> 0, readers |-> 0]
    BY DEF Init, rwlock_new
  <2>2. pc \in [Threads -> Places] /\ \A p \in Places \ {"out"} : At(p) = {}
    BY DEF Init, At, Places
  <2>3. /\ At("reading") = {} /\ At("writing") = {} /\ At("wsleep") = {}
        /\ At("rsleep") = {} /\ Readers = {} /\ Writers = {}
    BY <2>2 DEF Places, Readers, Writers
  <2> QED
    BY <2>1, <2>2, <2>3, FS_EmptySet DEF CondvarInv, LocksCountsHolders, SleepersAreWoken
<1>2. CondvarInv /\ [Next]_vars => CondvarInv'
  <2> SUFFICES ASSUME CondvarInv, [Next]_vars PROVE CondvarInv'
    OBVIOUS
  <2>1. CASE UNCHANGED vars
    BY <2>1 DEF vars, CondvarInv, LocksCountsHolders, SleepersAreWoken, Readers, Writers, At
  <2>2. ASSUME NEW t \in Crew[impl], Win32(t) PROVE CondvarInv'
    BY <2>2 DEF Win32, CondvarInv
  <2>3. ASSUME NEW t \in Crew[impl], Condvar(t) PROVE CondvarInv'
    <3>1. impl = "condvar" /\ impl' = impl /\ t \in Threads
      BY <2>3 DEF Condvar, Threads
    <3>2. /\ pc \in [Threads -> Places]
          /\ lock \in [locks : Int, writers : Int, readers : Int]
          /\ lock.readers = Cardinality(Readers) /\ lock.writers = Cardinality(Writers)
      BY <3>1 DEF CondvarInv, SleepersAreWoken
    <3>3. Readers \in SUBSET Threads /\ Writers \in SUBSET Threads
      BY DEF Readers, Writers, At
    <3>4. CASE rdlock_enter(t, "out", [lock EXCEPT !.readers = @ + 1])
      <4>1. t \notin Readers
        BY <3>4 DEF rdlock_enter, Readers, At
      <4>2. Announced([lock EXCEPT !.readers = @ + 1], Readers \cup {t}, Writers)
        BY <3>1, <3>2, <3>3, <4>1, OneMore DEF Announced
      <4> QED
        BY <3>1, <3>4, <4>2, ReaderEnters
    <3>5. CASE rdlock_enter(t, "rwoken", lock)
      <4>1. Readers \cup {t} = Readers
        BY <3>1, <3>5 DEF rdlock_enter, Readers, At
      <4>2. Announced(lock, Readers \cup {t}, Writers)
        BY <3>2, <4>1 DEF Announced
      <4> QED
        BY <3>1, <3>5, <4>2, ReaderEnters
    <3>6. CASE wrlock_enter(t, "out", [lock EXCEPT !.writers = @ + 1])
      <4>1. t \notin Writers
        BY <3>6 DEF wrlock_enter, Writers, At
      <4>2. Announced([lock EXCEPT !.writers = @ + 1], Readers, Writers \cup {t})
        BY <3>1, <3>2, <3>3, <4>1, OneMore DEF Announced
      <4> QED
        BY <3>1, <3>6, <4>2, WriterEnters
    <3>7. CASE wrlock_enter(t, "wwoken", lock)
      <4>1. Writers \cup {t} = Writers
        BY <3>1, <3>7 DEF wrlock_enter, Writers, At
      <4>2. Announced(lock, Readers, Writers \cup {t})
        BY <3>2, <4>1 DEF Announced
      <4> QED
        BY <3>1, <3>7, <4>2, WriterEnters
    <3>8. CASE unlock(t)
      BY <3>1, <3>8, UnlockKeeps
    <3> QED
      BY <2>3, <3>4, <3>5, <3>6, <3>7, <3>8 DEF Condvar, rdlock, wrlock
  <2> QED
    BY <2>1, <2>2, <2>3 DEF Next
<1> QED
  BY <1>1, <1>2, PTL DEF Spec

(* A writer inside the lock with condition variables is alone there, for   *)
(* every finite set of threads that call rdlock, wrlock and unlock.        *)
THEOREM WritersExcludeOthers ==
  ASSUME IsFiniteSet(Threads)
  PROVE  Spec => [](impl = "condvar" => WritersAreAlone)
<1>1. CondvarInv => (impl = "condvar" => WritersAreAlone)
  <2> SUFFICES ASSUME CondvarInv, impl = "condvar", At("writing") # {}
               PROVE  Cardinality(At("writing") \cup At("reading")) = 1
    BY DEF WritersAreAlone
  <2>1. PICK w \in Threads : At("writing") = {w} /\ At("reading") = {}
    BY DEF CondvarInv, LocksCountsHolders
  <2>2. At("writing") \cup At("reading") = {w}
    BY <2>1
  <2> QED
    BY <2>2, FS_Singleton
<1> QED
  BY <1>1, CondvarInvariant, PTL

(* unlock() leaves nobody asleep whom no one will wake, and the counters   *)
(* it decides by are exact, for every finite set of threads: the signal    *)
(* to one writer and the broadcast to all readers are enough.              *)
THEOREM SleepersAreAlwaysWoken ==
  ASSUME IsFiniteSet(Threads)
  PROVE  Spec => []SleepersAreWoken
<1>1. CondvarInv => SleepersAreWoken
  BY DEF CondvarInv, SleepersAreWoken
<1> QED
  BY <1>1, CondvarInvariant, PTL

(* Both: the lock with condition variables is sound for every finite set   *)
(* of threads.                                                             *)
THEOREM CondvarLockIsSound ==
  ASSUME IsFiniteSet(Threads)
  PROVE  Spec => [](impl = "condvar" => LockIsSound)
<1>1. (impl = "condvar" => WritersAreAlone) /\ SleepersAreWoken
        => (impl = "condvar" => LockIsSound)
  BY DEF LockIsSound
<1> QED
  BY <1>1, WritersExcludeOthers, SleepersAreAlwaysWoken, PTL
=============================================================================
