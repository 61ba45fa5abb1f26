--------------------------- MODULE Kernel_proofs ---------------------------
(***************************************************************************)
(* The safety of the process core, for every number of processes, every    *)
(* pool size and every set of sleeps.                                      *)
(*                                                                         *)
(* The inductive invariant KernelInv adds to the properties what they rest *)
(* on: pids are handed out once (PidsFresh), init never dies (InitLives),  *)
(* and the PCBPtr blocks link the processes that have a parent and those   *)
(* that wait for a resource (LinksCounted).  The kernel alone blocks       *)
(* nobody on a resource; the semaphores and the queues do, and with the    *)
(* last two lemmas on steps the invariant is theirs too.                   *)
(*                                                                         *)
(* First comes what the operators of the scheduler do to its data: which   *)
(* list a process is on before and after, and what becomes of the timers.  *)
(***************************************************************************)
EXTENDS Kernel, SequenceLemmas

-----------------------------------------------------------------------------
(* The scheduler                                                           *)

\* The ready list and the waiting list hold the processes of that status, once.
Listed(s) ==
    /\ \A p \in Pids : /\ s.status[p] = "Ready" <=> p \in ToSet(s.ready)
                       /\ s.status[p] = "Waiting" <=> p \in s.waiting
    /\ IsInjective(s.ready)

\* The processes in a sleep are those with a timer, and each has one; whoever waits is in
\* a sleep or in another call.
Asleep(s) ==
    /\ \A i, j \in DOMAIN s.timers : s.timers[i].pid = s.timers[j].pid => i = j
    /\ s.armed = {s.timers[i].pid : i \in DOMAIN s.timers}
    /\ s.armed = {p \in Pids : s.status[p] = "Waiting" /\ s.call[p].num = "sleep"}
    /\ \A p \in Pids : s.status[p] = "Waiting" => s.call[p].num # "none"

Orderly(s) == s \in SchedType /\ Listed(s) /\ Asleep(s)

NobodyRuns(s) == \A p \in Pids : s.status[p] # "Running"

\* The process that runs is the one whose status says so.
RunsAlone(s) == \A p \in Pids : s.status[p] = "Running" <=> p = s.running

\* The timers ts are in order.
InOrder(ts) == \A i, j \in DOMAIN ts : i < j => ts[i].at <= ts[j].at

Sorted(s) == InOrder(s.timers)

OnTime(s, now) == Sorted(s) /\ \A i \in DOMAIN s.timers : s.timers[i].at >= now

Busy(s) == s.running = NoPid => s.ready = <<>>

\* The calls that block a process on the waiting list of a semaphore or of a queue.
ResourceCalls == {"sem_wait", "mq_send", "mq_receive"}

SemCalls == {"sem_wait"}
MqCalls == {"mq_send", "mq_receive"}

BlockedOnResource(s, p) == s.status[p] = "Waiting" /\ s.call[p].num \in ResourceCalls

\* From s to t no process is made, dies, is released or blocks, and none is woken
\* that waits for a resource.
OnlyMoves(s, t) ==
    \A p \in Pids :
        /\ t.status[p] = "Free" <=> s.status[p] = "Free"
        /\ t.status[p] = "Zombie" <=> s.status[p] = "Zombie"
        /\ t.status[p] = "Waiting" => s.status[p] = "Waiting" /\ t.call[p] = s.call[p]
        /\ BlockedOnResource(s, p) => BlockedOnResource(t, p)

\* Being on the head of the ready list is what PopReady takes away.
LEMMA PopReadyTakesHead ==
    ASSUME NEW s, Orderly(s), NobodyRuns(s),
           NEW t, t = PopReady(s)
    PROVE  /\ Orderly(t) /\ RunsAlone(t) /\ Busy(t) /\ OnlyMoves(s, t)
           /\ t.timers = s.timers
<1> DEFINE h == Head(s.ready)
<1>1. /\ s \in SchedType
      /\ s.ready \in Seq(Pids) /\ s.status \in [Pids -> Statuses]
      /\ NoPid \notin Pids
  BY DEF Orderly, SchedType, NoPid, Pids
<1>2. CASE s.ready = <<>>
  <2>1. t = [s EXCEPT !.running = NoPid]
    BY <1>2 DEF PopReady
  <2>2. /\ t \in SchedType /\ t.running = NoPid
        /\ t.ready = s.ready /\ t.waiting = s.waiting /\ t.status = s.status
        /\ t.timers = s.timers /\ t.armed = s.armed /\ t.call = s.call
    BY <2>1, <1>1 DEF SchedType
  <2> QED
    BY <2>2, <1>1, <1>2
       DEF Orderly, Listed, Asleep, NobodyRuns, RunsAlone, Busy, OnlyMoves, BlockedOnResource
<1>3. CASE s.ready # <<>>
  <2>1. t = [s EXCEPT !.running = h, !.status[h] = "Running", !.ready = Tail(@)]
    BY <1>3 DEF PopReady
  <2>2. /\ h \in Pids /\ Tail(s.ready) \in Seq(Pids) /\ h \in ToSet(s.ready)
        /\ ToSet(Tail(s.ready)) = ToSet(s.ready) \ {h}
        /\ IsInjective(Tail(s.ready))
    BY <1>1, <1>3, SeqTail DEF Orderly, Listed
  <2> HIDE DEF h
  <2>3. /\ t \in SchedType /\ t.running = h /\ t.ready = Tail(s.ready)
        /\ t.status = [s.status EXCEPT ![h] = "Running"]
        /\ t.waiting = s.waiting /\ t.timers = s.timers
        /\ t.armed = s.armed /\ t.call = s.call
    <3>1. [s.status EXCEPT ![h] = "Running"] \in [Pids -> Statuses]
      BY <2>2, <1>1 DEF Statuses
    <3>2. t = [s EXCEPT !.running = h, !.status = [s.status EXCEPT ![h] = "Running"],
                        !.ready = Tail(s.ready)]
      BY <2>1, <1>1 DEF SchedType
    <3> QED
      BY <2>2, <3>1, <3>2, <1>1 DEF SchedType
  <2>4. \A p \in Pids : t.status[p] = IF p = h THEN "Running" ELSE s.status[p]
    BY <2>3, <1>1
  <2>5. s.status[h] = "Ready"
    BY <2>2 DEF Orderly, Listed
  <2>6. Listed(t)
    BY <2>2, <2>3, <2>4, <2>5 DEF Orderly, Listed
  <2>7. Asleep(t)
    BY <2>3, <2>4, <2>5 DEF Orderly, Asleep
  <2> QED
    BY <2>2, <2>3, <2>4, <2>5, <2>6, <2>7, <1>1
       DEF Orderly, NobodyRuns, RunsAlone, Busy, OnlyMoves, BlockedOnResource
<1> QED
  BY <1>2, <1>3

\* From s to t the processes of w stop waiting and become ready.
WokenBy(s, t, w) ==
    \A p \in Pids : /\ t.status[p] = IF p \in w THEN "Ready" ELSE s.status[p]
                    /\ t.call[p] = IF p \in w THEN NoCall ELSE s.call[p]

\* WakeAll moves the processes it wakes from the waiting list to the ready list.
LEMMA WakeAllMoves ==
    ASSUME NEW s \in SchedType, Listed(s),
           NEW q \in Seq(Pids), IsInjective(q), ToSet(q) \subseteq s.waiting,
           NEW t, t = WakeAll(s, q)
    PROVE  /\ t \in SchedType /\ Listed(t)
           /\ t.running = s.running /\ t.timers = s.timers /\ t.armed = s.armed
           /\ WokenBy(s, t, ToSet(q))
<1> DEFINE w == ToSet(q)
           st == [p \in Pids |-> IF p \in w THEN "Ready" ELSE s.status[p]]
           ca == [p \in Pids |-> IF p \in w THEN NoCall ELSE s.call[p]]
<1>1. /\ s.ready \in Seq(Pids) /\ s.status \in [Pids -> Statuses]
      /\ s.call \in [Pids -> Calls] /\ s.waiting \subseteq Pids
  BY DEF SchedType
<1>2. /\ s.ready \o q \in Seq(Pids)
      /\ ToSet(s.ready \o q) = ToSet(s.ready) \cup w
      /\ IsInjective(s.ready \o q)
  <2>1. ToSet(s.ready) \cap w = {}
    BY <1>1, ToSetType DEF Listed
  <2> QED
    BY <2>1, <1>1, SeqConcat DEF Listed
<1>3. t = [s EXCEPT !.waiting = s.waiting \ w, !.status = st, !.call = ca,
                    !.ready = s.ready \o q]
  BY DEF WakeAll, SchedType
<1> HIDE DEF w
<1>4. st \in [Pids -> Statuses] /\ ca \in [Pids -> Calls]
  BY <1>1 DEF Statuses, Calls, CallNums, NoCall
<1>5. /\ \A p \in Pids : st[p] = IF p \in w THEN "Ready" ELSE s.status[p]
      /\ \A p \in Pids : ca[p] = IF p \in w THEN NoCall ELSE s.call[p]
  OBVIOUS
<1> HIDE DEF st, ca
<1>6. /\ t \in SchedType
      /\ t.running = s.running /\ t.timers = s.timers /\ t.armed = s.armed
      /\ t.waiting = s.waiting \ w /\ t.status = st /\ t.call = ca
      /\ t.ready = s.ready \o q
  BY <1>1, <1>2, <1>3, <1>4 DEF SchedType
<1>7. Listed(t)
  BY <1>1, <1>2, <1>5, <1>6 DEF Listed, w
<1> QED
  BY <1>5, <1>6, <1>7 DEF WokenBy, w

\* FirstLater splits the timers: those before it have expired, the one at it has not.
LEMMA FirstLaterSplits ==
    ASSUME NEW ts \in Seq(Timers), NEW now \in Nat,
           NEW n, n = FirstLater(ts, now)
    PROVE  /\ n \in 1 .. Len(ts) + 1
           /\ \A i \in 1 .. n - 1 : ts[i].at <= now
           /\ n <= Len(ts) => ts[n].at > now
<1> DEFINE L == {i \in DOMAIN ts : ts[i].at > now}
<1>1. /\ DOMAIN ts = 1 .. Len(ts) /\ Len(ts) \in Nat
      /\ \A k \in 1 .. Len(ts) : ts[k] \in Timers
  BY LenProperties, ElementOfSeq
<1>2. \A i \in DOMAIN ts : ts[i].at \in Nat
  BY <1>1, KernelAssumption DEF Timers
<1>3. n = Min(L \cup {Len(ts) + 1})
  BY DEF FirstLater
<1>4. /\ \A i : i \in L <=> i \in 1 .. Len(ts) /\ ts[i].at > now
  BY <1>1
<1> HIDE DEF L
<1>5. /\ n \in L \cup {Len(ts) + 1}
      /\ \A y \in L \cup {Len(ts) + 1} : n <= y
  <2>1. L \cup {Len(ts) + 1} \in SUBSET Nat
    BY <1>1, <1>4
  <2> QED
    BY <2>1, <1>3, LeastNatural
<1>6. n \in 1 .. Len(ts) + 1
  BY <1>1, <1>4, <1>5
<1>7. n <= Len(ts) => ts[n].at > now
  BY <1>1, <1>4, <1>5
<1>8. ASSUME NEW i \in 1 .. n - 1 PROVE ts[i].at <= now
  <2>1. i \in DOMAIN ts /\ ~ (n <= i)
    BY <1>1, <1>6
  <2>2. i \notin L
    BY <2>1, <1>5
  <2>3. ts[i].at \in Nat /\ ~ (ts[i].at > now)
    BY <2>1, <2>2, <1>1, <1>2, <1>4
  <2> QED
    BY <2>3
<1> QED
  BY <1>6, <1>7, <1>8

\* The timers that have expired are the first ones: their owners wake, and the
\* timers that stay belong to the processes that stay asleep.
LEMMA WakeExpiredWakesSleepers ==
    ASSUME NEW s, Orderly(s), RunsAlone(s), Sorted(s),
           NEW now \in 0 .. MaxTime,
           NEW t, t = WakeExpired(s, now)
    PROVE  /\ Orderly(t) /\ RunsAlone(t) /\ OnTime(t, now) /\ OnlyMoves(s, t)
           /\ t.running = s.running
<1> DEFINE ts == s.timers
           k == FirstLater(ts, now) - 1
           q == Owners(ts, k)
           r == SubSeq(ts, k + 1, Len(ts))
           u == WakeAll(s, q)
<1>1. /\ s \in SchedType /\ ts \in Seq(Timers) /\ now \in Nat
      /\ DOMAIN ts = 1 .. Len(ts) /\ Len(ts) \in Nat
      /\ \A i \in 1 .. Len(ts) : ts[i].pid \in Pids /\ ts[i].at \in Nat
  <2>1. s \in SchedType /\ ts \in Seq(Timers) /\ now \in Nat
    BY KernelAssumption DEF Orderly, SchedType
  <2>2. /\ DOMAIN ts = 1 .. Len(ts) /\ Len(ts) \in Nat
        /\ \A i \in 1 .. Len(ts) : ts[i] \in Timers
    BY <2>1, LenProperties, ElementOfSeq
  <2> QED
    BY <2>1, <2>2, KernelAssumption DEF Timers
<1>2. /\ k \in 0 .. Len(ts)
      /\ \A i \in 1 .. k : ts[i].at <= now
      /\ k < Len(ts) => ts[k + 1].at > now
  <2> DEFINE n == FirstLater(ts, now)
  <2>1. /\ n \in 1 .. Len(ts) + 1
        /\ \A i \in 1 .. n - 1 : ts[i].at <= now
        /\ n <= Len(ts) => ts[n].at > now
    BY <1>1, FirstLaterSplits
  <2> HIDE DEF n
  <2>2. k = n - 1 /\ n = k + 1
    BY <2>1 DEF n
  <2> QED
    BY <1>1, <2>1, <2>2
<1>3. t = [u EXCEPT !.timers = SubSeq(@, k + 1, Len(@)), !.armed = @ \ ToSet(q)]
  BY DEF WakeExpired
<1> HIDE DEF k
<1>4. /\ q \in Seq(Pids) /\ IsInjective(q)
      /\ ToSet(q) = {ts[i].pid : i \in 1 .. k}
  <2>1. q = [i \in 1 .. k |-> ts[i].pid] /\ k \in Nat
    BY <1>1, <1>2 DEF Owners
  <2>2. \A i \in 1 .. k : ts[i].pid \in Pids /\ i \in DOMAIN ts
    BY <1>1, <1>2
  <2> HIDE DEF q
  <2>3. q \in Seq(Pids) /\ DOMAIN q = 1 .. k
    BY <2>1, <2>2
  <2>4. IsInjective(q)
    BY <2>1, <2>2, <2>3 DEF IsInjective, Orderly, Asleep
  <2>5. ToSet(q) = {ts[i].pid : i \in 1 .. k}
    BY <2>1, <2>3 DEF ToSet
  <2> QED
    BY <2>3, <2>4, <2>5
<1>5. /\ ToSet(q) \subseteq s.armed /\ s.armed \subseteq s.waiting
      /\ s.armed \subseteq Pids
  <2>1. s.armed = {ts[i].pid : i \in DOMAIN ts} /\ s.armed \subseteq s.waiting
    BY DEF Orderly, Asleep, Listed
  <2>2. 1 .. k \subseteq DOMAIN ts
    BY <1>1, <1>2
  <2>3. \A i \in DOMAIN ts : ts[i].pid \in Pids
    BY <1>1
  <2> QED
    BY <2>1, <2>2, <2>3, <1>4
<1> HIDE DEF q
<1>6. /\ u \in SchedType /\ Listed(u)
      /\ u.running = s.running /\ u.timers = s.timers /\ u.armed = s.armed
      /\ \A p \in Pids :
           /\ u.status[p] = IF p \in ToSet(q) THEN "Ready" ELSE s.status[p]
           /\ u.call[p] = IF p \in ToSet(q) THEN NoCall ELSE s.call[p]
  BY <1>1, <1>4, <1>5, WakeAllMoves DEF Orderly, WokenBy
<1> HIDE DEF u
<1>7. /\ r \in Seq(Timers) /\ Len(r) = Len(ts) - k /\ DOMAIN r = 1 .. Len(ts) - k
      /\ \A j \in 1 .. Len(ts) - k : r[j] = ts[j + k]
  <2>1. /\ r \in Seq(Timers) /\ Len(r) = Len(ts) - k
        /\ \A j \in 1 .. Len(ts) - k : r[j] = ts[k + 1 + j - 1]
    BY <1>1, <1>2, SubSeqProperties
  <2> HIDE DEF r
  <2> QED
    BY <2>1, <1>1, <1>2, LenProperties
<1> HIDE DEF r
<1>7a. \A j \in DOMAIN r : j + k \in DOMAIN ts /\ j + k > k /\ r[j] = ts[j + k]
  <2> SUFFICES ASSUME NEW j \in DOMAIN r
               PROVE  j + k \in DOMAIN ts /\ j + k > k /\ r[j] = ts[j + k]
    OBVIOUS
  <2>1. j \in 1 .. Len(ts) - k /\ k \in 0 .. Len(ts) /\ Len(ts) \in Nat
    BY <1>1, <1>2, <1>7
  <2>2. j + k \in 1 .. Len(ts) /\ j + k > k
    BY <2>1
  <2> QED
    BY <2>1, <2>2, <1>1, <1>7
<1>8. /\ t \in SchedType /\ Listed(t)
      /\ t.running = s.running /\ t.timers = r /\ t.armed = s.armed \ ToSet(q)
      /\ t.status = u.status /\ t.call = u.call /\ t.ready = u.ready
      /\ t.waiting = u.waiting
  <2>1. t = [u EXCEPT !.timers = r, !.armed = s.armed \ ToSet(q)]
    BY <1>3, <1>6 DEF SchedType, r
  <2>2. /\ t \in SchedType
        /\ t.running = s.running /\ t.timers = r /\ t.armed = s.armed \ ToSet(q)
        /\ t.status = u.status /\ t.call = u.call /\ t.ready = u.ready
        /\ t.waiting = u.waiting
    <3>1. u \in SchedType /\ r \in Seq(Timers) /\ s.armed \ ToSet(q) \in SUBSET Pids
      BY <1>5, <1>6, <1>7
    <3> QED
      BY <2>1, <3>1, <1>6 DEF SchedType
  <2> QED
    BY <2>2, <1>6 DEF Listed
<1>9. OnTime(t, now)
  <2>1. \A j \in DOMAIN r : r[j].at \in Nat /\ r[j].at > now
    <3> SUFFICES ASSUME NEW j \in DOMAIN r PROVE r[j].at \in Nat /\ r[j].at > now
      OBVIOUS
    <3>1. /\ j + k \in DOMAIN ts /\ k + 1 \in DOMAIN ts /\ k + 1 <= j + k
          /\ r[j] = ts[j + k] /\ ts[k + 1].at > now
      <4>1. j + k \in DOMAIN ts /\ j + k > k /\ r[j] = ts[j + k]
        BY <1>7a
      <4>2. k + 1 \in DOMAIN ts /\ k + 1 <= j + k /\ k < Len(ts)
        BY <4>1, <1>1, <1>2
      <4> QED
        BY <4>1, <4>2, <1>2
    <3>2. ts[k + 1].at <= ts[j + k].at
      BY <3>1, <1>1 DEF Sorted, InOrder
    <3> QED
      BY <3>1, <3>2, <1>1
  <2>2. \A i, j \in DOMAIN r : i < j => r[i].at <= r[j].at
    <3> SUFFICES ASSUME NEW i \in DOMAIN r, NEW j \in DOMAIN r, i < j
                 PROVE  r[i].at <= r[j].at
      OBVIOUS
    <3>1. \A x \in DOMAIN r : x + k \in DOMAIN ts /\ r[x] = ts[x + k]
      BY <1>7a
    <3>2. i + k < j + k
      BY <1>2, <1>7
    <3> QED
      BY <3>1, <3>2 DEF Sorted, InOrder
  <2> QED
    BY <2>1, <2>2, <1>1, <1>8 DEF OnTime, Sorted, InOrder
<1>10. Asleep(t)
  <2>1. \A i, j \in DOMAIN r : r[i].pid = r[j].pid => i = j
    <3> SUFFICES ASSUME NEW i \in DOMAIN r, NEW j \in DOMAIN r, r[i].pid = r[j].pid
                 PROVE  i = j
      OBVIOUS
    <3>1. /\ i + k \in DOMAIN ts /\ j + k \in DOMAIN ts
          /\ r[i] = ts[i + k] /\ r[j] = ts[j + k]
      BY <1>7a
    <3>2. i + k = j + k
      BY <3>1 DEF Orderly, Asleep
    <3> QED
      BY <3>2, <1>2, <1>7
  <2>2. t.armed = {r[j].pid : j \in DOMAIN r}
    <3>1. ASSUME NEW p \in t.armed PROVE \E j \in DOMAIN r : p = r[j].pid
      <4>1. PICK i \in DOMAIN ts : p = ts[i].pid
        BY <3>1, <1>8 DEF Orderly, Asleep
      <4>2. i > k
        BY <3>1, <4>1, <1>1, <1>2, <1>4, <1>8
      <4>3. i - k \in DOMAIN r /\ (i - k) + k = i
        BY <4>2, <1>1, <1>2, <1>7
      <4> QED
        BY <4>1, <4>3, <1>7
    <3>2. ASSUME NEW j \in DOMAIN r PROVE r[j].pid \in t.armed
      <4>1. j + k \in DOMAIN ts /\ j + k > k /\ r[j] = ts[j + k]
        BY <1>7a
      <4>2. ts[j + k].pid \in s.armed
        BY <4>1 DEF Orderly, Asleep
      <4>3. ASSUME NEW i \in 1 .. k PROVE ts[i].pid # ts[j + k].pid
        <5>1. i \in DOMAIN ts /\ i # j + k
          BY <4>1, <1>1, <1>2
        <5> QED
          BY <4>1, <5>1 DEF Orderly, Asleep
      <4> QED
        BY <4>1, <4>2, <4>3, <1>4, <1>8
    <3> QED
      BY <3>1, <3>2
  <2>3. t.armed = {p \in Pids : t.status[p] = "Waiting" /\ t.call[p].num = "sleep"}
    BY <1>5, <1>6, <1>8 DEF Orderly, Asleep
  <2>4. \A p \in Pids : t.status[p] = "Waiting" => t.call[p].num # "none"
    BY <1>6, <1>8 DEF Orderly, Asleep
  <2> QED
    BY <2>1, <2>2, <2>3, <2>4, <1>8 DEF Asleep
<1>11. RunsAlone(t)
  <2>1. \A p \in ToSet(q) : s.status[p] = "Waiting"
    BY <1>5 DEF Orderly, Listed
  <2> QED
    BY <2>1, <1>6, <1>8 DEF RunsAlone
<1>12. OnlyMoves(s, t)
  <2>1. \A p \in ToSet(q) : s.status[p] = "Waiting" /\ s.call[p].num = "sleep"
    BY <1>5 DEF Orderly, Asleep
  <2> QED
    BY <2>1, <1>6, <1>8 DEF OnlyMoves, BlockedOnResource, ResourceCalls
<1> QED
  BY <1>8, <1>9, <1>10, <1>11, <1>12 DEF Orderly

\* Requeue puts the running process at the end of the ready list.
LEMMA RequeueMoves ==
    ASSUME NEW s, Orderly(s), RunsAlone(s), s.running # NoPid,
           NEW t, t = Requeue(s)
    PROVE  /\ Orderly(t) /\ NobodyRuns(t) /\ OnlyMoves(s, t)
           /\ t.timers = s.timers
<1> DEFINE m == s.running
<1>1. /\ s \in SchedType /\ m \in Pids
      /\ s.ready \in Seq(Pids) /\ s.status \in [Pids -> Statuses]
  BY DEF Orderly, SchedType
<1>2. s.status[m] = "Running" /\ m \notin ToSet(s.ready)
  BY <1>1 DEF Orderly, Listed, RunsAlone
<1>3. /\ Append(s.ready, m) \in Seq(Pids)
      /\ ToSet(Append(s.ready, m)) = ToSet(s.ready) \cup {m}
      /\ IsInjective(Append(s.ready, m))
  BY <1>1, <1>2, SeqAppend DEF Orderly, Listed
<1>4. [s.status EXCEPT ![m] = "Ready"] \in [Pids -> Statuses]
  BY <1>1 DEF Statuses
<1>5. t = [s EXCEPT !.status = [s.status EXCEPT ![m] = "Ready"],
                    !.ready = Append(s.ready, m)]
  BY <1>1 DEF Requeue, SchedType
<1>6. /\ t \in SchedType /\ t.running = m /\ t.waiting = s.waiting
      /\ t.timers = s.timers /\ t.armed = s.armed /\ t.call = s.call
      /\ t.ready = Append(s.ready, m)
      /\ t.status = [s.status EXCEPT ![m] = "Ready"]
  BY <1>1, <1>3, <1>4, <1>5 DEF SchedType
<1>7. \A p \in Pids : t.status[p] = IF p = m THEN "Ready" ELSE s.status[p]
  BY <1>1, <1>6
<1> HIDE DEF m
<1>8. Listed(t)
  BY <1>1, <1>2, <1>3, <1>6, <1>7 DEF Orderly, Listed
<1>9. Asleep(t)
  BY <1>1, <1>2, <1>6, <1>7 DEF Orderly, Asleep
<1>10. NobodyRuns(t)
  BY <1>1, <1>7 DEF NobodyRuns, RunsAlone, m
<1>11. OnlyMoves(s, t)
  BY <1>1, <1>2, <1>6, <1>7 DEF OnlyMoves, BlockedOnResource
<1> QED
  BY <1>6, <1>8, <1>9, <1>10, <1>11 DEF Orderly

\* The state the scheduler leaves behind: the lists match the statuses, the CPU is
\* idle only if it must be, and no timer is overdue.
Settled(s, now) == Orderly(s) /\ RunsAlone(s) /\ Busy(s) /\ OnTime(s, now)

\* Dispatch gives the CPU to a ready process if there is one.
LEMMA DispatchSettles ==
    ASSUME NEW s, Orderly(s), RunsAlone(s), NEW now, OnTime(s, now),
           NEW t, t = Dispatch(s)
    PROVE  Settled(t, now) /\ OnlyMoves(s, t)
<1>1. CASE s.ready = <<>>
  BY <1>1 DEF Dispatch, Settled, Busy, OnlyMoves
<1>2. CASE s.ready # <<>> /\ s.running = NoPid
  <2>1. NobodyRuns(s)
    BY <1>2 DEF RunsAlone, NobodyRuns, NoPid, Pids
  <2>2. t = PopReady(s)
    BY <1>2 DEF Dispatch
  <2> QED
    BY <2>1, <2>2, PopReadyTakesHead DEF Settled, OnTime, Sorted
<1>3. CASE s.ready # <<>> /\ s.running # NoPid
  <2>1. s.running \in Pids /\ s.status[s.running] = "Running"
    BY <1>3 DEF Orderly, SchedType, RunsAlone
  <2>2. t = PopReady(Requeue(s))
    BY <1>3, <2>1 DEF Dispatch
  <2>3. PICK u : u = Requeue(s)
    OBVIOUS
  <2>4. Orderly(u) /\ NobodyRuns(u) /\ OnlyMoves(s, u) /\ u.timers = s.timers
    BY <1>3, <2>3, RequeueMoves
  <2>5. /\ Orderly(t) /\ RunsAlone(t) /\ Busy(t) /\ OnlyMoves(u, t)
        /\ t.timers = u.timers
    BY <2>2, <2>3, <2>4, PopReadyTakesHead
  <2>6. OnlyMoves(s, t)
    BY <2>4, <2>5 DEF OnlyMoves
  <2> QED
    BY <2>4, <2>5, <2>6 DEF Settled, OnTime, Sorted
<1> QED
  BY <1>1, <1>2, <1>3

\* A turn of the scheduler settles, at any time, whatever lists it is given.
LEMMA ScheduleSettles ==
    ASSUME NEW s, Orderly(s), RunsAlone(s), Sorted(s), NEW now \in 0 .. MaxTime,
           NEW t, t = internal_schedule(s, now)
    PROVE  Settled(t, now) /\ OnlyMoves(s, t)
<1>1. PICK u : u = WakeExpired(s, now)
  OBVIOUS
<1>2. Orderly(u) /\ RunsAlone(u) /\ OnTime(u, now) /\ OnlyMoves(s, u)
  BY <1>1, WakeExpiredWakesSleepers
<1>3. Settled(t, now) /\ OnlyMoves(u, t)
  <2>1. t = Dispatch(u)
    BY <1>1 DEF internal_schedule
  <2> QED
    BY <2>1, <1>2, DispatchSettles
<1> QED
  BY <1>2, <1>3 DEF OnlyMoves

\* The tail of the trap keeps what is settled settled.
LEMMA TrapTailSettles ==
    ASSUME NEW now \in 0 .. MaxTime, NEW s, Settled(s, now),
           NEW t, t = TrapTail(s, now)
    PROVE  Settled(t, now) /\ OnlyMoves(s, t)
<1>1. CASE s.running # NoPid /\ s.ready # <<>>
  BY <1>1, ScheduleSettles DEF TrapTail, Settled, OnTime
<1>2. CASE ~ (s.running # NoPid /\ s.ready # <<>>)
  BY <1>2 DEF TrapTail, OnlyMoves
<1> QED
  BY <1>1, <1>2

\* Park moves the running process to the waiting list.
LEMMA ParkMoves ==
    ASSUME NEW s \in SchedType, Listed(s), RunsAlone(s), s.running # NoPid,
           NEW num \in CallNums, NEW arg \in Nat,
           NEW t, t = Park(s, num, arg)
    PROVE  /\ t \in SchedType /\ Listed(t) /\ NobodyRuns(t)
           /\ t.running = s.running /\ t.timers = s.timers /\ t.armed = s.armed
           /\ \A p \in Pids :
                /\ t.status[p] = IF p = s.running THEN "Waiting" ELSE s.status[p]
                /\ t.call[p] = IF p = s.running THEN [num |-> num, arg |-> arg] ELSE s.call[p]
<1> DEFINE m == s.running
           c == [num |-> num, arg |-> arg]
<1>1. /\ m \in Pids /\ s.status \in [Pids -> Statuses]
      /\ s.call \in [Pids -> Calls] /\ s.waiting \subseteq Pids
      /\ c \in Calls
  BY DEF SchedType, Calls
<1> HIDE DEF c
<1>2. s.status[m] = "Running"
  BY <1>1 DEF RunsAlone
<1>3. /\ [s.status EXCEPT ![m] = "Waiting"] \in [Pids -> Statuses]
      /\ [s.call EXCEPT ![m] = c] \in [Pids -> Calls]
      /\ s.waiting \cup {m} \in SUBSET Pids
  BY <1>1 DEF Statuses
<1>4. t = [s EXCEPT !.status = [s.status EXCEPT ![m] = "Waiting"],
                    !.call = [s.call EXCEPT ![m] = c],
                    !.waiting = s.waiting \cup {m}]
  BY <1>1 DEF Park, SchedType, c
<1> DEFINE st == [s.status EXCEPT ![m] = "Waiting"]
           ca == [s.call EXCEPT ![m] = c]
           wt == s.waiting \cup {m}
<1> HIDE DEF st, ca, wt
<1>5. /\ t \in SchedType /\ t.running = m /\ t.ready = s.ready
      /\ t.timers = s.timers /\ t.armed = s.armed
      /\ t.waiting = wt /\ t.status = st /\ t.call = ca
  <2>1. t = [s EXCEPT !.status = st, !.call = ca, !.waiting = wt]
    BY <1>4 DEF st, ca, wt
  <2>2. st \in [Pids -> Statuses] /\ ca \in [Pids -> Calls] /\ wt \in SUBSET Pids
    BY <1>3 DEF st, ca, wt
  <2> QED
    BY <2>1, <2>2 DEF SchedType
<1>6. \A p \in Pids : /\ t.status[p] = IF p = m THEN "Waiting" ELSE s.status[p]
                      /\ t.call[p] = IF p = m THEN c ELSE s.call[p]
  BY <1>1, <1>5 DEF st, ca
<1> HIDE DEF m
<1>7. Listed(t)
  BY <1>1, <1>2, <1>5, <1>6 DEF Listed, wt
<1>8. NobodyRuns(t)
  BY <1>1, <1>6 DEF NobodyRuns, RunsAlone, m
<1> QED
  BY <1>5, <1>6, <1>7, <1>8 DEF m, c

\* r is ts with timer inserted at position n.
GrownAt(r, n, timer, ts) ==
    /\ r[n] = timer
    /\ \A i \in DOMAIN r : i < n => i \in DOMAIN ts /\ r[i] = ts[i]
    /\ \A i \in DOMAIN r : i > n => i - 1 \in DOMAIN ts /\ r[i] = ts[i - 1]
    /\ \A i \in DOMAIN ts : /\ i < n => i \in DOMAIN r /\ r[i] = ts[i]
                            /\ i >= n => i + 1 \in DOMAIN r /\ r[i + 1] = ts[i]

\* TimerList_add keeps the order of the timers and loses none.
LEMMA TimerListAddSorts ==
    ASSUME NEW ts \in Seq(Timers), NEW timer \in Timers,
           InOrder(ts),
           NEW r, r = TimerList_add(ts, timer)
    PROVE  /\ r \in Seq(Timers) /\ DOMAIN r = 1 .. Len(r)
           /\ InOrder(r)
           /\ \E n \in DOMAIN r : GrownAt(r, n, timer, ts)
<1> DEFINE n == FirstLater(ts, timer.at)
<1>1. /\ DOMAIN ts = 1 .. Len(ts) /\ Len(ts) \in Nat
      /\ timer.at \in Nat
      /\ \A i \in 1 .. Len(ts) : ts[i].at \in Nat
      /\ \A i, j \in DOMAIN ts : i < j => ts[i].at <= ts[j].at
  <2>1. /\ DOMAIN ts = 1 .. Len(ts) /\ Len(ts) \in Nat
        /\ \A i \in 1 .. Len(ts) : ts[i] \in Timers
    BY LenProperties, ElementOfSeq
  <2> QED
    BY <2>1, KernelAssumption DEF Timers, InOrder
<1>2. /\ n \in 1 .. Len(ts) + 1
      /\ \A i \in 1 .. n - 1 : ts[i].at <= timer.at
      /\ n <= Len(ts) => ts[n].at > timer.at
  BY <1>1, FirstLaterSplits
<1>3. r = InsertAt(ts, n, timer)
  BY DEF TimerList_add
<1> HIDE DEF n
<1>4. /\ r \in Seq(Timers) /\ Len(r) = Len(ts) + 1
      /\ \A k \in 1 .. Len(ts) + 1 :
           r[k] = IF k < n THEN ts[k] ELSE IF k = n THEN timer ELSE ts[k - 1]
  <2>1. n \in 1 .. Len(ts) + 1
    BY <1>2
  <2>2. /\ InsertAt(ts, n, timer) \in Seq(Timers)
        /\ Len(InsertAt(ts, n, timer)) = Len(ts) + 1
        /\ \A k \in 1 .. Len(ts) + 1 :
             InsertAt(ts, n, timer)[k] =
               IF k < n THEN ts[k] ELSE IF k = n THEN timer ELSE ts[k - 1]
    BY <2>1, SeqInsertAt
  <2> QED
    BY <2>2, <1>3
<1>5. DOMAIN r = 1 .. Len(ts) + 1 /\ DOMAIN r = 1 .. Len(r)
  BY <1>4, LenProperties
<1>6. \A i \in DOMAIN r : i > n => i - 1 \in DOMAIN ts /\ r[i] = ts[i - 1]
  BY <1>1, <1>2, <1>4, <1>5
<1>7. \A i \in DOMAIN ts : i >= n => i + 1 \in DOMAIN r /\ r[i + 1] = ts[i]
  <2> SUFFICES ASSUME NEW i \in DOMAIN ts, i >= n
               PROVE  i + 1 \in DOMAIN r /\ r[i + 1] = ts[i]
    OBVIOUS
  <2>1. i + 1 \in DOMAIN r /\ i + 1 > n /\ (i + 1) - 1 = i
    BY <1>1, <1>2, <1>5
  <2> QED
    BY <2>1, <1>6
<1>8. n \in DOMAIN r /\ r[n] = timer
  BY <1>1, <1>2, <1>4, <1>5
<1>9. \A i \in DOMAIN r : i < n => i \in DOMAIN ts /\ r[i] = ts[i]
  BY <1>1, <1>2, <1>4, <1>5
<1>10. \A i \in DOMAIN ts : i < n => i \in DOMAIN r /\ r[i] = ts[i]
  BY <1>1, <1>2, <1>4, <1>5
<1>11. InOrder(r)
  <2>1. \A i \in DOMAIN r : i < n => r[i].at \in Nat /\ r[i].at <= timer.at
    BY <1>1, <1>2, <1>9
  <2>2. \A i \in DOMAIN ts : i >= n => ts[i].at >= timer.at
    BY <1>1, <1>2
  <2>3. \A i \in DOMAIN r : i > n => r[i].at \in Nat /\ r[i].at >= timer.at
    <3> SUFFICES ASSUME NEW i \in DOMAIN r, i > n
                 PROVE  r[i].at \in Nat /\ r[i].at >= timer.at
      OBVIOUS
    <3>1. i - 1 \in DOMAIN ts /\ i - 1 >= n /\ r[i] = ts[i - 1]
      BY <1>2, <1>5, <1>6
    <3> QED
      BY <3>1, <2>2, <1>1
  <2> SUFFICES ASSUME NEW i \in DOMAIN r, NEW j \in DOMAIN r, i < j
               PROVE  r[i].at <= r[j].at
    BY DEF InOrder
  <2>4. CASE j < n
    BY <2>4, <1>1, <1>2, <1>5, <1>9
  <2>5. CASE i > n
    <3>1. /\ i - 1 \in DOMAIN ts /\ r[i] = ts[i - 1]
          /\ j - 1 \in DOMAIN ts /\ r[j] = ts[j - 1]
      BY <2>5, <1>2, <1>5, <1>6
    <3>2. i - 1 < j - 1
      BY <1>5
    <3> QED
      BY <3>1, <3>2, <1>1
  <2>6. CASE i <= n /\ n <= j
    <3>1. i = n \/ (r[i].at \in Nat /\ r[i].at <= timer.at)
      BY <2>6, <2>1, <1>2, <1>5
    <3>2. j = n \/ (r[j].at \in Nat /\ r[j].at >= timer.at)
      BY <2>6, <2>3, <1>2, <1>5
    <3> QED
      BY <3>1, <3>2, <1>1, <1>8
  <2> QED
    BY <2>4, <2>5, <2>6, <1>2, <1>5
<1>12. GrownAt(r, n, timer, ts)
  BY <1>6, <1>7, <1>8, <1>9, <1>10 DEF GrownAt
<1> QED
  BY <1>4, <1>5, <1>8, <1>11, <1>12

\* From s to t no process is made, dies or is released, and none begins a wait.
Keeps(s, t) ==
    \A p \in Pids :
        /\ t.status[p] = "Free" <=> s.status[p] = "Free"
        /\ t.status[p] = "Zombie" <=> s.status[p] = "Zombie"
        /\ t.status[p] = "Waiting" /\ t.call[p].num = "wait" =>
              s.status[p] = "Waiting" /\ t.call[p] = s.call[p]

\* From s to t the same processes wait for resources, each in the same call.
KeepsBlocked(s, t) ==
    \A p \in Pids : /\ BlockedOnResource(t, p) <=> BlockedOnResource(s, p)
                    /\ BlockedOnResource(s, p) => t.call[p] = s.call[p]

\* What the processes are and what they wait for, OnlyMoves keeps.
LEMMA MovesKeep ==
    ASSUME NEW s, NEW t, OnlyMoves(s, t)
    PROVE  Keeps(s, t) /\ KeepsBlocked(s, t)
BY DEF OnlyMoves, Keeps, KeepsBlocked, BlockedOnResource

\* A sleep leaves the lists and the timers in order.
LEMMA SleepSettles ==
    ASSUME NEW now \in 0 .. MaxTime, NEW s, Settled(s, now),
           s.running # NoPid, s.running \notin s.armed,
           NEW n \in Nat, now + n <= MaxTime,
           NEW t, t = ParkAndPop([s EXCEPT !.timers = TimerList_add(@, [pid |-> s.running, at |-> now + n]),
                                           !.armed = @ \cup {s.running}], "sleep", n)
    PROVE  Settled(t, now) /\ Keeps(s, t) /\ KeepsBlocked(s, t)
<1> DEFINE m == s.running
           timer == [pid |-> m, at |-> now + n]
           ts == s.timers
           r == TimerList_add(ts, timer)
           u == [s EXCEPT !.timers = r, !.armed = s.armed \cup {m}]
           v == Park(u, "sleep", n)
<1>1. /\ s \in SchedType /\ m \in Pids /\ ts \in Seq(Timers) /\ timer \in Timers
      /\ now \in Nat /\ s.armed \subseteq Pids
      /\ s.status \in [Pids -> Statuses] /\ s.status[m] = "Running"
      /\ timer.pid = m /\ timer.at >= now
  <2>1. s \in SchedType /\ m \in Pids
    BY DEF Settled, Orderly, SchedType
  <2>2. now + n \in 0 .. MaxTime /\ now + n >= now /\ now \in Nat
    BY KernelAssumption
  <2> QED
    BY <2>1, <2>2 DEF SchedType, Timers, Settled, RunsAlone
<1>2. /\ InOrder(ts)
      /\ \A i \in DOMAIN ts : ts[i].at >= now /\ ts[i].pid # m
      /\ \A i, j \in DOMAIN ts : ts[i].pid = ts[j].pid => i = j
      /\ s.armed = {ts[i].pid : i \in DOMAIN ts}
  BY DEF Settled, OnTime, Sorted, Orderly, Asleep
<1>3. t = PopReady(v)
  <2>1. [s EXCEPT !.timers = TimerList_add(@, timer), !.armed = @ \cup {m}] = u
    BY <1>1 DEF SchedType
  <2> QED
    BY <2>1 DEF ParkAndPop
<1> HIDE DEF timer, r
<1>4. /\ r \in Seq(Timers) /\ DOMAIN r = 1 .. Len(r)
      /\ InOrder(r)
  <2>1. ts \in Seq(Timers) /\ timer \in Timers /\ r = TimerList_add(ts, timer)
    BY <1>1 DEF r
  <2> HIDE DEF ts
  <2> QED
    BY <2>1, <1>2, TimerListAddSorts
<1>5. PICK k \in DOMAIN r : GrownAt(r, k, timer, ts)
  <2>1. ts \in Seq(Timers) /\ timer \in Timers /\ r = TimerList_add(ts, timer)
    BY <1>1 DEF r
  <2> HIDE DEF ts
  <2> QED
    BY <2>1, <1>2, TimerListAddSorts
<1>6. \A i \in DOMAIN r : /\ r[i].at >= now
                          /\ r[i].pid = m <=> i = k
                          /\ r[i].pid \in s.armed \cup {m}
  BY <1>1, <1>2, <1>4, <1>5 DEF GrownAt
<1>7. \A i, j \in DOMAIN r : r[i].pid = r[j].pid => i = j
  <2> SUFFICES ASSUME NEW i \in DOMAIN r, NEW j \in DOMAIN r, r[i].pid = r[j].pid
               PROVE  i = j
    OBVIOUS
  <2>1. CASE i = k \/ j = k
    BY <2>1, <1>6
  <2>2. CASE i # k /\ j # k
    <3>1. ASSUME NEW x \in DOMAIN r, x # k
          PROVE  \E y \in DOMAIN ts : r[x] = ts[y] /\ y = IF x < k THEN x ELSE x - 1
      BY <3>1, <1>4, <1>5 DEF GrownAt
    <3>2. (IF i < k THEN i ELSE i - 1) = (IF j < k THEN j ELSE j - 1)
      BY <2>2, <3>1, <1>2
    <3> QED
      BY <2>2, <3>2, <1>4
  <2> QED
    BY <2>1, <2>2
<1>8. s.armed \cup {m} = {r[i].pid : i \in DOMAIN r}
  <2>1. ASSUME NEW p \in s.armed PROVE \E i \in DOMAIN r : p = r[i].pid
    <3>1. PICK i \in DOMAIN ts : p = ts[i].pid
      BY <1>2
    <3>2. i \in Int /\ k \in Int
      BY <1>1, <1>4, LenProperties
    <3> QED
      BY <3>1, <3>2, <1>5 DEF GrownAt
  <2> QED
    BY <2>1, <1>6
<1>9. /\ u \in SchedType /\ u.running = m /\ u.timers = r /\ u.armed = s.armed \cup {m}
      /\ u.status = s.status /\ u.call = s.call
      /\ u.ready = s.ready /\ u.waiting = s.waiting
  <2>1. s.armed \cup {m} \in SUBSET Pids
    BY <1>1
  <2> QED
    BY <2>1, <1>1, <1>4 DEF SchedType
<1>10. Listed(u) /\ RunsAlone(u)
  BY <1>9 DEF Settled, Orderly, Listed, RunsAlone
<1> HIDE DEF u
<1>11. /\ v \in SchedType /\ Listed(v) /\ NobodyRuns(v)
       /\ v.timers = r /\ v.armed = s.armed \cup {m}
       /\ \A p \in Pids :
            /\ v.status[p] = IF p = m THEN "Waiting" ELSE s.status[p]
            /\ v.call[p] = IF p = m THEN [num |-> "sleep", arg |-> n] ELSE s.call[p]
  <2>1. u.running # NoPid /\ "sleep" \in CallNums
    BY <1>9 DEF CallNums
  <2> QED
    BY <2>1, <1>9, <1>10, ParkMoves
<1> HIDE DEF v
<1>12. Asleep(v)
  <2>1. v.armed = {p \in Pids : v.status[p] = "Waiting" /\ v.call[p].num = "sleep"}
    <3>1. s.armed = {p \in Pids : s.status[p] = "Waiting" /\ s.call[p].num = "sleep"}
      BY DEF Settled, Orderly, Asleep
    <3> QED
      BY <3>1, <1>1, <1>11
  <2>2. \A p \in Pids : v.status[p] = "Waiting" => v.call[p].num # "none"
    BY <1>11 DEF Settled, Orderly, Asleep
  <2> QED
    BY <2>1, <2>2, <1>7, <1>8, <1>11 DEF Asleep
<1>13. /\ Orderly(t) /\ RunsAlone(t) /\ Busy(t) /\ OnlyMoves(v, t)
       /\ t.timers = v.timers
  BY <1>3, <1>11, <1>12, PopReadyTakesHead DEF Orderly
<1>14. OnTime(t, now)
  BY <1>4, <1>6, <1>11, <1>13 DEF OnTime, Sorted
<1>15. Keeps(s, t) /\ KeepsBlocked(s, t)
  BY <1>1, <1>11, <1>13
     DEF OnlyMoves, Keeps, KeepsBlocked, BlockedOnResource, ResourceCalls
<1> QED
  BY <1>13, <1>14, <1>15 DEF Settled

\* From s to t the status, or the call, of process m alone becomes new.
StatusSet(s, t, m, new) == \A p \in Pids : t.status[p] = IF p = m THEN new ELSE s.status[p]
CallSet(s, t, m, new) == \A p \in Pids : t.call[p] = IF p = m THEN new ELSE s.call[p]

\* A process made ready joins the ready list.
LEMMA BirthSettles ==
    ASSUME NEW s, NEW now, Settled(s, now), s.running # NoPid,
           NEW c \in Pids, s.status[c] = "Free",
           NEW t, t = [s EXCEPT !.status[c] = "Ready", !.ready = Append(@, c)]
    PROVE  /\ Settled(t, now) /\ t.call = s.call
           /\ StatusSet(s, t, c, "Ready")
<1> DEFINE st == [s.status EXCEPT ![c] = "Ready"]
           rd == Append(s.ready, c)
<1>1. /\ s \in SchedType /\ s.ready \in Seq(Pids) /\ s.status \in [Pids -> Statuses]
      /\ c \notin ToSet(s.ready)
  BY DEF Settled, Orderly, SchedType, Listed
<1>2. st \in [Pids -> Statuses] /\ \A p \in Pids : st[p] = IF p = c THEN "Ready" ELSE s.status[p]
  BY <1>1 DEF Statuses
<1>3. rd \in Seq(Pids) /\ ToSet(rd) = ToSet(s.ready) \cup {c} /\ IsInjective(rd)
  BY <1>1, SeqAppend DEF Settled, Orderly, Listed
<1>4. t = [s EXCEPT !.status = st, !.ready = rd]
  BY <1>1 DEF SchedType
<1> HIDE DEF st, rd
<1>5. /\ t \in SchedType /\ t.running = s.running /\ t.ready = rd /\ t.waiting = s.waiting
      /\ t.status = st /\ t.timers = s.timers /\ t.armed = s.armed /\ t.call = s.call
  BY <1>1, <1>2, <1>3, <1>4 DEF SchedType
<1>6. Listed(t)
  <2>1. \A p \in Pids : /\ s.status[p] = "Ready" <=> p \in ToSet(s.ready)
                        /\ s.status[p] = "Waiting" <=> p \in s.waiting
    BY DEF Settled, Orderly, Listed
  <2>2. \A p \in Pids : st[p] = "Ready" <=> p \in ToSet(rd)
    BY <2>1, <1>2, <1>3
  <2>3. \A p \in Pids : st[p] = "Waiting" <=> p \in s.waiting
    BY <2>1, <1>2
  <2> QED
    BY <2>2, <2>3, <1>3, <1>5 DEF Listed
<1>7. Asleep(t)
  BY <1>2, <1>5 DEF Settled, Orderly, Asleep
<1>8. RunsAlone(t)
  BY <1>2, <1>5 DEF Settled, RunsAlone
<1> QED
  BY <1>2, <1>5, <1>6, <1>7, <1>8 DEF Settled, Orderly, Busy, OnTime, Sorted, StatusSet

\* The release of a zombie leaves the lists as they are.
LEMMA ReleaseSettles ==
    ASSUME NEW s, NEW now, Settled(s, now),
           NEW z \in Pids, s.status[z] = "Zombie",
           NEW t, t = [s EXCEPT !.status[z] = "Free"]
    PROVE  /\ Settled(t, now) /\ t.call = s.call
           /\ StatusSet(s, t, z, "Free")
<1> DEFINE st == [s.status EXCEPT ![z] = "Free"]
<1>1. s \in SchedType /\ s.status \in [Pids -> Statuses]
  BY DEF Settled, Orderly, SchedType
<1>2. st \in [Pids -> Statuses] /\ \A p \in Pids : st[p] = IF p = z THEN "Free" ELSE s.status[p]
  BY <1>1 DEF Statuses
<1>3. t = [s EXCEPT !.status = st]
  BY <1>1 DEF SchedType
<1> HIDE DEF st
<1>4. /\ t \in SchedType /\ t.running = s.running /\ t.ready = s.ready /\ t.waiting = s.waiting
      /\ t.status = st /\ t.timers = s.timers /\ t.armed = s.armed /\ t.call = s.call
  BY <1>1, <1>2, <1>3 DEF SchedType
<1>5. Listed(t) /\ Asleep(t) /\ RunsAlone(t)
  BY <1>2, <1>4 DEF Settled, Orderly, Listed, Asleep, RunsAlone
<1> QED
  BY <1>2, <1>4, <1>5 DEF Settled, Orderly, Busy, OnTime, Sorted, StatusSet

\* The running process becomes a zombie, and nobody runs.
LEMMA DeathLeavesOrder ==
    ASSUME NEW s, NEW now, Settled(s, now), s.running # NoPid,
           NEW t, t = [s EXCEPT !.status[s.running] = "Zombie", !.running = NoPid]
    PROVE  /\ Orderly(t) /\ RunsAlone(t) /\ Sorted(t)
           /\ t.call = s.call /\ t.waiting = s.waiting
           /\ StatusSet(s, t, s.running, "Zombie")
<1> DEFINE m == s.running
           st == [s.status EXCEPT ![m] = "Zombie"]
<1>1. /\ s \in SchedType /\ s.status \in [Pids -> Statuses]
      /\ m \in Pids /\ s.status[m] = "Running" /\ NoPid \notin Pids
  BY DEF Settled, Orderly, SchedType, RunsAlone, NoPid, Pids
<1>2. st \in [Pids -> Statuses] /\ \A p \in Pids : st[p] = IF p = m THEN "Zombie" ELSE s.status[p]
  BY <1>1 DEF Statuses
<1>3. t = [s EXCEPT !.status = st, !.running = NoPid]
  BY <1>1 DEF SchedType
<1> HIDE DEF st
<1>4. /\ t \in SchedType /\ t.running = NoPid /\ t.ready = s.ready /\ t.waiting = s.waiting
      /\ t.status = st /\ t.timers = s.timers /\ t.armed = s.armed /\ t.call = s.call
  BY <1>1, <1>2, <1>3 DEF SchedType
<1>5. Listed(t) /\ Asleep(t) /\ RunsAlone(t)
  BY <1>1, <1>2, <1>4 DEF Settled, Orderly, Listed, Asleep, RunsAlone
<1> QED
  BY <1>2, <1>4, <1>5 DEF Settled, Orderly, OnTime, Sorted, StatusSet

\* The running process blocks in a wait, and nobody runs.
LEMMA WaitLeavesOrder ==
    ASSUME NEW s, NEW now, Settled(s, now), s.running # NoPid, NEW pid \in Pids,
           NEW t, t = [Park(s, "wait", pid) EXCEPT !.running = NoPid]
    PROVE  /\ Orderly(t) /\ RunsAlone(t) /\ Sorted(t)
           /\ StatusSet(s, t, s.running, "Waiting")
           /\ CallSet(s, t, s.running, [num |-> "wait", arg |-> pid])
<1> DEFINE m == s.running
           v == Park(s, "wait", pid)
<1>1. /\ s \in SchedType /\ Listed(s) /\ RunsAlone(s) /\ pid \in Nat
      /\ m \in Pids /\ s.status[m] = "Running" /\ NoPid \notin Pids
  BY KernelAssumption DEF Settled, Orderly, SchedType, RunsAlone, NoPid, Pids
<1>2. /\ v \in SchedType /\ Listed(v) /\ NobodyRuns(v)
      /\ v.timers = s.timers /\ v.armed = s.armed
      /\ \A p \in Pids :
           /\ v.status[p] = IF p = m THEN "Waiting" ELSE s.status[p]
           /\ v.call[p] = IF p = m THEN [num |-> "wait", arg |-> pid] ELSE s.call[p]
  <2>1. "wait" \in CallNums
    BY DEF CallNums
  <2> QED
    BY <2>1, <1>1, ParkMoves
<1> HIDE DEF v
<1>3. /\ t \in SchedType /\ t.running = NoPid /\ t.ready = v.ready /\ t.waiting = v.waiting
      /\ t.status = v.status /\ t.timers = v.timers /\ t.armed = v.armed /\ t.call = v.call
  <2>1. t = [v EXCEPT !.running = NoPid]
    BY DEF v
  <2> QED
    BY <2>1, <1>2 DEF SchedType
<1>4. Listed(t) /\ RunsAlone(t)
  BY <1>1, <1>2, <1>3 DEF Listed, RunsAlone, NobodyRuns
<1>5. Asleep(t)
  <2>1. Asleep(s) /\ m \notin s.armed
    BY <1>1 DEF Settled, Orderly, Asleep
  <2> QED
    BY <2>1, <1>1, <1>2, <1>3 DEF Asleep
<1> QED
  BY <1>2, <1>3, <1>4, <1>5 DEF Settled, Orderly, OnTime, Sorted, StatusSet, CallSet

-----------------------------------------------------------------------------
(* The calls on a resource                                                 *)

\* From s to t process m blocks on a resource, in call c, and nobody else does.
Blocks(s, t, m, c) ==
    \A p \in Pids :
        /\ BlockedOnResource(t, p) <=> BlockedOnResource(s, p) \/ p = m
        /\ BlockedOnResource(t, p) => t.call[p] = IF p = m THEN c ELSE s.call[p]

\* From s to t the processes of w no longer wait for a resource; the others do as before.
Unblocks(s, t, w) ==
    \A p \in Pids :
        /\ BlockedOnResource(t, p) <=> BlockedOnResource(s, p) /\ p \notin w
        /\ BlockedOnResource(t, p) => t.call[p] = s.call[p]

\* A call that blocks on a resource leaves the lists and the timers in order.
LEMMA BlockSettles ==
    ASSUME NEW s, NEW now, Settled(s, now), s.running # NoPid,
           NEW num \in ResourceCalls, NEW arg \in Nat,
           NEW t, t = ParkAndPop(s, num, arg)
    PROVE  /\ Settled(t, now) /\ Keeps(s, t)
           /\ Blocks(s, t, s.running, [num |-> num, arg |-> arg])
<1> DEFINE m == s.running
           v == Park(s, num, arg)
<1>1. /\ s \in SchedType /\ Listed(s) /\ RunsAlone(s)
      /\ m \in Pids /\ s.status[m] = "Running"
      /\ num \in CallNums /\ num # "sleep" /\ num # "wait" /\ num # "none"
  BY DEF Settled, Orderly, SchedType, RunsAlone, ResourceCalls, CallNums
<1>2. /\ v \in SchedType /\ Listed(v) /\ NobodyRuns(v)
      /\ v.timers = s.timers /\ v.armed = s.armed
      /\ \A p \in Pids :
           /\ v.status[p] = IF p = m THEN "Waiting" ELSE s.status[p]
           /\ v.call[p] = IF p = m THEN [num |-> num, arg |-> arg] ELSE s.call[p]
  BY <1>1, ParkMoves
<1>3. t = PopReady(v)
  BY DEF ParkAndPop
<1> HIDE DEF v, m
<1>4. Asleep(v)
  <2>1. Asleep(s) /\ m \notin s.armed
    BY <1>1 DEF Settled, Orderly, Asleep
  <2>2. \A p \in Pids : v.status[p] = "Waiting" => v.call[p].num # "none"
    BY <2>1, <1>1, <1>2 DEF Asleep
  <2>3. v.armed = {p \in Pids : v.status[p] = "Waiting" /\ v.call[p].num = "sleep"}
    BY <2>1, <1>1, <1>2 DEF Asleep
  <2> QED
    BY <2>1, <2>2, <2>3, <1>2 DEF Asleep
<1>5. /\ Orderly(t) /\ RunsAlone(t) /\ Busy(t) /\ OnlyMoves(v, t)
      /\ t.timers = v.timers
  BY <1>2, <1>3, <1>4, PopReadyTakesHead DEF Orderly
<1>6. OnTime(t, now)
  BY <1>2, <1>5 DEF Settled, OnTime, Sorted
<1>7. Keeps(s, t)
  BY <1>1, <1>2, <1>5 DEF OnlyMoves, Keeps
<1>8. Blocks(s, t, m, [num |-> num, arg |-> arg])
  BY <1>1, <1>2, <1>5 DEF OnlyMoves, Blocks, BlockedOnResource
<1> QED
  BY <1>5, <1>6, <1>7, <1>8 DEF Settled, m

\* A call that wakes processes blocked on a resource leaves the lists and the timers in
\* order.
LEMMA UnblockSettles ==
    ASSUME NEW s, NEW now, Settled(s, now), s.running # NoPid,
           NEW q \in Seq(Pids), IsInjective(q),
           \A p \in ToSet(q) : BlockedOnResource(s, p),
           NEW t, t = WakeAll(s, q)
    PROVE  Settled(t, now) /\ Keeps(s, t) /\ Unblocks(s, t, ToSet(q))
<1> DEFINE w == ToSet(q)
<1>1. s \in SchedType /\ Listed(s) /\ w \subseteq Pids
  BY ToSetType DEF Settled, Orderly
<1>2. \A p \in w : /\ s.status[p] = "Waiting" /\ p \in s.waiting
                   /\ s.call[p].num # "sleep" /\ s.call[p].num # "wait"
  BY <1>1 DEF BlockedOnResource, ResourceCalls, Listed
<1>3. /\ t \in SchedType /\ Listed(t)
      /\ t.running = s.running /\ t.timers = s.timers /\ t.armed = s.armed
      /\ WokenBy(s, t, w)
  BY <1>1, <1>2, WakeAllMoves
<1> HIDE DEF w
<1>4. \A p \in Pids : /\ t.status[p] = IF p \in w THEN "Ready" ELSE s.status[p]
                      /\ t.call[p] = IF p \in w THEN NoCall ELSE s.call[p]
  BY <1>3 DEF WokenBy
<1>5. Asleep(t)
  BY <1>2, <1>3, <1>4 DEF Settled, Orderly, Asleep, NoCall
<1>6. RunsAlone(t) /\ Busy(t) /\ OnTime(t, now)
  BY <1>2, <1>3, <1>4 DEF Settled, RunsAlone, Busy, OnTime, Sorted
<1>7. Keeps(s, t) /\ Unblocks(s, t, w)
  BY <1>2, <1>4 DEF Keeps, Unblocks, BlockedOnResource
<1> QED
  BY <1>3, <1>5, <1>6, <1>7 DEF Settled, Orderly, w

\* p is blocked in one of the calls nums.
InCall(s, p, nums) == s.status[p] = "Waiting" /\ s.call[p].num \in nums

\* From s to t the same processes are blocked in the calls nums, each as before.
KeepsCalls(s, t, nums) ==
    \A p \in Pids : /\ InCall(t, p, nums) <=> InCall(s, p, nums)
                    /\ InCall(s, p, nums) => t.call[p] = s.call[p]

\* Who stays blocked on a resource stays in the same call.
LEMMA BlockedKeepCalls ==
    ASSUME NEW s, NEW t, KeepsBlocked(s, t), NEW nums \in SUBSET ResourceCalls
    PROVE  KeepsCalls(s, t, nums)
BY DEF KeepsBlocked, KeepsCalls, InCall, BlockedOnResource

\* Who blocks in one call on a resource leaves those in the others where they are.
LEMMA BlocksKeepsCalls ==
    ASSUME NEW s, NEW t, NEW m \in Pids, ~BlockedOnResource(s, m), NEW c,
           Blocks(s, t, m, c), NEW nums \in SUBSET ResourceCalls, c.num \notin nums
    PROVE  KeepsCalls(s, t, nums)
BY DEF Blocks, KeepsCalls, InCall, BlockedOnResource

\* So does a call that wakes none of them.
LEMMA UnblocksKeepsCalls ==
    ASSUME NEW s, NEW t, NEW w, Unblocks(s, t, w), NEW nums \in SUBSET ResourceCalls,
           \A p \in w : ~InCall(s, p, nums)
    PROVE  KeepsCalls(s, t, nums)
BY DEF Unblocks, KeepsCalls, InCall, BlockedOnResource

-----------------------------------------------------------------------------
(* The kernel                                                              *)

\* A pid that was not handed out yet is nobody's.
PidsFresh == last_pid >= 1 /\ \A p \in Pids : p >= last_pid => sched.status[p] = "Free"

InitLives == sched.status[InitPid] \notin {"Free", "Zombie"}

HaveParent == {q \in Pids : parent[q] # NoPid}

\* Those on the waiting list of a semaphore or of a queue.
Linked == {p \in Pids : BlockedOnResource(sched, p)}

LinksCounted == ptrs = Cardinality(HaveParent) + Cardinality(Linked)

ZombiesListed == \A p \in Pids : sched.status[p] = "Zombie" <=> p \in zombies

\* No process but init stays blocked in a wait that a dead child of its own would end.
WaiterSeesDeadChild ==
    \A p \in Pids \ {InitPid} : BlockedInWait(p) => Awaited(p, sched.call[p].arg) = {}

KernelInv ==
    /\ KernelTypeOK
    /\ Settled(sched, time)
    /\ ZombiesListed
    /\ PidsFresh
    /\ InitLives
    /\ LinksCounted
    /\ FamilyTree
    /\ WaiterSeesDeadChild
    /\ WaiterHasLiveChild

\* What OnlyOrphansAreMissed says of one step.
MissesOrphansOnly ==
    \A p \in Pids :
        BlockedInWait(p)' =>
            \A q \in Awaited(p, sched.call[p].arg)' :
                \/ BlockedInWait(p) /\ q \in Awaited(p, sched.call[p].arg)
                \/ p = InitPid /\ p # me /\ parent[q] = me

\* The types of the parts of the invariant that the proofs use all the time.
LEMMA InvTypes ==
    ASSUME KernelInv
    PROVE  /\ sched \in SchedType /\ time \in 0 .. MaxTime /\ time \in Nat
           /\ sched.status \in [Pids -> Statuses] /\ sched.call \in [Pids -> Calls]
           /\ sched.running \in Pids \cup {NoPid} /\ sched.ready \in Seq(Pids)
           /\ parent \in [Pids -> Pids \cup {NoPid}]
           /\ children \in [Pids -> Seq(Pids)] /\ zombies \subseteq Pids
           /\ IsFiniteSet(Pids) /\ NoPid \notin Pids /\ InitPid \in Pids
           /\ Pids \subseteq Nat
<1>1. IsFiniteSet(Pids)
  BY FS_Interval, KernelAssumption DEF Pids
<1> QED
  BY <1>1, KernelAssumption DEF KernelInv, KernelTypeOK, SchedType, Pids, NoPid, InitPid

\* The sets whose elements Cardinality counts are finite.
LEMMA LinksFinite ==
    ASSUME KernelInv
    PROVE  /\ IsFiniteSet(HaveParent) /\ Cardinality(HaveParent) \in Nat
           /\ IsFiniteSet(Linked) /\ Cardinality(Linked) \in Nat
<1>1. HaveParent \subseteq Pids /\ Linked \subseteq Pids /\ IsFiniteSet(Pids)
  BY InvTypes DEF HaveParent, Linked
<1> QED
  BY <1>1, FS_Subset, FS_CardinalityType

\* The initial state satisfies the invariant.
LEMMA InitEstablishesInv == KernelInit => KernelInv
<1> SUFFICES ASSUME KernelInit PROVE KernelInv
  OBVIOUS
<1>1. /\ InitPid \in Pids /\ NoPid \notin Pids /\ IsFiniteSet(Pids)
      /\ \A p \in Pids : p \in Nat /\ (p >= 1 <=> p # InitPid)
      /\ 0 \in 0 .. MaxTime /\ 0 \in 0 .. MaxProcs /\ 1 \in 0 .. MaxPid + 1
  BY FS_Interval, KernelAssumption DEF Pids, InitPid, NoPid
<1>2. /\ sched.running = InitPid /\ sched.ready = <<>> /\ sched.waiting = {}
      /\ sched.timers = <<>> /\ sched.armed = {}
      /\ sched.status = [p \in Pids |-> IF p = InitPid THEN "Running" ELSE "Free"]
      /\ sched.call = [p \in Pids |-> NoCall]
  BY DEF KernelInit
<1>3. sched \in SchedType
  <2>1. /\ [p \in Pids |-> IF p = InitPid THEN "Running" ELSE "Free"] \in [Pids -> Statuses]
        /\ [p \in Pids |-> NoCall] \in [Pids -> Calls]
    BY DEF Statuses, NoCall, Calls, CallNums
  <2> QED
    BY <2>1, <1>1 DEF KernelInit, SchedType
<1>4. KernelTypeOK
  <2>1. /\ [p \in Pids |-> NoPid] \in [Pids -> Pids \cup {NoPid}]
        /\ [p \in Pids |-> <<>>] \in [Pids -> Seq(Pids)]
        /\ [p \in Pids |-> 0] \in [Pids -> Int]
        /\ "no" \in Halts
    BY DEF Halts
  <2> QED
    BY <2>1, <1>1, <1>3 DEF KernelInit, KernelTypeOK
<1>5. Settled(sched, time)
  <2>1. /\ ToSet(sched.ready) = {} /\ IsInjective(sched.ready)
        /\ DOMAIN sched.timers = {}
    BY <1>2 DEF ToSet, IsInjective
  <2>2. Listed(sched)
    BY <2>1, <1>2 DEF Listed
  <2>3. Asleep(sched)
    BY <2>1, <1>2 DEF Asleep
  <2>4. RunsAlone(sched)
    BY <1>2 DEF RunsAlone
  <2> QED
    BY <2>1, <2>2, <2>3, <2>4, <1>1, <1>2, <1>3
       DEF Settled, Orderly, Busy, OnTime, Sorted, InOrder
<1>6. ZombiesListed /\ PidsFresh /\ InitLives
  BY <1>1, <1>2 DEF KernelInit, ZombiesListed, PidsFresh, InitLives
<1>7. LinksCounted
  <2>1. HaveParent = {} /\ Linked = {}
    BY DEF KernelInit, HaveParent, Linked, BlockedOnResource
  <2> QED
    BY <2>1, FS_EmptySet DEF KernelInit, LinksCounted
<1>8. FamilyTree
  <2>1. \A p \in Pids : children[p] = <<>> /\ parent[p] = NoPid
    BY DEF KernelInit
  <2>2. \A p \in Pids : ToSet(children[p]) = {} /\ IsInjective(children[p])
    BY <2>1 DEF ToSet, IsInjective
  <2> QED
    BY <2>1, <2>2, <1>1, <1>2 DEF FamilyTree
<1>9. WaiterSeesDeadChild /\ WaiterHasLiveChild
  BY <1>2 DEF WaiterSeesDeadChild, WaiterHasLiveChild, BlockedInWait
<1> QED
  BY <1>4, <1>5, <1>6, <1>7, <1>8, <1>9 DEF KernelInv

\* A step that changes nobody's wait for a resource keeps the set of those who do.
LEMMA BlockedStay ==
    ASSUME KeepsBlocked(sched, sched')
    PROVE  Linked' = Linked
BY DEF KeepsBlocked, Linked

\* A step in which no process is made, dies or is released keeps what is said of
\* families, zombies and pids.
LEMMA SameLivesKeepFamilies ==
    ASSUME KernelInv, Settled(sched', time'),
           \A p \in Pids : /\ sched'.status[p] = "Free" <=> sched.status[p] = "Free"
                           /\ sched'.status[p] = "Zombie" <=> sched.status[p] = "Zombie",
           time' \in 0 .. MaxTime, ret' \in [Pids -> Int], halt' \in Halts,
           ptrs' \in 0 .. MaxProcs,
           UNCHANGED <<last_pid, zombies, parent, children>>
    PROVE  /\ KernelTypeOK' /\ ZombiesListed' /\ PidsFresh' /\ InitLives'
           /\ HaveParent' = HaveParent /\ FamilyTree'
<1>1. KernelTypeOK'
  BY DEF KernelInv, KernelTypeOK, Settled, Orderly
<1>2. ZombiesListed' /\ PidsFresh' /\ InitLives' /\ HaveParent' = HaveParent
  BY InvTypes DEF KernelInv, ZombiesListed, PidsFresh, InitLives, HaveParent
<1>3. FamilyTree'
  BY DEF KernelInv, FamilyTree
<1> QED
  BY <1>1, <1>2, <1>3

\* A step that misses nothing but orphans of init keeps what is said of the others.
LEMMA OthersMissNothing ==
    ASSUME KernelInv, MissesOrphansOnly
    PROVE  WaiterSeesDeadChild'
<1> SUFFICES ASSUME NEW p \in Pids \ {InitPid}, BlockedInWait(p)',
                    NEW q \in Awaited(p, sched.call[p].arg)'
             PROVE  FALSE
  BY DEF WaiterSeesDeadChild
<1>1. BlockedInWait(p) /\ q \in Awaited(p, sched.call[p].arg)
  BY DEF MissesOrphansOnly
<1> QED
  BY <1>1 DEF KernelInv, WaiterSeesDeadChild

\* A step that only moves processes between the lists keeps the invariant, if it takes
\* and frees as many PCBPtr blocks as there are processes that begin and that end a wait
\* for a resource.
LEMMA CallKeepsInv ==
    ASSUME KernelInv, Settled(sched', time'), Keeps(sched, sched'),
           time' \in 0 .. MaxTime, ret' \in [Pids -> Int], halt' \in Halts,
           ptrs' \in 0 .. MaxProcs,
           ptrs' - ptrs = Cardinality(Linked') - Cardinality(Linked),
           Cardinality(Linked') \in Nat,
           UNCHANGED <<last_pid, zombies, parent, children>>
    PROVE  KernelInv' /\ MissesOrphansOnly
<1>1. \A p \in Pids : /\ sched'.status[p] = "Free" <=> sched.status[p] = "Free"
                      /\ sched'.status[p] = "Zombie" <=> sched.status[p] = "Zombie"
  BY DEF Keeps
<1>2. /\ KernelTypeOK' /\ ZombiesListed' /\ PidsFresh' /\ InitLives'
      /\ HaveParent' = HaveParent /\ FamilyTree'
  BY <1>1, SameLivesKeepFamilies
<1>3. LinksCounted'
  <2>1. ptrs = Cardinality(HaveParent) + Cardinality(Linked)
    BY DEF KernelInv, LinksCounted
  <2>2. Cardinality(HaveParent) \in Nat /\ Cardinality(Linked) \in Nat /\ ptrs' \in Int
    BY LinksFinite, KernelAssumption
  <2>3. ptrs' = Cardinality(HaveParent) + Cardinality(Linked')
    BY <2>1, <2>2
  <2> QED
    BY <2>3, <1>2 DEF LinksCounted
<1>4. \A p \in Pids : BlockedInWait(p)' => BlockedInWait(p) /\ sched'.call[p] = sched.call[p]
  BY DEF Keeps, BlockedInWait
<1>5. \A p \in Pids : \A q \in ToSet(children[p]) : q \in Pids
  BY InvTypes, ToSetType
<1>6. MissesOrphansOnly
  BY <1>1, <1>4, <1>5 DEF MissesOrphansOnly, Awaited
<1>7. WaiterHasLiveChild'
  BY <1>1, <1>4, <1>5 DEF KernelInv, WaiterHasLiveChild
<1> QED
  BY <1>2, <1>3, <1>6, <1>7, OthersMissNothing DEF KernelInv

\* A step that only moves processes between the lists, and none that waits for a
\* resource, keeps the invariant.
LEMMA MovesKeepInv ==
    ASSUME KernelInv, Settled(sched', time'),
           Keeps(sched, sched'), KeepsBlocked(sched, sched'),
           time' \in 0 .. MaxTime, ret' \in [Pids -> Int], halt' \in Halts,
           UNCHANGED <<last_pid, zombies, parent, children, ptrs>>
    PROVE  KernelInv' /\ MissesOrphansOnly
<1>1. Linked' = Linked
  BY BlockedStay
<1>2. ptrs' \in 0 .. MaxProcs /\ ptrs' = ptrs /\ ptrs \in Int
  BY KernelAssumption DEF KernelInv, KernelTypeOK
<1>3. Cardinality(Linked') = Cardinality(Linked) /\ Cardinality(Linked) \in Nat
  BY <1>1, LinksFinite
<1>4. /\ ptrs' - ptrs = Cardinality(Linked') - Cardinality(Linked)
      /\ Cardinality(Linked') \in Nat
  BY <1>2, <1>3
<1> QED
  BY <1>2, <1>4, CallKeepsInv

\* A step that stops the system keeps the invariant.
LEMMA StopKeepsInv ==
    ASSUME KernelInv, NEW how \in Halts, Stop(how)
    PROVE  KernelInv' /\ KeepsBlocked(sched, sched') /\ MissesOrphansOnly
<1>1. Settled(sched', time') /\ Keeps(sched, sched') /\ KeepsBlocked(sched, sched')
  BY DEF KernelInv, Stop, Keeps, KeepsBlocked, BlockedOnResource
<1> QED
  BY <1>1, MovesKeepInv DEF Stop, KernelInv, KernelTypeOK

\* The end of a trap whose handler left a settled scheduler keeps the invariant.
LEMMA EndTrapKeepsInv ==
    ASSUME KernelInv, NEW s, Settled(s, time), EndTrap(s),
           Keeps(sched, s), KeepsBlocked(sched, s), ret' \in [Pids -> Int],
           UNCHANGED <<time, last_pid, zombies, parent, children, ptrs, halt>>
    PROVE  KernelInv' /\ KeepsBlocked(sched, sched') /\ MissesOrphansOnly
<1>1. Settled(sched', time) /\ OnlyMoves(s, sched')
  BY InvTypes, TrapTailSettles DEF EndTrap
<1>2. Keeps(s, sched') /\ KeepsBlocked(s, sched')
  BY <1>1, MovesKeep
<1>3. Keeps(sched, sched')
  BY <1>2 DEF Keeps
<1>4. KeepsBlocked(sched, sched')
  BY <1>2 DEF KeepsBlocked
<1> QED
  BY <1>1, <1>3, <1>4, InvTypes, MovesKeepInv DEF KernelInv, KernelTypeOK

\* A handler that only returns a number keeps the invariant.
LEMMA ReturnKeepsInv ==
    ASSUME KernelInv, NEW v \in Int, Return(v),
           UNCHANGED <<time, last_pid, zombies, parent, children, ptrs, halt>>
    PROVE  KernelInv' /\ KeepsBlocked(sched, sched') /\ MissesOrphansOnly
<1>1. Settled(sched, time) /\ Keeps(sched, sched) /\ ret' \in [Pids -> Int]
  BY DEF KernelInv, KernelTypeOK, Keeps, Return
<1>2. KeepsBlocked(sched, sched)
  BY DEF KeepsBlocked
<1> QED
  BY <1>1, <1>2, EndTrapKeepsInv DEF Return

\* Preempt keeps the invariant.
LEMMA PreemptKeepsInv ==
    ASSUME KernelInv, Preempt
    PROVE  KernelInv' /\ KeepsBlocked(sched, sched') /\ MissesOrphansOnly
<1> DEFINE s == internal_schedule(sched, time)
<1>1. Settled(s, time) /\ OnlyMoves(sched, s)
  BY InvTypes, ScheduleSettles DEF KernelInv, Settled, OnTime
<1>2. EndTrap(s) /\ UNCHANGED <<time, last_pid, zombies, parent, children, ret, ptrs, halt>>
  BY DEF Preempt
<1> HIDE DEF s
<1> QED
  BY <1>1, <1>2, MovesKeep, EndTrapKeepsInv DEF KernelInv, KernelTypeOK

\* The timer interrupt keeps the invariant.
LEMMA TickKeepsInv ==
    ASSUME KernelInv, Tick
    PROVE  KernelInv' /\ KeepsBlocked(sched, sched') /\ MissesOrphansOnly
<1>1. time' \in 0 .. MaxTime
  <2>1. {time + 1, MaxTime} \in SUBSET Nat /\ {time + 1, MaxTime} # {}
    BY InvTypes, KernelAssumption
  <2>2. time' \in {time + 1, MaxTime} /\ time' <= MaxTime
    BY <2>1, LeastNatural DEF Tick
  <2> QED
    BY <2>2, InvTypes, KernelAssumption
<1>2. Settled(sched', time') /\ OnlyMoves(sched, sched')
  BY <1>1, ScheduleSettles DEF Tick, KernelInv, Settled, OnTime
<1> QED
  BY <1>1, <1>2, MovesKeep, MovesKeepInv DEF Tick, KernelInv, KernelTypeOK

\* Sleep keeps the invariant, refused or not.
LEMMA SleepKeepsInv ==
    ASSUME KernelInv, NEW n \in SleepArgs, Sleep(n)
    PROVE  KernelInv' /\ KeepsBlocked(sched, sched') /\ MissesOrphansOnly
<1>1. CASE SleepRefused(n)
  <2>1. SleepError(n) \in Int
    BY DEF SleepError, ESLEEP, EINVAL
  <2> QED
    BY <1>1, <2>1, ReturnKeepsInv DEF SleepRefused
<1>2. CASE SleepBlocks(n)
  <2> DEFINE timer == [pid |-> sched.running, at |-> time + n]
             s == ParkAndPop([sched EXCEPT !.timers = TimerList_add(@, timer),
                                           !.armed = @ \cup {sched.running}], "sleep", n)
  <2>1. /\ sched.running # NoPid /\ sched.running \notin sched.armed
        /\ n \in Nat /\ time + n <= MaxTime
    BY <1>2, KernelAssumption DEF SleepBlocks, InUserCode, me, SleepError, ESLEEP, EINVAL
  <2>2. Settled(sched, time) /\ time \in 0 .. MaxTime
    BY InvTypes DEF KernelInv
  <2>3. Settled(s, time) /\ Keeps(sched, s) /\ KeepsBlocked(sched, s)
    BY <2>1, <2>2, SleepSettles
  <2>4. EndTrap(s) /\ UNCHANGED <<time, last_pid, zombies, parent, children, ret, ptrs, halt>>
    BY <1>2 DEF SleepBlocks, me
  <2> HIDE DEF s
  <2> QED
    BY <2>3, <2>4, EndTrapKeepsInv DEF KernelInv, KernelTypeOK
<1> QED
  BY <1>1, <1>2 DEF Sleep

\* A wait that blocks keeps the invariant: no dead child is missed.
LEMMA WaitBlocksKeepsInv ==
    ASSUME KernelInv, NEW pid \in Pids, WaitBlocks(pid)
    PROVE  KernelInv' /\ KeepsBlocked(sched, sched') /\ MissesOrphansOnly
<1> DEFINE m == sched.running
           t == [Park(sched, "wait", pid) EXCEPT !.running = NoPid]
           u == internal_schedule(t, time)
<1>1. /\ m \in Pids /\ m # NoPid /\ halt = "no"
      /\ children[m] # <<>> /\ DeadChildren(m, pid) = {}
      /\ sched' = TrapTail(u, time)
      /\ UNCHANGED <<time, last_pid, zombies, parent, children, ret, ptrs, halt>>
  BY InvTypes DEF WaitBlocks, InUserCode, me, EndTrap
<1>2. /\ Orderly(t) /\ RunsAlone(t) /\ Sorted(t)
      /\ \A p \in Pids :
           /\ t.status[p] = IF p = m THEN "Waiting" ELSE sched.status[p]
           /\ t.call[p] = IF p = m THEN [num |-> "wait", arg |-> pid] ELSE sched.call[p]
  <2>1. Settled(sched, time) /\ sched.running # NoPid
    BY <1>1 DEF KernelInv
  <2>2. /\ Orderly(t) /\ RunsAlone(t) /\ Sorted(t)
        /\ StatusSet(sched, t, m, "Waiting")
        /\ CallSet(sched, t, m, [num |-> "wait", arg |-> pid])
    BY <2>1, WaitLeavesOrder
  <2> HIDE DEF t, m
  <2> QED
    BY <2>2 DEF StatusSet, CallSet
<1> HIDE DEF t
<1>3. Settled(u, time) /\ OnlyMoves(t, u)
  BY <1>2, InvTypes, ScheduleSettles
<1> HIDE DEF u
<1>4. Settled(sched', time') /\ OnlyMoves(u, sched')
  BY <1>1, <1>3, InvTypes, TrapTailSettles
<1>5. OnlyMoves(t, sched')
  BY <1>3, <1>4 DEF OnlyMoves
<1>6. sched.status[m] = "Running"
  BY <1>1 DEF KernelInv, Settled, RunsAlone
<1> HIDE DEF m
<1>7. \A p \in Pids : /\ sched'.status[p] = "Free" <=> sched.status[p] = "Free"
                      /\ sched'.status[p] = "Zombie" <=> sched.status[p] = "Zombie"
  BY <1>1, <1>2, <1>5, <1>6 DEF OnlyMoves
<1>8. /\ KernelTypeOK' /\ ZombiesListed' /\ PidsFresh' /\ InitLives'
      /\ HaveParent' = HaveParent /\ FamilyTree'
  BY <1>1, <1>4, <1>7, SameLivesKeepFamilies DEF KernelInv, KernelTypeOK
<1>8a. KeepsBlocked(sched, sched')
  BY <1>2, <1>5, <1>6 DEF OnlyMoves, KeepsBlocked, BlockedOnResource, ResourceCalls
<1>8b. LinksCounted'
  BY <1>1, <1>8, <1>8a, BlockedStay DEF KernelInv, LinksCounted
<1>9. \A p \in Pids : BlockedInWait(p)' =>
        \/ p = m /\ sched'.call[p].arg = pid
        \/ BlockedInWait(p) /\ sched'.call[p] = sched.call[p]
  BY <1>2, <1>5 DEF OnlyMoves, BlockedInWait
<1>10. \A p \in Pids : \A q \in ToSet(children[p]) : q \in Pids
  BY InvTypes, ToSetType
<1>11. \A q \in ToSet(children[m]) : sched.status[q] = "Zombie" => pid \notin {AnyChild, q}
  BY <1>1 DEF DeadChildren, ToSet
<1>12. MissesOrphansOnly
  <2> SUFFICES ASSUME NEW p \in Pids, BlockedInWait(p)',
                      NEW q \in ToSet(children[p]), sched.status[q] = "Zombie",
                      sched'.call[p].arg \in {AnyChild, q}
               PROVE  BlockedInWait(p) /\ sched'.call[p] = sched.call[p]
    BY <1>1, <1>7, <1>10 DEF MissesOrphansOnly, Awaited
  <2> QED
    BY <1>9, <1>11
<1>13. WaiterHasLiveChild'
  <2> SUFFICES ASSUME NEW p \in Pids, BlockedInWait(p)', sched'.call[p].arg = AnyChild
               PROVE  \E q \in ToSet(children[p]) : sched.status[q] # "Zombie"
    BY <1>1, <1>7, <1>10 DEF WaiterHasLiveChild
  <2>1. CASE p = m /\ sched'.call[p].arg = pid
    <3>1. ToSet(children[m]) # {}
      BY <1>1, InvTypes, ToSetType
    <3> QED
      BY <2>1, <3>1, <1>11
  <2>2. CASE BlockedInWait(p) /\ sched'.call[p] = sched.call[p]
    BY <2>2 DEF KernelInv, WaiterHasLiveChild
  <2> QED
    BY <2>1, <2>2, <1>9
<1> QED
  BY <1>4, <1>8, <1>8a, <1>8b, <1>12, <1>13, OthersMissNothing DEF KernelInv

\* What FamilyTree says of one process and one other.
LEMMA Family ==
    ASSUME KernelInv, NEW p \in Pids, NEW q \in Pids
    PROVE  /\ q \in ToSet(children[p]) <=> parent[q] = p
           /\ parent[q] = p => /\ sched.status[p] \notin {"Free", "Zombie"}
                               /\ sched.status[q] # "Free"
           /\ IsInjective(children[p])
           /\ parent[p] = NoPid <=> p = InitPid \/ sched.status[p] = "Free"
           /\ children[p] \in Seq(Pids) /\ ToSet(children[p]) \subseteq Pids
BY InvTypes, ToSetType DEF KernelInv, FamilyTree

\* Spawn keeps the invariant: the new process is its parent's child, and nobody's
\* else.
LEMMA SpawnKeepsInv ==
    ASSUME KernelInv, Spawn
    PROVE  KernelInv' /\ KeepsBlocked(sched, sched') /\ MissesOrphansOnly
<1> DEFINE m == sched.running
           c == last_pid
           s == [sched EXCEPT !.status[c] = "Ready", !.ready = Append(@, c)]
<1>1. /\ m \in Pids /\ m # NoPid /\ c \in Pids /\ c # InitPid
      /\ sched.status[m] = "Running" /\ sched.status[c] = "Free" /\ m # c
      /\ ptrs \in 0 .. MaxProcs /\ ptrs < MaxProcs
      /\ last_pid \in 0 .. MaxPid + 1 /\ last_pid >= 1
  <2>1. m \in Pids /\ m # NoPid /\ c <= MaxPid /\ ptrs < MaxProcs
    BY InvTypes DEF Spawn, InUserCode, me
  <2>2. c \in Pids /\ c # InitPid /\ sched.status[c] = "Free"
    BY <2>1, KernelAssumption DEF KernelInv, KernelTypeOK, PidsFresh, Pids, InitPid
  <2>3. sched.status[m] = "Running"
    BY <2>1 DEF KernelInv, Settled, RunsAlone
  <2> QED
    BY <2>1, <2>2, <2>3 DEF KernelInv, KernelTypeOK, PidsFresh
<1>2. /\ sched' = TrapTail(s, time)
      /\ ret' = [ret EXCEPT ![m] = c]
      /\ parent' = [parent EXCEPT ![c] = m]
      /\ children' = [children EXCEPT ![m] = Append(@, c)]
      /\ last_pid' = last_pid + 1 /\ ptrs' = ptrs + 1
      /\ UNCHANGED <<time, zombies, halt>>
  BY DEF Spawn, EndTrap, me
<1>3. Settled(s, time) /\ s.call = sched.call /\ StatusSet(sched, s, c, "Ready")
  <2>1. Settled(sched, time) /\ sched.running # NoPid
    BY <1>1 DEF KernelInv
  <2> QED
    BY <2>1, <1>1, BirthSettles
<1> HIDE DEF s
<1>4. Settled(sched', time') /\ OnlyMoves(s, sched')
  BY <1>2, <1>3, InvTypes, TrapTailSettles
<1> HIDE DEF m, c
<1>5. \A p \in Pids :
        /\ sched'.status[p] = "Free" <=> sched.status[p] = "Free" /\ p # c
        /\ sched'.status[p] = "Zombie" <=> sched.status[p] = "Zombie"
        /\ BlockedInWait(p)' => BlockedInWait(p) /\ sched'.call[p] = sched.call[p]
  BY <1>1, <1>3, <1>4 DEF StatusSet, OnlyMoves, BlockedInWait
<1>5a. KeepsBlocked(sched, sched')
  BY <1>1, <1>3, <1>4 DEF StatusSet, OnlyMoves, KeepsBlocked, BlockedOnResource
<1>6. /\ \A p \in Pids : parent'[p] = IF p = c THEN m ELSE parent[p]
      /\ parent' \in [Pids -> Pids \cup {NoPid}]
  BY <1>1, <1>2, InvTypes
<1>7. parent[c] = NoPid /\ ToSet(children[c]) = {} /\ c \notin ToSet(children[m])
  <2>1. \A q \in Pids : parent[q] # c
    BY <1>1, Family
  <2>2. parent[c] = NoPid
    BY <1>1, Family
  <2> QED
    BY <2>1, <2>2, <1>1, Family, InvTypes
<1>8. /\ Append(children[m], c) \in Seq(Pids) /\ IsInjective(Append(children[m], c))
      /\ ToSet(Append(children[m], c)) = ToSet(children[m]) \cup {c}
  BY <1>1, <1>7, Family, SeqAppend
<1>9. /\ \A p \in Pids : children'[p] = IF p = m THEN Append(children[m], c) ELSE children[p]
      /\ children' \in [Pids -> Seq(Pids)]
  BY <1>1, <1>2, <1>8, InvTypes
<1>10. KernelTypeOK'
  <2>1. ret' \in [Pids -> Int]
    BY <1>1, <1>2, InvTypes DEF KernelInv, KernelTypeOK
  <2>2. last_pid' \in 0 .. MaxPid + 1 /\ ptrs' \in 0 .. MaxProcs
    BY <1>1, <1>2, KernelAssumption DEF c, Pids
  <2> QED
    BY <2>1, <2>2, <1>2, <1>4, <1>6, <1>9 DEF KernelInv, KernelTypeOK, Settled, Orderly
<1>11. ZombiesListed' /\ PidsFresh' /\ InitLives'
  <2>1. ZombiesListed' /\ InitLives'
    BY <1>1, <1>2, <1>5, InvTypes DEF KernelInv, ZombiesListed, InitLives
  <2>2. \A p \in Pids : p >= last_pid + 1 => p >= last_pid /\ p # c
    BY <1>1, InvTypes DEF c
  <2>3. last_pid + 1 >= 1
    BY <1>1
  <2> QED
    BY <2>1, <2>2, <2>3, <1>2, <1>5 DEF KernelInv, PidsFresh
<1>12. LinksCounted'
  <2>1. HaveParent' = HaveParent \cup {c} /\ c \notin HaveParent
    BY <1>1, <1>6, <1>7 DEF HaveParent
  <2>2. Cardinality(HaveParent \cup {c}) = Cardinality(HaveParent) + 1
    BY <2>1, LinksFinite, FS_AddElement
  <2>3. Linked' = Linked
    BY <1>5a, BlockedStay
  <2> QED
    BY <2>1, <2>2, <2>3, <1>2, LinksFinite DEF KernelInv, LinksCounted
<1>13. \A p \in Pids : \A q :
         q \in ToSet(children'[p]) <=> q \in ToSet(children[p]) \/ (p = m /\ q = c)
  <2> SUFFICES ASSUME NEW p \in Pids, NEW q
               PROVE  q \in ToSet(children'[p]) <=> q \in ToSet(children[p]) \/ (p = m /\ q = c)
    OBVIOUS
  <2>1. CASE p = m
    BY <2>1, <1>8, <1>9
  <2>2. CASE p # m
    BY <2>2, <1>9
  <2> QED
    BY <2>1, <2>2
<1>14. FamilyTree'
  <2> SUFFICES ASSUME NEW p \in Pids, NEW q \in Pids
               PROVE  /\ q \in ToSet(children'[p]) <=> parent'[q] = p
                      /\ parent'[q] = p => /\ sched'.status[p] \notin {"Free", "Zombie"}
                                           /\ sched'.status[q] # "Free"
                      /\ IsInjective(children'[p])
                      /\ parent'[p] = NoPid <=> p = InitPid \/ sched'.status[p] = "Free"
    BY DEF FamilyTree
  <2>1. q \in ToSet(children'[p]) <=> parent'[q] = p
    <3>1. q \in ToSet(children[p]) <=> parent[q] = p
      BY Family
    <3>2. CASE q = c
      BY <3>1, <3>2, <1>1, <1>6, <1>7, <1>13, InvTypes
    <3>3. CASE q # c
      BY <3>1, <3>3, <1>6, <1>13
    <3> QED
      BY <3>2, <3>3
  <2>2. parent'[q] = p => /\ sched'.status[p] \notin {"Free", "Zombie"}
                          /\ sched'.status[q] # "Free"
    BY <1>1, <1>5, <1>6, Family
  <2>3. IsInjective(children'[p])
    BY <1>8, <1>9, Family
  <2>4. parent'[p] = NoPid <=> p = InitPid \/ sched'.status[p] = "Free"
    BY <1>1, <1>5, <1>6, Family
  <2> QED
    BY <2>1, <2>2, <2>3, <2>4
<1>15. MissesOrphansOnly
  <2> SUFFICES ASSUME NEW p \in Pids, BlockedInWait(p)',
                      NEW q \in ToSet(children'[p]), sched'.status[q] = "Zombie",
                      sched'.call[p].arg \in {AnyChild, q}
               PROVE  /\ BlockedInWait(p) /\ sched'.call[p] = sched.call[p]
                      /\ q \in ToSet(children[p]) /\ sched.status[q] = "Zombie"
    BY DEF MissesOrphansOnly, Awaited
  <2>1. q # c
    BY <1>1, <1>5
  <2>2. q \in ToSet(children[p]) /\ q \in Pids
    BY <2>1, <1>13, Family
  <2> QED
    BY <2>2, <1>5
<1>16. WaiterHasLiveChild'
  <2> SUFFICES ASSUME NEW p \in Pids, BlockedInWait(p)', sched'.call[p].arg = AnyChild
               PROVE  \E q \in ToSet(children'[p]) : sched'.status[q] # "Zombie"
    BY DEF WaiterHasLiveChild
  <2>1. PICK q \in ToSet(children[p]) : sched.status[q] # "Zombie"
    BY <1>5 DEF KernelInv, WaiterHasLiveChild
  <2> QED
    BY <2>1, <1>5, <1>13, Family
<1> QED
  BY <1>4, <1>5a, <1>10, <1>11, <1>12, <1>14, <1>15, <1>16, OthersMissNothing DEF KernelInv

\* The child that a wait reaps is one of the caller's, and dead.
LEMMA ReapedChild ==
    ASSUME KernelInv, NEW pid, NEW m \in Pids, DeadChildren(m, pid) # {},
           NEW i, i = Min(DeadChildren(m, pid)),
           NEW z, z = children[m][i]
    PROVE  /\ i \in DOMAIN children[m] /\ z \in Pids /\ z \in ToSet(children[m])
           /\ sched.status[z] = "Zombie" /\ parent[z] = m
<1>1. /\ children[m] \in Seq(Pids) /\ DOMAIN children[m] = 1 .. Len(children[m])
      /\ Len(children[m]) \in Nat
      /\ \A k \in 1 .. Len(children[m]) : children[m][k] \in Pids
  BY InvTypes, LenProperties, ElementOfSeq
<1>2. DeadChildren(m, pid) \in SUBSET Nat
  BY <1>1 DEF DeadChildren
<1>3. i \in DeadChildren(m, pid)
  BY <1>2, LeastNatural
<1>4. i \in DOMAIN children[m] /\ sched.status[z] = "Zombie"
  BY <1>3 DEF DeadChildren
<1>5. z \in Pids /\ z \in ToSet(children[m])
  BY <1>1, <1>4 DEF ToSet
<1> QED
  BY <1>4, <1>5, Family

\* A wait that reaps keeps the invariant: the dead child leaves its parent's list
\* and gives its link back.
LEMMA WaitReapsKeepsInv ==
    ASSUME KernelInv, NEW pid \in Pids, WaitReaps(pid)
    PROVE  KernelInv' /\ KeepsBlocked(sched, sched') /\ MissesOrphansOnly
<1> DEFINE m == sched.running
           i == Min(DeadChildren(m, pid))
           z == children[m][i]
           s == [sched EXCEPT !.status[z] = "Free"]
<1>1. /\ m \in Pids /\ m # NoPid /\ DeadChildren(m, pid) # {}
      /\ sched' = TrapTail(s, time)
      /\ ret' = [ret EXCEPT ![m] = z]
      /\ children' = [children EXCEPT ![m] = RemoveAt(@, i)]
      /\ ptrs' = ptrs - 1
      /\ parent' = [parent EXCEPT ![z] = NoPid]
      /\ zombies' = zombies \ {z}
      /\ UNCHANGED <<time, last_pid, halt>>
  BY InvTypes DEF WaitReaps, FreeLink, InUserCode, me, EndTrap
<1>2. /\ i \in DOMAIN children[m] /\ z \in Pids /\ z \in ToSet(children[m])
      /\ sched.status[z] = "Zombie" /\ parent[z] = m
  BY <1>1, ReapedChild
<1> HIDE DEF i
<1>3. /\ RemoveAt(children[m], i) \in Seq(Pids)
      /\ ToSet(RemoveAt(children[m], i)) = ToSet(children[m]) \ {z}
      /\ IsInjective(RemoveAt(children[m], i))
  BY <1>1, <1>2, Family, SeqRemoveAt
<1> HIDE DEF z
<1>4. Settled(s, time) /\ s.call = sched.call /\ StatusSet(sched, s, z, "Free")
  <2>1. Settled(sched, time)
    BY DEF KernelInv
  <2> QED
    BY <2>1, <1>2, ReleaseSettles
<1> HIDE DEF s
<1>5. Settled(sched', time') /\ OnlyMoves(s, sched')
  BY <1>1, <1>4, InvTypes, TrapTailSettles
<1>6. sched.status[m] = "Running" /\ m # z
  BY <1>1, <1>2 DEF KernelInv, Settled, RunsAlone
<1> HIDE DEF m
<1>7. \A p \in Pids :
        /\ sched'.status[p] = "Free" <=> sched.status[p] = "Free" \/ p = z
        /\ sched'.status[p] = "Zombie" <=> sched.status[p] = "Zombie" /\ p # z
        /\ BlockedInWait(p)' => BlockedInWait(p) /\ sched'.call[p] = sched.call[p] /\ p # m
  BY <1>1, <1>2, <1>4, <1>5, <1>6 DEF StatusSet, OnlyMoves, BlockedInWait
<1>7a. KeepsBlocked(sched, sched')
  BY <1>2, <1>4, <1>5 DEF StatusSet, OnlyMoves, KeepsBlocked, BlockedOnResource
<1>8. /\ \A p \in Pids : parent'[p] = IF p = z THEN NoPid ELSE parent[p]
      /\ parent' \in [Pids -> Pids \cup {NoPid}]
  BY <1>1, <1>2, InvTypes
<1>9. /\ \A p \in Pids : children'[p] = IF p = m THEN RemoveAt(children[m], i) ELSE children[p]
      /\ children' \in [Pids -> Seq(Pids)]
  BY <1>1, <1>3, InvTypes
<1>10. \A p \in Pids : \A q :
         q \in ToSet(children'[p]) <=> q \in ToSet(children[p]) /\ ~ (p = m /\ q = z)
  <2> SUFFICES ASSUME NEW p \in Pids, NEW q
               PROVE  q \in ToSet(children'[p]) <=> q \in ToSet(children[p]) /\ ~ (p = m /\ q = z)
    OBVIOUS
  <2>1. CASE p = m
    BY <2>1, <1>3, <1>9
  <2>2. CASE p # m
    BY <2>2, <1>9
  <2> QED
    BY <2>1, <2>2
<1>11. z # InitPid
  BY <1>1, <1>2, Family
<1>12. LinksCounted' /\ ptrs' \in 0 .. MaxProcs
  <2>1. HaveParent' = HaveParent \ {z} /\ z \in HaveParent
    BY <1>1, <1>2, <1>8 DEF HaveParent
  <2>2. /\ Cardinality(HaveParent \ {z}) = Cardinality(HaveParent) - 1
        /\ IsFiniteSet(HaveParent \ {z})
    BY <2>1, LinksFinite, FS_RemoveElement
  <2>3. Cardinality(HaveParent \ {z}) \in Nat
    BY <2>2, FS_CardinalityType
  <2>3a. Linked' = Linked
    BY <1>7a, BlockedStay
  <2>4. ptrs' = Cardinality(HaveParent') + Cardinality(Linked')
    BY <2>1, <2>2, <2>3a, <1>1, LinksFinite DEF KernelInv, LinksCounted
  <2>5. ptrs' \in 0 .. MaxProcs
    BY <2>1, <2>3, <2>3a, <2>4, <1>1, LinksFinite, KernelAssumption, SMTT(30) DEF KernelInv, KernelTypeOK
  <2> QED
    BY <2>4, <2>5 DEF LinksCounted
<1>13. KernelTypeOK'
  <2>1. ret' \in [Pids -> Int]
    BY <1>1, <1>2, InvTypes DEF KernelInv, KernelTypeOK
  <2> QED
    BY <2>1, <1>1, <1>5, <1>8, <1>9, <1>12 DEF KernelInv, KernelTypeOK, Settled, Orderly
<1>14. ZombiesListed' /\ PidsFresh' /\ InitLives'
  BY <1>1, <1>7, <1>11, InvTypes DEF KernelInv, ZombiesListed, PidsFresh, InitLives
<1>15. FamilyTree'
  <2> SUFFICES ASSUME NEW p \in Pids, NEW q \in Pids
               PROVE  /\ q \in ToSet(children'[p]) <=> parent'[q] = p
                      /\ parent'[q] = p => /\ sched'.status[p] \notin {"Free", "Zombie"}
                                           /\ sched'.status[q] # "Free"
                      /\ IsInjective(children'[p])
                      /\ parent'[p] = NoPid <=> p = InitPid \/ sched'.status[p] = "Free"
    BY DEF FamilyTree
  <2>1. q \in ToSet(children'[p]) <=> parent'[q] = p
    <3>1. q \in ToSet(children[p]) <=> parent[q] = p
      BY Family
    <3>2. CASE q = z
      BY <3>1, <3>2, <1>2, <1>8, <1>10, InvTypes, SMTT(30)
    <3>3. CASE q # z
      BY <3>1, <3>3, <1>8, <1>10
    <3> QED
      BY <3>2, <3>3
  <2>2. parent'[q] = p => /\ sched'.status[p] \notin {"Free", "Zombie"}
                          /\ sched'.status[q] # "Free"
    <3> SUFFICES ASSUME parent'[q] = p
                 PROVE  /\ sched'.status[p] \notin {"Free", "Zombie"}
                        /\ sched'.status[q] # "Free"
      OBVIOUS
    <3>1. q # z /\ parent[q] = p
      BY <1>8, InvTypes
    <3>2. /\ sched.status[p] \notin {"Free", "Zombie"}
          /\ sched.status[q] # "Free"
      BY <3>1, Family
    <3> QED
      BY <3>1, <3>2, <1>2, <1>7
  <2>3. IsInjective(children'[p])
    BY <1>3, <1>9, Family
  <2>4. parent'[p] = NoPid <=> p = InitPid \/ sched'.status[p] = "Free"
    BY <1>7, <1>8, <1>11, Family
  <2> QED
    BY <2>1, <2>2, <2>3, <2>4
<1>16. MissesOrphansOnly
  <2> SUFFICES ASSUME NEW p \in Pids, BlockedInWait(p)',
                      NEW q \in ToSet(children'[p]), sched'.status[q] = "Zombie",
                      sched'.call[p].arg \in {AnyChild, q}
               PROVE  /\ BlockedInWait(p) /\ sched'.call[p] = sched.call[p]
                      /\ q \in ToSet(children[p]) /\ sched.status[q] = "Zombie"
    BY DEF MissesOrphansOnly, Awaited
  <2>1. q \in ToSet(children[p]) /\ q \in Pids
    BY <1>10, Family
  <2> QED
    BY <2>1, <1>7
<1>17. WaiterHasLiveChild'
  <2> SUFFICES ASSUME NEW p \in Pids, BlockedInWait(p)', sched'.call[p].arg = AnyChild
               PROVE  \E q \in ToSet(children'[p]) : sched'.status[q] # "Zombie"
    BY DEF WaiterHasLiveChild
  <2>1. PICK q \in ToSet(children[p]) : sched.status[q] # "Zombie"
    BY <1>7 DEF KernelInv, WaiterHasLiveChild
  <2> QED
    BY <2>1, <1>7, <1>10, Family
<1> QED
  BY <1>5, <1>7a, <1>12, <1>13, <1>14, <1>15, <1>16, <1>17,
     OthersMissNothing DEF KernelInv

\* An exit keeps the invariant: the children go to init, and the parent is woken if
\* it waits for this death.
LEMMA ExitKeepsInv ==
    ASSUME KernelInv, Exit
    PROVE  KernelInv' /\ KeepsBlocked(sched, sched') /\ MissesOrphansOnly
<1> DEFINE m == sched.running
           par == parent[m]
           wakes == WaitsFor(par, m)
           dead == [sched EXCEPT !.status[m] = "Zombie", !.running = NoPid]
           w == IF wakes THEN WakeAll(dead, <<par>>) ELSE dead
           u == internal_schedule(w, time)
<1>1. /\ m \in Pids /\ m # NoPid /\ par \in Pids
      /\ sched' = TrapTail(u, time)
      /\ children' = [children EXCEPT ![InitPid] = @ \o children[m], ![m] = <<>>]
      /\ parent' = [q \in Pids |-> IF q \in ToSet(children[m]) THEN InitPid ELSE parent[q]]
      /\ zombies' = zombies \cup {m}
      /\ UNCHANGED <<time, last_pid, ret, ptrs, halt>>
  BY InvTypes DEF Exit, Orphans, InUserCode, me, EndTrap
<1>2. sched.status[m] = "Running"
  BY <1>1 DEF KernelInv, Settled, RunsAlone
<1>3. m # InitPid
  BY <1>1, <1>2, Family, InvTypes
<1> HIDE DEF wakes
<1>4. /\ Orderly(dead) /\ RunsAlone(dead) /\ Sorted(dead)
      /\ dead.call = sched.call /\ dead.waiting = sched.waiting
      /\ StatusSet(sched, dead, m, "Zombie")
  <2>1. Settled(sched, time) /\ sched.running # NoPid
    BY <1>1 DEF KernelInv
  <2> QED
    BY <2>1, DeathLeavesOrder
<1> HIDE DEF dead, m, par
<1>5. /\ Orderly(w) /\ RunsAlone(w) /\ Sorted(w) /\ OnlyMoves(dead, w)
      /\ wakes => w.status[par] # "Waiting"
  <2>1. CASE ~wakes
    BY <2>1, <1>4 DEF OnlyMoves
  <2>2. CASE wakes
    <3>1. sched.status[par] = "Waiting" /\ sched.call[par].num = "wait"
      BY <2>2 DEF wakes, WaitsFor
    <3>2. dead.status[par] = "Waiting"
      BY <3>1, <1>1, <1>2, <1>4 DEF StatusSet
    <3>3. /\ dead \in SchedType /\ Listed(dead) /\ Asleep(dead)
          /\ par \in dead.waiting
      BY <3>2, <1>1, <1>4 DEF Orderly, Listed
    <3>4. /\ <<par>> \in Seq(Pids) /\ IsInjective(<<par>>) /\ ToSet(<<par>>) = {par}
      BY <1>1 DEF IsInjective, ToSet
    <3>5. w = WakeAll(dead, <<par>>)
      BY <2>2
    <3> HIDE DEF w
    <3>6. /\ w \in SchedType /\ Listed(w)
          /\ w.running = dead.running /\ w.timers = dead.timers /\ w.armed = dead.armed
          /\ WokenBy(dead, w, ToSet(<<par>>))
      <4>1. ToSet(<<par>>) \subseteq dead.waiting
        BY <3>3, <3>4
      <4> QED
        BY <4>1, <3>3, <3>4, <3>5, WakeAllMoves
    <3>7. \A p \in Pids : /\ w.status[p] = IF p = par THEN "Ready" ELSE dead.status[p]
                          /\ w.call[p] = IF p = par THEN NoCall ELSE dead.call[p]
      BY <3>4, <3>6 DEF WokenBy
    <3>8. Asleep(w)
      BY <3>1, <3>2, <3>3, <3>6, <3>7, <1>4 DEF Asleep, NoCall
    <3>9. RunsAlone(w) /\ Sorted(w) /\ OnlyMoves(dead, w)
      BY <3>1, <3>2, <3>6, <3>7, <1>4
         DEF RunsAlone, Sorted, OnlyMoves, BlockedOnResource, ResourceCalls
    <3> QED
      BY <3>6, <3>7, <3>8, <3>9, <1>1 DEF Orderly
  <2> QED
    BY <2>1, <2>2
<1> HIDE DEF w
<1>6. Settled(u, time) /\ OnlyMoves(w, u)
  BY <1>5, InvTypes, ScheduleSettles
<1> HIDE DEF u
<1>7. Settled(sched', time') /\ OnlyMoves(u, sched')
  BY <1>1, <1>6, InvTypes, TrapTailSettles
<1>8. \A p \in Pids :
        /\ sched'.status[p] = "Free" <=> sched.status[p] = "Free"
        /\ sched'.status[p] = "Zombie" <=> sched.status[p] = "Zombie" \/ p = m
        /\ BlockedInWait(p)' => /\ BlockedInWait(p) /\ sched'.call[p] = sched.call[p]
                                /\ p # m
                                /\ ~ (wakes /\ p = par)
  BY <1>1, <1>2, <1>4, <1>5, <1>6, <1>7 DEF StatusSet, OnlyMoves, BlockedInWait
<1>8a. KeepsBlocked(sched, sched')
  <2>1. KeepsBlocked(sched, dead)
    BY <1>1, <1>2, <1>4 DEF StatusSet, KeepsBlocked, BlockedOnResource
  <2>2. KeepsBlocked(dead, w) /\ KeepsBlocked(w, u) /\ KeepsBlocked(u, sched')
    BY <1>5, <1>6, <1>7, MovesKeep
  <2> QED
    BY <2>1, <2>2 DEF KeepsBlocked
<1>9. /\ \A q \in Pids : parent'[q] = IF parent[q] = m THEN InitPid ELSE parent[q]
      /\ parent' \in [Pids -> Pids \cup {NoPid}]
  BY <1>1, Family, InvTypes
<1> DEFINE both == children[InitPid] \o children[m]
<1>10. /\ both \in Seq(Pids) /\ IsInjective(both)
       /\ ToSet(both) = ToSet(children[InitPid]) \cup ToSet(children[m])
  <2>1. ToSet(children[InitPid]) \cap ToSet(children[m]) = {}
    BY <1>1, <1>3, Family, InvTypes
  <2>2. /\ children[InitPid] \in Seq(Pids) /\ IsInjective(children[InitPid])
        /\ children[m] \in Seq(Pids) /\ IsInjective(children[m])
    BY <1>1, Family, InvTypes
  <2> QED
    BY <2>1, <2>2, SeqConcat
<1>11. /\ \A p \in Pids : children'[p] = IF p = m THEN <<>>
                                         ELSE IF p = InitPid THEN both ELSE children[p]
       /\ children' \in [Pids -> Seq(Pids)]
  <2> HIDE DEF both
  <2>1. children' = [children EXCEPT ![InitPid] = both, ![m] = <<>>]
    BY <1>1, InvTypes DEF both
  <2>2. children' \in [Pids -> Seq(Pids)]
    <3>1. <<>> \in Seq(Pids)
      OBVIOUS
    <3>2. [children EXCEPT ![InitPid] = both] \in [Pids -> Seq(Pids)]
      BY <1>10, InvTypes
    <3> QED
      BY <2>1, <3>1, <3>2
  <2>3. /\ children'[m] = <<>> /\ children'[InitPid] = both
        /\ \A p \in Pids : p # m /\ p # InitPid => children'[p] = children[p]
    BY <2>1, <1>1, <1>3, InvTypes
  <2> QED
    BY <2>2, <2>3, <1>3
<1> HIDE DEF both
<1>12. \A p \in Pids : \A q \in Pids : q \in ToSet(children'[p]) <=> parent'[q] = p
  <2> SUFFICES ASSUME NEW p \in Pids, NEW q \in Pids
               PROVE  q \in ToSet(children'[p]) <=> parent'[q] = p
    OBVIOUS
  <2>1. q \in ToSet(children[p]) <=> parent[q] = p
    BY Family
  <2>2. CASE p = m
    <3>1. ToSet(children'[p]) = {}
      BY <2>2, <1>11 DEF ToSet
    <3> QED
      BY <3>1, <2>2, <1>3, <1>9
  <2>3. CASE p = InitPid
    <3>1. q \in ToSet(children[m]) <=> parent[q] = m
      BY <1>1, Family
    <3> QED
      BY <3>1, <2>1, <2>3, <1>3, <1>9, <1>10, <1>11
  <2>4. CASE p # m /\ p # InitPid
    BY <2>1, <2>4, <1>9, <1>11
  <2> QED
    BY <2>2, <2>3, <2>4
<1>13. KernelTypeOK'
  BY <1>1, <1>7, <1>9, <1>11 DEF KernelInv, KernelTypeOK, Settled, Orderly
<1>14. ZombiesListed' /\ PidsFresh' /\ InitLives'
  BY <1>1, <1>3, <1>8, InvTypes DEF KernelInv, ZombiesListed, PidsFresh, InitLives
<1>15. LinksCounted'
  <2>1. HaveParent' = HaveParent
    BY <1>1, <1>9, InvTypes DEF HaveParent
  <2> QED
    BY <2>1, <1>1, <1>8a, BlockedStay DEF KernelInv, LinksCounted
<1>16. FamilyTree'
  <2> SUFFICES ASSUME NEW p \in Pids, NEW q \in Pids
               PROVE  /\ parent'[q] = p => /\ sched'.status[p] \notin {"Free", "Zombie"}
                                           /\ sched'.status[q] # "Free"
                      /\ IsInjective(children'[p])
                      /\ parent'[p] = NoPid <=> p = InitPid \/ sched'.status[p] = "Free"
    BY <1>12 DEF FamilyTree
  <2>1. parent'[q] = p => /\ sched'.status[p] \notin {"Free", "Zombie"}
                          /\ sched'.status[q] # "Free"
    <3>1. CASE parent[q] = m
      BY <3>1, <1>1, <1>3, <1>8, <1>9, Family, InvTypes DEF KernelInv, InitLives
    <3>2. CASE parent[q] # m
      BY <3>2, <1>8, <1>9, Family
    <3> QED
      BY <3>1, <3>2
  <2>2. IsInjective(children'[p])
    <3>1. IsInjective(<<>>)
      BY DEF IsInjective
    <3> QED
      BY <3>1, <1>10, <1>11, Family
  <2>3. parent'[p] = NoPid <=> p = InitPid \/ sched'.status[p] = "Free"
    <3>1. parent[p] = NoPid <=> p = InitPid \/ sched.status[p] = "Free"
      BY Family
    <3> QED
      BY <3>1, <1>1, <1>8, <1>9, InvTypes
  <2> QED
    BY <2>1, <2>2, <2>3
<1>17. MissesOrphansOnly
  <2> SUFFICES ASSUME NEW p \in Pids, BlockedInWait(p)',
                      NEW q \in ToSet(children'[p]), sched'.status[q] = "Zombie",
                      sched'.call[p].arg \in {AnyChild, q}
               PROVE  \/ /\ BlockedInWait(p) /\ sched'.call[p] = sched.call[p]
                         /\ q \in ToSet(children[p]) /\ sched.status[q] = "Zombie"
                      \/ p = InitPid /\ p # m /\ parent[q] = m
    BY DEF MissesOrphansOnly, Awaited, me, m
  <2>1. BlockedInWait(p) /\ sched'.call[p] = sched.call[p] /\ p # m
    BY <1>8
  <2>2. CASE q \in ToSet(children[m]) /\ p = InitPid
    BY <2>1, <2>2, <1>1, Family
  <2>3. CASE q \in ToSet(children[p])
    <3>1. q \in Pids /\ parent[q] = p
      BY <2>3, Family
    <3>2. q # m
      BY <2>1, <3>1, <1>8 DEF par, wakes, WaitsFor, BlockedInWait
    <3> QED
      BY <2>1, <2>3, <3>1, <3>2, <1>8
  <2>4. q \in ToSet(children[p]) \/ (q \in ToSet(children[m]) /\ p = InitPid)
    BY <2>1, <1>10, <1>11
  <2> QED
    BY <2>2, <2>3, <2>4
<1>18. WaiterHasLiveChild'
  <2> SUFFICES ASSUME NEW p \in Pids, BlockedInWait(p)', sched'.call[p].arg = AnyChild
               PROVE  \E q \in ToSet(children'[p]) : sched'.status[q] # "Zombie"
    BY DEF WaiterHasLiveChild
  <2>1. p # par /\ p # m
    BY <1>8 DEF wakes, WaitsFor, BlockedInWait
  <2>2. PICK q \in ToSet(children[p]) : sched.status[q] # "Zombie"
    BY <1>8 DEF KernelInv, WaiterHasLiveChild
  <2>3. q \in Pids /\ q # m
    BY <2>1, <2>2, Family DEF par
  <2>4. q \in ToSet(children'[p])
    BY <2>1, <2>2, <1>10, <1>11
  <2> QED
    BY <2>2, <2>3, <2>4, <1>8
<1> QED
  BY <1>7, <1>8a, <1>13, <1>14, <1>15, <1>16, <1>17, <1>18,
     OthersMissNothing DEF KernelInv

\* Every step of the process core keeps the invariant, and everybody who waits for a
\* resource waiting; and none misses a wait that it does not have to.
LEMMA KernelStepKeeps ==
    ASSUME KernelInv, [KernelNext]_kernelVars
    PROVE  KernelInv' /\ KeepsBlocked(sched, sched') /\ MissesOrphansOnly
<1> DEFINE Kept == KernelInv' /\ KeepsBlocked(sched, sched') /\ MissesOrphansOnly
<1> USE DEF Halts
<1>1. CASE Tick
  BY <1>1, TickKeepsInv
<1>2. CASE Fork
  BY <1>2, StopKeepsInv DEF Fork
<1>3. CASE Preempt
  BY <1>3, PreemptKeepsInv
<1>4. CASE Spawn
  BY <1>4, SpawnKeepsInv
<1>5. CASE SpawnFromEmptyPool
  BY <1>5, StopKeepsInv DEF SpawnFromEmptyPool
<1>6. ASSUME NEW pid \in Pids, Wait(pid) PROVE Kept
  <2>1. CASE WaitWithoutChildren
    BY <2>1, ReturnKeepsInv DEF WaitWithoutChildren, EWAIT
  <2> QED
    BY <1>6, <2>1, WaitReapsKeepsInv, WaitBlocksKeepsInv DEF Wait
<1>7. CASE Exit
  BY <1>7, ExitKeepsInv
<1>8. CASE ExitOfInit
  BY <1>8, StopKeepsInv DEF ExitOfInit
<1>9. ASSUME NEW n \in SleepArgs, Sleep(n) PROVE Kept
  BY <1>9, SleepKeepsInv
<1>10. CASE Shutdown
  BY <1>10, StopKeepsInv DEF Shutdown
<1>11. CASE UNCHANGED kernelVars
  <2>1. Settled(sched', time') /\ Keeps(sched, sched') /\ KeepsBlocked(sched, sched')
    BY <1>11 DEF kernelVars, KernelInv, Keeps, KeepsBlocked, BlockedOnResource
  <2> QED
    BY <1>11, <2>1, MovesKeepInv DEF kernelVars, KernelInv, KernelTypeOK
<1> QED
  BY <1>1, <1>2, <1>3, <1>4, <1>5, <1>6, <1>7, <1>8, <1>9, <1>10, <1>11
     DEF KernelNext, SystemCall

\* In short, the kernel's own steps keep the invariant.
LEMMA NextKeepsInv == KernelInv /\ [KernelNext]_kernelVars => KernelInv'
BY KernelStepKeeps

\* A call that blocks on a resource, for a block of the PCBPtr pool, keeps the invariant.
LEMMA BlockKeepsInv ==
    ASSUME KernelInv, InUserCode, ptrs < MaxProcs,
           NEW num \in ResourceCalls, NEW arg \in Nat,
           EndTrap(ParkAndPop(sched, num, arg)), ptrs' = ptrs + 1,
           UNCHANGED <<time, last_pid, zombies, parent, children, ret, halt>>
    PROVE  /\ KernelInv' /\ me \in Pids /\ ~BlockedOnResource(sched, me)
           /\ Blocks(sched, sched', me, [num |-> num, arg |-> arg])
<1> DEFINE s == ParkAndPop(sched, num, arg)
           c == [num |-> num, arg |-> arg]
<1>1. /\ me \in Pids /\ sched.status[me] = "Running" /\ sched.running # NoPid
      /\ Settled(sched, time)
  BY InvTypes DEF InUserCode, me, KernelInv, Settled, RunsAlone
<1>2. ~BlockedOnResource(sched, me)
  BY <1>1 DEF BlockedOnResource
<1>3. Settled(s, time) /\ Keeps(sched, s) /\ Blocks(sched, s, me, c)
  BY <1>1, BlockSettles DEF me
<1>4. sched' = TrapTail(s, time)
  BY DEF EndTrap
<1> HIDE DEF s, c
<1>5. Settled(sched', time) /\ OnlyMoves(s, sched')
  BY <1>3, <1>4, InvTypes, TrapTailSettles
<1>6. Keeps(sched, sched') /\ Blocks(sched, sched', me, c)
  <2>1. Keeps(sched, sched')
    BY <1>3, <1>5 DEF Keeps, OnlyMoves
  <2>2. KeepsBlocked(s, sched')
    BY <1>5, MovesKeep
  <2> QED
    BY <2>1, <2>2, <1>3 DEF Blocks, KeepsBlocked
<1>7. Linked' = Linked \cup {me} /\ me \notin Linked
  BY <1>1, <1>2, <1>6 DEF Linked, Blocks
<1>8. Cardinality(Linked') = Cardinality(Linked) + 1 /\ Cardinality(Linked) \in Nat
  BY <1>7, LinksFinite, FS_AddElement
<1>9. /\ ptrs' \in 0 .. MaxProcs
      /\ ptrs' - ptrs = Cardinality(Linked') - Cardinality(Linked)
      /\ Cardinality(Linked') \in Nat
  BY <1>8, KernelAssumption DEF KernelInv, KernelTypeOK
<1>10. KernelInv'
  BY <1>5, <1>6, <1>9, CallKeepsInv DEF KernelInv, KernelTypeOK
<1> QED
  BY <1>1, <1>2, <1>6, <1>10 DEF c

\* A call that wakes processes blocked on a resource, and frees a block of the PCBPtr
\* pool for each, keeps the invariant.
LEMMA UnblockKeepsInv ==
    ASSUME KernelInv, InUserCode,
           NEW q \in Seq(Pids), IsInjective(q),
           \A p \in ToSet(q) : BlockedOnResource(sched, p),
           EndTrap(WakeAll(sched, q)), ptrs' = ptrs - Len(q), ret' \in [Pids -> Int],
           UNCHANGED <<time, last_pid, zombies, parent, children, halt>>
    PROVE  KernelInv' /\ Unblocks(sched, sched', ToSet(q))
<1> DEFINE w == ToSet(q)
           s == WakeAll(sched, q)
<1>1. /\ sched.running # NoPid /\ Settled(sched, time) /\ w \subseteq Pids
      /\ IsFiniteSet(w) /\ Cardinality(w) = Len(q)
  BY ToSetType, SeqCount DEF InUserCode, me, KernelInv
<1>2. Settled(s, time) /\ Keeps(sched, s) /\ Unblocks(sched, s, w)
  BY <1>1, UnblockSettles
<1>3. sched' = TrapTail(s, time)
  BY DEF EndTrap
<1> HIDE DEF s, w
<1>4. Settled(sched', time) /\ OnlyMoves(s, sched')
  BY <1>2, <1>3, InvTypes, TrapTailSettles
<1>5. Keeps(sched, sched') /\ Unblocks(sched, sched', w)
  BY <1>2, <1>4, MovesKeep, ZenonT(30) DEF Keeps, OnlyMoves, Unblocks, KeepsBlocked
<1>6. Linked' = Linked \ w /\ w \subseteq Linked
  BY <1>1, <1>5 DEF Linked, Unblocks, w
<1>7. Linked = Linked' \cup w /\ Linked' \cap w = {}
  BY <1>6
<1>8. IsFiniteSet(Linked') /\ Cardinality(Linked') \in Nat
  BY <1>6, LinksFinite, FS_Subset, FS_CardinalityType
<1>9. Cardinality(Linked) = Cardinality(Linked') + Cardinality(w)
  <2>1. Cardinality(Linked' \cup w)
           = Cardinality(Linked') + Cardinality(w) - Cardinality(Linked' \cap w)
    BY <1>1, <1>8, FS_Union
  <2>2. Cardinality(Linked' \cap w) = 0 /\ Cardinality(w) \in Nat
    BY <1>1, <1>7, FS_EmptySet, FS_CardinalityType
  <2> QED
    BY <2>1, <2>2, <1>7, <1>8
<1>10. /\ ptrs' - ptrs = Cardinality(Linked') - Cardinality(Linked)
       /\ ptrs' = Cardinality(HaveParent) + Cardinality(Linked')
       /\ ptrs' <= ptrs
  <2>1. /\ ptrs = Cardinality(HaveParent) + Cardinality(Linked)
        /\ Cardinality(w) \in Nat /\ ptrs' = ptrs - Cardinality(w)
    BY <1>1, FS_CardinalityType DEF KernelInv, LinksCounted
  <2> QED
    BY <2>1, <1>8, <1>9, LinksFinite
<1>11. ptrs' \in 0 .. MaxProcs
  BY <1>8, <1>10, LinksFinite, KernelAssumption, SMTT(30) DEF KernelInv, KernelTypeOK
<1>12. KernelInv'
  BY <1>4, <1>5, <1>8, <1>10, <1>11, CallKeepsInv DEF KernelInv, KernelTypeOK
<1> QED
  BY <1>5, <1>12 DEF w

-----------------------------------------------------------------------------
(* For the calls on resources                                              *)

\* The calls on semaphores and those on queues are calls on resources.
LEMMA CallKinds ==
    /\ SemCalls \in SUBSET ResourceCalls
    /\ MqCalls \in SUBSET ResourceCalls
    /\ SemCalls \cap MqCalls = {}
BY DEF SemCalls, MqCalls, ResourceCalls

\* A call that returns at once leaves everybody who is blocked on a resource where he is.
LEMMA ReturnKeepsCalls ==
    ASSUME KernelInv, NEW v \in Int, Return(v), UNCHANGED <<processVars, ptrs>>
    PROVE  /\ KernelInv'
           /\ KeepsCalls(sched, sched', SemCalls) /\ KeepsCalls(sched, sched', MqCalls)
<1>1. KernelInv' /\ KeepsBlocked(sched, sched')
  BY ReturnKeepsInv DEF processVars
<1> QED
  BY <1>1, CallKinds, BlockedKeepCalls

\* So does a call that stops the system.
LEMMA StopKeepsCalls ==
    ASSUME KernelInv, NEW how \in Halts, Stop(how)
    PROVE  /\ KernelInv'
           /\ KeepsCalls(sched, sched', SemCalls) /\ KeepsCalls(sched, sched', MqCalls)
<1>1. KernelInv' /\ KeepsBlocked(sched, sched')
  BY StopKeepsInv
<1> QED
  BY <1>1, CallKinds, BlockedKeepCalls

-----------------------------------------------------------------------------
(* The theorems                                                            *)

\* The invariant holds in every behaviour.
THEOREM KernelInvariant == KernelSpec => []KernelInv
<1> QED
  BY InitEstablishesInv, NextKeepsInv, PTL DEF KernelSpec

-----------------------------------------------------------------------------
(* What the invariant gives                                                *)

\* Every variable keeps its type; in particular the PCBPtr pool never hands out more
\* blocks than it has, and no block is freed twice.
THEOREM KernelTypes == KernelSpec => []KernelTypeOK
<1>1. KernelInv => KernelTypeOK
  BY DEF KernelInv
<1> QED
  BY <1>1, KernelInvariant, PTL

\* A process is on the list its status names, once, and on no other.
THEOREM ListsAreRight == KernelSpec => []ListsMatchStatus
<1>1. KernelInv => ListsMatchStatus
  BY DEF KernelInv, Settled, Orderly, Listed, RunsAlone, ZombiesListed, ListsMatchStatus
<1> QED
  BY <1>1, KernelInvariant, PTL

\* No step leaves the CPU idle beside a ready process.
THEOREM CpuIsUsed == KernelSpec => []WorkConserving
<1>1. KernelInv => WorkConserving
  BY DEF KernelInv, Settled, Busy, WorkConserving
<1> QED
  BY <1>1, KernelInvariant, PTL

\* Sleepers and timers are one to one.
THEOREM SleepersHaveTimers == KernelSpec => []OneTimerPerSleeper
<1>1. KernelInv => OneTimerPerSleeper
  BY DEF KernelInv, Settled, Orderly, Asleep, OneTimerPerSleeper
<1> QED
  BY <1>1, KernelInvariant, PTL

\* The timer list is in order and nothing in it is overdue.
THEOREM TimersFireOnTime == KernelSpec => []TimersOnTime
<1>1. KernelInv => TimersOnTime
  BY DEF KernelInv, Settled, OnTime, Sorted, InOrder, TimersOnTime
<1> QED
  BY <1>1, KernelInvariant, PTL

\* Parents and children agree, and a parent is alive.
THEOREM FamiliesAreWhole == KernelSpec => []FamilyTree
<1>1. KernelInv => FamilyTree
  BY DEF KernelInv
<1> QED
  BY <1>1, KernelInvariant, PTL

\* No process but init stays blocked in a wait that a dead child would end.
THEOREM DeadChildrenAreSeen == KernelSpec => []WaiterSeesDeadChild
<1>1. KernelInv => WaiterSeesDeadChild
  BY DEF KernelInv
<1> QED
  BY <1>1, KernelInvariant, PTL

\* A wait is missed only by init, and only through the orphans that an exit hands over.
THEOREM OrphansAloneAreMissed == KernelSpec => OnlyOrphansAreMissed
<1>1. KernelInv /\ [KernelNext]_kernelVars => [MissesOrphansOnly]_kernelVars
  BY KernelStepKeeps
<1> QED
  BY <1>1, KernelInvariant, PTL DEF KernelSpec, OnlyOrphansAreMissed, MissesOrphansOnly

\* A wait for whichever child blocks only while a child lives, whose exit ends it.
THEOREM WaitersHaveHope == KernelSpec => []WaiterHasLiveChild
<1>1. KernelInv => WaiterHasLiveChild
  BY DEF KernelInv
<1> QED
  BY <1>1, KernelInvariant, PTL

\* A zombie is released by its own parent alone, whose wait returns its pid.
THEOREM ZombiesAreReapedByParents == KernelSpec => ReapedByParent
<1> DEFINE Reaped == \A p \in zombies : p \notin zombies' => parent[p] = me /\ ret'[me] = p
<1>1. KernelInv /\ [KernelNext]_kernelVars => [Reaped]_kernelVars
  <2> SUFFICES ASSUME KernelInv, KernelNext, NEW p \in zombies, p \notin zombies'
               PROVE  parent[p] = me /\ ret'[me] = p
    OBVIOUS
  <2>1. PICK pid \in Pids : WaitReaps(pid)
    BY DEF KernelNext, SystemCall, Tick, Fork, Preempt, Spawn, SpawnFromEmptyPool, Wait,
           WaitWithoutChildren, WaitBlocks, Exit, ExitOfInit, Sleep, SleepRefused,
           SleepBlocks, Shutdown, Stop
  <2> DEFINE i == Min(DeadChildren(me, pid))
             z == children[me][i]
  <2>2. /\ me \in Pids /\ DeadChildren(me, pid) # {}
        /\ ret' = [ret EXCEPT ![me] = z] /\ zombies' = zombies \ {z}
    BY <2>1, InvTypes DEF WaitReaps, InUserCode, me
  <2>3. parent[z] = me
    BY <2>2, ReapedChild
  <2>4. ret'[me] = z
    BY <2>2 DEF KernelInv, KernelTypeOK
  <2> QED
    BY <2>2, <2>3, <2>4
<1> QED
  BY <1>1, KernelInvariant, PTL DEF KernelSpec, ReapedByParent

=============================================================================
