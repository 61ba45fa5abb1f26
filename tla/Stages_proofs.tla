--------------------------- MODULE Stages_proofs ---------------------------
(***************************************************************************)
(* The safety of the stages before 05, for every number of processes, of   *)
(* resources and of descriptors, and whatever the processes ask for.       *)
(*                                                                         *)
(* All stages share ProcInv, the inductive invariant of the processes.  It *)
(* adds to ProcessesListed what that rests on: a block on the free list is *)
(* as PCB_free found it (FreeIsWhole), pids are handed out once            *)
(* (PidsDistinct), the dead have handed their children on (FieldsFit), to  *)
(* an init that is still there (InitLives), and the lists of children are  *)
(* a partition of the processes that were spawned, which replaces the      *)
(* count of the property.                                                  *)
(*                                                                         *)
(* To this, stage 03 adds SleepersHaveTimers (Stage03Inv), on which build  *)
(* ageing (AgeingInv: the priorities are naturals) and stage 04            *)
(* (ResourcesInv: no list has an entry of a process, or a descriptor, that *)
(* is to come); and the stage with quanta adds that they add up for every  *)
(* block, in use or not (QuantaInv).                                       *)
(***************************************************************************)
EXTENDS Resources, Ageing, Quanta, SequenceLemmas

-----------------------------------------------------------------------------
(* The invariant of the processes                                          *)

\* The processes that were spawned; the others are or were init.
Kids == {b \in Allocated : pcb[b].parent # Null}

\* The lists of children c of the processes A hold the processes K, each once.
Partition(c, A, K) ==
    /\ \A p \in A : c[p] \in Seq(Blocks) /\ IsInjective(c[p]) /\ ToSet(c[p]) \subseteq K
    /\ \A p, q \in A : p # q => ToSet(c[p]) \cap ToSet(c[q]) = {}
    /\ \A b \in K : \E p \in A : b \in ToSet(c[p])

Children == [b \in Blocks |-> pcb[b].children]

ReadyListed ==
    /\ IsInjective(ready_list) /\ ToSet(ready_list) \subseteq Allocated
    /\ \A b \in Allocated \ {running} : pcb[b].status = "Ready" <=> b \in ToSet(ready_list)
    /\ running \in Allocated \cup {Null} /\ running \notin ToSet(ready_list)
    /\ running # Null => pcb[running].status \in {"Running", "Ready"}

FreeIsWhole == IsInjective(free) /\ \A b \in ToSet(free) : pcb[b] = FreePcb

\* Who is not blocked awaits nobody, and who is dead has no children.
FieldsFit ==
    \A b \in Blocks : /\ pcb[b].status # "Waiting" => pcb[b].awaits = NotInWait
                      /\ pcb[b].status = "Zombie" => pcb[b].children = <<>>

\* Init is there; nobody spawned it, so that its exit ends the system.
InitLives ==
    /\ init_pcb \in Allocated
    /\ pcb[init_pcb].parent = Null /\ pcb[init_pcb].status # "Zombie"

\* The pids of the processes were handed out, to one of them each.
PidsDistinct ==
    /\ \A b \in Allocated : pcb[b].pid \in 0 .. last_pid - 1
    /\ \A p, q \in Allocated : pcb[p].pid = pcb[q].pid => p = q

PtrsSuffice == ptrs + Cardinality(Kids) <= MaxProcs

ProcInv ==
    /\ ProcessesTypeOK
    /\ ReadyListed
    /\ FreeIsWhole
    /\ FieldsFit
    /\ Partition(Children, Allocated, Kids)
    /\ InitLives
    /\ PidsDistinct
    /\ PtrsSuffice

\* Those who have called sleep and were not woken.
Sleepers == {b \in Allocated : pcb[b].status = "Waiting" /\ pcb[b].awaits = NotInWait}

\* What the proofs use all the time.
LEMMA ProcTypes ==
    ASSUME ProcInv
    PROVE  /\ pcb \in [Blocks -> PcbType] /\ free \in Seq(Blocks) /\ ready_list \in Seq(Blocks)
           /\ ToSet(free) \subseteq Blocks /\ Allocated \subseteq Blocks
           /\ Blocks \subseteq Nat /\ Null \notin Blocks
           /\ IsFiniteSet(Blocks) /\ IsFiniteSet(Allocated)
           /\ IsFiniteSet(Kids) /\ Cardinality(Kids) \in Nat
           /\ MaxProcs \in Nat \ {0} /\ ptrs \in Nat /\ MaxPid \in Nat /\ last_pid \in Nat
           /\ WaitArgs \subseteq Nat /\ NotInWait \notin WaitArgs
<1>1. /\ pcb \in [Blocks -> PcbType] /\ free \in Seq(Blocks) /\ ready_list \in Seq(Blocks)
      /\ ptrs \in Nat /\ last_pid \in Nat
      /\ MaxProcs \in Nat \ {0} /\ MaxPid \in Nat /\ WaitArgs \subseteq Nat
  BY ProcessesAssumption DEF ProcInv, ProcessesTypeOK
<1>2. ToSet(free) \subseteq Blocks
  BY <1>1, ToSetType
<1>3. Blocks \subseteq Nat /\ Null \notin Blocks /\ IsFiniteSet(Blocks)
  BY <1>1, FS_Interval DEF Blocks, Null
<1>4. Allocated \subseteq Blocks /\ Kids \subseteq Blocks
  BY DEF Allocated, Kids
<1>5. IsFiniteSet(Allocated) /\ IsFiniteSet(Kids) /\ Cardinality(Kids) \in Nat
  BY <1>3, <1>4, FS_Subset, FS_CardinalityType
<1>6. NotInWait \notin WaitArgs
  BY <1>1 DEF NotInWait
<1> QED
  BY <1>1, <1>2, <1>3, <1>4, <1>5, <1>6

\* A process is not on the free list, and a block on it is no process.
LEMMA FreeBlocks ==
    ASSUME ProcInv
    PROVE  /\ \A b \in Blocks : b \in ToSet(free) <=> b \notin Allocated
           /\ \A b \in Blocks \ Allocated : pcb[b] = FreePcb
BY ProcTypes DEF ProcInv, FreeIsWhole, Allocated

\* A step that leaves the pool, the families and the pids alone keeps the invariant, if
\* it keeps the ready list and the fields in order.
LEMMA MovesKeepProcs ==
    ASSUME ProcInv,
           pcb' \in [Blocks -> PcbType],
           \A b \in Blocks : /\ pcb'[b].pid = pcb[b].pid /\ pcb'[b].parent = pcb[b].parent
                             /\ pcb'[b].children = pcb[b].children,
           \A b \in Blocks \ Allocated : pcb'[b] = pcb[b],
           UNCHANGED <<free, ptrs, last_pid, init_pcb>>,
           running' \in Blocks \cup {Null}, ready_list' \in Seq(Blocks),
           ret' \in [Blocks -> Int], halt' \in Halts,
           ReadyListed', FieldsFit', pcb'[init_pcb].status # "Zombie"
    PROVE  ProcInv' /\ Allocated' = Allocated
<1>1. Allocated' = Allocated
  BY DEF Allocated
<1>2. ProcessesTypeOK'
  BY DEF ProcInv, ProcessesTypeOK
<1>3. FreeIsWhole'
  BY ProcTypes DEF ProcInv, FreeIsWhole, Allocated
<1>4. Children' = Children /\ Kids' = Kids
  BY <1>1, ProcTypes DEF Children, Kids
<1>5. Partition(Children, Allocated, Kids)'
  BY <1>1, <1>4 DEF ProcInv
<1>6. InitLives'
  BY <1>1, ProcTypes DEF ProcInv, InitLives
<1>7. PidsDistinct'
  <2>1. \A b \in Allocated : pcb'[b].pid = pcb[b].pid
    BY ProcTypes
  <2>2. PidsDistinct /\ last_pid' = last_pid
    BY DEF ProcInv
  <2>3. \A b \in Allocated : pcb'[b].pid \in 0 .. last_pid' - 1
    BY <2>1, <2>2 DEF PidsDistinct
  <2>4. \A p, q \in Allocated : pcb'[p].pid = pcb'[q].pid => p = q
    BY <2>1, <2>2 DEF PidsDistinct
  <2> QED
    BY <1>1, <2>3, <2>4 DEF PidsDistinct
<1>8. PtrsSuffice'
  BY <1>4 DEF ProcInv, PtrsSuffice
<1> QED
  BY <1>1, <1>2, <1>3, <1>5, <1>6, <1>7, <1>8 DEF ProcInv

\* The invariant is what the property says of the lists.
LEMMA InvListsProcesses == ProcInv => ProcessesListed
<1> SUFFICES ASSUME ProcInv PROVE ProcessesListed
  OBVIOUS
<1>1. ASSUME NEW b \in Blocks
      PROVE  Cardinality({x \in Allocated \X Blocks :
                             LET list == pcb[x[1]].children
                             IN x[2] \in DOMAIN list /\ list[x[2]] = b})
             = IF b \in Allocated /\ pcb[b].parent # Null THEN 1 ELSE 0
  <2> DEFINE places == {x \in Allocated \X Blocks :
                             LET list == pcb[x[1]].children
                             IN x[2] \in DOMAIN list /\ list[x[2]] = b}
             c == Children
  <2>1. /\ \A p \in Allocated : /\ c[p] \in Seq(Blocks) /\ IsInjective(c[p])
                                /\ ToSet(c[p]) \subseteq Kids
        /\ \A p, q \in Allocated : p # q => ToSet(c[p]) \cap ToSet(c[q]) = {}
        /\ \A k \in Kids : \E p \in Allocated : k \in ToSet(c[p])
    BY DEF ProcInv, Partition
  <2>2. \A p \in Allocated : c[p] = pcb[p].children
    BY ProcTypes DEF Children
  <2> HIDE DEF c
  <2>3. CASE b \notin Kids
    <3>1. \A p \in Allocated : b \notin ToSet(c[p])
      BY <2>1, <2>3
    <3>2. places = {}
      BY <3>1, <2>2 DEF ToSet
    <3> QED
      BY <3>2, <2>3, FS_EmptySet DEF Kids
  <2>4. CASE b \in Kids
    <3>1. PICK p \in Allocated : b \in ToSet(c[p])
      BY <2>1, <2>4
    <3>2. PICK i \in DOMAIN c[p] : c[p][i] = b
      BY <3>1 DEF ToSet
    <3>3. i \in Blocks
      <4>1. c[p] \in Seq(Blocks) /\ IsInjective(c[p])
        BY <2>1
      <4>2. /\ Cardinality(ToSet(c[p])) = Len(c[p]) /\ DOMAIN c[p] = 1 .. Len(c[p])
            /\ Len(c[p]) \in Nat /\ ToSet(c[p]) \subseteq Blocks
        BY <4>1, SeqCount, ToSetType, LenProperties
      <4>3. Cardinality(Blocks) = MaxProcs
        BY ProcTypes, FS_Interval DEF Blocks
      <4>4. Cardinality(ToSet(c[p])) <= MaxProcs
        BY <4>2, <4>3, ProcTypes, FS_Subset
      <4> QED
        BY <4>2, <4>4, <3>2, ProcTypes DEF Blocks
    <3>4. ASSUME NEW x \in places PROVE x = <<p, i>>
      <4>1. /\ x[1] \in Allocated /\ x[2] \in DOMAIN c[x[1]] /\ c[x[1]][x[2]] = b
            /\ x = <<x[1], x[2]>>
        BY <2>2
      <4>2. b \in ToSet(c[x[1]])
        BY <4>1 DEF ToSet
      <4>3. x[1] = p
        BY <4>1, <4>2, <2>1, <3>1
      <4>4. x[2] = i
        BY <4>1, <4>3, <3>2, <2>1 DEF IsInjective
      <4> QED
        BY <4>1, <4>3, <4>4
    <3>5. <<p, i>> \in places
      BY <3>2, <3>3, <2>2
    <3>6. places = {<<p, i>>}
      BY <3>4, <3>5
    <3> QED
      BY <3>6, <2>4, FS_Singleton DEF Kids
  <2> QED
    BY <2>3, <2>4
<1>2. IsInjective(free) /\ ProcessesTypeOK
  BY DEF ProcInv, FreeIsWhole
<1> QED
  BY <1>1, <1>2 DEF ProcInv, ReadyListed, ProcessesListed

-----------------------------------------------------------------------------
(* What the steps do to the lists of children                              *)

\* r spawns n.
LEMMA PartitionGrows ==
    ASSUME NEW A \in SUBSET Blocks, NEW K \in SUBSET A, NEW c, Partition(c, A, K),
           NEW r \in A, NEW n \in Blocks \ A,
           NEW d, d[r] = Append(c[r], n), d[n] = <<>>, \A p \in A \ {r} : d[p] = c[p]
    PROVE  Partition(d, A \cup {n}, K \cup {n})
<1>1. /\ \A p \in A : c[p] \in Seq(Blocks) /\ IsInjective(c[p]) /\ ToSet(c[p]) \subseteq K
      /\ \A p, q \in A : p # q => ToSet(c[p]) \cap ToSet(c[q]) = {}
      /\ \A b \in K : \E p \in A : b \in ToSet(c[p])
  BY DEF Partition
<1>2. /\ d[r] \in Seq(Blocks) /\ ToSet(d[r]) = ToSet(c[r]) \cup {n} /\ IsInjective(d[r])
  BY <1>1, SeqAppend
<1>3. d[n] \in Seq(Blocks) /\ ToSet(d[n]) = {} /\ IsInjective(d[n])
  BY SeqEmpty
<1>4. \A p \in A \cup {n} : d[p] \in Seq(Blocks) /\ IsInjective(d[p])
                            /\ ToSet(d[p]) \subseteq K \cup {n}
  BY <1>1, <1>2, <1>3
<1>5. ASSUME NEW p \in A \cup {n}, NEW q \in A \cup {n}, p # q
      PROVE  ToSet(d[p]) \cap ToSet(d[q]) = {}
  <2>1. \A o \in A \ {r} : ToSet(d[o]) = ToSet(c[o]) /\ n \notin ToSet(d[o])
    BY <1>1
  <2>2. \A o \in A \ {r} : ToSet(c[o]) \cap ToSet(c[r]) = {}
    BY <1>1
  <2>3. CASE p = n \/ q = n
    BY <2>3, <1>3
  <2>4. CASE p = r /\ q # n
    <3>1. q \in A \ {r} /\ n \notin ToSet(d[q])
      BY <2>1, <2>4, <1>5
    <3> QED
      BY <2>1, <2>2, <2>4, <3>1, <1>2
  <2>5. CASE q = r /\ p # n
    <3>1. p \in A \ {r} /\ n \notin ToSet(d[p])
      BY <2>1, <2>5, <1>5
    <3> QED
      BY <2>1, <2>2, <2>5, <3>1, <1>2
  <2>6. CASE p \in A \ {r} /\ q \in A \ {r}
    BY <2>6, <1>1, <1>5
  <2> QED
    BY <2>3, <2>4, <2>5, <2>6
<1>6. ASSUME NEW b \in K \cup {n}
      PROVE  \E p \in A \cup {n} : b \in ToSet(d[p])
  BY <1>1, <1>2
<1> QED
  BY <1>4, <1>5, <1>6 DEF Partition

\* n comes without a parent.
LEMMA PartitionBegins ==
    ASSUME NEW A \in SUBSET Blocks, NEW K \in SUBSET A, NEW c, Partition(c, A, K),
           NEW n \in Blocks \ A,
           NEW d, d[n] = <<>>, \A p \in A : d[p] = c[p]
    PROVE  Partition(d, A \cup {n}, K)
<1>1. /\ \A p \in A : d[p] \in Seq(Blocks) /\ IsInjective(d[p]) /\ ToSet(d[p]) \subseteq K
      /\ \A p, q \in A : p # q => ToSet(d[p]) \cap ToSet(d[q]) = {}
      /\ \A b \in K : \E p \in A : b \in ToSet(d[p])
  BY DEF Partition
<1>2. d[n] \in Seq(Blocks) /\ ToSet(d[n]) = {} /\ IsInjective(d[n])
  BY SeqEmpty
<1> QED
  BY <1>1, <1>2 DEF Partition

\* From c to d, z, which has no children, leaves the list of r.
Leaves(d, c, A, r, i, z) ==
    /\ r \in A /\ i \in DOMAIN c[r] /\ z = c[r][i] /\ c[z] = <<>>
    /\ d[r] = RemoveAt(c[r], i)
    /\ \A p \in A \ {r, z} : d[p] = c[p]

\* A child leaves the list that had it, and the family.
LEMMA PartitionShrinks ==
    ASSUME NEW A \in SUBSET Blocks, NEW K \in SUBSET A, NEW c, Partition(c, A, K),
           NEW d, NEW r, NEW i, NEW z, Leaves(d, c, A, r, i, z)
    PROVE  Partition(d, A \ {z}, K \ {z})
<1>0. /\ r \in A /\ i \in DOMAIN c[r] /\ z = c[r][i] /\ c[z] = <<>>
      /\ d[r] = RemoveAt(c[r], i)
      /\ \A p \in A \ {r, z} : d[p] = c[p]
  BY DEF Leaves
<1>1. /\ \A p \in A : c[p] \in Seq(Blocks) /\ IsInjective(c[p]) /\ ToSet(c[p]) \subseteq K
      /\ \A p, q \in A : p # q => ToSet(c[p]) \cap ToSet(c[q]) = {}
      /\ \A b \in K : \E p \in A : b \in ToSet(c[p])
  BY DEF Partition
<1>2. z \in ToSet(c[r]) /\ z \in A
  BY <1>0, <1>1 DEF ToSet
<1>3. /\ d[r] \in Seq(Blocks) /\ IsInjective(d[r]) /\ ToSet(d[r]) = ToSet(c[r]) \ {z}
  <2>1. c[r] \in Seq(Blocks) /\ IsInjective(c[r])
    BY <1>0, <1>1
  <2> QED
    BY <2>1, <1>0, SeqRemoveAt
<1>4. ToSet(c[z]) = {} /\ r # z
  BY <1>0, <1>2, SeqEmpty
<1>5. \A p \in A \ {z} : d[p] \in Seq(Blocks) /\ IsInjective(d[p])
                         /\ ToSet(d[p]) = ToSet(c[p]) \ {z}
  <2>1. \A p \in A \ {r} : z \notin ToSet(c[p])
    BY <1>0, <1>1, <1>2
  <2> QED
    BY <1>0, <1>1, <1>3, <2>1
<1>6. \A p \in A \ {z} : ToSet(d[p]) \subseteq K \ {z}
  BY <1>1, <1>5
<1>7. \A p, q \in A \ {z} : p # q => ToSet(d[p]) \cap ToSet(d[q]) = {}
  BY <1>1, <1>5
<1>8. \A b \in K \ {z} : \E p \in A \ {z} : b \in ToSet(d[p])
  BY <1>1, <1>4, <1>5
<1> QED
  BY <1>4, <1>5, <1>6, <1>7, <1>8 DEF Partition

\* The children of r go to the end of the list of n.
LEMMA PartitionHandsOn ==
    ASSUME NEW A \in SUBSET Blocks, NEW K \in SUBSET A, NEW c, Partition(c, A, K),
           NEW r \in A, NEW n \in A, r # n,
           NEW d, d[n] = c[n] \o c[r], d[r] = <<>>, \A p \in A \ {r, n} : d[p] = c[p]
    PROVE  Partition(d, A, K)
<1>1. /\ \A p \in A : c[p] \in Seq(Blocks) /\ IsInjective(c[p]) /\ ToSet(c[p]) \subseteq K
      /\ \A p, q \in A : p # q => ToSet(c[p]) \cap ToSet(c[q]) = {}
      /\ \A b \in K : \E p \in A : b \in ToSet(c[p])
  BY DEF Partition
<1>2. /\ d[n] \in Seq(Blocks) /\ ToSet(d[n]) = ToSet(c[n]) \cup ToSet(c[r]) /\ IsInjective(d[n])
  BY <1>1, SeqConcat
<1>3. d[r] \in Seq(Blocks) /\ ToSet(d[r]) = {} /\ IsInjective(d[r])
  BY SeqEmpty
<1>4. \A p \in A : d[p] \in Seq(Blocks) /\ IsInjective(d[p]) /\ ToSet(d[p]) \subseteq K
  BY <1>1, <1>2, <1>3
<1>5. ASSUME NEW p \in A, NEW q \in A, p # q
      PROVE  ToSet(d[p]) \cap ToSet(d[q]) = {}
  <2>1. \A o \in A \ {r, n} : /\ ToSet(d[o]) = ToSet(c[o]) /\ ToSet(c[o]) \cap ToSet(c[r]) = {}
                              /\ ToSet(c[o]) \cap ToSet(c[n]) = {}
    BY <1>1
  <2>2. CASE p = r \/ q = r
    BY <2>2, <1>3
  <2>3. CASE p = n /\ q # r
    BY <2>3, <2>1, <1>2, <1>5
  <2>4. CASE q = n /\ p # r
    BY <2>4, <2>1, <1>2, <1>5
  <2>5. CASE p \in A \ {r, n} /\ q \in A \ {r, n}
    BY <2>5, <1>1, <1>5
  <2> QED
    BY <2>2, <2>3, <2>4, <2>5
<1>6. \A b \in K : \E p \in A : b \in ToSet(d[p])
  BY <1>1, <1>2
<1> QED
  BY <1>4, <1>5, <1>6 DEF Partition

-----------------------------------------------------------------------------
(* The steps of the processes                                              *)

\* The system starts with init alone.
LEMMA InitKeepsProcs == ProcessesInit => ProcInv
<1> SUFFICES ASSUME ProcessesInit PROVE ProcInv
  OBVIOUS
<1>1. /\ MaxProcs \in Nat \ {0} /\ MaxPid \in Nat /\ WaitArgs \subseteq Nat
      /\ 1 \in Blocks /\ Blocks = 1 .. MaxProcs
  BY ProcessesAssumption DEF Blocks
<1>2. /\ free = [i \in 1 .. MaxProcs - 1 |-> i + 1] /\ free \in Seq(Blocks)
      /\ IsInjective(free) /\ ToSet(free) = Blocks \ {1}
  <2>1. free = [i \in 1 .. MaxProcs - 1 |-> i + 1]
    BY DEF ProcessesInit
  <2>2. free \in [1 .. MaxProcs - 1 -> Blocks] /\ MaxProcs - 1 \in Nat
    BY <1>1, <2>1
  <2>3. free \in Seq(Blocks)
    BY <2>2, SeqDef
  <2>4. IsInjective(free)
    BY <2>1 DEF IsInjective
  <2>5. ASSUME NEW b \in Blocks, b # 1 PROVE b \in ToSet(free)
    <3>1. b - 1 \in DOMAIN free /\ free[b - 1] = b
      BY <1>1, <2>1, <2>5
    <3> QED
      BY <3>1 DEF ToSet
  <2>6. ASSUME NEW b \in ToSet(free) PROVE b \in Blocks /\ b # 1
    BY <1>1, <2>1 DEF ToSet
  <2> QED
    BY <2>1, <2>3, <2>4, <2>5, <2>6
<1>3. Allocated = {1}
  BY <1>1, <1>2 DEF Allocated
<1>4. /\ pcb \in [Blocks -> PcbType]
      /\ pcb[1] = [FreePcb EXCEPT !.pid = 0, !.status = "Running"]
      /\ \A b \in Blocks \ {1} : pcb[b] = FreePcb
  <2>1. FreePcb \in PcbType /\ [FreePcb EXCEPT !.pid = 0, !.status = "Running"] \in PcbType
    <3>1. 0 \in Pids /\ -1 \in Pids \cup {-1} /\ <<>> \in Seq(Blocks)
      BY <1>1 DEF Pids
    <3>2. FreePcb \in PcbType
      BY <3>1 DEF FreePcb, PcbType
    <3> QED
      BY <3>1, <3>2 DEF PcbType
  <2> QED
    BY <2>1, <1>1 DEF ProcessesInit
<1>5. /\ pcb[1].pid = 0 /\ pcb[1].status = "Running" /\ pcb[1].parent = Null
      /\ pcb[1].children = <<>> /\ pcb[1].awaits = NotInWait
  BY <1>4 DEF FreePcb
<1>6. /\ ptrs = MaxProcs /\ last_pid = 1 /\ init_pcb = 1 /\ running = 1 /\ ready_list = <<>>
      /\ ret \in [Blocks -> Int] /\ halt = "no"
  BY DEF ProcessesInit
<1>7. ProcessesTypeOK
  BY <1>1, <1>2, <1>4, <1>6 DEF ProcessesTypeOK, Halts
<1>8. ReadyListed
  BY <1>3, <1>5, <1>6, SeqEmpty DEF ReadyListed
<1>9. FreeIsWhole
  BY <1>2, <1>4 DEF FreeIsWhole
<1>10. FieldsFit
  BY <1>4, <1>5 DEF FieldsFit, FreePcb
<1>11. Kids = {} /\ Cardinality(Kids) = 0
  BY <1>3, <1>5, FS_EmptySet DEF Kids
<1>12. Partition(Children, Allocated, Kids)
  <2>1. Children[1] = <<>>
    BY <1>1, <1>5 DEF Children
  <2>2. <<>> \in Seq(Blocks)
    OBVIOUS
  <2> QED
    BY <2>1, <2>2, <1>3, <1>11, SeqEmpty DEF Partition
<1>13. InitLives /\ PidsDistinct
  BY <1>3, <1>5, <1>6 DEF InitLives, PidsDistinct
<1>14. PtrsSuffice
  BY <1>1, <1>6, <1>11 DEF PtrsSuffice
<1> QED
  BY <1>7, <1>8, <1>9, <1>10, <1>12, <1>13, <1>14 DEF ProcInv

\* A step in which no process is made or dies: all it changes of a PCB is the status.
OnlyStatus(p) ==
    /\ p \in [Blocks -> PcbType]
    /\ \A b \in Blocks : /\ p[b].pid = pcb[b].pid /\ p[b].parent = pcb[b].parent
                         /\ p[b].children = pcb[b].children /\ p[b].awaits = pcb[b].awaits

\* q is p, but the status of b is st.
StatusIs(q, p, b, st) ==
    /\ \A o \in Blocks : /\ q[o].pid = p[o].pid /\ q[o].parent = p[o].parent
                         /\ q[o].children = p[o].children /\ q[o].awaits = p[o].awaits
                         /\ q[o].status = IF o = b THEN st ELSE p[o].status
    /\ \A o \in Blocks \ {b} : q[o] = p[o]

\* A status is set in one PCB.
LEMMA SetStatus ==
    ASSUME NEW p \in [Blocks -> PcbType], NEW b \in Blocks,
           NEW st \in {"Running", "Ready", "Waiting", "Zombie"}
    PROVE  /\ [p EXCEPT ![b].status = st] \in [Blocks -> PcbType]
           /\ StatusIs([p EXCEPT ![b].status = st], p, b, st)
<1> DEFINE q == [p EXCEPT ![b].status = st]
<1>1. \A o \in Blocks : q[o] = IF o = b THEN [p[o] EXCEPT !.status = st] ELSE p[o]
  OBVIOUS
<1>2. \A r \in PcbType : /\ [r EXCEPT !.status = st] \in PcbType
                         /\ [r EXCEPT !.status = st].pid = r.pid
                         /\ [r EXCEPT !.status = st].parent = r.parent
                         /\ [r EXCEPT !.status = st].children = r.children
                         /\ [r EXCEPT !.status = st].awaits = r.awaits
                         /\ [r EXCEPT !.status = st].status = st
  BY DEF PcbType
<1>3. q \in [Blocks -> PcbType]
  BY <1>1, <1>2
<1> HIDE DEF q
<1>4. ASSUME NEW o \in Blocks
      PROVE  /\ q[o].pid = p[o].pid /\ q[o].parent = p[o].parent
             /\ q[o].children = p[o].children /\ q[o].awaits = p[o].awaits
             /\ q[o].status = IF o = b THEN st ELSE p[o].status
  <2>1. p[o] \in PcbType
    OBVIOUS
  <2>2. CASE o = b
    BY <2>1, <2>2, <1>1, <1>2
  <2>3. CASE o # b
    BY <2>3, <1>1
  <2> QED
    BY <2>2, <2>3
<1>5. \A o \in Blocks \ {b} : q[o] = p[o]
  BY <1>1
<1>6. StatusIs(q, p, b, st)
  BY <1>4, <1>5 DEF StatusIs
<1> QED
  BY <1>3, <1>6 DEF q

\* The processes w, all of them sleepers, are awake in the PCBs p and on the ready list q.
Awake(p, q, w) ==
    /\ OnlyStatus(p)
    /\ \A b \in Blocks : p[b].status = IF b \in ToSet(w) THEN "Ready" ELSE pcb[b].status
    /\ \A b \in Blocks \ Allocated : p[b] = pcb[b]
    /\ q \in Seq(Blocks) /\ IsInjective(q)
    /\ ToSet(q) = ToSet(ready_list) \cup ToSet(w)
    /\ ToSet(w) \subseteq Sleepers

\* The scheduler wakes w.
LEMMA WakingWakes ==
    ASSUME ProcInv, NEW w \in Seq(Blocks), IsInjective(w), ToSet(w) \subseteq Sleepers,
           NEW p, p = [b \in Blocks |-> IF b \in ToSet(w) THEN [pcb[b] EXCEPT !.status = "Ready"]
                                                          ELSE pcb[b]],
           NEW q, q = ready_list \o w
    PROVE  Awake(p, q, w)
<1> DEFINE W == ToSet(w)
<1>1. \A b \in Blocks : p[b] = IF b \in W THEN [pcb[b] EXCEPT !.status = "Ready"] ELSE pcb[b]
  OBVIOUS
<1>2. \A r \in PcbType : /\ [r EXCEPT !.status = "Ready"] \in PcbType
                         /\ [r EXCEPT !.status = "Ready"].pid = r.pid
                         /\ [r EXCEPT !.status = "Ready"].parent = r.parent
                         /\ [r EXCEPT !.status = "Ready"].children = r.children
                         /\ [r EXCEPT !.status = "Ready"].awaits = r.awaits
                         /\ [r EXCEPT !.status = "Ready"].status = "Ready"
  BY DEF PcbType
<1>3. pcb \in [Blocks -> PcbType] /\ ready_list \in Seq(Blocks)
  BY ProcTypes
<1> HIDE DEF W
<1>4. p \in [Blocks -> PcbType]
  BY <1>1, <1>2, <1>3 DEF W
<1>5. /\ OnlyStatus(p)
      /\ \A b \in Blocks : p[b].status = IF b \in W THEN "Ready" ELSE pcb[b].status
  <2>1. ASSUME NEW b \in Blocks
        PROVE  /\ p[b].pid = pcb[b].pid /\ p[b].parent = pcb[b].parent
               /\ p[b].children = pcb[b].children /\ p[b].awaits = pcb[b].awaits
               /\ p[b].status = IF b \in W THEN "Ready" ELSE pcb[b].status
    <3>1. pcb[b] \in PcbType
      BY <1>3
    <3>2. CASE b \in W
      BY <3>1, <3>2, <1>1, <1>2
    <3>3. CASE b \notin W
      BY <3>3, <1>1, ZenonT(30)
    <3> QED
      BY <3>2, <3>3
  <2> QED
    BY <2>1, <1>4 DEF OnlyStatus
<1>6. \A b \in Blocks \ Allocated : p[b] = pcb[b]
  <2>1. \A b \in W : b \in Allocated
    BY DEF W, Sleepers
  <2> QED
    BY <1>1, <2>1
<1>7. ToSet(ready_list) \cap W = {}
  <2>1. \A b \in W : b \in Allocated /\ pcb[b].status = "Waiting"
    BY DEF W, Sleepers
  <2>2. \A b \in ToSet(ready_list) : b \in Allocated /\ b # running
    BY DEF ProcInv, ReadyListed
  <2>3. \A b \in ToSet(ready_list) : pcb[b].status = "Ready"
    BY <2>2 DEF ProcInv, ReadyListed
  <2> QED
    BY <2>1, <2>3
<1>8. /\ q \in Seq(Blocks) /\ ToSet(q) = ToSet(ready_list) \cup ToSet(w) /\ IsInjective(q)
  BY <1>3, <1>7, SeqConcat DEF W, ProcInv, ReadyListed
<1> QED
  BY <1>5, <1>6, <1>8 DEF Awake, W

\* The scheduler runs a ready process, and if there is none the one that runs goes on.
LEMMA SchedulingKeepsProcs ==
    ASSUME ProcInv, InUserCode,
           NEW p, NEW q, NEW w, Awake(p, q, w),
           \/ q = <<>> /\ pcb' = p /\ ready_list' = q /\ running' = running
           \/ \E i \in DOMAIN q : SwitchTo(p, q, i),
           UNCHANGED <<free, ptrs, last_pid, init_pcb, ret, halt>>
    PROVE  /\ ProcInv' /\ Allocated' = Allocated
           /\ OnlyStatus(pcb')
           /\ Sleepers' = Sleepers \ ToSet(w)
<1>1. /\ running \in Allocated /\ running \in Blocks /\ running \notin ToSet(q)
      /\ pcb[running].status # "Waiting"
      /\ ToSet(q) \subseteq Allocated
  <2>1. running \in Allocated /\ running \in Blocks /\ pcb[running].status # "Waiting"
    BY ProcTypes DEF ProcInv, ReadyListed, InUserCode
  <2>2. running \notin ToSet(w) /\ ToSet(w) \subseteq Allocated
    BY <2>1 DEF Awake, Sleepers
  <2> QED
    BY <2>1, <2>2 DEF Awake, ProcInv, ReadyListed
<1>2. /\ OnlyStatus(p) /\ p \in [Blocks -> PcbType]
      /\ \A b \in Blocks : p[b].status = IF b \in ToSet(w) THEN "Ready" ELSE pcb[b].status
      /\ \A b \in Blocks \ Allocated : p[b] = pcb[b]
      /\ q \in Seq(Blocks) /\ IsInjective(q)
      /\ ToSet(q) = ToSet(ready_list) \cup ToSet(w)
      /\ ToSet(w) \subseteq Sleepers
  BY DEF Awake, OnlyStatus
<1>3. /\ OnlyStatus(pcb')
      /\ \A b \in Blocks \ Allocated : pcb'[b] = pcb[b]
      /\ \A b \in Blocks \ {running, running'} : pcb'[b].status = p[b].status
      /\ pcb'[running'].status \in {"Running", "Ready"}
      /\ running # running' => pcb'[running].status = "Ready"
      /\ running' \in Allocated /\ (running' # running => running' \in ToSet(q))
      /\ ready_list' \in Seq(Blocks) /\ IsInjective(ready_list')
      /\ ToSet(ready_list') = IF running' = running THEN ToSet(q)
                              ELSE (ToSet(q) \ {running'}) \cup {running}
  <2>1. CASE q = <<>> /\ pcb' = p /\ ready_list' = q /\ running' = running
    <3>1. p[running].status = pcb[running].status
      BY <1>1, <1>2 DEF Sleepers
    <3>2. pcb[running].status \in {"Running", "Ready"}
      BY DEF ProcInv, ReadyListed, InUserCode
    <3> QED
      BY <2>1, <1>1, <1>2, <3>1, <3>2
  <2>2. ASSUME NEW i \in DOMAIN q, SwitchTo(p, q, i)
        PROVE  /\ OnlyStatus(pcb')
               /\ \A b \in Blocks \ Allocated : pcb'[b] = pcb[b]
               /\ \A b \in Blocks \ {running, running'} : pcb'[b].status = p[b].status
               /\ pcb'[running'].status = "Running"
               /\ pcb'[running].status = "Ready"
               /\ running' \in ToSet(q) /\ running' # running
               /\ ready_list' \in Seq(Blocks) /\ IsInjective(ready_list')
               /\ ToSet(ready_list') = (ToSet(q) \ {running'}) \cup {running}
    <3> DEFINE n == q[i]
               p1 == [p EXCEPT ![running].status = "Ready"]
               p2 == [p1 EXCEPT ![n].status = "Running"]
               q1 == RemoveAt(q, i)
    <3>1. n \in ToSet(q) /\ n \in Allocated /\ n \in Blocks /\ n # running
      BY <1>1, ProcTypes DEF ToSet
    <3>2. running' = n /\ pcb' = p2 /\ ready_list' = Append(q1, running)
      BY <2>2 DEF SwitchTo
    <3>3. /\ q1 \in Seq(Blocks) /\ IsInjective(q1) /\ ToSet(q1) = ToSet(q) \ {n}
      BY <1>2, SeqRemoveAt
    <3> HIDE DEF n, q1
    <3>4. /\ ready_list' \in Seq(Blocks) /\ IsInjective(ready_list')
          /\ ToSet(ready_list') = (ToSet(q) \ {n}) \cup {running}
      <4>1. running \notin ToSet(q1)
        BY <3>3, <1>1
      <4> QED
        BY <3>2, <3>3, <4>1, <1>1, SeqAppend
    <3>5. p1 \in [Blocks -> PcbType] /\ StatusIs(p1, p, running, "Ready")
      BY <1>1, <1>2, SetStatus
    <3> HIDE DEF p1
    <3>6. p2 \in [Blocks -> PcbType] /\ StatusIs(p2, p1, n, "Running")
      BY <3>1, <3>5, SetStatus
    <3> HIDE DEF p2
    <3>7. OnlyStatus(pcb')
      BY <3>2, <3>5, <3>6, <1>2 DEF OnlyStatus, StatusIs
    <3>8. \A b \in Blocks \ Allocated : pcb'[b] = pcb[b]
      BY <3>1, <3>2, <3>5, <3>6, <1>1, <1>2 DEF StatusIs
    <3>9. /\ \A b \in Blocks \ {running, n} : pcb'[b].status = p[b].status
          /\ pcb'[n].status = "Running" /\ pcb'[running].status = "Ready"
      BY <3>1, <3>2, <3>5, <3>6, <1>1 DEF StatusIs
    <3> QED
      BY <3>1, <3>2, <3>4, <3>7, <3>8, <3>9
  <2>3. CASE \E i \in DOMAIN q : SwitchTo(p, q, i)
    <3>1. PICK i \in DOMAIN q : SwitchTo(p, q, i)
      BY <2>3
    <3>2. running' # running
      BY <3>1, <2>2
    <3>3. OnlyStatus(pcb') /\ \A b \in Blocks \ Allocated : pcb'[b] = pcb[b]
      BY <3>1, <2>2
    <3> QED
      BY <3>1, <3>2, <3>3, <2>2, <1>1
  <2> QED
    BY <2>1, <2>3
<1>4. Allocated' = Allocated
  BY DEF Allocated
<1>5. \A b \in Allocated \ {running} : p[b].status = "Ready" <=> b \in ToSet(q)
  BY <1>2, ProcTypes DEF ProcInv, ReadyListed
<1>6. \A b \in Allocated \ {running'} : pcb'[b].status = "Ready" <=> b \in ToSet(ready_list')
  BY <1>1, <1>3, <1>5, ProcTypes
<1>7. ReadyListed'
  <2>1. running' \notin ToSet(ready_list') /\ ToSet(ready_list') \subseteq Allocated
    BY <1>1, <1>3
  <2> QED
    BY <2>1, <1>3, <1>4, <1>6 DEF ReadyListed
<1>8. \A b \in Blocks : pcb'[b].status = "Waiting" <=> pcb[b].status = "Waiting" /\ b \notin ToSet(w)
  <2>1. running \notin ToSet(w) /\ p[running].status = pcb[running].status
    BY <1>1, <1>2 DEF Sleepers
  <2>2. running' # running => p[running'].status = "Ready" /\ running' \in Blocks
    BY <1>3, <1>5, ProcTypes
  <2>3. \A b \in Blocks : p[b].status = "Waiting" <=> pcb[b].status = "Waiting" /\ b \notin ToSet(w)
    BY <1>2
  <2>4. ASSUME NEW b \in Blocks
        PROVE  pcb'[b].status = "Waiting" <=> p[b].status = "Waiting"
    <3>1. CASE b = running
      BY <3>1, <2>1, <1>1, <1>3
    <3>2. CASE b = running' /\ b # running
      BY <3>2, <2>2, <1>3
    <3>3. CASE b \in Blocks \ {running, running'}
      BY <3>3, <1>3
    <3> QED
      BY <3>1, <3>2, <3>3
  <2> QED
    BY <2>3, <2>4
<1>13. \A b \in Blocks : pcb'[b].status = "Zombie" => pcb[b].status = "Zombie"
  <2> SUFFICES ASSUME NEW b \in Blocks
               PROVE  pcb'[b].status = "Zombie" => pcb[b].status = "Zombie"
    OBVIOUS
  <2> QED
    <3>1. b \notin {running, running'} => pcb'[b].status = p[b].status
      BY <1>3
    <3>2. b \in {running, running'} => pcb'[b].status # "Zombie"
      BY <1>3
    <3>3. p[b].status = "Zombie" => pcb[b].status = "Zombie"
      BY <1>2
    <3> QED
      BY <3>1, <3>2, <3>3
<1>9. FieldsFit'
  <2>1. \A b \in ToSet(w) : pcb[b].awaits = NotInWait
    BY <1>2 DEF Sleepers
  <2> QED
    BY <1>3, <1>8, <1>13, <2>1 DEF FieldsFit, ProcInv, OnlyStatus
<1>10. Sleepers' = Sleepers \ ToSet(w)
  BY <1>3, <1>4, <1>8, ProcTypes DEF Sleepers, OnlyStatus
<1>11. ret' \in [Blocks -> Int] /\ halt' \in Halts
  BY DEF ProcInv, ProcessesTypeOK
<1>12. ProcInv'
  <2>1. pcb'[init_pcb].status # "Zombie"
    BY <1>13, ProcTypes DEF ProcInv, InitLives
  <2> QED
    BY <2>1, <1>3, <1>7, <1>9, <1>11, MovesKeepProcs, ProcTypes DEF OnlyStatus
<1> QED
  BY <1>3, <1>4, <1>10, <1>12

\* A step that only writes results, or ends the system, keeps the invariant.
LEMMA AnswersKeepProcs ==
    ASSUME ProcInv, ret' \in [Blocks -> Int], halt' \in Halts,
           UNCHANGED <<pcb, free, ptrs, last_pid, init_pcb, running, ready_list>>
    PROVE  ProcInv' /\ Allocated' = Allocated /\ Sleepers' = Sleepers
<1>1. Allocated' = Allocated /\ Sleepers' = Sleepers
  BY DEF Allocated, Sleepers
<1>2. ReadyListed' /\ FieldsFit'
  BY <1>1 DEF ProcInv, ReadyListed, FieldsFit
<1>3. ProcInv'
  <2>1. pcb'[init_pcb].status # "Zombie"
    BY DEF ProcInv, InitLives
  <2> QED
    BY <2>1, <1>2, ProcTypes, MovesKeepProcs DEF ProcInv, ProcessesTypeOK
<1> QED
  BY <1>1, <1>3

\* The step that stops the system.
LEMMA StopKeepsProcs ==
    ASSUME ProcInv, NEW how \in Halts, Stop(how)
    PROVE  ProcInv' /\ Allocated' = Allocated /\ Sleepers' = Sleepers /\ pcb' = pcb
<1>1. ret' \in [Blocks -> Int] /\ halt' \in Halts /\ pcb' = pcb
  BY DEF Stop, ProcInv, ProcessesTypeOK
<1> QED
  BY <1>1, AnswersKeepProcs DEF Stop

\* q is p, but the list of children of b is l.
ChildrenAre(q, p, b, l) ==
    /\ \A o \in Blocks : /\ q[o].pid = p[o].pid /\ q[o].parent = p[o].parent
                         /\ q[o].status = p[o].status /\ q[o].awaits = p[o].awaits
                         /\ q[o].children = IF o = b THEN l ELSE p[o].children
    /\ \A o \in Blocks \ {b} : q[o] = p[o]

\* A list of children is set in one PCB.
LEMMA SetChildren ==
    ASSUME NEW p \in [Blocks -> PcbType], NEW b \in Blocks, NEW l \in Seq(Blocks)
    PROVE  /\ [p EXCEPT ![b].children = l] \in [Blocks -> PcbType]
           /\ ChildrenAre([p EXCEPT ![b].children = l], p, b, l)
<1> DEFINE q == [p EXCEPT ![b].children = l]
<1>1. \A o \in Blocks : q[o] = IF o = b THEN [p[o] EXCEPT !.children = l] ELSE p[o]
  OBVIOUS
<1>2. \A r \in PcbType : /\ [r EXCEPT !.children = l] \in PcbType
                         /\ [r EXCEPT !.children = l].pid = r.pid
                         /\ [r EXCEPT !.children = l].parent = r.parent
                         /\ [r EXCEPT !.children = l].status = r.status
                         /\ [r EXCEPT !.children = l].awaits = r.awaits
                         /\ [r EXCEPT !.children = l].children = l
  BY DEF PcbType
<1>3. q \in [Blocks -> PcbType]
  BY <1>1, <1>2
<1> HIDE DEF q
<1>4. ASSUME NEW o \in Blocks
      PROVE  /\ q[o].pid = p[o].pid /\ q[o].parent = p[o].parent
             /\ q[o].status = p[o].status /\ q[o].awaits = p[o].awaits
             /\ q[o].children = IF o = b THEN l ELSE p[o].children
  <2>1. p[o] \in PcbType
    OBVIOUS
  <2>2. CASE o = b
    BY <2>1, <2>2, <1>1, <1>2
  <2>3. CASE o # b
    BY <2>3, <1>1
  <2> QED
    BY <2>2, <2>3
<1>5. \A o \in Blocks \ {b} : q[o] = p[o]
  BY <1>1
<1>6. ChildrenAre(q, p, b, l)
  BY <1>4, <1>5 DEF ChildrenAre
<1> QED
  BY <1>3, <1>6 DEF q

\* A block on the free list, and what the pool gives next.
LEMMA FreePcbFields ==
    ASSUME ProcessesAssumption
    PROVE  /\ FreePcb \in PcbType
           /\ FreePcb.pid = -1 /\ FreePcb.status = "Zombie" /\ FreePcb.parent = Null
           /\ FreePcb.children = <<>> /\ FreePcb.awaits = NotInWait
<1>1. <<>> \in Seq(Blocks)
  OBVIOUS
<1>2. FreePcb \in PcbType
  BY <1>1 DEF FreePcb, PcbType
<1> QED
  BY <1>2 DEF FreePcb

\* The fields of the PCB of a new process.
LEMMA NewPcbFields ==
    ASSUME NEW status \in {"Running", "Ready"}, NEW parent \in Blocks \cup {Null},
           last_pid \in Pids
    PROVE  /\ NewPcb(status, parent) \in PcbType
           /\ NewPcb(status, parent).pid = last_pid /\ NewPcb(status, parent).status = status
           /\ NewPcb(status, parent).parent = parent
           /\ NewPcb(status, parent).children = <<>>
           /\ NewPcb(status, parent).awaits = NotInWait
<1>1. <<>> \in Seq(Blocks)
  OBVIOUS
<1>2. NewPcb(status, parent) \in PcbType
  BY <1>1 DEF NewPcb, PcbType
<1> QED
  BY <1>2 DEF NewPcb

\* PCB_alloc takes the first block.
LEMMA NextPcbIsFree ==
    ASSUME ProcInv, free # <<>>
    PROVE  /\ NextPcb \in Blocks /\ NextPcb \notin Allocated /\ Tail(free) \in Seq(Blocks)
           /\ NextPcb \in ToSet(free)
           /\ ToSet(Tail(free)) = ToSet(free) \ {NextPcb} /\ IsInjective(Tail(free))
BY ProcTypes, SeqTail DEF NextPcb, ProcInv, FreeIsWhole, Allocated

\* The pid a new process gets is nobody's.
LEMMA NewPidIsFresh ==
    ASSUME ProcInv, NEW n \in Blocks \ Allocated,
           \A b \in Allocated : pcb'[b].pid = pcb[b].pid,
           pcb'[n].pid = last_pid, last_pid' = last_pid + 1,
           Allocated' = Allocated \cup {n}
    PROVE  PidsDistinct'
<1>1. last_pid \in Nat /\ PidsDistinct
  BY ProcTypes DEF ProcInv
<1>2. \A b \in Allocated' : pcb'[b].pid \in 0 .. last_pid' - 1
  <2>1. \A b \in Allocated : pcb'[b].pid \in 0 .. last_pid - 1
    BY <1>1 DEF PidsDistinct
  <2> QED
    BY <2>1, <1>1
<1>3. ASSUME NEW p \in Allocated', NEW q \in Allocated', pcb'[p].pid = pcb'[q].pid
      PROVE  p = q
  <2>1. \A b \in Allocated : pcb'[b].pid # last_pid
    BY <1>1 DEF PidsDistinct
  <2>2. \A a, b \in Allocated : pcb[a].pid = pcb[b].pid => a = b
    BY <1>1 DEF PidsDistinct
  <2> QED
    BY <1>3, <2>1, <2>2
<1> QED
  BY <1>2, <1>3 DEF PidsDistinct

\* A spawn.
LEMMA SpawnKeepsProcs ==
    ASSUME ProcInv, Spawn
    PROVE  /\ ProcInv' /\ Sleepers' = Sleepers
           /\ NextPcb \in Blocks \ Allocated /\ Allocated' = Allocated \cup {NextPcb}
           /\ \A b \in Allocated : pcb'[b].pid = pcb[b].pid
           /\ pcb'[NextPcb].pid = last_pid
           /\ running' = running /\ ToSet(ready_list') = ToSet(ready_list) \cup {NextPcb}
<1> DEFINE n == NextPcb
           p1 == [pcb EXCEPT ![n] = NewPcb("Ready", running)]
           l == Append(pcb[running].children, n)
           p2 == [p1 EXCEPT ![running].children = l]
<1>1. /\ running \in Blocks /\ running \in Allocated /\ last_pid \in Pids /\ ptrs \in Nat /\ ptrs > 0
      /\ last_pid <= MaxPid /\ free # <<>>
  BY ProcTypes DEF Spawn, InUserCode, ProcInv, ReadyListed, Pids
<1>2. /\ n \in Blocks /\ n \notin Allocated /\ Tail(free) \in Seq(Blocks) /\ n \in ToSet(free)
      /\ ToSet(Tail(free)) = ToSet(free) \ {n} /\ IsInjective(Tail(free))
  BY <1>1, NextPcbIsFree
<1>0. pcb' = p2
  <2>1. pcb' = [pcb EXCEPT ![n] = NewPcb("Ready", running), ![running].children = Append(@, n)]
    BY DEF Spawn
  <2> HIDE DEF n
  <2>2. n \in Blocks /\ running \in Blocks /\ n # running /\ pcb \in [Blocks -> PcbType]
        /\ NewPcb("Ready", running) \in PcbType
    BY <1>1, <1>2, ProcTypes, NewPcbFields
  <2> QED
    BY ONLY <2>1, <2>2
<1>3. /\ pcb' = p2 /\ ready_list' = Append(ready_list, n)
      /\ ret' = [ret EXCEPT ![running] = last_pid]
      /\ free' = Tail(free) /\ ptrs' = ptrs - 1 /\ last_pid' = last_pid + 1
      /\ init_pcb' = init_pcb /\ running' = running /\ halt' = halt
  BY <1>0 DEF Spawn
<1> HIDE DEF n
<1>4. n # running /\ running \in Blocks
  BY <1>1, <1>2
<1>5. /\ p1 \in [Blocks -> PcbType] /\ p1[n] = NewPcb("Ready", running)
      /\ \A b \in Blocks \ {n} : p1[b] = pcb[b]
  BY <1>1, <1>2, NewPcbFields, ProcTypes
<1> HIDE DEF p1
<1>6. l \in Seq(Blocks) /\ l = Append(pcb[running].children, n)
  <2>1. pcb[running].children \in Seq(Blocks)
    BY <1>1, ProcTypes DEF PcbType
  <2> QED
    BY <2>1, <1>2, SeqAppend
<1> HIDE DEF l
<1>7. p2 \in [Blocks -> PcbType] /\ ChildrenAre(p2, p1, running, l)
  BY <1>1, <1>5, <1>6, SetChildren
<1> HIDE DEF p2
<1>8. /\ \A b \in Blocks \ {n} : /\ pcb'[b].pid = pcb[b].pid /\ pcb'[b].status = pcb[b].status
                                 /\ pcb'[b].parent = pcb[b].parent
                                 /\ pcb'[b].awaits = pcb[b].awaits
      /\ \A b \in Blocks \ {n, running} : pcb'[b] = pcb[b]
      /\ pcb'[running].children = Append(pcb[running].children, n)
  BY <1>3, <1>4, <1>5, <1>6, <1>7 DEF ChildrenAre
<1>9. pcb'[n] = NewPcb("Ready", running)
  BY <1>2, <1>3, <1>4, <1>5, <1>7 DEF ChildrenAre
<1>10. /\ pcb'[n].pid = last_pid /\ pcb'[n].status = "Ready" /\ pcb'[n].parent = running
       /\ pcb'[n].children = <<>> /\ pcb'[n].awaits = NotInWait
  BY <1>1, <1>9, NewPcbFields
<1>11. Allocated' = Allocated \cup {n}
  BY <1>2, <1>3 DEF Allocated
<1>12. Kids' = Kids \cup {n} /\ n \notin Kids /\ Kids \subseteq Allocated
  <2>1. running # Null
    BY <1>1, ProcTypes
  <2>2. \A b \in Allocated : b \in Blocks \ {n}
    BY <1>2, ProcTypes
  <2> QED
    BY <2>1, <2>2, <1>2, <1>8, <1>10, <1>11 DEF Kids
<1>13. ProcessesTypeOK'
  <2>1. ptrs' \in 0 .. MaxProcs /\ last_pid' \in 0 .. MaxPid + 1
    BY <1>1, <1>3, ProcTypes, SMTT(30) DEF ProcInv, ProcessesTypeOK
  <2>2. ret' \in [Blocks -> Int]
    BY <1>1, <1>3, ProcTypes DEF ProcInv, ProcessesTypeOK
  <2>3. ready_list' \in Seq(Blocks)
    BY <1>2, <1>3, ProcTypes, SeqAppend
  <2> QED
    BY <2>1, <2>2, <2>3, <1>2, <1>3, <1>7 DEF ProcInv, ProcessesTypeOK
<1>14. /\ ToSet(ready_list') = ToSet(ready_list) \cup {n} /\ IsInjective(ready_list')
       /\ n \notin ToSet(ready_list)
  <2>1. n \notin ToSet(ready_list) /\ IsInjective(ready_list)
    BY <1>2 DEF ProcInv, ReadyListed
  <2> QED
    BY <2>1, <1>2, <1>3, ProcTypes, SeqAppend
<1>15. ReadyListed'
  <2>1. \A b \in Allocated' \ {running} : pcb'[b].status = "Ready" <=> b \in ToSet(ready_list')
    BY <1>2, <1>8, <1>10, <1>11, <1>14, ProcTypes DEF ProcInv, ReadyListed
  <2> QED
    BY <2>1, <1>3, <1>4, <1>8, <1>11, <1>14 DEF ProcInv, ReadyListed
<1>16. FreeIsWhole'
  <2>1. \A b \in ToSet(free') : b \in ToSet(free) /\ b \in Blocks \ {n, running}
    BY <1>1, <1>2, <1>3, ProcTypes DEF Allocated
  <2> QED
    BY <2>1, <1>2, <1>3, <1>8 DEF ProcInv, FreeIsWhole
<1>17. FieldsFit'
  <2>1. pcb[running].status # "Zombie"
    BY <1>1, ProcTypes DEF ProcInv, ReadyListed
  <2>2. ASSUME NEW b \in Blocks \ {n}
        PROVE  /\ pcb'[b].status # "Waiting" => pcb'[b].awaits = NotInWait
               /\ pcb'[b].status = "Zombie" => pcb'[b].children = <<>>
    BY <2>1, <1>8 DEF ProcInv, FieldsFit
  <2>3. /\ pcb'[n].status # "Waiting" => pcb'[n].awaits = NotInWait
        /\ pcb'[n].status = "Zombie" => pcb'[n].children = <<>>
    BY <1>10
  <2> QED
    BY <2>2, <2>3 DEF FieldsFit
<1>18. Partition(Children, Allocated, Kids)'
  <2>1. /\ Children'[running] = Append(Children[running], n) /\ Children'[n] = <<>>
        /\ \A p \in Allocated \ {running} : Children'[p] = Children[p]
    <3>1. \A p \in Allocated \ {running} : p \in Blocks \ {n, running}
      BY <1>2, ProcTypes
    <3> QED
      BY <3>1, <1>2, <1>4, <1>8, <1>10 DEF Children
  <2>2. Partition(Children, Allocated, Kids)
    BY DEF ProcInv
  <2>3. Partition(Children', Allocated \cup {n}, Kids \cup {n})
    BY <2>1, <2>2, <1>1, <1>2, <1>12, ProcTypes, PartitionGrows
  <2> QED
    BY <2>3, <1>11, <1>12
<1>19. InitLives'
  <2>1. init_pcb \in Blocks \ {n} /\ init_pcb \in Allocated
    BY <1>2, ProcTypes DEF ProcInv, InitLives
  <2> QED
    BY <2>1, <1>3, <1>8, <1>11 DEF ProcInv, InitLives
<1>20. \A b \in Allocated : pcb'[b].pid = pcb[b].pid
  BY <1>2, <1>8, ProcTypes
<1>21. PidsDistinct'
  BY <1>2, <1>3, <1>10, <1>11, <1>20, NewPidIsFresh
<1>22. PtrsSuffice'
  <2>1. Cardinality(Kids') = Cardinality(Kids) + 1
    BY <1>12, ProcTypes, FS_AddElement
  <2> QED
    BY <2>1, <1>3, ProcTypes DEF ProcInv, PtrsSuffice
<1>23. Sleepers' = Sleepers
  <2>1. \A b \in Allocated : b \in Blocks \ {n}
    BY <1>2, ProcTypes
  <2> QED
    BY <2>1, <1>8, <1>10, <1>11 DEF Sleepers
<1>24. ProcInv'
  BY <1>13, <1>15, <1>16, <1>17, <1>18, <1>19, <1>21, <1>22 DEF ProcInv
<1> QED
  BY <1>2, <1>3, <1>10, <1>11, <1>14, <1>20, <1>23, <1>24 DEF n

\* A new init.
LEMMA RestartKeepsProcs ==
    ASSUME ProcInv, Restart
    PROVE  /\ ProcInv' /\ Sleepers' = Sleepers
           /\ NextPcb \in Blocks \ Allocated /\ Allocated' = Allocated \cup {NextPcb}
           /\ \A b \in Allocated : pcb'[b].pid = pcb[b].pid
           /\ pcb'[NextPcb].pid = last_pid
           /\ running' = NextPcb /\ ready_list' = ready_list
<1> DEFINE n == NextPcb
<1>1. /\ last_pid \in Pids /\ running = Null /\ last_pid <= MaxPid /\ free # <<>>
  BY ProcTypes DEF Restart, Pids
<1>2. /\ n \in Blocks /\ n \notin Allocated /\ Tail(free) \in Seq(Blocks) /\ n \in ToSet(free)
      /\ ToSet(Tail(free)) = ToSet(free) \ {n} /\ IsInjective(Tail(free))
  BY <1>1, NextPcbIsFree
<1>3. /\ pcb' = [pcb EXCEPT ![n] = NewPcb("Running", Null)] /\ ready_list' = ready_list
      /\ free' = Tail(free) /\ last_pid' = last_pid + 1
      /\ init_pcb' = n /\ running' = n
      /\ ptrs' = ptrs /\ ret' = ret /\ halt' = halt
  BY DEF Restart
<1> HIDE DEF n
<1>4. /\ pcb' \in [Blocks -> PcbType] /\ pcb'[n] = NewPcb("Running", Null)
      /\ \A b \in Blocks \ {n} : pcb'[b] = pcb[b]
  BY <1>1, <1>2, <1>3, NewPcbFields, ProcTypes
<1>5. /\ pcb'[n].pid = last_pid /\ pcb'[n].status = "Running" /\ pcb'[n].parent = Null
      /\ pcb'[n].children = <<>> /\ pcb'[n].awaits = NotInWait
  BY <1>1, <1>4, NewPcbFields
<1>6. Allocated' = Allocated \cup {n}
  BY <1>2, <1>3 DEF Allocated
<1>7. \A b \in Allocated : b \in Blocks \ {n} /\ pcb'[b] = pcb[b]
  BY <1>2, <1>4, ProcTypes
<1>8. Kids' = Kids /\ Kids \subseteq Allocated
  BY <1>5, <1>6, <1>7 DEF Kids
<1>9. ProcessesTypeOK'
  <2>1. last_pid' \in 0 .. MaxPid + 1
    BY <1>1, <1>3, ProcTypes DEF ProcInv, ProcessesTypeOK
  <2> QED
    BY <2>1, <1>2, <1>3, <1>4 DEF ProcInv, ProcessesTypeOK
<1>10. n \notin ToSet(ready_list)
  BY <1>2 DEF ProcInv, ReadyListed
<1>11. ReadyListed'
  <2>1. \A b \in Allocated : b # running
    BY <1>1, ProcTypes
  <2>2. \A b \in Allocated : pcb'[b].status = "Ready" <=> b \in ToSet(ready_list)
    BY <2>1, <1>7 DEF ProcInv, ReadyListed
  <2> QED
    BY <2>2, <1>3, <1>5, <1>6, <1>10 DEF ProcInv, ReadyListed
<1>12. FreeIsWhole'
  <2>1. \A b \in ToSet(free') : b \in ToSet(free) /\ b \in Blocks \ {n}
    BY <1>2, <1>3, ProcTypes
  <2> QED
    BY <2>1, <1>2, <1>3, <1>4 DEF ProcInv, FreeIsWhole
<1>13. FieldsFit'
  BY <1>4, <1>5 DEF ProcInv, FieldsFit
<1>14. Partition(Children, Allocated, Kids)'
  <2>1. Children'[n] = <<>> /\ \A p \in Allocated : Children'[p] = Children[p]
    BY <1>2, <1>5, <1>7 DEF Children
  <2>2. Partition(Children, Allocated, Kids)
    BY DEF ProcInv
  <2>3. Partition(Children', Allocated \cup {n}, Kids)
    BY <2>1, <2>2, <1>2, <1>8, ProcTypes, PartitionBegins
  <2> QED
    BY <2>3, <1>6, <1>8
<1>15. InitLives'
  BY <1>3, <1>5, <1>6 DEF InitLives
<1>16. PidsDistinct'
  BY <1>2, <1>3, <1>5, <1>6, <1>7, NewPidIsFresh
<1>17. PtrsSuffice'
  BY <1>3, <1>8 DEF ProcInv, PtrsSuffice
<1>18. Sleepers' = Sleepers
  BY <1>5, <1>6, <1>7 DEF Sleepers
<1>19. ProcInv'
  BY <1>9, <1>11, <1>12, <1>13, <1>14, <1>15, <1>16, <1>17 DEF ProcInv
<1> QED
  BY <1>2, <1>3, <1>5, <1>6, <1>7, <1>18, <1>19 DEF n

\* The PCBs are p, and the head of the ready list runs if there is one.
Popped(p) ==
    /\ pcb' \in [Blocks -> PcbType]
    /\ \A b \in Blocks :
          /\ pcb'[b].pid = p[b].pid /\ pcb'[b].parent = p[b].parent
          /\ pcb'[b].children = p[b].children /\ pcb'[b].awaits = p[b].awaits
          /\ pcb'[b].status = IF b = running' THEN "Running" ELSE p[b].status
    /\ \A b \in Blocks \ Allocated : pcb'[b] = p[b]
    /\ running' \in (Allocated \ {running}) \cup {Null}
    /\ running' # Null => pcb[running'].status = "Ready"
    /\ ready_list' \in Seq(Blocks)
    /\ ReadyListed'

\* The caller, who is not ready any more, leaves the CPU.
LEMMA PopReadyPops ==
    ASSUME ProcInv, InUserCode, NEW p \in [Blocks -> PcbType],
           p[running].status \in {"Waiting", "Zombie"},
           \A b \in Blocks \ {running} : p[b].status = pcb[b].status,
           PopReady(p), free' = free
    PROVE  Popped(p)
<1> DEFINE h == Head(ready_list)
<1>1. /\ running \in Allocated /\ running \in Blocks /\ running # Null
      /\ running \notin ToSet(ready_list) /\ ToSet(ready_list) \subseteq Allocated
      /\ IsInjective(ready_list) /\ ready_list \in Seq(Blocks)
      /\ \A b \in Allocated \ {running} : pcb[b].status = "Ready" <=> b \in ToSet(ready_list)
      /\ Allocated' = Allocated
  BY ProcTypes DEF ProcInv, ReadyListed, InUserCode, Allocated
<1>2. CASE ready_list = <<>>
  <2>1. pcb' = p /\ running' = Null /\ ready_list' = ready_list /\ ToSet(ready_list) = {}
    BY <1>2, SeqEmpty DEF PopReady
  <2>2. \A b \in Allocated : b \in Blocks /\ b # Null
    BY ProcTypes
  <2>3. \A b \in Allocated : pcb'[b].status # "Ready"
    BY <2>1, <2>2, <1>1
  <2>4. ReadyListed'
    BY <2>1, <2>3, <1>1 DEF ReadyListed
  <2> QED
    BY <2>1, <2>4, <1>1, ProcTypes DEF Popped
<1>3. CASE ready_list # <<>>
  <2>1. /\ pcb' = [p EXCEPT ![h].status = "Running"] /\ running' = h
        /\ ready_list' = Tail(ready_list)
    BY <1>3 DEF PopReady
  <2>2. /\ h \in ToSet(ready_list) /\ Tail(ready_list) \in Seq(Blocks)
        /\ ToSet(Tail(ready_list)) = ToSet(ready_list) \ {h}
        /\ IsInjective(Tail(ready_list))
    BY <1>1, <1>3, SeqTail
  <2> HIDE DEF h
  <2>3. h \in Allocated /\ h \in Blocks /\ h # running /\ h # Null /\ pcb[h].status = "Ready"
    BY <2>2, <1>1, ProcTypes
  <2>4. pcb' \in [Blocks -> PcbType] /\ StatusIs(pcb', p, h, "Running")
    BY <2>1, <2>3, SetStatus
  <2>5. \A b \in Allocated \ {h} : pcb'[b].status = "Ready" <=> b \in ToSet(ready_list')
    <3> SUFFICES ASSUME NEW b \in Allocated \ {h}
                 PROVE  pcb'[b].status = "Ready" <=> b \in ToSet(ready_list')
      OBVIOUS
    <3>1. b \in Blocks /\ pcb'[b].status = p[b].status
      BY <2>4, ProcTypes DEF StatusIs
    <3>2. CASE b = running
      BY <3>1, <3>2, <2>1, <2>2, <1>1
    <3>3. CASE b # running
      BY <3>1, <3>3, <2>1, <2>2, <1>1
    <3> QED
      BY <3>2, <3>3
  <2>6. pcb'[h].status = "Running"
    BY <2>3, <2>4 DEF StatusIs
  <2>7. ReadyListed'
    <3>1. running' \notin ToSet(ready_list') /\ ToSet(ready_list') \subseteq Allocated
      BY <2>1, <2>2, <1>1
    <3> QED
      BY <3>1, <2>1, <2>2, <2>3, <2>5, <2>6, <1>1 DEF ReadyListed
  <2>8. \A b \in Blocks \ Allocated : pcb'[b] = p[b]
    BY <2>3, <2>4 DEF StatusIs
  <2>9. \A b \in Blocks :
          /\ pcb'[b].pid = p[b].pid /\ pcb'[b].parent = p[b].parent
          /\ pcb'[b].children = p[b].children /\ pcb'[b].awaits = p[b].awaits
          /\ pcb'[b].status = IF b = running' THEN "Running" ELSE p[b].status
    BY <2>1, <2>4 DEF StatusIs
  <2> QED
    BY <2>1, <2>2, <2>3, <2>4, <2>7, <2>8, <2>9 DEF Popped
<1> QED
  BY <1>2, <1>3

\* A wait that blocks.
LEMMA WaitBlocksKeepsProcs ==
    ASSUME ProcInv, NEW pid \in WaitArgs, WaitBlocks(pid)
    PROVE  /\ ProcInv' /\ Allocated' = Allocated /\ Sleepers' = Sleepers
           /\ \A b \in Allocated : pcb'[b].pid = pcb[b].pid
<1> DEFINE p == [pcb EXCEPT ![running].status = "Waiting", ![running].awaits = pid]
<1>1. /\ running \in Allocated /\ running \in Blocks /\ running # Null /\ InUserCode
      /\ pcb[running].status \in {"Running", "Ready"}
      /\ pcb \in [Blocks -> PcbType]
      /\ PopReady(p)
      /\ UNCHANGED <<free, ptrs, last_pid, init_pcb, ret, halt>>
  BY ProcTypes DEF WaitBlocks, Parked, ProcInv, ReadyListed, InUserCode
<1>2. \A b \in Blocks \ {running} : p[b] = pcb[b]
  BY <1>1
<1>3. p[running] = [pcb[running] EXCEPT !.status = "Waiting", !.awaits = pid]
  BY <1>1
<1>4. /\ p[running] \in PcbType
      /\ p[running].pid = pcb[running].pid /\ p[running].parent = pcb[running].parent
      /\ p[running].children = pcb[running].children
      /\ p[running].status = "Waiting" /\ p[running].awaits = pid
  <2>1. pcb[running] \in PcbType
    BY <1>1
  <2> HIDE DEF p
  <2> QED
    BY <2>1, <1>3 DEF PcbType
<1>5. p \in [Blocks -> PcbType]
  BY <1>1, <1>2, <1>4
<1> HIDE DEF p
<1>6. Popped(p)
  BY <1>1, <1>2, <1>4, <1>5, PopReadyPops
<1>7. /\ \A b \in Blocks : /\ pcb'[b].pid = pcb[b].pid /\ pcb'[b].parent = pcb[b].parent
                           /\ pcb'[b].children = pcb[b].children
      /\ \A b \in Blocks \ Allocated : pcb'[b] = pcb[b]
      /\ running' \in Allocated \cup {Null} /\ running' # running
      /\ running' # Null => pcb[running'].status = "Ready"
  <2>1. \A b \in Blocks : /\ p[b].pid = pcb[b].pid /\ p[b].parent = pcb[b].parent
                          /\ p[b].children = pcb[b].children
    BY <1>2, <1>4
  <2> QED
    BY <2>1, <1>1, <1>2, <1>6 DEF Popped
<1>8. \A b \in Blocks \ {running} : /\ pcb'[b].awaits = pcb[b].awaits
                                    /\ pcb'[b].status = IF b = running' THEN "Running" ELSE pcb[b].status
  BY <1>2, <1>6 DEF Popped
<1>9. pcb'[running].status = "Waiting" /\ pcb'[running].awaits = pid
  BY <1>1, <1>4, <1>6, <1>7 DEF Popped
<1>10. FieldsFit'
  <2>1. running' \in Blocks => pcb[running'].status = "Ready"
    BY <1>7, ProcTypes
  <2> QED
    BY <2>1, <1>7, <1>8, <1>9 DEF ProcInv, FieldsFit
<1>11. ProcInv' /\ Allocated' = Allocated
  <2>1. /\ pcb' \in [Blocks -> PcbType] /\ ready_list' \in Seq(Blocks) /\ ReadyListed'
        /\ running' \in Blocks \cup {Null}
    BY <1>6, ProcTypes DEF Popped
  <2>2. ret' \in [Blocks -> Int] /\ halt' \in Halts
    BY <1>1 DEF ProcInv, ProcessesTypeOK
  <2>3. pcb'[init_pcb].status # "Zombie"
    BY <1>8, <1>9, ProcTypes DEF ProcInv, InitLives
  <2> QED
    BY <2>1, <2>2, <2>3, <1>1, <1>7, <1>10, MovesKeepProcs
<1>12. Sleepers' = Sleepers
  <2>1. pid # NotInWait
    BY ProcTypes
  <2>2. running \notin Sleepers /\ running \notin Sleepers'
    BY <2>1, <1>1, <1>9 DEF Sleepers
  <2>3. \A b \in Allocated \ {running} : b \in Sleepers' <=> b \in Sleepers
    <3> SUFFICES ASSUME NEW b \in Allocated \ {running} PROVE b \in Sleepers' <=> b \in Sleepers
      OBVIOUS
    <3>1. b \in Blocks \ {running}
      BY ProcTypes
    <3>2. b = running' => pcb[b].status = "Ready"
      BY <3>1, <1>7, ProcTypes
    <3> QED
      BY <3>1, <3>2, <1>8, <1>11 DEF Sleepers
  <2> QED
    BY <2>2, <2>3, <1>11 DEF Sleepers
<1> QED
  BY <1>7, <1>11, <1>12, ProcTypes

\* A block that goes back to the pool, and with it its process, z.
LEMMA PidsStayDistinct ==
    ASSUME ProcInv, Allocated' \subseteq Allocated, last_pid' = last_pid,
           \A b \in Allocated' : pcb'[b].pid = pcb[b].pid
    PROVE  PidsDistinct'
BY DEF ProcInv, PidsDistinct

\* The block of a process that is gone is the first on the free list.
LEMMA FreeGrows ==
    ASSUME ProcInv, NEW z \in Allocated, free' = <<z>> \o free, pcb'[z] = FreePcb,
           \A b \in Blocks \ Allocated : pcb'[b] = pcb[b]
    PROVE  /\ free' \in Seq(Blocks) /\ Allocated' = Allocated \ {z}
           /\ FreeIsWhole'
<1>1. z \in Blocks /\ z \notin ToSet(free) /\ free \in Seq(Blocks) /\ IsInjective(free)
      /\ ToSet(free) \subseteq Blocks
  BY ProcTypes DEF Allocated, ProcInv, FreeIsWhole
<1>2. <<z>> \in Seq(Blocks) /\ ToSet(<<z>>) = {z} /\ IsInjective(<<z>>)
  <2>1. <<z>> \in Seq(Blocks) /\ Len(<<z>>) = 1 /\ <<z>>[1] = z
    BY <1>1
  <2>2. DOMAIN <<z>> = 1 .. 1
    BY <2>1, LenProperties
  <2> QED
    BY <2>1, <2>2 DEF ToSet, IsInjective
<1>3. free' \in Seq(Blocks) /\ ToSet(free') = {z} \cup ToSet(free) /\ IsInjective(free')
  <2> DEFINE s == <<z>>
  <2>1. /\ s \in Seq(Blocks) /\ ToSet(s) = {z} /\ IsInjective(s) /\ free' = s \o free
        /\ ToSet(s) \cap ToSet(free) = {}
    BY <1>1, <1>2
  <2> HIDE DEF s
  <2> QED
    BY <2>1, <1>1, SeqConcat, SMTT(30)
<1>4. Allocated' = Allocated \ {z}
  BY <1>3 DEF Allocated
<1>5. \A b \in ToSet(free) : b \in Blocks \ Allocated /\ pcb[b] = FreePcb
  BY <1>1 DEF Allocated, ProcInv, FreeIsWhole
<1> QED
  BY <1>3, <1>4, <1>5 DEF FreeIsWhole

\* A wait that finds a dead child.
LEMMA WaitReapsKeepsProcs ==
    ASSUME ProcInv, NEW pid \in WaitArgs, WaitReaps(pid)
    PROVE  /\ ProcInv' /\ Allocated' \subseteq Allocated /\ Sleepers' = Sleepers
           /\ \A b \in Allocated' : pcb'[b].pid = pcb[b].pid
<1> DEFINE i == Min(DeadChildren(running, pid))
           z == pcb[running].children[i]
           l == RemoveAt(pcb[running].children, i)
           p1 == [pcb EXCEPT ![running].children = l]
<1>1. /\ running \in Allocated /\ running \in Blocks
      /\ pcb[running].status \in {"Running", "Ready"}
      /\ pcb \in [Blocks -> PcbType] /\ pcb[running].children \in Seq(Blocks)
      /\ IsInjective(pcb[running].children)
      /\ ToSet(pcb[running].children) \subseteq Kids
      /\ DeadChildren(running, pid) # {}
  <2>1. running \in Allocated /\ running \in Blocks /\ pcb[running].status \in {"Running", "Ready"}
        /\ pcb \in [Blocks -> PcbType] /\ DeadChildren(running, pid) # {}
    BY ProcTypes DEF WaitReaps, ProcInv, ReadyListed, InUserCode
  <2>2. Children[running] = pcb[running].children
    BY <2>1 DEF Children
  <2>3. /\ Children[running] \in Seq(Blocks) /\ IsInjective(Children[running])
        /\ ToSet(Children[running]) \subseteq Kids
    BY <2>1 DEF ProcInv, Partition
  <2> QED
    BY <2>1, <2>2, <2>3
<1>2. i \in DOMAIN pcb[running].children /\ pcb[z].status = "Zombie"
  <2>1. DOMAIN pcb[running].children = 1 .. Len(pcb[running].children)
        /\ Len(pcb[running].children) \in Nat
    BY <1>1, LenProperties
  <2>2. DeadChildren(running, pid) \in SUBSET Nat
    BY <2>1 DEF DeadChildren
  <2>3. i \in DeadChildren(running, pid)
    BY <2>2, <1>1, LeastNatural
  <2> HIDE DEF i
  <2> QED
    BY <2>3 DEF DeadChildren
<1>3. /\ pcb' = [pcb EXCEPT ![running].children = RemoveAt(@, i), ![z] = FreePcb]
      /\ free' = <<z>> \o free /\ ptrs' = ptrs + 1
      /\ ret' = [ret EXCEPT ![running] = pcb[z].pid]
      /\ UNCHANGED <<last_pid, init_pcb, running, ready_list, halt>>
  BY DEF WaitReaps
<1> HIDE DEF i
<1>4. z \in Kids /\ z \in Allocated /\ z \in Blocks /\ z # running
  BY <1>1, <1>2, ProcTypes DEF ToSet, Kids
<1> HIDE DEF z
<1>5. l \in Seq(Blocks)
  BY <1>1, <1>2, SeqRemoveAt
<1>6. pcb' = [p1 EXCEPT ![z] = FreePcb]
  <2>1. [pcb EXCEPT ![running].children = RemoveAt(@, i), ![z] = FreePcb]
        = [[pcb EXCEPT ![running].children = l] EXCEPT ![z] = FreePcb]
    BY <1>1, <1>4
  <2> QED
    BY <2>1, <1>3
<1> HIDE DEF l
<1>7. p1 \in [Blocks -> PcbType] /\ ChildrenAre(p1, pcb, running, l)
  BY <1>1, <1>5, SetChildren
<1> HIDE DEF p1
<1>8. /\ pcb' \in [Blocks -> PcbType] /\ pcb'[z] = FreePcb
      /\ \A b \in Blocks \ {z} : pcb'[b] = p1[b]
  BY <1>4, <1>6, <1>7, FreePcbFields, ProcessesAssumption
<1>9. /\ \A b \in Blocks \ {z} : /\ pcb'[b].pid = pcb[b].pid /\ pcb'[b].status = pcb[b].status
                                 /\ pcb'[b].parent = pcb[b].parent
                                 /\ pcb'[b].awaits = pcb[b].awaits
      /\ \A b \in Blocks \ {z, running} : pcb'[b] = pcb[b]
      /\ pcb'[running].children = l
  BY <1>1, <1>4, <1>7, <1>8 DEF ChildrenAre
<1>10. /\ pcb'[z].status = "Zombie" /\ pcb'[z].children = <<>> /\ pcb'[z].awaits = NotInWait
  BY <1>8, FreePcbFields, ProcessesAssumption
<1>11. /\ free' \in Seq(Blocks) /\ Allocated' = Allocated \ {z} /\ FreeIsWhole'
  <2>1. \A b \in Blocks \ Allocated : b \in Blocks \ {z, running}
    BY <1>1, <1>4
  <2>2. \A b \in Blocks \ Allocated : pcb'[b] = pcb[b]
    BY <2>1, <1>9
  <2> QED
    BY <2>2, <1>3, <1>4, <1>8, FreeGrows
<1>12. Kids' = Kids \ {z}
  <2>1. \A b \in Allocated \ {z} : b \in Blocks \ {z}
    BY ProcTypes
  <2> QED
    BY <2>1, <1>9, <1>11 DEF Kids
<1>13. PtrsSuffice' /\ ptrs' \in 0 .. MaxProcs
  <2>1. Cardinality(Kids') = Cardinality(Kids) - 1
    BY <1>4, <1>12, ProcTypes, FS_RemoveElement
  <2>2. Cardinality(Kids) > 0
    BY <1>4, ProcTypes, FS_EmptySet
  <2>3. ptrs + Cardinality(Kids) <= MaxProcs /\ ptrs' = ptrs + 1
    BY <1>3 DEF ProcInv, PtrsSuffice
  <2> QED
    BY <2>1, <2>2, <2>3, ProcTypes DEF PtrsSuffice
<1>14. ProcessesTypeOK'
  <2>1. ret' \in [Blocks -> Int]
    <3>1. pcb[z].pid \in Int
      BY <1>1, <1>4 DEF PcbType, Pids
    <3> QED
      BY <3>1, <1>1, <1>3 DEF ProcInv, ProcessesTypeOK
  <2> QED
    BY <2>1, <1>3, <1>8, <1>11, <1>13 DEF ProcInv, ProcessesTypeOK
<1>15. z \notin ToSet(ready_list)
  BY <1>2, <1>4 DEF ProcInv, ReadyListed
<1>16. ReadyListed'
  <2>1. \A b \in Allocated \ {z} : pcb'[b].status = pcb[b].status
    BY <1>9, ProcTypes
  <2> QED
    BY <2>1, <1>1, <1>3, <1>4, <1>11, <1>15 DEF ProcInv, ReadyListed
<1>17. FieldsFit'
  <2>1. ASSUME NEW b \in Blocks \ {z}
        PROVE  /\ pcb'[b].status # "Waiting" => pcb'[b].awaits = NotInWait
               /\ pcb'[b].status = "Zombie" => pcb'[b].children = <<>>
    BY <1>1, <1>9 DEF ProcInv, FieldsFit
  <2> QED
    BY <2>1, <1>10 DEF FieldsFit
<1>18. Partition(Children, Allocated, Kids)'
  <2>1. /\ Children'[running] = RemoveAt(Children[running], i)
        /\ \A p \in Allocated \ {running, z} : Children'[p] = Children[p]
        /\ i \in DOMAIN Children[running] /\ z = Children[running][i]
        /\ Children[z] = <<>>
    <3>1. \A p \in Allocated \ {running, z} : p \in Blocks \ {running, z}
      BY ProcTypes
    <3>2. pcb[z].children = <<>>
      BY <1>2, <1>4 DEF ProcInv, FieldsFit
    <3>3. Children[running] = pcb[running].children /\ Children[z] = <<>>
      BY <3>2, <1>1, <1>4 DEF Children
    <3>4. \A p \in Allocated \ {running, z} : Children'[p] = Children[p]
      BY <3>1, <1>9 DEF Children
    <3>5. Children'[running] = l
      BY <1>1, <1>9 DEF Children
    <3> QED
      BY <3>3, <3>4, <3>5, <1>2 DEF l, z
  <2>2. Partition(Children, Allocated, Kids) /\ Kids \in SUBSET Allocated
    BY DEF ProcInv, Kids
  <2>3. Partition(Children', Allocated \ {z}, Kids \ {z})
    <3> DEFINE c == Children
               d == Children'
    <3>1. Allocated \in SUBSET Blocks
      BY ProcTypes
    <3>2. Leaves(d, c, Allocated, running, i, z) /\ Partition(c, Allocated, Kids)
      BY <2>1, <2>2, <1>1 DEF Leaves
    <3> HIDE DEF c, d
    <3>3. Partition(d, Allocated \ {z}, Kids \ {z})
      BY <3>1, <3>2, <2>2, PartitionShrinks
    <3> QED
      BY <3>3 DEF d
  <2> QED
    BY <2>3, <1>11, <1>12
<1>19. InitLives'
  <2>1. init_pcb # z /\ init_pcb \in Allocated /\ init_pcb \in Blocks
    BY <1>4, ProcTypes DEF ProcInv, InitLives, Kids
  <2> QED
    BY <2>1, <1>3, <1>9, <1>11 DEF ProcInv, InitLives
<1>20. \A b \in Allocated' : pcb'[b].pid = pcb[b].pid
  BY <1>9, <1>11, ProcTypes
<1>21. PidsDistinct'
  BY <1>3, <1>11, <1>20, PidsStayDistinct
<1>22. Sleepers' = Sleepers
  <2>1. \A b \in Allocated \ {z} : b \in Blocks \ {z}
    BY ProcTypes
  <2> QED
    BY <2>1, <1>2, <1>9, <1>11 DEF Sleepers
<1>23. ProcInv'
  BY <1>11, <1>13, <1>14, <1>16, <1>17, <1>18, <1>19, <1>21 DEF ProcInv
<1> QED
  BY <1>11, <1>20, <1>22, <1>23

\* What an exit does first: the children of the caller are those of init, and it has none.
LEMMA OrphanedHandsOn ==
    ASSUME ProcInv, CanExit
    PROVE  /\ Orphaned \in [Blocks -> PcbType]
           /\ \A b \in Blocks : /\ Orphaned[b].pid = pcb[b].pid
                                /\ Orphaned[b].parent = pcb[b].parent
                                /\ Orphaned[b].status = pcb[b].status
                                /\ Orphaned[b].awaits = pcb[b].awaits
           /\ \A b \in Blocks \ {running, init_pcb} : Orphaned[b] = pcb[b]
           /\ Orphaned[running].children = <<>>
           /\ \A b \in Blocks \ {running} : ToSet(pcb[b].children) \subseteq ToSet(Orphaned[b].children)
           /\ Partition([b \in Blocks |-> Orphaned[b].children], Allocated, Kids)
<1> DEFINE l == pcb[init_pcb].children \o pcb[running].children
           p1 == [pcb EXCEPT ![init_pcb].children = l]
           p2 == [p1 EXCEPT ![running].children = <<>>]
           d == [b \in Blocks |-> Orphaned[b].children]
<1>1. /\ running \in Allocated /\ running \in Blocks
      /\ init_pcb \in Allocated /\ init_pcb \in Blocks
      /\ pcb \in [Blocks -> PcbType]
      /\ running = init_pcb => pcb[running].children = <<>>
      /\ <<>> \in Seq(Blocks)
  BY ProcTypes DEF CanExit, ProcInv, ReadyListed, InUserCode, InitLives
<1>2. l \in Seq(Blocks)
  <2>1. pcb[init_pcb].children \in Seq(Blocks) /\ pcb[running].children \in Seq(Blocks)
    BY <1>1 DEF PcbType
  <2> QED
    BY <2>1, SeqConcat
<1>3. Orphaned = p2
  <2>1. Orphaned = [pcb EXCEPT ![init_pcb].children = @ \o pcb[running].children,
                               ![running].children = <<>>]
    BY DEF Orphaned
  <2>2. [pcb EXCEPT ![init_pcb].children = @ \o pcb[running].children,
                    ![running].children = <<>>]
        = [[pcb EXCEPT ![init_pcb].children = pcb[init_pcb].children \o pcb[running].children]
             EXCEPT ![running].children = <<>>]
    BY <1>1
  <2> QED
    BY <2>1, <2>2
<1> HIDE DEF l
<1>4. p1 \in [Blocks -> PcbType] /\ ChildrenAre(p1, pcb, init_pcb, l)
  BY <1>1, <1>2, SetChildren
<1> HIDE DEF p1
<1>5. p2 \in [Blocks -> PcbType] /\ ChildrenAre(p2, p1, running, <<>>)
  BY <1>1, <1>4, SetChildren
<1> HIDE DEF p2
<1>6. /\ Orphaned \in [Blocks -> PcbType]
      /\ \A b \in Blocks : /\ Orphaned[b].pid = pcb[b].pid
                           /\ Orphaned[b].parent = pcb[b].parent
                           /\ Orphaned[b].status = pcb[b].status
                           /\ Orphaned[b].awaits = pcb[b].awaits
  BY <1>3, <1>4, <1>5 DEF ChildrenAre
<1>7. /\ \A b \in Blocks \ {running, init_pcb} : Orphaned[b] = pcb[b]
      /\ Orphaned[running].children = <<>>
      /\ running # init_pcb => Orphaned[init_pcb].children = l
  BY <1>1, <1>3, <1>4, <1>5 DEF ChildrenAre
<1>9. \A b \in Blocks \ {running} : ToSet(pcb[b].children) \subseteq ToSet(Orphaned[b].children)
  <2>1. ToSet(pcb[init_pcb].children) \subseteq ToSet(l)
    <3>1. pcb[init_pcb].children \in Seq(Blocks) /\ pcb[running].children \in Seq(Blocks)
      BY <1>1 DEF PcbType
    <3> QED
      BY <3>1, SeqConcat DEF l
  <2> QED
    BY <2>1, <1>7
<1>8. Partition(d, Allocated, Kids)
  <2>1. /\ d[running] = <<>>
        /\ running # init_pcb => d[init_pcb] = Children[init_pcb] \o Children[running]
        /\ \A b \in Allocated \ {running, init_pcb} : d[b] = Children[b]
    BY <1>1, <1>7, ProcTypes DEF Children, l
  <2>2. Partition(Children, Allocated, Kids) /\ Kids \in SUBSET Allocated
        /\ Allocated \in SUBSET Blocks
    BY ProcTypes DEF ProcInv, Kids
  <2> HIDE DEF d
  <2>3. CASE running # init_pcb
    BY <2>1, <2>2, <2>3, <1>1, PartitionHandsOn
  <2>4. CASE running = init_pcb
    <3>1. Children[running] = <<>>
      BY <2>4, <1>1 DEF Children
    <3>2. \A b \in Allocated : d[b] = Children[b]
      BY <3>1, <2>1, <2>4
    <3> QED
      BY <3>2, <2>2 DEF Partition
  <2> QED
    BY <2>3, <2>4
<1> QED
  BY <1>6, <1>7, <1>8, <1>9

\* An exit that leaves a zombie.
LEMMA ExitToNextKeepsProcs ==
    ASSUME ProcInv, ExitToNext
    PROVE  /\ ProcInv' /\ Allocated' = Allocated /\ Sleepers' = Sleepers
           /\ \A b \in Allocated : pcb'[b].pid = pcb[b].pid
<1> DEFINE o == Orphaned
           p == [o EXCEPT ![running].status = "Zombie"]
<1>1. /\ running \in Allocated /\ running \in Blocks /\ running # Null
      /\ InUserCode /\ CanExit /\ pcb[running].parent # Null /\ running # init_pcb
      /\ pcb[running].status \in {"Running", "Ready"}
      /\ PopReady(p)
      /\ UNCHANGED <<free, ptrs, last_pid, init_pcb, ret, halt>>
  <2>1. /\ InUserCode /\ CanExit /\ pcb[running].parent # Null /\ PopReady(p)
        /\ UNCHANGED <<free, ptrs, last_pid, init_pcb, ret, halt>>
    BY DEF ExitToNext, CanExit, father
  <2>2. running # Null /\ running \in Allocated /\ pcb[running].status \in {"Running", "Ready"}
    BY <2>1 DEF InUserCode, ProcInv, ReadyListed
  <2>3. running # init_pcb
    BY <2>1 DEF ProcInv, InitLives
  <2> QED
    BY <2>1, <2>2, <2>3, ProcTypes
<1>2. /\ o \in [Blocks -> PcbType]
      /\ \A b \in Blocks : /\ o[b].pid = pcb[b].pid /\ o[b].parent = pcb[b].parent
                           /\ o[b].status = pcb[b].status /\ o[b].awaits = pcb[b].awaits
      /\ \A b \in Blocks \ {running, init_pcb} : o[b] = pcb[b]
      /\ o[running].children = <<>>
      /\ Partition([b \in Blocks |-> o[b].children], Allocated, Kids)
  BY <1>1, OrphanedHandsOn
<1> HIDE DEF o
<1>3. p \in [Blocks -> PcbType] /\ StatusIs(p, o, running, "Zombie")
  BY <1>1, <1>2, SetStatus
<1> HIDE DEF p
<1>4. Popped(p)
  <2>1. p[running].status = "Zombie" /\ \A b \in Blocks \ {running} : p[b].status = pcb[b].status
    BY <1>1, <1>2, <1>3 DEF StatusIs
  <2> QED
    BY <2>1, <1>1, <1>3, PopReadyPops
<1>5. /\ pcb' \in [Blocks -> PcbType]
      /\ \A b \in Blocks : /\ pcb'[b].pid = pcb[b].pid /\ pcb'[b].parent = pcb[b].parent
                           /\ pcb'[b].children = o[b].children
                           /\ pcb'[b].awaits = pcb[b].awaits
      /\ running' \in (Allocated \ {running}) \cup {Null}
      /\ running' # Null => pcb[running'].status = "Ready"
  BY <1>2, <1>3, <1>4 DEF Popped, StatusIs
<1>6. \A b \in Blocks : pcb'[b].status = IF b = running THEN "Zombie"
                                         ELSE IF b = running' THEN "Running" ELSE pcb[b].status
  BY <1>1, <1>2, <1>3, <1>4, <1>5 DEF Popped, StatusIs
<1>7. \A b \in Blocks \ Allocated : pcb'[b] = pcb[b]
  <2>1. \A b \in Blocks \ Allocated : b \in Blocks \ {running, init_pcb}
    BY <1>1 DEF ProcInv, InitLives
  <2>2. \A b \in Blocks \ Allocated : pcb'[b] = p[b] /\ p[b] = o[b]
    BY <2>1, <1>3, <1>4 DEF Popped, StatusIs
  <2> QED
    BY <2>1, <2>2, <1>2
<1>8. Allocated' = Allocated
  BY <1>1 DEF Allocated
<1>9. Kids' = Kids
  BY <1>5, <1>8, ProcTypes DEF Kids
<1>10. ProcessesTypeOK'
  <2>1. ready_list' \in Seq(Blocks) /\ running' \in Blocks \cup {Null}
    BY <1>4, ProcTypes DEF Popped
  <2> QED
    BY <2>1, <1>1, <1>5 DEF ProcInv, ProcessesTypeOK
<1>11. ReadyListed'
  BY <1>4 DEF Popped
<1>12. FreeIsWhole'
  <2>1. \A b \in ToSet(free) : b \in Blocks \ Allocated
    BY ProcTypes DEF Allocated
  <2> QED
    BY <2>1, <1>1, <1>7 DEF ProcInv, FreeIsWhole
<1>13. FieldsFit'
  <2> SUFFICES ASSUME NEW b \in Blocks
               PROVE  /\ pcb'[b].status # "Waiting" => pcb'[b].awaits = NotInWait
                      /\ pcb'[b].status = "Zombie" => pcb'[b].children = <<>>
    BY DEF FieldsFit
  <2>1. CASE b = running
    BY <2>1, <1>1, <1>2, <1>5, <1>6 DEF ProcInv, FieldsFit
  <2>2. CASE b # running /\ b = running'
    <3>1. pcb[b].status = "Ready"
      BY <2>2, <1>5, ProcTypes
    <3> QED
      BY <3>1, <2>2, <1>5, <1>6 DEF ProcInv, FieldsFit
  <2>3. CASE b # running /\ b # running'
    <3>1. pcb'[b].status = pcb[b].status /\ pcb'[b].awaits = pcb[b].awaits
      BY <2>3, <1>5, <1>6
    <3>2. pcb[b].status = "Zombie" => b # init_pcb
      BY DEF ProcInv, InitLives
    <3>3. pcb[b].status = "Zombie" => pcb'[b].children = pcb[b].children
      BY <3>2, <2>3, <1>2, <1>5
    <3> QED
      BY <3>1, <3>3 DEF ProcInv, FieldsFit
  <2> QED
    BY <2>1, <2>2, <2>3
<1>14. Partition(Children, Allocated, Kids)'
  <2>1. Children' = [b \in Blocks |-> o[b].children]
    BY <1>5 DEF Children
  <2> QED
    BY <2>1, <1>2, <1>8, <1>9
<1>15. InitLives'
  <2>1. init_pcb \in Blocks /\ init_pcb' = init_pcb /\ init_pcb \in Allocated
        /\ pcb[init_pcb].parent = Null /\ pcb[init_pcb].status # "Zombie"
    BY <1>1, ProcTypes DEF ProcInv, InitLives
  <2> QED
    BY <2>1, <1>1, <1>5, <1>6, <1>8 DEF InitLives
<1>16. \A b \in Allocated : pcb'[b].pid = pcb[b].pid
  BY <1>5, ProcTypes
<1>17. PidsDistinct'
  BY <1>1, <1>8, <1>16, PidsStayDistinct
<1>18. PtrsSuffice'
  BY <1>1, <1>9 DEF ProcInv, PtrsSuffice
<1>19. Sleepers' = Sleepers
  <2>1. \A b \in Allocated : pcb'[b].status = "Waiting" <=> pcb[b].status = "Waiting"
    <3> SUFFICES ASSUME NEW b \in Allocated
                 PROVE  pcb'[b].status = "Waiting" <=> pcb[b].status = "Waiting"
      OBVIOUS
    <3>1. b \in Blocks /\ b # Null
      BY ProcTypes
    <3> QED
      BY <3>1, <1>1, <1>5, <1>6
  <2> QED
    BY <2>1, <1>5, <1>8, ProcTypes DEF Sleepers
<1>20. ProcInv'
  BY <1>10, <1>11, <1>12, <1>13, <1>14, <1>15, <1>17, <1>18 DEF ProcInv
<1> QED
  BY <1>8, <1>16, <1>19, <1>20

\* The first place of an element of a sequence, which RemoveFirst takes out.
LEMMA RemoveFirstRemoves ==
    ASSUME NEW S, NEW s \in Seq(S), NEW e \in ToSet(s)
    PROVE  \E i \in DOMAIN s : s[i] = e /\ RemoveFirst(s, e) = RemoveAt(s, i)
<1> DEFINE at == {j \in 1 .. Len(s) : s[j] = e}
<1>1. DOMAIN s = 1 .. Len(s) /\ Len(s) \in Nat
  BY LenProperties
<1>2. \E j \in 1 .. Len(s) : s[j] = e
  BY <1>1 DEF ToSet
<1>3. RemoveFirst(s, e) = RemoveAt(s, Min(at))
  BY <1>2 DEF RemoveFirst, SelectInSeq
<1>4. at \in SUBSET Nat /\ at # {}
  BY <1>2
<1> HIDE DEF at
<1>5. Min(at) \in at
  BY <1>4, LeastNatural
<1>6. Min(at) \in DOMAIN s /\ s[Min(at)] = e
  BY <1>1, <1>5 DEF at
<1> QED
  BY <1>3, <1>6

\* An exit that ends the wait of the parent.
LEMMA ExitToParentKeepsProcs ==
    ASSUME ProcInv, ExitToParent
    PROVE  /\ ProcInv' /\ Sleepers' = Sleepers /\ running \notin Sleepers
           /\ running \in Allocated /\ Allocated' = Allocated \ {running}
           /\ \A b \in Allocated' : pcb'[b].pid = pcb[b].pid
           /\ running' \in Allocated' /\ ready_list' = ready_list
<1> DEFINE f == father
           o == Orphaned
           l == RemoveFirst(o[f].children, running)
           me == [o[f] EXCEPT !.status = "Running", !.awaits = NotInWait, !.children = l]
<1>1. /\ running \in Allocated /\ running \in Blocks /\ running # Null
      /\ InUserCode /\ CanExit /\ running # init_pcb
      /\ pcb[running].status \in {"Running", "Ready"}
      /\ f \in Blocks /\ f # running /\ f \in Allocated /\ pcb[f].status = "Waiting"
      /\ pcb[f].awaits \in {AnyChild, pcb[running].pid}
      /\ running \in ToSet(pcb[f].children) /\ running \in Kids
  <2>1. /\ InUserCode /\ CanExit /\ f # Null /\ FatherWaits
        /\ running \in ToSet(pcb[f].children)
    BY DEF ExitToParent, CanExit
  <2>2. /\ running # Null /\ running \in Allocated /\ running \in Blocks
        /\ pcb[running].status \in {"Running", "Ready"}
    BY <2>1, ProcTypes DEF InUserCode, ProcInv, ReadyListed
  <2>3. f = pcb[running].parent /\ f \in Blocks
    BY <2>1, <2>2, ProcTypes DEF father, PcbType
  <2>4. running # init_pcb /\ running \in Kids
    BY <2>1, <2>2, <2>3 DEF ProcInv, InitLives, Kids
  <2>5. pcb[f].status = "Waiting" /\ pcb[f].awaits \in {AnyChild, pcb[running].pid}
    BY <2>1 DEF FatherWaits
  <2>6. f \in Allocated
    BY <2>3, <2>5, FreeBlocks, FreePcbFields, ProcessesAssumption
  <2> QED
    BY <2>1, <2>2, <2>3, <2>4, <2>5, <2>6
<1>2. /\ pcb' = [o EXCEPT ![f].status = "Running", ![f].awaits = NotInWait,
                          ![f].children = RemoveFirst(@, running), ![running] = FreePcb]
      /\ ret' = [ret EXCEPT ![f] = pcb[running].pid]
      /\ free' = <<running>> \o free /\ running' = f
      /\ UNCHANGED <<ptrs, last_pid, init_pcb, ready_list, halt>>
  BY DEF ExitToParent
<1> HIDE DEF f
<1>3. /\ o \in [Blocks -> PcbType]
      /\ \A b \in Blocks : /\ o[b].pid = pcb[b].pid /\ o[b].parent = pcb[b].parent
                           /\ o[b].status = pcb[b].status /\ o[b].awaits = pcb[b].awaits
      /\ \A b \in Blocks \ {running, init_pcb} : o[b] = pcb[b]
      /\ o[running].children = <<>>
      /\ \A b \in Blocks \ {running} : ToSet(pcb[b].children) \subseteq ToSet(o[b].children)
      /\ Partition([b \in Blocks |-> o[b].children], Allocated, Kids)
  BY <1>1, OrphanedHandsOn
<1> HIDE DEF o
<1>4. PICK i \in DOMAIN o[f].children :
           o[f].children[i] = running /\ l = RemoveAt(o[f].children, i)
  <2>1. o[f].children \in Seq(Blocks) /\ running \in ToSet(o[f].children)
    BY <1>1, <1>3 DEF PcbType
  <2> QED
    BY <2>1, RemoveFirstRemoves
<1>5. l \in Seq(Blocks)
  <2>1. o[f].children \in Seq(Blocks) /\ IsInjective(o[f].children)
    <3>1. [b \in Blocks |-> o[b].children][f] = o[f].children
      BY <1>1
    <3> QED
      BY <3>1, <1>1, <1>3 DEF Partition
  <2> QED
    BY <2>1, <1>4, SeqRemoveAt
<1>6. pcb' = [o EXCEPT ![f] = me, ![running] = FreePcb]
  <2>1. f \in Blocks /\ running \in Blocks /\ f # running /\ o \in [Blocks -> PcbType]
    BY <1>1, <1>3
  <2>2. [o EXCEPT ![f].status = "Running", ![f].awaits = NotInWait,
                  ![f].children = RemoveFirst(@, running), ![running] = FreePcb]
        = [o EXCEPT ![f] = me, ![running] = FreePcb]
    BY ONLY <2>1
  <2> QED
    BY <1>2, <2>2
<1> HIDE DEF l
<1>7. /\ me \in PcbType /\ me.pid = o[f].pid /\ me.parent = o[f].parent
      /\ me.status = "Running" /\ me.awaits = NotInWait /\ me.children = l
  <2> DEFINE r == o[f]
  <2>1. r \in PcbType
    BY <1>1, <1>3
  <2> HIDE DEF r
  <2>2. LET m == [r EXCEPT !.status = "Running", !.awaits = NotInWait, !.children = l]
        IN /\ m \in PcbType /\ m.pid = r.pid /\ m.parent = r.parent
           /\ m.status = "Running" /\ m.awaits = NotInWait /\ m.children = l
    BY <2>1, <1>5 DEF PcbType
  <2> QED
    BY <2>2 DEF r
<1> HIDE DEF me
<1>8. /\ pcb' \in [Blocks -> PcbType] /\ pcb'[running] = FreePcb /\ pcb'[f] = me
      /\ \A b \in Blocks \ {running, f} : pcb'[b] = o[b]
  BY <1>1, <1>3, <1>6, <1>7, FreePcbFields, ProcessesAssumption
<1>9. /\ \A b \in Blocks \ {running} : pcb'[b].pid = pcb[b].pid /\ pcb'[b].parent = pcb[b].parent
      /\ \A b \in Blocks \ {running, f} : /\ pcb'[b].status = pcb[b].status
                                          /\ pcb'[b].awaits = pcb[b].awaits
                                          /\ pcb'[b].children = o[b].children
      /\ pcb'[f].status = "Running" /\ pcb'[f].awaits = NotInWait /\ pcb'[f].children = l
  BY <1>1, <1>3, <1>7, <1>8
<1>10. /\ pcb'[running].status = "Zombie" /\ pcb'[running].children = <<>>
       /\ pcb'[running].awaits = NotInWait
  BY <1>8, FreePcbFields, ProcessesAssumption
<1>11. /\ free' \in Seq(Blocks) /\ Allocated' = Allocated \ {running} /\ FreeIsWhole'
  <2>1. \A b \in Blocks \ Allocated : b \in Blocks \ {running, f, init_pcb}
    BY <1>1 DEF ProcInv, InitLives
  <2>2. \A b \in Blocks \ Allocated : pcb'[b] = pcb[b]
    BY <2>1, <1>3, <1>8
  <2> QED
    BY <2>2, <1>1, <1>2, <1>8, FreeGrows
<1>12. Kids' = Kids \ {running}
  <2>1. \A b \in Allocated \ {running} : b \in Blocks \ {running}
    BY ProcTypes
  <2> QED
    BY <2>1, <1>9, <1>11 DEF Kids
<1>13. PtrsSuffice'
  <2>1. Cardinality(Kids') = Cardinality(Kids) - 1
    BY <1>1, <1>12, ProcTypes, FS_RemoveElement
  <2> QED
    BY <2>1, <1>2, ProcTypes DEF ProcInv, PtrsSuffice
<1>14. ProcessesTypeOK'
  <2>1. ret' \in [Blocks -> Int]
    <3>1. pcb[running].pid \in Int
      BY <1>1, ProcTypes DEF PcbType, Pids
    <3> QED
      BY <3>1, <1>1, <1>2 DEF ProcInv, ProcessesTypeOK
  <2> QED
    BY <2>1, <1>1, <1>2, <1>8, <1>11 DEF ProcInv, ProcessesTypeOK
<1>15. f \notin ToSet(ready_list) /\ running \notin ToSet(ready_list)
  BY <1>1 DEF ProcInv, ReadyListed
<1>16. ReadyListed'
  <2>1. \A b \in Allocated \ {running, f} : pcb'[b].status = pcb[b].status
    BY <1>9, ProcTypes
  <2> QED
    BY <2>1, <1>1, <1>2, <1>9, <1>11, <1>15, ZenonT(30) DEF ProcInv, ReadyListed
<1>17. FieldsFit'
  <2>1. ASSUME NEW b \in Blocks \ {running, f}
        PROVE  /\ pcb'[b].status # "Waiting" => pcb'[b].awaits = NotInWait
               /\ pcb'[b].status = "Zombie" => pcb'[b].children = <<>>
    <3>1. pcb[b].status = "Zombie" => b # init_pcb
      BY DEF ProcInv, InitLives
    <3>2. pcb[b].status = "Zombie" => pcb'[b].children = pcb[b].children
      BY <3>1, <1>3, <1>9
    <3> QED
      BY <3>2, <1>9 DEF ProcInv, FieldsFit
  <2> QED
    BY <2>1, <1>9, <1>10 DEF FieldsFit
<1>18. Partition(Children, Allocated, Kids)'
  <2> DEFINE c == [b \in Blocks |-> o[b].children]
             d == Children'
  <2>1. d[f] = RemoveAt(c[f], i) /\ i \in DOMAIN c[f] /\ running = c[f][i] /\ c[running] = <<>>
    BY <1>1, <1>3, <1>4, <1>9 DEF Children
  <2>2. \A p \in Allocated \ {f, running} : d[p] = c[p]
    <3>1. \A p \in Allocated \ {f, running} : p \in Blocks \ {running, f}
      BY ProcTypes
    <3> QED
      BY <3>1, <1>9 DEF Children
  <2>3. Kids \in SUBSET Allocated /\ Allocated \in SUBSET Blocks /\ Partition(c, Allocated, Kids)
    BY <1>3, ProcTypes DEF Kids
  <2> HIDE DEF c, d
  <2>4. Leaves(d, c, Allocated, f, i, running)
    BY <2>1, <2>2, <1>1 DEF Leaves
  <2>5. Partition(d, Allocated \ {running}, Kids \ {running})
    BY <2>3, <2>4, PartitionShrinks
  <2> QED
    BY <2>5, <1>11, <1>12 DEF d
<1>19. InitLives'
  <2>1. init_pcb # running /\ init_pcb \in Allocated /\ init_pcb \in Blocks
    BY <1>1, ProcTypes DEF ProcInv, InitLives
  <2> QED
    BY <2>1, <1>2, <1>9, <1>11, ZenonT(30) DEF ProcInv, InitLives
<1>20. \A b \in Allocated' : pcb'[b].pid = pcb[b].pid
  BY <1>9, <1>11, ProcTypes
<1>21. PidsDistinct'
  BY <1>2, <1>11, <1>20, PidsStayDistinct
<1>22. Sleepers' = Sleepers /\ running \notin Sleepers
  <2>1. pcb[f].awaits # NotInWait
    <3>1. pcb[running].pid \in Nat
      BY <1>1, ProcTypes DEF ProcInv, PidsDistinct
    <3> QED
      BY <3>1, <1>1 DEF AnyChild, NotInWait
  <2>2. \A b \in Allocated \ {running, f} : b \in Blocks \ {running, f}
    BY ProcTypes
  <2> QED
    BY <2>1, <2>2, <1>1, <1>9, <1>11 DEF Sleepers
<1>23. ProcInv'
  BY <1>11, <1>13, <1>14, <1>16, <1>17, <1>18, <1>19, <1>21 DEF ProcInv
<1> QED
  BY <1>1, <1>2, <1>11, <1>20, <1>22, <1>23

\* The other steps take at most processes that are dead.
LEMMA OthersKeepProcs ==
    ASSUME ProcInv, OtherStep
    PROVE  /\ ProcInv' /\ Allocated' \subseteq Allocated /\ Sleepers' = Sleepers
           /\ \A b \in Allocated' : pcb'[b].pid = pcb[b].pid
<1>1. ASSUME NEW how \in Halts, Stop(how)
      PROVE  /\ ProcInv' /\ Allocated' \subseteq Allocated /\ Sleepers' = Sleepers
             /\ \A b \in Allocated' : pcb'[b].pid = pcb[b].pid
  BY <1>1, StopKeepsProcs
<1>2. CASE \/ SpawnFromEmptyPool \/ Fork \/ Shutdown \/ ExitAdoptsItself \/ ExitWithoutParent
           \/ ExitToStranger \/ ExitToNobody \/ RestartWithEmptyPool \/ InterruptOfNobody
  BY <1>1, <1>2 DEF SpawnFromEmptyPool, Fork, Shutdown, ExitAdoptsItself, ExitWithoutParent,
        ExitToStranger, ExitToNobody, RestartWithEmptyPool, InterruptOfNobody, Halts
<1>3. ASSUME NEW pid \in WaitArgs, Wait(pid)
      PROVE  /\ ProcInv' /\ Allocated' \subseteq Allocated /\ Sleepers' = Sleepers
             /\ \A b \in Allocated' : pcb'[b].pid = pcb[b].pid
  <2>1. CASE WaitWithoutChildren
    <3>1. /\ UNCHANGED <<pcb, free, ptrs, last_pid, init_pcb, running, ready_list, halt>>
          /\ ret' = [ret EXCEPT ![running] = EWAIT]
      BY <2>1 DEF WaitWithoutChildren
    <3>2. ret' \in [Blocks -> Int] /\ halt' \in Halts
      <4>1. EWAIT \in Int
        BY DEF EWAIT
      <4>2. ret \in [Blocks -> Int] /\ halt \in Halts
        BY DEF ProcInv, ProcessesTypeOK
      <4> QED
        BY <3>1, <4>1, <4>2
    <3> QED
      BY <3>1, <3>2, AnswersKeepProcs
  <2>2. CASE WaitReaps(pid)
    BY <2>2, WaitReapsKeepsProcs
  <2>3. CASE WaitBlocks(pid)
    BY <2>3, WaitBlocksKeepsProcs
  <2> QED
    BY <1>3, <2>1, <2>2, <2>3 DEF Wait
<1>4. CASE ExitToNext
  BY <1>4, ExitToNextKeepsProcs
<1> QED
  BY <1>2, <1>3, <1>4 DEF OtherStep

-----------------------------------------------------------------------------
(* The timers                                                              *)

\* The timers ts are in order, and they are those of the processes S.
Lined(ts, S) ==
    /\ ts \in Seq(TimerItem)
    /\ \A i, j \in DOMAIN ts : i < j => ts[i].pcb # ts[j].pcb /\ ts[i].at <= ts[j].at
    /\ {ts[i].pcb : i \in DOMAIN ts} = S

\* The property says of the timers that they are those of the sleepers, in order.
LEMMA LinedIsSleepersHaveTimers ==
    SleepersHaveTimers <=> time \in 0 .. MaxTime /\ Lined(timers, Sleepers)
BY DEF SleepersHaveTimers, TimersTypeOK, Lined, Sleepers

\* The same after a step.
LEMMA LinedIsSleepersHaveTimersThere ==
    SleepersHaveTimers' <=> time' \in 0 .. MaxTime /\ Lined(timers', Sleepers')
BY DEF SleepersHaveTimers, TimersTypeOK, Lined, Sleepers

\* What the list is made of.
LEMMA LinedTypes ==
    ASSUME NEW ts, NEW S, Lined(ts, S)
    PROVE  /\ ts \in Seq(TimerItem) /\ DOMAIN ts = 1 .. Len(ts) /\ Len(ts) \in Nat
           /\ \A i \in 1 .. Len(ts) : ts[i] \in TimerItem /\ ts[i].pcb \in S /\ ts[i].at \in Int
<1>1. /\ ts \in Seq(TimerItem) /\ DOMAIN ts = 1 .. Len(ts) /\ Len(ts) \in Nat
      /\ {ts[i].pcb : i \in DOMAIN ts} = S
  BY LenProperties DEF Lined
<1>2. \A i \in 1 .. Len(ts) : ts[i] \in TimerItem
  BY <1>1, ElementOfSeq
<1> QED
  BY <1>1, <1>2 DEF TimerItem

\* The timers before the first later one are those that have expired.
LEMMA FirstLaterSplits ==
    ASSUME NEW S, Lined(timers, S), NEW t \in Int
    PROVE  /\ FirstLater(t) \in 1 .. Len(timers) + 1
           /\ \A i \in 1 .. Len(timers) : timers[i].at <= t <=> i < FirstLater(t)
<1> DEFINE later == {i \in DOMAIN timers : timers[i].at > t} \cup {Len(timers) + 1}
           k == Min(later)
<1>1. /\ DOMAIN timers = 1 .. Len(timers) /\ Len(timers) \in Nat
      /\ \A i \in 1 .. Len(timers) : timers[i].at \in Int
  BY LinedTypes
<1>2. later \in SUBSET Nat /\ later # {}
  BY <1>1
<1>3. k \in later /\ \A i \in later : k <= i
  BY <1>2, LeastNatural
<1>4. FirstLater(t) = k
  BY DEF FirstLater
<1> HIDE DEF k
<1>5. k \in 1 .. Len(timers) + 1
  BY <1>1, <1>3
<1>6. ASSUME NEW i \in 1 .. Len(timers), i < k
      PROVE  timers[i].at <= t
  <2>1. i \notin later
    BY <1>1, <1>3, <1>5, <1>6
  <2> QED
    BY <2>1, <1>1
<1>7. ASSUME NEW i \in 1 .. Len(timers), ~(i < k)
      PROVE  timers[i].at > t
  <2>1. k \in 1 .. Len(timers) /\ timers[k].at > t
    BY <1>1, <1>3, <1>5, <1>7
  <2>2. timers[k].at <= timers[i].at
    <3>1. k = i \/ k < i
      BY <1>5, <1>7
    <3> QED
      BY <3>1, <2>1, <1>1 DEF Lined
  <2> QED
    BY <2>1, <2>2, <1>1
<1> QED
  BY <1>1, <1>4, <1>5, <1>6, <1>7

\* The scheduler takes the expired timers from the list, and their processes wake.
LEMMA ExpiredWake ==
    ASSUME NEW S \in SUBSET Blocks, Lined(timers, S), NEW now \in Int, RemoveExpired(now)
    PROVE  /\ Woken(now) \in Seq(Blocks) /\ IsInjective(Woken(now)) /\ ToSet(Woken(now)) \subseteq S
           /\ Lined(timers', S \ ToSet(Woken(now)))
<1> DEFINE k == FirstLater(now)
           w == Woken(now)
           ts == timers'
<1>1. /\ timers \in Seq(TimerItem) /\ DOMAIN timers = 1 .. Len(timers) /\ Len(timers) \in Nat
      /\ \A i \in 1 .. Len(timers) : timers[i] \in TimerItem /\ timers[i].pcb \in S
      /\ k \in 1 .. Len(timers) + 1
  BY LinedTypes, FirstLaterSplits
<1>2. /\ \A i, j \in DOMAIN timers : i < j => timers[i].pcb # timers[j].pcb
                                             /\ timers[i].at <= timers[j].at
      /\ {timers[i].pcb : i \in DOMAIN timers} = S
  BY DEF Lined
<1>3. w = [i \in 1 .. k - 1 |-> timers[i].pcb]
  BY DEF Woken
<1>4. ts = SubSeq(timers, k, Len(timers))
  BY DEF RemoveExpired
<1> HIDE DEF k, w, ts
<1>5. w \in Seq(Blocks)
  <2>1. w \in [1 .. k - 1 -> Blocks] /\ k - 1 \in Nat
    BY <1>1, <1>3
  <2> QED
    BY <2>1, SeqDef
<1>6. IsInjective(w)
  <2> SUFFICES ASSUME NEW i \in DOMAIN w, NEW j \in DOMAIN w, w[i] = w[j], i # j
               PROVE  FALSE
    BY DEF IsInjective
  <2>1. i \in DOMAIN timers /\ j \in DOMAIN timers /\ i \in Int /\ j \in Int
        /\ timers[i].pcb = timers[j].pcb
    BY <1>1, <1>3
  <2>2. i < j \/ j < i
    BY <2>1
  <2> QED
    BY <2>1, <2>2, <1>2
<1>7. ToSet(w) = {timers[i].pcb : i \in 1 .. k - 1}
  BY <1>3 DEF ToSet
<1>8. ToSet(w) \subseteq S
  BY <1>1, <1>7
<1>9. /\ ts \in Seq(TimerItem) /\ Len(ts) = Len(timers) - k + 1
      /\ \A i \in 1 .. Len(timers) - k + 1 : ts[i] = timers[k + i - 1]
  BY <1>1, <1>4, SubSeqProperties
<1>10. DOMAIN ts = 1 .. Len(timers) - k + 1
  BY <1>9, LenProperties
<1>11. \A i, j \in DOMAIN ts : i < j => ts[i].pcb # ts[j].pcb /\ ts[i].at <= ts[j].at
  <2> SUFFICES ASSUME NEW i \in DOMAIN ts, NEW j \in DOMAIN ts, i < j
               PROVE  ts[i].pcb # ts[j].pcb /\ ts[i].at <= ts[j].at
    OBVIOUS
  <2>1. k + i - 1 \in DOMAIN timers /\ k + j - 1 \in DOMAIN timers /\ k + i - 1 < k + j - 1
    BY <1>1, <1>10
  <2>2. ts[i] = timers[k + i - 1] /\ ts[j] = timers[k + j - 1]
    BY <1>9, <1>10
  <2> QED
    BY <2>1, <2>2, <1>2
<1>12. {ts[i].pcb : i \in DOMAIN ts} = S \ ToSet(w)
  <2>1. ASSUME NEW i \in DOMAIN ts
        PROVE  ts[i].pcb \in S \ ToSet(w)
    <3>1. /\ k + i - 1 \in DOMAIN timers /\ ts[i] = timers[k + i - 1]
          /\ \A j \in 1 .. k - 1 : j \in DOMAIN timers /\ j < k + i - 1
      BY <1>1, <1>9, <1>10
    <3>2. \A j \in 1 .. k - 1 : timers[j].pcb # ts[i].pcb
      BY <3>1, <1>2
    <3> QED
      BY <3>1, <3>2, <1>2, <1>7
  <2>2. ASSUME NEW b \in S, b \notin ToSet(w)
        PROVE  \E i \in DOMAIN ts : ts[i].pcb = b
    <3>1. PICK j \in DOMAIN timers : timers[j].pcb = b
      BY <1>2
    <3>2. j \notin 1 .. k - 1
      BY <3>1, <2>2, <1>7
    <3>3. j - k + 1 \in DOMAIN ts /\ k + (j - k + 1) - 1 = j
      BY <3>1, <3>2, <1>1, <1>10
    <3>4. ts[j - k + 1] = timers[j]
      BY <3>3, <1>9, <1>10
    <3> QED
      BY <3>1, <3>3, <3>4
  <2> QED
    BY <2>1, <2>2
<1> QED
  BY <1>5, <1>6, <1>8, <1>9, <1>11, <1>12 DEF Lined, w, ts

\* A new timer finds its place.
LEMMA TimerAdds ==
    ASSUME NEW S \in SUBSET Blocks, Lined(timers, S), NEW b \in Blocks \ S, NEW t \in Int,
           TimerList_add([pcb |-> b, at |-> t])
    PROVE  Lined(timers', S \cup {b})
<1> DEFINE e == [pcb |-> b, at |-> t]
           k == FirstLater(t)
           ts == timers'
<1>1. /\ timers \in Seq(TimerItem) /\ DOMAIN timers = 1 .. Len(timers) /\ Len(timers) \in Nat
      /\ \A i \in 1 .. Len(timers) : /\ timers[i] \in TimerItem /\ timers[i].pcb \in S
                                     /\ timers[i].at \in Int
      /\ k \in 1 .. Len(timers) + 1
      /\ \A i \in 1 .. Len(timers) : timers[i].at <= t <=> i < k
  BY LinedTypes, FirstLaterSplits
<1>2. /\ \A i, j \in DOMAIN timers : i < j => timers[i].pcb # timers[j].pcb
                                             /\ timers[i].at <= timers[j].at
      /\ {timers[i].pcb : i \in DOMAIN timers} = S
  BY DEF Lined
<1>3. e \in TimerItem /\ e.pcb = b /\ e.at = t
  BY DEF TimerItem
<1>4. ts = InsertAt(timers, k, e)
  BY <1>3 DEF TimerList_add
<1> HIDE DEF e, k, ts
<1>5. ts \in Seq(TimerItem) /\ Len(ts) = Len(timers) + 1
  BY <1>1, <1>3, <1>4, SeqInsertAt
<1>6. ASSUME NEW i \in 1 .. Len(timers) + 1
      PROVE  ts[i] = IF i < k THEN timers[i] ELSE IF i = k THEN e ELSE timers[i - 1]
  BY <1>1, <1>3, <1>4, SeqInsertAt, SMTT(30)
<1>7. DOMAIN ts = 1 .. Len(timers) + 1
  BY <1>5, LenProperties
<1>8. \A i \in DOMAIN ts : i < k => i \in DOMAIN timers /\ ts[i] = timers[i]
  BY <1>1, <1>6, <1>7
<1>9. \A i \in DOMAIN ts : i > k => i - 1 \in DOMAIN timers /\ ts[i] = timers[i - 1] /\ ~(i - 1 < k)
  BY <1>1, <1>6, <1>7
<1>10. k \in DOMAIN ts /\ ts[k] = e
  BY <1>1, <1>6, <1>7
<1>11. ASSUME NEW i \in DOMAIN ts, NEW j \in DOMAIN ts, i < j
       PROVE  ts[i].pcb # ts[j].pcb /\ ts[i].at <= ts[j].at
  <2>0. i \in Int /\ j \in Int /\ k \in Int
    BY <1>1, <1>7
  <2>1. CASE j < k
    BY <2>0, <2>1, <1>2, <1>8, <1>11
  <2>2. CASE j = k
    BY <2>0, <2>2, <1>1, <1>3, <1>8, <1>10, <1>11
  <2>3. CASE j > k /\ i < k
    <3>1. i \in DOMAIN timers /\ j - 1 \in DOMAIN timers /\ i < j - 1
          /\ ts[i] = timers[i] /\ ts[j] = timers[j - 1]
      BY <2>0, <2>3, <1>8, <1>9
    <3> QED
      BY <3>1, <1>2
  <2>4. CASE j > k /\ i = k
    <3>1. j - 1 \in DOMAIN timers /\ ts[j] = timers[j - 1] /\ ~(j - 1 < k)
      BY <2>4, <1>9
    <3>2. timers[j - 1].at > t /\ timers[j - 1].pcb # b
      BY <3>1, <1>1
    <3> QED
      BY <3>1, <3>2, <2>4, <1>1, <1>3, <1>10
  <2>5. CASE j > k /\ i > k
    <3>1. i - 1 \in DOMAIN timers /\ j - 1 \in DOMAIN timers /\ i - 1 < j - 1
          /\ ts[i] = timers[i - 1] /\ ts[j] = timers[j - 1]
      BY <2>0, <2>5, <1>9, <1>11
    <3> QED
      BY <3>1, <1>2
  <2> QED
    BY <2>0, <2>1, <2>2, <2>3, <2>4, <2>5, <1>11
<1>12. {ts[i].pcb : i \in DOMAIN ts} = S \cup {b}
  <2>1. ASSUME NEW i \in DOMAIN ts
        PROVE  ts[i].pcb \in S \cup {b}
    <3>0. i \in Int /\ k \in Int
      BY <1>1, <1>7
    <3>1. CASE i < k
      BY <3>1, <1>2, <1>8
    <3>2. CASE i = k
      BY <3>2, <1>3, <1>10
    <3>3. CASE i > k
      BY <3>3, <1>2, <1>9
    <3> QED
      BY <3>0, <3>1, <3>2, <3>3
  <2>2. ASSUME NEW o \in S
        PROVE  \E i \in DOMAIN ts : ts[i].pcb = o
    <3>1. PICK j \in DOMAIN timers : timers[j].pcb = o
      BY <1>2
    <3>2. CASE j < k
      <4>1. j \in DOMAIN ts
        BY <3>1, <1>1, <1>7
      <4> QED
        BY <3>1, <3>2, <4>1, <1>8
    <3>3. CASE ~(j < k)
      <4>1. j + 1 \in DOMAIN ts /\ j + 1 > k /\ (j + 1) - 1 = j
        BY <3>1, <3>3, <1>1, <1>7
      <4>2. ts[j + 1] = timers[j]
        BY <4>1, <1>9
      <4> QED
        BY <3>1, <4>1, <4>2
    <3> QED
      BY <3>2, <3>3
  <2> QED
    BY <2>1, <2>2, <1>3, <1>10
<1> QED
  BY <1>5, <1>11, <1>12 DEF Lined, ts

\* Nothing is taken out for a process that has no timer.
LEMMA NothingToRelease ==
    ASSUME NEW S, Lined(timers, S), NEW b, b \notin S
    PROVE  TimersWithout(b) = timers
<1> DEFINE n == Len(timers)
           sub(i) == SubSeq(timers, 1, i)
           Step(k) == [i \in 0 .. n |->
                         IF i = 0 THEN <<>>
                         ELSE IF timers[i].pcb = b THEN k[i - 1] ELSE Append(k[i - 1], timers[i])]
           w == [i \in 0 .. n |-> sub(i)]
           kept == CHOOSE k : k = Step(k)
<1>1. /\ timers \in Seq(TimerItem) /\ DOMAIN timers = 1 .. n /\ n \in Nat
      /\ \A i \in 1 .. n : timers[i] \in TimerItem /\ timers[i].pcb # b
  BY LinedTypes
<1>2. TimersWithout(b) = kept[n]
  BY DEF TimersWithout
<1>3. /\ sub(0) = <<>> /\ sub(n) = timers
      /\ \A i \in 1 .. n : Append(sub(i - 1), timers[i]) = sub(i)
  <2>1. \A i \in 0 .. n : /\ sub(i) \in Seq(TimerItem) /\ Len(sub(i)) = i
                          /\ \A j \in 1 .. i : sub(i)[j] = timers[j]
    <3> SUFFICES ASSUME NEW i \in 0 .. n
                 PROVE  /\ sub(i) \in Seq(TimerItem) /\ Len(sub(i)) = i
                        /\ \A j \in 1 .. i : sub(i)[j] = timers[j]
      OBVIOUS
    <3>1. /\ sub(i) \in Seq(TimerItem) /\ Len(sub(i)) = IF 1 <= i THEN i - 1 + 1 ELSE 0
          /\ \A j \in 1 .. i - 1 + 1 : sub(i)[j] = timers[1 + j - 1]
      <4>1. \A j \in 1 .. i : j \in 1 .. Len(timers)
        BY <1>1
      <4> QED
        BY <4>1, <1>1, SubSeqProperties
    <3> QED
      BY <3>1, <1>1
  <2> HIDE DEF sub
  <2>2. sub(0) = <<>>
    <3>1. sub(0) \in Seq(TimerItem) /\ Len(sub(0)) = 0
      BY <2>1, <1>1
    <3> QED
      BY <3>1, EmptySeq
  <2>3. sub(n) = timers
    <3>1. sub(n) \in Seq(TimerItem) /\ Len(sub(n)) = n
          /\ \A j \in 1 .. n : sub(n)[j] = timers[j]
      BY <2>1, <1>1
    <3> QED
      BY <3>1, <1>1, SeqEqual
  <2>4. ASSUME NEW i \in 1 .. n
        PROVE  Append(sub(i - 1), timers[i]) = sub(i)
    <3> DEFINE s == sub(i - 1)
               t == sub(i)
    <3>1. /\ s \in Seq(TimerItem) /\ Len(s) = i - 1 /\ \A j \in 1 .. i - 1 : s[j] = timers[j]
          /\ t \in Seq(TimerItem) /\ Len(t) = i /\ \A j \in 1 .. i : t[j] = timers[j]
          /\ timers[i] \in TimerItem
      <4>1. i - 1 \in 0 .. n /\ i \in 0 .. n
        BY <1>1
      <4> QED
        BY <4>1, <2>1, <1>1
    <3> HIDE DEF s, t
    <3>2. /\ Append(s, timers[i]) \in Seq(TimerItem) /\ Len(Append(s, timers[i])) = i
          /\ \A j \in 1 .. i - 1 : Append(s, timers[i])[j] = timers[j]
          /\ Append(s, timers[i])[i] = timers[i]
      BY <3>1, AppendProperties
    <3> DEFINE u == Append(s, timers[i])
    <3> HIDE DEF u
    <3>3. u \in Seq(TimerItem) /\ Len(u) = Len(t) /\ \A j \in 1 .. Len(u) : u[j] = t[j]
      BY <3>1, <3>2 DEF u
    <3>4. u = t
      BY <3>1, <3>3, SeqEqual
    <3> QED
      BY <3>4 DEF u, s, t
  <2> QED
    BY <2>2, <2>3, <2>4
<1> HIDE DEF sub
<1>4. w = Step(w)
  <2>1. ASSUME NEW i \in 0 .. n
        PROVE  w[i] = IF i = 0 THEN <<>>
                      ELSE IF timers[i].pcb = b THEN w[i - 1] ELSE Append(w[i - 1], timers[i])
    <3>1. CASE i = 0
      BY <3>1, <1>1, <1>3
    <3>2. CASE i # 0
      <4>1. i \in 1 .. n /\ i - 1 \in 0 .. n
        BY <3>2, <1>1
      <4> QED
        BY <4>1, <1>1, <1>3
    <3> QED
      BY <3>1, <3>2
  <2> QED
    BY <2>1
<1>5. kept = Step(kept)
  <2> HIDE DEF w, Step
  <2>1. \E k : k = Step(k)
    BY <1>4
  <2> QED
    BY <2>1, Zenon
<1> HIDE DEF kept
<1>6. \A i \in 0 .. n : kept[i] = sub(i)
  <2> DEFINE bad == {i \in 0 .. n : kept[i] # sub(i)}
  <2> SUFFICES ASSUME bad # {} PROVE FALSE
    OBVIOUS
  <2>1. bad \in SUBSET Nat
    OBVIOUS
  <2> DEFINE m == Min(bad)
  <2>2. m \in bad /\ \A j \in bad : m <= j
    BY <2>1, LeastNatural
  <2> HIDE DEF m
  <2>3. m \in 0 .. n /\ kept[m] # sub(m)
    BY <2>2
  <2>4. m # 0
    BY <2>3, <1>1, <1>3, <1>5
  <2>5. m \in 1 .. n /\ m - 1 \in 0 .. n /\ ~(m <= m - 1)
    BY <2>3, <2>4, <1>1
  <2>6. kept[m - 1] = sub(m - 1)
    BY <2>2, <2>5
  <2>7. kept[m] = Append(kept[m - 1], timers[m])
    BY <2>4, <2>5, <1>1, <1>5
  <2> QED
    BY <2>3, <2>5, <2>6, <2>7, <1>3
<1> QED
  BY <1>1, <1>2, <1>3, <1>6

-----------------------------------------------------------------------------
(* The steps of stage 03                                                   *)

\* What stage 03 adds to the invariant.
Stage03Inv == ProcInv /\ SleepersHaveTimers

\* The system starts with no timer.
LEMMA InitKeepsTimers == TimersInit => Stage03Inv
<1> SUFFICES ASSUME TimersInit PROVE Stage03Inv
  OBVIOUS
<1>1. ProcInv /\ timers = <<>> /\ time = 0 /\ ProcessesInit
  BY InitKeepsProcs DEF TimersInit
<1>2. Sleepers = {}
  <2>1. \A b \in Blocks : pcb[b].status # "Waiting"
    <3>1. pcb = [b \in Blocks |-> IF b = 1 THEN [FreePcb EXCEPT !.pid = 0, !.status = "Running"]
                                         ELSE FreePcb]
      BY <1>1 DEF ProcessesInit
    <3> QED
      BY <3>1 DEF FreePcb
  <2> QED
    BY <2>1, <1>1, ProcTypes DEF Sleepers
<1>3. Lined(<<>>, {})
  BY DEF Lined
<1>4. time \in 0 .. MaxTime
  BY <1>1, TimersAssumption
<1> QED
  BY <1>1, <1>2, <1>3, <1>4, LinedIsSleepersHaveTimers DEF Stage03Inv

\* A step that keeps who sleeps and leaves the timers alone.
LEMMA SameSleepersKeepTimers ==
    ASSUME SleepersHaveTimers, Sleepers' = Sleepers, UNCHANGED timerVars
    PROVE  SleepersHaveTimers'
BY LinedIsSleepersHaveTimers, LinedIsSleepersHaveTimersThere DEF timerVars

\* The clock goes on, up to the bound.
LEMMA ClockTicks ==
    ASSUME SleepersHaveTimers, time' = Min({time + 1, MaxTime})
    PROVE  time' \in 0 .. MaxTime /\ time' \in Int
<1>1. time \in 0 .. MaxTime /\ MaxTime \in Nat
  BY TimersAssumption DEF SleepersHaveTimers, TimersTypeOK
<1> DEFINE S == {time + 1, MaxTime}
<1>2. S \in SUBSET Nat /\ S # {} /\ MaxTime \in S
  BY <1>1
<1> HIDE DEF S
<1>3. Min(S) \in S /\ Min(S) <= MaxTime
  BY <1>2, LeastNatural
<1>4. Min(S) \in Nat
  BY <1>2, <1>3
<1>5. Min(S) \in 0 .. MaxTime
  BY <1>1, <1>3, <1>4
<1> QED
  BY <1>4, <1>5 DEF S

\* The scheduler wakes whose time has come and runs a ready process, whichever.
LEMMA SchedulingKeepsTimers ==
    ASSUME Stage03Inv, InUserCode, NEW now \in Int, RemoveExpired(now), time' \in 0 .. MaxTime,
           \/ /\ ReadyAwake(now) = <<>>
              /\ pcb' = PcbsAwake(now) /\ ready_list' = ReadyAwake(now) /\ running' = running
           \/ \E i \in DOMAIN ReadyAwake(now) : SwitchTo(PcbsAwake(now), ReadyAwake(now), i),
           UNCHANGED <<free, ptrs, last_pid, init_pcb, ret, halt>>
    PROVE  Stage03Inv' /\ Allocated' = Allocated /\ OnlyStatus(pcb')
<1> DEFINE w == Woken(now)
           p == PcbsAwake(now)
           q == ReadyAwake(now)
<1>1. ProcInv /\ time \in 0 .. MaxTime /\ Lined(timers, Sleepers) /\ Sleepers \in SUBSET Blocks
  BY LinedIsSleepersHaveTimers, ProcTypes DEF Stage03Inv, Sleepers
<1>2. /\ w \in Seq(Blocks) /\ IsInjective(w) /\ ToSet(w) \subseteq Sleepers
      /\ Lined(timers', Sleepers \ ToSet(w))
  BY <1>1, ExpiredWake
<1>3. Awake(p, q, w)
  <2>1. /\ p = [b \in Blocks |-> IF b \in ToSet(w) THEN [pcb[b] EXCEPT !.status = "Ready"] ELSE pcb[b]]
        /\ q = ready_list \o w
    BY DEF PcbsAwake, ReadyAwake
  <2> HIDE DEF p, q, w
  <2> QED
    BY <2>1, <1>1, <1>2, WakingWakes
<1>4. \/ q = <<>> /\ pcb' = p /\ ready_list' = q /\ running' = running
      \/ \E i \in DOMAIN q : SwitchTo(p, q, i)
  OBVIOUS
<1> HIDE DEF p, q, w
<1>5. /\ ProcInv' /\ Allocated' = Allocated /\ OnlyStatus(pcb')
      /\ Sleepers' = Sleepers \ ToSet(w)
  BY <1>1, <1>3, <1>4, SchedulingKeepsProcs
<1>6. SleepersHaveTimers'
  BY <1>2, <1>5, LinedIsSleepersHaveTimersThere
<1> QED
  BY <1>5, <1>6 DEF Stage03Inv

\* The scheduler of stage 03, at a tick and at a preempt.
LEMMA SchedulesKeepTimers ==
    ASSUME Stage03Inv, Tick \/ Preempt
    PROVE  Stage03Inv' /\ Allocated' = Allocated /\ OnlyStatus(pcb')
<1>1. PICK now \in Int : InUserCode /\ internal_schedule(now) /\ time' \in 0 .. MaxTime
  <2>1. time \in 0 .. MaxTime /\ SleepersHaveTimers /\ 0 .. MaxTime \subseteq Int
    BY DEF Stage03Inv, SleepersHaveTimers, TimersTypeOK
  <2>2. CASE Preempt
    BY <2>1, <2>2 DEF Preempt
  <2>3. CASE Tick
    BY <2>1, <2>3, ClockTicks DEF Tick
  <2> QED
    BY <2>2, <2>3
<1>2. /\ RemoveExpired(now) /\ Rotate(PcbsAwake(now), ReadyAwake(now))
      /\ UNCHANGED <<free, ptrs, last_pid, init_pcb, ret, halt>>
  BY <1>1 DEF internal_schedule
<1>3. \/ /\ ReadyAwake(now) = <<>>
         /\ pcb' = PcbsAwake(now) /\ ready_list' = ReadyAwake(now) /\ running' = running
      \/ \E i \in DOMAIN ReadyAwake(now) : SwitchTo(PcbsAwake(now), ReadyAwake(now), i)
  <2> DEFINE q == ReadyAwake(now)
  <2>1. q \in Seq(Blocks)
    <3>1. /\ Lined(timers, Sleepers) /\ Sleepers \in SUBSET Blocks /\ ready_list \in Seq(Blocks)
      BY LinedIsSleepersHaveTimers, ProcTypes DEF Stage03Inv, Sleepers
    <3>2. Woken(now) \in Seq(Blocks)
      BY <3>1, <1>2, ExpiredWake
    <3> QED
      BY <3>1, <3>2, SeqConcat DEF ReadyAwake
  <2> HIDE DEF q
  <2>2. q # <<>> => 1 \in DOMAIN q
    BY <2>1, EmptySeq, LenProperties
  <2> QED
    BY <2>2, <1>2 DEF Rotate, q
<1> QED
  BY <1>1, <1>2, <1>3, SchedulingKeepsTimers

\* The caller of sleep leaves the CPU, and gets its timer.
LEMMA SleepKeepsTimers ==
    ASSUME Stage03Inv, NEW n \in SleepArgs, Sleep(n)
    PROVE  Stage03Inv' /\ Allocated' = Allocated /\ OnlyStatus(pcb')
<1>1. /\ ProcInv /\ running \in Allocated /\ running \in Blocks /\ running # Null
      /\ pcb[running].status \in {"Running", "Ready"}
      /\ pcb \in [Blocks -> PcbType] /\ ready_list \in Seq(Blocks)
      /\ running \notin ToSet(ready_list) /\ ToSet(ready_list) \subseteq Allocated
      /\ IsInjective(ready_list)
      /\ time \in 0 .. MaxTime /\ Lined(timers, Sleepers) /\ Sleepers \in SUBSET Blocks
  <2>1. ProcInv /\ running # Null
    BY DEF Stage03Inv, Sleep, InUserCode
  <2>2. /\ running \in Allocated /\ pcb[running].status \in {"Running", "Ready"}
        /\ running \notin ToSet(ready_list) /\ ToSet(ready_list) \subseteq Allocated
        /\ IsInjective(ready_list)
    BY <2>1 DEF ProcInv, ReadyListed
  <2>3. time \in 0 .. MaxTime /\ Lined(timers, Sleepers)
    BY LinedIsSleepersHaveTimers DEF Stage03Inv
  <2> QED
    BY <2>1, <2>2, <2>3, ProcTypes DEF Sleepers
<1>2. /\ TimerList_add([pcb |-> running, at |-> time + n])
      /\ pcb' = [pcb EXCEPT ![running].status = "Waiting"]
      /\ running' = IF ready_list = <<>> THEN Null ELSE Head(ready_list)
      /\ ready_list' = IF ready_list = <<>> THEN <<>> ELSE Tail(ready_list)
      /\ UNCHANGED <<free, ptrs, last_pid, init_pcb, ret, halt, time>>
  BY DEF Sleep
<1>3. pcb' \in [Blocks -> PcbType] /\ StatusIs(pcb', pcb, running, "Waiting")
  BY <1>1, <1>2, SetStatus
<1>4. OnlyStatus(pcb')
  BY <1>3 DEF OnlyStatus, StatusIs
<1>5. \A b \in Blocks \ Allocated : pcb'[b] = pcb[b]
  BY <1>1, <1>3 DEF StatusIs
<1>6. Allocated' = Allocated
  BY <1>2 DEF Allocated
<1>7. /\ running' \in (Allocated \ {running}) \cup {Null}
      /\ running' # Null => running' \in ToSet(ready_list)
      /\ ready_list' \in Seq(Blocks) /\ IsInjective(ready_list')
      /\ ToSet(ready_list') = ToSet(ready_list) \ {running'}
  <2>1. CASE ready_list = <<>>
    <3>1. running' = Null /\ ready_list' = <<>> /\ ToSet(ready_list) = {}
      BY <2>1, <1>2, SeqEmpty
    <3> QED
      BY <3>1, <2>1, <1>1
  <2>2. CASE ready_list # <<>>
    <3>1. running' = Head(ready_list) /\ ready_list' = Tail(ready_list)
      BY <2>2, <1>2
    <3>2. /\ Head(ready_list) \in ToSet(ready_list) /\ Tail(ready_list) \in Seq(Blocks)
          /\ ToSet(Tail(ready_list)) = ToSet(ready_list) \ {Head(ready_list)}
          /\ IsInjective(Tail(ready_list))
      BY <2>2, <1>1, SeqTail
    <3> QED
      BY <3>1, <3>2, <1>1
  <2> QED
    BY <2>1, <2>2
<1>8. \A b \in Blocks : pcb'[b].status = IF b = running THEN "Waiting" ELSE pcb[b].status
  BY <1>3 DEF StatusIs
<1>9. ReadyListed'
  <2>1. running' # Null => pcb'[running'].status = "Ready" /\ running' \in Blocks
    <3> SUFFICES ASSUME running' # Null PROVE pcb'[running'].status = "Ready" /\ running' \in Blocks
      OBVIOUS
    <3>1. running' \in Allocated /\ running' # running /\ running' \in ToSet(ready_list)
          /\ running' \in Blocks
      BY <1>1, <1>7, ProcTypes
    <3>2. pcb[running'].status = "Ready"
      BY <3>1, <1>1 DEF ProcInv, ReadyListed
    <3> QED
      BY <3>1, <3>2, <1>8
  <2>2. ASSUME NEW b \in Allocated \ {running'}
        PROVE  pcb'[b].status = "Ready" <=> b \in ToSet(ready_list')
    <3>1. b \in Blocks
      BY <1>1, ProcTypes
    <3>2. CASE b = running
      BY <3>1, <3>2, <1>1, <1>7, <1>8
    <3>3. CASE b # running
      BY <3>1, <3>3, <2>2, <1>1, <1>7, <1>8 DEF ProcInv, ReadyListed
    <3> QED
      BY <3>2, <3>3
  <2> QED
    BY <2>1, <2>2, <1>1, <1>6, <1>7 DEF ReadyListed
<1>10. pcb[running].awaits = NotInWait
  BY <1>1 DEF ProcInv, FieldsFit
<1>11. FieldsFit'
  BY <1>1, <1>4, <1>8 DEF FieldsFit, ProcInv, OnlyStatus
<1>12. ProcInv'
  <2>1. pcb'[init_pcb].status # "Zombie" /\ running' \in Blocks \cup {Null}
    BY <1>1, <1>7, <1>8, ProcTypes DEF ProcInv, InitLives
  <2>2. ret' \in [Blocks -> Int] /\ halt' \in Halts
    BY <1>1, <1>2 DEF ProcInv, ProcessesTypeOK
  <2> QED
    BY <2>1, <2>2, <1>1, <1>2, <1>3, <1>4, <1>5, <1>7, <1>9, <1>11, MovesKeepProcs DEF OnlyStatus
<1>13. Sleepers' = Sleepers \cup {running} /\ running \notin Sleepers
  <2>1. \A b \in Allocated : b \in Blocks
    BY <1>1, ProcTypes
  <2> QED
    BY <2>1, <1>1, <1>4, <1>6, <1>8, <1>10 DEF Sleepers, OnlyStatus
<1>14. Lined(timers', Sleepers \cup {running})
  <2>1. time + n \in Int
    BY <1>1, TimersAssumption
  <2> QED
    BY <2>1, <1>1, <1>2, <1>13, TimerAdds
<1>15. SleepersHaveTimers'
  BY <1>1, <1>2, <1>13, <1>14, LinedIsSleepersHaveTimersThere
<1> QED
  BY <1>4, <1>6, <1>12, <1>15 DEF Stage03Inv

\* The exit releases no timer: its caller has none.
LEMMA ExitKeepsTimers ==
    ASSUME Stage03Inv, ExitReleasesTimers
    PROVE  /\ Stage03Inv' /\ running \in Allocated /\ Allocated' = Allocated \ {running}
           /\ \A b \in Allocated' : pcb'[b].pid = pcb[b].pid
           /\ running' \in Allocated' /\ ready_list' = ready_list
<1>1. /\ ProcInv' /\ Sleepers' = Sleepers /\ running \notin Sleepers
      /\ running \in Allocated /\ Allocated' = Allocated \ {running}
      /\ \A b \in Allocated' : pcb'[b].pid = pcb[b].pid
      /\ running' \in Allocated' /\ ready_list' = ready_list
  BY ExitToParentKeepsProcs DEF Stage03Inv, ExitReleasesTimers
<1>2. timers' = timers /\ time' = time
  <2>1. Lined(timers, Sleepers)
    BY LinedIsSleepersHaveTimers DEF Stage03Inv
  <2> QED
    BY <2>1, <1>1, NothingToRelease DEF ExitReleasesTimers
<1>3. SleepersHaveTimers'
  BY <1>1, <1>2, SameSleepersKeepTimers DEF Stage03Inv, timerVars
<1> QED
  BY <1>1, <1>3 DEF Stage03Inv

\* The steps that do not touch the timers.
LEMMA OthersKeepTimers ==
    ASSUME Stage03Inv, OtherStep, UNCHANGED timerVars
    PROVE  /\ Stage03Inv' /\ Allocated' \subseteq Allocated
           /\ \A b \in Allocated' : pcb'[b].pid = pcb[b].pid
<1>1. /\ ProcInv' /\ Allocated' \subseteq Allocated /\ Sleepers' = Sleepers
      /\ \A b \in Allocated' : pcb'[b].pid = pcb[b].pid
  BY OthersKeepProcs DEF Stage03Inv
<1> QED
  BY <1>1, SameSleepersKeepTimers DEF Stage03Inv

\* Processes that come.
LEMMA BirthsKeepTimers ==
    ASSUME Stage03Inv, Spawn \/ Restart, UNCHANGED timerVars
    PROVE  /\ Stage03Inv'
           /\ NextPcb \in Blocks \ Allocated /\ Allocated' = Allocated \cup {NextPcb}
           /\ \A b \in Allocated : pcb'[b].pid = pcb[b].pid
           /\ pcb'[NextPcb].pid = last_pid
<1>1. /\ ProcInv' /\ Sleepers' = Sleepers
      /\ NextPcb \in Blocks \ Allocated /\ Allocated' = Allocated \cup {NextPcb}
      /\ \A b \in Allocated : pcb'[b].pid = pcb[b].pid
      /\ pcb'[NextPcb].pid = last_pid
  BY SpawnKeepsProcs, RestartKeepsProcs DEF Stage03Inv
<1> QED
  BY <1>1, SameSleepersKeepTimers DEF Stage03Inv

-----------------------------------------------------------------------------
(* The ageing scheduler                                                    *)

\* Of some naturals in a row there is a first that is not greater than any other.
LEMMA FirstOfTheLeast ==
    ASSUME NEW n \in Nat \ {0}, NEW v \in [1 .. n -> Nat]
    PROVE  \E i \in 1 .. n : \A j \in 1 .. n : v[i] <= v[j] /\ (j < i => v[i] < v[j])
<1> DEFINE S == {v[i] : i \in 1 .. n}
           m == Min(S)
           I == {i \in 1 .. n : v[i] = m}
           k == Min(I)
<1>1. S \in SUBSET Nat /\ S # {}
  <2>1. v[1] \in S /\ \A i \in 1 .. n : v[i] \in Nat
    BY DEF S
  <2> QED
    BY <2>1
<1>2. m \in S /\ \A i \in 1 .. n : m <= v[i]
  <2>1. m \in S /\ \A y \in S : m <= y
    BY <1>1, LeastNatural
  <2> QED
    BY <2>1
<1> HIDE DEF m
<1>3. I \in SUBSET Nat /\ I # {}
  BY <1>2
<1>4. k \in I /\ \A i \in I : k <= i
  BY <1>3, LeastNatural
<1> HIDE DEF k
<1>5. k \in 1 .. n /\ v[k] = m
  BY <1>4
<1>6. ASSUME NEW j \in 1 .. n
      PROVE  v[k] <= v[j] /\ (j < k => v[k] < v[j])
  <2>1. v[k] <= v[j] /\ v[k] \in Nat /\ v[j] \in Nat
    BY <1>2, <1>5
  <2>2. j < k => v[j] # m
    BY <1>4, <1>5
  <2> QED
    BY <1>5, <2>1, <2>2
<1> QED
  BY <1>5, <1>6

PrioType == [default : Nat, current : Nat, gain : Nat]

\* A priority stays a natural: ageing stops at 0.
AgeingInv == Stage03Inv /\ prio \in [Blocks -> PrioType]

\* Who has aged has a priority like the others.
LEMMA AgedTypes ==
    ASSUME prio \in [Blocks -> PrioType], NEW q
    PROVE  Aged(q) \in [Blocks -> PrioType]
<1>1. ASSUME NEW b \in Blocks
      PROVE  [prio[b] EXCEPT !.current = Max({@ - prio[b].gain, 0})] \in PrioType
  <2> DEFINE x == prio[b].current - prio[b].gain
  <2>1. prio[b] \in PrioType /\ x \in Int
    BY DEF PrioType
  <2> HIDE DEF x
  <2>2. Max({x, 0}) \in Nat
    <3>1. \E m \in {x, 0} : \A y \in {x, 0} : m >= y
      <4>1. x >= 0 \/ 0 >= x
        BY <2>1
      <4> QED
        BY <2>1, <4>1
    <3>2. Max({x, 0}) \in {x, 0} /\ \A y \in {x, 0} : Max({x, 0}) >= y
      BY <3>1 DEF Max
    <3> QED
      BY <2>1, <3>2
  <2>3. \A r \in PrioType, c \in Nat : [r EXCEPT !.current = c] \in PrioType
    BY DEF PrioType
  <2> QED
    BY <2>1, <2>2, <2>3 DEF x
<1> QED
  BY <1>1 DEF Aged

\* The scheduler finds the first of the least in a ready list that is not empty.
LEMMA LeastIsFound ==
    ASSUME NEW q \in Seq(Blocks), q # <<>>, NEW pr \in [Blocks -> PrioType]
    PROVE  /\ LeastIn(q, pr) \in DOMAIN q
           /\ \A j \in DOMAIN q :
                 /\ pr[q[LeastIn(q, pr)]].current <= pr[q[j]].current
                 /\ j < LeastIn(q, pr) => pr[q[LeastIn(q, pr)]].current < pr[q[j]].current
<1> DEFINE v == [i \in 1 .. Len(q) |-> pr[q[i]].current]
<1>1. Len(q) \in Nat \ {0} /\ DOMAIN q = 1 .. Len(q) /\ \A i \in 1 .. Len(q) : q[i] \in Blocks
  BY EmptySeq, LenProperties
<1>2. v \in [1 .. Len(q) -> Nat]
  BY <1>1 DEF PrioType
<1>3. \E i \in DOMAIN q : \A j \in DOMAIN q : /\ v[i] <= v[j]
                                              /\ j < i => v[i] < v[j]
  BY <1>1, <1>2, FirstOfTheLeast
<1>4. \E i \in DOMAIN q : \A j \in DOMAIN q : /\ pr[q[i]].current <= pr[q[j]].current
                                              /\ j < i => pr[q[i]].current < pr[q[j]].current
  BY <1>1, <1>3
<1> QED
  BY <1>4 DEF LeastIn

\* What the other steps do to the ready list: none of them puts the running process on it,
\* and whoever leaves it is the first and gets the CPU.
ReadyShrinks ==
    \/ ready_list' = ready_list /\ (running' = running \/ ready_list = <<>>)
    \/ /\ ready_list # <<>> /\ ready_list' = Tail(ready_list)
       /\ running' = Head(ready_list)

\* They leave it alone or take its head.
LEMMA OthersShrinkReady ==
    ASSUME OtherStep
    PROVE  ReadyShrinks
<1>1. ASSUME NEW p, PopReady(p)
      PROVE  ReadyShrinks
  BY <1>1 DEF PopReady, ReadyShrinks
<1>2. ASSUME NEW how, Stop(how)
      PROVE  ReadyShrinks
  BY <1>2 DEF Stop, ReadyShrinks
<1>3. ASSUME NEW pid \in WaitArgs, Wait(pid)
      PROVE  ReadyShrinks
  BY <1>1, <1>3 DEF Wait, WaitWithoutChildren, WaitReaps, WaitBlocks, ReadyShrinks
<1>4. CASE ExitToNext
  BY <1>1, <1>4 DEF ExitToNext
<1>5. CASE \/ SpawnFromEmptyPool \/ Fork \/ Shutdown \/ ExitAdoptsItself \/ ExitWithoutParent
           \/ ExitToStranger \/ ExitToNobody \/ RestartWithEmptyPool \/ InterruptOfNobody
  BY <1>2, <1>5 DEF SpawnFromEmptyPool, Fork, Shutdown, ExitAdoptsItself, ExitWithoutParent,
        ExitToStranger, ExitToNobody, RestartWithEmptyPool, InterruptOfNobody
<1> QED
  BY <1>3, <1>4, <1>5 DEF OtherStep

\* Who stays on the ready list was there before.
LEMMA ShrunkReady ==
    ASSUME ProcInv, ReadyShrinks
    PROVE  ToSet(ready_list') \subseteq ToSet(ready_list)
BY ProcTypes, SeqTail DEF ProcInv, ReadyListed, ReadyShrinks

\* Those in front of b in q.
InFront(q, b) == {q[i] : i \in {i \in DOMAIN q : \E j \in DOMAIN q : i < j /\ q[j] = b}}

\* Nobody gets in front of b when the first of a queue leaves it.
LEMMA TailOvertakesNobody ==
    ASSUME NEW S, NEW q \in Seq(S), q # <<>>, NEW b
    PROVE  InFront(Tail(q), b) \subseteq InFront(q, b)
<1> DEFINE t == Tail(q)
<1>1. /\ Len(q) \in Nat /\ DOMAIN q = 1 .. Len(q) /\ DOMAIN t = 1 .. Len(q) - 1
      /\ \A i \in 1 .. Len(q) - 1 : t[i] = q[i + 1]
  BY EmptySeq, LenProperties, HeadTailProperties
<1> HIDE DEF t
<1>2. ASSUME NEW i \in DOMAIN t, NEW j \in DOMAIN t, i < j, t[j] = b
      PROVE  t[i] \in InFront(q, b)
  <2>1. /\ i + 1 \in DOMAIN q /\ j + 1 \in DOMAIN q /\ i + 1 < j + 1
        /\ q[i + 1] = t[i] /\ q[j + 1] = b
    BY <1>1, <1>2
  <2> QED
    BY <2>1 DEF InFront
<1> QED
  BY <1>2 DEF InFront, t

\* Nor when another comes to its end.
LEMMA AppendOvertakesNobody ==
    ASSUME NEW S, NEW q \in Seq(S), NEW e \in S, NEW b, b # e
    PROVE  InFront(Append(q, e), b) \subseteq InFront(q, b)
<1> DEFINE u == Append(q, e)
<1>1. /\ Len(q) \in Nat /\ DOMAIN q = 1 .. Len(q) /\ DOMAIN u = 1 .. Len(q) + 1
      /\ \A i \in 1 .. Len(q) : u[i] = q[i]
      /\ u[Len(q) + 1] = e
  BY LenProperties, AppendProperties
<1> HIDE DEF u
<1>2. ASSUME NEW i \in DOMAIN u, NEW j \in DOMAIN u, i < j, u[j] = b
      PROVE  u[i] \in InFront(q, b)
  <2>1. i \in DOMAIN q /\ j \in DOMAIN q /\ q[i] = u[i] /\ q[j] = b
    BY <1>1, <1>2
  <2> QED
    BY <1>2, <2>1 DEF InFront
<1> QED
  BY <1>2 DEF InFront, u

\* Nor when others that b is not among do.
LEMMA ConcatOvertakesNobody ==
    ASSUME NEW S, NEW q \in Seq(S), NEW w \in Seq(S), NEW b, b \notin ToSet(w)
    PROVE  InFront(q \o w, b) \subseteq InFront(q, b)
<1> DEFINE u == q \o w
<1>1. /\ Len(q) \in Nat /\ Len(w) \in Nat /\ DOMAIN q = 1 .. Len(q) /\ DOMAIN w = 1 .. Len(w)
      /\ DOMAIN u = 1 .. Len(q) + Len(w)
      /\ \A i \in 1 .. Len(q) + Len(w) : u[i] = IF i <= Len(q) THEN q[i] ELSE w[i - Len(q)]
  BY LenProperties, ConcatProperties
<1> HIDE DEF u
<1>2. ASSUME NEW i \in DOMAIN u, NEW j \in DOMAIN u, i < j, u[j] = b
      PROVE  u[i] \in InFront(q, b)
  <2>1. j <= Len(q)
    <3> SUFFICES ASSUME ~ (j <= Len(q)) PROVE FALSE
      OBVIOUS
    <3>1. j - Len(q) \in DOMAIN w /\ w[j - Len(q)] = b
      BY <1>1, <1>2
    <3> QED
      BY <3>1 DEF ToSet
  <2>2. i \in DOMAIN q /\ j \in DOMAIN q /\ q[i] = u[i] /\ q[j] = b
    BY <1>1, <1>2, <2>1
  <2> QED
    BY <1>2, <2>2 DEF InFront
<1> QED
  BY <1>2 DEF InFront, u

\* Nor when one leaves it, wherever he is.
LEMMA RemovalOvertakesNobody ==
    ASSUME NEW S, NEW q \in Seq(S), IsInjective(q), NEW k \in DOMAIN q, NEW b
    PROVE  InFront(RemoveAt(q, k), b) \subseteq InFront(q, b)
<1> DEFINE u == RemoveAt(q, k)
           At(i) == IF i < k THEN i ELSE i + 1
<1>1. /\ Len(q) \in Nat /\ DOMAIN q = 1 .. Len(q) /\ DOMAIN u = 1 .. Len(q) - 1
      /\ \A i \in 1 .. Len(q) - 1 : u[i] = q[At(i)]
  BY LenProperties, SeqRemoveAt
<1> HIDE DEF u
<1>2. ASSUME NEW i \in DOMAIN u, NEW j \in DOMAIN u, i < j, u[j] = b
      PROVE  u[i] \in InFront(q, b)
  <2>1. /\ At(i) \in DOMAIN q /\ At(j) \in DOMAIN q /\ At(i) < At(j)
        /\ q[At(i)] = u[i] /\ q[At(j)] = b
    BY <1>1, <1>2
  <2> HIDE DEF At
  <2> QED
    BY <2>1 DEF InFront
<1> QED
  BY <1>2 DEF InFront, u

\* What a turn of the scheduler does.
LEMMA AgeingScheduleSwitches ==
    ASSUME AgeingInv, NEW now \in Int, AgeingSchedule(now)
    PROVE  /\ \/ /\ ReadyAwake(now) = <<>>
                 /\ pcb' = PcbsAwake(now) /\ ready_list' = ReadyAwake(now) /\ running' = running
                 /\ prio' = prio
              \/ /\ ReadyAwake(now) # <<>>
                 /\ LeastIn(ReadyAwake(now), Aged(ReadyAwake(now))) \in DOMAIN ReadyAwake(now)
                 /\ SwitchTo(PcbsAwake(now), ReadyAwake(now),
                             LeastIn(ReadyAwake(now), Aged(ReadyAwake(now))))
                 /\ prio' = [Aged(ReadyAwake(now)) EXCEPT ![running].current = prio[running].default]
           /\ ReadyAwake(now) \in Seq(Blocks)
<1> DEFINE q == ReadyAwake(now)
           p == PcbsAwake(now)
<1>1. Lined(timers, Sleepers) /\ Sleepers \in SUBSET Blocks /\ ready_list \in Seq(Blocks)
      /\ ProcInv
  BY LinedIsSleepersHaveTimers, ProcTypes DEF AgeingInv, Stage03Inv, Sleepers
<1>2. Woken(now) \in Seq(Blocks) /\ ToSet(Woken(now)) \subseteq Sleepers
  <2>1. RemoveExpired(now)
    BY DEF AgeingSchedule
  <2> QED
    BY <1>1, <2>1, ExpiredWake
<1>3. q \in Seq(Blocks)
  BY <1>1, <1>2, SeqConcat DEF ReadyAwake
<1>4. CASE q = <<>>
  <2>1. ToSet(Woken(now)) = {}
    <3>1. ToSet(q) = ToSet(ready_list) \cup ToSet(Woken(now)) /\ ToSet(q) = {}
      BY <1>1, <1>2, <1>4, SeqConcat, SeqEmpty DEF ReadyAwake
    <3> QED
      BY <3>1
  <2>2. p = pcb
    <3>1. p = [b \in Blocks |-> pcb[b]]
      BY <2>1 DEF PcbsAwake
    <3>2. pcb \in [Blocks -> PcbType]
      BY <1>1, ProcTypes
    <3> HIDE DEF p
    <3> QED
      BY <3>1, <3>2
  <2>3. ready_list = <<>>
    <3>1. ToSet(ready_list) = {}
      <4>1. ToSet(q) = ToSet(ready_list) \cup ToSet(Woken(now)) /\ ToSet(q) = {}
        BY <1>1, <1>2, <1>4, SeqConcat, SeqEmpty DEF ReadyAwake
      <4> QED
        BY <4>1
    <3> QED
      BY <1>1, <3>1, ToSetType
  <2>4. UNCHANGED <<pcb, running, ready_list, prio>>
    BY <1>4 DEF AgeingSchedule
  <2> QED
    BY <1>3, <1>4, <2>2, <2>3, <2>4
<1>5. CASE q # <<>>
  <2>1. Aged(q) \in [Blocks -> PrioType]
    BY AgedTypes DEF AgeingInv
  <2>2. LeastIn(q, Aged(q)) \in DOMAIN q
    BY <1>3, <1>5, <2>1, LeastIsFound
  <2> QED
    BY <1>3, <1>5, <2>2 DEF AgeingSchedule
<1> QED
  BY <1>4, <1>5

\* Whoever has aged down to 0 stays there.
LEMMA ZeroStays ==
    ASSUME prio \in [Blocks -> PrioType], NEW q, NEW b \in Blocks, prio[b].current = 0
    PROVE  Aged(q)[b].current = 0
<1>1. prio[b] \in PrioType
  OBVIOUS
<1>2. Max({0 - prio[b].gain, 0}) = 0
  <2> DEFINE x == 0 - prio[b].gain
  <2>1. x \in Int /\ x <= 0
    BY <1>1 DEF PrioType
  <2> HIDE DEF x
  <2>2. \E m \in {x, 0} : \A y \in {x, 0} : m >= y
    BY <2>1
  <2>3. Max({x, 0}) \in {x, 0} /\ \A y \in {x, 0} : Max({x, 0}) >= y
    BY <2>2 DEF Max
  <2>4. Max({x, 0}) = 0
    BY <2>1, <2>3
  <2> QED
    BY <2>4 DEF x
<1>3. CASE b \in ToSet(q)
  <2>1. Aged(q)[b] = [prio[b] EXCEPT !.current = Max({prio[b].current - prio[b].gain, 0})]
    BY <1>3 DEF Aged
  <2> QED
    BY <1>1, <1>2, <2>1 DEF PrioType
<1>4. CASE b \notin ToSet(q)
  BY <1>4 DEF Aged
<1> QED
  BY <1>3, <1>4

\* Whoever a spawn or a restart makes was not there.
LEMMA NextIsFree ==
    ASSUME ProcInv, free # <<>>
    PROVE  NextPcb \in Blocks /\ NextPcb \notin ToSet(ready_list)
<1>1. NextPcb \in ToSet(free) /\ NextPcb \in Blocks
  BY ProcTypes, SeqTail DEF NextPcb, ProcInv, FreeIsWhole
<1> QED
  BY <1>1 DEF ProcInv, ReadyListed, Allocated

\* With those who wake, the ready list is still one, and the running process is not on it.
LEMMA AwakeIsInOrder ==
    ASSUME AgeingInv, NEW now \in Int, InUserCode, AgeingSchedule(now)
    PROVE  IsInjective(ReadyAwake(now)) /\ running \notin ToSet(ReadyAwake(now))
<1> DEFINE w == Woken(now)
           p == PcbsAwake(now)
           q == ReadyAwake(now)
<1>1. /\ Lined(timers, Sleepers) /\ Sleepers \in SUBSET Blocks /\ ProcInv
      /\ RemoveExpired(now)
  BY LinedIsSleepersHaveTimers, ProcTypes DEF AgeingInv, Stage03Inv, Sleepers, AgeingSchedule
<1>2. w \in Seq(Blocks) /\ IsInjective(w) /\ ToSet(w) \subseteq Sleepers
  BY <1>1, ExpiredWake
<1>3. Awake(p, q, w)
  <2>1. /\ p = [b \in Blocks |-> IF b \in ToSet(w) THEN [pcb[b] EXCEPT !.status = "Ready"] ELSE pcb[b]]
        /\ q = ready_list \o w
    BY DEF PcbsAwake, ReadyAwake
  <2> HIDE DEF p, q, w
  <2> QED
    BY <2>1, <1>1, <1>2, WakingWakes
<1> HIDE DEF p, q, w
<1>4. IsInjective(q) /\ ToSet(q) = ToSet(ready_list) \cup ToSet(w)
  BY <1>3 DEF Awake
<1>5. running \notin ToSet(ready_list) /\ running \notin Sleepers
  BY <1>1 DEF ProcInv, ReadyListed, InUserCode, Sleepers
<1> QED
  BY <1>2, <1>4, <1>5 DEF q

\* A turn of the scheduler keeps the invariant.
LEMMA AgeingScheduleKeeps ==
    ASSUME AgeingInv, AgeingTick \/ AgeingPreempt
    PROVE  AgeingInv'
<1>1. PICK now \in Int : InUserCode /\ AgeingSchedule(now) /\ time' \in 0 .. MaxTime
  <2>1. time \in 0 .. MaxTime /\ SleepersHaveTimers /\ 0 .. MaxTime \subseteq Int
    BY DEF AgeingInv, Stage03Inv, SleepersHaveTimers, TimersTypeOK
  <2>2. CASE AgeingPreempt
    BY <2>1, <2>2 DEF AgeingPreempt
  <2>3. CASE AgeingTick
    BY <2>1, <2>3, ClockTicks DEF AgeingTick
  <2> QED
    BY <2>2, <2>3
<1> DEFINE q == ReadyAwake(now)
           p == PcbsAwake(now)
           k == LeastIn(q, Aged(q))
<1>2. /\ \/ q = <<>> /\ pcb' = p /\ ready_list' = q /\ running' = running /\ prio' = prio
         \/ /\ q # <<>> /\ k \in DOMAIN q /\ SwitchTo(p, q, k)
            /\ prio' = [Aged(q) EXCEPT ![running].current = prio[running].default]
  BY <1>1, AgeingScheduleSwitches
<1>3. Stage03Inv'
  <2>1. RemoveExpired(now) /\ UNCHANGED <<free, ptrs, last_pid, init_pcb, ret, halt>>
    BY <1>1 DEF AgeingSchedule
  <2>2. \/ q = <<>> /\ pcb' = p /\ ready_list' = q /\ running' = running
        \/ \E i \in DOMAIN q : SwitchTo(p, q, i)
    <3> HIDE DEF p, q, k
    <3> QED
      BY <1>2
  <2> QED
    BY <1>1, <2>1, <2>2, SchedulingKeepsTimers DEF AgeingInv
<1>4. prio' \in [Blocks -> PrioType]
  <2>1. prio \in [Blocks -> PrioType] /\ Aged(q) \in [Blocks -> PrioType]
    BY AgedTypes DEF AgeingInv
  <2>2. running \in Blocks
    BY <1>1 DEF AgeingInv, Stage03Inv, ProcInv, ProcessesTypeOK, InUserCode
  <2>3. \A r \in PrioType, c \in Nat : [r EXCEPT !.current = c] \in PrioType
    BY DEF PrioType
  <2> DEFINE a == Aged(q)
             c == prio[running].default
             x == [a[running] EXCEPT !.current = c]
  <2> HIDE DEF p, q, k, a
  <2>4. c \in Nat /\ x \in PrioType
    <3>1. c \in Nat
      BY <2>1, <2>2 DEF PrioType
    <3>2. a[running] \in PrioType
      BY <2>1, <2>2 DEF a
    <3> QED
      BY <3>1, <3>2, <2>3
  <2>5. prio' = prio \/ prio' = [a EXCEPT ![running] = x]
    BY <1>2 DEF a
  <2> HIDE DEF x, c
  <2> QED
    BY <2>1, <2>2, <2>4, <2>5 DEF a
<1> QED
  BY <1>3, <1>4 DEF AgeingInv

\* Every step keeps the invariant.
LEMMA AgeingStepKeeps ==
    ASSUME AgeingInv, [AgeingNext]_ageingVars
    PROVE  AgeingInv'
<1>1. Stage03Inv /\ prio \in [Blocks -> PrioType]
  BY DEF AgeingInv
<1>2. ASSUME Stage03Inv', UNCHANGED prio
      PROVE  AgeingInv'
  BY <1>1, <1>2 DEF AgeingInv
<1>3. CASE OtherStep /\ UNCHANGED <<timerVars, prio>>
  BY <1>1, <1>2, <1>3, OthersKeepTimers
<1>4. CASE AgeingTick \/ AgeingPreempt
  BY <1>4, AgeingScheduleKeeps
<1>5. ASSUME NEW n \in SleepArgs, AgeingSleep(n)
      PROVE  AgeingInv'
  BY <1>1, <1>2, <1>5, SleepKeepsTimers DEF AgeingSleep
<1>6. ASSUME NEW d \in Nat, NEW g \in Nat, Spawn \/ Restart, UNCHANGED timerVars,
             prio' = [prio EXCEPT ![NextPcb] = NewPrio(d, g)]
      PROVE  AgeingInv'
  <2>1. Stage03Inv' /\ NextPcb \in Blocks
    BY <1>1, <1>6, BirthsKeepTimers
  <2>2. NewPrio(d, g) \in PrioType
    BY DEF NewPrio, PrioType
  <2> QED
    BY <1>1, <1>6, <2>1, <2>2 DEF AgeingInv
<1>7. ASSUME NEW d \in Priorities, NEW g \in Gains, AgeingSpawn(d, g)
      PROVE  AgeingInv'
  <2>1. d \in Nat /\ g \in Nat
    BY AgeingAssumption
  <2> QED
    BY <2>1, <1>6, <1>7 DEF AgeingSpawn
<1>8. CASE AgeingRestart
  BY <1>6, <1>8 DEF AgeingRestart
<1>9. CASE AgeingExit
  BY <1>1, <1>2, <1>9, ExitKeepsTimers DEF AgeingExit
<1>10. CASE UNCHANGED ageingVars
  <2>1. UNCHANGED <<procVars, timerVars, prio>>
    BY <1>10 DEF ageingVars, stageVars
  <2>2. ProcInv' <=> ProcInv
    BY <2>1 DEF procVars, ProcInv, ProcessesTypeOK, ReadyListed, FreeIsWhole, FieldsFit, Partition,
          Children, Allocated, Kids, InitLives, PidsDistinct, PtrsSuffice
  <2>3. SleepersHaveTimers' <=> SleepersHaveTimers
    BY <2>1 DEF procVars, timerVars, SleepersHaveTimers, TimersTypeOK, Allocated
  <2> QED
    BY <1>1, <1>2, <2>1, <2>2, <2>3 DEF Stage03Inv
<1> QED
  BY <1>3, <1>4, <1>5, <1>7, <1>8, <1>9, <1>10 DEF AgeingNext

\* The invariant of the ageing stage: the processes are in order, their timers are those
\* of the sleepers, and priorities stay naturals.
THEOREM AgeingHasInv == AgeingSpec => []AgeingInv
<1>1. AgeingInit => AgeingInv
  BY InitKeepsTimers DEF AgeingInit, AgeingInv, NewPrio, PrioType
<1>2. AgeingInv /\ [AgeingNext]_ageingVars => AgeingInv'
  BY AgeingStepKeeps
<1> QED
  BY <1>1, <1>2, PTL DEF AgeingSpec

\* The lists of processes agree with the PCBs, with timers and ageing too.
THEOREM AgeingListsProcesses == AgeingSpec => []ProcessesListed
<1>1. AgeingInv => ProcessesListed
  BY InvListsProcesses DEF AgeingInv, Stage03Inv
<1> QED
  BY <1>1, AgeingHasInv, PTL

\* Whoever sleeps has one timer, in its place, and nobody else has one.
THEOREM AgeingSleepersHaveTimers == AgeingSpec => []SleepersHaveTimers
<1>1. AgeingInv => SleepersHaveTimers
  BY DEF AgeingInv, Stage03Inv
<1> QED
  BY <1>1, AgeingHasInv, PTL

\* What NobodyOvertakes says of a step and of b, but for the priority of b.
Overtaken(b) ==
    \/ ~ (InFront(ready_list', b) \subseteq InFront(ready_list, b))
    \/ /\ running \notin {Null, running'}
       /\ running' \notin InFront(ready_list, b) \ ToSet(ready_list')
       /\ pcb[running'].awaits = NotInWait

\* A step that leaves the ready list alone, or takes its head, overtakes nobody on it.
LEMMA ShrinkingOvertakesNobody ==
    ASSUME ProcInv, ReadyShrinks,
           NEW b, b \in ToSet(ready_list), b \in ToSet(ready_list')
    PROVE  ~ Overtaken(b)
<1>1. /\ ready_list \in Seq(Blocks) /\ IsInjective(ready_list) /\ ready_list # <<>>
  BY ProcTypes, SeqEmpty DEF ProcInv, ReadyListed
<1>2. CASE ready_list' = ready_list /\ running' = running
  BY <1>2 DEF Overtaken
<1>3. CASE ready_list' = Tail(ready_list) /\ running' = Head(ready_list)
  <2>1. InFront(ready_list', b) \subseteq InFront(ready_list, b)
    BY <1>1, <1>3, TailOvertakesNobody
  <2>2. ToSet(ready_list') = ToSet(ready_list) \ {running'}
    BY <1>1, <1>3, SeqTail
  <2>3. running' \in InFront(ready_list, b)
    <3>1. /\ Len(ready_list) \in Nat /\ DOMAIN ready_list = 1 .. Len(ready_list)
          /\ Head(ready_list) = ready_list[1] /\ Len(ready_list) > 0
      BY <1>1, EmptySeq, LenProperties
    <3>2. PICK j \in DOMAIN ready_list : ready_list[j] = b
      BY DEF ToSet
    <3>3. 1 \in DOMAIN ready_list /\ 1 < j /\ running' = ready_list[1]
      BY <1>3, <2>2, <3>1, <3>2
    <3> QED
      BY <3>2, <3>3 DEF InFront
  <2> QED
    BY <2>1, <2>2, <2>3 DEF Overtaken
<1> QED
  BY <1>1, <1>2, <1>3 DEF ReadyShrinks

\* Nobody is overtaken by a step without the scheduler.
LEMMA OthersOvertakeNobody ==
    ASSUME ProcInv,
           \/ OtherStep \/ Spawn \/ Restart
           \/ ExitReleasesTimers \/ \E n \in SleepArgs : Sleep(n),
           NEW b, b \in ToSet(ready_list), b \in ToSet(ready_list')
    PROVE  ~ Overtaken(b)
<1>1. ready_list \in Seq(Blocks)
  BY ProcTypes
<1>2. CASE OtherStep \/ \E n \in SleepArgs : Sleep(n)
  <2>1. ReadyShrinks
    BY <1>2, OthersShrinkReady DEF Sleep, ReadyShrinks
  <2> QED
    BY <2>1, ShrinkingOvertakesNobody
<1>3. CASE Spawn
  <2>1. /\ ready_list' = Append(ready_list, NextPcb) /\ running' = running
        /\ NextPcb \in Blocks /\ NextPcb # b
    BY <1>3, NextIsFree DEF Spawn
  <2> QED
    BY <1>1, <2>1, AppendOvertakesNobody DEF Overtaken
<1>4. CASE Restart
  BY <1>4 DEF Restart, Overtaken
<1>5. CASE ExitReleasesTimers
  <2>1. /\ ready_list' = ready_list /\ running' = father /\ FatherWaits
        /\ running \in Blocks \ {Null} /\ running \in Allocated
    BY <1>5, ProcTypes
       DEF ExitReleasesTimers, ExitToParent, CanExit, InUserCode, ProcInv, ProcessesTypeOK,
           ReadyListed
  <2>2. pcb[running].pid # NotInWait
    BY <2>1 DEF ProcInv, PidsDistinct, NotInWait
  <2>3. pcb[running'].awaits # NotInWait
    BY <2>1, <2>2 DEF FatherWaits, AnyChild, NotInWait
  <2> QED
    BY <2>1, <2>3 DEF Overtaken
<1> QED
  BY <1>2, <1>3, <1>4, <1>5

\* Nor by a turn of the scheduler, once b has aged down to 0: b stays there, and whoever is
\* taken for the first of the least is not behind it.
LEMMA ScheduleOvertakesNobody ==
    ASSUME AgeingInv, NEW now \in Int, InUserCode, AgeingSchedule(now),
           NEW b, b \in ToSet(ready_list), b \in ToSet(ready_list'), prio[b].current = 0
    PROVE  prio'[b].current = 0 /\ ~ Overtaken(b)
<1> DEFINE q == ReadyAwake(now)
           a == Aged(q)
           k == LeastIn(q, a)
<1>1. /\ ready_list \in Seq(Blocks) /\ Woken(now) \in Seq(Blocks) /\ q = ready_list \o Woken(now)
      /\ b \in Blocks /\ b # running /\ running \in Blocks
      /\ b \in ToSet(q) /\ b \notin ToSet(Woken(now))
  <2>1. /\ ProcInv /\ Lined(timers, Sleepers) /\ Sleepers \in SUBSET Blocks /\ RemoveExpired(now)
    BY LinedIsSleepersHaveTimers, ProcTypes DEF AgeingInv, Stage03Inv, Sleepers, AgeingSchedule
  <2>2. Woken(now) \in Seq(Blocks) /\ ToSet(Woken(now)) \subseteq Sleepers
    BY <2>1, ExpiredWake
  <2>3. /\ ready_list \in Seq(Blocks) /\ b \in Blocks /\ b # running /\ running \in Blocks
        /\ pcb[b].status = "Ready"
    BY <2>1, ProcTypes, ToSetType DEF ProcInv, ReadyListed, InUserCode, ProcessesTypeOK
  <2>4. ToSet(ready_list \o Woken(now)) = ToSet(ready_list) \cup ToSet(Woken(now))
    BY <2>2, <2>3, SeqConcat
  <2> QED
    BY <2>2, <2>3, <2>4 DEF ReadyAwake, Sleepers
<1>2. InFront(q, b) \subseteq InFront(ready_list, b)
  BY <1>1, ConcatOvertakesNobody
<1>3. /\ q \in Seq(Blocks)
      /\ \/ ready_list' = q /\ running' = running /\ prio' = prio
         \/ /\ q # <<>> /\ k \in DOMAIN q /\ SwitchTo(PcbsAwake(now), q, k)
            /\ prio' = [a EXCEPT ![running].current = prio[running].default]
  BY AgeingScheduleSwitches
<1>4. CASE ready_list' = q /\ running' = running /\ prio' = prio
  BY <1>2, <1>4 DEF Overtaken
<1>5. CASE /\ q # <<>> /\ k \in DOMAIN q /\ SwitchTo(PcbsAwake(now), q, k)
           /\ prio' = [a EXCEPT ![running].current = prio[running].default]
  <2>1. prio \in [Blocks -> PrioType] /\ a \in [Blocks -> PrioType]
    BY AgedTypes DEF AgeingInv
  <2>2. a[b].current = 0
    BY <1>1, <2>1, ZeroStays
  <2>3. \A j \in DOMAIN q : j < k => a[q[k]].current < a[q[j]].current
    BY <1>3, <1>5, <2>1, LeastIsFound
  <2>3a. \A j \in DOMAIN q : a[q[k]].current <= a[q[j]].current
    BY <1>3, <1>5, <2>1, LeastIsFound
  <2>4. IsInjective(q) /\ running \notin ToSet(q)
    BY AwakeIsInOrder
  <2>5. ready_list' = Append(RemoveAt(q, k), running) /\ running' = q[k]
    BY <1>5 DEF SwitchTo
  <2>6. RemoveAt(q, k) \in Seq(Blocks) /\ ToSet(RemoveAt(q, k)) = ToSet(q) \ {q[k]}
    BY <1>3, <1>5, <2>4, SeqRemoveAt
  <2>7. ToSet(ready_list') = (ToSet(q) \ {q[k]}) \cup {running}
    <3> HIDE DEF a, q, k
    <3>1. running \in Blocks /\ RemoveAt(q, k) \in Seq(Blocks)
      BY <1>1, <2>6
    <3>2. ToSet(Append(RemoveAt(q, k), running)) = ToSet(RemoveAt(q, k)) \cup {running}
      BY <3>1, SeqAppend
    <3> QED
      BY <2>5, <2>6, <3>2
  <2>8. prio'[b].current = 0
    <3> HIDE DEF a, q, k
    <3> QED
      BY <1>1, <1>5, <2>1, <2>2
  <2>9. InFront(ready_list', b) \subseteq InFront(ready_list, b)
    <3>1. InFront(RemoveAt(q, k), b) \subseteq InFront(q, b)
      BY <1>3, <1>5, <2>4, RemovalOvertakesNobody
    <3>2. InFront(ready_list', b) \subseteq InFront(RemoveAt(q, k), b)
      BY <1>1, <2>5, <2>6, AppendOvertakesNobody
    <3> QED
      BY <1>2, <3>1, <3>2
  <2>10. q[k] \in InFront(q, b) /\ q[k] \in ToSet(q) /\ q[k] # running
    <3>1. PICK j \in DOMAIN q : q[j] = b
      BY <1>1 DEF ToSet
    <3>2. /\ q[k] # b /\ q[k] \in ToSet(q) /\ q[k] # running
      BY <1>1, <1>5, <2>4, <2>7 DEF ToSet
    <3>3. q[k] \in Blocks /\ a[q[k]].current \in Nat /\ DOMAIN q \subseteq Nat
      <4> HIDE DEF a, q, k
      <4>1. ToSet(q) \subseteq Blocks
        BY <1>3, ToSetType
      <4>2. DOMAIN q = 1 .. Len(q) /\ Len(q) \in Nat
        BY <1>3, LenProperties
      <4> QED
        BY <2>1, <3>2, <4>1, <4>2 DEF PrioType
    <3>4. k < j
      <4>1. ~ (j < k)
        BY <2>2, <2>3, <3>1, <3>3
      <4> HIDE DEF a, q, k
      <4> QED
        BY <1>5, <3>1, <3>2, <3>3, <4>1
    <3> HIDE DEF a, q, k
    <3> QED
      BY <1>5, <3>1, <3>2, <3>4 DEF InFront
  <2> HIDE DEF a, q, k
  <2> QED
    BY <1>2, <2>5, <2>7, <2>8, <2>9, <2>10 DEF Overtaken
<1> QED
  BY <1>3, <1>4, <1>5

\* Once a ready process has aged down to 0, nobody overtakes it.
THEOREM NoneOvertake == AgeingSpec => NobodyOvertakes
<1> DEFINE Kept == \A b \in Blocks :
              Ready(b) /\ Ready(b)' /\ prio[b].current = 0 =>
                 /\ prio'[b].current = 0
                 /\ Ahead(b)' \subseteq Ahead(b)
                 /\ running \notin {Null, running'} =>
                       \/ running' \in Ahead(b) \ ToSet(ready_list')
                       \/ pcb[running'].awaits # NotInWait
<1>1. ASSUME AgeingInv, AgeingNext
      PROVE  Kept
  <2> SUFFICES ASSUME NEW b \in Blocks, b \in ToSet(ready_list), b \in ToSet(ready_list'),
                      prio[b].current = 0
               PROVE  prio'[b].current = 0 /\ ~ Overtaken(b)
    BY DEF Ready, Ahead, InFront, Overtaken
  <2>0. ProcInv
    BY <1>1 DEF AgeingInv, Stage03Inv
  <2>1. CASE AgeingTick \/ AgeingPreempt
    <3>1. PICK now \in Int : InUserCode /\ AgeingSchedule(now)
      <4>1. time \in Int /\ SleepersHaveTimers
        BY <1>1 DEF AgeingInv, Stage03Inv, SleepersHaveTimers, TimersTypeOK
      <4> QED
        BY <2>1, <4>1, ClockTicks DEF AgeingPreempt, AgeingTick
    <3> QED
      BY <1>1, <3>1, ScheduleOvertakesNobody
  <2>2. CASE ~(AgeingTick \/ AgeingPreempt)
    <3>1. \/ OtherStep \/ Spawn \/ Restart
          \/ ExitReleasesTimers \/ \E n \in SleepArgs : Sleep(n)
      BY <1>1, <2>2 DEF AgeingNext, AgeingSpawn, AgeingRestart, AgeingExit, AgeingSleep
    <3>2. prio'[b] = prio[b]
      <4>1. CASE prio' = prio
        BY <4>1
      <4>2. CASE \E d, g : (Spawn \/ Restart) /\ prio' = [prio EXCEPT ![NextPcb] = NewPrio(d, g)]
        <5>1. NextPcb # b
          BY <2>0, <4>2, NextIsFree DEF Spawn, Restart
        <5> QED
          BY <1>1, <4>2, <5>1 DEF AgeingInv
      <4> QED
        BY <1>1, <2>2, <4>1, <4>2
           DEF AgeingNext, AgeingSpawn, AgeingRestart, AgeingExit, AgeingSleep
    <3> QED
      BY <2>0, <3>1, <3>2, OthersOvertakeNobody
  <2> QED
    BY <2>1, <2>2
<1>2. AgeingInv /\ [AgeingNext]_ageingVars => [Kept]_ageingVars
  BY <1>1
<1> QED
  BY <1>2, AgeingHasInv, PTL DEF AgeingSpec, NobodyOvertakes

-----------------------------------------------------------------------------
(* The scheduler with quanta                                               *)

QuantumType == [total : 1 .. MAX_PRIORITY, elapsed : 0 .. MAX_PRIORITY, to_go : 0 .. MAX_PRIORITY]

\* The quanta q of every block add up, and whoever is in ready has one to go.
QuantaAddUp(q, ready) ==
    /\ q \in [Blocks -> QuantumType]
    /\ \A b \in Blocks : q[b].elapsed + q[b].to_go = q[b].total
    /\ \A b \in ready : q[b].to_go >= 1

QuantaInv == ProcInv /\ QuantaAddUp(quanta, ToSet(ready_list))

\* What the run checks follows from it.
LEMMA InvIsHealthy == QuantaInv => QuantaHealthy
<1> SUFFICES ASSUME QuantaInv PROVE QuantaHealthy
  OBVIOUS
<1>1. /\ running \in Blocks \cup {Null} /\ Allocated \subseteq Blocks
      /\ QuantaAddUp(quanta, ToSet(ready_list))
  BY ProcTypes DEF QuantaInv, ProcInv, ProcessesTypeOK
<1>2. \A b \in Blocks : Healthy(b)
  BY <1>1, QuantaAssumption DEF QuantaAddUp, Healthy, QuantumType
<1> QED
  BY <1>1, <1>2 DEF QuantaHealthy, QuantaAddUp

\* Fresh quanta are a process's own.
LEMMA FreshAddUp ==
    ASSUME NEW q, NEW R, QuantaAddUp(q, R), NEW b \in Blocks, NEW n \in 1 .. MAX_PRIORITY
    PROVE  QuantaAddUp([q EXCEPT ![b] = Fresh(n)], R \cup {b})
<1> DEFINE r == Fresh(n)
<1>1. r \in QuantumType /\ r.elapsed + r.to_go = r.total /\ r.to_go >= 1
  BY QuantaAssumption DEF Fresh, QuantumType
<1> HIDE DEF r
<1>2. [q EXCEPT ![b] = r] \in [Blocks -> QuantumType]
  BY <1>1 DEF QuantaAddUp
<1>3. \A o \in Blocks : [q EXCEPT ![b] = r][o] = IF o = b THEN r ELSE q[o]
  BY DEF QuantaAddUp
<1>4. \A o \in Blocks : LET x == [q EXCEPT ![b] = r][o] IN x.elapsed + x.to_go = x.total
  BY <1>1, <1>3 DEF QuantaAddUp
<1>5. \A o \in R \cup {b} : [q EXCEPT ![b] = r][o].to_go >= 1
  BY <1>1 DEF QuantaAddUp
<1> QED
  BY <1>2, <1>4, <1>5 DEF QuantaAddUp, r

\* Who has a quantum to go uses it up.
LEMMA ConsumeAddsUp ==
    ASSUME NEW q, NEW R, QuantaAddUp(q, R), NEW b \in R, b \in Blocks
    PROVE  QuantaAddUp(Consume(q, b), R \ {b})
<1> DEFINE r == [q[b] EXCEPT !.to_go = @ - 1, !.elapsed = q[b].total - (q[b].to_go - 1)]
<1>1. q[b] \in QuantumType /\ q[b].elapsed + q[b].to_go = q[b].total /\ q[b].to_go >= 1
  BY DEF QuantaAddUp
<1>2. r.total = q[b].total /\ r.to_go = q[b].to_go - 1 /\ r.elapsed = q[b].elapsed + 1
  BY <1>1, QuantaAssumption DEF QuantumType
<1>3. r.to_go \in 0 .. MAX_PRIORITY /\ r.elapsed \in 0 .. MAX_PRIORITY
  BY <1>1, <1>2, QuantaAssumption DEF QuantumType
<1>4. r \in QuantumType
  <2>1. \A z \in QuantumType, x \in 0 .. MAX_PRIORITY, y \in 0 .. MAX_PRIORITY :
           [z EXCEPT !.to_go = x, !.elapsed = y] \in QuantumType
    BY DEF QuantumType
  <2>2. r = [q[b] EXCEPT !.to_go = r.to_go, !.elapsed = r.elapsed]
    BY <1>1 DEF QuantumType
  <2> HIDE DEF r
  <2> QED
    BY <1>1, <1>3, <2>1, <2>2
<1>5. r.elapsed + r.to_go = r.total
  BY <1>1, <1>2, QuantaAssumption DEF QuantumType
<1>6. Consume(q, b) = [q EXCEPT ![b] = r]
  BY DEF Consume, QuantaAddUp
<1> HIDE DEF r
<1>7. [q EXCEPT ![b] = r] \in [Blocks -> QuantumType]
  BY <1>4 DEF QuantaAddUp
<1>8. \A o \in Blocks : [q EXCEPT ![b] = r][o] = IF o = b THEN r ELSE q[o]
  BY DEF QuantaAddUp
<1>9. \A o \in R \ {b} : [q EXCEPT ![b] = r][o].to_go >= 1
  BY DEF QuantaAddUp
<1>10. \A o \in Blocks : LET x == [q EXCEPT ![b] = r][o] IN x.elapsed + x.to_go = x.total
  BY <1>5, <1>8 DEF QuantaAddUp
<1> QED
  BY <1>6, <1>7, <1>9, <1>10 DEF QuantaAddUp

\* The scheduler finds the first with most quanta to go.
LEMMA MostIsFound ==
    ASSUME QuantaInv, ready_list # <<>>
    PROVE  MostToGo \in DOMAIN ready_list
<1> DEFINE v == [i \in 1 .. Len(ready_list) |-> MAX_PRIORITY - quanta[ready_list[i]].to_go]
<1>1. /\ ready_list \in Seq(Blocks) /\ Len(ready_list) \in Nat \ {0}
      /\ DOMAIN ready_list = 1 .. Len(ready_list)
      /\ \A i \in 1 .. Len(ready_list) : ready_list[i] \in Blocks
  BY ProcTypes, EmptySeq, LenProperties DEF QuantaInv
<1>2. \A i \in DOMAIN ready_list : quanta[ready_list[i]].to_go \in 0 .. MAX_PRIORITY
  BY <1>1 DEF QuantaInv, QuantaAddUp, QuantumType
<1>3. v \in [1 .. Len(ready_list) -> Nat]
  BY <1>1, <1>2, QuantaAssumption
<1>4. \E i \in DOMAIN ready_list : \A j \in DOMAIN ready_list : /\ v[i] <= v[j]
                                                                /\ j < i => v[i] < v[j]
  BY <1>1, <1>3, FirstOfTheLeast
<1>5. \E i \in DOMAIN ready_list : \A j \in DOMAIN ready_list :
        /\ quanta[ready_list[i]].to_go >= quanta[ready_list[j]].to_go
        /\ j < i => quanta[ready_list[i]].to_go > quanta[ready_list[j]].to_go
  <2>1. PICK i \in DOMAIN ready_list : \A j \in DOMAIN ready_list : /\ v[i] <= v[j]
                                                                    /\ j < i => v[i] < v[j]
    BY <1>4
  <2>2. ASSUME NEW j \in DOMAIN ready_list
        PROVE  /\ quanta[ready_list[i]].to_go >= quanta[ready_list[j]].to_go
               /\ j < i => quanta[ready_list[i]].to_go > quanta[ready_list[j]].to_go
    <3>1. /\ v[i] = MAX_PRIORITY - quanta[ready_list[i]].to_go
          /\ v[j] = MAX_PRIORITY - quanta[ready_list[j]].to_go
          /\ v[i] <= v[j] /\ (j < i => v[i] < v[j])
      BY <1>1, <2>1
    <3> HIDE DEF v
    <3> QED
      BY <1>2, <3>1, QuantaAssumption
  <2> QED
    BY <2>2
<1> QED
  BY <1>5 DEF MostToGo

\* A turn of the scheduler keeps the invariant: the process that runs next has a quantum
\* to go, and so has the one that leaves the CPU.
LEMMA QuantaScheduleKeeps ==
    ASSUME QuantaInv, InUserCode, QuantaSchedule
    PROVE  QuantaInv'
<1> DEFINE R == ToSet(ready_list) \cup {running}
<1>1. /\ ProcInv /\ running \in Blocks /\ running \notin ToSet(ready_list)
      /\ ready_list \in Seq(Blocks) /\ IsInjective(ready_list) /\ ToSet(ready_list) \subseteq Blocks
      /\ QuantaAddUp(quanta, ToSet(ready_list))
  BY ProcTypes, ToSetType DEF QuantaInv, ProcInv, ReadyListed, InUserCode, ProcessesTypeOK
<1>2. QuantaAddUp(Refilled, R)
  <2>1. CASE quanta[running].to_go = 0
    <3>1. quanta[running].total \in 1 .. MAX_PRIORITY
      BY <1>1 DEF QuantaAddUp, QuantumType
    <3>2. Refilled = [quanta EXCEPT ![running] = Fresh(quanta[running].total)]
      BY <2>1 DEF Refilled
    <3> QED
      BY <1>1, <3>1, <3>2, FreshAddUp
  <2>2. CASE quanta[running].to_go # 0
    <3>1. quanta[running].to_go >= 1
      BY <1>1, <2>2, QuantaAssumption DEF QuantaAddUp, QuantumType
    <3>2. Refilled = quanta
      BY <2>2 DEF Refilled
    <3> QED
      BY <1>1, <3>1, <3>2 DEF QuantaAddUp
  <2> QED
    BY <2>1, <2>2
<1>3. quanta' = Consume(Refilled, running')
  BY DEF QuantaSchedule
<1>4. /\ running' \in R /\ running' \in Blocks
      /\ ToSet(ready_list') = R \ {running'}
      /\ \/ ready_list = <<>> /\ pcb' = pcb /\ ready_list' = ready_list /\ running' = running
         \/ \E i \in DOMAIN ready_list : SwitchTo(pcb, ready_list, i)
  <2>1. CASE ready_list = <<>>
    <3>1. UNCHANGED <<pcb, running, ready_list>> /\ ToSet(ready_list) = {}
      BY <2>1, SeqEmpty DEF QuantaSchedule
    <3> QED
      BY <1>1, <2>1, <3>1
  <2>2. CASE ready_list # <<>>
    <3> DEFINE i == MostToGo
               rest == RemoveAt(ready_list, i)
    <3>1. i \in DOMAIN ready_list /\ SwitchTo(pcb, ready_list, i)
      BY <2>2, MostIsFound DEF QuantaSchedule
    <3> HIDE DEF i
    <3>2. rest \in Seq(Blocks) /\ ToSet(rest) = ToSet(ready_list) \ {ready_list[i]}
      BY <1>1, <3>1, SeqRemoveAt
    <3>3. ready_list' = Append(rest, running) /\ running' = ready_list[i]
      BY <3>1 DEF SwitchTo
    <3> HIDE DEF rest
    <3>4. ToSet(ready_list') = ToSet(rest) \cup {running}
      BY <1>1, <3>2, <3>3, SeqAppend
    <3>5. ready_list[i] \in ToSet(ready_list)
      BY <3>1 DEF ToSet
    <3> QED
      BY <1>1, <3>1, <3>2, <3>3, <3>4, <3>5
  <2> QED
    BY <2>1, <2>2
<1>5. QuantaAddUp(quanta', ToSet(ready_list'))
  BY <1>2, <1>3, <1>4, ConsumeAddsUp
<1>6. Awake(pcb, ready_list, <<>>)
  <2>1. ToSet(<<>>) = {}
    BY SeqEmpty
  <2> QED
    BY <1>1, <2>1, ProcTypes DEF Awake, OnlyStatus
<1>7. ProcInv'
  <2>1. UNCHANGED <<free, ptrs, last_pid, init_pcb, ret, halt>>
    BY DEF QuantaSchedule
  <2> QED
    BY <1>1, <1>4, <1>6, <2>1, SchedulingKeepsProcs
<1> QED
  BY <1>5, <1>7 DEF QuantaInv, QuantaAddUp

\* Every step keeps the invariant.
LEMMA QuantaStepKeeps ==
    ASSUME QuantaInv, [QuantaNext]_quantaVars
    PROVE  QuantaInv'
<1>1. ProcInv /\ QuantaAddUp(quanta, ToSet(ready_list))
  BY DEF QuantaInv
<1>2. ASSUME ProcInv', UNCHANGED quanta, ToSet(ready_list') \subseteq ToSet(ready_list)
      PROVE  QuantaInv'
  BY <1>1, <1>2 DEF QuantaInv, QuantaAddUp
<1>3. CASE OtherStep /\ UNCHANGED quanta
  <2>1. ReadyShrinks
    BY <1>3, OthersShrinkReady
  <2> QED
    BY <1>1, <1>2, <1>3, <2>1, OthersKeepProcs, ShrunkReady
<1>4. CASE QuantaTick \/ QuantaPreempt
  BY <1>4, QuantaScheduleKeeps DEF QuantaTick, QuantaPreempt
<1>5. ASSUME Spawn \/ Restart, NEW n \in 1 .. MAX_PRIORITY,
             quanta' = [quanta EXCEPT ![NextPcb] = Fresh(n)]
      PROVE  QuantaInv'
  <2>1. /\ ProcInv' /\ NextPcb \in Blocks
        /\ ToSet(ready_list') \subseteq ToSet(ready_list) \cup {NextPcb}
    BY <1>1, <1>5, SpawnKeepsProcs, RestartKeepsProcs
  <2>2. QuantaAddUp(quanta', ToSet(ready_list) \cup {NextPcb})
    BY <1>1, <1>5, <2>1, FreshAddUp
  <2> QED
    BY <2>1, <2>2 DEF QuantaInv, QuantaAddUp
<1>6. CASE SpawnPlain \/ QuantaRestart
  <2>1. 1 \in 1 .. MAX_PRIORITY
    BY QuantaAssumption
  <2> QED
    BY <1>5, <1>6, <2>1 DEF SpawnPlain, QuantaRestart
<1>7. ASSUME NEW n \in Requests, SpawnWithPriority(n)
      PROVE  QuantaInv'
  <2>1. n \in 1 .. MAX_PRIORITY
    BY <1>7, QuantaAssumption DEF SpawnWithPriority, Acceptable
  <2> QED
    BY <1>5, <1>7, <2>1 DEF SpawnWithPriority
<1>8. ASSUME NEW n \in Requests, SpawnRefused(n)
      PROVE  QuantaInv'
  <2>1. /\ UNCHANGED <<pcb, free, ptrs, last_pid, init_pcb, running, ready_list, halt, quanta>>
        /\ ret' = [ret EXCEPT ![running] = ESPAWN_W_PRIORITY]
    BY <1>8 DEF SpawnRefused
  <2>2. ret' \in [Blocks -> Int] /\ halt' \in Halts
    <3>1. ESPAWN_W_PRIORITY \in Int
      BY DEF ESPAWN_W_PRIORITY
    <3>2. ret \in [Blocks -> Int] /\ halt \in Halts
      BY <1>1 DEF ProcInv, ProcessesTypeOK
    <3> QED
      BY <2>1, <3>1, <3>2
  <2>3. ProcInv'
    BY <1>1, <2>1, <2>2, AnswersKeepProcs
  <2> QED
    BY <1>2, <2>1, <2>3
<1>9. CASE QuantaExit
  BY <1>1, <1>2, <1>9, ExitToParentKeepsProcs DEF QuantaExit
<1>10. CASE UNCHANGED quantaVars
  <2>1. UNCHANGED <<procVars, quanta>>
    BY <1>10 DEF quantaVars
  <2>2. ProcInv' <=> ProcInv
    BY <2>1 DEF procVars, ProcInv, ProcessesTypeOK, ReadyListed, FreeIsWhole, FieldsFit, Partition,
          Children, Allocated, Kids, InitLives, PidsDistinct, PtrsSuffice
  <2>3. UNCHANGED ready_list
    BY <2>1 DEF procVars
  <2> QED
    BY <1>1, <1>2, <2>1, <2>2, <2>3
<1> QED
  BY <1>3, <1>4, <1>6, <1>7, <1>8, <1>9, <1>10 DEF QuantaNext

\* The invariant of the stage with quanta: the processes are in order, and quanta add up.
THEOREM QuantaHasInv == QuantaSpec => []QuantaInv
<1>1. QuantaInit => QuantaInv
  <2> SUFFICES ASSUME QuantaInit PROVE QuantaInv
    OBVIOUS
  <2>1. ProcInv /\ quanta = [b \in Blocks |-> Fresh(1)] /\ ToSet(ready_list) = {}
    BY InitKeepsProcs, SeqEmpty DEF QuantaInit, ProcessesInit
  <2>2. Fresh(1) \in QuantumType /\ Fresh(1).elapsed + Fresh(1).to_go = Fresh(1).total
    BY QuantaAssumption DEF Fresh, QuantumType
  <2> QED
    BY <2>1, <2>2 DEF QuantaInv, QuantaAddUp
<1>2. QuantaInv /\ [QuantaNext]_quantaVars => QuantaInv'
  BY QuantaStepKeeps
<1> QED
  BY <1>1, <1>2, PTL DEF QuantaSpec

\* The assertions of the scheduler hold, and no quantum is lost.
THEOREM QuantaStayHealthy == QuantaSpec => []QuantaHealthy
BY QuantaHasInv, InvIsHealthy, PTL

\* The lists of processes agree with the PCBs in the stage with quanta.
THEOREM QuantaListsProcesses == QuantaSpec => []ProcessesListed
<1>1. QuantaInv => ProcessesListed
  BY InvListsProcesses DEF QuantaInv
<1> QED
  BY <1>1, QuantaHasInv, PTL

-----------------------------------------------------------------------------
(* The resources                                                           *)

FdPairs == Pids \X (0 .. MaxFd)

Descriptors == UNION {[D -> Ids] : D \in SUBSET (0 .. MaxFd)}

ResourcesTyped ==
    /\ DOMAIN type \subseteq Ids /\ type \in [DOMAIN type -> Types]
    /\ users \in [DOMAIN type -> SUBSET FdPairs]
    /\ descriptors \in [Blocks -> Descriptors]
    /\ last_fd \in [Blocks -> 0 .. MaxFd]
    /\ free_descs \in 0 .. MaxProcs /\ free_descptrs = free_descs

\* What is on the list of each resource; and nothing is, if there is none.
Ent == [id \in Ids |-> IF id \in DOMAIN type THEN users[id] ELSE {}]

PidOf == [b \in Blocks |-> pcb[b].pid]

\* No pair of a process that is to come is on a list, and no descriptor that is to come
\* is in the list of its process.
NoneAhead(ent, pid, desc, fd) ==
    /\ \A id \in Ids : \A e \in ent[id] : e[1] < pid
    /\ \A b \in Blocks : \A d \in DOMAIN desc[b] : d < fd[b]

\* The lists of the resources are those of the descriptors of the processes A.
LinkedFor(ent, A, pid, desc) ==
    \A b \in A, fd \in 0 .. MaxFd, id \in Ids :
        <<pid[b], fd>> \in ent[id] <=> fd \in DOMAIN desc[b] /\ desc[b][fd] = id

\* The entries of all lists.
PlacesOf(ent) == UNION {{id} \X ent[id] : id \in Ids}

CountsFree(ent, n) ==
    IsFiniteSet(PlacesOf(ent)) /\ n = MaxProcs - Cardinality(PlacesOf(ent))

ResourcesInv ==
    /\ Stage03Inv
    /\ ResourcesTyped
    /\ NoneAhead(Ent, last_pid, descriptors, last_fd)
    /\ LinkedFor(Ent, Allocated, PidOf, descriptors)
    /\ CountsFree(Ent, free_descs)

\* What the proofs use of the resources all the time.
LEMMA ResourcesTypes ==
    ASSUME ResourcesInv
    PROVE  /\ ProcInv /\ SleepersHaveTimers
           /\ Ent \in [Ids -> SUBSET FdPairs] /\ PidOf \in [Blocks -> Pids \cup {-1}]
           /\ \A b \in Allocated : b \in Blocks /\ PidOf[b] \in Pids /\ PidOf[b] < last_pid
           /\ \A p, q \in Allocated : PidOf[p] = PidOf[q] => p = q
           /\ \A b \in Blocks : /\ DOMAIN descriptors[b] \subseteq 0 .. MaxFd
                                /\ descriptors[b] \in [DOMAIN descriptors[b] -> Ids]
                                /\ \A fd \in DOMAIN descriptors[b] : descriptors[b][fd] \in Ids
           /\ last_pid \in Nat /\ MaxFd \in Nat /\ MaxProcs \in Nat
<1>1. ProcInv /\ SleepersHaveTimers
  BY DEF ResourcesInv, Stage03Inv
<1>2. /\ pcb \in [Blocks -> PcbType] /\ last_pid \in Nat /\ MaxFd \in Nat /\ MaxProcs \in Nat
      /\ Allocated \subseteq Blocks
  BY <1>1, ProcTypes, ResourcesAssumption
<1>3. Ent \in [Ids -> SUBSET FdPairs]
  <2>1. \A id \in Ids : (IF id \in DOMAIN type THEN users[id] ELSE {}) \in SUBSET FdPairs
    BY DEF ResourcesInv, ResourcesTyped
  <2> QED
    BY <2>1 DEF Ent
<1>4. PidOf \in [Blocks -> Pids \cup {-1}] /\ \A b \in Blocks : PidOf[b] = pcb[b].pid
  BY <1>2 DEF PidOf, PcbType
<1>5. \A b \in Allocated : b \in Blocks /\ PidOf[b] \in Pids /\ PidOf[b] < last_pid
  BY <1>1, <1>2, <1>4 DEF ProcInv, PidsDistinct
<1>6. \A p, q \in Allocated : PidOf[p] = PidOf[q] => p = q
  BY <1>1, <1>2, <1>4 DEF ProcInv, PidsDistinct
<1>7. ASSUME NEW b \in Blocks
      PROVE  /\ DOMAIN descriptors[b] \subseteq 0 .. MaxFd
             /\ descriptors[b] \in [DOMAIN descriptors[b] -> Ids]
             /\ \A fd \in DOMAIN descriptors[b] : descriptors[b][fd] \in Ids
  <2>1. PICK D \in SUBSET (0 .. MaxFd) : descriptors[b] \in [D -> Ids]
    BY DEF ResourcesInv, ResourcesTyped, Descriptors
  <2> QED
    BY <2>1
<1> QED
  BY <1>1, <1>2, <1>3, <1>4, <1>5, <1>6, <1>7

\* An entry of a list has its place among those of all lists.
LEMMA PlacesAre ==
    ASSUME NEW ent \in [Ids -> SUBSET FdPairs]
    PROVE  \A x : x \in PlacesOf(ent) <=> \E id \in Ids : \E e \in ent[id] : x = <<id, e>>
<1> SUFFICES ASSUME NEW x
             PROVE  x \in PlacesOf(ent) <=> \E id \in Ids : \E e \in ent[id] : x = <<id, e>>
  OBVIOUS
<1>1. x \in PlacesOf(ent) <=> \E id \in Ids : x \in {id} \X ent[id]
  BY DEF PlacesOf
<1>2. \A id \in Ids : x \in {id} \X ent[id] <=> \E e \in ent[id] : x = <<id, e>>
  OBVIOUS
<1> QED
  BY <1>1, <1>2

\* The invariant is what the run checks.
LEMMA InvIsLinked == ResourcesInv => DescriptorsLinked /\ DescriptorsAccounted
<1> SUFFICES ASSUME ResourcesInv PROVE DescriptorsLinked /\ DescriptorsAccounted
  OBVIOUS
<1>1. /\ \A id \in Ids : Entries(id) = Ent[id]
      /\ \A b \in Allocated : PidOf[b] = pcb[b].pid
  BY ResourcesTypes DEF Ent, Entries, Exists, PidOf
<1>2. ResourcesTypeOK
  <2>1. \A b \in Blocks : /\ DOMAIN descriptors[b] \subseteq 0 .. MaxFd
                          /\ \A fd \in DOMAIN descriptors[b] : descriptors[b][fd] \in Ids
    BY ResourcesTypes
  <2>2. DOMAIN users = DOMAIN type /\ \A id \in DOMAIN users : users[id] \subseteq FdPairs
    BY DEF ResourcesInv, ResourcesTyped
  <2> QED
    BY <2>1, <2>2 DEF ResourcesInv, ResourcesTyped, ResourcesTypeOK, FdPairs
<1>3. \A b \in Allocated, fd \in 0 .. MaxFd, id \in Ids :
          <<pcb[b].pid, fd>> \in Entries(id)
          <=> fd \in DOMAIN descriptors[b] /\ descriptors[b][fd] = id
  BY <1>1 DEF ResourcesInv, LinkedFor
<1>4. DescriptorsAccounted
  <2>1. UNION {{id} \X Entries(id) : id \in Ids} = PlacesOf(Ent)
    BY <1>1 DEF PlacesOf
  <2> QED
    BY <2>1 DEF ResourcesInv, ResourcesTyped, CountsFree, DescriptorsAccounted
<1> QED
  BY <1>2, <1>3, <1>4 DEF DescriptorsLinked

\* A step in which processes go, and that changes neither a list nor a count.
LEMMA SameListsKeepResources ==
    ASSUME ResourcesInv, Stage03Inv', ResourcesTyped', Allocated' \subseteq Allocated,
           \A b \in Allocated' : pcb'[b].pid = pcb[b].pid,
           last_pid' = last_pid, Ent' = Ent,
           UNCHANGED <<descriptors, last_fd, free_descs>>
    PROVE  ResourcesInv'
<1>1. \A b \in Allocated' : PidOf'[b] = PidOf[b]
  <2>1. \A b \in Allocated' : b \in Blocks
    BY ResourcesTypes
  <2> QED
    BY <2>1 DEF PidOf
<1>2. LinkedFor(Ent', Allocated', PidOf', descriptors')
  BY <1>1 DEF ResourcesInv, LinkedFor
<1>3. NoneAhead(Ent', last_pid', descriptors', last_fd') /\ CountsFree(Ent', free_descs')
  BY DEF ResourcesInv
<1> QED
  BY <1>2, <1>3 DEF ResourcesInv

\* A step that leaves the resources alone.
LEMMA ResourcesStayTyped ==
    ASSUME ResourcesTyped, UNCHANGED resourceVars
    PROVE  ResourcesTyped' /\ Ent' = Ent
BY DEF ResourcesTyped, resourceVars, Ent

\* The steps of stage 03 leave the lists alone.
LEMMA Stage03StepsKeepResources ==
    ASSUME ResourcesInv,
           \/ OtherStep /\ UNCHANGED <<timerVars, resourceVars>>
           \/ (Tick \/ Preempt \/ \E n \in SleepArgs : Sleep(n)) /\ UNCHANGED resourceVars
    PROVE  ResourcesInv'
<1>1. Stage03Inv
  BY DEF ResourcesInv
<1>2. /\ Stage03Inv' /\ Allocated' \subseteq Allocated
      /\ \A b \in Allocated' : pcb'[b].pid = pcb[b].pid
  <2>1. CASE OtherStep /\ UNCHANGED <<timerVars, resourceVars>>
    BY <1>1, <2>1, OthersKeepTimers
  <2>2. CASE Tick \/ Preempt \/ \E n \in SleepArgs : Sleep(n)
    <3>1. Stage03Inv' /\ Allocated' = Allocated /\ OnlyStatus(pcb')
      BY <1>1, <2>2, SchedulesKeepTimers, SleepKeepsTimers
    <3>2. \A b \in Allocated : b \in Blocks
      BY ResourcesTypes
    <3> QED
      BY <3>1, <3>2 DEF OnlyStatus
  <2> QED
    BY <2>1, <2>2
<1>3. last_pid' = last_pid
  <2>1. ASSUME NEW how, Stop(how)
        PROVE  last_pid' = last_pid
    BY <2>1 DEF Stop
  <2>2. ASSUME NEW pid \in WaitArgs, Wait(pid)
        PROVE  last_pid' = last_pid
    BY <2>2 DEF Wait, WaitWithoutChildren, WaitReaps, WaitBlocks
  <2>3. CASE \/ SpawnFromEmptyPool \/ Fork \/ Shutdown \/ ExitAdoptsItself \/ ExitWithoutParent
             \/ ExitToStranger \/ ExitToNobody \/ RestartWithEmptyPool \/ InterruptOfNobody
    BY <2>1, <2>3 DEF SpawnFromEmptyPool, Fork, Shutdown, ExitAdoptsItself, ExitWithoutParent,
          ExitToStranger, ExitToNobody, RestartWithEmptyPool, InterruptOfNobody
  <2>4. CASE ExitToNext
    BY <2>4 DEF ExitToNext
  <2>5. CASE Tick \/ Preempt \/ \E n \in SleepArgs : Sleep(n)
    BY <2>5 DEF Tick, Preempt, Sleep, internal_schedule
  <2> QED
    BY <2>2, <2>3, <2>4, <2>5 DEF OtherStep
<1>4. UNCHANGED resourceVars /\ ResourcesTyped' /\ Ent' = Ent
  BY ResourcesStayTyped DEF ResourcesInv
<1>5. UNCHANGED <<descriptors, last_fd, free_descs>>
  BY <1>4 DEF resourceVars
<1> QED
  BY <1>2, <1>3, <1>4, <1>5, SameListsKeepResources

\* A process that comes has no descriptors, and no list has an entry of it.
LEMMA BirthsKeepResources ==
    ASSUME ResourcesInv, Spawn \/ Restart, NoDescriptors(NextPcb), UNCHANGED timerVars
    PROVE  ResourcesInv'
<1> DEFINE n == NextPcb
<1>1. /\ Stage03Inv' /\ n \in Blocks /\ n \notin Allocated /\ Allocated' = Allocated \cup {n}
      /\ \A b \in Allocated : pcb'[b].pid = pcb[b].pid
      /\ pcb'[n].pid = last_pid
  BY BirthsKeepTimers DEF ResourcesInv
<1>2. /\ descriptors' = [descriptors EXCEPT ![n] = <<>>]
      /\ last_fd' = [last_fd EXCEPT ![n] = 0]
      /\ UNCHANGED <<type, users, free_descs, free_descptrs>>
      /\ last_pid' = last_pid + 1
  BY DEF NoDescriptors, Spawn, Restart
<1> HIDE DEF n
<1>3. <<>> \in Descriptors /\ DOMAIN <<>> = {}
  <2>1. <<>> \in [{} -> Ids]
    OBVIOUS
  <2> QED
    BY <2>1 DEF Descriptors
<1>4. ResourcesTyped'
  <2>1. 0 \in 0 .. MaxFd
    BY ResourcesAssumption
  <2> QED
    BY <1>1, <1>2, <1>3, <2>1 DEF ResourcesInv, ResourcesTyped
<1>5. Ent' = Ent
  BY <1>2 DEF Ent
<1>6. /\ \A b \in Blocks : /\ descriptors'[b] = IF b = n THEN <<>> ELSE descriptors[b]
                           /\ last_fd'[b] = IF b = n THEN 0 ELSE last_fd[b]
      /\ \A b \in Allocated : b \in Blocks /\ b # n
  BY <1>1, <1>2, ResourcesTypes DEF ResourcesInv, ResourcesTyped
<1>7. NoneAhead(Ent, last_pid + 1, descriptors', last_fd')
  <2>1. ASSUME NEW id \in Ids, NEW e \in Ent[id]
        PROVE  e[1] < last_pid + 1
    <3>1. e[1] < last_pid /\ last_pid \in Nat /\ e \in FdPairs
      BY ResourcesTypes DEF ResourcesInv, NoneAhead
    <3>2. e[1] \in Int
      BY <3>1, ResourcesTypes, ProcTypes DEF FdPairs, Pids
    <3> QED
      BY <3>1, <3>2
  <2>2. ASSUME NEW b \in Blocks, NEW d \in DOMAIN descriptors'[b]
        PROVE  d < last_fd'[b]
    <3>1. b # n /\ d \in DOMAIN descriptors[b] /\ last_fd'[b] = last_fd[b]
      BY <1>3, <1>6, <2>2
    <3> QED
      BY <3>1 DEF ResourcesInv, NoneAhead
  <2> QED
    BY <2>1, <2>2 DEF NoneAhead
<1>8. LinkedFor(Ent, Allocated \cup {n}, PidOf', descriptors')
  <2>1. /\ \A b \in Allocated : PidOf'[b] = PidOf[b]
        /\ PidOf'[n] = last_pid
    BY <1>1, <1>6 DEF PidOf
  <2>2. ASSUME NEW fd \in 0 .. MaxFd, NEW id \in Ids
        PROVE  <<last_pid, fd>> \notin Ent[id]
    <3>1. last_pid \in Nat
      BY ResourcesTypes
    <3>2. <<last_pid, fd>> \in Ent[id] => last_pid < last_pid
      <4>1. <<last_pid, fd>>[1] = last_pid
        OBVIOUS
      <4> QED
        BY <4>1 DEF ResourcesInv, NoneAhead
    <3> QED
      BY <3>1, <3>2
  <2>3. ASSUME NEW b \in Allocated, NEW fd \in 0 .. MaxFd, NEW id \in Ids
        PROVE  <<PidOf'[b], fd>> \in Ent[id]
               <=> fd \in DOMAIN descriptors'[b] /\ descriptors'[b][fd] = id
    BY <2>1, <1>6 DEF ResourcesInv, LinkedFor
  <2>4. ASSUME NEW fd \in 0 .. MaxFd, NEW id \in Ids
        PROVE  <<PidOf'[n], fd>> \in Ent[id]
               <=> fd \in DOMAIN descriptors'[n] /\ descriptors'[n][fd] = id
    BY <2>1, <2>2, <1>1, <1>3, <1>6
  <2>5. ASSUME NEW b \in Allocated \cup {n}, NEW fd \in 0 .. MaxFd, NEW id \in Ids
        PROVE  <<PidOf'[b], fd>> \in Ent[id]
               <=> fd \in DOMAIN descriptors'[b] /\ descriptors'[b][fd] = id
    <3>1. CASE b \in Allocated
      BY <3>1, <2>3
    <3>2. CASE b = n
      BY <3>2, <2>4
    <3> QED
      BY <3>1, <3>2
  <2> QED
    BY <2>5 DEF LinkedFor
<1>9. CountsFree(Ent', free_descs')
  BY <1>2, <1>5 DEF ResourcesInv
<1> QED
  BY <1>1, <1>2, <1>4, <1>5, <1>7, <1>8, <1>9 DEF ResourcesInv

\* The resources T and their users u are those there are and id, with the same entries.
Fetched(T, u, id) ==
    /\ DOMAIN T = DOMAIN type \cup {id} /\ DOMAIN T \subseteq Ids
    /\ T \in [DOMAIN T -> Types]
    /\ u \in [DOMAIN T -> SUBSET FdPairs]
    /\ \A o \in Ids : (IF o \in DOMAIN T THEN u[o] ELSE {}) = Ent[o]
    /\ \A o \in DOMAIN type : T[o] = type[o]

\* What an open fetches or creates is there, and a resource that is new has no entries.
LEMMA FetchKeepsEntries ==
    ASSUME ResourcesTyped, NEW id \in Ids, NEW t \in Types, NEW mode \in Modes,
           Fetches(id, t, mode)
    PROVE  Fetched(TypeAfter(id, t, mode), UsersAfter(id, mode), id)
<1> DEFINE T == TypeAfter(id, t, mode)
           u == UsersAfter(id, mode)
<1>1. /\ type \in [DOMAIN type -> Types] /\ users \in [DOMAIN type -> SUBSET FdPairs]
      /\ DOMAIN type \subseteq Ids
  BY DEF ResourcesTyped
<1>2. CASE Creates(mode)
  <2>1. id \notin DOMAIN type
    BY <1>2 DEF Fetches, Exists
  <2>2. /\ T = [o \in DOMAIN type \cup {id} |-> IF o = id THEN t ELSE type[o]]
        /\ u = [o \in DOMAIN type \cup {id} |-> IF o = id THEN {} ELSE users[o]]
    BY <1>1, <1>2 DEF TypeAfter, UsersAfter, Entered
  <2> HIDE DEF T, u
  <2>3. DOMAIN T = DOMAIN type \cup {id} /\ DOMAIN T \subseteq Ids
    BY <1>1, <2>2
  <2>4. T \in [DOMAIN T -> Types] /\ u \in [DOMAIN T -> SUBSET FdPairs]
    BY <1>1, <2>2
  <2>5. \A o \in Ids : (IF o \in DOMAIN T THEN u[o] ELSE {}) = Ent[o]
    BY <2>1, <2>2, <2>3 DEF Ent
  <2>6. \A o \in DOMAIN type : T[o] = type[o]
    BY <2>1, <2>2
  <2>7. Fetched(T, u, id)
    BY <2>3, <2>4, <2>5, <2>6 DEF Fetched
  <2> QED
    BY <2>7 DEF T, u
<1>3. CASE ~ Creates(mode)
  <2>1. T = type /\ u = users /\ id \in DOMAIN type
    BY <1>3 DEF TypeAfter, UsersAfter, Fetches, Exists
  <2> QED
    BY <1>1, <2>1 DEF Ent, Fetched
<1> QED
  BY <1>2, <1>3

\* A handler of this stage leaves the processes and their timers alone.
LEMMA HandlersKeepTimers ==
    ASSUME Stage03Inv, \/ \E v \in Int : Answer(v)
                       \/ Stop("pool_exhausted") /\ UNCHANGED timerVars
    PROVE  /\ Stage03Inv' /\ Allocated' = Allocated /\ UNCHANGED <<pcb, last_pid, running>>
           /\ PidOf' = PidOf
<1>1. UNCHANGED <<pcb, free, ptrs, last_pid, init_pcb, running, ready_list, timerVars>>
  BY DEF Answer, Stop
<1>2. ret' \in [Blocks -> Int] /\ halt' \in Halts
  BY DEF Answer, Stop, Stage03Inv, ProcInv, ProcessesTypeOK, Halts
<1>3. ProcInv' /\ Allocated' = Allocated /\ Sleepers' = Sleepers
  BY <1>1, <1>2, AnswersKeepProcs DEF Stage03Inv
<1>4. SleepersHaveTimers'
  BY <1>1, <1>3, SameSleepersKeepTimers DEF Stage03Inv
<1>5. PidOf' = PidOf
  BY <1>1 DEF PidOf
<1> QED
  BY <1>1, <1>3, <1>4, <1>5 DEF Stage03Inv

\* A call that fails changes no list.
LEMMA RefusalsKeepResources ==
    ASSUME ResourcesInv, \/ \E v \in Int : Answer(v)
                         \/ Stop("pool_exhausted") /\ UNCHANGED timerVars,
           UNCHANGED resourceVars
    PROVE  ResourcesInv'
<1>1. /\ Stage03Inv' /\ Allocated' = Allocated /\ UNCHANGED <<pcb, last_pid, running>>
  BY HandlersKeepTimers DEF ResourcesInv
<1>2. ResourcesTyped' /\ Ent' = Ent /\ UNCHANGED <<descriptors, last_fd, free_descs>>
  BY ResourcesStayTyped DEF ResourcesInv, resourceVars
<1> QED
  BY <1>1, <1>2, SameListsKeepResources

\* A resource whose creator gets no descriptor stays, with nothing on its list.
LEMMA OpenWithoutFdKeepsResources ==
    ASSUME ResourcesInv, NEW id \in Ids, NEW t \in Types, NEW mode \in Modes,
           OpenWithoutFd(id, t, mode)
    PROVE  ResourcesInv'
<1>1. /\ Stage03Inv' /\ Allocated' = Allocated /\ UNCHANGED <<pcb, last_pid, running>>
  <2>1. ERESOURCENOFD \in Int
    BY DEF ERESOURCENOFD
  <2>2. \E v \in Int : Answer(v)
    BY <2>1 DEF OpenWithoutFd
  <2> QED
    BY <2>2, HandlersKeepTimers DEF ResourcesInv
<1>2. /\ type' = TypeAfter(id, t, mode) /\ users' = UsersAfter(id, mode)
      /\ Fetches(id, t, mode) /\ UNCHANGED <<descriptors, last_fd, free_descs, free_descptrs>>
  BY DEF OpenWithoutFd
<1>3. /\ DOMAIN type' \subseteq Ids /\ type' \in [DOMAIN type' -> Types]
      /\ users' \in [DOMAIN type' -> SUBSET FdPairs]
      /\ \A o \in Ids : (IF o \in DOMAIN type' THEN users'[o] ELSE {}) = Ent[o]
  <2>1. ResourcesTyped
    BY DEF ResourcesInv
  <2> DEFINE T == type'
             u == users'
  <2>2. T = TypeAfter(id, t, mode) /\ u = UsersAfter(id, mode) /\ Fetches(id, t, mode)
    BY <1>2
  <2> HIDE DEF T, u
  <2>3. /\ DOMAIN T \subseteq Ids /\ T \in [DOMAIN T -> Types]
        /\ u \in [DOMAIN T -> SUBSET FdPairs]
        /\ \A o \in Ids : (IF o \in DOMAIN T THEN u[o] ELSE {}) = Ent[o]
    <3>1. Fetched(T, u, id)
      BY <2>1, <2>2, FetchKeepsEntries
    <3> QED
      BY <3>1 DEF Fetched
  <2> QED
    BY <2>3 DEF T, u
<1>4. ResourcesTyped'
  BY <1>2, <1>3 DEF ResourcesInv, ResourcesTyped
<1>5. Ent' = Ent
  <2>1. Ent' = [o \in Ids |-> IF o \in DOMAIN type' THEN users'[o] ELSE {}]
    BY DEF Ent
  <2>2. Ent = [o \in Ids |-> Ent[o]]
    BY DEF Ent
  <2> HIDE DEF Ent
  <2> QED
    BY <1>3, <2>1, <2>2
<1> QED
  BY <1>1, <1>2, <1>4, <1>5, SameListsKeepResources

\* A resource that goes has nothing on its list.
LEMMA DestroyKeepsResources ==
    ASSUME ResourcesInv, NEW id \in Ids, Destroy(id)
    PROVE  ResourcesInv'
<1>1. /\ Stage03Inv' /\ Allocated' = Allocated /\ UNCHANGED <<pcb, last_pid, running>>
  BY HandlersKeepTimers DEF Destroy, ResourcesInv
<1>2. /\ type' = [i \in DOMAIN type \ {id} |-> type[i]]
      /\ users' = [i \in DOMAIN users \ {id} |-> users[i]]
      /\ id \in DOMAIN type /\ users[id] = {}
      /\ UNCHANGED <<descriptors, last_fd, free_descs, free_descptrs>>
  BY DEF Destroy, Destroyable, Exists, Restrict
<1>3. /\ type \in [DOMAIN type -> Types] /\ users \in [DOMAIN type -> SUBSET FdPairs]
      /\ DOMAIN type \subseteq Ids
  BY DEF ResourcesInv, ResourcesTyped
<1>4. /\ DOMAIN type' = DOMAIN type \ {id} /\ type' \in [DOMAIN type' -> Types]
      /\ users' \in [DOMAIN type' -> SUBSET FdPairs]
  BY <1>2, <1>3
<1>5. ResourcesTyped'
  BY <1>2, <1>3, <1>4 DEF ResourcesInv, ResourcesTyped
<1>6. Ent' = Ent
  <2>1. \A o \in Ids : (IF o \in DOMAIN type' THEN users'[o] ELSE {})
                       = (IF o \in DOMAIN type THEN users[o] ELSE {})
    BY <1>2, <1>3, <1>4
  <2> QED
    BY <2>1 DEF Ent
<1> QED
  BY <1>1, <1>2, <1>5, <1>6, SameListsKeepResources

\* One entry more, or one less, is one place more or less.
LEMMA EntryCounts ==
    ASSUME NEW ent \in [Ids -> SUBSET FdPairs], NEW n \in Int, CountsFree(ent, n),
           MaxProcs \in Nat, NEW id \in Ids, NEW e \in FdPairs
    PROVE  /\ e \notin ent[id] => CountsFree([ent EXCEPT ![id] = @ \cup {e}], n - 1)
           /\ e \in ent[id] => CountsFree([ent EXCEPT ![id] = @ \ {e}], n + 1)
<1> DEFINE more == [ent EXCEPT ![id] = @ \cup {e}]
           less == [ent EXCEPT ![id] = @ \ {e}]
           P == PlacesOf(ent)
           x == <<id, e>>
<1>1. /\ more \in [Ids -> SUBSET FdPairs] /\ less \in [Ids -> SUBSET FdPairs]
      /\ \A o \in Ids : more[o] = IF o = id THEN ent[o] \cup {e} ELSE ent[o]
      /\ \A o \in Ids : less[o] = IF o = id THEN ent[o] \ {e} ELSE ent[o]
  OBVIOUS
<1>2. IsFiniteSet(P) /\ n = MaxProcs - Cardinality(P) /\ Cardinality(P) \in Nat
  BY FS_CardinalityType DEF CountsFree
<1> HIDE DEF more, less
<1>3. PlacesOf(more) = P \cup {x}
  <2> SUFFICES ASSUME NEW y PROVE y \in PlacesOf(more) <=> y \in P \cup {x}
    OBVIOUS
  <2>1. y \in PlacesOf(more) <=> \E o \in Ids : \E f \in more[o] : y = <<o, f>>
    BY <1>1, PlacesAre
  <2>2. y \in P <=> \E o \in Ids : \E f \in ent[o] : y = <<o, f>>
    BY PlacesAre
  <2> QED
    BY <1>1, <2>1, <2>2
<1>4. PlacesOf(less) = P \ {x}
  <2> SUFFICES ASSUME NEW y PROVE y \in PlacesOf(less) <=> y \in P \ {x}
    OBVIOUS
  <2>1. y \in PlacesOf(less) <=> \E o \in Ids : \E f \in less[o] : y = <<o, f>>
    BY <1>1, PlacesAre
  <2>2. y \in P <=> \E o \in Ids : \E f \in ent[o] : y = <<o, f>>
    BY PlacesAre
  <2> QED
    BY <1>1, <2>1, <2>2
<1>5. x \in P <=> e \in ent[id]
  <2>1. x \in P <=> \E o \in Ids : \E f \in ent[o] : x = <<o, f>>
    BY PlacesAre
  <2> QED
    BY <2>1
<1>6. ASSUME e \notin ent[id]
      PROVE  CountsFree(more, n - 1)
  <2>1. IsFiniteSet(P \cup {x}) /\ Cardinality(P \cup {x}) = Cardinality(P) + 1
    BY <1>2, <1>5, <1>6, FS_AddElement
  <2> HIDE DEF P, x
  <2> QED
    BY <1>2, <1>3, <2>1 DEF CountsFree
<1>7. ASSUME e \in ent[id]
      PROVE  CountsFree(less, n + 1)
  <2>1. IsFiniteSet(P \ {x}) /\ Cardinality(P \ {x}) = Cardinality(P) - 1
    BY <1>2, <1>5, <1>7, FS_RemoveElement
  <2> HIDE DEF P, x
  <2> QED
    BY <1>2, <1>4, <2>1 DEF CountsFree
<1> QED
  BY <1>6, <1>7 DEF more, less

\* An open that succeeds enters the descriptor on both lists.
LEMMA OpenKeepsResources ==
    ASSUME ResourcesInv, NEW id \in Ids, NEW t \in Types, NEW mode \in Modes,
           OpenSucceeds(id, t, mode)
    PROVE  ResourcesInv'
<1> DEFINE fd == last_fd[running]
           e == <<Me, fd>>
<1>1. /\ running \in Allocated /\ running \in Blocks /\ Me = PidOf[running] /\ Me \in Pids
      /\ Me < last_pid /\ \A b \in Allocated : PidOf[b] = Me => b = running
      /\ fd \in 0 .. MaxFd /\ fd < MaxFd
      /\ fd + 1 \in 0 .. MaxFd
  <2>1. running \in Allocated /\ fd < MaxFd
    BY ResourcesTypes DEF OpenSucceeds, InUserCode, ProcInv, ReadyListed
  <2>2. running \in Blocks
    BY <2>1, ResourcesTypes
  <2>3. fd \in 0 .. MaxFd
    BY <2>2 DEF ResourcesInv, ResourcesTyped
  <2>4. Me = PidOf[running]
    BY <2>2 DEF Me, PidOf
  <2> QED
    BY <2>1, <2>2, <2>3, <2>4, ResourcesTypes
<1>2. \E v \in Int : Answer(v)
  BY <1>1 DEF OpenSucceeds
<1>3. /\ Stage03Inv' /\ Allocated' = Allocated /\ UNCHANGED <<pcb, last_pid, running>>
      /\ PidOf' = PidOf
  BY <1>2, HandlersKeepTimers DEF ResourcesInv
<1>4. /\ type' = TypeAfter(id, t, mode) /\ Fetches(id, t, mode)
      /\ free_descs > 0 /\ free_descs' = free_descs - 1 /\ free_descptrs' = free_descptrs - 1
      /\ last_fd' = [last_fd EXCEPT ![running] = fd + 1]
      /\ descriptors' = [descriptors EXCEPT ![running] = Entered(descriptors[running], fd, id)]
      /\ users' = [UsersAfter(id, mode) EXCEPT ![id] = @ \cup {e}]
  BY DEF OpenSucceeds, Link
<1> HIDE DEF fd, e
<1> DEFINE u == UsersAfter(id, mode)
           d == Entered(descriptors[running], fd, id)
<1>5. /\ DOMAIN type' \subseteq Ids /\ id \in DOMAIN type'
      /\ type' \in [DOMAIN type' -> Types]
      /\ u \in [DOMAIN type' -> SUBSET FdPairs]
      /\ \A o \in Ids : (IF o \in DOMAIN type' THEN u[o] ELSE {}) = Ent[o]
  <2>1. ResourcesTyped
    BY DEF ResourcesInv
  <2> DEFINE T == type'
  <2>2. T = TypeAfter(id, t, mode) /\ u = UsersAfter(id, mode) /\ Fetches(id, t, mode)
    BY <1>4
  <2> HIDE DEF T, u
  <2>3. /\ DOMAIN T = DOMAIN type \cup {id} /\ DOMAIN T \subseteq Ids /\ T \in [DOMAIN T -> Types]
        /\ u \in [DOMAIN T -> SUBSET FdPairs]
        /\ \A o \in Ids : (IF o \in DOMAIN T THEN u[o] ELSE {}) = Ent[o]
    <3>1. Fetched(T, u, id)
      BY <2>1, <2>2, FetchKeepsEntries
    <3> QED
      BY <3>1 DEF Fetched
  <2> QED
    BY <2>3 DEF T
<1> HIDE DEF u
<1>6. e \in FdPairs /\ e[1] = Me /\ e[2] = fd
  BY <1>1 DEF e, FdPairs
<1>7. fd \notin DOMAIN descriptors[running]
  <2>1. fd \in DOMAIN descriptors[running] => fd < last_fd[running]
    BY <1>1 DEF ResourcesInv, NoneAhead
  <2> QED
    BY <1>1, <2>1 DEF fd
<1>8. \A o \in Ids : e \notin Ent[o]
  BY <1>1, <1>7 DEF ResourcesInv, LinkedFor, e
<1>9. /\ DOMAIN d = DOMAIN descriptors[running] \cup {fd}
      /\ \A f \in DOMAIN d : d[f] = IF f = fd THEN id ELSE descriptors[running][f]
      /\ d \in Descriptors
  <2>1. /\ DOMAIN descriptors[running] \subseteq 0 .. MaxFd
        /\ \A f \in DOMAIN descriptors[running] : descriptors[running][f] \in Ids
    BY <1>1, ResourcesTypes
  <2>2. d = [f \in DOMAIN descriptors[running] \cup {fd} |->
                IF f = fd THEN id ELSE descriptors[running][f]]
    BY DEF Entered
  <2> HIDE DEF d
  <2>3. d \in [DOMAIN descriptors[running] \cup {fd} -> Ids]
    BY <2>1, <2>2
  <2> QED
    BY <1>1, <2>1, <2>2, <2>3 DEF Descriptors
<1> HIDE DEF d
<1>10. /\ users' \in [DOMAIN type' -> SUBSET FdPairs]
       /\ \A o \in DOMAIN type' : users'[o] = IF o = id THEN u[id] \cup {e} ELSE u[o]
  BY <1>4, <1>5, <1>6 DEF u
<1>11. Ent' = [Ent EXCEPT ![id] = @ \cup {e}]
  <2>1. Ent' = [o \in Ids |-> IF o \in DOMAIN type' THEN users'[o] ELSE {}]
    BY DEF Ent
  <2>2. Ent \in [Ids -> SUBSET FdPairs]
    BY ResourcesTypes
  <2>3. \A o \in Ids : (IF o \in DOMAIN type' THEN users'[o] ELSE {})
                       = IF o = id THEN Ent[id] \cup {e} ELSE Ent[o]
    BY <1>5, <1>10
  <2> HIDE DEF Ent
  <2> QED
    BY <2>1, <2>2, <2>3
<1>12. \A b \in Blocks : /\ descriptors'[b] = IF b = running THEN d ELSE descriptors[b]
                         /\ last_fd'[b] = IF b = running THEN fd + 1 ELSE last_fd[b]
  BY <1>1, <1>4 DEF ResourcesInv, ResourcesTyped, d
<1>13. CountsFree(Ent', free_descs')
  <2>1. free_descs \in Int /\ MaxProcs \in Nat /\ Ent \in [Ids -> SUBSET FdPairs]
    BY ResourcesTypes DEF ResourcesInv, ResourcesTyped
  <2> QED
    BY <2>1, <1>4, <1>6, <1>8, <1>11, EntryCounts DEF ResourcesInv
<1>14. ResourcesTyped'
  <2>1. free_descs' \in 0 .. MaxProcs /\ free_descptrs' = free_descs'
    BY <1>4, ResourcesTypes DEF ResourcesInv, ResourcesTyped
  <2>2. descriptors' \in [Blocks -> Descriptors]
    BY <1>1, <1>4, <1>9 DEF ResourcesInv, ResourcesTyped, d
  <2>3. last_fd' \in [Blocks -> 0 .. MaxFd]
    BY <1>1, <1>4 DEF ResourcesInv, ResourcesTyped
  <2> QED
    BY <1>5, <1>10, <2>1, <2>2, <2>3 DEF ResourcesTyped
<1>15. NoneAhead(Ent', last_pid', descriptors', last_fd')
  <2>1. ASSUME NEW o \in Ids, NEW f \in Ent'[o]
        PROVE  f[1] < last_pid'
    <3>1. f = e \/ f \in Ent[o]
      <4>1. Ent'[o] = IF o = id THEN Ent[id] \cup {e} ELSE Ent[o]
        BY <1>11, ResourcesTypes
      <4> QED
        BY <2>1, <4>1
    <3> QED
      BY <3>1, <1>1, <1>3, <1>6 DEF ResourcesInv, NoneAhead
  <2>2. ASSUME NEW b \in Blocks, NEW f \in DOMAIN descriptors'[b]
        PROVE  f < last_fd'[b]
    <3>1. CASE b # running
      BY <2>2, <3>1, <1>12 DEF ResourcesInv, NoneAhead
    <3>2. CASE b = running
      <4>1. f = fd \/ f \in DOMAIN descriptors[running]
        BY <2>2, <3>2, <1>9, <1>12
      <4>2. f = fd \/ f < fd
        BY <4>1, <1>1 DEF ResourcesInv, NoneAhead, fd
      <4>3. f \in Int /\ fd \in Int
        BY <4>1, <1>1, ResourcesTypes
      <4> QED
        BY <3>2, <4>2, <4>3, <1>12
    <3> QED
      BY <3>1, <3>2
  <2> QED
    BY <2>1, <2>2 DEF NoneAhead
<1>16. LinkedFor(Ent', Allocated, PidOf, descriptors')
  <2> SUFFICES ASSUME NEW b \in Allocated, NEW f \in 0 .. MaxFd, NEW o \in Ids
               PROVE  <<PidOf[b], f>> \in Ent'[o]
                      <=> f \in DOMAIN descriptors'[b] /\ descriptors'[b][f] = o
    BY DEF LinkedFor
  <2>1. /\ <<PidOf[b], f>> \in Ent[o] <=> f \in DOMAIN descriptors[b] /\ descriptors[b][f] = o
        /\ b \in Blocks
    BY ResourcesTypes DEF ResourcesInv, LinkedFor
  <2>2. <<PidOf[b], f>> \in Ent'[o]
        <=> <<PidOf[b], f>> \in Ent[o] \/ (o = id /\ b = running /\ f = fd)
    <3>1. Ent'[o] = IF o = id THEN Ent[id] \cup {e} ELSE Ent[o]
      BY <1>11, ResourcesTypes
    <3>2. <<PidOf[b], f>> = e <=> b = running /\ f = fd
      BY <1>1 DEF e
    <3> QED
      BY <3>1, <3>2
  <2>3. CASE b # running
    BY <2>1, <2>2, <2>3, <1>12
  <2>4. CASE b = running
    BY <2>1, <2>2, <2>4, <1>7, <1>9, <1>12
  <2> QED
    BY <2>3, <2>4
<1> QED
  BY <1>3, <1>13, <1>14, <1>15, <1>16 DEF ResourcesInv

\* A close takes the descriptor from both lists.
LEMMA CloseKeepsResources ==
    ASSUME ResourcesInv, NEW fd \in 0 .. MaxFd, Close(fd)
    PROVE  ResourcesInv'
<1> DEFINE l == descriptors[running]
           id == l[fd]
           e == <<Me, fd>>
           d == Restrict(l, DOMAIN l \ {fd})
<1>1. /\ running \in Allocated /\ running \in Blocks /\ Me = PidOf[running] /\ Me \in Pids
      /\ \A b \in Allocated : PidOf[b] = Me => b = running
  <2>1. running \in Allocated
    BY ResourcesTypes DEF Close, InUserCode, ProcInv, ReadyListed
  <2>2. running \in Blocks
    BY <2>1, ResourcesTypes
  <2>3. Me = PidOf[running]
    BY <2>2 DEF Me, PidOf
  <2> QED
    BY <2>1, <2>2, <2>3, ResourcesTypes
<1>2. /\ Stage03Inv' /\ Allocated' = Allocated /\ UNCHANGED <<pcb, last_pid, running>>
      /\ PidOf' = PidOf
  BY HandlersKeepTimers DEF ResourcesInv, Close
<1>3. /\ fd \in DOMAIN l
      /\ descriptors' = [descriptors EXCEPT ![running] = d]
      /\ users' = [users EXCEPT ![id] = @ \ {e}]
      /\ free_descs' = free_descs + 1 /\ free_descptrs' = free_descptrs + 1
      /\ type' = type /\ last_fd' = last_fd
  BY DEF Close, FreeBoth
<1>4. /\ DOMAIN l \subseteq 0 .. MaxFd /\ \A f \in DOMAIN l : l[f] \in Ids
  BY <1>1, ResourcesTypes
<1>5. /\ DOMAIN d = DOMAIN l \ {fd} /\ d \in Descriptors
      /\ \A f \in DOMAIN d : d[f] = l[f]
  <2>1. d = [f \in DOMAIN l \ {fd} |-> l[f]]
    BY DEF Restrict
  <2> HIDE DEF d, l
  <2>2. d \in [DOMAIN l \ {fd} -> Ids] /\ DOMAIN l \ {fd} \in SUBSET (0 .. MaxFd)
    BY <1>4, <2>1
  <2> QED
    BY <2>1, <2>2 DEF Descriptors
<1>6. id \in Ids /\ e \in FdPairs
  BY <1>1, <1>3, <1>4 DEF FdPairs
<1>7. \A b \in Blocks : descriptors'[b] = IF b = running THEN d ELSE descriptors[b]
  BY <1>1, <1>3 DEF ResourcesInv, ResourcesTyped
<1>8. e \in Ent[id] /\ id \in DOMAIN type
  <2>1. e \in Ent[id]
    BY <1>1, <1>3, <1>6 DEF ResourcesInv, LinkedFor
  <2> QED
    BY <1>6, <2>1 DEF Ent
<1> HIDE DEF d, e, id
<1>9. /\ users' \in [DOMAIN type' -> SUBSET FdPairs]
      /\ \A o \in DOMAIN type : users'[o] = IF o = id THEN users[id] \ {e} ELSE users[o]
  BY <1>3, <1>8 DEF ResourcesInv, ResourcesTyped
<1>10. Ent' = [Ent EXCEPT ![id] = @ \ {e}]
  <2>1. Ent' = [o \in Ids |-> IF o \in DOMAIN type THEN users'[o] ELSE {}]
    BY <1>3 DEF Ent
  <2>2. Ent \in [Ids -> SUBSET FdPairs]
    BY ResourcesTypes
  <2>3. \A o \in Ids : (IF o \in DOMAIN type THEN users'[o] ELSE {})
                       = IF o = id THEN Ent[id] \ {e} ELSE Ent[o]
    BY <1>6, <1>8, <1>9 DEF Ent
  <2> HIDE DEF Ent
  <2> QED
    BY <2>1, <2>2, <2>3
<1>11. CountsFree(Ent', free_descs')
  <2>1. free_descs \in Int /\ MaxProcs \in Nat /\ Ent \in [Ids -> SUBSET FdPairs]
    BY ResourcesTypes DEF ResourcesInv, ResourcesTyped
  <2> QED
    BY <2>1, <1>3, <1>6, <1>8, <1>10, EntryCounts DEF ResourcesInv
<1>12. ResourcesTyped'
  <2>1. free_descs' \in 0 .. MaxProcs /\ free_descptrs' = free_descs'
    <3>1. free_descs \in 0 .. MaxProcs /\ free_descptrs = free_descs /\ MaxProcs \in Nat
      BY ResourcesTypes DEF ResourcesInv, ResourcesTyped
    <3>2. Cardinality(PlacesOf(Ent')) \in Nat /\ free_descs' = MaxProcs - Cardinality(PlacesOf(Ent'))
      BY <1>11, FS_CardinalityType DEF CountsFree
    <3> QED
      BY <1>3, <3>1, <3>2
  <2>2. descriptors' \in [Blocks -> Descriptors]
    BY <1>1, <1>3, <1>5 DEF ResourcesInv, ResourcesTyped
  <2> QED
    BY <1>3, <1>9, <2>1, <2>2 DEF ResourcesInv, ResourcesTyped
<1>13. NoneAhead(Ent', last_pid', descriptors', last_fd')
  <2>1. ASSUME NEW o \in Ids, NEW f \in Ent'[o]
        PROVE  f[1] < last_pid'
    <3>1. f \in Ent[o]
      <4>1. Ent'[o] = IF o = id THEN Ent[id] \ {e} ELSE Ent[o]
        BY <1>10, ResourcesTypes
      <4> QED
        BY <2>1, <4>1
    <3> QED
      BY <3>1, <1>2 DEF ResourcesInv, NoneAhead
  <2>2. \A b \in Blocks : \A f \in DOMAIN descriptors'[b] : f < last_fd'[b]
    BY <1>3, <1>5, <1>7 DEF ResourcesInv, NoneAhead
  <2> QED
    BY <2>1, <2>2 DEF NoneAhead
<1>14. LinkedFor(Ent', Allocated, PidOf, descriptors')
  <2> SUFFICES ASSUME NEW b \in Allocated, NEW f \in 0 .. MaxFd, NEW o \in Ids
               PROVE  <<PidOf[b], f>> \in Ent'[o]
                      <=> f \in DOMAIN descriptors'[b] /\ descriptors'[b][f] = o
    BY DEF LinkedFor
  <2>1. /\ <<PidOf[b], f>> \in Ent[o] <=> f \in DOMAIN descriptors[b] /\ descriptors[b][f] = o
        /\ b \in Blocks
    BY ResourcesTypes DEF ResourcesInv, LinkedFor
  <2>2. <<PidOf[b], f>> \in Ent'[o]
        <=> <<PidOf[b], f>> \in Ent[o] /\ ~(o = id /\ b = running /\ f = fd)
    <3>1. Ent'[o] = IF o = id THEN Ent[id] \ {e} ELSE Ent[o]
      BY <1>10, ResourcesTypes
    <3>2. <<PidOf[b], f>> = e <=> b = running /\ f = fd
      BY <1>1 DEF e
    <3> QED
      BY <3>1, <3>2
  <2>3. CASE b # running
    BY <2>1, <2>2, <2>3, <1>7
  <2>4. CASE b = running
    <3>1. descriptors[b] = l /\ descriptors'[b] = d
      BY <2>1, <2>4, <1>7
    <3>2. f = fd /\ f \in DOMAIN l /\ l[f] = o => o = id
      BY DEF id
    <3> HIDE DEF l
    <3> QED
      BY <2>1, <2>2, <2>4, <3>1, <3>2, <1>5
  <2> QED
    BY <2>3, <2>4
<1> QED
  BY <1>2, <1>11, <1>12, <1>13, <1>14 DEF ResourcesInv

\* The entries of one process that are on the lists are as many as its descriptors; without
\* them, as many blocks more are free.
LEMMA ReleaseCounts ==
    ASSUME NEW ent \in [Ids -> SUBSET FdPairs], NEW n \in Int, CountsFree(ent, n),
           MaxProcs \in Nat, MaxFd \in Nat, NEW pid \in Pids,
           NEW D \in SUBSET (0 .. MaxFd), NEW l \in [D -> Ids],
           \A fd \in 0 .. MaxFd, id \in Ids :
               <<pid, fd>> \in ent[id] <=> fd \in D /\ l[fd] = id,
           NEW rest \in [Ids -> SUBSET FdPairs],
           \A id \in Ids : rest[id] = ent[id] \ {<<pid, fd>> : fd \in D}
    PROVE  CountsFree(rest, n + Cardinality(D)) /\ IsFiniteSet(D)
<1> DEFINE P == PlacesOf(ent)
           place == [fd \in D |-> <<l[fd], <<pid, fd>>>>]
           R == {place[fd] : fd \in D}
<1>1. IsFiniteSet(P) /\ n = MaxProcs - Cardinality(P)
  BY DEF CountsFree
<1>2. IsFiniteSet(D)
  <2>1. IsFiniteSet(0 .. MaxFd)
    BY FS_Interval
  <2> QED
    BY <2>1, FS_Subset
<1>3. R \subseteq P
  <2> SUFFICES ASSUME NEW fd \in D PROVE <<l[fd], <<pid, fd>>>> \in P
    OBVIOUS
  <2>1. fd \in 0 .. MaxFd /\ l[fd] \in Ids /\ <<pid, fd>> \in ent[l[fd]]
    OBVIOUS
  <2> QED
    BY <2>1, PlacesAre
<1>4. Cardinality(R) = Cardinality(D)
  <2>1. place \in Surjection(D, R)
    <3>1. place \in [D -> R]
      OBVIOUS
    <3>2. \A y \in R : \E x \in D : place[x] = y
      OBVIOUS
    <3> HIDE DEF place, R
    <3> QED
      BY <3>1, <3>2 DEF Surjection
  <2>2. \A x, y \in D : place[x] = place[y] => x = y
    OBVIOUS
  <2> HIDE DEF place
  <2>3. place \in Bijection(D, R)
    BY <2>1, <2>2 DEF Bijection, Injection, IsInjective, Surjection
  <2> HIDE DEF R
  <2>4. ExistsBijection(D, R)
    BY <2>3 DEF ExistsBijection
  <2> QED
    BY <1>2, <2>4, FS_Bijection
<1>5. PlacesOf(rest) = P \ R
  <2> SUFFICES ASSUME NEW y PROVE y \in PlacesOf(rest) <=> y \in P /\ y \notin R
    OBVIOUS
  <2>1. y \in PlacesOf(rest) <=> \E o \in Ids : \E f \in rest[o] : y = <<o, f>>
    BY PlacesAre
  <2>2. y \in P <=> \E o \in Ids : \E f \in ent[o] : y = <<o, f>>
    BY PlacesAre
  <2>3. ASSUME NEW o \in Ids, NEW f \in ent[o], y = <<o, f>>
        PROVE  y \in R <=> f \in {<<pid, fd>> : fd \in D}
    <3>1. y \in R => f \in {<<pid, fd>> : fd \in D}
      BY <2>3
    <3>2. ASSUME NEW fd \in D, f = <<pid, fd>>
          PROVE  y \in R
      <4>1. l[fd] = o
        BY <2>3, <3>2
      <4>2. place[fd] = y
        BY <2>3, <3>2, <4>1
      <4> QED
        BY <4>2
    <3> QED
      BY <3>1, <3>2
  <2> HIDE DEF P, R
  <2>4. ASSUME y \in PlacesOf(rest)
        PROVE  y \in P /\ y \notin R
    <3>1. PICK o \in Ids : \E f \in rest[o] : y = <<o, f>>
      BY <2>1, <2>4
    <3>2. PICK f \in rest[o] : y = <<o, f>>
      BY <3>1
    <3>3. f \in ent[o] /\ f \notin {<<pid, fd>> : fd \in D}
      BY <3>2
    <3> QED
      BY <2>2, <2>3, <3>2, <3>3
  <2>5. ASSUME y \in P, y \notin R
        PROVE  y \in PlacesOf(rest)
    <3>1. PICK o \in Ids : \E f \in ent[o] : y = <<o, f>>
      BY <2>2, <2>5
    <3>2. PICK f \in ent[o] : y = <<o, f>>
      BY <3>1
    <3>3. f \in rest[o]
      BY <2>3, <2>5, <3>2
    <3> QED
      BY <2>1, <3>2, <3>3
  <2> QED
    BY <2>4, <2>5
<1> HIDE DEF P, R
<1>6. /\ IsFiniteSet(P \ R) /\ IsFiniteSet(R) /\ P \cap R = R
      /\ Cardinality(P \ R) = Cardinality(P) - Cardinality(R)
  <2>1. IsFiniteSet(R) /\ P \cap R = R
    BY <1>1, <1>3, FS_Subset
  <2>2. /\ IsFiniteSet(P \ R)
        /\ Cardinality(P \ R) = Cardinality(P) - Cardinality(P \cap R)
    BY <1>1, FS_Difference
  <2> QED
    BY <2>1, <2>2
<1>7. Cardinality(P) \in Int /\ Cardinality(D) \in Int
  BY <1>1, <1>2, FS_CardinalityType
<1> QED
  BY <1>1, <1>2, <1>4, <1>5, <1>6, <1>7 DEF CountsFree

\* An exit that wakes the parent takes the descriptors of its caller from all lists.
LEMMA ExitKeepsResources ==
    ASSUME ResourcesInv, ExitReleasesResources
    PROVE  ResourcesInv'
<1> DEFINE l == descriptors[running]
           D == DOMAIN l
           X == {<<Me, fd>> : fd \in D}
<1>1. /\ Stage03Inv' /\ running \in Allocated /\ Allocated' = Allocated \ {running}
      /\ \A b \in Allocated' : pcb'[b].pid = pcb[b].pid
      /\ last_pid' = last_pid
  BY ExitKeepsTimers DEF ResourcesInv, ExitReleasesResources, ExitReleasesTimers, ExitToParent
<1>2. /\ running \in Blocks /\ Me = PidOf[running] /\ Me \in Pids
      /\ \A b \in Allocated : PidOf[b] = Me => b = running
  <2>1. running \in Blocks
    BY <1>1, ResourcesTypes
  <2>2. Me = PidOf[running]
    BY <2>1 DEF Me, PidOf
  <2> QED
    BY <1>1, <2>1, <2>2, ResourcesTypes
<1>3. /\ users' = [id \in DOMAIN users |-> users[id] \ X]
      /\ descriptors' = [descriptors EXCEPT ![running] = <<>>]
      /\ free_descs' = free_descs + Cardinality(D)
      /\ free_descptrs' = free_descptrs + Cardinality(D)
      /\ UNCHANGED <<type, last_fd>>
  BY DEF ExitReleasesResources, FreeBoth
<1>4. D \subseteq 0 .. MaxFd /\ l \in [D -> Ids]
  BY <1>2, ResourcesTypes
<1> HIDE DEF l, D, X
<1>5. Ent' = [id \in Ids |-> Ent[id] \ X]
  <2>1. /\ type' = type /\ DOMAIN users = DOMAIN type
        /\ \A id \in DOMAIN type : users'[id] = users[id] \ X
    BY <1>3 DEF ResourcesInv, ResourcesTyped
  <2>2. \A id \in Ids : (IF id \in DOMAIN type' THEN users'[id] ELSE {}) = Ent[id] \ X
    BY <2>1 DEF Ent
  <2>3. Ent' = [id \in Ids |-> IF id \in DOMAIN type' THEN users'[id] ELSE {}]
    BY DEF Ent
  <2> HIDE DEF Ent
  <2> QED
    BY <2>2, <2>3
<1>6. Ent \in [Ids -> SUBSET FdPairs] /\ Ent' \in [Ids -> SUBSET FdPairs]
      /\ \A id \in Ids : Ent'[id] = Ent[id] \ X
  <2>1. Ent \in [Ids -> SUBSET FdPairs]
    BY ResourcesTypes
  <2> HIDE DEF Ent
  <2> QED
    BY <1>5, <2>1
<1>7. CountsFree(Ent', free_descs') /\ Cardinality(D) \in Nat
  <2>1. /\ free_descs \in Int /\ MaxProcs \in Nat /\ MaxFd \in Nat
        /\ CountsFree(Ent, free_descs)
    BY ResourcesTypes DEF ResourcesInv, ResourcesTyped
  <2>2. \A fd \in 0 .. MaxFd, id \in Ids : <<Me, fd>> \in Ent[id] <=> fd \in D /\ l[fd] = id
    BY <1>1, <1>2 DEF ResourcesInv, LinkedFor, D, l
  <2>3. \A id \in Ids : Ent'[id] = Ent[id] \ {<<Me, fd>> : fd \in D}
    BY <1>6 DEF X
  <2> DEFINE ent == Ent
             rest == Ent'
  <2>4. /\ ent \in [Ids -> SUBSET FdPairs] /\ rest \in [Ids -> SUBSET FdPairs]
        /\ CountsFree(ent, free_descs)
        /\ \A fd \in 0 .. MaxFd, id \in Ids : <<Me, fd>> \in ent[id] <=> fd \in D /\ l[fd] = id
        /\ \A id \in Ids : rest[id] = ent[id] \ {<<Me, fd>> : fd \in D}
    BY <1>6, <2>1, <2>2, <2>3
  <2> HIDE DEF ent, rest
  <2>5. CountsFree(rest, free_descs + Cardinality(D)) /\ IsFiniteSet(D)
    BY <1>2, <1>4, <2>1, <2>4, ReleaseCounts
  <2> QED
    BY <1>3, <2>5, FS_CardinalityType DEF rest
<1>8. <<>> \in Descriptors /\ DOMAIN <<>> = {}
  <2>1. <<>> \in [{} -> Ids]
    OBVIOUS
  <2> QED
    BY <2>1 DEF Descriptors
<1>9. \A b \in Blocks : descriptors'[b] = IF b = running THEN <<>> ELSE descriptors[b]
  BY <1>2, <1>3 DEF ResourcesInv, ResourcesTyped
<1>10. ResourcesTyped'
  <2>1. free_descs' \in 0 .. MaxProcs /\ free_descptrs' = free_descs'
    <3>1. free_descs \in 0 .. MaxProcs /\ free_descptrs = free_descs /\ MaxProcs \in Nat
      BY ResourcesTypes DEF ResourcesInv, ResourcesTyped
    <3>2. Cardinality(PlacesOf(Ent')) \in Nat /\ free_descs' = MaxProcs - Cardinality(PlacesOf(Ent'))
      BY <1>7, FS_CardinalityType DEF CountsFree
    <3> QED
      BY <1>3, <1>7, <3>1, <3>2
  <2>2. descriptors' \in [Blocks -> Descriptors]
    BY <1>2, <1>3, <1>8 DEF ResourcesInv, ResourcesTyped
  <2>3. users' \in [DOMAIN type -> SUBSET FdPairs]
    BY <1>3 DEF ResourcesInv, ResourcesTyped
  <2> QED
    BY <1>3, <2>1, <2>2, <2>3 DEF ResourcesInv, ResourcesTyped
<1>11. NoneAhead(Ent', last_pid', descriptors', last_fd')
  <2>1. \A o \in Ids : \A f \in Ent'[o] : f[1] < last_pid'
    BY <1>1, <1>6 DEF ResourcesInv, NoneAhead
  <2>2. \A b \in Blocks : \A f \in DOMAIN descriptors'[b] : f < last_fd'[b]
    BY <1>3, <1>8, <1>9 DEF ResourcesInv, NoneAhead
  <2> QED
    BY <2>1, <2>2 DEF NoneAhead
<1>12. LinkedFor(Ent', Allocated', PidOf', descriptors')
  <2> SUFFICES ASSUME NEW b \in Allocated', NEW f \in 0 .. MaxFd, NEW o \in Ids
               PROVE  <<PidOf'[b], f>> \in Ent'[o]
                      <=> f \in DOMAIN descriptors'[b] /\ descriptors'[b][f] = o
    BY DEF LinkedFor
  <2>1. b \in Allocated /\ b \in Blocks /\ b # running /\ PidOf[b] # Me
    BY <1>1, <1>2, ResourcesTypes
  <2>2. PidOf'[b] = PidOf[b] /\ descriptors'[b] = descriptors[b]
    BY <1>1, <1>9, <2>1 DEF PidOf
  <2>3. <<PidOf[b], f>> \notin X
    BY <2>1 DEF X
  <2>4. <<PidOf[b], f>> \in Ent[o] <=> f \in DOMAIN descriptors[b] /\ descriptors[b][f] = o
    BY <2>1 DEF ResourcesInv, LinkedFor
  <2> QED
    BY <1>6, <2>2, <2>3, <2>4
<1> QED
  BY <1>1, <1>7, <1>10, <1>11, <1>12 DEF ResourcesInv

\* Every step keeps the invariant.
LEMMA ResourcesStepKeeps ==
    ASSUME ResourcesInv, [ResourcesNext]_stage04Vars
    PROVE  ResourcesInv'
<1>1. CASE \/ OtherStep /\ UNCHANGED <<timerVars, resourceVars>>
           \/ (Tick \/ Preempt \/ \E n \in SleepArgs : Sleep(n)) /\ UNCHANGED resourceVars
  BY <1>1, Stage03StepsKeepResources
<1>2. CASE SpawnWithoutDescriptors \/ RestartWithoutDescriptors
  BY <1>2, BirthsKeepResources DEF SpawnWithoutDescriptors, RestartWithoutDescriptors
<1>3. CASE ExitReleasesResources
  BY <1>3, ExitKeepsResources
<1>4. ASSUME \/ \E v \in Int : Answer(v)
             \/ Stop("pool_exhausted") /\ UNCHANGED timerVars,
             UNCHANGED resourceVars
      PROVE  ResourcesInv'
  BY <1>4, RefusalsKeepResources
<1>5. ASSUME NEW id \in Ids, NEW mode \in Modes, OpenWithoutBlock(id, mode)
      PROVE  ResourcesInv'
  BY <1>4, <1>5 DEF OpenWithoutBlock
<1>6. ASSUME NEW id \in Ids, NEW t \in Types, NEW mode \in Modes,
             OpenRefused(id, t, mode) \/ OpenNotExclusive(id, t, mode)
      PROVE  ResourcesInv'
  <2>1. \E v \in Int : Answer(v)
    <3>1. ERESOURCECREATE \in Int /\ ERESOURCEOPEN \in Int /\ ERESOURCENOEXCL \in Int
      BY DEF ERESOURCECREATE, ERESOURCEOPEN, ERESOURCENOEXCL
    <3> QED
      BY <1>6, <3>1 DEF OpenRefused, OpenNotExclusive
  <2>2. UNCHANGED resourceVars
    BY <1>6 DEF OpenRefused, OpenNotExclusive
  <2> QED
    BY <1>4, <2>1, <2>2
<1>7. ASSUME NEW id \in Ids, NEW t \in Types, NEW mode \in Modes,
             OpenWithoutFd(id, t, mode) \/ OpenSucceeds(id, t, mode)
      PROVE  ResourcesInv'
  BY <1>7, OpenWithoutFdKeepsResources, OpenKeepsResources
<1>8. ASSUME NEW fd \in 0 .. MaxFd, CloseRefused(fd) \/ Close(fd)
      PROVE  ResourcesInv'
  <2>1. CASE CloseRefused(fd)
    <3>1. (\E v \in Int : Answer(v)) /\ UNCHANGED resourceVars
      BY <2>1 DEF CloseRefused, ERESOURCECLOSE
    <3> QED
      BY <1>4, <3>1
  <2>2. CASE Close(fd)
    BY <2>2, CloseKeepsResources
  <2> QED
    BY <1>8, <2>1, <2>2
<1>9. ASSUME NEW id \in Ids, DestroyRefused(id) \/ Destroy(id)
      PROVE  ResourcesInv'
  <2>1. CASE DestroyRefused(id)
    <3>1. (\E v \in Int : Answer(v)) /\ UNCHANGED resourceVars
      BY <2>1 DEF DestroyRefused, ERESOURCECLOSE, ERESOURCEINUSE
    <3> QED
      BY <1>4, <3>1
  <2>2. CASE Destroy(id)
    BY <2>2, DestroyKeepsResources
  <2> QED
    BY <1>9, <2>1, <2>2
<1>10. CASE UNCHANGED stage04Vars
  <2>1. UNCHANGED <<procVars, timerVars, resourceVars>>
    BY <1>10 DEF stage04Vars, stageVars
  <2>2. ProcInv' <=> ProcInv
    BY <2>1 DEF procVars, ProcInv, ProcessesTypeOK, ReadyListed, FreeIsWhole, FieldsFit, Partition,
          Children, Allocated, Kids, InitLives, PidsDistinct, PtrsSuffice
  <2>3. SleepersHaveTimers' <=> SleepersHaveTimers
    BY <2>1 DEF procVars, timerVars, SleepersHaveTimers, TimersTypeOK, Allocated
  <2>4. Stage03Inv'
    BY <2>2, <2>3 DEF ResourcesInv, Stage03Inv
  <2>5. /\ Allocated' = Allocated /\ UNCHANGED <<pcb, last_pid>>
        /\ UNCHANGED <<descriptors, last_fd, free_descs>>
    BY <2>1 DEF procVars, Allocated, resourceVars
  <2>6. ResourcesTyped' /\ Ent' = Ent
    BY <2>1, ResourcesStayTyped DEF ResourcesInv
  <2> QED
    BY <2>4, <2>5, <2>6, SameListsKeepResources
<1> QED
  BY <1>1, <1>2, <1>3, <1>5, <1>6, <1>7, <1>8, <1>9, <1>10 DEF ResourcesNext

\* The invariant of stage 04: processes and timers are in order, and the lists of the
\* descriptors and of the resources agree.
THEOREM ResourcesHasInv == ResourcesSpec => []ResourcesInv
<1>1. ResourcesInit => ResourcesInv
  <2> SUFFICES ASSUME ResourcesInit PROVE ResourcesInv
    OBVIOUS
  <2>1. /\ Stage03Inv /\ type = <<>> /\ users = <<>>
        /\ descriptors = [b \in Blocks |-> <<>>] /\ last_fd = [b \in Blocks |-> 0]
        /\ free_descs = MaxProcs /\ free_descptrs = MaxProcs
    BY InitKeepsTimers DEF ResourcesInit
  <2>2. <<>> \in [{} -> Ids] /\ <<>> \in [{} -> Types] /\ <<>> \in [{} -> SUBSET FdPairs]
        /\ DOMAIN <<>> = {}
    OBVIOUS
  <2>3. <<>> \in Descriptors
    BY <2>2 DEF Descriptors
  <2>4. MaxProcs \in Nat /\ MaxFd \in Nat
    BY ProcessesAssumption, ResourcesAssumption
  <2>5. ResourcesTyped
    BY <2>1, <2>2, <2>3, <2>4 DEF ResourcesTyped
  <2>6. Ent = [id \in Ids |-> {}]
    BY <2>1, <2>2 DEF Ent
  <2>7. \A id \in Ids : Ent[id] = {}
    BY <2>6
  <2>8. PlacesOf(Ent) = {}
    BY <2>7 DEF PlacesOf
  <2>9. CountsFree(Ent, free_descs)
    BY <2>1, <2>4, <2>8, FS_EmptySet DEF CountsFree
  <2>10. NoneAhead(Ent, last_pid, descriptors, last_fd)
    BY <2>1, <2>2, <2>7 DEF NoneAhead
  <2>11. LinkedFor(Ent, Allocated, PidOf, descriptors)
    <3>1. \A b \in Allocated : b \in Blocks
      BY ProcTypes, <2>1 DEF Stage03Inv
    <3> QED
      BY <2>1, <2>2, <2>7, <3>1 DEF LinkedFor
  <2> QED
    BY <2>1, <2>5, <2>9, <2>10, <2>11 DEF ResourcesInv
<1>2. ResourcesInv /\ [ResourcesNext]_stage04Vars => ResourcesInv'
  BY ResourcesStepKeeps
<1> QED
  BY <1>1, <1>2, PTL DEF ResourcesSpec

\* A descriptor of a process is on the list of a resource that exists, and the other way
\* round.
THEOREM DescriptorsAreLinked == ResourcesSpec => []DescriptorsLinked
<1>1. ResourcesInv => DescriptorsLinked
  BY InvIsLinked
<1> QED
  BY <1>1, ResourcesHasInv, PTL

\* Both pools miss a block for each entry of a list and no other.
THEOREM DescriptorsAreAccounted == ResourcesSpec => []DescriptorsAccounted
<1>1. ResourcesInv => DescriptorsAccounted
  BY InvIsLinked
<1> QED
  BY <1>1, ResourcesHasInv, PTL

\* The lists of processes agree with the PCBs in stage 04.
THEOREM ResourcesListProcesses == ResourcesSpec => []ProcessesListed
<1>1. ResourcesInv => ProcessesListed
  BY InvListsProcesses DEF ResourcesInv, Stage03Inv
<1> QED
  BY <1>1, ResourcesHasInv, PTL

\* Whoever sleeps has one timer, in stage 04 too.
THEOREM ResourcesSleepersHaveTimers == ResourcesSpec => []SleepersHaveTimers
<1>1. ResourcesInv => SleepersHaveTimers
  BY DEF ResourcesInv, Stage03Inv
<1> QED
  BY <1>1, ResourcesHasInv, PTL

\* What OpenResourcesStay says of a step, of the resource i and of an entry e of its list.
KeepsOpen(i, e) ==
    /\ i \in DOMAIN type' /\ type'[i] = type[i]
    /\ \/ e \in users'[i]
       \/ /\ InUserCode /\ e[1] = Me
          /\ e[2] \in DOMAIN descriptors[running] /\ descriptors[running][e[2]] = i
          /\ e[2] \notin DOMAIN descriptors'[running]

\* An open takes nothing from the lists.
LEMMA OpenClosesNothing ==
    ASSUME ResourcesInv, NEW id \in Ids, NEW t \in Types, NEW mode \in Modes,
           OpenWithoutFd(id, t, mode) \/ OpenSucceeds(id, t, mode),
           NEW i \in DOMAIN type, NEW e \in users[i]
    PROVE  KeepsOpen(i, e)
<1> DEFINE T == TypeAfter(id, t, mode)
           u == UsersAfter(id, mode)
<1>1. type' = T /\ Fetches(id, t, mode) /\ ResourcesTyped
  BY DEF OpenWithoutFd, OpenSucceeds, ResourcesInv
<1>2. Fetched(T, u, id)
  BY <1>1, FetchKeepsEntries
<1>3. users' = u \/ \E x : users' = [u EXCEPT ![id] = @ \cup {x}]
  BY DEF OpenWithoutFd, OpenSucceeds, Link
<1> HIDE DEF T, u
<1>4. i \in Ids /\ i \in DOMAIN T /\ T[i] = type[i]
  BY <1>1, <1>2 DEF Fetched, ResourcesTyped
<1>5. e \in u[i] /\ i \in DOMAIN u
  <2>1. Ent[i] = users[i] /\ DOMAIN u = DOMAIN T
    BY <1>2, <1>4 DEF Ent, Fetched
  <2>2. (IF i \in DOMAIN T THEN u[i] ELSE {}) = Ent[i]
    BY <1>2, <1>4 DEF Fetched
  <2> QED
    BY <2>1, <2>2, <1>4
<1>6. e \in users'[i]
  BY <1>3, <1>5
<1> QED
  BY <1>1, <1>4, <1>6 DEF KeepsOpen

\* Only a resource without users is destroyed.
LEMMA DestroyClosesNothing ==
    ASSUME ResourcesInv, NEW id \in Ids, Destroy(id),
           NEW i \in DOMAIN type, NEW e \in users[i]
    PROVE  KeepsOpen(i, e)
<1>1. /\ i # id /\ DOMAIN users = DOMAIN type
      /\ type' = [o \in DOMAIN type \ {id} |-> type[o]]
      /\ users' = [o \in DOMAIN users \ {id} |-> users[o]]
  BY DEF Destroy, Destroyable, Restrict, ResourcesInv, ResourcesTyped
<1> QED
  BY <1>1 DEF KeepsOpen

\* A close takes the entry of the descriptor it closes, and that is the caller's.
LEMMA CloseTakesItsOwn ==
    ASSUME ResourcesInv, NEW fd \in 0 .. MaxFd, Close(fd),
           NEW i \in DOMAIN type, NEW e \in users[i]
    PROVE  KeepsOpen(i, e)
<1> DEFINE l == descriptors[running]
<1>1. /\ InUserCode /\ fd \in DOMAIN l /\ type' = type
      /\ users' = [users EXCEPT ![l[fd]] = @ \ {<<Me, fd>>}]
      /\ descriptors' = [descriptors EXCEPT ![running] = Restrict(l, DOMAIN l \ {fd})]
  BY DEF Close
<1>2. running \in Blocks /\ DOMAIN users = DOMAIN type /\ DOMAIN descriptors = Blocks
  BY <1>1, ResourcesTypes DEF ResourcesInv, ResourcesTyped, ProcInv, ProcessesTypeOK, InUserCode
<1>3. fd \notin DOMAIN descriptors'[running]
  BY <1>1, <1>2 DEF Restrict
<1> HIDE DEF l
<1>4. CASE e \in users'[i]
  BY <1>1, <1>4 DEF KeepsOpen
<1>5. CASE e \notin users'[i]
  <2>1. i = l[fd] /\ e = <<Me, fd>>
    BY <1>1, <1>2, <1>5
  <2>2. e[1] = Me /\ e[2] = fd
    BY <2>1
  <2> QED
    BY <1>1, <1>3, <2>1, <2>2 DEF KeepsOpen, l
<1> QED
  BY <1>4, <1>5

\* An exit takes the entries of its caller, for descriptors that are on its list.
LEMMA ExitTakesItsOwn ==
    ASSUME ResourcesInv, ExitReleasesResources,
           NEW i \in DOMAIN type, NEW e \in users[i]
    PROVE  KeepsOpen(i, e)
<1> DEFINE l == descriptors[running]
<1>1. /\ InUserCode /\ type' = type
      /\ users' = [id \in DOMAIN users |-> users[id] \ {<<Me, fd>> : fd \in DOMAIN l}]
      /\ descriptors' = [descriptors EXCEPT ![running] = <<>>]
  BY DEF ExitReleasesResources, ExitReleasesTimers, ExitToParent, CanExit
<1>2. /\ running \in Blocks /\ running \in Allocated
      /\ DOMAIN users = DOMAIN type /\ DOMAIN descriptors = Blocks
      /\ i \in Ids /\ DOMAIN l \subseteq 0 .. MaxFd
  BY <1>1, ResourcesTypes
     DEF ResourcesInv, ResourcesTyped, ProcInv, ProcessesTypeOK, ReadyListed, InUserCode
<1>3. DOMAIN descriptors'[running] = {}
  BY <1>1, <1>2
<1> HIDE DEF l
<1>4. CASE e \in users'[i]
  BY <1>1, <1>4 DEF KeepsOpen
<1>5. CASE e \notin users'[i]
  <2>1. PICK fd \in DOMAIN l : e = <<Me, fd>>
    BY <1>1, <1>2, <1>5
  <2>2. <<pcb[running].pid, fd>> \in Entries(i)
    BY <2>1 DEF Entries, Exists, Me
  <2>3. l[fd] = i
    BY <1>2, <2>1, <2>2, InvIsLinked DEF DescriptorsLinked, l
  <2>4. e[1] = Me /\ e[2] = fd
    BY <2>1
  <2> QED
    BY <1>1, <1>3, <2>1, <2>3, <2>4 DEF KeepsOpen, l
<1> QED
  BY <1>4, <1>5

\* A resource that somebody has open stays as it is, and only he gives it up, together
\* with his descriptor for it.
THEOREM OpenResourcesRemain == ResourcesSpec => OpenResourcesStay
<1> DEFINE Stay == \A i \in DOMAIN type : \A e \in users[i] : KeepsOpen(i, e)
<1>1. ASSUME ResourcesInv, ResourcesNext
      PROVE  Stay
  <2>1. CASE type' = type /\ users' = users
    BY <2>1 DEF KeepsOpen
  <2>2. ASSUME NEW id \in Ids, NEW t \in Types, NEW mode \in Modes,
               OpenWithoutFd(id, t, mode) \/ OpenSucceeds(id, t, mode)
        PROVE  Stay
    BY <1>1, <2>2, OpenClosesNothing
  <2>3. ASSUME NEW id \in Ids, Destroy(id)
        PROVE  Stay
    BY <1>1, <2>3, DestroyClosesNothing
  <2>4. CASE \/ OtherStep /\ UNCHANGED <<timerVars, resourceVars>>
             \/ (Tick \/ Preempt \/ \E n \in SleepArgs : Sleep(n)) /\ UNCHANGED resourceVars
    BY <2>1, <2>4 DEF resourceVars
  <2>5. CASE SpawnWithoutDescriptors \/ RestartWithoutDescriptors
    BY <2>1, <2>5 DEF SpawnWithoutDescriptors, RestartWithoutDescriptors, NoDescriptors
  <2>6. CASE ExitReleasesResources
    BY <1>1, <2>6, ExitTakesItsOwn
  <2>7. ASSUME NEW id \in Ids, NEW t \in Types, NEW mode \in Modes,
               OpenRefused(id, t, mode) \/ OpenNotExclusive(id, t, mode)
        PROVE  Stay
    BY <2>1, <2>7 DEF OpenRefused, OpenNotExclusive, resourceVars
  <2>8. ASSUME NEW id \in Ids, NEW mode \in Modes, OpenWithoutBlock(id, mode)
        PROVE  Stay
    BY <2>1, <2>8 DEF OpenWithoutBlock, resourceVars
  <2>9. ASSUME NEW fd \in 0 .. MaxFd, CloseRefused(fd) \/ Close(fd)
        PROVE  Stay
    BY <1>1, <2>1, <2>9, CloseTakesItsOwn DEF CloseRefused, resourceVars
  <2>10. ASSUME NEW id \in Ids, DestroyRefused(id)
         PROVE  Stay
    BY <2>1, <2>10 DEF DestroyRefused, resourceVars
  <2> HIDE DEF Stay
  <2> QED
    BY <1>1, <2>2, <2>3, <2>4, <2>5, <2>6, <2>7, <2>8, <2>9, <2>10 DEF ResourcesNext
<1>2. ResourcesInv /\ [ResourcesNext]_stage04Vars => [Stay]_stage04Vars
  BY <1>1
<1> QED
  BY <1>2, ResourcesHasInv, PTL DEF ResourcesSpec, OpenResourcesStay, KeepsOpen

=============================================================================
