------------------------ MODULE ParallelElGamalProofs -------------------------------
(***************************************************************************)
(* The table of baby steps, for any sizes, any number of threads that      *)
(* build it and any number of crashes; and the parallel search, which      *)
(* finds the logarithm for any table size, range and number of threads,    *)
(* however they race on parallel_finding; and the parallel operations on   *)
(* ciphertexts, which agree with the sequential ones for every key, message *)
(* and randomness of a group of prime order.                               *)
(***************************************************************************)
EXTENDS ParallelElGamal, NumberTheorems, FiniteSetTheorems

\* What a step of the program does to the table.
TableNext == Boot \/ Initialize \/ Stop \/ Crash

-----------------------------------------------------------------------------
(* Arithmetic. *)

\* Slices of one length do not overlap.
LEMMA SlicesApart ==
    ASSUME NEW a \in Nat, NEW b \in Nat, NEW l \in Nat, a < b
    PROVE  a * l + l <= b * l
OBVIOUS

\* The slices of n threads cover n * l slots.
LEMMA SlicesCover ==
    ASSUME NEW n \in Nat \ {0}, NEW l \in Nat \ {0}, NEW k \in 0..(n * l - 1)
    PROVE  \E t \in 0..(n - 1) : \E c \in 0..(l - 1) : k = t * l + c
<1>1. k = l * (k \div l) + (k % l) /\ k % l \in 0..(l - 1) /\ k \div l \in Nat
  <2>1. k \in Nat
    OBVIOUS
  <2> QED BY <2>1
<1>2. k \div l < n
  <2>1. SUFFICES ASSUME k \div l >= n PROVE FALSE
    BY <1>1
  <2>2. (k \div l) * l >= n * l
    BY <1>1, <2>1, SlicesApart
  <2> QED BY <1>1, <2>2
<1>3. k \div l \in 0..(n - 1) /\ k = (k \div l) * l + (k % l)
  BY <1>1, <1>2
<1> QED BY <1>1, <1>3

\* The slots of the build's threads, for each size.
LEMMA Slots ==
    ASSUME size \in Sizes
    PROVE  /\ size \in Nat \ {0} /\ Length \in Nat \ {0}
           /\ IO_THREAD_NUM \in Nat \ {0} /\ IO_THREAD_NUM * Length = size
           /\ \A t \in Writers : t \in Nat /\ t * Length + Length <= size
<1>1. size \in Nat \ {0} /\ IO_THREAD_NUM \in Nat \ {0} /\ size % IO_THREAD_NUM = 0
  BY TableAssumption
<1>2. Length \in Nat /\ IO_THREAD_NUM * Length = size
  <2>1. /\ size \div IO_THREAD_NUM \in Nat
        /\ size = IO_THREAD_NUM * (size \div IO_THREAD_NUM) + (size % IO_THREAD_NUM)
    BY <1>1
  <2> QED BY <1>1, <2>1 DEF Length
<1>3. Length # 0
  BY <1>1, <1>2
<1>4. ASSUME NEW t \in Writers PROVE t \in Nat /\ t * Length + Length <= size
  BY <1>1, <1>2, SlicesApart DEF Writers
<1> QED BY <1>1, <1>2, <1>3, <1>4

-----------------------------------------------------------------------------
\* Each thread has written its slice as far as it has counted.
Slot(t) ==
    /\ startpoint[t] = t * Length + count[t]
    /\ \A c \in 0..(Length - 1) :
          c < count[t] => buffer[t * Length + c] = t * Length + c

BufferRight == \A k \in 0..(size - 1) : buffer[k] = k

TypeInv ==
    /\ pc \in {"off", "build", "write", "load", "serve", "exit"}
    /\ size \in Sizes /\ crashes \in Nat
    /\ startpoint \in [Writers -> 0..size] /\ count \in [Writers -> 0..Length]
    /\ buffer \in [0..(size - 1) -> Int] /\ file \in Seq(Int)
    /\ exists \in BOOLEAN

\* A file holds the first baby steps, all that some program wanted unless a
\* build died.
FileInv ==
    /\ \A k \in 1..Len(file) : file[k] = k - 1
    /\ Len(file) > 0 => exists
    /\ exists /\ pc # "write" => Len(file) \in Sizes \/ crashes > 0

StageInv ==
    /\ pc = "build" => ~exists /\ \A t \in Writers : Slot(t)
    /\ pc = "write" => exists /\ BufferRight /\ Len(file) <= size
    /\ pc \in {"load", "exit"} => exists
    /\ pc = "exit" => Len(file) # size

TableInv == TypeInv /\ FileInv /\ StageInv /\ TableRight

LEMMA InitTableInv == TableInit => TableInv
<1> SUFFICES ASSUME TableInit PROVE TableInv
  OBVIOUS
<1>1. size \in Nat \ {0} /\ Length \in Nat /\ crashes \in Nat
  BY Slots DEF TableInit
<1>2. TypeInv
  <2>1. startpoint \in [Writers -> 0..size] /\ count \in [Writers -> 0..Length]
    BY <1>1 DEF TableInit
  <2>2. buffer \in [0..(size - 1) -> Int]
    BY <1>1 DEF TableInit, Empty, NoEntry
  <2>3. /\ file = <<>> /\ exists = FALSE /\ crashes = 0
        /\ pc = "off" /\ size \in Sizes
    BY DEF TableInit
  <2>4. file \in Seq(Int)
    BY <2>3
  <2>5. crashes \in Nat /\ exists \in BOOLEAN
    BY <2>3
  <2> QED BY <2>1, <2>2, <2>3, <2>4, <2>5 DEF TypeInv
<1>3. FileInv /\ StageInv /\ TableRight
  BY DEF FileInv, StageInv, TableRight, TableInit
<1> QED BY <1>2, <1>3 DEF TableInv

LEMMA BootKeeps == TableInv /\ Boot => TableInv'
<1> SUFFICES ASSUME TableInv, Boot PROVE TableInv'
  OBVIOUS
<1>1. PICK s \in Sizes :
        /\ size' = s
        /\ startpoint' = [t \in Writers |-> t * (s \div IO_THREAD_NUM)]
        /\ buffer' = Empty(s)
  BY DEF Boot
<1>2. UNCHANGED <<exists, file, crashes>>
  BY DEF Boot
<1>3. /\ Length' = s \div IO_THREAD_NUM
      /\ size' \in Nat \ {0} /\ Length' \in Nat \ {0}
      /\ IO_THREAD_NUM \in Nat \ {0} /\ IO_THREAD_NUM * Length' = size'
  <2>1. s \in Nat \ {0} /\ IO_THREAD_NUM \in Nat \ {0} /\ s % IO_THREAD_NUM = 0
    BY TableAssumption
  <2>2. /\ s \div IO_THREAD_NUM \in Nat
        /\ s = IO_THREAD_NUM * (s \div IO_THREAD_NUM) + (s % IO_THREAD_NUM)
    BY <2>1
  <2> QED BY <1>1, <2>1, <2>2 DEF Length
<1>4. \A t \in Writers : t \in Nat /\ t * Length' \in 0..size'
  <2>1. ASSUME NEW t \in Writers PROVE t * Length' + Length' <= IO_THREAD_NUM * Length'
    BY <1>3, SlicesApart DEF Writers
  <2> QED BY <1>3, <2>1 DEF Writers
<1>5. TypeInv'
  <2>1. pc' \in {"load", "build"} /\ count' = [t \in Writers |-> 0]
    BY DEF Boot
  <2>2. startpoint' \in [Writers -> 0..size']
    BY <1>1, <1>3, <1>4
  <2>3. buffer' \in [0..(size' - 1) -> Int]
    BY <1>1 DEF Empty, NoEntry
  <2> QED BY <1>1, <1>2, <1>3, <2>1, <2>2, <2>3 DEF TableInv, TypeInv
<1>6. FileInv'
  BY <1>2 DEF Boot, TableInv, FileInv
<1>7. StageInv'
  <2>1. \A t \in Writers : Slot(t)'
    <3>1. ASSUME NEW t \in Writers PROVE Slot(t)'
      <4>1. startpoint'[t] = t * Length' /\ count'[t] = 0
        BY <1>1, <1>3 DEF Boot
      <4> QED BY <1>3, <1>4, <4>1 DEF Slot
    <3> QED BY <3>1
  <2> QED BY <1>2, <2>1 DEF Boot, StageInv
<1>8. TableRight'
  BY DEF Boot, TableRight
<1> QED BY <1>5, <1>6, <1>7, <1>8 DEF TableInv

LEMMA WriteEntryKeeps ==
    ASSUME TableInv, NEW t \in Writers, WriteEntry(t)
    PROVE  TableInv'
<1>1. /\ pc = "build" /\ pc' = pc /\ count[t] < Length
      /\ UNCHANGED <<size, map, exists, file, crashes>>
  BY DEF WriteEntry
<1>2. /\ size \in Nat \ {0} /\ Length \in Nat \ {0} /\ Length' = Length
      /\ \A u \in Writers : u \in Nat /\ u * Length + Length <= size
  BY <1>1, Slots DEF TableInv, TypeInv, Length
<1>3. /\ startpoint \in [Writers -> 0..size] /\ count \in [Writers -> 0..Length]
      /\ buffer \in [0..(size - 1) -> Int] /\ \A u \in Writers : Slot(u)
  BY <1>1 DEF TableInv, TypeInv, StageInv
<1> DEFINE k == t * Length + count[t]
<1>4. /\ k \in 0..(size - 1) /\ startpoint[t] = k /\ k = t * Length + count[t]
      /\ count[t] \in 0..(Length - 1)
  BY <1>1, <1>2, <1>3 DEF Slot
<1>5. /\ buffer' = [buffer EXCEPT ![k] = k]
      /\ startpoint' = [startpoint EXCEPT ![t] = k + 1]
      /\ count' = [count EXCEPT ![t] = count[t] + 1]
  BY <1>4 DEF WriteEntry
<1> HIDE DEF k
<1>6. TypeInv'
  <2>1. k + 1 \in 0..size /\ count[t] + 1 \in 0..Length /\ k \in Int
    BY <1>2, <1>4
  <2>2. startpoint' \in [Writers -> 0..size]
    BY <1>3, <1>5, <2>1
  <2>3. count' \in [Writers -> 0..Length]
    BY <1>3, <1>5, <2>1
  <2>4. buffer' \in [0..(size - 1) -> Int]
    BY <1>3, <1>4, <1>5, <2>1
  <2> QED BY <1>1, <1>2, <2>2, <2>3, <2>4 DEF TableInv, TypeInv
<1>7. ASSUME NEW u \in Writers PROVE Slot(u)'
  <2>1. startpoint'[u] = u * Length + count'[u]
    <3>1. startpoint[u] = u * Length + count[u] /\ u * Length \in Int
      BY <1>2, <1>3 DEF Slot
    <3>2. CASE u = t
      <4>1. startpoint'[t] = k + 1 /\ count'[t] = count[t] + 1
        BY <1>3, <1>5
      <4> QED BY <1>4, <3>1, <3>2, <4>1
    <3>3. CASE u # t
      BY <1>3, <1>5, <3>1, <3>3
    <3> QED BY <3>2, <3>3
  <2>2. ASSUME NEW c \in 0..(Length - 1), c < count'[u]
        PROVE  buffer'[u * Length + c] = u * Length + c
    <3>1. u * Length + c \in 0..(size - 1)
      BY <1>2
    <3>2. CASE u = t
      <4>1. c < count[t] \/ c = count[t]
        BY <1>3, <1>5, <2>2, <3>2
      <4> QED BY <1>3, <1>4, <1>5, <3>1, <3>2, <4>1 DEF Slot
    <3>3. CASE u # t
      <4>1. c < count[u]
        BY <1>3, <1>5, <2>2, <3>3
      <4>2. u * Length + c # k
        <5>1. t \in Nat /\ u \in Nat /\ Length \in Nat
          BY <1>2
        <5>2. \/ u * Length + Length <= t * Length
              \/ t * Length + Length <= u * Length
          BY <3>3, <5>1, SlicesApart
        <5> QED BY <1>2, <1>4, <5>1, <5>2
      <4> QED BY <1>3, <1>4, <1>5, <3>1, <4>1, <4>2 DEF Slot
    <3> QED BY <3>2, <3>3
  <2> QED BY <1>2, <2>1, <2>2 DEF Slot
<1>8. FileInv' /\ StageInv' /\ TableRight'
  BY <1>1, <1>7 DEF TableInv, FileInv, StageInv, TableRight
<1> QED BY <1>6, <1>8 DEF TableInv

LEMMA OpenKeeps == TableInv /\ Open => TableInv'
<1> SUFFICES ASSUME TableInv, Open PROVE TableInv'
  OBVIOUS
<1>1. /\ pc = "build" /\ pc' = "write" /\ exists' = TRUE /\ file' = <<>>
      /\ \A t \in Writers : count[t] = Length
      /\ UNCHANGED <<size, threads, buffer, map, crashes>>
  BY DEF Open
<1>2. /\ size \in Nat \ {0} /\ Length \in Nat \ {0} /\ Length' = Length
      /\ IO_THREAD_NUM \in Nat \ {0} /\ IO_THREAD_NUM * Length = size
  BY <1>1, Slots DEF TableInv, TypeInv, Length
<1>3. TypeInv'
  BY <1>1, <1>2 DEF TableInv, TypeInv, threads
<1>4. BufferRight
  <2>1. ASSUME NEW k \in 0..(size - 1) PROVE buffer[k] = k
    <3>1. PICK t \in Writers : \E c \in 0..(Length - 1) : k = t * Length + c
      BY <1>2, SlicesCover DEF Writers
    <3>2. Slot(t) /\ count[t] = Length
      BY <1>1 DEF TableInv, StageInv
    <3> QED BY <1>2, <3>1, <3>2 DEF Slot
  <2> QED BY <2>1 DEF BufferRight
<1>5. BufferRight'
  BY <1>1, <1>4 DEF BufferRight
<1>6. FileInv' /\ StageInv' /\ TableRight'
  BY <1>1, <1>2, <1>5 DEF FileInv, StageInv, TableRight
<1> QED BY <1>3, <1>6 DEF TableInv

LEMMA WriteKeeps == TableInv /\ Write => TableInv'
<1> SUFFICES ASSUME TableInv, Write PROVE TableInv'
  OBVIOUS
<1>1. /\ pc = "write" /\ UNCHANGED <<size, threads, buffer, map, exists, crashes>>
  BY DEF Write
<1>2. /\ size \in Nat \ {0} /\ size \in Sizes /\ Length' = Length
      /\ exists /\ BufferRight /\ Len(file) <= size
      /\ file \in Seq(Int) /\ Len(file) \in Nat
      /\ \A k \in 1..Len(file) : file[k] = k - 1
  BY <1>1, Slots DEF TableInv, TypeInv, FileInv, StageInv, Length
<1>3. BufferRight'
  BY <1>1, <1>2 DEF BufferRight
<1>4. CASE Len(file) < size /\ file' = Append(file, buffer[Len(file)]) /\ UNCHANGED pc
  <2>1. buffer[Len(file)] = Len(file)
    BY <1>2, <1>4 DEF BufferRight
  <2>2. /\ file' \in Seq(Int) /\ Len(file') = Len(file) + 1
        /\ \A k \in 1..Len(file') : file'[k] = k - 1
    BY <1>2, <1>4, <2>1
  <2>3. TypeInv'
    BY <1>1, <1>2, <1>4, <2>2 DEF TableInv, TypeInv, threads
  <2>4. FileInv' /\ StageInv' /\ TableRight'
    BY <1>1, <1>2, <1>3, <1>4, <2>2 DEF FileInv, StageInv, TableRight
  <2> QED BY <2>3, <2>4 DEF TableInv
<1>5. CASE Len(file) = size /\ pc' = "load" /\ UNCHANGED file
  <2>1. TypeInv'
    BY <1>1, <1>2, <1>5 DEF TableInv, TypeInv, threads
  <2>2. FileInv' /\ StageInv' /\ TableRight'
    BY <1>1, <1>2, <1>5 DEF FileInv, StageInv, TableRight
  <2> QED BY <2>1, <2>2 DEF TableInv
<1> QED BY <1>4, <1>5 DEF Write

LEMMA LoadKeeps == TableInv /\ Load => TableInv'
<1> SUFFICES ASSUME TableInv, Load PROVE TableInv'
  OBVIOUS
<1>1. /\ pc = "load" /\ UNCHANGED <<size, threads, buffer, exists, file, crashes>>
      /\ pc' \in {"exit", "serve"} /\ (pc' = "exit" => Len(file) # size)
  BY DEF Load
<1>2. TypeInv'
  BY <1>1 DEF TableInv, TypeInv, threads, Length
<1>3. FileInv' /\ StageInv'
  BY <1>1 DEF TableInv, FileInv, StageInv
<1>4. TableRight'
  <2>1. SUFFICES ASSUME pc' = "serve" PROVE map' = {<<k, k>> : k \in 0..(size - 1)}
    BY <1>1 DEF TableRight
  <2>2. Len(file) = size /\ map' = {<<file[k], k - 1>> : k \in 1..size}
    BY <2>1 DEF Load
  <2>3. size \in Nat /\ \A k \in 1..size : file[k] = k - 1
    BY <2>2, Slots DEF TableInv, TypeInv, FileInv
  <2>4. map' = {<<k - 1, k - 1>> : k \in 1..size}
    BY <2>2, <2>3
  <2>5. \A k \in 0..(size - 1) : k + 1 \in 1..size /\ (k + 1) - 1 = k
    BY <2>3
  <2>6. \A k \in 1..size : k - 1 \in 0..(size - 1)
    BY <2>3
  <2> QED BY <2>4, <2>5, <2>6
<1> QED BY <1>2, <1>3, <1>4 DEF TableInv

LEMMA EndKeeps == TableInv /\ (Stop \/ Crash) => TableInv'
<1> SUFFICES ASSUME TableInv, Stop \/ Crash PROVE TableInv'
  OBVIOUS
<1>1. /\ pc' = "off" /\ crashes' \in Nat
      /\ UNCHANGED <<size, threads, buffer, exists, file>>
      /\ \/ pc = "serve" /\ crashes' = crashes
         \/ crashes' > 0
  BY DEF TableInv, TypeInv, Stop, Crash
<1>2. TypeInv'
  BY <1>1 DEF TableInv, TypeInv, threads, Length
<1>3. FileInv' /\ StageInv' /\ TableRight'
  BY <1>1 DEF TableInv, TypeInv, FileInv, StageInv, TableRight
<1> QED BY <1>2, <1>3 DEF TableInv

LEMMA TableStep == TableInv /\ [TableNext]_tableVars => TableInv'
<1> SUFFICES ASSUME TableInv, [TableNext]_tableVars PROVE TableInv'
  OBVIOUS
<1>1. CASE Boot
  BY <1>1, BootKeeps
<1>2. CASE Initialize
  BY <1>2, OpenKeeps, WriteKeeps, LoadKeeps, WriteEntryKeeps DEF Initialize
<1>3. CASE Stop \/ Crash
  BY <1>3, EndKeeps
<1>4. CASE UNCHANGED tableVars
  BY <1>4 DEF tableVars, TableInv, TypeInv, FileInv, StageInv, TableRight, Slot,
              BufferRight, Length
<1> QED BY <1>1, <1>2, <1>3, <1>4 DEF TableNext

-----------------------------------------------------------------------------
\* What the parallel functions do leaves the table alone.
LEMMA NextIsTableNext == [ElGamalNext]_elGamalVars => [TableNext]_tableVars
<1> SUFFICES ASSUME [ElGamalNext]_elGamalVars PROVE [TableNext]_tableVars
  OBVIOUS
<1>1. CASE Call \/ Return \/ \E t \in Halves : Enter(t) \/ Leave(t)
  BY <1>1 DEF Call, Return, Enter, Leave
<1>2. CASE Dec
  BY <1>2 DEF Dec, Decrypt
<1>3. CASE Program \/ Killed
  BY <1>3 DEF Program, Killed, TableNext
<1>4. CASE Spawn \/ Join \/ \E t \in Threads : Search(t)
  BY <1>4 DEF Spawn, Join, Search, LoopTest, GiantStep, Find, Raise
<1>5. CASE UNCHANGED elGamalVars
  BY <1>5 DEF elGamalVars, vars
<1> QED BY <1>1, <1>2, <1>3, <1>4, <1>5 DEF ElGamalNext

\* The table's invariant of whatever the programs compute.
LEMMA TableInvariant == ElGamalSpec => []TableInv
<1>1. ElGamalInit => TableInv
  BY InitTableInv DEF ElGamalInit, Init
<1>2. TableInv /\ [ElGamalNext]_elGamalVars => TableInv'
  BY TableStep, NextIsTableNext
<1> QED BY <1>1, <1>2, PTL DEF ElGamalSpec

\* Whatever the programs compute, whichever of them built the file and
\* wherever an earlier build died: one that serves has the right table, and
\* the build's threads stay in their slices.
THEOREM TableCorrect == ElGamalSpec => [](TableTypeOK /\ TableRight)
<1>1. TableInv => TableTypeOK /\ TableRight
  <2>1. TableInv => TableTypeOK
    BY Slots DEF TableInv, TypeInv, FileInv, TableTypeOK
  <2> QED BY <2>1 DEF TableInv
<1> QED BY <1>1, TableInvariant, PTL

\* A program that exits at its start has found a table of another size, or
\* one whose build was cut off: no other file is refused, ever.
THEOREM RefusalCorrect == ElGamalSpec => []RefusalExplained
<1>1. TableInv => RefusalExplained
  BY DEF TableInv, FileInv, StageInv, RefusalExplained
<1> QED BY <1>1, TableInvariant, PTL

-----------------------------------------------------------------------------
(* The search. *)

(* Arithmetic. *)

LEMMA MinIn == ASSUME NEW T \in SUBSET Nat, T # {} PROVE Min(T) \in T
BY LeastExists DEF Min

LEMMA MaxIn ==
    ASSUME NEW n \in Nat, NEW T \in SUBSET (0..n), T # {}
    PROVE  Max(T) \in T
<1> DEFINE D == {n - t : t \in T}
<1>1. D \in SUBSET Nat /\ D # {}
  <2>1. \A t \in T : n - t \in Nat
    OBVIOUS
  <2> QED BY <2>1
<1>2. PICK d \in D : \A b \in D : d <= b
  BY <1>1, LeastExists
<1>3. PICK t \in T : d = n - t
  BY <1>2
<1>4. \A u \in T : n - u \in D
  OBVIOUS
<1>5. \A u \in T : t >= u
  BY <1>2, <1>3, <1>4
<1> QED BY <1>3, <1>5 DEF Max

\* Giant steps back by a, then p forward, lead to h when nothing wraps.
LEMMA StepsBack ==
    ASSUME NEW o \in Nat \ {0}, NEW h \in 0..(o - 1), NEW a \in Int,
           NEW p \in Int, p = (h - a) % o, p + a \in 0..(o - 1)
    PROVE  p + a = h
<1>1. h - a \in Int /\ (h - a) \div o \in Int
      /\ h - a = o * ((h - a) \div o) + ((h - a) % o)
  OBVIOUS
<1>2. PICK q \in Int : h - (p + a) = o * q
  BY <1>1
<1>3. q = 0
  <2>1. CASE q > 0
    <3>1. o * q >= o
      BY <2>1
    <3> QED BY <1>2, <3>1
  <2>2. CASE q < 0
    <3>1. o * q <= -o
      BY <2>2
    <3> QED BY <1>2, <3>1
  <2> QED BY <2>1, <2>2
<1> QED BY <1>2, <1>3

LEMMA ModMinus ==
    ASSUME NEW a \in Int, NEW b \in Int, NEW n \in Nat \ {0}
    PROVE  ((a % n) - b) % n = (a - b) % n
<1>1. PICK u \in Int : a = n * u + (a % n)
  <2>1. a \div n \in Int /\ a = n * (a \div n) + (a % n)
    OBVIOUS
  <2> QED BY <2>1
<1>2. a % n \in Int
  OBVIOUS
<1> DEFINE c == (a % n) - b
<1>3. c \in Int
  BY <1>2
<1> HIDE DEF c
<1>4. PICK v \in Int : c = n * v + (c % n)
  <2>1. c \div n \in Int /\ c = n * (c \div n) + (c % n)
    BY <1>3
  <2> QED BY <2>1
<1>5. c % n \in 0..(n - 1)
  BY <1>3
<1>6. a - b = n * u + c
  BY <1>1, <1>2 DEF c
<1>7. a - b = n * (u + v) + (c % n) /\ a - b \in Int /\ u + v \in Int
  BY <1>4, <1>5, <1>6
<1>8. (a - b) % n = c % n
  BY <1>5, <1>7, DivUnique
<1> QED BY <1>8 DEF c

\* The slices of the threads are the giant steps of the whole range.
LEMMA SearchSlots ==
    ASSUME size \in Sizes
    PROVE  /\ size \in Nat \ {0} /\ Slice \in Nat /\ LoopNum \in Nat
           /\ DEC_THREAD_NUM \in Nat \ {0} /\ LoopNum = DEC_THREAD_NUM * Slice
           /\ Order \in Nat \ {0} /\ MaxMessage \in Nat /\ MaxMessage < Order
           /\ MaxMessage = LoopNum * size
<1>1. /\ size \in Nat \ {0} /\ DEC_THREAD_NUM \in Nat \ {0}
      /\ MaxMessage \in Nat /\ Order \in Nat \ {0} /\ MaxMessage < Order
      /\ MaxMessage % (size * DEC_THREAD_NUM) = 0
  BY TableAssumption, DlogAssumption
<1> DEFINE q == MaxMessage \div (size * DEC_THREAD_NUM)
<1>2. size * DEC_THREAD_NUM \in Nat \ {0}
  BY <1>1
<1>3. q \in Nat /\ MaxMessage = (size * DEC_THREAD_NUM) * q
  BY <1>1, <1>2
<1> HIDE DEF q
<1>4. LoopNum = DEC_THREAD_NUM * q
  <2>1. MaxMessage = size * (DEC_THREAD_NUM * q) + 0 /\ DEC_THREAD_NUM * q \in Int
    BY <1>1, <1>3
  <2>2. MaxMessage \div size = DEC_THREAD_NUM * q
    BY <1>1, <2>1, DivUnique
  <2> QED BY <2>2 DEF LoopNum
<1>5. Slice = q
  <2>1. LoopNum = DEC_THREAD_NUM * q + 0 /\ LoopNum \in Int
    BY <1>1, <1>3, <1>4
  <2>2. LoopNum \div DEC_THREAD_NUM = q
    BY <1>1, <1>3, <2>1, DivUnique
  <2> QED BY <2>2 DEF Slice
<1> QED BY <1>1, <1>3, <1>4, <1>5

LEMMA SliceIn ==
    ASSUME size \in Sizes, NEW t \in Threads, NEW n \in 0..(Slice - 1)
    PROVE  t * Slice + n \in 0..(LoopNum - 1)
<1>1. /\ Slice \in Nat /\ DEC_THREAD_NUM \in Nat \ {0} /\ t \in Nat
      /\ t < DEC_THREAD_NUM /\ LoopNum = DEC_THREAD_NUM * Slice
  BY SearchSlots DEF Threads
<1>2. t * Slice + Slice <= DEC_THREAD_NUM * Slice
  BY <1>1, SlicesApart
<1> QED BY <1>1, <1>2

LEMMA StepIn ==
    ASSUME size \in Sizes, NEW n \in 0..(LoopNum - 1), NEW p \in 0..(size - 1)
    PROVE  p + n * size \in 0..(MaxMessage - 1)
<1>1. size \in Nat \ {0} /\ LoopNum \in Nat /\ MaxMessage = LoopNum * size
  BY SearchSlots
<1>2. n * size + size <= LoopNum * size
  BY <1>1, SlicesApart
<1> QED BY <1>1, <1>2

-----------------------------------------------------------------------------
\* Thread t is where its giant steps have led it and has missed before; one
\* that is done has been through its slice, or there is a finder.
ThreadInv(t) ==
    /\ point[t] = (m - (t * Slice + j[t]) * size) % Order
    /\ tpc[t] = "probe" => j[t] < Slice
    /\ tpc[t] \in {"new", "test", "probe"} => finding[t] = 0
    /\ tpc[t] = "raise" => finding[t] = 1
    /\ finding[t] = 1 => i[t] = point[t] /\ j[t] < Slice
    /\ \A n \in 0..(Slice - 1) :
          n < j[t] => (m - (t * Slice + n) * size) % Order \notin 0..(size - 1)
    /\ tpc[t] = "done" => j[t] = Slice \/ Finders # {}

MainInv ==
    /\ main = "spawn" =>
          /\ spawned < DEC_THREAD_NUM
          /\ \A t \in Threads : t >= spawned => tpc[t] = "new"
    /\ main = "done" => x = Result /\ \A t \in Threads : tpc[t] = "done"
    /\ parallel_finding = 1 => Finders # {}

Reset ==
    /\ tpc = [t \in Threads |-> "new"] /\ i = [t \in Threads |-> 0]
    /\ j = [t \in Threads |-> 0] /\ finding = [t \in Threads |-> 0]

SearchInv ==
    /\ TypeOK
    /\ main = "idle" => Reset
    /\ main # "idle" => MainInv /\ \A t \in Threads : ThreadInv(t)

LEMMA ResetKeeps ==
    ASSUME NEW s \in Nat \ {0}, NEW l \in Nat, size' = s, Slice' = l, EndSearch
    PROVE  SearchInv'
<1>1. Reset' /\ main' = "idle"
  BY DEF EndSearch, Reset
<1>2. TypeOK'
  <2>1. Order \in Nat \ {0} /\ DEC_THREAD_NUM \in Nat \ {0}
    BY DlogAssumption
  <2>2. /\ tpc' \in [Threads -> {"new", "test", "probe", "raise", "done"}]
        /\ finding' \in [Threads -> {0, 1}]
    BY DEF EndSearch
  <2>3. point' \in [Threads -> 0..(Order - 1)]
    BY <2>1 DEF EndSearch
  <2>4. i' \in [Threads -> 0..(size' - 1)] /\ j' \in [Threads -> 0..Slice']
    <3>1. 0 \in 0..(s - 1) /\ 0 \in 0..l
      OBVIOUS
    <3> QED BY <3>1 DEF EndSearch
  <2>5. /\ m' \in 0..(Order - 1) /\ x' \in Nat /\ success' \in BOOLEAN
        /\ spawned' \in 0..DEC_THREAD_NUM /\ parallel_finding' \in {0, 1}
    <3>1. 0 \in 0..(Order - 1) /\ 0 \in 0..DEC_THREAD_NUM
      BY <2>1
    <3> QED BY <3>1 DEF EndSearch
  <2>6. main' \in {"idle", "spawn", "join", "done"} /\ (main' # "idle" => pc' = "serve")
    BY <1>1
  <2> QED BY <2>2, <2>3, <2>4, <2>5, <2>6 DEF TypeOK
<1> QED BY <1>1, <1>2 DEF SearchInv

LEMMA SameSlots ==
    ASSUME TableInv, size' = size
    PROVE  /\ size \in Nat \ {0} /\ Slice \in Nat /\ Slice' = Slice
           /\ Order \in Nat \ {0} /\ DEC_THREAD_NUM \in Nat \ {0}
BY SearchSlots DEF TableInv, TypeInv, Slice, LoopNum

LEMMA DecryptKeeps ==
    ASSUME TableInv, NEW h \in 0..(Order - 1), Decrypt(h)
    PROVE  SearchInv'
<1>1. /\ pc = "serve" /\ pc' = pc /\ size' = size /\ main' = "spawn" /\ m' = h
      /\ x' = 0 /\ success' = FALSE /\ spawned' = 0 /\ parallel_finding' = 0
  BY DEF Decrypt, tableVars
<1>2. /\ tpc' = [t \in Threads |-> "new"] /\ i' = [t \in Threads |-> 0]
      /\ j' = [t \in Threads |-> 0] /\ finding' = [t \in Threads |-> 0]
      /\ point' = [t \in Threads |-> (h - t * Slice * size) % Order]
  BY DEF Decrypt
<1>3. /\ size \in Nat \ {0} /\ Slice \in Nat /\ Slice' = Slice
      /\ Order \in Nat \ {0} /\ DEC_THREAD_NUM \in Nat \ {0}
  BY <1>1, SameSlots
<1>4. ASSUME NEW t \in Threads
      PROVE  /\ point'[t] = (h - (t * Slice + 0) * size) % Order
             /\ point'[t] \in 0..(Order - 1)
  <2>1. t \in Nat /\ t * Slice \in Int /\ t * Slice + 0 = t * Slice
    BY <1>3 DEF Threads
  <2>2. point'[t] = (h - t * Slice * size) % Order
    BY <1>2
  <2>3. h - t * Slice * size \in Int
    BY <1>3, <2>1
  <2> QED BY <1>3, <2>1, <2>2, <2>3
<1>5. TypeOK'
  <2>1. point' \in [Threads -> 0..(Order - 1)]
    BY <1>2, <1>4
  <2>2. /\ tpc' \in [Threads -> {"new", "test", "probe", "raise", "done"}]
        /\ finding' \in [Threads -> {0, 1}]
    BY <1>2
  <2>3. i' \in [Threads -> 0..(size' - 1)] /\ j' \in [Threads -> 0..Slice']
    BY <1>1, <1>2, <1>3
  <2>4. /\ m' \in 0..(Order - 1) /\ x' \in Nat /\ success' \in BOOLEAN
        /\ spawned' \in 0..DEC_THREAD_NUM /\ parallel_finding' \in {0, 1}
        /\ main' \in {"idle", "spawn", "join", "done"} /\ (main' # "idle" => pc' = "serve")
    <3>1. 0 \in 0..DEC_THREAD_NUM
      BY <1>3
    <3> QED BY <1>1, <3>1
  <2> QED BY <2>1, <2>2, <2>3, <2>4 DEF TypeOK
<1>6. MainInv'
  <2>1. \A t \in Threads : tpc'[t] = "new"
    BY <1>2
  <2> QED BY <1>1, <1>3, <2>1 DEF MainInv
<1>7. ASSUME NEW t \in Threads PROVE ThreadInv(t)'
  <2>1. tpc'[t] = "new" /\ j'[t] = 0 /\ finding'[t] = 0
    BY <1>2
  <2>2. \A n \in 0..(Slice' - 1) : ~(n < j'[t])
    BY <2>1
  <2> QED BY <1>1, <1>3, <1>4, <2>1, <2>2 DEF ThreadInv
<1> QED BY <1>1, <1>5, <1>6, <1>7 DEF SearchInv

LEMMA SpawnKeeps == TableInv /\ SearchInv /\ Spawn => SearchInv'
<1> SUFFICES ASSUME TableInv, SearchInv, Spawn PROVE SearchInv'
  OBVIOUS
<1>1. /\ main = "spawn" /\ main' = IF spawned' = DEC_THREAD_NUM THEN "join" ELSE "spawn"
      /\ tpc' = [tpc EXCEPT ![spawned] = "test"] /\ spawned' = spawned + 1
      /\ UNCHANGED <<m, x, success, point, i, j, finding, parallel_finding, pc, size>>
  BY DEF Spawn, locals, tableVars
<1>2. /\ size \in Nat \ {0} /\ Slice \in Nat /\ Slice' = Slice
      /\ DEC_THREAD_NUM \in Nat \ {0}
  BY <1>1, SameSlots
<1>3. /\ TypeOK /\ MainInv /\ spawned \in Nat /\ spawned < DEC_THREAD_NUM
      /\ \A t \in Threads : ThreadInv(t)
  BY <1>1, <1>2 DEF SearchInv, TypeOK, MainInv
<1>4. Finders' = Finders
  BY <1>1 DEF Finders
<1>5. TypeOK'
  <2>1. spawned' \in 0..DEC_THREAD_NUM /\ main' \in {"spawn", "join"}
    BY <1>1, <1>2, <1>3
  <2>2. tpc' \in [Threads -> {"new", "test", "probe", "raise", "done"}]
    BY <1>1, <1>3 DEF TypeOK
  <2> QED BY <1>1, <1>2, <1>3, <2>1, <2>2 DEF TypeOK
<1>6. MainInv'
  <2>1. main' = "spawn" => spawned' < DEC_THREAD_NUM
    BY <1>1, <1>2, <1>3
  <2>2. ASSUME NEW t \in Threads, t >= spawned' PROVE tpc'[t] = "new"
    <3>1. t \in Nat /\ t > spawned
      BY <1>1, <1>2, <1>3, <2>2 DEF Threads
    <3>2. tpc[t] = "new"
      BY <1>1, <1>3, <3>1 DEF MainInv
    <3> QED BY <1>1, <1>3, <3>1, <3>2 DEF TypeOK
  <2> QED BY <1>1, <1>3, <1>4, <2>1, <2>2 DEF MainInv
<1>7. ASSUME NEW t \in Threads PROVE ThreadInv(t)'
  <2>1. CASE t = spawned
    <3>1. tpc[t] = "new" /\ tpc'[t] = "test"
      BY <1>1, <1>3, <2>1 DEF TypeOK, MainInv
    <3> QED BY <1>1, <1>2, <1>3, <3>1 DEF ThreadInv
  <2>2. CASE t # spawned
    <3>1. tpc'[t] = tpc[t]
      BY <1>1, <1>3, <2>2 DEF TypeOK
    <3> QED BY <1>1, <1>2, <1>3, <1>4, <3>1 DEF ThreadInv
  <2> QED BY <2>1, <2>2
<1>8. main' # "idle"
  BY <1>1
<1> QED BY <1>5, <1>6, <1>7, <1>8 DEF SearchInv

LEMMA JoinKeeps == TableInv /\ SearchInv /\ Join => SearchInv'
<1> SUFFICES ASSUME TableInv, SearchInv, Join PROVE SearchInv'
  OBVIOUS
<1>1. /\ main = "join" /\ main' = "done" /\ x' = Result /\ success' = TRUE
      /\ \A t \in Threads : tpc[t] = "done"
      /\ UNCHANGED <<m, spawned, tpc, point, i, j, finding, parallel_finding, pc, size>>
  BY DEF Join, locals, tableVars
<1>2. /\ size \in Nat \ {0} /\ Slice \in Nat /\ Slice' = Slice
      /\ DEC_THREAD_NUM \in Nat \ {0}
  BY <1>1, SameSlots
<1>3. TypeOK /\ MainInv /\ \A t \in Threads : ThreadInv(t)
  BY <1>1 DEF SearchInv
<1>4. Finders' = Finders /\ Result' = Result
  BY <1>1, <1>2 DEF Finders, Result
<1>5. Result \in Nat
  <2>1. CASE Finders = {}
    BY <2>1 DEF Result
  <2>2. CASE Finders # {}
    <3>1. DEC_THREAD_NUM - 1 \in Nat /\ Finders \in SUBSET (0..(DEC_THREAD_NUM - 1))
      BY <1>2 DEF Finders, Threads
    <3>2. PICK t \in Finders : t = Max(Finders)
      BY <2>2, <3>1, MaxIn
    <3>3. t \in Nat /\ i[t] \in Nat /\ j[t] \in Nat
      BY <1>2, <1>3, <3>1 DEF TypeOK, Finders
    <3>4. t * Slice \in Nat
      BY <1>2, <3>3
    <3>5. (j[t] + t * Slice) * size \in Nat
      BY <1>2, <3>3, <3>4
    <3> QED BY <2>2, <3>2, <3>3, <3>5 DEF Result
  <2> QED BY <2>1, <2>2
<1>6. TypeOK'
  BY <1>1, <1>2, <1>3, <1>5 DEF TypeOK
<1>7. MainInv'
  BY <1>1, <1>3, <1>4 DEF MainInv
<1>8. ASSUME NEW t \in Threads PROVE ThreadInv(t)'
  BY <1>1, <1>2, <1>3, <1>4 DEF ThreadInv
<1> QED BY <1>1, <1>6, <1>7, <1>8 DEF SearchInv

\* A thread that moves is one of a search that is on.
LEMMA Moving ==
    ASSUME TableInv, SearchInv, NEW t \in Threads,
           tpc[t] \in {"test", "probe", "raise"}, UNCHANGED <<tableVars, main>>
    PROVE  /\ main \in {"spawn", "join"} /\ pc' = pc /\ main' = main /\ size' = size
           /\ TypeOK /\ MainInv /\ \A u \in Threads : ThreadInv(u)
           /\ size \in Nat \ {0} /\ Slice \in Nat /\ Slice' = Slice
           /\ Order \in Nat \ {0}
<1>1. main # "idle" /\ main # "done"
  BY DEF SearchInv, Reset, MainInv
<1>2. size' = size /\ pc' = pc /\ main' = main
  BY DEF tableVars
<1>3. main \in {"spawn", "join"}
  BY <1>1 DEF SearchInv, TypeOK
<1> QED BY <1>1, <1>2, <1>3, SameSlots DEF SearchInv

LEMMA TableMeans ==
    ASSUME TableInv, pc = "serve", NEW p
    PROVE  /\ InTable(p) <=> p \in 0..(size - 1)
           /\ InTable(p) => IndexOf(p) = p
<1>1. map = {<<k, k>> : k \in 0..(size - 1)}
  BY DEF TableInv, TableRight
<1>2. InTable(p) <=> p \in 0..(size - 1)
  <2>1. ASSUME p \in 0..(size - 1) PROVE InTable(p)
    <3>1. <<p, p>> \in map /\ <<p, p>>[1] = p
      BY <1>1, <2>1
    <3> QED BY <3>1 DEF InTable
  <2>2. ASSUME InTable(p) PROVE p \in 0..(size - 1)
    BY <1>1, <2>2 DEF InTable
  <2> QED BY <2>1, <2>2
<1>3. ASSUME InTable(p) PROVE IndexOf(p) = p
  <2>1. \E entry \in map : entry[1] = p
    BY <1>3 DEF InTable
  <2>2. \A entry \in map : entry[1] = p => entry[2] = p
    BY <1>1
  <2> QED BY <2>1, <2>2 DEF IndexOf
<1> QED BY <1>2, <1>3

LEMMA LoopTestKeeps ==
    ASSUME TableInv, SearchInv, NEW t \in Threads, LoopTest(t)
    PROVE  SearchInv'
<1>1. /\ tpc[t] = "test" /\ UNCHANGED <<tableVars, main>>
      /\ UNCHANGED <<m, spawned, x, success, point, i, j, finding, parallel_finding>>
  BY DEF LoopTest, locals
<1>2. /\ main \in {"spawn", "join"} /\ pc' = pc /\ main' = main /\ size' = size
      /\ TypeOK /\ MainInv /\ \A u \in Threads : ThreadInv(u)
      /\ size \in Nat \ {0} /\ Slice \in Nat /\ Slice' = Slice
      /\ Order \in Nat \ {0}
  BY <1>1, Moving
<1>3. /\ Finders' = Finders
      /\ \/ tpc' = [tpc EXCEPT ![t] = "probe"] /\ j[t] < Slice
         \/ tpc' = [tpc EXCEPT ![t] = "done"] /\ (j[t] = Slice \/ Finders # {})
  <2>1. Finders' = Finders
    BY <1>1 DEF Finders
  <2>2. parallel_finding = 1 => Finders # {}
    BY <1>2 DEF MainInv
  <2> QED BY <2>1, <2>2 DEF LoopTest, Goto
<1>4. TypeOK'
  <2>1. tpc' \in [Threads -> {"new", "test", "probe", "raise", "done"}]
    BY <1>2, <1>3 DEF TypeOK
  <2> QED BY <1>1, <1>2, <2>1 DEF TypeOK
<1>5. MainInv'
  BY <1>1, <1>2, <1>3 DEF MainInv, TypeOK
<1>6. ASSUME NEW u \in Threads PROVE ThreadInv(u)'
  <2>1. CASE u = t
    <3>1. tpc'[t] \in {"probe", "done"} /\ finding[t] = 0
      BY <1>1, <1>2, <1>3 DEF TypeOK, ThreadInv
    <3>2. /\ tpc'[t] = "probe" => j[t] < Slice
          /\ tpc'[t] = "done" => j[t] = Slice \/ Finders # {}
      BY <1>2, <1>3 DEF TypeOK
    <3> QED BY <1>1, <1>2, <1>3, <2>1, <3>1, <3>2 DEF ThreadInv
  <2>2. CASE u # t
    <3>1. tpc'[u] = tpc[u]
      BY <1>2, <1>3, <2>2 DEF TypeOK
    <3> QED BY <1>1, <1>2, <1>3, <3>1 DEF ThreadInv
  <2> QED BY <2>1, <2>2
<1> QED BY <1>2, <1>4, <1>5, <1>6 DEF SearchInv

LEMMA GiantStepKeeps ==
    ASSUME TableInv, SearchInv, NEW t \in Threads, GiantStep(t)
    PROVE  SearchInv'
<1>1. /\ tpc[t] = "probe" /\ UNCHANGED <<tableVars, main>> /\ ~InTable(point[t])
      /\ point' = [point EXCEPT ![t] = (@ - size) % Order]
      /\ j' = [j EXCEPT ![t] = @ + 1] /\ tpc' = [tpc EXCEPT ![t] = "test"]
      /\ UNCHANGED <<m, spawned, x, success, i, finding, parallel_finding>>
  BY DEF GiantStep, Goto
<1>2. /\ main \in {"spawn", "join"} /\ pc' = pc /\ main' = main /\ size' = size
      /\ TypeOK /\ MainInv /\ \A u \in Threads : ThreadInv(u)
      /\ size \in Nat \ {0} /\ Slice \in Nat /\ Slice' = Slice
      /\ Order \in Nat \ {0}
  BY <1>1, Moving
<1>3. Finders' = Finders
  BY <1>1 DEF Finders
<1>4. /\ t \in Nat /\ m \in Int /\ point[t] \in Int /\ j[t] \in 0..(Slice - 1)
      /\ finding[t] = 0 /\ point[t] = (m - (t * Slice + j[t]) * size) % Order
  BY <1>1, <1>2 DEF TypeOK, ThreadInv, Threads
<1>5. /\ (point[t] - size) % Order = (m - (t * Slice + (j[t] + 1)) * size) % Order
      /\ (point[t] - size) % Order \in 0..(Order - 1)
  <2>1. PICK a \in Int : a = m - (t * Slice + j[t]) * size
    <3>1. t * Slice + j[t] \in Int
      BY <1>2, <1>4
    <3> QED BY <1>2, <1>4, <3>1
  <2>2. (point[t] - size) % Order = (a - size) % Order
    BY <1>2, <1>4, <2>1, ModMinus
  <2>3. a - size = m - (t * Slice + (j[t] + 1)) * size
    <3>1. PICK b \in Int : b = t * Slice
      BY <1>2, <1>4
    <3>2. (b + (j[t] + 1)) * size = (b + j[t]) * size + size
      BY <1>2, <1>4, <3>1
    <3> QED BY <1>2, <1>4, <2>1, <3>1, <3>2
  <2>4. (point[t] - size) % Order \in 0..(Order - 1)
    BY <1>2, <1>4
  <2> QED BY <2>2, <2>3, <2>4
<1>6. point[t] \notin 0..(size - 1)
  <2>1. pc = "serve"
    BY <1>2 DEF TypeOK
  <2> QED BY <1>1, <2>1, TableMeans
<1>7. TypeOK'
  <2>1. tpc' \in [Threads -> {"new", "test", "probe", "raise", "done"}]
    BY <1>1, <1>2 DEF TypeOK
  <2>2. point' \in [Threads -> 0..(Order - 1)]
    BY <1>1, <1>2, <1>5 DEF TypeOK
  <2>3. j' \in [Threads -> 0..Slice]
    BY <1>1, <1>2, <1>4 DEF TypeOK
  <2> QED BY <1>1, <1>2, <2>1, <2>2, <2>3 DEF TypeOK
<1>8. MainInv'
  BY <1>1, <1>2, <1>3 DEF MainInv, TypeOK
<1>9. ASSUME NEW u \in Threads PROVE ThreadInv(u)'
  <2>1. CASE u = t
    <3>1. /\ tpc'[t] = "test" /\ finding'[t] = 0 /\ j'[t] = j[t] + 1
          /\ point'[t] = (m - (t * Slice + (j[t] + 1)) * size) % Order
      BY <1>1, <1>2, <1>4, <1>5 DEF TypeOK
    <3>2. ASSUME NEW n \in 0..(Slice - 1), n < j'[t]
          PROVE  (m - (t * Slice + n) * size) % Order \notin 0..(size - 1)
      <4>1. n < j[t] \/ n = j[t]
        BY <1>4, <3>1, <3>2
      <4>2. CASE n < j[t]
        BY <1>2, <4>2 DEF ThreadInv
      <4>3. CASE n = j[t]
        BY <1>4, <1>6, <4>3
      <4> QED BY <4>1, <4>2, <4>3
    <3> QED BY <1>1, <1>2, <2>1, <3>1, <3>2 DEF ThreadInv
  <2>2. CASE u # t
    <3>1. tpc'[u] = tpc[u] /\ point'[u] = point[u] /\ j'[u] = j[u]
      BY <1>1, <1>2, <2>2 DEF TypeOK
    <3> QED BY <1>1, <1>2, <1>3, <3>1 DEF ThreadInv
  <2> QED BY <2>1, <2>2
<1> QED BY <1>2, <1>7, <1>8, <1>9 DEF SearchInv

LEMMA FindKeeps ==
    ASSUME TableInv, SearchInv, NEW t \in Threads, Find(t)
    PROVE  SearchInv'
<1>1. /\ tpc[t] = "probe" /\ UNCHANGED <<tableVars, main>> /\ InTable(point[t])
      /\ i' = [i EXCEPT ![t] = IndexOf(point[t])]
      /\ finding' = [finding EXCEPT ![t] = 1] /\ tpc' = [tpc EXCEPT ![t] = "raise"]
      /\ UNCHANGED <<m, spawned, x, success, point, j, parallel_finding>>
  BY DEF Find, Goto
<1>2. /\ main \in {"spawn", "join"} /\ pc' = pc /\ main' = main /\ size' = size
      /\ TypeOK /\ MainInv /\ \A u \in Threads : ThreadInv(u)
      /\ size \in Nat \ {0} /\ Slice \in Nat /\ Slice' = Slice
      /\ Order \in Nat \ {0}
  BY <1>1, Moving
<1>3. point[t] \in 0..(size - 1) /\ IndexOf(point[t]) = point[t] /\ j[t] < Slice
  <2>1. pc = "serve"
    BY <1>2 DEF TypeOK
  <2> QED BY <1>1, <1>2, <2>1, TableMeans DEF ThreadInv
<1>4. Finders' # {}
  <2>1. finding'[t] = 1
    BY <1>1, <1>2 DEF TypeOK
  <2> QED BY <2>1 DEF Finders
<1>5. TypeOK'
  <2>1. tpc' \in [Threads -> {"new", "test", "probe", "raise", "done"}]
    BY <1>1, <1>2 DEF TypeOK
  <2>2. i' \in [Threads -> 0..(size - 1)]
    BY <1>1, <1>2, <1>3 DEF TypeOK
  <2>3. finding' \in [Threads -> {0, 1}]
    BY <1>1, <1>2 DEF TypeOK
  <2> QED BY <1>1, <1>2, <2>1, <2>2, <2>3 DEF TypeOK
<1>6. MainInv'
  BY <1>1, <1>2, <1>4 DEF MainInv, TypeOK
<1>7. ASSUME NEW u \in Threads PROVE ThreadInv(u)'
  <2>1. CASE u = t
    <3>1. tpc'[t] = "raise" /\ finding'[t] = 1 /\ i'[t] = point[t]
      BY <1>1, <1>2, <1>3 DEF TypeOK
    <3> QED BY <1>1, <1>2, <1>3, <1>4, <2>1, <3>1 DEF ThreadInv
  <2>2. CASE u # t
    <3>1. tpc'[u] = tpc[u] /\ i'[u] = i[u] /\ finding'[u] = finding[u]
      BY <1>1, <1>2, <2>2 DEF TypeOK
    <3> QED BY <1>1, <1>2, <1>4, <3>1 DEF ThreadInv
  <2> QED BY <2>1, <2>2
<1> QED BY <1>2, <1>5, <1>6, <1>7 DEF SearchInv

LEMMA RaiseKeeps ==
    ASSUME TableInv, SearchInv, NEW t \in Threads, Raise(t)
    PROVE  SearchInv'
<1>1. /\ tpc[t] = "raise" /\ UNCHANGED <<tableVars, main>>
      /\ parallel_finding' = 1 /\ tpc' = [tpc EXCEPT ![t] = "done"]
      /\ UNCHANGED <<m, spawned, x, success, point, i, j, finding>>
  BY DEF Raise, Goto, locals
<1>2. /\ main \in {"spawn", "join"} /\ pc' = pc /\ main' = main /\ size' = size
      /\ TypeOK /\ MainInv /\ \A u \in Threads : ThreadInv(u)
      /\ size \in Nat \ {0} /\ Slice \in Nat /\ Slice' = Slice
      /\ Order \in Nat \ {0}
  BY <1>1, Moving
<1>3. Finders' = Finders /\ Finders # {}
  <2>1. finding[t] = 1
    BY <1>1, <1>2 DEF ThreadInv
  <2> QED BY <1>1, <2>1 DEF Finders
<1>4. TypeOK'
  <2>1. tpc' \in [Threads -> {"new", "test", "probe", "raise", "done"}]
    BY <1>1, <1>2 DEF TypeOK
  <2> QED BY <1>1, <1>2, <2>1 DEF TypeOK
<1>5. MainInv'
  BY <1>1, <1>2, <1>3 DEF MainInv, TypeOK
<1>6. ASSUME NEW u \in Threads PROVE ThreadInv(u)'
  <2>1. CASE u = t
    <3>1. tpc'[t] = "done"
      BY <1>1, <1>2 DEF TypeOK
    <3> QED BY <1>1, <1>2, <1>3, <2>1, <3>1 DEF ThreadInv
  <2>2. CASE u # t
    <3>1. tpc'[u] = tpc[u]
      BY <1>1, <1>2, <2>2 DEF TypeOK
    <3> QED BY <1>1, <1>2, <1>3, <3>1 DEF ThreadInv
  <2> QED BY <2>1, <2>2
<1> QED BY <1>2, <1>4, <1>5, <1>6 DEF SearchInv

-----------------------------------------------------------------------------
(* What a search that is done has found. *)

\* A giant step n that leads into the table leads to m, which is in range.
LEMMA HitIsRight ==
    ASSUME TableInv, m \in 0..(Order - 1), NEW n \in 0..(LoopNum - 1),
           (m - n * size) % Order \in 0..(size - 1)
    PROVE  ((m - n * size) % Order) + n * size = m /\ InRange(m)
<1>1. /\ size \in Nat \ {0} /\ LoopNum \in Nat /\ Order \in Nat \ {0}
      /\ MaxMessage \in Nat /\ MaxMessage < Order
  BY SearchSlots DEF TableInv, TypeInv
<1>2. PICK p \in 0..(size - 1) : p = (m - n * size) % Order
  OBVIOUS
<1>3. PICK a \in Int : a = n * size
  BY <1>1
<1>4. p + a \in 0..(MaxMessage - 1)
  BY <1>2, <1>3, StepIn DEF TableInv, TypeInv
<1>5. p + a \in 0..(Order - 1) /\ p = (m - a) % Order
  BY <1>1, <1>2, <1>3, <1>4
<1>6. p + a = m
  BY <1>1, <1>2, <1>5, StepsBack
<1> QED BY <1>1, <1>2, <1>3, <1>4, <1>6 DEF InRange

\* Some giant step leads from a message in range into the table.
LEMMA HitExists ==
    ASSUME TableInv, m \in 0..(Order - 1), InRange(m)
    PROVE  \E n \in 0..(LoopNum - 1) : (m - n * size) % Order \in 0..(size - 1)
<1>1. /\ size \in Nat \ {0} /\ LoopNum \in Nat /\ Order \in Nat \ {0} /\ m \in Nat
      /\ MaxMessage = LoopNum * size /\ MaxMessage < Order /\ m < MaxMessage
  BY SearchSlots DEF TableInv, TypeInv, InRange
<1>2. LoopNum \in Nat \ {0}
  BY <1>1
<1>3. m \in 0..(LoopNum * size - 1)
  BY <1>1
<1>4. PICK n \in 0..(LoopNum - 1) : \E c \in 0..(size - 1) : m = n * size + c
  BY <1>1, <1>2, <1>3, SlicesCover
<1>5. PICK c \in 0..(size - 1) : m = n * size + c
  BY <1>4
<1>6. m - n * size = Order * 0 + c /\ c \in 0..(Order - 1) /\ m - n * size \in Int
  <2>1. n * size \in Nat
    BY <1>1
  <2> QED BY <1>1, <1>5, <2>1
<1>7. (m - n * size) % Order = c
  BY <1>1, <1>6, DivUnique
<1> QED BY <1>7

\* Shanks_DLOG.
LEMMA SequentialRight ==
    ASSUME TableInv, pc = "serve", m \in 0..(Order - 1)
    PROVE  Shanks(m) = IF InRange(m) THEN m ELSE NotFound
<1> DEFINE hits == {k \in 0..(LoopNum - 1) : InTable((m - k * size) % Order)}
<1>1. \A k : k \in hits <=>
          k \in 0..(LoopNum - 1) /\ (m - k * size) % Order \in 0..(size - 1)
  BY TableMeans
<1>2. hits \in SUBSET Nat
  BY <1>1
<1>3. Shanks(m) = IF hits = {} THEN NotFound
                  ELSE IndexOf((m - Min(hits) * size) % Order) + Min(hits) * size
  BY DEF Shanks
<1> HIDE DEF hits
<1>4. CASE InRange(m)
  <2>1. hits # {}
    BY <1>1, <1>4, HitExists
  <2>2. PICK n \in hits : n = Min(hits)
    BY <1>2, <2>1, MinIn
  <2>3. n \in 0..(LoopNum - 1) /\ (m - n * size) % Order \in 0..(size - 1)
    BY <1>1
  <2>4. IndexOf((m - n * size) % Order) = (m - n * size) % Order
    BY <2>3, TableMeans
  <2>5. ((m - n * size) % Order) + n * size = m
    BY <2>3, HitIsRight
  <2> QED BY <1>3, <1>4, <2>1, <2>2, <2>4, <2>5
<1>5. CASE ~InRange(m)
  BY <1>1, <1>3, <1>5, HitIsRight
<1> QED BY <1>4, <1>5

LEMMA SearchRight == TableInv /\ SearchInv => DlogRight /\ EarlyStop
<1> SUFFICES ASSUME TableInv, SearchInv PROVE DlogRight /\ EarlyStop
  OBVIOUS
<1>1. EarlyStop
  <2>1. SUFFICES ASSUME NEW t \in Threads, tpc[t] = "done", j[t] < Slice
                 PROVE  Finders # {}
    BY DEF EarlyStop
  <2>2. main # "idle"
    BY <2>1 DEF SearchInv, Reset
  <2>3. ThreadInv(t) /\ Slice \in Nat
    BY <2>2, SearchSlots DEF SearchInv, TableInv, TypeInv
  <2> QED BY <2>1, <2>3 DEF ThreadInv
<1>2. ASSUME main = "done"
      PROVE  IF InRange(m) THEN x = m /\ Shanks(m) = m
             ELSE Finders = {} /\ Shanks(m) = NotFound
  <2>1. /\ TypeOK /\ m \in 0..(Order - 1) /\ pc = "serve" /\ x = Result
        /\ \A t \in Threads : ThreadInv(t) /\ tpc[t] = "done"
    BY <1>2 DEF SearchInv, MainInv, TypeOK
  <2>2. Shanks(m) = IF InRange(m) THEN m ELSE NotFound
    BY <2>1, SequentialRight
  <2>3. /\ size \in Nat \ {0} /\ Slice \in Nat /\ DEC_THREAD_NUM \in Nat \ {0}
        /\ LoopNum = DEC_THREAD_NUM * Slice /\ size \in Sizes
    BY SearchSlots DEF TableInv, TypeInv
  <2>4. ASSUME NEW t \in Finders
        PROVE  i[t] + (j[t] + t * Slice) * size = m /\ InRange(m)
    <3>1. /\ t \in Threads /\ t \in Nat /\ j[t] \in 0..(Slice - 1)
          /\ i[t] \in 0..(size - 1) /\ i[t] = (m - (t * Slice + j[t]) * size) % Order
      BY <2>1, <2>3 DEF Finders, ThreadInv, TypeOK, Threads
    <3>2. PICK n \in 0..(LoopNum - 1) : n = t * Slice + j[t]
      BY <2>3, <3>1, SliceIn
    <3>3. n = j[t] + t * Slice
      <4>1. t * Slice \in Int
        BY <2>3, <3>1
      <4> QED BY <3>1, <3>2, <4>1
    <3>4. i[t] = (m - n * size) % Order
      BY <3>1, <3>2
    <3>5. i[t] + n * size = m /\ InRange(m)
      BY <2>1, <3>1, <3>4, HitIsRight
    <3> QED BY <3>3, <3>5
  <2>5. CASE Finders # {}
    <3>1. DEC_THREAD_NUM - 1 \in Nat /\ Finders \in SUBSET (0..(DEC_THREAD_NUM - 1))
      BY <2>3 DEF Finders, Threads
    <3>2. Max(Finders) \in Finders
      BY <2>5, <3>1, MaxIn
    <3>3. x = m /\ InRange(m)
      BY <2>1, <2>4, <2>5, <3>2 DEF Result
    <3> QED BY <2>2, <3>3
  <2>6. CASE Finders = {}
    <3>1. ~InRange(m)
      <4>1. SUFFICES ASSUME InRange(m) PROVE FALSE
        OBVIOUS
      <4>2. PICK n \in 0..(LoopNum - 1) : (m - n * size) % Order \in 0..(size - 1)
        BY <2>1, <4>1, HitExists
      <4>3. Slice \in Nat \ {0} /\ n \in 0..(DEC_THREAD_NUM * Slice - 1)
        BY <2>3, <4>2
      <4>4. PICK t \in Threads : \E c \in 0..(Slice - 1) : n = t * Slice + c
        BY <2>3, <4>3, SlicesCover DEF Threads
      <4>5. PICK c \in 0..(Slice - 1) : n = t * Slice + c
        BY <4>4
      <4>6. j[t] = Slice
        BY <2>1, <2>6 DEF ThreadInv
      <4>7. (m - (t * Slice + c) * size) % Order \notin 0..(size - 1)
        BY <2>1, <2>3, <4>6 DEF ThreadInv
      <4> QED BY <4>2, <4>5, <4>7
    <3> QED BY <2>2, <2>6, <3>1
  <2> QED BY <2>5, <2>6
<1> QED BY <1>1, <1>2 DEF DlogRight

-----------------------------------------------------------------------------
(* The parallel operations on ciphertexts. *)

Exponents == 0..(Order - 1)
Ciphertext == [Halves -> Exponents]

\* The arguments of the functions.
CallType(c) ==
    /\ c.op \in {"enc", "add", "sub", "scale", "rerand"} /\ c.to \in {"a", "new"}
    /\ c.sk \in Keys /\ c.a \in Ciphertext /\ c.b \in Ciphertext
    /\ c.n \in Exponents /\ c.r \in Exponents

LEMMA ModIn ==
    ASSUME NEW a \in Int
    PROVE  a % Order \in Exponents
BY DlogAssumption DEF Exponents

LEMMA InverseIn ==
    ASSUME NEW n \in 1..(Order - 1)
    PROVE  ModInverse(n) \in Exponents
BY ElGamalAssumption DEF ModInverse, Exponents

LEMMA EncType ==
    ASSUME NEW sk \in Exponents, NEW msg \in Exponents, NEW r \in Exponents
    PROVE  Enc(sk, msg, r) \in Ciphertext
<1>1. Order \in Nat \ {0} /\ Eta \in Int
  BY DlogAssumption, ElGamalAssumption
<1>2. /\ (sk * r) % Order \in Exponents
      /\ (r + Eta * msg) % Order \in Exponents
  BY <1>1 DEF Exponents
<1>3. /\ Enc(sk, msg, r)["X"] = (sk * r) % Order
      /\ Enc(sk, msg, r)["Y"] = (r + Eta * msg) % Order
      /\ Enc(sk, msg, r) \in [Halves -> {Enc(sk, msg, r)["X"], Enc(sk, msg, r)["Y"]}]
  BY DEF Enc, Halves
<1> QED BY <1>2, <1>3 DEF Ciphertext

LEMMA CallsType == ASSUME NEW c \in Calls PROVE CallType(c)
<1>1. /\ Keys \subseteq Exponents /\ Messages \subseteq Exponents
      /\ Coins \subseteq Exponents /\ Scalars \subseteq Exponents
      /\ 0 \in Exponents
  BY DlogAssumption, ElGamalAssumption DEF Exponents
<1>2. Infinity \in Ciphertext
  BY <1>1 DEF Infinity, Ciphertext
<1>3. PICK sk \in Keys : c \in EncCalls(sk) \cup HomoCalls(sk)
                                \cup ScaleCalls(sk) \cup ReRandCalls(sk)
  BY DEF Calls
<1>4. \A d \in Ciphertexts(sk) : d \in Ciphertext
  BY <1>1, EncType DEF Ciphertexts
<1>5. CASE c \in EncCalls(sk)
  BY <1>1, <1>2, <1>5 DEF EncCalls, CallType, Args, Exponents
<1>6. CASE c \in HomoCalls(sk)
  BY <1>1, <1>2, <1>4, <1>6 DEF HomoCalls, CallType, Args
<1>7. CASE c \in ScaleCalls(sk)
  BY <1>1, <1>2, <1>4, <1>7 DEF ScaleCalls, CallType, Args
<1>8. CASE c \in ReRandCalls(sk)
  BY <1>1, <1>2, <1>4, <1>8 DEF ReRandCalls, CallType, Args
<1> QED BY <1>3, <1>5, <1>6, <1>7, <1>8

LEMMA SequentialType ==
    ASSUME CallType(call)
    PROVE  \A t \in Halves : call.op # "rerand" => Sequential[t] \in Exponents
<1>1. /\ Keys \subseteq Exponents /\ Exponents \subseteq Int
  BY DlogAssumption, ElGamalAssumption DEF Exponents
<1>2. call.op = "enc" => Sequential \in Ciphertext
  BY <1>1, EncType DEF CallType, Sequential
<1>3. ASSUME NEW t \in Halves, call.op \in {"add", "sub", "scale"}
      PROVE  Sequential[t] \in Exponents
  <2>1. call.a[t] \in Int /\ call.b[t] \in Int /\ call.n \in Int
    BY <1>1 DEF CallType, Ciphertext
  <2>2. /\ call.a[t] + call.b[t] \in Int /\ call.a[t] - call.b[t] \in Int
        /\ call.a[t] * call.n \in Int
    BY <2>1
  <2>3. CASE call.op = "add"
    BY <2>2, <2>3, ModIn DEF Sequential, HomoAdd
  <2>4. CASE call.op = "sub"
    BY <2>2, <2>4, ModIn DEF Sequential, HomoSub
  <2>5. CASE call.op = "scale"
    BY <2>2, <2>5, ModIn DEF Sequential, ScalarMul
  <2> QED BY <1>3, <2>3, <2>4, <2>5
<1> QED BY <1>2, <1>3 DEF CallType, Ciphertext

-----------------------------------------------------------------------------
Objects == {"a", "b", "new"}

\* Half t of every object: the result's is the sequential one once its thread
\* is done, all the others are as they were given.
HalfInv(t) ==
    \A o \in Objects :
        ct[o][t] = IF thread[t] = "done" /\ o = call.to THEN Sequential[t]
                   ELSE Given[o][t]

CallsInv ==
    /\ ElGamalTypeOK
    /\ bn_ctx \subseteq {"Y"}
    /\ stage # "none" => call \in Calls
    /\ stage # "none" /\ call.op # "rerand" => \A t \in Halves : HalfInv(t)
    /\ stage = "return" => \A t \in Halves : thread[t] = "done"

\* The value a thread computes, from operands that are as they were given.
LEMMA ValueRight ==
    ASSUME CallsInv, stage = "run", NEW t \in Halves, thread[t] # "done"
    PROVE  /\ Value(call, t) \in Exponents
           /\ call.op # "rerand" => Value(call, t) = Sequential[t]
<1>1. CallType(call)
  BY CallsType DEF CallsInv
<1>2. CASE call.op = "rerand"
  <2>1. Keys \subseteq Exponents /\ 0 \in Exponents
    BY DlogAssumption, ElGamalAssumption DEF Exponents
  <2>2. call.sk \in Exponents /\ call.r \in Exponents
    BY <1>1, <2>1 DEF CallType
  <2>3. Enc(call.sk, 0, call.r) \in Ciphertext
    BY <2>1, <2>2, EncType
  <2>4. Value(call, t) = Enc(call.sk, 0, call.r)[t]
    BY <1>2 DEF Value
  <2> QED BY <1>2, <2>3, <2>4 DEF Ciphertext
<1>3. CASE call.op # "rerand"
  <2>1. ct["a"][t] = call.a[t] /\ ct["b"][t] = call.b[t]
    BY <1>3 DEF CallsInv, HalfInv, Objects, Given
  <2>2. Value(call, t) = Sequential[t]
    BY <1>1, <1>3, <2>1
       DEF CallType, Value, Operand, Sequential, HomoAdd, HomoSub, ScalarMul
  <2> QED BY <1>1, <1>3, <2>2, SequentialType
<1> QED BY <1>2, <1>3

LEMMA EndCallKeeps == EndCall => CallsInv'
<1> SUFFICES ASSUME EndCall PROVE CallsInv'
  OBVIOUS
<1>1. /\ call' = NoCall /\ stage' = "none" /\ ct' = NoObjects /\ M' = 0
      /\ thread' = [t \in Halves |-> "none"] /\ bn_ctx' = {}
  BY DEF EndCall
<1>2. 0 \in 0..(Order - 1)
  BY DlogAssumption
<1>3. ct' \in [{"a", "b", "new"} -> [Halves -> 0..(Order - 1)]]
  BY <1>1, <1>2 DEF NoObjects, Infinity
<1>4. /\ thread' \in [Halves -> {"none", "made", "in", "done"}]
      /\ \A t \in Halves : thread'[t] = "none"
  BY <1>1
<1>5. ElGamalTypeOK'
  BY <1>1, <1>2, <1>3, <1>4 DEF ElGamalTypeOK
<1> QED BY <1>1, <1>5 DEF CallsInv

LEMMA CallKeeps == CallsInv /\ Call => CallsInv'
<1> SUFFICES ASSUME CallsInv, Call PROVE CallsInv'
  OBVIOUS
<1>1. PICK c \in Calls :
        /\ call' = c /\ ct' = [a |-> c.a, b |-> c.b, new |-> Infinity]
        /\ M' = IF c.op = "rerand" THEN PartialDec(c.sk, c.a) ELSE 0
  BY DEF Call
<1>2. /\ stage' = "run" /\ thread' = [t \in Halves |-> "made"] /\ bn_ctx' = bn_ctx
      /\ pc' = "serve" /\ main' = "idle"
  BY DEF Call, EndSearch, tableVars
<1>3. CallType(c)
  BY CallsType
<1>4. 0 \in Exponents /\ Keys \subseteq 1..(Order - 1) /\ Exponents \subseteq Int
  BY DlogAssumption, ElGamalAssumption DEF Exponents
<1>5. M' \in Exponents
  <2>1. c.a.X \in Int /\ c.a.Y \in Int /\ ModInverse(c.sk) \in Int
    BY <1>3, <1>4, InverseIn DEF CallType, Ciphertext, Halves
  <2>2. c.a.Y - c.a.X * ModInverse(c.sk) \in Int
    BY <2>1
  <2>3. PartialDec(c.sk, c.a) \in Exponents
    BY <2>2, ModIn DEF PartialDec
  <2> QED BY <1>1, <1>4, <2>3
<1>6. Infinity \in Ciphertext
  BY <1>4 DEF Infinity, Ciphertext
<1>7. ct' \in [Objects -> Ciphertext]
  BY <1>1, <1>3, <1>6 DEF CallType, Objects
<1>8. \A t \in Halves : thread'[t] = "made"
  BY <1>2
<1>9. ElGamalTypeOK'
  <2>1. thread' \in [Halves -> {"none", "made", "in", "done"}]
    BY <1>2
  <2>2. bn_ctx' \subseteq Halves
    BY <1>2 DEF CallsInv, ElGamalTypeOK
  <2> QED BY <1>1, <1>2, <1>5, <1>7, <1>8, <2>1, <2>2
          DEF ElGamalTypeOK, Objects, Ciphertext, Exponents
<1>10. ASSUME NEW t \in Halves PROVE HalfInv(t)'
  BY <1>1, <1>8 DEF HalfInv, Given, Objects
<1> QED BY <1>1, <1>2, <1>9, <1>10 DEF CallsInv

LEMMA EnterKeeps ==
    ASSUME CallsInv, NEW t \in Halves, Enter(t)
    PROVE  CallsInv'
<1>1. /\ stage = "run" /\ thread[t] = "made" /\ thread' = [thread EXCEPT ![t] = "in"]
      /\ UNCHANGED <<call, stage, ct, M, pc, main>>
      /\ bn_ctx' = IF UsesCtx(call, t) THEN bn_ctx \cup {t} ELSE bn_ctx
  BY DEF Enter, tableVars, search
<1>2. /\ thread \in [Halves -> {"none", "made", "in", "done"}]
      /\ bn_ctx \subseteq {"Y"} /\ bn_ctx' \subseteq {"Y"}
  BY <1>1 DEF CallsInv, ElGamalTypeOK, UsesCtx
<1>3. ElGamalTypeOK'
  <2>1. thread' \in [Halves -> {"none", "made", "in", "done"}]
    BY <1>1, <1>2
  <2>2. bn_ctx' \subseteq Halves
    BY <1>2 DEF Halves
  <2> QED BY <1>1, <2>1, <2>2 DEF CallsInv, ElGamalTypeOK
<1>4. ASSUME NEW u \in Halves, call.op # "rerand" PROVE HalfInv(u)'
  <2>1. thread'[u] = "done" <=> thread[u] = "done"
    BY <1>1, <1>2
  <2>2. HalfInv(u)
    BY <1>1, <1>4 DEF CallsInv
  <2> QED BY <1>1, <2>1, <2>2 DEF HalfInv, Given, Sequential
<1> QED BY <1>1, <1>2, <1>3, <1>4 DEF CallsInv

\* The thread of half t leaves what it has computed in that half of one
\* object.
LEMMA LeaveKeeps ==
    ASSUME CallsInv, NEW t \in Halves, Leave(t)
    PROVE  CallsInv'
<1>1. /\ thread[t] = "in" /\ thread' = [thread EXCEPT ![t] = "done"]
      /\ ct' = [ct EXCEPT ![Target(call)][t] = Value(call, t)]
      /\ bn_ctx' = bn_ctx \ {t} /\ UNCHANGED <<call, stage, M, pc, main>>
  BY DEF Leave, tableVars, search
<1>2. /\ stage = "run" /\ thread \in [Halves -> {"none", "made", "in", "done"}]
      /\ ct \in [Objects -> Ciphertext]
  BY <1>1 DEF CallsInv, ElGamalTypeOK, Objects, Ciphertext, Exponents
<1>3. /\ CallType(call) /\ Value(call, t) \in Exponents
      /\ call.op # "rerand" => Value(call, t) = Sequential[t]
  BY <1>1, <1>2, CallsType, ValueRight DEF CallsInv
<1> DEFINE o == Target(call)
           c == [ct[o] EXCEPT ![t] = Value(call, t)]
<1>4. /\ o \in Objects /\ (call.op # "rerand" => o = call.to)
      /\ c \in Ciphertext /\ ct' = [ct EXCEPT ![o] = c]
  BY <1>1, <1>2, <1>3 DEF Target, CallType, Objects, Ciphertext
<1>5. c[t] = Value(call, t) /\ \A u \in Halves : u # t => c[u] = ct[o][u]
  BY <1>2, <1>4 DEF Ciphertext
<1> HIDE DEF o, c
<1>6. ElGamalTypeOK'
  <2>1. thread' \in [Halves -> {"none", "made", "in", "done"}]
    BY <1>1, <1>2
  <2>2. ct' \in [Objects -> Ciphertext]
    BY <1>2, <1>4
  <2> QED BY <1>1, <1>2, <2>1, <2>2
          DEF CallsInv, ElGamalTypeOK, Objects, Ciphertext, Exponents
<1>7. ASSUME NEW u \in Halves, call.op # "rerand" PROVE HalfInv(u)'
  <2>1. HalfInv(u) /\ HalfInv(t)
    BY <1>2, <1>7 DEF CallsInv
  <2>2. ASSUME NEW p \in Objects
        PROVE  ct'[p][u] = IF thread'[u] = "done" /\ p = call.to
                           THEN Sequential[u] ELSE Given[p][u]
    <3>1. CASE u = t
      <4>1. thread'[u] = "done"
        BY <1>1, <1>2, <3>1
      <4>2. CASE p = call.to
        BY <1>2, <1>3, <1>4, <1>5, <1>7, <3>1, <4>1, <4>2
      <4>3. CASE p # call.to
        <5>1. ct'[p] = ct[p]
          BY <1>2, <1>4, <1>7, <4>3
        <5> QED BY <2>1, <4>1, <4>3, <5>1 DEF HalfInv
      <4> QED BY <4>2, <4>3
    <3>2. CASE u # t
      <4>1. thread'[u] = thread[u] /\ ct'[p][u] = ct[p][u]
        BY <1>1, <1>2, <1>4, <1>5, <3>2
      <4> QED BY <2>1, <4>1 DEF HalfInv
    <3> QED BY <3>1, <3>2
  <2>3. Given' = Given /\ Sequential' = Sequential /\ call' = call
    BY <1>1 DEF Given, Sequential
  <2> QED BY <2>2, <2>3 DEF HalfInv
<1> QED BY <1>1, <1>2, <1>6, <1>7 DEF CallsInv

LEMMA ReturnKeeps == CallsInv /\ Return => CallsInv'
<1> SUFFICES ASSUME CallsInv, Return PROVE CallsInv'
  OBVIOUS
<1>1. /\ stage = "run" /\ Joined /\ stage' = "return"
      /\ ct' = IF call.op = "rerand" THEN [ct EXCEPT !.new.Y = (@ + M) % Order] ELSE ct
      /\ UNCHANGED <<call, M, thread, bn_ctx, pc, main>>
  BY DEF Return, tableVars, search
<1>2. ct \in [Objects -> Ciphertext] /\ M \in Exponents
  BY DEF CallsInv, ElGamalTypeOK, Objects, Ciphertext, Exponents
<1>3. ct' \in [Objects -> Ciphertext]
  <2>1. CASE call.op = "rerand"
    <3>1. "new" \in Objects /\ "Y" \in Halves /\ Exponents \subseteq Int
      BY DlogAssumption DEF Objects, Halves, Exponents
    <3>2. ct["new"]["Y"] + M \in Int
      <4>1. ct["new"] \in Ciphertext
        BY <1>2, <3>1
      <4>2. ct["new"]["Y"] \in Int /\ M \in Int
        BY <1>2, <3>1, <4>1 DEF Ciphertext
      <4> QED BY <4>2
    <3>3. (ct["new"]["Y"] + M) % Order \in Exponents
      BY <3>2, ModIn
    <3>4. ct' = [ct EXCEPT !["new"]["Y"] = (ct["new"]["Y"] + M) % Order]
      BY <1>1, <1>2, <2>1
    <3> QED BY <1>2, <3>1, <3>3, <3>4 DEF Ciphertext
  <2>2. CASE call.op # "rerand"
    BY <1>1, <1>2, <2>2
  <2> QED BY <2>1, <2>2
<1>4. ElGamalTypeOK'
  BY <1>1, <1>3 DEF CallsInv, ElGamalTypeOK, Joined, Objects, Ciphertext, Exponents
<1>5. ASSUME NEW u \in Halves, call.op # "rerand" PROVE HalfInv(u)'
  BY <1>1, <1>5 DEF CallsInv, HalfInv, Given, Sequential
<1> QED BY <1>1, <1>4, <1>5 DEF CallsInv, Joined

\* The steps of the table and of the search leave the objects alone.
LEMMA OtherKeeps ==
    ASSUME CallsInv, UNCHANGED calls,
           stage # "none" => pc' = "serve" /\ main' = "idle"
    PROVE  CallsInv'
<1>1. UNCHANGED <<call, stage, ct, M, thread, bn_ctx>>
  BY DEF calls
<1> QED BY <1>1 DEF CallsInv, ElGamalTypeOK, HalfInv, Given, Sequential

-----------------------------------------------------------------------------
Inv == TableInv /\ SearchInv /\ CallsInv

LEMMA SliceIsNat == ASSUME NEW s \in Sizes PROVE (MaxMessage \div s) \div DEC_THREAD_NUM \in Nat
<1>1. /\ s \in Nat \ {0} /\ DEC_THREAD_NUM \in Nat \ {0} /\ MaxMessage \in Nat
  BY TableAssumption, DlogAssumption
<1>2. MaxMessage \div s \in Nat
  BY <1>1
<1> QED BY <1>1, <1>2

LEMMA NextSlice ==
    ASSUME TableInv'
    PROVE  size' \in Nat \ {0} /\ Slice' \in Nat
<1>1. size' \in Sizes
  BY DEF TableInv, TypeInv
<1>2. Slice' = (MaxMessage \div size') \div DEC_THREAD_NUM
  BY DEF Slice, LoopNum
<1>3. size' \in Nat \ {0}
  BY <1>1, TableAssumption
<1> QED BY <1>1, <1>2, <1>3, SliceIsNat

LEMMA InitInv == ElGamalInit => Inv
<1> SUFFICES ASSUME ElGamalInit PROVE Inv
  OBVIOUS
<1>1. TableInv
  BY InitTableInv DEF ElGamalInit, Init
<1>2. /\ size \in Nat \ {0} /\ Slice \in Nat /\ Order \in Nat \ {0}
      /\ DEC_THREAD_NUM \in Nat \ {0}
  BY <1>1, SearchSlots DEF TableInv, TypeInv
<1>3. /\ m = 0 /\ x = 0 /\ success = FALSE /\ main = "idle" /\ spawned = 0
      /\ tpc = [t \in Threads |-> "new"] /\ point = [t \in Threads |-> 0]
      /\ i = [t \in Threads |-> 0] /\ j = [t \in Threads |-> 0]
      /\ finding = [t \in Threads |-> 0] /\ parallel_finding = 0
  BY DEF ElGamalInit, Init
<1>4. 0 \in 0..(size - 1) /\ 0 \in 0..Slice /\ 0 \in Exponents /\ 0 \in 0..DEC_THREAD_NUM
  BY <1>2 DEF Exponents
<1>5. SearchInv
  <2>1. Reset
    BY <1>3 DEF Reset
  <2>2. TypeOK
    <3>1. /\ tpc \in [Threads -> {"new", "test", "probe", "raise", "done"}]
          /\ finding \in [Threads -> {0, 1}] /\ point \in [Threads -> 0..(Order - 1)]
          /\ i \in [Threads -> 0..(size - 1)] /\ j \in [Threads -> 0..Slice]
      BY <1>3, <1>4 DEF Exponents
    <3>2. /\ m \in 0..(Order - 1) /\ x \in Nat /\ success \in BOOLEAN
          /\ main \in {"idle", "spawn", "join", "done"}
          /\ main # "idle" => pc = "serve"
          /\ spawned \in 0..DEC_THREAD_NUM /\ parallel_finding \in {0, 1}
      BY <1>3, <1>4 DEF Exponents
    <3> QED BY <3>1, <3>2 DEF TypeOK
  <2> QED BY <1>3, <2>1, <2>2 DEF SearchInv
<1>6. CallsInv
  <2>1. /\ call = NoCall /\ stage = "none" /\ ct = NoObjects /\ M = 0
        /\ thread = [t \in Halves |-> "none"] /\ bn_ctx = {}
    BY DEF ElGamalInit, CallsInit
  <2>2. ct \in [{"a", "b", "new"} -> [Halves -> 0..(Order - 1)]]
    BY <1>4, <2>1 DEF NoObjects, Infinity, Exponents
  <2>3. /\ thread \in [Halves -> {"none", "made", "in", "done"}]
        /\ \A t \in Halves : thread[t] = "none"
    BY <2>1
  <2>4. ElGamalTypeOK
    BY <1>4, <2>1, <2>2, <2>3 DEF ElGamalTypeOK, Exponents
  <2> QED BY <2>1, <2>4 DEF CallsInv
<1> QED BY <1>1, <1>5, <1>6 DEF Inv

\* A search that is not disturbed, and one that there is not.
LEMMA FrameKeeps == SearchInv /\ UNCHANGED <<tableVars, search>> => SearchInv'
<1> SUFFICES ASSUME SearchInv, UNCHANGED <<tableVars, search>> PROVE SearchInv'
  OBVIOUS
<1>1. UNCHANGED <<pc, size, m, main, spawned, x, success, tpc, point, i, j, finding,
                  parallel_finding>>
  BY DEF tableVars, search, locals
<1>2. Slice' = Slice /\ Finders' = Finders
  BY <1>1 DEF Slice, LoopNum, Finders
<1>3. Result' = Result
  BY <1>1, <1>2 DEF Result
<1>4. TypeOK' /\ (Reset => Reset') /\ (MainInv => MainInv')
  BY <1>1, <1>2, <1>3 DEF SearchInv, TypeOK, Reset, MainInv
<1>5. ASSUME NEW t \in Threads, ThreadInv(t) PROVE ThreadInv(t)'
  BY <1>1, <1>2, <1>5 DEF ThreadInv
<1> QED BY <1>1, <1>4, <1>5 DEF SearchInv

LEMMA IdleKeeps ==
    ASSUME SearchInv, main = "idle", UNCHANGED search, TableInv'
    PROVE  SearchInv'
<1>1. UNCHANGED <<m, main, spawned, x, success, tpc, point, i, j, finding,
                  parallel_finding>>
  BY DEF search, locals
<1>2. Reset /\ TypeOK /\ Reset'
  BY <1>1 DEF SearchInv, Reset
<1>3. PICK s \in Nat \ {0} : size' = s
  BY NextSlice
<1>4. PICK l \in Nat : Slice' = l
  BY NextSlice
<1>5. 0 \in 0..(s - 1) /\ 0 \in 0..l
  OBVIOUS
<1>6. i' \in [Threads -> 0..(size' - 1)] /\ j' \in [Threads -> 0..Slice']
  BY <1>1, <1>2, <1>3, <1>4, <1>5 DEF Reset
<1>7. TypeOK'
  BY <1>1, <1>2, <1>6 DEF TypeOK
<1> QED BY <1>1, <1>2, <1>7 DEF SearchInv

LEMMA EndSearchKeeps == ASSUME EndSearch, TableInv' PROVE SearchInv'
<1>1. PICK s \in Nat \ {0} : size' = s
  BY NextSlice
<1>2. PICK l \in Nat : Slice' = l
  BY NextSlice
<1> QED BY <1>1, <1>2, ResetKeeps

\* What a decryption is given.
LEMMA PlainIn ==
    ASSUME CallsInv, stage = "return"
    PROVE  Plain(call.sk, ct[call.to]) \in Exponents
<1>1. CallType(call) /\ ct \in [Objects -> Ciphertext] /\ call.to \in Objects
  BY CallsType DEF CallsInv, ElGamalTypeOK, CallType, Objects, Ciphertext, Exponents
<1> DEFINE c == ct[call.to]
<1>2. c \in Ciphertext
  BY <1>1
<1> HIDE DEF c
<1>3. Exponents \subseteq Int /\ "X" \in Halves /\ "Y" \in Halves
  BY DlogAssumption DEF Exponents, Halves
<1>4. c.X \in Int /\ c.Y \in Int
  <2>1. c["X"] \in Exponents /\ c["Y"] \in Exponents
    BY <1>2, <1>3 DEF Ciphertext
  <2> QED BY <1>3, <2>1
<1>5. ModInverse(call.sk) \in Int /\ ModInverse(Eta) \in Int
  <2>1. call.sk \in 1..(Order - 1) /\ Eta \in 1..(Order - 1)
    BY <1>1, ElGamalAssumption DEF CallType
  <2> QED BY <1>3, <2>1, InverseIn
<1>6. c.Y - c.X * ModInverse(call.sk) \in Int
  BY <1>4, <1>5
<1>7. PartialDec(call.sk, c) \in Int
  BY <1>3, <1>6, ModIn DEF PartialDec
<1>8. PartialDec(call.sk, c) * ModInverse(Eta) \in Int
  BY <1>5, <1>7
<1>9. Plain(call.sk, c) \in Exponents
  BY <1>8, ModIn DEF Plain
<1> QED BY <1>9 DEF c

LEMMA StepInv == Inv /\ [ElGamalNext]_elGamalVars => Inv'
<1> SUFFICES ASSUME TableInv, SearchInv, CallsInv, [ElGamalNext]_elGamalVars
             PROVE  SearchInv' /\ CallsInv' /\ TableInv'
  BY DEF Inv
<1>1. TableInv'
  BY TableStep, NextIsTableNext
<1>2. CASE Call
  <2>1. EndSearch
    BY <1>2 DEF Call
  <2> QED BY <1>1, <1>2, <2>1, EndSearchKeeps, CallKeeps
<1>3. CASE Return
  <2>1. UNCHANGED <<tableVars, search>>
    BY <1>3 DEF Return
  <2> QED BY <1>1, <1>3, <2>1, FrameKeeps, ReturnKeeps
<1>4. CASE \E t \in Halves : Enter(t) \/ Leave(t)
  <2>1. UNCHANGED <<tableVars, search>>
    BY <1>4 DEF Enter, Leave
  <2>2. CallsInv'
    BY <1>4, EnterKeeps, LeaveKeeps
  <2> QED BY <1>1, <2>1, <2>2, FrameKeeps
<1>5. CASE Dec
  <2>1. stage = "return" /\ Decrypt(Plain(call.sk, ct[call.to])) /\ EndCall
    BY <1>5 DEF Dec
  <2>2. Plain(call.sk, ct[call.to]) \in 0..(Order - 1)
    BY <2>1, PlainIn DEF Exponents
  <2> QED BY <1>1, <2>1, <2>2, DecryptKeeps, EndCallKeeps
<1>6. CASE stage = "none" /\ Program /\ UNCHANGED calls
  <2>1. CallsInv'
    BY <1>6, OtherKeeps
  <2>2. SearchInv'
    <3>1. CASE (Boot \/ Initialize) /\ UNCHANGED search
      <4>1. pc # "serve"
        BY <3>1 DEF Boot, Initialize, Open, Write, Load, WriteEntry
      <4>2. main = "idle"
        BY <4>1 DEF SearchInv, TypeOK
      <4> QED BY <1>1, <3>1, <4>2, IdleKeeps
    <3>2. CASE EndSearch
      BY <1>1, <3>2, EndSearchKeeps
    <3> QED BY <1>6, <3>1, <3>2 DEF Program
  <2> QED BY <1>1, <2>1, <2>2
<1>7. CASE Killed /\ EndCall
  BY <1>1, <1>7, EndSearchKeeps, EndCallKeeps DEF Killed
<1>8. CASE (Spawn \/ Join \/ \E t \in Threads : Search(t)) /\ UNCHANGED calls
  <2>1. SearchInv'
    BY <1>8, SpawnKeeps, JoinKeeps, LoopTestKeeps, GiantStepKeeps, FindKeeps, RaiseKeeps
       DEF Search
  <2>2. main # "idle"
    <3>1. CASE Spawn \/ Join
      BY <3>1 DEF Spawn, Join
    <3>2. CASE \E t \in Threads : Search(t)
      <4>1. PICK t \in Threads : Search(t)
        BY <3>2
      <4>2. tpc[t] # "new"
        BY <4>1 DEF Search, LoopTest, GiantStep, Find, Raise
      <4> QED BY <4>2 DEF SearchInv, Reset
    <3> QED BY <1>8, <3>1, <3>2
  <2>3. stage = "none"
    BY <2>2 DEF CallsInv, ElGamalTypeOK
  <2> QED BY <1>1, <1>8, <2>1, <2>3, OtherKeeps
<1>9. CASE UNCHANGED elGamalVars
  <2>1. UNCHANGED <<tableVars, search>> /\ UNCHANGED calls /\ UNCHANGED <<pc, main>>
    BY <1>9 DEF elGamalVars, vars, tableVars, search
  <2>2. stage # "none" => pc' = "serve" /\ main' = "idle"
    BY <2>1 DEF CallsInv, ElGamalTypeOK
  <2> QED BY <1>1, <2>1, <2>2, FrameKeeps, OtherKeeps
<1> QED BY <1>2, <1>3, <1>4, <1>5, <1>6, <1>7, <1>8, <1>9 DEF ElGamalNext

-----------------------------------------------------------------------------
LEMMA CallsRight == CallsInv => ElGamalTypeOK /\ CtxExclusive /\ ParallelAgrees
<1> SUFFICES ASSUME CallsInv PROVE CtxExclusive /\ ParallelAgrees
  BY DEF CallsInv
<1>1. CtxExclusive
  <2>1. bn_ctx \subseteq {"Y"}
    BY DEF CallsInv
  <2>2. IsFiniteSet({"Y"}) /\ Cardinality({"Y"}) = 1
    BY FS_Singleton
  <2>3. /\ Cardinality(bn_ctx) <= 1
    BY <2>1, <2>2, FS_Subset
  <2> QED BY <2>3 DEF CtxExclusive
<1>2. ASSUME stage = "return", call.op # "rerand"
      PROVE  ct = [Given EXCEPT ![call.to] = Sequential]
  <2>1. /\ CallType(call) /\ ct \in [Objects -> Ciphertext]
        /\ \A t \in Halves : HalfInv(t) /\ thread[t] = "done"
    BY <1>2, CallsType DEF CallsInv, ElGamalTypeOK, Objects, Ciphertext, Exponents
  <2>2. Infinity \in Ciphertext
    BY DlogAssumption DEF Infinity, Ciphertext, Exponents
  <2>3. Given \in [Objects -> Ciphertext] /\ call.to \in Objects
    BY <2>1, <2>2 DEF Given, Objects, CallType
  <2>4. Sequential \in Ciphertext
    <3>1. Sequential = [t \in Halves |-> Sequential[t]]
      BY <1>2, <2>1 DEF CallType, Sequential, Enc, HomoAdd, HomoSub, ScalarMul, Halves
    <3> QED BY <1>2, <2>1, <3>1, SequentialType DEF Ciphertext
  <2>5. ASSUME NEW o \in Objects
        PROVE  ct[o] = [Given EXCEPT ![call.to] = Sequential][o]
    <3>1. \A t \in Halves :
             ct[o][t] = IF o = call.to THEN Sequential[t] ELSE Given[o][t]
      BY <2>1 DEF HalfInv
    <3>2. CASE o = call.to
      BY <2>1, <2>3, <2>4, <3>1, <3>2 DEF Ciphertext
    <3>3. CASE o # call.to
      BY <2>1, <2>3, <3>1, <3>3 DEF Ciphertext
    <3> QED BY <3>2, <3>3
  <2> QED BY <2>1, <2>3, <2>4, <2>5
<1> QED BY <1>1, <1>2 DEF ParallelAgrees

-----------------------------------------------------------------------------
(* Decryption modulo the order. *)

LEMMA OrderIn == Order \in Nat \ {0}
BY DlogAssumption

LEMMA InverseRight ==
    ASSUME NEW n \in 1..(Order - 1)
    PROVE  ModInverse(n) \in Int /\ Same(n * ModInverse(n), 1, Order)
<1>1. PICK k \in 1..(Order - 1) : k = ModInverse(n) /\ (n * k) % Order = 1
  BY ElGamalAssumption DEF ModInverse
<1>2. Order \in Nat /\ Order > 1 /\ n * k \in Int /\ k \in Int
  BY DlogAssumption
<1>3. 1 % Order = 1
  BY <1>2
<1>4. Same(n * k, 1, Order)
  <2>1. PICK a \in Int : a = n * k
    BY <1>2
  <2>2. PICK b \in Int : b = 1
    OBVIOUS
  <2>3. a % Order = b % Order
    BY <1>1, <1>3, <2>1, <2>2
  <2>4. Same(a, b, Order)
    BY <2>3, OrderIn, SameMod
  <2> QED BY <2>1, <2>2, <2>4
<1> QED BY <1>1, <1>2, <1>4

\* What a ciphertext decrypts to, before it is reduced.
Opening(sk, X, Y) == (Y - X * ModInverse(sk)) * ModInverse(Eta)

LEMMA PlainSame ==
    ASSUME NEW sk \in 1..(Order - 1), NEW c, c.X \in Int, c.Y \in Int
    PROVE  /\ Plain(sk, c) \in Exponents
           /\ Same(Plain(sk, c), Opening(sk, c.X, c.Y), Order)
           /\ Opening(sk, c.X, c.Y) \in Int
<1>1. PICK k \in Int : k = ModInverse(sk)
  BY InverseRight
<1>2. PICK e \in Int : e = ModInverse(Eta)
  BY InverseRight, ElGamalAssumption
<1>3. PICK y \in Int : y = c.Y - c.X * k
  BY <1>1
<1>4. PICK z \in Int : z = y % Order
  BY DlogAssumption
<1>5. Same(z, y, Order)
  BY <1>4, OrderIn, SameRest
<1>6. z * e \in Int /\ y * e \in Int
  OBVIOUS
<1>7. Same(z * e, y * e, Order)
  BY <1>5, OrderIn, SameProduct
<1>8. Plain(sk, c) = (z * e) % Order
  BY <1>1, <1>2, <1>3, <1>4 DEF Plain, PartialDec
<1>9. Same((z * e) % Order, z * e, Order) /\ (z * e) % Order \in Exponents
  BY <1>6, OrderIn, SameRest, ModIn
<1>10. (z * e) % Order \in Int
  BY <1>6, DlogAssumption
<1>11. Same((z * e) % Order, y * e, Order)
  BY <1>6, <1>7, <1>9, <1>10, OrderIn, SameTrans
<1> QED BY <1>1, <1>2, <1>3, <1>6, <1>8, <1>9, <1>11 DEF Opening

LEMMA PlainEnc ==
    ASSUME NEW sk \in 1..(Order - 1), NEW msg \in Exponents, NEW r \in Exponents
    PROVE  Plain(sk, Enc(sk, msg, r)) = msg
<1>1. PICK k \in Int : k = ModInverse(sk) /\ Same(sk * k, 1, Order)
  BY InverseRight
<1>2. PICK e \in Int : e = ModInverse(Eta) /\ Same(Eta * e, 1, Order)
  BY InverseRight, ElGamalAssumption
<1>3. Order \in Nat \ {0} /\ msg \in Int /\ r \in Int /\ sk \in Int /\ Eta \in Int
  BY DlogAssumption, ElGamalAssumption DEF Exponents
<1> DEFINE c == Enc(sk, msg, r)
<1>4. c.X = (sk * r) % Order /\ c.Y = (r + Eta * msg) % Order
  BY DEF Enc
<1> HIDE DEF c
<1>5. sk * r \in Int /\ r + Eta * msg \in Int
  BY <1>3
<1>6. PICK X \in Int, Y \in Int : X = c.X /\ Y = c.Y
  BY <1>3, <1>4, <1>5
<1>7. Same(X, sk * r, Order) /\ Same(Y, r + Eta * msg, Order)
  BY <1>4, <1>5, <1>6, OrderIn, SameRest
<1>8. Same(X * k, r, Order)
  <2>1. PICK a \in Int, b \in Int : a = sk * r /\ b = sk * k
    BY <1>3
  <2>2. Same(X * k, a * k, Order)
    BY <1>7, <2>1, OrderIn, SameProduct
  <2>3. Same(b * r, r, Order)
    BY <1>1, <1>3, <2>1, OrderIn, SameUnit
  <2>4. a * k = b * r /\ X * k \in Int /\ b * r \in Int
    BY <1>3, <2>1
  <2> QED BY <1>3, <2>2, <2>3, <2>4, OrderIn, SameTrans
<1>9. X * k \in Int
  OBVIOUS
<1>10. Same(Y - X * k, Eta * msg, Order)
  <2>1. Same(Y - X * k, (r + Eta * msg) - r, Order)
    BY <1>3, <1>5, <1>7, <1>8, <1>9, OrderIn, SameSum
  <2>2. (r + Eta * msg) - r = Eta * msg
    BY <1>3
  <2> QED BY <2>1, <2>2
<1>11. Same((Y - X * k) * e, msg, Order)
  <2>1. PICK a \in Int, b \in Int : a = Eta * msg /\ b = Eta * e
    BY <1>3
  <2>2. PICK y \in Int : y = Y - X * k
    BY <1>9
  <2>3. Same(y * e, a * e, Order)
    BY <1>10, <2>1, <2>2, OrderIn, SameProduct
  <2>4. Same(b * msg, msg, Order)
    BY <1>2, <1>3, <2>1, OrderIn, SameUnit
  <2>5. a * e = b * msg /\ y * e \in Int /\ b * msg \in Int
    BY <1>3, <2>1
  <2> QED BY <1>3, <2>2, <2>3, <2>4, <2>5, OrderIn, SameTrans
<1>12. /\ Plain(sk, c) \in Exponents /\ (Y - X * k) * e \in Int
       /\ Same(Plain(sk, c), (Y - X * k) * e, Order)
  BY <1>1, <1>2, <1>6, PlainSame DEF Opening
<1>13. Same(Plain(sk, c), msg, Order)
  <2>1. Plain(sk, c) \in Int
    BY <1>3, <1>12 DEF Exponents
  <2> QED BY <1>3, <1>11, <1>12, <2>1, OrderIn, SameTrans
<1>14. Plain(sk, c) = msg % Order
  BY <1>3, <1>12, <1>13, OrderIn, SameEqual DEF Exponents
<1>15. msg % Order = msg
  BY <1>3 DEF Exponents
<1> QED BY <1>14, <1>15 DEF c

LEMMA OpeningSame ==
    ASSUME NEW sk \in 1..(Order - 1), NEW X \in Int, NEW Y \in Int,
           NEW U \in Int, NEW V \in Int, Same(X, U, Order), Same(Y, V, Order)
    PROVE  Same(Opening(sk, X, Y), Opening(sk, U, V), Order) /\ Opening(sk, U, V) \in Int
<1>1. PICK k \in Int : k = ModInverse(sk)
  BY InverseRight
<1>2. PICK e \in Int : e = ModInverse(Eta)
  BY InverseRight, ElGamalAssumption
<1>3. /\ Same(X * k, U * k, Order)
      /\ X * k \in Int /\ U * k \in Int
  <2>1. Same(X * k, U * k, Order)
    BY OrderIn, SameProduct
  <2> QED BY <2>1
<1>4. PICK y \in Int, v \in Int : y = Y - X * k /\ v = V - U * k
  BY <1>3
<1>5. Same(y, v, Order)
  BY <1>3, <1>4, OrderIn, SameSum
<1>6. Same(y * e, v * e, Order)
  BY <1>5, OrderIn, SameProduct
<1>7. v * e \in Int
  OBVIOUS
<1> QED BY <1>1, <1>2, <1>4, <1>6, <1>7 DEF Opening

\* A ciphertext that opens to a number modulo the order decrypts to it.
LEMMA PlainOpens ==
    ASSUME NEW sk \in 1..(Order - 1), NEW c, c.X \in Int, c.Y \in Int,
           NEW U \in Int, NEW V \in Int, Same(c.X, U, Order), Same(c.Y, V, Order),
           NEW p \in Int, Same(p, Opening(sk, U, V), Order)
    PROVE  Plain(sk, c) = p % Order
<1>1. Same(Opening(sk, c.X, c.Y), Opening(sk, U, V), Order) /\ Opening(sk, U, V) \in Int
  BY OpeningSame
<1>2. /\ Plain(sk, c) \in Exponents /\ Opening(sk, c.X, c.Y) \in Int
      /\ Same(Plain(sk, c), Opening(sk, c.X, c.Y), Order)
  BY PlainSame
<1>3. Plain(sk, c) \in Int
  BY <1>2, DlogAssumption DEF Exponents
<1>4. Same(Plain(sk, c), Opening(sk, U, V), Order)
  BY <1>1, <1>2, <1>3, OrderIn, SameTrans
<1>5. Same(Opening(sk, U, V), p, Order)
  BY <1>1, OrderIn, SameMod
<1>6. Same(Plain(sk, c), p, Order)
  BY <1>1, <1>3, <1>4, <1>5, OrderIn, SameTrans
<1> QED BY <1>2, <1>6, OrderIn, SameEqual DEF Exponents

LEMMA PlainHomo ==
    ASSUME NEW sk \in 1..(Order - 1), NEW c1 \in Ciphertext, NEW c2 \in Ciphertext,
           NEW n \in Exponents
    PROVE  /\ Plain(sk, HomoAdd(c1, c2)) = (Plain(sk, c1) + Plain(sk, c2)) % Order
           /\ Plain(sk, HomoSub(c1, c2)) = (Plain(sk, c1) - Plain(sk, c2)) % Order
           /\ Plain(sk, ScalarMul(c1, n)) = (Plain(sk, c1) * n) % Order
<1>1. Exponents \subseteq Int /\ "X" \in Halves /\ "Y" \in Halves
  BY DlogAssumption DEF Exponents, Halves
<1>2. c1.X \in Int /\ c1.Y \in Int /\ c2.X \in Int /\ c2.Y \in Int /\ n \in Int
  <2>1. /\ c1["X"] \in Exponents /\ c1["Y"] \in Exponents
        /\ c2["X"] \in Exponents /\ c2["Y"] \in Exponents
    BY <1>1 DEF Ciphertext
  <2> QED BY <1>1, <2>1
<1>3. PICK X1 \in Int, Y1 \in Int : X1 = c1.X /\ Y1 = c1.Y
  BY <1>2
<1>4. PICK X2 \in Int, Y2 \in Int : X2 = c2.X /\ Y2 = c2.Y
  BY <1>2
<1>5. PICK p1 \in Int : p1 = Plain(sk, c1) /\ Same(p1, Opening(sk, X1, Y1), Order)
  BY <1>1, <1>2, <1>3, PlainSame
<1>6. PICK p2 \in Int : p2 = Plain(sk, c2) /\ Same(p2, Opening(sk, X2, Y2), Order)
  BY <1>1, <1>2, <1>4, PlainSame
<1>7. PICK k \in Int : k = ModInverse(sk)
  BY InverseRight
<1>8. PICK e \in Int : e = ModInverse(Eta)
  BY InverseRight, ElGamalAssumption
<1>9. PICK o1 \in Int : o1 = Opening(sk, X1, Y1) /\ o1 = (Y1 - X1 * k) * e
  BY <1>7, <1>8 DEF Opening
<1>10. PICK o2 \in Int : o2 = Opening(sk, X2, Y2) /\ o2 = (Y2 - X2 * k) * e
  BY <1>7, <1>8 DEF Opening
<1>11. /\ Opening(sk, X1 + X2, Y1 + Y2) = o1 + o2
       /\ Opening(sk, X1 - X2, Y1 - Y2) = o1 - o2
       /\ Opening(sk, X1 * n, Y1 * n) = o1 * n
  <2>1. /\ ((Y1 + Y2) - (X1 + X2) * k) * e = o1 + o2
        /\ ((Y1 - Y2) - (X1 - X2) * k) * e = o1 - o2
        /\ (Y1 * n - (X1 * n) * k) * e = o1 * n
    BY <1>2, <1>9, <1>10
  <2> QED BY <2>1, <1>7, <1>8 DEF Opening
<1>12. Same(p1 + p2, o1 + o2, Order) /\ Same(p1 - p2, o1 - o2, Order) /\ Same(p1 * n, o1 * n, Order)
  BY <1>2, <1>5, <1>6, <1>9, <1>10, OrderIn, SameSum, SameProduct
<1>13. Order \in Nat \ {0}
  BY DlogAssumption
<1>14. Plain(sk, HomoAdd(c1, c2)) = (p1 + p2) % Order
  <2>1. PICK U \in Int, V \in Int : U = X1 + X2 /\ V = Y1 + Y2
    OBVIOUS
  <2> DEFINE c == HomoAdd(c1, c2)
  <2>2. c.X = U % Order /\ c.Y = V % Order
    BY <1>1, <1>3, <1>4, <2>1 DEF HomoAdd
  <2> HIDE DEF c
  <2>3. /\ Same(c.X, U, Order) /\ Same(c.Y, V, Order)
        /\ c.X \in Int /\ c.Y \in Int
    BY <1>13, <2>2, OrderIn, SameRest
  <2>4. PICK p \in Int : p = p1 + p2
    OBVIOUS
  <2>5. Same(p, Opening(sk, U, V), Order)
    BY <1>11, <1>12, <2>1, <2>4
  <2>6. Plain(sk, c) = p % Order
    BY <2>3, <2>5, PlainOpens
  <2> QED BY <2>4, <2>6 DEF c
<1>15. Plain(sk, HomoSub(c1, c2)) = (p1 - p2) % Order
  <2>1. PICK U \in Int, V \in Int : U = X1 - X2 /\ V = Y1 - Y2
    OBVIOUS
  <2> DEFINE c == HomoSub(c1, c2)
  <2>2. c.X = U % Order /\ c.Y = V % Order
    BY <1>1, <1>3, <1>4, <2>1 DEF HomoSub
  <2> HIDE DEF c
  <2>3. /\ Same(c.X, U, Order) /\ Same(c.Y, V, Order)
        /\ c.X \in Int /\ c.Y \in Int
    BY <1>13, <2>2, OrderIn, SameRest
  <2>4. PICK p \in Int : p = p1 - p2
    OBVIOUS
  <2>5. Same(p, Opening(sk, U, V), Order)
    BY <1>11, <1>12, <2>1, <2>4
  <2>6. Plain(sk, c) = p % Order
    BY <2>3, <2>5, PlainOpens
  <2> QED BY <2>4, <2>6 DEF c
<1>16. Plain(sk, ScalarMul(c1, n)) = (p1 * n) % Order
  <2>1. PICK U \in Int, V \in Int : U = X1 * n /\ V = Y1 * n
    BY <1>2
  <2> DEFINE c == ScalarMul(c1, n)
  <2>2. c.X = U % Order /\ c.Y = V % Order
    BY <1>1, <1>3, <2>1 DEF ScalarMul
  <2> HIDE DEF c
  <2>3. /\ Same(c.X, U, Order) /\ Same(c.Y, V, Order)
        /\ c.X \in Int /\ c.Y \in Int
    BY <1>13, <2>2, OrderIn, SameRest
  <2>4. PICK p \in Int : p = p1 * n
    BY <1>2
  <2>5. Same(p, Opening(sk, U, V), Order)
    BY <1>11, <1>12, <2>1, <2>4
  <2>6. Plain(sk, c) = p % Order
    BY <2>3, <2>5, PlainOpens
  <2> QED BY <2>4, <2>6 DEF c
<1> QED BY <1>5, <1>6, <1>14, <1>15, <1>16

\* The result of an operation, taken from what ParallelAgrees says of it.
LEMMA DecryptionRight == CallsInv => DecryptsRight
<1> SUFFICES ASSUME CallsInv, stage = "return", call.op # "rerand"
             PROVE  Plain(call.sk, ct[call.to]) = Expected
  BY DEF DecryptsRight
<1>1. CallType(call) /\ call.sk \in 1..(Order - 1)
  BY CallsType, ElGamalAssumption DEF CallsInv, CallType
<1>2. ct[call.to] = Sequential
  <2>1. ct = [Given EXCEPT ![call.to] = Sequential]
    BY CallsRight DEF ParallelAgrees
  <2> QED BY <1>1, <2>1 DEF Given, CallType
<1>3. CASE call.op = "enc"
  BY <1>1, <1>2, <1>3, PlainEnc DEF CallType, Sequential, Expected
<1>4. CASE call.op = "add"
  BY <1>1, <1>2, <1>4, PlainHomo DEF CallType, Sequential, Expected
<1>5. CASE call.op = "sub"
  BY <1>1, <1>2, <1>5, PlainHomo DEF CallType, Sequential, Expected
<1>6. CASE call.op = "scale"
  BY <1>1, <1>2, <1>6, PlainHomo DEF CallType, Sequential, Expected
<1> QED BY <1>1, <1>3, <1>4, <1>5, <1>6 DEF CallType

-----------------------------------------------------------------------------
\* The invariant of table, search and calls together.
LEMMA Invariant == ElGamalSpec => []Inv
  BY InitInv, StepInv, PTL DEF ElGamalSpec

\* For any table sizes, range, number of threads and order of the group: a
\* decryption finds the logarithm of every message in range and nothing
\* else, as the sequential search does, and its indices stay in their types.
THEOREM SearchCorrect == ElGamalSpec => [](TypeOK /\ DlogRight)
<1>1. Inv => TypeOK /\ DlogRight
  BY SearchRight DEF Inv, SearchInv
<1> QED BY <1>1, Invariant, PTL

\* The indices of the search threads and the results of searches have their
\* types for any sizes and number of threads.
THEOREM SearchTyped == ElGamalSpec => []TypeOK
<1>1. Inv => TypeOK
  BY SearchRight DEF Inv, SearchInv
<1> QED BY <1>1, Invariant, PTL

\* However late it sees the flag and wherever it is in its slice, no search
\* thread stops before its end unless some thread has the answer.
THEOREM NoThreadGivesUp == ElGamalSpec => []EarlyStop
<1>1. Inv => EarlyStop
  BY SearchRight DEF Inv, SearchInv
<1> QED BY <1>1, Invariant, PTL

\* For any keys, messages and randomness: the parallel encryption and
\* homomorphic operations give what the sequential ones do, in place or not.
THEOREM ParallelCorrect == ElGamalSpec => [](ElGamalTypeOK /\ ParallelAgrees)
<1>1. Inv => ElGamalTypeOK /\ ParallelAgrees
  BY CallsRight DEF Inv
<1> QED BY <1>1, Invariant, PTL

\* Never two threads of a call compute with the global bn_ctx at once.
THEOREM CtxNotShared == ElGamalSpec => []CtxExclusive
<1>1. Inv => CtxExclusive
  BY CallsRight DEF Inv
<1> QED BY <1>1, Invariant, PTL

\* In a group of prime order: what the parallel operations return decrypts to
\* the message that was encrypted, or to the sum, difference or multiple of
\* the messages of the operands.
THEOREM DecryptionCorrect == ElGamalSpec => []DecryptsRight
<1>1. Inv => DecryptsRight
  BY DecryptionRight DEF Inv
<1> QED BY <1>1, Invariant, PTL

=============================================================================
