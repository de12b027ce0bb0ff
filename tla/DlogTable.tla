------------------------------- MODULE DlogTable -------------------------------
(***************************************************************************)
(* The table of baby steps (calculate_dlog.hpp): Twisted_ElGamal_Initialize *)
(* builds the file with several threads when it does not exist, and loads  *)
(* it into point2index_map.  The programs that share the directory may     *)
(* want tables of different sizes, and a build may die half way.           *)
(***************************************************************************)
EXTENDS Integers, Sequences

CONSTANTS IO_THREAD_NUM,
          Sizes,       \* giantstep_size of the programs
          MaxCrashes   \* bound

\* The build exits before it starts a thread when the slices are uneven.
ASSUME TableAssumption ==
    /\ IO_THREAD_NUM \in Nat \ {0} /\ MaxCrashes \in Nat
    /\ Sizes \subseteq Nat \ {0} /\ \A s \in Sizes : s % IO_THREAD_NUM = 0

Writers == 0..(IO_THREAD_NUM - 1)
NoEntry == -1

VARIABLES pc, size,           \* the running program
          startpoint, count,  \* of each thread of the build
          buffer, map,        \* exponent of each entry; point2index_map
          exists, file,       \* the table file
          crashes

tableVars == <<pc, size, startpoint, count, buffer, map, exists, file, crashes>>
threads == <<startpoint, count>>

Length == size \div IO_THREAD_NUM

\* Each thread stays in its slice of the buffer, which has a fixed size.
TableTypeOK ==
    /\ pc \in {"off", "build", "write", "load", "serve", "exit"}
    /\ size \in Sizes
    /\ startpoint \in [Writers -> 0..size] /\ count \in [Writers -> 0..Length]
    /\ DOMAIN buffer = 0..(size - 1)
    /\ Len(file) > 0 => exists
    /\ crashes \in Nat

Empty(s) == [k \in 0..(s - 1) |-> NoEntry]

TableInit ==
    /\ pc = "off" /\ size \in Sizes
    /\ startpoint = [t \in Writers |-> 0] /\ count = [t \in Writers |-> 0]
    /\ buffer = Empty(size) /\ map = {}
    /\ exists = FALSE /\ file = <<>> /\ crashes = 0

\* A program of some size starts; FILE_exist decides whether it builds.
Boot ==
    /\ pc \in {"off", "exit"}
    /\ \E s \in Sizes :
          /\ size' = s
          /\ startpoint' = [t \in Writers |-> t * (s \div IO_THREAD_NUM)]
          /\ buffer' = Empty(s)
    /\ count' = [t \in Writers |-> 0] /\ map' = {}
    /\ pc' = IF exists THEN "load" ELSE "build"
    /\ UNCHANGED <<exists, file, crashes>>

\* ECP_vector_serialize: one round of thread t's loop, in its own slice.
WriteEntry(t) ==
    /\ pc = "build" /\ count[t] < Length
    /\ buffer' = [buffer EXCEPT ![t * Length + count[t]] = startpoint[t]]
    /\ startpoint' = [startpoint EXCEPT ![t] = @ + 1]
    /\ count' = [count EXCEPT ![t] = @ + 1]
    /\ UNCHANGED <<pc, size, map, exists, file, crashes>>

\* Mutant: the file is opened while threads are still at work.
OpenUnjoined ==
    /\ pc = "build" /\ \E t \in Writers : count[t] = Length
    /\ exists' = TRUE /\ file' = <<>> /\ pc' = "write"
    /\ UNCHANGED <<size, threads, buffer, map, crashes>>

\* Every thread is joined; the file is opened and empty.
Open ==
    /\ pc = "build" /\ \A t \in Writers : count[t] = Length
    /\ exists' = TRUE /\ file' = <<>> /\ pc' = "write"
    /\ UNCHANGED <<size, threads, buffer, map, crashes>>

\* Mutants: the last entry is not written; the write never ends.
WriteShort ==
    /\ pc = "write"
    /\ \/ /\ Len(file) < size - 1
          /\ file' = Append(file, buffer[Len(file)]) /\ UNCHANGED pc
       \/ Len(file) = size - 1 /\ pc' = "load" /\ UNCHANGED file
    /\ UNCHANGED <<size, threads, buffer, map, exists, crashes>>
WriteAgain ==
    /\ pc = "write" /\ file' = <<buffer[0]>> /\ UNCHANGED pc
    /\ UNCHANGED <<size, threads, buffer, map, exists, crashes>>

\* The bytes reach the file in order.
Write ==
    /\ pc = "write"
    /\ \/ /\ Len(file) < size
          /\ file' = Append(file, buffer[Len(file)]) /\ UNCHANGED pc
       \/ Len(file) = size /\ pc' = "load" /\ UNCHANGED file
    /\ UNCHANGED <<size, threads, buffer, map, exists, crashes>>

\* HASHMAP_deserialize: a file of another length ends the program.
Load ==
    /\ pc = "load"
    /\ \/ Len(file) # size /\ pc' = "exit" /\ UNCHANGED map
       \/ /\ Len(file) = size /\ pc' = "serve"
          /\ map' = {<<file[k], k - 1>> : k \in 1..size}
    /\ UNCHANGED <<size, threads, buffer, exists, file, crashes>>

Stop ==
    /\ pc = "serve" /\ pc' = "off"
    /\ UNCHANGED <<size, threads, buffer, map, exists, file, crashes>>

Crash ==
    /\ pc \notin {"off", "exit"} /\ crashes < MaxCrashes
    /\ pc' = "off" /\ crashes' = crashes + 1
    /\ UNCHANGED <<size, threads, buffer, map, exists, file>>

Initialize == Open \/ Write \/ Load \/ \E t \in Writers : WriteEntry(t)

-----------------------------------------------------------------------------
\* A program that serves has a table that maps h^k to k for each k below its
\* giantstep_size and to nothing else, whichever program built the file, in
\* whatever order its threads ran, and wherever an earlier build died.
TableRight == pc = "serve" => map = {<<k, k>> : k \in 0..(size - 1)}

\* A program refuses the table only when another size was built or a build
\* was cut off; such a file is never repaired, so it refuses it for good.
RefusalExplained ==
    pc = "exit" => Len(file) \in Sizes \ {size} \/ (Len(file) # size /\ crashes > 0)

\* A boot ends: the program serves or exits, unless it is killed.
BootEnds == pc \in {"build", "write", "load"} ~> pc \in {"serve", "exit", "off"}

=============================================================================
