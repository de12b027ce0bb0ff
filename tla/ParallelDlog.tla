----------------------------- MODULE ParallelDlog -----------------------------
(***************************************************************************)
(* Parallel_Shanks_DLOG (twisted_elgamal/calculate_dlog.hpp), by which     *)
(* Twisted_ElGamal_Parallel_Dec finds m in h^m: each thread takes giant    *)
(* steps through its slice of the range and stops as soon as it sees       *)
(* parallel_finding, a plain int that all of them share.                   *)
(*                                                                         *)
(* A point of the group is its exponent modulo Order.  The int is read     *)
(* and written without synchronisation, so a thread may go on seeing 0.    *)
(* The table is the one this program has loaded (DlogTable), whose file    *)
(* another program may have written; the process may die in the search.    *)
(***************************************************************************)
EXTENDS DlogTable, FiniteSetsExt

CONSTANTS DEC_THREAD_NUM,
          MaxMessage,   \* 2^RANGE_LEN: giantstep_size is 2^(RANGE_LEN/2 + TUNNING)
          Order         \* order of the group

\* The function exits before it starts a thread when the slices are uneven.
ASSUME DlogAssumption ==
    /\ DEC_THREAD_NUM \in Nat \ {0}
    /\ \A s \in Sizes : MaxMessage % (s * DEC_THREAD_NUM) = 0
    /\ MaxMessage \in Nat /\ Order \in Nat /\ Order > MaxMessage

Threads == 0..(DEC_THREAD_NUM - 1)
\* loop_num = 2^(RANGE_LEN/2 - TUNNING), in equal slices.
LoopNum == MaxMessage \div size
Slice == LoopNum \div DEC_THREAD_NUM
InRange(k) == k < MaxMessage

VARIABLES m,         \* the exponent of the point to be found
          main, spawned, x, success,
          tpc, point, i, j, finding,   \* of each thread
          parallel_finding

locals == <<point, i, j, finding>>
search == <<m, main, spawned, x, success, tpc, locals, parallel_finding>>
vars == <<tableVars, search>>

\* Indices stay within a slice and within the table.
TypeOK ==
    /\ m \in 0..(Order - 1) /\ x \in Nat /\ success \in BOOLEAN
    /\ main \in {"idle", "spawn", "join", "done"}
    /\ main # "idle" => pc = "serve"
    /\ spawned \in 0..DEC_THREAD_NUM
    /\ tpc \in [Threads -> {"new", "test", "probe", "raise", "done"}]
    /\ point \in [Threads -> 0..(Order - 1)]
    /\ i \in [Threads -> 0..(size - 1)] /\ j \in [Threads -> 0..Slice]
    /\ finding \in [Threads -> {0, 1}] /\ parallel_finding \in {0, 1}

\* point2index_map.
InTable(p) == \E entry \in map : entry[1] = p
IndexOf(p) == (CHOOSE entry \in map : entry[1] = p)[2]

Init ==
    /\ TableInit
    /\ m = 0 /\ x = 0 /\ success = FALSE /\ main = "idle" /\ spawned = 0
    /\ tpc = [t \in Threads |-> "new"] /\ point = [t \in Threads |-> 0]
    /\ i = [t \in Threads |-> 0] /\ j = [t \in Threads |-> 0]
    /\ finding = [t \in Threads |-> 0] /\ parallel_finding = 0

\* A decryption looks for h: the point of thread t starts t slices of giant
\* steps back.
Decrypt(h) ==
    /\ pc = "serve" /\ main \in {"idle", "done"}
    /\ m' = h /\ x' = 0 /\ success' = FALSE
    /\ main' = "spawn" /\ spawned' = 0
    /\ tpc' = [t \in Threads |-> "new"]
    /\ point' = [t \in Threads |-> (h - t * Slice * size) % Order]
    /\ i' = [t \in Threads |-> 0] /\ j' = [t \in Threads |-> 0]
    /\ finding' = [t \in Threads |-> 0] /\ parallel_finding' = 0
    /\ UNCHANGED tableVars

\* Threads run as soon as they are made.
Spawn ==
    /\ main = "spawn"
    /\ tpc' = [tpc EXCEPT ![spawned] = "test"]
    /\ spawned' = spawned + 1
    /\ main' = IF spawned' = DEC_THREAD_NUM THEN "join" ELSE "spawn"
    /\ UNCHANGED <<tableVars, m, x, success, locals, parallel_finding>>

-----------------------------------------------------------------------------
(* search_index *)

Goto(t, l) == tpc' = [tpc EXCEPT ![t] = l]

\* Mutants: one step too many; a thread spins until another has found it.
LoopTestOneMore(t) ==
    /\ tpc[t] = "test"
    /\ \/ j[t] > Slice /\ Goto(t, "done")
       \/ j[t] <= Slice /\ Goto(t, "probe")
    /\ UNCHANGED <<tableVars, m, main, spawned, x, success, locals, parallel_finding>>
LoopTestWaits(t) ==
    /\ tpc[t] = "test"
    /\ \/ parallel_finding = 1 /\ Goto(t, "done")
       \/ parallel_finding = 0 /\ Goto(t, IF j[t] < Slice THEN "probe" ELSE "test")
    /\ UNCHANGED <<tableVars, m, main, spawned, x, success, locals, parallel_finding>>

LoopTest(t) ==
    /\ tpc[t] = "test"
    /\ \/ j[t] = Slice /\ Goto(t, "done")
       \/ /\ j[t] < Slice
          /\ \E seen \in {0, parallel_finding} :
                Goto(t, IF seen = 1 THEN "done" ELSE "probe")
    /\ UNCHANGED <<tableVars, m, main, spawned, x, success, locals, parallel_finding>>

\* Mutant: the search point is not moved.
GiantStepNowhere(t) ==
    /\ tpc[t] = "probe" /\ ~InTable(point[t])
    /\ j' = [j EXCEPT ![t] = @ + 1] /\ Goto(t, "test")
    /\ UNCHANGED <<tableVars, m, main, spawned, x, success, point, i, finding, parallel_finding>>

GiantStep(t) ==
    /\ tpc[t] = "probe" /\ ~InTable(point[t])
    /\ point' = [point EXCEPT ![t] = (@ - size) % Order]
    /\ j' = [j EXCEPT ![t] = @ + 1] /\ Goto(t, "test")
    /\ UNCHANGED <<tableVars, m, main, spawned, x, success, i, finding, parallel_finding>>

\* Mutant: finding is not set.
FindUnmarked(t) ==
    /\ tpc[t] = "probe" /\ InTable(point[t])
    /\ i' = [i EXCEPT ![t] = IndexOf(point[t])] /\ Goto(t, "raise")
    /\ UNCHANGED <<tableVars, m, main, spawned, x, success, point, j, finding, parallel_finding>>

Find(t) ==
    /\ tpc[t] = "probe" /\ InTable(point[t])
    /\ i' = [i EXCEPT ![t] = IndexOf(point[t])]
    /\ finding' = [finding EXCEPT ![t] = 1] /\ Goto(t, "raise")
    /\ UNCHANGED <<tableVars, m, main, spawned, x, success, point, j, parallel_finding>>

Raise(t) ==
    /\ tpc[t] = "raise"
    /\ parallel_finding' = 1 /\ Goto(t, "done")
    /\ UNCHANGED <<tableVars, m, main, spawned, x, success, locals>>

-----------------------------------------------------------------------------
Finders == {t \in Threads : finding[t] = 1}

\* The last finder wins; without one the indices are 0.
Result ==
    IF Finders = {} THEN 0
    ELSE LET t == Max(Finders) IN i[t] + (j[t] + t * Slice) * size

\* Once every thread is joined the function returns true.
Join ==
    /\ main = "join" /\ \A t \in Threads : tpc[t] = "done"
    /\ x' = Result /\ success' = TRUE /\ main' = "done"
    /\ UNCHANGED <<tableVars, m, spawned, tpc, locals, parallel_finding>>

Search(t) == LoopTest(t) \/ GiantStep(t) \/ Find(t) \/ Raise(t)

EndSearch ==
    /\ m' = 0 /\ x' = 0 /\ success' = FALSE /\ main' = "idle" /\ spawned' = 0
    /\ tpc' = [t \in Threads |-> "new"] /\ point' = [t \in Threads |-> 0]
    /\ i' = [t \in Threads |-> 0] /\ j' = [t \in Threads |-> 0]
    /\ finding' = [t \in Threads |-> 0] /\ parallel_finding' = 0

\* What happens to the program before, between and after its searches; one
\* that is killed takes a search with it.
Program ==
    \/ (Boot \/ Initialize) /\ UNCHANGED search
    \/ main \in {"idle", "done"} /\ Stop /\ EndSearch
Killed == Crash /\ EndSearch

Next ==
    \/ Program \/ Killed \/ Spawn \/ Join
    \/ \E h \in 0..(Order - 1) : Decrypt(h)
    \/ \E t \in Threads : Search(t)

Spec == Init /\ [][Next]_vars

\* The start of a program goes on, and the scheduler runs every thread.
FairSpec ==
    /\ Spec /\ WF_vars(Initialize /\ UNCHANGED search) /\ WF_vars(Spawn \/ Join)
    /\ \A t \in Threads : WF_vars(Search(t))

-----------------------------------------------------------------------------
NotFound == -1

\* Shanks_DLOG, the sequential search Twisted_ElGamal_Dec uses.
Shanks(h) ==
    LET hits == {k \in 0..(LoopNum - 1) : InTable((h - k * size) % Order)}
    IN IF hits = {} THEN NotFound
       ELSE IndexOf((h - Min(hits) * size) % Order) + Min(hits) * size

\* Both searches cover exactly the range: the parallel one returns what the
\* sequential one does, whichever thread finds it and however late the others
\* see the flag, and nothing that is outside the range is found inside.
DlogRight ==
    main = "done" =>
        IF InRange(m) THEN x = m /\ Shanks(m) = m
        ELSE Finders = {} /\ Shanks(m) = NotFound

\* A thread gives its slice up early only when another has the answer.
EarlyStop ==
    \A t \in Threads :
        tpc[t] = "done" /\ j[t] < Slice => Finders # {}

\* The join is reached, unless the program is killed: no thread waits for
\* the flag.
Terminates == main \in {"spawn", "join"} ~> main \in {"done", "idle"}

\* "decyption fails: cannot find the message in the specified range", says
\* the caller (twisted_elgamal.hpp:579) when the search returns false: a
\* search that succeeds has found the message.
SuccessMeansFound == success => x = m

=============================================================================
