---------------------------- MODULE ParallelElGamal ----------------------------
(***************************************************************************)
(* The parallel operations of twisted_elgamal.hpp: each computes the two    *)
(* halves of a ciphertext in two threads and joins them, and a decryption   *)
(* hands what is left of the ciphertext to Parallel_Shanks_DLOG.            *)
(*                                                                         *)
(* A point is its exponent over g, and h is g^Eta.  The functions write     *)
(* into objects of their caller, which may be one of the inputs.  A call    *)
(* of OpenSSL with the global bn_ctx works in its pool until it returns.    *)
(***************************************************************************)
EXTENDS ParallelDlog, FiniteSets

CONSTANTS Eta,
          Keys, Messages, Coins, Scalars   \* bounds: the inputs

ASSUME ElGamalAssumption ==
    /\ Eta \in 1..(Order - 1) /\ Keys \subseteq 1..(Order - 1)
    /\ Messages \cup Coins \cup Scalars \subseteq 0..(Order - 1)
    /\ \A n \in 1..(Order - 1) : \E k \in 1..(Order - 1) : (n * k) % Order = 1

VARIABLES call,   \* the function at work and its arguments
          stage,  \* "none", "run" or "return"
          ct,     \* the objects: inputs "a" and "b", and "new"
          M,      \* a re-randomisation's partial decryption
          thread, \* of each half
          bn_ctx  \* the threads that are in a call with it

calls == <<call, stage, ct, M, thread, bn_ctx>>
elGamalVars == <<vars, calls>>

Halves == {"X", "Y"}
ModInverse(n) == CHOOSE k \in 1..(Order - 1) : (n * k) % Order = 1

\* Mutant: the message is not encrypted.
EncBare(sk, msg, r) == [X |-> (sk * r) % Order, Y |-> r % Order]
\* Twisted_ElGamal_Enc and the partial decryption, h^m.
Enc(sk, msg, r) == [X |-> (sk * r) % Order, Y |-> (r + Eta * msg) % Order]
PartialDec(sk, c) == (c.Y - c.X * ModInverse(sk)) % Order
Plain(sk, c) == (PartialDec(sk, c) * ModInverse(Eta)) % Order

\* The sequential functions, which LedgerMaze.hpp and the gadgets use.
HomoAdd(c1, c2) == [t \in Halves |-> (c1[t] + c2[t]) % Order]
HomoSub(c1, c2) == [t \in Halves |-> (c1[t] - c2[t]) % Order]
ScalarMul(c, k) == [t \in Halves |-> (c[t] * k) % Order]

-----------------------------------------------------------------------------
Ciphertexts(sk) == {Enc(sk, msg, r) : msg \in Messages, r \in Coins}
Infinity == [t \in Halves |-> 0]    \* Twisted_ElGamal_CT_new

\* n is the message or the scalar, to the object of the result.
Args(op, sk, a, b, n, r, to) ==
    [op |-> op, sk |-> sk, a |-> a, b |-> b, n |-> n, r |-> r, to |-> to]
NoCall == Args("none", 0, Infinity, Infinity, 0, 0, "new")

EncCalls(sk) ==
    {Args("enc", sk, Infinity, Infinity, msg, r, "new") :
        msg \in 0..(Order - 1), r \in Coins}
HomoCalls(sk) ==
    {Args(op, sk, c1, c2, 0, 0, to) :
        op \in {"add", "sub"}, c1 \in Ciphertexts(sk), c2 \in Ciphertexts(sk),
        to \in {"a", "new"}}
ScaleCalls(sk) ==
    {Args("scale", sk, c, Infinity, k, 0, to) :
        c \in Ciphertexts(sk), k \in Scalars, to \in {"a", "new"}}
ReRandCalls(sk) ==
    {Args("rerand", sk, c, Infinity, 0, r, "new") : c \in Ciphertexts(sk), r \in Coins}
Calls ==
    UNION {EncCalls(sk) \cup HomoCalls(sk) \cup ScaleCalls(sk) \cup ReRandCalls(sk) :
              sk \in Keys}

NoObjects == [o \in {"a", "b", "new"} |-> Infinity]

CallsInit ==
    /\ call = NoCall /\ stage = "none" /\ ct = NoObjects /\ M = 0
    /\ thread = [t \in Halves |-> "none"] /\ bn_ctx = {}

ElGamalInit == Init /\ CallsInit

EndCall ==
    /\ call' = NoCall /\ stage' = "none" /\ ct' = NoObjects /\ M' = 0
    /\ thread' = [t \in Halves |-> "none"] /\ bn_ctx' = {}

\* A function is called and makes its threads; a re-randomisation decrypts
\* first, alone with bn_ctx.
Call ==
    /\ pc = "serve" /\ main \in {"idle", "done"} /\ stage = "none"
    /\ \E c \in Calls :
          /\ call' = c /\ ct' = [a |-> c.a, b |-> c.b, new |-> Infinity]
          /\ M' = IF c.op = "rerand" THEN PartialDec(c.sk, c.a) ELSE 0
    /\ stage' = "run" /\ thread' = [t \in Halves |-> "made"]
    /\ UNCHANGED <<tableVars, bn_ctx>> /\ EndSearch

-----------------------------------------------------------------------------
(* The threads: exp_operation, multiexp_operation and the others. *)

\* The object a thread writes to: a re-randomisation's threads get its input.
Target(c) == IF c.op = "rerand" THEN "a" ELSE c.to

Operand(o, t) == ct[o][t]

Value(c, t) ==
    CASE c.op = "enc" -> Enc(c.sk, c.n, c.r)[t]
      [] c.op = "add" -> (Operand("a", t) + Operand("b", t)) % Order
      [] c.op = "sub" -> (Operand("a", t) - Operand("b", t)) % Order
      [] c.op = "scale" -> (Operand("a", t) * c.n) % Order
      [] c.op = "rerand" -> Enc(c.sk, 0, c.r)[t]

\* Mutant: encryption gives bn_ctx to both its threads.
UsesCtxBoth(c, t) == c.op = "enc"
\* The multiexponentiation of an encryption is the one that uses bn_ctx.
UsesCtx(c, t) == c.op = "enc" /\ t = "Y"

Enter(t) ==
    /\ stage = "run" /\ thread[t] = "made"
    /\ thread' = [thread EXCEPT ![t] = "in"]
    /\ bn_ctx' = IF UsesCtx(call, t) THEN bn_ctx \cup {t} ELSE bn_ctx
    /\ UNCHANGED <<tableVars, search, call, stage, ct, M>>

Leave(t) ==
    /\ thread[t] = "in"
    /\ ct' = [ct EXCEPT ![Target(call)][t] = Value(call, t)]
    /\ thread' = [thread EXCEPT ![t] = "done"] /\ bn_ctx' = bn_ctx \ {t}
    /\ UNCHANGED <<tableVars, search, call, stage, M>>

\* Mutant: only the first thread is joined.
JoinedFirst == thread["X"] = "done"
Joined == \A t \in Halves : thread[t] = "done"

\* Both threads are joined and the function returns.
Return ==
    /\ stage = "run" /\ Joined /\ stage' = "return"
    /\ ct' = IF call.op = "rerand" THEN [ct EXCEPT !.new.Y = (@ + M) % Order] ELSE ct
    /\ UNCHANGED <<tableVars, search, call, M, thread, bn_ctx>>

\* Twisted_ElGamal_Parallel_Dec of the result, whose objects are then freed.
Dec ==
    /\ stage = "return" /\ Decrypt(Plain(call.sk, ct[call.to])) /\ EndCall

ElGamalNext ==
    \/ Call \/ Return \/ Dec
    \/ \E t \in Halves : Enter(t) \/ Leave(t)
    \/ stage = "none" /\ Program /\ UNCHANGED calls
    \/ Killed /\ EndCall
    \/ (Spawn \/ Join \/ \E t \in Threads : Search(t)) /\ UNCHANGED calls

\* As for ParallelDlog.
ElGamalSpec ==
    /\ ElGamalInit /\ [][ElGamalNext]_elGamalVars
    /\ WF_elGamalVars(Initialize /\ UNCHANGED <<search, calls>>)
    /\ WF_elGamalVars((Spawn \/ Join) /\ UNCHANGED calls)
    /\ \A t \in Threads : WF_elGamalVars(Search(t) /\ UNCHANGED calls)

-----------------------------------------------------------------------------
\* No thread outlives the call that made it and frees what it was given.
ElGamalTypeOK ==
    /\ call \in Calls \cup {NoCall} /\ stage \in {"none", "run", "return"}
    /\ stage # "none" => pc = "serve" /\ main = "idle"
    /\ ct \in [{"a", "b", "new"} -> [Halves -> 0..(Order - 1)]]
    /\ M \in 0..(Order - 1) /\ bn_ctx \subseteq Halves
    /\ thread \in [Halves -> {"none", "made", "in", "done"}]
    /\ \A t \in Halves : thread[t] \in {"made", "in"} => stage = "run"

\* "A given BN_CTX must only be used by a single thread of execution", says
\* the comment above the parallel functions (line 521), one of whose threads
\* uses it all the same.
CtxExclusive == Cardinality(bn_ctx) <= 1

\* What the sequential functions make of the arguments, and what it decrypts
\* to.
Sequential ==
    CASE call.op = "enc" -> Enc(call.sk, call.n, call.r)
      [] call.op = "add" -> HomoAdd(call.a, call.b)
      [] call.op = "sub" -> HomoSub(call.a, call.b)
      [] call.op = "scale" -> ScalarMul(call.a, call.n)
Expected ==
    LET a == Plain(call.sk, call.a) b == Plain(call.sk, call.b)
    IN CASE call.op = "enc" -> call.n
         [] call.op = "add" -> (a + b) % Order
         [] call.op = "sub" -> (a - b) % Order
         [] call.op = "scale" -> (a * call.n) % Order

\* The parallel encryption and homomorphic operations give the ciphertext the
\* sequential ones do and touch nothing else, in whatever order their threads
\* work and when the result replaces an operand.  The re-randomisation, which
\* nothing calls, does not: its threads write to the old ciphertext (Target).
Given == [a |-> call.a, b |-> call.b, new |-> Infinity]
ParallelAgrees ==
    stage = "return" /\ call.op # "rerand" => ct = [Given EXCEPT ![call.to] = Sequential]

\* The result decrypts to what the operation makes of the messages.
DecryptsRight ==
    stage = "return" /\ call.op # "rerand" => Plain(call.sk, ct[call.to]) = Expected

=============================================================================
