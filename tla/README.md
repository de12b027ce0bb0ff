# LedgerMaze: a verification development

LedgerMaze keeps accounts with a public and an encrypted balance. A user
*mints* coins from the public balance into the encrypted one, *redeems* them
back, and pays another user by a *cheque*: the sender *sends* it, the receiver
*refreshes* it (re-encrypts it, so that sender and cheque can no longer be
linked) and *deposits* it. Every operation is a confidential transaction with
zero-knowledge proofs; an HTTP backend runs the operations for a web client and
keeps everything in files and two SQL tables.

Paths below are relative to `src/LedgerMaze-src/` unless they begin with `src/`.

## 1. Inventory

| Component | State | Operations | Modelled in |
|---|---|---|---|
| Confidential transactions, `LedgerMaze/LedgerMaze.hpp` | none of its own: reads an account, returns a transaction and the account's new contents | Create_Account, Mint, Redeem, SendCheque, RefreshCheque, Depositcheque, Verify_*, Update_Acct | `LedgerMazeTx`; their proofs in `TxProofs` |
| Persistence, `LedgerMaze.hpp` 301-411 | `<id>.acct`, `<hash>.ctx`, `<hash>.cheque` | serialize, deserialize, remove() | `LedgerBackend` |
| HTTP backend, `backend/backend.hpp` | the files and tables; nothing in memory between requests | CreateAccount, Mint, Redeem, SendCheque, RefreshCheque, DepositCheque | `LedgerBackend` |
| Queries and login, `backend/backend.hpp` | none | AccountLogin, RequestTrans, RequestAllTrans, RequestAccts | `BackendQueries` |
| SQL layer, `backend/sqlpaser.hpp` | tables account, confidential_transaction | two INSERTs, four SELECTs; update_acct is never called | INSERTs in `LedgerBackend`, SELECTs in `BackendQueries` |
| Parallel discrete logarithm, `depends/twisted_elgamal/calculate_dlog.hpp` | per thread: point, i, j, finding; shared: parallel_finding | Parallel_Shanks_DLOG, search_index, Shanks_DLOG | `ParallelDlog` |
| Table of baby steps, same file and `twisted_elgamal.hpp` 340-362 | the table file, point2index_map | Parallel_HASHMAP_serialize, HASHMAP_deserialize, Initialize | `DlogTable` |
| Twisted ElGamal, `twisted_elgamal.hpp` | ciphertexts of the caller, the global bn_ctx | Enc, Dec, ReRand, Homo*, ScalarMul and their Parallel_* forms; Sig, Ver, Hashed_* | `ParallelElGamal`; as terms in `LedgerMazeTx`; as points in `TxProofs` |
| NIZKs, `depends/nizk` | the transcript | three sigma protocols, Prove and Verify | `SigmaProofs`, `TxProofs` |
| Bulletproofs, `depends/bulletproofs` | the transcript, the proof | Bullet_Prove, Bullet_Verify, InnerProduct_Prove, InnerProduct_Verify | `InnerProduct`, `Bulletproof` |
| One-out-of-n proofs, `depends/oneoutofnproofs/src` | none | Prove, Verify, R1 proofs | `OneOutOfN` |
| Gadgets, `depends/gadgets` | the transcript | Gadget1 and Gadget2, Prove and Verify | `TxProofs` |
| Web client, `src/LedgerMaze-vue/src/views/wallet` | what each page shows, its dialog and spinner, requests in flight | two pages, their requests and replies | `WebClient`; as the requests it can make in `LedgerBackend` |
| Common routines | none | hashing, conversions | hashing and subtraction in the proofs' modules |
| Tests, benchmarks, older `LedgerMaze.cpp`, vendored code | - | - | not modelled |

**How they interact.** The client posts a request; `event_base_dispatch` calls
one handler; the handler reads the account file (and the `.ctx` or `.cheque`
file it was asked about), computes the transaction with its proofs, verifies it,
and then writes: the account file, the `.ctx` file, the row, and for a deposit it
removes the cheque. A refresh writes the cheque, removes the send's `.ctx` file,
and writes its own `.ctx` file and row. The reply of a refresh is the only place
where the hash of the new cheque appears, and the dialog of the credit page is the
only place where the client keeps it. Decryption calls the parallel discrete
logarithm, which needs the table that program start builds or loads.

**What is hard.** libevent runs one handler at a time, so requests do not
interleave inside a handler. What separates the writes of a handler is a crash.
What interleaves *between* handlers is the clients: their lists go stale, replies
are lost or overtake each other, accounts are created again under an id in use.
INSERT and remove() can fail and the handler goes on. A list is read from the table,
its rows are filled from files, and the two need not agree. The search threads race
on a plain `int`. The build of the table can die half way, and programs that want
tables of different sizes share the file. One of the two threads of a parallel
operation works with a global `bn_ctx`. Prover and verifier are written apart and
must hash the same transcript and compute the same sums by different shortcuts.
`PROJECT.json` lists these hazards at their lines.

**What makes the components correct.**
- transactions and backend: coins are neither made nor lost; a credit has been
  paid for, in that amount and for that key; a send is credited once; sequence
  numbers of a key are never reused; an account file always opens its own
  ciphertext; rows, `.ctx` files and cheques agree; answers are truthful;
- queries: a row that can be refreshed is listed and shows its own contents;
- discrete logarithm: the result of the sequential search, whatever the
  threads see of the flag; the search ends;
- table: what is loaded is the table of the right size, or the program refuses;
- ElGamal: a parallel operation gives what the sequential one gives, and the result
  decrypts to what the operation makes of the messages;
- proofs: an honest prover is accepted, a false statement is not, and a transaction's
  verifier accepts exactly what the handlers rely on;
- client: the pages show what the server holds and keep hold of a cheque.

## 2. Modules

```
LedgerMazeTx <- LedgerBackend <- LedgerProperties (INSTANCE Ledger) <- MCLedgerBackend
     ^              ^-- BackendQueries <- MCBackendQueries
     '-- TxProofs (EXTENDS SigmaProofs) <- MCTxProofs
Arithmetic <- InnerProduct <- Bulletproof <- MCBulletproof
     '-- OneOutOfN <- MCOneOutOfN
DlogTable <- ParallelDlog <- ParallelElGamal      WebClient
```

and the theorems (`NumberTheorems` serves all but the client and `LedgerBackendProofs`):

```
LedgerBackendProofs <- LedgerPropertiesProofs      OneOutOfNProofs
ParallelElGamalProofs      TxTheorems      BulletproofProofs      WebClientProofs
```

**Transactions and backend.** `LedgerMazeTx` has the transactions as operators on
accounts: the guard of each (`MintGuard`: the early return of -1), the new account
(`MintAccount`), the transaction (`MintCtx`) and the verifier (`VerifyMint`). A
ciphertext is the term `[pk, v, r]`. A proof is the relation it shows, of the values
the code proves it of; `TxProofs` justifies this, and shows the exception: a good refresh
is refused when the difference of its random numbers has a leading zero byte (section 3,
Findings), so the handler of a refresh may always refuse. Randomness is a number that no other
transaction uses (`Fresh`). The `aux` ciphertext of a send holds amount and
randomness. `MaxCoin` is `2^RANGE_LEN`.

`LedgerBackend` is the state machine. A handler runs in two parts. The first is
one action, `BackendMint` and so on: reads, computation, verification, the choice
of the answer. The second is the chain of writes, one action each (`OpenAccount`,
`WriteAccount`, ..., `Reply`); `pc` is the next write and `job` the handler's local
variables. Opening a file for writing empties it (`"torn"`), closing it makes it
complete (`"ok"`). `Crash` may come before any write and drops `job`; `Restart`
brings back an idle server. A failed INSERT (`SqlFails`) or remove
(`RemoveFails`) changes nothing and the chain goes on, as in the code. A reply
may be lost. `origin`, `credited` and `supply` are history variables.

Inputs are what the web client can send: amounts are natural numbers; a refresh
names a transaction that was listed for a key of this user, so possibly one that
is gone by now (`Listed`); a deposit names a hash from a reply to this user
(`known`). A missing or torn file leaves the structures the handler reads into
partly unset. For a `.ctx` or `.cheque` file the actions allow two outcomes: values no
proof verifies for, and zeroes, for which it does. For an account file (`Readable`) they
allow only the first, a refusal; whatever else its unset memory may give is left out.

| Code | Action |
|---|---|
| handler up to its first write | `BackendCreateAccount`, `BackendMint`, `BackendRedeem`, `BackendSendCheque`, `BackendRefreshCheque`, `BackendDepositCheque` |
| `LedgerMaze_Account_serialize` | `OpenAccount`, `WriteAccount` |
| `LedgerMaze_cheque_serialize` | `OpenCheque`, `WriteCheque` |
| `LedgerMaze_CT_serialize` | `OpenCtx`, `WriteCtx` |
| `SQL_insert_acct`, `SQL_insert_CT` | `InsertAccountRow`, `InsertCtRow` |
| `remove()` | `RemoveCtx`, `RemoveCheque` |
| `evhttp_send_reply` | `Reply` |

`Ledger` is the abstract specification: accounts with two balances, and a set of
pending transfers; its actions say what each operation makes of the two balances
(`Balance`). `LedgerProperties` has the properties that sum over all files
and the refinement mapping into `Ledger`: a transfer is pending from the moment
its sender's account file is written until its receiver's is.

`BackendQueries` adds the four requests that only read. `answer` is the last reply;
any step of the backend takes it away, so that an answer is judged in the state it
was given in. `Fill` is the deserialization into an object that may already show
another row: `RequestTrans` fills one object over and over (`TransRows`),
`RequestAllTrans` makes one for each row (`AllRows`). SQL leaves the order of rows
open; the model takes every order. A login of an id without rows dereferences a null
row, which is a `Crash`.

**Web client.** `WebClient` has one user's two wallet pages. A user action posts a
request into `net`; `Serve` answers any request, `Deliver` runs the `then` or `catch` of
any reply, and `Lose` breaks a connection before or after the request was served. A
page that is left is a new `inst`: replies to the old one come to nothing. `mishaps` is
a history variable of what stood between the user and an answer; the safety
properties are conditional on it, since without the condition the code does not have
them (two replies may overtake each other, one dialog serves all cheques).

**Program start, logarithm, ElGamal.** Three modules, each extending the one before,
with one state. `DlogTable` has program starts (`Boot`) with some table size, the
threads that fill their slices of the buffer, the file that grows as it is
written, the load, and crashes. `ParallelDlog` adds the searches of a program that
serves, with its table size: a point is its exponent modulo `Order`; the loop
test of a thread sees `parallel_finding` or still 0 (nothing orders the
accesses); `Shanks` is the sequential search, the reference. `ParallelElGamal` adds
the calls: `Call` starts a parallel function with its arguments, `Enter` and `Leave`
bracket the work of each of its two threads, `Return` is after both joins, and `Dec`
hands the rest of the ciphertext to the search. The functions write into objects of
their caller, which may be an operand. `bn_ctx` is the set of threads inside a call
that uses the global context. A kill takes whatever is at work with it.

**Proof systems.** Points are vectors of exponents over independent generators (the
discrete logarithm assumption), scalars are numbers modulo a small prime `Q`.
`InnerProduct` is the folding argument: `InnerProduct_Round` is one level of the
recursion, the state its vectors; `InnerProduct_Verify` is the unrolled check.
`Bulletproof` is the aggregated range proof around it, equation by equation, with a
witness that may be out of range and several verifications of one proof object.
`Arithmetic` has the sums and powers of both proof systems.
`OneOutOfN` is the proof that the prover knows the `r` of a commitment `h[0]^r`, given as
one of N: the commitment has an exponent and a value of its own, which need not be
the prover's `r` and 0 (`Opens`). `PaddedPolynomial` and
`PaddedPower` are the shortcuts by which the two sides add up the places from N to
n^m. `SigmaProofs` has the three sigma protocols and the signature as linear relations
over bases (`Phi`, `Respond`, `Check`). `TxProofs` runs them: a session has a list
of jobs (`MintJobs`, ..., `Gadget2Jobs`), which the prover does in order and the
verifier checks in its own order, `str` is the transcript string of the side at work
and `oracle` the hash, a random oracle. Range and one-out-of-n jobs are decided by
their relations, which the other modules check. The scalar a one-out-of-n proof of a
refresh is made with comes from `LedgerMaze_BIGNUMtoScalar`, which writes the bytes of
a number without leading zeroes to the start of a zeroed buffer; the constructor of a
scalar reads the whole buffer, so that a shorter number comes out multiplied by a power of
256 (`Byte`, `BN_LEN`), or throws, which ends the program (`TooLarge`). A session of a
refresh names the send whose randomness aux holds (`sent`). A session with `role = "any"` is an
arbitrary prover of one statement, asked again about one first message.

The modules whose names end in `Proofs` or `Theorems`, except `SigmaProofs` and
`TxProofs`, hold the proofs of section 4. `MC*` modules have the constants of the runs. Operators commented
as mutants are not part of a specification: each is a plausible bug in the definition
it stands next to, and shows that a property notices it.

## 3. Runs

| Run | Question | Bounds |
|---|---|---|
| `core` | Do all orders of all operations keep every coin and record, and is every handler one step of `Ledger` or none? | 2 users, amounts 0-3, balances below 3, 4 transactions, 2 key pairs; no faults |
| `crash` | Which relations survive one crash between any two writes? | 2 users, amounts 0-1, balances below 3, 5 transactions, 2 key pairs, 1 crash |
| `remove` | What holds when remove() and INSERTs fail? | 1 user paying itself, 6 transactions, 1 crash |
| `reply` | Does a success answer mean that something was written? (violated) | 2 users, 2 transactions |
| `queries` | Do answers show the files, and list all that can be refreshed? | 2 users, 4 transactions, 2 key pairs, 1 crash, failing SELECTs |
| `client` | Do the pages show the server's balances, keep a cheque and stop spinning? | 5 requests, 2 in flight, 2 sends, balances below 2 |
| `dlog` | Is the loaded table right, every parallel result the sequential one, the logarithm found, and do start and search end? | table sizes 2 and 4, 2 writing threads, 2 crashes, 3 search threads, range 24, group order 29, messages 1, 9, 20 and all that can be computed from them |
| `dlog_range` | Does a success mean that the message was found? (violated) | as `dlog`, every exponent |
| `bullet` | Do prover and verifier agree round by round, and is exactly what is in range accepted? | two values of 2 bits, witnesses 0, 3 and 4, two rounds, Q = 7, 3 verifications |
| `oneoutofn` | Do the shortcuts agree with the sums, and is exactly a member accepted? | 3 binary and 2 ternary digits, every set size, every place, values 0 and 1, the commitment's exponent or another, Q = 7 |
| `txproofs` | Is exactly what the abstract transactions accept accepted? Do the sigma protocols convince and hide? | accounts, cheques and keys of two users, one with an older key, amounts 0-3, both gadgets, Q = 7, scalars of two bytes of 4 values |
| `refresh` | Is a refresh with the right key always accepted? (violated) | as `txproofs` |

**Backend.** `Conservation`: public balances, encrypted balances and pending
transfers add up to the coins issued, at every step of every handler.
`AccountsRecorded`: between requests an account's rows are numbered 2..sn without
a gap and the last one shows its ciphertext. `AccountsOpen`: a readable account
opens its own ciphertext and is in the range. `CreditsPaid`: a credit has the
amount and the key of a send. `KnownChequeUnique`: clients never hold two cheques
of one send. `SnUnique`: no two recorded transactions of a key share a number.
`RowsBacked`: a row has its `.ctx` file, or a cheque, or a credit.
`CreditsBounded`: a cheque is credited at most once more than the server crashed.
`Recorded`: a transaction that began to write is recorded unless the server dies.
`ImplementsLedger`: the refinement. `RefreshableRowsTrue`, `HistoryRowsTrue`: the
contents shown in a row are the row's own, if it still has any; `RefreshableListed`:
nothing that can be refreshed is missing; `LoginFindsAccount`: an accepted login
has an account.

**Client.** `ShownCurrent`: a user who waits for each answer sees the server's
balances. `ChequeInReach`: a refreshed cheque is in the dialog or in flight as long
as no mishap happened. `LoadingEnds`: the spinner stops.

**Logarithm and ElGamal.** `TableRight`, `RefusalExplained`, `BootEnds`: a program that
serves has the right table, one that refuses found a table of another size or one
that was cut off, and a start ends. `DlogRight`, `EarlyStop`, `Terminates`: the
search covers exactly the range, a thread that gives up has a reason, the join is
reached. `CtxExclusive`: at most one thread is in a call with the global context.
`ParallelAgrees`: a parallel result is the sequential one and nothing else changes.
`DecryptsRight`: it decrypts to what the operation makes of the messages.

**Proof systems.** `RoundsKeepRelation`: every fold keeps the inner product
relation. `BasesAgree`: the verifier's unrolled bases are the prover's folded ones.
`Complete`, `OnlyInRange`, `OnlyMembers`: what is true is accepted, what is not is
refused (in `bullet` and `oneoutofn` for the prover of the code with a false witness; in
`oneoutofn` that is a commitment to 1 or one with another exponent than the prover's `r`,
which is the case of a refresh whose number was multiplied).
`PaddingRight`: the prover's shortcut is the sum it stands for. `SidesAgree`: the
prover's polynomials at the challenge are the verifier's powers. `AcceptsExactly`: a
transaction's verifier accepts exactly what the operator of `LedgerMazeTx` says and,
of a refresh, only when the difference of its random numbers keeps its value as a scalar
(`Converts`).
`Sound`: two accepted answers to one first message give a witness. `Simulatable`: an
accepted conversation about a true statement is one that every witness could have
had, with exactly one randomness, so it says nothing of which witness it was.

**Why the bounds are enough.** Four transactions are mint, send, refresh and
deposit, the life of a coin; a fifth is one more by either user (a second refresh, a
deposit by a user whose account was created again, a redeem), and with it the bound
of `CreditsBounded` is reached. Two key pairs let a user be created over itself or
each of two users exist. Amounts exceed the balances and, added, the range, so
every refusal happens. In `remove` one user pays itself and six transactions let a send
be refreshed, and its cheque deposited, twice. Users are symmetric: no action compares
them other than by equality. `RowsBacked` of `remove` covers crashes too. In
`dlog` the group is larger than the range, a slice has two or four giant steps, and
exponents outside the range occur; two crashes let a table be cut off, be refused, and
a search or a call be killed. In `bullet` vectors of length 4 have two rounds, the fewest
with which a wrong order of the index's bits shows. In `oneoutofn` every size from one
to n^m has every amount of padding. In `client` five requests are a refresh, its
deposit, the list it loads and a change of page; two in flight can overtake each
other.

**Deadlock** is checked except in `client`, `bullet`, `oneoutofn` and `txproofs`, where a
behaviour ends: the bound on requests is used up, or the proof is verified.

**Fairness.** `FairSpec` of the backend is weak fairness of `Continue`: the event
loop runs a handler to its end. Clients, crashes and restarts are not fair: no
one has to make a request or start the server again. In `DlogTable`, `ParallelDlog` and
`ParallelElGamal` the program that is starting is fair, so is the thread that
spawns and joins, and each search thread by itself, as the scheduler runs every
thread. In `WebClient` serving and delivering are fair (the server answers or the
connection breaks, and the browser runs the callback); the user is not.

**What does not hold, and is not claimed.** When remove() fails, a send can be
refreshed, and a cheque deposited, more than once: `KnownChequeUnique`,
`CreditsBounded`, `Conservation` and the refinement are stated for a
remove() that works; `remove` shows what is left then. With a crash between the
writes coins can be lost (the account was written, the `.ctx` was not) or
credited again (the account was written, the cheque was not removed), so
`Conservation` and the refinement are stated for the time before a crash. When the
reply of a refresh is lost, or its dialog is overwritten, closed or left, the
cheque's file stays but no client can name it.

**Findings.** `reply`: `V_mint`, `V_redeem` and `V_send` are read uninitialised after
a refused amount, so a request that wrote nothing can be answered with a
success. `dlog_range`: `Parallel_Shanks_DLOG` returns true even if no thread found
the point, so its caller's message for a message out of range is unreachable and
the result is 0. `refresh`: the witness of the first two one-out-of-n proofs of a refresh
is the difference of two random numbers, converted by `LedgerMaze_BIGNUMtoScalar` (845-851)
without leading zero bytes; when it has one, in about 1 of 256 refreshes, the scalar is
another number and the program's own verifier refuses an honest refresh (2078-2080).
Nothing is written then, and the user can ask again, with new randomness.

Not a run, since nothing calls it: `Twisted_ElGamal_Parallel_ReRand` hands its threads the
old ciphertext to write to (598-599) and leaves the new one unfinished. It is in the model
(`Target`), so that its threads are, but `ParallelAgrees` and `DecryptsRight` leave its
result out.

## 4. Proofs

All proofs are for any values of the constants, from the named assumptions of the
modules. For the backend (`NobodyAssumption`, `BoundAssumption`,
`BackendAssumption`) these say that constants have their types and `Nobody` is not a
user. `TableAssumption` and `DlogAssumption` say that sizes, range and thread numbers
divide as the code's constants (powers of two) do and that the range is smaller than
the group; `ElGamalAssumption` that the inputs are scalars, that keys are not 0, and
that every scalar but 0 has an inverse: the group has prime order. `GroupAssumption`
says the same of the group of the proofs, `ChallengeAssumption` that challenges are
not 0 and an arbitrary prover's points are points, `DrawsAssumption` and
`SessionAssumption` that randomness and transactions have their types. Two more are
what the code leaves to the size of the group, and are stated of the keys and numbers of one
transaction only: `KeyAssumption` that different keys have different secrets, and
`ScalarAssumption` that amounts and randomness of accounts and cheques are below the
order of the group (32 and 256 bits), that randomness under another's key is not
0 (with 0, a ciphertext does not depend on its key), and that a refresh does not draw
the number of its send again. `WidthAssumption` says that a scalar has room for every
number below the order. `FieldAssumption` says both for the
inner product argument, `LengthAssumption` that the vector length is a power of two
(none of its divisors but 1 is odd) and `BulletAssumption` that it is the product of
the two lengths of the range proof. `ProtocolAssumption` says of the one-out-of-N
proof that challenges are units modulo the order of the group, that bases are at
least 2, and that there are at most as many places as numbers with the digits. The client needs no assumption.
Four theorems have a hypothesis of their own: `CoinsConserved` that there are finitely
many users, since `Conservation` is a sum over them; `QuietServerImplementsLedger`
that no crash is allowed (`MaxCrashes = 0`) and remove() works, since the refinement
is stated for that server only (section 3); and the two about `OnlyInRange`, which
unlucky challenges break (see the range proof below).

Every inductive invariant was checked by TLC, on the instances of section 3 or smaller
ones, before it was proved.

**Backend: types, cheques, accounts** (`LedgerBackendProofs`). `TypeCorrect`: `TypeOK`
is inductive because it also says what `pc` implies of `job`: a handler about to write
has a user and a file. Balances stay natural numbers because the guards of mint,
redeem and send bound the amount: this is the part a bug would break.

`OneChequePerSend`: `KnownChequeUnique`. The
inductive invariant `ChequeInv` adds four facts to `TypeOK`. `FreshIds`: names at or
above `nextTx` are unused. `SpentSends`: once a client knows a cheque of a send, the
send's `.ctx` file is gone and cannot come back, as `WriteCtx` writes only under the
running handler's own new name. `RefreshAlone`: while a refresh runs, no client knows
another cheque of its send; it read the `.ctx` file, and by `SpentSends` that
file would have been gone. `OneCheque`: the property itself. The order
remove-before-reply (825, 853) is what the step of `Reply` rests on.

`AccountsAlwaysOpen` and `NumbersUnique`: `AccountsOpen` and
`SnUnique`. The inductive invariant `AccountInv` has four more parts. `KeysOwned`: a
readable account's key is its user's own and already drawn, so no two account files
hold one key. `NumbersBelow`: an account is at least as far as the transactions
recorded for its key. `AccountJob` and `CtxJob` carry both through the writes:
the account about to be written opens its ciphertext and is ahead of every
recorded number; the transaction about to be recorded has the number of the
account just written, which no recorded one of the key has. The second rests on
the order of the writes, account file before `.ctx` file.

**Backend: rows, files, credits** (same module). `RowsAlwaysBacked` and
`CreditsAlwaysBounded`: `RowsBacked` and
`CreditsBounded`. `FileInv` adds: `NamesFresh` (no row has the running handler's name
before it inserts it), `RefreshJob` (until a refresh has removed the send's file, its
cheque is new, and is of that send, or the send's file was gone), `RowJob` (the row is
of the file just written), `DepositJob` (a cheque is removed after it was credited)
and `CreditsSpent`: a cheque that can still be deposited was credited at most once
per crash. `CreditsBounded` alone is not inductive: it does not say that a
cheque with its last credit is out of reach.

`CreditsAlwaysPaid`: `CreditsPaid`, an action property.
`PaidInv` says of every complete cheque, and of the one a refresh is about to write,
that it is worth the send it came from, under the key that send names, or nothing
(`ChequesPaid`, `RefreshPaid`); that account keys have been drawn (`KeysDrawn`); and
that an account about to be written has a new key, another public balance, no more
coins, or a cheque's worth more (`WritePaid`). That the send's file is
still what it was when the cheque was made holds since its name is never written
again (`FreshIds`), and that it is a send since its row says so (`RowsBacked`).

**Backend: refinement, records, coins** (`LedgerPropertiesProofs`). `LedgerUntilCrash`:
every step that ends before the first crash, with a remove() that works, is a step of
`Ledger` or leaves its state alone. From it follow `BackendImplementsLedger` (for the
behaviours that never crash) and `QuietServerImplementsLedger`: `ImplementsLedger`. The
step that counts is `WriteAccount`: `WriteJob` says how the account about to be
written differs from the one in the file (`Moves`, one lemma for each transaction) and
each of these is the abstract action of the same name. All other steps stutter:
`FileJob` keeps a transfer pending while it passes from `job` to the `.ctx` file, and
from there to the cheque, and `OnePlace` and `SendGone` say that it is in one
place, or in both for just the steps between the writing of the cheque and the
removal of the `.ctx` file. `MapInv` is these with the bounds on keys and balances.

`RecordsAgree`: `AccountsRecorded`. `RecordInv` says the same at every step of a
handler: an account's rows are numbered up to its own number, or up to the one before
while the handler that wrote it has not inserted its row (`Recording`), the last one
shows the account (`LastShown`), and an account about to be written continues
the numbers (`NextRecord`).

`CoinsConserved`: `Conservation`, at every step of every handler. What a step moves is
what the abstract actions move, so the proof is that of the refinement with sums.
`MapThenSumSet` is a fold, defined by recursion over finite sets. The library's
induction cannot be used here (it takes an operator), so the facts about
the sum (`SetSumExists`, `SetSumSplit`, `SetSumChange`, `SetSumGrow`, `SetSumZero`) are proved by
a smallest counterexample: of the parts of a finite set for which the fact fails, one
has the least cardinality (`SmallestSubset`, from `LeastExists` of `NumberTheorems`),
and taking an element away makes a smaller one. A create draws a new
account, whose user's old coins leave the supply; `SetSumChange` is that one balance
changed, `SetSumGrow` that one transfer came or went.

**Queries** (`LedgerPropertiesProofs`, at the end). The four requests change nothing but `answer`
(`QueriesRead`: `QuerySpec` implies `Spec`), so all of the above holds of what they
read. `ReadInv` adds: until the first crash each complete transaction file has its row,
with its type and receiver, or its INSERT is next (`FilesListed`); and every row of
the account table has a file, which only a crash can leave empty (`RowsHaveFiles`).
`RefreshableShown` and `HistoryShown` are about `Fill`: a row whose file is complete
shows its own contents, whatever the object showed before. `ListComplete`: a
list is an ordering of the rows found, so each is at some place (`InOrder`, by counting),
and a row without a file has left its coins in a cheque (`RowsBacked`).
`LoginSound`: `RowsHaveFiles`.

**Client** (`WebClientProofs`). `BalancesShown` and `ChequesReached`: `ShownCurrent` and
`ChequeInReach`. `ClientInv`: a user who waits has at most one message in flight, of
the page and instance shown (`Alone`); the page shows the balances, or a message is in
flight that will bring them, and a reply in flight has the present ones
(`BalanceShown`, `UpToDate`); a cheque is in the dialog or in the reply that opens it,
and the answer to a deposit is about the cheque in the dialog (`ChequeHeld`). Without
`UpToDate` the invariant holds in every state TLC reaches and is not inductive.

**Logarithm and ElGamal** (`ParallelElGamalProofs`). The composed specification
`ElGamalSpec` has the inductive
invariant `Inv == TableInv /\ SearchInv /\ CallsInv`, one part for each module; a step of
one module leaves the other two parts alone, or, if it ends a program, resets them.

`TableCorrect`, `RefusalCorrect`: `TableRight` and `RefusalExplained`. `TableInv`:
`FileInv` says that a file holds the first baby steps, in order, and all of
some size unless a build died; `StageInv` that the writing threads keep to
their slots and that the buffer is right once they are joined. A file of the right
length is then the right table, which is why the length test of the load is
enough.

`SearchCorrect`, `SearchTyped`, `NoThreadGivesUp`:
`DlogRight`, `TypeOK` and `EarlyStop`. `ThreadInv` says that a thread is where its giant
steps have led it, that the steps before missed the table, and that a thread that is
done went through its slice or there is a finder. `HitIsRight` and `HitExists` are the
arithmetic: a giant step into the table gives the message back, and each message
in range has such a step; so the last finder is right whoever it is, and without
a finder all slices were searched in vain.

`ParallelCorrect`, `CtxNotShared`: `ParallelAgrees` and `CtxExclusive`. `HalfInv` says of
each half of every object that it is as given, or, in the result and once its thread
is done, as the sequential function has it. It holds when the result replaces
an operand because each thread reads and writes its own half only.

`DecryptionCorrect`: `DecryptsRight`, from `CallsInv` and arithmetic modulo a prime:
`Same*` (`NumberTheorems`) are congruence lemmas, `PlainEnc` says that decryption opens
an encryption, `PlainHomo` that it commutes with the operations.

**Sigma protocols** (`TxTheorems`). `ProversKnow` and `ProversHide`: `Sound` and
`Simulatable`, for any statement, first message and prover. `TalkInv` says that
accepted answers are to different challenges and satisfy the verifier's equations.
`CombineAt` reads an equation between points as two congruences between linear
forms, `ExtractAt` and `SimulateAt` solve one of them, and `ExtractRow` and
`SimulateRow` put them together: the difference of two answers times the inverse of
the difference of their challenges solves the statement, and answer minus
challenge times witness is the only randomness the prover can have had.

**Transactions** (same module). `VerifiersAcceptExactly`: `AcceptsExactly`. It has two
halves.
- What the proofs of a transaction are about: each of them holds of its witness exactly
  when a few numbers agree modulo the order of the group (`KnowledgeHolds`, `RangeHolds`,
  `DeltaHolds` and so on, by reading each point as the pair of its exponents, `IsAt`), and all
  of a transaction's hold exactly when its relation does (`MintFits` to `Gadget2Fits`). The
  step that needs the assumptions is the account's or the cheque's own ciphertext
  (`Opened`): if `sk r = sk' r'` and `r = r'`, the secrets are the same or `r` is 0
  (`KeysAgree`). A refresh with another key's aux fails in its first two
  member proofs. So does one whose difference of random numbers has a leading zero
  byte: what it is multiplied by, a power of a byte's values below the order, changes it
  (`BytesOf`, `Converted`), and if the product is not below the order, the session ends in
  `TooLarge`. The third says nothing, whatever its randomness: the base it
  is about is computed from its point and its scalar (`ThirdMember`).
- That the verifier computes this: `HonestInv` (theorem `SessionsFit`). `Strings` says
  that there is one string before each proof, that the proof was made with the
  challenge the hash holds for the transcript that starts with it, and that the verifier, where
  strings are handed on, has the same string when it comes to the same proof; so it asks
  for the same challenge (`SameChallenge`) and accepts exactly if the
  statement holds of the witness (`HonestAnswer`, `ShownChecks`). `Verdicts` says that the verdict so
  far is that of the proofs so far, in an order that leaves out none (`OrderIs`).

**Inner product argument** (`BulletproofProofs`). `RelationKept`: `RoundsKeepRelation`.
`FoldInv` says that the vectors that are folded have one length, that it divides
`VECTOR_LEN` (so that a round that is taken halves it), and that the point is the
commitment to the two witness vectors over the two bases. `Round` is the step: in
each coordinate of the points, the exponent of `P' = L^(x^2) P R^(x^-2)` and that of
the new commitment are both sums over the halves, and `RoundNumbers` compares
the two term by term, with `x x^-1 = 1`. Sums are a recursive function, whose every
instance has a solution (`SetSumExists`, by a smallest counterexample); `SumHalves`,
`SumLinear` and `SumSame` split it, take factors out and compute it modulo the order.
`FirstRound` is that of the range proof: the vectors it starts from are those of
its two polynomials at the challenge.

`BasesAlwaysAgree`: `BasesAgree`. `BaseInv` adds what each base of a round is (`GAt`,
`HAt`): it holds those first bases whose index has its own low digits, each with the
product of the challenges of the rounds so far, inverted where the digit that
round went by is 0 (`Sign`). A round (`GRound`, `HRound`) adds a factor, and the index of
a base loses its highest digit to it: `HalfIndex` is this division, `SignStep` says that
the bits `compute_vec_ss` reads from the most significant on are the same ones.
After the last round one base holds all the first ones (`GEnd`, `HEnd`).

**Range proof** (`BulletproofProofs`). `HonestProofsAccepted`: `Complete`. `AcceptInv`
adds to `BaseInv` what the proof holds, and of each verification that it turned `mu`:
an even number of them leaves it as it was sent (`Mask`), an odd one turned, which is
why `Complete` speaks of each second check. `Accepts` takes the two equations apart.
- Eq (72), `PolynomialHolds`: the polynomial t of the two vectors at the challenge is
  its constant term plus the two coefficients that T1 and T2 commit to (`TxIs`). The
  constant term is `Delta` plus the low bits of the witnesses weighted with powers of z,
  since bits are 0 or 1 (`BitSum`, `SumBlocks`). For a witness in the range these are all its bits
  (`LowIsAll`): the one place where `InRange` is needed. The commitments C hold the same sum (`CommittedSum`).
- The inner product, `VerifyHolds`: the verifier's first instance is the
  one the prover sent (`SameInstance`: the terms in z and y move from the
  commitments A and S to the bases, `DotMoved`, `OldBases`). Every P so far is that instance
  plus the L and R of the rounds with the squares of their challenges (`Traced`,
  `TraceStep`); after the last round it is also the commitment to the two scalars that are
  left, over bases that `GEnd` and `HEnd` know.

`AcceptedProofsFit`: what any accepted proof of this prover shows. Eq (72) compares the
low bits with the committed values, so an accepted proof's values exceed the range
by parts (`Above`) whose sum, weighted with powers of z from z^2 on (`Excess`),
is 0 modulo the order of the group; this holds for any values and challenges. `OutOfRangeRejected` is
`OnlyInRange`, provided that the challenges tell apart (`TellsApart`): `Excess` is 0 for
values in the range only. The instance of `bullet` meets it, and the code's group does
but for a negligible part of its challenges: `FewUnluckyChallenges` says that of any
`AGG_NUM` different ones at least one detects values below the order that are out of range, since
`Excess` is z^2 times a polynomial of degree below `AGG_NUM` whose coefficients are
not all 0, and `Roots` that such a polynomial has fewer roots than `AGG_NUM` (a root
is divided out, `Division`). With one value, as in the gadgets, no
challenge is unlucky and no hypothesis about challenges is left:
`SingleOutOfRangeRejected`.

**One-out-of-N** (`OneOutOfNProofs`). `PaddingAlwaysRight`: `PaddingRight`. A place is a
list of digits and its polynomial a product with one factor per digit, `X` times the
bit of sigma plus the cell of `a`. `DrawnInv` says that in each row one bit is 1 and
the cells add up to 0, so that the factors of a row add up to X (`Balanced`), and that
the prover's lists hold the products (`Coefs`). The places from N to n^m - 1 fall into blocks,
one for each position j and digit larger there than that of N - 1: its places have
the digits of N - 1 above j and all combinations below, whose factors therefore add up to X^j.
The proof goes down the positions: the sum over all places with one prefix of digits
is the product of the prefix's factors times X^j, and the sum over those not
below N - 1 adds the larger digits of each position in turn (`Telescope`). Digits and prefixes
(`SameDigits`, `SamePrefix`, `LargerDigit`) and polynomials (`UpDown`, `ValueFactor`)
are lemmas of `NumberTheorems`; `Recursion` is the solution of a recursive
definition up to a bound, since the prover knows no recursive function to have one.
The highest coefficient, which the shortcut leaves out, is the product of the
bits: 1 at the place of l and 0 elsewhere (`DownTop`).

`SidesAlwaysAgree`: `SidesAgree`. A cell of f is the factor's value at the challenge, also
in column 0, which the verifier completes. His powers obey the recursion of the
values of the polynomials, and his shortcut that of the sum (`ValueTimes`).

`CompleteAlways` and `OnlyMembersAlways`: `Complete` and `OnlyMembers`. `ProofInv`
says what the proof's fields commit to. `R1Always`: the equations of the bits
hold, in each coordinate of the points. `LeftIs`: the sum of the commitments weighted with the verifier's
powers, minus that of the points Gk, exchanged (`Exchange`) and seen at each generator, is
`value` times x^m at g, and at h[0] the final response z plus the difference of the
commitment's exponent and the prover's `r`, times x^m; 0 elsewhere. So the last equation
holds when both are 0 modulo the order, and fails otherwise since a power of a unit is
not 0 (`LeftZero`, `SumCheckIff`). `OnlyMembers` is about this prover, who follows the
protocol for a commitment he cannot open; that no other prover does better is not stated.

**Model-checked only.** Liveness (`Recorded`, `LoadingEnds`, `BootEnds`, `Terminates`):
the prover has no rule for fairness and ENABLED.

No theorem states `SuccessTruthful`, `SuccessMeansFound` or `DifferenceProved`: they do
not hold.

## 5. Plan

Modelled, checked and proved as above. What would come next: the range and one-out-of-N
proofs in place of their relations in `TxProofs`; the two pages composed with `LedgerBackend` itself
in place of a server that answers in one step; the registration and login forms with
their cookie.

## 6. Not modelled

Most of the repository's lines are vendored: libevent and its samples and tests,
and libraries under `depends/oneoutofnproofs`. Of these only what the code above
them uses appears: one handler at a time, group arithmetic. Of the program's own code:

- code that nothing calls: `HASHMAP_serialize`, `SQL_update_acct`, the `*_random`
  variants of the NIZKs, the older `LedgerMaze.cpp` and `LedgerMaze.h`, which the
  backend does not include;
- set-up of parameters, allocation, serialization of proofs, printing, tests and
  benchmarks: straight-line code without shared state;
- conversions that keep the value: numbers are written to files and hashed with leading
  zeroes (`BN_bn2binpad`), coordinates of points are parsed with them, and the pair of
  amount and randomness in aux travels as the coordinates of a point that is on no curve,
  for which OpenSSL reports an error nobody reads and keeps the coordinates. The
  one that does not, from numbers to scalars, is modelled in `TxProofs`;
- of a redeem, the hash of the memo, commented out on both sides;
- the length of the array `res[20][512]` in `RequestTrans`, and the sizes of request
  bodies; exhaustion of memory or disk;
- forging: that no prover finds a proof of a false range or membership statement is an
  assumption. `Sound` shows the extraction it rests on for the sigma protocols only.
