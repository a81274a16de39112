----------------------------- MODULE BlockedProduct -----------------------------
(****************************************************************************)
(* mem_lab/matmul.c: a team of OpenMP threads fills A and B, zeroes C and   *)
(* multiplies block by block with vector instructions.  An entry of C is    *)
(* the bag of the products added to it, a product the pair of the places in *)
(* A and B its factors come from; rounding is left out.                     *)
(****************************************************************************)
EXTENDS Integers, FiniteSetsExt, Bags

CONSTANTS
    M, K, N,        \* A is M by K, B is K by N
    BM, BN, BK,     \* the sizes of a block
    W,              \* floats in a vector register, 8 in the source
    T               \* the threads of the team

ASSUME SizeAssumption == {M, K, N, BM, BN, BK, W, T} \subseteq Nat \ {0}
\* As for the 1024, 64 and 8 of the source.
ASSUME VectorAssumption == K % W = 0 /\ BK % W = 0

VARIABLES
    aligned,    \* the build moves vectors by instructions that want an aligned address
    loop,       \* the parallel loop main is in, or how it has ended
    todo,       \* todo[t]: the turns of it that thread t has still to make
    c_sum,      \* c_sum[t]: the products of t's turn that it has not added yet
    filled,     \* the places of A and B that have been set
    C

vars == <<aligned, loop, todo, c_sum, filled, C>>

Thread == 0..(T - 1)

Blocks(n, size) == (n + size - 1) \div size

\* The order in which one thread makes its turns: the nesting of the loops.
Before(x, y) == \E p \in DOMAIN x : x[p] < y[p] /\ \A q \in 1..(p - 1) : x[q] = y[q]

\* The turns of the jj loop in the n-th block of C, as <<n, k, ii, jj>>.
BlockTurns(n) ==
    LET i == (n \div Blocks(N, BN)) * BM
        j == (n % Blocks(N, BN)) * BN
    IN  {<<n, b * BK, ii, jj>> :
            b \in 0..(Blocks(K, BK) - 1),
            ii \in i..(Min({i + BM, M}) - 1), jj \in j..(Min({j + BN, N}) - 1)}

\* A loop without a schedule clause is dealt out in runs of consecutive turns, as evenly
\* as can be (the runtime's default).
Share(n, t) ==
    LET first(s) == (n \div T) * s + Min({s, n % T})
    IN  first(t)..(first(t + 1) - 1)

TurnsOf(l, t) ==
    CASE l = "fillA"    -> Share(M * K, t)
      [] l = "fillB"    -> Share(K * N, t)
      [] l = "zeroC"    -> Share(M * N, t)
      [] l = "multiply" -> UNION {BlockTurns(n) : n \in Share(Blocks(M, BM) * Blocks(N, BN), t)}
      [] OTHER          -> {}

Follows == [alloc |-> "fillA", fillA |-> "fillB", fillB |-> "zeroC", zeroC |-> "multiply",
            multiply |-> "printed"]

\* What is in an entry of C that was never zeroed.
Garbage == SetToBag({<<-1, -1>>})

Init ==
    /\ aligned \in BOOLEAN
    /\ loop = "alloc" /\ todo = [t \in Thread |-> {}]
    /\ c_sum = [t \in Thread |-> EmptyBag]
    /\ filled = {}
    /\ C = [e \in 0..(M * N - 1) |-> Garbage]

--------------------------------------------------------------------------------
(* The innermost loops *)

\* kk < k + BK without kk + 7 < K (mutant).
VectorStepsPastRow(k) == {kk \in k..(k + BK - 1) : (kk - k) % W = 0}

\* Where the vector loop loads from.
VectorSteps(k) == {kk \in k..(k + BK - 1) : (kk - k) % W = 0 /\ kk + W - 1 < K}

\* A remainder loop that starts with the last vector of the block (mutant).
RestStepsEarly(k) == (k + ((BK - 1) \div W) * W)..(Min({k + BK, K}) - 1)

\* Where the remainder loop reads.
RestSteps(k) == (k + (BK \div W) * W)..(Min({k + BK, K}) - 1)

\* Lane l of a vector product has the factors A[ii * K + kk + l] and B[kk * N + jj + l].
Products(k, ii, jj) ==
    LET vector == {<<ii * K + kk + l, kk * N + jj + l>> : kk \in VectorSteps(k), l \in 0..(W - 1)}
        rest   == {<<ii * K + kk, kk * N + jj>> : kk \in RestSteps(k)}
    IN  SetToBag(vector) (+) SetToBag(rest)

\* _mm256_loadu_ps (mutant).
LoadsAnywhere(k, jj) == TRUE

\* Every load is from an aligned address, or may be from any. Those of A always are.
LoadsWork(k, jj) == aligned => \A kk \in VectorSteps(k) : (kk * N + jj) % W = 0

--------------------------------------------------------------------------------
(* main *)

\* The three allocations succeed, or all threads have come to the barrier behind a loop.
NextLoop ==
    /\ loop \in DOMAIN Follows
    /\ \A t \in Thread : todo[t] = {}
    /\ loop' = Follows[loop]
    /\ todo' = [t \in Thread |-> TurnsOf(loop', t)]
    /\ UNCHANGED <<aligned, c_sum, filled, C>>

\* posix_memalign fails: all three pointers are freed, the ones it has not set as well.
AllocFails ==
    /\ loop = "alloc"
    /\ loop' \in {"returned", "diedInFree"}
    /\ UNCHANGED <<aligned, todo, c_sum, filled, C>>

\* A thread's share of one of the first three loops; nobody reads it before the barrier.
Fill(t) ==
    /\ loop \in {"fillA", "fillB", "zeroC"} /\ todo[t] # {}
    /\ filled' = filled \cup (({loop} \ {"zeroC"}) \X todo[t])
    /\ C' = [e \in DOMAIN C |-> IF loop = "zeroC" /\ e \in todo[t] THEN EmptyBag ELSE C[e]]
    /\ todo' = [todo EXCEPT ![t] = {}]
    /\ UNCHANGED <<aligned, loop, c_sum>>

Turn(t) == CHOOSE x \in todo[t] : \A y \in todo[t] \ {x} : Before(x, y)

\* One turn of the jj loop, up to the addition.
Multiply(t) ==
    /\ loop = "multiply" /\ todo[t] # {} /\ c_sum[t] = EmptyBag
    /\ LoadsWork(Turn(t)[2], Turn(t)[4])
    /\ c_sum' = [c_sum EXCEPT ![t] = Products(Turn(t)[2], Turn(t)[3], Turn(t)[4])]
    /\ UNCHANGED <<aligned, loop, todo, filled, C>>

\* A load faults, or the store into c_temp, whose address the compiler has chosen.
Fault(t) ==
    /\ loop = "multiply" /\ todo[t] # {} /\ c_sum[t] = EmptyBag
    /\ aligned
    /\ loop' = "faulted"
    /\ UNCHANGED <<aligned, todo, c_sum, filled, C>>

\* omp atomic
Add(t) ==
    /\ loop = "multiply" /\ c_sum[t] # EmptyBag
    /\ C' = [C EXCEPT ![Turn(t)[3] * N + Turn(t)[4]] = @ (+) c_sum[t]]
    /\ c_sum' = [c_sum EXCEPT ![t] = EmptyBag]
    /\ todo' = [todo EXCEPT ![t] = @ \ {Turn(t)}]
    /\ UNCHANGED <<aligned, loop, filled>>

Ended == loop \in {"printed", "returned", "diedInFree", "faulted"} /\ UNCHANGED vars

Work(t) == Fill(t) \/ Multiply(t) \/ Fault(t) \/ Add(t)

Next == NextLoop \/ AllocFails \/ (\E t \in Thread : Work(t)) \/ Ended

\* Every thread of the team is scheduled, main among them.
Spec == Init /\ [][Next]_vars /\ WF_vars(NextLoop \/ AllocFails) /\ \A t \in Thread : WF_vars(Work(t))

--------------------------------------------------------------------------------
(* Properties *)

\* What the threads multiply lies within A and B, border blocks and vector loads that run
\* over the end of a row of B included, and has been filled before.
ReadsFilled ==
    \A t \in Thread : \A p \in BagToSet(c_sum[t]) :
        <<"fillA", p[1]>> \in filled /\ <<"fillB", p[2]>> \in filled

\* In the end each entry of C has had every A of its row exactly once and nothing else:
\* the blocks cover the entry once for each k, no addition of another thread is lost, and
\* the thread that zeroed the entry did so before any of them. (With the sizes assumed the
\* remainder loop has no turns to make.)
RowUsedOnce ==
    loop = "printed" =>
        \A ii \in 0..(M - 1) : \A jj \in 0..(N - 1) :
            LET used == C[ii * N + jj]
            IN  /\ {p[1] : p \in BagToSet(used)} = {ii * K + k : k \in 0..(K - 1)}
                /\ \A p, q \in BagToSet(used) : p[1] = q[1] => p = q
                /\ \A p \in BagToSet(used) : used[p] = 1

\* main prints if the allocations work and the build moves vectors to and from any address.
\* With aligned moves the second column of a block faults at the latest, so that no such
\* build ever prints. Every barrier is passed.
Outcome ==
    \/ <>[](loop = "printed" /\ ~aligned)
    \/ <>[](loop = "faulted" /\ aligned)
    \/ <>[](loop \in {"returned", "diedInFree"})

\* matmul.c:55, "Matrix multiplication": an entry is the product of a row and a column.
ProductExact ==
    loop = "printed" =>
        \A ii \in 0..(M - 1) : \A jj \in 0..(N - 1) :
            C[ii * N + jj] = SetToBag({<<ii * K + k, k * N + jj>> : k \in 0..(K - 1)})
================================================================================
