--------------------------------- MODULE SigChild ---------------------------------
(****************************************************************************)
(* signal_lab/sigchild.c: main forks NUM children and pauses until the      *)
(* handler of SIGCHLD has counted every one of them out.  The handler runs  *)
(* between any two steps of main; the kernel keeps one pending bit for      *)
(* SIGCHLD, however many children have exited, and blocks the signal while  *)
(* its handler runs.                                                        *)
(****************************************************************************)
EXTENDS Integers, FiniteSets

CONSTANT NUM        \* the number of children

ASSUME NumAssumption == NUM \in Nat

Child == 0..(NUM - 1)

VARIABLES
    pc,         \* main: "fork", "test", "toPause" (ccount read), "paused", "done"
    i,          \* main's loop counter
    ccount,     \* the children not counted out yet
    child,      \* what has become of each child
    pending,    \* SIGCHLD is pending
    handling,   \* the handler is running, over what main was doing
    lostWake    \* the handler has counted to 0 between main's test and its pause

vars == <<pc, i, ccount, child, pending, handling, lostWake>>

Running == {c \in Child : child[c] = "running"}
Zombies == {c \in Child : child[c] = "zombie"}
Reaped  == {c \in Child : child[c] = "reaped"}

Init ==
    /\ pc = "fork" /\ i = 0
    /\ ccount = NUM
    /\ child = [c \in Child |-> "none"]
    /\ pending = FALSE /\ handling = FALSE
    /\ lostWake = FALSE

--------------------------------------------------------------------------------
(* main *)

MainRuns == ~handling

Fork ==
    /\ MainRuns /\ pc = "fork" /\ i < NUM
    /\ child' = [child EXCEPT ![i] = "running"]
    /\ i' = i + 1
    /\ UNCHANGED <<pc, ccount, pending, handling, lostWake>>

\* fork answers -1, which main stores like any other pid.
ForkFails ==
    /\ MainRuns /\ pc = "fork" /\ i < NUM
    /\ child' = [child EXCEPT ![i] = "failed"]
    /\ i' = i + 1
    /\ UNCHANGED <<pc, ccount, pending, handling, lostWake>>

ForkDone ==
    /\ MainRuns /\ pc = "fork" /\ i = NUM
    /\ pc' = "test"
    /\ UNCHANGED <<i, ccount, child, pending, handling, lostWake>>

\* while (ccount > 0)
Test ==
    /\ MainRuns /\ pc = "test"
    /\ pc' = IF ccount > 0 THEN "toPause" ELSE "done"
    /\ UNCHANGED <<i, ccount, child, pending, handling, lostWake>>

Pause ==
    /\ MainRuns /\ pc = "toPause"
    /\ pc' = "paused"
    /\ UNCHANGED <<i, ccount, child, pending, handling, lostWake>>

--------------------------------------------------------------------------------
(* The children and the kernel *)

\* sleep(2) and exit(0); the kernel raises SIGCHLD in the parent.
ChildExits(c) ==
    /\ c \in Running
    /\ child' = [child EXCEPT ![c] = "zombie"]
    /\ pending' = TRUE
    /\ UNCHANGED <<pc, i, ccount, handling, lostWake>>

Deliver ==
    /\ pending /\ ~handling /\ pc # "done"
    /\ pending' = FALSE
    /\ handling' = TRUE
    /\ UNCHANGED <<pc, i, ccount, child, lostWake>>

--------------------------------------------------------------------------------
(* child_handler2 *)

\* waitpid without ccount-- (mutant).
ReapUncounted(c) ==
    /\ handling
    /\ c \in Zombies
    /\ child' = [child EXCEPT ![c] = "reaped"]
    /\ UNCHANGED <<pc, i, ccount, pending, handling, lostWake>>

\* waitpid answers some zombie.
Reap(c) ==
    /\ handling
    /\ c \in Zombies
    /\ child' = [child EXCEPT ![c] = "reaped"]
    /\ ccount' = ccount - 1
    /\ UNCHANGED <<pc, i, pending, handling, lostWake>>

\* A handler that does not ask again until waitpid has no more, as child_handlerl (mutant).
HandlerReturnsAtOnce ==
    /\ handling
    /\ handling' = FALSE
    /\ pc' = IF pc = "paused" THEN "test" ELSE pc
    /\ lostWake' = (lostWake \/ (pc = "toPause" /\ ccount <= 0))
    /\ UNCHANGED <<i, ccount, child, pending>>

\* waitpid answers 0, or -1; pause returns once a handler has.
HandlerReturns ==
    /\ handling
    /\ Zombies = {}
    /\ handling' = FALSE
    /\ pc' = IF pc = "paused" THEN "test" ELSE pc
    /\ lostWake' = (lostWake \/ (pc = "toPause" /\ ccount <= 0))
    /\ UNCHANGED <<i, ccount, child, pending>>

--------------------------------------------------------------------------------
Main    == Fork \/ ForkFails \/ ForkDone \/ Test \/ Pause
Handler == (\E c \in Child : Reap(c)) \/ HandlerReturns

Next ==
    \/ Main
    \/ \E c \in Child : ChildExits(c)
    \/ Deliver
    \/ Handler

Spec == Init /\ [][Next]_vars

\* The processes are scheduled, children's sleeps end, and pending signals are delivered.
FairSpec ==
    /\ Spec
    /\ WF_vars(Main) /\ WF_vars(Handler) /\ WF_vars(Deliver)
    /\ \A c \in Child : WF_vars(ChildExits(c))

--------------------------------------------------------------------------------
(* Properties *)

\* The variables of sigchild.c and of the kernel keep their types.
TypeOK ==
    /\ pc \in {"fork", "test", "toPause", "paused", "done"}
    /\ i \in 0..NUM /\ ccount \in 0..NUM
    /\ child \in [Child -> {"none", "failed", "running", "zombie", "reaped"}]
    /\ pending \in BOOLEAN /\ handling \in BOOLEAN /\ lostWake \in BOOLEAN

\* No zombie is forgotten although exits merge into one pending bit: as long as there is
\* one, the handler runs or is going to (what the loop of child_handler2 is for).
ZombieSeen == Zombies # {} => pending \/ handling

\* main returns only when every child has been forked, has exited and has been reaped.
ReturnsLast == pc = "done" => Reaped = Child

\* Nothing can wake main any more.
Stuck == pc = "paused" /\ ~pending /\ ~handling /\ Running = {} /\ Zombies = {}

\* main sleeps for ever only in two cases: a fork failed, so that ccount never comes to 0,
\* or the last handler ran between the test of ccount and the pause.
StuckOnlyIf == Stuck => lostWake \/ \E c \in Child : child[c] = "failed"

\* Every child that has exited is reaped in the end.
EveryChildReaped == \A c \in Child : child[c] = "zombie" ~> child[c] = "reaped"

\* main comes to an end, or is stuck in its pause.
EndsOrStuck == <>[](pc = "done" \/ Stuck)

--------------------------------------------------------------------------------
(* The inductive invariant the proofs use *)

\* ccount counts the children that have not been reaped.
Counted == ccount = NUM - Cardinality(Reaped)

\* The children below i have been forked, or fork failed; main waits once all have.
ForkInv ==
    /\ \A c \in Child : child[c] = "none" <=> i <= c
    /\ pc # "fork" => i = NUM

\* main has gone to sleep, or is about to, with a child left to wait for, unless the
\* handler is still running or ran too early.
SleepInv == pc \in {"toPause", "paused"} => ccount > 0 \/ handling \/ lostWake

DoneInv == pc = "done" => ccount <= 0 /\ ~handling

IInv == TypeOK /\ Counted /\ ForkInv /\ ZombieSeen /\ SleepInv /\ DoneInv
================================================================================
