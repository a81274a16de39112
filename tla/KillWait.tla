-------------------------------- MODULE KillWait --------------------------------
(****************************************************************************)
(* signal_lab/handler.c: main forks NUM children that spin, sends each of   *)
(* them SIGKILL and waits NUM times.  A fork may fail, and its -1 goes to   *)
(* kill, for which it means every process of the user but the caller.       *)
(* signal(SIGKILL, ...) is refused by the kernel: sig_int_handler never     *)
(* runs.                                                                    *)
(****************************************************************************)
EXTENDS Integers, FiniteSets, Sequences

CONSTANTS
    NUM,        \* the number of children
    Other       \* the user's other processes

Child == 0..(NUM - 1)

ASSUME NumAssumption == NUM \in Nat \ {0}
ASSUME OtherAssumption == Other \cap Int = {}

VARIABLES
    pc,             \* the loop main is in
    i,
    pid,            \* pid[c] is the child, -1 if its fork failed, Unset before
    proc,           \* what has become of each process
    child_status,   \* what wait has left there
    reports         \* what main has printed: wpid, and whether as an exit

vars == <<pc, i, pid, proc, child_status, reports>>

Process == Child \cup Other
Unset   == -2

Init ==
    /\ pc = "fork" /\ i = 0
    /\ pid = [c \in Child |-> Unset]
    /\ proc = [p \in Process |-> IF p \in Other THEN "running" ELSE "none"]
    /\ child_status \in {"exited", "killed"}     \* never set: any value
    /\ reports = <<>>

--------------------------------------------------------------------------------
(* main *)

\* The for loops of main: turns 0 to NUM - 1, then on to the next one.
Turn(this, next) ==
    /\ pc = this /\ i < NUM
    /\ IF i = NUM - 1 THEN pc' = next /\ i' = 0 ELSE pc' = this /\ i' = i + 1

Fork ==
    /\ Turn("fork", "kill")
    /\ pid' = [pid EXCEPT ![i] = i]
    /\ proc' = [proc EXCEPT ![i] = "running"]
    /\ UNCHANGED <<child_status, reports>>

ForkFails ==
    /\ Turn("fork", "kill")
    /\ pid' = [pid EXCEPT ![i] = -1]
    /\ UNCHANGED <<proc, child_status, reports>>

\* kill(-1, SIGKILL) each time (mutant).
TargetsEveryone(p) == Process

\* The processes kill(p, SIGKILL) signals.
Targets(p) == IF p = -1 THEN Process ELSE {p}

\* A loop over pid + 1 (mutant).
KillFromSecond ==
    /\ Turn("kill", "wait")
    /\ proc' = [p \in Process |->
                   IF i > 0 /\ p \in Targets(pid[i]) /\ proc[p] = "running" THEN "dying" ELSE proc[p]]
    /\ UNCHANGED <<pid, child_status, reports>>

\* A zombie takes no notice.
Kill ==
    /\ Turn("kill", "wait")
    /\ proc' = [p \in Process |->
                   IF p \in Targets(pid[i]) /\ proc[p] = "running" THEN "dying" ELSE proc[p]]
    /\ UNCHANGED <<pid, child_status, reports>>

Report(wpid, status) == reports' = Append(reports, [wpid |-> wpid, exited |-> status = "exited"])

\* wait answers any child that is dead.
Wait ==
    /\ Turn("wait", "done")
    /\ \E c \in Child :
          /\ proc[c] = "zombie"
          /\ proc' = [proc EXCEPT ![c] = "reaped"]
          /\ child_status' = "killed"
          /\ Report(c, child_status')
    /\ UNCHANGED pid

\* waitpid with WNOHANG (mutant).
WaitFailsUnlessZombie ==
    /\ Turn("wait", "done")
    /\ \A c \in Child : proc[c] # "zombie"
    /\ Report(-1, child_status)
    /\ UNCHANGED <<pid, proc, child_status>>

\* ECHILD: there is no child to wait for, and child_status is printed as it is.
WaitFails ==
    /\ Turn("wait", "done")
    /\ \A c \in Child : proc[c] \in {"none", "reaped"}
    /\ Report(-1, child_status)
    /\ UNCHANGED <<pid, proc, child_status>>

Main == Fork \/ ForkFails \/ Kill \/ Wait \/ WaitFails

--------------------------------------------------------------------------------
\* SIGKILL takes effect; the parents of the others are not of interest.
Die(p) ==
    /\ proc[p] = "dying"
    /\ proc' = [proc EXCEPT ![p] = "zombie"]
    /\ UNCHANGED <<pc, i, pid, child_status, reports>>

Next == Main \/ \E p \in Process : Die(p)

\* main is scheduled, and the kernel delivers SIGKILL.
Spec == Init /\ [][Next]_vars /\ WF_vars(Main) /\ \A p \in Process : WF_vars(Die(p))

--------------------------------------------------------------------------------
(* Properties *)

\* The variables of main and of the kernel keep their types; no loop leaves pid.
TypeOK ==
    /\ pc \in {"fork", "kill", "wait", "done"} /\ i \in Nat
    /\ pid \in [Child -> Child \cup {-1, Unset}]
    /\ proc \in [Process -> {"none", "running", "dying", "zombie", "reaped"}]
    /\ child_status \in {"exited", "killed"}
    /\ reports \in Seq([wpid : Child \cup {-1}, exited : BOOLEAN])

Failed == {c \in Child : pid[c] = -1}

\* main kills none but its own children unless a fork has failed; pid[i] is never one that
\* the kernel could have given to another process, since nothing is reaped before the last kill.
OthersSpared ==
    /\ (\E o \in Other : proc[o] # "running") => Failed # {}
    /\ pc \in {"fork", "kill"} => \A c \in Child : proc[c] # "reaped"

\* Each child is reported once, as killed; of what is printed besides, with wpid -1, there is
\* one line for each failed fork, and it repeats the status of a killed child unless there is
\* no child at all, in which case it may claim anything.
ReportsTrue ==
    /\ \A m, n \in DOMAIN reports :
          reports[m].wpid = reports[n].wpid /\ reports[m].wpid # -1 => m = n
    /\ \A n \in DOMAIN reports : reports[n].exited => Failed = Child
    /\ pc = "done" =>
         Cardinality({n \in DOMAIN reports : reports[n].wpid = -1}) = Cardinality(Failed)

\* main ends, and leaves neither a running child nor a zombie, whichever forks have failed.
EndsClean == <>[](pc = "done" /\ \A c \in Child : proc[c] \in {"none", "reaped"})

--------------------------------------------------------------------------------
(* The inductive invariant the proofs use *)

\* A turn of a loop is one of NUM, and each wait has printed one report.
LoopInv ==
    /\ i < NUM
    /\ Len(reports) = CASE pc = "wait" -> i [] pc = "done" -> NUM [] OTHER -> 0

\* pid[c] is set behind turn c of the first loop; the child is there if it is not -1.
PidInv ==
    \A c \in Child :
        /\ pid[c] \in {c, -1, Unset}
        /\ pid[c] = Unset <=> pc = "fork" /\ i <= c
        /\ proc[c] = "none" <=> pid[c] # c

Reaped == {c \in Child : proc[c] = "reaped"}
Blind  == {n \in DOMAIN reports : reports[n].wpid = -1}

\* Reports name reaped children, each once; a wait fails only when no child is left, and
\* repeats the status of the last one, if there was one.
ReportInv ==
    /\ Reaped # {} => pc \in {"wait", "done"} /\ child_status = "killed"
    /\ \A n \in DOMAIN reports \ Blind : reports[n].wpid \in Reaped
    /\ \A m, n \in DOMAIN reports \ Blind : reports[m].wpid = reports[n].wpid => m = n
    /\ \A n \in DOMAIN reports : reports[n].exited => Failed = Child
    /\ Blind # {} => \A c \in Child : proc[c] \in {"none", "reaped"}

\* Every report is that of a reaped child, or blind.
CountInv == Cardinality(Reaped) + Cardinality(Blind) = Len(reports)

IInv == TypeOK /\ LoopInv /\ PidInv /\ OthersSpared /\ ReportInv /\ CountInv
================================================================================
