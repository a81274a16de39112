----------------------------- MODULE KillWaitProofs -----------------------------
(****************************************************************************)
(* The safety of handler.c for any number of children and any other         *)
(* processes: IInv of KillWait is inductive, whichever forks fail.          *)
(****************************************************************************)
EXTENDS KillWait, FiniteSetTheorems, SequenceTheorems, TLAPS

LEMMA Children ==
    /\ IsFiniteSet(Child) /\ Cardinality(Child) = NUM
    /\ \A S \in SUBSET Child : /\ IsFiniteSet(S) /\ Cardinality(S) \in Nat
                               /\ Cardinality(S) = NUM => S = Child
    /\ \A c \in Child : c \in Int /\ 0 <= c /\ c < NUM
    /\ Child \cap Other = {}
<1>1. IsFiniteSet(Child) /\ Cardinality(Child) = NUM
  BY NumAssumption, FS_Interval DEF Child
<1>2. ASSUME NEW S \in SUBSET Child
      PROVE  /\ IsFiniteSet(S) /\ Cardinality(S) \in Nat
             /\ Cardinality(S) = NUM => S = Child
  <2>1. IsFiniteSet(S) /\ (Cardinality(S) = NUM => S = Child)
    BY <1>1, FS_Subset
  <2> QED  BY <2>1, FS_CardinalityType
<1>3. \A c \in Child : c \in Int /\ 0 <= c /\ c < NUM
  BY NumAssumption DEF Child
<1>4. Child \cap Other = {}
  BY <1>3, OtherAssumption
<1> QED  BY <1>1, <1>2, <1>3, <1>4

\* The blind reports are finitely many.
LEMMA BlindFinite ==
    ASSUME TypeOK
    PROVE  IsFiniteSet(Blind) /\ Cardinality(Blind) \in Nat
<1>1. DOMAIN reports = 1..Len(reports) /\ Len(reports) \in Nat
  BY DEF TypeOK
<1>2. IsFiniteSet(DOMAIN reports)
  BY <1>1, FS_Interval
<1>3. Blind \in SUBSET DOMAIN reports
  BY DEF Blind
<1>4. IsFiniteSet(Blind)
  BY <1>2, <1>3, FS_Subset
<1> QED  BY <1>4, FS_CardinalityType

\* What is printed in one turn of the third loop.
LEMMA OneReport ==
    ASSUME TypeOK, NEW w \in Child \cup {-1}, NEW s \in {"exited", "killed"}, Report(w, s)
    PROVE  /\ reports' \in Seq([wpid : Child \cup {-1}, exited : BOOLEAN])
           /\ Len(reports') = Len(reports) + 1 /\ Len(reports) \in Nat
           /\ DOMAIN reports = 1..Len(reports)
           /\ DOMAIN reports' = DOMAIN reports \cup {Len(reports) + 1}
           /\ Len(reports) + 1 \notin DOMAIN reports
           /\ \A n \in DOMAIN reports : reports'[n] = reports[n]
           /\ reports'[Len(reports) + 1].wpid = w
           /\ reports'[Len(reports) + 1].exited <=> s = "exited"
<1> DEFINE r == [wpid |-> w, exited |-> s = "exited"]
           R == [wpid : Child \cup {-1}, exited : BOOLEAN]
<1>1. reports \in Seq(R) /\ reports' = Append(reports, r)
  BY DEF TypeOK, Report
<1>2. (s = "exited") \in BOOLEAN
  OBVIOUS
<1>3. r \in R
  BY <1>2, Zenon
<1>4. r.wpid = w /\ (r.exited <=> s = "exited")
  BY Zenon
<1> HIDE DEF r, R
<1>5. /\ reports' \in Seq(R)
      /\ Len(reports') = Len(reports) + 1 /\ Len(reports) \in Nat
      /\ DOMAIN reports = 1..Len(reports)
      /\ DOMAIN reports' = 1..(Len(reports) + 1)
      /\ \A n \in 1..Len(reports) : reports'[n] = reports[n]
      /\ reports'[Len(reports) + 1] = r
  BY <1>1, <1>3
<1>6. /\ 1..(Len(reports) + 1) = 1..Len(reports) \cup {Len(reports) + 1}
      /\ Len(reports) + 1 \notin 1..Len(reports)
  BY <1>5
<1> QED  BY <1>4, <1>5, <1>6 DEF R

LEMMA InitInv == Init => IInv
<1> SUFFICES ASSUME Init  PROVE IInv
  OBVIOUS
<1>1. reports = <<>> /\ DOMAIN reports = {} /\ Len(reports) = 0
  BY DEF Init
<1>2. Reaped = {} /\ Blind = {}
  BY <1>1, Children DEF Init, Reaped, Blind, Process
<1>3. TypeOK
  BY <1>1, Children DEF Init, TypeOK, Process, Unset
<1>4. LoopInv /\ PidInv
  BY <1>1, Children, NumAssumption DEF Init, LoopInv, PidInv, Process, Unset
<1>5. OthersSpared
  BY Children DEF Init, OthersSpared, Process
<1>6. ReportInv
  BY <1>1, <1>2 DEF Init, ReportInv
<1>7. CountInv
  BY <1>1, <1>2, FS_EmptySet DEF CountInv
<1> QED  BY <1>3, <1>4, <1>5, <1>6, <1>7 DEF IInv

\* Nobody is reaped, and nothing printed, before the third loop.
LEMMA Before ==
    ASSUME IInv, pc \in {"fork", "kill"}
    PROVE  Reaped = {} /\ Blind = {} /\ reports = <<>> /\ DOMAIN reports = {}
<1>1. Len(reports) = 0 /\ reports \in Seq([wpid : Child \cup {-1}, exited : BOOLEAN])
  BY DEF IInv, LoopInv, TypeOK
<1>2. reports = <<>> /\ DOMAIN reports = {}
  BY <1>1
<1> QED  BY <1>2 DEF IInv, ReportInv, Blind

\* A step of the first two loops keeps what is said of the reports.
LEMMA BeforeStays ==
    ASSUME IInv, pc \in {"fork", "kill"}, Reaped' = {},
           UNCHANGED <<child_status, reports>>, pc' \in {"fork", "kill", "wait"}
    PROVE  ReportInv' /\ CountInv'
<1>1. Reaped = {} /\ Blind = {} /\ reports = <<>> /\ DOMAIN reports = {}
  BY Before
<1>2. Blind' = {} /\ DOMAIN reports' = {}
  BY <1>1 DEF Blind
<1> QED  BY <1>1, <1>2 DEF IInv, ReportInv, CountInv

\* A turn of a loop stays within it or goes on to the next.
LEMMA TurnBounds ==
    ASSUME TypeOK, NEW this, NEW next, Turn(this, next)
    PROVE  /\ pc = this /\ i \in Nat /\ i < NUM /\ i' \in Nat /\ i' < NUM
           /\ i \in Child
           /\ \/ pc' = this /\ i' = i + 1
              \/ pc' = next /\ i' = 0 /\ i = NUM - 1
<1>1. i \in Nat /\ NUM \in Nat /\ NUM > 0
  BY NumAssumption DEF TypeOK
<1> QED  BY <1>1 DEF Turn, Child

\* fork, with the child or without.
LEMMA ForkInv ==
    ASSUME IInv, Fork \/ ForkFails
    PROVE  IInv'
<1>1. /\ pc = "fork" /\ i \in Nat /\ i < NUM /\ i' \in Nat /\ i' < NUM /\ i \in Child
      /\ \/ pc' = "fork" /\ i' = i + 1
         \/ pc' = "kill" /\ i' = 0 /\ i = NUM - 1
  BY TurnBounds DEF IInv, Fork, ForkFails
<1>2. UNCHANGED <<child_status, reports>>
  BY DEF Fork, ForkFails
<1>3. Reaped = {} /\ reports = <<>>
  BY <1>1, Before
<1>4. /\ pid \in [Child -> Child \cup {-1, Unset}]
      /\ proc \in [Process -> {"none", "running", "dying", "zombie", "reaped"}]
  BY DEF IInv, TypeOK
<1>5. \/ pid' = [pid EXCEPT ![i] = i] /\ proc' = [proc EXCEPT ![i] = "running"]
      \/ pid' = [pid EXCEPT ![i] = -1] /\ proc' = proc
  BY DEF Fork, ForkFails
<1>6. pid[i] = Unset /\ proc[i] = "none"
  BY <1>1, Children DEF IInv, PidInv, Unset
<1>7. Reaped' = {}
  BY <1>3, <1>4, <1>5 DEF Reaped, Process
<1>8. TypeOK'
  BY <1>1, <1>2, <1>4, <1>5 DEF IInv, TypeOK, Process
<1>9. LoopInv'
  BY <1>1, <1>2 DEF IInv, LoopInv
<1>10. PidInv'
  <2>1. ASSUME NEW c \in Child
        PROVE  /\ pid'[c] \in {c, -1, Unset}
               /\ pid'[c] = Unset <=> pc' = "fork" /\ i' <= c
               /\ proc'[c] = "none" <=> pid'[c] # c
    <3>1. c \in Int /\ 0 <= c /\ c < NUM /\ c \in Process
      BY Children DEF Process
    <3>2. /\ pid[c] \in {c, -1, Unset}
          /\ pid[c] = Unset <=> i <= c
          /\ proc[c] = "none" <=> pid[c] # c
      BY <1>1 DEF IInv, PidInv
    <3>3. CASE c = i
      BY <3>1, <3>3, <1>1, <1>4, <1>5, <1>6 DEF Unset
    <3>4. CASE c # i
      <4>1. pid'[c] = pid[c] /\ proc'[c] = proc[c]
        BY <3>1, <3>4, <1>4, <1>5
      <4>2. i <= c <=> pc' = "fork" /\ i' <= c
        BY <3>1, <3>4, <1>1, NumAssumption
      <4> QED  BY <3>2, <4>1, <4>2
    <3> QED  BY <3>3, <3>4
  <2> QED  BY <2>1 DEF PidInv
<1>11. OthersSpared'
  <2>1. ASSUME NEW o \in Other, proc'[o] # "running"  PROVE Failed' # {}
    <3>1. o # i /\ o \in Process
      BY <1>1, Children DEF Process
    <3>2. proc[o] # "running"
      BY <2>1, <3>1, <1>4, <1>5
    <3>3. PICK c \in Child : pid[c] = -1
      BY <3>2 DEF IInv, OthersSpared, Failed
    <3>4. pid'[c] = -1
      BY <3>3, <1>4, <1>5, <1>6 DEF Unset
    <3> QED  BY <3>3, <3>4 DEF Failed
  <2>2. \A c \in Child : proc'[c] # "reaped"
    BY <1>7 DEF Reaped
  <2> QED  BY <2>1, <2>2 DEF OthersSpared
<1>12. ReportInv' /\ CountInv'
  BY <1>1, <1>2, <1>7, BeforeStays
<1> QED  BY <1>8, <1>9, <1>10, <1>11, <1>12 DEF IInv

\* kill meets running processes only, and others only through -1.
LEMMA KillInv ==
    ASSUME IInv, Kill
    PROVE  IInv'
<1>1. /\ pc = "kill" /\ i \in Nat /\ i < NUM /\ i' \in Nat /\ i' < NUM /\ i \in Child
      /\ \/ pc' = "kill" /\ i' = i + 1
         \/ pc' = "wait" /\ i' = 0 /\ i = NUM - 1
  BY TurnBounds DEF IInv, Kill
<1>2. UNCHANGED <<pid, child_status, reports>>
  BY DEF Kill
<1>3. Reaped = {} /\ reports = <<>>
  BY <1>1, Before
<1>4. proc \in [Process -> {"none", "running", "dying", "zombie", "reaped"}]
  BY DEF IInv, TypeOK
<1>5. proc' = [p \in Process |->
                  IF p \in Targets(pid[i]) /\ proc[p] = "running" THEN "dying" ELSE proc[p]]
  BY DEF Kill
<1>6. \A c \in Child : /\ proc'[c] = "none" <=> proc[c] = "none"
                       /\ proc'[c] = "reaped" <=> proc[c] = "reaped"
  BY <1>5 DEF Process
<1>7. Reaped' = {}
  BY <1>3, <1>6 DEF Reaped
<1>8. TypeOK'
  BY <1>1, <1>2, <1>4, <1>5 DEF IInv, TypeOK
<1>9. LoopInv'
  BY <1>1, <1>2, <1>3, NumAssumption DEF IInv, LoopInv
<1>10. PidInv'
  BY <1>1, <1>2, <1>6 DEF IInv, PidInv
<1>11. OthersSpared'
  <2>1. ASSUME NEW o \in Other, proc'[o] # "running"  PROVE Failed' # {}
    <3>1. CASE proc[o] # "running"
      BY <3>1, <1>2 DEF IInv, OthersSpared, Failed
    <3>2. CASE proc[o] = "running"
      <4>1. o \in Targets(pid[i])
        BY <2>1, <3>2, <1>5 DEF Process
      <4>2. pid[i] \in Int
        BY <1>1, Children DEF IInv, PidInv, Unset
      <4>3. pid[i] = -1
        BY <4>1, <4>2, OtherAssumption DEF Targets
      <4> QED  BY <4>3, <1>1, <1>2 DEF Failed
    <3> QED  BY <3>1, <3>2
  <2>2. \A c \in Child : proc'[c] # "reaped"
    BY <1>7 DEF Reaped
  <2> QED  BY <2>1, <2>2 DEF OthersSpared
<1>12. ReportInv' /\ CountInv'
  BY <1>1, <1>2, <1>7, BeforeStays
<1> QED  BY <1>8, <1>9, <1>10, <1>11, <1>12 DEF IInv

\* wait answers a dead child.
LEMMA WaitInv ==
    ASSUME IInv, Wait
    PROVE  IInv'
<1>1. /\ pc = "wait" /\ i \in Nat /\ i < NUM /\ i' \in Nat /\ i' < NUM
      /\ \/ pc' = "wait" /\ i' = i + 1
         \/ pc' = "done" /\ i' = 0 /\ i = NUM - 1
  BY TurnBounds DEF IInv, Wait
<1>2. UNCHANGED pid /\ Failed' = Failed
  BY DEF Wait, Failed
<1>3. PICK c \in Child : /\ proc[c] = "zombie"
                         /\ proc' = [proc EXCEPT ![c] = "reaped"]
                         /\ child_status' = "killed"
                         /\ Report(c, child_status')
  BY DEF Wait
<1>4. proc \in [Process -> {"none", "running", "dying", "zombie", "reaped"}]
  BY DEF IInv, TypeOK
<1>5. /\ reports' \in Seq([wpid : Child \cup {-1}, exited : BOOLEAN])
      /\ Len(reports') = Len(reports) + 1 /\ Len(reports) \in Nat
      /\ DOMAIN reports' = DOMAIN reports \cup {Len(reports) + 1}
      /\ \A n \in DOMAIN reports : reports'[n] = reports[n]
      /\ reports'[Len(reports) + 1].wpid = c
      /\ ~reports'[Len(reports) + 1].exited
  BY <1>3, OneReport DEF IInv
<1>6. c \notin Reaped /\ Reaped' = Reaped \cup {c}
  BY <1>3, <1>4 DEF Reaped, Process
<1>7. Blind = {} /\ Blind' = {}
  <2>1. Blind = {}
    BY <1>3 DEF IInv, ReportInv
  <2>2. c # -1
    BY Children
  <2> QED  BY <2>1, <2>2, <1>5 DEF Blind
<1>8. TypeOK'
  BY <1>1, <1>2, <1>3, <1>4, <1>5 DEF IInv, TypeOK
<1>9. LoopInv'
  BY <1>1, <1>5, NumAssumption DEF IInv, LoopInv
<1>10. PidInv'
  BY <1>1, <1>2, <1>3, <1>4 DEF IInv, PidInv, Process
<1>11. OthersSpared'
  BY <1>1, <1>2, <1>3, <1>4, Children DEF IInv, OthersSpared, Process
<1>12. ReportInv'
  <2>1. \A n \in DOMAIN reports : reports[n].wpid \in Reaped
    BY <1>7 DEF IInv, ReportInv
  <2>2. \A n \in DOMAIN reports' : reports'[n].wpid \in Reaped'
    BY <2>1, <1>5, <1>6
  <2>3. \A m, n \in DOMAIN reports : reports[m].wpid = reports[n].wpid => m = n
    BY <1>7 DEF IInv, ReportInv
  <2>4. \A m, n \in DOMAIN reports' : reports'[m].wpid = reports'[n].wpid => m = n
    BY <2>1, <2>3, <1>5, <1>6
  <2>5. ASSUME NEW n \in DOMAIN reports', reports'[n].exited  PROVE Failed' = Child
    <3>1. n \in DOMAIN reports /\ reports[n].exited
      BY <2>5, <1>5
    <3> QED  BY <3>1, <1>2 DEF IInv, ReportInv
  <2> QED  BY <2>2, <2>4, <2>5, <1>1, <1>3, <1>7 DEF ReportInv
<1>13. CountInv'
  <2>1. Cardinality(Reaped') = Cardinality(Reaped) + 1
    BY <1>6, Children, FS_AddElement DEF Reaped
  <2>2. Cardinality(Reaped) \in Nat
    BY Children DEF Reaped
  <2> QED  BY <2>1, <2>2, <1>5, <1>7, FS_EmptySet DEF IInv, CountInv
<1> QED  BY <1>8, <1>9, <1>10, <1>11, <1>12, <1>13 DEF IInv

\* wait fails: nobody is left to report.
LEMMA WaitFailsInv ==
    ASSUME IInv, WaitFails
    PROVE  IInv'
<1>1. /\ pc = "wait" /\ i \in Nat /\ i < NUM /\ i' \in Nat /\ i' < NUM
      /\ \/ pc' = "wait" /\ i' = i + 1
         \/ pc' = "done" /\ i' = 0 /\ i = NUM - 1
  BY TurnBounds DEF IInv, WaitFails
<1>2. UNCHANGED <<pid, proc, child_status>> /\ Failed' = Failed /\ Reaped' = Reaped
  BY DEF WaitFails, Failed, Reaped
<1>3. /\ \A c \in Child : proc[c] \in {"none", "reaped"}
      /\ Report(-1, child_status) /\ child_status \in {"exited", "killed"}
  BY DEF IInv, TypeOK, WaitFails
<1>4. /\ reports' \in Seq([wpid : Child \cup {-1}, exited : BOOLEAN])
      /\ Len(reports') = Len(reports) + 1 /\ Len(reports) \in Nat
      /\ DOMAIN reports' = DOMAIN reports \cup {Len(reports) + 1}
      /\ Len(reports) + 1 \notin DOMAIN reports
      /\ \A n \in DOMAIN reports : reports'[n] = reports[n]
      /\ reports'[Len(reports) + 1].wpid = -1
      /\ reports'[Len(reports) + 1].exited <=> child_status = "exited"
  BY <1>3, OneReport DEF IInv
<1>5. Blind' = Blind \cup {Len(reports) + 1} /\ Len(reports) + 1 \notin Blind
  BY <1>4 DEF Blind
<1>6. TypeOK'
  BY <1>1, <1>2, <1>4 DEF IInv, TypeOK
<1>7. LoopInv'
  BY <1>1, <1>4, NumAssumption DEF IInv, LoopInv
<1>8. PidInv' /\ OthersSpared'
  BY <1>1, <1>2 DEF IInv, PidInv, OthersSpared
<1>9. ReportInv'
  <2>1. DOMAIN reports' \ Blind' = DOMAIN reports \ Blind
    BY <1>4, <1>5
  <2>2. ASSUME NEW n \in DOMAIN reports', reports'[n].exited  PROVE Failed' = Child
    <3>1. CASE n \in DOMAIN reports
      <4>1. reports[n].exited
        BY <2>2, <3>1, <1>4
      <4> QED  BY <3>1, <4>1, <1>2 DEF IInv, ReportInv
    <3>2. CASE n = Len(reports) + 1
      <4>1. child_status # "killed"
        BY <2>2, <3>2, <1>4
      <4>2. \A c \in Child : proc[c] = "none"
        BY <4>1, <1>3 DEF IInv, ReportInv, Reaped
      <4>3. \A c \in Child : pid[c] = -1
        BY <4>2, <1>1 DEF IInv, PidInv
      <4> QED  BY <4>3, <1>2 DEF Failed
    <3> QED  BY <3>1, <3>2, <1>4
  <2>3. Reaped' # {} => pc' \in {"wait", "done"} /\ child_status' = "killed"
    BY <1>1, <1>2 DEF IInv, ReportInv
  <2>4. /\ \A n \in DOMAIN reports' \ Blind' : reports'[n].wpid \in Reaped'
        /\ \A m, n \in DOMAIN reports' \ Blind' : reports'[m].wpid = reports'[n].wpid => m = n
    BY <2>1, <1>2, <1>4 DEF IInv, ReportInv
  <2> QED  BY <2>2, <2>3, <2>4, <1>2, <1>3 DEF ReportInv
<1>10. CountInv'
  <2>1. Cardinality(Blind') = Cardinality(Blind) + 1 /\ Cardinality(Blind) \in Nat
    BY <1>5, BlindFinite, FS_AddElement DEF IInv
  <2>2. Cardinality(Reaped) \in Nat
    BY Children DEF Reaped
  <2> QED  BY <2>1, <2>2, <1>2, <1>4 DEF IInv, CountInv
<1> QED  BY <1>6, <1>7, <1>8, <1>9, <1>10 DEF IInv

\* A process that dies was signalled before.
LEMMA DieInv ==
    ASSUME IInv, NEW p \in Process, Die(p)
    PROVE  IInv'
<1>1. /\ proc[p] = "dying" /\ proc' = [proc EXCEPT ![p] = "zombie"]
      /\ UNCHANGED <<pc, i, pid, child_status, reports>>
  BY DEF Die
<1>2. proc \in [Process -> {"none", "running", "dying", "zombie", "reaped"}]
  BY DEF IInv, TypeOK
<1>3. \A q \in Process : /\ proc'[q] = "none" <=> proc[q] = "none"
                         /\ proc'[q] = "reaped" <=> proc[q] = "reaped"
                         /\ proc'[q] = "running" <=> proc[q] = "running"
  BY <1>1, <1>2
<1>4. Reaped' = Reaped /\ Blind' = Blind /\ Failed' = Failed
  BY <1>1, <1>3 DEF Reaped, Blind, Failed, Process
<1>5. TypeOK' /\ LoopInv'
  BY <1>1, <1>2 DEF IInv, TypeOK, LoopInv
<1>6. PidInv' /\ OthersSpared'
  BY <1>1, <1>3, <1>4 DEF IInv, PidInv, OthersSpared, Process
<1>7. ReportInv'
  <2>1. Blind # {} => \A c \in Child : proc'[c] \in {"none", "reaped"}
    BY <1>3 DEF IInv, ReportInv, Process
  <2> QED  BY <2>1, <1>1, <1>4 DEF IInv, ReportInv
<1>8. CountInv'
  BY <1>1, <1>4 DEF IInv, CountInv
<1> QED  BY <1>5, <1>6, <1>7, <1>8 DEF IInv

LEMMA StutterInv ==
    ASSUME IInv, UNCHANGED vars
    PROVE  IInv'
<1>1. UNCHANGED <<pc, i, pid, proc, child_status, reports>>
  BY DEF vars
<1>2. Reaped' = Reaped /\ Blind' = Blind /\ Failed' = Failed
  BY <1>1 DEF Reaped, Blind, Failed
<1> QED  BY <1>1, <1>2 DEF IInv, TypeOK, LoopInv, PidInv, OthersSpared, ReportInv, CountInv

LEMMA NextInv == IInv /\ [Next]_vars => IInv'
<1> SUFFICES ASSUME IInv, [Next]_vars  PROVE IInv'
  OBVIOUS
<1>1. CASE Fork \/ ForkFails
  BY <1>1, ForkInv
<1>2. CASE Kill
  BY <1>2, KillInv
<1>3. CASE Wait
  BY <1>3, WaitInv
<1>4. CASE WaitFails
  BY <1>4, WaitFailsInv
<1>5. CASE \E p \in Process : Die(p)
  BY <1>5, DieInv
<1>6. CASE UNCHANGED vars
  BY <1>6, StutterInv
<1> QED  BY <1>1, <1>2, <1>3, <1>4, <1>5, <1>6 DEF Next, Main

\* The blind reports at the end are as many as the failed forks.
LEMMA BlindAtEnd ==
    ASSUME IInv, pc = "done"
    PROVE  Cardinality(Blind) = Cardinality(Failed)
<1>1. /\ Cardinality(Reaped) + Cardinality(Blind) = NUM
      /\ Reaped \in SUBSET Child /\ IsFiniteSet(Reaped) /\ Cardinality(Reaped) \in Nat
      /\ Cardinality(Blind) \in Nat /\ NUM \in Nat
  BY Children, BlindFinite, NumAssumption DEF IInv, CountInv, LoopInv, Reaped
<1>2. \A c \in Child : pid[c] \in {c, -1} /\ (proc[c] = "none" <=> pid[c] = -1)
  BY Children DEF IInv, PidInv
<1>3. CASE Blind = {}
  <2>1. Reaped = Child
    BY <1>1, <1>3, Children, FS_EmptySet
  <2>2. Failed = {}
    BY <2>1, <1>2 DEF Reaped, Failed
  <2> QED  BY <1>3, <2>2
<1>4. CASE Blind # {}
  <2>1. \A c \in Child : proc[c] \in {"none", "reaped"}
    BY <1>4 DEF IInv, ReportInv
  <2>2. Failed = Child \ Reaped
    BY <2>1, <1>2 DEF Failed, Reaped
  <2>3. Cardinality(Child \ Reaped) = Cardinality(Child) - Cardinality(Reaped)
    <3>1. Cardinality(Child \ Reaped) = Cardinality(Child) - Cardinality(Child \cap Reaped)
      BY Children, FS_Difference
    <3>2. Child \cap Reaped = Reaped
      BY <1>1
    <3> QED  BY <3>1, <3>2
  <2> QED  BY <2>2, <2>3, <1>1, Children
<1> QED  BY <1>3, <1>4

LEMMA ReportsFollow == IInv => ReportsTrue
<1> SUFFICES ASSUME IInv  PROVE ReportsTrue
  OBVIOUS
<1>1. ASSUME NEW m \in DOMAIN reports, NEW n \in DOMAIN reports,
             reports[m].wpid = reports[n].wpid, reports[m].wpid # -1
      PROVE  m = n
  BY <1>1 DEF IInv, ReportInv, Blind
<1>2. \A n \in DOMAIN reports : reports[n].exited => Failed = Child
  BY DEF IInv, ReportInv
<1>3. pc = "done" => Cardinality(Blind) = Cardinality(Failed)
  BY BlindAtEnd
<1> QED  BY <1>1, <1>2, <1>3 DEF ReportsTrue, Blind

--------------------------------------------------------------------------------
\* IInv holds in every state handler.c reaches, for any number of children.
THEOREM Inductive == Spec => []IInv
  BY InitInv, NextInv, PTL DEF Spec

\* The variables of handler.c keep their types; i never leaves pid.
THEOREM TypeCorrect == Spec => []TypeOK
<1>1. IInv => TypeOK
  BY DEF IInv
<1> QED  BY <1>1, Inductive, PTL

\* kill(pid[i], SIGKILL) meets nobody but main's children unless a fork has failed.
THEOREM OnlyChildrenKilled == Spec => []OthersSpared
<1>1. IInv => OthersSpared
  BY DEF IInv
<1> QED  BY <1>1, Inductive, PTL

\* main reports each child at most once, claims an exit only if it has no child, and
\* prints one line without a child for each failed fork.
THEOREM ReportsAreTrue == Spec => []ReportsTrue
  BY ReportsFollow, Inductive, PTL
================================================================================
